----------------------------- MODULE CodeGenProofs -----------------------------
(* Theorems about CodeGen, for every job CodeGenAssumption allows: packing *)
(* gives every function its interface, and lowering leaves nothing behind. *)
EXTENDS CodeGen, SequenceTheorems, FiniteSetTheorems, TLAPS

-----------------------------------------------------------------------------
(* Sequences                                                               *)

LEMMA RangeOfConcatenation ==
    ASSUME NEW S, NEW s \in Seq(S), NEW t \in Seq(S)
    PROVE  Range(s \o t) = Range(s) \cup Range(t)
<1>1. ASSUME NEW x \in Range(s \o t) PROVE x \in Range(s) \cup Range(t)
    <2>1. PICK i \in DOMAIN (s \o t) : x = (s \o t)[i]
        BY DEF Range
    <2>2. CASE i <= Len(s)
        BY <2>1, <2>2 DEF Range
    <2>3. CASE i > Len(s)
        <3>1. i - Len(s) \in DOMAIN t /\ x = t[i - Len(s)]
            BY <2>1, <2>3
        <3> QED
            BY <3>1 DEF Range
    <2> QED
        BY <2>1, <2>2, <2>3
<1>2. ASSUME NEW x \in Range(s) PROVE x \in Range(s \o t)
    <2>1. PICK i \in DOMAIN s : x = s[i]
        BY DEF Range
    <2>2. i \in DOMAIN (s \o t) /\ (s \o t)[i] = x
        BY <2>1
    <2> QED
        BY <2>2 DEF Range
<1>3. ASSUME NEW x \in Range(t) PROVE x \in Range(s \o t)
    <2>1. PICK i \in DOMAIN t : x = t[i]
        BY DEF Range
    <2>2. i + Len(s) \in DOMAIN (s \o t) /\ (s \o t)[i + Len(s)] = x
        BY <2>1
    <2> QED
        BY <2>2 DEF Range
<1> QED
    BY <1>1, <1>2, <1>3

LEMMA LengthOfConcatenation ==
    ASSUME NEW S, NEW s \in Seq(S), NEW t \in Seq(S)
    PROVE  Len(s \o t) = Len(s) + Len(t)
OBVIOUS

LEMMA RangeOfHeadAndTail ==
    ASSUME NEW S, NEW s \in Seq(S), s # <<>>
    PROVE  /\ Head(s) \in S /\ Tail(s) \in Seq(S)
           /\ Range(s) = {Head(s)} \cup Range(Tail(s))
<1>1. Head(s) \in S /\ Tail(s) \in Seq(S)
    OBVIOUS
<1>2. ASSUME NEW x \in Range(s) PROVE x \in {Head(s)} \cup Range(Tail(s))
    <2>1. PICK i \in DOMAIN s : x = s[i]
        BY DEF Range
    <2>2. CASE i = 1
        BY <2>1, <2>2
    <2>3. CASE i # 1
        <3>1. i - 1 \in DOMAIN Tail(s) /\ Tail(s)[i - 1] = x
            BY <2>1, <2>3
        <3> QED
            BY <3>1 DEF Range
    <2> QED
        BY <2>2, <2>3
<1>3. Head(s) \in Range(s)
    <2>1. 1 \in DOMAIN s /\ s[1] = Head(s)
        OBVIOUS
    <2> QED
        BY <2>1 DEF Range
<1>4. ASSUME NEW x \in Range(Tail(s)) PROVE x \in Range(s)
    <2>1. PICK i \in DOMAIN Tail(s) : x = Tail(s)[i]
        BY DEF Range
    <2>2. i + 1 \in DOMAIN s /\ s[i + 1] = x
        BY <2>1
    <2> QED
        BY <2>2 DEF Range
<1> QED
    BY <1>1, <1>2, <1>3, <1>4

LEMMA ElementInRange == \A s : \A i \in DOMAIN s : s[i] \in Range(s)
BY DEF Range

LEMMA RangeOfOne == \A x : Range(<<x>>) = {x}
BY DEF Range

LEMMA RangeOfNone == Range(<<>>) = {}
BY DEF Range

LEMMA RangeIn ==
    ASSUME NEW S, NEW s \in Seq(S)
    PROVE  Range(s) \subseteq S
BY DEF Range

-----------------------------------------------------------------------------
(* Lowering                                                                *)

\* Operations without definitions, which use what the module they came from
\* has, and set globals that are among them and are no constants.
Lowered(s) ==
    \A o \in Range(s) :
        /\ o.op # "define"
        /\ \A u \in o.uses : \E p \in Range(job.ops) : p.id = u /\ p.op # "define"
        /\ o.op = "set_value" =>
              \E g \in Range(s) : g.op = "global" /\ g.name = o.name /\ ~g.constant

\* The pass goes from operations of the job to lowered ones, and loses none
\* but definitions on the way.
LoweringInv ==
    /\ job \in Jobs
    /\ job.kind # "opt" => stage # "printed"
    /\ job.kind = "opt" =>
          /\ stage \notin {"generate", "pack", "published"}
          /\ stage \in {"passes", "printed"} =>
                /\ ops \in Seq(Ops) /\ out \in Seq(Ops)
                /\ \A p \in Range(job.ops) :
                      p.op # "define" => p \in Range(ops) \cup Range(out)
                /\ \/ /\ passes = <<"LowerSLIR">> /\ stage = "passes"
                      /\ Range(ops) \subseteq Range(job.ops) /\ Lowered(out)
                   \/ passes = <<>> /\ out = <<>> /\ Lowered(ops)

LEMMA JobOperations ==
    ASSUME job \in Jobs, job.kind = "opt", NEW o \in Range(job.ops)
    PROVE  /\ job.named \in BOOLEAN /\ o \in Ops /\ o.op \in SLIROps
           /\ o.op = "define" => o.uses # {}
           /\ \A u \in o.uses : \E p \in Range(job.ops) : p.id = u /\ p.op # "define"
<1>1. PICK i \in DOMAIN job.ops : o = job.ops[i]
    BY DEF Range
<1>2. job.named \in BOOLEAN /\ job.ops \in Seq(Ops)
    BY CodeGenAssumption
<1>3. /\ o.op \in SLIROps
      /\ o.op = "define" => o.uses # {}
      /\ \A u \in o.uses :
            \E k \in DOMAIN job.ops : job.ops[k].id = u /\ job.ops[k].op # "define"
    BY <1>1, CodeGenAssumption
<1>4. \A k \in DOMAIN job.ops : job.ops[k] \in Range(job.ops)
    BY DEF Range
<1>5. o \in Ops
    BY <1>1, <1>2
<1>6. \A u \in o.uses : \E p \in Range(job.ops) : p.id = u /\ p.op # "define"
    BY <1>3, <1>4
<1> QED
    BY <1>2, <1>3, <1>5, <1>6

LEMMA EraseNothing == \A s : Erase({}, s) = s
BY DEF Erase

LEMMA PlainOperation == Op \in Ops
BY DEF Op, Ops, Words, Made

\* What replaces a definition: at most a global and an operation that sets it.
Definition(o, front, at) ==
    /\ front \in Seq(Ops) /\ at \in Seq(Ops)
    /\ \A p \in Range(front) \cup Range(at) :
          /\ p.op \in {"global", "set_value"} /\ p.uses \subseteq o.uses
          /\ p.op = "set_value" =>
                \E g \in Range(front) : g.op = "global" /\ g.name = p.name /\ ~g.constant

\* No value goes with a definition that uses it: the definition is one of the
\* operations of the module until the pass is over.
LEMMA LowerDefineResult ==
    ASSUME job \in Jobs, job.kind = "opt", NEW o \in Range(job.ops), o.op = "define",
           ops \in Seq(Ops), out \in Seq(Ops), o \in Range(ops)
    PROVE  LET r == LowerDefine(o)
           IN  /\ r.ok
               /\ ~r.died => r.gone = {} /\ Definition(o, r.front, r.at)
<1> DEFINE v == CHOOSE p \in Range(job.ops) : p.id \in o.uses
           name == FQ(o.name)
           global == [Op EXCEPT !.op = "global", !.name = name, !.scalar = v.scalar]
           constant == [global EXCEPT !.constant = TRUE, !.val = v.val]
           set == [Op EXCEPT !.op = "set_value", !.uses = o.uses, !.name = name]
<1>1. job.named \in BOOLEAN /\ o \in Ops /\ o.uses # {} /\ o.top \in BOOLEAN
    BY JobOperations DEF Ops
<1>2. v \in Range(job.ops) /\ v.id \in o.uses
    <2>1. \E p \in Range(job.ops) : p.id \in o.uses
        BY <1>1, JobOperations
    <2> QED
        BY <2>1
<1>3. v \in Ops
    BY <1>2, JobOperations
<1> HIDE DEF v
<1>4. UnusedConstants(o, v) = {}
    <2>1. o \in Range(ops \o out)
        BY RangeOfConcatenation
    <2> QED
        BY <1>2, <2>1 DEF UnusedConstants
<1>5. name \in Words
    <2>1. o.name \in Seq(Parts) /\ <<"ns", "/">> \in Seq(Parts)
        BY <1>1, CodeGenAssumption DEF Ops, Words
    <2>2. <<"ns", "/">> \o o.name \in Seq(Parts)
        BY <2>1
    <2> QED
        BY <2>2 DEF FQ, Words
<1> HIDE DEF name
<1>6. /\ global \in Ops /\ global.op = "global" /\ global.uses = {}
      /\ global.name = name /\ ~global.constant
    <2>1. global \in Ops
        BY <1>3, <1>5, PlainOperation DEF Ops, Made
    <2> QED
        BY <2>1 DEF Op
<1>7. constant \in Ops /\ constant.op = "global" /\ constant.uses = {}
    <2>1. constant \in Ops
        BY <1>3, <1>6 DEF Ops
    <2> QED
        BY <2>1 DEF Op
<1>8. /\ set \in Ops /\ set.op = "set_value" /\ set.uses = o.uses
      /\ set.name = name
    <2>1. set \in Ops
        BY <1>1, <1>5, PlainOperation DEF Ops, Made
    <2> QED
        BY <2>1 DEF Op
<1> HIDE DEF constant, set
<1> DEFINE r == LowerDefine(o)
<1>9. r = CASE v.op = "fn" -> Becomes(o, <<>>)
            [] v.op # "fn" /\ ~job.named -> [Stays(o) EXCEPT !.died = TRUE]
            [] v.op \in {"value", "symbol"} /\ job.named ->
                  [Becomes(o, <<constant>>) EXCEPT !.gone = UnusedConstants(o, v)]
            [] v.op \notin {"fn", "value", "symbol"} /\ job.named /\ o.top -> Becomes(o, <<>>)
            [] v.op \notin {"fn", "value", "symbol"} /\ job.named /\ ~o.top ->
                  [Becomes(o, <<set>>) EXCEPT !.front = <<global>>]
    BY DEF LowerDefine, v, constant, set, name
<1> HIDE DEF global, r
<1>10. CASE v.op = "fn" \/ (v.op \notin {"fn", "value", "symbol"} /\ job.named /\ o.top)
    <2>1. r = Becomes(o, <<>>)
        BY <1>9, <1>10
    <2> QED
        BY <2>1, RangeOfNone DEF Becomes, Stays, Definition, r
<1>11. CASE v.op # "fn" /\ ~job.named
    <2>1. r = [Stays(o) EXCEPT !.died = TRUE]
        BY <1>9, <1>11
    <2>2. r.ok /\ r.died
        BY <2>1 DEF Stays
    <2> QED
        BY <2>2 DEF r
<1>12. CASE v.op \in {"value", "symbol"} /\ job.named
    <2>1. r = [Becomes(o, <<constant>>) EXCEPT !.gone = UnusedConstants(o, v)]
        BY <1>9, <1>12
    <2>2. r.ok /\ r.gone = {} /\ r.front = <<>> /\ r.at = <<constant>>
        BY <1>4, <2>1 DEF Becomes, Stays
    <2>3. Range(<<>>) \cup Range(<<constant>>) = {constant}
        BY RangeOfNone, RangeOfOne
    <2> QED
        BY <1>7, <2>2, <2>3 DEF Definition, r
<1>13. CASE v.op \notin {"fn", "value", "symbol"} /\ job.named /\ ~o.top
    <2>1. r = [Becomes(o, <<set>>) EXCEPT !.front = <<global>>]
        BY <1>9, <1>13
    <2>2. r.ok /\ r.gone = {} /\ r.front = <<global>> /\ r.at = <<set>>
        BY <2>1 DEF Becomes, Stays
    <2>3. Range(<<global>>) = {global} /\ Range(<<set>>) = {set}
        BY RangeOfOne
    <2> QED
        BY <1>6, <1>8, <2>2, <2>3 DEF Definition, r
<1> QED
    BY <1>1, <1>10, <1>11, <1>12, <1>13

LEMMA ConvertLowers ==
    ASSUME LoweringInv, job.kind = "opt", ConvertNext
    PROVE  LoweringInv'
<1> DEFINE o == Head(ops)
           r == LowerSLIR(o)
<1>1. /\ job \in Jobs /\ stage = "passes" /\ passes = <<"LowerSLIR">> /\ ops # <<>>
      /\ ops \in Seq(Ops) /\ out \in Seq(Ops)
      /\ Range(ops) \subseteq Range(job.ops) /\ Lowered(out)
      /\ \A p \in Range(job.ops) : p.op # "define" => p \in Range(ops) \cup Range(out)
    BY DEF LoweringInv, ConvertNext
<1>2. Head(passes) = "LowerSLIR" /\ UNCHANGED <<job, passes, funcs, next>>
    BY <1>1 DEF ConvertNext
<1>3. /\ Tail(ops) \in Seq(Ops) /\ o \in Range(ops)
      /\ Range(ops) = {o} \cup Range(Tail(ops))
    BY <1>1, RangeOfHeadAndTail
<1>4. \/ stage' \in {"died", "none"}
      \/ /\ ~r.died /\ r.ok /\ UNCHANGED stage
         /\ ops' = Erase(r.gone, Tail(ops))
         /\ out' = Erase(r.gone, r.front \o out) \o r.at
    BY <1>2 DEF ConvertNext, Lower
<1> HIDE DEF o
<1>5. CASE stage' \in {"died", "none"}
    BY <1>1, <1>2, <1>5 DEF LoweringInv
<1>6. CASE /\ ~r.died /\ r.ok /\ UNCHANGED stage
           /\ ops' = Erase(r.gone, Tail(ops))
           /\ out' = Erase(r.gone, r.front \o out) \o r.at
    <2>1. /\ o \in Range(job.ops) /\ o \in Ops /\ o.op \in SLIROps
          /\ \A u \in o.uses : \E p \in Range(job.ops) : p.id = u /\ p.op # "define"
        BY <1>1, <1>3, JobOperations
    <2>2. /\ r.gone = {} /\ r.front \in Seq(Ops) /\ r.at \in Seq(Ops)
          /\ \/ o.op # "define" /\ r.front = <<>> /\ r.at = <<o>>
             \/ o.op = "define" /\ Definition(o, r.front, r.at)
        <3>1. CASE o.op = "define"
            BY <1>1, <1>3, <1>6, <2>1, <3>1, LowerDefineResult DEF LowerSLIR, Definition
        <3>2. CASE o.op # "define"
            <4>1. r = Stays(o)
                BY <1>6, <3>2 DEF LowerSLIR, Fails, Stays
            <4> QED
                BY <2>1, <3>2, <4>1 DEF Stays
        <3> QED
            BY <3>1, <3>2
    <2> HIDE DEF r
    <2>3. ops' = Tail(ops) /\ out' = (r.front \o out) \o r.at
        BY <1>6, <2>2 DEF Erase
    <2>4. /\ r.front \o out \in Seq(Ops) /\ out' \in Seq(Ops)
          /\ Range(out') = Range(r.front) \cup Range(out) \cup Range(r.at)
        <3>1. r.front \o out \in Seq(Ops)
            BY <1>1, <2>2
        <3>2. Range(r.front \o out) = Range(r.front) \cup Range(out)
            BY <1>1, <2>2, RangeOfConcatenation
        <3> DEFINE before == r.front \o out
        <3>0. before \in Seq(Ops)
            BY <3>1
        <3> HIDE DEF before
        <3>3. before \o r.at \in Seq(Ops)
            BY <2>2, <3>0
        <3>4. Range(before \o r.at) = Range(before) \cup Range(r.at)
            BY <2>2, <3>0, RangeOfConcatenation
        <3> QED
            BY <2>3, <3>1, <3>2, <3>3, <3>4 DEF before
    <2>5. Lowered(out)' /\ \A p \in Range(job.ops) :
             p.op # "define" => p \in Range(ops)' \cup Range(out)'
        <3>1. CASE o.op # "define" /\ r.front = <<>> /\ r.at = <<o>>
            <4>1. Range(out') = Range(out) \cup {o}
                BY <2>4, <3>1, RangeOfNone, RangeOfOne
            <4>2. o.op # "set_value"
                BY <2>1 DEF SLIROps
            <4> QED
                BY <1>1, <1>2, <1>3, <2>1, <2>3, <3>1, <4>1, <4>2 DEF Lowered
        <3>2. CASE o.op = "define" /\ Definition(o, r.front, r.at)
            <4>1. \A p \in Range(job.ops) :
                     p.op # "define" => p \in Range(ops)' \cup Range(out)'
                BY <1>1, <1>3, <2>3, <2>4, <3>2
            <4>2. Lowered(out)'
                <5> SUFFICES ASSUME NEW p \in Range(out')
                             PROVE  /\ p.op # "define"
                                    /\ \A u \in p.uses : \E q \in Range(job.ops) :
                                          q.id = u /\ q.op # "define"
                                    /\ p.op = "set_value" => \E g \in Range(out') :
                                          g.op = "global" /\ g.name = p.name /\ ~g.constant
                    BY <1>2 DEF Lowered
                <5>1. CASE p \in Range(out)
                    BY <1>1, <2>4, <5>1 DEF Lowered
                <5>2. CASE p \in Range(r.front) \cup Range(r.at)
                    BY <2>1, <2>4, <3>2, <5>2 DEF Definition
                <5> QED
                    BY <2>4, <5>1, <5>2
            <4> QED
                BY <4>1, <4>2
        <3> QED
            BY <2>2, <3>1, <3>2
    <2>6. Range(ops') \subseteq Range(job.ops)
        BY <1>1, <1>3, <2>3
    <2> QED
        BY <1>1, <1>2, <1>3, <1>6, <2>3, <2>4, <2>5, <2>6 DEF LoweringInv
<1> QED
    BY <1>4, <1>5, <1>6

LEMMA LoweringInvariant == Spec => []LoweringInv
<1>1. Init => LoweringInv
    <2> SUFFICES ASSUME Init PROVE LoweringInv
        OBVIOUS
    <2>1. CASE job.kind = "opt"
        <3>1. /\ job \in Jobs /\ stage = "passes" /\ ops = job.ops /\ out = <<>>
              /\ passes = <<"LowerSLIR">> /\ job.ops \in Seq(Ops)
            BY <2>1, CodeGenAssumption DEF Init
        <3>2. Lowered(out)
            BY <3>1, RangeOfNone DEF Lowered
        <3> QED
            BY <3>1, <3>2 DEF LoweringInv
    <2> QED
        BY <2>1 DEF Init, LoweringInv
<1>2. LoweringInv /\ [Next]_vars => LoweringInv'
    <2> SUFFICES ASSUME LoweringInv, [Next]_vars PROVE LoweringInv'
        BY Zenon
    <2>1. UNCHANGED job
        BY Zenon DEF Next, GenerateNext, FinishGenerate, ConvertNext, FinishPass, Translate,
               FinishOpt, PackNext, FinishPack, vars
    <2>2. CASE job.kind # "opt"
        BY <2>1, <2>2
           DEF Next, GenerateNext, FinishGenerate, ConvertNext, FinishPass, Translate,
               FinishOpt, PackNext, FinishPack, vars, LoweringInv
    <2>3. CASE job.kind = "opt"
        <3>1. CASE FinishPass
            <4>1. /\ stage = "passes" /\ passes = <<"LowerSLIR">> /\ Lowered(out)
                  /\ out \in Seq(Ops) /\ Range(ops) = {}
                  /\ \A p \in Range(job.ops) : p.op # "define" => p \in Range(out)
                BY <2>3, <3>1, RangeOfNone DEF FinishPass, LoweringInv
            <4>2. CASE WellFormed(out)
                <5>1. passes' = <<>> /\ ops' = out /\ out' = <<>> /\ stage' = stage
                    BY <3>1, <4>1, <4>2 DEF FinishPass
                <5>2. Lowered(ops)'
                    BY <2>1, <4>1, <5>1 DEF Lowered
                <5> QED
                    BY <2>1, <2>3, <4>1, <5>1, <5>2 DEF LoweringInv
            <4>3. CASE ~WellFormed(out)
                BY <2>1, <3>1, <4>3 DEF FinishPass, LoweringInv
            <4> QED
                BY <4>2, <4>3
        <3>2. CASE FinishOpt
            BY <2>1, <2>3, <3>2 DEF FinishOpt, LoweringInv, Lowered
        <3>3. CASE UNCHANGED vars
            BY <3>3 DEF vars, LoweringInv, Lowered
        <3> QED
            BY <2>3, <3>1, <3>2, <3>3, ConvertLowers
               DEF Next, GenerateNext, FinishGenerate, Translate, PackNext, FinishPack,
                   LoweringInv
    <2> QED
        BY <2>2, <2>3
<1> QED
    BY <1>1, <1>2, PTL DEF Spec

\* A module that is lowered is closed, whatever operations it had.
THEOREM LoweringCloses == Spec => []LoweredIsClosed
<1>1. LoweringInv => LoweredIsClosed
    <2> SUFFICES ASSUME LoweringInv, stage = "printed", NEW o \in Range(ops)
                 PROVE  /\ o.op # "define"
                        /\ \A u \in o.uses : \E p \in Range(ops) : p.id = u
                        /\ o.op = "set_value" =>
                              \E g \in Range(ops) :
                                 g.op = "global" /\ g.name = o.name /\ ~g.constant
        BY DEF LoweredIsClosed
    <2>1. job.kind = "opt"
        BY DEF LoweringInv
    <2> QED
        BY <2>1, RangeOfNone DEF LoweringInv, Lowered
<1> QED
    BY <1>1, LoweringInvariant, PTL

-----------------------------------------------------------------------------
(* Trees on their way to LLVM                                              *)

\* What is left of a tree once it is generated: numbers, under one name.
Translated(s) ==
    \A o \in Range(s) : /\ o.op \in {"value1", "func", "llvmfunc"}
                        /\ o.op # "value1" => o.name = RandomName

TreeInv ==
    /\ job \in Jobs
    /\ stage = "generate" => job.kind = "eval"
    /\ job.kind = "eval" /\ stage \in {"generate", "passes"} =>
          /\ ops \in Seq(Ops) /\ out \in Seq(Ops)
          /\ passes \in Seq({"ToMLIR", "ToLLVM"})
          /\ stage = "generate" =>
                out = <<>> /\ \A o \in Range(ops) : o.op \in {"value1", "fn1"}
          /\ stage = "passes" =>
                /\ Translated(ops) /\ Translated(out)
                /\ out = <<>> => WellFormed(ops)
                /\ passes = <<>> => out = <<>>

LEMMA EmittedOperations ==
    ASSUME NEW n, n.num \in Int, n.name \in Words
    PROVE  /\ EmittedBy(n) \in Seq(Ops)
           /\ \A o \in Range(EmittedBy(n)) : o.op \in {"value1", "fn1"}
<1> DEFINE value == [Op EXCEPT !.op = "value1", !.val = n.num]
           fn == [Op EXCEPT !.op = "fn1", !.name = n.name]
<1>1. value \in Ops /\ value.op = "value1"
    <2>1. value \in Ops
        BY PlainOperation DEF Ops, Made
    <2> QED
        BY <2>1 DEF Op
<1>2. fn \in Ops /\ fn.op = "fn1"
    <2>1. fn \in Ops
        BY PlainOperation DEF Ops, Made
    <2> QED
        BY <2>1 DEF Op
<1>3. EmittedBy(n) = CASE n.is = "number" /\ ~n.def -> <<value>>
                       [] n.is = "fn" /\ n.symbols -> <<fn>>
                       [] OTHER -> <<>>
    BY DEF EmittedBy
<1> HIDE DEF value, fn
<1>4. CASE n.is = "number" /\ ~n.def
    <2>1. EmittedBy(n) = <<value>>
        BY <1>3, <1>4
    <2> QED
        BY <1>1, <2>1, RangeOfOne
<1>5. CASE n.is = "fn" /\ n.symbols
    <2>1. EmittedBy(n) = <<fn>>
        BY <1>3, <1>5
    <2> QED
        BY <1>2, <2>1, RangeOfOne
<1>6. CASE ~(n.is = "number" /\ ~n.def) /\ ~(n.is = "fn" /\ n.symbols)
    <2>1. EmittedBy(n) = <<>>
        BY <1>3, <1>6
    <2> QED
        BY <2>1, RangeOfNone
<1> QED
    BY <1>4, <1>5, <1>6

LEMMA GenerateKeeps ==
    ASSUME TreeInv, GenerateNext
    PROVE  TreeInv'
<1> DEFINE n == job.tree[next]
           e == EmittedBy(n)
<1>1. /\ job \in Jobs /\ job.kind = "eval" /\ stage = "generate"
      /\ ops \in Seq(Ops) /\ next \in DOMAIN job.tree
      /\ \A o \in Range(ops) : o.op \in {"value1", "fn1"}
    BY DEF TreeInv, GenerateNext
<1>2. n.num \in Int /\ n.name \in Words
    <2>1. n \in TreeNodes
        BY <1>1, CodeGenAssumption
    <2> QED
        BY <2>1 DEF TreeNodes
<1> HIDE DEF n
<1>3. e \in Seq(Ops) /\ \A o \in Range(e) : o.op \in {"value1", "fn1"}
    BY <1>2, EmittedOperations
<1>4. UNCHANGED <<job, passes, out>>
      /\ (stage' = "died" \/ (ops' = ops \o e /\ UNCHANGED stage))
    BY DEF GenerateNext, n
<1> HIDE DEF e
<1>5. CASE stage' = "died"
    BY <1>1, <1>4, <1>5 DEF TreeInv
<1>6. CASE ops' = ops \o e /\ UNCHANGED stage
    <2>1. ops' \in Seq(Ops) /\ Range(ops') = Range(ops) \cup Range(e)
        BY <1>1, <1>3, <1>6, RangeOfConcatenation
    <2> QED
        BY <1>1, <1>3, <1>4, <1>6, <2>1 DEF TreeInv
<1> QED
    BY <1>4, <1>5, <1>6

\* An operation that was translated is one again after a pass.
LEMMA PassOperations ==
    ASSUME NEW p \in {"ToMLIR", "ToLLVM"}, NEW o \in Ops,
           o.op \in {"value1", "func", "llvmfunc"}, o.op # "value1" => o.name = RandomName,
           Lower(p, o).ok, ~Lower(p, o).died
    PROVE  /\ Lower(p, o).gone = {} /\ Lower(p, o).front = <<>>
           /\ \E q \in Ops : /\ Lower(p, o).at = <<q>>
                             /\ q.op \in {"func", "llvmfunc", "value1"}
                             /\ q.op # "value1" => q.name = RandomName
<1>0. RandomName \in Words
    BY CodeGenAssumption DEF RandomName, Words
<1> DEFINE func == [Op EXCEPT !.op = "func", !.name = RandomName, !.val = o.val]
           llvm == [o EXCEPT !.op = "llvmfunc"]
<1>1. func \in Ops /\ func.op = "func" /\ func.name = RandomName
    <2>1. func \in Ops
        BY <1>0, PlainOperation DEF Ops, Made
    <2> QED
        BY <2>1 DEF Op
<1>2. llvm \in Ops /\ llvm.op = "llvmfunc" /\ llvm.name = o.name
    BY DEF Ops, Made
<1> HIDE DEF func, llvm
<1>3. CASE p = "ToMLIR"
    <2>1. Lower(p, o) = ToMLIR(o)
        BY <1>3 DEF Lower
    <2>2. Lower(p, o) = IF o.op = "value1" THEN Becomes(o, <<func>>) ELSE Stays(o)
        BY <2>1 DEF ToMLIR, func
    <2> QED
        BY <1>1, <2>2 DEF Becomes, Stays
<1>4. CASE p = "ToLLVM"
    <2>1. Lower(p, o) = ToLLVM(o)
        BY <1>4 DEF Lower
    <2>2. Lower(p, o) = CASE o.op = "func" -> Becomes(o, <<llvm>>)
                          [] o.op = "llvmfunc" -> Stays(o) [] OTHER -> Fails(o)
        BY <2>1 DEF ToLLVM, llvm
    <2>3. o.op # "value1"
        BY <2>2 DEF Fails, Stays
    <2>4. CASE o.op = "func"
        <3>1. Lower(p, o) = Becomes(o, <<llvm>>)
            BY <2>2, <2>4
        <3> QED
            BY <1>2, <2>4, <3>1 DEF Becomes, Stays
    <2>5. CASE o.op = "llvmfunc"
        <3>1. Lower(p, o) = Stays(o)
            BY <2>2, <2>5
        <3> QED
            BY <2>5, <3>1 DEF Stays
    <2> QED
        BY <2>3, <2>4, <2>5
<1> QED
    BY <1>3, <1>4

LEMMA ConvertTranslates ==
    ASSUME TreeInv, job.kind = "eval", ConvertNext
    PROVE  TreeInv'
<1> DEFINE o == Head(ops)
           p == Head(passes)
           r == Lower(p, o)
<1>1. /\ job \in Jobs /\ stage = "passes" /\ passes # <<>> /\ ops # <<>>
      /\ ops \in Seq(Ops) /\ out \in Seq(Ops) /\ passes \in Seq({"ToMLIR", "ToLLVM"})
      /\ Translated(ops) /\ Translated(out)
    BY DEF TreeInv, ConvertNext
<1>2. /\ Tail(ops) \in Seq(Ops) /\ o \in Ops /\ p \in {"ToMLIR", "ToLLVM"}
      /\ Range(ops) = {o} \cup Range(Tail(ops))
    BY <1>1, RangeOfHeadAndTail
<1>3. /\ UNCHANGED <<job, passes>>
      /\ \/ stage' \in {"died", "none"}
         \/ /\ ~r.died /\ r.ok /\ UNCHANGED stage
            /\ ops' = Erase(r.gone, Tail(ops))
            /\ out' = Erase(r.gone, r.front \o out) \o r.at
    BY DEF ConvertNext
<1> HIDE DEF o, p
<1>4. CASE stage' \in {"died", "none"}
    BY <1>1, <1>3, <1>4 DEF TreeInv
<1>5. CASE /\ ~r.died /\ r.ok /\ UNCHANGED stage
           /\ ops' = Erase(r.gone, Tail(ops))
           /\ out' = Erase(r.gone, r.front \o out) \o r.at
    <2>1. o.op \in {"value1", "func", "llvmfunc"} /\ (o.op # "value1" => o.name = RandomName)
        BY <1>1, <1>2 DEF Translated
    <2>2. /\ r.gone = {} /\ r.front = <<>>
          /\ \E q \in Ops : /\ r.at = <<q>> /\ q.op \in {"func", "llvmfunc", "value1"}
                            /\ q.op # "value1" => q.name = RandomName
        BY <1>2, <1>5, <2>1, PassOperations
    <2>3. PICK q \in Ops : /\ r.at = <<q>> /\ q.op \in {"func", "llvmfunc", "value1"}
                           /\ q.op # "value1" => q.name = RandomName
        BY <2>2
    <2> HIDE DEF r
    <2>4. ops' = Tail(ops) /\ out' = out \o <<q>>
        <3>1. <<>> \o out = out
            BY <1>1
        <3>2. r.gone = {} /\ r.front = <<>> /\ r.at = <<q>>
            BY <2>2, <2>3
        <3>3. /\ ops' = Erase(r.gone, Tail(ops))
              /\ out' = Erase(r.gone, r.front \o out) \o r.at
            BY <1>5
        <3>4. Erase(r.gone, Tail(ops)) = Tail(ops)
            BY <3>2, EraseNothing
        <3>5. Erase(r.gone, r.front \o out) = r.front \o out
            BY <3>2, EraseNothing
        <3> QED
            BY <3>1, <3>2, <3>3, <3>4, <3>5
    <2>5. out' \in Seq(Ops) /\ out' # <<>> /\ Range(out') = Range(out) \cup {q}
        <3> DEFINE one == <<q>>
        <3>1. one \in Seq(Ops) /\ Range(one) = {q} /\ Len(one) = 1
            BY RangeOfOne
        <3>2. out' = out \o one
            BY <2>4
        <3> HIDE DEF one
        <3>3. Range(out \o one) = Range(out) \cup Range(one)
            BY <1>1, <3>1, RangeOfConcatenation
        <3>4. out \in Seq(Ops) /\ one \in Seq(Ops) /\ Len(one) = 1
            BY <1>1, <3>1
        <3>5. out \o one \in Seq(Ops) /\ out \o one # <<>>
            <4>1. out \o one \in Seq(Ops)
                BY <3>4
            <4>2. Len(out \o one) = Len(out) + Len(one)
                BY <3>4, LengthOfConcatenation
            <4>3. Len(out) \in Nat /\ Len(out \o one) # 0
                BY <3>4, <4>2
            <4> QED
                BY <4>1, <4>3
        <3> QED
            BY <3>1, <3>2, <3>3, <3>5
    <2>6. Translated(ops)' /\ Translated(out)'
        <3>1. Range(ops') \subseteq Range(ops)
            BY <1>2, <2>4
        <3> QED
            BY <1>1, <2>3, <2>5, <3>1 DEF Translated
    <2> QED
        BY <1>1, <1>2, <1>3, <1>5, <2>4, <2>5, <2>6 DEF TreeInv
<1> QED
    BY <1>3, <1>4, <1>5

LEMMA TreeInvariant == Spec => []TreeInv
<1>1. Init => TreeInv
    <2> SUFFICES ASSUME Init PROVE TreeInv
        OBVIOUS
    <2>1. job \in Jobs /\ (stage = "generate" => job.kind = "eval")
        BY DEF Init
    <2>2. CASE job.kind = "eval"
        <3>1. /\ stage = "generate" /\ ops = <<>> /\ out = <<>>
              /\ passes \in Seq({"ToMLIR", "ToLLVM"})
            BY <2>2, CodeGenAssumption DEF Init
        <3> QED
            BY <2>1, <3>1, RangeOfNone DEF TreeInv
    <2> QED
        BY <2>1, <2>2 DEF TreeInv
<1>2. TreeInv /\ [Next]_vars => TreeInv'
    <2> SUFFICES ASSUME TreeInv, [Next]_vars PROVE TreeInv'
        OBVIOUS
    <2>1. CASE job.kind # "eval"
        BY <2>1 DEF Next, GenerateNext, FinishGenerate, ConvertNext, FinishPass, Translate,
                    FinishOpt, PackNext, FinishPack, vars, TreeInv
    <2>2. CASE job.kind = "eval" /\ FinishGenerate
        <3>1. /\ job \in Jobs /\ ops \in Seq(Ops) /\ out = <<>>
              /\ passes \in Seq({"ToMLIR", "ToLLVM"})
              /\ \A o \in Range(ops) : o.op \in {"value1", "fn1"}
              /\ stage' = IF WellFormed(ops) THEN "passes" ELSE "none"
              /\ UNCHANGED <<job, passes, ops, out>>
            BY <2>2 DEF TreeInv, FinishGenerate
        <3>2. CASE WellFormed(ops)
            <4>1. \A o \in Range(ops) : o.op # "fn1"
                BY <3>2 DEF WellFormed, Range
            <4>2. Translated(ops) /\ Translated(out)
                BY <3>1, <4>1, RangeOfNone DEF Translated
            <4> QED
                BY <3>1, <3>2, <4>2 DEF TreeInv, Translated, WellFormed
        <3>3. CASE ~WellFormed(ops)
            BY <3>1, <3>3 DEF TreeInv
        <3> QED
            BY <3>2, <3>3
    <2>3. CASE job.kind = "eval" /\ FinishPass
        <3>1. /\ job \in Jobs /\ out \in Seq(Ops) /\ Translated(out) /\ stage = "passes"
              /\ passes \in Seq({"ToMLIR", "ToLLVM"}) /\ passes # <<>> /\ UNCHANGED job
            BY <2>3 DEF TreeInv, FinishPass
        <3>2. Tail(passes) \in Seq({"ToMLIR", "ToLLVM"})
            BY <3>1
        <3>3. CASE WellFormed(out)
            <4>1. passes' = Tail(passes) /\ ops' = out /\ out' = <<>> /\ UNCHANGED stage
                BY <2>3, <3>3 DEF FinishPass
            <4>2. Translated(ops)' /\ Translated(out)' /\ WellFormed(ops)'
                BY <3>1, <3>3, <4>1, RangeOfNone DEF Translated, WellFormed
            <4> QED
                BY <3>1, <3>2, <4>1, <4>2 DEF TreeInv
        <3>4. CASE ~WellFormed(out)
            BY <2>3, <3>1, <3>4 DEF TreeInv, FinishPass
        <3> QED
            BY <3>3, <3>4
    <2>4. CASE Translate \/ FinishOpt \/ PackNext \/ FinishPack
        BY <2>4 DEF Translate, FinishOpt, PackNext, FinishPack, TreeInv
    <2>5. CASE UNCHANGED vars
        BY <2>5 DEF vars, TreeInv, Translated, WellFormed
    <2> QED
        BY <2>1, <2>2, <2>3, <2>4, <2>5, GenerateKeeps, ConvertTranslates DEF Next
<1> QED
    BY <1>1, <1>2, PTL DEF Spec

-----------------------------------------------------------------------------
(* Packing                                                                 *)

\* Names are unique, those of interfaces included; each interface is that of
\* a function the walk has passed, and each of those that needs one has it.
NamesApart ==
    /\ \A i, j \in DOMAIN funcs : funcs[i].name = funcs[j].name => i = j
    /\ \A i, j \in DOMAIN funcs :
          ~funcs[i].interface /\ ~funcs[j].interface
              => funcs[i].name # Packed(funcs[j].name)
InterfacesInv ==
    /\ \A i \in DOMAIN funcs : funcs[i].interface =>
          \E j \in 1 .. next - 1 : ~Skipped(funcs[j]) /\ funcs[i] = Interface(funcs[j])
    /\ \A j \in 1 .. next - 1 :
          Skipped(funcs[j]) \/ \E i \in DOMAIN funcs : funcs[i] = Interface(funcs[j])
PackInv ==
    stage \in {"pack", "published"} =>
        /\ funcs \in Seq(Funcs) /\ next \in 1 .. Len(funcs) + 1
        /\ NamesApart /\ InterfacesInv
        /\ stage = "published" => next = Len(funcs) + 1

LEMMA InterfaceOf ==
    ASSUME NEW f \in Funcs
    PROVE  LET g == Interface(f)
           IN  /\ g \in Funcs /\ g.interface /\ g.name = Packed(f.name)
               /\ g.calls = f.name
               /\ Len(g.loads) = f.params /\ DOMAIN g.loads = 1 .. f.params
               /\ \A i \in 1 .. f.params : g.loads[i] = i - 1
               /\ g.stores = IF f.void THEN {} ELSE {f.params}
<1> DEFINE name == Packed(f.name)
           loads == [i \in 1 .. f.params |-> i - 1]
           stores == IF f.void THEN {} ELSE {f.params}
           g == Interface(f)
<1>1. /\ f.name \in Words /\ f.params \in Nat /\ f.void \in BOOLEAN
    BY DEF Funcs
<1>2. name \in Words
    <2>1. <<"_serene_">> \in Seq(Parts) /\ f.name \in Seq(Parts)
        BY <1>1, CodeGenAssumption DEF Words
    <2>2. <<"_serene_">> \o f.name \in Seq(Parts)
        BY <2>1
    <2> QED
        BY <2>2 DEF Packed, Words
<1>3. /\ loads \in Seq(Nat) /\ Len(loads) = f.params /\ DOMAIN loads = 1 .. f.params
      /\ \A i \in 1 .. f.params : loads[i] = i - 1
    <2>1. /\ DOMAIN loads = 1 .. f.params
          /\ \A i \in 1 .. f.params : loads[i] = i - 1
        OBVIOUS
    <2>2. \A i \in 1 .. f.params : i - 1 \in Nat
        BY <1>1
    <2>3. loads \in [1 .. f.params -> Nat]
        BY <2>2
    <2> HIDE DEF loads
    <2>4. loads \in Seq(Nat)
        BY <1>1, <2>3
    <2>5. Len(loads) = f.params
        BY <1>1, <2>1, <2>4
    <2> QED
        BY <2>1, <2>4, <2>5
<1>4. stores \in SUBSET Nat
    BY <1>1
<1>5. g = [Func EXCEPT !.name = name, !.params = 1, !.void = TRUE, !.interface = TRUE,
                       !.calls = f.name, !.loads = loads, !.stores = stores]
    BY DEF Interface
<1>6. Func \in Funcs
    BY DEF Func, Funcs, Words
<1> HIDE DEF name, loads, stores, g
<1>7. g \in Funcs
    BY <1>1, <1>2, <1>3, <1>4, <1>5, <1>6 DEF Funcs
<1>8. /\ g.interface /\ g.name = name /\ g.calls = f.name /\ g.loads = loads
      /\ g.stores = stores
    BY <1>5 DEF Func
<1> QED
    BY <1>3, <1>7, <1>8 DEF g, name, stores

\* Different names are packed into different ones.
LEMMA PackedApart ==
    ASSUME NEW s \in Words, NEW t \in Words, Packed(s) = Packed(t)
    PROVE  s = t
<1>1. s \in Seq(Parts) /\ t \in Seq(Parts) /\ <<"_serene_">> \in Seq(Parts)
    BY CodeGenAssumption DEF Words
<1>2. Tail(<<"_serene_">> \o s) = s /\ Tail(<<"_serene_">> \o t) = t
    BY <1>1
<1> QED
    BY <1>2 DEF Packed

\* The functions of a translated tree.
LEMMA TranslateStartsPacking ==
    ASSUME TreeInv, Translate
    PROVE  PackInv'
<1> SUFFICES ASSUME stage' \in {"pack", "published"} PROVE PackInv'
    BY DEF PackInv
<1>1. /\ stage' = "pack" /\ next' = 1
      /\ \A o \in Range(ops) : o.op = "llvmfunc"
      /\ funcs' = [i \in DOMAIN ops |-> [Func EXCEPT !.name = ops[i].name,
                                                    !.val = ops[i].val]]
    BY DEF Translate
<1>0. stage' = "pack" /\ next' = 1
    BY DEF Translate
<1>2. ops \in Seq(Ops) /\ Translated(ops) /\ WellFormed(ops)
    BY DEF Translate, TreeInv
<1>3. \A i \in DOMAIN ops : /\ ops[i] \in Ops /\ ops[i].op = "llvmfunc"
                            /\ ops[i].name = RandomName
    <2> SUFFICES ASSUME NEW i \in DOMAIN ops
                 PROVE  /\ ops[i] \in Ops /\ ops[i].op = "llvmfunc"
                        /\ ops[i].name = RandomName
        OBVIOUS
    <2>1. ops[i] \in Range(ops) /\ ops[i] \in Ops
        BY <1>2, ElementInRange
    <2> QED
        BY <1>1, <1>2, <2>1 DEF Translated
<1>4. \A i, j \in DOMAIN ops : i = j
    BY <1>2, <1>3 DEF WellFormed, Symbols
<1>5. \A i \in DOMAIN ops : /\ funcs'[i] \in Funcs /\ funcs'[i].name = RandomName
                            /\ ~funcs'[i].interface
    <2> SUFFICES ASSUME NEW i \in DOMAIN ops
                 PROVE  /\ funcs'[i] \in Funcs /\ funcs'[i].name = RandomName
                        /\ ~funcs'[i].interface
        OBVIOUS
    <2>1. funcs'[i] = [Func EXCEPT !.name = ops[i].name, !.val = ops[i].val]
        BY <1>1
    <2>2. ops[i].name \in Words /\ ops[i].val \in Int
        BY <1>3 DEF Ops
    <2>3. Func \in Funcs
        BY DEF Func, Funcs, Words
    <2>4. funcs'[i] \in Funcs
        BY <2>1, <2>2, <2>3 DEF Funcs
    <2> QED
        <3>1. funcs'[i].name = ops[i].name /\ ~funcs'[i].interface
            BY <2>1 DEF Func
        <3> QED
            BY <1>3, <2>4, <3>1
<1>6. funcs' \in Seq(Funcs) /\ \A i \in DOMAIN funcs' : i \in DOMAIN ops
    <2>1. DOMAIN funcs' = DOMAIN ops /\ funcs' = [i \in DOMAIN ops |-> funcs'[i]]
        BY <1>1
    <2>2. DOMAIN ops = 1 .. Len(ops) /\ Len(ops) \in Nat
        BY <1>2
    <2>3. funcs' \in [1 .. Len(ops) -> Funcs]
        BY <1>5, <2>1, <2>2
    <2>4. funcs' \in Seq(Funcs)
        BY <2>2, <2>3
    <2> QED
        BY <2>1, <2>4
<1>7. RandomName # Packed(RandomName)
    BY DEF RandomName, Packed
<1>8. NamesApart'
    <2>1. \A i, j \in DOMAIN funcs' : i = j /\ funcs'[i].name # Packed(funcs'[j].name)
        BY <1>4, <1>5, <1>6, <1>7
    <2> QED
        BY <2>1 DEF NamesApart
<1>9. InterfacesInv'
    <2>1. \A j : j \notin 1 .. next' - 1
        <3>1. next' - 1 = 0
            BY <1>0
        <3> QED
            BY <3>1
    <2>2. \A i \in DOMAIN funcs' : ~funcs'[i].interface
        BY <1>5, <1>6
    <2> QED
        BY <2>1, <2>2 DEF InterfacesInv
<1>10. next' \in 1 .. Len(funcs') + 1
    BY <1>0, <1>6
<1> QED
    BY <1>0, <1>6, <1>8, <1>9, <1>10 DEF PackInv

\* A function that needs an interface gets it at the end of the list.
LEMMA PackAppends ==
    ASSUME PackInv, PackNext, ~Skipped(funcs[next])
    PROVE  PackInv'
<1> DEFINE f == funcs[next]
           g == Interface(f)
           new == Len(funcs) + 1
<1>1. /\ stage = "pack" /\ UNCHANGED stage /\ next' = next + 1
      /\ next \in DOMAIN funcs /\ funcs \in Seq(Funcs)
      /\ NamesApart /\ InterfacesInv /\ funcs' = Append(funcs, g)
    BY DEF PackInv, PackNext
<1>2. f \in Funcs /\ ~f.declared /\ ~f.interface /\ next \in 1 .. Len(funcs)
    BY <1>1 DEF Skipped
<1> HIDE DEF f
<1>3. g \in Funcs /\ g.interface /\ g.name = Packed(f.name)
    BY <1>2, InterfaceOf
<1> HIDE DEF g
<1>4. /\ funcs' \in Seq(Funcs) /\ Len(funcs') = new
      /\ DOMAIN funcs' = DOMAIN funcs \cup {new} /\ new \notin DOMAIN funcs
      /\ funcs'[new] = g
      /\ \A i \in DOMAIN funcs : funcs'[i] = funcs[i]
    BY <1>1, <1>3
<1>5. \A i \in DOMAIN funcs : funcs[i].name # g.name
    <2> SUFFICES ASSUME NEW i \in DOMAIN funcs, funcs[i].name = Packed(f.name)
                 PROVE  FALSE
        BY <1>3
    <2>1. CASE ~funcs[i].interface
        BY <1>1, <1>2, <2>1 DEF NamesApart, f
    <2>2. CASE funcs[i].interface
        <3>1. PICK j \in 1 .. next - 1 : funcs[i] = Interface(funcs[j])
            BY <1>1, <2>2 DEF InterfacesInv
        <3>2. j \in DOMAIN funcs /\ j # next /\ funcs[j] \in Funcs
            BY <1>1, <1>2, <3>1
        <3>3. Packed(funcs[j].name) = Packed(f.name)
            BY <3>1, <3>2, InterfaceOf
        <3>4. funcs[j].name = f.name
            BY <1>2, <3>2, <3>3, PackedApart DEF Funcs
        <3> QED
            BY <1>1, <3>2, <3>4 DEF NamesApart, f
    <2> QED
        BY <2>1, <2>2
<1> HIDE DEF new
<1>6. NamesApart'
    <2>1. ASSUME NEW i \in DOMAIN funcs', NEW j \in DOMAIN funcs',
                 funcs'[i].name = funcs'[j].name
          PROVE  i = j
        <3>1. CASE i \in DOMAIN funcs /\ j \in DOMAIN funcs
            BY <1>1, <1>4, <2>1, <3>1 DEF NamesApart
        <3>2. CASE i = new /\ j \in DOMAIN funcs
            BY <1>4, <1>5, <2>1, <3>2
        <3>3. CASE i \in DOMAIN funcs /\ j = new
            BY <1>4, <1>5, <2>1, <3>3
        <3> QED
            BY <1>4, <3>1, <3>2, <3>3
    <2>2. ASSUME NEW i \in DOMAIN funcs', NEW j \in DOMAIN funcs',
                 ~funcs'[i].interface, ~funcs'[j].interface
          PROVE  funcs'[i].name # Packed(funcs'[j].name)
        <3>1. i \in DOMAIN funcs /\ j \in DOMAIN funcs
            BY <1>3, <1>4, <2>2
        <3> QED
            BY <1>1, <1>4, <2>2, <3>1 DEF NamesApart
    <2> QED
        BY <2>1, <2>2 DEF NamesApart
<1>7. \A j \in 1 .. next : j \in DOMAIN funcs /\ funcs'[j] = funcs[j]
    BY <1>1, <1>2, <1>4
<1>8. next' - 1 = next /\ (\A j \in 1 .. next : j \in 1 .. next - 1 \/ j = next)
    BY <1>1, <1>2
<1>9. InterfacesInv'
    <2>1. ASSUME NEW i \in DOMAIN funcs', funcs'[i].interface
          PROVE  \E j \in 1 .. next : ~Skipped(funcs'[j]) /\ funcs'[i] = Interface(funcs'[j])
        <3>1. CASE i = new
            <4>1. next \in 1 .. next /\ funcs'[next] = f
                BY <1>2, <1>7 DEF f
            <4> QED
                BY <1>2, <1>4, <3>1, <4>1 DEF g, Skipped
        <3>2. CASE i \in DOMAIN funcs
            <4>1. PICK j \in 1 .. next - 1 :
                     ~Skipped(funcs[j]) /\ funcs[i] = Interface(funcs[j])
                BY <1>1, <1>4, <2>1, <3>2 DEF InterfacesInv
            <4>2. j \in 1 .. next
                BY <1>2, <4>1
            <4> QED
                BY <1>4, <1>7, <3>2, <4>1, <4>2
        <3> QED
            BY <1>4, <3>1, <3>2
    <2>2. ASSUME NEW j \in 1 .. next
          PROVE  Skipped(funcs'[j]) \/ \E i \in DOMAIN funcs' : funcs'[i] = Interface(funcs'[j])
        <3>1. CASE j = next
            BY <1>2, <1>4, <1>7, <3>1 DEF f, g
        <3>2. CASE j \in 1 .. next - 1
            <4>1. funcs'[j] = funcs[j]
                BY <1>7, <3>2
            <4>2. CASE Skipped(funcs[j])
                BY <4>1, <4>2
            <4>3. ASSUME NEW i \in DOMAIN funcs, funcs[i] = Interface(funcs[j])
                  PROVE  \E k \in DOMAIN funcs' : funcs'[k] = Interface(funcs'[j])
                <5>1. i \in DOMAIN funcs' /\ funcs'[i] = funcs[i]
                    BY <1>4
                <5> QED
                    BY <4>1, <4>3, <5>1
            <4> QED
                BY <1>1, <3>2, <4>2, <4>3 DEF InterfacesInv
        <3> QED
            BY <1>8, <3>1, <3>2
    <2> QED
        BY <1>8, <2>1, <2>2 DEF InterfacesInv
<1>10. next' \in 1 .. Len(funcs') + 1
    BY <1>1, <1>2, <1>4 DEF new
<1> QED
    BY <1>1, <1>4, <1>6, <1>9, <1>10 DEF PackInv

LEMMA PackSkips ==
    ASSUME PackInv, PackNext, Skipped(funcs[next])
    PROVE  PackInv'
<1>1. /\ stage = "pack" /\ UNCHANGED <<stage, funcs>> /\ next' = next + 1
      /\ next \in 1 .. Len(funcs) /\ funcs \in Seq(Funcs) /\ Len(funcs) \in Nat
      /\ NamesApart /\ InterfacesInv
    BY DEF PackInv, PackNext
<1>2. next' - 1 = next /\ (\A j \in 1 .. next : j \in 1 .. next - 1 \/ j = next)
      /\ (\A j \in 1 .. next - 1 : j \in 1 .. next)
    BY <1>1
<1>3. InterfacesInv'
    <2>1. ASSUME NEW i \in DOMAIN funcs, funcs[i].interface
          PROVE  \E j \in 1 .. next : ~Skipped(funcs[j]) /\ funcs[i] = Interface(funcs[j])
        BY <1>1, <1>2, <2>1 DEF InterfacesInv
    <2>2. ASSUME NEW j \in 1 .. next
          PROVE  Skipped(funcs[j]) \/ \E i \in DOMAIN funcs : funcs[i] = Interface(funcs[j])
        BY <1>1, <1>2 DEF InterfacesInv
    <2> QED
        BY <1>1, <1>2, <2>1, <2>2 DEF InterfacesInv
<1>4. next' \in 1 .. Len(funcs') + 1
    BY <1>1
<1> QED
    BY <1>1, <1>3, <1>4 DEF PackInv, NamesApart

LEMMA PackInvariant == Spec => []PackInv
<1>1. Init => PackInv
    <2> SUFFICES ASSUME Init, stage \in {"pack", "published"} PROVE PackInv
        BY DEF PackInv
    <2>1. /\ job \in Jobs /\ job.kind = "pack" /\ stage = "pack"
          /\ funcs = job.funcs /\ next = 1
        BY CodeGenAssumption DEF Init
    <2>2. /\ funcs \in Seq(Funcs)
          /\ \A i, k \in DOMAIN funcs :
                /\ ~funcs[i].interface
                /\ funcs[i].name = funcs[k].name => i = k
                /\ funcs[i].name # Packed(funcs[k].name)
        BY <2>1, CodeGenAssumption
    <2>3. NamesApart /\ InterfacesInv
        BY <2>1, <2>2 DEF NamesApart, InterfacesInv
    <2>4. next \in 1 .. Len(funcs) + 1
        BY <2>1, <2>2
    <2> QED
        BY <2>1, <2>2, <2>3, <2>4 DEF PackInv
<1>2. TreeInv /\ PackInv /\ [Next]_vars => PackInv'
    <2> SUFFICES ASSUME TreeInv, PackInv, [Next]_vars PROVE PackInv'
        OBVIOUS
    <2>1. CASE FinishPack
        <3>1. /\ stage = "pack" /\ UNCHANGED <<funcs, next>> /\ next \notin DOMAIN funcs
              /\ funcs \in Seq(Funcs) /\ next \in 1 .. Len(funcs) + 1 /\ Len(funcs) \in Nat
              /\ NamesApart /\ InterfacesInv
            BY <2>1 DEF FinishPack, PackInv
        <3>2. next = Len(funcs) + 1
            BY <3>1
        <3> QED
            BY <3>1, <3>2 DEF PackInv, NamesApart, InterfacesInv
    <2>2. CASE GenerateNext \/ FinishGenerate \/ ConvertNext \/ FinishPass \/ FinishOpt
        BY <2>2 DEF GenerateNext, FinishGenerate, ConvertNext, FinishPass, FinishOpt, PackInv
    <2>3. CASE UNCHANGED vars
        BY <2>3 DEF vars, PackInv, NamesApart, InterfacesInv
    <2> QED
        BY <2>1, <2>2, <2>3, TranslateStartsPacking, PackAppends, PackSkips DEF Next
<1> QED
    BY <1>1, <1>2, TreeInvariant, PTL DEF Spec

\* Every function with a body gets its one interface, though the list of
\* functions grows under the walk.
THEOREM PackingIsRight == Spec => []PackedOnce
<1>1. PackInv => PackedOnce
    <2> SUFFICES ASSUME PackInv, stage = "published" PROVE PackedOnce
        BY DEF PackedOnce
    <2> DEFINE added == {f \in Range(funcs) : f.interface}
    <2>1. /\ funcs \in Seq(Funcs) /\ NamesApart
          /\ \A j \in DOMAIN funcs : j \in 1 .. next - 1
          /\ \A j \in 1 .. next - 1 : j \in DOMAIN funcs
          /\ InterfacesInv
        BY DEF PackInv
    <2>2. ASSUME NEW f \in added
          PROVE  \E j \in DOMAIN funcs : ~Skipped(funcs[j]) /\ f = Interface(funcs[j])
        <3>1. PICK i \in DOMAIN funcs : f = funcs[i] /\ funcs[i].interface
            BY DEF Range
        <3> QED
            BY <2>1, <3>1 DEF InterfacesInv
    <2>3. ASSUME NEW f \in added
          PROVE  f.calls \in {g.name : g \in {h \in Range(funcs) \ added : ~h.declared}}
        <3>1. PICK j \in DOMAIN funcs : ~Skipped(funcs[j]) /\ f = Interface(funcs[j])
            BY <2>2
        <3>2. f.calls = funcs[j].name
            <4>1. funcs[j] \in Funcs
                BY <2>1
            <4> QED
                BY <3>1, <4>1, InterfaceOf
        <3>3. funcs[j] \in {h \in Range(funcs) \ added : ~h.declared}
            BY <3>1 DEF Skipped, Range
        <3> QED
            BY <3>2, <3>3
    <2>4. ASSUME NEW g \in {h \in Range(funcs) \ added : ~h.declared}
          PROVE  g.name \in {f.calls : f \in added}
        <3>1. PICK j \in DOMAIN funcs : g = funcs[j] /\ ~Skipped(funcs[j])
            BY DEF Range, Skipped
        <3>2. PICK i \in DOMAIN funcs : funcs[i] = Interface(funcs[j])
            BY <2>1, <3>1 DEF InterfacesInv
        <3>3. funcs[i].interface /\ funcs[i].calls = g.name
            <4>1. funcs[j] \in Funcs
                BY <2>1, <3>1
            <4> QED
                BY <3>1, <3>2, <4>1, InterfaceOf
        <3>4. funcs[i] \in added
            BY <3>3 DEF Range
        <3> QED
            BY <3>3, <3>4
    <2>5. {f.calls : f \in added} = {f.name : f \in {g \in Range(funcs) \ added : ~g.declared}}
        BY <2>3, <2>4
    <2>6. ASSUME NEW f \in added, NEW g \in Range(funcs), f.calls = g.name
          PROVE  /\ f.name = Packed(g.name)
                 /\ Len(f.loads) = g.params
                 /\ \A i \in DOMAIN f.loads : f.loads[i] = i - 1
                 /\ f.stores = {Len(f.loads)} \ {IF g.void THEN g.params ELSE -1}
        <3>1. PICK j \in DOMAIN funcs : ~Skipped(funcs[j]) /\ f = Interface(funcs[j])
            BY <2>2
        <3>2. PICK k \in DOMAIN funcs : g = funcs[k]
            BY DEF Range
        <3>3. funcs[j] \in Funcs
            BY <2>1
        <3>4. g = funcs[j]
            <4>1. funcs[j].name = funcs[k].name
                BY <2>6, <3>1, <3>2, <3>3, InterfaceOf
            <4> QED
                BY <2>1, <3>2, <4>1 DEF NamesApart
        <3>5. g \in Funcs /\ f = Interface(g)
            BY <3>1, <3>3, <3>4
        <3>6. /\ f.name = Packed(g.name) /\ Len(f.loads) = g.params
              /\ \A i \in DOMAIN f.loads : f.loads[i] = i - 1
              /\ f.stores = IF g.void THEN {} ELSE {g.params}
            BY <3>5, InterfaceOf
        <3>7. g.params \in Nat
            BY <3>5 DEF Funcs
        <3>8. f.stores = {g.params} \ {IF g.void THEN g.params ELSE -1}
            BY <3>6, <3>7
        <3> QED
            BY <3>6, <3>8
    <2> QED
        BY <2>1, <2>5, <2>6 DEF PackedOnce, NamesApart
<1> QED
    BY <1>1, PackInvariant, PTL

-----------------------------------------------------------------------------
(* From a tree to its code                                                 *)

\* The nodes that emit an operation, and the operation of a number.
Emitting == {k \in DOMAIN job.tree : EmittedBy(job.tree[k]) # <<>>}
ValueOf(n) == [Op EXCEPT !.op = "value1", !.val = job.tree[n].num]

\* What is generated for the nodes of E: nothing, a function among other things,
\* one number, or numbers only.
Generated(E, s) ==
    /\ E = {} => s = <<>>
    /\ (\E k \in E : job.tree[k].is = "fn") => \E i \in DOMAIN s : s[i].op = "fn1"
    /\ \A n \in Numbers : E = {n} => s = <<ValueOf(n)>>
    /\ (\E m, n \in E : m # n) /\ E \subseteq Numbers =>
          Len(s) >= 2 /\ \A i \in DOMAIN s : s[i].op = "value1"

\* How far an operation has come before the j-th pass.
Reached(j) == IF j = 1 THEN "value1"
              ELSE IF \E i \in 1 .. j - 1 : job.passes[i] = "ToLLVM" THEN "llvmfunc" ELSE "func"
IsCodeOf(o, n, j) == o.op = Reached(j) /\ o.val = job.tree[n].num

\* The operations while the j-th pass runs, s those it has not come to and t
\* those it has rewritten.  One number comes through every pass; two do not
\* come through the first one.
Passing(j, s, t) ==
    /\ Numbers = {} => s = <<>> /\ t = <<>>
    /\ \A n \in Numbers : Numbers = {n} =>
          \/ t = <<>> /\ Len(s) = 1 /\ IsCodeOf(s[1], n, j)
          \/ /\ s = <<>> /\ Len(t) = 1
             /\ j <= Len(job.passes) /\ IsCodeOf(t[1], n, j + 1)
    /\ (\E m, n \in Numbers : m # n) =>
          /\ j = 1 /\ Len(s) + Len(t) >= 2
          /\ \A i \in DOMAIN s : s[i].op = "value1"
          /\ \A i \in DOMAIN t : t[i].op = "func" /\ t[i].name = RandomName

\* The functions are those of the numbers, and interfaces behind them.
Coded ==
    /\ Numbers = {} => Code = {}
    /\ \A n \in Numbers : Numbers = {n} =>
          Code = {1} /\ funcs[1].val = job.tree[n].num

Generating ==
    /\ next \in 1 .. Len(job.tree) + 1 /\ passes = job.passes /\ out = <<>>
    /\ \A k \in DOMAIN job.tree : k < next => ~Throws(job.tree[k])
    /\ Generated({k \in Emitting : k < next}, ops)
OnItsWay ==
    /\ \A k \in DOMAIN job.tree : ~Throws(job.tree[k])
    /\ Emitting = Numbers
    /\ \E j \in 1 .. Len(job.passes) + 1 :
          passes = SubSeq(job.passes, j, Len(job.passes)) /\ Passing(j, ops, out)

OutcomeInv ==
    job.kind = "eval" =>
        /\ stage = "generate" => Generating
        /\ stage = "passes" => OnItsWay
        /\ stage \in {"pack", "published"} =>
              CompilesWhen /\ Coded /\ (\A m, n \in Numbers : m = n)
        /\ stage \in {"none", "died"} => ~CompilesWhen
        /\ stage # "printed"

-----------------------------------------------------------------------------
LEMMA EvalJobs ==
    ASSUME job \in Jobs, job.kind = "eval"
    PROVE  /\ job.tree \in Seq(TreeNodes) /\ job.passes \in Seq({"ToMLIR", "ToLLVM"})
           /\ \A i \in DOMAIN job.passes :
                 job.passes[i] = "ToLLVM" => i > 1 /\ job.passes[i - 1] = "ToMLIR"
BY CodeGenAssumption

\* A node emits one operation: a number its value, and what else emits one is
\* a function.
LEMMA EmitsOne ==
    ASSUME job \in Jobs, job.kind = "eval", NEW k \in DOMAIN job.tree
    PROVE  /\ k \in Numbers => EmittedBy(job.tree[k]) = <<ValueOf(k)>> /\ k \in Emitting
           /\ ValueOf(k).op = "value1" /\ ValueOf(k).val = job.tree[k].num
           /\ k \in Emitting /\ k \notin Numbers =>
                 /\ job.tree[k].is = "fn"
                 /\ \E e : EmittedBy(job.tree[k]) = <<e>> /\ e.op = "fn1"
           /\ k \in Numbers => job.tree[k].is = "number"
           /\ Throws(job.tree[k]) => k \in Numbers
<1> DEFINE n == job.tree[k]
           fn == [Op EXCEPT !.op = "fn1", !.name = n.name]
<1>1. ValueOf(k).op = "value1" /\ ValueOf(k).val = job.tree[k].num
    BY DEF ValueOf, Op
<1>2. fn.op = "fn1"
    BY DEF Op
<1>3. EmittedBy(n) = CASE n.is = "number" /\ ~n.def -> <<ValueOf(k)>>
                       [] n.is = "fn" /\ n.symbols -> <<fn>>
                       [] OTHER -> <<>>
    BY DEF EmittedBy, ValueOf
<1>4. k \in Numbers <=> n.is = "number" /\ ~n.def
    BY DEF Numbers
<1>5. k \in Emitting <=> EmittedBy(n) # <<>>
    BY DEF Emitting
<1>6. Throws(n) => n.is = "number" /\ ~n.def
    BY DEF Throws
<1> HIDE DEF n, fn
<1>7. CASE n.is = "number" /\ ~n.def
    <2>1. EmittedBy(n) = <<ValueOf(k)>>
        BY <1>3, <1>7
    <2> QED
        BY <1>1, <1>4, <1>5, <1>6, <1>7, <2>1 DEF n
<1>8. CASE ~(n.is = "number" /\ ~n.def) /\ n.is = "fn" /\ n.symbols
    <2>1. EmittedBy(n) = <<fn>>
        BY <1>3, <1>8
    <2> QED
        BY <1>1, <1>2, <1>4, <1>5, <1>6, <1>8, <2>1 DEF n
<1>9. CASE ~(n.is = "number" /\ ~n.def) /\ ~(n.is = "fn" /\ n.symbols)
    <2>1. EmittedBy(n) = <<>>
        BY <1>3, <1>9
    <2> QED
        BY <1>1, <1>4, <1>5, <1>6, <1>9, <2>1 DEF n
<1> QED
    BY <1>7, <1>8, <1>9

\* t is s and e behind it.
IsWith(t, s, e) ==
    /\ Len(t) = Len(s) + 1 /\ DOMAIN t = 1 .. Len(s) + 1
    /\ \A i \in 1 .. Len(s) : t[i] = s[i]
    /\ t[Len(s) + 1] = e
    /\ s = <<>> => t = <<e>>
    /\ Len(s) \in Nat /\ DOMAIN s = 1 .. Len(s)

LEMMA AddedAtEnd ==
    ASSUME NEW S, NEW s \in Seq(S), NEW e, NEW t, t = s \o <<e>>
    PROVE  IsWith(t, s, e)
<1> DEFINE R == S \cup {e}
<1>1. s \in Seq(R) /\ e \in R
    OBVIOUS
<1> HIDE DEF R
<1>2. t = Append(s, e)
    BY <1>1, AppendIsConcat
<1>3. /\ t \in Seq(R) /\ Len(t) = Len(s) + 1
      /\ \A i \in 1 .. Len(s) : t[i] = s[i]
      /\ t[Len(s) + 1] = e
    BY <1>1, <1>2, AppendProperties
<1>4. s = <<>> => t = <<e>>
    BY <1>2
<1>5. DOMAIN t = 1 .. Len(t) /\ Len(s) \in Nat /\ DOMAIN s = 1 .. Len(s)
    BY <1>1, <1>3, LenProperties
<1> QED
    BY <1>3, <1>4, <1>5 DEF IsWith

\* One more node.
LEMMA GeneratesOneMore ==
    ASSUME job \in Jobs, job.kind = "eval",
           NEW S, NEW E, E \subseteq Emitting, NEW s \in Seq(S), Generated(E, s),
           NEW k \in Emitting, k \notin E, NEW t, t = s \o EmittedBy(job.tree[k])
    PROVE  Generated(E \cup {k}, t)
<1>0. k \in DOMAIN job.tree
    BY DEF Emitting
<1>1. CASE k \notin Numbers
    <2>1. PICK e : EmittedBy(job.tree[k]) = <<e>> /\ e.op = "fn1"
        BY <1>0, <1>1, EmitsOne
    <2>2. t = s \o <<e>>
        BY <2>1
    <2>3. Len(s) + 1 \in DOMAIN t /\ t[Len(s) + 1] = e
        BY <2>2, AddedAtEnd DEF IsWith
    <2>4. \E i \in DOMAIN t : t[i].op = "fn1"
        BY <2>1, <2>3
    <2> QED
        BY <1>1, <2>4 DEF Generated
<1>2. CASE k \in Numbers
    <2>1. t = s \o <<ValueOf(k)>> /\ ValueOf(k).op = "value1" /\ job.tree[k].is # "fn"
        BY <1>0, <1>2, EmitsOne
    <2>2. /\ Len(t) = Len(s) + 1 /\ DOMAIN t = 1 .. Len(s) + 1
          /\ \A i \in 1 .. Len(s) : t[i] = s[i]
          /\ t[Len(s) + 1] = ValueOf(k)
          /\ s = <<>> => t = <<ValueOf(k)>>
          /\ Len(s) \in Nat /\ DOMAIN s = 1 .. Len(s)
        <3>1. t = s \o <<ValueOf(k)>>
            BY <2>1
        <3>2. IsWith(t, s, ValueOf(k))
            BY <3>1, AddedAtEnd
        <3> QED
            BY <3>2 DEF IsWith
    <2>3. ASSUME NEW m \in E \cup {k}, job.tree[m].is = "fn"
          PROVE  \E i \in DOMAIN t : t[i].op = "fn1"
        <3>1. m \in E
            BY <2>1, <2>3
        <3>2. PICK i \in DOMAIN s : s[i].op = "fn1"
            BY <2>3, <3>1 DEF Generated
        <3>3. i \in DOMAIN t /\ t[i] = s[i]
            BY <2>2
        <3> QED
            BY <3>2, <3>3
    <2>4. ASSUME NEW n \in Numbers, E \cup {k} = {n} PROVE t = <<ValueOf(n)>>
        <3>1. n = k /\ E = {}
            BY <2>4
        <3> QED
            BY <2>2, <3>1 DEF Generated
    <2>5. ASSUME E \cup {k} \subseteq Numbers, \E m, n \in E \cup {k} : m # n
          PROVE  Len(t) >= 2 /\ \A i \in DOMAIN t : t[i].op = "value1"
        <3>1. Len(s) >= 1 /\ \A i \in DOMAIN s : s[i].op = "value1"
            <4>1. CASE \E m, n \in E : m # n
                BY <2>2, <2>5, <4>1 DEF Generated
            <4>2. CASE ~(\E m, n \in E : m # n)
                <5>1. PICK m \in E : m \in Numbers
                    BY <2>5
                <5>2. E = {m}
                    BY <4>2
                <5>3. s = <<ValueOf(m)>>
                    BY <5>1, <5>2 DEF Generated
                <5>4. m \in DOMAIN job.tree /\ ValueOf(m).op = "value1"
                    BY <5>1, EmitsOne DEF Numbers
                <5> HIDE DEF ValueOf
                <5> QED
                    BY <5>3, <5>4
            <4> QED
                BY <4>1, <4>2
        <3> QED
            BY <2>1, <2>2, <3>1
    <2> QED
        BY <2>3, <2>4, <2>5 DEF Generated
<1> QED
    BY <1>1, <1>2

LEMMA CompilesStays == job' = job => (CompilesWhen' <=> CompilesWhen)
BY DEF CompilesWhen, Numbers, Throws, EmittedBy

LEMMA JobsFixed == [Next]_vars => job' = job
BY DEF Next, GenerateNext, FinishGenerate, ConvertNext, FinishPass, Translate, FinishOpt,
       PackNext, FinishPack, vars

\* What depends on the job only does not change.
LEMMA TreeStays ==
    ASSUME job' = job
    PROVE  /\ Emitting' = Emitting /\ Numbers' = Numbers
           /\ \A n : ValueOf(n)' = ValueOf(n)
           /\ \A n : Throws(job.tree[n])' <=> Throws(job.tree[n])
           /\ \A E, s : Generated(E, s)' <=> Generated(E, s)
<1>1. Emitting' = Emitting /\ Numbers' = Numbers
    BY DEF Emitting, Numbers, EmittedBy
<1>2. \A n : ValueOf(n)' = ValueOf(n)
    BY DEF ValueOf
<1>3. \A n : Throws(job.tree[n])' <=> Throws(job.tree[n])
    BY DEF Throws
<1>4. \A E, s : Generated(E, s)' <=> Generated(E, s)
    BY <1>1, <1>2 DEF Generated
<1> QED
    BY <1>1, <1>2, <1>3, <1>4

LEMMA GenerateOutcome ==
    ASSUME TreeInv, OutcomeInv, GenerateNext
    PROVE  OutcomeInv'
<1>0. /\ job \in Jobs /\ job.kind = "eval" /\ stage = "generate" /\ ops \in Seq(Ops)
      /\ next \in DOMAIN job.tree /\ Generating /\ job' = job
    BY DEF TreeInv, OutcomeInv, GenerateNext
<1>1. /\ job.tree \in Seq(TreeNodes) /\ Len(job.tree) \in Nat
      /\ DOMAIN job.tree = 1 .. Len(job.tree)
    BY <1>0, EvalJobs
<1> DEFINE E == {k \in Emitting : k < next}
           F == {k \in Emitting : k < next + 1}
<1>2. CASE Throws(job.tree[next])
    <2>1. stage' = "died"
        BY <1>2 DEF GenerateNext
    <2>2. next \in Numbers
        BY <1>0, <1>2, EmitsOne
    <2>3. ~CompilesWhen
        BY <1>2, <2>2 DEF CompilesWhen
    <2> QED
        BY <1>0, <2>1, <2>3, CompilesStays DEF OutcomeInv
<1>3. CASE ~Throws(job.tree[next])
    <2>1. /\ ops' = ops \o EmittedBy(job.tree[next]) /\ next' = next + 1
          /\ stage' = "generate" /\ passes' = passes /\ out' = out
        BY <1>0, <1>3 DEF GenerateNext
    <2>2. E \subseteq Emitting /\ Generated(E, ops) /\ next \notin E
        BY <1>0 DEF Generating
    <2>3. Generated(F, ops')
        <3>1. CASE next \in Emitting
            <4>1. F = E \cup {next}
                BY <1>0, <1>1, <3>1 DEF Emitting
            <4> HIDE DEF E, F
            <4>2. Generated(E \cup {next}, ops')
                BY <1>0, <2>1, <2>2, <3>1, GeneratesOneMore
            <4> QED
                BY <4>1, <4>2
        <3>2. CASE next \notin Emitting
            <4>1. F = E
                BY <1>0, <1>1, <3>2 DEF Emitting
            <4>2. EmittedBy(job.tree[next]) = <<>>
                BY <1>0, <3>2 DEF Emitting
            <4>3. ops' = ops
                BY <1>0, <2>1, <4>2
            <4> QED
                BY <2>2, <4>1, <4>3
        <3> QED
            BY <3>1, <3>2
    <2>4. \A k \in DOMAIN job.tree : k < next + 1 => ~Throws(job.tree[k])
        BY <1>0, <1>1, <1>3 DEF Generating
    <2>5. next' \in 1 .. Len(job.tree) + 1 /\ passes' = job.passes /\ out' = <<>>
        BY <1>0, <1>1, <2>1 DEF Generating
    <2>6. {k \in Emitting : k < next}' = F
        BY <1>0, <2>1, TreeStays
    <2>7. Generating'
        <3>1. Generated({k \in Emitting : k < next}, ops)' <=> Generated(F, ops')
            BY <1>0, <2>6, TreeStays
        <3>2. \A k \in DOMAIN job.tree : (k < next => ~Throws(job.tree[k]))'
            BY <1>0, <2>1, <2>4, TreeStays
        <3> QED
            BY <1>0, <2>3, <2>5, <3>1, <3>2 DEF Generating
    <2> QED
        BY <1>0, <2>1, <2>7 DEF OutcomeInv
<1> QED
    BY <1>2, <1>3

LEMMA PassingStays ==
    ASSUME job' = job, NEW j
    PROVE  /\ Reached(j)' = Reached(j)
           /\ \A o, n : IsCodeOf(o, n, j)' <=> IsCodeOf(o, n, j)
           /\ \A s, t : Passing(j, s, t)' <=> Passing(j, s, t)
<1>1. \A i : Reached(i)' = Reached(i)
    BY DEF Reached
<1>2. \A o, n, i : IsCodeOf(o, n, i)' <=> IsCodeOf(o, n, i)
    BY <1>1 DEF IsCodeOf
<1>3. \A s, t : Passing(j, s, t)' <=> Passing(j, s, t)
    BY <1>2, TreeStays DEF Passing
<1> QED
    BY <1>1, <1>2, <1>3

\* Numbers only, once generated, verify and set out for the first pass.
LEMMA FinishGenerateOutcome ==
    ASSUME TreeInv, OutcomeInv, job.kind = "eval", FinishGenerate
    PROVE  OutcomeInv'
<1>0. /\ job \in Jobs /\ stage = "generate" /\ ops \in Seq(Ops)
      /\ next \notin DOMAIN job.tree /\ Generating /\ job' = job
      /\ stage' = IF WellFormed(ops) THEN "passes" ELSE "none"
      /\ UNCHANGED <<passes, ops, out>>
    BY DEF TreeInv, OutcomeInv, FinishGenerate
<1>1. /\ job.tree \in Seq(TreeNodes) /\ Len(job.tree) \in Nat
      /\ DOMAIN job.tree = 1 .. Len(job.tree)
    BY <1>0, EvalJobs
<1>2. \A k \in DOMAIN job.tree : k < next
    BY <1>0, <1>1 DEF Generating
<1>3. Emitting = {k \in Emitting : k < next}
    BY <1>2 DEF Emitting
<1>4. Generated(Emitting, ops) /\ \A k \in DOMAIN job.tree : ~Throws(job.tree[k])
    BY <1>0, <1>2, <1>3 DEF Generating
<1>5. CASE \E k \in Emitting : job.tree[k].is = "fn"
    <2>1. \E i \in DOMAIN ops : ops[i].op = "fn1"
        BY <1>4, <1>5 DEF Generated
    <2>2. stage' = "none"
        BY <1>0, <2>1 DEF WellFormed
    <2>3. ~CompilesWhen
        BY <1>5 DEF CompilesWhen, Emitting
    <2> QED
        BY <1>0, <2>2, <2>3, CompilesStays DEF OutcomeInv
<1>6. CASE ~(\E k \in Emitting : job.tree[k].is = "fn")
    <2>1. Emitting = Numbers
        <3>1. ASSUME NEW k \in Emitting PROVE k \in Numbers
            BY <1>0, <1>6, EmitsOne DEF Emitting
        <3>2. ASSUME NEW k \in Numbers PROVE k \in Emitting
            BY <1>0, EmitsOne DEF Numbers
        <3> QED
            BY <3>1, <3>2
    <2>2. ASSUME NEW n \in Numbers, Numbers = {n}
          PROVE  Len(ops) = 1 /\ ops[1].op = "value1" /\ ops[1].val = job.tree[n].num
        <3>1. ops = <<ValueOf(n)>>
            BY <1>4, <2>1, <2>2 DEF Generated
        <3>2. ValueOf(n).op = "value1" /\ ValueOf(n).val = job.tree[n].num
            BY <1>0, EmitsOne DEF Numbers
        <3>3. \A v : Len(<<v>>) = 1 /\ <<v>>[1] = v
            OBVIOUS
        <3> QED
            BY <3>1, <3>2, <3>3
    <2>3. Numbers = {} => ops = <<>>
        BY <1>4, <2>1 DEF Generated
    <2>4. (\E m, n \in Numbers : m # n) =>
              Len(ops) >= 2 /\ \A i \in DOMAIN ops : ops[i].op = "value1"
        BY <1>4, <2>1 DEF Generated
    <2>5. \A i \in DOMAIN ops : ops[i].op = "value1"
        <3>1. CASE Numbers = {}
            BY <2>3, <3>1
        <3>2. CASE \E n \in Numbers : Numbers = {n}
            <4>1. DOMAIN ops = {1}
                BY <1>0, <2>2, <3>2
            <4> QED
                BY <2>2, <3>2, <4>1
        <3>3. CASE \E m, n \in Numbers : m # n
            BY <2>4, <3>3
        <3> QED
            BY <3>1, <3>2, <3>3
    <2>6. WellFormed(ops)
        BY <2>5 DEF WellFormed, Symbols
    <2>7. stage' = "passes"
        BY <1>0, <2>6
    <2>8. Passing(1, ops, out)
        <3>1. \A n \in Numbers : Numbers = {n} =>
                 out = <<>> /\ Len(ops) = 1 /\ IsCodeOf(ops[1], n, 1)
            BY <1>0, <2>2 DEF IsCodeOf, Reached, Generating
        <3>2. out = <<>> /\ Len(out) = 0 /\ DOMAIN out = {} /\ Len(ops) \in Nat
            BY <1>0 DEF Generating
        <3>3. (\E m, n \in Numbers : m # n) => Len(ops) + Len(out) >= 2
            BY <2>4, <3>2
        <3> QED
            BY <2>3, <2>4, <3>1, <3>2, <3>3 DEF Passing
    <2>9. OnItsWay
        <3>1. job.passes \in Seq({"ToMLIR", "ToLLVM"})
            BY <1>0, EvalJobs
        <3>2. /\ passes = SubSeq(job.passes, 1, Len(job.passes))
              /\ 1 \in 1 .. Len(job.passes) + 1
            BY <1>0, <3>1, SubSeqFull DEF Generating
        <3> QED
            BY <1>4, <2>1, <2>8, <3>2 DEF OnItsWay
    <2>10. OnItsWay'
        BY <1>0, <2>9, PassingStays, TreeStays DEF OnItsWay
    <2> QED
        BY <1>0, <2>7, <2>10 DEF OutcomeInv
<1> QED
    BY <1>5, <1>6

LEMMA PassesFrom ==
    ASSUME NEW S, NEW a \in Seq(S), NEW j \in 1 .. Len(a) + 1, NEW p,
           p = SubSeq(a, j, Len(a))
    PROVE  /\ (p = <<>>) = (j = Len(a) + 1)
           /\ p # <<>> => /\ j \in 1 .. Len(a) /\ j + 1 \in 1 .. Len(a) + 1
                          /\ Head(p) = a[j] /\ Tail(p) = SubSeq(a, j + 1, Len(a))
<1>1. Len(a) \in Nat
    OBVIOUS
<1>2. CASE j = Len(a) + 1
    <2>1. Len(a) < j
        BY <1>1, <1>2
    <2>2. p = <<>>
        BY <1>1, <2>1, SubSeqEmpty
    <2> QED
        BY <1>2, <2>2
<1>3. CASE j # Len(a) + 1
    <2>1. j \in 1 .. Len(a) /\ Len(a) \in j .. Len(a) /\ j + 1 \in 1 .. Len(a) + 1
        BY <1>1, <1>3
    <2>2. Head(p) = a[j] /\ Tail(p) = SubSeq(a, j + 1, Len(a))
        BY <2>1, HeadTailOfSubSeq
    <2>3. \A i \in j .. Len(a) : a[i] \in S
        BY <2>1
    <2>4. p \in Seq(S) /\ Len(p) = Len(a) - j + 1
        BY <1>1, <2>1, <2>3, SubSeqProperties
    <2>5. Len(p) >= 1
        BY <1>1, <2>1, <2>4
    <2>6. p # <<>>
        <3>1. Len(<<>>) = 0
            BY EmptySeq
        <3>2. SUFFICES ASSUME p = <<>> PROVE FALSE
            OBVIOUS
        <3>3. Len(p) = 0
            BY <3>1, <3>2, Zenon
        <3> QED
            BY <2>5, <3>3
    <2> QED
        BY <1>3, <2>1, <2>2, <2>6
<1> QED
    BY <1>2, <1>3

\* The first pass is the one to MLIR.
LEMMA FirstPass ==
    ASSUME job \in Jobs, job.kind = "eval", job.passes # <<>>
    PROVE  job.passes[1] = "ToMLIR" /\ "ToMLIR" \in Range(job.passes)
<1>1. /\ job.passes \in Seq({"ToMLIR", "ToLLVM"})
      /\ \A i \in DOMAIN job.passes :
            job.passes[i] = "ToLLVM" => i > 1 /\ job.passes[i - 1] = "ToMLIR"
    BY EvalJobs
<1>2. 1 \in DOMAIN job.passes /\ job.passes[1] \in {"ToMLIR", "ToLLVM"}
    BY <1>1
<1>3. job.passes[1] = "ToMLIR"
    BY <1>1, <1>2
<1> QED
    BY <1>2, <1>3, ElementInRange

\* A pass replaces an operation by one that is code of the n-th node.
Renders(r, n, j) ==
    /\ r.ok /\ ~r.died /\ r.gone = {} /\ r.front = <<>>
    /\ \E q : r.at = <<q>> /\ IsCodeOf(q, n, j)

\* A number, and the code it has become, goes through every pass.
LEMMA PassesOn ==
    ASSUME job \in Jobs, job.kind = "eval", NEW j \in 1 .. Len(job.passes),
           NEW o \in Ops, NEW n, IsCodeOf(o, n, j)
    PROVE  Renders(Lower(job.passes[j], o), n, j + 1)
<1> DEFINE p == job.passes[j]
           r == Lower(p, o)
<1>1. /\ job.passes \in Seq({"ToMLIR", "ToLLVM"})
      /\ \A i \in DOMAIN job.passes :
            job.passes[i] = "ToLLVM" => i > 1 /\ job.passes[i - 1] = "ToMLIR"
    BY EvalJobs
<1>2. j \in DOMAIN job.passes /\ p \in {"ToMLIR", "ToLLVM"} /\ j \in Nat /\ j >= 1
      /\ j + 1 # 1 /\ (j + 1) - 1 = j
    BY <1>1
<1>3. Reached(j + 1) = IF \E i \in 1 .. j : job.passes[i] = "ToLLVM" THEN "llvmfunc" ELSE "func"
    BY <1>2 DEF Reached
<1>4. j # 1 => Reached(j) = IF \E i \in 1 .. j - 1 : job.passes[i] = "ToLLVM"
                            THEN "llvmfunc" ELSE "func"
    BY DEF Reached
<1>5. j = 1 => Reached(j) = "value1" /\ p = "ToMLIR"
    <2>1. j = 1 => Reached(j) = "value1"
        BY DEF Reached
    <2>2. j = 1 => job.passes[j] # "ToLLVM"
        BY <1>1, <1>2
    <2> QED
        BY <1>2, <2>1, <2>2
<1>6. o.op = Reached(j) /\ o.val = job.tree[n].num
    BY DEF IsCodeOf
<1> DEFINE func == [Op EXCEPT !.op = "func", !.name = RandomName, !.val = o.val]
           llvm == [o EXCEPT !.op = "llvmfunc"]
<1>7. func.op = "func" /\ func.val = o.val
    BY DEF Op
<1>8. llvm.op = "llvmfunc" /\ llvm.val = o.val
    BY DEF Ops
<1> HIDE DEF func, llvm
<1>9. CASE j = 1
    <2>1. r = Becomes(o, <<func>>)
        BY <1>5, <1>6, <1>9 DEF Lower, ToMLIR, func
    <2>2. Reached(2) = "func"
        BY <1>3, <1>5, <1>9
    <2>3. IsCodeOf(func, n, j + 1)
        BY <1>6, <1>7, <1>9, <2>2 DEF IsCodeOf
    <2> QED
        BY <1>7, <2>1, <2>3 DEF Becomes, Stays, Renders
<1>10. CASE j # 1 /\ p = "ToMLIR"
    <2>1. Reached(j + 1) = Reached(j)
        <3>1. \A i \in 1 .. j : job.passes[i] = "ToLLVM" => i \in 1 .. j - 1
            <4>1. job.passes[j] # "ToLLVM"
                BY <1>10
            <4>2. ASSUME NEW i \in 1 .. j, job.passes[i] = "ToLLVM" PROVE i # j
                BY <4>1, <4>2
            <4> QED
                BY <1>2, <4>2
        <3>2. \A i \in 1 .. j - 1 : i \in 1 .. j
            BY <1>2
        <3> QED
            BY <1>3, <1>4, <1>10, <3>1, <3>2
    <2>2. o.op # "value1" /\ o.op # "fn1"
        BY <1>4, <1>6, <1>10
    <2>3. r = Stays(o)
        BY <1>10, <2>2 DEF Lower, ToMLIR
    <2> QED
        BY <1>6, <1>10, <2>1, <2>3 DEF Stays, IsCodeOf, Renders
<1>11. CASE j # 1 /\ p = "ToLLVM"
    <2>1. Reached(j + 1) = "llvmfunc"
        <3>1. j \in 1 .. j /\ job.passes[j] = "ToLLVM"
            BY <1>2, <1>11
        <3> QED
            BY <1>3, <3>1
    <2>2. CASE o.op = "func"
        <3>1. r = Becomes(o, <<llvm>>)
            BY <1>11, <2>2 DEF Lower, ToLLVM, llvm
        <3> QED
            BY <1>6, <1>8, <1>11, <2>1, <3>1 DEF Becomes, Stays, IsCodeOf, Renders
    <2>3. CASE o.op = "llvmfunc"
        <3>1. r = Stays(o)
            BY <1>11, <2>3 DEF Lower, ToLLVM
        <3> QED
            BY <1>6, <1>11, <2>1, <2>3, <3>1 DEF Stays, IsCodeOf, Renders
    <2> QED
        BY <1>4, <1>6, <1>11, <2>2, <2>3
<1> QED
    BY <1>2, <1>9, <1>10, <1>11

\* What a pass does with an operation it replaces by one.
Replaces(q) == ops' = Tail(ops) /\ out' = out \o <<q>> /\ stage' = stage
LEMMA ConvertsOne ==
    ASSUME ConvertNext, out \in Seq(Ops), NEW q, NEW r,
           r = Lower(Head(passes), Head(ops)),
           ~r.died, r.ok, r.gone = {}, r.front = <<>>, r.at = <<q>>
    PROVE  Replaces(q)
<1>1. /\ ops' = Erase(r.gone, Tail(ops))
      /\ out' = Erase(r.gone, r.front \o out) \o r.at
      /\ UNCHANGED stage
      /\ UNCHANGED <<job, passes, funcs, next>>
    BY DEF ConvertNext
<1>2. <<>> \o out = out
    BY ConcatEmptySeq
<1>3. Erase(r.gone, Tail(ops)) = Tail(ops)
    BY EraseNothing
<1>4. Erase(r.gone, r.front \o out) = out
    BY <1>2, EraseNothing
<1> QED
    BY <1>1, <1>3, <1>4 DEF Replaces

\* The operations set out for the next step of the passes.
LEMMA GoesOn ==
    ASSUME job' = job, stage' = "passes", job.kind = "eval",
           \A k \in DOMAIN job.tree : ~Throws(job.tree[k]), Emitting = Numbers,
           NEW j \in 1 .. Len(job.passes) + 1,
           passes' = SubSeq(job.passes, j, Len(job.passes)), Passing(j, ops', out')
    PROVE  OutcomeInv'
<1>1. Passing(j, ops, out)'
    BY PassingStays
<1>2. OnItsWay'
    BY <1>1, TreeStays DEF OnItsWay
<1> QED
    BY <1>2 DEF OutcomeInv

\* The first of several numbers becomes a function that has their one name.
LEMMA NumberToFunction ==
    ASSUME NEW o, o.op = "value1", NEW r, r = Lower("ToMLIR", o)
    PROVE  /\ r.ok /\ ~r.died /\ r.gone = {} /\ r.front = <<>>
           /\ \E q : r.at = <<q>> /\ q.op = "func" /\ q.name = RandomName
<1> DEFINE func == [Op EXCEPT !.op = "func", !.name = RandomName, !.val = o.val]
<1>1. func.op = "func" /\ func.name = RandomName
    BY DEF Op
<1>2. r = Becomes(o, <<func>>)
    BY DEF Lower, ToMLIR
<1> HIDE DEF func
<1> QED
    BY <1>1, <1>2 DEF Becomes, Stays

LEMMA Ways ==
    \/ Numbers = {}
    \/ \E n \in Numbers : Numbers = {n}
    \/ \E m, n \in Numbers : m # n
OBVIOUS

LEMMA NothingLeft ==
    ASSUME NEW S, NEW s \in Seq(S), Len(s) = 0
    PROVE  s = <<>>
OBVIOUS

LEMMA ConvertOutcome ==
    ASSUME TreeInv, OutcomeInv, job.kind = "eval", ConvertNext
    PROVE  OutcomeInv'
<1>0. /\ job \in Jobs /\ stage = "passes" /\ ops \in Seq(Ops) /\ out \in Seq(Ops)
      /\ passes # <<>> /\ ops # <<>> /\ OnItsWay /\ job' = job /\ passes' = passes
    BY DEF TreeInv, OutcomeInv, ConvertNext
<1>1. /\ \A k \in DOMAIN job.tree : ~Throws(job.tree[k])
      /\ Emitting = Numbers
    BY <1>0 DEF OnItsWay
<1>2. PICK j \in 1 .. Len(job.passes) + 1 :
          passes = SubSeq(job.passes, j, Len(job.passes)) /\ Passing(j, ops, out)
    BY <1>0 DEF OnItsWay
<1>3. job.passes \in Seq({"ToMLIR", "ToLLVM"})
    BY <1>0, EvalJobs
<1>4. j \in 1 .. Len(job.passes) /\ Head(passes) = job.passes[j]
    BY <1>0, <1>2, <1>3, PassesFrom
<1>5. /\ Head(ops) \in Ops /\ Head(ops) = ops[1] /\ Tail(ops) \in Seq(Ops)
      /\ Len(ops) \in Nat /\ Len(ops) >= 1 /\ Len(Tail(ops)) = Len(ops) - 1
      /\ DOMAIN ops = 1 .. Len(ops) /\ DOMAIN Tail(ops) = 1 .. Len(Tail(ops))
      /\ \A i \in 1 .. Len(Tail(ops)) : Tail(ops)[i] = ops[i + 1]
    BY <1>0, HeadTailProperties
<1> DEFINE r == Lower(Head(passes), Head(ops))
<1>6. CASE \E n \in Numbers : Numbers = {n}
    <2>1. PICK n \in Numbers : Numbers = {n}
        BY <1>6
    <2>2. out = <<>> /\ Len(ops) = 1 /\ IsCodeOf(ops[1], n, j)
        BY <1>0, <1>2, <2>1 DEF Passing
    <2>3. r = Lower(job.passes[j], Head(ops)) /\ IsCodeOf(Head(ops), n, j)
        BY <1>4, <1>5, <2>2
    <2> HIDE DEF r
    <2>4. Renders(r, n, j + 1)
        <3>1. Renders(Lower(job.passes[j], Head(ops)), n, j + 1)
            BY <1>0, <1>4, <1>5, <2>3, PassesOn
        <3> QED
            BY <2>3, <3>1
    <2>5. r.ok /\ ~r.died /\ r.gone = {} /\ r.front = <<>>
        BY <2>4 DEF Renders
    <2>6. PICK q : r.at = <<q>> /\ IsCodeOf(q, n, j + 1)
        BY <2>4 DEF Renders
    <2>7. ops' = Tail(ops) /\ out' = out \o <<q>> /\ stage' = stage
        <3>1. r = Lower(Head(passes), Head(ops))
            BY DEF r
        <3>2. out \in Seq(Ops) /\ ~r.died /\ r.ok /\ r.gone = {} /\ r.front = <<>> /\ r.at = <<q>>
            BY <1>0, <2>5, <2>6
        <3>3. Replaces(q)
            BY <3>1, <3>2, ConvertsOne
        <3> QED
            BY <3>3 DEF Replaces
    <2>8. Tail(ops) = <<>>
        <3>1. Tail(ops) \in Seq(Ops) /\ Len(Tail(ops)) = 0
            BY <1>5, <2>2
        <3> QED
            BY <3>1, NothingLeft
    <2>9. out' = <<q>>
        <3>1. IsWith(out', out, q)
            BY <1>0, <2>7, AddedAtEnd
        <3> QED
            BY <2>2, <3>1 DEF IsWith
    <2>10. \A v : Len(<<v>>) = 1 /\ <<v>>[1] = v
        OBVIOUS
    <2>11. Passing(j, ops', out')
        <3>1. ops' = <<>> /\ Len(out') = 1 /\ IsCodeOf(out'[1], n, j + 1)
            BY <2>6, <2>7, <2>8, <2>9, <2>10
        <3>2. j <= Len(job.passes)
            BY <1>3, <1>4
        <3>3. Numbers # {} /\ ~(\E k, m \in Numbers : k # m) /\ (\A k \in Numbers : k = n)
            BY <2>1
        <3> QED
            BY <3>1, <3>2, <3>3 DEF Passing
    <2> QED
        BY <1>0, <1>1, <1>2, <2>7, <2>11, GoesOn
<1>7. CASE \E m, n \in Numbers : m # n
    <2>1. /\ j = 1 /\ Len(ops) + Len(out) >= 2
          /\ \A i \in DOMAIN ops : ops[i].op = "value1"
          /\ \A i \in DOMAIN out : out[i].op = "func" /\ out[i].name = RandomName
        BY <1>2, <1>7 DEF Passing
    <2>2. Head(passes) = "ToMLIR"
        <3>1. job.passes # <<>>
            BY <1>3, <1>4
        <3> QED
            BY <1>0, <1>4, <2>1, <3>1, FirstPass
    <2>3. Head(ops).op = "value1"
        BY <1>5, <2>1
    <2>4. r = Lower("ToMLIR", Head(ops))
        BY <2>2
    <2> HIDE DEF r
    <2>5. /\ r.ok /\ ~r.died /\ r.gone = {} /\ r.front = <<>>
          /\ \E q : r.at = <<q>> /\ q.op = "func" /\ q.name = RandomName
        BY <2>3, <2>4, NumberToFunction
    <2>6. PICK q : r.at = <<q>> /\ q.op = "func" /\ q.name = RandomName
        BY <2>5
    <2>7. ops' = Tail(ops) /\ out' = out \o <<q>> /\ stage' = stage
        <3>1. r = Lower(Head(passes), Head(ops))
            BY DEF r
        <3>2. out \in Seq(Ops) /\ ~r.died /\ r.ok /\ r.gone = {} /\ r.front = <<>> /\ r.at = <<q>>
            BY <1>0, <2>5, <2>6
        <3>3. Replaces(q)
            BY <3>1, <3>2, ConvertsOne
        <3> QED
            BY <3>3 DEF Replaces
    <2>8. IsWith(out', out, q)
        BY <1>0, <2>7, AddedAtEnd
    <2>9. \A i \in DOMAIN out' : out'[i].op = "func" /\ out'[i].name = RandomName
        BY <2>1, <2>6, <2>8 DEF IsWith
    <2>10. \A i \in DOMAIN ops' : ops'[i].op = "value1"
        <3>1. \A i \in DOMAIN Tail(ops) : Tail(ops)[i] = ops[i + 1] /\ i + 1 \in DOMAIN ops
            BY <1>5
        <3> QED
            BY <2>1, <2>7, <3>1
    <2>11. Len(ops') + Len(out') >= 2
        BY <1>5, <2>1, <2>7, <2>8 DEF IsWith
    <2>12. Passing(j, ops', out')
        BY <1>7, <2>1, <2>9, <2>10, <2>11 DEF Passing
    <2> QED
        BY <1>0, <1>1, <1>2, <2>7, <2>12, GoesOn
<1>8. CASE Numbers = {}
    BY <1>0, <1>2, <1>8 DEF Passing
<1> QED
    BY <1>6, <1>7, <1>8, Ways

\* The nodes are finitely many; two of them are more than one.
LEMMA Counting ==
    ASSUME job \in Jobs, job.kind = "eval"
    PROVE  /\ IsFiniteSet(Numbers)
           /\ (\E m, n \in Numbers : m # n) => ~(Cardinality(Numbers) <= 1)
<1>1. IsFiniteSet(1 .. Len(job.tree)) /\ DOMAIN job.tree = 1 .. Len(job.tree)
    <2>1. job.tree \in Seq(TreeNodes)
        BY EvalJobs
    <2>2. Len(job.tree) \in Int /\ DOMAIN job.tree = 1 .. Len(job.tree)
        BY <2>1
    <2>3. \A n \in Int : IsFiniteSet(1 .. n)
        <3> SUFFICES ASSUME NEW n \in Int PROVE IsFiniteSet(1 .. n)
            OBVIOUS
        <3>1. 1 \in Int
            OBVIOUS
        <3> QED
            BY <3>1, FS_Interval, Zenon
    <2> QED
        BY <2>2, <2>3
<1>2. Numbers \in SUBSET (1 .. Len(job.tree))
    BY <1>1 DEF Numbers
<1>3. IsFiniteSet(Numbers)
    BY <1>1, <1>2, FS_Subset
<1>4. ASSUME \E m, n \in Numbers : m # n PROVE ~(Cardinality(Numbers) <= 1)
    <2>1. Cardinality(Numbers) \in Nat
        BY <1>3, FS_CardinalityType
    <2>2. Cardinality(Numbers) # 0
        BY <1>3, <1>4, FS_EmptySet
    <2>3. Cardinality(Numbers) # 1
        BY <1>3, <1>4, FS_Singleton
    <2> QED
        BY <2>1, <2>2, <2>3
<1> QED
    BY <1>3, <1>4

LEMMA FinishPassOutcome ==
    ASSUME TreeInv, OutcomeInv, job.kind = "eval", FinishPass
    PROVE  OutcomeInv'
<1>0. /\ job \in Jobs /\ stage = "passes" /\ out \in Seq(Ops)
      /\ passes # <<>> /\ ops = <<>> /\ OnItsWay /\ job' = job
      /\ WellFormed(out) => passes' = Tail(passes) /\ ops' = out /\ out' = <<>>
                             /\ stage' = "passes"
      /\ ~WellFormed(out) => stage' = "none"
    BY DEF TreeInv, OutcomeInv, FinishPass
<1>1. /\ \A k \in DOMAIN job.tree : ~Throws(job.tree[k])
      /\ Emitting = Numbers
    BY <1>0 DEF OnItsWay
<1>2. PICK j \in 1 .. Len(job.passes) + 1 :
          passes = SubSeq(job.passes, j, Len(job.passes)) /\ Passing(j, ops, out)
    BY <1>0 DEF OnItsWay
<1>3. job.passes \in Seq({"ToMLIR", "ToLLVM"})
    BY <1>0, EvalJobs
<1>4. /\ j \in 1 .. Len(job.passes) /\ j + 1 \in 1 .. Len(job.passes) + 1
      /\ Tail(passes) = SubSeq(job.passes, j + 1, Len(job.passes))
      /\ j \in Nat /\ j + 1 # 1
    <2>1. /\ j \in 1 .. Len(job.passes) /\ j + 1 \in 1 .. Len(job.passes) + 1
          /\ Tail(passes) = SubSeq(job.passes, j + 1, Len(job.passes))
        BY <1>0, <1>2, <1>3, PassesFrom
    <2> QED
        BY <2>1
<1>5. ASSUME WellFormed(out), Passing(j + 1, out, <<>>) PROVE OutcomeInv'
    <2>1. /\ passes' = SubSeq(job.passes, j + 1, Len(job.passes))
          /\ Passing(j + 1, ops', out') /\ stage' = "passes"
        BY <1>0, <1>4, <1>5
    <2> QED
        BY <1>0, <1>1, <1>4, <2>1, GoesOn
<1>6. Len(<<>>) = 0 /\ DOMAIN <<>> = {}
    OBVIOUS
<1>7. CASE Numbers = {}
    <2>1. out = <<>>
        BY <1>2, <1>7 DEF Passing
    <2>2. WellFormed(out)
        BY <1>6, <2>1 DEF WellFormed
    <2>3. Passing(j + 1, out, <<>>)
        BY <1>7, <2>1 DEF Passing
    <2> QED
        BY <1>5, <2>2, <2>3
<1>8. CASE \E n \in Numbers : Numbers = {n}
    <2>1. PICK n \in Numbers : Numbers = {n}
        BY <1>8
    <2>2. Len(out) = 1 /\ IsCodeOf(out[1], n, j + 1)
        <3>1. Len(ops) # 1
            BY <1>0, <1>6
        <3> QED
            BY <1>2, <2>1, <3>1 DEF Passing
    <2>3. out[1].op \in {"func", "llvmfunc"}
        BY <1>4, <2>2 DEF IsCodeOf, Reached
    <2>4. DOMAIN out = {1}
        BY <1>0, <2>2
    <2>5. WellFormed(out)
        BY <2>3, <2>4 DEF WellFormed
    <2>6. Passing(j + 1, out, <<>>)
        <3>1. Numbers # {} /\ ~(\E k, m \in Numbers : k # m) /\ (\A k \in Numbers : k = n)
            BY <2>1
        <3> QED
            BY <2>2, <3>1 DEF Passing
    <2> QED
        BY <1>5, <2>5, <2>6
<1>9. CASE \E m, n \in Numbers : m # n
    <2>1. /\ j = 1 /\ Len(ops) + Len(out) >= 2
          /\ \A i \in DOMAIN out : out[i].op = "func" /\ out[i].name = RandomName
        BY <1>2, <1>9 DEF Passing
    <2>2. 1 \in DOMAIN out /\ 2 \in DOMAIN out
        BY <1>0, <1>6, <2>1
    <2>3. ~WellFormed(out)
        <3>1. /\ out[1].op = "func" /\ out[2].op = "func" /\ out[1].name = out[2].name
            BY <2>1, <2>2
        <3> QED
            BY <2>2, <3>1 DEF WellFormed, Symbols
    <2>4. "ToMLIR" \in Range(job.passes)
        <3>1. job.passes # <<>>
            BY <1>3, <1>4
        <3> QED
            BY <1>0, <3>1, FirstPass
    <2>5. ~CompilesWhen
        BY <1>0, <1>9, <2>4, Counting DEF CompilesWhen
    <2>6. stage' = "none" /\ ~CompilesWhen'
        BY <1>0, <2>3, <2>5, CompilesStays
    <2> QED
        BY <2>6 DEF OutcomeInv
<1> QED
    BY <1>7, <1>8, <1>9, Ways

\* When no pass is left, what LLVM knows is what the pass to LLVM has made.
LEMMA TranslateOutcome ==
    ASSUME TreeInv, OutcomeInv, job.kind = "eval", Translate
    PROVE  OutcomeInv'
<1> DEFINE known == \A o \in Range(ops) : o.op = "llvmfunc"
           code == [i \in DOMAIN ops |-> [Func EXCEPT !.name = ops[i].name, !.val = ops[i].val]]
<1>a. stage = "passes" /\ passes = <<>> /\ UNCHANGED <<job, passes, ops, out>>
    BY Zenon DEF Translate
<1>b. IF job.phase >= 5 /\ known THEN stage' = "pack" /\ next' = 1 /\ funcs' = code
                                 ELSE stage' = "none" /\ UNCHANGED <<funcs, next>>
    BY Zenon DEF Translate
<1> HIDE DEF known, code
<1>0. /\ job \in Jobs /\ stage = "passes" /\ ops \in Seq(Ops) /\ passes = <<>>
      /\ out = <<>> /\ OnItsWay /\ job' = job
    <2>1. job \in Jobs /\ ops \in Seq(Ops) /\ out = <<>>
        BY <1>a DEF TreeInv
    <2>2. OnItsWay
        BY <1>a DEF OutcomeInv
    <2> QED
        BY <1>a, <2>1, <2>2
<1>1. job.phase >= 5 /\ known => stage' = "pack" /\ funcs' = code
    BY <1>b
<1>2. ~(job.phase >= 5 /\ known) => stage' = "none"
    BY <1>b
<1>3. /\ \A k \in DOMAIN job.tree : ~Throws(job.tree[k])
      /\ Emitting = Numbers
    BY <1>0 DEF OnItsWay
<1>4. PICK j \in 1 .. Len(job.passes) + 1 :
          passes = SubSeq(job.passes, j, Len(job.passes)) /\ Passing(j, ops, out)
    BY <1>0 DEF OnItsWay
<1>5. job.passes \in Seq({"ToMLIR", "ToLLVM"})
    BY <1>0, EvalJobs
<1>6. j = Len(job.passes) + 1 /\ Len(job.passes) \in Nat
    <2>1. j = Len(job.passes) + 1
        BY <1>0, <1>4, <1>5, PassesFrom
    <2> QED
        BY <1>5, <2>1
<1>7. /\ \A n \in DOMAIN job.tree : EmittedBy(job.tree[n]) # <<>> => job.tree[n].is # "fn"
      /\ \A n \in Numbers : ~Throws(job.tree[n])
    <2>1. \A n \in Numbers : n \in DOMAIN job.tree /\ job.tree[n].is = "number"
        BY DEF Numbers
    <2>2. \A n \in DOMAIN job.tree : EmittedBy(job.tree[n]) # <<>> => n \in Numbers
        BY <1>3 DEF Emitting
    <2>3. \A n \in Numbers : job.tree[n].is # "fn"
        BY <2>1
    <2> QED
        BY <1>3, <2>1, <2>2, <2>3
<1>8. ASSUME \A m, n \in Numbers : m = n,
             job.phase >= 5 => (known <=> (Numbers # {} => "ToLLVM" \in Range(job.passes))),
             job.phase >= 5 /\ known => Coded'
      PROVE  OutcomeInv'
    <2>1. Cardinality(Numbers) <= 1
        <3>1. CASE Numbers = {}
            BY <3>1, FS_EmptySet
        <3>2. CASE Numbers # {}
            <4>0. PICK n : n \in Numbers
                BY <3>2
            <4>1. Numbers = {n}
                BY <1>8, <4>0
            <4>2. Cardinality(Numbers) = 1
                BY <4>1, FS_Singleton
            <4> QED
                BY <4>2
        <3> QED
            BY <3>1, <3>2
    <2>2. CompilesWhen <=> job.phase >= 5 /\ known
        BY <1>7, <1>8, <2>1 DEF CompilesWhen
    <2>3. CASE job.phase >= 5 /\ known
        <3>a. CompilesWhen'
            BY <1>0, <2>2, <2>3, CompilesStays
        <3>1. stage' = "pack" /\ CompilesWhen' /\ Coded'
            BY <1>1, <1>8, <2>3, <3>a
        <3>2. (\A m, n \in Numbers : m = n)'
            BY <1>0, <1>8, TreeStays
        <3> QED
            BY <3>1, <3>2 DEF OutcomeInv
    <2>4. CASE ~(job.phase >= 5 /\ known)
        <3>a. ~CompilesWhen'
            BY <1>0, <2>2, <2>4, CompilesStays
        <3>1. stage' = "none" /\ ~CompilesWhen'
            BY <1>2, <2>4, <3>a
        <3> QED
            BY <3>1 DEF OutcomeInv
    <2> QED
        BY <2>3, <2>4
<1>9. CASE Numbers = {}
    <2>1. ops = <<>>
        BY <1>4, <1>9 DEF Passing
    <2>2. known
        BY <2>1, RangeOfNone DEF known
    <2>3. job.phase >= 5 /\ known => Coded'
        <3>1. SUFFICES ASSUME job.phase >= 5 /\ known PROVE Coded'
            OBVIOUS
        <3>2. DOMAIN funcs' = {}
            <4>1. DOMAIN ops = {}
                BY <2>1
            <4> QED
                BY <1>1, <3>1, <4>1 DEF code
        <3>3. Numbers' = {} /\ Code' = {}
            BY <1>0, <1>9, <3>2, TreeStays DEF Code
        <3> QED
            BY <3>3 DEF Coded
    <2> QED
        BY <1>8, <1>9, <2>2, <2>3
<1>10. CASE \E n \in Numbers : Numbers = {n}
    <2>1. PICK n \in Numbers : Numbers = {n}
        BY <1>10
    <2>2. Len(ops) = 1 /\ IsCodeOf(ops[1], n, j)
        <3>1. ~(j <= Len(job.passes))
            BY <1>6
        <3> QED
            BY <1>4, <2>1, <3>1 DEF Passing
    <2>3. DOMAIN ops = {1} /\ Range(ops) = {ops[1]}
        <3>1. DOMAIN ops = {1}
            BY <1>0, <2>2
        <3> QED
            BY <3>1 DEF Range
    <2>4. known <=> ops[1].op = "llvmfunc"
        BY <2>3 DEF known
    <2>5. known <=> "ToLLVM" \in Range(job.passes)
        <3>1. DOMAIN job.passes = 1 .. j - 1 /\ j \in Nat
            BY <1>5, <1>6
        <3>2. "ToLLVM" \in Range(job.passes)
                 <=> \E i \in 1 .. j - 1 : job.passes[i] = "ToLLVM"
            BY <3>1 DEF Range
        <3>3. CASE j = 1
            <4>1. ~(\E i \in 1 .. j - 1 : job.passes[i] = "ToLLVM")
                BY <3>3
            <4>2. Reached(j) = "value1"
                BY <3>3 DEF Reached
            <4> QED
                BY <2>2, <2>4, <3>2, <4>1, <4>2 DEF IsCodeOf
        <3>4. CASE j # 1
            <4>1. Reached(j) = IF \E i \in 1 .. j - 1 : job.passes[i] = "ToLLVM"
                               THEN "llvmfunc" ELSE "func"
                BY <3>4 DEF Reached
            <4>2. Reached(j) = "llvmfunc" <=> "ToLLVM" \in Range(job.passes)
                BY <3>2, <4>1
            <4> QED
                BY <2>2, <2>4, <4>2 DEF IsCodeOf
        <3> QED
            BY <3>3, <3>4
    <2>6. job.phase >= 5 /\ known => Coded'
        <3>1. SUFFICES ASSUME job.phase >= 5 /\ known PROVE Coded'
            OBVIOUS
        <3>2. funcs' = [i \in {1} |-> [Func EXCEPT !.name = ops[i].name, !.val = ops[i].val]]
            BY <1>1, <2>3, <3>1 DEF code
        <3>3. /\ DOMAIN funcs' = {1}
              /\ funcs'[1] = [Func EXCEPT !.name = ops[1].name, !.val = ops[1].val]
            BY <3>2
        <3>4. ~funcs'[1].interface /\ funcs'[1].val = ops[1].val
            BY <3>3 DEF Func
        <3>5. Code' = {1}
            BY <3>3, <3>4 DEF Code
        <3>6. Numbers' = {n} /\ funcs'[1].val = job'.tree[n].num
            BY <1>0, <2>1, <2>2, <3>4, TreeStays DEF IsCodeOf
        <3> QED
            BY <3>5, <3>6 DEF Coded
    <2>7. Numbers # {} /\ \A k, m \in Numbers : k = m
        BY <2>1
    <2> QED
        BY <1>8, <2>5, <2>6, <2>7
<1>11. CASE \E m, n \in Numbers : m # n
    <2>1. /\ j = 1 /\ Len(ops) + Len(out) >= 2
          /\ \A i \in DOMAIN ops : ops[i].op = "value1"
        BY <1>4, <1>11 DEF Passing
    <2>2. 1 \in DOMAIN ops
        <3>1. Len(out) = 0
            BY <1>0, EmptySeq
        <3> QED
            BY <1>0, <2>1, <3>1
    <2>3. ~known
        <3>1. ops[1] \in Range(ops) /\ ops[1].op = "value1"
            BY <2>1, <2>2, ElementInRange
        <3> QED
            BY <3>1 DEF known
    <2>4. "ToLLVM" \notin Range(job.passes)
        <3>1. DOMAIN job.passes = {}
            BY <1>5, <1>6, <2>1
        <3> QED
            BY <3>1 DEF Range
    <2>5. ~CompilesWhen
        BY <1>11, <2>4 DEF CompilesWhen
    <2>6. stage' = "none" /\ ~CompilesWhen'
        BY <1>0, <1>2, <2>3, <2>5, CompilesStays
    <2> QED
        BY <2>6 DEF OutcomeInv
<1> QED
    BY <1>9, <1>10, <1>11, Ways

\* Packing adds interfaces only.
LEMMA PackOutcome ==
    ASSUME PackInv, OutcomeInv, job.kind = "eval", PackNext
    PROVE  OutcomeInv'
<1>0. /\ stage = "pack" /\ stage' = "pack" /\ job' = job
      /\ CompilesWhen /\ Coded /\ (\A m, n \in Numbers : m = n)
      /\ funcs \in Seq(Funcs) /\ next \in DOMAIN funcs
    BY DEF PackInv, OutcomeInv, PackNext
<1>1. Code' = Code /\ \A i \in Code : funcs'[i] = funcs[i]
    <2>1. CASE Skipped(funcs[next])
        BY <2>1 DEF PackNext, Code
    <2>2. CASE ~Skipped(funcs[next])
        <3> DEFINE g == Interface(funcs[next])
        <3>1. funcs' = Append(funcs, g)
            BY <2>2 DEF PackNext
        <3>2. g \in Funcs /\ g.interface
            <4>1. funcs[next] \in Funcs
                BY <1>0
            <4> QED
                BY <4>1, InterfaceOf
        <3> HIDE DEF g
        <3>3. /\ DOMAIN funcs' = DOMAIN funcs \cup {Len(funcs) + 1}
              /\ funcs'[Len(funcs) + 1] = g
              /\ \A i \in DOMAIN funcs : funcs'[i] = funcs[i]
            BY <1>0, <3>1, <3>2
        <3> QED
            BY <3>2, <3>3 DEF Code
    <2> QED
        BY <2>1, <2>2
<1>2. Coded'
    <2>1. Numbers' = Numbers
        BY <1>0, TreeStays
    <2> QED
        BY <1>0, <1>1, <2>1 DEF Coded
<1>3. CompilesWhen' /\ (\A m, n \in Numbers : m = n)'
    BY <1>0, CompilesStays, TreeStays
<1> QED
    BY <1>0, <1>2, <1>3 DEF OutcomeInv

LEMMA OutcomeInvariant == Spec => []OutcomeInv
<1>1. Init => OutcomeInv
    <2> SUFFICES ASSUME Init, job.kind = "eval" PROVE OutcomeInv
        BY DEF OutcomeInv
    <2>1. /\ job \in Jobs /\ stage = "generate" /\ ops = <<>> /\ out = <<>>
          /\ passes = job.passes /\ next = 1
        BY CodeGenAssumption DEF Init
    <2>2. job.tree \in Seq(TreeNodes) /\ Len(job.tree) \in Nat
          /\ DOMAIN job.tree = 1 .. Len(job.tree)
        BY <2>1, EvalJobs
    <2>3. {k \in Emitting : k < next} = {}
        BY <2>1, <2>2 DEF Emitting
    <2>4. Generated({}, <<>>)
        BY DEF Generated
    <2>5. next \in 1 .. Len(job.tree) + 1 /\ \A k \in DOMAIN job.tree : ~(k < next)
        BY <2>1, <2>2
    <2>6. Generating
        BY <2>1, <2>3, <2>4, <2>5 DEF Generating
    <2> QED
        BY <2>1, <2>6 DEF OutcomeInv
<1>2. TreeInv /\ PackInv /\ OutcomeInv /\ [Next]_vars => OutcomeInv'
    <2> SUFFICES ASSUME TreeInv, PackInv, OutcomeInv, [Next]_vars PROVE OutcomeInv'
        OBVIOUS
    <2>0. job' = job
        BY JobsFixed
    <2> SUFFICES ASSUME job.kind = "eval" PROVE OutcomeInv'
        BY <2>0 DEF OutcomeInv
    <2>1. CASE GenerateNext
        BY <2>1, GenerateOutcome
    <2>2. CASE FinishGenerate
        BY <2>2, FinishGenerateOutcome
    <2>3. CASE ConvertNext
        BY <2>3, ConvertOutcome
    <2>4. CASE FinishPass
        BY <2>4, FinishPassOutcome
    <2>5. CASE Translate
        BY <2>5, TranslateOutcome
    <2>6. CASE FinishOpt
        BY <2>6 DEF FinishOpt
    <2>7. CASE PackNext
        BY <2>7, PackOutcome
    <2>8. CASE FinishPack
        <3>1. /\ stage = "pack" /\ stage' = "published" /\ UNCHANGED <<job, funcs>>
              /\ CompilesWhen /\ Coded /\ (\A m, n \in Numbers : m = n)
            BY <2>8 DEF FinishPack, OutcomeInv
        <3>2. CompilesWhen' /\ Coded' /\ (\A m, n \in Numbers : m = n)'
            BY <3>1, CompilesStays, TreeStays DEF Coded, Code
        <3> QED
            BY <3>1, <3>2 DEF OutcomeInv
    <2>9. CASE UNCHANGED vars
        <3>1. UNCHANGED <<job, stage, passes, ops, out, funcs, next>>
            BY <2>9 DEF vars
        <3>2. CompilesWhen' = CompilesWhen /\ Coded' = Coded /\ Numbers' = Numbers
            BY <3>1 DEF CompilesWhen, Throws, Coded, Code, Numbers, EmittedBy
        <3>3. Generating' = Generating /\ OnItsWay' = OnItsWay
            BY <3>1 DEF Generating, OnItsWay, Generated, Passing, IsCodeOf, Reached,
                        Emitting, Numbers, ValueOf, Throws, EmittedBy
        <3> QED
            BY <3>1, <3>2, <3>3 DEF OutcomeInv
    <2> QED
        BY <2>1, <2>2, <2>3, <2>4, <2>5, <2>6, <2>7, <2>8, <2>9 DEF Next
<1> QED
    BY <1>1, <1>2, TreeInvariant, PackInvariant, PTL DEF Spec

\* A tree becomes code exactly when it emits no function and at most one
\* number that fits, and goes all the way; the code is then what the number
\* says (namespace.cpp:172-211).
THEOREM OutcomesAreRight == Spec => []OutcomeIsRight
<1>1. OutcomeInv => OutcomeIsRight
    <2> SUFFICES ASSUME OutcomeInv, Ended, job.kind = "eval"
                 PROVE  /\ stage = "published" <=> CompilesWhen
                        /\ stage = "published" =>
                              /\ Cardinality(Code) = Cardinality(Numbers)
                              /\ {funcs[i].val : i \in Code}
                                    = {job.tree[n].num : n \in Numbers}
        BY DEF OutcomeIsRight
    <2>1. CASE stage \in {"none", "died", "printed"}
        BY <2>1 DEF OutcomeInv
    <2>2. CASE stage = "published"
        <3>1. CompilesWhen /\ Coded /\ (\A m, n \in Numbers : m = n)
            BY <2>2 DEF OutcomeInv
        <3>2. CASE Numbers = {}
            BY <2>2, <3>1, <3>2 DEF Coded
        <3>3. CASE Numbers # {}
            <4>1. PICK n \in Numbers : Numbers = {n}
                BY <3>1, <3>3
            <4>2. Code = {1} /\ funcs[1].val = job.tree[n].num
                BY <3>1, <4>1 DEF Coded
            <4>3. Cardinality(Code) = 1 /\ Cardinality(Numbers) = 1
                BY <4>1, <4>2, FS_Singleton
            <4> QED
                BY <2>2, <3>1, <4>1, <4>2, <4>3
        <3> QED
            BY <3>2, <3>3
    <2> QED
        BY <2>1, <2>2 DEF Ended
<1> QED
    BY <1>1, OutcomeInvariant, PTL
=============================================================================
