-------------------------------- MODULE CodeGen --------------------------------
(***************************************************************************)
(* Code generation of libserene.v0: the operations a namespace's tree is   *)
(* turned into, the passes that rewrite them one by one, the translation   *)
(* to an LLVM module, and the packed interface of its functions (which     *)
(* libserene has too).  SereneContext takes all of it as one step.         *)
(*                                                                         *)
(* A job is one module: the tree of a namespace ("eval"), a file of SLIR   *)
(* operations given to slir-opt ("opt"), or an LLVM module whose functions *)
(* are to be packed ("pack").  Operations inside the bodies of functions   *)
(* are left out.                                                           *)
(***************************************************************************)
EXTENDS Integers, Sequences, FiniteSets, SequencesExt

CONSTANTS
    Jobs,
    Parts,      \* what names are put together from
    IntMax      \* the largest int, 2^31 - 1 in the code

VARIABLES
    job,        \* what is compiled
    stage,      \* how far it is, or how it ended
    passes,     \* the passes still to be run
    ops,        \* the operations of the module a pass has not come to
    out,        \* those it has rewritten; while generating, none
    funcs,      \* the functions of the LLVM module
    next        \* the next node of the tree, or the next function to pack

vars == <<job, stage, passes, ops, out, funcs, next>>

\* An operation: what it is called, the values it uses, what it defines.
Op == [op |-> "none", id |-> 0, uses |-> {}, name |-> <<>>, val |-> 0,
       top |-> FALSE, constant |-> FALSE, scalar |-> TRUE]
Func == [name |-> <<>>, params |-> 0, void |-> FALSE, declared |-> FALSE, val |-> 0,
         interface |-> FALSE, calls |-> <<>>, loads |-> <<>>, stores |-> {}]

RandomName == <<"randomname">>
Packed(name) == <<"_serene_">> \o name              \* makePackedFunctionName
FQ(name) == <<"ns", "/">> \o name                   \* makeFQSymbolName

Words == Seq(Parts)
SLIROps == {"value", "symbol", "fn", "calc", "call", "define"}
Made == {"none", "value1", "fn1", "func", "llvmfunc", "global", "set_value"}
Ops == [op : SLIROps \cup Made, id : Nat, uses : SUBSET Nat, name : Words, val : Int,
        top : BOOLEAN, constant : BOOLEAN, scalar : BOOLEAN]
Funcs == [name : Words, params : Nat, void : BOOLEAN, declared : BOOLEAN, val : Int,
          interface : BOOLEAN, calls : Words, loads : Seq(Nat), stores : SUBSET Nat]

TreeNodes == [is : {"number", "fn", "other"}, def : BOOLEAN, num : Int,
              symbols : BOOLEAN, name : Words]

\* What a job may be.  A tree is compiled by the passes to MLIR and to LLVM;
\* setOperationPhase adds the second one after the first or not at all.
\* In a module of SLIR the values used are those of operations that are no
\* definitions, and a definition uses one.  The functions of an LLVM module
\* have names of their own, and none that an interface would be given.
ASSUME CodeGenAssumption ==
    /\ {"ns", "/", "_serene_", "randomname"} \subseteq Parts
    /\ \A j \in Jobs : j.kind \in {"eval", "opt", "pack"}
    /\ \A j \in Jobs : j.kind = "eval" =>
          /\ j.ops = <<>> /\ j.passes \in Seq({"ToMLIR", "ToLLVM"})
          /\ \A i \in DOMAIN j.passes :
                j.passes[i] = "ToLLVM" => i > 1 /\ j.passes[i - 1] = "ToMLIR"
          /\ j.tree \in Seq(TreeNodes)
    /\ \A j \in Jobs : j.kind = "opt" =>
          /\ j.passes = <<"LowerSLIR">> /\ j.named \in BOOLEAN /\ j.ops \in Seq(Ops)
          /\ \A i \in DOMAIN j.ops :
                /\ j.ops[i].op \in SLIROps
                /\ j.ops[i].op = "define" => j.ops[i].uses # {}
                /\ \A u \in j.ops[i].uses :
                      \E k \in DOMAIN j.ops : j.ops[k].id = u /\ j.ops[k].op # "define"
    /\ \A j \in Jobs : j.kind = "pack" =>
          /\ j.funcs \in Seq(Funcs)
          /\ \A i, k \in DOMAIN j.funcs :
                /\ ~j.funcs[i].interface
                /\ j.funcs[i].name = j.funcs[k].name => i = k
                /\ j.funcs[i].name # Packed(j.funcs[k].name)

Init ==
    /\ job \in Jobs
    /\ stage = IF job.kind = "eval" THEN "generate"
               ELSE IF job.kind = "opt" THEN "passes" ELSE "pack"
    /\ passes = job.passes /\ ops = job.ops /\ out = <<>>
    /\ funcs = job.funcs /\ next = 1

-----------------------------------------------------------------------------
(* Namespace::generate                                                     *)

\* What a node becomes: a number (bound to a symbol, it becomes nothing), a
\* function whose arguments are all symbols, or a binding of one.
EmittedBy(n) ==
    CASE n.is = "number" /\ ~n.def -> <<[Op EXCEPT !.op = "value1", !.val = n.num]>>
      [] n.is = "fn" /\ n.symbols -> <<[Op EXCEPT !.op = "fn1", !.name = n.name]>>
      [] OTHER -> <<>>

\* Number::toI64 is std::stoi, which drops a fraction and throws at what is
\* no int; nobody catches it.
Throws(n) == n.is = "number" /\ ~n.def /\ n.num \notin -IntMax - 1 .. IntMax

GenerateNext ==
    /\ stage = "generate" /\ next \in DOMAIN job.tree
    /\ LET n == job.tree[next]
       IN  IF Throws(n) THEN stage' = "died" /\ UNCHANGED <<ops, next>>
           ELSE ops' = ops \o EmittedBy(n) /\ next' = next + 1 /\ UNCHANGED stage
    /\ UNCHANGED <<job, passes, out, funcs>>

\* Fault: names are not compared.
WellFormedApart(s) ==
    \A i \in DOMAIN s : s[i].op # "fn1" /\ (s[i].op = "global" => s[i].scalar)
\* Verification: symbols are unique in a module; a global has a type of LLVM;
\* and the operation of a function has a function as its result, where
\* Fn::generateIR makes it with an integer.
Symbols == {"func", "llvmfunc", "define", "global"}
WellFormed(s) ==
    /\ \A i \in DOMAIN s : s[i].op # "fn1" /\ (s[i].op = "global" => s[i].scalar)
    /\ \A i, j \in DOMAIN s :
          s[i].op \in Symbols /\ s[j].op \in Symbols /\ s[i].name = s[j].name => i = j

FinishGenerate ==
    /\ stage = "generate" /\ next \notin DOMAIN job.tree
    /\ stage' = IF WellFormed(ops) THEN "passes" ELSE "none"
    /\ UNCHANGED <<job, passes, ops, out, funcs, next>>

-----------------------------------------------------------------------------
(* The passes: each visits the operations in order, replaces the illegal   *)
(* ones by the patterns it has, and fails when it has none.                *)

Stays(o) == [ok |-> TRUE, died |-> FALSE, front |-> <<>>, at |-> <<o>>, gone |-> {}]
Fails(o) == [Stays(o) EXCEPT !.ok = FALSE]
Becomes(o, s) == [Stays(o) EXCEPT !.at = s]

\* SLIRToMLIRPass, with the patterns ValueOpLowering and FnOpLowering.
ToMLIR(o) ==
    CASE o.op = "value1" ->
            Becomes(o, <<[Op EXCEPT !.op = "func", !.name = RandomName, !.val = o.val]>>)
      [] o.op = "fn1" ->
            Becomes(o, <<[Op EXCEPT !.op = "func", !.name = o.name, !.val = 3]>>)
      [] OTHER -> Stays(o)

\* SLIRToLLVMDialect converts everything.
ToLLVM(o) ==
    CASE o.op = "func" -> Becomes(o, <<[o EXCEPT !.op = "llvmfunc"]>>)
      [] o.op = "llvmfunc" -> Stays(o)
      [] OTHER -> Fails(o)

\* Fault: the operation of a constant goes with its first definition.
UnusedConstantsEager(o, v) == {v.id}
\* A constant that was only used by its definition would be erased too, but
\* the definition counts as a use until the pass is over.
UnusedConstants(o, v) ==
    {u \in {v.id} : \A p \in Range(ops \o out) : u \notin p.uses}

\* The operations without the one that is erased, if it is among them.
Erase(gone, s) ==
    IF \E i \in DOMAIN s : s[i].id \in gone
    THEN RemoveAt(s, CHOOSE i \in DOMAIN s : s[i].id \in gone) ELSE s

\* LowerDefine, and LowerDefineConstant for what it makes of constants: a
\* global that holds the value, or one to be set when the value is known.  A
\* module without a name has none to put in front of the symbol's.
LowerDefine(o) ==
    LET v == CHOOSE p \in Range(job.ops) : p.id \in o.uses
        global == [Op EXCEPT !.op = "global", !.name = FQ(o.name), !.scalar = v.scalar]
    IN  CASE v.op = "fn" -> Becomes(o, <<>>)
          [] v.op # "fn" /\ ~job.named -> [Stays(o) EXCEPT !.died = TRUE]
          [] v.op \in {"value", "symbol"} /\ job.named ->
                [Becomes(o, <<[global EXCEPT !.constant = TRUE, !.val = v.val]>>)
                    EXCEPT !.gone = UnusedConstants(o, v)]
          [] v.op \notin {"fn", "value", "symbol"} /\ job.named /\ o.top -> Becomes(o, <<>>)
          [] v.op \notin {"fn", "value", "symbol"} /\ job.named /\ ~o.top ->
                [Becomes(o, <<[Op EXCEPT !.op = "set_value", !.uses = o.uses,
                                         !.name = FQ(o.name)]>>)
                    EXCEPT !.front = <<global>>]

\* LowerSLIR: of this dialect values, functions and set_value are legal.
LowerSLIR(o) ==
    CASE o.op = "define" -> LowerDefine(o)
      [] o.op \in {"symbol", "call"} -> Fails(o)
      [] OTHER -> Stays(o)

Lower(p, o) ==
    CASE p = "ToMLIR" -> ToMLIR(o) [] p = "ToLLVM" -> ToLLVM(o)
      [] p = "LowerSLIR" -> LowerSLIR(o)

ConvertNext ==
    /\ stage = "passes" /\ passes # <<>> /\ ops # <<>>
    /\ LET r == Lower(Head(passes), Head(ops))
       IN  \/ /\ r.died /\ stage' = "died" /\ UNCHANGED <<ops, out>>
           \/ /\ ~r.died /\ ~r.ok /\ stage' = "none" /\ UNCHANGED <<ops, out>>
           \/ /\ ~r.died /\ r.ok
              /\ ops' = Erase(r.gone, Tail(ops))
              /\ out' = Erase(r.gone, r.front \o out) \o r.at
              /\ UNCHANGED stage
    /\ UNCHANGED <<job, passes, funcs, next>>

\* The pass manager verifies what a pass has left.
FinishPass ==
    /\ stage = "passes" /\ passes # <<>> /\ ops = <<>>
    /\ IF WellFormed(out)
       THEN passes' = Tail(passes) /\ ops' = out /\ out' = <<>> /\ UNCHANGED stage
       ELSE stage' = "none" /\ UNCHANGED <<passes, ops, out>>
    /\ UNCHANGED <<job, funcs, next>>

-----------------------------------------------------------------------------
\* compileToLLVM: there is a module in a phase that wants one, when nothing
\* is left that LLVM does not know.
Translate ==
    /\ stage = "passes" /\ passes = <<>> /\ job.kind = "eval"
    /\ IF job.phase >= 5 /\ \A o \in Range(ops) : o.op = "llvmfunc"
       THEN /\ stage' = "pack" /\ next' = 1
            /\ funcs' = [i \in DOMAIN ops |-> [Func EXCEPT !.name = ops[i].name,
                                                           !.val = ops[i].val]]
       ELSE stage' = "none" /\ UNCHANGED <<funcs, next>>
    /\ UNCHANGED <<job, passes, ops, out>>

\* slir-opt prints the module.
FinishOpt ==
    /\ stage = "passes" /\ passes = <<>> /\ job.kind = "opt"
    /\ stage' = "printed"
    /\ UNCHANGED <<job, passes, ops, out, funcs, next>>

-----------------------------------------------------------------------------
(* packFunctionArguments: the list of functions is walked while interfaces *)
(* are added to it.                                                        *)

\* Fault: interfaces are functions like the others, to a depth.
SkippedOnce(f) == f.declared \/ Len(f.name) > 2
Skipped(f) == f.declared \/ f.interface
Interface(f) ==
    [Func EXCEPT !.name = Packed(f.name), !.params = 1, !.void = TRUE,
                 !.interface = TRUE, !.calls = f.name,
                 !.loads = [i \in 1 .. f.params |-> i - 1],
                 !.stores = IF f.void THEN {} ELSE {f.params}]

PackNext ==
    /\ stage = "pack" /\ next \in DOMAIN funcs
    /\ funcs' = IF Skipped(funcs[next]) THEN funcs
                ELSE Append(funcs, Interface(funcs[next]))
    /\ next' = next + 1
    /\ UNCHANGED <<job, stage, passes, ops, out>>

FinishPack ==
    /\ stage = "pack" /\ next \notin DOMAIN funcs
    /\ stage' = "published"
    /\ UNCHANGED <<job, passes, ops, out, funcs, next>>

Next ==
    \/ GenerateNext \/ FinishGenerate \/ ConvertNext \/ FinishPass
    \/ Translate \/ FinishOpt \/ PackNext \/ FinishPack

Spec == Init /\ [][Next]_vars

-----------------------------------------------------------------------------
(* Properties                                                              *)

Ended == stage \in {"none", "died", "printed", "published"}
Numbers == {n \in DOMAIN job.tree : job.tree[n].is = "number" /\ ~job.tree[n].def}

\* namespace.cpp:172-211, what SereneContext takes for granted: a tree yields
\* code exactly when it emits no function and at most one number, which must
\* fit an int, and the passes and the phase go all the way; and whatever is
\* published has one function for each number, with what the number says.
CompilesWhen ==
    /\ \A n \in DOMAIN job.tree : EmittedBy(job.tree[n]) # <<>> => job.tree[n].is # "fn"
    /\ \A n \in Numbers : ~Throws(job.tree[n])
    /\ Numbers # {} => "ToLLVM" \in Range(job.passes)
    /\ "ToMLIR" \in Range(job.passes) => Cardinality(Numbers) <= 1
    /\ job.phase >= 5
Code == {i \in DOMAIN funcs : ~funcs[i].interface}
OutcomeIsRight ==
    Ended /\ job.kind = "eval" =>
        /\ stage = "published" <=> CompilesWhen
        /\ stage = "published" =>
              /\ Cardinality(Code) = Cardinality(Numbers)
              /\ {funcs[i].val : i \in Code} = {job.tree[n].num : n \in Numbers}

\* packer.cpp:32-95: though the list grows under the walk, every function
\* with a body gets one interface, which reads its arguments from the first
\* slots in order and leaves the result in the next one, and nothing else does.
PackedOnce ==
    stage = "published" =>
        LET added == {f \in Range(funcs) : f.interface}
        IN  /\ {f.calls : f \in added} =
                    {f.name : f \in {g \in Range(funcs) \ added : ~g.declared}}
            /\ \A i, j \in DOMAIN funcs : funcs[i].name = funcs[j].name => i = j
            /\ \A f \in added, g \in Range(funcs) :
                  f.calls = g.name =>
                     /\ f.name = Packed(g.name)
                     /\ Len(f.loads) = g.params
                     /\ \A i \in DOMAIN f.loads : f.loads[i] = i - 1
                     /\ f.stores = {Len(f.loads)} \ {IF g.void THEN g.params ELSE -1}

\* slir_lowering.cpp:379-545: a module that is lowered has no definition left
\* in it, uses no value that is gone, and sets only globals it has and that
\* are no constants, whatever else uses the values of the definitions.
LoweredIsClosed ==
    stage = "printed" =>
        \A o \in Range(ops) :
            /\ o.op # "define"
            /\ \A u \in o.uses : \E p \in Range(ops) : p.id = u
            /\ o.op = "set_value" =>
                  \E g \in Range(ops) : g.op = "global" /\ g.name = o.name /\ ~g.constant
=============================================================================
