---------------------------- MODULE SemanticsProofs ----------------------------
(* Theorems about Semantics, for every set of symbols, every program and   *)
(* every set of symbols that are bound before it.                          *)
EXTENDS SemanticsMeaning, SequenceTheorems, NaturalsInduction,
        WellFoundedInduction, FiniteSetTheorems, TLAPS

\* A node has the fields of its type.
IsExpr(v) ==
    \/ v = Number
    \/ \E s \in Syms : v = Symbol(s)
    \/ v.type = "list" /\ v = List(v.elements)
    \/ v.type = "def" /\ v = Def(v.binding, v.value)
    \/ v.type = "fn" /\ v = Fn(v.name, v.args, v.body)
    \/ v.type = "call" /\ v = Call(v.target, v.params)

\* So does a frame.
IsFrame(fr) ==
    \/ /\ fr.of = "analyze"
       /\ fr = [of |-> "analyze", todo |-> fr.todo, ast |-> fr.ast,
                errors |-> fr.errors]
       /\ fr.todo \in Seq(Forms) /\ fr.errors \in Seq(Errors)
    \/ /\ fr.of = "def"
       /\ fr = [of |-> "def", binding |-> fr.binding] /\ fr.binding \in Syms
    \/ /\ fr.of = "fn"
       /\ fr = [of |-> "fn", args |-> fr.args]
    \/ /\ fr.of = "call"
       /\ fr = [of |-> "call", target |-> fr.target, rest |-> fr.rest]
       /\ fr.rest \in Seq(Forms)

\* The frame waits for the trees of several forms, and not for a single node.
Many(fr) == fr.of = "fn" \/ (fr.of = "call" /\ fr.target # Unresolved)

\* A call of analyze is made by those who wait for its trees, and by no other.
IsStack(st) ==
    /\ st \in Seq({st[i] : i \in DOMAIN st})
    /\ \A i \in 1..Len(st) : IsFrame(st[i])
    /\ \A i \in 1..Len(st) :
          i > 1 => (st[i].of = "analyze" <=> Many(st[i - 1]))

\* What is returned to the innermost frame is what it waits for.
IsResult(r, st) ==
    IF r.ok THEN /\ r = Ok(r.value)
                 /\ st # <<>> => Many(st[Len(st)]) \/ IsExpr(r.value)
            ELSE r = Err(r.errors) /\ r.errors \in Seq(Errors)

IsCtl(c, st) ==
    \/ /\ c.at = "enter" /\ c = [at |-> "enter", form |-> c.form]
       /\ c.form \in Forms
       /\ st # <<>> /\ ~Many(st[Len(st)])
    \/ /\ c = [at |-> "loop"]
       /\ st # <<>> /\ st[Len(st)].of = "analyze"
    \/ /\ c.at = "return" /\ c = [at |-> "return", result |-> c.result]
       /\ IsResult(c.result, st)

IsEnv(e) ==
    /\ e = [s \in Syms |-> e[s]]
    /\ \A s \in Syms : e[s] = Unbound \/ IsExpr(e[s])

DataInv ==
    /\ program \in Programs /\ before \in Bounds
    /\ IsEnv(env) /\ fns \in Nat
    /\ FunctionsKnowTheirNames

ControlInv == IsStack(stack) /\ IsCtl(ctl, stack)

IInv == DataInv /\ ControlInv

-----------------------------------------------------------------------------
(* Stacks                                                                  *)

LEMMA Elements ==
    ASSUME NEW S, NEW st \in Seq(S)
    PROVE  st \in Seq({st[i] : i \in DOMAIN st})
<1> DEFINE T == {st[i] : i \in DOMAIN st}
<1>1. Len(st) \in Nat /\ DOMAIN st = 1..Len(st) /\ st \in [1..Len(st) -> S]
  BY LenProperties
<1>2. st \in [1..Len(st) -> T]
  BY <1>1
<1> QED
  BY <1>1, <1>2, SeqDef

\* What is used of a stack.
LEMMA StackFacts ==
    ASSUME NEW st, IsStack(st)
    PROVE  /\ Len(st) \in Nat /\ DOMAIN st = 1..Len(st)
           /\ st # <<>> => Len(st) \in 1..Len(st) /\ IsFrame(st[Len(st)])
           /\ Len(st) > 0 => st # <<>>
<1>1. Len(st) \in Nat /\ DOMAIN st = 1..Len(st)
  BY LenProperties DEF IsStack
<1>2. st # <<>> => Len(st) > 0
  BY <1>1, EmptySeq DEF IsStack
<1> QED
  BY <1>1, <1>2 DEF IsStack

LEMMA Pushed ==
    ASSUME NEW st, NEW fr, IsStack(st), IsFrame(fr),
           st # <<>> => (fr.of = "analyze" <=> Many(st[Len(st)]))
    PROVE  /\ IsStack(Append(st, fr))
           /\ Append(st, fr) # <<>>
           /\ Append(st, fr)[Len(Append(st, fr))] = fr
<1> DEFINE S == {st[i] : i \in DOMAIN st} \cup {fr}
           app == Append(st, fr)
<1>1. Len(st) \in Nat /\ DOMAIN st = 1..Len(st) /\ (Len(st) > 0 => st # <<>>)
  BY StackFacts
<1>2. st \in Seq(S) /\ fr \in S
  BY SeqMonotonic DEF IsStack
<1>3. /\ app \in Seq(S) /\ app # <<>> /\ Len(app) = Len(st) + 1
      /\ \A i \in 1..Len(st) : app[i] = st[i]
      /\ app[Len(st) + 1] = fr
  BY <1>2, AppendProperties
<1>4. app \in Seq({app[i] : i \in DOMAIN app})
  BY <1>3, Elements
<1> HIDE DEF app
<1>5. \A i \in 1..Len(app) : IsFrame(app[i])
  BY <1>1, <1>3 DEF IsStack
<1>6. \A i \in 1..Len(app) :
        i > 1 => (app[i].of = "analyze" <=> Many(app[i - 1]))
  <2> TAKE i \in 1..Len(app)
  <2>1. CASE i \in 1..Len(st)
    <3>1. i > 1 => i - 1 \in 1..Len(st)
      BY <1>1, <2>1
    <3>2. i > 1 => (st[i].of = "analyze" <=> Many(st[i - 1]))
      BY <2>1 DEF IsStack
    <3> QED
      BY <1>3, <2>1, <3>1, <3>2
  <2>2. CASE i = Len(st) + 1
    <3>1. i > 1 => Len(st) \in 1..Len(st) /\ i - 1 = Len(st) /\ st # <<>>
      BY <1>1, <2>2
    <3> QED
      BY <1>3, <2>2, <3>1
  <2> QED
    BY <1>1, <1>3, <2>1, <2>2
<1> QED
  BY <1>1, <1>3, <1>4, <1>5, <1>6 DEF IsStack, app

\* The frame on top is changed, and is still one of the same function.
LEMMA Replaced ==
    ASSUME NEW st, NEW fr, IsStack(st), st # <<>>, IsFrame(fr),
           fr.of = st[Len(st)].of
    PROVE  /\ IsStack([st EXCEPT ![Len(st)] = fr])
           /\ [st EXCEPT ![Len(st)] = fr] # <<>>
           /\ Len([st EXCEPT ![Len(st)] = fr]) = Len(st)
           /\ [st EXCEPT ![Len(st)] = fr][Len(st)] = fr
<1> DEFINE S == {st[i] : i \in DOMAIN st} \cup {fr}
           new == [st EXCEPT ![Len(st)] = fr]
<1>1. Len(st) \in Nat /\ Len(st) \in 1..Len(st)
  BY StackFacts
<1>2. st \in Seq(S) /\ fr \in S
  BY SeqMonotonic DEF IsStack
<1>3. /\ new \in Seq(S) /\ Len(new) = Len(st)
      /\ \A i \in 1..Len(st) : new[i] = IF i = Len(st) THEN fr ELSE st[i]
  BY <1>1, <1>2, ExceptSeq
<1> HIDE DEF new, S
<1>4. new \in Seq({new[i] : i \in DOMAIN new})
  BY <1>3, Elements
<1>5. new # <<>>
  <2>1. Len(<<>>) = 0 /\ Len(st) # 0
    BY <1>1
  <2> QED
    BY <1>3, <2>1
<1>6. \A i \in 1..Len(new) : IsFrame(new[i])
  BY <1>3 DEF IsStack
<1>7. \A i \in 1..Len(new) :
        i > 1 => (new[i].of = "analyze" <=> Many(new[i - 1]))
  <2> SUFFICES ASSUME NEW i \in 1..Len(new), i > 1
               PROVE  new[i].of = "analyze" <=> Many(new[i - 1])
    OBVIOUS
  <2>1. i \in 1..Len(st) /\ i - 1 \in 1..Len(st) /\ i - 1 # Len(st)
    BY <1>1, <1>3
  <2>2. new[i - 1] = st[i - 1] /\ new[i].of = st[i].of
    BY <1>3, <2>1
  <2> QED
    BY <2>1, <2>2 DEF IsStack
<1> QED
  BY <1>1, <1>3, <1>4, <1>5, <1>6, <1>7 DEF IsStack, new

LEMMA Shorter ==
    ASSUME NEW S, NEW st \in Seq(S), st # <<>>
    PROVE  /\ SubSeq(st, 1, Len(st) - 1) \in Seq(S)
           /\ Len(SubSeq(st, 1, Len(st) - 1)) = Len(st) - 1
           /\ \A i \in 1..(Len(st) - 1) : SubSeq(st, 1, Len(st) - 1)[i] = st[i]
<1> DEFINE n == Len(st) - 1
<1>1. n \in Nat /\ \A i \in 1..n : st[i] \in S
  BY EmptySeq, LenProperties, ElementOfSeq
<1> HIDE DEF n
<1>2. /\ SubSeq(st, 1, n) \in Seq(S)
      /\ Len(SubSeq(st, 1, n)) = IF 1 <= n THEN n - 1 + 1 ELSE 0
      /\ \A i \in 1..(n - 1 + 1) : SubSeq(st, 1, n)[i] = st[1 + i - 1]
  BY <1>1, SubSeqProperties
<1>3. Len(SubSeq(st, 1, n)) = n /\ \A i \in 1..n : SubSeq(st, 1, n)[i] = st[i]
  BY <1>1, <1>2
<1> QED
  BY <1>2, <1>3 DEF n

LEMMA Popped ==
    ASSUME NEW st, IsStack(st), st # <<>>
    PROVE  LET rest == SubSeq(st, 1, Len(st) - 1)
           IN  /\ IsStack(rest)
               /\ rest # <<>> =>
                    (st[Len(st)].of = "analyze" <=> Many(rest[Len(rest)]))
<1> DEFINE S == {st[i] : i \in DOMAIN st}
           rest == SubSeq(st, 1, Len(st) - 1)
<1>1. Len(st) \in Nat /\ Len(st) \in 1..Len(st) /\ st \in Seq(S)
  BY StackFacts DEF IsStack
<1>2. /\ rest \in Seq(S) /\ Len(rest) = Len(st) - 1
      /\ \A i \in 1..(Len(st) - 1) : rest[i] = st[i]
  BY <1>1, Shorter
<1> HIDE DEF rest
<1> HIDE DEF S
<1>3. rest \in Seq({rest[i] : i \in DOMAIN rest})
  BY <1>2, Elements
<1>4. rest # <<>> => Len(rest) > 0
  BY <1>1, <1>2, EmptySeq
<1>5. \A i \in 1..Len(rest) : IsFrame(rest[i])
  BY <1>1, <1>2 DEF IsStack
<1>6. \A i \in 1..Len(rest) :
        i > 1 => (rest[i].of = "analyze" <=> Many(rest[i - 1]))
  <2> SUFFICES ASSUME NEW i \in 1..Len(rest), i > 1
               PROVE  rest[i].of = "analyze" <=> Many(rest[i - 1])
    OBVIOUS
  <2>1. i \in 1..Len(st) /\ i - 1 \in 1..Len(rest)
    BY <1>1, <1>2
  <2> QED
    BY <1>2, <2>1 DEF IsStack
<1>7. rest # <<>> => (st[Len(st)].of = "analyze" <=> Many(rest[Len(rest)]))
  <2> SUFFICES ASSUME rest # <<>>
               PROVE  st[Len(st)].of = "analyze" <=> Many(rest[Len(rest)])
    OBVIOUS
  <2>1. Len(rest) \in 1..Len(rest) /\ Len(st) > 1 /\ Len(rest) = Len(st) - 1
    BY <1>1, <1>2, <1>4
  <2> QED
    BY <1>1, <1>2, <2>1 DEF IsStack
<1> QED
  BY <1>3, <1>5, <1>6, <1>7 DEF IsStack, rest

-----------------------------------------------------------------------------
(* Forms, nodes and results                                                *)

LEMMA FormsAreNodes ==
    ASSUME NEW e \in Forms
    PROVE  /\ IsExpr(e) /\ e.type \in {"number", "symbol", "list"}
           /\ e.type = "symbol" => e.name \in Syms
           /\ e.type = "list" => e.elements \in Seq(Forms)
<1>1. IsForm(e)
  BY SemanticsAssumption
<1>2. CASE e = Number
  BY <1>2 DEF Number, IsExpr
<1>3. CASE \E s \in Syms : e = Symbol(s)
  BY <1>3 DEF Symbol, IsExpr
<1>4. CASE e = List(e.elements) /\ e.elements \in Seq(Forms)
  BY <1>4 DEF List, IsExpr
<1> QED
  BY <1>1, <1>2, <1>3, <1>4 DEF IsForm

LEMMA NodesByType ==
    ASSUME NEW v, IsExpr(v)
    PROVE  /\ v.type \in {"number", "symbol", "list", "def", "fn", "call"}
           /\ v.type = "symbol" => v.name \in Syms
           /\ v.type = "fn" => v = Fn(v.name, v.args, v.body)
           /\ v # Unresolved
BY DEF IsExpr, Number, Symbol, List, Def, Fn, Call, Unresolved

\* A list that is not empty starts with a form, and goes on with forms.
LEMMA ElementsAreForms ==
    ASSUME NEW es \in Seq(Forms)
    PROVE  /\ Len(es) \in Nat /\ \A i \in 1..Len(es) : es[i] \in Forms
           /\ es # <<>> => Len(es) > 0 /\ Head(es) \in Forms /\ Tail(es) \in Seq(Forms)
           /\ From(es, 2) \in Seq(Forms) /\ From(es, 3) \in Seq(Forms)
<1>1. Len(es) \in Nat /\ \A i \in 1..Len(es) : es[i] \in Forms
  BY LenProperties, ElementOfSeq
<1>2. es # <<>> => Len(es) > 0 /\ Head(es) \in Forms /\ Tail(es) \in Seq(Forms)
  BY EmptySeq, HeadTailProperties
<1>3. ASSUME NEW k \in {2, 3}
      PROVE  From(es, k) \in Seq(Forms)
  <2>1. k \in Int /\ Len(es) \in Int /\ \A i \in k..Len(es) : es[i] \in Forms
    BY <1>1
  <2> QED
    BY <2>1, SubSeqProperties DEF From
<1> QED
  BY <1>1, <1>2, <1>3

\* A node is a result for who waits for one, and errors are for all.
LEMMA Results ==
    /\ \A v, st : IsExpr(v) => IsResult(Ok(v), st)
    /\ \A es, st : es \in Seq(Errors) => IsResult(Err(es), st)
BY DEF IsResult, Ok, Err

\* A call of analyze begins without a tree and without errors.
LEMMA Loops ==
    ASSUME NEW es \in Seq(Forms)
    PROVE  IsFrame(Loop(es)) /\ Loop(es).of = "analyze"
<1>1. <<>> \in Seq(Errors)
  BY EmptySeq
<1> QED
  BY <1>1 DEF Loop, IsFrame

\* The frame of a call of analyze after each of the changes it goes through.
LEMMA LoopFrames ==
    ASSUME NEW fr, fr.of = "analyze", IsFrame(fr)
    PROVE  /\ \A fs \in Seq(Forms) : LET new == [fr EXCEPT !.todo = fs]
                                     IN  IsFrame(new) /\ new.of = "analyze"
           /\ \A es \in Seq(Errors) : LET new == [fr EXCEPT !.errors = es]
                                      IN  IsFrame(new) /\ new.of = "analyze"
           /\ \A v : LET new == [fr EXCEPT !.ast = v]
                     IN  IsFrame(new) /\ new.of = "analyze"
           /\ fr.todo \in Seq(Forms) /\ fr.errors \in Seq(Errors)
<1>1. /\ fr = [of |-> "analyze", todo |-> fr.todo, ast |-> fr.ast,
               errors |-> fr.errors]
      /\ fr.todo \in Seq(Forms) /\ fr.errors \in Seq(Errors)
  BY DEF IsFrame
<1>2. ASSUME NEW fs \in Seq(Forms), NEW new, new = [fr EXCEPT !.todo = fs]
      PROVE  IsFrame(new) /\ new.of = "analyze"
  <2>1. new = [of |-> "analyze", todo |-> fs, ast |-> fr.ast, errors |-> fr.errors]
    BY <1>1, <1>2
  <2> QED
    BY <1>1, <2>1 DEF IsFrame
<1>3. ASSUME NEW es \in Seq(Errors), NEW new, new = [fr EXCEPT !.errors = es]
      PROVE  IsFrame(new) /\ new.of = "analyze"
  <2>1. new = [of |-> "analyze", todo |-> fr.todo, ast |-> fr.ast, errors |-> es]
    BY <1>1, <1>3
  <2> QED
    BY <1>1, <2>1 DEF IsFrame
<1>4. ASSUME NEW v, NEW new, new = [fr EXCEPT !.ast = v]
      PROVE  IsFrame(new) /\ new.of = "analyze"
  <2>1. new = [of |-> "analyze", todo |-> fr.todo, ast |-> v, errors |-> fr.errors]
    BY <1>1, <1>4
  <2> QED
    BY <1>1, <2>1 DEF IsFrame
<1> QED
  BY <1>1, <1>2, <1>3, <1>4

LEMMA OneError ==
    ASSUME NEW e \in Errors
    PROVE  <<e>> \in Seq(Errors)
OBVIOUS

-----------------------------------------------------------------------------
(* Every step keeps the control in order.                                  *)

LEMMA InitIInv == Init => IInv
<1> SUFFICES ASSUME Init PROVE IInv
  OBVIOUS
<1>1. program \in Seq(Forms)
  BY SemanticsAssumption DEF Init
<1>2. IsStack(stack) /\ stack # <<>> /\ stack[Len(stack)].of = "analyze"
  <2>1. IsStack(<<>>)
    BY DEF IsStack
  <2>2. stack = Append(<<>>, Loop(program))
    BY DEF Init
  <2>3. /\ IsStack(Append(<<>>, Loop(program)))
        /\ Append(<<>>, Loop(program)) # <<>>
        /\ Append(<<>>, Loop(program))[Len(Append(<<>>, Loop(program)))] = Loop(program)
    BY <1>1, <2>1, Pushed, Loops
  <2> QED
    BY <1>1, <2>2, <2>3, Loops
<1>3. IsCtl(ctl, stack)
  BY <1>2 DEF Init, IsCtl
<1>4. IsEnv(env) /\ FunctionsKnowTheirNames
  BY DEF Init, IsEnv, IsExpr, Fn, FunctionsKnowTheirNames
<1> QED
  BY <1>2, <1>3, <1>4 DEF IInv, DataInv, ControlInv, Init

LEMMA AnalyzeNextStep == IInv /\ AnalyzeNext => ControlInv'
<1> SUFFICES ASSUME IInv, AnalyzeNext PROVE ControlInv'
  OBVIOUS
<1>1. IsStack(stack) /\ stack # <<>> /\ Top.of = "analyze" /\ IsFrame(Top)
  BY StackFacts DEF IInv, ControlInv, IsCtl, AnalyzeNext, Top
<1>2. Top.todo \in Seq(Forms) /\ Top.errors \in Seq(Errors)
  BY <1>1, LoopFrames
<1>3. CASE Top.todo # <<>>
  <2> DEFINE fr == [Top EXCEPT !.todo = Tail(Top.todo)]
  <2>1. IsFrame(fr) /\ fr.of = "analyze"
    BY <1>1, <1>2, <1>3, ElementsAreForms, LoopFrames
  <2>2. stack' = [stack EXCEPT ![Len(stack)] = fr]
    BY <1>3 DEF AnalyzeNext, Top
  <2> HIDE DEF fr
  <2>3. IsStack(stack') /\ stack' # <<>> /\ stack'[Len(stack')] = fr
    <3>1. fr.of = stack[Len(stack)].of
      BY <1>1, <2>1 DEF Top
    <3>2. /\ IsStack([stack EXCEPT ![Len(stack)] = fr])
          /\ [stack EXCEPT ![Len(stack)] = fr] # <<>>
          /\ Len([stack EXCEPT ![Len(stack)] = fr]) = Len(stack)
          /\ [stack EXCEPT ![Len(stack)] = fr][Len(stack)] = fr
      BY <1>1, <2>1, <3>1, Replaced
    <3> QED
      BY <2>2, <3>2
  <2>4. ctl' = [at |-> "enter", form |-> Head(Top.todo)] /\ Head(Top.todo) \in Forms
    BY <1>2, <1>3, ElementsAreForms DEF AnalyzeNext, Enter
  <2> QED
    BY <2>1, <2>3, <2>4 DEF ControlInv, IsCtl, Many
<1>4. CASE Top.todo = <<>>
  <2>1. stack' = SubSeq(stack, 1, Len(stack) - 1)
    BY <1>4 DEF AnalyzeNext, Pop
  <2>2. IsStack(stack') /\ (stack' # <<>> => Many(stack'[Len(stack')]))
    BY <1>1, <2>1, Popped DEF Top
  <2>3. PICK r : /\ r = (IF Top.errors = <<>> THEN Ok(Top.ast) ELSE Err(Top.errors))
                 /\ ctl' = [at |-> "return", result |-> r]
    BY <1>4 DEF AnalyzeNext, Return
  <2>4. IsResult(r, stack')
    BY <1>2, <2>2, <2>3 DEF IsResult, Ok, Err
  <2> QED
    BY <2>2, <2>3, <2>4 DEF ControlInv, IsCtl
<1> QED
  BY <1>3, <1>4

LEMMA AnalyzeResultStep == IInv /\ AnalyzeResult => ControlInv'
<1> SUFFICES ASSUME IInv, AnalyzeResult PROVE ControlInv'
  OBVIOUS
<1>1. /\ IsStack(stack) /\ stack # <<>> /\ Top.of = "analyze" /\ IsFrame(Top)
      /\ IsResult(Result, stack)
  BY StackFacts DEF IInv, ControlInv, IsCtl, AnalyzeResult, Returning, Top, Result
<1>2. Top.todo \in Seq(Forms) /\ Top.errors \in Seq(Errors)
  BY <1>1, LoopFrames
<1> DEFINE fr == IF Result.ok THEN [Top EXCEPT !.ast = Append(Top.ast, Result.value)]
                 ELSE [Top EXCEPT !.errors = Top.errors \o Result.errors]
<1>3. ~Result.ok => Top.errors \o Result.errors \in Seq(Errors)
  BY <1>1, <1>2, ConcatProperties DEF IsResult
<1>4. IsFrame(fr) /\ fr.of = "analyze"
  BY <1>1, <1>3, LoopFrames
<1>5. stack' = [stack EXCEPT ![Len(stack)] = fr]
  BY DEF AnalyzeResult, Top
<1> HIDE DEF fr
<1>6. IsStack(stack') /\ stack' # <<>> /\ stack'[Len(stack')] = fr
  <2>1. fr.of = stack[Len(stack)].of
    BY <1>1, <1>4 DEF Top
  <2>2. /\ IsStack([stack EXCEPT ![Len(stack)] = fr])
        /\ [stack EXCEPT ![Len(stack)] = fr] # <<>>
        /\ Len([stack EXCEPT ![Len(stack)] = fr]) = Len(stack)
        /\ [stack EXCEPT ![Len(stack)] = fr][Len(stack)] = fr
    BY <1>1, <1>4, <2>1, Replaced
  <2> QED
    BY <1>5, <2>2
<1>7. ctl' = [at |-> "loop"]
  BY DEF AnalyzeResult
<1> QED
  BY <1>4, <1>6, <1>7 DEF ControlInv, IsCtl

LEMMA AnalyzeAtomStep == IInv /\ AnalyzeAtom => ControlInv'
<1> SUFFICES ASSUME IInv, AnalyzeAtom PROVE ControlInv'
  OBVIOUS
<1>1. IsStack(stack) /\ Form \in Forms /\ stack' = stack
  BY DEF IInv, ControlInv, IsCtl, AnalyzeAtom, Entering, Form
<1>2. ctl' = [at |-> "return", result |-> Ok(Form)]
  BY DEF AnalyzeAtom, Return
<1>3. IsResult(Ok(Form), stack')
  BY <1>1, FormsAreNodes, Results
<1> QED
  BY <1>1, <1>2, <1>3 DEF ControlInv, IsCtl

\* Who calls for one node puts a frame on the stack, and enters a form.
LEMMA Entered ==
    ASSUME NEW fr, IsStack(stack), stack # <<>>, ~Many(Top),
           IsFrame(fr), fr.of # "analyze", ~Many(fr),
           stack' = Append(stack, fr),
           NEW e \in Forms, ctl' = [at |-> "enter", form |-> e]
    PROVE  ControlInv'
<1>1. /\ IsStack(Append(stack, fr))
      /\ Append(stack, fr) # <<>>
      /\ Append(stack, fr)[Len(Append(stack, fr))] = fr
  BY Pushed DEF Top
<1>2. IsStack(stack') /\ stack' # <<>> /\ stack'[Len(stack')] = fr
  BY <1>1
<1> QED
  BY <1>2 DEF ControlInv, IsCtl

\* Who returns at once leaves the stack as it is, and who returns a node or
\* errors to the frame below it takes its own frame off.
LEMMA Answered ==
    ASSUME IsStack(stack), NEW r, ctl' = [at |-> "return", result |-> r],
           (r.ok /\ IsExpr(r.value) /\ r = Ok(r.value))
             \/ (~r.ok /\ r.errors \in Seq(Errors) /\ r = Err(r.errors)),
           stack' = stack \/ (stack # <<>> /\ stack' = Pop)
    PROVE  ControlInv'
<1>1. IsStack(stack')
  <2>1. CASE stack' = stack
    BY <2>1
  <2>2. CASE stack # <<>> /\ stack' = Pop
    BY <2>2, Popped DEF Pop
  <2> QED
    BY <2>1, <2>2
<1>2. IsResult(r, stack')
  BY DEF IsResult
<1> QED
  BY <1>1, <1>2 DEF ControlInv, IsCtl

LEMMA BeginDefStep == IInv /\ BeginDef => ControlInv'
<1> SUFFICES ASSUME IInv, BeginDef PROVE ControlInv'
  OBVIOUS
<1> DEFINE es == Form.elements
<1>1. /\ IsStack(stack) /\ stack # <<>> /\ ~Many(Top) /\ Form \in Forms
      /\ Form.type = "list"
  BY DEF IInv, ControlInv, IsCtl, BeginDef, Entering, Form, Top, StartsWith
<1>2. es \in Seq(Forms)
  BY <1>1, FormsAreNodes
<1>3. CASE stack' = stack /\ \E e \in Errors : Return(Err(<<e>>))
  <2>1. PICK e \in Errors : Return(Err(<<e>>))
    BY <1>3
  <2>2. <<e>> \in Seq(Errors)
    BY OneError
  <2>3. Err(<<e>>).errors = <<e>> /\ ~Err(<<e>>).ok
    BY DEF Err
  <2> QED
    BY <1>1, <1>3, <2>1, <2>2, <2>3, Answered DEF Return
<1>4. CASE /\ Len(es) = 3 /\ es[2].type = "symbol"
           /\ stack' = Append(stack, [of |-> "def", binding |-> es[2].name])
           /\ Enter(es[3])
  <2> DEFINE fr == [of |-> "def", binding |-> es[2].name]
  <2>1. es[2] \in Forms /\ es[3] \in Forms
    BY <1>2, <1>4, ElementsAreForms
  <2>2. es[2].name \in Syms
    BY <1>4, <2>1, FormsAreNodes
  <2>3. IsFrame(fr) /\ fr.of # "analyze" /\ ~Many(fr)
    BY <2>2 DEF IsFrame, Many
  <2>4. stack' = Append(stack, fr) /\ ctl' = [at |-> "enter", form |-> es[3]]
    BY <1>4 DEF Enter
  <2> HIDE DEF fr
  <2> QED
    BY <1>1, <2>1, <2>3, <2>4, Entered
<1>5. {"DefWrongNumberOfArgs", "DefExpectSymbol"} \subseteq Errors
  BY DEF Errors
<1> QED
  BY <1>3, <1>4, <1>5 DEF BeginDef

LEMMA FinishDefStep == IInv /\ FinishDef => ControlInv'
<1> SUFFICES ASSUME IInv, FinishDef PROVE ControlInv'
  OBVIOUS
<1>1. /\ IsStack(stack) /\ stack # <<>> /\ stack' = Pop
      /\ IsResult(Result, stack)
  BY DEF IInv, ControlInv, IsCtl, FinishDef, Returning, Result
<1>2. CASE ~Result.ok /\ Return(Result)
  BY <1>1, <1>2, Answered DEF IsResult, Return, Err
<1>3. CASE Return(Ok(Def(Top.binding, Named(Result.value, Top.binding))))
  <2> DEFINE v == Def(Top.binding, Named(Result.value, Top.binding))
  <2>1. IsExpr(v)
    BY DEF IsExpr, Def
  <2>2. Ok(v).ok /\ Ok(v).value = v /\ ctl' = [at |-> "return", result |-> Ok(v)]
    BY <1>3 DEF Ok, Return
  <2> HIDE DEF v
  <2> QED
    BY <1>1, <2>1, <2>2, Answered
<1> QED
  BY <1>2, <1>3 DEF FinishDef

\* Who waits for several trees puts a call of analyze on top of its frame.
LEMMA Looped ==
    ASSUME NEW st, IsStack(st), st # <<>>, Many(st[Len(st)]),
           NEW es \in Seq(Forms), stack' = Append(st, Loop(es)),
           ctl' = [at |-> "loop"]
    PROVE  ControlInv'
<1>1. IsFrame(Loop(es)) /\ Loop(es).of = "analyze"
  BY Loops
<1>2. /\ IsStack(Append(st, Loop(es)))
      /\ Append(st, Loop(es)) # <<>>
      /\ Append(st, Loop(es))[Len(Append(st, Loop(es)))] = Loop(es)
  BY <1>1, Pushed
<1>3. IsStack(stack') /\ stack' # <<>> /\ stack'[Len(stack')] = Loop(es)
  BY <1>2
<1> QED
  BY <1>1, <1>3 DEF ControlInv, IsCtl

LEMMA BeginFnStep == IInv /\ BeginFn => ControlInv'
<1> SUFFICES ASSUME IInv, BeginFn PROVE ControlInv'
  OBVIOUS
<1> DEFINE es == Form.elements
<1>1. /\ IsStack(stack) /\ stack # <<>> /\ ~Many(Top) /\ Form \in Forms
      /\ Form.type = "list"
  BY DEF IInv, ControlInv, IsCtl, BeginFn, Entering, Form, Top, StartsWith
<1>2. es \in Seq(Forms)
  BY <1>1, FormsAreNodes
<1>3. CASE stack' = stack /\ \E e \in Errors : Return(Err(<<e>>))
  <2>1. PICK e \in Errors : Return(Err(<<e>>))
    BY <1>3
  <2>2. <<e>> \in Seq(Errors)
    BY OneError
  <2>3. Err(<<e>>).errors = <<e>> /\ ~Err(<<e>>).ok
    BY DEF Err
  <2> QED
    BY <1>1, <1>3, <2>1, <2>2, <2>3, Answered DEF Return
<1>4. CASE stack' = stack /\ MakeFn(es[2], <<>>)
  <2> DEFINE v == Fn(Anonymous(fns), es[2], <<>>)
  <2>1. IsExpr(v)
    BY DEF IsExpr, Fn
  <2>2. Ok(v).ok /\ Ok(v).value = v /\ ctl' = [at |-> "return", result |-> Ok(v)]
    BY <1>4 DEF Ok, Return, MakeFn
  <2> HIDE DEF v
  <2> QED
    BY <1>1, <1>4, <2>1, <2>2, Answered
<1>5. CASE /\ stack' = stack \o <<[of |-> "fn", args |-> es[2]], Loop(From(es, 3))>>
           /\ ctl' = [at |-> "loop"]
  <2> DEFINE fr == [of |-> "fn", args |-> es[2]]
             st == Append(stack, fr)
  <2>1. IsFrame(fr) /\ fr.of # "analyze" /\ Many(fr)
    BY DEF IsFrame, Many
  <2>2. IsStack(st) /\ st # <<>> /\ st[Len(st)] = fr
    <3> HIDE DEF fr
    <3> QED
      BY <1>1, <2>1, Pushed DEF Top
  <2>3. stack' = Append(st, Loop(From(es, 3)))
    <3> DEFINE T == {stack[i] : i \in DOMAIN stack} \cup {fr, Loop(From(es, 3))}
    <3>1. stack \in Seq(T) /\ fr \in T /\ Loop(From(es, 3)) \in T
      BY <1>1, SeqMonotonic DEF IsStack
    <3>2. stack' = stack \o <<fr, Loop(From(es, 3))>>
      BY <1>5
    <3> HIDE DEF T, fr
    <3> QED
      BY <3>1, <3>2
  <2>4. From(es, 3) \in Seq(Forms)
    BY <1>2, ElementsAreForms
  <2> HIDE DEF fr, st
  <2> QED
    BY <1>5, <2>1, <2>2, <2>3, <2>4, Looped
<1>6. {"FnNoArgsList", "FnArgsMustBeList"} \subseteq Errors
  BY DEF Errors
<1> QED
  BY <1>3, <1>4, <1>5, <1>6 DEF BeginFn

LEMMA FinishFnStep == IInv /\ FinishFn => ControlInv'
<1> SUFFICES ASSUME IInv, FinishFn PROVE ControlInv'
  OBVIOUS
<1>1. /\ IsStack(stack) /\ stack # <<>> /\ stack' = Pop
      /\ IsResult(Result, stack)
  BY DEF IInv, ControlInv, IsCtl, FinishFn, Returning, Result
<1>2. CASE ~Result.ok /\ Return(Result)
  BY <1>1, <1>2, Answered DEF IsResult, Return, Err
<1>3. CASE MakeFn(Top.args, Result.value)
  <2> DEFINE v == Fn(Anonymous(fns), Top.args, Result.value)
  <2>1. IsExpr(v)
    BY DEF IsExpr, Fn
  <2>2. Ok(v).ok /\ Ok(v).value = v /\ ctl' = [at |-> "return", result |-> Ok(v)]
    BY <1>3 DEF Ok, Return, MakeFn
  <2> HIDE DEF v
  <2> QED
    BY <1>1, <2>1, <2>2, Answered
<1> QED
  BY <1>2, <1>3 DEF FinishFn

LEMMA BeginCallStep == IInv /\ BeginCall => ControlInv'
<1> SUFFICES ASSUME IInv, BeginCall PROVE ControlInv'
  OBVIOUS
<1> DEFINE es == Form.elements
           fr == [of |-> "call", target |-> Unresolved, rest |-> From(es, 2)]
<1>1. /\ IsStack(stack) /\ stack # <<>> /\ ~Many(Top) /\ Form \in Forms
      /\ Form.type = "list" /\ es # <<>>
  BY DEF IInv, ControlInv, IsCtl, BeginCall, Entering, Form, Top
<1>2. es \in Seq(Forms)
  BY <1>1, FormsAreNodes
<1>3. es[1] \in Forms /\ From(es, 2) \in Seq(Forms)
  BY <1>1, <1>2, ElementsAreForms
<1>4. IsFrame(fr) /\ fr.of # "analyze" /\ ~Many(fr)
  BY <1>3 DEF IsFrame, Many
<1>5. stack' = Append(stack, fr) /\ ctl' = [at |-> "enter", form |-> es[1]]
  BY DEF BeginCall, Enter
<1> HIDE DEF fr
<1> QED
  BY <1>1, <1>3, <1>4, <1>5, Entered

LEMMA ResolveCallStep == IInv /\ ResolveCall => ControlInv'
<1> SUFFICES ASSUME IInv, ResolveCall PROVE ControlInv'
  OBVIOUS
<1>1. /\ IsStack(stack) /\ stack # <<>> /\ Top.of = "call" /\ IsFrame(Top)
      /\ ~Many(Top) /\ IsResult(Result, stack)
  BY StackFacts DEF IInv, ControlInv, IsCtl, ResolveCall, Returning, Result, Top, Many
<1>2. Result.ok => IsExpr(Result.value)
  BY <1>1 DEF IsResult, Top
<1>3. ASSUME NEW e \in Seq(Errors), Refuse(e)
      PROVE  ControlInv'
  <2>1. Err(e).errors = e /\ ~Err(e).ok
    BY DEF Err
  <2> QED
    BY <1>1, <1>3, <2>1, Answered DEF Refuse, Return
<1>4. ASSUME NEW t, t # Unresolved, Resolve(t)
      PROVE  ControlInv'
  <2> DEFINE fr == [Top EXCEPT !.target = t]
             st == [stack EXCEPT ![Len(stack)] = fr]
  <2>1. Top = [of |-> "call", target |-> Top.target, rest |-> Top.rest]
        /\ Top.rest \in Seq(Forms)
    BY <1>1 DEF IsFrame
  <2>2. fr = [of |-> "call", target |-> t, rest |-> Top.rest]
    BY <2>1
  <2>3. IsFrame(fr) /\ Many(fr) /\ fr.of = "call"
    BY <1>4, <2>1, <2>2 DEF IsFrame, Many
  <2>4. stack' = Append(st, Loop(Top.rest)) /\ ctl' = [at |-> "loop"]
    BY <1>4 DEF Resolve, Top
  <2> HIDE DEF fr
  <2>5. fr.of = stack[Len(stack)].of
    BY <1>1, <2>3 DEF Top
  <2>6. IsStack(st) /\ st # <<>> /\ Len(st) = Len(stack) /\ st[Len(stack)] = fr
    BY <1>1, <2>3, <2>5, Replaced
  <2> HIDE DEF st
  <2>7. Many(st[Len(st)])
    BY <2>3, <2>6
  <2> QED
    BY <2>1, <2>4, <2>6, <2>7, Looped
<1>5. CASE ~Result.ok /\ Refuse(Result.errors)
  BY <1>1, <1>3, <1>5 DEF IsResult
<1>6. CASE /\ Result.ok /\ Result.value.type = "symbol"
           /\ Lookup(Result.value.name) # Unbound
           /\ Resolve(Lookup(Result.value.name))
  <2>1. Result.value.name \in Syms
    BY <1>2, <1>6, NodesByType
  <2>2. IsExpr(Lookup(Result.value.name))
    BY <1>6, <2>1 DEF IInv, DataInv, IsEnv, Lookup
  <2> QED
    BY <1>4, <1>6, <2>2, NodesByType
<1>7. CASE Result.ok /\ Resolve(Result.value)
  BY <1>2, <1>4, <1>7, NodesByType
<1>8. CASE \E e \in Errors : Refuse(<<e>>)
  BY <1>3, <1>8, OneError
<1>9. {"CantResolveSymbol", "DontKnowHowToCallNode"} \subseteq Errors
  BY DEF Errors
<1> QED
  BY <1>5, <1>6, <1>7, <1>8, <1>9 DEF ResolveCall

LEMMA FinishCallStep == IInv /\ FinishCall => ControlInv'
<1> SUFFICES ASSUME IInv, FinishCall PROVE ControlInv'
  OBVIOUS
<1>1. /\ IsStack(stack) /\ stack # <<>> /\ stack' = Pop
      /\ IsResult(Result, stack)
  BY DEF IInv, ControlInv, IsCtl, FinishCall, Returning, Result
<1>2. CASE ~Result.ok
  BY <1>1, <1>2, Answered DEF IsResult, FinishCall, Return, Err
<1>3. CASE Result.ok
  <2> DEFINE v == Call(Top.target, Result.value)
  <2>1. IsExpr(v)
    BY DEF IsExpr, Call
  <2>2. Ok(v).ok /\ Ok(v).value = v /\ ctl' = [at |-> "return", result |-> Ok(v)]
    BY <1>3 DEF Ok, Return, FinishCall
  <2> HIDE DEF v
  <2> QED
    BY <1>1, <2>1, <2>2, Answered
<1> QED
  BY <1>2, <1>3

-----------------------------------------------------------------------------
(* Theorems                                                                *)

\* Only a definition binds, and what it binds has the name it is bound to.
LEMMA DataKept == IInv /\ [Next]_vars => DataInv'
<1> SUFFICES ASSUME IInv, [Next]_vars PROVE DataInv'
  OBVIOUS
<1> USE DEF IInv, DataInv
<1>1. program' = program /\ before' = before
  BY DEF Next, vars, AnalyzeNext, AnalyzeResult, AnalyzeAtom, BeginDef, FinishDef,
         BeginFn, FinishFn, BeginCall, ResolveCall, FinishCall
<1>2. fns' \in Nat
  <2>1. fns' = fns \/ fns' = fns + 1
    BY DEF Next, vars, AnalyzeNext, AnalyzeResult, AnalyzeAtom, BeginDef, FinishDef,
           BeginFn, FinishFn, BeginCall, ResolveCall, FinishCall, MakeFn
  <2> QED
    BY <2>1
<1>3. CASE env' = env
  BY <1>1, <1>2, <1>3 DEF IsEnv, FunctionsKnowTheirNames
<1>4. CASE FinishDef /\ Result.ok
  <2> DEFINE s == Top.binding
             v == Named(Result.value, s)
  <2>1. IsFrame(Top) /\ Top.of = "def" /\ ~Many(Top) /\ stack # <<>>
        /\ IsResult(Result, stack)
    BY <1>4, StackFacts DEF ControlInv, IsCtl, FinishDef, Returning, Top, Result, Many
  <2>2. s \in Syms
    BY <2>1 DEF IsFrame
  <2>3. IsExpr(Result.value)
    BY <1>4, <2>1 DEF IsResult, Top
  <2>4. IsExpr(v) /\ (v.type = "fn" => v.name = s)
    <3>1. CASE Result.value.type = "fn"
      <4>1. Result.value = Fn(Result.value.name, Result.value.args, Result.value.body)
        BY <2>3, <3>1, NodesByType
      <4>2. v = Fn(s, Result.value.args, Result.value.body)
        BY <3>1, <4>1 DEF Named, Fn
      <4> QED
        BY <4>2 DEF IsExpr, Fn
    <3>2. CASE Result.value.type # "fn"
      BY <2>3, <3>2 DEF Named
    <3> QED
      BY <3>1, <3>2
  <2>5. env' = [env EXCEPT ![s] = v]
    BY <1>4 DEF FinishDef, Define
  <2> HIDE DEF s, v
  <2>6. IsEnv(env')
    BY <2>2, <2>4, <2>5 DEF IsEnv
  <2>7. FunctionsKnowTheirNames'
    BY <2>2, <2>4, <2>5 DEF IsEnv, FunctionsKnowTheirNames
  <2> QED
    BY <1>1, <1>2, <2>6, <2>7
<1> QED
  BY <1>3, <1>4 DEF Next, vars, AnalyzeNext, AnalyzeResult, AnalyzeAtom, BeginDef,
     FinishDef, BeginFn, FinishFn, BeginCall, ResolveCall, FinishCall

LEMMA IInvKept == IInv /\ [Next]_vars => IInv'
<1> SUFFICES ASSUME IInv, [Next]_vars PROVE IInv'
  OBVIOUS
<1>1. DataInv'
  BY DataKept
<1>2. ControlInv'
  <2>1. CASE UNCHANGED vars
    BY <2>1 DEF vars, IInv, ControlInv
  <2> QED
    BY <2>1, AnalyzeNextStep, AnalyzeResultStep, AnalyzeAtomStep, BeginDefStep,
       FinishDefStep, BeginFnStep, FinishFnStep, BeginCallStep, ResolveCallStep,
       FinishCallStep DEF Next
<1> QED
  BY <1>1, <1>2 DEF IInv

LEMMA Invariant == Spec => []IInv
BY InitIInv, IInvKept, PTL DEF Spec

\* semantics.cpp, exprs: every node, frame and result has the fields of its
\* type, and every error is one of the six.
THEOREM TypeCorrect == Spec => []TypeOK
<1>1. IInv => TypeOK
  <2> SUFFICES ASSUME IInv PROVE TypeOK
    OBVIOUS
  <2>1. /\ program \in Programs /\ before \in Bounds /\ fns \in Nat
        /\ DOMAIN env = Syms
    BY DEF IInv, DataInv, IsEnv
  <2>2. \A s \in Syms : env[s] = Unbound \/ env[s].type \in
                            {"number", "symbol", "list", "def", "fn", "call"}
    BY NodesByType DEF IInv, DataInv, IsEnv
  <2>3. \A i \in DOMAIN stack : IsFrame(stack[i])
    BY StackFacts DEF IInv, ControlInv, IsStack
  <2>4. \A i \in DOMAIN stack : stack[i].of \in {"analyze", "def", "fn", "call"}
    BY <2>3 DEF IsFrame
  <2>5. ASSUME NEW i \in DOMAIN stack, stack[i].of = "analyze",
               NEW j \in DOMAIN stack[i].errors
        PROVE  stack[i].errors[j] \in Errors
    <3>1. stack[i].errors \in Seq(Errors)
      BY <2>3, <2>5, LoopFrames
    <3> QED
      BY <2>5, <3>1, LenProperties, ElementOfSeq
  <2>6. ctl.at \in {"enter", "loop", "return"}
    BY DEF IInv, ControlInv, IsCtl
  <2> QED
    BY <2>1, <2>2, <2>4, <2>5, <2>6 DEF TypeOK
<1> QED
  BY <1>1, Invariant, PTL

\* def.cpp:98-107: whatever the program, a function that can be found under a
\* symbol has the name of that symbol.
THEOREM NamedAsBound == Spec => []FunctionsKnowTheirNames
<1>1. IInv => FunctionsKnowTheirNames
  BY DEF IInv, DataInv
<1> QED
  BY <1>1, Invariant, PTL

(***************************************************************************)
(* What follows is about SemanticsMeaning: the analysis does what the text *)
(* of the program says.  The trace of a form is defined by recursion on    *)
(* how deep it is nested; MeaningInv at the end says of every state that   *)
(* the frames on the stack, the innermost first, stand for the events of   *)
(* the trace that have not taken place, and that those that have taken     *)
(* place have done to env and fns what they say.                           *)
(***************************************************************************)

\* A set of natural numbers that is not empty has a least element.
LEMMA Least ==
    ASSUME NEW T, T \subseteq Nat, T # {}
    PROVE  \E x \in T : \A y \in T : x <= y
<1>. DEFINE R == {p \in Nat \X Nat : p[1] < p[2]}
<1>1. IsWellFoundedOn(R, Nat)
  BY NatLessThanWellFounded DEF OpToRel
<1>2. ASSUME NEW x \in Nat, NEW y \in Nat, y < x PROVE <<y, x>> \in R
  BY <1>2
<1>. HIDE DEF R
<1>3. PICK x \in T : \A y \in T : ~(<<y, x>> \in R)
  BY <1>1, WFMin
<1>4. ASSUME NEW y \in T PROVE x <= y
  <2>1. x \in Nat /\ y \in Nat
    OBVIOUS
  <2>2. ~(y < x)
    BY <1>2, <1>3, <2>1
  <2>. QED
    BY <2>1, <2>2
<1>. QED
  BY <1>4

Recurses(f, a, S) == f[0] = a /\ \A p \in Nat : f[p + 1] = S[<<p + 1, f[p]>>]

\* A function on the natural numbers can be defined by recursion: partial ones
\* exist up to every number, and agree.
LEMMA Recursion ==
    ASSUME NEW R, NEW a \in R, NEW S \in [Nat \X R -> R]
    PROVE  \E f \in [Nat -> R] : Recurses(f, a, S)
<1>. DEFINE Fits(g, n) == /\ g[0] = a
                        /\ \A p \in 1 .. n : g[p] = S[<<p, g[p - 1]>>]
            T == {n \in Nat : \A g \in [0 .. n -> R] : ~Fits(g, n)}
<1>1. T = {}
  <2>. SUFFICES ASSUME T # {} PROVE FALSE
    OBVIOUS
  <2>1. PICK n \in T : \A y \in T : n <= y
    BY Least
  <2>2. CASE n = 0
    <3>. DEFINE h == [p \in 0 .. 0 |-> a]
    <3>1. h \in [0 .. 0 -> R] /\ Fits(h, 0)
      OBVIOUS
    <3>. QED
      BY <2>1, <2>2, <3>1
  <2>3. CASE n # 0
    <3>1. n - 1 \in Nat /\ ~(n <= n - 1)
      BY <2>1, <2>3
    <3>2. n - 1 \notin T
      BY <2>1, <3>1
    <3>3. PICK g \in [0 .. n - 1 -> R] : Fits(g, n - 1)
      BY <3>1, <3>2
    <3>. DEFINE h == [p \in 0 .. n |-> IF p = n THEN S[<<n, g[n - 1]>>] ELSE g[p]]
    <3>4. S[<<n, g[n - 1]>>] \in R
      BY <3>1
    <3>5. h \in [0 .. n -> R]
      BY <3>1, <3>4
    <3>6. h[0] = a
      BY <3>1, <3>3
    <3>7. ASSUME NEW p \in 1 .. n PROVE h[p] = S[<<p, h[p - 1]>>]
      <4>1. n \in Nat /\ p \in 0 .. n /\ p - 1 \in 0 .. n /\ p - 1 # n
        BY <2>1
      <4>2. h[p - 1] = g[p - 1]
        BY <4>1
      <4>3. CASE p = n
        BY <4>1, <4>2, <4>3
      <4>4. CASE p # n
        <5>1. p \in 1 .. n - 1 /\ h[p] = g[p]
          BY <4>1, <4>4
        <5>. QED
          BY <3>3, <4>2, <5>1
      <4>. QED
        BY <4>3, <4>4
    <3>8. Fits(h, n)
      BY <3>6, <3>7
    <3>. QED
      BY <2>1, <3>5, <3>8
  <2>. QED
    BY <2>2, <2>3
<1>2. ASSUME NEW n \in Nat, NEW m \in Nat, n <= m,
             NEW g, NEW h, Fits(g, n), Fits(h, m)
      PROVE  g[n] = h[n]
  <2>. DEFINE D == {i \in 0 .. n : g[i] # h[i]}
  <2>. SUFFICES ASSUME D # {} PROVE FALSE
    OBVIOUS
  <2>1. D \subseteq Nat
    OBVIOUS
  <2>2. PICK i \in D : \A y \in D : i <= y
    BY <2>1, Least
  <2>3. i \in 1 .. n
    BY <1>2, <2>2
  <2>4. i - 1 \in 0 .. n /\ ~(i <= i - 1)
    BY <2>3
  <2>5. g[i - 1] = h[i - 1]
    BY <2>2, <2>4
  <2>6. g[i] = S[<<i, g[i - 1]>>] /\ h[i] = S[<<i, h[i - 1]>>]
    BY <1>2, <2>3
  <2>. QED
    BY <2>2, <2>5, <2>6
<1>. DEFINE G(n) == CHOOSE g \in [0 .. n -> R] : Fits(g, n)
            f == [p \in Nat |-> G(p)[p]]
<1>3. ASSUME NEW n \in Nat PROVE G(n) \in [0 .. n -> R] /\ Fits(G(n), n)
  <2>1. \E g \in [0 .. n -> R] : Fits(g, n)
    BY <1>1
  <2>. HIDE DEF Fits
  <2>. QED
    BY <2>1
<1>. HIDE DEF Fits, G
<1>4. f \in [Nat -> R]
  BY <1>3
<1>5. ASSUME NEW p \in Nat PROVE f[p] = IF p = 0 THEN a ELSE S[<<p, f[p - 1]>>]
  <2>1. CASE p = 0
    BY <1>3, <2>1 DEF Fits
  <2>2. CASE p # 0
    <3>1. p - 1 \in Nat /\ p - 1 <= p /\ p \in 1 .. p
      BY <2>2
    <3>2. G(p)[p] = S[<<p, G(p)[p - 1]>>]
      BY <1>3, <3>1 DEF Fits
    <3>3. G(p - 1)[p - 1] = G(p)[p - 1]
      BY <1>2, <1>3, <3>1
    <3>. QED
      BY <2>2, <3>1, <3>2, <3>3
  <2>. QED
    BY <2>1, <2>2
<1>. HIDE DEF f
<1>6. f[0] = a
  BY <1>5
<1>7. ASSUME NEW p \in Nat PROVE f[p + 1] = S[<<p + 1, f[p]>>]
  <2>1. p + 1 \in Nat /\ p + 1 # 0 /\ (p + 1) - 1 = p
    OBVIOUS
  <2>. QED
    BY <1>5, <2>1
<1>. QED
  BY <1>4, <1>6, <1>7 DEF Recurses

-----------------------------------------------------------------------------
(* Sequences one after the other.                                          *)

\* Concatenation, under a name the provers leave alone.
Cat(a, b) == a \o b

LEMMA CatAssociative ==
    ASSUME NEW S, NEW a \in Seq(S), NEW b \in Seq(S), NEW c \in Seq(S)
    PROVE  Cat(Cat(a, b), c) = Cat(a, Cat(b, c))
BY ConcatAssociative DEF Cat

\* f[i] is the first i sequences of ss, one after the other.
Joins(f, ss, S) ==
    /\ f \in [0..Len(ss) -> Seq(S)]
    /\ f[0] = <<>>
    /\ \A i \in 1..Len(ss) : f[i] = f[i - 1] \o ss[i]

\* FlattenSeq is defined by such an f, and it does not matter by which.
LEMMA Joined ==
    ASSUME NEW S, NEW ss \in Seq(Seq(S))
    PROVE  \E f : Joins(f, ss, S) /\ FlattenSeq(ss) = f[Len(ss)]
<1>0. Len(ss) \in Nat /\ \A i \in 1..Len(ss) : ss[i] \in Seq(S)
  BY LenProperties, ElementOfSeq
<1> DEFINE R == Seq(S)
           n == Len(ss)
           step == [q \in Nat \X R |-> IF q[1] \in 1..n THEN q[2] \o ss[q[1]] ELSE q[2]]
<1>1. step \in [Nat \X R -> R]
  BY <1>0, ConcatProperties
<1>2. <<>> \in R
  BY EmptySeq
<1>3. PICK h \in [Nat -> R] : Recurses(h, <<>>, step)
  <2> HIDE DEF step, R
  <2> QED
    BY <1>1, <1>2, Recursion
<1> DEFINE f == [i \in 0..n |-> h[i]]
<1>4. ASSUME NEW i \in 1..n PROVE h[i] = h[i - 1] \o ss[i]
  <2>1. i - 1 \in Nat /\ (i - 1) + 1 = i /\ i \in Nat
    BY <1>0
  <2>2. h[i] = step[<<i, h[i - 1]>>]
    BY <1>3, <2>1 DEF Recurses
  <2>3. h[i - 1] \in R
    BY <2>1
  <2> QED
    BY <2>1, <2>2, <2>3
<1>5. h[0] = <<>>
  BY <1>3 DEF Recurses
<1> HIDE DEF step
<1>6. Joins(f, ss, S)
  <2>1. f \in [0..n -> R] /\ f[0] = <<>>
    BY <1>0, <1>5
  <2>2. ASSUME NEW i \in 1..n PROVE f[i] = f[i - 1] \o ss[i]
    <3>1. i \in 0..n /\ i - 1 \in 0..n
      BY <1>0
    <3> QED
      BY <1>4, <3>1
  <2> QED
    BY <2>1, <2>2 DEF Joins
<1>7. FlattenSeq(ss) = f[n]
  <2>1. CASE n = 0
    <3>1. ss = <<>>
      BY <1>0, <2>1, EmptySeq
    <3> QED
      BY <1>5, <2>1, <3>1 DEF FlattenSeq
  <2>2. CASE n # 0
    <3> DEFINE Fits(g) == g = [i \in 1..n |-> IF i = 1 THEN ss[i] ELSE g[i - 1] \o ss[i]]
               flatten == CHOOSE g : Fits(g)
               g0 == [i \in 1..n |-> h[i]]
    <3>1. Fits(g0)
      <4> SUFFICES ASSUME NEW i \in 1..n
                   PROVE  h[i] = IF i = 1 THEN ss[i] ELSE g0[i - 1] \o ss[i]
        OBVIOUS
      <4>1. CASE i = 1
        <5>1. h[1] = h[1 - 1] \o ss[1]
          BY <1>4, <4>1
        <5>2. h[1 - 1] = <<>> /\ ss[1] \in Seq(S)
          BY <1>0, <1>5, <4>1
        <5> QED
          BY <4>1, <5>1, <5>2, ConcatEmptySeq
      <4>2. CASE i # 1
        <5>1. i - 1 \in 1..n
          BY <1>0, <4>2
        <5> QED
          BY <1>4, <4>2, <5>1
      <4> QED
        BY <4>1, <4>2
    <3>2. Fits(flatten)
      BY <3>1
    <3>3. FlattenSeq(ss) = flatten[n]
      BY <2>2 DEF FlattenSeq
    <3> HIDE DEF flatten
    <3>4. \A i \in 1..n : flatten[i] = IF i = 1 THEN ss[i] ELSE flatten[i - 1] \o ss[i]
      BY <3>2
    <3> HIDE DEF Fits
    <3> DEFINE D == {i \in 1..n : flatten[i] # h[i]}
    <3>5. D = {}
      <4> SUFFICES ASSUME D # {} PROVE FALSE
        OBVIOUS
      <4>0. D \subseteq Nat
        BY <1>0
      <4>1. PICK i \in D : \A y \in D : i <= y
        BY <4>0, Least
      <4>2. i \in 1..n /\ flatten[i] # h[i] /\ i \in Nat
        BY <4>1
      <4>3. CASE i = 1
        <5>1. h[1] = h[1 - 1] \o ss[1]
          BY <1>4, <4>2, <4>3
        <5>2. h[1 - 1] = <<>> /\ ss[1] \in Seq(S)
          BY <1>0, <1>5, <4>2, <4>3
        <5> QED
          BY <3>4, <4>2, <4>3, <5>1, <5>2, ConcatEmptySeq
      <4>4. CASE i # 1
        <5>1. i - 1 \in 1..n /\ ~(i <= i - 1)
          BY <1>0, <4>2, <4>4
        <5>2. i - 1 \notin D
          BY <4>1, <5>1
        <5>3. flatten[i - 1] = h[i - 1]
          BY <5>1, <5>2
        <5>4. flatten[i] = flatten[i - 1] \o ss[i] /\ h[i] = h[i - 1] \o ss[i]
          BY <1>4, <3>4, <4>2, <4>4
        <5> QED
          BY <4>2, <5>3, <5>4
      <4> QED
        BY <4>3, <4>4
    <3>6. n \in 1..n
      BY <1>0, <2>2
    <3>7. n \in 0..n
      BY <3>6
    <3> QED
      BY <3>3, <3>5, <3>6, <3>7
  <2> QED
    BY <2>1, <2>2
<1> QED
  BY <1>6, <1>7

\* There is one such f.
LEMMA JoinedUnique ==
    ASSUME NEW S, NEW ss, Len(ss) \in Nat, NEW f, NEW g, Joins(f, ss, S), Joins(g, ss, S)
    PROVE  f[Len(ss)] = g[Len(ss)]
<1> DEFINE D == {i \in 0..Len(ss) : f[i] # g[i]}
<1>1. D = {}
  <2> SUFFICES ASSUME D # {} PROVE FALSE
    OBVIOUS
  <2>0. D \subseteq Nat
    OBVIOUS
  <2>1. PICK i \in D : \A y \in D : i <= y
    BY <2>0, Least
  <2>2. i \in 0..Len(ss) /\ f[i] # g[i]
    BY <2>1
  <2>3. i # 0
    BY <2>2 DEF Joins
  <2>4. i \in 1..Len(ss) /\ i - 1 \in 0..Len(ss) /\ ~(i <= i - 1)
    BY <2>2, <2>3
  <2>5. f[i - 1] = g[i - 1]
    BY <2>1, <2>4
  <2> QED
    BY <2>2, <2>4, <2>5 DEF Joins
<1> QED
  BY <1>1

LEMMA FlattenIs ==
    ASSUME NEW S, NEW ss \in Seq(Seq(S)), NEW f, Joins(f, ss, S)
    PROVE  FlattenSeq(ss) = f[Len(ss)] /\ FlattenSeq(ss) \in Seq(S)
<1>1. PICK g : Joins(g, ss, S) /\ FlattenSeq(ss) = g[Len(ss)]
  BY Joined
<1>2. Len(ss) \in Nat /\ Len(ss) \in 0..Len(ss)
  BY LenProperties
<1>3. f[Len(ss)] = g[Len(ss)]
  BY <1>1, <1>2, JoinedUnique
<1>4. f[Len(ss)] \in Seq(S)
  BY <1>2 DEF Joins
<1> QED
  BY <1>1, <1>3, <1>4

\* What FlattenSeq gives, and how it goes on at the end and at the front.
LEMMA FlattenType ==
    ASSUME NEW S, NEW ss \in Seq(Seq(S))
    PROVE  FlattenSeq(ss) \in Seq(S)
BY Joined, FlattenIs

LEMMA FlattenEmpty == FlattenSeq(<<>>) = <<>>
BY DEF FlattenSeq

LEMMA FlattenAppend ==
    ASSUME NEW S, NEW ss \in Seq(Seq(S)), NEW x \in Seq(S)
    PROVE  FlattenSeq(Append(ss, x)) = FlattenSeq(ss) \o x
<1> DEFINE n == Len(ss)
           tt == Append(ss, x)
<1>1. /\ tt \in Seq(Seq(S)) /\ Len(tt) = n + 1 /\ n \in Nat
      /\ tt[n + 1] = x /\ \A i \in 1..n : tt[i] = ss[i]
  BY AppendProperties, LenProperties
<1>2. PICK f : Joins(f, ss, S) /\ FlattenSeq(ss) = f[n]
  BY Joined
<1> HIDE DEF tt
<1> DEFINE g == [i \in 0..Len(tt) |-> IF i = n + 1 THEN f[n] \o x ELSE f[i]]
<1>3. f \in [0..n -> Seq(S)] /\ f[n] \in Seq(S)
  BY <1>1, <1>2 DEF Joins
<1>4. g \in [0..Len(tt) -> Seq(S)]
  <2>1. f[n] \o x \in Seq(S)
    BY <1>3, ConcatProperties
  <2> QED
    BY <1>1, <1>3, <2>1
<1>5. g[0] = <<>>
  BY <1>1, <1>2 DEF Joins
<1>6. ASSUME NEW i \in 1..Len(tt) PROVE g[i] = g[i - 1] \o tt[i]
  <2>1. i \in 0..Len(tt) /\ i - 1 \in 0..Len(tt) /\ i - 1 # n + 1
    BY <1>1
  <2>2. CASE i = n + 1
    <3>1. i - 1 = n /\ n # n + 1 /\ i \in Nat
      BY <1>1, <2>2
    <3>2. g[i] = f[n] \o x /\ g[i - 1] = f[n] /\ tt[i] = x
      BY <1>1, <2>1, <2>2, <3>1
    <3> QED
      BY <3>2
  <2>3. CASE i # n + 1
    <3>1. i \in 1..n
      BY <1>1, <2>3
    <3> QED
      BY <1>1, <1>2, <2>1, <2>3, <3>1 DEF Joins
  <2> QED
    BY <2>2, <2>3
<1>7. Joins(g, tt, S)
  BY <1>4, <1>5, <1>6 DEF Joins
<1>8. g[Len(tt)] = f[n] \o x
  BY <1>1
<1> HIDE DEF g
<1> QED
  BY <1>1, <1>2, <1>7, <1>8, FlattenIs DEF tt

LEMMA FlattenCons ==
    ASSUME NEW S, NEW ss \in Seq(Seq(S)), Len(ss) > 0
    PROVE  FlattenSeq(ss) = ss[1] \o FlattenSeq(Tail(ss))
<1> DEFINE n == Len(ss)
           tt == Tail(ss)
<1>1. /\ tt \in Seq(Seq(S)) /\ Len(tt) = n - 1 /\ n \in Nat /\ n > 0
      /\ ss[1] \in Seq(S) /\ \A i \in 2..n : tt[i - 1] = ss[i] /\ ss[i] \in Seq(S)
  OBVIOUS
<1>2. PICK f : Joins(f, tt, S) /\ FlattenSeq(tt) = f[Len(tt)]
  BY <1>1, Joined
<1> HIDE DEF tt
<1> DEFINE g == [i \in 0..n |-> IF i = 0 THEN <<>> ELSE ss[1] \o f[i - 1]]
<1>3. f \in [0..n - 1 -> Seq(S)]
  BY <1>1, <1>2 DEF Joins
<1>4. g \in [0..n -> Seq(S)]
  <2>1. \A i \in 1..n : i - 1 \in 0..n - 1
    BY <1>1
  <2>2. \A i \in 1..n : ss[1] \o f[i - 1] \in Seq(S)
    BY <1>1, <1>3, <2>1, ConcatProperties
  <2>3. <<>> \in Seq(S)
    BY EmptySeq
  <2> QED
    BY <1>1, <2>2, <2>3
<1>5. g[0] = <<>>
  BY <1>1
<1>6. ASSUME NEW i \in 1..n PROVE g[i] = g[i - 1] \o ss[i]
  <2>0. i \in 0..n /\ i # 0 /\ i - 1 \in 0..n
    BY <1>1
  <2>1. g[i] = ss[1] \o f[i - 1]
    BY <2>0
  <2>2. CASE i = 1
    <3>1. f[i - 1] = <<>> /\ g[i - 1] = <<>>
      <4>1. i - 1 = 0
        BY <2>2
      <4>2. f[0] = <<>>
        BY <1>2 DEF Joins
      <4> HIDE DEF g
      <4> QED
        BY <1>5, <4>1, <4>2
    <3> DEFINE x == ss[1]
    <3>2. x \in Seq(S)
      BY <1>1
    <3>3. g[i] = x \o f[i - 1] /\ ss[i] = x
      BY <2>1, <2>2
    <3> HIDE DEF g, x
    <3>4. x \o <<>> = x /\ <<>> \o x = x
      BY <3>2, ConcatEmptySeq
    <3> QED
      BY <3>1, <3>3, <3>4
  <2>3. CASE i # 1
    <3>1. i \in 2..n /\ i - 1 \in 1..n /\ i - 1 \in 1..Len(tt) /\ i - 1 # 0 /\ i - 1 \in 0..n
          /\ i - 1 \in Nat
      BY <1>1, <2>3
    <3>2. g[i - 1] = ss[1] \o f[(i - 1) - 1]
      BY <3>1
    <3>3. f[i - 1] = f[(i - 1) - 1] \o ss[i]
      BY <1>1, <1>2, <3>1 DEF Joins
    <3> DEFINE x == ss[1]
               y == f[(i - 1) - 1]
               z == ss[i]
    <3>4. x \in Seq(S) /\ y \in Seq(S) /\ z \in Seq(S)
      <4>1. (i - 1) - 1 \in 0..n - 1
        BY <1>1, <3>1
      <4> QED
        BY <1>1, <1>3, <3>1, <4>1
    <3>5. g[i - 1] = Cat(x, y) /\ f[i - 1] = Cat(y, z)
      BY <3>2, <3>3 DEF Cat
    <3>6. g[i] = Cat(x, f[i - 1])
      BY <2>1 DEF Cat
    <3> HIDE DEF g, x, y, z
    <3>7. Cat(Cat(x, y), z) = Cat(x, Cat(y, z))
      BY <3>4, CatAssociative
    <3>8. g[i] = Cat(g[i - 1], z)
      BY <3>5, <3>6, <3>7
    <3> QED
      BY <3>8 DEF Cat, z
  <2> QED
    BY <2>2, <2>3
<1>7. Joins(g, ss, S)
  BY <1>4, <1>5, <1>6 DEF Joins
<1>8. g[n] = ss[1] \o f[n - 1]
  <2>1. n \in 0..n /\ n # 0
    BY <1>1
  <2> QED
    BY <2>1
<1> HIDE DEF g
<1> QED
  BY <1>1, <1>2, <1>7, <1>8, FlattenIs DEF tt

-----------------------------------------------------------------------------
(* The trace of a form                                                     *)

\* The types of nodes, and the events of traces.
Types == {"number", "symbol", "list", "def", "fn", "call"}
Events == {Use(s) : s \in Syms} \cup {Bind(b[1], b[2]) : b \in Syms \X Types}
            \cup {Make, Fault}

LEMMA EventsAre ==
    /\ \A s \in Syms : Use(s) \in Events
    /\ \A s \in Syms : \A k \in Types : Bind(s, k) \in Events
    /\ Make \in Events /\ Fault \in Events
<1>1. ASSUME NEW s \in Syms, NEW k \in Types PROVE Bind(s, k) \in Events
  <2>1. <<s, k>> \in Syms \X Types /\ <<s, k>>[1] = s /\ <<s, k>>[2] = k
    OBVIOUS
  <2>2. Bind(<<s, k>>[1], <<s, k>>[2]) \in {Bind(b[1], b[2]) : b \in Syms \X Types}
    BY <2>1, Zenon
  <2> QED
    BY <2>1, <2>2, Zenon DEF Events
<1> QED
  BY <1>1, Zenon DEF Events

LEMMA TypesAre ==
    ASSUME NEW e \in Forms
    PROVE  TypeOf(e) \in Types
BY FormsAreNodes DEF TypeOf, Types

LEMMA Single ==
    ASSUME NEW S, NEW x \in S
    PROVE  <<x>> \in Seq(S) /\ Len(<<x>>) = 1 /\ <<x>>[1] = x
OBVIOUS

LEMMA TargetType ==
    ASSUME NEW e \in Forms
    PROVE  Target(e) \in Seq(Events)
<1>1. <<>> \in Seq(Events) /\ <<Fault>> \in Seq(Events)
  BY EventsAre, Single, EmptySeq
<1>2. e.type = "symbol" => <<Use(e.name)>> \in Seq(Events)
  BY FormsAreNodes, EventsAre, Single
<1> QED
  BY <1>1, <1>2 DEF Target

\* What a list goes on with is in it.
LEMMA FromElements ==
    ASSUME NEW es \in Seq(Forms), NEW k \in {2, 3}
    PROVE  /\ From(es, k) \in Seq(Forms)
           /\ \A i \in DOMAIN From(es, k) :
                 i + k - 1 \in DOMAIN es /\ From(es, k)[i] = es[i + k - 1]
<1>1. Len(es) \in Nat /\ DOMAIN es = 1..Len(es) /\ \A i \in 1..Len(es) : es[i] \in Forms
  BY LenProperties, ElementOfSeq
<1>2. k \in Int /\ Len(es) \in Int /\ \A i \in k..Len(es) : es[i] \in Forms
  BY <1>1
<1>3. /\ From(es, k) \in Seq(Forms)
      /\ Len(From(es, k)) = IF k <= Len(es) THEN Len(es) - k + 1 ELSE 0
      /\ \A i \in 1..(Len(es) - k + 1) : From(es, k)[i] = es[k + i - 1]
  BY <1>2, SubSeqProperties DEF From
<1>4. DOMAIN From(es, k) = 1..Len(From(es, k))
  BY <1>3, LenProperties
<1>5. ASSUME NEW i \in DOMAIN From(es, k)
      PROVE  i + k - 1 \in DOMAIN es /\ From(es, k)[i] = es[i + k - 1]
  <2>1. i \in 1..(Len(es) - k + 1) /\ i + k - 1 \in 1..Len(es) /\ k + i - 1 = i + k - 1
    BY <1>1, <1>3, <1>4, <1>5
  <2> QED
    BY <1>1, <1>3, <2>1
<1> QED
  BY <1>3, <1>5

\* A trace for every form.
TraceSet == [Forms -> Seq(Events)]

LEMMA SequenceParts ==
    ASSUME NEW g \in TraceSet, NEW es \in Seq(Forms)
    PROVE  /\ [i \in DOMAIN es |-> g[es[i]]] \in Seq(Seq(Events))
           /\ Sequence(g, es) \in Seq(Events)
<1> DEFINE parts == [i \in DOMAIN es |-> g[es[i]]]
<1>1. Len(es) \in Nat /\ DOMAIN es = 1..Len(es) /\ \A i \in 1..Len(es) : es[i] \in Forms
  BY LenProperties, ElementOfSeq
<1>2. parts \in [1..Len(es) -> Seq(Events)]
  BY <1>1 DEF TraceSet
<1>3. parts \in Seq(Seq(Events))
  BY <1>1, <1>2, SeqDef
<1> HIDE DEF parts
<1>4. FlattenSeq(parts) \in Seq(Events)
  BY <1>3, FlattenType
<1> QED
  BY <1>3, <1>4 DEF parts, Sequence

\* The trace of a form is made of those of its elements, and of nothing else.
LEMMA TraceStepType ==
    ASSUME NEW g \in TraceSet, NEW e \in Forms
    PROVE  TraceStep(g, e) \in Seq(Events)
<1> DEFINE es == e.elements
<1>1. CASE Atom(e)
  BY <1>1, EmptySeq DEF TraceStep
<1>2. CASE ~Atom(e)
  <2>1. es \in Seq(Forms) /\ Len(es) \in Nat /\ es # <<>> /\ Len(es) > 0
    BY <1>2, FormsAreNodes, ElementsAreForms DEF Atom
  <2>2. \A i \in 1..Len(es) : es[i] \in Forms /\ g[es[i]] \in Seq(Events)
    BY <2>1, ElementsAreForms DEF TraceSet
  <2>3. <<Fault>> \in Seq(Events)
    BY EventsAre, Single
  <2>4. CASE StartsWith(e, def) /\ DefFits(es)
    <3>1. es[3] \in Forms /\ g[es[3]] \in Seq(Events) /\ es[2].name \in Syms
      BY <2>1, <2>2, <2>4, FormsAreNodes DEF DefFits
    <3>2. Bind(es[2].name, TypeOf(es[3])) \in Events
      BY <3>1, TypesAre, EventsAre
    <3>3. Append(g[es[3]], Bind(es[2].name, TypeOf(es[3]))) \in Seq(Events)
      BY <3>1, <3>2, AppendProperties
    <3> QED
      BY <1>2, <2>4, <3>3 DEF TraceStep
  <2>5. CASE ~StartsWith(e, def) /\ StartsWith(e, fn) /\ FnFits(es)
    <3>1. Sequence(g, From(es, 3)) \in Seq(Events)
      BY <2>1, FromElements, SequenceParts
    <3>2. Append(Sequence(g, From(es, 3)), Make) \in Seq(Events)
      BY <3>1, EventsAre, AppendProperties
    <3> QED
      BY <1>2, <2>5, <3>2 DEF TraceStep
  <2>6. CASE ~StartsWith(e, def) /\ ~StartsWith(e, fn)
    <3>1. es[1] \in Forms /\ g[es[1]] \in Seq(Events)
      BY <2>1, <2>2
    <3>2. Sequence(g, From(es, 2)) \in Seq(Events) /\ Target(es[1]) \in Seq(Events)
      BY <2>1, <3>1, FromElements, SequenceParts, TargetType
    <3>3. g[es[1]] \o Target(es[1]) \o Sequence(g, From(es, 2)) \in Seq(Events)
      BY <3>1, <3>2, ConcatProperties
    <3> QED
      BY <1>2, <2>6, <3>3 DEF TraceStep
  <2> QED
    BY <1>2, <2>3, <2>4, <2>5, <2>6 DEF TraceStep
<1> QED
  BY <1>1, <1>2

\* The trace of a form is made of those of its elements alone.
LEMMA TraceStepSame ==
    ASSUME NEW g, NEW h, NEW e \in Forms,
           e.type = "list" => \A i \in DOMAIN e.elements : g[e.elements[i]] = h[e.elements[i]]
    PROVE  TraceStep(g, e) = TraceStep(h, e)
<1> DEFINE es == e.elements
<1>1. CASE Atom(e)
  BY <1>1 DEF TraceStep
<1>2. CASE ~Atom(e)
  <2>1. es \in Seq(Forms) /\ Len(es) \in Nat /\ Len(es) > 0 /\ DOMAIN es = 1..Len(es)
    BY <1>2, FormsAreNodes, ElementsAreForms, LenProperties DEF Atom
  <2>2. \A i \in 1..Len(es) : g[es[i]] = h[es[i]]
    BY <1>2, <2>1 DEF Atom
  <2>3. ASSUME NEW k \in {2, 3} PROVE Sequence(g, From(es, k)) = Sequence(h, From(es, k))
    <3>1. ASSUME NEW i \in DOMAIN From(es, k) PROVE g[From(es, k)[i]] = h[From(es, k)[i]]
      <4>1. i + k - 1 \in 1..Len(es) /\ From(es, k)[i] = es[i + k - 1]
        BY <2>1, <2>3, FromElements
      <4> HIDE DEF es
      <4> QED
        BY <2>2, <4>1
    <3>2. [i \in DOMAIN From(es, k) |-> g[From(es, k)[i]]]
            = [i \in DOMAIN From(es, k) |-> h[From(es, k)[i]]]
      BY <3>1
    <3> QED
      BY <3>2, Zenon DEF Sequence
  <2>4. g[es[1]] = h[es[1]] /\ (DefFits(es) => g[es[3]] = h[es[3]])
    BY <2>1, <2>2 DEF DefFits
  <2>5. Sequence(g, From(es, 2)) = Sequence(h, From(es, 2))
        /\ Sequence(g, From(es, 3)) = Sequence(h, From(es, 3))
    BY <2>3
  <2> QED
    BY <2>4, <2>5, Zenon DEF TraceStep
<1> QED
  BY <1>1, <1>2

\* The recursive definition of Trace has a solution: the traces that are right
\* for the forms up to a depth are those for the forms up to the next.
LEMMA TraceIs ==
    /\ Trace \in TraceSet
    /\ \A e \in Forms : Trace[e] = TraceStep(Trace, e)
<1> DEFINE none == [e \in Forms |-> <<>>]
           step == [q \in Nat \X TraceSet |-> [e \in Forms |-> TraceStep(q[2], e)]]
<1>1. none \in TraceSet
  BY EmptySeq DEF TraceSet
<1>2. step \in [Nat \X TraceSet -> TraceSet]
  <2>1. ASSUME NEW g \in TraceSet PROVE [e \in Forms |-> TraceStep(g, e)] \in TraceSet
    BY TraceStepType DEF TraceSet
  <2> QED
    BY <2>1
<1> HIDE DEF step, none
<1>3. PICK g \in [Nat -> TraceSet] : Recurses(g, none, step)
  BY <1>1, <1>2, Recursion
<1>4. ASSUME NEW p \in Nat
      PROVE  g[p + 1] \in TraceSet /\ \A e \in Forms : g[p + 1][e] = TraceStep(g[p], e)
  <2>1. g[p + 1] = step[<<p + 1, g[p]>>] /\ g[p] \in TraceSet /\ p + 1 \in Nat
    BY <1>3 DEF Recurses
  <2>2. g[p + 1] = [e \in Forms |-> TraceStep(g[p], e)]
    BY <2>1 DEF step
  <2> QED
    BY <2>1, <2>2
<1>5. ASSUME NEW e \in Forms PROVE Depth[e] \in Nat
  BY DepthAssumption
<1>6. ASSUME NEW e \in Forms, NEW p \in Nat, NEW q \in Nat,
             p > Depth[e], q > Depth[e]
      PROVE  g[p][e] = g[q][e]
  <2> DEFINE Bad == {d \in Nat : \E x \in Forms : \E i, j \in Nat :
                        /\ Depth[x] = d /\ i > d /\ j > d /\ g[i][x] # g[j][x]}
  <2>1. Bad = {}
    <3> SUFFICES ASSUME Bad # {} PROVE FALSE
      OBVIOUS
    <3>0. Bad \subseteq Nat
      OBVIOUS
    <3>1. PICK d \in Bad : \A y \in Bad : d <= y
      BY <3>0, Least
    <3>2. PICK x \in Forms, i \in Nat, j \in Nat :
             Depth[x] = d /\ i > d /\ j > d /\ g[i][x] # g[j][x]
      BY <3>1
    <3>3. d \in Nat /\ i - 1 \in Nat /\ j - 1 \in Nat /\ (i - 1) + 1 = i /\ (j - 1) + 1 = j
          /\ i - 1 >= d /\ j - 1 >= d
      <4>1. d \in Nat /\ i > d /\ j > d
        BY <1>5, <3>2
      <4> QED
        BY <4>1
    <3>4. g[i][x] = TraceStep(g[i - 1], x) /\ g[j][x] = TraceStep(g[j - 1], x)
      <4>1. ASSUME NEW k \in Nat, NEW n, k + 1 = n PROVE g[n][x] = TraceStep(g[k], x)
        BY <1>4, <4>1
      <4> QED
        BY <3>3, <4>1
    <3>5. ASSUME x.type = "list", NEW k \in DOMAIN x.elements
          PROVE  g[i - 1][x.elements[k]] = g[j - 1][x.elements[k]]
      <4>1. x.elements[k] \in Forms /\ Depth[x.elements[k]] < d
        BY <3>2, <3>5, FormsAreNodes, ElementsAreForms, LenProperties, DepthAssumption
      <4>2. Depth[x.elements[k]] \in Nat /\ ~(d <= Depth[x.elements[k]])
        BY <1>5, <3>3, <4>1
      <4>3. Depth[x.elements[k]] \notin Bad
        BY <3>1, <4>2
      <4>4. i - 1 > Depth[x.elements[k]] /\ j - 1 > Depth[x.elements[k]]
        BY <3>3, <4>1, <4>2
      <4> QED
        BY <3>3, <4>1, <4>2, <4>3, <4>4
    <3>6. TraceStep(g[i - 1], x) = TraceStep(g[j - 1], x)
      <4>1. g[i - 1] \in TraceSet /\ g[j - 1] \in TraceSet
        BY <3>3
      <4> QED
        BY <3>5, <4>1, TraceStepSame
    <3> QED
      BY <3>2, <3>4, <3>6
  <2> QED
    BY <1>5, <1>6, <2>1
<1> DEFINE f == [e \in Forms |-> g[Depth[e] + 1][e]]
<1>7. f \in TraceSet
  BY <1>5 DEF TraceSet
<1>8. ASSUME NEW e \in Forms PROVE f[e] = TraceStep(f, e)
  <2> DEFINE d == Depth[e]
  <2>1. d \in Nat /\ g[d] \in TraceSet /\ f[e] = TraceStep(g[d], e)
    BY <1>4, <1>5
  <2>2. ASSUME e.type = "list", NEW k \in DOMAIN e.elements
        PROVE  g[d][e.elements[k]] = f[e.elements[k]]
    <3>1. e.elements[k] \in Forms /\ Depth[e.elements[k]] < d
      BY <2>2, FormsAreNodes, ElementsAreForms, LenProperties, DepthAssumption
    <3>2. Depth[e.elements[k]] \in Nat /\ Depth[e.elements[k]] + 1 \in Nat
          /\ Depth[e.elements[k]] + 1 > Depth[e.elements[k]]
      BY <1>5, <3>1
    <3>3. g[d][e.elements[k]] = g[Depth[e.elements[k]] + 1][e.elements[k]]
      BY <1>6, <2>1, <3>1, <3>2
    <3> QED
      BY <3>1, <3>3
  <2> HIDE DEF f, d
  <2> QED
    BY <1>7, <2>1, <2>2, TraceStepSame
<1> DEFINE Solves(h) == h = [e \in Forms |-> TraceStep(h, e)]
<1>9. Solves(f)
  <2>1. f = [e \in Forms |-> f[e]]
    OBVIOUS
  <2> HIDE DEF f
  <2> QED
    BY <1>8, <2>1
<1>10. Trace = CHOOSE h : Solves(h)
  BY DEF Trace
<1>11. Solves(Trace)
  <2> HIDE DEF f, Solves
  <2> QED
    BY <1>9, <1>10
<1>12. ASSUME NEW e \in Forms PROVE Trace[e] = TraceStep(Trace, e)
  BY <1>11
<1>13. Trace \in TraceSet
  <2>1. Trace = [e \in Forms |-> TraceStep(Trace, e)]
    BY <1>11
  <2> DEFINE Bad == {d \in Nat : \E x \in Forms : Depth[x] = d /\ Trace[x] # f[x]}
  <2>2. Bad = {}
    <3> SUFFICES ASSUME Bad # {} PROVE FALSE
      OBVIOUS
    <3>0. Bad \subseteq Nat
      OBVIOUS
    <3>1. PICK d \in Bad : \A y \in Bad : d <= y
      BY <3>0, Least
    <3>2. PICK x \in Forms : Depth[x] = d /\ Trace[x] # f[x]
      BY <3>1
    <3> HIDE DEF f
    <3>3. ASSUME x.type = "list", NEW k \in DOMAIN x.elements
          PROVE  Trace[x.elements[k]] = f[x.elements[k]]
      <4>1. x.elements[k] \in Forms /\ Depth[x.elements[k]] < d
        BY <3>2, <3>3, FormsAreNodes, ElementsAreForms, LenProperties, DepthAssumption
      <4>2. Depth[x.elements[k]] \in Nat /\ ~(d <= Depth[x.elements[k]])
        BY <1>5, <3>2, <4>1
      <4>3. Depth[x.elements[k]] \notin Bad
        BY <3>1, <4>2
      <4> QED
        BY <4>1, <4>2, <4>3
    <3>4. TraceStep(Trace, x) = TraceStep(f, x)
      BY <3>3, TraceStepSame
    <3> QED
      BY <1>8, <1>12, <3>2, <3>4
  <2> QED
    BY <1>5, <1>7, <2>1, <2>2
<1> QED
  BY <1>12, <1>13

\* So a trace is a sequence of events, and forms one after the other do what
\* each of them does.
LEMMA TraceType ==
    ASSUME NEW e \in Forms
    PROVE  Trace[e] \in Seq(Events)
BY TraceIs DEF TraceSet

LEMMA TracesType ==
    ASSUME NEW es \in Seq(Forms)
    PROVE  Traces(es) \in Seq(Events)
BY TraceIs, SequenceParts DEF Traces

LEMMA TracesEmpty == Traces(<<>>) = <<>>
<1>1. [i \in DOMAIN <<>> |-> Trace[<<>>[i]]] = <<>>
  OBVIOUS
<1> QED
  BY <1>1, FlattenEmpty DEF Traces, Sequence

LEMMA TracesAppend ==
    ASSUME NEW es \in Seq(Forms), NEW e \in Forms
    PROVE  Traces(Append(es, e)) = Traces(es) \o Trace[e]
<1> DEFINE parts == [i \in DOMAIN es |-> Trace[es[i]]]
           more == Append(es, e)
<1>1. parts \in Seq(Seq(Events)) /\ Trace[e] \in Seq(Events)
  BY TraceIs, SequenceParts, TraceType
<1>2. Len(es) \in Nat /\ DOMAIN es = 1..Len(es)
  BY LenProperties
<1>3. Len(parts) = Len(es) /\ DOMAIN parts = 1..Len(es)
  BY <1>1, <1>2, LenProperties
<1>4. /\ more \in Seq(Forms) /\ Len(more) = Len(es) + 1 /\ DOMAIN more = 1..Len(es) + 1
      /\ more[Len(es) + 1] = e /\ \A i \in 1..Len(es) : more[i] = es[i]
  BY <1>2, AppendProperties, LenProperties
<1> HIDE DEF more
<1>5. [i \in DOMAIN more |-> Trace[more[i]]] = Append(parts, Trace[e])
  <2> DEFINE l == [i \in DOMAIN more |-> Trace[more[i]]]
             r == Append(parts, Trace[e])
  <2>1. /\ r \in Seq(Seq(Events)) /\ Len(r) = Len(es) + 1
        /\ r[Len(es) + 1] = Trace[e] /\ \A i \in 1..Len(es) : r[i] = parts[i]
    BY <1>1, <1>3, AppendProperties
  <2>2. l \in Seq(Seq(Events))
    BY <1>4, TraceIs, SequenceParts
  <2>3. Len(l) = Len(es) + 1
    BY <1>2, <1>4, <2>2, LenProperties
  <2>4. ASSUME NEW i \in 1..Len(l) PROVE l[i] = r[i]
    <3>1. CASE i = Len(es) + 1
      <4>1. i \in DOMAIN more
        BY <1>4, <2>3
      <4> QED
        BY <1>4, <2>1, <3>1, <4>1
    <3>2. CASE i # Len(es) + 1
      <4>1. i \in 1..Len(es) /\ i \in DOMAIN more /\ i \in DOMAIN es
        BY <1>2, <1>4, <2>3, <3>2
      <4>2. l[i] = Trace[es[i]] /\ parts[i] = Trace[es[i]]
        BY <1>4, <4>1
      <4> QED
        BY <2>1, <4>1, <4>2
    <3> QED
      BY <3>1, <3>2
  <2> HIDE DEF l, r
  <2>5. l = r
    BY <2>1, <2>2, <2>3, <2>4, SeqEqual
  <2> QED
    BY <2>5 DEF l, r
<1> HIDE DEF parts
<1>6. FlattenSeq(Append(parts, Trace[e])) = FlattenSeq(parts) \o Trace[e]
  BY <1>1, FlattenAppend
<1>7. Traces(more) = FlattenSeq(Append(parts, Trace[e]))
  BY <1>5 DEF Traces, Sequence
<1>8. Traces(es) = FlattenSeq(parts)
  BY DEF Traces, Sequence, parts
<1> QED
  BY <1>6, <1>7, <1>8 DEF more

LEMMA TracesCons ==
    ASSUME NEW es \in Seq(Forms), es # <<>>
    PROVE  Traces(es) = Trace[Head(es)] \o Traces(Tail(es))
<1> DEFINE parts == [i \in DOMAIN es |-> Trace[es[i]]]
           rest == Tail(es)
           tails == [i \in DOMAIN rest |-> Trace[rest[i]]]
<1>1. parts \in Seq(Seq(Events))
  BY TraceIs, SequenceParts
<1>2. Len(es) \in Nat /\ DOMAIN es = 1..Len(es) /\ Len(es) > 0 /\ Head(es) = es[1]
  BY LenProperties, EmptySeq, HeadTailProperties
<1>3. Len(parts) = Len(es) /\ Len(parts) > 0 /\ parts[1] = Trace[Head(es)]
  BY <1>1, <1>2, LenProperties
<1>4. /\ rest \in Seq(Forms) /\ Len(rest) = Len(es) - 1 /\ DOMAIN rest = 1..Len(es) - 1
      /\ \A i \in 1..Len(es) - 1 : rest[i] = es[i + 1]
  BY <1>2, HeadTailProperties, LenProperties
<1>5. tails = Tail(parts)
  <2>1. parts # <<>>
    BY <1>3, EmptySeq
  <2> HIDE DEF rest
  <2>2. tails \in Seq(Seq(Events))
    BY <1>4, TraceIs, SequenceParts
  <2>3. /\ Tail(parts) \in Seq(Seq(Events)) /\ Len(Tail(parts)) = Len(es) - 1
        /\ \A i \in 1..Len(es) - 1 : Tail(parts)[i] = parts[i + 1]
    <3> HIDE DEF parts
    <3> QED
      BY <1>1, <1>3, <2>1, HeadTailProperties
  <2>4. Len(tails) = Len(es) - 1
    <3>1. DOMAIN tails = 1..Len(es) - 1
      BY <1>4
    <3> QED
      BY <1>2, <2>2, <3>1, LenProperties
  <2>5. ASSUME NEW i \in 1..Len(tails) PROVE tails[i] = Tail(parts)[i]
    <3>1. i \in DOMAIN rest /\ i + 1 \in DOMAIN es /\ i \in 1..Len(es) - 1
      BY <1>2, <1>4, <2>4
    <3>2. tails[i] = Trace[es[i + 1]] /\ parts[i + 1] = Trace[es[i + 1]]
      BY <1>4, <3>1
    <3> QED
      BY <2>3, <3>1, <3>2
  <2> HIDE DEF tails, parts
  <2> QED
    BY <2>2, <2>3, <2>4, <2>5, SeqEqual
<1> HIDE DEF parts
<1>6. FlattenSeq(parts) = parts[1] \o FlattenSeq(Tail(parts))
  BY <1>1, <1>3, FlattenCons
<1>7. Traces(es) = FlattenSeq(parts)
  BY DEF Traces, Sequence, parts
<1>8. Traces(rest) = FlattenSeq(Tail(parts))
  <2>1. Traces(rest) = FlattenSeq(tails)
    BY DEF Traces, Sequence
  <2> QED
    BY <1>5, <2>1
<1> QED
  BY <1>3, <1>6, <1>7, <1>8

LEMMA TracesOne ==
    ASSUME NEW e \in Forms
    PROVE  Traces(<<e>>) = Trace[e]
<1>1. <<e>> = Append(<<>>, e) /\ <<>> \in Seq(Forms)
  OBVIOUS
<1>2. Traces(<<e>>) = <<>> \o Trace[e]
  BY <1>1, TracesAppend, TracesEmpty
<1> QED
  BY <1>2, TraceType, ConcatEmptySeq

\* The trace of a form of each kind.
LEMMA TraceByKind ==
    ASSUME NEW e \in Forms
    PROVE  LET es == e.elements
           IN  /\ Atom(e) => Trace[e] = <<>>
               /\ ~Atom(e) /\ StartsWith(e, def) =>
                    Trace[e] = IF DefFits(es)
                               THEN Append(Trace[es[3]], Bind(es[2].name, TypeOf(es[3])))
                               ELSE <<Fault>>
               /\ ~Atom(e) /\ StartsWith(e, fn) =>
                    Trace[e] = IF FnFits(es) THEN Append(Traces(From(es, 3)), Make)
                               ELSE <<Fault>>
               /\ ~Atom(e) /\ ~StartsWith(e, def) /\ ~StartsWith(e, fn) =>
                    Trace[e] = Trace[es[1]] \o Target(es[1]) \o Traces(From(es, 2))
<1>1. Trace[e] = TraceStep(Trace, e)
  BY TraceIs
<1>2. ~(StartsWith(e, def) /\ StartsWith(e, fn))
  BY SemanticsAssumption DEF StartsWith, Symbol
<1> QED
  BY <1>1, <1>2 DEF TraceStep, Traces

-----------------------------------------------------------------------------
(* The analysis follows the trace of the form it is at.                    *)

\* Between a and b, t is s.
Reads(t, a, b, s) == b = a + Len(s) /\ \A i \in 1..Len(s) : t[a + i] = s[i]

\* What a frame does when the value it waits for, of type k, is there; calling
\* that value does tg.
Waits(fr, k, tg) ==
    CASE fr.of = "analyze" -> Traces(fr.todo)
      [] fr.of = "def" -> <<Bind(fr.binding, k)>>
      [] fr.of = "fn" -> <<Make>>
      [] fr.of = "call" -> IF fr.target = Unresolved THEN tg \o Traces(fr.rest) ELSE <<>>

\* The value that is being made, or has been, and what it takes to call it.
Kind(c) == IF c.at = "enter" THEN TypeOf(c.form) ELSE c.result.value.type
\* What calling a value does, and what is still to be done to have it.
CallOf(v) == IF v.type = "symbol" THEN <<Use(v.name)>>
             ELSE IF v.type \in {"number", "list"} THEN <<Fault>> ELSE <<>>
Called(c) == IF c.at = "enter" THEN Target(c.form) ELSE CallOf(c.result.value)
Now(c) == IF c.at = "enter" THEN Trace[c.form] ELSE <<>>

\* What the innermost frame and what is entered do.
Doing(st, c) ==
    IF Len(st) = 1 THEN Now(c) ELSE Now(c) \o Waits(st[Len(st)], Kind(c), Called(c))

\* The frames 2 to m, each of which waits for the one above it, do what t has
\* after x.
Under(st, m, t, x) ==
    \E cut \in [1..m -> Nat] :
        /\ cut[1] = Len(t) /\ cut[m] = x
        /\ \A i \in 2..m : Reads(t, cut[i], cut[i - 1], Waits(st[i], st[i + 1].of, <<>>))

\* A piece of t, split.
LEMMA ReadsNothing ==
    ASSUME NEW t, NEW a \in Nat, NEW b
    PROVE  Reads(t, a, b, <<>>) <=> b = a
BY DEF Reads

LEMMA ReadsOne ==
    ASSUME NEW t, NEW a \in Nat, NEW b, NEW ev
    PROVE  Reads(t, a, b, <<ev>>) <=> b = a + 1 /\ t[a + 1] = ev
<1>1. Len(<<ev>>) = 1 /\ <<ev>>[1] = ev /\ 1..1 = {1}
  OBVIOUS
<1> QED
  BY <1>1 DEF Reads

LEMMA ReadsBoth ==
    ASSUME NEW t, NEW a \in Nat, NEW b, NEW S, NEW r \in Seq(S), NEW s \in Seq(S)
    PROVE  Reads(t, a, b, r \o s) <=>
             /\ a + Len(r) \in Nat
             /\ Reads(t, a, a + Len(r), r) /\ Reads(t, a + Len(r), b, s)
<1> DEFINE both == r \o s
           m == Len(r)
           n == Len(s)
<1>1. /\ both \in Seq(S) /\ Len(both) = m + n /\ m \in Nat /\ n \in Nat
      /\ \A i \in 1..m : both[i] = r[i]
      /\ \A i \in 1..n : both[m + i] = s[i]
  <2>1. m \in Nat /\ n \in Nat
    BY LenProperties
  <2>2. both \in Seq(S) /\ Len(both) = m + n
        /\ \A i \in 1..m + n : both[i] = IF i <= m THEN r[i] ELSE s[i - m]
    BY ConcatProperties
  <2> HIDE DEF both, m, n
  <2>3. ASSUME NEW i \in 1..n PROVE both[m + i] = s[i]
    <3>1. m + i \in 1..m + n /\ ~(m + i <= m) /\ (m + i) - m = i
      BY <2>1
    <3> QED
      BY <2>2, <3>1
  <2>4. ASSUME NEW i \in 1..m PROVE both[i] = r[i]
    <3>1. i \in 1..m + n /\ i <= m
      BY <2>1
    <3> QED
      BY <2>2, <3>1
  <2> QED
    BY <2>1, <2>2, <2>3, <2>4
<1> HIDE DEF both, m, n
<1>2. ASSUME Reads(t, a, b, both)
      PROVE  Reads(t, a, a + m, r) /\ Reads(t, a + m, b, s)
  <2>1. b = a + (m + n) /\ \A i \in 1..m + n : t[a + i] = both[i]
    BY <1>1, <1>2 DEF Reads
  <2>2. ASSUME NEW i \in 1..m PROVE t[a + i] = r[i]
    <3>1. i \in 1..m + n
      BY <1>1
    <3> QED
      BY <1>1, <2>1, <3>1
  <2>3. ASSUME NEW i \in 1..n PROVE t[(a + m) + i] = s[i]
    <3>1. m + i \in 1..m + n /\ a + (m + i) = (a + m) + i
      BY <1>1
    <3> QED
      BY <1>1, <2>1, <3>1
  <2>4. b = (a + m) + n
    BY <1>1, <2>1
  <2> QED
    BY <2>2, <2>3, <2>4 DEF Reads, m, n
<1>3. ASSUME Reads(t, a, a + m, r), Reads(t, a + m, b, s)
      PROVE  Reads(t, a, b, both)
  <2>1. b = (a + m) + n /\ (\A i \in 1..m : t[a + i] = r[i])
        /\ \A i \in 1..n : t[(a + m) + i] = s[i]
    BY <1>3 DEF Reads, m, n
  <2>2. ASSUME NEW i \in 1..m + n PROVE t[a + i] = both[i]
    <3>1. CASE i \in 1..m
      BY <1>1, <2>1, <3>1
    <3>2. CASE i \notin 1..m
      <4>1. i - m \in 1..n /\ m + (i - m) = i /\ (a + m) + (i - m) = a + i
        BY <1>1, <3>2
      <4>2. t[(a + m) + (i - m)] = s[i - m] /\ both[m + (i - m)] = s[i - m]
        BY <1>1, <2>1, <4>1
      <4> QED
        BY <4>1, <4>2
    <3> QED
      BY <3>1, <3>2
  <2>3. b = a + Len(both)
    BY <1>1, <2>1
  <2> QED
    BY <1>1, <2>2, <2>3 DEF Reads
<1>4. a + m \in Nat
  BY <1>1
<1> QED
  BY <1>2, <1>3, <1>4 DEF both, m

LEMMA ReadsThenOne ==
    ASSUME NEW t, NEW a \in Nat, NEW b, NEW S, NEW r \in Seq(S), NEW ev \in S
    PROVE  Reads(t, a, b, Append(r, ev)) <=>
             /\ a + Len(r) \in Nat
             /\ Reads(t, a, a + Len(r), r) /\ Reads(t, a + Len(r), b, <<ev>>)
<1>1. Append(r, ev) = r \o <<ev>> /\ <<ev>> \in Seq(S)
  OBVIOUS
<1> QED
  BY <1>1, ReadsBoth

-----------------------------------------------------------------------------
\* Under the lowest frame, and one frame further up.
LEMMA UnderFirst ==
    ASSUME NEW st, NEW t \in Seq(Events), NEW x
    PROVE  Under(st, 1, t, x) <=> x = Len(t)
<1>1. Len(t) \in Nat
  BY LenProperties
<1>2. ASSUME x = Len(t) PROVE Under(st, 1, t, x)
  <2> DEFINE cut == [i \in 1..1 |-> Len(t)]
  <2>1. cut \in [1..1 -> Nat] /\ cut[1] = Len(t) /\ \A i \in 2..1 : FALSE
    BY <1>1
  <2> HIDE DEF cut
  <2> QED
    BY <1>2, <2>1 DEF Under
<1> QED
  BY <1>2 DEF Under

LEMMA UnderType ==
    ASSUME NEW st, NEW m \in Nat, m > 0, NEW t, NEW x, Under(st, m, t, x)
    PROVE  x \in Nat
<1>1. m \in 1..m
  OBVIOUS
<1> QED
  BY <1>1 DEF Under

LEMMA UnderNext ==
    ASSUME NEW st, NEW m \in Nat, m > 0, NEW t, NEW y
    PROVE  Under(st, m + 1, t, y) <=>
             /\ y \in Nat
             /\ \E x \in Nat : /\ Under(st, m, t, x)
                               /\ Reads(t, y, x, Waits(st[m + 1], st[m + 2].of, <<>>))
<1>0. 1..m + 1 = 1..m \cup {m + 1} /\ m \in 1..m /\ 1 \in 1..m /\ (m + 1) + 1 = m + 2
      /\ (m + 1) - 1 = m /\ m + 1 \in 2..m + 1 /\ m + 1 \notin 1..m
      /\ \A i \in 2..m : i \in 1..m /\ i - 1 \in 1..m /\ i \in 2..m + 1
  OBVIOUS
<1>1. ASSUME Under(st, m + 1, t, y)
      PROVE  /\ y \in Nat
             /\ \E x \in Nat : /\ Under(st, m, t, x)
                               /\ Reads(t, y, x, Waits(st[m + 1], st[m + 2].of, <<>>))
  <2>1. PICK cut \in [1..m + 1 -> Nat] :
          /\ cut[1] = Len(t) /\ cut[m + 1] = y
          /\ \A i \in 2..m + 1 : Reads(t, cut[i], cut[i - 1], Waits(st[i], st[i + 1].of, <<>>))
    BY <1>1 DEF Under
  <2> DEFINE low == [i \in 1..m |-> cut[i]]
  <2>2. low \in [1..m -> Nat] /\ low[1] = Len(t) /\ low[m] = cut[m] /\ cut[m] \in Nat
        /\ y \in Nat
    BY <1>0, <2>1
  <2>3. ASSUME NEW i \in 2..m
        PROVE  Reads(t, low[i], low[i - 1], Waits(st[i], st[i + 1].of, <<>>))
    <3>1. low[i] = cut[i] /\ low[i - 1] = cut[i - 1]
      BY <1>0
    <3> QED
      BY <1>0, <2>1, <3>1
  <2> HIDE DEF low
  <2>4. Under(st, m, t, cut[m])
    BY <2>2, <2>3 DEF Under
  <2>5. Reads(t, cut[m + 1], cut[m], Waits(st[m + 1], st[m + 2].of, <<>>))
    BY <1>0, <2>1, Zenon
  <2> QED
    BY <2>1, <2>2, <2>4, <2>5
<1>2. ASSUME y \in Nat, NEW x \in Nat, Under(st, m, t, x),
             Reads(t, y, x, Waits(st[m + 1], st[m + 2].of, <<>>))
      PROVE  Under(st, m + 1, t, y)
  <2>1. PICK low \in [1..m -> Nat] :
          /\ low[1] = Len(t) /\ low[m] = x
          /\ \A i \in 2..m : Reads(t, low[i], low[i - 1], Waits(st[i], st[i + 1].of, <<>>))
    BY <1>2 DEF Under
  <2> DEFINE cut == [i \in 1..m + 1 |-> IF i = m + 1 THEN y ELSE low[i]]
  <2>2. /\ cut \in [1..m + 1 -> Nat] /\ cut[m + 1] = y
        /\ \A i \in 1..m : cut[i] = low[i]
    <3>1. m + 1 \in 1..m + 1
      OBVIOUS
    <3> QED
      BY <1>0, <1>2, <2>1, <3>1
  <2> HIDE DEF cut
  <2>3. ASSUME NEW i \in 2..m + 1
        PROVE  Reads(t, cut[i], cut[i - 1], Waits(st[i], st[i + 1].of, <<>>))
    <3>1. CASE i = m + 1
      <4>1. cut[i] = y /\ cut[i - 1] = x
        BY <1>0, <2>1, <2>2, <3>1
      <4>2. st[i] = st[m + 1] /\ st[i + 1] = st[m + 2]
        BY <1>0, <3>1
      <4> QED
        BY <1>2, <4>1, <4>2
    <3>2. CASE i # m + 1
      <4>1. i \in 2..m
        BY <3>2
      <4>2. cut[i] = low[i] /\ cut[i - 1] = low[i - 1]
        BY <1>0, <2>2, <4>1
      <4> QED
        BY <2>1, <4>1, <4>2
    <3> QED
      BY <3>1, <3>2
  <2>4. cut[1] = Len(t)
    BY <1>0, <2>1, <2>2
  <2> QED
    BY <2>2, <2>3, <2>4 DEF Under
<1> QED
  BY <1>1, <1>2

\* Only the frames below count, and which function the next one is of.
LEMMA UnderSame ==
    ASSUME NEW st, NEW su, NEW m \in Nat, m > 0, NEW t, NEW x,
           \A i \in 1..m : st[i] = su[i],
           st[m + 1].of = su[m + 1].of,
           Under(st, m, t, x)
    PROVE  Under(su, m, t, x)
<1>1. PICK cut \in [1..m -> Nat] :
        /\ cut[1] = Len(t) /\ cut[m] = x
        /\ \A i \in 2..m : Reads(t, cut[i], cut[i - 1], Waits(st[i], st[i + 1].of, <<>>))
  BY DEF Under
<1>2. ASSUME NEW i \in 2..m
      PROVE  Reads(t, cut[i], cut[i - 1], Waits(su[i], su[i + 1].of, <<>>))
  <2>1. i \in 1..m /\ (i + 1 \in 1..m \/ i + 1 = m + 1)
    OBVIOUS
  <2>2. su[i] = st[i] /\ su[i + 1].of = st[i + 1].of
    BY <2>1
  <2> QED
    BY <1>1, <2>2
<1> QED
  BY <1>1, <1>2 DEF Under

\* No error has been met in the form that the program is at, whose trace is t,
\* and d of its events have taken place.
Clean(st, c) ==
    /\ \A i \in 2..Len(st) : st[i].of = "analyze" => st[i].errors = <<>>
    /\ c.at = "return" => c.result.ok
\* The stack and what is entered do what t has after its first d events.
Follows(st, c, t, d) ==
    /\ Clean(st, c)
    /\ \E x \in Nat : /\ Under(st, IF Len(st) = 1 THEN 1 ELSE Len(st) - 1, t, x)
                      /\ Reads(t, d, x, Doing(st, c))

\* Between two forms, and within one.
LEMMA FollowsLow ==
    ASSUME NEW st, Len(st) = 1, NEW c, NEW t \in Seq(Events), NEW d
    PROVE  Follows(st, c, t, d) <=> Clean(st, c) /\ Reads(t, d, Len(t), Now(c))
<1>1. Len(t) \in Nat
  BY LenProperties
<1>2. Doing(st, c) = Now(c)
  BY DEF Doing
<1>3. \A x : Under(st, 1, t, x) <=> x = Len(t)
  BY UnderFirst
<1> QED
  BY <1>1, <1>2, <1>3 DEF Follows

LEMMA FollowsHigh ==
    ASSUME NEW st, NEW n \in Nat, n > 1, Len(st) = n, NEW c, NEW t, NEW d
    PROVE  Follows(st, c, t, d) <=>
             /\ Clean(st, c)
             /\ \E x \in Nat :
                   /\ Under(st, n - 1, t, x)
                   /\ Reads(t, d, x, Now(c) \o Waits(st[n], Kind(c), Called(c)))
<1>1. Len(st) # 1
  OBVIOUS
<1> QED
  BY <1>1 DEF Follows, Doing

\* What a frame waits to do is a trace.
LEMMA WaitsType ==
    ASSUME NEW fr, IsFrame(fr), NEW k, NEW tg \in Seq(Events),
           k \in Types \/ fr.of # "def"
    PROVE  Waits(fr, k, tg) \in Seq(Events)
<1>0. <<>> \in Seq(Events)
  BY EmptySeq
<1>1. CASE fr.of = "analyze"
  BY <1>1, TracesType DEF Waits, IsFrame
<1>2. CASE fr.of = "def"
  <2>1. Bind(fr.binding, k) \in Events
    BY <1>2, EventsAre DEF IsFrame
  <2>2. <<Bind(fr.binding, k)>> \in Seq(Events)
    BY <2>1, Single
  <2> QED
    BY <1>2, <2>2 DEF Waits
<1>3. CASE fr.of = "fn"
  <2>1. <<Make>> \in Seq(Events)
    BY EventsAre, Single
  <2> QED
    BY <1>3, <2>1 DEF Waits
<1>4. CASE fr.of = "call"
  <2>1. Traces(fr.rest) \in Seq(Events)
    BY <1>4, TracesType DEF IsFrame
  <2>2. tg \o Traces(fr.rest) \in Seq(Events)
    BY <2>1, ConcatProperties
  <2> QED
    BY <1>0, <1>4, <2>2 DEF Waits
<1> QED
  BY <1>1, <1>2, <1>3, <1>4 DEF IsFrame

LEMMA WaitsLength ==
    ASSUME NEW fr, IsFrame(fr), NEW k
    PROVE  Len(Waits(fr, k, <<>>)) \in Nat
<1>1. CASE fr.of = "def"
  <2>1. Waits(fr, k, <<>>) = <<Bind(fr.binding, k)>>
    BY <1>1 DEF Waits
  <2> QED
    BY <2>1
<1>2. CASE fr.of # "def"
  <2>1. <<>> \in Seq(Events)
    BY EmptySeq
  <2>2. Waits(fr, k, <<>>) \in Seq(Events)
    BY <1>2, <2>1, WaitsType
  <2> QED
    BY <2>2, LenProperties
<1> QED
  BY <1>1, <1>2

\* What is to be done lies in the trace.
LEMMA UnderBound ==
    ASSUME NEW st, IsStack(st), NEW m \in Nat, m > 0, m <= Len(st),
           NEW t \in Seq(Events), NEW x, Under(st, m, t, x)
    PROVE  x \in Nat /\ x <= Len(t)
<1>1. PICK cut \in [1..m -> Nat] :
        /\ cut[1] = Len(t) /\ cut[m] = x
        /\ \A i \in 2..m : Reads(t, cut[i], cut[i - 1], Waits(st[i], st[i + 1].of, <<>>))
  BY DEF Under
<1>2. Len(t) \in Nat /\ Len(st) \in Nat
  BY LenProperties, StackFacts
<1> DEFINE Bad == {i \in 1..m : cut[i] > Len(t)}
<1>3. Bad = {}
  <2> SUFFICES ASSUME Bad # {} PROVE FALSE
    OBVIOUS
  <2>1. Bad \subseteq Nat
    OBVIOUS
  <2>2. PICK i \in Bad : \A y \in Bad : i <= y
    BY <2>1, Least
  <2>3. i \in 1..m /\ cut[i] > Len(t) /\ cut[i] \in Nat
    BY <2>2
  <2>4. i # 1
    BY <1>1, <1>2, <2>3
  <2>5. i \in 2..m /\ i - 1 \in 1..m /\ ~(i <= i - 1) /\ i \in 1..Len(st)
    BY <1>2, <2>3, <2>4
  <2>6. cut[i - 1] <= Len(t) /\ cut[i - 1] \in Nat
    <3>1. i - 1 \notin Bad
      BY <2>2, <2>5
    <3>2. cut[i - 1] \in Nat
      BY <2>5
    <3> QED
      BY <1>2, <2>5, <3>1, <3>2
  <2>7. IsFrame(st[i])
    BY <2>5 DEF IsStack
  <2>8. Len(Waits(st[i], st[i + 1].of, <<>>)) \in Nat
    BY <2>7, WaitsLength
  <2>9. cut[i - 1] = cut[i] + Len(Waits(st[i], st[i + 1].of, <<>>))
    BY <1>1, <2>5 DEF Reads
  <2> QED
    BY <1>2, <2>3, <2>6, <2>8, <2>9
<1>4. m \in 1..m /\ cut[m] \in Nat
  OBVIOUS
<1>5. m \notin Bad
  BY <1>3
<1>6. ~(cut[m] > Len(t))
  BY <1>4, <1>5
<1> HIDE DEF Bad
<1> QED
  BY <1>1, <1>2, <1>4, <1>6

\* The frames after one is put on the stack, taken from it or changed.
LEMMA AppendFacts ==
    ASSUME NEW st, IsStack(st), NEW fr
    PROVE  /\ Len(Append(st, fr)) = Len(st) + 1
           /\ \A i \in 1..Len(st) : Append(st, fr)[i] = st[i]
           /\ Append(st, fr)[Len(st) + 1] = fr
<1> DEFINE S == {st[i] : i \in DOMAIN st} \cup {fr}
<1>1. st \in Seq(S) /\ fr \in S
  BY SeqMonotonic DEF IsStack
<1> HIDE DEF S
<1> QED
  BY <1>1, AppendProperties

LEMMA PopFacts ==
    ASSUME NEW st, IsStack(st), st # <<>>
    PROVE  /\ Len(SubSeq(st, 1, Len(st) - 1)) = Len(st) - 1
           /\ \A i \in 1..(Len(st) - 1) : SubSeq(st, 1, Len(st) - 1)[i] = st[i]
BY Shorter DEF IsStack

LEMMA ReplaceFacts ==
    ASSUME NEW st, IsStack(st), NEW fr
    PROVE  LET new == [st EXCEPT ![Len(st)] = fr]
           IN  /\ Len(new) = Len(st)
               /\ \A i \in 1..Len(st) : new[i] = IF i = Len(st) THEN fr ELSE st[i]
<1>1. CASE st = <<>>
  BY <1>1
<1>2. CASE st # <<>>
  <2> DEFINE S == {st[i] : i \in DOMAIN st} \cup {fr}
             new == [st EXCEPT ![Len(st)] = fr]
  <2>1. Len(st) \in Nat /\ Len(st) \in 1..Len(st)
    BY <1>2, StackFacts
  <2>2. st \in Seq(S) /\ fr \in S
    BY SeqMonotonic DEF IsStack
  <2>3. /\ new \in Seq(S) /\ Len(new) = Len(st)
        /\ \A i \in 1..Len(st) : new[i] = IF i = Len(st) THEN fr ELSE st[i]
    BY <2>1, <2>2, ExceptSeq
  <2> QED
    BY <2>3
<1> QED
  BY <1>1, <1>2

\* Entering a list puts a frame on the stack: what the list does is done before
\* the frames below go on.
LEMMA Opened ==
    ASSUME NEW st, IsStack(st), st # <<>>, NEW e \in Forms, NEW c,
           c = [at |-> "enter", form |-> e],
           NEW t \in Seq(Events), NEW d \in Nat, Follows(st, c, t, d),
           NEW fr, fr.of = TypeOf(e), Target(e) = <<>>
    PROVE  \E y \in Nat : /\ Under(Append(st, fr), Len(st), t, y) /\ y <= Len(t)
                          /\ Reads(t, d, y, Trace[e])
<1> DEFINE n == Len(st)
           su == Append(st, fr)
<1>1. n \in Nat /\ n > 0 /\ n \in 1..n
  BY StackFacts
<1>2. /\ \A i \in 1..n : su[i] = st[i]
      /\ su[n + 1] = fr
  BY AppendFacts
<1>3. Now(c) = Trace[e] /\ Kind(c) = TypeOf(e) /\ Called(c) = <<>> /\ Len(t) \in Nat
  BY LenProperties DEF Now, Kind, Called
<1> HIDE DEF su, n
<1>0. n = Len(st)
  BY DEF n
<1>4. CASE n = 1
  <2>1. Reads(t, d, Len(t), Trace[e])
    BY <1>0, <1>3, <1>4, FollowsLow
  <2>2. Under(su, n, t, Len(t))
    BY <1>4, UnderFirst
  <2> QED
    BY <1>0, <1>3, <2>1, <2>2 DEF su
<1>5. CASE n # 1
  <2>1. n > 1 /\ n - 1 \in Nat /\ n - 1 > 0 /\ (n - 1) + 1 = n /\ (n - 1) + 2 = n + 1
        /\ \A i \in 1..n - 1 : i \in 1..n
    BY <1>1, <1>5
  <2>2. PICK x \in Nat : /\ Under(st, n - 1, t, x)
                         /\ Reads(t, d, x, Trace[e] \o Waits(st[n], TypeOf(e), <<>>))
    BY <1>0, <1>1, <1>3, <2>1, FollowsHigh
  <2>3. IsFrame(st[n]) /\ <<>> \in Seq(Events)
    BY <1>0, <1>1, EmptySeq DEF IsStack
  <2>4. Waits(st[n], TypeOf(e), <<>>) \in Seq(Events) /\ Trace[e] \in Seq(Events)
    BY <2>3, TypesAre, WaitsType, TraceType
  <2> DEFINE y == d + Len(Trace[e])
  <2>5. y \in Nat /\ Reads(t, d, y, Trace[e])
        /\ Reads(t, y, x, Waits(st[n], TypeOf(e), <<>>))
    BY <2>2, <2>4, ReadsBoth
  <2> HIDE DEF y
  <2>9. y <= Len(t)
    <3>1. n - 1 <= Len(st)
      BY <1>0, <1>1
    <3>2. x <= Len(t)
      BY <2>1, <2>2, <3>1, UnderBound
    <3>3. x = y + Len(Waits(st[n], TypeOf(e), <<>>))
          /\ Len(Waits(st[n], TypeOf(e), <<>>)) \in Nat
      BY <2>3, <2>5, WaitsLength DEF Reads
    <3> QED
      BY <1>3, <2>5, <3>2, <3>3
  <2>6. Under(su, n - 1, t, x)
    <3>1. \A i \in 1..n - 1 : st[i] = su[i]
      BY <1>2, <2>1
    <3>2. st[(n - 1) + 1].of = su[(n - 1) + 1].of
      BY <1>1, <1>2, <2>1
    <3> QED
      BY <2>1, <2>2, <3>1, <3>2, UnderSame
  <2>7. Waits(su[(n - 1) + 1], su[(n - 1) + 2].of, <<>>) = Waits(st[n], TypeOf(e), <<>>)
    BY <1>1, <1>2, <2>1
  <2>8. Under(su, (n - 1) + 1, t, y)
    BY <2>1, <2>5, <2>6, <2>7, UnderNext
  <2> QED
    BY <1>0, <2>1, <2>5, <2>8, <2>9 DEF su
<1> QED
  BY <1>4, <1>5

\* A frame whose work is done gives its value to the one below.
LEMMA Closed ==
    ASSUME NEW st, IsStack(st), NEW n \in Nat, Len(st) = n, n > 1,
           NEW t \in Seq(Events), NEW d \in Nat, Under(st, n - 1, t, d),
           NEW c, c.at = "return",
           Clean(SubSeq(st, 1, n - 1), c),
           n - 1 > 1 =>
             Waits(st[n - 1], Kind(c), Called(c)) = Waits(st[n - 1], st[n].of, <<>>),
           n - 1 > 1 =>
             Waits(st[n - 1], st[n].of, <<>>) \in Seq(Events)
    PROVE  Follows(SubSeq(st, 1, n - 1), c, t, d)
<1> DEFINE su == SubSeq(st, 1, n - 1)
<1>0. st # <<>>
  BY StackFacts
<1>1. Len(su) = n - 1 /\ (\A i \in 1..n - 1 : su[i] = st[i]) /\ n - 1 \in Nat
  BY <1>0, PopFacts
<1>2. Now(c) = <<>> /\ Len(t) \in Nat /\ Clean(su, c)
  BY LenProperties DEF Now
<1> HIDE DEF su
<1>3. CASE n - 1 = 1
  <2>1. d = Len(t)
    BY <1>3, UnderFirst
  <2>2. Reads(t, d, Len(t), <<>>)
    BY <2>1, ReadsNothing
  <2> QED
    BY <1>1, <1>2, <1>3, <2>2, FollowsLow DEF su
<1>4. CASE n - 1 # 1
  <2> DEFINE m == n - 2
  <2>1. m \in Nat /\ m > 0 /\ m + 1 = n - 1 /\ m + 2 = n /\ n - 1 > 1 /\ n - 1 \in 1..n - 1
        /\ (n - 1) - 1 = m /\ \A i \in 1..m : i \in 1..n - 1
    BY <1>4
  <2> HIDE DEF m
  <2>2. PICK x \in Nat : /\ Under(st, m, t, x)
                         /\ Reads(t, d, x, Waits(st[n - 1], st[n].of, <<>>))
    <3>1. Under(st, m + 1, t, d)
      BY <2>1
    <3>2. \E x \in Nat : /\ Under(st, m, t, x)
                         /\ Reads(t, d, x, Waits(st[m + 1], st[m + 2].of, <<>>))
      BY <2>1, <3>1, UnderNext
    <3> QED
      BY <2>1, <3>2
  <2>3. Under(su, m, t, x)
    <3>1. \A i \in 1..m : st[i] = su[i]
      BY <1>1, <2>1
    <3>2. st[m + 1].of = su[m + 1].of
      BY <1>1, <2>1
    <3> QED
      BY <2>1, <2>2, <3>1, <3>2, UnderSame
  <2>4. su[n - 1] = st[n - 1]
    BY <1>1, <2>1
  <2>5. Waits(su[n - 1], Kind(c), Called(c)) = Waits(st[n - 1], st[n].of, <<>>)
    BY <2>1, <2>4
  <2>6. <<>> \o Waits(st[n - 1], st[n].of, <<>>) = Waits(st[n - 1], st[n].of, <<>>)
    <3> DEFINE w == Waits(st[n - 1], st[n].of, <<>>)
    <3>1. w \in Seq(Events)
      BY <2>1
    <3> HIDE DEF w
    <3>2. <<>> \o w = w
      BY <3>1, ConcatEmptySeq
    <3> QED
      BY <3>2 DEF w
  <2>7. Reads(t, d, x, Now(c) \o Waits(su[n - 1], Kind(c), Called(c)))
    BY <1>2, <2>2, <2>5, <2>6, Zenon
  <2>8. Under(su, (n - 1) - 1, t, x)
    BY <2>1, <2>3
  <2> QED
    BY <1>1, <1>2, <2>1, <2>7, <2>8, FollowsHigh DEF su
<1> QED
  BY <1>3, <1>4

\* The program is within a form, and no error has been met in it.
Inside(t, d) ==
    /\ IInv /\ stack # <<>> /\ stack[1].of = "analyze"
    /\ Len(stack) > 1 \/ ctl.at = "enter"
    /\ t \in Seq(Events) /\ d \in 0..Len(t)
    /\ Follows(stack, ctl, t, d)

\* What a step does: nothing of the trace, its next event, or it fails where the
\* trace has something that is not right.
Silent(t, d) == Follows(stack', ctl', t, d) /\ env' = env /\ fns' = fns
Uses(ev) == \E s \in Syms : ev = Use(s) /\ env[s] # Unbound /\ env' = env /\ fns' = fns
Binding(ev) ==
    \E s \in Syms, k \in Types : \E v :
        /\ ev = Bind(s, k) /\ IsExpr(v) /\ v.type = k
        /\ env' = [env EXCEPT ![s] = v] /\ fns' = fns
Making(ev) == ev = Make /\ env' = env /\ fns' = fns + 1
Performs(t, d) ==
    /\ d < Len(t) /\ Follows(stack', ctl', t, d + 1)
    /\ Uses(t[d + 1]) \/ Binding(t[d + 1]) \/ Making(t[d + 1])
Wrong(ev) == ev = Fault \/ \E s \in Syms : ev = Use(s) /\ env[s] = Unbound
Fails(t, d) ==
    /\ d < Len(t) /\ Wrong(t[d + 1])
    /\ ~Clean(stack', ctl') /\ env' = env /\ fns' = fns
Moves(t, d) == Silent(t, d) \/ Performs(t, d) \/ Fails(t, d)

\* What is used of a state within a form.
LEMMA InsideFacts ==
    ASSUME NEW t, NEW d, Inside(t, d)
    PROVE  /\ IsStack(stack) /\ IsCtl(ctl, stack) /\ Clean(stack, ctl)
           /\ Len(stack) \in Nat /\ Len(stack) > 0 /\ IsFrame(Top)
           /\ stack # <<>> /\ t \in Seq(Events) /\ Len(t) \in Nat /\ d \in Nat /\ d <= Len(t)
           /\ Top.of # "analyze" => Len(stack) > 1
<1>1. IsStack(stack) /\ IsCtl(ctl, stack) /\ Clean(stack, ctl)
  BY DEF Inside, IInv, ControlInv, Follows
<1>2. t \in Seq(Events) /\ Len(t) \in Nat /\ d \in Nat /\ d <= Len(t)
  BY LenProperties DEF Inside
<1>3. stack # <<>> /\ Len(stack) \in Nat /\ Len(stack) \in 1..Len(stack) /\ IsFrame(Top)
  BY <1>1, StackFacts DEF Inside, Top
<1>4. Top.of # "analyze" => Len(stack) # 1
  BY DEF Inside, Top
<1> DEFINE n == Len(stack)
<1>5. n \in Nat /\ n \in 1..n /\ (Top.of # "analyze" => n # 1)
  BY <1>3, <1>4
<1> HIDE DEF n
<1>6. n > 0 /\ (Top.of # "analyze" => n > 1)
  BY <1>5
<1> QED
  BY <1>1, <1>2, <1>3, <1>6 DEF n

LEMMA InsideHigh ==
    ASSUME NEW t, NEW d, Inside(t, d), NEW n, n = Len(stack), n > 1
    PROVE  \E x \in Nat :
              /\ Under(stack, n - 1, t, x) /\ x <= Len(t)
              /\ Reads(t, d, x, Now(ctl) \o Waits(Top, Kind(ctl), Called(ctl)))
<1>1. n \in Nat /\ n > 1 /\ Len(stack) = n /\ n - 1 \in Nat /\ n - 1 > 0 /\ n - 1 <= n
  BY InsideFacts
<1>2. IsStack(stack) /\ t \in Seq(Events) /\ Follows(stack, ctl, t, d)
  BY InsideFacts DEF Inside
<1>3. \E x \in Nat :
         /\ Under(stack, n - 1, t, x)
         /\ Reads(t, d, x, Now(ctl) \o Waits(stack[n], Kind(ctl), Called(ctl)))
  BY <1>1, <1>2, FollowsHigh
<1>4. ASSUME NEW x, Under(stack, n - 1, t, x) PROVE x <= Len(t)
  BY <1>1, <1>2, <1>4, UnderBound
<1>5. Top = stack[n]
  BY <1>1 DEF Top
<1> QED
  BY <1>3, <1>4, <1>5

\* What is on the way back adds nothing to what the frame does.
LEMMA NoMore ==
    ASSUME NEW w, w \in Seq(Events)
    PROVE  <<>> \o w = w
BY ConcatEmptySeq

\* A frame that waits for one value gives one back.
LEMMA ClosedBy ==
    ASSUME NEW t, NEW d, Inside(t, d), NEW n, n = Len(stack), n > 1,
           Top.of \in {"def", "fn", "call"},
           NEW z \in Nat, Under(stack, n - 1, t, z),
           NEW v, v.type = Top.of
    PROVE  Follows(Pop, [at |-> "return", result |-> Ok(v)], t, z)
<1> DEFINE c == [at |-> "return", result |-> Ok(v)]
<1>1. /\ n \in Nat /\ Len(stack) = n /\ IsStack(stack) /\ t \in Seq(Events)
      /\ Clean(stack, ctl) /\ stack # <<>> /\ Top = stack[n]
  BY InsideFacts DEF Top
<1>2. c.at = "return" /\ c.result.ok /\ Kind(c) = Top.of /\ Called(c) = <<>>
  BY DEF Ok, Kind, Called, CallOf
<1> HIDE DEF c
<1>3. Clean(SubSeq(stack, 1, n - 1), c)
  <2>1. /\ Len(SubSeq(stack, 1, n - 1)) = n - 1
        /\ \A i \in 1..n - 1 : SubSeq(stack, 1, n - 1)[i] = stack[i]
    BY <1>1, PopFacts
  <2> QED
    BY <1>1, <1>2, <2>1 DEF Clean
<1>4. n - 1 > 1 => Waits(stack[n - 1], Kind(c), Called(c)) = Waits(stack[n - 1], stack[n].of, <<>>)
  BY <1>1, <1>2
<1>5. n - 1 > 1 => Waits(stack[n - 1], stack[n].of, <<>>) \in Seq(Events)
  <2> SUFFICES ASSUME n - 1 > 1 PROVE Waits(stack[n - 1], stack[n].of, <<>>) \in Seq(Events)
    OBVIOUS
  <2>1. n - 1 \in 1..Len(stack)
    BY <1>1
  <2>2. IsFrame(stack[n - 1])
    BY <1>1, <2>1 DEF IsStack
  <2>3. stack[n].of \in Types
    BY <1>1 DEF Types
  <2> QED
    BY <2>2, <2>3, WaitsType, EmptySeq
<1>6. Follows(SubSeq(stack, 1, n - 1), c, t, z)
  BY <1>1, <1>2, <1>3, <1>4, <1>5, Closed
<1> QED
  BY <1>1, <1>6 DEF Pop, c

\* Where the trace goes wrong.
LEMMA FaultHere ==
    ASSUME NEW t, NEW d, Inside(t, d), ctl = [at |-> "enter", form |-> Form],
           Form \in Forms, Trace[Form] = <<Fault>>, Target(Form) = <<>>
    PROVE  d < Len(t) /\ t[d + 1] = Fault
<1> DEFINE fr == [of |-> TypeOf(Form)]
<1>1. \E y \in Nat : /\ Under(Append(stack, fr), Len(stack), t, y) /\ y <= Len(t)
                     /\ Reads(t, d, y, Trace[Form])
  <2>1. fr.of = TypeOf(Form)
    OBVIOUS
  <2>2. IsStack(stack) /\ stack # <<>> /\ t \in Seq(Events) /\ d \in Nat
        /\ Follows(stack, ctl, t, d)
    BY InsideFacts DEF Inside
  <2> HIDE DEF fr
  <2> QED
    BY <2>1, <2>2, Opened
<1>2. PICK y \in Nat : y <= Len(t) /\ Reads(t, d, y, <<Fault>>)
  BY <1>1
<1>3. y = d + 1 /\ t[d + 1] = Fault /\ d \in Nat /\ Len(t) \in Nat
  BY <1>2, InsideFacts, ReadsOne
<1> QED
  BY <1>2, <1>3

\* A frame is put on the stack, and a form is entered.
LEMMA Pushes ==
    ASSUME NEW t, NEW d, Inside(t, d), ctl = [at |-> "enter", form |-> Form],
           Form \in Forms, Target(Form) = <<>>,
           NEW fr, fr.of = TypeOf(Form), fr.of # "analyze", NEW e,
           Trace[Form] = Trace[e] \o Waits(fr, TypeOf(e), Target(e))
    PROVE  Follows(Append(stack, fr), [at |-> "enter", form |-> e], t, d)
<1> DEFINE c == [at |-> "enter", form |-> e]
           su == Append(stack, fr)
           n == Len(stack)
<1>1. IsStack(stack) /\ stack # <<>> /\ t \in Seq(Events) /\ d \in Nat /\ n \in Nat /\ n > 0
      /\ Follows(stack, ctl, t, d) /\ Clean(stack, ctl)
  BY InsideFacts DEF Inside
<1>2. /\ Len(su) = n + 1 /\ \A i \in 1..n : su[i] = stack[i]
      /\ su[n + 1] = fr
  BY <1>1, AppendFacts
<1>3. PICK y \in Nat : Under(su, n, t, y) /\ Reads(t, d, y, Trace[Form])
  BY <1>1, Opened
<1>4. Now(c) = Trace[e] /\ Kind(c) = TypeOf(e) /\ Called(c) = Target(e) /\ c.at = "enter"
  BY DEF Now, Kind, Called
<1> HIDE DEF su, c
<1>5. Clean(su, c)
  <2> SUFFICES ASSUME NEW i \in 2..n + 1, su[i].of = "analyze" PROVE su[i].errors = <<>>
    BY <1>2, <1>4 DEF Clean
  <2>1. i # n + 1
    BY <1>2
  <2>2. i \in 1..n /\ i \in 2..n
    BY <1>1, <2>1
  <2> QED
    BY <1>1, <1>2, <2>2 DEF Clean
<1>6. Reads(t, d, y, Now(c) \o Waits(su[n + 1], Kind(c), Called(c)))
  BY <1>2, <1>3, <1>4
<1> HIDE DEF n
<1>7. n + 1 \in Nat /\ n + 1 > 1 /\ (n + 1) - 1 = n
  BY <1>1
<1>8. Under(su, (n + 1) - 1, t, y)
  BY <1>3, <1>7
<1> QED
  BY <1>1, <1>2, <1>3, <1>5, <1>6, <1>7, <1>8, FollowsHigh DEF su, c

LEMMA Entering1 ==
    ASSUME NEW t, NEW d, Inside(t, d), Entering
    PROVE  ctl = [at |-> "enter", form |-> Form] /\ Form \in Forms
BY InsideFacts DEF Entering, Form, IsCtl

\* Each of the actions moves along the trace.
LEMMA AtomMoves ==
    ASSUME NEW t, NEW d, Inside(t, d), AnalyzeAtom
    PROVE  Moves(t, d)
<1>1. ctl = [at |-> "enter", form |-> Form] /\ Form \in Forms
  BY Entering1 DEF AnalyzeAtom
<1>2. ctl' = [at |-> "return", result |-> Ok(Form)] /\ stack' = stack /\ env' = env
      /\ fns' = fns
  BY DEF AnalyzeAtom, Return
<1>3. Atom(Form)
  BY DEF AnalyzeAtom, Atom, List
<1>4. Now(ctl') = Now(ctl) /\ Kind(ctl') = Kind(ctl) /\ Called(ctl') = Called(ctl)
  <2>1. Trace[Form] = <<>>
    BY <1>1, <1>3, TraceByKind
  <2>2. TypeOf(Form) = Form.type
    BY <1>3 DEF TypeOf
  <2>3. CallOf(Form) = Target(Form)
    BY <2>2 DEF CallOf, Target
  <2>4. Now(ctl) = Trace[Form] /\ Kind(ctl) = TypeOf(Form) /\ Called(ctl) = Target(Form)
    BY <1>1 DEF Now, Kind, Called
  <2>5. Now(ctl') = <<>> /\ Kind(ctl') = Form.type /\ Called(ctl') = CallOf(Form)
    BY <1>2 DEF Now, Kind, Called, Ok
  <2> QED
    BY <2>1, <2>2, <2>3, <2>4, <2>5
<1>5. Clean(stack', ctl')
  BY <1>2, InsideFacts DEF Clean, Ok
<1>6. Doing(stack', ctl') = Doing(stack, ctl)
  BY <1>2, <1>4 DEF Doing
<1> QED
  BY <1>2, <1>5, <1>6 DEF Inside, Follows, Moves, Silent

\* A list of a kind gives a node of that kind.
LEMMA ListKinds ==
    ASSUME NEW e \in Forms, e.type = "list", e.elements # <<>>
    PROVE  /\ ~Atom(e) /\ Target(e) = <<>> /\ TypeOf(e) # "analyze"
           /\ TypeOf(e) = IF StartsWith(e, def) THEN "def"
                          ELSE IF StartsWith(e, fn) THEN "fn" ELSE "call"
BY DEF Atom, Target, TypeOf

LEMMA BeginDefMoves ==
    ASSUME NEW t, NEW d, Inside(t, d), BeginDef
    PROVE  Moves(t, d)
<1> DEFINE es == Form.elements
<1>1. ctl = [at |-> "enter", form |-> Form] /\ Form \in Forms
  BY Entering1 DEF BeginDef
<1>2. Form.type = "list" /\ es # <<>> /\ StartsWith(Form, def)
  BY DEF BeginDef, StartsWith
<1>3. ~Atom(Form) /\ Target(Form) = <<>> /\ TypeOf(Form) = "def"
  BY <1>1, <1>2, ListKinds
<1>4. env' = env /\ fns' = fns
  BY DEF BeginDef
<1>5. CASE ~DefFits(es)
  <2>1. Trace[Form] = <<Fault>>
    BY <1>1, <1>2, <1>3, <1>5, TraceByKind
  <2>2. d < Len(t) /\ t[d + 1] = Fault
    BY <1>1, <1>3, <2>1, FaultHere
  <2>3. \E r : ctl' = [at |-> "return", result |-> Err(r)]
    BY <1>5 DEF BeginDef, DefFits, Return
  <2>4. ~Clean(stack', ctl')
    BY <2>3 DEF Clean, Err
  <2> QED
    BY <1>4, <2>2, <2>4 DEF Moves, Fails, Wrong
<1>6. CASE DefFits(es)
  <2> DEFINE fr == [of |-> "def", binding |-> es[2].name]
  <2>1. stack' = Append(stack, fr) /\ ctl' = [at |-> "enter", form |-> es[3]]
    BY <1>6 DEF BeginDef, DefFits, Enter
  <2>2. Trace[Form] = Append(Trace[es[3]], Bind(es[2].name, TypeOf(es[3])))
    BY <1>1, <1>2, <1>3, <1>6, TraceByKind
  <2>3. Waits(fr, TypeOf(es[3]), Target(es[3])) = <<Bind(es[2].name, TypeOf(es[3]))>>
    BY DEF Waits
  <2>4. Append(Trace[es[3]], Bind(es[2].name, TypeOf(es[3])))
          = Trace[es[3]] \o <<Bind(es[2].name, TypeOf(es[3]))>>
    <3>1. es \in Seq(Forms) /\ Len(es) = 3
      BY <1>1, <1>2, <1>6, FormsAreNodes DEF DefFits
    <3>2. es[3] \in Forms
      BY <3>1, ElementsAreForms
    <3>3. Trace[es[3]] \in Seq(Events)
      BY <3>2, TraceType
    <3> HIDE DEF es
    <3> QED
      BY <3>3
  <2>5. fr.of = TypeOf(Form) /\ fr.of # "analyze"
    BY <1>3
  <2> HIDE DEF fr
  <2>6. Trace[Form] = Trace[es[3]] \o Waits(fr, TypeOf(es[3]), Target(es[3]))
    BY <2>2, <2>3, <2>4, Zenon
  <2> HIDE DEF es
  <2>7. Follows(Append(stack, fr), [at |-> "enter", form |-> es[3]], t, d)
    BY <1>1, <1>3, <2>5, <2>6, Pushes
  <2> QED
    BY <1>4, <2>1, <2>7 DEF Moves, Silent
<1> QED
  BY <1>5, <1>6

LEMMA BeginCallMoves ==
    ASSUME NEW t, NEW d, Inside(t, d), BeginCall
    PROVE  Moves(t, d)
<1> DEFINE es == Form.elements
           fr == [of |-> "call", target |-> Unresolved, rest |-> From(es, 2)]
           e == es[1]
<1>1. ctl = [at |-> "enter", form |-> Form] /\ Form \in Forms
  BY Entering1 DEF BeginCall
<1>2. Form.type = "list" /\ es # <<>> /\ ~StartsWith(Form, def) /\ ~StartsWith(Form, fn)
  BY DEF BeginCall
<1>3. ~Atom(Form) /\ Target(Form) = <<>> /\ TypeOf(Form) = "call"
  BY <1>1, <1>2, ListKinds
<1>4. /\ env' = env /\ fns' = fns /\ stack' = Append(stack, fr)
      /\ ctl' = [at |-> "enter", form |-> e]
  BY DEF BeginCall, Enter
<1>5. es \in Seq(Forms)
  BY <1>1, <1>2, FormsAreNodes
<1>6. e \in Forms /\ From(es, 2) \in Seq(Forms)
  <2> HIDE DEF es
  <2> QED
    BY <1>2, <1>5, ElementsAreForms
<1>7. Trace[Form] = Trace[e] \o Target(e) \o Traces(From(es, 2))
  BY <1>1, <1>2, <1>3, TraceByKind
<1>8. Waits(fr, TypeOf(e), Target(e)) = Target(e) \o Traces(From(es, 2))
  BY DEF Waits
<1>9. fr.of = TypeOf(Form) /\ fr.of # "analyze"
  BY <1>3
<1> HIDE DEF fr, e, es
<1>10. (Trace[e] \o Target(e)) \o Traces(From(es, 2)) = Trace[e] \o (Target(e) \o Traces(From(es, 2)))
  <2> DEFINE a == Trace[e]
             b == Target(e)
             z == Traces(From(es, 2))
  <2>1. a \in Seq(Events) /\ b \in Seq(Events) /\ z \in Seq(Events)
    BY <1>6, TraceType, TargetType, TracesType
  <2> HIDE DEF a, b, z
  <2>2. Cat(Cat(a, b), z) = Cat(a, Cat(b, z))
    BY <2>1, CatAssociative
  <2> QED
    BY <2>2, Zenon DEF a, b, z, Cat
<1>11. Trace[Form] = Trace[e] \o Waits(fr, TypeOf(e), Target(e))
  BY <1>7, <1>8, <1>10, Zenon
<1>12. Follows(Append(stack, fr), [at |-> "enter", form |-> e], t, d)
  BY <1>1, <1>3, <1>9, <1>11, Pushes
<1> QED
  BY <1>4, <1>12 DEF Moves, Silent

\* A frame that waits for one value has been given it.
LEMMA GivenValue ==
    ASSUME NEW t, NEW d, Inside(t, d), ctl.at = "return", ~Many(Top)
    PROVE  /\ Result.ok /\ Result = Ok(Result.value) /\ IsExpr(Result.value)
           /\ Result.value.type \in Types
<1>1. IsResult(Result, stack) /\ Result.ok /\ stack # <<>> /\ ~Many(Top)
  BY InsideFacts DEF Returning, IsCtl, Clean, Result, Many
<1>2. Result = Ok(Result.value) /\ IsExpr(Result.value)
  BY <1>1 DEF IsResult, Top
<1> QED
  BY <1>1, <1>2, NodesByType DEF Types

LEMMA ReturningFacts ==
    ASSUME NEW t, NEW d, Inside(t, d), ctl.at = "return"
    PROVE  Now(ctl) = <<>> /\ Kind(ctl) = Result.value.type /\ Called(ctl) = CallOf(Result.value)
           /\ Result.ok
BY InsideFacts DEF Now, Kind, Called, Result, Clean

LEMMA FinishDefMoves ==
    ASSUME NEW t, NEW d, Inside(t, d), FinishDef
    PROVE  Moves(t, d)
<1> DEFINE s == Top.binding
           k == Result.value.type
           v == Named(Result.value, s)
           n == Len(stack)
<1>1. Top.of = "def" /\ ctl.at = "return" /\ ~Many(Top)
  BY DEF FinishDef, Returning, Many
<1>2. Result.ok /\ IsExpr(Result.value) /\ k \in Types
  BY <1>1, GivenValue
<1>3. s \in Syms /\ n > 1 /\ n \in Nat /\ d \in Nat /\ Len(t) \in Nat
  <2>1. IsFrame(Top) /\ n > 1 /\ n \in Nat /\ d \in Nat /\ Len(t) \in Nat
    BY <1>1, InsideFacts
  <2> QED
    BY <1>1, <2>1 DEF IsFrame
<1>4. stack' = Pop /\ env' = [env EXCEPT ![s] = v] /\ fns' = fns
      /\ ctl' = [at |-> "return", result |-> Ok(Def(s, v))]
  BY <1>2 DEF FinishDef, Define, Return
<1>5. IsExpr(v) /\ v.type = k
  <2>1. CASE k = "fn"
    <3>1. Result.value = Fn(Result.value.name, Result.value.args, Result.value.body)
      BY <1>2, <2>1, NodesByType
    <3>2. v = Fn(s, Result.value.args, Result.value.body)
      BY <2>1, <3>1 DEF Named, Fn
    <3> QED
      BY <2>1, <3>2 DEF IsExpr, Fn
  <2>2. CASE k # "fn"
    BY <1>2, <2>2 DEF Named
  <2> QED
    BY <2>1, <2>2
<1> HIDE DEF v
<1>6. PICK x \in Nat :
         /\ Under(stack, n - 1, t, x) /\ x <= Len(t)
         /\ Reads(t, d, x, Now(ctl) \o Waits(Top, Kind(ctl), Called(ctl)))
  BY <1>3, InsideHigh
<1>7. Reads(t, d, x, <<Bind(s, k)>>)
  <2>1. Waits(Top, Kind(ctl), Called(ctl)) = <<Bind(s, k)>> /\ Now(ctl) = <<>>
    BY <1>1, ReturningFacts DEF Waits
  <2>2. <<>> \o <<Bind(s, k)>> = <<Bind(s, k)>>
    OBVIOUS
  <2> QED
    BY <1>6, <2>1, <2>2, Zenon
<1>8. x = d + 1 /\ t[d + 1] = Bind(s, k)
  BY <1>3, <1>7, ReadsOne
<1>9. d < Len(t)
  BY <1>3, <1>6, <1>8
<1>10. Follows(Pop, [at |-> "return", result |-> Ok(Def(s, v))], t, x)
  <2>1. Def(s, v).type = Top.of
    BY <1>1 DEF Def
  <2> QED
    BY <1>1, <1>3, <1>6, <2>1, ClosedBy
<1>11. Binding(t[d + 1])
  BY <1>2, <1>3, <1>4, <1>5, <1>8 DEF Binding
<1> QED
  BY <1>4, <1>8, <1>9, <1>10, <1>11 DEF Moves, Performs

LEMMA FinishFnMoves ==
    ASSUME NEW t, NEW d, Inside(t, d), FinishFn
    PROVE  Moves(t, d)
<1> DEFINE n == Len(stack)
           v == Fn(Anonymous(fns), Top.args, Result.value)
<1>1. Top.of = "fn" /\ ctl.at = "return" /\ Result.ok /\ Now(ctl) = <<>>
  BY ReturningFacts DEF FinishFn, Returning
<1>2. n > 1 /\ n \in Nat /\ d \in Nat /\ Len(t) \in Nat
  BY <1>1, InsideFacts
<1>3. stack' = Pop /\ env' = env /\ fns' = fns + 1
      /\ ctl' = [at |-> "return", result |-> Ok(v)]
  BY <1>1 DEF FinishFn, MakeFn, Return
<1>4. PICK x \in Nat :
         /\ Under(stack, n - 1, t, x) /\ x <= Len(t)
         /\ Reads(t, d, x, Now(ctl) \o Waits(Top, Kind(ctl), Called(ctl)))
  BY <1>2, InsideHigh
<1>5. Reads(t, d, x, <<Make>>)
  <2>1. Waits(Top, Kind(ctl), Called(ctl)) = <<Make>>
    BY <1>1 DEF Waits
  <2>2. <<>> \o <<Make>> = <<Make>>
    OBVIOUS
  <2> QED
    BY <1>1, <1>4, <2>1, <2>2, Zenon
<1>6. x = d + 1 /\ t[d + 1] = Make
  BY <1>2, <1>5, ReadsOne
<1>7. d < Len(t)
  BY <1>2, <1>4, <1>6
<1>8. v.type = Top.of
  BY <1>1 DEF Fn
<1> HIDE DEF v
<1>9. Follows(Pop, [at |-> "return", result |-> Ok(v)], t, x)
  BY <1>1, <1>2, <1>4, <1>8, ClosedBy
<1> QED
  BY <1>3, <1>6, <1>7, <1>9 DEF Moves, Performs, Making

LEMMA FinishCallMoves ==
    ASSUME NEW t, NEW d, Inside(t, d), FinishCall
    PROVE  Moves(t, d)
<1> DEFINE n == Len(stack)
           v == Call(Top.target, Result.value)
<1>1. Top.of = "call" /\ Top.target # Unresolved /\ ctl.at = "return" /\ Result.ok
      /\ Now(ctl) = <<>>
  BY ReturningFacts DEF FinishCall, Returning
<1>2. n > 1 /\ n \in Nat /\ d \in Nat /\ Len(t) \in Nat
  BY <1>1, InsideFacts
<1>3. stack' = Pop /\ env' = env /\ fns' = fns
      /\ ctl' = [at |-> "return", result |-> Ok(v)]
  BY <1>1 DEF FinishCall, Return
<1>4. PICK x \in Nat :
         /\ Under(stack, n - 1, t, x) /\ x <= Len(t)
         /\ Reads(t, d, x, Now(ctl) \o Waits(Top, Kind(ctl), Called(ctl)))
  BY <1>2, InsideHigh
<1>5. Reads(t, d, x, <<>>)
  <2>1. Waits(Top, Kind(ctl), Called(ctl)) = <<>>
    BY <1>1 DEF Waits
  <2>2. <<>> \o <<>> = <<>>
    OBVIOUS
  <2> QED
    BY <1>1, <1>4, <2>1, <2>2, Zenon
<1>6. x = d
  BY <1>2, <1>5, ReadsNothing
<1>8. v.type = Top.of
  BY <1>1 DEF Call
<1> HIDE DEF v
<1>9. Follows(Pop, [at |-> "return", result |-> Ok(v)], t, x)
  BY <1>1, <1>2, <1>4, <1>8, ClosedBy
<1> QED
  BY <1>3, <1>6, <1>9 DEF Moves, Silent

\* A call of analyze is put on a stack whose frames below do what t has after y.
LEMMA LoopsOn ==
    ASSUME NEW t \in Seq(Events), NEW d \in Nat, NEW st, IsStack(st), st # <<>>,
           Clean(st, [at |-> "loop"]),
           NEW z \in Nat, Under(st, Len(st) - 1, t, z), Len(st) > 1,
           NEW y \in Nat, Reads(t, y, z, Waits(st[Len(st)], "analyze", <<>>)),
           NEW es \in Seq(Forms), Reads(t, d, y, Traces(es))
    PROVE  Follows(Append(st, Loop(es)), [at |-> "loop"], t, d)
<1> DEFINE m == Len(st) - 1
           sv == Append(st, Loop(es))
           c == [at |-> "loop"]
<1>1. Len(st) \in Nat /\ m \in Nat /\ m > 0 /\ m + 1 = Len(st) /\ m + 2 = Len(st) + 1
      /\ m + 1 \in 1..Len(st)
  BY StackFacts
<1>2. /\ Len(sv) = m + 2
      /\ \A i \in 1..m + 1 : sv[i] = st[i]
      /\ sv[m + 2] = Loop(es)
  BY <1>1, AppendFacts
<1>3. Loop(es).of = "analyze" /\ Loop(es).errors = <<>> /\ Loop(es).todo = es
  BY DEF Loop
<1> HIDE DEF sv, m
<1>4. Clean(sv, c)
  <2> SUFFICES ASSUME NEW i \in 2..m + 2, sv[i].of = "analyze" PROVE sv[i].errors = <<>>
    BY <1>2 DEF Clean
  <2>1. CASE i = m + 2
    BY <1>2, <1>3, <2>1
  <2>2. CASE i # m + 2
    <3>1. i \in 2..Len(st) /\ i \in 1..m + 1
      BY <1>1, <2>2
    <3> QED
      BY <1>2, <3>1 DEF Clean
  <2> QED
    BY <2>1, <2>2
<1>5. Under(sv, m, t, z)
  <2>1. \A i \in 1..m : st[i] = sv[i]
    <3>1. \A i \in 1..m : i \in 1..m + 1
      BY <1>1
    <3> QED
      BY <1>2, <3>1
  <2>2. st[m + 1].of = sv[m + 1].of
    BY <1>1, <1>2
  <2>3. Under(st, m, t, z)
    BY DEF m
  <2> QED
    BY <1>1, <2>1, <2>2, <2>3, UnderSame
<1>6. Under(sv, m + 1, t, y)
  <2>1. sv[m + 1] = st[Len(st)] /\ sv[m + 2].of = "analyze"
    BY <1>1, <1>2, <1>3
  <2> QED
    BY <1>1, <1>5, <2>1, UnderNext
<1>7. Now(c) \o Waits(sv[m + 2], Kind(c), Called(c)) = Traces(es)
  <2>1. Now(c) = <<>> /\ Waits(sv[m + 2], Kind(c), Called(c)) = Traces(es)
    BY <1>2, <1>3 DEF Now, Waits
  <2>2. Traces(es) \in Seq(Events)
    BY TracesType
  <2> QED
    BY <2>1, <2>2, NoMore
<1>8. Reads(t, d, y, Now(c) \o Waits(sv[m + 2], Kind(c), Called(c)))
  BY <1>7
<1>9. m + 2 \in Nat /\ m + 2 > 1 /\ (m + 2) - 1 = m + 1
  BY <1>1
<1> HIDE DEF c
<1>10. Follows(sv, c, t, d)
  BY <1>2, <1>4, <1>6, <1>8, <1>9, FollowsHigh
<1> QED
  BY <1>10 DEF sv, c

LEMMA BeginFnMoves ==
    ASSUME NEW t, NEW d, Inside(t, d), BeginFn
    PROVE  Moves(t, d)
<1> DEFINE es == Form.elements
           n == Len(stack)
           fr == [of |-> "fn", args |-> es[2]]
           su == Append(stack, fr)
<1>1. ctl = [at |-> "enter", form |-> Form] /\ Form \in Forms
  BY Entering1 DEF BeginFn
<1>2. Form.type = "list" /\ es # <<>> /\ StartsWith(Form, fn) /\ ~StartsWith(Form, def)
  BY SemanticsAssumption DEF BeginFn, StartsWith, Symbol
<1>3. ~Atom(Form) /\ Target(Form) = <<>> /\ TypeOf(Form) = "fn"
  BY <1>1, <1>2, ListKinds
<1>4. /\ IsStack(stack) /\ stack # <<>> /\ t \in Seq(Events) /\ d \in Nat /\ n \in Nat /\ n > 0
      /\ Len(t) \in Nat /\ Follows(stack, ctl, t, d) /\ Clean(stack, ctl) /\ env' = env
  BY InsideFacts DEF Inside, BeginFn
<1>5. CASE ~FnFits(es)
  <2>1. Trace[Form] = <<Fault>>
    BY <1>1, <1>2, <1>3, <1>5, TraceByKind
  <2>2. d < Len(t) /\ t[d + 1] = Fault
    BY <1>1, <1>3, <2>1, FaultHere
  <2>3. fns' = fns /\ \E r : ctl' = [at |-> "return", result |-> Err(r)]
    <3>1. es \in Seq(Forms)
      BY <1>1, <1>2, FormsAreNodes
    <3>2. Len(es) \in Nat
      BY <3>1, LenProperties
    <3> HIDE DEF es
    <3>3. Len(es) = 2 => Len(es) >= 2
      OBVIOUS
    <3>4. Len(es) > 2 => Len(es) >= 2
      BY <3>2
    <3> QED
      BY <1>5, <3>3, <3>4 DEF BeginFn, FnFits, Return, es
  <2>4. ~Clean(stack', ctl')
    BY <2>3 DEF Clean, Err
  <2> QED
    BY <1>4, <2>2, <2>3, <2>4 DEF Moves, Fails, Wrong
<1>6. CASE FnFits(es)
  <2>1. es \in Seq(Forms) /\ Len(es) \in Nat
    BY <1>1, <1>2, FormsAreNodes, LenProperties
  <2>2. Trace[Form] = Append(Traces(From(es, 3)), Make)
    BY <1>1, <1>2, <1>3, <1>6, TraceByKind
  <2>3. fr.of = TypeOf(Form) /\ fr.of = "fn" /\ Waits(fr, "analyze", <<>>) = <<Make>>
        /\ IsFrame(fr)
    BY <1>3 DEF Waits, IsFrame
  <2> HIDE DEF fr
  <2>4. PICK y \in Nat : Under(su, n, t, y) /\ y <= Len(t) /\ Reads(t, d, y, Trace[Form])
    BY <1>1, <1>3, <1>4, <2>3, Opened
  <2>5. /\ Len(su) = n + 1 /\ \A i \in 1..n : su[i] = stack[i]
        /\ su[n + 1] = fr
    BY <1>4, AppendFacts
  <2>6. IsStack(su) /\ su # <<>>
    <3>1. ~Many(Top)
      BY <1>1, InsideFacts DEF IsCtl, Top
    <3>2. stack # <<>> => (fr.of = "analyze" <=> Many(stack[Len(stack)]))
      BY <2>3, <3>1 DEF Top
    <3> QED
      BY <1>4, <2>3, <3>2, Pushed
  <2>7. Traces(From(es, 3)) \in Seq(Events) /\ From(es, 3) \in Seq(Forms)
    BY <2>1, ElementsAreForms, TracesType
  <2> HIDE DEF su
  <2>8. Clean(su, [at |-> "loop"])
    <3> SUFFICES ASSUME NEW i \in 2..n + 1, su[i].of = "analyze" PROVE su[i].errors = <<>>
      BY <2>5 DEF Clean
    <3>1. i # n + 1
      BY <2>3, <2>5
    <3>2. i \in 1..n /\ i \in 2..n
      BY <1>4, <3>1
    <3> QED
      BY <1>4, <2>5, <3>2 DEF Clean
  <2> HIDE DEF n
  <2>9. (n + 1) - 1 = n /\ n + 1 \in Nat /\ n + 1 > 1
    BY <1>4
  <2>10. CASE Len(es) = 2
    <3> DEFINE v == Fn(Anonymous(fns), es[2], <<>>)
               c == [at |-> "return", result |-> Ok(v)]
    <3>1. stack' = stack /\ fns' = fns + 1 /\ ctl' = c
      BY <1>6, <2>10 DEF BeginFn, FnFits, MakeFn, Return
    <3>2. Traces(From(es, 3)) = <<>>
      <4>1. From(es, 3) = <<>>
        <5> HIDE DEF es
        <5>1. SubSeq(es, 3, 2) = <<>>
          OBVIOUS
        <5> QED
          BY <2>10, <5>1, Zenon DEF From
      <4> QED
        BY <4>1, TracesEmpty, Zenon
    <3>3. Trace[Form] = <<Make>>
      <4>1. Append(<<>>, Make) = <<Make>>
        OBVIOUS
      <4> QED
        BY <2>2, <3>2, <4>1, Zenon
    <3>4. y = d + 1 /\ t[d + 1] = Make
      BY <1>4, <2>4, <3>3, ReadsOne
    <3>5. c.at = "return" /\ c.result.ok /\ Kind(c) = "fn" /\ Called(c) = <<>>
      BY DEF Ok, Kind, Called, CallOf, Fn
    <3> HIDE DEF c
    <3>6. SubSeq(su, 1, n) = stack
      <4>1. /\ SubSeq(su, 1, Len(su) - 1) \in Seq({su[i] : i \in DOMAIN su})
            /\ Len(SubSeq(su, 1, n)) = n
            /\ \A i \in 1..n : SubSeq(su, 1, n)[i] = su[i]
        <5>1. Len(su) - 1 = n
          BY <2>5, <2>9
        <5> QED
          BY <2>6, <5>1, Shorter DEF IsStack
      <4> DEFINE S == {su[i] : i \in DOMAIN su} \cup {stack[i] : i \in DOMAIN stack}
      <4>2. SubSeq(su, 1, n) \in Seq(S) /\ stack \in Seq(S)
        <5>1. SubSeq(su, 1, n) \in Seq({su[i] : i \in DOMAIN su})
          BY <2>5, <2>9, <4>1
        <5> QED
          BY <1>4, <5>1, SeqMonotonic DEF IsStack
      <4> HIDE DEF S
      <4>3. Len(stack) = n
        BY DEF n
      <4> QED
        BY <2>5, <4>1, <4>2, <4>3, SeqEqual
    <3>7. Clean(stack, c)
      BY <1>4, <3>5 DEF Clean
    <3>8. Waits(su[n], Kind(c), Called(c)) = Waits(su[n], su[n + 1].of, <<>>)
      BY <2>3, <2>5, <3>5
    <3>9. n > 1 => Waits(su[n], su[n + 1].of, <<>>) \in Seq(Events)
      <4>1. n \in 1..n
        BY <1>4
      <4>2. IsFrame(su[n])
        BY <1>4, <2>5, <4>1 DEF IsStack, n
      <4>3. su[n + 1].of \in Types
        BY <2>3, <2>5 DEF Types
      <4> QED
        BY <4>2, <4>3, WaitsType, EmptySeq
    <3>10. Follows(SubSeq(su, 1, n), c, t, y)
      <4> DEFINE k == n + 1
      <4>1. k \in Nat /\ Len(su) = k /\ k > 1 /\ k - 1 = n
        BY <2>5, <2>9
      <4> HIDE DEF k
      <4>2. Clean(SubSeq(su, 1, k - 1), c)
        BY <3>6, <3>7, <4>1
      <4>3. su[k - 1] = su[n] /\ su[k] = su[n + 1]
        BY <4>1 DEF k
      <4>4. Waits(su[k - 1], Kind(c), Called(c)) = Waits(su[k - 1], su[k].of, <<>>)
        BY <3>8, <4>3
      <4>5. k - 1 > 1 => Waits(su[k - 1], su[k].of, <<>>) \in Seq(Events)
        BY <3>9, <4>1, <4>3
      <4>6. Under(su, k - 1, t, y)
        BY <2>4, <4>1
      <4>7. Follows(SubSeq(su, 1, k - 1), c, t, y)
        BY <1>4, <2>6, <3>5, <4>1, <4>2, <4>4, <4>5, <4>6, Closed
      <4> QED
        BY <4>1, <4>7
    <3>11. d < Len(t)
      BY <1>4, <2>4, <3>4
    <3>12. Follows(stack', ctl', t, d + 1)
      BY <3>1, <3>4, <3>6, <3>10
    <3> QED
      BY <1>4, <3>1, <3>4, <3>11, <3>12 DEF Moves, Performs, Making
  <2>11. CASE Len(es) # 2
    <3>1. Len(es) > 2 /\ ~(Len(es) < 2)
      <4> DEFINE m == Len(es)
      <4>1. m \in Nat /\ m >= 2 /\ m # 2
        BY <1>6, <2>1, <2>11 DEF FnFits
      <4> HIDE DEF m
      <4>2. m > 2 /\ ~(m < 2)
        BY <4>1
      <4> QED
        BY <4>2 DEF m
    <3>2. stack' = stack \o <<fr, Loop(From(es, 3))>> /\ ctl' = [at |-> "loop"] /\ fns' = fns
      BY <1>6, <2>11, <3>1, Zenon DEF BeginFn, FnFits, fr
    <3>3. stack' = Append(su, Loop(From(es, 3)))
      <4> DEFINE T == {stack[i] : i \in DOMAIN stack} \cup {fr, Loop(From(es, 3))}
      <4>1. stack \in Seq(T) /\ fr \in T /\ Loop(From(es, 3)) \in T
        BY <1>4, SeqMonotonic DEF IsStack
      <4> HIDE DEF T, es
      <4> QED
        BY <3>2, <4>1 DEF su
    <3> DEFINE r == Traces(From(es, 3))
               z == d + Len(r)
    <3>4. z \in Nat /\ Reads(t, d, z, r) /\ Reads(t, z, y, <<Make>>)
      <4>1. r \in Seq(Events) /\ Make \in Events
        BY <2>7, EventsAre
      <4>2. Reads(t, d, y, Append(r, Make))
        BY <2>2, <2>4
      <4> HIDE DEF r
      <4> QED
        BY <1>4, <4>1, <4>2, ReadsThenOne
    <3> HIDE DEF z
    <3>5. Waits(su[Len(su)], "analyze", <<>>) = <<Make>>
      BY <2>3, <2>5
    <3>6. Under(su, Len(su) - 1, t, y) /\ Len(su) > 1
      BY <2>4, <2>5, <2>9
    <3>7. Follows(Append(su, Loop(From(es, 3))), [at |-> "loop"], t, d)
      <4> HIDE DEF es
      <4> QED
        BY <1>4, <2>4, <2>6, <2>7, <2>8, <3>4, <3>5, <3>6, LoopsOn
    <3> QED
      BY <1>4, <3>2, <3>3, <3>7 DEF Moves, Silent
  <2> QED
    BY <2>10, <2>11
<1> QED
  BY <1>5, <1>6

LEMMA ResolveFollows ==
    ASSUME NEW t, NEW d, Inside(t, d), NEW n, n = Len(stack), n > 1,
           Top.of = "call", NEW tt, tt # Unresolved, Resolve(tt),
           NEW x \in Nat, Under(stack, n - 1, t, x),
           NEW z \in Nat, Reads(t, z, x, Traces(Top.rest))
    PROVE  Follows(stack', ctl', t, z)
<1> DEFINE fr == [Top EXCEPT !.target = tt]
           st == [stack EXCEPT ![Len(stack)] = fr]
           c == [at |-> "loop"]
<1>1. /\ IsStack(stack) /\ stack # <<>> /\ IsFrame(Top) /\ Clean(stack, ctl)
      /\ t \in Seq(Events) /\ n \in Nat /\ n \in 1..n /\ Len(stack) = n
  BY InsideFacts
<1>2. Top = [of |-> "call", target |-> Top.target, rest |-> Top.rest]
      /\ Top.rest \in Seq(Forms)
  BY <1>1 DEF IsFrame
<1>3. fr = [of |-> "call", target |-> tt, rest |-> Top.rest]
  BY <1>2
<1>4. IsFrame(fr) /\ fr.of = "call" /\ fr.target # Unresolved
  BY <1>2, <1>3 DEF IsFrame
<1>5. stack' = Append(st, Loop(Top.rest)) /\ ctl' = c
  BY DEF Resolve, Top
<1> HIDE DEF fr
<1>6. fr.of = stack[Len(stack)].of
  BY <1>4 DEF Top
<1>7. IsStack(st) /\ st # <<>>
  BY <1>1, <1>4, <1>6, Replaced
<1>8. /\ Len(st) = n
      /\ \A i \in 1..n : st[i] = IF i = n THEN fr ELSE stack[i]
  BY <1>1, ReplaceFacts
<1> HIDE DEF st
<1>9. st[n] = fr
  BY <1>1, <1>8
<1>10. Clean(st, c)
  <2> SUFFICES ASSUME NEW i \in 2..n, st[i].of = "analyze" PROVE st[i].errors = <<>>
    BY <1>8 DEF Clean
  <2>1. i \in 1..n /\ i # n
    BY <1>4, <1>9
  <2> QED
    BY <1>1, <1>8, <2>1 DEF Clean
<1>11. Under(st, n - 1, t, x)
  <2>1. n - 1 \in Nat /\ n - 1 > 0 /\ (n - 1) + 1 = n /\ \A i \in 1..n - 1 : i \in 1..n /\ i # n
    BY <1>1
  <2>2. \A i \in 1..n - 1 : stack[i] = st[i]
    BY <1>8, <2>1
  <2>3. stack[(n - 1) + 1].of = st[(n - 1) + 1].of
    BY <1>1, <1>6, <1>9, <2>1
  <2> QED
    BY <2>1, <2>2, <2>3, UnderSame
<1>12. Reads(t, x, x, Waits(st[Len(st)], "analyze", <<>>))
  <2>1. Waits(fr, "analyze", <<>>) = <<>>
    BY <1>4 DEF Waits
  <2> QED
    BY <1>8, <1>9, <2>1, ReadsNothing
<1>13. Follows(Append(st, Loop(Top.rest)), [at |-> "loop"], t, z)
  <2>1. Len(st) > 1 /\ Under(st, Len(st) - 1, t, x)
    BY <1>8, <1>11
  <2> QED
    BY <1>1, <1>2, <1>7, <1>10, <1>12, <2>1, LoopsOn
<1> QED
  BY <1>5, <1>13

LEMMA ResolveCallMoves ==
    ASSUME NEW t, NEW d, Inside(t, d), ResolveCall
    PROVE  Moves(t, d)
<1> DEFINE n == Len(stack)
           v == Result.value
           rest == Traces(Top.rest)
<1>1. Top.of = "call" /\ Top.target = Unresolved /\ ctl.at = "return" /\ ~Many(Top)
      /\ env' = env /\ fns' = fns
  BY DEF ResolveCall, Returning, Many
<1>2. Result.ok /\ IsExpr(v) /\ v.type \in Types
  BY <1>1, GivenValue
<1>3. n > 1 /\ n \in Nat /\ d \in Nat /\ Len(t) \in Nat /\ t \in Seq(Events) /\ IsFrame(Top)
  BY <1>1, InsideFacts
<1>4. PICK x \in Nat :
         /\ Under(stack, n - 1, t, x) /\ x <= Len(t)
         /\ Reads(t, d, x, Now(ctl) \o Waits(Top, Kind(ctl), Called(ctl)))
  BY <1>3, InsideHigh
<1>5. rest \in Seq(Events)
  BY <1>1, <1>3, TracesType DEF IsFrame
<1>6. CallOf(v) \in Seq(Events)
  <2>1. <<>> \in Seq(Events) /\ <<Fault>> \in Seq(Events)
    BY EventsAre, Single, EmptySeq
  <2>2. v.type = "symbol" => <<Use(v.name)>> \in Seq(Events)
    BY <1>2, NodesByType, EventsAre, Single
  <2> QED
    BY <2>1, <2>2 DEF CallOf
<1>7. Reads(t, d, x, CallOf(v) \o rest)
  <2>1. Waits(Top, Kind(ctl), Called(ctl)) = CallOf(v) \o rest /\ Now(ctl) = <<>>
    BY <1>1, ReturningFacts DEF Waits
  <2>2. CallOf(v) \o rest \in Seq(Events)
    BY <1>5, <1>6, ConcatProperties
  <2>3. <<>> \o (CallOf(v) \o rest) = CallOf(v) \o rest
    BY <2>2, NoMore
  <2> QED
    BY <1>4, <2>1, <2>3, Zenon
<1> DEFINE z == d + Len(CallOf(v))
<1>8. z \in Nat /\ Reads(t, d, z, CallOf(v)) /\ Reads(t, z, x, rest)
  <2> HIDE DEF v
  <2> QED
    BY <1>3, <1>5, <1>6, <1>7, ReadsBoth
<1> HIDE DEF z
<1>9. z <= Len(t)
  <2>1. x = z + Len(rest) /\ Len(rest) \in Nat
    BY <1>5, <1>8, LenProperties DEF Reads
  <2> QED
    BY <1>3, <1>4, <1>8, <2>1
<1>10. ASSUME NEW ev, CallOf(v) = <<ev>> PROVE z = d + 1 /\ t[d + 1] = ev /\ d < Len(t)
  <2>1. z = d + 1 /\ t[d + 1] = ev
    BY <1>3, <1>8, <1>10, ReadsOne
  <2> QED
    BY <1>3, <1>9, <2>1
<1>11. ASSUME NEW r, Refuse(r) PROVE ~Clean(stack', ctl')
  BY <1>11 DEF Refuse, Return, Clean, Err
<1>12. CASE v.type = "symbol"
  <2>1. v.name \in Syms /\ CallOf(v) = <<Use(v.name)>>
    BY <1>2, <1>12, NodesByType DEF CallOf
  <2>2. z = d + 1 /\ t[d + 1] = Use(v.name) /\ d < Len(t)
    BY <1>10, <2>1
  <2>3. CASE env[v.name] = Unbound
    <3>1. Refuse(<<"CantResolveSymbol">>)
      BY <1>2, <1>12, <2>3 DEF ResolveCall, Lookup
    <3>2. ~Clean(stack', ctl')
      BY <1>11, <3>1
    <3> QED
      BY <1>1, <2>1, <2>2, <2>3, <3>2 DEF Moves, Fails, Wrong
  <2>4. CASE env[v.name] # Unbound
    <3>1. Resolve(env[v.name])
      BY <1>2, <1>12, <2>4 DEF ResolveCall, Lookup
    <3>2. IsExpr(env[v.name])
      BY <2>1, <2>4 DEF Inside, IInv, DataInv, IsEnv
    <3>3. env[v.name] # Unresolved
      BY <3>2, NodesByType
    <3>4. Follows(stack', ctl', t, z)
      BY <1>1, <1>3, <1>4, <1>8, <3>1, <3>3, ResolveFollows
    <3>5. Uses(t[d + 1])
      BY <1>1, <2>1, <2>2, <2>4 DEF Uses
    <3> QED
      BY <2>2, <3>4, <3>5 DEF Moves, Performs
  <2> QED
    BY <2>3, <2>4
<1>13. CASE v.type \in {"number", "list"}
  <2>1. CallOf(v) = <<Fault>>
    BY <1>13 DEF CallOf
  <2>2. t[d + 1] = Fault /\ d < Len(t)
    BY <1>10, <2>1
  <2>3. Refuse(<<"DontKnowHowToCallNode">>)
    BY <1>2, <1>13 DEF ResolveCall
  <2>4. ~Clean(stack', ctl')
    BY <1>11, <2>3
  <2> QED
    BY <1>1, <2>2, <2>4 DEF Moves, Fails, Wrong
<1>14. CASE v.type \in {"def", "call", "fn"}
  <2>1. CallOf(v) = <<>>
    BY <1>14 DEF CallOf
  <2>2. z = d
    BY <1>3, <1>8, <2>1, ReadsNothing
  <2>3. Resolve(v)
    BY <1>2, <1>14 DEF ResolveCall
  <2>4. v # Unresolved
    BY <1>2, NodesByType
  <2>5. Follows(stack', ctl', t, z)
    BY <1>1, <1>3, <1>4, <1>8, <2>3, <2>4, ResolveFollows
  <2> QED
    BY <1>1, <2>2, <2>5 DEF Moves, Silent
<1> QED
  BY <1>2, <1>12, <1>13, <1>14 DEF Types

\* The frame on top is changed to another of analyze.
LEMMA LoopChanged ==
    ASSUME NEW t, NEW d, Inside(t, d), NEW n, n = Len(stack), n > 1, Top.of = "analyze",
           NEW fr, fr.of = "analyze", fr.errors = Top.errors,
           NEW c, c.at # "return",
           Traces(Top.todo) = Now(c) \o Traces(fr.todo), Now(ctl) = <<>>,
           Traces(Top.todo) \in Seq(Events)
    PROVE  Follows([stack EXCEPT ![Len(stack)] = fr], c, t, d)
<1> DEFINE st == [stack EXCEPT ![Len(stack)] = fr]
<1>1. /\ IsStack(stack) /\ stack # <<>> /\ Clean(stack, ctl)
      /\ t \in Seq(Events) /\ n \in Nat /\ n \in 1..n /\ Len(stack) = n /\ Top = stack[n]
  BY InsideFacts DEF Top
<1>2. /\ Len(st) = n
      /\ \A i \in 1..n : st[i] = IF i = n THEN fr ELSE stack[i]
  BY <1>1, ReplaceFacts
<1> HIDE DEF st
<1>3. st[n] = fr
  BY <1>1, <1>2
<1>4. Clean(st, c)
  <2> SUFFICES ASSUME NEW i \in 2..n, st[i].of = "analyze" PROVE st[i].errors = <<>>
    BY <1>2 DEF Clean
  <2>1. CASE i = n
    <3>1. n \in 2..Len(stack)
      BY <1>1
    <3>2. Top.errors = <<>>
      BY <1>1, <3>1 DEF Clean
    <3> QED
      BY <1>3, <2>1, <3>2
  <2>2. CASE i # n
    <3>1. i \in 1..n
      BY <1>1
    <3> QED
      BY <1>1, <1>2, <2>2, <3>1 DEF Clean
  <2> QED
    BY <2>1, <2>2
<1>5. PICK x \in Nat :
         /\ Under(stack, n - 1, t, x)
         /\ Reads(t, d, x, Now(ctl) \o Waits(Top, Kind(ctl), Called(ctl)))
  BY InsideHigh
<1>6. Reads(t, d, x, Traces(Top.todo))
  <2>1. Waits(Top, Kind(ctl), Called(ctl)) = Traces(Top.todo)
    BY DEF Waits
  <2>2. <<>> \o Traces(Top.todo) = Traces(Top.todo)
    BY NoMore
  <2> QED
    BY <1>5, <2>1, <2>2, Zenon
<1>7. Under(st, n - 1, t, x)
  <2>1. n - 1 \in Nat /\ n - 1 > 0 /\ (n - 1) + 1 = n /\ \A i \in 1..n - 1 : i \in 1..n /\ i # n
    BY <1>1
  <2>2. \A i \in 1..n - 1 : stack[i] = st[i]
    BY <1>2, <2>1
  <2>3. stack[(n - 1) + 1].of = st[(n - 1) + 1].of
    BY <1>1, <1>3, <2>1
  <2> QED
    BY <1>5, <2>1, <2>2, <2>3, UnderSame
<1>8. Reads(t, d, x, Now(c) \o Waits(st[n], Kind(c), Called(c)))
  <2>1. Waits(st[n], Kind(c), Called(c)) = Traces(fr.todo)
    BY <1>3 DEF Waits
  <2> QED
    BY <1>6, <2>1
<1>9. Follows(st, c, t, d)
  BY <1>1, <1>2, <1>4, <1>7, <1>8, FollowsHigh
<1> QED
  BY <1>9 DEF st

LEMMA AnalyzeResultMoves ==
    ASSUME NEW t, NEW d, Inside(t, d), AnalyzeResult, Len(stack) > 1
    PROVE  Moves(t, d)
<1> DEFINE fr == [Top EXCEPT !.ast = Append(Top.ast, Result.value)]
           c == [at |-> "loop"]
<1>1. /\ Top.of = "analyze" /\ ctl.at = "return" /\ IsFrame(Top) /\ Result.ok
      /\ Now(ctl) = <<>>
  BY InsideFacts, ReturningFacts DEF AnalyzeResult, Returning
<1>2. stack' = [stack EXCEPT ![Len(stack)] = fr] /\ ctl' = c /\ env' = env /\ fns' = fns
  BY <1>1 DEF AnalyzeResult, Top
<1>3. Top = [of |-> "analyze", todo |-> Top.todo, ast |-> Top.ast, errors |-> Top.errors]
      /\ Top.todo \in Seq(Forms)
  BY <1>1 DEF IsFrame
<1>4. fr.of = "analyze" /\ fr.errors = Top.errors /\ fr.todo = Top.todo
  BY <1>3
<1>5. c.at # "return" /\ Now(c) = <<>>
  BY DEF Now
<1> HIDE DEF fr, c
<1>6. Traces(Top.todo) \in Seq(Events)
  BY <1>3, TracesType
<1>7. Traces(Top.todo) = Now(c) \o Traces(fr.todo)
  BY <1>4, <1>5, <1>6, NoMore
<1>8. Follows([stack EXCEPT ![Len(stack)] = fr], c, t, d)
  BY <1>1, <1>4, <1>5, <1>6, <1>7, LoopChanged
<1> QED
  BY <1>2, <1>8 DEF Moves, Silent

LEMMA AnalyzeNextMoves ==
    ASSUME NEW t, NEW d, Inside(t, d), AnalyzeNext, Len(stack) > 1
    PROVE  Moves(t, d)
<1> DEFINE n == Len(stack)
<1>0. ctl = [at |-> "loop"] /\ Top.of = "analyze"
  BY InsideFacts DEF AnalyzeNext, IsCtl, Top
<1>1. /\ IsStack(stack) /\ stack # <<>> /\ Clean(stack, ctl) /\ IsFrame(Top)
      /\ t \in Seq(Events) /\ d \in Nat /\ n \in Nat /\ n > 1
      /\ env' = env /\ fns' = fns /\ Top = stack[n]
  BY InsideFacts DEF AnalyzeNext, Top
<1>2. Top = [of |-> "analyze", todo |-> Top.todo, ast |-> Top.ast, errors |-> Top.errors]
      /\ Top.todo \in Seq(Forms)
  BY <1>0, <1>1 DEF IsFrame
<1>3. Now(ctl) = <<>>
  BY <1>0 DEF Now
<1>4. CASE Top.todo # <<>>
  <2> DEFINE fr == [Top EXCEPT !.todo = Tail(Top.todo)]
             e == Head(Top.todo)
             c == [at |-> "enter", form |-> e]
  <2>1. stack' = [stack EXCEPT ![Len(stack)] = fr] /\ ctl' = c
    BY <1>4 DEF AnalyzeNext, Top, Enter
  <2>2. fr.of = "analyze" /\ fr.errors = Top.errors /\ fr.todo = Tail(Top.todo)
    BY <1>2
  <2>3. c.at # "return" /\ Now(c) = Trace[e]
    BY DEF Now
  <2> HIDE DEF fr, c
  <2>4. Traces(Top.todo) = Now(c) \o Traces(fr.todo)
    BY <1>2, <1>4, <2>2, <2>3, TracesCons
  <2>5. Traces(Top.todo) \in Seq(Events)
    BY <1>2, TracesType
  <2>6. Follows([stack EXCEPT ![Len(stack)] = fr], c, t, d)
    BY <1>0, <1>1, <1>3, <2>2, <2>3, <2>4, <2>5, LoopChanged
  <2> QED
    BY <1>1, <2>1, <2>6 DEF Moves, Silent
<1>5. CASE Top.todo = <<>>
  <2> DEFINE c == [at |-> "return", result |-> Ok(Top.ast)]
  <2>1. Top.errors = <<>>
    <3> HIDE DEF n
    <3>1. n \in 2..n
      BY <1>1
    <3>2. n \in 2..Len(stack)
      BY <3>1 DEF n
    <3> QED
      BY <1>0, <1>1, <3>2 DEF Clean
  <2>2. stack' = Pop /\ ctl' = c
    BY <1>5, <2>1 DEF AnalyzeNext, Return
  <2>3. PICK x \in Nat :
           /\ Under(stack, n - 1, t, x)
           /\ Reads(t, d, x, Now(ctl) \o Waits(Top, Kind(ctl), Called(ctl)))
    BY <1>1, InsideHigh
  <2>4. x = d
    <3>1. Waits(Top, Kind(ctl), Called(ctl)) = <<>>
      BY <1>0, <1>5, TracesEmpty DEF Waits
    <3>2. <<>> \o <<>> = <<>>
      OBVIOUS
    <3>3. Reads(t, d, x, <<>>)
      BY <1>3, <2>3, <3>1, <3>2, Zenon
    <3> QED
      BY <1>1, <3>3, ReadsNothing
  <2>5. c.at = "return" /\ c.result.ok
    BY DEF Ok
  <2> HIDE DEF c, n
  <2>6. n - 1 \in 1..n /\ n \in 1..n /\ n - 1 \in Nat /\ Len(stack) = n
    BY <1>1 DEF n
  <2>7. Many(stack[n - 1]) /\ IsFrame(stack[n - 1])
    BY <1>0, <1>1, <2>6 DEF IsStack
  <2>8. \A k, tg : Waits(stack[n - 1], k, tg) = Waits(stack[n - 1], stack[n].of, <<>>)
    BY <2>7 DEF Waits, Many
  <2>9. Waits(stack[n - 1], stack[n].of, <<>>) \in Seq(Events)
    <3>1. stack[n - 1].of # "def"
      BY <2>7 DEF Many
    <3> QED
      BY <2>7, <3>1, WaitsType, EmptySeq
  <2>10. Clean(SubSeq(stack, 1, n - 1), c)
    <3>1. /\ Len(SubSeq(stack, 1, n - 1)) = n - 1
          /\ \A i \in 1..n - 1 : SubSeq(stack, 1, n - 1)[i] = stack[i]
      BY <1>1, <2>6, PopFacts
    <3> QED
      BY <1>1, <2>5, <2>6, <3>1 DEF Clean
  <2>11. Under(stack, n - 1, t, d)
    BY <2>3, <2>4
  <2>12. Follows(SubSeq(stack, 1, n - 1), c, t, d)
    BY <1>1, <2>5, <2>6, <2>8, <2>9, <2>10, <2>11, Closed
  <2>13. stack' = SubSeq(stack, 1, n - 1)
    BY <2>2, <2>6 DEF Pop
  <2> QED
    BY <1>1, <2>2, <2>12, <2>13 DEF Moves, Silent
<1> QED
  BY <1>4, <1>5

\* A step within a form goes on in its trace, or fails where it goes wrong.
LEMMA StepMoves ==
    ASSUME NEW t, NEW d, Inside(t, d), Next
    PROVE  Moves(t, d)
<1>1. ASSUME AnalyzeNext \/ AnalyzeResult PROVE Len(stack) > 1
  BY <1>1 DEF Inside, AnalyzeNext, AnalyzeResult, Returning
<1> QED
  BY <1>1, AtomMoves, BeginDefMoves, BeginCallMoves, FinishDefMoves, FinishFnMoves,
     FinishCallMoves, BeginFnMoves, ResolveCallMoves, AnalyzeResultMoves,
     AnalyzeNextMoves DEF Next

\* A failure says what it is.
ErrorsSaid == ctl.at = "return" /\ ~ctl.result.ok => ctl.result.errors # <<>>

LEMMA SomeError ==
    ASSUME NEW e
    PROVE  <<e>> # <<>>
OBVIOUS

LEMMA ErrorsSaidKept == IInv /\ ErrorsSaid /\ Next => ErrorsSaid'
<1> SUFFICES ASSUME IInv, ErrorsSaid, Next, ctl'.at = "return", ~ctl'.result.ok
             PROVE  ctl'.result.errors # <<>>
  BY DEF ErrorsSaid
<1>1. ASSUME NEW e, ctl' = [at |-> "return", result |-> Err(<<e>>)]
      PROVE  ctl'.result.errors # <<>>
  BY <1>1, SomeError DEF Err
<1>2. ASSUME NEW v, ctl' = [at |-> "return", result |-> Ok(v)]
      PROVE  FALSE
  BY <1>2 DEF Ok
<1>3. ASSUME ctl.at = "return", ctl' = [at |-> "return", result |-> Result]
      PROVE  ctl'.result.errors # <<>>
  BY <1>3 DEF ErrorsSaid, Result
<1>4. CASE AnalyzeNext
  <2>1. ctl' = [at |-> "return",
                result |-> IF Top.errors = <<>> THEN Ok(Top.ast) ELSE Err(Top.errors)]
    BY <1>4 DEF AnalyzeNext, Return, Enter
  <2>2. Top.errors # <<>>
    BY <1>2, <2>1
  <2> QED
    BY <2>1, <2>2 DEF Err
<1>5. CASE AnalyzeResult
  BY <1>5 DEF AnalyzeResult
<1>6. CASE AnalyzeAtom
  BY <1>2, <1>6 DEF AnalyzeAtom, Return
<1>7. CASE BeginDef
  BY <1>1, <1>7 DEF BeginDef, Return, Enter
<1>8. CASE FinishDef
  BY <1>2, <1>3, <1>8 DEF FinishDef, Returning, Return
<1>9. CASE BeginFn
  BY <1>1, <1>2, <1>9 DEF BeginFn, MakeFn, Return
<1>10. CASE FinishFn
  BY <1>2, <1>3, <1>10 DEF FinishFn, Returning, MakeFn, Return
<1>11. CASE BeginCall
  BY <1>11 DEF BeginCall, Enter
<1>12. CASE ResolveCall
  <2>1. CASE ~Result.ok /\ Refuse(Result.errors)
    <3>1. ctl' = [at |-> "return", result |-> Err(Result.errors)] /\ ctl.at = "return"
      BY <1>12, <2>1 DEF Refuse, Return, ResolveCall, Returning
    <3> QED
      BY <2>1, <3>1 DEF ErrorsSaid, Result, Err
  <2>2. CASE \E e : Refuse(<<e>>)
    BY <1>1, <2>2 DEF Refuse, Return
  <2>3. CASE \E v : Resolve(v)
    BY <2>3 DEF Resolve
  <2> QED
    BY <1>12, <2>1, <2>2, <2>3 DEF ResolveCall
<1>13. CASE FinishCall
  BY <1>2, <1>3, <1>13 DEF FinishCall, Returning, Return
<1> QED
  BY <1>4, <1>5, <1>6, <1>7, <1>8, <1>9, <1>10, <1>11, <1>12, <1>13 DEF Next

\* What is on the stack when two frames have been put on it, or a call goes on.
LEMMA TwoFrames ==
    ASSUME IsStack(stack), NEW a, NEW b, stack' = stack \o <<a, b>>
    PROVE  /\ Len(stack') = Len(stack) + 2
           /\ \A i \in 1..Len(stack) : stack'[i] = stack[i]
<1> DEFINE S == {stack[i] : i \in DOMAIN stack} \cup {a, b}
<1>1. stack \in Seq(S) /\ <<a, b>> \in Seq(S) /\ Len(<<a, b>>) = 2 /\ Len(stack) \in Nat
  <2>1. stack \in Seq(S) /\ Len(stack) \in Nat
    BY SeqMonotonic, StackFacts DEF IsStack
  <2>2. a \in S /\ b \in S
    OBVIOUS
  <2> HIDE DEF S
  <2> QED
    BY <2>1, <2>2
<1> HIDE DEF S
<1>2. /\ Len(stack \o <<a, b>>) = Len(stack) + 2
      /\ \A i \in 1..Len(stack) + 2 :
            (stack \o <<a, b>>)[i] = IF i <= Len(stack) THEN stack[i]
                                     ELSE <<a, b>>[i - Len(stack)]
  BY <1>1, ConcatProperties
<1> DEFINE n == Len(stack)
<1>3. n \in Nat
  BY <1>1
<1> HIDE DEF n
<1>4. \A i \in 1..n : i \in 1..n + 2 /\ i <= n
  BY <1>3
<1> QED
  BY <1>2, <1>4 DEF n

\* Fn::make that goes on, and Call::make that does.
LEMMA LoopOfFn ==
    ASSUME BeginFn, ctl'.at = "loop"
    PROVE  \E a, b : stack' = stack \o <<a, b>>
<1>1. ~\E r : ctl' = [at |-> "return", result |-> r]
  OBVIOUS
<1>2. ~\E e : Return(Err(<<e>>))
  BY <1>1, Zenon DEF Return
<1>3. ~MakeFn(Form.elements[2], <<>>)
  BY <1>1, Zenon DEF MakeFn, Return
<1> QED
  BY <1>2, <1>3, Zenon DEF BeginFn

LEMMA CallGoesOn ==
    ASSUME IInv, ResolveCall, NEW tt, Resolve(tt), stack # <<>>
    PROVE  /\ Len(stack') = Len(stack) + 1
           /\ \A i \in 1..Len(stack) - 1 : stack'[i] = stack[i]
<1> DEFINE n == Len(stack)
           fr == [Top EXCEPT !.target = tt]
           st == [stack EXCEPT ![Len(stack)] = fr]
<1>0. IsStack(stack) /\ n \in Nat /\ n > 0 /\ \A i \in 1..n - 1 : i \in 1..n /\ i # n
  <2>1. IsStack(stack) /\ n \in Nat /\ n \in 1..n
    BY StackFacts DEF IInv, ControlInv
  <2> HIDE DEF n
  <2> QED
    BY <2>1
<1>1. stack' = Append(st, Loop(Top.rest))
  BY DEF Resolve, Top
<1>2. Len(st) = n /\ \A i \in 1..n - 1 : st[i] = stack[i]
  BY <1>0, ReplaceFacts
<1>3. IsStack(st)
  <2>1. IsFrame(Top) /\ Top.of = "call"
    BY <1>0, StackFacts DEF Top, ResolveCall, Returning
  <2>2. Top = [of |-> "call", target |-> Top.target, rest |-> Top.rest]
        /\ Top.rest \in Seq(Forms)
    BY <2>1 DEF IsFrame
  <2>3. fr = [of |-> "call", target |-> tt, rest |-> Top.rest]
    BY <2>2
  <2>4. IsFrame(fr) /\ fr.of = "call"
    BY <2>2, <2>3 DEF IsFrame
  <2> HIDE DEF fr
  <2>5. fr.of = stack[Len(stack)].of
    BY <2>1, <2>4 DEF Top
  <2> QED
    BY <1>0, <2>4, <2>5, Replaced
<1> HIDE DEF st, n
<1>4. Len(stack') = n + 1 /\ \A i \in 1..n : stack'[i] = st[i]
  BY <1>1, <1>2, <1>3, AppendFacts
<1>5. \A i \in 1..n - 1 : stack'[i] = stack[i]
  BY <1>0, <1>2, <1>4
<1> QED
  BY <1>4, <1>5 DEF n

\* A step is about the top of the stack.
LEMMA FramesKept ==
    ASSUME IInv, Next, stack # <<>>, NEW n, n = Len(stack)
    PROVE  /\ n \in Nat /\ n > 0 /\ Len(stack') \in Nat /\ Len(stack') >= n - 1
           /\ \A i \in 1..n - 1 : stack'[i] = stack[i]
           /\ Top.of = "analyze" /\ ~AnalyzeNext /\ ~AnalyzeResult =>
                Len(stack') >= n /\ stack'[n] = stack[n]
<1>1. IsStack(stack) /\ n \in Nat /\ n \in 1..n /\ n > 0 /\ Len(stack) = n
  <2>1. IsStack(stack) /\ n \in Nat /\ n \in 1..n
    BY StackFacts DEF IInv, ControlInv
  <2> QED
    BY <2>1
<1>2. \A i \in 1..n - 1 : i \in 1..n /\ i # n
  BY <1>1
<1>3. CASE stack' = stack
  BY <1>1, <1>2, <1>3
<1>4. ASSUME NEW fr, stack' = Append(stack, fr)
      PROVE  Len(stack') = n + 1 /\ \A i \in 1..n : stack'[i] = stack[i]
  BY <1>1, <1>4, AppendFacts
<1>5. ASSUME stack' = Pop PROVE Len(stack') = n - 1 /\ \A i \in 1..n - 1 : stack'[i] = stack[i]
  BY <1>1, <1>5, PopFacts DEF Pop
<1>6. ASSUME NEW fr, stack' = [stack EXCEPT ![Len(stack)] = fr]
      PROVE  Len(stack') = n /\ \A i \in 1..n - 1 : stack'[i] = stack[i]
  BY <1>1, <1>2, <1>6, ReplaceFacts
<1>7. CASE AnalyzeNext
  <2>1. stack' = [stack EXCEPT ![Len(stack)] = [Top EXCEPT !.todo = Tail(@)]] \/ stack' = Pop
    BY <1>7 DEF AnalyzeNext, Top
  <2> QED
    BY <1>1, <1>5, <1>6, <1>7, <2>1
<1>8. CASE AnalyzeResult
  <2>1. \E fr : stack' = [stack EXCEPT ![Len(stack)] = fr]
    <3>1. stack' = [stack EXCEPT ![Len(stack)] =
                      IF Result.ok THEN [Top EXCEPT !.ast = Append(Top.ast, Result.value)]
                      ELSE [Top EXCEPT !.errors = Top.errors \o Result.errors]]
      BY <1>8 DEF AnalyzeResult, Top
    <3> QED
      BY <3>1
  <2> QED
    BY <1>1, <1>6, <1>8, <2>1
<1>9. CASE FinishDef \/ FinishFn \/ FinishCall
  <2>1. stack' = Pop /\ Top.of # "analyze"
    BY <1>9 DEF FinishDef, FinishFn, FinishCall, Returning
  <2> QED
    BY <1>1, <1>5, <2>1
<1>10. CASE AnalyzeAtom
  BY <1>3, <1>10 DEF AnalyzeAtom
<1>11. CASE BeginDef
  <2>1. stack' = stack \/ \E fr : stack' = Append(stack, fr)
    BY <1>11 DEF BeginDef
  <2>2. CASE \E fr : stack' = Append(stack, fr)
    <3>1. Len(stack') = n + 1 /\ \A i \in 1..n : stack'[i] = stack[i]
      BY <1>4, <2>2
    <3> QED
      BY <1>1, <1>2, <3>1
  <2> QED
    BY <1>3, <2>1, <2>2
<1>12. CASE BeginCall
  <2>1. \E fr : stack' = Append(stack, fr)
    BY <1>12 DEF BeginCall
  <2>2. Len(stack') = n + 1 /\ \A i \in 1..n : stack'[i] = stack[i]
    BY <1>4, <2>1
  <2> QED
    BY <1>1, <1>2, <2>2
<1>13. CASE BeginFn
  <2>1. stack' = stack \/ \E a, b : stack' = stack \o <<a, b>>
    BY <1>13 DEF BeginFn
  <2>2. ASSUME NEW a, NEW b, stack' = stack \o <<a, b>>
        PROVE  Len(stack') = n + 2 /\ \A i \in 1..n : stack'[i] = stack[i]
    BY <1>1, <2>2, TwoFrames
  <2>3. CASE \E a, b : stack' = stack \o <<a, b>>
    <3>1. Len(stack') = n + 2 /\ \A i \in 1..n : stack'[i] = stack[i]
      BY <2>2, <2>3
    <3> QED
      BY <1>1, <1>2, <3>1
  <2> QED
    BY <1>3, <2>1, <2>3
<1>14. CASE ResolveCall
  <2>0. Top.of # "analyze"
    BY <1>14 DEF ResolveCall, Returning
  <2>1. stack' = Pop \/ \E tt : Resolve(tt)
    BY <1>14 DEF ResolveCall, Refuse
  <2>2. ASSUME NEW tt, Resolve(tt)
        PROVE  Len(stack') = n + 1 /\ \A i \in 1..n - 1 : stack'[i] = stack[i]
    BY <1>1, <1>14, <2>2, CallGoesOn
  <2> QED
    BY <1>1, <1>5, <2>0, <2>1, <2>2
<1> QED
  BY <1>7, <1>8, <1>9, <1>10, <1>11, <1>12, <1>13, <1>14 DEF Next

\* An error is not forgotten before the form is done.
LEMMA DoomKept ==
    ASSUME IInv, ErrorsSaid, Next, stack # <<>>, Len(stack) > 1, ~Clean(stack, ctl)
    PROVE  ~Clean(stack', ctl')
<1> DEFINE n == Len(stack)
<1>1. /\ IsStack(stack) /\ n \in Nat /\ n > 1 /\ Len(stack') \in Nat /\ Len(stack') >= n - 1
      /\ \A i \in 1..n - 1 : stack'[i] = stack[i]
      /\ Top.of = "analyze" /\ ~AnalyzeNext /\ ~AnalyzeResult =>
                Len(stack') >= n /\ stack'[n] = stack[n]
  BY FramesKept DEF IInv, ControlInv
<1>2. Top = stack[n]
  BY DEF Top
<1>3. ASSUME ctl'.at = "return", ~ctl'.result.ok PROVE ~Clean(stack', ctl')
  BY <1>3 DEF Clean
<1>4. ASSUME NEW i \in 2..Len(stack'), stack'[i].of = "analyze", stack'[i].errors # <<>>
      PROVE  ~Clean(stack', ctl')
  BY <1>4 DEF Clean
<1>5. ASSUME AnalyzeResult,
             Top.errors # <<>> \/ ~Result.ok
      PROVE  ~Clean(stack', ctl')
  <2> DEFINE fr == IF Result.ok THEN [Top EXCEPT !.ast = Append(Top.ast, Result.value)]
                   ELSE [Top EXCEPT !.errors = Top.errors \o Result.errors]
  <2>1. stack' = [stack EXCEPT ![Len(stack)] = fr]
    BY <1>5 DEF AnalyzeResult, Top
  <2>2. IsFrame(Top) /\ Top.of = "analyze" /\ IsResult(Result, stack) /\ ctl.at = "return"
    BY <1>5, StackFacts DEF IInv, ControlInv, IsCtl, AnalyzeResult, Returning, Top, Result
  <2>3. Top = [of |-> "analyze", todo |-> Top.todo, ast |-> Top.ast, errors |-> Top.errors]
        /\ Top.errors \in Seq(Errors)
    BY <2>2 DEF IsFrame
  <2>4. fr.of = "analyze" /\ fr.errors = IF Result.ok THEN Top.errors
                                         ELSE Top.errors \o Result.errors
    BY <2>3
  <2> HIDE DEF fr
  <2>5. fr.errors # <<>>
    <3>1. CASE Result.ok
      BY <1>5, <2>4, <3>1
    <3>2. CASE ~Result.ok
      <4>1. Result.errors \in Seq(Errors) /\ Result.errors # <<>>
        BY <2>2, <3>2 DEF IsResult, ErrorsSaid, Result
      <4>2. Top.errors \o Result.errors # <<>>
        BY <2>3, <4>1
      <4> QED
        BY <2>4, <3>2, <4>2
    <3> QED
      BY <3>1, <3>2
  <2>6. Len(stack') = n /\ stack'[n] = fr
    <3>1. \A i \in 1..Len(stack) : stack'[i] = IF i = Len(stack) THEN fr ELSE stack[i]
      BY <1>1, <2>1, ReplaceFacts
    <3>2. Len(stack') = Len(stack)
      BY <1>1, <2>1, ReplaceFacts
    <3>3. n \in 1..n
      <4> HIDE DEF n
      <4> QED
        BY <1>1
    <3> QED
      BY <3>1, <3>2, <3>3
  <2> HIDE DEF n
  <2>7. n \in 2..Len(stack')
    BY <1>1, <2>6
  <2> QED
    BY <1>4, <2>4, <2>5, <2>6, <2>7
<1>6. ASSUME AnalyzeNext, Top.errors # <<>> PROVE ~Clean(stack', ctl')
  <2>0. Top.of = "analyze" /\ IsFrame(Top)
    BY <1>1, <1>6, StackFacts DEF IInv, ControlInv, IsCtl, AnalyzeNext, Top
  <2>1. CASE Top.todo = <<>>
    <3>1. ctl' = [at |-> "return", result |-> Err(Top.errors)]
      BY <1>6, <2>1 DEF AnalyzeNext, Return
    <3> QED
      BY <1>3, <3>1 DEF Err
  <2>2. CASE Top.todo # <<>>
    <3> DEFINE fr == [Top EXCEPT !.todo = Tail(Top.todo)]
    <3>1. stack' = [stack EXCEPT ![Len(stack)] = fr]
      BY <1>6, <2>2 DEF AnalyzeNext, Top
    <3>2. Top = [of |-> "analyze", todo |-> Top.todo, ast |-> Top.ast, errors |-> Top.errors]
      BY <2>0 DEF IsFrame
    <3>3. fr.of = "analyze" /\ fr.errors = Top.errors
      BY <3>2
    <3> HIDE DEF fr
    <3>4. Len(stack') = n /\ \A i \in 1..n : stack'[i] = IF i = n THEN fr ELSE stack[i]
      BY <1>1, <3>1, ReplaceFacts
    <3> HIDE DEF n
    <3>5. n \in 2..Len(stack') /\ stack'[n] = fr
      BY <1>1, <3>4
    <3> QED
      BY <1>4, <1>6, <3>3, <3>5
  <2> QED
    BY <2>1, <2>2
<1> HIDE DEF n
<1>7. CASE ctl.at = "return" /\ ~Result.ok
  <2>1. CASE AnalyzeResult
    BY <1>5, <1>7, <2>1
  <2>2. CASE FinishDef \/ FinishFn \/ FinishCall
    <3>1. ctl' = [at |-> "return", result |-> Result]
      BY <1>7, <2>2 DEF FinishDef, FinishFn, FinishCall, Return
    <3> QED
      BY <1>3, <1>7, <3>1
  <2>3. CASE ResolveCall
    <3>1. ctl' = [at |-> "return", result |-> Err(Result.errors)]
      BY <1>7, <2>3 DEF ResolveCall, Refuse, Return
    <3> QED
      BY <1>3, <3>1 DEF Err
  <2>4. ~AnalyzeNext /\ ~AnalyzeAtom /\ ~BeginDef /\ ~BeginFn /\ ~BeginCall
    BY <1>7 DEF AnalyzeNext, AnalyzeAtom, BeginDef, BeginFn, BeginCall, Entering
  <2> QED
    BY <2>1, <2>2, <2>3, <2>4 DEF Next
<1>8. ASSUME NEW i \in 2..Len(stack), stack[i].of = "analyze", stack[i].errors # <<>>
      PROVE  ~Clean(stack', ctl')
  <2>0. i \in 2..n
    BY DEF n
  <2>1. CASE i # n
    <3>1. i \in 1..n - 1 /\ i \in 2..Len(stack')
      BY <1>1, <2>0, <2>1
    <3> QED
      BY <1>1, <1>4, <1>8, <3>1
  <2>2. CASE i = n
    <3>1. Top.of = "analyze" /\ Top.errors # <<>>
      BY <1>2, <1>8, <2>2
    <3>2. CASE ~AnalyzeNext /\ ~AnalyzeResult
      <4>1. Len(stack') >= n /\ stack'[n] = stack[n]
        BY <1>1, <3>1, <3>2
      <4>2. n \in 2..Len(stack')
        BY <1>1, <4>1
      <4> QED
        BY <1>4, <1>8, <2>2, <4>1, <4>2
    <3> QED
      BY <1>5, <1>6, <3>1, <3>2
  <2> QED
    BY <2>1, <2>2
<1>9. (ctl.at = "return" /\ ~Result.ok)
        \/ \E i \in 2..Len(stack) : stack[i].of = "analyze" /\ stack[i].errors # <<>>
  BY DEF Clean, Result
<1> QED
  BY <1>7, <1>8, <1>9

\* Within a form the call of analyze for the program is left alone.
LEMMA BottomKept ==
    ASSUME IInv, Next, stack # <<>>, stack[1].of = "analyze",
           Len(stack) > 1 \/ ctl.at = "enter"
    PROVE  /\ Len(stack') \in Nat /\ Len(stack') > 0 /\ stack'[1] = stack[1]
           /\ ~(Len(stack') = 1 /\ ctl'.at = "loop")
<1> DEFINE n == Len(stack)
<1>1. /\ IsStack(stack) /\ n \in Nat /\ n > 0 /\ Len(stack') \in Nat /\ Len(stack') >= n - 1
      /\ \A i \in 1..n - 1 : stack'[i] = stack[i]
      /\ Top.of = "analyze" /\ ~AnalyzeNext /\ ~AnalyzeResult =>
                Len(stack') >= n /\ stack'[n] = stack[n]
  BY FramesKept DEF IInv, ControlInv
<1>2. n = 1 => Top.of = "analyze" /\ Top = stack[1] /\ ctl.at = "enter"
  BY DEF Top
<1>3. ctl.at = "enter" => ~AnalyzeNext /\ ~AnalyzeResult
  BY DEF AnalyzeNext, AnalyzeResult, Returning
<1>5. CASE n = 1
  <2>1. Len(stack') >= 1 /\ stack'[1] = stack[1]
    BY <1>1, <1>2, <1>3, <1>5
  <2>2. ctl'.at = "loop" => Len(stack') # 1
    <3> SUFFICES ASSUME ctl'.at = "loop" PROVE Len(stack') # 1
      OBVIOUS
    <3>1. BeginFn
      <4>1. ~AnalyzeNext /\ ~AnalyzeResult /\ ~FinishDef /\ ~FinishFn /\ ~FinishCall
            /\ ~ResolveCall
        BY <1>2, <1>5 DEF AnalyzeNext, AnalyzeResult, FinishDef, FinishFn, FinishCall,
           ResolveCall, Returning
      <4>2. ~AnalyzeAtom /\ ~BeginDef /\ ~BeginCall
        BY DEF AnalyzeAtom, BeginDef, BeginCall, Return, Enter
      <4> QED
        BY <4>1, <4>2 DEF Next
    <3>2. \E a, b : stack' = stack \o <<a, b>>
      BY <3>1, LoopOfFn
    <3>3. PICK a, b : stack' = stack \o <<a, b>>
      BY <3>2
    <3>5. Len(stack') = Len(stack) + 2
      BY <1>1, <3>3, TwoFrames
    <3> QED
      BY <1>5, <3>5
  <2> QED
    BY <1>1, <2>1, <2>2
<1>6. CASE n # 1
  <2>1. stack'[1] = stack[1] /\ Len(stack') > 0
    <3> HIDE DEF n
    <3>1. 1 \in 1..n - 1 /\ n - 1 > 0
      BY <1>1, <1>6
    <3> QED
      BY <1>1, <3>1
  <2>2. ctl'.at = "loop" => Len(stack') # 1
    <3> SUFFICES ASSUME ctl'.at = "loop" PROVE Len(stack') # 1
      OBVIOUS
    <3>1. CASE AnalyzeResult
      <4>1. Len(stack') = Len(stack)
        <5>1. stack' = [stack EXCEPT ![Len(stack)] =
                          IF Result.ok THEN [Top EXCEPT !.ast = Append(Top.ast, Result.value)]
                          ELSE [Top EXCEPT !.errors = Top.errors \o Result.errors]]
          BY <3>1 DEF AnalyzeResult, Top
        <5> QED
          BY <1>1, <5>1, ReplaceFacts
      <4> QED
        BY <1>6, <4>1
    <3>2. CASE BeginFn
      <4>1. PICK a, b : stack' = stack \o <<a, b>>
        BY <3>2, LoopOfFn
      <4>3. Len(stack') = n + 2
        BY <1>1, <4>1, TwoFrames
      <4> QED
        BY <1>1, <4>3
    <3>3. CASE ResolveCall
      <4>1. PICK tt : Resolve(tt)
        BY <3>3 DEF ResolveCall, Refuse, Return
      <4>2. Len(stack') = n + 1
        BY <3>3, <4>1, CallGoesOn
      <4> QED
        BY <1>1, <4>2
    <3> QED
      BY <3>1, <3>2, <3>3 DEF Next, AnalyzeNext, AnalyzeAtom, BeginDef, FinishDef, FinishFn,
         BeginCall, FinishCall, Enter, Return, MakeFn
  <2> QED
    BY <1>1, <2>1, <2>2
<1> QED
  BY <1>5, <1>6

-----------------------------------------------------------------------------
(* What a trace does to the environment.                                   *)

\* Every symbol that u binds is bound; the functions that u makes; a symbol is
\* bound as u, after what b had bound, leaves it; u has been done, to the last
\* event.
BoundBy(u, e) == \A s \in Syms : Binds(u, s) # {} => e[s] # Unbound

Makes(u) == {i \in DOMAIN u : u[i].does = "make"}

BoundAs(u, b, e, s) ==
    IF Binds(u, s) = {} THEN e[s] # Unbound <=> s \in b
    ELSE e[s] # Unbound /\ e[s].type = u[Max(Binds(u, s))].type

Effects(u, b, e, f) ==
    /\ RightTrace(u, b)
    /\ \A s \in Syms : BoundAs(u, b, e, s)
    /\ f = Cardinality(Makes(u))

\* The last of some positions.
LEMMA MaxIs ==
    ASSUME NEW n \in Nat, NEW S, S \subseteq 1..n, S # {}
    PROVE  Max(S) \in S /\ \A y \in S : Max(S) >= y
<1> DEFINE T == {m \in Nat : \A y \in S : m >= y}
<1>1. n \in T
  OBVIOUS
<1>2. T \subseteq Nat
  OBVIOUS
<1>3. PICK m \in T : \A k \in T : m <= k
  BY <1>1, <1>2, Least
<1>4. m \in S
  <2> SUFFICES ASSUME m \notin S PROVE FALSE
    OBVIOUS
  <2>1. m \in Nat /\ \A y \in S : m >= y /\ y \in Nat /\ y > 0 /\ y # m
    BY <1>3
  <2>2. PICK z \in S : TRUE
    OBVIOUS
  <2>2a. m > 0
    BY <2>1, <2>2
  <2>2b. m - 1 \in Nat
    BY <2>1, <2>2a
  <2>2c. ASSUME NEW y \in S PROVE m - 1 >= y
    BY <2>1
  <2>3. m - 1 \in T /\ ~(m <= m - 1)
    BY <2>1, <2>2b, <2>2c
  <2> QED
    BY <1>3, <2>3
<1>5. \E x \in S : \A y \in S : x >= y
  BY <1>3, <1>4
<1> QED
  BY <1>5 DEF Max

LEMMA MaxUnique ==
    ASSUME NEW n \in Nat, NEW S, S \subseteq 1..n, NEW x \in S, \A y \in S : x >= y
    PROVE  Max(S) = x
<1>1. Max(S) \in S /\ \A y \in S : Max(S) >= y
  BY MaxIs
<1> DEFINE m == Max(S)
<1>2. m \in S /\ \A y \in S : m >= y
  BY <1>1
<1> HIDE DEF m
<1>3. m \in Nat /\ x \in Nat /\ x >= m /\ m >= x
  BY <1>2
<1>4. m = x
  BY <1>3
<1> QED
  BY <1>4 DEF m

\* One event more.
LEMMA BindsIn ==
    ASSUME NEW u \in Seq(Events), NEW s
    PROVE  Binds(u, s) \subseteq 1..Len(u) /\ Len(u) \in Nat
BY LenProperties DEF Binds

LEMMA AppendTrace ==
    ASSUME NEW u \in Seq(Events), NEW ev \in Events
    PROVE  /\ Append(u, ev) \in Seq(Events) /\ Len(u) \in Nat /\ DOMAIN u = 1..Len(u)
           /\ Len(Append(u, ev)) = Len(u) + 1
           /\ DOMAIN Append(u, ev) = 1..Len(u) \cup {Len(u) + 1}
           /\ Len(u) + 1 \notin 1..Len(u)
           /\ \A i \in 1..Len(u) : Append(u, ev)[i] = u[i]
           /\ Append(u, ev)[Len(u) + 1] = ev
<1> DEFINE n == Len(u)
<1>1. n \in Nat /\ DOMAIN u = 1..n
  BY LenProperties
<1>2. /\ Append(u, ev) \in Seq(Events) /\ Len(Append(u, ev)) = n + 1
      /\ \A i \in 1..n : Append(u, ev)[i] = u[i]
      /\ Append(u, ev)[n + 1] = ev
  BY AppendProperties
<1>3. DOMAIN Append(u, ev) = 1..n + 1
  BY <1>2, LenProperties
<1> HIDE DEF n
<1>4. 1..n + 1 = 1..n \cup {n + 1} /\ n + 1 \notin 1..n
  BY <1>1
<1> QED
  BY <1>1, <1>2, <1>3, <1>4 DEF n

LEMMA BindsAppend ==
    ASSUME NEW u \in Seq(Events), NEW ev \in Events, NEW s
    PROVE  Binds(Append(u, ev), s) =
             Binds(u, s) \cup (IF ev.does = "bind" /\ ev.sym = s THEN {Len(u) + 1} ELSE {})
<1> DEFINE t == Append(u, ev)
           n == Len(u)
<1>1. /\ DOMAIN u = 1..n /\ DOMAIN t = 1..n \cup {n + 1}
      /\ n + 1 \notin 1..n
      /\ \A i \in 1..n : t[i] = u[i]
      /\ t[n + 1] = ev
  BY AppendTrace
<1> HIDE DEF t, n
<1>2. Binds(t, s) = Binds(u, s) \cup (IF ev.does = "bind" /\ ev.sym = s THEN {n + 1} ELSE {})
  BY <1>1 DEF Binds
<1> QED
  BY <1>2 DEF t, n

LEMMA MakesAppend ==
    ASSUME NEW u \in Seq(Events), NEW ev \in Events
    PROVE  Makes(Append(u, ev)) = Makes(u) \cup (IF ev.does = "make" THEN {Len(u) + 1} ELSE {})
<1> DEFINE t == Append(u, ev)
           n == Len(u)
<1>1. /\ DOMAIN u = 1..n /\ DOMAIN t = 1..n \cup {n + 1}
      /\ n + 1 \notin 1..n
      /\ \A i \in 1..n : t[i] = u[i]
      /\ t[n + 1] = ev
  BY AppendTrace
<1> HIDE DEF t, n
<1>2. Makes(t) = Makes(u) \cup (IF ev.does = "make" THEN {n + 1} ELSE {})
  BY <1>1 DEF Makes
<1> QED
  BY <1>2 DEF t, n

LEMMA RightAppend ==
    ASSUME NEW u \in Seq(Events), NEW ev \in Events, NEW b, RightTrace(u, b),
           ev.does # "fault",
           ev.does = "use" => ev.sym \in b \/ Binds(u, ev.sym) # {}
    PROVE  RightTrace(Append(u, ev), b)
<1> DEFINE t == Append(u, ev)
           n == Len(u)
<1>1. /\ DOMAIN u = 1..n /\ DOMAIN t = 1..n \cup {n + 1} /\ n \in Nat
      /\ \A i \in 1..n : t[i] = u[i]
      /\ t[n + 1] = ev
  BY AppendTrace
<1>2. \A s : Binds(u, s) \subseteq Binds(t, s) /\ Binds(u, s) \subseteq 1..n
  BY BindsAppend, BindsIn
<1> HIDE DEF t, n
<1>3. ASSUME NEW i \in 1..n
      PROVE  /\ t[i].does # "fault"
             /\ t[i].does = "use" => t[i].sym \in b \/ \E j \in Binds(t, t[i].sym) : j < i
  <2>1. /\ u[i].does # "fault"
        /\ u[i].does = "use" => u[i].sym \in b \/ \E j \in Binds(u, u[i].sym) : j < i
    BY <1>1 DEF RightTrace
  <2> QED
    BY <1>1, <1>2, <2>1
<1>4. t[n + 1].does = "use" =>
        t[n + 1].sym \in b \/ \E j \in Binds(t, t[n + 1].sym) : j < n + 1
  BY <1>1, <1>2
<1>5. \A i \in DOMAIN t :
        /\ t[i].does # "fault"
        /\ t[i].does = "use" => t[i].sym \in b \/ \E j \in Binds(t, t[i].sym) : j < i
  BY <1>1, <1>3, <1>4
<1> QED
  BY <1>5 DEF RightTrace, t

LEMMA MakesFinite ==
    ASSUME NEW u \in Seq(Events)
    PROVE  IsFiniteSet(Makes(u)) /\ Cardinality(Makes(u)) \in Nat /\ Len(u) + 1 \notin Makes(u)
<1> DEFINE n == Len(u)
<1>1. n \in Nat /\ DOMAIN u = 1..n
  BY LenProperties
<1> HIDE DEF n
<1>2. Makes(u) \subseteq 1..n /\ n + 1 \notin 1..n
  BY <1>1 DEF Makes
<1>3. IsFiniteSet(1..n)
  BY <1>1, FS_Interval
<1>4. IsFiniteSet(Makes(u))
  BY <1>2, <1>3, FS_Subset
<1>5. Cardinality(Makes(u)) \in Nat
  BY <1>4, FS_CardinalityType
<1> QED
  BY <1>2, <1>4, <1>5 DEF n

LEMMA EventFields ==
    /\ \A s : Use(s).does = "use" /\ Use(s).sym = s
    /\ \A s, k : Bind(s, k).does = "bind" /\ Bind(s, k).sym = s /\ Bind(s, k).type = k
    /\ Make.does = "make" /\ Fault.does = "fault"
BY DEF Use, Bind, Make, Fault

\* An event that binds nothing leaves what is bound as it was.
LEMMA SameBinding ==
    ASSUME NEW u \in Seq(Events), NEW ev \in Events, NEW e, NEW b, NEW s \in Syms,
           ~(ev.does = "bind" /\ ev.sym = s), BoundAs(u, b, e, s)
    PROVE  BoundAs(Append(u, ev), b, e, s)
<1> DEFINE t == Append(u, ev)
<1>1. Binds(t, s) = Binds(u, s)
  <2> DEFINE more == IF ev.does = "bind" /\ ev.sym = s THEN {Len(u) + 1} ELSE {}
  <2>1. Binds(t, s) = Binds(u, s) \cup more
    BY BindsAppend
  <2>2. more = {}
    OBVIOUS
  <2> HIDE DEF more, t
  <2> QED
    BY <2>1, <2>2
<1>2. Binds(u, s) # {} => t[Max(Binds(u, s))] = u[Max(Binds(u, s))]
  <2> SUFFICES ASSUME Binds(u, s) # {} PROVE t[Max(Binds(u, s))] = u[Max(Binds(u, s))]
    OBVIOUS
  <2>1. Max(Binds(u, s)) \in Binds(u, s) /\ Binds(u, s) \subseteq 1..Len(u)
    BY BindsIn, MaxIs
  <2>2. Max(Binds(u, s)) \in 1..Len(u)
    BY <2>1
  <2> QED
    BY <2>2, AppendTrace
<1> HIDE DEF t
<1>3. BoundAs(t, b, e, s)
  BY <1>1, <1>2 DEF BoundAs
<1> QED
  BY <1>3 DEF t

\* Each of the events does what it says.
LEMMA UseEffects ==
    ASSUME NEW u \in Seq(Events), NEW b, NEW e, NEW f, Effects(u, b, e, f),
           NEW s \in Syms, e[s] # Unbound
    PROVE  Effects(Append(u, Use(s)), b, e, f)
<1>1. Use(s) \in Events /\ Use(s).does = "use" /\ Use(s).sym = s
  BY EventsAre, EventFields
<1>2. s \in b \/ Binds(u, s) # {}
  BY DEF Effects, BoundAs
<1>3. RightTrace(Append(u, Use(s)), b)
  BY <1>1, <1>2, RightAppend DEF Effects
<1>4. Makes(Append(u, Use(s))) = Makes(u)
  BY <1>1, MakesAppend
<1>5. \A r \in Syms : BoundAs(Append(u, Use(s)), b, e, r)
  BY <1>1, SameBinding DEF Effects
<1> QED
  BY <1>3, <1>4, <1>5 DEF Effects

LEMMA MakeEffects ==
    ASSUME NEW u \in Seq(Events), NEW b, NEW e, NEW f, Effects(u, b, e, f)
    PROVE  Effects(Append(u, Make), b, e, f + 1)
<1>1. Make \in Events /\ Make.does = "make"
  BY EventsAre, EventFields
<1>2. RightTrace(Append(u, Make), b)
  BY <1>1, RightAppend DEF Effects
<1>3. Cardinality(Makes(Append(u, Make))) = f + 1
  <2>1. Makes(Append(u, Make)) = Makes(u) \cup {Len(u) + 1}
    BY <1>1, MakesAppend
  <2>2. IsFiniteSet(Makes(u)) /\ Len(u) + 1 \notin Makes(u)
    BY MakesFinite
  <2> DEFINE x == Len(u) + 1
  <2> HIDE DEF x
  <2>3. Cardinality(Makes(u) \cup {x}) = Cardinality(Makes(u)) + 1
    BY <2>2, FS_AddElement DEF x
  <2> QED
    BY <2>1, <2>3 DEF Effects, x
<1>4. \A r \in Syms : BoundAs(Append(u, Make), b, e, r)
  BY <1>1, SameBinding DEF Effects
<1> QED
  BY <1>2, <1>3, <1>4 DEF Effects

LEMMA BindEffects ==
    ASSUME NEW u \in Seq(Events), NEW b, NEW e, NEW f, Effects(u, b, e, f), IsEnv(e),
           NEW s \in Syms, NEW k \in Types, NEW v, v.type = k
    PROVE  Effects(Append(u, Bind(s, k)), b, [e EXCEPT ![s] = v], f)
<1> DEFINE ev == Bind(s, k)
           t == Append(u, ev)
           new == [e EXCEPT ![s] = v]
<1>1. ev \in Events /\ ev.does = "bind" /\ ev.sym = s /\ ev.type = k
  BY EventsAre, EventFields
<1> HIDE DEF ev
<1>2. RightTrace(t, b)
  BY <1>1, RightAppend DEF Effects
<1>3. Makes(t) = Makes(u)
  BY <1>1, MakesAppend
<1>4. new[s] = v /\ v # Unbound /\ \A r \in Syms : r # s => new[r] = e[r]
  <2>1. v # Unbound
    BY DEF Types, Unbound
  <2>2. e = [r \in Syms |-> e[r]]
    BY DEF IsEnv
  <2> QED
    BY <2>1, <2>2
<1>5. Binds(t, s) # {} /\ new[s] # Unbound /\ new[s].type = t[Max(Binds(t, s))].type
  <2>1. Binds(t, s) = Binds(u, s) \cup {Len(u) + 1}
    BY <1>1, BindsAppend
  <2>2. Binds(u, s) \subseteq 1..Len(u) /\ Len(u) \in Nat
    BY BindsIn
  <2>3. Max(Binds(t, s)) = Len(u) + 1
    <3> DEFINE n == Len(u)
               S == Binds(t, s)
    <3>0. n \in Nat /\ S \subseteq 1..n \cup {n + 1} /\ n + 1 \in S
      BY <2>1, <2>2
    <3> HIDE DEF n, S
    <3>1. n + 1 \in Nat /\ S \subseteq 1..n + 1 /\ \A y \in S : n + 1 >= y
      BY <3>0
    <3>2. Max(S) = n + 1
      BY <3>0, <3>1, MaxUnique
    <3> QED
      BY <3>2 DEF n, S
  <2>4. t[Len(u) + 1] = ev
    BY <1>1, AppendTrace
  <2> QED
    BY <1>1, <1>4, <2>1, <2>3, <2>4
<1> HIDE DEF t, new
<1>6. ASSUME NEW r \in Syms, r # s
      PROVE  BoundAs(t, b, new, r)
  <2>1. ~(ev.does = "bind" /\ ev.sym = r)
    BY <1>1, <1>6
  <2>2. BoundAs(t, b, e, r)
    BY <1>1, <2>1, SameBinding DEF t, Effects
  <2> QED
    BY <1>4, <1>6, <2>2 DEF BoundAs
<1>7. BoundAs(t, b, new, s)
  BY <1>5 DEF BoundAs
<1>8. Effects(t, b, new, f)
  <2>1. \A r \in Syms : BoundAs(t, b, new, r)
    BY <1>6, <1>7
  <2> QED
    BY <1>2, <1>3, <2>1 DEF Effects
<1> QED
  BY <1>8 DEF t, ev, new

\* The events of a trace that have taken place have bound their symbols.
LEMMA BoundByMore ==
    ASSUME NEW u \in Seq(Events), NEW ev \in Events, NEW e, BoundBy(u, e),
           ev.does = "bind" => e[ev.sym] # Unbound
    PROVE  BoundBy(Append(u, ev), e)
BY BindsAppend DEF BoundBy

-----------------------------------------------------------------------------
\* A trace is not right when, after its beginning u, it has something that is
\* not right then.
LEMMA NotRight ==
    ASSUME NEW t \in Seq(Events), NEW u \in Seq(Events), NEW b,
           Len(u) < Len(t), \A i \in 1..Len(u) : t[i] = u[i],
           NEW ev, ev = t[Len(u) + 1],
           \/ ev = Fault
           \/ \E s \in Syms : ev = Use(s) /\ s \notin b /\ Binds(u, s) = {}
    PROVE  ~RightTrace(t, b)
<1> DEFINE n == Len(u)
<1>1. n \in Nat /\ Len(t) \in Nat /\ DOMAIN t = 1..Len(t) /\ DOMAIN u = 1..n
  BY LenProperties
<1>2. n + 1 \in DOMAIN t /\ \A i \in 1..n : t[i] = u[i]
  BY <1>1
<1> HIDE DEF n
<1> SUFFICES ASSUME RightTrace(t, b) PROVE FALSE
  OBVIOUS
<1>3. /\ ev.does # "fault"
      /\ ev.does = "use" => ev.sym \in b \/ \E j \in Binds(t, ev.sym) : j < n + 1
  BY <1>2 DEF RightTrace, n
<1>4. PICK s \in Syms : ev = Use(s) /\ s \notin b /\ Binds(u, s) = {}
  BY <1>3, EventFields
<1>5. PICK j \in Binds(t, s) : j < n + 1
  BY <1>3, <1>4, EventFields
<1>6. j \in 1..n
  BY <1>1, <1>5 DEF Binds
<1>7. j \in Binds(u, s)
  BY <1>1, <1>2, <1>5, <1>6 DEF Binds
<1> QED
  BY <1>4, <1>7

-----------------------------------------------------------------------------
(* Beginnings of traces                                                    *)

\* The first d elements of t; t starts with r.
Upto(t, d) == SubSeq(t, 1, d)
Begins(r, t) == Len(r) <= Len(t) /\ \A i \in 1..Len(r) : t[i] = r[i]

LEMMA SameSeq ==
    ASSUME NEW S, NEW r \in Seq(S), NEW t \in Seq(S), NEW n \in Nat,
           Len(r) = n, Len(t) = n, \A i \in 1..n : r[i] = t[i]
    PROVE  r = t
BY SeqEqual

\* The beginning of a sequence is one, and it grows at the end.
LEMMA UptoFacts ==
    ASSUME NEW S, NEW t \in Seq(S), NEW d \in Nat, d <= Len(t)
    PROVE  /\ Upto(t, d) \in Seq(S) /\ Len(Upto(t, d)) = d
           /\ \A i \in 1..d : Upto(t, d)[i] = t[i]
<1>1. Len(t) \in Nat /\ \A i \in 1..Len(t) : t[i] \in S
  BY LenProperties, ElementOfSeq
<1>2. \A i \in 1..d : t[i] \in S
  BY <1>1
<1>3. /\ SubSeq(t, 1, d) \in Seq(S)
      /\ Len(SubSeq(t, 1, d)) = IF 1 <= d THEN d - 1 + 1 ELSE 0
      /\ \A i \in 1..(d - 1 + 1) : SubSeq(t, 1, d)[i] = t[1 + i - 1]
  BY <1>2, SubSeqProperties
<1>4. d - 1 + 1 = d /\ (~(1 <= d) => d = 0) /\ \A i \in 1..d : 1 + i - 1 = i
  OBVIOUS
<1>5. Len(SubSeq(t, 1, d)) = d
  BY <1>3, <1>4
<1>6. \A i \in 1..d : SubSeq(t, 1, d)[i] = t[i]
  BY <1>3, <1>4
<1> QED
  BY <1>3, <1>5, <1>6 DEF Upto

LEMMA UptoAll ==
    ASSUME NEW S, NEW t \in Seq(S)
    PROVE  Upto(t, 0) = <<>> /\ Upto(t, Len(t)) = t
<1>1. Len(t) \in Nat
  BY LenProperties
<1>2. Upto(t, 0) \in Seq(S) /\ Len(Upto(t, 0)) = 0
  BY <1>1, UptoFacts
<1>3. /\ Upto(t, Len(t)) \in Seq(S) /\ Len(Upto(t, Len(t))) = Len(t)
      /\ \A i \in 1..Len(t) : Upto(t, Len(t))[i] = t[i]
  BY <1>1, UptoFacts
<1> QED
  BY <1>1, <1>2, <1>3, SameSeq, EmptySeq

LEMMA UptoNext ==
    ASSUME NEW S, NEW t \in Seq(S), NEW d \in Nat, d < Len(t)
    PROVE  /\ t[d + 1] \in S /\ Upto(t, d) \in Seq(S)
           /\ Upto(t, d + 1) = Append(Upto(t, d), t[d + 1])
<1>1. Len(t) \in Nat /\ \A i \in 1..Len(t) : t[i] \in S
  BY LenProperties, ElementOfSeq
<1>2. d <= Len(t) /\ d + 1 <= Len(t) /\ d + 1 \in Nat /\ d + 1 \in 1..Len(t)
  BY <1>1
<1> DEFINE r == Upto(t, d)
           s == Upto(t, d + 1)
           x == t[d + 1]
<1>3. r \in Seq(S) /\ Len(r) = d /\ \A i \in 1..d : r[i] = t[i]
  BY <1>2, UptoFacts
<1>4. s \in Seq(S) /\ Len(s) = d + 1 /\ \A i \in 1..d + 1 : s[i] = t[i]
  BY <1>2, UptoFacts
<1>5. x \in S
  BY <1>1, <1>2
<1> HIDE DEF r, s
<1>6. /\ Append(r, x) \in Seq(S) /\ Len(Append(r, x)) = d + 1
      /\ \A i \in 1..d : Append(r, x)[i] = r[i]
      /\ Append(r, x)[d + 1] = x
  BY <1>3, <1>5, AppendProperties
<1>7. ASSUME NEW i \in 1..d + 1 PROVE s[i] = Append(r, x)[i]
  <2>1. i \in 1..d \/ i = d + 1
    OBVIOUS
  <2> QED
    BY <1>3, <1>4, <1>6, <2>1
<1>8. s = Append(r, x)
  BY <1>2, <1>4, <1>6, <1>7, SameSeq
<1> QED
  BY <1>3, <1>5, <1>8 DEF r, s

\* What is put at the end of the second is put at the end of both.
LEMMA CatAppend ==
    ASSUME NEW S, NEW a \in Seq(S), NEW r \in Seq(S), NEW x \in S
    PROVE  a \o Append(r, x) = Append(a \o r, x)
<1>1. /\ <<x>> \in Seq(S) /\ Append(r, x) = r \o <<x>> /\ a \o r \in Seq(S)
      /\ Append(a \o r, x) = (a \o r) \o <<x>>
  BY ConcatProperties
<1>2. Cat(Cat(a, r), <<x>>) = Cat(a, Cat(r, <<x>>))
  <2> DEFINE one == <<x>>
  <2>1. one \in Seq(S)
    BY <1>1
  <2> HIDE DEF one
  <2>2. Cat(Cat(a, r), one) = Cat(a, Cat(r, one))
    BY <2>1, CatAssociative
  <2> QED
    BY <2>2 DEF one
<1> QED
  BY <1>1, <1>2 DEF Cat

\* One event more of t, after a.
LEMMA CatUpto ==
    ASSUME NEW S, NEW a \in Seq(S), NEW t \in Seq(S), NEW d \in Nat, d < Len(t)
    PROVE  /\ a \o Upto(t, d) \in Seq(S) /\ t[d + 1] \in S
           /\ a \o Upto(t, d + 1) = Append(a \o Upto(t, d), t[d + 1])
<1>1. t[d + 1] \in S /\ Upto(t, d) \in Seq(S)
      /\ Upto(t, d + 1) = Append(Upto(t, d), t[d + 1])
  BY UptoNext
<1>2. a \o Upto(t, d) \in Seq(S)
  BY <1>1, ConcatProperties
<1>3. a \o Append(Upto(t, d), t[d + 1]) = Append(a \o Upto(t, d), t[d + 1])
  BY <1>1, CatAppend
<1> QED
  BY <1>1, <1>2, <1>3

LEMMA CatFacts ==
    ASSUME NEW S, NEW a \in Seq(S), NEW r \in Seq(S), NEW m, m = Len(a), NEW n, n = Len(r)
    PROVE  /\ m \in Nat /\ n \in Nat /\ Len(a \o r) = m + n
           /\ \A i \in 1..m + n : (a \o r)[i] = IF i <= m THEN a[i] ELSE r[i - m]
BY LenProperties, ConcatProperties

LEMMA CatNothing ==
    ASSUME NEW S, NEW a \in Seq(S)
    PROVE  a \o <<>> = a
BY ConcatEmptySeq

\* A sequence starts with what it was made of, and with what that starts with.
LEMMA BeginsCat ==
    ASSUME NEW S, NEW a \in Seq(S), NEW r \in Seq(S)
    PROVE  Begins(a, a \o r)
<1> DEFINE m == Len(a)
           n == Len(r)
           both == a \o r
<1>1. m \in Nat /\ n \in Nat
  BY LenProperties
<1>2. Len(both) = m + n /\ \A i \in 1..m + n : both[i] = IF i <= m THEN a[i] ELSE r[i - m]
  BY ConcatProperties
<1> HIDE DEF m, n, both
<1>3. \A i \in 1..m : i \in 1..m + n /\ i <= m
  BY <1>1
<1>4. m <= Len(both)
  BY <1>1, <1>2
<1>5. \A i \in 1..m : both[i] = a[i]
  BY <1>2, <1>3
<1> QED
  BY <1>4, <1>5 DEF Begins, m, both

LEMMA BeginsTransitive ==
    ASSUME NEW S, NEW a \in Seq(S), NEW r \in Seq(S), NEW t \in Seq(S),
           Begins(a, r), Begins(r, t)
    PROVE  Begins(a, t)
<1>1. Len(a) \in Nat /\ Len(r) \in Nat /\ Len(t) \in Nat
  BY LenProperties
<1>2. Len(a) <= Len(r) /\ Len(r) <= Len(t)
  BY DEF Begins
<1>3. \A i \in 1..Len(a) : i \in 1..Len(r)
  BY <1>1, <1>2
<1>4. \A i \in 1..Len(a) : t[i] = a[i]
  BY <1>3 DEF Begins
<1>5. Len(a) <= Len(t)
  BY <1>1, <1>2
<1> QED
  BY <1>4, <1>5 DEF Begins

\* With one event less on both sides.
LEMMA BeginsRest ==
    ASSUME NEW S, NEW a \in Seq(S), NEW t \in Seq(S), NEW d \in Nat, d < Len(t)
    PROVE  Begins(Append(a \o Upto(t, d), t[d + 1]), a \o t)
<1> DEFINE m == Len(a)
           n == Len(t)
           both == a \o t
           part == Upto(t, d + 1)
<1>1. n \in Nat /\ m \in Nat /\ d + 1 \in Nat /\ d < n
  BY LenProperties
<1>2. part \in Seq(S) /\ Len(part) = d + 1 /\ \A i \in 1..d + 1 : part[i] = t[i]
  <2>1. d + 1 \in Nat /\ d + 1 <= Len(t)
    BY <1>1
  <2> QED
    BY <2>1, UptoFacts
<1> HIDE DEF part, m
<1>3. /\ Len(a \o part) = m + (d + 1)
      /\ \A i \in 1..m + (d + 1) : (a \o part)[i] = IF i <= m THEN a[i] ELSE part[i - m]
  <2> DEFINE k == d + 1
  <2>1. m = Len(a) /\ k = Len(part) /\ part \in Seq(S)
    BY <1>2 DEF m
  <2> HIDE DEF k
  <2>2. /\ Len(a \o part) = m + k
        /\ \A i \in 1..m + k : (a \o part)[i] = IF i <= m THEN a[i] ELSE part[i - m]
    BY <2>1, CatFacts
  <2> QED
    BY <2>2 DEF k
<1> HIDE DEF n
<1>4. Len(both) = m + n /\ \A i \in 1..m + n : both[i] = IF i <= m THEN a[i] ELSE t[i - m]
  <2>1. m = Len(a) /\ n = Len(t)
    BY DEF m, n
  <2>2. Len(a \o t) = m + n /\ \A i \in 1..m + n : (a \o t)[i] = IF i <= m THEN a[i] ELSE t[i - m]
    BY <2>1, CatFacts
  <2> QED
    BY <2>2
<1> HIDE DEF both
<1>5. ASSUME NEW i \in 1..m + (d + 1)
      PROVE  both[i] = (a \o part)[i]
  <2>1. i \in 1..m + n /\ (~(i <= m) => i - m \in 1..d + 1)
    BY <1>1
  <2>2. both[i] = IF i <= m THEN a[i] ELSE t[i - m]
    BY <1>4, <2>1
  <2>3. (a \o part)[i] = IF i <= m THEN a[i] ELSE part[i - m]
    BY <1>3
  <2> QED
    BY <1>2, <2>1, <2>2, <2>3
<1>6. m + (d + 1) <= Len(both)
  BY <1>1, <1>4
<1>7. Begins(a \o part, both)
  BY <1>3, <1>5, <1>6 DEF Begins
<1>8. a \o part = Append(a \o Upto(t, d), t[d + 1])
  BY CatUpto DEF part
<1> QED
  BY <1>7, <1>8 DEF both

-----------------------------------------------------------------------------
\* What the first m forms of a program do.
Before(p, m) == Traces(Upto(p, m))

\* Form by form.
LEMMA BeforeFacts ==
    ASSUME NEW p \in Seq(Forms), NEW m \in Nat, m <= Len(p)
    PROVE  Before(p, m) \in Seq(Events)
BY UptoFacts, TracesType DEF Before

LEMMA BeforeEnds ==
    ASSUME NEW p \in Seq(Forms)
    PROVE  Before(p, 0) = <<>> /\ Before(p, Len(p)) = Traces(p)
BY UptoAll, TracesEmpty DEF Before

LEMMA BeforeNext ==
    ASSUME NEW p \in Seq(Forms), NEW m \in Nat, m < Len(p)
    PROVE  Before(p, m + 1) = Before(p, m) \o Trace[p[m + 1]]
BY UptoNext, TracesAppend DEF Before

LEMMA BeforeBegins ==
    ASSUME NEW p \in Seq(Forms), NEW m \in Nat, m <= Len(p)
    PROVE  Begins(Before(p, m), Traces(p))
<1> DEFINE n == Len(p)
           T == {k \in Nat : k <= n /\ ~Begins(Before(p, n - k), Traces(p))}
<1>1. n \in Nat /\ \A i \in 1..n : p[i] \in Forms
  BY LenProperties, ElementOfSeq
<1>2. Before(p, n) = Traces(p) /\ Traces(p) \in Seq(Events)
  BY BeforeEnds, TracesType
<1>3. T = {}
  <2> SUFFICES ASSUME T # {} PROVE FALSE
    OBVIOUS
  <2>1. T \subseteq Nat
    OBVIOUS
  <2>2. PICK k \in T : \A y \in T : k <= y
    BY <2>1, Least
  <2>3. k \in Nat /\ k <= n /\ ~Begins(Before(p, n - k), Traces(p))
    BY <2>2
  <2>4. k # 0
    <3> SUFFICES ASSUME k = 0 PROVE FALSE
      OBVIOUS
    <3>1. Before(p, n - k) = Traces(p)
      <4>1. n - k = n
        BY <1>1
      <4> QED
        BY <1>2, <4>1
    <3>2. Len(Traces(p)) \in Nat
      BY <1>2, LenProperties
    <3> QED
      BY <2>3, <3>1, <3>2 DEF Begins
  <2> DEFINE j == n - k
  <2>5. /\ k - 1 \in Nat /\ k - 1 <= n /\ n - (k - 1) = j + 1 /\ ~(k <= k - 1)
        /\ j \in Nat /\ j < n /\ j + 1 \in Nat /\ j + 1 <= n /\ j + 1 \in 1..n /\ j <= n
    <3> HIDE DEF n
    <3> QED
      BY <1>1, <2>3, <2>4
  <2>6. k - 1 \notin T
    BY <2>2, <2>5
  <2>7. Begins(Before(p, j + 1), Traces(p))
    BY <2>5, <2>6
  <2> HIDE DEF T
  <2>8. Before(p, j + 1) = Before(p, j) \o Trace[p[j + 1]]
    BY <2>5, BeforeNext
  <2>9. Before(p, j) \in Seq(Events) /\ Trace[p[j + 1]] \in Seq(Events)
        /\ Before(p, j + 1) \in Seq(Events)
    BY <1>1, <2>5, BeforeFacts, TraceType
  <2>10. Begins(Before(p, j), Before(p, j + 1))
    BY <2>8, <2>9, BeginsCat
  <2>11. Begins(Before(p, j), Traces(p))
    BY <1>2, <2>7, <2>9, <2>10, BeginsTransitive
  <2> QED
    BY <2>3, <2>11
<1> HIDE DEF n
<1>4. n - m \in Nat /\ n - m <= n /\ n - (n - m) = m
  BY <1>1 DEF n
<1> QED
  BY <1>3, <1>4

\* A program is not right when one of its forms has something that is not right
\* after what is before it.
LEMMA WrongInProgram ==
    ASSUME NEW p \in Seq(Forms), NEW m \in Nat, m < Len(p), NEW t, t = Trace[p[m + 1]],
           NEW d \in Nat, d < Len(t), NEW u, u = Before(p, m) \o Upto(t, d), NEW b,
           \/ t[d + 1] = Fault
           \/ \E s \in Syms : t[d + 1] = Use(s) /\ s \notin b /\ Binds(u, s) = {}
    PROVE  ~IsRight(p, b)
<1> DEFINE a == Before(p, m)
           ev == t[d + 1]
           all == Traces(p)
<1>1. m <= Len(p) /\ m + 1 \in 1..Len(p) /\ m + 1 \in Nat /\ m + 1 <= Len(p)
  BY LenProperties
<1>2. /\ a \in Seq(Events) /\ t \in Seq(Events) /\ all \in Seq(Events)
      /\ Before(p, m + 1) \in Seq(Events)
  BY <1>1, BeforeFacts, TraceType, TracesType, ElementOfSeq
<1>3. u \in Seq(Events) /\ ev \in Events
  BY <1>2, CatUpto
<1>4. Begins(Append(u, ev), a \o t)
  BY <1>2, BeginsRest
<1>5. a \o t = Before(p, m + 1)
  BY BeforeNext
<1>6. Begins(Before(p, m + 1), all)
  BY <1>1, BeforeBegins
<1>7. Append(u, ev) \in Seq(Events) /\ Len(Append(u, ev)) = Len(u) + 1
      /\ \A i \in 1..Len(u) : Append(u, ev)[i] = u[i]
      /\ Append(u, ev)[Len(u) + 1] = ev /\ Len(u) \in Nat
  BY <1>3, AppendTrace
<1> HIDE DEF a, all, ev
<1>8. Begins(Append(u, ev), all)
  <2> DEFINE w == Append(u, ev)
             v == Before(p, m + 1)
  <2>1. w \in Seq(Events) /\ v \in Seq(Events) /\ Begins(w, v) /\ Begins(v, all)
    BY <1>2, <1>4, <1>5, <1>6, <1>7
  <2> HIDE DEF w, v
  <2>2. Begins(w, all)
    BY <1>2, <2>1, BeginsTransitive
  <2> QED
    BY <2>2 DEF w
<1>9. Len(u) < Len(all) /\ ev = all[Len(u) + 1] /\ \A i \in 1..Len(u) : all[i] = u[i]
  <2> DEFINE n == Len(u)
             w == Append(u, ev)
  <2>1. Len(w) = n + 1 /\ Len(all) \in Nat /\ n \in Nat /\ n + 1 <= Len(all)
        /\ \A i \in 1..n + 1 : all[i] = w[i]
    <3>1. Len(w) = n + 1 /\ n \in Nat
      BY <1>7
    <3>2. Len(all) \in Nat
      BY <1>2, LenProperties
    <3>3. Len(w) <= Len(all) /\ \A i \in 1..Len(w) : all[i] = w[i]
      BY <1>8 DEF Begins
    <3> HIDE DEF n, w
    <3> QED
      BY <3>1, <3>2, <3>3
  <2>2. w[n + 1] = ev /\ \A i \in 1..n : w[i] = u[i]
    BY <1>7
  <2> HIDE DEF n, w
  <2>3. n < Len(all) /\ n + 1 \in 1..n + 1 /\ \A i \in 1..n : i \in 1..n + 1
    BY <2>1
  <2>4. n < Len(all) /\ ev = all[n + 1] /\ \A i \in 1..n : all[i] = u[i]
    BY <2>1, <2>2, <2>3
  <2> QED
    BY <2>4 DEF n
<1>10. ev = Fault \/ \E s \in Syms : ev = Use(s) /\ s \notin b /\ Binds(u, s) = {}
  BY DEF ev
<1>11. ~RightTrace(all, b)
  BY <1>2, <1>3, <1>9, <1>10, NotRight
<1> QED
  BY <1>11 DEF IsRight, all

\* Nor is the form.
LEMMA WrongInForm ==
    ASSUME NEW t \in Seq(Events), NEW d \in Nat, d < Len(t), NEW b,
           \/ t[d + 1] = Fault
           \/ \E s \in Syms : t[d + 1] = Use(s) /\ s \notin b /\ Binds(Upto(t, d), s) = {}
    PROVE  ~RightTrace(t, b)
<1> DEFINE u == Upto(t, d)
           ev == t[d + 1]
<1>1. Len(t) \in Nat /\ d <= Len(t)
  BY LenProperties
<1>2. u \in Seq(Events) /\ Len(u) = d /\ \A i \in 1..d : u[i] = t[i]
  BY <1>1, UptoFacts
<1>3. ev = Fault \/ \E s \in Syms : ev = Use(s) /\ s \notin b /\ Binds(u, s) = {}
  OBVIOUS
<1> HIDE DEF u
<1> QED
  BY <1>2, <1>3, NotRight

-----------------------------------------------------------------------------
(* The invariant: what has been done so far is what the text says.         *)

\* Of the first m forms, those that are right by themselves have bound their
\* symbols, and those that cannot be right have an error each.
SoundOnesBound(p, m, b, e) ==
    \A j \in 1..m : RightTrace(Trace[p[j]], b) => BoundBy(Trace[p[j]], e)
FaultyOnes(p, m) == {j \in 1..m : ~RightTrace(Trace[p[j]], Syms)}
FaultyOnesTold(p, m, errors) == Len(errors) >= Cardinality(FaultyOnes(p, m))

\* What is left of a program after its first m forms.
Rest(p, todo, m) ==
    /\ Len(todo) + m = Len(p)
    /\ \A i \in 1..Len(todo) : todo[i] = p[m + i]

\* The form after the first m is being analysed: d events of it have taken place,
\* or an error has been met where it is not right.
FormInv(m) ==
    LET t == Trace[program[m + 1]]
    IN  \/ /\ ~Clean(stack, ctl)
           /\ ~RightTrace(t, before) /\ ~IsRight(program, before)
        \/ \E d \in 0..Len(t) :
              /\ Follows(stack, ctl, t, d)
              /\ \A i \in 1..d : t[i].does # "fault"
              /\ BoundBy(Upto(t, d), env)
              /\ stack[1].errors = <<>> =>
                    Effects(Before(program, m) \o Upto(t, d), before, env, fns)

\* The first m forms have been analysed.
RunInv(m) ==
    /\ stack[1].of = "analyze"
    /\ SoundOnesBound(program, m, before, env)
    /\ FaultyOnesTold(program, m, stack[1].errors)
    /\ stack[1].errors # <<>> => ~IsRight(program, before)
    /\ IF Len(stack) = 1 /\ ctl.at = "loop"
       THEN /\ Rest(program, stack[1].todo, m)
            /\ stack[1].errors = <<>> => Effects(Before(program, m), before, env, fns)
       ELSE /\ Rest(program, stack[1].todo, m + 1)
            /\ FormInv(m)

\* The analysis is over.
EndInv ==
    /\ ctl.at = "return"
    /\ SoundOnesBound(program, Len(program), before, env)
    /\ Result.ok => Effects(Traces(program), before, env, fns)
    /\ ~Result.ok => /\ ~IsRight(program, before)
                     /\ FaultyOnesTold(program, Len(program), Result.errors)

\* The inductive invariant.
MeaningInv ==
    /\ \A s \in before : env[s] # Unbound
    /\ ErrorsSaid
    /\ IF stack = <<>> THEN EndInv ELSE \E m \in Nat : RunInv(m)

-----------------------------------------------------------------------------
\* What is used of the type invariant.
LEMMA ProgramIs ==
    ASSUME IInv
    PROVE  /\ program \in Seq(Forms) /\ Len(program) \in Nat /\ before \subseteq Syms
           /\ IsEnv(env) /\ fns \in Nat /\ IsStack(stack) /\ IsCtl(ctl, stack)
BY SemanticsAssumption, LenProperties DEF IInv, DataInv, ControlInv

LEMMA DataSame ==
    ASSUME Next
    PROVE  program' = program /\ before' = before
BY DEF Next, AnalyzeNext, AnalyzeResult, AnalyzeAtom, BeginDef, FinishDef, BeginFn, FinishFn,
   BeginCall, ResolveCall, FinishCall

\* A symbol that is bound stays bound.
LEMMA BoundKept ==
    ASSUME IInv, Next, NEW s \in Syms, env[s] # Unbound
    PROVE  env'[s] # Unbound
<1>1. CASE FinishDef
  <2>1. CASE env' = env
    BY <2>1
  <2>2. CASE env' # env
    <3> DEFINE v == Named(Result.value, Top.binding)
    <3>1. env' = [env EXCEPT ![Top.binding] = v] /\ Result.ok
      BY <1>1, <2>2 DEF FinishDef, Define
    <3>2. IsFrame(Top) /\ Top.of = "def" /\ stack # <<>> /\ ctl.at = "return"
      BY <1>1, ProgramIs, StackFacts DEF FinishDef, Returning, Top
    <3>3. IsExpr(Result.value)
      <4>1. IsResult(Result, stack) /\ ~Many(Top)
        BY <3>2, ProgramIs DEF IsCtl, Result, Many
      <4> QED
        BY <3>1, <3>2, <4>1 DEF IsResult, Top
    <3>4. v.type \in Types
      <4>1. Result.value.type \in Types /\ (Result.value.type = "fn" =>
              Result.value = Fn(Result.value.name, Result.value.args, Result.value.body))
        BY <3>3, NodesByType DEF Types
      <4> QED
        BY <4>1 DEF Named, Fn
    <3>5. v # Unbound
      BY <3>4 DEF Types, Unbound
    <3> HIDE DEF v
    <3>6. env = [r \in Syms |-> env[r]]
      BY ProgramIs DEF IsEnv
    <3> QED
      BY <3>1, <3>5, <3>6
  <2> QED
    BY <2>1, <2>2
<1>2. CASE ~FinishDef
  <2>1. env' = env
    BY <1>2 DEF Next, AnalyzeNext, AnalyzeResult, AnalyzeAtom, BeginDef, BeginFn, FinishFn,
       BeginCall, ResolveCall, FinishCall
  <2> QED
    BY <2>1
<1> QED
  BY <1>1, <1>2

LEMMA SoundOnesStayBound ==
    ASSUME NEW p, NEW m, NEW b, NEW e, NEW f, SoundOnesBound(p, m, b, e),
           \A s \in Syms : e[s] # Unbound => f[s] # Unbound
    PROVE  SoundOnesBound(p, m, b, f)
BY DEF SoundOnesBound, BoundBy

\* One form more.
LEMMA FaultyNext ==
    ASSUME NEW p, NEW m \in Nat
    PROVE  LET c == Cardinality(FaultyOnes(p, m))
               new == Cardinality(FaultyOnes(p, m + 1))
           IN  /\ c \in Nat /\ new \in Nat /\ new <= c + 1
               /\ RightTrace(Trace[p[m + 1]], Syms) => new = c
<1> DEFINE F == FaultyOnes(p, m)
           G == FaultyOnes(p, m + 1)
           x == m + 1
<1>1. x \notin F /\ F \subseteq 1..m
      /\ G = IF RightTrace(Trace[p[x]], Syms) THEN F ELSE F \cup {x}
  <2>1. 1..m + 1 = 1..m \cup {x} /\ x \notin 1..m
    OBVIOUS
  <2>2. x \notin F /\ F \subseteq 1..m
    BY <2>1 DEF FaultyOnes
  <2>3. G = {j \in 1..m \cup {x} : ~RightTrace(Trace[p[j]], Syms)}
    BY <2>1 DEF FaultyOnes
  <2>4. F = {j \in 1..m : ~RightTrace(Trace[p[j]], Syms)}
    BY DEF FaultyOnes
  <2> HIDE DEF x, F, G
  <2>5. G = IF RightTrace(Trace[p[x]], Syms) THEN F ELSE F \cup {x}
    BY <2>1, <2>3, <2>4
  <2> QED
    BY <2>2, <2>5
<1>2. IsFiniteSet(F)
  <2>1. IsFiniteSet(1..m)
    BY FS_Interval
  <2> HIDE DEF F
  <2> QED
    BY <1>1, <2>1, FS_Subset
<1> HIDE DEF F, G, x
<1>3. Cardinality(F) \in Nat
  BY <1>2, FS_CardinalityType
<1>4. Cardinality(F \cup {x}) = Cardinality(F) + 1
  BY <1>1, <1>2, FS_AddElement
<1>5. CASE RightTrace(Trace[p[x]], Syms)
  <2>1. Cardinality(G) = Cardinality(F)
    BY <1>1, <1>5
  <2> QED
    BY <1>3, <2>1 DEF F, G
<1>6. CASE ~RightTrace(Trace[p[x]], Syms)
  <2>1. Cardinality(G) = Cardinality(F) + 1
    BY <1>1, <1>4, <1>6
  <2> QED
    BY <1>3, <1>6, <2>1 DEF F, G, x
<1> QED
  BY <1>5, <1>6

\* What a trace has used are symbols.
LEMMA NoFaultIsSound ==
    ASSUME NEW t \in Seq(Events), \A i \in 1..Len(t) : t[i].does # "fault"
    PROVE  RightTrace(t, Syms)
<1>1. DOMAIN t = 1..Len(t) /\ \A i \in 1..Len(t) : t[i] \in Events
  BY LenProperties, ElementOfSeq
<1>2. \A ev \in Events : ev.does = "use" => ev.sym \in Syms
  BY DEF Events, Use, Bind, Make, Fault
<1> QED
  BY <1>1, <1>2 DEF RightTrace

-----------------------------------------------------------------------------
(* A step within a form                                                    *)

\* The form stays where its trace has it, or an error is met where the trace is
\* not right.
LEMMA FormKept ==
    ASSUME IInv, ErrorsSaid, Next, NEW m \in Nat, m < Len(program), FormInv(m),
           stack # <<>>, stack[1].of = "analyze", Len(stack) > 1 \/ ctl.at = "enter",
           \A s \in before : env[s] # Unbound,
           stack[1].errors # <<>> => ~IsRight(program, before)
    PROVE  FormInv(m)'
<1> DEFINE t == Trace[program[m + 1]]
           a == Before(program, m)
<1>1. /\ program \in Seq(Forms) /\ t \in Seq(Events) /\ Len(t) \in Nat /\ a \in Seq(Events)
      /\ before \subseteq Syms /\ IsEnv(env)
  <2>1. program \in Seq(Forms) /\ m + 1 \in 1..Len(program) /\ m <= Len(program)
    BY ProgramIs
  <2>2. program[m + 1] \in Forms
    BY <2>1, ElementOfSeq
  <2> QED
    BY <2>1, <2>2, ProgramIs, TraceType, BeforeFacts, LenProperties
<1>2. program' = program /\ before' = before /\ stack'[1] = stack[1]
  BY DataSame, BottomKept
<1>3. ASSUME ~Clean(stack', ctl'), ~RightTrace(t, before), ~IsRight(program, before)
      PROVE  FormInv(m)'
  BY <1>2, <1>3 DEF FormInv
<1>4. ASSUME NEW d \in 0..Len(t), Follows(stack', ctl', t, d),
             \A i \in 1..d : t[i].does # "fault",
             BoundBy(Upto(t, d), env'),
             stack[1].errors = <<>> => Effects(a \o Upto(t, d), before, env', fns')
      PROVE  FormInv(m)'
  BY <1>2, <1>4 DEF FormInv
<1>5. CASE /\ ~Clean(stack, ctl)
           /\ ~RightTrace(t, before) /\ ~IsRight(program, before)
  <2>1. Len(stack) > 1
    <3> SUFFICES ASSUME ctl.at = "enter", ~(Len(stack) > 1) PROVE FALSE
      OBVIOUS
    <3>1. 2..Len(stack) = {}
      BY ProgramIs, StackFacts
    <3> QED
      BY <1>5, <3>1 DEF Clean
  <2> QED
    BY <1>3, <1>5, <2>1, DoomKept
<1>6. ASSUME NEW d \in 0..Len(t), Follows(stack, ctl, t, d),
             \A i \in 1..d : t[i].does # "fault",
             BoundBy(Upto(t, d), env),
             stack[1].errors = <<>> => Effects(a \o Upto(t, d), before, env, fns)
      PROVE  FormInv(m)'
  <2> DEFINE u == Upto(t, d)
             w == a \o Upto(t, d)
             ev == t[d + 1]
  <2>1. Inside(t, d)
    BY <1>1, <1>6 DEF Inside
  <2>2. Moves(t, d)
    BY <2>1, StepMoves
  <2>3. ASSUME d < Len(t)
        PROVE  /\ d + 1 \in 0..Len(t) /\ d \in Nat /\ ev \in Events
               /\ u \in Seq(Events) /\ w \in Seq(Events)
               /\ Upto(t, d + 1) = Append(u, ev)
               /\ a \o Upto(t, d + 1) = Append(w, ev)
    <3>1. d + 1 \in 0..Len(t) /\ d \in Nat
      BY <1>1, <2>3
    <3>2. ev \in Events /\ u \in Seq(Events) /\ Upto(t, d + 1) = Append(u, ev)
      BY <1>1, <2>3, <3>1, UptoNext
    <3>3. w \in Seq(Events) /\ a \o Upto(t, d + 1) = Append(w, ev)
      <4> HIDE DEF t, a
      <4> QED
        BY <1>1, <2>3, <3>1, CatUpto
    <3> QED
      BY <3>1, <3>2, <3>3
  <2>4. CASE Silent(t, d)
    BY <1>4, <1>6, <2>4 DEF Silent
  <2>5. CASE Performs(t, d)
    <3>1. d < Len(t) /\ Follows(stack', ctl', t, d + 1)
      BY <2>5 DEF Performs
    <3>2. /\ d + 1 \in 0..Len(t) /\ d \in Nat /\ ev \in Events
          /\ u \in Seq(Events) /\ w \in Seq(Events)
          /\ Upto(t, d + 1) = Append(u, ev)
          /\ a \o Upto(t, d + 1) = Append(w, ev)
      BY <2>3, <3>1
    <3>3. BoundBy(u, env) /\ (stack[1].errors = <<>> => Effects(w, before, env, fns))
      BY <1>6
    <3> HIDE DEF u, w, ev
    <3>4. ASSUME ev.does # "fault", BoundBy(Append(u, ev), env'),
                 stack[1].errors = <<>> => Effects(Append(w, ev), before, env', fns')
          PROVE  FormInv(m)'
      <4>1. \A i \in 1..d + 1 : t[i].does # "fault"
        <5>1. \A i \in 1..d + 1 : i \in 1..d \/ i = d + 1
          BY <3>2
        <5> QED
          BY <1>6, <3>4, <5>1 DEF ev
      <4> QED
        BY <1>4, <3>1, <3>2, <3>4, <4>1
    <3>5. CASE Uses(ev)
      <4>1. PICK s \in Syms : ev = Use(s) /\ env[s] # Unbound /\ env' = env /\ fns' = fns
        BY <3>5 DEF Uses
      <4>2. ev.does = "use"
        BY <4>1, EventFields
      <4>3. BoundBy(Append(u, ev), env)
        BY <3>2, <3>3, <4>2, BoundByMore
      <4>4. stack[1].errors = <<>> => Effects(Append(w, ev), before, env, fns)
        BY <3>2, <3>3, <4>1, UseEffects
      <4> QED
        BY <3>4, <4>1, <4>2, <4>3, <4>4
    <3>6. CASE Binding(ev)
      <4>1. PICK s \in Syms, k \in Types : \E v :
              /\ ev = Bind(s, k) /\ IsExpr(v) /\ v.type = k
              /\ env' = [env EXCEPT ![s] = v] /\ fns' = fns
        BY <3>6 DEF Binding
      <4>2. PICK v :
              /\ ev = Bind(s, k) /\ IsExpr(v) /\ v.type = k
              /\ env' = [env EXCEPT ![s] = v] /\ fns' = fns
        BY <4>1
      <4>3. ev.does = "bind" /\ ev.sym = s
        BY <4>2, EventFields
      <4>4. v # Unbound
        BY <4>2 DEF Types, Unbound
      <4>5. \A r \in Syms : env[r] # Unbound => env'[r] # Unbound
        BY BoundKept
      <4>6. env'[s] # Unbound
        <5>1. env = [r \in Syms |-> env[r]]
          BY <1>1 DEF IsEnv
        <5> QED
          BY <4>2, <4>4, <5>1
      <4>7. BoundBy(u, env')
        BY <3>3, <4>5 DEF BoundBy
      <4>8. BoundBy(Append(u, ev), env')
        BY <3>2, <4>3, <4>6, <4>7, BoundByMore
      <4>9. stack[1].errors = <<>> => Effects(Append(w, ev), before, env', fns')
        BY <1>1, <3>2, <3>3, <4>2, BindEffects
      <4> QED
        BY <3>4, <4>3, <4>8, <4>9
    <3>7. CASE Making(ev)
      <4>1. ev = Make /\ env' = env /\ fns' = fns + 1
        BY <3>7 DEF Making
      <4>2. ev.does = "make"
        BY <4>1, EventFields
      <4>3. BoundBy(Append(u, ev), env)
        BY <3>2, <3>3, <4>2, BoundByMore
      <4>4. stack[1].errors = <<>> => Effects(Append(w, ev), before, env, fns + 1)
        BY <3>2, <3>3, <4>1, MakeEffects
      <4> QED
        BY <3>4, <4>1, <4>2, <4>3, <4>4
    <3>8. Uses(ev) \/ Binding(ev) \/ Making(ev)
      BY <2>5 DEF Performs, ev
    <3> QED
      BY <3>5, <3>6, <3>7, <3>8
  <2>6. CASE Fails(t, d)
    <3>1. d < Len(t) /\ Wrong(ev) /\ ~Clean(stack', ctl')
      BY <2>6 DEF Fails
    <3>2. d \in Nat /\ u \in Seq(Events) /\ w \in Seq(Events)
      BY <2>3, <3>1
    <3>3. ev = Fault \/ \E s \in Syms : ev = Use(s) /\ env[s] = Unbound
      BY <3>1 DEF Wrong
    <3>4. \/ ev = Fault
          \/ \E s \in Syms : ev = Use(s) /\ s \notin before /\ Binds(u, s) = {}
      BY <1>6, <3>3 DEF BoundBy
    <3>5. ~RightTrace(t, before)
      BY <1>1, <3>1, <3>2, <3>4, WrongInForm
    <3>6. ~IsRight(program, before)
      <4>1. CASE stack[1].errors = <<>>
        <5>1. Effects(w, before, env, fns)
          BY <1>6, <4>1
        <5>2. \/ ev = Fault
              \/ \E s \in Syms : ev = Use(s) /\ s \notin before /\ Binds(w, s) = {}
          BY <3>3, <5>1 DEF Effects, BoundAs
        <5> QED
          BY <1>1, <3>1, <3>2, <5>2, WrongInProgram
      <4> QED
        BY <4>1
    <3> QED
      BY <1>3, <3>1, <3>5, <3>6
  <2> QED
    BY <2>2, <2>4, <2>5, <2>6 DEF Moves
<1> HIDE DEF a
<1>7. \/ /\ ~Clean(stack, ctl)
         /\ ~RightTrace(t, before) /\ ~IsRight(program, before)
      \/ \E d \in 0..Len(t) :
            /\ Follows(stack, ctl, t, d)
            /\ \A i \in 1..d : t[i].does # "fault"
            /\ BoundBy(Upto(t, d), env)
            /\ stack[1].errors = <<>> => Effects(a \o Upto(t, d), before, env, fns)
  BY DEF FormInv, a
<1> QED
  BY <1>5, <1>6, <1>7

-----------------------------------------------------------------------------
(* The steps between two forms                                             *)

\* The frame of the call of analyze for the program.
LEMMA BottomFrame ==
    ASSUME IInv, stack # <<>>, stack[1].of = "analyze"
    PROVE  /\ stack[1] = [of |-> "analyze", todo |-> stack[1].todo, ast |-> stack[1].ast,
                          errors |-> stack[1].errors]
           /\ stack[1].todo \in Seq(Forms) /\ stack[1].errors \in Seq(Errors)
           /\ Len(stack) \in Nat /\ Len(stack) > 0
<1>1. IsStack(stack) /\ Len(stack) \in Nat /\ Len(stack) > 0
  BY ProgramIs, StackFacts
<1>2. IsFrame(stack[1])
  BY <1>1 DEF IsStack
<1> QED
  BY <1>1, <1>2 DEF IsFrame

\* The next form is taken.
LEMMA NextForm ==
    ASSUME IInv, AnalyzeNext, stack # <<>>, stack[1].of = "analyze", Len(stack) = 1,
           NEW m \in Nat, Rest(program, stack[1].todo, m), stack[1].todo # <<>>,
           stack[1].errors = <<>> => Effects(Before(program, m), before, env, fns)
    PROVE  /\ stack' # <<>> /\ Len(stack') = 1 /\ ctl'.at = "enter" /\ env' = env
           /\ stack'[1].of = "analyze" /\ stack'[1].errors = stack[1].errors
           /\ m < Len(program) /\ Rest(program, stack'[1].todo, m + 1)
           /\ FormInv(m)'
<1> DEFINE fr == [stack[1] EXCEPT !.todo = Tail(stack[1].todo)]
           todo == stack[1].todo
           t == Trace[program[m + 1]]
           a == Before(program, m)
<1>1. Top = stack[1] /\ IsStack(stack) /\ program \in Seq(Forms) /\ Len(program) \in Nat
  BY ProgramIs DEF Top
<1>2. /\ stack' = [stack EXCEPT ![Len(stack)] = fr]
      /\ ctl' = [at |-> "enter", form |-> Head(todo)]
      /\ program' = program /\ before' = before /\ env' = env /\ fns' = fns
  BY <1>1 DEF AnalyzeNext, Enter, Top
<1>3. stack[1] = [of |-> "analyze", todo |-> todo, ast |-> stack[1].ast,
                  errors |-> stack[1].errors]
  BY BottomFrame
<1>4. fr.of = "analyze" /\ fr.todo = Tail(todo) /\ fr.errors = stack[1].errors
  BY <1>3
<1> HIDE DEF fr
<1>5. Len(stack') = 1 /\ stack'[1] = fr
  BY <1>1, <1>2, ReplaceFacts
<1>6. stack' # <<>>
  BY <1>5
<1>7. /\ todo \in Seq(Forms) /\ Len(todo) \in Nat /\ Len(todo) > 0 /\ Head(todo) = todo[1]
      /\ Len(Tail(todo)) = Len(todo) - 1
      /\ \A i \in 1..Len(todo) - 1 : Tail(todo)[i] = todo[i + 1]
  <2>1. todo \in Seq(Forms) /\ todo # <<>>
    BY BottomFrame
  <2> HIDE DEF todo
  <2> QED
    BY <2>1, EmptySeq, LenProperties, HeadTailProperties
<1>8. Len(todo) + m = Len(program) /\ \A i \in 1..Len(todo) : todo[i] = program[m + i]
  BY DEF Rest
<1> HIDE DEF todo
<1>9. m < Len(program) /\ m + 1 \in 1..Len(program) /\ m <= Len(program)
  BY <1>1, <1>7, <1>8
<1>10. Head(todo) = program[m + 1]
  BY <1>7, <1>8
<1>11. Rest(program, Tail(todo), m + 1)
  <2>1. Len(Tail(todo)) + (m + 1) = Len(program)
    BY <1>1, <1>7, <1>8
  <2>2. ASSUME NEW i \in 1..Len(Tail(todo))
        PROVE  Tail(todo)[i] = program[(m + 1) + i]
    <3>1. i \in 1..Len(todo) - 1 /\ i + 1 \in 1..Len(todo) /\ (m + 1) + i = m + (i + 1)
      BY <1>7
    <3> QED
      BY <1>7, <1>8, <3>1
  <2> QED
    BY <2>1, <2>2 DEF Rest
<1>12. t \in Seq(Events) /\ a \in Seq(Events) /\ Len(t) \in Nat
  <2>1. program[m + 1] \in Forms
    BY <1>1, <1>9, ElementOfSeq
  <2> QED
    BY <1>1, <1>9, <2>1, TraceType, BeforeFacts, LenProperties
<1>13. FormInv(m)'
  <2>1. Follows(stack', ctl', t, 0)
    <3>1. Now(ctl') = t
      BY <1>2, <1>10 DEF Now
    <3>2. Clean(stack', ctl')
      <4>1. 2..Len(stack') = {}
        BY <1>5
      <4>2. ctl'.at # "return"
        BY <1>2
      <4> QED
        BY <4>1, <4>2 DEF Clean
    <3>3. Reads(t, 0, Len(t), t)
      <4> HIDE DEF t
      <4> QED
        BY <1>12 DEF Reads
    <3> HIDE DEF t
    <3> QED
      BY <1>5, <1>12, <3>1, <3>2, <3>3, FollowsLow
  <2> HIDE DEF t, a
  <2>2. Upto(t, 0) = <<>> /\ a \o Upto(t, 0) = a
    BY <1>12, UptoAll, CatNothing
  <2>3. BoundBy(Upto(t, 0), env)
    BY <2>2 DEF BoundBy, Binds
  <2>4. stack[1].errors = <<>> => Effects(a \o Upto(t, 0), before, env, fns)
    BY <2>2 DEF a
  <2>5. 0 \in 0..Len(t) /\ \A i \in 1..0 : t[i].does # "fault"
    BY <1>12
  <2>6. stack'[1].errors = stack[1].errors
    BY <1>4, <1>5
  <2> USE DEF t, a
  <2>7. \E d \in 0..Len(t) :
          /\ Follows(stack', ctl', t, d)
          /\ \A i \in 1..d : t[i].does # "fault"
          /\ BoundBy(Upto(t, d), env')
          /\ stack'[1].errors = <<>> =>
                Effects(Before(program, m) \o Upto(t, d), before, env', fns')
    BY <1>2, <2>1, <2>3, <2>4, <2>5, <2>6
  <2> QED
    BY <1>2, <2>7 DEF FormInv
<1> QED
  BY <1>2, <1>4, <1>5, <1>6, <1>9, <1>11, <1>13 DEF todo

\* The loop of the program ends.
LEMMA EndOfProgram ==
    ASSUME IInv, AnalyzeNext, stack # <<>>, Len(stack) = 1, ctl.at = "loop",
           NEW m \in Nat, RunInv(m), stack[1].todo = <<>>
    PROVE  stack' = <<>> /\ EndInv'
<1>1. Top = stack[1] /\ IsStack(stack) /\ program \in Seq(Forms) /\ Len(program) \in Nat
  BY ProgramIs DEF Top
<1>2. /\ stack' = Pop
      /\ ctl' = [at |-> "return", result |-> IF stack[1].errors = <<>> THEN Ok(stack[1].ast)
                                             ELSE Err(stack[1].errors)]
      /\ program' = program /\ before' = before /\ env' = env /\ fns' = fns
  BY <1>1 DEF AnalyzeNext, Return, Top
<1>3. stack' = <<>>
  <2>1. Pop = SubSeq(stack, 1, 0)
    BY DEF Pop
  <2> QED
    BY <1>2, <2>1, <1>1, UptoAll DEF IsStack, Upto
<1>4. m = Len(program)
  <2>1. Len(stack[1].todo) = 0 /\ Len(stack[1].todo) + m = Len(program)
    BY DEF RunInv, Rest
  <2> QED
    BY <1>1, <2>1
<1>5. /\ SoundOnesBound(program, m, before, env)
      /\ FaultyOnesTold(program, m, stack[1].errors)
      /\ stack[1].errors # <<>> => ~IsRight(program, before)
      /\ stack[1].errors = <<>> => Effects(Before(program, m), before, env, fns)
  BY DEF RunInv
<1>6. Before(program, m) = Traces(program)
  BY <1>1, <1>4, BeforeEnds
<1>7. CASE stack[1].errors = <<>>
  <2>1. Result' = Ok(stack[1].ast)
    BY <1>2, <1>7 DEF Result
  <2>2. Result'.ok
    BY <2>1 DEF Ok
  <2>3. Effects(Traces(program), before, env, fns)
    BY <1>5, <1>6, <1>7
  <2> QED
    BY <1>2, <1>3, <1>4, <1>5, <2>2, <2>3 DEF EndInv
<1>8. CASE stack[1].errors # <<>>
  <2>1. Result' = Err(stack[1].errors)
    BY <1>2, <1>8 DEF Result
  <2>2. ~Result'.ok /\ Result'.errors = stack[1].errors
    BY <2>1 DEF Err
  <2> QED
    BY <1>2, <1>3, <1>4, <1>5, <1>8, <2>2 DEF EndInv
<1> QED
  BY <1>7, <1>8

\* The node or the errors of a form of the program are taken.
LEMMA FormDone ==
    ASSUME IInv, ErrorsSaid, AnalyzeResult, stack # <<>>, Len(stack) = 1,
           NEW m \in Nat, RunInv(m)
    PROVE  stack' # <<>> /\ RunInv(m + 1)'
<1> DEFINE t == Trace[program[m + 1]]
           a == Before(program, m)
           es == stack[1].errors
           fr == IF Result.ok THEN [stack[1] EXCEPT !.ast = Append(stack[1].ast, Result.value)]
                 ELSE [stack[1] EXCEPT !.errors = es \o Result.errors]
<1>1. /\ Top = stack[1] /\ IsStack(stack) /\ program \in Seq(Forms) /\ Len(program) \in Nat
      /\ ctl.at = "return" /\ ctl.at # "loop" /\ before \subseteq Syms
  BY ProgramIs DEF Top, AnalyzeResult, Returning
<1>2. /\ stack' = [stack EXCEPT ![Len(stack)] = fr]
      /\ ctl' = [at |-> "loop"]
      /\ program' = program /\ before' = before /\ env' = env /\ fns' = fns
  BY <1>1 DEF AnalyzeResult, Top
<1>3. /\ stack[1].of = "analyze"
      /\ SoundOnesBound(program, m, before, env)
      /\ FaultyOnesTold(program, m, es)
      /\ es # <<>> => ~IsRight(program, before)
      /\ Rest(program, stack[1].todo, m + 1)
      /\ FormInv(m)
  BY <1>1 DEF RunInv
<1>4. stack[1] = [of |-> "analyze", todo |-> stack[1].todo, ast |-> stack[1].ast,
                  errors |-> es]
      /\ es \in Seq(Errors) /\ stack[1].todo \in Seq(Forms)
  BY <1>3, BottomFrame
<1>5. fr.of = "analyze" /\ fr.todo = stack[1].todo
      /\ fr.errors = IF Result.ok THEN es ELSE es \o Result.errors
  BY <1>4
<1> HIDE DEF fr
<1>6. Len(stack') = 1 /\ stack'[1] = fr
  BY <1>1, <1>2, ReplaceFacts
<1>7. stack' # <<>>
  BY <1>6
<1>8. m < Len(program) /\ m + 1 \in 1..Len(program) /\ m <= Len(program)
  <2>1. Len(stack[1].todo) \in Nat /\ Len(stack[1].todo) + (m + 1) = Len(program)
    BY <1>3, <1>4, LenProperties DEF Rest
  <2> DEFINE k == Len(stack[1].todo)
             n == Len(program)
  <2>2. k \in Nat /\ n \in Nat /\ k + (m + 1) = n
    BY <1>1, <2>1
  <2> HIDE DEF k, n
  <2>3. m < n /\ m + 1 \in 1..n /\ m <= n
    BY <2>2
  <2> QED
    BY <2>3 DEF n
<1>9. t \in Seq(Events) /\ a \in Seq(Events) /\ Len(t) \in Nat
  <2>1. program[m + 1] \in Forms
    BY <1>1, <1>8, ElementOfSeq
  <2> QED
    BY <1>1, <1>8, <2>1, TraceType, BeforeFacts, LenProperties
<1>10. /\ Cardinality(FaultyOnes(program, m)) \in Nat
       /\ Cardinality(FaultyOnes(program, m + 1)) \in Nat
       /\ Cardinality(FaultyOnes(program, m + 1)) <= Cardinality(FaultyOnes(program, m)) + 1
       /\ RightTrace(t, Syms) =>
            Cardinality(FaultyOnes(program, m + 1)) = Cardinality(FaultyOnes(program, m))
  BY FaultyNext
<1>11. Len(es) >= Cardinality(FaultyOnes(program, m))
  BY <1>3 DEF FaultyOnesTold
<1>12. ASSUME SoundOnesBound(program, m + 1, before, env),
              FaultyOnesTold(program, m + 1, fr.errors),
              fr.errors # <<>> => ~IsRight(program, before),
              fr.errors = <<>> => Effects(Before(program, m + 1), before, env, fns)
       PROVE  RunInv(m + 1)'
  BY <1>2, <1>3, <1>5, <1>6, <1>12 DEF RunInv
<1>13. ASSUME RightTrace(t, before) => BoundBy(t, env)
       PROVE  SoundOnesBound(program, m + 1, before, env)
  <2>1. \A j \in 1..m + 1 : j \in 1..m \/ j = m + 1
    OBVIOUS
  <2> QED
    BY <1>3, <1>13, <2>1 DEF SoundOnesBound
<1>14. CASE /\ ~Clean(stack, ctl)
            /\ ~RightTrace(t, before) /\ ~IsRight(program, before)
  <2>1. ~Result.ok
    <3>1. 2..Len(stack) = {}
      OBVIOUS
    <3> QED
      BY <1>14, <3>1 DEF Clean, Result
  <2>2. Result.errors \in Seq(Errors) /\ Result.errors # <<>>
    <3>1. IsResult(Result, stack)
      BY <1>1, ProgramIs DEF IsCtl, Result
    <3> QED
      BY <1>1, <2>1, <3>1 DEF IsResult, ErrorsSaid, Result
  <2>3. fr.errors = es \o Result.errors
    BY <1>5, <2>1
  <2>4. Len(fr.errors) = Len(es) + Len(Result.errors) /\ Len(es) \in Nat
        /\ Len(Result.errors) \in Nat /\ Len(Result.errors) > 0
    <3> DEFINE new == Result.errors
    <3>1. new \in Seq(Errors) /\ new # <<>>
      BY <2>2
    <3> HIDE DEF new, es
    <3>2. Len(es \o new) = Len(es) + Len(new) /\ Len(es) \in Nat /\ Len(new) \in Nat
      BY <1>4, <3>1, CatFacts
    <3>3. Len(new) # 0
      BY <3>1, EmptySeq
    <3> QED
      BY <2>3, <3>2, <3>3 DEF new
  <2>5. FaultyOnesTold(program, m + 1, fr.errors)
    <3> DEFINE c == Cardinality(FaultyOnes(program, m))
               k == Cardinality(FaultyOnes(program, m + 1))
               l == Len(fr.errors)
               x == Len(es)
               y == Len(Result.errors)
    <3>1. c \in Nat /\ k \in Nat /\ k <= c + 1 /\ x >= c
          /\ l = x + y /\ x \in Nat /\ y \in Nat /\ y > 0
      BY <1>10, <1>11, <2>4
    <3> HIDE DEF c, k, l, x, y
    <3>2. l >= k
      BY <3>1
    <3> QED
      BY <3>2 DEF l, k, FaultyOnesTold
  <2>6. fr.errors # <<>>
    <3> SUFFICES ASSUME fr.errors = <<>> PROVE FALSE
      OBVIOUS
    <3> DEFINE x == Len(es)
               y == Len(Result.errors)
    <3>1. Len(fr.errors) = 0 /\ Len(fr.errors) = x + y /\ x \in Nat /\ y \in Nat /\ y > 0
      BY <2>4
    <3> HIDE DEF x, y
    <3> QED
      BY <3>1
  <2> QED
    BY <1>7, <1>12, <1>13, <1>14, <2>5, <2>6
<1>15. ASSUME NEW d \in 0..Len(t), Follows(stack, ctl, t, d),
              \A i \in 1..d : t[i].does # "fault",
              BoundBy(Upto(t, d), env),
              es = <<>> => Effects(a \o Upto(t, d), before, env, fns)
       PROVE  RunInv(m + 1)'
  <2>1. Result.ok
    BY <1>1, <1>15 DEF Follows, Clean, Result
  <2>2. fr.errors = es
    BY <1>5, <2>1
  <2>3. d = Len(t)
    <3>1. Reads(t, d, Len(t), Now(ctl))
      BY <1>9, <1>15, FollowsLow
    <3>2. Now(ctl) = <<>>
      BY <1>1 DEF Now
    <3> HIDE DEF t
    <3>3. d \in Nat
      BY <1>9
    <3> QED
      BY <3>1, <3>2, <3>3, ReadsNothing
  <2>4. Upto(t, d) = t
    BY <1>9, <2>3, UptoAll
  <2>5. a \o t = Before(program, m + 1)
    BY <1>1, <1>8, BeforeNext
  <2>6. RightTrace(t, Syms)
    BY <1>9, <1>15, <2>3, NoFaultIsSound
  <2>7. FaultyOnesTold(program, m + 1, fr.errors)
    BY <1>10, <1>11, <2>2, <2>6 DEF FaultyOnesTold
  <2>8. SoundOnesBound(program, m + 1, before, env)
    BY <1>13, <1>15, <2>4
  <2>9. fr.errors = <<>> => Effects(Before(program, m + 1), before, env, fns)
    BY <1>15, <2>2, <2>4, <2>5
  <2> QED
    BY <1>3, <1>12, <2>2, <2>7, <2>8, <2>9
<1> HIDE DEF a
<1>16. \/ /\ ~Clean(stack, ctl)
          /\ ~RightTrace(t, before) /\ ~IsRight(program, before)
       \/ \E d \in 0..Len(t) :
             /\ Follows(stack, ctl, t, d)
             /\ \A i \in 1..d : t[i].does # "fault"
             /\ BoundBy(Upto(t, d), env)
             /\ es = <<>> => Effects(a \o Upto(t, d), before, env, fns)
  BY <1>3 DEF FormInv, a
<1> QED
  BY <1>7, <1>14, <1>15, <1>16

-----------------------------------------------------------------------------
\* At the start nothing has been done.
LEMMA InitMeaning == Init => MeaningInv
<1> SUFFICES ASSUME Init PROVE MeaningInv
  OBVIOUS
<1>1. program \in Seq(Forms) /\ Len(program) \in Nat /\ before \subseteq Syms
  BY SemanticsAssumption, LenProperties DEF Init
<1>2. /\ stack = <<Loop(program)>> /\ Len(stack) = 1 /\ stack # <<>> /\ stack[1] = Loop(program)
      /\ ctl = [at |-> "loop"] /\ fns = 0
  BY DEF Init
<1>3. stack[1].of = "analyze" /\ stack[1].todo = program /\ stack[1].errors = <<>>
  BY <1>2 DEF Loop
<1>4. \A s \in Syms : env[s] # Unbound <=> s \in before
  BY DEF Init, Unbound, Fn
<1>5. ErrorsSaid
  BY <1>2 DEF ErrorsSaid
<1>6. SoundOnesBound(program, 0, before, env)
  BY DEF SoundOnesBound
<1>7. FaultyOnesTold(program, 0, stack[1].errors)
  <2>1. FaultyOnes(program, 0) = {}
    BY DEF FaultyOnes
  <2>2. Cardinality(FaultyOnes(program, 0)) = 0
    BY <2>1, FS_EmptySet
  <2>3. Len(stack[1].errors) = 0
    BY <1>3
  <2> QED
    BY <2>2, <2>3 DEF FaultyOnesTold
<1>8. Effects(Before(program, 0), before, env, fns)
  <2>1. Before(program, 0) = <<>>
    BY <1>1, BeforeEnds
  <2>2. RightTrace(<<>>, before) /\ Makes(<<>>) = {} /\ \A s : Binds(<<>>, s) = {}
    BY DEF RightTrace, Makes, Binds
  <2>3. Cardinality(Makes(<<>>)) = 0
    BY <2>2, FS_EmptySet
  <2>4. \A s \in Syms : BoundAs(<<>>, before, env, s)
    BY <1>4, <2>2 DEF BoundAs
  <2> QED
    BY <1>2, <2>1, <2>2, <2>3, <2>4 DEF Effects
<1>9. Rest(program, stack[1].todo, 0)
  BY <1>1, <1>3 DEF Rest
<1>10. RunInv(0)
  BY <1>2, <1>3, <1>6, <1>7, <1>8, <1>9 DEF RunInv
<1>11. \A s \in before : env[s] # Unbound
  BY <1>1, <1>4
<1> QED
  BY <1>2, <1>5, <1>10, <1>11 DEF MeaningInv

\* A step while a form is being analysed.
LEMMA InForm ==
    ASSUME IInv, ErrorsSaid, Next, stack # <<>>, NEW m \in Nat, RunInv(m),
           Len(stack) > 1 \/ ctl.at = "enter", \A s \in before : env[s] # Unbound
    PROVE  stack' # <<>> /\ RunInv(m)'
<1>0. ~(Len(stack) = 1 /\ ctl.at = "loop")
  BY ProgramIs, StackFacts
<1>1. /\ stack[1].of = "analyze"
      /\ SoundOnesBound(program, m, before, env)
      /\ FaultyOnesTold(program, m, stack[1].errors)
      /\ stack[1].errors # <<>> => ~IsRight(program, before)
      /\ Rest(program, stack[1].todo, m + 1)
      /\ FormInv(m)
  BY <1>0 DEF RunInv
<1>2. /\ Len(stack') > 0 /\ stack'[1] = stack[1]
      /\ ~(Len(stack') = 1 /\ ctl'.at = "loop")
  BY <1>1, BottomKept
<1>3. program' = program /\ before' = before
  BY DataSame
<1>4. m < Len(program)
  <2> DEFINE k == Len(stack[1].todo)
             n == Len(program)
  <2>1. k \in Nat /\ n \in Nat /\ k + (m + 1) = n
    BY <1>1, ProgramIs, BottomFrame, LenProperties DEF Rest
  <2> HIDE DEF k, n
  <2>2. m < n
    BY <2>1
  <2> QED
    BY <2>2 DEF n
<1>5. FormInv(m)'
  BY <1>1, <1>4, FormKept
<1>6. SoundOnesBound(program, m, before, env')
  BY <1>1, BoundKept, SoundOnesStayBound
<1>7. stack' # <<>>
  BY <1>2
<1> QED
  BY <1>1, <1>2, <1>3, <1>5, <1>6, <1>7 DEF RunInv

\* Every step keeps the invariant.
LEMMA MeaningStep == IInv /\ MeaningInv /\ Next => MeaningInv'
<1> SUFFICES ASSUME IInv, MeaningInv, Next PROVE MeaningInv'
  OBVIOUS
<1>1. ErrorsSaid /\ ErrorsSaid' /\ \A s \in before : env[s] # Unbound
  BY ErrorsSaidKept DEF MeaningInv
<1>2. \A s \in before' : env'[s] # Unbound
  BY <1>1, ProgramIs, DataSame, BoundKept
<1>3. stack # <<>>
  <2> SUFFICES ASSUME stack = <<>> PROVE FALSE
    OBVIOUS
  <2>1. ctl.at = "return"
    BY DEF MeaningInv, EndInv
  <2> QED
    BY <2>1 DEF Next, AnalyzeNext, AnalyzeResult, AnalyzeAtom, BeginDef, FinishDef, BeginFn,
       FinishFn, BeginCall, ResolveCall, FinishCall, Returning, Entering
<1>4. PICK m \in Nat : RunInv(m)
  BY <1>3 DEF MeaningInv
<1>5. stack[1].of = "analyze" /\ Len(stack) \in Nat /\ Len(stack) > 0 /\ IsCtl(ctl, stack)
  BY <1>3, <1>4, ProgramIs, StackFacts DEF RunInv
<1>6. ASSUME NEW k \in Nat, stack' # <<>>, RunInv(k)' PROVE MeaningInv'
  BY <1>1, <1>2, <1>6 DEF MeaningInv
<1>7. ASSUME stack' = <<>>, EndInv' PROVE MeaningInv'
  BY <1>1, <1>2, <1>7 DEF MeaningInv
<1>8. CASE Len(stack) > 1 \/ ctl.at = "enter"
  BY <1>1, <1>3, <1>4, <1>6, <1>8, InForm
<1>9. CASE Len(stack) = 1 /\ ctl.at = "loop"
  <2>1. AnalyzeNext
    BY <1>9 DEF Next, AnalyzeResult, AnalyzeAtom, BeginDef, FinishDef, BeginFn,
       FinishFn, BeginCall, ResolveCall, FinishCall, Returning, Entering
  <2>2. CASE stack[1].todo = <<>>
    BY <1>3, <1>4, <1>7, <1>9, <2>1, <2>2, EndOfProgram
  <2>3. CASE stack[1].todo # <<>>
    <3>1. /\ SoundOnesBound(program, m, before, env)
          /\ FaultyOnesTold(program, m, stack[1].errors)
          /\ stack[1].errors # <<>> => ~IsRight(program, before)
          /\ Rest(program, stack[1].todo, m)
          /\ stack[1].errors = <<>> => Effects(Before(program, m), before, env, fns)
      BY <1>4, <1>9 DEF RunInv
    <3>2. /\ stack' # <<>> /\ Len(stack') = 1 /\ ctl'.at = "enter" /\ env' = env
          /\ stack'[1].of = "analyze" /\ stack'[1].errors = stack[1].errors
          /\ Rest(program, stack'[1].todo, m + 1)
          /\ FormInv(m)'
      BY <1>3, <1>5, <1>9, <2>1, <2>3, <3>1, NextForm
    <3>3. program' = program /\ before' = before
      BY DataSame
    <3>4. RunInv(m)'
      BY <3>1, <3>2, <3>3 DEF RunInv
    <3> QED
      BY <1>6, <3>2, <3>4
  <2> QED
    BY <2>2, <2>3
<1>10. CASE Len(stack) = 1 /\ ctl.at = "return"
  <2>1. AnalyzeResult
    <3>1. Top.of = "analyze"
      BY <1>5, <1>10 DEF Top
    <3> QED
      BY <1>10, <3>1 DEF Next, AnalyzeNext, AnalyzeAtom, BeginDef, FinishDef, BeginFn,
         FinishFn, BeginCall, ResolveCall, FinishCall, Returning, Entering
  <2>2. stack' # <<>> /\ RunInv(m + 1)'
    BY <1>1, <1>3, <1>4, <1>10, <2>1, FormDone
  <2>3. m + 1 \in Nat
    OBVIOUS
  <2> QED
    BY <1>6, <2>2, <2>3
<1>11. Len(stack) > 1 \/ Len(stack) = 1
  <2> DEFINE n == Len(stack)
  <2>1. n \in Nat /\ n > 0
    BY <1>5
  <2> HIDE DEF n
  <2>2. n > 1 \/ n = 1
    BY <2>1
  <2> QED
    BY <2>2 DEF n
<1>12. ctl.at \in {"enter", "loop", "return"}
  BY <1>5 DEF IsCtl
<1> QED
  BY <1>8, <1>9, <1>10, <1>11, <1>12

LEMMA MeaningHolds == Spec => [](IInv /\ MeaningInv)
<1>1. Init => IInv /\ MeaningInv
  BY InitIInv, InitMeaning
<1>2. IInv /\ MeaningInv /\ [Next]_vars => (IInv /\ MeaningInv)'
  <2>1. CASE Next
    BY <2>1, IInvKept, MeaningStep
  <2>2. CASE UNCHANGED vars
    BY <2>2 DEF vars, IInv, DataInv, ControlInv, IsCtl, FunctionsKnowTheirNames, MeaningInv,
       ErrorsSaid, EndInv, Result, RunInv, FormInv
  <2> QED
    BY <2>1, <2>2
<1> QED
  BY <1>1, <1>2, PTL DEF Spec

\* A form by itself.
LEMMA FormAlone ==
    ASSUME NEW p \in Seq(Forms), NEW i \in 1..Len(p), NEW b
    PROVE  /\ Traces(<<p[i]>>) = Trace[p[i]]
           /\ IsRight(<<p[i]>>, b) <=> RightTrace(Trace[p[i]], b)
<1>1. p[i] \in Forms
  BY ElementOfSeq
<1>2. Traces(<<p[i]>>) = Trace[p[i]]
  BY <1>1, TracesOne
<1> QED
  BY <1>2 DEF IsRight

\* semantics::analyze and the make functions accept a program exactly when its
\* text is right: no special form is written wrongly, what is called can be
\* called, and every symbol that is called was bound before it.
THEOREM Acceptance == Spec => []AcceptanceIsRight
<1>1. IInv /\ MeaningInv => AcceptanceIsRight
  BY DEF MeaningInv, EndInv, Effects, AcceptanceIsRight, Done, IsRight
<1> QED
  BY <1>1, MeaningHolds, PTL

\* When a program is accepted, Def::make has bound each symbol to the value that
\* its text gives it last and has left the others alone, and Fn::make has taken
\* one number for each function in it.
THEOREM WhatIsBound == Spec => []EffectsAreRight
<1>1. IInv /\ MeaningInv => EffectsAreRight
  <2> SUFFICES ASSUME MeaningInv, Done, Result.ok
               PROVE  LET t == Traces(program)
                      IN  /\ \A s \in Syms :
                                IF Binds(t, s) = {}
                                THEN env[s] # Unbound <=> s \in before
                                ELSE env[s].type = t[Max(Binds(t, s))].type
                          /\ fns = Cardinality({i \in DOMAIN t : t[i].does = "make"})
    BY DEF EffectsAreRight
  <2>1. Effects(Traces(program), before, env, fns)
    BY DEF MeaningInv, EndInv, Done
  <2> QED
    BY <2>1 DEF Effects, BoundAs, Makes
<1> QED
  BY <1>1, MeaningHolds, PTL

\* semantics::analyze goes on after an error: every form that is right by itself
\* has bound its symbols, and every form that cannot be right is among the errors.
THEOREM NoFormIsSkipped == Spec => []EveryFormIsAnalysed
<1>1. IInv /\ MeaningInv => EveryFormIsAnalysed
  <2> SUFFICES ASSUME IInv, MeaningInv, Done PROVE EveryFormIsAnalysed
    BY DEF EveryFormIsAnalysed
  <2>1. EndInv /\ program \in Seq(Forms) /\ DOMAIN program = 1..Len(program)
    BY ProgramIs, LenProperties DEF MeaningInv, Done
  <2>2. ASSUME NEW i \in DOMAIN program, NEW s \in Syms,
               IsRight(<<program[i]>>, before), Binds(Traces(<<program[i]>>), s) # {}
        PROVE  env[s] # Unbound
    <3>1. RightTrace(Trace[program[i]], before) /\ Binds(Trace[program[i]], s) # {}
      BY <2>1, <2>2, FormAlone
    <3> QED
      BY <2>1, <3>1 DEF EndInv, SoundOnesBound, BoundBy
  <2>3. ASSUME ~Result.ok
        PROVE  Len(Result.errors) >=
                 Cardinality({i \in DOMAIN program : ~IsRight(<<program[i]>>, Syms)})
    <3>1. {i \in DOMAIN program : ~IsRight(<<program[i]>>, Syms)}
            = FaultyOnes(program, Len(program))
      BY <2>1, FormAlone DEF FaultyOnes
    <3> QED
      BY <2>1, <2>3, <3>1 DEF EndInv, FaultyOnesTold
  <2> QED
    BY <2>2, <2>3 DEF EveryFormIsAnalysed
<1> QED
  BY <1>1, MeaningHolds, PTL
==============================================================================
