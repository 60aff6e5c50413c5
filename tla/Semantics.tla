------------------------------- MODULE Semantics -------------------------------
(***************************************************************************)
(* The semantic analysis of libserene.v0 (src/libserene.v0/lib/semantics.  *)
(* cpp and lib/exprs): the forms the reader made are rewritten into        *)
(* definitions, functions and calls, by functions that call one another,   *)
(* bind symbols and number functions on the way, and go on after an error. *)
(*                                                                         *)
(* The calls in progress are a stack of frames.  SereneContext.tla takes   *)
(* the analysis of one top-level form as a single step, and a record of    *)
(* what it needs and does for the form.                                    *)
(***************************************************************************)
EXTENDS Naturals, Sequences

CONSTANTS
    Syms,           \* symbols
    def, fn,        \* those that make a list a special form
    Forms,          \* what the reader makes
    Programs,       \* the programs to analyse: sequences of forms
    Bounds          \* the sets of symbols that may be bound beforehand

VARIABLES
    program,        \* the forms given to Namespace::addTree
    before,         \* the symbols that were bound then
    env,            \* the root environment
    fns,            \* fn_counter
    stack,          \* the frames, the innermost last
    ctl             \* what happens next

vars == <<program, before, env, fns, stack, ctl>>

-----------------------------------------------------------------------------
(* Expressions                                                             *)

Number == [type |-> "number"]
Symbol(s) == [type |-> "symbol", name |-> s]
List(es) == [type |-> "list", elements |-> es]
Def(s, v) == [type |-> "def", binding |-> s, value |-> v]
Fn(n, a, b) == [type |-> "fn", name |-> n, args |-> a, body |-> b]
Call(t, ps) == [type |-> "call", target |-> t, params |-> ps]

\* The target of a call until it is known.
Unresolved == [type |-> "unresolved"]
\* The value of a symbol without a binding.
Unbound == [type |-> "unbound"]

\* The reader makes numbers, symbols, and lists of what it makes.
IsForm(e) ==
    \/ e = Number
    \/ \E s \in Syms : e = Symbol(s)
    \/ e = List(e.elements) /\ e.elements \in Seq(Forms)

ASSUME SemanticsAssumption ==
    /\ def \in Syms /\ fn \in Syms /\ def # fn
    /\ \A e \in Forms : IsForm(e)
    /\ Programs \subseteq Seq(Forms)
    /\ \A b \in Bounds : b \subseteq Syms

Anonymous(k) == <<"___fn___", k>>

\* The operator of a list: the symbol it starts with.
StartsWith(e, s) ==
    e.type = "list" /\ e.elements # <<>> /\ e.elements[1] = Symbol(s)
From(es, i) == SubSeq(es, i, Len(es))       \* List::from

Errors == {"DefWrongNumberOfArgs", "DefExpectSymbol", "FnNoArgsList",
           "FnArgsMustBeList", "CantResolveSymbol", "DontKnowHowToCallNode"}

\* llvm::Expected: a value, or the errors that were joined.
Ok(v) == [ok |-> TRUE, value |-> v]
Err(errors) == [ok |-> FALSE, errors |-> errors]

-----------------------------------------------------------------------------
(* Control                                                                 *)

Enter(e) == ctl' = [at |-> "enter", form |-> e]
Return(r) == ctl' = [at |-> "return", result |-> r]
Top == stack[Len(stack)]
Pop == SubSeq(stack, 1, Len(stack) - 1)

\* semantics::analyze is called with some forms.
Loop(forms) == [of |-> "analyze", todo |-> forms, ast |-> <<>>, errors |-> <<>>]

Entering == ctl.at = "enter"
Returning(f) == ctl.at = "return" /\ stack # <<>> /\ Top.of = f
Form == ctl.form
Result == ctl.result

TypeOK ==
    /\ program \in Programs /\ before \in Bounds
    /\ DOMAIN env = Syms
    /\ \A s \in Syms : env[s] = Unbound \/ env[s].type \in
                          {"number", "symbol", "list", "def", "fn", "call"}
    /\ fns \in Nat
    /\ \A i \in DOMAIN stack : stack[i].of \in {"analyze", "def", "fn", "call"}
    /\ \A i \in DOMAIN stack : stack[i].of = "analyze" =>
            \A j \in DOMAIN stack[i].errors : stack[i].errors[j] \in Errors
    /\ ctl.at \in {"enter", "loop", "return"}

\* addTree; what was bound before are functions.
Init ==
    /\ program \in Programs /\ before \in Bounds
    /\ env = [s \in Syms |-> IF s \in before THEN Fn(s, List(<<>>), <<>>)
                                             ELSE Unbound]
    /\ fns = 0
    /\ stack = <<Loop(program)>> /\ ctl = [at |-> "loop"]

-----------------------------------------------------------------------------
(* semantics::analyze                                                      *)

\* Fault: the loop ends at the first error.
LoopStopping ==
    /\ ctl.at = "loop"
    /\ IF Top.todo # <<>> /\ Top.errors = <<>>
       THEN /\ stack' = [stack EXCEPT ![Len(stack)].todo = Tail(@)]
            /\ Enter(Head(Top.todo))
       ELSE /\ stack' = Pop
            /\ Return(IF Top.errors = <<>> THEN Ok(Top.ast) ELSE Err(Top.errors))
    /\ UNCHANGED <<program, before, env, fns>>

\* One form after the other; the errors of all are returned.
AnalyzeNext ==
    /\ ctl.at = "loop"
    /\ IF Top.todo # <<>>
       THEN /\ stack' = [stack EXCEPT ![Len(stack)].todo = Tail(@)]
            /\ Enter(Head(Top.todo))
       ELSE /\ stack' = Pop
            /\ Return(IF Top.errors = <<>> THEN Ok(Top.ast) ELSE Err(Top.errors))
    /\ UNCHANGED <<program, before, env, fns>>

AnalyzeResult ==
    /\ Returning("analyze")
    /\ stack' = IF Result.ok
                THEN [stack EXCEPT ![Len(stack)].ast = Append(@, Result.value)]
                ELSE [stack EXCEPT ![Len(stack)].errors = @ \o Result.errors]
    /\ ctl' = [at |-> "loop"]
    /\ UNCHANGED <<program, before, env, fns>>

\* Fault: the null node that says "no rewrite" is taken for the result.
AnalyzeAtomAway ==
    /\ Entering
    /\ Form.type \in {"symbol", "number"} \/ Form = List(<<>>)
    /\ Return(Ok([type |-> "null"]))
    /\ UNCHANGED <<program, before, env, fns, stack>>

\* Symbols, numbers and the empty list stay as they are.
AnalyzeAtom ==
    /\ Entering
    /\ Form.type \in {"symbol", "number"} \/ Form = List(<<>>)
    /\ Return(Ok(Form))
    /\ UNCHANGED <<program, before, env, fns, stack>>

-----------------------------------------------------------------------------
(* Def::make                                                               *)

BeginDef ==
    LET es == Form.elements
    IN  /\ Entering /\ StartsWith(Form, def)
        /\ \/ /\ Len(es) # 3
              /\ Return(Err(<<"DefWrongNumberOfArgs">>)) /\ UNCHANGED stack
           \/ /\ Len(es) = 3 /\ es[2].type # "symbol"
              /\ Return(Err(<<"DefExpectSymbol">>)) /\ UNCHANGED stack
           \/ /\ Len(es) = 3 /\ es[2].type = "symbol"
              /\ stack' = Append(stack, [of |-> "def", binding |-> es[2].name])
              /\ Enter(es[3])
        /\ UNCHANGED <<program, before, env, fns>>

\* Fault: a function keeps the name it was made with.
NamedNever(v, s) == v

\* A function is named after the symbol it is bound to.
Named(v, s) == IF v.type = "fn" THEN [v EXCEPT !.name = s] ELSE v

\* Fault: a symbol that is bound keeps its value.
DefineOnce(s, v) == env' = [env EXCEPT ![s] = IF @ = Unbound THEN v ELSE @]

\* Namespace::define: the value replaces the one the symbol had.
Define(s, v) == env' = [env EXCEPT ![s] = v]

FinishDef ==
    LET s == Top.binding
    IN  /\ Returning("def")
        /\ stack' = Pop
        /\ \/ ~Result.ok /\ Return(Result) /\ UNCHANGED env
           \/ /\ Result.ok
              /\ Define(s, Named(Result.value, s))
              /\ Return(Ok(Def(s, Named(Result.value, s))))
        /\ UNCHANGED <<program, before, fns>>

-----------------------------------------------------------------------------
(* Fn::make                                                                *)

\* The node is made, and takes the next number, when its body is analysed.
MakeFn(args, body) ==
    /\ Return(Ok(Fn(Anonymous(fns), args, body)))
    /\ fns' = fns + 1

BeginFn ==
    LET es == Form.elements
    IN  /\ Entering /\ StartsWith(Form, fn)
        /\ \/ /\ Len(es) < 2
              /\ Return(Err(<<"FnNoArgsList">>)) /\ UNCHANGED <<stack, fns>>
           \/ /\ Len(es) >= 2 /\ es[2].type # "list"
              /\ Return(Err(<<"FnArgsMustBeList">>)) /\ UNCHANGED <<stack, fns>>
           \/ /\ Len(es) = 2 /\ es[2].type = "list"
              /\ MakeFn(es[2], <<>>) /\ UNCHANGED stack
           \/ /\ Len(es) > 2 /\ es[2].type = "list"
              /\ stack' = stack \o <<[of |-> "fn", args |-> es[2]], Loop(From(es, 3))>>
              /\ ctl' = [at |-> "loop"] /\ UNCHANGED fns
        /\ UNCHANGED <<program, before, env>>

FinishFn ==
    /\ Returning("fn")
    /\ stack' = Pop
    /\ \/ ~Result.ok /\ Return(Result) /\ UNCHANGED fns
       \/ Result.ok /\ MakeFn(Top.args, Result.value)
    /\ UNCHANGED <<program, before, env>>

-----------------------------------------------------------------------------
(* Call::make                                                              *)

BeginCall ==
    /\ Entering
    /\ Form.type = "list" /\ Form.elements # <<>>
    /\ ~StartsWith(Form, def) /\ ~StartsWith(Form, fn)
    /\ stack' = Append(stack, [of |-> "call", target |-> Unresolved,
                               rest |-> From(Form.elements, 2)])
    /\ Enter(Form.elements[1])
    /\ UNCHANGED <<program, before, env, fns>>

\* The call goes on with its parameters, or fails at once.
Resolve(t) ==
    /\ stack' = Append([stack EXCEPT ![Len(stack)].target = t], Loop(Top.rest))
    /\ ctl' = [at |-> "loop"]
Refuse(errors) == stack' = Pop /\ Return(Err(errors))

\* Fault: the symbol is looked up once the parameters have been analysed, so
\* the call takes what they bind.
ResolveCallLate ==
    /\ Returning("call") /\ Top.target = Unresolved
    /\ \/ ~Result.ok /\ Refuse(Result.errors)
       \/ Result.ok /\ Resolve(Result.value)
    /\ UNCHANGED <<program, before, env, fns>>

\* Environment::lookup; the environment of an analysis has no parent.
Lookup(s) == env[s]

\* The first element is analysed.  A symbol stands for what it is bound to
\* now, whatever that is.
ResolveCall ==
    LET first == Result.value
    IN  /\ Returning("call") /\ Top.target = Unresolved
        /\ \/ ~Result.ok /\ Refuse(Result.errors)
           \/ /\ Result.ok /\ first.type = "symbol"
              /\ IF Lookup(first.name) = Unbound
                 THEN Refuse(<<"CantResolveSymbol">>)
                 ELSE Resolve(Lookup(first.name))
           \/ /\ Result.ok /\ first.type \in {"def", "call", "fn"}
              /\ Resolve(first)
           \/ /\ Result.ok /\ first.type \in {"number", "list"}
              /\ Refuse(<<"DontKnowHowToCallNode">>)
        /\ UNCHANGED <<program, before, env, fns>>

FinishCall ==
    /\ Returning("call") /\ Top.target # Unresolved
    /\ stack' = Pop
    /\ Return(IF Result.ok THEN Ok(Call(Top.target, Result.value)) ELSE Result)
    /\ UNCHANGED <<program, before, env, fns>>

-----------------------------------------------------------------------------
Next ==
    \/ AnalyzeNext \/ AnalyzeResult \/ AnalyzeAtom
    \/ BeginDef \/ FinishDef
    \/ BeginFn \/ FinishFn
    \/ BeginCall \/ ResolveCall \/ FinishCall

Spec == Init /\ [][Next]_vars

Done == stack = <<>>

-----------------------------------------------------------------------------
(* Properties of the code alone; SemanticsMeaning.tla has those that       *)
(* compare it with what programs mean.                                     *)

\* def.cpp:98-107: a function that can be found under a symbol has its name,
\* wherever it was made and whatever it was called before.
FunctionsKnowTheirNames ==
    \A s \in Syms : env[s] # Unbound /\ env[s].type = "fn" => env[s].name = s
=============================================================================
