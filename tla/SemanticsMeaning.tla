--------------------------- MODULE SemanticsMeaning ---------------------------
(***************************************************************************)
(* What a program of Serene means to the semantic analyser, defined on the *)
(* text of the program, without its order of work: the trace of uses,      *)
(* bindings, functions and faults in a form.                               *)
(***************************************************************************)
EXTENDS Semantics, SequencesExt, FiniteSets

CONSTANT Depth      \* how deep the lists in each form are nested

\* The reader makes trees.
ASSUME DepthAssumption ==
    /\ Depth \in [Forms -> Nat]
    /\ \A e \in Forms : e.type = "list" =>
          \A i \in DOMAIN e.elements : Depth[e.elements[i]] < Depth[e]

Atom(e) == e.type # "list" \/ e.elements = <<>>

\* A special form is written as it has to be.
DefFits(es) == Len(es) = 3 /\ es[2].type = "symbol"
FnFits(es) == Len(es) >= 2 /\ es[2].type = "list"

\* The type of the node that analysing a form that is right gives.
TypeOf(e) ==
    IF Atom(e) THEN e.type
    ELSE IF StartsWith(e, def) THEN "def"
    ELSE IF StartsWith(e, fn) THEN "fn" ELSE "call"

\* What a form does, in the order in which it does it.
Use(s) == [does |-> "use", sym |-> s]
Bind(s, t) == [does |-> "bind", sym |-> s, type |-> t]
Make == [does |-> "make"]
Fault == [does |-> "fault"]

\* What it takes to call what a form of this type gives: a symbol that is
\* bound, or anything but a number and a list.
Target(e) ==
    IF e.type = "symbol" THEN <<Use(e.name)>>
    ELSE IF TypeOf(e) \in {"number", "list"} THEN <<Fault>> ELSE <<>>

\* The trace of forms one after the other, given that of each.
Sequence(trace, es) == FlattenSeq([i \in DOMAIN es |-> trace[es[i]]])

TraceStep(trace, e) ==
    LET es == e.elements
    IN  IF Atom(e) THEN <<>>
        ELSE IF StartsWith(e, def)
             THEN IF DefFits(es)
                  THEN Append(trace[es[3]], Bind(es[2].name, TypeOf(es[3]))) ELSE <<Fault>>
        ELSE IF StartsWith(e, fn)
             THEN IF FnFits(es) THEN Append(Sequence(trace, From(es, 3)), Make) ELSE <<Fault>>
        ELSE trace[es[1]] \o Target(es[1]) \o Sequence(trace, From(es, 2))

Trace[e \in Forms] == TraceStep(Trace, e)
Traces(es) == Sequence(Trace, es)

Binds(t, s) == {i \in DOMAIN t : t[i].does = "bind" /\ t[i].sym = s}

\* A program is right when it has no fault and every symbol that is called was
\* bound before the program or earlier in it.
RightTrace(t, bound) ==
    \A i \in DOMAIN t :
        /\ t[i].does # "fault"
        /\ t[i].does = "use" =>
              t[i].sym \in bound \/ \E j \in Binds(t, t[i].sym) : j < i
IsRight(es, bound) == RightTrace(Traces(es), bound)

-----------------------------------------------------------------------------
(* Properties                                                              *)

\* analyze (semantics.cpp:34-70) and the make functions: a program is accepted
\* exactly when it is right.  A use that a later form binds, or the very
\* definition it stands in, does not count.
AcceptanceIsRight == Done => (Result.ok <=> IsRight(program, before))

\* def.cpp:105, fn.cpp:42: an accepted program has bound what its text says,
\* each symbol to the value it was given last, and numbered each of its
\* functions once.
EffectsAreRight ==
    LET t == Traces(program)
    IN  Done /\ Result.ok =>
            /\ \A s \in Syms :
                  IF Binds(t, s) = {}
                  THEN env[s] # Unbound <=> s \in before
                  ELSE env[s].type = t[Max(Binds(t, s))].type
            /\ fns = Cardinality({i \in DOMAIN t : t[i].does = "make"})

\* semantics.cpp:59 goes on after an error: a form that is right by itself has
\* bound its symbols whatever stands before it, and every form that cannot be
\* right has its own error in what is returned.
EveryFormIsAnalysed ==
    Done =>
        /\ \A i \in DOMAIN program : \A s \in Syms :
              /\ IsRight(<<program[i]>>, before)
              /\ Binds(Traces(<<program[i]>>), s) # {}
              => env[s] # Unbound
        /\ ~Result.ok =>
              Len(Result.errors) >=
                Cardinality({i \in DOMAIN program : ~IsRight(<<program[i]>>, Syms)})
=============================================================================
