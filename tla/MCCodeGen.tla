------------------------------- MODULE MCCodeGen -------------------------------
(* Jobs for checking CodeGen.                                              *)
EXTENDS CodeGen

CONSTANT MaxForms       \* bound: the forms of a tree, the functions of a module

Job == [kind |-> "eval", tree |-> <<>>, passes |-> <<>>, phase |-> 6, named |-> TRUE,
        ops |-> <<>>, funcs |-> <<>>]

\* Trees, with what setOperationPhase may have left in the pass manager.
Node == [is |-> "other", def |-> FALSE, num |-> 0, symbols |-> TRUE, name |-> <<"f">>]
Num(n) == [Node EXCEPT !.is = "number", !.num = n]
Nodes == {Num(1), Num(-2), Num(IntMax), Num(IntMax + 1), [Num(1) EXCEPT !.def = TRUE],
          [Node EXCEPT !.is = "fn"], [Node EXCEPT !.is = "fn", !.def = TRUE],
          [Node EXCEPT !.is = "fn", !.symbols = FALSE], Node}
Down == <<"ToMLIR", "ToLLVM">>
Pipelines == {[phase |-> 6, passes |-> <<>>], [phase |-> 3, passes |-> <<"ToMLIR">>],
              [phase |-> 4, passes |-> Down], [phase |-> 6, passes |-> Down],
              [phase |-> 5, passes |-> <<"ToMLIR">> \o Down],
              [phase |-> 6, passes |-> Down \o Down],
              [phase |-> 3, passes |-> Down \o <<"ToMLIR">>]}
Evals == {[Job EXCEPT !.tree = t, !.phase = p.phase, !.passes = p.passes] :
            t \in BoundedSeq(Nodes, MaxForms), p \in Pipelines}

\* SLIR: two values, the second may use the first, and two definitions.
Values == {[Op EXCEPT !.op = "value"], [Op EXCEPT !.op = "value", !.scalar = FALSE],
           [Op EXCEPT !.op = "symbol", !.scalar = FALSE],
           [Op EXCEPT !.op = "fn", !.scalar = FALSE], [Op EXCEPT !.op = "calc"]}
Seconds == {<<>>, <<[Op EXCEPT !.op = "calc", !.id = 2, !.uses = {1}]>>,
            <<[Op EXCEPT !.op = "call", !.id = 2, !.uses = {1}]>>}
Define(name, u, t) ==
    [Op EXCEPT !.op = "define", !.name = <<name>>, !.uses = {u}, !.top = t]
Opts ==
    {[Job EXCEPT !.kind = "opt", !.passes = <<"LowerSLIR">>, !.named = named,
                 !.ops = <<[v EXCEPT !.id = 1]>> \o w \o
                         <<Define("a", 1, s), Define("b", IF w = <<>> THEN 1 ELSE u, t)>>] :
        named \in BOOLEAN, v \in Values, w \in Seconds, u \in {1, 2}, s \in BOOLEAN,
        t \in BOOLEAN}

\* LLVM modules, their functions called f, g, ...
Shapes == {[Func EXCEPT !.params = n, !.void = v] : n \in 0 .. 2, v \in BOOLEAN}
            \union {[Func EXCEPT !.declared = TRUE]}
Packs == {[Job EXCEPT !.kind = "pack",
                      !.funcs = [i \in DOMAIN s |->
                                   [s[i] EXCEPT !.name = << <<"f", "g", "h">>[i] >>]]] :
            s \in BoundedSeq(Shapes, MaxForms)}

AllJobs == Evals \union Opts \union Packs
=============================================================================
