------------------------------ MODULE MCSemantics ------------------------------
(* Constants for checking Semantics.                                       *)
EXTENDS SemanticsMeaning

CONSTANTS f, g,
    MaxList,        \* bound: the elements of a list
    MaxForms        \* bound: the top-level forms of a pair of programs

AllSyms == {def, fn, f, g}
Atoms == {Number, Symbol(def), Symbol(fn), Symbol(f), Symbol(g)}
ListsOf(es, n) == {List(l) : l \in BoundedSeq(es, n)}

\* Forms in two levels of lists.  The inner ones are those a list may contain
\* that matter to it: a function, a definition, a call, and faulty ones.
InnerLists ==
    {List(<<>>), List(<<Symbol(f)>>), List(<<Symbol(fn), List(<<>>)>>),
     List(<<Symbol(fn), List(<<>>), List(<<Symbol(f)>>)>>),
     List(<<Symbol(def), Symbol(f), Number>>), List(<<Symbol(def), Symbol(f)>>)}
Nested == ListsOf(Atoms \union InnerLists, MaxList)

\* Forms for programs of several.
Simple == {Symbol(f), List(<<Symbol(f)>>), List(<<Symbol(g), List(<<Symbol(f)>>)>>)}
    \union InnerLists
    \union {List(<<Symbol(def), Symbol(s), e>>) :
               s \in {f, g}, e \in {Symbol(g), List(<<Symbol(fn), List(<<>>)>>),
                                    List(<<Symbol(fn), List(<<>>), List(<<Symbol(g)>>)>>)}}
    \union {List(<<List(<<Symbol(fn), List(<<>>)>>), List(<<Symbol(g)>>)>>)}

AllPrograms == {<<e>> : e \in Nested} \union BoundedSeq(Simple, MaxForms)
AllBounds == {{}, {f}}

\* The forms of the programs, and what is inside them.
AndInside(es) ==
    es \union UNION {Range(e.elements) : e \in {l \in es : l.type = "list"}}
AllForms == AndInside(AndInside(AndInside(Nested \union Simple)))
AllDepths[e \in AllForms] ==
    IF e.type = "list" /\ e.elements # <<>>
    THEN 1 + Max({AllDepths[i] : i \in Range(e.elements)}) ELSE 0
=============================================================================
