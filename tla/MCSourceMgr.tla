------------------------------ MODULE MCSourceMgr ------------------------------
(* Constants for checking SourceMgr, and Reader with it.                   *)
EXTENDS SourceMgr, SequencesExt

CONSTANTS
    MaxText,        \* bound: the length of the inputs
    MaxReads,       \* bound: the namespaces read
    MaxEdits        \* bound: the edits of files

AllTexts == BoundedSeq(Bytes, MaxText)
\* A buffer with its terminator, and ones with other characters behind it.
AnyTail == {<<"nul">>, <<"5", "nul">>, <<")", "nul">>}

\* Nothing, empty lines, one list on two lines, and one that is not closed.
SomeContents == {<<>>, <<"\n", "\n", "5">>, <<"(", "\n", "a", ")">>, <<"(">>}
NoContents == {}
TwoNames == {"x", "y"}
TwoWidths == <<4, 8>>

\* Any input alone, or the empty one and namespaces after it.
TwoKinds ==
    [input : AllTexts, tail : AnyTail, reads : {0}, edits : {0}] \cup
    {[input |-> <<>>, tail |-> <<"nul">>, reads |-> MaxReads, edits |-> MaxEdits]}
=============================================================================
