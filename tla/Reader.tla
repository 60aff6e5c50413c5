--------------------------------- MODULE Reader ---------------------------------
(***************************************************************************)
(* The reader of libserene.v0 (src/libserene.v0/lib/reader/reader.cpp): a  *)
(* recursive descent over a buffer of characters, with a pointer that only *)
(* moves forward and a location that is kept along with it.                *)
(*                                                                         *)
(* Characters are the classes the code tells apart, letters being written  *)
(* "a", digits "5", characters no expression can start with "#" and a byte *)
(* 0 "nul".  The recursion of readList and readExpr is a depth; the tree   *)
(* they build is the sequence of what they read, lists by their two        *)
(* parentheses.                                                            *)
(***************************************************************************)
EXTENDS Naturals, Sequences, FiniteSets

Chars == {"(", ")", "5", ".", "-", "a", "#", " ", "\n"}
Bytes == Chars \cup {"nul"}

CONSTANTS
    Texts,      \* the buffers that are read
    Tails,      \* what may follow a buffer in memory
    LocMod      \* lines and columns are counted modulo this, 2^16 in the code

ASSUME ReaderAssumption ==
    /\ Texts \subseteq Seq(Bytes) /\ Tails \subseteq Seq(Bytes)
    /\ \A t \in Tails : t # <<>> /\ t[Len(t)] = "nul"
    /\ LocMod \in Nat /\ LocMod > 1

VARIABLES
    text,       \* buf
    mem,        \* the memory it lies in: buf and what follows
    pos,        \* currentChar, as an index of mem; currentPos is one more
    pc,         \* the function the reader is in
    depth,      \* how many lists are open
    out,        \* what was read
    err         \* the error returned

vars == <<text, mem, pos, pc, depth, out, err>>

Space == {" ", "\n"}
Digit == {"5"}
Alpha == {"a"}
NumberChar == Digit \cup {"."}
Identifier == Alpha \cup NumberChar \cup {"-"}      \* isValidForIdentifier

\* A LocationRange has two locations.  That of a list starts in its "open" and
\* ends in its "close".
Location == [line : Nat, col : Nat]
Item == [kind : {"open", "close", "symbol", "number"},
         from : Nat, to : Nat, start : Location, end : Location]

TypeOK ==
    /\ text \in Texts /\ mem \in Seq(Bytes)
    /\ pos \in Nat /\ depth \in Nat
    /\ pc \in {"read", "open", "list", "symbol", "number", "negative",
               "done", "error"}
    /\ out \in Seq(Item)
    /\ err \in {"none", "EOFWhileScaningAList", "InvalidCharacterForSymbol",
                "InvalidDigitForNumber", "TwoFloatPoints"}

\* The constructor points in front of the buffer.
Init ==
    /\ text \in Texts /\ mem \in {text \o t : t \in Tails}
    /\ pos = 0 /\ pc = "read" /\ depth = 0 /\ out = <<>> /\ err = "none"

-----------------------------------------------------------------------------
(* Looking ahead, and locations                                            *)

\* nextChar(true): the next character that is not a space.
NextNonSpace ==
    CHOOSE i \in pos + 1 .. Len(mem) :
        /\ mem[i] \notin Space
        /\ \A k \in pos + 1 .. i - 1 : mem[k] \in Space

\* Fault: the position is compared as if it were the pointer's.
EndOfBufferLate(i, p) == mem[i] = "nul" \/ p > Len(text)
\* isEndOfBuffer, when the reader is at p; a byte 0xFF is taken for the end
\* of the file as well, which no text encoded in UTF-8 contains.
EndOfBuffer(i, p) == mem[i] = "nul" \/ p + 1 > Len(text)

\* advanceByOne: the location after a character, from the one before it.
Start == [line |-> 1, col |-> 1, eol |-> FALSE]
\* Fault: a new line is only counted by the character that follows it.
StepSkippingEmptyLines(loc, c) ==
    [line |-> IF loc.eol /\ c # "\n" THEN (loc.line + 1) % LocMod ELSE loc.line,
     col  |-> IF loc.eol THEN 1 ELSE (loc.col + 1) % LocMod,
     eol  |-> c = "\n"]
Step(loc, c) ==
    [line |-> IF loc.eol THEN (loc.line + 1) % LocMod ELSE loc.line,
     col  |-> IF loc.eol THEN 1 % LocMod ELSE (loc.col + 1) % LocMod,
     eol  |-> c = "\n"]
LocationAt[p \in Nat] ==
    IF p = 0 THEN Start ELSE Step(LocationAt[p - 1], mem[p])
At(p) == [line |-> LocationAt[p].line, col |-> LocationAt[p].col]

\* A node that covers the characters given, and its locations.
Read(kind, from, to, start, end) ==
    out' = Append(out, [kind |-> kind, from |-> from, to |-> to,
                        start |-> start, end |-> end])
\* What a location is that was not given.
Unset == [line |-> 0, col |-> 0]

Fail(e, p) ==
    pc' = "error" /\ err' = e /\ pos' = p /\ UNCHANGED <<depth, out>>

\* Where an expression has been read, in a list or at the top.
Back(d) == IF d = 0 THEN "read" ELSE "list"

-----------------------------------------------------------------------------
\* readExpr: spaces are skipped, and the next character decides.  There is
\* none when only spaces were left of a buffer without a terminator: read
\* then stops at the empty node, and readList goes on.
ReadExpr(i) ==
    /\ pos' = i - 1
    /\ \/ EndOfBuffer(i, i - 1) /\ pc' = IF depth = 0 THEN "done" ELSE "list"
       \/ ~EndOfBuffer(i, i - 1) /\ mem[i] = "(" /\ pc' = "open"
       \/ ~EndOfBuffer(i, i - 1) /\ mem[i] # "(" /\ pc' = "symbol"
    /\ UNCHANGED <<depth, out, err>>

\* Fault: the end of the buffer does not end the loop.
ReadTopSpinning ==
    LET i == NextNonSpace
    IN  /\ pc = "read"
        /\ IF text = <<>> \/ EndOfBuffer(i, pos)
           THEN UNCHANGED <<pos, pc, depth, out, err>>
           ELSE ReadExpr(i)
        /\ UNCHANGED <<text, mem>>

\* read: one expression after the other, up to the end of the buffer.
ReadTop ==
    LET i == NextNonSpace
    IN  /\ pc = "read"
        /\ \/ /\ text = <<>> \/ EndOfBuffer(i, pos)
              /\ pc' = "done" /\ UNCHANGED <<pos, depth, out, err>>
           \/ /\ text # <<>> /\ ~EndOfBuffer(i, pos)
              /\ ReadExpr(i)
        /\ UNCHANGED <<text, mem>>

\* Fault: the list read is not counted as open.
OpenListShallow ==
    /\ pc = "open"
    /\ pos' = pos + 1 /\ pc' = "list"
    /\ Read("open", pos + 1, pos + 1, At(pos + 1), Unset)
    /\ UNCHANGED <<text, mem, depth, err>>

\* readList, before and in its loop.
OpenList ==
    /\ pc = "open"
    /\ pos' = pos + 1 /\ depth' = depth + 1 /\ pc' = "list"
    /\ Read("open", pos + 1, pos + 1, At(pos + 1), Unset)
    /\ UNCHANGED <<text, mem, err>>

\* Fault: the end of the buffer closes every list.
ReadListLeniently ==
    LET i == NextNonSpace
    IN  /\ pc = "list"
        /\ \/ /\ EndOfBuffer(i, pos)
              /\ pc' = "done" /\ UNCHANGED <<pos, depth, out, err>>
           \/ /\ ~EndOfBuffer(i, pos) /\ mem[i] = ")"
              /\ pos' = i /\ depth' = depth - 1 /\ pc' = Back(depth - 1)
              /\ Read("close", i, i, Unset, At(i)) /\ UNCHANGED err
           \/ /\ ~EndOfBuffer(i, pos) /\ mem[i] # ")"
              /\ ReadExpr(i)
        /\ UNCHANGED <<text, mem>>

ReadList ==
    LET i == NextNonSpace
    IN  /\ pc = "list"
        /\ \/ EndOfBuffer(i, pos) /\ Fail("EOFWhileScaningAList", i)
           \/ /\ ~EndOfBuffer(i, pos) /\ mem[i] = ")"
              /\ pos' = i /\ depth' = depth - 1 /\ pc' = Back(depth - 1)
              /\ Read("close", i, i, Unset, At(i)) /\ UNCHANGED err
           \/ /\ ~EndOfBuffer(i, pos) /\ mem[i] # ")"
              /\ ReadExpr(i)
        /\ UNCHANGED <<text, mem>>

\* The last character of the symbol that starts at the next one.
SymbolEnd ==
    CHOOSE e \in pos + 1 .. Len(mem) :
        /\ \A k \in pos + 2 .. e :
              mem[k] \in Identifier /\ ~EndOfBuffer(k, k - 1)
        /\ mem[e + 1] \notin Identifier \/ EndOfBuffer(e + 1, e)

\* A symbol that starts like a number is read as one.  The range of a symbol
\* is only given its end.
ReadSymbol ==
    LET c == mem[pos + 1]
        invalid == c \notin Identifier \/ EndOfBuffer(pos + 1, pos)
        negative == c = "-" /\ mem[pos + 2] \in Digit
    IN  /\ pc = "symbol"
        /\ \/ invalid /\ Fail("InvalidCharacterForSymbol", pos + 1)
           \/ /\ ~invalid /\ (negative \/ c \in Digit)
              /\ IF negative THEN pc' = "negative" /\ pos' = pos + 1
                             ELSE pc' = "number" /\ pos' = pos
              /\ UNCHANGED <<depth, out, err>>
           \/ /\ ~invalid /\ ~negative /\ c \notin Digit
              /\ pos' = SymbolEnd /\ pc' = Back(depth)
              /\ Read("symbol", pos + 1, SymbolEnd, Unset, At(SymbolEnd))
              /\ UNCHANGED <<depth, err>>
        /\ UNCHANGED <<text, mem>>

\* The last digit or point in a row; the end of the buffer is not looked for.
NumberEnd ==
    CHOOSE e \in pos + 1 .. Len(mem) :
        /\ \A k \in pos + 1 .. e : mem[k] \in NumberChar
        /\ mem[e + 1] \notin NumberChar
\* The points after the first one: the number is given up at the first of
\* these, with the pointer still in front of it.
ExtraPoints(e) ==
    {k \in pos + 1 .. e : mem[k] = "." /\ \E j \in pos + 1 .. k - 1 : mem[j] = "."}

\* Fault: what follows the number is not looked at, and the sign is forgotten.
ReadNumberLeniently ==
    LET e == NumberEnd
    IN  /\ pc \in {"number", "negative"}
        /\ ExtraPoints(e) = {}
        /\ pos' = e /\ pc' = Back(depth)
        /\ Read("number", pos + 1, e, At(pos + 1), At(e))
        /\ UNCHANGED <<text, mem, depth, err>>

\* readNumber, of which readSymbol has seen the first digit, and swallowed
\* the sign.
ReadNumber ==
    LET e == NumberEnd
        first == IF pc = "negative" THEN pos ELSE pos + 1
    IN  /\ pc \in {"number", "negative"}
        /\ \/ \E k \in ExtraPoints(e) :
                 /\ \A j \in ExtraPoints(e) : k <= j
                 /\ Fail("TwoFloatPoints", k - 1)
           \/ ExtraPoints(e) = {} /\ mem[e + 1] \in Alpha
              /\ Fail("InvalidDigitForNumber", e + 1)
           \/ /\ ExtraPoints(e) = {} /\ mem[e + 1] \notin Alpha
              /\ pos' = e /\ pc' = Back(depth)
              /\ Read("number", first, e, At(pos + 1), At(e))
              /\ UNCHANGED <<depth, err>>
        /\ UNCHANGED <<text, mem>>

Next == ReadTop \/ OpenList \/ ReadList \/ ReadSymbol \/ ReadNumber

\* The reader is a loop of one thread.
Spec == Init /\ [][Next]_vars /\ WF_vars(Next)

-----------------------------------------------------------------------------
(* Properties                                                              *)

\* The buffers the program reads are strings and files, which end in a nul.
\* Texts with a byte 0 in them are not among these: what follows it is not
\* read, and not refused either.
Terminated == mem = text \o <<"nul">> /\ text \in Seq(Chars)

\* reader.h:79-80 ("The position tracker that we will use to determine the end
\* of the buffer since the buffer might not be null terminated"): whatever
\* follows the buffer, what is read lies in it.
StaysInBuffer == \A k \in DOMAIN out : out[k].to <= Len(text)

\* reader.cpp:182-184, 238-252: whatever follows the buffer, nothing begins
\* behind its end but a parenthesis that closes a list after nothing but
\* spaces, and nothing that begins in it ends behind it but a number.
RunsOver(item) ==
    \/ /\ item.kind = "number" /\ item.from <= Len(text)
       /\ \A i \in Len(text) + 1 .. item.to : mem[i] \in NumberChar
    \/ /\ item.kind = "close"
       /\ \A i \in Len(text) .. item.to - 1 : mem[i] \in Space
OverrunsAreKnown ==
    \A k \in DOMAIN out : out[k].to > Len(text) => RunsOver(out[k])

\* reader.cpp:393-419: nothing is dropped: when the reader is done, every
\* character of the buffer that is not a space is in exactly one of the
\* things read, and these come in the order of the text.
NothingDropped ==
    Terminated /\ pc = "done" =>
        /\ \A i \in DOMAIN text : text[i] \notin Space =>
              \E k \in DOMAIN out : i \in out[k].from .. out[k].to
        /\ \A k, l \in DOMAIN out : k < l => out[k].to < out[l].from

\* reader.cpp:320-366: what is accepted is balanced, and an unbalanced or
\* malformed text is what every error stands for.
Count(c, n) == Cardinality({i \in 1 .. n : i <= Len(text) /\ text[i] = c})
Balanced ==
    /\ \A n \in DOMAIN text : Count(")", n) <= Count("(", n)
    /\ Count(")", Len(text)) = Count("(", Len(text))
Justified(e, p) ==
    CASE e = "EOFWhileScaningAList" ->
            Count(")", Len(text)) < Count("(", Len(text))
      [] e = "InvalidCharacterForSymbol" ->
            text[p] = "#" \/ (text[p] = ")" /\ Count("(", p) < Count(")", p))
      [] e = "InvalidDigitForNumber" ->
            text[p] \in Alpha /\ text[p - 1] \in NumberChar
      [] e = "TwoFloatPoints" ->
            text[p + 1] = "." /\ Count(".", p) > 0
VerdictIsRight ==
    /\ Terminated /\ pc = "done" => Balanced /\ Count("#", Len(text)) = 0
    /\ Terminated /\ pc = "error" => Justified(err, pos)

\* The locations an item was given, with the characters they are of.
Digits(item) == IF text[item.from] = "-" THEN item.from + 1 ELSE item.from
Given(item) ==
    CASE item.kind = "open" -> {<<item.from, item.start>>}
      [] item.kind = "number" ->
            {<<Digits(item), item.start>>, <<item.to, item.end>>}
      [] OTHER -> {<<item.to, item.end>>}

\* j is the new line before the line of character i, or 0 for the first line.
LineBefore(j, i) ==
    /\ j < i /\ (j = 0 \/ text[j] = "\n")
    /\ \A n \in j + 1 .. i - 1 : text[n] # "\n"

\* reader.cpp:126-150: the line of a location is one more than the lines that
\* end before it, empty lines included, and its column counts the characters
\* from 1, but from 2 on the first line (all modulo the width of the fields).
LocationsAreRight ==
    Terminated => \A k \in DOMAIN out : \A given \in Given(out[k]) :
        LET i == given[1]
        IN  /\ given[2].line = (1 + Count("\n", i - 1)) % LocMod
            /\ \A j \in 0 .. Len(text) : LineBefore(j, i) =>
                  given[2].col = (i - j + (IF j = 0 THEN 1 ELSE 0)) % LocMod

\* reader.cpp:393-419: whenever reading has begun it ends, with a tree or an
\* error, terminator or not.
ReaderReturns == []<>(pc \in {"done", "error"})
=============================================================================
