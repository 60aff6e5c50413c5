---------------------------------- MODULE Utf8 ----------------------------------
(* The UTF-8 helpers of the line editor the REPL is built with              *)
(* (serene-repl/serene/linenoise.h).  A text is a sequence of bytes and a   *)
(* position in it counts the bytes before it, as in the source.             *)
EXTENDS Integers, Sequences, FiniteSets

\* What is read behind a text is its terminator.
ByteAt(t, pos) == IF pos < Len(t) THEN t[pos + 1] ELSE 0
Continues(b) == b \div 64 = 2                       \* 10xxxxxx

\* The code points two columns wide.
WideTable ==
    UNION {4352 .. 4447, 9001 .. 9002, 11904 .. 11929, 11931 .. 12019,
     12032 .. 12245, 12272 .. 12283, 12288 .. 12350, 12353 .. 12438,
     12441 .. 12543, 12549 .. 12589, 12593 .. 12686, 12688 .. 12730,
     12736 .. 12771, 12784 .. 12830, 12832 .. 12871, 12880 .. 19903,
     19968 .. 42124, 42128 .. 42182, 43360 .. 43388, 44032 .. 55203,
     63744 .. 64255, 65040 .. 65049, 65072 .. 65106, 65108 .. 65126,
     65128 .. 65131, 65281 .. 65510, 110592 .. 110593, 127488 .. 127490,
     127504 .. 127546, 127552 .. 127560, 127568 .. 127569, 131072 .. 262141}
\* The code points that add a mark to the one before them: the blocks that
\* belong to no script, of a table that lists those of every script.
CombiningTable ==
    UNION {768 .. 879, 7616 .. 7669, 8400 .. 8412, 65024 .. 65039,
     65056 .. 65071, 917760 .. 917999}

IsWide(cp) == cp \in WideTable
IsCombining(cp) == cp \in CombiningTable
Width(cp) == IF IsCombining(cp) THEN 0 ELSE IF IsWide(cp) THEN 2 ELSE 1

\* The code point of the n bytes from pos on, and how many bytes it takes:
\* no byte when they do not begin with a complete character.
CodePoint(t, pos, n) ==
    LET first == ByteAt(t, pos)
        low(i) == ByteAt(t, pos + i) % 64
        is(k, cp) == IF n >= k THEN [len |-> k, cp |-> cp] ELSE [len |-> 0, cp |-> 0]
    IN  CASE n = 0 -> [len |-> 0, cp |-> 0]
          [] n # 0 /\ first < 128 -> is(1, first)
          [] n # 0 /\ first \div 32 = 6 -> is(2, (first % 32) * 64 + low(1))
          [] n # 0 /\ first \div 16 = 14 ->
                is(3, (first % 16) * 4096 + low(1) * 64 + low(2))
          [] n # 0 /\ first \div 8 = 30 ->
                is(4, (first % 8) * 262144 + low(1) * 4096 + low(2) * 64 + low(3))
          [] OTHER -> [len |-> 0, cp |-> 0]

\* The length of the character that ends before pos, by its bytes 10xxxxxx ...
PrevCharLen(t, pos) ==
    CHOOSE k \in 1 .. pos + 1 :
        /\ k = pos + 1 \/ ~Continues(ByteAt(t, pos - k))
        /\ \A j \in 1 .. k - 1 : Continues(ByteAt(t, pos - j))
\* ... and of the one that begins at pos, by its first byte.
CharLen(t, pos) ==
    LET b == ByteAt(t, pos)
    IN  IF pos = Len(t) THEN 0
        ELSE IF b < 128 THEN 1 ELSE IF b < 224 THEN 2 ELSE IF b < 240 THEN 3 ELSE 4

\* Faults for mutation: marks are characters of their own; a byte is a character.
GraphemeLenWithoutMarks(t, pos) == CharLen(t, pos)
PrevByteLen(t, pos) == IF pos = 0 THEN 0 ELSE 1

\* The length of the character at pos with the marks that follow it.
GraphemeLen(t, pos) ==
    LET next[p \in Nat] ==
            IF p < Len(t) /\ IsCombining(CodePoint(t, p, CharLen(t, p)).cp)
            THEN next[p + CharLen(t, p)] ELSE p
    IN  IF pos = Len(t) THEN 0 ELSE next[pos + CharLen(t, pos)] - pos

\* The length of the character before pos with its marks: nothing when there
\* are only marks before pos.
PrevGraphemeLen(t, pos) ==
    LET base[p \in 0 .. pos] ==
            IF p = 0 THEN pos
            ELSE LET len == PrevCharLen(t, p)
                 IN  IF IsCombining(CodePoint(t, p - len, len).cp)
                     THEN base[p - len] ELSE p - len
    IN  pos - base[pos]

\* Whether the loops over the characters before pos come to an end: they
\* advance by the length of each, and bytes that are no character have none.
Readable(t, pos) ==
    LET from[p \in Nat] ==
            \/ p >= pos
            \/ p >= Len(t)
            \/ LET d == CodePoint(t, p, Len(t) - p) IN d.len > 0 /\ from[p + d.len]
    IN  from[0]

\* The columns a prompt takes, up to bytes that are no character.
ColumnPos(t) ==
    LET from[p \in Nat] ==
            LET d == CodePoint(t, p, Len(t) - p)
            IN  IF p >= Len(t) \/ d.len = 0 THEN 0 ELSE Width(d.cp) + from[p + d.len]
    IN  from[0]

\* On a row of w columns, behind c of them: the columns a character of k leaves
\* at the end when it does not fit, and the columns taken behind it.
Gap(c, k, w) == IF c + k > w THEN c + k - w ELSE 0
Now(c, k, w) == IF c + k > w THEN k ELSE IF c + k = w THEN 0 ELSE c + k

\* The columns from the first character of t to the one at pos, on a terminal
\* of cols columns where ini precede t, with those that are left at the ends.
ColumnPosForMultiLine(t, pos, cols, ini) ==
    LET from[at \in Nat \X Nat] ==
            LET d == CodePoint(t, at[1], Len(t) - at[1])
                wid == Width(d.cp)
            IN  IF at[1] >= Len(t) \/ d.len = 0 THEN 0
                ELSE Gap(at[2], wid, cols) +
                     (IF at[1] >= pos THEN 0
                      ELSE wid + from[<<at[1] + d.len, Now(at[2], wid, cols)>>])
    IN  from[<<0, ini>>]

\* The characters of a text.
Decoded(t) ==
    LET from[p \in Nat] ==
            IF p >= Len(t) THEN <<>>
            ELSE LET d == CodePoint(t, p, Len(t) - p)
                 IN  IF d.len = 0 THEN <<>> ELSE <<d.cp>> \o from[p + d.len]
    IN  from[0]

(***************************************************************************)
(* Whole characters, which the helpers are for: they trust the first byte. *)
(***************************************************************************)
Byte == 0 .. 255
Leads == 0 .. 127 \cup 192 .. 247
Follows == 128 .. 191
Size(b) == IF b < 128 THEN 1 ELSE IF b < 224 THEN 2 ELSE IF b < 240 THEN 3 ELSE 4

\* One character, as it is typed.
IsChar(c) ==
    /\ c \in Seq(Byte) /\ Len(c) > 0
    /\ c[1] \in Leads /\ Len(c) = Size(c[1])
    /\ \A j \in 2 .. Len(c) : c[j] \in Follows

\* A character of t begins behind i - 1 bytes, and all of it is there.
Begins(t, i) ==
    /\ t[i] \in Leads
    /\ i + Size(t[i]) - 1 <= Len(t)
    /\ \A j \in i + 1 .. i + Size(t[i]) - 1 : t[j] \in Follows
    /\ i + Size(t[i]) <= Len(t) => t[i + Size(t[i])] \notin Follows

\* A text of whole characters.
Whole(t) ==
    /\ t \in Seq(Byte)
    /\ Len(t) > 0 => t[1] \notin Follows
    /\ \A i \in 1 .. Len(t) : t[i] \notin Follows => Begins(t, i)
=============================================================================
