------------------------------- MODULE ReplProofs -------------------------------
(* What Repl promises of the history, for every user, terminal, prompt and  *)
(* length of the history, however often the REPL is started; that its       *)
(* editor of bytes is an editor of characters for every user who types      *)
(* whole characters and whose line fits the buffer; and that the terminal   *)
(* shows the line.                                                          *)
EXTENDS Repl, LineEditorProofs

SetOf(h) == {h[i] : i \in DOMAIN h}

IsSeq(h) == h \in Seq(SetOf(h))

NoRepeats(h) == \A i \in 1 .. Len(h) - 1 : h[i] # h[i + 1]

EndsBlank(h) == h # <<>> /\ h[Len(h)] = <<>>

\* d is the end of s, by positions.
EndOf(d, s) ==
    /\ Len(d) <= Len(s)
    /\ \A i \in 1 .. Len(d) : d[i] = s[Len(s) - Len(d) + i]

\* The history h of a user who has said s.
Recent(h, s) ==
    /\ IsSeq(h) /\ IsSeq(s)
    /\ Len(h) <= HistoryMaxLen
    /\ NoRepeats(h)
    /\ \A i \in 1 .. Len(s) : s[i] # <<>>
    /\ EndOf(Said(h), s)
    /\ Said(h) = s \/ Len(Said(h)) >= HistoryMaxLen - 1

\* The history of a user who has said s and edits a line: the last entry is the
\* line's.
Draft(h, s) ==
    /\ IsSeq(h) /\ h # <<>> /\ Len(h) <= HistoryMaxLen
    /\ Recent(Front(h), s) /\ ~EndsBlank(Front(h))

\* What the user remembers are records.
SaidTyped ==
    /\ said = [lines |-> said.lines, alone |-> said.alone] /\ said.alone \in BOOLEAN
    /\ saidSaved = [lines |-> saidSaved.lines, alone |-> saidSaved.alone]
    /\ saidSaved.alone \in BOOLEAN

\* The inductive invariant of the history.  A line that comes without an entry
\* is empty.
RecentInv ==
    Rereads =>
        /\ SaidTyped
        /\ saidSaved.alone => Recent(file, saidSaved.lines)
        /\ said.alone =>
            /\ mode \in {"prompt", "eval", "quit"} => Recent(history, said.lines)
            /\ mode = "edit" => Draft(history, said.lines)
            /\ mode = "eval" /\ EndsBlank(history) => line = <<>>

-----------------------------------------------------------------------------
\* A sequence over any set is one over its own elements.
LEMMA SeqOwn ==
    ASSUME NEW S, NEW h \in Seq(S)
    PROVE  IsSeq(h) /\ SetOf(h) \subseteq S
<1>1. h \in [1 .. Len(h) -> S] /\ Len(h) \in Nat /\ DOMAIN h = 1 .. Len(h)
  BY LenProperties
<1>2. h \in [1 .. Len(h) -> SetOf(h)]
  BY <1>1 DEF SetOf
<1>3. h \in Seq(SetOf(h))
  BY <1>1, <1>2, SeqDef
<1>. QED
  BY <1>1, <1>3 DEF IsSeq, SetOf

LEMMA OwnSeq ==
    ASSUME NEW h, IsSeq(h), NEW S, SetOf(h) \subseteq S
    PROVE  h \in Seq(S)
BY SeqMonotonic DEF IsSeq

\* Two sequences, and a line, are over one set.
LEMMA Together ==
    ASSUME NEW h, NEW s, NEW t, IsSeq(h), IsSeq(s)
    PROVE  \E S : h \in Seq(S) /\ s \in Seq(S) /\ t \in S /\ <<>> \in S
<1>. DEFINE S == SetOf(h) \cup SetOf(s) \cup {t, <<>>}
<1>1. h \in Seq(S) /\ s \in Seq(S)
  BY OwnSeq
<1>. QED
  BY <1>1

\* IsSuffix by positions.
LEMMA SuffixByPosition ==
    ASSUME NEW d, NEW s, IsSeq(d), IsSeq(s), EndOf(d, s)
    PROVE  IsSuffix(d, s)
<1>0. Len(d) \in Nat /\ Len(s) \in Nat /\ Len(d) <= Len(s)
  BY LenProperties DEF IsSeq, EndOf
<1>. DEFINE rd == [i \in 1 .. Len(d) |-> d[Len(d) - i + 1]]
            rs == [i \in 1 .. Len(s) |-> s[Len(s) - i + 1]]
<1>1. rd = Reverse(d) /\ rs = Reverse(s)
  BY DEF Reverse
<1>2. PICK S : d \in Seq(S) /\ s \in Seq(S)
  BY Together
<1>3. rd \in Seq(S) /\ Len(rd) = Len(d)
  BY <1>0, <1>2
<1>4. rs \in Seq(S) /\ Len(rs) = Len(s)
  BY <1>0, <1>2
<1>5. \A i \in 1 .. Len(d) : rd[i] = rs[i]
  <2>. TAKE i \in 1 .. Len(d)
  <2>1. rd[i] = d[Len(d) - i + 1] /\ rs[i] = s[Len(s) - i + 1]
    BY <1>0
  <2>2. d[Len(d) - i + 1] = s[Len(s) - Len(d) + (Len(d) - i + 1)]
    BY <1>0 DEF EndOf
  <2>3. Len(s) - Len(d) + (Len(d) - i + 1) = Len(s) - i + 1
    BY <1>0
  <2>. QED
    BY <2>1, <2>2, <2>3
<1>. HIDE DEF rd, rs
<1>6. SubSeq(rd, 1, Len(rd)) = SubSeq(rs, 1, Len(rd))
  <2>1. SubSeq(rd, 1, Len(rd)) = rd
    BY <1>3
  <2>2. SubSeq(rs, 1, Len(rd)) \in Seq(S) /\ Len(SubSeq(rs, 1, Len(rd))) = Len(d)
    BY <1>0, <1>3, <1>4
  <2>3. \A i \in 1 .. Len(d) : SubSeq(rs, 1, Len(rd))[i] = rs[i]
    BY <1>0, <1>3, <1>4
  <2>. QED
    BY <1>3, <1>5, <2>1, <2>2, <2>3, SeqEqual
<1>7. IsPrefix(rd, rs)
  BY <1>0, <1>3, <1>4, <1>6 DEF IsPrefix
<1>. QED
  BY <1>1, <1>7 DEF IsSuffix

-----------------------------------------------------------------------------
LEMMA Shift ==
    ASSUME NEW s \in Int, NEW h \in Int, NEW i \in Int, NEW a \in Int
    PROVE  s - h + (i + h - (a - 1)) = s - (a - 1) + i
OBVIOUS

\* What AddHistory does to a history that is not its last line.
LEMMA AddedToSeq ==
    ASSUME NEW S, NEW h \in Seq(S), NEW t \in S, Len(h) <= HistoryMaxLen,
           h = <<>> \/ h[Len(h)] # t,
           NEW a, a = Added(h, t)
    PROVE  /\ a \in Seq(S) /\ Len(a) > 0 /\ a[Len(a)] = t
           /\ \/ Len(a) = Len(h) + 1 /\ Len(h) < HistoryMaxLen
              \/ Len(a) = Len(h) /\ Len(h) = HistoryMaxLen
           /\ \A i \in 1 .. Len(a) - 1 : a[i] = h[i + Len(h) - (Len(a) - 1)]
           /\ h = <<>> => a = <<t>>
<1>0. Len(h) \in Nat /\ HistoryMaxLen \in Nat \ {0}
  BY HistoryAssumption
<1>1. ~(h # <<>> /\ Last(h) = t)
  BY DEF Last
<1>2. CASE Len(h) = HistoryMaxLen
  <2>1. h # <<>>
    BY <1>0, <1>2
  <2>2. a = Append(Tail(h), t)
    BY <1>1, <1>2 DEF Added
  <2>3. Tail(h) \in Seq(S) /\ Len(Tail(h)) = Len(h) - 1
        /\ \A i \in 1 .. Len(Tail(h)) : Tail(h)[i] = h[i + 1]
    BY <2>1, HeadTailProperties
  <2>4. /\ a \in Seq(S) /\ Len(a) = Len(h)
        /\ \A i \in 1 .. Len(h) - 1 : a[i] = Tail(h)[i]
        /\ a[Len(h)] = t
    BY <1>0, <2>1, <2>2, <2>3, AppendProperties
  <2>. QED
    BY <1>0, <1>2, <2>1, <2>3, <2>4
<1>3. CASE Len(h) # HistoryMaxLen
  <2>1. a = Append(h, t)
    BY <1>1, <1>3 DEF Added
  <2>2. /\ a \in Seq(S) /\ Len(a) = Len(h) + 1
        /\ \A i \in 1 .. Len(h) : a[i] = h[i]
        /\ a[Len(h) + 1] = t
    BY <1>0, <2>1, AppendProperties
  <2>3. h = <<>> => a = <<t>>
    BY <2>1
  <2>. QED
    BY <1>0, <1>3, <2>2, <2>3
<1>. QED
  BY <1>2, <1>3

\* It repeats nothing.
LEMMA AddedRepeatsNothing ==
    ASSUME NEW h, NEW t, IsSeq(h), Len(h) <= HistoryMaxLen, NoRepeats(h),
           h = <<>> \/ h[Len(h)] # t,
           NEW a, a = Added(h, t)
    PROVE  NoRepeats(a) /\ IsSeq(a) /\ Len(a) <= HistoryMaxLen
<1>1. PICK S : h \in Seq(S) /\ t \in S
  BY Together
<1>0. Len(h) \in Nat /\ HistoryMaxLen \in Nat
  BY <1>1, HistoryAssumption
<1>2. /\ a \in Seq(S) /\ Len(a) > 0 /\ a[Len(a)] = t
      /\ \/ Len(a) = Len(h) + 1 /\ Len(h) < HistoryMaxLen
         \/ Len(a) = Len(h) /\ Len(h) = HistoryMaxLen
      /\ \A i \in 1 .. Len(a) - 1 : a[i] = h[i + Len(h) - (Len(a) - 1)]
  BY <1>1, AddedToSeq
<1>3. ASSUME NEW i \in 1 .. Len(a) - 1 PROVE a[i] # a[i + 1]
  <2>. DEFINE k == i + Len(h) - (Len(a) - 1)
  <2>1. k \in 1 .. Len(h) /\ a[i] = h[k]
    BY <1>0, <1>2
  <2>2. CASE i = Len(a) - 1
    BY <1>0, <1>2, <2>1, <2>2
  <2>3. CASE i # Len(a) - 1
    <3>1. k \in 1 .. Len(h) - 1 /\ i + 1 \in 1 .. Len(a) - 1
          /\ (i + 1) + Len(h) - (Len(a) - 1) = k + 1
      BY <1>0, <1>2, <2>3
    <3>2. a[i + 1] = h[k + 1]
      BY <1>2, <3>1
    <3>. QED
      BY <2>1, <3>1, <3>2 DEF NoRepeats
  <2>. QED
    BY <2>2, <2>3
<1>4. IsSeq(a)
  BY <1>2, SeqOwn
<1>. QED
  BY <1>0, <1>2, <1>3, <1>4 DEF NoRepeats

\* A history without its last line.
LEMMA FrontOfSeq ==
    ASSUME NEW S, NEW h \in Seq(S), h # <<>>
    PROVE  /\ Front(h) \in Seq(S) /\ Len(Front(h)) = Len(h) - 1
           /\ \A i \in 1 .. Len(h) - 1 : Front(h)[i] = h[i]
           /\ Len(h) \in Nat \ {0}
<1>1. Len(h) \in Nat \ {0}
  BY EmptySeq
<1>2. /\ SubSeq(h, 1, Len(h) - 1) \in Seq(S)
      /\ Len(SubSeq(h, 1, Len(h) - 1)) = Len(h) - 1
      /\ \A i \in 1 .. Len(h) - 1 : SubSeq(h, 1, Len(h) - 1)[i] = h[i]
  <2>. DEFINE m == Len(h) - 1
  <2>1. m \in Nat /\ m <= Len(h)
    BY <1>1
  <2>. HIDE DEF m
  <2>2. \A i \in 1 .. m : h[i] \in S
    BY <1>1, <2>1
  <2>3. SubSeq(h, 1, m) \in Seq(S) /\ Len(SubSeq(h, 1, m)) = m
    BY <2>1, <2>2, SubSeqProperties
  <2>4. \A i \in 1 .. m : SubSeq(h, 1, m)[i] = h[i]
    BY <1>1, <2>1
  <2>. QED
    BY <2>3, <2>4 DEF m
<1>. QED
  BY <1>1, <1>2 DEF Front

\* What a history holds of what was said.
LEMMA SaidOfHistory ==
    ASSUME NEW h, IsSeq(h)
    PROVE  /\ EndsBlank(h) => Said(h) = Front(h)
           /\ ~EndsBlank(h) => Said(h) = h
BY DEF Said, EndsBlank, Last

\* The entry for a line that begins.
LEMMA EntryMade ==
    ASSUME NEW h, NEW s, Recent(h, s), NEW a, a = Added(h, <<>>)
    PROVE  Recent(a, s) /\ EndsBlank(a)
<1>1. CASE EndsBlank(h)
  BY <1>1 DEF EndsBlank, Added, Last
<1>2. CASE ~EndsBlank(h)
  <2>1. h = <<>> \/ h[Len(h)] # <<>>
    BY <1>2 DEF EndsBlank
  <2>2. NoRepeats(a) /\ IsSeq(a) /\ Len(a) <= HistoryMaxLen
    BY <2>1, AddedRepeatsNothing DEF Recent
  <2>3. PICK S : h \in Seq(S) /\ s \in Seq(S) /\ <<>> \in S
    BY Together DEF Recent
  <2>4. /\ a \in Seq(S) /\ Len(a) > 0 /\ a[Len(a)] = <<>>
        /\ \/ Len(a) = Len(h) + 1 /\ Len(h) < HistoryMaxLen
           \/ Len(a) = Len(h) /\ Len(h) = HistoryMaxLen
        /\ \A i \in 1 .. Len(a) - 1 : a[i] = h[i + Len(h) - (Len(a) - 1)]
    BY <2>1, <2>3, AddedToSeq DEF Recent
  <2>5. EndsBlank(a)
    BY <2>4 DEF EndsBlank
  <2>6. Said(h) = h /\ Said(a) = Front(a)
    BY <1>2, <2>2, <2>5, SaidOfHistory DEF Recent
  <2>7. /\ Front(a) \in Seq(S) /\ Len(Front(a)) = Len(a) - 1
        /\ \A i \in 1 .. Len(a) - 1 : Front(a)[i] = a[i]
    BY <2>4, <2>5, FrontOfSeq DEF EndsBlank
  <2>8. Len(h) \in Nat /\ Len(s) \in Nat /\ HistoryMaxLen \in Nat \ {0}
    BY <2>3, HistoryAssumption
  <2>9. EndOf(h, s) /\ (h = s \/ Len(h) >= HistoryMaxLen - 1)
    BY <2>6 DEF Recent
  <2>10. EndOf(Front(a), s)
    <3>1. ASSUME NEW i \in 1 .. Len(Front(a))
          PROVE  Front(a)[i] = s[Len(s) - Len(Front(a)) + i]
      <4>. DEFINE k == i + Len(h) - (Len(a) - 1)
      <4>1. Front(a)[i] = h[k] /\ k \in 1 .. Len(h)
        BY <2>4, <2>7, <2>8
      <4>2. h[k] = s[Len(s) - Len(h) + k]
        BY <2>9, <4>1 DEF EndOf
      <4>3. Len(s) - Len(h) + k = Len(s) - Len(Front(a)) + i
        <5>1. Len(a) \in Int /\ Len(h) \in Int /\ Len(s) \in Int /\ i \in Int
          BY <2>4, <2>8
        <5>2. Len(s) - Len(h) + k = Len(s) - (Len(a) - 1) + i
          BY <5>1, Shift
        <5>. QED
          BY <2>7, <5>2
      <4>. QED
        BY <4>1, <4>2, <4>3
    <3>2. Len(Front(a)) <= Len(s)
      BY <2>4, <2>7, <2>8, <2>9 DEF EndOf
    <3>. QED
      BY <3>1, <3>2 DEF EndOf
  <2>11. Front(a) = s \/ Len(Front(a)) >= HistoryMaxLen - 1
    <3>1. CASE Len(h) = HistoryMaxLen
      BY <2>4, <2>7, <2>8, <3>1
    <3>2. CASE Len(h) # HistoryMaxLen
      <4>0. Len(a) = Len(h) + 1 /\ Len(Front(a)) = Len(h) /\ Len(a) - 1 = Len(h)
        BY <2>4, <2>7, <2>8, <3>2
      <4>1. Len(Front(a)) = Len(h) /\ \A i \in 1 .. Len(h) : Front(a)[i] = h[i]
        <5> SUFFICES ASSUME NEW i \in 1 .. Len(h) PROVE Front(a)[i] = h[i]
          BY <4>0
        <5>1. Front(a)[i] = a[i]
          BY <2>7, <4>0
        <5>2. i \in 1 .. Len(a) - 1 /\ i + Len(h) - (Len(a) - 1) = i
          BY <2>8, <4>0
        <5>3. a[i] = h[i + Len(h) - (Len(a) - 1)]
          BY <2>4, <5>2
        <5>. QED
          BY <5>1, <5>2, <5>3
      <4>2. Front(a) = h
        BY <2>3, <2>7, <4>1, SeqEqual
      <4>. QED
        BY <2>9, <4>2
    <3>. QED
      BY <3>1, <3>2
  <2>. QED
    BY <2>2, <2>5, <2>6, <2>10, <2>11 DEF Recent
<1>. QED
  BY <1>1, <1>2

\* It is dropped with the line.
LEMMA EntryDropped ==
    ASSUME NEW h, NEW s, Recent(h, s), EndsBlank(h)
    PROVE  Recent(Front(h), s) /\ ~EndsBlank(Front(h))
<1>1. PICK S : h \in Seq(S) /\ s \in Seq(S)
  BY Together DEF Recent
<1>2. h # <<>> /\ h[Len(h)] = <<>>
  BY DEF EndsBlank
<1>. DEFINE f == Front(h)
<1>3. /\ f \in Seq(S) /\ Len(f) = Len(h) - 1
      /\ \A i \in 1 .. Len(h) - 1 : f[i] = h[i]
      /\ Len(h) \in Nat \ {0}
  BY <1>1, <1>2, FrontOfSeq
<1>. HIDE DEF f
<1>4. IsSeq(f) /\ (f # <<>> => Len(f) \in Nat \ {0})
  BY <1>1, <1>3, SeqOwn, EmptySeq
<1>5. ~EndsBlank(f)
  <2>. SUFFICES ASSUME f # <<>>, f[Len(f)] = <<>> PROVE FALSE
    BY DEF EndsBlank
  <2>1. Len(h) - 1 \in 1 .. Len(h) - 1 /\ f[Len(h) - 1] = h[Len(h) - 1]
    BY <1>3, <1>4
  <2>2. h[Len(h) - 1] # h[(Len(h) - 1) + 1]
    BY <2>1 DEF Recent, NoRepeats
  <2>3. (Len(h) - 1) + 1 = Len(h)
    BY <1>3
  <2>. QED
    BY <1>2, <1>3, <2>1, <2>2, <2>3
<1>6. Said(f) = f /\ Said(h) = f
  BY <1>4, <1>5, SaidOfHistory DEF f, Recent
<1>7. NoRepeats(f)
  <2>. SUFFICES ASSUME NEW i \in 1 .. Len(f) - 1 PROVE f[i] # f[i + 1]
    BY DEF NoRepeats
  <2>1. i \in 1 .. Len(h) - 1 /\ i + 1 \in 1 .. Len(h) - 1
    BY <1>3
  <2>. QED
    BY <1>3, <2>1 DEF Recent, NoRepeats
<1>8. Len(f) <= HistoryMaxLen
  BY <1>3, HistoryAssumption DEF Recent
<1>9. Recent(f, s)
  BY <1>4, <1>6, <1>7, <1>8 DEF Recent
<1>. QED
  BY <1>5, <1>9 DEF f

\* The entry of the line is any line.
LEMMA DraftMade ==
    ASSUME NEW h, NEW s, Recent(h, s), EndsBlank(h)
    PROVE  Draft(h, s)
BY EntryDropped DEF Draft, Recent, EndsBlank

LEMMA DraftChanged ==
    ASSUME NEW h, NEW s, Draft(h, s), NEW t
    PROVE  Draft([h EXCEPT ![Len(h)] = t], s)
<1>. DEFINE e == [h EXCEPT ![Len(h)] = t]
<1>1. PICK S : h \in Seq(S) /\ t \in S
  BY Together DEF Draft
<1>2. h # <<>> /\ Len(h) \in Nat \ {0} /\ Len(h) <= HistoryMaxLen
  BY <1>1, FrontOfSeq DEF Draft
<1>3. e \in Seq(S) /\ Len(e) = Len(h)
  <2>1. \A k \in 1 .. Len(h) : [h EXCEPT ![k] = t] \in Seq(S) /\ Len([h EXCEPT ![k] = t]) = Len(h)
    BY <1>1
  <2>. QED
    BY <1>2, <2>1
<1>4. \A i \in 1 .. Len(h) - 1 : e[i] = h[i]
  BY <1>1, <1>2
<1>. HIDE DEF e
<1>5. e # <<>>
  BY <1>2, <1>3
<1>6. /\ Front(h) \in Seq(S) /\ Len(Front(h)) = Len(h) - 1
      /\ \A i \in 1 .. Len(h) - 1 : Front(h)[i] = h[i]
  BY <1>1, <1>2, FrontOfSeq
<1>7. /\ Front(e) \in Seq(S) /\ Len(Front(e)) = Len(e) - 1
      /\ \A i \in 1 .. Len(e) - 1 : Front(e)[i] = e[i]
  BY <1>3, <1>5, FrontOfSeq
<1>8. Front(e) = Front(h)
  BY <1>3, <1>4, <1>6, <1>7, SeqEqual
<1>9. IsSeq(e)
  BY <1>3, SeqOwn
<1>10. Draft(e, s)
  BY <1>2, <1>3, <1>5, <1>8, <1>9 DEF Draft
<1>. QED
  BY <1>10 DEF e

\* An empty entry that was given up does no harm.
LEMMA EntryBack ==
    ASSUME NEW h, NEW s, Draft(h, s), h[Len(h)] = <<>>
    PROVE  Recent(h, s)
<1>. DEFINE f == Front(h)
<1>1. PICK S : h \in Seq(S) /\ s \in Seq(S)
  BY Together DEF Draft, Recent
<1>2. h # <<>> /\ EndsBlank(h) /\ IsSeq(h) /\ Len(h) <= HistoryMaxLen
  BY DEF Draft, EndsBlank
<1>3. /\ f \in Seq(S) /\ Len(f) = Len(h) - 1
      /\ \A i \in 1 .. Len(h) - 1 : f[i] = h[i]
      /\ Len(h) \in Nat \ {0}
  BY <1>1, <1>2, FrontOfSeq
<1>. HIDE DEF f
<1>4. Recent(f, s) /\ ~EndsBlank(f)
  BY DEF Draft, f
<1>5. Said(f) = f /\ Said(h) = f
  <2>1. Said(h) = f
    BY <1>2, SaidOfHistory DEF f
  <2>. QED
    BY <1>4, <2>1, SaidOfHistory DEF Recent
<1>6. ASSUME NEW i \in 1 .. Len(h) - 1 PROVE h[i] # h[i + 1]
  <2>1. CASE i = Len(h) - 1
    <3>1. i = Len(f) /\ f # <<>> /\ f[i] = h[i] /\ i + 1 = Len(h)
      BY <1>3, <2>1
    <3>. QED
      BY <1>4, <3>1 DEF EndsBlank
  <2>2. CASE i # Len(h) - 1
    <3>1. i \in 1 .. Len(f) - 1 /\ f[i] = h[i] /\ f[i + 1] = h[i + 1]
      BY <1>3, <2>2
    <3>. QED
      BY <1>4, <3>1 DEF Recent, NoRepeats
  <2>. QED
    BY <2>1, <2>2
<1>. QED
  BY <1>2, <1>4, <1>5, <1>6 DEF Recent, NoRepeats

\* An empty line that was evaluated is remembered as an entry is made.
SaidNext(s, t) == IF t = <<>> \/ (s # <<>> /\ Last(s) = t) THEN s ELSE Append(s, t)

\* A line that was evaluated.
LEMMA LineAdded ==
    ASSUME NEW h, NEW s, Recent(h, s), NEW t, EndsBlank(h) => t = <<>>,
           NEW a, a = Added(h, t), NEW r, r = SaidNext(s, t)
    PROVE  Recent(a, r)
<1>1. CASE t = <<>>
  <2>1. r = s
    BY <1>1 DEF SaidNext
  <2>. QED
    BY <1>1, <2>1, EntryMade
<1>2. CASE t # <<>>
  <2>0. ~EndsBlank(h)
    BY <1>2
  <2>1. PICK S : h \in Seq(S) /\ s \in Seq(S) /\ t \in S
    BY Together DEF Recent
  <2>2. Len(h) \in Nat /\ Len(s) \in Nat /\ HistoryMaxLen \in Nat \ {0}
        /\ (h # <<>> <=> Len(h) # 0) /\ (s # <<>> <=> Len(s) # 0)
    BY <2>1, HistoryAssumption
  <2>3. EndOf(h, s) /\ (h = s \/ Len(h) >= HistoryMaxLen - 1)
    BY <2>0, SaidOfHistory DEF Recent
  <2>4. h # <<>> => s # <<>> /\ h[Len(h)] = s[Len(s)]
    <3>. SUFFICES ASSUME h # <<>> PROVE s # <<>> /\ h[Len(h)] = s[Len(s)]
      OBVIOUS
    <3>1. Len(h) \in 1 .. Len(h) /\ Len(h) <= Len(s)
      BY <2>2, <2>3 DEF EndOf
    <3>2. h[Len(h)] = s[Len(s) - Len(h) + Len(h)]
      BY <2>3, <3>1 DEF EndOf
    <3>. QED
      BY <2>2, <3>1, <3>2
  <2>5. CASE h # <<>> /\ h[Len(h)] = t
    <3>1. a = h
      BY <2>5 DEF Added, Last
    <3>2. r = s
      BY <2>4, <2>5 DEF SaidNext, Last
    <3>. QED
      BY <3>1, <3>2
  <2>6. CASE h = <<>> \/ h[Len(h)] # t
    <3>1. NoRepeats(a) /\ IsSeq(a) /\ Len(a) <= HistoryMaxLen
      BY <2>6, AddedRepeatsNothing DEF Recent
    <3>2. /\ a \in Seq(S) /\ Len(a) > 0 /\ a[Len(a)] = t
          /\ \/ Len(a) = Len(h) + 1 /\ Len(h) < HistoryMaxLen
             \/ Len(a) = Len(h) /\ Len(h) = HistoryMaxLen
          /\ \A i \in 1 .. Len(a) - 1 : a[i] = h[i + Len(h) - (Len(a) - 1)]
          /\ h = <<>> => a = <<t>>
      BY <2>1, <2>6, AddedToSeq DEF Recent
    <3>3. Said(a) = a
      BY <1>2, <3>1, <3>2, SaidOfHistory DEF EndsBlank
    <3>4. CASE s # <<>> /\ s[Len(s)] = t
      <4>1. r = s
        BY <3>4 DEF SaidNext, Last
      <4>2. h = <<>>
        BY <2>4, <2>6, <3>4
      <4>3. a = <<t>> /\ Len(a) = 1
        BY <3>2, <4>2
      <4>4. h # s
        BY <3>4, <4>2
      <4>5. Len(a) >= HistoryMaxLen - 1
        BY <2>2, <2>3, <4>2, <4>3, <4>4
      <4>6. EndOf(a, s)
        BY <2>2, <3>4, <4>3 DEF EndOf
      <4>. QED
        BY <3>1, <3>3, <4>1, <4>5, <4>6 DEF Recent
    <3>5. CASE ~(s # <<>> /\ s[Len(s)] = t)
      <4>1. r = Append(s, t)
        BY <1>2, <3>5 DEF SaidNext, Last
      <4>2. /\ r \in Seq(S) /\ Len(r) = Len(s) + 1
            /\ \A i \in 1 .. Len(s) : r[i] = s[i]
            /\ r[Len(s) + 1] = t
        BY <2>1, <2>2, <4>1, AppendProperties
      <4>3. EndOf(a, r)
        <5>1. ASSUME NEW i \in 1 .. Len(a) PROVE a[i] = r[Len(r) - Len(a) + i]
          <6>1. CASE i = Len(a)
            BY <2>2, <3>2, <4>2, <6>1
          <6>2. CASE i # Len(a)
            <7>. DEFINE k == i + Len(h) - (Len(a) - 1)
            <7>1. i \in 1 .. Len(a) - 1 /\ k \in 1 .. Len(h) /\ a[i] = h[k]
              BY <2>2, <3>2, <6>2, SMTT(40)
            <7>2. h[k] = s[Len(s) - Len(h) + k]
              BY <2>3, <7>1 DEF EndOf
            <7>3. Len(s) - Len(h) + k \in 1 .. Len(s)
              <8>1. Len(h) <= Len(s)
                BY <2>3 DEF EndOf
              <8>. HIDE DEF k
              <8>. QED
                BY <2>2, <7>1, <8>1
            <7>4. Len(s) - Len(h) + k = Len(r) - Len(a) + i
              <8>1. Len(a) \in Int /\ Len(h) \in Int /\ Len(s) \in Int /\ i \in Int
                BY <2>2, <3>2
              <8>2. Len(s) - Len(h) + k = Len(s) - (Len(a) - 1) + i
                BY <8>1, Shift
              <8>3. Len(s) - (Len(a) - 1) + i = (Len(s) + 1) - Len(a) + i
                BY <8>1
              <8>. QED
                BY <4>2, <8>2, <8>3
            <7>. QED
              BY <4>2, <7>1, <7>2, <7>3, <7>4
          <6>. QED
            BY <6>1, <6>2
        <5>2. Len(a) <= Len(r)
          BY <2>2, <2>3, <3>2, <4>2 DEF EndOf
        <5>. QED
          BY <5>1, <5>2 DEF EndOf
      <4>4. a = r \/ Len(a) >= HistoryMaxLen - 1
        <5>1. CASE Len(h) >= HistoryMaxLen - 1
          BY <2>2, <3>2, <5>1
        <5>2. CASE ~(Len(h) >= HistoryMaxLen - 1)
          <6>1. h = s
            BY <2>3, <5>2
          <6>2. Len(a) = Len(r)
            BY <2>2, <3>2, <4>2, <5>2, <6>1
          <6>3. \A i \in 1 .. Len(a) : a[i] = r[i]
            BY <2>2, <4>2, <4>3, <6>2 DEF EndOf
          <6>. QED
            BY <3>2, <4>2, <6>2, <6>3, SeqEqual
        <5>. QED
          BY <5>1, <5>2
      <4>5. IsSeq(r)
        BY <4>2, SeqOwn
      <4>6. \A i \in 1 .. Len(r) : r[i] # <<>>
        BY <1>2, <2>2, <4>2 DEF Recent
      <4>. QED
        BY <3>1, <3>3, <4>3, <4>4, <4>5, <4>6 DEF Recent
    <3>. QED
      BY <3>4, <3>5
  <2>. QED
    BY <2>5, <2>6
<1>. QED
  BY <1>1, <1>2

-----------------------------------------------------------------------------
\* A file that repeats nothing and is no longer than a history is loaded as it
\* is.
LEMMA LoadedAsSaved ==
    ASSUME NEW h, IsSeq(h), NoRepeats(h), Len(h) <= HistoryMaxLen
    PROVE  LoadHistory(h) = h
<1>. DEFINE S == SetOf(h)
            N == 0 .. Len(h)
            Adds(g) == g = [i \in N |-> IF i = 0 THEN <<>> ELSE Added(g[i - 1], h[i])]
            upTo == CHOOSE g : Adds(g)
            parts == [i \in N |-> SubSeq(h, 1, i)]
<1>1. h \in Seq(S) /\ Len(h) \in Nat /\ HistoryMaxLen \in Nat
  BY LenProperties, HistoryAssumption DEF IsSeq
<1>. HIDE DEF S
<1>2. /\ SubSeq(h, 1, 0) = <<>>
      /\ SubSeq(h, 1, Len(h)) = h
  BY <1>1, SubSeqEmpty, SubSeqFull
<1>3. ASSUME NEW i \in N, i # 0
      PROVE  Added(SubSeq(h, 1, i - 1), h[i]) = SubSeq(h, 1, i)
  <2>. DEFINE p == SubSeq(h, 1, i - 1)
              m == i - 1
  <2>0. m \in Nat /\ m < Len(h) /\ i = m + 1 /\ i \in 1 .. Len(h)
    BY <1>1, <1>3
  <2>1. p \in Seq(S) /\ Len(p) = m /\ \A j \in 1 .. m : p[j] = h[j]
    <3>. HIDE DEF m
    <3>1. p = SubSeq(h, 1, m)
      BY DEF m
    <3>2. \A j \in 1 .. m : h[j] \in S
      BY <1>1, <2>0
    <3>3. SubSeq(h, 1, m) \in Seq(S) /\ Len(SubSeq(h, 1, m)) = m
      BY <2>0, <3>2, SubSeqProperties
    <3>4. \A j \in 1 .. m : SubSeq(h, 1, m)[j] = h[j]
      BY <1>1, <2>0
    <3>. QED
      BY <3>1, <3>3, <3>4
  <2>2. SubSeq(h, 1, i) = Append(p, h[i])
    <3>1. SubSeq(h, 1, i) = SubSeq(h, 1, i - 1) \o <<h[i]>>
      BY <1>1, <2>0, SubSeqRecursiveSecond
    <3>2. h[i] \in S
      BY <1>1, <2>0
    <3>. HIDE DEF p
    <3>3. Append(p, h[i]) = p \o <<h[i]>>
      BY <2>1, <3>2, AppendIsConcat
    <3>. QED
      BY <3>1, <3>3 DEF p
  <2>. HIDE DEF p
  <2>3. ~(p # <<>> /\ Last(p) = h[i])
    <3>. SUFFICES ASSUME p # <<>> PROVE Last(p) # h[i]
      OBVIOUS
    <3>1. m \in 1 .. Len(h) - 1
      BY <2>0, <2>1, <1>1
    <3>2. Last(p) = h[m]
      BY <2>1, <3>1 DEF Last
    <3>. QED
      BY <2>0, <3>1, <3>2 DEF NoRepeats
  <2>4. Len(p) # HistoryMaxLen
    BY <1>1, <2>0, <2>1
  <2>5. Added(p, h[i]) = Append(p, h[i])
    BY <2>3, <2>4 DEF Added
  <2>. QED
    BY <2>2, <2>5 DEF p
<1>4. Adds(parts)
  <2>1. \A i \in N : i # 0 => i - 1 \in N
    BY <1>1
  <2>2. \A i \in N : parts[i] = IF i = 0 THEN <<>> ELSE Added(parts[i - 1], h[i])
    BY <1>2, <1>3, <2>1
  <2>. HIDE DEF N
  <2>. QED
    BY <2>2
<1>. HIDE DEF parts
<1>5. Adds(upTo)
  <2>. HIDE DEF Adds
  <2>. QED
    BY <1>4
<1>. HIDE DEF upTo
<1>6. \A i \in N : upTo[i] = IF i = 0 THEN <<>> ELSE Added(upTo[i - 1], h[i])
  <2>. HIDE DEF N
  <2>. QED
    BY <1>5
<1>7. \A i \in N : upTo[i] = SubSeq(h, 1, i)
  <2>. DEFINE T == {i \in N : upTo[i] # SubSeq(h, 1, i)}
  <2>. SUFFICES ASSUME T # {} PROVE FALSE
    OBVIOUS
  <2>0. T \subseteq Nat
    BY <1>1
  <2>1. PICK i \in T : \A j \in T : i <= j
    <3>. HIDE DEF T
    <3>. QED
      BY <2>0, LeastNat
  <2>2. i \in N /\ upTo[i] # SubSeq(h, 1, i)
    OBVIOUS
  <2>3. CASE i = 0
    BY <1>2, <1>6, <2>2, <2>3
  <2>4. CASE i # 0
    <3>1. i - 1 \in N /\ i - 1 \notin T
      BY <1>1, <2>1, <2>2, <2>4
    <3>2. upTo[i - 1] = SubSeq(h, 1, i - 1)
      BY <3>1
    <3>. QED
      BY <1>3, <1>6, <2>2, <2>4, <3>2
  <2>. QED
    BY <2>3, <2>4
<1>8. LoadHistory(h) = upTo[Len(h)]
  BY DEF LoadHistory, upTo
<1>. QED
  BY <1>1, <1>2, <1>7, <1>8

-----------------------------------------------------------------------------
LEMMA NothingSaid == Recent(<<>>, <<>>)
<1>1. IsSeq(<<>>)
  BY SeqOwn, EmptySeq
<1>2. Said(<<>>) = <<>> /\ Len(<<>>) = 0
  BY DEF Said
<1>3. NoRepeats(<<>>) /\ EndOf(<<>>, <<>>)
  BY <1>2 DEF NoRepeats, EndOf
<1>. QED
  BY <1>1, <1>2, <1>3, HistoryAssumption DEF Recent

LEMMA RecentInit == Init => RecentInv
<1>. SUFFICES ASSUME Init PROVE RecentInv
  OBVIOUS
<1>1. /\ said = [lines |-> <<>>, alone |-> TRUE] /\ saidSaved = said
      /\ file = <<>> /\ mode = "down"
  BY DEF Init
<1>2. said.lines = <<>> /\ saidSaved.lines = <<>> /\ SaidTyped
  BY <1>1 DEF SaidTyped
<1>. QED
  BY <1>1, <1>2, NothingSaid DEF RecentInv

\* After every key but those that end the line, the line is edited still, or
\* the editor hangs.
LEMMA KeysGoOn ==
    ASSUME mode = "edit", NEW c, NEW dir,
           \/ Insert(c) \/ MoveLeft \/ MoveRight \/ MoveHome \/ MoveEnd \/ Backspace
           \/ Delete \/ DeletePrevWord \/ DeleteLine \/ DeleteRest \/ ClearScreen
           \/ SwapChars \/ HistoryNext(dir)
    PROVE  mode' \in {"edit", "hung"}
<1>1. ASSUME NEW n, NEW s, Refresh(n, s) PROVE mode' \in {"edit", "hung"}
  BY <1>1 DEF Refresh
<1>2. Stays => mode' = "edit"
  BY DEF Stays
<1>. HIDE DEF Refresh, Stays
<1>3. CASE Insert(c)
  BY <1>1, <1>2, <1>3 DEF Insert
<1>4. CASE MoveLeft
  BY <1>1, <1>2, <1>4 DEF MoveLeft
<1>5. CASE MoveRight
  BY <1>1, <1>2, <1>5 DEF MoveRight
<1>6. CASE MoveHome
  BY <1>1, <1>2, <1>6 DEF MoveHome
<1>7. CASE MoveEnd
  BY <1>1, <1>2, <1>7 DEF MoveEnd
<1>8. CASE Backspace
  BY <1>1, <1>2, <1>8 DEF Backspace
<1>9. CASE Delete
  BY <1>1, <1>2, <1>9 DEF Delete
<1>10. CASE DeletePrevWord
  BY <1>1, <1>2, <1>10 DEF DeletePrevWord
<1>11. CASE DeleteLine
  BY <1>1, <1>2, <1>11 DEF DeleteLine
<1>12. CASE DeleteRest
  BY <1>1, <1>2, <1>12 DEF DeleteRest
<1>13. CASE ClearScreen
  BY <1>1, <1>2, <1>13 DEF ClearScreen
<1>14. CASE SwapChars
  BY <1>1, <1>2, <1>14 DEF SwapChars
<1>15. CASE HistoryNext(dir)
  BY <1>1, <1>2, <1>15 DEF HistoryNext
<1>. QED
  BY <1>3, <1>4, <1>5, <1>6, <1>7, <1>8, <1>9, <1>10, <1>11, <1>12, <1>13, <1>14, <1>15

LEMMA KeysAreForEditing == Keys => mode = "edit"
BY DEF Keys, Pressed, Insert, MoveLeft, MoveRight, MoveHome, MoveEnd, Backspace, Delete,
       DeletePrevWord, DeleteLine, DeleteRest, ClearScreen, SwapChars, HistoryNext,
       Enter, CtrlC, CtrlD

\* Walking through the history changes the line's own entry only, when the user
\* overwrites no other.
LEMMA WalkKeepsDraft ==
    ASSUME mode = "edit", mode' = "edit", NEW s, Draft(history, s), ~Overwrites,
           NEW dir, HistoryNext(dir)
    PROVE  Draft(history', s)
<1>. DEFINE own == Len(history) - l.history_index
            t == CString(l.buf)
<1>1. history' = history \/ history' = [history EXCEPT ![own] = t]
  BY DEF HistoryNext
<1>2. CASE history' = history
  BY <1>2
<1>3. CASE history' # history
  <2>1. l.history_index = 0 \/ t = history[own]
    BY <1>3 DEF Overwrites
  <2>2. history' = [history EXCEPT ![own] = t]
    BY <1>1, <1>3
  <2>3. PICK S : history \in Seq(S)
    BY Together DEF Draft
  <2>4. t # history[own]
    <3>. HIDE DEF own, t
    <3>. SUFFICES ASSUME t = history[own] PROVE history' = history
      BY <1>3
    <3>. QED
      BY <2>2, <2>3
  <2>5. l.history_index = 0 /\ Len(history) \in Nat
    BY <2>1, <2>3, <2>4, LenProperties
  <2>6. own = Len(history)
    BY <2>5
  <2>. HIDE DEF own, t
  <2>. QED
    BY <2>2, <2>6, DraftChanged
<1>. QED
  BY <1>2, <1>3

LEMMA EditKeepsRecent == RecentInv /\ Edit => RecentInv'
<1>. SUFFICES ASSUME RecentInv, Edit, Rereads'
              PROVE  /\ SaidTyped'
                     /\ saidSaved'.alone => Recent(file', saidSaved'.lines)
                     /\ said'.alone =>
                         /\ mode' \in {"prompt", "eval", "quit"} => Recent(history', said'.lines)
                         /\ mode' = "edit" => Draft(history', said'.lines)
                         /\ mode' = "eval" /\ EndsBlank(history') => line' = <<>>
  BY DEF RecentInv
<1>1. mode = "edit" /\ Rereads /\ file' = file /\ saidSaved' = saidSaved
  BY KeysAreForEditing DEF Edit, Rereads
<1>2. saidSaved.alone => Recent(file, saidSaved.lines)
  BY <1>1 DEF RecentInv
<1>3. SaidTyped /\ SaidTyped'
  <2>1. SaidTyped
    BY <1>1 DEF RecentInv
  <2>. QED
    BY <1>1, <2>1 DEF Edit, SaidTyped
<1>. SUFFICES ASSUME said'.alone
              PROVE  /\ mode' \in {"prompt", "eval", "quit"} => Recent(history', said'.lines)
                     /\ mode' = "edit" => Draft(history', said'.lines)
                     /\ mode' = "eval" /\ EndsBlank(history') => line' = <<>>
  BY <1>1, <1>2, <1>3
<1>4. /\ said'.lines = said.lines /\ said.alone
      /\ ~Overwrites /\ ~LeavesDraft
  BY <1>3 DEF Edit, SaidTyped
<1>5. Draft(history, said.lines)
  BY <1>1, <1>4 DEF RecentInv
<1>6. CASE mode' \in {"edit", "hung"}
  <2>1. CASE \E dir \in {1, -1} : HistoryNext(dir)
    BY <1>1, <1>4, <1>5, <1>6, <2>1, WalkKeepsDraft
  <2>2. CASE Enter \/ CtrlC \/ CtrlD
    BY <1>6, <2>2 DEF Enter, CtrlC, CtrlD
  <2>3. CASE \/ MoveLeft \/ MoveRight \/ MoveHome \/ MoveEnd \/ Backspace \/ Delete
             \/ DeletePrevWord \/ DeleteLine \/ DeleteRest \/ ClearScreen \/ SwapChars
             \/ \E c \in user.typed : Insert(c)
    <3>1. history' = history
      BY <2>3 DEF MoveLeft, MoveRight, MoveHome, MoveEnd, Backspace, Delete, DeletePrevWord,
                  DeleteLine, DeleteRest, ClearScreen, SwapChars, Insert, Edits
    <3>. QED
      BY <1>4, <1>5, <1>6, <3>1
  <2>. QED
    BY <2>1, <2>2, <2>3 DEF Edit, Keys
<1>7. CASE Enter
  <2>1. history' = Front(history) /\ mode' = "eval"
    BY <1>5, <1>7 DEF Enter, Draft
  <2>. QED
    BY <1>4, <1>5, <2>1 DEF Draft
<1>8. CASE CtrlC
  <2>1. history' = history /\ mode' = "quit"
    BY <1>8 DEF CtrlC
  <2>2. history[Len(history)] = <<>>
    BY <1>4, <2>1 DEF LeavesDraft, Last
  <2>. QED
    BY <1>4, <1>5, <2>1, <2>2, EntryBack
<1>9. CASE CtrlD
  <2>1. history' = Front(history) /\ mode' = "quit"
    BY <1>9 DEF CtrlD
  <2>. QED
    BY <1>4, <1>5, <2>1 DEF Draft
<1>10. mode' \in {"edit", "hung"} \/ Enter \/ CtrlC \/ CtrlD
  BY <1>1, KeysGoOn DEF Edit, Keys
<1>. QED
  BY <1>6, <1>7, <1>8, <1>9, <1>10

\* What is saved is what is read back (SavedAsOne says when).
LEMMA RecentStep == RecentInv /\ Saved(history) = history /\ [Next]_vars => RecentInv'
<1>. SUFFICES ASSUME RecentInv, Saved(history) = history, [Next]_vars, Rereads' PROVE RecentInv'
  BY DEF RecentInv
<1>0. Rereads /\ SaidTyped
  BY DEF RecentInv, Rereads, Next, vars, Start, ReadLine, Edit, InputFails, Evaluated, Refused,
         Dies, Quit
<1>1. CASE Edit
  BY <1>1, EditKeepsRecent
<1>2. CASE Start
  <2>1. /\ file' = file /\ saidSaved' = saidSaved /\ mode' = "prompt"
        /\ history' = LoadHistory(file) /\ said' = saidSaved
    BY <1>0, <1>2 DEF Start, Rereads
  <2>2. saidSaved.alone => Recent(file, saidSaved.lines)
    BY <1>0 DEF RecentInv
  <2>3. saidSaved.alone => history' = file
    BY <2>1, <2>2, LoadedAsSaved DEF Recent
  <2>. QED
    BY <1>0, <2>1, <2>2, <2>3 DEF RecentInv, SaidTyped
<1>3. CASE InputFails
  <2>1. /\ mode = "edit" /\ mode' = "eval" /\ history' = history
        /\ file' = file /\ saidSaved' = saidSaved
    BY <1>3 DEF InputFails, InputError, Pressed
  <2>2. said'.lines = said.lines /\ SaidTyped'
    BY <1>0, <1>3, <2>1 DEF InputFails, SaidTyped
  <2>3. said'.alone => said.alone /\ ~LeavesDraft /\ line' = <<>>
    BY <1>0, <1>3 DEF InputFails, SaidTyped
  <2>4. said'.alone => Recent(history, said.lines)
    <3>. SUFFICES ASSUME said'.alone PROVE Recent(history, said.lines)
      OBVIOUS
    <3>1. Draft(history, said.lines)
      BY <1>0, <2>1, <2>3 DEF RecentInv
    <3>2. history[Len(history)] = <<>>
      BY <2>1, <2>3 DEF LeavesDraft, Last
    <3>. QED
      BY <3>1, <3>2, EntryBack
  <2>. QED
    BY <1>0, <2>1, <2>2, <2>3, <2>4 DEF RecentInv
<1>4. CASE ReadLine
  <2>1. /\ mode = "prompt" /\ file' = file /\ saidSaved' = saidSaved
        /\ said' = said /\ "Plain" \notin user.keys
    BY <1>0, <1>4 DEF ReadLine, Readline, RawModeFails, ReadPlain, Rereads
  <2>2. said.alone => Recent(history, said.lines)
    BY <1>0, <2>1 DEF RecentInv
  <2>3. CASE Readline
    <3>1. history' = Added(history, <<>>) /\ mode' = "edit"
      BY <2>3 DEF Readline
    <3>2. said.alone => Draft(history', said.lines)
      BY <2>2, <3>1, EntryMade, DraftMade
    <3>. QED
      BY <1>0, <2>1, <3>1, <3>2 DEF RecentInv, SaidTyped
  <2>4. CASE RawModeFails
    <3>1. history' = history /\ mode' = "eval" /\ line' = <<>>
      BY <2>4 DEF RawModeFails
    <3>. QED
      BY <1>0, <2>1, <2>2, <3>1 DEF RecentInv, SaidTyped
  <2>5. Readline \/ RawModeFails
    BY <1>4, <2>1 DEF ReadLine, ReadPlain
  <2>. QED
    BY <2>3, <2>4, <2>5
<1>5. CASE Evaluated
  <2>. DEFINE t == CString(line)
  <2>1. /\ mode = "eval" /\ mode' = "prompt" /\ file' = file /\ saidSaved' = saidSaved
        /\ history' = Added(history, t)
    BY <1>5 DEF Evaluated
  <2>2. said'.lines = SaidNext(said.lines, t) /\ said'.alone = said.alone /\ SaidTyped'
    <3>. HIDE DEF t
    <3>1. \/ said' = said /\ (t = <<>> \/ (said.lines # <<>> /\ Last(said.lines) = t))
          \/ /\ said' = [said EXCEPT !.lines = Append(@, t)]
             /\ ~(t = <<>> \/ (said.lines # <<>> /\ Last(said.lines) = t))
      BY <1>5 DEF Evaluated, t
    <3>2. UNCHANGED saidSaved
      BY <1>5 DEF Evaluated
    <3>. QED
      BY <1>0, <3>1, <3>2 DEF SaidTyped, SaidNext
  <2>3. said.alone => Recent(history, said.lines) /\ (EndsBlank(history) => t = <<>>)
    <3>1. line = <<>> => t = <<>>
      BY DEF CString
    <3>. HIDE DEF t
    <3>. QED
      BY <1>0, <2>1, <3>1 DEF RecentInv
  <2>. HIDE DEF t
  <2>4. said.alone => Recent(history', said'.lines)
    BY <2>1, <2>2, <2>3, LineAdded
  <2>. QED
    BY <1>0, <2>1, <2>2, <2>4 DEF RecentInv
<1>6. CASE Refused
  BY <1>0, <1>6 DEF Refused, replVars, RecentInv, SaidTyped
<1>7. CASE Dies
  BY <1>0, <1>7 DEF Dies, replVars, RecentInv, SaidTyped
<1>8. CASE Quit
  <2>1. /\ mode = "quit" /\ mode' = "down" /\ file' = history /\ saidSaved' = said /\ said' = said
    BY <1>0, <1>8 DEF Quit, Rereads
  <2>. QED
    BY <1>0, <2>1 DEF RecentInv, SaidTyped
<1>9. CASE UNCHANGED vars
  BY <1>0, <1>9 DEF vars, editorVars, replVars, RecentInv, SaidTyped
<1>. QED
  BY <1>1, <1>2, <1>3, <1>4, <1>5, <1>6, <1>7, <1>8, <1>9 DEF Next

LEMMA RecentIsSaid == RecentInv => HistoryIsRecent
<1>. SUFFICES ASSUME RecentInv, Rereads, said.alone, mode = "prompt"
              PROVE  /\ Len(history) <= HistoryMaxLen
                     /\ IsSuffix(Said(history), said.lines)
                     /\ \/ Said(history) = said.lines
                        \/ Len(Said(history)) >= HistoryMaxLen - 1
  BY DEF HistoryIsRecent
<1>1. Recent(history, said.lines)
  BY DEF RecentInv
<1>2. IsSeq(Said(history))
  <2>1. CASE EndsBlank(history)
    <3>1. Said(history) = Front(history)
      BY <1>1, <2>1, SaidOfHistory DEF Recent
    <3>. QED
      BY <1>1, <2>1, <3>1, EntryDropped DEF Recent
  <2>2. CASE ~EndsBlank(history)
    BY <1>1, <2>2, SaidOfHistory DEF Recent
  <2>. QED
    BY <2>1, <2>2
<1>3. IsSuffix(Said(history), said.lines)
  BY <1>1, <1>2, SuffixByPosition DEF Recent
<1>. QED
  BY <1>1, <1>3 DEF Recent

-----------------------------------------------------------------------------
(* The lines of a user.                                                    *)

Ascii(t) == \A i \in 1 .. Len(t) : t[i] < 128

\* The lines a user can have in the editor.
Texts(u) == {t \in Seq(Byte) : /\ Whole(t)
                               /\ Len(t) <= u.maxLine - 1
                               /\ Singles(u) => Ascii(t)
                               /\ Proper(u) => Shortest(t)
                               /\ OneLine(t)}

\* What such a line is.
LEMMA TextFacts ==
    ASSUME NEW u, Fits(u), NEW t \in Texts(u)
    PROVE  /\ t \in Seq(Byte) /\ Whole(t) /\ Len(t) \in Nat /\ Len(t) <= u.maxLine - 1
           /\ Singles(u) => Ascii(t)
           /\ Proper(u) => Shortest(t)
           /\ OneLine(t)
           /\ Between(t, 0) /\ Between(t, Len(t))
<1>1. /\ t \in Seq(Byte) /\ Whole(t) /\ Len(t) <= u.maxLine - 1
      /\ Singles(u) => Ascii(t)
      /\ Proper(u) => Shortest(t)
      /\ OneLine(t)
  BY DEF Texts
<1>2. Len(t) \in Nat /\ Between(t, 0) /\ Between(t, Len(t))
  BY <1>1, WholeFacts, EndsBetween
<1> QED
  BY <1>1, <1>2

\* The empty line is one.
LEMMA EmptyText ==
    ASSUME NEW u, Fits(u)
    PROVE  <<>> \in Texts(u) /\ Between(<<>>, 0)
<1>1. u.maxLine \in Nat \ {0}
  BY DEF Fits
<1>2. Len(<<>>) <= u.maxLine - 1 /\ <<>> \in Seq(Byte)
  BY <1>1
<1>3. Ascii(<<>>) /\ Shortest(<<>>) /\ OneLine(<<>>)
  BY DEF Ascii, Shortest, OneLine
<1> QED
  BY <1>2, <1>3, EmptyWhole DEF Texts

\* What is on either side of a position between characters.
LEMMA TextCut ==
    ASSUME NEW u, Fits(u), NEW t \in Texts(u), NEW p, Between(t, p)
    PROVE  /\ p \in 0 .. Len(t)
           /\ SubSeq(t, 1, p) \in Texts(u) /\ Len(SubSeq(t, 1, p)) = p
           /\ SubSeq(t, p + 1, Len(t)) \in Texts(u)
           /\ Len(SubSeq(t, p + 1, Len(t))) = Len(t) - p
           /\ Between(SubSeq(t, 1, p), p)
<1>1. /\ t \in Seq(Byte) /\ Whole(t) /\ Len(t) \in Nat /\ Len(t) <= u.maxLine - 1
      /\ Singles(u) => Ascii(t)
      /\ Proper(u) => Shortest(t)
      /\ OneLine(t)
  BY TextFacts
<1>2. p \in 0 .. Len(t)
  BY <1>1, BetweenFacts
<1>. DEFINE x == SubSeq(t, 1, p)
            y == SubSeq(t, p + 1, Len(t))
<1>3. /\ x \in Seq(Byte) /\ Len(x) = p /\ \A i \in 1 .. p : x[i] = t[i]
      /\ y \in Seq(Byte) /\ Len(y) = Len(t) - p
      /\ \A i \in 1 .. Len(t) - p : y[i] = t[p + i]
  BY <1>1, <1>2, CutFacts
<1>4. Whole(x) /\ Whole(y)
  BY <1>1, CutWhole
<1>. HIDE DEF x, y
<1>5. Ascii(t) => Ascii(x) /\ Ascii(y)
  <2>1. \A i \in 1 .. p : i \in 1 .. Len(t)
    BY <1>1, <1>2
  <2>2. \A i \in 1 .. Len(t) - p : p + i \in 1 .. Len(t)
    BY <1>1, <1>2
  <2> QED
    BY <1>3, <2>1, <2>2 DEF Ascii
<1>10. Shortest(t) => Shortest(x) /\ Shortest(y)
  <2>. SUFFICES ASSUME Shortest(t) PROVE Shortest(x) /\ Shortest(y)
    OBVIOUS
  <2>1. ASSUME NEW i \in 1 .. Len(x)
        PROVE  /\ x[i] \notin {0, 192, 193}
               /\ i < Len(x) /\ x[i] = 224 => x[i + 1] >= 160
               /\ i < Len(x) /\ x[i] = 240 => x[i + 1] >= 144
    <3>1. i \in 1 .. Len(t) /\ i \in 1 .. p /\ x[i] = t[i]
      BY <1>1, <1>2, <1>3
    <3>2. i < Len(x) => i < Len(t) /\ x[i + 1] = t[i + 1]
      BY <1>1, <1>2, <1>3, <3>1
    <3> QED
      BY <3>1, <3>2 DEF Shortest
  <2>2. ASSUME NEW i \in 1 .. Len(y)
        PROVE  /\ y[i] \notin {0, 192, 193}
               /\ i < Len(y) /\ y[i] = 224 => y[i + 1] >= 160
               /\ i < Len(y) /\ y[i] = 240 => y[i + 1] >= 144
    <3>. DEFINE j == p + i
    <3>1. j \in 1 .. Len(t) /\ y[i] = t[j]
      BY <1>1, <1>2, <1>3
    <3>2. i < Len(y) => j < Len(t) /\ y[i + 1] = t[j + 1]
      <4>1. i < Len(y) => i + 1 \in 1 .. Len(t) - p /\ j < Len(t) /\ p + (i + 1) = j + 1
        BY <1>1, <1>2, <1>3
      <4> QED
        BY <1>3, <4>1
    <3>. HIDE DEF j
    <3> QED
      BY <3>1, <3>2 DEF Shortest
  <2> QED
    BY <2>1, <2>2 DEF Shortest
<1>11. OneLine(x) /\ OneLine(y)
  <2>0. \A i \in 1 .. Len(t) : t[i] # 10
    BY <1>1 DEF OneLine
  <2>1. \A i \in 1 .. p : x[i] # 10
    BY <1>1, <1>2, <1>3, <2>0
  <2>2. \A i \in 1 .. Len(t) - p : y[i] # 10
    <3>. SUFFICES ASSUME NEW i \in 1 .. Len(t) - p PROVE y[i] # 10
      OBVIOUS
    <3>1. p + i \in 1 .. Len(t) /\ y[i] = t[p + i]
      BY <1>1, <1>2, <1>3
    <3> QED
      BY <2>0, <3>1
  <2> QED
    BY <1>3, <2>1, <2>2 DEF OneLine
<1>6. u.maxLine \in Nat
  BY DEF Fits
<1>7. Len(x) <= u.maxLine - 1 /\ Len(y) <= u.maxLine - 1
  BY <1>1, <1>2, <1>3, <1>6
<1>8. x \in Texts(u) /\ y \in Texts(u)
  BY <1>1, <1>3, <1>4, <1>5, <1>7, <1>10, <1>11 DEF Texts
<1>9. Between(x, p)
  BY <1>3, <1>4, EndsBetween
<1> QED
  BY <1>2, <1>3, <1>8, <1>9 DEF x, y

\* Two such texts that fit together.
LEMMA TextJoin ==
    ASSUME NEW u, Fits(u), NEW x \in Texts(u), NEW y \in Texts(u),
           Len(x) + Len(y) <= u.maxLine - 1
    PROVE  x \o y \in Texts(u) /\ Between(x \o y, Len(x))
<1>. DEFINE w == x \o y
<1>1. /\ x \in Seq(Byte) /\ Whole(x) /\ (Singles(u) => Ascii(x))
      /\ y \in Seq(Byte) /\ Whole(y) /\ (Singles(u) => Ascii(y))
      /\ Proper(u) => Shortest(x) /\ Shortest(y)
      /\ OneLine(x) /\ OneLine(y)
  BY TextFacts
<1>2. Whole(w) /\ Len(w) = Len(x) + Len(y) /\ Between(w, Len(x))
  BY <1>1, JoinWhole
<1>3. /\ w \in Seq(Byte) /\ Len(x) \in Nat /\ Len(y) \in Nat
      /\ \A i \in 1 .. Len(x) : w[i] = x[i]
      /\ \A i \in 1 .. Len(y) : w[Len(x) + i] = y[i]
  BY <1>1, JoinFacts
<1>. HIDE DEF w
<1>4. Ascii(x) /\ Ascii(y) => Ascii(w)
  <2>. SUFFICES ASSUME Ascii(x), Ascii(y), NEW i \in 1 .. Len(w) PROVE w[i] < 128
    BY DEF Ascii
  <2>1. CASE i <= Len(x)
    <3>1. i \in 1 .. Len(x)
      BY <1>3, <2>1
    <3> QED
      BY <1>3, <3>1 DEF Ascii
  <2>2. CASE ~(i <= Len(x))
    <3>. DEFINE j == i - Len(x)
    <3>1. j \in 1 .. Len(y) /\ Len(x) + j = i
      BY <1>2, <1>3, <2>2
    <3>. HIDE DEF j
    <3> QED
      BY <1>3, <3>1 DEF Ascii
  <2> QED
    BY <2>1, <2>2
<1>7. OneLine(w)
  <2>. SUFFICES ASSUME NEW i \in 1 .. Len(w) PROVE w[i] # 10
    BY DEF OneLine
  <2>1. CASE i <= Len(x)
    <3>1. i \in 1 .. Len(x)
      BY <1>3, <2>1
    <3> QED
      BY <1>1, <1>3, <3>1 DEF OneLine
  <2>2. CASE ~(i <= Len(x))
    <3>. DEFINE j == i - Len(x)
    <3>1. j \in 1 .. Len(y) /\ Len(x) + j = i
      BY <1>2, <1>3, <2>2
    <3>. HIDE DEF j
    <3> QED
      BY <1>1, <1>3, <3>1 DEF OneLine
  <2> QED
    BY <2>1, <2>2
<1>6. Shortest(x) /\ Shortest(y) => Shortest(w)
  <2>. SUFFICES ASSUME Shortest(x), Shortest(y), NEW i \in 1 .. Len(w)
                PROVE  /\ w[i] \notin {0, 192, 193}
                       /\ i < Len(w) /\ w[i] = 224 => w[i + 1] >= 160
                       /\ i < Len(w) /\ w[i] = 240 => w[i + 1] >= 144
    BY DEF Shortest
  <2>1. CASE i < Len(x)
    <3>1. i \in 1 .. Len(x) /\ i + 1 \in 1 .. Len(x)
      BY <1>3, <2>1
    <3>2. w[i] = x[i] /\ w[i + 1] = x[i + 1]
      BY <1>3, <3>1
    <3> QED
      BY <2>1, <3>1, <3>2 DEF Shortest
  <2>2. CASE i = Len(x)
    <3>1. i \in 1 .. Len(x) /\ i \in Nat
      BY <1>3, <2>2
    <3>2. w[i] = x[i]
      BY <1>3, <3>1
    <3>3. x[i] \notin {224, 240}
      <4>. SUFFICES ASSUME x[i] \in {224, 240} PROVE FALSE
        OBVIOUS
      <4>1. x[i] \notin Follows /\ Size(x[i]) > 1 /\ Size(x[i]) \in Nat
        <5>1. \A b \in {224, 240} : b \notin Follows /\ Size(b) > 1 /\ Size(b) \in Nat
          BY DEF Follows, Size
        <5> QED
          BY <5>1
      <4>2. Begins(x, i)
        BY <1>1, <3>1, <4>1 DEF Whole
      <4> QED
        BY <2>2, <3>1, <4>1, <4>2 DEF Begins
    <3> QED
      BY <3>1, <3>2, <3>3 DEF Shortest
  <2>3. CASE i > Len(x)
    <3>. DEFINE j == i - Len(x)
    <3>1. j \in 1 .. Len(y) /\ Len(x) + j = i
      BY <1>2, <1>3, <2>3
    <3>2. i < Len(w) => j < Len(y) /\ j + 1 \in 1 .. Len(y) /\ Len(x) + (j + 1) = i + 1
      BY <1>2, <1>3, <2>3
    <3>. HIDE DEF j
    <3>3. w[i] = y[j] /\ (i < Len(w) => w[i + 1] = y[j + 1])
      BY <1>3, <3>1, <3>2
    <3> QED
      BY <3>1, <3>2, <3>3, SMTT(40) DEF Shortest
  <2> QED
    BY <1>2, <1>3, <2>1, <2>2, <2>3
<1>5. w \in Texts(u)
  <2>1. Len(w) <= u.maxLine - 1 /\ (Singles(u) => Ascii(w)) /\ (Proper(u) => Shortest(w))
    BY <1>1, <1>2, <1>4, <1>6
  <2>2. w \in Seq(Byte) /\ Whole(w) /\ OneLine(w)
    BY <1>2, <1>3, <1>7
  <2> QED
    BY <2>1, <2>2 DEF Texts
<1> QED
  BY <1>2, <1>5 DEF w

\* A byte below 128 is a character.
LEMMA SingleByte ==
    ASSUME NEW b \in Byte, b < 128
    PROVE  b \notin Follows /\ b \in Leads /\ Size(b) = 1
<1>1. b \in 0 .. 127
  BY DEF Byte
<1> QED
  BY <1>1 DEF Follows, Leads, Size

\* A byte that is a character by itself is between two positions.
LEMMA AfterSingle ==
    ASSUME NEW t, Whole(t), NEW p \in 1 .. Len(t), t[p] < 128
    PROVE  Between(t, p) /\ Between(t, p - 1)
<1>1. Len(t) \in Nat /\ t[p] \in Byte /\ p \in Nat
  BY WholeFacts
<1>2. t[p] \notin Follows /\ Size(t[p]) = 1
  BY <1>1, SingleByte
<1>3. Begins(t, p)
  BY <1>2 DEF Whole
<1>4. p + 1 <= Len(t) => t[p + 1] \notin Follows
  BY <1>2, <1>3 DEF Begins
<1>5. Between(t, p)
  BY <1>1, <1>4 DEF Between
<1>6. p - 1 \in 0 .. Len(t) /\ (p - 1) + 1 = p
  BY <1>1
<1> QED
  BY <1>2, <1>5, <1>6 DEF Between

\* What a C string keeps of a line is a line.
LEMMA TextOfC ==
    ASSUME NEW u, Fits(u), NEW t \in Texts(u)
    PROVE  CString(t) \in Texts(u)
<1>. DEFINE ends == {i \in DOMAIN t : t[i] = 0}
<1>1. t \in Seq(Byte) /\ Whole(t) /\ Len(t) \in Nat /\ DOMAIN t = 1 .. Len(t)
  BY TextFacts
<1>2. CASE ends = {}
  BY <1>2 DEF CString
<1>3. CASE ends # {}
  <2>. DEFINE k == CHOOSE i \in ends : \A j \in ends : i <= j
  <2>1. ends \subseteq Nat
    BY <1>1
  <2>2. k \in ends
    <3>1. \E i \in ends : \A j \in ends : i <= j
      <4>. HIDE DEF ends
      <4> QED
        BY <1>3, <2>1, LeastNat
    <3>. HIDE DEF ends
    <3> QED
      BY <3>1
  <2>3. k \in 1 .. Len(t) /\ t[k] = 0
    BY <1>1, <2>2
  <2>4. CString(t) = SubSeq(t, 1, k - 1)
    BY <1>3 DEF CString
  <2>. HIDE DEF k, ends
  <2>5. Between(t, k - 1)
    <3>1. t[k] < 128
      BY <2>3
    <3> QED
      BY <1>1, <2>3, <3>1, AfterSingle
  <2> QED
    BY <2>4, <2>5, TextCut
<1> QED
  BY <1>2, <1>3

\* Two characters of one byte each change places.
LEMMA TextSwapped ==
    ASSUME NEW u, Fits(u), Singles(u), NEW t \in Texts(u), NEW p \in 1 .. Len(t) - 1,
           NEW w, w = [t EXCEPT ![p] = t[p + 1], ![p + 1] = t[p]]
    PROVE  w \in Texts(u) /\ Len(w) = Len(t)
<1>1. /\ t \in Seq(Byte) /\ Len(t) \in Nat /\ Len(t) <= u.maxLine - 1 /\ Ascii(t)
      /\ p \in 1 .. Len(t) /\ p + 1 \in 1 .. Len(t)
  BY TextFacts
<1>2. t[p] \in Byte /\ t[p + 1] \in Byte
  BY <1>1
<1>3. w \in Seq(Byte) /\ Len(w) = Len(t)
  BY <1>1, <1>2
<1>4. \A i \in 1 .. Len(t) : w[i] = t[i] \/ w[i] = t[p] \/ w[i] = t[p + 1]
  BY <1>1
<1>5. Ascii(w)
  BY <1>1, <1>3, <1>4 DEF Ascii
<1>6. \A i \in 1 .. Len(w) : w[i] \in Byte /\ w[i] < 128
  BY <1>3, <1>5 DEF Ascii
<1>7. \A i \in 1 .. Len(w) : w[i] \notin Follows /\ w[i] \in Leads /\ Size(w[i]) = 1
  BY <1>6, SingleByte
<1>8. ASSUME NEW i \in 1 .. Len(w) PROVE Begins(w, i)
  <2>1. Len(w) \in Nat /\ i \in Nat
    BY <1>1, <1>3
  <2>2. i + 1 - 1 <= Len(w) /\ i + 1 .. i + 1 - 1 = {}
    BY <2>1
  <2>3. i + 1 <= Len(w) => w[i + 1] \notin Follows
    <3>1. i + 1 <= Len(w) => i + 1 \in 1 .. Len(w)
      BY <2>1
    <3> QED
      BY <1>7, <3>1
  <2> QED
    BY <1>7, <2>2, <2>3 DEF Begins
<1>9. Whole(w)
  <2>1. Len(w) > 0 => 1 \in 1 .. Len(w)
    BY <1>1, <1>3
  <2> QED
    BY <1>3, <1>7, <1>8, <2>1 DEF Whole
<1>10. Proper(u) => Shortest(w)
  <2>. SUFFICES ASSUME Proper(u), NEW i \in 1 .. Len(w)
                PROVE  w[i] \notin {0, 192, 193} /\ ~(w[i] = 224) /\ ~(w[i] = 240)
    BY DEF Shortest
  <2>1. \A j \in 1 .. Len(t) : t[j] # 0
    BY TextFacts DEF Shortest
  <2>2. w[i] # 0
    BY <1>1, <1>3, <1>4, <2>1
  <2>3. w[i] \in Byte /\ w[i] < 128
    BY <1>6
  <2> QED
    BY <2>2, <2>3
<1>11. OneLine(w)
  <2>1. \A j \in 1 .. Len(t) : t[j] # 10
    BY TextFacts DEF OneLine
  <2> QED
    BY <1>1, <1>3, <1>4, <2>1 DEF OneLine
<1> QED
  BY <1>1, <1>3, <1>5, <1>9, <1>10, <1>11 DEF Texts

\* In such a text every position is between characters.
LEMMA SinglesBetween ==
    ASSUME NEW t, Whole(t), Ascii(t), NEW p \in 0 .. Len(t)
    PROVE  Between(t, p)
<1>1. Len(t) \in Nat /\ Between(t, 0)
  BY WholeFacts, EndsBetween
<1>2. CASE p # 0
  <2>1. p \in 1 .. Len(t)
    BY <1>1, <1>2
  <2> QED
    BY <2>1, AfterSingle DEF Ascii
<1> QED
  BY <1>1, <1>2

Fields == {"buf", "pos", "oldcolpos", "maxrows", "history_index", "cols"}

Shape(n) == n = [x \in Fields |-> n[x]]

\* The state of a new line has its fields.
LEMMA NoLineShape ==
    ASSUME NEW w, NEW n, n = [NoLine EXCEPT !.cols = w]
    PROVE  Shape(n) /\ n.buf = <<>> /\ n.pos = 0 /\ n.history_index = 0
BY DEF Shape, Fields, NoLine

\* The state with another position, or with another text, has them too.
LEMMA Moved ==
    ASSUME NEW n, Shape(n), NEW p, NEW m, m = [n EXCEPT !.pos = p]
    PROVE  Shape(m) /\ m.buf = n.buf /\ m.pos = p /\ m.history_index = n.history_index
BY DEF Shape, Fields

\* The same for the text.
LEMMA Changed ==
    ASSUME NEW n, Shape(n), NEW b, NEW m, m = [n EXCEPT !.buf = b]
    PROVE  Shape(m) /\ m.buf = b /\ m.pos = n.pos /\ m.history_index = n.history_index
BY DEF Shape, Fields

\* refreshMultiLine changes neither the text nor the position.
LEMMA RefreshedKeeps ==
    ASSUME NEW n, Shape(n)
    PROVE  LET m == Refreshed(n).l
           IN  Shape(m) /\ m.buf = n.buf /\ m.pos = n.pos /\ m.history_index = n.history_index
<1>. DEFINE pcolwid == ColumnPos(Prompt)
            colpos == ColumnPosForMultiLine(n.buf, Len(n.buf), n.cols, pcolwid)
            colpos2 == ColumnPosForMultiLine(n.buf, n.pos, n.cols, pcolwid)
            rows == RowsFor(pcolwid + colpos, n.cols)
                        + (IF AtEdge(n, pcolwid + colpos2) THEN 1 ELSE 0)
            kept == IF rows > n.maxrows THEN rows ELSE n.maxrows
<1>1. Refreshed(n).l = [n EXCEPT !.maxrows = kept, !.oldcolpos = colpos2]
  BY DEF Refreshed
<1>. DEFINE m == [n EXCEPT !.maxrows = kept, !.oldcolpos = colpos2]
<1>. HIDE DEF kept, colpos2
<1>2. Shape(m) /\ m.buf = n.buf /\ m.pos = n.pos /\ m.history_index = n.history_index
  BY DEF Shape, Fields
<1>. HIDE DEF m
<1> QED
  BY <1>1, <1>2 DEF m

\* It comes to its end on every line a user can have.
LEMMA RefreshKeeps ==
    ASSUME NEW u, Fits(u), NEW n, Shape(n), n.buf \in Texts(u), NEW s, Refresh(n, s)
    PROVE  /\ mode' = "edit" /\ Shape(l')
           /\ l'.buf = n.buf /\ l'.pos = n.pos /\ l'.history_index = n.history_index
<1>1. Readable(n.buf, Len(n.buf))
  BY TextFacts, WholeReadable
<1>2. mode' = "edit" /\ l' = Refreshed(n).l
  BY <1>1 DEF Refresh
<1> QED
  BY <1>2, RefreshedKeeps

\* The history holds lines still.
LEMMA AddedIs ==
    ASSUME NEW S, NEW h \in Seq(S), NEW t \in S
    PROVE  Added(h, t) \in Seq(S) /\ Added(h, t) # <<>> /\ Len(Added(h, t)) \in Nat \ {0}
<1>1. HistoryMaxLen \in Nat \ {0} /\ Len(h) \in Nat
  BY HistoryAssumption
<1>2. CASE h # <<>> /\ Last(h) = t
  <2>1. Added(h, t) = h
    BY <1>2 DEF Added
  <2> QED
    BY <1>1, <1>2, <2>1, EmptySeq
<1>3. CASE ~(h # <<>> /\ Last(h) = t) /\ Len(h) = HistoryMaxLen
  <2>1. Added(h, t) = Append(Tail(h), t)
    BY <1>3 DEF Added
  <2>2. h # <<>>
    BY <1>1, <1>3
  <2>3. Tail(h) \in Seq(S)
    BY <2>2
  <2>4. Append(Tail(h), t) \in Seq(S) /\ Len(Append(Tail(h), t)) = Len(Tail(h)) + 1
    BY <2>3
  <2> QED
    BY <2>1, <2>3, <2>4
<1>4. CASE ~(h # <<>> /\ Last(h) = t) /\ Len(h) # HistoryMaxLen
  <2>1. Added(h, t) = Append(h, t)
    BY <1>4 DEF Added
  <2>2. Append(h, t) \in Seq(S) /\ Len(Append(h, t)) = Len(h) + 1
    OBVIOUS
  <2> QED
    BY <1>1, <2>1, <2>2
<1> QED
  BY <1>2, <1>3, <1>4

\* A history that is loaded holds lines when the file does.
LEMMA LoadedIs ==
    ASSUME NEW S, NEW text \in Seq(S)
    PROVE  LoadHistory(text) \in Seq(S)
<1>. DEFINE D == 0 .. Len(text)
            N == Len(text)
            Adds(g) == g = [i \in 0 .. Len(text) |->
                              IF i = 0 THEN <<>> ELSE Added(g[i - 1], text[i])]
            upTo == CHOOSE g : Adds(g)
            rank == [i \in D |-> i]
            stop == [i \in D |-> i = 0]
            val == [i \in D |-> <<>>]
            nxt == [i \in D |-> IF i = 0 THEN 0 ELSE i - 1]
            G == [a \in D \X Seq(S) |-> IF a[1] = 0 THEN <<>> ELSE Added(a[2], text[a[1]])]
<1>1. N \in Nat /\ <<>> \in Seq(S)
  BY LenProperties
<1>2. \A i \in D : i # 0 => i - 1 \in D /\ text[i] \in S
  <2>1. \A i \in D : i # 0 => i - 1 \in D /\ i \in 1 .. Len(text)
    BY <1>1
  <2> QED
    BY <2>1
<1>3. G \in [D \X Seq(S) -> Seq(S)]
  <2>1. \A a \in D \X Seq(S) : (IF a[1] = 0 THEN <<>> ELSE Added(a[2], text[a[1]])) \in Seq(S)
    <3>. SUFFICES ASSUME NEW a \in D \X Seq(S)
                  PROVE  (IF a[1] = 0 THEN <<>> ELSE Added(a[2], text[a[1]])) \in Seq(S)
      OBVIOUS
    <3>1. a[1] \in D /\ a[2] \in Seq(S)
      OBVIOUS
    <3>. HIDE DEF D
    <3> QED
      BY <1>1, <1>2, <3>1, AddedIs
  <2>. HIDE DEF D
  <2> QED
    BY <2>1
<1>4. rank \in [D -> 0 .. N] /\ stop \in [D -> BOOLEAN] /\ val \in [D -> Seq(S)]
  BY <1>1
<1>5. nxt \in [D -> D]
  BY <1>1, <1>2
<1>6. \A i \in D : ~stop[i] => rank[nxt[i]] < rank[i]
  <2>. SUFFICES ASSUME NEW i \in D, ~stop[i] PROVE rank[nxt[i]] < rank[i]
    OBVIOUS
  <2>1. i # 0
    BY Zenon
  <2>2. i - 1 \in D /\ nxt[i] = i - 1 /\ rank[i] = i
    BY <1>2, <2>1
  <2>3. rank[i - 1] = i - 1
    BY <2>2
  <2> QED
    BY <1>1, <2>2, <2>3
<1>7. PICK f \in [D -> Seq(S)] : Loops(f, D, stop, val, nxt, G)
  <2>. HIDE DEF D, N, rank, stop, val, nxt, G
  <2> QED
    BY <1>1, <1>3, <1>4, <1>5, <1>6, LoopIs
<1>8. ASSUME NEW i \in D PROVE f[i] = IF i = 0 THEN <<>> ELSE Added(f[i - 1], text[i])
  <2>1. f[i] = IF stop[i] THEN val[i] ELSE G[<<i, f[nxt[i]]>>]
    <3>. HIDE DEF D, N, rank, stop, val, nxt, G
    <3> QED
      BY <1>7 DEF Loops
  <2>2. CASE i = 0
    <3>1. stop[i] /\ val[i] = <<>>
      BY <2>2
    <3>. HIDE DEF stop, val, G, nxt, D
    <3> QED
      BY <2>1, <2>2, <3>1
  <2>3. CASE i # 0
    <3>1. ~stop[i]
      BY <2>3, Zenon
    <3>2. nxt[i] = i - 1 /\ i - 1 \in D
      BY <1>2, <2>3
    <3>3. f[i - 1] \in Seq(S)
      <4>. HIDE DEF D
      <4> QED
        BY <3>2
    <3>4. G[<<i, f[i - 1]>>] = Added(f[i - 1], text[i])
      <4>. HIDE DEF D
      <4> QED
        BY <2>3, <3>3
    <3>. HIDE DEF stop, val, G, nxt, D
    <3> QED
      BY <2>1, <2>3, <3>1, <3>2, <3>4
  <2> QED
    BY <2>2, <2>3
<1>9. Adds(f)
  <2>1. f = [i \in D |-> f[i]]
    BY <1>7
  <2> QED
    BY <1>8, <2>1
<1>10. Adds(upTo)
  <2>. HIDE DEF Adds
  <2> QED
    BY <1>9
<1>. HIDE DEF upTo
<1>11. \A i \in D : upTo[i] = IF i = 0 THEN <<>> ELSE Added(upTo[i - 1], text[i])
  <2>. HIDE DEF D
  <2> QED
    BY <1>10 DEF D
<1>12. \A i \in D : upTo[i] \in Seq(S)
  <2>. DEFINE T == {i \in D : upTo[i] \notin Seq(S)}
  <2>. SUFFICES ASSUME T # {} PROVE FALSE
    OBVIOUS
  <2>0. T \subseteq Nat
    BY <1>1
  <2>1. PICK i \in T : \A j \in T : i <= j
    <3>. HIDE DEF T
    <3> QED
      BY <2>0, LeastNat
  <2>2. i \in D /\ upTo[i] \notin Seq(S)
    OBVIOUS
  <2>3. CASE i = 0
    BY <1>1, <1>11, <2>2, <2>3
  <2>4. CASE i # 0
    <3>1. i - 1 \in D /\ i - 1 \notin T
      BY <1>1, <1>2, <2>1, <2>2, <2>4
    <3>2. upTo[i - 1] \in Seq(S) /\ text[i] \in S
      BY <1>2, <2>2, <2>4, <3>1
    <3>3. Added(upTo[i - 1], text[i]) \in Seq(S)
      BY <3>2, AddedIs
    <3> QED
      BY <1>11, <2>2, <2>4, <3>3
  <2> QED
    BY <2>3, <2>4
<1>13. LoadHistory(text) = upTo[Len(text)]
  BY DEF LoadHistory, upTo
<1>14. Len(text) \in D
  BY <1>1
<1> QED
  BY <1>12, <1>13, <1>14

\* An entry of one line is written as one line.
LEMMA OneLineOf ==
    ASSUME NEW t \in Seq(Byte), OneLine(t)
    PROVE  LinesOf(t) = <<t>>
<1>. DEFINE N == 0 .. Len(t)
            Grown(b, c) == IF c = 10 THEN Append(b, <<>>)
                           ELSE Append(Front(b), Append(Last(b), c))
            Builds(g) == g = [i \in N |-> IF i = 0 THEN <<<<>>>>
                                          ELSE LET done == g[i - 1]
                                               IN  IF t[i] = 10 THEN Append(done, <<>>)
                                                   ELSE Append(Front(done),
                                                               Append(Last(done), t[i]))]
            upTo == CHOOSE g : Builds(g)
            parts == [i \in N |-> <<SubSeq(t, 1, i)>>]
<1>1. Len(t) \in Nat /\ SubSeq(t, 1, 0) = <<>> /\ SubSeq(t, 1, Len(t)) = t
  BY LenProperties, SubSeqEmpty, SubSeqFull
<1>2. ASSUME NEW i \in N, i # 0
      PROVE  Grown(<<SubSeq(t, 1, i - 1)>>, t[i]) = <<SubSeq(t, 1, i)>>
  <2>. DEFINE p == SubSeq(t, 1, i - 1)
  <2>0. i \in 1 .. Len(t) /\ t[i] \in Byte /\ t[i] # 10
    BY <1>1, <1>2 DEF OneLine
  <2>1. SubSeq(t, 1, i) = Append(p, t[i])
    <3>1. SubSeq(t, 1, i) = SubSeq(t, 1, i - 1) \o <<t[i]>>
      BY <1>1, <2>0, SubSeqRecursiveSecond
    <3>2. p \in Seq(Byte)
      BY <1>1, <2>0, SubSeqProperties
    <3>. HIDE DEF p
    <3>3. Append(p, t[i]) = p \o <<t[i]>>
      BY <2>0, <3>2, AppendIsConcat
    <3>. QED
      BY <3>1, <3>3 DEF p
  <2>. HIDE DEF p
  <2>2. Front(<<p>>) = <<>> /\ Last(<<p>>) = p
    BY DEF Front, Last
  <2>3. Append(<<>>, Append(p, t[i])) = <<Append(p, t[i])>>
    OBVIOUS
  <2>4. Grown(<<p>>, t[i]) = <<Append(p, t[i])>>
    BY <2>0, <2>2, <2>3
  <2>. HIDE DEF Grown
  <2>. QED
    BY <2>1, <2>4 DEF p
<1>3. \A i \in N : i # 0 => i - 1 \in N
  BY <1>1
<1>4. Builds(parts)
  <2>1. \A i \in N : parts[i] = IF i = 0 THEN <<<<>>>> ELSE Grown(parts[i - 1], t[i])
    <3>. HIDE DEF Grown
    <3>. QED
      BY <1>1, <1>2, <1>3
  <2>2. \A i \in N : parts[i] = IF i = 0 THEN <<<<>>>>
                                ELSE LET done == parts[i - 1]
                                     IN  IF t[i] = 10 THEN Append(done, <<>>)
                                         ELSE Append(Front(done), Append(Last(done), t[i]))
    BY <2>1
  <2>. HIDE DEF N
  <2>. QED
    BY <2>2
<1>. HIDE DEF parts
<1>5. Builds(upTo)
  <2>. HIDE DEF Builds
  <2>. QED
    BY <1>4
<1>. HIDE DEF upTo
<1>6. \A i \in N : upTo[i] = IF i = 0 THEN <<<<>>>> ELSE Grown(upTo[i - 1], t[i])
  <2>. HIDE DEF N
  <2>. QED
    BY <1>5
<1>. HIDE DEF Grown
<1>7. \A i \in N : upTo[i] = <<SubSeq(t, 1, i)>>
  <2>. DEFINE T == {i \in N : upTo[i] # <<SubSeq(t, 1, i)>>}
  <2>. SUFFICES ASSUME T # {} PROVE FALSE
    OBVIOUS
  <2>0. T \subseteq Nat
    BY <1>1
  <2>1. PICK i \in T : \A j \in T : i <= j
    <3>. HIDE DEF T
    <3>. QED
      BY <2>0, LeastNat
  <2>2. i \in N /\ upTo[i] # <<SubSeq(t, 1, i)>>
    OBVIOUS
  <2>3. CASE i = 0
    BY <1>1, <1>6, <2>2, <2>3
  <2>4. CASE i # 0
    <3>1. i - 1 \in N /\ i - 1 \notin T
      BY <1>1, <2>1, <2>2, <2>4, SMTT(40)
    <3>2. upTo[i - 1] = <<SubSeq(t, 1, i - 1)>>
      BY <3>1
    <3>. QED
      BY <1>2, <1>6, <2>2, <2>4, <3>2
  <2>. QED
    BY <2>3, <2>4
<1>8. LinesOf(t) = upTo[Len(t)]
  BY DEF LinesOf, upTo
<1>. QED
  BY <1>1, <1>7, <1>8

\* So a history of such entries is in the file as it is.
LEMMA SavedAsOne ==
    ASSUME NEW S, NEW h \in Seq(S), \A t \in S : LinesOf(t) = <<t>>
    PROVE  Saved(h) = h
<1>. DEFINE N == 0 .. Len(h)
            Builds(g) == g = [i \in N |-> IF i = 0 THEN <<>> ELSE g[i - 1] \o LinesOf(h[i])]
            upTo == CHOOSE g : Builds(g)
            parts == [i \in N |-> SubSeq(h, 1, i)]
<1>1. Len(h) \in Nat /\ SubSeq(h, 1, 0) = <<>> /\ SubSeq(h, 1, Len(h)) = h
  BY LenProperties, SubSeqEmpty, SubSeqFull
<1>2. ASSUME NEW i \in N, i # 0
      PROVE  SubSeq(h, 1, i - 1) \o LinesOf(h[i]) = SubSeq(h, 1, i)
  <2>1. i \in 1 .. Len(h) /\ h[i] \in S
    BY <1>1, <1>2
  <2>2. SubSeq(h, 1, i) = SubSeq(h, 1, i - 1) \o <<h[i]>>
    BY <1>1, <2>1, SubSeqRecursiveSecond
  <2>. QED
    BY <2>1, <2>2
<1>3. \A i \in N : i # 0 => i - 1 \in N
  BY <1>1
<1>4. Builds(parts)
  <2>1. \A i \in N : parts[i] = IF i = 0 THEN <<>> ELSE parts[i - 1] \o LinesOf(h[i])
    BY <1>1, <1>2, <1>3
  <2>. HIDE DEF N
  <2>. QED
    BY <2>1
<1>. HIDE DEF parts
<1>5. Builds(upTo)
  <2>. HIDE DEF Builds
  <2>. QED
    BY <1>4
<1>. HIDE DEF upTo
<1>6. \A i \in N : upTo[i] = IF i = 0 THEN <<>> ELSE upTo[i - 1] \o LinesOf(h[i])
  <2>. HIDE DEF N
  <2>. QED
    BY <1>5
<1>7. \A i \in N : upTo[i] = SubSeq(h, 1, i)
  <2>. DEFINE T == {i \in N : upTo[i] # SubSeq(h, 1, i)}
  <2>. SUFFICES ASSUME T # {} PROVE FALSE
    OBVIOUS
  <2>0. T \subseteq Nat
    BY <1>1
  <2>1. PICK i \in T : \A j \in T : i <= j
    <3>. HIDE DEF T
    <3>. QED
      BY <2>0, LeastNat
  <2>2. i \in N /\ upTo[i] # SubSeq(h, 1, i)
    OBVIOUS
  <2>3. CASE i = 0
    BY <1>1, <1>6, <2>2, <2>3
  <2>4. CASE i # 0
    <3>1. i - 1 \in N /\ i - 1 \notin T
      BY <1>1, <2>1, <2>2, <2>4
    <3>2. upTo[i - 1] = SubSeq(h, 1, i - 1)
      BY <3>1
    <3>. QED
      BY <1>2, <1>6, <2>2, <2>4, <3>2
  <2>. QED
    BY <2>3, <2>4
<1>8. Saved(h) = upTo[Len(h)]
  BY DEF Saved, upTo
<1>. QED
  BY <1>1, <1>7, <1>8

LEMMA SavedIs ==
    ASSUME NEW u, Fits(u), NEW h \in Seq(Texts(u))
    PROVE  Saved(h) = h
<1>1. \A t \in Texts(u) : LinesOf(t) = <<t>>
  BY OneLineOf DEF Texts
<1>. QED
  BY <1>1, SavedAsOne

\* A line that is edited.
OnLine ==
    /\ mode = "edit" /\ Shape(l)
    /\ l.buf \in Texts(user) /\ Between(l.buf, l.pos)

\* A key that has been handled.
Kept ==
    /\ mode' = "edit" /\ Shape(l')
    /\ l'.buf \in Texts(user) /\ Between(l'.buf, l'.pos)
    /\ l'.history_index = l.history_index

\* The cursor cuts the line in two lines.
LEMMA OnLineFacts ==
    ASSUME Fits(user), OnLine
    PROVE  /\ l.buf \in Seq(Byte) /\ Whole(l.buf) /\ Len(l.buf) \in Nat /\ Len(l.buf) <= Room
           /\ l.pos \in 0 .. Len(l.buf) /\ l.pos \in Nat
           /\ Before \in Texts(user) /\ Len(Before) = l.pos
           /\ After \in Texts(user) /\ Len(After) = Len(l.buf) - l.pos
           /\ Between(Before, l.pos)
<1>1. l.buf \in Texts(user) /\ Between(l.buf, l.pos) /\ Whole(l.buf)
  BY TextFacts DEF OnLine
<1>2. /\ l.buf \in Seq(Byte) /\ Len(l.buf) \in Nat /\ Len(l.buf) <= Room
      /\ l.pos \in 0 .. Len(l.buf) /\ l.pos \in Nat
  BY <1>1, TextFacts, BetweenFacts DEF Room
<1>3. /\ Before \in Texts(user) /\ Len(Before) = l.pos
      /\ After \in Texts(user) /\ Len(After) = Len(l.buf) - l.pos
      /\ Between(Before, l.pos)
  BY <1>1, TextCut, SMTT(40) DEF Before, After
<1> QED
  BY <1>1, <1>2, <1>3

\* One byte is kept for the terminator.
LEMMA RoomIs == ASSUME Fits(user) PROVE Room \in Nat /\ Room = user.maxLine - 1
BY DEF Fits, Room

\* A key that does nothing.
LEMMA LineStays ==
    ASSUME OnLine, Stays
    PROVE  Kept
BY DEF OnLine, Stays, Kept

\* A line that is refreshed stays one.
LEMMA LineKept ==
    ASSUME Fits(user), NEW n, Shape(n), n.buf \in Texts(user), Between(n.buf, n.pos),
           n.history_index = l.history_index, NEW s, Refresh(n, s)
    PROVE  Kept
<1>1. /\ mode' = "edit" /\ Shape(l')
      /\ l'.buf = n.buf /\ l'.pos = n.pos /\ l'.history_index = n.history_index
  BY RefreshKeeps
<1> QED
  BY <1>1 DEF Kept

\* A key that only moves the cursor.
LEMMA CursorMoved ==
    ASSUME Fits(user), OnLine, NEW p, Between(l.buf, p),
           Refresh([l EXCEPT !.pos = p], screen)
    PROVE  Kept
<1>. DEFINE n == [l EXCEPT !.pos = p]
<1>1. Shape(n) /\ n.buf = l.buf /\ n.pos = p /\ n.history_index = l.history_index
  BY Moved DEF OnLine
<1>2. Refresh(n, screen) /\ l.buf \in Texts(user)
  BY DEF OnLine
<1>. HIDE DEF n
<1> QED
  BY <1>1, <1>2, LineKept

\* A key that makes another line.
LEMMA LineMade ==
    ASSUME Fits(user), OnLine, NEW b \in Texts(user), NEW p, Between(b, p),
           \/ Refresh([l EXCEPT !.buf = b, !.pos = p], screen)
           \/ p = l.pos /\ Refresh([l EXCEPT !.buf = b], screen)
    PROVE  Kept
<1>1. CASE Refresh([l EXCEPT !.buf = b, !.pos = p], screen)
  <2>. DEFINE n == [l EXCEPT !.buf = b, !.pos = p]
  <2>0. Shape(l)
    BY DEF OnLine
  <2>1. Shape(n) /\ n.buf = b /\ n.pos = p /\ n.history_index = l.history_index
    BY <2>0 DEF Shape, Fields
  <2>2. Refresh(n, screen)
    BY <1>1
  <2>. HIDE DEF n
  <2> QED
    BY <2>1, <2>2, LineKept
<1>2. CASE p = l.pos /\ Refresh([l EXCEPT !.buf = b], screen)
  <2>. DEFINE n == [l EXCEPT !.buf = b]
  <2>1. Shape(n) /\ n.buf = b /\ n.pos = p /\ n.history_index = l.history_index
    BY <1>2, Changed DEF OnLine
  <2>2. Refresh(n, screen)
    BY <1>2
  <2>. HIDE DEF n
  <2> QED
    BY <2>1, <2>2, LineKept
<1> QED
  BY <1>1, <1>2

\* linenoiseEditMoveLeft, MoveRight, MoveHome, MoveEnd.
LEMMA KeysThatMove ==
    ASSUME Fits(user), OnLine, MoveLeft \/ MoveRight \/ MoveHome \/ MoveEnd
    PROVE  Kept
<1>0. /\ Whole(l.buf) /\ Between(l.buf, l.pos) /\ l.buf \in Texts(user)
      /\ Len(l.buf) \in Nat /\ l.pos \in Nat /\ l.pos \in 0 .. Len(l.buf)
  BY OnLineFacts DEF OnLine
<1>1. CASE MoveLeft
  <2>. DEFINE g == PrevGraphemeLen(l.buf, l.pos)
  <2>1. Between(l.buf, l.pos - g)
    BY <1>0, PrevGrapheme
  <2>2. Stays \/ Refresh([l EXCEPT !.pos = l.pos - g], screen)
    BY <1>1 DEF MoveLeft
  <2>. HIDE DEF g
  <2> QED
    BY <2>1, <2>2, LineStays, CursorMoved
<1>2. CASE MoveRight
  <2>. DEFINE g == GraphemeLen(l.buf, l.pos)
  <2>1. Between(l.buf, l.pos + g)
    BY <1>0, NextGrapheme
  <2>2. Stays \/ Refresh([l EXCEPT !.pos = l.pos + g], screen)
    BY <1>2 DEF MoveRight
  <2>. HIDE DEF g
  <2> QED
    BY <2>1, <2>2, LineStays, CursorMoved
<1>3. CASE MoveHome
  <2>1. Between(l.buf, 0)
    BY <1>0, EndsBetween
  <2>2. Stays \/ Refresh([l EXCEPT !.pos = 0], screen)
    BY <1>3 DEF MoveHome
  <2> QED
    BY <2>1, <2>2, LineStays, CursorMoved
<1>4. CASE MoveEnd
  <2>1. Between(l.buf, Len(l.buf))
    BY <1>0, EndsBetween
  <2>2. Stays \/ Refresh([l EXCEPT !.pos = Len(l.buf)], screen)
    BY <1>4 DEF MoveEnd
  <2> QED
    BY <2>1, <2>2, LineStays, CursorMoved
<1> QED
  BY <1>1, <1>2, <1>3, <1>4

\* linenoiseEditBackspace: a character is removed with its marks.
LEMMA BackspaceKeeps == ASSUME Fits(user), OnLine, Backspace PROVE Kept
<1>. DEFINE g == PrevGraphemeLen(l.buf, l.pos)
            x == SubSeq(l.buf, 1, l.pos - g)
<1>0. /\ Whole(l.buf) /\ Between(l.buf, l.pos) /\ l.buf \in Texts(user)
      /\ Len(l.buf) \in Nat /\ l.pos \in Nat /\ l.pos \in 0 .. Len(l.buf)
      /\ After \in Texts(user) /\ Len(After) = Len(l.buf) - l.pos /\ Len(l.buf) <= Room
      /\ Room \in Nat /\ Room = user.maxLine - 1
  BY OnLineFacts, RoomIs DEF OnLine
<1>1. g \in Nat /\ g <= l.pos /\ Between(l.buf, l.pos - g)
  BY <1>0, PrevGrapheme
<1>2. Stays \/ Refresh([l EXCEPT !.buf = x \o After, !.pos = l.pos - g], screen)
  BY DEF Backspace
<1>. HIDE DEF g
<1>3. x \in Texts(user) /\ Len(x) = l.pos - g
  BY <1>0, <1>1, TextCut, ZenonT(60)
<1>. HIDE DEF x
<1>4. Len(x) + Len(After) <= user.maxLine - 1
  BY <1>0, <1>1, <1>3, SMTT(40)
<1>5. x \o After \in Texts(user) /\ Between(x \o After, l.pos - g)
  BY <1>0, <1>3, <1>4, TextJoin
<1> QED
  BY <1>2, <1>5, LineStays, LineMade

\* linenoiseEditDelete: the same behind the cursor.
LEMMA DeleteKeeps == ASSUME Fits(user), OnLine, Delete PROVE Kept
<1>. DEFINE g == GraphemeLen(l.buf, l.pos)
            y == SubSeq(l.buf, l.pos + g + 1, Len(l.buf))
<1>0. /\ Whole(l.buf) /\ Between(l.buf, l.pos) /\ l.buf \in Texts(user)
      /\ Len(l.buf) \in Nat /\ l.pos \in Nat /\ l.pos \in 0 .. Len(l.buf)
      /\ Before \in Texts(user) /\ Len(Before) = l.pos /\ Len(l.buf) <= Room
      /\ Room \in Nat /\ Room = user.maxLine - 1
  BY OnLineFacts, RoomIs DEF OnLine
<1>1. g \in Nat /\ Between(l.buf, l.pos + g)
  BY <1>0, NextGrapheme
<1>2. Stays \/ Refresh([l EXCEPT !.buf = Before \o y], screen)
  BY DEF Delete
<1>. HIDE DEF g
<1>3. y \in Texts(user) /\ Len(y) = Len(l.buf) - (l.pos + g)
  BY <1>0, <1>1, TextCut, ZenonT(60)
<1>. HIDE DEF y
<1>4. Len(Before) + Len(y) <= user.maxLine - 1
  BY <1>0, <1>1, <1>3
<1>5. Before \o y \in Texts(user) /\ Between(Before \o y, l.pos)
  BY <1>0, <1>3, <1>4, TextJoin
<1> QED
  BY <1>2, <1>5, LineStays, LineMade

\* Ctrl-u, Ctrl-k and Ctrl-l.
LEMMA RestKeys == ASSUME Fits(user), OnLine, DeleteLine \/ DeleteRest \/ ClearScreen PROVE Kept
<1>1. CASE DeleteLine
  <2>1. <<>> \in Texts(user) /\ Between(<<>>, 0)
    BY EmptyText
  <2>2. Refresh([l EXCEPT !.buf = <<>>, !.pos = 0], screen)
    BY <1>1 DEF DeleteLine
  <2> QED
    BY <2>1, <2>2, LineMade
<1>2. CASE DeleteRest
  <2>1. Before \in Texts(user) /\ Between(Before, l.pos)
    BY OnLineFacts
  <2>2. Refresh([l EXCEPT !.buf = Before], screen)
    BY <1>2 DEF DeleteRest
  <2> QED
    BY <2>1, <2>2, LineMade
<1>3. CASE ClearScreen
  <2>1. Refresh(l, Cleared(l.cols))
    BY <1>3 DEF ClearScreen
  <2> QED
    BY <2>1, LineKept DEF OnLine
<1> QED
  BY <1>1, <1>2, <1>3

\* What is deleted: blanks up to the cursor, and what is before them up to
\* another blank.
LEMMA WordFacts ==
    ASSUME Fits(user), OnLine, DeletePrevWord
    PROVE  \E word, start :
              /\ word \in 0 .. l.pos /\ start \in 0 .. word
              /\ \A i \in word + 1 .. l.pos : l.buf[i] = 32
              /\ \A i \in start + 1 .. word : l.buf[i] # 32
              /\ word # 0 => l.buf[word] # 32
              /\ start # 0 => l.buf[start] = 32
              /\ Refresh([l EXCEPT !.buf = SubSeq(l.buf, 1, start) \o After, !.pos = start], screen)
<1>. DEFINE spaces == {p \in 0 .. l.pos : \A i \in p + 1 .. l.pos : l.buf[i] = 32}
            word == CHOOSE p \in spaces : \A q \in spaces : p <= q
            begins == {p \in 0 .. word : \A i \in p + 1 .. word : l.buf[i] # 32}
            start == CHOOSE p \in begins : \A q \in begins : p <= q
<1>0. l.pos \in Nat
  BY OnLineFacts
<1>1. word \in spaces /\ \A q \in spaces : word <= q
  <2>1. spaces \subseteq Nat /\ l.pos \in spaces
    BY <1>0
  <2>. HIDE DEF spaces
  <2>2. \E p \in spaces : \A q \in spaces : p <= q
    BY <2>1, LeastNat
  <2> QED
    BY <2>2
<1>. HIDE DEF word
<1>2. word \in 0 .. l.pos /\ \A i \in word + 1 .. l.pos : l.buf[i] = 32
  BY <1>1
<1>3. word # 0 => l.buf[word] # 32
  <2>. SUFFICES ASSUME word # 0, l.buf[word] = 32 PROVE FALSE
    OBVIOUS
  <2>1. word - 1 \in 0 .. l.pos /\ ~(word <= word - 1)
    BY <1>0, <1>2
  <2>2. \A i \in (word - 1) + 1 .. l.pos : i = word \/ i \in word + 1 .. l.pos
    BY <1>0, <1>2
  <2>3. word - 1 \in spaces
    BY <1>2, <2>1, <2>2
  <2>. HIDE DEF spaces
  <2> QED
    BY <1>1, <2>1, <2>3
<1>4. start \in begins /\ \A q \in begins : start <= q
  <2>1. begins \subseteq Nat /\ word \in begins
    BY <1>0, <1>2
  <2>. HIDE DEF begins
  <2>2. \E p \in begins : \A q \in begins : p <= q
    BY <2>1, LeastNat
  <2> QED
    BY <2>2
<1>. HIDE DEF start
<1>5. start \in 0 .. word /\ \A i \in start + 1 .. word : l.buf[i] # 32
  BY <1>4
<1>6. start # 0 => l.buf[start] = 32
  <2>. SUFFICES ASSUME start # 0, l.buf[start] # 32 PROVE FALSE
    OBVIOUS
  <2>1. start - 1 \in 0 .. word /\ ~(start <= start - 1)
    BY <1>0, <1>2, <1>5
  <2>2. \A i \in (start - 1) + 1 .. word : i = start \/ i \in start + 1 .. word
    BY <1>0, <1>2, <1>5
  <2>3. start - 1 \in begins
    BY <1>5, <2>1, <2>2
  <2>. HIDE DEF begins
  <2> QED
    BY <1>4, <2>1, <2>3
<1>7. Refresh([l EXCEPT !.buf = SubSeq(l.buf, 1, start) \o After, !.pos = start], screen)
  BY DEF DeletePrevWord, start, word
<1> QED
  BY <1>2, <1>3, <1>5, <1>6, <1>7

\* Blanks are characters of one byte.
LEMMA WordBetween ==
    ASSUME NEW t, Whole(t), NEW pos, Between(t, pos), NEW word \in 0 .. pos,
           \/ word = pos
           \/ t[word + 1] = 32
           \/ word = 0
           \/ t[word] = 32
    PROVE  Between(t, word)
<1>1. Len(t) \in Nat /\ pos \in Nat /\ pos <= Len(t)
  BY BetweenFacts
<1>2. CASE word = pos
  BY <1>2
<1>3. CASE word # pos /\ t[word + 1] = 32
  <2>1. word + 1 \in 1 .. Len(t) /\ (word + 1) - 1 = word /\ t[word + 1] < 128
    BY <1>1, <1>3
  <2>2. Between(t, (word + 1) - 1)
    BY <2>1, AfterSingle
  <2> QED
    BY <2>1, <2>2
<1>4. CASE word = 0
  BY <1>4, EndsBetween
<1>5. CASE word # 0 /\ t[word] = 32
  <2>1. word \in 1 .. Len(t) /\ t[word] < 128
    BY <1>1, <1>5
  <2> QED
    BY <2>1, AfterSingle
<1> QED
  BY <1>2, <1>3, <1>4, <1>5

\* linenoiseEditDeletePrevWord.
LEMMA WordKeeps == ASSUME Fits(user), OnLine, DeletePrevWord PROVE Kept
<1>0. /\ Whole(l.buf) /\ Between(l.buf, l.pos) /\ l.buf \in Texts(user)
      /\ Len(l.buf) \in Nat /\ l.pos \in Nat /\ l.pos \in 0 .. Len(l.buf)
      /\ After \in Texts(user) /\ Len(After) = Len(l.buf) - l.pos /\ Len(l.buf) <= Room
      /\ Room \in Nat /\ Room = user.maxLine - 1
  BY OnLineFacts, RoomIs DEF OnLine
<1>1. PICK word, start :
          /\ word \in 0 .. l.pos /\ start \in 0 .. word
          /\ start # 0 => l.buf[start] = 32
          /\ Refresh([l EXCEPT !.buf = SubSeq(l.buf, 1, start) \o After, !.pos = start], screen)
  BY WordFacts
<1>2. start \in 0 .. l.pos
  BY <1>0, <1>1
<1>3. Between(l.buf, start)
  BY <1>0, <1>1, <1>2, WordBetween
<1>. DEFINE x == SubSeq(l.buf, 1, start)
<1>4. Refresh([l EXCEPT !.buf = x \o After, !.pos = start], screen)
  BY <1>1
<1>5. x \in Texts(user) /\ Len(x) = start
  BY <1>0, <1>3, TextCut
<1>. HIDE DEF x
<1>6. Len(x) + Len(After) <= user.maxLine - 1
  BY <1>0, <1>2, <1>5
<1>7. x \o After \in Texts(user) /\ Between(x \o After, start)
  BY <1>0, <1>5, <1>6, TextJoin
<1> QED
  BY <1>4, <1>7, LineMade

\* Ctrl-t, for a user whose characters are single bytes.
LEMMA SwapKeeps == ASSUME Fits(user), OnLine, SwapChars PROVE Kept
<1>. DEFINE b == [l.buf EXCEPT ![l.pos] = l.buf[l.pos + 1], ![l.pos + 1] = l.buf[l.pos]]
            p == IF l.pos # Len(l.buf) - 1 THEN l.pos + 1 ELSE l.pos
<1>0. /\ l.buf \in Texts(user) /\ Len(l.buf) \in Nat /\ l.pos \in 0 .. Len(l.buf)
      /\ Singles(user)
  <2>1. "SwapChars" \in user.keys
    BY DEF SwapChars, Pressed
  <2> QED
    BY <2>1, OnLineFacts DEF OnLine, Fits
<1>1. CASE l.pos > 0 /\ l.pos < Len(l.buf)
  <2>1. l.pos \in 1 .. Len(l.buf) - 1
    BY <1>0, <1>1
  <2>2. b \in Texts(user) /\ Len(b) = Len(l.buf)
    BY <1>0, <2>1, TextSwapped
  <2>3. p \in 0 .. Len(l.buf)
    BY <1>0, <2>1
  <2>4. Refresh([l EXCEPT !.buf = b, !.pos = p], screen)
    BY <1>1 DEF SwapChars
  <2>. HIDE DEF b, p
  <2>5. Between(b, p)
    <3>1. Whole(b) /\ Ascii(b)
      BY <1>0, <2>2, TextFacts
    <3> QED
      BY <2>2, <2>3, <3>1, SinglesBetween
  <2> QED
    BY <2>2, <2>4, <2>5, LineMade
<1>2. CASE ~(l.pos > 0 /\ l.pos < Len(l.buf))
  BY <1>2, LineStays DEF SwapChars
<1> QED
  BY <1>1, <1>2

\* A character that is typed has room.
LEMMA CharText ==
    ASSUME NEW u, Fits(u), NEW c \in u.typed, 4 <= u.maxLine - 1 \/ Len(c) <= u.maxLine - 1
    PROVE  c \in Texts(u) /\ Len(c) \in 1 .. 4
<1>1. IsChar(c) /\ OneLine(c) /\ u.maxLine \in Nat \ {0}
  BY DEF Fits
<1>2. Whole(c) /\ Len(c) \in 1 .. 4 /\ c \in Seq(Byte)
  BY <1>1, CharIs DEF IsChar
<1>3. Len(c) <= u.maxLine - 1
  <2>. DEFINE r == u.maxLine - 1
              k == Len(c)
  <2>1. r \in Int /\ k \in 1 .. 4 /\ (4 <= r \/ k <= r)
    BY <1>1, <1>2
  <2>. HIDE DEF r, k
  <2>2. k <= r
    BY <2>1
  <2> QED
    BY <2>2 DEF r, k
<1>4. Singles(u) => Ascii(c)
  <2>. SUFFICES ASSUME Len(c) = 1 PROVE c[1] < 128
    BY DEF Singles, Ascii
  <2>1. Size(c[1]) = 1 /\ c[1] \in Leads
    BY <1>1 DEF IsChar
  <2> QED
    BY <2>1, LeadIs
<1> QED
  BY <1>1, <1>2, <1>3, <1>4 DEF Texts, Proper

\* linenoiseEditInsert copies as many bytes as there is room for.
LEMMA InsertFits ==
    ASSUME Fits(user), OnLine, NEW c \in user.typed, Insert(c), Len(l.buf) < Room
    PROVE  /\ c \in Texts(user) /\ Len(c) \in 1 .. 4
           /\ Before \o c \in Texts(user) /\ Len(Before \o c) = l.pos + Len(c)
           /\ Len(Before \o c) + Len(After) <= user.maxLine - 1
           /\ Refresh([l EXCEPT !.buf = (Before \o c) \o After, !.pos = l.pos + Len(c)], screen)
<1>. DEFINE x == Before \o c
<1>0. /\ l.buf \in Texts(user) /\ Whole(l.buf) /\ Len(l.buf) \in Nat
      /\ l.pos \in Nat /\ l.pos \in 0 .. Len(l.buf)
      /\ Before \in Texts(user) /\ Len(Before) = l.pos
      /\ After \in Texts(user) /\ Len(After) = Len(l.buf) - l.pos /\ Len(l.buf) <= Room
      /\ Room \in Nat /\ Room = user.maxLine - 1
  BY OnLineFacts, RoomIs DEF OnLine
<1>1. Len(c) \in 1 .. 4
  BY CharIs DEF Fits
<1>2. Len(l.buf) + Len(c) <= Room
  <2>1. CASE Singles(user)
    <3>1. Len(c) = 1
      BY <2>1 DEF Singles
    <3>2. Len(l.buf) + 1 <= Room
      BY <1>0
    <3> QED
      BY <3>1, <3>2
  <2>2. CASE ~Singles(user)
    <3>. DEFINE d == Len(Decoded(l.buf))
    <3>1. 4 * user.maxChars <= Room /\ user.maxChars \in Nat
      BY <1>0, <2>2 DEF Fits
    <3>2. d < user.maxChars
      BY DEF Insert, TypedNow
    <3>3. d \in Nat /\ Len(l.buf) <= 4 * d
      BY <1>0, DecodedIs
    <3>. HIDE DEF d
    <3>. DEFINE m == user.maxChars
                n == Len(l.buf)
                k == Len(c)
                r == Room
    <3>4. m \in Nat /\ n \in Nat /\ r \in Nat /\ k \in 1 .. 4
      BY <1>0, <1>1, <3>1
    <3>5. 4 * m <= r /\ d < m /\ n <= 4 * d
      BY <3>1, <3>2, <3>3
    <3>. HIDE DEF m, n, k, r
    <3>6. n + k <= r
      BY <3>3, <3>4, <3>5
    <3> QED
      BY <3>6 DEF m, n, k, r
  <2> QED
    BY <2>1, <2>2
<1>3. c \in Texts(user)
  <2>1. Len(c) <= user.maxLine - 1
    BY <1>0, <1>1, <1>2
  <2> QED
    BY <2>1, CharText
<1>4. x \in Texts(user) /\ Len(x) = l.pos + Len(c)
  <2>1. Len(Before) + Len(c) <= user.maxLine - 1
    BY <1>0, <1>1, <1>2
  <2>2. Len(x) = Len(Before) + Len(c)
    <3>1. Whole(Before) /\ Whole(c)
      BY <1>0, <1>3, TextFacts
    <3> QED
      BY <3>1, JoinWhole
  <2> QED
    BY <1>0, <1>3, <2>1, <2>2, TextJoin
<1>5. Refresh([l EXCEPT !.buf = x \o After, !.pos = l.pos + Len(c)], screen)
  BY DEF Insert
<1>. HIDE DEF x
<1>6. Len(x) + Len(After) <= user.maxLine - 1
  BY <1>0, <1>1, <1>2, <1>4
<1> QED
  BY <1>1, <1>3, <1>4, <1>5, <1>6 DEF x

\* linenoiseEditInsert.
LEMMA InsertKeeps == ASSUME Fits(user), OnLine, NEW c \in user.typed, Insert(c) PROVE Kept
<1>1. CASE Len(l.buf) < Room
  <2>. DEFINE x == Before \o c
              p == l.pos + Len(c)
  <2>1. /\ x \in Texts(user) /\ Len(x) = p /\ Len(x) + Len(After) <= user.maxLine - 1
        /\ Refresh([l EXCEPT !.buf = x \o After, !.pos = p], screen)
    BY <1>1, InsertFits
  <2>2. After \in Texts(user)
    BY OnLineFacts
  <2>. HIDE DEF x, p
  <2>3. x \o After \in Texts(user) /\ Between(x \o After, p)
    BY <2>1, <2>2, TextJoin
  <2> QED
    BY <2>1, <2>3, LineMade
<1>2. CASE ~(Len(l.buf) < Room)
  BY <1>2, LineStays DEF Insert
<1> QED
  BY <1>1, <1>2

\* Walking through the history.
LEMMA RecallKeeps ==
    ASSUME Fits(user), OnLine, history \in Seq(Texts(user)),
           l.history_index \in 0 .. Len(history) - 1,
           NEW dir \in {1, -1}, HistoryNext(dir)
    PROVE  /\ mode' = "edit" /\ Shape(l')
           /\ l'.buf \in Texts(user) /\ Between(l'.buf, l'.pos)
           /\ history' \in Seq(Texts(user)) /\ Len(history') = Len(history)
           /\ l'.history_index \in 0 .. Len(history) - 1
<1>. DEFINE size == Len(history)
            own == size - l.history_index
            h == [history EXCEPT ![own] = CString(l.buf)]
            i == l.history_index + dir
            text == h[size - i]
<1>0. l.buf \in Texts(user) /\ size \in Nat /\ CString(l.buf) \in Texts(user)
  BY TextOfC DEF OnLine
<1>1. CASE size <= 1
  <2>1. Stays /\ UNCHANGED history
    BY <1>1 DEF HistoryNext
  <2> QED
    BY <2>1 DEF Stays, OnLine
<1>2. CASE ~(size <= 1)
  <2>1. own \in 1 .. size
    BY <1>0
  <2>2. h \in Seq(Texts(user)) /\ Len(h) = size
    <3>. HIDE DEF own
    <3> QED
      BY <1>0, <2>1
  <2>3. history' = h
    BY <1>2 DEF HistoryNext
  <2>4. CASE i \in 0 .. size - 1
    <3>1. size - i \in 1 .. size
      BY <1>0, <2>4
    <3>2. text \in Texts(user)
      <4>. HIDE DEF h, i
      <4> QED
        BY <2>2, <3>1
    <3>. DEFINE n == [l EXCEPT !.history_index = i, !.buf = text, !.pos = Len(text)]
    <3>3. Refresh(n, screen)
      BY <1>2, <2>4 DEF HistoryNext
    <3>4. Shape(n) /\ n.buf = text /\ n.pos = Len(text) /\ n.history_index = i
      <4>1. Shape(l)
        BY DEF OnLine
      <4>. HIDE DEF text, i
      <4> QED
        BY <4>1 DEF Shape, Fields
    <3>. HIDE DEF n, text, h
    <3>5. /\ mode' = "edit" /\ Shape(l')
          /\ l'.buf = n.buf /\ l'.pos = n.pos /\ l'.history_index = n.history_index
      BY <3>2, <3>3, <3>4, RefreshKeeps
    <3>6. Between(text, Len(text))
      BY <3>2, TextFacts
    <3>. HIDE DEF i
    <3> QED
      BY <2>2, <2>3, <2>4, <3>2, <3>4, <3>5, <3>6
  <2>5. CASE ~(i \in 0 .. size - 1)
    <3>1. Stays
      BY <1>2, <2>5 DEF HistoryNext
    <3>2. mode' = "edit" /\ l' = l
      BY <3>1 DEF Stays, OnLine
    <3>. HIDE DEF h, i
    <3> QED
      BY <2>2, <2>3, <3>2 DEF OnLine
  <2> QED
    BY <2>4, <2>5
<1> QED
  BY <1>1, <1>2

\* The inductive invariant: every line that is kept, edited or handed over is
\* one the editor could hold, and the cursor is between two of its characters.
LineInv ==
    /\ user \in Users
    /\ mode # "hung"
    /\ "Plain" \in user.keys => mode # "edit"
    /\ "Plain" \notin user.keys =>
        /\ file \in Seq(Texts(user)) /\ history \in Seq(Texts(user))
        /\ line \in Texts(user)
        /\ mode = "edit" => OnLine /\ l.history_index \in 0 .. Len(history) - 1

\* The first state.
LEMMA LineInit ==
    ASSUME \A u \in Users : Fits(u)
    PROVE  Init => LineInv
<1>. SUFFICES ASSUME Init PROVE LineInv
  OBVIOUS
<1>1. user \in Users /\ <<>> \in Texts(user)
  BY EmptyText DEF Init
<1>2. <<>> \in Seq(Texts(user))
  OBVIOUS
<1> QED
  BY <1>1, <1>2 DEF Init, LineInv

\* Every key.
LEMMA KeysKeepLine ==
    ASSUME Fits(user), "Plain" \notin user.keys, LineInv, Keys, user' = user, file' = file
    PROVE  LineInv'
<1>1. mode = "edit"
  BY KeysAreForEditing
<1>2. /\ user \in Users /\ file \in Seq(Texts(user)) /\ history \in Seq(Texts(user))
      /\ line \in Texts(user) /\ OnLine /\ l.history_index \in 0 .. Len(history) - 1
  BY <1>1 DEF LineInv
<1>3. Texts(user)' = Texts(user)
  BY DEF Texts, Singles, Proper
<1>4. ASSUME Kept, history' = history, line' = line PROVE LineInv'
  <2>1. OnLine'
    BY <1>3, <1>4 DEF Kept, OnLine
  <2> QED
    BY <1>2, <1>3, <1>4, <2>1 DEF LineInv, Kept
<1>5. CASE \/ MoveLeft \/ MoveRight \/ MoveHome \/ MoveEnd \/ Backspace \/ Delete
           \/ DeletePrevWord \/ DeleteLine \/ DeleteRest \/ ClearScreen \/ SwapChars
           \/ \E c \in user.typed : Insert(c)
  <2>1. Kept
    BY <1>2, <1>5, KeysThatMove, BackspaceKeeps, DeleteKeeps, WordKeeps, RestKeys, SwapKeeps,
       InsertKeeps
  <2>2. history' = history /\ line' = line
    BY <1>5 DEF MoveLeft, MoveRight, MoveHome, MoveEnd, Backspace, Delete, DeletePrevWord,
                DeleteLine, DeleteRest, ClearScreen, SwapChars, Insert, Edits
  <2> QED
    BY <1>4, <2>1, <2>2
<1>6. ASSUME NEW dir \in {1, -1}, HistoryNext(dir) PROVE LineInv'
  <2>1. /\ mode' = "edit" /\ Shape(l')
        /\ l'.buf \in Texts(user) /\ Between(l'.buf, l'.pos)
        /\ history' \in Seq(Texts(user)) /\ Len(history') = Len(history)
        /\ l'.history_index \in 0 .. Len(history) - 1
    BY <1>2, <1>6, RecallKeeps
  <2>2. line' = line
    BY <1>6 DEF HistoryNext
  <2>3. OnLine'
    BY <1>3, <2>1 DEF OnLine
  <2> QED
    BY <1>2, <1>3, <2>1, <2>2, <2>3 DEF LineInv
<1>7. history # <<>>
  BY <1>2
<1>8. Front(history) \in Seq(Texts(user))
  BY <1>2, <1>7, FrontOfSeq
<1>9. l.buf \in Texts(user)
  BY <1>2 DEF OnLine
<1>10. CASE Enter
  <2>1. history' = Front(history) /\ line' = l.buf /\ mode' = "eval"
    BY <1>7, <1>10 DEF Enter
  <2> QED
    BY <1>2, <1>3, <1>8, <1>9, <2>1 DEF LineInv
<1>11. CASE CtrlC
  BY <1>2, <1>3, <1>11 DEF LineInv, CtrlC
<1>12. CASE CtrlD
  BY <1>2, <1>3, <1>8, <1>12 DEF LineInv, CtrlD
<1> QED
  BY <1>5, <1>6, <1>10, <1>11, <1>12 DEF Keys

\* The inductive step.
LEMMA LineStep ==
    ASSUME \A u \in Users : Fits(u)
    PROVE  LineInv /\ [Next]_vars => LineInv'
<1>. SUFFICES ASSUME LineInv, [Next]_vars PROVE LineInv'
  OBVIOUS
<1>1. user' = user /\ user \in Users
  BY DEF LineInv, Next, vars, Start, ReadLine, Edit, InputFails, Evaluated, Refused, Dies, Quit
<1>2. CASE "Plain" \in user.keys
  <2>1. mode # "hung" /\ mode # "edit"
    BY <1>2 DEF LineInv
  <2>2. ~Keys /\ ~InputFails
    BY <2>1, KeysAreForEditing DEF InputFails, InputError, Pressed
  <2>3. mode' # "hung" /\ mode' # "edit"
    BY <1>2, <2>1, <2>2 DEF Next, vars, editorVars, Start, ReadLine, Readline, RawModeFails,
       ReadPlain, Edit, Evaluated, Refused, Dies, Quit
  <2> QED
    BY <1>1, <1>2, <2>3 DEF LineInv
<1>3. CASE "Plain" \notin user.keys
  <2>0. Fits(user) /\ Texts(user)' = Texts(user) /\ <<>> \in Texts(user)
        /\ <<>> \in Seq(Texts(user))
    <3>1. Fits(user)
      BY <1>1
    <3>2. Texts(user)' = Texts(user)
      BY <1>1 DEF Texts, Singles, Proper
    <3> QED
      BY <3>1, <3>2, EmptyText
  <2>1. /\ file \in Seq(Texts(user)) /\ history \in Seq(Texts(user))
        /\ line \in Texts(user) /\ mode # "hung"
        /\ mode = "edit" => OnLine /\ l.history_index \in 0 .. Len(history) - 1
    BY <1>3 DEF LineInv
  <2>2. SUFFICES /\ file' \in Seq(Texts(user)) /\ history' \in Seq(Texts(user))
                 /\ line' \in Texts(user) /\ mode' # "hung"
                 /\ mode' = "edit" => OnLine' /\ l'.history_index \in 0 .. Len(history') - 1
    <3>1. user' \in Users /\ "Plain" \notin user'.keys /\ Texts(user') = Texts(user)
      BY <1>1, <1>3
    <3> QED
      BY <3>1 DEF LineInv
  <2>3. CASE Edit
    <3>1. LineInv'
      BY <1>1, <1>3, <2>0, <2>3, KeysKeepLine DEF Edit
    <3> QED
      BY <1>1, <1>3, <2>0, <3>1 DEF LineInv
  <2>4. CASE Start
    <3>1. LoadHistory(file) \in Seq(Texts(user))
      BY <2>1, LoadedIs
    <3> QED
      BY <2>0, <2>1, <2>4, <3>1 DEF Start
  <2>5. CASE InputFails
    <3>1. mode = "edit" /\ line' = l.buf /\ mode' = "eval" /\ history' = history /\ file' = file
      BY <2>5 DEF InputFails, InputError, Pressed
    <3>2. l.buf \in Texts(user)
      BY <2>1, <3>1 DEF OnLine
    <3> QED
      BY <2>1, <3>1, <3>2
  <2>6. CASE ReadLine
    <3>0. file' = file
      BY <2>6 DEF ReadLine
    <3>1. CASE Readline
      <4>1. /\ history' = Added(history, <<>>) /\ mode' = "edit" /\ line' = line
            /\ \E w \in GetColumns : l' = [NoLine EXCEPT !.cols = w]
        BY <3>1 DEF Readline
      <4>2. history' \in Seq(Texts(user)) /\ Len(history') \in Nat \ {0}
        BY <2>0, <2>1, <4>1, AddedIs
      <4>3. Shape(l') /\ l'.buf = <<>> /\ l'.pos = 0 /\ l'.history_index = 0
        BY <4>1, NoLineShape
      <4>4. OnLine'
        BY <2>0, <4>1, <4>3, EmptyText DEF OnLine
      <4>5. l'.history_index \in 0 .. Len(history') - 1
        BY <4>2, <4>3
      <4> QED
        BY <2>1, <3>0, <4>1, <4>2, <4>4, <4>5
    <3>2. CASE RawModeFails
      BY <2>0, <2>1, <3>0, <3>2 DEF RawModeFails
    <3>3. CASE ReadPlain
      BY <1>3, <3>3 DEF ReadPlain
    <3> QED
      BY <2>6, <3>1, <3>2, <3>3 DEF ReadLine
  <2>7. CASE Evaluated
    <3>1. CString(line) \in Texts(user)
      BY <2>0, <2>1, TextOfC
    <3>2. Added(history, CString(line)) \in Seq(Texts(user))
      BY <2>1, <3>1, AddedIs
    <3>3. /\ history' = Added(history, CString(line)) /\ mode' = "prompt"
          /\ file' = file /\ line' = line
      BY <2>7 DEF Evaluated
    <3> QED
      BY <2>1, <3>2, <3>3
  <2>8. CASE Refused
    BY <2>1, <2>8 DEF Refused, replVars
  <2>9. CASE Dies
    BY <2>0, <2>1, <2>9 DEF Dies, replVars
  <2>10. CASE Quit
    <3>1. Saved(history) = history
      BY <2>0, <2>1, SavedIs
    <3>2. /\ file' = file \/ file' = history
          /\ history' = <<>> /\ mode' = "down" /\ line' = line
      BY <2>10, <3>1 DEF Quit
    <3> QED
      BY <2>0, <2>1, <3>2
  <2>11. CASE UNCHANGED vars
    <3>1. file' = file /\ history' = history /\ line' = line /\ mode' = mode /\ l' = l
      BY <2>11 DEF vars, editorVars, replVars
    <3>2. OnLine => OnLine'
      BY <2>0, <3>1 DEF OnLine
    <3> QED
      BY <2>1, <3>1, <3>2
  <2> QED
    BY <2>3, <2>4, <2>5, <2>6, <2>7, <2>8, <2>9, <2>10, <2>11 DEF Next
<1> QED
  BY <1>2, <1>3

\* linenoise.h:2173-2196, 2200-2231, 2536-2596, serene-repl.cpp:96-107: for every
\* length of the history and however often the REPL is started, the history is
\* the latest lines that were evaluated, whatever is recalled and drafted, for
\* users who type no byte 10 as long as they change no old entry before they leave
\* it and leave no draft behind.
THEOREM HistoryKeepsLatest ==
    ASSUME \A u \in Users : Fits(u)
    PROVE  Spec => []HistoryIsRecent
<1>1. Spec => []LineInv
  BY LineInit, LineStep, PTL DEF Spec
<1>2. RecentInv /\ LineInv /\ [Next]_vars => RecentInv'
  <2>. SUFFICES ASSUME RecentInv, LineInv, [Next]_vars, Rereads' PROVE RecentInv'
    BY DEF RecentInv
  <2>1. Rereads
    BY DEF Rereads, Next, vars, Start, ReadLine, Edit, InputFails, Evaluated, Refused, Dies, Quit
  <2>2. Fits(user) /\ history \in Seq(Texts(user))
    BY <2>1 DEF LineInv, Rereads
  <2>3. Saved(history) = history
    BY <2>2, SavedIs
  <2>. QED
    BY <2>3, RecentStep
<1>3. Spec => []RecentInv
  BY <1>1, <1>2, RecentInit, PTL DEF Spec
<1>. QED
  BY <1>3, RecentIsSaid, PTL

\* What the invariant says about the cursor.
LEMMA OnCharacter ==
    ASSUME \A u \in Users : Fits(u)
    PROVE  LineInv => CursorOnCharacter
<1>. SUFFICES ASSUME LineInv, mode = "edit", "Plain" \notin user.keys
              PROVE  /\ l.pos \in 0 .. Len(l.buf)
                     /\ Len(l.buf) <= Room
                     /\ l.history_index \in 0 .. Len(history) - 1
                     /\ Readable(Before, l.pos) /\ Readable(After, Len(After))
                     /\ Decoded(Before) \o Decoded(After) = Decoded(l.buf)
  BY DEF LineInv, CursorOnCharacter
<1>1. Fits(user) /\ OnLine /\ l.history_index \in 0 .. Len(history) - 1
  BY DEF LineInv
<1>2. /\ l.pos \in 0 .. Len(l.buf) /\ Len(l.buf) <= Room /\ Whole(l.buf)
      /\ Before \in Texts(user) /\ Len(Before) = l.pos /\ After \in Texts(user)
      /\ Between(l.buf, l.pos)
  BY <1>1, OnLineFacts DEF OnLine
<1>3. Whole(Before) /\ Whole(After)
  BY <1>1, <1>2, TextFacts
<1>4. Readable(Before, l.pos) /\ Readable(After, Len(After))
  <2>1. Readable(Before, Len(Before)) /\ Readable(After, Len(After))
    BY <1>3, WholeReadable
  <2> QED
    BY <1>2, <2>1
<1>5. Before \o After = l.buf
  BY <1>2, CutWhole DEF Before, After
<1>6. Decoded(Before) \o Decoded(After) = Decoded(l.buf)
  BY <1>3, <1>5, DecodedJoin
<1> QED
  BY <1>1, <1>2, <1>4, <1>6

\* linenoise.h:2139-2266, 2356-2365: whatever is typed, deleted, swapped and
\* recalled, the line fits its buffer and the cursor stands between two whole
\* characters, for users who type whole characters and whose buffer has room
\* for the longest line they make.
THEOREM CursorStaysOnCharacter ==
    ASSUME \A u \in Users : Fits(u)
    PROVE  Spec => []CursorOnCharacter
<1>1. Spec => []LineInv
  BY LineInit, LineStep, PTL DEF Spec
<1> QED
  BY <1>1, OnCharacter, PTL

\* linenoise.h:1623-1683: the loops that count the columns of a line come to an
\* end, because no line ever holds bytes that are no character.
THEOREM NeverHangs ==
    ASSUME \A u \in Users : Fits(u)
    PROVE  Spec => [](mode # "hung")
<1>1. Spec => []LineInv
  BY LineInit, LineStep, PTL DEF Spec
<1>2. LineInv => mode # "hung"
  BY DEF LineInv
<1> QED
  BY <1>1, <1>2, PTL

-----------------------------------------------------------------------------
(* The characters of a part of a text.                                     *)

\* Every character of a text is somewhere in it.
LEMMA CharsOf ==
    ASSUME NEW t, Whole(t)
    PROVE  \A i \in 1 .. Len(Decoded(t)) :
              \E p : Between(t, p) /\ p < Len(t) /\ Decoded(t)[i] = Cp(t, p)
<1>. DEFINE Claim(u) == \A i \in 1 .. Len(Decoded(u)) :
                          \E p : Between(u, p) /\ p < Len(u) /\ Decoded(u)[i] = Cp(u, p)
            T == {m \in Nat : \E u : Whole(u) /\ Len(u) = m /\ ~Claim(u)}
<1>1. T = {}
  <2>. SUFFICES ASSUME T # {} PROVE FALSE
    OBVIOUS
  <2>1. PICK m \in T : \A y \in T : m <= y
    <3>1. T \subseteq Nat
      OBVIOUS
    <3>. HIDE DEF T
    <3> QED
      BY <3>1, LeastNat
  <2>2. PICK u : Whole(u) /\ Len(u) = m /\ ~Claim(u)
    OBVIOUS
  <2>3. u \in Seq(Byte) /\ m \in Nat
    BY <2>2, WholeFacts
  <2>4. CASE m = 0
    <3>1. u = <<>>
      BY <2>2, <2>3, <2>4
    <3>2. Decoded(u) = <<>>
      BY <3>1, DecodedEmpty
    <3> QED
      BY <2>2, <3>2
  <2>5. CASE m # 0
    <3>. DEFINE k == CharLen(u, 0)
                r == Rest(u)
    <3>0. Len(u) > 0
      BY <2>2, <2>3, <2>5
    <3>1. /\ Whole(r) /\ Len(r) \in Nat /\ Len(r) < m
          /\ Decoded(u) = <<Cp(u, 0)>> \o Decoded(r) /\ Cp(u, 0) \in Int
      BY <2>2, <3>0, DecodedFirst
    <3>2. Claim(r)
      <4>. HIDE DEF Claim, r
      <4>1. Len(r) \notin T
        BY <2>1, <2>3, <3>1
      <4> QED
        BY <3>1, <4>1
    <3>3. Decoded(r) \in Seq(Int) /\ Len(Decoded(r)) \in Nat
      BY <3>1, DecodedIs
    <3>4. Between(u, 0) /\ Between(u, k)
      <4>1. Between(u, 0)
        BY <2>2, EndsBetween
      <4>2. Between(u, 0 + k) /\ k \in 1 .. 4
        BY <2>2, <3>0, <4>1, NextBetween
      <4>3. 0 + k = k
        BY <4>2
      <4> QED
        BY <4>1, <4>2, <4>3
    <3>5. r = SubSeq(u, k + 1, Len(u))
      BY DEF Rest
    <3>. HIDE DEF k, r
    <3>6. \A p : Between(r, p) /\ p < Len(r) =>
             Between(u, k + p) /\ k + p < Len(u) /\ Cp(r, p) = Cp(u, k + p)
      <4>1. ASSUME NEW p, Between(r, p), p < Len(r)
            PROVE  Between(u, k + p) /\ k + p < Len(u) /\ Cp(r, p) = Cp(u, k + p)
        <5>1. Between(SubSeq(u, k + 1, Len(u)), p) /\ p < Len(SubSeq(u, k + 1, Len(u)))
          BY <3>5, <4>1
        <5>2. Whole(u) /\ Between(u, k)
          BY <2>2, <3>4
        <5>3. /\ Between(u, k + p) /\ k + p < Len(u)
              /\ Cp(SubSeq(u, k + 1, Len(u)), p) = Cp(u, k + p)
          BY ONLY <5>1, <5>2, BehindCut, ZenonT(60)
        <5> QED
          BY <3>5, <5>3
      <4> QED
        BY <4>1
    <3>7. /\ Decoded(u)[1] = Cp(u, 0)
          /\ Len(Decoded(u)) = 1 + Len(Decoded(r))
          /\ \A j \in 1 .. Len(Decoded(r)) : Decoded(u)[1 + j] = Decoded(r)[j]
      BY <3>1, <3>3
    <3>8. ASSUME NEW i \in 1 .. Len(Decoded(u))
          PROVE  \E p : Between(u, p) /\ p < Len(u) /\ Decoded(u)[i] = Cp(u, p)
      <4>1. CASE i = 1
        BY <3>0, <3>4, <3>7, <4>1
      <4>2. CASE i # 1
        <5>. DEFINE j == i - 1
        <5>1. j \in 1 .. Len(Decoded(r)) /\ 1 + j = i
          BY <3>3, <3>7, <4>2
        <5>. HIDE DEF j
        <5>2. PICK p : Between(r, p) /\ p < Len(r) /\ Decoded(r)[j] = Cp(r, p)
          BY <3>2, <5>1
        <5> QED
          BY <3>6, <3>7, <5>1, <5>2
      <4> QED
        BY <4>1, <4>2
    <3> QED
      BY <2>2, <3>8
  <2> QED
    BY <2>4, <2>5
<1>2. Len(t) \in Nat
  BY WholeFacts
<1>3. Claim(t)
  <2>. HIDE DEF Claim
  <2> QED
    BY <1>1, <1>2
<1> QED
  BY <1>3

\* A text of marks has only marks.
LEMMA MarksOf ==
    ASSUME NEW t, Whole(t), Marks(t, 0, Len(t))
    PROVE  \A i \in 1 .. Len(Decoded(t)) : IsCombining(Decoded(t)[i])
<1>. SUFFICES ASSUME NEW i \in 1 .. Len(Decoded(t)) PROVE IsCombining(Decoded(t)[i])
  OBVIOUS
<1>1. PICK p : Between(t, p) /\ p < Len(t) /\ Decoded(t)[i] = Cp(t, p)
  BY CharsOf
<1>2. p \in Nat /\ 0 <= p
  BY <1>1, BetweenFacts
<1> QED
  BY <1>1, <1>2 DEF Marks, Mark

\* The first bytes by the length they tell.
LEMMA LeadRange ==
    ASSUME NEW b \in Leads
    PROVE  /\ b \notin Follows
           /\ Size(b) = 1 => b \in 0 .. 127
           /\ Size(b) = 2 => b \in 192 .. 223
           /\ Size(b) = 3 => b \in 224 .. 239
           /\ Size(b) = 4 => b \in 240 .. 247
<1>1. b \in 0 .. 127 \/ b \in 192 .. 247
  BY DEF Leads
<1> QED
  BY <1>1 DEF Size, Follows

\* Remainders of bytes.
LEMMA LowBits ==
    /\ \A x \in 128 .. 191 : x % 64 = x - 128
    /\ \A f \in 192 .. 223 : f % 32 = f - 192
    /\ \A f \in 224 .. 239 : f % 16 = f - 224
    /\ \A f \in 240 .. 247 : f % 8 = f - 240
OBVIOUS

\* Only a blank is the code point of a blank.
LEMMA BlankIs ==
    ASSUME NEW t, Whole(t), Shortest(t), NEW p, Between(t, p), p < Len(t), Cp(t, p) = 32
    PROVE  t[p + 1] = 32
<1>. DEFINE f == ByteAt(t, p)
            x == ByteAt(t, p + 1)
            y == ByteAt(t, p + 2)
            z == ByteAt(t, p + 3)
<1>1. /\ p \in Nat /\ p + 1 \in 1 .. Len(t) /\ Len(t) \in Nat
      /\ f = t[p + 1] /\ f \in Leads
      /\ CharLen(t, p) = Size(f) /\ CharLen(t, p) \in 1 .. 4
      /\ Code(f, x, y, z) = 32
  BY FirstIs DEF CodeOf
<1>2. p + Size(f) <= Len(t)
  BY <1>1, NextBetween
<1>3. f \notin {0, 192, 193}
  BY <1>1 DEF Shortest
<1>4. Size(f) > 1 => x = t[p + 2] /\ x \in Follows
  <2>. SUFFICES ASSUME Size(f) > 1 PROVE x = t[p + 2] /\ x \in Follows
    OBVIOUS
  <2>. HIDE DEF f
  <2>1. p + 1 < Len(t) /\ (p + 1) + 1 = p + 2 /\ p + 2 \in (p + 1) + 1 .. (p + 1) + Size(f) - 1
    BY <1>1, <1>2
  <2>2. x = t[p + 2]
    BY <2>1 DEF ByteAt
  <2>3. f \notin Follows
    BY <1>1, LeadRange
  <2>4. Begins(t, p + 1)
    BY <1>1, <2>3 DEF Whole
  <2> QED
    BY <1>1, <2>1, <2>2, <2>4 DEF Begins
<1>5. (f = 224 => x >= 160) /\ (f = 240 => x >= 144)
  <2>. SUFFICES ASSUME f \in {224, 240} PROVE (f = 224 => x >= 160) /\ (f = 240 => x >= 144)
    OBVIOUS
  <2>. HIDE DEF f, x
  <2>1. Size(f) > 1 /\ Size(f) \in Nat
    BY DEF Size
  <2>2. p + 1 < Len(t) /\ (p + 1) + 1 = p + 2
    BY <1>1, <1>2, <2>1
  <2>3. (t[p + 1] = 224 => t[(p + 1) + 1] >= 160) /\ (t[p + 1] = 240 => t[(p + 1) + 1] >= 144)
    BY <1>1, <2>2 DEF Shortest
  <2> QED
    BY <1>1, <1>4, <2>1, <2>2, <2>3
<1>. HIDE DEF f, x, y, z
<1>6. y \in Int /\ z \in Int /\ (Size(f) > 1 => x \in 128 .. 191)
  <2>1. \A q \in Nat : ByteAt(t, q) \in Int
    <3>. SUFFICES ASSUME NEW q \in Nat PROVE ByteAt(t, q) \in Int
      OBVIOUS
    <3>1. CASE q < Len(t)
      <4>1. q + 1 \in 1 .. Len(t)
        BY <1>1, <3>1
      <4>2. t[q + 1] \in Byte
        BY <4>1, WholeFacts
      <4>3. \A b \in Byte : b \in Int
        BY DEF Byte
      <4>4. ByteAt(t, q) = t[q + 1]
        BY <3>1 DEF ByteAt
      <4> QED
        BY <4>2, <4>3, <4>4
    <3>2. CASE ~(q < Len(t))
      BY <3>2 DEF ByteAt
    <3> QED
      BY <3>1, <3>2
  <2>2. y \in Int /\ z \in Int
    BY <1>1, <2>1 DEF y, z
  <2> QED
    BY <1>4, <2>2 DEF Follows
<1>7. f = 32
  <2>. DEFINE yy == y % 64
              zz == z % 64
  <2>1. yy \in 0 .. 63 /\ zz \in 0 .. 63
    BY <1>6
  <2>. HIDE DEF yy, zz
  <2>2. CASE Size(f) = 1
    BY <1>1, <2>2 DEF Code
  <2>3. CASE Size(f) = 2
    <3>1. (f % 32) * 64 + (x % 64) = 32
      BY <1>1, <2>3 DEF Code
    <3>2. f \in 192 .. 223 /\ x \in 128 .. 191
      BY <1>1, <1>6, <2>3, LeadRange
    <3>3. f % 32 = f - 192 /\ x % 64 = x - 128
      BY <3>2, LowBits
    <3> QED
      BY <1>3, <3>1, <3>2, <3>3
  <2>4. CASE Size(f) = 3
    <3>1. (f % 16) * 4096 + (x % 64) * 64 + yy = 32
      BY <1>1, <2>4 DEF Code, yy
    <3>2. f \in 224 .. 239 /\ x \in 128 .. 191
      BY <1>1, <1>6, <2>4, LeadRange
    <3>3. f % 16 = f - 224 /\ x % 64 = x - 128
      BY <3>2, LowBits
    <3>4. (f - 224) * 4096 + (x - 128) * 64 + yy = 32
      BY <3>1, <3>3
    <3> QED
      BY <1>5, <2>1, <3>2, <3>4
  <2>5. CASE Size(f) = 4
    <3>1. (f % 8) * 262144 + (x % 64) * 4096 + yy * 64 + zz = 32
      BY <1>1, <2>5 DEF Code, yy, zz
    <3>2. f \in 240 .. 247 /\ x \in 128 .. 191
      BY <1>1, <1>6, <2>5, LeadRange
    <3>3. f % 8 = f - 240 /\ x % 64 = x - 128
      BY <3>2, LowBits
    <3>4. (f - 240) * 262144 + (x - 128) * 4096 + yy * 64 + zz = 32
      BY <3>1, <3>3
    <3> QED
      BY <1>5, <2>1, <3>2, <3>4
  <2> QED
    BY <1>1, <2>2, <2>3, <2>4, <2>5
<1> QED
  BY <1>1, <1>7

\* Without the byte there is no blank.
LEMMA NoBlankOf ==
    ASSUME NEW t, Whole(t), Shortest(t), \A i \in 1 .. Len(t) : t[i] # 32
    PROVE  \A i \in 1 .. Len(Decoded(t)) : Decoded(t)[i] # 32
<1>. SUFFICES ASSUME NEW i \in 1 .. Len(Decoded(t)), Decoded(t)[i] = 32 PROVE FALSE
  OBVIOUS
<1>1. PICK p : Between(t, p) /\ p < Len(t) /\ Decoded(t)[i] = Cp(t, p)
  BY CharsOf
<1>2. p + 1 \in 1 .. Len(t)
  BY <1>1, FirstIs
<1> QED
  BY <1>1, <1>2, BlankIs

-----------------------------------------------------------------------------
(* The operators of the abstract editor.                                   *)

\* A sequence of two parts is cut between them.
LEMMA Parts ==
    ASSUME NEW S, NEW a \in Seq(S), NEW b \in Seq(S)
    PROVE  /\ Abstract!Upto(a \o b, Len(a)) = a
           /\ Abstract!From(a \o b, Len(a) + 1) = b
<1>. DEFINE s == a \o b
            m == Len(a)
            n == Len(b)
            x == SubSeq(s, 1, m)
            y == SubSeq(s, m + 1, Len(s))
<1>1. /\ s \in Seq(S) /\ Len(s) = m + n /\ m \in Nat /\ n \in Nat
      /\ \A i \in 1 .. m : s[i] = a[i]
      /\ \A i \in 1 .. n : s[m + i] = b[i]
  BY JoinFacts
<1>. HIDE DEF s
<1>2. m \in 0 .. Len(s)
  BY <1>1
<1>3. /\ x \in Seq(S) /\ Len(x) = m /\ \A i \in 1 .. m : x[i] = s[i]
      /\ y \in Seq(S) /\ Len(y) = Len(s) - m /\ \A i \in 1 .. Len(s) - m : y[i] = s[m + i]
  BY <1>1, <1>2, CutFacts
<1>4. Len(s) - m = n
  BY <1>1
<1>. HIDE DEF x, y
<1>5. x = a
  BY <1>1, <1>3, SeqEqual
<1>6. y = b
  BY <1>1, <1>3, <1>4, SeqEqual
<1> QED
  BY <1>5, <1>6 DEF x, y, s, Abstract!Upto, Abstract!From

\* The last character with its marks.
LEMMA LastFromIs ==
    ASSUME NEW a \in Seq(Int), NEW b \in Seq(Int), b # <<>>, ~IsCombining(b[1]),
           \A i \in 2 .. Len(b) : IsCombining(b[i])
    PROVE  Abstract!LastFrom(a \o b) = Len(a) + 1
<1>. DEFINE s == a \o b
            m == Len(a)
            n == Len(b)
            bases == {i \in DOMAIN s : ~IsCombining(s[i])}
<1>1. /\ s \in Seq(Int) /\ Len(s) = m + n /\ m \in Nat /\ n \in Nat
      /\ \A i \in 1 .. n : s[m + i] = b[i]
  BY JoinFacts
<1>2. n # 0 /\ DOMAIN s = 1 .. m + n
  BY <1>1
<1>. HIDE DEF s
<1>3. m + 1 \in bases
  BY <1>1, <1>2
<1>4. ASSUME NEW j \in bases PROVE j <= m + 1
  <2>. SUFFICES ASSUME j > m + 1 PROVE FALSE
    BY <1>1, <1>2
  <2>. DEFINE i == j - m
  <2>1. i \in 2 .. n /\ i \in 1 .. n /\ m + i = j
    BY <1>1, <1>2, SMTT(40)
  <2>2. ~IsCombining(s[j])
    OBVIOUS
  <2>. HIDE DEF i
  <2> QED
    BY <1>1, <2>1, <2>2
<1>5. Abstract!LastFrom(s) = CHOOSE i \in bases : \A j \in bases : j <= i
  BY <1>3 DEF Abstract!LastFrom
<1>6. \A i \in bases : (\A j \in bases : j <= i) => i = m + 1
  <2>. SUFFICES ASSUME NEW i \in bases, \A j \in bases : j <= i PROVE i = m + 1
    OBVIOUS
  <2>1. m + 1 <= i /\ i <= m + 1 /\ i \in Int
    BY <1>2, <1>3, <1>4
  <2> QED
    BY <1>1, <2>1, SMTT(40)
<1>. HIDE DEF bases
<1> QED
  BY <1>3, <1>4, <1>5, <1>6 DEF s

\* The first one.
LEMMA FirstToIs ==
    ASSUME NEW a \in Seq(Int), NEW b \in Seq(Int), a # <<>>,
           \A i \in 2 .. Len(a) : IsCombining(a[i]),
           b # <<>> => ~IsCombining(b[1])
    PROVE  Abstract!FirstTo(a \o b) = Len(a)
<1>. DEFINE s == a \o b
            m == Len(a)
            n == Len(b)
            ends == {i \in DOMAIN s : \A j \in 2 .. i : IsCombining(s[j])}
<1>1. /\ s \in Seq(Int) /\ Len(s) = m + n /\ m \in Nat /\ n \in Nat
      /\ \A i \in 1 .. m : s[i] = a[i]
      /\ \A i \in 1 .. n : s[m + i] = b[i]
  BY JoinFacts
<1>2. m # 0 /\ DOMAIN s = 1 .. m + n /\ (n # 0 => b # <<>>)
  BY <1>1
<1>. HIDE DEF s
<1>3. m \in ends
  <2>1. \A j \in 2 .. m : IsCombining(s[j])
    BY <1>1
  <2> QED
    BY <1>1, <1>2, <2>1
<1>4. ASSUME NEW j \in ends PROVE j <= m
  <2>. SUFFICES ASSUME j > m PROVE FALSE
    BY <1>1, <1>2
  <2>0. j \in 1 .. m + n /\ \A i \in 2 .. j : IsCombining(s[i])
    BY <1>2
  <2>. HIDE DEF ends, m, n
  <2>1. m + 1 \in 2 .. j /\ 1 \in 1 .. n
    BY <1>1, <1>2, <2>0
  <2>2. IsCombining(s[m + 1]) /\ s[m + 1] = b[1]
    BY <1>1, <2>0, <2>1
  <2> QED
    BY <1>2, <2>1, <2>2
<1>5. Abstract!FirstTo(s) = CHOOSE i \in ends : \A j \in ends : j <= i
  BY DEF Abstract!FirstTo
<1>6. \A i \in ends : (\A j \in ends : j <= i) => i = m
  <2>. SUFFICES ASSUME NEW i \in ends, \A j \in ends : j <= i PROVE i = m
    OBVIOUS
  <2>0. i \in DOMAIN s
    OBVIOUS
  <2>1. m <= i /\ i <= m /\ i \in Int
    <3>. HIDE DEF ends
    <3> QED
      BY <1>1, <1>2, <1>3, <1>4, <2>0
  <2> QED
    BY <1>1, <2>1
<1>. HIDE DEF ends
<1> QED
  BY <1>3, <1>4, <1>5, <1>6 DEF s

\* The last word, with the blanks behind it.
LEMMA LastWordIs ==
    ASSUME NEW a \in Seq(Int), NEW w \in Seq(Int), NEW z \in Seq(Int),
           a # <<>> => a[Len(a)] = 32,
           \A i \in 1 .. Len(w) : w[i] # 32,
           \A i \in 1 .. Len(z) : z[i] = 32,
           w = <<>> => a = <<>>
    PROVE  Abstract!LastWordFrom(a \o (w \o z)) = Len(a) + 1
<1>. DEFINE s == a \o (w \o z)
            m == Len(a)
            n == Len(w)
            k == Len(z)
            N == m + n + k
            Is(i) == /\ i = 1 \/ s[i - 1] = 32
                     /\ \E h \in i .. N + 1 :
                           /\ \A j \in i .. h - 1 : s[j] # 32
                           /\ \A j \in h .. N : s[j] = 32
                           /\ h > i \/ i = 1
<1>1. /\ w \o z \in Seq(Int) /\ Len(w \o z) = n + k /\ n \in Nat /\ k \in Nat
      /\ \A i \in 1 .. n : (w \o z)[i] = w[i]
      /\ \A i \in 1 .. k : (w \o z)[n + i] = z[i]
  BY JoinFacts
<1>2. /\ s \in Seq(Int) /\ Len(s) = m + (n + k) /\ m \in Nat
      /\ \A i \in 1 .. m : s[i] = a[i]
      /\ \A i \in 1 .. n + k : s[m + i] = (w \o z)[i]
  <2>. DEFINE v == w \o z
  <2>1. v \in Seq(Int) /\ Len(v) = n + k
    BY <1>1
  <2>. HIDE DEF v
  <2>0. a \in Seq(Int) /\ v \in Seq(Int)
    BY <2>1
  <2>2. /\ a \o v \in Seq(Int) /\ Len(a \o v) = Len(a) + Len(v) /\ Len(a) \in Nat
        /\ \A i \in 1 .. Len(a) : (a \o v)[i] = a[i]
        /\ \A i \in 1 .. Len(v) : (a \o v)[Len(a) + i] = v[i]
    BY ONLY <2>0, JoinFacts
  <2> QED
    BY <2>1, <2>2 DEF v
<1>. HIDE DEF s
<1>3. Len(s) = N /\ N \in Nat
  BY <1>1, <1>2
<1>4. /\ m # 0 => s[m] = 32
      /\ n = 0 => m = 0
  <2>1. m # 0 => a # <<>> /\ m \in 1 .. m
    BY <1>2
  <2>2. (n = 0 => w = <<>>) /\ (a = <<>> => m = 0)
    OBVIOUS
  <2> QED
    BY <1>2, <2>1, <2>2
<1>5. \A j \in m + 1 .. m + n : s[j] # 32
  <2>. SUFFICES ASSUME NEW j \in m + 1 .. m + n PROVE s[j] # 32
    OBVIOUS
  <2>. DEFINE i == j - m
  <2>1. i \in 1 .. n /\ i \in 1 .. n + k /\ m + i = j
    BY <1>1, <1>2
  <2>. HIDE DEF i
  <2>2. s[m + i] = (w \o z)[i] /\ (w \o z)[i] = w[i] /\ w[i] # 32
    BY <1>1, <1>2, <2>1
  <2> QED
    BY <2>1, <2>2
<1>6. \A j \in m + n + 1 .. N : s[j] = 32
  <2>. SUFFICES ASSUME NEW j \in m + n + 1 .. N PROVE s[j] = 32
    OBVIOUS
  <2>. DEFINE i == j - m
              g == j - m - n
  <2>1. i \in 1 .. n + k /\ m + i = j /\ g \in 1 .. k /\ n + g = i
    BY <1>1, <1>2
  <2>. HIDE DEF i, g
  <2>2. s[m + i] = (w \o z)[i] /\ (w \o z)[n + g] = z[g] /\ z[g] = 32
    BY <1>1, <1>2, <2>1
  <2> QED
    BY <2>1, <2>2
<1>. HIDE DEF m, n, k
<1>7. Is(m + 1)
  <2>1. m + 1 = 1 \/ s[(m + 1) - 1] = 32
    <3>1. m # 0 => (m + 1) - 1 = m
      BY <1>2
    <3> QED
      BY <1>2, <1>4, <3>1
  <2>. DEFINE h == m + n + 1
  <2>2. h \in m + 1 .. N + 1 /\ h - 1 = m + n /\ (h > m + 1 \/ m + 1 = 1)
    BY <1>1, <1>2, <1>4
  <2>3. (\A j \in m + 1 .. h - 1 : s[j] # 32) /\ \A j \in h .. N : s[j] = 32
    BY <1>5, <1>6, <2>2
  <2>. HIDE DEF h
  <2> QED
    BY <2>1, <2>2, <2>3
<1>8. ASSUME NEW i \in 1 .. N + 1, Is(i) PROVE i = m + 1
  <2>1. PICK h \in i .. N + 1 : /\ \A j \in i .. h - 1 : s[j] # 32
                                /\ \A j \in h .. N : s[j] = 32
                                /\ h > i \/ i = 1
    BY <1>8
  <2>2. i \in Nat /\ h \in Nat /\ i <= h /\ h <= N + 1 /\ i >= 1
    BY <1>3
  \* Both words end where the blanks begin.
  <2>3. h <= m + n + 1
    <3>. SUFFICES ASSUME h > m + n + 1 PROVE FALSE
      BY <1>1, <1>2, <2>2
    <3>1. h - 1 \in m + n + 1 .. N
      BY <1>1, <1>2, <2>2
    <3>2. s[h - 1] = 32
      BY <1>6, <3>1
    <3>3. ~(h - 1 \in i .. h - 1)
      BY <2>1, <3>2
    <3>4. ~(h > i)
      BY <2>2, <3>3
    <3>5. i = 1
      BY <2>1, <3>4
    <3> QED
      BY <1>1, <1>2, <2>2, <3>4, <3>5
  <2>4. n # 0 => h = m + n + 1
    <3>. SUFFICES ASSUME n # 0, h < m + n + 1 PROVE FALSE
      BY <1>1, <1>2, <2>2, <2>3
    <3>1. m + n \in m + 1 .. m + n /\ m + n \in h .. N
      BY <1>1, <1>2, <2>2
    <3> QED
      BY <1>5, <2>1, <3>1
  <2>5. CASE n = 0
    <3>1. m = 0 /\ h = 1
      BY <1>1, <1>2, <1>4, <2>2, <2>3, <2>5
    <3> QED
      BY <2>2, <3>1
  <2>6. CASE n # 0
    <3>1. h = m + n + 1
      BY <2>4, <2>6
    <3>2. ~(i < m + 1)
      <4>. SUFFICES ASSUME i < m + 1 PROVE FALSE
        OBVIOUS
      <4>0. m \in Nat /\ n \in Nat /\ i \in Nat /\ i >= 1 /\ h = m + n + 1
        BY <1>1, <1>2, <2>2, <3>1
      <4>1. m # 0 /\ m \in i .. h - 1
        BY ONLY <4>0, i < m + 1
      <4> QED
        BY <1>4, <2>1, <4>1
    <3>3. ~(i > m + 1)
      <4>. SUFFICES ASSUME i > m + 1 PROVE FALSE
        OBVIOUS
      <4>1. h > i /\ i # 1
        BY <1>2, <2>1, <2>2
      <4>2. i - 1 \in m + 1 .. m + n
        BY <1>1, <1>2, <2>2, <3>1, <4>1
      <4>3. s[i - 1] = 32
        BY <1>8, <4>1
      <4> QED
        BY <1>5, <4>2, <4>3
    <3> QED
      BY <1>2, <2>2, <3>2, <3>3
  <2> QED
    BY <2>5, <2>6
<1>9. Abstract!LastWordFrom(s) = CHOOSE i \in 1 .. N + 1 : Is(i)
  BY <1>3 DEF Abstract!LastWordFrom
<1>10. m + 1 \in 1 .. N + 1
  BY <1>1, <1>2
<1>. HIDE DEF Is, N
<1> QED
  BY <1>7, <1>8, <1>9, <1>10 DEF s, m

\* A text of single bytes is its own characters.
LEMMA SinglesDecoded ==
    ASSUME NEW t, Whole(t), Ascii(t)
    PROVE  Decoded(t) = t
<1>. DEFINE T == {m \in Nat : \E u : Whole(u) /\ Ascii(u) /\ Len(u) = m /\ Decoded(u) # u}
<1>1. T = {}
  <2>. SUFFICES ASSUME T # {} PROVE FALSE
    OBVIOUS
  <2>1. PICK m \in T : \A y \in T : m <= y
    <3>1. T \subseteq Nat
      OBVIOUS
    <3>. HIDE DEF T
    <3> QED
      BY <3>1, LeastNat
  <2>2. PICK u : Whole(u) /\ Ascii(u) /\ Len(u) = m /\ Decoded(u) # u
    OBVIOUS
  <2>3. u \in Seq(Byte) /\ m \in Nat
    BY <2>2, WholeFacts
  <2>4. CASE m = 0
    <3>1. u = <<>>
      BY <2>2, <2>3, <2>4
    <3> QED
      BY <2>2, <3>1, DecodedEmpty
  <2>5. CASE m # 0
    <3>. DEFINE r == Rest(u)
    <3>0. Len(u) > 0 /\ 1 \in 1 .. Len(u) /\ 0 \in 0 .. Len(u) - 1
      BY <2>2, <2>3, <2>5
    <3>1. /\ Whole(r) /\ Len(r) \in Nat /\ Len(r) < m
          /\ Decoded(u) = <<Cp(u, 0)>> \o Decoded(r) /\ Cp(u, 0) \in Int
      BY <2>2, <3>0, DecodedFirst
    <3>2. u[1] \in Byte /\ u[1] < 128 /\ Size(u[1]) = 1
      <4>1. u[1] \in Byte /\ u[1] < 128
        BY <2>2, <2>3, <3>0 DEF Ascii
      <4> QED
        BY <4>1, SingleByte
    <3>3. CharLen(u, 0) = 1 /\ Cp(u, 0) = u[1]
      <4>1. Between(u, 0) /\ 0 < Len(u) /\ 0 + 1 = 1
        BY <2>2, <3>0, EndsBetween
      <4>2. ByteAt(u, 0) = u[1] /\ CharLen(u, 0) = Size(ByteAt(u, 0)) /\ Cp(u, 0) = CodeOf(u, 0)
        BY <2>2, <4>1, FirstIs
      <4>3. CodeOf(u, 0) = u[1]
        BY <3>2, <4>2 DEF CodeOf, Code
      <4> QED
        BY <3>2, <4>2, <4>3
    <3>4. r = SubSeq(u, 2, Len(u))
      BY <3>3 DEF Rest
    <3>5. /\ SubSeq(u, 1, 1) = <<u[1]>>
          /\ SubSeq(u, 1, 1) \o SubSeq(u, 1 + 1, Len(u)) = u
          /\ \A i \in 1 .. Len(u) - 1 : SubSeq(u, 1 + 1, Len(u))[i] = u[1 + i]
          /\ Len(SubSeq(u, 1 + 1, Len(u))) = Len(u) - 1
      <4>1. 1 \in 0 .. Len(u)
        BY <2>2, <2>3, <3>0
      <4>2. /\ SubSeq(u, 1, 1) \o SubSeq(u, 1 + 1, Len(u)) = u
            /\ \A i \in 1 .. Len(u) - 1 : SubSeq(u, 1 + 1, Len(u))[i] = u[1 + i]
            /\ Len(SubSeq(u, 1 + 1, Len(u))) = Len(u) - 1
        BY <2>3, <4>1, CutFacts
      <4>3. SubSeq(u, 1, 1) = <<u[1]>>
        <5>. DEFINE e == SubSeq(u, 1, 1)
        <5>1. e \in Seq(Byte) /\ Len(e) = 1 /\ \A i \in 1 .. 1 : e[i] = u[i]
          BY <2>3, <4>1, CutFacts
        <5>. HIDE DEF e
        <5>2. e = <<e[1]>> /\ e[1] = u[1]
          BY <5>1
        <5> QED
          BY <5>2 DEF e
      <4> QED
        BY <4>2, <4>3
    <3>. HIDE DEF r
    <3>6. <<u[1]>> \o r = u /\ Len(r) = Len(u) - 1 /\ \A i \in 1 .. Len(r) : r[i] = u[1 + i]
      BY <3>4, <3>5
    <3>7. Ascii(r)
      <4>1. \A i \in 1 .. Len(r) : 1 + i \in 1 .. Len(u)
        BY <2>2, <2>3, <3>6
      <4> QED
        BY <2>2, <3>6, <4>1 DEF Ascii
    <3>8. Decoded(r) = r
      <4>1. Len(r) \notin T
        BY <2>1, <2>3, <3>1
      <4> QED
        BY <3>1, <3>7, <4>1
    <3> QED
      BY <2>2, <3>1, <3>3, <3>6, <3>8
  <2> QED
    BY <2>4, <2>5
<1>2. Len(t) \in Nat
  BY WholeFacts
<1> QED
  BY <1>1, <1>2

-----------------------------------------------------------------------------
(* The part of a text between two positions.                               *)

\* A character and the marks behind it.
LEMMA MiddleChars ==
    ASSUME NEW t, Whole(t), NEW q, Between(t, q), NEW p, Between(t, p), p < q,
           Marks(t, p + CharLen(t, p), q)
    PROVE  LET d == Decoded(SubSeq(t, p + 1, q))
           IN  /\ d # <<>> /\ d[1] = Cp(t, p)
               /\ \A i \in 2 .. Len(d) : IsCombining(d[i])
<1>. DEFINE g == SubSeq(t, p + 1, q)
            c == CharLen(t, p)
            r == Rest(g)
            d == Decoded(g)
<1>1. /\ t \in Seq(Byte) /\ q \in 0 .. Len(t) /\ p \in 0 .. q
      /\ Len(t) \in Nat /\ p \in Nat /\ q \in Nat /\ p < Len(t)
  BY WholeFacts, BetweenFacts
<1>2. Whole(g) /\ Len(g) = q - p /\ Len(g) > 0 /\ Between(g, 0)
  <2>1. Whole(g) /\ Len(g) = q - p
    BY <1>1, ThreeParts
  <2>. HIDE DEF g
  <2> QED
    BY <1>1, <2>1, EndsBetween
<1>3. Cp(g, 0) = Cp(t, p)
  <2>1. Cp(g, 0) = Cp(t, p + 0)
    BY <1>1, <1>2, InMiddle
  <2> QED
    BY <1>1, <2>1
<1>4. CharLen(g, 0) = c
  <2>1. g[1] = t[p + 1]
    BY <1>1
  <2>. HIDE DEF g
  <2>2. 0 \in 0 .. Len(g) - 1 /\ p \in 0 .. Len(t) - 1
    BY <1>1, <1>2
  <2>3. CharLen(g, 0) = Size(g[0 + 1])
    BY <1>2, <2>2, CharLenIs
  <2>4. CharLen(t, p) = Size(t[p + 1])
    BY <2>2, CharLenIs
  <2> QED
    BY <2>1, <2>3, <2>4
<1>5. Between(g, c) /\ c \in 1 .. 4 /\ c <= Len(g)
  <2>. HIDE DEF g, c
  <2>1. 0 < Len(g)
    BY <1>2
  <2>2. CharLen(g, 0) \in 1 .. 4 /\ Between(g, 0 + CharLen(g, 0)) /\ 0 + CharLen(g, 0) <= Len(g)
    BY <1>2, <2>1, NextBetween
  <2>3. 0 + c = c
    BY <1>4, <2>2
  <2> QED
    BY <1>4, <2>2, <2>3
<1>6. Whole(r) /\ d = <<Cp(g, 0)>> \o Decoded(r) /\ Cp(g, 0) \in Int
  <2>. HIDE DEF g
  <2> QED
    BY <1>2, DecodedFirst
<1>7. r = SubSeq(g, c + 1, Len(g))
  BY <1>4 DEF Rest
<1>8. Marks(r, 0, Len(r))
  <2>. SUFFICES ASSUME NEW i \in Nat, i < Len(r), Between(r, i) PROVE Mark(r, i)
    BY DEF Marks
  <2>1. Between(SubSeq(g, c + 1, Len(g)), i) /\ i < Len(SubSeq(g, c + 1, Len(g)))
    BY <1>7
  <2>. HIDE DEF r, g, c
  <2>. DEFINE j == c + i
  <2>2. Between(g, j) /\ j < Len(g) /\ Cp(r, i) = Cp(g, j)
    BY <1>2, <1>5, <1>7, <2>1, BehindCut, ZenonT(60)
  <2>3. j \in Nat /\ j >= c
    BY <1>5
  <2>. HIDE DEF j
  <2>4. Between(t, p + j) /\ p + j < q /\ Cp(g, j) = Cp(t, p + j)
    BY <1>1, <2>2, InMiddle DEF g
  <2>5. p + j \in Nat /\ p + c <= p + j
    BY <1>1, <1>5, <2>3
  <2>6. Mark(t, p + j)
    BY <2>4, <2>5 DEF Marks, c
  <2> QED
    BY <2>2, <2>4, <2>6 DEF Mark
<1>9. (\A i \in 1 .. Len(Decoded(r)) : IsCombining(Decoded(r)[i])) /\ Decoded(r) \in Seq(Int)
  <2>. HIDE DEF r
  <2> QED
    BY <1>6, <1>8, MarksOf, DecodedIs
<1>. HIDE DEF g, r
<1>10. d # <<>> /\ d[1] = Cp(t, p) /\ \A i \in 2 .. Len(d) : IsCombining(d[i])
  <2>. DEFINE e == Decoded(r)
              k == Cp(g, 0)
  <2>1. d = <<k>> \o e /\ e \in Seq(Int) /\ k \in Int /\ k = Cp(t, p)
        /\ \A i \in 1 .. Len(e) : IsCombining(e[i])
    BY <1>3, <1>6, <1>9
  <2>. HIDE DEF d, e, k
  <2>2. /\ Len(d) = Len(e) + 1 /\ d[1] = k
        /\ \A i \in 2 .. Len(d) : d[i] = e[i - 1] /\ i - 1 \in 1 .. Len(e)
    BY <2>1
  <2>3. d # <<>>
    BY <2>1, <2>2
  <2> QED
    BY <2>1, <2>2, <2>3
<1> QED
  BY <1>10 DEF g

\* What is first behind a position.
LEMMA FirstBehind ==
    ASSUME NEW t, Whole(t), NEW q, Between(t, q)
    PROVE  LET d == Decoded(SubSeq(t, q + 1, Len(t)))
           IN  /\ q = Len(t) <=> d = <<>>
               /\ q < Len(t) => d[1] = Cp(t, q)
<1>. DEFINE y == SubSeq(t, q + 1, Len(t))
            d == Decoded(y)
<1>1. /\ t \in Seq(Byte) /\ q \in 0 .. Len(t) /\ Len(t) \in Nat /\ q \in Nat
      /\ Whole(y) /\ Len(y) = Len(t) - q
  BY WholeFacts, BetweenFacts, CutWhole
<1>2. CASE q = Len(t)
  <2>1. y = <<>>
    BY <1>1, <1>2
  <2>2. d = <<>>
    BY <2>1, DecodedEmpty
  <2> QED
    BY <1>1, <1>2, <2>2
<1>3. CASE q < Len(t)
  <2>1. Between(y, 0) /\ 0 < Len(y)
    <3>. HIDE DEF y
    <3> QED
      BY <1>1, <1>3, EndsBetween
  <2>2. Cp(y, 0) = Cp(t, q)
    <3>1. Cp(y, 0) = Cp(t, q + 0)
      BY <2>1, BehindCut
    <3> QED
      BY <1>1, <3>1
  <2>. HIDE DEF y
  <2>3. d = <<Cp(y, 0)>> \o Decoded(Rest(y)) /\ Whole(Rest(y)) /\ Cp(y, 0) \in Int
    BY <1>1, <2>1, DecodedFirst
  <2>4. Decoded(Rest(y)) \in Seq(Int)
    BY <2>3, DecodedIs
  <2>5. d # <<>> /\ d[1] = Cp(y, 0)
    <3>. DEFINE e == Decoded(Rest(y))
                k == Cp(y, 0)
    <3>1. d = <<k>> \o e /\ e \in Seq(Int) /\ k \in Int
      BY <2>3, <2>4
    <3>. HIDE DEF d, e, k
    <3> QED
      BY <3>1 DEF k
  <2> QED
    BY <1>1, <1>3, <2>2, <2>5 DEF y
<1> QED
  BY <1>1, <1>2, <1>3

-----------------------------------------------------------------------------
(* The keys, as steps of the abstract editor.                              *)

\* What a line becomes.
Becomes(pairs) ==
    /\ mode' = "edit" /\ history' = history /\ line' = line
    /\ <<Decoded(Before'), Decoded(After')>> \in pairs

\* Such a key is an edit.
LEMMA AnEdit ==
    ASSUME mode = "edit", NEW a, a = Decoded(Before), NEW b, b = Decoded(After),
           NEW pairs, Becomes(pairs),
           pairs \subseteq Abstract!Inserted(a, b) \cup Abstract!Moved(a, b)
                           \cup Abstract!Removed(a, b) \cup Abstract!Swapped(a, b)
    PROVE  Abstract!Next
<1>. DEFINE all(x, y) == Abstract!Inserted(x, y) \cup Abstract!Moved(x, y)
                         \cup Abstract!Removed(x, y) \cup Abstract!Swapped(x, y)
<1>1. /\ mode = "edit" /\ mode' = "edit" /\ history' = history /\ line' = line
      /\ <<Decoded(Before'), Decoded(After')>> \in all(Decoded(Before), Decoded(After))
  BY DEF Becomes
<1>2. Abstract!Edit
  BY <1>1 DEF Abstract!Edit
<1> QED
  BY <1>2 DEF Abstract!Next

\* A key that changes no character is a stutter.
LEMMA NoEdit ==
    ASSUME mode' = mode, history' = history, line' = line,
           mode = "edit" => /\ Decoded(Before') = Decoded(Before)
                            /\ Decoded(After') = Decoded(After)
    PROVE  UNCHANGED Abstract!vars
BY DEF Abstract!vars

\* What is on either side of the cursor after a key.
LEMMA LineBecomes ==
    ASSUME Fits(user), OnLine, NEW b \in Texts(user), NEW p,
           \/ Refresh([l EXCEPT !.buf = b, !.pos = p], screen)
           \/ p = l.pos /\ Refresh([l EXCEPT !.buf = b], screen)
           \/ b = l.buf /\ Refresh([l EXCEPT !.pos = p], screen)
    PROVE  mode' = "edit" /\ Before' = SubSeq(b, 1, p) /\ After' = SubSeq(b, p + 1, Len(b))
<1>1. Shape(l)
  BY DEF OnLine
<1>2. PICK n : Shape(n) /\ n.buf = b /\ n.pos = p /\ Refresh(n, screen)
  <2>1. CASE Refresh([l EXCEPT !.buf = b, !.pos = p], screen)
    <3>. DEFINE n == [l EXCEPT !.buf = b, !.pos = p]
    <3>1. Shape(n) /\ n.buf = b /\ n.pos = p
      BY <1>1 DEF Shape, Fields
    <3>2. Refresh(n, screen)
      BY <2>1
    <3>. HIDE DEF n
    <3> QED
      BY <3>1, <3>2
  <2>2. CASE p = l.pos /\ Refresh([l EXCEPT !.buf = b], screen)
    <3>. DEFINE n == [l EXCEPT !.buf = b]
    <3>1. Shape(n) /\ n.buf = b /\ n.pos = p
      BY <1>1, <2>2, Changed
    <3>2. Refresh(n, screen)
      BY <2>2
    <3>. HIDE DEF n
    <3> QED
      BY <3>1, <3>2
  <2>3. CASE b = l.buf /\ Refresh([l EXCEPT !.pos = p], screen)
    <3>. DEFINE n == [l EXCEPT !.pos = p]
    <3>1. Shape(n) /\ n.buf = b /\ n.pos = p
      BY <1>1, <2>3, Moved
    <3>2. Refresh(n, screen)
      BY <2>3
    <3>. HIDE DEF n
    <3> QED
      BY <3>1, <3>2
  <2> QED
    BY <2>1, <2>2, <2>3
<1>3. mode' = "edit" /\ l'.buf = b /\ l'.pos = p
  BY <1>2, RefreshKeeps
<1> QED
  BY <1>3 DEF Before, After

\* The same for a line that is put together.
LEMMA LineJoined ==
    ASSUME Fits(user), OnLine, NEW x \in Texts(user), NEW y \in Texts(user),
           Len(x) + Len(y) <= user.maxLine - 1,
           \/ Refresh([l EXCEPT !.buf = x \o y, !.pos = Len(x)], screen)
           \/ Len(x) = l.pos /\ Refresh([l EXCEPT !.buf = x \o y], screen)
    PROVE  mode' = "edit" /\ Before' = x /\ After' = y
<1>. DEFINE b == x \o y
            p == Len(x)
<1>1. b \in Texts(user)
  BY TextJoin
<1>2. x \in Seq(Byte) /\ y \in Seq(Byte)
  BY TextFacts
<1>3. SubSeq(b, 1, p) = x /\ SubSeq(b, p + 1, Len(b)) = y
  BY <1>2, Parts DEF Abstract!Upto, Abstract!From
<1>4. \/ Refresh([l EXCEPT !.buf = b, !.pos = p], screen)
      \/ p = l.pos /\ Refresh([l EXCEPT !.buf = b], screen)
  OBVIOUS
<1>. HIDE DEF b, p
<1> QED
  BY <1>1, <1>3, <1>4, LineBecomes

\* The characters of a line are those on both sides of the cursor.
LEMMA OnLineChars ==
    ASSUME Fits(user), OnLine
    PROVE  /\ mode = "edit" /\ Whole(l.buf) /\ Between(l.buf, l.pos) /\ l.buf \in Texts(user)
           /\ Len(l.buf) \in Nat /\ l.pos \in Nat /\ l.pos <= Len(l.buf)
           /\ Before \in Texts(user) /\ Len(Before) = l.pos
           /\ After \in Texts(user) /\ Len(After) = Len(l.buf) - l.pos
           /\ Len(l.buf) <= user.maxLine - 1
           /\ Decoded(Before) \in Seq(Int) /\ Decoded(After) \in Seq(Int)
           /\ Whole(Before) /\ Whole(After)
           /\ Before \o After = l.buf
           /\ Decoded(l.buf) = Decoded(Before) \o Decoded(After)
<1>1. /\ mode = "edit" /\ Whole(l.buf) /\ Between(l.buf, l.pos) /\ l.buf \in Texts(user)
      /\ Len(l.buf) \in Nat /\ l.pos \in Nat /\ l.pos <= Len(l.buf)
      /\ Before \in Texts(user) /\ Len(Before) = l.pos
      /\ After \in Texts(user) /\ Len(After) = Len(l.buf) - l.pos
      /\ Len(l.buf) <= user.maxLine - 1
  BY OnLineFacts DEF OnLine, Room
<1>2. Whole(Before) /\ Whole(After)
  BY <1>1, TextFacts
<1>3. Before \o After = l.buf
  BY <1>1, CutWhole DEF Before, After
<1>4. /\ Decoded(Before) \in Seq(Int) /\ Decoded(After) \in Seq(Int)
      /\ Decoded(l.buf) = Decoded(Before) \o Decoded(After)
  BY <1>2, <1>3, DecodedIs, DecodedJoin
<1> QED
  BY <1>1, <1>2, <1>3, <1>4

\* What the abstract editor does with a line of two parts on one side.
LEMMA StepLeft ==
    ASSUME NEW a \in Seq(Int), NEW b \in Seq(Int), b # <<>>, ~IsCombining(b[1]),
           \A i \in 2 .. Len(b) : IsCombining(b[i]), NEW r
    PROVE  /\ <<a, b \o r>> \in Abstract!Moved(a \o b, r)
           /\ <<a, r>> \in Abstract!Removed(a \o b, r)
<1>. DEFINE s == a \o b
<1>1. Abstract!LastFrom(s) = Len(a) + 1 /\ Len(a) \in Nat
  BY LastFromIs
<1>2. Abstract!LastFrom(s) - 1 = Len(a)
  BY <1>1
<1>3. /\ Abstract!Upto(s, Abstract!LastFrom(s) - 1) = a
      /\ Abstract!From(s, Abstract!LastFrom(s)) = b
  BY <1>1, <1>2, Parts
<1>. HIDE DEF s
<1> QED
  BY <1>3 DEF Abstract!Moved, Abstract!Removed, s

\* The same to the right.
LEMMA StepRight ==
    ASSUME NEW a \in Seq(Int), NEW b \in Seq(Int), a # <<>>,
           \A i \in 2 .. Len(a) : IsCombining(a[i]),
           b # <<>> => ~IsCombining(b[1]), NEW r
    PROVE  /\ <<r \o a, b>> \in Abstract!Moved(r, a \o b)
           /\ <<r, b>> \in Abstract!Removed(r, a \o b)
<1>. DEFINE s == a \o b
<1>1. Abstract!FirstTo(s) = Len(a)
  BY FirstToIs
<1>2. /\ Abstract!Upto(s, Abstract!FirstTo(s)) = a
      /\ Abstract!From(s, Abstract!FirstTo(s) + 1) = b
  BY <1>1, Parts
<1>3. s # <<>>
  OBVIOUS
<1>. HIDE DEF s
<1> QED
  BY <1>2, <1>3 DEF Abstract!Moved, Abstract!Removed, s

\* The same with the last word.
LEMMA WordLeft ==
    ASSUME NEW a \in Seq(Int), NEW w \in Seq(Int), NEW z \in Seq(Int),
           a # <<>> => a[Len(a)] = 32,
           \A i \in 1 .. Len(w) : w[i] # 32,
           \A i \in 1 .. Len(z) : z[i] = 32,
           w = <<>> => a = <<>>, NEW r
    PROVE  <<a, r>> \in Abstract!Removed(a \o (w \o z), r)
<1>. DEFINE s == a \o (w \o z)
<1>1. Abstract!LastWordFrom(s) = Len(a) + 1 /\ Len(a) \in Nat
  BY LastWordIs
<1>2. Abstract!LastWordFrom(s) - 1 = Len(a)
  BY <1>1
<1>3. Abstract!Upto(s, Len(a)) = a
  <2>. DEFINE v == w \o z
  <2>1. v \in Seq(Int)
    OBVIOUS
  <2>. HIDE DEF v
  <2>2. Abstract!Upto(a \o v, Len(a)) = a
    BY <2>1, Parts
  <2> QED
    BY <2>2 DEF v
<1>. HIDE DEF s
<1> QED
  BY <1>2, <1>3 DEF Abstract!Removed, s

\* linenoiseEditMoveLeft and linenoiseEditBackspace.
LEMMA LeftIs ==
    ASSUME Fits(user), OnLine, MoveLeft \/ Backspace
    PROVE  Abstract!Next \/ UNCHANGED Abstract!vars
<1>. DEFINE g == PrevGraphemeLen(l.buf, l.pos)
            p == l.pos - g
            x == SubSeq(l.buf, 1, p)
            m == SubSeq(l.buf, p + 1, l.pos)
<1>0. /\ mode = "edit" /\ Whole(l.buf) /\ Between(l.buf, l.pos) /\ l.buf \in Texts(user)
      /\ Len(l.buf) \in Nat /\ l.pos \in Nat /\ l.pos <= Len(l.buf)
      /\ Before \in Texts(user) /\ Len(Before) = l.pos
      /\ After \in Texts(user) /\ Len(After) = Len(l.buf) - l.pos
      /\ Len(l.buf) <= user.maxLine - 1
      /\ Decoded(Before) \in Seq(Int) /\ Decoded(After) \in Seq(Int)
      /\ Whole(Before) /\ Whole(After) /\ user.maxLine \in Nat
  BY OnLineChars DEF Fits
<1>1. history' = history /\ line' = line
  BY DEF MoveLeft, Backspace, Edits
<1>2. CASE Stays
  <2>1. mode' = mode /\ l' = l
    BY <1>2 DEF Stays
  <2>2. Before' = Before /\ After' = After
    BY <2>1 DEF Before, After
  <2> QED
    BY <1>1, <2>1, <2>2, NoEdit
<1>3. CASE ~Stays
  <2>0. g \in Nat /\ g <= l.pos /\ p \in Nat /\ Between(l.buf, p)
        /\ (g # 0 => /\ ~Mark(l.buf, p)
                     /\ Marks(l.buf, p + CharLen(l.buf, p), l.pos))
    BY <1>0, PrevGrapheme
  <2>1. /\ MoveLeft => Refresh([l EXCEPT !.pos = p], screen)
        /\ Backspace => Refresh([l EXCEPT !.buf = x \o After, !.pos = p], screen)
    BY <1>3 DEF MoveLeft, Backspace
  <2>. HIDE DEF g
  <2>2. p <= l.pos
    BY <1>0, <2>0
  <2>3. /\ Whole(x) /\ Whole(m)
        /\ x \o m = SubSeq(l.buf, 1, l.pos)
        /\ m \o SubSeq(l.buf, l.pos + 1, Len(l.buf)) = SubSeq(l.buf, p + 1, Len(l.buf))
    <3>0. /\ Whole(l.buf) /\ Between(l.buf, l.pos) /\ Between(l.buf, p) /\ p <= l.pos
      BY <1>0, <2>0, <2>2
    <3>. HIDE DEF p
    <3> QED
      BY ONLY <3>0, ThreeParts
  <2>4. Before = x \o m /\ SubSeq(l.buf, p + 1, Len(l.buf)) = m \o After
    BY <2>3 DEF Before, After
  <2>5. x \in Texts(user) /\ Len(x) = p
    <3>. HIDE DEF p
    <3> QED
      BY <1>0, <2>0, TextCut
  <2>6. MoveLeft => mode' = "edit" /\ Before' = x /\ After' = m \o After
    <3>. SUFFICES ASSUME MoveLeft PROVE mode' = "edit" /\ Before' = x /\ After' = m \o After
      OBVIOUS
    <3>1. Refresh([l EXCEPT !.pos = p], screen)
      BY <2>1
    <3>. HIDE DEF p
    <3> QED
      BY <1>0, <2>4, <3>1, LineBecomes
  <2>7. Backspace => mode' = "edit" /\ Before' = x /\ After' = After
    <3>. SUFFICES ASSUME Backspace PROVE mode' = "edit" /\ Before' = x /\ After' = After
      OBVIOUS
    <3>1. Refresh([l EXCEPT !.buf = x \o After, !.pos = Len(x)], screen)
      BY <2>1, <2>5
    <3>2. Len(x) + Len(After) <= user.maxLine - 1
      <4>. HIDE DEF x, p
      <4> QED
        BY <1>0, <2>0, <2>2, <2>5, SMTT(40)
    <3>. HIDE DEF x, p
    <3> QED
      BY <1>0, <2>5, <3>1, <3>2, LineJoined
  <2>8. CASE g = 0
    <3>1. p = l.pos
      BY <1>0, <2>0, <2>8
    <3>2. x = Before /\ m = <<>> /\ <<>> \o After = After
      <4>1. x = Before
        BY <3>1 DEF Before
      <4>2. m = <<>>
        BY <1>0, <3>1
      <4>3. After \in Seq(Byte)
        BY <1>0, TextFacts
      <4> QED
        BY <4>1, <4>2, <4>3
    <3>. HIDE DEF x, m, p
    <3>3. mode' = mode /\ Before' = Before /\ After' = After
      BY <1>0, <2>6, <2>7, <3>2
    <3> QED
      BY <1>1, <3>3, NoEdit
  <2>9. CASE g # 0
    <3>. DEFINE a == Decoded(x)
                b == Decoded(m)
                r == Decoded(After)
    <3>1. a \in Seq(Int) /\ b \in Seq(Int) /\ Decoded(x \o m) = a \o b
          /\ Decoded(m \o After) = b \o r
      <4>. HIDE DEF x, m
      <4> QED
        BY <1>0, <2>3, DecodedIs, DecodedJoin
    <3>2. b # <<>> /\ ~IsCombining(b[1]) /\ \A i \in 2 .. Len(b) : IsCombining(b[i])
      <4>1. p < l.pos /\ ~Mark(l.buf, p) /\ Marks(l.buf, p + CharLen(l.buf, p), l.pos)
        BY <1>0, <2>0, <2>9
      <4>. HIDE DEF p
      <4>2. b # <<>> /\ b[1] = Cp(l.buf, p) /\ \A i \in 2 .. Len(b) : IsCombining(b[i])
        BY <1>0, <2>0, <4>1, MiddleChars
      <4> QED
        BY <4>1, <4>2 DEF Mark
    <3>. HIDE DEF x, m, p
    <3>3. Decoded(Before) = a \o b
      BY <2>4, <3>1
    <3>4. /\ MoveLeft => <<Decoded(Before'), Decoded(After')>> = <<a, b \o r>>
          /\ Backspace => <<Decoded(Before'), Decoded(After')>> = <<a, r>>
      BY <2>6, <2>7, <3>1
    <3>. HIDE DEF a, b
    <3>5. /\ <<a, b \o r>> \in Abstract!Moved(a \o b, r)
          /\ <<a, r>> \in Abstract!Removed(a \o b, r)
      BY <3>1, <3>2, StepLeft
    <3>6. Becomes(Abstract!Moved(a \o b, r) \cup Abstract!Removed(a \o b, r))
      BY <1>1, <2>6, <2>7, <3>4, <3>5 DEF Becomes
    <3> QED
      BY <1>0, <3>3, <3>6, AnEdit
  <2> QED
    BY <2>0, <2>8, <2>9
<1> QED
  BY <1>2, <1>3

\* linenoiseEditMoveRight and linenoiseEditDelete.
LEMMA RightIs ==
    ASSUME Fits(user), OnLine, MoveRight \/ Delete
    PROVE  Abstract!Next \/ UNCHANGED Abstract!vars
<1>. DEFINE g == GraphemeLen(l.buf, l.pos)
            p == l.pos + g
            m == SubSeq(l.buf, l.pos + 1, p)
            y == SubSeq(l.buf, p + 1, Len(l.buf))
<1>0. /\ mode = "edit" /\ Whole(l.buf) /\ Between(l.buf, l.pos) /\ l.buf \in Texts(user)
      /\ Len(l.buf) \in Nat /\ l.pos \in Nat /\ l.pos <= Len(l.buf)
      /\ Before \in Texts(user) /\ Len(Before) = l.pos
      /\ After \in Texts(user) /\ Len(After) = Len(l.buf) - l.pos
      /\ Len(l.buf) <= user.maxLine - 1
      /\ Decoded(Before) \in Seq(Int) /\ Decoded(After) \in Seq(Int)
      /\ Whole(Before) /\ Whole(After) /\ user.maxLine \in Nat
  BY OnLineChars DEF Fits
<1>1. history' = history /\ line' = line
  BY DEF MoveRight, Delete, Edits
<1>2. CASE Stays
  <2>1. mode' = mode /\ l' = l
    BY <1>2 DEF Stays
  <2>2. Before' = Before /\ After' = After
    BY <2>1 DEF Before, After
  <2> QED
    BY <1>1, <2>1, <2>2, NoEdit
<1>3. CASE ~Stays
  <2>0. l.pos < Len(l.buf)
    BY <1>0, <1>3 DEF MoveRight, Delete
  <2>1. /\ g \in Nat /\ Between(l.buf, p) /\ p <= Len(l.buf) /\ CharLen(l.buf, l.pos) <= g
        /\ Marks(l.buf, l.pos + CharLen(l.buf, l.pos), p)
        /\ p < Len(l.buf) => ~Mark(l.buf, p)
    BY <1>0, <2>0, NextGrapheme
  <2>2. /\ MoveRight => Refresh([l EXCEPT !.pos = p], screen)
        /\ Delete => Refresh([l EXCEPT !.buf = Before \o y], screen)
    BY <1>3 DEF MoveRight, Delete
  <2>. HIDE DEF g
  <2>3. l.pos < p /\ p \in Nat /\ l.pos <= p
    <3>1. CharLen(l.buf, l.pos) \in 1 .. 4
      BY <1>0, <2>0, NextBetween
    <3> QED
      BY <1>0, <2>1, <3>1
  <2>4. /\ Whole(m) /\ Before \o m = SubSeq(l.buf, 1, p) /\ m \o y = After
    <3>0. /\ Whole(l.buf) /\ Between(l.buf, l.pos) /\ Between(l.buf, p) /\ l.pos <= p
      BY <1>0, <2>1, <2>3
    <3>. HIDE DEF p
    <3>1. /\ Whole(m)
          /\ SubSeq(l.buf, 1, l.pos) \o m = SubSeq(l.buf, 1, p)
          /\ m \o y = SubSeq(l.buf, l.pos + 1, Len(l.buf))
      BY ONLY <3>0, ThreeParts
    <3> QED
      BY <3>1 DEF Before, After
  <2>5. y \in Texts(user) /\ Len(y) = Len(l.buf) - p
    <3>0. Fits(user) /\ l.buf \in Texts(user) /\ Between(l.buf, p)
      BY <1>0, <2>1
    <3>. HIDE DEF p
    <3>1. /\ SubSeq(l.buf, p + 1, Len(l.buf)) \in Texts(user)
          /\ Len(SubSeq(l.buf, p + 1, Len(l.buf))) = Len(l.buf) - p
      BY ONLY <3>0, TextCut
    <3> QED
      BY <3>1
  <2>6. MoveRight => mode' = "edit" /\ Before' = Before \o m /\ After' = y
    <3>. SUFFICES ASSUME MoveRight PROVE mode' = "edit" /\ Before' = Before \o m /\ After' = y
      OBVIOUS
    <3>1. Refresh([l EXCEPT !.pos = p], screen)
      BY <2>2
    <3>. HIDE DEF p
    <3> QED
      BY <1>0, <2>4, <3>1, LineBecomes
  <2>7. Delete => mode' = "edit" /\ Before' = Before /\ After' = y
    <3>. SUFFICES ASSUME Delete PROVE mode' = "edit" /\ Before' = Before /\ After' = y
      OBVIOUS
    <3>1. Refresh([l EXCEPT !.buf = Before \o y], screen)
      BY <2>2
    <3>2. Len(Before) + Len(y) <= user.maxLine - 1
      <4>. HIDE DEF y, p
      <4> QED
        BY <1>0, <2>3, <2>5, SMTT(40)
    <3>. HIDE DEF y, p
    <3> QED
      BY <1>0, <2>5, <3>1, <3>2, LineJoined
  <2>. DEFINE a == Decoded(m)
              b == Decoded(y)
              r == Decoded(Before)
  <2>8. a \in Seq(Int) /\ b \in Seq(Int) /\ Decoded(Before \o m) = r \o a
        /\ Decoded(After) = a \o b
    <3>1. Whole(y)
      BY <2>5, TextFacts
    <3>. HIDE DEF y, m
    <3>2. Decoded(m \o y) = a \o b
      BY <2>4, <3>1, DecodedJoin
    <3> QED
      BY <1>0, <2>4, <3>1, <3>2, DecodedIs, DecodedJoin
  <2>9. a # <<>> /\ \A i \in 2 .. Len(a) : IsCombining(a[i])
    <3>. HIDE DEF p
    <3> QED
      BY <1>0, <2>1, <2>3, MiddleChars
  <2>10. b # <<>> => ~IsCombining(b[1])
    <3>. HIDE DEF p
    <3>1. /\ p = Len(l.buf) <=> b = <<>>
          /\ p < Len(l.buf) => b[1] = Cp(l.buf, p)
      BY <1>0, <2>1, FirstBehind
    <3> QED
      BY <1>0, <2>1, <2>3, <3>1 DEF Mark
  <2>. HIDE DEF y, m, p
  <2>11. /\ MoveRight => <<Decoded(Before'), Decoded(After')>> = <<r \o a, b>>
         /\ Delete => <<Decoded(Before'), Decoded(After')>> = <<r, b>>
    BY <2>6, <2>7, <2>8
  <2>. HIDE DEF a, b
  <2>12. /\ <<r \o a, b>> \in Abstract!Moved(r, a \o b)
         /\ <<r, b>> \in Abstract!Removed(r, a \o b)
    BY <2>8, <2>9, <2>10, StepRight
  <2>13. Becomes(Abstract!Moved(r, a \o b) \cup Abstract!Removed(r, a \o b))
    BY <1>1, <2>6, <2>7, <2>11, <2>12 DEF Becomes
  <2> QED
    BY <1>0, <2>8, <2>13, AnEdit
<1> QED
  BY <1>2, <1>3

\* Home, End, Ctrl-u, Ctrl-k, Ctrl-l.
LEMMA EndsAre ==
    ASSUME Fits(user), OnLine, MoveHome \/ MoveEnd \/ DeleteLine \/ DeleteRest \/ ClearScreen
    PROVE  Abstract!Next \/ UNCHANGED Abstract!vars
<1>. DEFINE a == Decoded(Before)
            b == Decoded(After)
<1>0. /\ mode = "edit" /\ Whole(l.buf) /\ Between(l.buf, l.pos) /\ l.buf \in Texts(user)
      /\ Len(l.buf) \in Nat /\ l.buf \in Seq(Byte)
      /\ Before \in Texts(user) /\ Len(Before) = l.pos
      /\ Decoded(l.buf) = a \o b /\ Decoded(<<>>) = <<>> /\ <<>> \in Texts(user)
      /\ Before \in Seq(Byte)
  BY OnLineChars, DecodedEmpty, EmptyText, TextFacts
<1>1. history' = history /\ line' = line
  BY DEF MoveHome, MoveEnd, DeleteLine, DeleteRest, ClearScreen, Edits
<1>2. ASSUME mode' = mode, l'.buf = l.buf, l'.pos = l.pos
      PROVE  UNCHANGED Abstract!vars
  <2>1. Before' = Before /\ After' = After
    BY <1>2 DEF Before, After
  <2> QED
    BY <1>1, <1>2, <2>1, NoEdit
<1>3. CASE Stays
  BY <1>2, <1>3 DEF Stays
<1>4. ASSUME mode' = "edit", <<Decoded(Before'), Decoded(After')>> \in
                 {<<<<>>, a \o b>>, <<a \o b, <<>>>>, <<<<>>, <<>>>>, <<a, <<>>>>}
      PROVE  Abstract!Next
  <2>. DEFINE pairs == {<<<<>>, a \o b>>, <<a \o b, <<>>>>, <<<<>>, <<>>>>, <<a, <<>>>>}
  <2>1. pairs \subseteq Abstract!Moved(a, b) \cup Abstract!Removed(a, b)
    BY DEF Abstract!Moved, Abstract!Removed
  <2>2. Becomes(pairs)
    BY <1>1, <1>4 DEF Becomes
  <2>. HIDE DEF pairs
  <2> QED
    BY <1>0, <2>1, <2>2, AnEdit
<1>5. CASE ~Stays /\ MoveHome
  <2>1. Refresh([l EXCEPT !.pos = 0], screen)
    BY <1>5 DEF MoveHome
  <2>2. mode' = "edit" /\ Before' = SubSeq(l.buf, 1, 0) /\ After' = SubSeq(l.buf, 0 + 1, Len(l.buf))
    BY <1>0, <2>1, LineBecomes
  <2>3. Before' = <<>> /\ After' = l.buf
    BY <1>0, <2>2
  <2> QED
    BY <1>0, <1>4, <2>2, <2>3
<1>6. CASE ~Stays /\ MoveEnd
  <2>. DEFINE n == Len(l.buf)
  <2>1. Refresh([l EXCEPT !.pos = n], screen)
    BY <1>6 DEF MoveEnd
  <2>2. mode' = "edit" /\ Before' = SubSeq(l.buf, 1, n) /\ After' = SubSeq(l.buf, n + 1, n)
    <3>. HIDE DEF n
    <3>1. /\ mode' = "edit" /\ Before' = SubSeq(l.buf, 1, n)
          /\ After' = SubSeq(l.buf, n + 1, Len(l.buf))
      BY <1>0, <2>1, LineBecomes
    <3> QED
      BY <3>1 DEF n
  <2>3. Before' = l.buf /\ After' = <<>>
    BY <1>0, <2>2
  <2> QED
    BY <1>0, <1>4, <2>2, <2>3
<1>7. CASE DeleteLine
  <2>1. Refresh([l EXCEPT !.buf = <<>>, !.pos = 0], screen)
    BY <1>7 DEF DeleteLine
  <2>2. /\ mode' = "edit" /\ Before' = SubSeq(<<>>, 1, 0)
        /\ After' = SubSeq(<<>>, 0 + 1, Len(<<>>))
    BY <1>0, <2>1, LineBecomes
  <2>3. Before' = <<>> /\ After' = <<>>
    BY <2>2
  <2> QED
    BY <1>0, <1>4, <2>2, <2>3
<1>8. CASE DeleteRest
  <2>1. Refresh([l EXCEPT !.buf = Before], screen)
    BY <1>8 DEF DeleteRest
  <2>2. /\ mode' = "edit" /\ Before' = SubSeq(Before, 1, l.pos)
        /\ After' = SubSeq(Before, l.pos + 1, Len(Before))
    BY <1>0, <2>1, LineBecomes
  <2>3. Before' = Before /\ After' = <<>>
    <3>. DEFINE x == Before
                p == l.pos
    <3>1. x \in Seq(Byte) /\ p = Len(x)
      BY <1>0
    <3>. HIDE DEF x, p
    <3>2. SubSeq(x, 1, p) = x /\ SubSeq(x, p + 1, Len(x)) = <<>>
      BY <3>1
    <3> QED
      BY <2>2, <3>2 DEF x, p
  <2> QED
    BY <1>0, <1>4, <2>2, <2>3
<1>9. CASE ClearScreen
  <2>1. Refresh(l, Cleared(l.cols)) /\ Shape(l)
    BY <1>9 DEF ClearScreen, OnLine
  <2>2. mode' = "edit" /\ l'.buf = l.buf /\ l'.pos = l.pos
    BY <1>0, <2>1, RefreshKeeps
  <2> QED
    BY <1>0, <1>2, <2>2
<1> QED
  BY <1>3, <1>5, <1>6, <1>7, <1>8, <1>9

\* linenoiseEditInsert.
LEMMA InsertIs ==
    ASSUME Fits(user), user \in Users, OnLine, NEW c \in user.typed, Insert(c)
    PROVE  Abstract!Next \/ UNCHANGED Abstract!vars
<1>0. /\ mode = "edit" /\ Before \in Texts(user) /\ After \in Texts(user)
      /\ Decoded(Before) \in Seq(Int) /\ Whole(Before)
  BY OnLineChars
<1>1. history' = history /\ line' = line
  BY DEF Insert, Edits
<1>2. CASE Len(l.buf) < Room
  <2>. DEFINE x == Before \o c
              a == Decoded(Before)
              b == Decoded(After)
              k == Cp(c, 0)
  <2>1. /\ x \in Texts(user) /\ Len(x) + Len(After) <= user.maxLine - 1
        /\ Refresh([l EXCEPT !.buf = x \o After, !.pos = Len(x)], screen)
    <3>1. /\ x \in Texts(user) /\ Len(x) = l.pos + Len(c)
          /\ Len(x) + Len(After) <= user.maxLine - 1
          /\ Refresh([l EXCEPT !.buf = x \o After, !.pos = l.pos + Len(c)], screen)
      BY <1>2, InsertFits
    <3> QED
      BY <3>1
  <2>2. Decoded(c) = <<k>> /\ Whole(c) /\ k \in Int
    BY CharIs DEF Fits
  <2>3. Decoded(x) = Append(a, k)
    <3>1. Decoded(x) = a \o <<k>>
      BY <1>0, <2>2, DecodedJoin
    <3>. HIDE DEF a, k
    <3>2. a \in Seq(Int) /\ k \in Int
      BY <1>0, <2>2 DEF a, k
    <3> QED
      BY <3>1, <3>2
  <2>4. k \in Alphabet
    <3>1. Decoded(c)[1] = k
      BY <2>2
    <3>2. k \in {Decoded(e)[1] : e \in user.typed}
      BY <3>1
    <3>. HIDE DEF k
    <3> QED
      BY <3>2 DEF Alphabet
  <2>. HIDE DEF x
  <2>5. mode' = "edit" /\ Before' = x /\ After' = After
    BY <1>0, <2>1, LineJoined
  <2>6. <<Decoded(Before'), Decoded(After')>> = <<Append(a, k), b>>
    BY <2>3, <2>5
  <2>. HIDE DEF a, b, k
  <2>7. <<Append(a, k), b>> \in Abstract!Inserted(a, b)
    BY <2>4 DEF Abstract!Inserted
  <2>8. Becomes(Abstract!Inserted(a, b))
    BY <1>1, <2>5, <2>6, <2>7 DEF Becomes
  <2> QED
    BY <1>0, <2>8, AnEdit DEF a, b
<1>3. CASE ~(Len(l.buf) < Room)
  <2>1. mode' = mode /\ l' = l
    BY <1>3 DEF Insert, Stays
  <2>2. Before' = Before /\ After' = After
    BY <2>1 DEF Before, After
  <2> QED
    BY <1>1, <2>1, <2>2, NoEdit
<1> QED
  BY <1>2, <1>3

\* A part of a line the user can have is another one.
LEMMA MiddleText ==
    ASSUME NEW u, Fits(u), NEW t \in Texts(u), NEW q, Between(t, q), NEW p, Between(t, p), p <= q
    PROVE  SubSeq(t, p + 1, q) \in Texts(u)
<1>. DEFINE w == SubSeq(t, 1, q)
<1>1. /\ t \in Seq(Byte) /\ q \in 0 .. Len(t) /\ p \in 0 .. q
      /\ Len(t) \in Nat /\ p \in Nat /\ q \in Nat /\ Whole(t)
  BY TextFacts, BetweenFacts
<1>2. w \in Texts(u) /\ Len(w) = q
  BY TextCut
<1>3. SubSeq(t, p + 1, q) = SubSeq(w, p + 1, Len(w))
  BY <1>1, <1>2, MiddleIs
<1>4. Between(w, p)
  <2>1. p \in 0 .. Len(w)
    BY <1>1, <1>2
  <2>2. ASSUME p < Len(w) PROVE w[p + 1] \notin Follows
    <3>1. p + 1 \in 1 .. q /\ p < Len(t)
      BY <1>1, <1>2, <2>2
    <3>2. w[p + 1] = t[p + 1]
      BY <1>1, <3>1, CutFacts
    <3> QED
      BY <3>1, <3>2 DEF Between
  <2>. HIDE DEF w
  <2> QED
    BY <2>1, <2>2 DEF Between
<1>. HIDE DEF w
<1>5. SubSeq(w, p + 1, Len(w)) \in Texts(u)
  BY <1>2, <1>4, TextCut
<1> QED
  BY <1>3, <1>5

\* A text that ends with a blank.
LEMMA BlankLast ==
    ASSUME NEW t, Whole(t), Len(t) # 0, t[Len(t)] = 32
    PROVE  LET d == Decoded(t) IN d # <<>> /\ d[Len(d)] = 32 /\ d \in Seq(Int)
<1>. DEFINE n == Len(t)
            x == SubSeq(t, 1, n - 1)
            e == SubSeq(t, n, n)
<1>1. t \in Seq(Byte) /\ n \in Nat \ {0} /\ n \in 1 .. n /\ t[n] < 128
  BY WholeFacts
<1>2. Between(t, n) /\ Between(t, n - 1)
  BY <1>1, AfterSingle
<1>3. e = <<32>>
  <2>1. e \in Seq(Byte) /\ Len(e) = 1 /\ e[1] = t[n]
    BY <1>1
  <2>. HIDE DEF e
  <2>2. e = <<e[1]>>
    BY <2>1
  <2> QED
    BY <2>1, <2>2
<1>4. Whole(x) /\ x \o SubSeq(t, (n - 1) + 1, n) = t /\ Whole(SubSeq(t, (n - 1) + 1, n))
  BY <1>2, CutWhole
<1>5. x \o e = t /\ Whole(e)
  <2>1. (n - 1) + 1 = n
    BY <1>1
  <2> QED
    BY <1>4, <2>1
<1>6. Decoded(e) = e
  <2>1. Ascii(e)
    BY <1>3 DEF Ascii
  <2>. HIDE DEF e
  <2> QED
    BY <1>5, <2>1, SinglesDecoded
<1>. HIDE DEF x, e, n
<1>7. Decoded(t) = Decoded(x) \o <<32>> /\ Decoded(x) \in Seq(Int)
  BY <1>3, <1>4, <1>5, <1>6, DecodedJoin, DecodedIs, ZenonT(60)
<1>. DEFINE d == Decoded(t)
            a == Decoded(x)
<1>8. d = a \o <<32>> /\ a \in Seq(Int)
  BY <1>7
<1>. HIDE DEF d, a
<1>9. d # <<>> /\ d[Len(d)] = 32 /\ d \in Seq(Int)
  BY <1>8
<1> QED
  BY <1>9 DEF d

\* linenoiseEditDeletePrevWord.
LEMMA WordIs ==
    ASSUME Fits(user), Proper(user), OnLine, DeletePrevWord
    PROVE  Abstract!Next \/ UNCHANGED Abstract!vars
<1>0. /\ mode = "edit" /\ Whole(l.buf) /\ Between(l.buf, l.pos) /\ l.buf \in Texts(user)
      /\ Len(l.buf) \in Nat /\ l.pos \in Nat /\ l.pos <= Len(l.buf) /\ l.buf \in Seq(Byte)
      /\ Before \in Texts(user) /\ Len(Before) = l.pos
      /\ After \in Texts(user) /\ Len(After) = Len(l.buf) - l.pos
      /\ Len(l.buf) <= user.maxLine - 1 /\ user.maxLine \in Nat
  BY OnLineChars, TextFacts DEF Fits
<1>1. history' = history /\ line' = line
  BY DEF DeletePrevWord, Edits
<1>2. PICK word, start :
          /\ word \in 0 .. l.pos /\ start \in 0 .. word
          /\ \A i \in word + 1 .. l.pos : l.buf[i] = 32
          /\ \A i \in start + 1 .. word : l.buf[i] # 32
          /\ word # 0 => l.buf[word] # 32
          /\ start # 0 => l.buf[start] = 32
          /\ Refresh([l EXCEPT !.buf = SubSeq(l.buf, 1, start) \o After, !.pos = start], screen)
  BY WordFacts
<1>3. /\ start \in 0 .. l.pos /\ start <= l.pos /\ word <= l.pos /\ start <= word
      /\ start \in Nat /\ word \in Nat
  BY <1>0, <1>2
<1>4. Between(l.buf, start) /\ Between(l.buf, word)
  <2>1. Between(l.buf, start)
    BY <1>0, <1>2, <1>3, WordBetween
  <2>2. word = l.pos \/ l.buf[word + 1] = 32
    <3>1. word # l.pos => word + 1 \in word + 1 .. l.pos
      BY <1>0, <1>3
    <3> QED
      BY <1>2, <3>1
  <2>3. Between(l.buf, word)
    BY <1>0, <1>2, <2>2, WordBetween
  <2> QED
    BY <2>1, <2>3
<1>. DEFINE x == SubSeq(l.buf, 1, start)
            w == SubSeq(l.buf, start + 1, word)
            z == SubSeq(l.buf, word + 1, l.pos)
<1>5. x \in Texts(user) /\ Len(x) = start /\ w \in Texts(user) /\ z \in Texts(user)
  <2>1. x \in Texts(user) /\ Len(x) = start
    BY <1>0, <1>4, TextCut
  <2>2. w \in Texts(user)
    BY <1>0, <1>3, <1>4, MiddleText
  <2>3. z \in Texts(user)
    BY <1>0, <1>3, <1>4, MiddleText
  <2> QED
    BY <2>1, <2>2, <2>3
<1>6. /\ Len(w) = word - start /\ \A i \in 1 .. Len(w) : w[i] = l.buf[start + i]
      /\ Len(z) = l.pos - word /\ \A i \in 1 .. Len(z) : z[i] = l.buf[word + i]
      /\ \A i \in 1 .. start : x[i] = l.buf[i]
  <2>1. Len(w) = word - start /\ \A i \in 1 .. Len(w) : w[i] = l.buf[start + i]
    BY <1>0, <1>3
  <2>2. Len(z) = l.pos - word /\ \A i \in 1 .. Len(z) : z[i] = l.buf[word + i]
    BY <1>0, <1>3, SMTT(40)
  <2>3. \A i \in 1 .. start : x[i] = l.buf[i]
    BY <1>0, <1>3
  <2> QED
    BY <2>1, <2>2, <2>3
<1>7. Before = x \o (w \o z)
  <2>1. x \o SubSeq(l.buf, start + 1, l.pos) = SubSeq(l.buf, 1, l.pos)
    <3>0. Whole(l.buf) /\ Between(l.buf, l.pos) /\ Between(l.buf, start) /\ start <= l.pos
      BY <1>0, <1>3, <1>4
    <3> QED
      BY ONLY <3>0, ThreeParts
  <2>. DEFINE v == SubSeq(l.buf, start + 1, l.pos)
  <2>2. w \o z = v
    <3>. DEFINE y == w \o z
    <3>1. w \in Seq(Byte) /\ z \in Seq(Byte)
      BY <1>5, TextFacts
    <3>2. /\ v \in Seq(Byte) /\ Len(v) = l.pos - start
          /\ \A i \in 1 .. l.pos - start : v[i] = l.buf[start + i]
      BY <1>0, <1>3, SMTT(40)
    <3>. HIDE DEF w, z, v
    <3>3. y \in Seq(Byte) /\ Len(y) = Len(w) + Len(z)
          /\ (\A i \in 1 .. Len(w) : y[i] = w[i])
          /\ \A i \in 1 .. Len(z) : y[Len(w) + i] = z[i]
      BY <3>1, JoinFacts
    <3>. HIDE DEF y
    <3>4. Len(y) = Len(v)
      BY <1>0, <1>3, <1>6, <3>2, <3>3, SMTT(40)
    <3>5. \A i \in 1 .. Len(y) : y[i] = v[i]
      <4>. SUFFICES ASSUME NEW i \in 1 .. Len(y) PROVE y[i] = v[i]
        OBVIOUS
      <4>1. v[i] = l.buf[start + i]
        BY <3>2, <3>4
      <4>2. CASE i <= Len(w)
        <5>1. i \in 1 .. Len(w)
          BY <1>3, <1>6, <3>3, <4>2
        <5> QED
          BY <1>6, <3>3, <4>1, <5>1
      <4>3. CASE ~(i <= Len(w))
        <5>. DEFINE j == i - Len(w)
        <5>1. j \in 1 .. Len(z) /\ Len(w) + j = i /\ word + j = start + i
          BY <1>0, <1>3, <1>6, <3>3, <4>3
        <5>. HIDE DEF j
        <5>2. y[Len(w) + j] = z[j] /\ z[j] = l.buf[word + j]
          BY <1>6, <3>3, <5>1
        <5> QED
          BY <4>1, <5>1, <5>2
      <4> QED
        BY <4>2, <4>3
    <3> QED
      BY <3>2, <3>3, <3>4, <3>5, SeqEqual DEF y
  <2> QED
    BY <2>1, <2>2 DEF Before
<1>. DEFINE a == Decoded(x)
            b == Decoded(w)
            r == Decoded(After)
<1>8. /\ Whole(x) /\ Whole(w) /\ Whole(z) /\ Shortest(w)
      /\ w \in Seq(Byte) /\ z \in Seq(Byte) /\ x \in Seq(Byte)
  <2>. HIDE DEF x, w, z
  <2> QED
    BY <1>5, TextFacts
<1>9. \A i \in 1 .. Len(w) : w[i] # 32
  <2>1. \A i \in 1 .. Len(w) : start + i \in start + 1 .. word
    BY <1>3, <1>6
  <2>. HIDE DEF w
  <2> QED
    BY <1>2, <1>6, <2>1
<1>10. \A i \in 1 .. Len(z) : z[i] = 32
  <2>1. \A i \in 1 .. Len(z) : word + i \in word + 1 .. l.pos
    <3>. HIDE DEF z
    <3> QED
      BY <1>0, <1>3, <1>6
  <2>. HIDE DEF z
  <2> QED
    BY <1>2, <1>6, <2>1, SMTT(40)
<1>11. Decoded(z) = z
  <2>. HIDE DEF z
  <2>1. Ascii(z)
    BY <1>10 DEF Ascii
  <2> QED
    BY <1>8, <2>1, SinglesDecoded
<1>12. (\A i \in 1 .. Len(b) : b[i] # 32) /\ b \in Seq(Int)
  <2>. HIDE DEF w
  <2> QED
    BY <1>8, <1>9, NoBlankOf, DecodedIs
<1>13. (a # <<>> => a[Len(a)] = 32) /\ a \in Seq(Int)
  <2>1. CASE start = 0
    <3>1. x = <<>>
      BY <1>5, <1>8, <2>1
    <3>2. a = <<>>
      <4>. HIDE DEF x
      <4> QED
        BY <3>1, DecodedEmpty
    <3>. HIDE DEF a
    <3> QED
      BY <3>2
  <2>2. CASE start # 0
    <3>1. x[start] = 32
      BY <1>2, <1>3, <1>6, <2>2
    <3>. HIDE DEF x
    <3> QED
      BY <1>5, <1>8, <2>2, <3>1, BlankLast
  <2> QED
    BY <2>1, <2>2
<1>14. b = <<>> => a = <<>>
  <2>. SUFFICES ASSUME b = <<>> PROVE a = <<>>
    OBVIOUS
  <2>1. Len(w) = 0
    <3>1. Len(w) <= 4 * Len(b) /\ Len(w) \in Nat /\ Len(b) = 0
      <4>. HIDE DEF w
      <4> QED
        BY <1>8, DecodedIs, WholeFacts
    <3>. HIDE DEF w, b
    <3> QED
      BY <3>1
  <2>2. word = start
    BY <1>3, <1>6, <2>1
  <2>3. start = 0
    BY <1>2, <2>2
  <2>4. x = <<>>
    BY <1>5, <1>8, <2>3
  <2>. HIDE DEF x
  <2> QED
    BY <2>4, DecodedEmpty
<1>15. Decoded(Before) = a \o (b \o z)
  <2>. HIDE DEF x, w, z
  <2>1. Whole(w \o z) /\ Decoded(w \o z) = b \o z
    BY <1>8, <1>11, DecodedJoin, JoinWhole
  <2> QED
    BY <1>7, <1>8, <2>1, DecodedJoin
<1>16. z \in Seq(Int)
  BY <1>8, <1>11, DecodedIs
<1>17. mode' = "edit" /\ Before' = x /\ After' = After
  <2>1. Len(x) + Len(After) <= user.maxLine - 1
    <3>. HIDE DEF x
    <3> QED
      BY <1>0, <1>3, <1>5, SMTT(40)
  <2>2. Refresh([l EXCEPT !.buf = x \o After, !.pos = Len(x)], screen)
    BY <1>2, <1>5
  <2>. HIDE DEF x
  <2> QED
    BY <1>0, <1>5, <2>1, <2>2, LineJoined
<1>. HIDE DEF x, w, z
<1>18. <<Decoded(Before'), Decoded(After')>> = <<a, r>>
  BY <1>17
<1>. HIDE DEF a, b
<1>19. <<a, r>> \in Abstract!Removed(a \o (b \o z), r)
  BY <1>10, <1>12, <1>13, <1>14, <1>16, WordLeft
<1>20. Becomes(Abstract!Removed(a \o (b \o z), r))
  BY <1>1, <1>17, <1>18, <1>19 DEF Becomes
<1> QED
  BY <1>0, <1>15, <1>20, AnEdit

\* The cursor's neighbours change places.
LEMMA SwappedIs ==
    ASSUME NEW t \in Seq(Int), NEW p \in 1 .. Len(t) - 1
    PROVE  LET w == [t EXCEPT ![p] = t[p + 1], ![p + 1] = t[p]]
               q == IF p # Len(t) - 1 THEN p + 1 ELSE p
           IN  <<SubSeq(w, 1, q), SubSeq(w, q + 1, Len(w))>>
                   \in Abstract!Swapped(SubSeq(t, 1, p), SubSeq(t, p + 1, Len(t)))
<1>. DEFINE n == Len(t)
            w == [t EXCEPT ![p] = t[p + 1], ![p + 1] = t[p]]
            q == IF p # n - 1 THEN p + 1 ELSE p
            a == SubSeq(t, 1, p)
            r == SubSeq(t, p + 1, n)
            x == SubSeq(w, 1, q)
            y == SubSeq(w, q + 1, n)
            before == Append(Front(a), Head(r))
            both == Append(before, Last(a))
<1>1. n \in Nat /\ p \in Nat /\ p >= 1 /\ p < n /\ q \in Nat /\ q >= 1 /\ q <= n
  OBVIOUS
<1>2. /\ w \in Seq(Int) /\ Len(w) = n
      /\ w[p] = t[p + 1] /\ w[p + 1] = t[p]
      /\ \A i \in 1 .. n : i # p /\ i # p + 1 => w[i] = t[i]
  <2>1. \A i \in 1 .. n : t[i] \in Int
    OBVIOUS
  <2>2. t = [i \in 1 .. n |-> t[i]]
    OBVIOUS
  <2>. HIDE DEF q, n
  <2>3. w = [i \in 1 .. n |-> IF i = p + 1 THEN t[p] ELSE IF i = p THEN t[p + 1] ELSE t[i]]
    BY <1>1, <2>2
  <2>. HIDE DEF w
  <2>4. w \in Seq(Int) /\ Len(w) = n
    BY <1>1, <2>1, <2>3
  <2>5. p \in 1 .. n /\ p + 1 \in 1 .. n /\ p # p + 1
    BY <1>1
  <2> QED
    BY <2>3, <2>4, <2>5
<1>. HIDE DEF w
<1>14. t \in Seq(Int) /\ p \in 0 .. Len(t)
  BY ONLY p \in 1 .. Len(t) - 1, t \in Seq(Int)
<1>3. /\ a \in Seq(Int) /\ Len(a) = p /\ \A i \in 1 .. p : a[i] = t[i]
  BY ONLY <1>14, CutFacts
<1>4. /\ r \in Seq(Int) /\ Len(r) = n - p /\ \A i \in 1 .. n - p : r[i] = t[p + i]
  BY ONLY <1>14, CutFacts
<1>. HIDE DEF a, r
<1>5. /\ x \in Seq(Int) /\ Len(x) = q /\ (\A i \in 1 .. q : x[i] = w[i])
      /\ y \in Seq(Int) /\ Len(y) = n - q /\ \A i \in 1 .. n - q : y[i] = w[q + i]
  <2>. HIDE DEF q, n
  <2>0. q \in 0 .. Len(w) /\ w \in Seq(Int) /\ Len(w) = n
    BY <1>1, <1>2
  <2> QED
    BY <2>0, CutFacts
<1>6. /\ y \in Seq(Int) /\ Len(y) = n - q /\ \A i \in 1 .. n - q : y[i] = w[q + i]
  BY <1>5
<1>. HIDE DEF x, y
<1>0. q = IF p # n - 1 THEN p + 1 ELSE p
  OBVIOUS
<1>. HIDE DEF q, n, before, both
<1>7. a # <<>> /\ r # <<>>
  BY <1>1, <1>3, <1>4
<1>8. /\ Front(a) \in Seq(Int) /\ Len(Front(a)) = p - 1
      /\ \A i \in 1 .. p - 1 : Front(a)[i] = a[i]
  <2>1. Front(a) = SubSeq(a, 1, p - 1)
    BY ONLY <1>3 DEF Front
  <2>2. p - 1 \in Nat /\ p - 1 <= Len(a)
    BY <1>1, <1>3
  <2> QED
    BY <1>1, <1>3, <2>1, <2>2
<1>9. Head(r) = t[p + 1] /\ Last(a) = t[p] /\ Head(r) \in Int /\ Last(a) \in Int
  <2>1. p \in 1 .. n /\ p + 1 \in 1 .. n /\ 1 \in 1 .. n - p /\ p \in 1 .. p
    BY <1>1
  <2>2. Head(r) = r[1] /\ Last(a) = a[p]
    BY <1>3, <1>4, <1>7 DEF Last
  <2> QED
    BY <1>3, <1>4, <2>1, <2>2
<1>10. /\ before \in Seq(Int) /\ Len(before) = p /\ before[p] = t[p + 1]
       /\ \A i \in 1 .. p - 1 : before[i] = t[i]
  <2>. DEFINE f == Front(a)
              h == Head(r)
  <2>1. f \in Seq(Int) /\ Len(f) = p - 1 /\ h \in Int /\ h = t[p + 1]
        /\ \A i \in 1 .. p - 1 : f[i] = t[i]
    <3>1. \A i \in 1 .. p - 1 : i \in 1 .. p
      BY <1>1
    <3> QED
      BY <1>3, <1>8, <1>9, <3>1
  <2>. HIDE DEF f, h
  <2>2. /\ Append(f, h) \in Seq(Int) /\ Len(Append(f, h)) = (p - 1) + 1
        /\ Append(f, h)[(p - 1) + 1] = h
        /\ \A i \in 1 .. p - 1 : Append(f, h)[i] = f[i]
    BY <2>1
  <2>3. (p - 1) + 1 = p
    BY <1>1
  <2> QED
    BY <2>1, <2>2, <2>3 DEF f, h, before
<1>11. /\ both \in Seq(Int) /\ Len(both) = p + 1 /\ both[p + 1] = t[p]
       /\ \A i \in 1 .. p : both[i] = before[i]
  BY <1>9, <1>10 DEF both
<1>12. CASE p = n - 1
  <2>1. q = p /\ Len(r) = 1
    BY <1>0, <1>1, <1>4, <1>12
  <2>2. x = before
    <3>1. Len(x) = Len(before)
      BY <1>5, <1>10, <2>1
    <3>2. \A i \in 1 .. Len(x) : x[i] = before[i]
      <4>. SUFFICES ASSUME NEW i \in 1 .. p PROVE w[i] = before[i]
        BY <1>5, <2>1
      <4>1. i = p \/ i \in 1 .. p - 1
        BY <1>1
      <4>2. i \in 1 .. n /\ i # p + 1
        BY <1>1
      <4> QED
        BY <1>2, <1>10, <4>1, <4>2
    <3> QED
      BY <1>5, <1>10, <3>1, <3>2, SeqEqual
  <2>3. y = <<t[p]>>
    <3>1. Len(y) = 1 /\ 1 \in 1 .. n - q /\ q + 1 = p + 1
      BY <1>1, <1>6, <1>12, <2>1
    <3>2. y[1] = t[p]
      BY <1>2, <1>6, <3>1
    <3>3. y \in Seq(Int) /\ Len(y) = 1
      BY <1>6, <3>1
    <3>4. y = <<y[1]>>
      BY ONLY <3>3
    <3> QED
      BY <3>2, <3>4
  <2>4. Abstract!Swapped(a, r) = {<<before, <<Last(a)>>>>}
    BY <1>7, <2>1 DEF Abstract!Swapped, before, Front, Last, Abstract!Front, Abstract!Last
  <2> QED
    BY <1>2, <1>9, <2>2, <2>3, <2>4 DEF x, y, w, q, n, a, r
<1>13. CASE p # n - 1
  <2>1. q = p + 1 /\ Len(r) # 1
    BY <1>0, <1>1, <1>4, <1>13
  <2>2. x = both
    <3>1. Len(x) = Len(both)
      BY <1>5, <1>11, <2>1
    <3>2. \A i \in 1 .. Len(x) : x[i] = both[i]
      <4>. SUFFICES ASSUME NEW i \in 1 .. p + 1 PROVE w[i] = both[i]
        BY <1>5, <2>1
      <4>1. i = p + 1 \/ (i = p /\ i \in 1 .. p) \/ (i \in 1 .. p - 1 /\ i \in 1 .. p /\ i # p)
        BY <1>1
      <4>2. i \in 1 .. n
        BY <1>1
      <4> QED
        BY <1>2, <1>10, <1>11, <4>1, <4>2
    <3> QED
      BY <1>5, <1>11, <3>1, <3>2, SeqEqual
  <2>3. y = Tail(r)
    <3>1. Tail(r) \in Seq(Int) /\ Len(Tail(r)) = (n - p) - 1
          /\ \A i \in 1 .. (n - p) - 1 : Tail(r)[i] = r[i + 1]
      BY <1>1, <1>4, <1>7
    <3>2. Len(y) = (n - p) - 1
      BY <1>1, <1>6, <2>1
    <3>3. \A i \in 1 .. Len(y) : y[i] = Tail(r)[i]
      <4>. SUFFICES ASSUME NEW i \in 1 .. (n - p) - 1 PROVE y[i] = r[i + 1]
        BY <3>1, <3>2
      <4>1. /\ i \in 1 .. n - q /\ q + i \in 1 .. n /\ q + i # p /\ q + i # p + 1
            /\ i + 1 \in 1 .. n - p /\ q + i = p + (i + 1)
        BY <1>1, <2>1
      <4>2. y[i] = w[q + i] /\ w[q + i] = t[q + i]
        BY <1>2, <1>6, <4>1
      <4>3. r[i + 1] = t[p + (i + 1)]
        BY <1>4, <4>1
      <4> QED
        BY <4>1, <4>2, <4>3
    <3> QED
      BY <1>6, <3>1, <3>2, <3>3, SeqEqual
  <2>4. Abstract!Swapped(a, r) = {<<both, Tail(r)>>}
    BY <1>7, <2>1 DEF Abstract!Swapped, before, both, Front, Last, Abstract!Front, Abstract!Last
  <2> QED
    BY <1>2, <2>2, <2>3, <2>4 DEF x, y, w, q, n, a, r
<1> QED
  BY <1>12, <1>13

\* Ctrl-t, where bytes are characters.
LEMMA SwapIs ==
    ASSUME Fits(user), OnLine, SwapChars
    PROVE  Abstract!Next \/ UNCHANGED Abstract!vars
<1>. DEFINE t == l.buf
            p == l.pos
            w == [t EXCEPT ![p] = t[p + 1], ![p + 1] = t[p]]
            q == IF p # Len(t) - 1 THEN p + 1 ELSE p
<1>0. /\ mode = "edit" /\ t \in Texts(user) /\ Len(t) \in Nat /\ p \in Nat /\ p <= Len(t)
      /\ Before \in Texts(user) /\ After \in Texts(user) /\ t \in Seq(Byte)
      /\ Singles(user)
  <2>1. "SwapChars" \in user.keys
    BY DEF SwapChars, Pressed
  <2> QED
    BY <2>1, OnLineChars, TextFacts DEF Fits
<1>1. history' = history /\ line' = line
  BY DEF SwapChars, Edits
<1>2. CASE p > 0 /\ p < Len(t)
  <2>1. p \in 1 .. Len(t) - 1
    BY <1>0, <1>2
  <2>2. Refresh([l EXCEPT !.buf = w, !.pos = q], screen)
    BY <1>2 DEF SwapChars
  <2>3. w \in Texts(user) /\ Len(w) = Len(t)
    BY <1>0, <2>1, TextSwapped
  <2>4. q \in 0 .. Len(t)
    BY <1>0, <2>1
  <2>5. t \in Seq(Int)
    <3>1. Whole(t)
      BY <1>0, TextFacts
    <3> QED
      BY <1>0, <3>1, SinglesDecoded, DecodedIs, TextFacts
  <2>6. <<SubSeq(w, 1, q), SubSeq(w, q + 1, Len(w))>> \in Abstract!Swapped(Before, After)
    BY <2>1, <2>5, SwappedIs DEF Before, After
  <2>. HIDE DEF w, q
  <2>7. mode' = "edit" /\ Before' = SubSeq(w, 1, q) /\ After' = SubSeq(w, q + 1, Len(w))
    BY <2>2, <2>3, LineBecomes
  <2>8. \A s \in Texts(user) : Decoded(s) = s
    BY <1>0, TextFacts, SinglesDecoded
  <2>9. SubSeq(w, 1, q) \in Texts(user) /\ SubSeq(w, q + 1, Len(w)) \in Texts(user)
    <3>1. Whole(w) /\ Ascii(w) /\ q \in 0 .. Len(w)
      BY <1>0, <2>3, <2>4, TextFacts
    <3>2. Between(w, q)
      BY <3>1, SinglesBetween
    <3> QED
      BY <2>3, <3>2, TextCut
  <2>10. /\ Decoded(Before') = SubSeq(w, 1, q) /\ Decoded(After') = SubSeq(w, q + 1, Len(w))
         /\ Decoded(Before) = Before /\ Decoded(After) = After
    BY <1>0, <2>7, <2>8, <2>9
  <2>11. Becomes(Abstract!Swapped(Before, After))
    BY <1>1, <2>6, <2>7, <2>10 DEF Becomes
  <2> QED
    BY <1>0, <2>10, <2>11, AnEdit
<1>3. CASE ~(p > 0 /\ p < Len(t))
  <2>1. mode' = mode /\ l' = l
    BY <1>3 DEF SwapChars, Stays
  <2>2. Before' = Before /\ After' = After
    BY <2>1 DEF Before, After
  <2> QED
    BY <1>1, <2>1, <2>2, NoEdit
<1> QED
  BY <1>2, <1>3

\* A line without a byte 0 is the C string it is kept as.
LEMMA AllOfC ==
    ASSUME NEW t, t \in Seq(Byte), Shortest(t)
    PROVE  CString(t) = t
<1>1. {i \in DOMAIN t : t[i] = 0} = {}
  BY DEF Shortest
<1> QED
  BY <1>1 DEF CString

\* linenoiseEditHistoryNext.
LEMMA RecallIs ==
    ASSUME Fits(user), Proper(user), OnLine, history \in Seq(Texts(user)),
           l.history_index \in 0 .. Len(history) - 1,
           NEW dir \in {1, -1}, HistoryNext(dir)
    PROVE  Abstract!Next \/ UNCHANGED Abstract!vars
<1>. DEFINE size == Len(history)
            own == size - l.history_index
            h == [history EXCEPT ![own] = CString(l.buf)]
            i == l.history_index + dir
            text == h[size - i]
            memory == [j \in DOMAIN history |-> Decoded(history[j])]
<1>0. /\ mode = "edit" /\ l.buf \in Texts(user) /\ size \in Nat
      /\ l.buf \in Seq(Byte) /\ Shortest(l.buf)
      /\ Decoded(l.buf) = Decoded(Before) \o Decoded(After)
  <2>1. /\ mode = "edit" /\ l.buf \in Texts(user)
        /\ Decoded(l.buf) = Decoded(Before) \o Decoded(After)
    BY OnLineChars
  <2>2. l.buf \in Seq(Byte) /\ Shortest(l.buf)
    BY <2>1, TextFacts
  <2>3. size \in Nat
    OBVIOUS
  <2> QED
    BY <2>1, <2>2, <2>3
<1>1. line' = line
  BY DEF HistoryNext
<1>2. CASE size <= 1
  <2>1. mode' = mode /\ l' = l /\ history' = history
    BY <1>2 DEF HistoryNext, Stays
  <2>2. Before' = Before /\ After' = After
    BY <2>1 DEF Before, After
  <2> QED
    BY <1>1, <2>1, <2>2, NoEdit
<1>3. CASE ~(size <= 1)
  <2>1. own \in 1 .. size /\ DOMAIN history = 1 .. size
    BY <1>0
  <2>2. h = [history EXCEPT ![own] = l.buf]
    BY <1>0, AllOfC
  <2>3. history' = h
    BY <1>3 DEF HistoryNext
  <2>4. /\ h \in Seq(Texts(user)) /\ Len(h) = size
        /\ h[own] = l.buf /\ \A j \in 1 .. size : j # own => h[j] = history[j]
    <3>. HIDE DEF own, h
    <3> QED
      BY <1>0, <2>1, <2>2
  <2>5. [j \in DOMAIN h |-> Decoded(h[j])]
            = [memory EXCEPT ![own] = Decoded(Before) \o Decoded(After)]
    <3>1. DOMAIN h = 1 .. size
      <4>. HIDE DEF h
      <4> QED
        BY <2>4
    <3>. HIDE DEF own, h
    <3>2. memory = [j \in 1 .. size |-> Decoded(history[j])]
      BY <2>1
    <3>3. \A j \in 1 .. size :
              Decoded(h[j]) = IF j = own THEN Decoded(l.buf) ELSE Decoded(history[j])
      BY <2>4
    <3> QED
      BY <1>0, <2>1, <3>1, <3>2, <3>3
  <2>6. mode' = "edit" /\ \/ Before' = Before /\ After' = After
                          \/ /\ i \in 0 .. size - 1
                             /\ Before' = text /\ After' = <<>>
    <3>1. CASE i \in 0 .. size - 1
      <4>1. size - i \in 1 .. size
        BY <1>0, <3>1
      <4>2. text \in Texts(user)
        <5>. HIDE DEF h, i
        <5> QED
          BY <2>4, <4>1
      <4>. DEFINE n == [l EXCEPT !.history_index = i, !.buf = text, !.pos = Len(text)]
      <4>3. Refresh(n, screen)
        BY <1>3, <3>1 DEF HistoryNext
      <4>4. Shape(n) /\ n.buf = text /\ n.pos = Len(text)
        <5>1. Shape(l)
          BY DEF OnLine
        <5>. HIDE DEF text, i
        <5> QED
          BY <5>1 DEF Shape, Fields
      <4>. HIDE DEF n, text, h
      <4>5. mode' = "edit" /\ l'.buf = text /\ l'.pos = Len(text)
        BY <4>2, <4>3, <4>4, RefreshKeeps
      <4>6. text \in Seq(Byte)
        BY <4>2, TextFacts
      <4>7. SubSeq(text, 1, Len(text)) = text /\ SubSeq(text, Len(text) + 1, Len(text)) = <<>>
        BY <4>6
      <4> QED
        BY <3>1, <4>5, <4>7 DEF Before, After
    <3>2. CASE ~(i \in 0 .. size - 1)
      <4>1. mode' = mode /\ l' = l
        BY <1>3, <3>2 DEF HistoryNext, Stays
      <4> QED
        BY <1>0, <4>1 DEF Before, After
    <3> QED
      BY <3>1, <3>2
  <2>7. i \in 0 .. size - 1 => size - i \in DOMAIN history
    BY <1>0, <2>1, SMTT(40)
  <2>8. history' = h /\ DOMAIN h = DOMAIN history
    <3>. HIDE DEF h
    <3> QED
      BY <2>1, <2>3, <2>4
  <2>9. [j \in DOMAIN history' |-> Decoded(history'[j])]
            = [memory EXCEPT ![own] = Decoded(Before) \o Decoded(After)]
    BY <2>5, <2>8
  <2>10. \/ Decoded(Before') = Decoded(Before) /\ Decoded(After') = Decoded(After)
         \/ /\ size - i \in DOMAIN history
            /\ Decoded(Before') = [j \in DOMAIN history' |-> Decoded(history'[j])][size - i]
            /\ Decoded(After') = <<>>
    <3>. HIDE DEF i
    <3>1. CASE Before' = Before /\ After' = After
      BY <3>1
    <3>2. CASE i \in 0 .. size - 1 /\ Before' = text /\ After' = <<>>
      <4>1. size - i \in DOMAIN history'
        BY <2>7, <2>8, <3>2
      <4>2. Decoded(Before') = [j \in DOMAIN history' |-> Decoded(history'[j])][size - i]
        <5>. HIDE DEF h
        <5> QED
          BY <2>8, <3>2, <4>1
      <4> QED
        BY <2>7, <3>2, <4>2, DecodedEmpty
    <3> QED
      BY <2>6, <3>1, <3>2
  <2>11. own \in DOMAIN history
    BY <2>1
  <2>12. DOMAIN memory = DOMAIN history
    OBVIOUS
  <2>. DEFINE k == size - i
  <2>. HIDE DEF own, h, i, k, text
  <2>13. Abstract!Recall
    <3>. HIDE DEF size
    <3>. USE DEF k
    <3> QED
      BY <1>0, <1>1, <2>6, <2>9, <2>10, <2>11, <2>12 DEF Abstract!Recall, Abstract!Edited
  <2> QED
    BY <2>13 DEF Abstract!Next
<1> QED
  BY <1>2, <1>3

\* Every key, and a read that fails.
LEMMA KeysAre ==
    ASSUME Fits(user), Proper(user), LineInv, "Plain" \notin user.keys, Keys \/ InputError
    PROVE  Abstract!Next \/ UNCHANGED Abstract!vars
<1>1. mode = "edit"
  BY KeysAreForEditing DEF InputError, Pressed
<1>2. /\ user \in Users /\ history \in Seq(Texts(user))
      /\ OnLine /\ l.history_index \in 0 .. Len(history) - 1
  BY <1>1 DEF LineInv
<1>3. CASE MoveLeft \/ Backspace
  BY <1>2, <1>3, LeftIs
<1>4. CASE MoveRight \/ Delete
  BY <1>2, <1>4, RightIs
<1>5. CASE MoveHome \/ MoveEnd \/ DeleteLine \/ DeleteRest \/ ClearScreen
  BY <1>2, <1>5, EndsAre
<1>6. CASE DeletePrevWord
  BY <1>2, <1>6, WordIs
<1>7. CASE SwapChars
  BY <1>2, <1>7, SwapIs
<1>8. CASE \E c \in user.typed : Insert(c)
  BY <1>2, <1>8, InsertIs
<1>9. CASE \E dir \in {1, -1} : HistoryNext(dir)
  BY <1>2, <1>9, RecallIs
<1>10. CASE Enter \/ InputError
  <2>1. mode' = "eval" /\ line' = l.buf
    BY <1>10 DEF Enter, InputError
  <2>2. Decoded(line') = Decoded(Before) \o Decoded(After)
    BY <1>2, <2>1, OnLineChars
  <2>3. Abstract!Accept
    BY <1>1, <2>1, <2>2 DEF Abstract!Accept
  <2> QED
    BY <2>3 DEF Abstract!Next
<1>11. CASE CtrlC \/ CtrlD
  <2>1. mode' = "quit" /\ line' = line
    BY <1>11 DEF CtrlC, CtrlD
  <2>2. Abstract!Abandon
    BY <1>1, <2>1 DEF Abstract!Abandon
  <2> QED
    BY <2>2 DEF Abstract!Next
<1> QED
  BY <1>3, <1>4, <1>5, <1>6, <1>7, <1>8, <1>9, <1>10, <1>11 DEF Keys

\* While no line is edited nothing is asked of the editor.
LEMMA BetweenLines ==
    ASSUME mode # "edit", mode' # "edit"
    PROVE  Abstract!Next
<1>1. Abstract!Rest
  BY DEF Abstract!Rest
<1> QED
  BY <1>1 DEF Abstract!Next

\* Every step of the REPL.
LEMMA StepIs ==
    ASSUME \A u \in Users : Fits(u) /\ Proper(u)
    PROVE  LineInv /\ [Next]_vars => [Abstract!Next]_(Abstract!vars)
<1>. SUFFICES ASSUME LineInv, [Next]_vars
              PROVE  Abstract!Next \/ UNCHANGED Abstract!vars
  OBVIOUS
<1>1. user \in Users /\ Fits(user) /\ Proper(user)
  BY DEF LineInv
<1>2. CASE Edit
  <2>1. Keys
    BY <1>2 DEF Edit
  <2>2. "Plain" \notin user.keys
    BY <2>1, KeysAreForEditing DEF LineInv
  <2> QED
    BY <1>1, <2>1, <2>2, KeysAre
<1>3. CASE InputFails
  <2>1. InputError
    BY <1>3 DEF InputFails
  <2>2. "Plain" \notin user.keys
    BY <2>1 DEF LineInv, InputError, Pressed
  <2> QED
    BY <1>1, <2>1, <2>2, KeysAre
<1>4. CASE Start
  BY <1>4, BetweenLines DEF Start
<1>5. CASE ReadLine
  <2>1. CASE Readline
    <3>1. mode = "prompt" /\ mode' = "edit" /\ line' = line
          /\ \E w \in GetColumns : l' = [NoLine EXCEPT !.cols = w]
      BY <2>1 DEF Readline
    <3>2. l'.buf = <<>> /\ l'.pos = 0
      BY <3>1, NoLineShape
    <3>3. Before' = <<>> /\ After' = <<>>
      BY <3>2 DEF Before, After
    <3>4. Decoded(Before') = <<>> /\ Decoded(After') = <<>>
      BY <3>3, DecodedEmpty
    <3>5. Abstract!Open
      BY <3>1, <3>4 DEF Abstract!Open, Abstract!Edited
    <3> QED
      BY <3>5 DEF Abstract!Next
  <2>2. CASE RawModeFails \/ ReadPlain
    BY <2>2, BetweenLines DEF RawModeFails, ReadPlain
  <2> QED
    BY <1>5, <2>1, <2>2 DEF ReadLine
<1>6. CASE Evaluated
  BY <1>6, BetweenLines DEF Evaluated
<1>7. CASE Refused
  BY <1>7, BetweenLines DEF Refused
<1>8. CASE Dies
  BY <1>8, BetweenLines DEF Dies
<1>9. CASE Quit
  BY <1>9, BetweenLines DEF Quit
<1>10. CASE UNCHANGED vars
  <2>1. mode' = mode /\ l' = l /\ history' = history /\ line' = line
    BY <1>10 DEF vars, editorVars
  <2>2. Before' = Before /\ After' = After
    BY <2>1 DEF Before, After
  <2> QED
    BY <2>1, <2>2, NoEdit
<1> QED
  BY <1>2, <1>3, <1>4, <1>5, <1>6, <1>7, <1>8, <1>9, <1>10 DEF Next

\* The first state.
LEMMA InitIs == Init => Abstract!Init
<1>. SUFFICES ASSUME Init PROVE Abstract!Init
  OBVIOUS
<1>1. mode = "down" /\ history = <<>> /\ line = <<>>
  BY DEF Init
<1>2. [i \in DOMAIN history |-> Decoded(history[i])] = <<>>
  BY <1>1
<1> QED
  BY <1>1, <1>2, DecodedEmpty DEF Abstract!Init

\* linenoise.h:2139-2266, 2333-2465: every key of the editor, which moves and copies bytes,
\* does to the characters of the line what EditedLine says, for users whose
\* characters have their shortest encoding and are not the terminator.
THEOREM EditsCharacters ==
    ASSUME \A u \in Users : Fits(u) /\ Proper(u)
    PROVE  Spec => ImplementsEditedLine
<1>1. \A u \in Users : Fits(u)
  OBVIOUS
<1>2. LineInv /\ [Next]_vars => LineInv'
  BY <1>1, LineStep
<1>3. Init => LineInv
  BY <1>1, LineInit
<1>4. LineInv /\ [Next]_vars => [Abstract!Next]_(Abstract!vars)
  BY StepIs
<1> QED
  BY <1>2, <1>3, <1>4, InitIs, PTL DEF Spec, ImplementsEditedLine, Abstract!Spec

-----------------------------------------------------------------------------
(* Lines without a mark at the beginning, or at the cursor.                *)

\* A text that does not begin with a mark, and a position in it at which none
\* stands.
Steady(t) == Len(t) > 0 => ~Mark(t, 0)

Calm(t, p) == Whole(t) /\ Between(t, p) /\ Steady(t) /\ (p < Len(t) => ~Mark(t, p))

\* The parts of it.
LEMMA CalmFacts ==
    ASSUME NEW t, NEW p, Calm(t, p)
    PROVE  /\ Whole(t) /\ Between(t, p) /\ Steady(t) /\ Len(t) \in Nat
           /\ p \in Nat /\ p \in 0 .. Len(t) /\ p <= Len(t)
<1>1. Whole(t) /\ Between(t, p) /\ Steady(t)
  BY DEF Calm
<1>2. p \in Nat /\ p \in 0 .. Len(t) /\ Len(t) \in Nat
  BY <1>1, BetweenFacts
<1> QED
  BY <1>1, <1>2

\* The text before and the text behind it.
LEMMA SteadyPrefix ==
    ASSUME NEW t, Whole(t), Steady(t), NEW p, Between(t, p)
    PROVE  Whole(SubSeq(t, 1, p)) /\ Steady(SubSeq(t, 1, p)) /\ Len(SubSeq(t, 1, p)) = p
<1>. DEFINE x == SubSeq(t, 1, p)
<1>1. Whole(x) /\ Len(x) = p /\ p \in Nat /\ p \in 0 .. Len(t) /\ Len(t) \in Nat
  BY CutWhole, BetweenFacts
<1>2. ASSUME Len(x) > 0 PROVE ~Mark(x, 0)
  <2>1. Between(x, 0)
    BY <1>1, EndsBetween
  <2>2. Cp(x, 0) = Cp(t, 0)
    <3>1. 0 < Len(SubSeq(t, 1, p)) /\ Between(SubSeq(t, 1, p), 0)
      BY <1>1, <1>2, <2>1
    <3> QED
      BY <3>1, BeforeCut
  <2>3. Len(t) > 0
    BY <1>1, <1>2
  <2> QED
    BY <2>2, <2>3 DEF Steady, Mark
<1> QED
  BY <1>1, <1>2 DEF Steady

\* The same where no mark stands.
LEMMA CalmCut ==
    ASSUME NEW t, NEW p, Calm(t, p)
    PROVE  /\ Whole(SubSeq(t, 1, p)) /\ Steady(SubSeq(t, 1, p)) /\ Len(SubSeq(t, 1, p)) = p
           /\ Whole(SubSeq(t, p + 1, Len(t))) /\ Steady(SubSeq(t, p + 1, Len(t)))
           /\ Len(SubSeq(t, p + 1, Len(t))) = Len(t) - p
<1>. DEFINE y == SubSeq(t, p + 1, Len(t))
<1>0. Whole(t) /\ Between(t, p) /\ Steady(t) /\ Len(t) \in Nat /\ p \in Nat
  BY CalmFacts
<1>1. Whole(y) /\ Len(y) = Len(t) - p
  BY <1>0, CutWhole
<1>2. ASSUME Len(y) > 0 PROVE ~Mark(y, 0)
  <2>1. Between(y, 0)
    BY <1>1, EndsBetween
  <2>2. Cp(y, 0) = Cp(t, p + 0)
    <3>1. 0 < Len(SubSeq(t, p + 1, Len(t))) /\ Between(SubSeq(t, p + 1, Len(t)), 0)
      BY <1>1, <1>2, <2>1
    <3> QED
      BY <1>0, <3>1, BehindCut
  <2>3. p < Len(t) /\ p + 0 = p
    BY <1>0, <1>1, <1>2
  <2>4. ~Mark(t, p)
    BY <2>3 DEF Calm
  <2> QED
    BY <2>2, <2>3, <2>4 DEF Mark
<1> QED
  BY <1>0, <1>1, <1>2, SteadyPrefix DEF Steady

\* Two texts one after the other.
LEMMA SteadyJoin ==
    ASSUME NEW x, NEW y, Whole(x), Whole(y), Steady(x), Len(x) = 0 => Steady(y)
    PROVE  Whole(x \o y) /\ Steady(x \o y)
<1>1. Whole(x \o y) /\ Len(x \o y) = Len(x) + Len(y) /\ Len(x) \in Nat /\ Len(y) \in Nat
  BY JoinWhole, WholeFacts
<1>2. CASE Len(x) > 0
  <2>1. Cp(x \o y, 0) = Cp(x, 0)
    BY <1>2, FirstOfJoin
  <2> QED
    BY <1>1, <1>2, <2>1 DEF Steady, Mark
<1>3. CASE Len(x) = 0
  <2>1. x \in Seq(Byte) /\ y \in Seq(Byte)
    BY WholeFacts
  <2>2. x \o y = y
    BY <1>3, <2>1
  <2> QED
    BY <1>1, <1>3, <2>2
<1> QED
  BY <1>1, <1>2, <1>3

\* The cursor between two such texts.
LEMMA CalmJoin ==
    ASSUME NEW x, NEW y, Whole(x), Whole(y), Steady(x), Steady(y)
    PROVE  Calm(x \o y, Len(x))
<1>. DEFINE t == x \o y
            p == Len(x)
<1>1. Whole(t) /\ Steady(t) /\ Between(t, p) /\ Len(t) = p + Len(y) /\ p \in Nat /\ Len(y) \in Nat
  BY SteadyJoin, JoinWhole, WholeFacts
<1>2. SubSeq(t, p + 1, Len(t)) = y
  <2>1. x \in Seq(Byte) /\ y \in Seq(Byte)
    BY WholeFacts
  <2> QED
    BY <2>1, Parts DEF Abstract!From
<1>3. ASSUME p < Len(t) PROVE ~Mark(t, p)
  <2>1. Between(y, 0) /\ Len(y) > 0
    BY <1>1, <1>3, EndsBetween
  <2>2. Cp(y, 0) = Cp(t, p + 0)
    <3>1. 0 < Len(SubSeq(t, p + 1, Len(t))) /\ Between(SubSeq(t, p + 1, Len(t)), 0)
      BY <1>1, <1>2, <2>1
    <3>. HIDE DEF t, p
    <3>2. Cp(SubSeq(t, p + 1, Len(t)), 0) = Cp(t, p + 0)
      BY <1>1, <3>1, BehindCut
    <3> QED
      BY <1>2, <3>2
  <2>3. p + 0 = p
    BY <1>1
  <2> QED
    BY <2>1, <2>2, <2>3 DEF Steady, Mark
<1> QED
  BY <1>1, <1>3 DEF Calm

\* The cursor at the ends of one.
LEMMA CalmEnds ==
    ASSUME NEW t, Whole(t), Steady(t)
    PROVE  Calm(t, 0) /\ Calm(t, Len(t))
<1>1. Between(t, 0) /\ Between(t, Len(t)) /\ Len(t) \in Nat
  BY EndsBetween, WholeFacts
<1> QED
  BY <1>1 DEF Calm, Steady

\* A character with its marks to the left, and to the right.
LEMMA CalmLeft ==
    ASSUME NEW t, NEW p, Calm(t, p)
    PROVE  Calm(t, p - PrevGraphemeLen(t, p))
<1>. DEFINE g == PrevGraphemeLen(t, p)
<1>1. Whole(t) /\ Between(t, p) /\ Steady(t) /\ p \in Nat
  BY CalmFacts
<1>2. g \in Nat /\ Between(t, p - g) /\ (g # 0 => ~Mark(t, p - g))
  BY <1>1, PrevGrapheme
<1>. HIDE DEF g
<1>3. CASE g = 0
  <2>1. p - g = p
    BY <1>1, <1>3
  <2>2. Calm(t, p - g)
    BY <2>1
  <2> QED
    BY <2>2 DEF g
<1>4. CASE g # 0
  <2>1. Calm(t, p - g)
    BY <1>1, <1>2, <1>4 DEF Calm
  <2> QED
    BY <2>1 DEF g
<1> QED
  BY <1>3, <1>4

\* The same to the right.
LEMMA CalmRight ==
    ASSUME NEW t, NEW p, Calm(t, p)
    PROVE  Calm(t, p + GraphemeLen(t, p))
<1>. DEFINE g == GraphemeLen(t, p)
<1>1. Whole(t) /\ Between(t, p) /\ Steady(t) /\ p \in Nat /\ p <= Len(t) /\ Len(t) \in Nat
  BY CalmFacts
<1>2. g \in Nat /\ Between(t, p + g) /\ p + g <= Len(t)
      /\ (p = Len(t) => g = 0)
      /\ (p < Len(t) => (p + g < Len(t) => ~Mark(t, p + g)))
  BY <1>1, NextGrapheme
<1>. HIDE DEF g
<1>3. ASSUME p + g < Len(t) PROVE ~Mark(t, p + g)
  <2>1. p < Len(t)
    BY <1>1, <1>2, <1>3
  <2> QED
    BY <1>2, <1>3, <2>1
<1>4. Calm(t, p + g)
  BY <1>1, <1>2, <1>3 DEF Calm
<1> QED
  BY <1>4 DEF g

\* A byte is no mark.
LEMMA SmallIs ==
    /\ \A cp \in 0 .. 127 : ~IsCombining(cp)
    /\ Width(0) = 1
<1>1. \A cp \in 0 .. 127 : ~IsCombining(cp)
  <2>. SUFFICES ASSUME NEW cp \in 0 .. 127, IsCombining(cp) PROVE FALSE
    OBVIOUS
  <2>. DEFINE A == 768 .. 879
              B == 7616 .. 7669
              C == 8400 .. 8412
              D == 65024 .. 65039
              E == 65056 .. 65071
              F == 917760 .. 917999
              S == {A, B, C, D, E, F}
  <2>1. cp \in UNION S
    BY DEF IsCombining, CombiningTable
  <2>2. cp \in Int /\ cp < 128
    OBVIOUS
  <2>3. cp \notin A /\ cp \notin B /\ cp \notin C /\ cp \notin D /\ cp \notin E /\ cp \notin F
    BY <2>2
  <2>. HIDE DEF A, B, C, D, E, F
  <2>4. PICK T \in S : cp \in T
    <3>. HIDE DEF S
    <3> QED
      BY <2>1
  <2>5. T = A \/ T = B \/ T = C \/ T = D \/ T = E \/ T = F
    BY <2>4
  <2> QED
    BY <2>3, <2>4, <2>5
<1>2. ~IsWide(0)
  BY DEF IsWide, WideTable
<1> QED
  BY <1>1, <1>2 DEF Width

\* Where bytes are characters there are no marks.
LEMMA SinglesCalm ==
    ASSUME NEW t, Whole(t), Ascii(t), NEW p, Between(t, p)
    PROVE  Calm(t, p)
<1>1. ASSUME NEW q, Between(t, q), q < Len(t) PROVE ~Mark(t, q)
  <2>1. q + 1 \in 1 .. Len(t) /\ ByteAt(t, q) = t[q + 1] /\ Cp(t, q) = CodeOf(t, q) /\ q \in Nat
    BY <1>1, FirstIs
  <2>2. t[q + 1] \in 0 .. 127
    <3>1. t[q + 1] \in Byte
      BY <2>1, WholeFacts
    <3>2. t[q + 1] < 128
      BY <2>1 DEF Ascii
    <3> QED
      BY <3>1, <3>2 DEF Byte
  <2>3. Cp(t, q) = t[q + 1]
    <3>1. Size(t[q + 1]) = 1
      BY <2>2 DEF Size
    <3> QED
      BY <2>1, <3>1 DEF CodeOf, Code
  <2> QED
    BY <2>2, <2>3, SmallIs DEF Mark
<1>2. Between(t, 0)
  BY EndsBetween
<1> QED
  BY <1>1, <1>2 DEF Calm, Steady

\* What is typed.
LEMMA CharSteady ==
    ASSUME NEW c, Whole(c), Len(c) > 0, ~IsCombining(Decoded(c)[1])
    PROVE  Steady(c)
<1>1. Whole(Rest(c)) /\ Decoded(c) = <<Cp(c, 0)>> \o Decoded(Rest(c))
  BY DecodedFirst
<1>2. Decoded(Rest(c)) \in Seq(Int)
  BY <1>1, DecodedIs
<1>3. Decoded(c)[1] = Cp(c, 0)
  <2>. DEFINE d == Decoded(Rest(c))
              k == Cp(c, 0)
  <2>1. d \in Seq(Int) /\ Decoded(c) = <<k>> \o d
    BY <1>1, <1>2
  <2>. HIDE DEF d, k
  <2>2. (<<k>> \o d)[1] = k
    BY <2>1
  <2> QED
    BY <2>1, <2>2 DEF k
<1> QED
  BY <1>3 DEF Steady, Mark

-----------------------------------------------------------------------------
(* The keys write the line anew.                                           *)

\* A state of the editor whose line is written anew.
Version(n) ==
    /\ Shape(n) /\ Calm(n.buf, n.pos)
    /\ n.cols = l.cols /\ n.maxrows = l.maxrows /\ n.oldcolpos = l.oldcolpos

Rewritten == \E n : Version(n) /\ Refresh(n, screen)

OnCalm == OnLine /\ Calm(l.buf, l.pos)

\* The state with another text and position.
LEMMA OtherText ==
    ASSUME NEW n, Shape(n), NEW b, NEW p, NEW m, m = [n EXCEPT !.buf = b, !.pos = p]
    PROVE  /\ Shape(m) /\ m.buf = b /\ m.pos = p /\ m.history_index = n.history_index
           /\ m.cols = n.cols /\ m.maxrows = n.maxrows /\ m.oldcolpos = n.oldcolpos
BY DEF Shape, Fields

\* The same with another entry of the history.
LEMMA OtherEntry ==
    ASSUME NEW n, Shape(n), NEW b, NEW p, NEW i,
           NEW m, m = [n EXCEPT !.history_index = i, !.buf = b, !.pos = p]
    PROVE  /\ Shape(m) /\ m.buf = b /\ m.pos = p
           /\ m.cols = n.cols /\ m.maxrows = n.maxrows /\ m.oldcolpos = n.oldcolpos
BY DEF Shape, Fields

\* Another position alone.
LEMMA OtherPos ==
    ASSUME NEW n, Shape(n), NEW p, NEW m, m = [n EXCEPT !.pos = p]
    PROVE  /\ Shape(m) /\ m.buf = n.buf /\ m.pos = p
           /\ m.cols = n.cols /\ m.maxrows = n.maxrows /\ m.oldcolpos = n.oldcolpos
BY DEF Shape, Fields

\* Another text alone.
LEMMA OtherBuf ==
    ASSUME NEW n, Shape(n), NEW b, NEW m, m = [n EXCEPT !.buf = b]
    PROVE  /\ Shape(m) /\ m.buf = b /\ m.pos = n.pos
           /\ m.cols = n.cols /\ m.maxrows = n.maxrows /\ m.oldcolpos = n.oldcolpos
BY DEF Shape, Fields

\* A key that leads to another text and position writes the line anew.
LEMMA RewrittenAs ==
    ASSUME OnLine, NEW b, NEW p, Calm(b, p),
           \/ Refresh([l EXCEPT !.buf = b, !.pos = p], screen)
           \/ p = l.pos /\ Refresh([l EXCEPT !.buf = b], screen)
           \/ b = l.buf /\ Refresh([l EXCEPT !.pos = p], screen)
    PROVE  Rewritten
<1>1. Shape(l)
  BY DEF OnLine
<1>2. CASE Refresh([l EXCEPT !.buf = b, !.pos = p], screen)
  <2>. DEFINE n == [l EXCEPT !.buf = b, !.pos = p]
  <2>1. Shape(n) /\ n.buf = b /\ n.pos = p
        /\ n.cols = l.cols /\ n.maxrows = l.maxrows /\ n.oldcolpos = l.oldcolpos
    BY <1>1 DEF Shape, Fields
  <2>2. Refresh(n, screen)
    BY <1>2
  <2>. HIDE DEF n
  <2> QED
    BY <2>1, <2>2 DEF Version, Rewritten
<1>3. CASE p = l.pos /\ Refresh([l EXCEPT !.buf = b], screen)
  <2>. DEFINE n == [l EXCEPT !.buf = b]
  <2>1. Shape(n) /\ n.buf = b /\ n.pos = p
        /\ n.cols = l.cols /\ n.maxrows = l.maxrows /\ n.oldcolpos = l.oldcolpos
    BY <1>1, <1>3, OtherBuf
  <2>2. Refresh(n, screen)
    BY <1>3
  <2>. HIDE DEF n
  <2> QED
    BY <2>1, <2>2 DEF Version, Rewritten
<1>4. CASE b = l.buf /\ Refresh([l EXCEPT !.pos = p], screen)
  <2>. DEFINE n == [l EXCEPT !.pos = p]
  <2>1. Shape(n) /\ n.buf = b /\ n.pos = p
        /\ n.cols = l.cols /\ n.maxrows = l.maxrows /\ n.oldcolpos = l.oldcolpos
    BY <1>1, <1>4, OtherPos
  <2>2. Refresh(n, screen)
    BY <1>4
  <2>. HIDE DEF n
  <2> QED
    BY <2>1, <2>2 DEF Version, Rewritten
<1> QED
  BY <1>2, <1>3, <1>4

\* The two sides of the cursor.
LEMMA Sides ==
    ASSUME OnCalm
    PROVE  /\ OnLine /\ Whole(l.buf) /\ Steady(l.buf) /\ Between(l.buf, l.pos)
           /\ l.pos \in Nat /\ Len(l.buf) \in Nat /\ l.pos <= Len(l.buf)
           /\ Whole(Before) /\ Steady(Before) /\ Len(Before) = l.pos
           /\ Whole(After) /\ Steady(After)
<1>1. OnLine /\ Calm(l.buf, l.pos)
  BY DEF OnCalm
<1>2. /\ Whole(l.buf) /\ Between(l.buf, l.pos) /\ Steady(l.buf) /\ Len(l.buf) \in Nat
      /\ l.pos \in Nat /\ l.pos <= Len(l.buf)
  BY <1>1, CalmFacts
<1>3. /\ Whole(Before) /\ Steady(Before) /\ Len(Before) = l.pos
      /\ Whole(After) /\ Steady(After)
  BY <1>1, CalmCut DEF Before, After
<1> QED
  BY <1>1, <1>2, <1>3

\* linenoiseEditMoveLeft, MoveRight, MoveHome, MoveEnd.
LEMMA MovesWrite ==
    ASSUME OnCalm, MoveLeft \/ MoveRight \/ MoveHome \/ MoveEnd
    PROVE  Stays \/ Rewritten
<1>0. OnLine /\ Calm(l.buf, l.pos) /\ Whole(l.buf) /\ Steady(l.buf)
  BY Sides DEF OnCalm
<1>1. CASE MoveLeft
  <2>. DEFINE p == l.pos - PrevGraphemeLen(l.buf, l.pos)
  <2>1. Calm(l.buf, p)
    BY <1>0, CalmLeft
  <2>2. Stays \/ Refresh([l EXCEPT !.pos = p], screen)
    BY <1>1 DEF MoveLeft
  <2>. HIDE DEF p
  <2> QED
    BY <1>0, <2>1, <2>2, RewrittenAs
<1>2. CASE MoveRight
  <2>. DEFINE p == l.pos + GraphemeLen(l.buf, l.pos)
  <2>1. Calm(l.buf, p)
    BY <1>0, CalmRight
  <2>2. Stays \/ Refresh([l EXCEPT !.pos = p], screen)
    BY <1>2 DEF MoveRight
  <2>. HIDE DEF p
  <2> QED
    BY <1>0, <2>1, <2>2, RewrittenAs
<1>3. CASE MoveHome
  <2>1. Calm(l.buf, 0)
    BY <1>0, CalmEnds
  <2>2. Stays \/ Refresh([l EXCEPT !.pos = 0], screen)
    BY <1>3 DEF MoveHome
  <2> QED
    BY <1>0, <2>1, <2>2, RewrittenAs
<1>4. CASE MoveEnd
  <2>1. Calm(l.buf, Len(l.buf))
    BY <1>0, CalmEnds
  <2>2. Stays \/ Refresh([l EXCEPT !.pos = Len(l.buf)], screen)
    BY <1>4 DEF MoveEnd
  <2> QED
    BY <1>0, <2>1, <2>2, RewrittenAs
<1> QED
  BY <1>1, <1>2, <1>3, <1>4

\* linenoiseEditBackspace.
LEMMA BackspaceWrites == ASSUME OnCalm, Backspace PROVE Stays \/ Rewritten
<1>. DEFINE p == l.pos - PrevGraphemeLen(l.buf, l.pos)
            x == SubSeq(l.buf, 1, p)
<1>0. /\ OnLine /\ Calm(l.buf, l.pos) /\ Whole(l.buf) /\ Steady(l.buf)
      /\ Whole(After) /\ Steady(After)
  BY Sides DEF OnCalm
<1>1. Calm(l.buf, p)
  BY <1>0, CalmLeft
<1>2. Stays \/ Refresh([l EXCEPT !.buf = x \o After, !.pos = p], screen)
  BY DEF Backspace
<1>. HIDE DEF p
<1>3. Whole(x) /\ Steady(x) /\ Len(x) = p
  BY <1>1, CalmCut
<1>. HIDE DEF x
<1>4. Calm(x \o After, p)
  BY <1>0, <1>3, CalmJoin
<1> QED
  BY <1>0, <1>2, <1>4, RewrittenAs

\* linenoiseEditDelete.
LEMMA DeleteWrites == ASSUME OnCalm, Delete PROVE Stays \/ Rewritten
<1>. DEFINE g == GraphemeLen(l.buf, l.pos)
            p == l.pos + g
            y == SubSeq(l.buf, p + 1, Len(l.buf))
<1>0. /\ OnLine /\ Calm(l.buf, l.pos) /\ Whole(l.buf) /\ Steady(l.buf)
      /\ Whole(Before) /\ Steady(Before) /\ Len(Before) = l.pos
  BY Sides DEF OnCalm
<1>1. Calm(l.buf, p)
  BY <1>0, CalmRight
<1>2. Stays \/ Refresh([l EXCEPT !.buf = Before \o y], screen)
  BY DEF Delete
<1>. HIDE DEF p
<1>3. Whole(y) /\ Steady(y)
  BY <1>1, CalmCut
<1>. HIDE DEF y
<1>4. Calm(Before \o y, l.pos)
  <2>1. Calm(Before \o y, Len(Before))
    BY <1>0, <1>3, CalmJoin
  <2> QED
    BY <1>0, <2>1
<1> QED
  BY <1>0, <1>2, <1>4, RewrittenAs

\* Ctrl-u and Ctrl-k.
LEMMA RestWrites == ASSUME OnCalm, DeleteLine \/ DeleteRest PROVE Rewritten
<1>0. OnLine /\ Whole(Before) /\ Steady(Before) /\ Len(Before) = l.pos
  BY Sides
<1>1. CASE DeleteLine
  <2>1. Calm(<<>>, 0)
    BY EmptyWhole DEF Calm, Steady
  <2>2. Refresh([l EXCEPT !.buf = <<>>, !.pos = 0], screen)
    BY <1>1 DEF DeleteLine
  <2> QED
    BY <1>0, <2>1, <2>2, RewrittenAs
<1>2. CASE DeleteRest
  <2>1. Calm(Before, l.pos)
    BY <1>0, CalmEnds
  <2>2. Refresh([l EXCEPT !.buf = Before], screen)
    BY <1>2 DEF DeleteRest
  <2> QED
    BY <1>0, <2>1, <2>2, RewrittenAs
<1> QED
  BY <1>1, <1>2

\* linenoiseEditDeletePrevWord.
LEMMA WordWrites == ASSUME Fits(user), OnCalm, DeletePrevWord PROVE Rewritten
<1>0. /\ OnLine /\ Calm(l.buf, l.pos) /\ Whole(l.buf) /\ Steady(l.buf)
      /\ Between(l.buf, l.pos) /\ l.pos \in Nat
      /\ Whole(After) /\ Steady(After)
  BY Sides DEF OnCalm
<1>1. PICK word, start :
          /\ word \in 0 .. l.pos /\ start \in 0 .. word
          /\ start # 0 => l.buf[start] = 32
          /\ Refresh([l EXCEPT !.buf = SubSeq(l.buf, 1, start) \o After, !.pos = start], screen)
  BY <1>0, WordFacts
<1>2. start \in 0 .. l.pos
  BY <1>0, <1>1
<1>3. Between(l.buf, start)
  BY <1>0, <1>1, <1>2, WordBetween
<1>. DEFINE x == SubSeq(l.buf, 1, start)
<1>4. Whole(x) /\ Steady(x) /\ Len(x) = start
  BY <1>0, <1>3, SteadyPrefix
<1>5. Refresh([l EXCEPT !.buf = x \o After, !.pos = start], screen)
  BY <1>1
<1>. HIDE DEF x
<1>6. Calm(x \o After, start)
  BY <1>0, <1>4, CalmJoin
<1> QED
  BY <1>0, <1>5, <1>6, RewrittenAs

\* Ctrl-t.
LEMMA SwapWrites == ASSUME Fits(user), OnCalm, SwapChars PROVE Stays \/ Rewritten
<1>. DEFINE b == [l.buf EXCEPT ![l.pos] = l.buf[l.pos + 1], ![l.pos + 1] = l.buf[l.pos]]
            p == IF l.pos # Len(l.buf) - 1 THEN l.pos + 1 ELSE l.pos
<1>0. /\ OnLine /\ l.buf \in Texts(user) /\ Len(l.buf) \in Nat /\ l.pos \in 0 .. Len(l.buf)
      /\ Singles(user)
  <2>1. "SwapChars" \in user.keys
    BY DEF SwapChars, Pressed
  <2> QED
    BY <2>1, OnLineFacts DEF OnCalm, OnLine, Fits
<1>1. CASE l.pos > 0 /\ l.pos < Len(l.buf)
  <2>1. l.pos \in 1 .. Len(l.buf) - 1
    BY <1>0, <1>1
  <2>2. b \in Texts(user) /\ Len(b) = Len(l.buf)
    BY <1>0, <2>1, TextSwapped
  <2>3. p \in 0 .. Len(l.buf)
    BY <1>0, <2>1
  <2>4. Refresh([l EXCEPT !.buf = b, !.pos = p], screen)
    BY <1>1 DEF SwapChars
  <2>. HIDE DEF b, p
  <2>5. Calm(b, p)
    <3>1. Whole(b) /\ Ascii(b)
      BY <1>0, <2>2, TextFacts
    <3>2. Between(b, p)
      BY <2>2, <2>3, <3>1, SinglesBetween
    <3> QED
      BY <3>1, <3>2, SinglesCalm
  <2> QED
    BY <1>0, <2>4, <2>5, RewrittenAs
<1>2. CASE ~(l.pos > 0 /\ l.pos < Len(l.buf))
  BY <1>2 DEF SwapChars
<1> QED
  BY <1>1, <1>2

\* linenoiseEditInsert.
LEMMA InsertWrites ==
    ASSUME Fits(user), OnCalm, NEW c \in user.typed, Insert(c)
    PROVE  Stays \/ Rewritten
<1>0. /\ OnLine /\ Calm(l.buf, l.pos) /\ l.pos \in Nat
      /\ Whole(Before) /\ Steady(Before) /\ Len(Before) = l.pos
      /\ Whole(After) /\ Steady(After)
  BY Sides DEF OnCalm
<1>1. CASE Len(l.buf) < Room
  <2>. DEFINE x == Before \o c
              p == l.pos + Len(c)
  <2>1. /\ c \in Texts(user) /\ Len(c) \in 1 .. 4 /\ Len(x) = p
        /\ Refresh([l EXCEPT !.buf = x \o After, !.pos = p], screen)
    BY <1>0, <1>1, InsertFits
  <2>2. Whole(c) /\ Len(c) > 0
    <3>. DEFINE k == Len(c)
    <3>1. k \in 1 .. 4
      BY <2>1
    <3>. HIDE DEF k
    <3>2. k > 0
      BY <3>1
    <3> QED
      BY <2>1, <3>2, TextFacts DEF k
  <2>3. ASSUME Len(Before) = 0 PROVE Steady(c)
    <3>1. l.pos = 0
      BY <1>0, <2>3
    <3>2. ~IsCombining(Decoded(c)[1])
      BY <3>1 DEF Insert, TypedNow
    <3> QED
      BY ONLY <2>1, <2>2, <3>2, CharSteady
  <2>4. Whole(x) /\ Steady(x)
    BY <1>0, <2>2, <2>3, SteadyJoin
  <2>. HIDE DEF x, p
  <2>5. Calm(x \o After, p)
    BY <1>0, <2>1, <2>4, CalmJoin
  <2> QED
    BY <1>0, <2>1, <2>5, RewrittenAs
<1>2. CASE ~(Len(l.buf) < Room)
  BY <1>2 DEF Insert
<1> QED
  BY <1>1, <1>2

\* The lines of a user that do not begin with a mark.
Sound(u) == {t \in Texts(u) : Steady(t)}

\* Every line is one, and no mark stands at the cursor.
CalmInv ==
    "Plain" \notin user.keys =>
        /\ file \in Seq(Sound(user)) /\ history \in Seq(Sound(user))
        /\ line \in Sound(user)
        /\ mode = "edit" => Calm(l.buf, l.pos)

\* Whichever key wrote the line, the editor goes on with what it wrote.
LEMMA RewrittenIs ==
    ASSUME Rewritten
    PROVE  \E n : /\ Version(n) /\ mode' = "edit" /\ l' = Refreshed(n).l
                  /\ screen' = Written(screen, Refreshed(n).ab)
                  /\ l'.buf = n.buf /\ l'.pos = n.pos
<1>1. PICK n : Version(n) /\ Refresh(n, screen)
  BY DEF Rewritten
<1>2. Whole(n.buf) /\ Shape(n)
  BY <1>1, CalmFacts DEF Version
<1>3. Readable(n.buf, Len(n.buf))
  BY <1>2, WholeReadable
<1>4. mode' = "edit" /\ l' = Refreshed(n).l /\ screen' = Written(screen, Refreshed(n).ab)
  BY <1>1, <1>3 DEF Refresh
<1>5. l'.buf = n.buf /\ l'.pos = n.pos
  BY <1>2, <1>4, RefreshedKeeps
<1> QED
  BY <1>1, <1>4, <1>5

\* So the text stays calm.
LEMMA WrittenCalm ==
    ASSUME OnCalm, Stays \/ Rewritten
    PROVE  mode' = "edit" /\ Calm(l'.buf, l'.pos)
<1>1. CASE Stays
  BY <1>1 DEF Stays, OnCalm, OnLine
<1>2. CASE Rewritten
  <2>1. PICK n : Version(n) /\ mode' = "edit" /\ l'.buf = n.buf /\ l'.pos = n.pos
    BY <1>2, RewrittenIs
  <2> QED
    BY <2>1 DEF Version
<1> QED
  BY <1>1, <1>2

\* linenoiseEditHistoryNext.
LEMMA RecallWrites ==
    ASSUME Fits(user), Proper(user), OnCalm, history \in Seq(Sound(user)),
           l.history_index \in 0 .. Len(history) - 1,
           NEW dir \in {1, -1}, HistoryNext(dir)
    PROVE  (Stays \/ Rewritten) /\ history' \in Seq(Sound(user))
<1>. DEFINE size == Len(history)
            own == size - l.history_index
            h == [history EXCEPT ![own] = CString(l.buf)]
            i == l.history_index + dir
            text == h[size - i]
<1>0. /\ OnLine /\ l.buf \in Sound(user) /\ size \in Nat
      /\ CString(l.buf) \in Sound(user)
  <2>1. OnLine /\ Calm(l.buf, l.pos) /\ l.buf \in Texts(user)
    BY DEF OnCalm, OnLine
  <2>2. Steady(l.buf)
    BY <2>1, CalmFacts
  <2>3. l.buf \in Seq(Byte) /\ Shortest(l.buf)
    BY <2>1, TextFacts
  <2>4. CString(l.buf) = l.buf
    BY <2>3, AllOfC
  <2> QED
    BY <2>1, <2>2, <2>4 DEF Sound
<1>1. CASE size <= 1
  <2>1. Stays /\ UNCHANGED history
    BY <1>1 DEF HistoryNext
  <2> QED
    BY <2>1
<1>2. CASE ~(size <= 1)
  <2>1. own \in 1 .. size
    BY <1>0
  <2>2. h \in Seq(Sound(user)) /\ Len(h) = size
    <3>. HIDE DEF own
    <3> QED
      BY <1>0, <2>1
  <2>3. history' = h
    BY <1>2 DEF HistoryNext
  <2>4. CASE i \in 0 .. size - 1
    <3>1. size - i \in 1 .. size
      BY <1>0, <2>4
    <3>2. text \in Sound(user)
      <4>. HIDE DEF h, i
      <4> QED
        BY <2>2, <3>1
    <3>. DEFINE n == [l EXCEPT !.history_index = i, !.buf = text, !.pos = Len(text)]
    <3>3. Refresh(n, screen)
      BY <1>2, <2>4 DEF HistoryNext
    <3>4. /\ Shape(n) /\ n.buf = text /\ n.pos = Len(text)
          /\ n.cols = l.cols /\ n.maxrows = l.maxrows /\ n.oldcolpos = l.oldcolpos
      <4>1. Shape(l)
        BY <1>0 DEF OnLine
      <4>. HIDE DEF text, i
      <4> QED
        BY <4>1 DEF Shape, Fields
    <3>. HIDE DEF n, text, h
    <3>5. Whole(text) /\ Steady(text)
      BY <3>2 DEF Sound, Texts
    <3>6. Calm(text, Len(text))
      BY <3>5, CalmEnds
    <3>7. Version(n)
      BY <3>4, <3>6 DEF Version
    <3> QED
      BY <2>2, <2>3, <3>3, <3>7 DEF Rewritten
  <2>5. CASE ~(i \in 0 .. size - 1)
    <3>1. Stays
      BY <1>2, <2>5 DEF HistoryNext
    <3> QED
      BY <2>2, <2>3, <3>1
  <2> QED
    BY <2>4, <2>5
<1> QED
  BY <1>1, <1>2

\* Ctrl-l.
LEMMA ClearIsVersion ==
    ASSUME OnCalm, ClearScreen
    PROVE  Version(l) /\ Refresh(l, Cleared(l.cols)) /\ top' = 1
BY DEF ClearScreen, Version, OnCalm, OnLine

\* What it leaves.
LEMMA ClearCalm ==
    ASSUME OnCalm, ClearScreen
    PROVE  /\ mode' = "edit" /\ l' = Refreshed(l).l /\ top' = 1
           /\ screen' = Written(Cleared(l.cols), Refreshed(l).ab)
           /\ l'.buf = l.buf /\ l'.pos = l.pos
<1>1. Version(l) /\ Refresh(l, Cleared(l.cols)) /\ top' = 1
  BY ClearIsVersion
<1>2. Whole(l.buf) /\ Shape(l)
  BY <1>1, CalmFacts DEF Version
<1>3. Readable(l.buf, Len(l.buf))
  BY <1>2, WholeReadable
<1>4. mode' = "edit" /\ l' = Refreshed(l).l /\ screen' = Written(Cleared(l.cols), Refreshed(l).ab)
  BY <1>1, <1>3 DEF Refresh
<1>5. l'.buf = l.buf /\ l'.pos = l.pos
  BY <1>2, <1>4, RefreshedKeeps
<1> QED
  BY <1>1, <1>4, <1>5

\* Every key that writes the line writes it on the screen it was on.
LineKeys ==
    \/ \E c \in user.typed : Insert(c)
    \/ MoveLeft \/ MoveRight \/ MoveHome \/ MoveEnd \/ Backspace \/ Delete
    \/ DeletePrevWord \/ DeleteLine \/ DeleteRest \/ SwapChars

\* It does.
LEMMA WritesWrite ==
    ASSUME Fits(user), OnCalm, LineKeys
    PROVE  (Stays \/ Rewritten) /\ history' = history /\ line' = line /\ top' = top
<1>1. Stays \/ Rewritten
  BY MovesWrite, BackspaceWrites, DeleteWrites, RestWrites, WordWrites, SwapWrites, InsertWrites
     DEF LineKeys
<1>2. Edits
  BY DEF LineKeys, MoveLeft, MoveRight, MoveHome, MoveEnd, Backspace, Delete, DeletePrevWord,
         DeleteLine, DeleteRest, SwapChars, Insert
<1> QED
  BY <1>1, <1>2 DEF Edits

\* The empty line is one.
LEMMA EmptySound ==
    ASSUME NEW u, Fits(u)
    PROVE  <<>> \in Sound(u) /\ <<>> \in Seq(Sound(u)) /\ Calm(<<>>, 0)
<1>1. <<>> \in Texts(u) /\ Between(<<>>, 0)
  BY EmptyText
<1>2. Steady(<<>>)
  BY DEF Steady
<1>3. Whole(<<>>)
  BY <1>1, TextFacts
<1>4. Calm(<<>>, 0)
  BY <1>1, <1>2, <1>3 DEF Calm
<1> QED
  BY <1>1, <1>2, <1>4 DEF Sound

\* Every key.
LEMMA KeysCalm ==
    ASSUME Fits(user), Proper(user), "Plain" \notin user.keys, LineInv, CalmInv, Keys,
           user' = user, file' = file
    PROVE  CalmInv'
<1>1. mode = "edit"
  BY KeysAreForEditing
<1>2. /\ file \in Seq(Sound(user)) /\ history \in Seq(Sound(user)) /\ line \in Sound(user)
      /\ OnCalm /\ l.history_index \in 0 .. Len(history) - 1 /\ OnLine
      /\ history \in Seq(Texts(user))
  BY <1>1 DEF LineInv, CalmInv, OnCalm
<1>3. Sound(user)' = Sound(user)
  BY DEF Sound, Texts, Singles, Proper
<1>4. ASSUME mode' = "edit", Calm(l'.buf, l'.pos), history' \in Seq(Sound(user)), line' = line
      PROVE  CalmInv'
  BY <1>2, <1>3, <1>4 DEF CalmInv
<1>5. CASE LineKeys
  BY <1>2, <1>4, <1>5, WritesWrite, WrittenCalm
<1>6. CASE ClearScreen
  <2>1. history' = history /\ line' = line
    BY <1>6 DEF ClearScreen
  <2> QED
    BY <1>2, <1>4, <1>6, <2>1, ClearCalm DEF OnCalm
<1>7. ASSUME NEW dir \in {1, -1}, HistoryNext(dir) PROVE CalmInv'
  <2>1. line' = line
    BY <1>7 DEF HistoryNext
  <2>2. (Stays \/ Rewritten) /\ history' \in Seq(Sound(user))
    BY <1>2, <1>7, RecallWrites
  <2> QED
    BY <1>2, <1>4, <2>1, <2>2, WrittenCalm
<1>8. Front(history) \in Seq(Sound(user))
  <2>1. history # <<>>
    BY <1>2
  <2> QED
    BY <1>2, <2>1, FrontOfSeq
<1>9. l.buf \in Sound(user)
  BY <1>2, CalmFacts DEF OnCalm, OnLine, Sound
<1>10. CASE Enter
  <2>1. history # <<>>
    BY <1>2
  <2>2. history' = Front(history) /\ line' = l.buf /\ mode' = "eval"
    BY <1>10, <2>1 DEF Enter
  <2> QED
    BY <1>2, <1>3, <1>8, <1>9, <2>2 DEF CalmInv
<1>11. CASE CtrlC
  BY <1>2, <1>3, <1>11 DEF CalmInv, CtrlC
<1>12. CASE CtrlD
  BY <1>2, <1>3, <1>8, <1>12 DEF CalmInv, CtrlD
<1> QED
  BY <1>5, <1>6, <1>7, <1>10, <1>11, <1>12 DEF Keys, LineKeys

\* The first state.
LEMMA CalmInit ==
    ASSUME \A u \in Users : Fits(u)
    PROVE  Init => CalmInv
BY EmptySound DEF Init, CalmInv

\* The inductive step.
LEMMA CalmStep ==
    ASSUME \A u \in Users : Fits(u) /\ Proper(u)
    PROVE  LineInv /\ CalmInv /\ [Next]_vars => CalmInv'
<1>. SUFFICES ASSUME LineInv, CalmInv, [Next]_vars, "Plain" \notin user.keys PROVE CalmInv'
  <2>1. LineInv /\ CalmInv /\ [Next]_vars => user' = user
    BY DEF LineInv, Next, vars, Start, ReadLine, Edit, InputFails, Evaluated, Refused, Dies, Quit
  <2> QED
    BY <2>1 DEF CalmInv
<1>1. user' = user /\ user \in Users
  BY DEF LineInv, Next, vars, Start, ReadLine, Edit, InputFails, Evaluated, Refused, Dies, Quit
<1>2. /\ Fits(user) /\ Proper(user) /\ Sound(user)' = Sound(user)
      /\ <<>> \in Sound(user) /\ <<>> \in Seq(Sound(user)) /\ Calm(<<>>, 0)
  <2>1. Fits(user) /\ Proper(user)
    BY <1>1
  <2>2. Sound(user)' = Sound(user)
    BY <1>1 DEF Sound, Texts, Singles, Proper
  <2> QED
    BY <2>1, <2>2, EmptySound
<1>3. /\ file \in Seq(Sound(user)) /\ history \in Seq(Sound(user)) /\ line \in Sound(user)
      /\ mode = "edit" => Calm(l.buf, l.pos) /\ OnLine
  BY DEF CalmInv, LineInv
<1>4. SUFFICES /\ file' \in Seq(Sound(user)) /\ history' \in Seq(Sound(user))
               /\ line' \in Sound(user)
               /\ mode' = "edit" => Calm(l'.buf, l'.pos)
  BY <1>2 DEF CalmInv
<1>5. CASE Edit
  <2>1. CalmInv'
    BY <1>1, <1>2, <1>5, KeysCalm DEF Edit
  <2> QED
    BY <1>1, <1>2, <2>1 DEF CalmInv
<1>6. CASE Start
  <2>1. LoadHistory(file) \in Seq(Sound(user))
    BY <1>3, LoadedIs
  <2> QED
    BY <1>2, <1>3, <1>6, <2>1 DEF Start
<1>7. CASE InputFails
  <2>1. mode = "edit" /\ line' = l.buf /\ mode' = "eval" /\ history' = history /\ file' = file
    BY <1>7 DEF InputFails, InputError, Pressed
  <2>2. l.buf \in Sound(user)
    BY <1>3, <2>1, CalmFacts DEF OnLine, Sound
  <2> QED
    BY <1>3, <2>1, <2>2
<1>8. CASE ReadLine
  <2>0. file' = file
    BY <1>8 DEF ReadLine
  <2>1. CASE Readline
    <3>1. /\ history' = Added(history, <<>>) /\ mode' = "edit" /\ line' = line
          /\ \E w \in GetColumns : l' = [NoLine EXCEPT !.cols = w]
      BY <2>1 DEF Readline
    <3>2. history' \in Seq(Sound(user))
      BY <1>2, <1>3, <3>1, AddedIs
    <3>3. l'.buf = <<>> /\ l'.pos = 0
      BY <3>1, NoLineShape
    <3> QED
      BY <1>2, <1>3, <2>0, <3>1, <3>2, <3>3
  <2>2. CASE RawModeFails
    BY <1>2, <1>3, <2>0, <2>2 DEF RawModeFails
  <2>3. CASE ReadPlain
    BY <2>3 DEF ReadPlain
  <2> QED
    BY <1>8, <2>1, <2>2, <2>3 DEF ReadLine
<1>9. CASE Evaluated
  <2>1. CString(line) = line
    <3>1. line \in Texts(user)
      BY <1>3 DEF Sound
    <3>2. line \in Seq(Byte) /\ Shortest(line)
      BY <1>2, <3>1, TextFacts
    <3> QED
      BY <3>2, AllOfC
  <2>2. Added(history, line) \in Seq(Sound(user))
    BY <1>3, AddedIs
  <2>3. history' = Added(history, line) /\ mode' = "prompt" /\ file' = file /\ line' = line
    BY <1>9, <2>1 DEF Evaluated
  <2> QED
    BY <1>3, <2>2, <2>3
<1>10. CASE Refused
  BY <1>3, <1>10 DEF Refused, replVars
<1>11. CASE Dies
  BY <1>2, <1>3, <1>11 DEF Dies, replVars
<1>12. CASE Quit
  <2>1. history \in Seq(Texts(user))
    BY DEF LineInv
  <2>2. Saved(history) = history
    BY <1>2, <2>1, SavedIs
  <2>3. /\ file' = file \/ file' = history
        /\ history' = <<>> /\ mode' = "down" /\ line' = line
    BY <1>12, <2>2 DEF Quit
  <2> QED
    BY <1>2, <1>3, <2>3
<1>13. CASE UNCHANGED vars
  BY <1>3, <1>13 DEF vars, editorVars, replVars
<1> QED
  BY <1>5, <1>6, <1>7, <1>8, <1>9, <1>10, <1>11, <1>12, <1>13 DEF Next

-----------------------------------------------------------------------------
(* What the terminal shows.                                                *)

\* What the editor knows of the terminal while a key is awaited is right, and the terminal
\* shows the line.
ScreenInv ==
    mode = "edit" =>
        /\ l.cols \in user.widths /\ top \in {1, 2}
        /\ Ready(l.cols, Shown, screen, l.maxrows, l.oldcolpos)
        /\ Shows(l.cols, Shown, screen, l.buf, l.pos)

\* A prompt on one row of a terminal on which there is a place for every character.
Roomy(w) ==
    /\ w \in Nat /\ w >= 3 /\ Whole(Prompt)
    /\ ColumnPos(Prompt) \in Nat /\ ColumnPos(Prompt) > 0 /\ ColumnPos(Prompt) < w

\* What refreshMultiLine has written, and counted.
LEMMA RefreshReady ==
    ASSUME NEW w, Roomy(w), NEW base, Fresh(w, base), NEW s \in Screens(w),
           NEW n, Shape(n), Calm(n.buf, n.pos), n.cols = w,
           n.maxrows \in Nat, n.oldcolpos \in Nat,
           Like(w, Written(s, Clear(n, ColumnPos(Prompt))), base),
           NEW z, z = Written(s, Refreshed(n).ab), NEW m, m = Refreshed(n).l
    PROVE  /\ m.cols = w /\ Ready(w, base, z, m.maxrows, m.oldcolpos)
           /\ Shows(w, base, z, m.buf, m.pos)
<1>1. /\ w \in Nat /\ w >= 3 /\ Whole(Prompt)
      /\ ColumnPos(Prompt) \in Nat /\ ColumnPos(Prompt) > 0 /\ ColumnPos(Prompt) < w
  BY DEF Roomy
<1>2. /\ base \in Screens(w) /\ base.col = 0 /\ ~base.wrap /\ Below(w, base)
  <2>1. base \in Screens(w) /\ base.col = 0 /\ ~base.wrap
    BY DEF Fresh
  <2>2. base.row \in Nat
    BY <1>1, <2>1, ScreenFacts
  <2> QED
    BY <2>1, <2>2 DEF Fresh, Below
<1>3. /\ Whole(n.buf) /\ Between(n.buf, n.pos)
      /\ n.pos < Len(n.buf) => ~IsCombining(Cp(n.buf, n.pos))
  BY CalmFacts DEF Calm, Mark
<1>4. \E rows, c2 :
              /\ Refreshed(n).l = [n EXCEPT !.maxrows = IF rows > @ THEN rows ELSE @,
                                            !.oldcolpos = c2]
              /\ Ready(w, base, z, IF rows > n.maxrows THEN rows ELSE n.maxrows, c2)
              /\ Shows(w, base, z, n.buf, n.pos)
  BY ONLY <1>1, <1>2, <1>3, s \in Screens(w), n.cols = w, n.maxrows \in Nat, n.oldcolpos \in Nat,
     Like(w, Written(s, Clear(n, ColumnPos(Prompt))), base), z = Written(s, Refreshed(n).ab),
     RefreshShows
<1>5. PICK rows, c2 :
              /\ m = [n EXCEPT !.maxrows = IF rows > @ THEN rows ELSE @, !.oldcolpos = c2]
              /\ Ready(w, base, z, IF rows > n.maxrows THEN rows ELSE n.maxrows, c2)
              /\ Shows(w, base, z, n.buf, n.pos)
  BY <1>4
<1>6. /\ m.buf = n.buf /\ m.pos = n.pos /\ m.cols = n.cols
      /\ m.maxrows = (IF rows > n.maxrows THEN rows ELSE n.maxrows) /\ m.oldcolpos = c2
  <2>. DEFINE kept == IF rows > n.maxrows THEN rows ELSE n.maxrows
  <2>1. m = [n EXCEPT !.maxrows = kept, !.oldcolpos = c2]
    BY <1>5
  <2>. HIDE DEF kept
  <2>2. /\ m.buf = n.buf /\ m.pos = n.pos /\ m.cols = n.cols
        /\ m.maxrows = kept /\ m.oldcolpos = c2
    BY ONLY <2>1, Shape(n) DEF Shape, Fields
  <2> QED
    BY <2>2 DEF kept
<1>7. Ready(w, base, z, m.maxrows, m.oldcolpos)
  BY ONLY <1>5, <1>6
<1>8. Shows(w, base, z, m.buf, m.pos)
  BY ONLY <1>5, <1>6
<1>9. m.cols = w
  BY ONLY <1>6, n.cols = w
<1> QED
  BY ONLY <1>7, <1>8, <1>9

\* The row the prompt begins on is blank from there on.
LEMMA ShownIs ==
    ASSUME NEW w, Roomy(w), l.cols = w, top \in {1, 2}
    PROVE  Fresh(w, Shown)
BY FirstRowIs, ClearedIs DEF Shown, Roomy

\* A key that writes the line anew.
LEMMA KeyShows ==
    ASSUME NEW w, Roomy(w), l.cols = w, top \in {1, 2},
           Ready(w, Shown, screen, l.maxrows, l.oldcolpos), NEW n, Version(n)
    PROVE  LET z == Written(screen, Refreshed(n).ab)
               m == Refreshed(n).l
           IN  /\ m.cols = w /\ Ready(w, Shown, z, m.maxrows, m.oldcolpos)
               /\ Shows(w, Shown, z, m.buf, m.pos)
<1>1. Fresh(w, Shown)
  BY ShownIs
<1>2. /\ Shape(n) /\ Calm(n.buf, n.pos) /\ n.cols = w
      /\ n.maxrows = l.maxrows /\ n.oldcolpos = l.oldcolpos
  BY DEF Version
<1>3. n.maxrows \in Nat /\ n.oldcolpos \in Nat /\ Ready(w, Shown, screen, n.maxrows, n.oldcolpos)
  BY <1>2 DEF Ready
<1>4. screen \in Screens(w) /\ Like(w, Written(screen, Clear(n, ColumnPos(Prompt))), Shown)
  BY <1>1, <1>2, <1>3, ClearsLine DEF Roomy
<1> QED
  BY <1>1, <1>2, <1>3, <1>4, RefreshReady

\* Ctrl-l.
LEMMA ClearShows ==
    ASSUME NEW w, Roomy(w), l.cols = w, NEW base, NEW s, Ready(w, base, s, l.maxrows, l.oldcolpos),
           Version(l)
    PROVE  LET z == Written(Cleared(w), Refreshed(l).ab)
               m == Refreshed(l).l
           IN  /\ m.cols = w /\ Ready(w, Cleared(w), z, m.maxrows, m.oldcolpos)
               /\ Shows(w, Cleared(w), z, m.buf, m.pos)
<1>1. Fresh(w, Cleared(w)) /\ Cleared(w) \in Screens(w)
  BY ClearedIs DEF Roomy, Fresh
<1>2. l.maxrows \in Nat /\ l.oldcolpos \in Nat /\ Covers(w, l.maxrows, l.oldcolpos)
  BY DEF Ready, Covers
<1>3. Like(w, Written(Cleared(w), Clear(l, ColumnPos(Prompt))), Cleared(w))
  BY <1>2, ClearsAll DEF Roomy
<1>4. Shape(l) /\ Calm(l.buf, l.pos)
  BY DEF Version
<1> QED
  BY <1>1, <1>2, <1>3, <1>4, RefreshReady

\* A new line.
LEMMA NewLineShows ==
    ASSUME NEW w, Roomy(w), NEW z, z = Written(FirstRow(w), Text(Prompt))
    PROVE  Ready(w, FirstRow(w), z, 0, 0) /\ Shows(w, FirstRow(w), z, <<>>, 0)
BY FirstRowIs, PromptReady DEF Roomy

\* What is assumed of the users.
Suited == \A u \in Users : Fits(u) /\ Proper(u) /\ \A w \in u.widths : Roomy(w)

\* The same screen, and the same state of the editor.
LEMMA ScreenKept ==
    ASSUME ScreenInv, mode = "edit", user' = user, l' = l, screen' = screen, top' = top
    PROVE  ScreenInv'
<1>1. Shown' = Shown
  BY DEF Shown
<1> QED
  BY <1>1 DEF ScreenInv

\* A key that writes the line anew.
LEMMA ScreenWritten ==
    ASSUME ScreenInv, mode = "edit", OnCalm, \A w \in user.widths : Roomy(w),
           Stays \/ Rewritten, user' = user, top' = top
    PROVE  ScreenInv'
<1>1. CASE Stays
  BY <1>1, ScreenKept DEF Stays
<1>2. CASE Rewritten
  <2>. DEFINE w == l.cols
  <2>1. /\ w \in user.widths /\ Roomy(w) /\ top \in {1, 2}
        /\ Ready(w, Shown, screen, l.maxrows, l.oldcolpos)
    BY DEF ScreenInv
  <2>2. PICK n : /\ Version(n) /\ l' = Refreshed(n).l
                 /\ screen' = Written(screen, Refreshed(n).ab)
    BY <1>2, RewrittenIs
  <2>. HIDE DEF w
  <2>3. /\ l'.cols = w /\ Ready(w, Shown, screen', l'.maxrows, l'.oldcolpos)
        /\ Shows(w, Shown, screen', l'.buf, l'.pos)
    BY <2>1, <2>2, KeyShows DEF w
  <2>4. Shown' = Shown
    BY <2>3 DEF Shown, w
  <2> QED
    BY <2>1, <2>3, <2>4 DEF ScreenInv
<1> QED
  BY <1>1, <1>2

\* Ctrl-l.
LEMMA ScreenCleared ==
    ASSUME ScreenInv, mode = "edit", OnCalm, \A w \in user.widths : Roomy(w),
           ClearScreen, user' = user
    PROVE  ScreenInv'
<1>. DEFINE w == l.cols
<1>1. /\ w \in user.widths /\ Roomy(w)
      /\ Ready(w, Shown, screen, l.maxrows, l.oldcolpos)
  BY DEF ScreenInv
<1>2. /\ l' = Refreshed(l).l /\ top' = 1 /\ screen' = Written(Cleared(w), Refreshed(l).ab)
      /\ Version(l)
  BY ClearCalm, ClearIsVersion
<1>. HIDE DEF w
<1>3. /\ l'.cols = w /\ Ready(w, Cleared(w), screen', l'.maxrows, l'.oldcolpos)
      /\ Shows(w, Cleared(w), screen', l'.buf, l'.pos)
  BY <1>1, <1>2, ClearShows DEF w
<1>4. Shown' = Cleared(w)
  BY <1>2, <1>3 DEF Shown
<1> QED
  BY <1>1, <1>2, <1>3, <1>4 DEF ScreenInv

\* Every key.
LEMMA KeysShow ==
    ASSUME Fits(user), Proper(user), \A w \in user.widths : Roomy(w),
           "Plain" \notin user.keys, LineInv, CalmInv, ScreenInv, Keys, user' = user
    PROVE  ScreenInv'
<1>1. mode = "edit"
  BY KeysAreForEditing
<1>2. /\ OnCalm /\ history \in Seq(Sound(user)) /\ l.history_index \in 0 .. Len(history) - 1
  BY <1>1 DEF LineInv, CalmInv, OnCalm
<1>3. CASE LineKeys
  BY <1>1, <1>2, <1>3, WritesWrite, ScreenWritten
<1>4. CASE ClearScreen
  BY <1>1, <1>2, <1>4, ScreenCleared
<1>5. ASSUME NEW dir \in {1, -1}, HistoryNext(dir) PROVE ScreenInv'
  <2>1. top' = top
    BY <1>5 DEF HistoryNext
  <2>2. Stays \/ Rewritten
    BY <1>2, <1>5, RecallWrites
  <2> QED
    BY <1>1, <1>2, <2>1, <2>2, ScreenWritten
<1>6. CASE Enter \/ CtrlC \/ CtrlD
  <2>1. mode' # "edit"
    BY <1>6 DEF Enter, CtrlC, CtrlD
  <2> QED
    BY <2>1 DEF ScreenInv
<1> QED
  BY <1>3, <1>4, <1>5, <1>6 DEF Keys, LineKeys

\* A new line.
LEMMA ScreenNew ==
    ASSUME Readline, \A w \in user.widths : Roomy(w), user' = user
    PROVE  ScreenInv'
<1>1. PICK w \in user.widths : /\ l' = [NoLine EXCEPT !.cols = w]
                               /\ screen' = Written(FirstRow(w), Text(Prompt))
  BY DEF Readline, GetColumns
<1>2. top' = 2
  BY DEF Readline
<1>3. /\ l'.cols = w /\ l'.buf = <<>> /\ l'.pos = 0 /\ l'.maxrows = 0 /\ l'.oldcolpos = 0
  BY <1>1 DEF NoLine
<1>4. Ready(w, FirstRow(w), screen', 0, 0) /\ Shows(w, FirstRow(w), screen', <<>>, 0)
  BY <1>1, NewLineShows
<1>5. Shown' = FirstRow(w)
  BY <1>2, <1>3 DEF Shown
<1> QED
  BY <1>1, <1>2, <1>3, <1>4, <1>5 DEF ScreenInv

\* The inductive step.
LEMMA ScreenStep ==
    ASSUME Suited
    PROVE  LineInv /\ CalmInv /\ ScreenInv /\ [Next]_vars => ScreenInv'
<1>. SUFFICES ASSUME LineInv, CalmInv, ScreenInv, [Next]_vars PROVE ScreenInv'
  OBVIOUS
<1>1. user' = user /\ user \in Users
  BY DEF LineInv, Next, vars, Start, ReadLine, Edit, InputFails, Evaluated, Refused, Dies, Quit
<1>2. Fits(user) /\ Proper(user) /\ \A w \in user.widths : Roomy(w)
  BY <1>1 DEF Suited
<1>3. CASE Edit
  <2>1. Keys
    BY <1>3 DEF Edit
  <2>2. "Plain" \notin user.keys
    BY <2>1, KeysAreForEditing DEF LineInv
  <2> QED
    BY <1>1, <1>2, <2>1, <2>2, KeysShow
<1>4. CASE ReadLine /\ Readline
  BY <1>1, <1>2, <1>4, ScreenNew
<1>5. CASE \/ Start \/ InputFails \/ (ReadLine /\ ~Readline) \/ Evaluated \/ Refused \/ Dies
           \/ Quit
  <2>1. mode' # "edit"
    BY <1>5 DEF Start, InputFails, InputError, ReadLine, RawModeFails, ReadPlain, Evaluated,
       Refused, Dies, Quit
  <2> QED
    BY <2>1 DEF ScreenInv
<1>6. CASE UNCHANGED vars
  <2>1. mode' = mode /\ l' = l /\ screen' = screen /\ top' = top
    BY <1>6 DEF vars, editorVars
  <2>2. CASE mode = "edit"
    BY <1>1, <2>1, <2>2, ScreenKept
  <2>3. CASE mode # "edit"
    BY <2>1, <2>3 DEF ScreenInv
  <2> QED
    BY <2>2, <2>3
<1> QED
  BY <1>3, <1>4, <1>5, <1>6 DEF Next

\* The cursor's cell, by the character at the cursor.
LEMMA CellIs ==
    ASSUME OnCalm, NEW w \in Nat, w > 0, NEW x \in Screens(w)
    PROVE  CursorCell(x) = Spot(w, x, l.buf, l.pos)
<1>. DEFINE next == IF After = <<>> THEN 0 ELSE CodePoint(l.buf, l.pos, Len(After)).cp
            k == IF l.pos < Len(l.buf) THEN Width(Cp(l.buf, l.pos)) ELSE 1
            c == IF x.wrap THEN <<x.row + 1, 0>> ELSE <<x.row, x.col>>
<1>1. /\ Whole(l.buf) /\ Between(l.buf, l.pos) /\ l.pos \in Nat /\ Len(l.buf) \in Nat
      /\ l.pos <= Len(l.buf)
  BY CalmFacts DEF OnCalm
<1>2. Len(After) = Len(l.buf) - l.pos
  BY CalmCut DEF OnCalm, After
<1>3. Width(next) = k
  <2>1. CASE l.pos < Len(l.buf)
    <3>1. CharLen(l.buf, l.pos) \in 1 .. 4 /\ l.pos + CharLen(l.buf, l.pos) <= Len(l.buf)
      BY <1>1, <2>1, NextBetween
    <3>2. After # <<>> /\ Len(After) \in Nat /\ CharLen(l.buf, l.pos) <= Len(After)
      BY <1>1, <1>2, <2>1, <3>1
    <3>3. CodePoint(l.buf, l.pos, Len(After)).cp = Cp(l.buf, l.pos)
      BY <1>1, <2>1, <3>2, CodeAt
    <3> QED
      BY <2>1, <3>2, <3>3
  <2>2. CASE ~(l.pos < Len(l.buf))
    <3>1. Len(After) = 0
      BY <1>1, <1>2, <2>2
    <3>2. After \in Seq(Byte)
      BY CalmCut DEF OnCalm, After, Whole
    <3>3. After = <<>>
      BY <3>1, <3>2, EmptySeq
    <3> QED
      BY <2>2, <3>3, SmallIs
  <2> QED
    BY <2>1, <2>2
<1>4. x.w = w
  BY ScreenFacts
<1>5. CursorCell(x) = IF Cursor(x)[2] + Width(next) > x.w THEN <<Cursor(x)[1] + 1, 0>> ELSE Cursor(x)
  BY DEF CursorCell
<1>6. Cursor(x) = c
  BY DEF Cursor
<1>7. Spot(w, x, l.buf, l.pos) = IF c[2] + k > w THEN <<c[1] + 1, 0>> ELSE c
  BY DEF Spot
<1>. HIDE DEF next, k, c
<1> QED
  BY <1>3, <1>4, <1>5, <1>6, <1>7

\* What the invariant says about the terminal.
LEMMA ScreenRight ==
    ASSUME Suited
    PROVE  LineInv /\ CalmInv /\ ScreenInv => ScreenShowsLine
<1>. SUFFICES ASSUME LineInv, CalmInv, ScreenInv, mode = "edit"
              PROVE  /\ SameRows(screen, Written(Shown, Text(Prompt \o l.buf)))
                     /\ Cursor(screen) = CursorCell(Written(Shown, Text(Prompt \o Before)))
  BY DEF ScreenShowsLine
<1>. DEFINE w == l.cols
<1>1. /\ w \in user.widths /\ top \in {1, 2} /\ Ready(w, Shown, screen, l.maxrows, l.oldcolpos)
      /\ Shows(w, Shown, screen, l.buf, l.pos)
  BY DEF ScreenInv
<1>2. user \in Users /\ "Plain" \notin user.keys /\ OnCalm
  BY DEF LineInv, CalmInv, OnCalm
<1>3. Roomy(w) /\ w \in Nat /\ w > 0 /\ Whole(Prompt)
  BY <1>1, <1>2 DEF Suited, Roomy
<1>4. Shown \in Screens(w) /\ screen \in Screens(w) /\ ~screen.wrap
  BY <1>1, <1>3, ShownIs DEF Fresh, Ready
<1>. HIDE DEF w
<1>5. Whole(Prompt \o l.buf) /\ Whole(Prompt \o Before)
  BY <1>2, <1>3, Sides, JoinWhole
<1>. DEFINE x == Written(Shown, Text(Prompt \o Before))
            y == Written(Shown, Text(Prompt \o l.buf))
<1>6. x \in Screens(w) /\ y \in Screens(w)
  BY <1>3, <1>4, <1>5, TextIs, Writes
<1>7. \A q \in Nat \ {0} : RowOf(screen, q) = RowOf(y, q)
  BY <1>1 DEF Shows
<1>8. <<screen.row, screen.col>> = Spot(w, x, l.buf, l.pos)
  BY <1>1 DEF Shows, Before
<1>. HIDE DEF x, y
<1>9. SameRows(screen, y)
  <2>1. Len(screen.rows) \in Nat /\ Len(y.rows) \in Nat
    BY <1>3, <1>4, <1>6, ScreenFacts
  <2> QED
    BY <1>7, <2>1 DEF SameRows
<1>10. Cursor(screen) = CursorCell(x)
  BY <1>2, <1>3, <1>4, <1>6, <1>8, CellIs DEF Cursor
<1> QED
  BY <1>9, <1>10 DEF x, y

\* What is assumed of the prompt and the widths is what the proof needs of them.
LEMMA RoomyIs ==
    ASSUME Whole(Prompt), ColumnPos(Prompt) # 0,
           NEW u \in Users, Wide(u), NEW w \in u.widths
    PROVE  Roomy(w)
<1>1. w \in Nat /\ w >= 3
  BY DEF Wide
<1>2. ColumnPos(Prompt) < w
  BY PromptAssumption
<1>3. Cleared(w) \in Screens(w) /\ Cleared(w).col = 0 /\ ~Cleared(w).wrap
  BY <1>1, ClearedIs DEF Fresh
<1>4. ColumnPos(Prompt) \in Nat
  BY <1>1, <1>2, <1>3, PromptShown
<1> QED
  BY <1>1, <1>2, <1>4 DEF Roomy

\* linenoise.h:2046-2125: while a key is awaited the terminal shows what was there before, the
\* prompt, the line, and nothing left of what the line was earlier, and the cursor stands where the
\* character at the cursor is: for every text, every terminal of three columns or more, and every
\* prompt of whole characters that takes part of a row.
THEOREM ScreenIsRight ==
    ASSUME \A u \in Users : Fits(u) /\ Proper(u) /\ Wide(u),
           Whole(Prompt), ColumnPos(Prompt) # 0
    PROVE  Spec => []ScreenShowsLine
<1>0. Suited /\ \A u \in Users : Fits(u) /\ Proper(u)
  BY RoomyIs DEF Suited
<1>1. Init => LineInv /\ CalmInv /\ ScreenInv
  BY <1>0, LineInit, CalmInit DEF ScreenInv, Init
<1>2. LineInv /\ CalmInv /\ ScreenInv /\ [Next]_vars => (LineInv /\ CalmInv /\ ScreenInv)'
  BY <1>0, LineStep, CalmStep, ScreenStep
<1>3. LineInv /\ CalmInv /\ ScreenInv => ScreenShowsLine
  BY <1>0, ScreenRight
<1> QED
  BY <1>1, <1>2, <1>3, PTL DEF Spec
=============================================================================
