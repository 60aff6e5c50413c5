----------------------------- MODULE ReaderProofs -----------------------------
(* What holds of the reader for every text, and of the source manager that *)
(* drives it for all files, load paths and sessions.                       *)
EXTENDS SourceMgr, TLAPS, WellFoundedInduction, FiniteSetTheorems, SequenceTheorems

Busy == {"read", "open", "list", "symbol", "number", "negative"}
States == Busy \cup {"done", "error"}

\* Up to where the text has been turned into items: a sign that was swallowed
\* is part of none yet.
ReadUpTo == IF pc = "negative" THEN pos - 1 ELSE pos

\* s has an item for every character of txt up to u that is not a space, and
\* the items come in order.
Covered(txt, s, u) ==
    /\ s \in Seq({s[k] : k \in DOMAIN s})
    /\ \A k \in DOMAIN s : s[k].to \in Nat /\ s[k].to <= u
    /\ \A i \in 1 .. u : txt[i] \notin Space =>
          \E k \in DOMAIN s : i \in s[k].from .. s[k].to
    /\ \A k, l \in DOMAIN s : k < l => s[k].to < s[l].from

MemInv == text \in Seq(Chars) /\ mem = text \o <<"nul">>
PosInv ==
    /\ pos \in Nat /\ pc \in States
    /\ pos <= Len(text) + 1 /\ (pc # "error" => pos <= Len(text))
    /\ pc \in {"open", "symbol", "number", "negative"} => pos < Len(text)
    /\ pc \in {"number", "negative"} => mem[pos + 1] \in Digit
    /\ pc = "negative" => pos > 0
DepthInv == depth \in Nat /\ (pc = "list" => depth > 0)
OutInv == pc # "error" => Covered(text, out, ReadUpTo)
DoneInv == pc = "done" => \A i \in pos + 1 .. Len(text) : text[i] \in Space
TextInv == \A k \in DOMAIN out : out[k].to <= Len(text)
IInv == MemInv /\ PosInv /\ DepthInv /\ OutInv /\ DoneInv /\ TextInv

-----------------------------------------------------------------------------
(* Numbers                                                                 *)

\* A set of natural numbers that is not empty has a least element: the first
\* character of its kind, where the reader looks for one.
LEMMA Least ==
    ASSUME NEW T, T \subseteq Nat, T # {}
    PROVE  \E x \in T : \A y \in T : x <= y
<1>. DEFINE R == {p \in Nat \X Nat : p[1] < p[2]}
<1>1. IsWellFoundedOn(R, Nat)
  BY NatLessThanWellFounded DEF OpToRel
<1>2. ASSUME NEW x \in Nat, NEW y \in Nat, y < x PROVE <<y, x>> \in R
  BY <1>2
<1>. HIDE DEF R
<1>3. PICK x \in T : \A y \in T : ~(<<y, x>> \in R)
  BY <1>1, WFMin
<1>4. ASSUME NEW y \in T PROVE x <= y
  <2>1. x \in Nat /\ y \in Nat
    OBVIOUS
  <2>2. ~(y < x)
    BY <1>2, <1>3, <2>1
  <2>. QED
    BY <2>1, <2>2
<1>. QED
  BY <1>4

Recurses(f, a, S) == f[0] = a /\ \A p \in Nat : f[p + 1] = S[<<p + 1, f[p]>>]

\* A function on the natural numbers can be defined by recursion: partial ones
\* exist up to every number, and agree.
LEMMA Recursion ==
    ASSUME NEW R, NEW a \in R, NEW S \in [Nat \X R -> R]
    PROVE  \E f \in [Nat -> R] : Recurses(f, a, S)
<1>. DEFINE Ok(g, n) == /\ g[0] = a
                        /\ \A p \in 1 .. n : g[p] = S[<<p, g[p - 1]>>]
            T == {n \in Nat : \A g \in [0 .. n -> R] : ~Ok(g, n)}
<1>1. T = {}
  <2>. SUFFICES ASSUME T # {} PROVE FALSE
    OBVIOUS
  <2>1. PICK n \in T : \A y \in T : n <= y
    BY Least
  <2>2. CASE n = 0
    <3>. DEFINE h == [p \in 0 .. 0 |-> a]
    <3>1. h \in [0 .. 0 -> R] /\ Ok(h, 0)
      OBVIOUS
    <3>. QED
      BY <2>1, <2>2, <3>1
  <2>3. CASE n # 0
    <3>1. n - 1 \in Nat /\ ~(n <= n - 1)
      BY <2>1, <2>3
    <3>2. n - 1 \notin T
      BY <2>1, <3>1
    <3>3. PICK g \in [0 .. n - 1 -> R] : Ok(g, n - 1)
      BY <3>1, <3>2
    <3>. DEFINE h == [p \in 0 .. n |-> IF p = n THEN S[<<n, g[n - 1]>>] ELSE g[p]]
    <3>4. S[<<n, g[n - 1]>>] \in R
      BY <3>1
    <3>5. h \in [0 .. n -> R]
      BY <3>1, <3>4
    <3>6. h[0] = a
      BY <3>1, <3>3
    <3>7. ASSUME NEW p \in 1 .. n PROVE h[p] = S[<<p, h[p - 1]>>]
      <4>1. n \in Nat /\ p \in 0 .. n /\ p - 1 \in 0 .. n /\ p - 1 # n
        BY <2>1
      <4>2. h[p - 1] = g[p - 1]
        BY <4>1
      <4>3. CASE p = n
        BY <4>1, <4>2, <4>3
      <4>4. CASE p # n
        <5>1. p \in 1 .. n - 1 /\ h[p] = g[p]
          BY <4>1, <4>4
        <5>. QED
          BY <3>3, <4>2, <5>1
      <4>. QED
        BY <4>3, <4>4
    <3>8. Ok(h, n)
      BY <3>6, <3>7
    <3>. QED
      BY <2>1, <3>5, <3>8
  <2>. QED
    BY <2>2, <2>3
<1>2. ASSUME NEW n \in Nat, NEW m \in Nat, n <= m,
             NEW g, NEW h, Ok(g, n), Ok(h, m)
      PROVE  g[n] = h[n]
  <2>. DEFINE D == {i \in 0 .. n : g[i] # h[i]}
  <2>. SUFFICES ASSUME D # {} PROVE FALSE
    OBVIOUS
  <2>1. D \subseteq Nat
    OBVIOUS
  <2>2. PICK i \in D : \A y \in D : i <= y
    BY <2>1, Least
  <2>3. i \in 1 .. n
    BY <1>2, <2>2
  <2>4. i - 1 \in 0 .. n /\ ~(i <= i - 1)
    BY <2>3
  <2>5. g[i - 1] = h[i - 1]
    BY <2>2, <2>4
  <2>6. g[i] = S[<<i, g[i - 1]>>] /\ h[i] = S[<<i, h[i - 1]>>]
    BY <1>2, <2>3
  <2>. QED
    BY <2>2, <2>5, <2>6
<1>. DEFINE G(n) == CHOOSE g \in [0 .. n -> R] : Ok(g, n)
            f == [p \in Nat |-> G(p)[p]]
<1>3. ASSUME NEW n \in Nat PROVE G(n) \in [0 .. n -> R] /\ Ok(G(n), n)
  <2>1. \E g \in [0 .. n -> R] : Ok(g, n)
    BY <1>1
  <2>. HIDE DEF Ok
  <2>. QED
    BY <2>1
<1>. HIDE DEF Ok, G
<1>4. f \in [Nat -> R]
  BY <1>3
<1>5. ASSUME NEW p \in Nat PROVE f[p] = IF p = 0 THEN a ELSE S[<<p, f[p - 1]>>]
  <2>1. CASE p = 0
    BY <1>3, <2>1 DEF Ok
  <2>2. CASE p # 0
    <3>1. p - 1 \in Nat /\ p - 1 <= p /\ p \in 1 .. p
      BY <2>2
    <3>2. G(p)[p] = S[<<p, G(p)[p - 1]>>]
      BY <1>3, <3>1 DEF Ok
    <3>3. G(p - 1)[p - 1] = G(p)[p - 1]
      BY <1>2, <1>3, <3>1
    <3>. QED
      BY <2>2, <3>1, <3>2, <3>3
  <2>. QED
    BY <2>1, <2>2
<1>. HIDE DEF f
<1>6. f[0] = a
  BY <1>5
<1>7. ASSUME NEW p \in Nat PROVE f[p + 1] = S[<<p + 1, f[p]>>]
  <2>1. p + 1 \in Nat /\ p + 1 # 0 /\ (p + 1) - 1 = p
    OBVIOUS
  <2>. QED
    BY <1>5, <2>1
<1>. QED
  BY <1>4, <1>6, <1>7 DEF Recurses

LEMMA TimesGrows ==
    ASSUME NEW n \in Nat, n > 0, NEW d \in Nat, d > 0
    PROVE  n * d >= n
OBVIOUS

LEMMA Division ==
    ASSUME NEW n \in Nat, n > 0, NEW a \in Nat
    PROVE  /\ a % n \in Nat /\ a % n < n
           /\ a \div n \in Nat /\ a = n * (a \div n) + (a % n)
OBVIOUS

LEMMA RemainderUnique ==
    ASSUME NEW n \in Nat, n > 0, NEW q \in Nat, NEW r \in Nat, r < n,
           NEW q2 \in Nat, NEW r2 \in Nat, r2 < n, n * q + r = n * q2 + r2
    PROVE  r = r2
<1>1. CASE q < q2
  <2>. DEFINE d == q2 - q
  <2>1. d \in Nat /\ d > 0 /\ q2 = q + d
    BY <1>1
  <2>2. n * d >= n
    BY <2>1, TimesGrows
  <2>. HIDE DEF d
  <2>3. n * (q + d) = n * q + n * d
    BY <2>1
  <2>4. n * d \in Nat /\ n * q \in Nat
    BY <2>1
  <2>. QED
    BY <2>1, <2>2, <2>3, <2>4
<1>2. CASE q2 < q
  <2>. DEFINE d == q - q2
  <2>1. d \in Nat /\ d > 0 /\ q = q2 + d
    BY <1>2
  <2>2. n * d >= n
    BY <2>1, TimesGrows
  <2>. HIDE DEF d
  <2>3. n * (q2 + d) = n * q2 + n * d
    BY <2>1
  <2>4. n * d \in Nat /\ n * q2 \in Nat
    BY <2>1
  <2>. QED
    BY <2>1, <2>2, <2>3, <2>4
<1>3. CASE q = q2
  <2>1. n * q \in Nat
    OBVIOUS
  <2>. QED
    BY <1>3, <2>1
<1>. QED
  BY <1>1, <1>2, <1>3

\* A field that overflows counts on as if it had not.
LEMMA CountingOn ==
    ASSUME NEW n \in Nat, n > 1, NEW a \in Nat
    PROVE  ((a % n) + 1) % n = (a + 1) % n
<1>. DEFINE b == (a % n) + 1
            q0 == a \div n
            q2 == b \div n
            q3 == (a + 1) \div n
            r2 == b % n
            r3 == (a + 1) % n
<1>1. /\ b \in Nat /\ q0 \in Nat /\ a = n * q0 + (a % n) /\ a % n \in Nat
  BY Division
<1>2. b % n \in Nat /\ b % n < n /\ q2 \in Nat /\ b = n * q2 + (b % n)
  BY <1>1, Division
<1>3. /\ (a + 1) % n \in Nat /\ (a + 1) % n < n /\ q3 \in Nat
      /\ a + 1 = n * q3 + ((a + 1) % n)
  BY Division
<1>4. a + 1 = n * q0 + b
  BY <1>1
<1>. HIDE DEF b, q0, q2, q3
<1>5. n * (q0 + q2) = n * q0 + n * q2 /\ n * q0 \in Nat /\ n * q2 \in Nat
  BY <1>1, <1>2
<1>6. n * (q0 + q2) + (b % n) = n * q3 + ((a + 1) % n)
  BY <1>1, <1>2, <1>3, <1>4, <1>5
<1>7. q0 + q2 \in Nat
  BY <1>1, <1>2
<1>8. r2 \in Nat /\ r2 < n /\ r3 \in Nat /\ r3 < n
  BY <1>2, <1>3
<1>9. n * (q0 + q2) + r2 = n * q3 + r3 /\ n > 0
  BY <1>6
<1>. HIDE DEF r2, r3
<1>10. r2 = r3
  BY <1>3, <1>7, <1>8, <1>9, RemainderUnique
<1>. QED
  BY <1>10 DEF b, r2, r3

-----------------------------------------------------------------------------
(* Looking ahead                                                           *)

\* A buffer is followed by its terminator.
LEMMA Memory ==
    ASSUME MemInv
    PROVE  /\ Len(text) \in Nat /\ Len(mem) = Len(text) + 1
           /\ \A i \in 1 .. Len(text) : mem[i] = text[i] /\ mem[i] \in Chars
           /\ mem[Len(text) + 1] = "nul"
  BY DEF MemInv

\* nextChar(true) stops at the terminator at the latest.
LEMMA NextNonSpaceFound ==
    ASSUME MemInv, pos \in Nat, pos <= Len(text)
    PROVE  /\ NextNonSpace \in pos + 1 .. Len(text) + 1
           /\ mem[NextNonSpace] \notin Space
           /\ \A k \in pos + 1 .. NextNonSpace - 1 : mem[k] \in Space
<1>. DEFINE T == {i \in pos + 1 .. Len(mem) : mem[i] \notin Space}
<1>0. /\ Len(text) \in Nat /\ Len(mem) = Len(text) + 1
      /\ mem[Len(text) + 1] \notin Space
  BY Memory DEF Space
<1>1. Len(text) + 1 \in T /\ T \subseteq Nat
  BY <1>0
<1>2. PICK i \in T : \A j \in T : i <= j
  BY <1>1, Least
<1>3. \A k \in pos + 1 .. i - 1 : mem[k] \in Space
  BY <1>0, <1>1, <1>2
<1>4. /\ NextNonSpace \in pos + 1 .. Len(mem)
      /\ mem[NextNonSpace] \notin Space
      /\ \A k \in pos + 1 .. NextNonSpace - 1 : mem[k] \in Space
  BY <1>2, <1>3 DEF NextNonSpace
<1>. QED
  BY <1>4, Memory

\* A symbol ends in front of the terminator.
LEMMA SymbolEndFound ==
    ASSUME MemInv, pos \in Nat, pos < Len(text)
    PROVE  /\ SymbolEnd \in pos + 1 .. Len(text)
           /\ \A k \in pos + 2 .. SymbolEnd : mem[k] \in Identifier
<1>. DEFINE Ends(e) == mem[e + 1] \notin Identifier \/ EndOfBuffer(e + 1, e)
            T == {e \in pos + 1 .. Len(mem) : Ends(e)}
<1>0. Len(text) \in Nat /\ Len(mem) = Len(text) + 1
  BY Memory
<1>1. Len(text) \in T /\ T \subseteq Nat
  BY <1>0 DEF EndOfBuffer
<1>2. PICK e \in T : \A j \in T : e <= j
  BY <1>1, Least
<1>3. ASSUME NEW k \in pos + 2 .. e
      PROVE  mem[k] \in Identifier /\ ~EndOfBuffer(k, k - 1)
  <2>1. k - 1 \in pos + 1 .. Len(mem) /\ (k - 1) + 1 = k /\ ~(e <= k - 1)
    BY <1>0, <1>1, <1>2
  <2>2. ~Ends(k - 1)
    BY <1>2, <2>1
  <2>. QED
    BY <2>1, <2>2
<1>4. /\ SymbolEnd \in pos + 1 .. Len(mem)
      /\ \A k \in pos + 2 .. SymbolEnd : mem[k] \in Identifier
  BY <1>2, <1>3 DEF SymbolEnd
<1>5. mem[Len(text) + 1] \notin Identifier
  BY Memory DEF Identifier, Alpha, NumberChar, Digit
<1>. QED
  BY <1>4, <1>5, Memory

\* A number ends in front of the terminator, although nothing looks for it.
LEMMA NumberEndFound ==
    ASSUME MemInv, pos \in Nat, pos < Len(text), mem[pos + 1] \in Digit
    PROVE  /\ NumberEnd \in pos + 1 .. Len(text)
           /\ \A k \in pos + 1 .. NumberEnd : mem[k] \in NumberChar
<1>. DEFINE T == {e \in pos + 1 .. Len(mem) : mem[e + 1] \notin NumberChar}
<1>1. mem[Len(text) + 1] \notin NumberChar
  BY Memory DEF NumberChar, Digit
<1>0. Len(text) \in Nat /\ Len(mem) = Len(text) + 1
  BY Memory
<1>2. Len(text) \in T /\ T \subseteq Nat
  BY <1>0, <1>1
<1>3. PICK e \in T : \A j \in T : e <= j
  BY <1>2, Least
<1>4. ASSUME NEW k \in pos + 1 .. e PROVE mem[k] \in NumberChar
  <2>1. CASE k = pos + 1
    BY <2>1 DEF NumberChar
  <2>2. CASE k # pos + 1
    <3>1. k - 1 \in pos + 1 .. Len(mem) /\ (k - 1) + 1 = k /\ ~(e <= k - 1)
      BY <1>0, <1>2, <1>3, <2>2
    <3>2. k - 1 \notin T
      BY <1>3, <3>1
    <3>. QED
      BY <3>1, <3>2
  <2>. QED
    BY <2>1, <2>2
<1>5. /\ NumberEnd \in pos + 1 .. Len(mem)
      /\ \A k \in pos + 1 .. NumberEnd : mem[k] \in NumberChar
  BY <1>3, <1>4 DEF NumberEnd
<1>. QED
  BY <1>1, <1>5, Memory

-----------------------------------------------------------------------------
(* What has been read                                                      *)

\* Spaces need no item.
LEMMA CoveredSpaces ==
    ASSUME NEW txt, NEW s, NEW u \in Nat, NEW v \in Nat, Covered(txt, s, u), u <= v,
           \A i \in u + 1 .. v : txt[i] \in Space
    PROVE  Covered(txt, s, v)
<1>1. \A k \in DOMAIN s : s[k].to \in Nat /\ s[k].to <= v
  BY DEF Covered
<1>2. ASSUME NEW i \in 1 .. v, txt[i] \notin Space
      PROVE  \E k \in DOMAIN s : i \in s[k].from .. s[k].to
  <2>1. i \in 1 .. u
    BY <1>2
  <2>. QED
    BY <1>2, <2>1 DEF Covered
<1>. QED
  BY <1>1, <1>2 DEF Covered

\* An item is added that starts after the others and has all that is read.
LEMMA CoveredAppend ==
    ASSUME NEW txt, NEW s, NEW u \in Nat, Covered(txt, s, u), NEW item,
           item.from \in Nat, item.to \in Nat,
           u < item.from, item.from <= item.to,
           \A i \in u + 1 .. item.from - 1 : txt[i] \in Space
    PROVE  Covered(txt, Append(s, item), item.to)
<1>. DEFINE R == {s[k] : k \in DOMAIN s}
            t == Append(s, item)
            n == Len(s)
<1>1. s \in Seq(R) /\ s \in Seq(R \cup {item}) /\ n \in Nat
  BY DEF Covered
<1>2. /\ DOMAIN t = 1 .. n + 1 /\ DOMAIN s = 1 .. n
      /\ \A k \in 1 .. n : t[k] = s[k]
      /\ t[n + 1] = item
  BY <1>1
<1>3. t \in Seq({t[k] : k \in DOMAIN t})
  <2>1. t \in Seq(R \cup {item})
    BY <1>1
  <2>2. R \cup {item} = {t[k] : k \in DOMAIN t}
    BY <1>1, <1>2
  <2>. QED
    BY <2>1, <2>2
<1>4. \A k \in 1 .. n : s[k].to \in Nat /\ s[k].to <= u
  BY <1>2 DEF Covered
<1>5. \A k, l \in 1 .. n : k < l => s[k].to < s[l].from
  BY <1>2 DEF Covered
<1>6. \A i \in 1 .. u : txt[i] \notin Space =>
         \E k \in 1 .. n : i \in s[k].from .. s[k].to
  BY <1>2 DEF Covered
<1>. HIDE DEF t, n, R
<1>7. \A k \in DOMAIN t : t[k].to \in Nat /\ t[k].to <= item.to
  BY <1>1, <1>2, <1>4
<1>8. \A k, l \in DOMAIN t : k < l => t[k].to < t[l].from
  <2>. SUFFICES ASSUME NEW k \in 1 .. n + 1, NEW l \in 1 .. n + 1, k < l
                PROVE  t[k].to < t[l].from
    BY <1>2
  <2>1. k \in 1 .. n /\ t[k] = s[k]
    BY <1>1, <1>2
  <2>2. CASE l \in 1 .. n
    BY <1>2, <1>5, <2>1, <2>2
  <2>3. CASE l = n + 1
    BY <1>2, <1>4, <2>1, <2>3
  <2>. QED
    BY <1>1, <2>2, <2>3
<1>9. ASSUME NEW i \in 1 .. item.to, txt[i] \notin Space
      PROVE  \E k \in DOMAIN t : i \in t[k].from .. t[k].to
  <2>1. CASE i <= u
    <3>1. PICK k \in 1 .. n : i \in s[k].from .. s[k].to
      BY <1>6, <1>9, <2>1
    <3>2. k \in DOMAIN t /\ t[k] = s[k]
      BY <1>1, <1>2
    <3>. QED
      BY <3>1, <3>2
  <2>2. CASE i > u
    <3>1. i \in item.from .. item.to
      BY <1>9, <2>2
    <3>2. n + 1 \in DOMAIN t
      BY <1>1, <1>2
    <3>. QED
      BY <1>2, <3>1, <3>2
  <2>. QED
    BY <2>1, <2>2
<1>. QED
  BY <1>3, <1>7, <1>8, <1>9 DEF Covered, t

-----------------------------------------------------------------------------
(* The steps                                                               *)

\* The reader starts in front of the buffer, with nothing read.
\* A reader that is given a text with a terminator.
Fresh ==
    /\ text \in Seq(Chars) /\ mem = text \o <<"nul">>
    /\ pos = 0 /\ pc = "read" /\ depth = 0 /\ out = <<>> /\ err = "none"

LEMMA InitFresh == Terminated /\ Init => Fresh
BY ReaderAssumption DEF Init, Terminated, Fresh

LEMMA FreshIInv == Fresh => IInv
<1>. SUFFICES ASSUME Fresh PROVE IInv
  OBVIOUS
<1>1. MemInv
  BY DEF Fresh, MemInv
<1>2. PosInv /\ DepthInv /\ DoneInv
  BY <1>1, Memory DEF Fresh, PosInv, DepthInv, DoneInv, States, Busy
<1>3. Covered(text, <<>>, 0)
  BY DEF Covered
<1>. QED
  BY <1>1, <1>2, <1>3 DEF Fresh, IInv, OutInv, TextInv, ReadUpTo

\* What every step starts from, in the forms the actions need.
LEMMA ReadyFacts ==
    ASSUME IInv, pc \in Busy
    PROVE  /\ Len(text) \in Nat /\ pos \in Nat /\ pos <= Len(text) /\ depth \in Nat
           /\ \A i \in 1 .. Len(text) : mem[i] = text[i]
           /\ mem[Len(text) + 1] = "nul"
           /\ Covered(text, out, ReadUpTo)
  BY Memory DEF IInv, PosInv, DepthInv, OutInv, Busy

\* Where an expression is read, the characters skipped are spaces and the one
\* ahead is in the buffer.
LEMMA ReadExprStep ==
    ASSUME IInv, pc \in {"read", "list"}, ~EndOfBuffer(NextNonSpace, pos),
           ReadExpr(NextNonSpace), UNCHANGED <<text, mem>>
    PROVE  IInv'
<1>. DEFINE i == NextNonSpace
<1>1. /\ Len(text) \in Nat /\ pos \in Nat /\ pos <= Len(text) /\ depth \in Nat
      /\ \A k \in 1 .. Len(text) : mem[k] = text[k]
      /\ mem[Len(text) + 1] = "nul"
      /\ Covered(text, out, pos)
  BY ReadyFacts DEF Busy, ReadUpTo
<1>2. /\ i \in pos + 1 .. Len(text) + 1 /\ mem[i] # "nul"
      /\ \A k \in pos + 1 .. i - 1 : mem[k] \in Space
  BY <1>1, NextNonSpaceFound DEF IInv, EndOfBuffer
<1>. HIDE DEF i
<1>3. i \in pos + 1 .. Len(text)
  BY <1>1, <1>2
<1>4. ~EndOfBuffer(i, i - 1)
  BY <1>1, <1>2, <1>3 DEF EndOfBuffer
<1>5. /\ pos' = i - 1 /\ pc' \in {"open", "symbol"}
      /\ UNCHANGED <<text, mem, depth, out, err>>
  BY <1>4 DEF ReadExpr, i
<1>6. MemInv'
  BY <1>5 DEF IInv, MemInv
<1>7. PosInv'
  BY <1>1, <1>3, <1>5 DEF PosInv, States, Busy
<1>8. DepthInv' /\ DoneInv' /\ TextInv'
  BY <1>1, <1>5 DEF IInv, DepthInv, DoneInv, TextInv
<1>9. OutInv'
  <2>1. \A k \in pos + 1 .. i - 1 : text[k] \in Space
    BY <1>1, <1>2, <1>3
  <2>2. Covered(text, out, i - 1)
    BY <1>1, <1>3, <2>1, CoveredSpaces
  <2>. QED
    BY <1>5, <2>2 DEF OutInv, ReadUpTo
<1>. QED
  BY <1>6, <1>7, <1>8, <1>9 DEF IInv

\* An item is read after the spaces that separate it from the last one.
LEMMA ItemStep ==
    ASSUME IInv, pc \in Busy, UNCHANGED <<text, mem>>,
           NEW kind, NEW from \in Nat, NEW to \in Nat, NEW start, NEW end,
           Read(kind, from, to, start, end), pos' = to, pc' \in {"read", "list"},
           ReadUpTo < from, from <= to, to <= Len(text),
           \A i \in ReadUpTo + 1 .. from - 1 : text[i] \in Space,
           depth' \in Nat, pc' = "list" => depth' > 0
    PROVE  IInv'
<1>. DEFINE item == [kind |-> kind, from |-> from, to |-> to, start |-> start, end |-> end]
<1>1. Covered(text, out, ReadUpTo) /\ ReadUpTo \in Nat
  BY ReadyFacts DEF ReadUpTo, IInv, PosInv
<1>2. item.from = from /\ item.to = to /\ out' = Append(out, item)
  BY DEF Read
<1>. HIDE DEF item
<1>3. Covered(text, out', to)
  BY <1>1, <1>2, CoveredAppend
<1>4. OutInv'
  BY <1>3 DEF OutInv, ReadUpTo
<1>5. MemInv'
  BY DEF IInv, MemInv
<1>6. PosInv' /\ DepthInv' /\ DoneInv'
  BY ReadyFacts DEF PosInv, DepthInv, DoneInv, States, Busy
<1>7. TextInv'
  <2>1. \A k \in DOMAIN out' : out'[k].to \in Nat /\ out'[k].to <= to
    BY <1>3 DEF Covered
  <2>2. Len(text) \in Nat
    BY ReadyFacts
  <2>. QED
    BY <2>1, <2>2 DEF TextInv
<1>. QED
  BY <1>4, <1>5, <1>6, <1>7 DEF IInv

\* An error is returned with the pointer at most on the terminator.
LEMMA FailStep ==
    ASSUME IInv, pc \in Busy, UNCHANGED <<text, mem>>,
           NEW e, NEW p \in Nat, p <= Len(text) + 1, Fail(e, p)
    PROVE  IInv'
<1>1. MemInv'
  BY DEF IInv, MemInv
<1>2. PosInv' /\ DepthInv' /\ OutInv' /\ DoneInv' /\ TextInv'
  BY ReadyFacts DEF Fail, IInv, PosInv, DepthInv, OutInv, DoneInv, TextInv,
                    States, Busy
<1>. QED
  BY <1>1, <1>2 DEF IInv

\* Nothing is ahead of the reader at the end of the buffer but spaces.
LEMMA EndIsTerminator ==
    ASSUME IInv, pc \in {"read", "list"}, EndOfBuffer(NextNonSpace, pos)
    PROVE  \A i \in pos + 1 .. Len(text) : text[i] \in Space
<1>1. /\ Len(text) \in Nat /\ pos \in Nat /\ pos <= Len(text)
      /\ \A k \in 1 .. Len(text) : mem[k] = text[k] /\ mem[k] # "nul"
  BY ReadyFacts, Memory DEF Busy, IInv, Chars
<1>2. /\ NextNonSpace \in pos + 1 .. Len(text) + 1
      /\ \A k \in pos + 1 .. NextNonSpace - 1 : mem[k] \in Space
  BY <1>1, NextNonSpaceFound DEF IInv
<1>3. NextNonSpace > Len(text) \/ pos >= Len(text)
  BY <1>1, <1>2 DEF EndOfBuffer
<1>. QED
  BY <1>1, <1>2, <1>3

LEMMA ReadTopStep == IInv /\ ReadTop => IInv'
<1>. SUFFICES ASSUME IInv, ReadTop PROVE IInv'
  OBVIOUS
<1>1. CASE text # <<>> /\ ~EndOfBuffer(NextNonSpace, pos)
  BY <1>1, ReadExprStep DEF ReadTop
<1>2. CASE text = <<>> \/ EndOfBuffer(NextNonSpace, pos)
  <2>1. pc = "read" /\ pc' = "done" /\ UNCHANGED <<text, mem, pos, depth, out, err>>
    BY <1>2 DEF ReadTop
  <2>2. /\ Len(text) \in Nat /\ pos \in Nat /\ pos <= Len(text)
        /\ Covered(text, out, pos)
    BY <2>1, ReadyFacts DEF Busy, ReadUpTo
  <2>3. \A i \in pos + 1 .. Len(text) : text[i] \in Space
    BY <1>2, <2>1, <2>2, EndIsTerminator
  <2>4. MemInv' /\ PosInv' /\ DepthInv' /\ TextInv'
    BY <2>1 DEF IInv, MemInv, PosInv, DepthInv, TextInv, States, Busy
  <2>5. OutInv' /\ DoneInv'
    BY <2>1, <2>2, <2>3 DEF OutInv, DoneInv, ReadUpTo
  <2>. QED
    BY <2>4, <2>5 DEF IInv
<1>. QED
  BY <1>1, <1>2

LEMMA OpenListStep == IInv /\ OpenList => IInv'
<1>. SUFFICES ASSUME IInv, OpenList PROVE IInv'
  OBVIOUS
<1>1. pc = "open" /\ pos \in Nat /\ pos < Len(text) /\ depth \in Nat
  BY DEF IInv, PosInv, DepthInv, OpenList
<1>. QED
  BY <1>1, ItemStep, ReadyFacts DEF OpenList, ReadUpTo, Busy

LEMMA ReadListStep == IInv /\ ReadList => IInv'
<1>. SUFFICES ASSUME IInv, ReadList PROVE IInv'
  OBVIOUS
<1>. DEFINE i == NextNonSpace
<1>1. /\ pc = "list" /\ UNCHANGED <<text, mem>> /\ depth \in Nat /\ depth > 0
      /\ Len(text) \in Nat /\ pos \in Nat /\ pos <= Len(text)
      /\ \A k \in 1 .. Len(text) : mem[k] = text[k]
      /\ mem[Len(text) + 1] = "nul"
  BY ReadyFacts DEF IInv, DepthInv, ReadList, Busy
<1>2. /\ i \in pos + 1 .. Len(text) + 1
      /\ \A k \in pos + 1 .. i - 1 : mem[k] \in Space
  BY <1>1, NextNonSpaceFound DEF IInv
<1>3. CASE EndOfBuffer(i, pos) /\ Fail("EOFWhileScaningAList", i)
  BY <1>1, <1>2, <1>3, FailStep DEF Busy
<1>4. CASE ~EndOfBuffer(i, pos) /\ mem[i] = ")" /\ pos' = i
           /\ depth' = depth - 1 /\ pc' = Back(depth - 1) /\ Read("close", i, i, Unset, At(i))
  <2>1. i <= Len(text)
    BY <1>1, <1>2, <1>4
  <2>2. \A k \in pos + 1 .. i - 1 : text[k] \in Space
    BY <1>1, <1>2, <2>1
  <2>3. ReadUpTo = pos /\ pc \in Busy
    BY <1>1 DEF ReadUpTo, Busy
  <2>4. depth' \in Nat /\ pc' \in {"read", "list"} /\ (pc' = "list" => depth' > 0)
    BY <1>1, <1>4 DEF Back
  <2>. HIDE DEF i
  <2>5. i \in Nat /\ pos < i
    BY <1>1, <1>2
  <2>. QED
    BY <1>1, <1>4, <2>1, <2>2, <2>3, <2>4, <2>5, ItemStep
<1>5. CASE ~EndOfBuffer(i, pos) /\ ReadExpr(i)
  BY <1>1, <1>5, ReadExprStep
<1>. QED
  BY <1>3, <1>4, <1>5 DEF ReadList

LEMMA ReadSymbolStep == IInv /\ ReadSymbol => IInv'
<1>. SUFFICES ASSUME IInv, ReadSymbol PROVE IInv'
  OBVIOUS
<1>1. /\ pc = "symbol" /\ UNCHANGED <<text, mem>> /\ ReadUpTo = pos /\ pc \in Busy
      /\ Len(text) \in Nat /\ pos \in Nat /\ pos < Len(text) /\ depth \in Nat
      /\ \A k \in 1 .. Len(text) : mem[k] = text[k]
      /\ mem[Len(text) + 1] = "nul"
      /\ Covered(text, out, pos)
  BY ReadyFacts DEF IInv, PosInv, ReadSymbol, ReadUpTo, Busy
<1>2. CASE Fail("InvalidCharacterForSymbol", pos + 1)
  BY <1>1, <1>2, FailStep
<1>3. CASE mem[pos + 1] \in Digit /\ pc' = "number" /\ pos' = pos
           /\ UNCHANGED <<depth, out, err>>
  BY <1>1, <1>3 DEF IInv, MemInv, PosInv, DepthInv, OutInv, DoneInv, TextInv,
                    ReadUpTo, States, Busy
<1>4. CASE mem[pos + 1] = "-" /\ mem[pos + 2] \in Digit /\ pc' = "negative"
           /\ pos' = pos + 1 /\ UNCHANGED <<depth, out, err>>
  <2>1. pos + 1 < Len(text)
    BY <1>1, <1>4 DEF Digit
  <2>2. MemInv' /\ DepthInv' /\ DoneInv' /\ TextInv'
    BY <1>1, <1>4 DEF IInv, MemInv, DepthInv, DoneInv, TextInv
  <2>3. PosInv'
    BY <1>1, <1>4, <2>1 DEF PosInv, States, Busy
  <2>4. OutInv'
    BY <1>1, <1>4 DEF OutInv, ReadUpTo
  <2>. QED
    BY <2>2, <2>3, <2>4 DEF IInv
<1>5. CASE pos' = SymbolEnd /\ pc' = Back(depth)
           /\ Read("symbol", pos + 1, SymbolEnd, Unset, At(SymbolEnd)) /\ UNCHANGED depth
  <2>1. SymbolEnd \in pos + 1 .. Len(text)
    BY <1>1, SymbolEndFound DEF IInv
  <2>2. pc' \in {"read", "list"} /\ (pc' = "list" => depth' > 0) /\ depth' \in Nat
    BY <1>1, <1>5 DEF Back
  <2>3. SymbolEnd \in Nat /\ pos + 1 \in Nat /\ pos < pos + 1
    BY <1>1, <2>1
  <2>4. \A k \in pos + 1 .. pos + 1 - 1 : text[k] \in Space
    BY <1>1
  <2>. QED
    BY <1>1, <1>5, <2>1, <2>2, <2>3, <2>4, ItemStep
<1>. QED
  BY <1>2, <1>3, <1>4, <1>5 DEF ReadSymbol

LEMMA ReadNumberStep == IInv /\ ReadNumber => IInv'
<1>. SUFFICES ASSUME IInv, ReadNumber PROVE IInv'
  OBVIOUS
<1>. DEFINE e == NumberEnd
            first == IF pc = "negative" THEN pos ELSE pos + 1
<1>1. /\ pc \in {"number", "negative"} /\ pc \in Busy /\ UNCHANGED <<text, mem>>
      /\ Len(text) \in Nat /\ pos \in Nat /\ pos < Len(text) /\ depth \in Nat
      /\ mem[pos + 1] \in Digit /\ (pc = "negative" => pos > 0)
  BY ReadyFacts DEF IInv, PosInv, ReadNumber, Busy
<1>2. e \in pos + 1 .. Len(text)
  BY <1>1, NumberEndFound DEF IInv
<1>3. CASE \E k \in ExtraPoints(e) : Fail("TwoFloatPoints", k - 1)
  <2>1. PICK k \in ExtraPoints(e) : Fail("TwoFloatPoints", k - 1)
    BY <1>3
  <2>2. k - 1 \in Nat /\ k - 1 <= Len(text) + 1
    BY <1>1, <1>2, <2>1 DEF ExtraPoints
  <2>. QED
    BY <1>1, <2>1, <2>2, FailStep
<1>4. CASE Fail("InvalidDigitForNumber", e + 1)
  <2>1. e + 1 \in Nat /\ e + 1 <= Len(text) + 1
    BY <1>1, <1>2
  <2>. QED
    BY <1>1, <1>4, <2>1, FailStep
<1>5. CASE pos' = e /\ pc' = Back(depth) /\ Read("number", first, e, At(pos + 1), At(e))
           /\ UNCHANGED depth
  <2>1. /\ first \in Nat /\ e \in Nat /\ first <= e /\ e <= Len(text)
        /\ ReadUpTo < first /\ first = ReadUpTo + 1 /\ ReadUpTo \in Nat
    BY <1>1, <1>2 DEF ReadUpTo
  <2>2. pc' \in {"read", "list"} /\ (pc' = "list" => depth' > 0) /\ depth' \in Nat
    BY <1>1, <1>5 DEF Back
  <2>. HIDE DEF first, e
  <2>3. \A k \in ReadUpTo + 1 .. first - 1 : text[k] \in Space
    BY <2>1
  <2>. QED
    BY <1>1, <1>5, <2>1, <2>2, <2>3, ItemStep
<1>. QED
  BY <1>3, <1>4, <1>5 DEF ReadNumber

-----------------------------------------------------------------------------
(* Theorems                                                                *)

\* Each step keeps the invariant.
LEMMA IInvStep == IInv /\ [Next]_vars => IInv'
<1>1. IInv /\ UNCHANGED vars => IInv'
  BY DEF vars, IInv, MemInv, PosInv, DepthInv, OutInv, DoneInv, TextInv, ReadUpTo
<1>. QED
  BY <1>1, ReadTopStep, OpenListStep, ReadListStep, ReadSymbolStep,
     ReadNumberStep DEF Next

\* No step writes the text.
LEMMA TerminatedStays == [Next]_vars => (Terminated' <=> Terminated)
BY DEF Terminated, Next, vars, ReadTop, OpenList, ReadList, ReadSymbol, ReadNumber

\* reader.cpp:393-419: the invariant holds whenever the buffer is followed by
\* a terminator, whatever the text is.
LEMMA Inductive == Spec => [](Terminated => IInv)
<1>1. Init => (Terminated => IInv)
  BY InitFresh, FreshIInv
<1>2. (Terminated => IInv) /\ [Next]_vars => (Terminated => IInv)'
  BY IInvStep, TerminatedStays
<1>. QED
  BY <1>1, <1>2, PTL DEF Spec

LEMMA NothingDroppedOf == IInv => NothingDropped
<1>. SUFFICES ASSUME IInv, pc = "done" PROVE
        /\ \A i \in DOMAIN text : text[i] \notin Space =>
              \E k \in DOMAIN out : i \in out[k].from .. out[k].to
        /\ \A k, l \in DOMAIN out : k < l => out[k].to < out[l].from
  BY DEF NothingDropped
<1>1. Covered(text, out, pos) /\ pos \in Nat
  BY DEF IInv, OutInv, ReadUpTo, PosInv
<1>2. DOMAIN text = 1 .. Len(text) /\ Len(text) \in Nat
  BY DEF IInv, MemInv
<1>3. ASSUME NEW i \in DOMAIN text, text[i] \notin Space
      PROVE  i \in 1 .. pos
  BY <1>1, <1>2, <1>3 DEF IInv, DoneInv
<1>. QED
  BY <1>1, <1>3 DEF Covered

\* reader.cpp:393-419: every character of an accepted text that is not a space
\* is in exactly one of the things read, which are in the order of the text.
THEOREM ReadsEverything == Spec => []NothingDropped
<1>1. (Terminated => IInv) => NothingDropped
  BY NothingDroppedOf DEF NothingDropped
<1>. QED
  BY <1>1, Inductive, PTL

-----------------------------------------------------------------------------
(* Counting characters                                                     *)

\* How many of the first n characters of a text are c.
Tally(t, c, n) == Cardinality({i \in 1 .. n : i <= Len(t) /\ t[i] = c})

LEMMA TallyFacts ==
    ASSUME NEW t \in Seq(Bytes), NEW c, NEW n \in Nat
    PROVE  /\ IsFiniteSet({i \in 1 .. n : i <= Len(t) /\ t[i] = c})
           /\ Tally(t, c, n) \in Nat
<1>1. IsFiniteSet(1 .. n)
  BY FS_Interval
<1>2. IsFiniteSet({i \in 1 .. n : i <= Len(t) /\ t[i] = c})
  BY <1>1, FS_Subset
<1>. QED
  BY <1>2, FS_CardinalityType DEF Tally

LEMMA TallyNone ==
    ASSUME NEW t \in Seq(Bytes), NEW c
    PROVE  Tally(t, c, 0) = 0
<1>1. {i \in 1 .. 0 : i <= Len(t) /\ t[i] = c} = {}
  OBVIOUS
<1>. QED
  BY <1>1, FS_EmptySet DEF Tally

\* Other characters do not count.
LEMMA TallyOver ==
    ASSUME NEW t \in Seq(Bytes), NEW c, NEW u \in Nat, NEW v \in Nat, u <= v, v <= Len(t),
           \A i \in u + 1 .. v : t[i] # c
    PROVE  Tally(t, c, v) = Tally(t, c, u)
<1>1. {i \in 1 .. v : i <= Len(t) /\ t[i] = c}
        = {i \in 1 .. u : i <= Len(t) /\ t[i] = c}
  OBVIOUS
<1>. QED
  BY <1>1 DEF Tally

LEMMA TallyNext ==
    ASSUME NEW t \in Seq(Bytes), NEW c, NEW u \in Nat, u < Len(t)
    PROVE  Tally(t, c, u + 1) = IF t[u + 1] = c THEN Tally(t, c, u) + 1 ELSE Tally(t, c, u)
<1>. DEFINE S(n) == {i \in 1 .. n : i <= Len(t) /\ t[i] = c}
<1>0. Len(t) \in Nat
  OBVIOUS
<1>1. CASE t[u + 1] = c
  <2>1. S(u + 1) = S(u) \cup {u + 1} /\ u + 1 \notin S(u)
    BY <1>0, <1>1
  <2>2. IsFiniteSet(S(u))
    BY TallyFacts
  <2>. HIDE DEF S
  <2>3. Cardinality(S(u + 1)) = Cardinality(S(u)) + 1
    BY <2>1, <2>2, FS_AddElement
  <2>. QED
    BY <1>1, <2>3 DEF Tally, S
<1>2. CASE t[u + 1] # c
  BY <1>0, <1>2, TallyOver
<1>. QED
  BY <1>1, <1>2

\* A character that occurs counts.
LEMMA TallySome ==
    ASSUME NEW t \in Seq(Bytes), NEW c, NEW n \in Nat, NEW i \in 1 .. n, i <= Len(t), t[i] = c
    PROVE  Tally(t, c, n) > 0
<1>. DEFINE S == {k \in 1 .. n : k <= Len(t) /\ t[k] = c}
<1>1. IsFiniteSet(S) /\ S # {} /\ Tally(t, c, n) \in Nat /\ Tally(t, c, n) = Cardinality(S)
  BY TallyFacts DEF Tally
<1>2. Cardinality(S) # 0
  <2>. HIDE DEF S
  <2>. QED
    BY <1>1, FS_EmptySet
<1>. QED
  BY <1>1, <1>2

\* More characters have no fewer of a kind.
LEMMA TallyGrows ==
    ASSUME NEW t \in Seq(Bytes), NEW c, NEW u \in Nat, NEW v \in Nat, u <= v
    PROVE  Tally(t, c, u) <= Tally(t, c, v)
<1>. DEFINE S(n) == {i \in 1 .. n : i <= Len(t) /\ t[i] = c}
<1>0. S(u) \subseteq S(v)
  OBVIOUS
<1>1. S(u) \subseteq S(v) /\ IsFiniteSet(S(v))
  BY <1>0, TallyFacts
<1>. HIDE DEF S
<1>2. Cardinality(S(u)) <= Cardinality(S(v))
  BY <1>1, FS_Subset
<1>. QED
  BY <1>2 DEF Tally, S

\* Where as many have been counted there was none.
LEMMA TallySame ==
    ASSUME NEW t \in Seq(Bytes), NEW c, NEW u \in Nat, NEW v \in Nat, u <= v, v <= Len(t),
           Tally(t, c, u) = Tally(t, c, v), NEW k \in u + 1 .. v
    PROVE  t[k] # c
<1>. SUFFICES ASSUME t[k] = c PROVE FALSE
  OBVIOUS
<1>1. k - 1 \in Nat /\ k \in Nat /\ u <= k - 1 /\ k <= v /\ (k - 1) + 1 = k
  OBVIOUS
<1>2. k - 1 < Len(t)
  BY <1>1
<1>3. Tally(t, c, k) = Tally(t, c, k - 1) + 1
  BY <1>1, <1>2, TallyNext
<1>4. Tally(t, c, u) <= Tally(t, c, k - 1) /\ Tally(t, c, k) <= Tally(t, c, v)
  BY <1>1, TallyGrows
<1>5. /\ Tally(t, c, u) \in Nat /\ Tally(t, c, v) \in Nat
      /\ Tally(t, c, k) \in Nat /\ Tally(t, c, k - 1) \in Nat
  BY <1>1, TallyFacts
<1>. QED
  BY <1>3, <1>4, <1>5

\* Count is about the text that is read.
LEMMA CountIsTally ==
    ASSUME MemInv
    PROVE  text \in Seq(Bytes) /\ \A c, n : Count(c, n) = Tally(text, c, n)
<1>1. text \in Seq(Chars) /\ Chars \subseteq Bytes
  BY DEF MemInv, Bytes
<1>. QED
  BY <1>1 DEF Count, Tally

LEMMA CountFacts ==
    ASSUME MemInv, NEW c, NEW n \in Nat
    PROVE  /\ IsFiniteSet({i \in 1 .. n : i <= Len(text) /\ text[i] = c})
           /\ Count(c, n) \in Nat
BY CountIsTally, TallyFacts

LEMMA CountNone ==
    ASSUME MemInv, NEW c
    PROVE  Count(c, 0) = 0
BY CountIsTally, TallyNone

LEMMA CountOver ==
    ASSUME MemInv, NEW c, NEW u \in Nat, NEW v \in Nat, u <= v, v <= Len(text),
           \A i \in u + 1 .. v : text[i] # c
    PROVE  Count(c, v) = Count(c, u)
BY CountIsTally, TallyOver

LEMMA CountNext ==
    ASSUME MemInv, NEW c, NEW u \in Nat, u < Len(text)
    PROVE  Count(c, u + 1) = IF text[u + 1] = c THEN Count(c, u) + 1 ELSE Count(c, u)
BY CountIsTally, TallyNext

LEMMA CountSome ==
    ASSUME MemInv, NEW c, NEW n \in Nat, NEW i \in 1 .. n, i <= Len(text), text[i] = c
    PROVE  Count(c, n) > 0
BY CountIsTally, TallySome

LEMMA CountGrows ==
    ASSUME MemInv, NEW c, NEW u \in Nat, NEW v \in Nat, u <= v
    PROVE  Count(c, u) <= Count(c, v)
BY CountIsTally, TallyGrows

LEMMA CountSame ==
    ASSUME MemInv, NEW c, NEW u \in Nat, NEW v \in Nat, u <= v, v <= Len(text),
           Count(c, u) = Count(c, v), NEW k \in u + 1 .. v
    PROVE  text[k] # c
BY CountIsTally, TallySame

-----------------------------------------------------------------------------
(* What has been read is balanced but for the lists that are open.         *)

Counted(d, u) ==
    /\ d + Count(")", u) = Count("(", u)
    /\ \A n \in 1 .. u : Count(")", n) <= Count("(", n)
    /\ Count("#", u) = 0

\* What the function the reader is in says of the next character.
AheadInv ==
    /\ pc = "open" => text[pos + 1] = "("
    /\ pc = "symbol" => text[pos + 1] \notin Space \cup {"("}
    /\ pc = "symbol" /\ text[pos + 1] = ")" => depth = 0
    /\ pc \in {"read", "done"} => depth = 0

BalanceInv == pc # "error" => Counted(depth, pos)
ErrorInv == pc = "error" => Justified(err, pos)
VInv == IInv /\ AheadInv /\ BalanceInv /\ ErrorInv

Brackets == {"(", ")", "#"}

LEMMA CountedOver ==
    ASSUME MemInv, NEW d \in Nat, NEW u \in Nat, NEW v \in Nat, u <= v, v <= Len(text),
           \A i \in u + 1 .. v : text[i] \notin Brackets,
           Counted(d, u)
    PROVE  Counted(d, v)
<1>1. ASSUME NEW w \in u .. v, NEW c \in Brackets
      PROVE  Count(c, w) = Count(c, u)
  <2>1. w \in Nat /\ w <= Len(text) /\ \A i \in u + 1 .. w : text[i] # c
    BY Memory
  <2>. QED
    BY <2>1, CountOver
<1>2. \A w \in u .. v : /\ Count("(", w) = Count("(", u)
                        /\ Count(")", w) = Count(")", u)
                        /\ Count("#", w) = Count("#", u)
  BY <1>1 DEF Brackets
<1>3. d + Count(")", v) = Count("(", v) /\ Count("#", v) = 0
  BY <1>2 DEF Counted
<1>4. ASSUME NEW n \in 1 .. v
      PROVE  Count(")", n) <= Count("(", n)
  <2>1. CASE n <= u
    BY <2>1 DEF Counted
  <2>2. CASE n > u
    <3>1. Count("(", n) = Count("(", u) /\ Count(")", n) = Count(")", u)
      BY <1>2, <2>2
    <3>2. Count("(", u) \in Nat /\ Count(")", u) \in Nat
      BY CountFacts
    <3>. QED
      BY <3>1, <3>2 DEF Counted
  <2>. QED
    BY <2>1, <2>2
<1>. QED
  BY <1>3, <1>4 DEF Counted

LEMMA CountedOpen ==
    ASSUME MemInv, NEW d \in Nat, NEW u \in Nat, u < Len(text),
           text[u + 1] = "(", Counted(d, u)
    PROVE  Counted(d + 1, u + 1)
<1>1. /\ Count("(", u + 1) = Count("(", u) + 1
      /\ Count(")", u + 1) = Count(")", u)
      /\ Count("#", u + 1) = Count("#", u)
  BY CountNext
<1>2. Count("(", u) \in Nat /\ Count(")", u) \in Nat
  BY CountFacts
<1>3. \A n \in 1 .. u + 1 : n \in 1 .. u \/ n = u + 1
  OBVIOUS
<1>. QED
  BY <1>1, <1>2, <1>3 DEF Counted

LEMMA CountedClose ==
    ASSUME MemInv, NEW d \in Nat, NEW u \in Nat, u < Len(text), d > 0,
           text[u + 1] = ")", Counted(d, u)
    PROVE  Counted(d - 1, u + 1)
<1>1. /\ Count("(", u + 1) = Count("(", u)
      /\ Count(")", u + 1) = Count(")", u) + 1
      /\ Count("#", u + 1) = Count("#", u)
  BY CountNext
<1>2. Count("(", u) \in Nat /\ Count(")", u) \in Nat
  BY CountFacts
<1>3. \A n \in 1 .. u + 1 : n \in 1 .. u \/ n = u + 1
  OBVIOUS
<1>. QED
  BY <1>1, <1>2, <1>3 DEF Counted

\* Counts depend on the text alone.
LEMMA SameText ==
    ASSUME text' = text
    PROVE  /\ Counted(depth', pos') => Counted(depth, pos)'
           /\ Justified(err', pos') => Justified(err, pos)'
BY DEF Counted, Justified, Count

\* What a step of the reader starts from.
LEMMA VReady ==
    ASSUME VInv, pc \in Busy
    PROVE  /\ MemInv /\ Len(text) \in Nat /\ pos \in Nat /\ pos <= Len(text) /\ depth \in Nat
           /\ \A i \in 1 .. Len(text) : mem[i] = text[i] /\ mem[i] \in Chars
           /\ mem[Len(text) + 1] = "nul"
           /\ Counted(depth, pos)
BY ReadyFacts, Memory DEF VInv, IInv, BalanceInv, Busy

\* After spaces, readExpr leaves the reader in front of an expression.
LEMMA VReadExpr ==
    ASSUME VInv, pc \in {"read", "list"}, ~EndOfBuffer(NextNonSpace, pos),
           ReadExpr(NextNonSpace), UNCHANGED <<text, mem>>,
           mem[NextNonSpace] = ")" => depth = 0
    PROVE  AheadInv' /\ BalanceInv' /\ ErrorInv'
<1>. DEFINE i == NextNonSpace
<1>1. /\ MemInv /\ Len(text) \in Nat /\ pos \in Nat /\ pos <= Len(text) /\ depth \in Nat
      /\ \A k \in 1 .. Len(text) : mem[k] = text[k]
      /\ mem[Len(text) + 1] = "nul"
      /\ Counted(depth, pos)
  BY VReady DEF Busy
<1>2. /\ i \in pos + 1 .. Len(text) + 1 /\ mem[i] # "nul" /\ mem[i] \notin Space
      /\ \A k \in pos + 1 .. i - 1 : mem[k] \in Space
  BY <1>1, NextNonSpaceFound DEF EndOfBuffer
<1>3. mem[i] = ")" => depth = 0
  OBVIOUS
<1>. HIDE DEF i
<1>4. i \in pos + 1 .. Len(text) /\ i - 1 \in Nat /\ pos <= i - 1 /\ i - 1 <= Len(text)
  BY <1>1, <1>2
<1>5. ~EndOfBuffer(i, i - 1)
  BY <1>1, <1>2, <1>4 DEF EndOfBuffer
<1>6. /\ pos' = i - 1 /\ pc' \in {"open", "symbol"} /\ depth' = depth
      /\ pc' = "open" <=> mem[i] = "("
  BY <1>5 DEF ReadExpr, i
<1>7. \A k \in pos + 1 .. i - 1 : text[k] \notin Brackets
  <2>1. \A k \in pos + 1 .. i - 1 : mem[k] \in Space /\ mem[k] = text[k]
    BY <1>1, <1>2, <1>4
  <2>. QED
    BY <2>1 DEF Space, Brackets
<1>8. Counted(depth, i - 1)
  BY <1>1, <1>4, <1>7, CountedOver
<1>9. BalanceInv' /\ ErrorInv'
  BY <1>6, <1>8, SameText DEF BalanceInv, ErrorInv
<1>10. AheadInv'
  <2>1. text[i] = mem[i] /\ pos' + 1 = i /\ text' = text
    BY <1>1, <1>4, <1>6
  <2>. QED
    BY <1>2, <1>3, <1>6, <2>1 DEF AheadInv
<1>. QED
  BY <1>9, <1>10

\* The error is returned for what it stands for.
LEMMA VFail ==
    ASSUME text' = text, NEW e, NEW p, Fail(e, p), Justified(e, p)
    PROVE  AheadInv' /\ BalanceInv' /\ ErrorInv'
BY SameText DEF Fail, AheadInv, BalanceInv, ErrorInv

\* What has been read has no parentheses in it.
LEMMA VRead ==
    ASSUME VInv, pc \in Busy, text' = text, depth' = depth,
           NEW e \in Nat, pos' = e, pos <= e, e <= Len(text),
           \A k \in pos + 1 .. e : text[k] \notin Brackets,
           pc' = Back(depth)
    PROVE  AheadInv' /\ BalanceInv' /\ ErrorInv'
<1>1. Counted(depth, e)
  BY VReady, CountedOver
<1>2. BalanceInv'
  BY <1>1, SameText DEF BalanceInv
<1>. QED
  BY <1>2 DEF AheadInv, ErrorInv, Back

LEMMA VReadTop == VInv /\ ReadTop => AheadInv' /\ BalanceInv' /\ ErrorInv'
<1>. SUFFICES ASSUME VInv, ReadTop PROVE AheadInv' /\ BalanceInv' /\ ErrorInv'
  OBVIOUS
<1>1. pc = "read" /\ depth = 0 /\ UNCHANGED <<text, mem>>
  BY DEF ReadTop, VInv, AheadInv
<1>2. CASE text # <<>> /\ ~EndOfBuffer(NextNonSpace, pos)
  BY <1>1, <1>2, VReadExpr DEF ReadTop
<1>3. CASE text = <<>> \/ EndOfBuffer(NextNonSpace, pos)
  <2>1. pc' = "done" /\ pos' = pos /\ depth' = depth
    BY <1>3 DEF ReadTop
  <2>2. Counted(depth', pos')
    BY <1>1, <2>1, VReady DEF Busy
  <2>. QED
    BY <1>1, <2>1, <2>2, SameText DEF AheadInv, BalanceInv, ErrorInv
<1>. QED
  BY <1>2, <1>3

LEMMA VOpenList == VInv /\ OpenList => AheadInv' /\ BalanceInv' /\ ErrorInv'
<1>. SUFFICES ASSUME VInv, OpenList PROVE AheadInv' /\ BalanceInv' /\ ErrorInv'
  OBVIOUS
<1>1. /\ pc = "open" /\ text' = text /\ pos' = pos + 1 /\ depth' = depth + 1
      /\ pc' = "list" /\ text[pos + 1] = "("
  BY DEF OpenList, VInv, AheadInv
<1>2. MemInv /\ depth \in Nat /\ pos \in Nat /\ Counted(depth, pos) /\ pos < Len(text)
  BY <1>1, VReady DEF Busy, VInv, IInv, PosInv
<1>3. Counted(depth', pos')
  BY <1>1, <1>2, CountedOpen
<1>. QED
  BY <1>1, <1>3, SameText DEF AheadInv, BalanceInv, ErrorInv

LEMMA VReadList == VInv /\ ReadList => AheadInv' /\ BalanceInv' /\ ErrorInv'
<1>. SUFFICES ASSUME VInv, ReadList PROVE AheadInv' /\ BalanceInv' /\ ErrorInv'
  OBVIOUS
<1>. DEFINE i == NextNonSpace
<1>1. /\ pc = "list" /\ pc \in Busy /\ UNCHANGED <<text, mem>> /\ depth > 0 /\ IInv
  BY DEF ReadList, VInv, IInv, DepthInv, Busy
<1>2. /\ MemInv /\ Len(text) \in Nat /\ pos \in Nat /\ pos <= Len(text) /\ depth \in Nat
      /\ \A k \in 1 .. Len(text) : mem[k] = text[k]
      /\ mem[Len(text) + 1] = "nul"
      /\ Counted(depth, pos)
  BY <1>1, VReady
<1>3. CASE EndOfBuffer(i, pos) /\ Fail("EOFWhileScaningAList", i)
  <2>1. \A k \in pos + 1 .. Len(text) : text[k] \notin Brackets
    BY <1>1, <1>3, EndIsTerminator DEF Space, Brackets
  <2>2. Counted(depth, Len(text))
    BY <1>2, <2>1, CountedOver
  <2>3. Count(")", Len(text)) \in Nat /\ Count("(", Len(text)) \in Nat
    BY <1>2, CountFacts
  <2>4. Count(")", Len(text)) < Count("(", Len(text))
    BY <1>1, <1>2, <2>2, <2>3 DEF Counted
  <2>5. Justified("EOFWhileScaningAList", i)
    BY <2>4 DEF Justified
  <2>. QED
    BY <1>1, <1>3, <2>5, VFail
<1>4. CASE ~EndOfBuffer(i, pos) /\ mem[i] = ")" /\ pos' = i
           /\ depth' = depth - 1 /\ pc' = Back(depth - 1)
  <2>1. /\ i \in pos + 1 .. Len(text) + 1
        /\ \A k \in pos + 1 .. i - 1 : mem[k] \in Space
    BY <1>2, NextNonSpaceFound
  <2>. HIDE DEF i
  <2>2. i \in pos + 1 .. Len(text) /\ i - 1 \in Nat /\ text[i] = ")"
    BY <1>2, <1>4, <2>1
  <2>3. \A k \in pos + 1 .. i - 1 : text[k] \notin Brackets
    <3>1. \A k \in pos + 1 .. i - 1 : mem[k] \in Space /\ mem[k] = text[k]
      BY <1>2, <2>1, <2>2
    <3>. QED
      BY <3>1 DEF Space, Brackets
  <2>4. Counted(depth, i - 1)
    BY <1>2, <2>2, <2>3, CountedOver
  <2>5. i - 1 < Len(text) /\ (i - 1) + 1 = i
    BY <1>2, <2>2
  <2>6. Counted(depth - 1, i)
    BY <1>1, <1>2, <2>2, <2>4, <2>5, CountedClose
  <2>. QED
    BY <1>1, <1>4, <2>6, SameText DEF AheadInv, BalanceInv, ErrorInv, Back
<1>5. CASE ~EndOfBuffer(i, pos) /\ mem[i] # ")" /\ ReadExpr(i)
  BY <1>1, <1>5, VReadExpr
<1>. QED
  BY <1>3, <1>4, <1>5 DEF ReadList

LEMMA VReadSymbol == VInv /\ ReadSymbol => AheadInv' /\ BalanceInv' /\ ErrorInv'
<1>. SUFFICES ASSUME VInv, ReadSymbol PROVE AheadInv' /\ BalanceInv' /\ ErrorInv'
  OBVIOUS
<1>1. /\ pc = "symbol" /\ pc \in Busy /\ text' = text /\ pos < Len(text)
      /\ text[pos + 1] \notin Space \cup {"("}
      /\ text[pos + 1] = ")" => depth = 0
  BY DEF ReadSymbol, VInv, IInv, PosInv, AheadInv, Busy
<1>2. /\ MemInv /\ Len(text) \in Nat /\ pos \in Nat /\ pos <= Len(text) /\ depth \in Nat
      /\ \A k \in 1 .. Len(text) : mem[k] = text[k] /\ mem[k] \in Chars
      /\ mem[Len(text) + 1] = "nul"
      /\ Counted(depth, pos)
  BY <1>1, VReady
<1>3. pos + 1 \in 1 .. Len(text) /\ mem[pos + 1] = text[pos + 1]
      /\ ~EndOfBuffer(pos + 1, pos)
  <2>1. pos + 1 \in 1 .. Len(text) /\ ~(pos + 1 > Len(text))
    BY <1>1, <1>2
  <2>2. mem[pos + 1] \in Chars /\ mem[pos + 1] = text[pos + 1]
    BY <1>2, <2>1
  <2>. QED
    BY <2>1, <2>2 DEF EndOfBuffer, Chars
<1>4. CASE mem[pos + 1] \notin Identifier /\ Fail("InvalidCharacterForSymbol", pos + 1)
  <2>1. text[pos + 1] \in {"#", ")"}
    BY <1>1, <1>2, <1>3, <1>4 DEF Chars, Space, Identifier, Alpha, NumberChar, Digit
  <2>2. text[pos + 1] = ")" => Count("(", pos + 1) < Count(")", pos + 1)
    <3>1. Count("(", pos) \in Nat /\ Count(")", pos) \in Nat
      BY <1>2, CountFacts
    <3>. QED
      BY <1>1, <1>2, <3>1, CountNext DEF Counted
  <2>3. Justified("InvalidCharacterForSymbol", pos + 1)
    BY <2>1, <2>2 DEF Justified
  <2>. QED
    BY <1>1, <1>4, <2>3, VFail
<1>5. CASE pc' \in {"negative", "number"} /\ depth' = depth
           /\ (pos' = pos \/ (pos' = pos + 1 /\ mem[pos + 1] = "-"))
  <2>1. CASE pos' = pos
    BY <1>1, <1>2, <1>5, <2>1, SameText DEF AheadInv, BalanceInv, ErrorInv
  <2>2. CASE pos' = pos + 1 /\ mem[pos + 1] = "-"
    <3>1. \A k \in pos + 1 .. pos + 1 : text[k] \notin Brackets
      BY <1>2, <1>3, <2>2 DEF Brackets
    <3>2. Counted(depth, pos + 1)
      BY <1>1, <1>2, <3>1, CountedOver
    <3>. QED
      BY <1>1, <1>5, <2>2, <3>2, SameText DEF AheadInv, BalanceInv, ErrorInv
  <2>. QED
    BY <1>5, <2>1, <2>2
<1>6. CASE mem[pos + 1] \in Identifier /\ pos' = SymbolEnd /\ pc' = Back(depth)
           /\ depth' = depth
  <2>1. /\ SymbolEnd \in pos + 1 .. Len(text)
        /\ \A k \in pos + 2 .. SymbolEnd : mem[k] \in Identifier
    BY <1>1, <1>2, SymbolEndFound
  <2>2. \A k \in pos + 1 .. SymbolEnd : text[k] \notin Brackets
    <3>1. \A k \in pos + 1 .. SymbolEnd : mem[k] \in Identifier /\ mem[k] = text[k]
      BY <1>2, <1>6, <2>1
    <3>. QED
      BY <3>1 DEF Brackets, Identifier, Alpha, NumberChar, Digit
  <2>3. SymbolEnd \in Nat /\ pos <= SymbolEnd /\ SymbolEnd <= Len(text)
    BY <1>2, <2>1
  <2>. QED
    BY <1>1, <1>6, <2>2, <2>3, VRead
<1>. QED
  BY <1>3, <1>4, <1>5, <1>6 DEF ReadSymbol

LEMMA VReadNumber == VInv /\ ReadNumber => AheadInv' /\ BalanceInv' /\ ErrorInv'
<1>. SUFFICES ASSUME VInv, ReadNumber PROVE AheadInv' /\ BalanceInv' /\ ErrorInv'
  OBVIOUS
<1>. DEFINE e == NumberEnd
<1>1. /\ pc \in {"number", "negative"} /\ pc \in Busy /\ text' = text /\ pos < Len(text)
      /\ mem[pos + 1] \in Digit
  BY DEF ReadNumber, VInv, IInv, PosInv, Busy
<1>2. /\ MemInv /\ Len(text) \in Nat /\ pos \in Nat /\ depth \in Nat
      /\ \A k \in 1 .. Len(text) : mem[k] = text[k]
      /\ mem[Len(text) + 1] = "nul"
  BY <1>1, VReady
<1>3. /\ e \in pos + 1 .. Len(text)
      /\ \A k \in pos + 1 .. e : mem[k] \in NumberChar
  BY <1>1, <1>2, NumberEndFound
<1>4. CASE \E k \in ExtraPoints(e) : Fail("TwoFloatPoints", k - 1)
  <2>1. PICK k \in ExtraPoints(e) : Fail("TwoFloatPoints", k - 1)
    BY <1>4
  <2>2. PICK j \in pos + 1 .. k - 1 : mem[j] = "."
    BY <2>1 DEF ExtraPoints
  <2>3. k \in pos + 1 .. e /\ mem[k] = "."
    BY <2>1 DEF ExtraPoints
  <2>. HIDE DEF e
  <2>4. /\ k - 1 \in Nat /\ (k - 1) + 1 = k /\ text[k] = "." /\ text[j] = "."
        /\ j \in 1 .. k - 1 /\ j <= Len(text)
    BY <1>2, <1>3, <2>2, <2>3
  <2>5. Count(".", k - 1) > 0
    BY <1>2, <2>4, CountSome
  <2>6. Justified("TwoFloatPoints", k - 1)
    BY <2>4, <2>5 DEF Justified
  <2>. QED
    BY <1>1, <2>1, <2>6, VFail
<1>5. CASE mem[e + 1] \in Alpha /\ Fail("InvalidDigitForNumber", e + 1)
  <2>. HIDE DEF e
  <2>1. e + 1 \in 1 .. Len(text) /\ e \in 1 .. Len(text) /\ e \in pos + 1 .. e
    BY <1>2, <1>3, <1>5 DEF Alpha
  <2>2. text[e + 1] \in Alpha /\ text[e] \in NumberChar /\ (e + 1) - 1 = e
    BY <1>2, <1>3, <1>5, <2>1
  <2>3. Justified("InvalidDigitForNumber", e + 1)
    BY <2>2 DEF Justified
  <2>. QED
    BY <1>1, <1>5, <2>3, VFail
<1>6. CASE pos' = e /\ pc' = Back(depth) /\ depth' = depth
  <2>. HIDE DEF e
  <2>1. \A k \in pos + 1 .. e : text[k] \notin Brackets
    <3>1. \A k \in pos + 1 .. e : mem[k] \in NumberChar /\ mem[k] = text[k]
      BY <1>2, <1>3
    <3>. QED
      BY <3>1 DEF Brackets, NumberChar, Digit
  <2>2. e \in Nat /\ pos <= e /\ e <= Len(text)
    BY <1>2, <1>3
  <2>. QED
    BY <1>1, <1>6, <2>1, <2>2, VRead
<1>. QED
  BY <1>4, <1>5, <1>6 DEF ReadNumber

LEMMA FreshVInv == Fresh => VInv
<1>. SUFFICES ASSUME Fresh PROVE VInv
  OBVIOUS
<1>1. IInv /\ MemInv
  BY FreshIInv DEF IInv
<1>2. Counted(0, 0)
  BY <1>1, CountNone DEF Counted
<1>. QED
  BY <1>1, <1>2 DEF VInv, AheadInv, BalanceInv, ErrorInv, Fresh

LEMMA VInvStep == VInv /\ [Next]_vars => VInv'
<1>. SUFFICES ASSUME VInv, [Next]_vars PROVE VInv'
  OBVIOUS
<1>0. IInv
  BY DEF VInv
<1>1. CASE UNCHANGED vars
  <2>1. IInv'
    BY <1>0, <1>1, IInvStep
  <2>. QED
    BY <1>1, <2>1, SameText DEF vars, VInv, AheadInv, BalanceInv, ErrorInv
<1>2. CASE Next
  <2>1. IInv'
    BY <1>0, IInvStep
  <2>. QED
    BY <1>2, <2>1, VReadTop, VOpenList, VReadList, VReadSymbol, VReadNumber
    DEF Next, VInv
<1>. QED
  BY <1>1, <1>2

LEMMA VInductive == Spec => [](Terminated => VInv)
<1>1. Init => (Terminated => VInv)
  BY InitFresh, FreshVInv
<1>2. (Terminated => VInv) /\ [Next]_vars => (Terminated => VInv)'
  BY VInvStep, TerminatedStays
<1>. QED
  BY <1>1, <1>2, PTL DEF Spec

\* What VInv says of a text when the reader has stopped.
LEMMA VerdictOf ==
    ASSUME VInv
    PROVE  /\ pc = "done" => Balanced /\ Count("#", Len(text)) = 0
           /\ pc = "error" => Justified(err, pos)
<1>1. CASE pc = "done"
  <2>1. /\ MemInv /\ Len(text) \in Nat /\ pos \in Nat /\ pos <= Len(text)
        /\ DOMAIN text = 1 .. Len(text)
        /\ Counted(0, pos)
    BY <1>1, Memory DEF VInv, IInv, PosInv, AheadInv, BalanceInv, MemInv
  <2>2. \A i \in pos + 1 .. Len(text) : text[i] \notin Brackets
    BY <1>1 DEF VInv, IInv, DoneInv, Space, Brackets
  <2>3. Counted(0, Len(text))
    BY <2>1, <2>2, CountedOver
  <2>4. Count(")", Len(text)) \in Nat /\ Count("(", Len(text)) \in Nat
    BY <2>1, CountFacts
  <2>. QED
    BY <1>1, <2>1, <2>3, <2>4 DEF Counted, Balanced
<1>2. CASE pc = "error"
  BY <1>2 DEF VInv, ErrorInv
<1>. QED
  BY <1>1, <1>2

\* reader.cpp:320-366: whatever the text, it is accepted only if its lists are
\* closed and each closed list was open, and an error says what is wrong.
THEOREM VerdictsAreRight == Spec => []VerdictIsRight
<1>1. (Terminated => VInv) => VerdictIsRight
  BY VerdictOf DEF VerdictIsRight
<1>. QED
  BY <1>1, VInductive, PTL
-----------------------------------------------------------------------------
(* Locations                                                               *)

Locations == [line : Nat, col : Nat, eol : BOOLEAN]

\* The location after p characters follows from the one before the last.
LEMMA LocationSteps ==
    /\ LocationAt[0] = Start
    /\ \A p \in Nat : LocationAt[p] \in Locations
    /\ \A p \in Nat : LocationAt[p + 1] = Step(LocationAt[p], mem[p + 1])
<1>. DEFINE S == [x \in Nat \X Locations |-> Step(x[2], mem[x[1]])]
            Def(f) == f = [p \in Nat |-> IF p = 0 THEN Start ELSE Step(f[p - 1], mem[p])]
<1>1. LocMod \in Nat /\ LocMod > 1
  BY ReaderAssumption
<1>2. Start \in Locations
  BY DEF Start, Locations
<1>3. ASSUME NEW loc \in Locations, NEW c PROVE Step(loc, c) \in Locations
  <2>1. /\ (loc.line + 1) % LocMod \in Nat /\ (loc.col + 1) % LocMod \in Nat
        /\ 1 % LocMod \in Nat
    BY <1>1, <1>3, Division DEF Locations
  <2>. QED
    BY <1>3, <2>1 DEF Step, Locations
<1>4. S \in [Nat \X Locations -> Locations]
  BY <1>3
<1>5. PICK f \in [Nat -> Locations] : Recurses(f, Start, S)
  <2>. HIDE DEF S
  <2>. QED
    BY <1>2, <1>4, Recursion
<1>6. Def(f)
  <2>1. ASSUME NEW p \in Nat, p # 0 PROVE f[p] = Step(f[p - 1], mem[p])
    <3>1. p - 1 \in Nat /\ (p - 1) + 1 = p
      BY <2>1
    <3>2. f[p] = S[<<p, f[p - 1]>>]
      BY <1>5, <3>1 DEF Recurses
    <3>. QED
      BY <3>1, <3>2
  <2>. QED
    BY <1>5, <2>1 DEF Recurses
<1>7. LocationAt = CHOOSE g : Def(g)
  BY DEF LocationAt
<1>8. Def(LocationAt)
  <2>. HIDE DEF Def
  <2>. QED
    BY <1>6, <1>7
<1>9. LocationAt[0] = Start
  BY <1>8
<1>10. \A p \in Nat : LocationAt[p + 1] = Step(LocationAt[p], mem[p + 1])
  <2>. SUFFICES ASSUME NEW p \in Nat
                PROVE  LocationAt[p + 1] = Step(LocationAt[p], mem[p + 1])
    OBVIOUS
  <2>1. p + 1 \in Nat /\ p + 1 # 0 /\ (p + 1) - 1 = p
    OBVIOUS
  <2>. QED
    BY <1>8, <2>1
<1>11. \A p \in Nat : LocationAt[p] \in Locations
  <2>. DEFINE T == {p \in Nat : LocationAt[p] \notin Locations}
  <2>. SUFFICES ASSUME T # {} PROVE FALSE
    OBVIOUS
  <2>1. PICK p \in T : \A y \in T : p <= y
    BY Least
  <2>2. p # 0
    BY <1>2, <1>9, <2>1
  <2>3. p - 1 \in Nat /\ ~(p <= p - 1) /\ (p - 1) + 1 = p
    BY <2>1, <2>2
  <2>4. LocationAt[p - 1] \in Locations
    BY <2>1, <2>3
  <2>5. LocationAt[p] = Step(LocationAt[p - 1], mem[p])
    BY <1>10, <2>3
  <2>. QED
    BY <1>3, <2>1, <2>4, <2>5
<1>. QED
  BY <1>9, <1>10, <1>11
\* What advanceByOne does is told by the character before.
LEMMA AfterCharacter ==
    ASSUME NEW p \in Nat \ {0}
    PROVE  /\ LocationAt[p].line \in Nat /\ LocationAt[p].col \in Nat
           /\ LocationAt[p].col < LocMod
           /\ LocationAt[p].eol = (mem[p] = "\n")
           /\ LocationAt[p + 1].line = IF mem[p] = "\n"
                                       THEN (LocationAt[p].line + 1) % LocMod
                                       ELSE LocationAt[p].line
           /\ LocationAt[p + 1].col = IF mem[p] = "\n" THEN 1 % LocMod
                                      ELSE (LocationAt[p].col + 1) % LocMod
<1>. DEFINE l == LocationAt[p - 1]
            m == LocationAt[p]
<1>1. p - 1 \in Nat /\ (p - 1) + 1 = p /\ LocMod \in Nat /\ LocMod > 1
  BY ReaderAssumption
<1>2. m = Step(l, mem[p]) /\ l \in Locations /\ m \in Locations
  BY <1>1, LocationSteps
<1>3. LocationAt[p + 1] = Step(m, mem[p + 1])
  BY LocationSteps
<1>. HIDE DEF l
<1>4. m.eol = (mem[p] = "\n")
  BY <1>2 DEF Step
<1>5. m.col < LocMod
  <2>1. l.col + 1 \in Nat /\ m.col \in {1 % LocMod, (l.col + 1) % LocMod}
    BY <1>2 DEF Step, Locations
  <2>. QED
    BY <1>1, <2>1, Division
<1>6. m.line \in Nat /\ m.col \in Nat
  BY <1>2 DEF Locations
<1>. HIDE DEF m
<1>7. /\ LocationAt[p + 1].line = IF m.eol THEN (m.line + 1) % LocMod ELSE m.line
      /\ LocationAt[p + 1].col = IF m.eol THEN 1 % LocMod ELSE (m.col + 1) % LocMod
  BY <1>3 DEF Step
<1>. QED
  BY <1>4, <1>5, <1>6, <1>7 DEF m

\* The line at a character is told by the new lines before it.
LEMMA LineOfCharacter ==
    ASSUME MemInv, NEW p \in 1 .. Len(text)
    PROVE  LocationAt[p].line = (1 + Count("\n", p - 1)) % LocMod
<1>. DEFINE Line(q) == (1 + Count("\n", q - 1)) % LocMod
            T == {q \in 1 .. Len(text) : LocationAt[q].line # Line(q)}
<1>0. /\ LocMod \in Nat /\ LocMod > 1 /\ LocMod > 0 /\ Len(text) \in Nat
      /\ \A i \in 1 .. Len(text) : mem[i] = text[i]
  BY ReaderAssumption, Memory
<1>. SUFFICES ASSUME T # {} PROVE FALSE
  OBVIOUS
<1>a. T \subseteq Nat
  BY <1>0
<1>. HIDE DEF T
<1>1. PICK q \in T : \A y \in T : q <= y
  BY <1>a, Least
<1>2. q \in 1 .. Len(text) /\ LocationAt[q].line # Line(q)
  BY <1>1 DEF T
<1>3. CASE q = 1
  <2>1. LocationAt[0 + 1] = Step(Start, mem[0 + 1])
    BY LocationSteps
  <2>2. LocationAt[1].line = 1
    BY <2>1 DEF Step, Start
  <2>3. Count("\n", 1 - 1) = 0
    BY CountNone
  <2>4. 1 % LocMod = 1
    BY <1>0
  <2>. QED
    BY <1>2, <1>3, <2>2, <2>3, <2>4
<1>4. CASE q # 1
  <2>. DEFINE r == q - 1
              n == Count("\n", r - 1)
  <2>1. r \in 1 .. Len(text) /\ r - 1 \in Nat /\ (r - 1) + 1 = r /\ r + 1 = q
    BY <1>0, <1>2, <1>4
  <2>2. r \in Nat \ {0} /\ r - 1 < Len(text) /\ ~(q <= r)
    BY <1>0, <2>1
  <2>3. LocationAt[r].line = Line(r)
    BY <1>1, <2>1, <2>2 DEF T
  <2>4. n \in Nat /\ Count("\n", r) = IF text[r] = "\n" THEN n + 1 ELSE n
    <3>1. Count("\n", r - 1) \in Nat
      BY <2>1, CountFacts
    <3>2. Count("\n", (r - 1) + 1) = IF text[(r - 1) + 1] = "\n"
                                     THEN Count("\n", r - 1) + 1 ELSE Count("\n", r - 1)
      BY <2>1, <2>2, CountNext
    <3>. QED
      BY <2>1, <3>1, <3>2
  <2>5. LocationAt[q].line = IF mem[r] = "\n" THEN (LocationAt[r].line + 1) % LocMod
                                               ELSE LocationAt[r].line
    BY <2>1, <2>2, AfterCharacter
  <2>6. mem[r] = text[r]
    BY <1>0, <2>1
  <2>. HIDE DEF r, n
  <2>7. Line(r) = (1 + n) % LocMod /\ Line(q) = (1 + Count("\n", r)) % LocMod
    BY <2>1 DEF n, r
  <2>8. CASE text[r] = "\n"
    <3>0. 1 + n \in Nat
      BY <2>4
    <3>1. (((1 + n) % LocMod) + 1) % LocMod = ((1 + n) + 1) % LocMod
      BY <1>0, <3>0, CountingOn
    <3>2. (1 + n) + 1 = 1 + (n + 1)
      BY <2>4
    <3>. QED
      BY <1>2, <2>3, <2>4, <2>5, <2>6, <2>7, <2>8, <3>1, <3>2
  <2>9. CASE text[r] # "\n"
    BY <1>2, <2>3, <2>4, <2>5, <2>6, <2>7, <2>9
  <2>. QED
    BY <2>8, <2>9
<1>. QED
  BY <1>3, <1>4

\* Columns count from the new line before, and from 2 where there is none.
LEMMA ColumnOfCharacter ==
    ASSUME MemInv, NEW i \in 1 .. Len(text), NEW j \in 0 .. Len(text), LineBefore(j, i)
    PROVE  LocationAt[i].col = (i - j + (IF j = 0 THEN 1 ELSE 0)) % LocMod
<1>. DEFINE more == IF j = 0 THEN 1 ELSE 0
            T == {q \in j + 1 .. i : LocationAt[q].col # (q - j + more) % LocMod}
<1>0. /\ LocMod \in Nat /\ LocMod > 1 /\ Len(text) \in Nat
      /\ i \in Nat /\ j \in Nat /\ i \in j + 1 .. i /\ i <= Len(text)
      /\ j # 0 => text[j] = "\n"
      /\ \A n \in j + 1 .. i - 1 : text[n] # "\n"
      /\ \A n \in 1 .. Len(text) : mem[n] = text[n]
  BY ReaderAssumption, Memory DEF LineBefore
<1>1. more \in Nat /\ (j = 0 => more = 1) /\ (j # 0 => more = 0)
  OBVIOUS
<1>. SUFFICES ASSUME T # {} PROVE FALSE
  BY <1>0
<1>2. T \subseteq Nat
  BY <1>0
<1>3. PICK q \in T : \A y \in T : q <= y
  BY <1>2, Least
<1>. HIDE DEF T, more
<1>4. q \in j + 1 .. i /\ LocationAt[q].col # (q - j + more) % LocMod
  BY <1>3 DEF T
<1>5. CASE q = j + 1 /\ j = 0
  <2>1. LocationAt[0 + 1] = Step(Start, mem[0 + 1])
    BY LocationSteps
  <2>2. LocationAt[1].col = (1 + 1) % LocMod
    BY <2>1 DEF Step, Start
  <2>3. q = 1 /\ q - j + more = 1 + 1
    BY <1>1, <1>5
  <2>. QED
    BY <1>4, <2>2, <2>3
<1>6. CASE q = j + 1 /\ j # 0
  <2>1. j \in Nat \ {0} /\ mem[j] = "\n"
    BY <1>0, <1>6
  <2>2. LocationAt[j + 1].col = 1 % LocMod
    BY <2>1, AfterCharacter
  <2>3. q - j + more = 1
    BY <1>0, <1>1, <1>6
  <2>. QED
    BY <1>4, <1>6, <2>2, <2>3
<1>7. CASE q # j + 1
  <2>. DEFINE r == q - 1
              d == r - j + more
  <2>1. r \in j + 1 .. i /\ r \in Nat \ {0} /\ r + 1 = q /\ ~(q <= r)
    BY <1>0, <1>4, <1>7
  <2>2. LocationAt[r].col = d % LocMod
    BY <1>3, <2>1 DEF T
  <2>3. d \in Nat /\ q - j + more = d + 1
    BY <1>0, <1>1, <1>4, <2>1
  <2>4. mem[r] # "\n"
    BY <1>0, <1>4, <2>1
  <2>5. LocationAt[q].col = (LocationAt[r].col + 1) % LocMod
    BY <2>1, <2>4, AfterCharacter
  <2>. HIDE DEF d, r
  <2>6. ((d % LocMod) + 1) % LocMod = (d + 1) % LocMod
    BY <1>0, <2>3, CountingOn
  <2>. QED
    BY <1>4, <2>2, <2>3, <2>5, <2>6
<1>. QED
  BY <1>5, <1>6, <1>7

\* The locations an item was given are those of characters of the text.
Placed(item) ==
    \A given \in Given(item) :
        given[1] \in 1 .. Len(text) /\ given[2] = At(given[1])

SignInv == pc = "negative" => text[pos] = "-"
PlacedInv == \A k \in DOMAIN out : Placed(out[k])
LInv == VInv /\ SignInv /\ PlacedInv

\* Locations depend on what is in the buffer alone.
LEMMA LocationsSame ==
    ASSUME mem' = mem
    PROVE  LocationAt' = LocationAt
BY DEF LocationAt, Step

\* A step that reads nothing leaves the items where they are.
LEMMA PlacedKept ==
    ASSUME PlacedInv, UNCHANGED <<text, mem, out>>
    PROVE  PlacedInv'
<1>1. LocationAt' = LocationAt
  BY LocationsSame
<1>. QED
  BY <1>1 DEF PlacedInv, Placed, Given, Digits, At

\* An item is placed at its characters.
LEMMA PlacedRead ==
    ASSUME LInv, pc \in Busy, UNCHANGED <<text, mem>>,
           NEW kind, NEW from \in Nat, NEW to \in Nat, NEW start, NEW end,
           Read(kind, from, to, start, end),
           Placed([kind |-> kind, from |-> from, to |-> to, start |-> start, end |-> end])
    PROVE  PlacedInv'
<1>. DEFINE item == [kind |-> kind, from |-> from, to |-> to, start |-> start, end |-> end]
            R == {out[k] : k \in DOMAIN out}
<1>1. Covered(text, out, ReadUpTo)
  BY ReadyFacts DEF LInv, VInv
<1>2. out \in Seq(R) /\ Len(out) \in Nat /\ DOMAIN out = 1 .. Len(out)
  BY <1>1 DEF Covered
<1>3. out' = Append(out, item)
  BY DEF Read
<1>4. Placed(item)
  OBVIOUS
<1>. HIDE DEF item
<1>5. /\ DOMAIN out' = 1 .. Len(out) + 1 /\ out'[Len(out) + 1] = item
      /\ \A k \in 1 .. Len(out) : out'[k] = out[k]
  <2>1. out \in Seq(R \cup {item})
    BY <1>2
  <2>. HIDE DEF R
  <2>. QED
    BY <1>2, <1>3, <2>1
<1>6. \A k \in DOMAIN out' : Placed(out'[k])
  BY <1>2, <1>4, <1>5 DEF LInv, PlacedInv
<1>7. LocationAt' = LocationAt
  BY LocationsSame
<1>. QED
  BY <1>6, <1>7 DEF PlacedInv, Placed, Given, Digits, At

\* A step to a state without a swallowed sign that reads nothing.
LEMMA LQuiet ==
    ASSUME LInv, UNCHANGED <<text, mem, out>>, pc' # "negative"
    PROVE  SignInv' /\ PlacedInv'
BY PlacedKept DEF LInv, SignInv

LEMMA LReadExpr ==
    ASSUME LInv, NEW i, ReadExpr(i), UNCHANGED <<text, mem>>
    PROVE  SignInv' /\ PlacedInv'
<1>1. out' = out /\ pc' # "negative"
  BY DEF ReadExpr
<1>. QED
  BY <1>1, LQuiet

LEMMA LReadTop == LInv /\ ReadTop => SignInv' /\ PlacedInv'
<1>. SUFFICES ASSUME LInv, ReadTop PROVE SignInv' /\ PlacedInv'
  OBVIOUS
<1>1. CASE ReadExpr(NextNonSpace)
  BY <1>1, LReadExpr DEF ReadTop
<1>2. CASE pc' = "done" /\ out' = out
  BY <1>2, LQuiet DEF ReadTop
<1>. QED
  BY <1>1, <1>2 DEF ReadTop

LEMMA LOpenList == LInv /\ OpenList => SignInv' /\ PlacedInv'
<1>. SUFFICES ASSUME LInv, OpenList PROVE SignInv' /\ PlacedInv'
  OBVIOUS
<1>1. /\ pc = "open" /\ pc \in Busy /\ UNCHANGED <<text, mem>> /\ pc' = "list"
      /\ pos < Len(text) /\ text[pos + 1] = "("
      /\ Read("open", pos + 1, pos + 1, At(pos + 1), Unset)
  BY DEF OpenList, LInv, VInv, IInv, PosInv, AheadInv, Busy
<1>2. pos + 1 \in 1 .. Len(text) /\ pos + 1 \in Nat
  BY <1>1, VReady DEF LInv
<1>3. PlacedInv'
  <2>1. Placed([kind |-> "open", from |-> pos + 1, to |-> pos + 1,
                start |-> At(pos + 1), end |-> Unset])
    BY <1>2 DEF Placed, Given
  <2>. QED
    BY <1>1, <1>2, <2>1, PlacedRead
<1>. QED
  BY <1>1, <1>3 DEF SignInv

LEMMA LReadList == LInv /\ ReadList => SignInv' /\ PlacedInv'
<1>. SUFFICES ASSUME LInv, ReadList PROVE SignInv' /\ PlacedInv'
  OBVIOUS
<1>. DEFINE i == NextNonSpace
<1>1. /\ pc = "list" /\ pc \in Busy /\ UNCHANGED <<text, mem>>
  BY DEF ReadList, Busy
<1>2. /\ MemInv /\ Len(text) \in Nat /\ pos \in Nat /\ pos <= Len(text)
      /\ \A k \in 1 .. Len(text) : mem[k] = text[k]
      /\ mem[Len(text) + 1] = "nul"
  BY <1>1, VReady DEF LInv
<1>3. CASE Fail("EOFWhileScaningAList", i)
  BY <1>1, <1>3, LQuiet DEF Fail
<1>4. CASE mem[i] = ")" /\ pc' = Back(depth - 1) /\ Read("close", i, i, Unset, At(i))
  <2>1. i \in pos + 1 .. Len(text) + 1
    BY <1>2, NextNonSpaceFound
  <2>2. i \in 1 .. Len(text) /\ i \in Nat
    BY <1>2, <1>4, <2>1
  <2>. HIDE DEF i
  <2>4. PlacedInv'
    <3>1. Placed([kind |-> "close", from |-> i, to |-> i, start |-> Unset, end |-> At(i)])
      BY <2>2 DEF Placed, Given
    <3>. QED
      BY <1>1, <1>4, <2>2, <3>1, PlacedRead
  <2>. QED
    BY <1>4, <2>4 DEF SignInv, Back
<1>5. CASE ReadExpr(i)
  BY <1>1, <1>5, LReadExpr
<1>. QED
  BY <1>3, <1>4, <1>5 DEF ReadList

LEMMA LReadSymbol == LInv /\ ReadSymbol => SignInv' /\ PlacedInv'
<1>. SUFFICES ASSUME LInv, ReadSymbol PROVE SignInv' /\ PlacedInv'
  OBVIOUS
<1>1. /\ pc = "symbol" /\ pc \in Busy /\ UNCHANGED <<text, mem>>
      /\ pos < Len(text) /\ text[pos + 1] \notin Space
  BY DEF ReadSymbol, LInv, VInv, IInv, PosInv, AheadInv, Busy
<1>2. /\ MemInv /\ Len(text) \in Nat /\ pos \in Nat
      /\ \A k \in 1 .. Len(text) : mem[k] = text[k]
  BY <1>1, VReady DEF LInv
<1>3. pos + 1 \in 1 .. Len(text) /\ mem[pos + 1] = text[pos + 1]
  BY <1>1, <1>2
<1>4. CASE pc' # "negative" /\ out' = out
  BY <1>1, <1>4, LQuiet
<1>5. CASE mem[pos + 1] = "-" /\ pos' = pos + 1 /\ out' = out
  <2>1. PlacedInv'
    BY <1>1, <1>5, PlacedKept DEF LInv
  <2>. QED
    BY <1>1, <1>3, <1>5, <2>1 DEF SignInv
<1>6. CASE pc' = Back(depth) /\ Read("symbol", pos + 1, SymbolEnd, Unset, At(SymbolEnd))
  <2>. DEFINE e == SymbolEnd
  <2>1. e \in pos + 1 .. Len(text) /\ \A k \in pos + 2 .. e : mem[k] \in Identifier
    BY <1>1, <1>2, SymbolEndFound
  <2>. HIDE DEF e
  <2>2. e \in 1 .. Len(text) /\ e \in Nat /\ pos + 1 \in Nat
    BY <1>2, <2>1
  <2>4. PlacedInv'
    <3>1. Placed([kind |-> "symbol", from |-> pos + 1, to |-> e,
                  start |-> Unset, end |-> At(e)])
      BY <2>2 DEF Placed, Given
    <3>. QED
      BY <1>1, <1>6, <2>2, <3>1, PlacedRead DEF e
  <2>. QED
    BY <1>6, <2>4 DEF SignInv, Back
<1>. QED
  BY <1>4, <1>5, <1>6 DEF ReadSymbol, Fail

LEMMA LReadNumber == LInv /\ ReadNumber => SignInv' /\ PlacedInv'
<1>. SUFFICES ASSUME LInv, ReadNumber PROVE SignInv' /\ PlacedInv'
  OBVIOUS
<1>. DEFINE first == IF pc = "negative" THEN pos ELSE pos + 1
            e == NumberEnd
<1>1. /\ pc \in {"number", "negative"} /\ pc \in Busy /\ UNCHANGED <<text, mem>>
      /\ pos < Len(text) /\ mem[pos + 1] \in Digit
      /\ pc = "negative" => text[pos] = "-"
  BY DEF ReadNumber, LInv, VInv, IInv, PosInv, SignInv, Busy
<1>2. /\ MemInv /\ Len(text) \in Nat /\ pos \in Nat
      /\ \A k \in 1 .. Len(text) : mem[k] = text[k]
  BY <1>1, VReady DEF LInv
<1>3. CASE pc' = "error" /\ out' = out
  BY <1>1, <1>3, LQuiet
<1>4. CASE pc' = Back(depth) /\ Read("number", first, e, At(pos + 1), At(e))
  <2>1. e \in pos + 1 .. Len(text)
    BY <1>1, <1>2, NumberEndFound
  <2>2. first \in Nat /\ e \in Nat /\ pos + 1 \in 1 .. Len(text)
    BY <1>1, <1>2, <2>1
  <2>3. text[pos + 1] = "5"
    BY <1>1, <1>2, <2>2 DEF Digit
  <2>4. pos + 1 = IF text[first] = "-" THEN first + 1 ELSE first
    BY <1>1, <1>2, <2>3
  <2>. HIDE DEF first, e
  <2>5. PlacedInv'
    <3>1. e \in 1 .. Len(text)
      BY <1>2, <2>1
    <3>2. Placed([kind |-> "number", from |-> first, to |-> e,
                  start |-> At(pos + 1), end |-> At(e)])
      BY <2>2, <2>4, <3>1 DEF Placed, Given, Digits
    <3>. QED
      BY <1>1, <1>4, <2>2, <3>2, PlacedRead
  <2>. QED
    BY <1>4, <2>5 DEF SignInv, Back
<1>. QED
  BY <1>3, <1>4 DEF ReadNumber, Fail

LEMMA FreshLInv == Fresh => LInv
<1>. SUFFICES ASSUME Fresh PROVE LInv
  OBVIOUS
<1>1. VInv
  BY FreshVInv
<1>. QED
  BY <1>1 DEF LInv, SignInv, PlacedInv, Fresh

LEMMA LInvStep == LInv /\ [Next]_vars => LInv'
<1>. SUFFICES ASSUME LInv, [Next]_vars PROVE LInv'
  OBVIOUS
<1>1. VInv'
  BY VInvStep DEF LInv
<1>2. CASE UNCHANGED vars
  <2>1. PlacedInv'
    BY <1>2, PlacedKept DEF LInv, vars
  <2>. QED
    BY <1>1, <1>2, <2>1 DEF LInv, SignInv, vars
<1>3. CASE Next
  BY <1>1, <1>3, LReadTop, LOpenList, LReadList, LReadSymbol, LReadNumber
  DEF Next, LInv
<1>. QED
  BY <1>2, <1>3

LEMMA LInductive == Spec => [](Terminated => LInv)
<1>1. Init => (Terminated => LInv)
  BY InitFresh, FreshLInv
<1>2. (Terminated => LInv) /\ [Next]_vars => (Terminated => LInv)'
  BY LInvStep, TerminatedStays
<1>. QED
  BY <1>1, <1>2, PTL DEF Spec

\* What LInv says of the lines and columns of what was read.
LEMMA LocationsOf ==
    ASSUME LInv
    PROVE  LocationsAreRight
<1>1. MemInv /\ Len(text) \in Nat
  BY Memory DEF LInv, VInv, IInv
<1>. SUFFICES ASSUME NEW k \in DOMAIN out, NEW given \in Given(out[k])
     PROVE  /\ given[2].line = (1 + Count("\n", given[1] - 1)) % LocMod
            /\ \A j \in 0 .. Len(text) : LineBefore(j, given[1]) =>
                  given[2].col = (given[1] - j + (IF j = 0 THEN 1 ELSE 0)) % LocMod
  BY DEF LocationsAreRight
<1>. DEFINE i == given[1]
<1>2. i \in 1 .. Len(text) /\ given[2] = At(i)
  BY DEF LInv, PlacedInv, Placed
<1>. HIDE DEF i
<1>3. given[2].line = LocationAt[i].line /\ given[2].col = LocationAt[i].col
  BY <1>2 DEF At
<1>4. given[2].line = (1 + Count("\n", i - 1)) % LocMod
  BY <1>1, <1>2, <1>3, LineOfCharacter
<1>5. ASSUME NEW j \in 0 .. Len(text), LineBefore(j, i)
      PROVE  given[2].col = (i - j + (IF j = 0 THEN 1 ELSE 0)) % LocMod
  BY <1>1, <1>2, <1>3, <1>5, ColumnOfCharacter
<1>. QED
  BY <1>4, <1>5 DEF i

\* reader.cpp:126-150: whatever the text, and however often the fields of a
\* location overflow, lines are counted with the empty ones, and columns from
\* the start of the line.
THEOREM LocationsFollowText == Spec => []LocationsAreRight
<1>1. (Terminated => LInv) => LocationsAreRight
  <2>1. ~Terminated => LocationsAreRight
    BY DEF LocationsAreRight
  <2>. QED
    BY <2>1, LocationsOf
<1>. QED
  BY <1>1, LInductive, PTL

\* The three properties, of a reader in any state the invariant allows.
LEMMA ReaderSafe ==
    ASSUME Terminated => LInv
    PROVE  NothingDropped /\ VerdictIsRight /\ LocationsAreRight
<1>1. CASE ~Terminated
  BY <1>1 DEF NothingDropped, VerdictIsRight, LocationsAreRight
<1>2. CASE Terminated
  <2>1. LInv /\ VInv /\ IInv
    BY <1>2 DEF LInv, VInv
  <2>2. VerdictIsRight
    BY <2>1, VerdictOf DEF VerdictIsRight
  <2>3. LocationsAreRight
    BY <2>1, LocationsOf
  <2>. QED
    BY <2>1, <2>2, <2>3, NothingDroppedOf
<1>. QED
  BY <1>1, <1>2

-----------------------------------------------------------------------------
(* Types, of buffers without a terminator as well                          *)

\* Some terminator comes, behind the buffer at the latest, and the reader is
\* in front of it.
AnyMemInv ==
    /\ text \in Seq(Bytes) /\ Len(text) < Len(mem)
    /\ mem[Len(mem)] = "nul"
AnyPosInv ==
    /\ pc # "error" => pos < Len(mem)
    /\ pc \in {"open", "symbol"} => pos < Len(text)
    /\ pc \in {"number", "negative"} => pos + 1 < Len(mem) /\ mem[pos + 1] \in Digit
    /\ pc = "number" => pos < Len(text)
    /\ pc = "negative" => pos <= Len(text)
    /\ pc = "list" => depth > 0
TypeInv == TypeOK /\ AnyMemInv /\ AnyPosInv

Begun ==
    /\ text \in Texts /\ \E t \in Tails \cup {<<"nul">>} : mem = text \o t
    /\ pos = 0 /\ pc = "read" /\ depth = 0 /\ out = <<>> /\ err = "none"

LEMMA BegunTypeInv == Begun => TypeInv
<1>. SUFFICES ASSUME Begun PROVE TypeInv
  OBVIOUS
<1>1. PICK t \in Tails \cup {<<"nul">>} : mem = text \o t
  BY DEF Begun
<1>2. t \in Seq(Bytes) /\ t # <<>> /\ t[Len(t)] = "nul"
  BY ReaderAssumption DEF Bytes
<1>3. text \in Seq(Bytes) /\ text \in Texts
  BY ReaderAssumption DEF Begun
<1>4. Len(t) \in Nat /\ Len(t) > 0 /\ Len(text) \in Nat
  BY <1>2, <1>3
<1>5. /\ mem \in Seq(Bytes) /\ Len(mem) = Len(text) + Len(t)
      /\ mem[Len(text) + Len(t)] = t[Len(t)]
  BY <1>1, <1>2, <1>3, <1>4
<1>6. AnyMemInv
  BY <1>2, <1>3, <1>4, <1>5 DEF AnyMemInv
<1>7. AnyPosInv
  BY <1>4, <1>5 DEF Begun, AnyPosInv
<1>8. TypeOK
  BY <1>3, <1>5 DEF Begun, TypeOK
<1>. QED
  BY <1>6, <1>7, <1>8 DEF TypeInv

LEMMA AnyFacts ==
    ASSUME TypeInv, pc # "error"
    PROVE  /\ Len(text) \in Nat /\ Len(mem) \in Nat /\ pos \in Nat /\ depth \in Nat
           /\ pos < Len(mem) /\ Len(text) < Len(mem) /\ mem[Len(mem)] = "nul"
BY DEF TypeInv, TypeOK, AnyMemInv, AnyPosInv

LEMMA AnyNextNonSpace ==
    ASSUME TypeInv, pc # "error"
    PROVE  /\ NextNonSpace \in pos + 1 .. Len(mem)
           /\ \A k \in pos + 1 .. NextNonSpace - 1 : mem[k] \in Space
<1>. DEFINE T == {i \in pos + 1 .. Len(mem) : mem[i] \notin Space}
<1>0. Len(mem) \in Nat /\ pos \in Nat /\ pos < Len(mem) /\ mem[Len(mem)] \notin Space
  BY AnyFacts DEF Space
<1>1. Len(mem) \in T /\ T \subseteq Nat
  BY <1>0
<1>2. PICK i \in T : \A j \in T : i <= j
  BY <1>1, Least
<1>3. \A k \in pos + 1 .. i - 1 : mem[k] \in Space
  BY <1>0, <1>2
<1>. QED
  BY <1>2, <1>3 DEF NextNonSpace

LEMMA AnySymbolEnd ==
    ASSUME TypeInv, pc = "symbol"
    PROVE  SymbolEnd \in pos + 1 .. Len(text)
<1>. DEFINE Ends(e) == mem[e + 1] \notin Identifier \/ EndOfBuffer(e + 1, e)
            T == {e \in pos + 1 .. Len(mem) : Ends(e)}
<1>0. /\ Len(text) \in Nat /\ Len(mem) \in Nat /\ pos \in Nat
      /\ Len(text) < Len(mem) /\ pos < Len(text)
  BY AnyFacts DEF TypeInv, AnyPosInv
<1>1. Len(text) \in T /\ T \subseteq Nat
  BY <1>0 DEF EndOfBuffer
<1>2. PICK e \in T : \A j \in T : e <= j
  BY <1>1, Least
<1>3. ASSUME NEW k \in pos + 2 .. e
      PROVE  mem[k] \in Identifier /\ ~EndOfBuffer(k, k - 1)
  <2>1. k - 1 \in pos + 1 .. Len(mem) /\ (k - 1) + 1 = k /\ ~(e <= k - 1)
    BY <1>0, <1>1, <1>2
  <2>2. ~Ends(k - 1)
    BY <1>2, <2>1
  <2>. QED
    BY <2>1, <2>2
<1>4. /\ SymbolEnd \in pos + 1 .. Len(mem)
      /\ \A k \in pos + 2 .. SymbolEnd : ~EndOfBuffer(k, k - 1)
  BY <1>2, <1>3 DEF SymbolEnd
<1>5. CASE SymbolEnd = pos + 1
  BY <1>0, <1>5
<1>6. CASE SymbolEnd # pos + 1
  <2>1. SymbolEnd \in pos + 2 .. SymbolEnd
    BY <1>0, <1>4, <1>6
  <2>2. ~EndOfBuffer(SymbolEnd, SymbolEnd - 1)
    BY <1>4, <2>1
  <2>. QED
    BY <1>0, <1>4, <2>2 DEF EndOfBuffer
<1>. QED
  BY <1>5, <1>6

LEMMA AnyNumberEnd ==
    ASSUME TypeInv, pc \in {"number", "negative"}
    PROVE  /\ NumberEnd \in pos + 1 .. Len(mem) - 1
           /\ \A k \in pos + 1 .. NumberEnd : mem[k] \in NumberChar
<1>. DEFINE T == {e \in pos + 1 .. Len(mem) : mem[e + 1] \notin NumberChar}
<1>0. /\ Len(mem) \in Nat /\ pos \in Nat /\ pos + 1 < Len(mem)
      /\ mem[pos + 1] \in Digit /\ mem[Len(mem)] \notin NumberChar
  BY AnyFacts DEF TypeInv, AnyPosInv, NumberChar, Digit
<1>1. Len(mem) - 1 \in T /\ T \subseteq Nat
  BY <1>0
<1>2. PICK e \in T : \A j \in T : e <= j
  BY <1>1, Least
<1>3. ASSUME NEW k \in pos + 1 .. e PROVE mem[k] \in NumberChar
  <2>1. CASE k = pos + 1
    BY <1>0, <2>1 DEF NumberChar
  <2>2. CASE k # pos + 1
    <3>1. k - 1 \in pos + 1 .. Len(mem) /\ (k - 1) + 1 = k /\ ~(e <= k - 1)
      BY <1>0, <1>1, <1>2, <2>2
    <3>2. k - 1 \notin T
      BY <1>2, <3>1
    <3>. QED
      BY <3>1, <3>2
  <2>. QED
    BY <2>1, <2>2
<1>4. /\ NumberEnd \in pos + 1 .. Len(mem)
      /\ \A k \in pos + 1 .. NumberEnd : mem[k] \in NumberChar
  BY <1>2, <1>3 DEF NumberEnd
<1>. QED
  BY <1>0, <1>4

\* What an item is given are locations.
LEMMA TypedAt ==
    /\ \A p \in Nat : At(p) \in Location
    /\ Unset \in Location
BY LocationSteps DEF At, Unset, Location, Locations

\* Items are added one at a time.
LEMMA TypedRead ==
    ASSUME TypeInv, NEW kind \in {"open", "close", "symbol", "number"},
           NEW from \in Nat, NEW to \in Nat,
           NEW start \in Location, NEW end \in Location, Read(kind, from, to, start, end)
    PROVE  out' \in Seq(Item)
<1>. DEFINE item == [kind |-> kind, from |-> from, to |-> to, start |-> start, end |-> end]
<1>2. item \in Item
  BY DEF Item
<1>3. out \in Seq(Item) /\ out' = Append(out, item)
  BY DEF TypeInv, TypeOK, Read
<1>. HIDE DEF item
<1>. QED
  BY <1>2, <1>3

LEMMA TypedReadExpr ==
    ASSUME TypeInv, pc \in {"read", "list"},
           ReadExpr(NextNonSpace), UNCHANGED <<text, mem>>
    PROVE  TypeInv'
<1>. DEFINE i == NextNonSpace
<1>1. /\ i \in pos + 1 .. Len(mem)
      /\ Len(text) \in Nat /\ Len(mem) \in Nat /\ pos \in Nat /\ depth \in Nat
  BY AnyNextNonSpace, AnyFacts
<1>2. /\ pos' = i - 1 /\ UNCHANGED <<text, mem, depth, out, err>>
      /\ pc' \in {"done", "list", "open", "symbol"}
      /\ pc' = "list" => depth # 0
      /\ pc' \in {"open", "symbol"} => ~(i - 1 + 1 > Len(text))
  BY DEF ReadExpr, EndOfBuffer
<1>. HIDE DEF i
<1>3. i - 1 \in Nat /\ i - 1 < Len(mem) /\ i - 1 + 1 = i
  BY <1>1
<1>4. TypeOK'
  BY <1>2, <1>3 DEF TypeInv, TypeOK
<1>5. AnyMemInv'
  BY <1>2 DEF TypeInv, AnyMemInv
<1>6. AnyPosInv'
  BY <1>1, <1>2, <1>3 DEF AnyPosInv
<1>. QED
  BY <1>4, <1>5, <1>6 DEF TypeInv

\* An error is returned, with the pointer where it was found.
LEMMA TypedFail ==
    ASSUME TypeInv, UNCHANGED <<text, mem>>, NEW p \in Nat,
           NEW e \in {"EOFWhileScaningAList", "InvalidCharacterForSymbol",
                      "InvalidDigitForNumber", "TwoFloatPoints"},
           Fail(e, p)
    PROVE  TypeInv'
<1>1. /\ pc' = "error" /\ err' = e /\ pos' = p
      /\ UNCHANGED <<text, mem, depth, out>>
  BY DEF Fail
<1>2. TypeOK'
  BY <1>1 DEF TypeInv, TypeOK
<1>3. AnyMemInv' /\ AnyPosInv'
  BY <1>1 DEF TypeInv, AnyMemInv, AnyPosInv
<1>. QED
  BY <1>2, <1>3 DEF TypeInv

\* Something has been read: the reader is behind it.
LEMMA TypedItem ==
    ASSUME TypeInv, UNCHANGED <<text, mem, err>>, out' \in Seq(Item),
           pos' \in Nat, pos' < Len(mem), depth' \in Nat,
           pc' \in {"read", "list"}, pc' = "list" => depth' > 0
    PROVE  TypeInv'
<1>1. TypeOK'
  BY DEF TypeInv, TypeOK
<1>2. AnyMemInv' /\ AnyPosInv'
  BY DEF TypeInv, AnyMemInv, AnyPosInv
<1>. QED
  BY <1>1, <1>2 DEF TypeInv

LEMMA TypedStep == TypeInv /\ [Next]_vars => TypeInv'
<1>. SUFFICES ASSUME TypeInv, [Next]_vars PROVE TypeInv'
  OBVIOUS
<1>1. CASE UNCHANGED vars
  <2>1. TypeOK'
    BY <1>1 DEF vars, TypeInv, TypeOK
  <2>. QED
    BY <1>1, <2>1 DEF vars, TypeInv, AnyMemInv, AnyPosInv
<1>2. ASSUME ReadTop PROVE TypeInv'
  <2>1. CASE ReadExpr(NextNonSpace)
    BY <1>2, <2>1, TypedReadExpr DEF ReadTop
  <2>2. CASE pc' = "done" /\ UNCHANGED <<pos, depth, out, err>>
    <3>1. UNCHANGED <<text, mem>>
      BY <1>2 DEF ReadTop
    <3>2. TypeOK'
      BY <2>2, <3>1 DEF TypeInv, TypeOK
    <3>3. pos < Len(mem)
      BY <1>2, AnyFacts DEF ReadTop
    <3>. QED
      BY <2>2, <3>1, <3>2, <3>3 DEF TypeInv, AnyMemInv, AnyPosInv
  <2>. QED
    BY <1>2, <2>1, <2>2 DEF ReadTop
<1>3. ASSUME OpenList PROVE TypeInv'
  <2>1. /\ pc = "open" /\ pos' = pos + 1 /\ depth' = depth + 1 /\ pc' = "list"
        /\ UNCHANGED <<text, mem, err>>
    BY <1>3 DEF OpenList
  <2>2. /\ Len(text) \in Nat /\ Len(mem) \in Nat /\ pos \in Nat /\ depth \in Nat
        /\ pos < Len(text) /\ Len(text) < Len(mem)
    BY <2>1, AnyFacts DEF TypeInv, AnyPosInv
  <2>3. out' \in Seq(Item)
    BY <1>3, <2>2, TypedRead, TypedAt DEF OpenList
  <2>4. pos' \in Nat /\ pos' < Len(mem) /\ depth' \in Nat /\ depth' > 0
    BY <2>1, <2>2
  <2>. QED
    BY <2>1, <2>3, <2>4, TypedItem
<1>4. ASSUME ReadList PROVE TypeInv'
  <2>. DEFINE i == NextNonSpace
  <2>1. pc = "list" /\ UNCHANGED <<text, mem>>
    BY <1>4 DEF ReadList
  <2>2. /\ Len(text) \in Nat /\ Len(mem) \in Nat /\ pos \in Nat /\ depth \in Nat
        /\ depth > 0 /\ mem[Len(mem)] = "nul"
    BY <2>1, AnyFacts DEF TypeInv, AnyPosInv
  <2>3. i \in pos + 1 .. Len(mem)
    BY <2>1, AnyNextNonSpace
  <2>4. CASE Fail("EOFWhileScaningAList", i)
    <3>1. i \in Nat
      BY <2>2, <2>3
    <3>. QED
      BY <2>1, <2>4, <3>1, TypedFail
  <2>5. CASE mem[i] = ")" /\ pos' = i /\ depth' = depth - 1
             /\ pc' = Back(depth - 1) /\ Read("close", i, i, Unset, At(i)) /\ UNCHANGED err
    <3>. HIDE DEF i
    <3>1. i \in Nat /\ i < Len(mem)
      BY <2>2, <2>3, <2>5
    <3>2. out' \in Seq(Item)
      BY <2>5, <3>1, TypedRead, TypedAt
    <3>3. depth' \in Nat /\ pc' \in {"read", "list"} /\ (pc' = "list" => depth' > 0)
      BY <2>2, <2>5 DEF Back
    <3>. QED
      BY <2>1, <2>5, <3>1, <3>2, <3>3, TypedItem
  <2>6. CASE ReadExpr(i)
    BY <2>1, <2>6, TypedReadExpr
  <2>. QED
    BY <1>4, <2>4, <2>5, <2>6 DEF ReadList
<1>5. ASSUME ReadSymbol PROVE TypeInv'
  <2>1. pc = "symbol" /\ UNCHANGED <<text, mem>>
    BY <1>5 DEF ReadSymbol
  <2>2. /\ Len(text) \in Nat /\ Len(mem) \in Nat /\ pos \in Nat /\ depth \in Nat
        /\ pos < Len(text) /\ Len(text) < Len(mem) /\ mem[Len(mem)] = "nul"
        /\ pos + 1 \in Nat
    BY <2>1, AnyFacts DEF TypeInv, AnyPosInv
  <2>3. CASE Fail("InvalidCharacterForSymbol", pos + 1)
    BY <2>1, <2>2, <2>3, TypedFail
  <2>4. CASE /\ UNCHANGED <<depth, out, err>>
             /\ \/ pc' = "number" /\ pos' = pos /\ mem[pos + 1] \in Digit
                \/ pc' = "negative" /\ pos' = pos + 1 /\ mem[pos + 2] \in Digit
    <3>1. TypeOK'
      BY <2>1, <2>2, <2>4 DEF TypeInv, TypeOK
    <3>2. AnyMemInv'
      BY <2>1 DEF TypeInv, AnyMemInv
    <3>3. AnyPosInv'
      <4>1. CASE pc' = "number" /\ pos' = pos /\ mem[pos + 1] \in Digit
        BY <2>1, <2>2, <4>1 DEF AnyPosInv
      <4>2. CASE pc' = "negative" /\ pos' = pos + 1 /\ mem[pos + 2] \in Digit
        <5>1. pos + 2 # Len(mem) /\ (pos + 1) + 1 = pos + 2
          BY <2>2, <4>2 DEF Digit
        <5>. QED
          BY <2>1, <2>2, <4>2, <5>1 DEF AnyPosInv
      <4>. QED
        BY <2>4, <4>1, <4>2
    <3>. QED
      BY <3>1, <3>2, <3>3 DEF TypeInv
  <2>5. CASE pos' = SymbolEnd /\ pc' = Back(depth) /\ UNCHANGED <<depth, err>>
             /\ Read("symbol", pos + 1, SymbolEnd, Unset, At(SymbolEnd))
    <3>1. SymbolEnd \in Nat /\ SymbolEnd < Len(mem)
      BY <2>1, <2>2, AnySymbolEnd
    <3>2. out' \in Seq(Item)
      BY <2>2, <2>5, <3>1, TypedRead, TypedAt
    <3>3. depth' \in Nat /\ pc' \in {"read", "list"} /\ (pc' = "list" => depth' > 0)
      BY <2>2, <2>5 DEF Back
    <3>. QED
      BY <2>1, <2>5, <3>1, <3>2, <3>3, TypedItem
  <2>. QED
    BY <1>5, <2>3, <2>4, <2>5 DEF ReadSymbol
<1>6. ASSUME ReadNumber PROVE TypeInv'
  <2>. DEFINE e == NumberEnd
              first == IF pc = "negative" THEN pos ELSE pos + 1
  <2>1. pc \in {"number", "negative"} /\ UNCHANGED <<text, mem>>
    BY <1>6 DEF ReadNumber
  <2>2. Len(mem) \in Nat /\ pos \in Nat /\ depth \in Nat
    BY <2>1, AnyFacts
  <2>3. e \in pos + 1 .. Len(mem) - 1
    BY <2>1, AnyNumberEnd
  <2>4. e \in Nat /\ e < Len(mem) /\ first \in Nat /\ pos + 1 \in Nat /\ e + 1 \in Nat
    BY <2>2, <2>3
  <2>5. CASE \E k \in ExtraPoints(e) : Fail("TwoFloatPoints", k - 1)
    <3>1. PICK k \in ExtraPoints(e) : Fail("TwoFloatPoints", k - 1)
      BY <2>5
    <3>2. k - 1 \in Nat
      BY <2>2, <3>1 DEF ExtraPoints
    <3>. QED
      BY <2>1, <3>1, <3>2, TypedFail
  <2>6. CASE Fail("InvalidDigitForNumber", e + 1)
    BY <2>1, <2>4, <2>6, TypedFail
  <2>7. CASE pos' = e /\ pc' = Back(depth) /\ Read("number", first, e, At(pos + 1), At(e))
             /\ UNCHANGED <<depth, err>>
    <3>. HIDE DEF e, first
    <3>1. out' \in Seq(Item)
      BY <2>4, <2>7, TypedRead, TypedAt
    <3>2. depth' \in Nat /\ pc' \in {"read", "list"} /\ (pc' = "list" => depth' > 0)
      BY <2>2, <2>7 DEF Back
    <3>. QED
      BY <2>1, <2>4, <2>7, <3>1, <3>2, TypedItem
  <2>. QED
    BY <1>6, <2>5, <2>6, <2>7 DEF ReadNumber
<1>. QED
  BY <1>1, <1>2, <1>3, <1>4, <1>5, <1>6 DEF Next

\* The state of the reader has its type, whether or not a terminator is right
\* behind the buffer.
THEOREM ReaderTypeCorrect == Spec => []TypeOK
<1>1. Init => TypeInv
  BY BegunTypeInv DEF Init, Begun
<1>2. TypeInv => TypeOK
  BY DEF TypeInv
<1>. QED
  BY <1>1, <1>2, TypedStep, PTL DEF Spec

-----------------------------------------------------------------------------
(* Buffers without a terminator                                            *)

\* What was read before stays as it was, and the item added is a known overrun
\* if it is one.
LEMMA KnownRead ==
    ASSUME TypeInv, OverrunsAreKnown, UNCHANGED <<text, mem>>,
           NEW kind, NEW from \in Nat, NEW to \in Nat, NEW start, NEW end,
           Read(kind, from, to, start, end),
           to > Len(text) => RunsOver([kind |-> kind, from |-> from, to |-> to,
                                       start |-> start, end |-> end])
    PROVE  OverrunsAreKnown'
<1>. DEFINE item == [kind |-> kind, from |-> from, to |-> to, start |-> start, end |-> end]
            R == {out[k] : k \in DOMAIN out}
<1>1. out \in Seq(Item) /\ Len(out) \in Nat /\ DOMAIN out = 1 .. Len(out)
  BY DEF TypeInv, TypeOK
<1>2. out' = Append(out, item)
  BY DEF Read
<1>3. item.to > Len(text) => RunsOver(item)
  OBVIOUS
<1>4. /\ DOMAIN out' = 1 .. Len(out) + 1 /\ out'[Len(out) + 1] = item
      /\ \A k \in 1 .. Len(out) : out'[k] = out[k]
  <2>. HIDE DEF item
  <2>1. out \in Seq(Item \cup {item})
    BY <1>1
  <2>. QED
    BY <1>1, <1>2, <2>1
<1>. HIDE DEF item
<1>5. \A k \in DOMAIN out' : out'[k].to > Len(text) => RunsOver(out'[k])
  BY <1>1, <1>3, <1>4 DEF OverrunsAreKnown
<1>. QED
  BY <1>5 DEF OverrunsAreKnown, RunsOver

\* A step that reads nothing.
LEMMA KnownKept ==
    ASSUME OverrunsAreKnown, UNCHANGED <<text, mem, out>>
    PROVE  OverrunsAreKnown'
BY DEF OverrunsAreKnown, RunsOver

LEMMA KnownStep == TypeInv /\ OverrunsAreKnown /\ [Next]_vars => OverrunsAreKnown'
<1>. SUFFICES ASSUME TypeInv, OverrunsAreKnown, [Next]_vars PROVE OverrunsAreKnown'
  OBVIOUS
<1>1. CASE UNCHANGED <<text, mem, out>>
  BY <1>1, KnownKept
<1>2. ASSUME OpenList PROVE OverrunsAreKnown'
  <2>1. /\ pos \in Nat /\ Len(text) \in Nat /\ pos < Len(text)
        /\ UNCHANGED <<text, mem>>
        /\ Read("open", pos + 1, pos + 1, At(pos + 1), Unset)
    BY <1>2, AnyFacts DEF OpenList, TypeInv, AnyPosInv
  <2>2. pos + 1 \in Nat /\ ~(pos + 1 > Len(text))
    BY <2>1
  <2>. QED
    BY <2>1, <2>2, KnownRead
<1>3. ASSUME ReadList PROVE OverrunsAreKnown'
  <2>. DEFINE i == NextNonSpace
  <2>1. pc = "list" /\ UNCHANGED <<text, mem>>
    BY <1>3 DEF ReadList
  <2>2. CASE out' = out
    BY <2>1, <2>2, KnownKept
  <2>3. CASE ~EndOfBuffer(i, pos) /\ Read("close", i, i, Unset, At(i))
    <3>1. /\ Len(text) \in Nat /\ Len(mem) \in Nat /\ pos \in Nat
          /\ i \in pos + 1 .. Len(mem)
          /\ \A k \in pos + 1 .. i - 1 : mem[k] \in Space
      BY <2>1, AnyFacts, AnyNextNonSpace
    <3>2. pos + 1 <= Len(text)
      BY <2>3, <3>1 DEF EndOfBuffer
    <3>. HIDE DEF i
    <3>3. i \in Nat /\ \A k \in Len(text) .. i - 1 : mem[k] \in Space
      BY <3>1, <3>2
    <3>4. RunsOver([kind |-> "close", from |-> i, to |-> i, start |-> Unset, end |-> At(i)])
      BY <3>3 DEF RunsOver
    <3>. QED
      BY <2>1, <2>3, <3>3, <3>4, KnownRead
  <2>. QED
    BY <1>3, <2>2, <2>3 DEF ReadList, ReadExpr, Fail
<1>4. ASSUME ReadSymbol PROVE OverrunsAreKnown'
  <2>1. pc = "symbol" /\ UNCHANGED <<text, mem>>
    BY <1>4 DEF ReadSymbol
  <2>2. CASE out' = out
    BY <2>1, <2>2, KnownKept
  <2>3. CASE Read("symbol", pos + 1, SymbolEnd, Unset, At(SymbolEnd))
    <3>1. Len(text) \in Nat /\ pos \in Nat /\ SymbolEnd \in pos + 1 .. Len(text)
      BY <2>1, AnyFacts, AnySymbolEnd
    <3>2. SymbolEnd \in Nat /\ pos + 1 \in Nat /\ ~(SymbolEnd > Len(text))
      BY <3>1
    <3>. QED
      BY <2>1, <2>3, <3>2, KnownRead
  <2>. QED
    BY <1>4, <2>2, <2>3 DEF ReadSymbol, Fail
<1>5. ASSUME ReadNumber PROVE OverrunsAreKnown'
  <2>. DEFINE e == NumberEnd
              first == IF pc = "negative" THEN pos ELSE pos + 1
  <2>1. pc \in {"number", "negative"} /\ UNCHANGED <<text, mem>>
    BY <1>5 DEF ReadNumber
  <2>2. CASE out' = out
    BY <2>1, <2>2, KnownKept
  <2>3. CASE Read("number", first, e, At(pos + 1), At(e))
    <3>1. /\ Len(text) \in Nat /\ Len(mem) \in Nat /\ pos \in Nat
          /\ e \in pos + 1 .. Len(mem) - 1
          /\ \A k \in pos + 1 .. e : mem[k] \in NumberChar
          /\ pos <= Len(text) /\ (pc = "number" => pos < Len(text))
      BY <2>1, AnyFacts, AnyNumberEnd DEF TypeInv, AnyPosInv
    <3>2. first \in Nat /\ first <= Len(text)
      BY <2>1, <3>1
    <3>. HIDE DEF e, first
    <3>3. e \in Nat /\ \A k \in Len(text) + 1 .. e : mem[k] \in NumberChar
      BY <3>1
    <3>4. RunsOver([kind |-> "number", from |-> first, to |-> e,
                    start |-> At(pos + 1), end |-> At(e)])
      BY <3>2, <3>3 DEF RunsOver
    <3>. QED
      BY <2>1, <2>3, <3>2, <3>3, <3>4, KnownRead
  <2>. QED
    BY <1>5, <2>2, <2>3 DEF ReadNumber, Fail
<1>6. ASSUME ReadTop PROVE UNCHANGED <<text, mem, out>>
  BY <1>6 DEF ReadTop, ReadExpr
<1>. QED
  BY <1>1, <1>2, <1>3, <1>4, <1>5, <1>6 DEF Next, vars

\* reader.cpp:182-184, 238-252: whatever lies behind a buffer, nothing that is
\* read ends outside it but a number that began in it, and a parenthesis that
\* closes a list after spaces.
THEOREM NoOtherOverrun == Spec => []OverrunsAreKnown
<1>1. Init => TypeInv /\ OverrunsAreKnown
  <2>1. Init => TypeInv
    BY BegunTypeInv DEF Init, Begun
  <2>2. Init => OverrunsAreKnown
    BY DEF Init, OverrunsAreKnown
  <2>. QED
    BY <2>1, <2>2
<1>. QED
  BY <1>1, TypedStep, KnownStep, PTL DEF Spec

-----------------------------------------------------------------------------
(* The cache of line endings                                               *)

\* f has the new lines of more and more of a text.
Records(f, t) ==
    /\ f[0] = <<>>
    /\ \A n \in Nat : f[n + 1] =
          f[n] \o IF t[n + 1] = "\n" THEN <<n % Width(t)>> ELSE <<>>

LEMMA NewLinesSteps ==
    ASSUME NEW t
    PROVE  \E f : Records(f, t) /\ NewLines(t) = f[Len(t)]
<1>. DEFINE V == {n % Width(t) : n \in Nat}
            More(n) == IF t[n] = "\n" THEN <<(n - 1) % Width(t)>> ELSE <<>>
            S == [x \in Nat \X Seq(V) |->
                       IF x[1] = 0 THEN <<>> ELSE x[2] \o More(x[1])]
            Def(f) == f = [n \in Nat |->
                IF n = 0 THEN <<>>
                ELSE f[n - 1] \o
                        IF t[n] = "\n" THEN <<(n - 1) % Width(t)>> ELSE <<>>]
<1>1. ASSUME NEW n \in Nat, n # 0 PROVE More(n) \in Seq(V)
  <2>1. n - 1 \in Nat
    BY <1>1
  <2>2. (n - 1) % Width(t) \in V
    BY <2>1
  <2>. HIDE DEF V
  <2>. QED
    BY <2>2
<1>. HIDE DEF V, More
<1>2. S \in [Nat \X Seq(V) -> Seq(V)]
  <2>1. ASSUME NEW n \in Nat, NEW s \in Seq(V), n # 0 PROVE s \o More(n) \in Seq(V)
    BY <1>1, <2>1
  <2>. QED
    BY <2>1
<1>3. PICK g \in [Nat -> Seq(V)] : Recurses(g, <<>>, S)
  <2>1. <<>> \in Seq(V)
    OBVIOUS
  <2>. HIDE DEF S
  <2>. QED
    BY <1>2, <2>1, Recursion
<1>4. Def(g)
  <2>1. ASSUME NEW n \in Nat, n # 0 PROVE g[n] = g[n - 1] \o More(n)
    <3>1. n - 1 \in Nat /\ (n - 1) + 1 = n
      BY <2>1
    <3>2. g[n] = S[<<n, g[n - 1]>>]
      BY <1>3, <3>1 DEF Recurses
    <3>3. g[n - 1] \in Seq(V)
      BY <3>1
    <3>. QED
      BY <2>1, <3>2, <3>3
  <2>2. g[0] = <<>>
    BY <1>3 DEF Recurses
  <2>. QED
    BY <2>1, <2>2 DEF More
<1>. DEFINE f == CHOOSE h : Def(h)
<1>5. Def(f)
  <2>. HIDE DEF Def
  <2>. QED
    BY <1>4
<1>6. NewLines(t) = f[Len(t)]
  BY DEF NewLines
<1>. HIDE DEF f
<1>7. f[0] = <<>>
  BY <1>5
<1>8. ASSUME NEW n \in Nat
      PROVE  f[n + 1] = f[n] \o IF t[n + 1] = "\n" THEN <<n % Width(t)>> ELSE <<>>
  <2>1. n + 1 \in Nat /\ n + 1 # 0 /\ (n + 1) - 1 = n
    OBVIOUS
  <2>. QED
    BY <1>5, <2>1
<1>. QED
  BY <1>6, <1>7, <1>8 DEF Records

\* The narrowest type with room for a text has room for each place in it.
LEMMA WidthFits ==
    ASSUME NEW t \in Contents
    PROVE  /\ t \in Seq(Bytes) /\ Len(t) \in Nat
           /\ Width(t) \in Nat /\ Len(t) < Width(t)
<1>. DEFINE D == DOMAIN Widths
            T == {Widths[k] : k \in {m \in D : Len(t) < Widths[m]}}
<1>0. /\ Contents \subseteq Texts /\ Texts \subseteq Seq(Bytes)
      /\ Widths \in Seq(Nat) /\ Widths # <<>> /\ Len(t) < Widths[Len(Widths)]
  BY ReaderAssumption, SourceMgrAssumption, Zenon
<1>1. t \in Seq(Bytes) /\ Len(t) \in Nat
  BY <1>0
<1>2. /\ D = 1 .. Len(Widths) /\ Len(Widths) \in D /\ \A k \in D : Widths[k] \in Nat
      /\ Len(t) < Widths[Len(Widths)]
  BY <1>0
<1>3. T \subseteq Nat /\ T # {}
  BY <1>2
<1>4. PICK w \in T : \A x \in T : w <= x
  BY <1>3, Least
<1>5. PICK k \in D : w = Widths[k] /\ Len(t) < Widths[k]
  OBVIOUS
<1>6. \A m \in D : Len(t) < Widths[m] => w <= Widths[m]
  BY <1>4
<1>7. Width(t) \in {Widths[m] : m \in D} /\ Len(t) < Width(t)
  BY <1>5, <1>6 DEF Width
<1>. QED
  BY <1>1, <1>2, <1>7

\* Where the new lines of a text are, in order: each is where as many have
\* been seen as its number says.
NewLinesOf(offsets, t, n) ==
    /\ offsets \in Seq(Nat) /\ Len(offsets) = Tally(t, "\n", n)
    /\ \A k \in 1 .. Len(offsets) :
          /\ offsets[k] + 1 \in 1 .. n /\ t[offsets[k] + 1] = "\n"
          /\ Tally(t, "\n", offsets[k] + 1) = k

LEMMA NewLinesRight ==
    ASSUME NEW t \in Contents
    PROVE  NewLinesOf(NewLines(t), t, Len(t))
<1>1. PICK f : Records(f, t) /\ NewLines(t) = f[Len(t)]
  BY NewLinesSteps
<1>2. /\ t \in Seq(Bytes) /\ Len(t) \in Nat
      /\ Width(t) \in Nat /\ Len(t) < Width(t)
  BY WidthFits
<1>. DEFINE T == {n \in 0 .. Len(t) : ~NewLinesOf(f[n], t, n)}
<1>3. T = {}
  <2>. SUFFICES ASSUME T # {} PROVE FALSE
    OBVIOUS
  <2>1. T \subseteq Nat
    OBVIOUS
  <2>2. PICK n \in T : \A y \in T : n <= y
    BY <2>1, Least
  <2>3. n \in 0 .. Len(t) /\ ~NewLinesOf(f[n], t, n)
    OBVIOUS
  <2>4. CASE n = 0
    <3>1. f[0] = <<>> /\ Tally(t, "\n", 0) = 0
      BY <1>1, <1>2, TallyNone DEF Records
    <3>. QED
      BY <2>3, <2>4, <3>1 DEF NewLinesOf
  <2>5. CASE n # 0
    <3>. DEFINE m == n - 1
    <3>1. m \in Nat /\ m + 1 = n /\ m \in 0 .. Len(t) /\ ~(n <= m) /\ m < Len(t)
      BY <1>2, <2>3, <2>5
    <3>2. NewLinesOf(f[m], t, m)
      BY <2>2, <3>1
    <3>. DEFINE s == f[m]
    <3>3. /\ s \in Seq(Nat) /\ Len(s) = Tally(t, "\n", m)
          /\ \A k \in 1 .. Len(s) : /\ s[k] + 1 \in 1 .. m /\ t[s[k] + 1] = "\n"
                                    /\ Tally(t, "\n", s[k] + 1) = k
      BY <3>2 DEF NewLinesOf
    <3>4. f[n] = s \o IF t[n] = "\n" THEN <<m % Width(t)>> ELSE <<>>
      BY <1>1, <3>1 DEF Records
    <3>5. Tally(t, "\n", n) = IF t[n] = "\n" THEN Len(s) + 1 ELSE Len(s)
      BY <1>2, <3>1, <3>3, TallyNext
    <3>6. m % Width(t) = m
      BY <1>2, <3>1
    <3>. HIDE DEF m, s
    <3>7. CASE t[n] = "\n"
      <4>. DEFINE r == Append(s, m)
      <4>1. f[n] = r
        BY <3>1, <3>3, <3>4, <3>6, <3>7
      <4>2. /\ r \in Seq(Nat) /\ Len(r) = Len(s) + 1 /\ Len(s) \in Nat /\ r[Len(s) + 1] = m
            /\ \A k \in 1 .. Len(s) : r[k] = s[k]
        BY <3>1, <3>3
      <4>. HIDE DEF r
      <4>3. ASSUME NEW k \in 1 .. Len(r)
            PROVE  /\ r[k] + 1 \in 1 .. n /\ t[r[k] + 1] = "\n"
                   /\ Tally(t, "\n", r[k] + 1) = k
        <5>1. CASE k \in 1 .. Len(s)
          <6>1. r[k] = s[k]
            BY <4>2, <5>1
          <6>. QED
            BY <3>1, <3>3, <5>1, <6>1
        <5>2. CASE k = Len(s) + 1
          BY <3>1, <3>5, <3>7, <4>2, <5>2
        <5>. QED
          BY <4>2, <5>1, <5>2
      <4>. QED
        BY <2>3, <3>5, <3>7, <4>1, <4>2, <4>3 DEF NewLinesOf
    <3>8. CASE t[n] # "\n"
      <4>1. f[n] = s
        BY <3>3, <3>4, <3>8
      <4>2. \A k \in 1 .. Len(s) : s[k] + 1 \in 1 .. n
        BY <3>1, <3>3
      <4>. QED
        BY <2>3, <3>3, <3>5, <3>8, <4>1, <4>2 DEF NewLinesOf
    <3>. QED
      BY <3>7, <3>8
  <2>. QED
    BY <2>4, <2>5
<1>. QED
  BY <1>1, <1>2, <1>3

-----------------------------------------------------------------------------
(* Where lines start                                                       *)

Filled(t) == [is |-> "filled", offsets |-> NewLines(t)]
Buffers == UNION {{[text |-> t, cache |-> Null], [text |-> t, cache |-> Filled(t)]} :
                     t \in Contents}

\* A buffer that has no cache yet is given the one it would have.
LEMMA CacheOf ==
    ASSUME NEW b \in Buffers
    PROVE  /\ b.text \in Contents /\ b.cache \in {Null, Filled(b.text)}
           /\ b.cache # Freed
           /\ GetOrCreateOffsetCache(b) = Filled(b.text)
           /\ b = [text |-> b.text, cache |-> b.cache]
<1>1. PICK t \in Contents :
         b \in {[text |-> t, cache |-> Null], [text |-> t, cache |-> Filled(t)]}
  BY DEF Buffers
<1>2. b.text = t /\ b.cache \in {Null, Filled(t)} /\ b = [text |-> t, cache |-> b.cache]
  BY <1>1
<1>3. Null # Freed /\ Filled(t) # Freed /\ Filled(t) # Null
  BY DEF Null, Freed, Filled
<1>4. GetOrCreateOffsetCache(b) = Filled(t)
  BY <1>2, <1>3 DEF GetOrCreateOffsetCache, Filled
<1>. QED
  BY <1>2, <1>3, <1>4

\* The three answers of getPointerForLineNumber.
LEMMA PointerCases ==
    ASSUME NEW b \in Buffers, NEW n \in Nat
    PROVE  LET s == NewLines(b.text)
           IN  /\ n = 0 => Pointer(b, n + 1) = 1
               /\ n > 0 /\ n > Len(s) => Pointer(b, n + 1) = 0
               /\ n > 0 /\ ~(n > Len(s)) => Pointer(b, n + 1) = s[n] + 2
<1>1. GetOrCreateOffsetCache(b).offsets = NewLines(b.text)
  BY CacheOf DEF Filled
<1>2. n + 1 # 0 /\ n + 1 - 1 = n
  OBVIOUS
<1>. QED
  BY <1>1, <1>2 DEF Pointer

\* Only the first character starts the first line, and the character behind
\* its last new line another one.
LEMMA PointerRight ==
    ASSUME NEW b \in Buffers, NEW lineNo \in 1 .. Len(b.text) + 2
    PROVE  LET t == b.text
               before(i) == Cardinality({k \in 1 .. i - 1 : t[k] = "\n"})
               starts == {i \in 1 .. Len(t) + 1 :
                             /\ before(i) = lineNo - 1
                             /\ i > 1 => t[i - 1] = "\n"}
           IN  Pointer(b, lineNo) = IF starts = {} THEN 0 ELSE CHOOSE i \in starts : TRUE
<1>. DEFINE t == b.text
            n == lineNo - 1
            C(i) == Tally(t, "\n", i)
            s == NewLines(t)
            before(i) == Cardinality({k \in 1 .. i - 1 : t[k] = "\n"})
            starts == {i \in 1 .. Len(t) + 1 :
                          before(i) = n /\ (i > 1 => t[i - 1] = "\n")}
<1>1. t \in Contents /\ t \in Seq(Bytes) /\ Len(t) \in Nat
  BY CacheOf, WidthFits
<1>2. n \in Nat /\ n + 1 = lineNo
  BY <1>1
<1>3. /\ n = 0 => Pointer(b, lineNo) = 1
      /\ n > 0 /\ n > Len(s) => Pointer(b, lineNo) = 0
      /\ n > 0 /\ ~(n > Len(s)) => Pointer(b, lineNo) = s[n] + 2
  <2>. HIDE DEF n
  <2>. QED
    BY <1>2, PointerCases
<1>4. ASSUME NEW i \in 1 .. Len(t) + 1 PROVE before(i) = C(i - 1)
  <2>1. {k \in 1 .. i - 1 : t[k] = "\n"} = {k \in 1 .. i - 1 : k <= Len(t) /\ t[k] = "\n"}
    BY <1>1
  <2>. QED
    BY <2>1 DEF Tally
<1>5. /\ s \in Seq(Nat) /\ Len(s) = C(Len(t)) /\ Len(s) \in Nat
      /\ \A k \in 1 .. Len(s) : /\ s[k] + 1 \in 1 .. Len(t) /\ t[s[k] + 1] = "\n"
                                /\ C(s[k] + 1) = k /\ s[k] \in Nat
  BY <1>1, NewLinesRight DEF NewLinesOf
<1>6. \A i \in Nat : C(i) \in Nat
  BY <1>1, TallyFacts
<1>7. \A i \in 0 .. Len(t) : i > 0 /\ t[i] = "\n" => C(i) = C(i - 1) + 1
  <2>. SUFFICES ASSUME NEW i \in 0 .. Len(t), i > 0, t[i] = "\n"
                PROVE  C(i) = C(i - 1) + 1
    OBVIOUS
  <2>1. i - 1 \in Nat /\ (i - 1) + 1 = i /\ i - 1 < Len(t)
    BY <1>1
  <2>. QED
    BY <1>1, <2>1, TallyNext
<1>8. \A i, j \in Nat : i <= j => C(i) <= C(j)
  BY <1>1, TallyGrows
<1>9. \A i : i \in starts <=> /\ i \in 1 .. Len(t) + 1 /\ C(i - 1) = n
                              /\ i > 1 => t[i - 1] = "\n"
  BY <1>4
<1>10. C(0) = 0
  BY <1>1, TallyNone
<1>. HIDE DEF t, n, C, s, starts
<1>11. CASE n = 0
  <2>1. 1 \in starts
    BY <1>1, <1>9, <1>10, <1>11
  <2>2. ASSUME NEW i \in starts PROVE i = 1
    <3>. SUFFICES ASSUME i > 1 PROVE FALSE
      BY <1>1, <1>9
    <3>1. i - 1 \in 0 .. Len(t) /\ i - 1 > 0 /\ t[i - 1] = "\n" /\ C(i - 1) = 0
      BY <1>1, <1>9, <1>11
    <3>2. C(i - 1) = C(i - 1 - 1) + 1 /\ i - 1 - 1 \in Nat
      BY <1>1, <1>7, <3>1
    <3>. QED
      BY <1>6, <3>1, <3>2
  <2>3. starts = {1}
    BY <2>1, <2>2
  <2>. QED
    BY <1>3, <1>11, <2>3 DEF starts, n, t
<1>12. CASE n > 0 /\ n > Len(s)
  <2>1. ASSUME NEW i \in starts PROVE FALSE
    <3>1. i - 1 \in Nat /\ i - 1 <= Len(t) /\ C(i - 1) = n
      BY <1>1, <1>9
    <3>2. C(i - 1) <= C(Len(t))
      BY <1>1, <1>8, <3>1
    <3>. QED
      BY <1>2, <1>5, <1>12, <3>1, <3>2
  <2>2. starts = {}
    BY <2>1
  <2>. QED
    BY <1>3, <1>12, <2>2 DEF starts, n, t
<1>13. CASE n > 0 /\ ~(n > Len(s))
  <2>. DEFINE p == s[n] + 1
  <2>1. p \in 1 .. Len(t) /\ t[p] = "\n" /\ C(p) = n /\ p + 1 - 1 = p /\ p + 1 = s[n] + 2
    <3>1. n \in 1 .. Len(s)
      BY <1>2, <1>5, <1>13
    <3>. QED
      BY <1>1, <1>5, <3>1
  <2>. HIDE DEF p
  <2>2. p + 1 \in starts
    BY <1>1, <1>9, <2>1
  <2>3. ASSUME NEW i \in starts PROVE i = p + 1
    <3>1. i \in 1 .. Len(t) + 1 /\ C(i - 1) = n /\ i # 1 /\ t[i - 1] = "\n"
      BY <1>1, <1>9, <1>10, <1>13
    <3>. DEFINE q == i - 1
    <3>2. q \in 1 .. Len(t) /\ C(q) = n /\ t[q] = "\n"
      BY <1>1, <3>1
    <3>. HIDE DEF q
    <3>3. C(p) = C(p - 1) + 1 /\ C(q) = C(q - 1) + 1 /\ p - 1 \in Nat /\ q - 1 \in Nat
      BY <1>1, <1>7, <2>1, <3>2
    <3>4. ~(p < q)
      <4>1. p < q => C(p) <= C(q - 1)
        BY <1>1, <1>8, <2>1, <3>2, <3>3
      <4>. QED
        BY <1>6, <2>1, <3>2, <3>3, <4>1
    <3>5. ~(q < p)
      <4>1. q < p => C(q) <= C(p - 1)
        BY <1>1, <1>8, <2>1, <3>2, <3>3
      <4>. QED
        BY <1>6, <2>1, <3>2, <3>3, <4>1
    <3>6. q = p
      BY <1>1, <2>1, <3>2, <3>4, <3>5
    <3>. QED
      BY <1>1, <2>1, <3>1, <3>6 DEF q
  <2>4. starts = {p + 1}
    BY <2>2, <2>3
  <2>. QED
    BY <1>3, <1>13, <2>1, <2>4 DEF starts, n, t
<1>14. n = 0 \/ (n > 0 /\ n > Len(s)) \/ (n > 0 /\ ~(n > Len(s)))
  BY <1>2, <1>5
<1>. QED
  BY <1>11, <1>12, <1>13, <1>14, Zenon

-----------------------------------------------------------------------------
(* The invariant                                                           *)

DiskInv == disk \in [Paths \X Names -> Contents \cup {NoFile}]
BuffersInv == buffers \in Seq(Buffers) /\ capacity \in Nat /\ Len(buffers) <= capacity
TableInv == nsTable \in [Names -> 0 .. Len(buffers)]
NodesInv == nodes \in [Names -> Seq(Item)] /\ left \in [reads : Nat, edits : Nat]

LoadingInv == loading \in Names \cup {"", "none"}
ReadInv == TypeInv /\ OverrunsAreKnown /\ (Terminated => LInv)
SInv == DiskInv /\ BuffersInv /\ TableInv /\ NodesInv /\ LoadingInv /\ ReadInv

StartOver == Begun /\ (Terminated => Fresh)

LEMMA StartOverReadInv == StartOver => ReadInv
<1>1. StartOver => OverrunsAreKnown
  BY DEF StartOver, Begun, OverrunsAreKnown
<1>. QED
  BY <1>1, BegunTypeInv, FreshLInv DEF StartOver, ReadInv

LEMMA ReadInvStep == ReadInv /\ [Next]_vars => ReadInv'
BY TypedStep, KnownStep, LInvStep, TerminatedStays DEF ReadInv

LEMMA StartOverStep == StartOver' => ReadInv'
BY StartOverReadInv, PTL

LEMMA SrcInitSInv == SrcInit => SInv
<1>. SUFFICES ASSUME SrcInit PROVE SInv
  OBVIOUS
<1>1. PICK s \in Sessions :
        /\ text = s.input /\ mem = s.input \o s.tail
        /\ pos = 0 /\ pc = "read" /\ depth = 0 /\ out = <<>> /\ err = "none"
        /\ disk = [f \in Paths \X Names |-> NoFile]
        /\ loading = "" /\ buffers = <<>> /\ capacity = 0
        /\ nsTable = [n \in Names |-> 0] /\ nodes = [n \in Names |-> <<>>]
        /\ left = [reads |-> s.reads, edits |-> s.edits]
  BY DEF SrcInit
<1>2. s \in [input : Texts, tail : Tails, reads : Nat, edits : Nat] /\ Names \cap {"", "none"} = {}
  BY SourceMgrAssumption
<1>3. s.input \in Texts /\ s.tail \in Tails /\ s.reads \in Nat /\ s.edits \in Nat
  BY <1>2
<1>4. StartOver
  <2>1. text \in Seq(Bytes)
    BY <1>1, <1>3, ReaderAssumption
  <2>2. \E t \in Tails \cup {<<"nul">>} : mem = text \o t
    BY <1>1, <1>3
  <2>. QED
    BY <1>1, <1>3, <2>1, <2>2 DEF StartOver, Begun, Fresh, Terminated
<1>5. LoadingInv
  BY <1>1, <1>2 DEF LoadingInv
<1>6. buffers = <<>> /\ capacity = 0
  BY <1>1, Zenon
<1>7. BuffersInv
  BY <1>6 DEF BuffersInv
<1>8. disk = [f \in Paths \X Names |-> NoFile]
  BY <1>1, Zenon
<1>9. DiskInv
  BY <1>8 DEF DiskInv
<1>10. nsTable = [n \in Names |-> 0] /\ nodes = [n \in Names |-> <<>>]
  BY <1>1, Zenon
<1>11. nsTable \in [Names -> 0 .. 0] /\ nodes \in [Names -> Seq(Item)]
  <2>1. 0 \in 0 .. 0 /\ <<>> \in Seq(Item)
    OBVIOUS
  <2>. QED
    BY <1>10, <2>1, Zenon
<1>12. TableInv
  <2>1. Len(buffers) = 0
    BY <1>6
  <2>. QED
    BY <1>11, <2>1 DEF TableInv
<1>13. left = [reads |-> s.reads, edits |-> s.edits]
  BY <1>1, Zenon
<1>14. NodesInv
  <2>1. left \in [reads : Nat, edits : Nat]
    BY <1>3, <1>13
  <2>. QED
    BY <1>11, <2>1 DEF NodesInv
<1>. QED
  BY <1>4, <1>5, <1>7, <1>9, <1>12, <1>14, StartOverReadInv DEF SInv

\* findFileInLoadPath answers with a file there is.
LEMMA FileFound ==
    ASSUME DiskInv, NEW n \in Names, FindFileInLoadPath(n) # NoFile
    PROVE  FindFileInLoadPath(n) \in Contents
<1>0. LoadPaths \in Nat
  BY SourceMgrAssumption, Zenon
<1>1. Having(n) # {} /\ Having(n) \subseteq Nat /\ Having(n) \subseteq Paths
  <2>1. Having(n) # {}
    BY DEF FindFileInLoadPath
  <2>. QED
    BY <1>0, <2>1 DEF Having, Paths
<1>2. PICK p \in Having(n) : \A q \in Having(n) : p <= q
  BY <1>1, Least
<1>. DEFINE c == CHOOSE x \in Having(n) : \A q \in Having(n) : x <= q
<1>3. c \in Having(n)
  BY <1>2
<1>4. FindFileInLoadPath(n) = disk[<<c, n>>]
  BY <1>1 DEF FindFileInLoadPath
<1>. HIDE DEF c
<1>5. disk[<<c, n>>] \in Contents \cup {NoFile}
  BY <1>1, <1>3 DEF DiskInv
<1>. QED
  BY <1>4, <1>5

\* A vector that grows keeps its buffers, caches included.
LEMMA BufferAdded ==
    ASSUME BuffersInv, NEW t \in Contents, AddNewSourceBuffer(t)
    PROVE  /\ BuffersInv' /\ Len(buffers') = Len(buffers) + 1 /\ Len(buffers) \in Nat
           /\ buffers'[Len(buffers) + 1].text = t
<1>. DEFINE old == IF Len(buffers) = capacity
                   THEN [b \in DOMAIN buffers |-> Relocated(buffers[b])] ELSE buffers
            new == [text |-> t, cache |-> Null]
<1>1. /\ buffers \in Seq(Buffers) /\ Len(buffers) \in Nat /\ capacity \in Nat
      /\ Len(buffers) <= capacity
  BY DEF BuffersInv
<1>2. ASSUME NEW b \in Buffers PROVE Relocated(b) = b
  <2>1. b = [text |-> b.text, cache |-> b.cache]
    BY CacheOf
  <2>2. Moved(b).to = b /\ Moved(b).from.cache = Null
    BY <2>1 DEF Moved
  <2>. QED
    BY <2>2 DEF Relocated
<1>3. old = buffers
  <2>1. \A b \in DOMAIN buffers : buffers[b] \in Buffers
    BY <1>1
  <2>2. [b \in DOMAIN buffers |-> Relocated(buffers[b])] = buffers
    BY <1>1, <1>2, <2>1
  <2>. QED
    BY <2>2
<1>4. /\ buffers' = Append(old, new)
      /\ capacity' = IF Len(buffers) # capacity THEN capacity
                     ELSE IF capacity = 0 THEN 1 ELSE 2 * capacity
  BY DEF AddNewSourceBuffer
<1>5. new \in Buffers /\ new.text = t
  BY DEF Buffers
<1>. HIDE DEF old, new
<1>6. /\ buffers' \in Seq(Buffers) /\ Len(buffers') = Len(buffers) + 1
      /\ buffers'[Len(buffers) + 1] = new
  BY <1>1, <1>3, <1>4, <1>5
<1>7. capacity' \in Nat /\ Len(buffers) + 1 <= capacity'
  BY <1>1, <1>4
<1>. QED
  BY <1>1, <1>5, <1>6, <1>7 DEF BuffersInv

LEMMA BeginReadSInv ==
    ASSUME SInv, NEW n \in Names, BeginRead(n)
    PROVE  SInv'
<1>. DEFINE file == FindFileInLoadPath(n)
<1>1. /\ loading = "none" /\ left.reads > 0 /\ UNCHANGED <<disk, nodes>>
      /\ left' = [left EXCEPT !.reads = left.reads - 1]
  BY DEF BeginRead
<1>2. left \in [reads : Nat, edits : Nat] /\ left.reads \in Nat
  BY DEF SInv, NodesInv
<1>3. left' \in [reads : Nat, edits : Nat]
  <2>1. left.reads - 1 \in Nat
    BY <1>1, <1>2
  <2>. QED
    BY <1>1, <1>2, <2>1
<1>4. NodesInv' /\ DiskInv'
  BY <1>1, <1>3 DEF SInv, NodesInv, DiskInv
<1>5. CASE UNCHANGED <<vars, loading, buffers, capacity, nsTable>>
  <2>1. ReadInv'
    BY <1>5, ReadInvStep DEF SInv
  <2>2. LoadingInv'
    BY <1>5 DEF SInv, LoadingInv
  <2>3. BuffersInv' /\ TableInv'
    BY <1>5 DEF SInv, BuffersInv, TableInv
  <2>. QED
    BY <1>4, <2>1, <2>2, <2>3 DEF SInv
<1>6. CASE /\ file # NoFile /\ AddNewSourceBuffer(file)
           /\ nsTable' = Indexed(n, Len(buffers')) /\ loading' = n
           /\ text' = file /\ mem' = file \o <<"nul">>
           /\ pos' = 0 /\ pc' = "read" /\ depth' = 0 /\ out' = <<>> /\ err' = "none"
  <2>1. file \in Contents
    BY <1>6, FileFound DEF SInv
  <2>2. file \in Texts /\ file \in Seq(Bytes)
    BY <2>1, WidthFits, SourceMgrAssumption
  <2>. HIDE DEF file
  <2>3. /\ BuffersInv' /\ Len(buffers') = Len(buffers) + 1 /\ Len(buffers) \in Nat
        /\ buffers'[Len(buffers) + 1].text = file
    BY <1>6, <2>1, BufferAdded DEF SInv
  <2>4. StartOver'
    BY <1>6, <2>2 DEF StartOver, Begun, Fresh, Terminated
  <2>5. nsTable' = [nsTable EXCEPT ![n] = Len(buffers) + 1]
    BY <1>6, <2>3 DEF Indexed
  <2>6. nsTable \in [Names -> 0 .. Len(buffers)]
    BY DEF SInv, TableInv
  <2>7. TableInv'
    <3>1. nsTable' \in [Names -> 0 .. Len(buffers) + 1]
      BY <2>3, <2>5, <2>6
    <3>. QED
      BY <2>3, <3>1 DEF TableInv
  <2>9. LoadingInv'
    BY <1>6 DEF LoadingInv
  <2>. QED
    BY <1>4, <2>3, <2>4, <2>7, <2>9, StartOverStep DEF SInv
<1>. QED
  BY <1>5, <1>6 DEF BeginRead

\* A question where a line is fills a cache, and leaves the buffers.
LEMMA AskForLineSInv == SInv /\ AskForLine => SInv'
<1>. SUFFICES ASSUME SInv, AskForLine PROVE SInv'
  OBVIOUS
<1>1. PICK b \in DOMAIN buffers :
        /\ loading = "none"
        /\ buffers' = [buffers EXCEPT ![b].cache = GetOrCreateOffsetCache(buffers[b])]
        /\ UNCHANGED <<vars, disk, loading, capacity, nsTable, nodes, left>>
  BY DEF AskForLine
<1>2. buffers \in Seq(Buffers) /\ Len(buffers) \in Nat /\ b \in 1 .. Len(buffers)
  BY DEF SInv, BuffersInv
<1>. DEFINE new == [text |-> buffers[b].text, cache |-> Filled(buffers[b].text)]
<1>3. /\ buffers[b] \in Buffers /\ buffers[b].text \in Contents
      /\ GetOrCreateOffsetCache(buffers[b]) = Filled(buffers[b].text)
      /\ buffers[b] = [text |-> buffers[b].text, cache |-> buffers[b].cache]
  <2>1. buffers[b] \in Buffers
    BY <1>2
  <2>. QED
    BY <2>1, CacheOf
<1>4. [buffers[b] EXCEPT !.cache = Filled(buffers[b].text)] = new
  BY <1>3
<1>5. new \in Buffers
  BY <1>3 DEF Buffers
<1>6. buffers' = [buffers EXCEPT ![b] = new]
  BY <1>1, <1>3, <1>4
<1>. HIDE DEF new
<1>7. buffers' \in Seq(Buffers) /\ Len(buffers') = Len(buffers)
  BY <1>2, <1>5, <1>6, ExceptSeq
<1>8. BuffersInv' /\ TableInv' /\ LoadingInv'
  BY <1>1, <1>7, SourceMgrAssumption DEF SInv, BuffersInv, TableInv, LoadingInv
<1>9. ReadInv'
  BY <1>1, ReadInvStep DEF SInv
<1>10. DiskInv' /\ NodesInv'
  BY <1>1 DEF SInv, DiskInv, NodesInv
<1>. QED
  BY <1>8, <1>9, <1>10 DEF SInv

LEMMA EditFileSInv == SInv /\ EditFile => SInv'
<1>. SUFFICES ASSUME SInv, EditFile PROVE SInv'
  OBVIOUS
<1>1. PICK f \in Paths \X Names, c \in Contents \cup {NoFile} :
        /\ left.edits > 0 /\ left' = [left EXCEPT !.edits = left.edits - 1]
        /\ disk' = [disk EXCEPT ![f] = c]
        /\ UNCHANGED <<vars, loading, buffers, capacity, nsTable, nodes>>
  BY DEF EditFile
<1>2. DiskInv'
  BY <1>1 DEF SInv, DiskInv
<1>3. left \in [reads : Nat, edits : Nat] /\ left.edits - 1 \in Nat
  BY <1>1 DEF SInv, NodesInv
<1>4. left' \in [reads : Nat, edits : Nat]
  BY <1>1, <1>3
<1>5. NodesInv'
  BY <1>1, <1>4 DEF SInv, NodesInv
<1>6. ReadInv'
  BY <1>1, ReadInvStep DEF SInv
<1>7. BuffersInv' /\ TableInv'
  BY <1>1 DEF SInv, BuffersInv, TableInv
<1>8. LoadingInv'
  BY <1>1 DEF SInv, LoadingInv
<1>. QED
  BY <1>2, <1>5, <1>6, <1>7, <1>8 DEF SInv

LEMMA FinishReadSInv == SInv /\ FinishRead => SInv'
<1>. SUFFICES ASSUME SInv, FinishRead PROVE SInv'
  OBVIOUS
<1>1. /\ nodes' = IF loading \in Names /\ pc = "done"
                 THEN [nodes EXCEPT ![loading] = out] ELSE nodes
      /\ loading' = "none" /\ UNCHANGED <<vars, disk, buffers, capacity, nsTable, left>>
  BY DEF FinishRead
<1>2. nodes \in [Names -> Seq(Item)] /\ out \in Seq(Item)
  BY DEF SInv, NodesInv, ReadInv, TypeInv, TypeOK
<1>3. nodes' \in [Names -> Seq(Item)]
  BY <1>1, <1>2
<1>4. NodesInv'
  BY <1>1, <1>3 DEF SInv, NodesInv
<1>5. ReadInv'
  BY <1>1, ReadInvStep DEF SInv
<1>6. DiskInv' /\ BuffersInv' /\ TableInv'
  BY <1>1 DEF SInv, DiskInv, BuffersInv, TableInv
<1>8. LoadingInv'
  BY <1>1 DEF LoadingInv
<1>. QED
  BY <1>4, <1>5, <1>6, <1>8 DEF SInv

LEMMA ReaderStepSInv == SInv /\ ReaderStep => SInv'
<1>. SUFFICES ASSUME SInv, ReaderStep PROVE SInv'
  OBVIOUS
<1>1. Next /\ UNCHANGED srcVars
  BY DEF ReaderStep
<1>2. ReadInv'
  BY <1>1, ReadInvStep DEF SInv
<1>4. LoadingInv'
  BY <1>1 DEF SInv, LoadingInv, srcVars
<1>5. DiskInv' /\ BuffersInv' /\ TableInv' /\ NodesInv'
  BY <1>1 DEF SInv, DiskInv, BuffersInv, TableInv, NodesInv, srcVars
<1>. QED
  BY <1>2, <1>4, <1>5 DEF SInv

LEMMA SInvStep == SInv /\ [SrcNext]_<<vars, srcVars>> => SInv'
<1>. SUFFICES ASSUME SInv, [SrcNext]_<<vars, srcVars>> PROVE SInv'
  OBVIOUS
<1>1. CASE UNCHANGED <<vars, srcVars>>
  <2>1. ReadInv'
    BY <1>1, ReadInvStep DEF SInv
  <2>2. LoadingInv'
    BY <1>1 DEF SInv, LoadingInv, srcVars
  <2>3. DiskInv' /\ BuffersInv' /\ TableInv' /\ NodesInv'
    BY <1>1 DEF SInv, DiskInv, BuffersInv, TableInv, NodesInv, srcVars
  <2>. QED
    BY <2>1, <2>2, <2>3 DEF SInv
<1>. QED
  BY <1>1, ReaderStepSInv, BeginReadSInv, FinishReadSInv, AskForLineSInv, EditFileSInv
  DEF SrcNext, ReadNamespace

LEMMA SrcInductive == SrcSpec => []SInv
BY SrcInitSInv, SInvStep, PTL DEF SrcSpec

-----------------------------------------------------------------------------
(* Theorems                                                                *)

\* The state of the source manager, and of the reader it drives, has its type.
THEOREM SourceMgrTypeCorrect == SrcSpec => []SrcTypeOK
<1>1. SInv => SrcTypeOK
  <2>. SUFFICES ASSUME SInv PROVE SrcTypeOK
    OBVIOUS
  <2>1. \A b \in DOMAIN buffers : buffers[b].text \in Contents
    BY CacheOf DEF SInv, BuffersInv
  <2>. QED
    BY <2>1 DEF SInv, DiskInv, BuffersInv, TableInv, NodesInv, LoadingInv, ReadInv,
                TypeInv, SrcTypeOK
<1>. QED
  BY <1>1, SrcInductive, PTL

\* What holds of the reader for one text holds for every namespace that is
\* read, one after the other in buffers that move.
THEOREM NamespacesReadRight ==
    SrcSpec => []/\ OverrunsAreKnown /\ NothingDropped
                 /\ VerdictIsRight /\ LocationsAreRight
<1>1. SInv => /\ OverrunsAreKnown /\ NothingDropped
              /\ VerdictIsRight /\ LocationsAreRight
  BY ReaderSafe DEF SInv, ReadInv
<1>. QED
  BY <1>1, SrcInductive, PTL

\* source_mgr.cpp:133-210: for every buffer, question and number of moves
\* before it, the pointer answered is where the line starts.
THEOREM LinesFound == SrcSpec => []PointersAreRight
<1>1. SInv => PointersAreRight
  <2>. SUFFICES ASSUME SInv, NEW b \in DOMAIN buffers PROVE buffers[b] \in Buffers
    BY CacheOf, PointerRight DEF PointersAreRight
  <2>. QED
    BY DEF SInv, BuffersInv
<1>. QED
  BY <1>1, SrcInductive, PTL

=============================================================================
