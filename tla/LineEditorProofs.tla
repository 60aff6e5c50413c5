---------------------------- MODULE LineEditorProofs ----------------------------
(* What is proved of texts and the helpers that read them, of terminals and *)
(* of what the editor writes to them: after refreshMultiLine the terminal   *)
(* shows the line, with the cursor at its place, on every width from three  *)
(* columns on.                                                              *)
EXTENDS LineEditor, NaturalsInduction, WellFoundedInduction, SequenceTheorems, TLAPS

\* A set of numbers that is not empty has a least element.
LEMMA LeastNat ==
    ASSUME NEW T, T \subseteq Nat, T # {}
    PROVE  \E x \in T : \A y \in T : x <= y
<1>. DEFINE R == {p \in Nat \X Nat : p[1] < p[2]}
<1>1. IsWellFoundedOn(R, Nat)
  BY NatLessThanWellFounded DEF OpToRel
<1>2. ASSUME NEW x \in Nat, NEW y \in Nat, y < x PROVE <<y, x>> \in R
  BY <1>2
<1>. HIDE DEF R
<1>3. PICK x \in T : \A y \in T : ~(<<y, x>> \in R)
  BY <1>1, WFMin
<1>4. ASSUME NEW y \in T PROVE x <= y
  <2>1. x \in Nat /\ y \in Nat
    OBVIOUS
  <2>2. ~(y < x)
    BY <1>2, <1>3, <2>1
  <2>. QED
    BY <2>1, <2>2
<1>. QED
  BY <1>4

\* A function is defined by what it is where a loop stops, and by its value at
\* the next position elsewhere.
Loops(f, D, stop, val, nxt, G) ==
    \A p \in D : f[p] = IF stop[p] THEN val[p] ELSE G[<<p, f[nxt[p]]>>]

\* It exists when every step comes nearer to an end.
LEMMA LoopIs ==
    ASSUME NEW D, NEW S, NEW N \in Nat, NEW rank \in [D -> 0 .. N],
           NEW stop \in [D -> BOOLEAN], NEW val \in [D -> S], NEW nxt \in [D -> D],
           NEW G \in [D \X S -> S],
           \A p \in D : ~stop[p] => rank[nxt[p]] < rank[p]
    PROVE  \E f \in [D -> S] : Loops(f, D, stop, val, nxt, G)
<1>. DEFINE Good(f, n) == \A p \in D : rank[p] <= n =>
                            f[p] = IF stop[p] THEN val[p] ELSE G[<<p, f[nxt[p]]>>]
            T == {n \in Nat : \A f \in [D -> S] : ~Good(f, n)}
<1>1. T = {}
  <2>. SUFFICES ASSUME T # {} PROVE FALSE
    OBVIOUS
  <2>1. PICK n \in T : \A y \in T : n <= y
    BY LeastNat
  <2>2. CASE n = 0
    <3>1. Good(val, 0)
      <4> SUFFICES ASSUME NEW p \in D, rank[p] <= 0 PROVE stop[p]
        OBVIOUS
      <4>1. rank[p] \in 0 .. N /\ rank[nxt[p]] \in 0 .. N
        OBVIOUS
      <4> QED
        BY <4>1
    <3> QED
      BY <2>1, <2>2, <3>1
  <2>3. CASE n # 0
    <3>1. n - 1 \in Nat /\ ~(n <= n - 1)
      BY <2>1, <2>3
    <3>2. n - 1 \notin T
      BY <2>1, <3>1
    <3>3. PICK g \in [D -> S] : Good(g, n - 1)
      BY <3>1, <3>2
    <3>. DEFINE h == [p \in D |-> IF stop[p] THEN val[p] ELSE G[<<p, g[nxt[p]]>>]]
    <3>4. h \in [D -> S]
      OBVIOUS
    <3>5. ASSUME NEW p \in D, rank[p] <= n
          PROVE  h[p] = IF stop[p] THEN val[p] ELSE G[<<p, h[nxt[p]]>>]
      <4>1. CASE stop[p]
        BY <4>1
      <4>2. CASE ~stop[p]
        <5>. DEFINE q == nxt[p]
        <5>1. q \in D /\ rank[q] \in 0 .. N /\ rank[p] \in 0 .. N /\ rank[q] < rank[p]
          BY <4>2
        <5>2. rank[q] <= n - 1
          BY <3>1, <3>5, <5>1, <2>1
        <5>3. g[q] = IF stop[q] THEN val[q] ELSE G[<<q, g[nxt[q]]>>]
          BY <3>3, <5>1, <5>2
        <5>4. h[q] = g[q]
          BY <5>1, <5>3
        <5>5. h[p] = G[<<p, g[q]>>]
          BY <4>2
        <5> QED
          BY <4>2, <5>4, <5>5
      <4> QED
        BY <4>1, <4>2
    <3>6. Good(h, n)
      BY <3>5
    <3> QED
      BY <2>1, <3>4, <3>6
  <2> QED
    BY <2>2, <2>3
<1>2. PICK f \in [D -> S] : Good(f, N)
  BY <1>1
<1>3. \A p \in D : rank[p] <= N
  OBVIOUS
<1> QED
  BY <1>2, <1>3 DEF Loops

-----------------------------------------------------------------------------
(* Bytes and characters.                                                   *)

Between(t, p) == p \in 0 .. Len(t) /\ (p < Len(t) => t[p + 1] \notin Follows)

\* A character takes one to four bytes.
LEMMA SizeFacts ==
    ASSUME NEW b \in Byte
    PROVE  Size(b) \in 1 .. 4
BY DEF Size, Byte

\* The test of the source for a byte 10xxxxxx.
LEMMA ContinuesIs ==
    ASSUME NEW b \in Byte
    PROVE  Continues(b) <=> b \in Follows
BY DEF Continues, Byte, Follows

\* What a text is made of.
LEMMA WholeFacts ==
    ASSUME NEW t, Whole(t)
    PROVE  /\ t \in Seq(Byte) /\ Len(t) \in Nat
           /\ \A i \in 1 .. Len(t) : t[i] \in Byte
BY DEF Whole

\* The empty text.
LEMMA EmptyWhole == Whole(<<>>) /\ Between(<<>>, 0)
BY DEF Whole, Between

\* The ends of a text are between characters.
LEMMA EndsBetween ==
    ASSUME NEW t, Whole(t)
    PROVE  Between(t, 0) /\ Between(t, Len(t))
<1>1. Len(t) \in Nat
  BY WholeFacts
<1> QED
  BY <1>1 DEF Whole, Between

\* The length by the first byte (unicodeUTF8CharLen).
LEMMA CharLenIs ==
    ASSUME NEW t, Whole(t), NEW p \in 0 .. Len(t) - 1
    PROVE  CharLen(t, p) = Size(t[p + 1]) /\ CharLen(t, p) \in 1 .. 4
<1>1. Len(t) \in Nat /\ p + 1 \in 1 .. Len(t) /\ p # Len(t) /\ p < Len(t)
  BY WholeFacts
<1>2. t[p + 1] \in Byte
  BY <1>1, WholeFacts
<1> QED
  BY <1>1, <1>2, SizeFacts DEF CharLen, ByteAt, Size

\* From one character to the next.
LEMMA NextBetween ==
    ASSUME NEW t, Whole(t), NEW p, Between(t, p), p < Len(t)
    PROVE  /\ p \in Nat /\ CharLen(t, p) \in 1 .. 4
           /\ Between(t, p + CharLen(t, p)) /\ p + CharLen(t, p) <= Len(t)
<1>1. Len(t) \in Nat /\ p \in 0 .. Len(t) - 1 /\ p + 1 \in 1 .. Len(t)
  BY WholeFacts DEF Between
<1>2. CharLen(t, p) = Size(t[p + 1]) /\ CharLen(t, p) \in 1 .. 4
  BY <1>1, CharLenIs
<1>3. Begins(t, p + 1)
  BY <1>1 DEF Whole, Between
<1>. DEFINE n == CharLen(t, p)
<1>4. (p + 1) + n - 1 <= Len(t) /\ ((p + 1) + n <= Len(t) => t[(p + 1) + n] \notin Follows)
  BY <1>2, <1>3 DEF Begins
<1>. HIDE DEF n
<1>5. n \in 1 .. 4 /\ (p + 1) + n = (p + n) + 1
  BY <1>1, <1>2 DEF n
<1>6. p + n \in 0 .. Len(t)
  BY <1>1, <1>4, <1>5
<1>7. p + n < Len(t) => t[(p + n) + 1] \notin Follows
  BY <1>1, <1>4, <1>5
<1> QED
  BY <1>1, <1>2, <1>6, <1>7 DEF Between, n

-----------------------------------------------------------------------------
\* A text up to a position, and from there on.
LEMMA CutFacts ==
    ASSUME NEW S, NEW t \in Seq(S), NEW p \in 0 .. Len(t)
    PROVE  LET u == SubSeq(t, 1, p)
               v == SubSeq(t, p + 1, Len(t))
           IN  /\ u \in Seq(S) /\ Len(u) = p /\ \A i \in 1 .. p : u[i] = t[i]
               /\ v \in Seq(S) /\ Len(v) = Len(t) - p
               /\ \A i \in 1 .. Len(t) - p : v[i] = t[p + i]
               /\ u \o v = t
<1>. DEFINE n == Len(t)
            u == SubSeq(t, 1, p)
            v == SubSeq(t, p + 1, n)
<1>0. n \in Nat /\ p \in Nat /\ p <= n
  BY LenProperties
<1>1. \A i \in 1 .. n : t[i] \in S
  BY <1>0
<1>2. u \in Seq(S) /\ Len(u) = p /\ \A i \in 1 .. p : u[i] = t[i]
  <2>. HIDE DEF n
  <2> QED
    BY <1>0, <1>1
<1>3. v \in Seq(S) /\ Len(v) = n - p /\ \A i \in 1 .. n - p : v[i] = t[p + i]
  BY <1>0, <1>1
<1>. HIDE DEF u, v
<1>4. u \o v \in Seq(S) /\ Len(u \o v) = n
  BY <1>0, <1>2, <1>3
<1>5. ASSUME NEW i \in 1 .. n PROVE (u \o v)[i] = t[i]
  <2>1. CASE i <= p
    <3>1. (u \o v)[i] = u[i]
      BY <1>0, <1>2, <1>3, <2>1
    <3> QED
      BY <1>0, <1>2, <2>1, <3>1
  <2>2. CASE ~(i <= p)
    <3>1. i - p \in 1 .. n - p /\ p + (i - p) = i
      BY <1>0, <2>2
    <3>2. (u \o v)[i] = v[i - p]
      BY <1>0, <1>2, <1>3, <2>2
    <3> QED
      BY <1>3, <3>1, <3>2
  <2> QED
    BY <2>1, <2>2
<1>6. u \o v = t
  BY <1>4, <1>5, SeqEqual
<1> QED
  BY <1>2, <1>3, <1>6 DEF u, v

\* One sequence after another.
LEMMA JoinFacts ==
    ASSUME NEW S, NEW u \in Seq(S), NEW v \in Seq(S)
    PROVE  /\ u \o v \in Seq(S) /\ Len(u \o v) = Len(u) + Len(v)
           /\ Len(u) \in Nat /\ Len(v) \in Nat
           /\ \A i \in 1 .. Len(u) : (u \o v)[i] = u[i]
           /\ \A i \in 1 .. Len(v) : (u \o v)[Len(u) + i] = v[i]
<1>1. Len(u) \in Nat /\ Len(v) \in Nat
  OBVIOUS
<1>2. u \o v \in Seq(S) /\ Len(u \o v) = Len(u) + Len(v)
  OBVIOUS
<1>3. ASSUME NEW i \in 1 .. Len(u) PROVE (u \o v)[i] = u[i]
  BY <1>1
<1>4. ASSUME NEW i \in 1 .. Len(v) PROVE (u \o v)[Len(u) + i] = v[i]
  <2>1. Len(u) + i \in 1 .. Len(u) + Len(v) /\ ~(Len(u) + i <= Len(u))
        /\ (Len(u) + i) - Len(u) = i
    BY <1>1
  <2> QED
    BY <1>1, <2>1
<1> QED
  BY <1>1, <1>2, <1>3, <1>4

\* A text cut between two characters.
LEMMA CutWhole ==
    ASSUME NEW t, Whole(t), NEW p, Between(t, p)
    PROVE  /\ Whole(SubSeq(t, 1, p)) /\ Whole(SubSeq(t, p + 1, Len(t)))
           /\ Len(SubSeq(t, 1, p)) = p /\ Len(SubSeq(t, p + 1, Len(t))) = Len(t) - p
           /\ SubSeq(t, 1, p) \o SubSeq(t, p + 1, Len(t)) = t
<1>. DEFINE n == Len(t)
            u == SubSeq(t, 1, p)
            v == SubSeq(t, p + 1, n)
<1>0. n \in Nat /\ p \in Nat /\ p <= n /\ t \in Seq(Byte) /\ p \in 0 .. n
  BY WholeFacts DEF Between
<1>1. /\ u \in Seq(Byte) /\ Len(u) = p /\ \A i \in 1 .. p : u[i] = t[i]
      /\ v \in Seq(Byte) /\ Len(v) = n - p /\ \A i \in 1 .. n - p : v[i] = t[p + i]
      /\ u \o v = t
  BY <1>0, CutFacts
<1>2. p < n => t[p + 1] \notin Follows
  BY DEF Between
<1>3. \A i \in 1 .. n : t[i] \notin Follows => Begins(t, i)
  BY DEF Whole
<1>4. n > 0 => t[1] \notin Follows
  BY DEF Whole
<1>. HIDE DEF u, v, n
<1>5. ASSUME NEW i \in 1 .. p, u[i] \notin Follows PROVE Begins(u, i)
  <2>. DEFINE k == Size(t[i])
  <2>1. i \in 1 .. n /\ u[i] = t[i]
    BY <1>0, <1>1
  <2>2. k \in 1 .. 4
    BY <1>0, <2>1, SizeFacts DEF n
  <2>3. /\ t[i] \in Leads /\ i + k - 1 <= n
        /\ \A j \in i + 1 .. i + k - 1 : t[j] \in Follows
        /\ i + k <= n => t[i + k] \notin Follows
    BY <1>3, <1>5, <2>1 DEF Begins, n
  <2>. HIDE DEF k
  <2>4. i + k - 1 <= p
    <3>. SUFFICES ASSUME ~(i + k - 1 <= p) PROVE FALSE
      OBVIOUS
    <3>1. p + 1 \in i + 1 .. i + k - 1 /\ p < n
      BY <1>0, <2>2, <2>3
    <3> QED
      BY <1>2, <2>3, <3>1
  <2>5. \A j \in i + 1 .. i + k - 1 : u[j] \in Follows
    <3>. SUFFICES ASSUME NEW j \in i + 1 .. i + k - 1 PROVE u[j] \in Follows
      OBVIOUS
    <3>1. j \in 1 .. p
      BY <1>0, <2>2, <2>4
    <3> QED
      BY <1>1, <2>3, <3>1
  <2>6. i + k <= p => u[i + k] \notin Follows
    <3>. SUFFICES ASSUME i + k <= p PROVE u[i + k] \notin Follows
      OBVIOUS
    <3>1. i + k \in 1 .. p /\ i + k <= n
      BY <1>0, <2>2
    <3> QED
      BY <1>1, <2>3, <3>1
  <2> QED
    BY <1>1, <2>1, <2>3, <2>4, <2>5, <2>6 DEF Begins, k
<1>6. Whole(u)
  <2>1. Len(u) > 0 => u[1] \notin Follows
    BY <1>0, <1>1, <1>4
  <2> QED
    BY <1>1, <1>5, <2>1 DEF Whole
<1>7. ASSUME NEW i \in 1 .. n - p, v[i] \notin Follows PROVE Begins(v, i)
  <2>. DEFINE k == Size(t[p + i])
  <2>1. p + i \in 1 .. n /\ v[i] = t[p + i]
    BY <1>0, <1>1
  <2>2. k \in 1 .. 4
    BY <1>0, <2>1, SizeFacts DEF n
  <2>3. /\ t[p + i] \in Leads /\ (p + i) + k - 1 <= n
        /\ \A j \in (p + i) + 1 .. (p + i) + k - 1 : t[j] \in Follows
        /\ (p + i) + k <= n => t[(p + i) + k] \notin Follows
    BY <1>3, <1>7, <2>1 DEF Begins, n
  <2>. HIDE DEF k
  <2>4. i + k - 1 <= n - p
    BY <1>0, <2>2, <2>3
  <2>5. \A j \in i + 1 .. i + k - 1 : v[j] \in Follows
    <3>. SUFFICES ASSUME NEW j \in i + 1 .. i + k - 1 PROVE v[j] \in Follows
      OBVIOUS
    <3>1. j \in 1 .. n - p /\ p + j \in (p + i) + 1 .. (p + i) + k - 1
      BY <1>0, <2>2, <2>4
    <3> QED
      BY <1>1, <2>3, <3>1
  <2>6. i + k <= n - p => v[i + k] \notin Follows
    <3>. SUFFICES ASSUME i + k <= n - p PROVE v[i + k] \notin Follows
      OBVIOUS
    <3>1. i + k \in 1 .. n - p /\ (p + i) + k <= n /\ p + (i + k) = (p + i) + k
      BY <1>0, <2>2
    <3> QED
      BY <1>1, <2>3, <3>1
  <2> QED
    BY <1>1, <2>1, <2>3, <2>4, <2>5, <2>6 DEF Begins, k
<1>8. Whole(v)
  <2>1. Len(v) > 0 => v[1] \notin Follows
    BY <1>0, <1>1, <1>2
  <2> QED
    BY <1>1, <1>7, <2>1 DEF Whole
<1> QED
  BY <1>1, <1>6, <1>8 DEF u, v, n

\* Two texts one after the other.
LEMMA JoinWhole ==
    ASSUME NEW u, NEW v, Whole(u), Whole(v)
    PROVE  /\ Whole(u \o v) /\ Len(u \o v) = Len(u) + Len(v)
           /\ Between(u \o v, Len(u))
<1>. DEFINE w == u \o v
            m == Len(u)
            n == Len(v)
<1>1. /\ w \in Seq(Byte) /\ Len(w) = m + n
      /\ m \in Nat /\ n \in Nat
      /\ \A i \in 1 .. m : w[i] = u[i]
      /\ \A i \in 1 .. n : w[m + i] = v[i]
  <2>1. u \in Seq(Byte) /\ v \in Seq(Byte)
    BY WholeFacts
  <2> QED
    BY <2>1, JoinFacts
<1>2. /\ m > 0 => u[1] \notin Follows
      /\ \A i \in 1 .. m : u[i] \notin Follows => Begins(u, i)
      /\ n > 0 => v[1] \notin Follows
      /\ \A i \in 1 .. n : v[i] \notin Follows => Begins(v, i)
  BY DEF Whole
<1>3. \A i \in 1 .. m : u[i] \in Byte
  BY WholeFacts
<1>4. \A i \in 1 .. n : v[i] \in Byte
  BY WholeFacts
<1>. HIDE DEF w
<1>5. m < m + n => w[m + 1] \notin Follows
  <2>. HIDE DEF m, n
  <2> QED
    BY <1>1, <1>2
<1>6. ASSUME NEW i \in 1 .. m, w[i] \notin Follows PROVE Begins(w, i)
  <2>. DEFINE k == Size(u[i])
  <2>1. w[i] = u[i]
    BY <1>1
  <2>2. k \in 1 .. 4
    BY <1>3, SizeFacts
  <2>3. /\ u[i] \in Leads /\ i + k - 1 <= m
        /\ \A j \in i + 1 .. i + k - 1 : u[j] \in Follows
        /\ i + k <= m => u[i + k] \notin Follows
    BY <1>2, <1>6, <2>1 DEF Begins
  <2>. HIDE DEF k, m, n
  <2>4. i + k - 1 <= m + n
    BY <1>1, <2>2, <2>3
  <2>5. \A j \in i + 1 .. i + k - 1 : w[j] \in Follows
    <3>. SUFFICES ASSUME NEW j \in i + 1 .. i + k - 1 PROVE w[j] \in Follows
      OBVIOUS
    <3>1. j \in 1 .. m
      BY <1>1, <2>2, <2>3
    <3> QED
      BY <1>1, <2>3, <3>1
  <2>6. i + k <= m + n => w[i + k] \notin Follows
    <3>. SUFFICES ASSUME i + k <= m + n PROVE w[i + k] \notin Follows
      OBVIOUS
    <3>1. CASE i + k <= m
      <4>1. i + k \in 1 .. m
        BY <1>1, <2>2, <3>1
      <4> QED
        BY <1>1, <2>3, <3>1, <4>1
    <3>2. CASE ~(i + k <= m)
      <4>1. i + k = m + 1 /\ m < m + n
        BY <1>1, <2>2, <2>3, <3>2
      <4> QED
        BY <1>5, <4>1
    <3> QED
      BY <3>1, <3>2
  <2> QED
    BY <1>1, <2>1, <2>3, <2>4, <2>5, <2>6 DEF Begins, k
<1>7. ASSUME NEW h \in 1 .. n, w[m + h] \notin Follows PROVE Begins(w, m + h)
  <2>. DEFINE k == Size(v[h])
  <2>1. w[m + h] = v[h]
    BY <1>1
  <2>2. k \in 1 .. 4
    BY <1>4, SizeFacts
  <2>3. /\ v[h] \in Leads /\ h + k - 1 <= n
        /\ \A j \in h + 1 .. h + k - 1 : v[j] \in Follows
        /\ h + k <= n => v[h + k] \notin Follows
    BY <1>2, <1>7, <2>1 DEF Begins
  <2>. HIDE DEF k, m, n
  <2>4. (m + h) + k - 1 <= m + n
    BY <1>1, <2>2, <2>3
  <2>5. \A j \in (m + h) + 1 .. (m + h) + k - 1 : w[j] \in Follows
    <3>. SUFFICES ASSUME NEW j \in (m + h) + 1 .. (m + h) + k - 1 PROVE w[j] \in Follows
      OBVIOUS
    <3>1. j - m \in 1 .. n /\ j - m \in h + 1 .. h + k - 1 /\ m + (j - m) = j
      BY <1>1, <2>2, <2>3
    <3>2. w[m + (j - m)] = v[j - m]
      BY <1>1, <3>1
    <3> QED
      BY <2>3, <3>1, <3>2
  <2>6. (m + h) + k <= m + n => w[(m + h) + k] \notin Follows
    <3>. SUFFICES ASSUME (m + h) + k <= m + n PROVE w[(m + h) + k] \notin Follows
      OBVIOUS
    <3>1. h + k \in 1 .. n /\ m + (h + k) = (m + h) + k
      BY <1>1, <2>2
    <3>2. w[m + (h + k)] = v[h + k]
      BY <1>1, <3>1
    <3> QED
      BY <2>3, <3>1, <3>2
  <2> QED
    BY <1>1, <2>1, <2>3, <2>4, <2>5, <2>6 DEF Begins, k
<1>8. ASSUME NEW i \in 1 .. Len(w), w[i] \notin Follows PROVE Begins(w, i)
  <2>1. CASE i <= m
    BY <1>1, <1>6, <1>8, <2>1
  <2>2. CASE ~(i <= m)
    <3>. HIDE DEF m, n
    <3>1. i - m \in 1 .. n /\ m + (i - m) = i
      BY <1>1, <2>2
    <3> QED
      BY <1>7, <1>8, <3>1
  <2> QED
    BY <2>1, <2>2
<1>9. Len(w) > 0 => w[1] \notin Follows
  <2>. HIDE DEF m, n
  <2>1. CASE m > 0
    <3>1. 1 \in 1 .. m
      BY <1>1, <2>1
    <3> QED
      BY <1>1, <1>2, <2>1, <3>1
  <2>2. CASE m = 0
    BY <1>1, <1>5, <2>2
  <2> QED
    BY <1>1, <2>1, <2>2
<1>10. Whole(w)
  BY <1>1, <1>8, <1>9 DEF Whole
<1>11. Between(w, m)
  <2>. HIDE DEF m, n
  <2> QED
    BY <1>1, <1>5 DEF Between
<1> QED
  BY <1>1, <1>10, <1>11 DEF w

-----------------------------------------------------------------------------
(* Code points.                                                            *)

\* The first byte of a character says how many bytes it has.
LEMMA LeadIs ==
    ASSUME NEW b \in Leads
    PROVE  \/ Size(b) = 1 /\ b < 128
           \/ Size(b) = 2 /\ ~(b < 128) /\ b \div 32 = 6
           \/ Size(b) = 3 /\ ~(b < 128) /\ b \div 32 # 6 /\ b \div 16 = 14
           \/ Size(b) = 4 /\ ~(b < 128) /\ b \div 32 # 6 /\ b \div 16 # 14 /\ b \div 8 = 30
<1>1. CASE b < 128
  BY <1>1 DEF Size
<1>2. CASE ~(b < 128) /\ b < 224
  BY <1>2 DEF Size, Leads
<1>3. CASE ~(b < 224) /\ b < 240
  BY <1>3 DEF Size, Leads
<1>4. CASE ~(b < 240)
  BY <1>4 DEF Size, Leads
<1> QED
  BY <1>1, <1>2, <1>3, <1>4 DEF Leads

\* The cases of unicodeUTF8CharToCodePoint exclude one another.
LEMMA LeadApart ==
    ASSUME NEW b \in Leads
    PROVE  /\ b < 128 => ~(b \div 32 = 6) /\ ~(b \div 16 = 14) /\ ~(b \div 8 = 30)
           /\ b \div 32 = 6 => ~(b \div 16 = 14) /\ ~(b \div 8 = 30)
           /\ b \div 16 = 14 => ~(b \div 8 = 30)
<1>1. b \in Int
  BY DEF Leads
<1> QED
  BY <1>1

\* What a character is, by its bytes.
Code(f, x, y, z) ==
    IF Size(f) = 1 THEN f
    ELSE IF Size(f) = 2 THEN (f % 32) * 64 + (x % 64)
    ELSE IF Size(f) = 3 THEN (f % 16) * 4096 + (x % 64) * 64 + (y % 64)
    ELSE (f % 8) * 262144 + (x % 64) * 4096 + (y % 64) * 64 + (z % 64)

CodeOf(t, p) == Code(ByteAt(t, p), ByteAt(t, p + 1), ByteAt(t, p + 2), ByteAt(t, p + 3))

\* Its result, when the bytes are there.
LEMMA CodePointIs ==
    ASSUME NEW t, NEW p \in Nat, NEW n \in Nat,
           ByteAt(t, p) \in Leads, Size(ByteAt(t, p)) <= n
    PROVE  CodePoint(t, p, n) = [len |-> Size(ByteAt(t, p)), cp |-> CodeOf(t, p)]
<1>. DEFINE first == ByteAt(t, p)
            low(i) == ByteAt(t, p + i) % 64
            d == CodePoint(t, p, n)
            two == (first % 32) * 64 + low(1)
            three == (first % 16) * 4096 + low(1) * 64 + low(2)
            four == (first % 8) * 262144 + low(1) * 4096 + low(2) * 64 + low(3)
            none == [len |-> 0, cp |-> 0]
            is(k, cp) == IF n >= k THEN [len |-> k, cp |-> cp] ELSE none
<1>1. d = CASE n = 0 -> none
            [] n # 0 /\ first < 128 -> is(1, first)
            [] n # 0 /\ first \div 32 = 6 -> is(2, two)
            [] n # 0 /\ first \div 16 = 14 -> is(3, three)
            [] n # 0 /\ first \div 8 = 30 -> is(4, four)
            [] OTHER -> none
  BY DEF CodePoint
<1>2. \/ Size(first) = 1 /\ first < 128
      \/ Size(first) = 2 /\ ~(first < 128) /\ first \div 32 = 6
      \/ Size(first) = 3 /\ ~(first < 128) /\ first \div 32 # 6 /\ first \div 16 = 14
      \/ Size(first) = 4 /\ ~(first < 128) /\ first \div 32 # 6 /\ first \div 16 # 14
           /\ first \div 8 = 30
  BY LeadIs
<1>3. Size(first) <= n
  OBVIOUS
<1>4. first < 128 => ~(first \div 32 = 6) /\ ~(first \div 16 = 14) /\ ~(first \div 8 = 30)
  BY LeadApart
<1>5. first \div 32 = 6 => ~(first \div 16 = 14) /\ ~(first \div 8 = 30)
  BY LeadApart
<1>6. first \div 16 = 14 => ~(first \div 8 = 30)
  BY LeadApart
<1>7. CodeOf(t, p) = IF Size(first) = 1 THEN first ELSE IF Size(first) = 2 THEN two
                     ELSE IF Size(first) = 3 THEN three ELSE four
  BY DEF CodeOf, Code
<1>. HIDE DEF d, two, three, four, none, first
<1>8. CASE Size(first) = 1
  <2>1. first < 128 /\ n >= 1 /\ n # 0
    BY <1>2, <1>3, <1>8
  <2>2. d = is(1, first)
    BY <1>1, <1>4, <2>1
  <2> QED
    BY <1>7, <1>8, <2>1, <2>2 DEF d, first
<1>9. CASE Size(first) = 2
  <2>1. ~(first < 128) /\ first \div 32 = 6 /\ n >= 2 /\ n # 0
    BY <1>2, <1>3, <1>9
  <2>2. d = is(2, two)
    BY <1>1, <1>5, <2>1
  <2> QED
    BY <1>7, <1>9, <2>1, <2>2 DEF d, first
<1>10. CASE Size(first) = 3
  <2>1. ~(first < 128) /\ ~(first \div 32 = 6) /\ first \div 16 = 14 /\ n >= 3 /\ n # 0
    BY <1>2, <1>3, <1>10
  <2>2. d = is(3, three)
    BY <1>1, <1>6, <2>1
  <2> QED
    BY <1>7, <1>10, <2>1, <2>2 DEF d, first
<1>11. CASE Size(first) = 4
  <2>1. /\ ~(first < 128) /\ ~(first \div 32 = 6) /\ ~(first \div 16 = 14)
        /\ first \div 8 = 30 /\ n >= 4 /\ n # 0
    BY <1>2, <1>3, <1>11
  <2>2. d = is(4, four)
    BY <1>1, <2>1
  <2> QED
    BY <1>7, <1>11, <2>1, <2>2 DEF d, first
<1> QED
  BY <1>2, <1>8, <1>9, <1>10, <1>11

\* The character at a position.
Cp(t, p) == CodePoint(t, p, CharLen(t, p)).cp

\* A whole character is read as one.
LEMMA FirstIs ==
    ASSUME NEW t, Whole(t), NEW p, Between(t, p), p < Len(t)
    PROVE  /\ p \in Nat /\ p + 1 \in 1 .. Len(t) /\ Len(t) \in Nat
           /\ ByteAt(t, p) = t[p + 1] /\ ByteAt(t, p) \in Leads
           /\ CharLen(t, p) = Size(ByteAt(t, p)) /\ CharLen(t, p) \in 1 .. 4
           /\ Cp(t, p) = CodeOf(t, p)
<1>1. p \in Nat /\ p \in 0 .. Len(t) - 1 /\ p + 1 \in 1 .. Len(t) /\ Len(t) \in Nat
  BY WholeFacts DEF Between
<1>2. ByteAt(t, p) = t[p + 1]
  BY <1>1 DEF ByteAt
<1>3. ByteAt(t, p) \in Leads
  BY <1>1, <1>2 DEF Between, Whole, Begins
<1>4. CharLen(t, p) = Size(ByteAt(t, p)) /\ CharLen(t, p) \in 1 .. 4
  BY <1>1, <1>2, CharLenIs
<1>5. Cp(t, p) = CodeOf(t, p)
  BY <1>1, <1>3, <1>4, CodePointIs DEF Cp
<1> QED
  BY <1>1, <1>2, <1>3, <1>4, <1>5

\* The code point does not depend on what is read ahead.
LEMMA CodeAt ==
    ASSUME NEW t, Whole(t), NEW p, Between(t, p), p < Len(t),
           NEW n \in Nat, CharLen(t, p) <= n
    PROVE  CodePoint(t, p, n) = [len |-> CharLen(t, p), cp |-> Cp(t, p)]
BY FirstIs, CodePointIs

\* It is a number.
LEMMA CpType ==
    ASSUME NEW t, Whole(t), NEW p, Between(t, p), p < Len(t)
    PROVE  Cp(t, p) \in Int
<1>1. p \in Nat /\ Len(t) \in Nat /\ ByteAt(t, p) \in Leads /\ Cp(t, p) = CodeOf(t, p)
  BY FirstIs
<1>2. ASSUME NEW q \in Nat PROVE ByteAt(t, q) \in Int
  <2>1. CASE q < Len(t)
    <3>1. q + 1 \in 1 .. Len(t)
      BY <1>1, <2>1
    <3>2. t[q + 1] \in Byte
      <4>1. \A i \in 1 .. Len(t) : t[i] \in Byte
        BY WholeFacts
      <4> QED
        BY <3>1, <4>1
    <3>3. ByteAt(t, q) = t[q + 1]
      BY <2>1 DEF ByteAt
    <3>4. Byte \subseteq Int
      BY DEF Byte
    <3> QED
      BY <3>2, <3>3, <3>4
  <2>2. CASE ~(q < Len(t))
    BY <2>2 DEF ByteAt
  <2> QED
    BY <2>1, <2>2
<1>3. /\ ByteAt(t, p) \in Int /\ ByteAt(t, p + 1) \in Int
      /\ ByteAt(t, p + 2) \in Int /\ ByteAt(t, p + 3) \in Int
  BY <1>1, <1>2
<1>4. ASSUME NEW f \in Int, NEW x \in Int, NEW y \in Int, NEW z \in Int
      PROVE  Code(f, x, y, z) \in Int
  <2>1. /\ f % 32 \in Int /\ f % 16 \in Int /\ f % 8 \in Int
        /\ x % 64 \in Int /\ y % 64 \in Int /\ z % 64 \in Int
    OBVIOUS
  <2> QED
    BY <2>1 DEF Code
<1> QED
  BY <1>1, <1>3, <1>4 DEF CodeOf

\* It is a matter of its own bytes.
LEMMA CodeSame ==
    ASSUME NEW f, NEW x, NEW y, NEW z, NEW u, NEW v, NEW w,
           Size(f) >= 2 => x = u, Size(f) >= 3 => y = v, Size(f) = 4 => z = w,
           Size(f) \in 1 .. 4
    PROVE  Code(f, x, y, z) = Code(f, u, v, w)
<1>1. CASE Size(f) = 1
  BY <1>1 DEF Code
<1>2. CASE Size(f) = 2
  <2>1. x = u
    BY <1>2
  <2> QED
    BY <1>2, <2>1 DEF Code
<1>3. CASE Size(f) = 3
  <2>1. x = u /\ y = v
    BY <1>3
  <2> QED
    BY <1>3, <2>1 DEF Code
<1>4. CASE Size(f) = 4
  <2>1. x = u /\ y = v /\ z = w
    BY <1>4
  <2> QED
    BY <2>1
<1> QED
  BY <1>1, <1>2, <1>3, <1>4

\* The same bytes are the same character.
LEMMA CpSame ==
    ASSUME NEW t, Whole(t), NEW p, Between(t, p), p < Len(t),
           NEW u, Whole(u), NEW q, Between(u, q), q < Len(u),
           \A i \in 1 .. CharLen(t, p) : u[q + i] = t[p + i]
    PROVE  CharLen(u, q) = CharLen(t, p) /\ Cp(u, q) = Cp(t, p)
<1>. DEFINE k == CharLen(t, p)
<1>1. /\ p \in Nat /\ Len(t) \in Nat /\ ByteAt(t, p) = t[p + 1]
      /\ k = Size(ByteAt(t, p)) /\ k \in 1 .. 4 /\ Cp(t, p) = CodeOf(t, p)
  BY FirstIs
<1>2. /\ q \in Nat /\ Len(u) \in Nat /\ ByteAt(u, q) = u[q + 1]
      /\ CharLen(u, q) = Size(ByteAt(u, q)) /\ Cp(u, q) = CodeOf(u, q)
  BY FirstIs
<1>3. ByteAt(u, q) = ByteAt(t, p)
  BY <1>1, <1>2
<1>4. CharLen(u, q) = k
  BY <1>1, <1>2, <1>3
<1>5. p + k <= Len(t) /\ q + k <= Len(u)
  BY <1>4, NextBetween
<1>6. \A i \in 1 .. k : u[q + i] = t[p + i]
  OBVIOUS
<1>. HIDE DEF k
<1>7. ASSUME NEW i \in 1 .. 3, i < k PROVE ByteAt(u, q + i) = ByteAt(t, p + i)
  <2>1. i + 1 \in 1 .. k /\ q + i < Len(u) /\ p + i < Len(t)
    BY <1>1, <1>2, <1>5, <1>7
  <2>2. u[q + (i + 1)] = t[p + (i + 1)]
    BY <1>6, <2>1
  <2>3. q + (i + 1) = (q + i) + 1 /\ p + (i + 1) = (p + i) + 1
    BY <1>1, <1>2
  <2> QED
    BY <2>1, <2>2, <2>3 DEF ByteAt
<1>8. /\ Size(ByteAt(t, p)) >= 2 => ByteAt(t, p + 1) = ByteAt(u, q + 1)
      /\ Size(ByteAt(t, p)) >= 3 => ByteAt(t, p + 2) = ByteAt(u, q + 2)
      /\ Size(ByteAt(t, p)) = 4 => ByteAt(t, p + 3) = ByteAt(u, q + 3)
  <2>1. k >= 2 => 1 < k
    BY <1>1
  <2>2. k >= 3 => 2 < k
    BY <1>1
  <2>3. k = 4 => 3 < k
    BY <1>1
  <2>4. 1 \in 1 .. 3 /\ 2 \in 1 .. 3 /\ 3 \in 1 .. 3
    OBVIOUS
  <2> QED
    BY <1>1, <1>7, <2>1, <2>2, <2>3, <2>4
<1>9. CodeOf(u, q) = CodeOf(t, p)
  <2>1. Size(ByteAt(t, p)) \in 1 .. 4
    BY <1>1
  <2> QED
    BY <1>3, <1>8, <2>1, CodeSame DEF CodeOf
<1> QED
  BY <1>1, <1>2, <1>4, <1>9 DEF k

-----------------------------------------------------------------------------
(* The loops over the characters of a text.                                *)

\* A character takes at most four bytes.
LEMMA CodeLen ==
    ASSUME NEW t, NEW p, NEW n
    PROVE  CodePoint(t, p, n).len \in 0 .. 4
<1>. DEFINE first == ByteAt(t, p)
            low(i) == ByteAt(t, p + i) % 64
            d == CodePoint(t, p, n)
            two == (first % 32) * 64 + low(1)
            three == (first % 16) * 4096 + low(1) * 64 + low(2)
            four == (first % 8) * 262144 + low(1) * 4096 + low(2) * 64 + low(3)
            none == [len |-> 0, cp |-> 0]
            is(k, cp) == IF n >= k THEN [len |-> k, cp |-> cp] ELSE none
            one == n # 0 /\ first < 128
            isTwo == n # 0 /\ first \div 32 = 6
            isThree == n # 0 /\ first \div 16 = 14
            isFour == n # 0 /\ first \div 8 = 30
<1>1. d = CASE n = 0 -> none
            [] one -> is(1, first)
            [] isTwo -> is(2, two)
            [] isThree -> is(3, three)
            [] isFour -> is(4, four)
            [] OTHER -> none
  BY DEF CodePoint
<1>2. \A k \in 0 .. 4 : \A cp : is(k, cp).len \in 0 .. 4
  OBVIOUS
<1>3. none.len \in 0 .. 4
  OBVIOUS
<1>4. /\ is(1, first).len \in 0 .. 4 /\ is(2, two).len \in 0 .. 4
      /\ is(3, three).len \in 0 .. 4 /\ is(4, four).len \in 0 .. 4
  <2>. HIDE DEF is, first, two, three, four
  <2> QED
    BY <1>2
<1>. DEFINE a == is(1, first)
            b == is(2, two)
            c == is(3, three)
            e == is(4, four)
<1>5. d \in {none, a, b, c, e}
  <2>. HIDE DEF is, first, two, three, four, none, one, isTwo, isThree, isFour, d
  <2>1. d = CASE n = 0 -> none [] one -> a [] isTwo -> b [] isThree -> c [] isFour -> e
              [] OTHER -> none
    BY <1>1
  <2>. HIDE DEF a, b, c, e
  <2> QED
    BY <2>1
<1>6. \A x \in {none, a, b, c, e} : x.len \in 0 .. 4
  BY <1>3, <1>4
<1>. HIDE DEF none, a, b, c, e, d
<1>7. d.len \in 0 .. 4
  BY <1>5, <1>6
<1> QED
  BY <1>7 DEF d

\* Whole characters can be counted.
LEMMA WholeReadable ==
    ASSUME NEW t, Whole(t)
    PROVE  Readable(t, Len(t))
<1>. DEFINE n == Len(t)
            len(p) == CodePoint(t, p, n - p).len
            Body(f, p) == \/ p >= n
                          \/ p >= n
                          \/ LET d == CodePoint(t, p, n - p)
                             IN  d.len > 0 /\ f[p + d.len]
            Reads(f) == f = [p \in Nat |-> Body(f, p)]
            from == CHOOSE f : Reads(f)
<1>0. n \in Nat
  BY WholeFacts
<1>1. Readable(t, n) = from[0]
  BY DEF Readable
<1>2. \A p \in Nat : len(p) \in 0 .. 4
  BY CodeLen
<1>3. \E f : Reads(f)
  <2>. DEFINE stop == [p \in Nat |-> p >= n \/ ~(len(p) > 0)]
              val == [p \in Nat |-> p >= n]
              nxt == [p \in Nat |-> p + len(p)]
              rank == [p \in Nat |-> IF p >= n THEN 0 ELSE n - p]
              G == [x \in Nat \X BOOLEAN |-> x[2]]
  <2>. HIDE DEF n, len
  <2>1. /\ rank \in [Nat -> 0 .. n] /\ stop \in [Nat -> BOOLEAN] /\ val \in [Nat -> BOOLEAN]
        /\ nxt \in [Nat -> Nat] /\ G \in [Nat \X BOOLEAN -> BOOLEAN]
    BY <1>0, <1>2
  <2>2. ASSUME NEW p \in Nat, ~stop[p] PROVE rank[nxt[p]] < rank[p]
    <3>. DEFINE k == len(p)
    <3>1. k \in 0 .. 4 /\ ~(p >= n) /\ k > 0
      <4>1. k \in 0 .. 4
        BY <1>2
      <4>2. ~(p >= n \/ ~(len(p) > 0))
        BY <2>2, Zenon
      <4> QED
        BY <4>1, <4>2
    <3>2. nxt[p] = p + k /\ p + k \in Nat
      BY <3>1
    <3>. HIDE DEF k, nxt, len
    <3> QED
      BY <1>0, <3>1, <3>2
  <2>3. PICK f \in [Nat -> BOOLEAN] : Loops(f, Nat, stop, val, nxt, G)
    <3>. HIDE DEF rank, stop, val, nxt, G
    <3> QED
      BY <1>0, <2>1, <2>2, LoopIs
  <2>4. ASSUME NEW p \in Nat PROVE f[p] <=> (p >= n \/ (len(p) > 0 /\ f[p + len(p)]))
    <3>1. f[p] = IF stop[p] THEN val[p] ELSE G[<<p, f[nxt[p]]>>]
      BY <2>3 DEF Loops
    <3>2. p + len(p) \in Nat
      BY <1>2
    <3>3. CASE stop[p]
      BY <3>1, <3>3
    <3>4. CASE ~stop[p]
      <4>1. f[p + len(p)] \in BOOLEAN
        BY <3>2
      <4>2. G[<<p, f[nxt[p]]>>] = f[p + len(p)]
        BY <4>1
      <4>3. f[p] = f[p + len(p)] /\ ~(p >= n) /\ len(p) > 0
        BY <3>1, <3>4, <4>2
      <4> QED
        BY <4>3
    <3> QED
      BY <3>3, <3>4
  <2>5. ASSUME NEW p \in Nat PROVE f[p] = Body(f, p)
    <3>1. f[p] \in BOOLEAN
      OBVIOUS
    <3>2. Body(f, p) <=> (p >= n \/ (len(p) > 0 /\ f[p + len(p)]))
      BY DEF len
    <3>3. f[p] <=> Body(f, p)
      BY <2>4, <3>2
    <3>4. Body(f, p) \in BOOLEAN
      OBVIOUS
    <3>. HIDE DEF Body
    <3> QED
      BY <3>1, <3>3, <3>4
  <2>6. f = [p \in Nat |-> Body(f, p)]
    <3>. HIDE DEF Body
    <3> QED
      BY <2>5
  <2> QED
    BY <2>6
<1>4. Reads(from)
  <2>. HIDE DEF Reads
  <2> QED
    BY <1>3
<1>. HIDE DEF from
<1>5. ASSUME NEW p \in Nat PROVE from[p] <=> (p >= n \/ (len(p) > 0 /\ from[p + len(p)]))
  <2>1. from[p] = Body(from, p)
    <3>. HIDE DEF Body
    <3> QED
      BY <1>4
  <2> QED
    BY <2>1
<1>. HIDE DEF Reads, Body, n, len
<1>. DEFINE T == {m \in Nat : \E p \in Nat : Between(t, p) /\ p + m = n /\ ~from[p]}
<1>6. T = {}
  <2>. SUFFICES ASSUME T # {} PROVE FALSE
    OBVIOUS
  <2>1. PICK m \in T : \A y \in T : m <= y
    <3>1. T \subseteq Nat
      OBVIOUS
    <3>. HIDE DEF T
    <3> QED
      BY <3>1, LeastNat
  <2>2. PICK p \in Nat : Between(t, p) /\ p + m = n /\ ~from[p]
    OBVIOUS
  <2>3. p < n /\ m \in Nat
    BY <1>0, <1>5, <2>2
  <2>4. /\ CharLen(t, p) \in 1 .. 4 /\ Between(t, p + CharLen(t, p))
        /\ p + CharLen(t, p) <= n
    BY <2>2, <2>3, NextBetween DEF n
  <2>5. CodePoint(t, p, n - p) = [len |-> CharLen(t, p), cp |-> Cp(t, p)]
    <3>1. n - p \in Nat /\ CharLen(t, p) <= n - p
      BY <1>0, <2>3, <2>4
    <3> QED
      BY <2>2, <2>3, <3>1, CodeAt DEF n
  <2>6. len(p) = CharLen(t, p)
    BY <2>5 DEF len
  <2>7. ~from[p + CharLen(t, p)]
    BY <1>5, <2>2, <2>4, <2>6
  <2>. DEFINE k == CharLen(t, p)
  <2>. HIDE DEF k
  <2>8. k \in 1 .. 4 /\ Between(t, p + k) /\ p + k <= n /\ ~from[p + k]
    BY <2>4, <2>7 DEF k
  <2>9. m - k \in Nat /\ (p + k) + (m - k) = n /\ p + k \in Nat /\ ~(m <= m - k)
    BY <1>0, <2>2, <2>3, <2>8
  <2>10. m - k \in T
    BY <2>8, <2>9
  <2> QED
    BY <2>1, <2>9, <2>10
<1>7. from[0]
  <2>1. Between(t, 0) /\ 0 + n = n
    BY <1>0, EndsBetween
  <2> QED
    BY <1>0, <1>6, <2>1
<1> QED
  BY <1>1, <1>7 DEF n

-----------------------------------------------------------------------------
(* The character at a position with its marks, and the one before it.      *)

Mark(t, q) == IsCombining(Cp(t, q))

\* All characters from p to q are marks.
Marks(t, p, q) == \A i \in Nat : p <= i /\ i < q /\ Between(t, i) => Mark(t, i)

\* Positions are numbers.
LEMMA BetweenFacts ==
    ASSUME NEW t, Whole(t), NEW p, Between(t, p)
    PROVE  p \in Nat /\ p \in 0 .. Len(t) /\ Len(t) \in Nat
BY WholeFacts DEF Between

\* Nothing is between the bytes of a character.
LEMMA NothingWithin ==
    ASSUME NEW t, Whole(t), NEW p, Between(t, p), p < Len(t),
           NEW q, Between(t, q), p < q
    PROVE  p + CharLen(t, p) <= q
<1>. DEFINE k == CharLen(t, p)
            n == Len(t)
<1>1. p \in Nat /\ q \in Nat /\ n \in Nat /\ q <= n /\ k \in 1 .. 4
      /\ p + 1 \in 1 .. n /\ k = Size(t[p + 1])
  BY BetweenFacts, FirstIs DEF Between
<1>2. \A j \in (p + 1) + 1 .. (p + 1) + k - 1 : t[j] \in Follows
  BY <1>1 DEF Whole, Between, Begins
<1>3. q < n => t[q + 1] \notin Follows
  BY DEF Between
<1>4. p + k <= n
  BY NextBetween
<1>. HIDE DEF k, n
<1>5. SUFFICES ASSUME ~(p + k <= q) PROVE FALSE
  BY DEF k
<1>6. q < n /\ q + 1 \in (p + 1) + 1 .. (p + 1) + k - 1
  BY <1>1, <1>4, <1>5
<1> QED
  BY <1>2, <1>3, <1>6

\* The loop over the marks behind a character.
LEMMA NextGrapheme ==
    ASSUME NEW t, Whole(t), NEW pos, Between(t, pos),
           NEW g, g = GraphemeLen(t, pos)
    PROVE  /\ g \in Nat /\ Between(t, pos + g) /\ pos + g <= Len(t)
           /\ pos = Len(t) => g = 0
           /\ pos < Len(t) => /\ CharLen(t, pos) <= g
                              /\ Marks(t, pos + CharLen(t, pos), pos + g)
                              /\ pos + g < Len(t) => ~Mark(t, pos + g)
<1>. DEFINE n == Len(t)
            More(p) == p < n /\ IsCombining(CodePoint(t, p, CharLen(t, p)).cp)
            Body(f, p) == IF p < n /\ IsCombining(CodePoint(t, p, CharLen(t, p)).cp)
                          THEN f[p + CharLen(t, p)] ELSE p
            Nexts(f) == f = [p \in Nat |-> Body(f, p)]
            next == CHOOSE f : Nexts(f)
<1>0. n \in Nat /\ pos \in Nat /\ pos <= n
  BY BetweenFacts
<1>1. GraphemeLen(t, pos) = IF pos = n THEN 0 ELSE next[pos + CharLen(t, pos)] - pos
  BY DEF GraphemeLen
<1>2. \A p \in Nat : p < n => CharLen(t, p) \in 1 .. 4
  <2>. SUFFICES ASSUME NEW p \in Nat, p < n PROVE CharLen(t, p) \in 1 .. 4
    OBVIOUS
  <2>1. p \in 0 .. n - 1
    BY <1>0
  <2> QED
    BY <2>1, CharLenIs
<1>3. \E f : Nexts(f)
  <2>. DEFINE stop == [p \in Nat |-> ~More(p)]
              val == [p \in Nat |-> p]
              nxt == [p \in Nat |-> IF p < n THEN p + CharLen(t, p) ELSE p]
              rank == [p \in Nat |-> IF p >= n THEN 0 ELSE n - p]
              G == [x \in Nat \X Nat |-> x[2]]
  <2>. HIDE DEF n, More
  <2>1. /\ rank \in [Nat -> 0 .. n] /\ val \in [Nat -> Nat]
        /\ nxt \in [Nat -> Nat] /\ G \in [Nat \X Nat -> Nat]
    BY <1>0, <1>2
  <2>2. stop \in [Nat -> BOOLEAN]
    OBVIOUS
  <2>3. ASSUME NEW p \in Nat, ~stop[p] PROVE rank[nxt[p]] < rank[p]
    <3>. DEFINE k == CharLen(t, p)
    <3>1. More(p)
      BY <2>3, Zenon
    <3>2. p < n
      BY <3>1 DEF More
    <3>3. k \in 1 .. 4 /\ nxt[p] = p + k
      BY <1>2, <3>2
    <3>. HIDE DEF k, nxt
    <3> QED
      BY <1>0, <3>2, <3>3
  <2>4. PICK f \in [Nat -> Nat] : Loops(f, Nat, stop, val, nxt, G)
    <3>. HIDE DEF rank, stop, val, nxt, G
    <3> QED
      BY <1>0, <2>1, <2>2, <2>3, LoopIs
  <2>5. ASSUME NEW p \in Nat PROVE f[p] = Body(f, p)
    <3>1. f[p] = IF stop[p] THEN val[p] ELSE G[<<p, f[nxt[p]]>>]
      BY <2>4 DEF Loops
    <3>2. CASE ~More(p)
      <4>1. f[p] = p
        BY <3>1, <3>2
      <4> QED
        BY <3>2, <4>1 DEF More
    <3>3. CASE More(p)
      <4>1. p < n
        BY <3>3 DEF More
      <4>2. nxt[p] = p + CharLen(t, p) /\ nxt[p] \in Nat
        BY <1>2, <4>1
      <4>3. f[nxt[p]] \in Nat
        BY <4>2
      <4>4. G[<<p, f[nxt[p]]>>] = f[nxt[p]]
        BY <4>3
      <4>5. ~stop[p]
        BY <3>3
      <4>. HIDE DEF nxt, G, stop
      <4>6. f[p] = f[p + CharLen(t, p)]
        BY <3>1, <4>2, <4>4, <4>5
      <4> QED
        BY <3>3, <4>6 DEF More
    <3> QED
      BY <3>2, <3>3
  <2>6. f = [p \in Nat |-> Body(f, p)]
    <3>. HIDE DEF Body
    <3> QED
      BY <2>5
  <2> QED
    BY <2>6
<1>4. Nexts(next)
  <2>. HIDE DEF Nexts
  <2> QED
    BY <1>3
<1>. HIDE DEF next
<1>5. ASSUME NEW p \in Nat
      PROVE  next[p] = IF More(p) THEN next[p + CharLen(t, p)] ELSE p
  <2>1. next[p] = Body(next, p)
    <3>. HIDE DEF Body
    <3> QED
      BY <1>4
  <2> QED
    BY <2>1
<1>6. ASSUME NEW p, Between(t, p), p < n PROVE More(p) <=> Mark(t, p)
  <2>1. More(p) <=> IsCombining(CodePoint(t, p, CharLen(t, p)).cp)
    BY <1>6
  <2> QED
    BY <2>1 DEF Mark, Cp
<1>. HIDE DEF Nexts, Body
<1>. DEFINE Claim(p) == /\ next[p] \in Nat /\ Between(t, next[p]) /\ p <= next[p]
                        /\ Marks(t, p, next[p])
                        /\ next[p] < n => ~Mark(t, next[p])
            T == {m \in Nat : \E p \in Nat : Between(t, p) /\ p + m = n /\ ~Claim(p)}
<1>7. T = {}
  <2>. SUFFICES ASSUME T # {} PROVE FALSE
    OBVIOUS
  <2>1. PICK m \in T : \A y \in T : m <= y
    <3>1. T \subseteq Nat
      OBVIOUS
    <3>. HIDE DEF T
    <3> QED
      BY <3>1, LeastNat
  <2>2. PICK p \in Nat : Between(t, p) /\ p + m = n /\ ~Claim(p)
    OBVIOUS
  <2>3. CASE ~More(p)
    <3>1. next[p] = p
      BY <1>5, <2>3
    <3>2. Marks(t, p, p)
      BY DEF Marks
    <3>3. p < n => ~Mark(t, p)
      BY <1>6, <2>2, <2>3
    <3> QED
      BY <2>2, <3>1, <3>2, <3>3
  <2>4. CASE More(p)
    <3>. DEFINE k == CharLen(t, p)
    <3>1. p < n /\ Mark(t, p)
      <4>1. p < n
        BY <2>4
      <4> QED
        BY <1>6, <2>2, <2>4, <4>1
    <3>2. k \in 1 .. 4 /\ Between(t, p + k) /\ p + k <= n
      BY <2>2, <3>1, NextBetween
    <3>3. next[p] = next[p + k]
      BY <1>5, <2>4
    <3>4. Claim(p + k)
      <4>. HIDE DEF Claim, k, n
      <4>1. m - k \in Nat /\ (p + k) + (m - k) = n /\ p + k \in Nat /\ ~(m <= m - k)
        BY <1>0, <2>2, <3>2
      <4>2. m - k \notin T
        BY <2>1, <4>1
      <4> QED
        BY <3>2, <4>1, <4>2
    <3>5. Marks(t, p, next[p])
      <4>. SUFFICES ASSUME NEW i \in Nat, p <= i, i < next[p], Between(t, i)
                    PROVE  Mark(t, i)
        BY DEF Marks
      <4>1. CASE i = p
        BY <3>1, <4>1
      <4>2. CASE i # p
        <5>1. p < i
          BY <2>2, <4>2
        <5>2. p + k <= i
          BY <2>2, <3>1, <5>1, NothingWithin
        <5> QED
          BY <3>3, <3>4, <5>2 DEF Marks
      <4> QED
        BY <4>1, <4>2
    <3>6. p <= next[p]
      <4>. HIDE DEF k, n
      <4>1. next[p] \in Nat /\ p + k <= next[p]
        BY <3>3, <3>4
      <4> QED
        BY <2>2, <3>2, <4>1
    <3> QED
      BY <2>2, <3>3, <3>4, <3>5, <3>6
  <2> QED
    BY <2>3, <2>4
<1>8. CASE pos = n
  <2>1. g = 0 /\ pos + 0 = pos
    BY <1>0, <1>1, <1>8
  <2> QED
    BY <1>0, <1>8, <2>1
<1>9. CASE pos # n
  <2>. DEFINE k == CharLen(t, pos)
              q == pos + k
              e == next[q]
  <2>1. pos < n
    BY <1>0, <1>9
  <2>2. k \in 1 .. 4 /\ Between(t, q) /\ q <= n
    BY <2>1, NextBetween
  <2>3. q \in Nat /\ n - q \in Nat /\ q + (n - q) = n
    <3>. HIDE DEF k, n
    <3> QED
      BY <1>0, <2>2
  <2>4. Claim(q)
    <3>. HIDE DEF Claim, q, n
    <3> QED
      BY <1>7, <2>2, <2>3
  <2>5. g = e - pos
    BY <1>1, <1>9
  <2>6. e \in Nat /\ q <= e /\ e <= n
    BY <2>4, BetweenFacts DEF Between
  <2>7. g \in Nat /\ pos + g = e /\ k <= g
    <3>. HIDE DEF e, k, n
    <3> QED
      BY <1>0, <2>2, <2>5, <2>6
  <2> QED
    BY <1>9, <2>4, <2>6, <2>7
<1> QED
  BY <1>8, <1>9

\* The character before a position, by its bytes.
LEMMA PrevChar ==
    ASSUME NEW t, Whole(t), NEW p \in 1 .. Len(t),
           NEW k, k = PrevCharLen(t, p)
    PROVE  /\ k \in 1 .. p /\ Between(t, p - k)
           /\ \A i \in Nat : p - k < i /\ i < p => ~Between(t, i)
           /\ Between(t, p) => CharLen(t, p - k) = k
<1>. DEFINE n == Len(t)
            Is(j) == /\ j = p + 1 \/ ~Continues(ByteAt(t, p - j))
                     /\ \A h \in 1 .. j - 1 : Continues(ByteAt(t, p - h))
            Starts == {j \in Nat : j \in 1 .. p /\ t[(p - j) + 1] \notin Follows}
<1>0. n \in Nat /\ p \in Nat /\ p <= n
  BY WholeFacts
<1>1. ASSUME NEW j \in 1 .. p
      PROVE  /\ Continues(ByteAt(t, p - j)) <=> t[(p - j) + 1] \in Follows
             /\ (p - j) + 1 \in 1 .. n
  <2>1. (p - j) + 1 \in 1 .. n /\ p - j < n
    BY <1>0
  <2>2. ByteAt(t, p - j) = t[(p - j) + 1]
    BY <2>1 DEF ByteAt
  <2>3. t[(p - j) + 1] \in Byte
    <3>1. \A i \in 1 .. n : t[i] \in Byte
      BY WholeFacts
    <3> QED
      BY <2>1, <3>1
  <2> QED
    BY <2>1, <2>2, <2>3, ContinuesIs
<1>2. PICK j \in Starts : \A h \in Starts : j <= h
  <2>1. p \in Starts
    <3>1. (p - p) + 1 = 1 /\ p \in 1 .. p /\ n > 0
      BY <1>0
    <3>2. t[1] \notin Follows
      BY <3>1 DEF Whole
    <3> QED
      BY <1>0, <3>1, <3>2
  <2>2. Starts \subseteq Nat
    OBVIOUS
  <2>. HIDE DEF Starts
  <2> QED
    BY <2>1, <2>2, LeastNat
<1>3. Is(j)
  <2>1. ~Continues(ByteAt(t, p - j))
    BY <1>1, <1>2
  <2>2. ASSUME NEW h \in 1 .. j - 1 PROVE Continues(ByteAt(t, p - h))
    <3>1. h \in 1 .. p /\ h \in Nat /\ ~(j <= h)
      BY <1>0, <1>2
    <3>2. h \notin Starts
      BY <1>2, <3>1
    <3> QED
      BY <1>1, <3>1, <3>2
  <2> QED
    BY <2>1, <2>2
<1>4. k \in 1 .. p + 1 /\ Is(k)
  <2>1. k = CHOOSE i \in 1 .. p + 1 : Is(i)
    BY DEF PrevCharLen
  <2>2. j \in 1 .. p + 1
    BY <1>0, <1>2
  <2>. HIDE DEF Is
  <2> QED
    BY <1>3, <2>1, <2>2
<1>5. k \in 1 .. p
  <2>. SUFFICES ASSUME k = p + 1 PROVE FALSE
    BY <1>0, <1>4
  <2>1. j \in 1 .. k - 1
    BY <1>0, <1>2
  <2>2. Continues(ByteAt(t, p - j))
    BY <1>4, <2>1
  <2> QED
    BY <1>1, <1>2, <2>2
<1>6. ~Continues(ByteAt(t, p - k)) /\ \A h \in 1 .. k - 1 : Continues(ByteAt(t, p - h))
  BY <1>0, <1>4, <1>5
<1>7. Between(t, p - k)
  <2>1. t[(p - k) + 1] \notin Follows
    BY <1>1, <1>5, <1>6
  <2>2. p - k \in 0 .. n
    BY <1>0, <1>5
  <2> QED
    BY <2>1, <2>2 DEF Between
<1>8. ASSUME NEW i \in Nat, p - k < i, i < p PROVE ~Between(t, i)
  <2>1. p - i \in 1 .. k - 1 /\ p - i \in 1 .. p /\ p - (p - i) = i /\ i < n
    BY <1>0, <1>5, <1>8
  <2>2. t[(p - (p - i)) + 1] \in Follows
    BY <1>1, <1>6, <2>1
  <2> QED
    BY <2>1, <2>2 DEF Between
<1>9. ASSUME Between(t, p) PROVE CharLen(t, p - k) = k
  <2>. DEFINE q == p - k
              c == CharLen(t, q)
  <2>1. q \in Nat /\ q < p /\ q + k = p
    BY <1>0, <1>5
  <2>2. q < n
    BY <1>0, <2>1
  <2>3. c \in 1 .. 4 /\ Between(t, q + c) /\ q + c <= p
    BY <1>7, <1>9, <2>1, <2>2, NextBetween, NothingWithin
  <2>4. ~(q + c < p)
    <3>. HIDE DEF c, q
    <3>1. q + c \in Nat /\ q < q + c
      BY <2>1, <2>3
    <3> QED
      BY <1>8, <2>3, <3>1 DEF q
  <2>. HIDE DEF c, q
  <2>5. c = k
    BY <1>0, <1>5, <2>1, <2>3, <2>4
  <2> QED
    BY <2>5 DEF c, q
<1> QED
  BY <1>5, <1>7, <1>8, <1>9

\* The loop over the marks before a position, down to a character of its own.
LEMMA PrevGrapheme ==
    ASSUME NEW t, Whole(t), NEW pos, Between(t, pos),
           NEW g, g = PrevGraphemeLen(t, pos)
    PROVE  /\ g \in Nat /\ g <= pos /\ pos - g \in Nat /\ Between(t, pos - g)
           /\ g = 0 => Marks(t, 0, pos)
           /\ g # 0 => /\ ~Mark(t, pos - g)
                       /\ Marks(t, pos - g + CharLen(t, pos - g), pos)
                       /\ CharLen(t, pos - g) <= g
<1>. DEFINE n == Len(t)
            D == 0 .. pos
            len(p) == PrevCharLen(t, p)
            Skips(p) == IsCombining(CodePoint(t, p - len(p), len(p)).cp)
            Body(f, p) == IF p = 0 THEN pos
                          ELSE IF IsCombining(CodePoint(t, p - PrevCharLen(t, p),
                                                        PrevCharLen(t, p)).cp)
                               THEN f[p - PrevCharLen(t, p)] ELSE p - PrevCharLen(t, p)
            Bases(f) == f = [p \in D |-> Body(f, p)]
            base == CHOOSE f : Bases(f)
<1>0. n \in Nat /\ pos \in Nat /\ pos <= n
  BY BetweenFacts
<1>1. PrevGraphemeLen(t, pos) = pos - base[pos]
  BY DEF PrevGraphemeLen
<1>2. ASSUME NEW p \in D, p # 0
      PROVE  /\ len(p) \in 1 .. p /\ Between(t, p - len(p))
             /\ \A i \in Nat : p - len(p) < i /\ i < p => ~Between(t, i)
             /\ Between(t, p) => CharLen(t, p - len(p)) = len(p)
  <2>1. p \in 1 .. Len(t)
    BY <1>0, <1>2
  <2> QED
    BY <2>1, PrevChar
<1>3. \E f : Bases(f)
  <2>. DEFINE stop == [p \in D |-> p = 0 \/ ~Skips(p)]
              val == [p \in D |-> IF p = 0 THEN pos ELSE p - len(p)]
              nxt == [p \in D |-> IF p = 0 THEN p ELSE p - len(p)]
              rank == [p \in D |-> p]
              G == [x \in D \X Nat |-> x[2]]
  <2>. HIDE DEF n, len, Skips
  <2>0. \A p \in D : p # 0 => p - len(p) \in D /\ p - len(p) < p /\ p - len(p) \in Nat
    <3>. SUFFICES ASSUME NEW p \in D, p # 0
                  PROVE  p - len(p) \in D /\ p - len(p) < p /\ p - len(p) \in Nat
      OBVIOUS
    <3>. DEFINE k == len(p)
    <3>1. k \in 1 .. p
      BY <1>2
    <3>. HIDE DEF k
    <3>2. p - k \in D /\ p - k < p /\ p - k \in Nat
      BY <1>0, <3>1
    <3> QED
      BY <3>2 DEF k
  <2>1. rank \in [D -> 0 .. pos] /\ G \in [D \X Nat -> Nat]
    BY <1>0
  <2>2. stop \in [D -> BOOLEAN]
    OBVIOUS
  <2>3. val \in [D -> Nat] /\ nxt \in [D -> D]
    BY <1>0, <2>0
  <2>4. ASSUME NEW p \in D, ~stop[p] PROVE rank[nxt[p]] < rank[p]
    <3>1. p # 0
      BY <2>4, Zenon
    <3>2. nxt[p] = p - len(p) /\ nxt[p] \in D
      BY <2>3, <3>1
    <3> QED
      BY <2>0, <3>1, <3>2
  <2>5. PICK f \in [D -> Nat] : Loops(f, D, stop, val, nxt, G)
    <3>. HIDE DEF rank, stop, val, nxt, G, D
    <3> QED
      BY <1>0, <2>1, <2>2, <2>3, <2>4, LoopIs
  <2>6. ASSUME NEW p \in D PROVE f[p] = Body(f, p)
    <3>1. f[p] = IF stop[p] THEN val[p] ELSE G[<<p, f[nxt[p]]>>]
      BY <2>5 DEF Loops
    <3>2. CASE p = 0
      <4>1. stop[p] /\ val[p] = pos
        BY <3>2
      <4> QED
        BY <3>1, <3>2, <4>1
    <3>3. CASE p # 0 /\ ~Skips(p)
      <4>1. stop[p] /\ val[p] = p - len(p)
        BY <3>3
      <4>2. f[p] = p - len(p)
        BY <3>1, <4>1
      <4> QED
        BY <3>3, <4>2 DEF Skips, len
    <3>4. CASE p # 0 /\ Skips(p)
      <4>1. ~stop[p] /\ nxt[p] = p - len(p) /\ nxt[p] \in D
        BY <2>3, <3>4
      <4>2. f[nxt[p]] \in Nat
        BY <4>1
      <4>3. G[<<p, f[nxt[p]]>>] = f[nxt[p]]
        BY <4>2
      <4>. HIDE DEF nxt, G, stop, val
      <4>4. f[p] = f[p - len(p)]
        BY <3>1, <4>1, <4>3
      <4> QED
        BY <3>4, <4>4 DEF Skips, len
    <3> QED
      BY <3>2, <3>3, <3>4
  <2>7. f = [p \in D |-> Body(f, p)]
    <3>. HIDE DEF Body, D
    <3> QED
      BY <2>6
  <2> QED
    BY <2>7
<1>4. Bases(base)
  <2>. HIDE DEF Bases
  <2> QED
    BY <1>3
<1>. HIDE DEF base
<1>5. ASSUME NEW p \in D
      PROVE  base[p] = IF p = 0 THEN pos ELSE IF Skips(p) THEN base[p - len(p)]
                       ELSE p - len(p)
  <2>1. base[p] = Body(base, p)
    <3>. HIDE DEF Body, D
    <3> QED
      BY <1>4
  <2> QED
    BY <2>1
<1>6. ASSUME NEW p \in D, p # 0, Between(t, p) PROVE Skips(p) <=> Mark(t, p - len(p))
  BY <1>2, <1>6 DEF Mark, Cp
<1>. HIDE DEF Bases, Body, Skips, len
<1>. DEFINE Claim(p) == LET r == base[p]
                        IN  \/ r = pos /\ Marks(t, 0, p)
                            \/ /\ r \in Nat /\ r < p /\ Between(t, r) /\ ~Mark(t, r)
                               /\ Marks(t, r + CharLen(t, r), p)
            T == {p \in Nat : p <= pos /\ Between(t, p) /\ ~Claim(p)}
<1>7. T = {}
  <2>. SUFFICES ASSUME T # {} PROVE FALSE
    OBVIOUS
  <2>1. PICK p \in T : \A y \in T : p <= y
    <3>1. T \subseteq Nat
      OBVIOUS
    <3>. HIDE DEF T
    <3> QED
      BY <3>1, LeastNat
  <2>2. p \in Nat /\ p <= pos /\ Between(t, p) /\ ~Claim(p) /\ p \in D
    BY <1>0
  <2>3. CASE p = 0
    <3>1. base[p] = pos
      BY <1>5, <2>2, <2>3
    <3>2. Marks(t, 0, p)
      BY <2>3 DEF Marks
    <3> QED
      BY <2>2, <3>1, <3>2
  <2>4. CASE p # 0
    <3>. DEFINE k == len(p)
                q == p - k
    <3>1. /\ k \in 1 .. p /\ Between(t, q) /\ CharLen(t, q) = k
          /\ \A i \in Nat : q < i /\ i < p => ~Between(t, i)
      BY <1>2, <2>2, <2>4
    <3>2. q \in Nat /\ q < p /\ q + k = p /\ q <= pos /\ ~(p <= q)
      <4>. HIDE DEF k
      <4> QED
        BY <1>0, <2>2, <3>1
    <3>3. CASE ~Skips(p)
      <4>1. base[p] = q
        BY <1>5, <2>2, <2>4, <3>3
      <4>2. ~Mark(t, q)
        BY <1>6, <2>2, <2>4, <3>3
      <4>3. Marks(t, p, p)
        BY DEF Marks
      <4> QED
        BY <2>2, <3>1, <3>2, <4>1, <4>2, <4>3
    <3>4. CASE Skips(p)
      <4>1. base[p] = base[q]
        BY <1>5, <2>2, <2>4, <3>4
      <4>2. Mark(t, q)
        BY <1>6, <2>2, <2>4, <3>4
      <4>3. Claim(q)
        <5>. HIDE DEF Claim, q
        <5>1. q \notin T
          BY <2>1, <3>2
        <5> QED
          BY <3>1, <3>2, <5>1
      <4>. DEFINE r == base[q]
      <4>4. ASSUME NEW x \in Nat, Marks(t, x, q) PROVE Marks(t, x, p)
        <5>. SUFFICES ASSUME NEW i \in Nat, x <= i, i < p, Between(t, i)
                      PROVE  Mark(t, i)
          BY DEF Marks
        <5>1. CASE i < q
          BY <4>4, <5>1 DEF Marks
        <5>2. CASE i = q
          BY <4>2, <5>2
        <5>3. CASE q < i
          BY <3>1, <5>3
        <5>. HIDE DEF q
        <5> QED
          BY <3>2, <5>1, <5>2, <5>3
      <4>5. CASE r = pos /\ Marks(t, 0, q)
        BY <2>2, <4>1, <4>4, <4>5
      <4>6. CASE /\ r \in Nat /\ r < q /\ Between(t, r) /\ ~Mark(t, r)
                 /\ Marks(t, r + CharLen(t, r), q)
        <5>1. r < p
          <6>. HIDE DEF r, q
          <6> QED
            BY <2>2, <3>2, <4>6
        <5>2. r + CharLen(t, r) \in Nat
          <6>1. q <= n
            BY <3>1, BetweenFacts DEF Between
          <6>2. r < Len(t)
            <7>. HIDE DEF r, q
            <7> QED
              BY <1>0, <3>2, <4>6, <6>1
          <6>3. CharLen(t, r) \in 1 .. 4
            BY <4>6, <6>2, NextBetween
          <6> QED
            BY <4>6, <6>3
        <5>3. Marks(t, r + CharLen(t, r), p)
          BY <4>4, <4>6, <5>2
        <5> QED
          BY <2>2, <4>1, <4>6, <5>1, <5>3
      <4> QED
        BY <4>3, <4>5, <4>6
    <3> QED
      BY <3>3, <3>4
  <2> QED
    BY <2>3, <2>4
<1>. DEFINE r == base[pos]
<1>8. Claim(pos)
  <2>. HIDE DEF Claim
  <2> QED
    BY <1>0, <1>7
<1>9. g = pos - r
  BY <1>1
<1>10. CASE r = pos /\ Marks(t, 0, pos)
  <2>1. g = 0 /\ pos - g = pos
    BY <1>0, <1>9, <1>10
  <2> QED
    BY <1>0, <1>10, <2>1
<1>11. CASE /\ r \in Nat /\ r < pos /\ Between(t, r) /\ ~Mark(t, r)
            /\ Marks(t, r + CharLen(t, r), pos)
  <2>1. r < Len(t)
    BY <1>0, <1>11
  <2>2. r + CharLen(t, r) <= pos /\ CharLen(t, r) \in 1 .. 4
    BY <1>11, <2>1, NothingWithin, NextBetween
  <2>. HIDE DEF r
  <2>3. pos - g = r /\ g \in Nat /\ g <= pos /\ g # 0 /\ CharLen(t, r) <= g
    BY <1>0, <1>9, <1>11, <2>2
  <2> QED
    BY <1>11, <2>3 DEF r
<1> QED
  BY <1>8, <1>10, <1>11

-----------------------------------------------------------------------------
(* The characters of a text.                                               *)

\* What Decoded goes through.
LEMMA DecodedRun ==
    ASSUME NEW t, Whole(t)
    PROVE  \E f : /\ Decoded(t) = f[0]
                  /\ \A p \in Nat : Between(t, p) =>
                        f[p] = IF p = Len(t) THEN <<>>
                               ELSE <<Cp(t, p)>> \o f[p + CharLen(t, p)]
<1>. DEFINE n == Len(t)
            len(p) == CodePoint(t, p, n - p).len
            cp(p) == CodePoint(t, p, n - p).cp
            Body(f, p) == IF p >= n THEN <<>>
                          ELSE LET d == CodePoint(t, p, n - p)
                               IN  IF d.len = 0 THEN <<>> ELSE <<d.cp>> \o f[p + d.len]
            Runs(f) == f = [p \in Nat |-> Body(f, p)]
            from == CHOOSE f : Runs(f)
            S == {cp(p) : p \in Nat}
<1>0. n \in Nat
  BY WholeFacts
<1>1. Decoded(t) = from[0]
  BY DEF Decoded
<1>2. \A p \in Nat : len(p) \in 0 .. 4
  BY CodeLen
<1>3. \E f : Runs(f)
  <2>. DEFINE stop == [p \in Nat |-> p >= n \/ len(p) = 0]
              val == [p \in Nat |-> <<>>]
              nxt == [p \in Nat |-> p + len(p)]
              rank == [p \in Nat |-> IF p >= n THEN 0 ELSE n - p]
              G == [x \in Nat \X Seq(S) |-> <<cp(x[1])>> \o x[2]]
  <2>. HIDE DEF n, len, cp
  <2>1. /\ rank \in [Nat -> 0 .. n] /\ stop \in [Nat -> BOOLEAN]
        /\ nxt \in [Nat -> Nat]
    BY <1>0, <1>2
  <2>2. val \in [Nat -> Seq(S)]
    OBVIOUS
  <2>3. \A p \in Nat : cp(p) \in S
    OBVIOUS
  <2>4. G \in [Nat \X Seq(S) -> Seq(S)]
    <3>. SUFFICES ASSUME NEW p \in Nat, NEW s \in Seq(S) PROVE <<cp(p)>> \o s \in Seq(S)
      OBVIOUS
    <3>. HIDE DEF S
    <3>1. <<cp(p)>> \in Seq(S)
      BY <2>3
    <3> QED
      BY <3>1
  <2>5. ASSUME NEW p \in Nat, ~stop[p] PROVE rank[nxt[p]] < rank[p]
    <3>. DEFINE k == len(p)
    <3>1. k \in 0 .. 4 /\ ~(p >= n) /\ k # 0
      <4>1. k \in 0 .. 4
        BY <1>2
      <4>2. ~(p >= n \/ len(p) = 0)
        BY <2>5, Zenon
      <4> QED
        BY <4>1, <4>2
    <3>2. nxt[p] = p + k /\ p + k \in Nat
      BY <3>1
    <3>. HIDE DEF k, nxt
    <3> QED
      BY <1>0, <3>1, <3>2
  <2>6. PICK f \in [Nat -> Seq(S)] : Loops(f, Nat, stop, val, nxt, G)
    <3>. HIDE DEF rank, stop, val, nxt, G, S
    <3> QED
      BY <1>0, <2>1, <2>2, <2>4, <2>5, LoopIs
  <2>7. ASSUME NEW p \in Nat PROVE f[p] = Body(f, p)
    <3>1. f[p] = IF stop[p] THEN val[p] ELSE G[<<p, f[nxt[p]]>>]
      BY <2>6 DEF Loops
    <3>2. CASE p >= n
      <4>1. stop[p] /\ val[p] = <<>>
        BY <3>2
      <4> QED
        BY <3>1, <3>2, <4>1
    <3>3. CASE ~(p >= n) /\ len(p) = 0
      <4>1. stop[p] /\ val[p] = <<>>
        BY <3>3
      <4>2. f[p] = <<>>
        BY <3>1, <4>1
      <4> QED
        BY <3>3, <4>2 DEF len
    <3>4. CASE ~(p >= n) /\ ~(len(p) = 0)
      <4>1. ~stop[p] /\ nxt[p] = p + len(p)
        BY <3>4
      <4>2. f[nxt[p]] \in Seq(S)
        <5>1. nxt[p] \in Nat
          BY <2>1
        <5>. HIDE DEF nxt, S
        <5> QED
          BY <5>1
      <4>3. G[<<p, f[nxt[p]]>>] = <<cp(p)>> \o f[nxt[p]]
        BY <4>2
      <4>. HIDE DEF nxt, G, stop, val
      <4>4. f[p] = <<cp(p)>> \o f[p + len(p)]
        BY <3>1, <4>1, <4>3
      <4> QED
        BY <3>4, <4>4 DEF cp, len
    <3> QED
      BY <3>2, <3>3, <3>4
  <2>8. f = [p \in Nat |-> Body(f, p)]
    <3>. HIDE DEF Body
    <3> QED
      BY <2>7
  <2> QED
    BY <2>8
<1>4. Runs(from)
  <2>. HIDE DEF Runs
  <2> QED
    BY <1>3
<1>. HIDE DEF from
<1>5. ASSUME NEW p \in Nat, Between(t, p)
      PROVE  from[p] = IF p = n THEN <<>> ELSE <<Cp(t, p)>> \o from[p + CharLen(t, p)]
  <2>1. from[p] = Body(from, p)
    <3>. HIDE DEF Body
    <3> QED
      BY <1>4
  <2>2. CASE p = n
    <3>1. p >= n
      BY <1>0, <2>2
    <3> QED
      BY <2>1, <2>2, <3>1
  <2>3. CASE p # n
    <3>1. p < n /\ ~(p >= n) /\ n - p \in Nat
      BY <1>0, <1>5, <2>3, BetweenFacts
    <3>2. CharLen(t, p) \in 1 .. 4 /\ CharLen(t, p) <= n - p
      <4>1. CharLen(t, p) \in 1 .. 4 /\ p + CharLen(t, p) <= n
        BY <1>5, <3>1, NextBetween
      <4> QED
        BY <1>0, <4>1
    <3>3. CodePoint(t, p, n - p) = [len |-> CharLen(t, p), cp |-> Cp(t, p)]
      BY <1>5, <3>1, <3>2, CodeAt
    <3>4. len(p) = CharLen(t, p) /\ cp(p) = Cp(t, p) /\ ~(len(p) = 0)
      BY <3>2, <3>3
    <3>5. from[p] = <<cp(p)>> \o from[p + len(p)]
      BY <2>1, <3>1, <3>4
    <3> QED
      BY <2>3, <3>4, <3>5
  <2> QED
    BY <2>2, <2>3
<1> QED
  BY <1>1, <1>5

\* The empty text has no characters.
LEMMA DecodedEmpty == Decoded(<<>>) = <<>>
<1>1. Whole(<<>>) /\ Between(<<>>, 0) /\ Len(<<>>) = 0
  BY EmptyWhole
<1> QED
  BY <1>1, DecodedRun

\* The first character, and the rest.
Rest(t) == SubSeq(t, CharLen(t, 0) + 1, Len(t))

\* ... and what they are: one, and those of the rest.
LEMMA DecodedFirst ==
    ASSUME NEW t, Whole(t), Len(t) > 0
    PROVE  /\ Whole(Rest(t)) /\ Len(Rest(t)) \in Nat /\ Len(Rest(t)) < Len(t)
           /\ Len(t) - 4 <= Len(Rest(t))
           /\ Decoded(t) = <<Cp(t, 0)>> \o Decoded(Rest(t))
           /\ Cp(t, 0) \in Int
<1>. DEFINE n == Len(t)
            k == CharLen(t, 0)
            u == Rest(t)
<1>0. n \in Nat /\ Between(t, 0) /\ t \in Seq(Byte)
  BY WholeFacts, EndsBetween
<1>1. k \in 1 .. 4 /\ Between(t, k) /\ k <= n
  BY <1>0, NextBetween
<1>2. Whole(u) /\ Len(u) = n - k
  BY <1>1, CutWhole DEF Rest
<1>3. \A i \in 1 .. n - k : u[i] = t[k + i]
  <2>1. k \in 0 .. n
    BY <1>0, <1>1
  <2> QED
    BY <1>0, <2>1, CutFacts DEF Rest
<1>4. PICK f : /\ Decoded(t) = f[0]
               /\ \A p \in Nat : Between(t, p) =>
                     f[p] = IF p = n THEN <<>> ELSE <<Cp(t, p)>> \o f[p + CharLen(t, p)]
  BY DecodedRun
<1>5. PICK g : /\ Decoded(u) = g[0]
               /\ \A p \in Nat : Between(u, p) =>
                     g[p] = IF p = Len(u) THEN <<>> ELSE <<Cp(u, p)>> \o g[p + CharLen(u, p)]
  BY <1>2, DecodedRun
<1>6. f[0] = <<Cp(t, 0)>> \o f[k]
  <2>1. f[0] = <<Cp(t, 0)>> \o f[0 + k]
    <3>1. 0 \in Nat /\ 0 # n
      BY <1>0
    <3>2. f[0] = IF 0 = n THEN <<>> ELSE <<Cp(t, 0)>> \o f[0 + k]
      BY <1>0, <1>4, <3>1
    <3> QED
      BY <3>1, <3>2
  <2>2. 0 + k = k
    BY <1>1
  <2> QED
    BY <2>1, <2>2
<1>. HIDE DEF k, u, n
<1>7. ASSUME NEW q \in Nat, Between(u, q)
      PROVE  Between(t, k + q) /\ k + q \in Nat /\ (k + q = n <=> q = Len(u))
             /\ (q < Len(u) <=> k + q < n)
  <2>1. q <= n - k /\ (q < n - k => u[q + 1] \notin Follows)
    BY <1>0, <1>1, <1>2, <1>7 DEF Between
  <2>2. k + q \in 0 .. n
    BY <1>0, <1>1, <2>1
  <2>3. k + q < n => t[(k + q) + 1] \notin Follows
    <3>. SUFFICES ASSUME k + q < n PROVE t[(k + q) + 1] \notin Follows
      OBVIOUS
    <3>1. q + 1 \in 1 .. n - k /\ q < n - k /\ k + (q + 1) = (k + q) + 1
      BY <1>0, <1>1
    <3> QED
      BY <1>3, <2>1, <3>1
  <2> QED
    BY <1>0, <1>1, <1>2, <2>1, <2>2, <2>3 DEF Between, n
<1>. DEFINE T == {m \in Nat : \E q \in Nat : Between(u, q) /\ q + m = Len(u)
                                            /\ f[k + q] # g[q]}
<1>8. T = {}
  <2>. SUFFICES ASSUME T # {} PROVE FALSE
    OBVIOUS
  <2>1. PICK m \in T : \A y \in T : m <= y
    <3>1. T \subseteq Nat
      OBVIOUS
    <3>. HIDE DEF T
    <3> QED
      BY <3>1, LeastNat
  <2>2. PICK q \in Nat : Between(u, q) /\ q + m = Len(u) /\ f[k + q] # g[q]
    OBVIOUS
  <2>3. Between(t, k + q) /\ k + q \in Nat /\ (k + q = n <=> q = Len(u))
        /\ (q < Len(u) <=> k + q < n) /\ Len(u) \in Nat
    BY <1>2, <1>7, <2>2, WholeFacts
  <2>4. CASE q = Len(u)
    BY <1>4, <1>5, <2>2, <2>3, <2>4
  <2>5. CASE q # Len(u)
    <3>1. q < Len(u) /\ k + q < Len(t)
      BY <2>2, <2>3, <2>5 DEF n
    <3>. DEFINE c == CharLen(u, q)
    <3>2. c \in 1 .. 4 /\ Between(u, q + c) /\ q + c <= Len(u)
      BY <1>2, <2>2, <3>1, NextBetween
    <3>3. ASSUME NEW i \in 1 .. c PROVE t[(k + q) + i] = u[q + i]
      <4>. HIDE DEF c
      <4>1. i \in Nat /\ 1 <= i /\ i <= c
        BY <3>2
      <4>2. q + i <= n - k
        BY <1>0, <1>1, <1>2, <3>2, <4>1, SMTT(40)
      <4>3. q + i \in 1 .. n - k /\ k + (q + i) = (k + q) + i
        BY <1>0, <1>1, <4>1, <4>2
      <4> QED
        BY <1>3, <4>3
    <3>4. CharLen(t, k + q) = c /\ Cp(t, k + q) = Cp(u, q)
      <4>1. Whole(u) /\ Between(u, q) /\ q < Len(u) /\ Between(t, k + q) /\ k + q < Len(t)
        BY <1>2, <2>2, <2>3, <3>1
      <4>2. \A i \in 1 .. CharLen(u, q) : t[(k + q) + i] = u[q + i]
        BY <3>3
      <4> QED
        BY <4>1, <4>2, CpSame
    <3>. HIDE DEF c
    <3>5. f[k + q] = <<Cp(u, q)>> \o f[(k + q) + c]
      BY <1>4, <2>3, <2>5, <3>4
    <3>6. g[q] = <<Cp(u, q)>> \o g[q + c]
      BY <1>5, <2>2, <2>5 DEF c
    <3>7. m - c \in Nat /\ (q + c) + (m - c) = Len(u) /\ q + c \in Nat /\ ~(m <= m - c)
          /\ (k + q) + c = k + (q + c)
      BY <1>1, <2>2, <2>3, <3>1, <3>2, SMTT(40)
    <3>8. m - c \notin T
      BY <2>1, <3>7
    <3>9. f[k + (q + c)] = g[q + c]
      BY <3>2, <3>7, <3>8
    <3> QED
      BY <2>2, <3>5, <3>6, <3>7, <3>9
  <2> QED
    BY <2>4, <2>5
<1>9. f[k] = g[0]
  <2>1. Between(u, 0) /\ Len(u) \in Nat /\ 0 + Len(u) = Len(u) /\ k + 0 = k
    BY <1>1, <1>2, EndsBetween, WholeFacts
  <2>2. Len(u) \notin T
    BY <1>8
  <2>3. f[k + 0] = g[0]
    BY <2>1, <2>2
  <2> QED
    BY <2>1, <2>3
<1>10. Decoded(t) = <<Cp(t, 0)>> \o Decoded(u)
  BY <1>4, <1>5, <1>6, <1>9
<1>11. Len(u) \in Nat /\ Len(u) < n /\ n - 4 <= Len(u)
  BY <1>0, <1>1, <1>2
<1>12. Cp(t, 0) \in Int
  BY <1>0, CpType
<1> QED
  BY <1>2, <1>10, <1>11, <1>12 DEF u, n

\* Each character has one to four bytes.
LEMMA DecodedIs ==
    ASSUME NEW t, Whole(t)
    PROVE  /\ Decoded(t) \in Seq(Int) /\ Len(Decoded(t)) \in Nat
           /\ Len(t) <= 4 * Len(Decoded(t))
<1>. DEFINE Claim(u) == Decoded(u) \in Seq(Int) /\ Len(u) <= 4 * Len(Decoded(u))
            T == {m \in Nat : \E u : Whole(u) /\ Len(u) = m /\ ~Claim(u)}
<1>1. T = {}
  <2>. SUFFICES ASSUME T # {} PROVE FALSE
    OBVIOUS
  <2>1. PICK m \in T : \A y \in T : m <= y
    <3>1. T \subseteq Nat
      OBVIOUS
    <3>. HIDE DEF T
    <3> QED
      BY <3>1, LeastNat
  <2>2. PICK u : Whole(u) /\ Len(u) = m /\ ~Claim(u)
    OBVIOUS
  <2>3. u \in Seq(Byte) /\ m \in Nat
    BY <2>2, WholeFacts
  <2>4. CASE m = 0
    <3>1. u = <<>>
      BY <2>2, <2>3, <2>4
    <3>2. Decoded(u) = <<>>
      BY <3>1, DecodedEmpty
    <3> QED
      BY <2>2, <2>4, <3>2
  <2>5. CASE m # 0
    <3>. DEFINE r == Rest(u)
    <3>1. /\ Whole(r) /\ Len(r) \in Nat /\ Len(r) < m /\ m - 4 <= Len(r)
          /\ Decoded(u) = <<Cp(u, 0)>> \o Decoded(r) /\ Cp(u, 0) \in Int
      BY <2>2, <2>3, <2>5, DecodedFirst
    <3>2. Claim(r)
      <4>. HIDE DEF Claim, r
      <4>1. Len(r) \notin T
        BY <2>1, <2>3, <3>1
      <4> QED
        BY <3>1, <4>1
    <3>3. Decoded(r) \in Seq(Int) /\ Len(Decoded(r)) \in Nat /\ Len(r) <= 4 * Len(Decoded(r))
      BY <3>2
    <3>4. Decoded(u) \in Seq(Int) /\ Len(Decoded(u)) = 1 + Len(Decoded(r))
      BY <3>1, <3>3
    <3>. HIDE DEF r
    <3> QED
      BY <2>2, <2>3, <3>1, <3>3, <3>4
  <2> QED
    BY <2>4, <2>5
<1>2. Len(t) \in Nat
  BY WholeFacts
<1>3. Claim(t)
  <2>. HIDE DEF Claim
  <2> QED
    BY <1>1, <1>2
<1> QED
  BY <1>3

\* Joining is associative.
LEMMA ThreeJoined == \A x, y, z \in Seq(Int) : x \o (y \o z) = (x \o y) \o z
OBVIOUS

\* What is first in two texts is first in the first of them.
LEMMA FirstOfJoin ==
    ASSUME NEW u, NEW v, Whole(u), Whole(v), Len(u) > 0
    PROVE  Cp(u \o v, 0) = Cp(u, 0) /\ Rest(u \o v) = Rest(u) \o v
<1>. DEFINE w == u \o v
            m == Len(u)
            n == Len(v)
            k == CharLen(u, 0)
<1>1. /\ Whole(w) /\ Len(w) = m + n /\ m \in Nat /\ n \in Nat /\ m > 0
      /\ u \in Seq(Byte) /\ v \in Seq(Byte) /\ w \in Seq(Byte)
  BY JoinWhole, WholeFacts
<1>2. (\A i \in 1 .. m : w[i] = u[i]) /\ \A i \in 1 .. n : w[m + i] = v[i]
  BY <1>1, JoinFacts
<1>3. Between(u, 0) /\ Between(w, 0) /\ 0 < Len(w)
  BY <1>1, EndsBetween
<1>4. k \in 1 .. 4 /\ k <= m /\ Between(u, k)
  BY <1>1, <1>3, NextBetween
<1>5. CharLen(w, 0) = k /\ Cp(w, 0) = Cp(u, 0)
  <2>1. \A i \in 1 .. k : w[0 + i] = u[0 + i]
    <3>. HIDE DEF w, k, m
    <3>1. \A i \in 1 .. k : i \in 1 .. m /\ 0 + i = i
      BY <1>1, <1>4
    <3> QED
      BY <1>2, <3>1
  <2>. HIDE DEF w
  <2> QED
    BY <1>1, <1>3, <2>1, CpSame
<1>6. Rest(w) = SubSeq(w, k + 1, m + n)
  BY <1>1, <1>5 DEF Rest
<1>7. Rest(u) = SubSeq(u, k + 1, m)
  BY DEF Rest
<1>. DEFINE x == SubSeq(w, k + 1, m + n)
            y == SubSeq(u, k + 1, m)
<1>. HIDE DEF w, k
<1>8. k \in 0 .. m + n /\ k \in 0 .. m
  BY <1>1, <1>4
<1>9. x \in Seq(Byte) /\ Len(x) = m + n - k /\ \A i \in 1 .. m + n - k : x[i] = w[k + i]
  <2>. DEFINE q == m + n
  <2>1. q = Len(w) /\ k \in 0 .. Len(w)
    BY <1>1, <1>8
  <2>2. /\ SubSeq(w, k + 1, Len(w)) \in Seq(Byte) /\ Len(SubSeq(w, k + 1, Len(w))) = Len(w) - k
        /\ \A i \in 1 .. Len(w) - k : SubSeq(w, k + 1, Len(w))[i] = w[k + i]
    BY <1>1, <2>1, CutFacts
  <2> QED
    BY <2>1, <2>2
<1>10. y \in Seq(Byte) /\ Len(y) = m - k /\ \A i \in 1 .. m - k : y[i] = u[k + i]
  BY <1>1, <1>8, CutFacts
<1>11. /\ y \o v \in Seq(Byte) /\ Len(y \o v) = (m - k) + n
       /\ \A i \in 1 .. m - k : (y \o v)[i] = y[i]
       /\ \A i \in 1 .. n : (y \o v)[(m - k) + i] = v[i]
  <2>. HIDE DEF x, y, m, n
  <2>0. y \in Seq(Byte) /\ v \in Seq(Byte)
    BY <1>1, <1>10
  <2>1. /\ y \o v \in Seq(Byte) /\ Len(y \o v) = Len(y) + Len(v)
        /\ \A i \in 1 .. Len(y) : (y \o v)[i] = y[i]
        /\ \A i \in 1 .. Len(v) : (y \o v)[Len(y) + i] = v[i]
    BY ONLY <2>0, JoinFacts
  <2> QED
    BY <1>10, <2>1 DEF n
<1>. HIDE DEF x, y, m, n
<1>12. ASSUME NEW i \in 1 .. m + n - k PROVE x[i] = (y \o v)[i]
  <2>1. CASE i <= m - k
    <3>1. i \in 1 .. m - k /\ k + i \in 1 .. m
      BY <1>1, <1>4, <2>1
    <3> QED
      BY <1>2, <1>9, <1>10, <1>11, <3>1
  <2>2. CASE ~(i <= m - k)
    <3>. DEFINE j == i - (m - k)
    <3>1. j \in 1 .. n /\ (m - k) + j = i /\ m + j = k + i
      BY <1>1, <1>4, <2>2
    <3>. HIDE DEF j
    <3>2. (y \o v)[(m - k) + j] = v[j] /\ w[m + j] = v[j]
      BY <1>2, <1>11, <3>1
    <3> QED
      BY <1>9, <3>1, <3>2
  <2> QED
    BY <2>1, <2>2
<1>13. x = y \o v
  <2>1. (m - k) + n = m + n - k
    BY <1>1, <1>4
  <2> QED
    BY <1>9, <1>11, <1>12, <2>1, SeqEqual
<1> QED
  BY <1>5, <1>6, <1>7, <1>13 DEF x, y, w, m, n

\* The characters of two texts are those of one and those of the other.
LEMMA DecodedJoin ==
    ASSUME NEW t, NEW v, Whole(t), Whole(v)
    PROVE  Decoded(t \o v) = Decoded(t) \o Decoded(v)
<1>. DEFINE T == {m \in Nat : \E u : Whole(u) /\ Len(u) = m
                                      /\ Decoded(u \o v) # Decoded(u) \o Decoded(v)}
<1>0. Decoded(v) \in Seq(Int) /\ v \in Seq(Byte)
  BY DecodedIs, WholeFacts
<1>1. T = {}
  <2>. SUFFICES ASSUME T # {} PROVE FALSE
    OBVIOUS
  <2>1. PICK m \in T : \A y \in T : m <= y
    <3>1. T \subseteq Nat
      OBVIOUS
    <3>. HIDE DEF T
    <3> QED
      BY <3>1, LeastNat
  <2>2. PICK u : Whole(u) /\ Len(u) = m /\ Decoded(u \o v) # Decoded(u) \o Decoded(v)
    OBVIOUS
  <2>3. u \in Seq(Byte) /\ m \in Nat
    BY <2>2, WholeFacts
  <2>4. CASE m = 0
    <3>1. u = <<>>
      BY <2>2, <2>3, <2>4
    <3>2. Decoded(u) = <<>> /\ u \o v = v
      BY <1>0, <3>1, DecodedEmpty
    <3> QED
      BY <1>0, <2>2, <3>2
  <2>5. CASE m # 0
    <3>. DEFINE r == Rest(u)
                c == Cp(u, 0)
    <3>2. Len(u) > 0
      BY <2>2, <2>3, <2>5
    <3>1. /\ Whole(r) /\ Len(r) \in Nat /\ Len(r) < m
          /\ Decoded(u) = <<c>> \o Decoded(r) /\ c \in Int
      BY <2>2, <3>2, DecodedFirst
    <3>3. Whole(u \o v) /\ Len(u \o v) > 0
      <4>1. Whole(u \o v) /\ Len(u \o v) = Len(u) + Len(v)
        BY <2>2, JoinWhole
      <4>2. Len(v) \in Nat /\ Len(u) \in Nat
        BY <2>2, WholeFacts
      <4> QED
        BY <3>2, <4>1, <4>2
    <3>4. Decoded(u \o v) = <<c>> \o Decoded(r \o v)
      <4>. DEFINE w == u \o v
      <4>1. Cp(w, 0) = c /\ Rest(w) = r \o v
        BY <2>2, <3>2, FirstOfJoin
      <4>2. Decoded(w) = <<Cp(w, 0)>> \o Decoded(Rest(w))
        <5>. HIDE DEF w
        <5>1. Whole(w) /\ Len(w) > 0
          BY <3>3 DEF w
        <5> QED
          BY <5>1, DecodedFirst
      <4>. HIDE DEF w, c, r
      <4>3. Decoded(w) = <<c>> \o Decoded(r \o v)
        BY <4>1, <4>2
      <4> QED
        BY <4>3 DEF w
    <3>5. Decoded(r \o v) = Decoded(r) \o Decoded(v)
      <4>. HIDE DEF r
      <4>1. Len(r) \notin T
        BY <2>1, <2>3, <3>1
      <4> QED
        BY <3>1, <4>1
    <3>6. Decoded(r) \in Seq(Int)
      BY <3>1, DecodedIs
    <3>. HIDE DEF r, c
    <3>7. <<c>> \o (Decoded(r) \o Decoded(v)) = (<<c>> \o Decoded(r)) \o Decoded(v)
      <4>1. <<c>> \in Seq(Int)
        BY <3>1
      <4> QED
        BY <1>0, <3>6, <4>1, ThreeJoined, Zenon
    <3> QED
      BY <2>2, <3>1, <3>4, <3>5, <3>7
  <2> QED
    BY <2>4, <2>5
<1>2. Len(t) \in Nat
  BY WholeFacts
<1> QED
  BY <1>1, <1>2

\* It is a text of one character.
LEMMA CharIs ==
    ASSUME NEW c, IsChar(c)
    PROVE  /\ Whole(c) /\ Len(c) \in 1 .. 4 /\ CharLen(c, 0) = Len(c)
           /\ Decoded(c) = <<Cp(c, 0)>> /\ Cp(c, 0) \in Int
<1>1. /\ c \in Seq(Byte) /\ Len(c) \in 1 .. 4 /\ 1 \in 1 .. Len(c) /\ c[1] \in Byte
      /\ Len(c) = Size(c[1]) /\ c[1] \in Leads
  <2>1. c \in Seq(Byte) /\ Len(c) > 0 /\ Len(c) \in Nat
    BY DEF IsChar
  <2>2. 1 \in 1 .. Len(c)
    BY <2>1
  <2>3. c[1] \in Byte
    BY <2>1, <2>2
  <2> QED
    BY <2>1, <2>2, <2>3, SizeFacts DEF IsChar
<1>2. c[1] \notin Follows
  <2>1. \A b \in Leads : b \notin Follows
    BY DEF Leads, Follows
  <2> QED
    BY <1>1, <2>1
<1>3. Begins(c, 1)
  <2>1. \A j \in 1 + 1 .. 1 + Size(c[1]) - 1 : c[j] \in Follows
    BY <1>1 DEF IsChar
  <2>2. 1 + Size(c[1]) - 1 <= Len(c) /\ ~(1 + Size(c[1]) <= Len(c))
    BY <1>1
  <2> QED
    BY <1>1, <2>1, <2>2 DEF Begins
<1>4. ASSUME NEW i \in 1 .. Len(c), c[i] \notin Follows PROVE i = 1
  <2>1. i # 1 => i \in 2 .. Len(c)
    BY <1>1
  <2> QED
    BY <1>4, <2>1 DEF IsChar
<1>5. Whole(c)
  BY <1>1, <1>2, <1>3, <1>4 DEF Whole
<1>6. CharLen(c, 0) = Len(c)
  <2>1. 0 \in 0 .. Len(c) - 1 /\ 0 + 1 = 1
    BY <1>1
  <2> QED
    BY <1>1, <1>5, <2>1, CharLenIs
<1>7. Rest(c) = <<>>
  BY <1>1, <1>6 DEF Rest
<1>8. Decoded(c) = <<Cp(c, 0)>> \o <<>> /\ Cp(c, 0) \in Int
  <2>1. Len(c) > 0
    BY <1>1
  <2> QED
    BY <1>5, <1>7, <2>1, DecodedFirst, DecodedEmpty
<1> QED
  BY <1>1, <1>5, <1>6, <1>8

\* What is a character before a cut is one of the whole text.
LEMMA BeforeCut ==
    ASSUME NEW t, Whole(t), NEW q, Between(t, q),
           NEW p, Between(SubSeq(t, 1, q), p), p < Len(SubSeq(t, 1, q))
    PROVE  /\ Between(t, p) /\ p < Len(t) /\ p < q
           /\ Cp(SubSeq(t, 1, q), p) = Cp(t, p)
<1>. DEFINE x == SubSeq(t, 1, q)
            y == SubSeq(t, q + 1, Len(t))
<1>1. t \in Seq(Byte) /\ Len(t) \in Nat /\ q \in 0 .. Len(t) /\ q \in Nat
  BY WholeFacts, BetweenFacts
<1>2. Whole(x) /\ Whole(y) /\ Len(x) = q /\ Len(y) = Len(t) - q
  BY CutWhole
<1>3. (\A i \in 1 .. q : x[i] = t[i]) /\ \A i \in 1 .. Len(t) - q : y[i] = t[q + i]
  BY <1>1, CutFacts
<1>0. Between(x, p) /\ p < Len(x)
  OBVIOUS
<1>. HIDE DEF x, y
<1>4. p \in Nat /\ p + 1 \in 1 .. q /\ p \in 0 .. Len(t) /\ p < Len(t)
  BY <1>0, <1>1, <1>2, BetweenFacts
<1>5. x[p + 1] \notin Follows /\ x[p + 1] = t[p + 1]
  BY <1>0, <1>3, <1>4 DEF Between
<1>6. Between(t, p)
  BY <1>4, <1>5 DEF Between
<1>. DEFINE k == CharLen(x, p)
<1>7. k \in 1 .. 4 /\ p + k <= q
  BY <1>0, <1>2, NextBetween
<1>8. \A i \in 1 .. k : t[p + i] = x[p + i]
  <2>. HIDE DEF k
  <2>1. \A i \in 1 .. k : p + i \in 1 .. q
    BY <1>1, <1>4, <1>7
  <2> QED
    BY <1>3, <2>1
<1>9. /\ Whole(x) /\ Between(x, p) /\ p < Len(x)
      /\ Whole(t) /\ Between(t, p) /\ p < Len(t)
  BY <1>0, <1>2, <1>4, <1>6
<1>10. CharLen(t, p) = CharLen(x, p) /\ Cp(t, p) = Cp(x, p)
  BY ONLY <1>8, <1>9, CpSame
<1> QED
  BY <1>2, <1>9, <1>10 DEF x

\* The same behind a cut.
LEMMA BehindCut ==
    ASSUME NEW t, Whole(t), NEW q, Between(t, q), NEW p,
           Between(SubSeq(t, q + 1, Len(t)), p), p < Len(SubSeq(t, q + 1, Len(t)))
    PROVE  /\ Between(t, q + p) /\ q + p < Len(t)
           /\ Cp(SubSeq(t, q + 1, Len(t)), p) = Cp(t, q + p)
<1>. DEFINE x == SubSeq(t, 1, q)
            y == SubSeq(t, q + 1, Len(t))
<1>1. t \in Seq(Byte) /\ Len(t) \in Nat /\ q \in 0 .. Len(t) /\ q \in Nat
  BY WholeFacts, BetweenFacts
<1>2. Whole(x) /\ Whole(y) /\ Len(x) = q /\ Len(y) = Len(t) - q
  BY CutWhole
<1>3. (\A i \in 1 .. q : x[i] = t[i]) /\ \A i \in 1 .. Len(t) - q : y[i] = t[q + i]
  BY <1>1, CutFacts
<1>0. Between(y, p) /\ p < Len(y)
  OBVIOUS
<1>. HIDE DEF x, y
<1>4. /\ p \in Nat /\ p + 1 \in 1 .. Len(t) - q /\ q + p \in 0 .. Len(t) /\ q + p < Len(t)
      /\ q + (p + 1) = (q + p) + 1
  BY <1>0, <1>1, <1>2, BetweenFacts
<1>5. y[p + 1] \notin Follows /\ y[p + 1] = t[(q + p) + 1]
  <2>1. y[p + 1] = t[q + (p + 1)]
    BY <1>3, <1>4
  <2> QED
    BY <1>0, <1>4, <2>1 DEF Between
<1>6. Between(t, q + p)
  BY <1>4, <1>5 DEF Between
<1>. DEFINE k == CharLen(y, p)
            r == q + p
<1>7. k \in 1 .. 4 /\ p + k <= Len(t) - q
  BY <1>0, <1>2, NextBetween
<1>8. \A i \in 1 .. k : t[r + i] = y[p + i]
  <2>. HIDE DEF k
  <2>1. \A i \in 1 .. k : p + i \in 1 .. Len(t) - q /\ q + (p + i) = r + i
    BY <1>1, <1>4, <1>7
  <2>. HIDE DEF r
  <2>2. \A i \in 1 .. k : y[p + i] = t[q + (p + i)]
    BY <1>3, <2>1
  <2> QED
    BY <2>1, <2>2
<1>9. Between(t, r) /\ r < Len(t)
  BY <1>4, <1>6
<1>. HIDE DEF r
<1>10. /\ Whole(y) /\ Between(y, p) /\ p < Len(y)
      /\ Whole(t) /\ Between(t, r) /\ r < Len(t)
  BY <1>0, <1>2, <1>9
<1>11. CharLen(t, r) = CharLen(y, p) /\ Cp(t, r) = Cp(y, p)
  BY ONLY <1>8, <1>10, CpSame
<1> QED
  BY <1>9, <1>11 DEF r, y

\* It is a part of the text up to the second position, and of the text from
\* the first.
LEMMA MiddleIs ==
    ASSUME NEW t \in Seq(Byte), NEW q \in 0 .. Len(t), NEW p \in 0 .. q
    PROVE  /\ SubSeq(t, p + 1, q) = SubSeq(SubSeq(t, p + 1, Len(t)), 1, q - p)
           /\ SubSeq(t, q + 1, Len(t)) = SubSeq(SubSeq(t, p + 1, Len(t)), (q - p) + 1, Len(t) - p)
           /\ SubSeq(t, 1, p) = SubSeq(SubSeq(t, 1, q), 1, p)
           /\ SubSeq(t, p + 1, q) = SubSeq(SubSeq(t, 1, q), p + 1, q)
<1>. DEFINE n == Len(t)
            v == SubSeq(t, p + 1, n)
            w == SubSeq(t, 1, q)
<1>1. n \in Nat /\ q \in Nat /\ p \in Nat /\ p <= q /\ q <= n
  OBVIOUS
<1>2. v = [i \in 1 .. n - p |-> t[p + i]]
  BY <1>1
<1>3. w = [i \in 1 .. q |-> t[i]]
  BY <1>1
<1>4. SubSeq(t, p + 1, q) = [i \in 1 .. q - p |-> t[p + i]]
  BY <1>1
<1>5. SubSeq(t, q + 1, n) = [i \in 1 .. n - q |-> t[q + i]]
  BY <1>1
<1>6. SubSeq(t, 1, p) = [i \in 1 .. p |-> t[i]]
  BY <1>1
<1>7. SubSeq(v, 1, q - p) = [i \in 1 .. q - p |-> v[i]]
  BY <1>1 DEF v
<1>8. SubSeq(v, (q - p) + 1, n - p) = [i \in 1 .. n - q |-> v[(q - p) + i]]
  BY <1>1
<1>9. SubSeq(w, 1, p) = [i \in 1 .. p |-> w[i]]
  BY <1>1
<1>10. SubSeq(w, p + 1, q) = [i \in 1 .. q - p |-> w[p + i]]
  BY <1>1
<1>. HIDE DEF n, v, w
<1>11. \A i \in 1 .. q - p : v[i] = t[p + i] /\ w[p + i] = t[p + i]
  BY <1>1, <1>2, <1>3
<1>12. \A i \in 1 .. n - q : v[(q - p) + i] = t[q + i]
  <2>. SUFFICES ASSUME NEW i \in 1 .. n - q PROVE v[(q - p) + i] = t[q + i]
    OBVIOUS
  <2>1. (q - p) + i \in 1 .. n - p /\ p + ((q - p) + i) = q + i
    BY <1>1
  <2> QED
    BY <1>2, <2>1
<1>13. \A i \in 1 .. p : w[i] = t[i]
  BY <1>1, <1>3
<1> QED
  BY <1>4, <1>5, <1>6, <1>7, <1>8, <1>9, <1>10, <1>11, <1>12, <1>13 DEF n, v, w

\* It is a text, and what is on both sides of it are.
LEMMA ThreeParts ==
    ASSUME NEW t, Whole(t), NEW q, Between(t, q), NEW p, Between(t, p), p <= q
    PROVE  /\ Whole(SubSeq(t, 1, p)) /\ Whole(SubSeq(t, p + 1, q))
           /\ Len(SubSeq(t, p + 1, q)) = q - p
           /\ SubSeq(t, 1, p) \o SubSeq(t, p + 1, q) = SubSeq(t, 1, q)
           /\ SubSeq(t, p + 1, q) \o SubSeq(t, q + 1, Len(t)) = SubSeq(t, p + 1, Len(t))
<1>. DEFINE x == SubSeq(t, 1, p)
            g == SubSeq(t, p + 1, q)
            y == SubSeq(t, q + 1, Len(t))
            v == SubSeq(t, p + 1, Len(t))
            w == SubSeq(t, 1, q)
<1>1. /\ t \in Seq(Byte) /\ q \in 0 .. Len(t) /\ p \in 0 .. q
      /\ Len(t) \in Nat /\ p \in Nat /\ q \in Nat
  BY WholeFacts, BetweenFacts
<1>2. /\ Whole(x) /\ Whole(v) /\ Whole(y) /\ Whole(w)
      /\ Len(v) = Len(t) - p /\ Len(w) = q
  BY CutWhole
<1>3. \A i \in 1 .. Len(t) - p : v[i] = t[p + i]
  BY <1>1, CutFacts
<1>4. /\ g = SubSeq(v, 1, q - p) /\ y = SubSeq(v, (q - p) + 1, Len(t) - p)
      /\ x = SubSeq(w, 1, p) /\ g = SubSeq(w, p + 1, q)
  BY <1>1, MiddleIs
<1>. HIDE DEF x, g, y, v, w
<1>5. Between(v, q - p)
  <2>1. q - p \in 0 .. Len(v)
    BY <1>1, <1>2
  <2>2. ASSUME q - p < Len(v) PROVE v[(q - p) + 1] \notin Follows
    <3>1. (q - p) + 1 \in 1 .. Len(t) - p /\ p + ((q - p) + 1) = q + 1 /\ q < Len(t)
      BY <1>1, <1>2, <2>2
    <3>2. v[(q - p) + 1] = t[q + 1]
      BY <1>3, <3>1
    <3> QED
      BY <3>1, <3>2 DEF Between
  <2> QED
    BY <2>1, <2>2 DEF Between
<1>6. Whole(g) /\ Len(g) = q - p /\ g \o y = v
  <2>1. /\ Whole(SubSeq(v, 1, q - p)) /\ Len(SubSeq(v, 1, q - p)) = q - p
        /\ SubSeq(v, 1, q - p) \o SubSeq(v, (q - p) + 1, Len(v)) = v
    BY <1>2, <1>5, CutWhole
  <2> QED
    BY <1>2, <1>4, <2>1
<1>7. x \o g = w
  <2>1. w \in Seq(Byte) /\ p \in 0 .. Len(w)
    BY <1>1, <1>2, WholeFacts
  <2>2. SubSeq(w, 1, p) \o SubSeq(w, p + 1, Len(w)) = w
    BY <2>1, CutFacts
  <2> QED
    BY <1>2, <1>4, <2>2
<1> QED
  BY <1>2, <1>6, <1>7 DEF x, g, y, v, w

\* Its characters are those of the text.
LEMMA InMiddle ==
    ASSUME NEW t, Whole(t), NEW q, Between(t, q), NEW p, Between(t, p), p <= q,
           NEW i, Between(SubSeq(t, p + 1, q), i), i < Len(SubSeq(t, p + 1, q))
    PROVE  /\ Between(t, p + i) /\ p + i < q /\ i \in Nat
           /\ Cp(SubSeq(t, p + 1, q), i) = Cp(t, p + i)
<1>. DEFINE w == SubSeq(t, 1, q)
            g == SubSeq(t, p + 1, q)
<1>1. /\ t \in Seq(Byte) /\ q \in 0 .. Len(t) /\ p \in 0 .. q
      /\ Len(t) \in Nat /\ p \in Nat /\ q \in Nat
  BY WholeFacts, BetweenFacts
<1>2. Whole(w) /\ Len(w) = q /\ g = SubSeq(w, p + 1, Len(w))
  BY <1>1, CutWhole, MiddleIs
<1>3. Between(g, i) /\ i < Len(g) /\ Whole(g)
  BY ThreeParts
<1>. HIDE DEF g
<1>4. Between(w, p)
  <2>1. p \in 0 .. Len(w)
    BY <1>1, <1>2
  <2>2. ASSUME p < Len(w) PROVE w[p + 1] \notin Follows
    <3>1. p + 1 \in 1 .. q /\ p < Len(t)
      BY <1>1, <1>2, <2>2
    <3>2. w[p + 1] = t[p + 1]
      BY <1>1, <3>1, CutFacts
    <3> QED
      BY <3>1, <3>2 DEF Between
  <2>. HIDE DEF w
  <2> QED
    BY <2>1, <2>2 DEF Between
<1>. HIDE DEF w
<1>5. Between(w, p + i) /\ p + i < Len(w) /\ Cp(g, i) = Cp(w, p + i)
  BY <1>2, <1>3, <1>4, BehindCut
<1>6. Between(t, p + i) /\ p + i < q /\ Cp(w, p + i) = Cp(t, p + i)
  <2>. DEFINE r == p + i
  <2>1. Between(SubSeq(t, 1, q), r) /\ r < Len(SubSeq(t, 1, q))
    BY <1>5 DEF w
  <2>. HIDE DEF r
  <2>2. Between(t, r) /\ r < q /\ Cp(SubSeq(t, 1, q), r) = Cp(t, r)
    BY <2>1, BeforeCut
  <2> QED
    BY <2>2 DEF r, w
<1>7. i \in Nat
  BY <1>3, BetweenFacts
<1> QED
  BY <1>5, <1>6, <1>7 DEF g

-----------------------------------------------------------------------------
(* The terminal, row by row.                                               *)

Cells == Seq(Int)

Row(w) == [1 .. w -> Cells]

\* The screens of a terminal of w columns, and the commands it knows.
Frames(w) == [rows : Seq(Row(w)), row : Nat, col : Nat, wrap : BOOLEAN, w : {w}]

Screens(w) ==
    {s \in Frames(w) :
        /\ s.row > 0 /\ s.row <= Len(s.rows) /\ s.col < w
        /\ s.wrap => s.col = w - 1}

Numbers == {"up", "down", "right"} \X Nat

Puts == {"put"} \X Int

Commands == Puts \cup {Return, Feed, ToErase} \cup Numbers

\* All rows, those not reached yet included.
View(s) == [r \in Nat \ {0} |-> RowOf(s, r)]

\* What a screen of the terminal is.
LEMMA ScreenFacts ==
    ASSUME NEW w \in Nat, w > 0, NEW s \in Screens(w)
    PROVE  /\ s.rows \in Seq(Row(w)) /\ Len(s.rows) \in Nat /\ s.w = w
           /\ s.row \in Nat \ {0} /\ s.row <= Len(s.rows) /\ s.row \in 1 .. Len(s.rows)
           /\ s.col \in Nat /\ s.col < w /\ s.wrap \in BOOLEAN
           /\ s.wrap => s.col = w - 1
           /\ s.rows[s.row] \in Row(w)
           /\ BlankRow(w) \in Row(w)
           /\ \A r \in Nat \ {0} : RowOf(s, r) \in Row(w)
<1>1. /\ s.rows \in Seq(Row(w)) /\ s.w = w
      /\ s.row \in Nat \ {0} /\ s.row <= Len(s.rows) /\ s.row \in 1 .. Len(s.rows)
      /\ s.col \in Nat /\ s.col < w /\ s.wrap \in BOOLEAN
      /\ s.wrap => s.col = w - 1
  BY DEF Screens, Frames
<1>2. Len(s.rows) \in Nat /\ s.rows[s.row] \in Row(w)
  BY <1>1
<1>3. BlankRow(w) \in Row(w)
  BY DEF BlankRow, Row, Cells, Blank
<1>4. ASSUME NEW r \in Nat \ {0} PROVE RowOf(s, r) \in Row(w)
  BY <1>1, <1>2, <1>3 DEF RowOf
<1> QED
  BY <1>1, <1>2, <1>3, <1>4

\* What makes one.
LEMMA ScreenMade ==
    ASSUME NEW w \in Nat, w > 0, NEW s \in Frames(w),
           s.row > 0, s.row <= Len(s.rows), s.col < w, s.wrap => s.col = w - 1
    PROVE  s \in Screens(w)
BY DEF Screens

\* Screens show the same when they have the same rows, or blank ones more.
LEMMA SameView ==
    ASSUME NEW w \in Nat, w > 0, NEW s \in Screens(w), NEW t \in Screens(w), NEW k \in Nat,
           t.rows = s.rows \o [i \in 1 .. k |-> BlankRow(w)] \/ t.rows = s.rows
    PROVE  View(t) = View(s) /\ Len(s.rows) \in Nat /\ s.rows \in Seq(Row(w))
<1>. DEFINE more == [i \in 1 .. k |-> BlankRow(w)]
<1>1. s.rows \in Seq(Row(w)) /\ Len(s.rows) \in Nat /\ s.w = w /\ t.w = w /\ BlankRow(w) \in Row(w)
  BY ScreenFacts
<1>2. more \in Seq(Row(w)) /\ Len(more) = k /\ \A i \in 1 .. k : more[i] = BlankRow(w)
  BY <1>1
<1>. HIDE DEF more
<1>3. ASSUME NEW q \in Nat \ {0} PROVE RowOf(t, q) = RowOf(s, q)
  <2>1. CASE t.rows = s.rows
    BY <1>1, <2>1 DEF RowOf
  <2>2. CASE t.rows = s.rows \o more
    <3>1. /\ Len(t.rows) = Len(s.rows) + k
          /\ \A i \in 1 .. Len(s.rows) : t.rows[i] = s.rows[i]
          /\ \A i \in 1 .. k : t.rows[Len(s.rows) + i] = BlankRow(w)
      BY <1>1, <1>2, <2>2, JoinFacts
    <3>2. CASE q <= Len(s.rows)
      BY <1>1, <3>1, <3>2 DEF RowOf
    <3>3. CASE q > Len(s.rows) /\ q <= Len(t.rows)
      <4>1. q - Len(s.rows) \in 1 .. k /\ Len(s.rows) + (q - Len(s.rows)) = q
        BY <1>1, <3>1, <3>3
      <4>2. t.rows[q] = BlankRow(w)
        BY <3>1, <4>1
      <4> QED
        BY <1>1, <3>3, <4>2 DEF RowOf
    <3>4. CASE q > Len(t.rows)
      BY <1>1, <3>1, <3>4 DEF RowOf
    <3> QED
      BY <1>1, <3>1, <3>2, <3>3, <3>4
  <2> QED
    BY <2>1, <2>2 DEF more
<1> QED
  BY <1>1, <1>3 DEF View

\* Going to a row that may have to be added shows nothing new.
LEMMA UptoIs ==
    ASSUME NEW w \in Nat, w > 0, NEW s \in Screens(w), NEW r \in Nat \ {0}, r >= s.row
    PROVE  LET t == Upto(s, r)
           IN  /\ t \in Screens(w) /\ t.row = r /\ t.col = s.col /\ ~t.wrap
               /\ View(t) = View(s)
<1>. DEFINE k == IF r > Len(s.rows) THEN r - Len(s.rows) ELSE 0
            more == [i \in 1 .. k |-> BlankRow(w)]
            rows == s.rows \o more
            t == Upto(s, r)
<1>1. /\ s.rows \in Seq(Row(w)) /\ Len(s.rows) \in Nat /\ s.w = w
      /\ s.row \in Nat \ {0} /\ s.row <= Len(s.rows)
      /\ s.col \in Nat /\ s.col < w
      /\ BlankRow(w) \in Row(w) /\ s \in Frames(w)
  BY ScreenFacts DEF Screens
<1>2. k \in Nat
  BY <1>1
<1>3. more \in Seq(Row(w)) /\ Len(more) = k
  BY <1>1, <1>2
<1>4. rows \in Seq(Row(w)) /\ Len(rows) = Len(s.rows) + k
  <2>. HIDE DEF more, k
  <2> QED
    BY <1>1, <1>2, <1>3
<1>5. r <= Len(rows)
  BY <1>1, <1>4
<1>6. t = [s EXCEPT !.rows = rows, !.row = r, !.wrap = FALSE]
  BY <1>1 DEF Upto
<1>7. t \in Frames(w) /\ t.rows = rows /\ t.row = r /\ t.col = s.col /\ t.wrap = FALSE
  <2>. HIDE DEF rows, t
  <2> QED
    BY <1>1, <1>4, <1>6 DEF Frames
<1>. HIDE DEF t, k
<1>8. t \in Screens(w)
  <2>1. t.row > 0 /\ t.row <= Len(t.rows) /\ t.col < w /\ ~t.wrap
    <3>. HIDE DEF rows
    <3> QED
      BY <1>1, <1>5, <1>7
  <2> QED
    BY <1>7, <2>1, ScreenMade
<1>9. View(t) = View(s)
  BY <1>2, <1>7, <1>8, SameView
<1> QED
  BY <1>7, <1>8, <1>9 DEF t

\* Moving the cursor.
LEMMA MovesAre ==
    ASSUME NEW w \in Nat, w > 0, NEW s \in Screens(w), NEW n \in Nat
    PROVE  /\ LET t == CarriageReturn(s)
              IN  t \in Screens(w) /\ t.row = s.row /\ t.col = 0 /\ ~t.wrap /\ View(t) = View(s)
           /\ LET t == NewLine(s)
              IN  t \in Screens(w) /\ t.row = s.row + 1 /\ t.col = 0 /\ ~t.wrap
                  /\ View(t) = View(s)
           /\ LET t == Up(s, n)
              IN  /\ t \in Screens(w) /\ t.row = (IF s.row - n < 1 THEN 1 ELSE s.row - n)
                  /\ t.col = s.col /\ ~t.wrap /\ View(t) = View(s)
           /\ LET t == Down(s, n)
              IN  t \in Screens(w) /\ t.row = s.row + n /\ t.col = s.col /\ ~t.wrap
                  /\ View(t) = View(s)
           /\ LET t == Right(s, n)
              IN  /\ t \in Screens(w) /\ t.row = s.row
                  /\ t.col = (IF s.col + n >= w THEN w - 1 ELSE s.col + n)
                  /\ ~t.wrap /\ View(t) = View(s)
<1>1. /\ s.rows \in Seq(Row(w)) /\ Len(s.rows) \in Nat /\ s.w = w
      /\ s.row \in Nat \ {0} /\ s.row <= Len(s.rows) /\ s.row \in 1 .. Len(s.rows)
      /\ s.col \in Nat /\ s.col < w /\ s \in Frames(w)
  BY ScreenFacts DEF Screens
<1>2. ASSUME NEW t \in Frames(w), t.rows = s.rows, t.row > 0, t.row <= Len(s.rows),
             t.col < w, ~t.wrap
      PROVE  t \in Screens(w) /\ View(t) = View(s)
  <2>1. t \in Screens(w)
    BY <1>2, ScreenMade
  <2> QED
    BY <1>2, <2>1, SameView
<1>3. LET t == CarriageReturn(s)
      IN  t \in Screens(w) /\ t.row = s.row /\ t.col = 0 /\ ~t.wrap /\ View(t) = View(s)
  <2>. DEFINE t == CarriageReturn(s)
  <2>1. t = [s EXCEPT !.col = 0, !.wrap = FALSE]
    BY DEF CarriageReturn
  <2>. HIDE DEF t
  <2>2. t \in Frames(w) /\ t.rows = s.rows /\ t.row = s.row /\ t.col = 0 /\ t.wrap = FALSE
    BY <1>1, <2>1 DEF Frames
  <2> QED
    BY <1>1, <1>2, <2>2 DEF t
<1>4. LET t == NewLine(s)
      IN  t \in Screens(w) /\ t.row = s.row + 1 /\ t.col = 0 /\ ~t.wrap /\ View(t) = View(s)
  <2>. DEFINE u == Upto(s, s.row + 1)
              t == NewLine(s)
  <2>1. u \in Screens(w) /\ u.row = s.row + 1 /\ ~u.wrap /\ View(u) = View(s)
    BY <1>1, UptoIs
  <2>2. t = [u EXCEPT !.col = 0]
    BY DEF NewLine
  <2>. HIDE DEF u, t
  <2>3. /\ u.rows \in Seq(Row(w)) /\ u.row \in 1 .. Len(u.rows) /\ u.w = w
        /\ Len(u.rows) \in Nat /\ u.row > 0 /\ u.row <= Len(u.rows) /\ u \in Frames(w)
    BY <2>1, ScreenFacts DEF Screens
  <2>4. t \in Frames(w) /\ t.rows = u.rows /\ t.row = u.row /\ t.col = 0 /\ t.wrap = u.wrap
    BY <2>2, <2>3 DEF Frames
  <2>5. t \in Screens(w)
    BY <2>1, <2>3, <2>4, ScreenMade
  <2>6. View(t) = View(u)
    BY <2>1, <2>4, <2>5, SameView
  <2> QED
    BY <2>1, <2>4, <2>5, <2>6 DEF t
<1>5. LET t == Up(s, n)
      IN  /\ t \in Screens(w) /\ t.row = (IF s.row - n < 1 THEN 1 ELSE s.row - n)
          /\ t.col = s.col /\ ~t.wrap /\ View(t) = View(s)
  <2>. DEFINE r == IF s.row - n < 1 THEN 1 ELSE s.row - n
              t == Up(s, n)
  <2>1. r \in Nat /\ r > 0 /\ r <= Len(s.rows)
    BY <1>1
  <2>2. t = [s EXCEPT !.row = r, !.wrap = FALSE]
    BY DEF Up
  <2>. HIDE DEF r, t
  <2>3. t \in Frames(w) /\ t.rows = s.rows /\ t.row = r /\ t.col = s.col /\ t.wrap = FALSE
    BY <1>1, <2>1, <2>2 DEF Frames
  <2> QED
    BY <1>1, <1>2, <2>1, <2>3 DEF r, t
<1>6. LET t == Down(s, n)
      IN  t \in Screens(w) /\ t.row = s.row + n /\ t.col = s.col /\ ~t.wrap /\ View(t) = View(s)
  <2>1. s.row + n \in Nat \ {0} /\ s.row + n >= s.row
    BY <1>1
  <2> QED
    BY <2>1, UptoIs DEF Down
<1>7. LET t == Right(s, n)
      IN  /\ t \in Screens(w) /\ t.row = s.row
          /\ t.col = (IF s.col + n >= w THEN w - 1 ELSE s.col + n)
          /\ ~t.wrap /\ View(t) = View(s)
  <2>. DEFINE c == IF s.col + n >= w THEN w - 1 ELSE s.col + n
              t == Right(s, n)
  <2>1. c \in Nat /\ c < w
    BY <1>1
  <2>2. t = [s EXCEPT !.col = c, !.wrap = FALSE]
    BY <1>1 DEF Right
  <2>. HIDE DEF c, t
  <2>3. t \in Frames(w) /\ t.rows = s.rows /\ t.row = s.row /\ t.col = c /\ t.wrap = FALSE
    BY <1>1, <2>1, <2>2 DEF Frames
  <2> QED
    BY <1>1, <1>2, <2>1, <2>3 DEF c, t
<1> QED
  BY <1>3, <1>4, <1>5, <1>6, <1>7

\* One row of a screen is written anew.
LEMMA RowWritten ==
    ASSUME NEW w \in Nat, w > 0, NEW s \in Screens(w), NEW cells \in Row(w),
           NEW t \in Frames(w), t.rows = [s.rows EXCEPT ![s.row] = cells], t.row = s.row,
           t.col < w, t.wrap => t.col = w - 1
    PROVE  /\ t \in Screens(w) /\ RowOf(t, s.row) = cells
           /\ \A q \in Nat \ {0} : q # s.row => RowOf(t, q) = RowOf(s, q)
<1>1. /\ s.rows \in Seq(Row(w)) /\ Len(s.rows) \in Nat /\ s.w = w
      /\ s.row \in Nat \ {0} /\ s.row <= Len(s.rows) /\ s.row \in 1 .. Len(s.rows)
  BY ScreenFacts
<1>2. /\ t.rows \in Seq(Row(w)) /\ Len(t.rows) = Len(s.rows) /\ t.rows[s.row] = cells
      /\ \A i \in 1 .. Len(s.rows) : i # s.row => t.rows[i] = s.rows[i]
      /\ t.w = w
  BY <1>1 DEF Frames
<1>3. t \in Screens(w)
  BY <1>1, <1>2, ScreenMade
<1>4. RowOf(t, s.row) = cells
  BY <1>1, <1>2 DEF RowOf
<1>5. ASSUME NEW q \in Nat \ {0}, q # s.row PROVE RowOf(t, q) = RowOf(s, q)
  <2>1. CASE q <= Len(s.rows)
    BY <1>1, <1>2, <1>5, <2>1 DEF RowOf
  <2>2. CASE q > Len(s.rows)
    BY <1>1, <1>2, <1>5, <2>2 DEF RowOf
  <2> QED
    BY <1>1, <2>1, <2>2
<1> QED
  BY <1>3, <1>4, <1>5

\* A row with nothing behind a column, a mark, a character.
Erased(row, col, w) == [i \in 1 .. w |-> IF i > col THEN Blank ELSE row[i]]

Marked(row, i, cp) ==
    LET j == IF i > 1 /\ row[i] = Beside THEN i - 1 ELSE i
    IN  IF j = 0 THEN row ELSE [row EXCEPT ![j] = Append(@, cp)]

Painted(row, col, k, w, cp) ==
    [i \in 1 .. w |-> IF i = col + 1 THEN <<cp>>
                      ELSE IF i = col + 2 /\ k = 2 THEN Beside
                      ELSE row[i]]

\* The rows that are written are rows.
LEMMA RowTypes ==
    ASSUME NEW w \in Nat, w > 0, NEW row \in Row(w), NEW col \in Nat
    PROVE  /\ Erased(row, col, w) \in Row(w)
           /\ \A cp \in Int : \A k \in Nat : Painted(row, col, k, w, cp) \in Row(w)
           /\ \A cp \in Int : col <= w => Marked(row, col, cp) \in Row(w)
<1>1. Blank \in Cells /\ Beside \in Cells /\ \A cp \in Int : <<cp>> \in Cells
  BY DEF Blank, Beside, Cells
<1>2. \A i \in 1 .. w : row[i] \in Cells /\ \A cp \in Int : Append(row[i], cp) \in Cells
  BY DEF Row, Cells
<1>3. /\ Erased(row, col, w) \in Row(w)
      /\ \A cp \in Int : \A k \in Nat : Painted(row, col, k, w, cp) \in Row(w)
  BY <1>1, <1>2 DEF Erased, Painted, Row
<1>4. ASSUME NEW cp \in Int, col <= w PROVE Marked(row, col, cp) \in Row(w)
  <2>. DEFINE j == IF col > 1 /\ row[col] = Beside THEN col - 1 ELSE col
  <2>1. j = 0 \/ j \in 1 .. w
    BY <1>4
  <2>2. Marked(row, col, cp) = IF j = 0 THEN row ELSE [row EXCEPT ![j] = Append(row[j], cp)]
    BY DEF Marked
  <2>. HIDE DEF j
  <2> QED
    BY <1>2, <2>1, <2>2 DEF Row
<1> QED
  BY <1>3, <1>4

\* Erasing to the right changes one row.
LEMMA EraseIs ==
    ASSUME NEW w \in Nat, w > 0, NEW s \in Screens(w), NEW t, t = EraseRight(s)
    PROVE  /\ t \in Screens(w) /\ t.row = s.row /\ t.col = s.col /\ t.wrap = s.wrap
           /\ RowOf(t, s.row) = Erased(RowOf(s, s.row), s.col, w)
           /\ \A q \in Nat \ {0} : q # s.row => RowOf(t, q) = RowOf(s, q)
<1>1. /\ s.rows \in Seq(Row(w)) /\ Len(s.rows) \in Nat /\ s.w = w
      /\ s.row \in Nat \ {0} /\ s.row <= Len(s.rows) /\ s.row \in 1 .. Len(s.rows)
      /\ s.col \in Nat /\ s.col < w /\ s.wrap \in BOOLEAN /\ s \in Frames(w)
      /\ s.wrap => s.col = w - 1
      /\ s.rows[s.row] \in Row(w)
  BY ScreenFacts DEF Screens
<1>. DEFINE cells == Erased(s.rows[s.row], s.col, w)
            rows == [s.rows EXCEPT ![s.row] = cells]
<1>2. cells \in Row(w)
  BY <1>1, RowTypes
<1>3. RowOf(s, s.row) = s.rows[s.row]
  BY <1>1 DEF RowOf
<1>4. t = [s EXCEPT !.rows = rows]
  BY <1>1 DEF EraseRight, Erased
<1>. HIDE DEF cells
<1>5. rows \in Seq(Row(w))
  BY <1>1, <1>2
<1>6. t \in Frames(w) /\ t.rows = rows /\ t.row = s.row /\ t.col = s.col /\ t.wrap = s.wrap
  <2>. HIDE DEF rows
  <2> QED
    BY <1>1, <1>4, <1>5 DEF Frames
<1>7. /\ t \in Screens(w) /\ RowOf(t, s.row) = cells
      /\ \A q \in Nat \ {0} : q # s.row => RowOf(t, q) = RowOf(s, q)
  BY <1>1, <1>2, <1>6, RowWritten
<1> QED
  BY <1>3, <1>6, <1>7 DEF cells

\* So does a mark.
LEMMA MarkIs ==
    ASSUME NEW w \in Nat, w > 0, NEW s \in Screens(w), NEW cp \in Int,
           NEW t, t = PutMark(s, cp)
    PROVE  /\ t \in Screens(w) /\ t.row = s.row /\ t.col = s.col /\ t.wrap = s.wrap
           /\ RowOf(t, s.row) = Marked(RowOf(s, s.row), IF s.wrap THEN w ELSE s.col, cp)
           /\ \A q \in Nat \ {0} : q # s.row => RowOf(t, q) = RowOf(s, q)
<1>1. /\ s.rows \in Seq(Row(w)) /\ Len(s.rows) \in Nat /\ s.w = w
      /\ s.row \in Nat \ {0} /\ s.row <= Len(s.rows) /\ s.row \in 1 .. Len(s.rows)
      /\ s.col \in Nat /\ s.col < w /\ s.wrap \in BOOLEAN /\ s \in Frames(w)
      /\ s.wrap => s.col = w - 1
      /\ s.rows[s.row] \in Row(w)
  BY ScreenFacts DEF Screens
<1>. DEFINE i == IF s.wrap THEN w ELSE s.col
            row == s.rows[s.row]
            j == IF i > 1 /\ row[i] = Beside THEN i - 1 ELSE i
            cells == Marked(row, i, cp)
            rows == [s.rows EXCEPT ![s.row] = cells]
<1>2. i \in Nat /\ i <= w
  BY <1>1
<1>3. cells \in Row(w)
  BY <1>1, <1>2, RowTypes
<1>4. RowOf(s, s.row) = row
  BY <1>1 DEF RowOf
<1>5. t = IF j = 0 THEN s ELSE [s EXCEPT !.rows = [s.rows EXCEPT ![s.row] =
                                            [row EXCEPT ![j] = Append(row[j], cp)]]]
  BY <1>1 DEF PutMark
<1>6. cells = IF j = 0 THEN row ELSE [row EXCEPT ![j] = Append(row[j], cp)]
  BY DEF Marked
<1>7. CASE j = 0
  BY <1>1, <1>4, <1>5, <1>6, <1>7
<1>8. CASE j # 0
  <2>1. t = [s EXCEPT !.rows = rows]
    BY <1>5, <1>6, <1>8
  <2>. HIDE DEF cells
  <2>2. rows \in Seq(Row(w))
    BY <1>1, <1>3
  <2>3. t \in Frames(w) /\ t.rows = rows /\ t.row = s.row /\ t.col = s.col /\ t.wrap = s.wrap
    <3>. HIDE DEF rows, j
    <3> QED
      BY <1>1, <2>1, <2>2 DEF Frames
  <2>4. /\ t \in Screens(w) /\ RowOf(t, s.row) = cells
        /\ \A q \in Nat \ {0} : q # s.row => RowOf(t, q) = RowOf(s, q)
    BY <1>1, <1>3, <2>3, RowWritten
  <2> QED
    BY <1>4, <2>3, <2>4 DEF cells
<1> QED
  BY <1>7, <1>8

\* A character is written where the cursor is, or on the next row when it does not fit.
LEMMA BaseIs ==
    ASSUME NEW w \in Nat, w > 0, NEW s \in Screens(w), NEW cp \in Int,
           NEW k, k = Width(cp), k \in 1 .. 2, NEW t, t = PutBase(s, cp)
    PROVE  LET over == s.wrap \/ s.col + k > w
               r == IF over THEN s.row + 1 ELSE s.row
               c == IF over THEN 0 ELSE s.col
           IN  /\ t \in Screens(w) /\ t.row = r
               /\ t.wrap = (c + k >= w) /\ t.col = (IF c + k >= w THEN w - 1 ELSE c + k)
               /\ RowOf(t, r) = Painted(RowOf(s, r), c, k, w, cp)
               /\ \A q \in Nat \ {0} : q # r => RowOf(t, q) = RowOf(s, q)
<1>. DEFINE over == s.wrap \/ s.col + k > w
            r == IF over THEN s.row + 1 ELSE s.row
            c == IF over THEN 0 ELSE s.col
            u == IF over THEN NewLine(s) ELSE s
<1>1. /\ s.row \in Nat \ {0} /\ s.col \in Nat /\ s.col < w /\ s.wrap \in BOOLEAN /\ s.w = w
  BY ScreenFacts
<1>2. u \in Screens(w) /\ u.row = r /\ u.col = c /\ View(u) = View(s)
  BY <1>1, MovesAre
<1>3. u.wrap = FALSE
  <2>1. CASE over
    <3>1. ~u.wrap /\ u.wrap \in BOOLEAN
      BY <1>2, <2>1, MovesAre, ScreenFacts
    <3> QED
      BY <3>1
  <2>2. CASE ~over
    BY <1>1, <2>2
  <2> QED
    BY <2>1, <2>2
<1>4. \A q \in Nat \ {0} : RowOf(u, q) = RowOf(s, q)
  <2>1. \A q \in Nat \ {0} : View(u)[q] = RowOf(u, q) /\ View(s)[q] = RowOf(s, q)
    BY DEF View
  <2> QED
    BY <1>2, <2>1
<1>5. /\ u.rows \in Seq(Row(w)) /\ Len(u.rows) \in Nat /\ u.w = w
      /\ u.row \in Nat \ {0} /\ u.row <= Len(u.rows) /\ u.row \in 1 .. Len(u.rows)
      /\ u.col \in Nat /\ u.col < w /\ u \in Frames(w)
      /\ u.rows[u.row] \in Row(w)
  BY <1>2, ScreenFacts DEF Screens
<1>6. RowOf(u, r) = u.rows[u.row]
  BY <1>2, <1>5 DEF RowOf
<1>7. c \in Nat /\ c < w /\ r \in Nat \ {0}
  BY <1>1
<1>. DEFINE cells == Painted(u.rows[u.row], c, k, w, cp)
            rows == [u.rows EXCEPT ![u.row] = cells]
            full == c + k >= w
            col == IF full THEN w - 1 ELSE c + k
<1>8. cells \in Row(w)
  <2>1. k \in Nat
    OBVIOUS
  <2>. HIDE DEF c, u
  <2> QED
    BY <1>5, <1>7, <2>1, RowTypes
<1>9. t = [u EXCEPT !.rows = rows, !.col = col, !.wrap = full]
  <2>1. k = Width(cp) /\ s.w = w
    BY <1>1
  <2>2. t = LET v == u
            IN  [v EXCEPT !.rows = [v.rows EXCEPT ![v.row] =
                    [i \in 1 .. v.w |-> IF i = v.col + 1 THEN <<cp>>
                                        ELSE IF i = v.col + 2 /\ k = 2 THEN Beside
                                        ELSE v.rows[v.row][i]]],
                  !.col = IF v.col + k >= v.w THEN v.w - 1 ELSE v.col + k,
                  !.wrap = (v.col + k >= v.w)]
    BY <2>1 DEF PutBase
  <2>. HIDE DEF u
  <2> QED
    BY <1>2, <1>5, <2>2 DEF Painted
<1>. HIDE DEF cells, u
<1>10. rows \in Seq(Row(w))
  BY <1>5, <1>8
<1>11. col \in Nat /\ col < w /\ full \in BOOLEAN /\ (full => col = w - 1)
  BY <1>7
<1>12. t \in Frames(w) /\ t.rows = rows /\ t.row = u.row /\ t.col = col /\ t.wrap = full
  <2>. HIDE DEF rows, col, full
  <2> QED
    BY <1>5, <1>9, <1>10, <1>11 DEF Frames
<1>13. /\ t \in Screens(w) /\ RowOf(t, u.row) = cells
       /\ \A q \in Nat \ {0} : q # u.row => RowOf(t, q) = RowOf(u, q)
  <2>. HIDE DEF col, full, c
  <2> QED
    BY <1>2, <1>5, <1>8, <1>11, <1>12, RowWritten
<1>14. cells = Painted(RowOf(s, r), c, k, w, cp)
  BY <1>4, <1>6, <1>7 DEF cells
<1>15. \A q \in Nat \ {0} : q # r => RowOf(t, q) = RowOf(s, q)
  BY <1>2, <1>4, <1>13
<1> QED
  BY <1>2, <1>12, <1>13, <1>14, <1>15

-----------------------------------------------------------------------------
(* What is written to it, command by command.                              *)

\* Characters take up to two columns, and marks none.
LEMMA WidthIs == \A cp \in Int : Width(cp) \in 0 .. 2 /\ (Width(cp) = 0 <=> IsCombining(cp))
BY DEF Width

\* What each command does.
LEMMA ObeyIs ==
    ASSUME NEW s
    PROVE  /\ Obey(s, Return) = CarriageReturn(s)
           /\ Obey(s, Feed) = NewLine(s)
           /\ Obey(s, ToErase) = EraseRight(s)
           /\ \A n : /\ Obey(s, <<"up", n>>) = Up(s, n)
                    /\ Obey(s, <<"down", n>>) = Down(s, n)
                    /\ Obey(s, <<"right", n>>) = Right(s, n)
BY DEF Obey, Return, Feed, ToErase

\* A character is a mark or not.
LEMMA PutIs ==
    ASSUME NEW s, NEW cp
    PROVE  /\ IsCombining(cp) => Obey(s, <<"put", cp>>) = PutMark(s, cp)
           /\ ~IsCombining(cp) => Obey(s, <<"put", cp>>) = PutBase(s, cp)
BY DEF Obey

\* A character makes a screen of a screen.
LEMMA PutScreen ==
    ASSUME NEW w \in Nat, w > 0, NEW s \in Screens(w), NEW cp \in Int
    PROVE  Obey(s, <<"put", cp>>) \in Screens(w)
<1>1. CASE IsCombining(cp)
  BY <1>1, PutIs, MarkIs
<1>2. CASE ~IsCombining(cp)
  <2>1. Width(cp) \in 1 .. 2
    BY <1>2, WidthIs
  <2> QED
    BY <1>2, <2>1, PutIs, BaseIs
<1> QED
  BY <1>1, <1>2

\* The screen after each of the commands.
IsRun(f, s, cs) ==
    /\ f[0] = s
    /\ \A i \in 1 .. Len(cs) : f[i] = Obey(f[i - 1], cs[i])

\* A set of screens that commands do not leave.
Stable(S, cs) == \A s \in S : \A i \in 1 .. Len(cs) : Obey(s, cs[i]) \in S

\* What is written is obeyed command by command.
LEMMA RunIs ==
    ASSUME NEW S, NEW s \in S, NEW T, NEW cs \in Seq(T), Stable(S, cs)
    PROVE  \E f : f \in [0 .. Len(cs) -> S] /\ IsRun(f, s, cs) /\ Written(s, cs) = f[Len(cs)]
<1>. DEFINE n == Len(cs)
            D == 0 .. n
            rank == [i \in D |-> i]
            stop == [i \in D |-> i = 0]
            val == [i \in D |-> s]
            nxt == [i \in D |-> IF i = 0 THEN 0 ELSE i - 1]
            G == [x \in D \X S |-> IF x[1] = 0 THEN s ELSE Obey(x[2], cs[x[1]])]
            Body(f, i) == IF i = 0 THEN s ELSE Obey(f[i - 1], cs[i])
            Is(f) == f = [i \in D |-> Body(f, i)]
<1>1. n \in Nat
  OBVIOUS
<1>2. rank \in [D -> 0 .. n] /\ stop \in [D -> BOOLEAN] /\ val \in [D -> S] /\ nxt \in [D -> D]
  BY <1>1
<1>3. G \in [D \X S -> S]
  BY <1>1 DEF Stable
<1>4. \A i \in D : ~stop[i] => rank[nxt[i]] < rank[i]
  BY <1>1
<1>5. PICK f \in [D -> S] : Loops(f, D, stop, val, nxt, G)
  <2>. HIDE DEF D, rank, stop, val, nxt, G
  <2> QED
    BY <1>1, <1>2, <1>3, <1>4, LoopIs
<1>6. ASSUME NEW i \in D PROVE f[i] = Body(f, i)
  <2>1. f[i] = IF stop[i] THEN val[i] ELSE G[<<i, f[nxt[i]]>>]
    BY <1>5 DEF Loops
  <2>2. CASE i = 0
    BY <2>1, <2>2
  <2>3. CASE i # 0
    <3>1. nxt[i] = i - 1 /\ i - 1 \in D
      BY <1>1, <2>3
    <3>2. <<i, f[i - 1]>> \in D \X S
      BY <1>5, <3>1
    <3>3. G[<<i, f[i - 1]>>] = Obey(f[i - 1], cs[i])
      BY <2>3, <3>2
    <3> QED
      BY <2>1, <2>3, <3>1, <3>3
  <2> QED
    BY <2>2, <2>3
<1>7. Is(f)
  BY <1>5, <1>6
<1>8. Is(CHOOSE g : Is(g))
  <2>. HIDE DEF Is
  <2> QED
    BY <1>7
<1>. DEFINE h == CHOOSE g : Is(g)
<1>9. Written(s, cs) = h[n]
  BY DEF Written
<1>10. \A i \in D : h[i] = f[i]
  <2>. DEFINE Bad == {i \in D : h[i] # f[i]}
  <2>. SUFFICES ASSUME Bad # {} PROVE FALSE
    OBVIOUS
  <2>1. Bad \subseteq Nat
    BY <1>1
  <2>2. PICK i \in Bad : \A j \in Bad : i <= j
    BY <2>1, LeastNat
  <2>3. i \in D /\ h[i] = Body(h, i) /\ f[i] = Body(f, i)
    <3>1. h = [j \in D |-> Body(h, j)]
      BY <1>8
    <3>. HIDE DEF h
    <3> QED
      BY <1>6, <2>2, <3>1
  <2>. HIDE DEF h
  <2>4. CASE i = 0
    BY <2>2, <2>3, <2>4
  <2>5. CASE i # 0
    <3>1. i - 1 \in D /\ ~(i <= i - 1)
      BY <1>1, <2>3, <2>5
    <3>2. i - 1 \notin Bad
      BY <2>2, <3>1
    <3>3. h[i - 1] = f[i - 1]
      BY <3>1, <3>2
    <3> QED
      BY <2>2, <2>3, <2>5, <3>3
  <2> QED
    BY <2>4, <2>5
<1>11. IsRun(f, s, cs)
  <2>1. f[0] = s
    BY <1>1, <1>6
  <2>2. ASSUME NEW i \in 1 .. n PROVE f[i] = Obey(f[i - 1], cs[i])
    BY <1>1, <1>6
  <2> QED
    BY <2>1, <2>2 DEF IsRun
<1>12. Written(s, cs) = f[Len(cs)]
  <2>1. n \in D
    BY <1>1
  <2>. HIDE DEF h
  <2> QED
    BY <1>9, <1>10, <2>1
<1> QED
  BY <1>5, <1>11, <1>12

\* There is one.
LEMMA RunIsOne ==
    ASSUME NEW s, NEW T, NEW cs \in Seq(T), NEW f, NEW g, IsRun(f, s, cs), IsRun(g, s, cs)
    PROVE  \A i \in 0 .. Len(cs) : f[i] = g[i]
<1>. DEFINE Bad == {i \in 0 .. Len(cs) : f[i] # g[i]}
<1>. SUFFICES ASSUME Bad # {} PROVE FALSE
  OBVIOUS
<1>1. Bad \subseteq Nat /\ Len(cs) \in Nat
  OBVIOUS
<1>2. PICK i \in Bad : \A j \in Bad : i <= j
  BY <1>1, LeastNat
<1>3. CASE i = 0
  BY <1>2, <1>3 DEF IsRun
<1>4. CASE i # 0
  <2>1. i \in 1 .. Len(cs) /\ i - 1 \in 0 .. Len(cs) /\ ~(i <= i - 1)
    BY <1>1, <1>2, <1>4
  <2>2. f[i - 1] = g[i - 1]
    BY <1>2, <2>1
  <2>3. f[i] = Obey(f[i - 1], cs[i]) /\ g[i] = Obey(g[i - 1], cs[i])
    BY <2>1 DEF IsRun
  <2> QED
    BY <1>2, <2>2, <2>3
<1> QED
  BY <1>3, <1>4

\* Nothing is written.
LEMMA WrittenNone ==
    ASSUME NEW s PROVE Written(s, <<>>) = s
<1>1. Stable({s}, <<>>) /\ <<>> \in Seq({})
  BY DEF Stable
<1>2. PICK f : IsRun(f, s, <<>>) /\ Written(s, <<>>) = f[Len(<<>>)]
  BY <1>1, RunIs
<1> QED
  BY <1>2 DEF IsRun

\* Something is written, and then something else.
LEMMA WrittenJoin ==
    ASSUME NEW S, NEW s \in S, NEW T, NEW cs \in Seq(T), NEW ds \in Seq(T),
           Stable(S, cs), Stable(S, ds)
    PROVE  /\ Written(s, cs) \in S
           /\ Written(s, cs \o ds) = Written(Written(s, cs), ds)
<1>1. /\ cs \o ds \in Seq(T) /\ Len(cs \o ds) = Len(cs) + Len(ds)
      /\ Len(cs) \in Nat /\ Len(ds) \in Nat
      /\ \A i \in 1 .. Len(cs) : (cs \o ds)[i] = cs[i]
      /\ \A i \in 1 .. Len(ds) : (cs \o ds)[Len(cs) + i] = ds[i]
  BY JoinFacts
<1>2. Stable(S, cs \o ds)
  <2>1. ASSUME NEW x \in S, NEW i \in 1 .. Len(cs \o ds) PROVE Obey(x, (cs \o ds)[i]) \in S
    <3>1. CASE i \in 1 .. Len(cs)
      BY <1>1, <3>1 DEF Stable
    <3>2. CASE i \notin 1 .. Len(cs)
      <4>1. i - Len(cs) \in 1 .. Len(ds) /\ Len(cs) + (i - Len(cs)) = i
        BY <1>1, <3>2
      <4>2. (cs \o ds)[i] = ds[i - Len(cs)]
        BY <1>1, <4>1
      <4> QED
        BY <4>1, <4>2 DEF Stable
    <3> QED
      BY <3>1, <3>2
  <2> QED
    BY <2>1 DEF Stable
<1>3. PICK f : /\ f \in [0 .. Len(cs) -> S] /\ IsRun(f, s, cs)
               /\ Written(s, cs) = f[Len(cs)]
  BY RunIs
<1>4. Written(s, cs) \in S
  BY <1>1, <1>3
<1>5. PICK g : g \in [0 .. Len(ds) -> S] /\ IsRun(g, Written(s, cs), ds)
               /\ Written(Written(s, cs), ds) = g[Len(ds)]
  BY <1>4, RunIs
<1>6. PICK h : /\ h \in [0 .. Len(cs \o ds) -> S] /\ IsRun(h, s, cs \o ds)
               /\ Written(s, cs \o ds) = h[Len(cs \o ds)]
  <2>. DEFINE both == cs \o ds
  <2>1. both \in Seq(T) /\ Stable(S, both)
    BY <1>1, <1>2
  <2>. HIDE DEF both
  <2>2. \E h : h \in [0 .. Len(both) -> S] /\ IsRun(h, s, both) /\ Written(s, both) = h[Len(both)]
    BY <2>1, RunIs
  <2> QED
    BY <2>2 DEF both
<1>. DEFINE e == [i \in 0 .. Len(cs) + Len(ds) |-> IF i <= Len(cs) THEN f[i] ELSE g[i - Len(cs)]]
<1>7. IsRun(e, s, cs \o ds)
  <2>1. e[0] = s
    BY <1>1, <1>3 DEF IsRun
  <2>2. ASSUME NEW i \in 1 .. Len(cs \o ds) PROVE e[i] = Obey(e[i - 1], (cs \o ds)[i])
    <3>1. CASE i <= Len(cs)
      <4>1. i \in 1 .. Len(cs) /\ e[i] = f[i] /\ e[i - 1] = f[i - 1]
        BY <1>1, <3>1
      <4> QED
        BY <1>1, <1>3, <4>1 DEF IsRun
    <3>2. CASE ~(i <= Len(cs))
      <4>. DEFINE j == i - Len(cs)
      <4>1. j \in 1 .. Len(ds) /\ Len(cs) + j = i /\ i \in 0 .. Len(cs) + Len(ds)
            /\ i - 1 \in 0 .. Len(cs) + Len(ds)
        BY <1>1, <3>2
      <4>2. (cs \o ds)[i] = ds[j]
        BY <1>1, <4>1
      <4>3. e[i] = g[j]
        BY <3>2, <4>1
      <4>4. e[i - 1] = g[j - 1]
        <5>1. CASE j = 1
          <6>1. i - 1 = Len(cs) /\ e[i - 1] = f[Len(cs)]
            BY <1>1, <4>1, <5>1
          <6> QED
            BY <1>3, <1>5, <5>1, <6>1 DEF IsRun
        <5>2. CASE j # 1
          <6>1. ~(i - 1 <= Len(cs)) /\ (i - 1) - Len(cs) = j - 1
            BY <1>1, <4>1, <5>2
          <6> QED
            BY <4>1, <6>1
        <5> QED
          BY <5>1, <5>2
      <4>5. g[j] = Obey(g[j - 1], ds[j])
        BY <1>5, <4>1 DEF IsRun
      <4> QED
        BY <4>2, <4>3, <4>4, <4>5
    <3> QED
      BY <3>1, <3>2
  <2>. HIDE DEF e
  <2> QED
    BY <2>1, <2>2 DEF IsRun
<1>8. h[Len(cs \o ds)] = e[Len(cs \o ds)]
  <2>. DEFINE both == cs \o ds
  <2>1. Len(both) \in 0 .. Len(both) /\ both \in Seq(T)
    BY <1>1
  <2>2. IsRun(h, s, both) /\ IsRun(e, s, both)
    BY <1>6, <1>7
  <2>. HIDE DEF e, both
  <2>3. \A i \in 0 .. Len(both) : h[i] = e[i]
    BY <2>1, <2>2, RunIsOne
  <2>4. h[Len(both)] = e[Len(both)]
    BY <2>1, <2>3
  <2> QED
    BY <2>4 DEF both
<1>9. e[Len(cs) + Len(ds)] = g[Len(ds)]
  <2>1. CASE Len(ds) = 0
    BY <1>1, <1>3, <1>5, <2>1 DEF IsRun
  <2>2. CASE Len(ds) # 0
    BY <1>1, <2>2
  <2> QED
    BY <2>1, <2>2
<1> QED
  BY <1>1, <1>4, <1>5, <1>6, <1>8, <1>9

\* One command.
LEMMA WrittenOne ==
    ASSUME NEW S, NEW s \in S, NEW c, Obey(s, c) \in S, Stable(S, <<c>>)
    PROVE  Written(s, <<c>>) = Obey(s, c)
<1>1. <<c>> \in Seq({c}) /\ Len(<<c>>) = 1 /\ <<c>>[1] = c
  OBVIOUS
<1>2. PICK f : IsRun(f, s, <<c>>) /\ Written(s, <<c>>) = f[Len(<<c>>)]
  BY <1>1, RunIs
<1>3. f[1] = Obey(f[0], <<c>>[1]) /\ f[0] = s
  BY <1>1, <1>2 DEF IsRun
<1> QED
  BY <1>1, <1>2, <1>3

\* Commands make screens of screens.
LEMMA CommandsStable ==
    ASSUME NEW w \in Nat, w > 0, NEW cs \in Seq(Commands)
    PROVE  Stable(Screens(w), cs)
<1>. SUFFICES ASSUME NEW s \in Screens(w), NEW c \in Commands PROVE Obey(s, c) \in Screens(w)
  BY DEF Stable
<1>1. CASE c \in Puts
  <2>1. PICK cp \in Int : c = <<"put", cp>>
    BY <1>1 DEF Puts
  <2> QED
    BY <2>1, PutScreen
<1>2. CASE c = Return
  BY <1>2, ObeyIs, MovesAre
<1>3. CASE c = Feed
  BY <1>3, ObeyIs, MovesAre
<1>4. CASE c = ToErase
  BY <1>4, ObeyIs, EraseIs
<1>5. CASE c \in Numbers
  <2>1. PICK d \in {"up", "down", "right"}, n \in Nat : c = <<d, n>>
    BY <1>5 DEF Numbers
  <2>2. CASE d = "up"
    <3>1. Obey(s, c) = Up(s, n)
      BY <2>1, <2>2, ObeyIs
    <3>2. Up(s, n) \in Screens(w)
      BY <2>1, MovesAre
    <3> QED
      BY <3>1, <3>2
  <2>3. CASE d = "down"
    <3>1. Obey(s, c) = Down(s, n)
      BY <2>1, <2>3, ObeyIs
    <3>2. Down(s, n) \in Screens(w)
      BY <2>1, MovesAre
    <3> QED
      BY <3>1, <3>2
  <2>4. CASE d = "right"
    <3>1. Obey(s, c) = Right(s, n)
      BY <2>1, <2>4, ObeyIs
    <3>2. Right(s, n) \in Screens(w)
      BY <2>1, MovesAre
    <3> QED
      BY <3>1, <3>2
  <2> QED
    BY <2>1, <2>2, <2>3, <2>4
<1> QED
  BY <1>1, <1>2, <1>3, <1>4, <1>5 DEF Commands

\* Commands one after the other.
LEMMA Writes ==
    ASSUME NEW w \in Nat, w > 0, NEW s \in Screens(w)
    PROVE  /\ Written(s, <<>>) = s
           /\ \A c \in Commands : Written(s, <<c>>) = Obey(s, c) /\ Obey(s, c) \in Screens(w)
           /\ \A cs \in Seq(Commands) :
                /\ Written(s, cs) \in Screens(w)
                /\ \A ds \in Seq(Commands) :
                        /\ cs \o ds \in Seq(Commands)
                        /\ Written(s, cs \o ds) = Written(Written(s, cs), ds)
<1>1. ASSUME NEW c \in Commands
      PROVE  Written(s, <<c>>) = Obey(s, c) /\ Obey(s, c) \in Screens(w)
  <2>1. <<c>> \in Seq(Commands) /\ Len(<<c>>) = 1 /\ <<c>>[1] = c
    OBVIOUS
  <2>2. Stable(Screens(w), <<c>>)
    BY <2>1, CommandsStable
  <2>3. Obey(s, c) \in Screens(w)
    BY <2>1, <2>2 DEF Stable
  <2> QED
    BY <2>2, <2>3, WrittenOne
<1>2. ASSUME NEW cs \in Seq(Commands), NEW ds \in Seq(Commands)
      PROVE  /\ Written(s, cs) \in Screens(w) /\ cs \o ds \in Seq(Commands)
             /\ Written(s, cs \o ds) = Written(Written(s, cs), ds)
  <2>1. Stable(Screens(w), cs) /\ Stable(Screens(w), ds)
    BY CommandsStable
  <2> QED
    BY <2>1, WrittenJoin
<1>3. <<>> \in Seq(Commands)
  OBVIOUS
<1> QED
  BY <1>1, <1>2, <1>3, WrittenNone

\* What is written for a text.
LEMMA TextIs ==
    ASSUME NEW t, Whole(t)
    PROVE  /\ Text(t) \in Seq(Puts) /\ Text(t) \in Seq(Commands)
           /\ Text(<<>>) = <<>>
           /\ Len(t) > 0 => Text(t) = <<<<"put", Cp(t, 0)>>>> \o Text(Rest(t))
           /\ \A v : Whole(v) => Text(t \o v) = Text(t) \o Text(v)
<1>. DEFINE Puts1(d) == [i \in DOMAIN d |-> <<"put", d[i]>>]
<1>0. \A v : Text(v) = Puts1(Decoded(v))
  BY DEF Text
<1>1. ASSUME NEW d \in Seq(Int) PROVE Puts1(d) \in Seq(Puts) /\ Len(Puts1(d)) = Len(d)
                                      /\ \A i \in 1 .. Len(d) : Puts1(d)[i] = <<"put", d[i]>>
  <2>1. \A i \in 1 .. Len(d) : <<"put", d[i]>> \in Puts
    BY DEF Puts
  <2>2. DOMAIN d = 1 .. Len(d) /\ Len(d) \in Nat
    OBVIOUS
  <2> QED
    BY <2>1, <2>2
<1>2. ASSUME NEW d \in Seq(Int), NEW e \in Seq(Int) PROVE Puts1(d \o e) = Puts1(d) \o Puts1(e)
  <2>1. /\ d \o e \in Seq(Int) /\ Len(d \o e) = Len(d) + Len(e)
        /\ Len(d) \in Nat /\ Len(e) \in Nat
        /\ \A i \in 1 .. Len(d) : (d \o e)[i] = d[i]
        /\ \A i \in 1 .. Len(e) : (d \o e)[Len(d) + i] = e[i]
    BY JoinFacts
  <2>2. /\ Puts1(d \o e) \in Seq(Puts) /\ Len(Puts1(d \o e)) = Len(d) + Len(e)
        /\ \A i \in 1 .. Len(d) + Len(e) : Puts1(d \o e)[i] = <<"put", (d \o e)[i]>>
    BY <1>1, <2>1
  <2>3. /\ Puts1(d) \in Seq(Puts) /\ Len(Puts1(d)) = Len(d)
        /\ \A i \in 1 .. Len(d) : Puts1(d)[i] = <<"put", d[i]>>
    BY <1>1
  <2>4. /\ Puts1(e) \in Seq(Puts) /\ Len(Puts1(e)) = Len(e)
        /\ \A i \in 1 .. Len(e) : Puts1(e)[i] = <<"put", e[i]>>
    BY <1>1
  <2>. HIDE DEF Puts1
  <2>. DEFINE x == Puts1(d)
              y == Puts1(e)
  <2>7. x \in Seq(Puts) /\ Len(x) = Len(d) /\ y \in Seq(Puts) /\ Len(y) = Len(e)
    BY <2>3, <2>4
  <2>5. /\ x \o y \in Seq(Puts) /\ Len(x \o y) = Len(d) + Len(e)
        /\ \A i \in 1 .. Len(d) : (x \o y)[i] = x[i]
        /\ \A i \in 1 .. Len(e) : (x \o y)[Len(d) + i] = y[i]
    <3>. HIDE DEF x, y
    <3>1. /\ x \o y \in Seq(Puts) /\ Len(x \o y) = Len(x) + Len(y)
          /\ \A i \in 1 .. Len(x) : (x \o y)[i] = x[i]
          /\ \A i \in 1 .. Len(y) : (x \o y)[Len(x) + i] = y[i]
      <4>1. x \in Seq(Puts) /\ y \in Seq(Puts)
        BY <2>7
      <4> QED
        BY ONLY <4>1, JoinFacts
    <3> QED
      BY <2>7, <3>1
  <2>6. ASSUME NEW i \in 1 .. Len(d) + Len(e) PROVE Puts1(d \o e)[i] = (x \o y)[i]
    <3>1. CASE i <= Len(d)
      <4>1. i \in 1 .. Len(d)
        BY <2>1, <3>1
      <4> QED
        BY <2>1, <2>2, <2>3, <2>5, <4>1
    <3>2. CASE ~(i <= Len(d))
      <4>. DEFINE j == i - Len(d)
      <4>1. j \in 1 .. Len(e) /\ Len(d) + j = i
        BY <2>1, <3>2
      <4>2. (x \o y)[i] = y[j] /\ (d \o e)[i] = e[j]
        <5>. HIDE DEF j, x, y
        <5> QED
          BY <2>1, <2>5, <4>1
      <4>3. y[j] = <<"put", e[j]>>
        <5>. HIDE DEF j
        <5> QED
          BY <2>4, <4>1
      <4>. HIDE DEF j, x, y
      <4> QED
        BY <2>2, <4>2, <4>3
    <3> QED
      BY <3>1, <3>2
  <2> QED
    BY <2>1, <2>2, <2>5, <2>6
<1>3. Decoded(t) \in Seq(Int)
  BY DecodedIs
<1>4. Text(<<>>) = <<>>
  BY <1>0, DecodedEmpty
<1>5. ASSUME Len(t) > 0 PROVE Text(t) = <<<<"put", Cp(t, 0)>>>> \o Text(Rest(t))
  <2>1. /\ Whole(Rest(t)) /\ Cp(t, 0) \in Int
        /\ Decoded(t) = <<Cp(t, 0)>> \o Decoded(Rest(t))
    BY <1>5, DecodedFirst
  <2>2. Decoded(Rest(t)) \in Seq(Int) /\ <<Cp(t, 0)>> \in Seq(Int)
    BY <2>1, DecodedIs
  <2>3. Text(t) = Puts1(<<Cp(t, 0)>>) \o Puts1(Decoded(Rest(t)))
    BY <1>0, <1>2, <2>1, <2>2
  <2>4. Puts1(<<Cp(t, 0)>>) = <<<<"put", Cp(t, 0)>>>>
    OBVIOUS
  <2> QED
    BY <1>0, <2>3, <2>4
<1>6. ASSUME NEW v, Whole(v) PROVE Text(t \o v) = Text(t) \o Text(v)
  <2>1. Decoded(t \o v) = Decoded(t) \o Decoded(v) /\ Decoded(v) \in Seq(Int)
    BY <1>6, DecodedJoin, DecodedIs
  <2> QED
    BY <1>0, <1>2, <1>3, <2>1
<1>7. Text(t) \in Seq(Puts) /\ Seq(Puts) \subseteq Seq(Commands)
  <2>1. Puts \subseteq Commands
    BY DEF Commands
  <2> QED
    BY <1>0, <1>1, <1>3, <2>1
<1> QED
  BY <1>4, <1>5, <1>6, <1>7

\* Two screens that look alike, with their cursors at the same place.
Like(w, s, t) ==
    /\ s \in Screens(w) /\ t \in Screens(w)
    /\ \A q \in Nat \ {0} : RowOf(s, q) = RowOf(t, q)
    /\ s.row = t.row /\ s.col = t.col /\ s.wrap = t.wrap

\* Two screens that look alike look alike after a character.
LEMMA LikePut ==
    ASSUME NEW w \in Nat, w > 0, NEW s, NEW t, Like(w, s, t), NEW c \in Puts
    PROVE  Like(w, Obey(s, c), Obey(t, c))
<1>0. /\ s \in Screens(w) /\ t \in Screens(w) /\ s.row = t.row /\ s.col = t.col
      /\ s.wrap = t.wrap /\ s.row \in Nat \ {0} /\ s.wrap \in BOOLEAN
      /\ \A q \in Nat \ {0} : RowOf(s, q) = RowOf(t, q)
  BY ScreenFacts DEF Like
<1>1. PICK cp \in Int : c = <<"put", cp>>
  BY DEF Puts
<1>. DEFINE x == Obey(s, c)
            y == Obey(t, c)
<1>2. CASE IsCombining(cp)
  <2>1. x = PutMark(s, cp) /\ y = PutMark(t, cp)
    BY <1>1, <1>2, PutIs
  <2>. HIDE DEF x, y
  <2>. USE <1>0, <2>1
  <2>2. /\ x \in Screens(w) /\ x.row = s.row /\ x.col = s.col /\ x.wrap = s.wrap
        /\ RowOf(x, s.row) = Marked(RowOf(s, s.row), IF s.wrap THEN w ELSE s.col, cp)
        /\ \A q \in Nat \ {0} : q # s.row => RowOf(x, q) = RowOf(s, q)
    BY ONLY w \in Nat, w > 0, s \in Screens(w), cp \in Int, x = PutMark(s, cp), MarkIs, SMTT(40)
  <2>3. /\ y \in Screens(w) /\ y.row = t.row /\ y.col = t.col /\ y.wrap = t.wrap
        /\ RowOf(y, t.row) = Marked(RowOf(t, t.row), IF t.wrap THEN w ELSE t.col, cp)
        /\ \A q \in Nat \ {0} : q # t.row => RowOf(y, q) = RowOf(t, q)
    BY ONLY w \in Nat, w > 0, t \in Screens(w), cp \in Int, y = PutMark(t, cp), MarkIs, SMTT(40)
  <2>4. RowOf(x, s.row) = RowOf(y, s.row)
    BY <1>0, <2>2, <2>3
  <2>5. \A q \in Nat \ {0} : RowOf(x, q) = RowOf(y, q)
    BY <1>0, <2>2, <2>3, <2>4
  <2> QED
    BY <1>0, <2>2, <2>3, <2>5 DEF Like, x, y
<1>3. CASE ~IsCombining(cp)
  <2>0. Width(cp) \in 1 .. 2
    BY <1>3, WidthIs
  <2>1. x = PutBase(s, cp) /\ y = PutBase(t, cp)
    BY <1>1, <1>3, PutIs
  <2>. DEFINE k == Width(cp)
              over == s.wrap \/ s.col + k > w
              r == IF over THEN s.row + 1 ELSE s.row
              i == IF over THEN 0 ELSE s.col
  <2>. HIDE DEF x, y
  <2>2. /\ x \in Screens(w) /\ x.row = r
        /\ x.wrap = (i + k >= w) /\ x.col = (IF i + k >= w THEN w - 1 ELSE i + k)
        /\ RowOf(x, r) = Painted(RowOf(s, r), i, k, w, cp)
        /\ \A q \in Nat \ {0} : q # r => RowOf(x, q) = RowOf(s, q)
    BY <1>0, <2>0, <2>1, BaseIs
  <2>3. /\ y \in Screens(w) /\ y.row = r
        /\ y.wrap = (i + k >= w) /\ y.col = (IF i + k >= w THEN w - 1 ELSE i + k)
        /\ RowOf(y, r) = Painted(RowOf(t, r), i, k, w, cp)
        /\ \A q \in Nat \ {0} : q # r => RowOf(y, q) = RowOf(t, q)
    <3>1. /\ over = (t.wrap \/ t.col + k > w)
          /\ r = (IF t.wrap \/ t.col + k > w THEN t.row + 1 ELSE t.row)
          /\ i = (IF t.wrap \/ t.col + k > w THEN 0 ELSE t.col)
      BY <1>0
    <3>. HIDE DEF over, r, i
    <3>2. LET o == t.wrap \/ t.col + k > w
              a == IF o THEN t.row + 1 ELSE t.row
              b == IF o THEN 0 ELSE t.col
          IN  /\ y \in Screens(w) /\ y.row = a
              /\ y.wrap = (b + k >= w) /\ y.col = (IF b + k >= w THEN w - 1 ELSE b + k)
              /\ RowOf(y, a) = Painted(RowOf(t, a), b, k, w, cp)
              /\ \A q \in Nat \ {0} : q # a => RowOf(y, q) = RowOf(t, q)
      BY <1>0, <2>0, <2>1, BaseIs
    <3> QED
      BY <3>1, <3>2
  <2>4. r \in Nat \ {0}
    BY <1>0
  <2>. HIDE DEF r, over, i
  <2>5. RowOf(x, r) = RowOf(y, r)
    BY <1>0, <2>2, <2>3, <2>4
  <2>6. \A q \in Nat \ {0} : RowOf(x, q) = RowOf(y, q)
    BY <1>0, <2>2, <2>3, <2>5
  <2>7. x.row = y.row /\ x.col = y.col /\ x.wrap = y.wrap
    BY <2>2, <2>3
  <2> QED
    BY <2>2, <2>3, <2>6, <2>7 DEF Like, x, y
<1> QED
  BY <1>2, <1>3

\* They do after a text.
LEMMA LikeWritten ==
    ASSUME NEW w \in Nat, w > 0, NEW s, NEW t, Like(w, s, t), NEW cs \in Seq(Puts)
    PROVE  Like(w, Written(s, cs), Written(t, cs))
<1>1. s \in Screens(w) /\ t \in Screens(w) /\ cs \in Seq(Commands) /\ Len(cs) \in Nat
  <2>1. Puts \subseteq Commands
    BY DEF Commands
  <2> QED
    BY <2>1 DEF Like
<1>2. Stable(Screens(w), cs)
  BY <1>1, CommandsStable
<1>3. PICK f : /\ f \in [0 .. Len(cs) -> Screens(w)] /\ IsRun(f, s, cs)
               /\ Written(s, cs) = f[Len(cs)]
  BY <1>1, <1>2, RunIs
<1>4. PICK g : /\ g \in [0 .. Len(cs) -> Screens(w)] /\ IsRun(g, t, cs)
               /\ Written(t, cs) = g[Len(cs)]
  BY <1>1, <1>2, RunIs
<1>. DEFINE Bad == {i \in 0 .. Len(cs) : ~Like(w, f[i], g[i])}
<1>5. Bad = {}
  <2>. SUFFICES ASSUME Bad # {} PROVE FALSE
    OBVIOUS
  <2>1. Bad \subseteq Nat
    BY <1>1
  <2>2. PICK i \in Bad : \A j \in Bad : i <= j
    BY <2>1, LeastNat
  <2>3. CASE i = 0
    BY <1>3, <1>4, <2>2, <2>3 DEF IsRun
  <2>4. CASE i # 0
    <3>1. i \in 1 .. Len(cs) /\ i - 1 \in 0 .. Len(cs) /\ ~(i <= i - 1) /\ cs[i] \in Puts
      BY <1>1, <2>2, <2>4
    <3>2. Like(w, f[i - 1], g[i - 1])
      BY <2>2, <3>1
    <3>3. f[i] = Obey(f[i - 1], cs[i]) /\ g[i] = Obey(g[i - 1], cs[i])
      BY <1>3, <1>4, <3>1 DEF IsRun
    <3>4. Like(w, f[i], g[i])
      BY <3>1, <3>2, <3>3, LikePut
    <3> QED
      BY <2>2, <3>4
  <2> QED
    BY <2>3, <2>4
<1>6. Len(cs) \in 0 .. Len(cs)
  BY <1>1
<1> QED
  BY <1>3, <1>4, <1>5, <1>6

-----------------------------------------------------------------------------
(* Where the cursor gets to.                                               *)

\* The columns behind the left end of a row, the rows put one after the other.
At(w, s, first) == (s.row - first) * w + (IF s.wrap THEN w ELSE s.col)

\* The column the editor counts, at which the next character goes.
Column(s) == IF s.wrap THEN 0 ELSE s.col

\* Nothing is below the cursor.
Below(w, s) == \A q \in Nat \ {0} : q > s.row => RowOf(s, q) = BlankRow(w)

\* Something is before the cursor on its row.
Started(s) == s.wrap \/ s.col > 0

\* A screen the cursor has only moved forward on.
Onward(w, s, t) ==
    /\ t \in Screens(w) /\ t.row >= s.row
    /\ Started(s) => Started(t)
    /\ Below(w, s) => Below(w, t)
    /\ \A q \in Nat \ {0} : q < s.row => RowOf(t, q) = RowOf(s, q)

\* The cursor is in a column of the terminal.
LEMMA ColumnFacts ==
    ASSUME NEW w \in Nat, w >= 3, NEW s \in Screens(w)
    PROVE  Column(s) \in 0 .. w - 1
BY ScreenFacts DEF Column

\* How to show that a screen follows another.
LEMMA OnwardIs ==
    ASSUME NEW w \in Nat, w > 0, NEW s \in Screens(w), NEW t \in Screens(w), t.row >= s.row,
           Started(s) => Started(t),
           \A q \in Nat \ {0} : q # t.row => RowOf(t, q) = RowOf(s, q)
    PROVE  Onward(w, s, t)
<1>1. s.row \in Nat \ {0} /\ t.row \in Nat \ {0}
  BY ScreenFacts
<1> QED
  BY <1>1 DEF Onward, Below

\* How far a character moves the cursor on.
LEMMA PutMoves ==
    ASSUME NEW w \in Nat, w >= 3, NEW s \in Screens(w), NEW cp \in Int, NEW first \in Nat,
           NEW t, t = Obey(s, <<"put", cp>>), NEW k, k = Width(cp)
    PROVE  /\ Onward(w, s, t)
           /\ At(w, t, first) = At(w, s, first) + Gap(Column(s), k, w) + k
           /\ Column(t) = Now(Column(s), k, w)
<1>0. /\ s.row \in Nat \ {0} /\ s.col \in Nat /\ s.col < w /\ s.wrap \in BOOLEAN
      /\ s.wrap => s.col = w - 1
      /\ w > 0 /\ k \in 0 .. 2 /\ (k = 0 <=> IsCombining(cp))
  BY ScreenFacts, WidthIs
<1>1. CASE IsCombining(cp)
  <2>1. /\ t \in Screens(w) /\ t.row = s.row /\ t.col = s.col /\ t.wrap = s.wrap
        /\ \A q \in Nat \ {0} : q # s.row => RowOf(t, q) = RowOf(s, q)
    <3>0. w > 0
      BY <1>0
    <3>1. t = PutMark(s, cp)
      BY <1>1, PutIs
    <3>2. /\ t \in Screens(w) /\ t.row = s.row /\ t.col = s.col /\ t.wrap = s.wrap
          /\ RowOf(t, s.row) = Marked(RowOf(s, s.row), IF s.wrap THEN w ELSE s.col, cp)
          /\ \A q \in Nat \ {0} : q # s.row => RowOf(t, q) = RowOf(s, q)
      BY ONLY w \in Nat, <3>0, s \in Screens(w), cp \in Int, <3>1, MarkIs, SMTT(40)
    <3> QED
      BY <3>2
  <2>2. Onward(w, s, t)
    <3>1. Started(s) => Started(t)
      BY <2>1 DEF Started
    <3> QED
      BY <1>0, <2>1, <3>1, OnwardIs
  <2>3. k = 0 /\ Column(s) \in Nat /\ Column(s) < w
    BY <1>0, <1>1 DEF Column
  <2>4. Gap(Column(s), k, w) = 0 /\ Now(Column(s), k, w) = Column(s)
    BY <2>3 DEF Gap, Now
  <2>5. At(w, t, first) = At(w, s, first) /\ Column(t) = Column(s) /\ At(w, s, first) \in Int
    BY <1>0, <2>1 DEF At, Column
  <2> QED
    BY <2>2, <2>3, <2>4, <2>5
<1>2. CASE ~IsCombining(cp)
  <2>0. k \in 1 .. 2
    BY <1>0, <1>2
  <2>. DEFINE over == s.wrap \/ s.col + k > w
              r == IF over THEN s.row + 1 ELSE s.row
              c == IF over THEN 0 ELSE s.col
              R == s.row - first
  <2>1. /\ t \in Screens(w) /\ t.row = r
        /\ t.wrap = (c + k >= w) /\ t.col = (IF c + k >= w THEN w - 1 ELSE c + k)
        /\ \A q \in Nat \ {0} : q # r => RowOf(t, q) = RowOf(s, q)
        /\ t.wrap \in BOOLEAN
    <3>1. t \in Screens(w) /\ t.wrap \in BOOLEAN
      BY <1>0, PutScreen, ScreenFacts
    <3> QED
      BY <1>0, <1>2, <2>0, <3>1, PutIs, BaseIs
  <2>2. Onward(w, s, t)
    <3>1. r >= s.row
      BY <1>0
    <3>2. Started(t)
      <4>1. t.wrap \/ t.col = c + k
        <5>. HIDE DEF c, r
        <5> QED
          BY <2>1
      <4>2. c + k > 0
        BY <1>0, <2>0
      <4>. HIDE DEF c
      <4> QED
        BY <4>1, <4>2 DEF Started
    <3>. HIDE DEF r
    <3> QED
      BY <1>0, <2>1, <3>1, <3>2, OnwardIs
  <2>3. R \in Int /\ R * w \in Int /\ (R + 1) * w = R * w + w
    BY <1>0
  <2>4. CASE s.wrap
    <3>1. over /\ c = 0 /\ r = s.row + 1 /\ ~(c + k >= w)
      BY <2>0, <2>4
    <3>2. ~t.wrap /\ t.col = k /\ t.row - first = R + 1
      <4>1. ~t.wrap /\ t.col = k /\ t.row = s.row + 1
        <5>1. c + k = k
          BY <2>0, <3>1
        <5>. HIDE DEF c, r, over
        <5> QED
          BY <2>1, <3>1, <5>1
      <4> QED
        BY <1>0, <4>1
    <3>3. At(w, t, first) = (R + 1) * w + k /\ At(w, s, first) = R * w + w
      BY <2>4, <3>2 DEF At
    <3>4. Column(s) = 0 /\ Column(t) = k /\ Gap(0, k, w) = 0 /\ Now(0, k, w) = k
      BY <2>0, <2>4, <3>2 DEF Column, Gap, Now
    <3>. HIDE DEF R
    <3> QED
      BY <2>0, <2>2, <2>3, <3>3, <3>4
  <2>5. CASE ~s.wrap /\ s.col + k > w
    <3>1. over /\ c = 0 /\ r = s.row + 1 /\ ~(c + k >= w) /\ k = 2 /\ s.col = w - 1
      BY <1>0, <2>0, <2>5
    <3>2. ~t.wrap /\ t.col = k /\ t.row - first = R + 1
      <4>1. ~t.wrap /\ t.col = k /\ t.row = s.row + 1
        <5>1. c + k = k
          BY <2>0, <3>1
        <5>. HIDE DEF c, r, over
        <5> QED
          BY <2>1, <3>1, <5>1
      <4> QED
        BY <1>0, <4>1
    <3>3. At(w, t, first) = (R + 1) * w + 2 /\ At(w, s, first) = R * w + (w - 1)
      BY <2>5, <3>1, <3>2 DEF At
    <3>4. Column(s) = w - 1 /\ Column(t) = 2 /\ Gap(w - 1, k, w) = 1 /\ Now(w - 1, k, w) = 2
      BY <2>5, <3>1, <3>2 DEF Column, Gap, Now
    <3>. HIDE DEF R
    <3> QED
      BY <2>2, <2>3, <3>1, <3>3, <3>4
  <2>6. CASE ~s.wrap /\ ~(s.col + k > w)
    <3>1. ~over /\ c = s.col /\ r = s.row
      BY <2>6
    <3>2. t.row - first = R /\ Column(s) = s.col /\ Gap(s.col, k, w) = 0
          /\ At(w, s, first) = R * w + s.col
      BY <1>0, <2>1, <2>6, <3>1 DEF Column, Gap, At
    <3>3. CASE s.col + k = w
      <4>1. t.wrap /\ At(w, t, first) = R * w + w /\ Column(t) = 0 /\ Now(s.col, k, w) = 0
        <5>1. t.wrap
          <6>1. c + k >= w
            BY <1>0, <2>0, <3>1, <3>3
          <6>. HIDE DEF c, r, over
          <6> QED
            BY <2>1, <6>1
        <5> QED
          BY <1>0, <2>0, <3>2, <3>3, <5>1 DEF At, Column, Now
      <4>. HIDE DEF R
      <4> QED
        BY <1>0, <2>0, <2>2, <2>3, <3>2, <3>3, <4>1
    <3>4. CASE s.col + k < w
      <4>1. ~t.wrap /\ t.col = s.col + k
        BY <1>0, <2>0, <2>1, <3>1, <3>4
      <4>2. /\ At(w, t, first) = R * w + (s.col + k) /\ Column(t) = s.col + k
            /\ Now(s.col, k, w) = s.col + k
        BY <1>0, <2>0, <3>2, <3>4, <4>1 DEF At, Column, Now
      <4>. HIDE DEF R
      <4> QED
        BY <1>0, <2>0, <2>2, <2>3, <3>2, <3>4, <4>2
    <3> QED
      BY <1>0, <2>0, <2>6, <3>3, <3>4
  <2> QED
    BY <1>0, <2>4, <2>5, <2>6
<1> QED
  BY <1>1, <1>2

-----------------------------------------------------------------------------
(* The columns the editor counts, and those the terminal uses.             *)

\* Two functions that agree where they agree nearer to the end are the same.
Agree(f, g, D, rank) ==
    \A p \in D : (\A q \in D : rank[q] < rank[p] => f[q] = g[q]) => f[p] = g[p]

\* Two loops that do the same end with the same.
LEMMA OneLoop ==
    ASSUME NEW D, NEW N \in Nat, NEW rank \in [D -> 0 .. N], NEW f, NEW g,
           Agree(f, g, D, rank)
    PROVE  \A p \in D : f[p] = g[p]
<1>. DEFINE T == {n \in Nat : \E p \in D : rank[p] = n /\ f[p] # g[p]}
<1>1. T = {}
  <2>. SUFFICES ASSUME T # {} PROVE FALSE
    OBVIOUS
  <2>1. PICK n \in T : \A m \in T : n <= m
    <3>1. T \subseteq Nat
      OBVIOUS
    <3>. HIDE DEF T
    <3> QED
      BY <3>1, LeastNat
  <2>2. PICK p \in D : rank[p] = n /\ f[p] # g[p]
    OBVIOUS
  <2>3. ASSUME NEW q \in D, rank[q] < rank[p] PROVE f[q] = g[q]
    <3>1. rank[q] \in Nat /\ n \in Nat /\ ~(n <= rank[q])
      BY <2>2, <2>3
    <3>2. rank[q] \notin T
      BY <2>1, <3>1
    <3> QED
      BY <3>1, <3>2
  <2> QED
    BY <2>2, <2>3 DEF Agree
<1>2. \A p \in D : rank[p] \in Nat
  OBVIOUS
<1> QED
  BY <1>1, <1>2

\* The same of whatever is at a position.
LEMMA AnyWidth == ASSUME NEW cp PROVE Width(cp) \in 0 .. 2
BY DEF Width

\* What the columns of a line go through: f at a position and a column.
IsCount(f, t, pos, w) ==
    \A p, c \in Nat : Between(t, p) =>
        f[<<p, c>>] =
            IF p = Len(t) THEN 0
            ELSE LET k == Width(Cp(t, p))
                 IN  Gap(c, k, w) +
                     (IF p >= pos THEN 0 ELSE k + f[<<p + CharLen(t, p), Now(c, k, w)>>])

\* What the loop over the columns adds is a number.
LEMMA GapNow ==
    ASSUME NEW w \in Nat, NEW c \in Nat, NEW k \in 0 .. 2
    PROVE  Gap(c, k, w) \in Nat /\ Now(c, k, w) \in Nat
BY DEF Gap, Now

\* columnPosForMultiLine, as a loop over the characters.
LEMMA ColumnsRun ==
    ASSUME NEW t, Whole(t), NEW w \in Nat, NEW pos \in Nat, NEW ini \in Nat
    PROVE  \E f \in [Nat \X Nat -> Nat] :
                /\ ColumnPosForMultiLine(t, pos, w, ini) = f[<<0, ini>>]
                /\ IsCount(f, t, pos, w)
<1>. DEFINE n == Len(t)
            D == Nat \X Nat
            len(p) == CodePoint(t, p, n - p).len
            wid(p) == Width(CodePoint(t, p, n - p).cp)
            Step(f, p, c) == Gap(c, wid(p), w) +
                             (IF p >= pos THEN 0 ELSE wid(p) + f[<<p + len(p), Now(c, wid(p), w)>>])
            Body(f, at) ==
                LET d == CodePoint(t, at[1], Len(t) - at[1])
                    k == Width(d.cp)
                IN  IF at[1] >= Len(t) \/ d.len = 0 THEN 0
                    ELSE Gap(at[2], k, w) +
                         (IF at[1] >= pos THEN 0
                          ELSE k + f[<<at[1] + d.len, Now(at[2], k, w)>>])
            Runs(f) == f = [at \in Nat \X Nat |-> Body(f, at)]
            from == CHOOSE f : Runs(f)
<1>0. n \in Nat
  BY WholeFacts
<1>1. ColumnPosForMultiLine(t, pos, w, ini) = from[<<0, ini>>]
  BY DEF ColumnPosForMultiLine
<1>2. \A p \in Nat : len(p) \in 0 .. 4 /\ wid(p) \in 0 .. 2
  <2>1. \A p \in Nat : len(p) \in 0 .. 4
    BY CodeLen
  <2>2. \A p \in Nat : wid(p) \in 0 .. 2
    BY AnyWidth
  <2> QED
    BY <2>1, <2>2
<1>3. ASSUME NEW f, NEW p \in Nat, NEW c \in Nat
      PROVE  Body(f, <<p, c>>) = IF p >= n \/ len(p) = 0 THEN 0 ELSE Step(f, p, c)
  BY Zenon
<1>. HIDE DEF Body
<1>4. \E f : f \in [D -> Nat] /\ Runs(f)
  <2>. DEFINE stop == [at \in D |-> at[1] >= n \/ len(at[1]) = 0]
              val == [at \in D |-> 0]
              nxt == [at \in D |-> <<at[1] + len(at[1]), Now(at[2], wid(at[1]), w)>>]
              rank == [at \in D |-> IF at[1] >= n THEN 0 ELSE n - at[1]]
              G == [x \in D \X Nat |->
                        Gap(x[1][2], wid(x[1][1]), w) +
                        (IF x[1][1] >= pos THEN 0 ELSE wid(x[1][1]) + x[2])]
  <2>. HIDE DEF n, len, wid
  <2>0. ASSUME NEW p \in Nat, NEW c \in Nat
        PROVE  /\ len(p) \in 0 .. 4 /\ wid(p) \in 0 .. 2
               /\ Now(c, wid(p), w) \in Nat /\ Gap(c, wid(p), w) \in Nat
               /\ p + len(p) \in Nat
    <3>1. len(p) \in 0 .. 4 /\ wid(p) \in 0 .. 2
      BY <1>2
    <3>2. p + len(p) \in Nat
      BY <3>1
    <3>. DEFINE k == wid(p)
    <3>3. k \in 0 .. 2
      BY <3>1
    <3>. HIDE DEF k
    <3>4. Now(c, k, w) \in Nat /\ Gap(c, k, w) \in Nat
      BY <3>3, GapNow
    <3> QED
      BY <3>1, <3>2, <3>4 DEF k
  <2>1. /\ rank \in [D -> 0 .. n] /\ stop \in [D -> BOOLEAN] /\ val \in [D -> Nat]
    BY <1>0
  <2>2. nxt \in [D -> D]
    <3>. SUFFICES ASSUME NEW p \in Nat, NEW c \in Nat
                  PROVE  <<p + len(p), Now(c, wid(p), w)>> \in D
      OBVIOUS
    <3> QED
      BY <2>0
  <2>3. G \in [D \X Nat -> Nat]
    <3>. SUFFICES ASSUME NEW p \in Nat, NEW c \in Nat, NEW v \in Nat
                  PROVE  Gap(c, wid(p), w) + (IF p >= pos THEN 0 ELSE wid(p) + v) \in Nat
      OBVIOUS
    <3>. DEFINE a == Gap(c, wid(p), w)
                b == wid(p)
    <3>1. a \in Nat /\ b \in Nat
      <4>1. b \in 0 .. 2 /\ a \in Nat
        BY <2>0, Zenon
      <4>. HIDE DEF a, b
      <4> QED
        BY <4>1
    <3>. HIDE DEF a, b
    <3>2. a + (IF p >= pos THEN 0 ELSE b + v) \in Nat
      BY <3>1
    <3> QED
      BY <3>2 DEF a, b
  <2>4. ASSUME NEW at \in D, ~stop[at] PROVE rank[nxt[at]] < rank[at]
    <3>. DEFINE p == at[1]
                k == len(p)
    <3>0. p \in Nat /\ at[2] \in Nat
      OBVIOUS
    <3>1. k \in 0 .. 4 /\ ~(p >= n) /\ k # 0
      <4>1. k \in 0 .. 4
        BY <2>0, <3>0
      <4>2. ~(at[1] >= n \/ len(at[1]) = 0)
        BY <2>4, Zenon
      <4> QED
        BY <4>1, <4>2
    <3>2. nxt[at] \in D /\ nxt[at][1] = p + k
      BY <2>2
    <3>3. rank[at] = n - p
      BY <3>1
    <3>4. rank[nxt[at]] = IF p + k >= n THEN 0 ELSE n - (p + k)
      <4>. HIDE DEF p, k, nxt
      <4> QED
        BY <3>2
    <3>. HIDE DEF p, k, nxt, rank
    <3> QED
      BY <1>0, <3>0, <3>1, <3>3, <3>4
  <2>5. PICK f \in [D -> Nat] : Loops(f, D, stop, val, nxt, G)
    <3>. HIDE DEF rank, stop, val, nxt, G, D
    <3> QED
      BY <1>0, <2>1, <2>2, <2>3, <2>4, LoopIs
  <2>6. ASSUME NEW p \in Nat, NEW c \in Nat PROVE f[<<p, c>>] = Body(f, <<p, c>>)
    <3>. DEFINE at == <<p, c>>
    <3>0. at \in D /\ at[1] = p /\ at[2] = c
      OBVIOUS
    <3>1. f[at] = IF stop[at] THEN val[at] ELSE G[<<at, f[nxt[at]]>>]
      BY <2>5, <3>0 DEF Loops
    <3>2. stop[at] = (p >= n \/ len(p) = 0) /\ val[at] = 0
      BY <3>0
    <3>3. nxt[at] = <<p + len(p), Now(c, wid(p), w)>> /\ nxt[at] \in D
      BY <2>2, <3>0
    <3>. DEFINE m == nxt[at]
    <3>4. f[m] \in Nat
      <4>1. m \in D
        BY <3>3
      <4>. HIDE DEF m
      <4> QED
        BY <2>5, <4>1
    <3>. HIDE DEF m
    <3>5. G[<<at, f[m]>>] = Gap(c, wid(p), w) + (IF p >= pos THEN 0 ELSE wid(p) + f[m])
      BY <3>0, <3>4
    <3>6. m = <<p + len(p), Now(c, wid(p), w)>>
      BY <3>3 DEF m
    <3>7. f[at] = IF p >= n \/ len(p) = 0 THEN 0 ELSE Step(f, p, c)
      <4>1. f[at] = IF stop[at] THEN val[at] ELSE G[<<at, f[m]>>]
        BY <3>1 DEF m
      <4>2. G[<<at, f[m]>>] = Step(f, p, c)
        BY <3>5, <3>6
      <4>. HIDE DEF G, stop, val, at
      <4> QED
        BY <3>2, <4>1, <4>2
    <3> QED
      BY <1>3, <3>7
  <2>7. ASSUME NEW at \in D PROVE f[at] = Body(f, at)
    <3>1. at = <<at[1], at[2]>> /\ at[1] \in Nat /\ at[2] \in Nat
      OBVIOUS
    <3>. DEFINE p == at[1]
                c == at[2]
    <3>. HIDE DEF p, c
    <3>2. f[<<p, c>>] = Body(f, <<p, c>>)
      BY <2>6, <3>1 DEF p, c
    <3> QED
      BY <3>1, <3>2 DEF p, c
  <2>8. f = [at \in Nat \X Nat |-> Body(f, at)]
    BY <2>7
  <2> QED
    BY <2>8
<1>5. Runs(from)
  <2>. HIDE DEF Runs
  <2> QED
    BY <1>4
<1>6. from \in [D -> Nat]
  <2>1. PICK g : g \in [D -> Nat] /\ Runs(g)
    BY <1>4
  <2>. DEFINE rank == [at \in D |-> IF at[1] >= n THEN 0 ELSE n - at[1]]
  <2>2. rank \in [D -> 0 .. n]
    BY <1>0
  <2>. HIDE DEF from
  <2>3. ASSUME NEW at \in D, \A q \in D : rank[q] < rank[at] => from[q] = g[q]
        PROVE  from[at] = g[at]
    <3>. DEFINE p == at[1]
                c == at[2]
                q == <<p + len(p), Now(c, wid(p), w)>>
    <3>1. at = <<p, c>> /\ p \in Nat /\ c \in Nat
      OBVIOUS
    <3>2. /\ from[at] = IF p >= n \/ len(p) = 0 THEN 0 ELSE Step(from, p, c)
          /\ g[at] = IF p >= n \/ len(p) = 0 THEN 0 ELSE Step(g, p, c)
      <4>1. from[at] = Body(from, at) /\ g[at] = Body(g, at)
        BY <1>5, <2>1
      <4>. HIDE DEF p, c, Step, len
      <4>2. at = <<p, c>> /\ Body(from, at) = Body(from, <<p, c>>) /\ Body(g, at) = Body(g, <<p, c>>)
        BY <3>1
      <4> QED
        BY <1>3, <3>1, <4>1, <4>2
    <3>3. CASE p >= n \/ len(p) = 0
      BY <3>2, <3>3
    <3>4. CASE ~(p >= n \/ len(p) = 0)
      <4>1. len(p) \in 1 .. 4 /\ wid(p) \in 0 .. 2 /\ p < n
        <5>1. len(p) \in 0 .. 4 /\ wid(p) \in 0 .. 2
          BY <1>2, <3>1
        <5>. HIDE DEF p, len, wid
        <5> QED
          BY <1>0, <3>1, <3>4, <5>1
      <4>. HIDE DEF p, c, len, wid
      <4>2. Now(c, wid(p), w) \in Nat
        <5>. DEFINE k == wid(p)
        <5>1. k \in 0 .. 2
          BY <4>1
        <5>. HIDE DEF k
        <5>2. Now(c, k, w) \in Nat
          BY <3>1, <5>1, GapNow
        <5> QED
          BY <5>2 DEF k
      <4>3. q \in D /\ q[1] = p + len(p)
        BY <3>1, <4>1, <4>2
      <4>4. rank[q] = (IF p + len(p) >= n THEN 0 ELSE n - (p + len(p))) /\ rank[at] = n - p
        <5>1. rank[at] = IF at[1] >= n THEN 0 ELSE n - at[1]
          OBVIOUS
        <5>2. rank[at] = n - p
          BY <1>0, <3>1, <4>1, <5>1 DEF p
        <5>. HIDE DEF q
        <5> QED
          BY <4>3, <5>2
      <4>5. rank[q] < rank[at]
        <5>. HIDE DEF q, rank
        <5> QED
          BY <1>0, <3>1, <4>1, <4>4
      <4>6. from[q] = g[q]
        <5>. HIDE DEF q, rank
        <5> QED
          BY <2>3, <4>3, <4>5
      <4> QED
        BY <3>2, <4>6
    <3> QED
      BY <3>3, <3>4
  <2>. HIDE DEF rank
  <2>4. \A at \in D : from[at] = g[at]
    <3>1. Agree(from, g, D, rank)
      BY <2>3 DEF Agree
    <3>. HIDE DEF n, D
    <3> QED
      BY ONLY <1>0, <2>2, <3>1, OneLoop
  <2>5. from = [at \in D |-> from[at]]
    BY <1>5
  <2> QED
    BY <2>1, <2>4, <2>5
<1>. HIDE DEF from
<1>7. ASSUME NEW p \in Nat, NEW c \in Nat, Between(t, p)
      PROVE  from[<<p, c>>] =
                IF p = n THEN 0
                ELSE LET k == Width(Cp(t, p))
                     IN  Gap(c, k, w) +
                         (IF p >= pos THEN 0 ELSE k + from[<<p + CharLen(t, p), Now(c, k, w)>>])
  <2>1. from[<<p, c>>] = Body(from, <<p, c>>)
    <3>1. <<p, c>> \in Nat \X Nat
      OBVIOUS
    <3> QED
      BY <1>5, <3>1
  <2>2. from[<<p, c>>] = IF p >= n \/ len(p) = 0 THEN 0 ELSE Step(from, p, c)
    BY <1>3, <2>1
  <2>3. CASE p = n
    <3>1. p >= n
      BY <1>0, <2>3
    <3> QED
      BY <2>2, <2>3, <3>1
  <2>4. CASE p # n
    <3>1. p < n /\ ~(p >= n) /\ n - p \in Nat
      BY <1>0, <1>7, <2>4, BetweenFacts
    <3>2. CharLen(t, p) \in 1 .. 4 /\ CharLen(t, p) <= n - p
      <4>1. CharLen(t, p) \in 1 .. 4 /\ p + CharLen(t, p) <= n
        BY <1>7, <3>1, NextBetween
      <4> QED
        BY <1>0, <4>1
    <3>3. CodePoint(t, p, n - p) = [len |-> CharLen(t, p), cp |-> Cp(t, p)]
      BY <1>7, <3>1, <3>2, CodeAt
    <3>4. len(p) = CharLen(t, p) /\ wid(p) = Width(Cp(t, p)) /\ ~(len(p) = 0)
      BY <3>2, <3>3
    <3>5. from[<<p, c>>] = Step(from, p, c)
      BY <2>2, <3>1, <3>4
    <3>. HIDE DEF len, wid
    <3> QED
      BY <2>4, <3>4, <3>5
  <2> QED
    BY <2>3, <2>4
<1>8. IsCount(from, t, pos, w)
  BY <1>7 DEF IsCount
<1> QED
  BY <1>1, <1>6, <1>8

\* The screen on which a text has been written up to a position.
Shot(s, t, p) == Written(s, Text(SubSeq(t, 1, p)))

\* The screen before the text, and after all of it.
LEMMA ShotAtStart ==
    ASSUME NEW s, NEW t, t \in Seq(Byte)
    PROVE  Shot(s, t, 0) = s /\ Shot(s, t, Len(t)) = Written(s, Text(t))
<1>1. SubSeq(t, 1, 0) = <<>> /\ SubSeq(t, 1, Len(t)) = t
  OBVIOUS
<1>2. Text(<<>>) = <<>>
  BY EmptyWhole, TextIs
<1> QED
  BY <1>1, <1>2, WrittenNone DEF Shot

\* One character after the other.
LEMMA ShotIs ==
    ASSUME NEW w \in Nat, w > 0, NEW s \in Screens(w), NEW t, Whole(t), NEW p, Between(t, p)
    PROVE  /\ Shot(s, t, p) \in Screens(w)
           /\ p < Len(t) => Shot(s, t, p + CharLen(t, p)) = Obey(Shot(s, t, p), <<"put", Cp(t, p)>>)
<1>. DEFINE q == p + CharLen(t, p)
            x == SubSeq(t, 1, p)
            e == SubSeq(t, p + 1, q)
            z == SubSeq(t, 1, q)
<1>1. Whole(x)
  BY CutWhole
<1>2. Text(x) \in Seq(Commands)
  BY <1>1, TextIs
<1>3. Shot(s, t, p) \in Screens(w)
  BY <1>2, Writes DEF Shot
<1>4. ASSUME p < Len(t) PROVE Shot(s, t, q) = Obey(Shot(s, t, p), <<"put", Cp(t, p)>>)
  <2>1. Between(t, q) /\ p \in Nat /\ q \in Nat /\ p <= q /\ CharLen(t, p) \in 1 .. 4
    <3>1. Between(t, q) /\ p \in Nat /\ CharLen(t, p) \in 1 .. 4
      BY <1>4, NextBetween
    <3> QED
      BY <3>1
  <2>. HIDE DEF q
  <2>2. Whole(e) /\ Len(e) = q - p /\ x \o e = z
    BY <2>1, ThreeParts, ZenonT(60)
  <2>3. Len(e) > 0 /\ Between(e, 0)
    <3>1. q - p = CharLen(t, p)
      BY <2>1 DEF q
    <3> QED
      BY <2>1, <2>2, <3>1, EndsBetween
  <2>4. Cp(e, 0) = Cp(t, p) /\ CharLen(e, 0) = Len(e)
    <3>1. Cp(e, 0) = Cp(t, p + 0)
      BY <2>1, <2>3, InMiddle
    <3>2. CharLen(e, 0) \in 1 .. 4 /\ CharLen(e, 0) <= Len(e) /\ Between(e, CharLen(e, 0))
      <4>. HIDE DEF e
      <4>1. /\ CharLen(e, 0) \in 1 .. 4 /\ Between(e, 0 + CharLen(e, 0))
            /\ 0 + CharLen(e, 0) <= Len(e)
        BY <2>2, <2>3, NextBetween
      <4>2. 0 + CharLen(e, 0) = CharLen(e, 0)
        BY <4>1
      <4> QED
        BY <4>1, <4>2
    <3>3. CharLen(e, 0) < Len(e) => Between(t, p + CharLen(e, 0)) /\ p + CharLen(e, 0) < q
      BY <2>1, <3>2, InMiddle
    <3>4. ASSUME NEW k, k = CharLen(e, 0), k < Len(e) PROVE FALSE
      <4>1. Between(t, p + k) /\ p + k < q /\ k \in 1 .. 4
        BY <3>2, <3>3, <3>4
      <4>2. p < p + k
        BY <2>1, <4>1
      <4>3. p + CharLen(t, p) <= p + k
        BY <1>4, <4>1, <4>2, NothingWithin
      <4> QED
        BY <2>1, <4>1, <4>3 DEF q
    <3>5. p + 0 = p /\ Len(e) \in Nat
      BY <2>1, <2>2
    <3> QED
      <4>. HIDE DEF e
      <4>1. CharLen(e, 0) = Len(e)
        BY <3>2, <3>4, <3>5
      <4> QED
        BY <3>1, <3>5, <4>1
  <2>5. Rest(e) = <<>>
    <3>1. e \in Seq(Byte)
      BY <2>2, WholeFacts
    <3>. HIDE DEF e
    <3> QED
      BY <2>4, <3>1 DEF Rest
  <2>6. Text(e) = <<<<"put", Cp(t, p)>>>> \o Text(<<>>) /\ Text(<<>>) = <<>>
    <3>. HIDE DEF e
    <3> QED
      BY <2>2, <2>3, <2>4, <2>5, TextIs
  <2>7. Text(e) = <<<<"put", Cp(t, p)>>>>
    BY <2>6
  <2>8. Cp(t, p) \in Int
    BY <1>4, CpType
  <2>9. <<"put", Cp(t, p)>> \in Commands
    BY <2>8 DEF Commands, Puts
  <2>10. Text(z) = Text(x) \o Text(e) /\ Text(e) \in Seq(Commands)
    <3>. HIDE DEF x, e, z
    <3> QED
      BY <1>1, <2>2, TextIs
  <2>11. Written(s, Text(z)) = Written(Written(s, Text(x)), Text(e))
    <3>. HIDE DEF x, e, z
    <3> QED
      BY <1>2, <2>10, Writes
  <2>12. Written(Shot(s, t, p), <<<<"put", Cp(t, p)>>>>) = Obey(Shot(s, t, p), <<"put", Cp(t, p)>>)
    BY <1>3, <2>9, Writes
  <2> QED
    BY <2>7, <2>11, <2>12 DEF Shot
<1> QED
  BY <1>3, <1>4

\* The columns that are counted are those the cursor moves over.
LEMMA Track ==
    ASSUME NEW w \in Nat, w >= 3, NEW s \in Screens(w), NEW t, Whole(t), NEW first \in Nat,
           NEW pos \in Nat, NEW f \in [Nat \X Nat -> Nat], IsCount(f, t, pos, w),
           NEW p, Between(t, p), p <= pos
    PROVE  LET x == Shot(s, t, p)
           IN  /\ At(w, x, first) + f[<<p, Column(x)>>] = At(w, s, first) + f[<<0, Column(s)>>]
               /\ Onward(w, s, x)
<1>. DEFINE Claim(q) == LET x == Shot(s, t, q)
                        IN  /\ At(w, x, first) + f[<<q, Column(x)>>] =
                                    At(w, s, first) + f[<<0, Column(s)>>]
                            /\ Onward(w, s, x)
            Bad == {q \in Nat : Between(t, q) /\ q <= pos /\ ~Claim(q)}
<1>0. p \in Nat /\ Len(t) \in Nat /\ t \in Seq(Byte)
  BY BetweenFacts, WholeFacts
<1>1. Bad = {}
  <2>. SUFFICES ASSUME Bad # {} PROVE FALSE
    OBVIOUS
  <2>1. PICK q \in Bad : \A r \in Bad : q <= r
    <3>1. Bad \subseteq Nat
      OBVIOUS
    <3>. HIDE DEF Bad
    <3> QED
      BY <3>1, LeastNat
  <2>2. q \in Nat /\ Between(t, q) /\ q <= pos /\ ~Claim(q) /\ q \in 0 .. Len(t)
    BY <2>1, BetweenFacts
  <2>3. CASE q = 0
    <3>1. Shot(s, t, 0) = s
      BY <1>0, ShotAtStart
    <3>2. Onward(w, s, s)
      <4>1. s.row \in Nat
        BY ScreenFacts
      <4> QED
        BY <4>1 DEF Onward
    <3> QED
      BY <2>2, <2>3, <3>1, <3>2
  <2>4. CASE q # 0
    <3>. DEFINE k == PrevCharLen(t, q)
                r == q - k
    <3>1. q \in 1 .. Len(t)
      BY <1>0, <2>2, <2>4
    <3>2. k \in 1 .. q /\ Between(t, r) /\ CharLen(t, r) = k
      BY <2>2, <3>1, PrevChar
    <3>3. r \in Nat /\ r < q /\ r < Len(t) /\ r < pos /\ r + CharLen(t, r) = q
      BY <1>0, <2>2, <3>1, <3>2
    <3>. HIDE DEF r, k
    <3>4. Claim(r)
      <4>1. ~(q <= r) /\ r <= pos
        BY <2>2, <3>3
      <4>2. r \notin Bad
        BY <2>1, <4>1
      <4>. HIDE DEF Claim
      <4> QED
        BY <3>2, <3>3, <4>1, <4>2
    <3>. DEFINE x == Shot(s, t, r)
                y == Shot(s, t, q)
                m == Width(Cp(t, r))
    <3>5. x \in Screens(w) /\ y = Obey(x, <<"put", Cp(t, r)>>)
      <4>1. w > 0
        OBVIOUS
      <4> QED
        <5>1. /\ Shot(s, t, r) \in Screens(w)
              /\ Shot(s, t, r + CharLen(t, r)) = Obey(Shot(s, t, r), <<"put", Cp(t, r)>>)
          BY <3>2, <3>3, <4>1, ShotIs
        <5> QED
          BY <3>3, <5>1
    <3>6. Cp(t, r) \in Int
      BY <3>2, <3>3, CpType
    <3>. HIDE DEF x, y
    <3>7. /\ Onward(w, x, y)
          /\ At(w, y, first) = At(w, x, first) + Gap(Column(x), m, w) + m
          /\ Column(y) = Now(Column(x), m, w)
      BY <3>5, <3>6, PutMoves
    <3>8. Column(x) \in Nat /\ m \in 0 .. 2 /\ Column(s) \in Nat
      <4>1. Column(x) \in 0 .. w - 1 /\ Column(s) \in 0 .. w - 1
        BY <3>5, ColumnFacts
      <4> QED
        BY <4>1, AnyWidth
    <3>9. f[<<r, Column(x)>>] = Gap(Column(x), m, w) + (m + f[<<q, Column(y)>>])
      <4>1. r # Len(t) /\ ~(r >= pos)
        BY <1>0, <3>3
      <4>2. f[<<r, Column(x)>>] = Gap(Column(x), m, w) + (m + f[<<r + CharLen(t, r), Now(Column(x), m, w)>>])
        <5>. DEFINE c == Column(x)
        <5>1. c \in Nat
          BY <3>8
        <5>. HIDE DEF c
        <5>2. f[<<r, c>>] = Gap(c, m, w) + (m + f[<<r + CharLen(t, r), Now(c, m, w)>>])
          BY <3>2, <3>3, <4>1, <5>1 DEF IsCount
        <5> QED
          BY <5>2 DEF c
      <4> QED
        BY <3>3, <3>7, <4>2
    <3>10. At(w, x, first) + f[<<r, Column(x)>>] = At(w, s, first) + f[<<0, Column(s)>>]
           /\ Onward(w, s, x)
      BY <3>4 DEF x
    <3>11. /\ At(w, x, first) \in Int /\ f[<<q, Column(y)>>] \in Nat
           /\ Gap(Column(x), m, w) \in Nat
      <4>1. x.row \in Nat /\ x.col \in Nat
        BY <3>5, ScreenFacts
      <4>2. At(w, x, first) \in Int
        <5>1. (x.row - first) * w \in Int
          BY <4>1
        <5> QED
          BY <4>1, <5>1 DEF At
      <4>3. Gap(Column(x), m, w) \in Nat /\ Now(Column(x), m, w) \in Nat
        BY <3>8, GapNow
      <4>4. <<q, Column(y)>> \in Nat \X Nat
        BY <2>2, <3>7, <4>3
      <4> QED
        BY <4>2, <4>3, <4>4
    <3>12. At(w, y, first) + f[<<q, Column(y)>>] = At(w, s, first) + f[<<0, Column(s)>>]
      <4>. DEFINE a == At(w, x, first)
                  g == Gap(Column(x), m, w)
                  h == f[<<q, Column(y)>>]
      <4>1. a \in Int /\ g \in Nat /\ h \in Nat /\ m \in Nat
        BY <3>8, <3>11
      <4>2. At(w, y, first) = (a + g) + m
        BY <3>7
      <4>3. a + (g + (m + h)) = At(w, s, first) + f[<<0, Column(s)>>]
        BY <3>9, <3>10
      <4>. HIDE DEF a, g, h, m
      <4>4. ((a + g) + m) + h = a + (g + (m + h))
        BY <4>1
      <4>5. At(w, y, first) + h = ((a + g) + m) + h
        BY <4>2
      <4> QED
        BY <4>3, <4>4, <4>5 DEF h
    <3>13. Onward(w, s, y)
      <4>1. x.row \in Nat /\ y.row \in Nat /\ s.row \in Nat
        <5>1. y \in Screens(w)
          BY <3>7 DEF Onward
        <5> QED
          BY <3>5, <5>1, ScreenFacts
      <4>2. y \in Screens(w) /\ y.row >= x.row /\ x.row >= s.row
        BY <3>7, <3>10 DEF Onward
      <4>3. Below(w, s) => Below(w, y)
        BY <3>7, <3>10 DEF Onward
      <4>4. ASSUME NEW i \in Nat \ {0}, i < s.row PROVE RowOf(y, i) = RowOf(s, i)
        <5>1. i < x.row
          BY <4>1, <4>2, <4>4
        <5>2. RowOf(y, i) = RowOf(x, i)
          BY <3>7, <5>1 DEF Onward
        <5>3. RowOf(x, i) = RowOf(s, i)
          BY <3>10, <4>4 DEF Onward
        <5> QED
          BY <5>2, <5>3
      <4> QED
        BY <3>7, <3>10, <4>1, <4>2, <4>3, <4>4 DEF Onward
    <3> QED
      BY <2>2, <3>12, <3>13 DEF y
  <2> QED
    BY <2>3, <2>4
<1>2. p \notin Bad
  BY <1>1
<1>. HIDE DEF Claim
<1>3. Claim(p)
  BY <1>0, <1>2
<1> QED
  BY <1>3 DEF Claim

\* The columns behind the character before a position, those that are left at
\* the end of the row when the next one does not fit included.
Place(w, x, t, pos) ==
    IF pos < Len(t) THEN Gap(Column(x), Width(Cp(t, pos)), w) ELSE 0

\* What columnPosForMultiLine counts is where the terminal puts the character.
LEMMA Counted ==
    ASSUME NEW w \in Nat, w >= 3, NEW s \in Screens(w), ~s.wrap, NEW t, Whole(t),
           NEW pos, Between(t, pos), NEW n, n = ColumnPosForMultiLine(t, pos, w, s.col)
    PROVE  LET x == Shot(s, t, pos)
           IN  /\ n \in Nat /\ x \in Screens(w)
               /\ s.col + n = At(w, x, s.row) + Place(w, x, t, pos)
<1>. DEFINE x == Shot(s, t, pos)
            c == Column(x)
            k == Width(Cp(t, pos))
<1>0. /\ s.row \in Nat /\ s.col \in Nat /\ Column(s) = s.col /\ w > 0
      /\ pos \in Nat /\ Len(t) \in Nat /\ pos <= Len(t)
  BY ScreenFacts, BetweenFacts DEF Column, Between
<1>1. At(w, s, s.row) = s.col
  <2>1. (s.row - s.row) * w = 0
    BY <1>0
  <2> QED
    BY <1>0, <2>1 DEF At
<1>2. PICK f \in [Nat \X Nat -> Nat] : n = f[<<0, s.col>>] /\ IsCount(f, t, pos, w)
  BY <1>0, ColumnsRun
<1>3. At(w, x, s.row) + f[<<pos, c>>] = s.col + n
  <2>1. pos <= pos
    BY <1>0
  <2>2. At(w, x, s.row) + f[<<pos, c>>] = At(w, s, s.row) + f[<<0, Column(s)>>]
    BY <1>0, <1>2, <2>1, Track
  <2> QED
    BY <1>0, <1>1, <1>2, <2>2
<1>4. x \in Screens(w)
  BY <1>0, ShotIs
<1>5. c \in Nat /\ k \in 0 .. 2
  <2>1. c \in 0 .. w - 1
    BY <1>4, ColumnFacts
  <2> QED
    BY <2>1, AnyWidth
<1>6. f[<<pos, c>>] = Place(w, x, t, pos)
  <2>. HIDE DEF c
  <2>1. f[<<pos, c>>] = IF pos = Len(t) THEN 0
                        ELSE Gap(c, k, w) + (IF pos >= pos THEN 0
                                ELSE k + f[<<pos + CharLen(t, pos), Now(c, k, w)>>])
    BY <1>0, <1>2, <1>5 DEF IsCount
  <2>2. Gap(c, k, w) \in Nat
    BY <1>5, GapNow
  <2>3. f[<<pos, c>>] = IF pos = Len(t) THEN 0 ELSE Gap(c, k, w)
    <3>. HIDE DEF k
    <3>1. pos >= pos
      BY <1>0
    <3> QED
      BY <2>1, <2>2, <3>1
  <2>4. (pos = Len(t)) <=> ~(pos < Len(t))
    BY <1>0
  <2> QED
    BY <2>3, <2>4 DEF Place, c
<1>7. n \in Nat
  <2>1. <<0, s.col>> \in Nat \X Nat
    BY <1>0
  <2> QED
    BY <1>2, <2>1
<1> QED
  BY <1>3, <1>4, <1>6, <1>7

\* All columns of a line are more than those up to a character of it.
LEMMA CountedAhead ==
    ASSUME NEW w \in Nat, w >= 3, NEW s \in Screens(w), ~s.wrap, NEW t, Whole(t),
           NEW pos, Between(t, pos), pos < Len(t), ~IsCombining(Cp(t, pos))
    PROVE  LET x == Shot(s, t, pos)
               e == Shot(s, t, Len(t))
           IN  At(w, e, s.row) >= At(w, x, s.row) + Place(w, x, t, pos) + 1
<1>. DEFINE x == Shot(s, t, pos)
            e == Shot(s, t, Len(t))
            c == Column(x)
            k == Width(Cp(t, pos))
            a == At(w, x, s.row)
            b == At(w, e, s.row)
            g == Gap(c, k, w)
<1>0. /\ s.row \in Nat /\ s.col \in Nat /\ w > 0 /\ Column(s) \in Nat
      /\ pos \in Nat /\ Len(t) \in Nat
  <2>1. Column(s) \in 0 .. w - 1
    BY ColumnFacts
  <2> QED
    BY <2>1, ScreenFacts, BetweenFacts
<1>1. PICK f \in [Nat \X Nat -> Nat] : IsCount(f, t, Len(t), w)
  BY <1>0, ColumnsRun
<1>2. Between(t, Len(t)) /\ pos <= Len(t) /\ Len(t) <= Len(t)
  BY <1>0, EndsBetween
<1>3. a + f[<<pos, c>>] = At(w, s, s.row) + f[<<0, Column(s)>>]
  BY <1>0, <1>1, <1>2, Track
<1>4. b + f[<<Len(t), Column(e)>>] = At(w, s, s.row) + f[<<0, Column(s)>>]
  BY <1>0, <1>1, <1>2, Track, SMTT(40)
<1>5. x \in Screens(w) /\ e \in Screens(w)
  <2>1. x \in Screens(w)
    BY <1>0, ShotIs
  <2>2. e \in Screens(w)
    BY <1>0, <1>2, ShotIs
  <2> QED
    BY <2>1, <2>2
<1>6. c \in Nat /\ Column(e) \in Nat /\ k \in 1 .. 2 /\ CharLen(t, pos) \in 1 .. 4
  <2>1. c \in 0 .. w - 1 /\ Column(e) \in 0 .. w - 1
    BY <1>5, ColumnFacts
  <2>2. Cp(t, pos) \in Int /\ CharLen(t, pos) \in 1 .. 4
    BY CpType, NextBetween
  <2>3. k \in 1 .. 2
    BY <2>2, WidthIs
  <2> QED
    BY <2>1, <2>2, <2>3
<1>7. f[<<Len(t), Column(e)>>] = 0
  <2>. DEFINE d == Column(e)
  <2>1. d \in Nat
    BY <1>6
  <2>. HIDE DEF d
  <2>2. f[<<Len(t), d>>] = 0
    BY <1>0, <1>1, <1>2, <2>1 DEF IsCount
  <2> QED
    BY <2>2 DEF d
<1>8. a \in Int /\ b \in Int
  <2>1. ASSUME NEW y \in Screens(w) PROVE At(w, y, s.row) \in Int
    <3>1. y.row \in Nat /\ y.col \in Nat
      BY <1>0, ScreenFacts
    <3>2. (y.row - s.row) * w \in Int
      BY <1>0, <3>1
    <3> QED
      BY <3>1, <3>2 DEF At
  <2> QED
    BY <1>5, <2>1
<1>9. g \in Nat /\ Now(c, k, w) \in Nat
  <2>1. k \in 0 .. 2
    BY <1>6
  <2>. HIDE DEF c, k
  <2> QED
    BY <1>6, <2>1, GapNow
<1>10. f[<<pos, c>>] = g + (k + f[<<pos + CharLen(t, pos), Now(c, k, w)>>])
  <2>. HIDE DEF c
  <2>1. ~(pos >= Len(t)) /\ pos # Len(t)
    BY <1>0
  <2> QED
    BY <1>0, <1>1, <1>6, <2>1 DEF IsCount
<1>11. f[<<pos + CharLen(t, pos), Now(c, k, w)>>] \in Nat
  <2>1. <<pos + CharLen(t, pos), Now(c, k, w)>> \in Nat \X Nat
    <3>. HIDE DEF c, k
    <3> QED
      BY <1>0, <1>6, <1>9
  <2>. HIDE DEF c, k
  <2> QED
    BY <2>1
<1>12. Place(w, x, t, pos) = g
  BY DEF Place
<1>. DEFINE h == f[<<pos + CharLen(t, pos), Now(c, k, w)>>]
<1>13. b = a + (g + (k + h)) /\ h \in Nat
  <2>1. b + 0 = a + (g + (k + h))
    BY <1>3, <1>4, <1>7, <1>10
  <2> QED
    BY <1>8, <1>11, <2>1
<1>. HIDE DEF h, a, b, g, k
<1>14. b >= a + g + 1
  BY <1>6, <1>8, <1>9, <1>13
<1> QED
  BY <1>12, <1>14 DEF a, b

-----------------------------------------------------------------------------
(* The prompt.                                                             *)

\* columnPos, as a loop over the characters.
LEMMA PromptRun ==
    ASSUME NEW t, Whole(t)
    PROVE  \E f \in [Nat -> Nat] :
                /\ ColumnPos(t) = f[0]
                /\ \A p \in Nat : Between(t, p) =>
                      f[p] = IF p = Len(t) THEN 0
                             ELSE Width(Cp(t, p)) + f[p + CharLen(t, p)]
<1>. DEFINE n == Len(t)
            len(p) == CodePoint(t, p, n - p).len
            wid(p) == Width(CodePoint(t, p, n - p).cp)
            Body(f, p) == LET d == CodePoint(t, p, Len(t) - p)
                          IN  IF p >= Len(t) \/ d.len = 0 THEN 0 ELSE Width(d.cp) + f[p + d.len]
            Runs(f) == f = [p \in Nat |-> Body(f, p)]
            from == CHOOSE f : Runs(f)
<1>0. n \in Nat
  BY WholeFacts
<1>1. ColumnPos(t) = from[0]
  BY DEF ColumnPos
<1>2. ASSUME NEW p \in Nat PROVE len(p) \in 0 .. 4 /\ wid(p) \in 0 .. 2
  BY CodeLen, AnyWidth
<1>3. \E f : f \in [Nat -> Nat] /\ Runs(f)
  <2>. DEFINE stop == [p \in Nat |-> p >= n \/ len(p) = 0]
              val == [p \in Nat |-> 0]
              nxt == [p \in Nat |-> p + len(p)]
              rank == [p \in Nat |-> IF p >= n THEN 0 ELSE n - p]
              G == [x \in Nat \X Nat |-> wid(x[1]) + x[2]]
  <2>. HIDE DEF n, len, wid
  <2>1. /\ rank \in [Nat -> 0 .. n] /\ stop \in [Nat -> BOOLEAN] /\ val \in [Nat -> Nat]
    BY <1>0
  <2>2. nxt \in [Nat -> Nat]
    <3>. SUFFICES ASSUME NEW p \in Nat PROVE p + len(p) \in Nat
      OBVIOUS
    <3>1. len(p) \in 0 .. 4
      BY <1>2
    <3> QED
      BY <3>1
  <2>3. G \in [Nat \X Nat -> Nat]
    <3>. SUFFICES ASSUME NEW p \in Nat, NEW v \in Nat PROVE wid(p) + v \in Nat
      OBVIOUS
    <3>1. wid(p) \in 0 .. 2
      BY <1>2
    <3> QED
      BY <3>1
  <2>4. ASSUME NEW p \in Nat, ~stop[p] PROVE rank[nxt[p]] < rank[p]
    <3>. DEFINE k == len(p)
    <3>1. k \in 0 .. 4 /\ ~(p >= n) /\ k # 0
      <4>1. k \in 0 .. 4
        BY <1>2
      <4>2. ~(p >= n \/ len(p) = 0)
        BY <2>4, Zenon
      <4> QED
        BY <4>1, <4>2
    <3>2. nxt[p] = p + k /\ p + k \in Nat
      BY <3>1
    <3>. HIDE DEF k, nxt
    <3> QED
      BY <1>0, <3>1, <3>2
  <2>5. PICK f \in [Nat -> Nat] : Loops(f, Nat, stop, val, nxt, G)
    <3>. HIDE DEF rank, stop, val, nxt, G
    <3> QED
      BY <1>0, <2>1, <2>2, <2>3, <2>4, LoopIs
  <2>6. ASSUME NEW p \in Nat PROVE f[p] = Body(f, p)
    <3>1. f[p] = IF stop[p] THEN val[p] ELSE G[<<p, f[nxt[p]]>>]
      BY <2>5 DEF Loops
    <3>2. nxt[p] = p + len(p) /\ nxt[p] \in Nat /\ f[nxt[p]] \in Nat
      BY <2>2
    <3>3. G[<<p, f[nxt[p]]>>] = wid(p) + f[nxt[p]]
      BY <3>2
    <3>4. stop[p] = (p >= n \/ len(p) = 0) /\ val[p] = 0
      OBVIOUS
    <3>. HIDE DEF stop, val, nxt, G
    <3>5. f[p] = IF p >= n \/ len(p) = 0 THEN 0 ELSE wid(p) + f[p + len(p)]
      BY <3>1, <3>2, <3>3, <3>4
    <3> QED
      BY <3>5 DEF len, wid, n
  <2>7. f = [p \in Nat |-> Body(f, p)]
    <3>. HIDE DEF Body
    <3> QED
      BY <2>6
  <2> QED
    BY <2>7
<1>4. Runs(from)
  <2>. HIDE DEF Runs
  <2> QED
    BY <1>3
<1>5. from \in [Nat -> Nat]
  <2>1. PICK g : g \in [Nat -> Nat] /\ Runs(g)
    BY <1>3
  <2>. DEFINE rank == [p \in Nat |-> IF p >= n THEN 0 ELSE n - p]
  <2>2. rank \in [Nat -> 0 .. n]
    BY <1>0
  <2>. HIDE DEF from
  <2>3. ASSUME NEW p \in Nat, \A q \in Nat : rank[q] < rank[p] => from[q] = g[q]
        PROVE  from[p] = g[p]
    <3>1. from[p] = Body(from, p) /\ g[p] = Body(g, p)
      <4>. HIDE DEF Body
      <4> QED
        BY <1>4, <2>1
    <3>2. CASE p >= n \/ len(p) = 0
      BY <3>1, <3>2
    <3>3. CASE ~(p >= n \/ len(p) = 0)
      <4>. DEFINE q == p + len(p)
      <4>1. len(p) \in 1 .. 4 /\ p < n
        <5>1. len(p) \in 0 .. 4
          BY <1>2
        <5>. HIDE DEF len
        <5> QED
          BY <1>0, <3>3, <5>1
      <4>2. from[p] = wid(p) + from[q] /\ g[p] = wid(p) + g[q]
        BY <3>1, <3>3
      <4>. HIDE DEF len, wid
      <4>3. q \in Nat /\ rank[q] < rank[p]
        BY <1>0, <4>1
      <4>. HIDE DEF q, rank
      <4> QED
        BY <2>3, <4>2, <4>3
    <3> QED
      BY <3>2, <3>3
  <2>. HIDE DEF rank
  <2>4. \A p \in Nat : from[p] = g[p]
    <3>. DEFINE D == Nat
    <3>1. Agree(from, g, D, rank)
      BY <2>3 DEF Agree
    <3>2. rank \in [D -> 0 .. n]
      BY <2>2
    <3>. HIDE DEF n, D
    <3>3. \A p \in D : from[p] = g[p]
      BY ONLY <1>0, <3>1, <3>2, OneLoop
    <3> QED
      BY <3>3 DEF D
  <2>5. from = [p \in Nat |-> from[p]]
    BY <1>4
  <2> QED
    BY <2>1, <2>4, <2>5
<1>. HIDE DEF from
<1>6. ASSUME NEW p \in Nat, Between(t, p)
      PROVE  from[p] = IF p = n THEN 0 ELSE Width(Cp(t, p)) + from[p + CharLen(t, p)]
  <2>1. from[p] = Body(from, p)
    <3>. HIDE DEF Body
    <3> QED
      BY <1>4
  <2>2. CASE p = n
    <3>1. p >= n
      BY <1>0, <2>2
    <3> QED
      BY <2>1, <2>2, <3>1
  <2>3. CASE p # n
    <3>1. p < n /\ ~(p >= n) /\ n - p \in Nat
      BY <1>0, <1>6, <2>3, BetweenFacts
    <3>2. CharLen(t, p) \in 1 .. 4 /\ CharLen(t, p) <= n - p
      <4>1. CharLen(t, p) \in 1 .. 4 /\ p + CharLen(t, p) <= n
        BY <1>6, <3>1, NextBetween
      <4> QED
        BY <1>0, <4>1
    <3>3. CodePoint(t, p, n - p) = [len |-> CharLen(t, p), cp |-> Cp(t, p)]
      BY <1>6, <3>1, <3>2, CodeAt
    <3>4. len(p) = CharLen(t, p) /\ wid(p) = Width(Cp(t, p)) /\ ~(len(p) = 0)
      BY <3>2, <3>3
    <3>5. from[p] = wid(p) + from[p + len(p)]
      BY <2>1, <3>1, <3>4
    <3> QED
      BY <2>3, <3>4, <3>5
  <2> QED
    BY <2>2, <2>3
<1> QED
  BY <1>1, <1>5, <1>6

\* From one character to the next, all positions are reached.
LEMMA ByCharacters ==
    ASSUME NEW t, Whole(t), NEW G, 0 \in G,
           \A r \in Nat : Between(t, r) /\ r < Len(t) /\ r \in G => r + CharLen(t, r) \in G
    PROVE  \A p : Between(t, p) => p \in G
<1>. DEFINE Bad == {q \in Nat : Between(t, q) /\ q \notin G}
<1>0. Len(t) \in Nat
  BY WholeFacts
<1>1. Bad = {}
  <2>. SUFFICES ASSUME Bad # {} PROVE FALSE
    OBVIOUS
  <2>1. PICK q \in Bad : \A r \in Bad : q <= r
    <3>1. Bad \subseteq Nat
      OBVIOUS
    <3>. HIDE DEF Bad
    <3> QED
      BY <3>1, LeastNat
  <2>2. q \in Nat /\ Between(t, q) /\ q \notin G /\ q # 0 /\ q \in 1 .. Len(t)
    <3>1. q \in Nat /\ Between(t, q) /\ q \notin G
      BY <2>1
    <3>2. q \in 0 .. Len(t)
      BY <3>1, BetweenFacts
    <3> QED
      BY <3>1, <3>2
  <2>. DEFINE k == PrevCharLen(t, q)
              r == q - k
  <2>3. k \in 1 .. q /\ Between(t, r) /\ CharLen(t, r) = k
    BY <2>2, PrevChar
  <2>. HIDE DEF k
  <2>4. r \in Nat /\ ~(q <= r) /\ r < Len(t) /\ r + CharLen(t, r) = q
    BY <1>0, <2>2, <2>3
  <2>. HIDE DEF r
  <2>5. r \notin Bad
    BY <2>1, <2>4
  <2>6. r \in G
    BY <2>3, <2>4, <2>5
  <2>7. q \in G
    BY <2>3, <2>4, <2>6
  <2> QED
    BY <2>2, <2>7
<1>2. SUFFICES ASSUME NEW p, Between(t, p) PROVE p \in G
  OBVIOUS
<1>3. p \in Nat
  BY <1>2, BetweenFacts
<1> QED
  BY <1>1, <1>2, <1>3

\* A screen follows one that follows another.
LEMMA OnwardOnward ==
    ASSUME NEW w \in Nat, w > 0, NEW s \in Screens(w), NEW x, NEW y,
           Onward(w, s, x), Onward(w, x, y)
    PROVE  Onward(w, s, y)
<1>1. x \in Screens(w) /\ y \in Screens(w)
  BY DEF Onward
<1>2. x.row \in Nat /\ y.row \in Nat /\ s.row \in Nat
  BY <1>1, ScreenFacts
<1>3. x.row >= s.row /\ y.row >= x.row
  BY DEF Onward
<1>4. y.row >= s.row
  BY <1>2, <1>3
<1>5. ASSUME NEW i \in Nat \ {0}, i < s.row PROVE RowOf(y, i) = RowOf(s, i)
  <2>1. i < x.row
    BY <1>2, <1>3, <1>5
  <2>2. RowOf(y, i) = RowOf(x, i)
    BY <2>1 DEF Onward
  <2>3. RowOf(x, i) = RowOf(s, i)
    BY <1>5 DEF Onward
  <2> QED
    BY <2>2, <2>3
<1> QED
  BY <1>1, <1>4, <1>5 DEF Onward

\* A character that does not reach the end of the row.
LEMMA PutFits ==
    ASSUME NEW w \in Nat, w > 0, NEW s \in Screens(w), ~s.wrap, NEW cp \in Int,
           NEW k, k = Width(cp), s.col + k < w, NEW t, t = Obey(s, <<"put", cp>>)
    PROVE  t.row = s.row /\ ~t.wrap /\ t.col = s.col + k
<1>0. s.col \in Nat /\ k \in 0 .. 2 /\ (k = 0 <=> IsCombining(cp))
  BY ScreenFacts, WidthIs
<1>1. CASE IsCombining(cp)
  <2>1. t = PutMark(s, cp)
    BY <1>1, PutIs
  <2>2. /\ t \in Screens(w) /\ t.row = s.row /\ t.col = s.col /\ t.wrap = s.wrap
        /\ RowOf(t, s.row) = Marked(RowOf(s, s.row), IF s.wrap THEN w ELSE s.col, cp)
        /\ \A q \in Nat \ {0} : q # s.row => RowOf(t, q) = RowOf(s, q)
    BY ONLY w \in Nat, w > 0, s \in Screens(w), cp \in Int, <2>1, MarkIs, SMTT(40)
  <2> QED
    BY <1>0, <1>1, <2>2
<1>2. CASE ~IsCombining(cp)
  <2>1. t = PutBase(s, cp)
    BY <1>2, PutIs
  <2>2. k \in 1 .. 2
    BY <1>0, <1>2
  <2>. DEFINE over == s.wrap \/ s.col + k > w
              r == IF over THEN s.row + 1 ELSE s.row
              c == IF over THEN 0 ELSE s.col
  <2>3. t.row = r /\ t.wrap = (c + k >= w) /\ t.col = (IF c + k >= w THEN w - 1 ELSE c + k)
    BY <2>1, <2>2, BaseIs
  <2>4. r = s.row /\ c = s.col
    BY <1>0
  <2>. HIDE DEF r, c
  <2>5. ~(c + k >= w)
    BY <1>0, <2>4
  <2> QED
    BY <2>3, <2>4, <2>5
<1> QED
  BY <1>1, <1>2

\* A prompt that fits a row is written on it, and the cursor gets to the column
\* counted for it (columnPos).
LEMMA PromptShown ==
    ASSUME NEW w \in Nat, w >= 3, NEW s \in Screens(w), s.col = 0, ~s.wrap,
           NEW t, Whole(t), ColumnPos(t) < w
    PROVE  LET x == Written(s, Text(t))
           IN  /\ Onward(w, s, x) /\ x.row = s.row /\ x.col = ColumnPos(t) /\ ~x.wrap
               /\ ColumnPos(t) \in Nat
<1>1. PICK g \in [Nat -> Nat] :
            /\ ColumnPos(t) = g[0]
            /\ \A p \in Nat : Between(t, p) =>
                  g[p] = IF p = Len(t) THEN 0 ELSE Width(Cp(t, p)) + g[p + CharLen(t, p)]
  BY PromptRun
<1>. DEFINE Claim(p) == LET x == Shot(s, t, p)
                        IN  /\ Onward(w, s, x) /\ x.row = s.row /\ ~x.wrap
                            /\ x.col + g[p] = g[0]
            G == {p \in Nat : Claim(p)}
<1>0. s.row \in Nat /\ Len(t) \in Nat /\ t \in Seq(Byte) /\ w > 0
  BY ScreenFacts, WholeFacts, SMTT(40)
<1>2. 0 \in G
  <2>1. Shot(s, t, 0) = s
    BY <1>0, ShotAtStart
  <2>2. Onward(w, s, s)
    BY <1>0, SMTT(40) DEF Onward
  <2>3. g[0] \in Nat
    BY <1>1
  <2>4. Claim(0)
    BY <2>1, <2>2, <2>3
  <2> QED
    BY <2>4
<1>3. ASSUME NEW r \in Nat, Between(t, r), r < Len(t), r \in G
      PROVE  r + CharLen(t, r) \in G
  <2>0. w > 0
    BY <1>0
  <2>. DEFINE q == r + CharLen(t, r)
              x == Shot(s, t, r)
              y == Shot(s, t, q)
              cp == Cp(t, r)
              k == Width(cp)
  <2>1. /\ Onward(w, s, x) /\ x.row = s.row /\ ~x.wrap /\ x.col + g[r] = g[0]
    BY <1>3
  <2>. HIDE DEF G, Claim
  <2>2. x \in Screens(w) /\ y = Obey(x, <<"put", cp>>)
    <3>1. /\ Shot(s, t, r) \in Screens(w)
          /\ Shot(s, t, r + CharLen(t, r)) = Obey(Shot(s, t, r), <<"put", Cp(t, r)>>)
      <4>. HIDE DEF q, x, y, cp, k
      <4>1. Between(t, r) /\ r < Len(t)
        BY <1>3
      <4>2. Shot(s, t, r) \in Screens(w)
        BY <2>0, <4>1, ShotIs
      <4>3. Shot(s, t, r + CharLen(t, r)) = Obey(Shot(s, t, r), <<"put", Cp(t, r)>>)
        BY <2>0, <4>1, ShotIs
      <4> QED
        BY <4>2, <4>3
    <3> QED
      BY <3>1
  <2>3. cp \in Int /\ q \in Nat
    <3>1. cp \in Int
      BY <1>3, CpType
    <3>2. CharLen(t, r) \in 1 .. 4
      BY <1>3, NextBetween
    <3> QED
      BY <3>1, <3>2
  <2>4. k \in 0 .. 2 /\ (k = 0 <=> IsCombining(cp))
    BY <2>3, WidthIs
  <2>5. g[r] = k + g[q] /\ g[q] \in Nat /\ g[0] \in Nat /\ g[0] < w
    <3>1. r # Len(t)
      BY <1>0, <1>3
    <3> QED
      BY <1>1, <1>3, <2>3, <3>1
  <2>6. x.col \in Nat /\ x.row \in Nat
    BY <1>0, <2>2, ScreenFacts
  <2>. HIDE DEF q, x, y, cp, k
  <2>7. x.col + k < w /\ (x.col + k) + g[q] = g[0]
    BY <2>1, <2>4, <2>5, <2>6
  <2>8. Onward(w, x, y)
    <3>. DEFINE first == 0
    <3>1. first \in Nat
      OBVIOUS
    <3>. HIDE DEF first
    <3> QED
      BY <2>2, <2>3, <3>1, PutMoves
  <2>9. y.row = s.row /\ ~y.wrap /\ y.col = x.col + k
    <3>1. /\ w > 0 /\ cp \in Int /\ k = Width(cp) /\ x \in Screens(w) /\ ~x.wrap /\ x.col + k < w
          /\ y = Obey(x, <<"put", cp>>)
      BY <2>0, <2>1, <2>2, <2>3, <2>7 DEF k
    <3> QED
      BY ONLY w \in Nat, <2>1, <3>1, PutFits
  <2>10. Onward(w, s, y)
    BY <1>0, <2>1, <2>8, OnwardOnward
  <2>11. Claim(q)
    BY <2>7, <2>9, <2>10 DEF y, Claim
  <2> QED
    BY <2>3, <2>11 DEF q, G
<1>4. Len(t) \in G
  <2>. HIDE DEF G
  <2>1. \A p : Between(t, p) => p \in G
    BY <1>2, <1>3, ByCharacters
  <2> QED
    BY <2>1, EndsBetween
<1>5. Shot(s, t, Len(t)) = Written(s, Text(t))
  BY <1>0, ShotAtStart
<1>6. g[Len(t)] = 0 /\ g[0] \in Nat
  BY <1>0, <1>1, EndsBetween
<1>. DEFINE x == Written(s, Text(t))
<1>7. Onward(w, s, x) /\ x.row = s.row /\ ~x.wrap /\ x.col + g[Len(t)] = g[0]
  BY <1>4, <1>5
<1>8. x.col \in Nat
  <2>1. x \in Screens(w)
    BY <1>7 DEF Onward
  <2>. HIDE DEF x
  <2> QED
    BY <1>0, <2>1, ScreenFacts
<1> QED
  BY <1>1, <1>6, <1>7, <1>8

-----------------------------------------------------------------------------
(* Clearing the line.                                                      *)

\* A set of numbers with 0 and with the next number of each of them.
LEMMA AllNumbers ==
    ASSUME NEW T, 0 \in T, \A n \in Nat : n \in T => n + 1 \in T
    PROVE  \A n \in Nat : n \in T
<1>. DEFINE Bad == {n \in Nat : n \notin T}
<1>1. SUFFICES ASSUME Bad # {} PROVE FALSE
  OBVIOUS
<1>2. PICK n \in Bad : \A m \in Bad : n <= m
  <2>1. Bad \subseteq Nat
    OBVIOUS
  <2>. HIDE DEF Bad
  <2> QED
    BY <1>1, <2>1, LeastNat
<1>3. n \in Nat /\ n \notin T /\ n # 0
  BY <1>2
<1>4. n - 1 \in Nat /\ ~(n <= n - 1) /\ (n - 1) + 1 = n
  BY <1>3
<1>5. n - 1 \notin Bad
  BY <1>2, <1>4
<1>6. n - 1 \in T
  BY <1>4, <1>5
<1> QED
  BY <1>3, <1>4, <1>6

\* The row n rows up, or the first.
Lo(row, n) == IF row - n < 1 THEN 1 ELSE row - n

Wipe == <<Return, ToErase>>

\* The rows between are blank, and the cursor is in the first of them.
Wiped(w, s, t, from, to) ==
    /\ t \in Screens(w) /\ t.row = from /\ t.col = 0 /\ ~t.wrap
    /\ \A q \in Nat \ {0} :
            RowOf(t, q) = IF from <= q /\ q <= to THEN BlankRow(w) ELSE RowOf(s, q)

\* What refreshMultiLine writes besides the text are commands.
LEMMA CommandTypes ==
    /\ Wipe \in Seq(Commands) /\ <<Return, ToErase, <<"up", 1>>>> \in Seq(Commands)
    /\ Return \in Commands /\ ToErase \in Commands /\ Feed \in Commands
    /\ <<"up", 1>> \in Commands
    /\ \A n \in Nat : <<"up", n>> \in Commands /\ <<"down", n>> \in Commands
                      /\ <<"right", n>> \in Commands
<1>1. /\ Return \in Commands /\ ToErase \in Commands /\ Feed \in Commands
  BY DEF Commands
<1>2. \A n \in Nat : <<"up", n>> \in Commands /\ <<"down", n>> \in Commands
                      /\ <<"right", n>> \in Commands
  BY DEF Commands, Numbers
<1>3. <<"up", 1>> \in Commands
  BY <1>2
<1>. HIDE DEF Commands, Return, ToErase, Feed
<1> QED
  BY <1>1, <1>2, <1>3 DEF Wipe

\* The rows above are cleared one by one.
LEMMA ClearedUpIs ==
    /\ \A n \in Int : n <= 0 => ClearedUp(n) = <<>>
    /\ \A n \in Nat :
            /\ ClearedUp(n) \in Seq(Commands)
            /\ ClearedUp(n + 1) = <<Return, ToErase, <<"up", 1>>>> \o ClearedUp(n)
<1>. DEFINE one == <<Return, ToErase, <<"up", 1>>>>
<1>0. one \in Seq(Commands) /\ Len(one) = 3 /\ one = [i \in 1 .. 3 |-> one[i]]
      /\ one[1] \in Commands /\ one[2] \in Commands /\ one[3] \in Commands
  BY CommandTypes
<1>1. ASSUME NEW n \in Int, n <= 0 PROVE ClearedUp(n) = <<>>
  <2>1. 1 .. 3 * n = {}
    BY <1>1
  <2>2. ClearedUp(n) = [i \in {} |-> one[((i - 1) % 3) + 1]]
    BY <2>1 DEF ClearedUp
  <2>3. <<>> = [i \in {} |-> one[((i - 1) % 3) + 1]]
    <3>. HIDE DEF one
    <3>1. 1 .. 0 = {}
      OBVIOUS
    <3> QED
      BY <3>1
  <2> QED
    BY <2>2, <2>3
<1>2. ASSUME NEW n \in Nat
      PROVE  /\ ClearedUp(n) \in Seq(Commands) /\ Len(ClearedUp(n)) = 3 * n
             /\ \A i \in 1 .. 3 * n : ClearedUp(n)[i] = one[((i - 1) % 3) + 1]
  <2>1. 3 * n \in Nat
    BY <1>2
  <2>2. ClearedUp(n) = [i \in 1 .. 3 * n |-> one[((i - 1) % 3) + 1]]
    BY DEF ClearedUp
  <2>. HIDE DEF one
  <2>3. ASSUME NEW i \in 1 .. 3 * n PROVE one[((i - 1) % 3) + 1] \in Commands
    <3>1. ((i - 1) % 3) + 1 \in 1 .. 3
      BY <2>1
    <3> QED
      BY <1>0, <3>1
  <2>4. ClearedUp(n) \in [1 .. 3 * n -> Commands]
    BY <2>2, <2>3
  <2>5. ClearedUp(n) \in Seq(Commands)
    BY <2>1, <2>4
  <2>6. DOMAIN ClearedUp(n) = 1 .. 3 * n
    BY <2>2
  <2>7. Len(ClearedUp(n)) = 3 * n
    BY <2>1, <2>5, <2>6
  <2> QED
    BY <2>2, <2>5, <2>7
<1>3. ASSUME NEW n \in Nat PROVE ClearedUp(n + 1) = one \o ClearedUp(n)
  <2>. DEFINE a == ClearedUp(n + 1)
              b == ClearedUp(n)
              m == 3 * n
  <2>1. m \in Nat /\ 3 * (n + 1) = m + 3 /\ n + 1 \in Nat
    BY <1>3
  <2>2. a \in Seq(Commands) /\ Len(a) = m + 3
        /\ \A i \in 1 .. m + 3 : a[i] = one[((i - 1) % 3) + 1]
    BY <1>2, <2>1
  <2>3. b \in Seq(Commands) /\ Len(b) = m
        /\ \A i \in 1 .. m : b[i] = one[((i - 1) % 3) + 1]
    BY <1>2, <1>3
  <2>. HIDE DEF a, b, m, one
  <2>4. ASSUME NEW i \in 1 .. m + 3 PROVE a[i] = (one \o b)[i]
    <3>1. CASE i <= 3
      <4>1. (i - 1) % 3 = i - 1 /\ i \in 1 .. 3
        BY <3>1
      <4>2. (one \o b)[i] = one[i]
        BY <1>0, <2>3, <4>1, JoinFacts
      <4>3. a[i] = one[((i - 1) % 3) + 1] /\ ((i - 1) % 3) + 1 = i
        BY <2>2, <4>1
      <4> QED
        BY <4>2, <4>3
    <3>2. CASE i > 3
      <4>1. i - 3 \in 1 .. m /\ (i - 1) % 3 = ((i - 3) - 1) % 3
        BY <2>1, <3>2
      <4>2. a[i] = b[i - 3]
        BY <2>2, <2>3, <4>1
      <4>3. (one \o b)[i] = b[i - 3]
        BY <1>0, <2>1, <2>3, <3>2
      <4> QED
        BY <4>2, <4>3
    <3>3. i <= 3 \/ i > 3
      <4>. HIDE DEF m
      <4>1. m + 3 \in Int
        BY <2>1
      <4>2. i \in Int
        BY <4>1
      <4> QED
        BY <4>2
    <3> QED
      BY <3>1, <3>2, <3>3
  <2>5. one \o b \in Seq(Commands) /\ Len(one \o b) = m + 3
    BY <1>0, <2>1, <2>3
  <2>6. m + 3 \in Nat
    BY <2>1
  <2>7. a = one \o b
    <3>1. a = [i \in 1 .. m + 3 |-> a[i]]
      BY <2>2, <2>6
    <3>2. one \o b = [i \in 1 .. m + 3 |-> (one \o b)[i]]
      <4>. DEFINE c == one \o b
                  k == m + 3
      <4>1. c \in Seq(Commands) /\ Len(c) = k /\ k \in Nat
        BY <2>5, <2>6
      <4>. HIDE DEF c, k
      <4>2. c = [i \in 1 .. k |-> c[i]]
        BY <4>1
      <4> QED
        BY <4>2 DEF c, k
    <3> QED
      BY <2>4, <3>1, <3>2
  <2> QED
    BY <2>7 DEF a, b
<1> QED
  BY <1>1, <1>2, <1>3

\* Clearing the row of the cursor.
LEMMA WipeIs ==
    ASSUME NEW w \in Nat, w > 0, NEW s \in Screens(w)
    PROVE  Wiped(w, s, Written(s, Wipe), s.row, s.row)
<1>. DEFINE u == Obey(s, Return)
            t == Obey(u, ToErase)
<1>1. u = CarriageReturn(s) /\ t = EraseRight(u)
  BY ObeyIs
<1>2. u \in Screens(w) /\ u.row = s.row /\ u.col = 0 /\ ~u.wrap /\ View(u) = View(s)
  <2>. DEFINE n == 0
  <2>1. n \in Nat
    OBVIOUS
  <2>. HIDE DEF n
  <2> QED
    BY <1>1, <2>1, MovesAre
<1>3. Written(s, Wipe) = t
  <2>1. <<Return>> \in Seq(Commands) /\ <<ToErase>> \in Seq(Commands) /\ Return \in Commands
        /\ ToErase \in Commands /\ Wipe = <<Return>> \o <<ToErase>>
    <3>1. Return \in Commands /\ ToErase \in Commands
      BY CommandTypes
    <3>. HIDE DEF Return, ToErase, Commands
    <3> QED
      BY <3>1 DEF Wipe
  <2>2. Written(s, Wipe) = Written(Written(s, <<Return>>), <<ToErase>>)
    <3>. DEFINE a == <<Return>>
                b == <<ToErase>>
    <3>1. a \in Seq(Commands) /\ b \in Seq(Commands) /\ Wipe = a \o b
      BY <2>1
    <3>. HIDE DEF a, b
    <3>2. Written(s, a \o b) = Written(Written(s, a), b)
      BY <3>1, Writes
    <3> QED
      BY <3>1, <3>2 DEF a, b
  <2>3. Written(s, <<Return>>) = u
    BY <2>1, Writes
  <2>. HIDE DEF u
  <2>4. Written(u, <<ToErase>>) = t
    BY <1>2, <2>1, Writes
  <2> QED
    BY <2>2, <2>3, <2>4
<1>. HIDE DEF u, t
<1>4. /\ t \in Screens(w) /\ t.row = u.row /\ t.col = u.col /\ t.wrap = u.wrap
      /\ RowOf(t, u.row) = Erased(RowOf(u, u.row), u.col, w)
      /\ \A q \in Nat \ {0} : q # u.row => RowOf(t, q) = RowOf(u, q)
  BY <1>1, <1>2, EraseIs
<1>5. \A q \in Nat \ {0} : RowOf(u, q) = RowOf(s, q)
  <2>1. \A q \in Nat \ {0} : View(u)[q] = RowOf(u, q) /\ View(s)[q] = RowOf(s, q)
    BY DEF View
  <2> QED
    BY <1>2, <2>1
<1>6. Erased(RowOf(u, u.row), u.col, w) = BlankRow(w)
  BY <1>2 DEF Erased, BlankRow
<1>7. s.row \in Nat
  BY ScreenFacts
<1>8. ASSUME NEW q \in Nat \ {0}
      PROVE  RowOf(t, q) = IF s.row <= q /\ q <= s.row THEN BlankRow(w) ELSE RowOf(s, q)
  <2>1. CASE q = s.row
    <3>1. RowOf(t, q) = BlankRow(w)
      BY <1>2, <1>4, <1>6, <2>1
    <3> QED
      BY <1>7, <2>1, <3>1
  <2>2. CASE q # s.row
    <3>1. RowOf(t, q) = RowOf(s, q)
      BY <1>2, <1>4, <1>5, <2>2
    <3>2. ~(s.row <= q /\ q <= s.row)
      BY <1>7, <2>2
    <3> QED
      BY <3>1, <3>2
  <2> QED
    BY <2>1, <2>2
<1> QED
  BY <1>2, <1>3, <1>4, <1>8 DEF Wiped

-----------------------------------------------------------------------------
(* Moving the cursor.                                                      *)

\* Commands, and commands after them.
LEMMA Then ==
    ASSUME NEW w \in Nat, w > 0, NEW s \in Screens(w),
           NEW a \in Seq(Commands), NEW b \in Seq(Commands)
    PROVE  /\ Written(s, a \o b) = Written(Written(s, a), b)
           /\ Written(s, a) \in Screens(w) /\ a \o b \in Seq(Commands)
<1> QED
  BY Writes

\* A move by nothing is not written.
LEMMA MoveIs ==
    ASSUME NEW w \in Nat, w > 0, NEW s \in Screens(w), NEW n \in Int
    PROVE  /\ Move("up", n) \in Seq(Commands) /\ Move("down", n) \in Seq(Commands)
           /\ Move("right", n) \in Seq(Commands)
           /\ n <= 0 => Move("up", n) = <<>> /\ Move("down", n) = <<>> /\ Move("right", n) = <<>>
           /\ n > 0 => /\ Written(s, Move("up", n)) = Up(s, n)
                       /\ Written(s, Move("down", n)) = Down(s, n)
                       /\ Written(s, Move("right", n)) = Right(s, n)
<1>1. CASE n > 0
  <2>0. n \in Nat /\ ~(n <= 0)
    BY <1>1
  <2>. DEFINE u == <<"up", n>>
              d == <<"down", n>>
              r == <<"right", n>>
  <2>1. u \in Commands /\ d \in Commands /\ r \in Commands
    BY <2>0, CommandTypes
  <2>2. Move("up", n) = <<u>> /\ Move("down", n) = <<d>> /\ Move("right", n) = <<r>>
    BY <1>1 DEF Move
  <2>3. Obey(s, u) = Up(s, n) /\ Obey(s, d) = Down(s, n) /\ Obey(s, r) = Right(s, n)
    BY ObeyIs
  <2>. HIDE DEF u, d, r
  <2>4. Written(s, <<u>>) = Obey(s, u) /\ Written(s, <<d>>) = Obey(s, d)
        /\ Written(s, <<r>>) = Obey(s, r)
    BY <2>1, Writes
  <2>5. <<u>> \in Seq(Commands) /\ <<d>> \in Seq(Commands) /\ <<r>> \in Seq(Commands)
    BY <2>1
  <2> QED
    BY <1>1, <2>0, <2>2, <2>3, <2>4, <2>5
<1>2. CASE ~(n > 0)
  <2>1. Move("up", n) = <<>> /\ Move("down", n) = <<>> /\ Move("right", n) = <<>>
    BY <1>2 DEF Move
  <2>2. <<>> \in Seq(Commands)
    OBVIOUS
  <2> QED
    BY <1>2, <2>1, <2>2
<1> QED
  BY <1>1, <1>2

\* The cursor goes up to the first row at most.
LEMMA UpIs ==
    ASSUME NEW w \in Nat, w > 0, NEW s \in Screens(w), NEW n \in Nat, NEW t, t = Up(s, n)
    PROVE  /\ t \in Screens(w) /\ t.row = Lo(s.row, n) /\ t.col = s.col /\ ~t.wrap
           /\ \A q \in Nat \ {0} : RowOf(t, q) = RowOf(s, q)
<1>1. /\ t \in Screens(w) /\ t.row = (IF s.row - n < 1 THEN 1 ELSE s.row - n)
      /\ t.col = s.col /\ ~t.wrap /\ View(t) = View(s)
  BY MovesAre
<1>2. \A q \in Nat \ {0} : View(t)[q] = RowOf(t, q) /\ View(s)[q] = RowOf(s, q)
  BY DEF View
<1> QED
  BY <1>1, <1>2 DEF Lo

\* The cursor goes down.
LEMMA DownIs ==
    ASSUME NEW w \in Nat, w > 0, NEW s \in Screens(w), NEW n \in Nat, NEW t, t = Down(s, n)
    PROVE  /\ t \in Screens(w) /\ t.row = s.row + n /\ t.col = s.col /\ ~t.wrap
           /\ \A q \in Nat \ {0} : RowOf(t, q) = RowOf(s, q)
<1>1. /\ t \in Screens(w) /\ t.row = s.row + n /\ t.col = s.col /\ ~t.wrap
      /\ View(t) = View(s)
  BY MovesAre
<1>2. \A q \in Nat \ {0} : View(t)[q] = RowOf(t, q) /\ View(s)[q] = RowOf(s, q)
  BY DEF View
<1> QED
  BY <1>1, <1>2

\* The cursor goes right to the last column at most.
LEMMA RightMoves ==
    ASSUME NEW w \in Nat, w > 0, NEW s \in Screens(w), NEW n \in Nat, NEW t, t = Right(s, n)
    PROVE  /\ t \in Screens(w) /\ t.row = s.row
           /\ t.col = (IF s.col + n >= w THEN w - 1 ELSE s.col + n) /\ ~t.wrap
           /\ \A q \in Nat \ {0} : RowOf(t, q) = RowOf(s, q)
<1>1. /\ t \in Screens(w) /\ t.row = s.row
      /\ t.col = (IF s.col + n >= w THEN w - 1 ELSE s.col + n)
      /\ ~t.wrap /\ View(t) = View(s)
  BY MovesAre
<1>2. \A q \in Nat \ {0} : View(t)[q] = RowOf(t, q) /\ View(s)[q] = RowOf(s, q)
  BY DEF View
<1> QED
  BY <1>1, <1>2

\* The cursor goes to the first column.
LEMMA ReturnIs ==
    ASSUME NEW w \in Nat, w > 0, NEW s \in Screens(w), NEW t, t = CarriageReturn(s)
    PROVE  /\ t \in Screens(w) /\ t.row = s.row /\ t.col = 0 /\ ~t.wrap
           /\ \A q \in Nat \ {0} : RowOf(t, q) = RowOf(s, q)
<1>. DEFINE n == 0
<1>0. n \in Nat
  OBVIOUS
<1>. HIDE DEF n
<1>1. /\ t \in Screens(w) /\ t.row = s.row /\ t.col = 0 /\ ~t.wrap /\ View(t) = View(s)
  BY <1>0, MovesAre
<1>2. \A q \in Nat \ {0} : View(t)[q] = RowOf(t, q) /\ View(s)[q] = RowOf(s, q)
  BY DEF View
<1> QED
  BY <1>1, <1>2

\* The cursor goes to the next row.
LEMMA FeedIs ==
    ASSUME NEW w \in Nat, w > 0, NEW s \in Screens(w), NEW t, t = NewLine(s)
    PROVE  /\ t \in Screens(w) /\ t.row = s.row + 1 /\ t.col = 0 /\ ~t.wrap
           /\ \A q \in Nat \ {0} : RowOf(t, q) = RowOf(s, q)
<1>. DEFINE n == 0
<1>0. n \in Nat
  OBVIOUS
<1>. HIDE DEF n
<1>1. /\ t \in Screens(w) /\ t.row = s.row + 1 /\ t.col = 0 /\ ~t.wrap /\ View(t) = View(s)
  BY <1>0, MovesAre
<1>2. \A q \in Nat \ {0} : View(t)[q] = RowOf(t, q) /\ View(s)[q] = RowOf(s, q)
  BY DEF View
<1> QED
  BY <1>1, <1>2

\* One row up.
LEMMA UpOne ==
    ASSUME NEW w \in Nat, w > 0, NEW s \in Screens(w),
           NEW u, u = Written(s, <<Return, ToErase, <<"up", 1>>>>)
    PROVE  /\ u \in Screens(w) /\ u.row = Lo(s.row, 1)
           /\ \A q \in Nat \ {0} :
                 RowOf(u, q) = IF q = s.row THEN BlankRow(w) ELSE RowOf(s, q)
<1>. DEFINE t == Written(s, Wipe)
            b == <<<<"up", 1>>>>
            n == 1
<1>1. <<Return, ToErase, <<"up", 1>>>> = Wipe \o b
  <2>. DEFINE c == <<"up", 1>>
  <2>. HIDE DEF c, Return, ToErase
  <2>1. <<Return, ToErase, c>> = <<Return, ToErase>> \o <<c>>
    OBVIOUS
  <2> QED
    BY <2>1 DEF c, Wipe
<1>2. b \in Seq(Commands) /\ Wipe \in Seq(Commands) /\ n \in Nat /\ n \in Int /\ n > 0 /\ b = Move("up", n)
  <2>1. <<"up", 1>> \in Commands
    BY CommandTypes
  <2>. HIDE DEF Commands
  <2>2. b \in Seq(Commands)
    BY <2>1
  <2> QED
    BY <2>2, CommandTypes DEF Move
<1>3. u = Written(t, b) /\ t \in Screens(w)
  <2>. DEFINE a == Wipe
  <2>1. a \in Seq(Commands) /\ <<Return, ToErase, <<"up", 1>>>> = a \o b
    BY <1>1, <1>2
  <2>. HIDE DEF a, b
  <2>2. Written(s, a \o b) = Written(Written(s, a), b) /\ Written(s, a) \in Screens(w)
    BY <1>2, <2>1, Then
  <2> QED
    BY <2>1, <2>2 DEF a
<1>. HIDE DEF b
<1>4. Wiped(w, s, t, s.row, s.row)
  BY WipeIs
<1>. HIDE DEF n, t
<1>5. u = Up(t, n)
  BY <1>2, <1>3, MoveIs
<1>6. u \in Screens(w) /\ u.row = Lo(t.row, n) /\ \A q \in Nat \ {0} : RowOf(u, q) = RowOf(t, q)
  <2>1. n \in Nat /\ t \in Screens(w)
    BY <1>2, <1>3
  <2>2. /\ u \in Screens(w) /\ u.row = Lo(t.row, n) /\ u.col = t.col /\ ~u.wrap
        /\ \A q \in Nat \ {0} : RowOf(u, q) = RowOf(t, q)
    BY ONLY w \in Nat, w > 0, <2>1, <1>5, UpIs
  <2> QED
    BY <2>2
<1>7. t.row = s.row /\ s.row \in Nat
      /\ \A q \in Nat \ {0} : RowOf(t, q) = IF s.row <= q /\ q <= s.row THEN BlankRow(w) ELSE RowOf(s, q)
  BY <1>4, ScreenFacts DEF Wiped
<1>8. u.row = Lo(s.row, 1)
  BY <1>6, <1>7 DEF n
<1>9. ASSUME NEW q \in Nat \ {0}
      PROVE RowOf(u, q) = IF q = s.row THEN BlankRow(w) ELSE RowOf(s, q)
  <2>2. RowOf(u, q) = RowOf(t, q)
    BY <1>6
  <2>3. (s.row <= q /\ q <= s.row) <=> q = s.row
    BY <1>7
  <2> QED
    BY <1>7, <2>2, <2>3
<1> QED
  BY <1>6, <1>8, <1>9

\* Rows above, one by one.
LEMMA LoIs ==
    ASSUME NEW row \in Nat \ {0}, NEW n \in Nat
    PROVE  /\ Lo(row, n) \in Nat \ {0} /\ Lo(row, n) <= row
           /\ Lo(Lo(row, 1), n) = Lo(row, n + 1)
           /\ Lo(row, 0) = row
           /\ row = Lo(row, 1) => row = 1
           /\ row # Lo(row, 1) => Lo(row, 1) = row - 1
<1> QED
  BY DEF Lo

\* The rows of a line are cleared from the last one up.
LEMMA Clearing ==
    ASSUME NEW w \in Nat, w > 0
    PROVE  \A n \in Nat : \A s \in Screens(w) :
                Wiped(w, s, Written(s, ClearedUp(n) \o Wipe), Lo(s.row, n), s.row)
<1>. DEFINE T == {n \in Nat : \A s \in Screens(w) :
                Wiped(w, s, Written(s, ClearedUp(n) \o Wipe), Lo(s.row, n), s.row)}
<1>1. 0 \in T
  <2>. SUFFICES ASSUME NEW s \in Screens(w)
                PROVE Wiped(w, s, Written(s, ClearedUp(0) \o Wipe), Lo(s.row, 0), s.row)
    OBVIOUS
  <2>1. ClearedUp(0) \o Wipe = Wipe
    <3>1. ClearedUp(0) = <<>>
      BY ClearedUpIs
    <3>2. Wipe \in Seq(Commands)
      BY CommandTypes
    <3>. HIDE DEF Wipe
    <3>3. <<>> \o Wipe = Wipe
      BY <3>2
    <3> QED
      BY <3>1, <3>3
  <2>2. Lo(s.row, 0) = s.row
    <3>1. s.row \in Nat \ {0}
      BY ScreenFacts
    <3> QED
      BY <3>1 DEF Lo
  <2> QED
    BY <2>1, <2>2, WipeIs
<1>2. ASSUME NEW n \in Nat, n \in T PROVE n + 1 \in T
  <2>1. SUFFICES ASSUME NEW s \in Screens(w)
                 PROVE Wiped(w, s, Written(s, ClearedUp(n + 1) \o Wipe), Lo(s.row, n + 1), s.row)
    BY <1>2
  <2>. DEFINE one == <<Return, ToErase, <<"up", 1>>>>
              c == ClearedUp(n)
              u == Written(s, one)
              t == Written(u, c \o Wipe)
  <2>2. one \in Seq(Commands) /\ c \in Seq(Commands) /\ Wipe \in Seq(Commands)
        /\ ClearedUp(n + 1) = one \o c
    BY CommandTypes, ClearedUpIs
  <2>3. /\ u \in Screens(w) /\ u.row = Lo(s.row, 1)
        /\ \A q \in Nat \ {0} :
                 RowOf(u, q) = IF q = s.row THEN BlankRow(w) ELSE RowOf(s, q)
    BY UpOne
  <2>4. Wiped(w, u, t, Lo(u.row, n), u.row)
    BY <1>2, <2>3
  <2>5. Written(s, ClearedUp(n + 1) \o Wipe) = t
    <3>. HIDE DEF one, c
    <3>1. (one \o c) \o Wipe = one \o (c \o Wipe)
      BY <2>2
    <3>2. c \o Wipe \in Seq(Commands)
      BY <2>2
    <3>. DEFINE d == c \o Wipe
    <3>. HIDE DEF d
    <3>3. Written(s, one \o d) = Written(Written(s, one), d)
      <4>1. d \in Seq(Commands) /\ one \in Seq(Commands)
        BY <2>2, <3>2 DEF d
      <4>. HIDE DEF u, t
      <4> QED
        BY <4>1, Then
    <3> QED
      BY <2>2, <3>1, <3>3 DEF d
  <2>6. s.row \in Nat \ {0}
    BY ScreenFacts
  <2>. HIDE DEF one, c, u, t
  <2>. DEFINE lo == Lo(s.row, n + 1)
  <2>7. Lo(u.row, n) = lo /\ lo \in Nat /\ lo <= s.row
    <3>1. Lo(Lo(s.row, 1), n) = lo
      BY <2>6, LoIs
    <3>2. lo \in Nat /\ lo <= s.row
      BY <2>6 DEF Lo
    <3> QED
      BY <2>3, <3>1, <3>2
  <2>8. ASSUME NEW q \in Nat \ {0}
        PROVE  RowOf(t, q) = IF lo <= q /\ q <= s.row THEN BlankRow(w) ELSE RowOf(s, q)
    <3>1. RowOf(t, q) = IF lo <= q /\ q <= u.row THEN BlankRow(w) ELSE RowOf(u, q)
      BY <2>4, <2>7 DEF Wiped
    <3>2. RowOf(u, q) = IF q = s.row THEN BlankRow(w) ELSE RowOf(s, q)
      BY <2>3
    <3>3. u.row = s.row - 1 \/ u.row = s.row
      BY <2>3, <2>6 DEF Lo
    <3>4. q <= s.row <=> (q <= u.row \/ q = s.row)
      BY <2>6, <3>3
    <3>. HIDE DEF lo
    <3> QED
      BY <2>6, <2>7, <3>1, <3>2, <3>4
  <2>9. t \in Screens(w) /\ t.row = lo /\ t.col = 0 /\ ~t.wrap
    BY <2>4, <2>7 DEF Wiped
  <2> QED
    BY <2>5, <2>8, <2>9 DEF Wiped
<1>3. \A n \in Nat : n \in T
  <2>. HIDE DEF T
  <2> QED
    BY <1>1, <1>2, AllNumbers
<1> QED
  BY <1>3

\* Three parts of what is written.
LEMMA Assoc ==
    ASSUME NEW S, NEW a \in Seq(S), NEW b \in Seq(S), NEW c \in Seq(S)
    PROVE  /\ (a \o b) \o c = a \o (b \o c)
           /\ a \o b \in Seq(S) /\ b \o c \in Seq(S) /\ a \o (b \o c) \in Seq(S)
<1>1. a \o b \in Seq(S) /\ b \o c \in Seq(S)
  OBVIOUS
<1>2. a \o (b \o c) \in Seq(S)
  BY <1>1
<1>3. (a \o b) \o c = a \o (b \o c)
  OBVIOUS
<1> QED
  BY <1>1, <1>2, <1>3

\* The commands that clear the rows of a line, from wherever its cursor is.
LEMMA Erasing ==
    ASSUME NEW w \in Nat, w > 0, NEW s \in Screens(w), NEW d \in Int, NEW n \in Int,
           NEW R, R = s.row + (IF d > 0 THEN d ELSE 0),
           NEW lo, lo = Lo(R, IF n > 0 THEN n ELSE 0),
           NEW cs, cs = Move("down", d) \o ClearedUp(n) \o Wipe
    PROVE  cs \in Seq(Commands) /\ Wiped(w, s, Written(s, cs), lo, R)
<1>. DEFINE m == IF n > 0 THEN n ELSE 0
            A == Move("down", d)
            B == ClearedUp(m)
            u == Written(s, A)
            t == Written(u, B \o Wipe)
<1>0. m \in Nat /\ s.row \in Nat
  BY ScreenFacts
<1>1. A \in Seq(Commands) /\ B \in Seq(Commands) /\ Wipe \in Seq(Commands)
  <2>. HIDE DEF m
  <2>1. A \in Seq(Commands)
    BY MoveIs
  <2> QED
    BY <1>0, <2>1, ClearedUpIs, CommandTypes
<1>2. ClearedUp(n) = B
  <2>1. CASE n > 0
    BY <2>1
  <2>2. CASE ~(n > 0)
    <3>1. n <= 0 /\ m = 0 /\ 0 <= 0 /\ 0 \in Int
      BY <2>2
    <3> QED
      BY <3>1, ClearedUpIs
  <2> QED
    BY <2>1, <2>2
<1>. HIDE DEF m, B
<1>3. /\ u \in Screens(w) /\ u.row = R
      /\ \A q \in Nat \ {0} : RowOf(u, q) = RowOf(s, q)
  <2>1. CASE d > 0
    <3>1. u = Down(s, d) /\ d \in Nat
      BY <2>1, MoveIs
    <3>. HIDE DEF u
    <3>2. /\ u \in Screens(w) /\ u.row = s.row + d /\ u.col = s.col /\ ~u.wrap
          /\ \A q \in Nat \ {0} : RowOf(u, q) = RowOf(s, q)
      BY ONLY w \in Nat, w > 0, s \in Screens(w), <3>1, DownIs, SMTT(40)
    <3> QED
      BY <2>1, <3>2
  <2>2. CASE ~(d > 0)
    <3>1. A = <<>>
      BY <2>2, MoveIs
    <3>2. u = s
      BY <3>1, WrittenNone
    <3> QED
      BY <1>0, <2>2, <3>2
  <2> QED
    BY <2>1, <2>2
<1>4. cs = (A \o B) \o Wipe /\ cs = A \o (B \o Wipe) /\ B \o Wipe \in Seq(Commands)
      /\ cs \in Seq(Commands)
  <2>. HIDE DEF A
  <2>1. cs = (A \o B) \o Wipe
    BY <1>2 DEF A
  <2>. DEFINE W == Wipe
              K == Commands
  <2>2. A \in Seq(K) /\ B \in Seq(K) /\ W \in Seq(K) /\ cs = (A \o B) \o W
    BY <1>1, <2>1
  <2>. HIDE DEF W, K
  <2>3. (A \o B) \o W = A \o (B \o W) /\ B \o W \in Seq(K) /\ A \o (B \o W) \in Seq(K)
    BY ONLY <2>2, Assoc
  <2> QED
    BY <2>1, <2>2, <2>3 DEF W, K
<1>5. Written(s, cs) = t
  <2>. DEFINE b == B \o Wipe
  <2>1. b \in Seq(Commands) /\ cs = A \o b
    BY <1>4
  <2>. HIDE DEF b, A
  <2>2. Written(s, A \o b) = Written(Written(s, A), b)
    BY <1>1, <2>1, Then
  <2> QED
    BY <2>1, <2>2 DEF b
<1>. HIDE DEF u, A
<1>6. Wiped(w, u, t, Lo(u.row, m), u.row)
  <2>1. Wiped(w, u, Written(u, ClearedUp(m) \o Wipe), Lo(u.row, m), u.row)
    BY <1>0, <1>3, Clearing
  <2> QED
    BY <2>1 DEF B
<1>7. lo = Lo(R, m)
  BY DEF m
<1>8. Wiped(w, u, t, lo, R)
  BY <1>3, <1>6, <1>7
<1>. HIDE DEF t
<1>9. Wiped(w, s, t, lo, R)
  BY <1>3, <1>8 DEF Wiped
<1> QED
  BY <1>4, <1>5, <1>9

\* The commands that bring the cursor from the end of a line to its place.
Trail(edge, up, col) ==
    (IF edge THEN <<Feed, Return>> ELSE <<>>)
        \o Move("up", up) \o <<Return>> \o Move("right", col)

Trails(w, s, t, row, col) ==
    /\ t \in Screens(w) /\ t.row = row /\ t.col = col /\ ~t.wrap
    /\ \A q \in Nat \ {0} : RowOf(t, q) = RowOf(s, q)

\* Behind the text the cursor is moved to its place.
LEMMA Trailing ==
    ASSUME NEW w \in Nat, w > 0, NEW s \in Screens(w), NEW edge \in BOOLEAN, NEW up \in Int,
           NEW col \in 0 .. w - 1,
           NEW lo, lo = Lo(s.row + (IF edge THEN 1 ELSE 0), IF up > 0 THEN up ELSE 0),
           NEW t, t = Written(s, Trail(edge, up, col))
    PROVE  Trail(edge, up, col) \in Seq(Commands) /\ Trails(w, s, t, lo, col)
<1>. DEFINE A == IF edge THEN <<Feed, Return>> ELSE <<>>
            B == Move("up", up)
            C == <<Return>>
            D == Move("right", col)
            x == Written(s, A)
            y == Written(x, B)
            z == Written(y, C)
            r == s.row + (IF edge THEN 1 ELSE 0)
            m == IF up > 0 THEN up ELSE 0
<1>0. m \in Nat /\ r \in Nat \ {0} /\ s.row \in Nat /\ col \in Int
  BY ScreenFacts
<1>1. Return \in Commands /\ Feed \in Commands
  BY CommandTypes
<1>2. A \in Seq(Commands) /\ C \in Seq(Commands)
  <2>. HIDE DEF Commands, Return, Feed
  <2> QED
    BY <1>1
<1>3. B \in Seq(Commands) /\ D \in Seq(Commands)
  BY <1>0, MoveIs
<1>4. /\ x \in Screens(w) /\ x.row = r
      /\ \A q \in Nat \ {0} : RowOf(x, q) = RowOf(s, q)
  <2>1. CASE edge
    <3>. DEFINE a == <<Feed>>
                f == NewLine(s)
                g == CarriageReturn(f)
    <3>1. A = a \o C /\ a \in Seq(Commands)
      <4>. HIDE DEF Commands, Return, Feed
      <4> QED
        BY <1>1, <2>1
    <3>2. Written(s, a) = f /\ f \in Screens(w)
      <4>1. Written(s, a) = Obey(s, Feed) /\ Obey(s, Feed) \in Screens(w)
        BY <1>1, Writes
      <4> QED
        BY <4>1, ObeyIs
    <3>3. /\ f \in Screens(w) /\ f.row = s.row + 1 /\ f.col = 0 /\ ~f.wrap
          /\ \A q \in Nat \ {0} : RowOf(f, q) = RowOf(s, q)
      BY FeedIs
    <3>. HIDE DEF f, a
    <3>4. Written(f, C) = g
      <4>1. Written(f, C) = Obey(f, Return)
        BY <1>1, <3>3, Writes
      <4> QED
        BY <4>1, ObeyIs
    <3>5. /\ g \in Screens(w) /\ g.row = f.row
          /\ \A q \in Nat \ {0} : RowOf(g, q) = RowOf(f, q)
      BY <3>3, ReturnIs
    <3>. HIDE DEF g, C, A
    <3>6. x = Written(Written(s, a), C)
      <4>1. Written(s, a \o C) = Written(Written(s, a), C)
        BY <1>2, <3>1, Then
      <4> QED
        BY <3>1, <4>1
    <3>7. x = g
      BY <3>2, <3>4, <3>6
    <3> QED
      BY <2>1, <3>3, <3>5, <3>7
  <2>2. CASE ~edge
    <3>1. A = <<>>
      BY <2>2
    <3>2. x = s
      BY <3>1, WrittenNone
    <3> QED
      BY <1>0, <2>2, <3>2
  <2> QED
    BY <2>1, <2>2
<1>. HIDE DEF A, x, r
<1>5. /\ y \in Screens(w) /\ y.row = Lo(r, m)
      /\ \A q \in Nat \ {0} : RowOf(y, q) = RowOf(x, q)
  <2>1. CASE up > 0
    <3>1. y = Up(x, up) /\ up \in Nat
      BY <1>4, <2>1, MoveIs
    <3>. HIDE DEF y
    <3>2. /\ y \in Screens(w) /\ y.row = Lo(x.row, up) /\ y.col = x.col /\ ~y.wrap
          /\ \A q \in Nat \ {0} : RowOf(y, q) = RowOf(x, q)
      BY ONLY w \in Nat, w > 0, <1>4, <3>1, UpIs
    <3> QED
      BY <1>4, <2>1, <3>2
  <2>2. CASE ~(up > 0)
    <3>1. B = <<>>
      BY <1>4, <2>2, MoveIs
    <3>2. y = x
      BY <3>1, WrittenNone
    <3>3. Lo(r, m) = r
      BY <1>0, <2>2 DEF Lo
    <3> QED
      BY <1>4, <3>2, <3>3
  <2> QED
    BY <2>1, <2>2
<1>. HIDE DEF y, B, m
<1>6. /\ z \in Screens(w) /\ z.row = y.row /\ z.col = 0 /\ ~z.wrap
      /\ \A q \in Nat \ {0} : RowOf(z, q) = RowOf(y, q)
  <2>1. z = Obey(y, Return)
    BY <1>1, <1>5, Writes
  <2>2. z = CarriageReturn(y)
    BY <2>1, ObeyIs
  <2>. HIDE DEF z
  <2> QED
    BY ONLY w \in Nat, w > 0, <1>5, <2>2, ReturnIs
<1>. HIDE DEF z, C
<1>7. Trail(edge, up, col) = (((A \o B) \o C) \o D) /\ Trail(edge, up, col) \in Seq(Commands)
      /\ Trail(edge, up, col) = A \o (B \o (C \o D))
      /\ C \o D \in Seq(Commands) /\ B \o (C \o D) \in Seq(Commands)
  <2>1. Trail(edge, up, col) = (((A \o B) \o C) \o D)
    BY DEF Trail, A, B, C
  <2>. DEFINE K == Commands
  <2>2. A \in Seq(K) /\ B \in Seq(K) /\ C \in Seq(K) /\ D \in Seq(K)
    BY <1>2, <1>3
  <2>. HIDE DEF D, K
  <2>3. C \o D \in Seq(K) /\ A \o B \in Seq(K)
    BY ONLY <2>2, Assoc
  <2>. DEFINE c == C \o D
              e == A \o B
  <2>4. c \in Seq(K) /\ e \in Seq(K)
    BY <2>3
  <2>5. (e \o C) \o D = e \o (C \o D)
    <3>1. e \in Seq(K) /\ C \in Seq(K) /\ D \in Seq(K)
      BY <2>2, <2>4
    <3>. HIDE DEF e, c
    <3> QED
      BY ONLY <3>1, Assoc, SMTT(40)
  <2>6. /\ (A \o B) \o c = A \o (B \o c) /\ B \o c \in Seq(K) /\ A \o (B \o c) \in Seq(K)
    <3>1. A \in Seq(K) /\ B \in Seq(K) /\ c \in Seq(K)
      BY <2>2, <2>4
    <3>. HIDE DEF e, c
    <3> QED
      BY ONLY <3>1, Assoc
  <2>7. Trail(edge, up, col) = A \o (B \o (C \o D))
    BY <2>1, <2>5, <2>6
  <2>8. C \o D \in Seq(K) /\ B \o (C \o D) \in Seq(K) /\ A \o (B \o (C \o D)) \in Seq(K)
    BY <2>4, <2>6
  <2> QED
    BY <2>1, <2>7, <2>8 DEF K
<1>8. t = Written(z, D)
  <2>. DEFINE c == C \o D
              b == B \o c
  <2>1. c \in Seq(Commands) /\ b \in Seq(Commands) /\ Trail(edge, up, col) = A \o b
    BY <1>7
  <2>. HIDE DEF c, D
  <2>2. Written(s, A \o b) = Written(x, b)
    <3>. HIDE DEF b
    <3> QED
      BY <1>2, <2>1, Then DEF x
  <2>3. Written(x, b) = Written(y, c)
    BY <1>3, <1>4, <2>1, Then DEF y
  <2>4. Written(y, c) = Written(z, D)
    BY <1>2, <1>3, <1>5, Then DEF z, c
  <2> QED
    BY <2>1, <2>2, <2>3, <2>4
<1>9. /\ t \in Screens(w) /\ t.row = z.row /\ t.col = col /\ ~t.wrap
      /\ \A q \in Nat \ {0} : RowOf(t, q) = RowOf(z, q)
  <2>1. CASE col > 0
    <3>1. t = Right(z, col) /\ col \in Nat
      BY <1>0, <1>6, <1>8, <2>1, MoveIs
    <3>2. /\ t \in Screens(w) /\ t.row = z.row
          /\ t.col = (IF z.col + col >= w THEN w - 1 ELSE z.col + col) /\ ~t.wrap
          /\ \A q \in Nat \ {0} : RowOf(t, q) = RowOf(z, q)
      BY ONLY w \in Nat, w > 0, <1>6, <3>1, RightMoves
    <3>3. ~(0 + col >= w) /\ 0 + col = col
      BY <1>0
    <3> QED
      BY <1>6, <3>2, <3>3
  <2>2. CASE ~(col > 0)
    <3>1. D = <<>> /\ col = 0
      BY <1>0, <1>6, <2>2, MoveIs
    <3>2. t = z
      BY <1>8, <3>1, WrittenNone
    <3> QED
      BY <1>6, <3>1, <3>2
  <2> QED
    BY <2>1, <2>2
<1>10. lo = Lo(r, m)
  BY DEF r, m
<1> QED
  <2>1. /\ t \in Screens(w) /\ t.row = lo /\ t.col = col /\ ~t.wrap
        /\ \A q \in Nat \ {0} : RowOf(t, q) = RowOf(s, q)
    BY <1>4, <1>5, <1>6, <1>7, <1>9, <1>10
  <2>2. Trail(edge, up, col) \in Seq(Commands)
    BY <1>4, <1>5, <1>6, <1>7, <1>9, <1>10
  <2> QED
    BY <2>1, <2>2 DEF Trails

\* Rows and columns.
LEMMA DivIs ==
    ASSUME NEW w \in Nat, w > 0, NEW q \in Nat, NEW r \in 0 .. w - 1, NEW x, x = q * w + r
    PROVE  x \div w = q /\ x % w = r
<1>. DEFINE d == x \div w
            e == x % w
<1>0. x \in Nat
  <2>1. q * w \in Nat
    OBVIOUS
  <2> QED
    BY <2>1
<1>1. d \in Int /\ e \in 0 .. w - 1 /\ x = w * d + e
  BY <1>0, SMTT(30)
<1>. HIDE DEF d, e
<1>2. w * (d - q) = r - e
  BY <1>1, SMTT(30)
<1>3. d = q
  <2>1. CASE d > q
    <3>1. w * (d - q) >= w
      BY <1>1, <2>1, SMTT(30)
    <3> QED
      BY <1>1, <1>2, <3>1
  <2>2. CASE d < q
    <3>1. w * (d - q) <= -w
      BY <1>1, <2>2, SMTT(30)
    <3> QED
      BY <1>1, <1>2, <3>1
  <2> QED
    BY <1>1, <2>1, <2>2
<1>4. e = r
  BY <1>1, <1>2, <1>3
<1> QED
  BY <1>3, <1>4 DEF d, e

\* Where the character behind a position goes.
Spot(w, x, t, pos) ==
    LET c == IF x.wrap THEN <<x.row + 1, 0>> ELSE <<x.row, x.col>>
        k == IF pos < Len(t) THEN Width(Cp(t, pos)) ELSE 1
    IN  IF c[2] + k > w THEN <<c[1] + 1, 0>> ELSE c

\* It is where the columns before it say.
LEMMA SpotIs ==
    ASSUME NEW w \in Nat, w >= 3, NEW x \in Screens(w), NEW first \in Nat \ {0}, first <= x.row,
           NEW t, NEW pos, NEW X, X = At(w, x, first) + Place(w, x, t, pos)
    PROVE  X \in Nat /\ Spot(w, x, t, pos) = <<first + (X \div w), X % w>>
<1>. DEFINE m == x.row - first
            k == Width(Cp(t, pos))
            g == Place(w, x, t, pos)
            h == IF pos < Len(t) THEN k ELSE 1
            c == IF x.wrap THEN <<x.row + 1, 0>> ELSE <<x.row, x.col>>
            Is(q, r) == X = q * w + r
<1>0. /\ x.row \in Nat /\ x.col \in Nat /\ x.col < w /\ x.wrap \in BOOLEAN /\ w > 0
      /\ x.wrap => x.col = w - 1
  BY ScreenFacts
<1>1. m \in Nat /\ k \in 0 .. 2 /\ h \in 0 .. 2 /\ x.row = first + m
  <2>1. k \in 0 .. 2
    BY AnyWidth
  <2>. HIDE DEF k
  <2> QED
    BY <1>0, <2>1
<1>2. m * w \in Nat /\ (m + 1) * w = m * w + w /\ (m + 1) * w \in Nat
  <2>. HIDE DEF m
  <2> QED
    BY <1>1
<1>3. g = IF pos < Len(t) THEN Gap(Column(x), k, w) ELSE 0
  BY DEF Place
<1>4. Spot(w, x, t, pos) = IF c[2] + h > w THEN <<c[1] + 1, 0>> ELSE c
  BY DEF Spot
<1>5. X = m * w + (IF x.wrap THEN w ELSE x.col) + g
  BY DEF At
<1>. HIDE DEF m, k, g, h
<1>6. ASSUME NEW q \in Nat, NEW r \in 0 .. w - 1, X = q * w + r
      PROVE  X \in Nat /\ X \div w = q /\ X % w = r
  <2>1. q * w \in Nat
    OBVIOUS
  <2>2. X \in Nat
    BY <1>6, <2>1
  <2> QED
    BY <1>0, <1>6, <2>2, DivIs
<1>7. CASE x.wrap
  <2>1. Column(x) = 0 /\ c = <<x.row + 1, 0>>
    BY <1>7 DEF Column
  <2>2. g = 0
    BY <1>1, <1>3, <2>1 DEF Gap
  <2>3. ~(0 + h > w)
    BY <1>1
  <2>4. Spot(w, x, t, pos) = <<x.row + 1, 0>>
    BY <1>4, <2>1, <2>3
  <2>5. X = (m + 1) * w + 0 /\ m + 1 \in Nat /\ 0 \in 0 .. w - 1 /\ x.row + 1 = first + (m + 1)
    BY <1>0, <1>1, <1>2, <1>5, <1>7, <2>2
  <2> QED
    BY <1>6, <2>4, <2>5
<1>8. CASE ~x.wrap /\ ~(x.col + h > w)
  <2>1. Column(x) = x.col /\ c = <<x.row, x.col>>
    BY <1>8 DEF Column
  <2>2. g = 0
    <3>1. CASE pos < Len(t)
      <4>1. h = k
        BY <3>1 DEF h
      <4>2. ~(x.col + k > w)
        BY <1>8, <4>1
      <4> QED
        BY <1>3, <2>1, <4>2 DEF Gap
    <3>2. CASE ~(pos < Len(t))
      BY <1>3, <3>2
    <3> QED
      BY <3>1, <3>2
  <2>3. Spot(w, x, t, pos) = <<x.row, x.col>>
    BY <1>4, <1>8, <2>1
  <2>4. X = m * w + x.col /\ x.col \in 0 .. w - 1
    BY <1>0, <1>1, <1>2, <1>5, <1>8, <2>2
  <2> QED
    BY <1>1, <1>6, <2>3, <2>4
<1>9. CASE ~x.wrap /\ x.col + h > w
  <2>1. Column(x) = x.col /\ c = <<x.row, x.col>> /\ x.col = w - 1 /\ h = 2
    BY <1>0, <1>1, <1>9 DEF Column
  <2>2. g = 1
    <3>1. pos < Len(t) /\ k = 2
      BY <2>1 DEF h
    <3>2. Gap(w - 1, 2, w) = 1
      BY DEF Gap
    <3> QED
      BY <1>3, <2>1, <3>1, <3>2
  <2>3. Spot(w, x, t, pos) = <<x.row + 1, 0>>
    BY <1>4, <1>9, <2>1
  <2>4. X = (m + 1) * w + 0 /\ m + 1 \in Nat /\ 0 \in 0 .. w - 1 /\ x.row + 1 = first + (m + 1)
    BY <1>0, <1>1, <1>2, <1>5, <1>9, <2>1, <2>2
  <2> QED
    BY <1>6, <2>3, <2>4
<1> QED
  BY <1>7, <1>8, <1>9

\* The rows of a text by its columns.
LEMMA EndRow ==
    ASSUME NEW w \in Nat, w >= 3, NEW e \in Screens(w), NEW first \in Nat \ {0}, first <= e.row,
           Started(e), NEW A, A = At(w, e, first)
    PROVE  /\ A \in Nat /\ RowsFor(A, w) = (e.row - first) + 1
           /\ A \div w = (e.row - first) + (IF e.wrap THEN 1 ELSE 0)
           /\ A % w = 0 <=> e.wrap
           /\ \A X \in Nat : X < A => X \div w <= e.row - first
<1>. DEFINE m == e.row - first
            c == IF e.wrap THEN w ELSE e.col
<1>0. /\ e.row \in Nat /\ e.col \in Nat /\ e.col < w /\ e.wrap \in BOOLEAN /\ w > 0
      /\ e.wrap => e.col = w - 1
  BY ScreenFacts
<1>1. m \in Nat /\ c \in 1 .. w /\ (c = w <=> e.wrap)
  BY <1>0 DEF Started
<1>2. A = m * w + c
  BY DEF At
<1>. HIDE DEF m, c
<1>3. m * w \in Nat /\ (m + 1) * w = m * w + w /\ A \in Nat
  <2>1. m * w \in Nat /\ (m + 1) * w = m * w + w
    BY <1>1
  <2> QED
    BY <1>1, <1>2, <2>1
<1>4. RowsFor(A, w) = m + 1
  <2>. DEFINE r == c - 1
              q == m + 1
              x == A + w - 1
  <2>1. r \in 0 .. w - 1 /\ q \in Nat /\ x = q * w + r
    BY <1>1, <1>2, <1>3
  <2>. HIDE DEF r, q, x
  <2>2. x \div w = q
    BY <1>0, <2>1, DivIs
  <2> QED
    BY <2>2 DEF x, q, RowsFor
<1>5. A \div w = m + (IF e.wrap THEN 1 ELSE 0) /\ (A % w = 0 <=> e.wrap)
  <2>1. CASE e.wrap
    <3>. DEFINE q == m + 1
                r == 0
    <3>1. r \in 0 .. w - 1 /\ q \in Nat /\ A = q * w + r
      BY <1>1, <1>2, <1>3, <2>1
    <3>. HIDE DEF r, q
    <3>2. A \div w = q /\ A % w = r
      BY <1>0, <3>1, DivIs
    <3> QED
      BY <2>1, <3>2 DEF q, r
  <2>2. CASE ~e.wrap
    <3>1. c \in 1 .. w - 1 /\ c \in 0 .. w - 1
      BY <1>1, <2>2
    <3>2. A \div w = m /\ A % w = c
      <4>1. w > 0 /\ m \in Nat /\ c \in 0 .. w - 1
        BY <1>0, <1>1, <3>1
      <4> QED
        BY ONLY w \in Nat, <4>1, <1>2, DivIs
    <3> QED
      BY <1>1, <2>2, <3>1, <3>2
  <2> QED
    BY <2>1, <2>2
<1>6. ASSUME NEW X \in Nat, X < A PROVE X \div w <= m
  <2>. DEFINE d == X \div w
              r == X % w
  <2>1. d \in Int /\ r \in 0 .. w - 1 /\ X = w * d + r
    BY <1>0
  <2>. HIDE DEF d, r
  <2>2. SUFFICES ASSUME d >= m + 1 PROVE FALSE
    BY <1>1, <2>1 DEF d
  <2>3. w * d >= w * (m + 1)
    BY <1>0, <1>1, <2>1, <2>2
  <2>4. w * (m + 1) = m * w + w
    BY <1>1, <1>3
  <2>5. w * d \in Int
    BY <2>1
  <2> QED
    BY <1>1, <1>2, <1>3, <1>6, <2>1, <2>3, <2>4, <2>5
<1> QED
  BY <1>3, <1>4, <1>5, <1>6 DEF m

-----------------------------------------------------------------------------
(* refreshMultiLine.                                                       *)

\* Rows are counted from one.
LEMMA OneMore ==
    ASSUME NEW w \in Nat, w > 0, NEW x \in Nat
    PROVE  /\ x \div w \in Nat /\ x % w \in 0 .. w - 1 /\ (x + w) \div w = (x \div w) + 1
           /\ x < w => x \div w = 0
<1>. DEFINE d == x \div w
            r == x % w
            q == d + 1
            y == x + w
<1>1. d \in Int /\ r \in 0 .. w - 1 /\ x = w * d + r
  OBVIOUS
<1>. HIDE DEF d, r
<1>2. d \in Nat
  <2>. SUFFICES ASSUME d <= -1 PROVE FALSE
    BY <1>1
  <2>1. w * d <= w * (-1)
    BY <1>1
  <2>2. w * d \in Int
    BY <1>1
  <2> QED
    BY <1>1, <2>1, <2>2
<1>3. q \in Nat /\ y = q * w + r
  <2>1. (d + 1) * w = w * d + w
    BY <1>2
  <2>2. w * d \in Nat
    BY <1>2
  <2> QED
    BY <1>1, <1>2, <2>1, <2>2
<1>4. y \div w = q
  <2>. HIDE DEF q, y
  <2> QED
    BY <1>1, <1>3, DivIs
<1>5. ASSUME x < w PROVE d = 0
  <2>. SUFFICES ASSUME d >= 1 PROVE FALSE
    BY <1>2
  <2>1. w * d >= w * 1
    BY <1>2
  <2>2. w * d \in Int
    BY <1>1
  <2> QED
    BY <1>1, <1>5, <2>1, <2>2
<1> QED
  BY <1>1, <1>2, <1>4, <1>5 DEF d, q, y, r

\* What clears a line the editor has written.
Clear(n, pc) ==
    Move("down", n.maxrows - ((pc + n.oldcolpos + n.cols) \div n.cols))
        \o ClearedUp(n.maxrows - 1) \o Wipe

\* What is written, and the state after it.
LEMMA TwoFields ==
    ASSUME NEW a, NEW b, NEW r, r = [ab |-> a, l |-> b]
    PROVE  r.ab = a /\ r.l = b
OBVIOUS

\* The counts are numbers.
LEMMA Differences ==
    ASSUME NEW a \in Nat, NEW b \in Int
    PROVE  a - b \in Int /\ a - 1 \in Int
OBVIOUS

\* Their sums are too.
LEMMA TwoCounts ==
    ASSUME NEW a \in Nat, NEW b \in Nat, NEW c \in Nat, NEW w \in Nat
    PROVE  a + b \in Nat /\ a + c + w \in Nat
OBVIOUS

\* The three parts of what is written for a line.
WritesLine(w, s, n, pc, c2, edge, rows, up, col) ==
    /\ Written(s, Refreshed(n).ab) =
         Written(Written(Written(s, Clear(n, pc)), Text(Prompt \o n.buf)), Trail(edge, up, col))
    /\ Refreshed(n).l = [n EXCEPT !.maxrows = IF rows > @ THEN rows ELSE @, !.oldcolpos = c2]
    /\ Written(s, Clear(n, pc)) \in Screens(w)
    /\ Text(Prompt \o n.buf) \in Seq(Puts)

\* What it is made from.
Counts(w, n, pc, c1, c2, edge, rows, up, col) ==
    /\ Whole(n.buf) /\ n.cols = w /\ n.maxrows \in Nat /\ n.oldcolpos \in Nat
    /\ Whole(Prompt) /\ pc \in Nat /\ pc = ColumnPos(Prompt)
    /\ c1 \in Nat /\ c1 = ColumnPosForMultiLine(n.buf, Len(n.buf), w, pc)
    /\ c2 \in Nat /\ c2 = ColumnPosForMultiLine(n.buf, n.pos, w, pc)
    /\ edge \in BOOLEAN /\ (edge <=> AtEdge(n, pc + c2))
    /\ rows \in Int /\ rows = RowsFor(pc + c1, w) + (IF edge THEN 1 ELSE 0)
    /\ up \in Int /\ up = rows - ((pc + c2 + w) \div w)
    /\ col = (pc + c2) % w

\* What refreshMultiLine writes, and counts.
LEMMA RefreshWrites ==
    ASSUME NEW w \in Nat, w > 0, NEW s \in Screens(w), NEW n, NEW pc, NEW c1, NEW c2,
           NEW edge, NEW rows, NEW up, NEW col, Counts(w, n, pc, c1, c2, edge, rows, up, col)
    PROVE  WritesLine(w, s, n, pc, c2, edge, rows, up, col)
<1>. Whole(n.buf) /\ n.cols = w /\ n.maxrows \in Nat /\ n.oldcolpos \in Nat
  BY DEF Counts
<1>. Whole(Prompt) /\ pc \in Nat /\ pc = ColumnPos(Prompt) /\ c1 \in Nat /\ c2 \in Nat
  BY DEF Counts
<1>. edge \in BOOLEAN /\ rows \in Int /\ up \in Int /\ col = (pc + c2) % w
  BY DEF Counts
<1>. DEFINE E == Clear(n, pc)
            T == Text(Prompt \o n.buf)
            A == IF edge THEN <<Feed, Return>> ELSE <<>>
            B == Move("up", up)
            C == <<Return>>
            D == Move("right", col)
            K == Commands
            R == Trail(edge, up, col)
            L == [n EXCEPT !.maxrows = IF rows > @ THEN rows ELSE @, !.oldcolpos = c2]
<1>0. edge = AtEdge(n, pc + c2)
  <2>1. AtEdge(n, pc + c2) \in BOOLEAN
    BY DEF AtEdge
  <2>2. edge <=> AtEdge(n, pc + c2)
    BY DEF Counts
  <2> QED
    BY <2>1, <2>2
<1>1. Refreshed(n) = [ab |-> ((((E \o T) \o A) \o B) \o C) \o D, l |-> L]
  <2>1. /\ c1 = ColumnPosForMultiLine(n.buf, Len(n.buf), w, pc)
        /\ c2 = ColumnPosForMultiLine(n.buf, n.pos, w, pc)
        /\ rows = RowsFor(pc + c1, w) + (IF edge THEN 1 ELSE 0)
        /\ up = rows - ((pc + c2 + w) \div w)
    BY DEF Counts
  <2> QED
    BY <1>0, <2>1 DEF Refreshed, Clear, Wipe
<1>2. col \in 0 .. w - 1 /\ (pc + n.oldcolpos + n.cols) \div n.cols \in Int
  <2>. DEFINE x == pc + c2
              y == pc + n.oldcolpos + w
  <2>1. x \in Nat /\ y \in Nat
    BY ONLY pc \in Nat, c2 \in Nat, n.oldcolpos \in Nat, w \in Nat, TwoCounts
  <2>. HIDE DEF x, y
  <2>2. x % w \in 0 .. w - 1 /\ y \div w \in Nat
    BY ONLY w \in Nat, w > 0, <2>1, OneMore
  <2>3. y \div w \in Int
    BY <2>2
  <2> QED
    BY <2>2, <2>3 DEF x, y
<1>3. E \in Seq(K)
  <2>. DEFINE d == n.maxrows - ((pc + n.oldcolpos + n.cols) \div n.cols)
              k == n.maxrows - 1
              r == s.row + (IF d > 0 THEN d ELSE 0)
              lo == Lo(r, IF k > 0 THEN k ELSE 0)
  <2>1. d \in Int /\ k \in Int
    <3>. DEFINE v == (pc + n.oldcolpos + n.cols) \div n.cols
    <3>1. v \in Int
      BY <1>2
    <3>. HIDE DEF v
    <3>2. n.maxrows - v \in Int /\ n.maxrows - 1 \in Int
      BY ONLY n.maxrows \in Nat, <3>1, Differences
    <3> QED
      BY <3>2 DEF v
  <2>2. E = Move("down", d) \o ClearedUp(k) \o Wipe
    BY DEF Clear
  <2>. HIDE DEF E, d, k
  <2> QED
    BY <2>1, <2>2, Erasing
<1>4. T \in Seq(Puts) /\ T \in Seq(K)
  <2>1. Whole(Prompt \o n.buf)
    BY JoinWhole
  <2> QED
    BY <2>1, TextIs
<1>5. A \in Seq(K) /\ B \in Seq(K) /\ C \in Seq(K) /\ D \in Seq(K)
  <2>1. Return \in Commands /\ Feed \in Commands
    BY CommandTypes
  <2>2. A \in Seq(K) /\ C \in Seq(K)
    <3>. HIDE DEF Commands, Return, Feed
    <3> QED
      BY <2>1
  <2>3. col \in Int
    BY <1>2
  <2>4. B \in Seq(K)
    BY MoveIs
  <2>5. D \in Seq(K)
    BY <2>3, MoveIs
  <2> QED
    BY <2>2, <2>4, <2>5
<1>6. R = ((A \o B) \o C) \o D
  BY DEF Trail
<1>7. R \in Seq(K)
  <2>. HIDE DEF R, E, T, A, B, C, D
  <2>. DEFINE lo == Lo(s.row + (IF edge THEN 1 ELSE 0), IF up > 0 THEN up ELSE 0)
              t == Written(s, Trail(edge, up, col))
  <2> QED
    BY <1>2, Trailing DEF R
<1>8. ((((E \o T) \o A) \o B) \o C) \o D = E \o (T \o R)
  <2>. HIDE DEF E, T, A, B, C, D, K, R
  <2>. DEFINE H == E \o T
  <2>1. H \in Seq(K) /\ A \o B \in Seq(K)
    BY <1>3, <1>4, <1>5, Assoc
  <2>2. (H \o A) \o B = H \o (A \o B)
    <3>1. H \in Seq(K) /\ A \in Seq(K) /\ B \in Seq(K)
      BY <1>5, <2>1
    <3>. HIDE DEF H
    <3> QED
      BY ONLY <3>1, Assoc
  <2>. DEFINE F == A \o B
  <2>3. (H \o F) \o C = H \o (F \o C) /\ F \o C \in Seq(K)
    <3>1. H \in Seq(K) /\ F \in Seq(K) /\ C \in Seq(K)
      BY <1>5, <2>1
    <3>. HIDE DEF H, F
    <3> QED
      BY ONLY <3>1, Assoc
  <2>. DEFINE G == F \o C
  <2>4. (H \o G) \o D = H \o (G \o D)
    <3>1. H \in Seq(K) /\ G \in Seq(K) /\ D \in Seq(K)
      BY <1>5, <2>1, <2>3
    <3>. HIDE DEF H, G
    <3> QED
      BY ONLY <3>1, Assoc
  <2>5. (E \o T) \o R = E \o (T \o R)
    <3>1. E \in Seq(K) /\ T \in Seq(K) /\ R \in Seq(K)
      BY <1>3, <1>4, <1>7
    <3> QED
      BY ONLY <3>1, Assoc
  <2>6. G \o D = R
    BY <1>6
  <2>7. (((H \o A) \o B) \o C) \o D = H \o (G \o D)
    BY <2>2, <2>3, <2>4
  <2> QED
    BY <2>5, <2>6, <2>7
<1>9. Written(s, E \o (T \o R)) = Written(Written(Written(s, E), T), R) /\ Written(s, E) \in Screens(w)
  <2>0. E \in Seq(Commands) /\ T \in Seq(Commands) /\ R \in Seq(Commands)
    BY <1>3, <1>4, <1>7
  <2>. HIDE DEF E, T, R
  <2>. DEFINE H == T \o R
  <2>1. H \in Seq(Commands)
    BY ONLY w \in Nat, w > 0, s \in Screens(w), <2>0, Then
  <2>2. Written(s, E \o H) = Written(Written(s, E), H) /\ Written(s, E) \in Screens(w)
    <3>. HIDE DEF H
    <3> QED
      BY ONLY w \in Nat, w > 0, s \in Screens(w), <2>0, <2>1, Then
  <2>. DEFINE u == Written(s, E)
  <2>3. Written(u, T \o R) = Written(Written(u, T), R)
    <3>1. u \in Screens(w)
      BY <2>2
    <3>. HIDE DEF u
    <3> QED
      BY ONLY w \in Nat, w > 0, <2>0, <3>1, Then
  <2> QED
    BY <2>2, <2>3
<1>10. Refreshed(n).ab = E \o (T \o R)
  <2>. HIDE DEF E, T, A, B, C, D, R, L
  <2>. DEFINE X == ((((E \o T) \o A) \o B) \o C) \o D
              Y == Refreshed(n)
  <2>0. Y = [ab |-> X, l |-> L]
    BY <1>1
  <2>1. Refreshed(n).ab = ((((E \o T) \o A) \o B) \o C) \o D
    <3>. HIDE DEF X, Y
    <3>1. Y.ab = X
      BY ONLY <2>0, TwoFields
    <3> QED
      BY <3>1 DEF X, Y
  <2> QED
    BY <1>8, <2>1
<1>11. Refreshed(n).l = [n EXCEPT !.maxrows = IF rows > @ THEN rows ELSE @, !.oldcolpos = c2]
  <2>. HIDE DEF E, T, A, B, C, D, R, L
  <2>. DEFINE X == ((((E \o T) \o A) \o B) \o C) \o D
              Y == Refreshed(n)
  <2>0. Y = [ab |-> X, l |-> L]
    BY <1>1
  <2>1. Refreshed(n).l = L
    <3>. HIDE DEF X, Y
    <3>1. Y.l = L
      BY ONLY <2>0, TwoFields
    <3> QED
      BY <3>1 DEF Y
  <2> QED
    BY <2>1 DEF L
<1> QED
  <2>1. Written(s, Refreshed(n).ab) = Written(Written(Written(s, E), T), R)
    BY <1>9, <1>10
  <2> QED
    BY <1>4, <1>9, <1>11, <2>1 DEF WritesLine

\* A text is written from the cursor on.
LEMMA OnwardShot ==
    ASSUME NEW w \in Nat, w >= 3, NEW s \in Screens(w), ~s.wrap, NEW t, Whole(t),
           NEW pos, Between(t, pos)
    PROVE  LET x == Shot(s, t, pos) IN x \in Screens(w) /\ Onward(w, s, x)
<1>0. pos \in Nat /\ s.col \in Nat /\ s.row \in Nat
  <2>1. pos \in Nat
    BY BetweenFacts
  <2>2. s.col \in Nat /\ s.row \in Nat
    BY w > 0, ScreenFacts
  <2> QED
    BY <2>1, <2>2
<1>1. PICK f \in [Nat \X Nat -> Nat] : IsCount(f, t, pos, w)
  BY <1>0, ColumnsRun
<1>2. pos <= pos
  BY <1>0
<1>3. Onward(w, s, Shot(s, t, pos))
  BY <1>0, <1>1, <1>2, Track
<1> QED
  BY <1>3 DEF Onward

\* A place is a number.
LEMMA AtInt ==
    ASSUME NEW w \in Nat, w > 0, NEW s \in Screens(w), NEW k \in Nat
    PROVE  At(w, s, k) \in Int
<1>1. s.row \in Nat /\ s.col \in Nat /\ s.wrap \in BOOLEAN
  BY ScreenFacts
<1>2. (s.row - k) * w \in Int /\ (IF s.wrap THEN w ELSE s.col) \in Nat
  BY <1>1
<1> QED
  BY <1>2 DEF At

\* A sum of numbers.
LEMMA SumNat ==
    ASSUME NEW a \in Nat, NEW b \in Nat, NEW c, c = a + b
    PROVE  c \in Nat
OBVIOUS

\* Where the end of a text and a position in it are on the screen.
Geometric(w, s, t, pos, c1, c2, e, X, edge, rows, up) ==
    /\ e \in Screens(w) /\ Onward(w, s, e) /\ c1 \in Nat /\ c2 \in Nat /\ X \in Nat
    /\ X \div w \in Nat /\ X % w \in 0 .. w - 1
    /\ (X + w) \div w = (X \div w) + 1 /\ (X < w => X \div w = 0)
    /\ rows \in Nat \ {0} /\ up \in Nat /\ rows >= (X \div w) + 1
    /\ rows >= (e.row - s.row) + 1
    /\ Lo(e.row + (IF edge THEN 1 ELSE 0), IF up > 0 THEN up ELSE 0)
         = s.row + (X \div w)
    /\ Spot(w, Shot(s, t, pos), t, pos) = <<s.row + (X \div w), X % w>>

\* The rows and the column refreshMultiLine computes are where the terminal is.
LEMMA Geometry ==
    ASSUME NEW w \in Nat, w >= 3, NEW s \in Screens(w), ~s.wrap, NEW pc, pc = s.col, pc > 0,
           NEW t, Whole(t),
           NEW pos, Between(t, pos), pos < Len(t) => ~IsCombining(Cp(t, pos)),
           NEW c1, c1 = ColumnPosForMultiLine(t, Len(t), w, pc),
           NEW c2, c2 = ColumnPosForMultiLine(t, pos, w, pc),
           NEW e, e = Shot(s, t, Len(t)), NEW X, X = pc + c2,
           NEW edge \in BOOLEAN, edge <=> (pos > 0 /\ pos = Len(t) /\ X % w = 0),
           NEW rows, rows = RowsFor(pc + c1, w) + (IF edge THEN 1 ELSE 0),
           NEW up, up = rows - ((X + w) \div w)
    PROVE  Geometric(w, s, t, pos, c1, c2, e, X, edge, rows, up)
<1>w. w > 0
  OBVIOUS
<1>. DEFINE x == Shot(s, t, pos)
            A == At(w, e, s.row)
            B == At(w, x, s.row) + Place(w, x, t, pos)
            v == X \div w
            r == X % w
<1>0. /\ pos \in Nat /\ Len(t) \in Nat /\ Between(t, Len(t)) /\ pos <= Len(t)
      /\ s.row \in Nat \ {0} /\ s.col \in Nat /\ pc \in Nat
  <2>1. pos \in Nat /\ pos \in 0 .. Len(t) /\ Len(t) \in Nat
    BY BetweenFacts
  <2>2. s.row \in Nat \ {0} /\ s.col \in Nat /\ pc \in Nat
    BY w > 0, ScreenFacts
  <2> QED
    BY <2>1, <2>2, EndsBetween
<1>1. e \in Screens(w) /\ Onward(w, s, e)
  BY <1>0, OnwardShot
<1>2. x \in Screens(w) /\ Onward(w, s, x)
  BY <1>0, OnwardShot
<1>3. c1 \in Nat /\ pc + c1 = A
  <2>1. c1 \in Nat /\ e \in Screens(w) /\ pc + c1 = At(w, e, s.row) + Place(w, e, t, Len(t))
    BY <1>0, Counted
  <2>2. Place(w, e, t, Len(t)) = 0
    BY <1>0 DEF Place
  <2>3. At(w, e, s.row) \in Int
    BY ONLY w \in Nat, <1>w, <1>0, <1>1, AtInt
  <2>. HIDE DEF A
  <2> QED
    BY <2>1, <2>2, <2>3 DEF A
<1>4. c2 \in Nat /\ X = B
  BY <1>0, Counted
<1>5. X \in Nat
  BY ONLY <1>0, <1>4, X = pc + c2, SumNat
<1>6. v \in Nat /\ r \in 0 .. w - 1 /\ (X + w) \div w = v + 1 /\ (X < w => v = 0)
  BY <1>5, w > 0, OneMore
<1>7. e.row \in Nat /\ s.row <= e.row /\ e.wrap \in BOOLEAN
  <2>1. e.row \in Nat \ {0} /\ e.wrap \in BOOLEAN
    BY <1>1, w > 0, ScreenFacts
  <2> QED
    BY <1>0, <1>1, <2>1 DEF Onward
<1>8. s.row <= x.row
  BY <1>0, <1>2 DEF Onward
<1>9. Started(e)
  BY <1>0, <1>1 DEF Onward, Started
<1>10. /\ A \in Nat /\ RowsFor(A, w) = (e.row - s.row) + 1
       /\ A \div w = (e.row - s.row) + (IF e.wrap THEN 1 ELSE 0)
       /\ (A % w = 0 <=> e.wrap)
       /\ \A Y \in Nat : Y < A => Y \div w <= e.row - s.row
  <2>. HIDE DEF A
  <2>1. A = At(w, e, s.row)
    BY DEF A
  <2> QED
    <3>. DEFINE k == s.row
    <3>1. k \in Nat \ {0} /\ k <= e.row /\ e \in Screens(w) /\ Started(e) /\ A = At(w, e, k)
      BY <1>0, <1>1, <1>7, <1>9, <2>1
    <3>2. w \in Nat /\ w >= 3
      OBVIOUS
    <3>. HIDE DEF k
    <3>3. /\ A \in Nat /\ RowsFor(A, w) = (e.row - k) + 1
          /\ A \div w = (e.row - k) + (IF e.wrap THEN 1 ELSE 0)
          /\ (A % w = 0 <=> e.wrap)
          /\ \A Y \in Nat : Y < A => Y \div w <= e.row - k
      BY ONLY <3>1, <3>2, EndRow
    <3> QED
      BY <3>3 DEF k
<1>11. Spot(w, x, t, pos) = <<s.row + (X \div w), X % w>>
  <2>. DEFINE k == s.row
  <2>1. k \in Nat \ {0} /\ k <= x.row /\ x \in Screens(w) /\ X = At(w, x, k) + Place(w, x, t, pos)
    BY <1>0, <1>2, <1>4, <1>8
  <2>2. w \in Nat /\ w >= 3
    OBVIOUS
  <2>. HIDE DEF x, k
  <2>3. Spot(w, x, t, pos) = <<k + (X \div w), X % w>>
    BY ONLY <2>1, <2>2, SpotIs
  <2> QED
    BY <2>3 DEF k
<1>13. edge \in BOOLEAN
  OBVIOUS
<1>12. \/ v <= e.row - s.row /\ ~edge
       \/ edge = e.wrap /\ v = (e.row - s.row) + (IF e.wrap THEN 1 ELSE 0)
  <2>1. CASE pos < Len(t)
    <3>1. ~edge
      <4>1. pos # Len(t)
        BY <1>0, <2>1
      <4> QED
        BY <4>1
    <3>2. A >= B + 1
      BY <1>0, <2>1, CountedAhead
    <3>3. X < A
      <4>. HIDE DEF A, B
      <4> QED
        BY <1>4, <1>5, <1>10, <3>2
    <3>4. v <= e.row - s.row
      <4>. HIDE DEF A
      <4> QED
        BY <1>5, <1>10, <3>3
    <3> QED
      BY <3>1, <3>4
  <2>2. CASE pos = Len(t)
    <3>1. X = A
      <4>1. x = e /\ Place(w, x, t, pos) = 0
        BY <1>0, <2>2 DEF Place
      <4>2. At(w, e, s.row) \in Int
        BY ONLY w \in Nat, <1>w, <1>0, <1>1, AtInt
      <4>3. B = A + 0
        BY <4>1
      <4>. HIDE DEF A, B
      <4> QED
        BY <1>4, <1>10, <4>3
    <3>2. v = (e.row - s.row) + (IF e.wrap THEN 1 ELSE 0) /\ (X % w = 0 <=> e.wrap)
      <4>. HIDE DEF A
      <4> QED
        BY <1>10, <3>1
    <3>3. CASE pos > 0
      <4>1. edge <=> (X % w = 0)
        BY <2>2, <3>3
      <4>2. e.wrap \in BOOLEAN
        BY <1>7
      <4>3. edge = e.wrap
        BY ONLY <4>1, <4>2, <1>13, <3>2
      <4> QED
        BY <3>2, <4>3
    <3>4. CASE pos = 0
      <4>1. e = s
        BY <1>0, <2>2, <3>4, WholeFacts, ShotAtStart
      <4>2. ~edge
        <5>1. ~(pos > 0)
          BY <3>4
        <5> QED
          BY <5>1
      <4>3. ~e.wrap
        BY <4>1
      <4>4. e.wrap \in BOOLEAN
        BY <1>7
      <4>5. edge = e.wrap
        BY ONLY <4>2, <4>3, <4>4, <1>13
      <4> QED
        BY <3>2, <4>5
    <3> QED
      BY <1>0, <3>3, <3>4
  <2> QED
    BY <1>0, <2>1, <2>2
<1>14. rows = ((e.row - s.row) + 1) + (IF edge THEN 1 ELSE 0) /\ up = rows - (v + 1)
  <2>. HIDE DEF A, v
  <2> QED
    BY <1>3, <1>6, <1>10
<1>15. /\ rows \in Nat \ {0} /\ up \in Nat /\ rows >= v + 1 /\ rows >= (e.row - s.row) + 1
       /\ Lo(e.row + (IF edge THEN 1 ELSE 0), IF up > 0 THEN up ELSE 0) = s.row + v
  <2>. DEFINE k == s.row
              z == e.row
              b == e.wrap
  <2>1. k \in Nat /\ k > 0 /\ z \in Nat /\ k <= z /\ b \in BOOLEAN /\ edge \in BOOLEAN /\ v \in Nat
    <3>1. k \in Nat /\ k > 0
      BY <1>0
    <3>2. z \in Nat /\ k <= z /\ b \in BOOLEAN
      BY <1>7
    <3>3. v \in Nat
      BY <1>6
    <3> QED
      BY <1>13, <3>1, <3>2, <3>3
  <2>2. \/ v <= z - k /\ ~edge
        \/ v = (z - k) + (IF edge THEN 1 ELSE 0)
    BY <1>12
  <2>3. rows = ((z - k) + 1) + (IF edge THEN 1 ELSE 0) /\ up = rows - (v + 1)
    BY <1>14
  <2>. HIDE DEF v, k, z, b
  <2>5. k \in Nat /\ k > 0
    BY <2>1
  <2>4. /\ rows \in Nat \ {0} /\ up \in Nat /\ rows >= v + 1 /\ rows >= (z - k) + 1
        /\ Lo(z + (IF edge THEN 1 ELSE 0), IF up > 0 THEN up ELSE 0) = k + v
    <3>1. CASE edge
      BY ONLY <3>1, <2>1, <2>2, <2>3 DEF Lo
    <3>2. CASE ~edge
      BY ONLY <3>2, <2>1, <2>2, <2>3 DEF Lo
    <3> QED
      BY ONLY <3>1, <3>2
  <2> QED
    BY <2>4 DEF k, z, b
<1> QED
  BY <1>1, <1>3, <1>4, <1>5, <1>6, <1>11, <1>13, <1>15 DEF Geometric

\* The screen on which the editor has written a line of as many rows (0 when
\* there is only the prompt yet), with the cursor behind as many columns of it.
Ready(w, base, s, maxrows, oldcolpos) ==
    /\ maxrows \in Nat /\ oldcolpos \in Nat
    /\ s \in Screens(w) /\ ~s.wrap
    /\ s.row = base.row + ((ColumnPos(Prompt) + oldcolpos) \div w)
    /\ s.col = (ColumnPos(Prompt) + oldcolpos) % w
    /\ \/ maxrows = 0 /\ ColumnPos(Prompt) + oldcolpos < w
       \/ maxrows >= ((ColumnPos(Prompt) + oldcolpos) \div w) + 1
    /\ \A q \in Nat \ {0} : q < base.row => RowOf(s, q) = RowOf(base, q)
    /\ \A q \in Nat \ {0} : q >= base.row + (IF maxrows > 1 THEN maxrows ELSE 1)
                                => RowOf(s, q) = BlankRow(w)

\* The screen shows a text behind the prompt, with the cursor at a position of it.
Shows(w, base, s, t, pos) ==
    /\ \A q \in Nat \ {0} : RowOf(s, q) = RowOf(Written(base, Text(Prompt \o t)), q)
    /\ <<s.row, s.col>> = Spot(w, Written(base, Text(Prompt \o SubSeq(t, 1, pos))), t, pos)

\* The prompt, and a text behind it.
LEMMA Behind ==
    ASSUME NEW w \in Nat, w > 0, NEW base \in Screens(w), Whole(Prompt), NEW t, Whole(t)
    PROVE  Written(base, Text(Prompt \o t)) = Written(Written(base, Text(Prompt)), Text(t))
<1>. DEFINE a == Text(Prompt)
            b == Text(t)
<1>1. a \in Seq(Commands) /\ b \in Seq(Commands)
  BY TextIs
<1>2. Text(Prompt \o t) = a \o b
  BY TextIs
<1>3. Written(base, a \o b) = Written(Written(base, a), b)
  <2>. HIDE DEF a, b
  <2> QED
    BY <1>1, Then
<1> QED
  BY <1>2, <1>3

\* The more of two numbers of rows.
LEMMA TheMore ==
    ASSUME NEW a \in Nat \ {0}, NEW b \in Nat
    PROVE  LET m == IF a > b THEN a ELSE b IN m \in Nat /\ m >= a /\ m >= 1
OBVIOUS

\* What refreshMultiLine leaves on the terminal once it has cleared the line.
LEMMA RefreshShows ==
    ASSUME NEW w \in Nat, w >= 3, NEW s \in Screens(w), Whole(Prompt),
           NEW pc \in Nat, pc = ColumnPos(Prompt), pc > 0, pc < w,
           NEW base \in Screens(w), base.col = 0, ~base.wrap, Below(w, base),
           NEW n, NEW t, t = n.buf, Whole(t), NEW pos, pos = n.pos, Between(t, pos),
           n.cols = w, n.maxrows \in Nat, n.oldcolpos \in Nat,
           pos < Len(t) => ~IsCombining(Cp(t, pos)),
           Like(w, Written(s, Clear(n, pc)), base),
           NEW z, z = Written(s, Refreshed(n).ab)
    PROVE  \E rows, c2 :
              /\ Refreshed(n).l = [n EXCEPT !.maxrows = IF rows > @ THEN rows ELSE @,
                                            !.oldcolpos = c2]
              /\ Ready(w, base, z, IF rows > n.maxrows THEN rows ELSE n.maxrows, c2)
              /\ Shows(w, base, z, t, pos)
<1>w. w > 0 /\ w \in Nat /\ w >= 3
  OBVIOUS
<1>. DEFINE x0 == Written(base, Text(Prompt))
            c1 == ColumnPosForMultiLine(t, Len(t), w, pc)
            c2 == ColumnPosForMultiLine(t, pos, w, pc)
            e == Shot(x0, t, Len(t))
            X == pc + c2
            edge == AtEdge(n, X)
            rows == RowsFor(pc + c1, w) + (IF edge THEN 1 ELSE 0)
            up == rows - ((X + w) \div w)
            col == X % w
            T == Text(Prompt \o t)
            y == Written(s, Clear(n, pc))
            u == Written(y, T)
            M == IF rows > n.maxrows THEN rows ELSE n.maxrows
<1>s. s \in Screens(w) /\ Whole(Prompt) /\ pc \in Nat /\ pc = ColumnPos(Prompt)
  OBVIOUS
<1>1. Onward(w, base, x0) /\ x0.row = base.row /\ x0.col = pc /\ ~x0.wrap /\ x0 \in Screens(w)
  <2>1. Onward(w, base, x0) /\ x0.row = base.row /\ x0.col = pc /\ ~x0.wrap
    BY PromptShown
  <2> QED
    BY <2>1 DEF Onward
<1>2. edge \in BOOLEAN /\ (edge <=> (pos > 0 /\ pos = Len(t) /\ X % w = 0))
  BY DEF AtEdge
<1>3. /\ e \in Screens(w) /\ Onward(w, x0, e) /\ c1 \in Nat /\ c2 \in Nat /\ X \in Nat
      /\ X \div w \in Nat /\ X % w \in 0 .. w - 1
      /\ (X + w) \div w = (X \div w) + 1 /\ (X < w => X \div w = 0)
      /\ rows \in Nat \ {0} /\ up \in Nat /\ rows >= (X \div w) + 1
      /\ rows >= (e.row - x0.row) + 1
      /\ Lo(e.row + (IF edge THEN 1 ELSE 0), IF up > 0 THEN up ELSE 0)
           = x0.row + (X \div w)
      /\ Spot(w, Shot(x0, t, pos), t, pos) = <<x0.row + (X \div w), X % w>>
  <2>1. pc = x0.col /\ pc > 0
    BY <1>1
  <2>2. c1 = ColumnPosForMultiLine(t, Len(t), w, pc) /\ c2 = ColumnPosForMultiLine(t, pos, w, pc)
        /\ X = pc + c2 /\ rows = RowsFor(pc + c1, w) + (IF edge THEN 1 ELSE 0)
    OBVIOUS
  <2>3. e = Shot(x0, t, Len(t)) /\ up = rows - ((X + w) \div w)
    OBVIOUS
  <2>4. x0 \in Screens(w) /\ ~x0.wrap
    BY <1>1
  <2>5. Whole(t) /\ Between(t, pos) /\ (pos < Len(t) => ~IsCombining(Cp(t, pos)))
    OBVIOUS
  <2>. HIDE DEF x0, c1, c2, e, X, edge, rows, up
  <2> QED
    <3>1. Geometric(w, x0, t, pos, c1, c2, e, X, edge, rows, up)
      BY ONLY <1>w, <1>2, <2>1, <2>2, <2>3, <2>4, <2>5, Geometry
    <3> QED
      BY ONLY <3>1 DEF Geometric
<1>4. WritesLine(w, s, n, pc, c2, edge, rows, up, col)
  <2>1. Whole(n.buf) /\ c1 = ColumnPosForMultiLine(n.buf, Len(n.buf), w, pc)
        /\ c2 = ColumnPosForMultiLine(n.buf, n.pos, w, pc)
    OBVIOUS
  <2>2. (edge <=> AtEdge(n, pc + c2)) /\ rows = RowsFor(pc + c1, w) + (IF edge THEN 1 ELSE 0)
        /\ up = rows - ((pc + c2 + w) \div w) /\ col = (pc + c2) % w
    OBVIOUS
  <2>3. c1 \in Nat /\ c2 \in Nat /\ rows \in Int /\ up \in Int /\ edge \in BOOLEAN
    <3>. HIDE DEF x0, c1, c2, e, X, edge, rows, up
    <3> QED
      BY <1>2, <1>3
  <2>4. n.cols = w /\ n.maxrows \in Nat /\ n.oldcolpos \in Nat
    OBVIOUS
  <2>. HIDE DEF c1, c2, X, edge, rows, up, col
  <2> QED
    <3>1. Counts(w, n, pc, c1, c2, edge, rows, up, col)
      BY ONLY <1>s, <2>1, <2>2, <2>3, <2>4 DEF Counts
    <3> QED
      BY ONLY <1>w, <1>s, <3>1, RefreshWrites
<1>5. y \in Screens(w) /\ T \in Seq(Puts) /\ z = Written(u, Trail(edge, up, col))
      /\ Refreshed(n).l = [n EXCEPT !.maxrows = IF rows > @ THEN rows ELSE @, !.oldcolpos = c2]
  <2>. HIDE DEF c1, c2, X, edge, rows, up, col
  <2> QED
    BY <1>4 DEF WritesLine
<1>6. Like(w, u, e)
  <2>1. Like(w, y, base)
    OBVIOUS
  <2>2. Like(w, Written(y, T), Written(base, T))
    <3>. HIDE DEF y, T
    <3> QED
      BY ONLY <1>w, <1>5, <2>1, LikeWritten
  <2>3. Written(base, T) = Written(x0, Text(t))
    BY <1>w, Behind
  <2>4. e = Written(x0, Text(t))
    BY WholeFacts, ShotAtStart
  <2>. HIDE DEF y, T, x0, e
  <2> QED
    BY <2>2, <2>3, <2>4
<1>7. /\ z \in Screens(w) /\ z.row = base.row + (X \div w) /\ z.col = X % w /\ ~z.wrap
      /\ \A q \in Nat \ {0} : RowOf(z, q) = RowOf(e, q)
  <2>. DEFINE lo == Lo(u.row + (IF edge THEN 1 ELSE 0), IF up > 0 THEN up ELSE 0)
  <2>1. u \in Screens(w) /\ u.row = e.row /\ \A q \in Nat \ {0} : RowOf(u, q) = RowOf(e, q)
    <3>. HIDE DEF u, e
    <3> QED
      BY <1>6 DEF Like
  <2>2. edge \in BOOLEAN /\ up \in Int /\ col \in 0 .. w - 1
    <3>1. up \in Nat /\ X % w \in 0 .. w - 1
      BY <1>3
    <3>. HIDE DEF up, X, edge
    <3> QED
      BY <1>2, <3>1
  <2>3. z = Written(u, Trail(edge, up, col))
    BY <1>5
  <2>4. lo = base.row + (X \div w)
    <3>. HIDE DEF u, edge, up, X, e, x0
    <3> QED
      BY <1>1, <1>3, <2>1
  <2>5. lo = Lo(u.row + (IF edge THEN 1 ELSE 0), IF up > 0 THEN up ELSE 0)
    OBVIOUS
  <2>6. Trail(edge, up, col) \in Seq(Commands) /\ Trails(w, u, z, lo, col)
    <3>. HIDE DEF u, edge, up, X, e, x0, col, lo
    <3> QED
      BY ONLY <1>w, <2>1, <2>2, <2>3, <2>5, Trailing
  <2>. HIDE DEF u, edge, up, X, e, x0, lo
  <2> QED
    BY <2>1, <2>4, <2>6 DEF Trails
<1>8. Onward(w, base, e)
  <2>. HIDE DEF x0, e
  <2> QED
    BY <1>1, <1>3, <1>w, OnwardOnward
<1>9. Ready(w, base, z, M, c2)
  <2>. HIDE DEF x0, c1, c2, e, edge, rows, up, T, y, u
  <2>1. M \in Nat /\ M >= rows /\ M >= 1
    <3>1. rows \in Nat \ {0} /\ n.maxrows \in Nat
      BY <1>3
    <3> QED
      BY ONLY <3>1, TheMore DEF M
  <2>2. X = ColumnPos(Prompt) + c2
    OBVIOUS
  <2>3. base.row \in Nat /\ e.row \in Nat /\ base.row <= e.row
    <3>1. base.row \in Nat /\ e.row \in Nat
      BY ONLY <1>w, <1>3, base \in Screens(w), ScreenFacts
    <3> QED
      BY <1>8, <3>1 DEF Onward
  <2>4. M >= (X \div w) + 1
    <3>. DEFINE v == X \div w
    <3>1. v \in Nat /\ rows >= v + 1 /\ rows \in Nat
      BY <1>3
    <3>. HIDE DEF v, M
    <3>2. M >= v + 1
      BY ONLY <2>1, <3>1
    <3> QED
      BY <3>2 DEF v
  <2>5. ASSUME NEW q \in Nat \ {0}, q < base.row PROVE RowOf(z, q) = RowOf(base, q)
    BY <1>7, <1>8, <2>5 DEF Onward
  <2>6. ASSUME NEW q \in Nat \ {0}, q >= base.row + (IF M > 1 THEN M ELSE 1)
        PROVE RowOf(z, q) = BlankRow(w)
    <3>1. q > e.row
      <4>1. rows >= (e.row - base.row) + 1 /\ rows \in Nat
        BY <1>1, <1>3
      <4>. HIDE DEF M
      <4> QED
        BY ONLY <2>1, <2>3, <2>6, <4>1
    <3>2. Below(w, e)
      BY <1>8 DEF Onward
    <3>3. RowOf(e, q) = BlankRow(w)
      BY <3>1, <3>2 DEF Below
    <3> QED
      BY <1>7, <3>3
  <2>7. c2 \in Nat
    BY <1>3
  <2>. HIDE DEF M
  <2> QED
    BY <1>7, <2>1, <2>2, <2>4, <2>5, <2>6, <2>7 DEF Ready
<1>10. Shows(w, base, z, t, pos)
  <2>1. Written(base, T) = e
    <3>1. Written(base, T) = Written(x0, Text(t))
      BY <1>w, Behind
    <3>2. e = Written(x0, Text(t))
      BY WholeFacts, ShotAtStart
    <3> QED
      BY <3>1, <3>2
  <2>2. Written(base, Text(Prompt \o SubSeq(t, 1, pos))) = Shot(x0, t, pos)
    <3>1. Whole(SubSeq(t, 1, pos))
      BY CutWhole
    <3> QED
      BY <1>w, <3>1, Behind DEF Shot
  <2>3. <<z.row, z.col>> = Spot(w, Shot(x0, t, pos), t, pos)
    <3>. HIDE DEF x0, X
    <3> QED
      BY <1>1, <1>3, <1>7
  <2>. HIDE DEF x0, e
  <2> QED
    BY <1>7, <2>1, <2>2, <2>3 DEF Shows
<1> QED
  <2>. HIDE DEF rows, c2
  <2> QED
    BY <1>5, <1>9, <1>10

\* The prompt begins here: nothing is written from this row on.
Fresh(w, base) ==
    /\ base \in Screens(w) /\ base.col = 0 /\ ~base.wrap
    /\ \A q \in Nat \ {0} : q >= base.row => RowOf(base, q) = BlankRow(w)

\* The rows cover the cursor.
Covers(w, maxrows, oldcolpos) ==
    LET v == (ColumnPos(Prompt) + oldcolpos) \div w
    IN  /\ maxrows \in Nat /\ oldcolpos \in Nat
        /\ (maxrows = 0 /\ ColumnPos(Prompt) + oldcolpos < w) \/ maxrows >= v + 1

\* The rows that are cleared, from the cursor's row on.
LEMMA ClearIs ==
    ASSUME NEW w \in Nat, w >= 3, NEW n, n.cols = w, NEW pc \in Nat, pc = ColumnPos(Prompt),
           Covers(w, n.maxrows, n.oldcolpos), NEW s \in Screens(w),
           NEW first \in Nat \ {0}
    PROVE  LET t == Written(s, Clear(n, pc))
               m == IF n.maxrows > 1 THEN n.maxrows ELSE 1
           IN  /\ s.row = first + ((pc + n.oldcolpos) \div w) => Wiped(w, s, t, first, first + m - 1)
               /\ s.row = 1 => \E R : Wiped(w, s, t, 1, R)
<1>. DEFINE X == pc + n.oldcolpos
            v == X \div w
            d == n.maxrows - ((pc + n.oldcolpos + n.cols) \div n.cols)
            k == n.maxrows - 1
            cs == Move("down", d) \o ClearedUp(k) \o Wipe
            down == IF d > 0 THEN d ELSE 0
            up == IF k > 0 THEN k ELSE 0
            m == IF n.maxrows > 1 THEN n.maxrows ELSE 1
<1>w. w \in Nat /\ w > 0
  OBVIOUS
<1>1. n.maxrows \in Nat /\ n.oldcolpos \in Nat
      /\ ((n.maxrows = 0 /\ X < w) \/ n.maxrows >= v + 1)
  BY DEF Covers
<1>2. X \in Nat
  BY <1>1
<1>3. v \in Nat /\ (X + w) \div w = v + 1 /\ (X < w => v = 0)
  <2>. HIDE DEF X
  <2> QED
    BY ONLY <1>w, <1>2, OneMore
<1>4. d = n.maxrows - (v + 1)
  <2>1. pc + n.oldcolpos + n.cols = X + w
    OBVIOUS
  <2>. HIDE DEF X, v
  <2> QED
    BY <1>3, <2>1
<1>5. /\ d \in Int /\ k \in Int /\ first + v + down \in Nat /\ 1 + down \in Nat
      /\ Lo(first + v + down, up) = first /\ Lo(1 + down, up) = 1
      /\ first + v + down = first + m - 1
  <2>. DEFINE mr == n.maxrows
  <2>1. mr \in Nat /\ ((mr = 0 /\ v = 0) \/ mr >= v + 1) /\ v \in Nat
    BY <1>1, <1>3
  <2>2. d = mr - (v + 1) /\ k = mr - 1
    BY <1>4
  <2>3. down = (IF d > 0 THEN d ELSE 0) /\ up = (IF k > 0 THEN k ELSE 0)
        /\ m = (IF mr > 1 THEN mr ELSE 1)
    OBVIOUS
  <2>4. first \in Nat \ {0}
    OBVIOUS
  <2>. HIDE DEF mr, d, k, v, X, m, up, down
  <2> QED
    <3>1. CASE mr = 0
      BY ONLY <3>1, <2>1, <2>2, <2>3, <2>4 DEF Lo
    <3>2. CASE mr >= v + 1
      BY ONLY <3>2, <2>1, <2>2, <2>3, <2>4 DEF Lo
    <3> QED
      BY ONLY <2>1, <3>1, <3>2
<1>6. Clear(n, pc) = cs
  BY DEF Clear
<1>7. ASSUME NEW R, R = s.row + down PROVE Wiped(w, s, Written(s, cs), Lo(R, up), R)
  <2>. DEFINE lo == Lo(R, up)
  <2>1. d \in Int /\ k \in Int
    BY <1>5
  <2>2. R = s.row + (IF d > 0 THEN d ELSE 0) /\ lo = Lo(R, IF k > 0 THEN k ELSE 0)
    BY <1>7
  <2>3. cs = Move("down", d) \o ClearedUp(k) \o Wipe
    OBVIOUS
  <2>4. s \in Screens(w)
    OBVIOUS
  <2>. HIDE DEF cs, d, k, lo
  <2>5. Wiped(w, s, Written(s, cs), lo, R)
    BY ONLY <1>w, <2>1, <2>2, <2>3, <2>4, Erasing
  <2> QED
    BY <2>5 DEF lo
<1>8. ASSUME s.row = first + v PROVE Wiped(w, s, Written(s, cs), first, first + m - 1)
  <2>. DEFINE R == s.row + down
  <2>1. Wiped(w, s, Written(s, cs), Lo(R, up), R)
    BY <1>7
  <2>2. R = first + m - 1 /\ Lo(R, up) = first
    <3>. HIDE DEF down, up, m, v
    <3> QED
      BY <1>5, <1>8
  <2>. HIDE DEF R, cs, m, up
  <2> QED
    BY <2>1, <2>2
<1>9. ASSUME s.row = 1 PROVE \E R : Wiped(w, s, Written(s, cs), 1, R)
  <2>. DEFINE R == s.row + down
  <2>1. Wiped(w, s, Written(s, cs), Lo(R, up), R)
    BY <1>7
  <2>2. Lo(R, up) = 1
    <3>. HIDE DEF down, up, m, v
    <3> QED
      BY <1>5, <1>9
  <2>. HIDE DEF R, cs, up
  <2> QED
    BY <2>1, <2>2
<1> QED
  <2>. HIDE DEF cs, d, k, down, up
  <2> QED
    BY <1>6, <1>8, <1>9

\* The screen a line was written on looks as it did before.
LEMMA ClearsLine ==
    ASSUME NEW w \in Nat, w >= 3, NEW n, n.cols = w, NEW pc \in Nat, pc = ColumnPos(Prompt),
           NEW base, Fresh(w, base), NEW s,
           Ready(w, base, s, n.maxrows, n.oldcolpos)
    PROVE  s \in Screens(w) /\ Like(w, Written(s, Clear(n, pc)), base)
<1>. DEFINE t == Written(s, Clear(n, pc))
            m == IF n.maxrows > 1 THEN n.maxrows ELSE 1
            first == base.row
<1>w. w > 0
  OBVIOUS
<1>1. base \in Screens(w) /\ first \in Nat \ {0}
  BY <1>w, ScreenFacts DEF Fresh
<1>2. s \in Screens(w) /\ Covers(w, n.maxrows, n.oldcolpos)
      /\ s.row = first + ((pc + n.oldcolpos) \div w)
  BY DEF Ready, Covers
<1>3. Wiped(w, s, t, first, first + m - 1)
  <2>. HIDE DEF first
  <2> QED
    BY <1>1, <1>2, ClearIs
<1>4. m \in Nat /\ m >= 1
  BY <1>2 DEF Covers
<1>5. ASSUME NEW q \in Nat \ {0} PROVE RowOf(t, q) = RowOf(base, q)
  <2>1. RowOf(t, q) = IF first <= q /\ q <= first + m - 1 THEN BlankRow(w) ELSE RowOf(s, q)
    BY <1>3 DEF Wiped
  <2>2. CASE q < first
    <3>1. RowOf(s, q) = RowOf(base, q)
      BY <2>2 DEF Ready
    <3>2. ~(first <= q)
      BY <1>1, <2>2
    <3> QED
      BY <2>1, <3>1, <3>2
  <2>3. CASE q >= first
    <3>1. RowOf(base, q) = BlankRow(w)
      BY <2>3 DEF Fresh
    <3>2. CASE q <= first + m - 1
      BY <2>1, <2>3, <3>1, <3>2, <1>1
    <3>3. CASE q >= first + m
      <4>1. RowOf(s, q) = BlankRow(w)
        BY <3>3 DEF Ready
      <4> QED
        BY <2>1, <3>1, <4>1
    <3> QED
      BY <1>1, <1>4, <3>2, <3>3
  <2> QED
    BY <1>1, <2>2, <2>3
<1>6. t \in Screens(w) /\ t.row = first /\ t.col = 0 /\ ~t.wrap
  BY <1>3 DEF Wiped
<1>7. base.col = 0 /\ ~base.wrap
  BY DEF Fresh
<1>8. t.wrap = base.wrap
  <2>1. t.wrap \in BOOLEAN /\ base.wrap \in BOOLEAN
    BY <1>w, <1>1, <1>6, ScreenFacts
  <2> QED
    BY <1>6, <1>7, <2>1
<1> QED
  BY <1>1, <1>2, <1>5, <1>6, <1>7, <1>8 DEF Like

\* A cleared terminal does too, whatever was on it.
LEMMA ClearedIs ==
    ASSUME NEW w \in Nat, w >= 3
    PROVE  /\ Fresh(w, Cleared(w)) /\ Cleared(w).row = 1
           /\ \A q \in Nat \ {0} : RowOf(Cleared(w), q) = BlankRow(w)
<1>. DEFINE c == Cleared(w)
<1>1. c.rows = <<BlankRow(w)>> /\ c.row = 1 /\ c.col = 0 /\ c.wrap = FALSE /\ c.w = w
  BY DEF Cleared
<1>2. BlankRow(w) \in Row(w)
  BY DEF BlankRow, Row, Cells, Blank
<1>3. c.rows \in Seq(Row(w)) /\ Len(c.rows) = 1 /\ c.rows[1] = BlankRow(w)
  <2>. HIDE DEF c
  <2>. DEFINE b == BlankRow(w)
              S == Row(w)
  <2>1. b \in S /\ c.rows = <<b>>
    BY <1>1, <1>2
  <2>. HIDE DEF b, S
  <2>2. c.rows \in Seq(S) /\ Len(c.rows) = 1 /\ c.rows[1] = b
    BY <2>1
  <2> QED
    BY <2>2 DEF b, S
<1>4. c \in Screens(w)
  <2>1. c = [rows |-> c.rows, row |-> 1, col |-> 0, wrap |-> FALSE, w |-> w]
    BY DEF Cleared
  <2>2. c \in Frames(w)
    <3>1. c.rows \in Seq(Row(w)) /\ 1 \in Nat /\ 0 \in Nat /\ FALSE \in BOOLEAN /\ w \in {w}
      BY <1>3
    <3>. HIDE DEF c
    <3> QED
      <4>. DEFINE rs == c.rows
      <4>1. c = [rows |-> rs, row |-> 1, col |-> 0, wrap |-> FALSE, w |-> w] /\ rs \in Seq(Row(w))
        BY <2>1, <3>1
      <4>. HIDE DEF rs
      <4>2. [rows |-> rs, row |-> 1, col |-> 0, wrap |-> FALSE, w |-> w] \in Frames(w)
        BY <4>1 DEF Frames
      <4> QED
        BY <4>1, <4>2
  <2>. HIDE DEF c
  <2>3. w > 0
    OBVIOUS
  <2> QED
    <3>1. c.row > 0 /\ c.row <= Len(c.rows) /\ c.col < w /\ (c.wrap => c.col = w - 1)
      BY <1>1, <1>3, <2>3
    <3>2. w \in Nat
      OBVIOUS
    <3> QED
      BY ONLY <2>2, <2>3, <3>1, <3>2, ScreenMade
<1>5. ASSUME NEW q \in Nat \ {0} PROVE RowOf(c, q) = BlankRow(w)
  <2>. HIDE DEF c
  <2>1. CASE q = 1
    BY <1>1, <1>3, <2>1 DEF RowOf
  <2>2. CASE q # 1
    <3>1. ~(q <= Len(c.rows))
      BY <1>3, <2>2
    <3> QED
      BY <1>1, <3>1 DEF RowOf
  <2> QED
    BY <2>1, <2>2
<1> QED
  BY <1>1, <1>4, <1>5 DEF Fresh

\* So does a terminal that was cleared before.
LEMMA ClearsAll ==
    ASSUME NEW w \in Nat, w >= 3, NEW n, n.cols = w, NEW pc \in Nat, pc = ColumnPos(Prompt),
           Covers(w, n.maxrows, n.oldcolpos)
    PROVE  Like(w, Written(Cleared(w), Clear(n, pc)), Cleared(w))
<1>. DEFINE s == Cleared(w)
            t == Written(s, Clear(n, pc))
<1>1. /\ s \in Screens(w) /\ s.row = 1 /\ s.col = 0 /\ ~s.wrap
      /\ \A q \in Nat \ {0} : RowOf(s, q) = BlankRow(w)
  BY ClearedIs DEF Fresh
<1>. HIDE DEF s
<1>2. \E R : Wiped(w, s, t, 1, R)
  BY <1>1, ClearIs
<1>3. t \in Screens(w) /\ t.row = 1 /\ t.col = 0 /\ ~t.wrap
      /\ \A q \in Nat \ {0} : RowOf(t, q) = BlankRow(w)
  BY <1>1, <1>2 DEF Wiped
<1>4. t.wrap = s.wrap
  <2>1. w > 0
    OBVIOUS
  <2>2. t.wrap \in BOOLEAN /\ s.wrap \in BOOLEAN
    BY <1>1, <1>3, <2>1, ScreenFacts
  <2> QED
    BY <1>1, <1>3, <2>2
<1> QED
  BY <1>1, <1>3, <1>4 DEF Like, s

\* One byte.
LEMMA OneByte ==
    /\ Whole(<<62>>) /\ Len(<<62>>) = 1
    /\ \E cp \in Int : Text(<<62>>) = <<<<"put", cp>>>>
<1>. DEFINE t == <<62>>
<1>1. t \in Seq(Byte) /\ Len(t) = 1 /\ t[1] = 62
  BY DEF Byte
<1>2. Size(62) = 1 /\ 62 \in Leads /\ 62 \notin Follows
  BY DEF Size, Leads, Follows
<1>3. Whole(t)
  <2>. HIDE DEF t
  <2> QED
    BY <1>1, <1>2 DEF Whole, Begins
<1>4. Between(t, 0) /\ CharLen(t, 0) = 1
  <2>. HIDE DEF t
  <2>1. Between(t, 0)
    BY <1>3, EndsBetween
  <2> QED
    BY <1>1, <1>2, <1>3, <2>1, CharLenIs
<1>5. Rest(t) = <<>> /\ Cp(t, 0) \in Int
  <2>. HIDE DEF t
  <2>1. Len(Rest(t)) = 0 /\ Rest(t) \in Seq(Byte)
    BY <1>1, <1>4 DEF Rest
  <2>2. Rest(t) = <<>>
    <3>. HIDE DEF Rest
    <3> QED
      BY <2>1
  <2>3. Cp(t, 0) \in Int
    BY <1>1, <1>3, <1>4, CpType
  <2> QED
    BY <2>2, <2>3
<1>6. Text(t) = <<<<"put", Cp(t, 0)>>>> \o <<>>
  <2>. HIDE DEF t
  <2>1. Len(t) > 0
    BY <1>1
  <2>2. Text(<<>>) = <<>> /\ Text(t) = <<<<"put", Cp(t, 0)>>>> \o Text(Rest(t))
    BY ONLY <1>3, <2>1, TextIs
  <2>3. Text(Rest(t)) = <<>>
    BY <1>5, <2>2
  <2> QED
    BY <2>2, <2>3
<1>7. Text(t) = <<<<"put", Cp(t, 0)>>>>
  <2>. DEFINE p == <<"put", Cp(t, 0)>>
  <2>1. Text(t) = <<p>> \o <<>>
    BY <1>6
  <2>. HIDE DEF p
  <2>2. <<p>> \o <<>> = <<p>>
    OBVIOUS
  <2> QED
    BY <2>1, <2>2 DEF p
<1> QED
  BY <1>1, <1>3, <1>5, <1>7

\* The prompt is written on a row of its own.
LEMMA FirstRowIs ==
    ASSUME NEW w \in Nat, w >= 3
    PROVE  Fresh(w, FirstRow(w)) /\ FirstRow(w).row = 2
<1>. DEFINE c == Cleared(w)
<1>w. w > 0 /\ w \in Nat /\ w >= 3
  OBVIOUS
<1>1. /\ c \in Screens(w) /\ c.row = 1 /\ c.col = 0 /\ ~c.wrap
      /\ \A q \in Nat \ {0} : RowOf(c, q) = BlankRow(w)
  BY ClearedIs DEF Fresh
<1>2. PICK cp \in Int : Text(<<62>>) = <<<<"put", cp>>>>
  BY OneByte
<1>. DEFINE p == <<"put", cp>>
            s == Obey(c, p)
            k == Width(cp)
<1>3. k \in 0 .. 2
  BY WidthIs
<1>4. s.row = 1 /\ ~s.wrap
  <2>1. c.col + k < w
    <3>. HIDE DEF c, k
    <3> QED
      BY <1>1, <1>3
  <2>. HIDE DEF c, k
  <2>2. s = Obey(c, <<"put", cp>>) /\ k = Width(cp)
    BY DEF k
  <2>. HIDE DEF s
  <2> QED
    BY <1>w, <1>1, <2>1, <2>2, PutFits
<1>5. Onward(w, c, s)
  <2>1. s = Obey(c, <<"put", cp>>) /\ k = Width(cp)
    OBVIOUS
  <2>2. 1 \in Nat /\ cp \in Int
    OBVIOUS
  <2>. HIDE DEF c, s, k
  <2> QED
    BY ONLY <1>w, <1>1, <2>1, <2>2, PutMoves
<1>6. s \in Screens(w) /\ \A q \in Nat \ {0} : q > 1 => RowOf(s, q) = BlankRow(w)
  <2>. HIDE DEF c, s
  <2>1. Below(w, c)
    BY <1>1 DEF Below
  <2> QED
    BY <1>4, <1>5, <2>1 DEF Onward, Below
<1>7. FirstRow(w) = NewLine(s)
  <2>1. p \in Commands /\ Feed \in Commands
    <3>1. p \in Puts
      BY DEF Puts
    <3>. HIDE DEF p
    <3> QED
      BY <3>1, CommandTypes DEF Commands
  <2>2. FirstRow(w) = Written(c, <<p>> \o <<Feed>>)
    BY <1>2 DEF FirstRow
  <2>. HIDE DEF c, p
  <2>3. <<p>> \in Seq(Commands) /\ <<Feed>> \in Seq(Commands)
    <3>. HIDE DEF Commands, Feed
    <3> QED
      BY <2>1
  <2>4. Written(c, <<p>> \o <<Feed>>) = Written(Written(c, <<p>>), <<Feed>>)
    <3>. DEFINE x == <<p>>
                y == <<Feed>>
    <3>1. x \in Seq(Commands) /\ y \in Seq(Commands)
      BY <2>3
    <3>. HIDE DEF x, y
    <3>2. Written(c, x \o y) = Written(Written(c, x), y)
      BY ONLY <1>w, <1>1, <3>1, Then
    <3> QED
      BY <3>2 DEF x, y
  <2>5. Written(c, <<p>>) = Obey(c, p)
    BY <1>w, <1>1, <2>1, Writes
  <2>6. Written(s, <<Feed>>) = NewLine(s)
    <3>. HIDE DEF s
    <3> QED
      BY <1>w, <1>6, <2>1, Writes, ObeyIs
  <2> QED
    BY <2>2, <2>4, <2>5, <2>6
<1>8. LET f == FirstRow(w)
      IN  f \in Screens(w) /\ f.row = 2 /\ f.col = 0 /\ ~f.wrap
          /\ \A q \in Nat \ {0} : RowOf(f, q) = RowOf(s, q)
  <2>. DEFINE f == FirstRow(w)
  <2>. HIDE DEF s, f
  <2>1. f = NewLine(s)
    BY <1>7 DEF f
  <2>2. f \in Screens(w) /\ f.row = s.row + 1 /\ f.col = 0 /\ ~f.wrap
        /\ \A q \in Nat \ {0} : RowOf(f, q) = RowOf(s, q)
    BY ONLY <1>w, <1>6, <2>1, FeedIs
  <2>3. f \in Screens(w) /\ f.row = 2 /\ f.col = 0 /\ ~f.wrap
        /\ \A q \in Nat \ {0} : RowOf(f, q) = RowOf(s, q)
    BY <1>4, <2>2
  <2> QED
    BY <2>3 DEF f
<1> QED
  <2>. DEFINE f == FirstRow(w)
  <2>1. /\ f \in Screens(w) /\ f.row = 2 /\ f.col = 0 /\ ~f.wrap
        /\ \A q \in Nat \ {0} : RowOf(f, q) = RowOf(s, q)
    BY <1>8
  <2>. HIDE DEF s, f
  <2>2. \A q \in Nat \ {0} : q >= f.row => RowOf(f, q) = BlankRow(w)
    BY <1>6, <2>1
  <2>3. Fresh(w, f) /\ f.row = 2
    BY <2>1, <2>2 DEF Fresh
  <2> QED
    BY <2>3 DEF f

\* The prompt alone.
LEMMA PromptReady ==
    ASSUME NEW w \in Nat, w >= 3, Whole(Prompt), ColumnPos(Prompt) > 0, ColumnPos(Prompt) < w,
           NEW base, Fresh(w, base), NEW s, s = Written(base, Text(Prompt))
    PROVE  Ready(w, base, s, 0, 0) /\ Shows(w, base, s, <<>>, 0)
<1>. DEFINE pc == ColumnPos(Prompt)
<1>w. w > 0 /\ w \in Nat /\ w >= 3
  OBVIOUS
<1>1. base \in Screens(w) /\ base.col = 0 /\ ~base.wrap /\ Below(w, base)
      /\ base.row \in Nat \ {0}
  <2>1. base \in Screens(w) /\ base.col = 0 /\ ~base.wrap
    BY DEF Fresh
  <2>2. base.row \in Nat \ {0}
    BY <1>w, <2>1, ScreenFacts
  <2>3. Below(w, base)
    BY <2>2 DEF Fresh, Below
  <2> QED
    BY <2>1, <2>2, <2>3
<1>2. Onward(w, base, s) /\ s.row = base.row /\ s.col = pc /\ ~s.wrap /\ pc \in Nat
  BY <1>1, PromptShown
<1>3. pc \div w = 0 /\ pc % w = pc
  <2>. HIDE DEF pc
  <2>1. pc \in Nat /\ pc < w
    BY <1>2 DEF pc
  <2>2. pc \in 0 .. w - 1 /\ pc = 0 * w + pc /\ 0 \in Nat
    BY <2>1
  <2>3. pc \div w = 0 /\ pc % w = pc
    BY ONLY <1>w, <2>2, DivIs
  <2> QED
    BY <2>3 DEF pc
<1>4. s \in Screens(w) /\ Below(w, s) /\ \A q \in Nat \ {0} : q < base.row => RowOf(s, q) = RowOf(base, q)
  BY <1>1, <1>2 DEF Onward
<1>5. Ready(w, base, s, 0, 0)
  <2>1. pc + 0 = pc
    BY <1>2
  <2>2. ASSUME NEW q \in Nat \ {0}, q >= base.row + 1 PROVE RowOf(s, q) = BlankRow(w)
    <3>1. q > s.row
      BY <1>1, <1>2, <2>2
    <3> QED
      BY <1>4, <3>1 DEF Below
  <2>3. (IF 0 > 1 THEN 0 ELSE 1) = 1
    OBVIOUS
  <2>4. base.row + 0 = base.row
    BY <1>1
  <2> QED
    BY <1>1, <1>2, <1>3, <1>4, <2>1, <2>2, <2>3, <2>4 DEF Ready
<1>6. Shows(w, base, s, <<>>, 0)
  <2>1. Prompt \o <<>> = Prompt /\ Prompt \o SubSeq(<<>>, 1, 0) = Prompt
    <3>1. Prompt \in Seq(Byte)
      BY WholeFacts
    <3>2. SubSeq(<<>>, 1, 0) = <<>>
      OBVIOUS
    <3> QED
      BY <3>1, <3>2
  <2>2. Spot(w, s, <<>>, 0) = <<s.row, s.col>>
    BY <1>2 DEF Spot
  <2> QED
    BY <2>1, <2>2 DEF Shows
<1> QED
  BY <1>5, <1>6
=============================================================================
