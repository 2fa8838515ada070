--------------------------- MODULE SseFramingProofs ---------------------------
(***************************************************************************)
(* Theorems about SseFraming, for any streams and number of reads.  The    *)
(* parser does not notice where reads end, as long as none ends inside a   *)
(* line end: what it has emitted and what it holds back are what it would  *)
(* have if all there was to read had come at once (CutsUnseenHolds).  What *)
(* it emits are then the events a byte-by-byte reader takes from the       *)
(* stream (EventsFaithfulHolds), and wherever reads end, the batched reply *)
(* carries those events if they end at frame ends (BatchedReplyHolds) and  *)
(* the usage record counts no object that is not in the stream             *)
(* (UsageAccountedHolds).                                                  *)
(***************************************************************************)
EXTENDS SseFraming, SequenceTheorems, WellFoundedInduction, TLAPS

-----------------------------------------------------------------------------
(* Natural numbers                                                         *)

\* Of some natural numbers one is the least.
LEMMA LeastExists ==
  ASSUME NEW T \in SUBSET Nat, T # {}
  PROVE  \E x \in T : \A y \in T : x <= y
<1>1. \E x \in T : \A y \in T : ~ (<<y, x>> \in OpToRel(<, Nat))
  BY NatLessThanWellFounded, WFMin
<1>2. \A x, y \in T : y < x => <<y, x>> \in OpToRel(<, Nat)
  BY DEF OpToRel
<1>3. PICK x \in T : \A y \in T : ~ (<<y, x>> \in OpToRel(<, Nat))
  BY <1>1
<1>4. \A y \in T : ~ (y < x)
  BY <1>2, <1>3
<1>5. \A y \in T : x <= y
  BY <1>4
<1>6. QED
  BY <1>5

\* What 0 has and each number passes on to the next, all have.
LEMMA AllUpTo ==
  ASSUME NEW n \in Nat, NEW T, 0 \in T, \A i \in 1..n : i - 1 \in T => i \in T
  PROVE  \A i \in 0..n : i \in T
<1> DEFINE Wrong == {i \in 0..n : i \notin T}
<1>1. SUFFICES ASSUME Wrong # {} PROVE FALSE
  OBVIOUS
<1>2. PICK least \in Wrong : \A i \in Wrong : least <= i
  <2>1. Wrong \in SUBSET Nat
    OBVIOUS
  <2>2. QED
    BY <1>1, <2>1, LeastExists
<1>3. least \in 1..n /\ least - 1 \in 0..n /\ ~ (least <= least - 1)
  BY <1>2
<1>4. least - 1 \in T
  BY <1>2, <1>3
<1>5. QED
  BY <1>2, <1>3, <1>4

-----------------------------------------------------------------------------
(* Line ends                                                               *)

\* The "cr" of a line end
IsCr(chunk, i) == chunk[i] = "cr" /\ i < Len(chunk) /\ chunk[i + 1] = "lf"

\* One more byte
Next1(kept, chunk, i) == IF IsCr(chunk, i) THEN kept ELSE kept \o <<chunk[i]>>

\* What is kept of the first bytes, for each number of them
IsKept(chunk, kept) ==
  kept = [i \in 0..Len(chunk) |-> IF i = 0 THEN <<>> ELSE Next1(kept[i - 1], chunk, i)]

Kept(chunk) == CHOOSE kept : IsKept(chunk, kept)

\* The bytes are gone through to the end.
LEMMA KeptRuns ==
  ASSUME NEW chunk, Len(chunk) \in Nat
  PROVE  /\ IsKept(chunk, Kept(chunk))
         /\ Normalise(chunk) = Kept(chunk)[Len(chunk)]
<1> DEFINE n == Len(chunk)
           IsRun(k, f) == f = [i \in 0..k |-> IF i = 0 THEN <<>> ELSE Next1(f[i - 1], chunk, i)]
           Runs == {k \in 0..n : \E f : IsRun(k, f)}
<1>1. 0 \in Runs
  <2> DEFINE f == [i \in 0..0 |-> <<>>]
  <2>1. IsRun(0, f)
    OBVIOUS
  <2> HIDE DEF f, IsRun
  <2>2. QED
    BY <2>1
<1>2. ASSUME NEW k \in 1..n, k - 1 \in Runs PROVE k \in Runs
  <2>1. PICK f : IsRun(k - 1, f)
    BY <1>2
  <2> DEFINE g == [i \in 0..k |-> IF i = k THEN Next1(f[k - 1], chunk, k) ELSE f[i]]
  <2>2. \A i \in 0..(k - 1) : g[i] = f[i]
    OBVIOUS
  <2>3. \A i \in 0..k : g[i] = IF i = 0 THEN <<>> ELSE Next1(g[i - 1], chunk, i)
    <3> SUFFICES ASSUME NEW i \in 0..k
                 PROVE  g[i] = IF i = 0 THEN <<>> ELSE Next1(g[i - 1], chunk, i)
      OBVIOUS
    <3>1. CASE i = k
      <4>1. g[i] = Next1(f[k - 1], chunk, k) /\ g[i - 1] = f[k - 1] /\ i # 0
        BY <2>2, <3>1
      <4>2. QED
        BY <3>1, <4>1
    <3>2. CASE i # k
      <4>1. i \in 0..(k - 1) /\ (i # 0 => i - 1 \in 0..(k - 1))
        BY <3>2
      <4>2. f[i] = IF i = 0 THEN <<>> ELSE Next1(f[i - 1], chunk, i)
        BY <2>1, <4>1
      <4>3. g[i] = f[i] /\ (i # 0 => g[i - 1] = f[i - 1])
        BY <2>2, <4>1
      <4>4. QED
        BY <4>2, <4>3
    <3>3. QED
      BY <3>1, <3>2
  <2>4. IsRun(k, g)
    BY <2>3
  <2> HIDE DEF g, IsRun
  <2>5. QED
    BY <2>4
<1>3. n \in Runs
  <2> HIDE DEF Runs
  <2>1. \A i \in 0..n : i \in Runs
    BY <1>1, <1>2, AllUpTo
  <2>2. QED
    BY <2>1
<1>4. \E kept : IsKept(chunk, kept)
  BY <1>3 DEF IsKept
<1>5. IsKept(chunk, Kept(chunk))
  BY <1>4 DEF Kept
<1>6. Normalise(chunk) = Kept(chunk)[Len(chunk)]
  BY Zenon DEF Normalise, Kept, IsKept, Next1, IsCr
<1>7. QED
  BY <1>5, <1>6

LEMMA KeptIs ==
  ASSUME NEW s \in Seq(Bytes)
  PROVE  /\ Kept(s)[0] = <<>> /\ Normalise(s) = Kept(s)[Len(s)]
         /\ \A i \in 1..Len(s) : Kept(s)[i] = Next1(Kept(s)[i - 1], s, i)
         /\ \A i \in 0..Len(s) : Kept(s)[i] \in Seq(Bytes)
<1> DEFINE n == Len(s)  kept == Kept(s)  T == {i \in 0..n : kept[i] \in Seq(Bytes)}
<1>1. n \in Nat /\ \A i \in 1..n : s[i] \in Bytes
  OBVIOUS
<1>2. IsKept(s, kept) /\ Normalise(s) = kept[n]
  BY <1>1, KeptRuns
<1> HIDE DEF kept
<1>3. kept[0] = <<>> /\ \A i \in 1..n : kept[i] = Next1(kept[i - 1], s, i)
  BY <1>1, <1>2 DEF IsKept
<1>4. \A i \in 0..n : i \in T
  <2>1. 0 \in T
    <3>1. <<>> \in Seq(Bytes) /\ 0 \in 0..n
      BY <1>1
    <3>2. QED
      BY <1>3, <3>1
  <2>2. ASSUME NEW i \in 1..n, i - 1 \in T PROVE i \in T
    <3> DEFINE k == kept[i - 1]
    <3>1. k \in Seq(Bytes) /\ s[i] \in Bytes /\ kept[i] = Next1(k, s, i)
      BY <1>1, <1>3, <2>2
    <3> HIDE DEF k
    <3>2. Next1(k, s, i) \in Seq(Bytes)
      <4>1. <<s[i]>> \in Seq(Bytes)
        BY <3>1
      <4>2. k \o <<s[i]>> \in Seq(Bytes)
        BY <3>1, <4>1, ConcatProperties
      <4>3. QED
        BY <3>1, <4>2 DEF Next1
    <3>3. QED
      BY <1>1, <3>1, <3>2
  <2> HIDE DEF T
  <2>3. QED
    BY <1>1, <2>1, <2>2, AllUpTo
<1>5. QED
  BY <1>1, <1>2, <1>3, <1>4 DEF kept

LEMMA JoinOne ==
  ASSUME NEW p, p \in Seq(Bytes), NEW q, q \in Seq(Bytes), NEW v, v \in Bytes
  PROVE  (p \o q) \o <<v>> = p \o (q \o <<v>>)
<1> DEFINE one == <<v>>
<1>1. one \in Seq(Bytes)
  OBVIOUS
<1> HIDE DEF one
<1>2. (p \o q) \o one = p \o (q \o one)
  BY <1>1, ConcatAssociative
<1>3. QED
  BY <1>2 DEF one

\* Two parts that do not meet inside a line end can be replaced one by one.
LEMMA NormaliseJoins ==
  ASSUME NEW a \in Seq(Bytes), NEW b \in Seq(Bytes), Len(a) > 0 => a[Len(a)] # "cr"
  PROVE  Normalise(a \o b) = Normalise(a) \o Normalise(b)
<1> DEFINE m == Len(a)  n == Len(b)  c == a \o b
           ka == Kept(a)  kb == Kept(b)  kc == Kept(c)
           TA == {i \in 0..m : kc[i] = ka[i]}
           TB == {i \in 0..n : kc[m + i] = ka[m] \o kb[i]}
<1>1. m \in Nat /\ n \in Nat
  OBVIOUS
<1>2. /\ c \in Seq(Bytes) /\ Len(c) = m + n
      /\ \A i \in 1..m : c[i] = a[i]
      /\ \A i \in 1..n : c[m + i] = b[i]
  <2>1. \A i \in 1..Len(c) : c[i] = IF i <= m THEN a[i] ELSE b[i - m]
    BY ConcatProperties
  <2>2. c \in Seq(Bytes) /\ Len(c) = m + n
    BY ConcatProperties
  <2> HIDE DEF c
  <2>3. \A i \in 1..m : c[i] = a[i]
    BY <1>1, <2>1, <2>2
  <2>4. ASSUME NEW i \in 1..n PROVE c[m + i] = b[i]
    <3>1. m + i \in 1..(m + n) /\ ~ (m + i <= m) /\ (m + i) - m = i
      BY <1>1
    <3>2. QED
      BY <2>1, <2>2, <3>1
  <2>5. QED
    BY <2>2, <2>3, <2>4
<1> HIDE DEF c
<1>3. /\ ka[0] = <<>> /\ Normalise(a) = ka[m]
      /\ \A i \in 1..m : ka[i] = Next1(ka[i - 1], a, i)
      /\ \A i \in 0..m : ka[i] \in Seq(Bytes)
  BY KeptIs
<1>4. /\ kb[0] = <<>> /\ Normalise(b) = kb[n]
      /\ \A i \in 1..n : kb[i] = Next1(kb[i - 1], b, i)
      /\ \A i \in 0..n : kb[i] \in Seq(Bytes)
  BY KeptIs
<1>5. /\ kc[0] = <<>> /\ Normalise(c) = kc[m + n]
      /\ \A i \in 1..(m + n) : kc[i] = Next1(kc[i - 1], c, i)
  BY <1>2, KeptIs
<1> HIDE DEF ka, kb, kc
<1>6. \A i \in 0..m : i \in TA
  <2>1. 0 \in TA
    BY <1>1, <1>3, <1>5
  <2>2. ASSUME NEW i \in 1..m, i - 1 \in TA PROVE i \in TA
    <3>1. i \in 1..(m + n) /\ kc[i - 1] = ka[i - 1]
      BY <1>1, <2>2
    <3>2. IsCr(c, i) <=> IsCr(a, i)
      <4>1. CASE i < m
        <5>1. i + 1 \in 1..m /\ i < m + n
          BY <1>1, <4>1
        <5>2. c[i] = a[i] /\ c[i + 1] = a[i + 1] /\ i < Len(c)
          BY <1>2, <5>1
        <5>3. QED
          BY <4>1, <5>2 DEF IsCr
      <4>2. CASE i = m
        <5>1. a[i] # "cr" /\ c[i] = a[i]
          BY <1>1, <1>2, <4>2
        <5>2. QED
          BY <5>1 DEF IsCr
      <4>3. QED
        BY <1>1, <4>1, <4>2
    <3>3. Next1(kc[i - 1], c, i) = Next1(ka[i - 1], a, i)
      BY <1>2, <3>1, <3>2 DEF Next1
    <3>4. QED
      BY <1>3, <1>5, <3>1, <3>3
  <2> HIDE DEF TA
  <2>3. QED
    BY <1>1, <2>1, <2>2, AllUpTo
<1>7. kc[m] = ka[m] /\ ka[m] \in Seq(Bytes)
  BY <1>1, <1>3, <1>6
<1>8. \A i \in 0..n : kc[m + i] = ka[m] \o kb[i]
  <2>1. 0 \in TB
    <3>1. ka[m] \o <<>> = ka[m] /\ m + 0 = m /\ 0 \in 0..n
      BY <1>1, <1>7
    <3>2. kc[m + 0] = ka[m] \o kb[0]
      BY <1>4, <1>7, <3>1
    <3>3. QED
      BY <3>1, <3>2
  <2>2. ASSUME NEW i \in 1..n, i - 1 \in TB PROVE i \in TB
    <3>0. PICK left, right, v : left = ka[m] /\ right = kb[i - 1] /\ v = b[i]
      OBVIOUS
    <3>1. m + i \in 1..(m + n) /\ kc[(m + i) - 1] = left \o right
      <4>1. m + i \in 1..(m + n) /\ (m + i) - 1 = m + (i - 1)
        BY <1>1
      <4>2. QED
        BY <2>2, <3>0, <4>1
    <3>2. IsCr(c, m + i) <=> IsCr(b, i)
      <4>1. c[m + i] = b[i]
        BY <1>2
      <4>2. CASE i < n
        <5>1. m + i < Len(c) /\ (m + i) + 1 = m + (i + 1) /\ i + 1 \in 1..n
          BY <1>1, <1>2, <4>2
        <5>2. c[(m + i) + 1] = b[i + 1]
          BY <1>2, <5>1
        <5>3. QED
          BY <4>1, <4>2, <5>1, <5>2 DEF IsCr
      <4>3. CASE i = n
        <5>1. ~ (m + i < Len(c)) /\ ~ (i < n)
          BY <1>1, <1>2, <4>3
        <5>2. QED
          BY <5>1 DEF IsCr
      <4>4. QED
        BY <1>1, <4>2, <4>3
    <3>3. right \in Seq(Bytes) /\ left \in Seq(Bytes) /\ v \in Bytes
      BY <1>1, <1>4, <1>7, <3>0
    <3>4. Next1(left \o right, c, m + i) = left \o Next1(right, b, i)
      <4>1. c[m + i] = v
        BY <1>2, <3>0
      <4>2. (left \o right) \o <<v>> = left \o (right \o <<v>>)
        <5>1. left \in Seq(Bytes)
          BY <3>3
        <5>2. right \in Seq(Bytes)
          BY <3>3
        <5>3. v \in Bytes
          BY <3>3
        <5> HIDE DEF m, n, TA, TB
        <5>4. (left \o right) \o <<v>> = left \o (right \o <<v>>)
          BY <5>1, <5>2, <5>3, JoinOne, SMT
        <5>5. QED
          BY <5>4
      <4>3. QED
        BY <3>0, <3>2, <4>1, <4>2 DEF Next1
    <3>5. kc[m + i] = left \o kb[i]
      BY <1>4, <1>5, <3>0, <3>1, <3>4
    <3>6. i \in 0..n
      BY <1>1
    <3>7. QED
      BY <3>0, <3>5, <3>6
  <2>3. \A i \in 0..n : i \in TB
    <3> HIDE DEF TB
    <3>1. QED
      BY <1>1, <2>1, <2>2, AllUpTo
  <2>4. QED
    BY <2>3
<1>9. kc[m + n] = ka[m] \o kb[n]
  <2>1. n \in 0..n
    BY <1>1
  <2> HIDE DEF m, n
  <2>2. QED
    BY <1>8, <2>1
<1>10. QED
  BY <1>3, <1>4, <1>5, <1>9 DEF c

-----------------------------------------------------------------------------
(* The loop of drain                                                       *)

Blank(s) == {i \in 1..(Len(s) - 1) : s[i] = "lf" /\ s[i + 1] = "lf"}

\* What follows the first blank line
After(s) == SubSeq(s, Min(Blank(s)) + 2, Len(s))

\* One turn of the loop, what is left being drained by rest
Turn(s, rest) ==
  IF Blank(s) = {} THEN [events |-> <<>>, rest |-> s]
  ELSE [events |-> sseEventPayload(SubSeq(s, 1, Min(Blank(s)) - 1)) \o rest[After(s)].events,
        rest   |-> rest[After(s)].rest]

IsDrain(g) == g = [s \in Seq(Bytes) |-> Turn(s, g)]

\* The first blank line is one, and less follows it than there was.
LEMMA AfterIs ==
  ASSUME NEW s, s \in Seq(Bytes), Blank(s) # {}
  PROVE  /\ Min(Blank(s)) \in Blank(s) /\ \A i \in Blank(s) : Min(Blank(s)) <= i
         /\ Min(Blank(s)) \in 1..(Len(s) - 1)
         /\ After(s) \in Seq(Bytes) /\ Len(After(s)) = Len(s) - (Min(Blank(s)) + 1)
         /\ \A i \in 1..Len(After(s)) : After(s)[i] = s[Min(Blank(s)) + 1 + i]
<1> DEFINE blank == Blank(s)  end == Min(blank)
<1>1. Len(s) \in Nat /\ \A i \in 1..Len(s) : s[i] \in Bytes
  OBVIOUS
<1>2. blank \in SUBSET Nat /\ blank \in SUBSET (1..(Len(s) - 1))
  BY <1>1 DEF Blank
<1> HIDE DEF blank
<1>3. blank # {}
  BY DEF blank
<1>4. \E i \in blank : \A j \in blank : i <= j
  BY <1>2, <1>3, LeastExists
<1>5. end \in blank /\ \A i \in blank : end <= i
  BY <1>4, Zenon DEF Min
<1> HIDE DEF end
<1>6. end \in Int /\ end + 2 \in Int /\ end + 2 <= Len(s) + 1 /\ end >= 1
  BY <1>1, <1>2, <1>5
<1> DEFINE after == SubSeq(s, end + 2, Len(s))
<1>7. /\ after \in Seq(Bytes)
      /\ Len(after) = IF end + 2 <= Len(s) THEN Len(s) - (end + 2) + 1 ELSE 0
      /\ \A i \in 1..(Len(s) - (end + 2) + 1) : after[i] = s[(end + 2) + i - 1]
  <2>1. \A i \in (end + 2)..Len(s) : s[i] \in Bytes
    BY <1>1, <1>6
  <2>2. QED
    BY <1>1, <1>6, <2>1, SubSeqProperties
<1> HIDE DEF after
<1>8. Len(after) = Len(s) - (end + 1)
  BY <1>1, <1>6, <1>7
<1>9. \A i \in 1..Len(after) : after[i] = s[end + 1 + i]
  <2> SUFFICES ASSUME NEW i \in 1..Len(after) PROVE after[i] = s[end + 1 + i]
    OBVIOUS
  <2>1. i \in 1..(Len(s) - (end + 2) + 1) /\ (end + 2) + i - 1 = end + 1 + i
    BY <1>1, <1>6, <1>8
  <2>2. QED
    BY <1>7, <2>1
<1>10. after = After(s)
  BY DEF after, end, blank, After
<1>11. QED
  BY <1>2, <1>5, <1>7, <1>8, <1>9, <1>10 DEF end, blank

\* The strings of some length at most
Upto(n) == {s \in Seq(Bytes) : Len(s) <= n}

\* The loop over those
IsPart(n, g) == g = [s \in Upto(n) |-> Turn(s, g)]

LEMMA AfterIsShorter ==
  ASSUME NEW k \in Nat, NEW s \in Upto(k), Blank(s) # {}
  PROVE  k > 0 /\ After(s) \in Upto(k - 1) /\ After(s) \in Upto(Len(s) - 1)
<1>1. s \in Seq(Bytes) /\ Len(s) <= k /\ Len(s) \in Nat
  BY DEF Upto
<1>2. /\ Min(Blank(s)) \in 1..(Len(s) - 1)
      /\ After(s) \in Seq(Bytes) /\ Len(After(s)) = Len(s) - (Min(Blank(s)) + 1)
  BY <1>1, AfterIs
<1>3. Len(After(s)) <= k - 1 /\ k > 0 /\ Len(After(s)) <= Len(s) - 1
  BY <1>1, <1>2
<1>4. QED
  BY <1>2, <1>3 DEF Upto

\* A turn asks for nothing but what follows the first blank line.
LEMMA TurnIs ==
  ASSUME NEW s, NEW g, NEW h, Blank(s) # {} => g[After(s)] = h[After(s)]
  PROVE  Turn(s, g) = Turn(s, h)
BY DEF Turn

LEMMA PartsExist == \A n \in Nat : \E g : IsPart(n, g)
<1> SUFFICES ASSUME NEW n \in Nat PROVE \E g : IsPart(n, g)
  OBVIOUS
<1> DEFINE T == {k \in 0..n : \E g : IsPart(k, g)}
<1>1. 0 \in T
  <2> DEFINE g == [s \in Upto(0) |-> Turn(s, <<>>)]
  <2>1. \A s \in Upto(0) : Blank(s) = {}
    BY AfterIsShorter
  <2>2. \A s \in Upto(0) : Turn(s, <<>>) = Turn(s, g)
    <3> HIDE DEF g
    <3>1. QED
      BY <2>1, TurnIs
  <2>3. IsPart(0, g)
    BY <2>2 DEF IsPart
  <2> HIDE DEF g
  <2>4. QED
    BY <2>3
<1>2. ASSUME NEW k \in 1..n, k - 1 \in T PROVE k \in T
  <2>1. PICK g : IsPart(k - 1, g)
    BY <1>2
  <2> DEFINE h == [s \in Upto(k) |-> Turn(s, g)]
  <2>2. \A s \in Upto(k - 1) : g[s] = Turn(s, g)
    BY <2>1 DEF IsPart
  <2>3. \A s \in Upto(k - 1) : s \in Upto(k)
    BY DEF Upto
  <2>4. \A s \in Upto(k - 1) : h[s] = g[s]
    BY <2>2, <2>3
  <2>5. \A s \in Upto(k) : Turn(s, g) = Turn(s, h)
    <3> HIDE DEF h
    <3> SUFFICES ASSUME NEW s, s \in Upto(k) PROVE Turn(s, g) = Turn(s, h)
      OBVIOUS
    <3>1. Blank(s) # {} => After(s) \in Upto(k - 1)
      BY AfterIsShorter
    <3>2. QED
      BY <2>4, <3>1, TurnIs
  <2>6. IsPart(k, h)
    BY <2>5 DEF IsPart
  <2> HIDE DEF h
  <2>7. QED
    BY <2>6
<1>3. \A k \in 0..n : k \in T
  <2> HIDE DEF T
  <2>1. QED
    BY <1>1, <1>2, AllUpTo
<1>4. QED
  BY <1>3

LEMMA PartsAgree ==
  ASSUME NEW m \in Nat, NEW n \in Nat, m <= n, NEW g, NEW h, IsPart(m, g), IsPart(n, h)
  PROVE  \A s \in Upto(m) : g[s] = h[s]
<1> DEFINE T == {k \in 0..m : \A s \in Upto(k) : g[s] = h[s]}
<1>1. ASSUME NEW k \in 0..m, NEW s, s \in Upto(k), k > 0 => \A t \in Upto(k - 1) : g[t] = h[t]
      PROVE  g[s] = h[s]
  <2>1. s \in Upto(m) /\ s \in Upto(n)
    <3>1. s \in Seq(Bytes) /\ Len(s) <= k /\ Len(s) \in Nat
      BY <1>1 DEF Upto
    <3>2. Len(s) <= m /\ Len(s) <= n
      BY <3>1
    <3>3. QED
      BY <3>1, <3>2 DEF Upto
  <2>2. g[s] = Turn(s, g) /\ h[s] = Turn(s, h)
    BY <2>1 DEF IsPart
  <2>3. Blank(s) # {} => g[After(s)] = h[After(s)]
    BY <1>1, AfterIsShorter
  <2>4. Turn(s, g) = Turn(s, h)
    BY <2>3, TurnIs
  <2>5. QED
    BY <2>2, <2>4
<1>2. 0 \in T
  BY <1>1
<1>3. ASSUME NEW k \in 1..m, k - 1 \in T PROVE k \in T
  <2>1. \A t \in Upto(k - 1) : g[t] = h[t]
    BY <1>3
  <2>2. \A s \in Upto(k) : g[s] = h[s]
    BY <1>1, <2>1
  <2>3. QED
    BY <2>2
<1>4. \A k \in 0..m : k \in T
  <2> HIDE DEF T
  <2>1. QED
    BY <1>2, <1>3, AllUpTo
<1>5. QED
  BY <1>4

\* Drain does what its loop says.
LEMMA DrainIs == \A s \in Seq(Bytes) : Drain[s] = Turn(s, Drain)
<1> DEFINE Part(n) == CHOOSE g : IsPart(n, g)
           D == [s \in Seq(Bytes) |-> Part(Len(s))[s]]
<1>1. \A n \in Nat : IsPart(n, Part(n))
  BY PartsExist
<1> HIDE DEF Part
<1>2. ASSUME NEW s, s \in Seq(Bytes) PROVE D[s] = Turn(s, D)
  <2>1. Len(s) \in Nat /\ s \in Upto(Len(s)) /\ D[s] = Part(Len(s))[s]
    BY <1>2 DEF Upto
  <2>2. Part(Len(s))[s] = Turn(s, Part(Len(s)))
    BY <1>1, <2>1 DEF IsPart
  <2>3. Blank(s) # {} => Part(Len(s))[After(s)] = D[After(s)]
    <3> SUFFICES ASSUME Blank(s) # {} PROVE Part(Len(s))[After(s)] = D[After(s)]
      OBVIOUS
    <3>1. After(s) \in Seq(Bytes) /\ Len(After(s)) <= Len(s) /\ Len(After(s)) \in Nat
      BY <2>1, AfterIsShorter DEF Upto
    <3>2. After(s) \in Upto(Len(After(s)))
      BY <3>1 DEF Upto
    <3>3. Part(Len(After(s)))[After(s)] = Part(Len(s))[After(s)]
      BY <1>1, <2>1, <3>1, <3>2, PartsAgree
    <3>4. D[After(s)] = Part(Len(After(s)))[After(s)]
      BY <3>1
    <3>5. QED
      BY <3>3, <3>4
  <2> HIDE DEF D
  <2>4. Turn(s, Part(Len(s))) = Turn(s, D)
    BY <2>3, TurnIs
  <2>5. QED
    BY <2>1, <2>2, <2>4
<1>3. IsDrain(D)
  BY <1>2 DEF IsDrain
<1> HIDE DEF D
<1>4. Drain = CHOOSE g : IsDrain(g)
  BY Zenon DEF Drain, IsDrain, Turn, Blank, After
<1>5. IsDrain(Drain)
  BY <1>3, <1>4
<1>6. QED
  BY <1>5 DEF IsDrain

\* Whatever a block carries
Payloads == {JoinLines(DataFields(b)) : b \in Seq(Bytes)}

LEMMA PayloadIs == \A b \in Seq(Bytes) : sseEventPayload(b) \in Seq(Payloads)
<1> SUFFICES ASSUME NEW b, b \in Seq(Bytes) PROVE sseEventPayload(b) \in Seq(Payloads)
  OBVIOUS
<1> DEFINE p == JoinLines(DataFields(b))
<1>1. sseEventPayload(b) = <<>> \/ sseEventPayload(b) = <<p>>
  BY DEF sseEventPayload
<1>2. p \in Payloads
  BY DEF Payloads
<1> HIDE DEF p
<1>3. <<>> \in Seq(Payloads)
  OBVIOUS
<1>4. <<p>> \in Seq(Payloads)
  BY <1>2
<1>5. QED
  BY <1>1, <1>3, <1>4, Zenon

\* What the loop gives and leaves
IsDrained(d) == d.events \in Seq(Payloads) /\ d.rest \in Seq(Bytes)

LEMMA DrainTyped == \A s \in Seq(Bytes) : IsDrained(Drain[s])
<1>1. ASSUME NEW k \in Nat, NEW s, s \in Upto(k), k > 0 => \A t \in Upto(k - 1) : IsDrained(Drain[t])
      PROVE  IsDrained(Drain[s])
  <2>1. s \in Seq(Bytes) /\ Len(s) \in Nat /\ Drain[s] = Turn(s, Drain)
    BY <1>1, DrainIs DEF Upto
  <2>2. CASE Blank(s) = {}
    BY <2>1, <2>2 DEF Turn, IsDrained
  <2>3. CASE Blank(s) # {}
    <3> DEFINE block == SubSeq(s, 1, Min(Blank(s)) - 1)  d == Drain[After(s)]
    <3>1. IsDrained(d)
      BY <1>1, <2>3, AfterIsShorter
    <3>2. block \in Seq(Bytes)
      <4>1. Min(Blank(s)) \in 1..(Len(s) - 1)
        BY <2>1, <2>3, AfterIs
      <4>2. \A i \in 1..(Min(Blank(s)) - 1) : s[i] \in Bytes
        BY <2>1, <4>1
      <4>3. QED
        BY <2>1, <4>1, <4>2, SubSeqProperties
    <3>3. Drain[s] = [events |-> sseEventPayload(block) \o d.events, rest |-> d.rest]
      BY <2>1, <2>3 DEF Turn
    <3> HIDE DEF block, d
    <3>4. sseEventPayload(block) \in Seq(Payloads)
      BY <3>2, PayloadIs
    <3> DEFINE p == sseEventPayload(block)
    <3> HIDE DEF p
    <3>5. p \o d.events \in Seq(Payloads)
      <4>1. p \in Seq(Payloads) /\ d.events \in Seq(Payloads)
        BY <3>1, <3>4 DEF p, IsDrained
      <4>2. QED
        BY <4>1, ConcatProperties
    <3>6. QED
      BY <3>1, <3>3, <3>5 DEF p, IsDrained
  <2>4. QED
    BY <2>2, <2>3
<1>2. ASSUME NEW n \in Nat PROVE \A s \in Upto(n) : IsDrained(Drain[s])
  <2> DEFINE T == {k \in 0..n : \A s \in Upto(k) : IsDrained(Drain[s])}
  <2>1. 0 \in T
    BY <1>1
  <2>2. ASSUME NEW k \in 1..n, k - 1 \in T PROVE k \in T
    <3>1. \A s \in Upto(k) : IsDrained(Drain[s])
      BY <1>1, <2>2
    <3>2. QED
      BY <3>1
  <2>3. \A k \in 0..n : k \in T
    <3> HIDE DEF T
    <3>1. QED
      BY <2>1, <2>2, AllUpTo
  <2>4. QED
    BY <2>3
<1>3. ASSUME NEW s, s \in Seq(Bytes) PROVE IsDrained(Drain[s])
  <2>1. Len(s) \in Nat /\ s \in Upto(Len(s))
    BY <1>3 DEF Upto
  <2>2. QED
    BY <1>2, <2>1
<1>4. QED
  BY <1>3

\* More bytes behind a first blank line change nothing in front of it.
LEMMA FirstBlockStays ==
  ASSUME NEW s, s \in Seq(Bytes), NEW q, q \in Seq(Bytes), Blank(s) # {}
  PROVE  /\ s \o q \in Seq(Bytes) /\ Blank(s \o q) # {} /\ Min(Blank(s \o q)) = Min(Blank(s))
         /\ SubSeq(s \o q, 1, Min(Blank(s)) - 1) = SubSeq(s, 1, Min(Blank(s)) - 1)
         /\ After(s \o q) = After(s) \o q
<1> DEFINE c == s \o q  end == Min(Blank(s))
<1>1. /\ c \in Seq(Bytes) /\ Len(c) = Len(s) + Len(q) /\ Len(s) \in Nat /\ Len(q) \in Nat
      /\ \A i \in 1..(Len(s) + Len(q)) : c[i] = IF i <= Len(s) THEN s[i] ELSE q[i - Len(s)]
  BY ConcatProperties
<1>2. /\ end \in Blank(s) /\ (\A i \in Blank(s) : end <= i) /\ end \in 1..(Len(s) - 1)
      /\ After(s) \in Seq(Bytes) /\ Len(After(s)) = Len(s) - (end + 1)
      /\ \A i \in 1..Len(After(s)) : After(s)[i] = s[end + 1 + i]
  BY AfterIs
<1> HIDE DEF c, end
<1>3. \A i \in 1..Len(s) : c[i] = s[i]
  BY <1>1
<1>4. end \in Blank(c)
  <2>1. end \in 1..(Len(c) - 1) /\ end \in 1..Len(s) /\ end + 1 \in 1..Len(s)
    BY <1>1, <1>2
  <2>2. QED
    BY <1>2, <1>3, <2>1 DEF Blank
<1> DEFINE first == Min(Blank(c))
<1>5. /\ first \in Blank(c) /\ (\A i \in Blank(c) : first <= i) /\ first \in 1..(Len(c) - 1)
      /\ After(c) \in Seq(Bytes) /\ Len(After(c)) = Len(c) - (first + 1)
      /\ \A i \in 1..Len(After(c)) : After(c)[i] = c[first + 1 + i]
  BY <1>1, <1>4, AfterIs
<1> HIDE DEF first
<1>6. first = end
  <2>1. first <= end
    BY <1>4, <1>5
  <2>2. first \in 1..(Len(s) - 1) /\ first \in 1..Len(s) /\ first + 1 \in 1..Len(s)
    BY <1>1, <1>2, <1>5, <2>1
  <2>3. first \in Blank(s)
    BY <1>3, <1>5, <2>2 DEF Blank
  <2>4. end <= first
    BY <1>2, <2>3
  <2>5. QED
    BY <1>2, <1>5, <2>1, <2>4
<1>7. SubSeq(c, 1, end - 1) = SubSeq(s, 1, end - 1)
  <2> DEFINE a == SubSeq(c, 1, end - 1)  b == SubSeq(s, 1, end - 1)
  <2>1. \A i \in 1..(end - 1) : s[i] \in Bytes /\ c[i] = s[i] /\ c[i] \in Bytes
    BY <1>1, <1>2, <1>3
  <2>2. /\ a \in Seq(Bytes) /\ Len(a) = IF 1 <= end - 1 THEN end - 1 - 1 + 1 ELSE 0
        /\ \A i \in 1..(end - 1 - 1 + 1) : a[i] = c[1 + i - 1]
    BY <1>2, <2>1, SubSeqProperties
  <2>3. /\ b \in Seq(Bytes) /\ Len(b) = IF 1 <= end - 1 THEN end - 1 - 1 + 1 ELSE 0
        /\ \A i \in 1..(end - 1 - 1 + 1) : b[i] = s[1 + i - 1]
    BY <1>2, <2>1, SubSeqProperties
  <2> HIDE DEF a, b
  <2>4. Len(a) = Len(b)
    BY <2>2, <2>3
  <2>5. \A i \in 1..Len(a) : a[i] = b[i]
    <3> SUFFICES ASSUME NEW i \in 1..Len(a) PROVE a[i] = b[i]
      OBVIOUS
    <3>1. i \in 1..(end - 1 - 1 + 1) /\ 1 + i - 1 = i /\ i \in 1..(end - 1)
      BY <1>2, <2>2
    <3>2. a[i] = c[i] /\ b[i] = s[i]
      BY <2>2, <2>3, <3>1
    <3>3. QED
      BY <2>1, <3>1, <3>2
  <2>6. a = b
    BY <2>2, <2>3, <2>4, <2>5, SeqEqual
  <2>7. QED
    BY <2>6 DEF a, b
<1>8. After(c) = After(s) \o q
  <2> DEFINE a == After(c)  f == After(s)  b == f \o q
  <2>1. f \in Seq(Bytes)
    BY <1>2
  <2> HIDE DEF f
  <2>2. /\ b \in Seq(Bytes) /\ Len(b) = Len(f) + Len(q)
        /\ \A i \in 1..(Len(f) + Len(q)) : b[i] = IF i <= Len(f) THEN f[i] ELSE q[i - Len(f)]
    BY <2>1, ConcatProperties
  <2> HIDE DEF a, b
  <2>3. Len(f) = Len(s) - (end + 1) /\ \A i \in 1..Len(f) : f[i] = s[end + 1 + i]
    BY <1>2 DEF f
  <2>4. /\ a \in Seq(Bytes) /\ Len(a) = Len(c) - (end + 1)
        /\ \A i \in 1..Len(a) : a[i] = c[end + 1 + i]
    BY <1>5, <1>6 DEF a
  <2>5. Len(a) = Len(b)
    BY <1>1, <1>2, <2>2, <2>3, <2>4
  <2>6. ASSUME NEW i \in 1..Len(a) PROVE a[i] = b[i]
    <3>1. CASE i <= Len(f)
      <4>1. i \in 1..Len(f) /\ end + 1 + i \in 1..Len(s) /\ i \in 1..(Len(f) + Len(q))
        BY <1>1, <1>2, <2>3, <3>1
      <4>2. QED
        BY <1>3, <2>2, <2>3, <2>4, <3>1, <4>1
    <3>2. CASE ~ (i <= Len(f))
      <4>1. /\ end + 1 + i \in 1..(Len(s) + Len(q)) /\ ~ (end + 1 + i <= Len(s))
            /\ (end + 1 + i) - Len(s) = i - Len(f) /\ i \in 1..(Len(f) + Len(q))
        BY <1>1, <1>2, <2>3, <2>4, <3>2
      <4>2. c[end + 1 + i] = q[i - Len(f)]
        BY <1>1, <4>1
      <4>3. QED
        BY <2>2, <2>4, <3>2, <4>1, <4>2
    <3>3. QED
      BY <3>1, <3>2
  <2>7. a = b
    BY <2>2, <2>4, <2>5, <2>6, SeqEqual
  <2>8. QED
    BY <2>7 DEF a, b, f
<1>9. QED
  BY <1>1, <1>4, <1>6, <1>7, <1>8 DEF c, end, first

\* What is drained of a string, and then of the rest with more bytes behind it,
\* is what is drained of all of it.
Joins(s, q) ==
  /\ Drain[s \o q].events = Drain[s].events \o Drain[Drain[s].rest \o q].events
  /\ Drain[s \o q].rest = Drain[Drain[s].rest \o q].rest

LEMMA DrainJoins ==
  ASSUME NEW q, q \in Seq(Bytes)
  PROVE  \A s \in Seq(Bytes) : Joins(s, q)
<1>1. ASSUME NEW k \in Nat, NEW s, s \in Upto(k), k > 0 => \A t \in Upto(k - 1) : Joins(t, q)
      PROVE  Joins(s, q)
  <2>1. s \in Seq(Bytes) /\ Len(s) \in Nat /\ Drain[s] = Turn(s, Drain)
    BY <1>1, DrainIs DEF Upto
  <2> DEFINE c == s \o q  d == Drain[c]
  <2>2. c \in Seq(Bytes)
    BY <2>1, ConcatProperties
  <2> HIDE DEF c
  <2>3. d.events \in Seq(Payloads)
    BY <2>2, DrainTyped DEF IsDrained
  <2>4. CASE Blank(s) = {}
    <3>1. Drain[s] = [events |-> <<>>, rest |-> s]
      BY <2>1, <2>4 DEF Turn
    <3>2. Drain[s].events = <<>> /\ Drain[s].rest = s
      BY <3>1
    <3> HIDE DEF d
    <3>3. <<>> \o d.events = d.events
      BY <2>3
    <3>4. QED
      BY <3>2, <3>3 DEF Joins, c, d
  <2>5. CASE Blank(s) # {}
    <3> DEFINE block == SubSeq(s, 1, Min(Blank(s)) - 1)  p == sseEventPayload(block)
               a == After(s)  e == Drain[a]  f == Drain[e.rest \o q]
    <3>1. Joins(a, q)
      BY <1>1, <2>5, AfterIsShorter
    <3>2. /\ Blank(c) # {} /\ SubSeq(c, 1, Min(Blank(c)) - 1) = block /\ After(c) = a \o q
      BY <2>1, <2>5, FirstBlockStays DEF c
    <3>3. a \in Seq(Bytes) /\ block \in Seq(Bytes)
      <4>1. a \in Seq(Bytes) /\ Min(Blank(s)) \in 1..(Len(s) - 1)
        BY <2>1, <2>5, AfterIs
      <4>2. \A i \in 1..(Min(Blank(s)) - 1) : s[i] \in Bytes
        BY <2>1, <4>1
      <4>3. QED
        BY <2>1, <4>1, <4>2, SubSeqProperties
    <3> HIDE DEF block, a
    <3>4. p \in Seq(Payloads)
      BY <3>3, PayloadIs
    <3>5. e.events \in Seq(Payloads) /\ e.rest \in Seq(Bytes)
      BY <3>3, DrainTyped DEF IsDrained
    <3>6. f.events \in Seq(Payloads)
      <4> DEFINE r == e.rest
      <4> HIDE DEF r, e
      <4>1. r \o q \in Seq(Bytes)
        BY <3>5, ConcatProperties DEF r
      <4>2. QED
        BY <4>1, DrainTyped DEF IsDrained, r
    <3>7. Drain[s] = [events |-> p \o e.events, rest |-> e.rest]
      BY <2>1, <2>5 DEF Turn, block, a
    <3>8. Drain[s].events = p \o e.events /\ Drain[s].rest = e.rest
      BY <3>7
    <3>9. d = [events |-> p \o Drain[a \o q].events, rest |-> Drain[a \o q].rest]
      <4>1. d = Turn(c, Drain)
        BY <2>2, DrainIs
      <4>2. QED
        BY <3>2, <4>1 DEF Turn
    <3>10. Drain[a \o q].events = e.events \o f.events /\ Drain[a \o q].rest = f.rest
      BY <3>1 DEF Joins
    <3>12. PICK u, v : u = e.events /\ v = f.events
      OBVIOUS
    <3> HIDE DEF p, e, f, d
    <3>11. d.events = p \o (u \o v) /\ d.rest = f.rest
      BY <3>9, <3>10, <3>12
    <3>13. p \o (u \o v) = (p \o u) \o v
      <4>1. u \in Seq(Payloads)
        BY <3>5, <3>12
      <4>2. v \in Seq(Payloads)
        BY <3>6, <3>12
      <4>3. QED
        BY <3>4, <4>1, <4>2, ConcatAssociative
    <3>14. d.events = Drain[s].events \o f.events /\ f = Drain[Drain[s].rest \o q]
      BY <3>8, <3>11, <3>12, <3>13 DEF f
    <3>15. QED
      BY <3>11, <3>14 DEF Joins, c, d
  <2>6. QED
    BY <2>4, <2>5
<1>2. ASSUME NEW n \in Nat PROVE \A s \in Upto(n) : Joins(s, q)
  <2> DEFINE T == {k \in 0..n : \A s \in Upto(k) : Joins(s, q)}
  <2>1. 0 \in T
    BY <1>1
  <2>2. ASSUME NEW k \in 1..n, k - 1 \in T PROVE k \in T
    <3>1. \A s \in Upto(k) : Joins(s, q)
      BY <1>1, <2>2
    <3>2. QED
      BY <3>1
  <2>3. \A k \in 0..n : k \in T
    <3> HIDE DEF T
    <3>1. QED
      BY <2>1, <2>2, AllUpTo
  <2>4. QED
    BY <2>3
<1>3. ASSUME NEW s, s \in Seq(Bytes) PROVE Joins(s, q)
  <2>1. Len(s) \in Nat /\ s \in Upto(Len(s))
    BY <1>3 DEF Upto
  <2>2. QED
    BY <1>2, <2>1
<1>4. QED
  BY <1>3

\* The loop leaves nothing to drain.
LeavesNone(d) == Blank(d.rest) = {}

LEMMA RestIsDrained ==
  ASSUME NEW s, s \in Seq(Bytes)
  PROVE  /\ Blank(Drain[s].rest) = {}
         /\ Drain[Drain[s].rest] = [events |-> <<>>, rest |-> Drain[s].rest]
<1>1. ASSUME NEW k \in Nat, NEW t, t \in Upto(k),
             k > 0 => \A u \in Upto(k - 1) : LeavesNone(Drain[u])
      PROVE  LeavesNone(Drain[t])
  <2>1. Drain[t] = Turn(t, Drain)
    BY <1>1, DrainIs DEF Upto
  <2>2. CASE Blank(t) = {}
    BY <2>1, <2>2 DEF Turn, LeavesNone
  <2>3. CASE Blank(t) # {}
    <3>1. Drain[t].rest = Drain[After(t)].rest
      BY <2>1, <2>3 DEF Turn
    <3>2. QED
      BY <1>1, <2>3, <3>1, AfterIsShorter DEF LeavesNone
  <2>4. QED
    BY <2>2, <2>3
<1>2. ASSUME NEW n \in Nat PROVE \A t \in Upto(n) : LeavesNone(Drain[t])
  <2> DEFINE T == {k \in 0..n : \A t \in Upto(k) : LeavesNone(Drain[t])}
  <2>1. 0 \in T
    BY <1>1
  <2>2. ASSUME NEW k \in 1..n, k - 1 \in T PROVE k \in T
    <3>1. \A t \in Upto(k) : LeavesNone(Drain[t])
      BY <1>1, <2>2
    <3>2. QED
      BY <3>1
  <2>3. \A k \in 0..n : k \in T
    <3> HIDE DEF T
    <3>1. QED
      BY <2>1, <2>2, AllUpTo
  <2>4. QED
    BY <2>3
<1>3. Len(s) \in Nat /\ s \in Upto(Len(s))
  BY DEF Upto
<1>4. Blank(Drain[s].rest) = {}
  BY <1>2, <1>3 DEF LeavesNone
<1>5. Drain[s].rest \in Seq(Bytes)
  BY DrainTyped DEF IsDrained
<1>6. QED
  BY <1>4, <1>5, DrainIs DEF Turn

-----------------------------------------------------------------------------
(* The parser                                                              *)

\* What has been read ends inside no line end, and has been taken in as a whole.
FramingInvariant ==
  /\ stream \in Seq(Bytes) /\ pos \in 0..Len(stream) /\ ended \in BOOLEAN
  /\ pos > 0 => stream[pos] # "cr"
  /\ CutsUnseen

LEMMA PrefixIs ==
  ASSUME NEW s, s \in Seq(Bytes), NEW n \in 0..Len(s)
  PROVE  /\ SubSeq(s, 1, n) \in Seq(Bytes) /\ Len(SubSeq(s, 1, n)) = n
         /\ \A i \in 1..n : SubSeq(s, 1, n)[i] = s[i]
<1> DEFINE a == SubSeq(s, 1, n)
<1>1. Len(s) \in Nat /\ \A i \in 1..n : s[i] \in Bytes
  OBVIOUS
<1>2. /\ a \in Seq(Bytes) /\ Len(a) = IF 1 <= n THEN n - 1 + 1 ELSE 0
      /\ \A i \in 1..(n - 1 + 1) : a[i] = s[1 + i - 1]
  BY <1>1, SubSeqProperties
<1> HIDE DEF a
<1>3. Len(a) = n
  BY <1>1, <1>2
<1>4. ASSUME NEW i \in 1..n PROVE a[i] = s[i]
  <2>1. i \in 1..(n - 1 + 1) /\ 1 + i - 1 = i
    BY <1>1
  <2>2. QED
    BY <1>2, <2>1
<1>5. QED
  BY <1>2, <1>3, <1>4 DEF a

\* The bytes read and the bytes of one read more.
LEMMA ReadJoins ==
  ASSUME NEW s, s \in Seq(Bytes), NEW n \in Nat, NEW k \in Nat, k > 0, n + k <= Len(s)
  PROVE  /\ SubSeq(s, n + 1, n + k) \in Seq(Bytes)
         /\ Last(SubSeq(s, n + 1, n + k)) = s[n + k]
         /\ SubSeq(s, 1, n + k) = SubSeq(s, 1, n) \o SubSeq(s, n + 1, n + k)
<1> DEFINE b == SubSeq(s, n + 1, n + k)
<1>1. Len(s) \in Nat /\ \A i \in (n + 1)..(n + k) : s[i] \in Bytes
  OBVIOUS
<1>2. /\ b \in Seq(Bytes) /\ Len(b) = IF n + 1 <= n + k THEN n + k - (n + 1) + 1 ELSE 0
      /\ \A i \in 1..(n + k - (n + 1) + 1) : b[i] = s[(n + 1) + i - 1]
  BY <1>1, SubSeqProperties
<1> HIDE DEF b
<1>3. Len(b) = k /\ b[k] = s[n + k]
  <2>1. Len(b) = k
    BY <1>2
  <2>2. k \in 1..(n + k - (n + 1) + 1) /\ (n + 1) + k - 1 = n + k
    OBVIOUS
  <2>3. QED
    BY <1>2, <2>1, <2>2
<1>4. SubSeq(s, 1, n + k) = SubSeq(s, 1, n) \o SubSeq(s, n + 1, n + k)
  <2> DEFINE c == SubSeq(s, 1, n + k)  a == SubSeq(s, 1, n)  j == a \o b
  <2>1. n + k \in 0..Len(s) /\ n \in 0..Len(s)
    BY <1>1
  <2>2. /\ c \in Seq(Bytes) /\ Len(c) = n + k /\ \A i \in 1..(n + k) : c[i] = s[i]
    BY <2>1, PrefixIs
  <2>3. /\ a \in Seq(Bytes) /\ Len(a) = n /\ \A i \in 1..n : a[i] = s[i]
    BY <2>1, PrefixIs
  <2> HIDE DEF a, c
  <2>4. /\ j \in Seq(Bytes) /\ Len(j) = Len(a) + Len(b)
        /\ \A i \in 1..(Len(a) + Len(b)) : j[i] = IF i <= Len(a) THEN a[i] ELSE b[i - Len(a)]
    BY <1>2, <2>3, ConcatProperties
  <2> HIDE DEF j
  <2>5. Len(j) = n + k
    BY <1>3, <2>3, <2>4
  <2>6. ASSUME NEW i \in 1..(n + k) PROVE c[i] = j[i]
    <3>1. CASE i <= n
      <4>1. i \in 1..n /\ i \in 1..(Len(a) + Len(b))
        BY <1>3, <2>3, <3>1
      <4>2. QED
        BY <2>2, <2>3, <2>4, <3>1, <4>1
    <3>2. CASE ~ (i <= n)
      <4>1. /\ i \in 1..(Len(a) + Len(b)) /\ i - n \in 1..(n + k - (n + 1) + 1)
            /\ (n + 1) + (i - n) - 1 = i
        BY <1>3, <2>3, <3>2
      <4>2. b[i - n] = s[i]
        BY <1>2, <4>1
      <4>3. QED
        BY <2>2, <2>3, <2>4, <3>2, <4>1, <4>2
    <3>3. QED
      BY <3>1, <3>2
  <2>7. c = j
    BY <2>2, <2>4, <2>5, <2>6, SeqEqual
  <2>8. QED
    BY <2>7 DEF a, b, c, j
<1>5. QED
  BY <1>2, <1>3, <1>4 DEF b, Last

LEMMA NormaliseTyped == \A s \in Seq(Bytes) : Normalise(s) \in Seq(Bytes)
<1> SUFFICES ASSUME NEW s \in Seq(Bytes) PROVE Normalise(s) \in Seq(Bytes)
  OBVIOUS
<1>1. Len(s) \in 0..Len(s)
  OBVIOUS
<1>2. QED
  BY <1>1, KeptIs

LEMMA FramingInit == Init => FramingInvariant
<1> SUFFICES ASSUME Init PROVE FramingInvariant
  OBVIOUS
<1>1. stream \in Seq(Bytes) /\ pos = 0 /\ ~ ended /\ out = <<>> /\ pending = <<>> /\ ended = FALSE
  BY FramingAssumption DEF Init
<1>2. Len(stream) \in Nat /\ 0 \in 0..Len(stream)
  BY <1>1
<1> DEFINE none == SubSeq(stream, 1, 0)
<1>3. none \in Seq(Bytes) /\ Len(none) = 0
  BY <1>1, <1>2, PrefixIs
<1> HIDE DEF none
<1>4. Normalise(none) = <<>>
  BY <1>3, KeptIs
<1>5. <<>> \in Seq(Bytes) /\ Blank(<<>>) = {}
  BY DEF Blank
<1>6. Drain[<<>>] = [events |-> <<>>, rest |-> <<>>]
  BY <1>5, DrainIs DEF Turn
<1>7. CutsUnseen
  BY <1>1, <1>4, <1>6 DEF CutsUnseen, none
<1>8. pos \in 0..Len(stream) /\ ~ (pos > 0)
  BY <1>1, <1>2
<1>9. stream \in Seq(Bytes) /\ ended \in BOOLEAN
  BY <1>1
<1>10. QED
  BY <1>7, <1>8, <1>9, Zenon DEF FramingInvariant

LEMMA ReadStep ==
  ASSUME SplitLineEnds = FALSE, FramingInvariant, NEW k \in 1..Len(stream), Read(k)
  PROVE  FramingInvariant'
<1> DEFINE a == SubSeq(stream, 1, pos)  b == SubSeq(stream, pos + 1, pos + k)
           na == Normalise(a)  nb == Normalise(b)
<1>1. /\ stream \in Seq(Bytes) /\ pos \in Nat /\ pos \in 0..Len(stream) /\ k \in Nat /\ k > 0
      /\ pos + k <= Len(stream) /\ Len(stream) \in Nat /\ ended = FALSE
      /\ stream' = stream /\ pos' = pos + k /\ ended' = ended
      /\ Last(b) # "cr"
  BY DEF FramingInvariant, Read
<1>2. out' = out \o Drain[pending \o nb].events /\ pending' = Drain[pending \o nb].rest
  BY DEF Read, Feed
<1>3. b \in Seq(Bytes) /\ Last(b) = stream[pos + k] /\ SubSeq(stream, 1, pos + k) = a \o b
  BY <1>1, ReadJoins
<1>4. a \in Seq(Bytes) /\ Len(a) = pos /\ \A i \in 1..pos : a[i] = stream[i]
  BY <1>1, PrefixIs
<1>5. out = Drain[na].events /\ pending = Drain[na].rest
  BY <1>1 DEF FramingInvariant, CutsUnseen
<1> HIDE DEF a, b
<1>6. Len(a) > 0 => a[Len(a)] # "cr"
  <2>1. pos > 0 => stream[pos] # "cr" /\ pos \in 1..pos
    BY <1>1 DEF FramingInvariant
  <2>2. QED
    BY <1>4, <2>1
<1>7. Normalise(a \o b) = na \o nb
  BY <1>3, <1>4, <1>6, NormaliseJoins
<1>8. na \in Seq(Bytes) /\ nb \in Seq(Bytes)
  BY <1>3, <1>4, NormaliseTyped
<1>9. SubSeq(stream', 1, pos') = a \o b
  BY <1>1, <1>3
<1> HIDE DEF na, nb
<1>10. Joins(na, nb)
  BY <1>8, DrainJoins
<1>11. Drain[na \o nb].events = out' /\ Drain[na \o nb].rest = pending'
  BY <1>2, <1>5, <1>10 DEF Joins
<1>12. CutsUnseen'
  BY <1>1, <1>7, <1>9, <1>11 DEF CutsUnseen
<1>13. stream'[pos'] # "cr" /\ pos' \in 0..Len(stream')
  BY <1>1, <1>3
<1>14. QED
  BY <1>1, <1>12, <1>13 DEF FramingInvariant

LEMMA EndStep ==
  ASSUME FramingInvariant, End
  PROVE  FramingInvariant'
<1> DEFINE n == Normalise(SubSeq(stream, 1, pos))  d == Drain[n]
<1>1. /\ stream \in Seq(Bytes) /\ pos \in 0..Len(stream) /\ ended = FALSE
      /\ stream' = stream /\ pos' = pos /\ ended' = TRUE
      /\ out' = out \o Drain[pending].events \o sseEventPayload(Drain[pending].rest)
  BY DEF FramingInvariant, End
<1>2. out = d.events /\ pending = d.rest
  BY <1>1 DEF FramingInvariant, CutsUnseen
<1>3. n \in Seq(Bytes)
  BY <1>1, PrefixIs, NormaliseTyped
<1>4. n' = n
  BY <1>1
<1> HIDE DEF n
<1>5. Drain[pending] = [events |-> <<>>, rest |-> pending]
  BY <1>2, <1>3, RestIsDrained
<1>6. out \in Seq(Payloads)
  BY <1>2, <1>3, DrainTyped DEF IsDrained
<1>7. out \o <<>> = out
  BY <1>6
<1> HIDE DEF d
<1>8. out' = d.events \o sseEventPayload(d.rest)
  <2>1. Drain[pending].events = <<>> /\ Drain[pending].rest = pending
    BY <1>5
  <2>2. out' = out \o sseEventPayload(pending)
    BY <1>1, <1>7, <2>1, Zenon
  <2>3. QED
    BY <1>2, <2>2, Zenon
<1>9. CutsUnseen'
  BY <1>1, <1>4, <1>8 DEF CutsUnseen, n, d
<1>10. QED
  BY <1>1, <1>9 DEF FramingInvariant

LEMMA FramingNext == SplitLineEnds = FALSE => (FramingInvariant /\ [Next]_vars => FramingInvariant')
<1> SUFFICES ASSUME SplitLineEnds = FALSE, FramingInvariant, [Next]_vars PROVE FramingInvariant'
  OBVIOUS
<1>1. CASE \E k \in 1..Len(stream) : Read(k)
  BY <1>1, ReadStep
<1>2. CASE End
  BY <1>2, EndStep
<1>3. CASE UNCHANGED vars
  BY <1>3 DEF vars, FramingInvariant, CutsUnseen
<1>4. QED
  BY <1>1, <1>2, <1>3 DEF Next

\* As long as no read ends between "cr" and "lf", the parser does not notice
\* where reads end: what it has emitted and holds back are what the bytes read
\* so far give when they come at once, and after flush what the whole answer
\* gives (feed, drain, flush).
THEOREM CutsUnseenHolds == SplitLineEnds = FALSE => (Spec => []CutsUnseen)
<1> SUFFICES ASSUME SplitLineEnds = FALSE PROVE Spec => []CutsUnseen
  OBVIOUS
<1>1. FramingInvariant /\ [Next]_vars => FramingInvariant'
  BY FramingNext
<1>2. FramingInvariant => CutsUnseen
  BY DEF FramingInvariant
<1>3. QED
  BY FramingInit, <1>1, <1>2, PTL DEF Spec

-----------------------------------------------------------------------------
(* Loops                                                                   *)

\* Turns that each take something in X to something in X
Turns(n, X) == [1..n -> [X -> X]]

\* What the first k of them have come to, for each number of them
IsRun(k, X, a, turn, t) ==
  /\ t = [i \in 0..k |-> IF i = 0 THEN a ELSE turn[i][t[i - 1]]]
  /\ \A i \in 0..k : t[i] \in X

\* A loop runs to its end.
LEMMA LoopRuns ==
  ASSUME NEW n \in Nat, NEW X, NEW a \in X, NEW turn \in Turns(n, X)
  PROVE  \E t : IsRun(n, X, a, turn, t)
<1> DEFINE Runs == {k \in 0..n : \E t : IsRun(k, X, a, turn, t)}
<1>1. 0 \in Runs
  <2> DEFINE t == [i \in 0..0 |-> a]
  <2>1. IsRun(0, X, a, turn, t)
    BY DEF IsRun
  <2> HIDE DEF t
  <2>2. QED
    BY <2>1
<1>2. ASSUME NEW k \in 1..n, k - 1 \in Runs PROVE k \in Runs
  <2>1. PICK t : IsRun(k - 1, X, a, turn, t)
    BY <1>2
  <2> DEFINE u == [i \in 0..k |-> IF i = k THEN turn[k][t[k - 1]] ELSE t[i]]
  <2>2. \A i \in 0..(k - 1) : u[i] = t[i] /\ t[i] \in X
    BY <2>1 DEF IsRun
  <2>3. turn[k] \in [X -> X] /\ k - 1 \in 0..(k - 1)
    BY DEF Turns
  <2>4. turn[k][t[k - 1]] \in X
    BY <2>2, <2>3
  <2>5. \A i \in 0..k : u[i] = (IF i = 0 THEN a ELSE turn[i][u[i - 1]]) /\ u[i] \in X
    <3> SUFFICES ASSUME NEW i \in 0..k
                 PROVE  u[i] = (IF i = 0 THEN a ELSE turn[i][u[i - 1]]) /\ u[i] \in X
      OBVIOUS
    <3>1. CASE i = k
      <4>1. u[i] = turn[k][t[k - 1]] /\ u[i - 1] = t[k - 1] /\ i # 0
        BY <2>2, <3>1
      <4>2. QED
        BY <2>4, <3>1, <4>1
    <3>2. CASE i # k
      <4>1. i \in 0..(k - 1) /\ (i # 0 => i - 1 \in 0..(k - 1))
        BY <3>2
      <4>2. t[i] = IF i = 0 THEN a ELSE turn[i][t[i - 1]]
        BY <2>1, <4>1 DEF IsRun
      <4>3. u[i] = t[i] /\ (i # 0 => u[i - 1] = t[i - 1])
        BY <2>2, <4>1
      <4>4. QED
        BY <2>2, <4>1, <4>2, <4>3
    <3>3. QED
      BY <3>1, <3>2
  <2>6. IsRun(k, X, a, turn, u)
    BY <2>5 DEF IsRun
  <2> HIDE DEF u
  <2>7. QED
    BY <2>6
<1>3. n \in Runs
  <2> HIDE DEF Runs
  <2>1. \A i \in 0..n : i \in Runs
    BY <1>1, <1>2, AllUpTo
  <2>2. QED
    BY <2>1
<1>4. QED
  BY <1>3

\* Two loops with the same turns come to the same.
LEMMA LoopsAgree ==
  ASSUME NEW n \in Nat, NEW t, NEW u, t[0] = u[0],
         \A i \in 1..n : t[i - 1] = u[i - 1] => t[i] = u[i]
  PROVE  t[n] = u[n]
<1> DEFINE T == {i \in 0..n : t[i] = u[i]}
<1>1. 0 \in T
  OBVIOUS
<1>2. \A i \in 1..n : i - 1 \in T => i \in T
  OBVIOUS
<1>3. \A i \in 0..n : i \in T
  <2> HIDE DEF T
  <2>1. QED
    BY <1>1, <1>2, AllUpTo
<1>4. QED
  BY <1>3

-----------------------------------------------------------------------------
(* Lines                                                                   *)

\* What SplitLines may give: there is always a last line.
Lines == Seq(Seq(Bytes)) \ {<<>>}

LEMMA ByteSplitTyped == \A x \in Lines, v \in Bytes : ByteSplit(x, v) \in Lines
<1> SUFFICES ASSUME NEW x, x \in Lines, NEW v, v \in Bytes PROVE ByteSplit(x, v) \in Lines
  OBVIOUS
<1>1. x \in Seq(Seq(Bytes)) /\ Len(x) \in Nat /\ Len(x) > 0
  BY DEF Lines
<1>2. Last(x) \in Seq(Bytes)
  BY <1>1 DEF Last
<1>3. Front(x) \in Seq(Seq(Bytes))
  <2>1. \A i \in 1..(Len(x) - 1) : x[i] \in Seq(Bytes)
    BY <1>1
  <2>2. QED
    BY <1>1, <2>1, SubSeqProperties DEF Front
<1> DEFINE l == Last(x)  f == Front(x)
<1> HIDE DEF l, f
<1>4. l \in Seq(Bytes) /\ f \in Seq(Seq(Bytes))
  BY <1>2, <1>3 DEF l, f
<1>5. \A w \in Seq(Bytes), y \in Seq(Seq(Bytes)) : Append(y, w) \in Lines
  <2> SUFFICES ASSUME NEW w \in Seq(Bytes), NEW y \in Seq(Seq(Bytes)) PROVE Append(y, w) \in Lines
    OBVIOUS
  <2>1. Append(y, w) \in Seq(Seq(Bytes)) /\ Append(y, w) # <<>>
    BY AppendProperties
  <2>2. QED
    BY <2>1 DEF Lines
<1>6. Append(l, v) \in Seq(Bytes) /\ <<>> \in Seq(Bytes)
  BY <1>4, AppendProperties
<1>7. QED
  BY <1>1, <1>4, <1>5, <1>6 DEF ByteSplit, l, f

IsSplit(s, t) == t = [i \in 0..Len(s) |-> IF i = 0 THEN <<<<>>>> ELSE ByteSplit(t[i - 1], s[i])]
Split(s) == CHOOSE t : IsSplit(s, t)

LEMMA SplitRuns ==
  ASSUME NEW s, s \in Seq(Bytes)
  PROVE  /\ IsSplit(s, Split(s)) /\ SplitLines(s) = Split(s)[Len(s)]
         /\ \A i \in 0..Len(s) : Split(s)[i] \in Lines
<1> DEFINE n == Len(s)  turn == [i \in 1..n |-> [x \in Lines |-> ByteSplit(x, s[i])]]
<1>1. n \in Nat /\ \A i \in 1..n : s[i] \in Bytes
  OBVIOUS
<1>2. turn \in [1..n -> [Lines -> Lines]]
  BY <1>1, ByteSplitTyped
<1>3. \A i \in 1..n, x \in Lines : turn[i][x] = ByteSplit(x, s[i])
  OBVIOUS
<1>4. <<<<>>>> \in Lines
  BY DEF Lines
<1> HIDE DEF turn, n
<1>5. PICK t : IsRun(n, Lines, <<<<>>>>, turn, t)
  <2> DEFINE base == <<<<>>>>  set == Lines
  <2>1. base \in set /\ turn \in Turns(n, set)
    BY <1>2, <1>4 DEF Turns
  <2> HIDE DEF base, set
  <2>2. \E t : IsRun(n, set, base, turn, t)
    BY <1>1, <2>1, LoopRuns
  <2>3. QED
    BY <2>2, Zenon DEF base, set
<1>6. \A i \in 0..n : t[i] = IF i = 0 THEN <<<<>>>> ELSE ByteSplit(t[i - 1], s[i])
  <2> SUFFICES ASSUME NEW i \in 0..n PROVE t[i] = IF i = 0 THEN <<<<>>>> ELSE ByteSplit(t[i - 1], s[i])
    OBVIOUS
  <2>1. t[i] = IF i = 0 THEN <<<<>>>> ELSE turn[i][t[i - 1]]
    BY <1>5 DEF IsRun
  <2>2. i # 0 => i \in 1..n /\ t[i - 1] \in Lines
    BY <1>1, <1>5 DEF IsRun
  <2>3. QED
    BY <1>3, <2>1, <2>2
<1>7. t = [i \in 0..n |-> IF i = 0 THEN <<<<>>>> ELSE ByteSplit(t[i - 1], s[i])]
  BY <1>5, <1>6 DEF IsRun
<1>8. IsSplit(s, Split(s))
  BY <1>7 DEF IsSplit, Split, n
<1>9. SplitLines(s) = Split(s)[Len(s)]
  BY Zenon DEF SplitLines, Split, IsSplit
<1> DEFINE u == Split(s)  T == {i \in 0..n : u[i] \in Lines}
<1>10. u = [i \in 0..n |-> IF i = 0 THEN <<<<>>>> ELSE ByteSplit(u[i - 1], s[i])]
  BY <1>8 DEF IsSplit, n
<1> HIDE DEF u
<1>11. 0 \in T
  BY <1>1, <1>4, <1>10
<1>12. ASSUME NEW i \in 1..n, i - 1 \in T PROVE i \in T
  <2> DEFINE x == u[i - 1]
  <2>1. u[i] = ByteSplit(x, s[i]) /\ x \in Lines /\ s[i] \in Bytes
    BY <1>1, <1>10, <1>12
  <2> HIDE DEF x
  <2>2. ByteSplit(x, s[i]) \in Lines
    BY <2>1, ByteSplitTyped
  <2>3. QED
    BY <2>1, <2>2
<1>13. \A i \in 0..n : i \in T
  <2> HIDE DEF T
  <2>1. QED
    BY <1>1, <1>11, <1>12, AllUpTo
<1>14. QED
  BY <1>8, <1>9, <1>13 DEF u, n

LEMMA SplitLinesIs ==
  /\ SplitLines(<<>>) = <<<<>>>>
  /\ \A s \in Seq(Bytes) : SplitLines(s) \in Lines
  /\ \A s \in Seq(Bytes), v \in Bytes : SplitLines(Append(s, v)) = ByteSplit(SplitLines(s), v)
<1>1. SplitLines(<<>>) = <<<<>>>>
  <2> DEFINE none == <<>>  t == Split(none)
  <2>1. none \in Seq(Bytes) /\ Len(none) = 0
    OBVIOUS
  <2> HIDE DEF none
  <2>2. IsSplit(none, t) /\ SplitLines(none) = t[0]
    BY <2>1, SplitRuns
  <2> HIDE DEF t
  <2>3. t[0] = <<<<>>>>
    BY <2>1, <2>2 DEF IsSplit
  <2>4. QED
    BY <2>2, <2>3 DEF none
<1>2. ASSUME NEW s, s \in Seq(Bytes) PROVE SplitLines(s) \in Lines
  <2>1. Len(s) \in 0..Len(s)
    BY <1>2
  <2>2. QED
    BY <1>2, <2>1, SplitRuns
<1>3. ASSUME NEW s, s \in Seq(Bytes), NEW v, v \in Bytes PROVE SplitLines(Append(s, v)) = ByteSplit(SplitLines(s), v)
  <2> DEFINE c == Append(s, v)  n == Len(s)  t == Split(c)  u == Split(s)
  <2>1. /\ c \in Seq(Bytes) /\ Len(c) = n + 1 /\ n \in Nat /\ c[n + 1] = v
        /\ \A i \in 1..n : c[i] = s[i]
    BY <1>3, AppendProperties
  <2> HIDE DEF c
  <2>2. /\ SplitLines(c) = t[n + 1] /\ t[0] = <<<<>>>>
        /\ \A i \in 1..(n + 1) : t[i] = ByteSplit(t[i - 1], c[i])
    <3>1. IsSplit(c, t) /\ SplitLines(c) = t[Len(c)]
      BY <2>1, SplitRuns
    <3> HIDE DEF t, n
    <3>2. t = [i \in 0..(n + 1) |-> IF i = 0 THEN <<<<>>>> ELSE ByteSplit(t[i - 1], c[i])]
      BY <2>1, <3>1 DEF IsSplit
    <3>3. QED
      BY <2>1, <3>1, <3>2
  <2>3. /\ SplitLines(s) = u[n] /\ u[0] = <<<<>>>>
        /\ \A i \in 1..n : u[i] = ByteSplit(u[i - 1], s[i])
    BY <1>3, <2>1, SplitRuns DEF IsSplit
  <2> HIDE DEF t, u, n
  <2>4. \A i \in 1..n : t[i - 1] = u[i - 1] => t[i] = u[i]
    BY <2>1, <2>2, <2>3
  <2>5. t[n] = u[n]
    <3>1. t[0] = u[0] /\ n \in Nat
      BY <2>1, <2>2, <2>3
    <3>2. QED
      BY <2>4, <3>1, LoopsAgree
  <2>6. n + 1 \in 1..(n + 1) /\ (n + 1) - 1 = n
    BY <2>1
  <2>7. QED
    BY <2>1, <2>2, <2>3, <2>5, <2>6 DEF c
<1>4. QED
  BY <1>1, <1>2, <1>3

-----------------------------------------------------------------------------
(* White space                                                             *)

\* Of some natural numbers with a bound one is the greatest.
LEMMA GreatestExists ==
  ASSUME NEW n \in Nat, NEW T, T \in SUBSET (0..n), T # {}
  PROVE  \E x \in T : \A y \in T : y <= x
<1> DEFINE D == {n - x : x \in T}
<1>0. PICK z \in T : TRUE
  OBVIOUS
<1>1. D \in SUBSET Nat /\ D # {}
  <2>1. \A x \in T : n - x \in Nat
    OBVIOUS
  <2>2. n - z \in D
    OBVIOUS
  <2>3. QED
    BY <2>1, <2>2
<1>2. PICK d \in D : \A e \in D : d <= e
  <2> HIDE DEF D
  <2>1. QED
    BY <1>1, LeastExists
<1>3. PICK x \in T : d = n - x
  OBVIOUS
<1>4. ASSUME NEW y \in T PROVE y <= x
  <2>1. n - y \in D /\ x \in 0..n /\ y \in 0..n
    OBVIOUS
  <2>2. d <= n - y
    BY <1>2, <2>1
  <2>3. QED
    BY <1>3, <2>1, <2>2
<1>5. QED
  BY <1>4

\* The bytes from lo to hi are what is between the white space around s.
Within(s, lo, hi) ==
  /\ lo \in 1..Len(s) /\ hi \in lo..Len(s) /\ s[lo] \notin Spaces /\ s[hi] \notin Spaces
  /\ \A i \in 1..Len(s) : s[i] \notin Spaces => i \in lo..hi

AllSpace(s) == \A i \in 1..Len(s) : s[i] \in Spaces

LEMMA TrimWithin ==
  ASSUME NEW s, s \in Seq(Bytes), NEW lo, NEW hi, Within(s, lo, hi)
  PROVE  TrimSpace(s) = SubSeq(s, lo, hi)
<1> DEFINE solid == {i \in DOMAIN s : s[i] \notin Spaces}
<1>1. Len(s) \in Nat /\ DOMAIN s = 1..Len(s)
  OBVIOUS
<1>2. lo \in solid /\ hi \in solid /\ \A i \in solid : lo <= i /\ i <= hi /\ i \in Nat
  BY <1>1 DEF Within
<1>3. TrimSpace(s) = IF solid = {} THEN <<>> ELSE SubSeq(s, Min(solid), Max(solid))
  BY Zenon DEF TrimSpace
<1> HIDE DEF solid
<1>4. Min(solid) \in solid /\ \A i \in solid : Min(solid) <= i
  <2>1. \E x \in solid : \A y \in solid : x <= y
    BY <1>2
  <2>2. QED
    BY <2>1, Zenon DEF Min
<1>5. Max(solid) \in solid /\ \A i \in solid : Max(solid) >= i
  <2>1. \E x \in solid : \A y \in solid : x >= y
    BY <1>2
  <2>2. QED
    BY <2>1, Zenon DEF Max
<1>6. Min(solid) = lo /\ Max(solid) = hi
  BY <1>2, <1>4, <1>5
<1>7. QED
  BY <1>2, <1>3, <1>6

LEMMA TrimAllSpace ==
  ASSUME NEW s, s \in Seq(Bytes), AllSpace(s)
  PROVE  TrimSpace(s) = <<>>
<1>1. {i \in DOMAIN s : s[i] \notin Spaces} = {}
  BY DEF AllSpace
<1>2. QED
  BY <1>1, Zenon DEF TrimSpace

LEMMA WithinExists ==
  ASSUME NEW s, s \in Seq(Bytes), ~ AllSpace(s)
  PROVE  \E lo, hi \in Nat : Within(s, lo, hi)
<1> DEFINE solid == {i \in 1..Len(s) : s[i] \notin Spaces}
<1>1. Len(s) \in Nat /\ solid \in SUBSET (0..Len(s)) /\ solid \in SUBSET Nat /\ solid # {}
  BY DEF AllSpace
<1>2. \A i \in 1..Len(s) : s[i] \notin Spaces <=> i \in solid
  OBVIOUS
<1>3. \A i \in solid : i \in 1..Len(s)
  OBVIOUS
<1> HIDE DEF solid
<1>4. PICK lo \in solid : \A i \in solid : lo <= i
  BY <1>1, LeastExists
<1>5. PICK hi \in solid : \A i \in solid : i <= hi
  BY <1>1, GreatestExists
<1>6. lo \in 1..Len(s) /\ hi \in lo..Len(s) /\ s[lo] \notin Spaces /\ s[hi] \notin Spaces
  BY <1>1, <1>2, <1>3, <1>4, <1>5
<1>7. \A i \in 1..Len(s) : s[i] \notin Spaces => i \in lo..hi
  <2> SUFFICES ASSUME NEW i \in 1..Len(s), s[i] \notin Spaces PROVE i \in lo..hi
    OBVIOUS
  <2>1. i \in solid
    BY <1>2
  <2>2. QED
    BY <1>1, <1>4, <1>5, <1>6, <2>1
<1>8. lo \in Nat /\ hi \in Nat
  BY <1>1
<1>9. QED
  BY <1>6, <1>7, <1>8 DEF Within

\* What is between two places of a string
LEMMA PartIs ==
  ASSUME NEW s, s \in Seq(Bytes), NEW lo \in 1..Len(s), NEW hi \in lo..Len(s)
  PROVE  /\ SubSeq(s, lo, hi) \in Seq(Bytes) /\ Len(SubSeq(s, lo, hi)) = hi - lo + 1
         /\ \A i \in 1..(hi - lo + 1) : SubSeq(s, lo, hi)[i] = s[lo + i - 1]
<1>1. Len(s) \in Nat /\ \A i \in lo..hi : s[i] \in Bytes
  OBVIOUS
<1>2. lo \in Int /\ hi \in Int /\ lo <= hi
  BY <1>1
<1>3. QED
  BY <1>1, <1>2, SubSeqProperties

LEMMA TrimTyped == \A s \in Seq(Bytes) : TrimSpace(s) \in Seq(Bytes)
<1> SUFFICES ASSUME NEW s, s \in Seq(Bytes) PROVE TrimSpace(s) \in Seq(Bytes)
  OBVIOUS
<1>1. CASE AllSpace(s)
  <2>1. <<>> \in Seq(Bytes)
    OBVIOUS
  <2>2. QED
    BY <1>1, <2>1, TrimAllSpace
<1>2. CASE ~ AllSpace(s)
  <2>1. PICK lo, hi \in Nat : Within(s, lo, hi)
    BY <1>2, WithinExists
  <2>2. TrimSpace(s) = SubSeq(s, lo, hi)
    BY <2>1, TrimWithin
  <2>3. lo \in 1..Len(s) /\ hi \in lo..Len(s)
    BY <2>1 DEF Within
  <2>4. QED
    BY <2>2, <2>3, PartIs
<1>3. QED
  BY <1>1, <1>2

\* A string without white space at its ends stays as it is.
Tidy(s) == s = <<>> \/ (s[1] \notin Spaces /\ s[Len(s)] \notin Spaces)

LEMMA TrimTidy ==
  ASSUME NEW s, s \in Seq(Bytes), Tidy(s)
  PROVE  TrimSpace(s) = s
<1>1. CASE s = <<>>
  <2>1. AllSpace(s)
    BY <1>1 DEF AllSpace
  <2>2. QED
    BY <1>1, <2>1, TrimAllSpace
<1>2. CASE s # <<>>
  <2>1. Len(s) \in Nat /\ Len(s) > 0
    BY <1>2
  <2>2. Within(s, 1, Len(s))
    BY <1>2, <2>1 DEF Tidy, Within
  <2>3. QED
    BY <2>2, TrimWithin, SubSeqFull
<1>3. QED
  BY <1>1, <1>2

LEMMA TrimPrefixTyped == \A s \in Seq(Bytes), b \in Bytes : TrimPrefix(s, b) \in Seq(Bytes)
BY HeadTailProperties DEF TrimPrefix, HasPrefix

LEMMA FieldTyped == \A s \in Seq(Bytes) : Field(s) \in Seq(Bytes)
<1> SUFFICES ASSUME NEW s, s \in Seq(Bytes) PROVE Field(s) \in Seq(Bytes)
  OBVIOUS
<1> DEFINE t == TrimSpace(s)  u == TrimPrefix(t, "data")
<1>1. t \in Seq(Bytes) /\ "data" \in Bytes /\ "sp" \in Bytes
  BY TrimTyped DEF Bytes
<1> HIDE DEF t
<1>2. u \in Seq(Bytes)
  BY <1>1, TrimPrefixTyped
<1> HIDE DEF u
<1>3. TrimPrefix(u, "sp") \in Seq(Bytes)
  BY <1>1, <1>2, TrimPrefixTyped
<1>4. QED
  BY <1>3 DEF Field, t, u

-----------------------------------------------------------------------------
(* What the loops over lines and bytes come to                             *)

LEMMA LineFieldTyped ==
  \A x \in Seq(Seq(Bytes)), v \in Seq(Bytes) : LineField(x, v) \in Seq(Seq(Bytes))
<1> SUFFICES ASSUME NEW x, x \in Seq(Seq(Bytes)), NEW v, v \in Seq(Bytes)
             PROVE  LineField(x, v) \in Seq(Seq(Bytes))
  OBVIOUS
<1> DEFINE f == Field(v)
<1>1. f \in Seq(Bytes)
  BY FieldTyped
<1> HIDE DEF f
<1>2. Append(x, f) \in Seq(Seq(Bytes))
  BY <1>1, AppendProperties
<1>3. QED
  BY <1>2 DEF LineField, f

IsFields(s, t) == t = [i \in 0..Len(s) |-> IF i = 0 THEN <<>> ELSE LineField(t[i - 1], s[i])]
Fields(s) == CHOOSE t : IsFields(s, t)

LEMMA FieldsRuns ==
  ASSUME NEW s, s \in Seq(Seq(Bytes))
  PROVE  /\ IsFields(s, Fields(s)) /\ FieldsOf(s) = Fields(s)[Len(s)]
         /\ \A i \in 0..Len(s) : Fields(s)[i] \in Seq(Seq(Bytes))
<1> DEFINE n == Len(s)  turn == [i \in 1..n |-> [x \in Seq(Seq(Bytes)) |-> LineField(x, s[i])]]
<1>1. n \in Nat /\ \A i \in 1..n : s[i] \in Seq(Bytes)
  OBVIOUS
<1>2. turn \in [1..n -> [Seq(Seq(Bytes)) -> Seq(Seq(Bytes))]]
  BY <1>1, LineFieldTyped
<1>3. \A i \in 1..n, x \in Seq(Seq(Bytes)) : turn[i][x] = LineField(x, s[i])
  OBVIOUS
<1>4. <<>> \in Seq(Seq(Bytes))
  OBVIOUS
<1> HIDE DEF turn, n
<1>5. PICK t : IsRun(n, Seq(Seq(Bytes)), <<>>, turn, t)
  <2> DEFINE base == <<>>  set == Seq(Seq(Bytes))
  <2>1. base \in set /\ turn \in Turns(n, set)
    BY <1>2, <1>4 DEF Turns
  <2> HIDE DEF base, set
  <2>2. \E t : IsRun(n, set, base, turn, t)
    BY <1>1, <2>1, LoopRuns
  <2>3. QED
    BY <2>2, Zenon DEF base, set
<1>6. \A i \in 0..n : t[i] = IF i = 0 THEN <<>> ELSE LineField(t[i - 1], s[i])
  <2> SUFFICES ASSUME NEW i \in 0..n PROVE t[i] = IF i = 0 THEN <<>> ELSE LineField(t[i - 1], s[i])
    OBVIOUS
  <2>1. t[i] = IF i = 0 THEN <<>> ELSE turn[i][t[i - 1]]
    BY <1>5 DEF IsRun
  <2>2. i # 0 => i \in 1..n /\ t[i - 1] \in Seq(Seq(Bytes))
    BY <1>1, <1>5 DEF IsRun
  <2>3. QED
    BY <1>3, <2>1, <2>2
<1>7. t = [i \in 0..n |-> IF i = 0 THEN <<>> ELSE LineField(t[i - 1], s[i])]
  BY <1>5, <1>6 DEF IsRun
<1>8. IsFields(s, Fields(s))
  BY <1>7 DEF IsFields, Fields, n
<1>9. FieldsOf(s) = Fields(s)[Len(s)]
  BY Zenon DEF FieldsOf, Fields, IsFields
<1> DEFINE u == Fields(s)  T == {i \in 0..n : u[i] \in Seq(Seq(Bytes))}
<1>10. u = [i \in 0..n |-> IF i = 0 THEN <<>> ELSE LineField(u[i - 1], s[i])]
  BY <1>8 DEF IsFields, n
<1> HIDE DEF u
<1>11. 0 \in T
  BY <1>1, <1>4, <1>10
<1>12. ASSUME NEW i \in 1..n, i - 1 \in T PROVE i \in T
  <2> DEFINE x == u[i - 1]
  <2>1. u[i] = LineField(x, s[i]) /\ x \in Seq(Seq(Bytes)) /\ s[i] \in Seq(Bytes)
    BY <1>1, <1>10, <1>12
  <2> HIDE DEF x
  <2>2. LineField(x, s[i]) \in Seq(Seq(Bytes))
    BY <2>1, LineFieldTyped
  <2>3. QED
    BY <2>1, <2>2
<1>13. \A i \in 0..n : i \in T
  <2> HIDE DEF T
  <2>1. QED
    BY <1>1, <1>11, <1>12, AllUpTo
<1>14. QED
  BY <1>8, <1>9, <1>13 DEF u, n

LEMMA FieldsOfIs ==
  /\ FieldsOf(<<>>) = <<>>
  /\ \A s \in Seq(Seq(Bytes)) : FieldsOf(s) \in Seq(Seq(Bytes))
  /\ \A s \in Seq(Seq(Bytes)), v \in Seq(Bytes) : FieldsOf(Append(s, v)) = LineField(FieldsOf(s), v)
<1>1. FieldsOf(<<>>) = <<>>
  <2> DEFINE none == <<>>  t == Fields(none)
  <2>1. none \in Seq(Seq(Bytes)) /\ Len(none) = 0
    OBVIOUS
  <2> HIDE DEF none
  <2>2. IsFields(none, t) /\ FieldsOf(none) = t[0]
    BY <2>1, FieldsRuns
  <2> HIDE DEF t
  <2>3. t[0] = <<>>
    BY <2>1, <2>2 DEF IsFields
  <2>4. QED
    BY <2>2, <2>3 DEF none
<1>2. ASSUME NEW s, s \in Seq(Seq(Bytes)) PROVE FieldsOf(s) \in Seq(Seq(Bytes))
  <2>1. Len(s) \in 0..Len(s)
    BY <1>2
  <2>2. QED
    BY <1>2, <2>1, FieldsRuns
<1>3. ASSUME NEW s, s \in Seq(Seq(Bytes)), NEW v, v \in Seq(Bytes) PROVE FieldsOf(Append(s, v)) = LineField(FieldsOf(s), v)
  <2> DEFINE c == Append(s, v)  n == Len(s)  t == Fields(c)  u == Fields(s)
  <2>1. /\ c \in Seq(Seq(Bytes)) /\ Len(c) = n + 1 /\ n \in Nat /\ c[n + 1] = v
        /\ \A i \in 1..n : c[i] = s[i]
    BY <1>3, AppendProperties
  <2> HIDE DEF c
  <2>2. /\ FieldsOf(c) = t[n + 1] /\ t[0] = <<>>
        /\ \A i \in 1..(n + 1) : t[i] = LineField(t[i - 1], c[i])
    <3>1. IsFields(c, t) /\ FieldsOf(c) = t[Len(c)]
      BY <2>1, FieldsRuns
    <3> HIDE DEF t, n
    <3>2. t = [i \in 0..(n + 1) |-> IF i = 0 THEN <<>> ELSE LineField(t[i - 1], c[i])]
      BY <2>1, <3>1 DEF IsFields
    <3>3. QED
      BY <2>1, <3>1, <3>2
  <2>3. /\ FieldsOf(s) = u[n] /\ u[0] = <<>>
        /\ \A i \in 1..n : u[i] = LineField(u[i - 1], s[i])
    BY <1>3, <2>1, FieldsRuns DEF IsFields
  <2> HIDE DEF t, u, n
  <2>4. \A i \in 1..n : t[i - 1] = u[i - 1] => t[i] = u[i]
    BY <2>1, <2>2, <2>3
  <2>5. t[n] = u[n]
    <3>1. t[0] = u[0] /\ n \in Nat
      BY <2>1, <2>2, <2>3
    <3>2. QED
      BY <2>4, <3>1, LoopsAgree
  <2>6. n + 1 \in 1..(n + 1) /\ (n + 1) - 1 = n
    BY <2>1
  <2>7. QED
    BY <2>1, <2>2, <2>3, <2>5, <2>6 DEF c
<1>4. QED
  BY <1>1, <1>2, <1>3

LEMMA LineCountedTyped == \A x \in Nat, v \in Seq(Bytes) : LineCounted(x, v) \in Nat
BY DEF LineCounted

IsCount(s, t) == t = [i \in 0..Len(s) |-> IF i = 0 THEN 0 ELSE LineCounted(t[i - 1], s[i])]
Count(s) == CHOOSE t : IsCount(s, t)

LEMMA CountRuns ==
  ASSUME NEW s, s \in Seq(Seq(Bytes))
  PROVE  /\ IsCount(s, Count(s)) /\ CountOf(s) = Count(s)[Len(s)]
         /\ \A i \in 0..Len(s) : Count(s)[i] \in Nat
<1> DEFINE n == Len(s)  turn == [i \in 1..n |-> [x \in Nat |-> LineCounted(x, s[i])]]
<1>1. n \in Nat /\ \A i \in 1..n : s[i] \in Seq(Bytes)
  OBVIOUS
<1>2. turn \in [1..n -> [Nat -> Nat]]
  BY <1>1, LineCountedTyped
<1>3. \A i \in 1..n, x \in Nat : turn[i][x] = LineCounted(x, s[i])
  OBVIOUS
<1>4. 0 \in Nat
  OBVIOUS
<1> HIDE DEF turn, n
<1>5. PICK t : IsRun(n, Nat, 0, turn, t)
  <2> DEFINE base == 0  set == Nat
  <2>1. base \in set /\ turn \in Turns(n, set)
    BY <1>2, <1>4 DEF Turns
  <2> HIDE DEF base, set
  <2>2. \E t : IsRun(n, set, base, turn, t)
    BY <1>1, <2>1, LoopRuns
  <2>3. QED
    BY <2>2, Zenon DEF base, set
<1>6. \A i \in 0..n : t[i] = IF i = 0 THEN 0 ELSE LineCounted(t[i - 1], s[i])
  <2> SUFFICES ASSUME NEW i \in 0..n PROVE t[i] = IF i = 0 THEN 0 ELSE LineCounted(t[i - 1], s[i])
    OBVIOUS
  <2>1. t[i] = IF i = 0 THEN 0 ELSE turn[i][t[i - 1]]
    BY <1>5 DEF IsRun
  <2>2. i # 0 => i \in 1..n /\ t[i - 1] \in Nat
    BY <1>1, <1>5 DEF IsRun
  <2>3. QED
    BY <1>3, <2>1, <2>2
<1>7. t = [i \in 0..n |-> IF i = 0 THEN 0 ELSE LineCounted(t[i - 1], s[i])]
  BY <1>5, <1>6 DEF IsRun
<1>8. IsCount(s, Count(s))
  BY <1>7 DEF IsCount, Count, n
<1>9. CountOf(s) = Count(s)[Len(s)]
  BY Zenon DEF CountOf, Count, IsCount
<1> DEFINE u == Count(s)  T == {i \in 0..n : u[i] \in Nat}
<1>10. u = [i \in 0..n |-> IF i = 0 THEN 0 ELSE LineCounted(u[i - 1], s[i])]
  BY <1>8 DEF IsCount, n
<1> HIDE DEF u
<1>11. 0 \in T
  BY <1>1, <1>4, <1>10
<1>12. ASSUME NEW i \in 1..n, i - 1 \in T PROVE i \in T
  <2> DEFINE x == u[i - 1]
  <2>1. u[i] = LineCounted(x, s[i]) /\ x \in Nat /\ s[i] \in Seq(Bytes)
    BY <1>1, <1>10, <1>12
  <2> HIDE DEF x
  <2>2. LineCounted(x, s[i]) \in Nat
    BY <2>1, LineCountedTyped
  <2>3. QED
    BY <2>1, <2>2
<1>13. \A i \in 0..n : i \in T
  <2> HIDE DEF T
  <2>1. QED
    BY <1>1, <1>11, <1>12, AllUpTo
<1>14. QED
  BY <1>8, <1>9, <1>13 DEF u, n

LEMMA CountOfIs ==
  /\ CountOf(<<>>) = 0
  /\ \A s \in Seq(Seq(Bytes)) : CountOf(s) \in Nat
  /\ \A s \in Seq(Seq(Bytes)), v \in Seq(Bytes) : CountOf(Append(s, v)) = LineCounted(CountOf(s), v)
<1>1. CountOf(<<>>) = 0
  <2> DEFINE none == <<>>  t == Count(none)
  <2>1. none \in Seq(Seq(Bytes)) /\ Len(none) = 0
    OBVIOUS
  <2> HIDE DEF none
  <2>2. IsCount(none, t) /\ CountOf(none) = t[0]
    BY <2>1, CountRuns
  <2> HIDE DEF t
  <2>3. t[0] = 0
    BY <2>1, <2>2 DEF IsCount
  <2>4. QED
    BY <2>2, <2>3 DEF none
<1>2. ASSUME NEW s, s \in Seq(Seq(Bytes)) PROVE CountOf(s) \in Nat
  <2>1. Len(s) \in 0..Len(s)
    BY <1>2
  <2>2. QED
    BY <1>2, <2>1, CountRuns
<1>3. ASSUME NEW s, s \in Seq(Seq(Bytes)), NEW v, v \in Seq(Bytes) PROVE CountOf(Append(s, v)) = LineCounted(CountOf(s), v)
  <2> DEFINE c == Append(s, v)  n == Len(s)  t == Count(c)  u == Count(s)
  <2>1. /\ c \in Seq(Seq(Bytes)) /\ Len(c) = n + 1 /\ n \in Nat /\ c[n + 1] = v
        /\ \A i \in 1..n : c[i] = s[i]
    BY <1>3, AppendProperties
  <2> HIDE DEF c
  <2>2. /\ CountOf(c) = t[n + 1] /\ t[0] = 0
        /\ \A i \in 1..(n + 1) : t[i] = LineCounted(t[i - 1], c[i])
    <3>1. IsCount(c, t) /\ CountOf(c) = t[Len(c)]
      BY <2>1, CountRuns
    <3> HIDE DEF t, n
    <3>2. t = [i \in 0..(n + 1) |-> IF i = 0 THEN 0 ELSE LineCounted(t[i - 1], c[i])]
      BY <2>1, <3>1 DEF IsCount
    <3>3. QED
      BY <2>1, <3>1, <3>2
  <2>3. /\ CountOf(s) = u[n] /\ u[0] = 0
        /\ \A i \in 1..n : u[i] = LineCounted(u[i - 1], s[i])
    BY <1>3, <2>1, CountRuns DEF IsCount
  <2> HIDE DEF t, u, n
  <2>4. \A i \in 1..n : t[i - 1] = u[i - 1] => t[i] = u[i]
    BY <2>1, <2>2, <2>3
  <2>5. t[n] = u[n]
    <3>1. t[0] = u[0] /\ n \in Nat
      BY <2>1, <2>2, <2>3
    <3>2. QED
      BY <2>4, <3>1, LoopsAgree
  <2>6. n + 1 \in 1..(n + 1) /\ (n + 1) - 1 = n
    BY <2>1
  <2>7. QED
    BY <2>1, <2>2, <2>3, <2>5, <2>6 DEF c
<1>4. QED
  BY <1>1, <1>2, <1>3

LEMMA JoinedTyped ==
  \A s \in Seq(Bytes), v \in Seq(Bytes) : LineJoined(s, v) \in Seq(Bytes)
<1> SUFFICES ASSUME NEW s, s \in Seq(Bytes), NEW v, v \in Seq(Bytes)
             PROVE  LineJoined(s, v) \in Seq(Bytes)
  OBVIOUS
<1> DEFINE lf == <<"lf">>
<1>1. lf \in Seq(Bytes)
  BY DEF Bytes
<1> HIDE DEF lf
<1>2. s \o lf \in Seq(Bytes)
  BY <1>1, ConcatProperties
<1> DEFINE t == s \o lf
<1> HIDE DEF t
<1>3. t \o v \in Seq(Bytes)
  BY <1>2, ConcatProperties DEF t
<1>4. QED
  BY <1>3 DEF LineJoined, t, lf

-----------------------------------------------------------------------------
(* The reader                                                              *)

\* What a reader is in any case
LEMMA ReaderIs ==
  ASSUME NEW r, r \in Reader
  PROVE  /\ r.events \in Seq(Seq(Bytes)) /\ r.data \in Seq(Seq(Bytes))
         /\ r.line \in Seq(Bytes) /\ r.usage \in Nat
         /\ r = [events |-> r.events, data |-> r.data, line |-> r.line, usage |-> r.usage]
BY DEF Reader

\* What is joined of strings is a string, without white space at its ends if
\* they are none of them empty nor have any.
TidyAll(values) == \A i \in 1..Len(values) : values[i] # <<>> /\ Tidy(values[i])

IsJoined(values, t) ==
  t = [i \in 0..Len(values) |->
         IF i = 0 THEN <<>> ELSE IF i = 1 THEN values[1] ELSE LineJoined(t[i - 1], values[i])]
Joined(values) == CHOOSE t : IsJoined(values, t)

LEMMA JoinedRuns ==
  ASSUME NEW values, values \in Seq(Seq(Bytes))
  PROVE  /\ IsJoined(values, Joined(values)) /\ JoinLines(values) = Joined(values)[Len(values)]
         /\ \A i \in 0..Len(values) : Joined(values)[i] \in Seq(Bytes)
<1> DEFINE n == Len(values)  one == values[1]
           turn == [i \in 1..n |-> [x \in Seq(Bytes) |->
                      IF i = 1 THEN one ELSE LineJoined(x, values[i])]]
<1>1. n \in Nat /\ (\A i \in 1..n : values[i] \in Seq(Bytes)) /\ (n > 0 => one \in Seq(Bytes))
  OBVIOUS
<1> HIDE DEF one, n
<1>2. turn \in Turns(n, Seq(Bytes))
  <2>1. \A i \in 1..n, x \in Seq(Bytes) :
          (IF i = 1 THEN one ELSE LineJoined(x, values[i])) \in Seq(Bytes)
    BY <1>1, JoinedTyped
  <2>2. QED
    BY <2>1 DEF Turns
<1>3. \A i \in 1..n, x \in Seq(Bytes) :
        turn[i][x] = IF i = 1 THEN one ELSE LineJoined(x, values[i])
  OBVIOUS
<1>4. <<>> \in Seq(Bytes)
  OBVIOUS
<1> HIDE DEF turn
<1>5. PICK t : IsRun(n, Seq(Bytes), <<>>, turn, t)
  <2> DEFINE base == <<>>
  <2>1. base \in Seq(Bytes)
    OBVIOUS
  <2> HIDE DEF base
  <2>2. \E t : IsRun(n, Seq(Bytes), base, turn, t)
    BY <1>1, <1>2, <2>1, LoopRuns
  <2>3. QED
    BY <2>2, Zenon DEF base
<1>6. \A i \in 0..n : t[i] = IF i = 0 THEN <<>> ELSE IF i = 1 THEN one
                             ELSE LineJoined(t[i - 1], values[i])
  <2> SUFFICES ASSUME NEW i \in 0..n
               PROVE  t[i] = IF i = 0 THEN <<>> ELSE IF i = 1 THEN one
                             ELSE LineJoined(t[i - 1], values[i])
    OBVIOUS
  <2>1. t[i] = IF i = 0 THEN <<>> ELSE turn[i][t[i - 1]]
    BY <1>5 DEF IsRun
  <2>2. i # 0 => i \in 1..n /\ t[i - 1] \in Seq(Bytes)
    BY <1>1, <1>5 DEF IsRun
  <2>3. QED
    BY <1>3, <2>1, <2>2
<1>7. t = [i \in 0..n |-> IF i = 0 THEN <<>> ELSE IF i = 1 THEN one
                          ELSE LineJoined(t[i - 1], values[i])]
  BY <1>5, <1>6 DEF IsRun
<1>8. IsJoined(values, Joined(values))
  BY <1>7 DEF IsJoined, Joined, n, one
<1>9. JoinLines(values) = Joined(values)[Len(values)]
  BY Zenon DEF JoinLines, Joined, IsJoined
<1> DEFINE u == Joined(values)  T == {i \in 0..n : u[i] \in Seq(Bytes)}
<1>10. u = [i \in 0..n |-> IF i = 0 THEN <<>> ELSE IF i = 1 THEN one
                           ELSE LineJoined(u[i - 1], values[i])]
  BY <1>8 DEF IsJoined, n, one
<1> HIDE DEF u
<1>11. 0 \in T
  BY <1>1, <1>4, <1>10
<1>12. ASSUME NEW i \in 1..n, i - 1 \in T PROVE i \in T
  <2> DEFINE x == u[i - 1]
  <2>1. u[i] = (IF i = 1 THEN one ELSE LineJoined(x, values[i])) /\ x \in Seq(Bytes)
    BY <1>1, <1>10, <1>12
  <2> HIDE DEF x
  <2>2. LineJoined(x, values[i]) \in Seq(Bytes) /\ one \in Seq(Bytes)
    BY <1>1, <2>1, JoinedTyped
  <2>3. QED
    BY <2>1, <2>2
<1>13. \A i \in 0..n : i \in T
  <2> HIDE DEF T
  <2>1. QED
    BY <1>1, <1>11, <1>12, AllUpTo
<1>14. QED
  BY <1>8, <1>9, <1>13 DEF u, n

LEMMA JoinLinesTyped == \A values \in Seq(Seq(Bytes)) : JoinLines(values) \in Seq(Bytes)
<1> SUFFICES ASSUME NEW values, values \in Seq(Seq(Bytes)) PROVE JoinLines(values) \in Seq(Bytes)
  OBVIOUS
<1>1. Len(values) \in 0..Len(values)
  OBVIOUS
<1>2. QED
  BY <1>1, JoinedRuns

\* A value behind others keeps the ends free of white space.
LEMMA JoinedTidy ==
  ASSUME NEW s, s \in Seq(Bytes), s # <<>>, Tidy(s), NEW v, v \in Seq(Bytes), v # <<>>, Tidy(v)
  PROVE  LineJoined(s, v) # <<>> /\ Tidy(LineJoined(s, v))
<1> DEFINE lf == <<"lf">>  t == s \o lf  j == t \o v
<1>1. lf \in Seq(Bytes) /\ Len(lf) = 1
  BY DEF Bytes
<1>2. /\ Len(s) \in Nat /\ Len(s) > 0 /\ Len(v) \in Nat /\ Len(v) > 0
      /\ s[1] \notin Spaces /\ v[Len(v)] \notin Spaces
  BY DEF Tidy
<1> HIDE DEF lf
<1>3. t \in Seq(Bytes) /\ Len(t) = Len(s) + 1 /\ t[1] = s[1]
  <2>1. \A i \in 1..(Len(s) + Len(lf)) : t[i] = IF i <= Len(s) THEN s[i] ELSE lf[i - Len(s)]
    BY <1>1, ConcatProperties
  <2>2. t \in Seq(Bytes) /\ Len(t) = Len(s) + Len(lf)
    BY <1>1, ConcatProperties
  <2> HIDE DEF t
  <2>3. QED
    BY <1>1, <1>2, <2>1, <2>2
<1> HIDE DEF t
<1>4. j \in Seq(Bytes) /\ Len(j) = Len(t) + Len(v) /\ j[1] = t[1] /\ j[Len(j)] = v[Len(v)]
  <2>1. \A i \in 1..(Len(t) + Len(v)) : j[i] = IF i <= Len(t) THEN t[i] ELSE v[i - Len(t)]
    BY <1>3, ConcatProperties
  <2>2. j \in Seq(Bytes) /\ Len(j) = Len(t) + Len(v)
    BY <1>3, ConcatProperties
  <2> HIDE DEF j
  <2>3. QED
    BY <1>2, <1>3, <2>1, <2>2
<1> HIDE DEF j
<1>5. j # <<>> /\ Tidy(j)
  BY <1>2, <1>3, <1>4 DEF Tidy
<1>6. QED
  BY <1>5 DEF j, t, lf, LineJoined

LEMMA JoinLinesTidy ==
  ASSUME NEW values, values \in Seq(Seq(Bytes)), TidyAll(values)
  PROVE  Tidy(JoinLines(values))
<1> DEFINE n == Len(values)  t == Joined(values)  one == values[1]
           T == {i \in 0..n : i > 0 => t[i] # <<>> /\ Tidy(t[i])}
<1>1. n \in Nat /\ \A i \in 1..n : values[i] \in Seq(Bytes) /\ values[i] # <<>> /\ Tidy(values[i])
  BY DEF TidyAll
<1>2. /\ IsJoined(values, t) /\ JoinLines(values) = t[n]
      /\ \A i \in 0..n : t[i] \in Seq(Bytes)
  BY JoinedRuns
<1> HIDE DEF t
<1>3. /\ t[0] = <<>>
      /\ \A i \in 1..n : t[i] = IF i = 1 THEN one ELSE LineJoined(t[i - 1], values[i])
  <2>1. t = [i \in 0..n |-> IF i = 0 THEN <<>> ELSE IF i = 1 THEN one
                            ELSE LineJoined(t[i - 1], values[i])]
    BY <1>2 DEF IsJoined
  <2> HIDE DEF n, one
  <2>2. QED
    BY <1>1, <2>1
<1>4. 1 \in 1..n => one \in Seq(Bytes) /\ one # <<>> /\ Tidy(one)
  BY <1>1
<1> HIDE DEF n, one
<1>5. 0 \in T
  BY <1>1
<1>6. ASSUME NEW i \in 1..n, i - 1 \in T PROVE i \in T
  <2>1. CASE i = 1
    BY <1>1, <1>3, <1>4, <2>1
  <2>2. CASE i # 1
    <3> DEFINE x == t[i - 1]  v == values[i]
    <3>1. /\ x \in Seq(Bytes) /\ x # <<>> /\ Tidy(x) /\ t[i] = LineJoined(x, v)
          /\ v \in Seq(Bytes) /\ v # <<>> /\ Tidy(v)
      BY <1>1, <1>2, <1>3, <1>6, <2>2
    <3> HIDE DEF x, v
    <3>2. LineJoined(x, v) # <<>> /\ Tidy(LineJoined(x, v))
      BY <3>1, JoinedTidy
    <3>3. QED
      BY <1>1, <3>1, <3>2
  <2>3. QED
    BY <2>1, <2>2
<1>7. \A i \in 0..n : i \in T
  <2> HIDE DEF T
  <2>1. QED
    BY <1>1, <1>5, <1>6, AllUpTo
<1>8. Tidy(t[n])
  <2>1. n \in T
    BY <1>1, <1>7
  <2>2. CASE n = 0
    BY <1>3, <2>2 DEF Tidy
  <2>3. CASE n # 0
    BY <1>1, <2>1, <2>3
  <2>4. QED
    BY <2>2, <2>3
<1>9. QED
  BY <1>2, <1>8

LEMMA DispatchTyped == \A data \in Seq(Seq(Bytes)) : Dispatch(data) \in Seq(Seq(Bytes))
<1> SUFFICES ASSUME NEW data, data \in Seq(Seq(Bytes)) PROVE Dispatch(data) \in Seq(Seq(Bytes))
  OBVIOUS
<1> DEFINE j == JoinLines(data)
<1>1. j \in Seq(Bytes)
  BY JoinLinesTyped
<1>2. Dispatch(data) = <<>> \/ Dispatch(data) = <<j>>
  BY DEF Dispatch
<1> HIDE DEF j
<1>3. <<j>> \in Seq(Seq(Bytes)) /\ <<>> \in Seq(Seq(Bytes))
  BY <1>1
<1>4. QED
  BY <1>2, <1>3, Zenon

LEMMA ValueTyped == \A line \in Seq(Bytes) : line # <<>> => Value(line) \in Seq(Bytes)
<1> SUFFICES ASSUME NEW line, line \in Seq(Bytes), line # <<>> PROVE Value(line) \in Seq(Bytes)
  OBVIOUS
<1>1. Tail(line) \in Seq(Bytes) /\ "sp" \in Bytes
  BY HeadTailProperties DEF Bytes
<1>2. QED
  BY <1>1, TrimPrefixTyped DEF Value

LEMMA LineReadTyped == \A r \in Reader : LineRead(r) \in Reader
<1> SUFFICES ASSUME NEW r, r \in Reader PROVE LineRead(r) \in Reader
  OBVIOUS
<1> DEFINE e == r.events  d == r.data  l == r.line  u == r.usage
<1>1. e \in Seq(Seq(Bytes)) /\ d \in Seq(Seq(Bytes)) /\ l \in Seq(Bytes) /\ u \in Nat
  BY ReaderIs
<1> HIDE DEF e, d, l, u
<1>2. Dispatch(d) \in Seq(Seq(Bytes))
  BY <1>1, DispatchTyped
<1>3. e \o Dispatch(d) \in Seq(Seq(Bytes))
  BY <1>1, <1>2, ConcatProperties
<1>4. l # <<>> => Append(d, Value(l)) \in Seq(Seq(Bytes))
  BY <1>1, ValueTyped, AppendProperties
<1>5. <<>> \in Seq(Seq(Bytes)) /\ <<>> \in Seq(Bytes)
  OBVIOUS
<1>6. QED
  BY <1>1, <1>3, <1>4, <1>5 DEF LineRead, Reader, e, d, l, u

LEMMA ByteReadTyped == \A r \in Reader, b \in Bytes : ByteRead(r, b) \in Reader
<1> SUFFICES ASSUME NEW r, r \in Reader, NEW b, b \in Bytes PROVE ByteRead(r, b) \in Reader
  OBVIOUS
<1>1. LineRead(r) \in Reader
  BY LineReadTyped
<1> DEFINE l == Append(r.line, b)
<1>2. l \in Seq(Bytes)
  BY ReaderIs, AppendProperties
<1> HIDE DEF l
<1>3. [r EXCEPT !.line = l] \in Reader
  BY <1>2 DEF Reader
<1>4. QED
  BY <1>1, <1>3 DEF ByteRead, l

IsReading(s, t) == t = [i \in 0..Len(s) |-> IF i = 0 THEN Fresh ELSE ByteRead(t[i - 1], s[i])]
Reading(s) == CHOOSE t : IsReading(s, t)

LEMMA ReadingRuns ==
  ASSUME NEW s, s \in Seq(Bytes)
  PROVE  /\ IsReading(s, Reading(s)) /\ ReadUpTo(s) = Reading(s)[Len(s)]
         /\ \A i \in 0..Len(s) : Reading(s)[i] \in Reader
<1> DEFINE n == Len(s)  turn == [i \in 1..n |-> [x \in Reader |-> ByteRead(x, s[i])]]
<1>1. n \in Nat /\ \A i \in 1..n : s[i] \in Bytes
  OBVIOUS
<1>2. turn \in [1..n -> [Reader -> Reader]]
  BY <1>1, ByteReadTyped
<1>3. \A i \in 1..n, x \in Reader : turn[i][x] = ByteRead(x, s[i])
  OBVIOUS
<1>4. Fresh \in Reader
  BY DEF Fresh, Reader
<1> HIDE DEF turn, n
<1>5. PICK t : IsRun(n, Reader, Fresh, turn, t)
  <2> DEFINE base == Fresh  set == Reader
  <2>1. base \in set /\ turn \in Turns(n, set)
    BY <1>2, <1>4 DEF Turns
  <2> HIDE DEF base, set
  <2>2. \E t : IsRun(n, set, base, turn, t)
    BY <1>1, <2>1, LoopRuns
  <2>3. QED
    BY <2>2, Zenon DEF base, set
<1>6. \A i \in 0..n : t[i] = IF i = 0 THEN Fresh ELSE ByteRead(t[i - 1], s[i])
  <2> SUFFICES ASSUME NEW i \in 0..n PROVE t[i] = IF i = 0 THEN Fresh ELSE ByteRead(t[i - 1], s[i])
    OBVIOUS
  <2>1. t[i] = IF i = 0 THEN Fresh ELSE turn[i][t[i - 1]]
    BY <1>5 DEF IsRun
  <2>2. i # 0 => i \in 1..n /\ t[i - 1] \in Reader
    BY <1>1, <1>5 DEF IsRun
  <2>3. QED
    BY <1>3, <2>1, <2>2
<1>7. t = [i \in 0..n |-> IF i = 0 THEN Fresh ELSE ByteRead(t[i - 1], s[i])]
  BY <1>5, <1>6 DEF IsRun
<1>8. IsReading(s, Reading(s))
  BY <1>7 DEF IsReading, Reading, n
<1>9. ReadUpTo(s) = Reading(s)[Len(s)]
  BY Zenon DEF ReadUpTo, Reading, IsReading
<1> DEFINE u == Reading(s)  T == {i \in 0..n : u[i] \in Reader}
<1>10. u = [i \in 0..n |-> IF i = 0 THEN Fresh ELSE ByteRead(u[i - 1], s[i])]
  BY <1>8 DEF IsReading, n
<1> HIDE DEF u
<1>11. 0 \in T
  BY <1>1, <1>4, <1>10
<1>12. ASSUME NEW i \in 1..n, i - 1 \in T PROVE i \in T
  <2> DEFINE x == u[i - 1]
  <2>1. u[i] = ByteRead(x, s[i]) /\ x \in Reader /\ s[i] \in Bytes
    BY <1>1, <1>10, <1>12
  <2> HIDE DEF x
  <2>2. ByteRead(x, s[i]) \in Reader
    BY <2>1, ByteReadTyped
  <2>3. QED
    BY <2>1, <2>2
<1>13. \A i \in 0..n : i \in T
  <2> HIDE DEF T
  <2>1. QED
    BY <1>1, <1>11, <1>12, AllUpTo
<1>14. QED
  BY <1>8, <1>9, <1>13 DEF u, n

LEMMA ReadUpToIs ==
  /\ ReadUpTo(<<>>) = Fresh
  /\ \A s \in Seq(Bytes) : ReadUpTo(s) \in Reader
  /\ \A s \in Seq(Bytes), v \in Bytes : ReadUpTo(Append(s, v)) = ByteRead(ReadUpTo(s), v)
<1>1. ReadUpTo(<<>>) = Fresh
  <2> DEFINE none == <<>>  t == Reading(none)
  <2>1. none \in Seq(Bytes) /\ Len(none) = 0
    OBVIOUS
  <2> HIDE DEF none
  <2>2. IsReading(none, t) /\ ReadUpTo(none) = t[0]
    BY <2>1, ReadingRuns
  <2> HIDE DEF t
  <2>3. t[0] = Fresh
    BY <2>1, <2>2 DEF IsReading
  <2>4. QED
    BY <2>2, <2>3 DEF none
<1>2. ASSUME NEW s, s \in Seq(Bytes) PROVE ReadUpTo(s) \in Reader
  <2>1. Len(s) \in 0..Len(s)
    BY <1>2
  <2>2. QED
    BY <1>2, <2>1, ReadingRuns
<1>3. ASSUME NEW s, s \in Seq(Bytes), NEW v, v \in Bytes PROVE ReadUpTo(Append(s, v)) = ByteRead(ReadUpTo(s), v)
  <2> DEFINE c == Append(s, v)  n == Len(s)  t == Reading(c)  u == Reading(s)
  <2>1. /\ c \in Seq(Bytes) /\ Len(c) = n + 1 /\ n \in Nat /\ c[n + 1] = v
        /\ \A i \in 1..n : c[i] = s[i]
    BY <1>3, AppendProperties
  <2> HIDE DEF c
  <2>2. /\ ReadUpTo(c) = t[n + 1] /\ t[0] = Fresh
        /\ \A i \in 1..(n + 1) : t[i] = ByteRead(t[i - 1], c[i])
    <3>1. IsReading(c, t) /\ ReadUpTo(c) = t[Len(c)]
      BY <2>1, ReadingRuns
    <3> HIDE DEF t, n
    <3>2. t = [i \in 0..(n + 1) |-> IF i = 0 THEN Fresh ELSE ByteRead(t[i - 1], c[i])]
      BY <2>1, <3>1 DEF IsReading
    <3>3. QED
      BY <2>1, <3>1, <3>2
  <2>3. /\ ReadUpTo(s) = u[n] /\ u[0] = Fresh
        /\ \A i \in 1..n : u[i] = ByteRead(u[i - 1], s[i])
    BY <1>3, <2>1, ReadingRuns DEF IsReading
  <2> HIDE DEF t, u, n
  <2>4. \A i \in 1..n : t[i - 1] = u[i - 1] => t[i] = u[i]
    BY <2>1, <2>2, <2>3
  <2>5. t[n] = u[n]
    <3>1. t[0] = u[0] /\ n \in Nat
      BY <2>1, <2>2, <2>3
    <3>2. QED
      BY <2>4, <3>1, LoopsAgree
  <2>6. n + 1 \in 1..(n + 1) /\ (n + 1) - 1 = n
    BY <2>1
  <2>7. QED
    BY <2>1, <2>2, <2>3, <2>5, <2>6 DEF c
<1>4. QED
  BY <1>1, <1>2, <1>3

-----------------------------------------------------------------------------
(* From string to string                                                   *)

\* What the empty string has and each string passes on to the next, all have.
LEMMA AllStrings ==
  ASSUME NEW S, NEW T, <<>> \in T, \A s \in Seq(S), b \in S : s \in T => Append(s, b) \in T
  PROVE  \A s \in Seq(S) : s \in T
<1> SUFFICES ASSUME NEW s, s \in Seq(S) PROVE s \in T
  OBVIOUS
<1> DEFINE n == Len(s)  upto(i) == SubSeq(s, 1, i)  U == {i \in 0..n : upto(i) \in T}
<1>1. n \in Nat /\ \A i \in 1..n : s[i] \in S
  OBVIOUS
<1>2. \A i \in 0..n : upto(i) \in Seq(S)
  <2> SUFFICES ASSUME NEW i \in 0..n PROVE upto(i) \in Seq(S)
    OBVIOUS
  <2>1. \A j \in 1..i : s[j] \in S
    BY <1>1
  <2>2. QED
    BY <1>1, <2>1, SubSeqProperties
<1>3. 0 \in U
  <2>1. upto(0) = <<>>
    BY <1>1, SubSeqEmpty
  <2> HIDE DEF upto
  <2>2. upto(0) \in T
    BY <2>1, Zenon
  <2>3. QED
    BY <1>1, <2>2
<1>4. ASSUME NEW i \in 1..n, i - 1 \in U PROVE i \in U
  <2>1. 1 \in 1..Len(s) /\ i \in 1..Len(s)
    BY <1>1
  <2>2. upto(i) = upto(i - 1) \o <<s[i]>>
    BY <2>1, SubSeqRecursiveSecond
  <2>3. upto(i - 1) \in Seq(S) /\ upto(i - 1) \in T /\ s[i] \in S
    BY <1>1, <1>2, <1>4
  <2> DEFINE p == upto(i - 1)  b == s[i]
  <2> HIDE DEF p, b
  <2>4. p \o <<b>> = Append(p, b) /\ p \in Seq(S) /\ b \in S /\ p \in T
    BY <2>3, AppendIsConcat DEF p, b
  <2>5. upto(i) = Append(p, b)
    BY <2>2, <2>4 DEF p, b
  <2>6. Append(p, b) \in T
    BY <2>4
  <2> HIDE DEF upto
  <2>7. upto(i) \in T
    BY <2>5, <2>6, Zenon
  <2>8. QED
    BY <1>1, <2>7
<1>5. \A i \in 0..n : i \in U
  <2> HIDE DEF U
  <2>1. QED
    BY <1>1, <1>3, <1>4, AllUpTo
<1>6. upto(n) = s
  BY SubSeqFull
<1>7. n \in U
  BY <1>1, <1>5
<1>8. QED
  BY <1>6, <1>7

LEMMA FrontLast ==
  ASSUME NEW S, NEW q, q \in Seq(S), NEW x, x \in S
  PROVE  Front(Append(q, x)) = q /\ Last(Append(q, x)) = x
<1> DEFINE c == Append(q, x)
<1>1. /\ c \in Seq(S) /\ Len(c) = Len(q) + 1 /\ c[Len(q) + 1] = x
      /\ \A i \in 1..Len(q) : c[i] = q[i]
  BY AppendProperties
<1>2. Len(q) \in Nat /\ \A i \in 1..Len(q) : q[i] \in S
  OBVIOUS
<1> HIDE DEF c
<1> DEFINE f == SubSeq(c, 1, Len(q))
<1>3. /\ f \in Seq(S) /\ Len(f) = IF 1 <= Len(q) THEN Len(q) - 1 + 1 ELSE 0
      /\ \A i \in 1..(Len(q) - 1 + 1) : f[i] = c[1 + i - 1]
  <2>1. \A i \in 1..Len(q) : c[i] \in S
    BY <1>1, <1>2
  <2>2. QED
    BY <1>2, <2>1, SubSeqProperties
<1> HIDE DEF f
<1>4. Len(f) = Len(q)
  BY <1>2, <1>3
<1>5. ASSUME NEW i \in 1..Len(f) PROVE f[i] = q[i]
  <2>1. i \in 1..(Len(q) - 1 + 1) /\ 1 + i - 1 = i /\ i \in 1..Len(q)
    BY <1>2, <1>4
  <2>2. QED
    BY <1>1, <1>3, <2>1
<1>6. f = q
  BY <1>3, <1>4, <1>5, SeqEqual
<1>7. Len(c) - 1 = Len(q)
  BY <1>1, <1>2
<1>8. QED
  BY <1>1, <1>6, <1>7 DEF Front, Last, c, f

LEMMA LinesAre ==
  ASSUME NEW x, x \in Lines
  PROVE  /\ Front(x) \in Seq(Seq(Bytes)) /\ Last(x) \in Seq(Bytes)
         /\ x = Append(Front(x), Last(x))
<1>1. x \in Seq(Seq(Bytes)) /\ x # <<>>
  BY DEF Lines
<1> DEFINE S == Seq(Bytes)
<1>2. x \in Seq(S)
  BY <1>1
<1> HIDE DEF S
<1>3. PICK q, l : q \in Seq(S) /\ l \in S /\ x = Append(q, l)
  BY <1>1, <1>2, SequenceEmptyOrAppend
<1>4. Front(x) = q /\ Last(x) = l
  BY <1>3, FrontLast
<1>5. QED
  BY <1>3, <1>4 DEF S

\* One more byte: the lines in front of the last one, and the last one
LEMMA SplitEnds ==
  ASSUME NEW s, s \in Seq(Bytes), NEW b, b \in Bytes
  PROVE  /\ SplitLines(s) \in Lines /\ SplitLines(Append(s, b)) \in Lines
         /\ b = "lf" => /\ SplitLines(Append(s, b)) = Append(SplitLines(s), <<>>)
                        /\ Front(SplitLines(Append(s, b))) = SplitLines(s)
                        /\ Last(SplitLines(Append(s, b))) = <<>>
         /\ b # "lf" => /\ Front(SplitLines(Append(s, b))) = Front(SplitLines(s))
                        /\ Last(SplitLines(Append(s, b))) = Append(Last(SplitLines(s)), b)
<1> DEFINE x == SplitLines(s)  y == SplitLines(Append(s, b))  l == Last(x)  f == Front(x)
<1>1. Append(s, b) \in Seq(Bytes)
  BY AppendProperties
<1>2. x \in Lines /\ y \in Lines /\ y = ByteSplit(x, b)
  BY <1>1, SplitLinesIs
<1>3. x \in Seq(Seq(Bytes)) /\ f \in Seq(Seq(Bytes)) /\ l \in Seq(Bytes)
  BY <1>2, LinesAre DEF Lines
<1> HIDE DEF x, y, l, f
<1>4. y = IF b = "lf" THEN Append(x, <<>>) ELSE Append(f, Append(l, b))
  BY <1>2 DEF ByteSplit, l, f
<1> DEFINE m == Append(l, b)  none == <<>>
<1>5. m \in Seq(Bytes) /\ none \in Seq(Bytes)
  BY <1>3, AppendProperties
<1> HIDE DEF m, none
<1>6. Front(Append(x, none)) = x /\ Last(Append(x, none)) = none
  BY <1>3, <1>5, FrontLast
<1>7. Front(Append(f, m)) = f /\ Last(Append(f, m)) = m
  BY <1>3, <1>5, FrontLast
<1>8. CASE b = "lf"
  <2>1. y = Append(x, none)
    BY <1>4, <1>8 DEF none
  <2>2. QED
    BY <1>2, <1>6, <1>8, <2>1 DEF x, y, none
<1>9. CASE b # "lf"
  <2>1. y = Append(f, m)
    BY <1>4, <1>9 DEF m
  <2>2. QED
    BY <1>2, <1>7, <1>9, <2>1 DEF x, y, m, l, f
<1>10. QED
  BY <1>8, <1>9

\* No line end is in a line.
Ending(l, s) ==
  /\ l \in Seq(Bytes) /\ Len(l) <= Len(s)
  /\ \A i \in 1..Len(l) : l[i] = s[Len(s) - Len(l) + i] /\ l[i] # "lf"
  /\ Len(l) < Len(s) => s[Len(s) - Len(l)] = "lf"

LEMMA EndingGrows ==
  ASSUME NEW l, NEW s, s \in Seq(Bytes), Ending(l, s), NEW b, b \in Bytes
  PROVE  IF b = "lf" THEN Ending(<<>>, Append(s, b)) ELSE Ending(Append(l, b), Append(s, b))
<1> DEFINE c == Append(s, b)  n == Len(s)
<1>1. c \in Seq(Bytes) /\ Len(c) = n + 1 /\ c[n + 1] = b /\ n \in Nat
  BY AppendProperties
<1>2. \A i \in 1..n : c[i] = s[i]
  BY AppendProperties
<1> HIDE DEF c
<1>3. CASE b = "lf"
  <2> DEFINE none == <<>>
  <2>1. none \in Seq(Bytes) /\ Len(none) = 0
    OBVIOUS
  <2> HIDE DEF none
  <2>2. (n + 1) - 0 = n + 1 /\ 0 <= n + 1
    BY <1>1
  <2>3. Ending(none, c)
    BY <1>1, <1>3, <2>1, <2>2 DEF Ending
  <2>4. QED
    BY <1>3, <2>3 DEF c, none
<1>4. CASE b # "lf"
  <2> DEFINE m == Append(l, b)  k == Len(l)
  <2>1. l \in Seq(Bytes) /\ k \in Nat /\ k <= n
    BY DEF Ending
  <2>2. m \in Seq(Bytes) /\ Len(m) = k + 1 /\ m[k + 1] = b /\ \A i \in 1..k : m[i] = l[i]
    BY <2>1, AppendProperties
  <2>3. \A i \in 1..k : l[i] = s[n - k + i] /\ l[i] # "lf"
    BY DEF Ending
  <2>4. k < n => s[n - k] = "lf"
    BY DEF Ending
  <2> HIDE DEF m, k, n
  <2>5. ASSUME NEW i \in 1..(k + 1) PROVE m[i] = c[(n + 1) - (k + 1) + i] /\ m[i] # "lf"
    <3>1. (n + 1) - (k + 1) + i = n - k + i
      BY <1>1, <2>1
    <3>2. CASE i = k + 1
      <4>1. n - k + i = n + 1
        BY <1>1, <2>1, <3>2
      <4>2. QED
        BY <1>1, <1>4, <2>2, <3>1, <3>2, <4>1
    <3>3. CASE i # k + 1
      <4>1. i \in 1..k /\ n - k + i \in 1..n
        BY <1>1, <2>1, <3>3
      <4>2. QED
        BY <1>2, <2>2, <2>3, <3>1, <4>1
    <3>4. QED
      BY <3>2, <3>3
  <2>6. k + 1 < n + 1 => c[(n + 1) - (k + 1)] = "lf"
    <3> SUFFICES ASSUME k + 1 < n + 1 PROVE c[(n + 1) - (k + 1)] = "lf"
      OBVIOUS
    <3>1. (n + 1) - (k + 1) = n - k /\ n - k \in 1..n /\ k < n
      BY <1>1, <2>1
    <3>2. QED
      BY <1>2, <2>4, <3>1
  <2>7. k + 1 <= n + 1
    BY <1>1, <2>1
  <2>8. Ending(m, c)
    BY <1>1, <2>2, <2>5, <2>6, <2>7 DEF Ending
  <2>9. QED
    BY <1>4, <2>8 DEF c, m
<1>5. QED
  BY <1>3, <1>4

LEMMA LastLine == \A s \in Seq(Bytes) : Ending(Last(SplitLines(s)), s)
<1> DEFINE T == {s \in Seq(Bytes) : Ending(Last(SplitLines(s)), s)}
<1>1. <<>> \in T
  <2> DEFINE none == <<>>
  <2>1. none \in Seq(Bytes) /\ Len(none) = 0
    OBVIOUS
  <2> HIDE DEF none
  <2>2. SplitLines(none) = <<none>>
    BY SplitLinesIs DEF none
  <2>3. Last(<<none>>) = none
    BY DEF Last
  <2>4. Ending(none, none)
    BY <2>1 DEF Ending
  <2>5. none \in T
    BY <2>1, <2>2, <2>3, <2>4
  <2>6. QED
    BY <2>5 DEF none
<1>2. ASSUME NEW s \in Seq(Bytes), NEW b \in Bytes, s \in T PROVE Append(s, b) \in T
  <2> DEFINE l == Last(SplitLines(s))  c == Append(s, b)
  <2>1. Ending(l, s)
    BY <1>2
  <2>2. c \in Seq(Bytes) /\ Last(SplitLines(c)) = IF b = "lf" THEN <<>> ELSE Append(l, b)
    BY SplitEnds, AppendProperties
  <2> HIDE DEF l
  <2>3. IF b = "lf" THEN Ending(<<>>, c) ELSE Ending(Append(l, b), c)
    BY <2>1, EndingGrows
  <2>4. Ending(Last(SplitLines(c)), c)
    BY <2>2, <2>3, Zenon
  <2>5. QED
    BY <2>2, <2>4
<1>3. \A s \in Seq(Bytes) : s \in T
  <2> HIDE DEF T
  <2>1. QED
    BY <1>1, <1>2, AllStrings
<1>4. QED
  BY <1>3

\* The reader takes no notice of a "cr".
LEMMA ReadNormalised == \A s \in Seq(Bytes) : ReadUpTo(Normalise(s)) = ReadUpTo(s)
<1> SUFFICES ASSUME NEW s, s \in Seq(Bytes) PROVE ReadUpTo(Normalise(s)) = ReadUpTo(s)
  OBVIOUS
<1> DEFINE n == Len(s)  kept == Kept(s)  t == Reading(s)  T == {i \in 0..n : ReadUpTo(kept[i]) = t[i]}
<1>1. n \in Nat /\ \A i \in 1..n : s[i] \in Bytes
  OBVIOUS
<1>2. /\ kept[0] = <<>> /\ Normalise(s) = kept[n]
      /\ \A i \in 1..n : kept[i] = Next1(kept[i - 1], s, i)
      /\ \A i \in 0..n : kept[i] \in Seq(Bytes)
  BY KeptIs
<1>3. IsReading(s, t) /\ ReadUpTo(s) = t[n]
  BY ReadingRuns
<1> HIDE DEF t
<1>4. t = [i \in 0..n |-> IF i = 0 THEN Fresh ELSE ByteRead(t[i - 1], s[i])]
  BY <1>3 DEF IsReading
<1> HIDE DEF n, kept
<1>5. 0 \in T
  BY <1>1, <1>2, <1>4, ReadUpToIs
<1>6. ASSUME NEW i \in 1..n, i - 1 \in T PROVE i \in T
  <2> DEFINE k == kept[i - 1]  b == s[i]
  <2>1. /\ k \in Seq(Bytes) /\ b \in Bytes /\ ReadUpTo(k) = t[i - 1]
        /\ kept[i] = Next1(k, s, i) /\ t[i] = ByteRead(ReadUpTo(k), b)
    BY <1>1, <1>2, <1>4, <1>6
  <2>2. kept[i] = IF IsCr(s, i) THEN k ELSE k \o <<b>>
    BY <2>1 DEF Next1
  <2> HIDE DEF k
  <2>3. CASE IsCr(s, i)
    <3>1. b = "cr" /\ kept[i] = k
      BY <2>2, <2>3 DEF IsCr
    <3>2. ByteRead(ReadUpTo(k), b) = ReadUpTo(k)
      BY <3>1 DEF ByteRead
    <3>3. QED
      BY <1>1, <2>1, <3>1, <3>2
  <2>4. CASE ~ IsCr(s, i)
    <3> HIDE DEF b
    <3>1. kept[i] = Append(k, b)
      BY <2>1, <2>2, <2>4, AppendIsConcat
    <3>2. ReadUpTo(kept[i]) = ByteRead(ReadUpTo(k), b)
      BY <2>1, <3>1, ReadUpToIs
    <3>3. QED
      BY <1>1, <2>1, <3>2
  <2>5. QED
    BY <2>3, <2>4
<1>7. \A i \in 0..n : i \in T
  <2> HIDE DEF T
  <2>1. QED
    BY <1>1, <1>5, <1>6, AllUpTo
<1>8. n \in T
  BY <1>1, <1>7
<1>9. QED
  BY <1>2, <1>3, <1>8

-----------------------------------------------------------------------------
(* The batched reply                                                       *)

\* Two readers that have come to the same, the usage aside
Alike(r, q) ==
  /\ r \in Reader /\ q \in Reader
  /\ r.events = q.events /\ r.data = q.data /\ r.line = q.line

LEMMA LineReadIs ==
  ASSUME NEW r, r \in Reader
  PROVE  /\ LineRead(r).events = IF r.line = <<>> THEN r.events \o Dispatch(r.data) ELSE r.events
         /\ LineRead(r).data = IF r.line = <<>> THEN <<>>
                               ELSE IF IsData(r.line) THEN Append(r.data, Value(r.line)) ELSE r.data
         /\ LineRead(r).line = <<>>
         /\ LineRead(r).usage = IF IsData(r.line) /\ Value(r.line) = <<"u", "v">>
                                THEN r.usage + 1 ELSE r.usage
         /\ LineRead(r) \in Reader
BY LineReadTyped DEF LineRead

LEMMA LineReadAlike ==
  ASSUME NEW r, NEW q, Alike(r, q)
  PROVE  Alike(LineRead(r), LineRead(q))
<1>1. r \in Reader /\ q \in Reader /\ r.events = q.events /\ r.data = q.data /\ r.line = q.line
  BY DEF Alike
<1>2. LineRead(r).events = LineRead(q).events
  BY <1>1 DEF LineRead
<1>3. LineRead(r).data = LineRead(q).data
  BY <1>1 DEF LineRead
<1>4. LineRead(r).line = LineRead(q).line
  BY DEF LineRead
<1>5. QED
  BY <1>1, <1>2, <1>3, <1>4, LineReadTyped DEF Alike

LEMMA ByteReadAlike ==
  ASSUME NEW r, NEW q, Alike(r, q), NEW b, b \in Bytes
  PROVE  Alike(ByteRead(r, b), ByteRead(q, b))
<1>1. CASE b = "lf"
  BY <1>1, LineReadAlike DEF ByteRead
<1>2. CASE b = "cr"
  BY <1>2 DEF ByteRead
<1>3. CASE b \notin {"cr", "lf"}
  <2>1. r \in Reader /\ q \in Reader /\ r.events = q.events /\ r.data = q.data /\ r.line = q.line
    BY DEF Alike
  <2> DEFINE l == Append(r.line, b)
  <2>2. ByteRead(r, b) = [r EXCEPT !.line = l] /\ ByteRead(q, b) = [q EXCEPT !.line = l]
    BY <1>3, <2>1 DEF ByteRead
  <2>3. ByteRead(r, b) \in Reader /\ ByteRead(q, b) \in Reader
    BY <2>1, ByteReadTyped
  <2> HIDE DEF l
  <2>4. /\ ByteRead(r, b).events = r.events /\ ByteRead(q, b).events = q.events
        /\ ByteRead(r, b).data = r.data /\ ByteRead(q, b).data = q.data
        /\ ByteRead(r, b).line = l /\ ByteRead(q, b).line = l
    BY <2>1, <2>2 DEF Reader
  <2>5. QED
    BY <2>1, <2>3, <2>4 DEF Alike
<1>4. QED
  BY <1>1, <1>2, <1>3

\* A byte behind two strings
LEMMA AppendBehind ==
  ASSUME NEW a, a \in Seq(Bytes), NEW c, c \in Seq(Bytes), NEW b, b \in Bytes
  PROVE  /\ a \o c \in Seq(Bytes) /\ Append(c, b) \in Seq(Bytes)
         /\ a \o Append(c, b) = Append(a \o c, b)
<1> DEFINE d == a \o c
<1>1. d \in Seq(Bytes) /\ Append(c, b) \in Seq(Bytes)
  BY ConcatProperties, AppendProperties
<1>2. d \o <<b>> = a \o (c \o <<b>>)
  BY JoinOne
<1>3. c \o <<b>> = Append(c, b)
  BY AppendIsConcat
<1> HIDE DEF d
<1>4. d \o <<b>> = Append(d, b)
  BY <1>1, AppendIsConcat
<1>5. QED
  BY <1>1, <1>2, <1>3, <1>4 DEF d

\* Readers that have come to the same go on alike.
LEMMA ReadOnAlike ==
  ASSUME NEW a, a \in Seq(Bytes), NEW d, d \in Seq(Bytes), Alike(ReadUpTo(a), ReadUpTo(d))
  PROVE  \A c \in Seq(Bytes) : Alike(ReadUpTo(a \o c), ReadUpTo(d \o c))
<1> DEFINE T == {c \in Seq(Bytes) : Alike(ReadUpTo(a \o c), ReadUpTo(d \o c))}
<1>1. <<>> \in T
  <2>1. a \o <<>> = a /\ d \o <<>> = d /\ <<>> \in Seq(Bytes)
    BY ConcatEmptySeq
  <2>2. QED
    BY <2>1
<1>2. ASSUME NEW c \in Seq(Bytes), NEW b \in Bytes, c \in T PROVE Append(c, b) \in T
  <2> DEFINE e == a \o c  f == d \o c
  <2>1. /\ e \in Seq(Bytes) /\ f \in Seq(Bytes) /\ Append(c, b) \in Seq(Bytes)
        /\ a \o Append(c, b) = Append(e, b) /\ d \o Append(c, b) = Append(f, b)
    BY AppendBehind
  <2>2. Alike(ReadUpTo(e), ReadUpTo(f))
    BY <1>2
  <2> HIDE DEF e, f
  <2>3. /\ ReadUpTo(Append(e, b)) = ByteRead(ReadUpTo(e), b)
        /\ ReadUpTo(Append(f, b)) = ByteRead(ReadUpTo(f), b)
    BY <2>1, ReadUpToIs
  <2>4. Alike(ReadUpTo(Append(e, b)), ReadUpTo(Append(f, b)))
    BY <2>2, <2>3, ByteReadAlike
  <2>5. QED
    BY <2>1, <2>4
<1>3. \A c \in Seq(Bytes) : c \in T
  <2> HIDE DEF T
  <2>1. QED
    BY <1>1, <1>2, AllStrings
<1>4. QED
  BY <1>3

\* No data, no event
LEMMA NothingDispatched ==
  ASSUME NEW r, r \in Reader, r.line = <<>>, r.data = <<>>
  PROVE  LineRead(r).events = r.events /\ LineRead(r).data = <<>> /\ LineRead(r).line = <<>>
<1>1. r.events \in Seq(Seq(Bytes))
  BY ReaderIs
<1> DEFINE e == r.events
<1> HIDE DEF e
<1>2. e \o <<>> = e
  BY <1>1 DEF e
<1>3. Dispatch(<<>>) = <<>>
  BY DEF Dispatch
<1>4. QED
  BY <1>2, <1>3 DEF LineRead, e

\* A blank line after the end of a stream is nothing more.
LEMMA EndsOnce ==
  ASSUME NEW r, r \in Reader
  PROVE  LineRead(LineRead(LineRead(r))).events = LineRead(LineRead(r)).events
<1> DEFINE q == LineRead(r)  t == LineRead(q)
<1>1. q \in Reader /\ q.line = <<>>
  BY LineReadIs
<1> HIDE DEF q
<1>2. t \in Reader /\ t.line = <<>> /\ t.data = <<>>
  BY <1>1, LineReadIs
<1> HIDE DEF t
<1>3. LineRead(t).events = t.events
  BY <1>2, NothingDispatched
<1>4. QED
  BY <1>3 DEF q, t

\* What the reader makes of the bytes read, and of what the pump has kept of
\* them with a line feed behind every read, as long as reads end at frame ends:
\* the same, and nothing is half read before the stream has ended.
BatchedInvariant ==
  /\ stream \in Seq(Bytes) /\ pos \in 0..Len(stream) /\ buffer \in Seq(Bytes)
  /\ ended \in BOOLEAN /\ (ended => pos = Len(stream))
  /\ cut = "frame" =>
       /\ AtTheEnd(buffer).events = AtTheEnd(SubSeq(stream, 1, pos)).events
       /\ pos < Len(stream) =>
            /\ Alike(ReadUpTo(SubSeq(stream, 1, pos)), ReadUpTo(buffer))
            /\ ReadUpTo(buffer).line = <<>> /\ ReadUpTo(buffer).data = <<>>

LEMMA BatchedInit == Init => BatchedInvariant
<1> SUFFICES ASSUME Init PROVE BatchedInvariant
  OBVIOUS
<1>1. stream \in Seq(Bytes) /\ pos = 0 /\ ended = FALSE /\ buffer = <<>>
  BY FramingAssumption DEF Init
<1>2. Len(stream) \in Nat
  BY <1>1
<1>3. SubSeq(stream, 1, 0) = <<>>
  BY <1>2, SubSeqEmpty
<1> DEFINE r == ReadUpTo(<<>>)
<1>4. r = Fresh /\ Fresh \in Reader
  BY ReadUpToIs DEF Fresh, Reader
<1>5. Alike(r, r) /\ r.line = <<>> /\ r.data = <<>>
  BY <1>4 DEF Alike, Fresh
<1>6. buffer \in Seq(Bytes) /\ pos \in 0..Len(stream)
  BY <1>1, <1>2
<1>7. AtTheEnd(buffer).events = AtTheEnd(SubSeq(stream, 1, pos)).events
  BY <1>1, <1>3
<1>8. /\ Alike(ReadUpTo(SubSeq(stream, 1, pos)), ReadUpTo(buffer))
      /\ ReadUpTo(buffer).line = <<>> /\ ReadUpTo(buffer).data = <<>>
  BY <1>1, <1>3, <1>5
<1>9. QED
  BY <1>1, <1>6, <1>7, <1>8, Zenon DEF BatchedInvariant

LEMMA BatchedRead ==
  ASSUME BatchedInvariant, NEW k \in 1..Len(stream), Read(k)
  PROVE  BatchedInvariant'
<1> DEFINE a == SubSeq(stream, 1, pos)  c == SubSeq(stream, pos + 1, pos + k)
           p == a \o c  d == buffer \o c
<1>1. /\ stream \in Seq(Bytes) /\ pos \in Nat /\ k \in Nat /\ k > 0 /\ buffer \in Seq(Bytes)
      /\ pos + k <= Len(stream) /\ Len(stream) \in Nat /\ ended' = FALSE
      /\ stream' = stream /\ pos' = pos + k
      /\ cut' = "frame" => cut = "frame" /\ Cut(stream, pos + k) = "frame"
  <2>1. /\ stream \in Seq(Bytes) /\ pos \in Nat /\ Len(stream) \in Nat /\ buffer \in Seq(Bytes)
        /\ ended \in BOOLEAN
    BY DEF BatchedInvariant
  <2>2. /\ pos + k <= Len(stream) /\ ~ ended /\ ended' = ended /\ stream' = stream /\ pos' = pos + k
        /\ cut' = IF Cut(stream, pos + k) = "frame" THEN cut
                  ELSE IF cut = "inside" THEN cut ELSE Cut(stream, pos + k)
    BY DEF Read
  <2>3. k \in Nat /\ k > 0
    BY <2>1
  <2>4. QED
    BY <2>1, <2>2, <2>3
<1>2. buffer' = d \o <<"lf">>
  BY DEF Read
<1>3. c \in Seq(Bytes) /\ SubSeq(stream, 1, pos + k) = p
  BY <1>1, ReadJoins
<1>4. a \in Seq(Bytes)
  <2>1. pos \in 0..Len(stream)
    BY <1>1
  <2>2. QED
    BY <1>1, <2>1, PrefixIs
<1>5. SubSeq(stream', 1, pos') = p
  BY <1>1, <1>3
<1> HIDE DEF a, c
<1>6. p \in Seq(Bytes) /\ d \in Seq(Bytes)
  BY <1>1, <1>3, <1>4, ConcatProperties
<1>7. /\ "lf" \in Bytes /\ buffer' = Append(d, "lf") /\ buffer' \in Seq(Bytes)
      /\ ReadUpTo(buffer') = LineRead(ReadUpTo(d))
      /\ ReadUpTo(p) \in Reader /\ ReadUpTo(d) \in Reader
  <2>1. "lf" \in Bytes
    BY DEF Bytes
  <2> HIDE DEF d
  <2>2. buffer' = Append(d, "lf")
    BY <1>2, <1>6, <2>1, AppendIsConcat
  <2>3. Append(d, "lf") \in Seq(Bytes)
    BY <1>6, <2>1, AppendProperties
  <2>4. ReadUpTo(Append(d, "lf")) = ByteRead(ReadUpTo(d), "lf")
    BY <1>6, <2>1, ReadUpToIs
  <2>5. QED
    BY <1>6, <2>1, <2>2, <2>3, <2>4, ReadUpToIs DEF ByteRead
<1>8. ASSUME cut' = "frame"
      PROVE  /\ AtTheEnd(buffer').events = AtTheEnd(p).events
             /\ pos' < Len(stream') =>
                  /\ Alike(ReadUpTo(p), ReadUpTo(buffer'))
                  /\ ReadUpTo(buffer').line = <<>> /\ ReadUpTo(buffer').data = <<>>
  <2>1. cut = "frame" /\ pos < Len(stream) /\ Cut(stream, pos + k) = "frame"
    BY <1>1, <1>8
  <2>2. Alike(ReadUpTo(a), ReadUpTo(buffer))
    BY <2>1 DEF BatchedInvariant, a
  <2>3. Alike(ReadUpTo(p), ReadUpTo(d))
    BY <1>1, <1>3, <1>4, <2>2, ReadOnAlike
  <2> DEFINE r == ReadUpTo(p)  q == ReadUpTo(d)
  <2>4. r \in Reader /\ q \in Reader /\ Alike(r, q)
    BY <1>7, <2>3
  <2>5. AtTheEnd(buffer') = LineRead(LineRead(LineRead(q))) /\ AtTheEnd(p) = LineRead(LineRead(r))
    BY <1>7 DEF AtTheEnd
  <2> HIDE DEF r, q, p, d
  <2>6. AtTheEnd(buffer').events = AtTheEnd(p).events
    <3>1. Alike(LineRead(LineRead(r)), LineRead(LineRead(q)))
      BY <2>4, LineReadAlike
    <3>2. LineRead(LineRead(r)).events = LineRead(LineRead(q)).events
      BY <3>1 DEF Alike
    <3>3. QED
      BY <2>4, <2>5, <3>2, EndsOnce
  <2>7. ASSUME pos' < Len(stream')
        PROVE  /\ Alike(r, LineRead(q))
               /\ LineRead(q).line = <<>> /\ LineRead(q).data = <<>>
    <3> DEFINE n == pos + k  e == SubSeq(stream, 1, n - 1)  t == ReadUpTo(e)
    <3>1. n # Len(stream) /\ n \in 1..Len(stream) /\ n - 1 \in 0..Len(stream)
      BY <1>1, <2>7
    <3>2. stream[n] = "lf" /\ t.line = <<>>
      BY <2>1, <3>1 DEF Cut
    <3>3. e \in Seq(Bytes) /\ p = e \o <<"lf">>
      <4>1. e \in Seq(Bytes)
        BY <1>1, <3>1, PrefixIs
      <4>2. 1 \in 1..Len(stream) /\ n \in 1..Len(stream)
        BY <1>1, <3>1
      <4>3. SubSeq(stream, 1, n) = SubSeq(stream, 1, n - 1) \o <<stream[n]>>
        BY <1>1, <4>2, SubSeqRecursiveSecond
      <4>4. QED
        BY <1>3, <3>2, <4>1, <4>3
    <3> HIDE DEF e, n
    <3>4. p = Append(e, "lf")
      BY <1>7, <3>3, AppendIsConcat
    <3>5. t \in Reader /\ r = LineRead(t)
      BY <1>7, <3>3, <3>4, ReadUpToIs DEF ByteRead, r
    <3> HIDE DEF t
    <3>6. r.line = <<>> /\ r.data = <<>>
      BY <3>2, <3>5, LineReadIs
    <3>7. q.line = <<>> /\ q.data = <<>> /\ q.events = r.events
      BY <2>4, <3>6 DEF Alike
    <3>8. LineRead(q).events = q.events /\ LineRead(q).data = <<>> /\ LineRead(q).line = <<>>
      BY <2>4, <3>7, NothingDispatched
    <3>9. LineRead(q) \in Reader
      BY <2>4, LineReadTyped
    <3>10. QED
      BY <2>4, <3>6, <3>7, <3>8, <3>9 DEF Alike
  <2>8. QED
    BY <1>7, <2>6, <2>7 DEF r, q
<1>9. pos' \in 0..Len(stream')
  BY <1>1
<1>10. QED
  BY <1>1, <1>5, <1>7, <1>8, <1>9 DEF BatchedInvariant

LEMMA BatchedNext == BatchedInvariant /\ [Next]_vars => BatchedInvariant'
<1> SUFFICES ASSUME BatchedInvariant, [Next]_vars PROVE BatchedInvariant'
  OBVIOUS
<1>1. CASE \E k \in 1..Len(stream) : Read(k)
  BY <1>1, BatchedRead
<1>2. CASE End
  BY <1>2 DEF End, BatchedInvariant
<1>3. CASE UNCHANGED vars
  BY <1>3 DEF vars, BatchedInvariant
<1>4. QED
  BY <1>1, <1>2, <1>3 DEF Next

\* For any streams and reads, the line feed the pump puts behind every read
\* leaves the batched reply with the events of the stream when reads end at
\* frame ends (executorStreamBatched).
THEOREM BatchedReplyHolds == Spec => []BatchedReplyFaithful
<1>1. BatchedInvariant => BatchedReplyFaithful
  <2> SUFFICES ASSUME BatchedInvariant, ended, cut = "frame"
               PROVE  Events(buffer) = Events(stream)
    BY DEF BatchedReplyFaithful
  <2>1. SubSeq(stream, 1, pos) = stream
    BY SubSeqFull DEF BatchedInvariant
  <2>2. AtTheEnd(buffer).events = AtTheEnd(stream).events
    BY <2>1 DEF BatchedInvariant
  <2>3. QED
    BY <2>2 DEF Events
<1>2. QED
  BY BatchedInit, BatchedNext, <1>1, PTL DEF Spec

-----------------------------------------------------------------------------
(* The parser and the reader, line by line                                 *)

\* A line of a plain stream
PlainLine(l) ==
  /\ l \in Seq(Bytes)
  /\ \A i \in 1..Len(l) : /\ l[i] \notin {"cr", "lf"}
                          /\ l[i] = "sp" => i > 1 /\ l[i - 1] # "sp"
  /\ Tidy(l) \/ l = <<"data", "sp">>

LEMMA PlainBefore ==
  ASSUME NEW s, s \in Seq(Bytes), NEW b, b \in Bytes, Plain(Append(s, b))
  PROVE  Plain(s)
<1> DEFINE c == Append(s, b)
<1>1. Len(s) \in Nat /\ Len(c) = Len(s) + 1 /\ \A i \in 1..Len(s) : c[i] = s[i]
  BY AppendProperties
<1> HIDE DEF c
<1>2. \A i \in 1..Len(c) : PlainAt(c, i)
  BY DEF Plain, c
<1>3. ASSUME NEW i \in 1..Len(s) PROVE PlainAt(s, i)
  <2>1. PlainAt(c, i) /\ c[i] = s[i]
    BY <1>1, <1>2
  <2>2. /\ i > 1 => c[i - 1] = s[i - 1]
        /\ i > 2 => c[i - 2] = s[i - 2]
        /\ i > 3 => c[i - 3] = s[i - 3]
    BY <1>1
  <2>3. QED
    BY <1>1, <2>1, <2>2 DEF PlainAt
<1>4. QED
  BY <1>3 DEF Plain

LEMMA LineIsPlain ==
  ASSUME NEW s, s \in Seq(Bytes), Plain(Append(s, "lf")), NEW l, Ending(l, s)
  PROVE  PlainLine(l)
<1> DEFINE c == Append(s, "lf")  n == Len(s)  k == Len(l)
<1>1. n \in Nat /\ Len(c) = n + 1 /\ c[n + 1] = "lf" /\ \A i \in 1..n : c[i] = s[i]
  BY AppendProperties DEF Bytes
<1>2. /\ l \in Seq(Bytes) /\ k \in Nat /\ k <= n
      /\ \A i \in 1..k : l[i] = s[n - k + i] /\ l[i] # "lf"
      /\ k < n => s[n - k] = "lf"
  BY DEF Ending
<1> HIDE DEF c
<1>3. \A i \in 1..(n + 1) : PlainAt(c, i)
  BY <1>1 DEF Plain, c
<1> HIDE DEF n, k
<1>4. ASSUME NEW i \in 1..k
      PROVE  l[i] \notin {"cr", "lf"} /\ (l[i] = "sp" => i > 1 /\ l[i - 1] # "sp")
  <2> DEFINE j == n - k + i
  <2>1. j \in 1..n /\ c[j] = l[i] /\ PlainAt(c, j) /\ l[i] # "lf"
    BY <1>1, <1>2, <1>3
  <2>2. CASE i > 1
    <3>1. i - 1 \in 1..k /\ n - k + (i - 1) = j - 1 /\ j - 1 \in 1..n
      BY <1>1, <1>2, <2>2
    <3>2. c[j - 1] = l[i - 1]
      BY <1>1, <1>2, <3>1
    <3>3. QED
      BY <2>1, <2>2, <3>2 DEF PlainAt
  <2>3. CASE i = 1
    <3>1. l[i] # "sp"
      <4>1. CASE k < n
        <5>1. j - 1 = n - k /\ n - k \in 1..n /\ j > 1
          BY <1>1, <1>2, <2>3, <4>1
        <5>2. c[j - 1] = "lf"
          BY <1>1, <1>2, <4>1, <5>1
        <5>3. QED
          BY <2>1, <5>2 DEF PlainAt
      <4>2. CASE k = n
        <5>1. ~ (j > 1)
          BY <1>1, <2>3, <4>2
        <5>2. QED
          BY <2>1, <5>1 DEF PlainAt
      <4>3. QED
        BY <1>1, <1>2, <4>1, <4>2
    <3>2. QED
      BY <2>1, <3>1 DEF PlainAt
  <2>4. QED
    BY <1>2, <2>2, <2>3
<1>5. ASSUME k > 0, l[k] = "sp" PROVE l = <<"data", "sp">>
  <2>1. k \in 1..k /\ k > 1
    BY <1>2, <1>4, <1>5
  <2>2. c[n] = "sp" /\ c[n - 1] = l[k - 1]
    <3>1. n - k + k = n /\ n \in 1..n /\ n - k + (k - 1) = n - 1 /\ n - 1 \in 1..n /\ k - 1 \in 1..k
      BY <1>1, <1>2, <2>1
    <3>2. c[n] = l[k] /\ c[n - 1] = l[k - 1]
      BY <1>1, <1>2, <2>1, <3>1
    <3>3. QED
      BY <1>5, <3>2
  <2>3. PlainAt(c, n + 1) /\ n + 1 > 1 /\ (n + 1) - 1 = n /\ (n + 1) - 2 = n - 1 /\ (n + 1) - 3 = n - 2
    <3>1. n + 1 \in 1..(n + 1) /\ n + 1 > 1
      BY <1>1, <1>2, <2>1
    <3>2. (n + 1) - 1 = n /\ (n + 1) - 2 = n - 1 /\ (n + 1) - 3 = n - 2
      BY <1>1
    <3>3. QED
      BY <1>3, <3>1, <3>2
  <2>4. c[n - 1] = "data" /\ (n = 2 \/ c[n - 2] = "lf")
    BY <1>1, <2>2, <2>3 DEF PlainAt
  <2>5. k = 2
    <3> SUFFICES ASSUME k > 2 PROVE FALSE
      BY <1>2, <2>1
    <3>1. n - 2 \in 1..n /\ k - 2 \in 1..k /\ n - k + (k - 2) = n - 2 /\ n # 2
      BY <1>1, <1>2
    <3>2. c[n - 2] = l[k - 2] /\ l[k - 2] # "lf"
      BY <1>1, <1>2, <3>1
    <3>3. QED
      BY <2>4, <3>1, <3>2
  <2>6. l[1] = "data" /\ l[2] = "sp" /\ Len(l) = 2
    <3>1. k - 1 = 1
      BY <2>5
    <3>2. QED
      BY <1>5, <2>2, <2>4, <2>5, <3>1 DEF k
  <2> DEFINE m == <<"data", "sp">>
  <2>7. m \in Seq(Bytes) /\ Len(m) = 2 /\ m[1] = "data" /\ m[2] = "sp"
    BY DEF Bytes
  <2> HIDE DEF m
  <2>8. \A i \in 1..Len(l) : l[i] = m[i]
    BY <2>6, <2>7
  <2>9. l = m
    BY <1>2, <2>6, <2>7, <2>8, SeqEqual
  <2>10. QED
    BY <2>9 DEF m
<1>6. ASSUME ~ (k > 0 /\ l[k] = "sp") PROVE Tidy(l)
  <2>1. CASE k = 0
    <3>1. l = <<>>
      BY <1>2, <2>1 DEF k
    <3>2. QED
      BY <3>1 DEF Tidy
  <2>2. CASE k > 0
    <3>1. 1 \in 1..k /\ k \in 1..k
      BY <1>2, <2>2
    <3>2. l[1] \notin Spaces /\ l[k] \notin Spaces
      BY <1>4, <1>6, <2>2, <3>1 DEF Spaces
    <3>3. QED
      BY <3>2 DEF Tidy, k
  <2>3. QED
    BY <1>2, <2>1, <2>2
<1>7. QED
  BY <1>2, <1>4, <1>5, <1>6 DEF PlainLine, k

LEMMA TailIs ==
  ASSUME NEW s, s \in Seq(Bytes), s # <<>>
  PROVE  /\ Head(s) = s[1] /\ Tail(s) \in Seq(Bytes) /\ Len(Tail(s)) = Len(s) - 1
         /\ Len(s) \in Nat /\ Len(s) > 0
         /\ \A i \in 1..(Len(s) - 1) : Tail(s)[i] = s[i + 1]
<1>1. Len(s) \in Nat /\ Len(s) > 0 /\ Head(s) = s[1]
  OBVIOUS
<1>2. /\ Tail(s) \in Seq(Bytes) /\ Len(Tail(s)) = Len(s) - 1
      /\ \A i \in 1..Len(Tail(s)) : Tail(s)[i] = s[i + 1]
  BY HeadTailProperties
<1>3. QED
  BY <1>1, <1>2

\* The value of a tidy line has no white space at its ends.
LEMMA ValueTidy ==
  ASSUME NEW l, PlainLine(l), Tidy(l), l # <<>>
  PROVE  Value(l) \in Seq(Bytes) /\ Tidy(Value(l))
<1>1. /\ l \in Seq(Bytes) /\ l[Len(l)] \notin Spaces
      /\ \A i \in 1..Len(l) : l[i] \notin {"cr", "lf"} /\ (l[i] = "sp" => l[i - 1] # "sp")
  BY DEF PlainLine, Tidy
<1> DEFINE t == Tail(l)
<1>2. /\ t \in Seq(Bytes) /\ Len(t) = Len(l) - 1 /\ Len(l) \in Nat /\ Len(l) > 0
      /\ \A i \in 1..(Len(l) - 1) : t[i] = l[i + 1]
  BY <1>1, TailIs
<1>3. Value(l) = IF t # <<>> /\ Head(t) = "sp" THEN Tail(t) ELSE t
  BY DEF Value, TrimPrefix, HasPrefix
<1> HIDE DEF t
<1>4. CASE t = <<>>
  BY <1>2, <1>3, <1>4 DEF Tidy
<1>5. CASE t # <<>>
  <2>1. Head(t) = t[1] /\ Len(t) > 0 /\ Len(l) > 1
    BY <1>2, <1>5, TailIs
  <2>2. t[1] = l[2] /\ t[Len(t)] = l[Len(l)]
    <3>1. 1 \in 1..(Len(l) - 1) /\ Len(t) \in 1..(Len(l) - 1) /\ Len(t) + 1 = Len(l)
      BY <1>2, <2>1
    <3>2. QED
      BY <1>2, <3>1
  <2>3. CASE Head(t) # "sp"
    <3>1. l[2] \notin Spaces
      BY <1>1, <1>2, <2>1, <2>2, <2>3 DEF Spaces
    <3>2. QED
      BY <1>1, <1>2, <1>3, <2>2, <2>3, <3>1 DEF Tidy
  <2>4. CASE Head(t) = "sp"
    <3> DEFINE v == Tail(t)
    <3>1. /\ v \in Seq(Bytes) /\ Len(v) = Len(t) - 1
          /\ \A i \in 1..(Len(t) - 1) : v[i] = t[i + 1]
      BY <1>2, <1>5, TailIs
    <3>2. Value(l) = v
      BY <1>3, <1>5, <2>4
    <3> HIDE DEF v
    <3>3. CASE v = <<>>
      BY <3>1, <3>2, <3>3 DEF Tidy
    <3>4. CASE v # <<>>
      <4>1. Len(v) > 0 /\ Len(v) \in Nat
        BY <3>1, <3>4
      <4>2. v[1] = l[3] /\ v[Len(v)] = l[Len(l)]
        <5>1. 1 \in 1..(Len(t) - 1) /\ Len(v) \in 1..(Len(t) - 1) /\ Len(v) + 1 = Len(t)
          BY <1>2, <3>1, <4>1
        <5>2. v[1] = t[2] /\ v[Len(v)] = t[Len(t)]
          BY <3>1, <5>1
        <5>3. 2 \in 1..(Len(l) - 1)
          BY <1>2, <3>1, <4>1
        <5>4. QED
          BY <1>2, <2>2, <5>2, <5>3
      <4>3. l[3] \notin Spaces
        <5>1. 3 \in 1..Len(l) /\ l[2] = "sp"
          BY <1>2, <2>1, <2>2, <2>4, <3>1, <4>1
        <5>2. QED
          BY <1>1, <5>1 DEF Spaces
      <4>4. QED
        BY <1>1, <3>1, <3>2, <4>2, <4>3 DEF Tidy
    <3>5. QED
      BY <3>3, <3>4
  <2>5. QED
    BY <2>3, <2>4
<1>6. QED
  BY <1>4, <1>5

\* The parser takes from a plain line what the reader takes from it.
LEMMA LineFieldIs ==
  ASSUME NEW l, PlainLine(l), NEW data, data \in Seq(Seq(Bytes))
  PROVE  /\ LineField(data, l) = IF IsData(l) THEN Append(data, Value(l)) ELSE data
         /\ IsData(l) => Value(l) \in Seq(Bytes) /\ Value(l) # <<>> /\ Tidy(Value(l))
<1>1. l \in Seq(Bytes)
  BY DEF PlainLine
<1>2. CASE Tidy(l)
  <2>1. TrimSpace(l) = l
    BY <1>1, <1>2, TrimTidy
  <2>2. CASE ~ HasPrefix(l, "data")
    BY <2>1, <2>2 DEF LineField, IsData
  <2>3. CASE HasPrefix(l, "data")
    <3>1. l # <<>>
      BY <2>3 DEF HasPrefix
    <3>2. Field(l) = Value(l)
      BY <2>1, <2>3 DEF Field, Value, TrimPrefix
    <3>3. Value(l) \in Seq(Bytes) /\ Tidy(Value(l))
      BY <1>2, <3>1, ValueTidy
    <3>4. TrimSpace(Value(l)) = Value(l)
      BY <3>3, TrimTidy
    <3>5. QED
      BY <2>1, <2>3, <3>2, <3>3, <3>4 DEF LineField, IsData
  <2>4. QED
    BY <2>2, <2>3
<1>3. CASE l = <<"data", "sp">>
  <2>1. Len(l) = 2 /\ l[1] = "data" /\ l[2] = "sp"
    BY <1>3
  <2>2. Within(l, 1, 1)
    BY <2>1 DEF Within, Spaces
  <2> DEFINE t == SubSeq(l, 1, 1)
  <2>3. TrimSpace(l) = t
    BY <1>1, <2>2, TrimWithin
  <2>4. t \in Seq(Bytes) /\ Len(t) = 1
    <3>1. 1 \in 1..Len(l) /\ 1 \in 1..Len(l)
      BY <2>1
    <3>2. QED
      BY <1>1, <3>1, PartIs
  <2> HIDE DEF t
  <2>6. HasPrefix(t, "data") => Field(l) = <<>>
    <3> SUFFICES ASSUME HasPrefix(t, "data") PROVE Field(l) = <<>>
      OBVIOUS
    <3>1. TrimPrefix(t, "data") = Tail(t) /\ Tail(t) = <<>>
      <4>1. t # <<>>
        BY <2>4
      <4>2. Tail(t) \in Seq(Bytes) /\ Len(Tail(t)) = 0
        BY <2>4, <4>1, TailIs
      <4>3. Tail(t) = <<>>
        <5> DEFINE u == Tail(t)
        <5> HIDE DEF u
        <5>1. u \in Seq(Bytes) /\ Len(u) = 0
          BY <4>2 DEF u
        <5>2. u = <<>>
          BY <5>1, EmptySeq
        <5>3. QED
          BY <5>2 DEF u
      <4>4. QED
        BY <4>3 DEF TrimPrefix
    <3>2. TrimPrefix(<<>>, "sp") = <<>>
      BY DEF TrimPrefix, HasPrefix
    <3>3. QED
      BY <2>3, <3>1, <3>2 DEF Field
  <2>7. TrimSpace(<<>>) = <<>>
    <3> DEFINE none == <<>>
    <3>1. none \in Seq(Bytes) /\ Tidy(none)
      BY DEF Tidy
    <3>2. QED
      BY <3>1, TrimTidy
  <2>8. LineField(data, l) = data
    BY <2>3, <2>6, <2>7 DEF LineField
  <2>9. ~ IsData(l)
    <3>1. Tail(l) = <<"sp">>
      BY <1>3
    <3>2. Value(l) = <<>>
      <4>1. <<"sp">> # <<>> /\ Head(<<"sp">>) = "sp" /\ Tail(<<"sp">>) = <<>>
        OBVIOUS
      <4>2. QED
        BY <3>1, <4>1, Zenon DEF Value, TrimPrefix, HasPrefix
    <3>3. QED
      BY <3>2 DEF IsData
  <2>10. QED
    BY <2>8, <2>9
<1>4. QED
  BY <1>2, <1>3 DEF PlainLine

-----------------------------------------------------------------------------
(* The parser and the reader                                               *)

\* The event of a block is that of its data fields.
LEMMA PayloadIsDispatched ==
  ASSUME NEW s, s \in Seq(Bytes), TidyAll(DataFields(s))
  PROVE  sseEventPayload(s) = Dispatch(DataFields(s))
<1> DEFINE data == DataFields(s)
<1>1. data \in Seq(Seq(Bytes))
  <2>1. SplitLines(s) \in Seq(Seq(Bytes))
    BY SplitLinesIs DEF Lines
  <2>2. QED
    BY <2>1, FieldsOfIs DEF DataFields
<1>2. JoinLines(data) \in Seq(Bytes) /\ Tidy(JoinLines(data))
  BY <1>1, JoinLinesTyped, JoinLinesTidy
<1>3. TrimSpace(JoinLines(data)) = JoinLines(data)
  BY <1>2, TrimTidy
<1>4. QED
  BY <1>3 DEF sseEventPayload, Dispatch

LEMMA SplitNone ==
  /\ SplitLines(<<>>) = <<<<>>>> /\ Front(SplitLines(<<>>)) = <<>> /\ Last(SplitLines(<<>>)) = <<>>
  /\ FieldsOf(<<>>) = <<>>
<1> DEFINE none == <<>>  q == <<>>
<1>1. none \in Seq(Bytes) /\ q \in Seq(Seq(Bytes))
  OBVIOUS
<1>2. <<none>> = Append(q, none)
  OBVIOUS
<1>3. SplitLines(none) = <<none>> /\ FieldsOf(q) = q
  BY SplitLinesIs, FieldsOfIs
<1> HIDE DEF none, q
<1>4. Front(Append(q, none)) = q /\ Last(Append(q, none)) = none
  BY <1>1, FrontLast
<1>5. QED
  BY <1>2, <1>3, <1>4 DEF none, q

\* Without the end of a frame there is nothing to drain.
LEMMA NoFrameEnds ==
  ASSUME NEW s, s \in Seq(Bytes), Blank(s) = {}, NEW b, b \in Bytes,
         b # "lf" \/ s = <<>> \/ s[Len(s)] # "lf"
  PROVE  Drain[Append(s, b)] = [events |-> <<>>, rest |-> Append(s, b)]
<1> DEFINE c == Append(s, b)  n == Len(s)
<1>1. /\ c \in Seq(Bytes) /\ Len(c) = n + 1 /\ n \in Nat /\ c[n + 1] = b
      /\ \A i \in 1..n : c[i] = s[i]
  BY AppendProperties
<1> HIDE DEF c
<1>2. ASSUME NEW i \in 1..(Len(c) - 1), c[i] = "lf", c[i + 1] = "lf" PROVE FALSE
  <2>1. i \in 1..n /\ c[i] = s[i]
    BY <1>1
  <2>2. CASE i = n
    <3>1. b = "lf" /\ s[n] = "lf" /\ n > 0
      BY <1>1, <1>2, <2>1, <2>2
    <3>2. s # <<>>
      BY <3>1
    <3>3. QED
      BY <3>1, <3>2
  <2>3. CASE i # n
    <3>1. i \in 1..(Len(s) - 1) /\ i + 1 \in 1..n
      BY <1>1, <2>1, <2>3
    <3>2. i \in Blank(s)
      BY <1>1, <1>2, <3>1 DEF Blank
    <3>3. QED
      BY <3>2
  <2>4. QED
    BY <2>2, <2>3
<1>3. Blank(c) = {}
  BY <1>2 DEF Blank
<1>4. QED
  BY <1>1, <1>3, DrainIs DEF Turn, c

\* The end of a frame
LEMMA FrameEnds ==
  ASSUME NEW q, q \in Seq(Bytes), Blank(Append(q, "lf")) = {}
  PROVE  Drain[Append(Append(q, "lf"), "lf")] = [events |-> sseEventPayload(q), rest |-> <<>>]
<1> DEFINE s == Append(q, "lf")  c == Append(s, "lf")  n == Len(q)
<1>1. /\ s \in Seq(Bytes) /\ Len(s) = n + 1 /\ n \in Nat /\ s[n + 1] = "lf"
      /\ \A i \in 1..n : s[i] = q[i]
  BY AppendProperties DEF Bytes
<1> HIDE DEF s
<1>2. /\ c \in Seq(Bytes) /\ Len(c) = n + 2 /\ c[n + 2] = "lf" /\ \A i \in 1..(n + 1) : c[i] = s[i]
  <2>1. /\ c \in Seq(Bytes) /\ Len(c) = Len(s) + 1 /\ c[Len(s) + 1] = "lf"
        /\ \A i \in 1..Len(s) : c[i] = s[i]
    BY <1>1, AppendProperties DEF Bytes
  <2>2. Len(s) + 1 = n + 2
    BY <1>1
  <2>3. QED
    BY <1>1, <2>1, <2>2
<1> HIDE DEF c
<1>3. n + 1 \in Blank(c)
  <2>1. n + 1 \in 1..(Len(c) - 1) /\ (n + 1) + 1 = n + 2 /\ n + 1 \in 1..(n + 1)
    BY <1>1, <1>2
  <2>2. QED
    BY <1>1, <1>2, <2>1 DEF Blank
<1> DEFINE end == Min(Blank(c))
<1>4. /\ end \in Blank(c) /\ (\A i \in Blank(c) : end <= i) /\ end \in 1..(Len(c) - 1)
      /\ After(c) \in Seq(Bytes) /\ Len(After(c)) = Len(c) - (end + 1)
  BY <1>2, <1>3, AfterIs
<1> HIDE DEF end
<1>5. end = n + 1
  <2> SUFFICES ASSUME end # n + 1 PROVE FALSE
    OBVIOUS
  <2>1. end \in 1..(Len(s) - 1) /\ end \in 1..(n + 1) /\ end + 1 \in 1..(n + 1)
    BY <1>1, <1>2, <1>3, <1>4
  <2>2. c[end] = "lf" /\ c[end + 1] = "lf"
    BY <1>4 DEF Blank
  <2>3. s[end] = "lf" /\ s[end + 1] = "lf"
    BY <1>2, <2>1, <2>2
  <2>4. end \in Blank(s)
    BY <2>1, <2>3 DEF Blank
  <2>5. QED
    BY <2>4 DEF s
<1>6. After(c) = <<>>
  <2> DEFINE a == After(c)
  <2>1. a \in Seq(Bytes) /\ Len(a) = 0
    BY <1>1, <1>2, <1>4, <1>5
  <2> HIDE DEF a
  <2>2. a = <<>>
    BY <2>1, EmptySeq
  <2>3. QED
    BY <2>2 DEF a
<1>7. SubSeq(c, 1, end - 1) = q
  <2> DEFINE a == SubSeq(c, 1, end - 1)
  <2>1. end - 1 = n /\ n \in 0..Len(c)
    BY <1>1, <1>2, <1>5
  <2>2. a \in Seq(Bytes) /\ Len(a) = n /\ \A i \in 1..n : a[i] = c[i]
    BY <1>2, <2>1, PrefixIs
  <2> HIDE DEF a
  <2>3. \A i \in 1..Len(a) : a[i] = q[i]
    BY <1>1, <1>2, <2>2
  <2>4. a = q
    BY <2>2, <2>3, SeqEqual
  <2>5. QED
    BY <2>4 DEF a
<1> DEFINE p == sseEventPayload(q)
<1>8. p \in Seq(Payloads)
  BY PayloadIs
<1>9. Drain[<<>>] = [events |-> <<>>, rest |-> <<>>]
  <2>1. <<>> \in Seq(Bytes) /\ Blank(<<>>) = {}
    BY DEF Blank
  <2>2. QED
    BY <2>1, DrainIs DEF Turn
<1>10. Drain[c] = [events |-> sseEventPayload(SubSeq(c, 1, end - 1)) \o Drain[After(c)].events,
                  rest |-> Drain[After(c)].rest]
  BY <1>2, <1>3, DrainIs DEF Turn, end
<1>11. Drain[After(c)].events = <<>> /\ Drain[After(c)].rest = <<>>
  BY <1>6, <1>9
<1> HIDE DEF p
<1>12. p \o <<>> = p
  BY <1>8
<1>13. Drain[c] = [events |-> p, rest |-> <<>>]
  BY <1>7, <1>10, <1>11, <1>12, Zenon DEF p
<1>14. QED
  BY <1>13 DEF c, s, p

\* The reader is where the parser is: what the parser holds back are the lines
\* of the frame being read, the last one as far as it has come.
Agrees(s, d, r) ==
  /\ r.events = d.events
  /\ r.line = Last(SplitLines(d.rest)) /\ r.data = FieldsOf(Front(SplitLines(d.rest)))
  /\ TidyAll(r.data) /\ Ending(r.line, s)

\* The data of a frame with one more line
LEMMA DataGrows ==
  ASSUME NEW data, data \in Seq(Seq(Bytes)), TidyAll(data), NEW l, PlainLine(l)
  PROVE  /\ TidyAll(IF IsData(l) THEN Append(data, Value(l)) ELSE data)
         /\ LineField(data, l) = IF IsData(l) THEN Append(data, Value(l)) ELSE data
<1>1. /\ LineField(data, l) = IF IsData(l) THEN Append(data, Value(l)) ELSE data
      /\ IsData(l) => Value(l) \in Seq(Bytes) /\ Value(l) # <<>> /\ Tidy(Value(l))
  BY LineFieldIs
<1>2. CASE IsData(l)
  <2> DEFINE v == Value(l)  more == Append(data, v)  S == Seq(Bytes)
  <2>1. v \in S /\ v # <<>> /\ Tidy(v) /\ data \in Seq(S)
    BY <1>1, <1>2
  <2> HIDE DEF v, S
  <2>2. /\ Len(more) = Len(data) + 1 /\ more[Len(data) + 1] = v /\ Len(data) \in Nat
        /\ \A i \in 1..Len(data) : more[i] = data[i]
    BY <2>1, AppendProperties
  <2> HIDE DEF more
  <2>3. \A i \in 1..Len(data) : data[i] # <<>> /\ Tidy(data[i])
    BY DEF TidyAll
  <2>4. ASSUME NEW i \in 1..Len(more) PROVE more[i] # <<>> /\ Tidy(more[i])
    <3>1. CASE i = Len(data) + 1
      BY <2>1, <2>2, <3>1
    <3>2. CASE i # Len(data) + 1
      <4>1. i \in 1..Len(data)
        BY <2>2, <3>2
      <4>2. QED
        BY <2>2, <2>3, <4>1
    <3>3. QED
      BY <3>1, <3>2
  <2>5. TidyAll(more)
    BY <2>4 DEF TidyAll
  <2>6. QED
    BY <1>1, <1>2, <2>5 DEF more, v
<1>3. CASE ~ IsData(l)
  BY <1>1, <1>3
<1>4. QED
  BY <1>2, <1>3

\* The lines held back are those in front of the last one, and that.
LEMMA FieldsOfRest ==
  ASSUME NEW s, s \in Seq(Bytes)
  PROVE  /\ FieldsOf(Front(SplitLines(s))) \in Seq(Seq(Bytes)) /\ Last(SplitLines(s)) \in Seq(Bytes)
         /\ DataFields(s) = LineField(FieldsOf(Front(SplitLines(s))), Last(SplitLines(s)))
<1> DEFINE x == SplitLines(s)  f == Front(x)  l == Last(x)
<1>1. x \in Lines
  BY SplitLinesIs
<1> HIDE DEF x
<1>2. f \in Seq(Seq(Bytes)) /\ l \in Seq(Bytes) /\ x = Append(f, l)
  BY <1>1, LinesAre
<1> HIDE DEF f, l
<1>3. FieldsOf(f) \in Seq(Seq(Bytes)) /\ FieldsOf(Append(f, l)) = LineField(FieldsOf(f), l)
  BY <1>2, FieldsOfIs
<1>4. QED
  BY <1>2, <1>3 DEF DataFields, x, f, l

LEMMA AgreesAtFirst == Agrees(<<>>, Drain[<<>>], ReadUpTo(<<>>))
<1> DEFINE none == <<>>  d == Drain[none]  r == ReadUpTo(none)
<1>1. d = [events |-> <<>>, rest |-> <<>>]
  <2>1. <<>> \in Seq(Bytes) /\ Blank(<<>>) = {}
    BY DEF Blank
  <2>2. QED
    BY <2>1, DrainIs DEF Turn
<1>2. r = Fresh
  BY ReadUpToIs
<1> HIDE DEF d, r
<1>3. /\ d.events = <<>> /\ d.rest = <<>> /\ r.events = <<>> /\ r.line = none /\ r.data = <<>>
  BY <1>1, <1>2 DEF Fresh
<1>4. TidyAll(<<>>)
  BY DEF TidyAll
<1>5. Ending(none, none)
  <2>1. none \in Seq(Bytes) /\ Len(none) = 0
    OBVIOUS
  <2> HIDE DEF none
  <2>2. QED
    BY <2>1 DEF Ending
<1>6. Agrees(none, d, r)
  BY <1>3, <1>4, <1>5, SplitNone, Zenon DEF Agrees
<1>7. QED
  BY <1>6 DEF d, r

LEMMA AgreesOn ==
  ASSUME NEW s, s \in Seq(Bytes), NEW b, b \in Bytes, Plain(Append(s, b)),
         Agrees(s, Drain[s], ReadUpTo(s))
  PROVE  Agrees(Append(s, b), Drain[Append(s, b)], ReadUpTo(Append(s, b)))
<1> DEFINE c == Append(s, b)  d == Drain[s]  r == ReadUpTo(s)  rest == d.rest
           more == Append(rest, b)  e == Drain[more]  x == SplitLines(rest)
           dc == Drain[c]  rc == ReadUpTo(c)
<1>1. c \in Seq(Bytes) /\ c = s \o <<b>> /\ rc = ByteRead(r, b) /\ r \in Reader
  BY AppendProperties, AppendIsConcat, ReadUpToIs
<1>2. d.events \in Seq(Payloads) /\ rest \in Seq(Bytes)
  BY DrainTyped DEF IsDrained
<1>3. Blank(rest) = {}
  BY RestIsDrained
<1>4. more \in Seq(Bytes) /\ more = rest \o <<b>>
  BY <1>2, AppendProperties, AppendIsConcat
<1>5. dc.events = d.events \o e.events /\ dc.rest = e.rest
  <2>1. <<b>> \in Seq(Bytes)
    OBVIOUS
  <2>2. Joins(s, <<b>>)
    BY <2>1, DrainJoins
  <2>3. QED
    BY <1>1, <1>4, <2>2 DEF Joins
<1>6. /\ r.events = d.events /\ r.line = Last(x) /\ r.data = FieldsOf(Front(x))
      /\ TidyAll(r.data) /\ Ending(r.line, s)
  BY DEF Agrees
<1>7. Plain(s)
  BY PlainBefore
<1>8. b # "cr"
  <2>1. Len(c) = Len(s) + 1 /\ c[Len(s) + 1] = b /\ Len(s) \in Nat
    BY AppendProperties
  <2>2. Len(s) + 1 \in 1..Len(c)
    BY <2>1
  <2>3. PlainAt(c, Len(s) + 1)
    BY <2>2 DEF Plain
  <2>4. QED
    BY <2>1, <2>3 DEF PlainAt
<1>9. r.data \in Seq(Seq(Bytes)) /\ r.line \in Seq(Bytes)
  BY <1>1, ReaderIs
<1>10. IF b = "lf" THEN Ending(<<>>, c) ELSE Ending(Append(r.line, b), c)
  BY <1>6, EndingGrows
<1>11. d.events \o <<>> = d.events
  <2> DEFINE v == d.events
  <2>1. v \in Seq(Payloads)
    BY <1>2
  <2> HIDE DEF v
  <2>2. v \o <<>> = v
    BY <2>1
  <2>3. QED
    BY <2>2 DEF v
<1>12. x \in Lines /\ x \in Seq(Seq(Bytes))
  BY <1>2, SplitLinesIs DEF Lines
<1> HIDE DEF c, d, r, rest, more, e, x, dc, rc
<1>13. ASSUME b # "lf" PROVE Agrees(c, dc, rc)
  <2>1. e = [events |-> <<>>, rest |-> more]
    BY <1>2, <1>3, <1>13, NoFrameEnds DEF more, e
  <2>2. e.events = <<>> /\ e.rest = more
    BY <2>1
  <2>3. dc.events = d.events /\ dc.rest = more
    BY <1>5, <1>11, <2>2
  <2>4. rc = [r EXCEPT !.line = Append(r.line, b)]
    BY <1>1, <1>8, <1>13 DEF ByteRead
  <2>5. rc.events = r.events /\ rc.data = r.data /\ rc.line = Append(r.line, b)
    BY <1>1, <2>4 DEF Reader
  <2>6. /\ Front(SplitLines(more)) = Front(x)
        /\ Last(SplitLines(more)) = Append(Last(x), b)
    BY <1>2, <1>13, SplitEnds DEF more, x
  <2>7. Ending(rc.line, c)
    BY <1>10, <1>13, <2>5
  <2>8. QED
    BY <1>6, <2>3, <2>5, <2>6, <2>7, Zenon DEF Agrees
<1>14. ASSUME b = "lf" PROVE /\ rc = LineRead(r) /\ rc.line = <<>> /\ Ending(rc.line, c)
                             /\ SplitLines(more) = Append(x, <<>>) /\ Front(SplitLines(more)) = x
                             /\ Last(SplitLines(more)) = <<>>
  <2>1. rc = LineRead(r)
    BY <1>1, <1>14 DEF ByteRead
  <2>2. rc.line = <<>>
    BY <1>1, <2>1, LineReadIs
  <2>3. Ending(rc.line, c)
    BY <1>10, <1>14, <2>2
  <2>4. /\ SplitLines(more) = Append(x, <<>>) /\ Front(SplitLines(more)) = x
        /\ Last(SplitLines(more)) = <<>>
    BY <1>2, <1>14, SplitEnds DEF more, x
  <2>5. QED
    BY <2>1, <2>2, <2>3, <2>4
<1>15. ASSUME b = "lf", rest # <<>>, rest[Len(rest)] = "lf" PROVE Agrees(c, dc, rc)
  <2>1. PICK q \in Seq(Bytes), v \in Bytes : rest = Append(q, v)
    BY <1>2, <1>15, SequenceEmptyOrAppend
  <2>2. v = "lf"
    <3>1. Len(rest) = Len(q) + 1 /\ rest[Len(q) + 1] = v
      BY <2>1, AppendProperties
    <3>2. QED
      BY <1>15, <3>1
  <2>3. /\ SplitLines(rest) = Append(SplitLines(q), <<>>) /\ Front(SplitLines(rest)) = SplitLines(q)
        /\ Last(SplitLines(rest)) = <<>>
    BY <2>1, <2>2, SplitEnds
  <2>4. r.line = <<>> /\ r.data = DataFields(q)
    BY <1>6, <2>3 DEF x, DataFields
  <2>5. e = [events |-> sseEventPayload(q), rest |-> <<>>]
    BY <1>3, <1>15, <2>1, <2>2, FrameEnds DEF e, more
  <2>6. sseEventPayload(q) = Dispatch(r.data)
    BY <1>6, <2>4, PayloadIsDispatched
  <2>7. dc.events = d.events \o Dispatch(r.data) /\ dc.rest = <<>>
    <3>1. e.events = sseEventPayload(q) /\ e.rest = <<>>
      BY <2>5
    <3>2. QED
      BY <1>5, <2>6, <3>1
  <2>8. rc = LineRead(r) /\ rc.line = <<>> /\ Ending(rc.line, c)
    BY <1>14, <1>15
  <2>9. rc.events = r.events \o Dispatch(r.data) /\ rc.data = <<>>
    BY <1>1, <2>4, <2>8, LineReadIs
  <2>10. rc.events = dc.events
    BY <1>6, <2>7, <2>9
  <2>11. /\ rc.line = Last(SplitLines(dc.rest)) /\ rc.data = FieldsOf(Front(SplitLines(dc.rest)))
    BY <2>7, <2>8, <2>9, SplitNone, Zenon
  <2>12. TidyAll(rc.data)
    BY <2>9 DEF TidyAll
  <2>13. QED
    BY <2>8, <2>10, <2>11, <2>12 DEF Agrees
<1>16. ASSUME b = "lf", rest = <<>> \/ rest[Len(rest)] # "lf" PROVE Agrees(c, dc, rc)
  <2>1. e = [events |-> <<>>, rest |-> more]
    BY <1>2, <1>3, <1>16, NoFrameEnds DEF more, e
  <2>2. e.events = <<>> /\ e.rest = more
    BY <2>1
  <2>3. dc.events = d.events /\ dc.rest = more
    BY <1>5, <1>11, <2>2
  <2>4. /\ rc = LineRead(r) /\ rc.line = <<>> /\ Ending(rc.line, c)
        /\ Front(SplitLines(more)) = x /\ Last(SplitLines(more)) = <<>>
    BY <1>14, <1>16
  <2>5. PlainLine(r.line)
    BY <1>6, <1>16, LineIsPlain DEF c
  <2>6. FieldsOf(x) = LineField(r.data, r.line)
    BY <1>2, <1>6, FieldsOfRest DEF DataFields, x
  <2>7. CASE r.line # <<>>
    <3>1. /\ rc.events = r.events
          /\ rc.data = IF IsData(r.line) THEN Append(r.data, Value(r.line)) ELSE r.data
      BY <1>1, <2>4, <2>7, LineReadIs
    <3>2. TidyAll(rc.data) /\ rc.data = LineField(r.data, r.line)
      BY <1>6, <1>9, <2>5, <3>1, DataGrows
    <3>3. QED
      BY <1>6, <2>3, <2>4, <2>6, <3>1, <3>2, Zenon DEF Agrees
  <2>8. CASE r.line = <<>>
    <3>1. rest = <<>>
      <4>1. Ending(<<>>, rest)
        BY <1>2, <1>6, <2>8, LastLine DEF x
      <4>2. Len(rest) \in Nat /\ Len(<<>>) = 0
        BY <1>2
      <4>3. Len(rest) = 0
        <5> SUFFICES ASSUME Len(rest) > 0 PROVE FALSE
          BY <4>2
        <5>1. rest[Len(rest) - 0] = "lf"
          BY <4>1, <4>2 DEF Ending
        <5>2. Len(rest) - 0 = Len(rest) /\ rest # <<>>
          BY <4>2
        <5>3. QED
          BY <1>16, <5>1, <5>2
      <4>4. QED
        BY <1>2, <4>3, EmptySeq
    <3>2. r.data = <<>>
      BY <1>6, <3>1, SplitNone, Zenon DEF x
    <3>3. rc.events = r.events /\ rc.data = <<>>
      BY <1>1, <2>4, <2>8, <3>2, NothingDispatched
    <3>4. FieldsOf(x) = <<>>
      <4>1. ~ IsData(<<>>)
        BY DEF IsData, HasPrefix
      <4>2. LineField(r.data, r.line) = r.data
        BY <1>9, <2>5, <2>8, <4>1, LineFieldIs
      <4>3. QED
        BY <2>6, <3>2, <4>2
    <3>5. TidyAll(<<>>)
      BY DEF TidyAll
    <3>6. QED
      BY <1>6, <2>3, <2>4, <3>3, <3>4, <3>5, Zenon DEF Agrees
  <2>9. QED
    BY <2>7, <2>8
<1>17. Agrees(c, dc, rc)
  BY <1>13, <1>15, <1>16
<1>18. QED
  BY <1>17 DEF c, dc, rc

LEMMA ParserReads == \A s \in Seq(Bytes) : Plain(s) => Agrees(s, Drain[s], ReadUpTo(s))
<1> DEFINE T == {s \in Seq(Bytes) : Plain(s) => Agrees(s, Drain[s], ReadUpTo(s))}
<1>1. <<>> \in T
  BY AgreesAtFirst
<1>2. ASSUME NEW s \in Seq(Bytes), NEW b \in Bytes, s \in T PROVE Append(s, b) \in T
  <2>1. Append(s, b) \in Seq(Bytes)
    BY AppendProperties
  <2>2. ASSUME Plain(Append(s, b))
        PROVE  Agrees(Append(s, b), Drain[Append(s, b)], ReadUpTo(Append(s, b)))
    <3>1. Plain(s)
      BY <2>2, PlainBefore
    <3>2. Agrees(s, Drain[s], ReadUpTo(s))
      BY <1>2, <3>1
    <3>3. QED
      BY <2>2, <3>2, AgreesOn
  <2>3. QED
    BY <2>1, <2>2
<1>3. \A s \in Seq(Bytes) : s \in T
  <2> HIDE DEF T
  <2>1. QED
    BY <1>1, <1>2, AllStrings
<1>4. QED
  BY <1>3

\* At the end the flush gives what the reader does.
LEMMA FlushReads ==
  ASSUME NEW s, s \in Seq(Bytes), Plain(Append(s, "lf"))
  PROVE  AtTheEnd(s).events = Drain[s].events \o sseEventPayload(Drain[s].rest)
<1> DEFINE d == Drain[s]  r == ReadUpTo(s)  rest == d.rest  q == LineRead(r)
<1>1. Plain(s) /\ r \in Reader /\ d.events \in Seq(Payloads) /\ rest \in Seq(Bytes)
  <2>1. "lf" \in Bytes
    BY DEF Bytes
  <2>2. QED
    BY <2>1, PlainBefore, ReadUpToIs, DrainTyped DEF IsDrained
<1>2. Agrees(s, d, r)
  BY <1>1, ParserReads
<1>3. AtTheEnd(s) = LineRead(q)
  BY DEF AtTheEnd
<1>4. /\ r.events = d.events /\ r.line = Last(SplitLines(rest))
      /\ r.data = FieldsOf(Front(SplitLines(rest))) /\ TidyAll(r.data) /\ Ending(r.line, s)
  BY <1>2 DEF Agrees
<1>5. PlainLine(r.line)
  BY <1>4, LineIsPlain
<1>6. r.data \in Seq(Seq(Bytes)) /\ q \in Reader /\ q.line = <<>>
  BY <1>1, ReaderIs, LineReadIs
<1>7. DataFields(rest) = LineField(r.data, r.line)
  BY <1>1, <1>4, FieldsOfRest
<1>8. /\ DataFields(rest) = IF IsData(r.line) THEN Append(r.data, Value(r.line)) ELSE r.data
      /\ TidyAll(DataFields(rest))
  BY <1>4, <1>5, <1>6, <1>7, DataGrows
<1>9. sseEventPayload(rest) = Dispatch(DataFields(rest))
  BY <1>1, <1>8, PayloadIsDispatched
<1> HIDE DEF d, r, rest, q
<1>10. CASE r.line = <<>>
  <2>1. ~ IsData(r.line)
    BY <1>10 DEF IsData, HasPrefix
  <2>2. DataFields(rest) = r.data
    BY <1>8, <2>1
  <2>3. q.events = r.events \o Dispatch(r.data) /\ q.data = <<>>
    BY <1>1, <1>10, LineReadIs DEF q
  <2>4. LineRead(q).events = q.events
    BY <1>6, <2>3, NothingDispatched
  <2>5. LineRead(q).events = d.events \o sseEventPayload(rest)
    BY <1>4, <1>9, <2>2, <2>3, <2>4
  <2>6. QED
    BY <1>3, <2>5 DEF d, rest
<1>11. CASE r.line # <<>>
  <2>1. q.events = r.events /\ q.data = DataFields(rest)
    BY <1>1, <1>8, <1>11, LineReadIs DEF q
  <2>2. LineRead(q).events = q.events \o Dispatch(q.data)
    BY <1>6, LineReadIs
  <2>3. LineRead(q).events = d.events \o sseEventPayload(rest)
    BY <1>4, <1>9, <2>1, <2>2
  <2>4. QED
    BY <1>3, <2>3 DEF d, rest
<1>12. QED
  BY <1>10, <1>11

LEMMA PlainPrefix ==
  ASSUME NEW a, a \in Seq(Bytes), NEW c, c \in Seq(Bytes), Plain(Append(a \o c, "lf"))
  PROVE  Plain(a)
<1> DEFINE s == a \o c
<1>1. s \in Seq(Bytes) /\ Len(a) \in Nat /\ Len(a) <= Len(s) /\ Len(s) \in Nat
  BY ConcatProperties
<1>2. \A i \in 1..Len(a) : s[i] = a[i]
  BY ConcatProperties
<1> HIDE DEF s
<1>3. "lf" \in Bytes /\ Plain(Append(s, "lf"))
  BY DEF Bytes, s
<1>4. Plain(s)
  BY <1>1, <1>3, PlainBefore
<1>5. ASSUME NEW i \in 1..Len(a) PROVE PlainAt(a, i)
  <2>1. i \in 1..Len(s)
    BY <1>1
  <2>2. PlainAt(s, i) /\ s[i] = a[i]
    BY <1>2, <1>4, <2>1 DEF Plain
  <2>3. i > 1 => s[i - 1] = a[i - 1]
    <3>1. i > 1 => i - 1 \in 1..Len(a)
      BY <1>1
    <3>2. QED
      BY <1>2, <3>1
  <2>4. i > 2 => s[i - 2] = a[i - 2]
    <3>1. i > 2 => i - 2 \in 1..Len(a)
      BY <1>1
    <3>2. QED
      BY <1>2, <3>1
  <2>5. i > 3 => s[i - 3] = a[i - 3]
    <3>1. i > 3 => i - 3 \in 1..Len(a)
      BY <1>1
    <3>2. QED
      BY <1>2, <3>1
  <2>6. QED
    BY <1>1, <2>2, <2>3, <2>4, <2>5 DEF PlainAt
<1>6. QED
  BY <1>5 DEF Plain

\* The parser, and the stream it reads
FaithInvariant ==
  /\ FramingInvariant
  /\ stream \in Streams
  /\ ended => pos = Len(stream)

LEMMA FaithInit == Init => FaithInvariant
<1> SUFFICES ASSUME Init PROVE FaithInvariant
  OBVIOUS
<1>1. stream \in Streams /\ ~ ended
  BY DEF Init
<1>2. QED
  BY <1>1, FramingInit DEF FaithInvariant

LEMMA FaithNext == SplitLineEnds = FALSE => (FaithInvariant /\ [Next]_vars => FaithInvariant')
<1> SUFFICES ASSUME SplitLineEnds = FALSE, FaithInvariant, [Next]_vars PROVE FaithInvariant'
  OBVIOUS
<1>1. FramingInvariant'
  BY FramingNext DEF FaithInvariant
<1>2. stream' = stream /\ (ended' => pos' = Len(stream'))
  <2>1. CASE \E k \in 1..Len(stream) : Read(k)
    BY <2>1 DEF Read
  <2>2. CASE End
    BY <2>2 DEF End
  <2>3. CASE UNCHANGED vars
    BY <2>3 DEF vars, FaithInvariant
  <2>4. QED
    BY <2>1, <2>2, <2>3 DEF Next
<1>3. QED
  BY <1>1, <1>2 DEF FaithInvariant

\* For any plain streams, as long as no read ends between "cr" and "lf": what
\* the parser has emitted are the events a byte-by-byte reader takes from the
\* bytes read so far, in order, and after the flush those of the whole stream
\* (feed, drain, flush, sseEventPayload).
THEOREM EventsFaithfulHolds ==
  SplitLineEnds = FALSE /\ (\A s \in Streams : Plain(Append(Normalise(s), "lf")))
    => (Spec => []EventsFaithful)
<1> SUFFICES ASSUME SplitLineEnds = FALSE, \A s \in Streams : Plain(Append(Normalise(s), "lf"))
             PROVE  Spec => []EventsFaithful
  OBVIOUS
<1>1. FaithInvariant /\ [Next]_vars => FaithInvariant'
  BY FaithNext
<1>2. ASSUME FaithInvariant PROVE EventsFaithful
  <2> DEFINE a == SubSeq(stream, 1, pos)  n == Normalise(a)
  <2>1. /\ stream \in Streams /\ stream \in Seq(Bytes) /\ pos \in 0..Len(stream) /\ ended \in BOOLEAN
        /\ (pos > 0 => stream[pos] # "cr") /\ CutsUnseen /\ (ended => pos = Len(stream))
        /\ Plain(Append(Normalise(stream), "lf"))
    BY <1>2 DEF FaithInvariant, FramingInvariant
  <2>2. a \in Seq(Bytes) /\ Len(a) = pos /\ \A i \in 1..pos : a[i] = stream[i]
    BY <2>1, PrefixIs
  <2>3. CASE ended
    <3>1. a = stream
      BY <2>1, <2>3, SubSeqFull
    <3>2. out = Drain[n].events \o sseEventPayload(Drain[n].rest)
      BY <2>1, <2>3 DEF CutsUnseen
    <3> DEFINE m == Normalise(stream)
    <3>3. n = m /\ m \in Seq(Bytes) /\ Plain(Append(m, "lf"))
      BY <2>1, <3>1, NormaliseTyped
    <3> HIDE DEF m, a
    <3>4. AtTheEnd(m).events = Drain[m].events \o sseEventPayload(Drain[m].rest)
      BY <3>3, FlushReads
    <3>5. ReadUpTo(m) = ReadUpTo(stream)
      BY <2>1, ReadNormalised DEF m
    <3>6. AtTheEnd(m) = AtTheEnd(stream)
      BY <3>5 DEF AtTheEnd
    <3>7. out = Events(stream)
      BY <3>2, <3>3, <3>4, <3>6 DEF Events
    <3>8. QED
      BY <2>3, <3>7 DEF EventsFaithful
  <2>4. CASE ~ ended
    <3>1. out = Drain[n].events
      BY <2>1, <2>4 DEF CutsUnseen
    <3>2. n \in Seq(Bytes)
      BY <2>2, NormaliseTyped
    <3>3. Plain(n)
      <4>1. PICK c \in Seq(Bytes) : stream = a \o c
        <5> DEFINE k == Len(stream) - pos
        <5>1. CASE k > 0
          <6>1. pos \in Nat /\ k \in Nat /\ k > 0 /\ pos + k <= Len(stream) /\ pos + k = Len(stream)
            BY <2>1, <5>1
          <6> HIDE DEF k
          <6>2. /\ SubSeq(stream, pos + 1, pos + k) \in Seq(Bytes)
                /\ SubSeq(stream, 1, pos + k) = SubSeq(stream, 1, pos) \o SubSeq(stream, pos + 1, pos + k)
            BY <2>1, <6>1, ReadJoins
          <6>3. SubSeq(stream, 1, pos + k) = stream
            BY <2>1, <6>1, SubSeqFull
          <6>4. QED
            BY <6>2, <6>3
        <5>2. CASE ~ (k > 0)
          <6>1. pos = Len(stream)
            BY <2>1, <5>2
          <6>2. a = stream
            BY <2>1, <6>1, SubSeqFull
          <6>3. a \o <<>> = a /\ <<>> \in Seq(Bytes)
            BY <2>2, ConcatEmptySeq
          <6>4. QED
            BY <6>2, <6>3
        <5>3. QED
          BY <5>1, <5>2
      <4> HIDE DEF a
      <4>2. Len(a) > 0 => a[Len(a)] # "cr"
        <5>1. pos > 0 => pos \in 1..pos
          BY <2>1
        <5>2. QED
          BY <2>1, <2>2, <5>1
      <4>3. Normalise(stream) = n \o Normalise(c) /\ Normalise(c) \in Seq(Bytes)
        BY <2>2, <4>1, <4>2, NormaliseJoins, NormaliseTyped
      <4> HIDE DEF n
      <4>4. QED
        BY <2>1, <3>2, <4>3, PlainPrefix
    <3>4. Drain[n].events = ReadUpTo(n).events
      BY <3>2, <3>3, ParserReads DEF Agrees
    <3>5. ReadUpTo(n) = ReadUpTo(a)
      BY <2>2, ReadNormalised
    <3>6. QED
      BY <2>4, <3>1, <3>4, <3>5 DEF EventsFaithful
  <2>5. QED
    BY <2>1, <2>3, <2>4
<1>3. FaithInvariant => EventsFaithful
  BY <1>2
<1>4. QED
  BY FaithInit, <1>1, <1>3, PTL DEF Spec

-----------------------------------------------------------------------------
(* The usage record                                                        *)

\* What a line adds to the record
Worth(l) == IF IsUsage(l) THEN 1 ELSE 0

\* What the reader counts
Taken(l) == IsData(l) /\ Value(l) = <<"u", "v">>

\* The last byte of a string outlives the white space in front of it.
LEMMA TrimLast ==
  ASSUME NEW s, s \in Seq(Bytes), s # <<>>, s[Len(s)] \notin Spaces
  PROVE  /\ TrimSpace(s) \in Seq(Bytes) /\ TrimSpace(s) # <<>> /\ Tidy(TrimSpace(s))
         /\ TrimSpace(s)[Len(TrimSpace(s))] = s[Len(s)]
<1>1. Len(s) \in Nat /\ Len(s) > 0
  OBVIOUS
<1>2. ~ AllSpace(s)
  BY <1>1 DEF AllSpace
<1>3. PICK lo, hi \in Nat : Within(s, lo, hi)
  BY <1>2, WithinExists
<1>4. hi = Len(s) /\ lo \in 1..Len(s) /\ s[lo] \notin Spaces
  BY <1>1, <1>3 DEF Within
<1>5. TrimSpace(s) = SubSeq(s, lo, Len(s))
  BY <1>3, <1>4, TrimWithin
<1> DEFINE t == SubSeq(s, lo, Len(s))
<1>6. Len(s) \in lo..Len(s)
  BY <1>1, <1>4
<1>7. /\ t \in Seq(Bytes) /\ Len(t) = Len(s) - lo + 1
      /\ \A i \in 1..(Len(s) - lo + 1) : t[i] = s[lo + i - 1]
  BY <1>4, <1>6, PartIs
<1> HIDE DEF t
<1>8. Len(t) \in 1..(Len(s) - lo + 1) /\ lo + Len(t) - 1 = Len(s) /\ 1 \in 1..(Len(s) - lo + 1) /\ lo + 1 - 1 = lo
  BY <1>1, <1>4, <1>7
<1>9. t[Len(t)] = s[Len(s)] /\ t[1] = s[lo]
  BY <1>7, <1>8
<1>10. t # <<>>
  BY <1>7, <1>8
<1>11. QED
  BY <1>4, <1>5, <1>7, <1>9, <1>10 DEF Tidy, t

LEMMA TrimNone == TrimSpace(<<>>) = <<>>
<1> DEFINE none == <<>>
<1>1. none \in Seq(Bytes) /\ Tidy(none)
  BY DEF Tidy
<1>2. QED
  BY <1>1, TrimTidy

LEMMA PrefixLast ==
  ASSUME NEW s, s \in Seq(Bytes), NEW b, b \in Bytes, TrimPrefix(s, b) # <<>>
  PROVE  /\ s # <<>> /\ TrimPrefix(s, b) \in Seq(Bytes)
         /\ TrimPrefix(s, b)[Len(TrimPrefix(s, b))] = s[Len(s)]
<1>1. CASE ~ HasPrefix(s, b)
  BY <1>1 DEF TrimPrefix
<1>2. CASE HasPrefix(s, b)
  <2>1. s # <<>> /\ TrimPrefix(s, b) = Tail(s)
    BY <1>2 DEF TrimPrefix, HasPrefix
  <2> DEFINE t == Tail(s)
  <2>2. /\ t \in Seq(Bytes) /\ Len(t) = Len(s) - 1 /\ Len(s) \in Nat
        /\ \A i \in 1..(Len(s) - 1) : t[i] = s[i + 1]
    BY <2>1, TailIs
  <2>3. t # <<>>
    BY <2>1
  <2> HIDE DEF t
  <2>4. Len(t) \in 1..(Len(s) - 1) /\ Len(t) + 1 = Len(s)
    BY <2>2, <2>3
  <2>5. t[Len(t)] = s[Len(s)]
    BY <2>2, <2>4
  <2>6. QED
    BY <2>1, <2>2, <2>5 DEF t
<1>3. QED
  BY <1>1, <1>2

\* A usage line ends with the end of the object, white space aside.
LEMMA UsageLast ==
  ASSUME NEW s, s \in Seq(Bytes), IsUsage(s)
  PROVE  s # <<>> /\ s[Len(s)] \in Spaces \cup {"v"}
<1> DEFINE uv == <<"u", "v">>  t == TrimSpace(s)  p == TrimPrefix(t, "data")
<1>1. uv # <<>> /\ uv[Len(uv)] = "v"
  OBVIOUS
<1>2. TrimSpace(p) = uv
  BY DEF IsUsage
<1>3. t \in Seq(Bytes) /\ "data" \in Bytes
  BY TrimTyped DEF Bytes
<1> HIDE DEF uv, t, p
<1>4. p # <<>>
  BY <1>1, <1>2, TrimNone
<1>5. t # <<>> /\ p \in Seq(Bytes) /\ p[Len(p)] = t[Len(t)]
  BY <1>3, <1>4, PrefixLast DEF p
<1>6. s # <<>>
  BY <1>5, TrimNone DEF t
<1>7. ASSUME s[Len(s)] \notin Spaces PROVE s[Len(s)] = "v"
  <2>1. t[Len(t)] = s[Len(s)]
    BY <1>6, <1>7, TrimLast DEF t
  <2>2. p[Len(p)] \notin Spaces
    BY <1>5, <1>7, <2>1
  <2>3. TrimSpace(p)[Len(TrimSpace(p))] = p[Len(p)]
    BY <1>4, <1>5, <2>2, TrimLast
  <2>4. QED
    BY <1>1, <1>2, <1>5, <2>1, <2>3
<1>8. QED
  BY <1>6, <1>7

LEMMA TakenLast ==
  ASSUME NEW s, s \in Seq(Bytes), Taken(s)
  PROVE  s # <<>> /\ s[Len(s)] = "v"
<1> DEFINE uv == <<"u", "v">>  t == Tail(s)
<1>1. uv # <<>> /\ uv[Len(uv)] = "v"
  OBVIOUS
<1>2. s # <<>> /\ TrimPrefix(t, "sp") = uv
  BY DEF Taken, IsData, HasPrefix, Value
<1>3. /\ t \in Seq(Bytes) /\ Len(t) = Len(s) - 1 /\ Len(s) \in Nat /\ "sp" \in Bytes
      /\ \A i \in 1..(Len(s) - 1) : t[i] = s[i + 1]
  BY <1>2, TailIs DEF Bytes
<1> HIDE DEF t, uv
<1>4. t # <<>> /\ t[Len(t)] = "v"
  BY <1>1, <1>2, <1>3, PrefixLast
<1>5. Len(t) \in 1..(Len(s) - 1) /\ Len(t) + 1 = Len(s)
  BY <1>3, <1>4
<1>6. t[Len(t)] = s[Len(s)]
  BY <1>3, <1>5
<1>7. QED
  BY <1>2, <1>4, <1>6

LEMMA SpaceBehind ==
  ASSUME NEW l, l \in Seq(Bytes), NEW b \in Spaces
  PROVE  TrimSpace(Append(l, b)) = TrimSpace(l) /\ (IsUsage(Append(l, b)) <=> IsUsage(l))
<1> DEFINE c == Append(l, b)
<1>1. b \in Bytes
  BY DEF Spaces, Bytes
<1>2. /\ c \in Seq(Bytes) /\ Len(c) = Len(l) + 1 /\ Len(l) \in Nat /\ c[Len(l) + 1] = b
      /\ \A i \in 1..Len(l) : c[i] = l[i]
  BY <1>1, AppendProperties
<1> HIDE DEF c
<1>3. CASE AllSpace(l)
  <2>1. AllSpace(c)
    <3> SUFFICES ASSUME NEW i \in 1..Len(c) PROVE c[i] \in Spaces
      BY DEF AllSpace
    <3>1. i \in 1..Len(l) \/ i = Len(l) + 1
      BY <1>2
    <3>2. QED
      BY <1>2, <1>3, <3>1 DEF AllSpace
  <2>2. QED
    BY <1>2, <1>3, <2>1, TrimAllSpace DEF IsUsage, c
<1>4. CASE ~ AllSpace(l)
  <2>1. PICK lo, hi \in Nat : Within(l, lo, hi)
    BY <1>4, WithinExists
  <2>2. lo \in 1..Len(l) /\ hi \in lo..Len(l) /\ l[lo] \notin Spaces /\ l[hi] \notin Spaces
    BY <2>1 DEF Within
  <2>3. Within(c, lo, hi)
    <3>1. /\ lo \in 1..Len(c) /\ hi \in lo..Len(c) /\ c[lo] \notin Spaces /\ c[hi] \notin Spaces
      BY <1>2, <2>2
    <3>2. ASSUME NEW i \in 1..Len(c), c[i] \notin Spaces PROVE i \in lo..hi
      <4>1. i \in 1..Len(l)
        BY <1>2, <3>2
      <4>2. QED
        BY <1>2, <2>1, <3>2, <4>1 DEF Within
    <3>3. QED
      BY <3>1, <3>2 DEF Within
  <2> DEFINE e == SubSeq(l, lo, hi)  f == SubSeq(c, lo, hi)
  <2>4. TrimSpace(l) = e /\ TrimSpace(c) = f
    BY <1>2, <2>1, <2>3, TrimWithin
  <2>5. /\ e \in Seq(Bytes) /\ Len(e) = hi - lo + 1
        /\ \A i \in 1..(hi - lo + 1) : e[i] = l[lo + i - 1]
    BY <2>2, PartIs
  <2>6. /\ f \in Seq(Bytes) /\ Len(f) = hi - lo + 1
        /\ \A i \in 1..(hi - lo + 1) : f[i] = c[lo + i - 1]
    <3>1. lo \in 1..Len(c) /\ hi \in lo..Len(c)
      BY <1>2, <2>2
    <3>2. QED
      BY <1>2, <3>1, PartIs
  <2> HIDE DEF e, f
  <2>7. \A i \in 1..Len(e) : e[i] = f[i]
    <3> SUFFICES ASSUME NEW i \in 1..Len(e) PROVE e[i] = f[i]
      OBVIOUS
    <3>1. i \in 1..(hi - lo + 1) /\ lo + i - 1 \in 1..Len(l)
      BY <1>2, <2>2, <2>5
    <3>2. QED
      BY <1>2, <2>5, <2>6, <3>1
  <2>8. e = f
    BY <2>5, <2>6, <2>7, SeqEqual
  <2>9. QED
    BY <2>4, <2>8 DEF IsUsage, c
<1>5. QED
  BY <1>3, <1>4

LEMMA NothingWorth == ~ IsUsage(<<>>) /\ ~ Taken(<<>>) /\ Worth(<<>>) = 0
<1> DEFINE none == <<>>
<1>1. none \in Seq(Bytes)
  OBVIOUS
<1> HIDE DEF none
<1>2. ~ IsUsage(none) /\ ~ Taken(none)
  BY <1>1, UsageLast, TakenLast DEF none
<1>3. QED
  BY <1>2 DEF none, Worth

\* What one more byte adds to the record
LEMMA UsageGrows ==
  ASSUME NEW s, s \in Seq(Bytes), NEW b, b \in Bytes
  PROVE  /\ UsageLines(s) \in Nat /\ UsageLines(Append(s, b)) \in Nat
         /\ b = "lf" => UsageLines(Append(s, b)) = UsageLines(s)
         /\ b # "lf" => UsageLines(Append(s, b)) + Worth(Last(SplitLines(s)))
                          = UsageLines(s) + Worth(Append(Last(SplitLines(s)), b))
<1> DEFINE c == Append(s, b)  x == SplitLines(s)  y == SplitLines(c)
           f == Front(x)  l == Last(x)  g == Front(y)  m == Last(y)
<1>1. c \in Seq(Bytes) /\ x \in Lines /\ y \in Lines
  BY SplitEnds, AppendProperties
<1>2. /\ b = "lf" => y = Append(x, <<>>)
      /\ b # "lf" => g = f /\ m = Append(l, b)
  BY SplitEnds
<1>3. UsageLines(s) = CountOf(x) /\ UsageLines(c) = CountOf(y)
  BY DEF UsageLines
<1>4. x \in Seq(Seq(Bytes)) /\ y \in Seq(Seq(Bytes))
  BY <1>1 DEF Lines
<1> HIDE DEF x, y, c
<1>5. /\ f \in Seq(Seq(Bytes)) /\ l \in Seq(Bytes) /\ x = Append(f, l)
      /\ g \in Seq(Seq(Bytes)) /\ m \in Seq(Bytes) /\ y = Append(g, m)
  BY <1>1, LinesAre
<1> HIDE DEF f, l, g, m
<1>6. /\ CountOf(x) = LineCounted(CountOf(f), l) /\ CountOf(y) = LineCounted(CountOf(g), m)
      /\ CountOf(f) \in Nat /\ CountOf(g) \in Nat /\ CountOf(x) \in Nat /\ CountOf(y) \in Nat
  BY <1>4, <1>5, CountOfIs
<1>7. CountOf(x) = CountOf(f) + Worth(l) /\ CountOf(y) = CountOf(g) + Worth(m)
  BY <1>6 DEF LineCounted, Worth
<1>8. CASE b = "lf"
  <2>1. CountOf(y) = LineCounted(CountOf(x), <<>>)
    <3> DEFINE none == <<>>
    <3>1. none \in Seq(Bytes) /\ y = Append(x, none)
      BY <1>2, <1>8
    <3> HIDE DEF none
    <3>2. CountOf(y) = LineCounted(CountOf(x), none)
      BY <1>4, <3>1, CountOfIs
    <3>3. QED
      BY <3>2 DEF none
  <2>2. LineCounted(CountOf(x), <<>>) = CountOf(x)
    BY NothingWorth DEF LineCounted
  <2>3. QED
    BY <1>3, <1>6, <1>8, <2>1, <2>2 DEF c
<1>9. CASE b # "lf"
  <2>1. CountOf(g) = CountOf(f) /\ Worth(m) = Worth(Append(l, b))
    BY <1>2, <1>9
  <2>2. Worth(l) \in Nat /\ Worth(m) \in Nat
    BY DEF Worth
  <2>3. CountOf(y) + Worth(l) = CountOf(x) + Worth(m)
    BY <1>6, <1>7, <2>1, <2>2
  <2>4. QED
    BY <1>3, <1>6, <1>9, <2>1, <2>3 DEF c, l, x
<1>10. QED
  BY <1>8, <1>9

\* A byte that is not the end of an object adds none.
LEMMA NoMoreThan ==
  ASSUME NEW s, s \in Seq(Bytes), NEW b, b \in Bytes
  PROVE  UsageLines(Append(s, b)) <= UsageLines(s) + (IF b = "v" THEN 1 ELSE 0)
<1> DEFINE l == Last(SplitLines(s))  m == Append(l, b)  old == UsageLines(s)
           new == UsageLines(Append(s, b))
<1>1. /\ old \in Nat /\ new \in Nat /\ (b = "lf" => new = old)
      /\ b # "lf" => new + Worth(l) = old + Worth(m)
  BY UsageGrows
<1>2. l \in Seq(Bytes)
  BY SplitEnds, LinesAre
<1> HIDE DEF l, old, new
<1>3. Worth(l) \in 0..1 /\ Worth(m) \in 0..1
  BY DEF Worth
<1>4. CASE b \in {"lf", "v"}
  <2>1. new <= old + (IF b = "v" THEN 1 ELSE 0)
    BY <1>1, <1>3, <1>4
  <2>2. QED
    BY <2>1 DEF old, new
<1>5. CASE b \notin {"lf", "v"}
  <2>1. IsUsage(m) => IsUsage(l)
    <3> SUFFICES ASSUME IsUsage(m) PROVE IsUsage(l)
      OBVIOUS
    <3>1. m \in Seq(Bytes) /\ m[Len(m)] = b
      BY <1>2, AppendProperties
    <3>2. b \in Spaces
      BY <1>5, <3>1, UsageLast
    <3>3. QED
      BY <1>2, <3>2, SpaceBehind
  <2>2. Worth(m) <= Worth(l)
    BY <2>1 DEF Worth
  <2> HIDE DEF m
  <2>3. new <= old
    BY <1>1, <1>3, <1>5, <2>2
  <2>4. QED
    BY <1>5, <2>3, <1>1 DEF old, new
<1>6. QED
  BY <1>4, <1>5

\* What is known of a byte b behind a whole string p
Follows(p, b) ==
  /\ b = "v" => ReadUpTo(Append(p, b)).line \in UsageData
  /\ p # <<>> /\ p[Len(p)] = "v" => b \in {"cr", "lf"}
  /\ p # <<>> /\ p[Len(p)] = "cr" => b = "lf"

LEMMA WholeBefore ==
  ASSUME NEW s, s \in Seq(Bytes), NEW b, b \in Bytes, Whole(Append(s, b))
  PROVE  Whole(s) /\ Follows(s, b)
<1> DEFINE c == Append(s, b)  n == Len(s)
<1>1. /\ c \in Seq(Bytes) /\ Len(c) = n + 1 /\ c[n + 1] = b /\ n \in Nat
      /\ \A i \in 1..n : c[i] = s[i]
  BY AppendProperties
<1> HIDE DEF c
<1>2. \A i \in 1..(n + 1) : WholeAt(c, i)
  BY <1>1 DEF Whole, c
<1>3. ASSUME NEW i \in 1..n PROVE WholeAt(s, i)
  <2> DEFINE e == SubSeq(s, 1, i)  f == SubSeq(c, 1, i)
  <2>1. e \in Seq(Bytes) /\ Len(e) = i /\ \A j \in 1..i : e[j] = s[j]
    <3>1. i \in 0..Len(s)
      BY <1>1
    <3>2. QED
      BY <3>1, PrefixIs
  <2>2. f \in Seq(Bytes) /\ Len(f) = i /\ \A j \in 1..i : f[j] = c[j]
    <3>1. i \in 0..Len(c)
      BY <1>1
    <3>2. QED
      BY <1>1, <3>1, PrefixIs
  <2> HIDE DEF e, f
  <2>3. \A j \in 1..i : e[j] = f[j]
    <3> SUFFICES ASSUME NEW j \in 1..i PROVE e[j] = f[j]
      OBVIOUS
    <3>1. j \in 1..n
      BY <1>1
    <3>2. QED
      BY <1>1, <2>1, <2>2, <3>1
  <2>4. e = f
    BY <2>1, <2>2, <2>3, SeqEqual
  <2>5. WholeAt(c, i) /\ c[i] = s[i] /\ (i > 1 => c[i - 1] = s[i - 1])
    <3>1. i \in 1..(n + 1) /\ (i > 1 => i - 1 \in 1..n)
      BY <1>1
    <3>2. QED
      BY <1>1, <1>2, <3>1
  <2>6. QED
    BY <2>4, <2>5 DEF WholeAt, e, f
<1>4. Follows(s, b)
  <2>1. WholeAt(c, n + 1) /\ c[n + 1] = b
    BY <1>1, <1>2
  <2>2. SubSeq(c, 1, n + 1) = c
    BY <1>1, SubSeqFull
  <2>3. b = "v" => ReadUpTo(c).line \in UsageData
    BY <2>1, <2>2 DEF WholeAt
  <2>4. s # <<>> => n + 1 > 1 /\ c[(n + 1) - 1] = s[n]
    <3> SUFFICES ASSUME s # <<>> PROVE n + 1 > 1 /\ c[(n + 1) - 1] = s[n]
      OBVIOUS
    <3>1. n > 0 /\ (n + 1) - 1 = n
      BY <1>1
    <3>2. QED
      BY <1>1, <3>1
  <2>5. QED
    BY <2>1, <2>3, <2>4 DEF WholeAt, Follows, c, n
<1>5. QED
  BY <1>3, <1>4 DEF Whole

LEMMA WholePrefix ==
  ASSUME NEW a, a \in Seq(Bytes)
  PROVE  \A c \in Seq(Bytes) : Whole(a \o c) => Whole(a)
<1> DEFINE T == {c \in Seq(Bytes) : Whole(a \o c) => Whole(a)}
<1>1. <<>> \in T
  <2>1. a \o <<>> = a /\ <<>> \in Seq(Bytes)
    BY ConcatEmptySeq
  <2>2. QED
    BY <2>1
<1>2. ASSUME NEW c \in Seq(Bytes), NEW b \in Bytes, c \in T PROVE Append(c, b) \in T
  <2>1. a \o c \in Seq(Bytes) /\ Append(c, b) \in Seq(Bytes) /\ a \o Append(c, b) = Append(a \o c, b)
    BY AppendBehind
  <2>2. Whole(a \o Append(c, b)) => Whole(a \o c)
    <3> DEFINE d == a \o c
    <3> HIDE DEF d
    <3>1. Whole(Append(d, b)) => Whole(d)
      BY <2>1, WholeBefore DEF d
    <3>2. QED
      BY <2>1, <3>1 DEF d
  <2>3. QED
    BY <1>2, <2>1, <2>2
<1>3. \A c \in Seq(Bytes) : c \in T
  <2> HIDE DEF T
  <2>1. QED
    BY <1>1, <1>2, AllStrings
<1>4. QED
  BY <1>3

\* The lines of UsageData are worth one to the parser and to the reader, and
\* were worth none without their last byte.
LEMMA UsageDataCounts ==
  ASSUME NEW l, l \in UsageData
  PROVE  l \in Seq(Bytes) /\ IsUsage(l) /\ Taken(l)
<1> DEFINE uv == <<"u", "v">>  a == <<"data", "u", "v">>  c == <<"data", "sp", "u", "v">>
           d == <<"sp", "u", "v">>
<1>1. l = a \/ l = c
  BY DEF UsageData
<1>2. uv \in Seq(Bytes) /\ a \in Seq(Bytes) /\ c \in Seq(Bytes) /\ d \in Seq(Bytes)
  BY DEF Bytes
<1>3. /\ a # <<>> /\ c # <<>> /\ d # <<>> /\ uv # <<>>
      /\ Head(a) = "data" /\ Tail(a) = uv /\ Head(c) = "data" /\ Tail(c) = d
      /\ Head(d) = "sp" /\ Tail(d) = uv /\ Head(uv) = "u"
  OBVIOUS
<1>4. TrimSpace(a) = a /\ TrimSpace(c) = c /\ TrimSpace(uv) = uv
  <2>1. Tidy(a) /\ Tidy(c) /\ Tidy(uv)
    BY DEF Tidy, Spaces
  <2> HIDE DEF a, c, uv
  <2>2. QED
    BY <1>2, <2>1, TrimTidy
<1>5. TrimSpace(d) = uv
  <2>1. Len(d) = 3 /\ d[1] = "sp" /\ d[2] = "u" /\ d[3] = "v" /\ Len(uv) = 2 /\ uv[1] = "u" /\ uv[2] = "v"
    OBVIOUS
  <2> HIDE DEF d, uv
  <2>2. Within(d, 2, 3)
    BY <2>1 DEF Within, Spaces
  <2> DEFINE e == SubSeq(d, 2, 3)
  <2>3. TrimSpace(d) = e
    BY <1>2, <2>2, TrimWithin
  <2>4. e \in Seq(Bytes) /\ Len(e) = 3 - 2 + 1 /\ \A i \in 1..(3 - 2 + 1) : e[i] = d[2 + i - 1]
    <3>1. 2 \in 1..Len(d) /\ 3 \in 2..Len(d)
      BY <2>1
    <3>2. QED
      BY <1>2, <3>1, PartIs
  <2> HIDE DEF e
  <2>5. Len(e) = 2 /\ e[1] = "u" /\ e[2] = "v"
    BY <2>1, <2>4
  <2>6. \A i \in 1..Len(e) : e[i] = uv[i]
    BY <2>1, <2>5
  <2>7. e = uv
    BY <1>2, <2>1, <2>4, <2>5, <2>6, SeqEqual
  <2>8. QED
    BY <2>3, <2>7
<1> HIDE DEF a, c, d, uv
<1>6. /\ TrimPrefix(a, "data") = uv /\ TrimPrefix(c, "data") = d
      /\ TrimPrefix(uv, "sp") = uv /\ TrimPrefix(d, "sp") = uv
  BY <1>3 DEF TrimPrefix, HasPrefix
<1>7. IsUsage(a) /\ IsUsage(c)
  BY <1>4, <1>5, <1>6 DEF IsUsage, uv
<1>8. Value(a) = uv /\ Value(c) = uv
  BY <1>3, <1>6 DEF Value
<1>9. Taken(a) /\ Taken(c)
  BY <1>3, <1>8 DEF Taken, IsData, HasPrefix, uv
<1>10. QED
  BY <1>1, <1>2, <1>7, <1>9

LEMMA UsageDataBegun ==
  ASSUME NEW q, q \in Seq(Bytes), Append(q, "v") \in UsageData
  PROVE  ~ IsUsage(q)
<1> DEFINE c == Append(q, "v")  n == Len(q)
<1>1. /\ n \in Nat /\ Len(c) = n + 1 /\ \A i \in 1..n : c[i] = q[i]
  BY AppendProperties DEF Bytes
<1>2. c = <<"data", "u", "v">> \/ c = <<"data", "sp", "u", "v">>
  BY DEF UsageData
<1> HIDE DEF c
<1>3. (Len(c) = 3 /\ c[2] = "u") \/ (Len(c) = 4 /\ c[3] = "u")
  BY <1>2
<1>4. q[n] = "u"
  BY <1>1, <1>3
<1>5. QED
  BY <1>4, UsageLast DEF Spaces

\* What the record gives of a string, and what the reader has counted in it
Tallied(p, r, l) ==
  /\ l = r.line \/ (l = Append(r.line, "cr") /\ p # <<>> /\ p[Len(p)] = "cr")
  /\ UsageLines(p) = r.usage + Worth(l)
  /\ IsUsage(l) <=> Taken(r.line)
  /\ IsUsage(l) => p # <<>> /\ p[Len(p)] \in {"v", "cr"}

TalliedAt(p) == Tallied(p, ReadUpTo(p), Last(SplitLines(p)))

LEMMA TalliedFirst == TalliedAt(<<>>)
<1> DEFINE none == <<>>
<1>1. none \in Seq(Bytes) /\ none \in Seq(Seq(Bytes))
  OBVIOUS
<1> HIDE DEF none
<1>2. SplitLines(none) = <<none>> /\ ReadUpTo(none) = Fresh
  BY SplitLinesIs, ReadUpToIs DEF none
<1>3. Last(<<none>>) = none
  BY DEF Last
<1>4. Fresh.line = none /\ Fresh.usage = 0
  BY DEF Fresh, none
<1>5. ~ IsUsage(none) /\ ~ Taken(none) /\ Worth(none) = 0
  BY NothingWorth DEF none
<1>6. UsageLines(none) = 0
  <2>1. <<none>> = Append(<<>>, none)
    OBVIOUS
  <2>2. CountOf(Append(<<>>, none)) = LineCounted(CountOf(<<>>), none)
    <3> DEFINE empty == <<>>
    <3>1. empty \in Seq(Seq(Bytes))
      OBVIOUS
    <3> HIDE DEF empty
    <3>2. CountOf(Append(empty, none)) = LineCounted(CountOf(empty), none)
      BY <1>1, <3>1, CountOfIs
    <3>3. QED
      BY <3>2 DEF empty
  <2>3. CountOf(<<>>) = 0
    BY CountOfIs
  <2>4. LineCounted(0, none) = 0
    BY <1>5 DEF LineCounted
  <2>5. QED
    BY <1>2, <2>1, <2>2, <2>3, <2>4 DEF UsageLines
<1>7. Tallied(none, Fresh, none)
  BY <1>4, <1>5, <1>6 DEF Tallied
<1>8. QED
  BY <1>2, <1>3, <1>7 DEF TalliedAt, none

LEMMA TalliedOn ==
  ASSUME NEW p, p \in Seq(Bytes), TalliedAt(p), NEW b, b \in Bytes, Follows(p, b)
  PROVE  /\ TalliedAt(Append(p, b))
         /\ UsageLines(Append(p, b)) = UsageLines(p) + (IF b = "v" THEN 1 ELSE 0)
<1> DEFINE c == Append(p, b)  r == ReadUpTo(p)  q == ReadUpTo(c)
           l == Last(SplitLines(p))  m == Last(SplitLines(c))
           old == UsageLines(p)  new == UsageLines(c)
<1>1. /\ c \in Seq(Bytes) /\ c # <<>> /\ c[Len(c)] = b
  <2>1. c \in Seq(Bytes) /\ Len(c) = Len(p) + 1 /\ c[Len(p) + 1] = b
    BY AppendProperties
  <2> HIDE DEF c
  <2>2. Len(p) \in Nat /\ Len(c) # 0
    BY <2>1
  <2>3. QED
    BY <2>1, <2>2
<1>2. r \in Reader /\ q \in Reader /\ q = ByteRead(r, b)
  BY <1>1, ReadUpToIs
<1>3. /\ l \in Seq(Bytes) /\ m \in Seq(Bytes)
      /\ b = "lf" => m = <<>>
      /\ b # "lf" => m = Append(l, b)
  BY <1>1, SplitEnds, LinesAre
<1>4. /\ old \in Nat /\ new \in Nat /\ (b = "lf" => new = old)
      /\ b # "lf" => new + Worth(l) = old + Worth(m)
  <2>1. b # "lf" => new + Worth(l) = old + Worth(Append(l, b))
    BY UsageGrows
  <2>2. QED
    BY <1>3, <2>1, UsageGrows
<1>5. Tallied(p, r, l)
  BY DEF TalliedAt
<1>6. b = "v" => q.line \in UsageData
  BY DEF Follows
<1>7. /\ p # <<>> /\ p[Len(p)] = "v" => b \in {"cr", "lf"}
      /\ p # <<>> /\ p[Len(p)] = "cr" => b = "lf"
  BY DEF Follows
<1>8. r.line \in Seq(Bytes) /\ r.usage \in Nat
  BY <1>2, ReaderIs
<1> DEFINE Goal == Tallied(c, q, m) /\ new = old + (IF b = "v" THEN 1 ELSE 0)
<1>9. SUFFICES Goal
  BY DEF TalliedAt
<1> HIDE DEF c, r, q, l, m, old, new
<1>10. ASSUME b = "lf" PROVE Goal
  <2>1. q = LineRead(r)
    BY <1>2, <1>10 DEF ByteRead
  <2>2. q.line = <<>> /\ q.usage = IF Taken(r.line) THEN r.usage + 1 ELSE r.usage
    BY <1>2, <2>1, LineReadIs DEF Taken
  <2>3. m = <<>> /\ new = old
    BY <1>3, <1>4, <1>10
  <2>4. old = r.usage + Worth(l) /\ (IsUsage(l) <=> Taken(r.line))
    BY <1>5 DEF Tallied, old
  <2>5. old = q.usage
    BY <1>8, <2>2, <2>4 DEF Worth
  <2>6. Tallied(c, q, m)
    BY <1>4, <2>2, <2>3, <2>5, NothingWorth DEF Tallied, new
  <2>7. QED
    BY <1>4, <1>10, <2>3, <2>6
<1>11. ASSUME b # "lf" PROVE l = r.line /\ (IsUsage(l) => b = "cr") /\ old = r.usage + Worth(l) /\ m = Append(l, b)
                            /\ (IsUsage(l) <=> Taken(r.line))
  <2>1. l = r.line /\ old = r.usage + Worth(l) /\ (IsUsage(l) <=> Taken(r.line))
    BY <1>5, <1>7, <1>11 DEF Tallied, old
  <2>2. IsUsage(l) => b = "cr"
    BY <1>5, <1>7, <1>11 DEF Tallied
  <2>3. QED
    BY <1>3, <1>11, <2>1, <2>2
<1>12. ASSUME b = "cr" PROVE Goal
  <2>1. q = r
    BY <1>2, <1>12 DEF ByteRead
  <2>2. "cr" \in Spaces
    BY DEF Spaces
  <2>3. IsUsage(m) <=> IsUsage(l)
    BY <1>3, <1>11, <1>12, <2>2, SpaceBehind
  <2>4. Worth(m) = Worth(l) /\ Worth(m) \in Nat
    BY <2>3 DEF Worth
  <2>5. new = old
    BY <1>4, <1>12, <2>4
  <2>6. Tallied(c, q, m)
    BY <1>1, <1>11, <1>12, <2>1, <2>3, <2>4, <2>5 DEF Tallied, new
  <2>7. QED
    BY <1>4, <1>12, <2>5, <2>6
<1>13. ASSUME b \notin {"lf", "cr"} PROVE q.line = m /\ q.usage = r.usage
  <2> DEFINE k == Append(r.line, b)
  <2>1. q = [r EXCEPT !.line = k]
    BY <1>2, <1>13 DEF ByteRead
  <2> HIDE DEF k
  <2>2. q.line = k /\ q.usage = r.usage
    BY <1>2, <2>1 DEF Reader
  <2>3. QED
    BY <1>11, <1>13, <2>2 DEF k
<1>14. ASSUME b = "v" PROVE Goal
  <2>1. m \in UsageData /\ m = Append(l, "v")
    BY <1>6, <1>11, <1>13, <1>14
  <2>2. IsUsage(m) /\ Taken(m)
    BY <2>1, UsageDataCounts
  <2>3. ~ IsUsage(l)
    BY <1>3, <2>1, UsageDataBegun
  <2>4. Worth(m) = 1 /\ Worth(l) = 0
    BY <2>2, <2>3 DEF Worth
  <2>5. new = old + 1
    BY <1>4, <1>14, <2>4
  <2>6. q.line = m /\ q.usage = r.usage /\ old = r.usage + Worth(l)
    BY <1>11, <1>13, <1>14
  <2>7. new = q.usage + Worth(m)
    BY <1>8, <2>4, <2>5, <2>6
  <2>8. Tallied(c, q, m)
    BY <1>1, <1>14, <2>2, <2>6, <2>7 DEF Tallied, new
  <2>9. QED
    BY <1>14, <2>5, <2>8
<1>15. ASSUME b \notin {"lf", "cr", "v"} PROVE Goal
  <2>1. q.line = m /\ q.usage = r.usage /\ m = Append(l, b) /\ old = r.usage + Worth(l) /\ ~ IsUsage(l)
    BY <1>11, <1>13, <1>15
  <2>2. m # <<>> /\ m[Len(m)] = b
    <3>1. Len(m) = Len(l) + 1 /\ m[Len(l) + 1] = b /\ Len(l) \in Nat
      BY <1>3, <2>1, AppendProperties
    <3>2. QED
      BY <1>3, <3>1
  <2>3. ~ Taken(m)
    BY <1>3, <1>15, <2>2, TakenLast
  <2>4. ~ IsUsage(m)
    <3>1. CASE b \in Spaces
      BY <1>3, <2>1, <3>1, SpaceBehind
    <3>2. CASE b \notin Spaces
      BY <1>3, <1>15, <2>2, <3>2, UsageLast
    <3>3. QED
      BY <3>1, <3>2
  <2>5. Worth(m) = 0 /\ Worth(l) = 0
    BY <2>1, <2>4 DEF Worth
  <2>6. new = old
    BY <1>4, <1>15, <2>5
  <2>7. Tallied(c, q, m)
    BY <1>8, <2>1, <2>3, <2>4, <2>5, <2>6 DEF Tallied, new
  <2>8. QED
    BY <1>4, <1>15, <2>6, <2>7
<1>16. QED
  BY <1>10, <1>12, <1>14, <1>15

LEMMA WholeIsTallied == \A s \in Seq(Bytes) : Whole(s) => TalliedAt(s)
<1> DEFINE T == {s \in Seq(Bytes) : Whole(s) => TalliedAt(s)}
<1>1. <<>> \in T
  BY TalliedFirst
<1>2. ASSUME NEW s \in Seq(Bytes), NEW b \in Bytes, s \in T PROVE Append(s, b) \in T
  <2>1. Append(s, b) \in Seq(Bytes)
    BY AppendProperties
  <2>2. Whole(Append(s, b)) => TalliedAt(Append(s, b))
    BY <1>2, WholeBefore, TalliedOn
  <2>3. QED
    BY <2>1, <2>2
<1>3. \A s \in Seq(Bytes) : s \in T
  <2> HIDE DEF T
  <2>1. QED
    BY <1>1, <1>2, AllStrings
<1>4. QED
  BY <1>3

\* The reader, at the end of a whole string, has counted what the record gives.
LEMMA WholeCounts ==
  ASSUME NEW s, s \in Seq(Bytes), Whole(s)
  PROVE  UsageLines(s) = UsageCarried(s)
<1> DEFINE r == ReadUpTo(s)  l == Last(SplitLines(s))  q == LineRead(r)
<1>1. r \in Reader /\ r.usage \in Nat
  BY ReadUpToIs, ReaderIs
<1>2. Tallied(s, r, l)
  BY WholeIsTallied DEF TalliedAt
<1> HIDE DEF r, l
<1>3. q \in Reader /\ q.line = <<>> /\ q.usage = IF Taken(r.line) THEN r.usage + 1 ELSE r.usage
  BY <1>1, LineReadIs DEF Taken
<1> HIDE DEF q
<1>4. LineRead(q).usage = q.usage
  <2>1. ~ Taken(q.line)
    BY <1>3, NothingWorth
  <2>2. QED
    BY <1>3, <2>1, LineReadIs DEF Taken
<1>5. UsageLines(s) = r.usage + Worth(l) /\ (IsUsage(l) <=> Taken(r.line))
  BY <1>2 DEF Tallied
<1>6. q.usage = UsageLines(s)
  BY <1>1, <1>3, <1>5 DEF Worth
<1>7. QED
  BY <1>4, <1>6 DEF UsageCarried, AtTheEnd, q, r

\* The record of what was kept of a string, and that of the string
NoMore(d, p) == UsageLines(d) <= UsageLines(p)
Level(d, p) ==
  UsageLines(d) = UsageLines(p) /\ Last(SplitLines(d)) = Last(SplitLines(p))

LEMMA KeptOn ==
  ASSUME NEW d, d \in Seq(Bytes), NEW p, p \in Seq(Bytes)
  PROVE  \A c \in Seq(Bytes) :
           /\ Whole(p \o c) /\ NoMore(d, p) => NoMore(d \o c, p \o c)
           /\ Level(d, p) => Level(d \o c, p \o c)
<1> DEFINE T == {c \in Seq(Bytes) : /\ Whole(p \o c) /\ NoMore(d, p) => NoMore(d \o c, p \o c)
                                    /\ Level(d, p) => Level(d \o c, p \o c)}
<1>1. <<>> \in T
  <2>1. p \o <<>> = p /\ d \o <<>> = d /\ <<>> \in Seq(Bytes)
    BY ConcatEmptySeq
  <2>2. QED
    BY <2>1
<1>2. ASSUME NEW c \in Seq(Bytes), NEW b \in Bytes, c \in T PROVE Append(c, b) \in T
  <2> DEFINE e == d \o c  f == p \o c
  <2>1. /\ e \in Seq(Bytes) /\ f \in Seq(Bytes) /\ Append(c, b) \in Seq(Bytes)
        /\ d \o Append(c, b) = Append(e, b) /\ p \o Append(c, b) = Append(f, b)
    BY AppendBehind
  <2>2. Whole(f) /\ NoMore(d, p) => NoMore(e, f)
    BY <1>2
  <2>3. Level(d, p) => Level(e, f)
    BY <1>2
  <2> HIDE DEF e, f
  <2>4. UsageLines(e) \in Nat /\ UsageLines(f) \in Nat /\ UsageLines(Append(e, b)) \in Nat
    BY <2>1, UsageGrows
  <2>5. ASSUME Whole(Append(f, b)), NoMore(d, p) PROVE NoMore(Append(e, b), Append(f, b))
    <3>1. Whole(f) /\ Follows(f, b)
      BY <2>1, <2>5, WholeBefore
    <3>2. UsageLines(Append(f, b)) = UsageLines(f) + (IF b = "v" THEN 1 ELSE 0)
      BY <2>1, <3>1, WholeIsTallied, TalliedOn
    <3>3. UsageLines(Append(e, b)) <= UsageLines(e) + (IF b = "v" THEN 1 ELSE 0)
      BY <2>1, NoMoreThan
    <3>4. UsageLines(e) <= UsageLines(f)
      BY <2>2, <2>5, <3>1 DEF NoMore
    <3>5. UsageLines(Append(e, b)) <= UsageLines(Append(f, b))
      BY <2>4, <3>2, <3>3, <3>4
    <3>6. QED
      BY <3>5 DEF NoMore
  <2>6. ASSUME Level(d, p) PROVE Level(Append(e, b), Append(f, b))
    <3> DEFINE l == Last(SplitLines(e))
    <3>1. UsageLines(e) = UsageLines(f) /\ l = Last(SplitLines(f))
      BY <2>3, <2>6 DEF Level
    <3>2. CASE b = "lf"
      BY <2>1, <3>1, <3>2, UsageGrows, SplitEnds DEF Level
    <3>3. CASE b # "lf"
      <4>1. /\ UsageLines(Append(e, b)) + Worth(l) = UsageLines(e) + Worth(Append(l, b))
            /\ Last(SplitLines(Append(e, b))) = Append(l, b)
        BY <2>1, <3>3, UsageGrows, SplitEnds
      <4>2. /\ UsageLines(Append(f, b)) + Worth(l) = UsageLines(e) + Worth(Append(l, b))
            /\ Last(SplitLines(Append(f, b))) = Append(l, b) /\ UsageLines(Append(f, b)) \in Nat
        BY <2>1, <3>1, <3>3, UsageGrows, SplitEnds
      <4> HIDE DEF l
      <4>3. Worth(l) \in Nat /\ Worth(Append(l, b)) \in Nat
        BY DEF Worth
      <4>4. UsageLines(Append(e, b)) = UsageLines(Append(f, b))
        BY <2>4, <4>1, <4>2, <4>3
      <4>5. QED
        BY <4>1, <4>2, <4>4 DEF Level
    <3>4. QED
      BY <3>2, <3>3
  <2>7. QED
    BY <2>1, <2>5, <2>6
<1>3. \A c \in Seq(Bytes) : c \in T
  <2> HIDE DEF T
  <2>1. QED
    BY <1>1, <1>2, AllStrings
<1>4. QED
  BY <1>3

\* The record of what the pump has kept is never ahead of that of the bytes
\* read, and is level with it, down to the line being read, as long as reads
\* end at line ends; the pump sums the record up once, over all of the stream.
UsageInvariant ==
  /\ stream \in Streams /\ stream \in Seq(Bytes) /\ buffer \in Seq(Bytes)
  /\ pos \in 0..Len(stream) /\ ended \in BOOLEAN
  /\ ended => pos = Len(stream) /\ usage = UsageLines(buffer)
  /\ NoMore(buffer, SubSeq(stream, 1, pos))
  /\ cut # "inside" =>
       /\ UsageLines(buffer) = UsageLines(SubSeq(stream, 1, pos))
       /\ pos < Len(stream) => Level(buffer, SubSeq(stream, 1, pos))

LEMMA UsageInit == Init => UsageInvariant
<1> SUFFICES ASSUME Init PROVE UsageInvariant
  OBVIOUS
<1>1. stream \in Streams /\ stream \in Seq(Bytes) /\ pos = 0 /\ ended = FALSE /\ buffer = <<>>
  BY FramingAssumption DEF Init
<1>2. Len(stream) \in Nat
  BY <1>1
<1>3. SubSeq(stream, 1, pos) = buffer
  BY <1>1, <1>2, SubSeqEmpty
<1>4. buffer \in Seq(Bytes) /\ pos \in 0..Len(stream)
  BY <1>1, <1>2
<1>5. UsageLines(buffer) \in Nat
  <2>1. "lf" \in Bytes
    BY DEF Bytes
  <2>2. QED
    BY <1>4, <2>1, UsageGrows
<1>6. NoMore(buffer, buffer) /\ Level(buffer, buffer)
  BY <1>5 DEF NoMore, Level
<1>7. QED
  BY <1>1, <1>3, <1>4, <1>6, Zenon DEF UsageInvariant

LEMMA UsageRead ==
  ASSUME \A s \in Streams : Whole(s), UsageInvariant, NEW k \in 1..Len(stream), Read(k)
  PROVE  UsageInvariant'
<1> DEFINE a == SubSeq(stream, 1, pos)  c == SubSeq(stream, pos + 1, pos + k)
           p == a \o c  d == buffer \o c
<1>1. /\ stream \in Seq(Bytes) /\ pos \in Nat /\ k \in Nat /\ k > 0 /\ buffer \in Seq(Bytes)
      /\ pos + k <= Len(stream) /\ Len(stream) \in Nat /\ ended' = FALSE
      /\ stream' = stream /\ pos' = pos + k
      /\ cut' # "inside" => cut # "inside" /\ Cut(stream, pos + k) # "inside"
      /\ stream \in Streams
  <2>1. /\ stream \in Seq(Bytes) /\ pos \in Nat /\ Len(stream) \in Nat /\ buffer \in Seq(Bytes)
        /\ ended \in BOOLEAN /\ stream \in Streams
    BY DEF UsageInvariant
  <2>2. /\ pos + k <= Len(stream) /\ ~ ended /\ ended' = ended /\ stream' = stream /\ pos' = pos + k
        /\ cut' = IF Cut(stream, pos + k) = "frame" THEN cut
                  ELSE IF cut = "inside" THEN cut ELSE Cut(stream, pos + k)
    BY DEF Read
  <2>3. k \in Nat /\ k > 0
    BY <2>1
  <2>4. QED
    BY <2>1, <2>2, <2>3
<1>2. buffer' = d \o <<"lf">>
  BY DEF Read
<1>3. c \in Seq(Bytes) /\ SubSeq(stream, 1, pos + k) = p
  BY <1>1, ReadJoins
<1>4. a \in Seq(Bytes)
  <2>1. pos \in 0..Len(stream)
    BY <1>1
  <2>2. QED
    BY <1>1, <2>1, PrefixIs
<1>5. SubSeq(stream', 1, pos') = p
  BY <1>1, <1>3
<1>6. Whole(p)
  <2> DEFINE n == pos + k  rest == SubSeq(stream, n + 1, Len(stream))
  <2>1. Whole(stream)
    BY <1>1
  <2>2. CASE n = Len(stream)
    <3>1. p = stream
      BY <1>1, <1>3, <2>2, SubSeqFull
    <3>2. QED
      BY <2>1, <3>1
  <2>3. CASE n < Len(stream)
    <3> DEFINE m == Len(stream) - n
    <3>1. n \in Nat /\ m \in Nat /\ m > 0 /\ n + m = Len(stream)
      BY <1>1, <2>3
    <3> HIDE DEF n, m
    <3>2. rest \in Seq(Bytes) /\ SubSeq(stream, 1, Len(stream)) = SubSeq(stream, 1, n) \o rest
      <4>1. /\ SubSeq(stream, n + 1, n + m) \in Seq(Bytes)
            /\ SubSeq(stream, 1, n + m) = SubSeq(stream, 1, n) \o SubSeq(stream, n + 1, n + m)
        BY <1>1, <3>1, ReadJoins
      <4>2. QED
        BY <3>1, <4>1
    <3>3. SubSeq(stream, 1, n) = p
      BY <1>3 DEF n
    <3>4. SubSeq(stream, 1, Len(stream)) = stream
      BY <1>1, SubSeqFull
    <3> HIDE DEF rest
    <3>5. p \in Seq(Bytes) /\ stream = p \o rest
      <4>1. p \in Seq(Bytes)
        BY <1>3, <1>4, ConcatProperties
      <4>2. QED
        BY <3>2, <3>3, <3>4, <4>1
    <3> HIDE DEF p
    <3>6. QED
      BY <2>1, <3>2, <3>5, WholePrefix
  <2>4. QED
    BY <1>1, <2>2, <2>3
<1>7. NoMore(buffer, a) /\ (cut # "inside" /\ pos < Len(stream) => Level(buffer, a))
  BY DEF UsageInvariant, a
<1> HIDE DEF a, c
<1>8. p \in Seq(Bytes) /\ d \in Seq(Bytes)
  BY <1>1, <1>3, <1>4, ConcatProperties
<1>9. NoMore(d, p) /\ (cut' # "inside" => Level(d, p))
  <2>1. NoMore(d, p) /\ (Level(buffer, a) => Level(d, p))
    BY <1>1, <1>3, <1>4, <1>6, <1>7, KeptOn
  <2>2. pos < Len(stream)
    BY <1>1
  <2> HIDE DEF d, p
  <2>3. QED
    BY <1>1, <1>7, <2>1, <2>2
<1> HIDE DEF p, d
<1>10. /\ buffer' \in Seq(Bytes) /\ UsageLines(buffer') = UsageLines(d)
       /\ Last(SplitLines(buffer')) = <<>>
  <2>1. "lf" \in Bytes
    BY DEF Bytes
  <2>2. buffer' = Append(d, "lf")
    BY <1>2, <1>8, <2>1, AppendIsConcat
  <2>3. Append(d, "lf") \in Seq(Bytes)
    BY <1>8, <2>1, AppendProperties
  <2>4. QED
    BY <1>8, <2>1, <2>2, <2>3, UsageGrows, SplitEnds
<1>11. NoMore(buffer', p)
  BY <1>9, <1>10 DEF NoMore
<1>12. cut' # "inside" => UsageLines(buffer') = UsageLines(p)
  BY <1>9, <1>10 DEF Level
<1>13. ASSUME cut' # "inside", pos' < Len(stream') PROVE Level(buffer', p)
  <2> DEFINE n == pos + k  e == SubSeq(stream, 1, n - 1)
  <2>1. n # Len(stream) /\ n \in 1..Len(stream) /\ n - 1 \in 0..Len(stream) /\ 1 \in 1..Len(stream)
    BY <1>1, <1>13
  <2>2. stream[n] = "lf"
    BY <1>1, <1>13, <2>1 DEF Cut
  <2>3. e \in Seq(Bytes)
    BY <1>1, <2>1, PrefixIs
  <2>4. SubSeq(stream, 1, n) = e \o <<stream[n]>>
    BY <1>1, <2>1, SubSeqRecursiveSecond
  <2>5. p = e \o <<"lf">>
    BY <1>3, <2>2, <2>4
  <2> HIDE DEF e
  <2>6. "lf" \in Bytes
    BY DEF Bytes
  <2>7. p = Append(e, "lf")
    BY <2>3, <2>5, <2>6, AppendIsConcat
  <2>8. Last(SplitLines(p)) = <<>>
    BY <2>3, <2>6, <2>7, SplitEnds
  <2>9. QED
    BY <1>10, <1>12, <1>13, <2>8 DEF Level
<1>14. pos' \in 0..Len(stream')
  BY <1>1
<1>15. QED
  BY <1>1, <1>5, <1>10, <1>11, <1>12, <1>13, <1>14 DEF UsageInvariant

LEMMA UsageNext ==
  (\A s \in Streams : Whole(s)) => (UsageInvariant /\ [Next]_vars => UsageInvariant')
<1> SUFFICES ASSUME \A s \in Streams : Whole(s), UsageInvariant, [Next]_vars PROVE UsageInvariant'
  OBVIOUS
<1>1. CASE \E k \in 1..Len(stream) : Read(k)
  BY <1>1, UsageRead
<1>2. CASE End
  BY <1>2 DEF End, UsageInvariant
<1>3. CASE UNCHANGED vars
  BY <1>3 DEF vars, UsageInvariant
<1>4. QED
  BY <1>1, <1>2, <1>3 DEF Next

\* For any whole streams and any reads: the record never counts an object twice
\* or one the stream does not carry, and counts all of them when reads end at
\* line ends (streamUsageBuffer, parseUsageTotalsFromStreamText).
THEOREM UsageAccountedHolds ==
  (\A s \in Streams : Whole(s)) => (Spec => []UsageAccounted)
<1> SUFFICES ASSUME \A s \in Streams : Whole(s) PROVE Spec => []UsageAccounted
  OBVIOUS
<1>1. UsageInvariant /\ [Next]_vars => UsageInvariant'
  BY UsageNext
<1>2. UsageInvariant => UsageAccounted
  <2> SUFFICES ASSUME UsageInvariant, ended
               PROVE  /\ usage <= UsageCarried(stream)
                      /\ cut # "inside" => usage = UsageCarried(stream)
    BY DEF UsageAccounted
  <2>1. /\ stream \in Seq(Bytes) /\ Whole(stream) /\ usage = UsageLines(buffer) /\ pos = Len(stream)
        /\ NoMore(buffer, SubSeq(stream, 1, pos))
        /\ cut # "inside" => UsageLines(buffer) = UsageLines(SubSeq(stream, 1, pos))
    BY DEF UsageInvariant
  <2>2. SubSeq(stream, 1, pos) = stream
    BY <2>1, SubSeqFull
  <2>3. UsageLines(stream) = UsageCarried(stream)
    BY <2>1, WholeCounts
  <2>4. QED
    BY <2>1, <2>2, <2>3 DEF NoMore
<1>3. QED
  BY UsageInit, <1>1, <1>2, PTL DEF Spec
=============================================================================
