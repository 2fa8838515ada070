-------------------------- MODULE UsageReportProofs --------------------------
(***************************************************************************)
(* Theorems about UsageReport, for any answers, records and questions: a   *)
(* record has the tokens of its answer, the counts of every page add up,   *)
(* and its buckets are in order of time.                                   *)
(***************************************************************************)
EXTENDS UsageReport, UsageStoreProofs, FiniteSetTheorems, WellFoundedInduction

-----------------------------------------------------------------------------
(* Natural numbers                                                         *)

\* Of some natural numbers one is the least.
LEMMA LeastExists ==
  ASSUME NEW T \in SUBSET Nat, T # {}
  PROVE  \E x \in T : \A y \in T : x <= y
<1>1. \E x \in T : \A y \in T : ~ (<<y, x>> \in OpToRel(<, Nat))
  BY NatLessThanWellFounded, WFMin
<1>2. \A x, y \in T : y < x => <<y, x>> \in OpToRel(<, Nat)
  BY DEF OpToRel
<1>3. PICK x \in T : \A y \in T : ~ (<<y, x>> \in OpToRel(<, Nat))
  BY <1>1
<1>4. \A y \in T : ~ (y < x)
  BY <1>2, <1>3
<1>5. \A y \in T : x <= y
  BY <1>4
<1>6. QED
  BY <1>5

\* What 0 has and each number passes on to the next, all have.
LEMMA AllUpTo ==
  ASSUME NEW n \in Nat, NEW T, 0 \in T, \A i \in 1..n : i - 1 \in T => i \in T
  PROVE  \A i \in 0..n : i \in T
<1> DEFINE Wrong == {i \in 0..n : i \notin T}
<1>1. SUFFICES ASSUME Wrong # {} PROVE FALSE
  OBVIOUS
<1>2. PICK least \in Wrong : \A i \in Wrong : least <= i
  <2>1. Wrong \in SUBSET Nat
    OBVIOUS
  <2>2. QED
    BY <1>1, <2>1, LeastExists
<1>3. least \in 1..n /\ least - 1 \in 0..n /\ ~ (least <= least - 1)
  BY <1>2
<1>4. least - 1 \in T
  BY <1>2, <1>3
<1>5. QED
  BY <1>2, <1>3, <1>4

-----------------------------------------------------------------------------
(* Sums                                                                    *)

Plus(sum, values, i) == sum + values[i]

IsSum(values, sum) == sum = [i \in Nat |-> IF i = 0 THEN 0 ELSE Plus(sum[i - 1], values, i)]

\* The first n sums
IsPart(values, n, sum) ==
  sum = [i \in 0..n |-> IF i = 0 THEN 0 ELSE Plus(sum[i - 1], values, i)]

LEMMA PartsExist ==
  ASSUME NEW values
  PROVE  \A n \in Nat : \E sum : IsPart(values, n, sum)
<1> SUFFICES ASSUME NEW n \in Nat PROVE \E sum : IsPart(values, n, sum)
  OBVIOUS
<1> DEFINE T == {k \in 0..n : \E sum : IsPart(values, k, sum)}
<1>1. 0 \in T
  <2> DEFINE g == [i \in 0..0 |-> 0]
  <2>1. IsPart(values, 0, g)
    BY DEF IsPart
  <2> HIDE DEF g
  <2>2. QED
    BY <2>1
<1>2. ASSUME NEW k \in 1..n, k - 1 \in T PROVE k \in T
  <2>1. PICK g : IsPart(values, k - 1, g)
    BY <1>2
  <2> DEFINE h == [i \in 0..k |-> IF i = k THEN Plus(g[k - 1], values, k) ELSE g[i]]
  <2>2. \A i \in 0..(k - 1) : h[i] = g[i]
    OBVIOUS
  <2>3. \A i \in 0..k : h[i] = IF i = 0 THEN 0 ELSE Plus(h[i - 1], values, i)
    <3> SUFFICES ASSUME NEW i \in 0..k
                 PROVE  h[i] = IF i = 0 THEN 0 ELSE Plus(h[i - 1], values, i)
      OBVIOUS
    <3>1. CASE i = k
      <4>1. h[i] = Plus(g[k - 1], values, k) /\ h[i - 1] = g[k - 1] /\ i # 0
        BY <2>2, <3>1
      <4>2. QED
        BY <3>1, <4>1
    <3>2. CASE i # k
      <4>1. i \in 0..(k - 1) /\ (i # 0 => i - 1 \in 0..(k - 1))
        BY <3>2
      <4>2. g[i] = IF i = 0 THEN 0 ELSE Plus(g[i - 1], values, i)
        BY <2>1, <4>1 DEF IsPart
      <4>3. h[i] = g[i] /\ (i # 0 => h[i - 1] = g[i - 1])
        BY <2>2, <4>1
      <4>4. QED
        BY <4>2, <4>3
    <3>3. QED
      BY <3>1, <3>2
  <2>4. IsPart(values, k, h)
    BY <2>3 DEF IsPart
  <2> HIDE DEF h
  <2>5. QED
    BY <2>4
<1>3. \A k \in 0..n : k \in T
  <2> HIDE DEF T
  <2>1. QED
    BY <1>1, <1>2, AllUpTo
<1>4. QED
  BY <1>3

LEMMA PartsAgree ==
  ASSUME NEW values, NEW n \in Nat, NEW g, NEW h,
         IsPart(values, n, g), IsPart(values, n + 1, h)
  PROVE  g[n] = h[n]
<1> DEFINE T == {k \in 0..n : g[k] = h[k]}
<1>1. g[0] = 0 /\ h[0] = 0
  BY DEF IsPart
<1>2. \A k \in 1..n : g[k] = Plus(g[k - 1], values, k) /\ h[k] = Plus(h[k - 1], values, k)
  BY DEF IsPart
<1>3. 0 \in T
  BY <1>1
<1>4. ASSUME NEW k \in 1..n, k - 1 \in T PROVE k \in T
  BY <1>2, <1>4
<1>5. \A k \in 0..n : k \in T
  <2> HIDE DEF T
  <2>1. QED
    BY <1>3, <1>4, AllUpTo
<1>6. QED
  BY <1>5

LEMMA SumIs ==
  ASSUME NEW values
  PROVE  /\ Sum(0, values) = 0
         /\ \A n \in Nat : Sum(n + 1, values) = Sum(n, values) + values[n + 1]
<1> DEFINE Part(n) == CHOOSE sum : IsPart(values, n, sum)
           D == [i \in Nat |-> Part(i)[i]]
           S == CHOOSE sum : IsSum(values, sum)
<1>1. \A n \in Nat : IsPart(values, n, Part(n))
  BY PartsExist
<1> HIDE DEF Part
<1>2. D[0] = 0
  BY <1>1 DEF IsPart
<1>3. ASSUME NEW n \in Nat PROVE D[n + 1] = Plus(D[n], values, n + 1)
  <2>1. n + 1 \in Nat /\ n + 1 \in 0..(n + 1) /\ n + 1 # 0 /\ (n + 1) - 1 = n
    OBVIOUS
  <2>2. IsPart(values, n, Part(n)) /\ IsPart(values, n + 1, Part(n + 1))
    BY <1>1, <2>1
  <2>3. Part(n + 1)[n + 1] = Plus(Part(n + 1)[n], values, n + 1)
    BY <2>1, <2>2 DEF IsPart
  <2>4. Part(n)[n] = Part(n + 1)[n]
    BY <2>2, PartsAgree
  <2>5. QED
    BY <2>1, <2>3, <2>4
<1>4. \A i \in Nat : D[i] = IF i = 0 THEN 0 ELSE Plus(D[i - 1], values, i)
  <2> SUFFICES ASSUME NEW i \in Nat, i # 0 PROVE D[i] = Plus(D[i - 1], values, i)
    BY <1>2
  <2>1. i - 1 \in Nat /\ (i - 1) + 1 = i
    OBVIOUS
  <2> HIDE DEF D
  <2>2. QED
    BY <1>3, <2>1
<1>5. IsSum(values, D)
  BY <1>4 DEF IsSum
<1> HIDE DEF D
<1>6. IsSum(values, S)
  BY <1>5
<1>7. \A n : Sum(n, values) = S[n]
  BY Zenon DEF Sum, IsSum, Plus
<1> HIDE DEF S
<1>8. S[0] = 0
  BY <1>6 DEF IsSum
<1>9. ASSUME NEW n \in Nat PROVE S[n + 1] = S[n] + values[n + 1]
  <2>1. n + 1 \in Nat /\ n + 1 # 0 /\ (n + 1) - 1 = n
    OBVIOUS
  <2>2. S[n + 1] = Plus(S[n], values, n + 1)
    BY <1>6, <2>1 DEF IsSum
  <2>3. QED
    BY <2>2 DEF Plus
<1>10. QED
  BY <1>7, <1>8, <1>9

\* What is added up is a natural number, no less than any that is added, and
\* depends on nothing else.
LEMMA SumOfNaturals ==
  ASSUME NEW n \in Nat, NEW values, \A i \in 1..n : values[i] \in Nat
  PROVE  /\ \A k \in 0..n : Sum(k, values) \in Nat
         /\ \A k \in 0..n : \A i \in 1..k : values[i] <= Sum(k, values)
         /\ \A k \in 1..n : Sum(k, values) = Sum(k - 1, values) + values[k]
<1> DEFINE T == {k \in 0..n : Sum(k, values) \in Nat /\ \A i \in 1..k : values[i] <= Sum(k, values)}
<1>1. Sum(0, values) = 0
  BY SumIs
<1>2. \A k \in 1..n : Sum(k, values) = Sum(k - 1, values) + values[k]
  <2> SUFFICES ASSUME NEW k \in 1..n PROVE Sum(k, values) = Sum(k - 1, values) + values[k]
    OBVIOUS
  <2>1. k - 1 \in Nat /\ (k - 1) + 1 = k
    OBVIOUS
  <2>2. QED
    BY <2>1, SumIs
<1>3. 0 \in T
  BY <1>1
<1>4. ASSUME NEW k \in 1..n, k - 1 \in T PROVE k \in T
  <2>1. Sum(k, values) = Sum(k - 1, values) + values[k] /\ values[k] \in Nat /\ Sum(k - 1, values) \in Nat
    BY <1>2, <1>4
  <2>2. ASSUME NEW i \in 1..k PROVE values[i] <= Sum(k, values)
    <3>1. CASE i = k
      BY <2>1, <3>1
    <3>2. CASE i # k
      <4>1. i \in 1..(k - 1) /\ i \in 1..n
        BY <3>2
      <4>2. values[i] <= Sum(k - 1, values) /\ values[i] \in Nat
        BY <1>4, <4>1
      <4>3. QED
        BY <2>1, <4>2
    <3>3. QED
      BY <3>1, <3>2
  <2>3. QED
    BY <2>1, <2>2
<1>5. \A k \in 0..n : k \in T
  <2> HIDE DEF T
  <2>1. QED
    BY <1>3, <1>4, AllUpTo
<1>6. QED
  BY <1>2, <1>5

\* w is v, with d more in place j.
RisesAt(n, v, w, j, d) ==
  \A i \in 1..n : v[i] \in Nat /\ w[i] = IF i = j THEN v[i] + d ELSE v[i]

\* What is more in one place is more in the sum.
LEMMA SumRises ==
  ASSUME NEW n \in Nat, NEW v, NEW w, NEW j, NEW d \in Nat, RisesAt(n, v, w, j, d)
  PROVE  /\ j \in 1..n => Sum(n, w) = Sum(n, v) + d
         /\ j \notin 1..n => Sum(n, w) = Sum(n, v)
<1> DEFINE T == {k \in 0..n : Sum(k, w) = IF j \in 1..k THEN Sum(k, v) + d ELSE Sum(k, v)}
<1>0. \A i \in 1..n : v[i] \in Nat /\ w[i] = IF i = j THEN v[i] + d ELSE v[i]
  BY DEF RisesAt
<1>1. \A i \in 1..n : w[i] \in Nat
  BY <1>0
<1>2. /\ \A k \in 0..n : Sum(k, v) \in Nat /\ Sum(k, w) \in Nat
      /\ \A k \in 1..n : Sum(k, v) = Sum(k - 1, v) + v[k] /\ Sum(k, w) = Sum(k - 1, w) + w[k]
  BY <1>0, <1>1, SumOfNaturals
<1>3. Sum(0, v) = 0 /\ Sum(0, w) = 0
  BY SumIs
<1>4. 0 \in T
  BY <1>3
<1>5. ASSUME NEW k \in 1..n, k - 1 \in T PROVE k \in T
  <2>1. /\ Sum(k, v) = Sum(k - 1, v) + v[k] /\ Sum(k, w) = Sum(k - 1, w) + w[k]
        /\ v[k] \in Nat /\ Sum(k - 1, v) \in Nat /\ k \in 0..n
        /\ w[k] = IF k = j THEN v[k] + d ELSE v[k]
        /\ Sum(k - 1, w) = IF j \in 1..(k - 1) THEN Sum(k - 1, v) + d ELSE Sum(k - 1, v)
    BY <1>0, <1>2, <1>5
  <2>2. CASE k = j
    BY <2>1, <2>2
  <2>3. CASE k # j
    <3>1. j \in 1..k <=> j \in 1..(k - 1)
      BY <2>3
    <3>2. QED
      BY <2>1, <2>3, <3>1
  <2>4. QED
    BY <2>2, <2>3
<1>6. \A k \in 0..n : k \in T
  <2> HIDE DEF T
  <2>1. QED
    BY <1>4, <1>5, AllUpTo
<1>7. QED
  BY <1>6

LEMMA SumSame ==
  ASSUME NEW n \in Nat, NEW v, NEW w, \A i \in 1..n : v[i] \in Nat /\ w[i] = v[i]
  PROVE  Sum(n, w) = Sum(n, v)
<1>1. RisesAt(n, v, w, 0, 0)
  BY DEF RisesAt
<1>2. QED
  BY <1>1, SumRises

LEMMA SumOfNothing ==
  ASSUME NEW n \in Nat, NEW v, \A i \in 1..n : v[i] = 0
  PROVE  Sum(n, v) = 0
<1> DEFINE T == {k \in 0..n : Sum(k, v) = 0}
<1>1. Sum(0, v) = 0 /\ \A k \in 1..n : Sum(k, v) = Sum(k - 1, v) + v[k]
  BY SumIs, SumOfNaturals
<1>2. \A k \in 0..n : k \in T
  <2>1. 0 \in T /\ \A k \in 1..n : k - 1 \in T => k \in T
    BY <1>1
  <2> HIDE DEF T
  <2>2. QED
    BY <2>1, AllUpTo
<1>3. QED
  BY <1>2

Only(worth, some) == [i \in DOMAIN worth |-> IF i \in some THEN worth[i] ELSE 0]

\* k parts that share nothing and leave nothing out
Parts(part, k, shown) ==
  /\ part \in [1..k -> SUBSET shown]
  /\ \A i \in shown : \E j \in 1..k : i \in part[j]
  /\ \A i \in shown, j, l \in 1..k : i \in part[j] /\ i \in part[l] => j = l

\* They have together the sum of the whole.
LEMMA PartsAddUp ==
  ASSUME NEW n \in Nat, NEW k \in Nat, NEW worth \in [1..n -> Nat],
         NEW shown \in SUBSET (1..n), NEW part, Parts(part, k, shown)
  PROVE  Sum(k, [j \in 1..k |-> Sum(n, Only(worth, part[j]))]) = Sum(n, Only(worth, shown))
<1> DEFINE All       == Only(worth, shown)
           In(j)     == Only(worth, part[j])
           Inner(m)  == [j \in 1..k |-> Sum(m, In(j))]
           T         == {m \in 0..n : Sum(k, Inner(m)) = Sum(m, All)}
<1>0. /\ part \in [1..k -> SUBSET shown]
      /\ \A i \in shown : \E j \in 1..k : i \in part[j]
      /\ \A i \in shown, j, l \in 1..k : i \in part[j] /\ i \in part[l] => j = l
  BY DEF Parts
<1>1. /\ \A i \in 1..n : All[i] = IF i \in shown THEN worth[i] ELSE 0
      /\ \A j \in 1..k : \A i \in 1..n : In(j)[i] = IF i \in part[j] THEN worth[i] ELSE 0
  BY <1>0 DEF Only
<1> HIDE DEF All, In
<1>2. /\ \A m \in 0..n : Sum(m, All) \in Nat
      /\ \A m \in 1..n : Sum(m, All) = Sum(m - 1, All) + All[m]
      /\ Sum(0, All) = 0
  <2>1. \A i \in 1..n : All[i] \in Nat
    BY <1>1
  <2>2. QED
    BY <2>1, SumOfNaturals, SumIs
<1>3. ASSUME NEW j \in 1..k
      PROVE  /\ \A m \in 0..n : Sum(m, In(j)) \in Nat
             /\ \A m \in 1..n : Sum(m, In(j)) = Sum(m - 1, In(j)) + In(j)[m]
             /\ Sum(0, In(j)) = 0
  <2>1. \A i \in 1..n : In(j)[i] \in Nat
    BY <1>1
  <2>2. QED
    BY <2>1, SumOfNaturals, SumIs
<1>4. 0 \in T
  <2>1. \A j \in 1..k : Inner(0)[j] = 0
    BY <1>3
  <2> HIDE DEF Inner
  <2>2. Sum(k, Inner(0)) = 0
    BY <2>1, SumOfNothing
  <2>3. QED
    BY <2>2, <1>2
<1>5. ASSUME NEW m \in 1..n, m - 1 \in T PROVE m \in T
  <2>1. m \in 0..n /\ m - 1 \in 0..n
    OBVIOUS
  <2>2. \A j \in 1..k : /\ Inner(m - 1)[j] \in Nat
                        /\ Inner(m)[j] = Inner(m - 1)[j] + In(j)[m]
    BY <1>3, <2>1
  <2>3. Sum(k, Inner(m - 1)) = Sum(m - 1, All) /\ Sum(m - 1, All) \in Nat /\ worth[m] \in Nat
    BY <1>2, <1>5, <2>1
  <2>4. Sum(m, All) = Sum(m - 1, All) + All[m]
    BY <1>2
  <2> HIDE DEF Inner
  <2>5. CASE m \in shown
    <3>1. PICK own \in 1..k : m \in part[own]
      BY <1>0, <2>5
    <3>2. \A j \in 1..k : m \in part[j] <=> j = own
      BY <1>0, <2>5, <3>1
    <3>3. \A j \in 1..k : In(j)[m] = IF j = own THEN worth[m] ELSE 0
      BY <1>1, <3>2
    <3>4. \A j \in 1..k : /\ Inner(m - 1)[j] \in Nat
                          /\ Inner(m)[j] = IF j = own THEN Inner(m - 1)[j] + worth[m] ELSE Inner(m - 1)[j]
      BY <2>2, <3>3
    <3>5. Sum(k, Inner(m)) = Sum(k, Inner(m - 1)) + worth[m]
      <4>1. worth[m] \in Nat
        BY <2>3
      <4>2. RisesAt(k, Inner(m - 1), Inner(m), own, worth[m])
        BY <3>4 DEF RisesAt
      <4>3. QED
        BY <4>1, <4>2, SumRises
    <3>6. QED
      BY <1>1, <2>1, <2>3, <2>4, <2>5, <3>5
  <2>6. CASE m \notin shown
    <3>1. \A j \in 1..k : In(j)[m] = 0
      BY <1>0, <1>1, <2>6
    <3>2. ASSUME NEW j \in 1..k PROVE Inner(m - 1)[j] \in Nat /\ Inner(m)[j] = Inner(m - 1)[j]
      BY <2>2, <3>1
    <3>3. Sum(k, Inner(m)) = Sum(k, Inner(m - 1))
      BY <3>2, SumSame
    <3>4. QED
      BY <1>1, <2>1, <2>3, <2>4, <2>6, <3>3
  <2>7. QED
    BY <2>5, <2>6
<1>6. \A m \in 0..n : m \in T
  <2> HIDE DEF T
  <2>1. QED
    BY <1>4, <1>5, AllUpTo
<1>7. Sum(k, Inner(n)) = Sum(n, All)
  BY <1>6
<1>8. QED
  BY <1>7 DEF In, All

\* The sum of the sums of the parts
OfParts(n, k, worth, part) == Sum(k, [j \in 1..k |-> Sum(n, Only(worth, part[j]))])

LEMMA PartsTogether ==
  ASSUME NEW n \in Nat, NEW k \in Nat, NEW worth \in [1..n -> Nat],
         NEW shown \in SUBSET (1..n), NEW part, Parts(part, k, shown)
  PROVE  OfParts(n, k, worth, part) = Sum(n, Only(worth, shown))
BY PartsAddUp DEF OfParts

-----------------------------------------------------------------------------
(* What an answer carries                                                  *)

Totals == [n : [Tokens -> Nat], hit : BOOLEAN]

LEMMA MaxOfThree ==
  ASSUME NEW a \in Nat, NEW b \in Nat, NEW c \in Nat
  PROVE  Max({a, b, c}) \in Nat
<1>1. \E x \in {a, b, c} : \A y \in {a, b, c} : x >= y
  <2>1. CASE a >= b /\ a >= c
    BY <2>1
  <2>2. CASE b >= a /\ b >= c
    BY <2>2
  <2>3. CASE c >= a /\ c >= b
    BY <2>3
  <2>4. QED
    BY <2>1, <2>2, <2>3
<1>2. Max({a, b, c}) \in {a, b, c}
  BY <1>1 DEF Max
<1>3. QED
  BY <1>2

LEMMA MinIsLeast ==
  ASSUME NEW T \in SUBSET Nat, T # {}
  PROVE  Min(T) \in T /\ \A y \in T : Min(T) <= y
<1>1. \E x \in T : \A y \in T : x <= y
  BY LeastExists
<1>2. QED
  BY <1>1 DEF Min

LEMMA CompletedIsTotals ==
  ASSUME NEW n \in [Tokens -> Nat], NEW hit \in BOOLEAN
  PROVE  Completed(n, hit) \in Totals
<1> DEFINE input  == IF n["input"] = 0 THEN n["prompt"] ELSE n["input"]
           output == IF n["output"] = 0 THEN n["completion"] ELSE n["output"]
           parts  == n["prompt"] + n["completion"]
           total  == IF n["total"] # 0 THEN n["total"] ELSE IF parts > 0 THEN parts ELSE input + output
           new    == [n EXCEPT !["input"] = input, !["output"] = output, !["total"] = total]
<1>1. /\ n["input"] \in Nat /\ n["prompt"] \in Nat /\ n["output"] \in Nat
      /\ n["completion"] \in Nat /\ n["total"] \in Nat
  BY DEF Tokens
<1>2. input \in Nat /\ output \in Nat /\ total \in Nat
  BY <1>1
<1> HIDE DEF input, output, total
<1>3. new \in [Tokens -> Nat]
  BY <1>2
<1> HIDE DEF new
<1>4. Completed(n, hit) = [n |-> new, hit |-> hit]
  BY Zenon DEF Completed, new, input, output, total, parts
<1>5. QED
  BY <1>3, <1>4 DEF Totals

LEMMA NumberIsNatural ==
  ASSUME NEW o, Counted(o), NEW f
  PROVE  Number(o, f) \in Nat
BY DEF Counted, Number

LEMMA ObjectIsTotals ==
  ASSUME NEW o, Counted(o)
  PROVE  usageTotalsFromUsageObject(o) \in Totals
<1> DEFINE n == [f \in Tokens |->
                   IF f # "cached" THEN Number(o, f)
                   ELSE Max({Number(o, f), Number(o, "promptCached"), Number(o, "completionCached")})]
<1>1. ASSUME NEW f \in Tokens
      PROVE  /\ Number(o, f) \in Nat
             /\ Max({Number(o, f), Number(o, "promptCached"), Number(o, "completionCached")}) \in Nat
  BY NumberIsNatural, MaxOfThree
<1>2. n \in [Tokens -> Nat]
  BY <1>1
<1>3. o.hit \in BOOLEAN
  BY DEF Counted
<1> HIDE DEF n
<1>4. Completed(n, o.hit) \in Totals
  BY <1>2, <1>3, CompletedIsTotals
<1>5. usageTotalsFromUsageObject(o) = Completed(n, o.hit)
  BY Zenon DEF usageTotalsFromUsageObject, n
<1>6. QED
  BY <1>4, <1>5

LEMMA HeadersAreTotals ==
  ASSUME NEW o, Counted(o)
  PROVE  Completed([f \in Tokens |-> Number(o, f)], o.hit) \in Totals
<1> DEFINE n == [f \in Tokens |-> Number(o, f)]
<1>1. n \in [Tokens -> Nat]
  BY NumberIsNatural
<1>2. o.hit \in BOOLEAN
  BY DEF Counted
<1> HIDE DEF n
<1>3. Completed(n, o.hit) \in Totals
  BY <1>1, <1>2, CompletedIsTotals
<1>4. QED
  BY <1>3 DEF n

LEMMA NoneIsTotals == NoUsage \in Totals
BY DEF NoUsage, Totals

LEMMA MergedIsTotals ==
  ASSUME NEW all \in Seq(Totals)
  PROVE  mergeUsageTotals(all) \in Totals
<1>1. Len(all) \in Nat /\ DOMAIN all = 1..Len(all) /\ \A i \in DOMAIN all : all[i] \in Totals
  OBVIOUS
<1>2. ASSUME NEW f \in Tokens PROVE Sum(Len(all), [i \in DOMAIN all |-> all[i].n[f]]) \in Nat
  <2> DEFINE v == [i \in DOMAIN all |-> all[i].n[f]]
  <2>1. \A i \in 1..Len(all) : v[i] \in Nat
    BY <1>1 DEF Totals
  <2> HIDE DEF v
  <2>2. \A k \in 0..Len(all) : Sum(k, v) \in Nat
    BY <1>1, <2>1, SumOfNaturals
  <2>3. Len(all) \in 0..Len(all)
    BY <1>1
  <2>4. QED
    BY <2>2, <2>3 DEF v
<1> DEFINE n == [f \in Tokens |-> Sum(Len(all), [i \in DOMAIN all |-> all[i].n[f]])]
           hit == \E i \in DOMAIN all : all[i].hit
<1>3. n \in [Tokens -> Nat]
  BY <1>2
<1>4. hit \in BOOLEAN
  OBVIOUS
<1> HIDE DEF n, hit
<1>5. mergeUsageTotals(all) = [n |-> n, hit |-> hit]
  BY Zenon DEF mergeUsageTotals, n, hit
<1>6. QED
  BY <1>3, <1>4, <1>5 DEF Totals

\* The values of an answer, each after those it holds
Held(values) ==
  /\ values \in Seq(ToSet(values))
  /\ \A i \in DOMAIN values :
       /\ Counted(values[i]) /\ values[i].items \in Seq(1..(i - 1))
       /\ \A k \in DOMAIN values[i].nested : values[i].nested[k] \in 1..(i - 1)

Leads(v, totals) ==
  {k \in DOMAIN Further : Further[k] \in DOMAIN v.nested /\ totals[v.nested[Further[k]]] # NoUsage}

OfItems(v, totals) == mergeUsageTotals([k \in DOMAIN v.items |-> totals[v.items[k]]])

OfLead(v, totals) == totals[v.nested[Further[Min(Leads(v, totals))]]]

\* What usageTotalsFromValue says of one value
Turn(v, totals) ==
  LET own   == usageTotalsFromUsageObject(v)
      leads == {k \in DOMAIN Further : /\ Further[k] \in DOMAIN v.nested
                                       /\ totals[v.nested[Further[k]]] # NoUsage}
  IN  CASE v.kind = "list" -> mergeUsageTotals([k \in DOMAIN v.items |-> totals[v.items[k]]])
        [] v.kind = "object" ->
             IF own # NoUsage THEN own
             ELSE IF leads = {} THEN NoUsage ELSE totals[v.nested[Further[Min(leads)]]]
        [] OTHER -> NoUsage

\* The first n values
TurnsTo(values, n, totals) == totals = [i \in 1..n |-> Turn(values[i], totals)]

LEMMA LeadsLead ==
  ASSUME NEW v, NEW totals, Leads(v, totals) # {}
  PROVE  Further[Min(Leads(v, totals))] \in DOMAIN v.nested
<1>1. Leads(v, totals) \in SUBSET Nat
  BY DEF Leads, Further
<1>2. Min(Leads(v, totals)) \in Leads(v, totals)
  BY <1>1, MinIsLeast
<1>3. QED
  BY <1>2 DEF Leads

LEMMA TurnIs ==
  ASSUME NEW v, NEW totals
  PROVE  /\ v.kind = "list" => Turn(v, totals) = OfItems(v, totals)
         /\ v.kind = "object" =>
              Turn(v, totals) = IF usageTotalsFromUsageObject(v) # NoUsage THEN usageTotalsFromUsageObject(v)
                                ELSE IF Leads(v, totals) = {} THEN NoUsage
                                ELSE OfLead(v, totals)
         /\ v.kind # "list" /\ v.kind # "object" => Turn(v, totals) = NoUsage
<1> "list" # "object"
  OBVIOUS
<1>1. QED
  BY Zenon DEF Turn, Leads, OfItems, OfLead

\* A value depends on those it holds only.
LEMMA TurnLocal ==
  ASSUME NEW n \in Nat, NEW v, NEW g, NEW h, v.items \in Seq(1..n),
         \A k \in DOMAIN v.nested : v.nested[k] \in 1..n,
         \A i \in 1..n : g[i] = h[i]
  PROVE  Turn(v, g) = Turn(v, h)
<1>1. OfItems(v, g) = OfItems(v, h)
  <2>1. \A k \in DOMAIN v.items : v.items[k] \in 1..n
    OBVIOUS
  <2>2. \A k \in DOMAIN v.items : g[v.items[k]] = h[v.items[k]]
    BY <2>1
  <2>3. [k \in DOMAIN v.items |-> g[v.items[k]]] = [k \in DOMAIN v.items |-> h[v.items[k]]]
    BY <2>2
  <2>4. QED
    BY <2>3, Zenon DEF OfItems
<1>2. Leads(v, g) = Leads(v, h)
  <2>1. \A k \in DOMAIN Further : Further[k] \in DOMAIN v.nested => g[v.nested[Further[k]]] = h[v.nested[Further[k]]]
    OBVIOUS
  <2>2. QED
    BY <2>1 DEF Leads
<1>3. Leads(v, g) # {} => OfLead(v, g) = OfLead(v, h)
  <2>1. Leads(v, g) # {} => g[v.nested[Further[Min(Leads(v, g))]]] = h[v.nested[Further[Min(Leads(v, g))]]]
    BY LeadsLead
  <2>2. QED
    BY <1>2, <2>1, Zenon DEF OfLead
<1>4. CASE v.kind = "list"
  BY <1>1, <1>4, TurnIs
<1>5. CASE v.kind = "object"
  BY <1>2, <1>3, <1>5, TurnIs
<1>6. CASE v.kind # "list" /\ v.kind # "object"
  BY <1>6, TurnIs
<1>7. QED
  BY <1>4, <1>5, <1>6

LEMMA TurnIsTotals ==
  ASSUME NEW n \in Nat, NEW v, NEW g, Counted(v), v.items \in Seq(1..n),
         \A k \in DOMAIN v.nested : v.nested[k] \in 1..n,
         \A i \in 1..n : g[i] \in Totals
  PROVE  Turn(v, g) \in Totals
<1>1. OfItems(v, g) \in Totals
  <2> DEFINE all == [k \in DOMAIN v.items |-> g[v.items[k]]]
  <2>1. DOMAIN v.items = 1..Len(v.items) /\ Len(v.items) \in Nat /\ \A k \in DOMAIN v.items : v.items[k] \in 1..n
    OBVIOUS
  <2>2. all \in [1..Len(v.items) -> Totals]
    BY <2>1
  <2> HIDE DEF all
  <2>3. all \in Seq(Totals)
    <3>1. PICK m : m = Len(v.items)
      OBVIOUS
    <3>2. m \in Nat /\ all \in [1..m -> Totals]
      BY <2>1, <2>2, <3>1
    <3>3. QED
      BY <3>2
  <2>4. mergeUsageTotals(all) \in Totals
    BY <2>3, MergedIsTotals
  <2>5. QED
    BY <2>4 DEF all, OfItems
<1>2. usageTotalsFromUsageObject(v) \in Totals
  BY ObjectIsTotals
<1>3. Leads(v, g) # {} => OfLead(v, g) \in Totals
  BY LeadsLead DEF OfLead
<1>4. CASE v.kind = "list"
  BY <1>1, <1>4, TurnIs
<1>5. CASE v.kind = "object"
  BY <1>2, <1>3, <1>5, TurnIs, NoneIsTotals
<1>6. CASE v.kind # "list" /\ v.kind # "object"
  BY <1>6, TurnIs, NoneIsTotals
<1>7. QED
  BY <1>4, <1>5, <1>6

LEMMA HeldAt ==
  ASSUME NEW values, Held(values), NEW n \in 1..Len(values)
  PROVE  /\ n - 1 \in Nat /\ n \in DOMAIN values /\ Counted(values[n]) /\ values[n].items \in Seq(1..(n - 1))
         /\ \A k \in DOMAIN values[n].nested : values[n].nested[k] \in 1..(n - 1)
<1>1. n \in DOMAIN values
  BY DEF Held
<1>2. QED
  BY <1>1 DEF Held

LEMMA TurnsExist ==
  ASSUME NEW values, Held(values)
  PROVE  \E totals : TurnsTo(values, Len(values), totals)
<1> DEFINE N == Len(values)
           T == {n \in 0..N : \E totals : TurnsTo(values, n, totals)}
<1>0. N \in Nat
  BY DEF Held
<1>1. 0 \in T
  <2> DEFINE g == [i \in 1..0 |-> NoUsage]
  <2>1. TurnsTo(values, 0, g)
    BY DEF TurnsTo
  <2> HIDE DEF g
  <2>2. QED
    BY <1>0, <2>1
<1>2. ASSUME NEW n \in 1..N, n - 1 \in T PROVE n \in T
  <2>1. PICK g : TurnsTo(values, n - 1, g)
    BY <1>2
  <2> DEFINE h == [i \in 1..n |-> IF i = n THEN Turn(values[n], g) ELSE g[i]]
  <2>2. \A i \in 1..(n - 1) : h[i] = g[i]
    OBVIOUS
  <2>3. ASSUME NEW i \in 1..n PROVE Turn(values[i], g) = Turn(values[i], h)
    <3>1. i \in 1..N
      BY <1>0
    <3>2. \A j \in 1..(i - 1) : g[j] = h[j]
      <4> SUFFICES ASSUME NEW j \in 1..(i - 1) PROVE g[j] = h[j]
        OBVIOUS
      <4>1. j \in 1..(n - 1)
        BY <1>0
      <4>2. QED
        BY <2>2, <4>1
    <3> HIDE DEF h
    <3>3. /\ i - 1 \in Nat /\ values[i].items \in Seq(1..(i - 1))
          /\ \A k \in DOMAIN values[i].nested : values[i].nested[k] \in 1..(i - 1)
      BY <3>1, HeldAt
    <3>4. QED
      BY <3>2, <3>3, TurnLocal
  <2>4. \A i \in 1..n : h[i] = Turn(values[i], h)
    <3>1. h[n] = Turn(values[n], g)
      BY <1>0
    <3>2. \A i \in 1..(n - 1) : g[i] = Turn(values[i], g)
      BY <2>1 DEF TurnsTo
    <3>3. ASSUME NEW i \in 1..n PROVE h[i] = Turn(values[i], g)
      <4>1. CASE i = n
        BY <3>1, <4>1
      <4>2. CASE i # n
        <5>1. i \in 1..(n - 1)
          BY <1>0, <4>2
        <5> HIDE DEF h
        <5>2. QED
          BY <2>2, <3>2, <5>1
      <4>3. QED
        BY <4>1, <4>2
    <3> HIDE DEF h
    <3>4. QED
      BY <2>3, <3>3
  <2>5. h = [i \in 1..n |-> Turn(values[i], h)]
    <3> DEFINE D == DOMAIN h
    <3>1. D = 1..n /\ h = [i \in D |-> h[i]]
      OBVIOUS
    <3> HIDE DEF h
    <3>2. QED
      BY <2>4, <3>1
  <2> HIDE DEF h
  <2>6. TurnsTo(values, n, h)
    BY <2>5 DEF TurnsTo
  <2>7. QED
    BY <1>0, <2>6
<1>3. \A n \in 0..N : n \in T
  <2> HIDE DEF T
  <2>1. QED
    BY <1>0, <1>1, <1>2, AllUpTo
<1>4. QED
  BY <1>0, <1>3

LEMMA ValuesAreTotals ==
  ASSUME NEW values, Held(values), NEW i \in DOMAIN values
  PROVE  usageTotalsFromValue(values)[i] \in Totals
<1> DEFINE N == Len(values)
           g == CHOOSE totals : totals = [j \in DOMAIN values |-> Turn(values[j], totals)]
           T == {n \in 0..N : \A j \in 1..n : g[j] \in Totals}
<1>0. N \in Nat /\ DOMAIN values = 1..N
  BY DEF Held
<1>1. usageTotalsFromValue(values) = g
  BY Zenon DEF usageTotalsFromValue, Turn
<1>2. TurnsTo(values, N, g)
  <2>1. \E totals : totals = [j \in DOMAIN values |-> Turn(values[j], totals)]
    BY <1>0, TurnsExist DEF TurnsTo
  <2>2. g = [j \in DOMAIN values |-> Turn(values[j], g)]
    BY <2>1
  <2> HIDE DEF g
  <2>3. QED
    BY <1>0, <2>2 DEF TurnsTo
<1> HIDE DEF g
<1>3. \A j \in 1..N : g[j] = Turn(values[j], g)
  BY <1>2 DEF TurnsTo
<1>4. 0 \in T
  BY <1>0
<1>5. ASSUME NEW n \in 1..N, n - 1 \in T PROVE n \in T
  <2>1. \A j \in 1..(n - 1) : g[j] \in Totals
    BY <1>5
  <2>2. Turn(values[n], g) \in Totals
    BY <2>1, HeldAt, TurnIsTotals
  <2>3. \A j \in 1..n : g[j] \in Totals
    <3> SUFFICES ASSUME NEW j \in 1..n, j # n PROVE g[j] \in Totals
      BY <1>3, <2>2
    <3>1. j \in 1..(n - 1)
      BY <1>0
    <3>2. QED
      BY <2>1, <3>1
  <2>4. QED
    BY <1>0, <2>3
<1>6. \A n \in 0..N : n \in T
  <2> HIDE DEF T
  <2>1. QED
    BY <1>0, <1>4, <1>5, AllUpTo
<1>7. \A j \in 1..N : g[j] \in Totals
  <2>1. N \in 0..N
    BY <1>0
  <2>2. QED
    BY <1>6, <2>1
<1>8. QED
  BY <1>0, <1>1, <1>7

\* An answer AnswersAssumption admits
Admitted(a) ==
  /\ a.at \in Nat /\ Counted(a.headers)
  /\ Held(a.values) /\ a.body \in DOMAIN a.values /\ a.lines \in Seq(DOMAIN a.values)

LEMMA ParsedIsTotals ==
  ASSUME NEW a, Admitted(a)
  PROVE  parseUsageObservation(a) \in Totals
<1> DEFINE totals == usageTotalsFromValue(a.values)
           lines  == [i \in DOMAIN a.lines |-> totals[a.lines[i]]]
           header == Completed([f \in Tokens |-> Number(a.headers, f)], a.headers.hit)
<1>1. \A i \in DOMAIN a.values : totals[i] \in Totals
  BY ValuesAreTotals DEF Admitted
<1> HIDE DEF totals
<1>2. mergeUsageTotals(lines) \in Totals
  <2>1. DOMAIN a.lines = 1..Len(a.lines) /\ Len(a.lines) \in Nat /\ \A k \in DOMAIN a.lines : a.lines[k] \in DOMAIN a.values
    BY DEF Admitted
  <2>2. lines \in [1..Len(a.lines) -> Totals]
    BY <1>1, <2>1
  <2> HIDE DEF lines
  <2>3. lines \in Seq(Totals)
    <3>1. PICK m : m = Len(a.lines)
      OBVIOUS
    <3>2. m \in Nat /\ lines \in [1..m -> Totals]
      BY <2>1, <2>2, <3>1
    <3>3. QED
      BY <3>2
  <2>4. QED
    BY <2>3, MergedIsTotals
<1>3. header \in Totals
  BY HeadersAreTotals DEF Admitted
<1>4. totals[a.body] \in Totals
  BY <1>1 DEF Admitted
<1> HIDE DEF header
<1>5. parseUsageObservation(a) = IF totals[a.body] # NoUsage THEN totals[a.body]
                                 ELSE IF mergeUsageTotals(lines) # NoUsage THEN mergeUsageTotals(lines)
                                 ELSE header
  BY Zenon DEF parseUsageObservation, totals, lines, header
<1> HIDE DEF lines
<1>6. QED
  BY <1>2, <1>3, <1>4, <1>5

\* The record of an answer
Record(a) ==
  [at |-> a.at, model |-> a.model, app |-> a.app, principal |-> a.principal, id |-> a.id,
   totals |-> parseUsageObservation(a), says |-> a.says]

\* What the report needs of a record
Sound(r) == r.at \in Nat /\ r.totals \in Totals

RecordsOf(answers) == {Record(answers[i]) : i \in DOMAIN answers}

LEMMA RecordsSound ==
  /\ Len(Answers) \in Nat /\ DOMAIN Answers = 1..Len(Answers)
  /\ \A r \in RecordsOf(Answers) : Sound(r)
<1>1. Len(Answers) \in Nat /\ DOMAIN Answers = 1..Len(Answers) /\ \A i \in DOMAIN Answers : Answers[i] \in ToSet(Answers)
  BY AnswersAssumption DEF ToSet
<1>2. ASSUME NEW a \in ToSet(Answers) PROVE Sound(Record(a))
  <2>1. Admitted(a)
    BY AnswersAssumption DEF Admitted, Held
  <2>2. Record(a).at = a.at /\ Record(a).totals = parseUsageObservation(a)
    BY DEF Record
  <2>3. QED
    BY <2>1, <2>2, ParsedIsTotals DEF Sound, Admitted
<1>3. \A r \in RecordsOf(Answers) : Sound(r)
  BY <1>1, <1>2 DEF RecordsOf
<1>4. QED
  BY <1>1, <1>3

\* The records of the first answers, one answer more
More(kept, i) ==
  IF Record(Answers[i]).totals = NoUsage THEN kept ELSE Append(kept, Record(Answers[i]))

IsMade(n, made) == made = [i \in 0..n |-> IF i = 0 THEN <<>> ELSE More(made[i - 1], i)]

LEMMA MadeExists == \A n \in Nat : \E made : IsMade(n, made)
<1> SUFFICES ASSUME NEW n \in Nat PROVE \E made : IsMade(n, made)
  OBVIOUS
<1> DEFINE T == {k \in 0..n : \E made : IsMade(k, made)}
<1>1. 0 \in T
  <2> DEFINE g == [i \in 0..0 |-> <<>>]
  <2>1. IsMade(0, g)
    BY DEF IsMade
  <2> HIDE DEF g
  <2>2. QED
    BY <2>1
<1>2. ASSUME NEW k \in 1..n, k - 1 \in T PROVE k \in T
  <2>1. PICK g : IsMade(k - 1, g)
    BY <1>2
  <2> DEFINE h == [i \in 0..k |-> IF i = k THEN More(g[k - 1], k) ELSE g[i]]
  <2>2. \A i \in 0..(k - 1) : h[i] = g[i]
    OBVIOUS
  <2>3. \A i \in 0..k : h[i] = IF i = 0 THEN <<>> ELSE More(h[i - 1], i)
    <3> SUFFICES ASSUME NEW i \in 0..k
                 PROVE  h[i] = IF i = 0 THEN <<>> ELSE More(h[i - 1], i)
      OBVIOUS
    <3>1. CASE i = k
      <4>1. h[i] = More(g[k - 1], k) /\ h[i - 1] = g[k - 1] /\ i # 0
        BY <2>2, <3>1
      <4>2. QED
        BY <3>1, <4>1
    <3>2. CASE i # k
      <4>1. i \in 0..(k - 1) /\ (i # 0 => i - 1 \in 0..(k - 1))
        BY <3>2
      <4>2. g[i] = IF i = 0 THEN <<>> ELSE More(g[i - 1], i)
        BY <2>1, <4>1 DEF IsMade
      <4>3. h[i] = g[i] /\ (i # 0 => h[i - 1] = g[i - 1])
        BY <2>2, <4>1
      <4>4. QED
        BY <4>2, <4>3
    <3>3. QED
      BY <3>1, <3>2
  <2>4. IsMade(k, h)
    BY <2>3 DEF IsMade
  <2> HIDE DEF h
  <2>5. QED
    BY <2>4
<1>3. \A k \in 0..n : k \in T
  <2> HIDE DEF T
  <2>1. QED
    BY <1>1, <1>2, AllUpTo
<1>4. QED
  BY <1>3

\* What is recorded are records of answers.
LEMMA ObservationsAre ==
  /\ Len(Observations) \in Nat
  /\ \A i \in 1..Len(Observations) : Observations[i] \in RecordsOf(Answers)
<1> DEFINE N == Len(Answers)
           made == CHOOSE all : IsMade(N, all)
<1>0. N \in Nat /\ DOMAIN Answers = 1..N
  BY RecordsSound
<1>1. Observations = made[N]
  BY Zenon DEF Observations, IsMade, More, Record
<1>2. IsMade(N, made)
  BY <1>0, MadeExists
<1> HIDE DEF made
<1>3. made[0] = <<>> /\ \A k \in 1..N : made[k] = More(made[k - 1], k)
  BY <1>0, <1>2 DEF IsMade
<1> PICK R : R = RecordsOf(Answers)
  OBVIOUS
<1> DEFINE T == {k \in 0..N : made[k] \in Seq(R)}
<1>4. \A k \in 1..N : Record(Answers[k]) \in R
  BY <1>0 DEF RecordsOf
<1>5. 0 \in T
  <2>1. <<>> \in Seq(R)
    OBVIOUS
  <2>2. made[0] \in Seq(R)
    BY <1>3, <2>1, Zenon
  <2>3. QED
    BY <1>0, <2>2
<1>6. ASSUME NEW k \in 1..N, k - 1 \in T PROVE k \in T
  <2>1. PICK kept, new : kept = made[k - 1] /\ new = Record(Answers[k])
    OBVIOUS
  <2>2. kept \in Seq(R) /\ new \in R
    BY <1>4, <1>6, <2>1
  <2>3. Append(kept, new) \in Seq(R)
    BY <2>2
  <2>4. made[k] = kept \/ made[k] = Append(kept, new)
    BY <1>3, <2>1 DEF More
  <2>5. QED
    BY <1>0, <2>2, <2>3, <2>4
<1>7. \A k \in 0..N : k \in T
  <2> HIDE DEF T
  <2>1. QED
    BY <1>0, <1>5, <1>6, AllUpTo
<1>8. Observations \in Seq(R)
  BY <1>0, <1>1, <1>7
<1>9. QED
  BY <1>8

\* They have a time and natural numbers of tokens.
LEMMA ObservationsSound ==
  /\ Len(Observations) \in Nat
  /\ \A i \in 1..Len(Observations) : Sound(Observations[i])
BY ObservationsAre, RecordsSound

-----------------------------------------------------------------------------
(* What Sorted yields                                                      *)

\* All of S in order, where behind has the pairs of which the first is not to
\* stand in front
InOrder(s, S, behind) ==
  /\ s \in [1..Cardinality(S) -> S]
  /\ \A x \in S : \E i \in 1..Cardinality(S) : s[i] = x
  /\ \A i, j \in 1..Cardinality(S) : i < j => <<s[i], s[j]>> \notin behind

\* An order that never goes round has a first of any items.
LEMMA OrderExists ==
  ASSUME NEW S, IsFiniteSet(S), NEW behind,
         \A T \in SUBSET S : T # {} => \E x \in T : \A y \in T : <<x, y>> \notin behind
  PROVE  \E s : InOrder(s, S, behind)
<1> DEFINE N == Cardinality(S)
           Q == {n \in 0..N : \A T \in SUBSET S : Cardinality(T) = n => \E s : InOrder(s, T, behind)}
<1>0. N \in Nat /\ \A T \in SUBSET S : IsFiniteSet(T) /\ Cardinality(T) \in Nat
  BY FS_CardinalityType, FS_Subset
<1>1. 0 \in Q
  <2> SUFFICES ASSUME NEW T \in SUBSET S, Cardinality(T) = 0 PROVE \E s : InOrder(s, T, behind)
    BY <1>0
  <2>1. T = {}
    BY <1>0, FS_EmptySet
  <2> DEFINE s == [i \in 1..0 |-> behind]
  <2>2. s \in [1..0 -> T]
    OBVIOUS
  <2> HIDE DEF s
  <2>3. InOrder(s, T, behind)
    BY <2>1, <2>2 DEF InOrder
  <2>4. QED
    BY <2>3
<1>2. ASSUME NEW n \in 1..N, n - 1 \in Q PROVE n \in Q
  <2> SUFFICES ASSUME NEW T \in SUBSET S, Cardinality(T) = n PROVE \E s : InOrder(s, T, behind)
    BY <1>0
  <2>1. IsFiniteSet(T) /\ T # {}
    BY <1>0, FS_EmptySet
  <2>2. PICK x \in T : \A y \in T : <<x, y>> \notin behind
    BY <2>1
  <2>3. Cardinality(T \ {x}) = n - 1 /\ T \ {x} \in SUBSET S
    BY <2>1, FS_RemoveElement
  <2>4. PICK r : InOrder(r, T \ {x}, behind)
    BY <1>2, <2>3
  <2>5. /\ r \in [1..(n - 1) -> T \ {x}]
        /\ \A y \in T \ {x} : \E i \in 1..(n - 1) : r[i] = y
        /\ \A i, j \in 1..(n - 1) : i < j => <<r[i], r[j]>> \notin behind
    BY <2>3, <2>4 DEF InOrder
  <2> DEFINE s == [i \in 1..n |-> IF i = 1 THEN x ELSE r[i - 1]]
  <2>6. \A i \in 1..n : i # 1 => i - 1 \in 1..(n - 1)
    BY <1>0
  <2>7. s \in [1..n -> T] /\ s[1] = x /\ \A i \in 1..n : i # 1 => s[i] = r[i - 1]
    BY <2>5, <2>6
  <2> HIDE DEF s
  <2>8. ASSUME NEW y \in T PROVE \E i \in 1..n : s[i] = y
    <3>1. CASE y = x
      BY <2>7, <3>1
    <3>2. CASE y # x
      <4>1. PICK i \in 1..(n - 1) : r[i] = y
        BY <2>5, <3>2
      <4>2. i + 1 \in 1..n /\ i + 1 # 1 /\ (i + 1) - 1 = i
        BY <1>0
      <4>3. s[i + 1] = y
        BY <2>7, <4>1, <4>2
      <4>4. QED
        BY <4>2, <4>3
    <3>3. QED
      BY <3>1, <3>2
  <2>9. ASSUME NEW i \in 1..n, NEW j \in 1..n, i < j PROVE <<s[i], s[j]>> \notin behind
    <3>1. CASE i = 1
      <4>1. s[i] = x /\ s[j] \in T
        BY <2>7, <3>1
      <4>2. QED
        BY <2>2, <4>1
    <3>2. CASE i # 1
      <4>1. j # 1 /\ i - 1 < j - 1 /\ i - 1 \in 1..(n - 1) /\ j - 1 \in 1..(n - 1)
        BY <2>6, <2>9, <3>2
      <4>2. s[i] = r[i - 1] /\ s[j] = r[j - 1]
        BY <2>7, <3>2, <4>1
      <4>3. QED
        BY <2>5, <4>1, <4>2
    <3>3. QED
      BY <3>1, <3>2
  <2>10. InOrder(s, T, behind)
    BY <2>7, <2>8, <2>9 DEF InOrder
  <2>11. QED
    BY <2>10
<1>3. \A n \in 0..N : n \in Q
  <2> HIDE DEF Q
  <2>1. QED
    BY <1>0, <1>1, <1>2, AllUpTo
<1>4. QED
  <2>1. N \in 0..N /\ S \in SUBSET S
    BY <1>0
  <2>2. QED
    BY <1>3, <2>1

LEMMA SortedIs ==
  ASSUME NEW S, IsFiniteSet(S), NEW behind,
         \A T \in SUBSET S : T # {} => \E x \in T : \A y \in T : <<x, y>> \notin behind
  PROVE  InOrder(Sorted(S, behind), S, behind)
<1>1. \E s \in [1..Cardinality(S) -> S] :
        /\ \A x \in S : \E i \in 1..Cardinality(S) : s[i] = x
        /\ \A i, j \in 1..Cardinality(S) : i < j => <<s[i], s[j]>> \notin behind
  BY OrderExists DEF InOrder
<1>2. QED
  BY <1>1, Zenon DEF Sorted, InOrder

\* All of them, and each once
LEMMA OrderOnce ==
  ASSUME NEW S, IsFiniteSet(S), NEW behind, NEW s, InOrder(s, S, behind)
  PROVE  /\ Cardinality(S) \in Nat
         /\ \A i, j \in 1..Cardinality(S) : s[i] = s[j] => i = j
<1> DEFINE N == Cardinality(S)
<1>1. N \in Nat
  BY FS_CardinalityType
<1>2. IsFiniteSet(1..N) /\ Cardinality(1..N) = N
  BY <1>1, FS_Interval
<1>3. s \in Surjection(1..N, S)
  BY DEF Surjection, InOrder
<1>4. s \in Injection(1..N, S)
  BY <1>2, <1>3, FS_SurjSameCardinalityImpliesInj
<1>5. QED
  BY <1>1, <1>4 DEF Injection, IsInjective

-----------------------------------------------------------------------------
(* The groups of a page                                                    *)

\* The records of a page, and those that match its filter
Shown(rs, shown) ==
  /\ rs \in Seq(ToSet(rs)) /\ \A i \in DOMAIN rs : Sound(rs[i])
  /\ shown \in SUBSET (DOMAIN rs)

Of(shown, label, l) == {i \in shown : label[i] = l}

\* One item for every label there is, with what the label's records count
ItemsBy(S, rs, shown, label) ==
  /\ \A x \in S : x.tally = Tally(rs, Of(shown, label, x.label)) /\ \E i \in shown : label[i] = x.label
  /\ \A i \in shown : \E x \in S : x.label = label[i]
  /\ \A x, y \in S : x.label = y.label => x = y

GroupedBy(s, rs, shown, label) ==
  /\ Len(s) \in Nat /\ DOMAIN s = 1..Len(s)
  /\ \A j \in DOMAIN s : s[j].tally = Tally(rs, Of(shown, label, s[j].label)) /\ \E i \in shown : label[i] = s[j].label
  /\ \A i \in shown : \E j \in DOMAIN s : s[j].label = label[i]
  /\ \A j, l \in DOMAIN s : s[j].label = s[l].label => j = l

LEMMA OrderedItems ==
  ASSUME NEW rs, NEW shown, NEW label, NEW S, NEW s, NEW behind,
         IsFiniteSet(S), ItemsBy(S, rs, shown, label), InOrder(s, S, behind)
  PROVE  GroupedBy(s, rs, shown, label)
<1> DEFINE N == Cardinality(S)
<1>1. N \in Nat /\ \A i, j \in 1..N : s[i] = s[j] => i = j
  BY OrderOnce
<1>2. s \in [1..N -> S] /\ \A x \in S : \E i \in 1..N : s[i] = x
  BY DEF InOrder
<1> HIDE DEF N
<1>3. Len(s) = N /\ DOMAIN s = 1..N
  BY <1>1, <1>2
<1>4. \A j \in 1..N : s[j] \in S
  BY <1>2
<1>5. ASSUME NEW j \in 1..N
      PROVE  s[j].tally = Tally(rs, Of(shown, label, s[j].label)) /\ \E i \in shown : label[i] = s[j].label
  BY <1>4 DEF ItemsBy
<1>6. ASSUME NEW i \in shown PROVE \E j \in 1..N : s[j].label = label[i]
  <2>1. PICK x \in S : x.label = label[i]
    BY DEF ItemsBy
  <2>2. QED
    BY <1>2, <2>1
<1>7. ASSUME NEW j \in 1..N, NEW l \in 1..N, s[j].label = s[l].label PROVE j = l
  <2>1. s[j] = s[l]
    BY <1>4, <1>7 DEF ItemsBy
  <2>2. QED
    BY <1>1, <2>1
<1>8. QED
  BY <1>1, <1>3, <1>5, <1>6, <1>7 DEF GroupedBy

LEMMA ShownFinite ==
  ASSUME NEW rs, NEW shown, Shown(rs, shown)
  PROVE  /\ Len(rs) \in Nat /\ DOMAIN rs = 1..Len(rs) /\ shown \in SUBSET Nat
         /\ IsFiniteSet(shown)
<1>1. Len(rs) \in Nat /\ DOMAIN rs = 1..Len(rs) /\ shown \in SUBSET (1..Len(rs))
  BY DEF Shown
<1>2. IsFiniteSet(1..Len(rs))
  BY <1>1, FS_Interval
<1>3. IsFiniteSet(shown)
  BY <1>1, <1>2, FS_Subset
<1>4. shown \in SUBSET Nat
  BY <1>1
<1>5. QED
  BY <1>1, <1>3, <1>4

\* What is made of each of the shown is finite.
LEMMA ImageFinite ==
  ASSUME NEW shown, IsFiniteSet(shown), NEW f, DOMAIN f = shown
  PROVE  IsFiniteSet({f[i] : i \in shown})
<1> DEFINE T == {f[i] : i \in shown}
           g == [i \in shown |-> f[i]]
<1>1. g \in Surjection(shown, T)
  BY DEF Surjection
<1>2. QED
  BY <1>1, FS_Surjection

LEMMA LabelIs ==
  ASSUME NEW at \in Nat, NEW bucket
  PROVE  usageBucketLabel(at, bucket)[2] \in Nat
<1>1. Day = 24 /\ Month = 720 /\ Year = 8640
  BY DEF Day, Month, Year
<1>2. /\ (at \div 24) * 24 \in Nat /\ (at \div (7 * 24)) * 7 * 24 \in Nat /\ (at \div 720) * 720 \in Nat
  OBVIOUS
<1>3. CASE bucket = "day"
  BY <1>1, <1>2, <1>3 DEF usageBucketLabel
<1>4. CASE bucket = "week"
  BY <1>1, <1>2, <1>4 DEF usageBucketLabel
<1>5. CASE bucket = "month"
  BY <1>1, <1>2, <1>5 DEF usageBucketLabel
<1>6. CASE bucket \notin {"day", "week", "month"}
  BY <1>6 DEF usageBucketLabel
<1>7. QED
  BY <1>3, <1>4, <1>5, <1>6

BucketLabels(rs, shown, bucket) == [i \in shown |-> usageBucketLabel(rs[i].at, bucket)[1]]

InBucket(rs, shown, bucket, l) == {i \in shown : usageBucketLabel(rs[i].at, bucket)[1] = l}

BucketItem(rs, shown, bucket, l) ==
  [label |-> l, order |-> usageBucketLabel(rs[Min(InBucket(rs, shown, bucket, l))].at, bucket)[2],
   tally |-> Tally(rs, InBucket(rs, shown, bucket, l))]

BucketItems(rs, shown, bucket) ==
  {BucketItem(rs, shown, bucket, usageBucketLabel(rs[i].at, bucket)[1]) : i \in shown}

LEMMA BucketItemsAre ==
  ASSUME NEW rs, NEW shown, NEW bucket, Shown(rs, shown)
  PROVE  /\ IsFiniteSet(BucketItems(rs, shown, bucket))
         /\ ItemsBy(BucketItems(rs, shown, bucket), rs, shown, BucketLabels(rs, shown, bucket))
         /\ \A x \in BucketItems(rs, shown, bucket) :
              /\ x.order \in Nat
              /\ \E i \in shown : /\ usageBucketLabel(rs[i].at, bucket) = <<x.label, x.order>>
<1> DEFINE S == BucketItems(rs, shown, bucket)
           L == BucketLabels(rs, shown, bucket)
           f == [i \in shown |-> BucketItem(rs, shown, bucket, usageBucketLabel(rs[i].at, bucket)[1])]
<1>1. IsFiniteSet(S)
  <2>1. IsFiniteSet(shown)
    BY ShownFinite
  <2>2. DOMAIN f = shown /\ S = {f[i] : i \in shown}
    BY DEF BucketItems
  <2> HIDE DEF f
  <2>3. QED
    BY <2>1, <2>2, ImageFinite
<1>2. \A i \in shown : L[i] = usageBucketLabel(rs[i].at, bucket)[1]
  BY DEF BucketLabels
<1>3. \A l : InBucket(rs, shown, bucket, l) = Of(shown, L, l)
  BY <1>2 DEF InBucket, Of
<1>4. \A x \in S : \E i \in shown : x = BucketItem(rs, shown, bucket, L[i])
  BY <1>2 DEF BucketItems
<1>5. \A i \in shown : BucketItem(rs, shown, bucket, L[i]) \in S
  BY <1>2 DEF BucketItems
<1> HIDE DEF S, L
<1>6. \A l : /\ BucketItem(rs, shown, bucket, l).label = l
             /\ BucketItem(rs, shown, bucket, l).tally = Tally(rs, Of(shown, L, l))
             /\ BucketItem(rs, shown, bucket, l).order = usageBucketLabel(rs[Min(Of(shown, L, l))].at, bucket)[2]
  BY <1>3 DEF BucketItem
<1>7. ItemsBy(S, rs, shown, L)
  <2>1. \A x \in S : x.tally = Tally(rs, Of(shown, L, x.label)) /\ \E i \in shown : L[i] = x.label
    BY <1>4, <1>6
  <2>2. \A i \in shown : \E x \in S : x.label = L[i]
    BY <1>5, <1>6
  <2>3. \A x, y \in S : x.label = y.label => x = y
    BY <1>4, <1>6
  <2>4. QED
    BY <2>1, <2>2, <2>3 DEF ItemsBy
<1>8. ASSUME NEW x \in S
      PROVE  x.order \in Nat /\ \E i \in shown : usageBucketLabel(rs[i].at, bucket) = <<x.label, x.order>>
  <2>1. PICK o \in shown : x = BucketItem(rs, shown, bucket, L[o])
    BY <1>4
  <2>2. o \in Of(shown, L, L[o]) /\ Of(shown, L, L[o]) \in SUBSET Nat
    BY ShownFinite DEF Of
  <2>3. PICK i : i = Min(Of(shown, L, L[o]))
    OBVIOUS
  <2>4. i \in Of(shown, L, L[o])
    BY <2>2, <2>3, MinIsLeast
  <2>5. i \in shown /\ L[i] = L[o] /\ rs[i].at \in Nat
    BY <2>4 DEF Of, Shown, Sound
  <2>6. x.label = L[i] /\ x.order = usageBucketLabel(rs[i].at, bucket)[2]
    BY <1>6, <2>1, <2>3, <2>5
  <2>7. usageBucketLabel(rs[i].at, bucket) = <<usageBucketLabel(rs[i].at, bucket)[1], usageBucketLabel(rs[i].at, bucket)[2]>>
    BY DEF usageBucketLabel
  <2>8. x.order \in Nat
    BY <2>5, <2>6, LabelIs
  <2>9. QED
    BY <1>2, <2>5, <2>6, <2>7, <2>8
<1>9. QED
  BY <1>1, <1>7, <1>8 DEF S, L

LaterItems(S) == {p \in S \X S : p[2].order < p[1].order}

\* The buckets are those of the labels, and in order.
LEMMA BucketsAre ==
  ASSUME NEW rs, NEW shown, NEW bucket, Shown(rs, shown)
  PROVE  InOrder(groupUsageBuckets(rs, shown, bucket), BucketItems(rs, shown, bucket),
                 LaterItems(BucketItems(rs, shown, bucket)))
<1> DEFINE S == BucketItems(rs, shown, bucket)
           behind == LaterItems(S)
<1>1. groupUsageBuckets(rs, shown, bucket) = Sorted(S, behind)
  BY Zenon DEF groupUsageBuckets, ByTime, LaterItems, BucketItems, BucketItem, InBucket
<1>2. IsFiniteSet(S) /\ \A x \in S : x.order \in Nat
  BY BucketItemsAre
<1>3. ASSUME NEW T \in SUBSET S, T # {} PROVE \E x \in T : \A y \in T : <<x, y>> \notin behind
  <2>1. {x.order : x \in T} \in SUBSET Nat /\ {x.order : x \in T} # {}
    BY <1>2, <1>3
  <2>2. PICK n \in {x.order : x \in T} : \A m \in {x.order : x \in T} : n <= m
    BY <2>1, LeastExists
  <2>3. PICK x \in T : x.order = n
    BY <2>2
  <2>4. \A y \in T : x.order <= y.order /\ x.order \in Nat /\ y.order \in Nat
    BY <1>2, <2>2, <2>3
  <2>5. ASSUME NEW y \in T PROVE <<x, y>> \notin behind
    <3>1. ~ (y.order < x.order)
      BY <2>4
    <3>2. QED
      BY <3>1 DEF LaterItems
  <2>6. QED
    BY <2>5
<1>4. InOrder(Sorted(S, behind), S, behind)
  BY <1>2, <1>3, SortedIs
<1>5. QED
  BY <1>1, <1>4

\* What is added up of more is no less.
LEMMA OnlyRises ==
  ASSUME NEW n \in Nat, NEW worth \in [1..n -> Nat], NEW some, NEW more, some \subseteq more
  PROVE  /\ Sum(n, Only(worth, some)) \in Nat /\ Sum(n, Only(worth, more)) \in Nat
         /\ Sum(n, Only(worth, some)) <= Sum(n, Only(worth, more))
         /\ \A i \in some : i \in 1..n => worth[i] <= Sum(n, Only(worth, some))
<1> DEFINE v == Only(worth, some)
           w == Only(worth, more)
           T == {k \in 0..n : Sum(k, v) <= Sum(k, w)}
<1>1. \A i \in 1..n : v[i] \in Nat /\ w[i] \in Nat /\ v[i] <= w[i] /\ (i \in some => v[i] = worth[i])
  BY DEF Only
<1> HIDE DEF v, w
<1>2. \A k \in 1..n : Sum(k, v) = Sum(k - 1, v) + v[k] /\ Sum(k, w) = Sum(k - 1, w) + w[k]
  BY <1>1, SumOfNaturals
<1>3. \A k \in 0..n : Sum(k, v) \in Nat /\ Sum(k, w) \in Nat
  BY <1>1, SumOfNaturals
<1>4. \A k \in 0..n : \A i \in 1..k : v[i] <= Sum(k, v)
  BY <1>1, SumOfNaturals
<1>5. 0 \in T
  BY SumIs
<1>6. ASSUME NEW k \in 1..n, k - 1 \in T PROVE k \in T
  <2>1. Sum(k - 1, v) <= Sum(k - 1, w) /\ k - 1 \in 0..n /\ k \in 0..n
    BY <1>6
  <2>2. Sum(k - 1, v) \in Nat /\ Sum(k - 1, w) \in Nat /\ v[k] \in Nat /\ w[k] \in Nat /\ v[k] <= w[k]
    BY <1>1, <1>3, <2>1
  <2>3. Sum(k, v) = Sum(k - 1, v) + v[k] /\ Sum(k, w) = Sum(k - 1, w) + w[k]
    BY <1>2
  <2>4. Sum(k, v) <= Sum(k, w)
    BY <2>1, <2>2, <2>3
  <2>5. QED
    BY <2>1, <2>4
<1>7. \A k \in 0..n : k \in T
  <2> HIDE DEF T
  <2>1. QED
    BY <1>5, <1>6, AllUpTo
<1>8. n \in 0..n
  OBVIOUS
<1>9. QED
  BY <1>1, <1>3, <1>4, <1>7, <1>8 DEF v, w

WorthOf(rs, f) == [i \in DOMAIN rs |-> Worth(rs[i], f)]

LEMMA WorthIs ==
  ASSUME NEW rs, NEW shown, Shown(rs, shown), NEW f \in Counts
  PROVE  /\ WorthOf(rs, f) \in [1..Len(rs) -> Nat]
         /\ \A some : SumOf(rs, some, f) = Sum(Len(rs), Only(WorthOf(rs, f), some))
         /\ \A i \in 1..Len(rs) : f = "requests" => WorthOf(rs, f)[i] = 1
<1>1. DOMAIN rs = 1..Len(rs)
  BY ShownFinite
<1>2. \A i \in DOMAIN rs : rs[i].totals \in Totals
  BY DEF Shown, Sound
<1>3. ASSUME NEW i \in DOMAIN rs PROVE Worth(rs[i], f) \in Nat
  <2>1. CASE f = "requests"
    BY <2>1 DEF Worth
  <2>2. CASE f = "hits"
    BY <2>2 DEF Worth
  <2>3. CASE f \notin {"requests", "hits"}
    <3>1. f \in Tokens /\ f # "requests" /\ f # "hits"
      BY <2>3 DEF Counts, Tokens
    <3>2. rs[i].totals.n \in [Tokens -> Nat]
      BY <1>2 DEF Totals
    <3>3. rs[i].totals.n[f] \in Nat
      BY <3>1, <3>2
    <3>4. QED
      BY <3>1, <3>3 DEF Worth
  <2>4. QED
    BY <2>1, <2>2, <2>3
<1>4. WorthOf(rs, f) \in [1..Len(rs) -> Nat]
  BY <1>1, <1>3 DEF WorthOf
<1>5. ASSUME NEW some PROVE SumOf(rs, some, f) = Sum(Len(rs), Only(WorthOf(rs, f), some))
  <2>1. [i \in DOMAIN rs |-> IF i \in some THEN Worth(rs[i], f) ELSE 0] = Only(WorthOf(rs, f), some)
    BY DEF Only, WorthOf
  <2>2. QED
    BY <2>1, Zenon DEF SumOf
<1>6. \A i \in 1..Len(rs) : f = "requests" => WorthOf(rs, f)[i] = 1
  BY <1>1 DEF WorthOf, Worth
<1>7. QED
  BY <1>4, <1>5, <1>6

\* Some of the shown count no more than all, and something.
LEMMA TallyIs ==
  ASSUME NEW rs, NEW shown, Shown(rs, shown), NEW some \in SUBSET shown, NEW f \in Counts
  PROVE  /\ Tally(rs, some)[f] = SumOf(rs, some, f)
         /\ Tally(rs, some)[f] \in Nat /\ Tally(rs, shown)[f] \in Nat
         /\ Tally(rs, some)[f] <= Tally(rs, shown)[f]
         /\ f = "requests" /\ some # {} => Tally(rs, some)[f] > 0
<1>1. Tally(rs, some)[f] = SumOf(rs, some, f) /\ Tally(rs, shown)[f] = SumOf(rs, shown, f)
  BY DEF Tally
<1>2. Len(rs) \in Nat /\ \A i \in some : i \in 1..Len(rs)
  BY ShownFinite DEF Shown
<1>3. PICK worth : worth = WorthOf(rs, f)
  OBVIOUS
<1>4. /\ worth \in [1..Len(rs) -> Nat]
      /\ Tally(rs, some)[f] = Sum(Len(rs), Only(worth, some))
      /\ Tally(rs, shown)[f] = Sum(Len(rs), Only(worth, shown))
  BY <1>1, <1>3, WorthIs
<1>5. /\ Sum(Len(rs), Only(worth, some)) \in Nat /\ Sum(Len(rs), Only(worth, shown)) \in Nat
      /\ Sum(Len(rs), Only(worth, some)) <= Sum(Len(rs), Only(worth, shown))
      /\ \A i \in some : i \in 1..Len(rs) => worth[i] <= Sum(Len(rs), Only(worth, some))
  BY <1>2, <1>4, OnlyRises
<1>6. f = "requests" /\ some # {} => Tally(rs, some)[f] > 0
  <2> SUFFICES ASSUME f = "requests", NEW i \in some PROVE Tally(rs, some)[f] > 0
    OBVIOUS
  <2>1. worth[i] = 1
    BY <1>2, <1>3, WorthIs
  <2>2. QED
    BY <1>2, <1>4, <1>5, <2>1
<1>7. QED
  BY <1>1, <1>4, <1>5, <1>6

LEMMA GreatestExists ==
  ASSUME NEW T \in SUBSET Nat, T # {}, NEW n \in Nat, \A x \in T : x <= n
  PROVE  \E x \in T : \A y \in T : y <= x
<1> DEFINE R == {n - x : x \in T}
<1>1. R \in SUBSET Nat /\ R # {}
  <2>1. \A x \in T : n - x \in Nat
    OBVIOUS
  <2>2. QED
    BY <2>1
<1>2. PICK r \in R : \A y \in R : r <= y
  <2> HIDE DEF R
  <2>1. QED
    BY <1>1, LeastExists
<1>3. PICK x \in T : r = n - x
  BY <1>2
<1>4. ASSUME NEW y \in T PROVE y <= x
  <2>1. n - x <= n - y
    BY <1>2, <1>3
  <2>2. QED
    BY <2>1
<1>5. QED
  BY <1>4

GroupLabels(rs, shown, field) == [i \in shown |-> NameOf(rs[i][field])]

InGroup(rs, shown, field, l) == {i \in shown : NameOf(rs[i][field]) = l}

GroupItem(rs, shown, field, l) == [label |-> l, tally |-> Tally(rs, InGroup(rs, shown, field, l))]

GroupItems(rs, shown, field) == {GroupItem(rs, shown, field, NameOf(rs[i][field])) : i \in shown}

LEMMA GroupItemsAre ==
  ASSUME NEW rs, NEW shown, NEW field, Shown(rs, shown)
  PROVE  /\ IsFiniteSet(GroupItems(rs, shown, field))
         /\ ItemsBy(GroupItems(rs, shown, field), rs, shown, GroupLabels(rs, shown, field))
<1> DEFINE S == GroupItems(rs, shown, field)
           L == GroupLabels(rs, shown, field)
           f == [i \in shown |-> GroupItem(rs, shown, field, NameOf(rs[i][field]))]
<1>1. IsFiniteSet(S)
  <2>1. IsFiniteSet(shown)
    BY ShownFinite
  <2>2. DOMAIN f = shown /\ S = {f[i] : i \in shown}
    BY DEF GroupItems
  <2> HIDE DEF f
  <2>3. QED
    BY <2>1, <2>2, ImageFinite
<1>2. \A i \in shown : L[i] = NameOf(rs[i][field])
  BY DEF GroupLabels
<1>3. \A l : InGroup(rs, shown, field, l) = Of(shown, L, l)
  BY <1>2 DEF InGroup, Of
<1>4. \A x \in S : \E i \in shown : x = GroupItem(rs, shown, field, L[i])
  BY <1>2 DEF GroupItems
<1>5. \A i \in shown : GroupItem(rs, shown, field, L[i]) \in S
  BY <1>2 DEF GroupItems
<1> HIDE DEF S, L
<1>6. \A l : /\ GroupItem(rs, shown, field, l).label = l
             /\ GroupItem(rs, shown, field, l).tally = Tally(rs, Of(shown, L, l))
  BY <1>3 DEF GroupItem
<1>7. ItemsBy(S, rs, shown, L)
  <2>1. \A x \in S : x.tally = Tally(rs, Of(shown, L, x.label)) /\ \E i \in shown : L[i] = x.label
    BY <1>4, <1>6
  <2>2. \A i \in shown : \E x \in S : x.label = L[i]
    BY <1>5, <1>6
  <2>3. \A x, y \in S : x.label = y.label => x = y
    BY <1>4, <1>6
  <2>4. QED
    BY <2>1, <2>2, <2>3 DEF ItemsBy
<1>8. QED
  BY <1>1, <1>7 DEF S, L

SmallerItems(S) == {p \in S \X S : Above(p[2], p[1])}

\* The groups are those of the names, and in order.
LEMMA GroupsAre ==
  ASSUME NEW rs, NEW shown, NEW field, Shown(rs, shown)
  PROVE  InOrder(groupUsageGroups(rs, shown, field), GroupItems(rs, shown, field),
                 SmallerItems(GroupItems(rs, shown, field)))
<1> DEFINE S == GroupItems(rs, shown, field)
           behind == SmallerItems(S)
<1>1. groupUsageGroups(rs, shown, field) = Sorted(S, behind)
  BY Zenon DEF groupUsageGroups, ByTokens, SmallerItems, GroupItems, GroupItem, InGroup
<1>2. IsFiniteSet(S) /\ ItemsBy(S, rs, shown, GroupLabels(rs, shown, field))
  BY GroupItemsAre
<1> DEFINE tokens == Tally(rs, shown)["total"]
           requests == Tally(rs, shown)["requests"]
<1>3. /\ tokens \in Nat /\ requests \in Nat
      /\ \A x \in S : /\ x.tally["total"] \in Nat /\ x.tally["total"] <= tokens
                      /\ x.tally["requests"] \in Nat /\ x.tally["requests"] <= requests
  <2>1. "total" \in Counts /\ "requests" \in Counts
    BY DEF Counts
  <2>2. ASSUME NEW x \in S
        PROVE  \E some \in SUBSET shown : x.tally = Tally(rs, some)
    BY <1>2 DEF ItemsBy, Of
  <2>3. \A some \in SUBSET shown : \A f \in {"total", "requests"} :
          /\ Tally(rs, some)[f] \in Nat /\ Tally(rs, shown)[f] \in Nat
          /\ Tally(rs, some)[f] <= Tally(rs, shown)[f]
    BY <2>1, TallyIs
  <2> HIDE DEF S
  <2>4. QED
    BY <2>2, <2>3
<1> HIDE DEF tokens, requests
<1>4. \A x, y \in S : <<x, y>> \in behind <=> Above(y, x)
  BY DEF SmallerItems
<1> HIDE DEF S, behind
<1>5. ASSUME NEW T \in SUBSET S, T # {} PROVE \E x \in T : \A y \in T : <<x, y>> \notin behind
  <2>1. PICK most \in {x.tally["total"] : x \in T} : \A m \in {x.tally["total"] : x \in T} : m <= most
    <3> DEFINE Ns == {x.tally["total"] : x \in T}
    <3>1. Ns \in SUBSET Nat /\ Ns # {} /\ \A m \in Ns : m <= tokens
      BY <1>3, <1>5
    <3> HIDE DEF Ns
    <3>2. \E x \in Ns : \A m \in Ns : m <= x
      BY <1>3, <3>1, GreatestExists
    <3>3. QED
      BY <3>2 DEF Ns
  <2> DEFINE U == {x \in T : x.tally["total"] = most}
             Ns == {x.tally["requests"] : x \in U}
  <2>2. Ns \in SUBSET Nat /\ Ns # {} /\ \A m \in Ns : m <= requests
    BY <1>3, <2>1
  <2>3. PICK n \in Ns : \A m \in Ns : m <= n
    <3> HIDE DEF Ns
    <3>1. QED
      BY <1>3, <2>2, GreatestExists
  <2>4. PICK x \in U : x.tally["requests"] = n
    BY <2>3
  <2>5. ASSUME NEW y \in T PROVE ~ Above(y, x)
    <3>1. /\ x.tally["total"] \in Nat /\ y.tally["total"] \in Nat
          /\ x.tally["requests"] \in Nat /\ y.tally["requests"] \in Nat
      BY <1>3, <2>4
    <3>2. y.tally["total"] <= x.tally["total"]
      BY <2>1, <2>4
    <3>3. y.tally["total"] = x.tally["total"] => y.tally["requests"] <= x.tally["requests"]
      BY <2>3, <2>4
    <3>4. QED
      BY <3>1, <3>2, <3>3 DEF Above
  <2>6. QED
    BY <1>4, <2>4, <2>5
<1>6. InOrder(Sorted(S, behind), S, behind)
  BY <1>2, <1>5, SortedIs
<1>7. QED
  BY <1>1, <1>6 DEF S, behind

\* AddsUp, of one list of items
PartsOf(items, whole) ==
  /\ \A f \in Counts : Sum(Len(items), [i \in DOMAIN items |-> items[i].tally[f]]) = whole[f]
  /\ \A i, j \in DOMAIN items : items[i].label = items[j].label => i = j
  /\ \A i \in DOMAIN items :
       LET share == usageShareMetric(items[i].tally, whole)
       IN  share[1] <= share[2] /\ share[2] > 0

LEMMA GroupedAddsUp ==
  ASSUME NEW rs, NEW shown, NEW label, NEW s, Shown(rs, shown), GroupedBy(s, rs, shown, label)
  PROVE  PartsOf(s, Tally(rs, shown))
<1> DEFINE k == Len(s)
           part == [j \in 1..k |-> Of(shown, label, s[j].label)]
<1>1. k \in Nat /\ DOMAIN s = 1..k
  BY DEF GroupedBy
<1>2. \A j \in 1..k : s[j].tally = Tally(rs, part[j]) /\ part[j] \in SUBSET shown /\ part[j] # {}
  BY <1>1 DEF GroupedBy, Of
<1>3. \A i \in shown : \E j \in 1..k : i \in part[j]
  BY <1>1 DEF GroupedBy, Of
<1>4. \A i \in shown, j, l \in 1..k : i \in part[j] /\ i \in part[l] => j = l
  BY <1>1 DEF GroupedBy, Of
<1>5. part \in [1..k -> SUBSET shown]
  BY <1>2
<1> HIDE DEF k, part
<1>6. Len(rs) \in Nat /\ shown \in SUBSET (1..Len(rs))
  BY ShownFinite DEF Shown
<1>7. ASSUME NEW f \in Counts
      PROVE  Sum(Len(s), [i \in DOMAIN s |-> s[i].tally[f]]) = Tally(rs, shown)[f]
  <2>1. PICK worth : worth = WorthOf(rs, f)
    OBVIOUS
  <2>2. /\ worth \in [1..Len(rs) -> Nat]
        /\ \A some : SumOf(rs, some, f) = Sum(Len(rs), Only(worth, some))
    BY <2>1, WorthIs
  <2>3. Tally(rs, shown)[f] = Sum(Len(rs), Only(worth, shown))
    BY <2>2, TallyIs
  <2>4. \A j \in 1..k : s[j].tally[f] = Sum(Len(rs), Only(worth, part[j]))
    BY <1>2, <2>2, TallyIs
  <2>5. [i \in DOMAIN s |-> s[i].tally[f]] = [j \in 1..k |-> Sum(Len(rs), Only(worth, part[j]))]
    BY <1>1, <2>4
  <2>6. Sum(k, [j \in 1..k |-> Sum(Len(rs), Only(worth, part[j]))]) = Sum(Len(rs), Only(worth, shown))
    <3>1. Parts(part, k, shown)
      BY <1>3, <1>4, <1>5 DEF Parts
    <3>2. PICK n : n = Len(rs)
      OBVIOUS
    <3>3. n \in Nat /\ k \in Nat
      BY <1>1, <1>6, <3>2
    <3>4. worth \in [1..n -> Nat]
      BY <2>2, <3>2
    <3>5. shown \in SUBSET (1..n)
      BY <1>6, <3>2
    <3>6. Sum(k, [j \in 1..k |-> Sum(n, Only(worth, part[j]))]) = Sum(n, Only(worth, shown))
      BY <3>1, <3>3, <3>4, <3>5, PartsAddUp
    <3>7. QED
      BY <3>2, <3>6
  <2>7. QED
    BY <2>3, <2>5, <2>6 DEF k
<1>8. \A i, j \in DOMAIN s : s[i].label = s[j].label => i = j
  BY DEF GroupedBy
<1>9. ASSUME NEW i \in DOMAIN s
      PROVE  LET share == usageShareMetric(s[i].tally, Tally(rs, shown))
             IN  share[1] <= share[2] /\ share[2] > 0
  <2>1. PICK some \in SUBSET shown : s[i].tally = Tally(rs, some) /\ some # {}
    BY <1>1, <1>2
  <2>2. "total" \in Counts /\ "requests" \in Counts
    BY DEF Counts
  <2>3. PICK t, r, allt, allr :
          t = Tally(rs, some)["total"] /\ r = Tally(rs, some)["requests"]
          /\ allt = Tally(rs, shown)["total"] /\ allr = Tally(rs, shown)["requests"]
    OBVIOUS
  <2>4. t \in Nat /\ allt \in Nat /\ t <= allt
    BY <2>2, <2>3, TallyIs
  <2>5. r \in Nat /\ allr \in Nat /\ r <= allr /\ r > 0
    BY <2>1, <2>2, <2>3, TallyIs
  <2>6. usageShareMetric(s[i].tally, Tally(rs, shown)) = IF allt > 0 THEN <<t, allt>> ELSE <<r, allr>>
    BY <2>1, <2>3, Zenon DEF usageShareMetric
  <2>7. CASE allt > 0
    BY <2>4, <2>6, <2>7
  <2>8. CASE ~ (allt > 0)
    BY <2>5, <2>6, <2>8
  <2>9. QED
    BY <2>7, <2>8
<1>10. QED
  BY <1>7, <1>8, <1>9 DEF PartsOf

\* The records of a page over records in memory, and those it shows
ShownAt(rs, q, now) == {i \in DOMAIN rs : recordMatchesUsageFilter(rs[i], normalizeUsageFilter(q), now)}

LEMMA ListedAre ==
  ASSUME NEW list \in Lists
  PROVE  /\ Len(list) \in Nat /\ list \in [1..Len(list) -> 1..MaxObservations]
         /\ Increasing(list)
         /\ \A i \in 1..Len(list) : Sound(Observations[list[i]])
<1>1. PICK m \in 0..MaxRecords : list \in [1..m -> 1..MaxObservations]
  BY DEF Lists, BoundedSeq, SeqOf
<1>2. m \in Nat /\ MaxObservations \in Nat
  BY UsageAssumption
<1>3. Len(list) = m
  BY <1>1, <1>2
<1>4. Increasing(list)
  BY DEF Lists
<1>5. \A i \in 1..m : list[i] \in 1..Len(Observations)
  <2>1. Len(Observations) \in Nat /\ MaxObservations <= Len(Observations)
    BY ReportAssumption, ObservationsSound
  <2>2. \A i \in 1..m : list[i] \in 1..MaxObservations
    BY <1>1
  <2>3. QED
    BY <1>2, <2>1, <2>2
<1>6. QED
  BY <1>1, <1>2, <1>3, <1>4, <1>5, ObservationsSound

LEMMA PageRecords ==
  ASSUME NEW list \in Lists, NEW q, NEW now
  PROVE  /\ Shown(recentUsageRecords(list), ShownAt(recentUsageRecords(list), q, now))
         /\ Len(recentUsageRecords(list)) = Len(list)
         /\ \A i \in 1..Len(list) : recentUsageRecords(list)[i] = Observations[list[(Len(list) - i) + 1]]
<1> DEFINE m == Len(list)
           rs == recentUsageRecords(list)
           given == [i \in DOMAIN list |-> Observations[list[i]]]
<1>1. m \in Nat /\ DOMAIN list = 1..m /\ \A i \in 1..m : Sound(Observations[list[i]])
  BY ListedAre
<1> HIDE DEF m
<1>2. DOMAIN given = 1..m /\ \A i \in 1..m : given[i] = Observations[list[i]]
  BY <1>1
<1>3. given \in [1..m -> {given[i] : i \in 1..m}]
  BY <1>1
<1>4. rs = Reverse(given)
  BY DEF recentUsageRecords
<1> HIDE DEF rs, given
<1>5. Len(given) = m
  BY <1>1, <1>3
<1>6. rs = [i \in 1..m |-> given[(m - i) + 1]]
  BY <1>4, <1>5 DEF Reverse
<1>7. \A i \in 1..m : (m - i) + 1 \in 1..m
  BY <1>1
<1>8. DOMAIN rs = 1..m /\ \A i \in 1..m : rs[i] = Observations[list[(m - i) + 1]]
  BY <1>2, <1>6, <1>7
<1>9. \A i \in 1..m : Sound(rs[i])
  BY <1>1, <1>7, <1>8
<1>10. rs \in Seq(ToSet(rs)) /\ Len(rs) = m
  <2>1. PICK R : R = ToSet(rs)
    OBVIOUS
  <2>2. \A i \in 1..m : rs[i] \in R
    BY <1>8, <2>1 DEF ToSet
  <2>3. rs \in [1..m -> R]
    BY <1>6, <2>2
  <2>4. rs \in Seq(R) /\ Len(rs) = m
    BY <1>1, <2>3
  <2>5. QED
    BY <2>1, <2>4
<1>11. Shown(rs, ShownAt(rs, q, now))
  BY <1>8, <1>9, <1>10 DEF Shown, ShownAt
<1>12. QED
  BY <1>8, <1>10, <1>11 DEF m, rs

-----------------------------------------------------------------------------
(* The pages                                                               *)

\* What a page has of its records
LEMMA DataIs ==
  ASSUME NEW list, NEW q, NEW now
  PROVE  LET data  == usageDashboardData(list, q, now)
             rs    == recentUsageRecords(list)
             shown == ShownAt(rs, q, now)
         IN  /\ data.summary.tally = Tally(rs, shown)
             /\ data.filter = normalizeUsageFilter(q)
             /\ data.buckets = groupUsageBuckets(rs, shown, normalizeUsageFilter(q).bucket)
             /\ data.models = groupUsageGroups(rs, shown, "model")
             /\ data.sources = groupUsageGroups(rs, shown, "app")
<1> DEFINE filter == normalizeUsageFilter(q)
           rs     == recentUsageRecords(list)
           shown  == ShownAt(rs, q, now)
           rest   == [offered |-> {NameOf(rs[i].app) : i \in shown},
                      recent  |-> {i \in shown : Cardinality({j \in shown : j < i}) < RecentRows}]
           all    == summarizeUsageRecords(rs, shown)
           buckets == groupUsageBuckets(rs, shown, filter.bucket)
           models  == groupUsageGroups(rs, shown, "model")
           sources == groupUsageGroups(rs, shown, "app")
<1>1. all.tally = Tally(rs, shown)
  BY DEF summarizeUsageRecords
<1>2. \E offered, recent :
        usageDashboardData(list, q, now) =
          [filter |-> filter, summary |-> all, buckets |-> buckets, models |-> models, sources |-> sources,
           offered |-> offered, recent |-> recent]
  BY Zenon DEF usageDashboardData, ShownAt
<1> HIDE DEF filter, rs, shown, all, buckets, models, sources
<1>3. LET data == usageDashboardData(list, q, now)
      IN  /\ data.summary = all /\ data.filter = filter /\ data.buckets = buckets
          /\ data.models = models /\ data.sources = sources
  BY <1>2
<1>4. QED
  BY <1>1, <1>3, Zenon DEF filter, rs, shown, buckets, models, sources

LEMMA PageAddsUp ==
  ASSUME NEW list \in Lists, NEW q, NEW now
  PROVE  AddsUp(usageDashboardData(list, q, now))
<1> DEFINE data   == usageDashboardData(list, q, now)
           rs     == recentUsageRecords(list)
           shown  == ShownAt(rs, q, now)
           bucket == normalizeUsageFilter(q).bucket
<1>1. Shown(rs, shown)
  BY PageRecords
<1>2. /\ data.summary.tally = Tally(rs, shown)
      /\ data.buckets = groupUsageBuckets(rs, shown, bucket)
      /\ data.models = groupUsageGroups(rs, shown, "model")
      /\ data.sources = groupUsageGroups(rs, shown, "app")
  BY DataIs, Zenon
<1> HIDE DEF data, rs, shown, bucket
<1>3. PartsOf(data.buckets, Tally(rs, shown))
  <2>1. GroupedBy(groupUsageBuckets(rs, shown, bucket), rs, shown, BucketLabels(rs, shown, bucket))
    BY <1>1, BucketItemsAre, BucketsAre, OrderedItems
  <2>2. QED
    BY <1>1, <1>2, <2>1, GroupedAddsUp
<1>4. \A field : PartsOf(groupUsageGroups(rs, shown, field), Tally(rs, shown))
  <2> SUFFICES ASSUME NEW field PROVE PartsOf(groupUsageGroups(rs, shown, field), Tally(rs, shown))
    OBVIOUS
  <2>1. GroupedBy(groupUsageGroups(rs, shown, field), rs, shown, GroupLabels(rs, shown, field))
    BY <1>1, GroupItemsAre, GroupsAre, OrderedItems
  <2>2. QED
    BY <1>1, <2>1, GroupedAddsUp
<1>5. PartsOf(data.models, Tally(rs, shown)) /\ PartsOf(data.sources, Tally(rs, shown))
  BY <1>2, <1>4
<1>6. \A items \in {data.buckets, data.models, data.sources} : PartsOf(items, data.summary.tally)
  BY <1>2, <1>3, <1>5
<1>7. AddsUp(data)
  BY <1>6, Zenon DEF AddsUp, PartsOf
<1>8. QED
  BY <1>7 DEF data

\* Labels that differ and belong one after the other are of times one after
\* the other, within a year.
LEMMA LabelsInTime ==
  ASSUME NEW bucket, NEW t \in Nat, NEW u \in Nat, NEW x \in Nat, NEW y \in Nat,
         t < x + Year, x < t + Year, u < y + Year, y < u + Year,
         usageBucketLabel(t, bucket)[1] = usageBucketLabel(x, bucket)[1],
         usageBucketLabel(u, bucket)[1] = usageBucketLabel(y, bucket)[1],
         usageBucketLabel(x, bucket)[1] # usageBucketLabel(y, bucket)[1],
         usageBucketLabel(x, bucket)[2] <= usageBucketLabel(y, bucket)[2]
  PROVE  t < u
<1>1. Day = 24 /\ Month = 720 /\ Year = 8640 /\ 7 * Day = 168
  BY DEF Day, Month, Year
<1>2. CASE bucket = "day"
  <2>1. \A z : usageBucketLabel(z, bucket) = <<z \div 24, (z \div 24) * 24>>
    BY <1>1, <1>2 DEF usageBucketLabel
  <2>2. t \div 24 = x \div 24 /\ u \div 24 = y \div 24 /\ x \div 24 # y \div 24
        /\ (x \div 24) * 24 <= (y \div 24) * 24
    BY <2>1
  <2>3. QED
    BY <2>2
<1>3. CASE bucket = "week"
  <2>1. \A z : usageBucketLabel(z, bucket) = <<z \div (7 * 24), (z \div (7 * 24)) * 7 * 24>>
    BY <1>1, <1>3 DEF usageBucketLabel
  <2>2. t \div (7 * 24) = x \div (7 * 24) /\ u \div (7 * 24) = y \div (7 * 24) /\ x \div (7 * 24) # y \div (7 * 24)
        /\ (x \div (7 * 24)) * 7 * 24 <= (y \div (7 * 24)) * 7 * 24
    BY <2>1
  <2>3. QED
    BY <2>2
<1>4. CASE bucket = "month"
  <2>1. \A z : usageBucketLabel(z, bucket) = <<z \div 720, (z \div 720) * 720>>
    BY <1>1, <1>4 DEF usageBucketLabel
  <2>2. t \div 720 = x \div 720 /\ u \div 720 = y \div 720 /\ x \div 720 # y \div 720
        /\ (x \div 720) * 720 <= (y \div 720) * 720
    BY <2>1
  <2>3. QED
    BY <2>2
<1>5. CASE bucket \notin {"day", "week", "month"}
  <2>1. \A z : usageBucketLabel(z, bucket) = <<z % 8640, z>>
    BY <1>1, <1>5 DEF usageBucketLabel
  <2>2. t % 8640 = x % 8640 /\ u % 8640 = y % 8640 /\ x % 8640 # y % 8640 /\ x <= y
    BY <2>1
  <2>3. \A m, n \in Nat : m < n + 8640 /\ n < m + 8640 /\ m % 8640 = n % 8640 => m = n
    OBVIOUS
  <2>4. t = x /\ u = y
    BY <1>1, <2>2, <2>3
  <2>5. QED
    BY <2>2, <2>4
<1>6. QED
  BY <1>2, <1>3, <1>4, <1>5

LEMMA PageInTime ==
  ASSUME NEW list \in Lists, NEW q, NEW now
  PROVE  InTime(list, usageDashboardData(list, q, now))
<1> DEFINE data    == usageDashboardData(list, q, now)
           rs      == recentUsageRecords(list)
           shown   == ShownAt(rs, q, now)
           bucket  == normalizeUsageFilter(q).bucket
           S       == BucketItems(rs, shown, bucket)
           times   == {Observations[list[i]].at : i \in DOMAIN list}
           N       == Cardinality(S)
<1>1. Shown(rs, shown)
  BY PageRecords
<1>2. data.filter = normalizeUsageFilter(q) /\ data.buckets = groupUsageBuckets(rs, shown, bucket)
  BY DataIs, Zenon
<1>3. \A t \in times : t \in Nat
  BY ListedAre DEF Sound
<1>4. \A i \in shown : rs[i].at \in times
  <2>1. Len(list) \in Nat /\ DOMAIN list = 1..Len(list)
    BY ListedAre
  <2>2. Len(rs) = Len(list) /\ \A i \in 1..Len(list) : rs[i] = Observations[list[(Len(list) - i) + 1]]
    BY PageRecords
  <2>3. shown \in SUBSET (1..Len(rs))
    BY <1>1, ShownFinite DEF Shown
  <2>4. \A i \in 1..Len(list) : (Len(list) - i) + 1 \in DOMAIN list
    BY <2>1
  <2> HIDE DEF rs, shown
  <2>5. QED
    BY <2>2, <2>3, <2>4
<1> HIDE DEF data, rs, shown, bucket, S, times
<1>5. /\ IsFiniteSet(S) /\ ItemsBy(S, rs, shown, BucketLabels(rs, shown, bucket))
      /\ \A x \in S : x.order \in Nat /\ \E i \in shown : usageBucketLabel(rs[i].at, bucket) = <<x.label, x.order>>
  BY <1>1, BucketItemsAre DEF S
<1>6. InOrder(data.buckets, S, LaterItems(S))
  BY <1>1, <1>2, BucketsAre DEF S
<1>7. N \in Nat /\ \A i, j \in 1..N : data.buckets[i] = data.buckets[j] => i = j
  BY <1>5, <1>6, OrderOnce
<1>8. data.buckets \in [1..N -> S] /\ \A i, j \in 1..N : i < j => <<data.buckets[i], data.buckets[j]>> \notin LaterItems(S)
  BY <1>6 DEF InOrder
<1> HIDE DEF N
<1>9. ASSUME \A t, u \in times : t < u + Year,
             NEW i \in 1..N, NEW j \in 1..N, i < j, NEW t \in times, NEW u \in times,
             usageBucketLabel(t, bucket)[1] = data.buckets[i].label,
             usageBucketLabel(u, bucket)[1] = data.buckets[j].label
      PROVE  t < u
  <2>1. PICK b, c : b = data.buckets[i] /\ c = data.buckets[j]
    OBVIOUS
  <2>2. b \in S /\ c \in S /\ <<b, c>> \notin LaterItems(S)
    BY <1>8, <1>9, <2>1
  <2>3. b # c
    BY <1>7, <1>9, <2>1
  <2>4. b.label # c.label
    BY <1>5, <2>2, <2>3 DEF ItemsBy
  <2>5. b.order \in Nat /\ c.order \in Nat /\ b.order <= c.order
    BY <1>5, <2>2 DEF LaterItems
  <2>6. PICK x \in times : usageBucketLabel(x, bucket) = <<b.label, b.order>>
    BY <1>4, <1>5, <2>2
  <2>7. PICK y \in times : usageBucketLabel(y, bucket) = <<c.label, c.order>>
    BY <1>4, <1>5, <2>2
  <2>8. /\ usageBucketLabel(x, bucket)[1] = b.label /\ usageBucketLabel(x, bucket)[2] = b.order
        /\ usageBucketLabel(y, bucket)[1] = c.label /\ usageBucketLabel(y, bucket)[2] = c.order
    BY <2>6, <2>7
  <2>9. t \in Nat /\ u \in Nat /\ x \in Nat /\ y \in Nat
    BY <1>3
  <2>10. t < x + Year /\ x < t + Year /\ u < y + Year /\ y < u + Year
    BY <1>9
  <2>11. /\ usageBucketLabel(t, bucket)[1] = usageBucketLabel(x, bucket)[1]
         /\ usageBucketLabel(u, bucket)[1] = usageBucketLabel(y, bucket)[1]
    BY <1>9, <2>1, <2>8
  <2>12. /\ usageBucketLabel(x, bucket)[1] # usageBucketLabel(y, bucket)[1]
         /\ usageBucketLabel(x, bucket)[2] <= usageBucketLabel(y, bucket)[2]
    BY <2>4, <2>5, <2>8
  <2>13. QED
    BY <2>9, <2>10, <2>11, <2>12, LabelsInTime
<1>10. DOMAIN data.buckets = 1..N
  BY <1>8
<1>11. data.filter.bucket = bucket
  BY <1>2 DEF bucket
<1>12. InTime(list, data)
  BY <1>9, <1>10, <1>11 DEF InTime, times
<1>13. QED
  BY <1>12 DEF data

-----------------------------------------------------------------------------
(* What an orderly answer carries is what is read out of it                *)

\* Two sums in one
Together(n, u, v, w) == \A i \in 1..n : u[i] \in Nat /\ v[i] \in Nat /\ w[i] = u[i] + v[i]

LEMMA SumTogether ==
  ASSUME NEW n \in Nat, NEW u, NEW v, NEW w, Together(n, u, v, w)
  PROVE  Sum(n, u) \in Nat /\ Sum(n, v) \in Nat /\ Sum(n, w) = Sum(n, u) + Sum(n, v)
<1> DEFINE T == {k \in 0..n : Sum(k, w) = Sum(k, u) + Sum(k, v)}
<1>0. \A i \in 1..n : u[i] \in Nat /\ v[i] \in Nat /\ w[i] = u[i] + v[i]
  BY DEF Together
<1>1. \A i \in 1..n : w[i] \in Nat
  BY <1>0
<1>2. /\ \A k \in 0..n : Sum(k, u) \in Nat /\ Sum(k, v) \in Nat
      /\ \A k \in 1..n : /\ Sum(k, u) = Sum(k - 1, u) + u[k] /\ Sum(k, v) = Sum(k - 1, v) + v[k]
                         /\ Sum(k, w) = Sum(k - 1, w) + w[k]
      /\ Sum(0, u) = 0 /\ Sum(0, v) = 0 /\ Sum(0, w) = 0
  BY <1>0, <1>1, SumOfNaturals, SumIs
<1>3. 0 \in T
  BY <1>2
<1>4. ASSUME NEW k \in 1..n, k - 1 \in T PROVE k \in T
  <2>1. k \in 0..n /\ k - 1 \in 0..n /\ u[k] \in Nat /\ v[k] \in Nat /\ w[k] = u[k] + v[k]
    BY <1>0
  <2>2. Sum(k, w) = Sum(k, u) + Sum(k, v)
    BY <1>2, <1>4, <2>1
  <2>3. QED
    BY <2>1, <2>2
<1>5. \A k \in 0..n : k \in T
  <2> HIDE DEF T
  <2>1. QED
    BY <1>3, <1>4, AllUpTo
<1>6. n \in 0..n
  OBVIOUS
<1>7. QED
  BY <1>2, <1>5, <1>6

\* Of some, only x counts.
Alone(n, worth, some, x) == x \in some /\ \A i \in 1..n : i \in some /\ i # x => worth[i] = 0

LEMMA SumOfOne ==
  ASSUME NEW n \in Nat, NEW worth \in [1..n -> Nat], NEW some, NEW x \in 1..n, Alone(n, worth, some, x)
  PROVE  Sum(n, Only(worth, some)) = worth[x]
<1> DEFINE v == [i \in 1..n |-> 0]
           w == Only(worth, some)
           d == worth[x]
<1>1. \A i \in 1..n : v[i] \in Nat /\ v[i] = 0 /\ w[i] = IF i = x THEN v[i] + d ELSE v[i]
  BY DEF Only, Alone
<1>2. d \in Nat
  OBVIOUS
<1> HIDE DEF v, w, d
<1>3. RisesAt(n, v, w, x, d)
  BY <1>1 DEF RisesAt
<1>4. Sum(n, w) = Sum(n, v) + d
  BY <1>2, <1>3, SumRises
<1>5. Sum(n, v) = 0
  BY <1>1, SumOfNothing
<1>6. QED
  BY <1>2, <1>4, <1>5 DEF w, d

\* What counts is in some if it is in more.
Alike(n, worth, some, more) == \A i \in 1..n : worth[i] # 0 => (i \in some <=> i \in more)

LEMMA OnlySame ==
  ASSUME NEW n \in Nat, NEW worth \in [1..n -> Nat], NEW some, NEW more, Alike(n, worth, some, more)
  PROVE  Sum(n, Only(worth, some)) = Sum(n, Only(worth, more))
<1> DEFINE v == Only(worth, more)
           w == Only(worth, some)
<1>1. \A i \in 1..n : v[i] \in Nat /\ w[i] = v[i]
  BY DEF Only, Alike
<1> HIDE DEF v, w
<1>2. Sum(n, w) = Sum(n, v)
  BY <1>1, SumSame
<1>3. QED
  BY <1>2 DEF v, w

\* What totals has of the places in s
Along(s, totals) == [k \in DOMAIN s |-> totals[s[k]]]

\* What is added up along places of which none comes twice
LEMMA PlacesAddUp ==
  ASSUME NEW n \in Nat, NEW worth \in [1..n -> Nat], NEW k \in Nat, NEW s \in [1..k -> 1..n], IsInjective(s)
  PROVE  Sum(k, [j \in 1..k |-> worth[s[j]]]) = Sum(n, Only(worth, {s[j] : j \in 1..k}))
<1> DEFINE part  == [j \in 1..k |-> {s[j]}]
           inner == [j \in 1..k |-> Sum(n, Only(worth, part[j]))]
           along == [j \in 1..k |-> worth[s[j]]]
           shown == {s[j] : j \in 1..k}
<1>1. \A j \in 1..k : s[j] \in 1..n
  OBVIOUS
<1>2. shown \in SUBSET (1..n)
  BY <1>1
<1>3. \A i, j \in 1..k : s[i] = s[j] => i = j
  BY DEF IsInjective
<1>4. Parts(part, k, shown)
  <2>1. part \in [1..k -> SUBSET shown]
    OBVIOUS
  <2>2. \A i \in shown : \E j \in 1..k : i \in part[j]
    OBVIOUS
  <2>3. \A i \in shown, j, l \in 1..k : i \in part[j] /\ i \in part[l] => j = l
    BY <1>3
  <2>4. QED
    BY <2>1, <2>2, <2>3 DEF Parts
<1>5. \A j \in 1..k : part[j] = {s[j]} /\ inner[j] = Sum(n, Only(worth, part[j])) /\ along[j] = worth[s[j]]
  OBVIOUS
<1>6. Sum(k, inner) = Sum(n, Only(worth, shown))
  <2>1. inner = [j \in 1..k |-> Sum(n, Only(worth, part[j]))]
    OBVIOUS
  <2> HIDE DEF part, shown, inner
  <2>2. OfParts(n, k, worth, part) = Sum(n, Only(worth, shown))
    BY <1>2, <1>4, PartsTogether
  <2>3. QED
    BY <2>1, <2>2 DEF OfParts
<1> HIDE DEF part, along, shown
<1> HIDE DEF inner
<1>7. ASSUME NEW j \in 1..k PROVE along[j] \in Nat /\ inner[j] = along[j]
  <2>1. s[j] \in 1..n /\ Alone(n, worth, part[j], s[j])
    BY <1>1, <1>5 DEF Alone
  <2>2. Sum(n, Only(worth, part[j])) = worth[s[j]]
    BY <2>1, SumOfOne
  <2>3. QED
    BY <1>5, <2>1, <2>2
<1>8. Sum(k, inner) = Sum(k, along)
  BY <1>7, SumSame
<1>9. QED
  BY <1>6, <1>8 DEF along, shown

LEMMA SumAlong ==
  ASSUME NEW n \in Nat, NEW worth \in [1..n -> Nat], NEW s \in Seq(1..n), IsInjective(s)
  PROVE  Sum(Len(s), Along(s, worth)) = Sum(n, Only(worth, ToSet(s)))
<1> PICK k : k = Len(s)
  OBVIOUS
<1>1. k \in Nat /\ DOMAIN s = 1..k /\ s \in [1..k -> 1..n]
  OBVIOUS
<1>2. Sum(k, [j \in 1..k |-> worth[s[j]]]) = Sum(n, Only(worth, {s[j] : j \in 1..k}))
  BY <1>1, PlacesAddUp
<1>3. Along(s, worth) = [j \in 1..k |-> worth[s[j]]] /\ ToSet(s) = {s[j] : j \in 1..k}
  BY <1>1 DEF Along, ToSet
<1>4. QED
  BY <1>2, <1>3

\* Each is worth what it has itself and what those are worth that it holds.
Flows(n, worth, own, held) ==
  /\ held \in [1..n -> SUBSET (1..n)]
  /\ \A i, j \in 1..n : i # j => held[i] \intersect held[j] = {}
  /\ \A i \in 1..n : worth[i] = own[i] + Sum(n, Only(worth, held[i]))

\* What is worth something together is worth what all have.
LEMMA Conserved ==
  ASSUME NEW n \in Nat, NEW worth \in [1..n -> Nat], NEW own, NEW held, Flows(n, worth, own, held),
         \A i \in 1..n : own[i] \in Nat
  PROVE  Sum(n, Only(worth, (1..n) \ UNION {held[i] : i \in 1..n})) = Sum(n, own)
<1> DEFINE inner == [i \in 1..n |-> Sum(n, Only(worth, held[i]))]
           below == UNION {held[i] : i \in 1..n}
           ofBelow == Only(worth, below)
           ofRest == Only(worth, (1..n) \ below)
<1>1. /\ held \in [1..n -> SUBSET (1..n)]
      /\ \A i, j \in 1..n : i # j => held[i] \intersect held[j] = {}
      /\ \A i \in 1..n : worth[i] = own[i] + inner[i]
  BY DEF Flows
<1>2. below \in SUBSET (1..n)
  BY <1>1
<1>3. \A i \in 1..n : ofBelow[i] \in Nat /\ ofRest[i] \in Nat /\ worth[i] = ofBelow[i] + ofRest[i]
  BY <1>2 DEF Only
<1>4. Parts(held, n, below)
  <2>1. held \in [1..n -> SUBSET below]
    BY <1>1
  <2>2. \A i \in below : \E j \in 1..n : i \in held[j]
    OBVIOUS
  <2>3. \A i \in below, j, l \in 1..n : i \in held[j] /\ i \in held[l] => j = l
    BY <1>1
  <2>4. QED
    BY <2>1, <2>2, <2>3 DEF Parts
<1> HIDE DEF below
<1>5. Sum(n, inner) = Sum(n, ofBelow)
  <2>1. OfParts(n, n, worth, held) = Sum(n, ofBelow)
    BY <1>2, <1>4, PartsTogether
  <2>2. QED
    BY <2>1 DEF OfParts
<1>6. \A i \in 1..n : inner[i] \in Nat
  <2> SUFFICES ASSUME NEW i \in 1..n PROVE Sum(n, Only(worth, held[i])) \in Nat
    OBVIOUS
  <2>1. held[i] \subseteq held[i]
    OBVIOUS
  <2>2. QED
    BY <2>1, OnlyRises
<1> HIDE DEF inner, ofBelow, ofRest
<1>7. Sum(n, own) \in Nat /\ Sum(n, inner) \in Nat /\ Sum(n, worth) = Sum(n, own) + Sum(n, inner)
  BY <1>1, <1>6, SumTogether DEF Together
<1>8. Sum(n, ofBelow) \in Nat /\ Sum(n, ofRest) \in Nat /\ Sum(n, worth) = Sum(n, ofBelow) + Sum(n, ofRest)
  BY <1>3, SumTogether DEF Together
<1>9. Sum(n, ofRest) = Sum(n, own)
  BY <1>5, <1>7, <1>8
<1>10. QED
  BY <1>9 DEF ofRest, below

LEMMA CompletedSays ==
  ASSUME NEW n \in [Tokens -> Nat], NEW hit,
         NEW input, input = IF n["input"] = 0 THEN n["prompt"] ELSE n["input"],
         NEW output, output = IF n["output"] = 0 THEN n["completion"] ELSE n["output"]
  PROVE  /\ Completed(n, hit).hit = hit
         /\ Completed(n, hit).n["input"] = input /\ Completed(n, hit).n["output"] = output
         /\ Completed(n, hit).n["total"] =
              IF n["total"] # 0 THEN n["total"]
              ELSE IF n["prompt"] + n["completion"] > 0 THEN n["prompt"] + n["completion"] ELSE input + output
         /\ \A f \in Tokens \ {"input", "output", "total"} : Completed(n, hit).n[f] = n[f]
<1> DEFINE parts == n["prompt"] + n["completion"]
           total == IF n["total"] # 0 THEN n["total"] ELSE IF parts > 0 THEN parts ELSE input + output
           new   == [n EXCEPT !["input"] = input, !["output"] = output, !["total"] = total]
<1>1. Completed(n, hit) = [n |-> new, hit |-> hit]
  BY Zenon DEF Completed
<1>2. Completed(n, hit).n = new /\ Completed(n, hit).hit = hit
  BY <1>1
<1> HIDE DEF total
<1>3. /\ new["input"] = input /\ new["output"] = output /\ new["total"] = total
      /\ \A f \in Tokens \ {"input", "output", "total"} : new[f] = n[f]
  BY DEF Tokens
<1> HIDE DEF new
<1>4. QED
  BY <1>2, <1>3 DEF total

LEMMA MaxOfTwo ==
  ASSUME NEW a \in Nat, NEW b \in Nat
  PROVE  Max({a, b}) = IF a >= b THEN a ELSE b
<1>1. \E x \in {a, b} : \A y \in {a, b} : x >= y
  <2>1. CASE a >= b
    BY <2>1
  <2>2. CASE b >= a
    BY <2>2
  <2>3. QED
    BY <2>1, <2>2
<1>2. Max({a, b}) \in {a, b} /\ \A y \in {a, b} : Max({a, b}) >= y
  BY <1>1 DEF Max
<1> DEFINE m == Max({a, b})
<1>3. (m = a \/ m = b) /\ m >= a /\ m >= b
  BY <1>2
<1> HIDE DEF m
<1>4. m = IF a >= b THEN a ELSE b
  BY <1>3
<1>5. QED
  BY <1>4 DEF m

LEMMA MaxAlone ==
  ASSUME NEW a \in Nat
  PROVE  Max({a, 0, 0}) = a
<1>1. \E x \in {a, 0, 0} : \A y \in {a, 0, 0} : x >= y
  <2>1. \A y \in {a, 0, 0} : a >= y
    OBVIOUS
  <2>2. QED
    BY <2>1
<1>2. Max({a, 0, 0}) \in {a, 0, 0} /\ \A y \in {a, 0, 0} : Max({a, 0, 0}) >= y
  BY <1>1 DEF Max
<1> DEFINE m == Max({a, 0, 0})
<1>3. (m = a \/ m = 0) /\ m >= a
  BY <1>2
<1> HIDE DEF m
<1>4. m = a
  BY <1>3
<1>5. QED
  BY <1>4 DEF m

\* totals are the tokens o carries
Tells(totals, o) ==
  /\ totals.n["input"] = Carries(o).input /\ totals.n["output"] = Carries(o).output
  /\ totals.n["total"] = Carries(o).input + Carries(o).output
  /\ totals.n["cached"] = Carries(o).cached

\* The numbers of o under the names of the tokens, with any of cached
Numbers(o, n) == n \in [Tokens -> Nat] /\ \A f \in Tokens \ {"cached"} : n[f] = Number(o, f)

LEMMA CompletedTells ==
  ASSUME NEW o, Counted(o), ByOneName(o), NEW n, Numbers(o, n), NEW hit, n["cached"] = Carries(o).cached
  PROVE  Tells(Completed(n, hit), o)
<1> PICK p, c, i, u, t : /\ p = Number(o, "prompt") /\ c = Number(o, "completion") /\ i = Number(o, "input")
                         /\ u = Number(o, "output") /\ t = Number(o, "total")
  OBVIOUS
<1>1. p \in Nat /\ c \in Nat /\ i \in Nat /\ u \in Nat /\ t \in Nat
  BY NumberIsNatural
<1>2. /\ n \in [Tokens -> Nat] /\ n["prompt"] = p /\ n["completion"] = c /\ n["input"] = i /\ n["output"] = u
      /\ n["total"] = t
  BY DEF Numbers, Tokens
<1>3. Carries(o).input = IF i >= p THEN i ELSE p
  <2>1. Carries(o).input = Max({i, p})
    BY DEF Carries
  <2>2. QED
    BY <1>1, <2>1, MaxOfTwo
<1>4. Carries(o).output = IF u >= c THEN u ELSE c
  <2>1. Carries(o).output = Max({u, c})
    BY DEF Carries
  <2>2. QED
    BY <1>1, <2>1, MaxOfTwo
<1> PICK input, output : /\ input = IF i = 0 THEN p ELSE i
                         /\ output = IF u = 0 THEN c ELSE u
  OBVIOUS
<1>5. /\ \/ p = 0 /\ c = 0
         \/ i = 0 /\ u = 0
         \/ p = i /\ c = u
      /\ t = 0 \/ t = Carries(o).input + Carries(o).output
  BY DEF ByOneName
<1>6. /\ Completed(n, hit).n["input"] = input /\ Completed(n, hit).n["output"] = output
      /\ Completed(n, hit).n["total"] = IF t # 0 THEN t ELSE IF p + c > 0 THEN p + c ELSE input + output
      /\ Completed(n, hit).n["cached"] = n["cached"]
  <2>1. "cached" \in Tokens \ {"input", "output", "total"}
    BY DEF Tokens
  <2>2. QED
    BY <1>2, <2>1, CompletedSays
<1>7. input = Carries(o).input /\ output = Carries(o).output
  BY <1>1, <1>3, <1>4, <1>5
<1>8. (IF t # 0 THEN t ELSE IF p + c > 0 THEN p + c ELSE input + output) = input + output
  BY <1>1, <1>3, <1>4, <1>5, <1>7
<1>9. QED
  BY <1>6, <1>7, <1>8 DEF Tells

\* The numbers usageTotalsFromUsageObject completes
NumbersOf(o) ==
  [f \in Tokens |->
     IF f # "cached" THEN Number(o, f)
     ELSE Max({Number(o, f), Number(o, "promptCached"), Number(o, "completionCached")})]

LEMMA NumbersAre ==
  ASSUME NEW o, Counted(o)
  PROVE  /\ usageTotalsFromUsageObject(o) = Completed(NumbersOf(o), o.hit)
         /\ Numbers(o, NumbersOf(o))
         /\ NumbersOf(o)["cached"] = Carries(o).cached
<1>1. ASSUME NEW f \in Tokens
      PROVE  /\ Number(o, f) \in Nat
             /\ Max({Number(o, f), Number(o, "promptCached"), Number(o, "completionCached")}) \in Nat
  BY NumberIsNatural, MaxOfThree
<1>2. Numbers(o, NumbersOf(o))
  BY <1>1 DEF Numbers, NumbersOf
<1>3. usageTotalsFromUsageObject(o) = Completed(NumbersOf(o), o.hit)
  BY Zenon DEF usageTotalsFromUsageObject, NumbersOf
<1>4. NumbersOf(o)["cached"] = Carries(o).cached
  BY DEF NumbersOf, Carries, Tokens
<1>5. QED
  BY <1>2, <1>3, <1>4

LEMMA ObjectTells ==
  ASSUME NEW o, Counted(o), ByOneName(o)
  PROVE  Tells(usageTotalsFromUsageObject(o), o)
BY NumbersAre, CompletedTells

\* An object that bears no tokens is no usage.
LEMMA BarrenIsNone ==
  ASSUME NEW o, Counted(o), ~ Bears(o)
  PROVE  usageTotalsFromUsageObject(o) = NoUsage
<1> DEFINE n == NumbersOf(o)
<1>1. ~ o.hit /\ \A f \in Tokens \union {"promptCached", "completionCached"} : Number(o, f) = 0
  BY DEF Bears
<1>2. o.hit = FALSE
  BY <1>1 DEF Counted
<1>3. \A f \in Tokens : n[f] = 0
  <2>1. Max({0, 0, 0}) = 0
    BY MaxAlone
  <2>2. \A f \in Tokens : Number(o, f) = 0 /\ Number(o, "promptCached") = 0 /\ Number(o, "completionCached") = 0
    BY <1>1
  <2>3. QED
    BY <2>1, <2>2 DEF NumbersOf
<1>4. n \in [Tokens -> Nat]
  BY NumbersAre DEF Numbers
<1> HIDE DEF n
<1> DEFINE m == Completed(n, FALSE)
<1>5. m \in Totals
  BY <1>4, CompletedIsTotals
<1>6. m.hit = FALSE /\ \A f \in Tokens : m.n[f] = 0
  <2>1. n["input"] = 0 /\ n["output"] = 0 /\ n["prompt"] = 0 /\ n["completion"] = 0 /\ n["total"] = 0
    BY <1>3 DEF Tokens
  <2> PICK zero, hit : zero = 0 /\ hit = FALSE
    OBVIOUS
  <2>2. /\ zero = (IF n["input"] = 0 THEN n["prompt"] ELSE n["input"])
        /\ zero = (IF n["output"] = 0 THEN n["completion"] ELSE n["output"])
    BY <2>1
  <2>3. m = Completed(n, hit)
    OBVIOUS
  <2> HIDE DEF m
  <2>4. /\ m.hit = hit /\ m.n["input"] = zero /\ m.n["output"] = zero
        /\ m.n["total"] = IF n["total"] # 0 THEN n["total"]
                          ELSE IF n["prompt"] + n["completion"] > 0 THEN n["prompt"] + n["completion"] ELSE zero + zero
        /\ \A f \in Tokens \ {"input", "output", "total"} : m.n[f] = n[f]
    BY <1>4, <2>2, <2>3, CompletedSays
  <2>5. m.n["total"] = 0
    BY <2>1, <2>4
  <2>6. QED
    BY <1>3, <2>4, <2>5
<1> HIDE DEF m
<1>7. m = NoUsage
  <2>1. m = [n |-> m.n, hit |-> m.hit] /\ m.n = [f \in Tokens |-> m.n[f]]
    BY <1>5 DEF Totals
  <2>2. m.n = [f \in Tokens |-> 0]
    BY <1>6, <2>1
  <2>3. QED
    BY <1>6, <2>1, <2>2 DEF NoUsage
<1>8. QED
  BY <1>2, <1>7, NumbersAre DEF m, n

LEMMA HeadersTell ==
  ASSUME NEW o, Counted(o), ByOneName(o), Number(o, "promptCached") = 0, Number(o, "completionCached") = 0
  PROVE  Tells(Completed([f \in Tokens |-> Number(o, f)], o.hit), o)
<1> DEFINE n == [f \in Tokens |-> Number(o, f)]
<1>1. Numbers(o, n)
  BY NumberIsNatural DEF Numbers
<1>2. n["cached"] = Carries(o).cached
  <2>1. n["cached"] = Number(o, "cached") /\ Number(o, "cached") \in Nat
    BY NumberIsNatural DEF Tokens
  <2>2. Carries(o).cached = Max({Number(o, "cached"), 0, 0})
    BY DEF Carries
  <2>3. QED
    BY <2>1, <2>2, MaxAlone
<1> HIDE DEF n
<1>3. Tells(Completed(n, o.hit), o)
  BY <1>1, <1>2, CompletedTells
<1>4. QED
  BY <1>3 DEF n

LEMMA CarriesNatural ==
  ASSUME NEW o, Counted(o)
  PROVE  /\ Carries(o).input \in Nat /\ Carries(o).output \in Nat /\ Carries(o).cached \in Nat
         /\ ~ Bears(o) => Carries(o).input = 0 /\ Carries(o).output = 0 /\ Carries(o).cached = 0
<1>1. Number(o, "input") \in Nat /\ Number(o, "prompt") \in Nat /\ Number(o, "output") \in Nat
      /\ Number(o, "completion") \in Nat /\ Number(o, "cached") \in Nat /\ Number(o, "promptCached") \in Nat
      /\ Number(o, "completionCached") \in Nat
  BY NumberIsNatural
<1>2. Carries(o).input \in Nat /\ Carries(o).output \in Nat
  BY <1>1, MaxOfTwo DEF Carries
<1>3. Carries(o).cached \in Nat
  BY <1>1, MaxOfThree DEF Carries
<1>4. ASSUME ~ Bears(o) PROVE Carries(o).input = 0 /\ Carries(o).output = 0 /\ Carries(o).cached = 0
  <2>1. /\ Number(o, "input") = 0 /\ Number(o, "prompt") = 0 /\ Number(o, "output") = 0
        /\ Number(o, "completion") = 0 /\ Number(o, "cached") = 0 /\ Number(o, "promptCached") = 0
        /\ Number(o, "completionCached") = 0
    BY <1>4 DEF Bears, Tokens
  <2>2. Max({0, 0}) = 0 /\ Max({0, 0, 0}) = 0
    BY MaxOfTwo, MaxAlone
  <2>3. QED
    BY <2>1, <2>2 DEF Carries
<1>5. QED
  BY <1>2, <1>3, <1>4

\* The tokens read out of each of the first n values
WorthIn(n, totals, f) == [i \in 1..n |-> totals[i].n[f]]

AllRead(n, totals) == \A i \in 1..n : totals[i] \in Totals

LEMMA WorthInIs ==
  ASSUME NEW n \in Nat, NEW totals, AllRead(n, totals), NEW f \in Tokens
  PROVE  /\ WorthIn(n, totals, f) \in [1..n -> Nat]
         /\ \A i \in 1..n : WorthIn(n, totals, f)[i] = totals[i].n[f]
         /\ \A i \in 1..n : totals[i] = NoUsage => WorthIn(n, totals, f)[i] = 0
<1>1. \A i \in 1..n : totals[i].n[f] \in Nat
  BY DEF Totals, AllRead
<1>2. NoUsage.n[f] = 0
  BY DEF NoUsage
<1>3. QED
  BY <1>1, <1>2 DEF WorthIn

LEMMA AlongIs ==
  ASSUME NEW n \in Nat, NEW totals, NEW s \in Seq(1..n), NEW f
  PROVE  /\ Len(Along(s, totals)) = Len(s) /\ DOMAIN Along(s, totals) = DOMAIN s
         /\ \A k \in DOMAIN s : Along(s, totals)[k] = totals[s[k]]
         /\ [k \in DOMAIN Along(s, totals) |-> Along(s, totals)[k].n[f]] = Along(s, WorthIn(n, totals, f))
<1> DEFINE all == Along(s, totals)
<1>1. DOMAIN s = 1..Len(s) /\ Len(s) \in Nat /\ \A k \in DOMAIN s : s[k] \in 1..n
  OBVIOUS
<1>2. DOMAIN all = DOMAIN s /\ \A k \in DOMAIN s : all[k] = totals[s[k]]
  BY DEF Along
<1>3. Len(all) = Len(s)
  BY <1>1 DEF Along
<1> HIDE DEF all
<1>4. \A k \in DOMAIN s : all[k].n[f] = WorthIn(n, totals, f)[s[k]]
  BY <1>1, <1>2 DEF WorthIn
<1>5. [k \in DOMAIN all |-> all[k].n[f]] = Along(s, WorthIn(n, totals, f))
  BY <1>2, <1>4 DEF Along
<1>6. QED
  BY <1>2, <1>3, <1>5 DEF all

\* Of values merged, each named once, the tokens add up.
LEMMA MergedSays ==
  ASSUME NEW n \in Nat, NEW totals, AllRead(n, totals),
         NEW s \in Seq(1..n), IsInjective(s), NEW f \in Tokens
  PROVE  mergeUsageTotals(Along(s, totals)).n[f]
           = Sum(n, Only(WorthIn(n, totals, f), ToSet(s)))
<1> DEFINE all == Along(s, totals)
           worth == WorthIn(n, totals, f)
<1>1. /\ Len(all) = Len(s)
      /\ [k \in DOMAIN all |-> all[k].n[f]] = Along(s, worth)
  BY AlongIs
<1>2. worth \in [1..n -> Nat]
  BY WorthInIs
<1> HIDE DEF all, worth
<1>3. mergeUsageTotals(all).n[f] = Sum(Len(all), [k \in DOMAIN all |-> all[k].n[f]])
  BY DEF mergeUsageTotals
<1>4. Sum(Len(s), Along(s, worth)) = Sum(n, Only(worth, ToSet(s)))
  BY <1>2, SumAlong
<1>5. mergeUsageTotals(all).n[f] = Sum(Len(s), Along(s, worth))
  BY <1>1, <1>3
<1>6. QED
  BY <1>4, <1>5 DEF all, worth

\* What has no usage merges into none.
LEMMA MergedNone ==
  ASSUME NEW n \in Nat, NEW totals, NEW s \in Seq(1..n), \A k \in DOMAIN s : totals[s[k]] = NoUsage
  PROVE  mergeUsageTotals(Along(s, totals)) = NoUsage
<1> DEFINE all == Along(s, totals)
<1>1. DOMAIN all = DOMAIN s /\ Len(all) = Len(s)
  BY AlongIs
<1>2. DOMAIN s = 1..Len(s) /\ Len(s) \in Nat
  OBVIOUS
<1>3. \A k \in DOMAIN all : all[k] = NoUsage
  BY <1>1 DEF Along
<1> HIDE DEF all
<1>4. NoUsage.hit = FALSE /\ \A f \in Tokens : NoUsage.n[f] = 0
  BY DEF NoUsage
<1>5. ASSUME NEW f \in Tokens PROVE Sum(Len(all), [k \in DOMAIN all |-> all[k].n[f]]) = 0
  <2> DEFINE v == [k \in DOMAIN all |-> all[k].n[f]]
  <2>1. \A k \in 1..Len(s) : v[k] = 0
    BY <1>1, <1>2, <1>3, <1>4
  <2> HIDE DEF v
  <2>2. Sum(Len(s), v) = 0
    BY <1>2, <2>1, SumOfNothing
  <2>3. QED
    BY <1>1, <2>2 DEF v
<1>6. (\E k \in DOMAIN all : all[k].hit) = FALSE
  BY <1>3, <1>4
<1> DEFINE m == [f \in Tokens |-> Sum(Len(all), [k \in DOMAIN all |-> all[k].n[f]])]
           hit == \E k \in DOMAIN all : all[k].hit
<1>7. m = [f \in Tokens |-> 0]
  BY <1>5
<1>8. mergeUsageTotals(all) = [n |-> m, hit |-> hit]
  BY Zenon DEF mergeUsageTotals
<1> HIDE DEF m
<1>9. hit = FALSE
  BY <1>6
<1> HIDE DEF hit
<1>10. mergeUsageTotals(all) = NoUsage
  BY <1>7, <1>8, <1>9 DEF NoUsage
<1>11. QED
  BY <1>10 DEF all

LEMMA ValuesTurn ==
  ASSUME NEW values, Held(values)
  PROVE  /\ Len(values) \in Nat /\ DOMAIN values = 1..Len(values)
         /\ \A i \in 1..Len(values) :
              /\ usageTotalsFromValue(values)[i] = Turn(values[i], usageTotalsFromValue(values))
              /\ usageTotalsFromValue(values)[i] \in Totals
<1> DEFINE N == Len(values)
           g == CHOOSE totals : totals = [j \in DOMAIN values |-> Turn(values[j], totals)]
<1>0. N \in Nat /\ DOMAIN values = 1..N
  BY DEF Held
<1>1. usageTotalsFromValue(values) = g
  BY Zenon DEF usageTotalsFromValue, Turn
<1>2. \E totals : totals = [j \in DOMAIN values |-> Turn(values[j], totals)]
  BY <1>0, TurnsExist DEF TurnsTo
<1>3. g = [j \in DOMAIN values |-> Turn(values[j], g)]
  BY <1>2
<1> HIDE DEF g
<1>4. \A j \in 1..N : g[j] = Turn(values[j], g)
  BY <1>0, <1>3
<1>5. QED
  BY <1>0, <1>1, <1>4, ValuesAreTotals

\* The values of an answer that hold usage or lead to some
SaidOf(v, i, found) ==
  /\ v.kind = "object" /\ Bears(v) => i \in found
  /\ HeldBy(v) \intersect found # {} => i \in found
  /\ v.kind = "object" => \A k \in DOMAIN v.nested : v.nested[k] \in found =>
       /\ k \in ToSet(Further) /\ ~ Bears(v)
       /\ \A l \in DOMAIN v.nested : v.nested[l] \in found => k = l

LEMMA SaidIn ==
  ASSUME NEW a, NEW found, SaidOnce(a, found), NEW i \in DOMAIN a.values
  PROVE  SaidOf(a.values[i], i, found)
BY DEF SaidOnce, SaidOf

LEMMA HeldByIs ==
  ASSUME NEW n \in Nat, NEW v, v.items \in Seq(1..n), \A k \in DOMAIN v.nested : v.nested[k] \in 1..n
  PROVE  /\ HeldBy(v) \subseteq 1..n
         /\ v.kind = "list" => /\ HeldBy(v) = ToSet(v.items)
                               /\ \A k \in DOMAIN v.items : v.items[k] \in HeldBy(v)
         /\ v.kind = "object" => /\ HeldBy(v) = {v.nested[k] : k \in DOMAIN v.nested}
         /\ v.kind # "list" /\ v.kind # "object" => HeldBy(v) = {}
<1>1. \A k \in DOMAIN v.items : v.items[k] \in 1..n
  OBVIOUS
<1>2. ToSet(v.items) = {v.items[k] : k \in DOMAIN v.items}
  BY DEF ToSet
<1>3. Range(v.nested) = {v.nested[k] : k \in DOMAIN v.nested}
  BY DEF Range
<1>4. "list" # "object"
  OBVIOUS
<1>5. QED
  BY <1>1, <1>2, <1>3, <1>4 DEF HeldBy

\* A value outside of found has no usage, if those it holds have none.
LEMMA TurnOutside ==
  ASSUME NEW n \in Nat, NEW v, NEW g, NEW i, NEW found, Counted(v), v.items \in Seq(1..n),
         \A k \in DOMAIN v.nested : v.nested[k] \in 1..n,
         \A j \in 1..n : j \notin found => g[j] = NoUsage,
         SaidOf(v, i, found), i \notin found
  PROVE  Turn(v, g) = NoUsage
<1>1. \A j \in HeldBy(v) : j \in 1..n /\ j \notin found
  BY HeldByIs DEF SaidOf
<1>2. CASE v.kind = "list"
  <2>1. \A k \in DOMAIN v.items : g[v.items[k]] = NoUsage
    BY <1>1, <1>2, HeldByIs
  <2>2. mergeUsageTotals(Along(v.items, g)) = NoUsage
    BY <2>1, MergedNone
  <2>3. QED
    BY <1>2, <2>2, TurnIs DEF OfItems, Along
<1>3. CASE v.kind = "object"
  <2>1. usageTotalsFromUsageObject(v) = NoUsage
    BY <1>3, BarrenIsNone DEF SaidOf
  <2>2. \A k \in DOMAIN v.nested : g[v.nested[k]] = NoUsage
    BY <1>1, <1>3, HeldByIs
  <2>3. Leads(v, g) = {}
    BY <2>2 DEF Leads
  <2>4. QED
    BY <1>3, <2>1, <2>3, TurnIs
<1>4. CASE v.kind # "list" /\ v.kind # "object"
  BY <1>4, TurnIs
<1>5. QED
  BY <1>2, <1>3, <1>4

LEMMA OutsideIsNone ==
  ASSUME NEW a, Admitted(a), NEW found, SaidOnce(a, found), NEW i \in DOMAIN a.values, i \notin found
  PROVE  usageTotalsFromValue(a.values)[i] = NoUsage
<1> PICK values, g, N : values = a.values /\ g = usageTotalsFromValue(a.values) /\ N = Len(a.values)
  OBVIOUS
<1>1. Held(values)
  BY DEF Admitted
<1>2. N \in Nat /\ DOMAIN values = 1..N /\ \A j \in 1..N : g[j] = Turn(values[j], g)
  BY <1>1, ValuesTurn
<1> DEFINE T == {n \in 0..N : \A j \in 1..n : j \notin found => g[j] = NoUsage}
<1>3. 0 \in T
  BY <1>2
<1>4. ASSUME NEW n \in 1..N, n - 1 \in T PROVE n \in T
  <2>1. \A j \in 1..(n - 1) : j \notin found => g[j] = NoUsage
    BY <1>4
  <2>2. /\ n - 1 \in Nat /\ n \in DOMAIN values /\ Counted(values[n]) /\ values[n].items \in Seq(1..(n - 1))
        /\ \A k \in DOMAIN values[n].nested : values[n].nested[k] \in 1..(n - 1)
    BY <1>1, <1>2, HeldAt
  <2>3. SaidOf(values[n], n, found)
    BY <2>2, SaidIn
  <2>4. n \notin found => Turn(values[n], g) = NoUsage
    BY <2>1, <2>2, <2>3, TurnOutside
  <2>5. \A j \in 1..n : j \notin found => g[j] = NoUsage
    <3> SUFFICES ASSUME NEW j \in 1..n, j \notin found PROVE g[j] = NoUsage
      OBVIOUS
    <3>1. CASE j = n
      BY <1>2, <2>4, <3>1
    <3>2. CASE j # n
      <4>1. j \in 1..(n - 1)
        BY <1>2, <3>2
      <4>2. QED
        BY <2>1, <4>1
    <3>3. QED
      BY <3>1, <3>2
  <2>6. QED
    BY <1>2, <2>5
<1>5. \A n \in 0..N : n \in T
  <2> HIDE DEF T
  <2>1. QED
    BY <1>2, <1>3, <1>4, AllUpTo
<1>6. N \in 0..N /\ i \in 1..N
  BY <1>2
<1>7. QED
  BY <1>5, <1>6

Told == {"input", "output", "total", "cached"}

CarriesOf(o, f) == IF f = "total" THEN Carries(o).input + Carries(o).output ELSE Carries(o)[f]

\* What a value carries itself
OwnOf(v, f) == IF v.kind = "object" THEN CarriesOf(v, f) ELSE 0

LEMMA CarriesOfIs ==
  ASSUME NEW o, Counted(o), NEW f \in Told
  PROVE  /\ CarriesOf(o, f) \in Nat
         /\ ~ Bears(o) => CarriesOf(o, f) = 0
         /\ \A totals : Tells(totals, o) => totals.n[f] = CarriesOf(o, f)
<1>1. CASE f = "input"
  <2>1. CarriesOf(o, f) = Carries(o).input
    BY <1>1 DEF CarriesOf
  <2>2. QED
    BY <1>1, <2>1, CarriesNatural DEF Tells
<1>2. CASE f = "output"
  <2>1. CarriesOf(o, f) = Carries(o).output
    BY <1>2 DEF CarriesOf
  <2>2. QED
    BY <1>2, <2>1, CarriesNatural DEF Tells
<1>3. CASE f = "total"
  <2>1. CarriesOf(o, f) = Carries(o).input + Carries(o).output
    BY <1>3 DEF CarriesOf
  <2>2. QED
    BY <1>3, <2>1, CarriesNatural DEF Tells
<1>4. CASE f = "cached"
  <2>1. CarriesOf(o, f) = Carries(o).cached
    BY <1>4 DEF CarriesOf
  <2>2. QED
    BY <1>4, <2>1, CarriesNatural DEF Tells
<1>5. QED
  BY <1>1, <1>2, <1>3, <1>4 DEF Told

\* Only the values in found have usage.
Found(n, totals, found) == \A i \in 1..n : totals[i] \in Totals /\ (i \notin found => totals[i] = NoUsage)

\* A value is worth what it carries and what those are worth that it holds.
LEMMA TurnFlows ==
  ASSUME NEW N \in Nat, NEW n \in Nat, n <= N, NEW v, NEW g, NEW i, NEW found, Counted(v), v.items \in Seq(1..n),
         \A k \in DOMAIN v.nested : v.nested[k] \in 1..n,
         Found(N, g, found),
         SaidOf(v, i, found), v.kind = "list" => IsInjective(v.items), v.kind = "object" => ByOneName(v),
         NEW f \in Told
  PROVE  Turn(v, g).n[f] = OwnOf(v, f) + Sum(N, Only(WorthIn(N, g, f), HeldBy(v)))
<1> DEFINE worth == WorthIn(N, g, f)
           below == Sum(N, Only(worth, HeldBy(v)))
<1>0. f \in Tokens /\ 1..n \subseteq 1..N /\ v.items \in Seq(1..N) /\ HeldBy(v) \subseteq 1..N
  <2>1. 1..n \subseteq 1..N
    OBVIOUS
  <2>2. HeldBy(v) \subseteq 1..N
    BY <2>1, HeldByIs
  <2>3. f \in Tokens
    BY DEF Told, Tokens
  <2>4. QED
    BY <2>1, <2>2, <2>3
<1>1. /\ worth \in [1..N -> Nat] /\ \A j \in 1..N : worth[j] = g[j].n[f]
      /\ \A j \in 1..N : j \notin found => worth[j] = 0
  <2>1. AllRead(N, g)
    BY DEF AllRead, Found
  <2>2. /\ WorthIn(N, g, f) \in [1..N -> Nat]
        /\ \A j \in 1..N : WorthIn(N, g, f)[j] = g[j].n[f]
        /\ \A j \in 1..N : g[j] = NoUsage => WorthIn(N, g, f)[j] = 0
    BY <1>0, <2>1, WorthInIs
  <2>3. QED
    BY <2>2 DEF Found
<1> HIDE DEF worth
<1>2. (\A j \in HeldBy(v) : j \notin found) => below = 0
  <2> SUFFICES ASSUME \A j \in HeldBy(v) : j \notin found PROVE below = 0
    OBVIOUS
  <2>1. \A j \in 1..N : Only(worth, HeldBy(v))[j] = 0
    BY <1>1 DEF Only
  <2>2. QED
    BY <2>1, SumOfNothing
<1>3. below \in Nat
  <2>1. HeldBy(v) \subseteq HeldBy(v)
    OBVIOUS
  <2>2. QED
    BY <1>1, <2>1, OnlyRises
<1>4. CASE v.kind = "list"
  <2>1. HeldBy(v) = ToSet(v.items) /\ OwnOf(v, f) = 0
    BY <1>4, HeldByIs DEF OwnOf
  <2>2. mergeUsageTotals(Along(v.items, g)).n[f] = Sum(N, Only(worth, ToSet(v.items)))
    <3>1. AllRead(N, g)
      BY DEF AllRead, Found
    <3>2. QED
      BY <1>0, <1>4, <3>1, MergedSays DEF worth
  <2>3. Turn(v, g) = mergeUsageTotals(Along(v.items, g))
    BY <1>4, TurnIs DEF OfItems, Along
  <2>4. QED
    BY <1>3, <2>1, <2>2, <2>3 DEF worth
<1>5. CASE v.kind = "object"
  <2> DEFINE own == usageTotalsFromUsageObject(v)
  <2>1. HeldBy(v) = {v.nested[k] : k \in DOMAIN v.nested} /\ OwnOf(v, f) = CarriesOf(v, f)
    BY <1>5, HeldByIs DEF OwnOf
  <2>2. own.n[f] = CarriesOf(v, f) /\ CarriesOf(v, f) \in Nat
    BY <1>5, ObjectTells, CarriesOfIs
  <2>3. /\ own # NoUsage => Turn(v, g) = own /\ Bears(v)
        /\ own = NoUsage => Turn(v, g) = IF Leads(v, g) = {} THEN NoUsage ELSE OfLead(v, g)
    BY <1>5, TurnIs, BarrenIsNone
  <2> HIDE DEF own
  <2>4. NoUsage.n[f] = 0
    BY <1>0 DEF NoUsage
  <2>5. \A k \in DOMAIN v.nested : v.nested[k] \in found =>
          /\ k \in ToSet(Further) /\ ~ Bears(v)
          /\ \A l \in DOMAIN v.nested : v.nested[l] \in found => k = l
    BY <1>5 DEF SaidOf
  <2>6. ASSUME own # NoUsage PROVE Turn(v, g).n[f] = OwnOf(v, f) + below
    <3>1. \A j \in HeldBy(v) : j \notin found
      BY <2>1, <2>3, <2>5, <2>6
    <3>2. below = 0
      BY <1>2, <3>1
    <3>3. QED
      BY <2>1, <2>2, <2>3, <2>6, <3>2
  <2>7. ASSUME own = NoUsage, Leads(v, g) = {} PROVE Turn(v, g).n[f] = OwnOf(v, f) + below
    <3>1. \A j \in HeldBy(v) : worth[j] = 0
      <4> SUFFICES ASSUME NEW k \in DOMAIN v.nested PROVE worth[v.nested[k]] = 0
        BY <2>1
      <4>1. v.nested[k] \in 1..N
        BY <1>0
      <4>2. CASE v.nested[k] \notin found
        BY <1>1, <4>1, <4>2
      <4>3. CASE v.nested[k] \in found
        <5>1. PICK x \in DOMAIN Further : Further[x] = k
          BY <2>5, <4>3 DEF ToSet
        <5>2. g[v.nested[k]] = NoUsage
          BY <2>7, <5>1 DEF Leads
        <5>3. QED
          BY <1>1, <2>4, <4>1, <5>2
      <4>4. QED
        BY <4>2, <4>3
    <3>2. \A j \in 1..N : Only(worth, HeldBy(v))[j] = 0
      BY <1>1, <3>1 DEF Only
    <3>3. below = 0
      BY <3>2, SumOfNothing
    <3>4. QED
      BY <2>1, <2>2, <2>3, <2>4, <2>7, <3>3
  <2>8. ASSUME own = NoUsage, Leads(v, g) # {} PROVE Turn(v, g).n[f] = OwnOf(v, f) + below
    <3> DEFINE k == Further[Min(Leads(v, g))]
               x == v.nested[k]
    <3>1. k \in DOMAIN v.nested
      BY <2>8, LeadsLead
    <3>2. x \in 1..N /\ x \in HeldBy(v) /\ g[x] # NoUsage /\ Turn(v, g) = g[x]
      <4>1. Leads(v, g) \in SUBSET Nat
        BY DEF Leads, Further
      <4>2. Min(Leads(v, g)) \in Leads(v, g)
        BY <2>8, <4>1, MinIsLeast
      <4>3. g[x] # NoUsage
        BY <4>2 DEF Leads
      <4>4. Turn(v, g) = g[x]
        BY <2>3, <2>8 DEF OfLead
      <4>5. QED
        BY <1>0, <2>1, <3>1, <4>3, <4>4
    <3>3. x \in found
      BY <3>2 DEF Found
    <3>4. \A l \in DOMAIN v.nested : v.nested[l] \in found => l = k
      BY <2>5, <3>1, <3>3
    <3> HIDE DEF k
    <3>5. Alone(N, worth, HeldBy(v), x)
      BY <1>1, <2>1, <3>2, <3>4 DEF Alone
    <3> HIDE DEF x
    <3>6. below = worth[x]
      BY <1>1, <3>2, <3>5, SumOfOne
    <3>7. QED
      BY <1>1, <1>3, <2>1, <2>2, <2>4, <2>8, <3>2, <3>6
  <2>9. QED
    BY <2>6, <2>7, <2>8 DEF worth
<1>6. CASE v.kind # "list" /\ v.kind # "object"
  <2>1. Turn(v, g) = NoUsage
    BY <1>6, TurnIs
  <2>2. HeldBy(v) = {} /\ OwnOf(v, f) = 0
    BY <1>6, HeldByIs DEF OwnOf
  <2>3. below = 0
    BY <1>2, <2>2
  <2>4. NoUsage.n[f] = 0
    BY <1>0 DEF NoUsage
  <2>5. QED
    BY <2>1, <2>2, <2>3, <2>4 DEF worth
<1>7. QED
  BY <1>4, <1>5, <1>6

\* What the values of an answer carry themselves, and what its answer is said to
OwnIn(values, f) == [i \in DOMAIN values |-> OwnOf(values[i], f)]

LEMMA CarriedIs ==
  ASSUME NEW a, Admitted(a), Orderly(a)
  PROVE  /\ \A f \in Told : Sum(Len(a.values), OwnIn(a.values, f)) \in Nat
         /\ a.says.input = Sum(Len(a.values), OwnIn(a.values, "input")) + CarriesOf(a.headers, "input")
         /\ a.says.output = Sum(Len(a.values), OwnIn(a.values, "output")) + CarriesOf(a.headers, "output")
         /\ a.says.cached = Sum(Len(a.values), OwnIn(a.values, "cached")) + CarriesOf(a.headers, "cached")
         /\ a.says.input + a.says.output = Sum(Len(a.values), OwnIn(a.values, "total")) + CarriesOf(a.headers, "total")
<1> PICK values, N : values = a.values /\ N = Len(a.values)
  OBVIOUS
<1>1. /\ N \in Nat /\ DOMAIN values = 1..N
      /\ \A i \in 1..N : Counted(values[i])
      /\ Counted(a.headers)
  BY ValuesTurn DEF Admitted, Held
<1>2. \A f \in Told : \A i \in 1..N : OwnIn(values, f)[i] \in Nat /\ OwnIn(values, f)[i] = OwnOf(values[i], f)
  BY <1>1, CarriesOfIs DEF OwnIn, OwnOf
<1>3. \A f \in Told : Sum(N, OwnIn(values, f)) \in Nat /\ CarriesOf(a.headers, f) \in Nat
  <2> SUFFICES ASSUME NEW f \in Told PROVE Sum(N, OwnIn(values, f)) \in Nat /\ CarriesOf(a.headers, f) \in Nat
    OBVIOUS
  <2>1. \A i \in 1..N : OwnIn(values, f)[i] \in Nat
    BY <1>2
  <2>2. N \in 0..N
    BY <1>1
  <2>3. QED
    BY <1>1, <2>1, <2>2, SumOfNaturals, CarriesOfIs
<1>4. ASSUME NEW f \in {"input", "output", "cached"}
      PROVE  a.says[f] = Sum(N, OwnIn(values, f)) + CarriesOf(a.headers, f)
  <2>1. f # "total"
    OBVIOUS
  <2>2. OwnIn(values, f) = [i \in DOMAIN values |-> IF values[i].kind = "object" THEN Carries(values[i])[f] ELSE 0]
    BY <2>1 DEF OwnIn, OwnOf, CarriesOf
  <2>3. a.says[f] = Carried(a, f)
    BY DEF Orderly
  <2>4. Carried(a, f) = Sum(N, OwnIn(values, f)) + Carries(a.headers)[f]
    BY <2>2, Zenon DEF Carried
  <2>5. QED
    BY <2>1, <2>3, <2>4 DEF CarriesOf
<1>5. /\ a.says.input = Sum(N, OwnIn(values, "input")) + CarriesOf(a.headers, "input")
      /\ a.says.output = Sum(N, OwnIn(values, "output")) + CarriesOf(a.headers, "output")
      /\ a.says.cached = Sum(N, OwnIn(values, "cached")) + CarriesOf(a.headers, "cached")
  BY <1>4
<1>6. "input" \in Told /\ "output" \in Told /\ "total" \in Told
  BY DEF Told
<1>7. Sum(N, OwnIn(values, "total")) = Sum(N, OwnIn(values, "input")) + Sum(N, OwnIn(values, "output"))
  <2>1. ASSUME NEW i \in 1..N
        PROVE  OwnIn(values, "total")[i] = OwnIn(values, "input")[i] + OwnIn(values, "output")[i]
    <3>1. OwnOf(values[i], "total") = OwnOf(values[i], "input") + OwnOf(values[i], "output")
      BY DEF OwnOf, CarriesOf
    <3>2. QED
      BY <1>2, <1>6, <3>1
  <2>2. Together(N, OwnIn(values, "input"), OwnIn(values, "output"), OwnIn(values, "total"))
    BY <1>2, <1>6, <2>1 DEF Together
  <2>3. QED
    BY <1>1, <2>2, SumTogether
<1>8. CarriesOf(a.headers, "total") = CarriesOf(a.headers, "input") + CarriesOf(a.headers, "output")
  BY DEF CarriesOf
<1>9. QED
  BY <1>3, <1>5, <1>6, <1>7, <1>8

\* What was found in the body or in the lines is what all values carry.
LEMMA RootsHaveAll ==
  ASSUME NEW a, Admitted(a), Orderly(a), NEW found \in SUBSET DOMAIN a.values, SaidOnce(a, found), NEW f \in Told,
         NEW N, N = Len(a.values), NEW g, g = usageTotalsFromValue(a.values)
  PROVE  /\ N \in Nat /\ DOMAIN a.values = 1..N
         /\ Found(N, g, found)
         /\ Sum(N, OwnIn(a.values, f)) = Sum(N, Only(WorthIn(N, g, f), ToSet(a.lines) \union {a.body}))
<1> DEFINE worth == WorthIn(N, g, f)
           held  == [i \in 1..N |-> HeldBy(a.values[i])]
           own   == OwnIn(a.values, f)
           below == UNION {held[i] : i \in 1..N}
           roots == ToSet(a.lines) \union {a.body}
<1>1. /\ N \in Nat /\ DOMAIN a.values = 1..N
      /\ \A i \in 1..N : g[i] = Turn(a.values[i], g) /\ g[i] \in Totals
  BY ValuesTurn DEF Admitted
<1>2. \A i \in 1..N : i \notin found => g[i] = NoUsage
  BY <1>1, OutsideIsNone
<1>3. f \in Tokens
  BY DEF Told, Tokens
<1>4. worth \in [1..N -> Nat] /\ \A i \in 1..N : worth[i] = g[i].n[f] /\ (i \notin found => worth[i] = 0)
  <2>1. AllRead(N, g)
    BY <1>1 DEF AllRead
  <2>2. /\ WorthIn(N, g, f) \in [1..N -> Nat]
        /\ \A j \in 1..N : WorthIn(N, g, f)[j] = g[j].n[f]
        /\ \A j \in 1..N : g[j] = NoUsage => WorthIn(N, g, f)[j] = 0
    BY <1>1, <1>3, <2>1, WorthInIs
  <2>3. QED
    BY <1>2, <2>2
<1>5. ASSUME NEW i \in 1..N
      PROVE  /\ held[i] \subseteq 1..N
             /\ worth[i] = own[i] + Sum(N, Only(worth, held[i]))
             /\ own[i] \in Nat
  <2> PICK n, v : n = i - 1 /\ v = a.values[i]
    OBVIOUS
  <2>1. /\ n \in Nat /\ Counted(v) /\ v.items \in Seq(1..n)
        /\ \A k \in DOMAIN v.nested : v.nested[k] \in 1..n
    BY <1>1, HeldAt DEF Admitted
  <2>2. SaidOf(v, i, found)
    BY <1>1, SaidIn
  <2>3. /\ v.kind = "list" => IsInjective(v.items)
        /\ v.kind = "object" => ByOneName(v)
    BY <1>1 DEF Orderly, InOnePlace
  <2>4. Found(N, g, found)
    BY <1>1, <1>2 DEF Found
  <2>5. n <= N
    BY <1>1
  <2>6. Turn(v, g).n[f] = OwnOf(v, f) + Sum(N, Only(WorthIn(N, g, f), HeldBy(v)))
    BY <1>1, <2>1, <2>2, <2>3, <2>4, <2>5, TurnFlows
  <2>7. HeldBy(v) \subseteq 1..N
    <3>1. HeldBy(v) \subseteq 1..n
      BY <2>1, HeldByIs
    <3>2. QED
      BY <1>1, <3>1
  <2>8. own[i] = OwnOf(v, f) /\ OwnOf(v, f) \in Nat
    BY <1>1, <2>1, CarriesOfIs DEF OwnIn, OwnOf
  <2>9. held[i] = HeldBy(v) /\ worth[i] = Turn(v, g).n[f]
    BY <1>1, <1>4
  <2> HIDE DEF own, held
  <2>10. QED
    BY <2>6, <2>7, <2>8, <2>9
<1>6. \A i, j \in 1..N : i # j => held[i] \intersect held[j] = {}
  BY <1>1 DEF Orderly, InOnePlace
<1>7. \A i \in 1..N : held[i] \intersect roots = {}
  BY <1>1 DEF Orderly, InOnePlace
<1>8. found \subseteq roots \union below
  <2>1. {held[i] : i \in 1..N} = {HeldBy(a.values[i]) : i \in DOMAIN a.values}
    BY <1>1
  <2> HIDE DEF held
  <2>2. QED
    BY <2>1 DEF SaidOnce
<1>9. held \in [1..N -> SUBSET (1..N)]
  BY <1>5
<1> HIDE DEF worth, held, own, roots
<1>10. Flows(N, worth, own, held)
  BY <1>5, <1>6, <1>9 DEF Flows
<1>11. Sum(N, Only(worth, (1..N) \ below)) = Sum(N, own)
  BY <1>1, <1>4, <1>5, <1>10, Conserved
<1>12. Alike(N, worth, (1..N) \ below, roots)
  <2>1. \A i \in below : i \notin roots
    BY <1>7
  <2>2. QED
    BY <1>4, <1>8, <2>1 DEF Alike
<1>13. Sum(N, Only(worth, (1..N) \ below)) = Sum(N, Only(worth, roots))
  <2> PICK rest : rest = (1..N) \ below
    OBVIOUS
  <2>1. N \in Nat /\ worth \in [1..N -> Nat] /\ Alike(N, worth, rest, roots)
    BY <1>1, <1>4, <1>12
  <2>2. Sum(N, Only(worth, rest)) = Sum(N, Only(worth, roots))
    BY <2>1, OnlySame
  <2>3. QED
    BY <2>2
<1>14. QED
  BY <1>1, <1>2, <1>11, <1>13 DEF worth, own, roots, Found

\* What is parsed is what the values and the headers carry together.
LEMMA ParsedTells ==
  ASSUME NEW a, Admitted(a), Orderly(a), NEW f \in Told
  PROVE  parseUsageObservation(a).n[f] = Sum(Len(a.values), OwnIn(a.values, f)) + CarriesOf(a.headers, f)
<1> PICK found \in SUBSET DOMAIN a.values : SaidOnce(a, found)
  BY DEF Orderly
<1> PICK N, g : N = Len(a.values) /\ g = usageTotalsFromValue(a.values)
  OBVIOUS
<1> DEFINE worth  == WorthIn(N, g, f)
           lines  == ToSet(a.lines)
           merged == mergeUsageTotals(Along(a.lines, g))
           header == Completed([t \in Tokens |-> Number(a.headers, t)], a.headers.hit)
           all    == Sum(N, OwnIn(a.values, f))
           parsed == parseUsageObservation(a)
<1>1. /\ N \in Nat /\ DOMAIN a.values = 1..N /\ Found(N, g, found)
      /\ all = Sum(N, Only(worth, lines \union {a.body}))
  BY RootsHaveAll
<1>2. f \in Tokens /\ AllRead(N, g)
  BY <1>1 DEF Told, Tokens, AllRead, Found
<1>3. /\ a.body \in 1..N /\ a.lines \in Seq(1..N) /\ Counted(a.headers)
      /\ IsInjective(a.lines) /\ \A k \in DOMAIN a.lines : a.lines[k] \in lines /\ a.lines[k] \in 1..N
  <2>1. a.body \in 1..N /\ a.lines \in Seq(1..N) /\ Counted(a.headers)
    BY <1>1 DEF Admitted
  <2>2. \A k \in DOMAIN a.lines : a.lines[k] \in 1..N
    BY <2>1
  <2>3. IsInjective(a.lines)
    BY DEF Orderly, InOnePlace
  <2>4. QED
    BY <2>1, <2>2, <2>3 DEF ToSet
<1>4. /\ worth \in [1..N -> Nat] /\ \A i \in 1..N : worth[i] = g[i].n[f]
      /\ \A i \in 1..N : i \notin found => worth[i] = 0
  <2>1. /\ worth \in [1..N -> Nat] /\ \A i \in 1..N : worth[i] = g[i].n[f]
        /\ \A i \in 1..N : g[i] = NoUsage => worth[i] = 0
    BY <1>1, <1>2, WorthInIs
  <2>2. QED
    BY <1>1, <2>1 DEF Found
<1>5. header.n[f] = CarriesOf(a.headers, f) /\ CarriesOf(a.headers, f) \in Nat
  <2>1. Tells(header, a.headers)
    BY <1>3, HeadersTell DEF Orderly
  <2> HIDE DEF header
  <2>2. QED
    BY <1>3, <2>1, CarriesOfIs
<1>6. found # {} => CarriesOf(a.headers, f) = 0
  BY <1>3, CarriesOfIs DEF SaidOnce
<1>7. /\ g[a.body] # NoUsage => parsed = g[a.body]
      /\ g[a.body] = NoUsage /\ merged # NoUsage => parsed = merged
      /\ g[a.body] = NoUsage /\ merged = NoUsage => parsed = header
  BY Zenon DEF parseUsageObservation, Along
<1>8. (\A k \in DOMAIN a.lines : a.lines[k] \notin found) => merged = NoUsage
  <2> SUFFICES ASSUME \A k \in DOMAIN a.lines : a.lines[k] \notin found PROVE merged = NoUsage
    OBVIOUS
  <2>1. \A k \in DOMAIN a.lines : g[a.lines[k]] = NoUsage
    BY <1>1, <1>3 DEF Found
  <2>2. QED
    BY <1>1, <1>3, <2>1, MergedNone
<1>9. merged.n[f] = Sum(N, Only(worth, lines))
  BY <1>1, <1>2, <1>3, MergedSays
<1>10. NoUsage.n[f] = 0
  BY <1>2 DEF NoUsage
<1> HIDE DEF worth, lines, merged, header, all, parsed
<1>11. CASE a.body \in found
  <2>1. \A k \in lines : k \notin found
    BY <1>11 DEF SaidOnce, lines
  <2>2. merged = NoUsage
    BY <1>3, <1>8, <2>1
  <2>3. all = worth[a.body]
    <3> PICK roots, x : roots = lines \union {a.body} /\ x = a.body
      OBVIOUS
    <3>1. N \in Nat /\ worth \in [1..N -> Nat] /\ x \in 1..N
      BY <1>1, <1>3, <1>4
    <3>2. Alone(N, worth, roots, x)
      BY <1>4, <2>1 DEF Alone
    <3>3. Sum(N, Only(worth, roots)) = worth[x]
      BY <3>1, <3>2, SumOfOne
    <3>4. QED
      BY <1>1, <3>3
  <2>4. worth[a.body] = g[a.body].n[f] /\ worth[a.body] \in Nat
    BY <1>3, <1>4
  <2>5. CarriesOf(a.headers, f) = 0
    BY <1>6, <1>11
  <2>6. CASE g[a.body] # NoUsage
    BY <1>7, <2>3, <2>4, <2>5, <2>6 DEF all, parsed
  <2>7. CASE g[a.body] = NoUsage
    <3>1. parsed.n[f] = CarriesOf(a.headers, f)
      BY <1>5, <1>7, <2>2, <2>7
    <3>2. all = 0
      BY <1>10, <2>3, <2>4, <2>7
    <3>3. QED
      BY <2>5, <3>1, <3>2 DEF all, parsed
  <2>8. QED
    BY <2>6, <2>7
<1>12. CASE a.body \notin found
  <2>1. g[a.body] = NoUsage /\ worth[a.body] = 0
    BY <1>1, <1>3, <1>4, <1>12 DEF Found
  <2>2. all = merged.n[f]
    <3> PICK roots : roots = lines \union {a.body}
      OBVIOUS
    <3>1. Alike(N, worth, roots, lines)
      BY <2>1 DEF Alike
    <3>2. Sum(N, Only(worth, roots)) = Sum(N, Only(worth, lines))
      BY <1>1, <1>4, <3>1, OnlySame
    <3>3. QED
      BY <1>1, <1>9, <3>2
  <2>3. Sum(N, Only(worth, lines)) \in Nat
    <3>1. lines \subseteq lines
      OBVIOUS
    <3>2. QED
      BY <1>1, <1>4, <3>1, OnlyRises
  <2>4. CASE merged # NoUsage
    <3>1. found # {}
      BY <1>8, <2>4
    <3>2. QED
      BY <1>6, <1>7, <1>9, <2>1, <2>2, <2>3, <2>4, <3>1 DEF all, parsed
  <2>5. CASE merged = NoUsage
    <3>1. parsed.n[f] = CarriesOf(a.headers, f)
      BY <1>5, <1>7, <2>1, <2>5
    <3>2. all = 0
      BY <1>10, <2>2, <2>5
    <3>3. QED
      BY <1>5, <3>1, <3>2 DEF all, parsed
  <2>6. QED
    BY <2>4, <2>5
<1>13. QED
  BY <1>11, <1>12

\* A record has the tokens its answer carried.
AsCarried(r) ==
  /\ r.totals.n["input"] = r.says.input /\ r.totals.n["output"] = r.says.output
  /\ r.totals.n["total"] = r.says.input + r.says.output /\ r.totals.n["cached"] = r.says.cached

LEMMA RecordTells ==
  ASSUME NEW a, Admitted(a), Orderly(a)
  PROVE  AsCarried(Record(a))
<1>1. Record(a).totals = parseUsageObservation(a) /\ Record(a).says = a.says
  BY DEF Record
<1>2. "input" \in Told /\ "output" \in Told /\ "total" \in Told /\ "cached" \in Told
  BY DEF Told
<1>3. \A f \in Told :
        parseUsageObservation(a).n[f] = Sum(Len(a.values), OwnIn(a.values, f)) + CarriesOf(a.headers, f)
  BY ParsedTells
<1>4. /\ Record(a).totals.n["input"] = Record(a).says.input
      /\ Record(a).totals.n["output"] = Record(a).says.output
      /\ Record(a).totals.n["cached"] = Record(a).says.cached
      /\ Record(a).totals.n["total"] = Record(a).says.input + Record(a).says.output
  BY <1>1, <1>2, <1>3, CarriedIs
<1>5. QED
  BY <1>4 DEF AsCarried

-----------------------------------------------------------------------------
(* The theorems                                                            *)

\* The records in memory are a list the pages are made for.
LEMMA RecordsListed == TypeOK /\ KeptInOrder => records \in Lists
<1> SUFFICES ASSUME TypeOK, KeptInOrder PROVE records \in Lists
  OBVIOUS
<1>1. records \in Seq(1..observed) /\ Len(records) <= MaxRecords /\ observed \in 0..MaxObservations
  BY DEF TypeOK
<1>2. PICK m : m = Len(records)
  OBVIOUS
<1>3. m \in 0..MaxRecords /\ records \in [1..m -> 1..MaxObservations]
  <2>1. m \in Nat /\ records \in [1..m -> 1..observed]
    BY <1>1, <1>2
  <2>2. \A i \in 1..observed : i \in 1..MaxObservations
    BY <1>1, UsageAssumption
  <2>3. QED
    BY <1>1, <1>2, <2>1, <2>2, UsageAssumption
<1>4. records \in BoundedSeq(1..MaxObservations, MaxRecords)
  BY <1>3 DEF BoundedSeq, SeqOf
<1>5. Increasing(records)
  BY DEF KeptInOrder
<1>6. QED
  BY <1>4, <1>5 DEF Lists

LEMMA NoneMiscounted == Miscounted = {}
<1>1. \A p \in Pages : AddsUp(p.data)
  BY PageAddsUp DEF Pages
<1>2. QED
  BY <1>1 DEF Miscounted

LEMMA NoneMistimed == Mistimed = {}
<1>1. \A p \in Pages : InTime(p.list, p.data)
  BY PageInTime DEF Pages
<1>2. QED
  BY <1>1 DEF Mistimed

\* Buckets, models and sources each account for every request and token of the
\* summary, once, and no share exceeds the whole (usageDashboardData), whatever
\* answers were recorded and whichever of the records are left.
THEOREM TotalsAddUpHolds == Spec => []TotalsAddUp
<1>1. TypeOK /\ KeptInOrder => TotalsAddUp
  BY RecordsListed, NoneMiscounted DEF TotalsAddUp
<1>2. QED
  BY <1>1, TypeCorrect, OrderKept, PTL

\* No record of a bucket is later than one of the next bucket, if the records
\* are of one year (usageBucketLabel, groupUsageBuckets).
THEOREM BucketsInTimeHolds == Spec => []BucketsInTime
<1>1. TypeOK /\ KeptInOrder => BucketsInTime
  BY RecordsListed, NoneMistimed DEF BucketsInTime
<1>2. QED
  BY <1>1, TypeCorrect, OrderKept, PTL

\* The tokens of a record are those its answer carried, however they were said
\* (parseUsageObservation), if every answer said them once, each value in one
\* place and each object under one set of names.
THEOREM TokensAsCarriedHolds == (\A a \in ToSet(Answers) : Orderly(a)) => (Spec => []TokensAsCarried)
<1> SUFFICES ASSUME \A a \in ToSet(Answers) : Orderly(a) PROVE Spec => []TokensAsCarried
  OBVIOUS
<1>1. \A r \in RecordsOf(Answers) : AsCarried(r)
  <2> SUFFICES ASSUME NEW i \in DOMAIN Answers PROVE AsCarried(Record(Answers[i]))
    BY DEF RecordsOf
  <2>1. Answers[i] \in ToSet(Answers)
    BY DEF ToSet
  <2>2. Admitted(Answers[i])
    BY <2>1, AnswersAssumption DEF Admitted, Held
  <2>3. QED
    BY <2>1, <2>2, RecordTells
<1>2. \A i \in 1..Len(Observations) : AsCarried(Observations[i])
  BY <1>1, ObservationsAre
<1>3. TypeOK => TokensAsCarried
  <2> SUFFICES ASSUME TypeOK, NEW i \in ToSet(records) PROVE AsCarried(Observations[i])
    BY DEF TokensAsCarried, AsCarried
  <2>1. records \in Seq(1..observed) /\ observed \in 0..MaxObservations
    BY DEF TypeOK
  <2>2. i \in 1..observed
    BY <2>1 DEF ToSet
  <2>3. i \in 1..Len(Observations)
    BY <2>1, <2>2, UsageAssumption, ReportAssumption, ObservationsAre
  <2>4. QED
    BY <1>2, <2>3
<1>4. QED
  BY <1>3, TypeCorrect, PTL
=============================================================================
