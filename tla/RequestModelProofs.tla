-------------------------- MODULE RequestModelProofs --------------------------
(***************************************************************************)
(* More theorems about RequestPath: what becomes of the model and the      *)
(* effort a client asks for, under whatever prefixes of whatever           *)
(* configurations are taken off on the way.                                *)
(***************************************************************************)
EXTENDS RequestPathProofs

-----------------------------------------------------------------------------
(* What is left of a model                                                 *)

\* What is left of a text when parts of it that end with a slash are cut off
\* in front
IsCut(t, s) ==
  \E k \in 0..Len(s) : (k = 0 \/ s[k] = "/") /\ t = SubSeq(s, k + 1, Len(s))

LEMMA CutIsText ==
  ASSUME NEW S, NEW s \in Seq(S), NEW k \in 0..Len(s)
  PROVE  LET t == SubSeq(s, k + 1, Len(s))
         IN  t \in Seq(S) /\ Len(t) = Len(s) - k /\ \A i \in 1..Len(t) : t[i] = s[k + i]
<1> DEFINE t == SubSeq(s, k + 1, Len(s))
<1>1. Len(s) \in Nat /\ \A i \in (k + 1)..Len(s) : s[i] \in S
  OBVIOUS
<1>2. t \in Seq(S) /\ Len(t) = IF k + 1 <= Len(s) THEN Len(s) - (k + 1) + 1 ELSE 0
  BY <1>1, SubSeqProperties
<1>3. \A i \in 1..(Len(s) - (k + 1) + 1) : t[i] = s[(k + 1) + i - 1]
  BY <1>1, SubSeqProperties
<1>4. Len(t) = Len(s) - k
  BY <1>1, <1>2
<1>5. \A i \in 1..Len(t) : t[i] = s[k + i]
  BY <1>1, <1>3, <1>4
<1>6. QED
  BY <1>2, <1>4, <1>5

\* What is cut off a text twice could be cut off at once.
LEMMA CutOfCut ==
  ASSUME NEW S, NEW s \in Seq(S), NEW t, NEW u, IsCut(t, s), IsCut(u, t)
  PROVE  t \in Seq(S) /\ IsCut(u, s)
<1>1. PICK k \in 0..Len(s) : (k = 0 \/ s[k] = "/") /\ t = SubSeq(s, k + 1, Len(s))
  BY DEF IsCut
<1>2. t \in Seq(S) /\ Len(t) = Len(s) - k /\ \A i \in 1..Len(t) : t[i] = s[k + i]
  BY <1>1, CutIsText
<1>3. PICK l \in 0..Len(t) : (l = 0 \/ t[l] = "/") /\ u = SubSeq(t, l + 1, Len(t))
  BY DEF IsCut
<1>4. u \in Seq(S) /\ Len(u) = Len(t) - l /\ \A i \in 1..Len(u) : u[i] = t[l + i]
  BY <1>2, <1>3, CutIsText
<1>5. Len(s) \in Nat /\ k + l \in 0..Len(s)
  BY <1>2
<1> DEFINE v == SubSeq(s, (k + l) + 1, Len(s))
<1>6. v \in Seq(S) /\ Len(v) = Len(s) - (k + l) /\ \A i \in 1..Len(v) : v[i] = s[(k + l) + i]
  BY <1>5, CutIsText
<1> HIDE DEF v
<1>7. u = v
  <2>1. Len(u) = Len(v)
    BY <1>2, <1>4, <1>5, <1>6
  <2>2. \A i \in 1..Len(u) : u[i] = v[i]
    BY <1>2, <1>4, <1>5, <1>6
  <2>3. QED
    BY <1>4, <1>6, <2>1, <2>2, SeqEqual
<1>8. k + l = 0 \/ s[k + l] = "/"
  BY <1>1, <1>2, <1>3, <1>5
<1>9. QED
  BY <1>2, <1>5, <1>7, <1>8 DEF IsCut, v

\* Of two cuts of one text one ends with the other.
LEMMA CutsAgree ==
  ASSUME NEW S, NEW s \in Seq(S), NEW t, NEW u, IsCut(t, s), IsCut(u, s)
  PROVE  IsSuffix(t, u) \/ IsSuffix(u, t)
<1>1. ASSUME NEW k \in 0..Len(s), NEW l \in 0..Len(s), k <= l
      PROVE  IsSuffix(SubSeq(s, l + 1, Len(s)), SubSeq(s, k + 1, Len(s)))
  <2> DEFINE a == SubSeq(s, k + 1, Len(s))  b == SubSeq(s, l + 1, Len(s))
  <2>1. a \in Seq(S) /\ Len(a) = Len(s) - k /\ \A i \in 1..Len(a) : a[i] = s[k + i]
    BY CutIsText
  <2>2. b \in Seq(S) /\ Len(b) = Len(s) - l /\ \A i \in 1..Len(b) : b[i] = s[l + i]
    BY CutIsText
  <2>3. Len(s) \in Nat
    OBVIOUS
  <2> HIDE DEF a, b
  <2> DEFINE ra == Reverse(a)  rb == Reverse(b)
  <2>4. /\ ra \in Seq(S) /\ Len(ra) = Len(a)
        /\ \A i \in 1..Len(a) : ra[i] = a[Len(a) - i + 1]
    BY <2>1 DEF Reverse
  <2>5. /\ rb \in Seq(S) /\ Len(rb) = Len(b)
        /\ \A i \in 1..Len(b) : rb[i] = b[Len(b) - i + 1]
    BY <2>2 DEF Reverse
  <2>6. \A i \in 1..Len(rb) : rb[i] = ra[i]
    <3> SUFFICES ASSUME NEW i \in 1..Len(rb) PROVE rb[i] = ra[i]
      OBVIOUS
    <3> DEFINE j == Len(b) - i + 1  m == Len(a) - i + 1
    <3>1. /\ Len(a) \in Nat /\ Len(b) \in Nat /\ Len(rb) = Len(b) /\ Len(b) <= Len(a)
          /\ k + m = l + j
      BY <1>1, <2>1, <2>2, <2>3, <2>5
    <3>2. i \in 1..Len(b) /\ i \in 1..Len(a) /\ j \in 1..Len(b) /\ m \in 1..Len(a)
      BY <3>1
    <3>3. rb[i] = b[j] /\ ra[i] = a[m]
      BY <2>4, <2>5, <3>2
    <3> HIDE DEF j, m
    <3>4. b[j] = s[l + j] /\ a[m] = s[k + m]
      BY <2>1, <2>2, <3>2
    <3>5. QED
      BY <3>1, <3>3, <3>4
  <2> HIDE DEF ra, rb
  <2>7. Len(rb) <= Len(ra)
    BY <1>1, <2>1, <2>2, <2>3, <2>4, <2>5
  <2>8. SubSeq(rb, 1, Len(rb)) = SubSeq(ra, 1, Len(rb))
    BY <2>4, <2>5, <2>6, <2>7
  <2>9. IsPrefix(rb, ra)
    BY <2>7, <2>8 DEF IsPrefix
  <2>10. QED
    BY <2>9 DEF IsSuffix, ra, rb, a, b
<1>2. PICK k \in 0..Len(s) : t = SubSeq(s, k + 1, Len(s))
  BY DEF IsCut
<1>3. PICK l \in 0..Len(s) : u = SubSeq(s, l + 1, Len(s))
  BY DEF IsCut
<1>4. k <= l \/ l <= k
  OBVIOUS
<1>5. QED
  BY <1>1, <1>2, <1>3, <1>4

\* Whatever prefix is looked for, the rest is a cut.
LEMMA StripCuts ==
  ASSUME NEW S, NEW s \in Seq(S), NEW T, NEW prefix \in Seq(T)
  PROVE  stripModelPrefix(s, prefix) \in Seq(S) /\ IsCut(stripModelPrefix(s, prefix), s)
<1> DEFINE p == Append(TrimSlash(prefix), "/")
<1>1. CASE stripModelPrefix(s, prefix) = s
  <2>1. 0 \in 0..Len(s) /\ SubSeq(s, 0 + 1, Len(s)) = s
    BY SubSeqFull
  <2>2. QED
    BY <1>1, <2>1 DEF IsCut
<1>2. CASE stripModelPrefix(s, prefix) # s
  <2>1. StartsWith(s, p) /\ stripModelPrefix(s, prefix) = SubSeq(s, Len(p) + 1, Len(s))
    BY <1>2 DEF stripModelPrefix
  <2>2. TrimSlash(prefix) \in Seq(T)
    <3>1. CASE TrimSlash(prefix) = prefix
      BY <3>1
    <3>2. CASE TrimSlash(prefix) # prefix
      <4>1. TrimSlash(prefix) = SubSeq(prefix, 1, Len(prefix) - 1)
        BY <3>2 DEF TrimSlash, Front
      <4>2. Len(prefix) \in Nat /\ \A i \in 1..(Len(prefix) - 1) : prefix[i] \in T
        OBVIOUS
      <4>3. QED
        BY <4>1, <4>2, SubSeqProperties
    <3>3. QED
      BY <3>1, <3>2
  <2> DEFINE q == TrimSlash(prefix)  U == T \cup {"/"}
  <2>3. q \in Seq(U)
    BY <2>2, SeqMonotonic
  <2>4. p \in Seq(U) /\ Len(p) = Len(q) + 1 /\ p[Len(q) + 1] = "/"
    <3> HIDE DEF q
    <3>1. "/" \in U
      OBVIOUS
    <3>2. Append(q, "/") \in Seq(U) /\ Len(Append(q, "/")) = Len(q) + 1
          /\ Append(q, "/")[Len(q) + 1] = "/"
      BY <2>3, <3>1, AppendProperties
    <3>3. QED
      BY <3>2 DEF q
  <2> HIDE DEF p, q
  <2>5. Len(p) <= Len(s) /\ SubSeq(p, 1, Len(p)) = SubSeq(s, 1, Len(p))
    BY <2>1 DEF StartsWith, IsPrefix
  <2>6. Len(p) \in Nat \ {0} /\ Len(q) \in Nat /\ Len(s) \in Nat
    BY <2>3, <2>4
  <2>7. p[Len(p)] = s[Len(p)]
    <3> DEFINE a == SubSeq(p, 1, Len(p))  b == SubSeq(s, 1, Len(p))
    <3>1. a[Len(p)] = p[Len(p)]
      BY <2>4, SubSeqFull
    <3>2. b[Len(p)] = s[Len(p)]
      BY <2>5, <2>6
    <3>3. a = b
      BY <2>5
    <3> HIDE DEF a, b
    <3>4. QED
      BY <3>1, <3>2, <3>3
  <2>8. s[Len(p)] = "/" /\ Len(p) \in 0..Len(s)
    BY <2>4, <2>5, <2>6, <2>7
  <2>9. SubSeq(s, Len(p) + 1, Len(s)) \in Seq(S)
    BY <2>8, CutIsText
  <2>10. QED
    BY <2>1, <2>8, <2>9 DEF IsCut
<1>3. QED
  BY <1>1, <1>2

-----------------------------------------------------------------------------
(* Efforts                                                                 *)

\* A level in parentheses comes last, after something.
HasEffort(m) ==
  /\ Len(m) > 3 /\ m[Len(m)] = ")" /\ m[Len(m) - 2] = "(" /\ m[Len(m) - 1] \in Levels

EffortAt(level) == IF level = "off" THEN "none" ELSE level
IsNone(effort)  == effort = ""

LEMMA EffortSplit ==
  ASSUME NEW m
  PROVE  LET named == normalizeThinkingModelName(m)
         IN  /\ HasEffort(m) => /\ named.model = SubSeq(m, 1, Len(m) - 3)
                                /\ named.effort = EffortAt(m[Len(m) - 1])
                                /\ ~ IsNone(named.effort)
             /\ ~ HasEffort(m) => named.model = m /\ IsNone(named.effort)
<1>1. \A level \in Levels : ~ IsNone(EffortAt(level))
  BY DEF Levels, EffortAt, IsNone
<1>2. CASE HasEffort(m)
  <2>1. normalizeThinkingModelName(m)
          = [model |-> SubSeq(m, 1, Len(m) - 3), effort |-> EffortAt(m[Len(m) - 1])]
    BY <1>2 DEF normalizeThinkingModelName, HasEffort, EffortAt
  <2>2. m[Len(m) - 1] \in Levels
    BY <1>2 DEF HasEffort
  <2>3. QED
    BY <1>1, <1>2, <2>1, <2>2
<1>3. CASE ~ HasEffort(m)
  <2> DEFINE none == ""
  <2>1. normalizeThinkingModelName(m) = [model |-> m, effort |-> none]
    BY <1>3 DEF normalizeThinkingModelName, HasEffort
  <2>2. IsNone(none)
    BY DEF IsNone
  <2> HIDE DEF none
  <2>3. QED
    BY <1>3, <2>1, <2>2
<1>4. QED
  BY <1>2, <1>3

\* No slash is part of an effort.
LEMMA LevelsAreNoSlash == "/" \notin Levels /\ "/" # "(" /\ "/" # ")"
  BY DEF Levels

\* A cut has the effort of the whole, and its name is a cut of that name, if
\* there is more than a prefix before the effort.
LEMMA CutKeepsEffort ==
  ASSUME NEW S, NEW m \in Seq(S), NEW t, IsCut(t, m),
         HasEffort(m) => m[Len(m) - 3] # "/"
  PROVE  LET whole == normalizeThinkingModelName(m)
             named == normalizeThinkingModelName(t)
         IN  /\ named.effort = whole.effort
             /\ IsCut(named.model, whole.model) /\ whole.model \in Seq(S)
<1> DEFINE whole == normalizeThinkingModelName(m)  named == normalizeThinkingModelName(t)
           n == Len(m)
<1>1. PICK k \in 0..n : (k = 0 \/ m[k] = "/") /\ t = SubSeq(m, k + 1, n)
  BY DEF IsCut
<1>2. t \in Seq(S) /\ Len(t) = n - k /\ \A i \in 1..Len(t) : t[i] = m[k + i]
  BY <1>1, CutIsText
<1>3. n \in Nat
  OBVIOUS
<1> HIDE DEF n
<1>4. CASE HasEffort(m)
  <2>1. n > 3 /\ m[n] = ")" /\ m[n - 2] = "(" /\ m[n - 1] \in Levels /\ m[n - 3] # "/"
    BY <1>4 DEF HasEffort, n
  <2>2. k <= n - 4
    <3>1. k # n /\ k # n - 1 /\ k # n - 2 /\ k # n - 3
      BY <1>1, <1>3, <2>1, LevelsAreNoSlash
    <3>2. QED
      BY <1>1, <1>3, <3>1
  <2>3. /\ Len(t) > 3 /\ t[Len(t)] = m[n] /\ t[Len(t) - 2] = m[n - 2]
        /\ t[Len(t) - 1] = m[n - 1]
    <3>1. Len(t) = n - k /\ Len(t) > 3
      BY <1>1, <1>2, <1>3, <2>2
    <3>2. /\ Len(t) \in 1..Len(t) /\ Len(t) - 1 \in 1..Len(t) /\ Len(t) - 2 \in 1..Len(t)
          /\ k + Len(t) = n /\ k + (Len(t) - 1) = n - 1 /\ k + (Len(t) - 2) = n - 2
      BY <1>1, <1>3, <3>1
    <3>3. QED
      BY <1>2, <3>1, <3>2
  <2>4. HasEffort(t)
    BY <2>1, <2>3 DEF HasEffort
  <2>5. named.effort = whole.effort
    BY <1>4, <2>3, <2>4, EffortSplit DEF n
  <2>6. whole.model = SubSeq(m, 1, n - 3) /\ named.model = SubSeq(t, 1, Len(t) - 3)
    BY <1>4, <2>4, EffortSplit DEF n
  <2> DEFINE w == SubSeq(m, 1, n - 3)  v == SubSeq(t, 1, Len(t) - 3)
  <2>7. w \in Seq(S) /\ Len(w) = n - 3 /\ \A i \in 1..(n - 3) : w[i] = m[i]
    <3>1. n - 3 \in Int /\ 1 <= n - 3 /\ \A i \in 1..(n - 3) : m[i] \in S
      BY <1>3, <2>1 DEF n
    <3>2. /\ w \in Seq(S) /\ Len(w) = (n - 3) - 1 + 1
          /\ \A i \in 1..((n - 3) - 1 + 1) : w[i] = m[1 + i - 1]
      BY <3>1, SubSeqProperties
    <3> HIDE DEF w
    <3>3. QED
      BY <3>1, <3>2, <1>3
  <2>8. v \in Seq(S) /\ Len(v) = Len(t) - 3 /\ \A i \in 1..(Len(t) - 3) : v[i] = t[i]
    <3>1. Len(t) - 3 \in Int /\ 1 <= Len(t) - 3 /\ \A i \in 1..(Len(t) - 3) : t[i] \in S
      BY <1>2, <2>3
    <3>2. /\ v \in Seq(S) /\ Len(v) = (Len(t) - 3) - 1 + 1
          /\ \A i \in 1..((Len(t) - 3) - 1 + 1) : v[i] = t[1 + i - 1]
      BY <3>1, SubSeqProperties
    <3> HIDE DEF v
    <3>3. QED
      BY <3>1, <3>2, <1>2
  <2> HIDE DEF w, v
  <2> DEFINE c == SubSeq(w, k + 1, Len(w))
  <2>9. k \in 0..Len(w)
    BY <1>1, <1>3, <2>2, <2>7
  <2>10. c \in Seq(S) /\ Len(c) = Len(w) - k /\ \A i \in 1..Len(c) : c[i] = w[k + i]
    BY <2>7, <2>9, CutIsText
  <2> HIDE DEF c
  <2>11. v = c
    <3>1. Len(v) = Len(c)
      BY <1>1, <1>2, <1>3, <2>7, <2>8, <2>10
    <3>2. \A i \in 1..Len(v) : v[i] = c[i]
      BY <1>1, <1>2, <1>3, <2>2, <2>7, <2>8, <2>10
    <3>3. QED
      BY <2>8, <2>10, <3>1, <3>2, SeqEqual
  <2>12. k = 0 \/ w[k] = "/"
    BY <1>1, <1>3, <2>2, <2>7
  <2>13. IsCut(v, w)
    BY <2>9, <2>11, <2>12 DEF IsCut, c
  <2>14. QED
    BY <2>5, <2>6, <2>7, <2>13 DEF w, v
<1>5. CASE ~ HasEffort(m)
  <2>1. ~ HasEffort(t)
    <3>1. SUFFICES ASSUME HasEffort(t) PROVE HasEffort(m)
      BY <1>5
    <3>2. Len(t) > 3 /\ t[Len(t)] = ")" /\ t[Len(t) - 2] = "(" /\ t[Len(t) - 1] \in Levels
      BY <3>1 DEF HasEffort
    <3>3. /\ Len(t) \in 1..Len(t) /\ Len(t) - 1 \in 1..Len(t) /\ Len(t) - 2 \in 1..Len(t)
          /\ k + Len(t) = n /\ k + (Len(t) - 1) = n - 1 /\ k + (Len(t) - 2) = n - 2
      BY <1>1, <1>2, <1>3, <3>2
    <3>4. n > 3 /\ m[n] = ")" /\ m[n - 2] = "(" /\ m[n - 1] \in Levels
      BY <1>1, <1>2, <1>3, <3>2, <3>3
    <3>5. QED
      BY <3>4 DEF HasEffort, n
  <2>2. named.model = t /\ whole.model = m /\ named.effort = "" /\ whole.effort = ""
    BY <1>5, <2>1, EffortSplit DEF IsNone
  <2>3. QED
    BY <2>2
<1>6. QED
  BY <1>4, <1>5

-----------------------------------------------------------------------------
(* The executor's rewriting                                                *)

JsonBody(b) == {"json", "model", "effort"} \subseteq DOMAIN b /\ b.json

LEMMA SeqIsText == ASSUME NEW S, NEW t \in Seq(S) PROVE IsText(t)
<1>1. \A i \in 1..Len(t) : t[i] \in ToSet(t)
  BY DEF ToSet
<1>2. QED
  BY <1>1 DEF IsText

\* A namespace is a text.
LEMMA TrimIsText ==
  ASSUME NEW t, IsText(t) PROVE IsText(TrimSlash(t))
<1>1. CASE TrimSlash(t) = t
  BY <1>1
<1>2. CASE TrimSlash(t) # t
  <2>1. TrimSlash(t) = SubSeq(t, 1, Len(t) - 1)
    BY <1>2 DEF TrimSlash, Front
  <2>2. t \in Seq(ToSet(t)) /\ Len(t) \in Nat
        /\ \A i \in 1..(Len(t) - 1) : t[i] \in ToSet(t)
    BY DEF IsText
  <2>3. TrimSlash(t) \in Seq(ToSet(t))
    BY <2>1, <2>2, SubSeqProperties
  <2>4. QED
    BY <2>3, SeqIsText
<1>3. QED
  BY <1>1, <1>2

LEMMA PayloadCuts ==
  ASSUME NEW S, NEW body, JsonBody(body), body.model \in Seq(S), NEW prefix, IsText(prefix)
  PROVE  LET b == stripPayloadModelPrefix(body, prefix)
         IN  /\ JsonBody(b) /\ b.effort = body.effort
             /\ b.model \in Seq(S) /\ IsCut(b.model, body.model)
<1> DEFINE stripped == stripModelPrefix(body.model, prefix)
<1>1. stripped \in Seq(S) /\ IsCut(stripped, body.model)
  BY StripCuts DEF IsText
<1>2. IsCut(body.model, body.model)
  <2>1. 0 \in 0..Len(body.model) /\ SubSeq(body.model, 0 + 1, Len(body.model)) = body.model
    BY SubSeqFull
  <2>2. QED
    BY <2>1 DEF IsCut
<1>3. stripPayloadModelPrefix(body, prefix) \in {body, [body EXCEPT !.model = stripped]}
  BY DEF stripPayloadModelPrefix
<1> HIDE DEF stripped
<1>4. QED
  BY <1>1, <1>2, <1>3 DEF JsonBody

\* Model and body are rewritten alike, and the effort is the one asked for.
LEMMA Normalized ==
  ASSUME NEW S, NEW whole \in Seq(S), HasEffort(whole) => whole[Len(whole) - 3] # "/",
         NEW model, IsCut(model, whole), NEW body, JsonBody(body), IsCut(body.model, whole),
         NEW effort, NEW prefix, IsText(prefix), NEW s
  PROVE  LET r == normalizeExecutorModel(model, body, effort, prefix, s)
             asked == normalizeThinkingModelName(whole).effort
         IN  /\ JsonBody(r.body)
             /\ \E w : IsText(w) /\ IsCut(r.model, w) /\ IsCut(r.body.model, w)
             /\ ~ IsNone(body.effort) => r.body.effort = body.effort
             /\ IsNone(body.effort) /\ isImageLaneModel(r.model, s) =>
                  IsNone(r.body.effort) \/ r.body.effort = asked
             /\ IsNone(body.effort) /\ ~ isImageLaneModel(r.model, s) /\ ~ IsNone(asked) =>
                  r.body.effort = asked
<1> DEFINE bare  == stripModelPrefix(model, prefix)
           named == normalizeThinkingModelName(bare)
           other == normalizeThinkingModelName(stripModelPrefix(body.model, prefix))
           asked == normalizeThinkingModelName(whole).effort
           name  == normalizeThinkingModelName(whole).model
           r == normalizeExecutorModel(model, body, effort, prefix, s)
<1>1. model \in Seq(S) /\ body.model \in Seq(S)
  BY CutIsText DEF IsCut
<1>2. IsCut(bare, whole) /\ IsCut(stripModelPrefix(body.model, prefix), whole)
  <2>1. IsCut(bare, model) /\ IsCut(stripModelPrefix(body.model, prefix), body.model)
    BY <1>1, StripCuts DEF IsText
  <2> HIDE DEF bare
  <2>2. QED
    BY <2>1, CutOfCut
<1>3. /\ named.effort = asked /\ IsCut(named.model, name)
      /\ other.effort = asked /\ IsCut(other.model, name) /\ name \in Seq(S)
  BY <1>2, CutKeepsEffort
<1>4. CASE isImageLaneModel(bare, s)
  <2> DEFINE b == stripPayloadModelPrefix(body, prefix)
  <2>1. r = [model |-> bare, body |-> b]
    BY <1>4 DEF normalizeExecutorModel
  <2>2. /\ JsonBody(b) /\ b.effort = body.effort /\ IsCut(b.model, body.model)
    BY <1>1, PayloadCuts
  <2> HIDE DEF b, r, bare, asked
  <2>3. r.model = bare /\ r.body = b
    BY <2>1
  <2>4. IsCut(b.model, whole)
    BY <2>2, CutOfCut
  <2>5. IsText(whole)
    BY SeqIsText
  <2>6. \E w : IsText(w) /\ IsCut(r.model, w) /\ IsCut(r.body.model, w)
    BY <1>2, <2>3, <2>4, <2>5
  <2>7. /\ JsonBody(r.body) /\ r.body.effort = body.effort /\ isImageLaneModel(r.model, s)
    BY <1>4, <2>2, <2>3
  <2>8. QED
    BY <2>6, <2>7 DEF r, asked
<1>5. CASE ~ isImageLaneModel(bare, s)
  <2> DEFINE fallback == firstNonEmpty(named.effort, effort)
             b == rewritePayloadModelWithEffort(body, prefix, fallback)
             given == firstNonEmpty(fallback, other.effort)
  <2>1. r = [model |-> named.model, body |-> b]
    BY <1>5 DEF normalizeExecutorModel
  <2>2. b = [body EXCEPT !.model = other.model,
                         !.effort = IF IsNone(@) THEN given ELSE @]
    BY DEF rewritePayloadModelWithEffort, JsonBody, IsNone
  <2>3. ~ IsNone(asked) => given = asked
    BY <1>3 DEF firstNonEmpty, IsNone
  <2>4. IsNone(asked) => named.model = bare
    BY <1>3, EffortSplit
  <2> HIDE DEF b, r, given, asked, named, other, bare, name
  <2>5. /\ r.model = named.model /\ r.body = b /\ JsonBody(b) /\ b.model = other.model
        /\ b.effort = IF IsNone(body.effort) THEN given ELSE body.effort
    BY <2>1, <2>2 DEF JsonBody
  <2>6. IsText(name)
    BY <1>3, SeqIsText
  <2>7. \E w : IsText(w) /\ IsCut(r.model, w) /\ IsCut(r.body.model, w)
    BY <1>3, <2>5, <2>6
  <2>8. isImageLaneModel(r.model, s) => ~ IsNone(asked)
    BY <1>5, <2>4, <2>5
  <2>9. QED
    BY <2>3, <2>5, <2>7, <2>8 DEF r, asked
<1>6. QED
  BY <1>4, <1>5
-----------------------------------------------------------------------------
(* The model and the effort on their way                                   *)

\* The effort a client asks for in the suffix of its model
AskedEffort(q) == normalizeThinkingModelName(q.model).effort

\* An effort that may go upstream with a model: the one in the client's body,
\* else the one of the suffix, which image traffic may come without
EffortFits(q, s, model, effort) ==
  IF ~ IsNone(q.body.effort) THEN effort = q.body.effort
  ELSE IF isImageLaneModel(model, s) THEN IsNone(effort) \/ effort = AskedEffort(q)
  ELSE ~ IsNone(AskedEffort(q)) => effort = AskedEffort(q)

\* Model and body that were rewritten alike
Rewritten(q, s, model, body) ==
  /\ JsonBody(body) /\ EffortFits(q, s, model, body.effort)
  /\ \E whole : IsText(whole) /\ IsCut(model, whole) /\ IsCut(body.model, whole)

\* Until it is normalized a request has the client's effort and, under
\* whatever prefix, its model; from then on model and body were rewritten
\* alike, and so is what goes upstream.
Original(q, c) ==
  /\ IsCut(c.model, q.model)
  /\ q.body.json => /\ JsonBody(c.body) /\ IsCut(c.body.model, q.model)
                    /\ c.body.effort = q.body.effort

ModelInv ==
  /\ pc \in {"resolving", "normalizing"} => Original(req, call)
  /\ pc \in {"identifying", "building"} /\ req.body.json =>
       Rewritten(req, spec, call.model, call.body)
  /\ sent # None => IF req.body.json THEN Rewritten(req, spec, sent.model, sent.body)
                    ELSE ~ sent.body.json

LEMMA CutOfItself == ASSUME NEW S, NEW s \in Seq(S) PROVE IsCut(s, s)
<1>1. 0 \in 0..Len(s) /\ SubSeq(s, 0 + 1, Len(s)) = s
  BY SubSeqFull
<1>2. QED
  BY <1>1 DEF IsCut

\* The prefix of the plugin's models is a text, whatever is configured.
LEMMA PrefixIsText == ASSUME SpecInv, spec \in Specs PROVE IsText(Prefix)
<1>1. PICK b \in Blocks : spec = SpecOf(b, Catalog)
  BY DEF Specs
<1>2. IsText(b.prefix) /\ IsText(config.settings.namespace)
  BY RequestAssumption DEF SpecInv
<1>3. spec.prefix = b.prefix
  BY <1>1 DEF SpecOf
<1>4. IsText(FirstText(config.settings.namespace, spec.prefix))
  BY <1>2, <1>3 DEF FirstText
<1>5. QED
  BY <1>4, TrimIsText DEF Prefix, modelNamespace

\* What is sent has its body's prefix taken off once more.
LEMMA StripRewritten ==
  ASSUME NEW q, NEW s, NEW model, NEW body, Rewritten(q, s, model, body),
         NEW prefix, IsText(prefix)
  PROVE  Rewritten(q, s, model, stripPayloadModelPrefix(body, prefix))
<1> DEFINE b == stripPayloadModelPrefix(body, prefix)
<1>1. PICK whole : IsText(whole) /\ IsCut(model, whole) /\ IsCut(body.model, whole)
  BY DEF Rewritten
<1>2. whole \in Seq(ToSet(whole))
  BY <1>1 DEF IsText
<1>3. body.model \in Seq(ToSet(whole))
  BY <1>1, <1>2, CutIsText DEF IsCut
<1>4. JsonBody(body) /\ EffortFits(q, s, model, body.effort)
  BY DEF Rewritten
<1>5. JsonBody(b) /\ b.effort = body.effort /\ IsCut(b.model, body.model)
  BY <1>3, <1>4, PayloadCuts
<1> HIDE DEF b
<1>6. IsCut(b.model, whole)
  BY <1>1, <1>2, <1>5, CutOfCut
<1>7. QED
  BY <1>1, <1>4, <1>5, <1>6 DEF Rewritten, b

LEMMA ModelStep == IInv /\ ModelInv /\ [Next]_vars => ModelInv'
<1> SUFFICES ASSUME IInv, ModelInv, [Next]_vars PROVE ModelInv'
  OBVIOUS
<1>1. CASE \E c \in Configs : Reconfigure(c) \/ ScanStores(c) \/ OtherResolves(c)
  BY <1>1 DEF Reconfigure, ScanStores, OtherResolves, exec, ModelInv
<1>2. CASE (\E q \in Requests : Arrive(q)) \/ Done
  BY <1>2 DEF Arrive, Done, Goto, exec, ModelInv, IInv, SentInv
<1>3. CASE Intercept \/ Match \/ Sign
  BY <1>3 DEF Intercept, Match, Sign, Goto, exec, ModelInv
<1>4. CASE Execute
  <2>1. PICK m \in Routed, n \in Routed :
          call' = [model |-> m, headers |-> Overlaid(req.headers), id |-> None,
                   body |-> IF req.body.json THEN [req.body EXCEPT !.model = n] ELSE req.body]
    BY <1>4 DEF Execute
  <2>2. req' = req /\ pc' = "resolving" /\ sent' = sent /\ sent = None /\ req \in Requests
    BY <1>4 DEF Execute, Goto, IInv, SentInv, IdentityInv
  <2>3. \A r \in Routed : IsCut(r, req.model)
    <3>1. IsText(req.model) /\ IsText(req.authPrefix)
      BY <2>2, RequestAssumption
    <3>2. IsCut(req.model, req.model)
      BY <3>1, CutOfItself DEF IsText
    <3>3. IsCut(stripModelPrefix(req.model, req.authPrefix), req.model)
      BY <3>1, StripCuts DEF IsText
    <3>4. QED
      BY <3>2, <3>3 DEF Routed
  <2>4. call'.model = m
    BY <2>1
  <2>5. ASSUME req.body.json
        PROVE  JsonBody(call'.body) /\ call'.body.model = n /\ call'.body.effort = req.body.effort
    <3>1. {"json", "model", "effort"} \subseteq DOMAIN req.body
      BY <2>2, <2>5, RequestAssumption
    <3>2. call'.body = [req.body EXCEPT !.model = n]
      BY <2>1, <2>5
    <3>3. QED
      BY <2>5, <3>1, <3>2 DEF JsonBody
  <2>6. Original(req', call')
    BY <2>2, <2>3, <2>4, <2>5 DEF Original
  <2>7. QED
    BY <2>2, <2>6 DEF ModelInv
<1>5. CASE Elsewhere \/ CallFails \/ \E success \in BOOLEAN : Respond(success)
  BY <1>5 DEF Elsewhere, CallFails, Respond, Fail, Return, Goto, ModelInv
<1>6. CASE Resolve
  BY <1>6 DEF Resolve, Fail, Return, Goto, ModelInv, IInv, SentInv
<1>7. CASE Normalize
  <2> DEFINE r == normalizeExecutorModel(call.model, call.body, req.effort, Prefix, spec)
             body == IF req.op = "execute_stream" THEN forceStreamingPayload(r.body) ELSE r.body
  <2>1. /\ call' = [call EXCEPT !.model = r.model, !.body = body]
        /\ req' = req /\ spec' = spec /\ sent' = sent /\ pc = "normalizing"
        /\ pc' = "identifying"
    BY <1>7 DEF Normalize, Goto
  <2>2. /\ {"model", "headers", "body", "id"} \subseteq DOMAIN call /\ sent = None
        /\ spec \in Specs /\ req \in Requests /\ Original(req, call)
    BY <2>1 DEF IInv, CallInv, SentInv, SpecInv, IdentityInv, ModelInv
  <2>3. call'.model = r.model /\ call'.body = body
    <3> HIDE DEF r, body
    <3>1. QED
      BY <2>1, <2>2
  <2>4. ASSUME req.body.json PROVE Rewritten(req, spec, r.model, body)
    <3>1. /\ JsonBody(call.body) /\ IsCut(call.model, req.model)
          /\ IsCut(call.body.model, req.model) /\ call.body.effort = req.body.effort
      BY <2>2, <2>4 DEF Original
    <3>2. IsText(req.model) /\ IsText(Prefix)
      BY <2>2, PrefixIsText, RequestAssumption DEF IInv
    <3>3. HasEffort(req.model) => req.model[Len(req.model) - 3] # "/"
      <4>1. ~ IsNone(normalizeThinkingModelName(req.model).effort) =>
              req.model[Len(req.model) - 3] # "/"
        BY <2>2, RequestAssumption DEF IsNone
      <4>2. QED
        BY <4>1, EffortSplit
    <3>4. /\ JsonBody(r.body)
          /\ \E w : IsText(w) /\ IsCut(r.model, w) /\ IsCut(r.body.model, w)
          /\ ~ IsNone(call.body.effort) => r.body.effort = call.body.effort
          /\ IsNone(call.body.effort) /\ isImageLaneModel(r.model, spec) =>
               IsNone(r.body.effort) \/ r.body.effort = AskedEffort(req)
          /\ IsNone(call.body.effort) /\ ~ isImageLaneModel(r.model, spec)
             /\ ~ IsNone(AskedEffort(req)) => r.body.effort = AskedEffort(req)
      BY <3>1, <3>2, <3>3, Normalized DEF IsText, AskedEffort
    <3>5. JsonBody(body) /\ body.model = r.body.model /\ body.effort = r.body.effort
      <4>1. JsonBody(r.body)
        BY <3>4
      <4>2. body \in {r.body, [r.body EXCEPT !.stream = TRUE]}
        BY DEF forceStreamingPayload
      <4> HIDE DEF r, body
      <4>3. QED
        BY <4>1, <4>2 DEF JsonBody
    <3> HIDE DEF r, body
    <3>6. EffortFits(req, spec, r.model, body.effort)
      BY <3>1, <3>4, <3>5 DEF EffortFits
    <3>7. QED
      BY <3>4, <3>5, <3>6 DEF Rewritten
  <2> HIDE DEF r, body
  <2>5. QED
    BY <2>1, <2>2, <2>3, <2>4 DEF ModelInv
<1>8. CASE Identify
  <2>1. PICK id : call' = [call EXCEPT !.id = id]
    BY <1>8 DEF Identify
  <2>2. /\ req' = req /\ spec' = spec /\ sent' = sent /\ sent = None
        /\ pc = "identifying" /\ pc' = "building"
    BY <1>8 DEF Identify, Goto, IInv, SentInv
  <2>3. {"model", "headers", "body", "id"} \subseteq DOMAIN call
    BY <2>2 DEF IInv, CallInv
  <2>4. call'.model = call.model /\ call'.body = call.body
    BY <2>1, <2>3
  <2>5. QED
    BY <2>2, <2>4 DEF ModelInv
<1>9. CASE Build
  <2>1. CASE sent' = None
    <3>1. pc' \notin {"resolving", "normalizing", "identifying", "building"}
      BY <1>9 DEF Build, Fail, Return, Goto
    <3>2. QED
      BY <2>1, <3>1 DEF ModelInv
  <2>2. CASE sent' # None
    <3>1. /\ sent' = buildUpstreamRequest /\ spec' = spec /\ req' = req /\ spec \in Specs
      BY <1>9, <2>2, BuildsRequest
    <3>2. pc = "building" /\ pc' = "sent"
      BY <1>9, <2>2 DEF Build, Fail, Return, Goto
    <3>3. sent'.model = call.model /\ sent'.body = stripPayloadModelPrefix(call.body, Prefix)
      BY <3>1 DEF buildUpstreamRequest
    <3>4. CASE req.body.json
      <4>1. Rewritten(req, spec, call.model, call.body)
        BY <3>2, <3>4 DEF ModelInv
      <4>2. IsText(Prefix)
        BY <3>1, PrefixIsText DEF IInv
      <4>3. Rewritten(req, spec, sent'.model, sent'.body)
        BY <3>3, <4>1, <4>2, StripRewritten
      <4>4. QED
        BY <3>1, <3>2, <3>4, <4>3 DEF ModelInv
    <3>5. CASE ~ req.body.json
      <4>1. call.body = req.body
        BY <3>2, <3>5 DEF IInv, CallInv
      <4>2. sent'.body = req.body
        BY <3>3, <3>5, <4>1, OthersUntouched
      <4>3. QED
        BY <3>1, <3>2, <3>5, <4>2 DEF ModelInv
    <3>6. QED
      BY <3>4, <3>5
  <2>3. QED
    BY <2>1, <2>2
<1>10. CASE UNCHANGED vars
  BY <1>10 DEF vars, ModelInv
<1>11. QED
  BY <1>1, <1>2, <1>3, <1>4, <1>5, <1>6, <1>7, <1>8, <1>9, <1>10 DEF Next, Handle

\* Whatever is configured meanwhile, model and body are rewritten alike.
THEOREM ModelInvariant == Spec => []ModelInv
<1>1. Init => ModelInv
  BY DEF Init, ModelInv
<1>2. QED
  BY <1>1, ModelStep, Invariant, PTL DEF Spec

\* The model a request is recorded under is the one its body asks for, up to
\* prefixes, under any prefixes and namespaces, however CPA routes the two and
\* although the configuration is read anew for the last rewriting
\* (normalizeExecutorModel, buildUpstreamRequest).
THEOREM ModelAgreesHolds == Spec => []ModelAgrees
<1>1. ASSUME ModelInv, sent # None, sent.body.json
      PROVE  IsSuffix(sent.body.model, sent.model) \/ IsSuffix(sent.model, sent.body.model)
  <2>1. Rewritten(req, spec, sent.model, sent.body)
    BY <1>1 DEF ModelInv
  <2>2. PICK whole : IsText(whole) /\ IsCut(sent.model, whole) /\ IsCut(sent.body.model, whole)
    BY <2>1 DEF Rewritten
  <2>3. QED
    BY <2>2, CutsAgree DEF IsText
<1>2. ModelInv => ModelAgrees
  BY <1>1 DEF ModelAgrees
<1>3. QED
  BY <1>2, ModelInvariant, PTL

\* No effort of a client's body is lost or replaced, and the suffix counts for
\* all but image traffic, whatever CPA and the configurations strip of the
\* model before it (rewritePayloadModelWithEffort, isImageLaneModel).
THEOREM EffortRespectedHolds == Spec => []EffortRespected
<1>1. ASSUME ModelInv, sent # None, sent.body.json
      PROVE  EffortFits(req, spec, sent.model, sent.body.effort)
  BY <1>1 DEF ModelInv, Rewritten
<1>2. ModelInv => EffortRespected
  BY <1>1 DEF EffortRespected, EffortFits, AskedEffort, IsNone
<1>3. QED
  BY <1>2, ModelInvariant, PTL

-----------------------------------------------------------------------------
(* Globs                                                                   *)

\* The k-th element of a glob fits the part of a text between two cuts.
FitsBetween(p, t, cut, k) ==
  IF p[k] = "*" THEN cut[k - 1] <= cut[k]
  ELSE cut[k] = cut[k - 1] + 1 /\ p[k] \in {"?", t[cut[k]]}

\* The first i elements of a glob match the first j of a text.
Divides(p, t, i, j, cut) ==
  /\ cut \in [0..i -> 0..Len(t)] /\ cut[0] = 0 /\ cut[i] = j
  /\ \A k \in 1..i : FitsBetween(p, t, cut, k)

Divided(p, t, i, j) == \E cut : Divides(p, t, i, j, cut)

\* A division is extended by one element.
LEMMA ExtendDivision ==
  ASSUME NEW p, NEW t, Len(t) \in Nat, NEW i \in Nat \ {0}, NEW l \in 0..Len(t),
         NEW j \in 0..Len(t), NEW cut, Divides(p, t, i - 1, l, cut),
         IF p[i] = "*" THEN l <= j ELSE j = l + 1 /\ p[i] \in {"?", t[j]}
  PROVE  Divided(p, t, i, j)
<1> DEFINE new == [k \in 0..i |-> IF k = i THEN j ELSE cut[k]]
<1>1. /\ cut \in [0..(i - 1) -> 0..Len(t)] /\ cut[0] = 0 /\ cut[i - 1] = l
      /\ \A k \in 1..(i - 1) : FitsBetween(p, t, cut, k)
  BY DEF Divides
<1>2. new \in [0..i -> 0..Len(t)] /\ new[i] = j /\ \A k \in 0..(i - 1) : new[k] = cut[k]
  BY <1>1
<1> HIDE DEF new
<1>3. new[0] = 0 /\ new[i - 1] = l
  BY <1>1, <1>2
<1>4. ASSUME NEW k \in 1..i PROVE FitsBetween(p, t, new, k)
  <2>1. CASE k = i
    BY <1>2, <1>3, <2>1 DEF FitsBetween
  <2>2. CASE k # i
    <3>1. k \in 1..(i - 1) /\ k \in 0..(i - 1) /\ k - 1 \in 0..(i - 1)
      BY <2>2
    <3>2. FitsBetween(p, t, cut, k) /\ new[k] = cut[k] /\ new[k - 1] = cut[k - 1]
      BY <1>1, <1>2, <3>1
    <3>3. QED
      BY <3>2 DEF FitsBetween
  <2>3. QED
    BY <2>1, <2>2
<1>5. QED
  BY <1>2, <1>3, <1>4 DEF Divided, Divides

\* Without its last element it divides what comes before.
LEMMA ShortenDivision ==
  ASSUME NEW p, NEW t, Len(t) \in Nat, NEW i \in Nat \ {0}, NEW j, NEW cut,
         Divides(p, t, i, j, cut)
  PROVE  /\ cut[i - 1] \in 0..Len(t) /\ FitsBetween(p, t, cut, i) /\ cut[i] = j
         /\ Divided(p, t, i - 1, cut[i - 1])
<1> DEFINE new == [k \in 0..(i - 1) |-> cut[k]]
<1>1. /\ cut \in [0..i -> 0..Len(t)] /\ cut[0] = 0 /\ cut[i] = j
      /\ \A k \in 1..i : FitsBetween(p, t, cut, k)
  BY DEF Divides
<1>2. new \in [0..(i - 1) -> 0..Len(t)] /\ \A k \in 0..(i - 1) : new[k] = cut[k]
  BY <1>1
<1> HIDE DEF new
<1>3. new[0] = 0 /\ new[i - 1] = cut[i - 1] /\ i - 1 \in 0..i /\ i \in 1..i
  BY <1>1, <1>2
<1>4. ASSUME NEW k \in 1..(i - 1) PROVE FitsBetween(p, t, new, k)
  <2>1. k \in 1..i /\ k \in 0..(i - 1) /\ k - 1 \in 0..(i - 1)
    OBVIOUS
  <2>2. FitsBetween(p, t, cut, k) /\ new[k] = cut[k] /\ new[k - 1] = cut[k - 1]
    BY <1>1, <1>2, <2>1
  <2>3. QED
    BY <2>2 DEF FitsBetween
<1>5. QED
  BY <1>1, <1>2, <1>3, <1>4 DEF Divided, Divides

\* Divisions obey the equations the code fills its table by.
DividedBy(p, t, i, j) ==
  IF i = 0 THEN j = 0
  ELSE IF p[i] = "*" THEN Divided(p, t, i - 1, j) \/ (j > 0 /\ Divided(p, t, i, j - 1))
  ELSE j > 0 /\ Divided(p, t, i - 1, j - 1) /\ p[i] \in {"?", t[j]}

LEMMA DivisionCell ==
  ASSUME NEW p, NEW t, Len(t) \in Nat, NEW i \in Nat, NEW j \in 0..Len(t)
  PROVE  Divided(p, t, i, j) <=> DividedBy(p, t, i, j)
<1>1. CASE i = 0
  <2>1. Divided(p, t, 0, j) => j = 0
    BY DEF Divided, Divides
  <2>2. Divided(p, t, 0, 0)
    <3> DEFINE none == [k \in 0..0 |-> 0]
    <3>1. none \in [0..0 -> 0..Len(t)] /\ none[0] = 0 /\ 1..0 = {}
      OBVIOUS
    <3> HIDE DEF none
    <3>2. QED
      BY <3>1 DEF Divided, Divides
  <2>3. QED
    BY <1>1, <2>1, <2>2 DEF DividedBy
<1>2. CASE i # 0 /\ p[i] = "*"
  <2>1. ASSUME Divided(p, t, i, j)
        PROVE  Divided(p, t, i - 1, j) \/ (j > 0 /\ Divided(p, t, i, j - 1))
    <3>1. PICK cut : Divides(p, t, i, j, cut)
      BY <2>1 DEF Divided
    <3> DEFINE l == cut[i - 1]
    <3>2. l \in 0..Len(t) /\ l <= j /\ Divided(p, t, i - 1, l)
      BY <1>2, <3>1, ShortenDivision DEF FitsBetween
    <3> HIDE DEF l
    <3>3. CASE l = j
      BY <3>2, <3>3
    <3>4. CASE l # j
      <4>1. j > 0 /\ j - 1 \in 0..Len(t) /\ l <= j - 1
        BY <3>2, <3>4
      <4>2. Divided(p, t, i, j - 1)
        BY <1>2, <3>2, <4>1, ExtendDivision DEF Divided
      <4>3. QED
        BY <4>1, <4>2
    <3>5. QED
      BY <3>3, <3>4
  <2>2. ASSUME Divided(p, t, i - 1, j) PROVE Divided(p, t, i, j)
    BY <1>2, <2>2, ExtendDivision DEF Divided
  <2>3. ASSUME j > 0, Divided(p, t, i, j - 1) PROVE Divided(p, t, i, j)
    <3>1. PICK cut : Divides(p, t, i, j - 1, cut)
      BY <2>3 DEF Divided
    <3> DEFINE l == cut[i - 1]
    <3>2. l \in 0..Len(t) /\ l <= j - 1 /\ Divided(p, t, i - 1, l)
      BY <1>2, <3>1, ShortenDivision DEF FitsBetween
    <3> HIDE DEF l
    <3>3. l <= j
      BY <3>2
    <3>4. QED
      BY <1>2, <3>2, <3>3, ExtendDivision DEF Divided
  <2>4. QED
    BY <1>2, <2>1, <2>2, <2>3 DEF DividedBy
<1>3. CASE i # 0 /\ p[i] # "*"
  <2>1. ASSUME Divided(p, t, i, j)
        PROVE  j > 0 /\ Divided(p, t, i - 1, j - 1) /\ p[i] \in {"?", t[j]}
    <3>1. PICK cut : Divides(p, t, i, j, cut)
      BY <2>1 DEF Divided
    <3> DEFINE l == cut[i - 1]
    <3>2. l \in 0..Len(t) /\ j = l + 1 /\ p[i] \in {"?", t[j]} /\ Divided(p, t, i - 1, l)
      BY <1>3, <3>1, ShortenDivision DEF FitsBetween
    <3> HIDE DEF l
    <3>3. l = j - 1 /\ j > 0
      BY <3>2
    <3>4. QED
      BY <3>2, <3>3
  <2>2. ASSUME j > 0, Divided(p, t, i - 1, j - 1), p[i] \in {"?", t[j]}
        PROVE  Divided(p, t, i, j)
    <3>1. j - 1 \in 0..Len(t) /\ j = (j - 1) + 1
      BY <2>2
    <3>2. QED
      BY <1>3, <2>2, <3>1, ExtendDivision DEF Divided
  <2>3. QED
    BY <1>3, <2>1, <2>2 DEF DividedBy
<1>4. QED
  BY <1>1, <1>2, <1>3

\* What the code fills its table with
Cell(p, t, d, c) ==
  LET i == c[1]  j == c[2]
  IN  IF i = 0 THEN j = 0
      ELSE IF p[i] = "*" THEN d[<<i - 1, j>>] \/ (j > 0 /\ d[<<i, j - 1>>])
      ELSE j > 0 /\ d[<<i - 1, j - 1>>] /\ p[i] \in {"?", t[j]}

IsTable(p, t, d) == d = [c \in (0..Len(p)) \X (0..Len(t)) |-> Cell(p, t, d, c)]
Table(p, t) == CHOOSE d : IsTable(p, t, d)

\* There is such a table, and every one tells the divisions.
LEMMA TableDivides ==
  ASSUME NEW p, NEW t, Len(p) \in Nat, Len(t) \in Nat
  PROVE  Table(p, t)[<<Len(p), Len(t)>>] <=> Divided(p, t, Len(p), Len(t))
<1> DEFINE m == Len(p)  n == Len(t)
           Same(d, i, j) == d[<<i, j>>] <=> Divided(p, t, i, j)
<1>1. ASSUME NEW d, NEW i \in 0..m, NEW j \in 0..n,
             i > 0 => (j > 0 => Same(d, i - 1, j - 1)) /\ Same(d, i - 1, j),
             i > 0 /\ j > 0 => Same(d, i, j - 1)
      PROVE  Cell(p, t, d, <<i, j>>) <=> Divided(p, t, i, j)
  <2>1. Divided(p, t, i, j) <=> DividedBy(p, t, i, j)
    BY DivisionCell
  <2>2. Cell(p, t, d, <<i, j>>) <=> DividedBy(p, t, i, j)
    BY <1>1 DEF Cell, DividedBy
  <2>3. QED
    BY <2>1, <2>2
<1>2. \E d : IsTable(p, t, d)
  <2> DEFINE d == [c \in (0..m) \X (0..n) |-> Divided(p, t, c[1], c[2])]
  <2>1. \A i \in 0..m, j \in 0..n : d[<<i, j>>] = Divided(p, t, i, j)
    OBVIOUS
  <2>2. ASSUME NEW c \in (0..m) \X (0..n) PROVE d[c] = Cell(p, t, d, c)
    <3>1. PICK i \in 0..m, j \in 0..n : c = <<i, j>>
      BY <2>2
    <3>2. Cell(p, t, d, <<i, j>>) <=> Divided(p, t, i, j)
      <4>1. i > 0 => i - 1 \in 0..m
        OBVIOUS
      <4>2. j > 0 => j - 1 \in 0..n
        OBVIOUS
      <4>3. \A k \in 0..m, l \in 0..n : Same(d, k, l)
        BY <2>1
      <4> HIDE DEF d, Same
      <4>4. QED
        BY <1>1, <4>1, <4>2, <4>3
    <3>3. Divided(p, t, i, j) \in BOOLEAN /\ Cell(p, t, d, c) \in BOOLEAN
      BY DEF Divided, Cell
    <3>4. QED
      BY <2>1, <3>1, <3>2, <3>3
  <2>3. d = [c \in (0..m) \X (0..n) |-> Cell(p, t, d, c)]
    BY <2>2
  <2>4. QED
    BY <2>3 DEF IsTable
<1>3. IsTable(p, t, Table(p, t))
  BY <1>2 DEF Table
<1> DEFINE d == Table(p, t)
           Wrong == {k \in Nat : \E i \in 0..m, j \in 0..n : k = i + j /\ ~ Same(d, i, j)}
<1>4. \A i \in 0..m, j \in 0..n : d[<<i, j>>] = Cell(p, t, d, <<i, j>>)
  BY <1>3 DEF IsTable
<1> HIDE DEF d, Same
<1>5. Wrong = {}
  <2>1. SUFFICES ASSUME Wrong # {} PROVE FALSE
    OBVIOUS
  <2>2. PICK least \in Wrong : \A k \in Wrong : least <= k
    BY <2>1, MinExists
  <2>3. PICK i \in 0..m, j \in 0..n : least = i + j /\ ~ Same(d, i, j)
    BY <2>2
  <2>4. ASSUME NEW k \in 0..m, NEW l \in 0..n, k + l < i + j PROVE Same(d, k, l)
    <3>1. k + l \in Nat /\ k + l < least
      BY <2>3, <2>4
    <3>2. ~ Same(d, k, l) => k + l \in Wrong
      BY <3>1
    <3> HIDE DEF Wrong
    <3>3. least \in Nat /\ (k + l \in Wrong => least <= k + l)
      BY <2>2, <2>3
    <3>4. QED
      BY <3>1, <3>2, <3>3
  <2>5. i > 0 => i - 1 \in 0..m /\ Same(d, i - 1, j) /\ (j > 0 => j - 1 \in 0..n /\ Same(d, i - 1, j - 1))
    BY <2>4
  <2>6. i > 0 /\ j > 0 => Same(d, i, j - 1)
    BY <2>4
  <2>7. Cell(p, t, d, <<i, j>>) <=> Divided(p, t, i, j)
    BY <1>1, <2>5, <2>6
  <2>8. QED
    BY <1>4, <2>3, <2>7 DEF Same
<1>6. Same(d, m, n)
  <2>1. m \in 0..m /\ n \in 0..n /\ m + n \in Nat
    OBVIOUS
  <2> HIDE DEF m, n
  <2>2. QED
    BY <1>5, <2>1
<1>7. QED
  BY <1>6 DEF Same, d

\* A text is found in another where that can be cut into what comes before,
\* the text and what comes after.
LEMMA TextDivides ==
  ASSUME NEW S, NEW p \in Seq(S), NEW t \in Seq(S), "*" \notin ToSet(p), "?" \notin ToSet(p),
         NEW glob, Len(glob) = Len(p) + 2, glob[1] = "*", glob[Len(p) + 2] = "*",
         \A k \in 1..Len(p) : glob[k + 1] = p[k]
  PROVE  HasText(t, p) <=> Divided(glob, t, Len(p) + 2, Len(t))
<1> DEFINE m == Len(p)  n == Len(t)
<1>1. m \in Nat /\ n \in Nat
  OBVIOUS
<1>2. \A k \in 1..m : p[k] # "*" /\ p[k] # "?"
  BY DEF ToSet
<1>3. ASSUME HasText(t, p) PROVE Divided(glob, t, m + 2, n)
  <2>1. PICK i \in 0..(n - m) : SubSeq(t, i + 1, i + m) = p
    BY <1>3 DEF HasText
  <2> DEFINE cut == [k \in 0..(m + 2) |-> IF k = 0 THEN 0 ELSE IF k = m + 2 THEN n ELSE i + k - 1]
  <2>2. \A k \in 1..m : t[i + k] = p[k]
    <3>1. SUFFICES ASSUME NEW k \in 1..m PROVE t[i + k] = p[k]
      OBVIOUS
    <3>2. \A l \in (i + 1)..(i + m) : t[l] \in S
      BY <1>1
    <3>3. \A l \in 1..((i + m) - (i + 1) + 1) : SubSeq(t, i + 1, i + m)[l] = t[(i + 1) + l - 1]
      BY <1>1, <3>2, SubSeqProperties
    <3>4. k \in 1..((i + m) - (i + 1) + 1) /\ (i + 1) + k - 1 = i + k
      BY <1>1
    <3>5. QED
      BY <2>1, <3>3, <3>4
  <2>3. cut \in [0..(m + 2) -> 0..n] /\ cut[0] = 0 /\ cut[m + 2] = n
    BY <1>1
  <2>4. cut[1] = i /\ cut[m + 1] = i + m /\ \A k \in 1..m : cut[k + 1] = i + k /\ cut[k] = i + k - 1
    BY <1>1
  <2> HIDE DEF cut
  <2>5. ASSUME NEW k \in 1..(m + 2) PROVE FitsBetween(glob, t, cut, k)
    <3>1. CASE k = 1
      BY <2>3, <2>4, <3>1 DEF FitsBetween
    <3>2. CASE k = m + 2
      <4>1. cut[k - 1] = i + m /\ cut[k] = n /\ i + m <= n
        BY <1>1, <2>3, <2>4, <3>2
      <4>2. QED
        BY <3>2, <4>1 DEF FitsBetween
    <3>3. CASE k # 1 /\ k # m + 2
      <4> DEFINE l == k - 1
      <4>1. l \in 1..m /\ k = l + 1
        BY <3>3
      <4> HIDE DEF l
      <4>2. /\ glob[k] = p[l] /\ cut[k] = i + l /\ cut[k - 1] = i + l - 1 /\ t[i + l] = p[l]
            /\ p[l] # "*"
        BY <1>2, <2>2, <2>4, <4>1
      <4>3. cut[k] = cut[k - 1] + 1 /\ glob[k] = t[cut[k]] /\ glob[k] # "*"
        BY <1>1, <4>1, <4>2
      <4>4. QED
        BY <4>3 DEF FitsBetween
    <3>4. QED
      BY <3>1, <3>2, <3>3
  <2>6. QED
    BY <2>3, <2>5 DEF Divided, Divides
<1>4. ASSUME Divided(glob, t, m + 2, n) PROVE HasText(t, p)
  <2>1. PICK cut : Divides(glob, t, m + 2, n, cut)
    BY <1>4 DEF Divided
  <2>2. /\ cut \in [0..(m + 2) -> 0..n] /\ cut[m + 2] = n
        /\ \A k \in 1..(m + 2) : FitsBetween(glob, t, cut, k)
    BY <2>1 DEF Divides
  <2> DEFINE i == cut[1]
  <2>3. i \in 0..n
    BY <1>1, <2>2
  <2> HIDE DEF i
  <2>4. ASSUME NEW k \in 1..m PROVE cut[k + 1] = cut[k] + 1 /\ p[k] = t[cut[k + 1]]
    <3> DEFINE l == k + 1
    <3>1. l \in 1..(m + 2) /\ glob[l] = p[k] /\ l - 1 = k
      BY <1>1
    <3> HIDE DEF l
    <3>2. FitsBetween(glob, t, cut, l) /\ glob[l] # "*" /\ glob[l] # "?"
      BY <1>2, <2>2, <3>1
    <3>3. cut[l] = cut[k] + 1 /\ p[k] = t[cut[l]]
      BY <3>1, <3>2 DEF FitsBetween
    <3>4. QED
      BY <3>3 DEF l
  <2> DEFINE Wrong == {k \in 0..m : cut[k + 1] # i + k}
  <2>5. Wrong = {}
    <3>1. SUFFICES ASSUME Wrong # {} PROVE FALSE
      OBVIOUS
    <3>2. Wrong \in SUBSET Nat
      OBVIOUS
    <3>3. PICK k \in Wrong : \A l \in Wrong : k <= l
      BY <3>1, <3>2, MinExists
    <3>4. k \in 0..m /\ cut[k + 1] # i + k
      BY <3>3
    <3>5. k # 0
      BY <2>3, <3>4 DEF i
    <3>6. k \in 1..m /\ k - 1 \in 0..m /\ (k - 1) + 1 = k /\ ~ (k <= k - 1)
      BY <1>1, <3>4, <3>5
    <3>7. ~ (k - 1 \in Wrong)
      BY <3>3, <3>6
    <3>8. cut[k] = i + (k - 1)
      BY <3>6, <3>7
    <3>9. cut[k + 1] = cut[k] + 1
      BY <2>4, <3>6
    <3>10. QED
      BY <2>3, <3>4, <3>6, <3>8, <3>9
  <2>6. \A k \in 0..m : cut[k + 1] = i + k
    BY <2>5
  <2>7. \A k \in 1..m : t[i + k] = p[k]
    BY <2>4, <2>6
  <2>8. i + m <= n
    <3>1. m \in 0..m /\ (m + 2) - 1 = m + 1 /\ m + 2 \in 1..(m + 2)
      BY <1>1
    <3>2. FitsBetween(glob, t, cut, m + 2) /\ cut[m + 1] = i + m
      BY <2>2, <2>6, <3>1
    <3>3. QED
      BY <2>2, <3>1, <3>2 DEF FitsBetween
  <2>9. i \in 0..(n - m)
    BY <1>1, <2>3, <2>8
  <2> DEFINE u == SubSeq(t, i + 1, i + m)
  <2>10. u \in Seq(S) /\ Len(u) = m /\ \A k \in 1..m : u[k] = t[i + k]
    <3>1. \A l \in (i + 1)..(i + m) : t[l] \in S
      BY <1>1, <2>3, <2>8
    <3>2. i + 1 \in Int /\ i + m \in Int /\ (i + m) - (i + 1) + 1 = m
      BY <1>1, <2>3
    <3>3. /\ u \in Seq(S) /\ Len(u) = IF i + 1 <= i + m THEN (i + m) - (i + 1) + 1 ELSE 0
          /\ \A l \in 1..((i + m) - (i + 1) + 1) : u[l] = t[(i + 1) + l - 1]
      BY <3>1, <3>2, SubSeqProperties
    <3> HIDE DEF u
    <3>4. QED
      BY <1>1, <2>3, <3>2, <3>3
  <2> HIDE DEF u
  <2>11. u = p
    BY <2>7, <2>10, SeqEqual
  <2>12. QED
    BY <2>9, <2>11 DEF HasText, u
<1>5. QED
  BY <1>3, <1>4

LEMMA MatchTextIs ==
  ASSUME NEW p, NEW t
  PROVE  matchText(p, t) =
           (/\ p # <<>> /\ t # <<>>
            /\ IF ToSet(p) \cap {"*", "?"} = {} THEN HasText(t, p)
               ELSE Table(p, t)[<<Len(p), Len(t)>>])
  BY Zenon DEF matchText, Table, IsTable, Cell

\* What a glob is matched by: one without wildcard is looked for anywhere.
Whole(p) == IF ToSet(p) \cap {"*", "?"} = {} THEN <<"*">> \o p \o <<"*">> ELSE p

\* The matcher is right for every glob and every text.
LEMMA MatchDivides ==
  ASSUME NEW p, IsText(p), p # <<>>, NEW t, IsText(t), t # <<>>
  PROVE  matchText(p, t) <=> Divided(Whole(p), t, Len(Whole(p)), Len(t))
<1> DEFINE glob == <<"*">> \o p \o <<"*">>
<1>1. /\ Len(glob) = Len(p) + 2 /\ glob[1] = "*" /\ glob[Len(p) + 2] = "*"
      /\ \A k \in 1..Len(p) : glob[k + 1] = p[k]
  BY DEF IsText
<1>2. Len(p) \in Nat /\ Len(t) \in Nat
  BY DEF IsText
<1>3. CASE ToSet(p) \cap {"*", "?"} = {}
  <2> DEFINE S == ToSet(p) \cup ToSet(t)
  <2>1. p \in Seq(S) /\ t \in Seq(S)
    BY SeqMonotonic DEF IsText
  <2>2. "*" \notin ToSet(p) /\ "?" \notin ToSet(p)
    BY <1>3
  <2> HIDE DEF S, glob
  <2>3. HasText(t, p) <=> Divided(glob, t, Len(p) + 2, Len(t))
    BY <1>1, <2>1, <2>2, TextDivides
  <2>4. matchText(p, t) <=> HasText(t, p)
    BY <1>3, MatchTextIs
  <2>5. Whole(p) = glob
    BY <1>3 DEF Whole, glob
  <2>6. QED
    BY <1>1, <2>3, <2>4, <2>5
<1>4. CASE ToSet(p) \cap {"*", "?"} # {}
  <2>1. matchText(p, t) <=> Table(p, t)[<<Len(p), Len(t)>>]
    BY <1>4, MatchTextIs
  <2>2. Table(p, t)[<<Len(p), Len(t)>>] <=> Divided(p, t, Len(p), Len(t))
    BY <1>2, TableDivides
  <2>3. Whole(p) = p
    BY <1>4 DEF Whole
  <2>4. QED
    BY <2>1, <2>2, <2>3
<1>5. QED
  BY <1>3, <1>4

-----------------------------------------------------------------------------
(* Types                                                                   *)

\* The records of a scan are filed under the prefixes of configured blocks.
LEMMA RecordsFiled ==
  ASSUME NEW c \in Configs, NEW f \in FirstRecords(MatchedRecords(c.settings, c.blocks))
  PROVE  /\ DOMAIN f \subseteq {b.prefix : b \in Blocks}
         /\ \A p \in DOMAIN f : f[p].prefix = p
<1> DEFINE R == MatchedRecords(c.settings, c.blocks)
<1>1. \A r \in R : \E i \in DOMAIN c.blocks : r.prefix = c.blocks[i].prefix
  <2> DEFINE Matched == {i \in DOMAIN c.blocks : matchDiscoveredProvider(c.settings, c.blocks[i])}
             Kept(i) == {k \in KeysOf(c.blocks[i]) :
                           \A j \in Matched : j > i /\ c.blocks[j].prefix = c.blocks[i].prefix
                                                => k \notin KeysOf(c.blocks[j])}
             Filed(i, k) == [name |-> c.blocks[i].name, prefix |-> c.blocks[i].prefix,
                             url |-> c.blocks[i].url.host \o c.blocks[i].url.path, apiKey |-> k]
  <2>1. R = UNION {{Filed(i, k) : k \in Kept(i)} : i \in Matched}
    BY DEF MatchedRecords
  <2>2. \A i, k : Filed(i, k).prefix = c.blocks[i].prefix
    OBVIOUS
  <2> HIDE DEF Kept, Filed, R
  <2>3. QED
    BY <2>1, <2>2
<1>2. \A i \in DOMAIN c.blocks : c.blocks[i] \in Blocks
  <2>1. c.blocks \in Seq(ToSet(c.blocks))
    BY RequestAssumption
  <2>2. QED
    BY <2>1 DEF Blocks, ToSet
<1>3. DOMAIN f = {r.prefix : r \in R} /\ \A p \in DOMAIN f : f[p].prefix = p
  BY DEF FirstRecords
<1> HIDE DEF R
<1>4. QED
  BY <1>1, <1>2, <1>3

LEMMA TypeStep == IInv /\ TypeOK /\ [Next]_vars => TypeOK'
<1> SUFFICES ASSUME IInv, TypeOK, [Next]_vars PROVE TypeOK'
  OBVIOUS
<1> USE DEF TypeOK
<1>1. cache' \in Specs \cup {None} /\ config' \in Configs
  BY NextIInv DEF IInv, SpecInv
<1>2. CASE (\E c \in Configs : Reconfigure(c) \/ OtherResolves(c)) \/ UNCHANGED vars
  BY <1>1, <1>2 DEF Reconfigure, OtherResolves, inter, exec, vars, Specs
<1>3. CASE \E c \in Configs : ScanStores(c)
  BY <1>3, RecordsFiled DEF ScanStores, Scanned, inter, exec
<1>4. CASE \E q \in Requests : Arrive(q)
  BY <1>4 DEF Arrive, Goto, conf, inter, exec, PCs
<1>5. CASE Intercept
  BY <1>5 DEF Intercept, Goto, conf, exec, PCs
<1>6. CASE Match
  BY <1>6 DEF Match, Goto, conf, exec, PCs
<1>7. CASE Sign
  BY <1>1, <1>7 DEF Sign, Goto, exec, PCs, Specs
<1>8. CASE Execute
  BY <1>8 DEF Execute, Goto, conf, inter, PCs
<1>9. CASE Elsewhere \/ CallFails \/ \E success \in BOOLEAN : Respond(success)
  BY <1>9 DEF Elsewhere, CallFails, Respond, Fail, Return, Goto, conf, PCs
<1>10. CASE Resolve
  BY <1>1, <1>10 DEF Resolve, Fail, Return, Goto, inter, PCs, Specs
<1>11. CASE Normalize \/ Identify
  BY <1>11 DEF Normalize, Identify, Goto, conf, inter, PCs
<1>12. CASE Build
  BY <1>12 DEF Build, Fail, Return, Goto, conf, inter, PCs
<1>13. CASE Done
  BY <1>13 DEF Done, Goto, conf, inter, exec, PCs
<1>14. QED
  BY <1>2, <1>3, <1>4, <1>5, <1>6, <1>7, <1>8, <1>9, <1>10, <1>11, <1>12, <1>13
     DEF Next, Handle

\* State has its type, and what belongs to a step of the request is at hand in
\* that step only, however often configurations and records change.
THEOREM TypeCorrect == Spec => []TypeOK
<1>1. Init => TypeOK
  BY DEF Init, TypeOK, PCs
<1>2. QED
  BY <1>1, TypeStep, Invariant, PTL DEF Spec

\* Providers are matched by globs that match what they should, for every glob
\* of every configuration and every text it is matched with (matchText).
THEOREM GlobFaithfulHolds == Spec => []GlobFaithful
<1>1. ASSUME TypeOK, pc = "matching", NEW p \in Globs(held), NEW t \in Texts(req)
      PROVE  matchText(p, t) <=> Divided(Whole(p), t, Len(Whole(p)), Len(t))
  <2>1. req \in Requests /\ \E c \in Configs : held = c.settings
    BY <1>1 DEF TypeOK
  <2>2. IsText(p) /\ IsText(t)
    BY <2>1, RequestAssumption
  <2>3. p # <<>> /\ t # <<>>
    BY DEF Globs, Texts
  <2>4. QED
    BY <2>2, <2>3, MatchDivides
<1>2. TypeOK => GlobFaithful
  BY <1>1 DEF GlobFaithful, Whole, Divided, Divides, FitsBetween
<1>3. QED
  BY <1>2, TypeCorrect, PTL
=============================================================================
