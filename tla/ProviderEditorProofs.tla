------------------------- MODULE ProviderEditorProofs -------------------------
(***************************************************************************)
(* Theorems about ProviderEditor, for any configurations, pages, answers   *)
(* of the upstream and number of resolvers and fetchers: what is read from *)
(* the cache file was one answer, a save leaves no provider without its    *)
(* keys, and a test tries no key a save would not write, if the provider   *)
(* that resolves has the keys of the block.  If names and aliases tell     *)
(* models apart, what is saved is the page laid over the block.            *)
(***************************************************************************)
EXTENDS ProviderEditor, SequenceTheorems, WellFoundedInduction, TLAPS

-----------------------------------------------------------------------------
(* Natural numbers                                                         *)

\* Of some natural numbers one is the least.
LEMMA LeastExists ==
  ASSUME NEW T \in SUBSET Nat, T # {}
  PROVE  \E x \in T : \A y \in T : x <= y
<1>1. \E x \in T : \A y \in T : ~ (<<y, x>> \in OpToRel(<, Nat))
  BY NatLessThanWellFounded, WFMin
<1>2. \A x, y \in T : y < x => <<y, x>> \in OpToRel(<, Nat)
  BY DEF OpToRel
<1>3. PICK x \in T : \A y \in T : ~ (<<y, x>> \in OpToRel(<, Nat))
  BY <1>1
<1>4. \A y \in T : ~ (y < x)
  BY <1>2, <1>3
<1>5. \A y \in T : x <= y
  BY <1>4
<1>6. QED
  BY <1>5

\* What 0 has and each number passes on to the next, all have.
LEMMA AllUpTo ==
  ASSUME NEW n \in Nat, NEW T, 0 \in T, \A i \in 1..n : i - 1 \in T => i \in T
  PROVE  \A i \in 0..n : i \in T
<1> DEFINE Wrong == {i \in 0..n : i \notin T}
<1>1. SUFFICES ASSUME Wrong # {} PROVE FALSE
  OBVIOUS
<1>2. PICK least \in Wrong : \A i \in Wrong : least <= i
  <2>1. Wrong \in SUBSET Nat
    OBVIOUS
  <2>2. QED
    BY <1>1, <2>1, LeastExists
<1>3. least \in 1..n /\ least - 1 \in 0..n /\ ~ (least <= least - 1)
  BY <1>2
<1>4. least - 1 \in T
  BY <1>2, <1>3
<1>5. QED
  BY <1>2, <1>3, <1>4

\* What is found first is among what is found.
LEMMA FirstFound ==
  ASSUME NEW n \in Nat, NEW found \in SUBSET (1..n), FirstOf(found) # 0
  PROVE  FirstOf(found) \in found
<1>1. found # {} /\ FirstOf(found) = CHOOSE i \in found : \A j \in found : i <= j
  BY DEF FirstOf
<1>2. \E i \in found : \A j \in found : i <= j
  BY <1>1, LeastExists
<1>3. QED
  BY <1>1, <1>2

-----------------------------------------------------------------------------
(* The list of keys                                                        *)

\* One turn of the loop over the values
Taken(out, v) == IF v \in {""} \cup ToSet(out) THEN out ELSE Append(out, v)

\* The list after each turn
IsLoop(values, out) ==
  out = [i \in 0..Len(values) |-> IF i = 0 THEN <<>> ELSE Taken(out[i - 1], values[i])]

Loop(values) == CHOOSE out : IsLoop(values, out)

\* The loop runs to its end.
LEMMA LoopRuns ==
  ASSUME NEW values, Len(values) \in Nat
  PROVE  /\ IsLoop(values, Loop(values))
         /\ uniqueStrings(values) = Loop(values)[Len(values)]
<1> DEFINE n == Len(values)
           IsRun(k, f) == f = [i \in 0..k |-> IF i = 0 THEN <<>> ELSE Taken(f[i - 1], values[i])]
           Runs == {k \in 0..n : \E f : IsRun(k, f)}
<1>1. 0 \in Runs
  <2> DEFINE f == [i \in 0..0 |-> <<>>]
  <2>1. IsRun(0, f)
    OBVIOUS
  <2> HIDE DEF f, IsRun
  <2>2. QED
    BY <2>1
<1>2. ASSUME NEW k \in 1..n, k - 1 \in Runs PROVE k \in Runs
  <2>1. PICK f : IsRun(k - 1, f)
    BY <1>2
  <2> DEFINE g == [i \in 0..k |-> IF i = k THEN Taken(f[k - 1], values[k]) ELSE f[i]]
  <2>2. \A i \in 0..(k - 1) : g[i] = f[i]
    OBVIOUS
  <2>3. \A i \in 0..k : g[i] = IF i = 0 THEN <<>> ELSE Taken(g[i - 1], values[i])
    <3> SUFFICES ASSUME NEW i \in 0..k
                 PROVE  g[i] = IF i = 0 THEN <<>> ELSE Taken(g[i - 1], values[i])
      OBVIOUS
    <3>1. CASE i = k
      <4>1. g[i] = Taken(f[k - 1], values[k]) /\ g[i - 1] = f[k - 1] /\ i # 0
        BY <2>2, <3>1
      <4>2. QED
        BY <3>1, <4>1
    <3>2. CASE i # k
      <4>1. i \in 0..(k - 1) /\ (i # 0 => i - 1 \in 0..(k - 1))
        BY <3>2
      <4>2. f[i] = IF i = 0 THEN <<>> ELSE Taken(f[i - 1], values[i])
        BY <2>1, <4>1
      <4>3. g[i] = f[i] /\ (i # 0 => g[i - 1] = f[i - 1])
        BY <2>2, <4>1
      <4>4. QED
        BY <4>2, <4>3
    <3>3. QED
      BY <3>1, <3>2
  <2>4. IsRun(k, g)
    BY <2>3
  <2> HIDE DEF g, IsRun
  <2>5. QED
    BY <2>4
<1>3. n \in Runs
  <2> HIDE DEF Runs
  <2>1. \A i \in 0..n : i \in Runs
    BY <1>1, <1>2, AllUpTo
  <2>2. QED
    BY <2>1
<1>4. \E out : IsLoop(values, out)
  BY <1>3 DEF IsLoop
<1>5. IsLoop(values, Loop(values))
  BY <1>4 DEF Loop
<1>6. uniqueStrings(values) = Loop(values)[Len(values)]
  BY Zenon DEF uniqueStrings, Loop, IsLoop, Taken
<1>7. QED
  BY <1>5, <1>6

IsBlank(v) == v = ""

LEMMA TakenIs ==
  ASSUME NEW S, NEW out \in Seq(S), NEW v \in S
  PROVE  /\ Taken(out, v) \in Seq(S)
         /\ \A k \in ToSet(Taken(out, v)) : k \in ToSet(out) \/ (k = v /\ ~ IsBlank(v))
<1>1. CASE Taken(out, v) = out
  BY <1>1
<1>2. CASE Taken(out, v) # out
  <2>1. Taken(out, v) = Append(out, v) /\ ~ IsBlank(v)
    BY <1>2 DEF Taken, IsBlank
  <2>2. /\ Append(out, v) \in Seq(S) /\ Len(Append(out, v)) = Len(out) + 1
        /\ \A i \in 1..Len(out) : Append(out, v)[i] = out[i]
        /\ Append(out, v)[Len(out) + 1] = v
    BY AppendProperties
  <2>3. \A k \in ToSet(Append(out, v)) : k \in ToSet(out) \/ k = v
    BY <2>2 DEF ToSet
  <2>4. QED
    BY <2>1, <2>2, <2>3
<1>3. QED
  BY <1>1, <1>2

\* Of the values there are only those that are no blanks.
LEMMA UniqueFromValues ==
  ASSUME NEW S, NEW values \in Seq(S)
  PROVE  /\ uniqueStrings(values) \in Seq(S)
         /\ \A k \in ToSet(uniqueStrings(values)) :
              ~ IsBlank(k) /\ \E i \in 1..Len(values) : k = values[i]
<1> DEFINE n == Len(values)  out == Loop(values)
           Good(l) == /\ l \in Seq(S)
                      /\ \A k \in ToSet(l) : ~ IsBlank(k) /\ \E i \in 1..n : k = values[i]
           T == {i \in 0..n : Good(out[i])}
<1>1. n \in Nat
  OBVIOUS
<1>2. IsLoop(values, out) /\ uniqueStrings(values) = out[n]
  BY <1>1, LoopRuns
<1> HIDE DEF out
<1>3. out[0] = <<>> /\ \A i \in 1..n : out[i] = Taken(out[i - 1], values[i])
  BY <1>1, <1>2 DEF IsLoop
<1>4. Good(<<>>)
  BY DEF ToSet
<1>5. ASSUME NEW i \in 1..n, Good(out[i - 1]) PROVE Good(out[i])
  <2> DEFINE l == out[i - 1]
  <2>1. values[i] \in S /\ out[i] = Taken(l, values[i]) /\ Good(l)
    BY <1>3, <1>5
  <2> HIDE DEF l
  <2>2. QED
    BY <2>1, TakenIs
<1> HIDE DEF Good
<1>6. \A i \in 0..n : i \in T
  <2>1. 0 \in T
    BY <1>1, <1>3, <1>4
  <2>2. \A i \in 1..n : i - 1 \in T => i \in T
    BY <1>1, <1>5
  <2> HIDE DEF T
  <2>3. QED
    BY <1>1, <2>1, <2>2, AllUpTo
<1>7. Good(out[n])
  BY <1>1, <1>6
<1>8. QED
  BY <1>2, <1>7 DEF Good

\* A value that is taken is there, and so is what was there before.
LEMMA TakenStays ==
  ASSUME NEW S, NEW out \in Seq(S), NEW v \in S
  PROVE  /\ ToSet(out) \subseteq ToSet(Taken(out, v))
         /\ ~ IsBlank(v) => v \in ToSet(Taken(out, v))
<1>1. CASE Taken(out, v) = out
  <2>1. v \in {""} \cup ToSet(out)
    <3>1. CASE v \notin {""} \cup ToSet(out)
      <4> DEFINE longer == Append(out, v)
      <4>1. longer = out
        BY <1>1, <3>1 DEF Taken
      <4>2. PICK n \in Nat : n = Len(out) /\ Len(longer) = n + 1
        BY AppendProperties
      <4> HIDE DEF longer
      <4>3. n = n + 1
        BY <4>1, <4>2
      <4>4. n # n + 1
        OBVIOUS
      <4>5. QED
        BY <4>3, <4>4
    <3>2. QED
      BY <3>1
  <2>2. QED
    BY <1>1, <2>1 DEF IsBlank
<1>2. CASE Taken(out, v) # out
  <2>1. Taken(out, v) = Append(out, v)
    BY <1>2 DEF Taken
  <2>2. /\ DOMAIN out = 1..Len(out) /\ Len(out) \in Nat
        /\ DOMAIN Append(out, v) = 1..(Len(out) + 1)
        /\ \A i \in 1..Len(out) : Append(out, v)[i] = out[i]
        /\ Append(out, v)[Len(out) + 1] = v
    BY AppendProperties
  <2>3. ToSet(out) \subseteq ToSet(Append(out, v))
    <3> SUFFICES ASSUME NEW i \in DOMAIN out PROVE out[i] \in ToSet(Append(out, v))
      BY DEF ToSet
    <3>1. i \in DOMAIN Append(out, v) /\ Append(out, v)[i] = out[i]
      BY <2>2
    <3>2. QED
      BY <3>1 DEF ToSet
  <2>4. v \in ToSet(Append(out, v))
    <3>1. Len(out) + 1 \in DOMAIN Append(out, v)
      BY <2>2
    <3>2. QED
      BY <2>2, <3>1 DEF ToSet
  <2>5. QED
    BY <2>1, <2>3, <2>4
<1>3. QED
  BY <1>1, <1>2

\* No value is lost but a blank.
LEMMA UniqueKeepsAll ==
  ASSUME NEW S, NEW values \in Seq(S)
  PROVE  \A i \in 1..Len(values) : ~ IsBlank(values[i]) => values[i] \in ToSet(uniqueStrings(values))
<1> DEFINE n == Len(values)  out == Loop(values)
           Good(l, i) == /\ l \in Seq(S)
                         /\ \A j \in 1..i : ~ IsBlank(values[j]) => values[j] \in ToSet(l)
           T == {i \in 0..n : Good(out[i], i)}
<1>1. n \in Nat
  OBVIOUS
<1>2. IsLoop(values, out) /\ uniqueStrings(values) = out[n]
  BY <1>1, LoopRuns
<1> HIDE DEF out
<1>3. out[0] = <<>> /\ \A i \in 1..n : out[i] = Taken(out[i - 1], values[i])
  BY <1>1, <1>2 DEF IsLoop
<1>4. Good(out[0], 0)
  BY <1>3
<1>5. ASSUME NEW i \in 1..n, Good(out[i - 1], i - 1) PROVE Good(out[i], i)
  <2> DEFINE l == out[i - 1]
  <2>1. values[i] \in S /\ out[i] = Taken(l, values[i]) /\ l \in Seq(S)
    BY <1>3, <1>5
  <2>2. \A j \in 1..(i - 1) : ~ IsBlank(values[j]) => values[j] \in ToSet(l)
    BY <1>5
  <2> HIDE DEF l
  <2>3. out[i] \in Seq(S)
    BY <2>1, TakenIs
  <2>4. ToSet(l) \subseteq ToSet(out[i]) /\ (~ IsBlank(values[i]) => values[i] \in ToSet(out[i]))
    BY <2>1, TakenStays
  <2>5. ASSUME NEW j \in 1..i, ~ IsBlank(values[j]) PROVE values[j] \in ToSet(out[i])
    <3>1. j = i \/ j \in 1..(i - 1)
      OBVIOUS
    <3>2. QED
      BY <2>2, <2>4, <2>5, <3>1
  <2>6. QED
    BY <2>3, <2>5
<1> HIDE DEF Good
<1>6. \A i \in 0..n : i \in T
  <2>1. 0 \in T
    BY <1>1, <1>4
  <2>2. \A i \in 1..n : i - 1 \in T => i \in T
    BY <1>1, <1>5
  <2> HIDE DEF T
  <2>3. QED
    BY <1>1, <2>1, <2>2, AllUpTo
<1>7. Good(out[n], n)
  BY <1>1, <1>6
<1>8. QED
  BY <1>2, <1>7 DEF Good

\* Different values with no blank before them are taken as they are.
LEMMA UniqueFromDistinct ==
  ASSUME NEW S, NEW values \in Seq(S), NEW m \in 0..Len(values),
         \A i \in 1..m : ~ IsBlank(values[i]) /\ \A j \in 1..(i - 1) : values[j] # values[i],
         \A i \in (m + 1)..Len(values) : IsBlank(values[i])
  PROVE  uniqueStrings(values) = SubSeq(values, 1, m)
<1> DEFINE n == Len(values)  out == Loop(values)
           Kept(i) == SubSeq(values, 1, IF i <= m THEN i ELSE m)
           T == {i \in 0..n : out[i] = Kept(i)}
<1>1. n \in Nat /\ m \in 0..n
  OBVIOUS
<1>2. IsLoop(values, out) /\ uniqueStrings(values) = out[n]
  BY <1>1, LoopRuns
<1> HIDE DEF out
<1>3. out[0] = <<>> /\ \A i \in 1..n : out[i] = Taken(out[i - 1], values[i])
  BY <1>1, <1>2 DEF IsLoop
<1>4. \A i \in 0..m : /\ SubSeq(values, 1, i) \in Seq(S) /\ Len(SubSeq(values, 1, i)) = i
                      /\ \A j \in 1..i : SubSeq(values, 1, i)[j] = values[j]
  <2> SUFFICES ASSUME NEW i \in 0..m
               PROVE  /\ SubSeq(values, 1, i) \in Seq(S) /\ Len(SubSeq(values, 1, i)) = i
                      /\ \A j \in 1..i : SubSeq(values, 1, i)[j] = values[j]
    OBVIOUS
  <2>1. \A j \in 1..i : values[j] \in S
    BY <1>1
  <2>2. QED
    BY <1>1, <2>1, SubSeqProperties
<1>5. Kept(0) = <<>>
  BY <1>1, <1>4
<1>6. ASSUME NEW i \in 1..n, out[i - 1] = Kept(i - 1) PROVE out[i] = Kept(i)
  <2>1. out[i] = Taken(Kept(i - 1), values[i])
    BY <1>3, <1>6
  <2>2. CASE i <= m
    <3> DEFINE l == SubSeq(values, 1, i - 1)
    <3>1. Kept(i - 1) = l /\ Kept(i) = SubSeq(values, 1, i)
      BY <1>1, <2>2
    <3>2. /\ l \in Seq(S) /\ Len(l) = i - 1 /\ \A j \in 1..(i - 1) : l[j] = values[j]
      BY <1>1, <1>4, <2>2
    <3>3. SubSeq(values, 1, i) \in Seq(S) /\ Len(SubSeq(values, 1, i)) = i
          /\ \A j \in 1..i : SubSeq(values, 1, i)[j] = values[j]
      BY <1>1, <1>4, <2>2
    <3> HIDE DEF l, Kept
    <3>4. ~ IsBlank(values[i]) /\ values[i] \notin ToSet(l) /\ values[i] \in S
      BY <1>1, <2>2, <3>2 DEF ToSet
    <3>5. Taken(l, values[i]) = Append(l, values[i])
      BY <3>4 DEF Taken, IsBlank
    <3> DEFINE a == Append(l, values[i])  b == SubSeq(values, 1, i)
    <3>6. a \in Seq(S) /\ Len(a) = i /\ \A j \in 1..i : a[j] = values[j]
      BY <1>1, <3>2, <3>4, AppendProperties
    <3>7. b \in Seq(S) /\ Len(b) = i /\ \A j \in 1..i : b[j] = values[j]
      BY <3>3
    <3> HIDE DEF a, b
    <3>8. a = b
      BY <3>6, <3>7, SeqEqual
    <3>9. QED
      BY <2>1, <3>1, <3>5, <3>8 DEF a, b
  <2>3. CASE ~ (i <= m)
    <3>1. Kept(i - 1) = SubSeq(values, 1, m) /\ Kept(i) = SubSeq(values, 1, m)
      <4>1. i - 1 <= m => i - 1 = m
        BY <1>1, <2>3
      <4>2. QED
        BY <2>3, <4>1
    <3>2. IsBlank(values[i])
      BY <1>1, <2>3
    <3> HIDE DEF Kept
    <3>3. Taken(Kept(i - 1), values[i]) = Kept(i - 1)
      BY <3>2 DEF Taken, IsBlank
    <3>4. QED
      BY <2>1, <3>1, <3>3
  <2>4. QED
    BY <2>2, <2>3
<1> HIDE DEF Kept
<1>7. \A i \in 0..n : i \in T
  <2>1. 0 \in T
    BY <1>1, <1>3, <1>5
  <2>2. \A i \in 1..n : i - 1 \in T => i \in T
    BY <1>1, <1>6
  <2> HIDE DEF T
  <2>3. QED
    BY <1>1, <2>1, <2>2, AllUpTo
<1>8. out[n] = Kept(n)
  BY <1>1, <1>7
<1>9. Kept(n) = SubSeq(values, 1, m)
  BY <1>1 DEF Kept
<1>10. QED
  BY <1>2, <1>8, <1>9

-----------------------------------------------------------------------------
(* The inductive invariant                                                 *)

IsList(s) == s \in Seq(ToSet(s))

BlockFields == {"name", "prefix", "url", "disabled", "keys", "models"}

\* The keys that were ever configured or may have been typed in
KeysAround ==
  {NewKey} \cup UNION {ToSet(b.keys) : b \in UNION {ToSet(c.blocks) : c \in Configs}}

\* Blocks and their keys are lists, no key is one nobody wrote, and a section
\* may be in each of its places.
ConfigOK(c) ==
  /\ {"sections", "blocks", "path"} \subseteq DOMAIN c /\ IsList(c.blocks)
  /\ DOMAIN c.sections = ToSet(Places)
  /\ \A i \in DOMAIN c.blocks : /\ BlockFields \subseteq DOMAIN c.blocks[i]
                                /\ IsList(c.blocks[i].keys)
                                /\ ToSet(c.blocks[i].keys) \subseteq KeysAround

\* A key row holds nothing but what was typed into it.
RowsOK(rows) ==
  /\ IsList(rows)
  /\ \A i \in DOMAIN rows : /\ {"existing", "value", "of"} \subseteq DOMAIN rows[i]
                            /\ rows[i].value \in {"", NewKey}

PageOK(p) == {"rows", "picker"} \subseteq DOMAIN p /\ RowsOK(p.rows)

ExtractWith(c, known) == extractProviderSpec(loadSettings(c.sections), c.blocks, known)

\* A provider some configuration has that there was or may have been: all of
\* it is of that one, but for the models it may have from the cache file.
Mirrored(spec) == \E c, known : ConfigOK(c) /\ spec = ExtractWith(c, known)

\* What is cached, and what was read and is still to be stored, is such a
\* provider, and not always that of the configuration there is.
CacheInv == cache # None => Mirrored(cache)
ReadingInv ==
  /\ DOMAIN reading = Resolvers
  /\ \A r \in Resolvers : reading[r] # None => Mirrored(reading[r])

\* The entries of one answer
EntriesOf(r) == saveModelCatalog(parseOpenAIModelSpecs(r.items))
Answers == {[kind |-> "catalog", entries |-> EntriesOf(r)] : r \in Replies}

CatalogInv == catalog \in Files \cup {Broken} \cup Answers

\* What a fetcher is to write is one answer, and a page asked for it.
WritingInv ==
  /\ DOMAIN writing = Fetchers
  /\ \A f \in Fetchers : writing[f] # None =>
       /\ {"step", "entries"} \subseteq DOMAIN writing[f] /\ PageOK(page)
       /\ \E r \in Replies : writing[f].entries = EntriesOf(r)

IInv ==
  /\ ConfigOK(config) /\ (page # None => PageOK(page))
  /\ CacheInv /\ ReadingInv /\ CatalogInv /\ WritingInv

LEMMA SeqIsList ==
  ASSUME NEW S, NEW s \in Seq(S)
  PROVE  IsList(s)
<1>1. Len(s) \in Nat /\ DOMAIN s = 1..Len(s) /\ s \in [1..Len(s) -> ToSet(s)]
  BY DEF ToSet
<1>2. QED
  BY <1>1 DEF IsList

LEMMA ListIs ==
  ASSUME NEW s, IsList(s)
  PROVE  Len(s) \in Nat /\ DOMAIN s = 1..Len(s) /\ \A i \in 1..Len(s) : s[i] \in ToSet(s)
BY DEF IsList, ToSet

LEMMA MappedIsList ==
  ASSUME NEW s, IsList(s), NEW F, DOMAIN F = DOMAIN s, F = [i \in DOMAIN s |-> F[i]]
  PROVE  IsList(F)
<1>1. Len(s) \in Nat /\ DOMAIN s = 1..Len(s)
  BY ListIs
<1>2. F \in [1..Len(s) -> {F[i] : i \in 1..Len(s)}]
  BY <1>1
<1>3. F \in Seq({F[i] : i \in 1..Len(s)})
  BY <1>1, <1>2
<1>4. QED
  BY <1>3, SeqIsList

\* A provider that is found is one of the blocks.
LEMMA FoundIsBlock ==
  ASSUME NEW c, ConfigOK(c), NEW known, ExtractWith(c, known) # None
  PROVE  \E j \in DOMAIN c.blocks : \A any :
           ExtractWith(c, any) = SpecOf(c.blocks[j], any)
<1> DEFINE s == loadSettings(c.sections)  blocks == c.blocks
           matched == {i \in DOMAIN blocks : matchDiscoveredProvider(s, blocks[i])}
           live    == {i \in matched : ~ blocks[i].disabled}
           pool    == IF live # {} THEN live ELSE matched
           j       == CHOOSE i \in pool : \A k \in pool : i <= k
<1>1. matched # {}
  BY DEF ExtractWith, extractProviderSpec
<1>2. pool # {} /\ pool \in SUBSET (DOMAIN blocks)
  BY <1>1
<1>3. DOMAIN blocks \in SUBSET Nat
  BY ListIs DEF ConfigOK
<1>4. \E i \in pool : \A k \in pool : i <= k
  <2> HIDE DEF pool
  <2>1. pool \in SUBSET Nat
    BY <1>2, <1>3
  <2>2. QED
    BY <1>2, <2>1, LeastExists
<1>5. j \in pool
  <2> HIDE DEF pool
  <2>1. QED
    BY <1>4
<1>6. \A any : ExtractWith(c, any) = SpecOf(blocks[j], any)
  BY <1>1, Zenon DEF ExtractWith, extractProviderSpec
<1>7. QED
  <2>1. j \in DOMAIN blocks
    BY <1>2, <1>5
  <2> HIDE DEF j
  <2>2. QED
    BY <1>6, <2>1

LEMMA ConfigsAre == \A c \in Configs : ConfigOK(c)
<1> SUFFICES ASSUME NEW c \in Configs PROVE ConfigOK(c)
  OBVIOUS
<1>1. /\ {"sections", "blocks", "path"} \subseteq DOMAIN c /\ c.blocks \in Seq(ToSet(c.blocks))
      /\ DOMAIN c.sections = ToSet(Places)
      /\ \A b \in ToSet(c.blocks) : BlockFields \subseteq DOMAIN b /\ b.keys \in Seq(ToSet(b.keys))
  BY EditorAssumption DEF BlockFields
<1>2. \A i \in DOMAIN c.blocks : c.blocks[i] \in ToSet(c.blocks)
  BY DEF ToSet
<1>3. \A b \in ToSet(c.blocks) : ToSet(b.keys) \subseteq KeysAround
  BY DEF KeysAround
<1>4. QED
  BY <1>1, <1>2, <1>3 DEF ConfigOK, IsList

LEMMA InitInv == Init => IInv
<1> SUFFICES ASSUME Init PROVE IInv
  OBVIOUS
<1>1. \A c \in Configs : ConfigOK(c)
  BY ConfigsAre
<1>2. ConfigOK(config) /\ (page # None => PageOK(page))
  BY <1>1 DEF Init
<1>3. CacheInv /\ ReadingInv /\ CatalogInv
  BY DEF Init, CacheInv, ReadingInv, CatalogInv
<1>4. WritingInv
  BY DEF Init, WritingInv
<1>5. QED
  BY <1>2, <1>3, <1>4 DEF IInv

-----------------------------------------------------------------------------
(* What changes the page                                                   *)

LEMMA OtherRows ==
  ASSUME NEW p, PageOK(p), NEW rows, RowsOK(rows)
  PROVE  PageOK([p EXCEPT !.rows = rows])
BY DEF PageOK

LEMMA AddedRow ==
  ASSUME NEW rows, RowsOK(rows)
  PROVE  RowsOK(Append(rows, [existing |-> FALSE, value |-> "", of |-> ""]))
<1> DEFINE r == [existing |-> FALSE, value |-> "", of |-> ""]
           S == ToSet(rows) \cup {r}  after == Append(rows, r)
<1>1. rows \in Seq(S) /\ r \in S
  <2>1. rows \in Seq(ToSet(rows))
    BY DEF RowsOK, IsList
  <2> HIDE DEF r
  <2>2. QED
    BY <2>1
<1>2. {"existing", "value", "of"} \subseteq DOMAIN r /\ r.value \in {"", NewKey}
  OBVIOUS
<1> HIDE DEF r, S
<1>3. /\ after \in Seq(S) /\ Len(after) = Len(rows) + 1
      /\ \A i \in 1..Len(rows) : after[i] = rows[i]
      /\ after[Len(rows) + 1] = r
  BY <1>1, AppendProperties
<1>4. IsList(after)
  BY <1>3, SeqIsList
<1>5. \A i \in DOMAIN after : i \in 1..Len(rows) \/ i = Len(rows) + 1
  BY <1>1, <1>3
<1>6. DOMAIN rows = 1..Len(rows)
  BY <1>1
<1> HIDE DEF after
<1>7. QED
  BY <1>2, <1>3, <1>4, <1>5, <1>6 DEF RowsOK, r, after

LEMMA TypedRow ==
  ASSUME NEW rows, RowsOK(rows), NEW i \in DOMAIN rows
  PROVE  RowsOK([rows EXCEPT ![i].value = NewKey])
<1> DEFINE after == [rows EXCEPT ![i].value = NewKey]
<1>1. DOMAIN after = DOMAIN rows /\ after = [j \in DOMAIN rows |-> after[j]]
  OBVIOUS
<1>2. IsList(after)
  BY <1>1, MappedIsList DEF RowsOK
<1>3. ASSUME NEW j \in DOMAIN after
      PROVE  {"existing", "value", "of"} \subseteq DOMAIN after[j] /\ after[j].value \in {"", NewKey}
  BY DEF RowsOK
<1>4. QED
  BY <1>2, <1>3 DEF RowsOK

LEMMA RemovedRow ==
  ASSUME NEW rows, RowsOK(rows), NEW i \in DOMAIN rows
  PROVE  RowsOK(RemoveAt(rows, i))
<1> DEFINE S == ToSet(rows)  n == Len(rows)
           head == SubSeq(rows, 1, i - 1)  tail == SubSeq(rows, i + 1, n)
<1>1. rows \in Seq(S) /\ n \in Nat /\ DOMAIN rows = 1..n
  BY ListIs DEF RowsOK, IsList
<1>2. head \in Seq(S) /\ tail \in Seq(S)
  <2>1. \A j \in 1..(i - 1) : rows[j] \in S
    BY <1>1
  <2>2. \A j \in (i + 1)..n : rows[j] \in S
    BY <1>1
  <2>3. QED
    BY <1>1, <2>1, <2>2, SubSeqProperties
<1>3. RemoveAt(rows, i) \in Seq(S)
  <2>1. RemoveAt(rows, i) = head \o tail
    BY DEF RemoveAt
  <2> HIDE DEF head, tail
  <2>2. QED
    BY <1>2, <2>1, ConcatProperties
<1>4. \A r \in S : {"existing", "value", "of"} \subseteq DOMAIN r /\ r.value \in {"", NewKey}
  BY DEF RowsOK, ToSet
<1> HIDE DEF S
<1>5. \A j \in DOMAIN RemoveAt(rows, i) : RemoveAt(rows, i)[j] \in S
  BY <1>3
<1>6. QED
  BY <1>3, <1>4, <1>5, SeqIsList DEF RowsOK

LEMMA BlankRow ==
  RowsOK(<<[existing |-> FALSE, value |-> "", of |-> ""]>>)
<1> DEFINE r == [existing |-> FALSE, value |-> "", of |-> ""]  one == <<r>>
<1>1. {"existing", "value", "of"} \subseteq DOMAIN r /\ r.value \in {"", NewKey}
  OBVIOUS
<1> HIDE DEF r
<1>2. one \in Seq({r}) /\ DOMAIN one = 1..1 /\ one[1] = r
  OBVIOUS
<1> HIDE DEF one
<1>3. IsList(one)
  BY <1>2, SeqIsList
<1>4. \A i \in DOMAIN one : one[i] = r
  BY <1>2
<1>5. QED
  BY <1>1, <1>3, <1>4 DEF RowsOK, one, r

LEMMA RowsOfKeys ==
  ASSUME NEW keys, IsList(keys)
  PROVE  RowsOK([i \in DOMAIN keys |-> [existing |-> TRUE, value |-> "", of |-> keys[i]]])
<1> DEFINE shown == [i \in DOMAIN keys |-> [existing |-> TRUE, value |-> "", of |-> keys[i]]]
<1>1. DOMAIN shown = DOMAIN keys /\ shown = [i \in DOMAIN keys |-> shown[i]]
  OBVIOUS
<1>2. \A i \in DOMAIN shown : /\ {"existing", "value", "of"} \subseteq DOMAIN shown[i]
                               /\ shown[i].value \in {"", NewKey}
  OBVIOUS
<1> HIDE DEF shown
<1>3. IsList(shown)
  BY <1>1, MappedIsList
<1>4. QED
  BY <1>2, <1>3 DEF RowsOK, shown

\* The rows of a page that is loaded
LEMMA LoadedPage ==
  ASSUME NEW spec, IsList(spec.keys), NEW s
  PROVE  PageOK(PageOf(spec, s))
<1>1. {"rows", "picker"} \subseteq DOMAIN PageOf(spec, s)
  BY DEF PageOf
<1>2. PageOf(spec, s).rows
        = IF spec.keys = <<>> THEN <<[existing |-> FALSE, value |-> "", of |-> ""]>>
          ELSE [i \in DOMAIN spec.keys |-> [existing |-> TRUE, value |-> "", of |-> spec.keys[i]]]
  BY DEF PageOf
<1>3. RowsOK(PageOf(spec, s).rows)
  BY <1>2, BlankRow, RowsOfKeys
<1>4. QED
  BY <1>1, <1>3 DEF PageOK

-----------------------------------------------------------------------------
(* What a save writes                                                      *)

\* The block that is found is one there is.
LEMMA HitIsBlock ==
  ASSUME NEW blocks, IsList(blocks), NEW p, findEditableProviderIndex(blocks, p) # 0
  PROVE  findEditableProviderIndex(blocks, p) \in DOMAIN blocks
<1> DEFINE loaded  == {i \in DOMAIN blocks :
                        /\ blocks[i].name = p.orig.name /\ upstreamBaseURL(blocks[i]) = p.orig.url
                        /\ p.orig.prefix \in {<<>>, blocks[i].prefix}}
           renamed == {i \in DOMAIN blocks :
                        blocks[i].name = p.name \/ upstreamBaseURL(blocks[i]) = p.url}
           i == findEditableProviderIndex(blocks, p)
<1>1. Len(blocks) \in Nat /\ DOMAIN blocks = 1..Len(blocks)
  BY ListIs
<1>2. i = IF FirstOf(loaded) # 0 THEN FirstOf(loaded) ELSE FirstOf(renamed)
  BY DEF findEditableProviderIndex, RenamedIndex
<1>3. loaded \in SUBSET (1..Len(blocks)) /\ renamed \in SUBSET (1..Len(blocks))
  BY <1>1
<1> HIDE DEF loaded, renamed
<1>4. /\ FirstOf(loaded) # 0 => FirstOf(loaded) \in loaded
      /\ FirstOf(renamed) # 0 => FirstOf(renamed) \in renamed
  BY <1>1, <1>3, FirstFound
<1>5. QED
  BY <1>1, <1>2, <1>3, <1>4

\* What a row says is what was typed, the key at its place, or nothing.
LEMMA RowValuesAre ==
  ASSUME NEW rows, RowsOK(rows), NEW current, IsList(current)
  PROVE  LET values == RowValues(rows, current)
         IN  /\ values \in Seq({NewKey, ""} \cup ToSet(current))
             /\ Len(values) = Len(rows) /\ Len(rows) \in Nat /\ DOMAIN rows = 1..Len(rows)
<1> DEFINE values == RowValues(rows, current)  S == {NewKey, ""} \cup ToSet(current)
<1>1. Len(rows) \in Nat /\ DOMAIN rows = 1..Len(rows)
  BY ListIs DEF RowsOK
<1>2. \A i \in 1..Len(rows) : values[i] \in S
  <2> SUFFICES ASSUME NEW i \in 1..Len(rows) PROVE values[i] \in S
    OBVIOUS
  <2>1. rows[i].value \in {"", NewKey}
    BY <1>1 DEF RowsOK
  <2>2. i <= Len(current) => current[i] \in ToSet(current)
    BY <1>1, ListIs
  <2>3. QED
    BY <1>1, <2>1, <2>2 DEF RowValues
<1>3. values = [i \in 1..Len(rows) |-> values[i]]
  BY <1>1 DEF RowValues
<1> HIDE DEF values, S
<1>4. values \in [1..Len(rows) -> S]
  BY <1>2, <1>3
<1>5. values \in Seq(S) /\ Len(values) = Len(rows)
  BY <1>1, <1>4
<1>6. QED
  BY <1>1, <1>5 DEF values, S

LEMMA PatchedKeysAre ==
  ASSUME NEW p, RowsOK(p.rows), NEW current, IsList(current)
  PROVE  /\ IsList(PatchedKeys(p, current))
         /\ ToSet(PatchedKeys(p, current)) \subseteq ToSet(current) \cup {NewKey}
         /\ ToSet(current) # {} => ToSet(PatchedKeys(p, current)) # {}
<1> DEFINE values == RowValues(p.rows, current)  S == {NewKey, ""} \cup ToSet(current)
           keys == KeysOfRows(p.rows, current)
<1>1. values \in Seq(S)
  BY RowValuesAre
<1>2. keys = uniqueStrings(values)
  BY DEF KeysOfRows
<1> HIDE DEF values, keys
<1>3. keys \in Seq(S) /\ \A k \in ToSet(keys) : ~ IsBlank(k) /\ \E i \in 1..Len(values) : k = values[i]
  BY <1>1, <1>2, UniqueFromValues
<1> HIDE DEF S
<1>4. \A k \in ToSet(keys) : k \in S /\ ~ IsBlank(k)
  <2>1. \A k \in ToSet(keys) : k \in S
    BY <1>3 DEF ToSet
  <2>2. QED
    BY <1>3, <2>1
<1>5. ToSet(keys) \subseteq ToSet(current) \cup {NewKey}
  BY <1>4 DEF IsBlank, S
<1>6. IsList(keys)
  BY <1>3, SeqIsList
<1>7. keys # <<>> => ToSet(keys) # {}
  <2>1. keys # <<>> => 1 \in DOMAIN keys
    BY <1>3
  <2>2. QED
    BY <2>1 DEF ToSet
<1>8. PatchedKeys(p, current) = IF keys = <<>> THEN current ELSE keys
  BY DEF PatchedKeys, keys
<1>9. QED
  BY <1>5, <1>6, <1>7, <1>8

\* What a save makes of the block it hits and of the others
LEMMA SavedBlocks ==
  ASSUME NEW c, ConfigOK(c), NEW p, PageOK(p), findEditableProviderIndex(c.blocks, p) # 0
  PROVE  LET i == findEditableProviderIndex(c.blocks, p)  after == patchProviderConfig(c, p)
         IN  /\ i \in DOMAIN c.blocks /\ DOMAIN after = DOMAIN c
             /\ after.blocks = [c.blocks EXCEPT ![i] = PatchedBlock(c.blocks[i], p)]
             /\ after.blocks[i].keys = PatchedKeys(p, c.blocks[i].keys)
             /\ ConfigOK(after)
<1> DEFINE i == findEditableProviderIndex(c.blocks, p)  after == patchProviderConfig(c, p)
           b == c.blocks[i]  q == PatchedBlock(b, p)
<1>1. i \in DOMAIN c.blocks
  BY HitIsBlock DEF ConfigOK
<1>2. /\ DOMAIN after = DOMAIN c /\ after.blocks = [c.blocks EXCEPT ![i] = q]
      /\ DOMAIN after.sections = DOMAIN c.sections
  BY <1>1 DEF patchProviderConfig, ConfigOK
<1>3. IsList(b.keys) /\ BlockFields \subseteq DOMAIN b
  BY <1>1 DEF ConfigOK
<1>4. DOMAIN q = DOMAIN b /\ q.keys = PatchedKeys(p, b.keys)
  BY <1>3 DEF PatchedBlock, BlockFields
<1>5. IsList(q.keys) /\ ToSet(q.keys) \subseteq KeysAround
  <2>1. ToSet(b.keys) \subseteq KeysAround /\ NewKey \in KeysAround
    BY <1>1 DEF ConfigOK, KeysAround
  <2> HIDE DEF b, q
  <2>2. IsList(q.keys) /\ ToSet(q.keys) \subseteq ToSet(b.keys) \cup {NewKey}
    BY <1>3, <1>4, PatchedKeysAre DEF PageOK
  <2>3. QED
    BY <2>1, <2>2
<1> HIDE DEF i, after, b, q
<1>6. after.blocks[i] = q
  BY <1>1, <1>2
<1>7. IsList(after.blocks)
  <2>1. DOMAIN after.blocks = DOMAIN c.blocks /\ after.blocks = [k \in DOMAIN c.blocks |-> after.blocks[k]]
    BY <1>2
  <2>2. QED
    BY <2>1, MappedIsList DEF ConfigOK
<1>8. ConfigOK(after)
  <2>1. {"sections", "blocks", "path"} \subseteq DOMAIN after /\ DOMAIN after.sections = ToSet(Places)
    BY <1>2 DEF ConfigOK
  <2>2. ASSUME NEW k \in DOMAIN after.blocks
        PROVE  /\ BlockFields \subseteq DOMAIN after.blocks[k] /\ IsList(after.blocks[k].keys)
               /\ ToSet(after.blocks[k].keys) \subseteq KeysAround
    BY <1>2, <1>3, <1>4, <1>5 DEF ConfigOK
  <2>3. QED
    BY <1>7, <2>1, <2>2 DEF ConfigOK
<1>9. QED
  BY <1>1, <1>2, <1>4, <1>6, <1>8 DEF i, after, b, q

-----------------------------------------------------------------------------
(* The invariant is kept                                                   *)

LEMMA ResolutionIs ==
  ASSUME IInv, Resolution # None
  PROVE  Mirrored(Resolution)
<1>1. CASE cache = None
  <2>1. Resolution = ExtractWith(config, loadModelCatalog(catalog))
    BY <1>1 DEF Resolution, Extract, ExtractWith
  <2>2. QED
    BY <2>1 DEF Mirrored, IInv
<1>2. CASE cache # None
  BY <1>2 DEF Resolution, IInv, CacheInv
<1>3. QED
  BY <1>1, <1>2

\* Whoever resolves, for whichever configuration, leaves such providers.
LEMMA ResolvesInv ==
  ASSUME ReadingInv, NEW cached, cached # None => Mirrored(cached),
         NEW c, ConfigOK(c), Resolves(cached, c)
  PROVE  CacheInv' /\ ReadingInv'
<1>1. Mirrored(Extract(c))
  BY DEF Extract, ExtractWith, Mirrored
<1>2. CASE cached # None /\ cache' = cached /\ UNCHANGED reading
  BY <1>2 DEF CacheInv, ReadingInv
<1>3. CASE cache' = Extract(c) /\ UNCHANGED reading
  BY <1>1, <1>3 DEF CacheInv, ReadingInv
<1>4. ASSUME NEW r \in Resolvers, cache' = None, reading' = [reading EXCEPT ![r] = Extract(c)]
      PROVE  CacheInv' /\ ReadingInv'
  BY <1>1, <1>4 DEF CacheInv, ReadingInv
<1>5. QED
  BY <1>2, <1>3, <1>4 DEF Resolves

LEMMA StoresInv ==
  ASSUME IInv, NEW r \in Resolvers, Stores(r)
  PROVE  IInv'
<1>1. CacheInv' /\ ReadingInv'
  BY DEF Stores, IInv, CacheInv, ReadingInv
<1>2. QED
  BY <1>1 DEF Stores, IInv, CatalogInv, WritingInv

LEMMA EditInv ==
  ASSUME IInv, NEW p, page # None, PageOK(p), page' = p,
         UNCHANGED <<config, cache, reading, catalog, writing>>
  PROVE  IInv'
<1>1. PageOK(page')
  OBVIOUS
<1>2. ConfigOK(config') /\ CacheInv' /\ ReadingInv' /\ CatalogInv'
  BY DEF IInv, CacheInv, ReadingInv, CatalogInv
<1>3. WritingInv'
  BY <1>1 DEF IInv, WritingInv
<1>4. QED
  BY <1>1, <1>2, <1>3 DEF IInv

\* Whatever is changed on the page by hand
LEMMA EditPageInv ==
  ASSUME IInv, EditPage
  PROVE  IInv'
<1>1. page # None /\ UNCHANGED <<config, cache, reading, catalog, writing>>
  BY DEF EditPage, AddKeyRow, TypeKey, RemoveKey, TypeSecret, RenameIt, SwitchIt, RemoveModel,
         TickImage, TickNone, PickModels, Edit
<1>2. PageOK(page) /\ RowsOK(page.rows)
  BY <1>1 DEF IInv, PageOK
<1>3. CASE AddKeyRow
  <2>1. page' = [page EXCEPT !.rows = Append(page.rows, [existing |-> FALSE, value |-> "", of |-> ""])]
    BY <1>3 DEF AddKeyRow, Edit
  <2>2. PageOK(page')
    BY <1>2, <2>1, AddedRow, OtherRows
  <2>3. QED
    BY <1>1, <2>2, EditInv
<1>4. CASE TypeKey
  <2>1. PICK i \in DOMAIN page.rows : page' = [page EXCEPT !.rows[i].value = NewKey]
    BY <1>4 DEF TypeKey, Edit
  <2>2. page' = [page EXCEPT !.rows = [page.rows EXCEPT ![i].value = NewKey]]
    BY <2>1
  <2>3. PageOK(page')
    BY <1>2, <2>2, TypedRow, OtherRows
  <2>4. QED
    BY <1>1, <2>3, EditInv
<1>5. CASE RemoveKey
  <2>1. PICK i \in DOMAIN page.rows : page' = [page EXCEPT !.rows = RemoveAt(page.rows, i)]
    BY <1>5 DEF RemoveKey, Edit
  <2>2. PageOK(page')
    BY <1>2, <2>1, RemovedRow, OtherRows
  <2>3. QED
    BY <1>1, <2>2, EditInv
<1>6. CASE TypeSecret \/ RenameIt \/ SwitchIt
  <2>1. PageOK(page')
    BY <1>2, <1>6 DEF TypeSecret, RenameIt, SwitchIt, Edit, PageOK
  <2>2. QED
    BY <1>1, <2>1, EditInv
<1>7. CASE RemoveModel \/ TickImage \/ TickNone
  <2>1. PICK models : page' = [page EXCEPT !.models = models]
    BY <1>7 DEF RemoveModel, TickImage, TickNone, Edit
  <2>2. PageOK(page')
    BY <1>2, <2>1 DEF PageOK
  <2>3. QED
    BY <1>1, <2>2, EditInv
<1>8. CASE PickModels
  <2>1. PICK models : page' = [page EXCEPT !.picker = {}, !.models = models]
    BY <1>8 DEF PickModels
  <2>2. PageOK(page')
    BY <1>2, <2>1 DEF PageOK
  <2>3. QED
    BY <1>1, <2>2, EditInv
<1>9. QED
  BY <1>3, <1>4, <1>5, <1>6, <1>7, <1>8 DEF EditPage

LEMMA SaveInv ==
  ASSUME IInv, Save
  PROVE  IInv'
<1> DEFINE rows == [i \in DOMAIN page.rows |-> IF page.rows[i].value = "" THEN page.rows[i]
                      ELSE [existing |-> TRUE, value |-> "", of |-> page.rows[i].value]]
<1>1. PageOK(page) /\ RowsOK(page.rows) /\ ConfigOK(config)
  BY DEF IInv, Save, PageOK
<1>2. ConfigOK(config')
  BY <1>1, SavedBlocks DEF Save
<1>3. RowsOK(rows)
  <2>1. DOMAIN rows = DOMAIN page.rows /\ rows = [i \in DOMAIN page.rows |-> rows[i]]
    OBVIOUS
  <2>2. IsList(rows)
    <3> HIDE DEF rows
    <3>1. QED
      BY <1>1, <2>1, MappedIsList DEF RowsOK
  <2>3. ASSUME NEW i \in DOMAIN rows
        PROVE  {"existing", "value", "of"} \subseteq DOMAIN rows[i] /\ rows[i].value \in {"", NewKey}
    <3>1. i \in DOMAIN page.rows /\ {"existing", "value", "of"} \subseteq DOMAIN page.rows[i]
      BY <1>1, <2>1, <2>3 DEF RowsOK
    <3>2. CASE page.rows[i].value = ""
      <4>1. rows[i] = page.rows[i]
        BY <3>1, <3>2
      <4>2. QED
        BY <3>1, <3>2, <4>1
    <3>3. CASE page.rows[i].value # ""
      <4>1. rows[i] = [existing |-> TRUE, value |-> "", of |-> page.rows[i].value]
        BY <3>1, <3>3
      <4>2. QED
        BY <4>1
    <3>4. QED
      BY <3>2, <3>3
  <2> HIDE DEF rows
  <2>4. QED
    BY <2>2, <2>3 DEF RowsOK
<1>4. page' = [page EXCEPT !.rows = rows]
  BY <1>1 DEF Save, PageOK
<1> HIDE DEF rows
<1>5. PageOK(page')
  BY <1>1, <1>3, <1>4, OtherRows
<1>6. CacheInv' /\ ReadingInv'
  <2>1. Resolves(None, config')
    BY DEF Save
  <2>2. QED
    BY <1>2, <2>1, ResolvesInv DEF IInv
<1>7. CatalogInv'
  BY DEF Save, IInv, CatalogInv
<1>8. WritingInv'
  BY <1>5 DEF Save, IInv, WritingInv
<1>9. QED
  BY <1>2, <1>5, <1>6, <1>7, <1>8 DEF IInv

LEMMA LoadInv ==
  ASSUME IInv, Load
  PROVE  IInv'
<1>1. PICK c, known : ConfigOK(c) /\ Resolution = ExtractWith(c, known)
  BY ResolutionIs DEF Load, Mirrored
<1>2. PICK j \in DOMAIN c.blocks : Resolution = SpecOf(c.blocks[j], known)
  BY <1>1, FoundIsBlock DEF Load
<1>3. IsList(Resolution.keys)
  BY <1>1, <1>2 DEF SpecOf, ConfigOK
<1>4. PICK picked : page' = [PageOf(Resolution, Settings) EXCEPT !.picker = picked]
  BY DEF Load
<1>5. PageOK(page')
  BY <1>3, <1>4, LoadedPage DEF PageOK
<1>6. ConfigOK(config') /\ CatalogInv'
  BY DEF Load, IInv, CatalogInv
<1>7. CacheInv' /\ ReadingInv'
  <2>1. Resolves(cache, config)
    BY DEF Load
  <2>2. QED
    BY <2>1, ResolvesInv DEF IInv, CacheInv
<1>8. WritingInv'
  BY <1>5 DEF Load, IInv, WritingInv
<1>9. QED
  BY <1>5, <1>6, <1>7, <1>8 DEF IInv

\* The steps of those who fetch models
LEMMA FetchInv ==
  ASSUME IInv, NEW f \in Fetchers, NEW r \in Replies, Fetch(f, r)
  PROVE  IInv'
<1> DEFINE models == parseOpenAIModelSpecs(r.items)  ids == {m.name : m \in models}
<1>1. PageOK(page) /\ UNCHANGED <<config, catalog>>
  BY DEF IInv, Fetch
<1>2. page' \in {page, Picked(ids)}
  BY DEF Fetch
<1>3. PageOK(page')
  BY <1>1, <1>2 DEF Picked, PageOK
<1>4. \/ UNCHANGED writing
      \/ writing' = [writing EXCEPT ![f] = [step |-> "open", entries |-> EntriesOf(r)]]
  BY DEF Fetch, EntriesOf
<1>5. WritingInv'
  <2>1. CASE UNCHANGED writing
    BY <1>3, <2>1 DEF IInv, WritingInv
  <2>2. CASE writing' = [writing EXCEPT ![f] = [step |-> "open", entries |-> EntriesOf(r)]]
    <3>1. DOMAIN writing' = Fetchers
      BY <2>2 DEF IInv, WritingInv
    <3>2. ASSUME NEW g \in Fetchers, writing'[g] # None
          PROVE  /\ {"step", "entries"} \subseteq DOMAIN writing'[g] /\ PageOK(page')
                 /\ \E s \in Replies : writing'[g].entries = EntriesOf(s)
      <4>1. CASE g = f
        <5>1. writing'[g] = [step |-> "open", entries |-> EntriesOf(r)]
          BY <2>2, <4>1 DEF IInv, WritingInv
        <5>2. QED
          BY <1>3, <5>1
      <4>2. CASE g # f
        BY <1>3, <2>2, <3>2, <4>2 DEF IInv, WritingInv
      <4>3. QED
        BY <4>1, <4>2
    <3>3. QED
      BY <3>1, <3>2 DEF WritingInv
  <2>3. QED
    BY <1>4, <2>1, <2>2
<1>6. CacheInv' /\ ReadingInv'
  <2>1. Resolves(cache, config)
    BY DEF Fetch
  <2>2. QED
    BY <2>1, ResolvesInv DEF IInv, CacheInv
<1>7. ConfigOK(config') /\ CatalogInv'
  BY <1>1 DEF IInv, CatalogInv
<1>8. QED
  BY <1>3, <1>5, <1>6, <1>7 DEF IInv

LEMMA CatalogOpenInv ==
  ASSUME IInv, NEW f \in Fetchers, CatalogOpen(f)
  PROVE  IInv'
<1>1. UNCHANGED <<config, cache, reading, page>> /\ catalog' = Broken
  BY DEF CatalogOpen
<1>2. /\ ConfigOK(config') /\ (page' # None => PageOK(page'))
      /\ CacheInv' /\ ReadingInv' /\ CatalogInv'
  BY <1>1 DEF IInv, CacheInv, ReadingInv, CatalogInv
<1>3. writing' = [writing EXCEPT ![f].step = "write"] /\ writing[f] # None
  BY DEF CatalogOpen
<1>4. WritingInv'
  <2>1. DOMAIN writing' = Fetchers
    BY <1>3 DEF IInv, WritingInv
  <2>2. ASSUME NEW g \in Fetchers, writing'[g] # None
        PROVE  /\ {"step", "entries"} \subseteq DOMAIN writing'[g] /\ PageOK(page')
               /\ \E r \in Replies : writing'[g].entries = EntriesOf(r)
    <3>1. CASE g = f
      <4>1. writing'[g] = [writing[g] EXCEPT !.step = "write"]
        BY <1>3, <3>1 DEF IInv, WritingInv
      <4>2. DOMAIN writing'[g] = DOMAIN writing[g] /\ writing'[g].entries = writing[g].entries
        BY <1>3, <3>1, <4>1 DEF IInv, WritingInv
      <4>3. QED
        BY <1>1, <1>3, <3>1, <4>2 DEF IInv, WritingInv
    <3>2. CASE g # f
      BY <1>1, <1>3, <2>2, <3>2 DEF IInv, WritingInv
    <3>3. QED
      BY <3>1, <3>2
  <2>3. QED
    BY <2>1, <2>2 DEF WritingInv
<1>5. QED
  BY <1>2, <1>4 DEF IInv

LEMMA CatalogWriteInv ==
  ASSUME IInv, NEW f \in Fetchers, CatalogWrite(f)
  PROVE  IInv'
<1> DEFINE whole == [kind |-> "catalog", entries |-> writing[f].entries]
<1>1. writing[f] # None /\ UNCHANGED <<config, cache, reading>> /\ writing' = [writing EXCEPT ![f] = None]
  BY DEF CatalogWrite
<1>2. PageOK(page) /\ whole \in Answers
  BY <1>1 DEF IInv, WritingInv, Answers
<1>3. catalog' \in {whole, Broken}
  BY DEF CatalogWrite
<1>4. CatalogInv'
  BY <1>2, <1>3 DEF CatalogInv
<1>5. page' \in {page, Picked({e.id : e \in writing[f].entries})}
  BY DEF CatalogWrite
<1>6. PageOK(page')
  BY <1>2, <1>5 DEF Picked, PageOK
<1>7. WritingInv'
  BY <1>1, <1>6 DEF IInv, WritingInv
<1>8. ConfigOK(config') /\ CacheInv' /\ ReadingInv'
  BY <1>1 DEF IInv, CacheInv, ReadingInv
<1>9. QED
  BY <1>4, <1>6, <1>7, <1>8 DEF IInv

LEMMA StepInv == IInv /\ [Next]_vars => IInv'
<1> SUFFICES ASSUME IInv, [Next]_vars PROVE IInv'
  OBVIOUS
<1>1. ASSUME NEW c \in Configs, Reconfigure(c) PROVE IInv'
  <2>1. ConfigOK(config')
    BY <1>1, ConfigsAre DEF Reconfigure
  <2>2. CacheInv' /\ ReadingInv'
    <3>1. Resolves(None, config')
      BY <1>1 DEF Reconfigure
    <3>2. QED
      BY <2>1, <3>1, ResolvesInv DEF IInv
  <2>3. QED
    BY <1>1, <2>1, <2>2 DEF Reconfigure, IInv, CatalogInv, WritingInv
<1>2. ASSUME OtherResolves PROVE IInv'
  <2>1. CacheInv' /\ ReadingInv'
    BY <1>2, ResolvesInv DEF OtherResolves, IInv, CacheInv
  <2>2. QED
    BY <1>2, <2>1 DEF OtherResolves, IInv, CatalogInv, WritingInv
<1>3. CASE UNCHANGED vars
  BY <1>3 DEF vars, IInv, CacheInv, ReadingInv, CatalogInv, WritingInv
<1>4. QED
  BY <1>1, <1>2, <1>3, StoresInv, LoadInv, EditPageInv, SaveInv, FetchInv, CatalogOpenInv,
     CatalogWriteInv DEF Next

\* The cached provider, and one that was read and is still to be stored, is
\* that of one configuration there was or may have been, entire and with keys
\* that were configured or typed in, not always of the one there is; a page's
\* rows hold nothing but what was typed; and the cache file, and what fetchers
\* are to write into it, is of one answer (resolveProviderSpec,
\* currentProviderEditorDataFromSpec, saveModelCatalog).
THEOREM EditorInvariant == Spec => []IInv
BY InitInv, StepInv, PTL DEF Spec

-----------------------------------------------------------------------------
(* The cache file                                                          *)

\* One model of an answer, what is written of it, and what is read again
ModelOf(item)  == [name |-> item.id, alias |-> "", image |-> item.image \/ item.id \in ImageIds,
                   thinking |-> Thinking(ItemLevels(item)), modal |-> item.modal]
EntryOf(m)     == [id |-> firstNonEmpty(m.name, m.alias), image |-> m.image, modal |-> m.modal,
                   levels |-> IF m.thinking # None THEN m.thinking.levels
                              ELSE defaultThinkingLevelsForModel(firstNonEmpty(m.name, m.alias))]
ReadAgain(e)   == [name |-> e.id, alias |-> "", image |-> e.image, modal |-> e.modal,
                   thinking |-> Thinking(e.levels)]

LEMMA ReadAsSaid ==
  ASSUME NEW item, ~ IsBlank(item.id), ItemLevels(item) # {} => Thinking(ItemLevels(item)) # None
  PROVE  ReadAgain(EntryOf(ModelOf(item))) = ModelOf(item)
<1> DEFINE levels == ItemLevels(item)  m == ModelOf(item)  e == EntryOf(m)
<1>1. firstNonEmpty(m.name, m.alias) = item.id
  BY DEF ModelOf, firstNonEmpty, IsBlank
<1>2. m.thinking = Thinking(levels) /\ m.name = item.id
  BY DEF ModelOf
<1>3. e.levels = IF m.thinking # None THEN m.thinking.levels
                 ELSE defaultThinkingLevelsForModel(item.id)
  BY <1>1 DEF EntryOf
<1>4. e.levels = levels
  <2>1. CASE levels # {}
    <3>1. Thinking(levels) = [levels |-> levels, zero |-> FALSE, budget |-> FALSE]
      BY <2>1 DEF Thinking
    <3>2. Thinking(levels).levels = levels /\ Thinking(levels) # None
      BY <2>1, <3>1
    <3>3. QED
      BY <1>2, <1>3, <3>2
  <2>2. CASE levels = {}
    <3>1. Thinking(levels) = None
      BY <2>2 DEF Thinking
    <3>2. levels = defaultThinkingLevelsForModel(item.id)
      <4>1. CASE item.efforts # {}
        BY <2>2, <4>1 DEF ItemLevels
      <4>2. CASE item.efforts = {} /\ item.effort # ""
        <5>1. levels = {item.effort}
          BY <4>2, Zenon DEF ItemLevels
        <5>2. QED
          BY <2>2, <5>1
      <4>3. CASE item.efforts = {} /\ item.effort = ""
        BY <4>3, Zenon DEF ItemLevels
      <4>4. QED
        BY <4>1, <4>2, <4>3
    <3>3. QED
      BY <1>2, <1>3, <3>1, <3>2
  <2>3. QED
    BY <2>1, <2>2
<1>5. /\ e.id = item.id /\ e.image = (item.image \/ item.id \in ImageIds)
      /\ e.modal = item.modal
  BY <1>1 DEF EntryOf, ModelOf
<1> HIDE DEF e, m, levels
<1>6. ReadAgain(e) = [name |-> item.id, alias |-> "", image |-> item.image \/ item.id \in ImageIds,
                      modal |-> item.modal, thinking |-> Thinking(levels)]
  BY <1>4, <1>5 DEF ReadAgain
<1>7. QED
  BY <1>6 DEF ModelOf, e, m, levels

\* What is saved of an answer is read as the answer was parsed.
LEMMA AnswerIsRead ==
  ASSUME NEW r \in Replies
  PROVE  loadModelCatalog([kind |-> "catalog", entries |-> EntriesOf(r)]) = parseOpenAIModelSpecs(r.items)
<1> DEFINE items == r.items
           Kept == {i \in DOMAIN items : /\ items[i].id # ""
                                         /\ \A j \in 1..(i - 1) : items[j].id # items[i].id}
           models == parseOpenAIModelSpecs(items)
           file == [kind |-> "catalog", entries |-> EntriesOf(r)]
<1>1. models = {ModelOf(items[i]) : i \in Kept}
  BY DEF parseOpenAIModelSpecs, ModelOf
<1>2. EntriesOf(r) = {EntryOf(m) : m \in models}
  BY DEF EntriesOf, saveModelCatalog, EntryOf
<1>3. loadModelCatalog(file) = {ReadAgain(e) : e \in EntriesOf(r)}
  <2>1. file.kind = "catalog" /\ file.entries = EntriesOf(r)
    OBVIOUS
  <2> HIDE DEF file
  <2>2. loadModelCatalog(file) = {ReadAgain(e) : e \in file.entries}
    BY <2>1 DEF loadModelCatalog, ReadAgain
  <2>3. QED
    BY <2>1, <2>2
<1>4. \A i \in Kept : ReadAgain(EntryOf(ModelOf(items[i]))) = ModelOf(items[i])
  <2> SUFFICES ASSUME NEW i \in Kept
               PROVE  ReadAgain(EntryOf(ModelOf(items[i]))) = ModelOf(items[i])
    OBVIOUS
  <2>1. ItemLevels(items[i]) # {} => Thinking(ItemLevels(items[i])) # None
    BY EditorAssumption
  <2>2. ~ IsBlank(items[i].id)
    BY DEF IsBlank
  <2>3. QED
    BY <2>1, <2>2, ReadAsSaid
<1> HIDE DEF items, Kept, models, file
<1>5. \A m \in models : ReadAgain(EntryOf(m)) = m
  BY <1>1, <1>4
<1>6. loadModelCatalog(file) = models
  BY <1>2, <1>3, <1>5
<1>7. QED
  BY <1>6 DEF file, models, items

\* However fetches overlap, what is read from the cache file is what one
\* answer said, entire and with the levels it gave, what was there before any,
\* or nothing (saveModelCatalog, loadModelCatalog).
THEOREM CatalogWholeHolds == Spec => []CatalogWhole
<1>1. IInv => CatalogWhole
  <2> SUFFICES ASSUME IInv PROVE CatalogWhole
    OBVIOUS
  <2>1. CASE catalog \in Files
    BY <2>1 DEF CatalogWhole
  <2>2. CASE catalog = Broken
    <3>1. catalog.kind = "broken"
      BY <2>2 DEF Broken
    <3>2. loadModelCatalog(catalog) = {}
      BY <3>1 DEF loadModelCatalog
    <3>3. QED
      BY <3>2 DEF CatalogWhole
  <2>3. CASE catalog \in Answers
    <3>1. PICK r \in Replies : catalog = [kind |-> "catalog", entries |-> EntriesOf(r)]
      BY <2>3 DEF Answers
    <3>2. loadModelCatalog(catalog) = parseOpenAIModelSpecs(r.items)
      BY <3>1, AnswerIsRead
    <3>3. QED
      BY <3>2 DEF CatalogWhole
  <2>4. QED
    BY <2>1, <2>2, <2>3 DEF IInv, CatalogInv
<1>2. QED
  BY <1>1, EditorInvariant, PTL

-----------------------------------------------------------------------------
(* The keys                                                                *)

\* A save takes no provider its keys, and gives it none but those it had and
\* those that were typed in (patchProviderConfig).
THEOREM KeysSurviveHolds == Spec => KeysSurvive
<1>1. IInv /\ [Next]_vars =>
        [Save => LET before == ToSet(config.blocks[Hit].keys)
                     after  == ToSet(config'.blocks[Hit].keys)
                 IN  /\ before # {} => after # {}
                     /\ after \subseteq before \cup {NewKey}]_vars
  <2> SUFFICES ASSUME IInv, Save
               PROVE  LET before == ToSet(config.blocks[Hit].keys)
                          after  == ToSet(config'.blocks[Hit].keys)
                      IN  /\ before # {} => after # {}
                          /\ after \subseteq before \cup {NewKey}
    OBVIOUS
  <2>1. ConfigOK(config) /\ PageOK(page) /\ findEditableProviderIndex(config.blocks, page) # 0
    BY DEF IInv, Save
  <2>2. /\ Hit \in DOMAIN config.blocks
        /\ config'.blocks[Hit].keys = PatchedKeys(page, config.blocks[Hit].keys)
    BY <2>1, SavedBlocks DEF Save, Hit
  <2>3. IsList(config.blocks[Hit].keys) /\ RowsOK(page.rows)
    BY <2>1, <2>2 DEF ConfigOK, PageOK
  <2>4. QED
    BY <2>2, <2>3, PatchedKeysAre
<1>2. QED
  BY <1>1, EditorInvariant, PTL DEF Spec, KeysSurvive

\* Blanks alone name no key.
LEMMA BlanksNameNone ==
  ASSUME NEW S, NEW values \in Seq(S), \A i \in 1..Len(values) : IsBlank(values[i])
  PROVE  uniqueStrings(values) = <<>>
<1>1. uniqueStrings(values) \in Seq(S) /\ ToSet(uniqueStrings(values)) = {}
  BY UniqueFromValues
<1> DEFINE out == uniqueStrings(values)
<1> HIDE DEF out
<1>2. out \in Seq(S) /\ ToSet(out) = {}
  BY <1>1 DEF out
<1>3. out # <<>> => 1 \in DOMAIN out
  BY <1>2
<1>4. out = <<>>
  BY <1>2, <1>3 DEF ToSet
<1>5. QED
  BY <1>4 DEF out

\* Of values that name different keys, the first ones, all that name one are
\* taken, each at its place.
LEMMA FirstOnesNameAll ==
  ASSUME NEW S, NEW values \in Seq(S),
         \A i \in 1..Len(values) : ~ IsBlank(values[i]) =>
           \A j \in 1..(i - 1) : ~ IsBlank(values[j]) /\ values[j] # values[i]
  PROVE  /\ uniqueStrings(values) \in Seq(S) /\ Len(uniqueStrings(values)) \in 0..Len(values)
         /\ \A i \in 1..Len(values) :
              IF i <= Len(uniqueStrings(values)) THEN uniqueStrings(values)[i] = values[i]
              ELSE IsBlank(values[i])
<1> DEFINE n == Len(values)  blanks == {i \in 1..n : IsBlank(values[i])}
<1>1. n \in Nat
  OBVIOUS
<1>2. \E m \in 0..n : /\ \A i \in 1..m : ~ IsBlank(values[i])
                      /\ \A i \in (m + 1)..n : IsBlank(values[i])
  <2>1. CASE blanks = {}
    <3>1. n \in 0..n /\ (\A i \in 1..n : ~ IsBlank(values[i])) /\ (n + 1)..n = {}
      BY <1>1, <2>1
    <3>2. QED
      BY <3>1
  <2>2. CASE blanks # {}
    <3>1. blanks \in SUBSET Nat
      BY <1>1
    <3>2. PICK least \in blanks : \A i \in blanks : least <= i
      BY <2>2, <3>1, LeastExists
    <3>3. least - 1 \in 0..n /\ \A i \in 1..(least - 1) : ~ IsBlank(values[i])
      BY <1>1, <3>2
    <3>4. \A i \in ((least - 1) + 1)..n : IsBlank(values[i])
      BY <1>1, <3>2
    <3>5. QED
      BY <3>3, <3>4
  <2>3. QED
    BY <2>1, <2>2
<1>3. PICK m \in 0..n : /\ \A i \in 1..m : ~ IsBlank(values[i])
                        /\ \A i \in (m + 1)..n : IsBlank(values[i])
  BY <1>2
<1>4. \A i \in 1..m : ~ IsBlank(values[i]) /\ \A j \in 1..(i - 1) : values[j] # values[i]
  BY <1>1, <1>3
<1>5. uniqueStrings(values) = SubSeq(values, 1, m)
  BY <1>3, <1>4, UniqueFromDistinct
<1>6. /\ SubSeq(values, 1, m) \in Seq(S) /\ Len(SubSeq(values, 1, m)) = m
      /\ \A i \in 1..m : SubSeq(values, 1, m)[i] = values[i]
  <2>1. \A i \in 1..m : values[i] \in S
    BY <1>1
  <2>2. QED
    BY <1>1, <2>1, SubSeqProperties
<1>7. QED
  BY <1>1, <1>3, <1>5, <1>6

\* Rows completed by the keys that were found from them say nothing new.
LEMMA CompletedNamesNoMore ==
  ASSUME NEW rows, RowsOK(rows), NEW current, IsList(current)
  PROVE  ToSet(KeysOfRows(rows, KeysOfRows(rows, current))) \subseteq ToSet(KeysOfRows(rows, current))
<1> DEFINE S == {NewKey, ""} \cup ToSet(current)  values == RowValues(rows, current)
           keys == KeysOfRows(rows, current)
           R == {NewKey, ""} \cup ToSet(keys)  again == RowValues(rows, keys)
<1>1. /\ values \in Seq(S) /\ Len(values) = Len(rows)
      /\ Len(rows) \in Nat /\ DOMAIN rows = 1..Len(rows)
  BY RowValuesAre
<1>2. keys = uniqueStrings(values) /\ KeysOfRows(rows, keys) = uniqueStrings(again)
  BY DEF KeysOfRows
<1>3. keys \in Seq(S)
  <2> HIDE DEF values, keys, S
  <2>1. QED
    BY <1>1, <1>2, UniqueFromValues
<1>4. IsList(keys)
  <2> HIDE DEF keys, S
  <2>1. QED
    BY <1>3, SeqIsList
<1>5. again \in Seq(R) /\ Len(again) = Len(rows)
  <2> HIDE DEF keys
  <2>1. QED
    BY <1>4, RowValuesAre DEF again, R
<1>6. ASSUME NEW i \in 1..Len(rows), ~ IsBlank(again[i]) PROVE again[i] \in ToSet(keys)
  <2> DEFINE typed == rows[i].value
  <2>1. /\ ~ IsBlank(typed) => values[i] = typed /\ again[i] = typed
        /\ IsBlank(typed) => \/ IsBlank(again[i])
                             \/ i <= Len(keys) /\ again[i] = keys[i]
    BY <1>1 DEF RowValues, IsBlank
  <2>2. ~ IsBlank(values[i]) => values[i] \in ToSet(keys)
    <3> HIDE DEF values, keys, S
    <3>1. QED
      BY <1>1, <1>2, UniqueKeepsAll
  <2>3. i <= Len(keys) => keys[i] \in ToSet(keys)
    <3>1. i \in Nat /\ i >= 1
      <4> HIDE DEF keys, values, again, S, R
      <4>1. QED
        BY <1>1
    <3> HIDE DEF keys, values, again, S, R
    <3>2. Len(keys) \in Nat /\ \A j \in 1..Len(keys) : keys[j] \in ToSet(keys)
      BY <1>4, ListIs
    <3>3. QED
      BY <3>1, <3>2
  <2> HIDE DEF typed, values, keys, again
  <2>4. QED
    BY <1>6, <2>1, <2>2, <2>3
<1>7. \A k \in ToSet(uniqueStrings(again)) : ~ IsBlank(k) /\ \E i \in 1..Len(again) : k = again[i]
  <2> HIDE DEF again, R
  <2>1. QED
    BY <1>5, UniqueFromValues
<1> HIDE DEF values, keys, again, S, R
<1>8. \A k \in ToSet(uniqueStrings(again)) : k \in ToSet(keys)
  BY <1>5, <1>6, <1>7
<1>9. QED
  BY <1>2, <1>8 DEF keys

\* Rows completed by the keys that were found from them say the same again.
LEMMA CompletedTwice ==
  ASSUME NEW rows, RowsOK(rows), NEW current, IsList(current),
         \A i \in 1..Len(rows) : ~ IsBlank(RowValues(rows, current)[i]) =>
           \A j \in 1..(i - 1) : /\ ~ IsBlank(RowValues(rows, current)[j])
                                 /\ RowValues(rows, current)[j] # RowValues(rows, current)[i]
  PROVE  KeysOfRows(rows, KeysOfRows(rows, current)) = KeysOfRows(rows, current)
<1> DEFINE S == {NewKey, ""} \cup ToSet(current)  values == RowValues(rows, current)
           keys == KeysOfRows(rows, current)  again == RowValues(rows, keys)
<1>1. /\ values \in Seq(S) /\ Len(values) = Len(rows)
      /\ Len(rows) \in Nat /\ DOMAIN rows = 1..Len(rows)
  BY RowValuesAre
<1>2. keys = uniqueStrings(values) /\ KeysOfRows(rows, keys) = uniqueStrings(again)
  BY DEF KeysOfRows
<1>3. /\ keys \in Seq(S) /\ Len(keys) \in 0..Len(values)
      /\ \A i \in 1..Len(values) : IF i <= Len(keys) THEN keys[i] = values[i] ELSE IsBlank(values[i])
  <2> HIDE DEF values, keys, S
  <2>1. \A i \in 1..Len(values) : ~ IsBlank(values[i]) =>
          \A j \in 1..(i - 1) : ~ IsBlank(values[j]) /\ values[j] # values[i]
    BY <1>1 DEF values
  <2>2. QED
    BY <1>1, <1>2, <2>1, FirstOnesNameAll
<1>4. \A i \in 1..Len(rows) : again[i] = values[i]
  <2> SUFFICES ASSUME NEW i \in 1..Len(rows) PROVE again[i] = values[i]
    OBVIOUS
  <2> DEFINE typed == rows[i].value
  <2>1. /\ ~ IsBlank(typed) => values[i] = typed
        /\ IsBlank(typed) /\ rows[i].existing /\ i <= Len(current) => values[i] = current[i]
        /\ IsBlank(typed) /\ ~ (rows[i].existing /\ i <= Len(current)) => IsBlank(values[i])
    BY <1>1 DEF RowValues, IsBlank
  <2>2. /\ ~ IsBlank(typed) => again[i] = typed
        /\ IsBlank(typed) /\ rows[i].existing /\ i <= Len(keys) => again[i] = keys[i]
        /\ IsBlank(typed) /\ ~ (rows[i].existing /\ i <= Len(keys)) => IsBlank(again[i])
    BY <1>1 DEF RowValues, IsBlank
  <2>3. IF i <= Len(keys) THEN keys[i] = values[i] ELSE IsBlank(values[i])
    BY <1>1, <1>3
  <2>4. \A v, w : IsBlank(v) /\ IsBlank(w) => v = w
    BY DEF IsBlank
  <2>5. IsBlank(typed) /\ ~ rows[i].existing => again[i] = values[i]
    BY <2>1, <2>2, <2>4
  <2>6. IsBlank(typed) /\ i <= Len(keys) /\ rows[i].existing => again[i] = values[i]
    BY <2>2, <2>3
  <2>7. IsBlank(typed) /\ ~ (i <= Len(keys)) => again[i] = values[i]
    BY <2>2, <2>3, <2>4
  <2>8. QED
    BY <2>1, <2>2, <2>5, <2>6, <2>7
<1>5. again = values
  BY <1>1, <1>4 DEF RowValues
<1>6. QED
  BY <1>2, <1>5

LEMMA EmptyNamesNone == \A current : KeysOfRows(<<>>, current) = <<>>
<1> SUFFICES ASSUME NEW current PROVE KeysOfRows(<<>>, current) = <<>>
  OBVIOUS
<1>1. RowValues(<<>>, current) = <<>>
  BY DEF RowValues
<1>2. <<>> \in Seq({}) /\ \A i \in 1..Len(<<>>) : IsBlank(<<>>[i])
  OBVIOUS
<1>3. uniqueStrings(<<>>) = <<>>
  BY <1>2, BlanksNameNone
<1>4. QED
  BY <1>1, <1>3 DEF KeysOfRows

\* Rows of which none says anything have nothing typed into them.
LEMMA NothingTyped ==
  ASSUME NEW rows, RowsOK(rows), NEW current, IsList(current), KeysOfRows(rows, current) = <<>>
  PROVE  uniqueStrings([i \in DOMAIN rows |-> IF rows[i].existing THEN "" ELSE rows[i].value]) = <<>>
<1> DEFINE S == {NewKey, ""} \cup ToSet(current)  values == RowValues(rows, current)
           typed == [i \in DOMAIN rows |-> IF rows[i].existing THEN "" ELSE rows[i].value]
<1>1. /\ values \in Seq(S) /\ Len(values) = Len(rows)
      /\ Len(rows) \in Nat /\ DOMAIN rows = 1..Len(rows)
  BY RowValuesAre
<1>2. uniqueStrings(values) = <<>>
  BY DEF KeysOfRows
<1>3. \A i \in 1..Len(rows) : IsBlank(values[i])
  <2> HIDE DEF values, S
  <2>1. \A i \in 1..Len(values) : ~ IsBlank(values[i]) => values[i] \in ToSet(<<>>)
    BY <1>1, <1>2, UniqueKeepsAll
  <2>2. ToSet(<<>>) = {}
    BY DEF ToSet
  <2>3. QED
    BY <1>1, <2>1, <2>2
<1>4. \A i \in 1..Len(rows) : IsBlank(typed[i])
  <2> SUFFICES ASSUME NEW i \in 1..Len(rows) PROVE IsBlank(typed[i])
    OBVIOUS
  <2>1. ~ IsBlank(rows[i].value) => values[i] = rows[i].value
    BY <1>1 DEF RowValues, IsBlank
  <2>2. IsBlank(rows[i].value)
    BY <1>3, <2>1
  <2>3. typed[i] = "" \/ typed[i] = rows[i].value
    BY <1>1
  <2>4. QED
    BY <2>2, <2>3 DEF IsBlank
<1>5. typed \in [1..Len(rows) -> {NewKey, ""}]
  BY <1>1 DEF RowsOK
<1> HIDE DEF typed
<1>6. typed \in Seq({NewKey, ""}) /\ Len(typed) = Len(rows)
  <2> DEFINE n == Len(rows)  T == {NewKey, ""}
  <2>1. n \in Nat /\ typed \in [1..n -> T]
    BY <1>1, <1>5
  <2> HIDE DEF n, T
  <2>2. typed \in Seq(T) /\ Len(typed) = n
    BY <2>1
  <2>3. QED
    BY <2>2 DEF n, T
<1>7. uniqueStrings(typed) = <<>>
  BY <1>4, <1>6, BlanksNameNone
<1>8. QED
  BY <1>7 DEF typed

\* As long as the provider that resolves has the keys of the block a save would
\* hit, a test of all keys tries none the save would not write, whatever was
\* typed, added and removed; and those very keys, if the rows name different
\* ones, those that name one first (handleProviderTest, patchProviderConfig).
THEOREM TestsWhatIsSavedHolds == Spec => []TestsWhatIsSaved
<1>1. IInv => TestsWhatIsSaved
  <2> SUFFICES ASSUME IInv, page # None, Hit # 0, Resolution # None,
                      NEW current, current = config.blocks[Hit].keys, Resolution.keys = current,
                      NEW values, values = RowValues(page.rows, current)
               PROVE  /\ ToSet(TestedKeys(page)) \subseteq ToSet(PatchedKeys(page, current))
                      /\ /\ EditorKeys # <<>>
                         /\ \A i \in DOMAIN values : values[i] # "" =>
                              \A j \in 1..(i - 1) : values[j] \notin {"", values[i]}
                         => TestedKeys(page) = PatchedKeys(page, current)
    BY DEF TestsWhatIsSaved
  <2> DEFINE keys == KeysOfRows(page.rows, current)
             new  == uniqueStrings([i \in DOMAIN page.rows |->
                       IF page.rows[i].existing THEN "" ELSE page.rows[i].value])
  <2>1. ConfigOK(config) /\ RowsOK(page.rows)
    BY DEF IInv, PageOK
  <2>2. Hit \in DOMAIN config.blocks
    BY <2>1, HitIsBlock DEF ConfigOK, Hit
  <2>3. IsList(current)
    BY <2>1, <2>2 DEF ConfigOK
  <2>4. EditorKeys = LET found == IF page.rows = <<>> THEN current ELSE keys
                     IN  IF found # <<>> THEN found ELSE new
    BY DEF EditorKeys, editorProviderAPIKeys
  <2>5. TestedKeys(page) = IF page.rows = <<>> THEN EditorKeys ELSE KeysOfRows(page.rows, EditorKeys)
    BY DEF TestedKeys, editorProviderAPIKeys
  <2>6. PatchedKeys(page, current) = IF keys = <<>> THEN current ELSE keys
    BY DEF PatchedKeys
  <2>7. keys = <<>> => new = <<>>
    BY <2>1, <2>3, NothingTyped
  <2>8. CASE page.rows = <<>>
    <3>1. keys = <<>>
      BY <2>8, EmptyNamesNone
    <3>2. EditorKeys = current
      BY <2>4, <2>7, <2>8, <3>1
    <3>3. QED
      BY <2>5, <2>6, <2>8, <3>1, <3>2
  <2>9. CASE page.rows # <<>> /\ keys # <<>>
    <3>1. TestedKeys(page) = KeysOfRows(page.rows, keys) /\ PatchedKeys(page, current) = keys
      BY <2>4, <2>5, <2>6, <2>9
    <3>2. ToSet(KeysOfRows(page.rows, keys)) \subseteq ToSet(keys)
      BY <2>1, <2>3, CompletedNamesNoMore
    <3>3. ASSUME \A i \in DOMAIN values : values[i] # "" =>
                   \A j \in 1..(i - 1) : values[j] \notin {"", values[i]}
          PROVE  KeysOfRows(page.rows, keys) = keys
      <4>1. DOMAIN values = 1..Len(page.rows)
        <5>1. DOMAIN values = DOMAIN page.rows
          BY DEF RowValues
        <5>2. QED
          BY <2>1, <5>1, ListIs DEF RowsOK
      <4>2. \A i \in 1..Len(page.rows) : ~ IsBlank(RowValues(page.rows, current)[i]) =>
              \A j \in 1..(i - 1) :
                /\ ~ IsBlank(RowValues(page.rows, current)[j])
                /\ RowValues(page.rows, current)[j] # RowValues(page.rows, current)[i]
        BY <3>3, <4>1, Zenon DEF IsBlank
      <4>3. QED
        BY <2>1, <2>3, <4>2, CompletedTwice
    <3> HIDE DEF keys, new
    <3>4. QED
      BY <3>1, <3>2, <3>3
  <2>10. CASE page.rows # <<>> /\ keys = <<>>
    <3>1. EditorKeys = <<>>
      BY <2>4, <2>7, <2>10
    <3>2. TestedKeys(page) = KeysOfRows(page.rows, keys)
      BY <2>5, <2>10, <3>1
    <3>3. ToSet(KeysOfRows(page.rows, keys)) \subseteq ToSet(keys)
      BY <2>1, <2>3, CompletedNamesNoMore
    <3>4. ToSet(keys) = {}
      BY <2>10 DEF ToSet
    <3> HIDE DEF keys, new
    <3>5. QED
      BY <3>1, <3>2, <3>3, <3>4
  <2>11. QED
    BY <2>8, <2>9, <2>10
<1>2. QED
  BY <1>1, EditorInvariant, PTL

-----------------------------------------------------------------------------
(* What models are called                                                  *)

\* The text is a name or an alias of a model from outside that goes by the id.
Word(t, id) == \E m \in UNION ModelLists : t \in {m.name, m.alias} /\ Id(m) = id

\* A model, or a row of one, that goes by something and whose name and alias
\* mean what they mean outside
Proper(m) == Id(m) # "" /\ \A t \in {m.name, m.alias} \ {""} : Word(t, Id(m))

\* No two of the models go by the same.
ListOK(L) == \A m \in L : Proper(m) /\ \A n \in L : Id(n) = Id(m) => n = m

LEMMA ListsAreOK ==
  ASSUME NamesApart, NEW L \in ModelLists
  PROVE  ListOK(L)
<1> SUFFICES ASSUME NEW m \in L PROVE Proper(m) /\ \A n \in L : Id(n) = Id(m) => n = m
  BY DEF ListOK
<1>1. Id(m) # "" /\ \A n \in L : Id(n) = Id(m) => n = m
  BY DEF NamesApart
<1>2. m \in UNION ModelLists
  OBVIOUS
<1>3. \A t \in {m.name, m.alias} : Word(t, Id(m))
  BY <1>2 DEF Word
<1>4. QED
  BY <1>1, <1>3 DEF Proper

\* What has a text in common goes by the same.
LEMMA WordsApart ==
  ASSUME NamesApart, NEW t, t # "", NEW i, NEW j, Word(t, i), Word(t, j)
  PROVE  i = j
<1>1. PICK m \in UNION ModelLists : t \in {m.name, m.alias} /\ Id(m) = i
  BY DEF Word
<1>2. PICK n \in UNION ModelLists : t \in {n.name, n.alias} /\ Id(n) = j
  BY DEF Word
<1>3. ({m.name, m.alias} \cap {n.name, n.alias}) \ {""} # {}
  BY <1>1, <1>2
<1>4. Id(m) = Id(n)
  BY <1>3 DEF NamesApart
<1>5. QED
  BY <1>1, <1>2, <1>4

-----------------------------------------------------------------------------
(* The models a save writes                                                *)

Known(r, existing) == {m \in existing : Id(r) \in {m.name, m.alias}}
Old(r, existing) ==
  IF Known(r, existing) = {} THEN None ELSE CHOOSE m \in Known(r, existing) : TRUE

\* The model that is written for a row
Written(r, existing) ==
  LET old == Old(r, existing)
  IN  [name  |-> firstNonEmpty(r.name, IF old = None THEN Id(r) ELSE old.name),
       alias |-> firstNonEmpty(r.alias, IF old = None THEN "" ELSE old.alias),
       image |-> r.image \/ (old # None /\ old.image),
       modal |-> IF old = None THEN {} ELSE old.modal,
       thinking |-> IF r.levels # {}
                    THEN [levels |-> r.levels, zero |-> "none" \in r.levels, budget |-> FALSE]
                    ELSE IF old = None THEN None ELSE old.thinking]

LEMMA WrittenIs ==
  ASSUME NEW rows, NEW existing
  PROVE  modelsForEditorPayload(rows, existing) = {Written(r, existing) : r \in rows}
BY Zenon DEF modelsForEditorPayload, Written, Old, Known

\* None is neither a model nor a declaration of thinking nor a section that
\* was written.
NoneApart ==
  /\ None \notin UNION ModelLists
  /\ \A n, a, i, m, t :
       [name |-> n, alias |-> a, image |-> i, modal |-> m, thinking |-> t] # None
  /\ \A l, z, b : [levels |-> l, zero |-> z, budget |-> b] # None
  /\ \A f, g : Over(f, g) # None

\* The image endpoints and the thinking of a model that is written for a row
\* over those that are there
LaidOver(m, r, there) ==
  /\ m.image <=> (r.image \/ \E o \in there : o.image)
  /\ r.levels # {} => TickedLevels(m.thinking) = r.levels
  /\ r.levels = {} =>
       m.thinking \in {o.thinking : o \in there} \cup (IF there = {} THEN {None} ELSE {})

\* The models that go by what the row goes by
There(r, existing) == {o \in existing : Id(o) = Id(r)}

\* The model that is written goes by what the row goes by, and has the image
\* endpoints and the levels of the row laid over what is there.
LEMMA WrittenAsShown ==
  ASSUME NamesApart, NoneApart, NEW existing, ListOK(existing), None \notin existing,
         NEW r, Proper(r)
  PROVE  LET m == Written(r, existing)
         IN  Proper(m) /\ m # None /\ Id(m) = Id(r) /\ LaidOver(m, r, There(r, existing))
<1> DEFINE old == Old(r, existing)  m == Written(r, existing)
<1>1. old = None \/ (old \in existing /\ Id(r) \in {old.name, old.alias})
  <2>1. CASE Known(r, existing) = {}
    BY <2>1 DEF Old
  <2>2. CASE Known(r, existing) # {}
    <3>1. old \in Known(r, existing)
      BY <2>2 DEF Old
    <3>2. QED
      BY <3>1 DEF Known
  <2>3. QED
    BY <2>1, <2>2
<1>2. /\ m.name = firstNonEmpty(r.name, IF old = None THEN Id(r) ELSE old.name)
      /\ m.alias = firstNonEmpty(r.alias, IF old = None THEN "" ELSE old.alias)
      /\ m.image = (r.image \/ (old # None /\ old.image))
      /\ r.levels # {} =>
           m.thinking = [levels |-> r.levels, zero |-> "none" \in r.levels, budget |-> FALSE]
      /\ r.levels = {} => m.thinking = IF old = None THEN None ELSE old.thinking
  BY DEF Written
<1>3. /\ Id(r) = (IF r.name # "" THEN r.name ELSE r.alias) /\ Id(r) # ""
      /\ \A t \in {r.name, r.alias} \ {""} : Word(t, Id(r))
  BY DEF Id, firstNonEmpty, Proper
<1>4. Word(Id(r), Id(r))
  BY <1>3
<1>5. ASSUME old # None
      PROVE  Id(old) = Id(r) /\ \A t \in {old.name, old.alias} \ {""} : Word(t, Id(r))
  <2>1. Proper(old) /\ Id(r) \in {old.name, old.alias} \ {""}
    BY <1>1, <1>3, <1>5 DEF ListOK
  <2>2. Word(Id(r), Id(old)) /\ \A t \in {old.name, old.alias} \ {""} : Word(t, Id(old))
    BY <2>1 DEF Proper
  <2>3. Id(old) = Id(r)
    BY <1>3, <1>4, <2>2, WordsApart
  <2>4. QED
    BY <2>2, <2>3
<1>6. Id(old) = IF old.name # "" THEN old.name ELSE old.alias
  BY DEF Id, firstNonEmpty
<1>7. Id(m) = IF m.name # "" THEN m.name ELSE m.alias
  BY DEF Id, firstNonEmpty
<1> DEFINE there == There(r, existing)
<1>14. there = Known(r, existing)
  <2>1. ASSUME NEW o \in existing, Id(o) = Id(r) PROVE Id(r) \in {o.name, o.alias}
    BY <2>1 DEF Id, firstNonEmpty
  <2>2. ASSUME NEW o \in existing, Id(r) \in {o.name, o.alias} PROVE Id(o) = Id(r)
    <3>1. Proper(o) /\ Id(r) \in {o.name, o.alias} \ {""}
      BY <1>3, <2>2 DEF ListOK
    <3>2. Word(Id(r), Id(o))
      BY <3>1 DEF Proper
    <3>3. QED
      BY <1>3, <1>4, <3>2, WordsApart
  <2>3. QED
    BY <2>1, <2>2 DEF There, Known
<1>15. \A o, q \in there : o = q
  BY DEF There, ListOK
<1>16. /\ there = {} => old = None
       /\ there # {} => old \in there
  BY <1>14 DEF Old
<1>17. there # {} => old # None
  BY <1>14, <1>16 DEF Known
<1>18. m # None
  BY Zenon DEF NoneApart, Written
<1> HIDE DEF old, m, there
<1>8. Id(m) = Id(r)
  BY <1>2, <1>3, <1>5, <1>6, <1>7 DEF firstNonEmpty
<1>9. \A t \in {m.name, m.alias} \ {""} : Word(t, Id(r))
  BY <1>2, <1>3, <1>4, <1>5 DEF firstNonEmpty
<1>10. Proper(m)
  BY <1>3, <1>8, <1>9 DEF Proper
<1>11. m.image <=> (r.image \/ \E o \in there : o.image)
  <2>1. CASE there = {}
    BY <1>2, <1>16, <2>1
  <2>2. CASE there # {} /\ old # None
    <3>1. (\E o \in there : o.image) <=> old.image
      BY <1>15, <1>16, <2>2
    <3>2. QED
      BY <1>2, <2>2, <3>1
  <2>3. QED
    BY <1>17, <2>1, <2>2
<1>12. ASSUME r.levels # {} PROVE TickedLevels(m.thinking) = r.levels
  <2> DEFINE t == [levels |-> r.levels, zero |-> "none" \in r.levels, budget |-> FALSE]
  <2>1. m.thinking = t /\ t # None
    BY <1>2, <1>12 DEF NoneApart
  <2>2. effectiveThinking(t).levels = r.levels \cup (IF "none" \in r.levels THEN {"none"} ELSE {})
    BY <2>1 DEF effectiveThinking
  <2>3. TickedLevels(t) = effectiveThinking(t).levels
    BY <1>12, <2>1 DEF TickedLevels
  <2>4. QED
    BY <2>1, <2>2, <2>3
<1>13. ASSUME r.levels = {}
      PROVE  m.thinking \in {o.thinking : o \in there} \cup (IF there = {} THEN {None} ELSE {})
  <2>1. m.thinking = IF old = None THEN None ELSE old.thinking
    BY <1>2, <1>13
  <2>2. CASE there = {}
    BY <1>16, <2>1, <2>2
  <2>3. CASE there # {}
    BY <1>16, <1>17, <2>1, <2>3
  <2>4. QED
    BY <2>2, <2>3
<1>19. LaidOver(m, r, there)
  BY <1>11, <1>12, <1>13 DEF LaidOver
<1>20. QED
  BY <1>8, <1>10, <1>18, <1>19 DEF m, there

\* What is written for rows of which no two go by the same
LEMMA WrittenListOK ==
  ASSUME NamesApart, NoneApart, NEW existing, ListOK(existing), None \notin existing,
         NEW rows, ListOK(rows)
  PROVE  LET written == modelsForEditorPayload(rows, existing)
         IN  /\ ListOK(written) /\ None \notin written
             /\ {Id(m) : m \in written} = {Id(r) : r \in rows}
             /\ \A r \in rows, m \in written :
                  Id(r) = Id(m) => LaidOver(m, r, There(r, existing))
<1> DEFINE written == modelsForEditorPayload(rows, existing)
<1>1. written = {Written(r, existing) : r \in rows}
  BY WrittenIs
<1>2. \A r \in rows : /\ Proper(Written(r, existing)) /\ Id(Written(r, existing)) = Id(r)
                      /\ Written(r, existing) # None
                      /\ LaidOver(Written(r, existing), r, There(r, existing))
  <2> SUFFICES ASSUME NEW r \in rows
               PROVE  /\ Proper(Written(r, existing)) /\ Id(Written(r, existing)) = Id(r)
                      /\ Written(r, existing) # None
                      /\ LaidOver(Written(r, existing), r, There(r, existing))
    OBVIOUS
  <2>1. Proper(r)
    BY DEF ListOK
  <2>2. QED
    BY <2>1, WrittenAsShown
<1>3. \A r, q \in rows : Id(r) = Id(q) => r = q
  BY DEF ListOK
<1> HIDE DEF written
<1>4. ListOK(written) /\ None \notin written
  BY <1>1, <1>2, <1>3 DEF ListOK
<1>5. {Id(m) : m \in written} = {Id(r) : r \in rows}
  BY <1>1, <1>2
<1>6. ASSUME NEW r \in rows, NEW m \in written, Id(r) = Id(m)
      PROVE  LaidOver(m, r, There(r, existing))
  <2>1. PICK q \in rows : m = Written(q, existing)
    BY <1>1
  <2>2. q = r
    BY <1>2, <1>3, <1>6, <2>1
  <2>3. QED
    BY <1>2, <2>1, <2>2
<1>7. QED
  BY <1>4, <1>5, <1>6 DEF written

-----------------------------------------------------------------------------
(* The settings a save writes                                              *)

Fallbacks == {"user_agent_plus_session", "disabled", "client_key_hash"}

\* What the page shows of the settings
PluginOK(v) ==
  /\ DOMAIN v = {"enabled", "explicit", "fallback", "executor", "namespace", "secretSource"}
  /\ v.fallback \in Fallbacks

LEMMA OverIs ==
  ASSUME NEW f, NEW g
  PROVE  /\ DOMAIN Over(f, g) = DOMAIN f \cup DOMAIN g
         /\ \A x \in DOMAIN f : Over(f, g)[x] = f[x]
         /\ \A x \in DOMAIN g \ DOMAIN f : Over(f, g)[x] = g[x]
BY DEF Over

Untouched == {"enabled", "explicit", "executor", "namespace", "hmacSecret"}

\* Settings keep their fields when they are normalised.
LEMMA NormalizedIs ==
  ASSUME NEW s, Untouched \cup {"mode", "fallback", "secretSource"} \subseteq DOMAIN s
  PROVE  LET n == normalizeSettings(s)
         IN  /\ n.fallback \in Fallbacks /\ (s.fallback \in Fallbacks => n.fallback = s.fallback)
             /\ \A f \in Untouched : n[f] = s[f]
BY DEF normalizeSettings, Untouched, Fallbacks

\* Settings that were read from a section
LEMMA ReadSettings ==
  ASSUME NEW raw
  PROVE  LET s == settingsFromMap(defaultPluginSettings, raw)
         IN  /\ s.fallback \in Fallbacks
             /\ "fallback" \in DOMAIN raw /\ raw.fallback \in Fallbacks => s.fallback = raw.fallback
             /\ \A f \in Untouched \cap DOMAIN raw : s[f] = raw[f]
<1> DEFINE base == Over(raw, defaultPluginSettings)
<1>1. Untouched \cup {"mode", "fallback", "secretSource"} \subseteq DOMAIN defaultPluginSettings
  BY DEF defaultPluginSettings, Untouched
<1>2. /\ Untouched \cup {"mode", "fallback", "secretSource"} \subseteq DOMAIN base
      /\ \A f \in DOMAIN raw : base[f] = raw[f]
  BY <1>1, OverIs
<1>3. settingsFromMap(defaultPluginSettings, raw) = normalizeSettings(base)
  BY DEF settingsFromMap
<1> HIDE DEF base
<1>4. QED
  BY <1>2, <1>3, NormalizedIs

LEMMA ViewOK ==
  ASSUME NEW sections
  PROVE  PluginOK(pluginEditorView(loadSettings(sections)))
<1> DEFINE raw == findPluginConfig(sections)  s == loadSettings(sections)
<1>1. s.fallback \in Fallbacks
  <2>1. CASE raw = None
    BY <2>1 DEF loadSettings, defaultPluginSettings, Fallbacks
  <2>2. CASE raw # None
    <3>1. s = settingsFromMap(defaultPluginSettings, raw)
      BY <2>2 DEF loadSettings
    <3>2. QED
      BY <3>1, ReadSettings
  <2>3. QED
    BY <2>1, <2>2
<1>2. DOMAIN pluginEditorView(s)
        = {"enabled", "explicit", "fallback", "executor", "namespace", "secretSource"}
  BY DEF pluginEditorView
<1>3. pluginEditorView(s).fallback = s.fallback
  BY DEF pluginEditorView
<1>4. QED
  BY <1>1, <1>2, <1>3 DEF PluginOK

\* The section that is looked for first is the one that is read.
LEMMA FirstPlace ==
  ASSUME NEW sections, sections["plugins.configs"] # None
  PROVE  findPluginConfig(sections) = sections["plugins.configs"]
<1> DEFINE found == {i \in DOMAIN Places : sections[Places[i]] # None}
           first == CHOOSE i \in found : \A j \in found : i <= j
<1>1. Places[1] = "plugins.configs" /\ DOMAIN Places = 1..4
  BY DEF Places
<1>2. 1 \in found /\ found \in SUBSET (1..4)
  BY <1>1
<1> HIDE DEF found
<1>3. \E i \in found : \A j \in found : i <= j
  BY <1>2
<1>4. first \in found /\ \A j \in found : first <= j
  BY <1>3
<1>5. first = 1
  <2> HIDE DEF first
  <2>1. QED
    BY <1>2, <1>4
<1>6. findPluginConfig(sections) = sections[Places[first]]
  BY <1>2, Zenon DEF findPluginConfig, found
<1>7. QED
  BY <1>1, <1>5, <1>6

\* The settings that are read after a save are those the page showed.
LEMMA SavedSettings ==
  ASSUME NoneApart, NEW c, ConfigOK(c), NEW p, PluginOK(p.plugin)
  PROVE  LET s == loadSettings(patchProviderConfig(c, p).sections)
         IN  /\ \A f \in DOMAIN p.plugin \ {"secretSource"} : s[f] = p.plugin[f]
             /\ p.secret # "" => s.hmacSecret = p.secret
<1> DEFINE typed == IF p.secret = "" THEN <<>> ELSE [hmacSecret |-> p.secret]
           there == IF c.sections["plugins.configs"] = None THEN <<>>
                    ELSE c.sections["plugins.configs"]
           raw == Over(Over(typed, p.plugin), there)
           after == patchProviderConfig(c, p)
           s == loadSettings(after.sections)
<1>1. "plugins.configs" \in DOMAIN c.sections /\ {"sections", "blocks"} \subseteq DOMAIN c
  <2>1. Places[1] = "plugins.configs" /\ 1 \in DOMAIN Places
    BY DEF Places
  <2>2. QED
    BY <2>1 DEF ConfigOK, ToSet
<1>2. after.sections["plugins.configs"] = raw
  BY <1>1 DEF patchProviderConfig
<1>3. raw # None
  BY DEF NoneApart
<1>4. /\ p.secret # "" => DOMAIN typed = {"hmacSecret"} /\ typed["hmacSecret"] = p.secret
      /\ p.secret = "" => DOMAIN typed = {}
  <2>1. DOMAIN [hmacSecret |-> p.secret] = {"hmacSecret"}
        /\ [hmacSecret |-> p.secret]["hmacSecret"] = p.secret
    OBVIOUS
  <2>2. DOMAIN <<>> = {}
    OBVIOUS
  <2>3. QED
    BY <2>1, <2>2
<1> HIDE DEF typed, there
<1>5. /\ \A f \in DOMAIN p.plugin : f \in DOMAIN raw /\ raw[f] = p.plugin[f]
      /\ p.secret # "" => "hmacSecret" \in DOMAIN raw /\ raw["hmacSecret"] = p.secret
  <2> DEFINE over == Over(typed, p.plugin)
  <2>1. DOMAIN over = DOMAIN typed \cup DOMAIN p.plugin
        /\ (\A f \in DOMAIN typed : over[f] = typed[f])
        /\ (\A f \in DOMAIN p.plugin \ DOMAIN typed : over[f] = p.plugin[f])
    BY OverIs
  <2>2. /\ DOMAIN raw = DOMAIN over \cup DOMAIN there
        /\ \A f \in DOMAIN over : raw[f] = over[f]
    BY OverIs
  <2>3. "hmacSecret" \notin DOMAIN p.plugin
    BY DEF PluginOK
  <2> HIDE DEF over, raw
  <2>4. QED
    BY <1>4, <2>1, <2>2, <2>3
<1> HIDE DEF raw, after
<1>6. s = settingsFromMap(defaultPluginSettings, raw)
  BY <1>2, <1>3, FirstPlace DEF loadSettings
<1>7. /\ "fallback" \in DOMAIN raw /\ raw.fallback \in Fallbacks => s.fallback = raw.fallback
      /\ \A f \in Untouched \cap DOMAIN raw : s[f] = raw[f]
  BY <1>6, ReadSettings
<1> HIDE DEF s
<1>8. s.fallback = p.plugin.fallback
  BY <1>5, <1>7 DEF PluginOK
<1>9. \A f \in {"enabled", "explicit", "executor", "namespace"} : s[f] = p.plugin[f]
  BY <1>5, <1>7 DEF PluginOK, Untouched
<1>10. \A f \in DOMAIN p.plugin \ {"secretSource"} : s[f] = p.plugin[f]
  BY <1>8, <1>9 DEF PluginOK
<1>11. p.secret # "" => s.hmacSecret = p.secret
  BY <1>5, <1>7 DEF Untouched
<1>12. QED
  BY <1>10, <1>11 DEF s, after

-----------------------------------------------------------------------------
(* Pages, blocks and the cached provider have models of which no two go by *)
(* the same.                                                               *)

\* An id that may be picked is one that goes by itself.
PickOK(id) == id # "" /\ Word(id, id)

ShownOK(p) ==
  /\ {"models", "plugin", "picker"} \subseteq DOMAIN p
  /\ ListOK(p.models) /\ \A r \in p.models : {"name", "alias"} \subseteq DOMAIN r
  /\ \A id \in p.picker : PickOK(id)
  /\ PluginOK(p.plugin)

BlocksOK(blocks) ==
  \A i \in DOMAIN blocks : ListOK(blocks[i].models) /\ None \notin blocks[i].models

SpecOK(spec) == spec # None => ListOK(spec.models)
ReadOK(read) == DOMAIN read = Resolvers /\ \A r \in Resolvers : SpecOK(read[r])

ModelsInv ==
  /\ BlocksOK(config.blocks)
  /\ SpecOK(cache) /\ ReadOK(reading)
  /\ page # None \/ (\E f \in Fetchers : writing[f] # None) => ShownOK(page)

LEMMA ConfigBlocksOK ==
  ASSUME NamesApart, NoneApart, NEW c \in Configs
  PROVE  BlocksOK(c.blocks)
<1> SUFFICES ASSUME NEW i \in DOMAIN c.blocks
             PROVE  ListOK(c.blocks[i].models) /\ None \notin c.blocks[i].models
  BY DEF BlocksOK
<1>1. c.blocks[i] \in ToSet(c.blocks)
  BY DEF ToSet
<1>2. c.blocks[i] \in UNION {ToSet(d.blocks) : d \in Configs}
  BY <1>1
<1>3. c.blocks[i].models \in ModelLists
  BY <1>2 DEF ModelLists
<1>4. QED
  BY <1>3, ListsAreOK DEF NoneApart

LEMMA EmptyListOK == ListOK({})
BY DEF ListOK

\* The models that are read from the cache file
LEMMA KnownModelsOK ==
  ASSUME NamesApart, CatalogWhole
  PROVE  ListOK(loadModelCatalog(catalog))
<1>1. loadModelCatalog(catalog) = {} \/ loadModelCatalog(catalog) \in ModelLists
  BY DEF CatalogWhole, ModelLists
<1>2. QED
  BY <1>1, EmptyListOK, ListsAreOK

LEMMA ExtractedOK ==
  ASSUME NEW c, ConfigOK(c), BlocksOK(c.blocks), NEW known, ListOK(known),
         ExtractWith(c, known) # None
  PROVE  ListOK(ExtractWith(c, known).models)
<1>1. PICK j \in DOMAIN c.blocks : ExtractWith(c, known) = SpecOf(c.blocks[j], known)
  BY FoundIsBlock
<1>2. SpecOf(c.blocks[j], known).models \in {known, c.blocks[j].models}
  BY DEF SpecOf
<1>3. QED
  BY <1>1, <1>2 DEF BlocksOK

LEMMA ResolvedOK ==
  ASSUME NamesApart, IInv, CatalogWhole, ModelsInv, Resolution # None
  PROVE  ListOK(Resolution.models)
<1>1. CASE cache # None
  BY <1>1 DEF Resolution, ModelsInv, SpecOK
<1>2. CASE cache = None
  <2>1. Resolution = ExtractWith(config, loadModelCatalog(catalog))
    BY <1>2 DEF Resolution, Extract, ExtractWith
  <2>2. QED
    BY <2>1, KnownModelsOK, ExtractedOK DEF IInv, ModelsInv
<1>3. QED
  BY <1>1, <1>2

\* Whoever resolves leaves such lists of models.
LEMMA ResolvesModels ==
  ASSUME NamesApart, CatalogWhole, ReadOK(reading), NEW cached, SpecOK(cached),
         NEW c, ConfigOK(c), BlocksOK(c.blocks), Resolves(cached, c)
  PROVE  SpecOK(cache') /\ ReadOK(reading')
<1>1. SpecOK(Extract(c))
  <2>1. Extract(c) = ExtractWith(c, loadModelCatalog(catalog))
    BY DEF Extract, ExtractWith
  <2>2. QED
    BY <2>1, KnownModelsOK, ExtractedOK DEF SpecOK
<1>2. CASE cache' = cached /\ UNCHANGED reading
  BY <1>2
<1>3. CASE cache' = Extract(c) /\ UNCHANGED reading
  BY <1>1, <1>3
<1>4. ASSUME NEW r \in Resolvers, cache' = None, reading' = [reading EXCEPT ![r] = Extract(c)]
      PROVE  SpecOK(cache') /\ ReadOK(reading')
  <2>1. SpecOK(cache')
    BY <1>4 DEF SpecOK
  <2>2. DOMAIN reading' = Resolvers /\ \A q \in Resolvers : reading'[q] \in {reading[q], Extract(c)}
    BY <1>4 DEF ReadOK
  <2>3. \A q \in Resolvers : SpecOK(reading'[q])
    BY <1>1, <2>2 DEF ReadOK
  <2>4. QED
    BY <2>1, <2>2, <2>3 DEF ReadOK
<1>5. QED
  BY <1>2, <1>3, <1>4 DEF Resolves

\* The rows of models
LEMMA RowsOfModels ==
  ASSUME NEW models, ListOK(models)
  PROVE  /\ ListOK(editorModelsFromSpec(models))
         /\ \A r \in editorModelsFromSpec(models) : {"name", "alias"} \subseteq DOMAIN r
<1> DEFINE Row(m) == [name |-> m.name, alias |-> m.alias, image |-> m.image,
                      levels |-> TickedLevels(m.thinking)]
<1>1. editorModelsFromSpec(models) = {Row(m) : m \in models}
  BY DEF editorModelsFromSpec
<1>2. \A m \in models : /\ Row(m).name = m.name /\ Row(m).alias = m.alias
                        /\ {"name", "alias"} \subseteq DOMAIN Row(m)
  OBVIOUS
<1> HIDE DEF Row
<1>3. \A m \in models : Id(Row(m)) = Id(m) /\ Proper(Row(m))
  BY <1>2 DEF Id, Proper, ListOK
<1>4. ListOK({Row(m) : m \in models})
  BY <1>3 DEF ListOK
<1>5. QED
  BY <1>1, <1>2, <1>4

LEMMA LoadModels ==
  ASSUME NamesApart, IInv, CatalogWhole, ModelsInv, Load
  PROVE  ModelsInv'
<1>1. ListOK(Resolution.models) /\ UNCHANGED config
  BY ResolvedOK DEF Load
<1> DEFINE shown == PageOf(Resolution, Settings)
<1> DEFINE picked == IF page = None THEN {} ELSE page.picker
<1>2. page' = [shown EXCEPT !.picker = picked] /\ \A id \in picked : PickOK(id)
  <2>1. page' = [shown EXCEPT !.picker = picked]
    BY DEF Load
  <2>2. CASE page = None
    <3>1. picked = {}
      BY <2>2
    <3>2. QED
      BY <2>1, <3>1
  <2>3. CASE page # None
    <3>1. picked = page.picker
      BY <2>3
    <3>2. \A id \in page.picker : PickOK(id)
      BY <2>3 DEF ModelsInv, ShownOK
    <3>3. QED
      BY <2>1, <3>1, <3>2
  <2>4. QED
    BY <2>2, <2>3
<1>3. /\ {"models", "plugin", "picker"} \subseteq DOMAIN shown
      /\ shown.models = editorModelsFromSpec(Resolution.models)
      /\ shown.plugin = pluginEditorView(loadSettings(config.sections))
  BY DEF PageOf, Settings
<1> HIDE DEF shown, picked
<1>4. ListOK(shown.models) /\ \A r \in shown.models : {"name", "alias"} \subseteq DOMAIN r
  BY <1>1, <1>3, RowsOfModels
<1>5. PluginOK(shown.plugin)
  BY <1>3, ViewOK
<1>6. ShownOK(page')
  BY <1>2, <1>3, <1>4, <1>5 DEF ShownOK
<1>7. SpecOK(cache') /\ ReadOK(reading')
  BY ResolvesModels DEF Load, IInv, ModelsInv
<1>8. QED
  BY <1>1, <1>6, <1>7 DEF ModelsInv

\* A page on which other rows for models are shown
LEMMA EditModels ==
  ASSUME ModelsInv, page # None, UNCHANGED <<config, cache, reading>>,
         NEW p, ShownOK(p), page' = p
  PROVE  ModelsInv'
BY DEF ModelsInv

LEMMA FewerRows ==
  ASSUME NEW L, ListOK(L), NEW r
  PROVE  ListOK(L \ {r})
BY DEF ListOK

\* A row that still goes by the same
LEMMA ChangedRow ==
  ASSUME NEW L, ListOK(L), NEW r \in L, NEW q, q.name = r.name, q.alias = r.alias
  PROVE  ListOK((L \ {r}) \cup {q})
<1>1. Id(q) = Id(r) /\ Proper(q)
  BY DEF Id, Proper, ListOK
<1>2. QED
  BY <1>1 DEF ListOK

LEMMA PickedRows ==
  ASSUME NEW L, ListOK(L), NEW picked, \A id \in picked : PickOK(id), NEW R,
         \A q \in R : q.name \in picked /\ q.alias = "" /\ \A r \in L : Id(r) # q.name,
         \A q, w \in R : q.name = w.name => q = w
  PROVE  ListOK(L \cup R)
<1>1. \A q \in R : Id(q) = q.name /\ PickOK(q.name)
  BY DEF Id, firstNonEmpty, PickOK
<1>2. \A q \in R : Proper(q)
  BY <1>1 DEF Proper, PickOK
<1>3. \A q \in R, r \in L : Id(q) # Id(r)
  BY <1>1
<1>4. ASSUME NEW q \in R, NEW w \in R, Id(q) = Id(w) PROVE q = w
  <2>1. q.name = w.name
    BY <1>1, <1>4
  <2>2. QED
    BY <2>1
<1>5. \A q, w \in L : Proper(q) /\ (Id(q) = Id(w) => q = w)
  BY DEF ListOK
<1>6. QED
  BY <1>2, <1>3, <1>4, <1>5 DEF ListOK

\* The row for an id that was picked
Suggested(id) == [name |-> id, alias |-> "", image |-> id \in ImageIds,
                  levels |-> defaultThinkingLevelsForModel(id)]

LEMMA EditPageModels ==
  ASSUME ModelsInv, EditPage
  PROVE  ModelsInv'
<1>1. page # None /\ UNCHANGED <<config, cache, reading>>
  BY DEF EditPage, AddKeyRow, TypeKey, RemoveKey, TypeSecret, RenameIt, SwitchIt, RemoveModel,
         TickImage, TickNone, PickModels, Edit
<1>2. ShownOK(page)
  BY <1>1 DEF ModelsInv
<1>3. CASE AddKeyRow \/ TypeKey \/ RemoveKey
  <2>1. PICK rows : page' = [page EXCEPT !.rows = rows]
    <3>1. CASE AddKeyRow
      BY <3>1 DEF AddKeyRow, Edit
    <3>2. CASE TypeKey
      <4>1. PICK i \in DOMAIN page.rows : page' = [page EXCEPT !.rows[i].value = NewKey]
        BY <3>2 DEF TypeKey, Edit
      <4>2. page' = [page EXCEPT !.rows = [page.rows EXCEPT ![i].value = NewKey]]
        BY <4>1
      <4>3. QED
        BY <4>2
    <3>3. CASE RemoveKey
      <4>1. PICK i \in DOMAIN page.rows : page' = [page EXCEPT !.rows = RemoveAt(page.rows, i)]
        BY <3>3 DEF RemoveKey, Edit
      <4>2. QED
        BY <4>1
    <3>4. QED
      BY <1>3, <3>1, <3>2, <3>3
  <2>2. ShownOK(page')
    BY <1>2, <2>1 DEF ShownOK
  <2>3. QED
    BY <1>1, <2>2, EditModels
<1>4. CASE TypeSecret \/ RenameIt \/ SwitchIt
  <2>1. ShownOK(page')
    BY <1>2, <1>4 DEF TypeSecret, RenameIt, SwitchIt, Edit, ShownOK
  <2>2. QED
    BY <1>1, <2>1, EditModels
<1>5. CASE RemoveModel
  <2>1. PICK r \in page.models : page' = [page EXCEPT !.models = page.models \ {r}]
    BY <1>5 DEF RemoveModel, Edit
  <2>2. ListOK(page.models \ {r})
    BY <1>2, FewerRows DEF ShownOK
  <2>3. ShownOK(page')
    BY <1>2, <2>1, <2>2 DEF ShownOK
  <2>4. QED
    BY <1>1, <2>3, EditModels
<1>6. CASE TickImage \/ TickNone
  <2>1. PICK r, q :
          /\ r \in page.models
          /\ page' = [page EXCEPT !.models = (page.models \ {r}) \cup {q}]
          /\ q.name = r.name /\ q.alias = r.alias /\ {"name", "alias"} \subseteq DOMAIN q
    <3>1. CASE TickImage
      <4>1. PICK r \in page.models :
              page' = [page EXCEPT !.models = (page.models \ {r}) \cup {[r EXCEPT !.image = ~ r.image]}]
        BY <3>1 DEF TickImage, Edit
      <4>2. {"name", "alias"} \subseteq DOMAIN r
        BY <1>2 DEF ShownOK
      <4> DEFINE q == [r EXCEPT !.image = ~ r.image]
      <4>3. q.name = r.name /\ q.alias = r.alias /\ {"name", "alias"} \subseteq DOMAIN q
        BY <4>2
      <4>4. page' = [page EXCEPT !.models = (page.models \ {r}) \cup {q}]
        BY <4>1
      <4> HIDE DEF q
      <4>5. QED
        BY <4>3, <4>4
    <3>2. CASE TickNone
      <4>1. PICK r, levels :
              /\ r \in page.models
              /\ page' = [page EXCEPT !.models = (page.models \ {r}) \cup {[r EXCEPT !.levels = levels]}]
        BY <3>2 DEF TickNone, Edit
      <4>2. {"name", "alias"} \subseteq DOMAIN r
        BY <1>2, <4>1 DEF ShownOK
      <4> DEFINE q == [r EXCEPT !.levels = levels]
      <4>3. q.name = r.name /\ q.alias = r.alias /\ {"name", "alias"} \subseteq DOMAIN q
        BY <4>2
      <4>4. page' = [page EXCEPT !.models = (page.models \ {r}) \cup {q}]
        BY <4>1
      <4> HIDE DEF q
      <4>5. QED
        BY <4>1, <4>3, <4>4
    <3>3. QED
      BY <1>6, <3>1, <3>2
  <2>2. ListOK((page.models \ {r}) \cup {q})
    BY <1>2, <2>1, ChangedRow DEF ShownOK
  <2>3. ShownOK(page')
    BY <1>2, <2>1, <2>2 DEF ShownOK
  <2>4. QED
    BY <1>1, <2>3, EditModels
<1>7. CASE PickModels
  <2> DEFINE shown == {Id(r) : r \in page.models}
             rows  == {Suggested(id) : id \in page.picker \ shown}
  <2>1. page' = [page EXCEPT !.picker = {}, !.models = page.models \cup rows]
    BY <1>7 DEF PickModels, Suggested
  <2>2. \A id : /\ Suggested(id).name = id /\ Suggested(id).alias = ""
                /\ {"name", "alias"} \subseteq DOMAIN Suggested(id)
    BY DEF Suggested
  <2>3. /\ \A q \in rows : /\ q.name \in page.picker /\ q.alias = ""
                           /\ {"name", "alias"} \subseteq DOMAIN q
                           /\ \A r \in page.models : Id(r) # q.name
        /\ \A q, w \in rows : q.name = w.name => q = w
    <3>1. ASSUME NEW q \in rows
          PROVE  /\ q.name \in page.picker \ shown /\ q.alias = "" /\ q = Suggested(q.name)
                 /\ {"name", "alias"} \subseteq DOMAIN q
      <4>1. PICK id \in page.picker \ shown : q = Suggested(id)
        OBVIOUS
      <4>2. QED
        BY <2>2, <4>1
    <3>2. \A r \in page.models : Id(r) \in shown
      OBVIOUS
    <3> HIDE DEF rows, shown
    <3>3. QED
      BY <3>1, <3>2
  <2> HIDE DEF rows
  <2>4. ListOK(page.models \cup rows)
    BY <1>2, <2>3, PickedRows DEF ShownOK
  <2>5. ShownOK(page')
    BY <1>2, <2>1, <2>3, <2>4 DEF ShownOK
  <2>6. QED
    BY <1>1, <2>5, EditModels
<1>8. QED
  BY <1>3, <1>4, <1>5, <1>6, <1>7 DEF EditPage

\* The block that is hit has the models that are written for the rows, unless
\* the page has none.
LEMMA SavedModels ==
  ASSUME NEW c, ConfigOK(c), NEW p, PageOK(p), findEditableProviderIndex(c.blocks, p) # 0
  PROVE  LET i == findEditableProviderIndex(c.blocks, p)  b == patchProviderConfig(c, p).blocks[i]
         IN  /\ b.name = p.name /\ b.disabled = p.disabled
             /\ b.models = IF p.models = {} THEN c.blocks[i].models
                           ELSE modelsForEditorPayload(p.models, c.blocks[i].models)
<1> DEFINE i == findEditableProviderIndex(c.blocks, p)  after == patchProviderConfig(c, p)
<1>1. i \in DOMAIN c.blocks
      /\ after.blocks = [c.blocks EXCEPT ![i] = PatchedBlock(c.blocks[i], p)]
  BY SavedBlocks
<1>2. BlockFields \subseteq DOMAIN c.blocks[i]
  BY <1>1 DEF ConfigOK
<1> HIDE DEF i, after
<1>3. after.blocks[i] = PatchedBlock(c.blocks[i], p)
  BY <1>1
<1>4. LET b == PatchedBlock(c.blocks[i], p)
      IN  /\ b.name = p.name /\ b.disabled = p.disabled
          /\ b.models = IF p.models = {} THEN c.blocks[i].models
                        ELSE modelsForEditorPayload(p.models, c.blocks[i].models)
  BY <1>2 DEF PatchedBlock, BlockFields
<1>5. QED
  BY <1>3, <1>4 DEF i, after

LEMMA SaveModels ==
  ASSUME NamesApart, NoneApart, IInv, CatalogWhole, ModelsInv, Save
  PROVE  ModelsInv'
<1> DEFINE i == findEditableProviderIndex(config.blocks, page)
<1>1. /\ ConfigOK(config) /\ PageOK(page) /\ ShownOK(page) /\ i # 0
      /\ config' = patchProviderConfig(config, page)
  BY DEF IInv, ModelsInv, Save
<1>2. /\ i \in DOMAIN config.blocks /\ ConfigOK(config')
      /\ config'.blocks = [config.blocks EXCEPT ![i] = PatchedBlock(config.blocks[i], page)]
  BY <1>1, SavedBlocks
<1>3. config'.blocks[i].models
        = IF page.models = {} THEN config.blocks[i].models
          ELSE modelsForEditorPayload(page.models, config.blocks[i].models)
  BY <1>1, SavedModels
<1> HIDE DEF i
<1>4. /\ ListOK(config.blocks[i].models) /\ None \notin config.blocks[i].models
      /\ ListOK(page.models)
  BY <1>1, <1>2 DEF ModelsInv, BlocksOK, ShownOK
<1>5. ListOK(config'.blocks[i].models) /\ None \notin config'.blocks[i].models
  BY <1>3, <1>4, WrittenListOK
<1>6. BlocksOK(config'.blocks)
  BY <1>2, <1>5 DEF ModelsInv, BlocksOK
<1>7. SpecOK(cache') /\ ReadOK(reading')
  <2>1. Resolves(None, config') /\ SpecOK(None)
    BY DEF Save, SpecOK
  <2>2. QED
    BY <1>2, <1>6, <2>1, ResolvesModels DEF ModelsInv
<1>8. PICK rows : page' = [page EXCEPT !.rows = rows]
  BY DEF Save
<1>9. ShownOK(page')
  BY <1>1, <1>8 DEF ShownOK
<1>10. QED
  BY <1>6, <1>7, <1>9 DEF ModelsInv

\* The ids of an answer may be picked.
LEMMA AnswerIds ==
  ASSUME NamesApart, NEW r \in Replies, NEW m \in parseOpenAIModelSpecs(r.items)
  PROVE  Id(m) = m.name /\ PickOK(m.name)
<1>1. m.alias = ""
  <2>1. PICK i : m = ModelOf(r.items[i])
    BY DEF parseOpenAIModelSpecs, ModelOf
  <2>2. QED
    BY <2>1 DEF ModelOf
<1>2. parseOpenAIModelSpecs(r.items) \in ModelLists
  BY DEF ModelLists
<1>3. Proper(m)
  BY <1>2, ListsAreOK DEF ListOK
<1>4. Id(m) = m.name
  BY <1>1, <1>3 DEF Id, firstNonEmpty, Proper
<1>5. QED
  BY <1>3, <1>4 DEF Proper, PickOK

LEMMA PickedOK ==
  ASSUME NEW ids, \A id \in ids : PickOK(id), ShownOK(page)
  PROVE  ShownOK(Picked(ids))
BY DEF Picked, ShownOK

LEMMA FetchModels ==
  ASSUME NamesApart, IInv, CatalogWhole, ModelsInv, NEW f \in Fetchers, NEW r \in Replies, Fetch(f, r)
  PROVE  ModelsInv'
<1> DEFINE ids == {m.name : m \in parseOpenAIModelSpecs(r.items)}
<1>1. page # None /\ ShownOK(page) /\ UNCHANGED config
  BY DEF Fetch, ModelsInv
<1>2. page' \in {page, Picked(ids)}
  BY DEF Fetch
<1>3. \A id \in ids : PickOK(id)
  BY AnswerIds
<1> HIDE DEF ids
<1>4. ShownOK(page')
  BY <1>1, <1>2, <1>3, PickedOK
<1>5. SpecOK(cache') /\ ReadOK(reading')
  BY ResolvesModels DEF Fetch, IInv, ModelsInv
<1>6. QED
  BY <1>1, <1>4, <1>5 DEF ModelsInv

LEMMA CatalogWriteModels ==
  ASSUME NamesApart, IInv, ModelsInv, NEW f \in Fetchers, CatalogWrite(f)
  PROVE  ModelsInv'
<1> DEFINE ids == {e.id : e \in writing[f].entries}
<1>1. writing[f] # None /\ page' \in {page, Picked(ids)} /\ UNCHANGED <<config, cache, reading>>
  BY DEF CatalogWrite
<1>2. PICK r \in Replies : writing[f].entries = EntriesOf(r)
  BY <1>1 DEF IInv, WritingInv
<1>3. \A e \in EntriesOf(r) : \E m \in parseOpenAIModelSpecs(r.items) : e.id = Id(m)
  BY DEF EntriesOf, saveModelCatalog, Id
<1>4. \A id \in ids : PickOK(id)
  BY <1>2, <1>3, AnswerIds
<1> HIDE DEF ids
<1>5. ShownOK(page)
  BY <1>1 DEF ModelsInv
<1>6. ShownOK(page')
  BY <1>1, <1>4, <1>5, PickedOK
<1>7. QED
  BY <1>1, <1>6 DEF ModelsInv

LEMMA StepModels ==
  ASSUME NamesApart, NoneApart, IInv, CatalogWhole, ModelsInv, [Next]_vars
  PROVE  ModelsInv'
<1>1. ASSUME NEW c \in Configs, Reconfigure(c) PROVE ModelsInv'
  <2>1. BlocksOK(c.blocks)
    BY ConfigBlocksOK
  <2>2. ConfigOK(c) /\ SpecOK(None)
    BY ConfigsAre DEF SpecOK
  <2>3. SpecOK(cache') /\ ReadOK(reading')
    BY <1>1, <2>1, <2>2, ResolvesModels DEF Reconfigure, ModelsInv
  <2>4. QED
    BY <1>1, <2>1, <2>3 DEF Reconfigure, ModelsInv
<1>2. ASSUME NEW f \in Fetchers, CatalogOpen(f) PROVE ModelsInv'
  BY <1>2 DEF CatalogOpen, ModelsInv
<1>3. CASE UNCHANGED vars
  BY <1>3 DEF vars, ModelsInv
<1>4. ASSUME OtherResolves PROVE ModelsInv'
  <2>1. SpecOK(cache') /\ ReadOK(reading')
    BY <1>4, ResolvesModels DEF OtherResolves, IInv, ModelsInv
  <2>2. QED
    BY <1>4, <2>1 DEF OtherResolves, ModelsInv
<1>5. ASSUME NEW r \in Resolvers, Stores(r) PROVE ModelsInv'
  <2>1. SpecOK(reading[r]) /\ SpecOK(None)
    BY DEF ModelsInv, ReadOK, SpecOK
  <2>2. SpecOK(cache') /\ ReadOK(reading')
    BY <1>5, <2>1 DEF Stores, ModelsInv, ReadOK
  <2>3. QED
    BY <1>5, <2>2 DEF Stores, ModelsInv
<1>6. QED
  BY <1>1, <1>2, <1>3, <1>4, <1>5, LoadModels, EditPageModels, SaveModels, FetchModels, CatalogWriteModels
     DEF Next

\* No two models of a block, of the cached provider or of the page go by the
\* same, however often they are edited, fetched and saved, if that is so of the
\* configurations, the cache file and the answers from outside.
THEOREM ModelsStayApart ==
  ASSUME NamesApart, NoneApart
  PROVE  Spec => []ModelsInv
<1>1. Init => ModelsInv
  BY ConfigBlocksOK DEF Init, ModelsInv, SpecOK, ReadOK
<1>2. IInv /\ CatalogWhole /\ ModelsInv /\ [Next]_vars => ModelsInv'
  BY StepModels
<1>3. QED
  BY <1>1, <1>2, EditorInvariant, CatalogWholeHolds, PTL DEF Spec

\* A save lays the page over the block that is there: the models are those of
\* the page, each for images if the page or the block says so, and with the
\* levels of the page or, if it has none, the thinking of the block; the
\* settings are the page's, and a page without models leaves those there are
\* (modelsForEditorPayload, patchProviderConfig).
THEOREM SavedOverBlockHolds ==
  ASSUME NamesApart, NoneApart
  PROVE  Spec => SavedOverBlock
<1>1. ASSUME IInv, ModelsInv, Save
      PROVE  LET old == config.blocks[Hit]  b == config'.blocks[Hit]
             IN  /\ b.name = page.name /\ b.disabled = page.disabled
                 /\ \A f \in DOMAIN page.plugin \ {"secretSource"} : Settings'[f] = page.plugin[f]
                 /\ page.secret # "" => Settings'.hmacSecret = page.secret
                 /\ page.models = {} => b.models = old.models
                 /\ page.models # {} =>
                      /\ {Id(m) : m \in b.models} = {Id(r) : r \in page.models}
                      /\ \A r \in page.models, m \in b.models : Id(r) = Id(m) =>
                           LET there == {o \in old.models : Id(o) = Id(r)}
                           IN  /\ m.image <=> (r.image \/ \E o \in there : o.image)
                               /\ r.levels # {} => TickedLevels(m.thinking) = r.levels
                               /\ r.levels = {} =>
                                    m.thinking \in {o.thinking : o \in there}
                                                     \cup (IF there = {} THEN {None} ELSE {})
  <2>1. /\ ConfigOK(config) /\ PageOK(page) /\ ShownOK(page) /\ Hit # 0
        /\ config' = patchProviderConfig(config, page)
    BY <1>1 DEF IInv, ModelsInv, Save, Hit
  <2>2. LET b == config'.blocks[Hit]
        IN  /\ b.name = page.name /\ b.disabled = page.disabled
            /\ b.models = IF page.models = {} THEN config.blocks[Hit].models
                          ELSE modelsForEditorPayload(page.models, config.blocks[Hit].models)
    BY <2>1, SavedModels DEF Hit
  <2>3. Settings' = loadSettings(patchProviderConfig(config, page).sections)
    BY <2>1 DEF Settings
  <2>4. /\ \A f \in DOMAIN page.plugin \ {"secretSource"} : Settings'[f] = page.plugin[f]
        /\ page.secret # "" => Settings'.hmacSecret = page.secret
    BY <2>1, <2>3, SavedSettings DEF ShownOK
  <2>5. Hit \in DOMAIN config.blocks
    BY <2>1, SavedBlocks DEF Hit
  <2>6. /\ ListOK(config.blocks[Hit].models) /\ None \notin config.blocks[Hit].models
        /\ ListOK(page.models)
    BY <1>1, <2>1, <2>5 DEF ModelsInv, BlocksOK, ShownOK
  <2> DEFINE old == config.blocks[Hit]  b == config'.blocks[Hit]
  <2>7. page.models # {} =>
          /\ {Id(m) : m \in b.models} = {Id(r) : r \in page.models}
          /\ \A r \in page.models, m \in b.models :
               Id(r) = Id(m) => LaidOver(m, r, There(r, old.models))
    <3>1. page.models # {} => b.models = modelsForEditorPayload(page.models, old.models)
      BY <2>2
    <3>2. ListOK(old.models) /\ None \notin old.models /\ ListOK(page.models)
      BY <2>6
    <3> HIDE DEF b, old
    <3> DEFINE written == modelsForEditorPayload(page.models, old.models)
    <3>3. /\ {Id(m) : m \in written} = {Id(r) : r \in page.models}
          /\ \A r \in page.models, m \in written :
               Id(r) = Id(m) => LaidOver(m, r, There(r, old.models))
      BY <3>2, WrittenListOK
    <3> HIDE DEF written
    <3>4. QED
      BY <3>1, <3>3 DEF written
  <2>8. QED
    BY <2>2, <2>4, <2>7 DEF LaidOver, There
<1>2. QED
  BY <1>1, EditorInvariant, ModelsStayApart, PTL DEF Spec, SavedOverBlock

=============================================================================
