--------------------------- MODULE UsageStoreProofs ---------------------------
(***************************************************************************)
(* Theorems about UsageStore, for any number of threads, of records kept   *)
(* and of observations: type correctness, that records stay in order       *)
(* wherever they are kept, and that what a save wrote undisturbed stays.   *)
(***************************************************************************)
EXTENDS UsageStore, SequenceTheorems, TLAPS

\* The trim keeps the last MaxRecords elements.
LEMMA NewestIs ==
  ASSUME NEW S, NEW s \in Seq(S), Len(s) > MaxRecords
  PROVE  /\ Newest(s) \in Seq(S) /\ Len(Newest(s)) = MaxRecords
         /\ \A i \in 1..MaxRecords : Newest(s)[i] = s[Len(s) - MaxRecords + i]
<1> DEFINE m == Len(s) - MaxRecords + 1
           n == Len(s)
<1>1. MaxRecords \in Nat \ {0} /\ n \in Nat /\ m \in 1..n
  BY UsageAssumption
<1>2. Newest(s) = SubSeq(s, m, n)
  BY UsageAssumption DEF Newest
<1>3. SubSeq(s, m, n) \in Seq(S) /\ Len(SubSeq(s, m, n)) = MaxRecords
  BY <1>1
<1>4. \A i \in 1..MaxRecords : SubSeq(s, m, n)[i] = s[m + i - 1]
  BY <1>1
<1>5. QED
  BY <1>1, <1>2, <1>3, <1>4

LEMMA NewestType ==
  ASSUME NEW S, NEW s \in Seq(S)
  PROVE  Newest(s) \in Seq(S) /\ Len(Newest(s)) <= MaxRecords
<1>1. CASE Len(s) <= MaxRecords
  BY <1>1 DEF Newest
<1>2. CASE Len(s) > MaxRecords
  BY <1>2, NewestIs, UsageAssumption
<1>3. QED
  BY <1>1, <1>2, UsageAssumption

LEMMA NewestIncreasing ==
  ASSUME NEW s \in Seq(Nat), Increasing(s)
  PROVE  Increasing(Newest(s))
<1>1. CASE Len(s) <= MaxRecords
  BY <1>1 DEF Newest
<1>2. CASE Len(s) > MaxRecords
  <2>1. Newest(s) \in Seq(Nat) /\ Len(Newest(s)) = MaxRecords
    BY <1>2, NewestIs
  <2>2. \A i \in 1..MaxRecords : Newest(s)[i] = s[Len(s) - MaxRecords + i]
    BY <1>2, NewestIs
  <2>3. MaxRecords \in Nat /\ Len(s) \in Nat /\ DOMAIN Newest(s) = 1..MaxRecords
    BY <2>1, UsageAssumption
  <2>4. ASSUME NEW i \in 1..MaxRecords, NEW j \in 1..MaxRecords, i < j
        PROVE  Newest(s)[i] < Newest(s)[j]
    <3> DEFINE d == Len(s) - MaxRecords
    <3>1. d + i \in DOMAIN s /\ d + j \in DOMAIN s /\ d + i < d + j
      BY <1>2, <2>3, <2>4
    <3>2. s[d + i] < s[d + j]
      BY <3>1 DEF Increasing
    <3>3. QED
      BY <3>2, <2>2
  <2>5. QED
    BY <2>3, <2>4 DEF Increasing
<1>3. QED
  BY <1>1, <1>2, UsageAssumption

\* A list that was trimmed is not trimmed again, and one that holds something
\* still does after the trim.
LEMMA NewestShort ==
  ASSUME NEW s \in Seq(Nat)
  PROVE  /\ Len(s) <= MaxRecords => Newest(s) = s
         /\ s # <<>> => Newest(s) # <<>>
<1>1. CASE Len(s) <= MaxRecords
  BY <1>1 DEF Newest
<1>2. CASE Len(s) > MaxRecords
  BY <1>2, NewestIs, UsageAssumption
<1>3. QED
  BY <1>1, <1>2, UsageAssumption

\* A record that is made later has the greater number.
LEMMA AppendIncreasing ==
  ASSUME NEW n \in Nat, NEW s \in Seq(1..n), Increasing(s)
  PROVE  /\ Append(s, n + 1) \in Seq(1..(n + 1))
         /\ Increasing(Append(s, n + 1))
  BY DEF Increasing

\* What was a record stays one.
LEMMA SeqWider ==
  ASSUME NEW n \in Nat, NEW s \in Seq(1..n)
  PROVE  s \in Seq(1..(n + 1)) /\ s \in Seq(Nat)
  OBVIOUS

\* What a write leaves behind is one of two things, and over an empty file
\* what was written.
LEMMA OverwrittenOutcomes ==
  ASSUME NEW old, NEW new \in Seq(Nat)
  PROVE  /\ Overwritten(old, new) \subseteq {new, Torn}
         /\ <<>> # Torn => Overwritten(<<>>, new) = {new}
<1>1. IsPrefix(<<>>, new)
  BY DEF IsPrefix
<1>2. QED
  BY <1>1 DEF Overwritten

-----------------------------------------------------------------------------
(* Types                                                                   *)

LEMMA InitType == Init => TypeOK
  BY UsageAssumption DEF Init, TypeOK, PCs

LEMMA TypeStep == TypeOK /\ [Next]_vars => TypeOK'
<1> SUFFICES ASSUME TypeOK, [Next]_vars PROVE TypeOK'
  OBVIOUS
<1> USE UsageAssumption DEF PCs, Goto, Returns, SaveBegins
<1>0. observed \in Nat
  BY DEF TypeOK
<1>1. CASE Register
  BY <1>1, NewestType DEF TypeOK, Register, Readable
<1>2. CASE Exit
  BY <1>2 DEF TypeOK, Exit
<1>3. ASSUME NEW t \in Threads, Observe(t) PROVE TypeOK'
  <2>1. observed' = observed + 1 /\ observed' \in 0..MaxObservations
    BY <1>3, <1>0 DEF Observe, TypeOK
  <2>2. records' \in Seq(1..observed') /\ Len(records') <= MaxRecords
    <3>1. Append(records, observed + 1) \in Seq(1..(observed + 1))
      BY <1>0, SeqWider DEF TypeOK
    <3>2. QED
      BY <1>3, <2>1, <3>1, NewestType DEF Observe
  <2>3. file' = Torn \/ file' \in Seq(1..observed')
    BY <1>3, <1>0, <2>1, SeqWider DEF Observe, TypeOK
  <2>4. buf' \in [Threads -> Seq(1..observed')]
    BY <1>3, <1>0, <2>1, SeqWider DEF Observe, TypeOK
  <2>5. QED
    BY <1>3, <2>1, <2>2, <2>3, <2>4 DEF Observe, TypeOK
<1>4. ASSUME NEW t \in Threads, Shutdown(t) PROVE TypeOK'
  BY <1>4 DEF TypeOK, Shutdown
<1>5. ASSUME NEW t \in Threads, CopyRecords(t) PROVE TypeOK'
  BY <1>5 DEF TypeOK, CopyRecords
<1>6. ASSUME NEW t \in Threads, TruncateFile(t) PROVE TypeOK'
  BY <1>6 DEF TypeOK, TruncateFile
<1>7. ASSUME NEW t \in Threads, WriteFile(t) PROVE TypeOK'
  <2>1. buf[t] \in Seq(Nat)
    BY <1>0, SeqWider DEF TypeOK
  <2>2. file' \in {buf[t], Torn}
    BY <1>7, <2>1, OverwrittenOutcomes DEF WriteFile
  <2>3. QED
    BY <1>7, <2>2 DEF TypeOK, WriteFile
<1>8. ASSUME NEW t \in Threads, SaveFails(t) PROVE TypeOK'
  BY <1>8 DEF TypeOK, SaveFails
<1>9. ASSUME NEW t \in Threads, Reconfigure(t) PROVE TypeOK'
  BY <1>9 DEF TypeOK, Reconfigure
<1>10. ASSUME NEW t \in Threads, ReadFile(t) PROVE TypeOK'
  <2>1. CASE Readable
    <3>1. file \in Seq(1..observed)
      BY <2>1 DEF TypeOK, Readable
    <3>2. buf' = [buf EXCEPT ![t] = file] /\ pc' = [pc EXCEPT ![t] = "store"]
      BY <1>10, <2>1 DEF ReadFile
    <3>3. QED
      BY <1>10, <3>1, <3>2 DEF TypeOK, ReadFile
  <2>2. CASE ~Readable
    <3>1. buf' = [buf EXCEPT ![t] = <<>>] /\ pc' = [pc EXCEPT ![t] = "idle"]
      BY <1>10, <2>2 DEF ReadFile
    <3>2. <<>> \in Seq(1..observed)
      OBVIOUS
    <3>3. QED
      BY <1>10, <3>1, <3>2 DEF TypeOK, ReadFile
  <2>3. QED
    BY <2>1, <2>2
<1>11. ASSUME NEW t \in Threads, StoreRecords(t) PROVE TypeOK'
  BY <1>11, NewestType DEF TypeOK, StoreRecords
<1>12. CASE UNCHANGED vars
  BY <1>12 DEF TypeOK, vars
<1>13. QED
  BY <1>1, <1>2, <1>3, <1>4, <1>5, <1>6, <1>7, <1>8, <1>9, <1>10, <1>11,
     <1>12 DEF Next, Save, Load

\* The variables keep their types; the list in memory keeps its bound
\* (recordUsageObservation, loadUsageState).
THEOREM TypeCorrect == Spec => []TypeOK
  BY InitType, TypeStep, PTL DEF Spec

-----------------------------------------------------------------------------
(* Order                                                                   *)

LEMMA InitOrder == Init => KeptInOrder
  BY DEF Init, KeptInOrder, Increasing

LEMMA OrderStep == TypeOK /\ KeptInOrder /\ [Next]_vars => KeptInOrder'
<1> SUFFICES ASSUME TypeOK, KeptInOrder, [Next]_vars PROVE KeptInOrder'
  OBVIOUS
<1> USE DEF Goto, Returns, SaveBegins
<1>0. Increasing(<<>>)
  BY DEF Increasing
<1>a. /\ observed \in Nat /\ records \in Seq(1..observed)
      /\ buf \in [Threads -> Seq(1..observed)]
      /\ records \in Seq(Nat) /\ (file # Torn => file \in Seq(Nat))
      /\ \A t \in Threads : buf[t] \in Seq(Nat)
  BY SeqWider DEF TypeOK
<1>b. /\ Increasing(records) /\ (file # Torn => Increasing(file))
      /\ \A t \in Threads : Increasing(buf[t])
  BY DEF KeptInOrder
<1> HIDE DEF Increasing
<1>1. CASE Register
  BY <1>1, <1>a, <1>b, NewestIncreasing DEF KeptInOrder, Register, Readable
<1>2. CASE Exit
  BY <1>2, <1>0, <1>b DEF KeptInOrder, Exit
<1>3. ASSUME NEW t \in Threads, Observe(t) PROVE KeptInOrder'
  <2>1. /\ Append(records, observed + 1) \in Seq(Nat)
        /\ Increasing(Append(records, observed + 1))
    BY <1>a, <1>b, AppendIncreasing
  <2>2. Increasing(records')
    BY <1>3, <2>1, NewestIncreasing DEF Observe
  <2>3. QED
    BY <1>3, <1>b, <2>2 DEF KeptInOrder, Observe
<1>4. ASSUME NEW t \in Threads, Shutdown(t) PROVE KeptInOrder'
  BY <1>4, <1>b DEF KeptInOrder, Shutdown
<1>5. ASSUME NEW t \in Threads, CopyRecords(t) PROVE KeptInOrder'
  BY <1>5, <1>0, <1>a, <1>b DEF KeptInOrder, CopyRecords
<1>6. ASSUME NEW t \in Threads, TruncateFile(t) PROVE KeptInOrder'
  BY <1>6, <1>0, <1>b DEF KeptInOrder, TruncateFile
<1>7. ASSUME NEW t \in Threads, WriteFile(t) PROVE KeptInOrder'
  <2>1. file' \in {buf[t], Torn}
    BY <1>7, <1>a, OverwrittenOutcomes DEF WriteFile
  <2>2. QED
    BY <1>7, <2>1, <1>0, <1>a, <1>b DEF KeptInOrder, WriteFile
<1>8. ASSUME NEW t \in Threads, SaveFails(t) PROVE KeptInOrder'
  BY <1>8, <1>0, <1>a, <1>b DEF KeptInOrder, SaveFails
<1>9. ASSUME NEW t \in Threads, Reconfigure(t) PROVE KeptInOrder'
  BY <1>9, <1>b DEF KeptInOrder, Reconfigure
<1>10. ASSUME NEW t \in Threads, ReadFile(t) PROVE KeptInOrder'
  BY <1>10, <1>0, <1>a, <1>b DEF KeptInOrder, ReadFile, Readable
<1>11. ASSUME NEW t \in Threads, StoreRecords(t) PROVE KeptInOrder'
  BY <1>11, <1>0, <1>a, <1>b, NewestIncreasing DEF KeptInOrder, StoreRecords
<1>12. CASE UNCHANGED vars
  BY <1>12, <1>b DEF KeptInOrder, vars
<1>13. QED
  BY <1>1, <1>2, <1>3, <1>4, <1>5, <1>6, <1>7, <1>8, <1>9, <1>10, <1>11,
     <1>12 DEF Next, Save, Load

\* No interleaving of observations, saves, reloads and restarts keeps a record
\* twice or lets one overtake an earlier one (recordUsageObservation,
\* saveUsageState, loadUsageState).
THEOREM OrderKept == Spec => []KeptInOrder
  BY InitType, TypeStep, InitOrder, OrderStep, PTL DEF Spec

-----------------------------------------------------------------------------
(* Durability.  Durable alone is not inductive: that the save which ends   *)
(* wrote what is in memory has to be known while it is under way.          *)

\* The one call under way saves; once it copied the records they stay as they
\* are, and once it emptied the file nobody else writes there.
SavingInv ==
  trust = "saving" =>
    /\ host # "down"
    /\ \A t \in Threads : pc[t] \in {"idle", "copy", "truncate", "write"}
    /\ \A t, u \in Threads : pc[t] # "idle" /\ pc[u] # "idle" => t = u
    /\ \A t \in Threads :
         pc[t] \in {"truncate", "write"} => buf[t] = records /\ records # <<>>
    /\ \A t \in Threads : pc[t] = "write" => file = <<>>

\* What was saved is what is in memory, and calls under way only read it back.
SavedInv ==
  trust = "saved" =>
    /\ file # <<>> /\ file # Torn /\ Len(file) <= MaxRecords
    /\ host # "down" => records = file
    /\ \A t \in Threads : pc[t] \in {"idle", "read", "store"}
    /\ \A t \in Threads : pc[t] = "store" => buf[t] = file

SaveInv == TypeOK /\ SavingInv /\ SavedInv

LEMMA InitSave == Init => SaveInv
  BY InitType DEF Init, SaveInv, SavingInv, SavedInv

LEMMA SaveStep == SaveInv /\ [Next]_vars => SavingInv' /\ SavedInv'
<1> SUFFICES ASSUME SaveInv, [Next]_vars PROVE SavingInv' /\ SavedInv'
  OBVIOUS
<1> USE DEF Goto, Returns
<1>a. TypeOK /\ SavingInv /\ SavedInv
  BY DEF SaveInv
<1>b. /\ observed \in Nat /\ MaxRecords \in Nat \ {0}
      /\ pc \in [Threads -> PCs] /\ buf \in [Threads -> Seq(1..observed)]
      /\ records \in Seq(Nat) /\ Len(records) <= MaxRecords
      /\ (file # Torn => file \in Seq(Nat))
      /\ \A t \in Threads : buf[t] \in Seq(Nat)
  BY <1>a, SeqWider, UsageAssumption DEF TypeOK
<1>c. <<>> # Torn /\ \A s \in Seq(Nat) : s # Torn
  <2>1. <<>> \in Seq(Nat)
    OBVIOUS
  <2>2. QED
    BY <2>1, UsageAssumption
<1>1. CASE Register
  BY <1>1, <1>a, <1>b, NewestShort DEF Register, Readable, SavingInv, SavedInv
<1>2. CASE Exit
  BY <1>2, <1>a DEF Exit, SavingInv, SavedInv
<1>3. ASSUME NEW t \in Threads, Observe(t) PROVE SavingInv' /\ SavedInv'
  BY <1>3, <1>a, <1>b DEF Observe, SaveBegins, Quiet, SavingInv, SavedInv
<1>4. ASSUME NEW t \in Threads, Shutdown(t) PROVE SavingInv' /\ SavedInv'
  BY <1>4, <1>a, <1>b DEF Shutdown, SaveBegins, Quiet, SavingInv, SavedInv
<1>5. ASSUME NEW t \in Threads, CopyRecords(t) PROVE SavingInv' /\ SavedInv'
  BY <1>5, <1>a, <1>b DEF CopyRecords, SavingInv, SavedInv
<1>6. ASSUME NEW t \in Threads, TruncateFile(t) PROVE SavingInv' /\ SavedInv'
  BY <1>6, <1>a, <1>b DEF TruncateFile, SavingInv, SavedInv
<1>7. ASSUME NEW t \in Threads, WriteFile(t) PROVE SavingInv' /\ SavedInv'
  <2>1. CASE trust = "saving"
    <3>1. file = <<>> /\ buf[t] = records /\ records # <<>> /\ host # "down"
      BY <1>7, <1>a, <2>1 DEF WriteFile, SavingInv
    <3>2. file' = records
      BY <1>7, <1>b, <1>c, <3>1, OverwrittenOutcomes DEF WriteFile
    <3>3. trust' = "saved" /\ records' = records /\ host' = host
      BY <1>7, <2>1 DEF WriteFile
    <3>4. \A u \in Threads : pc'[u] = "idle"
      BY <1>7, <1>a, <1>b, <2>1 DEF WriteFile, SavingInv
    <3>5. QED
      BY <1>b, <1>c, <3>1, <3>2, <3>3, <3>4 DEF SavingInv, SavedInv
  <2>2. CASE trust # "saving"
    BY <1>7, <1>a, <2>2 DEF WriteFile, SavingInv, SavedInv
  <2>3. QED
    BY <2>1, <2>2
<1>8. ASSUME NEW t \in Threads, SaveFails(t) PROVE SavingInv' /\ SavedInv'
  BY <1>8 DEF SaveFails, SavingInv, SavedInv
<1>9. ASSUME NEW t \in Threads, Reconfigure(t) PROVE SavingInv' /\ SavedInv'
  BY <1>9, <1>a, <1>b DEF Reconfigure, SavingInv, SavedInv
<1>10. ASSUME NEW t \in Threads, ReadFile(t) PROVE SavingInv' /\ SavedInv'
  BY <1>10, <1>a, <1>b DEF ReadFile, Readable, SavingInv, SavedInv
<1>11. ASSUME NEW t \in Threads, StoreRecords(t) PROVE SavingInv' /\ SavedInv'
  BY <1>11, <1>a, <1>b, NewestShort DEF StoreRecords, SavingInv, SavedInv
<1>12. CASE UNCHANGED vars
  BY <1>12, <1>a DEF vars, SavingInv, SavedInv
<1>13. QED
  BY <1>1, <1>2, <1>3, <1>4, <1>5, <1>6, <1>7, <1>8, <1>9, <1>10, <1>11,
     <1>12 DEF Next, Save, Load

\* A record whose save met no other call and went well is found again, in
\* memory and in the file, by every later lifecycle call and restart until the
\* next observation or shutdown (saveUsageState, loadUsageState).
THEOREM SavedStays == Spec => []Durable
<1>1. SaveInv => Durable
  BY DEF SaveInv, SavedInv, Durable
<1>2. SaveInv /\ [Next]_vars => SaveInv'
  BY TypeStep, SaveStep DEF SaveInv
<1>3. QED
  BY <1>1, <1>2, InitSave, PTL DEF Spec
=============================================================================
