------------------------------ MODULE UsageStore ------------------------------
(***************************************************************************)
(* The usage records: a bounded list in memory, and a JSON file that every *)
(* recorded observation and the shutdown write anew and that every         *)
(* lifecycle call reads back over the list.  The lock covers the list      *)
(* only; reading and writing the file happens outside it, a write is a     *)
(* truncation followed by the bytes, and executor calls, lifecycle calls   *)
(* and the end of the process fall in between.                             *)
(***************************************************************************)
EXTENDS Naturals, Sequences, SequencesExt

CONSTANTS
  MaxRecords,       \* maxUsageRecords
  MaxObservations,  \* bound: observations made in all
  Threads,          \* the host's threads
  Torn              \* a file that does not parse

ASSUME UsageAssumption ==
  /\ MaxRecords \in Nat \ {0} /\ MaxObservations \in Nat
  /\ Torn \notin Seq(Nat)

VARIABLES
  host,      \* "down", "up", or "stopping" once shutdown was called
  observed,  \* observations made so far; a record is the number of its own
  records,   \* usageState.records
  file,      \* the usage file, <<>> when it is missing or empty
  pc,        \* where each thread stands
  buf,       \* the records it has copied or read
  trust      \* for Durable: "saving" while one save is under way alone,
             \* "saved" once it is done and no record was added since

vars == <<host, observed, records, file, pc, buf, trust>>

PCs == {"idle", "copy", "truncate", "write", "read", "store"}

TypeOK ==
  /\ host \in {"down", "up", "stopping"}
  /\ observed \in 0..MaxObservations
  /\ records \in Seq(1..observed) /\ Len(records) <= MaxRecords
  /\ file = Torn \/ file \in Seq(1..observed)
  /\ pc \in [Threads -> PCs]
  /\ buf \in [Threads -> Seq(1..observed)]
  /\ trust \in {"none", "saving", "saved"}

Init ==
  /\ host = "down" /\ observed = 0 /\ records = <<>> /\ file = <<>>
  /\ pc = [t \in Threads |-> "idle"] /\ buf = [t \in Threads |-> <<>>]
  /\ trust = "none"

-----------------------------------------------------------------------------
\* Mutation: one record too few is cut off.
Newest_OffByOne(s) ==
  IF Len(s) <= MaxRecords + 1 THEN s ELSE SubSeq(s, Len(s) - MaxRecords, Len(s))

\* The trim that follows every append and every load
Newest(s) ==
  IF Len(s) <= MaxRecords THEN s ELSE SubSeq(s, Len(s) - MaxRecords + 1, Len(s))

Readable == file # Torn /\ file # <<>>

Quiet == \A t \in Threads : pc[t] = "idle"

Goto(t, l) == pc' = [pc EXCEPT ![t] = l]

\* A call that will save begins on t.
SaveBegins(t) ==
  /\ pc[t] = "idle" /\ Goto(t, "copy")
  /\ trust' = IF Quiet THEN "saving" ELSE "none"
  /\ UNCHANGED buf

\* The call on t is over.
Returns(t) == Goto(t, "idle") /\ buf' = [buf EXCEPT ![t] = <<>>]

-----------------------------------------------------------------------------
\* Mutation: the list is not read back when the plugin is loaded.
Register_NoLoad ==
  /\ host = "down"
  /\ host' = "up"
  /\ UNCHANGED <<observed, records, file, pc, buf, trust>>

\* plugin.register of a fresh process: configurePlugin's loadUsageState runs
\* before the host routes anything else to the plugin.
Register ==
  /\ host = "down"
  /\ host' = "up"
  /\ records' = IF Readable THEN Newest(file) ELSE records
  /\ UNCHANGED <<observed, file, pc, buf, trust>>

\* recordUsageObservation: append and trim under the lock
Observe(t) ==
  /\ host = "up" /\ observed < MaxObservations
  /\ observed' = observed + 1
  /\ records' = Newest(Append(records, observed + 1))
  /\ SaveBegins(t)
  /\ UNCHANGED <<host, file>>

\* cliproxyPluginShutdown saves; calls under way are not waited for.
Shutdown(t) ==
  /\ host = "up"
  /\ host' = "stopping"
  /\ SaveBegins(t)
  /\ UNCHANGED <<observed, records, file>>

\* The process ends, by itself or not, at any moment.
Exit ==
  /\ host # "down"
  /\ host' = "down" /\ records' = <<>>
  /\ pc' = [t \in Threads |-> "idle"] /\ buf' = [t \in Threads |-> <<>>]
  /\ trust' = IF trust = "saved" THEN trust ELSE "none"
  /\ UNCHANGED <<observed, file>>

-----------------------------------------------------------------------------
(* saveUsageState                                                          *)

\* The copy is taken under the read lock; nothing is written for no records.
CopyRecords(t) ==
  /\ pc[t] = "copy"
  /\ IF records = <<>> THEN Returns(t) /\ trust' = "none"
     ELSE /\ buf' = [buf EXCEPT ![t] = records] /\ Goto(t, "truncate")
          /\ UNCHANGED trust
  /\ UNCHANGED <<host, observed, records, file>>

\* os.WriteFile opens the file and empties it ...
TruncateFile(t) ==
  /\ pc[t] = "truncate"
  /\ file' = <<>> /\ Goto(t, "write")
  /\ UNCHANGED <<host, observed, records, buf, trust>>

\* What is in the file when new is written from its start over old: an old one
\* that is longer shows behind it.  Only of lists that continue one another
\* does the model know which one is longer.
Overwritten(old, new) ==
  IF old # Torn /\ IsPrefix(old, new) THEN {new}
  ELSE IF old # Torn /\ IsPrefix(new, old) THEN {Torn}
  ELSE {new, Torn}

\* ... and writes the bytes, unless another call has written its own since.
WriteFile(t) ==
  /\ pc[t] = "write"
  /\ file' \in Overwritten(file, buf[t])
  /\ Returns(t)
  /\ trust' = IF trust = "saving" THEN "saved" ELSE trust
  /\ UNCHANGED <<host, observed, records>>

\* The file cannot be opened, or not all of it be written; nobody notices.
SaveFails(t) ==
  /\ \/ pc[t] = "truncate" /\ UNCHANGED file
     \/ pc[t] = "write" /\ file' \in {file, Torn}
  /\ Returns(t) /\ trust' = "none"
  /\ UNCHANGED <<host, observed, records>>

-----------------------------------------------------------------------------
(* loadUsageState of a later lifecycle call                                *)

Reconfigure(t) ==
  /\ host = "up" /\ pc[t] = "idle"
  /\ Goto(t, "read")
  /\ trust' = IF trust = "saving" THEN "none" ELSE trust
  /\ UNCHANGED <<host, observed, records, file, buf>>

\* A file that is missing or does not parse changes nothing.
ReadFile(t) ==
  /\ pc[t] = "read"
  /\ IF Readable THEN buf' = [buf EXCEPT ![t] = file] /\ Goto(t, "store")
     ELSE Returns(t)
  /\ UNCHANGED <<host, observed, records, file, trust>>

\* Mutation: what was read is added to what is there.
StoreRecords_Adds(t) ==
  /\ pc[t] = "store"
  /\ records' = Newest(records \o buf[t])
  /\ Returns(t)
  /\ UNCHANGED <<host, observed, file, trust>>

\* What was read replaces what is there.
StoreRecords(t) ==
  /\ pc[t] = "store"
  /\ records' = Newest(buf[t])
  /\ Returns(t)
  /\ UNCHANGED <<host, observed, file, trust>>

-----------------------------------------------------------------------------
Save(t) == CopyRecords(t) \/ TruncateFile(t) \/ WriteFile(t) \/ SaveFails(t)
Load(t) == Reconfigure(t) \/ ReadFile(t) \/ StoreRecords(t)

Next ==
  \/ Register \/ Exit
  \/ \E t \in Threads : Observe(t) \/ Shutdown(t) \/ Save(t) \/ Load(t)

Spec == Init /\ [][Next]_vars

-----------------------------------------------------------------------------
(* Properties                                                              *)

Increasing(s) == \A i, j \in DOMAIN s : i < j => s[i] < s[j]

\* Whatever loads, saves and restarts overlap, no record is kept twice and
\* none overtakes an earlier one: not in memory, not in a file that parses,
\* not in a copy on its way from one to the other (recentUsageRecords shows
\* the list as it is).
KeptInOrder ==
  /\ Increasing(records) /\ (file # Torn => Increasing(file))
  /\ \A t \in Threads : Increasing(buf[t])

\* A record whose save met no other call and went well stays: until the next
\* observation or shutdown, lifecycle calls and restarts, clean or not, find
\* file and memory the same (saveUsageState, loadUsageState), and whatever a
\* crash or an overlapping save left in the file before is gone.
Durable ==
  trust = "saved" => file \notin {<<>>, Torn} /\ (host # "down" => records = file)

\* A lifecycle call reads back what is there and drops nothing: the records
\* are to survive reloads ("a stable, persistent location for usage records").
RecordsSurviveReloads ==
  [][\A t \in Threads : StoreRecords(t) => ToSet(records) \subseteq ToSet(records')]_vars
=============================================================================
