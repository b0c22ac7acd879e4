-------------------------- MODULE ActivityRegistry --------------------------
(***************************************************************************)
(* The in-memory progress registry of ingestion batches.  The handler of a *)
(* batch request starts an entry under the batch_id its client chose,      *)
(* reports progress into it and finishes it; other requests poll it.  Each *)
(* operation holds the registry's lock, so each is one step.               *)
(*                                                                         *)
(* An event is known by its sequence number alone.  A missing key of one   *)
(* of the code's dictionaries is the value Absent.  One handler serves one   *)
(* request; a client that retries gives two handlers the same batch_id.    *)
(***************************************************************************)
EXTENDS Naturals, Sequences, SequencesExt

CONSTANTS
  Ids,          \* batch identifiers
  Handlers,     \* requests that carry one
  IdOf,         \* the batch_id of each request
  Applications,
  AppOf,        \* the application each request names, or Absent
  MaxBatches,   \* 100 in the code
  MaxEvents,    \* max_events_per_batch: 1000 in the code
  MaxReports,   \* bound: progress reports of one request
  Absent

ASSUME IdAssumption == IdOf \in [Handlers -> Ids]
ASSUME OwnerAssumption == AppOf \in [Handlers -> Applications \cup {Absent}]
ASSUME BoundAssumption == /\ MaxBatches \in Nat \ {0} /\ MaxEvents \in Nat \ {0}
                          /\ MaxReports \in Nat
ASSUME AbsenceAssumption ==
  Absent \notin Nat \cup Seq(Nat) \cup {"running", "completed", "failed"} \cup Applications

VARIABLES
  order,         \* the keys of _events in the order they were inserted
  events,        \* _events: the sequence numbers kept
  statuses,      \* _statuses
  sequences,     \* _sequences
  applications,  \* _applications: by whose authority an entry may be polled
  handler,       \* handler[h]: where the request stands and what it has reported
  strays,        \* history: how many reports re-created an evicted entry
  strayed        \* history: the entries a report re-created and none started since

strayVars == <<strays, strayed>>
activityVars ==
  <<order, events, statuses, sequences, applications, handler, strayVars>>

ActivityInit ==
  /\ order = <<>>
  /\ events = [i \in Ids |-> Absent]
  /\ statuses = [i \in Ids |-> Absent]
  /\ sequences = [i \in Ids |-> Absent]
  /\ applications = [i \in Ids |-> Absent]
  /\ handler = [h \in Handlers |-> [pc |-> "idle", reports |-> 0]]
  /\ strays = 0
  /\ strayed = {}

-----------------------------------------------------------------------------
Known(i) == events[i] # Absent
Goto(h, pc) == handler' = [handler EXCEPT ![h].pc = pc]

\* Keys in insertion order after i is assigned, or after evict went first.
Inserted(keys, i) == IF Contains(keys, i) THEN keys ELSE Append(keys, i)
Kept(f, evicted) == [i \in Ids |-> IF i \in evicted THEN Absent ELSE f[i]]

\* The entry start must make room for: the oldest, when the id is new.
\* Mutant: the registry is allowed one entry too many.
Evicted_OneTooMany(i) ==
  IF ~Known(i) /\ Len(order) > MaxBatches THEN {Head(order)} ELSE {}
Evicted(i) ==
  IF ~Known(i) /\ Len(order) >= MaxBatches THEN {Head(order)} ELSE {}

\* Mutant: a restarted entry keeps counting.
FirstSequence_Kept(i) == IF sequences[i] = Absent THEN 0 ELSE sequences[i]
FirstSequence(i) == 0

\* Mutant: an evicted entry leaves its application behind.
Owners_KeepEvicted(h, evicted) ==
  [applications EXCEPT ![IdOf[h]] = IF AppOf[h] = Absent THEN @ ELSE AppOf[h]]

\* Starting again without an application keeps the one on record.
Owners(h, evicted) ==
  [Kept(applications, evicted) EXCEPT
     ![IdOf[h]] = IF AppOf[h] = Absent THEN @ ELSE AppOf[h]]

StartEntry(h) ==
  /\ handler[h].pc = "idle"
  /\ LET i == IdOf[h]
         gone == Evicted(i)
     IN  /\ order' = Inserted(IF gone = {} THEN order ELSE Tail(order), i)
         /\ events' = [Kept(events, gone) EXCEPT ![i] = <<>>]
         /\ statuses' = [Kept(statuses, gone) EXCEPT ![i] = "running"]
         /\ sequences' = [Kept(sequences, gone) EXCEPT ![i] = FirstSequence(i)]
         /\ applications' = Owners(h, gone)
         /\ strayed' = strayed \ (gone \cup {i})
  /\ Goto(h, "running")
  /\ UNCHANGED strays

\* The last MaxEvents of a longer list.
Trimmed(s) ==
  IF Len(s) > MaxEvents THEN SubSeq(s, Len(s) - MaxEvents + 1, Len(s)) ELSE s

\* A report creates the entry it does not find, without making room for it and
\* without its application.
ReportProgress(h) ==
  /\ handler[h].pc = "running"
  /\ handler[h].reports < MaxReports
  /\ LET i == IdOf[h]
         sequence == IF sequences[i] = Absent THEN 1 ELSE sequences[i] + 1
         before == IF Known(i) THEN events[i] ELSE <<>>
     IN  /\ order' = Inserted(order, i)
         /\ strays' = IF Known(i) THEN strays ELSE strays + 1
         /\ strayed' = IF Known(i) THEN strayed ELSE strayed \cup {i}
         /\ events' = [events EXCEPT ![i] = Trimmed(Append(before, sequence))]
         /\ statuses' = [statuses EXCEPT ![i] = IF @ = Absent THEN "running" ELSE @]
         /\ sequences' = [sequences EXCEPT ![i] = sequence]
  /\ handler' = [handler EXCEPT ![h].reports = @ + 1]
  /\ UNCHANGED applications

\* finish writes the status whether or not the entry is still there.
Finish(h, status, pc) ==
  /\ statuses' = [statuses EXCEPT ![IdOf[h]] = status]
  /\ Goto(h, pc)
  /\ UNCHANGED <<order, events, sequences, applications, strayVars>>

\* The batch is ingested and registered: it is completed before its document
\* set is frozen.
Complete(h) ==
  /\ handler[h].pc = "running"
  /\ Finish(h, "completed", "freezing")

\* The set is frozen and the answer sent.
Succeed(h) ==
  /\ handler[h].pc = "freezing"
  /\ Goto(h, "succeeded")
  /\ UNCHANGED <<order, events, statuses, sequences, applications, strayVars>>

\* Any exception, from ingestion or from the freezing, answers an error.
FailureStatus(h) == "failed"
Fail(h) ==
  /\ handler[h].pc \in {"running", "freezing"}
  /\ Finish(h, FailureStatus(h), "failed")

ActivityNext ==
  \E h \in Handlers :
    StartEntry(h) \/ ReportProgress(h) \/ Complete(h) \/ Succeed(h) \/ Fail(h)

ActivitySpec == ActivityInit /\ [][ActivityNext]_activityVars

-----------------------------------------------------------------------------
(* Properties.                                                                *)

ActivityTypeOK ==
  /\ order \in Seq(Ids)
  /\ events \in [Ids -> Seq(Nat) \cup {Absent}]
  /\ \A i \in Ids : Known(i) => Len(events[i]) <= MaxEvents
  /\ statuses \in [Ids -> {"running", "completed", "failed", Absent}]
  /\ sequences \in [Ids -> Nat \cup {Absent}]
  /\ applications \in [Ids -> Applications \cup {Absent}]
  /\ handler \in [Handlers ->
       [pc : {"idle", "running", "freezing", "succeeded", "failed"},
        reports : 0..MaxReports]]
  /\ strays \in Nat
  /\ strayed \subseteq Ids

\* Every entry is in the order once, has a status, and its events are the last of
\* an unbroken count from the last start or re-creation of the entry to its
\* sequence.  The count begins again at a start: a poller that still holds an
\* older sequence then misses the kept events up to it.
WindowIsSuffix ==
  /\ ToSet(order) = {i \in Ids : Known(i)} /\ IsInjective(order)
  /\ \A i \in Ids : Known(i) =>
       /\ statuses[i] # Absent
       /\ sequences[i] # Absent
       /\ Len(events[i]) = IF sequences[i] < MaxEvents THEN sequences[i] ELSE MaxEvents
       /\ \A k \in 1..Len(events[i]) :
            events[i][k] = sequences[i] - Len(events[i]) + k

\* The application by which the poll of an entry is authorized is one that a
\* request carrying the entry's batch_id named when it started, and is forgotten
\* with the entry.  An entry that a report re-created has none until it is started
\* again: in production it cannot be polled, although its batch still runs.
HasStarted(h) == handler[h].pc # "idle"
OwnerOK(i) ==
  IF Known(i) /\ i \notin strayed
    THEN \E h \in Handlers : IdOf[h] = i /\ HasStarted(h) /\ applications[i] = AppOf[h]
    ELSE applications[i] = Absent

\* The four dictionaries agree, whatever requests are retried under one batch_id,
\* evicted while they run, and re-created by their reports.
DictionariesAgree == WindowIsSuffix /\ \A i \in Ids : OwnerOK(i)

\* With one request to an id: once the request is answered, the status polled
\* is the outcome the client was answered, unless the entry was evicted.
Sole(h) == \A g \in Handlers : IdOf[g] = IdOf[h] => g = h
StatusIsAnswer ==
  \A h \in Handlers : Sole(h) /\ Known(IdOf[h]) =>
    /\ handler[h].pc = "succeeded" => statuses[IdOf[h]] = "completed"
    /\ handler[h].pc = "failed" => statuses[IdOf[h]] = "failed"

\* The registry outgrows its bound by no more than the entries that reports
\* re-created after their eviction.
BoundedButStrays == Len(order) <= MaxBatches + strays
=============================================================================
