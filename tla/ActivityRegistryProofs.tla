----------------------- MODULE ActivityRegistryProofs -----------------------
(***************************************************************************)
(* Theorems about ActivityRegistry, for any bounds, identifiers and        *)
(* requests: the dictionaries agree, the events kept are an unbroken       *)
(* window, an entry is polled by the authority of a request that started   *)
(* it, and the registry stays within its bound.                            *)
(***************************************************************************)
EXTENDS ActivityRegistry, SequenceTheorems, TLAPS

Pcs == {"idle", "running", "freezing", "succeeded", "failed"}
HandlerRecord == [pc : Pcs, reports : 0..MaxReports]
Statuses == {"running", "completed", "failed", Absent}

\* The last of an unbroken count that has come to n, at most MaxEvents of them.
IsWindow(s, n) ==
  /\ s \in Seq(Nat)
  /\ Len(s) = IF n < MaxEvents THEN n ELSE MaxEvents
  /\ \A k \in 1..Len(s) : s[k] = n - Len(s) + k

\* An outcome once reported stays what is polled while the entry is there.
OutcomeInv ==
  \A h \in Handlers : Sole(h) /\ Known(IdOf[h]) =>
    /\ handler[h].pc \in {"freezing", "succeeded"} => statuses[IdOf[h]] = "completed"
    /\ handler[h].pc = "failed" => statuses[IdOf[h]] = "failed"

\* A count goes with its entry.
CountsInv == \A i \in Ids : ~Known(i) => sequences[i] = Absent

ActivityInv ==
  ActivityTypeOK /\ WindowIsSuffix /\ CountsInv /\ BoundedButStrays /\ OutcomeInv

\* Of the application kept with an entry.  Only known entries are strayed.
OwnersInv == (\A i \in Ids : OwnerOK(i)) /\ \A i \in strayed : Known(i)

-----------------------------------------------------------------------------
(* Sequences of keys and windows of events.                                  *)

\* A sequence of keys, each once, that are the members of S.
KeysAre(s, S) == s \in Seq(Ids) /\ ToSet(s) = S /\ IsInjective(s)

LEMMA KeyAdded ==
  ASSUME NEW S, NEW s, KeysAre(s, S), NEW i \in Ids
  PROVE  /\ KeysAre(Inserted(s, i), S \cup {i})
         /\ Len(Inserted(s, i)) = IF i \in S THEN Len(s) ELSE Len(s) + 1
<1>1. s \in Seq(Ids) /\ DOMAIN s = 1..Len(s) /\ Len(s) \in Nat
  BY DEF KeysAre
<1>2. Contains(s, i) <=> i \in S
  BY <1>1 DEF KeysAre, Contains, ToSet
<1>3. CASE i \in S
  BY <1>2, <1>3 DEF KeysAre, Inserted
<1>4. CASE i \notin S
  <2> DEFINE t == Append(s, i)
  <2>1. Inserted(s, i) = t
    BY <1>2, <1>4 DEF Inserted
  <2>2. /\ t \in Seq(Ids) /\ Len(t) = Len(s) + 1 /\ DOMAIN t = 1..(Len(s) + 1)
        /\ t[Len(s) + 1] = i /\ \A k \in 1..Len(s) : t[k] = s[k]
    BY <1>1
  <2>3. ToSet(t) = S \cup {i}
    <3>1. S = {s[k] : k \in 1..Len(s)}
      BY <1>1 DEF KeysAre, ToSet
    <3>2. ToSet(t) = {t[k] : k \in 1..(Len(s) + 1)}
      BY <2>2 DEF ToSet
    <3> HIDE DEF t
    <3>3. \A x \in S : x \in ToSet(t)
      BY <1>1, <2>2, <3>1, <3>2
    <3>4. \A x \in ToSet(t) : x \in S \cup {i}
      BY <1>1, <2>2, <3>1, <3>2
    <3>5. i \in ToSet(t)
      BY <1>1, <2>2, <3>2
    <3> QED
      BY <3>3, <3>4, <3>5
  <2>4. IsInjective(t)
    <3>1. \A k \in 1..Len(s) : s[k] # i
      BY <1>1, <1>4 DEF KeysAre, ToSet
    <3>2. \A j, k \in 1..Len(s) : s[j] = s[k] => j = k
      BY <1>1 DEF KeysAre, IsInjective
    <3> HIDE DEF t
    <3> QED
      BY <1>1, <2>2, <3>1, <3>2 DEF IsInjective
  <2> QED
    BY <1>4, <2>1, <2>2, <2>3, <2>4 DEF KeysAre
<1> QED
  BY <1>3, <1>4

LEMMA OldestDropped ==
  ASSUME NEW S, NEW s, KeysAre(s, S), Len(s) > 0
  PROVE  /\ Head(s) \in S /\ KeysAre(Tail(s), S \ {Head(s)})
         /\ Len(Tail(s)) = Len(s) - 1
<1>1. s \in Seq(Ids) /\ DOMAIN s = 1..Len(s) /\ Len(s) \in Nat /\ s # <<>> /\ Head(s) = s[1]
  BY DEF KeysAre
<1> DEFINE t == Tail(s)
<1>2. /\ t \in Seq(Ids) /\ Len(t) = Len(s) - 1 /\ DOMAIN t = 1..(Len(s) - 1)
      /\ \A k \in 1..(Len(s) - 1) : t[k] = s[k + 1]
  BY <1>1
<1>3. S = {s[k] : k \in 1..Len(s)} /\ \A j, k \in 1..Len(s) : s[j] = s[k] => j = k
  BY <1>1 DEF KeysAre, ToSet, IsInjective
<1>4. Head(s) \in S
  BY <1>1, <1>3
<1> HIDE DEF t
<1>5. ToSet(t) = {t[k] : k \in 1..(Len(s) - 1)}
  BY <1>2 DEF ToSet
<1>6. \A x \in ToSet(t) : x \in S \ {Head(s)}
  <2> SUFFICES ASSUME NEW k \in 1..(Len(s) - 1) PROVE t[k] \in S \ {Head(s)}
    BY <1>5
  <2>1. t[k] = s[k + 1] /\ k + 1 \in 1..Len(s) /\ 1 \in 1..Len(s) /\ k + 1 # 1
    BY <1>1, <1>2
  <2> QED
    BY <1>1, <1>3, <2>1
<1>7. \A x \in S \ {Head(s)} : x \in ToSet(t)
  <2> SUFFICES ASSUME NEW k \in 1..Len(s), s[k] # Head(s) PROVE s[k] \in ToSet(t)
    BY <1>3
  <2>1. k # 1 /\ k - 1 \in 1..(Len(s) - 1) /\ t[k - 1] = s[(k - 1) + 1] /\ (k - 1) + 1 = k
    BY <1>1, <1>2
  <2> QED
    BY <1>5, <2>1
<1>8. IsInjective(t)
  <2> SUFFICES ASSUME NEW j \in 1..(Len(s) - 1), NEW k \in 1..(Len(s) - 1), t[j] = t[k] PROVE j = k
    BY <1>2 DEF IsInjective
  <2>1. s[j + 1] = s[k + 1] /\ j + 1 \in 1..Len(s) /\ k + 1 \in 1..Len(s)
    BY <1>1, <1>2
  <2>2. j + 1 = k + 1
    BY <1>3, <2>1
  <2> QED
    BY <1>1, <2>2
<1>9. ToSet(t) = S \ {Head(s)}
  BY <1>6, <1>7
<1> QED
  BY <1>2, <1>4, <1>8, <1>9 DEF KeysAre, t

LEMMA WindowMoves ==
  ASSUME NEW n \in Nat, NEW s, IsWindow(s, n)
  PROVE  IsWindow(Trimmed(Append(s, n + 1)), n + 1)
<1> DEFINE t == Append(s, n + 1)
<1>1. s \in Seq(Nat) /\ Len(s) \in Nat /\ MaxEvents \in Nat \ {0}
  BY BoundAssumption DEF IsWindow
<1>2. /\ t \in Seq(Nat) /\ Len(t) = Len(s) + 1 /\ t[Len(s) + 1] = n + 1
      /\ \A k \in 1..Len(s) : t[k] = s[k]
  BY <1>1
<1>3. /\ Len(s) = IF n < MaxEvents THEN n ELSE MaxEvents
      /\ \A k \in 1..Len(s) : s[k] = n - Len(s) + k
  BY DEF IsWindow
<1> HIDE DEF t
<1>4. \A k \in 1..Len(t) : t[k] = (n + 1) - Len(t) + k
  <2> SUFFICES ASSUME NEW k \in 1..Len(t) PROVE t[k] = (n + 1) - Len(t) + k
    OBVIOUS
  <2>1. CASE k \in 1..Len(s)
    <3>1. t[k] = n - Len(s) + k
      BY <1>2, <1>3, <2>1
    <3> QED
      BY <1>1, <1>2, <2>1, <3>1
  <2>2. CASE k = Len(s) + 1
    BY <1>1, <1>2, <2>2
  <2> QED
    BY <1>1, <1>2, <2>1, <2>2
<1>5. CASE n < MaxEvents
  <2>1. Trimmed(t) = t
    BY <1>1, <1>2, <1>3, <1>5 DEF Trimmed
  <2>2. Len(t) = IF n + 1 < MaxEvents THEN n + 1 ELSE MaxEvents
    BY <1>1, <1>2, <1>3, <1>5
  <2>3. IsWindow(t, n + 1)
    BY <1>2, <1>4, <2>2 DEF IsWindow
  <2> QED
    BY <2>1, <2>3 DEF t
<1>6. CASE ~(n < MaxEvents)
  <2> DEFINE r == SubSeq(t, Len(t) - MaxEvents + 1, Len(t))
  <2>1. Len(t) = MaxEvents + 1 /\ Len(t) - MaxEvents + 1 = 2 /\ Trimmed(t) = r
    BY <1>1, <1>2, <1>3, <1>6 DEF Trimmed
  <2>2. r = SubSeq(t, 2, MaxEvents + 1)
    BY <2>1
  <2>3. r \in Seq(Nat) /\ Len(r) = MaxEvents /\ \A k \in 1..MaxEvents : r[k] = t[k + 1]
    <3>1. \A i \in 2..(MaxEvents + 1) : t[i] \in Nat
      BY <1>1, <1>2, <2>1
    <3>2. /\ r \in Seq(Nat)
          /\ Len(r) = IF 2 <= MaxEvents + 1 THEN (MaxEvents + 1) - 2 + 1 ELSE 0
          /\ \A i \in 1..((MaxEvents + 1) - 2 + 1) : r[i] = t[2 + i - 1]
      <4>1. 2 \in Int /\ MaxEvents + 1 \in Int
        BY <1>1
      <4> HIDE DEF r
      <4> QED
        BY <2>2, <3>1, <4>1, SubSeqProperties
    <3>3. (MaxEvents + 1) - 2 + 1 = MaxEvents /\ 2 <= MaxEvents + 1
      BY <1>1
    <3>4. \A i \in 1..MaxEvents : 2 + i - 1 = i + 1
      OBVIOUS
    <3> HIDE DEF r
    <3> QED
      BY <3>2, <3>3, <3>4
  <2> HIDE DEF r
  <2>4. \A k \in 1..MaxEvents : r[k] = (n + 1) - MaxEvents + k
    BY <1>1, <1>4, <2>1, <2>3
  <2>5. Len(r) = IF n + 1 < MaxEvents THEN n + 1 ELSE MaxEvents
    BY <1>1, <1>6, <2>3
  <2>6. IsWindow(r, n + 1)
    <3>1. \A k \in 1..Len(r) : r[k] = (n + 1) - Len(r) + k
      BY <2>3, <2>4
    <3> QED
      BY <2>3, <2>5, <3>1 DEF IsWindow
  <2> QED
    BY <2>1, <2>6 DEF t
<1> QED
  BY <1>5, <1>6

-----------------------------------------------------------------------------
(* Every operation keeps the dictionaries in step.                           *)

Entries == {i \in Ids : Known(i)}

\* The invariant by entries and by keys.
EntryOK(i) ==
  Known(i) => statuses[i] # Absent /\ sequences[i] \in Nat /\ IsWindow(events[i], sequences[i])

LEMMA ByEntries ==
  ASSUME ActivityTypeOK
  PROVE  WindowIsSuffix <=> KeysAre(order, Entries) /\ \A i \in Ids : EntryOK(i)
<1>1. order \in Seq(Ids) /\ \A i \in Ids : Known(i) => events[i] \in Seq(Nat)
  BY DEF ActivityTypeOK, Known
<1>2. \A i \in Ids : sequences[i] \in Nat <=> sequences[i] # Absent
  BY AbsenceAssumption DEF ActivityTypeOK
<1>3. KeysAre(order, Entries) <=> ToSet(order) = {i \in Ids : Known(i)} /\ IsInjective(order)
  BY <1>1 DEF KeysAre, Entries
<1> QED
  BY <1>1, <1>2, <1>3 DEF WindowIsSuffix, EntryOK, IsWindow

LEMMA ByEntriesLater ==
  (ActivityTypeOK => (WindowIsSuffix <=> KeysAre(order, Entries) /\ \A i \in Ids : EntryOK(i)))'
<1>1. ActivityTypeOK => (WindowIsSuffix <=> KeysAre(order, Entries) /\ \A i \in Ids : EntryOK(i))
  BY ByEntries
<1> QED
  BY <1>1, PTL

LEMMA TypeInitial == ActivityInit => ActivityTypeOK
BY BoundAssumption DEF ActivityInit, ActivityTypeOK, Known

LEMMA OwnerTypes ==
  ASSUME ActivityTypeOK, NEW h \in Handlers, StartEntry(h) \/ ReportProgress(h)
  PROVE  /\ applications' \in [Ids -> Applications \cup {Absent}] /\ strayed' \subseteq Ids
<1>1. /\ applications \in [Ids -> Applications \cup {Absent}] /\ strayed \subseteq Ids
      /\ IdOf[h] \in Ids /\ AppOf[h] \in Applications \cup {Absent}
  BY IdAssumption, OwnerAssumption DEF ActivityTypeOK
<1>2. CASE StartEntry(h)
  <2>1. applications' = Owners(h, Evicted(IdOf[h])) /\ strayed' \subseteq strayed
    BY <1>2 DEF StartEntry
  <2> QED
    BY <1>1, <2>1 DEF Owners, Kept
<1>3. CASE ReportProgress(h)
  BY <1>1, <1>3 DEF ReportProgress
<1> QED
  BY <1>2, <1>3

\* What a step leaves of the handlers.
LEMMA HandlerMoves ==
  ASSUME ActivityTypeOK, NEW h \in Handlers, NEW to \in Pcs, Goto(h, to)
  PROVE  /\ handler' \in [Handlers -> HandlerRecord] /\ handler'[h].pc = to
         /\ handler'[h].reports = handler[h].reports
         /\ \A g \in Handlers \ {h} : handler'[g] = handler[g]
BY DEF ActivityTypeOK, Goto, Pcs, HandlerRecord

\* StartEntry: what it evicts is the oldest entry of a full registry.
LEMMA Started ==
  ASSUME ActivityTypeOK, WindowIsSuffix, NEW h \in Handlers, StartEntry(h)
  PROVE  LET i == IdOf[h]
             gone == Evicted(i)
         IN /\ i \in Ids /\ i \notin gone /\ gone \subseteq Entries
            /\ events'[i] = <<>> /\ statuses'[i] = "running" /\ sequences'[i] = 0
            /\ \A k \in Ids \ {i} :
                 /\ events'[k] = IF k \in gone THEN Absent ELSE events[k]
                 /\ statuses'[k] = IF k \in gone THEN Absent ELSE statuses[k]
                 /\ sequences'[k] = IF k \in gone THEN Absent ELSE sequences[k]
            /\ DOMAIN events' = Ids /\ DOMAIN statuses' = Ids /\ DOMAIN sequences' = Ids
            /\ events' = [k \in Ids |-> events'[k]] /\ statuses' = [k \in Ids |-> statuses'[k]]
            /\ sequences' = [k \in Ids |-> sequences'[k]]
            /\ KeysAre(order', (Entries \ gone) \cup {i})
            /\ Len(order') <= Len(order) \/ Len(order') <= MaxBatches
<1> DEFINE i == IdOf[h]
           gone == Evicted(i)
           rest == IF gone = {} THEN order ELSE Tail(order)
<1>1. i \in Ids
  BY IdAssumption
<1>2. KeysAre(order, Entries) /\ Len(order) \in Nat /\ MaxBatches \in Nat \ {0}
  BY ByEntries, BoundAssumption DEF KeysAre
<1>5. /\ order' = Inserted(rest, i)
      /\ i \notin gone =>
           /\ events'[i] = <<>> /\ statuses'[i] = "running" /\ sequences'[i] = 0
      /\ \A k \in Ids \ {i} :
           /\ events'[k] = IF k \in gone THEN Absent ELSE events[k]
           /\ statuses'[k] = IF k \in gone THEN Absent ELSE statuses[k]
           /\ sequences'[k] = IF k \in gone THEN Absent ELSE sequences[k]
      /\ DOMAIN events' = Ids /\ DOMAIN statuses' = Ids /\ DOMAIN sequences' = Ids
      /\ events' = [k \in Ids |-> events'[k]] /\ statuses' = [k \in Ids |-> statuses'[k]]
      /\ sequences' = [k \in Ids |-> sequences'[k]]
  <2> HIDE DEF gone, rest
  <2>1. /\ order' = Inserted(rest, i)
        /\ events' = [Kept(events, gone) EXCEPT ![i] = <<>>]
        /\ statuses' = [Kept(statuses, gone) EXCEPT ![i] = "running"]
        /\ sequences' = [Kept(sequences, gone) EXCEPT ![i] = 0]
    BY DEF StartEntry, FirstSequence, gone, rest
  <2> QED
    BY <1>1, <2>1 DEF Kept
<1>3. CASE gone = {}
  <2>1. rest = order /\ Entries \ gone = Entries
    BY <1>3
  <2>2. Known(i) \/ Len(order) < MaxBatches
    BY <1>2, <1>3 DEF Evicted
  <2>3. /\ KeysAre(Inserted(rest, i), (Entries \ gone) \cup {i})
        /\ Len(Inserted(rest, i)) = IF i \in Entries THEN Len(order) ELSE Len(order) + 1
    BY <1>1, <1>2, <2>1, KeyAdded
  <2>4. Len(Inserted(rest, i)) <= Len(order) \/ Len(Inserted(rest, i)) <= MaxBatches
    BY <1>1, <1>2, <2>2, <2>3 DEF Entries
  <2>5. i \notin gone /\ gone \subseteq Entries
    BY <1>3
  <2> QED
    BY <1>1, <1>5, <2>3, <2>4, <2>5
<1>4. CASE gone # {}
  <2>1. gone = {Head(order)} /\ ~Known(i) /\ Len(order) >= MaxBatches
    BY <1>4 DEF Evicted
  <2>2. Len(order) > 0
    BY <1>2, <2>1
  <2>3. /\ Head(order) \in Entries /\ KeysAre(Tail(order), Entries \ gone)
        /\ Len(Tail(order)) = Len(order) - 1
    BY <1>2, <2>1, <2>2, OldestDropped
  <2>4. i \notin Entries /\ i \notin gone
    BY <2>1, <2>3 DEF Entries
  <2>5. rest = Tail(order)
    BY <1>4
  <2>6. /\ KeysAre(Inserted(rest, i), (Entries \ gone) \cup {i})
        /\ Len(Inserted(rest, i)) = Len(Tail(order)) + 1
    <3>1. i \notin Entries \ gone /\ KeysAre(rest, Entries \ gone) /\ rest = Tail(order)
      BY <2>3, <2>4, <2>5
    <3> HIDE DEF i, gone, rest
    <3> QED
      BY <1>1, <3>1, KeyAdded
  <2>7. Len(Inserted(rest, i)) <= Len(order)
    BY <1>2, <2>3, <2>6
  <2>8. gone \subseteq Entries
    BY <2>1, <2>3
  <2> QED
    BY <1>1, <1>5, <2>4, <2>6, <2>7, <2>8
<1> QED
  BY <1>3, <1>4

LEMMA StartPreserves ==
  ASSUME ActivityInv, NEW h \in Handlers, StartEntry(h)
  PROVE  ActivityInv'
<1> DEFINE i == IdOf[h]
           gone == Evicted(i)
<1>i. ActivityTypeOK /\ WindowIsSuffix /\ CountsInv /\ BoundedButStrays /\ OutcomeInv
  BY DEF ActivityInv
<1>1. /\ i \in Ids /\ i \notin gone /\ gone \subseteq Entries
      /\ events'[i] = <<>> /\ statuses'[i] = "running" /\ sequences'[i] = 0
      /\ \A k \in Ids \ {i} :
           /\ events'[k] = IF k \in gone THEN Absent ELSE events[k]
           /\ statuses'[k] = IF k \in gone THEN Absent ELSE statuses[k]
           /\ sequences'[k] = IF k \in gone THEN Absent ELSE sequences[k]
      /\ events' = [k \in Ids |-> events'[k]] /\ statuses' = [k \in Ids |-> statuses'[k]]
      /\ sequences' = [k \in Ids |-> sequences'[k]]
      /\ KeysAre(order', (Entries \ gone) \cup {i})
      /\ Len(order') <= Len(order) \/ Len(order') <= MaxBatches
  BY <1>i, Started
<1> HIDE DEF i, gone
<1>2. Goto(h, "running") /\ strays' = strays /\ handler[h].pc = "idle"
  BY DEF StartEntry
<1>3. /\ handler' \in [Handlers -> HandlerRecord] /\ handler'[h].pc = "running"
      /\ \A g \in Handlers \ {h} : handler'[g] = handler[g]
  BY <1>i, <1>2, HandlerMoves DEF Pcs
<1>4. \A k \in Ids : Known(k)' <=> k = i \/ (Known(k) /\ k \notin gone)
  <2>1. <<>> # Absent
    <3>1. <<>> \in Seq(Nat)
      OBVIOUS
    <3> QED
      BY <3>1, AbsenceAssumption
  <2> QED
    BY <1>1, <2>1 DEF Known
<1>5. ActivityTypeOK'
  <2>1. order' \in Seq(Ids)
    BY <1>1 DEF KeysAre
  <2>2. \A k \in Ids : /\ events'[k] \in Seq(Nat) \cup {Absent}
                       /\ statuses'[k] \in Statuses /\ sequences'[k] \in Nat \cup {Absent}
    <3> SUFFICES ASSUME NEW k \in Ids
                 PROVE  /\ events'[k] \in Seq(Nat) \cup {Absent}
                        /\ statuses'[k] \in Statuses /\ sequences'[k] \in Nat \cup {Absent}
      OBVIOUS
    <3>1. <<>> \in Seq(Nat) /\ "running" \in Statuses /\ Absent \in Statuses /\ 0 \in Nat
      BY DEF Statuses
    <3>2. /\ events[k] \in Seq(Nat) \cup {Absent}
          /\ statuses[k] \in Statuses /\ sequences[k] \in Nat \cup {Absent}
      BY <1>i DEF ActivityTypeOK, Statuses
    <3>3. CASE k = i
      BY <1>1, <3>1, <3>3
    <3>4. CASE k # i
      BY <1>1, <3>1, <3>2, <3>4
    <3> QED
      BY <3>3, <3>4
  <2>3. /\ events' \in [Ids -> Seq(Nat) \cup {Absent}] /\ statuses' \in [Ids -> Statuses]
        /\ sequences' \in [Ids -> Nat \cup {Absent}]
    BY <1>1, <2>2
  <2>4. \A k \in Ids : Known(k)' => Len(events'[k]) <= MaxEvents
    BY <1>i, <1>1, <1>4, BoundAssumption DEF ActivityTypeOK
  <2> QED
    BY <1>i, <1>2, <1>3, <2>1, <2>3, <2>4, OwnerTypes
       DEF ActivityTypeOK, Statuses, HandlerRecord, Pcs
<1>6. WindowIsSuffix'
  <2>1. Entries' = (Entries \ gone) \cup {i}
    BY <1>1, <1>4 DEF Entries
  <2>2. KeysAre(order', Entries')
    BY <1>1, <2>1
  <2>3. IsWindow(<<>>, 0)
    BY BoundAssumption DEF IsWindow
  <2>4. ASSUME NEW k \in Ids PROVE EntryOK(k)'
    <3>1. CASE k = i
      BY <1>1, <2>3, <3>1, AbsenceAssumption DEF EntryOK
    <3>2. CASE k # i
      <4>1. EntryOK(k)
        BY <1>i, ByEntries
      <4> QED
        BY <1>1, <1>4, <3>2, <4>1 DEF EntryOK
    <3> QED
      BY <3>1, <3>2
  <2>5. (WindowIsSuffix <=> KeysAre(order, Entries) /\ \A k \in Ids : EntryOK(k))'
    BY <1>5, ByEntriesLater
  <2> QED
    BY <2>2, <2>4, <2>5
<1>7. BoundedButStrays'
  BY <1>i, <1>1, <1>2, BoundAssumption DEF BoundedButStrays, ActivityTypeOK, KeysAre
<1>8. OutcomeInv'
  <2> SUFFICES ASSUME NEW g \in Handlers, Sole(g), Known(IdOf[g])', g # h
               PROVE  /\ handler'[g].pc \in {"freezing", "succeeded"} => statuses'[IdOf[g]] = "completed"
                      /\ handler'[g].pc = "failed" => statuses'[IdOf[g]] = "failed"
    BY <1>3 DEF OutcomeInv, Sole
  <2>1. IdOf[g] \in Ids /\ IdOf[g] # i
    BY IdAssumption DEF Sole, i
  <2>2. Known(IdOf[g]) /\ statuses'[IdOf[g]] = statuses[IdOf[g]]
    BY <1>1, <1>4, <2>1
  <2> QED
    BY <1>i, <1>3, <2>2 DEF OutcomeInv
<1>9. CountsInv'
  BY <1>i, <1>1, <1>4 DEF CountsInv
<1> QED
  BY <1>5, <1>6, <1>7, <1>8, <1>9 DEF ActivityInv

LEMMA ReportPreserves ==
  ASSUME ActivityInv, NEW h \in Handlers, ReportProgress(h)
  PROVE  ActivityInv'
<1> DEFINE i == IdOf[h]
           n == IF Known(i) THEN sequences[i] ELSE 0
           before == IF Known(i) THEN events[i] ELSE <<>>
           later == IF sequences[i] = Absent THEN 1 ELSE sequences[i] + 1
           window == Trimmed(Append(before, later))
<1>i. ActivityTypeOK /\ WindowIsSuffix /\ CountsInv /\ BoundedButStrays /\ OutcomeInv
  BY DEF ActivityInv
<1>1. i \in Ids /\ handler[h].pc = "running" /\ handler[h].reports < MaxReports
  BY IdAssumption DEF ReportProgress
<1>2. /\ order' = Inserted(order, i)
      /\ strays' = IF Known(i) THEN strays ELSE strays + 1
      /\ events' = [events EXCEPT ![i] = window]
      /\ statuses' = [statuses EXCEPT ![i] = IF statuses[i] = Absent THEN "running" ELSE statuses[i]]
      /\ sequences' = [sequences EXCEPT ![i] = later]
      /\ handler' = [handler EXCEPT ![h] = [handler[h] EXCEPT !.reports = handler[h].reports + 1]]
  BY DEF ReportProgress
<1>3. KeysAre(order, Entries) /\ (\A k \in Ids : EntryOK(k)) /\ Len(order) \in Nat /\ strays \in Nat
  BY <1>i, ByEntries DEF KeysAre, ActivityTypeOK
<1>4. /\ KeysAre(order', Entries \cup {i})
      /\ Len(order') = IF i \in Entries THEN Len(order) ELSE Len(order) + 1
  BY <1>1, <1>2, <1>3, KeyAdded
<1>5. later = n + 1 /\ n \in Nat /\ IsWindow(before, n)
  <2>1. CASE Known(i)
    <3>1. sequences[i] \in Nat /\ IsWindow(events[i], sequences[i])
      BY <1>1, <1>3, <2>1 DEF EntryOK
    <3>2. sequences[i] # Absent
      BY <3>1, AbsenceAssumption
    <3> QED
      BY <2>1, <3>1, <3>2
  <2>2. CASE ~Known(i)
    <3>1. sequences[i] = Absent
      BY <1>i, <1>1, <2>2 DEF CountsInv
    <3>2. IsWindow(<<>>, 0)
      BY BoundAssumption DEF IsWindow
    <3> QED
      BY <2>2, <3>1, <3>2
  <2> QED
    BY <2>1, <2>2
<1>6. IsWindow(window, later) /\ later \in Nat
  BY <1>5, WindowMoves
<1>7. window \in Seq(Nat) /\ window # Absent /\ Len(window) <= MaxEvents
  BY <1>5, <1>6, AbsenceAssumption, BoundAssumption DEF IsWindow
<1> HIDE DEF i, n, before, later, window
<1>8. /\ events'[i] = window /\ sequences'[i] = later /\ statuses'[i] \in Statuses \ {Absent}
      /\ \A k \in Ids \ {i} : /\ events'[k] = events[k] /\ sequences'[k] = sequences[k]
                             /\ statuses'[k] = statuses[k]
      /\ Known(i) => statuses'[i] = statuses[i]
  <2>1. DOMAIN events = Ids /\ DOMAIN statuses = Ids /\ DOMAIN sequences = Ids /\ statuses[i] \in Statuses
    BY <1>i, <1>1 DEF ActivityTypeOK, Statuses
  <2>2. "running" \in Statuses \ {Absent}
    BY AbsenceAssumption DEF Statuses
  <2>3. Known(i) => statuses[i] # Absent
    BY <1>1, <1>3 DEF EntryOK
  <2> QED
    BY <1>1, <1>2, <2>1, <2>2, <2>3
<1>9. \A k \in Ids : Known(k)' <=> k = i \/ Known(k)
  BY <1>7, <1>8 DEF Known
<1>10. /\ handler' \in [Handlers -> HandlerRecord]
       /\ \A g \in Handlers : handler'[g].pc = handler[g].pc
  BY <1>i, <1>1, <1>2, BoundAssumption DEF ActivityTypeOK, HandlerRecord, Pcs
<1>11. ActivityTypeOK'
  <2>1. order' \in Seq(Ids)
    BY <1>4 DEF KeysAre
  <2>2. /\ events' \in [Ids -> Seq(Nat) \cup {Absent}] /\ sequences' \in [Ids -> Nat \cup {Absent}]
    BY <1>i, <1>1, <1>2, <1>6, <1>7 DEF ActivityTypeOK
  <2>3. statuses' \in [Ids -> Statuses]
    BY <1>i, <1>2 DEF ActivityTypeOK, Statuses
  <2>4. \A k \in Ids : Known(k)' => Len(events'[k]) <= MaxEvents
    BY <1>i, <1>7, <1>8, <1>9 DEF ActivityTypeOK
  <2>5. strays' \in Nat
    BY <1>2, <1>3
  <2> QED
    BY <1>i, <1>10, <2>1, <2>2, <2>3, <2>4, <2>5, OwnerTypes
       DEF ActivityTypeOK, Statuses, HandlerRecord, Pcs
<1>12. WindowIsSuffix'
  <2>1. KeysAre(order', Entries')
    <3>1. Entries' = Entries \cup {i}
      BY <1>1, <1>9 DEF Entries
    <3> QED
      BY <1>4, <3>1
  <2>2. ASSUME NEW k \in Ids PROVE EntryOK(k)'
    <3>1. CASE k = i
      BY <1>6, <1>8, <3>1 DEF EntryOK
    <3>2. CASE k # i
      BY <1>3, <1>8, <1>9, <3>2 DEF EntryOK
    <3> QED
      BY <3>1, <3>2
  <2> QED
    BY <1>11, <2>1, <2>2, ByEntriesLater
<1>13. CountsInv'
  BY <1>i, <1>8, <1>9 DEF CountsInv
<1>14. BoundedButStrays'
  <2>1. i \in Entries <=> Known(i)
    BY <1>1 DEF Entries
  <2> QED
    BY <1>i, <1>2, <1>3, <1>4, <2>1, BoundAssumption DEF BoundedButStrays
<1>15. OutcomeInv'
  <2> SUFFICES ASSUME NEW g \in Handlers, Sole(g), Known(IdOf[g])'
               PROVE  /\ handler'[g].pc \in {"freezing", "succeeded"} => statuses'[IdOf[g]] = "completed"
                      /\ handler'[g].pc = "failed" => statuses'[IdOf[g]] = "failed"
    BY DEF OutcomeInv, Sole
  <2>1. CASE g = h
    BY <1>1, <1>10, <2>1
  <2>2. CASE g # h
    <3>1. IdOf[g] \in Ids /\ IdOf[g] # i
      BY <2>2, IdAssumption DEF Sole, i
    <3>2. Known(IdOf[g]) /\ statuses'[IdOf[g]] = statuses[IdOf[g]]
      BY <1>8, <1>9, <3>1
    <3> QED
      BY <1>i, <1>10, <3>2 DEF OutcomeInv
  <2> QED
    BY <2>1, <2>2
<1> QED
  BY <1>11, <1>12, <1>13, <1>14, <1>15 DEF ActivityInv

LEMMA FinishPreserves ==
  ASSUME ActivityInv, NEW h \in Handlers,
         NEW status \in {"completed", "failed"},
         NEW to \in Pcs, to = (IF status = "completed" THEN "freezing" ELSE "failed"),
         Finish(h, status, to)
  PROVE  ActivityInv'
<1>i. ActivityTypeOK /\ WindowIsSuffix /\ CountsInv /\ BoundedButStrays /\ OutcomeInv
  BY DEF ActivityInv
<1>1. /\ statuses' = [statuses EXCEPT ![IdOf[h]] = status] /\ IdOf[h] \in Ids
      /\ UNCHANGED <<order, events, sequences, applications, strays, strayed>>
  BY IdAssumption DEF Finish, strayVars
<1>2. /\ handler' \in [Handlers -> HandlerRecord] /\ handler'[h].pc = to
      /\ \A g \in Handlers \ {h} : handler'[g] = handler[g]
  BY <1>i, HandlerMoves DEF Finish
<1>3. statuses' \in [Ids -> Statuses]
  BY <1>i, <1>1 DEF ActivityTypeOK, Statuses
<1>4. ActivityTypeOK'
  BY <1>i, <1>1, <1>2, <1>3 DEF ActivityTypeOK, Statuses, HandlerRecord, Pcs, Known
<1>5. WindowIsSuffix'
  <2>1. status # Absent
    BY AbsenceAssumption
  <2>2. \A k \in Ids : statuses[k] # Absent => statuses'[k] # Absent
    BY <1>i, <1>1, <2>1 DEF ActivityTypeOK
  <2> QED
    BY <1>i, <1>1, <2>2 DEF WindowIsSuffix, Known
<1>6. CountsInv' /\ BoundedButStrays'
  BY <1>i, <1>1 DEF CountsInv, BoundedButStrays, Known
<1>7. OutcomeInv'
  <2> SUFFICES ASSUME NEW g \in Handlers, Sole(g), Known(IdOf[g])
               PROVE  /\ handler'[g].pc \in {"freezing", "succeeded"} => statuses'[IdOf[g]] = "completed"
                      /\ handler'[g].pc = "failed" => statuses'[IdOf[g]] = "failed"
    BY <1>1 DEF OutcomeInv, Sole, Known
  <2>1. CASE g = h
    <3>1. statuses'[IdOf[g]] = status
      BY <1>i, <1>1, <2>1 DEF ActivityTypeOK
    <3> QED
      BY <1>2, <2>1, <3>1
  <2>2. CASE g # h
    <3>1. IdOf[g] # IdOf[h]
      BY <2>2 DEF Sole
    <3>2. statuses'[IdOf[g]] = statuses[IdOf[g]]
      BY <1>1, <3>1
    <3> QED
      BY <1>i, <1>2, <2>2, <3>2 DEF OutcomeInv
  <2> QED
    BY <2>1, <2>2
<1> QED
  BY <1>4, <1>5, <1>6, <1>7 DEF ActivityInv

LEMMA SucceedPreserves ==
  ASSUME ActivityInv, NEW h \in Handlers, Succeed(h)
  PROVE  ActivityInv'
<1>i. ActivityTypeOK /\ WindowIsSuffix /\ CountsInv /\ BoundedButStrays /\ OutcomeInv
  BY DEF ActivityInv
<1>1. /\ UNCHANGED <<order, events, statuses, sequences, applications, strays, strayed>>
      /\ handler[h].pc = "freezing"
  BY DEF Succeed, strayVars
<1>2. /\ handler' \in [Handlers -> HandlerRecord] /\ handler'[h].pc = "succeeded"
      /\ \A g \in Handlers \ {h} : handler'[g] = handler[g]
  BY <1>i, HandlerMoves DEF Succeed, Pcs
<1>3. ActivityTypeOK'
  BY <1>i, <1>1, <1>2 DEF ActivityTypeOK, HandlerRecord, Pcs, Known
<1>4. WindowIsSuffix' /\ CountsInv' /\ BoundedButStrays'
  BY <1>i, <1>1 DEF WindowIsSuffix, CountsInv, BoundedButStrays, Known
<1>5. OutcomeInv'
  BY <1>i, <1>1, <1>2 DEF OutcomeInv, Known, Sole
<1> QED
  BY <1>3, <1>4, <1>5 DEF ActivityInv

-----------------------------------------------------------------------------
LEMMA ActivityInitial == ActivityInit => ActivityInv
<1> SUFFICES ASSUME ActivityInit PROVE ActivityInv
  OBVIOUS
<1>1. /\ order = <<>> /\ strays = 0 /\ \A i \in Ids : ~Known(i) /\ sequences[i] = Absent
      /\ \A h \in Handlers : handler[h].pc = "idle"
  BY DEF ActivityInit, Known
<1>2. WindowIsSuffix
  BY <1>1 DEF WindowIsSuffix, ToSet, IsInjective
<1>3. BoundedButStrays
  BY <1>1, BoundAssumption DEF BoundedButStrays
<1>4. OutcomeInv /\ CountsInv
  BY <1>1 DEF OutcomeInv, CountsInv
<1> QED
  BY <1>2, <1>3, <1>4, TypeInitial DEF ActivityInv

THEOREM ActivityInvariant == ActivitySpec => []ActivityInv
<1>1. ActivityInv /\ [ActivityNext]_activityVars => ActivityInv'
  <2> SUFFICES ASSUME ActivityInv, [ActivityNext]_activityVars PROVE ActivityInv'
    OBVIOUS
  <2>1. ASSUME NEW h \in Handlers, StartEntry(h) PROVE ActivityInv'
    BY <2>1, StartPreserves
  <2>2. ASSUME NEW h \in Handlers, ReportProgress(h) PROVE ActivityInv'
    BY <2>2, ReportPreserves
  <2>3. ASSUME NEW h \in Handlers, Complete(h) PROVE ActivityInv'
    BY <2>3, FinishPreserves DEF Complete, Pcs
  <2>4. ASSUME NEW h \in Handlers, Succeed(h) PROVE ActivityInv'
    BY <2>4, SucceedPreserves
  <2>5. ASSUME NEW h \in Handlers, Fail(h) PROVE ActivityInv'
    BY <2>5, FinishPreserves DEF Fail, FailureStatus, Pcs
  <2>6. CASE UNCHANGED activityVars
    BY <2>6 DEF activityVars, strayVars, ActivityInv, ActivityTypeOK, WindowIsSuffix, CountsInv, BoundedButStrays,
                OutcomeInv, Known, Sole
  <2> QED
    BY <2>1, <2>2, <2>3, <2>4, <2>5, <2>6 DEF ActivityNext
<1> QED
  BY ActivityInitial, <1>1, PTL DEF ActivitySpec

-----------------------------------------------------------------------------
(* The application kept with an entry.                                        *)

\* A start gives its entry an application that a started request names and takes
\* the evicted entry's away.
LEMMA StartKeepsOwners ==
  ASSUME ActivityInv, OwnersInv, NEW h \in Handlers, StartEntry(h)
  PROVE  OwnersInv'
<1> DEFINE i == IdOf[h]
           gone == Evicted(i)
<1>1. ActivityTypeOK /\ WindowIsSuffix /\ i \in Ids
  BY IdAssumption DEF ActivityInv
<1>2. i \notin gone /\ gone \subseteq Entries
  BY <1>1, Started
<1>3. /\ events' = [Kept(events, gone) EXCEPT ![i] = <<>>]
      /\ applications' = [Kept(applications, gone) EXCEPT
                            ![i] = IF AppOf[h] = Absent THEN Kept(applications, gone)[i]
                                                        ELSE AppOf[h]]
      /\ strayed' = strayed \ (gone \cup {i})
  BY DEF StartEntry, Owners
<1>4. /\ handler'[h].pc = "running" /\ \A g \in Handlers \ {h} : handler'[g] = handler[g]
      /\ handler[h].pc = "idle"
  BY <1>1, HandlerMoves DEF StartEntry, Pcs
<1>5. \A g \in Handlers : HasStarted(g) => HasStarted(g)'
  BY <1>4 DEF HasStarted
<1>6. HasStarted(h)'
  BY <1>4 DEF HasStarted
<1> HIDE DEF i, gone
<1>7. /\ events'[i] = <<>>
      /\ applications'[i] = IF AppOf[h] = Absent THEN applications[i] ELSE AppOf[h]
      /\ \A k \in Ids \ {i} :
           /\ events'[k] = IF k \in gone THEN Absent ELSE events[k]
           /\ applications'[k] = IF k \in gone THEN Absent ELSE applications[k]
  BY <1>1, <1>2, <1>3 DEF Kept
<1>8. <<>> # Absent
  <2>1. <<>> \in Seq(Nat)
    OBVIOUS
  <2> QED
    BY <2>1, AbsenceAssumption
<1>9. ASSUME NEW k \in Ids PROVE OwnerOK(k)'
  <2>1. CASE k = i
    <3>1. Known(k)' /\ k \notin strayed'
      BY <1>3, <1>7, <1>8, <2>1 DEF Known
    <3>2. \E g \in Handlers : IdOf[g] = k /\ HasStarted(g)' /\ applications'[k] = AppOf[g]
      <4>1. CASE AppOf[h] # Absent
        BY <1>6, <1>7, <2>1, <4>1 DEF i
      <4>2. CASE AppOf[h] = Absent /\ applications[i] = Absent
        BY <1>6, <1>7, <2>1, <4>2 DEF i
      <4>3. CASE AppOf[h] = Absent /\ applications[i] # Absent
        <5>1. OwnerOK(i)
          BY <1>1 DEF OwnersInv
        <5>2. PICK g \in Handlers : IdOf[g] = i /\ HasStarted(g) /\ applications[i] = AppOf[g]
          BY <4>3, <5>1 DEF OwnerOK
        <5> QED
          BY <1>5, <1>7, <2>1, <4>3, <5>2
      <4> QED
        BY <4>1, <4>2, <4>3
    <3> QED
      BY <3>1, <3>2 DEF OwnerOK
  <2>2. CASE k # i /\ k \in gone
    <3>1. ~Known(k)' /\ applications'[k] = Absent
      BY <1>7, <2>2 DEF Known
    <3> QED
      BY <3>1 DEF OwnerOK
  <2>3. CASE k # i /\ k \notin gone
    <3>1. /\ Known(k)' <=> Known(k)
          /\ k \in strayed' <=> k \in strayed
          /\ applications'[k] = applications[k]
      BY <1>3, <1>7, <2>3 DEF Known
    <3>2. OwnerOK(k)
      BY DEF OwnersInv
    <3> QED
      BY <1>5, <3>1, <3>2 DEF OwnerOK
  <2> QED
    BY <2>1, <2>2, <2>3
<1>10. \A k \in strayed' : Known(k)'
  <2> SUFFICES ASSUME NEW k \in strayed' PROVE Known(k)'
    OBVIOUS
  <2>1. k \in strayed /\ k # i /\ k \notin gone /\ k \in Ids
    BY <1>1, <1>3 DEF ActivityTypeOK
  <2> QED
    BY <1>7, <2>1 DEF OwnersInv, Known
<1> QED
  BY <1>9, <1>10 DEF OwnersInv

\* A report changes no application, and the entry it re-creates has none.
LEMMA ReportKeepsOwners ==
  ASSUME ActivityInv, OwnersInv, NEW h \in Handlers, ReportProgress(h)
  PROVE  OwnersInv'
<1> DEFINE i == IdOf[h]
<1>1. /\ ActivityTypeOK /\ i \in Ids /\ \A k \in Ids : Known(k)' <=> k = i \/ Known(k)
  <2>1. ActivityTypeOK' /\ ActivityTypeOK /\ i \in Ids
    BY ReportPreserves, IdAssumption DEF ActivityInv
  <2>2. events' = [events EXCEPT ![i] = events'[i]]
    BY <2>1 DEF ReportProgress, ActivityTypeOK
  <2>3. Known(i)'
    <3>1. ActivityInv'
      BY ReportPreserves
    <3>2. sequences'[i] # Absent
      <4>1. sequences[i] \in Nat \cup {Absent}
        BY <2>1 DEF ActivityTypeOK
      <4>2. sequences'[i] = IF sequences[i] = Absent THEN 1 ELSE sequences[i] + 1
        BY <2>1 DEF ReportProgress, ActivityTypeOK
      <4>3. sequences'[i] \in Nat
        BY <4>1, <4>2
      <4> QED
        BY <4>3, AbsenceAssumption
    <3> QED
      BY <2>1, <3>1, <3>2 DEF ActivityInv, CountsInv
  <2>4. \A k \in Ids \ {i} : events'[k] = events[k]
    BY <2>1, <2>2 DEF ActivityTypeOK
  <2> QED
    BY <2>1, <2>3, <2>4 DEF Known
<1>2. /\ applications' = applications
      /\ strayed' = IF Known(i) THEN strayed ELSE strayed \cup {i}
  BY DEF ReportProgress
<1>3. \A g \in Handlers : HasStarted(g)' <=> HasStarted(g)
  BY <1>1 DEF ReportProgress, HasStarted, ActivityTypeOK
<1> HIDE DEF i
<1>4. ASSUME NEW k \in Ids PROVE OwnerOK(k)'
  <2>1. OwnerOK(k)
    BY DEF OwnersInv
  <2>2. CASE Known(k)
    <3>1. Known(k)' /\ (k \in strayed' <=> k \in strayed)
      BY <1>1, <1>2, <2>2
    <3> QED
      BY <1>2, <1>3, <2>1, <3>1, <2>2 DEF OwnerOK
  <2>3. CASE ~Known(k)
    <3>1. applications'[k] = Absent
      BY <1>2, <2>1, <2>3 DEF OwnerOK
    <3>2. Known(k)' => k \in strayed'
      BY <1>1, <1>2, <2>3
    <3> QED
      BY <3>1, <3>2 DEF OwnerOK
  <2> QED
    BY <2>2, <2>3
<1>5. \A k \in strayed' : Known(k)'
  BY <1>1, <1>2 DEF OwnersInv, ActivityTypeOK
<1> QED
  BY <1>4, <1>5 DEF OwnersInv

\* The other steps leave the entries and their applications alone.
LEMMA OwnersUntouched ==
  ASSUME ActivityInv, OwnersInv, UNCHANGED <<events, applications, strayed>>,
         \A g \in Handlers : HasStarted(g) => HasStarted(g)'
  PROVE  OwnersInv'
BY DEF OwnersInv, OwnerOK, Known

\* The four dictionaries agree, for any evictions, stray reports and retries
\* (IngestionActivityRegistry.start, report and application_id).
THEOREM DictionariesStayInStep == ActivitySpec => []DictionariesAgree
<1>1. ActivityInit => OwnersInv
  BY DEF ActivityInit, OwnersInv, OwnerOK, Known
<1>2. ActivityInv /\ OwnersInv /\ [ActivityNext]_activityVars => OwnersInv'
  <2> SUFFICES ASSUME ActivityInv, OwnersInv, [ActivityNext]_activityVars PROVE OwnersInv'
    OBVIOUS
  <2>1. ASSUME NEW h \in Handlers, Complete(h) \/ Succeed(h) \/ Fail(h) PROVE OwnersInv'
    <3>1. UNCHANGED <<events, applications, strayed>>
      BY <2>1 DEF Complete, Succeed, Fail, Finish, strayVars
    <3>2. PICK to \in Pcs \ {"idle"} : Goto(h, to)
      BY <2>1 DEF Complete, Succeed, Fail, Finish, Pcs
    <3>3. \A g \in Handlers : HasStarted(g) => HasStarted(g)'
      BY <3>2, HandlerMoves DEF HasStarted, ActivityInv
    <3> QED
      BY <3>1, <3>3, OwnersUntouched
  <2>2. CASE UNCHANGED activityVars
    BY <2>2, OwnersUntouched DEF activityVars, strayVars, HasStarted
  <2> QED
    BY <2>1, <2>2, StartKeepsOwners, ReportKeepsOwners DEF ActivityNext
<1>3. ActivityInv /\ OwnersInv => DictionariesAgree
  BY DEF ActivityInv, OwnersInv, DictionariesAgree
<1> QED
  BY <1>1, <1>2, <1>3, ActivityInvariant, PTL DEF ActivitySpec

\* The dictionaries keep their types, and no list of events is ever too long
\* (IngestionActivityRegistry).
THEOREM TypeCorrect == ActivitySpec => []ActivityTypeOK
<1>1. ActivityInv => ActivityTypeOK
  BY DEF ActivityInv
<1> QED
  BY <1>1, ActivityInvariant, PTL

\* Only entries that reports re-created exceed the bound (IngestionActivityRegistry.report).
THEOREM BoundIsKept == ActivitySpec => []BoundedButStrays
<1>1. ActivityInv => BoundedButStrays
  BY DEF ActivityInv
<1> QED
  BY <1>1, ActivityInvariant, PTL

\* With one request to an identifier, what is polled after the answer is what was
\* answered (ingest_document_batch).
THEOREM PolledIsAnswered == ActivitySpec => []StatusIsAnswer
<1>1. ActivityInv => StatusIsAnswer
  BY DEF ActivityInv, OutcomeInv, StatusIsAnswer
<1> QED
  BY <1>1, ActivityInvariant, PTL
=============================================================================
