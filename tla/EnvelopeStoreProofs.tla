------------------------- MODULE EnvelopeStoreProofs -------------------------
(***************************************************************************)
(* Theorems about EnvelopeStore, for any numbers of documents, threads and *)
(* keys: which objects may be torn, what an ingestion reads back, and when *)
(* a key rotation leaves every object readable.                            *)
(***************************************************************************)
EXTENDS EnvelopeStore, FiniteSetTheorems, TLAPS

Filling == {"first", "second", "written"}

\* Stores run only in the service, rotations only without it, and one thread at a
\* time holds an active object.
PhasesInv ==
  /\ ~running => \A w \in Writers : writer[w] = IdleWriter
  /\ rotation # IdleRotation => ~running
  /\ \A v, w \in Writers :
       writer[v].obj \in Objects \ Quarantined /\ writer[w].obj \in Objects \ Quarantined => v = w

\* A handle is on a file that is there; it follows a file under the object's name
\* only if another store has put it there.
HandlesInv ==
  \A w \in Writers :
    /\ writer[w].pc = "idle" => writer[w].file = "gone"
    /\ writer[w].file = "upload" => upload[writer[w].obj] # NoFile
    /\ writer[w].file = "target" =>
         /\ target[writer[w].obj] # NoFile /\ shared[writer[w].obj]
         /\ writer[w].obj \in Quarantined
    /\ writer[w].pc = "stored" => writer[w].file = "gone" /\ writer[w].obj \notin Quarantined

\* A store that does not know of another one is alone with its object.
SharingInv ==
  \A w \in Writers : writer[w].pc # "idle" =>
    /\ writer[w].sharing => writer[w].obj \in Quarantined
    /\ ~writer[w].sharing =>
         /\ \A v \in Writers : writer[v].obj = writer[w].obj => v = w
         /\ writer[w].file # "target"

\* Such a store finds in its temporary file what it has written, or no file.
ContentsInv ==
  \A w \in Writers : writer[w].pc \in Filling /\ ~writer[w].sharing =>
    LET file == upload[writer[w].obj]
    IN IF writer[w].file = "gone" THEN file = NoFile
       ELSE /\ writer[w].pc = "second" => file[1] = VersionOf(w)
            /\ writer[w].pc = "written" => file[1] = VersionOf(w) /\ file[2] = VersionOf(w)

\* No part of a file is under another key than k.
Under(file, k) == file # NoFile => \A i \in 1..2 : file[i] # NoFile => file[i].key = k

KeyInv ==
  /\ \A w \in Writers : writer[w].pc # "idle" => Under(upload[writer[w].obj], key)
  /\ ~interrupted /\ rotation.pc = "idle" => \A o \in Objects : Under(target[o], key)
  /\ rotation.pc = "rewrapping" =>
       /\ rotation.todo \subseteq StoredObjects
       /\ rotation.changed = Cardinality(StoredObjects \ rotation.todo)
       /\ \A o \in StoredObjects \ rotation.todo : Whole(target[o]) /\ target[o][1].key = rotation.new
       /\ ~interrupted => \A o \in rotation.todo : Under(target[o], key)

EnvelopeInv ==
  /\ EnvelopeTypeOK /\ PhasesInv /\ HandlesInv /\ SharingInv /\ ContentsInv
  /\ KeyInv /\ OnlySharedIsTorn /\ ReadsBackItsOwn

-----------------------------------------------------------------------------
(* Types.                                                                    *)

Steps == {"idle", "first", "second", "written", "stored"}
Handles == {"upload", "target", "gone"}
WriterRecord ==
  [pc: Steps, obj: Objects \cup {NoFile}, file: Handles, sharing: BOOLEAN]

LEMMA FilePut ==
  ASSUME NEW file \in Parts, NEW i \in 1..2, NEW value \in Part
  PROVE  /\ Put(file, i, value) \in Parts /\ Put(file, i, value) # NoFile
         /\ Put(file, i, value)[i] = value
         /\ \A j \in 1..2 : j # i => Put(file, i, value)[j] = file[j]
BY NoFileAssumption DEF Put, Parts

LEMMA Files ==
  /\ Blank \in Parts /\ Blank # NoFile /\ Blank[1] = NoFile /\ Blank[2] = NoFile
  /\ \A f \in File : f # NoFile <=> f \in Parts
<1>1. Blank \in Parts /\ Blank[1] = NoFile /\ Blank[2] = NoFile
  BY DEF Blank, Parts, Part
<1> QED
  BY <1>1, NoFileAssumption DEF File

LEMMA Versions ==
  ASSUME EnvelopeTypeOK, NEW w \in Writers
  PROVE  VersionOf(w) \in Part /\ VersionOf(w) # NoFile /\ VersionOf(w).key = key
BY NoFileAssumption DEF EnvelopeTypeOK, VersionOf, Part

LEMMA TypeInitial == EnvelopeInit => EnvelopeTypeOK
<1> SUFFICES ASSUME EnvelopeInit PROVE EnvelopeTypeOK
  OBVIOUS
<1>1. IdleWriter \in WriterRecord /\ IdleWriter.pc = "idle" /\ IdleWriter.obj = NoFile
  BY DEF IdleWriter, WriterRecord, Steps, Handles
<1>2. writer \in [Writers -> WriterRecord] /\ \A w \in Writers : writer[w] = IdleWriter
  BY <1>1 DEF EnvelopeInit
<1> QED
  BY <1>1, <1>2 DEF EnvelopeInit, EnvelopeTypeOK, WriterRecord, Steps, Handles, File

LEMMA OpenTypes ==
  ASSUME EnvelopeTypeOK, NEW w \in Writers, NEW o \in Objects, Open(w, o)
  PROVE  EnvelopeTypeOK'
<1>1. Blank \in File
  BY Files DEF File
<1>2. \A v \in Writers : writer'[v] \in WriterRecord /\ (writer'[v].pc = "idle" <=> writer'[v].obj = NoFile)
  BY NoFileAssumption DEF EnvelopeTypeOK, Open, WriterRecord, Steps, Handles
<1>3. writer' \in [Writers -> WriterRecord]
  BY <1>2 DEF Open
<1> QED
  BY <1>1, <1>2, <1>3 DEF EnvelopeTypeOK, Open, WriterRecord, Steps, Handles

LEMMA WriteTypes ==
  ASSUME EnvelopeTypeOK, HandlesInv, NEW w \in Writers, NEW i \in 1..2,
         NEW next \in {"second", "written"}, writer[w].pc \in Filling, WritePart(w, i, next)
  PROVE  EnvelopeTypeOK'
<1> DEFINE o == writer[w].obj
<1>1. writer[w] \in WriterRecord /\ o \in Objects
  BY NoFileAssumption DEF EnvelopeTypeOK, WriterRecord, Steps, Handles, Filling
<1>2. writer' \in [Writers -> WriterRecord]
      /\ \A v \in Writers : writer'[v].pc = "idle" <=> writer'[v].obj = NoFile
  BY <1>1, NoFileAssumption DEF EnvelopeTypeOK, WritePart, WriterRecord, Steps, Handles, Filling
<1>3. writer[w].file = "upload" => upload[o] \in Parts
  BY <1>1, Files DEF EnvelopeTypeOK, HandlesInv
<1>4. writer[w].file = "target" => target[o] \in Parts
  BY <1>1, Files DEF EnvelopeTypeOK, HandlesInv
<1>5. upload' \in [Objects -> File] /\ target' \in [Objects -> File]
  BY <1>1, <1>3, <1>4, Versions, FilePut DEF EnvelopeTypeOK, WritePart, File
<1> QED
  BY <1>2, <1>5 DEF EnvelopeTypeOK, WritePart, WriterRecord, Steps, Handles

LEMMA ReplaceTypes ==
  ASSUME EnvelopeTypeOK, NEW w \in Writers, Replace(w)
  PROVE  EnvelopeTypeOK'
<1> DEFINE o == writer[w].obj
<1>1. o \in Objects /\ writer[w] \in WriterRecord
  BY DEF EnvelopeTypeOK, Replace, WriterRecord, Steps, Handles
<1>2. \A v \in Writers : writer'[v] \in WriterRecord /\ (writer'[v].pc = "idle" <=> writer'[v].obj = NoFile)
  BY <1>1, NoFileAssumption
     DEF EnvelopeTypeOK, Replace, Renamed, IdleWriter, WriterRecord, Steps, Handles
<1>3. writer' \in [Writers -> WriterRecord]
  BY <1>2 DEF Replace
<1> QED
  BY <1>1, <1>2, <1>3 DEF EnvelopeTypeOK, Replace, WriterRecord, Steps, Handles, File

LEMMA RemoveTypes ==
  ASSUME EnvelopeTypeOK, NEW folder, NEW uploads, NEW targets, RemoveFolder(folder, uploads, targets)
  PROVE  EnvelopeTypeOK'
<1>1. \A v \in Writers : writer'[v] \in WriterRecord /\ (writer'[v].pc = "idle" <=> writer'[v].obj = NoFile)
  BY DEF EnvelopeTypeOK, RemoveFolder, WriterRecord, Steps, Handles
<1>2. writer' \in [Writers -> WriterRecord]
  BY <1>1 DEF RemoveFolder
<1> QED
  BY <1>1, <1>2 DEF EnvelopeTypeOK, RemoveFolder, WriterRecord, Steps, Handles, File

\* A rotation under way.
LEMMA Rewrapping ==
  ASSUME EnvelopeTypeOK, rotation.pc = "rewrapping"
  PROVE  /\ rotation # IdleRotation
         /\ rotation \in [pc: {"rewrapping"}, new: Keys, todo: SUBSET Objects, changed: Nat]
<1>1. rotation # IdleRotation
  BY DEF IdleRotation
<1> QED
  BY <1>1 DEF EnvelopeTypeOK

\* What a rewrapped object is.
LEMMA Rewrapped ==
  ASSUME EnvelopeTypeOK, KeyInv, NEW o \in Objects, Rewrap(o)
  PROVE  /\ target'[o] \in Parts /\ target'[o] # NoFile /\ Whole(target'[o])
         /\ target'[o][1].key = rotation.new
         /\ \A p \in Objects : p # o => target'[p] = target[p]
         /\ target' \in [Objects -> File]
<1>1. target[o] \in Parts /\ target[o][1] = target[o][2] /\ target[o][1] # NoFile
  BY Files DEF Rewrap, MayRewrap, Readable, Whole, EnvelopeTypeOK, KeyInv, StoredObjects
<1>2. target[o][1] \in [by: Writers, key: Keys] /\ rotation.new \in Keys
  BY <1>1 DEF Rewrap, MayRewrap, EnvelopeTypeOK, IdleRotation, Parts, Part
<1> DEFINE new == [target[o][1] EXCEPT !.key = rotation.new]
<1>3. new \in [by: Writers, key: Keys] /\ new.key = rotation.new
  BY <1>2
<1>4. target' = [target EXCEPT ![o] = [i \in 1..2 |-> [target[o][i] EXCEPT !.key = rotation.new]]]
  BY DEF Rewrap
<1>5. target'[o] = [i \in 1..2 |-> [target[o][i] EXCEPT !.key = rotation.new]]
  BY <1>4 DEF EnvelopeTypeOK
<1>6. target'[o][1] = new /\ target'[o][2] = new
  BY <1>1, <1>5
<1>7. target'[o] \in Parts
  BY <1>3, <1>5, <1>6 DEF Parts, Part
<1>8. target'[o] # NoFile /\ new # NoFile
  BY <1>3, <1>7, NoFileAssumption
<1> QED
  BY <1>3, <1>4, <1>6, <1>7, <1>8 DEF EnvelopeTypeOK, Whole, File

LEMMA RotationTypes ==
  ASSUME EnvelopeTypeOK, KeyInv,
         \/ \E new \in Keys : BeginRotation(new)
         \/ \E o \in Objects : Rewrap(o) \/ AbortRotation(o)
         \/ StopRotation \/ RecordRotation
  PROVE  EnvelopeTypeOK'
<1>1. ASSUME NEW new \in Keys, BeginRotation(new) PROVE EnvelopeTypeOK'
  BY <1>1 DEF EnvelopeTypeOK, BeginRotation, StoredObjects
<1>2. ASSUME NEW o \in Objects, Rewrap(o) PROVE EnvelopeTypeOK'
  <2>1. target' \in [Objects -> File]
    BY <1>2, Rewrapped
  <2>2. rotation \in [pc: {"rewrapping"}, new: Keys, todo: SUBSET Objects, changed: Nat]
    BY <1>2, Rewrapping DEF Rewrap, MayRewrap
  <2>3. rotation' \in [pc: {"rewrapping"}, new: Keys, todo: SUBSET Objects, changed: Nat]
    <3>1. rotation' = [rotation EXCEPT !.todo = rotation.todo \ {o}, !.changed = rotation.changed + 1]
      BY <1>2 DEF Rewrap
    <3>2. rotation.changed + 1 \in Nat /\ rotation.todo \ {o} \in SUBSET Objects
      BY <2>2
    <3> QED
      BY <2>2, <3>1, <3>2
  <2> QED
    BY <1>2, <2>1, <2>3 DEF EnvelopeTypeOK, Rewrap
<1>3. ASSUME NEW o \in Objects, AbortRotation(o) PROVE EnvelopeTypeOK'
  BY <1>3 DEF EnvelopeTypeOK, AbortRotation
<1>4. CASE StopRotation
  BY <1>4 DEF EnvelopeTypeOK, StopRotation
<1>5. CASE RecordRotation
  <2>1. rotation.new \in Keys
    BY <1>5, Rewrapping DEF RecordRotation
  <2>2. key' = rotation.new /\ rotation' = IdleRotation /\ interrupted' = FALSE
        /\ UNCHANGED <<running, upload, target, writer, shared>>
    BY <1>5 DEF RecordRotation
  <2> QED
    BY <2>1, <2>2 DEF EnvelopeTypeOK
<1> QED
  BY <1>1, <1>2, <1>3, <1>4, <1>5

LEMMA TypePreserved == EnvelopeInv /\ [EnvelopeNext]_envelopeVars => EnvelopeTypeOK'
<1> SUFFICES ASSUME EnvelopeInv, [EnvelopeNext]_envelopeVars PROVE EnvelopeTypeOK'
  OBVIOUS
<1>i. EnvelopeTypeOK /\ HandlesInv /\ KeyInv
  BY DEF EnvelopeInv
<1>1. ASSUME NEW w \in Writers, NEW o \in Objects, Open(w, o) PROVE EnvelopeTypeOK'
  BY <1>i, <1>1, OpenTypes
<1>2. ASSUME NEW w \in Writers, WriteFirst(w) \/ WriteSecond(w) PROVE EnvelopeTypeOK'
  BY <1>i, <1>2, WriteTypes DEF WriteFirst, WriteSecond, Filling
<1>3. ASSUME NEW w \in Writers, Replace(w) PROVE EnvelopeTypeOK'
  BY <1>i, <1>3, ReplaceTypes
<1>4. ASSUME NEW w \in Writers, Materialize(w) \/ FailStore(w) PROVE EnvelopeTypeOK'
  <2>1. IdleWriter \in WriterRecord /\ IdleWriter.pc = "idle" /\ IdleWriter.obj = NoFile
    BY DEF IdleWriter, WriterRecord, Steps, Handles
  <2>2. writer' = [writer EXCEPT ![w] = IdleWriter]
        /\ UNCHANGED <<running, key, upload, target, rotation, interrupted, shared>>
    BY <1>4 DEF Materialize, FailStore
  <2> QED
    BY <1>i, <2>1, <2>2 DEF EnvelopeTypeOK, WriterRecord, Steps, Handles
<1>5. ASSUME NEW folder, NEW uploads, NEW targets, RemoveFolder(folder, uploads, targets)
      PROVE  EnvelopeTypeOK'
  BY <1>i, <1>5, RemoveTypes
<1>6. CASE StopService \/ StartService
  <2>1. IdleWriter \in WriterRecord /\ IdleWriter.pc = "idle" /\ IdleWriter.obj = NoFile
    BY DEF IdleWriter, WriterRecord, Steps, Handles
  <2>2. running' \in BOOLEAN /\ writer' \in {writer, [v \in Writers |-> IdleWriter]}
        /\ UNCHANGED <<key, upload, target, rotation, interrupted, shared>>
    BY <1>6 DEF StopService, StartService
  <2> QED
    BY <1>i, <2>1, <2>2 DEF EnvelopeTypeOK, WriterRecord, Steps, Handles
<1>7. CASE \/ \E new \in Keys : BeginRotation(new)
           \/ \E o \in Objects : Rewrap(o) \/ AbortRotation(o)
           \/ StopRotation \/ RecordRotation
  BY <1>i, <1>7, RotationTypes
<1>8. CASE UNCHANGED envelopeVars
  BY <1>i, <1>8 DEF EnvelopeTypeOK, envelopeVars
<1> QED
  BY <1>1, <1>2, <1>3, <1>4, <1>5, <1>6, <1>7, <1>8 DEF EnvelopeNext

-----------------------------------------------------------------------------
(* Who runs, and who holds what.                                             *)

LEMMA PhasesPreserved == EnvelopeInv /\ [EnvelopeNext]_envelopeVars => PhasesInv'
<1> SUFFICES ASSUME EnvelopeInv, [EnvelopeNext]_envelopeVars PROVE PhasesInv'
  OBVIOUS
<1>i. EnvelopeTypeOK /\ PhasesInv /\ NoFile \notin Objects
  BY NoFileAssumption DEF EnvelopeInv
<1>1. ASSUME NEW w \in Writers, NEW o \in Objects, Open(w, o) PROVE PhasesInv'
  <2>1. \A v \in Writers : v # w => writer'[v].obj = writer[v].obj
    BY <1>i, <1>1 DEF EnvelopeTypeOK, Open
  <2>2. writer'[w].obj = o
    BY <1>i, <1>1 DEF EnvelopeTypeOK, Open
  <2>3. o \notin Quarantined => \A v \in Writers : writer[v].obj \notin Objects \ Quarantined
    BY <1>i, <1>1 DEF Open, MayStore
  <2>4. running' /\ running /\ rotation' = rotation
    BY <1>1 DEF Open
  <2> QED
    BY <1>i, <2>1, <2>2, <2>3, <2>4 DEF PhasesInv
<1>2. ASSUME NEW w \in Writers,
             WriteFirst(w) \/ WriteSecond(w) \/ Replace(w) \/ Materialize(w) \/ FailStore(w)
      PROVE  PhasesInv'
  <2>1. \A v \in Writers : writer'[v].obj \in {writer[v].obj, NoFile}
    <3>1. CASE WriteFirst(w) \/ WriteSecond(w)
      BY <1>i, <3>1 DEF EnvelopeTypeOK, WriteFirst, WriteSecond, WritePart
    <3>2. CASE Replace(w)
      BY <1>i, <3>2 DEF EnvelopeTypeOK, Replace, IdleWriter
    <3>3. CASE Materialize(w) \/ FailStore(w)
      BY <1>i, <3>3 DEF EnvelopeTypeOK, Materialize, FailStore, IdleWriter
    <3> QED
      BY <1>2, <3>1, <3>2, <3>3
  <2>2. UNCHANGED <<running, rotation>> /\ writer[w] # IdleWriter
    BY <1>2 DEF WriteFirst, WriteSecond, WritePart, Replace, Materialize, FailStore, IdleWriter
  <2> QED
    BY <1>i, <2>1, <2>2 DEF PhasesInv
<1>3. ASSUME NEW folder, NEW uploads, NEW targets, RemoveFolder(folder, uploads, targets)
      PROVE  PhasesInv'
  <2>1. \A v \in Writers : writer'[v].obj = writer[v].obj
    BY <1>i, <1>3 DEF EnvelopeTypeOK, RemoveFolder
  <2>2. UNCHANGED <<running, rotation>> /\ running
    BY <1>3 DEF RemoveFolder
  <2> QED
    BY <1>i, <2>1, <2>2 DEF PhasesInv
<1>4. CASE StopService
  BY <1>i, <1>4 DEF PhasesInv, StopService, IdleWriter
<1>5. CASE StartService
  BY <1>i, <1>5 DEF PhasesInv, StartService
<1>6. CASE \/ \E new \in Keys : BeginRotation(new)
           \/ \E o \in Objects : Rewrap(o) \/ AbortRotation(o)
           \/ StopRotation \/ RecordRotation
  <2>1. ~running
    BY <1>i, <1>6, Rewrapping DEF PhasesInv, BeginRotation, Rewrap, MayRewrap, AbortRotation,
                                  StopRotation, RecordRotation
  <2>2. UNCHANGED <<running, writer>>
    BY <1>6 DEF BeginRotation, Rewrap, AbortRotation, StopRotation, RecordRotation
  <2> QED
    BY <1>i, <2>1, <2>2 DEF PhasesInv
<1>7. CASE UNCHANGED envelopeVars
  BY <1>i, <1>7 DEF PhasesInv, envelopeVars
<1> QED
  BY <1>1, <1>2, <1>3, <1>4, <1>5, <1>6, <1>7 DEF EnvelopeNext

-----------------------------------------------------------------------------
(* What each step does to the writers and to the files.                      *)

LEMMA OpenEffect ==
  ASSUME EnvelopeTypeOK, NEW w \in Writers, NEW o \in Objects, Open(w, o)
  PROVE  /\ writer[w] = IdleWriter /\ o \in Objects /\ o # NoFile
         /\ writer'[w].pc = "first" /\ writer'[w].obj = o /\ writer'[w].file = "upload"
         /\ writer'[w].sharing <=> \E v \in Writers : writer[v].obj = o
         /\ \A v \in Writers \ {w} :
              /\ writer'[v].pc = writer[v].pc /\ writer'[v].obj = writer[v].obj
              /\ writer'[v].file = writer[v].file
              /\ writer'[v].sharing <=> writer[v].sharing \/ writer[v].obj = o
         /\ o \notin Quarantined => \A v \in Writers : writer[v].obj # o
         /\ upload'[o] = Blank /\ \A p \in Objects \ {o} : upload'[p] = upload[p]
         /\ UNCHANGED <<running, key, target, rotation, interrupted, shared>>
<1>1. Storing(o) # {} <=> \E v \in Writers : writer[v].obj = o
  BY DEF Storing
<1>2. writer[w] = IdleWriter /\ o # NoFile
  BY NoFileAssumption DEF Open, MayStore
<1>3. o \notin Quarantined => \A v \in Writers : writer[v].obj # o
  BY <1>2 DEF Open, MayStore
<1>4. \A v \in Writers \ {w} :
        writer'[v] = [writer[v] EXCEPT !.sharing = writer[v].sharing \/ writer[v].obj = o]
  BY DEF Open, Storing
<1>5. writer'[w] = [pc |-> "first", obj |-> o, file |-> "upload", sharing |-> Storing(o) # {}]
  BY DEF Open
<1>6. \A v \in Writers : writer[v] \in WriterRecord
  BY DEF EnvelopeTypeOK, WriterRecord, Steps, Handles
<1>7. \A v \in Writers \ {w} :
        /\ writer'[v].pc = writer[v].pc /\ writer'[v].obj = writer[v].obj
        /\ writer'[v].file = writer[v].file
        /\ writer'[v].sharing <=> writer[v].sharing \/ writer[v].obj = o
  BY <1>4, <1>6 DEF WriterRecord
<1>8. upload' = [upload EXCEPT ![o] = Blank] /\ UNCHANGED <<running, key, target, rotation, interrupted, shared>>
  BY DEF Open
<1>9. /\ writer'[w].pc = "first" /\ writer'[w].obj = o /\ writer'[w].file = "upload"
      /\ writer'[w].sharing <=> \E v \in Writers : writer[v].obj = o
  <2>1. writer'[w].pc = "first" /\ writer'[w].obj = o /\ writer'[w].file = "upload"
    BY <1>5
  <2>2. writer'[w].sharing = (Storing(o) # {})
    BY <1>5
  <2> QED
    BY <1>1, <2>1, <2>2
<1>10. upload'[o] = Blank /\ \A p \in Objects \ {o} : upload'[p] = upload[p]
  BY <1>8 DEF EnvelopeTypeOK
<1> QED
  BY <1>2, <1>3, <1>7, <1>8, <1>9, <1>10

LEMMA WriteEffect ==
  ASSUME EnvelopeTypeOK, HandlesInv, NEW w \in Writers, NEW i \in 1..2,
         NEW next \in {"second", "written"}, writer[w].pc \in Filling, WritePart(w, i, next)
  PROVE  LET o == writer[w].obj IN
         /\ o \in Objects
         /\ writer'[w].pc = next /\ writer'[w].obj = o
         /\ writer'[w].file = writer[w].file /\ writer'[w].sharing = writer[w].sharing
         /\ \A v \in Writers \ {w} : writer'[v] = writer[v]
         /\ \A p \in Objects : \/ upload'[p] = upload[p]
                               \/ /\ p = o /\ writer[w].file = "upload" /\ upload[p] \in Parts
                                  /\ upload'[p] = Put(upload[p], i, VersionOf(w))
         /\ \A p \in Objects : \/ target'[p] = target[p]
                               \/ /\ p = o /\ writer[w].file = "target" /\ target[p] \in Parts
                                  /\ target'[p] = Put(target[p], i, VersionOf(w))
         /\ writer[w].file = "upload" => upload'[o] = Put(upload[o], i, VersionOf(w))
         /\ UNCHANGED <<running, key, rotation, interrupted, shared>>
<1> DEFINE o == writer[w].obj
<1>1. o \in Objects /\ writer[w] \in WriterRecord
  BY NoFileAssumption DEF EnvelopeTypeOK, WriterRecord, Steps, Handles, Filling
<1>2. writer' = [writer EXCEPT ![w] = [writer[w] EXCEPT !.pc = next]]
  BY DEF WritePart
<1>3. writer'[w] = [writer[w] EXCEPT !.pc = next] /\ \A v \in Writers \ {w} : writer'[v] = writer[v]
  BY <1>2 DEF EnvelopeTypeOK
<1>4. writer'[w].pc = next /\ writer'[w].obj = o
      /\ writer'[w].file = writer[w].file /\ writer'[w].sharing = writer[w].sharing
  BY <1>1, <1>3 DEF WriterRecord
<1>5. /\ writer[w].file = "upload" => upload[o] \in Parts
      /\ writer[w].file = "target" => target[o] \in Parts
  BY <1>1, Files DEF EnvelopeTypeOK, HandlesInv
<1>6. upload' = IF writer[w].file = "upload"
                  THEN [upload EXCEPT ![o] = Put(upload[o], i, VersionOf(w))] ELSE upload
  BY DEF WritePart
<1>7. target' = IF writer[w].file = "target"
                  THEN [target EXCEPT ![o] = Put(target[o], i, VersionOf(w))] ELSE target
  BY DEF WritePart
<1>8. UNCHANGED <<running, key, rotation, interrupted, shared>>
  BY DEF WritePart
<1> QED
  BY <1>1, <1>3, <1>4, <1>5, <1>6, <1>7, <1>8 DEF EnvelopeTypeOK

LEMMA ReplaceEffect ==
  ASSUME EnvelopeTypeOK, NEW w \in Writers, Replace(w)
  PROVE  LET o == writer[w].obj IN
         /\ o \in Objects /\ writer[w].pc = "written" /\ upload[o] \in Parts
         /\ writer'[w].file = "gone"
         /\ o \in Quarantined => writer'[w] = IdleWriter
         /\ o \notin Quarantined => writer'[w].pc = "stored" /\ writer'[w].obj = o
                                      /\ writer'[w].sharing = writer[w].sharing
         /\ \A v \in Writers \ {w} :
              /\ writer'[v].pc = writer[v].pc /\ writer'[v].obj = writer[v].obj
              /\ writer'[v].sharing = writer[v].sharing
              /\ writer[v].obj # o => writer'[v].file = writer[v].file
              /\ writer[v].obj = o => writer'[v].file = IF writer[v].file = "upload" THEN "target" ELSE "gone"
         /\ target'[o] = upload[o] /\ \A p \in Objects \ {o} : target'[p] = target[p]
         /\ upload'[o] = NoFile /\ \A p \in Objects \ {o} : upload'[p] = upload[p]
         /\ shared'[o] = writer[w].sharing /\ \A p \in Objects \ {o} : shared'[p] = shared[p]
         /\ UNCHANGED <<running, key, rotation, interrupted>>
<1> DEFINE o == writer[w].obj
<1>1. o \in Objects /\ writer[w].pc = "written" /\ upload[o] \in Parts
  BY Files DEF EnvelopeTypeOK, Replace
<1>2. \A v \in Writers : writer[v] \in WriterRecord
  BY DEF EnvelopeTypeOK, WriterRecord, Steps, Handles
<1>3. \A v \in Writers \ {w} : writer'[v] = [writer[v] EXCEPT !.file = Renamed(o, v)]
  BY DEF Replace
<1>4. writer'[w] = IF o \in Quarantined THEN IdleWriter
                   ELSE [writer[w] EXCEPT !.pc = "stored", !.file = "gone"]
  BY DEF Replace
<1>5. /\ writer'[w].file = "gone"
      /\ o \in Quarantined => writer'[w] = IdleWriter
      /\ o \notin Quarantined => writer'[w].pc = "stored" /\ writer'[w].obj = o
                                   /\ writer'[w].sharing = writer[w].sharing
  <2>1. CASE o \in Quarantined
    BY <1>4, <2>1 DEF IdleWriter
  <2>2. CASE o \notin Quarantined
    <3>1. writer'[w] = [writer[w] EXCEPT !.pc = "stored", !.file = "gone"]
      BY <1>4, <2>2
    <3> QED
      BY <1>2, <2>2, <3>1 DEF WriterRecord
  <2> QED
    BY <2>1, <2>2
<1>6. \A v \in Writers \ {w} :
        /\ writer'[v].pc = writer[v].pc /\ writer'[v].obj = writer[v].obj
        /\ writer'[v].sharing = writer[v].sharing
        /\ writer[v].obj # o => writer'[v].file = writer[v].file
        /\ writer[v].obj = o => writer'[v].file = IF writer[v].file = "upload" THEN "target" ELSE "gone"
  BY <1>2, <1>3 DEF WriterRecord, Renamed
<1>7. /\ target' = [target EXCEPT ![o] = upload[o]] /\ upload' = [upload EXCEPT ![o] = NoFile]
      /\ shared' = [shared EXCEPT ![o] = writer[w].sharing]
      /\ UNCHANGED <<running, key, rotation, interrupted>>
  BY DEF Replace
<1> QED
  BY <1>1, <1>5, <1>6, <1>7 DEF EnvelopeTypeOK

LEMMA RemoveEffect ==
  ASSUME EnvelopeTypeOK, NEW folder, NEW uploads, NEW targets, RemoveFolder(folder, uploads, targets)
  PROVE  /\ \A w \in Writers :
              /\ writer'[w].pc = writer[w].pc /\ writer'[w].obj = writer[w].obj
              /\ writer'[w].sharing = writer[w].sharing
              /\ writer'[w].file \in {writer[w].file, "gone"}
              /\ writer'[w].file = "gone" /\ writer[w].file = "upload" => writer[w].obj \in uploads
              /\ writer[w].file = "upload" /\ writer[w].obj \in uploads => writer'[w].file = "gone"
              /\ writer[w].file = "target" /\ writer[w].obj \in targets => writer'[w].file = "gone"
         /\ \A o \in Objects :
              /\ upload'[o] = IF o \in uploads THEN NoFile ELSE upload[o]
              /\ target'[o] = IF o \in targets THEN NoFile ELSE target[o]
         /\ running /\ UNCHANGED <<running, key, rotation, interrupted, shared>>
<1>1. \A w \in Writers : writer[w] \in WriterRecord
  BY DEF EnvelopeTypeOK, WriterRecord, Steps, Handles
<1>2. \A w \in Writers :
        writer'[w] = IF \/ writer[w].file = "upload" /\ writer[w].obj \in uploads
                        \/ writer[w].file = "target" /\ writer[w].obj \in targets
                       THEN [writer[w] EXCEPT !.file = "gone"] ELSE writer[w]
  BY DEF RemoveFolder
<1>3. \A w \in Writers :
              /\ writer'[w].pc = writer[w].pc /\ writer'[w].obj = writer[w].obj
              /\ writer'[w].sharing = writer[w].sharing
              /\ writer'[w].file \in {writer[w].file, "gone"}
              /\ writer'[w].file = "gone" /\ writer[w].file = "upload" => writer[w].obj \in uploads
              /\ writer[w].file = "upload" /\ writer[w].obj \in uploads => writer'[w].file = "gone"
              /\ writer[w].file = "target" /\ writer[w].obj \in targets => writer'[w].file = "gone"
  BY <1>1, <1>2 DEF WriterRecord
<1> QED
  BY <1>3 DEF RemoveFolder

\* The rotation program meets no writer and touches no temporary file.
LEMMA RotationEffect ==
  ASSUME EnvelopeInv,
         \/ \E new \in Keys : BeginRotation(new)
         \/ \E o \in Objects : Rewrap(o) \/ AbortRotation(o)
         \/ StopRotation \/ RecordRotation
  PROVE  /\ \A w \in Writers : writer[w] = IdleWriter
         /\ ~running /\ UNCHANGED <<running, upload, writer, shared>>
<1>1. ~running
  BY Rewrapping DEF EnvelopeInv, PhasesInv, BeginRotation, Rewrap, MayRewrap, AbortRotation,
                    StopRotation, RecordRotation
<1>2. UNCHANGED <<running, upload, writer, shared>>
  BY DEF BeginRotation, Rewrap, AbortRotation, StopRotation, RecordRotation
<1> QED
  BY <1>1, <1>2 DEF EnvelopeInv, PhasesInv

LEMMA IdleFields ==
  /\ IdleWriter.pc = "idle" /\ IdleWriter.obj = NoFile
  /\ IdleWriter.file = "gone" /\ IdleWriter.sharing = FALSE
BY DEF IdleWriter

\* A call that ends, or all of them with the service.
LEMMA EndEffect ==
  ASSUME EnvelopeTypeOK, PhasesInv,
         \/ \E w \in Writers : Materialize(w) \/ FailStore(w)
         \/ StopService \/ StartService
  PROVE  /\ \A w \in Writers : writer'[w] \in {writer[w], IdleWriter}
         /\ UNCHANGED <<key, upload, target, rotation, interrupted, shared>>
<1>1. CASE \E w \in Writers : Materialize(w) \/ FailStore(w)
  BY <1>1 DEF EnvelopeTypeOK, Materialize, FailStore
<1>2. CASE StopService \/ StartService
  BY <1>2 DEF StopService, StartService
<1> QED
  BY <1>1, <1>2

-----------------------------------------------------------------------------
(* Where the handles are.                                                    *)

LEMMA HandlesPreserved == EnvelopeInv /\ [EnvelopeNext]_envelopeVars => HandlesInv'
<1> SUFFICES ASSUME EnvelopeInv, [EnvelopeNext]_envelopeVars PROVE HandlesInv'
  OBVIOUS
<1>i. EnvelopeTypeOK /\ PhasesInv /\ HandlesInv /\ SharingInv
  BY DEF EnvelopeInv
<1>t. /\ \A w \in Writers : writer[w].pc = "idle" <=> writer[w].obj = NoFile
      /\ \A w \in Writers : writer[w].pc # "idle" => writer[w].obj \in Objects
  BY <1>i DEF EnvelopeTypeOK
<1>1. ASSUME NEW w \in Writers, NEW o \in Objects, Open(w, o) PROVE HandlesInv'
  BY <1>i, <1>t, <1>1, OpenEffect, Files DEF HandlesInv
<1>2. ASSUME NEW w \in Writers, WriteFirst(w) \/ WriteSecond(w) PROVE HandlesInv'
  <2>1. PICK i \in 1..2, next \in {"second", "written"} : writer[w].pc \in Filling /\ WritePart(w, i, next)
    BY <1>2 DEF WriteFirst, WriteSecond, Filling
  <2>2. \A p \in Objects : (upload[p] # NoFile => upload'[p] # NoFile) /\ (target[p] # NoFile => target'[p] # NoFile)
    BY <1>i, <2>1, WriteEffect, FilePut, Versions
  <2> QED
    BY <1>i, <1>t, <2>1, <2>2, WriteEffect DEF HandlesInv
<1>3. ASSUME NEW w \in Writers, Replace(w) PROVE HandlesInv'
  <2> DEFINE o == writer[w].obj
  <2>1. \A v \in Writers \ {w} : writer[v].obj = o => writer[w].sharing /\ o \in Quarantined
    BY <1>i, <1>3, ReplaceEffect DEF SharingInv
  <2>2. upload[o] # NoFile
    BY <1>3 DEF Replace
  <2> QED
    BY <1>i, <1>t, <1>3, <2>1, <2>2, ReplaceEffect, IdleFields DEF HandlesInv
<1>4. ASSUME NEW folder, NEW uploads, NEW targets, RemoveFolder(folder, uploads, targets) PROVE HandlesInv'
  BY <1>i, <1>t, <1>4, RemoveEffect DEF HandlesInv
<1>5. CASE \/ \E w \in Writers : Materialize(w) \/ FailStore(w)
           \/ StopService \/ StartService
  BY <1>i, <1>5, EndEffect, IdleFields DEF HandlesInv
<1>6. CASE \/ \E new \in Keys : BeginRotation(new)
           \/ \E o \in Objects : Rewrap(o) \/ AbortRotation(o)
           \/ StopRotation \/ RecordRotation
  BY <1>6, RotationEffect, IdleFields DEF HandlesInv
<1>7. CASE UNCHANGED envelopeVars
  BY <1>i, <1>7 DEF HandlesInv, envelopeVars
<1> QED
  BY <1>1, <1>2, <1>3, <1>4, <1>5, <1>6, <1>7 DEF EnvelopeNext

LEMMA SharingPreserved == EnvelopeInv /\ [EnvelopeNext]_envelopeVars => SharingInv'
<1> SUFFICES ASSUME EnvelopeInv, [EnvelopeNext]_envelopeVars PROVE SharingInv'
  OBVIOUS
<1>i. EnvelopeTypeOK /\ PhasesInv /\ HandlesInv /\ SharingInv
  BY DEF EnvelopeInv
<1>t. /\ \A w \in Writers : writer[w].pc = "idle" <=> writer[w].obj = NoFile
      /\ \A w \in Writers : writer[w].pc # "idle" => writer[w].obj \in Objects
      /\ NoFile \notin Objects
  BY <1>i, NoFileAssumption DEF EnvelopeTypeOK
<1>1. ASSUME NEW w \in Writers, NEW o \in Objects, Open(w, o) PROVE SharingInv'
  <2>1. /\ writer[w].obj = NoFile /\ o # NoFile
        /\ o \notin Quarantined => \A v \in Writers : writer[v].obj # o
    BY <1>i, <1>1, OpenEffect, IdleFields
  <2>2. /\ writer'[w].obj = o /\ writer'[w].file = "upload"
        /\ writer'[w].sharing <=> \E v \in Writers : writer[v].obj = o
        /\ \A v \in Writers \ {w} :
              /\ writer'[v].pc = writer[v].pc /\ writer'[v].obj = writer[v].obj
              /\ writer'[v].file = writer[v].file
              /\ writer'[v].sharing <=> writer[v].sharing \/ writer[v].obj = o
    BY <1>i, <1>1, OpenEffect
  <2> QED
    BY <1>i, <1>t, <2>1, <2>2 DEF SharingInv
<1>2. ASSUME NEW w \in Writers, WriteFirst(w) \/ WriteSecond(w) PROVE SharingInv'
  <2>1. PICK i \in 1..2, next \in {"second", "written"} : writer[w].pc \in Filling /\ WritePart(w, i, next)
    BY <1>2 DEF WriteFirst, WriteSecond, Filling
  <2>2. writer[w].pc # "idle" /\ \A v \in Writers :
          /\ writer'[v].obj = writer[v].obj /\ writer'[v].sharing = writer[v].sharing
          /\ writer'[v].file = writer[v].file /\ (writer'[v].pc # "idle" => writer[v].pc # "idle")
    BY <1>i, <2>1, WriteEffect DEF Filling
  <2> QED
    BY <1>i, <2>2 DEF SharingInv
<1>3. ASSUME NEW w \in Writers, Replace(w) PROVE SharingInv'
  <2>1. \A v \in Writers \ {w} :
          writer[v].obj = writer[w].obj /\ writer[v].pc # "idle" => writer[v].sharing
    BY <1>i, <1>3, ReplaceEffect DEF SharingInv
  <2> QED
    BY <1>i, <1>t, <1>3, <2>1, ReplaceEffect, IdleFields DEF SharingInv
<1>4. ASSUME NEW folder, NEW uploads, NEW targets, RemoveFolder(folder, uploads, targets) PROVE SharingInv'
  BY <1>i, <1>4, RemoveEffect DEF SharingInv
<1>5. CASE \/ \E w \in Writers : Materialize(w) \/ FailStore(w)
           \/ StopService \/ StartService
  BY <1>i, <1>t, <1>5, EndEffect, IdleFields DEF SharingInv
<1>6. CASE \/ \E new \in Keys : BeginRotation(new)
           \/ \E o \in Objects : Rewrap(o) \/ AbortRotation(o)
           \/ StopRotation \/ RecordRotation
  BY <1>6, RotationEffect, IdleFields DEF SharingInv
<1>7. CASE UNCHANGED envelopeVars
  BY <1>i, <1>7 DEF SharingInv, envelopeVars
<1> QED
  BY <1>1, <1>2, <1>3, <1>4, <1>5, <1>6, <1>7 DEF EnvelopeNext

-----------------------------------------------------------------------------
(* What is in the files.                                                     *)

LEMMA ContentsPreserved == EnvelopeInv /\ [EnvelopeNext]_envelopeVars => ContentsInv'
<1> SUFFICES ASSUME EnvelopeInv, [EnvelopeNext]_envelopeVars PROVE ContentsInv'
  OBVIOUS
<1>i. EnvelopeTypeOK /\ PhasesInv /\ HandlesInv /\ SharingInv /\ ContentsInv
  BY DEF EnvelopeInv
<1>t. /\ \A w \in Writers : writer[w].pc = "idle" <=> writer[w].obj = NoFile
      /\ \A w \in Writers : writer[w].pc # "idle" => writer[w].obj \in Objects
      /\ \A w \in Writers : writer[w].file \in Handles
  BY <1>i DEF EnvelopeTypeOK, Handles
<1>a. ASSUME NEW w \in Writers, NEW v \in Writers \ {w}, writer[v].pc \in Filling,
             ~writer[v].sharing, writer[w].pc # "idle"
      PROVE  writer[v].obj # writer[w].obj
  BY <1>i, <1>a DEF SharingInv, Filling
<1>1. ASSUME NEW w \in Writers, NEW o \in Objects, Open(w, o) PROVE ContentsInv'
  <2>1. key' = key /\ \A v \in Writers : VersionOf(v)' = VersionOf(v)
    BY <1>i, <1>1, OpenEffect DEF VersionOf
  <2>2. writer'[w].pc = "first" /\ writer'[w].file = "upload"
    BY <1>i, <1>1, OpenEffect
  <2>3. ASSUME NEW v \in Writers \ {w}, writer'[v].pc \in Filling, ~writer'[v].sharing
        PROVE  /\ writer[v].pc \in Filling /\ ~writer[v].sharing /\ writer[v].obj # o
               /\ writer'[v].pc = writer[v].pc /\ writer'[v].obj = writer[v].obj
               /\ writer'[v].file = writer[v].file /\ upload'[writer[v].obj] = upload[writer[v].obj]
    BY <1>i, <1>t, <1>1, <2>3, OpenEffect DEF Filling
  <2> QED
    BY <1>i, <2>1, <2>2, <2>3 DEF ContentsInv
<1>2. ASSUME NEW w \in Writers, NEW i \in 1..2, NEW next \in {"second", "written"},
             writer[w].pc = IF i = 1 THEN "first" ELSE "second",
             next = IF i = 1 THEN "second" ELSE "written", WritePart(w, i, next)
      PROVE  ContentsInv'
  <2> DEFINE o == writer[w].obj
  <2>1. writer[w].pc \in Filling /\ writer[w].pc # "idle"
    BY <1>2 DEF Filling
  <2>2. key' = key /\ \A v \in Writers : VersionOf(v)' = VersionOf(v)
    BY <1>i, <1>2, <2>1, WriteEffect DEF VersionOf
  <2>3. ASSUME NEW v \in Writers \ {w}, writer'[v].pc \in Filling, ~writer'[v].sharing
        PROVE  /\ writer[v].pc \in Filling /\ ~writer[v].sharing /\ writer[v].obj # o
               /\ writer'[v] = writer[v] /\ upload'[writer[v].obj] = upload[writer[v].obj]
    BY <1>i, <1>t, <1>2, <1>a, <2>1, <2>3, WriteEffect DEF Filling
  <2>4. CASE writer[w].sharing
    BY <1>i, <1>2, <2>1, <2>2, <2>3, <2>4, WriteEffect DEF ContentsInv
  <2>5. CASE ~writer[w].sharing
    <3>1. writer[w].file \in {"upload", "gone"}
      BY <1>i, <1>t, <2>1, <2>5 DEF SharingInv, Handles
    <3>2. CASE writer[w].file = "gone"
      <4>1. upload[o] = NoFile
        BY <1>i, <2>1, <2>5, <3>2 DEF ContentsInv
      <4>2. upload'[o] = NoFile /\ writer'[w].file = "gone" /\ writer'[w].obj = o
        BY <1>i, <1>2, <2>1, <3>2, <4>1, WriteEffect
      <4> QED
        BY <1>i, <2>2, <2>3, <4>2 DEF ContentsInv
    <3>3. CASE writer[w].file = "upload"
      <4>1. /\ upload'[o] = Put(upload[o], i, VersionOf(w)) /\ upload[o] \in Parts
            /\ writer'[w].file = "upload" /\ writer'[w].obj = o /\ writer'[w].pc = next
        BY <1>i, <1>2, <2>1, <3>3, WriteEffect, Files DEF HandlesInv, EnvelopeTypeOK
      <4>2. upload'[o][i] = VersionOf(w) /\ \A j \in 1..2 : j # i => upload'[o][j] = upload[o][j]
        BY <1>i, <4>1, FilePut, Versions
      <4>3. i = 2 => upload[o][1] = VersionOf(w)
        BY <1>i, <1>2, <2>1, <2>5, <3>3 DEF ContentsInv
      <4>4. next = "second" => upload'[o][1] = VersionOf(w)
        BY <1>2, <4>2
      <4>5. next = "written" => upload'[o][1] = VersionOf(w) /\ upload'[o][2] = VersionOf(w)
        BY <1>2, <4>2, <4>3
      <4> QED
        BY <1>i, <2>2, <2>3, <4>1, <4>4, <4>5 DEF ContentsInv
    <3> QED
      BY <3>1, <3>2, <3>3
  <2> QED
    BY <2>4, <2>5
<1>3. ASSUME NEW w \in Writers, Replace(w) PROVE ContentsInv'
  <2>1. key' = key /\ \A v \in Writers : VersionOf(v)' = VersionOf(v)
    BY <1>i, <1>3, ReplaceEffect DEF VersionOf
  <2>2. writer'[w].pc \notin Filling
    BY <1>i, <1>3, ReplaceEffect, IdleFields DEF Filling
  <2>3. ASSUME NEW v \in Writers \ {w}, writer'[v].pc \in Filling, ~writer'[v].sharing
        PROVE  /\ writer[v].pc \in Filling /\ ~writer[v].sharing
               /\ writer'[v].pc = writer[v].pc /\ writer'[v].obj = writer[v].obj
               /\ writer'[v].file = writer[v].file /\ upload'[writer[v].obj] = upload[writer[v].obj]
    <3>1. writer[v].pc \in Filling /\ ~writer[v].sharing /\ writer[w].pc # "idle" /\ writer[v].pc # "idle"
      BY <1>i, <1>3, <2>3, ReplaceEffect DEF Filling
    <3>2. writer[v].obj # writer[w].obj /\ writer[v].obj \in Objects
      BY <1>a, <1>t, <3>1
    <3> QED
      BY <1>i, <1>3, <3>1, <3>2, ReplaceEffect
  <2> QED
    BY <1>i, <2>1, <2>2, <2>3 DEF ContentsInv
<1>4. ASSUME NEW folder, NEW uploads, NEW targets, RemoveFolder(folder, uploads, targets)
      PROVE  ContentsInv'
  <2>1. key' = key /\ \A v \in Writers : VersionOf(v)' = VersionOf(v)
    BY <1>i, <1>4, RemoveEffect DEF VersionOf
  <2>2. ASSUME NEW v \in Writers, writer[v].pc \in Filling, ~writer[v].sharing
        PROVE  writer[v].file # "target"
    BY <1>i, <2>2 DEF SharingInv, Filling
  <2>3. ASSUME NEW v \in Writers, writer[v].pc \in Filling
        PROVE  writer[v].obj \in Objects
    BY <1>t, <2>3 DEF Filling
  <2> QED
    BY <1>i, <1>t, <1>4, <2>1, <2>2, <2>3, RemoveEffect DEF ContentsInv, Handles
<1>5. CASE \/ \E w \in Writers : Materialize(w) \/ FailStore(w)
           \/ StopService \/ StartService
  <2>1. key' = key /\ \A v \in Writers : VersionOf(v)' = VersionOf(v)
    BY <1>i, <1>5, EndEffect DEF VersionOf
  <2> QED
    BY <1>i, <1>5, <2>1, EndEffect, IdleFields DEF ContentsInv, Filling
<1>6. CASE \/ \E new \in Keys : BeginRotation(new)
           \/ \E o \in Objects : Rewrap(o) \/ AbortRotation(o)
           \/ StopRotation \/ RecordRotation
  BY <1>6, RotationEffect, IdleFields DEF ContentsInv, Filling
<1>7. CASE UNCHANGED envelopeVars
  BY <1>i, <1>7 DEF ContentsInv, envelopeVars, VersionOf
<1>8. ASSUME NEW w \in Writers, WriteFirst(w) \/ WriteSecond(w) PROVE ContentsInv'
  <2>1. CASE WriteFirst(w)
    BY <2>1, <1>2 DEF WriteFirst
  <2>2. CASE WriteSecond(w)
    BY <2>2, <1>2 DEF WriteSecond
  <2> QED
    BY <1>8, <2>1, <2>2
<1> QED
  BY <1>1, <1>3, <1>4, <1>5, <1>6, <1>7, <1>8 DEF EnvelopeNext

LEMMA TornPreserved == EnvelopeInv /\ [EnvelopeNext]_envelopeVars => OnlySharedIsTorn'
<1> SUFFICES ASSUME EnvelopeInv, [EnvelopeNext]_envelopeVars, NEW o \in Objects,
                    target'[o] # NoFile, ~Whole(target'[o])
             PROVE  o \in Quarantined /\ shared'[o]
  BY DEF OnlySharedIsTorn, StoredObjects
<1>i. EnvelopeTypeOK /\ PhasesInv /\ HandlesInv /\ SharingInv /\ ContentsInv /\ OnlySharedIsTorn
      /\ KeyInv
  BY DEF EnvelopeInv
<1>k. ASSUME target'[o] = target[o], shared'[o] = shared[o] PROVE o \in Quarantined /\ shared'[o]
  BY <1>i, <1>k DEF OnlySharedIsTorn, StoredObjects
<1>1. ASSUME NEW w \in Writers, NEW p \in Objects, Open(w, p) PROVE o \in Quarantined /\ shared'[o]
  BY <1>i, <1>k, <1>1, OpenEffect
<1>2. ASSUME NEW w \in Writers, WriteFirst(w) \/ WriteSecond(w) PROVE o \in Quarantined /\ shared'[o]
  <2>1. PICK i \in 1..2, next \in {"second", "written"} : writer[w].pc \in Filling /\ WritePart(w, i, next)
    BY <1>2 DEF WriteFirst, WriteSecond, Filling
  <2> QED
    BY <1>i, <1>k, <2>1, WriteEffect DEF HandlesInv
<1>3. ASSUME NEW w \in Writers, Replace(w) PROVE o \in Quarantined /\ shared'[o]
  <2>1. CASE o # writer[w].obj
    BY <1>i, <1>k, <1>3, <2>1, ReplaceEffect
  <2>2. CASE o = writer[w].obj /\ writer[w].sharing
    BY <1>i, <1>3, <2>2, ReplaceEffect DEF SharingInv
  <2>3. CASE o = writer[w].obj /\ ~writer[w].sharing
    <3>1. target'[o] = upload[o] /\ upload[o] # NoFile /\ writer[w].pc = "written"
      <4>1. upload[writer[w].obj] # NoFile
        BY <1>3 DEF Replace
      <4> QED
        BY <1>i, <1>3, <2>3, <4>1, ReplaceEffect
    <3>2. upload[o][1] = VersionOf(w) /\ upload[o][2] = VersionOf(w)
      BY <1>i, <2>3, <3>1 DEF ContentsInv, Filling
    <3> QED
      BY <1>i, <3>1, <3>2, Versions DEF Whole
  <2> QED
    BY <2>1, <2>2, <2>3
<1>4. ASSUME NEW folder, NEW uploads, NEW targets, RemoveFolder(folder, uploads, targets)
      PROVE  o \in Quarantined /\ shared'[o]
  BY <1>i, <1>k, <1>4, RemoveEffect
<1>5. CASE \/ \E w \in Writers : Materialize(w) \/ FailStore(w)
           \/ StopService \/ StartService
  BY <1>i, <1>k, <1>5, EndEffect
<1>6. ASSUME NEW p \in Objects, Rewrap(p) PROVE o \in Quarantined /\ shared'[o]
  <2>1. o # p
    BY <1>i, <1>6, Rewrapped
  <2> QED
    BY <1>i, <1>k, <1>6, <2>1, Rewrapped DEF Rewrap
<1>7. CASE \/ \E new \in Keys : BeginRotation(new)
           \/ \E p \in Objects : AbortRotation(p)
           \/ StopRotation \/ RecordRotation
  BY <1>k, <1>7 DEF BeginRotation, AbortRotation, StopRotation, RecordRotation
<1>8. CASE UNCHANGED envelopeVars
  BY <1>k, <1>8 DEF envelopeVars
<1> QED
  BY <1>1, <1>2, <1>3, <1>4, <1>5, <1>6, <1>7, <1>8 DEF EnvelopeNext

LEMMA ReadBackPreserved == EnvelopeInv /\ [EnvelopeNext]_envelopeVars => ReadsBackItsOwn'
<1> SUFFICES ASSUME EnvelopeInv, [EnvelopeNext]_envelopeVars, NEW w \in Writers,
                    writer'[w].pc = "stored", writer'[w].obj \in Objects, target'[writer'[w].obj] # NoFile
             PROVE  /\ Whole(target'[writer'[w].obj])
                    /\ target'[writer'[w].obj][1] = VersionOf(w)'
  BY DEF ReadsBackItsOwn, StoredObjects
<1> DEFINE Goal == /\ Whole(target'[writer'[w].obj])
                   /\ target'[writer'[w].obj][1] = VersionOf(w)'
<1>i. EnvelopeTypeOK /\ PhasesInv /\ HandlesInv /\ SharingInv /\ ContentsInv /\ ReadsBackItsOwn
  BY DEF EnvelopeInv
<1>t. \A v \in Writers : writer[v].pc # "idle" => writer[v].obj \in Objects
  BY <1>i DEF EnvelopeTypeOK
<1>k. ASSUME writer[w].pc = "stored", writer'[w].obj = writer[w].obj, key' = key,
             target'[writer[w].obj] = target[writer[w].obj]
      PROVE  Goal
  BY <1>i, <1>k DEF ReadsBackItsOwn, StoredObjects, VersionOf
<1>1. ASSUME NEW v \in Writers, NEW p \in Objects, Open(v, p) PROVE Goal
  BY <1>i, <1>k, <1>1, OpenEffect
<1>2. ASSUME NEW v \in Writers, WriteFirst(v) \/ WriteSecond(v) PROVE Goal
  <2>1. PICK i \in 1..2, next \in {"second", "written"} : writer[v].pc \in Filling /\ WritePart(v, i, next)
    BY <1>2 DEF WriteFirst, WriteSecond, Filling
  <2>2. w # v /\ writer'[w] = writer[w]
    BY <1>i, <2>1, WriteEffect
  <2>3. writer[v].file = "target" => writer[v].obj # writer[w].obj
    BY <1>i, <2>2 DEF HandlesInv
  <2> QED
    BY <1>i, <1>k, <2>1, <2>2, <2>3, WriteEffect
<1>3. ASSUME NEW v \in Writers, Replace(v) PROVE Goal
  <2>1. CASE v # w
    <3>1. writer[w].pc = "stored" /\ writer'[w].obj = writer[w].obj
      BY <1>i, <1>3, <2>1, ReplaceEffect
    <3>2. writer[w].obj \in Objects \ Quarantined
      BY <1>i, <1>t, <3>1 DEF HandlesInv
    <3>3. writer[v].obj # writer[w].obj
      BY <1>i, <2>1, <3>2 DEF PhasesInv
    <3> QED
      BY <1>i, <1>k, <1>3, <3>1, <3>2, <3>3, ReplaceEffect
  <2>2. CASE v = w
    <3>1. /\ writer[w].obj \notin Quarantined /\ writer'[w].obj = writer[w].obj /\ key' = key
          /\ writer[w].pc = "written" /\ upload[writer[w].obj] # NoFile
          /\ target'[writer[w].obj] = upload[writer[w].obj]
      BY <1>i, <1>3, <2>2, ReplaceEffect, IdleFields DEF Replace
    <3>2. ~writer[w].sharing
      BY <1>i, <3>1 DEF SharingInv
    <3>3. upload[writer[w].obj][1] = VersionOf(w) /\ upload[writer[w].obj][2] = VersionOf(w)
      BY <1>i, <3>1, <3>2 DEF ContentsInv, Filling
    <3> QED
      BY <1>i, <3>1, <3>3, Versions DEF Whole, VersionOf
  <2> QED
    BY <2>1, <2>2
<1>4. ASSUME NEW folder, NEW uploads, NEW targets, RemoveFolder(folder, uploads, targets) PROVE Goal
  BY <1>i, <1>k, <1>4, RemoveEffect
<1>5. CASE \/ \E v \in Writers : Materialize(v) \/ FailStore(v)
           \/ StopService \/ StartService
  BY <1>i, <1>k, <1>5, EndEffect, IdleFields
<1>6. CASE \/ \E new \in Keys : BeginRotation(new)
           \/ \E o \in Objects : Rewrap(o) \/ AbortRotation(o)
           \/ StopRotation \/ RecordRotation
  BY <1>6, RotationEffect, IdleFields
<1>7. CASE UNCHANGED envelopeVars
  BY <1>k, <1>7 DEF envelopeVars
<1> QED
  BY <1>1, <1>2, <1>3, <1>4, <1>5, <1>6, <1>7 DEF EnvelopeNext

-----------------------------------------------------------------------------
(* Under which key the files are.                                            *)

LEMMA PutUnder ==
  ASSUME EnvelopeTypeOK, NEW file \in Parts, NEW i \in 1..2, NEW w \in Writers, Under(file, key)
  PROVE  Under(Put(file, i, VersionOf(w)), key)
BY FilePut, Versions, NoFileAssumption DEF Under

\* A count of files, and of those that are done with one more of them.
LEMMA OneMoreDone ==
  ASSUME NEW S, IsFiniteSet(S), NEW todo \in SUBSET S, NEW o \in todo
  PROVE  Cardinality(S \ (todo \ {o})) = Cardinality(S \ todo) + 1
<1>1. IsFiniteSet(S \ todo)
  BY FS_Subset
<1>2. S \ (todo \ {o}) = (S \ todo) \cup {o} /\ o \notin S \ todo
  OBVIOUS
<1>3. Cardinality((S \ todo) \cup {o}) = Cardinality(S \ todo) + 1
  BY <1>1, <1>2, FS_AddElement
<1> QED
  BY <1>2, <1>3

LEMMA StoredIsFinite == IsFiniteSet(StoredObjects)
BY ObjectAssumption, FS_Subset DEF StoredObjects

LEMMA NothingDone ==
  ASSUME NEW S, IsFiniteSet(S), NEW todo \in SUBSET S, Cardinality(S \ todo) = 0
  PROVE  todo = S
<1>1. IsFiniteSet(S \ todo)
  BY FS_Subset
<1>2. S \ todo = {}
  BY <1>1, FS_EmptySet
<1> QED
  BY <1>2

\* With the rotation idle, every step of the service keeps the files under the key.
LEMMA ServiceKeys ==
  ASSUME EnvelopeInv, key' = key, rotation' = rotation, interrupted' = interrupted,
         \A w \in Writers : writer'[w].pc # "idle" => Under(upload'[writer'[w].obj], key),
         \A o \in Objects : Under(target[o], key) => Under(target'[o], key),
         rotation # IdleRotation => target' = target
  PROVE  KeyInv'
<1>1. KeyInv /\ EnvelopeTypeOK
  BY DEF EnvelopeInv
<1>2. CASE rotation.pc = "rewrapping"
  <2>1. target' = target
    BY <1>1, <1>2, Rewrapping
  <2>2. StoredObjects' = StoredObjects
    BY <2>1 DEF StoredObjects
  <2> QED
    BY <1>1, <1>2, <2>1, <2>2 DEF KeyInv
<1>3. CASE rotation.pc # "rewrapping"
  BY <1>1, <1>3 DEF KeyInv
<1> QED
  BY <1>2, <1>3

LEMMA KeyPreserved == EnvelopeInv /\ [EnvelopeNext]_envelopeVars => KeyInv'
<1> SUFFICES ASSUME EnvelopeInv, [EnvelopeNext]_envelopeVars PROVE KeyInv'
  OBVIOUS
<1>i. EnvelopeTypeOK /\ PhasesInv /\ HandlesInv /\ SharingInv /\ ContentsInv /\ KeyInv
  BY DEF EnvelopeInv
<1>t. /\ \A w \in Writers : writer[w].pc = "idle" <=> writer[w].obj = NoFile
      /\ \A w \in Writers : writer[w].pc # "idle" => writer[w].obj \in Objects
      /\ NoFile \notin Objects
  BY <1>i, NoFileAssumption DEF EnvelopeTypeOK
<1>u. \A w \in Writers : writer[w].pc # "idle" => Under(upload[writer[w].obj], key)
  BY <1>i DEF KeyInv
<1>r. ASSUME NEW w \in Writers, writer[w] # IdleWriter PROVE rotation = IdleRotation
  BY <1>i, <1>r DEF PhasesInv
<1>1. ASSUME NEW w \in Writers, NEW o \in Objects, Open(w, o) PROVE KeyInv'
  <2>1. Under(Blank, key)
    BY Files, NoFileAssumption DEF Under, Blank
  <2>2. \A v \in Writers : writer'[v].pc # "idle" => Under(upload'[writer'[v].obj], key)
    BY <1>i, <1>t, <1>u, <1>1, <2>1, OpenEffect
  <2> QED
    BY <1>i, <1>1, <2>2, OpenEffect, ServiceKeys
<1>2. ASSUME NEW w \in Writers, WriteFirst(w) \/ WriteSecond(w) PROVE KeyInv'
  <2>1. PICK i \in 1..2, next \in {"second", "written"} : writer[w].pc \in Filling /\ WritePart(w, i, next)
    BY <1>2 DEF WriteFirst, WriteSecond, Filling
  <2>2. /\ rotation = IdleRotation /\ writer[w].pc # "idle"
        /\ UNCHANGED <<key, rotation, interrupted>>
    BY <1>i, <1>r, <2>1, WriteEffect DEF Filling, IdleWriter
  <2>3. \A v \in Writers : writer'[v].pc # "idle" =>
          writer'[v].obj = writer[v].obj /\ writer[v].pc # "idle" /\ writer[v].obj \in Objects
    BY <1>i, <1>t, <2>1, <2>2, WriteEffect
  <2>4. \A p \in Objects : Under(upload[p], key) => Under(upload'[p], key)
    BY <1>i, <2>1, WriteEffect, PutUnder
  <2>5. \A p \in Objects : Under(target[p], key) => Under(target'[p], key)
    BY <1>i, <2>1, WriteEffect, PutUnder
  <2>6. \A v \in Writers : writer'[v].pc # "idle" => Under(upload'[writer'[v].obj], key)
    BY <1>u, <2>3, <2>4
  <2> QED
    BY <2>2, <2>5, <2>6, ServiceKeys
<1>3. ASSUME NEW w \in Writers, Replace(w) PROVE KeyInv'
  <2>1. /\ rotation = IdleRotation /\ writer[w].pc # "idle"
        /\ UNCHANGED <<key, rotation, interrupted>>
    BY <1>i, <1>r, <1>3, ReplaceEffect DEF IdleWriter
  <2>2. Under(NoFile, key)
    BY DEF Under
  <2>3. \A p \in Objects : Under(target[p], key) => Under(target'[p], key)
    BY <1>i, <1>u, <1>3, <2>1, ReplaceEffect
  <2>4. \A v \in Writers : writer'[v].pc # "idle" => Under(upload'[writer'[v].obj], key)
    BY <1>i, <1>t, <1>u, <1>3, <2>2, ReplaceEffect, IdleFields
  <2> QED
    BY <2>1, <2>3, <2>4, ServiceKeys
<1>4. ASSUME NEW folder, NEW uploads, NEW targets, RemoveFolder(folder, uploads, targets) PROVE KeyInv'
  <2>1. UNCHANGED <<key, rotation, interrupted>> /\ rotation = IdleRotation /\ Under(NoFile, key)
    BY <1>i, <1>4, RemoveEffect DEF PhasesInv, Under
  <2>2. \A p \in Objects : Under(target[p], key) => Under(target'[p], key)
    BY <1>i, <1>4, <2>1, RemoveEffect
  <2>3. \A v \in Writers : writer'[v].pc # "idle" => Under(upload'[writer'[v].obj], key)
    BY <1>i, <1>t, <1>u, <1>4, <2>1, RemoveEffect
  <2> QED
    BY <2>1, <2>2, <2>3, ServiceKeys
<1>5. CASE \/ \E w \in Writers : Materialize(w) \/ FailStore(w)
           \/ StopService \/ StartService
  <2>1. \A v \in Writers : writer'[v].pc # "idle" => Under(upload'[writer'[v].obj], key)
    BY <1>i, <1>u, <1>5, EndEffect, IdleFields
  <2> QED
    BY <1>i, <1>5, <2>1, EndEffect, ServiceKeys
<1>g. CASE \/ \E new \in Keys : BeginRotation(new)
           \/ \E o \in Objects : Rewrap(o) \/ AbortRotation(o)
           \/ StopRotation \/ RecordRotation
  <2>0. (\A w \in Writers : writer'[w].pc = "idle") /\ upload' = upload
    BY <1>g, RotationEffect, IdleFields
  <2>f. IsFiniteSet(StoredObjects)
    BY StoredIsFinite
  <2>1. ASSUME NEW new \in Keys, BeginRotation(new) PROVE KeyInv'
    <3>1. /\ rotation.pc = "idle" /\ target' = target /\ key' = key /\ interrupted' = interrupted
          /\ rotation'.pc = "rewrapping" /\ rotation'.todo = StoredObjects /\ rotation'.changed = 0
      BY <2>1 DEF BeginRotation, IdleRotation
    <3>2. StoredObjects' = StoredObjects /\ Cardinality(StoredObjects \ StoredObjects) = 0
      <4>1. StoredObjects \ StoredObjects = {}
        OBVIOUS
      <4> QED
        BY <3>1, <4>1, FS_EmptySet DEF StoredObjects
    <3> QED
      BY <1>i, <2>0, <3>1, <3>2 DEF KeyInv, StoredObjects
  <2>2. ASSUME NEW o \in Objects, Rewrap(o) PROVE KeyInv'
    <3>1. /\ rotation.pc = "rewrapping" /\ o \in rotation.todo
          /\ rotation' = [rotation EXCEPT !.todo = rotation.todo \ {o}, !.changed = rotation.changed + 1]
          /\ key' = key /\ interrupted' = interrupted
      BY <2>2 DEF Rewrap, MayRewrap
    <3>2. rotation \in [pc: {"rewrapping"}, new: Keys, todo: SUBSET Objects, changed: Nat]
      BY <1>i, <3>1, Rewrapping
    <3>3. /\ rotation'.pc = "rewrapping" /\ rotation'.todo = rotation.todo \ {o}
          /\ rotation'.changed = rotation.changed + 1 /\ rotation'.new = rotation.new
      BY <3>1, <3>2
    <3>4. /\ target'[o] # NoFile /\ Whole(target'[o]) /\ target'[o][1].key = rotation.new
          /\ \A p \in Objects : p # o => target'[p] = target[p]
      BY <1>i, <2>2, Rewrapped
    <3>5. /\ rotation.todo \subseteq StoredObjects
          /\ rotation.changed = Cardinality(StoredObjects \ rotation.todo)
          /\ \A p \in StoredObjects \ rotation.todo :
                Whole(target[p]) /\ target[p][1].key = rotation.new
          /\ ~interrupted => \A p \in rotation.todo : Under(target[p], key)
      BY <1>i, <3>1 DEF KeyInv
    <3>6. StoredObjects' = StoredObjects
      BY <3>1, <3>4, <3>5 DEF StoredObjects
    <3>7. Cardinality(StoredObjects \ (rotation.todo \ {o})) = Cardinality(StoredObjects \ rotation.todo) + 1
      <4>1. rotation.todo \in SUBSET StoredObjects
        BY <3>5
      <4> QED
        BY <2>f, <3>1, <4>1, OneMoreDone
    <3>8. \A p \in StoredObjects : p \in Objects
      BY DEF StoredObjects
    <3> QED
      BY <2>0, <3>1, <3>3, <3>4, <3>5, <3>6, <3>7, <3>8 DEF KeyInv
  <2>3. ASSUME rotation.pc = "rewrapping", rotation.changed = 0, ~interrupted
        PROVE  \A o \in Objects : Under(target[o], key)
    <3>1. /\ rotation.todo \in SUBSET StoredObjects /\ Cardinality(StoredObjects \ rotation.todo) = 0
          /\ \A p \in rotation.todo : Under(target[p], key)
      BY <1>i, <2>3 DEF KeyInv
    <3>2. rotation.todo = StoredObjects
      BY <2>f, <3>1, NothingDone
    <3> QED
      BY <3>1, <3>2 DEF StoredObjects, Under
  <2>4. ASSUME StopRotation \/ \E o \in Objects : AbortRotation(o) PROVE KeyInv'
    <3>1. /\ rotation' = IdleRotation /\ rotation'.pc = "idle" /\ key' = key /\ target' = target
          /\ rotation # IdleRotation
          /\ interrupted' = (interrupted \/ rotation.changed > 0)
      BY <1>i, <2>4, Rewrapping DEF StopRotation, AbortRotation, MayRewrap, IdleRotation
    <3>2. rotation.pc = "rewrapping" /\ rotation.changed \in Nat
      BY <1>i, <3>1 DEF EnvelopeTypeOK
    <3>3. ~interrupted' => ~interrupted /\ rotation.changed = 0
      <4>1. ~interrupted' => ~interrupted /\ ~(rotation.changed > 0)
        BY <3>1, Zenon
      <4> QED
        BY <3>2, <4>1
    <3>4. ~interrupted' => \A o \in Objects : Under(target[o], key)
      BY <2>3, <3>2, <3>3
    <3> QED
      BY <2>0, <3>1, <3>4 DEF KeyInv
  <2>5. CASE RecordRotation
    <3>1. /\ rotation.pc = "rewrapping" /\ rotation.todo = {} /\ key' = rotation.new
          /\ rotation'.pc = "idle" /\ target' = target
      BY <2>5 DEF RecordRotation, IdleRotation
    <3>2. \A o \in StoredObjects : Whole(target[o]) /\ target[o][1].key = rotation.new
      BY <1>i, <3>1 DEF KeyInv
    <3>3. \A o \in Objects : Under(target[o], rotation.new)
      BY <3>2 DEF Under, Whole, StoredObjects
    <3> QED
      BY <2>0, <3>1, <3>3 DEF KeyInv
  <2> QED
    BY <1>g, <2>1, <2>2, <2>4, <2>5
<1>7. CASE UNCHANGED envelopeVars
  BY <1>i, <1>7 DEF KeyInv, envelopeVars, StoredObjects
<1> QED
  BY <1>1, <1>2, <1>3, <1>4, <1>5, <1>g, <1>7 DEF EnvelopeNext

-----------------------------------------------------------------------------
LEMMA EnvelopeInitial == EnvelopeInit => EnvelopeInv
<1> SUFFICES ASSUME EnvelopeInit PROVE EnvelopeInv
  OBVIOUS
<1>1. \A w \in Writers : writer[w] = IdleWriter
  BY DEF EnvelopeInit
<1>2. \A o \in Objects : target[o] = NoFile
  BY DEF EnvelopeInit
<1>3. running /\ rotation = IdleRotation /\ rotation.pc = "idle"
  BY DEF EnvelopeInit, IdleRotation
<1>4. EnvelopeTypeOK
  BY TypeInitial
<1>5. PhasesInv /\ HandlesInv /\ SharingInv /\ ContentsInv
  BY <1>1, <1>3, IdleFields, NoFileAssumption DEF PhasesInv, HandlesInv, SharingInv, ContentsInv, Filling
<1>6. KeyInv
  BY <1>1, <1>2, <1>3, IdleFields DEF KeyInv, Under
<1>7. OnlySharedIsTorn /\ ReadsBackItsOwn
  BY <1>1, <1>2, IdleFields DEF OnlySharedIsTorn, ReadsBackItsOwn, StoredObjects
<1> QED
  BY <1>4, <1>5, <1>6, <1>7 DEF EnvelopeInv

THEOREM EnvelopeInvariant == EnvelopeSpec => []EnvelopeInv
<1>1. EnvelopeInv /\ [EnvelopeNext]_envelopeVars => EnvelopeInv'
  BY TypePreserved, PhasesPreserved, HandlesPreserved, SharingPreserved, ContentsPreserved,
     KeyPreserved, TornPreserved, ReadBackPreserved DEF EnvelopeInv
<1> QED
  BY EnvelopeInitial, <1>1, PTL DEF EnvelopeSpec

\* The variables keep their types (security/storage.py).
THEOREM TypeCorrect == EnvelopeSpec => []EnvelopeTypeOK
<1>1. EnvelopeInv => EnvelopeTypeOK
  BY DEF EnvelopeInv
<1> QED
  BY <1>1, EnvelopeInvariant, PTL

\* Only a quarantined object that two stores wrote at once may be torn, wherever
\* the service stops and whatever fails (EnvelopeEncryptedStore.store).
THEOREM OthersAreWhole == EnvelopeSpec => []OnlySharedIsTorn
<1>1. EnvelopeInv => OnlySharedIsTorn
  BY DEF EnvelopeInv
<1> QED
  BY <1>1, EnvelopeInvariant, PTL

\* An ingestion reads back its own envelope or none (EnvelopeEncryptedStore.materialize).
THEOREM OwnEnvelopeIsRead == EnvelopeSpec => []ReadsBackItsOwn
<1>1. EnvelopeInv => ReadsBackItsOwn
  BY DEF EnvelopeInv
<1> QED
  BY <1>1, EnvelopeInvariant, PTL

\* Every whole object is readable by the running service, unless a rotation ended
\* half way (rewrap_all and rotate_keys.py).
THEOREM ObjectsAreReadable == EnvelopeSpec => []ReadableUnlessInterrupted
<1>1. ASSUME EnvelopeInv, running, ~interrupted, NEW o \in StoredObjects, Whole(target[o])
      PROVE  target[o][1].key = key
  <2>1. rotation = IdleRotation /\ rotation.pc = "idle"
    BY <1>1 DEF EnvelopeInv, PhasesInv, IdleRotation
  <2> QED
    BY <1>1, <2>1 DEF EnvelopeInv, KeyInv, Under, Whole, StoredObjects
<1>2. EnvelopeInv => ReadableUnlessInterrupted
  BY <1>1 DEF ReadableUnlessInterrupted
<1> QED
  BY <1>2, EnvelopeInvariant, PTL

\* A rotation that is recorded has rewrapped every object, and counts them
\* (rewrap_all).
THEOREM RecordsAreComplete == EnvelopeSpec => []RecordedIsComplete
<1>1. ASSUME EnvelopeInv, rotation.pc = "rewrapping", rotation.todo = {}
      PROVE  /\ rotation.changed = Cardinality(StoredObjects)
             /\ \A o \in StoredObjects : Whole(target[o]) /\ target[o][1].key = rotation.new
  <2>1. StoredObjects \ rotation.todo = StoredObjects
    BY <1>1
  <2> QED
    BY <1>1, <2>1 DEF EnvelopeInv, KeyInv
<1>2. EnvelopeInv => RecordedIsComplete
  BY <1>1 DEF RecordedIsComplete
<1> QED
  BY <1>2, EnvelopeInvariant, PTL
=============================================================================
