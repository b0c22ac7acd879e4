---------------------------- MODULE EnvelopeStore ----------------------------
(***************************************************************************)
(* The files of the encrypted document store (security/storage.py): what   *)
(* concurrent stores, deletions, stops of the service and key rotations    *)
(* leave in them.  A file is written in two parts, so that an interrupted  *)
(* or interleaved write is seen: an envelope whose parts come from         *)
(* different writes fails its authentication and cannot be read.           *)
(*                                                                         *)
(* The service keeps a handle on a file it writes: the handle follows the  *)
(* file when it is renamed and survives its removal.  An active object is  *)
(* stored under the ingestion lock; quarantined ones are stored without    *)
(* it.  The key rotation is a program of its own, run while the service is *)
(* down; its temporary file is read by nobody, so rewrapping an object is  *)
(* one step.  Nonces, encodings and the path checks are left out.          *)
(***************************************************************************)
EXTENDS Naturals, FiniteSets

CONSTANTS
  Objects,      \* the documents of one application, in either state
  Quarantined,  \* the objects whose state is "quarantined"; the others are active
  Writers,      \* threads of the service that store documents
  Keys,         \* versions of the master key
  NoFile

ASSUME ObjectAssumption == Quarantined \subseteq Objects /\ IsFiniteSet(Objects)
\* A file has two parts, each written by one store or not at all.
Part == [by: Writers, key: Keys] \cup {NoFile}
Parts == [1..2 -> Part]
File == Parts \cup {NoFile}

ASSUME NoFileAssumption ==
  NoFile \notin Objects \cup Keys \cup [by: Writers, key: Keys] \cup Parts

VARIABLES
  running,      \* the service is up
  key,          \* the master key in the service's secret file
  upload,       \* upload[o]: the two parts of .<document>.enc.upload, or NoFile
  target,       \* target[o]: the two parts of <document>.enc.json, or NoFile
  writer,       \* writer[w]: where the store call of w stands
  rotation,     \* where the rotation program stands
  interrupted,  \* history: a rotation ended half way
  shared        \* history: shared[o]: o was put there while two stores of it overlapped

envelopeVars == <<running, key, upload, target, writer, rotation, interrupted, shared>>

Blank == <<NoFile, NoFile>>
IdleWriter == [pc |-> "idle", obj |-> NoFile, file |-> "gone", sharing |-> FALSE]
IdleRotation == [pc |-> "idle", new |-> NoFile, todo |-> {}, changed |-> 0]

EnvelopeInit ==
  /\ running = TRUE
  /\ key \in Keys
  /\ upload = [o \in Objects |-> NoFile]
  /\ target = [o \in Objects |-> NoFile]
  /\ writer = [w \in Writers |-> IdleWriter]
  /\ rotation = IdleRotation
  /\ interrupted = FALSE
  /\ shared = [o \in Objects |-> FALSE]

-----------------------------------------------------------------------------
(* store and materialize.                                                    *)

\* Every envelope has a data key of its own: parts of different writes differ.
VersionOf(w) == [by |-> w, key |-> key]
Put(file, part, value) == [file EXCEPT ![part] = value]

Storing(o) == {w \in Writers : writer[w].obj = o}

\* Mutant: active documents are stored without the ingestion lock.
MayStore_Unlocked(w, o) == writer[w] = IdleWriter
MayStore(w, o) ==
  /\ writer[w] = IdleWriter
  /\ o \notin Quarantined =>
       \A v \in Writers : writer[v].obj \in Quarantined \cup {NoFile}

\* Opening the temporary file truncates the one another store is writing.
Open(w, o) ==
  /\ running
  /\ MayStore(w, o)
  /\ upload' = [upload EXCEPT ![o] = Blank]
  /\ writer' = [v \in Writers |->
       IF v = w
         THEN [pc |-> "first", obj |-> o, file |-> "upload", sharing |-> Storing(o) # {}]
         ELSE [writer[v] EXCEPT !.sharing = @ \/ v \in Storing(o)]]
  /\ UNCHANGED <<running, key, target, rotation, interrupted, shared>>

\* One part is written to the file the handle is on, wherever that is by now.
WritePart(w, part, next) ==
  LET o == writer[w].obj IN
  /\ upload' = IF writer[w].file = "upload"
                 THEN [upload EXCEPT ![o] = Put(@, part, VersionOf(w))] ELSE upload
  /\ target' = IF writer[w].file = "target"
                 THEN [target EXCEPT ![o] = Put(@, part, VersionOf(w))] ELSE target
  /\ writer' = [writer EXCEPT ![w].pc = next]
  /\ UNCHANGED <<running, key, rotation, interrupted, shared>>

WriteFirst(w) == writer[w].pc = "first" /\ WritePart(w, 1, "second")
WriteSecond(w) == writer[w].pc = "second" /\ WritePart(w, 2, "written")

\* Where the handles on the files of o are after one is moved over the other.
Renamed(o, v) ==
  IF writer[v].obj # o THEN writer[v].file
  ELSE IF writer[v].file = "upload" THEN "target" ELSE "gone"

\* Mutant: the file may be moved before all of it is written.
Replace_Early(w) ==
  LET o == writer[w].obj IN
  /\ writer[w].pc \in {"second", "written"}
  /\ upload[o] # NoFile
  /\ target' = [target EXCEPT ![o] = upload[o]]
  /\ upload' = [upload EXCEPT ![o] = NoFile]
  /\ shared' = [shared EXCEPT ![o] = writer[w].sharing]
  /\ writer' = [v \in Writers |->
       IF v # w THEN [writer[v] EXCEPT !.file = Renamed(o, v)]
       ELSE IF o \in Quarantined THEN IdleWriter
       ELSE [writer[w] EXCEPT !.pc = "stored", !.file = "gone"]]
  /\ UNCHANGED <<running, key, rotation, interrupted>>

\* The complete temporary file becomes the object.  Whatever file has its name
\* by now is moved; if there is none the call raises (FailStore).  An ingestion
\* reads the active object back, a quarantined one is left there.
Replace(w) ==
  LET o == writer[w].obj IN
  /\ writer[w].pc = "written"
  /\ upload[o] # NoFile
  /\ target' = [target EXCEPT ![o] = upload[o]]
  /\ upload' = [upload EXCEPT ![o] = NoFile]
  /\ shared' = [shared EXCEPT ![o] = writer[w].sharing]
  /\ writer' = [v \in Writers |->
       IF v # w THEN [writer[v] EXCEPT !.file = Renamed(o, v)]
       ELSE IF o \in Quarantined THEN IdleWriter
       ELSE [writer[w] EXCEPT !.pc = "stored", !.file = "gone"]]
  /\ UNCHANGED <<running, key, rotation, interrupted>>

\* The stored object is decrypted for the parser, or is not there to be read.
Materialize(w) ==
  /\ writer[w].pc = "stored"
  /\ writer' = [writer EXCEPT ![w] = IdleWriter]
  /\ UNCHANGED <<running, key, upload, target, rotation, interrupted, shared>>

\* A file operation raises: the temporary file stays as it is.
FailStore(w) ==
  /\ writer[w].pc \in {"first", "second", "written"}
  /\ writer' = [writer EXCEPT ![w] = IdleWriter]
  /\ UNCHANGED <<running, key, upload, target, rotation, interrupted, shared>>

-----------------------------------------------------------------------------
(* delete_application, and the service going down and coming up.             *)

\* rmtree of one state's folder: every file, or some when it raises or stops.
RemoveFolder(folder, uploads, targets) ==
  /\ running
  /\ uploads \cup targets \subseteq folder
  /\ upload' = [o \in Objects |-> IF o \in uploads THEN NoFile ELSE upload[o]]
  /\ target' = [o \in Objects |-> IF o \in targets THEN NoFile ELSE target[o]]
  /\ writer' = [w \in Writers |->
       IF \/ writer[w].file = "upload" /\ writer[w].obj \in uploads
          \/ writer[w].file = "target" /\ writer[w].obj \in targets
         THEN [writer[w] EXCEPT !.file = "gone"] ELSE writer[w]]
  /\ UNCHANGED <<running, key, rotation, interrupted, shared>>

StopService ==
  /\ running
  /\ running' = FALSE
  /\ writer' = [w \in Writers |-> IdleWriter]
  /\ UNCHANGED <<key, upload, target, rotation, interrupted, shared>>

StartService ==
  /\ ~ running
  /\ rotation = IdleRotation
  /\ running' = TRUE
  /\ UNCHANGED <<key, upload, target, writer, rotation, interrupted, shared>>

-----------------------------------------------------------------------------
(* rewrap_all and the rotation program around it.                            *)

Whole(file) == file[1] = file[2] /\ file[1] # NoFile
StoredObjects == {o \in Objects : target[o] # NoFile}

BeginRotation(new) ==
  /\ ~ running
  /\ rotation = IdleRotation
  /\ new # key
  /\ rotation' = [pc |-> "rewrapping", new |-> new, todo |-> StoredObjects, changed |-> 0]
  /\ UNCHANGED <<running, key, upload, target, writer, interrupted, shared>>

\* Active objects go first; the data key is unwrapped under the old master key.
Readable(o) == Whole(target[o]) /\ target[o][1].key = key
MayRewrap(o) ==
  /\ rotation.pc = "rewrapping"
  /\ o \in rotation.todo
  /\ o \in Quarantined => rotation.todo \subseteq Quarantined

Rewrap(o) ==
  /\ MayRewrap(o)
  /\ Readable(o)
  /\ target' = [target EXCEPT ![o] = [i \in 1..2 |-> [@[i] EXCEPT !.key = rotation.new]]]
  /\ rotation' = [rotation EXCEPT !.todo = @ \ {o}, !.changed = @ + 1]
  /\ UNCHANGED <<running, key, upload, writer, interrupted, shared>>

\* Mutant: an object that cannot be unwrapped is passed over.
AbortRotation_Skips(o) ==
  /\ MayRewrap(o)
  /\ ~ Readable(o)
  /\ rotation' = [rotation EXCEPT !.todo = @ \ {o}]
  /\ UNCHANGED <<running, key, upload, target, writer, interrupted, shared>>

\* An object that cannot be unwrapped raises and ends the program.
AbortRotation(o) ==
  /\ MayRewrap(o)
  /\ ~ Readable(o)
  /\ rotation' = IdleRotation
  /\ interrupted' = (interrupted \/ rotation.changed > 0)
  /\ UNCHANGED <<running, key, upload, target, writer, shared>>

\* The program is stopped, or cannot record what it did.
StopRotation ==
  /\ rotation # IdleRotation
  /\ rotation' = IdleRotation
  /\ interrupted' = (interrupted \/ rotation.changed > 0)
  /\ UNCHANGED <<running, key, upload, target, writer, shared>>

\* Mutant: the event is recorded before the last object is rewrapped.
RecordRotation_Early ==
  /\ rotation.pc = "rewrapping"
  /\ Cardinality(rotation.todo) <= 1
  /\ key' = rotation.new
  /\ rotation' = IdleRotation
  /\ interrupted' = FALSE
  /\ UNCHANGED <<running, upload, target, writer, shared>>

\* The event is inserted with the count (findociq.key_rotation_events, which nothing
\* reads); the operator puts the new key in the secret file.
RecordRotation ==
  /\ rotation.pc = "rewrapping"
  /\ rotation.todo = {}
  /\ key' = rotation.new
  /\ rotation' = IdleRotation
  /\ interrupted' = FALSE
  /\ UNCHANGED <<running, upload, target, writer, shared>>

EnvelopeNext ==
  \/ \E w \in Writers :
       \/ \E o \in Objects : Open(w, o)
       \/ WriteFirst(w) \/ WriteSecond(w) \/ Replace(w) \/ Materialize(w) \/ FailStore(w)
  \/ \E folder \in {Quarantined, Objects \ Quarantined} :
       \E uploads, targets \in SUBSET folder : RemoveFolder(folder, uploads, targets)
  \/ StopService \/ StartService
  \/ \E new \in Keys : BeginRotation(new)
  \/ \E o \in Objects : Rewrap(o) \/ AbortRotation(o)
  \/ StopRotation \/ RecordRotation

EnvelopeSpec == EnvelopeInit /\ [][EnvelopeNext]_envelopeVars

-----------------------------------------------------------------------------
(* Properties.                                                               *)

EnvelopeTypeOK ==
  /\ running \in BOOLEAN /\ key \in Keys /\ interrupted \in BOOLEAN
  /\ upload \in [Objects -> File] /\ target \in [Objects -> File]
  /\ writer \in [Writers ->
       [pc: {"idle", "first", "second", "written", "stored"}, obj: Objects \cup {NoFile},
        file: {"upload", "target", "gone"}, sharing: BOOLEAN]]
  /\ \A w \in Writers : (writer[w].pc = "idle") <=> writer[w].obj = NoFile
  /\ \/ rotation = IdleRotation
     \/ rotation \in [pc: {"rewrapping"}, new: Keys, todo: SUBSET Objects, changed: Nat]
  /\ shared \in [Objects -> BOOLEAN]

\* An object is whole wherever the service stops, whatever call fails and whoever
\* deletes at the same time, except a quarantined one that two stores wrote at
\* once: those share one temporary file.
OnlySharedIsTorn ==
  \A o \in StoredObjects : ~ Whole(target[o]) => o \in Quarantined /\ shared[o]

\* An ingestion that reads back the object it has stored finds its own envelope
\* under the key in force, or finds it deleted.
ReadsBackItsOwn ==
  \A w \in Writers : writer[w].pc = "stored" /\ writer[w].obj \in StoredObjects =>
    /\ Whole(target[writer[w].obj])
    /\ target[writer[w].obj][1] = VersionOf(w)

\* The service can read every whole object it has, through any number of
\* rotations, unless one of them was interrupted.
ReadableUnlessInterrupted ==
  running /\ ~ interrupted =>
    \A o \in StoredObjects : Whole(target[o]) => target[o][1].key = key

\* When a rotation is ready to be recorded, its count is the number of objects and
\* all of them are under the new key - failed and repeated rotations before it
\* included.
RecordedIsComplete ==
  rotation.pc = "rewrapping" /\ rotation.todo = {} =>
    /\ rotation.changed = Cardinality(StoredObjects)
    /\ \A o \in StoredObjects : Whole(target[o]) /\ target[o][1].key = rotation.new
=============================================================================
