----------------------- MODULE OwnershipRegistryProofs -----------------------
(* Theorems about OwnershipRegistry, for any applications, documents, digests *)
(* and policies.                                                              *)
EXTENDS OwnershipRegistry, TLAPS

\* A stored record has the type of a record, whichever backend wrote it.
LEMMA StoredType ==
  ASSUME RegTypeOK, NEW a \in Apps, NEW d \in DocIds, NEW sha \in Shas,
         NEW policy \in Policies
  PROVE  Stored(a, d, sha, policy) \in DocumentRecord
BY DEF RegTypeOK, Stored, DocumentRecord

LEMMA LiveType == ASSUME NEW a \in Apps PROVE Live(a) \in SUBSET DocIds
BY DEF Live

\* What a deletion writes and answers has the right type.
LEMMA DeleteTypes ==
  ASSUME RegTypeOK, NEW a \in Apps
  PROVE  /\ RecordsAfterDelete(a) \in [Apps -> [DocIds -> DocumentRecord \cup {None}]]
         /\ ReceiptAfter(a) \in (SUBSET DocIds) \cup {None}
         /\ DeleteAnswer(a) \in SUBSET DocIds
<1>1. \A d \in DocIds : d \in Live(a) =>
        [records[a][d] EXCEPT !.state = "deleted"] \in DocumentRecord
  BY DEF RegTypeOK, Live, DocumentRecord
<1>2. [d \in DocIds |-> IF d \in Live(a) THEN [records[a][d] EXCEPT !.state = "deleted"]
                                         ELSE records[a][d]]
        \in [DocIds -> DocumentRecord \cup {None}]
  BY <1>1 DEF RegTypeOK
<1>3. RecordsAfterDelete(a) \in [Apps -> [DocIds -> DocumentRecord \cup {None}]]
  BY <1>2 DEF RegTypeOK, RecordsAfterDelete
<1>4. ReceiptAfter(a) \in (SUBSET DocIds) \cup {None}
  BY LiveType DEF RegTypeOK, ReceiptAfter
<1>5. DeleteAnswer(a) \in SUBSET DocIds
  BY <1>4, LiveType DEF DeleteAnswer
<1> QED BY <1>3, <1>4, <1>5

LEMMA InitTypes == RegInit => RegTypeOK
BY DEF RegInit, RegTypeOK, Replies

LEMMA NextTypes == RegTypeOK /\ [RegNext]_regVars => RegTypeOK'
<1> SUFFICES ASSUME RegTypeOK, [RegNext]_regVars PROVE RegTypeOK'
  OBVIOUS
<1>1. CASE UNCHANGED regVars
  BY <1>1 DEF regVars, RegTypeOK
<1>2. ASSUME NEW a \in Apps, NEW d \in DocIds, NEW sha \in Shas, NEW policy \in Policies,
             Register(a, d, sha, policy)
      PROVE  RegTypeOK'
  <2>1. RecordsAfterRegister(a, d, sha, policy)
          \in [Apps -> [DocIds -> DocumentRecord \cup {None}]]
    BY StoredType DEF RegTypeOK, RecordsAfterRegister
  <2>2. Registered(a, d, policy, TRUE) \in Replies
    BY DEF Registered, Replies
  <2> QED BY <1>2, <2>1, <2>2 DEF Register, RegTypeOK
<1>3. ASSUME NEW a \in Apps, NEW d \in DocIds, NEW sha \in Shas, NEW policy \in Policies,
             RegisterConflict(a, d, sha, policy)
      PROVE  RegTypeOK'
  <2>1. Registered(a, d, policy, FALSE) \in Replies
    BY DEF Registered, Replies
  <2> QED BY <1>3, <2>1 DEF RegisterConflict, RegTypeOK
<1>4. ASSUME NEW a \in Apps, DeleteApplication(a) PROVE RegTypeOK'
  <2>1. [receipts EXCEPT ![a] = ReceiptAfter(a)] \in [Apps -> (SUBSET DocIds) \cup {None}]
    BY DeleteTypes DEF RegTypeOK
  <2>2. [op |-> "delete", app |-> a, docs |-> DeleteAnswer(a)] \in Replies
    BY DeleteTypes DEF Replies
  <2> QED BY <1>4, <2>1, <2>2, DeleteTypes DEF DeleteApplication, RegTypeOK
<1> QED BY <1>1, <1>2, <1>3, <1>4 DEF RegNext

\* The variables keep their types: records, receipts and answers are always
\* well formed, for both backends (registry.py).
THEOREM TypeCorrect == RegSpec => []RegTypeOK
BY InitTypes, NextTypes, PTL DEF RegSpec

-----------------------------------------------------------------------------
\* One step never rebinds an identifier to other content.
LEMMA IdentityStep ==
  ASSUME RegTypeOK, [RegNext]_regVars, NEW a \in Apps, NEW d \in DocIds,
         records[a][d] # None
  PROVE  records'[a][d] # None /\ records'[a][d].sha = records[a][d].sha
<1>1. CASE UNCHANGED regVars
  BY <1>1 DEF regVars
<1>2. ASSUME NEW b \in Apps, NEW e \in DocIds, NEW sha \in Shas, NEW policy \in Policies,
             Register(b, e, sha, policy)
      PROVE  records'[a][d] # None /\ records'[a][d].sha = records[a][d].sha
  <2>1. CASE a = b /\ d = e
    <3>1. records'[a][d] = Stored(a, d, sha, policy)
      BY <1>2, <2>1 DEF Register, RecordsAfterRegister, RegTypeOK
    <3>2. records[a][d].sha = sha
      BY <1>2, <2>1 DEF Register, Conflicts
    <3>3. Stored(a, d, sha, policy).sha = sha
      BY <3>2 DEF Stored, RegTypeOK, DocumentRecord
    <3>4. Stored(a, d, sha, policy) # None
      BY StoredType, NoneAssumption
    <3> QED BY <3>1, <3>2, <3>3, <3>4
  <2>2. CASE ~ (a = b /\ d = e)
    BY <1>2, <2>2 DEF Register, RecordsAfterRegister, RegTypeOK
  <2> QED BY <2>1, <2>2
<1>3. ASSUME NEW b \in Apps, NEW e \in DocIds, NEW sha \in Shas, NEW policy \in Policies,
             RegisterConflict(b, e, sha, policy)
      PROVE  records'[a][d] # None /\ records'[a][d].sha = records[a][d].sha
  BY <1>3 DEF RegisterConflict
<1>4. ASSUME NEW b \in Apps, DeleteApplication(b)
      PROVE  records'[a][d] # None /\ records'[a][d].sha = records[a][d].sha
  <2>1. records'[a][d] = records[a][d]
          \/ records'[a][d] = [records[a][d] EXCEPT !.state = "deleted"]
    BY <1>4 DEF DeleteApplication, RecordsAfterDelete, RegTypeOK
  <2>2. [records[a][d] EXCEPT !.state = "deleted"] \in DocumentRecord
    BY DEF RegTypeOK, DocumentRecord
  <2>3. [records[a][d] EXCEPT !.state = "deleted"].sha = records[a][d].sha
    BY DEF RegTypeOK, DocumentRecord
  <2> QED BY <2>1, <2>2, <2>3, NoneAssumption
<1> QED BY <1>1, <1>2, <1>3, <1>4 DEF RegNext

\* Content behind an identifier is permanent for both backends: neither a
\* deletion nor a later registration rebinds it.
THEOREM IdentityPermanent == RegSpec => IdentityIsPermanent
<1>1. RegTypeOK /\ [RegNext]_regVars =>
        [\A a \in Apps, d \in DocIds :
           records[a][d] # None =>
             records'[a][d] # None /\ records'[a][d].sha = records[a][d].sha]_regVars
  BY IdentityStep
<1> QED BY <1>1, TypeCorrect, PTL DEF RegSpec, IdentityIsPermanent

-----------------------------------------------------------------------------
\* A deletion revokes everything, names what it revoked, and touches no other
\* application.
LEMMA DeleteStep ==
  ASSUME RegTypeOK, NEW a \in Apps, DeleteApplication(a)
  PROVE  /\ Live(a) \subseteq reply'.docs
         /\ \A d \in DocIds, p \in Policies : ~ IsOwned(a, d, p)'
         /\ \A b \in Apps \ {a}, d \in DocIds, p \in Policies :
              IsOwned(b, d, p)' <=> IsOwned(b, d, p)
<1>1. Live(a) \subseteq reply'.docs
  BY DEF DeleteApplication, DeleteAnswer
<1>2. ASSUME NEW d \in DocIds, NEW p \in Policies, IsOwned(a, d, p)' PROVE FALSE
  <2>1. CASE d \in Live(a)
    <3>1. records'[a][d] = [records[a][d] EXCEPT !.state = "deleted"]
      BY <2>1 DEF DeleteApplication, RecordsAfterDelete, RegTypeOK
    <3>2. records'[a][d].state = "deleted"
      BY <2>1, <3>1 DEF Live, RegTypeOK, DocumentRecord
    <3> QED BY <1>2, <3>2 DEF IsOwned
  <2>2. CASE d \notin Live(a)
    <3>1. records'[a][d] = records[a][d]
      BY <2>2 DEF DeleteApplication, RecordsAfterDelete, RegTypeOK
    <3> QED BY <1>2, <2>2, <3>1 DEF IsOwned, Live
  <2> QED BY <2>1, <2>2
<1>3. ASSUME NEW b \in Apps \ {a}, NEW d \in DocIds, NEW p \in Policies
      PROVE  IsOwned(b, d, p)' <=> IsOwned(b, d, p)
  BY DEF IsOwned, DeleteApplication, RecordsAfterDelete, RegTypeOK
<1> QED BY <1>1, <1>2, <1>3

\* Deleting an application is complete, is named, and is confined to it, for
\* both backends.
THEOREM DeletionRevokes == RegSpec => DeleteRevokesAndNames
<1>1. RegTypeOK /\ [RegNext]_regVars =>
        [\A a \in Apps : DeleteApplication(a) =>
           /\ Live(a) \subseteq reply'.docs
           /\ \A d \in DocIds, p \in Policies : ~ IsOwned(a, d, p)'
           /\ \A b \in Apps \ {a}, d \in DocIds, p \in Policies :
                IsOwned(b, d, p)' <=> IsOwned(b, d, p)]_regVars
  BY DeleteStep
<1> QED BY <1>1, TypeCorrect, PTL DEF RegSpec, DeleteRevokesAndNames

-----------------------------------------------------------------------------
(* The memory registry implements the contract.  The step that needs an        *)
(* invariant is a deletion that follows a deletion: its answer comes from the   *)
(* stored receipt, which must be what the first one answered.                   *)

ReceiptDocs(a) == IF receipts[a] = None THEN {} ELSE receipts[a]

\* After a deletion nothing is live and the answer can be read back.
ReceiptMatches ==
  \A a \in Apps : reply # None /\ reply.op = "delete" /\ reply.app = a =>
    Live(a) = {} /\ reply.docs = ReceiptDocs(a)

LEMMA NoneLiveAfterDelete ==
  ASSUME RegTypeOK, NEW a \in Apps, DeleteApplication(a)
  PROVE  Live(a)' = {}
<1> SUFFICES ASSUME NEW d \in DocIds, records'[a][d] # None,
                    records'[a][d].state # "deleted"
             PROVE  FALSE
  BY DEF Live
<1>1. CASE d \in Live(a)
  <2>1. records'[a][d] = [records[a][d] EXCEPT !.state = "deleted"]
    BY <1>1 DEF DeleteApplication, RecordsAfterDelete, RegTypeOK
  <2> QED BY <1>1, <2>1 DEF Live, RegTypeOK, DocumentRecord
<1>2. CASE d \notin Live(a)
  <2>1. records'[a][d] = records[a][d]
    BY <1>2 DEF DeleteApplication, RecordsAfterDelete, RegTypeOK
  <2> QED BY <1>2, <2>1 DEF Live
<1> QED BY <1>1, <1>2

LEMMA ReceiptStep ==
  ASSUME Backend = "memory", RegTypeOK, ReceiptMatches, [RegNext]_regVars
  PROVE  ReceiptMatches'
<1>1. CASE UNCHANGED regVars
  BY <1>1 DEF regVars, ReceiptMatches, ReceiptDocs, Live
<1>2. CASE \E a \in Apps, d \in DocIds, sha \in Shas, policy \in Policies :
             Register(a, d, sha, policy) \/ RegisterConflict(a, d, sha, policy)
  <2>1. reply'.op = "register"
    BY <1>2 DEF Register, RegisterConflict, Registered
  <2> QED BY <2>1 DEF ReceiptMatches
<1>3. ASSUME NEW a \in Apps, DeleteApplication(a) PROVE ReceiptMatches'
  <2>1. reply'.app = a
    BY <1>3 DEF DeleteApplication
  <2>2. Live(a)' = {}
    BY <1>3, NoneLiveAfterDelete
  <2>3. receipts'[a] = ReceiptAfter(a)
    BY <1>3 DEF DeleteApplication, RegTypeOK
  <2>4. reply'.docs = DeleteAnswer(a)
    BY <1>3 DEF DeleteApplication
  <2>5. Live(a) # None
    BY NoneAssumption, LiveType
  <2>6. DeleteAnswer(a) = ReceiptDocs(a)'
    BY <2>3, <2>5 DEF DeleteAnswer, ReceiptAfter, ReceiptDocs
  <2> QED BY <2>1, <2>2, <2>4, <2>6 DEF ReceiptMatches
<1> QED BY <1>1, <1>2, <1>3 DEF RegNext

LEMMA ReceiptInvariant ==
  ASSUME Backend = "memory" PROVE RegSpec => []ReceiptMatches
<1>1. RegInit => ReceiptMatches
  BY DEF RegInit, ReceiptMatches
<1>2. RegTypeOK /\ ReceiptMatches /\ [RegNext]_regVars => ReceiptMatches'
  BY ReceiptStep
<1> QED BY <1>1, <1>2, TypeCorrect, PTL DEF RegSpec

OwnedFunction == [a \in Apps |-> OwnedPairs(a)]
BoundFunction == [a \in Apps |-> [d \in DocIds |->
                    IF records[a][d] = None THEN None ELSE records[a][d].sha]]

\* Initially nothing is owned and nothing is bound.
LEMMA ContractInit == RegInit => Contract!Init
<1> SUFFICES ASSUME RegInit PROVE Contract!Init
  OBVIOUS
<1>1. \A a \in Apps, d \in DocIds : records[a][d] = None
  BY DEF RegInit
<1>2. \A a \in Apps : OwnedPairs(a) = {}
  BY <1>1 DEF OwnedPairs
<1>3. OwnedFunction = [a \in Apps |-> {}]
  BY <1>2 DEF OwnedFunction
<1>4. BoundFunction = [a \in Apps |-> [d \in DocIds |-> None]]
  BY <1>1 DEF BoundFunction
<1> QED BY <1>3, <1>4 DEF RegInit, Contract!Init, OwnedFunction, BoundFunction

\* Registering changes ownership of that document only.
LEMMA ContractRegister ==
  ASSUME Backend = "memory", RegTypeOK,
         NEW a \in Apps, NEW d \in DocIds, NEW sha \in Shas, NEW policy \in Policies,
         Register(a, d, sha, policy)
  PROVE  Contract!Register(a, d, sha, policy)
<1> DEFINE new == [sha |-> sha, state |-> "active", policy |-> policy]
<1>1. records' = [records EXCEPT ![a][d] = new]
  BY DEF Register, RecordsAfterRegister, Stored
<1>2. new # None
  BY NoneAssumption DEF DocumentRecord
<1>3. \A b \in Apps, e \in DocIds :
        records'[b][e] = IF b = a /\ e = d THEN new ELSE records[b][e]
  BY <1>1 DEF RegTypeOK
<1> HIDE DEF new
<1>a. new.sha = sha /\ new.state = "active" /\ new.policy = policy
  BY DEF new
<1>4. BoundFunction[a][d] \in {None, sha}
  BY DEF BoundFunction, Register, Conflicts
<1>5. BoundFunction' = [BoundFunction EXCEPT ![a][d] = sha]
  <2>1. \A b \in Apps : BoundFunction'[b] = [e \in DocIds |->
          IF b = a /\ e = d THEN sha ELSE BoundFunction[b][e]]
    BY <1>3, <1>2, <1>a DEF BoundFunction
  <2>2. \A b \in Apps \ {a} : BoundFunction'[b] = BoundFunction[b]
    BY <2>1 DEF BoundFunction
  <2>3. BoundFunction'[a] = [BoundFunction[a] EXCEPT ![d] = sha]
    BY <2>1 DEF BoundFunction
  <2> QED BY <2>2, <2>3 DEF BoundFunction
<1>6. \A b \in Apps \ {a} : OwnedPairs(b)' = OwnedPairs(b)
  BY <1>3 DEF OwnedPairs
<1>7. OwnedPairs(a)' = {o \in OwnedPairs(a) : o[1] # d} \cup {<<d, policy>>}
  BY <1>3, <1>2, <1>a DEF OwnedPairs
<1>8. OwnedFunction' =
        [OwnedFunction EXCEPT ![a] = {o \in OwnedFunction[a] : o[1] # d} \cup {<<d, policy>>}]
  BY <1>6, <1>7 DEF OwnedFunction
<1>9. reply' = [op |-> "register", app |-> a, doc |-> d, policy |-> policy, ok |-> TRUE]
  BY DEF Register, Registered
<1> QED BY <1>4, <1>5, <1>8, <1>9 DEF Contract!Register, OwnedFunction, BoundFunction

LEMMA ContractRefuse ==
  ASSUME RegTypeOK,
         NEW a \in Apps, NEW d \in DocIds, NEW sha \in Shas, NEW policy \in Policies,
         RegisterConflict(a, d, sha, policy)
  PROVE  Contract!Refuse(a, d, sha, policy)
<1>1. records' = records
  BY DEF RegisterConflict
<1>2. BoundFunction' = BoundFunction /\ OwnedFunction' = OwnedFunction
  BY <1>1 DEF BoundFunction, OwnedFunction, OwnedPairs
<1>3. BoundFunction[a][d] \notin {None, sha}
  BY NoneAssumption DEF BoundFunction, RegisterConflict, Conflicts, RegTypeOK, DocumentRecord
<1>4. reply' = [op |-> "register", app |-> a, doc |-> d, policy |-> policy, ok |-> FALSE]
  BY DEF RegisterConflict, Registered
<1> QED BY <1>2, <1>3, <1>4 DEF Contract!Refuse, OwnedFunction, BoundFunction

\* Deleting names what was owned and repeats the answer of a deletion before it.
LEMMA ContractDelete ==
  ASSUME Backend = "memory", RegTypeOK, ReceiptMatches, NEW a \in Apps,
         DeleteApplication(a)
  PROVE  Contract!Delete(a)
<1>1. DeleteAnswer(a) \in SUBSET DocIds
  BY DeleteTypes
<1>2. {o[1] : o \in OwnedFunction[a]} \subseteq DeleteAnswer(a)
  <2>1. {o[1] : o \in OwnedPairs(a)} \subseteq Live(a)
    BY DEF OwnedPairs, Live
  <2>2. Live(a) \subseteq DeleteAnswer(a)
    BY DEF DeleteAnswer
  <2> QED BY <2>1, <2>2 DEF OwnedFunction
<1>3. Contract!Repeats(a) => DeleteAnswer(a) = reply.docs
  BY DEF Contract!Repeats, ReceiptMatches, ReceiptDocs, DeleteAnswer, ReceiptAfter
<1>4. \A b \in Apps, d \in DocIds :
        records'[b][d] = IF b = a /\ d \in Live(a)
                           THEN [records[b][d] EXCEPT !.state = "deleted"]
                           ELSE records[b][d]
  BY DEF DeleteApplication, RecordsAfterDelete, RegTypeOK
<1>5. \A b \in Apps \ {a} : OwnedPairs(b)' = OwnedPairs(b)
  BY <1>4 DEF OwnedPairs
<1>6. OwnedPairs(a)' = {}
  <2>1. Live(a)' = {}
    BY NoneLiveAfterDelete
  <2> QED BY <2>1 DEF OwnedPairs, Live
<1>7. OwnedFunction' = [OwnedFunction EXCEPT ![a] = {}]
  BY <1>5, <1>6 DEF OwnedFunction
<1>8. BoundFunction' = BoundFunction
  <2>1. \A b \in Apps, d \in DocIds :
          (records'[b][d] = None <=> records[b][d] = None)
          /\ (records[b][d] # None => records'[b][d].sha = records[b][d].sha)
    <3> TAKE b \in Apps, d \in DocIds
    <3>1. CASE b = a /\ d \in Live(a)
      <4>1. records'[b][d] = [records[b][d] EXCEPT !.state = "deleted"]
        BY <3>1, <1>4
      <4>2. records[b][d] \in DocumentRecord
        BY <3>1 DEF RegTypeOK, Live
      <4>3. records'[b][d] \in DocumentRecord /\ records'[b][d].sha = records[b][d].sha
        BY <4>1, <4>2 DEF DocumentRecord
      <4> QED BY <4>2, <4>3, NoneAssumption
    <3>2. CASE ~ (b = a /\ d \in Live(a))
      BY <3>2, <1>4
    <3> QED BY <3>1, <3>2
  <2> QED BY <2>1 DEF BoundFunction
<1>9. reply' = [op |-> "delete", app |-> a, docs |-> DeleteAnswer(a)]
  BY DEF DeleteApplication
<1> QED BY <1>1, <1>2, <1>3, <1>7, <1>8, <1>9
        DEF Contract!Delete, OwnedFunction, BoundFunction

\* The in-memory registry keeps every promise of the protocol, for any number of
\* applications, documents, digests and policies.
THEOREM MemoryImplementsContract ==
  ASSUME Backend = "memory" PROVE RegSpec => ImplementsContract
<1>1. RegTypeOK /\ ReceiptMatches /\ [RegNext]_regVars
        => [Contract!Next]_(Contract!contractVars)
  <2> SUFFICES ASSUME RegTypeOK, ReceiptMatches, [RegNext]_regVars
               PROVE  [Contract!Next]_(Contract!contractVars)
    OBVIOUS
  <2>1. CASE UNCHANGED regVars
    BY <2>1 DEF regVars, Contract!contractVars, OwnedPairs
  <2>2. ASSUME NEW a \in Apps, NEW d \in DocIds, NEW sha \in Shas, NEW policy \in Policies,
               Register(a, d, sha, policy) \/ RegisterConflict(a, d, sha, policy)
        PROVE  Contract!Next
    BY <2>2, ContractRegister, ContractRefuse DEF Contract!Next
  <2>3. ASSUME NEW a \in Apps, DeleteApplication(a) PROVE Contract!Next
    BY <2>3, ContractDelete DEF Contract!Next
  <2> QED BY <2>1, <2>2, <2>3 DEF RegNext
<1> QED BY <1>1, ContractInit, ReceiptInvariant, TypeCorrect, PTL
        DEF RegSpec, ImplementsContract, Contract!Spec
=============================================================================
