------------------------- MODULE OwnershipRegistry -------------------------
(***************************************************************************)
(* The registry of documents an application owns                           *)
(* (src/findociq/security/registry.py): InMemoryDocumentRegistry           *)
(* ("memory") and PostgresSecurityStore ("postgres").  One step is one     *)
(* call: the memory registry holds its lock for the whole method, and the  *)
(* Postgres registry runs each method in one transaction, whose row locks  *)
(* make a second deletion wait for the first.                              *)
(*                                                                         *)
(* Left out: retained_until, which no operation reads back, and the        *)
(* states "quarantined" and "retention_pending" of the table's CHECK,      *)
(* which no code writes.                                                   *)
(***************************************************************************)
EXTENDS FiniteSets

CONSTANTS
  Apps,       \* application identifiers
  DocIds,     \* document identifiers
  Shas,       \* content digests
  Policies,   \* guardrail policy hashes
  Backend,    \* "memory" or "postgres"
  None        \* no record, no stored receipt, no reply

ASSUME BackendAssumption == Backend \in {"memory", "postgres"}
VARIABLES
  records,    \* records[a][d]: the row of document d for application a, or None
  receipts,   \* receipts[a]: the stored deletion receipt of a, or None
  reply       \* what the last call answered

regVars == <<records, receipts, reply>>

DocumentRecord == [sha: Shas, state: {"active", "deleted"}, policy: Policies]

ASSUME NoneAssumption == /\ None \notin Shas
                         /\ \A docs \in SUBSET DocIds : docs # None
                         /\ \A r \in DocumentRecord : r # None

Replies ==
  [op: {"register"}, app: Apps, doc: DocIds, policy: Policies, ok: BOOLEAN]
    \cup [op: {"delete"}, app: Apps, docs: SUBSET DocIds]
    \cup {None}

-----------------------------------------------------------------------------
(* What a call reads. *)

\* Mutant: a deleted record no longer guards the identity.
Conflicts_OnlyActive(a, d, sha) ==
  records[a][d] # None /\ records[a][d].state = "active" /\ records[a][d].sha # sha
Conflicts(a, d, sha) == records[a][d] # None /\ records[a][d].sha # sha

IsOwned(a, d, policy) ==
  /\ records[a][d] # None
  /\ records[a][d].state = "active"
  /\ records[a][d].policy = policy

\* owns() is false for an empty tuple of documents.
Owns(a, docs, policy) == docs # {} /\ \A d \in docs : IsOwned(a, d, policy)

Live(a) == {d \in DocIds : records[a][d] # None /\ records[a][d].state # "deleted"}

-----------------------------------------------------------------------------
(* What a call writes. *)

\* The memory registry replaces the record.  The Postgres upsert sets only
\* state and retained_until: the row keeps the policy hash it was inserted with.
Stored(a, d, sha, policy) ==
  IF Backend = "postgres" /\ records[a][d] # None
    THEN [records[a][d] EXCEPT !.state = "active"]
    ELSE [sha |-> sha, state |-> "active", policy |-> policy]

RecordsAfterRegister(a, d, sha, policy) ==
  [records EXCEPT ![a][d] = Stored(a, d, sha, policy)]

RecordsAfterDelete(a) ==
  [records EXCEPT ![a] =
    [d \in DocIds |-> IF d \in Live(a) THEN [records[a][d] EXCEPT !.state = "deleted"]
                                       ELSE records[a][d]]]

\* Mutant: an empty deletion overwrites the receipt too.
ReceiptAfter_Always(a) == Live(a)

\* The memory registry overwrites the receipt whenever something was deleted;
\* Postgres inserts it once and does nothing on conflict.
ReceiptAfter(a) ==
  IF Backend = "postgres"
    THEN IF receipts[a] = None THEN Live(a) ELSE receipts[a]
    ELSE IF Live(a) # {} THEN Live(a) ELSE receipts[a]

\* The deleted documents, or else the stored receipt; no receipt reads as ().
DeleteAnswer(a) ==
  IF Live(a) # {} THEN Live(a)
  ELSE IF ReceiptAfter(a) = None THEN {} ELSE ReceiptAfter(a)

-----------------------------------------------------------------------------
(* The calls. *)

Registered(a, d, policy, ok) ==
  [op |-> "register", app |-> a, doc |-> d, policy |-> policy, ok |-> ok]

Register(a, d, sha, policy) ==
  /\ ~ Conflicts(a, d, sha)
  /\ records' = RecordsAfterRegister(a, d, sha, policy)
  /\ reply' = Registered(a, d, policy, TRUE)
  /\ UNCHANGED receipts

RegisterConflict(a, d, sha, policy) ==
  /\ Conflicts(a, d, sha)
  /\ reply' = Registered(a, d, policy, FALSE)
  /\ UNCHANGED <<records, receipts>>

DeleteApplication(a) ==
  /\ records' = RecordsAfterDelete(a)
  /\ receipts' = [receipts EXCEPT ![a] = ReceiptAfter(a)]
  /\ reply' = [op |-> "delete", app |-> a, docs |-> DeleteAnswer(a)]

RegInit ==
  /\ records = [a \in Apps |-> [d \in DocIds |-> None]]
  /\ receipts = [a \in Apps |-> None]
  /\ reply = None

RegNext ==
  \E a \in Apps :
    \/ \E d \in DocIds, sha \in Shas, policy \in Policies :
         Register(a, d, sha, policy) \/ RegisterConflict(a, d, sha, policy)
    \/ DeleteApplication(a)

RegSpec == RegInit /\ [][RegNext]_regVars

-----------------------------------------------------------------------------
RegTypeOK ==
  /\ records \in [Apps -> [DocIds -> DocumentRecord \cup {None}]]
  /\ receipts \in [Apps -> (SUBSET DocIds) \cup {None}]
  /\ reply \in Replies

\* A document that was just registered is owned under the policy it was
\* registered with (register() answered without an error, owns() is asked next).
RegisteredIsOwned ==
  reply # None /\ reply.op = "register" /\ reply.ok
    => Owns(reply.app, {reply.doc}, reply.policy)

\* Content behind an identifier never changes, not even across a deletion and
\* a re-registration: whatever was once bound stays bound to the same digest.
IdentityIsPermanent ==
  [][\A a \in Apps, d \in DocIds :
       records[a][d] # None =>
         records'[a][d] # None /\ records'[a][d].sha = records[a][d].sha]_regVars

\* A deletion whose answer was lost can be repeated: with no call in between,
\* the second deletion of the same application answers what the first one did.
RepeatedDeleteRepeatsAnswer ==
  [][reply # None /\ reply.op = "delete" /\ reply' # None /\ reply'.op = "delete"
       /\ reply'.app = reply.app
         => reply'.docs = reply.docs]_regVars

\* A deletion names every document that was live and leaves nothing of the
\* application owned under any policy, and nothing of another application is
\* gained or lost.
DeleteRevokesAndNames ==
  [][\A a \in Apps : DeleteApplication(a) =>
       /\ Live(a) \subseteq reply'.docs
       /\ \A d \in DocIds, p \in Policies : ~ IsOwned(a, d, p)'
       /\ \A b \in Apps \ {a}, d \in DocIds, p \in Policies :
            IsOwned(b, d, p)' <=> IsOwned(b, d, p)]_regVars

\* The refinement mapping: active records are ownership, records of any state
\* bind their digest.
OwnedPairs(a) == {<<d, records[a][d].policy>> : d \in {e \in DocIds :
                    records[a][e] # None /\ records[a][e].state = "active"}}

Contract == INSTANCE RegistryContract WITH
  owned <- [a \in Apps |-> OwnedPairs(a)],
  bound <- [a \in Apps |-> [d \in DocIds |->
              IF records[a][d] = None THEN None ELSE records[a][d].sha]]

\* Every behaviour of the registry is one the protocol's callers may see.
ImplementsContract == Contract!Spec
=============================================================================
