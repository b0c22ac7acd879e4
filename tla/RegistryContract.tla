-------------------------- MODULE RegistryContract --------------------------
(***************************************************************************)
(* What callers of the DocumentRegistry protocol                           *)
(* (src/findociq/security/registry.py) rely on, without records, states or *)
(* stored receipts:                                                        *)
(*   - a registered document is owned under the policy it came with;       *)
(*   - an identifier stays bound to the first content registered for it;   *)
(*   - a deletion leaves the application nothing, names at least what it   *)
(*     owned, and, repeated at once, gives the same answer.                *)
(***************************************************************************)
CONSTANTS Apps, DocIds, Shas, Policies, None

VARIABLES
  owned,   \* owned[a]: the <<document, policy>> pairs application a owns
  bound,   \* bound[a][d]: the digest d is bound to, or None
  reply    \* the last answer

contractVars == <<owned, bound, reply>>

Init ==
  /\ owned = [a \in Apps |-> {}]
  /\ bound = [a \in Apps |-> [d \in DocIds |-> None]]
  /\ reply = None

Register(a, d, sha, policy) ==
  /\ bound[a][d] \in {None, sha}
  /\ bound' = [bound EXCEPT ![a][d] = sha]
  /\ owned' = [owned EXCEPT ![a] = {o \in @ : o[1] # d} \cup {<<d, policy>>}]
  /\ reply' = [op |-> "register", app |-> a, doc |-> d, policy |-> policy, ok |-> TRUE]

Refuse(a, d, sha, policy) ==
  /\ bound[a][d] \notin {None, sha}
  /\ reply' = [op |-> "register", app |-> a, doc |-> d, policy |-> policy, ok |-> FALSE]
  /\ UNCHANGED <<owned, bound>>

\* A retry: the previous answer was that of a deletion of the same application.
Repeats(a) == reply # None /\ reply.op = "delete" /\ reply.app = a

Delete(a) ==
  \E docs \in SUBSET DocIds :
    /\ {o[1] : o \in owned[a]} \subseteq docs
    /\ Repeats(a) => docs = reply.docs
    /\ owned' = [owned EXCEPT ![a] = {}]
    /\ reply' = [op |-> "delete", app |-> a, docs |-> docs]
    /\ UNCHANGED bound

Next ==
  \E a \in Apps :
    \/ \E d \in DocIds, sha \in Shas, policy \in Policies :
         Register(a, d, sha, policy) \/ Refuse(a, d, sha, policy)
    \/ Delete(a)

Spec == Init /\ [][Next]_contractVars
=============================================================================
