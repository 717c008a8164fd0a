------------------------ MODULE SigbashOrganization -------------------------
(***************************************************************************)
(* The Sigbash service as its clients use it (external): an organization   *)
(* is a set of credentials and holds immutable keys, at most one at an     *)
(* index, each with its policy.  The answer to a creation may be lost, and *)
(* the creation may still be carried out afterwards, or never.             *)
(***************************************************************************)
EXTENDS Naturals

CONSTANTS
    Orgs,    \* credentials that may be generated
    Indexes, \* indexes an organization may use
    None,
    Strict   \* the service refuses to list an organization without a key

ASSUME OrganizationAssumption ==
    /\ Indexes \subseteq Nat
    /\ Strict \in BOOLEAN

VARIABLES
    live, \* the policy of the key at each index of each organization
    late  \* creations whose client has given up waiting

service == <<live, late>>

ServiceInit ==
    /\ live = [o \in Orgs |-> [i \in Indexes |-> None]]
    /\ late = {}

Occupied(o) == {i \in Indexes : live[o][i] # None}

(* Whether listKeys answers: an organization without a key has no signer   *)
(* to authenticate the request with.                                       *)
Answers(o) == Strict => Occupied(o) # {}

(* createKey, carried out and answered: an occupied index is refused.      *)
Creates(o, i, policy) ==
    /\ live[o][i] = None
    /\ live' = [live EXCEPT ![o][i] = policy]
    /\ late' = late

(* createKey whose answer its client does not get.                         *)
CreationLost(o, i, policy) ==
    /\ live[o][i] = None
    /\ late' = late \cup {[org |-> o, index |-> i, policy |-> policy]}
    /\ live' = live

(* The service carries such a creation out after all.                      *)
LateCreation ==
    \E r \in late :
        /\ live[r.org][r.index] = None
        /\ live' = [live EXCEPT ![r.org][r.index] = r.policy]
        /\ late' = late \ {r}
=============================================================================
