---------------------------- MODULE SigbashKeys -----------------------------
(***************************************************************************)
(* The immutable Sigbash keys of a vault, created either by the tabs of a  *)
(* participant or by the operator's command, against the same service.  An *)
(* organization belongs to one client: the two never share credentials, so *)
(* a behaviour is that of one of them.                                     *)
(***************************************************************************)
EXTENDS CustodyPages, OperatorSetup

CONSTANTS
    Browser, Command

ASSUME ClientAssumption == Browser # Command

VARIABLE client

vars == <<service, custody, operator, client>>

Init ==
    /\ client \in {Browser, Command}
    /\ ServiceInit /\ CustodyInit /\ OperatorInit

Next ==
    \/ client = Browser /\ CustodyNext /\ UNCHANGED <<operator, client>>
    \/ client = Command /\ OperatorNext /\ UNCHANGED <<custody, client>>

SigbashKeysSpec == Init /\ [][Next]_vars

-----------------------------------------------------------------------------
(* Properties.                                                             *)

(* However tabs interleave and runs die, and however late the service      *)
(* carries a creation out: no immutable key is created that its client     *)
(* cannot find, and no second one in place of a first.                     *)
NoKeyIsStranded ==
    /\ client = Browser => PageKeysAreRecoverable
    /\ client = Command => OperatorKeysAreRecoverable

(* A key is registered, or its slot finished, only with the recovery kit   *)
(* of that very key saved, and the save is never undone.                   *)
KitBeforePublic ==
    /\ client = Browser => RegisteredAreProtected
    /\ client = Command => FinishedAreProtected

(* What tabs and runs left behind, at whatever step they stopped, does not *)
(* refuse a retry: its round, the bundles it saves, the room they take,    *)
(* the keys it finds and the files pass every check.  Only the economics   *)
(* of the tabs can stand in the way: a key made before they changed is     *)
(* refused until those it was made for are deployed again.                 *)
RetryIsPossible ==
    /\ client = Browser => PageCanGoOn
    /\ client = Command => RunCanGoOn
=============================================================================
