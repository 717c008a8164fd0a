--------------------------- MODULE CommandSigning ---------------------------
(***************************************************************************)
(* The command line's part in a cooperative exit: one participant's secret *)
(* nonces, each in a file of its own that is destroyed before the nonce    *)
(* signs.  Every command is a process of its own; two may run at once on   *)
(* one file, and any of them may stop at any step.                         *)
(*                                                                         *)
(* A nonce stands for its file too: each command that makes one creates a  *)
(* file, so two files with one nonce cannot be.                            *)
(***************************************************************************)
EXTENDS Integers, FiniteSets

CONSTANTS
    Processes, Paths, Messages,
    Nonces,            \* bounds how many nonces the participant makes
    Sessions,          \* the sets of public nonces the others may publish
    ReusesPaths,       \* whether the path of a destroyed file is used again
    None

ASSUME PathsReusedOrNot == ReusesPaths \in BOOLEAN
ASSUME NoneIsNothing == None \notin Nonces \cup Messages

VARIABLES
    file,        \* by path: the nonce in the file, or None
    written,     \* nonces whose record is in their file, to the last byte
    boundTo,     \* by nonce: the message it was made for, or None
    created,     \* paths that were ever used
    published,   \* nonces whose public part was printed
    process,     \* what each process is doing
    signed       \* by nonce: the sessions it signed in

vars == <<file, written, boundTo, created, published, process, signed>>

Idle == [command |-> "none"]

Saving(path, n) == [command |-> "nonce", path |-> path, nonce |-> n]

Signing(path, m, n, session, step, found) ==
    [command |-> "partial", path |-> path, message |-> m, nonce |-> n,
     session |-> session, step |-> step, found |-> found]

Init ==
    /\ file = [path \in Paths |-> None]
    /\ written = {} /\ created = {} /\ published = {}
    /\ boundTo = [n \in Nonces |-> None]
    /\ process = [p \in Processes |-> Idle]
    /\ signed = [n \in Nonces |-> {}]

-----------------------------------------------------------------------------
(* ceremony-nonce: make a nonce, save it, print its public part.           *)

(* The file is created only where there is none, and still empty.          *)
CreateFile(p, path, n, m) ==
    /\ process[p] = Idle
    /\ boundTo[n] = None
    /\ file[path] = None
    /\ ReusesPaths \/ path \notin created
    /\ boundTo' = [boundTo EXCEPT ![n] = m]
    /\ file' = [file EXCEPT ![path] = n]
    /\ created' = created \cup {path}
    /\ process' = [process EXCEPT ![p] = Saving(path, n)]
    /\ UNCHANGED <<written, published, signed>>

WriteFile(p) ==
    /\ process[p].command = "nonce" /\ process[p].nonce \notin written
    /\ written' = written \cup {process[p].nonce}
    /\ UNCHANGED <<file, boundTo, created, published, process, signed>>

PublishNonce(p) ==
    /\ process[p].command = "nonce" /\ process[p].nonce \in written
    /\ published' = published \cup {process[p].nonce}
    /\ process' = [process EXCEPT ![p] = Idle]
    /\ UNCHANGED <<file, written, boundTo, created, signed>>

-----------------------------------------------------------------------------
(* ceremony-partial: read, bind and destroy the file, then sign.           *)

Advance(p, step, found) ==
    process' = [process EXCEPT ![p] = [@ EXCEPT !.step = step, !.found = found]]

(* The published nonce is looked up among those of the session.            *)
StartPartial(p, path, m, n, session) ==
    /\ process[p] = Idle
    /\ n \in published
    /\ file[path] # None
    /\ process' = [process EXCEPT ![p] = Signing(path, m, n, session, "looked", file[path])]
    /\ UNCHANGED <<file, written, boundTo, created, published, signed>>

AtStep(p, step) == process[p].command = "partial" /\ process[p].step = step

Binds(n, process_) == n \in written /\ n = process_.nonce /\ boundTo[n] = process_.message

(* The file opened is the one that was looked at, and its record is for    *)
(* this participant's nonce and message.                                   *)
ReadFile(p) ==
    /\ AtStep(p, "looked")
    /\ file[process[p].path] = process[p].found
    /\ Binds(process[p].found, process[p])
    /\ Advance(p, "read", process[p].found)
    /\ UNCHANGED <<file, written, boundTo, created, published, signed>>

LookAgain(p) ==
    /\ AtStep(p, "read")
    /\ file[process[p].path] = process[p].found
    /\ Advance(p, "checked", process[p].found)
    /\ UNCHANGED <<file, written, boundTo, created, published, signed>>

(* Mutant: the file is removed if it is there.                             *)
UnlinkIfThere(p) ==
    /\ AtStep(p, "checked")
    /\ file' = [file EXCEPT ![process[p].path] = None]
    /\ Advance(p, "burned", process[p].found)
    /\ UNCHANGED <<written, boundTo, created, published, signed>>

(* Of two processes only one removes a file; the other one's unlink fails. *)
Unlink(p) ==
    /\ AtStep(p, "checked")
    /\ file[process[p].path] # None
    /\ file' = [file EXCEPT ![process[p].path] = None]
    /\ Advance(p, "burned", process[p].found)
    /\ UNCHANGED <<written, boundTo, created, published, signed>>

SignPartial(p) ==
    /\ AtStep(p, "burned")
    /\ LET n == process[p].found IN
       signed' = [signed EXCEPT ![n] = @ \cup {process[p].session}]
    /\ process' = [process EXCEPT ![p] = Idle]
    /\ UNCHANGED <<file, written, boundTo, created, published>>

(* A check fails, the signing throws, or the process is killed: files and  *)
(* nonces stay as they are.                                                *)
Stop(p) ==
    /\ process[p] # Idle
    /\ process' = [process EXCEPT ![p] = Idle]
    /\ UNCHANGED <<file, written, boundTo, created, published, signed>>

Next ==
    \/ \E p \in Processes, path \in Paths, n \in Nonces, m \in Messages :
          CreateFile(p, path, n, m)
    \/ \E p \in Processes : WriteFile(p) \/ PublishNonce(p)
    \/ \E p \in Processes, path \in Paths, n \in Nonces, m \in Messages, session \in Sessions :
          StartPartial(p, path, m, n, session)
    \/ \E p \in Processes : ReadFile(p) \/ LookAgain(p) \/ Unlink(p) \/ SignPartial(p) \/ Stop(p)

Spec == Init /\ [][Next]_vars

-----------------------------------------------------------------------------
(* Properties.                                                             *)

(* A nonce signs in one session at most and is in no file any more once it *)
(* has, whichever commands run at once and wherever one is stopped: two    *)
(* sessions of one nonce give away the personal key.                       *)
CommandNonceSignsOnce ==
    \A n \in Nonces :
        /\ Cardinality(signed[n]) <= 1
        /\ signed[n] # {} => \A path \in Paths : file[path] # n
=============================================================================
