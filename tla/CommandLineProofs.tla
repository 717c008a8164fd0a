------------------------- MODULE CommandLineProofs --------------------------
(***************************************************************************)
(* Proofs about CommandLine.  The nonces of CommandSigning, for any number *)
(* of processes, paths, nonces and sessions, as long as the path of a      *)
(* destroyed file is not used again: then a path holds one nonce in its    *)
(* life, and what a process has found at its path is there still or        *)
(* nowhere, so that of two processes with the same nonce only one can      *)
(* remove it.  Then the finished files and the audits of CommandFiles and  *)
(* CommandAudits, for all economics the validation accepts, whatever coins *)
(* are on chain and whatever is typed.                                     *)
(***************************************************************************)
EXTENDS CommandLine, FiniteSetTheorems, TLAPS

(* How far a partial has got.                                              *)
Steps == {"looked", "read", "checked", "burned"}

(* A process making a nonce file.                                          *)
Nonce == [command : {"nonce"}, path : Paths, nonce : Nonces]
(* A process signing with one.                                             *)
Partial == [command : {"partial"}, path : Paths, message : Messages, nonce : Nonces,
            session : Sessions, step : Steps, found : Nonces]

(* Types of the files and of the processes.                                *)
CommandTypeOK ==
    /\ file \in [Paths -> Nonces \cup {None}]
    /\ boundTo \in [Nonces -> Messages \cup {None}]
    /\ created \subseteq Paths
    /\ process \in [Processes -> {Idle} \cup Nonce \cup Partial]
    /\ signed \in [Nonces -> SUBSET Sessions]

(* A nonce is in one file at most, and a nonce in a file has been made.    *)
OneHome ==
    \A x \in Paths : file[x] # None =>
        /\ x \in created /\ boundTo[file[x]] # None
        /\ \A y \in Paths : file[y] = file[x] => y = x

(* The process signs.                                                      *)
IsPartial(p) == process[p].command = "partial"
(* The process removed the file and is about to sign.                      *)
Burned(p) == IsPartial(p) /\ process[p].step = "burned"

(* What a process has found is at its path or nowhere.                     *)
FoundIsThere ==
    \A p \in Processes : IsPartial(p) =>
        /\ process[p].path \in created
        /\ boundTo[process[p].found] # None
        /\ \A x \in Paths : file[x] = process[p].found => x = process[p].path
        /\ file[process[p].path] \in {process[p].found, None}

(* A nonce about to sign belongs to the process that removed its file.     *)
BurnedIsMine ==
    \A p \in Processes : Burned(p) =>
        /\ file[process[p].path] = None
        /\ signed[process[p].found] = {}
        /\ \A q \in Processes : Burned(q) /\ process[q].found = process[p].found => q = p

(* A nonce that has signed is in no file and about to sign nowhere.        *)
SignedIsGone ==
    \A n \in Nonces : signed[n] # {} =>
        /\ Cardinality(signed[n]) <= 1
        /\ boundTo[n] # None
        /\ \A x \in Paths : file[x] # n
        /\ \A p \in Processes : Burned(p) => process[p].found # n

(* The inductive invariant.                                                *)
CommandInv == CommandTypeOK /\ OneHome /\ FoundIsThere /\ BurnedIsMine /\ SignedIsGone

-----------------------------------------------------------------------------
(* No files and no processes.                                              *)
LEMMA CommandInit == Init => CommandInv
  BY NoneIsNothing DEF Init, CommandInv, CommandTypeOK, OneHome, FoundIsThere, BurnedIsMine,
     SignedIsGone, IsPartial, Burned, Idle

(* A new nonce goes where no nonce has been before.                        *)
LEMMA CreateKeeps ==
    ASSUME ~ReusesPaths, CommandInv, NEW p \in Processes, NEW path \in Paths,
           NEW n \in Nonces, NEW m \in Messages, CreateFile(p, path, n, m)
    PROVE  CommandInv'
<1> USE NoneIsNothing DEF CommandInv
<1> USE DEF CommandTypeOK, CreateFile, Saving, Idle
<1>1. CommandTypeOK'
  BY DEF Nonce
<1>2. /\ process'[p].command = "nonce"
      /\ \A q \in Processes : q # p => process'[q] = process[q]
      /\ \A q \in Processes : IsPartial(q)' => q # p /\ IsPartial(q)
      /\ \A q \in Processes : Burned(q)' => q # p /\ Burned(q)
  BY DEF IsPartial, Burned
<1>3. /\ file'[path] = n
      /\ \A x \in Paths : x # path => file'[x] = file[x]
      /\ boundTo'[n] = m
      /\ \A k \in Nonces : k # n => boundTo'[k] = boundTo[k]
      /\ created' = created \cup {path}
      /\ signed' = signed
      /\ boundTo[n] = None /\ path \notin created
  OBVIOUS
<1>4. \A x \in Paths : file[x] # n
  BY DEF OneHome
<1>5. OneHome'
  BY <1>3, <1>4 DEF OneHome
<1>6. FoundIsThere'
  <2> SUFFICES ASSUME NEW q \in Processes, IsPartial(q)'
               PROVE  /\ process'[q].path \in created'
                      /\ boundTo'[process'[q].found] # None
                      /\ \A x \in Paths : file'[x] = process'[q].found => x = process'[q].path
                      /\ file'[process'[q].path] \in {process'[q].found, None}
    BY DEF FoundIsThere
  <2>1. process'[q] = process[q] /\ IsPartial(q) /\ process[q] \in Partial
    BY <1>2 DEF IsPartial, Nonce
  <2>2. /\ process[q].path \in created /\ process[q].path \in Paths
        /\ process[q].found \in Nonces
        /\ boundTo[process[q].found] # None
        /\ \A x \in Paths : file[x] = process[q].found => x = process[q].path
        /\ file[process[q].path] \in {process[q].found, None}
    BY <2>1 DEF FoundIsThere, Partial
  <2> QED BY <1>3, <2>1, <2>2
<1>7. BurnedIsMine'
  <2> SUFFICES ASSUME NEW q \in Processes, Burned(q)'
               PROVE  /\ file'[process'[q].path] = None
                      /\ signed'[process'[q].found] = {}
                      /\ \A r \in Processes :
                            Burned(r)' /\ process'[r].found = process'[q].found => r = q
    BY DEF BurnedIsMine
  <2>1. q # p /\ process'[q] = process[q] /\ Burned(q) /\ IsPartial(q) /\ process[q] \in Partial
    BY <1>2 DEF Burned, IsPartial, Nonce
  <2>2. process[q].path \in Paths /\ process[q].path # path
    BY <1>3, <2>1 DEF FoundIsThere, Partial
  <2> QED BY <1>2, <1>3, <2>1, <2>2 DEF BurnedIsMine
<1>8. SignedIsGone'
  <2> SUFFICES ASSUME NEW k \in Nonces, signed'[k] # {}
               PROVE  /\ Cardinality(signed'[k]) <= 1 /\ boundTo'[k] # None
                      /\ \A x \in Paths : file'[x] # k
                      /\ \A q \in Processes : Burned(q)' => process'[q].found # k
    BY DEF SignedIsGone
  <2>1. k # n /\ Cardinality(signed[k]) <= 1 /\ boundTo[k] # None
    BY <1>3 DEF SignedIsGone
  <2>2. \A x \in Paths : file'[x] # k
    BY <1>3, <2>1 DEF SignedIsGone
  <2>3. \A q \in Processes : Burned(q)' => process'[q].found # k
    BY <1>2, <1>3 DEF SignedIsGone
  <2> QED BY <1>3, <2>1, <2>2, <2>3
<1> QED BY <1>1, <1>5, <1>6, <1>7, <1>8

(* A process that goes idle, or on with what it has found and has not yet  *)
(* removed, disturbs nothing.                                              *)
LEMMA ProcessMoves ==
    ASSUME CommandInv, NEW p \in Processes, NEW r \in {Idle} \cup Partial,
           UNCHANGED <<file, boundTo, created, signed>>,
           process' = [process EXCEPT ![p] = r],
           r # Idle => /\ r.step # "burned"
                       /\ r.path \in created
                       /\ boundTo[r.found] # None
                       /\ \A x \in Paths : file[x] = r.found => x = r.path
                       /\ file[r.path] \in {r.found, None}
    PROVE  CommandInv'
<1> USE DEF CommandInv
<1>1. CommandTypeOK'
  BY DEF CommandTypeOK
<1>2. OneHome'
  BY DEF OneHome
<1>3. /\ process'[p] = r
      /\ \A q \in Processes : q # p => process'[q] = process[q]
  BY DEF CommandTypeOK
<1>4. FoundIsThere'
  <2> SUFFICES ASSUME NEW q \in Processes, IsPartial(q)'
               PROVE  /\ process'[q].path \in created
                      /\ boundTo[process'[q].found] # None
                      /\ \A x \in Paths : file[x] = process'[q].found => x = process'[q].path
                      /\ file[process'[q].path] \in {process'[q].found, None}
    BY DEF FoundIsThere
  <2>1. CASE q = p
    <3>1. r # Idle
      BY <1>3, <2>1 DEF IsPartial, Idle
    <3> QED BY <1>3, <2>1, <3>1
  <2>2. CASE q # p
    <3>1. IsPartial(q) /\ process'[q] = process[q]
      BY <1>3, <2>2 DEF IsPartial
    <3> QED BY <3>1 DEF FoundIsThere
  <2> QED BY <2>1, <2>2
<1>5. \A q \in Processes : Burned(q)' => q # p /\ process'[q] = process[q] /\ Burned(q)
  BY <1>3 DEF Burned, IsPartial, Idle
<1>6. BurnedIsMine'
  BY <1>5 DEF BurnedIsMine
<1>7. SignedIsGone'
  BY <1>5 DEF SignedIsGone
<1> QED BY <1>1, <1>2, <1>4, <1>6, <1>7

(* Starting a process touches no file.                                     *)
LEMMA StartKeeps ==
    ASSUME CommandInv, NEW p \in Processes, NEW path \in Paths, NEW m \in Messages,
           NEW n \in Nonces, NEW session \in Sessions, StartPartial(p, path, m, n, session)
    PROVE  CommandInv'
<1> DEFINE r == Signing(path, m, n, session, "looked", file[path])
<1> USE DEF StartPartial
<1>1. file[path] \in Nonces /\ r \in Partial /\ r # Idle
  BY DEF CommandInv, CommandTypeOK, Signing, Partial, Steps, Idle
<1>2. /\ r.step # "burned" /\ r.path = path /\ r.found = file[path]
      /\ path \in created /\ boundTo[file[path]] # None
      /\ \A x \in Paths : file[x] = file[path] => x = path
  BY DEF CommandInv, OneHome, Signing
<1> QED BY <1>1, <1>2, ProcessMoves

(* A process that ends or dies leaves the files as they are.               *)
LEMMA IdleKeeps ==
    ASSUME CommandInv, NEW p \in Processes, PublishNonce(p) \/ Stop(p)
    PROVE  CommandInv'
<1>1. process' = [process EXCEPT ![p] = Idle] /\ UNCHANGED <<file, boundTo, created, signed>>
  BY DEF PublishNonce, Stop
<1> QED BY <1>1, ProcessMoves

(* A partial command advances with what it has found.                      *)
LEMMA AdvanceIs ==
    ASSUME CommandInv, NEW p \in Processes, IsPartial(p), NEW step \in Steps,
           Advance(p, step, process[p].found)
    PROVE  \E r \in Partial :
              /\ r # Idle
              /\ process' = [process EXCEPT ![p] = r]
              /\ r.step = step
              /\ r.path = process[p].path /\ r.found = process[p].found
<1> DEFINE r == [process[p] EXCEPT !.step = step, !.found = process[p].found]
<1>1. process[p] \in Partial
  BY DEF CommandInv, CommandTypeOK, IsPartial, Idle, Nonce
<1>2. r \in Partial /\ r # Idle /\ r.step = step /\ r.path = process[p].path
      /\ r.found = process[p].found
  BY <1>1 DEF Partial, Idle
<1>3. process' = [process EXCEPT ![p] = r]
  BY DEF Advance
<1> QED BY <1>2, <1>3

(* Reading changes nothing but what the process knows.                     *)
LEMMA LooksKeep ==
    ASSUME CommandInv, NEW p \in Processes, ReadFile(p) \/ LookAgain(p)
    PROVE  CommandInv'
<1>1. /\ IsPartial(p) /\ UNCHANGED <<file, boundTo, created, signed>>
      /\ \E step \in {"read", "checked"} : Advance(p, step, process[p].found)
  BY DEF ReadFile, LookAgain, AtStep, IsPartial
<1>2. PICK step \in {"read", "checked"} : Advance(p, step, process[p].found)
  BY <1>1
<1>3. PICK r \in Partial :
         /\ r # Idle /\ process' = [process EXCEPT ![p] = r]
         /\ r.step = step /\ r.path = process[p].path /\ r.found = process[p].found
  BY <1>1, <1>2, AdvanceIs DEF Steps
<1>4. /\ r.path \in created /\ boundTo[r.found] # None
      /\ \A x \in Paths : file[x] = r.found => x = r.path
      /\ file[r.path] \in {r.found, None}
  BY <1>1, <1>3 DEF CommandInv, FoundIsThere
<1> QED BY <1>1, <1>3, <1>4, ProcessMoves

(* What is removed is what was found, and nobody else has removed it.      *)
LEMMA UnlinkKeeps ==
    ASSUME CommandInv, NEW p \in Processes, Unlink(p)
    PROVE  CommandInv'
<1> USE NoneIsNothing DEF CommandInv
<1> DEFINE n == process[p].found
           path == process[p].path
<1>1. IsPartial(p) /\ process[p].step = "checked" /\ process[p] \in Partial
  BY DEF Unlink, AtStep, IsPartial, CommandTypeOK, Idle, Nonce
<1>2. n \in Nonces /\ path \in Paths
  BY <1>1 DEF Partial
<1>3. /\ file[path] = n /\ path \in created /\ boundTo[n] # None
      /\ \A x \in Paths : file[x] = n => x = path
  BY <1>1, <1>2 DEF FoundIsThere, Unlink
<1>4. /\ file'[path] = None
      /\ \A x \in Paths : x # path => file'[x] = file[x]
      /\ UNCHANGED <<boundTo, created, signed>>
  BY <1>2 DEF Unlink, CommandTypeOK
<1>5. PICK r \in Partial :
         /\ r # Idle /\ process' = [process EXCEPT ![p] = r]
         /\ r.step = "burned" /\ r.path = path /\ r.found = n
  BY <1>1, AdvanceIs DEF Unlink, Steps
<1>6. /\ process'[p] = r
      /\ \A q \in Processes : q # p => process'[q] = process[q]
  BY <1>5 DEF CommandTypeOK
<1>7. CommandTypeOK'
  <2>1. file' \in [Paths -> Nonces \cup {None}]
    BY DEF Unlink, CommandTypeOK
  <2>2. process' \in [Processes -> {Idle} \cup Nonce \cup Partial]
    BY <1>5 DEF CommandTypeOK
  <2> QED BY <1>4, <2>1, <2>2 DEF CommandTypeOK
<1>8. OneHome'
  BY <1>2, <1>4 DEF OneHome
<1>9. FoundIsThere'
  <2> SUFFICES ASSUME NEW q \in Processes, IsPartial(q)'
               PROVE  /\ process'[q].path \in created
                      /\ boundTo[process'[q].found] # None
                      /\ \A x \in Paths : file'[x] = process'[q].found => x = process'[q].path
                      /\ file'[process'[q].path] \in {process'[q].found, None}
    BY <1>4 DEF FoundIsThere
  <2>1. CASE q = p
    BY <1>3, <1>4, <1>5, <1>6, <2>1, <1>2
  <2>2. CASE q # p
    <3>1. IsPartial(q) /\ process'[q] = process[q] /\ process[q] \in Partial
      BY <1>6, <2>2 DEF IsPartial, CommandTypeOK, Idle, Nonce
    <3>2. /\ process[q].path \in created /\ process[q].path \in Paths
          /\ process[q].found \in Nonces
          /\ boundTo[process[q].found] # None
          /\ \A x \in Paths : file[x] = process[q].found => x = process[q].path
          /\ file[process[q].path] \in {process[q].found, None}
      BY <3>1 DEF FoundIsThere, Partial
    <3> QED BY <1>2, <1>4, <3>1, <3>2
  <2> QED BY <2>1, <2>2
<1>10. \A q \in Processes : Burned(q)' /\ q # p => process'[q] = process[q] /\ Burned(q)
  BY <1>6 DEF Burned, IsPartial
<1>11. \A q \in Processes : Burned(q) => process[q].found # n /\ process[q].path \in Paths
  <2> SUFFICES ASSUME NEW q \in Processes, Burned(q)
               PROVE  process[q].found # n /\ process[q].path \in Paths
    OBVIOUS
  <2>1. process[q] \in Partial /\ IsPartial(q)
    BY DEF Burned, IsPartial, CommandTypeOK, Idle, Nonce
  <2>2. file[process[q].path] = None /\ process[q].path \in Paths
    BY <2>1 DEF BurnedIsMine, Partial
  <2>3. \A x \in Paths : file[x] = process[q].found => x = process[q].path
    BY <2>1 DEF FoundIsThere
  <2> QED BY <1>2, <1>3, <2>2, <2>3
<1>12. signed[n] = {}
  BY <1>2, <1>3 DEF SignedIsGone
<1>13. BurnedIsMine'
  <2> SUFFICES ASSUME NEW q \in Processes, Burned(q)'
               PROVE  /\ file'[process'[q].path] = None
                      /\ signed[process'[q].found] = {}
                      /\ \A s \in Processes :
                            Burned(s)' /\ process'[s].found = process'[q].found => s = q
    BY <1>4 DEF BurnedIsMine
  <2>1. CASE q = p
    BY <1>4, <1>5, <1>6, <1>10, <1>11, <1>12, <2>1
  <2>2. CASE q # p
    <3>1. Burned(q) /\ process'[q] = process[q]
      BY <1>10, <2>2
    <3>2. file'[process[q].path] = None
      BY <1>4, <1>11, <3>1 DEF BurnedIsMine
    <3>3. \A s \in Processes :
             Burned(s)' /\ process'[s].found = process[q].found => s = q
      BY <1>5, <1>6, <1>10, <1>11, <3>1 DEF BurnedIsMine
    <3> QED BY <3>1, <3>2, <3>3 DEF BurnedIsMine
  <2> QED BY <2>1, <2>2
<1>14. SignedIsGone'
  <2> SUFFICES ASSUME NEW k \in Nonces, signed[k] # {}
               PROVE  /\ Cardinality(signed[k]) <= 1 /\ boundTo[k] # None
                      /\ \A x \in Paths : file'[x] # k
                      /\ \A q \in Processes : Burned(q)' => process'[q].found # k
    BY <1>4 DEF SignedIsGone
  <2>1. \A x \in Paths : file'[x] # k
    BY <1>4 DEF SignedIsGone
  <2>2. \A q \in Processes : Burned(q)' => process'[q].found # k
    BY <1>5, <1>6, <1>10, <1>12 DEF SignedIsGone
  <2> QED BY <2>1, <2>2 DEF SignedIsGone
<1> QED BY <1>7, <1>8, <1>9, <1>13, <1>14

(* The nonce signs for the first time.                                     *)
LEMMA SignKeeps ==
    ASSUME CommandInv, NEW p \in Processes, SignPartial(p)
    PROVE  CommandInv'
<1> USE NoneIsNothing DEF CommandInv
<1> DEFINE n == process[p].found
           path == process[p].path
<1>1. Burned(p) /\ IsPartial(p) /\ process[p] \in Partial
  BY DEF SignPartial, AtStep, Burned, IsPartial, CommandTypeOK, Idle, Nonce
<1>2. n \in Nonces /\ path \in Paths /\ process[p].session \in Sessions
  BY <1>1 DEF Partial
<1>3. /\ file[path] = None /\ signed[n] = {} /\ boundTo[n] # None
      /\ \A x \in Paths : file[x] # n
      /\ \A q \in Processes : Burned(q) /\ process[q].found = n => q = p
  BY <1>1, <1>2 DEF BurnedIsMine, FoundIsThere
<1>4. /\ signed'[n] = {process[p].session}
      /\ \A k \in Nonces : k # n => signed'[k] = signed[k]
      /\ UNCHANGED <<file, boundTo, created>>
  BY <1>2, <1>3 DEF SignPartial, CommandTypeOK
<1>5. /\ process'[p] = Idle
      /\ \A q \in Processes : q # p => process'[q] = process[q]
  BY DEF SignPartial, CommandTypeOK
<1>6. CommandTypeOK'
  BY <1>2, <1>4 DEF SignPartial, CommandTypeOK
<1>7. OneHome'
  BY <1>4 DEF OneHome
<1>8. \A q \in Processes : IsPartial(q)' => q # p /\ process'[q] = process[q] /\ IsPartial(q)
  BY <1>5 DEF IsPartial, Idle
<1>9. FoundIsThere'
  BY <1>4, <1>8 DEF FoundIsThere
<1>10. \A q \in Processes :
          Burned(q)' => /\ q # p /\ process'[q] = process[q] /\ Burned(q)
                        /\ process[q].found # n /\ process[q].found \in Nonces
  <2> SUFFICES ASSUME NEW q \in Processes, Burned(q)'
               PROVE  /\ q # p /\ process'[q] = process[q] /\ Burned(q)
                      /\ process[q].found # n /\ process[q].found \in Nonces
    OBVIOUS
  <2>1. q # p /\ process'[q] = process[q] /\ Burned(q)
    BY <1>8 DEF Burned
  <2>2. process[q] \in Partial
    BY <2>1 DEF Burned, IsPartial, CommandTypeOK, Idle, Nonce
  <2> QED BY <1>3, <2>1, <2>2 DEF Partial
<1>11. BurnedIsMine'
  BY <1>4, <1>10 DEF BurnedIsMine
<1>12. SignedIsGone'
  <2> SUFFICES ASSUME NEW k \in Nonces, signed'[k] # {}
               PROVE  /\ Cardinality(signed'[k]) <= 1 /\ boundTo[k] # None
                      /\ \A x \in Paths : file[x] # k
                      /\ \A q \in Processes : Burned(q)' => process'[q].found # k
    BY <1>4 DEF SignedIsGone
  <2>1. CASE k = n
    <3>1. Cardinality(signed'[k]) = 1
      BY <1>4, <2>1, FS_Singleton
    <3> QED BY <1>3, <1>10, <2>1, <3>1
  <2>2. CASE k # n
    BY <1>4, <1>10, <2>2 DEF SignedIsGone
  <2> QED BY <2>1, <2>2
<1> QED BY <1>6, <1>7, <1>9, <1>11, <1>12

(* Every step keeps it.                                                    *)
LEMMA CommandStep ==
    ASSUME ~ReusesPaths, CommandInv, [Next]_vars PROVE CommandInv'
<1>1. CASE UNCHANGED vars \/ \E p \in Processes : WriteFile(p)
  <2>1. UNCHANGED <<file, boundTo, created, process, signed>>
    BY <1>1 DEF vars, WriteFile
  <2> QED BY <2>1 DEF CommandInv, CommandTypeOK, OneHome, FoundIsThere, BurnedIsMine,
                      SignedIsGone, Burned, IsPartial
<1>2. CASE \E p \in Processes, path \in Paths, n \in Nonces, m \in Messages :
              CreateFile(p, path, n, m)
  BY <1>2, CreateKeeps
<1>3. CASE \E p \in Processes, path \in Paths, n \in Nonces, m \in Messages,
              session \in Sessions : StartPartial(p, path, m, n, session)
  BY <1>3, StartKeeps
<1>4. CASE \E p \in Processes : PublishNonce(p) \/ Stop(p)
  BY <1>4, IdleKeeps
<1>5. CASE \E p \in Processes : ReadFile(p) \/ LookAgain(p)
  BY <1>5, LooksKeep
<1>6. CASE \E p \in Processes : Unlink(p)
  BY <1>6, UnlinkKeeps
<1>7. CASE \E p \in Processes : SignPartial(p)
  BY <1>7, SignKeeps
<1> QED BY <1>1, <1>2, <1>3, <1>4, <1>5, <1>6, <1>7 DEF Next

(* Whichever commands run at once and wherever one is stopped, a nonce     *)
(* signs in one session at most and is in no file once it has: for any     *)
(* number of processes, unless a path is used again.                       *)
THEOREM NonceOfFileSignsOnce ==
    ASSUME ~ReusesPaths PROVE Spec => []CommandNonceSignsOnce
<1>1. Init => CommandInv
  BY CommandInit
<1>2. CommandInv /\ [Next]_vars => CommandInv'
  BY CommandStep
<1>3. CommandInv => CommandNonceSignsOnce
  <2> SUFFICES ASSUME CommandInv, NEW n \in Nonces
               PROVE  /\ Cardinality(signed[n]) <= 1
                      /\ signed[n] # {} => \A path \in Paths : file[path] # n
    BY DEF CommandNonceSignsOnce
  <2>1. CASE signed[n] = {}
    BY <2>1, FS_EmptySet
  <2>2. CASE signed[n] # {}
    BY <2>2 DEF CommandInv, SignedIsGone
  <2> QED BY <2>1, <2>2
<1> QED BY <1>1, <1>2, <1>3, PTL DEF Spec

-----------------------------------------------------------------------------
(* Sums over the outputs of a transaction.                                 *)

(* Whichever place the fold takes first, it adds up all of them.           *)
LEMMA SatsAre ==
    ASSUME NEW o, NEW S \in SUBSET (1..3), \A i \in S : o[i].sats \in Int
    PROVE  SatsAt(o, S) =   (IF 1 \in S THEN o[1].sats ELSE 0)
                          + (IF 2 \in S THEN o[2].sats ELSE 0)
                          + (IF 3 \in S THEN o[3].sats ELSE 0)
<1> DEFINE pick(s) == CHOOSE x \in s : TRUE
           body(f, s) == IF s = {} THEN 0 ELSE o[pick(s)].sats + f[s \ {pick(s)}]
           part(s, x) == IF x \in s THEN o[x].sats ELSE 0
           sum == [s \in SUBSET S |-> part(s, 1) + part(s, 2) + part(s, 3)]
           iter == CHOOSE f : f = [s \in SUBSET S |-> body(f, s)]
<1>1. SatsAt(o, S) = iter[S]
  BY DEF SatsAt, MapThenSumSet, MapThenFoldSet
<1>2. \A s \in SUBSET S : s # {} => pick(s) \in s
  OBVIOUS
<1> HIDE DEF pick
<1>3. \A s \in SUBSET S : sum[s] = body(sum, s)
  <2> SUFFICES ASSUME NEW s \in SUBSET S PROVE sum[s] = body(sum, s)
    OBVIOUS
  <2>1. CASE s = {}
    BY <2>1
  <2>2. CASE s # {}
    <3>1. PICK x : x = pick(s)
      OBVIOUS
    <3>2. x \in s /\ x \in 1..3 /\ s \ {x} \in SUBSET S
      BY <1>2, <2>2, <3>1
    <3>3. part(s, 1) + part(s, 2) + part(s, 3)
            = o[x].sats + (part(s \ {x}, 1) + part(s \ {x}, 2) + part(s \ {x}, 3))
      BY <3>2
    <3>4. sum[s] = o[x].sats + sum[s \ {x}]
      BY <3>2, <3>3
    <3> QED BY <2>2, <3>1, <3>4
  <2> QED BY <2>1, <2>2
<1>4. sum = [s \in SUBSET S |-> body(sum, s)]
  <2> HIDE DEF body
  <2>1. sum = [s \in SUBSET S |-> sum[s]]
    OBVIOUS
  <2> HIDE DEF sum
  <2> QED BY <1>3, <2>1
<1>5. iter = [s \in SUBSET S |-> body(iter, s)]
  <2> HIDE DEF sum, body
  <2> QED BY <1>4
<1>6. \A s \in SUBSET S : iter[s] = body(iter, s)
  <2> HIDE DEF iter, body
  <2> QED BY <1>5
<1> HIDE DEF iter
<1>7. iter[S] = sum[S]
  <2> DEFINE same(s) == iter[s] = sum[s]
  <2>1. same({})
    BY <1>3, <1>6
  <2>2. \A s \in SUBSET S : s # {} /\ (\A x \in s : same(s \ {x})) => same(s)
    <3> SUFFICES ASSUME NEW s \in SUBSET S, s # {}, \A x \in s : same(s \ {x})
                 PROVE  same(s)
      OBVIOUS
    <3>1. pick(s) \in s
      BY <1>2
    <3> HIDE DEF sum
    <3> QED BY <1>3, <1>6, <3>1
  <2> HIDE DEF same
  <2>3. \A s \in SUBSET S : \A x : s \subseteq {x} => same(s)
    <3> SUFFICES ASSUME NEW s \in SUBSET S, NEW x, s \subseteq {x} PROVE same(s)
      OBVIOUS
    <3>1. \A y \in s : s \ {y} = {}
      OBVIOUS
    <3> QED BY <2>1, <2>2, <3>1
  <2>4. \A s \in SUBSET S : \A x, y : s \subseteq {x, y} => same(s)
    <3> SUFFICES ASSUME NEW s \in SUBSET S, NEW x, NEW y, s \subseteq {x, y} PROVE same(s)
      OBVIOUS
    <3>1. \A z \in s : s \ {z} \in SUBSET S /\ (s \ {z} \subseteq {x} \/ s \ {z} \subseteq {y})
      OBVIOUS
    <3> QED BY <2>1, <2>2, <2>3, <3>1
  <2>5. \A z \in S : \E x, y : S \ {z} \subseteq {x, y}
    <3> SUFFICES ASSUME NEW z \in S PROVE \E x, y : S \ {z} \subseteq {x, y}
      OBVIOUS
    <3>1. \/ S \ {z} \subseteq {1, 2} \/ S \ {z} \subseteq {1, 3} \/ S \ {z} \subseteq {2, 3}
      OBVIOUS
    <3> QED BY <3>1
  <2>6. \A z \in S : same(S \ {z})
    BY <2>4, <2>5
  <2>7. same(S)
    BY <2>1, <2>2, <2>6
  <2> QED BY <2>7 DEF same
<1> QED BY <1>1, <1>7

(* One output.                                                             *)
LEMMA OneOutput ==
    ASSUME NEW a, NEW x \in Int
    PROVE  /\ Total(<<Output(a, x)>>) = x
           /\ DOMAIN <<Output(a, x)>> = 1..1
<1>1. PICK o : o = <<Output(a, x)>>
  OBVIOUS
<1>2. DOMAIN o = 1..1 /\ o[1].sats = x
  BY <1>1 DEF Output
<1>3. SatsAt(o, 1..1) = x + 0 + 0
  BY <1>2, SatsAre
<1> QED BY <1>1, <1>2, <1>3 DEF Total

(* Two are two.                                                            *)
LEMMA PairSize == ASSUME NEW x, NEW y, x # y PROVE Cardinality({x, y}) = 2
<1>1. PICK z : z = {x}
  OBVIOUS
<1>2. IsFiniteSet(z) /\ Cardinality(z) = 1 /\ y \notin z
  BY <1>1, FS_Singleton
<1>3. Cardinality(z \cup {y}) = Cardinality(z) + 1
  BY <1>2, FS_AddElement, Zenon
<1>4. z \cup {y} = {x, y}
  BY <1>1
<1> QED BY <1>2, <1>3, <1>4

(* Two outputs to different addresses.                                     *)
LEMMA TwoOutputs ==
    ASSUME NEW a, NEW b, a # b, NEW x \in Int, NEW y \in Int,
           NEW o, o = <<Output(a, x), Output(b, y)>>
    PROVE  PaidTo(a, o) = x /\ PaidTo(b, o) = y /\ Total(o) = x + y
<1>1. DOMAIN o = 1..2 /\ o[1] = Output(a, x) /\ o[2] = Output(b, y)
  OBVIOUS
<1>2. o[1].to = a /\ o[1].sats = x /\ o[2].to = b /\ o[2].sats = y
  BY <1>1 DEF Output
<1>3. {i \in DOMAIN o : o[i].to = a} = {1} /\ {i \in DOMAIN o : o[i].to = b} = {2}
  BY <1>1, <1>2
<1>4. SatsAt(o, {1}) = x + 0 + 0
  BY <1>2, SatsAre
<1>5. SatsAt(o, {2}) = 0 + y + 0
  BY <1>2, SatsAre
<1>6. SatsAt(o, 1..2) = x + y + 0
  BY <1>2, SatsAre
<1> QED BY <1>1, <1>3, <1>4, <1>5, <1>6 DEF PaidTo, Total

(* The members of a round in the order of its outputs, each once.          *)
LEMMA Seats ==
    ASSUME NEW r \in VaultRounds
    PROVE  \E m \in [1..Cardinality(r) -> r] :
              /\ SetToSeq(r) = m
              /\ \A p \in r : \E i \in 1..Cardinality(r) : m[i] = p
              /\ \A i, j \in 1..Cardinality(r) : m[i] = m[j] => i = j
<1> DEFINE n == Cardinality(r)
           m == SetToSeq(r)
<1>1. IsFiniteSet(r) /\ n \in 2..3
  BY ThreeParticipants, FS_Subset DEF VaultRounds
<1>2. ExistsBijection(1..n, r)
  BY <1>1, FS_CardinalityType
<1>3. \E f \in [1..n -> r] : IsInjective(f)
  BY <1>2 DEF ExistsBijection, Bijection, Injection
<1>4. m \in [1..n -> r] /\ IsInjective(m)
  BY <1>3 DEF SetToSeq
<1>5. m \in Injection(1..n, r)
  BY <1>4 DEF Injection
<1>6. IsFiniteSet(1..n) /\ Cardinality(1..n) = n
  BY <1>1, FS_Interval
<1>7. m \in Surjection(1..n, r)
  BY <1>1, <1>5, <1>6, FS_Injection
<1>8. \A p \in r : \E i \in 1..n : m[i] = p
  BY <1>7 DEF Surjection
<1>9. \A i, j \in 1..n : m[i] = m[j] => i = j
  BY <1>4 DEF IsInjective
<1> QED BY <1>4, <1>8, <1>9

(* Equal parts: everybody is paid once, and nobody else.                   *)
LEMMA EqualParts ==
    ASSUME NEW r \in VaultRounds, NEW share \in Int
    PROVE  /\ DOMAIN SplitOutputs(r, share) = 1..Cardinality(r)
           /\ Len(SplitOutputs(r, share)) = Cardinality(r)
           /\ Total(SplitOutputs(r, share)) = share * Cardinality(r)
           /\ \A p \in r : PaidTo(PayoutOf(p), SplitOutputs(r, share)) = share
           /\ \A p \in r : \E i \in 1..Cardinality(r) :
                 /\ SplitOutputs(r, share)[i] = Output(PayoutOf(p), share)
                 /\ \A j \in 1..Cardinality(r) :
                       SplitOutputs(r, share)[j].to = PayoutOf(p) => j = i
           /\ \A j \in 1..Cardinality(r) : SplitOutputs(r, share)[j].sats = share
           /\ \A j \in 1..Cardinality(r) : \E p \in r : SplitOutputs(r, share)[j].to = PayoutOf(p)
<1> DEFINE n == Cardinality(r)
<1>1. PICK m \in [1..n -> r] :
         /\ SetToSeq(r) = m
         /\ \A p \in r : \E i \in 1..n : m[i] = p
         /\ \A i, j \in 1..n : m[i] = m[j] => i = j
  BY Seats
<1>2. n \in 2..3
  BY DEF VaultRounds
<1>3. PICK o : o = SplitOutputs(r, share)
  OBVIOUS
<1>4. o = [i \in 1..n |-> Output({m[i]}, share)]
  BY <1>1, <1>3 DEF SplitOutputs, PayoutOf
<1>5. DOMAIN o = 1..n /\ Len(o) = n
  BY <1>2, <1>4
<1>6. \A i \in 1..n : o[i] = Output({m[i]}, share) /\ o[i].to = {m[i]} /\ o[i].sats = share
  BY <1>4 DEF Output
<1>7. SatsAt(o, 1..n) = share * n
  <2>1. 1..n \in SUBSET (1..3)
    BY <1>2
  <2>2. SatsAt(o, 1..n) = (IF 1 \in 1..n THEN o[1].sats ELSE 0)
                        + (IF 2 \in 1..n THEN o[2].sats ELSE 0)
                        + (IF 3 \in 1..n THEN o[3].sats ELSE 0)
    BY <1>6, <2>1, SatsAre
  <2>3. CASE n = 2
    BY <1>6, <2>2, <2>3
  <2>4. CASE n = 3
    BY <1>6, <2>2, <2>4
  <2> QED BY <1>2, <2>3, <2>4
<1>8. ASSUME NEW p \in r
      PROVE  /\ SatsAt(o, {i \in DOMAIN o : o[i].to = {p}}) = share
             /\ \E i \in 1..n : /\ o[i] = Output(PayoutOf(p), share)
                                /\ \A j \in 1..n : o[j].to = PayoutOf(p) => j = i
  <2>1. PICK i \in 1..n : m[i] = p
    BY <1>1
  <2>2. \A j \in 1..n : o[j].to = {p} => j = i
    <3>1. \A x, y : {x} = {y} => x = y
      OBVIOUS
    <3>2. \A j \in 1..n : o[j].to = {p} => m[j] = p
      <4> HIDE DEF n
      <4> QED BY <1>6, <3>1
    <3> QED BY <1>1, <2>1, <3>2
  <2>3. {j \in DOMAIN o : o[j].to = {p}} = {i}
    BY <1>5, <1>6, <2>1, <2>2
  <2>4. i = 1 \/ i = 2 \/ i = 3
    BY <1>2
  <2>5. /\ {i} \in SUBSET (1..3)
        /\ \A j \in {i} : o[j].sats \in Int
    <3>1. o[i].sats \in Int
      BY <1>6
    <3>2. {i} \in SUBSET (1..3)
      BY <2>4
    <3> QED BY <3>1, <3>2
  <2>6. SatsAt(o, {i}) = share
    <3>1. SatsAt(o, {i}) = (IF 1 \in {i} THEN o[1].sats ELSE 0)
                         + (IF 2 \in {i} THEN o[2].sats ELSE 0)
                         + (IF 3 \in {i} THEN o[3].sats ELSE 0)
      BY <2>5, SatsAre
    <3>2. o[i].sats = share
      BY <1>6
    <3> HIDE DEF n
    <3>3. CASE i = 1
      BY <3>1, <3>2, <3>3
    <3>4. CASE i = 2
      BY <3>1, <3>2, <3>4
    <3>5. CASE i = 3
      BY <3>1, <3>2, <3>5
    <3> QED BY <2>4, <3>3, <3>4, <3>5
  <2> QED BY <1>6, <2>1, <2>2, <2>3, <2>6 DEF PayoutOf
<1>9. Total(o) = share * n
  BY <1>5, <1>7 DEF Total
<1>10. \A p \in r : PaidTo(PayoutOf(p), o) = share
  BY <1>8 DEF PaidTo, PayoutOf
<1>11. \A j \in 1..n : \E p \in r : o[j].to = PayoutOf(p)
  BY <1>1, <1>6 DEF PayoutOf
<1> QED BY <1>3, <1>5, <1>6, <1>8, <1>9, <1>10, <1>11

-----------------------------------------------------------------------------
(* What a builder or a command makes of coins.                             *)

(* What is typed names a coin, with a script and sats.                     *)
LEMMA TypedIs ==
    ASSUME NEW t \in Typed
    PROVE  /\ t.coin \in Outpoints
           /\ t.claimed.to \in SUBSET Participants
           /\ t.claimed.sats \in Nat
           /\ t.claimed = Output(t.claimed.to, t.claimed.sats)
           /\ t = [coin |-> t.coin, claimed |-> t.claimed]
  BY TypedCoins DEF Output

(* So is what is on chain.                                                 *)
LEMMA OnChainIs ==
    ASSUME NEW o \in Outpoints
    PROVE  /\ OnChain[o].to \in SUBSET Participants
           /\ OnChain[o].sats \in Nat
           /\ OnChain[o] = Output(OnChain[o].to, OnChain[o].sats)
  BY CoinsOnChain DEF Output

(* A round has two or three members and is a vault.                        *)
LEMMA RoundIs ==
    ASSUME NEW r \in VaultRounds
    PROVE  /\ IsFiniteSet(r) /\ Cardinality(r) \in 2..3
           /\ r \in SUBSET Participants /\ r # {}
           /\ IsVault(r)
           /\ \A p \in r : /\ IsFiniteSet(r \ {p})
                           /\ Cardinality(r \ {p}) = Cardinality(r) - 1
                           /\ r \ {p} # {p} /\ p \in Participants
<1>1. IsFiniteSet(r) /\ Cardinality(r) \in 2..3 /\ r \in SUBSET Participants
  BY ThreeParticipants, FS_Subset DEF VaultRounds
<1>2. r # {}
  BY <1>1, FS_EmptySet
<1>3. IsVault(r)
  BY <1>1 DEF IsVault
<1>4. \A p \in r : IsFiniteSet(r \ {p}) /\ Cardinality(r \ {p}) = Cardinality(r) - 1
  BY <1>1, FS_RemoveElement
<1> QED BY <1>1, <1>2, <1>3, <1>4

(* The sats of a leaver, and of those who stay.                            *)
Leave(r) == IF Cardinality(r) = 3 THEN FirstWithdrawal ELSE SecondWithdrawal

(* What is left for those who stay.                                        *)
Rest(r, sats) == sats - Leave(r) - SoloFeeOf(r)

(* What they must be left at least.                                        *)
FloorOf(r) == IF Cardinality(r) = 3 THEN RoundOneFloor ELSE RoundTwoFloor

(* They are sums of the schedule.                                          *)
LEMMA LeaveIsInt ==
    ASSUME NEW r, NEW sats \in Int
    PROVE  /\ Leave(r) \in Int /\ Rest(r, sats) \in Int /\ FloorOf(r) \in Int
           /\ SoloFeeOf(r) \in Int /\ SoloFeeOf(r) > 0
           /\ SoloFeeOf(r) <= SoloFeeBudget /\ SoloFeeOf(r) >= RelayFloor
<1>1. SoloFee \in Int /\ SoloFee > 0 /\ SoloFee >= RelayFloor /\ 2 * SoloFee <= SoloFeeBudget
  BY SatsAreIntegers, CommittedEconomics, FeesRelay DEF ValidEconomics
<1>2. /\ SoloFeeOf(r) \in Int /\ SoloFeeOf(r) > 0
      /\ SoloFeeOf(r) <= SoloFeeBudget /\ SoloFeeOf(r) >= RelayFloor
  BY <1>1, SatsAreIntegers DEF SoloFeeOf
<1>3. RoundOneFloor \in Int /\ RoundTwoFloor \in Int
  BY SatsAreIntegers DEF RoundOneFloor, RoundTwoFloor
<1> QED BY <1>2, <1>3, SatsAreIntegers DEF Leave, Rest, FloorOf

(* A policy, written out.                                                  *)
LEMMA PolicyIs ==
    ASSUME NEW r, NEW p
    PROVE  /\ SoloPolicy(r, p).key = <<r, p>>
           /\ SoloPolicy(r, p).payout = Output(PayoutOf(p), Leave(r))
           /\ SoloPolicy(r, p).payout.sats = Leave(r)
           /\ SoloPolicy(r, p).next = r \ {p}
           /\ SoloPolicy(r, p).floor = FloorOf(r)
<1>1. PICK y : y = SoloPolicy(r, p)
  OBVIOUS
<1>2. /\ y.key = <<r, p>> /\ y.next = r \ {p} /\ y.floor = FloorOf(r)
      /\ y.payout = Output(PayoutOf(p), Leave(r))
  BY <1>1 DEF SoloPolicy, FloorOf, Leave
<1>3. y.payout.sats = Leave(r)
  BY <1>2 DEF Output
<1> QED BY <1>1, <1>2, <1>3

(* The outputs of a withdrawal.                                            *)
WithdrawalPays(r, p, sats) ==
    <<Output(PayoutOf(p), Leave(r)), Output(r \ {p}, Rest(r, sats))>>

(* A withdrawal, written out.                                              *)
LEMMA WithdrawalIs ==
    ASSUME NEW r, NEW p, NEW sats
    PROVE  /\ SoloWithdrawal(r, p, sats).outputs =
                WithdrawalPays(r, p, sats)
           /\ CanBuildSolo(r, p, sats) => p \in r /\ Rest(r, sats) >= FloorOf(r)
<1>1. PICK y : y = SoloPolicy(r, p)
  OBVIOUS
<1>2. /\ y.key = <<r, p>> /\ y.next = r \ {p} /\ y.floor = FloorOf(r)
      /\ y.payout = Output(PayoutOf(p), Leave(r)) /\ y.payout.sats = Leave(r)
  BY <1>1, PolicyIs
<1>3. SoloWithdrawal(r, p, sats).outputs
         = <<y.payout, Output(y.next, sats - y.payout.sats - SoloFeeOf(r))>>
  BY <1>1 DEF SoloWithdrawal, Withdrawal, Transaction
<1>4. SoloWithdrawal(r, p, sats).outputs = WithdrawalPays(r, p, sats)
  BY <1>2, <1>3 DEF Rest, WithdrawalPays
<1>5. SoloWithdrawal(r, p, sats).outputs[2].sats = Rest(r, sats)
  BY <1>4 DEF Output, WithdrawalPays
<1>6. CanBuildSolo(r, p, sats) => p \in r /\ Rest(r, sats) >= FloorOf(r)
  BY <1>1, <1>2, <1>5 DEF CanBuildSolo
<1> QED BY <1>4, <1>6

(* The files of the builders, field by field.                              *)
LEMMA SoloPsbtIs ==
    ASSUME NEW r, NEW p, NEW coin, NEW sats
    PROVE  LET psbt == SoloPsbt(r, p, coin, sats) IN
           /\ psbt.tx.coin = coin /\ psbt.tx.delay = 0 /\ psbt.claimed = Output(r, sats)
           /\ psbt.leaves = SoloLeaves(r, p)
  BY DEF SoloPsbt, Psbt

(* What a withdrawal pays.                                                 *)
LEMMA SoloPsbtPays ==
    ASSUME NEW r, NEW p, NEW coin, NEW sats
    PROVE  SoloPsbt(r, p, coin, sats).tx.outputs =
                WithdrawalPays(r, p, sats)
<1>1. PICK o : o = SoloWithdrawal(r, p, sats).outputs
  OBVIOUS
<1>2. o = WithdrawalPays(r, p, sats)
  BY <1>1, WithdrawalIs
<1>3. SoloPsbt(r, p, coin, sats).tx.outputs = o
  BY <1>1 DEF SoloPsbt, Psbt
<1> QED BY <1>2, <1>3

(* An exit pays equal parts at once.                                       *)
LEMMA CooperativePsbtIs ==
    ASSUME NEW r, NEW coin, NEW sats
    PROVE  LET psbt == CooperativePsbt(r, coin, sats) IN
           /\ psbt.tx.coin = coin /\ psbt.tx.delay = 0 /\ psbt.claimed = Output(r, sats)
           /\ psbt.leaves = {}
           /\ psbt.tx.outputs = SplitOutputs(r, Share(r, sats, CooperativeFee))
  BY DEF CooperativePsbt, Psbt

(* A recovery pays equal parts after the delay.                            *)
LEMMA RecoveryPsbtIs ==
    ASSUME NEW r, NEW coin, NEW sats
    PROVE  LET psbt == RecoveryPsbt(r, coin, sats) IN
           /\ psbt.tx.coin = coin /\ psbt.tx.delay = RecoveryDelay
           /\ psbt.claimed = Output(r, sats)
           /\ psbt.leaves = {RecoveryLeafOf(r)}
           /\ psbt.tx.outputs = SplitOutputs(r, Share(r, sats, RecoveryFee))
  BY DEF RecoveryPsbt, Psbt

(* A sweep pays one address.                                               *)
LEMMA SweepPsbtIs ==
    ASSUME NEW p, NEW coin, NEW sats, NEW destination, NEW fee
    PROVE  LET psbt == SweepPsbt(p, coin, sats, destination, fee) IN
           /\ psbt.tx.coin = coin /\ psbt.tx.delay = 0
           /\ psbt.claimed = Output(PayoutOf(p), sats)
           /\ psbt.tx.outputs = <<Output(destination, sats - fee)>>
  BY DEF SweepPsbt, Psbt

(* A file is one of three kinds, of a round and a coin somebody typed.     *)
LEMMA BuiltIs ==
    ASSUME NEW psbt \in BuiltFiles
    PROVE  \E r \in VaultRounds, t \in Typed :
              \/ \E p \in r : /\ CanBuildSolo(r, p, t.claimed.sats)
                              /\ psbt = SoloPsbt(r, p, t.coin, t.claimed.sats)
              \/ /\ CanBuildCooperative(r, t.claimed.sats)
                 /\ psbt = CooperativePsbt(r, t.coin, t.claimed.sats)
              \/ /\ CanBuildRecovery(r, t.claimed.sats)
                 /\ psbt = RecoveryPsbt(r, t.coin, t.claimed.sats)
  BY DEF BuiltFiles

-----------------------------------------------------------------------------
(* The kinds of finished transactions.                                     *)

(* Somebody has signed for the coin as it is claimed to be.                *)
Bound(report) ==
    \E signature \in report.spend.signatures :
        signature.message = Message(report.spend.tx, report.claimed, report.spend.leaf)

(* What is claimed of an outpoint that is there.                           *)
Claims(report) ==
    /\ report.spend.tx.coin \in Outpoints
    /\ report.claimed.to \in SUBSET Participants /\ report.claimed.sats \in Nat
    /\ Bound(report)

(* Equal parts of what is claimed, by the leaf and after the delay.        *)
Splits(report, leaf, fee, delay) ==
    LET round == report.claimed.to IN
    /\ Claims(report) /\ round \in VaultRounds
    /\ report.spend.leaf = leaf /\ report.spend.tx.delay = delay
    /\ Share(round, report.claimed.sats, fee) \in Int
    /\ report.spend.tx.outputs = SplitOutputs(round, Share(round, report.claimed.sats, fee))

(* By the leaf of the recovery, after the delay.                           *)
IsRecovery(report) ==
    Splits(report, RecoveryLeafOf(report.claimed.to), RecoveryFee, RecoveryDelay)

(* By the key of all, at once.                                             *)
IsExit(report) == Splits(report, KeyPathOf(report.claimed.to), CooperativeFee, 0)

(* A withdrawal the leaver's policy allows.                                *)
IsWithdrawal(report, p) ==
    LET round == report.claimed.to IN
    /\ Claims(report) /\ round \in VaultRounds /\ p \in round
    /\ report.spend.leaf = Leaf(PolicyLeaf, round, {p}) /\ report.spend.tx.delay = 0
    /\ Signers(report.spend) = {p}
    /\ Rest(round, report.claimed.sats) >= FloorOf(round)
    /\ report.spend.tx.outputs =
         WithdrawalPays(round, p, report.claimed.sats)

(* A payout, all of it back to its owner.                                  *)
IsSweep(report, p) ==
    /\ Claims(report) /\ report.claimed.to = PayoutOf(p)
    /\ report.spend.leaf = KeyPathOf(PayoutOf(p)) /\ report.spend.tx.delay = 0
    /\ Signers(report.spend) = {p}
    /\ report.spend.tx.outputs = <<Output(PayoutOf(p), report.claimed.sats - FinalSweepFee)>>

(* An output of a share is a number.                                       *)
LEMMA ShareIs ==
    ASSUME NEW r \in VaultRounds, NEW sats \in Nat, NEW fee \in Nat
    PROVE  /\ Share(r, sats, fee) \in Int
           /\ Share(r, sats, fee) * Cardinality(r) <= sats - fee
           /\ sats - fee < Share(r, sats, fee) * Cardinality(r) + Cardinality(r)
<1>1. Cardinality(r) = 2 \/ Cardinality(r) = 3
  BY DEF VaultRounds
<1>2. CASE Cardinality(r) = 2
  BY <1>2 DEF Share
<1>3. CASE Cardinality(r) = 3
  BY <1>3 DEF Share
<1> QED BY <1>1, <1>2, <1>3

(* What the chain would accept was signed for the coin that is there.      *)
LEMMA AcceptedIsClaimed ==
    ASSUME NEW report, NEW coin, Bound(report), Verified(report.spend, coin)
    PROVE  report.claimed = coin
<1>1. PICK signature \in report.spend.signatures :
         signature.message = Message(report.spend.tx, report.claimed, report.spend.leaf)
  BY DEF Bound
<1>2. signature.message = Message(report.spend.tx, coin, report.spend.leaf)
  BY <1>1 DEF Verified
<1> QED BY <1>1, <1>2 DEF Message

(* A finished recovery, and who has signed it.                             *)
LEMMA RecoveriesAre ==
    ASSUME NEW report \in FinishedRecoveries
    PROVE  /\ IsRecovery(report) /\ Verified(report.spend, report.claimed)
           /\ report.vanished \in report.claimed.to
           /\ AllAgainst(report)
<1>1. PICK v \in Participants, psbt \in BuiltFiles, t \in Typed :
         /\ AuthorizedRecovery(t.claimed.to, v, psbt, t)
         /\ \E chosen \in UNION {[1..n -> MadeShares] : n \in 1..2} :
               /\ CanAggregate(v, psbt, t, chosen)
               /\ report = RecoveryFile(v, psbt, chosen)
               /\ Verified(report.spend, t.claimed)
  BY DEF FinishedRecoveries
<1>2. PICK chosen \in UNION {[1..n -> MadeShares] : n \in 1..2} :
         /\ CanAggregate(v, psbt, t, chosen)
         /\ report = RecoveryFile(v, psbt, chosen)
         /\ Verified(report.spend, t.claimed)
  BY <1>1
<1> DEFINE r == t.claimed.to
           leaf == RecoveryLeafOf(r)
<1>3. /\ t.coin \in Outpoints /\ r \in SUBSET Participants /\ t.claimed.sats \in Nat
      /\ t.claimed = Output(r, t.claimed.sats)
  BY TypedIs
<1>4. /\ r \in VaultRounds /\ v \in r
      /\ psbt = RecoveryPsbt(r, t.coin, t.claimed.sats)
  BY <1>1 DEF AuthorizedRecovery
<1>5. /\ psbt.tx.coin = t.coin /\ psbt.tx.delay = RecoveryDelay /\ psbt.claimed = t.claimed
      /\ psbt.tx.outputs = SplitOutputs(r, Share(r, t.claimed.sats, RecoveryFee))
  BY <1>3, <1>4, RecoveryPsbtIs
<1>6. /\ report.claimed = t.claimed /\ report.vanished = v
      /\ report.shares = {chosen[i] : i \in DOMAIN chosen}
      /\ report.spend.tx = psbt.tx /\ report.spend.leaf = leaf
      /\ report.spend.signatures = {chosen[i].signature : i \in DOMAIN chosen}
  BY <1>2, <1>5 DEF RecoveryFile, Report, Finished, ToSet
<1>7. PICK n \in 1..2 : chosen \in [1..n -> MadeShares]
  BY <1>2
<1>8. n = Cardinality(r) - 1 /\ DOMAIN chosen = 1..n
  <2>1. Len(chosen) = n
    BY <1>7
  <2> QED BY <1>2, <1>7, <2>1 DEF CanAggregate, RecoveryThreshold
<1>9. \A i \in 1..n : /\ chosen[i].vanished = v /\ chosen[i].by \in r /\ chosen[i].by # v
                      /\ chosen[i].signature.message = Message(psbt.tx, psbt.claimed, leaf)
  BY <1>2, <1>5, <1>8 DEF CanAggregate, ShareFits, RecoveryLeafOf, Leaf
<1>10. \A i, j \in 1..n : i # j => chosen[i].by # chosen[j].by
  BY <1>2, <1>8 DEF CanAggregate
<1>11. \A i \in 1..n : chosen[i].signature.by = chosen[i].by
  <2> SUFFICES ASSUME NEW i \in 1..n PROVE chosen[i].signature.by = chosen[i].by
    OBVIOUS
  <2>1. chosen[i] \in MadeShares
    BY <1>7
  <2>2. \E c \in Participants \X Participants \X BuiltFiles \X Typed :
           chosen[i] = ShareOf(c[1], c[2], c[3])
    BY <2>1 DEF MadeShares
  <2> QED BY <2>2 DEF ShareOf, Signature
<1>12. Bound(report)
  <2>1. 1 \in DOMAIN chosen
    BY <1>8
  <2>2. chosen[1].signature \in report.spend.signatures
    BY <1>6, <2>1
  <2> QED BY <1>5, <1>6, <1>8, <1>9, <2>1, <2>2 DEF Bound
<1>13. IsRecovery(report)
  <2>1. Share(r, t.claimed.sats, RecoveryFee) \in Int
    BY <1>3, <1>4, ShareIs, SatsAreIntegers
  <2> QED BY <1>3, <1>4, <1>5, <1>6, <1>12, <2>1 DEF IsRecovery, Splits, Claims
<1>14. Signers(report.spend) = {chosen[i].by : i \in 1..n}
  BY <1>6, <1>8, <1>11 DEF Signers
<1>15. {chosen[i].by : i \in 1..n} = r \ {v}
  <2> DEFINE all == {chosen[i].by : i \in 1..n}
  <2>1. all \subseteq r \ {v}
    BY <1>9
  <2>2. IsFiniteSet(r \ {v}) /\ Cardinality(r \ {v}) = n
    BY <1>4, <1>8, RoundIs
  <2>3. Cardinality(all) = n
    <3>1. PICK x, y : x = chosen[1].by /\ y = chosen[2].by
      OBVIOUS
    <3>2. CASE n = 1
      <4>1. all = {x}
        BY <3>1, <3>2
      <4> HIDE DEF all
      <4> QED BY <3>2, <4>1, FS_Singleton
    <3>3. CASE n = 2
      <4>1. all = {x, y} /\ x # y
        BY <1>10, <3>1, <3>3
      <4> HIDE DEF all
      <4> QED BY <3>3, <4>1, PairSize
    <3> HIDE DEF all
    <3> QED BY <1>7, <3>2, <3>3
  <2> QED BY <2>1, <2>2, <2>3, FS_Subset
<1>16. AllAgainst(report)
  <2>1. report.spend.leaf.round = r
    BY <1>6 DEF RecoveryLeafOf, Leaf
  <2>2. \A share \in report.shares : share.vanished = report.vanished
    BY <1>6, <1>8, <1>9
  <2> QED BY <1>6, <1>14, <1>15, <2>1, <2>2 DEF AllAgainst, RecoverySigners
<1> QED BY <1>2, <1>4, <1>6, <1>13, <1>16

(* A leaf of a recovery, or of a withdrawal, says whose file it is.        *)
LEMMA LeafTells ==
    ASSUME NEW psbt \in BuiltFiles, NEW r
    PROVE  /\ RecoveryLeafOf(r) \in psbt.leaves =>
                \E t \in Typed : /\ r \in VaultRounds
                                 /\ psbt = RecoveryPsbt(r, t.coin, t.claimed.sats)
           /\ \A p : Leaf(PolicyLeaf, r, {p}) \in psbt.leaves =>
                \E t \in Typed : /\ r \in VaultRounds /\ p \in r
                                 /\ CanBuildSolo(r, p, t.claimed.sats)
                                 /\ psbt = SoloPsbt(r, p, t.coin, t.claimed.sats)
<1>1. PICK k \in VaultRounds, t \in Typed :
         \/ \E q \in k : /\ CanBuildSolo(k, q, t.claimed.sats)
                         /\ psbt = SoloPsbt(k, q, t.coin, t.claimed.sats)
         \/ psbt = CooperativePsbt(k, t.coin, t.claimed.sats)
         \/ psbt = RecoveryPsbt(k, t.coin, t.claimed.sats)
  BY BuiltIs
<1>2. CASE \E q \in k : /\ CanBuildSolo(k, q, t.claimed.sats)
                        /\ psbt = SoloPsbt(k, q, t.coin, t.claimed.sats)
  <2>1. PICK q \in k : /\ CanBuildSolo(k, q, t.claimed.sats)
                       /\ psbt = SoloPsbt(k, q, t.coin, t.claimed.sats)
    BY <1>2
  <2>2. psbt.leaves = {Leaf(PolicyLeaf, k, {q}), Leaf(IdentificationLeaf, k, {q})}
    <3>1. psbt.leaves = SoloLeaves(k, q)
      BY <2>1, SoloPsbtIs
    <3> QED BY <3>1 DEF SoloLeaves
  <2>3. RecoveryLeafOf(r) \notin psbt.leaves
    BY <2>2 DEF RecoveryLeafOf, Leaf, RecoveryPath, PolicyLeaf, IdentificationLeaf
  <2>4. ASSUME NEW p, Leaf(PolicyLeaf, r, {p}) \in psbt.leaves PROVE r = k /\ p = q
    <3>1. Leaf(PolicyLeaf, r, {p}).round = k /\ Leaf(PolicyLeaf, r, {p}).keys = {q}
      BY <2>2, <2>4 DEF Leaf
    <3> QED BY <3>1 DEF Leaf
  <2> QED BY <2>1, <2>3, <2>4
<1>3. CASE psbt = CooperativePsbt(k, t.coin, t.claimed.sats)
  BY <1>3, CooperativePsbtIs
<1>4. CASE psbt = RecoveryPsbt(k, t.coin, t.claimed.sats)
  <2>1. psbt.leaves = {RecoveryLeafOf(k)}
    BY <1>4, RecoveryPsbtIs
  <2>2. \A p : Leaf(PolicyLeaf, r, {p}) \notin psbt.leaves
    BY <2>1 DEF RecoveryLeafOf, Leaf, RecoveryPath, PolicyLeaf
  <2>3. RecoveryLeafOf(r) \in psbt.leaves => r = k
    BY <2>1 DEF RecoveryLeafOf, Leaf
  <2> QED BY <1>4, <2>2, <2>3
<1> QED BY <1>1, <1>2, <1>3, <1>4

(* Every leaf of a vault is a path to spend it.                            *)
LEMMA PathsAre ==
    ASSUME NEW r \in VaultRounds
    PROVE  /\ KeyPathOf(r) \in PathsOf(r) /\ RecoveryLeafOf(r) \in PathsOf(r)
           /\ \A p \in r : Leaf(PolicyLeaf, r, {p}) \in PathsOf(r)
<1>1. PathsOf(r) = {KeyPathOf(r)} \cup VaultTree(r)
  BY RoundIs DEF PathsOf
<1>2. RecoveryLeafOf(r) \in VaultTree(r)
  BY DEF VaultTree
<1>3. \A p \in r : Leaf(PolicyLeaf, r, {p}) \in SoloLeaves(r, p)
  BY DEF SoloLeaves
<1>4. \A p \in r : SoloLeaves(r, p) \subseteq VaultTree(r)
  BY DEF VaultTree
<1> QED BY <1>1, <1>2, <1>3, <1>4

(* Equal parts leave the fee and relay.                                    *)
LEMMA PartsRelay ==
    ASSUME NEW r \in VaultRounds, NEW sats \in Nat, NEW fee \in {CooperativeFee, RecoveryFee}
    PROVE  Relays(sats - Total(SplitOutputs(r, Share(r, sats, fee))))
<1>1. fee \in Nat /\ fee >= RelayFloor /\ RelayFloor \in Nat
  BY SatsAreIntegers, FeesRelay
<1>2. PICK share : share = Share(r, sats, fee)
  OBVIOUS
<1>3. share \in Int /\ share * Cardinality(r) <= sats - fee
  BY <1>1, <1>2, ShareIs
<1>4. Total(SplitOutputs(r, share)) = share * Cardinality(r)
  BY <1>3, EqualParts
<1>5. share * Cardinality(r) \in Int
  BY <1>3, RoundIs
<1> QED BY <1>1, <1>2, <1>3, <1>4, <1>5 DEF Relays

(* A withdrawal leaves its fee and relays.                                 *)
LEMMA WithdrawalRelays ==
    ASSUME NEW r \in VaultRounds, NEW p \in r, NEW sats \in Nat
    PROVE  Relays(sats - Total(WithdrawalPays(r, p, sats)))
<1>1. PICK o : o = WithdrawalPays(r, p, sats)
  OBVIOUS
<1>2. PICK x, y : x = Leave(r) /\ y = Rest(r, sats)
  OBVIOUS
<1>3. /\ x \in Int /\ y \in Int /\ y = sats - x - SoloFeeOf(r)
      /\ SoloFeeOf(r) \in Int /\ SoloFeeOf(r) >= RelayFloor
  BY <1>2, LeaveIsInt DEF Rest
<1>4. PICK a, b : a = PayoutOf(p) /\ b = r \ {p} /\ a # b
  BY RoundIs DEF PayoutOf
<1>5. Total(o) = x + y
  <2>1. o = <<Output(a, x), Output(b, y)>>
    BY <1>1, <1>2, <1>4 DEF WithdrawalPays
  <2>2. x \in Int /\ y \in Int /\ a # b
    BY <1>3, <1>4
  <2> QED BY ONLY <2>1, <2>2, TwoOutputs
<1>6. sats - Total(o) >= RelayFloor
  BY <1>3, <1>5, SatsAreIntegers
<1> QED BY <1>1, <1>6 DEF Relays

-----------------------------------------------------------------------------
(* The commands, kind by kind.                                             *)

(* Nobody is paid other than in equal parts by the demonstration's         *)
(* recovery, which is signed by as many as the leaf counts.                *)
LEMMA LocalRecoveriesAre ==
    ASSUME NEW report \in LocalRecoveries
    PROVE  IsRecovery(report) /\ Verified(report.spend, report.claimed)
<1>1. PICK p \in Participants, r \in VaultRounds, psbt \in BuiltFiles, S \in SUBSET Participants :
         /\ RecoveryLeafOf(r) \in psbt.leaves
         /\ S \subseteq r \ {p} /\ Cardinality(S) >= RecoveryThreshold(r)
         /\ report = LocallySigned(psbt, RecoveryLeafOf(r),
                        CHOOSE s \in SUBSET S : Cardinality(s) = RecoveryThreshold(r))
  BY DEF LocalRecoveries
<1>2. PICK t \in Typed : psbt = RecoveryPsbt(r, t.coin, t.claimed.sats)
  BY <1>1, LeafTells
<1> DEFINE sats == t.claimed.sats
           leaf == RecoveryLeafOf(r)
<1>3. t.coin \in Outpoints /\ sats \in Nat
  BY TypedIs
<1>4. /\ psbt.tx.coin = t.coin /\ psbt.tx.delay = RecoveryDelay /\ psbt.claimed = Output(r, sats)
      /\ psbt.tx.outputs = SplitOutputs(r, Share(r, sats, RecoveryFee))
  BY <1>2, RecoveryPsbtIs
<1>5. PICK s \in SUBSET S :
         /\ Cardinality(s) = RecoveryThreshold(r)
         /\ report = LocallySigned(psbt, leaf, s)
  <2>1. \E s \in SUBSET S : Cardinality(s) = RecoveryThreshold(r)
    <3>1. IsFiniteSet(r) /\ Cardinality(r) \in 2..3 /\ RecoveryThreshold(r) = Cardinality(r) - 1
      BY RoundIs DEF RecoveryThreshold
    <3>2. IsFiniteSet(S) /\ Cardinality(S) <= Cardinality(r) /\ Cardinality(S) \in Nat
      BY <1>1, <3>1, FS_Subset, FS_CardinalityType
    <3>3. CASE Cardinality(S) = RecoveryThreshold(r)
      BY <3>3
    <3>4. CASE Cardinality(S) = Cardinality(r)
      <4>1. PICK q : q \in S
        BY <3>1, <3>2, <3>4, FS_EmptySet
      <4>2. Cardinality(S \ {q}) = Cardinality(S) - 1
        BY <3>2, <4>1, FS_RemoveElement
      <4> QED BY <3>1, <3>4, <4>2
    <3> QED BY <1>1, <3>1, <3>2, <3>3, <3>4
  <2> QED BY <1>1, <2>1
<1>6. /\ report.claimed = psbt.claimed /\ report.spend.tx = psbt.tx /\ report.spend.leaf = leaf
      /\ report.spend.signatures = {Signature(q, Message(psbt.tx, psbt.claimed, leaf)) : q \in s}
  BY <1>5 DEF LocallySigned, Report, Finished
<1>7. report.claimed.to = r /\ report.claimed.sats = sats
  BY <1>4, <1>6 DEF Output
<1>8. s # {} /\ s \subseteq r
  <2>1. Cardinality(s) # 0
    BY <1>5, RoundIs DEF RecoveryThreshold
  <2> QED BY <1>1, <2>1, FS_EmptySet
<1>9. \A signature \in report.spend.signatures :
         signature.message = Message(report.spend.tx, report.claimed, leaf)
  BY <1>6 DEF Signature
<1>10. Bound(report)
  <2>1. PICK q : q \in s
    BY <1>8
  <2>2. Signature(q, Message(psbt.tx, psbt.claimed, leaf)) \in report.spend.signatures
    BY <1>6, <2>1
  <2> QED BY <1>6, <1>9, <2>2 DEF Bound
<1>11. Share(r, sats, RecoveryFee) \in Int
  BY <1>3, ShareIs, SatsAreIntegers
<1>12. IsRecovery(report)
  BY <1>3, <1>4, <1>6, <1>7, <1>10, <1>11, RoundIs DEF IsRecovery, Splits, Claims
<1>13. Signers(report.spend) = s
  <2>1. Signers(report.spend) = {Signature(q, Message(psbt.tx, psbt.claimed, leaf)).by : q \in s}
    BY <1>6 DEF Signers
  <2> QED BY <2>1 DEF Signature
<1>14. RecoverySatisfied(report.spend)
  <2>1. report.spend.leaf.keys = r /\ report.spend.leaf.round = r
    BY <1>6 DEF RecoveryLeafOf, Leaf
  <2>2. report.spend.tx.delay >= RecoveryDelay
    BY <1>4, <1>6, SatsAreIntegers
  <2> QED BY <1>5, <1>8, <1>13, <2>1, <2>2 DEF RecoverySatisfied
<1>15. Relays(report.claimed.sats - Total(report.spend.tx.outputs))
  BY <1>3, <1>4, <1>6, <1>7, PartsRelay
<1>16. report.spend.leaf.kind = RecoveryPath /\ report.spend.leaf \in PathsOf(report.claimed.to)
  BY <1>6, <1>7, PathsAre DEF RecoveryLeafOf, Leaf
<1> QED BY <1>6, <1>9, <1>12, <1>14, <1>15, <1>16 DEF Verified

(* A sweep pays its owner.                                                 *)
LEMMA SweepsAre ==
    ASSUME NEW report \in FinishedSweeps
    PROVE  \E p \in Participants : IsSweep(report, p) /\ Verified(report.spend, report.claimed)
<1>1. \E p \in Participants, t \in Typed : \E psbt :
         /\ AuthorizedSweep(p, psbt, t, PayoutOf(p), FinalSweepFee)
         /\ report = SweepFile(p, psbt) /\ Verified(SweepFile(p, psbt).spend, t.claimed)
  <2> DEFINE Built == {SweepPsbt(q, u.coin, u.claimed.sats, PayoutOf(q), FinalSweepFee) :
                          q \in Participants, u \in {t \in Typed : CanBuildSweep(t.claimed.sats)}}
             Tasks == {c \in Participants \X Built \X Typed :
                         AuthorizedSweep(c[1], c[2], c[3], PayoutOf(c[1]), FinalSweepFee)}
  <2>1. report \in {SweepFile(c[1], c[2]) : c \in
            {c \in Tasks : Verified(SweepFile(c[1], c[2]).spend, c[3].claimed)}}
    BY DEF FinishedSweeps
  <2>2. PICK c \in Tasks : /\ Verified(SweepFile(c[1], c[2]).spend, c[3].claimed)
                           /\ report = SweepFile(c[1], c[2])
    BY <2>1
  <2> HIDE DEF Built
  <2>3. c \in Participants \X Built \X Typed
    OBVIOUS
  <2>4. AuthorizedSweep(c[1], c[2], c[3], PayoutOf(c[1]), FinalSweepFee)
    OBVIOUS
  <2>5. PICK p, psbt, t : p = c[1] /\ psbt = c[2] /\ t = c[3]
    OBVIOUS
  <2>6. p \in Participants /\ t \in Typed
    BY <2>3, <2>5
  <2>7. /\ AuthorizedSweep(p, psbt, t, PayoutOf(p), FinalSweepFee)
        /\ report = SweepFile(p, psbt) /\ Verified(SweepFile(p, psbt).spend, t.claimed)
    BY <2>2, <2>4, <2>5
  <2> HIDE DEF Tasks
  <2> QED BY ONLY <2>6, <2>7
<1>2. PICK p \in Participants, t \in Typed : \E psbt :
         /\ AuthorizedSweep(p, psbt, t, PayoutOf(p), FinalSweepFee)
         /\ report = SweepFile(p, psbt) /\ Verified(SweepFile(p, psbt).spend, t.claimed)
  BY <1>1
<1>3. PICK psbt :
         /\ AuthorizedSweep(p, psbt, t, PayoutOf(p), FinalSweepFee)
         /\ report = SweepFile(p, psbt) /\ Verified(report.spend, t.claimed)
  BY <1>2
<1> DEFINE sats == t.claimed.sats
           leaf == KeyPathOf(PayoutOf(p))
<1>4. t.coin \in Outpoints /\ sats \in Nat /\ t.claimed.to \in SUBSET Participants
  BY TypedIs
<1>5. /\ t.claimed.to = PayoutOf(p) /\ psbt.claimed = t.claimed
      /\ psbt = SweepPsbt(p, t.coin, sats, PayoutOf(p), FinalSweepFee)
  BY <1>3 DEF AuthorizedSweep, SpendsTrusted
<1>6. /\ psbt.tx.coin = t.coin /\ psbt.tx.delay = 0
      /\ psbt.tx.outputs = <<Output(PayoutOf(p), sats - FinalSweepFee)>>
  BY <1>5, SweepPsbtIs
<1>7. /\ report.claimed = t.claimed /\ report.spend.tx = psbt.tx /\ report.spend.leaf = leaf
      /\ report.spend.signatures = {Signature(p, Message(psbt.tx, psbt.claimed, leaf))}
  BY <1>3, <1>5 DEF SweepFile, Report, Finished
<1>8. Bound(report)
  BY <1>5, <1>7 DEF Bound, Signature
<1>9. Signers(report.spend) = {p}
  BY <1>7 DEF Signers, Signature
<1> QED BY <1>3, <1>4, <1>5, <1>6, <1>7, <1>8, <1>9 DEF IsSweep, Claims

(* What the leaver's file pays.                                            *)
LEMMA SoloFileIs ==
    ASSUME NEW r \in VaultRounds, NEW p \in r, NEW t \in Typed, NEW psbt, NEW report,
           CanBuildSolo(r, p, t.claimed.sats),
           psbt = SoloPsbt(r, p, t.coin, t.claimed.sats),
           report.claimed = psbt.claimed, report.spend.tx = psbt.tx,
           report.spend.leaf = Leaf(PolicyLeaf, r, {p}),
           report.spend.signatures =
              {Signature(p, Message(psbt.tx, psbt.claimed, Leaf(PolicyLeaf, r, {p})))}
    PROVE  IsWithdrawal(report, p) /\ Verified(report.spend, report.claimed)
<1> DEFINE sats == t.claimed.sats
           leaf == Leaf(PolicyLeaf, r, {p})
<1>1. t.coin \in Outpoints /\ sats \in Nat
  BY TypedIs
<1>2. /\ psbt.tx.coin = t.coin /\ psbt.tx.delay = 0 /\ psbt.claimed = Output(r, sats)
      /\ psbt.tx.outputs = WithdrawalPays(r, p, sats)
  <2>1. psbt.tx.coin = t.coin /\ psbt.tx.delay = 0 /\ psbt.claimed = Output(r, sats)
    BY SoloPsbtIs
  <2> QED BY <2>1, SoloPsbtPays
<1>3. report.claimed.to = r /\ report.claimed.sats = sats
  BY <1>2 DEF Output
<1>4. \A signature \in report.spend.signatures :
         signature.message = Message(report.spend.tx, report.claimed, report.spend.leaf)
  BY DEF Signature
<1>5. Bound(report)
  BY <1>4 DEF Bound
<1>6. Signers(report.spend) = {p}
  BY DEF Signers, Signature
<1>7. Rest(r, sats) >= FloorOf(r)
  BY WithdrawalIs
<1>8. IsWithdrawal(report, p)
  <2>1. Claims(report)
    BY <1>1, <1>2, <1>3, <1>5, RoundIs DEF Claims
  <2> QED BY <1>2, <1>3, <1>6, <1>7, <2>1 DEF IsWithdrawal
<1>9. Relays(report.claimed.sats - Total(report.spend.tx.outputs))
  BY <1>1, <1>2, <1>3, WithdrawalRelays
<1>10. /\ report.spend.leaf.kind # RecoveryPath /\ report.spend.leaf.keys = {p}
       /\ report.spend.leaf \in PathsOf(report.claimed.to)
  BY <1>3, PathsAre DEF Leaf, PolicyLeaf, RecoveryPath
<1>11. KeysSatisfied(report.spend)
  BY <1>6, <1>10 DEF KeysSatisfied
<1> QED BY <1>4, <1>8, <1>9, <1>10, <1>11 DEF Verified

(* A file that satisfies a policy is the leaver's own.                     *)
LEMMA PolicyTells ==
    ASSUME NEW psbt \in BuiltFiles, NEW p, PassesPolicy(p, psbt)
    PROVE  \E t \in Typed, r \in VaultRounds :
              /\ p \in r /\ CanBuildSolo(r, p, t.claimed.sats)
              /\ psbt = SoloPsbt(r, p, t.coin, t.claimed.sats)
<1> DEFINE policyLeaves == {leaf \in psbt.leaves : leaf.kind = PolicyLeaf}
           first == CHOOSE leaf \in policyLeaves : TRUE
           round == psbt.claimed.to
<1>1. PolicyView(psbt).leaf = <<round, p>>
  <2>1. PolicyView(psbt).leaf = SoloPolicy(round, p).key
    BY DEF PassesPolicy, SatisfiesPolicy
  <2> QED BY <2>1, PolicyIs
<1>2. PolicyView(psbt).leaf =
         IF policyLeaves = {} THEN <<>> ELSE <<first.round, CHOOSE q \in first.keys : TRUE>>
  BY DEF PolicyView, Transaction
<1>3. policyLeaves # {}
  <2>1. <<round, p>> # <<>>
    OBVIOUS
  <2> HIDE DEF policyLeaves
  <2> QED BY <1>1, <1>2, <2>1
<1>4. PICK leaf : leaf = first
  OBVIOUS
<1>5. leaf \in psbt.leaves /\ leaf.kind = PolicyLeaf
  BY <1>3, <1>4
<1>6. PICK q : q = CHOOSE x \in leaf.keys : TRUE
  OBVIOUS
<1>7. <<leaf.round, q>> = <<round, p>>
  <2> HIDE DEF policyLeaves, first
  <2> QED BY <1>1, <1>2, <1>3, <1>4, <1>6
<1>8. leaf.round = round /\ q = p
  BY <1>7
<1>9. PICK k \in VaultRounds, t \in Typed :
         \/ \E m \in k : /\ CanBuildSolo(k, m, t.claimed.sats)
                         /\ psbt = SoloPsbt(k, m, t.coin, t.claimed.sats)
         \/ psbt = CooperativePsbt(k, t.coin, t.claimed.sats)
         \/ psbt = RecoveryPsbt(k, t.coin, t.claimed.sats)
  BY BuiltIs
<1>10. psbt # CooperativePsbt(k, t.coin, t.claimed.sats)
  BY <1>5, CooperativePsbtIs
<1>11. psbt # RecoveryPsbt(k, t.coin, t.claimed.sats)
  <2>1. RecoveryLeafOf(k).kind # PolicyLeaf
    BY DEF RecoveryLeafOf, Leaf, RecoveryPath, PolicyLeaf
  <2> QED BY <1>5, <2>1, RecoveryPsbtIs
<1>12. PICK m \in k : /\ CanBuildSolo(k, m, t.claimed.sats)
                      /\ psbt = SoloPsbt(k, m, t.coin, t.claimed.sats)
  BY <1>9, <1>10, <1>11
<1>13. psbt.leaves = SoloLeaves(k, m)
  BY <1>12, SoloPsbtIs
<1>14. leaf.keys = {m}
  BY <1>5, <1>13 DEF SoloLeaves, Leaf
<1>15. q = m
  BY <1>6, <1>14
<1> QED BY <1>8, <1>12, <1>15

(* Whatever file the service was asked to sign, what is accepted of its    *)
(* answer is the withdrawal of the leaver.                                 *)
LEMMA WithdrawalsAre ==
    ASSUME NEW report \in FinishedWithdrawals
    PROVE  \E p \in Participants : IsWithdrawal(report, p) /\ Verified(report.spend, report.claimed)
<1>1. PICK c \in Participants \X BuiltFiles :
         /\ PassesPolicy(c[1], c[2])
         /\ \E answer \in ServiceAnswers(c[2].tx) :
               AuthorizedArtifact(c[2].tx, answer) /\ report = SoloFile(c[1], c[2], answer)
  BY DEF FinishedWithdrawals
<1>2. PICK p, psbt : p = c[1] /\ psbt = c[2]
  OBVIOUS
<1>3. p \in Participants /\ psbt \in BuiltFiles
  BY <1>2
<1>4. /\ PassesPolicy(p, psbt)
      /\ \E answer : AuthorizedArtifact(psbt.tx, answer) /\ report = SoloFile(p, psbt, answer)
  BY <1>1, <1>2
<1>5. PICK answer : AuthorizedArtifact(psbt.tx, answer) /\ report = SoloFile(p, psbt, answer)
  BY <1>4
<1>6. answer.tx = psbt.tx /\ answer.path = PolicyLeaf
  BY <1>5 DEF AuthorizedArtifact
<1>7. PICK t \in Typed, r \in VaultRounds :
         /\ p \in r /\ CanBuildSolo(r, p, t.claimed.sats)
         /\ psbt = SoloPsbt(r, p, t.coin, t.claimed.sats)
  BY <1>3, <1>4, PolicyTells
<1>8. psbt.claimed = Output(r, t.claimed.sats)
  BY <1>7, SoloPsbtIs
<1>9. psbt.claimed.to = r
  BY <1>8 DEF Output
<1>10. /\ report.claimed = psbt.claimed /\ report.spend.tx = psbt.tx
       /\ report.spend.leaf = Leaf(PolicyLeaf, r, {p})
       /\ report.spend.signatures =
            {Signature(p, Message(psbt.tx, psbt.claimed, Leaf(PolicyLeaf, r, {p})))}
  BY <1>5, <1>6, <1>9 DEF SoloFile, Report, Finished
<1>11. IsWithdrawal(report, p) /\ Verified(report.spend, report.claimed)
  BY <1>7, <1>10, SoloFileIs
<1> QED BY <1>3, <1>11

(* So is what the demonstration's signer makes.                            *)
LEMMA LocalWithdrawalsAre ==
    ASSUME NEW report \in LocalWithdrawals
    PROVE  \E p \in Participants : IsWithdrawal(report, p) /\ Verified(report.spend, report.claimed)
<1>1. PICK p \in Participants, r \in VaultRounds, psbt \in BuiltFiles :
         /\ Leaf(PolicyLeaf, r, {p}) \in psbt.leaves
         /\ report = LocallySigned(psbt, Leaf(PolicyLeaf, r, {p}), {p})
  BY DEF LocalWithdrawals
<1>2. PICK t \in Typed : /\ p \in r /\ CanBuildSolo(r, p, t.claimed.sats)
                         /\ psbt = SoloPsbt(r, p, t.coin, t.claimed.sats)
  BY <1>1, LeafTells
<1>3. /\ report.claimed = psbt.claimed /\ report.spend.tx = psbt.tx
      /\ report.spend.leaf = Leaf(PolicyLeaf, r, {p})
      /\ report.spend.signatures =
            {Signature(p, Message(psbt.tx, psbt.claimed, Leaf(PolicyLeaf, r, {p})))}
  BY <1>1 DEF LocallySigned, Report, Finished
<1>4. IsWithdrawal(report, p) /\ Verified(report.spend, report.claimed)
  BY <1>2, <1>3, SoloFileIs
<1> QED BY <1>4

(* An exit everybody has signed.                                           *)
LEMMA ExitsAre ==
    ASSUME NEW context \in ExitContexts
    PROVE  /\ IsExit(ExitFile(context)) /\ ExitFile(context).spend.tx = context.tx
           /\ Verified(ExitFile(context).spend, ExitFile(context).claimed)
<1>1. PICK t \in Typed : AuthorizedExit(t.claimed.to, context, t)
  BY DEF ExitContexts
<1> DEFINE r == t.claimed.to
           sats == t.claimed.sats
           leaf == KeyPathOf(r)
<1>2. PICK report : report = ExitFile(context)
  OBVIOUS
<1>3. r \in VaultRounds /\ context = CooperativePsbt(r, t.coin, sats)
  BY <1>1 DEF AuthorizedExit
<1>4. t.coin \in Outpoints /\ sats \in Nat
  BY TypedIs
<1>5. /\ context.tx.coin = t.coin /\ context.tx.delay = 0
      /\ context.claimed = Output(r, sats)
      /\ context.tx.outputs = SplitOutputs(r, Share(r, sats, CooperativeFee))
  BY <1>3, CooperativePsbtIs
<1>6. context.claimed.to = r /\ context.claimed.sats = sats
  BY <1>5 DEF Output
<1>7. /\ report.claimed = context.claimed /\ report.spend.tx = context.tx
      /\ report.spend.leaf = leaf
      /\ report.spend.signatures =
            {Signature(q, Message(context.tx, context.claimed, leaf)) : q \in r}
  BY <1>2, <1>6 DEF ExitFile, Report, Finished
<1>8. \A signature \in report.spend.signatures :
         signature.message = Message(report.spend.tx, report.claimed, leaf)
  BY <1>7 DEF Signature
<1>9. Bound(report)
  <2>1. PICK q : q \in r
    BY <1>3, RoundIs
  <2>2. Signature(q, Message(context.tx, context.claimed, leaf)) \in report.spend.signatures
    BY <1>7, <2>1
  <2> QED BY <1>7, <1>8, <2>2 DEF Bound
<1>10. Share(r, sats, CooperativeFee) \in Int
  BY <1>3, <1>4, ShareIs, SatsAreIntegers
<1>11. IsExit(report)
  <2>1. Claims(report)
    BY <1>3, <1>4, <1>5, <1>6, <1>7, <1>9, RoundIs DEF Claims
  <2> QED BY <1>3, <1>5, <1>6, <1>7, <1>10, <2>1 DEF IsExit, Splits
<1>12. Signers(report.spend) = r
  <2>1. Signers(report.spend) =
           {Signature(q, Message(context.tx, context.claimed, leaf)).by : q \in r}
    BY <1>7 DEF Signers
  <2> QED BY <2>1 DEF Signature
<1>13. /\ report.spend.leaf.kind # RecoveryPath /\ report.spend.leaf.keys = r
       /\ report.spend.leaf \in PathsOf(report.claimed.to)
  BY <1>3, <1>6, <1>7, PathsAre DEF KeyPathOf, Leaf, KeyPath, RecoveryPath
<1>14. Relays(report.claimed.sats - Total(report.spend.tx.outputs))
  BY <1>3, <1>4, <1>5, <1>6, <1>7, PartsRelay
<1>15. Verified(report.spend, report.claimed)
  BY <1>7, <1>8, <1>12, <1>13, <1>14 DEF Verified, KeysSatisfied
<1> QED BY <1>2, <1>7, <1>11, <1>15

-----------------------------------------------------------------------------
(* What is finished is as agreed.                                          *)

(* The chain accepts it for the coin it claims only.                       *)
LEMMA AgreedIf ==
    ASSUME NEW report, Bound(report), Verified(report.spend, report.claimed),
           report.claimed = OnChain[report.spend.tx.coin] => AgreedSpend(report)
    PROVE  AsAgreed(report)
  BY AcceptedIsClaimed DEF AsAgreed

(* Equal parts are what was agreed.                                        *)
LEMMA SplitAgreed ==
    ASSUME NEW report, NEW leaf, NEW delay, NEW fee, Splits(report, leaf, fee, delay)
    PROVE  AgreedSplit(report.spend, report.claimed, fee)
<1> DEFINE r == report.claimed.to
<1>1. PICK share : share = Share(r, report.claimed.sats, fee)
  OBVIOUS
<1>2. r \in VaultRounds /\ share \in Int /\ report.spend.tx.outputs = SplitOutputs(r, share)
  BY <1>1 DEF Splits
<1>3. \A p \in r : PaidTo(PayoutOf(p), report.spend.tx.outputs) = share
  BY <1>2, EqualParts
<1>4. Len(report.spend.tx.outputs) = Cardinality(r)
  BY <1>2, EqualParts
<1> QED BY <1>1, <1>3, <1>4 DEF AgreedSplit, Share

(* A recovery pays what was agreed.                                        *)
LEMMA RecoveryAgreed ==
    ASSUME NEW report, IsRecovery(report), Verified(report.spend, report.claimed)
    PROVE  AsAgreed(report)
<1>1. AgreedSplit(report.spend, report.claimed, RecoveryFee) /\ Bound(report)
  BY SplitAgreed DEF IsRecovery, Splits, Claims
<1>2. report.spend.leaf.kind = RecoveryPath
  BY DEF IsRecovery, Splits, RecoveryLeafOf, Leaf
<1>3. report.claimed = OnChain[report.spend.tx.coin] => AgreedSpend(report)
  BY <1>1, <1>2 DEF AgreedSpend, RecoveryPath, KeyPath, PolicyLeaf
<1> QED BY <1>1, <1>3, AgreedIf

(* So does an exit.                                                        *)
LEMMA ExitAgreed ==
    ASSUME NEW report, IsExit(report), Verified(report.spend, report.claimed)
    PROVE  AsAgreed(report)
<1>1. AgreedSplit(report.spend, report.claimed, CooperativeFee) /\ Bound(report)
  BY SplitAgreed DEF IsExit, Splits, Claims
<1>2. report.spend.leaf.kind = KeyPath /\ IsVault(report.claimed.to)
  BY RoundIs DEF IsExit, Splits, KeyPathOf, Leaf
<1>3. report.claimed = OnChain[report.spend.tx.coin] => AgreedSpend(report)
  BY <1>1, <1>2 DEF AgreedSpend, RecoveryPath, KeyPath, PolicyLeaf
<1> QED BY <1>1, <1>3, AgreedIf

(* A withdrawal pays the leaver the schedule and leaves the floor.         *)
LEMMA LeaveAgreed ==
    ASSUME NEW r \in VaultRounds, NEW p \in r, NEW sats \in Int, NEW spend, NEW coin,
           coin.to = r, Rest(r, sats) >= FloorOf(r),
           spend.tx.outputs = WithdrawalPays(r, p, sats)
    PROVE  AgreedLeave(spend, coin, p)
<1>1. PICK x, y : x = Leave(r) /\ y = Rest(r, sats)
  OBVIOUS
<1>2. x \in Int /\ y \in Int
  BY <1>1, LeaveIsInt
<1>3. PICK a, b : a = PayoutOf(p) /\ b = r \ {p}
  OBVIOUS
<1>4. a # b
  BY <1>3, RoundIs DEF PayoutOf
<1>5. PICK o : o = spend.tx.outputs
  OBVIOUS
<1>6. o = <<Output(a, x), Output(b, y)>>
  BY <1>1, <1>3, <1>5 DEF WithdrawalPays
<1>7. PaidTo(a, o) = x /\ PaidTo(b, o) = y
  BY ONLY <1>2, <1>4, <1>6, TwoOutputs
<1> QED BY <1>1, <1>3, <1>5, <1>7 DEF AgreedLeave, Leave, FloorOf

(* Who withdraws has signed alone, and pays what the policy says.          *)
LEMMA WithdrawalAgreed ==
    ASSUME NEW report, NEW p, IsWithdrawal(report, p), Verified(report.spend, report.claimed)
    PROVE  AsAgreed(report)
<1>1. AgreedLeave(report.spend, report.claimed, p) /\ Bound(report)
  BY LeaveAgreed DEF IsWithdrawal, Claims
<1>2. report.spend.leaf.kind = PolicyLeaf /\ Signers(report.spend) = {p}
  BY DEF IsWithdrawal, Leaf
<1>3. report.claimed = OnChain[report.spend.tx.coin] => AgreedSpend(report)
  BY <1>1, <1>2 DEF AgreedSpend, RecoveryPath, KeyPath, PolicyLeaf
<1> QED BY <1>1, <1>3, AgreedIf

(* Who sweeps has signed alone.                                            *)
LEMMA SweepAgreed ==
    ASSUME NEW report, NEW p, IsSweep(report, p), Verified(report.spend, report.claimed)
    PROVE  AsAgreed(report)
<1>1. /\ report.claimed.to = {p} /\ Signers(report.spend) = {p} /\ Bound(report)
      /\ report.spend.leaf.kind = KeyPath
  BY DEF IsSweep, Claims, PayoutOf, KeyPathOf, Leaf
<1>2. ~IsVault({p})
  <2>1. PICK s : s = {p}
    OBVIOUS
  <2>2. Cardinality(s) = 1
    BY <2>1, FS_Singleton
  <2> QED BY <2>1, <2>2 DEF IsVault
<1>3. report.claimed = OnChain[report.spend.tx.coin] => AgreedSpend(report)
  BY <1>1, <1>2 DEF AgreedSpend, RecoveryPath, KeyPath, PolicyLeaf
<1> QED BY <1>1, <1>3, AgreedIf

(* Whatever is typed and whichever files are mixed up.                     *)
THEOREM FilesAreAsAgreed == FilesAsAgreed
<1>1. \A report \in FinishedRecoveries : AsAgreed(report) /\ AllAgainst(report)
  BY RecoveriesAre, RecoveryAgreed
<1>2. \A report \in FinishedSweeps : AsAgreed(report)
  BY SweepsAre, SweepAgreed
<1>3. \A report \in FinishedWithdrawals : AsAgreed(report)
  BY WithdrawalsAre, WithdrawalAgreed
<1>4. \A report \in LiveWithdrawals : report \in FinishedWithdrawals
  BY DEF LiveWithdrawals
<1>5. \A report \in LocalWithdrawals : AsAgreed(report)
  BY LocalWithdrawalsAre, WithdrawalAgreed
<1>6. \A report \in LocalRecoveries : AsAgreed(report)
  BY LocalRecoveriesAre, RecoveryAgreed
<1> QED BY <1>1, <1>2, <1>3, <1>4, <1>5, <1>6 DEF FilesAsAgreed

-----------------------------------------------------------------------------
(* What an audit that passes has seen.                                     *)

(* Nobody is paid once without an output.                                  *)
LEMMA MatchIs ==
    ASSUME NEW spend, NEW output, Cardinality(MatchingOutputs(spend, output)) = 1
    PROVE  \E i \in DOMAIN spend.tx.outputs : spend.tx.outputs[i] = output
<1>1. MatchingOutputs(spend, output) # {}
  BY FS_EmptySet
<1> QED BY <1>1 DEF MatchingOutputs

(* Of equal parts each is one output, and no others are.                   *)
LEMMA PartsOnce ==
    ASSUME NEW r \in VaultRounds, NEW part \in Int, NEW spend,
           spend.tx.outputs = SplitOutputs(r, part)
    PROVE  /\ PaysEachOnce(spend, r, part)
           /\ \A p, sats : Cardinality(MatchingOutputs(spend, Output(PayoutOf(p), sats))) = 1
                              => p \in r /\ sats = part
<1> DEFINE n == Cardinality(r)
<1>1. PICK o : o = spend.tx.outputs /\ o = SplitOutputs(r, part)
  OBVIOUS
<1>2. /\ DOMAIN o = 1..n
      /\ \A p \in r : \E i \in 1..n : /\ o[i] = Output(PayoutOf(p), part)
                                      /\ \A j \in 1..n : o[j].to = PayoutOf(p) => j = i
      /\ \A j \in 1..n : o[j].sats = part
      /\ \A j \in 1..n : \E p \in r : o[j].to = PayoutOf(p)
  <2>1. /\ DOMAIN SplitOutputs(r, part) = 1..Cardinality(r)
        /\ \A p \in r : \E i \in 1..Cardinality(r) :
              /\ SplitOutputs(r, part)[i] = Output(PayoutOf(p), part)
              /\ \A j \in 1..Cardinality(r) : SplitOutputs(r, part)[j].to = PayoutOf(p) => j = i
        /\ \A j \in 1..Cardinality(r) : SplitOutputs(r, part)[j].sats = part
        /\ \A j \in 1..Cardinality(r) : \E p \in r : SplitOutputs(r, part)[j].to = PayoutOf(p)
    BY EqualParts, Zenon
  <2> QED BY ONLY <1>1, <2>1
<1> HIDE DEF n
<1>3. ASSUME NEW p \in r
      PROVE  Cardinality(MatchingOutputs(spend, Output(PayoutOf(p), part))) = 1
  <2>1. PICK i \in 1..n : /\ o[i] = Output(PayoutOf(p), part)
                          /\ \A j \in 1..n : o[j].to = PayoutOf(p) => j = i
    BY <1>2
  <2>2. \A j \in 1..n : o[j] = Output(PayoutOf(p), part) => j = i
    BY <2>1 DEF Output
  <2>3. MatchingOutputs(spend, Output(PayoutOf(p), part)) = {i}
    BY <1>1, <1>2, <2>1, <2>2 DEF MatchingOutputs
  <2> QED BY <2>3, FS_Singleton
<1>4. ASSUME NEW p, NEW sats,
             Cardinality(MatchingOutputs(spend, Output(PayoutOf(p), sats))) = 1
      PROVE  p \in r /\ sats = part
  <2>1. PICK i \in 1..n : o[i] = Output(PayoutOf(p), sats)
    <3>1. \E i \in DOMAIN spend.tx.outputs : spend.tx.outputs[i] = Output(PayoutOf(p), sats)
      BY <1>4, MatchIs
    <3> QED BY ONLY <1>1, <1>2, <3>1
  <2>2. o[i].to = PayoutOf(p) /\ o[i].sats = sats
    BY <2>1 DEF Output
  <2>3. PICK q \in r : o[i].to = PayoutOf(q)
    BY <1>2
  <2>4. p = q
    BY <2>2, <2>3 DEF PayoutOf
  <2> QED BY <1>2, <2>2, <2>4
<1> QED BY <1>3, <1>4 DEF PaysEachOnce

(* Who is not in a vault is alone.                                         *)
LEMMA AloneIs ==
    ASSUME NEW k \in SUBSET Participants, ~IsVault(k), NEW p \in k
    PROVE  k = {p}
<1>1. IsFiniteSet(k) /\ Cardinality(k) \in Nat /\ Cardinality(k) <= 1
  BY ThreeParticipants, FS_Subset, FS_CardinalityType DEF IsVault
<1>2. IsFiniteSet(k \ {p}) /\ Cardinality(k \ {p}) = Cardinality(k) - 1
  BY <1>1, FS_RemoveElement
<1>3. Cardinality(k \ {p}) = 0
  BY <1>1, <1>2, FS_CardinalityType
<1>4. k \ {p} = {}
  BY <1>2, <1>3, FS_EmptySet
<1> QED BY <1>4

(* And who is has two or three members.                                    *)
LEMMA VaultIs ==
    ASSUME NEW k \in SUBSET Participants, IsVault(k)
    PROVE  k \in VaultRounds
<1>1. IsFiniteSet(k) /\ Cardinality(k) \in Nat /\ Cardinality(k) <= 3
  BY ThreeParticipants, FS_Subset, FS_CardinalityType
<1> QED BY <1>1 DEF IsVault, VaultRounds

(* The solo audit sees the withdrawal of the leaver, above the floor.      *)
LEMMA SoloAuditIs ==
    ASSUME NEW spend, NEW t, NEW p, PassesSoloAudit(spend, t, p)
    PROVE  /\ spend.tx.coin = t.coin /\ p \in t.claimed.to
           /\ spend.tx.outputs = WithdrawalPays(t.claimed.to, p, t.claimed.sats)
           /\ Rest(t.claimed.to, t.claimed.sats) >= FloorOf(t.claimed.to)
<1>1. PICK r, sats : r = t.claimed.to /\ sats = t.claimed.sats
  OBVIOUS
<1>2. PICK o : o = spend.tx.outputs
  OBVIOUS
<1>3. /\ spend.tx.coin = t.coin /\ p \in r
      /\ o = SoloWithdrawal(r, p, sats).outputs
      /\ SatisfiesPolicy(Transaction(SoloPolicy(r, p).key, o), SoloPolicy(r, p))
  BY <1>1, <1>2 DEF PassesSoloAudit
<1>4. o = WithdrawalPays(r, p, sats)
  BY <1>3, WithdrawalIs
<1>5. o[2].sats = Rest(r, sats)
  BY <1>4 DEF WithdrawalPays, Output
<1>6. o[2].sats >= FloorOf(r)
  BY <1>3, PolicyIs DEF SatisfiesPolicy, Transaction
<1> QED BY <1>1, <1>2, <1>3, <1>4, <1>5, <1>6

(* Equal parts look like a withdrawal in a pair only.                      *)
LEMMA PartsAsWithdrawal ==
    ASSUME NEW r \in VaultRounds, NEW part \in Int, NEW k, NEW p \in k, NEW sats \in Int,
           SplitOutputs(r, part) = WithdrawalPays(k, p, sats)
    PROVE  k = r /\ Cardinality(r) = 2 /\ Leave(r) = part /\ Rest(r, sats) = part
<1> DEFINE n == Cardinality(r)
<1>1. PICK o : o = SplitOutputs(r, part)
  OBVIOUS
<1>2. /\ DOMAIN o = 1..n /\ Len(o) = n
      /\ \A q \in r : \E i \in 1..n : o[i] = Output(PayoutOf(q), part)
      /\ \A j \in 1..n : o[j].sats = part
      /\ \A j \in 1..n : \E q \in r : o[j].to = PayoutOf(q)
  <2>1. /\ DOMAIN SplitOutputs(r, part) = 1..Cardinality(r)
        /\ Len(SplitOutputs(r, part)) = Cardinality(r)
        /\ \A q \in r : \E i \in 1..Cardinality(r) :
              SplitOutputs(r, part)[i] = Output(PayoutOf(q), part)
        /\ \A j \in 1..Cardinality(r) : SplitOutputs(r, part)[j].sats = part
        /\ \A j \in 1..Cardinality(r) : \E q \in r : SplitOutputs(r, part)[j].to = PayoutOf(q)
    BY EqualParts, Zenon
  <2> QED BY ONLY <1>1, <2>1
<1>3. PICK a, b, x, y : a = PayoutOf(p) /\ b = k \ {p} /\ x = Leave(k) /\ y = Rest(k, sats)
  OBVIOUS
<1>4. o = <<Output(a, x), Output(b, y)>>
  BY <1>1, <1>3 DEF WithdrawalPays
<1>5. Len(o) = 2 /\ o[1] = Output(a, x) /\ o[2] = Output(b, y)
  BY <1>4
<1>6. o[1].to = a /\ o[1].sats = x /\ o[2].to = b /\ o[2].sats = y
  BY <1>5 DEF Output
<1>7. n = 2
  BY <1>2, <1>5
<1> HIDE DEF n
<1>8. x = part /\ y = part
  BY <1>2, <1>6, <1>7
<1>9. PICK q \in r : k \ {p} = {q}
  BY <1>2, <1>3, <1>6, <1>7 DEF PayoutOf
<1>10. p \in r
  BY <1>2, <1>3, <1>6, <1>7 DEF PayoutOf
<1>11. r \subseteq {p, q}
  <2> SUFFICES ASSUME NEW z \in r PROVE z = p \/ z = q
    OBVIOUS
  <2>1. PICK i \in 1..n : o[i] = Output(PayoutOf(z), part)
    BY <1>2
  <2>2. o[i].to = {z}
    BY <2>1 DEF Output, PayoutOf
  <2>3. i = 1 \/ i = 2
    BY <1>7
  <2>4. {z} = {p} \/ {z} = {q}
    BY <1>3, <1>6, <1>9, <2>2, <2>3 DEF PayoutOf
  <2> QED BY <2>4
<1>12. k = r
  BY <1>9, <1>10, <1>11
<1> QED BY <1>3, <1>7, <1>8, <1>12 DEF n

(* Shares that come out the same are of sats that differ by less than the  *)
(* number of those who share.                                              *)
LEMMA SameShare ==
    ASSUME NEW r \in VaultRounds, NEW s \in Nat, NEW t \in Nat,
           NEW fee \in {CooperativeFee, RecoveryFee},
           Share(r, s, fee) = Share(r, t, fee)
    PROVE  t <= s + AllFees /\ s <= t + AllFees
<1>1. /\ fee \in Nat /\ CooperativeFee \in Nat /\ RecoveryFee \in Nat /\ SoloFeeBudget \in Nat
      /\ Cardinality(r) \in 2..3
  BY SatsAreIntegers, RoundIs
<1>2. PICK a, n : a = Share(r, s, fee) /\ n = Cardinality(r)
  OBVIOUS
<1>3. /\ a \in Int /\ a * n <= s - fee /\ s - fee < a * n + n
      /\ a * n <= t - fee /\ t - fee < a * n + n
  BY <1>1, <1>2, ShareIs
<1>4. n = 2 \/ n = 3
  BY <1>1, <1>2
<1>5. CASE n = 2
  BY ONLY <1>1, <1>3, <1>5 DEF AllFees
<1>6. CASE n = 3
  BY ONLY <1>1, <1>3, <1>6 DEF AllFees
<1> QED BY <1>4, <1>5, <1>6

(* So are those of a pair's withdrawal that looks like equal parts.        *)
LEMMA SameAsWithdrawal ==
    ASSUME NEW r \in VaultRounds, NEW s \in Nat, NEW t \in Nat,
           NEW fee \in {CooperativeFee, RecoveryFee}, Cardinality(r) = 2,
           Leave(r) = Share(r, s, fee), Rest(r, t) = Share(r, s, fee)
    PROVE  t <= s + AllFees /\ s <= t + AllFees
<1>1. /\ fee \in Nat /\ CooperativeFee \in Nat /\ RecoveryFee \in Nat /\ SoloFeeBudget \in Nat
      /\ SoloFee \in Nat /\ 2 * SoloFee <= SoloFeeBudget
  BY SatsAreIntegers, CommittedEconomics DEF ValidEconomics
<1>2. PICK a : a = Share(r, s, fee)
  OBVIOUS
<1>3. a \in Int /\ a * 2 <= s - fee /\ s - fee < a * 2 + 2
  BY <1>1, <1>2, ShareIs
<1>4. t - a - 2 * SoloFee = a
  BY <1>2 DEF Rest, SoloFeeOf
<1>5. fee <= CooperativeFee + RecoveryFee
  BY <1>1
<1> QED BY ONLY <1>1, <1>3, <1>4, <1>5 DEF AllFees

-----------------------------------------------------------------------------
(* What is typed of a coin, when an audit passes.                          *)

(* Equal parts of the coin that is there, less the fee.                    *)
Parts(spend, fee) ==
    LET coin == OnChain[spend.tx.coin] IN
    /\ spend.tx.coin \in Outpoints /\ coin.to \in VaultRounds /\ coin.sats \in Nat
    /\ fee \in {CooperativeFee, RecoveryFee}
    /\ spend.tx.outputs = SplitOutputs(coin.to, Share(coin.to, coin.sats, fee))

(* Who has typed neither shares of it, nor nearly its sats, has typed it.  *)
LEMMA ToldIs ==
    ASSUME NEW t \in Typed, Telling(t), t.claimed.to \subseteq OnChain[t.coin].to,
           \/ t.claimed.to # OnChain[t.coin].to
           \/ /\ t.claimed.sats <= OnChain[t.coin].sats + AllFees
              /\ OnChain[t.coin].sats <= t.claimed.sats + AllFees
    PROVE  /\ t.claimed.to = OnChain[t.coin].to
           /\ t = [coin |-> t.coin, claimed |-> OnChain[t.coin]]
<1>1. t.claimed.to = OnChain[t.coin].to
  BY DEF Telling
<1>2. AllFees \in Nat /\ t.claimed.sats \in Nat /\ OnChain[t.coin].sats \in Nat
  BY SatsAreIntegers, TypedIs, OnChainIs DEF AllFees
<1>3. t.claimed.sats = OnChain[t.coin].sats
  BY <1>1, <1>2 DEF Telling
<1>4. /\ t.claimed = Output(t.claimed.to, t.claimed.sats)
      /\ OnChain[t.coin] = Output(OnChain[t.coin].to, OnChain[t.coin].sats)
      /\ t = [coin |-> t.coin, claimed |-> t.claimed]
  BY TypedIs, OnChainIs
<1>5. t.claimed = OnChain[t.coin]
  BY <1>1, <1>3, <1>4
<1> QED BY <1>1, <1>4, <1>5

(* The audit of an exit or a recovery.                                     *)
LEMMA PartsTell ==
    ASSUME NEW spend, NEW fee, Parts(spend, fee), NEW t \in Typed, Telling(t),
           t.coin = spend.tx.coin, IsVault(t.claimed.to),
           PaysEachOnce(spend, t.claimed.to, Share(t.claimed.to, t.claimed.sats, fee))
    PROVE  t = [coin |-> t.coin, claimed |-> OnChain[t.coin]]
<1>1. PICK r, s, k : r = OnChain[t.coin].to /\ s = OnChain[t.coin].sats /\ k = t.claimed.to
  OBVIOUS
<1>2. /\ r \in VaultRounds /\ s \in Nat /\ fee \in {CooperativeFee, RecoveryFee}
      /\ spend.tx.outputs = SplitOutputs(r, Share(r, s, fee))
  BY <1>1 DEF Parts
<1>3. Share(r, s, fee) \in Int
  BY <1>2, ShareIs, SatsAreIntegers
<1>4. k \in VaultRounds /\ t.claimed.sats \in Nat
  BY <1>1, TypedIs, VaultIs
<1>5. PICK part : part = Share(k, t.claimed.sats, fee)
  OBVIOUS
<1>6. \A p \in k : p \in r /\ part = Share(r, s, fee)
  <2>1. \A p \in k : Cardinality(MatchingOutputs(spend, Output(PayoutOf(p), part))) = 1
    BY <1>1, <1>5 DEF PaysEachOnce
  <2> QED BY <1>2, <1>3, <2>1, PartsOnce
<1>7. k \subseteq r /\ part = Share(r, s, fee)
  BY <1>4, <1>6, RoundIs
<1>8. k = r => t.claimed.sats <= s + AllFees /\ s <= t.claimed.sats + AllFees
  BY <1>2, <1>4, <1>5, <1>7, SameShare
<1> QED BY <1>1, <1>7, <1>8, ToldIs

(* The audit of a withdrawal.                                              *)
LEMMA SoloTells ==
    ASSUME NEW spend, NEW fee, Parts(spend, fee), NEW t \in Typed, Telling(t),
           t.coin = spend.tx.coin, NEW p, PassesSoloAudit(spend, t, p)
    PROVE  t = [coin |-> t.coin, claimed |-> OnChain[t.coin]]
<1>1. PICK r, s, k : r = OnChain[t.coin].to /\ s = OnChain[t.coin].sats /\ k = t.claimed.to
  OBVIOUS
<1>2. /\ r \in VaultRounds /\ s \in Nat /\ fee \in {CooperativeFee, RecoveryFee}
      /\ spend.tx.outputs = SplitOutputs(r, Share(r, s, fee))
  BY <1>1 DEF Parts
<1>3. Share(r, s, fee) \in Int
  BY <1>2, ShareIs, SatsAreIntegers
<1>4. t.claimed.sats \in Nat
  BY TypedIs
<1>5. p \in k /\ SplitOutputs(r, Share(r, s, fee)) = WithdrawalPays(k, p, t.claimed.sats)
  BY <1>1, <1>2, SoloAuditIs
<1>6. /\ k = r /\ Cardinality(r) = 2
      /\ Leave(r) = Share(r, s, fee) /\ Rest(r, t.claimed.sats) = Share(r, s, fee)
  BY <1>2, <1>3, <1>4, <1>5, PartsAsWithdrawal
<1>7. t.claimed.sats <= s + AllFees /\ s <= t.claimed.sats + AllFees
  BY <1>2, <1>4, <1>6, SameAsWithdrawal
<1> QED BY <1>1, <1>6, <1>7, ToldIs

(* The audit of a sweep sees no part of a vault.                           *)
LEMMA SweepCannot ==
    ASSUME NEW spend, NEW fee, Parts(spend, fee), NEW t \in Typed, Telling(t),
           t.coin = spend.tx.coin, ~IsVault(t.claimed.to), NEW p \in t.claimed.to
    PROVE  ~PassesSweepAudit(spend, t, p)
<1> SUFFICES ASSUME PassesSweepAudit(spend, t, p) PROVE FALSE
  OBVIOUS
<1>1. PICK r, s : r = OnChain[t.coin].to /\ s = OnChain[t.coin].sats
  OBVIOUS
<1>2. /\ r \in VaultRounds /\ s \in Nat /\ fee \in {CooperativeFee, RecoveryFee}
      /\ spend.tx.outputs = SplitOutputs(r, Share(r, s, fee))
  BY <1>1 DEF Parts
<1>3. Share(r, s, fee) \in Int
  BY <1>2, ShareIs, SatsAreIntegers
<1>4. \E sats : Cardinality(MatchingOutputs(spend, Output(PayoutOf(p), sats))) = 1
  BY DEF PassesSweepAudit
<1>5. p \in r
  BY <1>2, <1>3, <1>4, PartsOnce
<1>6. t.claimed.to = {p}
  BY TypedIs, AloneIs
<1>7. t.claimed.to = r
  BY <1>1, <1>5, <1>6 DEF Telling
<1> QED BY <1>2, <1>7, RoundIs

(* A recovery waits.                                                       *)
LEMMA DelayIs == RecoveryDelay \in Nat /\ RecoveryDelay > 0
  BY SatsAreIntegers, CommittedEconomics DEF ValidEconomics

(* An audit passes a finished transaction only with the coin it spends.    *)
Tells(spend) ==
    \A t \in Typed : Telling(t) =>
        (PassesAudit(spend, t)
            <=> t = [coin |-> spend.tx.coin, claimed |-> OnChain[spend.tx.coin]])

(* An exit.                                                                *)
LEMMA ExitTells ==
    ASSUME NEW report, IsExit(report), report.claimed = OnChain[report.spend.tx.coin]
    PROVE  Tells(report.spend)
<1>1. PICK spend : spend = report.spend
  OBVIOUS
<1>2. PICK coin : coin = OnChain[spend.tx.coin]
  OBVIOUS
<1>3. /\ spend.leaf.kind = KeyPath /\ spend.tx.delay = 0 /\ coin.to \in VaultRounds
      /\ spend.tx.coin \in Outpoints
      /\ Share(coin.to, coin.sats, CooperativeFee) \in Int
      /\ spend.tx.outputs = SplitOutputs(coin.to, Share(coin.to, coin.sats, CooperativeFee))
  BY <1>1, <1>2 DEF IsExit, Splits, Claims, KeyPathOf, Leaf
<1>4. Parts(spend, CooperativeFee)
  BY <1>2, <1>3, OnChainIs DEF Parts
<1>5. ASSUME NEW t \in Typed, Telling(t), PassesAudit(spend, t)
      PROVE  t = [coin |-> spend.tx.coin, claimed |-> OnChain[spend.tx.coin]]
  <2>1. CASE IsVault(t.claimed.to) /\ PassesExitAudit(spend, t)
    <3>1. /\ spend.tx.coin = t.coin
          /\ PaysEachOnce(spend, t.claimed.to, Share(t.claimed.to, t.claimed.sats, CooperativeFee))
      BY <2>1 DEF PassesExitAudit, ExpectedRefund
    <3> QED BY <1>4, <1>5, <2>1, <3>1, PartsTell
  <2>2. ASSUME NEW v, PassesRecoveryAudit(spend, t, v) PROVE FALSE
    <3>1. 0 >= RecoveryDelay
      BY <1>3, <2>2 DEF PassesRecoveryAudit
    <3> QED BY ONLY <3>1, DelayIs
  <2>3. ASSUME NEW p, PassesSoloAudit(spend, t, p)
        PROVE  t = [coin |-> spend.tx.coin, claimed |-> OnChain[spend.tx.coin]]
    <3>1. spend.tx.coin = t.coin
      BY <2>3, SoloAuditIs
    <3> QED BY <1>4, <1>5, <2>3, <3>1, SoloTells
  <2>4. ASSUME ~IsVault(t.claimed.to), NEW p \in t.claimed.to, PassesSweepAudit(spend, t, p)
        PROVE  FALSE
    <3>1. spend.tx.coin = t.coin
      BY <2>4 DEF PassesSweepAudit
    <3> QED BY <1>4, <1>5, <2>4, <3>1, SweepCannot
  <2> QED BY <1>5, <2>1, <2>2, <2>3, <2>4 DEF PassesAudit
<1>6. ASSUME NEW t \in Typed, t = [coin |-> spend.tx.coin, claimed |-> coin]
      PROVE  PassesAudit(spend, t)
  <2>1. t.coin = spend.tx.coin /\ t.claimed = coin
    BY <1>6
  <2>2. PaysEachOnce(spend, coin.to, Share(coin.to, coin.sats, CooperativeFee))
    BY <1>3, PartsOnce
  <2>3. PassesExitAudit(spend, t)
    BY <1>3, <2>1, <2>2 DEF PassesExitAudit, ExpectedRefund, UsesKeyPath
  <2> QED BY <1>3, <2>1, <2>3, RoundIs DEF PassesAudit
<1> QED BY <1>1, <1>2, <1>5, <1>6 DEF Tells

(* A recovery.                                                             *)
LEMMA RecoveryTells ==
    ASSUME NEW report, IsRecovery(report), report.claimed = OnChain[report.spend.tx.coin]
    PROVE  Tells(report.spend)
<1>1. PICK spend : spend = report.spend
  OBVIOUS
<1>2. PICK coin : coin = OnChain[spend.tx.coin]
  OBVIOUS
<1>3. /\ spend.leaf.kind = RecoveryPath /\ spend.tx.delay = RecoveryDelay
      /\ coin.to \in VaultRounds /\ spend.tx.coin \in Outpoints
      /\ Share(coin.to, coin.sats, RecoveryFee) \in Int
      /\ spend.tx.outputs = SplitOutputs(coin.to, Share(coin.to, coin.sats, RecoveryFee))
  BY <1>1, <1>2 DEF IsRecovery, Splits, Claims, RecoveryLeafOf, Leaf
<1>4. Parts(spend, RecoveryFee)
  BY <1>2, <1>3, OnChainIs DEF Parts
<1>5. ~UsesKeyPath(spend)
  BY <1>3 DEF UsesKeyPath, RecoveryPath, KeyPath
<1>6. ASSUME NEW t \in Typed, Telling(t), PassesAudit(spend, t)
      PROVE  t = [coin |-> spend.tx.coin, claimed |-> OnChain[spend.tx.coin]]
  <2>1. ~PassesExitAudit(spend, t) /\ \A p : ~PassesSweepAudit(spend, t, p)
    BY <1>5 DEF PassesExitAudit, PassesSweepAudit
  <2>2. ASSUME IsVault(t.claimed.to), NEW v, PassesRecoveryAudit(spend, t, v)
        PROVE  t = [coin |-> spend.tx.coin, claimed |-> OnChain[spend.tx.coin]]
    <3>1. /\ spend.tx.coin = t.coin
          /\ PaysEachOnce(spend, t.claimed.to, Share(t.claimed.to, t.claimed.sats, RecoveryFee))
      BY <2>2 DEF PassesRecoveryAudit, ExpectedPart
    <3> QED BY <1>4, <1>6, <2>2, <3>1, PartsTell
  <2>3. ASSUME NEW p, PassesSoloAudit(spend, t, p)
        PROVE  t = [coin |-> spend.tx.coin, claimed |-> OnChain[spend.tx.coin]]
    <3>1. spend.tx.coin = t.coin
      BY <2>3, SoloAuditIs
    <3> QED BY <1>4, <1>6, <2>3, <3>1, SoloTells
  <2> QED BY <1>6, <2>1, <2>2, <2>3 DEF PassesAudit
<1>7. ASSUME NEW t \in Typed, t = [coin |-> spend.tx.coin, claimed |-> coin]
      PROVE  PassesAudit(spend, t)
  <2>1. t.coin = spend.tx.coin /\ t.claimed = coin
    BY <1>7
  <2>2. PaysEachOnce(spend, coin.to, Share(coin.to, coin.sats, RecoveryFee))
    BY <1>3, PartsOnce
  <2>3. PICK v \in coin.to : TRUE
    BY <1>3, RoundIs
  <2>4. Cardinality(RecoverySigners(coin.to, v)) >= RecoveryThreshold(coin.to)
    <3>1. PICK r : r = coin.to
      OBVIOUS
    <3>2. Cardinality(r \ {v}) = Cardinality(r) - 1 /\ Cardinality(r) \in Int
      <4>1. r \in VaultRounds /\ v \in r
        BY <1>3, <2>3, <3>1
      <4> QED BY ONLY <4>1, RoundIs
    <3>3. Cardinality(r \ {v}) >= Cardinality(r) - 1
      BY ONLY <3>2
    <3> QED BY <3>1, <3>3 DEF RecoverySigners, RecoveryThreshold
  <2>5. PassesRecoveryAudit(spend, t, v)
    BY <1>3, <2>1, <2>2, <2>4, SatsAreIntegers DEF PassesRecoveryAudit, ExpectedPart
  <2> QED BY <1>3, <2>1, <2>5, RoundIs DEF PassesAudit
<1> QED BY <1>1, <1>2, <1>6, <1>7 DEF Tells

(* A withdrawal.                                                           *)
LEMMA WithdrawalTells ==
    ASSUME NEW report, NEW p, IsWithdrawal(report, p),
           report.claimed = OnChain[report.spend.tx.coin]
    PROVE  Tells(report.spend)
<1>1. PICK spend : spend = report.spend
  OBVIOUS
<1>2. PICK coin : coin = OnChain[spend.tx.coin]
  OBVIOUS
<1>3. /\ spend.leaf.kind = PolicyLeaf /\ spend.tx.delay = 0
      /\ coin.to \in VaultRounds /\ p \in coin.to /\ spend.tx.coin \in Outpoints
      /\ Rest(coin.to, coin.sats) >= FloorOf(coin.to)
      /\ spend.tx.outputs = WithdrawalPays(coin.to, p, coin.sats)
  BY <1>1, <1>2 DEF IsWithdrawal, Claims, Leaf
<1>4. PICK r, s : r = coin.to /\ s = coin.sats
  OBVIOUS
<1>5. s \in Nat
  BY <1>2, <1>3, <1>4, OnChainIs
<1>6. ~UsesKeyPath(spend)
  BY <1>3 DEF UsesKeyPath, PolicyLeaf, KeyPath
<1>7. ASSUME NEW t \in Typed, PassesAudit(spend, t)
      PROVE  t = [coin |-> spend.tx.coin, claimed |-> OnChain[spend.tx.coin]]
  <2>1. ~PassesExitAudit(spend, t) /\ \A q : ~PassesSweepAudit(spend, t, q)
    BY <1>6 DEF PassesExitAudit, PassesSweepAudit
  <2>2. ASSUME NEW v, PassesRecoveryAudit(spend, t, v) PROVE FALSE
    <3>1. 0 >= RecoveryDelay
      BY <1>3, <2>2 DEF PassesRecoveryAudit
    <3> QED BY ONLY <3>1, DelayIs
  <2>3. PICK q : PassesSoloAudit(spend, t, q)
    BY <1>7, <2>1, <2>2 DEF PassesAudit
  <2>4. PICK k, sats : k = t.claimed.to /\ sats = t.claimed.sats
    OBVIOUS
  <2>5. /\ spend.tx.coin = t.coin /\ q \in k /\ sats \in Nat
        /\ WithdrawalPays(r, p, s) = WithdrawalPays(k, q, sats)
    BY <1>3, <1>4, <2>3, <2>4, SoloAuditIs, TypedIs
  <2>6. /\ PayoutOf(p) = PayoutOf(q) /\ r \ {p} = k \ {q} /\ Rest(r, s) = Rest(k, sats)
    <3>1. PICK o : o = WithdrawalPays(r, p, s) /\ o = WithdrawalPays(k, q, sats)
      BY <2>5
    <3>2. /\ o[1] = Output(PayoutOf(p), Leave(r)) /\ o[2] = Output(r \ {p}, Rest(r, s))
          /\ o[1] = Output(PayoutOf(q), Leave(k)) /\ o[2] = Output(k \ {q}, Rest(k, sats))
      BY <3>1 DEF WithdrawalPays
    <3> QED BY <3>2 DEF Output
  <2>7. p = q
    BY <2>6 DEF PayoutOf
  <2>8. k = r
    BY <1>3, <1>4, <2>5, <2>6, <2>7
  <2>9. sats = s
    <3>1. Leave(r) \in Int /\ SoloFeeOf(r) \in Int
      BY <1>5, LeaveIsInt
    <3> QED BY <1>5, <2>5, <2>6, <2>8, <3>1 DEF Rest
  <2>10. t.claimed = coin
    <3>1. t.claimed = Output(k, sats) /\ t = [coin |-> t.coin, claimed |-> t.claimed]
      BY <2>4, TypedIs
    <3>2. coin = Output(r, s)
      BY <1>2, <1>3, <1>4, OnChainIs
    <3> QED BY <2>8, <2>9, <3>1, <3>2
  <2> QED BY <1>2, <2>5, <2>10, TypedIs
<1>8. ASSUME NEW t \in Typed, t = [coin |-> spend.tx.coin, claimed |-> coin]
      PROVE  PassesAudit(spend, t)
  <2>1. t.coin = spend.tx.coin /\ t.claimed = coin
    BY <1>8
  <2>2. PICK o : o = spend.tx.outputs
    OBVIOUS
  <2>3. o = WithdrawalPays(r, p, s) /\ o = SoloWithdrawal(r, p, s).outputs
    BY <1>3, <1>4, <2>2, WithdrawalIs
  <2>4. PICK policy : policy = SoloPolicy(r, p)
    OBVIOUS
  <2>5. /\ policy.payout = Output(PayoutOf(p), Leave(r)) /\ policy.next = r \ {p}
        /\ policy.floor = FloorOf(r)
    BY <2>4, PolicyIs
  <2>6. /\ Len(o) = 2 /\ o[1] = Output(PayoutOf(p), Leave(r))
        /\ o[2].to = r \ {p} /\ o[2].sats = Rest(r, s)
    BY <2>3 DEF WithdrawalPays, Output
  <2>7. SatisfiesPolicy(Transaction(policy.key, o), policy)
    BY <1>3, <1>4, <2>5, <2>6 DEF SatisfiesPolicy, Transaction
  <2>8. PassesSoloAudit(spend, t, p)
    BY <1>3, <1>4, <2>1, <2>2, <2>3, <2>4, <2>7 DEF PassesSoloAudit
  <2> QED BY <1>3, <2>1, <2>8, RoundIs DEF PassesAudit
<1> QED BY <1>1, <1>2, <1>7, <1>8 DEF Tells

(* A sweep.                                                                *)
LEMMA SweepTells ==
    ASSUME NEW report, NEW p, IsSweep(report, p),
           report.claimed = OnChain[report.spend.tx.coin]
    PROVE  Tells(report.spend)
<1>1. PICK spend : spend = report.spend
  OBVIOUS
<1>2. PICK coin : coin = OnChain[spend.tx.coin]
  OBVIOUS
<1>3. /\ spend.leaf.kind = KeyPath /\ spend.tx.delay = 0 /\ coin.to = {p}
      /\ spend.tx.coin \in Outpoints
      /\ spend.tx.outputs = <<Output({p}, coin.sats - FinalSweepFee)>>
  BY <1>1, <1>2 DEF IsSweep, Claims, KeyPathOf, Leaf, PayoutOf
<1>4. PICK o, s : o = spend.tx.outputs /\ s = coin.sats
  OBVIOUS
<1>5. s \in Nat /\ FinalSweepFee \in Nat
  BY <1>2, <1>3, <1>4, OnChainIs, SatsAreIntegers
<1>6. /\ DOMAIN o = {1} /\ Len(o) = 1 /\ o[1] = Output({p}, s - FinalSweepFee)
      /\ o[1].to = {p} /\ o[1].sats = s - FinalSweepFee
  BY <1>3, <1>4 DEF Output
<1>7. ASSUME NEW q, NEW sats,
             Cardinality(MatchingOutputs(spend, Output(PayoutOf(q), sats))) = 1
      PROVE  q = p /\ sats = s - FinalSweepFee
  <2>1. \E i \in DOMAIN o : o[i] = Output(PayoutOf(q), sats)
    BY <1>4, <1>7, MatchIs
  <2>2. o[1].to = {q} /\ o[1].sats = sats
    BY <1>6, <2>1 DEF Output, PayoutOf
  <2> QED BY <1>6, <2>2
<1>8. ASSUME NEW t \in Typed, PassesAudit(spend, t)
      PROVE  t = [coin |-> spend.tx.coin, claimed |-> OnChain[spend.tx.coin]]
  <2>1. PICK k, sats : k = t.claimed.to /\ sats = t.claimed.sats
    OBVIOUS
  <2>2. /\ k \in SUBSET Participants /\ sats \in Nat /\ t.claimed = Output(k, sats)
        /\ t = [coin |-> t.coin, claimed |-> t.claimed]
    BY <2>1, TypedIs
  <2>3. IsVault(k) => ~PassesExitAudit(spend, t)
    <3> SUFFICES ASSUME IsVault(k), PassesExitAudit(spend, t) PROVE FALSE
      OBVIOUS
    <3>1. \A q \in k : q = p
      BY <1>7, <2>1 DEF PassesExitAudit, PaysEachOnce
    <3>2. k \in VaultRounds
      BY <2>2, VaultIs
    <3>3. PICK q \in k : TRUE
      BY <3>2, RoundIs
    <3>4. IsFiniteSet(k \ {q}) /\ Cardinality(k \ {q}) = Cardinality(k) - 1
          /\ Cardinality(k) \in 2..3
      BY <3>2, <3>3, RoundIs
    <3>5. k \ {q} = {}
      BY <3>1, <3>3
    <3> QED BY <3>4, <3>5, FS_EmptySet
  <2>4. ASSUME NEW v, PassesRecoveryAudit(spend, t, v) PROVE FALSE
    <3>1. 0 >= RecoveryDelay
      BY <1>3, <2>4 DEF PassesRecoveryAudit
    <3> QED BY ONLY <3>1, DelayIs
  <2>5. ASSUME NEW q, PassesSoloAudit(spend, t, q) PROVE FALSE
    <3>1. o = WithdrawalPays(t.claimed.to, q, t.claimed.sats)
      BY <1>4, <2>5, SoloAuditIs
    <3>2. Len(o) = 2
      BY <3>1 DEF WithdrawalPays
    <3> QED BY <1>6, <3>2
  <2>6. PICK q \in k : ~IsVault(k) /\ PassesSweepAudit(spend, t, q)
    BY <1>8, <2>1, <2>3, <2>4, <2>5 DEF PassesAudit
  <2>7. spend.tx.coin = t.coin
    BY <2>6 DEF PassesSweepAudit
  <2>8. q = p /\ sats - FinalSweepFee = s - FinalSweepFee
    BY <1>7, <2>1, <2>6 DEF PassesSweepAudit
  <2>9. k = {p} /\ sats = s
    BY <1>5, <2>2, <2>6, <2>8, AloneIs
  <2>10. coin = Output({p}, s)
    BY <1>2, <1>3, <1>4, OnChainIs
  <2> QED BY <1>2, <2>2, <2>7, <2>9, <2>10
<1>9. ASSUME NEW t \in Typed, t = [coin |-> spend.tx.coin, claimed |-> coin]
      PROVE  PassesAudit(spend, t)
  <2>1. t.coin = spend.tx.coin /\ t.claimed = coin
    BY <1>9
  <2>2. MatchingOutputs(spend, Output(PayoutOf(p), s - FinalSweepFee)) = {1}
    BY <1>4, <1>6 DEF MatchingOutputs, PayoutOf
  <2>3. Cardinality(MatchingOutputs(spend, Output(PayoutOf(p), s - FinalSweepFee))) = 1
    BY <2>2, FS_Singleton
  <2>4. PassesSweepAudit(spend, t, p)
    BY <1>3, <1>4, <2>1, <2>3 DEF PassesSweepAudit, UsesKeyPath
  <2>5. ~IsVault({p})
    <3>1. PICK z : z = {p}
      OBVIOUS
    <3>2. Cardinality(z) = 1
      BY <3>1, FS_Singleton
    <3> QED BY <3>1, <3>2 DEF IsVault
  <2> QED BY <1>3, <2>1, <2>4, <2>5 DEF PassesAudit
<1> QED BY <1>1, <1>2, <1>8, <1>9 DEF Tells

-----------------------------------------------------------------------------
(* What people sign without this program.                                  *)

(* Parts of which one goes to somebody else.                               *)
Uneven(r, part) == [SplitOutputs(r, part) EXCEPT ![1].to = PayoutOf(SetToSeq(r)[2])]

(* A withdrawal for any fee.                                               *)
LeavePays(r, p, sats) == <<Output(PayoutOf(p), Leave(r)), Output(r \ {p}, sats)>>

(* A withdrawal, of which the miners get "fee".                            *)
LEMMA LeavingIs ==
    ASSUME NEW r, NEW p, NEW sats, NEW fee
    PROVE  Withdrawal(r, p, sats, fee).outputs = LeavePays(r, p, sats - Leave(r) - fee)
<1>1. PICK y : y = SoloPolicy(r, p)
  OBVIOUS
<1>2. /\ y.key = <<r, p>> /\ y.next = r \ {p}
      /\ y.payout = Output(PayoutOf(p), Leave(r)) /\ y.payout.sats = Leave(r)
  BY <1>1, PolicyIs
<1>3. Withdrawal(r, p, sats, fee).outputs
         = <<y.payout, Output(y.next, sats - y.payout.sats - fee)>>
  BY <1>1 DEF Withdrawal, Transaction
<1> QED BY <1>2, <1>3 DEF LeavePays

(* A spend that "signers" sign.                                            *)
OutsideSpend(coin, leaf, signers, outputs) ==
    LET tx == [coin |-> coin, delay |-> RecoveryDelay, outputs |-> outputs] IN
    Finished(tx, leaf, {Signature(p, Message(tx, OnChain[coin], leaf)) : p \in signers})

(* The parts they may take, of which only two are for a committed fee.     *)
PartsOf(r, s) == {Share(r, s, fee) : fee \in {CooperativeFee, RecoveryFee, RecoveryFee + 3}}

(* In equal parts.                                                         *)
SplitsOf(r, s) == {SplitOutputs(r, part) : part \in PartsOf(r, s)}

(* In parts of which one goes to somebody else.                            *)
UnevensOf(r, s) == {Uneven(r, part) : part \in PartsOf(r, s)}

(* As a withdrawal, for the fee or for all of the budget.                  *)
LeavingsOf(r, s) ==
    {Withdrawal(r, p, s, fee).outputs : p \in r, fee \in {SoloFeeOf(r), SoloFeeBudget}}

(* Each of these spends pays one of them.                                  *)
LEMMA OutsideSpendIs ==
    ASSUME NEW coin, NEW spend \in OutsideSpends(coin)
    PROVE  LET r == OnChain[coin].to
               s == OnChain[coin].sats
           IN  /\ spend.tx.coin = coin
               /\ spend.tx.outputs \in SplitsOf(r, s) \cup UnevensOf(r, s) \cup LeavingsOf(r, s)
<1> DEFINE r == OnChain[coin].to
           s == OnChain[coin].sats
           all == SplitsOf(r, s) \cup UnevensOf(r, s) \cup LeavingsOf(r, s)
           Alone(p, o) == OutsideSpend(coin, Leaf(PolicyLeaf, r, {p}), {p}, o)
           A == {OutsideSpend(coin, KeyPathOf(r), r, o) : o \in all}
           B == {Alone(p, o) : p \in r, o \in LeavingsOf(r, s)}
<1>1. \A leaf, signers, o : /\ OutsideSpend(coin, leaf, signers, o).tx.coin = coin
                            /\ OutsideSpend(coin, leaf, signers, o).tx.outputs = o
  BY DEF OutsideSpend, Finished
<1>2. OutsideSpends(coin) = A \cup B
  BY DEF OutsideSpends, OutsideSpend, SplitsOf, UnevensOf, LeavingsOf, PartsOf, Uneven
<1>3. spend \in A \/ spend \in B
  <2> HIDE DEF A, B
  <2>1. PICK both, x, y : both = OutsideSpends(coin) /\ x = A /\ y = B
    OBVIOUS
  <2>2. both = x \cup y /\ spend \in both
    BY <1>2, <2>1
  <2>3. spend \in x \/ spend \in y
    BY ONLY <2>2
  <2> QED BY <2>1, <2>3
<1>4. CASE spend \in A
  <2>1. PICK o \in all : spend = OutsideSpend(coin, KeyPathOf(r), r, o)
    BY <1>4
  <2> HIDE DEF all
  <2> QED BY <1>1, <2>1 DEF all
<1>5. CASE spend \in B
  <2> HIDE DEF Alone
  <2>1. PICK p \in r, o \in LeavingsOf(r, s) : spend = Alone(p, o)
    BY <1>5
  <2>2. spend = OutsideSpend(coin, Leaf(PolicyLeaf, r, {p}), {p}, o)
    BY <2>1 DEF Alone
  <2>3. spend.tx.coin = coin /\ spend.tx.outputs = o
    BY <1>1, <2>2
  <2> QED BY <2>3
<1> QED BY <1>3, <1>4, <1>5

(* The outputs are of three kinds.                                         *)
LEMMA OutsideIs ==
    ASSUME NEW coin \in Outpoints, IsVault(OnChain[coin].to), NEW spend \in OutsideSpends(coin)
    PROVE  /\ OnChain[coin].to \in VaultRounds /\ OnChain[coin].sats \in Nat
           /\ spend.tx.coin = coin
           /\ \E part \in Int, p \in OnChain[coin].to :
                 \/ spend.tx.outputs = SplitOutputs(OnChain[coin].to, part)
                 \/ spend.tx.outputs = Uneven(OnChain[coin].to, part)
                 \/ spend.tx.outputs = LeavePays(OnChain[coin].to, p, part)
<1> DEFINE r == OnChain[coin].to
           s == OnChain[coin].sats
           parts == PartsOf(r, s)
           split == {SplitOutputs(r, part) : part \in parts}
           uneven == {Uneven(r, part) : part \in parts}
           leaving == {Withdrawal(r, p, s, fee).outputs :
                          p \in r, fee \in {SoloFeeOf(r), SoloFeeBudget}}
<1>1. r \in VaultRounds /\ s \in Nat
  BY OnChainIs, VaultIs
<1>2. spend.tx.coin = coin /\ spend.tx.outputs \in split \cup uneven \cup leaving
  <2>1. SplitsOf(r, s) = split /\ UnevensOf(r, s) = uneven /\ LeavingsOf(r, s) = leaving
    BY DEF SplitsOf, UnevensOf, LeavingsOf
  <2> QED BY <2>1, OutsideSpendIs
<1>3. parts \subseteq Int
  <2>1. \A fee \in {CooperativeFee, RecoveryFee, RecoveryFee + 3} : fee \in Nat
    BY SatsAreIntegers
  <2> QED BY <1>1, <2>1, ShareIs DEF PartsOf
<1>4. PICK q : q \in r
  BY <1>1, RoundIs
<1>5. \A o \in leaving : \E p \in r, part \in Int : o = LeavePays(r, p, part)
  <2>1. Leave(r) \in Int /\ SoloFeeOf(r) \in Int /\ SoloFeeBudget \in Int
    BY <1>1, LeaveIsInt, SatsAreIntegers
  <2>2. \A fee \in {SoloFeeOf(r), SoloFeeBudget} : s - Leave(r) - fee \in Int
    BY <1>1, <2>1
  <2>3. \A p \in r, fee \in {SoloFeeOf(r), SoloFeeBudget} :
           Withdrawal(r, p, s, fee).outputs = LeavePays(r, p, s - Leave(r) - fee)
    BY LeavingIs
  <2> HIDE DEF r, s
  <2> QED BY <2>2, <2>3
<1>6. \E part \in Int, p \in r : \/ spend.tx.outputs = SplitOutputs(r, part)
                                \/ spend.tx.outputs = Uneven(r, part)
                                \/ spend.tx.outputs = LeavePays(r, p, part)
  <2> HIDE DEF r, s, parts, leaving
  <2> QED BY <1>2, <1>3, <1>4, <1>5
<1> QED BY <1>1, <1>2, <1>6

(* Once each of equal parts, everybody has them.                           *)
LEMMA SplitFair ==
    ASSUME NEW spend, NEW r \in VaultRounds, NEW part \in Int, NEW share,
           spend.tx.outputs = SplitOutputs(r, part), PaysEachOnce(spend, r, share)
    PROVE  \A p \in r : PaidTo(PayoutOf(p), spend.tx.outputs) = share
<1>1. PICK q : q \in r
  BY RoundIs
<1>2. share = part
  BY <1>1, PartsOnce DEF PaysEachOnce
<1>3. PICK o : o = spend.tx.outputs /\ o = SplitOutputs(r, part)
  OBVIOUS
<1>4. \A p \in r : PaidTo(PayoutOf(p), SplitOutputs(r, part)) = part
  BY EqualParts, Zenon
<1> QED BY ONLY <1>2, <1>3, <1>4

(* The first of the round is not paid when somebody else is, twice.        *)
LEMMA UnevenFails ==
    ASSUME NEW spend, NEW r \in VaultRounds, NEW part \in Int, NEW share,
           spend.tx.outputs = Uneven(r, part)
    PROVE  ~PaysEachOnce(spend, r, share)
<1> SUFFICES ASSUME PaysEachOnce(spend, r, share) PROVE FALSE
  OBVIOUS
<1> DEFINE n == Cardinality(r)
<1>1. PICK m \in [1..n -> r] :
         /\ SetToSeq(r) = m
         /\ \A i, j \in 1..n : m[i] = m[j] => i = j
  BY Seats
<1>2. n \in 2..3
  BY DEF VaultRounds
<1>3. PICK o, u : o = SplitOutputs(r, part) /\ u = spend.tx.outputs
  OBVIOUS
<1>4. o = [i \in 1..n |-> Output({m[i]}, part)]
  BY <1>1, <1>3 DEF SplitOutputs, PayoutOf
<1>5. u = [o EXCEPT ![1].to = {m[2]}]
  BY <1>1, <1>3 DEF Uneven, PayoutOf
<1>6. DOMAIN u = 1..n /\ u[1].to = {m[2]} /\ \A i \in 2..n : u[i].to = {m[i]}
  BY <1>2, <1>4, <1>5 DEF Output
<1>7. m[1] \in r /\ m[1] # m[2]
  BY <1>1, <1>2
<1>8. PICK i \in 1..n : u[i] = Output(PayoutOf(m[1]), share)
  <2>1. Cardinality(MatchingOutputs(spend, Output(PayoutOf(m[1]), share))) = 1
    BY <1>7 DEF PaysEachOnce
  <2>2. \E i \in DOMAIN spend.tx.outputs : spend.tx.outputs[i] = Output(PayoutOf(m[1]), share)
    BY <2>1, MatchIs
  <2> QED BY ONLY <1>3, <1>6, <2>2
<1>9. u[i].to = {m[1]}
  BY <1>8 DEF Output, PayoutOf
<1>10. CASE i = 1
  <2>1. {m[1]} = {m[2]}
    BY <1>6, <1>9, <1>10
  <2> QED BY <1>7, <2>1
<1>11. CASE i \in 2..n
  <2>1. {m[1]} = {m[i]}
    BY <1>6, <1>9, <1>11
  <2>2. m[1] = m[i]
    BY <2>1
  <2> QED BY <1>1, <1>2, <1>11, <2>2
<1> QED BY <1>2, <1>10, <1>11

(* A withdrawal that pays everybody the same does so in a pair.            *)
LEMMA LeaveFair ==
    ASSUME NEW spend, NEW r \in VaultRounds, NEW p \in r, NEW sats \in Int, NEW share,
           spend.tx.outputs = LeavePays(r, p, sats), PaysEachOnce(spend, r, share)
    PROVE  \A q \in r : PaidTo(PayoutOf(q), spend.tx.outputs) = share
<1>1. PICK o, a, b, x : /\ o = spend.tx.outputs
                        /\ a = PayoutOf(p) /\ b = r \ {p} /\ x = Leave(r)
  OBVIOUS
<1>2. o = <<Output(a, x), Output(b, sats)>>
  BY <1>1 DEF LeavePays
<1>3. /\ DOMAIN o = 1..2 /\ o[1] = Output(a, x) /\ o[2] = Output(b, sats)
  BY <1>2
<1>4. o[1].to = a /\ o[1].sats = x /\ o[2].to = b /\ o[2].sats = sats
  BY <1>3 DEF Output
<1>5. x \in Int
  BY <1>1, LeaveIsInt
<1>6. a # b
  BY <1>1, RoundIs DEF PayoutOf
<1>7. PaidTo(a, o) = x /\ PaidTo(b, o) = sats
  BY ONLY <1>2, <1>5, <1>6, TwoOutputs
<1>8. \A q \in r : \E i \in 1..2 : o[i] = Output(PayoutOf(q), share)
  BY <1>1, <1>3, MatchIs DEF PaysEachOnce
<1>9. \A q \in r : \/ {q} = a /\ share = x
                   \/ {q} = b /\ share = sats
  <2> SUFFICES ASSUME NEW q \in r PROVE ({q} = a /\ share = x) \/ ({q} = b /\ share = sats)
    OBVIOUS
  <2>1. PICK i \in 1..2 : o[i] = Output(PayoutOf(q), share)
    BY <1>8
  <2>2. o[i].to = {q} /\ o[i].sats = share
    BY <2>1 DEF Output, PayoutOf
  <2>3. i = 1 \/ i = 2
    OBVIOUS
  <2> QED BY <1>4, <2>2, <2>3
<1> QED BY <1>1, <1>7, <1>9 DEF PayoutOf

(* Nobody gets less than was agreed past an audit that is told the coin.   *)
LEMMA OutsideFair ==
    ASSUME NEW coin \in Outpoints, IsVault(OnChain[coin].to), NEW spend \in OutsideSpends(coin),
           PassesAudit(spend, [coin |-> coin, claimed |-> OnChain[coin]])
    PROVE  FairlyPaid(spend, OnChain[coin])
<1>1. PICK c, r, s, t : /\ c = OnChain[coin] /\ r = OnChain[coin].to /\ s = OnChain[coin].sats
                        /\ t = [coin |-> coin, claimed |-> OnChain[coin]]
  OBVIOUS
<1>2. /\ r \in VaultRounds /\ s \in Nat
      /\ \E part \in Int, p \in r : \/ spend.tx.outputs = SplitOutputs(r, part)
                                   \/ spend.tx.outputs = Uneven(r, part)
                                   \/ spend.tx.outputs = LeavePays(r, p, part)
  BY <1>1, OutsideIs
<1>3. c.to = r /\ c.sats = s /\ t.claimed.to = r /\ t.claimed.sats = s /\ IsVault(r)
  BY <1>1
<1>4. ASSUME NEW fee \in {CooperativeFee, RecoveryFee},
             PaysEachOnce(spend, r, Share(r, s, fee))
      PROVE  FairlyPaid(spend, c)
  <2>1. PICK share : share = Share(r, s, fee)
    OBVIOUS
  <2>2. \A p \in r : PaidTo(PayoutOf(p), spend.tx.outputs) = share
    BY <1>2, <1>4, <2>1, SplitFair, UnevenFails, LeaveFair
  <2>3. share \in Int
    BY <1>2, <2>1, ShareIs, SatsAreIntegers
  <2>4. \A p \in r : PaidTo(PayoutOf(p), spend.tx.outputs) >= share
    BY <2>2, <2>3
  <2> QED BY <1>3, <2>1, <2>4 DEF FairlyPaid
<1>5. ASSUME NEW p, PassesSoloAudit(spend, t, p)
      PROVE  FairlyPaid(spend, c)
  <2>1. /\ p \in r /\ spend.tx.outputs = WithdrawalPays(r, p, s)
        /\ Rest(r, s) >= FloorOf(r)
    BY <1>3, <1>5, SoloAuditIs
  <2>2. AgreedLeave(spend, c, p)
    BY <1>2, <1>3, <2>1, LeaveAgreed
  <2> QED BY <1>3, <2>1, <2>2 DEF FairlyPaid
<1>6. \/ PassesExitAudit(spend, t) \/ \E v : PassesRecoveryAudit(spend, t, v)
      \/ \E p : PassesSoloAudit(spend, t, p)
  BY <1>1, <1>3 DEF PassesAudit
<1>7. \/ \E fee \in {CooperativeFee, RecoveryFee} : PaysEachOnce(spend, r, Share(r, s, fee))
      \/ \E p : PassesSoloAudit(spend, t, p)
  BY <1>3, <1>6 DEF PassesExitAudit, PassesRecoveryAudit, ExpectedRefund, ExpectedPart
<1> QED BY <1>1, <1>4, <1>5, <1>7

-----------------------------------------------------------------------------
(* All together.                                                           *)

(* When what is typed wrong differs by more than parts can hide, an audit  *)
(* passes a finished transaction exactly when told the coin as it was; and *)
(* whatever people sign themselves, it passes only what pays everybody.    *)
THEOREM AuditsAreAsAgreed ==
    ASSUME \A t \in Typed : Telling(t)
    PROVE  AuditsAsAgreed
<1>1. ASSUME NEW report, NEW p, Verified(report.spend, OnChain[report.spend.tx.coin]),
             IsRecovery(report) \/ IsSweep(report, p) \/ IsWithdrawal(report, p) \/ IsExit(report)
      PROVE  Tells(report.spend)
  <2>1. Bound(report)
    BY <1>1 DEF IsRecovery, IsExit, Splits, IsSweep, IsWithdrawal, Claims
  <2>2. report.claimed = OnChain[report.spend.tx.coin]
    BY <1>1, <2>1, AcceptedIsClaimed
  <2> QED BY <1>1, <2>2, RecoveryTells, SweepTells, WithdrawalTells, ExitTells
<1>2. ASSUME NEW report \in FinishedRecoveries \cup FinishedSweeps \cup FinishedWithdrawals
                              \cup {ExitFile(context) : context \in ExitContexts}
      PROVE  \E p : IsRecovery(report) \/ IsSweep(report, p) \/ IsWithdrawal(report, p)
                    \/ IsExit(report)
  BY <1>2, RecoveriesAre, SweepsAre, WithdrawalsAre, ExitsAre
<1>3. ASSUME NEW report \in FinishedRecoveries \cup FinishedSweeps \cup FinishedWithdrawals
                              \cup {ExitFile(context) : context \in ExitContexts},
             Verified(report.spend, OnChain[report.spend.tx.coin])
      PROVE  \A typed \in Typed : PassesAudit(report.spend, typed)
                <=> typed = [coin |-> report.spend.tx.coin,
                             claimed |-> OnChain[report.spend.tx.coin]]
  <2>1. Tells(report.spend)
    BY <1>1, <1>2, <1>3
  <2> QED BY <2>1 DEF Tells
<1>4. \A coin \in {o \in Outpoints : IsVault(OnChain[o].to)} : \A spend \in OutsideSpends(coin) :
          PassesAudit(spend, [coin |-> coin, claimed |-> OnChain[coin]])
              => FairlyPaid(spend, OnChain[coin])
  BY OutsideFair
<1> QED BY <1>3, <1>4 DEF AuditsAsAgreed

(* An exit is as agreed and costs this participant a nonce, which is in no *)
(* file any more: whatever is typed.                                       *)
LEMMA FinishedExitIs ==
    ASSUME CommandInv, NEW report \in FinishedExits
    PROVE  /\ AsAgreed(report)
           /\ \E n \in Nonces : /\ signed[n] # {} /\ boundTo[n].tx = report.spend.tx
                               /\ \A path \in Paths : file[path] # n
<1>1. PICK context \in Messages : CanFinishExit(context) /\ report = ExitFile(context)
  BY DEF FinishedExits
<1>2. context \in ExitContexts
  BY MyMessages
<1>3. AsAgreed(report) /\ report.spend.tx = context.tx
  BY <1>1, <1>2, ExitsAre, ExitAgreed
<1>4. PICK session \in Sessions, n \in Nonces : boundTo[n] = context /\ session \in signed[n]
  BY <1>1 DEF CanFinishExit, HasMyPartial
<1>5. \A path \in Paths : file[path] # n
  BY <1>4 DEF CommandInv, SignedIsGone
<1> QED BY <1>3, <1>4, <1>5

(* No exit without a nonce of this participant.                            *)
THEOREM ExitsAreAsAgreed ==
    ASSUME ~ReusesPaths
    PROVE  Spec => []ExitsAsAgreed
<1>1. CommandInv => ExitsAsAgreed
  BY FinishedExitIs DEF ExitsAsAgreed
<1> QED BY <1>1, CommandInit, CommandStep, PTL DEF Spec

(* Everything the command line finishes, and every audit of it.            *)
THEOREM FinishedIsAsAgreed ==
    ASSUME ~ReusesPaths, \A t \in Typed : Telling(t)
    PROVE  Spec => []FinishedAsAgreed
<1>1. FilesAsAgreed /\ AuditsAsAgreed
  BY FilesAreAsAgreed, AuditsAreAsAgreed
<1>2. ExitsAsAgreed => FinishedAsAgreed
  BY <1>1 DEF FinishedAsAgreed
<1> QED BY <1>2, ExitsAreAsAgreed, PTL
=============================================================================
