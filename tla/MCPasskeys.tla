----------------------------- MODULE MCPasskeys -----------------------------
(***************************************************************************)
(* An instance of Passkeys for TLC.                                        *)
(***************************************************************************)
EXTENDS Passkeys, TLC

(* Pages, salts and enrolments are named by no definition; the passkeys    *)
(* are, by their counting.                                                 *)
Symmetry == Permutations(Pages) \cup Permutations(Salts) \cup Permutations(Enrolments)
=============================================================================
