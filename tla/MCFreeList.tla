----------------------------- MODULE MCFreeList -----------------------------
(***************************************************************************)
(* FreeList for TLC.  Chunks that are too long grow with every further     *)
(* overcount; the exploration goes as far as MaxOvercounts of them.        *)
(***************************************************************************)
EXTENDS FreeList

CONSTANT MaxOvercounts

MCNext == overcounts <= MaxOvercounts /\ Next

MCSpec == Init /\ [][MCNext]_vars
=============================================================================
