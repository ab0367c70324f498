--------------------------- MODULE MCSharedMutex ---------------------------
(* SharedMutex on a handful of threads.                                     *)
EXTENDS SharedMutex

CONSTANTS t1, t2, t3

MCThreads    == {t1, t2, t3}
MCOneWriter  == {t1}
MCTwoWriters == {t1, t2}
MCNobody     == {}
=============================================================================
