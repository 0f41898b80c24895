----------------------------- MODULE MCSBEQueue -----------------------------
(***************************************************************************)
(* SBEQueue for TLC.  MCSizes has a message of one cell, one that fills    *)
(* the buffer of MCBufferSize, and one that is too large for it.           *)
(***************************************************************************)
EXTENDS SBEQueue

CONSTANTS t1, t2

MCBufferSize == 2
MCSizes == {1, 2, 3}
MCWritableSizes == {1, 2}
MCTwoThreads == {t1, t2}
MCOneThread == {t1}
=============================================================================
