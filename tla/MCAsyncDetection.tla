-------------------------- MODULE MCAsyncDetection --------------------------
(***************************************************************************)
(* Instances of AsyncDetection: the thread sets, the source images and     *)
(* their symmetry.                                                         *)
(***************************************************************************)
EXTENDS AsyncDetection, TLC

CONSTANTS t1, t2, f1, f2

JustT1    == {t1}
JustT2    == {t2}
T1T2      == {t1, t2}
OneFrame  == {f1}
TwoFrames == {f1, f2}

Symmetry == Permutations(T1T2) \cup Permutations(TwoFrames)
=============================================================================
