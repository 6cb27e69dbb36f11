---------------------------- MODULE MCSubmitLoop ----------------------------
(***************************************************************************)
(* SubmitLoop with one caller, one context and a reorder buffer of one.    *)
(***************************************************************************)
EXTENDS SubmitLoop

CONSTANTS t1, f1

MCThreads == {t1}
MCFrames  == {f1}
=============================================================================
