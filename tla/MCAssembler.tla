----------------------------- MODULE MCAssembler -----------------------------
(***************************************************************************)
(* Instances of the assembler for TLC.                                     *)
(***************************************************************************)
EXTENDS GAZLAssembler

\* A name and what name#0 declares, the label of a switch's first case.
MCNames == {<<1>>, <<1, 0>>}
MCOffsets == {-1, 0, 1}
MCOneName == {<<1>>}
=============================================================================
