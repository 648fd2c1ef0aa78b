---------------------------- MODULE MCBoundsSweep ----------------------------
(***************************************************************************)
(* Every probe of the bounds sweep, with every word for an operand, and    *)
(* every request of a native; and the operators with every operand.        *)
(***************************************************************************)
EXTENDS MCBoundsPrograms, GAZLBoundsSweep

MCBudgets == {100}
=============================================================================
