--------------------------- MODULE MCMultiProcessor ---------------------------
(***************************************************************************)
(* Two processors on the multiple processor test's program.                *)
(***************************************************************************)
EXTENDS MCMultiPrograms, GAZLMultiProcessor

MCBudgets == {3, 4, 6}
MCMinClock == -3
=============================================================================
