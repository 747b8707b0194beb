----------------------------- MODULE MCRunService -----------------------------
(* The instance of RunService for TLC: model values only, given in its .cfg. *)
EXTENDS RunService
===============================================================================
