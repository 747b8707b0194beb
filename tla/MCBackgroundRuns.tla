--------------------------- MODULE MCBackgroundRuns ---------------------------
(* Instances of BackgroundRuns for TLC.                                     *)
EXTENDS BackgroundRuns
===============================================================================
