--------------------------- MODULE MCRunEventStream ---------------------------
(* The instance of RunEventStream for TLC.                                 *)
EXTENDS RunEventStream, TLC
===============================================================================
