--------------------------- MODULE MCMessageMirror ---------------------------
(* Instances of MessageMirror for TLC.                                      *)
EXTENDS MessageMirror
===============================================================================
