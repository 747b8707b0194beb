---------------------------- MODULE MCSessionLane -----------------------------
(* Instances of SessionLane for TLC.                                       *)
EXTENDS SessionLane, TLC

AllModes == {"collect", "followup", "replace"}
===============================================================================
