------------------------------ MODULE MCInstaller ------------------------------
(* Three versions: the second changes one file and drops the other, the third *)
(* brings both back as they were.                                             *)
EXTENDS Installer

CONSTANTS memoryOps, mainSkill

MCPins == [v \in Releases |-> IF v = 1 THEN 1 ELSE 2]
MCPackaged ==
    [v \in Releases |-> [f \in AssetFiles |->
        IF v # 2 THEN IF f = memoryOps THEN 11 ELSE 21
        ELSE IF f = memoryOps THEN 12 ELSE 0]]
===============================================================================
