--------------------------- MODULE MCOpenclawImport ---------------------------
(* The source has CLAUDE.md twice at first, then AGENTS.md and a skill twice.     *)
EXTENDS OpenclawImport

CONSTANTS i1, i2

MCSourceTrees ==
    << [f \in SourceFiles |-> IF f = "CLAUDE.md" THEN 10
                              ELSE IF f = "claude.md" THEN 12 ELSE 0],
       [f \in SourceFiles |-> IF f = "AGENTS.md" THEN 20
                              ELSE IF f = "skills/x" THEN 11
                              ELSE IF f \in {"CLAUDE.md", "claude.md"} THEN 0 ELSE 10] >>
===============================================================================
