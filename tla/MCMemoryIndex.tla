----------------------------- MODULE MCMemoryIndex -----------------------------
(* Two calls that remember the same, one of them superseding an old record. *)
EXTENDS MemoryIndex

CONSTANTS old, other, r1, r2

MCContents == [r \in MemoryRecords |-> IF r = r2 THEN r1 ELSE r]
MCSupersedes == [r \in MemoryRecords |-> IF r = r1 THEN {old} ELSE {}]
===============================================================================
