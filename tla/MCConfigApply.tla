----------------------------- MODULE MCConfigApply -----------------------------
EXTENDS ConfigApply

CONSTANTS q1, q2, d, v
===============================================================================
