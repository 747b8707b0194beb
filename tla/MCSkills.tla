------------------------------- MODULE MCSkills -------------------------------
EXTENDS Skills
CONSTANTS s1, s2
===============================================================================
