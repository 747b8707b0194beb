---------------------------- MODULE MCManagedConfig ----------------------------
EXTENDS ManagedConfig
CONSTANTS executor, m1
===============================================================================
