---------------------------- MODULE MCConfigSync ----------------------------
(* Finite instances of ConfigSync.                                         *)
EXTENDS ConfigSync

CONSTANTS i1, i2

\* Every save is served by i1; i2 only listens.
MCHome == [m \in Saves |-> i1]
MCPatches == [m \in Saves |-> Fields]
=============================================================================
