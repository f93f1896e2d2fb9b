-------------------------- MODULE MCMemoryMaintenance --------------------------
(* A small instance of MemoryMaintenance.                                     *)
EXTENDS MemoryMaintenance

CONSTANTS w1, w2, v1

TwoWorkers == {w1, w2}
OneWriter == {v1}
=============================================================================
