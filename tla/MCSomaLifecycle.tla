-------------------------- MODULE MCSomaLifecycle ---------------------------
(* An instance of SomaLifecycle for TLC. *)
EXTENDS SomaLifecycle, TLC

CONSTANTS t1, t2, p1, p2, u1, i1, i2

=============================================================================
