------------------------------- MODULE MC_SRcu -------------------------------
(* Model values for checking SRcu.tla with TLC. *)
EXTENDS SRcu, TLC

CONSTANTS r1, r2, u1, u2, o1, o2, o3, o4

=============================================================================
