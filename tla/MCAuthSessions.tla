--------------------------- MODULE MCAuthSessions ---------------------------
(***************************************************************************)
(* AuthSessions on small instances for TLC.                                *)
(***************************************************************************)
EXTENDS AuthSessions, TLC

CONSTANTS t1, t2, c1, c2, r1, r2
=============================================================================
