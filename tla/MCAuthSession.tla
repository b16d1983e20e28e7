---------------------------- MODULE MCAuthSession ----------------------------
(* AuthSession for two people, one of them the Kerberos principal.         *)
EXTENDS AuthSession

CONSTANTS alice, bob, a1, a2, r1, r2, q1
=============================================================================
