---------------------------- MODULE MCLoginThrottle ----------------------------
(* LoginThrottle for TLC.                                                    *)
EXTENDS LoginThrottle, TLC

CONSTANTS t1, t2, t3, a1, a2, n1, n2

Symmetry == Permutations({t1, t2, t3}) \cup Permutations({a1, a2})
              \cup Permutations({n1, n2})
=============================================================================
