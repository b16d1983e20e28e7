---------------------------- MODULE MCDockerCalls ----------------------------
(* DockerCalls with more tasks than permits: both queues fill up.          *)
EXTENDS DockerCalls, TLC

Symmetry == Permutations(Task)
=============================================================================
