--------------------------- MODULE MCDockerService ---------------------------
(* DockerService with a global pool smaller than the tasks that want it.   *)
EXTENDS DockerService, TLC

Symmetry == Permutations(Task)
=============================================================================
