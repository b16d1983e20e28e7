-------------------------- MODULE MCDockerRecreate --------------------------
(* DockerRecreate on a small host: two workers and a few container ids.    *)
EXTENDS DockerRecreate, TLC

Symmetry == Permutations(Worker) \cup Permutations(Id \ {First})
=============================================================================
