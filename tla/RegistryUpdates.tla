--------------------------- MODULE RegistryUpdates ---------------------------
(***************************************************************************)
(* Is there a newer image?  docker_routes._updates_for lists containers    *)
(* and images of a host and compares each container's digest with the one  *)
(* its tag has at the registry, which UpdateChecker asks for and keeps for *)
(* an hour.  One container of one tag; meanwhile somebody pushes the tag,  *)
(* the container is recreated from a fresh pull, old images are removed,   *)
(* and the registry does not answer or answers late.                       *)
(***************************************************************************)
EXTENDS Integers

CONSTANTS
  Check,    \* concurrent requests for the update status
  Digest,   \* bound: the tag is pushed with digests 1..Digest
  Ttl,      \* docker_update_check_ttl, in ticks
  Timeout   \* docker_timeout: the ticks one registry call may take

UpdatesAssumption ==
  Digest \in Nat \ {0} /\ Ttl \in Nat /\ Timeout \in Nat

None == 0   \* no digest: "" in the code
Forever == Ttl + Timeout + 1  \* bound: beyond it times are not told apart

VARIABLES
  tag,      \* the digest the registry has for the tag
  replaced, \* per digest the ticks since the tag had it
  running,  \* the digest of the container's image; None if built locally
  images,   \* the digests the host's images have
  cache,    \* the checker's answer and its age
  check,    \* per request where it stands
  missed    \* the ticks since a registry call failed

vars == <<tag, replaced, running, images, cache, check, missed>>

Digests == 1..Digest
Idle    == [at |-> "idle"]
Absent  == [digest |-> None, age |-> Ttl + 1]

TypeOK ==
  /\ tag \in Digests
  /\ replaced \in [Digests -> 0..Forever]
  /\ running \in Digests \cup {None}
  /\ images \subseteq Digests
  /\ cache \in [digest : Digests \cup {None}, age : 0..Ttl + 1]
  /\ check \in [Check -> {Idle}
       \cup [at : {"listed"}, local : Digests \cup {None}]
       \cup [at : {"asking"}, local : Digests, age : 0..Timeout, said : Digests \cup {None}]
       \cup [at : {"shown"}, local : Digests \cup {None}, remote : Digests \cup {None}]]
  /\ missed \in 0..Forever

Init ==
  /\ tag = 1
  /\ replaced = [d \in Digests |-> IF d = tag THEN 0 ELSE Forever]
  /\ running \in {tag, None} /\ images = {running} \ {None}
  /\ cache = Absent
  /\ check = [c \in Check |-> Idle]
  /\ missed = Forever

-----------------------------------------------------------------------------
(* _updates_for: the containers first, then the images of their hosts.     *)
List(c) ==
  /\ check[c] = Idle
  /\ check' = [check EXCEPT ![c] = [at |-> "listed", local |-> running]]
  /\ UNCHANGED <<tag, replaced, running, images, cache, missed>>

Status(local, remote) ==
  IF local = None \/ remote = None THEN "unknown"
  ELSE IF local = remote THEN "current" ELSE "outdated"

Show(c, local, remote) ==
  check' = [check EXCEPT ![c] = [at |-> "shown", local |-> local, remote |-> remote]]

\* _local_digest: an image that is gone by now has no digest.
Local(c) == IF check[c].local \in images THEN check[c].local ELSE None

\* _check_one: a digest that is kept, or kept as unknown, is used.
CheckOne(c, local) ==
  IF cache.age <= Ttl THEN Show(c, local, cache.digest)
  ELSE check' = [check EXCEPT ![c] = [at |-> "asking", local |-> local,
                                      age |-> 0, said |-> None]]

\* (mutant) the registry is asked about images that come from none
Compare_localToo(c) ==
  /\ check[c].at = "listed" /\ CheckOne(c, Local(c))
  /\ UNCHANGED <<tag, replaced, running, images, cache, missed>>

Compare(c) ==
  /\ check[c].at = "listed"
  /\ IF Local(c) = None THEN Show(c, None, None) ELSE CheckOne(c, Local(c))
  /\ UNCHANGED <<tag, replaced, running, images, cache, missed>>

(* _remote_digest: HEAD, the token, HEAD again.  The registry answers the  *)
(* last of them; the answer may be lost.                                   *)
Registry(c) ==
  /\ check[c].at = "asking" /\ check[c].said = None
  /\ check' = [check EXCEPT ![c].said = tag]
  /\ UNCHANGED <<tag, replaced, running, images, cache, missed>>

Keep(c, digest) ==
  /\ cache' = [digest |-> digest, age |-> 0]
  /\ Show(c, check[c].local, digest)

Answered(c) ==
  /\ check[c].at = "asking" /\ check[c].said # None
  /\ Keep(c, check[c].said)
  /\ UNCHANGED <<tag, replaced, running, images, missed>>

Failed(c) ==
  /\ check[c].at = "asking"
  /\ Keep(c, None)
  /\ missed' = 0
  /\ UNCHANGED <<tag, replaced, running, images>>

Done(c) ==
  /\ check[c].at = "shown"
  /\ check' = [check EXCEPT ![c] = Idle]
  /\ UNCHANGED <<tag, replaced, running, images, cache, missed>>

-----------------------------------------------------------------------------
Push ==
  /\ tag < Digest /\ tag' = tag + 1
  /\ replaced' = [replaced EXCEPT ![tag + 1] = 0]
  /\ UNCHANGED <<running, images, cache, check, missed>>

Recreate ==
  /\ running # None /\ running' = tag /\ images' = images \cup {tag}
  /\ UNCHANGED <<tag, replaced, cache, check, missed>>

Prune ==
  /\ images' = images \cap {running}
  /\ UNCHANGED <<tag, replaced, running, cache, check, missed>>

Older(n) == IF n = Forever THEN n ELSE n + 1

\* (mutant) an answer that is used does not grow older
Tick_onUse ==
  /\ \A c \in Check : check[c].at = "asking" => check[c].age < Timeout
  /\ replaced' = [d \in Digests |-> IF d = tag THEN 0 ELSE Older(replaced[d])]
  /\ cache' = IF cache.age >= Ttl /\ check = [c \in Check |-> Idle] THEN Absent
              ELSE [cache EXCEPT !.age = IF cache.age < Ttl THEN cache.age + 1 ELSE cache.age]
  /\ check' = [c \in Check |-> IF check[c].at = "asking"
                               THEN [check[c] EXCEPT !.age = @ + 1] ELSE check[c]]
  /\ missed' = Older(missed)
  /\ UNCHANGED <<tag, running, images>>

Tick ==
  /\ \A c \in Check : check[c].at = "asking" => check[c].age < Timeout
  /\ replaced' = [d \in Digests |-> IF d = tag THEN 0 ELSE Older(replaced[d])]
  /\ cache' = IF cache.age >= Ttl THEN Absent ELSE [cache EXCEPT !.age = @ + 1]
  /\ check' = [c \in Check |-> IF check[c].at = "asking"
                               THEN [check[c] EXCEPT !.age = @ + 1] ELSE check[c]]
  /\ missed' = Older(missed)
  /\ UNCHANGED <<tag, running, images>>

Next ==
  \/ \E c \in Check : List(c) \/ Compare(c) \/ Registry(c) \/ Answered(c) \/ Failed(c) \/ Done(c)
  \/ Push \/ Recreate \/ Prune \/ Tick

Spec == Init /\ [][Next]_vars

-----------------------------------------------------------------------------
(* Property.                                                               *)

\* What is shown as the registry's digest was the tag's within the time an
\* answer is kept plus the time a call may take, whatever is cached and however
\* checks overlap; and a container from a registry whose image is still there
\* is unknown only if a registry call failed within that time
\* (docker_updates.py:164-219, docker_routes.py:329-400).
RecentDigest ==
  \A c \in Check :
    (check[c].at # "shown" /\ check'[c].at = "shown" /\ check'[c].local # None)
      => IF Status(check'[c].local, check'[c].remote) = "unknown"
         THEN missed' <= Ttl
         ELSE replaced[check'[c].remote] <= Ttl + Timeout

RemoteIsRecent == [][RecentDigest]_vars

\* Why: an answer on its way is no older than its call, a kept one no older than
\* its age and a call.
UpdatesInv ==
  /\ TypeOK
  /\ replaced[tag] = 0
  /\ cache.age <= Ttl => IF cache.digest = None THEN missed <= cache.age
                         ELSE replaced[cache.digest] <= cache.age + Timeout
  /\ \A c \in Check : check[c].at = "asking" /\ check[c].said # None
                       => replaced[check[c].said] <= check[c].age
=============================================================================
