----------------------------- MODULE FilterSets ------------------------------
(***************************************************************************)
(* FilterSetStore (filter_sets.py): the team's saved log filter sets in    *)
(* one JSON file.  A mutation reads the file, changes the list and         *)
(* replaces the file by a temporary one, all in one turn of the event      *)
(* loop; the gateway may die, and reads and writes may fail, at any step.  *)
(***************************************************************************)
CONSTANTS User, Id, Filters, NoSet

VARIABLES
  file,     \* what the store file holds, as _read_all parses it
  temp,     \* the temporary file: "none", "open" or "written"
  pending,  \* the list the mutation in progress writes
  blind,    \* _read_all met an error and answered []
  writable  \* _probe_writable, asked once at startup

vars == <<file, temp, pending, blind, writable>>

Board == INSTANCE FilterBoard WITH sets <- file.sets

ASSUME StoreAssumption == NoSet \notin Board!Record

TypeOK ==
  /\ file \in [whole : BOOLEAN, sets : Board!Slots]
  /\ temp \in {"none", "open", "written"}
  /\ pending \in Board!Slots
  /\ blind \in BOOLEAN
  /\ writable \in BOOLEAN

\* An absent, unreadable or corrupt file is an empty list.
Init ==
  /\ file \in [whole : BOOLEAN, sets : Board!Slots]
  /\ file.whole \/ file.sets = Board!Empty
  /\ temp = "none" /\ pending = Board!Empty /\ blind = FALSE
  /\ writable \in BOOLEAN

ReadAll(ok) == IF ok THEN file.sets ELSE Board!Empty

\* Every mutation: the lock, _read_all, its checks, and _write_all's first
\* step; a read-only store, a full disk, 403 and 404 end it with no change.
Mutate(ok, new) ==
  /\ temp = "none" /\ writable
  /\ temp' = "open"
  /\ pending' = new
  /\ blind' = ~ok
  /\ UNCHANGED <<file, writable>>

Set(u, shared, filters) == [owner |-> u, shared |-> shared, filters |-> filters]

\* A fresh uuid: no set has it, not even one that could not be read.
Create(u, id, r, ok) ==
  /\ file.sets[id] = NoSet
  /\ Mutate(ok, [ReadAll(ok) EXCEPT ![id] = r])

\* (mutant) the owner is not compared
Update_anyone(u, id, r, ok) ==
  /\ ReadAll(ok)[id] # NoSet
  /\ Mutate(ok, [ReadAll(ok) EXCEPT ![id] = r])

Update(u, id, r, ok) ==
  /\ ReadAll(ok)[id] # NoSet /\ ReadAll(ok)[id].owner = u
  /\ Mutate(ok, [ReadAll(ok) EXCEPT ![id] = r])

Delete(u, id, ok) ==
  /\ ReadAll(ok)[id] # NoSet /\ ReadAll(ok)[id].owner = u
  /\ Mutate(ok, [ReadAll(ok) EXCEPT ![id] = NoSet])

EndWrite == temp' = "none" /\ pending' = Board!Empty /\ blind' = FALSE

Dump ==
  /\ temp = "open" /\ temp' = "written"
  /\ UNCHANGED <<file, pending, blind, writable>>

Replace ==
  /\ temp = "written"
  /\ file' = [whole |-> TRUE, sets |-> pending]
  /\ EndWrite
  /\ UNCHANGED writable

\* The dump or the rename raises: the temporary file is removed, 503.
WriteFails ==
  /\ temp # "none"
  /\ EndWrite
  /\ UNCHANGED <<file, writable>>

\* The gateway dies and starts again: a temporary file stays on the volume
\* under a name nobody reads.
Crash ==
  /\ EndWrite
  /\ writable' \in BOOLEAN
  /\ UNCHANGED file

Next ==
  \/ \E u \in User, id \in Id, ok \in BOOLEAN :
       \/ \E shared \in BOOLEAN, f \in Filters :
            \/ Create(u, id, Set(u, shared, f), ok)
            \/ Update(u, id, Set(u, shared, f), ok)
       \/ Delete(u, id, ok)
  \/ Dump \/ Replace \/ WriteFails \/ Crash

Spec == Init /\ [][Next]_vars

-----------------------------------------------------------------------------
(* Property.                                                               *)

\* Whatever fails or dies, the file always holds every set but the ones
\* their owners changed or removed, and no request leaves half a list
\* behind; a list is started anew only by a request that could not read the
\* old one (76-87, 98-142; docs/logs.md: "a crash mid-write never truncates
\* the store").
BoardSpec == Board!Spec
=============================================================================
