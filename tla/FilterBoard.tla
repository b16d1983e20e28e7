----------------------------- MODULE FilterBoard -----------------------------
(***************************************************************************)
(* What FilterSetStore promises (filter_sets.py, docs/logs.md): a board of *)
(* named filter sets.  Only the owner changes or removes a set, and nobody *)
(* loses one otherwise; the one exception the code documents is a store it *)
(* cannot read, which counts as empty for the request that met it.         *)
(***************************************************************************)
CONSTANTS User, Id, Filters, NoSet

VARIABLES
  sets,  \* per id the saved set, or NoSet
  blind  \* the request in progress could not read the store

Record == [owner : User, shared : BOOLEAN, filters : Filters]
Slots  == [Id -> Record \cup {NoSet}]
Empty  == [id \in Id |-> NoSet]

\* The slots after user u's request on the set id, read as `old`.
Created(u, id, old, new) ==
  /\ old[id] = NoSet
  /\ \E r \in Record : r.owner = u /\ new = [old EXCEPT ![id] = r]
Updated(u, id, old, new) ==
  /\ old[id] # NoSet /\ old[id].owner = u
  /\ \E r \in Record : r.owner = u /\ new = [old EXCEPT ![id] = r]
Deleted(u, id, old, new) ==
  /\ old[id] # NoSet /\ old[id].owner = u
  /\ new = [old EXCEPT ![id] = NoSet]

Allowed(old, new) ==
  \E u \in User, id \in Id :
    Created(u, id, old, new) \/ Updated(u, id, old, new) \/ Deleted(u, id, old, new)

Init == sets \in Slots /\ blind = FALSE

Change   == ~blind /\ Allowed(sets, sets') /\ UNCHANGED blind
StartNew == blind /\ Allowed(Empty, sets') /\ blind' = FALSE
Look     == blind' \in BOOLEAN /\ UNCHANGED sets

Next == Change \/ StartNew \/ Look

Spec == Init /\ [][Next]_<<sets, blind>>
=============================================================================
