----------------------------- MODULE PagesProofs ------------------------------
(***************************************************************************)
(* Proofs about the pages: what they show of their query cache, what the   *)
(* logs page stores, the no-data bar of a host's dashboard, its charts,    *)
(* the stage of the topology, and the plan of a maintenance that is saved  *)
(* untouched.  Each section has the inductive invariant of one page, for   *)
(* the cells it gives its variables, or what its operators compute for     *)
(* every input; a theorem takes it to the run, where the other pages stand *)
(* still.                                                                  *)
(***************************************************************************)
EXTENDS SpaPages, FiniteSetTheorems, SequenceTheorems, TLAPS

\* The filter and the counter agree row by row.
LEMMA ReasonsAgree == Prob!BreakdownAgrees
  <1> SUFFICES ASSUME NEW v \in Prob!Variant, NEW rows \in Prob!AllRows, NEW f \in Prob!Filter,
                      NEW p \in DOMAIN rows
               PROVE  p \in Prob!Visible(v, rows, f) <=> Prob!Reason(v, rows, f, p) = "shown"
    BY DEF Prob!BreakdownAgrees, Prob!Visible
  <1> QED BY DEF Prob!Visible, Prob!Reason, Prob!SeverityOn, Prob!HostOn, Prob!Filter

-----------------------------------------------------------------------------
(* An entry of the query cache.                                            *)

\* What is about to arrive is of the good ones, and what it shows, unless it is marked.
Fresh(q, good) == Dock!CanArrive(q) => q.answer \in good
Sane(q, good)  == Fresh(q, good) /\ (Dock!Loaded(q) /\ ~q.invalid => q.data \in good)

\* A mark is not forgotten.
Heeded(q) == q.invalid => Dock!Fetching(q) \/ q.failed

\* The server answers a fetch with what there is, or with what is newer.
LEMMA Answers ==
  ASSUME NEW D, NEW q \in Dock!Queries(D), NEW x \in D, NEW good
  PROVE  /\ Dock!Answer(q, x) \in Dock!Queries(D) /\ Heeded(Dock!Answer(q, x))
         /\ x \in good => Fresh(Dock!Answer(q, x), good)
         /\ Sane(q, good) /\ x \in good => Sane(Dock!Answer(q, x), good)
  BY DEF Sane, Fresh, Heeded, Dock!Queries, Dock!Answer, Dock!CanArrive,
         Dock!Loaded, Dock!Fetching, Dock!Idle

\* A fetch ends with its answer or with an error, and takes the mark away or says so.
LEMMA Ends ==
  ASSUME NEW D, NEW q \in Dock!Queries(D), NEW good
  PROVE  /\ Dock!Fail(q) \in Dock!Queries(D) /\ Heeded(Dock!Fail(q))
         /\ Dock!Arrive(q) \in Dock!Queries(D) /\ Heeded(Dock!Arrive(q))
         /\ Fresh(Dock!Fail(q), good) /\ (Sane(q, good) => Sane(Dock!Fail(q), good))
         /\ Fresh(q, good) \/ Sane(q, good) =>
              (Dock!CanArrive(q) => Sane(Dock!Arrive(q), good))
  BY DEF Sane, Fresh, Heeded, Dock!Queries, Dock!Fail, Dock!Arrive, Dock!CanArrive,
         Dock!Loaded, Dock!Idle, Dock!Asked

\* A fetch that starts over forgets its answer, one that is joined keeps it.
LEMMA Asks ==
  ASSUME NEW D, NEW q \in Dock!Queries(D), NEW good
  PROVE  /\ Dock!Restart(q) \in Dock!Queries(D) /\ Heeded(Dock!Restart(q))
         /\ Dock!Fetch(q) \in Dock!Queries(D) /\ Heeded(Dock!Fetch(q))
         /\ Dock!Cancel(q) \in Dock!Queries(D) /\ Fresh(Dock!Cancel(q), good)
         /\ Fresh(q, good) => Fresh(Dock!Fetch(q), good)
         /\ Sane(q, good) => /\ Sane(Dock!Restart(q), good) /\ Sane(Dock!Fetch(q), good)
                             /\ Sane(Dock!Cancel(q), good)
  BY DEF Sane, Fresh, Heeded, Dock!Queries, Dock!Fetch, Dock!Cancel, Dock!Restart,
         Dock!CanArrive, Dock!Loaded, Dock!Fetching, Dock!Idle, Dock!Asked

\* A component that mounts fetches an entry that is marked, old or empty.
LEMMA Observes ==
  ASSUME NEW D, NEW q \in Dock!Queries(D), NEW old \in BOOLEAN, NEW good
  PROVE  /\ Dock!Observe(q, old) \in Dock!Queries(D) /\ Heeded(Dock!Observe(q, old))
         /\ Fresh(q, good) => Fresh(Dock!Observe(q, old), good)
         /\ Sane(q, good) => Sane(Dock!Observe(q, old), good)
  BY Asks DEF Dock!Observe, Heeded

\* An invalidation starts a loaded entry over, and joins the fetch of another.
LEMMA Marks ==
  ASSUME NEW D, NEW q \in Dock!Queries(D), NEW good
  PROVE  /\ Dock!Marked(q) \in Dock!Queries(D) /\ Dock!Marked(q).invalid
         /\ Fresh(q, good) => Sane(Dock!Marked(q), good)
         /\ Dock!Loaded(Dock!Marked(q)) <=> Dock!Loaded(q)
         /\ Dock!Restart(Dock!Marked(q)).invalid
         /\ Dock!Fetch(Dock!Marked(q)).invalid
         /\ Sane(Dock!Restart(Dock!Marked(q)), good)
  <1>1. /\ Dock!Marked(q) \in Dock!Queries(D) /\ Dock!Marked(q).invalid
        /\ Fresh(q, good) => Sane(Dock!Marked(q), good)
        /\ Dock!Loaded(Dock!Marked(q)) <=> Dock!Loaded(q)
    BY DEF Sane, Fresh, Dock!Queries, Dock!Loaded, Dock!CanArrive, Dock!Marked
  <1>2. ASSUME NEW r \in Dock!Queries(D), r.invalid
        PROVE  Dock!Restart(r).invalid /\ Dock!Fetch(r).invalid /\ Sane(Dock!Restart(r), good)
    BY <1>2 DEF Sane, Fresh, Dock!Queries, Dock!Restart, Dock!Fetch, Dock!CanArrive, Dock!Asked
  <1> QED BY <1>1, <1>2

-----------------------------------------------------------------------------
(* The Docker page.  c2 are the entries of the cache, c3 the hosts chosen,  *)
(* c6 what the containers were since the last action that ended well.       *)

ContainersInv ==
  /\ Dock!TypeOK
  /\ \A k \in HostFilter : Sane(c2[k], c6[k])
  /\ Heeded(c2[c3])

\* The page opens on an entry with nothing in it.
LEMMA ContainersInit == Dock!DockerPageAssumption /\ Dock!Init => ContainersInv
  BY DEF Dock!DockerPageAssumption, Dock!Init, ContainersInv, Dock!TypeOK, Dock!Empty, Dock!Idle,
         Dock!Queries, Dock!Loaded, Dock!CanArrive, Dock!Unused, Dock!Key, Dock!Asked, Dock!Part,
         Sane, Fresh, Heeded

\* A mutation that ends well marks every entry before c6 forgets what there was.
LEMMA ContainersStep ==
  ASSUME Dock!DockerPageAssumption, ContainersInv, [Dock!Next]_(Dock!vars)
  PROVE  ContainersInv'
  <1> USE DEF ContainersInv, Dock!TypeOK
  <1>0. ASSUME c7 < MaxMoves, c7' = c7 + 1 PROVE c7' \in 0..MaxMoves
    BY <1>0 DEF Dock!DockerPageAssumption
  <1>1. CASE UNCHANGED Dock!vars
    BY <1>1 DEF Dock!vars
  <1>2. CASE Dock!Work
    BY <1>0, <1>2 DEF Dock!Work, Dock!Key, Sane, Fresh
  <1>3. ASSUME NEW k \in Dock!Key, Dock!Serve(k) PROVE ContainersInv'
    BY <1>3, Answers DEF Dock!Serve, Dock!Key
  <1>4. ASSUME NEW k \in Dock!Key, Dock!Receive(k) PROVE ContainersInv'
    BY <1>4, Ends DEF Dock!Receive, Dock!Key
  <1>5. ASSUME NEW k \in Dock!Key, Dock!Lose(k) PROVE ContainersInv'
    BY <1>5, Ends DEF Dock!Lose, Dock!Key
  <1>6. ASSUME NEW k \in Dock!Key, Dock!Poll(k) PROVE ContainersInv'
    BY <1>6, Asks DEF Dock!Poll, Dock!Key
  <1>7. ASSUME NEW h \in HostFilter, Dock!ToggleHost(h) PROVE ContainersInv'
    <2>1. PICK old \in BOOLEAN :
            c2' = [c2 EXCEPT ![c3] = Dock!Cancel(@), ![h] = Dock!Observe(@, old)]
      BY <1>7 DEF Dock!ToggleHost
    <2>2. /\ h # c3 /\ c3' = h /\ UNCHANGED <<c1, c4, c5, c6>> /\ c7' \in 0..MaxMoves
          /\ c3 \in Dock!Key /\ h \in Dock!Key
      BY <1>0, <1>7 DEF Dock!ToggleHost, Dock!Key
    <2>3. \A k \in Dock!Key : c2'[k] = IF k = h THEN Dock!Observe(c2[k], old)
                                     ELSE IF k = c3 THEN Dock!Cancel(c2[k]) ELSE c2[k]
      BY <2>1, <2>2
    <2>4. c2' \in [Dock!Key -> Dock!Queries(Engine)] /\ Heeded(c2'[h])
      BY <2>1, <2>2, <2>3, Asks, Observes
    <2>5. ASSUME NEW k \in HostFilter PROVE Sane(c2'[k], c6'[k])
      <3>1. k \in Dock!Key /\ c2[k] \in Dock!Queries(Engine) /\ Sane(c2[k], c6[k])
        BY DEF Dock!Key
      <3>2. CASE k = h
        <4>1. c2'[k] = Dock!Observe(c2[k], old) /\ c6'[k] = c6[k]
          BY <2>2, <2>3, <3>1, <3>2
        <4> QED BY <3>1, <4>1, Observes
      <3>3. CASE k # h
        BY <2>2, <2>3, <3>1, <3>3, Asks
      <3> QED BY <3>2, <3>3
    <2> QED BY <2>2, <2>4, <2>5
  <1>8. CASE Dock!SelectStack
    <2>1. PICK old \in BOOLEAN : c2' = [c2 EXCEPT !["stacks"] = Dock!Observe(@, old)]
      BY <1>8 DEF Dock!SelectStack
    <2>2. /\ UNCHANGED <<c1, c3, c5, c6>> /\ c4' = "stack" /\ c7' \in 0..MaxMoves
          /\ "stacks" \in Dock!Key /\ "stacks" \notin HostFilter
      BY <1>0, <1>8 DEF Dock!SelectStack, Dock!Key, Dock!DockerPageAssumption
    <2>3. c2' \in [Dock!Key -> Dock!Queries(Engine)]
      BY <2>1, <2>2, Observes
    <2> QED BY <2>1, <2>2, <2>3 DEF Dock!Key
  <1>9. CASE Dock!SelectContainer
    BY <1>0, <1>9, Asks DEF Dock!SelectContainer, Dock!Key, Dock!DockerPageAssumption
  <1>10. ASSUME NEW m \in Dock!Slot, NEW part \in Dock!Part, Dock!Run(m, part) PROVE ContainersInv'
    BY <1>10 DEF Dock!Run
  <1>11. ASSUME NEW m \in Dock!Slot, Dock!Execute(m) PROVE ContainersInv'
    BY <1>11 DEF Dock!Execute, Dock!Key, Sane, Fresh
  <1>12. ASSUME NEW m \in Dock!Slot, Dock!Reject(m) PROVE ContainersInv'
    BY <1>12 DEF Dock!Reject
  <1>13. ASSUME NEW m \in Dock!Slot, Dock!Settle(m) PROVE ContainersInv'
    <2>1. CASE c5[m].stage = "error"
      BY <1>13, <2>1 DEF Dock!Settle, Dock!Over
    <2>2. CASE c5[m].stage = "done"
      <3>1. /\ c2' = [k \in Dock!Key |->
                 IF k \in Dock!Stale(c5[m].part)
                 THEN Dock!Invalidate(c2[k], k \in Dock!Watched) ELSE c2[k]]
            /\ c6' = [k \in Dock!Key |->
                 IF k \in Dock!Watched /\ Dock!Loaded(c2[k]) THEN {c1} ELSE c6[k]]
            /\ UNCHANGED <<c1, c3, c4, c7>>
        BY <1>13, <2>2 DEF Dock!Settle
      <3>2. ASSUME NEW k \in Dock!Key
            PROVE  c2'[k] \in Dock!Queries(Engine)
        BY <3>1, Marks, Asks DEF Dock!Invalidate
      <3>3. ASSUME NEW k \in HostFilter PROVE Sane(c2'[k], c6'[k])
        BY <3>1, Marks, Asks DEF Dock!Stale, Dock!Key, Dock!Invalidate, Sane
      <3>4. Heeded(c2'[c3'])
        BY <3>1, Marks, Asks DEF Dock!Stale, Dock!Key, Dock!Watched, Dock!Invalidate
      <3>5. Dock!TypeOK'
        BY <1>13, <3>1, <3>2 DEF Dock!Settle, Dock!Over
      <3> QED BY <3>3, <3>4, <3>5
    <2> QED BY <1>13, <2>1, <2>2 DEF Dock!Settle
  <1> QED
    BY <1>1, <1>2, <1>3, <1>4, <1>5, <1>6, <1>7, <1>8, <1>9, <1>10, <1>11, <1>12, <1>13
    DEF Dock!Next

\* A quiet entry is loaded and not marked.
LEMMA ContainersAreCurrent ==
  Dock!DockerPageAssumption /\ ContainersInv => Dock!QuietListsAreCurrent
  BY DEF ContainersInv, Dock!QuietListsAreCurrent, Dock!Current, Dock!Watched, Dock!TypeOK,
         Dock!DockerPageAssumption, Sane, Heeded

-----------------------------------------------------------------------------
(* The problems.  c1 is what Zabbix holds, c3 are the lists, c4 is the      *)
(* variant on the page, c6 are the actions, c8 is what Zabbix has held      *)
(* since the last one that ended.                                           *)

\* An action that may still change the lists.
Acting == \E m \in Prob!Slot : Prob!Pending(c6[m])

\* What Zabbix would have given.
Given(states, v) == {Prob!Rows(s, v) : s \in states}

\* A mark may wait while an action is under way: the last one to end heeds it.
ProblemsInv ==
  /\ Prob!TypeOK
  /\ \A v \in Prob!Variant : Fresh(c3[v], Given(c8[v], v)) /\ (~Acting => Sane(c3[v], Given(c8[v], v)))
  /\ c4 # Prob!Away /\ ~Acting => Heeded(c3[c4])

\* Both pages use one cache.
LEMMA SameCache ==
  ASSUME NEW q
  PROVE  /\ \A x : Prob!Answer(q, x) = Dock!Answer(q, x)
         /\ \A old \in BOOLEAN : Prob!Observe(q, old) = Dock!Observe(q, old)
         /\ Prob!Fail(q) = Dock!Fail(q) /\ Prob!Cancel(q) = Dock!Cancel(q)
         /\ Prob!Arrive(q) = Dock!Arrive(q) /\ Prob!Fetch(q) = Dock!Fetch(q)
         /\ Prob!Restart(q) = Dock!Restart(q) /\ Prob!Marked(q) = Dock!Marked(q)
         /\ Prob!Loaded(q) <=> Dock!Loaded(q)
         /\ Prob!Fetching(q) <=> Dock!Fetching(q)
         /\ Prob!CanArrive(q) <=> Dock!CanArrive(q)
  <1> USE DEF Prob!Answer, Dock!Answer, Prob!Fail, Dock!Fail, Prob!Arrive, Dock!Arrive,
              Prob!Cancel, Dock!Cancel, Prob!Marked, Dock!Marked, Prob!Loaded, Dock!Loaded,
              Prob!Fetching, Dock!Fetching, Prob!CanArrive, Dock!CanArrive, Prob!Idle, Dock!Idle,
              Prob!Asked, Dock!Asked
  <1>1. Prob!Restart(q) = Dock!Restart(q)
    BY DEF Prob!Restart, Dock!Restart
  <1>2. Prob!Fetch(q) = Dock!Fetch(q)
    BY <1>1 DEF Prob!Fetch, Dock!Fetch
  <1>3. \A old \in BOOLEAN : Prob!Observe(q, old) = Dock!Observe(q, old)
    BY <1>2 DEF Prob!Observe, Dock!Observe
  <1> QED BY <1>1, <1>2, <1>3

\* The entries have one form.
LEMMA SameEntries == Prob!Queries(Prob!AllRows) = Dock!Queries(Prob!AllRows)
  BY DEF Prob!Queries, Dock!Queries, Prob!Idle, Dock!Idle, Prob!Asked, Dock!Asked

\* Zabbix answers with rows, whatever states it holds.
LEMMA RowsAreRows ==
  ASSUME NEW s \in [Problem -> Prob!State], NEW v
  PROVE  Prob!Rows(s, v) \in Prob!AllRows
  <1> DEFINE listed == {p \in Problem : /\ "open" \in s[p]
                                        /\ v = "default" => "suppressed" \notin s[p]}
  <1>1. listed \in SUBSET Problem /\ [p \in listed |-> s[p]] \in [listed -> Prob!State]
    OBVIOUS
  <1> QED BY <1>1 DEF Prob!Rows, Prob!AllRows

\* The rows of a list are of problems, and so is what a filter leaves.
LEMMA RowsAreProblems ==
  ASSUME NEW rows \in Prob!AllRows
  PROVE  /\ DOMAIN rows \subseteq Problem /\ \A p \in DOMAIN rows : rows[p] \in Prob!State
         /\ \A v, f : Prob!Visible(v, rows, f) \subseteq Problem
  BY DEF Prob!AllRows, Prob!Visible

\* An operation changes a state into a state.
LEMMA ChangedIsState ==
  ASSUME Prob!ProblemsAssumption, NEW what \in Prob!State, NEW op \in Prob!Operation
  PROVE  Prob!Changed(what, op) \in Prob!State
  BY DEF Prob!Changed, Prob!State, Prob!Operation, Prob!ProblemsAssumption

\* An optimistic edit of rows leaves rows.
LEMMA EditedIsRows ==
  ASSUME Prob!ProblemsAssumption, NEW rows \in Prob!AllRows, NEW ids, NEW op \in Prob!Operation
  PROVE  Prob!Edited(rows, ids, op) \in Prob!AllRows
  <1> DEFINE listed == IF op.field = "open" THEN DOMAIN rows \ ids ELSE DOMAIN rows
  <1>1. listed \in SUBSET Problem
    BY RowsAreProblems
  <1>2. Prob!Edited(rows, ids, op) \in [listed -> Prob!State]
    BY RowsAreProblems, ChangedIsState DEF Prob!Edited
  <1> QED BY <1>1, <1>2 DEF Prob!AllRows

\* The page opens on the one list and with no action.
LEMMA ProblemsInit == Prob!ProblemsAssumption /\ Prob!Init => ProblemsInv
  <1> SUFFICES ASSUME Prob!ProblemsAssumption, Prob!Init PROVE ProblemsInv
    OBVIOUS
  <1>1. Prob!Empty \in Prob!Queries(Prob!AllRows) /\ Prob!Restart(Prob!Empty) \in Prob!Queries(Prob!AllRows)
    BY DEF Prob!Empty, Prob!Queries, Prob!Restart, Prob!Idle, Prob!Asked
  <1>2. \A v \in Prob!Variant : Sane(c3[v], Given(c8[v], v)) /\ Fresh(c3[v], Given(c8[v], v)) /\ ~c3[v].invalid
    BY DEF Prob!Init, Prob!Empty, Prob!Restart, Sane, Fresh, Dock!Loaded, Dock!CanArrive, Prob!Idle, Prob!Asked
  <1>3. Prob!TypeOK
    BY <1>1 DEF Prob!Init, Prob!TypeOK, Prob!State, Prob!Variant, Prob!Mutation, Prob!Unused,
                Prob!ProblemsAssumption, Prob!NoSlot
  <1> QED BY <1>2, <1>3 DEF ProblemsInv, Heeded, Prob!Init, Prob!Variant

\* A step that changes one entry, and no action.
LEMMA OneListChanges ==
  ASSUME ProblemsInv, NEW v \in Prob!Variant, NEW q \in Prob!Queries(Prob!AllRows),
         c3' = [c3 EXCEPT ![v] = q], UNCHANGED <<c1, c5, c6, c7, c8>>,
         c2' \in 0..MaxMoves, c4' \in Prob!Variant \cup {Prob!Away},
         Fresh(q, Given(c8[v], v)), Sane(c3[v], Given(c8[v], v)) => Sane(q, Given(c8[v], v)),
         c4' = v => Heeded(q), c4' \in {v, c4}
  PROVE  ProblemsInv'
  <1> USE DEF ProblemsInv, Prob!TypeOK
  <1>1. Prob!TypeOK'
    OBVIOUS
  <1>2. (Acting' <=> Acting)
    BY DEF Acting
  <1>3. \A u \in Prob!Variant : c3'[u] = IF u = v THEN q ELSE c3[u]
    OBVIOUS
  <1>4. \A u \in Prob!Variant : /\ Fresh(c3'[u], Given(c8[u], u))
                                /\ ~Acting => Sane(c3'[u], Given(c8[u], u))
    BY <1>3
  <1>5. c4' # Prob!Away /\ ~Acting => Heeded(c3'[c4'])
    BY <1>3
  <1> HIDE DEF Prob!TypeOK
  <1> QED BY <1>1, <1>2, <1>4, <1>5

\* What Zabbix holds is added to.
LEMMA ServerChanges ==
  ASSUME ProblemsInv, UNCHANGED <<c3, c4, c5, c7>>, c2' \in 0..MaxMoves,
         c1' \in [Problem -> Prob!State], c8' = [v \in Prob!Variant |-> c8[v] \cup {c1'}],
         c6' \in [Prob!Slot -> Prob!Mutation], Acting => Acting'
  PROVE  ProblemsInv'
  <1> USE DEF ProblemsInv
  <1>1. Prob!TypeOK'
    BY DEF Prob!TypeOK
  <1>2. \A u \in Prob!Variant : Given(c8[u], u) \subseteq Given(c8'[u], u)
    BY DEF Given
  <1>3. \A u \in Prob!Variant : /\ Fresh(c3[u], Given(c8'[u], u))
                                /\ Sane(c3[u], Given(c8[u], u)) => Sane(c3[u], Given(c8'[u], u))
    BY <1>2 DEF Fresh, Sane
  <1>4. \A u \in Prob!Variant : Fresh(c3[u], Given(c8[u], u)) /\ (~Acting => Sane(c3[u], Given(c8[u], u)))
    OBVIOUS
  <1>5. \A u \in Prob!Variant :
          Fresh(c3'[u], Given(c8'[u], u)) /\ (~Acting' => Sane(c3'[u], Given(c8'[u], u)))
    BY <1>3, <1>4
  <1>6. c4' # Prob!Away /\ ~Acting' => Heeded(c3'[c4'])
    OBVIOUS
  <1> QED BY <1>1, <1>5, <1>6

\* Turns of the user that leave the lists and the actions alone.
LEMMA PageTurns ==
  ASSUME ProblemsInv, UNCHANGED <<c1, c3, c6, c8>>, c2' \in 0..MaxMoves,
         c4' \in {c4, Prob!Away}, c5' \subseteq Problem,
         c7' \in [Prob!Part -> Prob!Slot \cup {Prob!NoSlot}]
  PROVE  ProblemsInv'
  <1>1. Prob!TypeOK'
    BY DEF ProblemsInv, Prob!TypeOK
  <1>2. Acting' <=> Acting
    BY DEF Acting
  <1>3. \A u \in Prob!Variant : /\ Fresh(c3'[u], Given(c8'[u], u))
                                /\ ~Acting => Sane(c3'[u], Given(c8'[u], u))
    BY DEF ProblemsInv
  <1>4. c4' # Prob!Away /\ ~Acting => Heeded(c3'[c4'])
    BY DEF ProblemsInv
  <1> QED BY <1>1, <1>2, <1>3, <1>4 DEF ProblemsInv

\* Answers, errors, and turns to another list.
LEMMA ListSteps ==
  ASSUME Prob!ProblemsAssumption, ProblemsInv, NEW v \in Prob!Variant,
         Prob!Serve(v) \/ Prob!Lose(v) \/ Prob!Receive(v) \/ Prob!Show(v)
  PROVE  ProblemsInv'
  <1>1. /\ c3[v] \in Prob!Queries(Prob!AllRows) /\ c1 \in [Problem -> Prob!State] /\ c2 \in 0..MaxMoves
        /\ c4 \in Prob!Variant \cup {Prob!Away} /\ c1 \in c8[v]
        /\ Fresh(c3[v], Given(c8[v], v))
    BY DEF ProblemsInv, Prob!TypeOK
  <1>2. c3[v] \in Dock!Queries(Prob!AllRows)
    BY <1>1, SameEntries
  <1>3. ASSUME Prob!Serve(v) PROVE ProblemsInv'
    <2>1. Prob!Rows(c1, v) \in Prob!AllRows /\ Prob!Rows(c1, v) \in Given(c8[v], v)
      BY <1>1, RowsAreRows DEF Given
    <2> DEFINE q == Dock!Answer(c3[v], Prob!Rows(c1, v))
    <2>2. /\ q \in Prob!Queries(Prob!AllRows) /\ Heeded(q) /\ Fresh(q, Given(c8[v], v))
          /\ Sane(c3[v], Given(c8[v], v)) => Sane(q, Given(c8[v], v))
      BY <1>2, <2>1, Answers, SameEntries
    <2>3. c3' = [c3 EXCEPT ![v] = q] /\ UNCHANGED <<c1, c2, c4, c5, c6, c7, c8>>
      BY <1>3, SameCache DEF Prob!Serve
    <2> HIDE DEF q
    <2> QED BY <1>1, <2>2, <2>3, OneListChanges
  <1>4. ASSUME Prob!Lose(v) PROVE ProblemsInv'
    <2> DEFINE q == Dock!Fail(c3[v])
    <2>2. /\ q \in Prob!Queries(Prob!AllRows) /\ Heeded(q) /\ Fresh(q, Given(c8[v], v))
          /\ Sane(c3[v], Given(c8[v], v)) => Sane(q, Given(c8[v], v))
      BY <1>2, Ends, SameEntries
    <2>3. c3' = [c3 EXCEPT ![v] = q] /\ UNCHANGED <<c1, c2, c4, c5, c6, c7, c8>>
      BY <1>4, SameCache DEF Prob!Lose
    <2> HIDE DEF q
    <2> QED BY <1>1, <2>2, <2>3, OneListChanges
  <1>5. ASSUME Prob!Receive(v) PROVE ProblemsInv'
    <2> DEFINE q == Dock!Arrive(c3[v])
    <2>1. Dock!CanArrive(c3[v])
      BY <1>5, SameCache DEF Prob!Receive
    <2>2. /\ q \in Prob!Queries(Prob!AllRows) /\ Heeded(q) /\ Sane(q, Given(c8[v], v))
      BY <1>1, <1>2, <2>1, Ends, SameEntries
    <2>3. c3' = [c3 EXCEPT ![v] = q] /\ UNCHANGED <<c1, c2, c4, c5, c6, c7, c8>>
      BY <1>5, SameCache DEF Prob!Receive
    <2> HIDE DEF q
    <2> QED BY <1>1, <2>2, <2>3, OneListChanges DEF Sane
  <1>6. ASSUME Prob!Show(v) PROVE ProblemsInv'
    <2>1. PICK old \in BOOLEAN : c3' = [c3 EXCEPT ![v] = Dock!Observe(@, old)]
      BY <1>6, SameCache DEF Prob!Show
    <2> DEFINE q == Dock!Observe(c3[v], old)
    <2>2. /\ q \in Prob!Queries(Prob!AllRows) /\ Heeded(q) /\ Fresh(q, Given(c8[v], v))
          /\ Sane(c3[v], Given(c8[v], v)) => Sane(q, Given(c8[v], v))
      BY <1>1, <1>2, Observes, SameEntries
    <2>3. /\ c3' = [c3 EXCEPT ![v] = q] /\ UNCHANGED <<c1, c5, c6, c7, c8>> /\ c4' = v
          /\ c2' \in 0..MaxMoves
      <3>1. /\ UNCHANGED <<c1, c5, c6, c7, c8>> /\ c4' = v /\ c2 < MaxMoves /\ c2' = c2 + 1
        BY <1>6 DEF Prob!Show
      <3>2. c2' \in 0..MaxMoves
        BY <1>1, <3>1 DEF Prob!ProblemsAssumption
      <3> QED BY <1>1, <2>1, <3>1, <3>2
    <2> HIDE DEF q
    <2> QED BY <1>1, <2>2, <2>3, OneListChanges
  <1> QED BY <1>3, <1>4, <1>5, <1>6

\* A poll leaves the lists alone while an action is under way.
LEMMA PollStep ==
  ASSUME ProblemsInv, Prob!Poll
  PROVE  ProblemsInv'
  <1> DEFINE v == c4
             q == Dock!Fetch(c3[v])
  <1>1. /\ v \in Prob!Variant /\ c3[v] \in Dock!Queries(Prob!AllRows) /\ c2 \in 0..MaxMoves
        /\ Fresh(c3[v], Given(c8[v], v))
        /\ c3' = [c3 EXCEPT ![v] = q] /\ UNCHANGED <<c1, c2, c4, c5, c6, c7, c8>>
    <2>1. /\ c4 # Prob!Away /\ c3' = [c3 EXCEPT ![c4] = Prob!Fetch(@)]
          /\ UNCHANGED <<c1, c2, c4, c5, c6, c7, c8>>
      BY DEF Prob!Poll
    <2>2. c4 \in Prob!Variant /\ c3 \in [Prob!Variant -> Prob!Queries(Prob!AllRows)] /\ c2 \in 0..MaxMoves
      BY <2>1 DEF ProblemsInv, Prob!TypeOK
    <2>3. Fresh(c3[c4], Given(c8[c4], c4))
      BY <2>2 DEF ProblemsInv
    <2> QED BY <2>1, <2>2, <2>3, SameCache, SameEntries
  <1>2. /\ q \in Prob!Queries(Prob!AllRows) /\ Heeded(q) /\ Fresh(q, Given(c8[v], v))
        /\ Sane(c3[v], Given(c8[v], v)) => Sane(q, Given(c8[v], v))
    BY <1>1, Asks, SameEntries
  <1>3. c4' \in Prob!Variant \cup {Prob!Away} /\ c4' \in {v, c4}
    BY <1>1
  <1> HIDE DEF q
  <1> QED BY <1>1, <1>2, <1>3, OneListChanges

\* An edit of the lists, and the way back from it.
LEMMA Writes ==
  ASSUME NEW D, NEW q \in Dock!Queries(D), NEW x \in D \cup {NoData}, NEW good
  PROVE  /\ Prob!Write(q, x) \in Dock!Queries(D)
         /\ Fresh(q, good) => Fresh(Prob!Write(q, x), good)
         /\ Dock!Loaded(Prob!Write(q, x)) <=> Dock!Loaded(q)
  BY SameCache DEF Prob!Write, Dock!Queries, Fresh, Dock!CanArrive, Dock!Loaded

\* An action that ends is not under way.
LEMMA Endings ==
  ASSUME NEW m \in Prob!Mutation, m.stage = "sent", NEW end \in {"done", "error"}
  PROVE  Prob!Ended(m, end) \in Prob!Mutation /\ Prob!Pending(Prob!Ended(m, end))
  <1>1. m.part \in Prob!Part /\ m.previous \in [Prob!Variant -> Prob!AllRows \cup {NoData}]
    BY DEF Prob!Mutation, Prob!Unused, Prob!Over
  <1> QED BY <1>1 DEF Prob!Ended, Prob!Mutation, Prob!Pending

\* Zabbix applies an action, answers it, or loses it.
LEMMA RequestEnds ==
  ASSUME Prob!ProblemsAssumption, ProblemsInv, NEW m \in Prob!Slot,
         Prob!Execute(m) \/ Prob!Reject(m)
  PROVE  ProblemsInv'
  <1>1. PICK end \in {"done", "error"} :
          c6' = [c6 EXCEPT ![m] = Prob!Ended(@, end)] /\ c6[m].stage = "sent"
    BY DEF Prob!Execute, Prob!Reject
  <1>2. c6 \in [Prob!Slot -> Prob!Mutation] /\ c2 \in 0..MaxMoves
    BY DEF ProblemsInv, Prob!TypeOK
  <1>3. Prob!Ended(c6[m], end) \in Prob!Mutation /\ Prob!Pending(Prob!Ended(c6[m], end))
    BY <1>1, <1>2, Endings
  <1>4. c6' \in [Prob!Slot -> Prob!Mutation] /\ Acting'
    BY <1>1, <1>2, <1>3 DEF Acting
  <1>5. CASE Prob!Execute(m)
    <2>1. c1 \in [Problem -> Prob!State] /\ c6[m].op \in Prob!Operation
      BY <1>1, <1>2 DEF ProblemsInv, Prob!TypeOK, Prob!Mutation, Prob!Unused, Prob!Over
    <2>2. c1' \in [Problem -> Prob!State]
      BY <1>5, <2>1, ChangedIsState DEF Prob!Execute
    <2>3. /\ UNCHANGED <<c2, c3, c4, c5, c7>>
          /\ c8' = [v \in Prob!Variant |-> c8[v] \cup {c1'}]
      BY <1>5 DEF Prob!Execute
    <2> QED BY <1>2, <1>4, <2>2, <2>3, ServerChanges
  <1>6. CASE Prob!Reject(m)
    <2>1. UNCHANGED <<c1, c2, c3, c4, c5, c7, c8>>
      BY <1>6 DEF Prob!Reject
    <2> QED BY <1>4, <2>1 DEF ProblemsInv, Prob!TypeOK
  <1> QED BY <1>5, <1>6

\* An action cancels the fetches before it edits the lists.
LEMMA MutateStep ==
  ASSUME Prob!ProblemsAssumption, ProblemsInv, NEW m \in Prob!Slot, NEW part \in Prob!Part,
         NEW ids \in SUBSET Problem, NEW op \in Prob!Operation, Prob!Mutate(m, part, ids, op)
  PROVE  ProblemsInv'
  <1> DEFINE quiet == [v \in Prob!Variant |-> Prob!Cancel(c3[v])]
             new   == [stage |-> "sent", part |-> part, ids |-> ids, op |-> op,
                       previous |-> [v \in Prob!Variant |-> quiet[v].data]]
  <1>1. /\ c6' = [c6 EXCEPT ![m] = new] /\ c7' = [c7 EXCEPT ![part] = m]
        /\ c3' = [v \in Prob!Variant |->
             IF Prob!Loaded(quiet[v])
             THEN Prob!Write(quiet[v], Prob!Edited(quiet[v].data, ids, op)) ELSE quiet[v]]
        /\ UNCHANGED <<c1, c2, c4, c5, c8>>
    BY DEF Prob!Mutate
  <1>2. Prob!TypeOK
    BY DEF ProblemsInv
  <1>3. ASSUME NEW v \in Prob!Variant
        PROVE  /\ quiet[v] \in Prob!Queries(Prob!AllRows) /\ Fresh(quiet[v], Given(c8[v], v))
               /\ quiet[v] \in Dock!Queries(Prob!AllRows)
               /\ quiet[v].data \in Prob!AllRows \cup {NoData}
    <2>1. c3[v] \in Dock!Queries(Prob!AllRows) /\ quiet[v] = Dock!Cancel(c3[v])
      BY <1>2, SameCache, SameEntries DEF Prob!TypeOK
    <2>2. quiet[v] \in Dock!Queries(Prob!AllRows) /\ Fresh(quiet[v], Given(c8[v], v))
      BY <2>1, Asks
    <2> QED BY <2>2, SameEntries DEF Dock!Queries
  <1> HIDE DEF quiet
  <1>4. ASSUME NEW v \in Prob!Variant
        PROVE  c3'[v] \in Prob!Queries(Prob!AllRows) /\ Fresh(c3'[v], Given(c8[v], v))
    <2>1. CASE Prob!Loaded(quiet[v])
      <3>1. Prob!Edited(quiet[v].data, ids, op) \in Prob!AllRows
        BY <1>3, <2>1, EditedIsRows DEF Prob!Loaded
      <3>2. c3'[v] = Prob!Write(quiet[v], Prob!Edited(quiet[v].data, ids, op))
        BY <1>1, <2>1
      <3> QED BY <1>3, <3>1, <3>2, Writes, SameEntries
    <2>2. CASE ~Prob!Loaded(quiet[v])
      BY <1>1, <1>3, <2>2
    <2> QED BY <2>1, <2>2
  <1>5. new \in Prob!Mutation /\ Prob!Pending(new)
    <2>1. [v \in Prob!Variant |-> quiet[v].data] \in [Prob!Variant -> Prob!AllRows \cup {NoData}]
      BY <1>3
    <2> QED BY <2>1 DEF Prob!Mutation, Prob!Pending
  <1> HIDE DEF new
  <1>6. c6' \in [Prob!Slot -> Prob!Mutation] /\ Acting'
    BY <1>1, <1>2, <1>5 DEF Acting, Prob!TypeOK
  <1>7. Prob!TypeOK'
    <2>1. c3' \in [Prob!Variant -> Prob!Queries(Prob!AllRows)]
      BY <1>1, <1>4
    <2> QED BY <1>1, <1>2, <1>6, <2>1 DEF Prob!TypeOK
  <1> QED BY <1>1, <1>4, <1>6, <1>7 DEF ProblemsInv

\* The last action to end marks every list, and has the one on the page fetched.
LEMMA SettleStep ==
  ASSUME ProblemsInv, NEW m \in Prob!Slot, Prob!Settle(m)
  PROVE  ProblemsInv'
  <1> DEFINE back(v) == IF c6[m].stage = "error" THEN Prob!Write(c3[v], c6[m].previous[v]) ELSE c3[v]
  <1>1. /\ c6[m].stage \in {"done", "error"} /\ c6' = [c6 EXCEPT ![m] = Prob!Over]
        /\ c3' = [v \in Prob!Variant |-> Prob!Invalidate(back(v), v = c4)]
        /\ c8' = [v \in Prob!Variant |-> IF v = c4 /\ Prob!Loaded(c3[v]) THEN {c1} ELSE c8[v]]
        /\ c5' \in {{}, c5} /\ c7' = [w \in Prob!Part |-> IF c7[w] = m THEN Prob!NoSlot ELSE c7[w]]
        /\ UNCHANGED <<c1, c2, c4>>
    BY DEF Prob!Settle, Prob!Settled, Prob!RolledBack
  <1>2. Prob!TypeOK
    BY DEF ProblemsInv
  <1>3. ASSUME NEW v \in Prob!Variant
        PROVE  /\ back(v) \in Dock!Queries(Prob!AllRows) /\ Fresh(back(v), Given(c8[v], v))
               /\ Dock!Loaded(back(v)) <=> Dock!Loaded(c3[v])
    <2>1. /\ c3[v] \in Dock!Queries(Prob!AllRows) /\ Fresh(c3[v], Given(c8[v], v))
          /\ c6[m].stage = "error" => c6[m].previous[v] \in Prob!AllRows \cup {NoData}
      BY <1>2, SameEntries DEF Prob!TypeOK, ProblemsInv, Prob!Mutation, Prob!Unused, Prob!Over
    <2> QED BY <2>1, Writes
  <1> HIDE DEF back
  <1>4. ASSUME NEW v \in Prob!Variant
        PROVE  /\ c3'[v] \in Prob!Queries(Prob!AllRows) /\ Sane(c3'[v], Given(c8'[v], v))
               /\ v = c4 => Heeded(c3'[v])
    <2> DEFINE q == back(v)
               marked == Dock!Marked(back(v))
    <2>1. /\ marked \in Dock!Queries(Prob!AllRows) /\ Sane(marked, Given(c8[v], v))
          /\ \A good : Sane(Dock!Restart(marked), good)
          /\ Dock!Loaded(c3[v]) <=> Dock!Loaded(q)
      BY <1>3, Marks
    <2>2. c3'[v] = IF v # c4 THEN marked
                   ELSE IF Dock!Loaded(q) THEN Dock!Restart(marked) ELSE Dock!Fetch(marked)
      BY <1>1, SameCache DEF Prob!Invalidate
    <2>3. Given(c8'[v], v) = IF v = c4 /\ Dock!Loaded(c3[v]) THEN Given({c1}, v) ELSE Given(c8[v], v)
      BY <1>1, SameCache
    <2> HIDE DEF q, marked
    <2>4. CASE v # c4
      BY <2>1, <2>2, <2>3, <2>4, SameEntries
    <2>5. CASE v = c4 /\ Dock!Loaded(q)
      BY <2>1, <2>2, <2>5, SameEntries, Asks
    <2>6. CASE v = c4 /\ ~Dock!Loaded(q)
      BY <2>1, <2>2, <2>3, <2>6, SameEntries, Asks
    <2> QED BY <2>4, <2>5, <2>6
  <1>5. Prob!TypeOK'
    <2>1. c3' \in [Prob!Variant -> Prob!Queries(Prob!AllRows)]
      BY <1>1, <1>4
    <2>2. c6' \in [Prob!Slot -> Prob!Mutation]
      BY <1>1, <1>2 DEF Prob!TypeOK, Prob!Mutation
    <2>3. c8' \in [Prob!Variant -> SUBSET [Problem -> Prob!State]] /\ \A v \in Prob!Variant : c1' \in c8'[v]
      BY <1>1, <1>2 DEF Prob!TypeOK
    <2> QED BY <1>1, <1>2, <2>1, <2>2, <2>3 DEF Prob!TypeOK
  <1>6. c4' # Prob!Away => Heeded(c3'[c4'])
    BY <1>1, <1>2, <1>4 DEF Prob!TypeOK
  <1> QED BY <1>4, <1>5, <1>6 DEF ProblemsInv, Sane

\* One step for each action of the page.
LEMMA ProblemsStep ==
  ASSUME Prob!ProblemsAssumption, ProblemsInv, [Prob!Next]_(Prob!vars)
  PROVE  ProblemsInv'
  <1>1. Prob!TypeOK
    BY DEF ProblemsInv
  <1>2. ASSUME Prob!HasRows
        PROVE  \A rows \in Prob!Pages : rows \subseteq Problem
    <2>1. c3[c4].data \in Prob!AllRows
      BY <1>1, <1>2 DEF Prob!HasRows, Prob!TypeOK, Prob!Queries, Prob!Loaded
    <2> QED BY <2>1, RowsAreProblems DEF Prob!Pages
  <1>3. CASE UNCHANGED Prob!vars
    <2>1. UNCHANGED <<c1, c2, c3, c4, c5, c6, c7, c8>>
      BY <1>3 DEF Prob!vars
    <2> QED BY <1>1, <2>1, PageTurns DEF Prob!TypeOK
  <1>4. CASE Prob!Change
    <2>1. PICK p \in Problem, what \in SUBSET (Field \cup {"open"}) : c1' = [c1 EXCEPT ![p] = what]
      BY <1>4 DEF Prob!Change
    <2>2. c1' \in [Problem -> Prob!State]
      BY <1>1, <2>1 DEF Prob!TypeOK, Prob!State, Prob!ProblemsAssumption
    <2>3. /\ UNCHANGED <<c3, c4, c5, c6, c7>> /\ c8' = [v \in Prob!Variant |-> c8[v] \cup {c1'}]
          /\ c2 < MaxMoves /\ c2' = c2 + 1
      BY <1>4 DEF Prob!Change
    <2>4. c2' \in 0..MaxMoves
      BY <1>1, <2>3 DEF Prob!TypeOK, Prob!ProblemsAssumption
    <2>5. (Acting => Acting') /\ c6' \in [Prob!Slot -> Prob!Mutation]
      BY <1>1, <2>3 DEF Acting, Prob!TypeOK
    <2> QED BY <2>2, <2>3, <2>4, <2>5, ServerChanges
  <1>5. ASSUME NEW v \in Prob!Variant,
               Prob!Serve(v) \/ Prob!Lose(v) \/ Prob!Receive(v) \/ Prob!Show(v)
        PROVE  ProblemsInv'
    BY <1>5, ListSteps
  <1>6. CASE Prob!Poll
    BY <1>6, PollStep
  <1>7. CASE Prob!Leave
    <2>1. /\ UNCHANGED <<c1, c3, c6, c8>> /\ c4' = Prob!Away /\ c5' = {}
          /\ c7' = [w \in Prob!Part |-> Prob!NoSlot] /\ c2 < MaxMoves /\ c2' = c2 + 1
      BY <1>7 DEF Prob!Leave
    <2>2. c2' \in 0..MaxMoves
      BY <1>1, <2>1 DEF Prob!TypeOK, Prob!ProblemsAssumption
    <2> QED BY <2>1, <2>2, PageTurns
  <1>8. ASSUME NEW p \in Problem, Prob!Toggle(p) PROVE ProblemsInv'
    <2>1. UNCHANGED <<c1, c2, c3, c4, c6, c7, c8>> /\ c5' \subseteq Problem
      BY <1>1, <1>8 DEF Prob!Toggle, Prob!TypeOK
    <2> QED BY <1>1, <2>1, PageTurns DEF Prob!TypeOK
  <1>9. CASE Prob!ToggleLane
    <2>1. PICK rows \in Prob!Pages, high \in BOOLEAN :
            LET lane == {p \in rows : ("high" \in c3[c4].data[p]) = high}
            IN  /\ lane # {}
                /\ c5' = IF lane \subseteq c5 THEN c5 \ lane ELSE c5 \cup lane
      BY <1>9, Zenon DEF Prob!ToggleLane
    <2>2. Prob!HasRows /\ UNCHANGED <<c1, c2, c3, c4, c6, c7, c8>>
      BY <1>9 DEF Prob!ToggleLane
    <2>3. c5' \subseteq Problem
      BY <1>1, <1>2, <2>1, <2>2 DEF Prob!TypeOK
    <2> QED BY <1>1, <2>2, <2>3, PageTurns DEF Prob!TypeOK
  <1>10. CASE Prob!ExitSelectMode
    <2>1. UNCHANGED <<c1, c2, c3, c4, c6, c7, c8>> /\ c5' = {}
      BY <1>10 DEF Prob!ExitSelectMode
    <2> QED BY <1>1, <2>1, PageTurns DEF Prob!TypeOK
  <1>11. ASSUME NEW m \in Prob!Slot, Prob!RunBulk(m) PROVE ProblemsInv'
    <2>1. PICK rows \in Prob!Pages, op \in Prob!Operation : Prob!Mutate(m, "bar", c5 \cap rows, op)
      BY <1>11 DEF Prob!RunBulk
    <2>2. c5 \cap rows \in SUBSET Problem /\ "bar" \in Prob!Part
      BY <1>1 DEF Prob!TypeOK, Prob!Part
    <2> QED BY <2>1, <2>2, MutateStep
  <1>12. ASSUME NEW m \in Prob!Slot, Prob!Act(m) \/ Prob!SubmitComment(m) PROVE ProblemsInv'
    <2>1. PICK p \in UNION Prob!Pages, op \in Prob!Operation : Prob!Mutate(m, "panel", {p}, op)
      BY <1>12 DEF Prob!Act, Prob!SubmitComment, Prob!Operation
    <2>2. {p} \in SUBSET Problem /\ "panel" \in Prob!Part
      BY <1>2, <1>12 DEF Prob!Act, Prob!SubmitComment, Prob!Part
    <2> QED BY <2>1, <2>2, MutateStep
  <1>13. ASSUME NEW m \in Prob!Slot, Prob!Execute(m) \/ Prob!Reject(m) PROVE ProblemsInv'
    BY <1>13, RequestEnds
  <1>14. ASSUME NEW m \in Prob!Slot, Prob!Settle(m) PROVE ProblemsInv'
    BY <1>14, SettleStep
  <1> QED
    BY <1>3, <1>4, <1>5, <1>6, <1>7, <1>8, <1>9, <1>10, <1>11, <1>12, <1>13, <1>14 DEF Prob!Next

\* A quiet list is loaded and not marked, and no action is under way.
LEMMA ProblemsAreCurrent == ProblemsInv => Prob!QuietListIsCurrent
  <1> SUFFICES ASSUME ProblemsInv, Prob!Quiet
               PROVE  c3[c4].data \in Given(c8[c4], c4)
    BY DEF Prob!QuietListIsCurrent, Given
  <1>1. /\ c4 \in Prob!Variant /\ ~Acting /\ Dock!Loaded(c3[c4])
        /\ ~Dock!Fetching(c3[c4]) /\ ~c3[c4].failed
    BY SameCache DEF Prob!Quiet, Prob!HasRows, Acting, ProblemsInv, Prob!TypeOK
  <1>2. Heeded(c3[c4]) /\ Sane(c3[c4], Given(c8[c4], c4)) /\ c4 # Prob!Away
    BY <1>1 DEF ProblemsInv, Prob!Variant, Prob!Away
  <1> QED BY <1>1, <1>2 DEF Heeded, Sane

-----------------------------------------------------------------------------

\* Whatever actions, their errors, polls, lost answers and turns to another list
\* interleave, a quiet list of problems or containers is one the server would have
\* given since the last action that ended before it, for every number of
\* problems, hosts, actions and turns (use-acknowledge.ts:33-82,
\* use-problems.ts:25-82, ActionButtons.tsx:10-26, use-docker-page.ts:14-115).
THEOREM PagesShowCurrentLists == PagesSpec => []ListsAreCurrent
  <1> DEFINE Inv == /\ about = "docker" => ContainersInv
                    /\ about = "problems" => ProblemsInv
  <1>1. PagesInit => Inv
    BY PagesAssumption, ContainersInit, ProblemsInit DEF PagesInit
  <1>2. Inv /\ [PagesNext]_all => Inv'
    <2> SUFFICES ASSUME Inv, [PagesNext]_all PROVE Inv'
      OBVIOUS
    <2>1. about' = about
      BY DEF PagesNext, Rest, all
    <2>2. about = "docker" => [Dock!Next]_(Dock!vars)
      BY DEF PagesNext, all, Dock!vars
    <2>3. about = "problems" => [Prob!Next]_(Prob!vars)
      BY DEF PagesNext, all, Prob!vars
    <2> QED BY <2>1, <2>2, <2>3, PagesAssumption, ContainersStep, ProblemsStep
  <1>3. Inv => ListsAreCurrent
    BY PagesAssumption, ContainersAreCurrent, ProblemsAreCurrent DEF ListsAreCurrent
  <1> QED BY <1>1, <1>2, <1>3, PTL DEF PagesSpec

\* The filter of the problems and the balance of what it hides agree, for every set
\* of problems and every filter (problems.ts:170-269).
THEOREM FilterAndBalanceAgree == PagesSpec => []BalanceAgrees
  <1>1. BalanceAgrees
    BY ReasonsAgree DEF BalanceAgrees
  <1> QED BY <1>1, PTL

-----------------------------------------------------------------------------
(* The logs page: what the effects have stored is what they last saw, and   *)
(* a page that has just been opened has effects to run.                     *)

\* What the storage has, once the restore has run, is of the last commit or reset.
LogsInv ==
  /\ page \in [up : BOOLEAN, hydrated : BOOLEAN, level : BOOLEAN, typed : BOOLEAN, text : BOOLEAN]
  /\ streams \in BOOLEAN
  /\ page.up /\ seen.hydrated => stored \in {seen.f, NoFilters}
  /\ page.up /\ ~page.hydrated => seen.streams # streams

\* No page is open.
LEMMA LogsInit == Init => LogsInv
  BY DEF Init, LogsInv, Unmounted

\* The effects store what they see, after the restore of the commit before.
LEMMA LogsStep == LogsInv /\ [Next]_vars => LogsInv'
  <1> SUFFICES ASSUME LogsInv, [Next]_vars PROVE LogsInv'
    OBVIOUS
  <1>1. CASE UNCHANGED vars
    BY <1>1 DEF LogsInv, vars
  <1>2. CASE Effects
    <2>1. /\ page'.up = page.up /\ page'.hydrated
          /\ page' \in [up : BOOLEAN, hydrated : BOOLEAN, level : BOOLEAN, typed : BOOLEAN, text : BOOLEAN]
      BY <1>2 DEF Effects, LogsInv
    <2>2. seen'.hydrated = page.hydrated /\ seen'.f = url.f /\ streams' = streams
      BY <1>2 DEF Effects, Deps
    <2>3. page.up /\ page.hydrated => stored' \in {url.f, NoFilters}
      BY <1>2 DEF Effects, Stored, LogsInv
    <2> QED BY <2>1, <2>2, <2>3 DEF LogsInv
  <1>3. CASE Commit
    BY <1>3 DEF Commit, LogsInv
  <1>4. CASE Debounce
    BY <1>4 DEF Debounce, LogsInv
  <1>5. CASE StreamsArrive
    <2>1. page.hydrated
      BY <1>5 DEF StreamsArrive, LogsInv, Flushed, Deps
    <2> QED BY <1>5, <2>1 DEF StreamsArrive, LogsInv
  <1>6. CASE Activate
    BY <1>6 DEF Activate, LogsInv
  <1>7. ASSUME NEW deep \in BOOLEAN, NEW f \in Filters, Open(deep, f) PROVE LogsInv'
    BY <1>7 DEF Open, LogsInv, Unmounted, NotYet
  <1>8. CASE Leave
    BY <1>8 DEF Leave, LogsInv, Unmounted
  <1>9. ASSUME NEW s, GoTo(s) PROVE LogsInv'
    BY <1>9 DEF GoTo, LogsInv
  <1>10. SelectStream \/ ToggleDedupe \/ SetHosts \/ HandleFilter \/ GoToPage => LogsInv'
    BY <1>9 DEF SelectStream, ToggleDedupe, SetHosts, HandleFilter, GoToPage, Patch, Toggle
  <1>11. CASE SetLevel
    BY <1>11 DEF SetLevel, LogsInv
  <1>12. CASE Type
    BY <1>12 DEF Type, LogsInv
  <1>13. CASE ResetFilters
    BY <1>13 DEF ResetFilters, LogsInv
  <1>14. CASE ApplySet
    BY <1>14 DEF ApplySet, LogsInv
  <1>15. CASE SaveSet
    BY <1>15 DEF SaveSet, LogsInv
  <1> QED
    BY <1>1, <1>2, <1>3, <1>4, <1>5, <1>6, <1>7, <1>8, <1>10, <1>11, <1>12, <1>13, <1>14, <1>15
    DEF Next, User

\* At rest, the effects have seen what is on the screen.
LEMMA LogsAreStored == LogsInv => StoredIsShown
  BY DEF LogsInv, StoredIsShown, AtRest, Flushed, Deps

\* When the effects of the logs page have come to rest, the storage would bring
\* back the filters on the screen, unless the user has just reset them, whatever
\* restores, default streams, debounces and clicks there were
\* (LogsPage.tsx:162-222, 291-296).
THEOREM StorageIsPage == PagesSpec => []StoredIsShown
  <1>1. PagesInit => LogsInv
    BY LogsInit DEF PagesInit
  <1>2. LogsInv /\ [PagesNext]_all => LogsInv'
    <2>1. [PagesNext]_all => [Next]_vars
      BY DEF PagesNext, all, Rest, vars
    <2> QED BY <2>1, LogsStep
  <1> QED BY <1>1, <1>2, LogsAreStored, PTL DEF PagesSpec

-----------------------------------------------------------------------------
(* The page of a host.  c6 to c10: see SpaPages; c8 are the sections, c9   *)
(* the charts that were answered with no points.                            *)

\* What a section says of no data was answered so, and its records are whole.
Earned(s, p, answered) ==
  /\ DOMAIN s = {"open", "showEmpty", "empty", "flat", "cards"}
  /\ s.open \in BOOLEAN /\ s.showEmpty \in BOOLEAN /\ s.empty \cap s.flat = {}
  /\ \A id \in s.empty : <<p, id>> \in answered
  /\ \A id \in DOMAIN s.cards :
       /\ DOMAIN s.cards[id] = {"mounted", "busy", "data", "last"}
       /\ "none" \in {s.cards[id].data, s.cards[id].last} => <<p, id>> \in answered

\* Every section of the host, on the screen or not; it has cards for charts it shows.
SectionsInv ==
  /\ DOMAIN c8 = Dash!Parts /\ \A p \in Dash!Parts : Earned(c8[p], p, c9)
  /\ \A p \in Dash!Parts :
       DOMAIN c8[p].cards \subseteq {c.id : c \in Dash!ChartsOf(p, c3, c4, Dash!Chosen(c5, c6))}

\* A new section says nothing.
LEMMA EarnedAtFirst ==
  ASSUME NEW p, NEW answered
  PROVE  Earned(Dash!Fresh, p, answered) /\ Earned(Dash!Away, p, answered)
  BY DEF Earned, Dash!Fresh, Dash!Away, Dash!NoCards

\* An answer is not taken back.
LEMMA EarnedGrows ==
  ASSUME NEW s, NEW p, NEW answered, NEW more, answered \subseteq more, Earned(s, p, answered)
  PROVE  Earned(s, p, more)
  BY DEF Earned

\* A query that is on its way says nothing new.
LEMMA EarnedWhenAsking ==
  ASSUME NEW s, NEW p, NEW answered, Earned(s, p, answered), NEW ids
  PROVE  Earned(Dash!Asking(s, ids), p, answered)
  BY DEF Earned, Dash!Asking

\* A card is new, or as it was.
LEMMA EarnedWhenRendered ==
  ASSUME NEW s, NEW p, NEW answered, Earned(s, p, answered), NEW cs
  PROVE  Earned(Dash!Rendered(s, cs), p, answered)
  <1> DEFINE ids == {c.id : c \in cs}
             new(id) == IF id \in Dash!Leading(cs) THEN Dash!NewCard ELSE Dash!Placeholder
             cards == [id \in ids |-> IF id \in DOMAIN s.cards THEN s.cards[id] ELSE new(id)]
  <1>1. \A id : /\ DOMAIN new(id) = {"mounted", "busy", "data", "last"}
                /\ "none" \notin {new(id).data, new(id).last}
    BY DEF Dash!NewCard, Dash!Placeholder
  <1>2. \/ Dash!Rendered(s, cs) = [s EXCEPT !.cards = Dash!NoCards]
        \/ Dash!Rendered(s, cs) = [s EXCEPT !.cards = cards]
    BY DEF Dash!Rendered
  <1> HIDE DEF new
  <1> QED BY <1>1, <1>2 DEF Earned, Dash!NoCards

\* A card reports its own answer.
LEMMA EarnedWhenReported ==
  ASSUME NEW s, NEW p, NEW answered, Earned(s, p, answered)
  PROVE  Earned(Dash!Reported(s), p, answered)
  BY DEF Earned, Dash!Reported, Dash!Mounted

\* A section has cards for its charts only.
LEMMA CardsOfCharts ==
  ASSUME NEW s, NEW p, NEW answered, Earned(s, p, answered), NEW cs
  PROVE  DOMAIN Dash!Rendered(s, cs).cards \subseteq {c.id : c \in cs}
  BY DEF Earned, Dash!Rendered, Dash!NoCards

\* The page keeps its sections, renders them and hears their reports.
LEMMA EarnedOnThePage ==
  ASSUME NEW old, NEW answered, \A p \in Dash!Parts : Earned(old[p], p, answered),
         NEW charts, NEW f, NEW t
  PROVE  /\ DOMAIN Dash!Page(old, charts, f, t) = Dash!Parts
         /\ \A p \in Dash!Parts : Earned(Dash!Page(old, charts, f, t)[p], p, answered)
         /\ \A p \in Dash!Parts : DOMAIN Dash!Page(old, charts, f, t)[p].cards
                                     \subseteq {c.id : c \in Dash!ChartsOf(p, charts, f, t)}
  <1> DEFINE before(p) == IF old[p] = Dash!Away THEN Dash!Fresh ELSE old[p]
             of(p)     == Dash!ChartsOf(p, charts, f, t)
  <1>1. ASSUME NEW p \in Dash!Parts
        PROVE  /\ Earned(Dash!Settled(before(p), of(p)), p, answered)
               /\ DOMAIN Dash!Settled(before(p), of(p)).cards \subseteq {c.id : c \in of(p)}
    <2>1. Earned(before(p), p, answered)
      BY EarnedAtFirst
    <2> HIDE DEF before, of
    <2> DEFINE s == Dash!Reported(Dash!Rendered(before(p), of(p)))
    <2>2. Earned(s, p, answered)
      BY <2>1, EarnedWhenRendered, EarnedWhenReported
    <2>3. Dash!Settled(before(p), of(p)) = Dash!Rendered(s, of(p))
      BY DEF Dash!Settled
    <2> HIDE DEF s
    <2> QED BY <2>2, <2>3, EarnedWhenRendered, CardsOfCharts
  <1>2. DOMAIN Dash!Away.cards = {}
    BY DEF Dash!Away, Dash!Fresh, Dash!NoCards
  <1>3. \A p \in Dash!Parts : Dash!Page(old, charts, f, t)[p] =
          IF of(p) = {} THEN Dash!Away ELSE Dash!Settled(before(p), of(p))
    BY DEF Dash!Page
  <1> HIDE DEF before
  <1>4. DOMAIN Dash!Page(old, charts, f, t) = Dash!Parts
    BY DEF Dash!Page
  <1> QED BY <1>1, <1>2, <1>3, <1>4, EarnedAtFirst

\* No section is on the screen.
LEMMA SectionsInit == Dash!Init => SectionsInv
  <1>1. DOMAIN Dash!Away.cards = {}
    BY DEF Dash!Away, Dash!Fresh, Dash!NoCards
  <1> QED BY <1>1, EarnedAtFirst DEF Dash!Init, SectionsInv

\* A step that does no more than redraw the page.
LEMMA Redraws ==
  ASSUME NEW old, NEW answered, \A p \in Dash!Parts : Earned(old[p], p, answered),
         c8' = Dash!Page(old, c3', c4', Dash!Chosen(c5', c6')), c9' = answered
  PROVE  SectionsInv'
  BY EarnedOnThePage DEF SectionsInv

\* Only the arrival of an answer without points adds to what a section says.
LEMMA SectionsStep == SectionsInv /\ [Dash!Next]_(Dash!vars) => SectionsInv'
  <1> SUFFICES ASSUME SectionsInv, [Dash!Next]_(Dash!vars) PROVE SectionsInv'
    OBVIOUS
  <1>1. CASE UNCHANGED Dash!vars
    BY <1>1 DEF SectionsInv, Dash!vars
  <1>2. ASSUME NEW l, Dash!Load(l) PROVE SectionsInv'
    <2>1. PICK ids :
            c8' = Dash!Page([p \in Dash!Parts |-> Dash!Asking(c8[p], ids[p])],
                            c3', c4', Dash!Chosen(c5', c6'))
      <3> DEFINE Of(p, charts) == Dash!ChartsOf(p, charts, c4, Dash!Chosen(c5, c6))
                 changed == [p \in Dash!Parts |-> {c.id : c \in Of(p, c3') \ Of(p, c3)}]
      <3>1. c8' = Dash!Page([p \in Dash!Parts |-> Dash!Asking(c8[p], changed[p])],
                            c3', c4', Dash!Chosen(c5', c6'))
        BY <1>2 DEF Dash!Load, Dash!Redraw
      <3> HIDE DEF changed
      <3> QED BY <3>1
    <2> DEFINE old == [p \in Dash!Parts |-> Dash!Asking(c8[p], ids[p])]
    <2>2. \A p \in Dash!Parts : Earned(old[p], p, c9)
      BY EarnedWhenAsking DEF SectionsInv
    <2>3. c8' = Dash!Page(old, c3', c4', Dash!Chosen(c5', c6')) /\ c9' = c9
      BY <1>2, <2>1 DEF Dash!Load
    <2> HIDE DEF old
    <2> QED BY <2>2, <2>3, Redraws
  <1>3. ASSUME NEW f, Dash!SetFilterText(f) PROVE SectionsInv'
    BY <1>3, Redraws DEF SectionsInv, Dash!SetFilterText, Dash!Redraw
  <1>4. ASSUME NEW t, Dash!SelectTemplate(t) PROVE SectionsInv'
    BY <1>4, Redraws DEF SectionsInv, Dash!SelectTemplate, Dash!Redraw
  <1>5. CASE Dash!TemplatesArrive
    BY <1>5, Redraws DEF SectionsInv, Dash!TemplatesArrive, Dash!Redraw
  <1>6. ASSUME NEW r, Dash!SetRange(r) PROVE SectionsInv'
    <2> DEFINE old == [p \in Dash!Parts |-> Dash!Asking(c8[p], Dash!Ids)]
    <2>1. \A p \in Dash!Parts : Earned(old[p], p, c9)
      BY EarnedWhenAsking DEF SectionsInv
    <2>2. c8' = Dash!Page(old, c3', c4', Dash!Chosen(c5', c6')) /\ c9' = c9
      BY <1>6 DEF Dash!SetRange, Dash!Redraw
    <2> HIDE DEF old
    <2> QED BY <2>1, <2>2, Redraws
  <1>7. ASSUME NEW p \in Dash!Parts, Dash!ToggleOpen(p) PROVE SectionsInv'
    <2> DEFINE other == ~c8[p].open
               old == [c8 EXCEPT ![p].open = other]
    <2>0. other \in BOOLEAN
      OBVIOUS
    <2>1. \A q \in Dash!Parts : Earned(old[q], q, c9)
      <3> HIDE DEF other
      <3> QED BY <2>0 DEF SectionsInv, Earned
    <2>2. c8' = Dash!Page(old, c3', c4', Dash!Chosen(c5', c6')) /\ c9' = c9
      BY <1>7 DEF Dash!ToggleOpen, Dash!Redraw
    <2> HIDE DEF old
    <2> QED BY <2>1, <2>2, Redraws
  <1>8. ASSUME NEW p \in Dash!Parts, Dash!ToggleShowEmpty(p) PROVE SectionsInv'
    <2> DEFINE other == ~c8[p].showEmpty
               old == [c8 EXCEPT ![p].showEmpty = other]
    <2>0. other \in BOOLEAN
      OBVIOUS
    <2>1. \A q \in Dash!Parts : Earned(old[q], q, c9)
      <3> HIDE DEF other
      <3> QED BY <2>0 DEF SectionsInv, Earned
    <2>2. c8' = Dash!Page(old, c3', c4', Dash!Chosen(c5', c6')) /\ c9' = c9
      BY <1>8 DEF Dash!ToggleShowEmpty, Dash!Redraw
    <2> HIDE DEF old
    <2> QED BY <2>1, <2>2, Redraws
  <1>9. ASSUME NEW p \in Dash!Parts, NEW id, Dash!Scroll(p, id) PROVE SectionsInv'
    <2> DEFINE old == [c8 EXCEPT ![p].cards[id] = Dash!NewCard]
    <2>1. \A q \in Dash!Parts : Earned(old[q], q, c9)
      BY DEF SectionsInv, Earned, Dash!NewCard, Dash!Placeholder
    <2>2. c8' = Dash!Page(old, c3', c4', Dash!Chosen(c5', c6')) /\ c9' = c9
      BY <1>9 DEF Dash!Scroll, Dash!Redraw
    <2> HIDE DEF old
    <2> QED BY <2>1, <2>2, Redraws
  <1>10. ASSUME NEW p \in Dash!Parts, NEW id, Dash!Fail(p, id) PROVE SectionsInv'
    <2> DEFINE old == [c8 EXCEPT ![p].cards[id] = [@ EXCEPT !.busy = FALSE, !.data = "unknown"]]
    <2>1. \A q \in Dash!Parts : Earned(old[q], q, c9)
      BY DEF SectionsInv, Earned
    <2>2. c8' = Dash!Page(old, c3', c4', Dash!Chosen(c5', c6')) /\ c9' = c9
      BY <1>10 DEF Dash!Fail, Dash!Redraw
    <2> HIDE DEF old
    <2> QED BY <2>1, <2>2, Redraws
  <1>11. ASSUME NEW p \in Dash!Parts, NEW id, Dash!Arrive(p, id) PROVE SectionsInv'
    <2>1. PICK got :
            /\ c8' = Dash!Page([c8 EXCEPT ![p].cards[id] =
                                  [@ EXCEPT !.busy = FALSE, !.data = got, !.last = got]],
                               c3', c4', Dash!Chosen(c5', c6'))
            /\ c9' = IF got = "none" THEN c9 \cup {<<p, id>>} ELSE c9
      BY <1>11 DEF Dash!Arrive, Dash!Redraw
    <2> DEFINE old == [c8 EXCEPT ![p].cards[id] =
                         [@ EXCEPT !.busy = FALSE, !.data = got, !.last = got]]
    <2>2. \A q \in Dash!Parts : Earned(old[q], q, c9')
      BY <2>1 DEF SectionsInv, Earned
    <2>3. c8' = Dash!Page(old, c3', c4', Dash!Chosen(c5', c6'))
      BY <2>1
    <2> HIDE DEF old
    <2> QED BY <2>2, <2>3, Redraws
  <1> QED
    BY <1>1, <1>2, <1>3, <1>4, <1>5, <1>6, <1>7, <1>8, <1>9, <1>10, <1>11 DEF Dash!Next

\* A collapsed section counts each of its charts as empty.
LEMMA SectionsEarnTheirBar == SectionsInv => Dash!CollapseIsEarned
  BY DEF SectionsInv, Earned, Dash!CollapseIsEarned, Dash!Collapsed

\* A section gives way to the bar that says it has no data only when each of its
\* charts was asked, and answered with no points at least once, through every
\* change of the items, the filter, the range and the view and for every set of
\* charts (DashboardSection.tsx:57-110).
THEOREM TheNoDataBarIsEarned == PagesSpec => []CollapseIsEarned
  <1> DEFINE Inv == about = "host" => SectionsInv
  <1>1. PagesInit => Inv
    BY SectionsInit DEF PagesInit
  <1>2. Inv /\ [PagesNext]_all => Inv'
    <2>1. [PagesNext]_all => about' = about
      BY DEF PagesNext, Rest, all
    <2>2. about = "host" /\ [PagesNext]_all => [Dash!Next]_(Dash!vars)
      BY DEF PagesNext, all, Dash!vars
    <2> QED BY <2>1, <2>2, SectionsStep
  <1>3. Inv => CollapseIsEarned
    BY SectionsEarnTheirBar DEF CollapseIsEarned
  <1> QED BY <1>1, <1>2, <1>3, PTL DEF PagesSpec

-----------------------------------------------------------------------------
(* The charts of a host: instances divide its items, families divide the   *)
(* instances, each family has its charts, and the charts of the four kinds *)
(* stand apart.                                                            *)

\* How many of a set come before one of them, in a strict order of the set.
RankOf(S, R, x) == Cardinality({y \in S : <<y, x>> \in R})

Strict(S, R) ==
  /\ \A x \in S : <<x, x>> \notin R
  /\ \A x, y, z \in S : <<x, y>> \in R /\ <<y, z>> \in R => <<x, z>> \in R
Total(S, R) == \A x, y \in S : x = y \/ <<x, y>> \in R \/ <<y, x>> \in R

\* What comes later has more before it.
LEMMA RanksRise ==
  ASSUME NEW S, IsFiniteSet(S), NEW R, Strict(S, R), NEW x \in S
  PROVE  /\ RankOf(S, R, x) \in 0..Cardinality(S) - 1
         /\ \A y \in S : <<x, y>> \in R => RankOf(S, R, x) < RankOf(S, R, y)
  <1> DEFINE Under(z) == {y \in S : <<y, z>> \in R}
  <1>1. \A z \in S : IsFiniteSet(Under(z)) /\ Cardinality(Under(z)) \in Nat
    BY FS_Subset, FS_CardinalityType
  <1>2. Cardinality(S) \in Nat
    BY FS_CardinalityType
  <1>3. Cardinality(Under(x)) < Cardinality(S)
    <2>1. Under(x) \in SUBSET S /\ x \notin Under(x)
      BY DEF Strict
    <2> HIDE DEF Under
    <2> QED BY <2>1, <1>1, <1>2, FS_Subset
  <1>4. ASSUME NEW y \in S, <<x, y>> \in R PROVE Cardinality(Under(x)) < Cardinality(Under(y))
    <2>1. Under(x) \in SUBSET Under(y) /\ x \notin Under(x) /\ x \in Under(y)
      BY <1>4 DEF Strict
    <2> HIDE DEF Under
    <2> QED BY <2>1, <1>1, FS_Subset
  <1> QED BY <1>1, <1>2, <1>3, <1>4 DEF RankOf

\* One has nothing before it.
LEMMA OneIsFirst ==
  ASSUME NEW S, IsFiniteSet(S), S # {}, NEW R, Strict(S, R), Total(S, R)
  PROVE  \E x \in S : \A y \in S : <<y, x>> \notin R
  <1> DEFINE n == Cardinality(S)
             rank == [x \in S |-> RankOf(S, R, x)]
  <1>1. n \in Nat \ {0}
    BY FS_CardinalityType, FS_EmptySet
  <1>2. IsFiniteSet(0..n - 1) /\ Cardinality(0..n - 1) = n
    BY <1>1, FS_Interval
  <1>3. rank \in [S -> 0..n - 1]
    BY RanksRise
  <1>4. \A x, y \in S : rank[x] = rank[y] => x = y
    <2> SUFFICES ASSUME NEW x \in S, NEW y \in S, rank[x] = rank[y] PROVE x = y
      OBVIOUS
    <2>1. /\ RankOf(S, R, x) \in Int /\ RankOf(S, R, x) = RankOf(S, R, y)
          /\ <<x, y>> \in R => RankOf(S, R, x) < RankOf(S, R, y)
          /\ <<y, x>> \in R => RankOf(S, R, y) < RankOf(S, R, x)
      BY <1>1, RanksRise
    <2> QED BY <2>1 DEF Total
  <1>5. rank \in Injection(S, 0..n - 1)
    BY <1>3, <1>4 DEF Injection, IsInjective
  <1>6. rank \in Surjection(S, 0..n - 1)
    <2> HIDE DEF rank
    <2> QED BY <1>5, <1>2, FS_Injection
  <1>7. PICK x \in S : rank[x] = 0
    <2>1. 0 \in 0..n - 1
      BY <1>1
    <2> HIDE DEF rank, n
    <2> QED BY <1>6, <2>1 DEF Surjection
  <1>8. IsFiniteSet({y \in S : <<y, x>> \in R})
    BY FS_Subset
  <1>9. {y \in S : <<y, x>> \in R} = {}
    BY <1>7, <1>8, FS_EmptySet DEF RankOf
  <1> QED BY <1>9

\* A finite set of numbers has a least and a greatest.
LEMMA HaveEnds ==
  ASSUME NEW S \in SUBSET Int, IsFiniteSet(S), S # {}
  PROVE  /\ \E x \in S : \A y \in S : x <= y
         /\ \E x \in S : \A y \in S : y <= x
  <1> DEFINE up == {p \in S \X S : p[1] < p[2]}
             down == {p \in S \X S : p[2] < p[1]}
  <1>1. /\ \A x, y \in S : <<x, y>> \in up <=> x < y
        /\ \A x, y \in S : <<x, y>> \in down <=> y < x
    OBVIOUS
  <1> HIDE DEF up, down
  <1>2. Strict(S, up) /\ Total(S, up) /\ Strict(S, down) /\ Total(S, down)
    BY <1>1 DEF Strict, Total
  <1>3. /\ \E x \in S : \A y \in S : <<y, x>> \notin up
        /\ \E x \in S : \A y \in S : <<y, x>> \notin down
    BY <1>2, OneIsFirst
  <1>4. \E x \in S : \A y \in S : x <= y
    <2>1. PICK x \in S : \A y \in S : <<y, x>> \notin up
      BY <1>3
    <2>2. ASSUME NEW y \in S PROVE x <= y
      <3>1. ~(y < x) /\ x \in Int /\ y \in Int
        BY <1>1, <2>1
      <3> QED BY <3>1
    <2> QED BY <2>2
  <1>5. \E x \in S : \A y \in S : y <= x
    <2>1. PICK x \in S : \A y \in S : <<y, x>> \notin down
      BY <1>3
    <2>2. ASSUME NEW y \in S PROVE y <= x
      <3>1. ~(x < y) /\ x \in Int /\ y \in Int
        BY <1>1, <2>1
      <3> QED BY <3>1
    <2> QED BY <2>2
  <1> QED BY <1>4, <1>5

\* A part of a list.
LEMMA PartOfList ==
  ASSUME NEW items, IsList(items), NEW S \in SUBSET items
  PROVE  IsList(S)
  BY FS_Subset DEF IsList

\* The first of a list comes before the others.
LEMMA FirstIsFirst ==
  ASSUME NEW S, IsList(S), S # {}
  PROVE  /\ Dash!First(S) \in S
         /\ \A i \in S : Dash!First(S).id <= i.id
         /\ \A i \in S : (\A j \in S : i.id <= j.id) => i = Dash!First(S)
  <1> DEFINE before == {p \in S \X S : p[1].id < p[2].id}
  <1>1. \A x, y \in S : <<x, y>> \in before <=> x.id < y.id
    OBVIOUS
  <1> HIDE DEF before
  <1>2. Strict(S, before) /\ Total(S, before)
    BY <1>1 DEF Strict, Total, IsList
  <1>3. \E x \in S : \A y \in S : x.id <= y.id
    <2>1. PICK x \in S : \A y \in S : <<y, x>> \notin before
      BY <1>2, OneIsFirst DEF IsList
    <2>2. ASSUME NEW y \in S PROVE x.id <= y.id
      <3>1. ~(y.id < x.id) /\ x.id \in Int /\ y.id \in Int
        BY <1>1, <2>1 DEF IsList
      <3> QED BY <3>1
    <2> QED BY <2>2
  <1>4. Dash!First(S) \in S /\ \A i \in S : Dash!First(S).id <= i.id
    BY <1>3 DEF Dash!First
  <1> QED BY <1>4 DEF IsList

\* The first of one.
LEMMA FirstOfOne ==
  ASSUME NEW i PROVE IsList({i}) => Dash!First({i}) = i
  BY FirstIsFirst

\* An item's instance, and what makes it one.
InstanceKey(i) == <<i.base, i.params, i.units>>

\* The instances of a list divide it, by the key without its direction.
LEMMA InstancesDivide ==
  ASSUME NEW S
  PROVE  /\ \A a \in Dash!Instances(S) : a # {} /\ a \subseteq S
         /\ \A i \in S : \E a \in Dash!Instances(S) : i \in a
         /\ \A a, b \in Dash!Instances(S) : \A i \in a, j \in b :
              InstanceKey(i) = InstanceKey(j) <=> a = b
         /\ IsFiniteSet(S) => IsFiniteSet(Dash!Instances(S))
  <1> DEFINE of(k) == {i \in S : InstanceKey(i) = k}
             inst == [i \in S |-> of(InstanceKey(i))]
  <1>1. Dash!Instances(S) = {of(k) : k \in {InstanceKey(i) : i \in S}}
    BY DEF Dash!Instances, Dash!Groups, InstanceKey
  <1>2. inst \in Surjection(S, Dash!Instances(S))
    <2> HIDE DEF of
    <2>1. inst \in [S -> Dash!Instances(S)]
      BY <1>1
    <2>2. \A a \in Dash!Instances(S) : \E i \in S : inst[i] = a
      BY <1>1
    <2> QED BY <2>1, <2>2 DEF Surjection
  <1>3. IsFiniteSet(S) => IsFiniteSet(Dash!Instances(S))
    <2> HIDE DEF inst
    <2> QED BY <1>2, FS_Surjection
  <1> HIDE DEF inst
  <1>4. \A k : of(k) = {i \in S : InstanceKey(i) = k}
    OBVIOUS
  <1> HIDE DEF of
  <1>5. \A a \in Dash!Instances(S) : \A i \in a : a = of(InstanceKey(i))
    BY <1>1, <1>4
  <1>6. \A a \in Dash!Instances(S) : a # {} /\ a \subseteq S
    BY <1>1, <1>4
  <1>7. \A i \in S : i \in of(InstanceKey(i)) /\ of(InstanceKey(i)) \in Dash!Instances(S)
    BY <1>1, <1>4
  <1>8. \A a, b \in Dash!Instances(S) : \A i \in a, j \in b :
              InstanceKey(i) = InstanceKey(j) <=> a = b
    BY <1>4, <1>5
  <1> QED BY <1>3, <1>6, <1>7, <1>8

\* The greatest of an instance's values.
LEMMA LastValueIsGreatest ==
  ASSUME NEW S, IsList(S), S # {}
  PROVE  Dash!LastValue(S) \in Int /\ \A i \in S : i.value <= Dash!LastValue(S)
  <1> DEFINE values == {i.value : i \in S}
             value == [i \in S |-> i.value]
  <1>1. value \in Surjection(S, values)
    BY DEF Surjection
  <1>2. values \in SUBSET Int /\ values # {}
    BY DEF IsList
  <1>3. IsFiniteSet(values)
    <2> HIDE DEF value, values
    <2> QED BY <1>1, FS_Surjection DEF IsList
  <1>4. \E x \in values : \A y \in values : y <= x
    <2> HIDE DEF values
    <2> QED BY <1>2, <1>3, HaveEnds
  <1>5. \E x \in values : \A i \in S : i.value <= x
    BY <1>4
  <1> QED BY <1>2, <1>5 DEF Dash!LastValue

\* The instance counts as this module does.
LEMMA DashCounts == \A S : Dash!Cardinality(S) = Cardinality(S)
  BY DEF Dash!Cardinality, Dash!IsFiniteSet, Cardinality, IsFiniteSet

\* An instance is a list of one quantity, and its value the greatest in it.
LEMMA InstanceOfList ==
  ASSUME NEW S, IsList(S), NEW a \in Dash!Instances(S)
  PROVE  /\ IsList(a) /\ a # {} /\ a \subseteq S /\ Dash!First(a) \in a
         /\ \A i \in a : i.base = Dash!First(a).base /\ i.units = Dash!First(a).units
         /\ Dash!LastValue(a) \in Int /\ \A i \in a : i.value <= Dash!LastValue(a)
  <1>1. a # {} /\ a \subseteq S
    BY InstancesDivide
  <1>2. IsList(a)
    BY <1>1, PartOfList
  <1>3. Dash!First(a) \in a
    BY <1>1, <1>2, FirstIsFirst
  <1>4. \A i \in a : InstanceKey(i) = InstanceKey(Dash!First(a))
    BY <1>3, InstancesDivide
  <1>5. \A i \in a : i.base = Dash!First(a).base /\ i.units = Dash!First(a).units
    BY <1>4 DEF InstanceKey
  <1> QED BY <1>1, <1>2, <1>3, <1>5, LastValueIsGreatest

\* An item is in one instance of a list.
LEMMA OneInstance ==
  ASSUME NEW S, NEW a \in Dash!Instances(S), NEW b \in Dash!Instances(S), NEW i \in a, i \in b
  PROVE  a = b
  BY InstancesDivide

\* The families of a list divide its instances.
LEMMA FamiliesDivide ==
  ASSUME NEW S
  PROVE  /\ \A f \in Dash!Families(S) : f # {} /\ f \subseteq Dash!Instances(S)
         /\ \A a \in Dash!Instances(S) : \E f \in Dash!Families(S) : a \in f
         /\ \A f, g \in Dash!Families(S) : \A a \in f, b \in g :
              Dash!FamilyKey(a) = Dash!FamilyKey(b) <=> f = g
  <1> DEFINE of(k) == {a \in Dash!Instances(S) : Dash!FamilyKey(a) = k}
  <1>1. Dash!Families(S) = {of(k) : k \in {Dash!FamilyKey(a) : a \in Dash!Instances(S)}}
    BY DEF Dash!Families, Dash!Groups
  <1>2. \A k : of(k) = {a \in Dash!Instances(S) : Dash!FamilyKey(a) = k}
    OBVIOUS
  <1> HIDE DEF of
  <1>3. \A f \in Dash!Families(S) : \A a \in f : f = of(Dash!FamilyKey(a))
    BY <1>1, <1>2
  <1>4. \A f \in Dash!Families(S) : f # {} /\ f \subseteq Dash!Instances(S)
    BY <1>1, <1>2
  <1>5. \A a \in Dash!Instances(S) : a \in of(Dash!FamilyKey(a)) /\ of(Dash!FamilyKey(a)) \in Dash!Families(S)
    BY <1>1, <1>2
  <1>6. \A f, g \in Dash!Families(S) : \A a \in f, b \in g :
              Dash!FamilyKey(a) = Dash!FamilyKey(b) <=> f = g
    BY <1>2, <1>3
  <1> QED BY <1>4, <1>5, <1>6

\* A family is one quantity, named by the first of its items.
LEMMA FamilyIsOne ==
  ASSUME NEW S, IsList(S), NEW f \in Dash!Families(S)
  PROVE  /\ UNION f \subseteq S /\ UNION f # {} /\ IsList(UNION f) /\ IsFiniteSet(f)
         /\ Dash!First(UNION f) \in UNION f
         /\ \A a \in f : Dash!FamilyKey({Dash!First(UNION f)}) = Dash!FamilyKey(a)
         /\ \A i \in UNION f : i.base = Dash!First(UNION f).base /\ i.units = Dash!First(UNION f).units
  <1> DEFINE first == Dash!First(UNION f)
  <1>1. f # {} /\ f \subseteq Dash!Instances(S)
    BY FamiliesDivide
  <1>2. \A a \in f : IsList(a) /\ a # {} /\ a \subseteq S /\ Dash!First(a) \in a
    BY <1>1, InstanceOfList
  <1>3. UNION f \subseteq S /\ UNION f # {}
    BY <1>1, <1>2
  <1>4. IsList(UNION f)
    BY <1>3, PartOfList
  <1>5. IsFiniteSet(f)
    <2>1. IsFiniteSet(Dash!Instances(S))
      BY InstancesDivide DEF IsList
    <2> QED BY <2>1, <1>1, FS_Subset
  <1>6. first \in UNION f /\ \A i \in UNION f : first.id <= i.id
    BY <1>3, <1>4, FirstIsFirst
  <1>7. PICK b \in f : first \in b
    BY <1>6
  <1>8. Dash!First(b) = first
    <2>1. \A i \in b : first.id <= i.id
      BY <1>6
    <2> QED BY <1>2, <1>7, <2>1, FirstIsFirst
  <1>9. Dash!First({first}) = first
    <2>1. IsList({first})
      <3>1. {first} \in SUBSET UNION f
        BY <1>6
      <3> HIDE DEF first
      <3> QED BY <1>4, <3>1, PartOfList
    <2> QED BY <2>1, FirstOfOne
  <1>10. \A a \in f : Dash!FamilyKey(a) = Dash!FamilyKey(b)
    BY <1>7, FamiliesDivide
  <1>11. Dash!FamilyKey({first}) = Dash!FamilyKey(b)
    BY <1>8, <1>9 DEF Dash!FamilyKey
  <1>12. \A i \in UNION f : i.base = first.base /\ i.units = first.units
    <2> SUFFICES ASSUME NEW a \in f, NEW i \in a PROVE i.base = first.base /\ i.units = first.units
      OBVIOUS
    <2>1. i.base = Dash!First(a).base /\ i.units = Dash!First(a).units
      BY <1>1, InstanceOfList
    <2>2. Dash!First(a).base = Dash!First(b).base /\ Dash!First(a).units = Dash!First(b).units
      BY <1>10 DEF Dash!FamilyKey
    <2> QED BY <2>1, <2>2, <1>8
  <1> QED BY <1>3, <1>4, <1>5, <1>6, <1>10, <1>11, <1>12

\* An item is in one family.
LEMMA OneFamily ==
  ASSUME NEW S, NEW f \in Dash!Families(S), NEW g \in Dash!Families(S), NEW i \in UNION f, i \in UNION g
  PROVE  f = g
  <1>1. PICK a \in f, b \in g : i \in a /\ i \in b
    OBVIOUS
  <1>2. a = b
    BY <1>1, FamiliesDivide, OneInstance
  <1> QED BY <1>1, <1>2, FamiliesDivide

\* A family that is cut keeps the instances of the greatest values.
LEMMA ShownRankHighest ==
  ASSUME Cap \in Nat \ {0}, NEW S, IsList(S), NEW f \in Dash!Families(S)
  PROVE  /\ Dash!Shown(f) \subseteq f /\ Dash!Shown(f) # {}
         /\ Cardinality(f) - Cardinality(Dash!Shown(f)) = Cardinality(f \ Dash!Shown(f))
         /\ Cardinality(f \ Dash!Shown(f)) \in Nat
         /\ \A a \in Dash!Shown(f), b \in f \ Dash!Shown(f) : Dash!LastValue(b) <= Dash!LastValue(a)
  <1> DEFINE above == {p \in f \X f : Dash!Ranked(p[1], p[2])}
  <1>1. IsFiniteSet(f) /\ f # {} /\ f \subseteq Dash!Instances(S)
    BY FamilyIsOne, FamiliesDivide
  <1>2. \A a \in f : /\ Dash!LastValue(a) \in Int /\ Dash!First(a).id \in Int
                     /\ Dash!First(a) \in a /\ a \subseteq S
    BY <1>1, InstanceOfList DEF IsList
  <1>3. \A a, b \in f : Dash!First(a).id = Dash!First(b).id => a = b
    BY <1>1, <1>2, OneInstance DEF IsList
  <1>4. \A a, b \in f : <<a, b>> \in above <=> Dash!Ranked(a, b)
    OBVIOUS
  <1>5. \A a \in f : {b \in f : Dash!Ranked(b, a)} = {b \in f : <<b, a>> \in above}
    BY <1>4
  <1> HIDE DEF above
  <1>6. Strict(f, above)
    BY <1>2, <1>4 DEF Strict, Dash!Ranked
  <1>7. Total(f, above)
    <2> SUFFICES ASSUME NEW a \in f, NEW b \in f, a # b PROVE <<a, b>> \in above \/ <<b, a>> \in above
      BY DEF Total
    <2>1. /\ Dash!First(a).id # Dash!First(b).id
          /\ Dash!First(a).id \in Int /\ Dash!First(b).id \in Int
          /\ Dash!LastValue(a) \in Int /\ Dash!LastValue(b) \in Int
      BY <1>2, <1>3
    <2>2. Dash!Ranked(a, b) \/ Dash!Ranked(b, a)
      BY <2>1 DEF Dash!Ranked
    <2> QED BY <1>4, <2>2
  <1>8. Dash!Shown(f) = {a \in f : RankOf(f, above, a) < Cap}
    BY <1>5, DashCounts DEF Dash!Shown, RankOf
  <1>9. Dash!Shown(f) # {}
    <2>1. PICK a \in f : \A b \in f : <<b, a>> \notin above
      BY <1>1, <1>6, <1>7, OneIsFirst
    <2>2. {b \in f : <<b, a>> \in above} = {}
      BY <2>1
    <2>3. RankOf(f, above, a) = 0
      BY <2>2, FS_EmptySet DEF RankOf
    <2> QED BY <1>8, <2>3
  <1>10. ASSUME NEW a \in Dash!Shown(f), NEW b \in f \ Dash!Shown(f)
         PROVE  Dash!LastValue(b) <= Dash!LastValue(a)
    <2>1. a \in f /\ b \in f /\ RankOf(f, above, a) < Cap /\ ~(RankOf(f, above, b) < Cap)
      BY <1>8
    <2>2. RankOf(f, above, a) \in Int /\ RankOf(f, above, b) \in Int
      BY <1>1, <1>6, <2>1, RanksRise, FS_CardinalityType
    <2>3. <<b, a>> \notin above
      <3>1. <<b, a>> \in above => RankOf(f, above, b) < RankOf(f, above, a)
        BY <1>1, <1>6, <2>1, RanksRise
      <3> QED BY <2>1, <2>2, <3>1
    <2>4. ~(Dash!LastValue(b) > Dash!LastValue(a))
      BY <1>4, <2>1, <2>3 DEF Dash!Ranked
    <2> QED BY <1>2, <2>1, <2>4
  <1>11. /\ Cardinality(f) - Cardinality(Dash!Shown(f)) = Cardinality(f \ Dash!Shown(f))
         /\ Cardinality(f \ Dash!Shown(f)) \in Nat
    <2> DEFINE shown == Dash!Shown(f)
               hidden == f \ shown
    <2>1. shown \in SUBSET f /\ hidden \in SUBSET f /\ shown \cup hidden = f /\ shown \cap hidden = {}
      BY <1>8
    <2> HIDE DEF shown, hidden
    <2>2. IsFiniteSet(shown) /\ IsFiniteSet(hidden)
      BY <1>1, <2>1, FS_Subset
    <2>3. /\ Cardinality(f) = Cardinality(shown) + Cardinality(hidden) - Cardinality(shown \cap hidden)
          /\ Cardinality(shown \cap hidden) = 0
      BY <2>1, <2>2, FS_Union, FS_EmptySet
    <2>4. Cardinality(shown) \in Nat /\ Cardinality(hidden) \in Nat
      BY <2>2, FS_CardinalityType
    <2>5. Cardinality(f) - Cardinality(shown) = Cardinality(hidden) /\ Cardinality(hidden) \in Nat
      BY <2>3, <2>4
    <2> QED BY <2>5 DEF shown, hidden
  <1> QED BY <1>8, <1>9, <1>10, <1>11

\* An instance is one of each part of the list that holds it.
LEMMA InstanceOfPart ==
  ASSUME NEW S, NEW T \in SUBSET S, NEW a \in Dash!Instances(S), a \subseteq T
  PROVE  a \in Dash!Instances(T)
  <1>1. PICK i \in a : i \in T
    BY InstancesDivide
  <1>2. PICK b \in Dash!Instances(T) : i \in b
    BY <1>1, InstancesDivide
  <1>3. a = b
    <2>1. ASSUME NEW j \in a PROVE j \in b
      <3>1. PICK d \in Dash!Instances(T) : j \in d
        BY InstancesDivide
      <3>2. InstanceKey(i) = InstanceKey(j)
        BY <1>1, InstancesDivide
      <3> QED BY <1>2, <3>1, <3>2, InstancesDivide
    <2>2. ASSUME NEW j \in b PROVE j \in a
      <3>1. InstanceKey(i) = InstanceKey(j) /\ j \in S
        BY <1>2, InstancesDivide
      <3>2. PICK d \in Dash!Instances(S) : j \in d
        BY <3>1, InstancesDivide
      <3> QED BY <1>1, <3>1, <3>2, InstancesDivide
    <2> QED BY <2>1, <2>2
  <1> QED BY <1>2, <1>3

\* The instances of some of a family are those themselves.
LEMMA InstancesOfUnion ==
  ASSUME NEW S, NEW F \in SUBSET Dash!Instances(S)
  PROVE  Dash!Instances(UNION F) = F
  <1>1. UNION F \in SUBSET S /\ \A a \in F : a \in SUBSET UNION F
    BY InstancesDivide
  <1>2. \A a \in F : a \in Dash!Instances(UNION F)
    BY <1>1, InstanceOfPart
  <1>3. ASSUME NEW b \in Dash!Instances(UNION F) PROVE b \in F
    <2>1. PICK i \in b : i \in UNION F
      BY InstancesDivide
    <2>2. PICK a \in F : i \in a
      BY <2>1
    <2>3. a \in Dash!Instances(UNION F) /\ i \in a /\ i \in b
      BY <1>2, <2>1, <2>2
    <2>4. a = b
      BY <2>3, OneInstance
    <2> QED BY <2>2, <2>4
  <1> QED BY <1>2, <1>3

\* Two charts have neither an item nor an id in common.
Apart(C) ==
  \A c, d \in C : (\E i \in c.items : i \in d.items) \/ <<c.section, c.id>> = <<d.section, d.id>> => c = d

\* The charts of a family are named by it, or by its first item.
OfFamily(C, f, section) ==
  \A c \in C :
    /\ c.section = section /\ c.items # {} /\ c.items \subseteq UNION f /\ c.more \in Nat
    /\ \/ c.id[1] = "item" /\ c.id[2] = Dash!First(UNION f).id
       \/ c.id[1] \in {"split", "family"} /\ c.id[2] = Dash!FamilyKey({Dash!First(UNION f)})

\* They have all of it, or the instances that rank highest.
AllOrHighest(C, f) ==
  \/ /\ \A i \in UNION f : \E c \in C : i \in c.items
     /\ \A c \in C : c.more = 0
  \/ \E c : /\ C = {c} /\ c.items = UNION Dash!Shown(f)
            /\ c.more = Cardinality(f \ Dash!Shown(f))

\* The charts of a family hold it all, or those that rank highest and say how many
\* they leave out (auto-dashboard.ts:1026-1089).
LEMMA ChartsOfFamily ==
  ASSUME Cap \in Nat \ {0}, NEW S, IsList(S), NEW f \in Dash!Families(S), NEW section
  PROVE  LET C == Dash!FamilyChart(f, section)
         IN  OfFamily(C, f, section) /\ Apart(C) /\ AllOrHighest(C, f)
  <1> DEFINE first == Dash!First(UNION f)
             key == Dash!FamilyKey({first})
             C == Dash!FamilyChart(f, section)
  <1>1. UNION f # {} /\ IsList(UNION f) /\ first \in UNION f
    BY FamilyIsOne
  <1>2. CASE first.split
    <2> DEFINE of(k) == {i \in UNION f : i.params[1] = k}
               chart(g) == Dash!Chart(<<"split", key, Dash!First(g).params[1]>>, section, g, 0)
    <2>1. C = {chart(g) : g \in {of(k) : k \in {i.params[1] : i \in UNION f}}}
      BY <1>2 DEF Dash!FamilyChart, Dash!Groups
    <2>2. \A k : of(k) = {i \in UNION f : i.params[1] = k}
      OBVIOUS
    <2>3. \A g : chart(g) = [id |-> <<"split", key, Dash!First(g).params[1]>>, section |-> section,
                             items |-> g, more |-> 0]
      BY DEF Dash!Chart
    <2> HIDE DEF chart, of
    <2>4. ASSUME NEW i \in UNION f
          PROVE  /\ i \in of(i.params[1]) /\ of(i.params[1]) \subseteq UNION f
                 /\ Dash!First(of(i.params[1])).params[1] = i.params[1]
      <3>1. i \in of(i.params[1]) /\ of(i.params[1]) \in SUBSET UNION f
        BY <2>2
      <3>2. IsList(of(i.params[1]))
        BY <1>1, <3>1, PartOfList
      <3>3. Dash!First(of(i.params[1])) \in of(i.params[1])
        BY <3>1, <3>2, FirstIsFirst
      <3> QED BY <2>2, <3>1, <3>3
    <2> HIDE DEF C, key, first
    <2>5. \A c \in C : \E i \in UNION f : c = chart(of(i.params[1]))
      BY <2>1
    <2>6. \A i \in UNION f : chart(of(i.params[1])) \in C
      BY <2>1
    <2>7. \A i \in UNION f : \E c \in C : i \in c.items
      BY <2>3, <2>4, <2>6
    <2>8. \A c \in C : \E i \in UNION f :
            /\ c = [id |-> <<"split", key, i.params[1]>>, section |-> section,
                    items |-> of(i.params[1]), more |-> 0]
            /\ i \in of(i.params[1]) /\ of(i.params[1]) \subseteq UNION f
      BY <2>3, <2>4, <2>5
    <2>9. \A c \in C : /\ c.section = section /\ c.items # {} /\ c.items \subseteq UNION f
                       /\ c.more = 0 /\ c.id[1] = "split" /\ c.id[2] = key
      BY <2>8
    <2>10. Apart(C)
      <3> SUFFICES ASSUME NEW c \in C, NEW d \in C,
                          (\E i \in c.items : i \in d.items) \/ c.id = d.id
                   PROVE  c = d
        BY DEF Apart
      <3>1. PICK i \in UNION f : c = [id |-> <<"split", key, i.params[1]>>, section |-> section,
                                      items |-> of(i.params[1]), more |-> 0]
        BY <2>8
      <3>2. PICK j \in UNION f : d = [id |-> <<"split", key, j.params[1]>>, section |-> section,
                                      items |-> of(j.params[1]), more |-> 0]
        BY <2>8
      <3>3. i.params[1] = j.params[1]
        <4>1. CASE c.id = d.id
          BY <3>1, <3>2, <4>1
        <4>2. CASE \E h \in c.items : h \in d.items
          BY <2>2, <3>1, <3>2, <4>2
        <4> QED BY <4>1, <4>2
      <3> QED BY <3>1, <3>2, <3>3
    <2>11. OfFamily(C, f, section)
      <3>1. key = Dash!FamilyKey({Dash!First(UNION f)})
        BY DEF key, first
      <3>2. \A c \in C : c.more \in Nat /\ c.id[1] \in {"split", "family"}
        BY <2>9
      <3> QED BY <2>9, <3>1, <3>2 DEF OfFamily
    <2>12. AllOrHighest(C, f)
      BY <2>7, <2>9 DEF AllOrHighest
    <2> QED BY <2>10, <2>11, <2>12 DEF C
  <1>3. CASE ~first.split /\ Cardinality(f) = 1
    <2>1. C = {[id |-> <<"item", first.id>>, section |-> section, items |-> UNION f, more |-> 0]}
      BY <1>3, DashCounts DEF Dash!FamilyChart, Dash!Chart
    <2> QED BY <1>1, <2>1 DEF OfFamily, Apart, AllOrHighest
  <1>4. CASE ~first.split /\ Cardinality(f) # 1
    <2>1. C = {[id |-> <<"family", key>>, section |-> section, items |-> UNION Dash!Shown(f),
                more |-> Cardinality(f) - Cardinality(Dash!Shown(f))]}
      BY <1>4, DashCounts DEF Dash!FamilyChart, Dash!Chart
    <2>2. /\ Cardinality(f) - Cardinality(Dash!Shown(f)) = Cardinality(f \ Dash!Shown(f))
          /\ Cardinality(f \ Dash!Shown(f)) \in Nat
          /\ Dash!Shown(f) \subseteq f /\ Dash!Shown(f) # {}
      BY ShownRankHighest
    <2>3. UNION Dash!Shown(f) # {} /\ UNION Dash!Shown(f) \subseteq UNION f
      <3>1. \A a \in f : a # {}
        BY FamiliesDivide, InstancesDivide
      <3> HIDE DEF C, key, first
      <3> QED BY <2>2, <3>1
    <2> HIDE DEF C
    <2>4. PICK c : /\ C = {c} /\ c.id = <<"family", key>> /\ c.section = section
                   /\ c.items = UNION Dash!Shown(f) /\ c.more = Cardinality(f \ Dash!Shown(f))
      <3> HIDE DEF key, first
      <3> DEFINE c == [id |-> <<"family", key>>, section |-> section, items |-> UNION Dash!Shown(f),
                       more |-> Cardinality(f) - Cardinality(Dash!Shown(f))]
      <3>1. /\ c.id = <<"family", key>> /\ c.section = section
            /\ c.items = UNION Dash!Shown(f) /\ c.more = Cardinality(f \ Dash!Shown(f))
        BY <2>2
      <3> HIDE DEF c
      <3>2. C = {c}
        BY <2>1 DEF c
      <3> QED BY <3>1, <3>2
    <2>5. OfFamily(C, f, section)
      BY <2>2, <2>3, <2>4 DEF OfFamily
    <2>6. Apart(C) /\ AllOrHighest(C, f)
      BY <2>4 DEF Apart, AllOrHighest
    <2> QED BY <2>5, <2>6 DEF C
  <1> QED BY <1>2, <1>3, <1>4

\* A chart is of the item's quantity.
Quantity(c, i) == i.base = Dash!First(c.items).base /\ i.units = Dash!First(c.items).units

\* The charts of a section are of its items, under the ids of families.
Fits(C, S, section) ==
  \A c \in C : /\ c.section = section /\ c.items # {} /\ c.items \subseteq S /\ c.more \in Nat
               /\ c.id[1] \in {"item", "split", "family"}

\* What a chart counts as left out are items without a chart, of its quantity and
\* of values that are no greater than those it shows.
Missed(C, S) == {i \in S : \A c \in C : i \notin c.items}

LeftOutCounts(C, S) ==
  /\ \A i \in Missed(C, S) : \E c \in C :
       Quantity(c, i) /\ c.more > 0 /\ \A a \in Dash!Instances(c.items) : i.value <= Dash!LastValue(a)
  /\ \A c \in C : c.more > 0 =>
       \E out \in SUBSET Dash!Instances(S) :
         /\ Cardinality(out) = c.more
         /\ \A a \in out : a \subseteq Missed(C, S) /\ \A i \in a : Quantity(c, i)

\* Every chart of a quantity has that of its family.
LEMMA QuantityOfFamily ==
  ASSUME NEW S, IsList(S), NEW f \in Dash!Families(S), NEW c, c.items # {}, c.items \subseteq UNION f
  PROVE  \A i \in UNION f : Quantity(c, i)
  <1>1. /\ UNION f \subseteq S
        /\ \A i \in UNION f : i.base = Dash!First(UNION f).base /\ i.units = Dash!First(UNION f).units
    BY FamilyIsOne
  <1>2. c.items \in SUBSET S
    BY <1>1
  <1>3. IsList(c.items)
    BY <1>2, PartOfList
  <1>4. Dash!First(c.items) \in c.items
    BY <1>3, FirstIsFirst
  <1> QED BY <1>1, <1>4 DEF Quantity

\* The charts of all families of a section.
LEMMA ChartsOfFamilies ==
  ASSUME Cap \in Nat \ {0}, NEW S, IsList(S), NEW section
  PROVE  LET C == Dash!FamilyCharts(S, section)
         IN  Fits(C, S, section) /\ Apart(C) /\ LeftOutCounts(C, S)
  <1> DEFINE of(f) == Dash!FamilyChart(f, section)
             C == Dash!FamilyCharts(S, section)
  <1>1. /\ \A c \in C : \E f \in Dash!Families(S) : c \in of(f)
        /\ \A f \in Dash!Families(S) : \A c \in of(f) : c \in C
    BY DEF Dash!FamilyCharts
  <1>2. \A f \in Dash!Families(S) : OfFamily(of(f), f, section) /\ Apart(of(f)) /\ AllOrHighest(of(f), f)
    BY ChartsOfFamily
  <1> HIDE DEF of, C
  <1>3. Fits(C, S, section)
    <2> SUFFICES ASSUME NEW c \in C
                 PROVE  /\ c.section = section /\ c.items # {} /\ c.items \subseteq S /\ c.more \in Nat
                        /\ c.id[1] \in {"item", "split", "family"}
      BY DEF Fits
    <2>1. PICK f \in Dash!Families(S) : c \in of(f)
      BY <1>1
    <2>2. UNION f \subseteq S
      BY FamilyIsOne
    <2> QED BY <1>2, <2>1, <2>2 DEF OfFamily
  <1>4. Apart(C)
    <2> SUFFICES ASSUME NEW c \in C, NEW d \in C,
                        (\E i \in c.items : i \in d.items) \/ c.id = d.id
                 PROVE  c = d
      BY DEF Apart
    <2>1. PICK f \in Dash!Families(S) : c \in of(f)
      BY <1>1
    <2>2. PICK g \in Dash!Families(S) : d \in of(g)
      BY <1>1
    <2>3. f = g
      <3>1. CASE \E i \in c.items : i \in d.items
        <4>1. PICK i \in UNION f : i \in UNION g
          BY <1>2, <2>1, <2>2, <3>1 DEF OfFamily
        <4> QED BY <4>1, OneFamily
      <3>2. CASE c.id = d.id
        <4>1. \/ Dash!First(UNION f).id = Dash!First(UNION g).id
              \/ Dash!FamilyKey({Dash!First(UNION f)}) = Dash!FamilyKey({Dash!First(UNION g)})
          BY <1>2, <2>1, <2>2, <3>2 DEF OfFamily
        <4>2. /\ Dash!First(UNION f) \in UNION f /\ Dash!First(UNION f) \in S
              /\ Dash!First(UNION g) \in UNION g /\ Dash!First(UNION g) \in S
          BY FamilyIsOne
        <4>3. CASE Dash!First(UNION f).id = Dash!First(UNION g).id
          <5>1. Dash!First(UNION f) = Dash!First(UNION g)
            BY <4>2, <4>3 DEF IsList
          <5> QED BY <4>2, <5>1, OneFamily
        <4>4. CASE Dash!FamilyKey({Dash!First(UNION f)}) = Dash!FamilyKey({Dash!First(UNION g)})
          <5>1. PICK a \in f, b \in g : TRUE
            BY FamiliesDivide
          <5>2. Dash!FamilyKey(a) = Dash!FamilyKey(b)
            BY <4>4, FamilyIsOne
          <5> QED BY <5>2, FamiliesDivide
        <4> QED BY <4>1, <4>3, <4>4
      <3> QED BY <3>1, <3>2
    <2>4. c.section = d.section
      BY <1>2, <2>1, <2>2 DEF OfFamily
    <2> QED BY <1>2, <2>1, <2>2, <2>3, <2>4 DEF Apart
  <1>5. LeftOutCounts(C, S)
    \* Of a family that is cut.
    <2>1. ASSUME NEW f \in Dash!Families(S), NEW c, of(f) = {c}, c.items = UNION Dash!Shown(f),
                 c.more = Cardinality(f \ Dash!Shown(f))
          PROVE  /\ c \in C /\ \A i \in UNION f : Quantity(c, i)
                 /\ \A a \in f \ Dash!Shown(f) : a \subseteq Missed(C, S)
                 /\ \A i \in UNION (f \ Dash!Shown(f)) :
                      c.more > 0 /\ \A a \in Dash!Instances(c.items) : i.value <= Dash!LastValue(a)
      <3>1. c \in C /\ c.items # {} /\ c.items \subseteq UNION f /\ UNION f \subseteq S
        <4>1. c \in of(f)
          BY <2>1
        <4>2. c.items # {} /\ c.items \subseteq UNION f
          BY <1>2, <4>1 DEF OfFamily
        <4> QED BY <1>1, <4>1, <4>2, FamilyIsOne
      <3>2. \A i \in UNION f : Quantity(c, i)
        BY <3>1, QuantityOfFamily
      <3>3. /\ Dash!Shown(f) \subseteq f /\ f \subseteq Dash!Instances(S) /\ IsFiniteSet(f)
            /\ \A a \in Dash!Shown(f), b \in f \ Dash!Shown(f) : Dash!LastValue(b) <= Dash!LastValue(a)
        BY ShownRankHighest, FamiliesDivide, FamilyIsOne
      <3>4. ASSUME NEW b \in f \ Dash!Shown(f), NEW i \in b, NEW d \in C, i \in d.items PROVE FALSE
        <4>1. PICK g \in Dash!Families(S) : d \in of(g)
          BY <1>1
        <4>2. i \in UNION f /\ i \in UNION g
          BY <1>2, <3>4, <4>1 DEF OfFamily
        <4>3. d = c
          BY <2>1, <4>1, <4>2, OneFamily
        <4>4. PICK a \in Dash!Shown(f) : i \in a
          BY <2>1, <3>4, <4>3
        <4> QED BY <3>3, <4>4, OneInstance
      <3>5. \A a \in f \ Dash!Shown(f) : a \subseteq Missed(C, S)
        BY <3>1, <3>4 DEF Missed
      <3>6. ASSUME NEW b \in f \ Dash!Shown(f), NEW i \in b
            PROVE  c.more > 0 /\ \A a \in Dash!Instances(c.items) : i.value <= Dash!LastValue(a)
        <4>1. c.more > 0
          <5>1. f \ Dash!Shown(f) \in SUBSET f /\ f \ Dash!Shown(f) # {}
            OBVIOUS
          <5>2. IsFiniteSet(f \ Dash!Shown(f))
            BY <3>3, <5>1, FS_Subset
          <5>3. Cardinality(f \ Dash!Shown(f)) \in Nat /\ Cardinality(f \ Dash!Shown(f)) # 0
            BY <5>1, <5>2, FS_CardinalityType, FS_EmptySet
          <5> QED BY <2>1, <5>3
        <4>2. Dash!Instances(c.items) = Dash!Shown(f)
          <5>1. Dash!Shown(f) \in SUBSET Dash!Instances(S)
            BY <3>3
          <5> QED BY <2>1, <5>1, InstancesOfUnion
        <4>3. ASSUME NEW a \in Dash!Shown(f) PROVE i.value <= Dash!LastValue(a)
          <5>1. i.value <= Dash!LastValue(b) /\ Dash!LastValue(b) \in Int /\ Dash!LastValue(a) \in Int
            BY <3>3, InstanceOfList
          <5>2. i.value \in Int
            BY <3>1, <3>6 DEF IsList
          <5> QED BY <3>3, <5>1, <5>2
        <4> QED BY <4>1, <4>2, <4>3
      <3> QED BY <3>1, <3>2, <3>5, <3>6
    <2>2. ASSUME NEW i \in Missed(C, S)
          PROVE  \E c \in C : /\ Quantity(c, i) /\ c.more > 0
                              /\ \A a \in Dash!Instances(c.items) : i.value <= Dash!LastValue(a)
      <3>1. i \in S /\ \A c \in C : i \notin c.items
        BY DEF Missed
      <3>2. PICK b \in Dash!Instances(S) : i \in b
        BY <3>1, InstancesDivide
      <3>3. PICK f \in Dash!Families(S) : b \in f
        BY FamiliesDivide
      <3>4. i \in UNION f
        BY <3>2, <3>3
      <3>5. PICK c : /\ of(f) = {c} /\ c.items = UNION Dash!Shown(f)
                     /\ c.more = Cardinality(f \ Dash!Shown(f))
        BY <1>1, <1>2, <3>1, <3>4 DEF AllOrHighest
      <3>6. b \in f \ Dash!Shown(f)
        BY <1>1, <3>1, <3>2, <3>3, <3>5
      <3> QED BY <2>1, <3>2, <3>4, <3>5, <3>6
    <2>3. ASSUME NEW c \in C, c.more > 0
          PROVE  \E out \in SUBSET Dash!Instances(S) :
                   /\ Cardinality(out) = c.more
                   /\ \A a \in out : a \subseteq Missed(C, S) /\ \A i \in a : Quantity(c, i)
      <3>1. PICK f \in Dash!Families(S) : c \in of(f)
        BY <1>1
      <3>2. /\ of(f) = {c} /\ c.items = UNION Dash!Shown(f)
            /\ c.more = Cardinality(f \ Dash!Shown(f))
        <4>1. c.more # 0
          BY <2>3
        <4>2. \E d : /\ of(f) = {d} /\ d.items = UNION Dash!Shown(f)
                     /\ d.more = Cardinality(f \ Dash!Shown(f))
          BY <1>2, <3>1, <4>1 DEF AllOrHighest
        <4> QED BY <3>1, <4>2
      <3>3. f \ Dash!Shown(f) \in SUBSET Dash!Instances(S)
        BY FamiliesDivide
      <3>4. \A a \in f \ Dash!Shown(f) : a \subseteq Missed(C, S) /\ \A i \in a : Quantity(c, i)
        BY <2>1, <3>2
      <3> QED BY <3>2, <3>3, <3>4
    <2> QED BY <2>2, <2>3 DEF LeftOutCounts
  <1> QED BY <1>3, <1>4, <1>5 DEF C

\* The charts of a part of the list that have all of it, under ids that begin alike.
Holds(C, S, tag) ==
  /\ \A c \in C : c.items # {} /\ c.items \subseteq S /\ c.more = 0 /\ c.id[1] = tag
  /\ \A i \in S : \E c \in C : i \in c.items
  /\ Apart(C)

\* A bundle counts the CPU time that is not idle.
Counted(items) == {i \in Dash!Bundled(items) : ~i.idle}

\* The charts of the bundles hold all of it.
LEMMA BundlesHold ==
  ASSUME NEW items, IsList(items)
  PROVE  Holds(Dash!BundleCharts(items), Counted(items), "bundle")
  <1> DEFINE S == Counted(items)
             C == Dash!BundleCharts(items)
             of(k) == {i \in S : <<i.bundle, Dash!Section(i)>> = k}
             chart(g) == [id |-> <<"bundle", Dash!First(g).bundle, Dash!Section(Dash!First(g))>>,
                          section |-> Dash!Section(Dash!First(g)), items |-> g, more |-> 0]
  <1>1. C = {chart(g) : g \in {of(k) : k \in {<<i.bundle, Dash!Section(i)>> : i \in S}}}
    BY DEF Dash!BundleCharts, Dash!Groups, Dash!Chart, Counted
  <1>2. S \subseteq items
    BY DEF Counted, Dash!Bundled, Dash!HostItems, Dash!Numeric
  <1>3. \A b, s : of(<<b, s>>) = {i \in S : i.bundle = b /\ Dash!Section(i) = s}
    OBVIOUS
  <1> HIDE DEF C, of, S, chart
  <1>4. /\ \A c \in C : \E i \in S : c = chart(of(<<i.bundle, Dash!Section(i)>>))
        /\ \A i \in S : chart(of(<<i.bundle, Dash!Section(i)>>)) \in C
    BY <1>1
  <1>5. ASSUME NEW i \in S
        PROVE  /\ i \in of(<<i.bundle, Dash!Section(i)>>) /\ of(<<i.bundle, Dash!Section(i)>>) \subseteq S
               /\ chart(of(<<i.bundle, Dash!Section(i)>>)) =
                    [id |-> <<"bundle", i.bundle, Dash!Section(i)>>, section |-> Dash!Section(i),
                     items |-> of(<<i.bundle, Dash!Section(i)>>), more |-> 0]
    <2> DEFINE g == of(<<i.bundle, Dash!Section(i)>>)
    <2>1. i \in g /\ g \in SUBSET S /\ g \in SUBSET items
      BY <1>2, <1>3
    <2> HIDE DEF g
    <2>2. Dash!First(g) \in g
      BY <2>1, PartOfList, FirstIsFirst
    <2>3. Dash!First(g).bundle = i.bundle /\ Dash!Section(Dash!First(g)) = Dash!Section(i)
      BY <1>3, <2>2 DEF g
    <2> QED BY <2>1, <2>3 DEF g, chart
  <1>6. \A c \in C : \E i \in S :
          /\ c = [id |-> <<"bundle", i.bundle, Dash!Section(i)>>, section |-> Dash!Section(i),
                  items |-> of(<<i.bundle, Dash!Section(i)>>), more |-> 0]
          /\ i \in of(<<i.bundle, Dash!Section(i)>>) /\ of(<<i.bundle, Dash!Section(i)>>) \subseteq S
    BY <1>4, <1>5
  <1>7. ASSUME NEW i \in S PROVE \E c \in C : i \in c.items
    <2>1. PICK c \in C : c = chart(of(<<i.bundle, Dash!Section(i)>>))
      BY <1>4
    <2>2. c.items = of(<<i.bundle, Dash!Section(i)>>)
      BY <2>1 DEF chart
    <2>3. i \in c.items
      BY <1>5, <2>2
    <2> QED BY <2>3
  <1>8. Apart(C)
    <2> SUFFICES ASSUME NEW c \in C, NEW d \in C,
                        (\E i \in c.items : i \in d.items) \/ c.id = d.id
                 PROVE  c = d
      BY DEF Apart
    <2>1. PICK i \in S : c = [id |-> <<"bundle", i.bundle, Dash!Section(i)>>, section |-> Dash!Section(i),
                              items |-> of(<<i.bundle, Dash!Section(i)>>), more |-> 0]
      BY <1>6
    <2>2. PICK j \in S : d = [id |-> <<"bundle", j.bundle, Dash!Section(j)>>, section |-> Dash!Section(j),
                              items |-> of(<<j.bundle, Dash!Section(j)>>), more |-> 0]
      BY <1>6
    <2>3. i.bundle = j.bundle /\ Dash!Section(i) = Dash!Section(j)
      <3>1. CASE c.id = d.id
        BY <2>1, <2>2, <3>1
      <3>2. CASE \E h \in c.items : h \in d.items
        BY <1>3, <2>1, <2>2, <3>2
      <3> QED BY <3>1, <3>2
    <2> QED BY <2>1, <2>2, <2>3
  <1>9. \A c \in C : c.items # {} /\ c.items \subseteq S /\ c.more = 0 /\ c.id[1] = "bundle"
    <2> SUFFICES ASSUME NEW c \in C
                 PROVE  c.items # {} /\ c.items \subseteq S /\ c.more = 0 /\ c.id[1] = "bundle"
      OBVIOUS
    <2>1. PICK i \in S :
            /\ c = [id |-> <<"bundle", i.bundle, Dash!Section(i)>>, section |-> Dash!Section(i),
                    items |-> of(<<i.bundle, Dash!Section(i)>>), more |-> 0]
            /\ i \in of(<<i.bundle, Dash!Section(i)>>) /\ of(<<i.bundle, Dash!Section(i)>>) \subseteq S
      BY <1>6
    <2>2. c.items = of(<<i.bundle, Dash!Section(i)>>) /\ c.more = 0 /\ c.id[1] = "bundle"
      BY <2>1
    <2> QED BY <2>1, <2>2
  <1> QED BY <1>7, <1>8, <1>9 DEF Holds, C, S

\* Those of the network interfaces hold every item of one.
LEMMA PortsHold ==
  ASSUME NEW items, IsList(items)
  PROVE  Holds(Dash!PortCharts(items), Dash!Ported(items), "iface")
  <1> DEFINE S == Dash!Ported(items)
             C == Dash!PortCharts(items)
             of(k) == {i \in S : <<i.port, Dash!Section(i)>> = k}
             chart(g) == [id |-> <<"iface", Dash!First(g).port>>,
                          section |-> Dash!Section(Dash!First(g)), items |-> g, more |-> 0]
  <1>1. C = {chart(g) : g \in {of(k) : k \in {<<i.port, Dash!Section(i)>> : i \in S}}}
    BY DEF Dash!PortCharts, Dash!Groups, Dash!Chart
  <1>2. S \subseteq items
    BY DEF Dash!Ported, Dash!HostItems, Dash!Numeric
  <1>3. \A b, s : of(<<b, s>>) = {i \in S : i.port = b /\ Dash!Section(i) = s}
    OBVIOUS
  <1> HIDE DEF C, of, S, chart
  <1>4. /\ \A c \in C : \E i \in S : c = chart(of(<<i.port, Dash!Section(i)>>))
        /\ \A i \in S : chart(of(<<i.port, Dash!Section(i)>>)) \in C
    BY <1>1
  <1>5. ASSUME NEW i \in S
        PROVE  /\ i \in of(<<i.port, Dash!Section(i)>>) /\ of(<<i.port, Dash!Section(i)>>) \subseteq S
               /\ chart(of(<<i.port, Dash!Section(i)>>)) =
                    [id |-> <<"iface", i.port>>, section |-> Dash!Section(i),
                     items |-> of(<<i.port, Dash!Section(i)>>), more |-> 0]
    <2> DEFINE g == of(<<i.port, Dash!Section(i)>>)
    <2>1. i \in g /\ g \in SUBSET S /\ g \in SUBSET items
      BY <1>2, <1>3
    <2> HIDE DEF g
    <2>2. Dash!First(g) \in g
      BY <2>1, PartOfList, FirstIsFirst
    <2>3. Dash!First(g).port = i.port /\ Dash!Section(Dash!First(g)) = Dash!Section(i)
      BY <1>3, <2>2 DEF g
    <2> QED BY <2>1, <2>3 DEF g, chart
  <1>6. \A c \in C : \E i \in S :
          /\ c = [id |-> <<"iface", i.port>>, section |-> Dash!Section(i),
                  items |-> of(<<i.port, Dash!Section(i)>>), more |-> 0]
          /\ i \in of(<<i.port, Dash!Section(i)>>) /\ of(<<i.port, Dash!Section(i)>>) \subseteq S
    BY <1>4, <1>5
  <1>7. ASSUME NEW i \in S PROVE \E c \in C : i \in c.items
    <2>1. PICK c \in C : c = chart(of(<<i.port, Dash!Section(i)>>))
      BY <1>4
    <2>2. c.items = of(<<i.port, Dash!Section(i)>>)
      BY <2>1 DEF chart
    <2>3. i \in c.items
      BY <1>5, <2>2
    <2> QED BY <2>3
  <1>8. Apart(C)
    <2> SUFFICES ASSUME NEW c \in C, NEW d \in C,
                        (\E i \in c.items : i \in d.items) \/ (c.section = d.section /\ c.id = d.id)
                 PROVE  c = d
      BY DEF Apart
    <2>1. PICK i \in S : c = [id |-> <<"iface", i.port>>, section |-> Dash!Section(i),
                              items |-> of(<<i.port, Dash!Section(i)>>), more |-> 0]
      BY <1>6
    <2>2. PICK j \in S : d = [id |-> <<"iface", j.port>>, section |-> Dash!Section(j),
                              items |-> of(<<j.port, Dash!Section(j)>>), more |-> 0]
      BY <1>6
    <2>3. i.port = j.port /\ Dash!Section(i) = Dash!Section(j)
      <3>1. CASE c.section = d.section /\ c.id = d.id
        BY <2>1, <2>2, <3>1
      <3>2. CASE \E h \in c.items : h \in d.items
        BY <1>3, <2>1, <2>2, <3>2
      <3> QED BY <3>1, <3>2
    <2> QED BY <2>1, <2>2, <2>3
  <1>9. \A c \in C : c.items # {} /\ c.items \subseteq S /\ c.more = 0 /\ c.id[1] = "iface"
    <2> SUFFICES ASSUME NEW c \in C
                 PROVE  c.items # {} /\ c.items \subseteq S /\ c.more = 0 /\ c.id[1] = "iface"
      OBVIOUS
    <2>1. PICK i \in S :
            /\ c = [id |-> <<"iface", i.port>>, section |-> Dash!Section(i),
                    items |-> of(<<i.port, Dash!Section(i)>>), more |-> 0]
            /\ i \in of(<<i.port, Dash!Section(i)>>) /\ of(<<i.port, Dash!Section(i)>>) \subseteq S
      BY <1>6
    <2>2. c.items = of(<<i.port, Dash!Section(i)>>) /\ c.more = 0 /\ c.id[1] = "iface"
      BY <2>1
    <2> QED BY <2>1, <2>2
  <1> QED BY <1>7, <1>8, <1>9 DEF Holds, C, S

\* The items of a section that neither a port nor a bundle took before.
InSection(items, s) == {i \in Dash!Plain(items) : Dash!Section(i) = s}

\* The four kinds of charts, each of its own items.
LEMMA ChartsAre ==
  ASSUME NEW items, NEW c
  PROVE  c \in Dash!Charts(items) <=>
           \/ c \in Dash!BundleCharts(items)
           \/ c \in Dash!PortCharts(items)
           \/ \E i \in Dash!Plain(items) :
                c \in Dash!FamilyCharts(InSection(items, Dash!Section(i)), Dash!Section(i))
           \/ c \in Dash!FamilyCharts(Dash!Contained(items), Dash!ContainerPart)
  <1> DEFINE of(s) == Dash!FamilyCharts(InSection(items, s), s)
             plain == UNION {of(s) : s \in {Dash!Section(i) : i \in Dash!Plain(items)}}
  <1>1. Dash!Charts(items) = Dash!BundleCharts(items) \cup Dash!PortCharts(items) \cup plain
                               \cup Dash!FamilyCharts(Dash!Contained(items), Dash!ContainerPart)
    BY DEF Dash!Charts, InSection
  <1>2. c \in plain <=> \E i \in Dash!Plain(items) : c \in of(Dash!Section(i))
    <2> HIDE DEF of
    <2> QED OBVIOUS
  <1> HIDE DEF plain
  <1> QED BY <1>1, <1>2

\* Each number is in one of the four parts.
LEMMA PartsOfTheList ==
  ASSUME NEW items, IsList(items)
  PROVE  /\ \A i \in Dash!Numeric(items) :
              \/ i \in Dash!Contained(items) \/ i \in Dash!Ported(items)
              \/ i \in Dash!Bundled(items) \/ i \in Dash!Plain(items)
         /\ \A i \in Dash!Contained(items) : i \in Dash!Numeric(items) /\ i.container
         /\ \A i \in Dash!Ported(items) :
              i \in Dash!Numeric(items) /\ ~i.container /\ i \notin Dash!Bundled(items)
         /\ \A i \in Dash!Bundled(items) : i \in Dash!Numeric(items) /\ ~i.container
         /\ \A i \in Dash!Plain(items) :
              /\ i \in Dash!Numeric(items) /\ ~i.container
              /\ i \notin Dash!Ported(items) /\ i \notin Dash!Bundled(items)
              /\ Dash!Section(i) # Dash!ContainerPart
         /\ Dash!Numeric(items) \subseteq items
         /\ Dash!Numeric(items) \cap Dash!TextItems(items) = {}
  BY DEF IsList, Dash!Contained, Dash!Ported, Dash!Bundled, Dash!Plain, Dash!HostItems,
         Dash!Numeric, Dash!TextItems

\* What the families' charts are, of the sections and of the containers.
LEMMA FamiliesOfTheList ==
  ASSUME Cap \in Nat \ {0}, NEW items, IsList(items)
  PROVE  /\ \A s : LET C == Dash!FamilyCharts(InSection(items, s), s)
                   IN  /\ Fits(C, InSection(items, s), s) /\ Apart(C)
                       /\ LeftOutCounts(C, InSection(items, s))
         /\ LET C == Dash!FamilyCharts(Dash!Contained(items), Dash!ContainerPart)
            IN  /\ Fits(C, Dash!Contained(items), Dash!ContainerPart) /\ Apart(C)
                /\ LeftOutCounts(C, Dash!Contained(items))
  <1>1. ASSUME NEW s PROVE InSection(items, s) \in SUBSET items
    BY PartsOfTheList DEF InSection
  <1>2. Dash!Contained(items) \in SUBSET items
    BY PartsOfTheList
  <1>3. \A s : IsList(InSection(items, s))
    BY <1>1, PartOfList
  <1>4. IsList(Dash!Contained(items))
    BY <1>2, PartOfList
  <1> QED BY <1>3, <1>4, ChartsOfFamilies

\* No two charts of a dashboard share an item or, in a section, an id.
LEMMA ChartsStandApart ==
  ASSUME Cap \in Nat \ {0}, NEW items, IsList(items)
  PROVE  /\ Apart(Dash!Charts(items))
         /\ \A c \in Dash!Charts(items) : /\ c.items # {} /\ c.items \subseteq Dash!Numeric(items)
                                          /\ c.more \in Nat
  <1> DEFINE bundles == Dash!BundleCharts(items)
             ports == Dash!PortCharts(items)
             of(s) == Dash!FamilyCharts(InSection(items, s), s)
             contained == Dash!FamilyCharts(Dash!Contained(items), Dash!ContainerPart)
             IsBundle(c) == /\ c \in bundles /\ c.id[1] = "bundle"
                            /\ \A i \in c.items : i \in Dash!Bundled(items)
             IsPort(c) == /\ c \in ports /\ c.id[1] = "iface"
                          /\ \A i \in c.items : i \in Dash!Ported(items)
             IsPlain(c, s) == /\ c \in of(s) /\ c.id[1] \in {"item", "split", "family"} /\ c.section = s
                              /\ s # Dash!ContainerPart
                              /\ \A i \in c.items : i \in Dash!Plain(items) /\ Dash!Section(i) = s
             IsContained(c) == /\ c \in contained /\ c.id[1] \in {"item", "split", "family"}
                               /\ c.section = Dash!ContainerPart
                               /\ \A i \in c.items : i \in Dash!Contained(items)
  <1>1. ASSUME NEW c \in Dash!Charts(items)
        PROVE  /\ IsBundle(c) \/ IsPort(c) \/ (\E s : IsPlain(c, s)) \/ IsContained(c)
               /\ c.items # {} /\ c.items \subseteq Dash!Numeric(items) /\ c.more \in Nat
    <2>1. CASE c \in bundles
      <3>1. IsBundle(c) /\ c.items # {} /\ c.more = 0
        BY <2>1, BundlesHold DEF Holds, Counted
      <3> QED BY <3>1, PartsOfTheList
    <2>2. CASE c \in ports
      <3>1. IsPort(c) /\ c.items # {} /\ c.more = 0
        BY <2>2, PortsHold DEF Holds
      <3> QED BY <3>1, PartsOfTheList
    <2>3. ASSUME NEW j \in Dash!Plain(items), c \in of(Dash!Section(j))
          PROVE  /\ IsPlain(c, Dash!Section(j))
                 /\ c.items # {} /\ c.items \subseteq Dash!Numeric(items) /\ c.more \in Nat
      <3>1. Fits(of(Dash!Section(j)), InSection(items, Dash!Section(j)), Dash!Section(j))
        BY FamiliesOfTheList
      <3>2. Dash!Section(j) # Dash!ContainerPart
        BY PartsOfTheList
      <3>3. IsPlain(c, Dash!Section(j)) /\ c.items # {} /\ c.more \in Nat
        BY <2>3, <3>1, <3>2 DEF Fits, InSection
      <3> QED BY <3>3, PartsOfTheList
    <2>4. CASE c \in contained
      <3>1. Fits(contained, Dash!Contained(items), Dash!ContainerPart)
        BY FamiliesOfTheList
      <3>2. IsContained(c) /\ c.items # {} /\ c.more \in Nat
        BY <2>4, <3>1 DEF Fits
      <3> QED BY <3>2, PartsOfTheList
    <2> QED BY <2>1, <2>2, <2>3, <2>4, ChartsAre
  <1>2. Apart(Dash!Charts(items))
    <2> SUFFICES ASSUME NEW c \in Dash!Charts(items), NEW d \in Dash!Charts(items),
                        (\E i \in c.items : i \in d.items) \/ (c.section = d.section /\ c.id = d.id)
                 PROVE  c = d
      BY DEF Apart
    <2>1. IsBundle(c) \/ IsPort(c) \/ (\E s : IsPlain(c, s)) \/ IsContained(c)
      BY <1>1
    <2>2. IsBundle(d) \/ IsPort(d) \/ (\E s : IsPlain(d, s)) \/ IsContained(d)
      BY <1>1
    <2>3. Apart(bundles) /\ Apart(ports) /\ (\A s : Apart(of(s))) /\ Apart(contained)
      BY BundlesHold, PortsHold, FamiliesOfTheList DEF Holds
    <2> HIDE DEF bundles, ports, of, contained
    <2>4. CASE IsBundle(c)
      <3>1. IsBundle(d)
        BY <2>2, <2>4, PartsOfTheList
      <3> QED BY <2>3, <2>4, <3>1 DEF Apart
    <2>5. CASE IsPort(c)
      <3>1. IsPort(d)
        BY <2>2, <2>5, PartsOfTheList
      <3> QED BY <2>3, <2>5, <3>1 DEF Apart
    <2>6. ASSUME NEW s, IsPlain(c, s) PROVE c = d
      <3>1. IsPlain(d, s)
        BY <2>2, <2>6, PartsOfTheList
      <3> QED BY <2>3, <2>6, <3>1 DEF Apart
    <2>7. CASE IsContained(c)
      <3>1. IsContained(d)
        BY <2>2, <2>7, PartsOfTheList
      <3> QED BY <2>3, <2>7, <3>1 DEF Apart
    <2> QED BY <2>1, <2>4, <2>5, <2>6, <2>7
  <1> QED BY <1>1, <1>2

\* The numbers without a chart, and what ties one to a chart.
Homeless(items) ==
  {i \in Dash!Numeric(items) : /\ {c \in Dash!Charts(items) : i \in c.items} = {}
                               /\ ~(i \in Dash!Bundled(items) /\ i.idle)}
Akin(c, i) == /\ Quantity(c, i)
              /\ i.container = Dash!First(c.items).container
              /\ i.container \/ Dash!Section(i) = c.section

\* The families that an item without a chart may be of.
LEMMA HomelessAreOfFamilies ==
  ASSUME NEW items, IsList(items), NEW i \in Homeless(items)
  PROVE  i \in Dash!Numeric(items) /\ (i \in Dash!Plain(items) \/ i \in Dash!Contained(items))
  <1>1. /\ i \in Dash!Numeric(items) /\ \A c \in Dash!Charts(items) : i \notin c.items
        /\ ~(i \in Dash!Bundled(items) /\ i.idle)
    BY DEF Homeless
  <1>2. i \notin Dash!Ported(items)
    BY <1>1, PortsHold, ChartsAre DEF Holds
  <1>3. i \notin Dash!Bundled(items)
    <2>1. i \notin Counted(items)
      BY <1>1, BundlesHold, ChartsAre DEF Holds
    <2> QED BY <1>1, <2>1 DEF Counted
  <1> QED BY <1>1, <1>2, <1>3, PartsOfTheList

\* What a family leaves out has no other chart.
LEMMA MissedAreHomeless ==
  ASSUME Cap \in Nat \ {0}, NEW items, IsList(items)
  PROVE  /\ \A s : \A i \in Missed(Dash!FamilyCharts(InSection(items, s), s), InSection(items, s)) :
              i \in Homeless(items)
         /\ \A i \in Missed(Dash!FamilyCharts(Dash!Contained(items), Dash!ContainerPart),
                            Dash!Contained(items)) :
              i \in Homeless(items)
  <1>1. \A c \in Dash!BundleCharts(items) : \A i \in c.items : i \in Dash!Bundled(items)
    BY BundlesHold DEF Holds, Counted
  <1>2. \A c \in Dash!PortCharts(items) : \A i \in c.items : i \in Dash!Ported(items)
    BY PortsHold DEF Holds
  <1>3. \A s : \A c \in Dash!FamilyCharts(InSection(items, s), s) :
          \A i \in c.items : i \in Dash!Plain(items) /\ Dash!Section(i) = s
    BY FamiliesOfTheList DEF Fits, InSection
  <1>4. \A c \in Dash!FamilyCharts(Dash!Contained(items), Dash!ContainerPart) :
          \A i \in c.items : i \in Dash!Contained(items)
    BY FamiliesOfTheList DEF Fits
  <1>5. ASSUME NEW s, NEW i \in Missed(Dash!FamilyCharts(InSection(items, s), s), InSection(items, s))
        PROVE  i \in Homeless(items)
    <2>1. /\ i \in Dash!Plain(items) /\ Dash!Section(i) = s
          /\ \A c \in Dash!FamilyCharts(InSection(items, s), s) : i \notin c.items
      BY DEF Missed, InSection
    <2>2. \A c \in Dash!Charts(items) : i \notin c.items
      BY <1>1, <1>2, <1>3, <1>4, <2>1, ChartsAre, PartsOfTheList
    <2> QED BY <2>1, <2>2, PartsOfTheList DEF Homeless
  <1>6. ASSUME NEW i \in Missed(Dash!FamilyCharts(Dash!Contained(items), Dash!ContainerPart),
                                Dash!Contained(items))
        PROVE  i \in Homeless(items)
    <2>1. /\ i \in Dash!Contained(items)
          /\ \A c \in Dash!FamilyCharts(Dash!Contained(items), Dash!ContainerPart) : i \notin c.items
      BY DEF Missed
    <2>2. \A c \in Dash!Charts(items) : i \notin c.items
      BY <1>1, <1>2, <1>3, <1>4, <2>1, ChartsAre, PartsOfTheList
    <2> QED BY <2>1, <2>2, PartsOfTheList DEF Homeless
  <1> QED BY <1>5, <1>6

\* What such a chart says of the first of its items.
LEMMA FirstOfChart ==
  ASSUME Cap \in Nat \ {0}, NEW items, IsList(items), NEW c \in Dash!Charts(items)
  PROVE  Dash!First(c.items) \in c.items
  <1>1. c.items # {} /\ c.items \in SUBSET items
    BY ChartsStandApart, PartsOfTheList
  <1> QED BY <1>1, PartOfList, FirstIsFirst

\* Each of them is left out of a chart of its quantity, by its rank, and counted there.
LEMMA LeftOutAreAkin ==
  ASSUME Cap \in Nat \ {0}, NEW items, IsList(items)
  PROVE  /\ \A i \in Homeless(items) : \E c \in Dash!Charts(items) :
              /\ Akin(c, i) /\ c.more > 0
              /\ \A a \in Dash!Instances(c.items) : i.value <= Dash!LastValue(a)
         /\ \A c \in Dash!Charts(items) :
              Cardinality(Dash!Instances({i \in Homeless(items) : Akin(c, i)})) >= c.more
  <1> DEFINE of(s) == Dash!FamilyCharts(InSection(items, s), s)
             contained == Dash!FamilyCharts(Dash!Contained(items), Dash!ContainerPart)
  <1>1. /\ \A s : Fits(of(s), InSection(items, s), s) /\ LeftOutCounts(of(s), InSection(items, s))
        /\ Fits(contained, Dash!Contained(items), Dash!ContainerPart)
        /\ LeftOutCounts(contained, Dash!Contained(items))
    BY FamiliesOfTheList
  <1>2. /\ \A s : \A i \in Missed(of(s), InSection(items, s)) : i \in Homeless(items)
        /\ \A i \in Missed(contained, Dash!Contained(items)) : i \in Homeless(items)
    BY MissedAreHomeless
  <1>3. /\ \A i \in Dash!Plain(items) : \A c \in of(Dash!Section(i)) : c \in Dash!Charts(items)
        /\ \A c \in contained : c \in Dash!Charts(items)
    BY ChartsAre
  <1> HIDE DEF of, contained
  \* Of a chart of a family, an item is akin that has no chart of its own.
  <1>4. ASSUME NEW s, NEW c \in of(s), c \in Dash!Charts(items), NEW i \in Homeless(items), Quantity(c, i)
        PROVE  Akin(c, i) <=> i \in InSection(items, s)
    <2>1. Dash!First(c.items) \in Dash!Plain(items) /\ c.section = s
      BY <1>1, <1>4, FirstOfChart DEF Fits, InSection
    <2>2. i \in Dash!Plain(items) \/ i \in Dash!Contained(items)
      BY HomelessAreOfFamilies
    <2>3. i \in items /\ Dash!First(c.items) \in items
      BY <2>1, <2>2, PartsOfTheList
    <2>4. i.container \in BOOLEAN /\ Dash!First(c.items).container \in BOOLEAN
      BY <2>3 DEF IsList
    <2> QED BY <1>4, <2>1, <2>2, <2>4, PartsOfTheList DEF Akin, InSection
  <1>5. ASSUME NEW c \in contained, NEW i \in Homeless(items), Quantity(c, i)
        PROVE  Akin(c, i) <=> i \in Dash!Contained(items)
    <2>1. Dash!First(c.items) \in Dash!Contained(items)
      BY <1>1, <1>3, FirstOfChart DEF Fits
    <2>2. i \in Dash!Plain(items) \/ i \in Dash!Contained(items)
      BY HomelessAreOfFamilies
    <2>3. i \in items /\ Dash!First(c.items) \in items
      BY <2>1, <2>2, PartsOfTheList
    <2>4. i.container \in BOOLEAN /\ Dash!First(c.items).container \in BOOLEAN
      BY <2>3 DEF IsList
    <2> QED BY <1>5, <2>1, <2>2, <2>4, PartsOfTheList DEF Akin
  <1>6. ASSUME NEW i \in Homeless(items)
        PROVE  \E c \in Dash!Charts(items) :
                 /\ Akin(c, i) /\ c.more > 0
                 /\ \A a \in Dash!Instances(c.items) : i.value <= Dash!LastValue(a)
    <2>1. \A c \in Dash!Charts(items) : i \notin c.items
      BY DEF Homeless
    <2>2. CASE i \in Dash!Plain(items)
      <3>1. i \in InSection(items, Dash!Section(i))
        BY <2>2 DEF InSection
      <3>2. i \in Missed(of(Dash!Section(i)), InSection(items, Dash!Section(i)))
        BY <1>3, <2>1, <2>2, <3>1 DEF Missed
      <3>3. PICK c \in of(Dash!Section(i)) :
              Quantity(c, i) /\ c.more > 0
                /\ \A a \in Dash!Instances(c.items) : i.value <= Dash!LastValue(a)
        BY <1>1, <3>2 DEF LeftOutCounts
      <3>4. c \in Dash!Charts(items)
        BY <1>3, <2>2
      <3> QED BY <1>4, <3>1, <3>3, <3>4
    <2>3. CASE i \in Dash!Contained(items)
      <3>1. i \in Missed(contained, Dash!Contained(items))
        BY <1>3, <2>1, <2>3 DEF Missed
      <3>2. PICK c \in contained :
              Quantity(c, i) /\ c.more > 0
                /\ \A a \in Dash!Instances(c.items) : i.value <= Dash!LastValue(a)
        BY <1>1, <3>1 DEF LeftOutCounts
      <3> QED BY <1>3, <1>5, <2>3, <3>2
    <2> QED BY <2>2, <2>3, HomelessAreOfFamilies
  <1>7. ASSUME NEW c \in Dash!Charts(items)
        PROVE  Cardinality(Dash!Instances({i \in Homeless(items) : Akin(c, i)})) >= c.more
    <2> DEFINE T == {i \in Homeless(items) : Akin(c, i)}
    <2>1. IsFiniteSet(Dash!Instances(T)) /\ Cardinality(Dash!Instances(T)) \in Nat
      <3>1. T \in SUBSET items
        BY PartsOfTheList DEF Homeless
      <3>2. IsFiniteSet(T)
        BY <3>1, FS_Subset DEF IsList
      <3> HIDE DEF T
      <3> QED BY <3>2, InstancesDivide, FS_CardinalityType
    <2>2. c.more \in Nat
      BY ChartsStandApart
    <2>3. ASSUME NEW S, NEW C, c \in C, LeftOutCounts(C, S), c.more > 0, T \subseteq S,
                 \A i \in Missed(C, S) : Quantity(c, i) => i \in T
          PROVE  Cardinality(Dash!Instances(T)) >= c.more
      <3>1. PICK out \in SUBSET Dash!Instances(S) :
              /\ Cardinality(out) = c.more
              /\ \A a \in out : a \subseteq Missed(C, S) /\ \A i \in a : Quantity(c, i)
        BY <2>3 DEF LeftOutCounts
      <3> HIDE DEF T
      <3>2. \A a \in out : a \subseteq T
        BY <2>3, <3>1
      <3>3. out \in SUBSET Dash!Instances(T)
        <4>1. T \in SUBSET S
          BY <2>3
        <4> QED BY <3>2, <4>1, InstanceOfPart
      <3>4. IsFiniteSet(out) /\ Cardinality(out) <= Cardinality(Dash!Instances(T))
        BY <2>1, <3>3, FS_Subset
      <3> QED BY <2>1, <2>2, <3>1, <3>4
    <2>4. CASE c.more = 0
      BY <2>1, <2>4
    <2>5. CASE c.more > 0
      <3>1. c \notin Dash!BundleCharts(items) /\ c \notin Dash!PortCharts(items)
        BY <2>5, BundlesHold, PortsHold DEF Holds
      <3>2. ASSUME NEW j \in Dash!Plain(items), c \in of(Dash!Section(j))
            PROVE  Cardinality(Dash!Instances(T)) >= c.more
        <4> DEFINE s == Dash!Section(j)
        <4>1. T \subseteq InSection(items, s)
          BY <1>4, <3>2 DEF Akin
        <4>2. \A i \in Missed(of(s), InSection(items, s)) : Quantity(c, i) => i \in T
          <5>1. \A i \in Missed(of(s), InSection(items, s)) : i \in InSection(items, s)
            BY DEF Missed
          <5> QED BY <1>2, <1>4, <3>2, <5>1
        <4> HIDE DEF s
        <4>3. LeftOutCounts(of(s), InSection(items, s)) /\ c \in of(s)
          BY <1>1, <3>2 DEF s
        <4> HIDE DEF T
        <4> QED BY <2>3, <2>5, <4>1, <4>2, <4>3
      <3>3. CASE c \in contained
        <4>1. T \subseteq Dash!Contained(items)
          BY <1>5, <3>3 DEF Akin
        <4>2. \A i \in Missed(contained, Dash!Contained(items)) : Quantity(c, i) => i \in T
          <5>1. \A i \in Missed(contained, Dash!Contained(items)) : i \in Dash!Contained(items)
            BY DEF Missed
          <5> QED BY <1>2, <1>5, <3>3, <5>1
        <4> HIDE DEF T
        <4>3. LeftOutCounts(contained, Dash!Contained(items))
          BY <1>1
        <4>4. Cardinality(Dash!Instances(T)) >= c.more
          BY <2>3, <2>5, <3>3, <4>1, <4>2, <4>3
        <4> QED BY <4>4 DEF T
      <3> QED BY <3>1, <3>2, <3>3, ChartsAre DEF of, contained
    <2> QED BY <2>2, <2>4, <2>5
  <1> QED BY <1>6, <1>7

\* Every item of a host has its place on the dashboard: for every list of items, of
\* any number, keys, sections, ports, bundles and values, one with a text is in no
\* chart and one with a number in at most one; what is in none is idle CPU time or
\* was cut from a chart of its quantity that counts it and shows no smaller value;
\* and no two charts of a section share an id (auto-dashboard.ts:1011-1089).
THEOREM NoItemIsLost ==
  ASSUME Cap \in Nat \ {0}, NEW items, IsList(items)
  PROVE  Dash!NothingIsLost(items)
  <1> DEFINE charts == Dash!Charts(items)
             home(i) == {c \in charts : i \in c.items}
  <1>1. ASSUME NEW i \in items
        PROVE  Dash!Cardinality(home(i)) + (IF i \in Dash!TextItems(items) THEN 1 ELSE 0) <= 1
    <2>1. \A c, d \in home(i) : c = d
      BY ChartsStandApart DEF Apart
    <2>2. i \in Dash!TextItems(items) => home(i) = {}
      BY ChartsStandApart, PartsOfTheList
    <2> HIDE DEF home
    <2>3. CASE home(i) = {}
      BY <2>3, FS_EmptySet, DashCounts
    <2>4. CASE home(i) # {}
      <3>1. PICK c : home(i) = {c}
        BY <2>1, <2>4
      <3>2. Dash!Cardinality(home(i)) = 1
        BY <3>1, FS_Singleton, DashCounts
      <3> QED BY <2>2, <2>4, <3>2
    <2> QED BY <2>3, <2>4
  <1>2. Homeless(items) = {i \in Dash!Numeric(items) :
                             home(i) = {} /\ ~(i \in Dash!Bundled(items) /\ i.idle)}
    BY DEF Homeless
  <1>3. \A c, i : Akin(c, i) <=>
          /\ <<i.base, i.units>> = <<Dash!First(c.items).base, Dash!First(c.items).units>>
          /\ i.container = Dash!First(c.items).container
          /\ i.container \/ Dash!Section(i) = c.section
    BY DEF Akin, Quantity
  <1>4. \A c, d \in charts : c # d => <<c.section, c.id>> # <<d.section, d.id>>
    BY ChartsStandApart DEF Apart
  <1> DEFINE kin(c, i) == /\ <<i.base, i.units>> = <<Dash!First(c.items).base, Dash!First(c.items).units>>
                          /\ i.container = Dash!First(c.items).container
                          /\ i.container \/ Dash!Section(i) = c.section
  <1>5. \A c : {i \in Homeless(items) : Akin(c, i)} = {i \in Homeless(items) : kin(c, i)}
    BY <1>3
  <1>6. \A i \in Homeless(items) : \E c \in charts :
          /\ kin(c, i) /\ c.more > 0
          /\ \A a \in Dash!Instances(c.items) : i.value <= Dash!LastValue(a)
    BY <1>3, LeftOutAreAkin
  <1>7. \A c \in charts : Dash!Cardinality(Dash!Instances({i \in Homeless(items) : kin(c, i)})) >= c.more
    <2> HIDE DEF kin, charts
    <2> QED BY <1>5, LeftOutAreAkin, DashCounts DEF charts
  <1> QED BY <1>1, <1>2, <1>4, <1>6, <1>7 DEF Dash!NothingIsLost

\* No list is loaded at first.
LEMMA ListsAreLists == \A l \in ItemLists \cup {{}} : IsList(l)
  <1>1. IsList({})
    BY FS_EmptySet DEF IsList
  <1> QED BY <1>1, PagesAssumption

\* What a template binds is charted, and no fact.
LEMMA BoundItemsAreNoFacts == Data!BoundStaysCharted
  BY DEF Data!BoundStaysCharted, Data!FactItems, Data!Matched, Data!Sections

\* In every state of the pages each item of a host is on its dashboard once, and an
\* item bound by a template is charted and no fact, in every order of the answers,
\* the promotions and the changes of the list (auto-dashboard.ts:1011-1089,
\* LatestDataPage.tsx:49-118, display-templates/index.ts:52-169).
THEOREM ItemsKeepTheirPlace == PagesSpec => []ItemsHaveTheirPlace
  <1> DEFINE Inv == about = "host" => c2 \in ItemLists \cup {{}}
  <1>1. PagesInit => Inv
    BY DEF PagesInit, Dash!Init
  <1>2. Inv /\ [PagesNext]_all => Inv'
    <2>1. [PagesNext]_all => about' = about
      BY DEF PagesNext, Rest, all
    <2>2. about = "host" /\ [PagesNext]_all => [Dash!Next]_(Dash!vars)
      BY DEF PagesNext, all, Dash!vars
    <2>3. [Dash!Next]_(Dash!vars) => c2' = c2 \/ c2' \in ItemLists
      BY DEF Dash!Next, Dash!vars, Dash!Load, Dash!SetFilterText, Dash!SelectTemplate, Dash!TemplatesArrive,
             Dash!SetRange, Dash!ToggleOpen, Dash!ToggleShowEmpty, Dash!Scroll, Dash!Arrive, Dash!Fail
    <2> QED BY <2>1, <2>2, <2>3
  <1>3. Inv => ItemsHaveTheirPlace
    BY PagesAssumption, ListsAreLists, NoItemIsLost, BoundItemsAreNoFacts
    DEF ItemsHaveTheirPlace, Dash!EveryItemHasItsPlace
  <1> QED BY <1>1, <1>2, <1>3, PTL DEF PagesSpec

-----------------------------------------------------------------------------
(* The topology.  c1 is the list of the hosts, c2 the problems, c8 the     *)
(* stage.                                                                  *)

\* The instance counts as this module does.
LEMMA TopoCounts == \A S : Topo!Cardinality(S) = Cardinality(S)
  BY DEF Topo!Cardinality, Topo!IsFiniteSet, Cardinality, IsFiniteSet

\* Severities are those of Zabbix, 0 to 5.
Graded == \A p \in c2 : p.severity \in 0..5

\* A host's severity is a number, -1 without a problem.
LEMMA SeverityIsNumber == Graded => \A h : Topo!SeverityOf(h) \in -1..5
  <1> SUFFICES ASSUME Graded, NEW h PROVE Topo!SeverityOf(h) \in -1..5
    OBVIOUS
  <1> DEFINE S == {-1} \cup {p.severity : p \in {q \in Topo!Joined : h.id \in AlarmHosts[q.trigger]}}
  <1>1. S \in SUBSET (-1..5) /\ S # {}
    BY DEF Graded, Topo!Joined
  <1>2. Topo!SeverityOf(h) = Topo!Max(S)
    BY DEF Topo!SeverityOf
  <1> HIDE DEF S
  <1>3. IsFiniteSet(S)
    <2>1. PICK a \in Int, b \in Int : a = -1 /\ b = 5
      OBVIOUS
    <2>2. IsFiniteSet(a..b)
      BY FS_Interval
    <2> QED BY <1>1, <2>1, <2>2, FS_Subset
  <1>4. \E x \in S : \A y \in S : y <= x
    <2>1. S \in SUBSET Int
      BY <1>1
    <2> QED BY <1>1, <1>3, <2>1, HaveEnds
  <1>5. \E x \in S : \A y \in S : x >= y
    <2>1. PICK x \in S : \A y \in S : y <= x
      BY <1>4
    <2>2. \A y \in S : x >= y
      BY <1>1, <2>1
    <2> QED BY <2>2
  <1>6. Topo!Max(S) \in S
    BY <1>5 DEF Topo!Max
  <1> QED BY <1>1, <1>2, <1>6

\* The nodes of a ring divide its hosts, and one for several has no bad one.
Divides(ring, members) ==
  /\ \A h \in members : \E e \in ring : {x \in ring : h \in x.hosts} = {e}
  /\ \A e \in ring : e.hosts \subseteq members
  /\ \A e \in ring : \/ \E h \in members : e.hosts = {h}
                     \/ \A h \in e.hosts : Topo!SeverityOf(h) < IF e.node = Topo!Ok THEN 0 ELSE 3

\* The node of the quiet hosts is that of no family.
LEMMA FamiliesAreNotOk ==
  ASSUME NEW members, NEW h PROVE Topo!FamilyOf(members, h) # Topo!Ok
  BY DEF Topo!FamilyOf, Topo!Ok

\* Each of the three kinds of ring divides the hosts of its cluster.
LEMMA RingDivides ==
  ASSUME Graded, NEW members, NEW open
  PROVE  Divides(Topo!Ring(members, open), members)
  <1> DEFINE ring == Topo!Ring(members, open)
             family == [h \in members |-> Topo!FamilyOf(members, h)]
             folded == {h \in members : ~Topo!StaysAlone(h)}
             node(f) == [node |-> f, hosts |-> {h \in folded : family[h] = f}]
             alone(h) == [node |-> <<"host", h.id>>, hosts |-> {h}]
             quiet == {h \in members : Topo!SeverityOf(h) = -1}
             ok == [node |-> Topo!Ok, hosts |-> quiet]
  <1>1. CASE Topo!Semantic(members)
    <2>1. ring = {alone(h) : h \in members \ folded} \cup {node(f) : f \in {family[h] : h \in folded}}
      BY <1>1 DEF Topo!Ring, Topo!Alone, Topo!Families
    <2>2. /\ \A h \in members \ folded : alone(h) \in ring
          /\ \A h \in folded : node(family[h]) \in ring
          /\ \A e \in ring : \/ \E h \in members \ folded : e = alone(h)
                             \/ \E h \in folded : e = node(family[h])
      <3> HIDE DEF alone, node, folded, ring, family
      <3> QED BY <2>1
    <2>3. \A h \in folded : Topo!SeverityOf(h) < 3 /\ family[h] # Topo!Ok /\ h \in members
      BY SeverityIsNumber, FamiliesAreNotOk DEF Topo!StaysAlone
    <2> HIDE DEF ring, family
    <2>4. ASSUME NEW h \in members PROVE \E e \in ring : {x \in ring : h \in x.hosts} = {e}
      <3>1. CASE h \in folded
        <4>1. \A x \in ring : h \in x.hosts <=> x = node(family[h])
          BY <2>2, <3>1
        <4> QED BY <2>2, <3>1, <4>1
      <3>2. CASE h \notin folded
        <4>1. \A x \in ring : h \in x.hosts <=> x = alone(h)
          BY <2>2, <3>2
        <4>2. alone(h) \in ring
          BY <2>2, <2>4, <3>2
        <4> HIDE DEF alone, folded
        <4> QED BY <4>1, <4>2
      <3> QED BY <3>1, <3>2
    <2>5. ASSUME NEW e \in ring
          PROVE  /\ e.hosts \subseteq members
                 /\ \/ \E h \in members : e.hosts = {h}
                    \/ \A h \in e.hosts : Topo!SeverityOf(h) < IF e.node = Topo!Ok THEN 0 ELSE 3
      <3>1. CASE \E h \in members \ folded : e = alone(h)
        BY <3>1
      <3>2. ASSUME NEW g \in folded, e = node(family[g])
            PROVE  /\ e.hosts \subseteq members /\ e.node # Topo!Ok
                   /\ \A h \in e.hosts : Topo!SeverityOf(h) < 3
        BY <2>3, <3>2
      <3> QED BY <2>2, <3>1, <3>2
    <2> QED BY <2>4, <2>5 DEF Divides, ring
  <1>2. CASE ~Topo!Semantic(members) /\ ~open /\ Topo!Collapsible(members)
    <2>1. ring = {alone(h) : h \in members \ quiet} \cup {ok}
      BY <1>2 DEF Topo!Ring, Topo!Alone, Topo!Quiet
    <2>2. \A h \in quiet : Topo!SeverityOf(h) < 0 /\ h \in members
      OBVIOUS
    <2> HIDE DEF ring
    <2>3. ASSUME NEW h \in members PROVE \E e \in ring : {x \in ring : h \in x.hosts} = {e}
      <3>1. CASE h \in quiet
        <4>1. \A x \in ring : h \in x.hosts <=> x = ok
          BY <2>1, <3>1
        <4> QED BY <2>1, <4>1
      <3>2. CASE h \notin quiet
        <4>1. \A x \in ring : h \in x.hosts <=> x = alone(h)
          BY <2>1, <3>2
        <4> QED BY <2>1, <3>2, <4>1
      <3> QED BY <3>1, <3>2
    <2>4. ASSUME NEW e \in ring
          PROVE  /\ e.hosts \subseteq members
                 /\ \/ \E h \in members : e.hosts = {h}
                    \/ \A h \in e.hosts : Topo!SeverityOf(h) < IF e.node = Topo!Ok THEN 0 ELSE 3
      <3>1. CASE \E h \in members \ quiet : e = alone(h)
        BY <3>1
      <3>2. CASE e = ok
        BY <2>2, <3>2
      <3> QED BY <2>1, <3>1, <3>2
    <2> QED BY <2>3, <2>4 DEF Divides, ring
  <1>3. CASE ~Topo!Semantic(members) /\ ~(~open /\ Topo!Collapsible(members))
    <2>1. ring = {alone(h) : h \in members}
      BY <1>3 DEF Topo!Ring, Topo!Alone
    <2> HIDE DEF ring
    <2>2. ASSUME NEW h \in members PROVE \E e \in ring : {x \in ring : h \in x.hosts} = {e}
      <3>1. \A x \in ring : h \in x.hosts <=> x = alone(h)
        BY <2>1
      <3> QED BY <2>1, <3>1
    <2>3. ASSUME NEW e \in ring
          PROVE  e.hosts \subseteq members /\ \E h \in members : e.hosts = {h}
      <3>1. PICK h \in members : e = alone(h)
        BY <2>1
      <3> QED BY <3>1
    <2> QED BY <2>2, <2>3 DEF Divides, ring
  <1> QED BY <1>1, <1>2, <1>3

\* Each host is in one cluster of its subnet, and of its proxy.
LEMMA ClustersDivide ==
  ASSUME NEW h \in c1
  PROVE  /\ LET C == {c \in Topo!Clusters("l3") : h \in c.hosts}
            IN  IF Topo!SubnetOf(h) = Absent THEN C = {} ELSE \E c : C = {c}
         /\ LET C == {c \in Topo!Clusters("proxies") : h \in c.hosts}
            IN  \E c : C = {c} /\ c.id = Topo!AnchorOf(h)
  <1> DEFINE nets == {Topo!SubnetOf(g) : g \in c1} \ {Absent}
             net(n) == Topo!ClusterOf(<<"subnet", n>>, {g \in c1 : Topo!SubnetOf(g) = n})
             anchors == {Topo!AnchorOf(g) : g \in c1}
             at(a) == Topo!ClusterOf(a, {g \in c1 : Topo!AnchorOf(g) = a})
  <1>1. Topo!Clusters("l3") = {net(n) : n \in nets}
    BY DEF Topo!Clusters
  <1>2. Topo!Clusters("proxies") = {at(a) : a \in anchors}
    BY DEF Topo!Clusters
  <1>3. /\ \A n : net(n).hosts = {g \in c1 : Topo!SubnetOf(g) = n}
        /\ \A a : at(a).hosts = {g \in c1 : Topo!AnchorOf(g) = a} /\ at(a).id = a
    BY DEF Topo!ClusterOf
  <1>4. (Topo!SubnetOf(h) # Absent => Topo!SubnetOf(h) \in nets) /\ Absent \notin nets /\ Topo!AnchorOf(h) \in anchors
    OBVIOUS
  <1> HIDE DEF net, at, nets, anchors
  <1>5. /\ \A c \in Topo!Clusters("l3") : h \in c.hosts <=> c = net(Topo!SubnetOf(h)) /\ Topo!SubnetOf(h) # Absent
        /\ Topo!SubnetOf(h) # Absent => net(Topo!SubnetOf(h)) \in Topo!Clusters("l3")
    BY <1>1, <1>3, <1>4
  <1>6. /\ \A c \in Topo!Clusters("proxies") : h \in c.hosts <=> c = at(Topo!AnchorOf(h))
        /\ at(Topo!AnchorOf(h)) \in Topo!Clusters("proxies")
    BY <1>2, <1>3, <1>4
  <1> QED BY <1>3, <1>5, <1>6

\* For every list of hosts, of any interfaces, proxies, names and domains, and every
\* set of problems of Zabbix's severities: a host is in one cluster of each kind
\* that has it, and on the stage in one node, which it shares only if it is not
\* badly off (topology.ts:84-99, 301-387, radial-layout.ts:153-279,
\* FocusStage.tsx:104-140).
THEOREM NoHostIsLost == Graded => Topo!StageShowsAll
  <1> SUFFICES ASSUME Graded PROVE Topo!StageShowsAll
    OBVIOUS
  <1>1. ASSUME NEW t \in {"l3", "proxies"}, NEW h \in c1
        PROVE  LET C == {c \in Topo!Clusters(t) : h \in c.hosts}
               IN  /\ Topo!Cardinality(C) = IF t = "l3" /\ Topo!SubnetOf(h) = Absent THEN 0 ELSE 1
                   /\ \A c \in C : t = "proxies" /\ h.by = 2 /\ h.group # 0 => c.id = <<"proxygroup", h.group>>
    <2> DEFINE C == {c \in Topo!Clusters(t) : h \in c.hosts}
    <2>1. /\ t = "l3" /\ Topo!SubnetOf(h) = Absent => C = {}
          /\ ~(t = "l3" /\ Topo!SubnetOf(h) = Absent) => \E c : C = {c}
          /\ t = "proxies" => \A c \in C : c.id = Topo!AnchorOf(h)
      BY ClustersDivide
    <2> HIDE DEF C
    <2>2. Topo!Cardinality(C) = IF t = "l3" /\ Topo!SubnetOf(h) = Absent THEN 0 ELSE 1
      BY <2>1, FS_EmptySet, FS_Singleton, TopoCounts
    <2>3. h.by = 2 /\ h.group # 0 => Topo!AnchorOf(h) = <<"proxygroup", h.group>>
      BY DEF Topo!AnchorOf
    <2> QED BY <2>1, <2>2, <2>3 DEF C
  <1>2. LET ring == Topo!Ring(Topo!OnStage, c8.open)
        IN  /\ \A h \in Topo!OnStage : Topo!Cardinality({e \in ring : h \in e.hosts}) = 1
            /\ UNION {e.hosts : e \in ring} = Topo!OnStage
            /\ \A e \in ring : Topo!Cardinality(e.hosts) > 1 =>
                 \A h \in e.hosts : Topo!SeverityOf(h) < (IF e.node = Topo!Ok THEN 0 ELSE 3)
    <2> DEFINE members == Topo!OnStage
               ring == Topo!Ring(members, c8.open)
    <2>1. Divides(ring, members)
      BY RingDivides
    <2> HIDE DEF ring, members
    <2>2. \A h \in members : Topo!Cardinality({e \in ring : h \in e.hosts}) = 1
      BY <2>1, FS_Singleton, TopoCounts DEF Divides
    <2>3. UNION {e.hosts : e \in ring} = members
      <3>1. \A h \in members : \E e \in ring : h \in e.hosts
        BY <2>1 DEF Divides
      <3> QED BY <2>1, <3>1 DEF Divides
    <2>4. ASSUME NEW e \in ring, Topo!Cardinality(e.hosts) > 1
          PROVE  \A h \in e.hosts : Topo!SeverityOf(h) < (IF e.node = Topo!Ok THEN 0 ELSE 3)
      <3>1. ASSUME NEW h \in members, e.hosts = {h} PROVE FALSE
        <4>1. Topo!Cardinality({h}) = 1
          BY FS_Singleton, TopoCounts
        <4> QED BY <2>4, <3>1, <4>1
      <3> QED BY <2>1, <3>1 DEF Divides
    <2> QED BY <2>2, <2>3, <2>4 DEF ring, members
  <1> QED BY <1>1, <1>2 DEF Topo!StageShowsAll

\* No host is lost between the answer and the stage, in every order of the lists,
\* the problems, the searches, the zooms and the clicks (topology.ts:84-99, 301-387,
\* radial-layout.ts:153-279, FocusStage.tsx:104-140).
THEOREM EveryHostIsOnTheStage == PagesSpec => []StageShowsAll
  <1> DEFINE Inv == about = "topology" => c2 \in AlarmLists \cup {{}}
  <1>1. PagesInit => Inv
    BY DEF PagesInit, Topo!Init
  <1>2. Inv /\ [PagesNext]_all => Inv'
    <2>1. [PagesNext]_all => about' = about
      BY DEF PagesNext, Rest, all
    <2>2. about = "topology" /\ [PagesNext]_all => [Topo!Next]_(Topo!vars)
      BY DEF PagesNext, all, Topo!vars
    <2>3. [Topo!Next]_(Topo!vars) => c2' = c2 \/ c2' \in AlarmLists
      BY DEF Topo!Next, Topo!vars, Topo!SetTab, Topo!SetCluster, Topo!Type, Topo!Jump, Topo!ResetStage,
             Topo!ExpandOk, Topo!FocusFamily, Topo!Zoom, Topo!HostsArrive, Topo!ProblemsArrive,
             Topo!TriggersArrive
    <2> QED BY <2>1, <2>2, <2>3
  <1>3. Inv => StageShowsAll
    <2>1. \A l \in AlarmLists \cup {{}} : \A p \in l : p.severity \in 0..5
      BY PagesAssumption DEF Topo!TopologyAssumption
    <2>2. Inv /\ about = "topology" => Graded
      BY <2>1 DEF Graded
    <2> QED BY <2>2, NoHostIsLost DEF StageShowsAll
  <1> QED BY <1>1, <1>2, <1>3, PTL DEF PagesSpec

-----------------------------------------------------------------------------
(* The maintenance form.  c1 is the entry at Zabbix, c2 as the page has     *)
(* read it, c3 the form, c4 the request under way.                          *)

\* The recurrences the form has.
Kind == {"once", "daily", "weekly", "monthlyDay", "monthlyWeekday", "yearly"}

\* What Zabbix stores.
Entry(w) == Form!Window(w) /\ Form!Tidy(w)

\* What the fields of the form may hold.
Input(f) ==
  /\ f \in [recurrence : Kind, start : Int, till : Int, duration : Nat, time : Form!Clock,
            every : Nat \ {0}, weekdays : SUBSET Form!Weekday, day : Form!MonthDay,
            months : SUBSET Form!Months, targets : SUBSET Target]
  /\ f.start % 60 = 0 /\ f.till % 60 = 0 /\ f.time % 60 = 0
  /\ f.recurrence = "yearly" => f.months # {}

\* An entry the form can show.
Editable(w) == Entry(w) /\ Form!Recurrence(w) # "none"

\* The local clock adds whole minutes,
LEMMA ZoneMinutes ==
  /\ Zone.before \in Int /\ Zone.after \in Int /\ Zone.change \in Int
  /\ Zone.before % 60 = 0 /\ Zone.after % 60 = 0
  BY PagesAssumption DEF Form!MaintenanceAssumption, Form!ZoneAssumption

\* and less than a day of them.
LEMMA ZoneBounds ==
  /\ 0 - 43200 <= Zone.before /\ Zone.before <= 50400
  /\ 0 - 43200 <= Zone.after  /\ Zone.after  <= 50400
  /\ Zone.before - Zone.after <= 7200 /\ Zone.after - Zone.before <= 7200
  BY PagesAssumption DEF Form!MaintenanceAssumption, Form!ZoneAssumption

\* Whole minutes less or more whole minutes.
LEMMA WholeMinutes ==
  ASSUME NEW a \in Int, NEW b \in Int, a % 60 = 0, b % 60 = 0
  PROVE  a + b \in Int /\ (a - b) % 60 = 0 /\ (a + b) % 60 = 0
  OBVIOUS

\* The local clock keeps whole minutes.
LEMMA LocalMinutes ==
  /\ \A s \in Int : s % 60 = 0 => Form!FromLocal(s) \in Int /\ Form!FromLocal(s) % 60 = 0
  /\ \A t \in Int : Form!ToLocal(t) \in Int /\ Form!ToLocal(t) % 60 = 0
  <1>1. /\ Zone.before \in Int /\ Zone.after \in Int
        /\ Zone.before % 60 = 0 /\ Zone.after % 60 = 0
    BY ZoneMinutes
  <1>2. ASSUME NEW s \in Int, s % 60 = 0
        PROVE  Form!FromLocal(s) \in Int /\ Form!FromLocal(s) % 60 = 0
    <2>1. s - Zone.before \in Int /\ s - Zone.after \in Int
      BY <1>1
    <2>2. (s - Zone.before) % 60 = 0 /\ (s - Zone.after) % 60 = 0
      BY <1>1, <1>2, WholeMinutes, Zenon
    <2> QED BY <2>1, <2>2 DEF Form!FromLocal
  <1>3. ASSUME NEW t \in Int
        PROVE  Form!ToLocal(t) \in Int /\ Form!ToLocal(t) % 60 = 0
    <2>1. t + Form!Offset(t) + Form!Offset(t) \in Int
      BY <1>1 DEF Form!Offset
    <2>2. \A s \in Int : Form!FromLocal(s) \in Int
      BY <1>1 DEF Form!FromLocal
    <2>3. \A s \in Int : Form!ToMinute(s) \in Int /\ Form!ToMinute(s) % 60 = 0
      BY DEF Form!ToMinute
    <2> QED BY <2>1, <2>2, <2>3 DEF Form!ToLocal
  <1> QED BY <1>2, <1>3

\* A field that shows a time of whole minutes is read as that time again, when
\* the clock is not changed within a day of it.
LEMMA LocalTimesAreRead ==
  ASSUME NEW t \in Int, t % 60 = 0, Form!Away(t)
  PROVE  Form!FromLocal(Form!ToLocal(t)) = t
  <1>1. /\ Zone.before \in Int /\ Zone.after \in Int /\ Zone.change \in Int
        /\ 0 - 43200 <= Zone.before /\ Zone.before <= 50400
        /\ 0 - 43200 <= Zone.after  /\ Zone.after  <= 50400
        /\ Zone.before - Zone.after <= 7200 /\ Zone.after - Zone.before <= 7200
    BY ZoneMinutes, ZoneBounds
  <1>2. \A s \in Int : s % 60 = 0 => Form!ToMinute(s) = s
    BY DEF Form!ToMinute
  <1>3. CASE t + 86400 <= Zone.change
    <2>1. Form!Offset(t) = Zone.before
      BY <1>1, <1>3 DEF Form!Offset
    <2>2. Form!FromLocal(t + Zone.before + Zone.before) = t + Zone.before
      BY <1>1, <1>3 DEF Form!FromLocal
    <2>3. t + Zone.before \in Int /\ (t + Zone.before) % 60 = 0
      BY ZoneMinutes, WholeMinutes, Zenon
    <2>4. Form!ToLocal(t) = t + Zone.before
      BY <1>2, <2>1, <2>2, <2>3 DEF Form!ToLocal
    <2> QED BY <1>1, <1>3, <2>4 DEF Form!FromLocal
  <1>4. CASE t >= Zone.change + 86400
    <2>1. Form!Offset(t) = Zone.after
      BY <1>1, <1>4 DEF Form!Offset
    <2>2. Form!FromLocal(t + Zone.after + Zone.after) = t + Zone.after
      BY <1>1, <1>4 DEF Form!FromLocal
    <2>3. t + Zone.after \in Int /\ (t + Zone.after) % 60 = 0
      BY ZoneMinutes, WholeMinutes, Zenon
    <2>4. Form!ToLocal(t) = t + Zone.after
      BY <1>2, <2>1, <2>2, <2>3 DEF Form!ToLocal
    <2> QED BY <1>1, <1>4, <2>4 DEF Form!FromLocal
  <1> QED BY <1>3, <1>4 DEF Form!Away

\* The field of the time of day shows whole minutes, and all of a time that is one.
LEMMA ClockToTheMinute ==
  ASSUME NEW t \in Form!Clock
  PROVE  /\ Form!ToMinute(t) \in Form!Clock /\ Form!ToMinute(t) % 60 = 0
         /\ t % 60 = 0 => Form!ToMinute(t) = t
  BY DEF Form!ToMinute, Form!Clock

\* The length that is shown is one.
LEMMA ShownIsALength ==
  ASSUME NEW t \in Nat
  PROVE  Form!AsShown(t) \in Nat
  BY DEF Form!AsShown

\* The instance counts as this module does.
LEMMA SameCardinality ==
  ASSUME NEW S PROVE Form!Cardinality(S) = Cardinality(S)
  BY DEF Form!Cardinality, Cardinality

\* A type is one of four numbers.
LEMMA TypesDiffer ==
  /\ Form!Once # Form!Daily /\ Form!Once # Form!Weekly /\ Form!Once # Form!Monthly
  /\ Form!Daily # Form!Weekly /\ Form!Daily # Form!Monthly /\ Form!Weekly # Form!Monthly
  BY DEF Form!Once, Form!Daily, Form!Weekly, Form!Monthly

\* The recurrence by the type of the entry.
LEMMA RecurrenceOf ==
  ASSUME NEW w
  PROVE  /\ w.type = Form!Once => Form!Recurrence(w) = "once"
         /\ w.type = Form!Daily => Form!Recurrence(w) = "daily"
         /\ w.type = Form!Weekly =>
              Form!Recurrence(w) = IF w.weekdays = {} THEN "none" ELSE "weekly"
         /\ w.type = Form!Monthly /\ w.weekdays = {} =>
              Form!Recurrence(w) = IF w.day = 0 THEN "none"
                                   ELSE IF Cardinality(w.months) = 1 THEN "yearly"
                                   ELSE IF w.months = Form!Months THEN "monthlyDay" ELSE "none"
         /\ w.type = Form!Monthly /\ w.weekdays # {} =>
              Form!Recurrence(w) =
                IF Cardinality(w.weekdays) = 1 /\ w.months = Form!Months /\ w.every \in 1 .. 5
                THEN "monthlyWeekday" ELSE "none"
  BY TypesDiffer, SameCardinality DEF Form!Recurrence

\* The bit of a mask that has one.
LEMMA OneOfOne ==
  ASSUME NEW S, Cardinality(S) = 1, IsFiniteSet(S)
  PROVE  S = {Form!TheOne(S)}
  <1>1. PICK x : S = {x}
    BY FS_Singleton
  <1> QED BY <1>1 DEF Form!TheOne

\* The fields of an entry.
LEMMA EntryFields ==
  ASSUME NEW w, Entry(w)
  PROVE  /\ w.since \in Int /\ w.till \in Int /\ w.date \in Int /\ w.period \in Nat
         /\ w.time \in Form!Clock /\ w.every \in Nat /\ w.weekdays \in SUBSET Form!Weekday
         /\ w.months \in SUBSET Form!Months /\ w.day \in Form!MonthDay
         /\ w.targets \in SUBSET Target
         /\ w.type \in {Form!Once, Form!Daily, Form!Weekly, Form!Monthly}
         /\ Form!Tidy(w)
  <1>1. Form!Window(w) /\ Form!Tidy(w)
    BY DEF Entry
  <1> QED BY <1>1 DEF Form!Window

\* The fields of the form.
LEMMA InputFields ==
  ASSUME NEW f, Input(f)
  PROVE  /\ f.recurrence \in Kind /\ f.start \in Int /\ f.till \in Int /\ f.duration \in Nat
         /\ f.time \in Form!Clock /\ f.every \in Nat \ {0} /\ f.weekdays \in SUBSET Form!Weekday
         /\ f.day \in Form!MonthDay /\ f.months \in SUBSET Form!Months
         /\ f.targets \in SUBSET Target
         /\ f.start % 60 = 0 /\ f.till % 60 = 0 /\ f.time % 60 = 0
         /\ f.recurrence = "yearly" => f.months # {}
  BY DEF Input

\* The form can hold an entry that it lets its user edit.
LEMMA DecodedIsInput ==
  ASSUME NEW w, Editable(w)
  PROVE  Input(Form!Decoded(w))
  <1> DEFINE kind  == Form!Recurrence(w)
             start == Form!ToLocal(IF w.type = Form!Once THEN w.date ELSE w.since)
             till == Form!ToLocal(IF w.type = Form!Once THEN Now + Form!Year ELSE w.till)
             every == IF w.type \in {Form!Daily, Form!Weekly, Form!Monthly} /\ w.every > 0
                      THEN w.every ELSE 1
  <1>1. Entry(w)
    BY DEF Editable
  <1>2. /\ w.since \in Int /\ w.till \in Int /\ w.date \in Int /\ w.period \in Nat
        /\ w.time \in Form!Clock /\ w.every \in Nat /\ w.weekdays \in SUBSET Form!Weekday
        /\ w.months \in SUBSET Form!Months /\ w.day \in Form!MonthDay /\ w.targets \in SUBSET Target
    BY <1>1, EntryFields
  <1>3. kind \in Kind
    BY DEF Form!Recurrence, Editable, Kind
  <1>4. kind = "yearly" => w.months # {}
    <2>1. kind = "yearly" => Cardinality(w.months) = 1
      BY <1>1, EntryFields, RecurrenceOf
    <2> QED BY <2>1, FS_EmptySet
  <1>5. Form!ToMinute(w.time) \in Form!Clock /\ Form!ToMinute(w.time) % 60 = 0
    BY <1>2, ClockToTheMinute
  <1>6. start \in Int /\ start % 60 = 0
    BY <1>2, LocalMinutes
  <1>7. till \in Int /\ till % 60 = 0
    <2>1. Now + Form!Year \in Int
      BY PagesAssumption DEF Form!MaintenanceAssumption, Form!Year
    <2> QED BY <1>2, <2>1, LocalMinutes
  <1>8. every \in Nat \ {0}
    BY <1>2
  <1>9. Form!AsShown(w.period) \in Nat
    BY <1>2, ShownIsALength
  <1>10. Form!Decoded(w) =
          [recurrence |-> kind, start |-> start, till |-> till,
           duration |-> Form!AsShown(w.period), time |-> Form!ToMinute(w.time), every |-> every,
           weekdays |-> w.weekdays, day |-> w.day, months |-> w.months, targets |-> w.targets]
    BY DEF Form!Decoded
  <1> HIDE DEF kind, start, till, every
  <1> QED BY <1>2, <1>3, <1>4, <1>5, <1>6, <1>7, <1>8, <1>9, <1>10 DEF Input

\* And the values it starts with.
LEMMA NewFormIsInput == Input(Form!NewForm)
  <1>1. Now \in Int /\ Now + Form!Year \in Int
    BY PagesAssumption DEF Form!MaintenanceAssumption, Form!Year
  <1>2. /\ Form!ToLocal(Now) \in Int /\ Form!ToLocal(Now) % 60 = 0
        /\ Form!ToLocal(Now + Form!Year) \in Int /\ Form!ToLocal(Now + Form!Year) % 60 = 0
    BY <1>1, LocalMinutes
  <1> QED BY <1>2 DEF Input, Kind, Form!NewForm, Form!Months, Form!Weekday, Form!MonthDay, Form!Clock

\* The record that each recurrence makes.
LEMMA WholeEntry ==
  ASSUME NEW type \in {Form!Once, Form!Daily, Form!Weekly, Form!Monthly},
         NEW since \in Int, NEW till \in Int, NEW period \in Nat, NEW date \in Int,
         NEW time \in Form!Clock, NEW every \in Nat, NEW weekdays \in SUBSET Form!Weekday,
         NEW months \in SUBSET Form!Months, NEW day \in Form!MonthDay,
         NEW targets \in SUBSET Target
  PROVE  Form!Window([type |-> type, since |-> since, till |-> till, period |-> period,
                      date |-> date, time |-> time, every |-> every, weekdays |-> weekdays,
                      months |-> months, day |-> day, targets |-> targets])
  BY DEF Form!Window

\* What an accepted form sends is what Zabbix would store.
LEMMA PayloadIsEntry ==
  ASSUME NEW f, Input(f), Form!Accepted(f)
  PROVE  Entry(Form!Payload(f))
  <1> DEFINE start == Form!FromLocal(f.start)
             end == Form!FromLocal(f.till)
  <1> DEFINE Made(type, till, date, time, every, weekdays, months, day) ==
               [type |-> type, since |-> start, till |-> till, period |-> f.duration,
                date |-> date, time |-> time, every |-> every, weekdays |-> weekdays,
                months |-> months, day |-> day, targets |-> f.targets]
  <1>1. 0 \in Form!Clock /\ 0 \in Int
    BY DEF Form!Clock
  <1>2. 0 \in Form!MonthDay
    BY DEF Form!MonthDay
  <1>0. start \in Int /\ end \in Int /\ start % 60 = 0 /\ end % 60 = 0
    BY InputFields, LocalMinutes
  <1>3. /\ start \in Int /\ end \in Int /\ f.duration \in Nat /\ start + f.duration \in Int
        /\ f.time \in Form!Clock /\ f.every \in Nat \ {0} /\ f.day \in Form!MonthDay
        /\ f.targets \in SUBSET Target
    BY <1>0, InputFields
  <1>4. f.weekdays \in SUBSET Form!Weekday /\ f.months \in SUBSET Form!Months
    BY InputFields
  <1>5. start % 60 = 0 /\ end % 60 = 0 /\ f.time % 60 = 0
    BY <1>0, InputFields
  <1> HIDE DEF start, end
  <1>6. CASE f.recurrence = "once"
    <2> DEFINE v == Made(Form!Once, start + f.duration, start, 0, 0, {}, {}, 0)
    <2>1. Form!Payload(f) = v
      BY <1>6 DEF Form!Payload, Form!Blank, start, end
    <2>2. Form!Window(v)
      BY <1>1, <1>2, <1>3, <1>4, WholeEntry
    <2>3. Form!Tidy(v)
      BY <1>3, <1>5 DEF Form!Tidy
    <2> HIDE DEF v
    <2> QED BY <2>1, <2>2, <2>3 DEF Entry
  <1>7. CASE f.recurrence = "daily"
    <2> DEFINE v == Made(Form!Daily, end, 0, f.time, f.every, {}, {}, 0)
    <2>1. Form!Payload(f) = v
      BY <1>7 DEF Form!Payload, Form!Blank, start, end
    <2>2. Form!Window(v)
      BY <1>1, <1>2, <1>3, <1>4, WholeEntry
    <2>3. Form!Tidy(v)
      BY <1>3, <1>5 DEF Form!Tidy, Form!Once, Form!Daily
    <2> HIDE DEF v
    <2> QED BY <2>1, <2>2, <2>3 DEF Entry
  <1>8. CASE f.recurrence = "weekly"
    <2> DEFINE v == Made(Form!Weekly, end, 0, f.time, f.every, f.weekdays, {}, 0)
    <2>1. Form!Payload(f) = v
      BY <1>8 DEF Form!Payload, Form!Blank, start, end
    <2>2. Form!Window(v)
      BY <1>1, <1>2, <1>3, <1>4, WholeEntry
    <2>3. Form!Tidy(v)
      BY <1>3, <1>5 DEF Form!Tidy, Form!Once, Form!Daily, Form!Weekly
    <2> HIDE DEF v
    <2> QED BY <2>1, <2>2, <2>3 DEF Entry
  <1>9. CASE f.recurrence = "monthlyDay"
    <2> DEFINE v == Made(Form!Monthly, end, 0, f.time, 0, {}, Form!Months, f.day)
    <2>1. Form!Payload(f) = v
      BY <1>9 DEF Form!Payload, Form!Blank, start, end
    <2>2. Form!Window(v)
      BY <1>1, <1>3, <1>4, WholeEntry
    <2>3. Form!Tidy(v)
      BY <1>3, <1>5 DEF Form!Tidy, Form!Once, Form!Daily, Form!Monthly
    <2> HIDE DEF v
    <2> QED BY <2>1, <2>2, <2>3 DEF Entry
  <1>10. CASE f.recurrence = "monthlyWeekday"
    <2> DEFINE the == Form!TheOne(f.weekdays)
    <2>1. f.weekdays # {}
      BY <1>10 DEF Form!Accepted
    <2>2. {the} \in SUBSET Form!Weekday
      BY <2>1, InputFields DEF Form!TheOne
    <2> HIDE DEF the
    <2> DEFINE v == Made(Form!Monthly, end, 0, f.time, f.every, {the}, Form!Months, 0)
    <2>3. Form!Payload(f) = v
      BY <1>10 DEF Form!Payload, Form!Blank, start, end, the
    <2>4. Form!Window(v)
      BY <1>1, <1>2, <1>3, <1>4, <2>2, WholeEntry
    <2>5. Form!Tidy(v)
      BY <1>3, <1>5 DEF Form!Tidy, Form!Once, Form!Daily, Form!Monthly
    <2> HIDE DEF v
    <2> QED BY <2>3, <2>4, <2>5 DEF Entry
  <1>11. CASE f.recurrence = "yearly"
    <2> DEFINE the == Form!TheOne(f.months)
    <2>1. {the} \in SUBSET Form!Months
      BY <1>11, InputFields DEF Form!TheOne
    <2> HIDE DEF the
    <2> DEFINE v == Made(Form!Monthly, end, 0, f.time, 0, {}, {the}, f.day)
    <2>2. Form!Payload(f) = v
      BY <1>11 DEF Form!Payload, Form!Blank, start, end, the
    <2>3. Form!Window(v)
      BY <1>1, <1>3, <1>4, <2>1, WholeEntry
    <2>4. Form!Tidy(v)
      BY <1>3, <1>5 DEF Form!Tidy, Form!Once, Form!Daily, Form!Monthly
    <2> HIDE DEF v
    <2> QED BY <2>2, <2>3, <2>4 DEF Entry
  <1>12. f.recurrence \in Kind
    BY InputFields
  <1> QED BY <1>6, <1>7, <1>8, <1>9, <1>10, <1>11, <1>12 DEF Kind

\* The fields that a repeated plan depends on.
LEMMA OnePlan ==
  ASSUME NEW v, NEW w, v # Absent, w # Absent, v.type # Form!Once, w.type # Form!Once,
         Form!Recurrence(v) = Form!Recurrence(w),
         v.since = w.since, v.till = w.till, v.period = w.period, v.time = w.time,
         v.weekdays = w.weekdays, v.months = w.months, v.day = w.day, v.targets = w.targets,
         Form!Recurrence(w) \in {"monthlyDay", "yearly"} \/ v.every = w.every
  PROVE  Form!Plan(v) = Form!Plan(w)
  BY DEF Form!Plan

\* What the form shows of an entry that it shows exactly.
LEMMA DecodedFields ==
  ASSUME NEW w, Editable(w), Form!LengthShown(w), Form!Calm(w)
  PROVE  LET f == Form!Decoded(w)
         IN  /\ f.recurrence = Form!Recurrence(w) /\ f.duration = w.period
             /\ f.weekdays = w.weekdays /\ f.day = w.day /\ f.months = w.months
             /\ f.targets = w.targets
             /\ w.type = Form!Once => Form!FromLocal(f.start) = w.date
             /\ w.type # Form!Once => /\ Form!FromLocal(f.start) = w.since
                                      /\ Form!FromLocal(f.till) = w.till /\ f.time = w.time
             /\ w.type \in {Form!Daily, Form!Weekly, Form!Monthly} /\ w.every > 0 =>
                  f.every = w.every
  <1>1. Entry(w)
    BY DEF Editable
  <1>2. w.since \in Int /\ w.till \in Int /\ w.date \in Int /\ w.time \in Form!Clock
    BY <1>1, EntryFields
  <1>3. /\ w.type = Form!Once => w.date % 60 = 0
        /\ w.type # Form!Once => w.since % 60 = 0 /\ w.till % 60 = 0 /\ w.time % 60 = 0
    BY <1>1, EntryFields DEF Form!Tidy
  <1>4. /\ w.type = Form!Once => Form!FromLocal(Form!ToLocal(w.date)) = w.date
        /\ w.type # Form!Once => /\ Form!FromLocal(Form!ToLocal(w.since)) = w.since
                                 /\ Form!FromLocal(Form!ToLocal(w.till)) = w.till
                                 /\ Form!ToMinute(w.time) = w.time
    BY <1>2, <1>3, LocalTimesAreRead, ClockToTheMinute DEF Form!Calm
  <1> QED BY <1>4 DEF Form!Decoded, Form!LengthShown

\* What each recurrence sends.
LEMMA PayloadFields ==
  ASSUME NEW f
  PROVE  LET v == Form!Payload(f)
         IN  /\ f.recurrence = "once" =>
                  /\ v.type = Form!Once /\ v.since = Form!FromLocal(f.start) /\ v.date = v.since
                  /\ v.period = f.duration /\ v.till = v.since + f.duration
                  /\ v.targets = f.targets
             /\ f.recurrence \in Kind \ {"once"} =>
                  /\ v.since = Form!FromLocal(f.start) /\ v.till = Form!FromLocal(f.till)
                  /\ v.period = f.duration
                  /\ v.time = f.time /\ v.targets = f.targets
             /\ f.recurrence = "daily" =>
                  /\ v.type = Form!Daily /\ v.every = f.every
                  /\ v.weekdays = {} /\ v.months = {} /\ v.day = 0
             /\ f.recurrence = "weekly" =>
                  /\ v.type = Form!Weekly /\ v.every = f.every
                  /\ v.weekdays = f.weekdays /\ v.months = {} /\ v.day = 0
             /\ f.recurrence = "monthlyDay" =>
                  /\ v.type = Form!Monthly /\ v.weekdays = {} /\ v.months = Form!Months
                  /\ v.day = f.day
             /\ f.recurrence = "monthlyWeekday" =>
                  /\ v.type = Form!Monthly /\ v.every = f.every /\ v.day = 0
                  /\ v.weekdays = {Form!TheOne(f.weekdays)} /\ v.months = Form!Months
             /\ f.recurrence = "yearly" =>
                  /\ v.type = Form!Monthly /\ v.weekdays = {} /\ v.day = f.day
                  /\ v.months = {Form!TheOne(f.months)}
  BY DEF Form!Payload, Form!Blank, Kind

\* What the one function decodes, the other encodes.
LEMMA RoundTrip ==
  ASSUME NEW w, Editable(w), w # Absent, Form!Payload(Form!Decoded(w)) # Absent,
         Form!Whole(w), Form!LengthShown(w), Form!Calm(w)
  PROVE  Form!Plan(Form!Payload(Form!Decoded(w))) = Form!Plan(w)
  <1> DEFINE f == Form!Decoded(w)
             v == Form!Payload(f)
  <1>1. /\ w.since \in Int /\ w.till \in Int /\ w.date \in Int /\ w.period \in Nat
        /\ w.type \in {Form!Once, Form!Daily, Form!Weekly, Form!Monthly}
        /\ w.months \subseteq Form!Months /\ w.weekdays \subseteq Form!Weekday
    BY EntryFields DEF Editable
  <1>2. /\ f.recurrence = Form!Recurrence(w) /\ f.duration = w.period
        /\ f.weekdays = w.weekdays /\ f.day = w.day /\ f.months = w.months
        /\ f.targets = w.targets
        /\ w.type = Form!Once => Form!FromLocal(f.start) = w.date
        /\ w.type # Form!Once => /\ Form!FromLocal(f.start) = w.since
                                 /\ Form!FromLocal(f.till) = w.till /\ f.time = w.time
        /\ w.type \in {Form!Daily, Form!Weekly, Form!Monthly} /\ w.every > 0 => f.every = w.every
    BY DecodedFields
  <1>3. IsFiniteSet(w.months) /\ IsFiniteSet(w.weekdays)
    <2>1. 0 \in Int /\ 1 \in Int /\ 6 \in Int /\ 12 \in Int
      OBVIOUS
    <2>2. IsFiniteSet(Form!Months) /\ IsFiniteSet(Form!Weekday)
      BY <2>1, FS_Interval, Zenon DEF Form!Months, Form!Weekday
    <2> QED BY <1>1, <2>2, FS_Subset
  <1>4. w # Absent /\ v # Absent
    OBVIOUS
  <1> HIDE DEF f
  <1>5. CASE w.type = Form!Once
    <2>1. /\ v.type = Form!Once /\ v.since = w.date /\ v.date = w.date /\ v.period = w.period
          /\ v.till = w.date + w.period /\ v.targets = w.targets
      BY <1>2, <1>5, RecurrenceOf, PayloadFields DEF Kind
    <2>2. w.since <= w.date /\ w.date + w.period <= w.till
      BY <1>5 DEF Form!Whole
    <2> HIDE DEF v
    <2>3. Form!Plan(v) = [type |-> "once", from |-> w.date, till |-> w.date + w.period,
                          targets |-> w.targets]
      BY <1>1, <1>4, <2>1 DEF Form!Plan, Form!Greatest, Form!Least
    <2>4. Form!Plan(w) = [type |-> "once", from |-> w.date, till |-> w.date + w.period,
                          targets |-> w.targets]
      BY <1>1, <1>4, <1>5, <2>2 DEF Form!Plan, Form!Greatest, Form!Least
    <2> QED BY <2>3, <2>4 DEF v, f
  <1>6. CASE w.type = Form!Daily
    <2>1. Form!Recurrence(w) = "daily" /\ w.type # Form!Once /\ w.every > 0
      BY <1>6, RecurrenceOf, TypesDiffer, EntryFields DEF Editable, Form!Tidy
    <2>2. w.weekdays = {} /\ w.months = {} /\ w.day = 0
      BY <1>6, RecurrenceOf, TypesDiffer, EntryFields DEF Editable, Form!Tidy
    <2>3. /\ v.type = Form!Daily /\ v.since = w.since /\ v.till = w.till /\ v.period = w.period
          /\ v.time = w.time /\ v.every = w.every /\ v.targets = w.targets
          /\ v.weekdays = {} /\ v.months = {} /\ v.day = 0
      BY <1>2, <1>6, <2>1, PayloadFields DEF Kind
    <2>4. Form!Recurrence(v) = "daily" /\ v.type # Form!Once
      BY <2>3, RecurrenceOf, TypesDiffer
    <2> QED BY <1>4, <2>1, <2>2, <2>3, <2>4, OnePlan DEF f
  <1>7. CASE w.type = Form!Weekly
    <2>1. /\ Form!Recurrence(w) = "weekly" /\ w.type # Form!Once /\ w.every > 0
          /\ w.weekdays # {} /\ w.months = {} /\ w.day = 0
      BY <1>7, RecurrenceOf, TypesDiffer, EntryFields DEF Editable, Form!Tidy
    <2>2. /\ v.type = Form!Weekly /\ v.since = w.since /\ v.till = w.till /\ v.period = w.period
          /\ v.time = w.time /\ v.every = w.every /\ v.targets = w.targets
          /\ v.weekdays = w.weekdays /\ v.months = {} /\ v.day = 0
      BY <1>2, <1>7, <2>1, PayloadFields DEF Kind
    <2> HIDE DEF v
    <2>3. Form!Recurrence(v) = "weekly" /\ v.type # Form!Once
      BY <2>1, <2>2, RecurrenceOf, TypesDiffer
    <2> QED BY <1>4, <2>1, <2>2, <2>3, OnePlan DEF v, f
  <1>8. CASE w.type = Form!Monthly /\ w.weekdays # {}
    <2>1. /\ Form!Recurrence(w) = "monthlyWeekday" /\ w.type # Form!Once
          /\ Cardinality(w.weekdays) = 1 /\ w.months = Form!Months /\ w.every \in 1 .. 5
      BY <1>8, RecurrenceOf, TypesDiffer DEF Editable
    <2>2. w.every > 0 /\ w.day = 0
      BY <1>8, <2>1, TypesDiffer, EntryFields DEF Editable, Form!Tidy
    <2>3. w.weekdays = {Form!TheOne(w.weekdays)}
      BY <1>3, <2>1, OneOfOne
    <2>4. /\ v.type = Form!Monthly /\ v.since = w.since /\ v.till = w.till /\ v.period = w.period
          /\ v.time = w.time /\ v.every = w.every /\ v.targets = w.targets
          /\ v.weekdays = {Form!TheOne(w.weekdays)} /\ v.months = Form!Months /\ v.day = 0
      BY <1>2, <1>8, <2>1, <2>2, PayloadFields DEF Kind
    <2>5. Form!Recurrence(v) = "monthlyWeekday" /\ v.type # Form!Once
      BY <1>8, <2>1, <2>3, <2>4, RecurrenceOf, TypesDiffer
    <2> QED BY <1>4, <2>1, <2>2, <2>3, <2>4, <2>5, OnePlan DEF f
  <1>9. CASE w.type = Form!Monthly /\ w.weekdays = {}
    <2>1. CASE Cardinality(w.months) = 1
      <3>1. Form!Recurrence(w) = "yearly" /\ w.type # Form!Once /\ w.day # 0
        BY <1>9, <2>1, RecurrenceOf, TypesDiffer DEF Editable
      <3>2. w.months = {Form!TheOne(w.months)}
        BY <1>3, <2>1, OneOfOne
      <3>3. /\ v.type = Form!Monthly /\ v.since = w.since /\ v.till = w.till
            /\ v.period = w.period /\ v.time = w.time /\ v.targets = w.targets
            /\ v.weekdays = {} /\ v.months = {Form!TheOne(w.months)} /\ v.day = w.day
        BY <1>2, <1>9, <3>1, PayloadFields DEF Kind
      <3>4. Form!Recurrence(v) = "yearly" /\ v.type # Form!Once
        BY <2>1, <3>1, <3>2, <3>3, RecurrenceOf, TypesDiffer
      <3> QED BY <1>4, <1>9, <3>1, <3>2, <3>3, <3>4, OnePlan DEF f
    <2>2. CASE Cardinality(w.months) # 1
      <3>1. /\ Form!Recurrence(w) = "monthlyDay" /\ w.type # Form!Once /\ w.day # 0
            /\ w.months = Form!Months
        BY <1>9, <2>2, RecurrenceOf, TypesDiffer DEF Editable
      <3>2. /\ v.type = Form!Monthly /\ v.since = w.since /\ v.till = w.till
            /\ v.period = w.period /\ v.time = w.time /\ v.targets = w.targets
            /\ v.weekdays = {} /\ v.months = Form!Months /\ v.day = w.day
        BY <1>2, <1>9, <3>1, PayloadFields DEF Kind
      <3>3. Form!Recurrence(v) = "monthlyDay" /\ v.type # Form!Once
        BY <2>2, <3>1, <3>2, RecurrenceOf, TypesDiffer
      <3> QED BY <1>4, <1>9, <3>1, <3>2, <3>3, OnePlan DEF f
    <2> QED BY <2>1, <2>2
  <1> QED BY <1>1, <1>5, <1>6, <1>7, <1>8, <1>9

\* The form for an entry, or for a new one.
FormOf(w, f, touched) == [of |-> w, input |-> f, touched |-> touched]

\* An untouched form holds what the entry was decoded to, a request for one what
\* that is encoded to; and whatever Zabbix may get is an entry.
FormInv ==
  /\ c1 = Absent \/ Entry(c1)
  /\ c2 = Absent \/ Entry(c2)
  /\ c3 = FormOf(c3.of, c3.input, c3.touched) /\ Input(c3.input)
  /\ c3.of # Absent =>
       Editable(c3.of) /\ (~c3.touched => c3.input = Form!Decoded(c3.of))
  /\ c4 # Closed =>
       /\ DOMAIN c4 = {"kind", "of", "touched", "done", "payload"}
       /\ c4.kind \in {"create", "update", "delete"}
       /\ Form!Window(c4.payload)
       /\ c4.kind # "delete" => Entry(c4.payload)
       /\ c4.kind = "update" =>
            /\ Editable(c4.of)
            /\ ~c4.touched => c4.payload = Form!Payload(Form!Decoded(c4.of))

\* The page opens with a new form.
LEMMA FormInit == Form!MaintenanceAssumption /\ Form!Init => FormInv
  <1> SUFFICES ASSUME Form!MaintenanceAssumption, Form!Init PROVE FormInv
    OBVIOUS
  <1>1. c1 = Absent \/ Entry(c1)
    BY DEF Form!Init, Form!MaintenanceAssumption, Entry
  <1>2. c2 = c1 /\ c3 = FormOf(Absent, Form!NewForm, FALSE) /\ c4 = Closed
    BY DEF Form!Init, FormOf
  <1> QED BY <1>1, <1>2, NewFormIsInput DEF FormInv, FormOf

\* A removal sends an empty entry along.
LEMMA BlankIsWindow == Form!Window(Form!Blank)
  BY DEF Form!Window, Form!Blank, Form!Once, Form!Daily, Form!Weekly, Form!Monthly, Form!Clock,
         Form!Weekday, Form!Months, Form!MonthDay

\* One step for each action of the page.
LEMMA FormStep ==
  ASSUME Form!MaintenanceAssumption, FormInv, [Form!Next]_(Form!vars)
  PROVE  FormInv'
  <1>0. Input(Form!NewForm)
    BY NewFormIsInput
  <1> DEFINE new == FormOf(Absent, Form!NewForm, FALSE)
  <1>1. CASE UNCHANGED Form!vars
    BY <1>1 DEF FormInv, Form!vars
  <1>2. CASE Form!Elsewhere
    BY <1>2 DEF FormInv, Form!Elsewhere
  <1>3. CASE Form!Poll
    <2>1. c2' = c1 /\ c3' \in {c3, new} /\ UNCHANGED <<c1, c4>>
      BY <1>3 DEF Form!Poll, FormOf
    <2> QED BY <1>0, <2>1 DEF FormInv, FormOf
  <1>4. CASE Form!Edit
    <2>1. /\ c2 # Absent /\ Form!Recurrence(c2) # "none"
          /\ c3' = FormOf(c2, Form!Decoded(c2), FALSE) /\ UNCHANGED <<c1, c2, c4>>
      BY <1>4 DEF Form!Edit, FormOf
    <2>2. Editable(c2)
      BY <2>1 DEF FormInv, Editable
    <2>3. Input(Form!Decoded(c2))
      BY <2>2, DecodedIsInput
    <2> QED BY <2>1, <2>2, <2>3 DEF FormInv, FormOf
  <1>5. CASE Form!CancelEdit
    <2>1. c3' = new /\ UNCHANGED <<c1, c2, c4>>
      BY <1>5 DEF Form!CancelEdit, FormOf
    <2> QED BY <1>0, <2>1 DEF FormInv, FormOf
  <1>6. CASE Form!Fill
    <2>1. PICK f \in {[c3.input EXCEPT !.duration = n * 60] : n \in Minutes}
                       \cup {[c3.input EXCEPT !.targets = T] : T \in SUBSET Target} :
            c3' = [c3 EXCEPT !.input = f, !.touched = TRUE]
      BY <1>6, Zenon DEF Form!Fill
    <2>2. Input(f)
      <3>1. ASSUME NEW n \in Minutes PROVE Input([c3.input EXCEPT !.duration = n * 60])
        <4>1. n * 60 \in Nat
          BY DEF Form!MaintenanceAssumption
        <4> QED BY <4>1 DEF FormInv, Input
      <3>2. ASSUME NEW T \in SUBSET Target PROVE Input([c3.input EXCEPT !.targets = T])
        BY DEF FormInv, Input
      <3> QED BY <2>1, <3>1, <3>2
    <2>3. c3' = FormOf(c3.of, f, TRUE)
      BY <2>1 DEF FormInv, FormOf
    <2>4. UNCHANGED <<c1, c2, c4>>
      BY <1>6 DEF Form!Fill
    <2> QED BY <2>2, <2>3, <2>4 DEF FormInv, FormOf
  <1>7. CASE Form!Submit
    <2>1. /\ c4' = [kind |-> IF c3.of = Absent THEN "create" ELSE "update", of |-> c3.of,
                    touched |-> c3.touched, done |-> FALSE, payload |-> Form!Payload(c3.input)]
          /\ Form!Accepted(c3.input) /\ UNCHANGED <<c1, c2, c3>>
      BY <1>7 DEF Form!Submit
    <2>2. Entry(Form!Payload(c3.input))
      BY <2>1, PayloadIsEntry DEF FormInv
    <2>3. Form!Window(Form!Payload(c3.input))
      BY <2>2 DEF Entry
    <2> QED BY <2>1, <2>2, <2>3 DEF FormInv
  <1>8. CASE Form!Delete
    <2>1. Form!Window(Form!Blank)
      BY BlankIsWindow
    <2> QED BY <1>8, <2>1 DEF FormInv, Form!Delete
  <1>9. CASE Form!Execute
    <2>1. /\ c1' \in {c1, c4.payload, Absent} /\ (c4.kind = "delete" => c1' = Absent)
          /\ c4 # Closed /\ c4' = [c4 EXCEPT !.done = TRUE] /\ UNCHANGED <<c2, c3>>
      BY <1>9 DEF Form!Execute, FormInv
    <2> QED BY <2>1 DEF FormInv
  <1>10. CASE Form!Answer
    <2>1. c4' = Closed /\ c3' \in {c3, new} /\ UNCHANGED <<c1, c2>>
      BY <1>10 DEF Form!Answer, FormOf
    <2> QED BY <1>0, <2>1 DEF FormInv, FormOf
  <1> QED
    BY <1>1, <1>2, <1>3, <1>4, <1>5, <1>6, <1>7, <1>8, <1>9, <1>10 DEF Form!Next

\* An untouched save sends the decoded entry encoded again.
LEMMA SavesKeepThePlan ==
  ASSUME Form!MaintenanceAssumption, FormInv
  PROVE  Form!PlanKept
  <1> SUFFICES ASSUME Form!UntouchedSave, Form!Whole(c4.of), Form!LengthShown(c4.of),
                      Form!Calm(c4.of), c1 # Absent
               PROVE  Form!Plan(c1') = Form!Plan(c4.of)
    BY DEF Form!PlanKept, Form!KeptBy
  <1>1. c4 # Closed /\ c4.kind = "update" /\ ~c4.touched /\ c1' = c4.payload
    BY DEF Form!UntouchedSave, Form!Execute
  <1>2. Entry(c4.payload) /\ Editable(c4.of) /\ c4.payload = Form!Payload(Form!Decoded(c4.of))
    BY <1>1 DEF FormInv
  <1>3. c4.payload # Absent /\ c4.of # Absent
    BY <1>2 DEF Editable, Entry, Form!MaintenanceAssumption
  <1> QED BY <1>1, <1>2, <1>3, RoundTrip

\* A maintenance that is opened and saved untouched is in force when it was, for
\* every entry that the form can show, of every recurrence and of any length the form
\* shows exactly, whose times are a day or more from a change of the local clock:
\* through that clock and back they are read as they were
\* (maintenance.ts:139-392, CreateMaintenanceForm.tsx:24-247).
THEOREM UntouchedSavesAreHarmless == PagesSpec => UntouchedSaveIsHarmless
  <1> DEFINE Inv == about = "maintenance" => FormInv
  <1>1. PagesInit => Inv
    BY PagesAssumption, FormInit DEF PagesInit
  <1>2. Inv /\ [PagesNext]_all => Inv'
    <2>1. [PagesNext]_all => about' = about
      BY DEF PagesNext, Rest, all
    <2>2. about = "maintenance" /\ [PagesNext]_all => [Form!Next]_(Form!vars)
      BY DEF PagesNext, all, Form!vars
    <2> QED BY <2>1, <2>2, PagesAssumption, FormStep
  <1>3. Inv => (about = "maintenance" => Form!PlanKept)
    BY PagesAssumption, SavesKeepThePlan
  <1> QED BY <1>1, <1>2, <1>3, PTL DEF PagesSpec, UntouchedSaveIsHarmless

-----------------------------------------------------------------------------
(* What Array.prototype.filter keeps of a sequence: its elements of a set, *)
(* in their order, and nothing else; of two sequences, one after the other.*)

\* A set of some of the first numbers has a least.
LEMMA OneIsLeast ==
  ASSUME NEW n \in Nat, NEW B \in SUBSET (0..n), B # {}
  PROVE  \E x \in B : \A y \in B : x <= y
  <1> DEFINE up == {p \in B \X B : p[1] < p[2]}
  <1>1. \A x, y \in B : <<x, y>> \in up <=> x < y
    BY Zenon
  <1>2. IsFiniteSet(B)
    <2>1. IsFiniteSet(0..n)
      <3>1. 0 \in Int /\ n \in Int
        OBVIOUS
      <3> QED BY <3>1, FS_Interval
    <2> QED BY <2>1, FS_Subset
  <1> HIDE DEF up
  <1>3. B \subseteq Int
    OBVIOUS
  <1>4. Strict(B, up) /\ Total(B, up)
    BY <1>1, <1>3 DEF Strict, Total
  <1>5. PICK x \in B : \A y \in B : <<y, x>> \notin up
    BY <1>2, <1>4, OneIsFirst
  <1>6. ASSUME NEW y \in B PROVE x <= y
    <2>1. ~(y < x) /\ x \in Int /\ y \in Int
      BY <1>1, <1>3, <1>5
    <2> QED BY <2>1
  <1> QED BY <1>6

\* The elements of s in S after each of the first k of s.
Filtering(f, s, S, k) ==
  /\ DOMAIN f = 0..k /\ f[0] = <<>>
  /\ \A n \in 1..k : f[n] = IF s[n] \in S THEN Append(f[n - 1], s[n]) ELSE f[n - 1]

\* There is such a function, by the least place where there is none.
LEMMA FilteringExists ==
  ASSUME NEW s, NEW S, NEW c \in Nat
  PROVE  \E f : f = [n \in 0..c |-> f[n]] /\ Filtering(f, s, S, c)
  <1> DEFINE Good(k) == \E f : f = [n \in 0..k |-> f[n]] /\ Filtering(f, s, S, k)
             Bad     == {k \in 0..c : ~Good(k)}
  <1>1. ASSUME Bad # {} PROVE FALSE
    <2>1. PICK x \in Bad : \A y \in Bad : x <= y
      <3>1. Bad \in SUBSET (0..c)
        OBVIOUS
      <3> HIDE DEF Bad
      <3> QED BY <1>1, <3>1, OneIsLeast
    <2>2. CASE x = 0
      <3>1. Filtering([n \in 0..0 |-> <<>>], s, S, 0)
        BY DEF Filtering
      <3> QED BY <2>2, <3>1
    <2>3. CASE x # 0
      <3>1. x \in 1..c /\ x - 1 \in 0..c
        BY <2>3
      <3>2. Good(x - 1)
        <4> HIDE DEF Good
        <4> QED BY <2>1, <3>1
      <3>3. PICK f : Filtering(f, s, S, x - 1)
        BY <3>2
      <3> DEFINE g == [n \in 0..x |-> IF n < x THEN f[n]
                                      ELSE IF s[x] \in S THEN Append(f[x - 1], s[x]) ELSE f[x - 1]]
      <3>4. g[0] = <<>>
        BY <3>1, <3>3 DEF Filtering
      <3>5. ASSUME NEW n \in 1..x
            PROVE  g[n] = IF s[n] \in S THEN Append(g[n - 1], s[n]) ELSE g[n - 1]
        <4>1. n - 1 \in 0..x /\ n - 1 < x /\ n \in 0..x
          BY <3>1
        <4>2. g[n - 1] = f[n - 1]
          BY <4>1
        <4>3. CASE n < x
          <5>1. n \in 1..x - 1 /\ g[n] = f[n]
            BY <4>1, <4>3, <3>1
          <5> HIDE DEF g
          <5> QED BY <5>1, <4>2, <3>3 DEF Filtering
        <4>4. CASE n = x
          <5>1. g[n] = IF s[x] \in S THEN Append(f[x - 1], s[x]) ELSE f[x - 1]
            BY <4>1, <4>4
          <5> HIDE DEF g
          <5> QED BY <5>1, <4>2, <4>4
        <4> QED BY <4>3, <4>4, <3>1
      <3>6. DOMAIN g = 0..x /\ g = [n \in 0..x |-> g[n]]
        OBVIOUS
      <3> HIDE DEF g
      <3>7. Good(x)
        BY <3>4, <3>5, <3>6 DEF Filtering
      <3> HIDE DEF Good
      <3> QED BY <2>1, <3>7
    <2> QED BY <2>2, <2>3
  <1>2. c \in 0..c
    OBVIOUS
  <1> QED BY <1>1, <1>2

\* It is one function.
LEMMA FilteringIsOne ==
  ASSUME NEW s, NEW S, NEW c \in Nat, NEW f, Filtering(f, s, S, c), NEW g, Filtering(g, s, S, c)
  PROVE  f[c] = g[c]
  <1> DEFINE Bad == {k \in 0..c : f[k] # g[k]}
  <1>1. ASSUME Bad # {} PROVE FALSE
    <2>1. PICK x \in Bad : \A y \in Bad : x <= y
      <3>1. Bad \in SUBSET (0..c)
        OBVIOUS
      <3> HIDE DEF Bad
      <3> QED BY <1>1, <3>1, OneIsLeast
    <2>2. x # 0
      BY DEF Filtering
    <2>3. x \in 1..c /\ x - 1 \in 0..c /\ x - 1 < x
      BY <2>2
    <2>4. f[x - 1] = g[x - 1]
      BY <2>1, <2>3
    <2> QED BY <2>3, <2>4 DEF Filtering
  <1> QED BY <1>1

\* It is what the filter computes.
LEMMA KeptIs ==
  ASSUME NEW X, NEW s \in Seq(X), NEW S
  PROVE  /\ \E f : Filtering(f, s, S, Len(s)) /\ Bar!Kept(s, S) = f[Len(s)]
         /\ \A f : Filtering(f, s, S, Len(s)) => Bar!Kept(s, S) = f[Len(s)]
  <1> DEFINE step(f) == [n \in 0..Len(s) |->
                           IF n = 0 THEN <<>>
                           ELSE IF s[n] \in S THEN Append(f[n - 1], s[n]) ELSE f[n - 1]]
             f == CHOOSE f : f = step(f)
  <1>1. Bar!Kept(s, S) = f[Len(s)]
    BY DEF Bar!Kept
  <1>2. Len(s) \in Nat
    OBVIOUS
  <1>3. \E g : g = step(g)
    <2>1. PICK g : g = [n \in 0..Len(s) |-> g[n]] /\ Filtering(g, s, S, Len(s))
      BY <1>2, FilteringExists
    <2>2. \A n \in 0..Len(s) : g[n] = step(g)[n]
      <3>1. \A n \in 0..Len(s) : n # 0 => n \in 1..Len(s)
        BY <1>2
      <3> QED BY <2>1, <3>1 DEF Filtering
    <2>3. step(g) = [n \in 0..Len(s) |-> step(g)[n]]
      OBVIOUS
    <2> HIDE DEF step
    <2>4. g = step(g)
      BY <2>1, <2>2, <2>3
    <2> QED BY <2>4
  <1>4. f = step(f)
    <2> HIDE DEF step
    <2> QED BY <1>3
  <1> HIDE DEF f
  <1>5. Filtering(f, s, S, Len(s))
    <2>1. f[0] = <<>> /\ DOMAIN f = 0..Len(s)
      BY <1>2, <1>4
    <2>2. ASSUME NEW n \in 1..Len(s)
          PROVE  f[n] = IF s[n] \in S THEN Append(f[n - 1], s[n]) ELSE f[n - 1]
      <3>1. n \in 0..Len(s) /\ n # 0
        OBVIOUS
      <3> QED BY <1>4, <3>1
    <2> QED BY <2>1, <2>2 DEF Filtering
  <1> QED BY <1>1, <1>2, <1>5, FilteringIsOne

\* What is filtered of the first k is of both sets, and no longer than k.
LEMMA FilteringIsTyped ==
  ASSUME NEW X, NEW s \in Seq(X), NEW S, NEW f, Filtering(f, s, S, Len(s)), NEW k \in 0..Len(s)
  PROVE  f[k] \in Seq(X \cap S) /\ Len(f[k]) <= k
  <1> DEFINE Bad == {j \in 0..Len(s) : ~(f[j] \in Seq(X \cap S) /\ Len(f[j]) <= j)}
  <1>1. ASSUME Bad # {} PROVE FALSE
    <2>1. PICK x \in Bad : \A y \in Bad : x <= y
      <3>1. Bad \in SUBSET (0..Len(s)) /\ Len(s) \in Nat
        OBVIOUS
      <3> HIDE DEF Bad
      <3> QED BY <1>1, <3>1, OneIsLeast
    <2>2. x # 0
      <3>1. f[0] = <<>> /\ <<>> \in Seq(X \cap S) /\ Len(<<>>) = 0
        BY EmptySeq DEF Filtering
      <3>2. f[0] \in Seq(X \cap S) /\ Len(f[0]) <= 0
        BY <3>1
      <3>3. ~(f[x] \in Seq(X \cap S) /\ Len(f[x]) <= x)
        BY <2>1
      <3> QED BY <3>2, <3>3
    <2>3. x \in 1..Len(s) /\ x - 1 \in 0..Len(s) /\ x - 1 < x
      BY <2>2
    <2>4. f[x - 1] \in Seq(X \cap S) /\ Len(f[x - 1]) <= x - 1
      BY <2>1, <2>3
    <2>5. f[x] = IF s[x] \in S THEN Append(f[x - 1], s[x]) ELSE f[x - 1]
      BY <2>3 DEF Filtering
    <2>6. s[x] \in X
      BY <2>3
    <2>7. s[x] \in S => Append(f[x - 1], s[x]) \in Seq(X \cap S)
                        /\ Len(Append(f[x - 1], s[x])) = Len(f[x - 1]) + 1
      BY <2>4, <2>6
    <2>8. f[x] \in Seq(X \cap S) /\ Len(f[x]) <= x
      <3>1. Len(f[x - 1]) \in Nat /\ x \in Nat
        BY <2>3, <2>4
      <3> QED BY <2>4, <2>5, <2>7, <3>1
    <2> QED BY <2>1, <2>8
  <1> QED BY <1>1

\* What is kept is of both sets and no longer.
LEMMA KeptIsTyped ==
  ASSUME NEW X, NEW s \in Seq(X), NEW S
  PROVE  Bar!Kept(s, S) \in Seq(X \cap S) /\ Len(Bar!Kept(s, S)) <= Len(s)
  <1>1. PICK f : Filtering(f, s, S, Len(s)) /\ Bar!Kept(s, S) = f[Len(s)]
    BY KeptIs
  <1>2. Len(s) \in 0..Len(s)
    OBVIOUS
  <1> QED BY <1>1, <1>2, FilteringIsTyped

\* All of them, or none.
LEMMA AllIsKept ==
  ASSUME NEW X, NEW s \in Seq(X), NEW S, X \subseteq S
  PROVE  Bar!Kept(s, S) = s
  <1> DEFINE f == [k \in 0..Len(s) |-> SubSeq(s, 1, k)]
  <1>1. f[0] = <<>> /\ DOMAIN f = 0..Len(s)
    OBVIOUS
  <1>2. ASSUME NEW n \in 1..Len(s) PROVE f[n] = Append(f[n - 1], s[n])
    <2>1. n \in 0..Len(s) /\ n - 1 \in 0..Len(s) /\ n \in Nat
      OBVIOUS
    <2>2. SubSeq(s, 1, n) \in Seq(X) /\ Len(SubSeq(s, 1, n)) = n
          /\ \A i \in 1..n : SubSeq(s, 1, n)[i] = s[i]
      BY <2>1
    <2>3. SubSeq(s, 1, n - 1) \in Seq(X) /\ Len(SubSeq(s, 1, n - 1)) = n - 1
          /\ \A i \in 1..n - 1 : SubSeq(s, 1, n - 1)[i] = s[i]
      BY <2>1
    <2>4. s[n] \in X
      OBVIOUS
    <2>5. Append(SubSeq(s, 1, n - 1), s[n]) \in Seq(X)
          /\ Len(Append(SubSeq(s, 1, n - 1), s[n])) = n
          /\ \A i \in 1..n : Append(SubSeq(s, 1, n - 1), s[n])[i] = s[i]
      BY <2>1, <2>3, <2>4
    <2> DEFINE a == SubSeq(s, 1, n)
               b == Append(SubSeq(s, 1, n - 1), s[n])
    <2>6. a \in Seq(X) /\ b \in Seq(X) /\ Len(a) = Len(b) /\ \A i \in 1..Len(a) : a[i] = b[i]
      BY <2>2, <2>5
    <2>8. f[n] = a /\ Append(f[n - 1], s[n]) = b
      BY <2>1
    <2> HIDE DEF a, b, f
    <2>7. a = b
      BY <2>6, SeqEqual
    <2> QED BY <2>7, <2>8
  <1>3. \A n \in 1..Len(s) : s[n] \in S
    OBVIOUS
  <1>4. f[Len(s)] = s
    <2>1. SubSeq(s, 1, Len(s)) = s
      OBVIOUS
    <2> QED BY <2>1
  <1> HIDE DEF f
  <1>5. Filtering(f, s, S, Len(s))
    BY <1>1, <1>2, <1>3 DEF Filtering
  <1> QED BY <1>4, <1>5, KeptIs

\* None, when none is of the set.
LEMMA NoneIsKept ==
  ASSUME NEW X, NEW s \in Seq(X), NEW S, X \cap S = {}
  PROVE  Bar!Kept(s, S) = <<>>
  <1>1. Bar!Kept(s, S) \in Seq({})
    BY KeptIsTyped
  <1> QED BY <1>1, EmptySeq

\* What is kept of two, one after the other.
LEMMA KeptOfBoth ==
  ASSUME NEW X, NEW s \in Seq(X), NEW t \in Seq(X), NEW S
  PROVE  Bar!Kept(s \o t, S) = Bar!Kept(s, S) \o Bar!Kept(t, S)
  <1>1. PICK f : Filtering(f, s, S, Len(s)) /\ Bar!Kept(s, S) = f[Len(s)]
    BY KeptIs
  <1>2. PICK g : Filtering(g, t, S, Len(t)) /\ Bar!Kept(t, S) = g[Len(t)]
    BY KeptIs
  <1>3. s \o t \in Seq(X) /\ Len(s \o t) = Len(s) + Len(t) /\ Len(s) \in Nat /\ Len(t) \in Nat
    OBVIOUS
  <1>4. \A k \in 0..Len(t) : g[k] \in Seq(X)
    <2>1. \A k \in 0..Len(t) : g[k] \in Seq(X \cap S)
      BY <1>2, FilteringIsTyped
    <2> QED BY <2>1
  <1>5. f[Len(s)] \in Seq(X)
    <2>1. Len(s) \in 0..Len(s)
      BY <1>3
    <2>2. f[Len(s)] \in Seq(X \cap S)
      BY <1>1, <2>1, FilteringIsTyped
    <2> QED BY <2>2
  <1> DEFINE h == [k \in 0..Len(s) + Len(t) |->
                     IF k <= Len(s) THEN f[k] ELSE f[Len(s)] \o g[k - Len(s)]]
  <1>6. \A k \in 0..Len(t) : h[Len(s) + k] = f[Len(s)] \o g[k]
    <2> TAKE k \in 0..Len(t)
    <2>1. Len(s) + k \in 0..Len(s) + Len(t) /\ Len(s) + k - Len(s) = k
      BY <1>3
    <2>2. h[Len(s) + k] = IF Len(s) + k <= Len(s) THEN f[Len(s) + k]
                          ELSE f[Len(s)] \o g[Len(s) + k - Len(s)]
      BY <2>1
    <2> HIDE DEF h
    <2>3. CASE k = 0
      <3>1. g[0] = <<>> /\ f[Len(s)] \o <<>> = f[Len(s)]
        BY <1>2, <1>5 DEF Filtering
      <3>2. Len(s) + 0 = Len(s)
        BY <1>3
      <3> QED BY <2>2, <2>3, <3>1, <3>2
    <2>4. CASE k # 0
      <3>1. ~(Len(s) + k <= Len(s))
        BY <1>3, <2>4
      <3> QED BY <2>1, <2>2, <3>1
    <2> QED BY <2>3, <2>4
  <1>7. h[0] = <<>> /\ DOMAIN h = 0..Len(s \o t)
    BY <1>1, <1>3 DEF Filtering
  <1>8. \A n \in 0..Len(s) : h[n] = f[n]
    BY <1>3
  <1> HIDE DEF h
  <1>9. ASSUME NEW n \in 1..Len(s \o t)
        PROVE  h[n] = IF (s \o t)[n] \in S THEN Append(h[n - 1], (s \o t)[n]) ELSE h[n - 1]
    <2>1. CASE n <= Len(s)
      <3>1. n \in 1..Len(s) /\ n \in 0..Len(s) /\ n - 1 \in 0..Len(s) /\ (s \o t)[n] = s[n]
        BY <1>3, <2>1
      <3> QED BY <3>1, <1>1, <1>8 DEF Filtering
    <2>2. CASE n > Len(s)
      <3> DEFINE k == n - Len(s)
      <3>1. /\ k \in 1..Len(t) /\ k \in 0..Len(t) /\ k - 1 \in 0..Len(t)
            /\ n = Len(s) + k /\ n - 1 = Len(s) + (k - 1)
        BY <1>3, <2>2
      <3>2. (s \o t)[n] = t[k] /\ t[k] \in X
        BY <1>3, <2>2, <3>1
      <3> HIDE DEF k
      <3>3. h[n] = f[Len(s)] \o g[k] /\ h[n - 1] = f[Len(s)] \o g[k - 1]
        BY <3>1, <1>6
      <3>4. g[k] = IF t[k] \in S THEN Append(g[k - 1], t[k]) ELSE g[k - 1]
        BY <3>1, <1>2 DEF Filtering
      <3>5. f[Len(s)] \o Append(g[k - 1], t[k]) = Append(f[Len(s)] \o g[k - 1], t[k])
        <4>1. g[k - 1] \in Seq(X)
          BY <3>1, <1>4
        <4> DEFINE a == f[Len(s)]
                   b == g[k - 1]
                   e == t[k]
        <4>2. a \in Seq(X) /\ b \in Seq(X) /\ e \in X
          BY <1>5, <4>1, <3>2
        <4> HIDE DEF a, b, e
        <4>3. a \o Append(b, e) = Append(a \o b, e)
          <5>1. Append(b, e) = b \o <<e>> /\ Append(a \o b, e) = (a \o b) \o <<e>>
            BY <4>2
          <5>2. a \o (b \o <<e>>) = (a \o b) \o <<e>>
            BY <4>2, ConcatAssociative
          <5> QED BY <5>1, <5>2
        <4> QED BY <4>3 DEF a, b, e
      <3> QED BY <3>2, <3>3, <3>4, <3>5
    <2> QED BY <2>1, <2>2, <1>3
  <1>10. Filtering(h, s \o t, S, Len(s \o t))
    BY <1>7, <1>9 DEF Filtering
  <1>11. Bar!Kept(s \o t, S) = h[Len(s \o t)]
    BY <1>10, <1>3, KeptIs
  <1>12. h[Len(s \o t)] = f[Len(s)] \o g[Len(t)]
    <2>1. Len(t) \in 0..Len(t)
      BY <1>3
    <2> QED BY <1>3, <1>6, <2>1
  <1> QED BY <1>1, <1>2, <1>11, <1>12

\* Nothing is kept of a sequence without elements of the set, and of no other.
LEMMA NothingKept ==
  ASSUME NEW X, NEW s \in Seq(X), NEW S, Bar!Kept(s, S) = <<>>
  PROVE  s \in Seq(X \ S)
  <1>1. PICK f : Filtering(f, s, S, Len(s)) /\ Bar!Kept(s, S) = f[Len(s)]
    BY KeptIs
  <1> DEFINE Good == {k \in 0..Len(s) : f[Len(s) - k] = <<>>}
             Bad  == {k \in 0..Len(s) : f[Len(s) - k] # <<>>}
  <1>2. ASSUME Bad # {} PROVE FALSE
    <2>1. PICK x \in Bad : \A y \in Bad : x <= y
      <3>1. Bad \in SUBSET (0..Len(s)) /\ Len(s) \in Nat
        OBVIOUS
      <3> HIDE DEF Bad
      <3> QED BY <1>2, <3>1, OneIsLeast
    <2>2. x # 0
      BY <1>1
    <2>3. /\ x - 1 \in 0..Len(s) /\ x - 1 < x /\ Len(s) - (x - 1) \in 1..Len(s)
          /\ (Len(s) - (x - 1)) - 1 = Len(s) - x /\ Len(s) - x \in 0..Len(s)
      BY <2>2
    <2>4. f[Len(s) - (x - 1)] = <<>>
      BY <2>1, <2>3
    <2> DEFINE n == Len(s) - (x - 1)
    <2>5. f[n] = IF s[n] \in S THEN Append(f[n - 1], s[n]) ELSE f[n - 1]
      BY <2>3, <1>1 DEF Filtering
    <2>6. f[n - 1] \in Seq(X) /\ s[n] \in X
      <3>1. f[n - 1] \in Seq(X \cap S)
        BY <2>3, <1>1, FilteringIsTyped
      <3> QED BY <3>1, <2>3
    <2>7. Append(f[n - 1], s[n]) # <<>>
      BY <2>6
    <2>8. n - 1 = Len(s) - x
      BY <2>3
    <2> QED BY <2>1, <2>4, <2>5, <2>7, <2>8
  <1>3. \A k \in 0..Len(s) : f[k] = <<>>
    <2> TAKE k \in 0..Len(s)
    <2>1. Len(s) - k \in 0..Len(s) /\ Len(s) - (Len(s) - k) = k
      OBVIOUS
    <2> QED BY <1>2, <2>1
  <1>4. ASSUME NEW n \in 1..Len(s) PROVE s[n] \in X \ S
    <2>1. f[n] = IF s[n] \in S THEN Append(f[n - 1], s[n]) ELSE f[n - 1]
      BY <1>1 DEF Filtering
    <2>2. n \in 0..Len(s) /\ n - 1 \in 0..Len(s) /\ s[n] \in X
      OBVIOUS
    <2>3. Append(<<>>, s[n]) # <<>>
      OBVIOUS
    <2> QED BY <1>3, <2>1, <2>2, <2>3
  <1> QED
    <2>1. s = [n \in 1..Len(s) |-> s[n]] /\ Len(s) \in Nat
      OBVIOUS
    <2> QED BY <1>4, <2>1

\* What is kept comes in the order it had.
LEMMA KeptInOrder ==
  ASSUME NEW X, NEW s \in Seq(X), NEW S, NEW R,
         \A n \in 1..Len(s) : \A m \in 1..n - 1 : <<s[m], s[n]>> \in R
  PROVE  \A n \in 1..Len(Bar!Kept(s, S)) : \A m \in 1..n - 1 :
           <<Bar!Kept(s, S)[m], Bar!Kept(s, S)[n]>> \in R
  <1>1. PICK f : Filtering(f, s, S, Len(s)) /\ Bar!Kept(s, S) = f[Len(s)]
    BY KeptIs
  <1> DEFINE From(j)  == \A n \in 1..Len(f[j]) : \E k \in 1..j : f[j][n] = s[k]
             InRow(j) == \A n \in 1..Len(f[j]) : \A m \in 1..n - 1 : <<f[j][m], f[j][n]>> \in R
             Bad == {j \in 0..Len(s) : ~(From(j) /\ InRow(j))}
  <1>2. ASSUME Bad # {} PROVE FALSE
    <2>1. PICK x \in Bad : \A y \in Bad : x <= y
      <3>1. Bad \in SUBSET (0..Len(s)) /\ Len(s) \in Nat
        OBVIOUS
      <3> HIDE DEF Bad
      <3> QED BY <1>2, <3>1, OneIsLeast
    <2>2. x # 0
      <3>1. f[0] = <<>> /\ 1..0 = {} /\ Len(<<>>) = 0
        BY <1>1 DEF Filtering
      <3>2. From(0) /\ InRow(0)
        BY <3>1
      <3> HIDE DEF From, InRow
      <3> QED BY <2>1, <3>2
    <2>3. x \in 1..Len(s) /\ x - 1 \in 0..Len(s) /\ x - 1 < x /\ x \in Nat
      BY <2>2
    <2>4. From(x - 1) /\ InRow(x - 1)
      <3> HIDE DEF From, InRow
      <3> QED BY <2>1, <2>3
    <2> DEFINE g == f[x - 1]
               e == s[x]
    <2>5. g \in Seq(X) /\ e \in X
      <3>1. g \in Seq(X \cap S)
        BY <1>1, <2>3, FilteringIsTyped
      <3> QED BY <2>3, <3>1
    <2>6. f[x] = IF e \in S THEN Append(g, e) ELSE g
      BY <1>1, <2>3 DEF Filtering
    <2>7. \A n \in 1..Len(g) : (\E k \in 1..x - 1 : g[n] = s[k])
                               /\ \A m \in 1..n - 1 : <<g[m], g[n]>> \in R
      BY <2>4
    <2> HIDE DEF g
    <2>8. From(x) /\ InRow(x)
      <3>1. CASE e \notin S
        <4>1. f[x] = g /\ \A k \in 1..x - 1 : k \in 1..x
          BY <2>3, <2>6, <3>1
        <4> QED BY <2>7, <4>1
      <3>2. CASE e \in S
        <4>1. /\ Len(f[x]) = Len(g) + 1 /\ f[x][Len(g) + 1] = e /\ Len(g) \in Nat
              /\ \A n \in 1..Len(g) : f[x][n] = g[n]
          BY <2>5, <2>6, <3>2
        <4>2. ASSUME NEW n \in 1..Len(f[x])
              PROVE  (\E k \in 1..x : f[x][n] = s[k]) /\ \A m \in 1..n - 1 : <<f[x][m], f[x][n]>> \in R
          <5>1. CASE n \in 1..Len(g)
            <6>1. \A m \in 1..n - 1 : m \in 1..Len(g)
              BY <4>1, <5>1
            <6>2. \A k \in 1..x - 1 : k \in 1..x
              BY <2>3
            <6> QED BY <2>7, <4>1, <5>1, <6>1, <6>2
          <5>2. CASE n = Len(g) + 1
            <6>1. f[x][n] = s[x] /\ x \in 1..x
              BY <2>3, <4>1, <5>2
            <6>2. ASSUME NEW m \in 1..n - 1 PROVE <<f[x][m], f[x][n]>> \in R
              <7>1. m \in 1..Len(g)
                BY <4>1, <5>2
              <7>2. PICK k \in 1..x - 1 : g[m] = s[k]
                BY <2>7, <7>1
              <7> QED BY <2>3, <4>1, <6>1, <7>1, <7>2
            <6> QED BY <6>1, <6>2
          <5> QED BY <4>1, <5>1, <5>2
        <4> QED BY <4>2
      <3> QED BY <3>1, <3>2
    <2> HIDE DEF From, InRow
    <2> QED BY <2>1, <2>8
  <1>3. Len(s) \in 0..Len(s)
    OBVIOUS
  <1>4. InRow(Len(s))
    <2> HIDE DEF From, InRow
    <2> QED BY <1>2, <1>3
  <1> QED BY <1>1, <1>4

-----------------------------------------------------------------------------
(* The query bar: its query is tokens and then a text, and an edit that    *)
(* leaves the query as it was has put the query's text into the field.     *)

Tokens == Bar!Token
Words  == Bar!Word
Free   == Words \ Tokens

\* The query is its tokens and then its free text.
BarInv ==
  /\ c1 \in Seq(Words) /\ c2 \in Seq(Words) /\ Bar!Parsed(c1) = c1
  /\ Bar!FieldIsTheText

\* A token is a word.
LEMMA TokensAreWords == Tokens \subseteq Words
  BY DEF Tokens, Words, Bar!Token, Bar!Word

\* What is kept of words, one after the other.
LEMMA WordsKept ==
  ASSUME NEW a \in Seq(Words), NEW b \in Seq(Words)
  PROVE  /\ Bar!Tokens(a \o b) = Bar!Tokens(a) \o Bar!Tokens(b)
         /\ Bar!Text(a \o b) = Bar!Text(a) \o Bar!Text(b)
  <1>1. /\ Bar!Kept(a \o b, Tokens) = Bar!Kept(a, Tokens) \o Bar!Kept(b, Tokens)
        /\ Bar!Kept(a \o b, Free) = Bar!Kept(a, Free) \o Bar!Kept(b, Free)
    BY KeptOfBoth
  <1> QED BY <1>1 DEF Bar!Tokens, Bar!Text, Tokens, Words, Free

\* The tokens and the text of what is put together from both.
LEMMA SplitAgain ==
  ASSUME NEW a \in Seq(Tokens), NEW b \in Seq(Free)
  PROVE  /\ Bar!Tokens(a \o b) = a /\ Bar!Text(a \o b) = b
         /\ a \o b \in Seq(Words) /\ Bar!Parsed(a \o b) = a \o b
  <1>1. a \in Seq(Words) /\ b \in Seq(Words)
    BY TokensAreWords DEF Free
  <1>2. Bar!Tokens(a) = a /\ Bar!Text(b) = b
    BY AllIsKept DEF Bar!Tokens, Bar!Text, Tokens, Words, Free
  <1>3. Bar!Text(a) = <<>> /\ Bar!Tokens(b) = <<>>
    <2>1. Tokens \cap Free = {} /\ Free \cap Tokens = {}
      BY DEF Free
    <2>2. Bar!Kept(a, Free) = <<>> /\ Bar!Kept(b, Tokens) = <<>>
      BY <2>1, NoneIsKept
    <2> QED BY <2>2 DEF Bar!Tokens, Bar!Text, Tokens, Words, Free
  <1>4. Bar!Tokens(a \o b) = a \o <<>> /\ Bar!Text(a \o b) = <<>> \o b
    BY <1>1, <1>2, <1>3, WordsKept
  <1>5. a \o <<>> = a /\ <<>> \o b = b /\ a \o b \in Seq(Words)
    BY <1>1
  <1> QED BY <1>4, <1>5 DEF Bar!Parsed

\* Splitting what was split changes nothing.
LEMMA PartsOfWords ==
  ASSUME NEW s \in Seq(Words)
  PROVE  /\ Bar!Tokens(s) \in Seq(Tokens) /\ Bar!Text(s) \in Seq(Free)
         /\ Bar!Parsed(s) \in Seq(Words)
         /\ Bar!Tokens(Bar!Parsed(s)) = Bar!Tokens(s) /\ Bar!Text(Bar!Parsed(s)) = Bar!Text(s)
         /\ Bar!Parsed(Bar!Parsed(s)) = Bar!Parsed(s)
  <1>1. Words \cap Tokens = Tokens /\ Words \cap Free = Free
    BY TokensAreWords DEF Free
  <1>2. Bar!Kept(s, Tokens) \in Seq(Words \cap Tokens) /\ Bar!Kept(s, Free) \in Seq(Words \cap Free)
    BY KeptIsTyped
  <1>3. Bar!Tokens(s) \in Seq(Tokens) /\ Bar!Text(s) \in Seq(Free)
    BY <1>1, <1>2 DEF Bar!Tokens, Bar!Text, Tokens, Words, Free
  <1> QED BY <1>3, SplitAgain DEF Bar!Parsed

\* What the field adds to a query that has it already is the query's text.
LEMMA UnchangedText ==
  ASSUME NEW v \in Seq(Words), Bar!Parsed(v) = v, NEW s \in Seq(Words),
         Bar!Parsed(Bar!Tokens(v) \o s) = v
  PROVE  s = Bar!Text(v)
  <1> DEFINE t == Bar!Tokens(v)
  <1>1. t \in Seq(Tokens) /\ t \in Seq(Words)
    BY PartsOfWords, TokensAreWords
  <1>2. Bar!Text(t) = <<>> /\ Bar!Tokens(t) = t
    <2>1. t \o <<>> = t /\ <<>> \in Seq(Free)
      BY <1>1
    <2> QED BY <1>1, <2>1, SplitAgain
  <1>3. Bar!Tokens(t \o s) = t \o Bar!Tokens(s) /\ Bar!Text(t \o s) = <<>> \o Bar!Text(s)
    BY <1>1, <1>2, WordsKept
  <1> HIDE DEF t
  <1>4. Bar!Tokens(s) \in Seq(Tokens) /\ Bar!Text(s) \in Seq(Free) /\ t \o s \in Seq(Words)
    BY <1>1, PartsOfWords
  <1>5. Bar!Text(t \o s) = Bar!Text(s)
    BY <1>3, <1>4
  <1>6. Bar!Tokens(t \o s) = Bar!Tokens(v) /\ Bar!Text(t \o s) = Bar!Text(v)
    <2>1. Bar!Tokens(Bar!Parsed(t \o s)) = Bar!Tokens(t \o s)
          /\ Bar!Text(Bar!Parsed(t \o s)) = Bar!Text(t \o s)
      BY <1>4, PartsOfWords
    <2> QED BY <2>1 DEF t
  <1>7. t \o Bar!Tokens(s) = t
    BY <1>3, <1>6 DEF t
  <1>8. Bar!Tokens(s) = <<>>
    <2>1. Len(t \o Bar!Tokens(s)) = Len(t) + Len(Bar!Tokens(s))
          /\ Len(t) \in Nat /\ Len(Bar!Tokens(s)) \in Nat
      BY <1>1, <1>4
    <2> QED BY <2>1, <1>7, <1>4
  <1>9. s \in Seq(Free)
    BY <1>8, NothingKept DEF Bar!Tokens, Tokens, Words, Free
  <1>10. Bar!Text(s) = s
    BY <1>9, AllIsKept DEF Bar!Text, Tokens, Words, Free
  <1> QED BY <1>5, <1>6, <1>10

\* The cards' queries are tokens and then a text.
LEMMA RecipesAreQueries ==
  ASSUME NEW r \in {<<>>} \cup BarRecipes
  PROVE  r \in Seq(Words) /\ Bar!Parsed(r) = r
  <1>1. CASE r = <<>>
    <2>1. <<>> \in Seq(Tokens) /\ <<>> \in Seq(Free) /\ <<>> = <<>> \o <<>>
      OBVIOUS
    <2> QED BY <1>1, <2>1, SplitAgain
  <1> QED BY <1>1, PagesAssumption DEF Bar!BarAssumption, Words

\* The bar opens with a link's query.
LEMMA BarInit == Bar!Init => BarInv
  <1> SUFFICES ASSUME Bar!Init PROVE BarInv
    OBVIOUS
  <1>1. c1 \in {<<>>} \cup BarRecipes /\ c2 = Bar!Text(c1)
    BY DEF Bar!Init
  <1>2. c1 \in Seq(Words) /\ Bar!Parsed(c1) = c1
    BY <1>1, RecipesAreQueries
  <1>3. Bar!Text(c1) \in Seq(Words)
    BY <1>2, PartsOfWords DEF Free
  <1> QED BY <1>1, <1>2, <1>3 DEF BarInv, Bar!FieldIsTheText

\* The words before the last are words.
LEMMA WordsAreTyped ==
  ASSUME NEW s \in Seq(Words)
  PROVE  /\ Bar!Draft(s) => Bar!Front(s) \in Seq(Words) /\ s # <<>>
         /\ s # <<>> => Bar!Front(s) \in Seq(Words)
  BY DEF Bar!Draft, Bar!Front

\* What is typed.
LEMMA UpdateKeeps ==
  ASSUME BarInv, NEW next \in Seq(Words), Bar!UpdateInput(next)
  PROVE  BarInv'
  <1> DEFINE last == IF Bar!Draft(next) THEN Bar!Front(next) ELSE next
             all1 == Bar!Tokens(c1) \o last
  <1>1. last \in Seq(Words) /\ all1 \in Seq(Words)
    <2>1. last \in Seq(Words)
      BY WordsAreTyped
    <2>2. Bar!Tokens(c1) \in Seq(Words)
      BY PartsOfWords, TokensAreWords DEF BarInv
    <2> QED BY <2>1, <2>2
  <1>2. c1' = Bar!Parsed(all1) /\ c2' = next /\ c3' = c3 /\ c3 = c1
    BY DEF Bar!UpdateInput, Bar!Edit
  <1>3. c1' \in Seq(Words) /\ Bar!Parsed(c1') = c1'
    <2> HIDE DEF all1
    <2> QED BY <1>1, <1>2, PartsOfWords
  <1>4. ASSUME c3' = c1', ~Bar!Draft(next) PROVE next = Bar!Text(c1')
    <2>1. c1' = c1 /\ last = next
      BY <1>2, <1>4
    <2>2. Bar!Parsed(Bar!Tokens(c1) \o next) = c1
      BY <1>2, <2>1
    <2> QED BY <2>1, <2>2, UnchangedText DEF BarInv
  <1>5. Bar!FieldIsTheText'
    BY <1>2, <1>4 DEF Bar!FieldIsTheText, Bar!Draft
  <1>6. Bar!Parsed(c1)' = c1'
    BY <1>3 DEF Bar!Parsed, Bar!Tokens, Bar!Text, Bar!Kept
  <1> QED BY <1>2, <1>3, <1>5, <1>6 DEF BarInv

\* A suggestion that is taken, and a token that is removed.
LEMMA CommitKeeps ==
  ASSUME BarInv, NEW v \in BarValues, Bar!CommitToken(v)
  PROVE  BarInv'
  <1> DEFINE base == Bar!Parsed(Bar!Tokens(c1) \o Bar!Front(c2))
             w    == [field |-> Bar!Last(c2).field, value |-> v]
             kept == Bar!Kept(base, {t \in Tokens : t.field # w.field})
  <1>1. base \in Seq(Words)
    <2>1. Bar!Front(c2) \in Seq(Words)
      BY WordsAreTyped DEF BarInv, Bar!CommitToken
    <2>2. Bar!Tokens(c1) \in Seq(Words)
      BY PartsOfWords, TokensAreWords DEF BarInv
    <2>3. Bar!Tokens(c1) \o Bar!Front(c2) \in Seq(Words)
      BY <2>1, <2>2
    <2> QED BY <2>3, PartsOfWords
  <1>2. w \in Tokens
    <2>1. Bar!Last(c2) \in Words /\ "field" \in DOMAIN Bar!Last(c2)
      BY DEF BarInv, Bar!CommitToken, Bar!Draft, Bar!IsField, Bar!Last
    <2>2. \A x \in [text : BarTexts] : DOMAIN x = {"text"}
      OBVIOUS
    <2>3. Bar!Last(c2).field \in BarFields
      BY <2>1, <2>2 DEF Words, Bar!Word
    <2> HIDE DEF base
    <2> QED BY <2>3 DEF Tokens, Bar!Token
  <1>3. c1' = (kept \o <<w>>) \o Bar!Text(base) /\ c2' = Bar!Text(c1)' /\ c3' = c3
    BY DEF Bar!CommitToken, Bar!ReplaceFieldToken, Tokens
  <1> HIDE DEF base, w
  <1>4. kept \o <<w>> \in Seq(Tokens) /\ Bar!Text(base) \in Seq(Free)
    <2>1. kept \in Seq(Words \cap {t \in Tokens : t.field # w.field})
      BY <1>1, KeptIsTyped
    <2>2. kept \in Seq(Tokens)
      BY <2>1
    <2> HIDE DEF kept
    <2> QED BY <1>1, <1>2, <2>2, PartsOfWords
  <1> HIDE DEF kept
  <1>5. /\ c1' \in Seq(Words) /\ Bar!Parsed(c1') = c1' /\ Bar!Text(c1') = Bar!Text(base)
    BY <1>3, <1>4, SplitAgain
  <1>6. Bar!Text(c1') \in Seq(Words) /\ c2' = Bar!Text(c1')
    <2>1. c2' = Bar!Text(c1')
      BY <1>3 DEF Bar!Text, Bar!Kept, Bar!Word, Bar!Token
    <2> QED BY <1>4, <1>5, <2>1 DEF Free
  <1>7. Bar!Parsed(c1)' = c1'
    BY <1>5 DEF Bar!Parsed, Bar!Tokens, Bar!Text, Bar!Kept, Bar!Word, Bar!Token
  <1>8. Bar!FieldIsTheText'
    BY <1>3 DEF Bar!FieldIsTheText
  <1> QED BY <1>5, <1>6, <1>7, <1>8 DEF BarInv, Words, Bar!Word

\* A token less is another query: the effect will run.
LEMMA RemoveKeeps == ASSUME BarInv, Bar!RemoveToken PROVE BarInv'
  <1> DEFINE t == Bar!Tokens(c1)
             b == Bar!Text(c1)
  <1>1. t \in Seq(Tokens) /\ b \in Seq(Free) /\ c1 = t \o b
    BY PartsOfWords DEF BarInv, Bar!Parsed
  <1>2. PICK n \in DOMAIN t : c1' = Bar!RemoveAt(t, n) \o b
    BY DEF Bar!RemoveToken
  <1>3. c2' = c2 /\ c3' = c3 /\ c3 = c1
    BY DEF Bar!RemoveToken, Bar!Edit
  <1> HIDE DEF t, b
  <1>4. Bar!RemoveAt(t, n) \in Seq(Tokens) /\ Len(Bar!RemoveAt(t, n)) = Len(t) - 1
    <2>1. n \in 1..Len(t) /\ Len(t) \in Nat
      BY <1>1
    <2>2. /\ SubSeq(t, 1, n - 1) \in Seq(Tokens) /\ Len(SubSeq(t, 1, n - 1)) = n - 1
          /\ SubSeq(t, n + 1, Len(t)) \in Seq(Tokens) /\ Len(SubSeq(t, n + 1, Len(t))) = Len(t) - n
      <3>1. \A i \in 1..n - 1 : i \in 1..Len(t)
        BY <2>1
      <3>2. \A i \in n + 1..Len(t) : i \in 1..Len(t)
        BY <2>1
      <3> QED BY <1>1, <2>1, <3>1, <3>2, SubSeqProperties
    <2> DEFINE a == SubSeq(t, 1, n - 1)
               z == SubSeq(t, n + 1, Len(t))
    <2>3. a \in Seq(Tokens) /\ z \in Seq(Tokens) /\ Len(a) + Len(z) = Len(t) - 1
      <3>1. a \in Seq(Tokens) /\ z \in Seq(Tokens) /\ Len(a) = n - 1 /\ Len(z) = Len(t) - n
        BY <2>2
      <3>2. n \in Int /\ Len(t) \in Int
        BY <2>1
      <3> HIDE DEF a, z
      <3> QED BY <3>1, <3>2
    <2>4. Bar!RemoveAt(t, n) = a \o z
      BY DEF Bar!RemoveAt
    <2> HIDE DEF a, z
    <2> QED BY <2>3, <2>4
  <1>5. c1' \in Seq(Words) /\ Bar!Parsed(c1') = c1'
    BY <1>1, <1>2, <1>4, SplitAgain
  <1>6. c1' # c1
    <2> DEFINE r == Bar!RemoveAt(t, n)
    <2>1. r \in Seq(Words) /\ t \in Seq(Words) /\ b \in Seq(Words) /\ Len(r) = Len(t) - 1
      BY <1>1, <1>4, TokensAreWords DEF Free
    <2> HIDE DEF r
    <2>2. Len(r \o b) # Len(t \o b)
      BY <2>1
    <2> QED BY <1>1, <1>2, <2>2 DEF r
  <1>7. Bar!Parsed(c1)' = c1'
    BY <1>5 DEF Bar!Parsed, Bar!Tokens, Bar!Text, Bar!Kept, Bar!Word, Bar!Token
  <1> QED BY <1>3, <1>5, <1>6, <1>7 DEF BarInv, Bar!FieldIsTheText, Words, Bar!Word

\* The bar's steps.
LEMMA BarStep == BarInv /\ [Bar!Next]_(Bar!vars) => BarInv'
  <1> SUFFICES ASSUME BarInv, [Bar!Next]_(Bar!vars) PROVE BarInv'
    OBVIOUS
  <1>0. c2 \in Seq(Words) /\ c1 \in Seq(Words)
    BY DEF BarInv
  <1>1. CASE Bar!Type
    <2>1. PICK w \in Words :
            \/ Bar!UpdateInput(Append(c2, w))
            \/ c2 # <<>> /\ Bar!UpdateInput(Append(Bar!Front(c2), w))
      BY <1>1 DEF Bar!Type, Words
    <2>2. Append(c2, w) \in Seq(Words)
      BY <1>0
    <2>3. c2 # <<>> => Append(Bar!Front(c2), w) \in Seq(Words)
      BY <1>0, WordsAreTyped
    <2> QED BY <2>1, <2>2, <2>3, UpdateKeeps
  <1>2. CASE Bar!Paste
    <2>1. PICK v \in Words, w \in Words : Bar!UpdateInput(c2 \o <<v, w>>)
      BY <1>2 DEF Bar!Paste, Words
    <2>2. c2 \o <<v, w>> \in Seq(Words)
      BY <1>0
    <2> QED BY <2>1, <2>2, UpdateKeeps
  <1>3. CASE Bar!Delete
    BY <1>0, <1>3, WordsAreTyped, UpdateKeeps DEF Bar!Delete
  <1>4. CASE Bar!PickField
    <2>1. PICK f \in BarFields :
            c2 # <<>> /\ Bar!UpdateInput(Append(Bar!Front(c2), [field |-> f, value |-> None]))
      BY <1>4 DEF Bar!PickField
    <2>2. [field |-> f, value |-> None] \in Words
      BY DEF Words, Bar!Word
    <2>3. Append(Bar!Front(c2), [field |-> f, value |-> None]) \in Seq(Words)
      BY <1>0, <2>1, <2>2, WordsAreTyped
    <2> QED BY <2>1, <2>3, UpdateKeeps
  <1>5. CASE Bar!RemoveToken
    BY <1>5, RemoveKeeps
  <1>6. CASE Bar!Recipe
    <2>1. c1' \in Seq(Words) /\ Bar!Parsed(c1') = c1'
      BY <1>6, RecipesAreQueries DEF Bar!Recipe
    <2>2. Bar!Parsed(c1)' = c1'
      BY <2>1 DEF Bar!Parsed, Bar!Tokens, Bar!Text, Bar!Kept, Bar!Word, Bar!Token
    <2>3. c2' = c2 /\ c3' = c3 /\ c3 = c1
      BY <1>6 DEF Bar!Recipe, Bar!Edit
    <2>4. Bar!FieldIsTheText'
      <3>1. CASE c1' = c1
        BY <2>3, <3>1 DEF BarInv, Bar!FieldIsTheText, Bar!Draft, Bar!Text, Bar!Kept, Bar!Word, Bar!Token, Bar!Last, Bar!IsField
      <3>2. CASE c1' # c1
        BY <2>3, <3>2 DEF Bar!FieldIsTheText
      <3> QED BY <3>1, <3>2
    <2> QED BY <1>0, <2>1, <2>2, <2>3, <2>4 DEF BarInv, Words, Bar!Word
  <1>7. CASE Bar!Resync
    <2>1. c1' = c1 /\ c2' = IF Bar!Draft(c2) THEN c2 ELSE Bar!Text(c1)
      BY <1>7 DEF Bar!Resync
    <2>2. c2' \in Seq(Words)
      BY <1>0, <2>1, PartsOfWords DEF Free
    <2>3. Bar!Parsed(c1)' = c1'
      <3>1. Bar!Parsed(c1') = c1'
        BY <2>1 DEF BarInv
      <3> QED BY <3>1 DEF Bar!Parsed, Bar!Tokens, Bar!Text, Bar!Kept, Bar!Word, Bar!Token
    <2>4. Bar!FieldIsTheText'
      <3>1. Bar!Text(c1)' = Bar!Text(c1)
        BY <2>1 DEF Bar!Text, Bar!Kept, Bar!Word, Bar!Token
      <3>2. CASE Bar!Draft(c2)
        <4>1. Bar!Draft(c2)'
          BY <2>1, <3>2 DEF Bar!Draft, Bar!Last, Bar!IsField
        <4> QED BY <4>1 DEF Bar!FieldIsTheText
      <3>3. CASE ~Bar!Draft(c2)
        BY <2>1, <3>1, <3>3 DEF Bar!FieldIsTheText
      <3> QED BY <3>2, <3>3
    <2> QED BY <1>0, <2>1, <2>2, <2>3, <2>4 DEF BarInv, Words, Bar!Word
  <1>8. ASSUME NEW v \in BarValues, Bar!CommitToken(v) PROVE BarInv'
    BY <1>8, CommitKeeps
  <1>9. CASE UNCHANGED Bar!vars
    <2>1. c1' = c1 /\ c2' = c2 /\ c3' = c3
      BY <1>9 DEF Bar!vars
    <2>2. Bar!Parsed(c1') = c1' /\ c1' \in Seq(Words) /\ c2' \in Seq(Words)
      BY <2>1 DEF BarInv
    <2>3. Bar!Parsed(c1)' = c1' /\ Words' = Words
      BY <2>2 DEF Bar!Parsed, Bar!Tokens, Bar!Text, Bar!Kept, Words, Bar!Word, Bar!Token
    <2>4. Bar!FieldIsTheText'
      BY <2>1 DEF BarInv, Bar!FieldIsTheText, Bar!Draft, Bar!Text, Bar!Kept, Bar!Word, Bar!Token,
                  Bar!Last, Bar!IsField
    <2> QED BY <2>2, <2>3, <2>4 DEF BarInv
  <1> QED BY <1>1, <1>2, <1>3, <1>4, <1>5, <1>6, <1>7, <1>8, <1>9 DEF Bar!Next

-----------------------------------------------------------------------------
(* The page of metrics: what it searched for and what it found, and the    *)
(* sets of items that the browser stores for each user.                    *)

\* The metrics page's filter is the query bar's.
LEMMA SameKept == \A s, S : Metr!Kept(s, S) = Bar!Kept(s, S)
  BY DEF Metr!Kept, Bar!Kept

\* The smaller of two numbers.
LEMMA LeastOfTwo ==
  ASSUME NEW a \in Int, NEW b \in Int
  PROVE  Metr!Min({a, b}) \in {a, b} /\ Metr!Min({a, b}) <= a /\ Metr!Min({a, b}) <= b
  <1>1. \E x \in {a, b} : \A y \in {a, b} : x <= y
    <2>1. CASE a <= b
      BY <2>1
    <2>2. CASE b <= a
      BY <2>2
    <2> QED BY <2>1, <2>2
  <1>2. /\ (CHOOSE x \in {a, b} : \A y \in {a, b} : x <= y) \in {a, b}
        /\ \A y \in {a, b} : (CHOOSE x \in {a, b} : \A y1 \in {a, b} : x <= y1) <= y
    BY <1>1
  <1> QED BY <1>2 DEF Metr!Min

\* Sets of different items, each with a query that the page was searched with.
AllDiffer(s) ==
  /\ s \in Seq(Metr!ToSet(s))
  /\ \A n \in 1..Len(s) :
       /\ s[n].query \in Searches
       /\ \A m \in 1..n - 1 : Metr!ToSet(s[m].items) # Metr!ToSet(s[n].items)

\* The first of them do, too.
LEMMA PrefixDiffers ==
  ASSUME NEW X, NEW s \in Seq(X), NEW k \in 1..Len(s),
         \A n \in 1..Len(s) :
           /\ s[n].query \in Searches
           /\ \A m \in 1..n - 1 : Metr!ToSet(s[m].items) # Metr!ToSet(s[n].items)
  PROVE  AllDiffer(SubSeq(s, 1, k))
  <1> DEFINE t == SubSeq(s, 1, k)
  <1>1. t \in Seq(X) /\ Len(t) = k /\ k \in Nat /\ \A n \in 1..k : t[n] = s[n] /\ n \in 1..Len(s)
    OBVIOUS
  <1> HIDE DEF t
  <1>2. t \in Seq(Metr!ToSet(t))
    <2>1. DOMAIN t = 1..Len(t) /\ Len(t) \in Nat
      BY <1>1
    <2>2. \A n \in 1..Len(t) : t[n] \in Metr!ToSet(t)
      BY <2>1 DEF Metr!ToSet
    <2>3. t = [n \in 1..Len(t) |-> t[n]]
      BY <1>1
    <2> QED BY <2>1, <2>2, <2>3
  <1>3. \A n \in 1..k : \A m \in 1..n - 1 : m \in 1..k
    BY <1>1
  <1> QED BY <1>1, <1>2, <1>3 DEF AllDiffer, t

\* The selection goes in front, and no other set has its items.
LEMMA RecordedDiffers ==
  ASSUME NEW s, AllDiffer(s), c3 \in Searches
  PROVE  AllDiffer(Metr!AddRecent(s))
  <1> DEFINE E == Metr!ToSet(s)
             F == {e \in E : Metr!ToSet(e.items) # Metr!ToSet(c1)}
             R == {p \in E \X E : Metr!ToSet(p[1].items) # Metr!ToSet(p[2].items)}
             o == Bar!Kept(s, F)
             e0 == Metr!Entry
             t == <<e0>> \o o
             k == Metr!Min({Len(o) + 1, MaxRecentSets})
  <1>1. s \in Seq(E) /\ DOMAIN s = 1..Len(s)
    BY DEF AllDiffer
  <1>2. \A n \in 1..Len(s) : \A m \in 1..n - 1 : <<s[m], s[n]>> \in R
    <2>1. \A n \in 1..Len(s) : \A m \in 1..n - 1 : m \in 1..Len(s) /\ s[m] \in E /\ s[n] \in E
      BY <1>1
    <2> HIDE DEF E
    <2> QED BY <2>1 DEF AllDiffer
  <1>3. \A e \in E : e.query \in Searches
    BY <1>1 DEF AllDiffer, Metr!ToSet
  <1> HIDE DEF E
  <1>4. o \in Seq(E \cap F) /\ o \in Seq(E)
    <2>1. o \in Seq(E \cap F)
      BY <1>1, KeptIsTyped
    <2> QED BY <2>1
  <1>5. \A n \in 1..Len(o) : \A m \in 1..n - 1 : <<o[m], o[n]>> \in R
    <2> HIDE DEF R, F
    <2> QED BY <1>1, <1>2, KeptInOrder
  <1>6. \A n \in 1..Len(o) : o[n] \in E /\ o[n] \in F
    <2> HIDE DEF F, o
    <2> QED BY <1>4
  <1> HIDE DEF o
  <1>7. e0.query \in Searches /\ e0.items = c1
    BY DEF Metr!Entry
  <1> HIDE DEF e0
  <1>8. /\ t \in Seq(E \cup {e0}) /\ Len(t) = Len(o) + 1 /\ Len(o) \in Nat /\ t[1] = e0
        /\ \A n \in 2..Len(o) + 1 : t[n] = o[n - 1]
    <2>1. o \in Seq(E \cup {e0}) /\ <<e0>> \in Seq(E \cup {e0}) /\ Len(<<e0>>) = 1 /\ Len(o) \in Nat
      BY <1>4
    <2>2. Len(t) = 1 + Len(o) /\ t[1] = e0 /\ \A n \in 2..Len(o) + 1 : t[n] = o[n - 1]
      BY <2>1
    <2> QED BY <2>1, <2>2
  <1> HIDE DEF t
  <1>9. ASSUME NEW n \in 1..Len(t)
        PROVE  /\ t[n].query \in Searches
               /\ \A m \in 1..n - 1 : Metr!ToSet(t[m].items) # Metr!ToSet(t[n].items)
    <2>1. CASE n = 1
      BY <1>7, <1>8, <2>1
    <2>2. CASE n # 1
      <3>1. n \in 2..Len(o) + 1 /\ n - 1 \in 1..Len(o) /\ t[n] = o[n - 1]
        BY <1>8, <2>2
      <3>2. t[n] \in E /\ t[n] \in F
        BY <1>6, <3>1
      <3>3. ASSUME NEW m \in 1..n - 1 PROVE Metr!ToSet(t[m].items) # Metr!ToSet(t[n].items)
        <4>1. CASE m = 1
          BY <1>7, <1>8, <3>2, <4>1
        <4>2. CASE m # 1
          <5>1. m \in 2..Len(o) + 1 /\ m - 1 \in 1..(n - 1) - 1 /\ t[m] = o[m - 1]
            BY <1>8, <3>1, <4>2
          <5> DEFINE p == <<o[m - 1], o[n - 1]>>
          <5>2. p \in R
            <6> HIDE DEF R
            <6> QED BY <1>5, <3>1, <5>1
          <5>3. p[1] = t[m] /\ p[2] = t[n]
            BY <3>1, <5>1
          <5> HIDE DEF p
          <5> QED BY <5>2, <5>3
        <4> QED BY <4>1, <4>2
      <3> QED BY <1>3, <3>2, <3>3
    <2> QED BY <2>1, <2>2
  <1>10. k \in 1..Len(t)
    <2>0. MaxRecentSets \in Nat \ {0}
      BY PagesAssumption DEF Metr!MetricsAssumption
    <2>1. k \in {Len(o) + 1, MaxRecentSets} /\ k <= Len(o) + 1
      <3>1. Len(o) + 1 \in Int /\ MaxRecentSets \in Int
        BY <1>8, <2>0
      <3> QED BY <3>1, LeastOfTwo
    <2> HIDE DEF k
    <2> QED BY <1>8, <2>0, <2>1
  <1>11. AllDiffer(SubSeq(t, 1, k))
    <2> HIDE DEF k
    <2> QED BY <1>8, <1>9, <1>10, PrefixDiffers
  <1>12. Metr!AddRecent(s) = SubSeq(t, 1, k)
    BY SameKept DEF Metr!AddRecent, t, o, e0, E
  <1> QED BY <1>11, <1>12

\* The items that a query finds with the ids of its hosts.
FoundWith(q, ids) == {i \in q.of : q.scope # Absent => i.host \in ids}

\* What the page of metrics knows of its search.
SearchInv ==
  /\ c2 \in Searches /\ c3 \in Searches
  /\ c4 \in [Searches -> {"none", "ok", "failed"}]
  /\ c5 # Absent =>
       \E q \in Searches : \E ids :
         /\ c5.key = <<q, ids>> /\ c5.items = FoundWith(q, ids)
         /\ q.scope # Absent => c4[q] # "none"

\* Whose sets are stored, and in memory.
RecentInv ==
  /\ c10 \in Users
  /\ d3 = [u \in Users |-> d3[u]]
  /\ \A u \in Users : AllDiffer(d3[u])
  /\ d1 \in Users => d2 = d3[d1]

MetrInv == SearchInv /\ RecentInv

\* Nothing was searched for, and nothing is stored.
LEMMA MetrInit == Metr!Init => MetrInv
  <1> SUFFICES ASSUME Metr!Init PROVE MetrInv
    OBVIOUS
  <1>1. SearchInv
    BY DEF Metr!Init, SearchInv
  <1>2. AllDiffer(<<>>)
    BY EmptySeq DEF AllDiffer
  <1>3. RecentInv
    BY <1>2 DEF Metr!Init, RecentInv
  <1> QED BY <1>1, <1>3 DEF MetrInv

\* The search key is the query and the ids it is asked with.
LEMMA HitsAreFound ==
  ASSUME SearchInv, Metr!Enabled, c5' = [key |-> Metr!SearchKey,
           items |-> {i \in c3.of : Metr!Scoped => i.host \in Metr!SearchKey[2]}]
  PROVE  \E q \in Searches : \E ids :
           /\ c5'.key = <<q, ids>> /\ c5'.items = FoundWith(q, ids)
           /\ q.scope # Absent => c4[q] # "none"
  <1> DEFINE ids == Metr!SearchKey[2]
  <1>1. Metr!SearchKey = <<c3, ids>>
    BY DEF Metr!SearchKey
  <1>2. Metr!Scoped <=> c3.scope # Absent
    BY DEF Metr!Scoped
  <1> HIDE DEF ids
  <1>3. c5'.key = <<c3, ids>> /\ c5'.items = FoundWith(c3, ids)
    BY <1>1, <1>2 DEF FoundWith, ids
  <1>4. c3.scope # Absent => c4[c3] # "none"
    BY <1>2 DEF Metr!Enabled
  <1> QED BY <1>3, <1>4 DEF SearchInv

\* A lookup that ended does not start over.
LEMMA SearchStep == MetrInv /\ [Metr!Next]_(Metr!vars) => SearchInv'
  <1> SUFFICES ASSUME MetrInv, [Metr!Next]_(Metr!vars) PROVE SearchInv'
    OBVIOUS
  <1>0. SearchInv
    BY DEF MetrInv
  <1> DEFINE Steady == c3' = c3 /\ c4' = c4 /\ c5' = c5
  <1>1. ASSUME Steady, c2' \in Searches PROVE SearchInv'
    BY <1>0, <1>1 DEF SearchInv, FoundWith
  <1>2. CASE Metr!Toggle \/ Metr!ToggleRow \/ Metr!AddHost
             \/ (\E r \in c8 : Metr!RowAnswered(r)) \/ Metr!RunEffects \/ UNCHANGED Metr!vars
             \/ Metr!MoreArrive \/ Metr!LabelsArrive
    <2>1. Steady /\ c2' = c2
      BY <1>2 DEF Metr!Toggle, Metr!ToggleRow, Metr!AddHost, Metr!RowAnswered,
                  Metr!RunEffects, Metr!MoreArrive, Metr!LabelsArrive, Metr!Still, Metr!vars
    <2> QED BY <1>0, <1>1, <2>1 DEF SearchInv
  <1>3. CASE Metr!Type
    <2>1. Steady /\ c2' \in Searches
      BY <1>3 DEF Metr!Type, Metr!Still
    <2> QED BY <1>1, <2>1
  <1>4. CASE Metr!ApplyRecipe
    <2>1. Steady
      BY <1>4 DEF Metr!ApplyRecipe, Metr!Still
    <2>2. CASE c2' = Card
      <3>1. Card \in Searches
        BY PagesAssumption DEF Metr!MetricsAssumption
      <3> QED BY <1>1, <2>1, <2>2, <3>1
    <2>3. CASE \E n \in 1..Metr!Min({Metr!Len(d2), MaxRecipes - 2}) : c2' = d2[n].query
      <3>1. d1 = c10
        BY <1>4 DEF Metr!ApplyRecipe, Metr!Due
      <3>2. AllDiffer(d2)
        BY <3>1 DEF MetrInv, RecentInv
      <3>3. Len(d2) \in Int /\ MaxRecipes - 2 \in Int
        BY <3>2, PagesAssumption DEF AllDiffer, Metr!MetricsAssumption
      <3>4. Metr!Min({Len(d2), MaxRecipes - 2}) <= Len(d2) /\ Metr!Min({Len(d2), MaxRecipes - 2}) \in Int
        BY <3>3, LeastOfTwo
      <3>5. PICK n \in 1..Metr!Min({Len(d2), MaxRecipes - 2}) : c2' = d2[n].query
        BY <2>3
      <3>6. n \in 1..Len(d2)
        BY <3>3, <3>4
      <3>7. c2' \in Searches
        BY <3>2, <3>5, <3>6 DEF AllDiffer
      <3> QED BY <1>1, <2>1, <3>7
    <2> QED BY <1>4, <2>2, <2>3 DEF Metr!ApplyRecipe
  <1>5. CASE Metr!Debounce
    <2>1. c2' = c2 /\ c3' = c2 /\ c4' = c4 /\ c5' = c5
      BY <1>5 DEF Metr!Debounce
    <2> QED BY <1>0, <2>1 DEF SearchInv, FoundWith
  <1>6. CASE Metr!LookupEnds
    <2>1. c2' = c2 /\ c3' = c3 /\ c5' = c5
      BY <1>6 DEF Metr!LookupEnds
    <2>2. PICK x \in {"ok", "failed"} : c4' = [c4 EXCEPT ![c3] = x]
      BY <1>6 DEF Metr!LookupEnds
    <2>3. c4' \in [Searches -> {"none", "ok", "failed"}]
      BY <1>0, <2>2 DEF SearchInv
    <2>4. \A q \in Searches : c4[q] # "none" => c4'[q] # "none"
      BY <1>0, <2>2 DEF SearchInv
    <2> QED BY <1>0, <2>1, <2>3, <2>4 DEF SearchInv, FoundWith
  <1>7. CASE Metr!HitsArrive
    <2>1. c2' = c2 /\ c3' = c3 /\ c4' = c4
      BY <1>7 DEF Metr!HitsArrive
    <2>2. \E q \in Searches : \E ids :
            /\ c5'.key = <<q, ids>> /\ c5'.items = FoundWith(q, ids)
            /\ q.scope # Absent => c4[q] # "none"
      BY <1>0, <1>7, HitsAreFound DEF Metr!HitsArrive
    <2> QED BY <1>0, <2>1, <2>2 DEF SearchInv, FoundWith
  <1>8. CASE Metr!SignIn
    <2>1. c2' = c2 /\ c3' = c3 /\ c4' = [q \in Searches |-> "none"] /\ c5' = Absent
      BY <1>8 DEF Metr!SignIn
    <2> QED BY <1>0, <2>1 DEF SearchInv
  <1> QED BY <1>2, <1>3, <1>4, <1>5, <1>6, <1>7, <1>8 DEF Metr!Next

\* The effects load the user's sets, then add the selection in front of them.
LEMMA EffectsStep == ASSUME MetrInv, Metr!RunEffects PROVE RecentInv'
  <1> DEFINE U == Users
             mine == IF d1 # c10 THEN d3[c10] ELSE d2
  <1>1. c10 \in U /\ c3 \in Searches /\ mine = d3[c10] /\ AllDiffer(d3[c10])
    BY DEF MetrInv, SearchInv, RecentInv
  <1>2. /\ d2' = IF Metr!Records THEN Metr!AddRecent(mine) ELSE mine
        /\ d3' = IF Metr!Records THEN [d3 EXCEPT ![c10] = d2'] ELSE d3
        /\ d1' = c10 /\ c10' = c10
    BY DEF Metr!RunEffects
  <1> HIDE DEF mine
  <1>3. AllDiffer(d2')
    <2>1. AllDiffer(mine)
      BY <1>1
    <2>2. AllDiffer(Metr!AddRecent(mine))
      BY <1>1, <2>1, RecordedDiffers
    <2> QED BY <1>2, <2>1, <2>2
  <1>4. d3 = [u \in U |-> d3[u]] /\ \A u \in U : AllDiffer(d3[u])
    BY DEF MetrInv, RecentInv
  <1>5. d3' = [u \in U |-> d3'[u]] /\ d3'[c10] = d2' /\ \A u \in U : u # c10 => d3'[u] = d3[u]
    BY <1>1, <1>2, <1>4
  <1>6. \A u \in U : AllDiffer(d3'[u])
    BY <1>3, <1>4, <1>5
  <1>7. \A u \in U : AllDiffer(d3[u])'
    BY <1>6 DEF AllDiffer, Metr!ToSet
  <1> QED BY <1>1, <1>2, <1>5, <1>7 DEF RecentInv

\* Only the effects change the sets.
LEMMA RecentStep == MetrInv /\ [Metr!Next]_(Metr!vars) => RecentInv'
  <1> SUFFICES ASSUME MetrInv, [Metr!Next]_(Metr!vars) PROVE RecentInv'
    OBVIOUS
  <1>1. CASE Metr!RunEffects
    BY <1>1, EffectsStep
  <1>2. CASE ~Metr!RunEffects
    <2>1. d1' = d1 /\ d2' = d2 /\ d3' = d3 /\ c10' \in Users
      <3>1. CASE Metr!SignIn
        BY <3>1 DEF Metr!SignIn
      <3>2. CASE ~Metr!SignIn
        <4>1. d1' = d1 /\ d2' = d2 /\ d3' = d3 /\ c10' = c10
          BY <1>2, <3>2 DEF Metr!Next, Metr!vars, Metr!Toggle, Metr!ToggleRow, Metr!AddHost,
               Metr!ApplyRecipe, Metr!Type, Metr!Debounce, Metr!LookupEnds, Metr!HitsArrive,
               Metr!MoreArrive, Metr!LabelsArrive, Metr!RowAnswered, Metr!Idle
        <4> QED BY <4>1 DEF MetrInv, RecentInv
      <3> QED BY <3>1, <3>2
    <2>2. RecentInv
      BY DEF MetrInv
    <2>3. \A u \in Users : AllDiffer(d3'[u])
      BY <2>1, <2>2 DEF RecentInv
    <2>4. \A u \in Users : AllDiffer(d3[u])'
      BY <2>3 DEF AllDiffer, Metr!ToSet
    <2> QED BY <2>1, <2>2, <2>4 DEF RecentInv
  <1> QED BY <1>1, <1>2

\* What is visible has the present key, so the present query's ids.
LEMMA MetrHolds == MetrInv => Metr!MatrixIsTheQuery /\ Metr!RecentSetsAreKept
  <1> SUFFICES ASSUME MetrInv PROVE Metr!MatrixIsTheQuery /\ Metr!RecentSetsAreKept
    OBVIOUS
  <1>1. Metr!MatrixIsTheQuery
    <2> SUFFICES ASSUME c5 # Absent, c5.key = Metr!SearchKey, c4[c3] # "failed"
                 PROVE  Metr!Visible = {i \in c3.of : Metr!Scoped => i.host \in c3.scope}
      BY DEF Metr!MatrixIsTheQuery
    <2> DEFINE ids == Metr!SearchKey[2]
    <2>1. Metr!SearchKey = <<c3, ids>>
      BY DEF Metr!SearchKey
    <2>2. PICK q \in Searches : \E j :
            c5.key = <<q, j>> /\ c5.items = FoundWith(q, j) /\ (q.scope # Absent => c4[q] # "none")
      BY DEF MetrInv, SearchInv
    <2>3. PICK j : c5.key = <<q, j>> /\ c5.items = FoundWith(q, j)
      BY <2>2
    <2> HIDE DEF ids
    <2>4. q = c3 /\ j = ids
      BY <2>1, <2>3
    <2>5. c3 \in Searches /\ c4[c3] \in {"none", "ok", "failed"}
      BY DEF MetrInv, SearchInv
    <2>6. c3.scope # Absent => ids = c3.scope
      BY <2>2, <2>4, <2>5 DEF ids, Metr!SearchKey, Metr!Scoped
    <2>7. Metr!Visible = FoundWith(c3, ids)
      BY <2>3, <2>4 DEF Metr!Visible
    <2> QED BY <2>6, <2>7 DEF FoundWith, Metr!Scoped
  <1>2. Metr!RecentSetsAreKept
    <2>1. \A u \in Users : AllDiffer(d3[u]) /\ DOMAIN d3[u] = 1..Len(d3[u])
      BY DEF MetrInv, RecentInv, AllDiffer
    <2>2. d1 = c10 => d2 = d3[c10]
      BY DEF MetrInv, RecentInv
    <2> QED BY <2>1, <2>2 DEF Metr!RecentSetsAreKept, AllDiffer
  <1> QED BY <1>1, <1>2

\* The matrix has what the query finds, the query is what its field and its chips
\* show, and the sets selected before are those stored for the user, each once, in every
\* order of edits, answers, failed lookups and changes of user
\* (use-metrics.ts:74-131, QueryBar.tsx:70-85, 144-183, MetricsPage.tsx:174-205,
\* recent-sets.ts:24-76).
THEOREM SearchIsTheQuery == PagesSpec => []SearchIsWhatIsTyped
  <1> DEFINE Inv == (about = "metrics" => MetrInv) /\ (about = "query" => BarInv)
  <1>1. PagesInit => Inv
    <2>1. PagesInit /\ about = "metrics" => Metr!Init
      BY DEF PagesInit
    <2>2. PagesInit /\ about = "query" => Bar!Init
      BY DEF PagesInit
    <2> QED BY <2>1, <2>2, MetrInit, BarInit
  <1>2. Inv /\ [PagesNext]_all => Inv'
    <2>1. [PagesNext]_all => about' = about
      BY DEF PagesNext, Rest, all
    <2>2. about = "metrics" /\ [PagesNext]_all => [Metr!Next]_(Metr!vars)
      BY DEF PagesNext, all, Extra, Metr!vars
    <2>3. about = "query" /\ [PagesNext]_all => [Bar!Next]_(Bar!vars)
      BY DEF PagesNext, all, Bar!vars
    <2>4. MetrInv /\ [Metr!Next]_(Metr!vars) => MetrInv'
      BY SearchStep, RecentStep DEF MetrInv
    <2> QED BY <2>1, <2>2, <2>3, <2>4, BarStep
  <1>3. Inv => SearchIsWhatIsTyped
    BY MetrHolds DEF BarInv, SearchIsWhatIsTyped
  <1> QED BY <1>1, <1>2, <1>3, PTL DEF PagesSpec

-----------------------------------------------------------------------------

\* Types: the logs page's, then each part's with what its own invariant lacks.

\* An entry of the form is a window, and so is what is sent to the server.
LEMMA TypesOfEntries ==
  /\ \A w : Entry(w) => Form!Window(w)
  /\ FormInv => Form!TypeOK
  BY DEF Entry, Editable, FormInv, Form!TypeOK, FormOf

\* The address of a page just opened, and the filters nobody set, are of their types.
LEMMA PlainIsSearch == Plain \in Search /\ NoFilters \in Filters /\ NoStream \in Stream \cup {NoStream}
  BY DEF Plain, Search, NoFilters, Filters

\* The logs page starts with values of their types.
LEMMA FirstTypes == Init => TypeOK
  <1> SUFFICES ASSUME Init PROVE TypeOK
    OBVIOUS
  <1>1. stored \in Filters
    BY DEF Init, Filters
  <1>2. page \in [up : BOOLEAN, hydrated : BOOLEAN, level : BOOLEAN, typed : BOOLEAN, text : BOOLEAN]
    BY DEF Init, Unmounted
  <1>3. seen.f \in Filters /\ opened \in Filters
    BY PlainIsSearch DEF Init, NotYet
  <1>4. clicks \in 0..Clicks
    BY PageAssumption DEF Init
  <1> QED BY <1>1, <1>2, <1>3, <1>4, PlainIsSearch DEF Init, TypeOK

\* Going to an address leaves every other value of the logs page of its type.
LEMMA GoToTypes == ASSUME TypeOK, NEW s \in Search, GoTo(s) PROVE TypeOK'
  <1>1. clicks' \in 0..Clicks
    BY PageAssumption DEF TypeOK, GoTo, Acts, Click
  <1>2. opened' = NoFilters /\ nav' = s
        /\ url' = url /\ page' = page /\ seen' = seen /\ stored' = stored /\ streams' = streams /\ saved' = saved
    BY DEF GoTo, Acts
  <1> QED BY <1>1, <1>2, PlainIsSearch DEF TypeOK, Search, Filters

\* Every step of the logs page: its effects complete the address with filters of
\* the store or of the address, and an action of the user changes one filter of it.
LEMMA LogsTypesStep == TypeOK /\ [Next]_vars => TypeOK'
  <1> SUFFICES ASSUME TypeOK, [Next]_vars PROVE TypeOK'
    OBVIOUS
  <1>0. /\ url \in Search /\ url.f \in Filters /\ nav \in Search /\ saved \in Search
        /\ stored \in Filters /\ opened \in Filters /\ seen.f \in Filters /\ streams \in BOOLEAN
        /\ page \in [up : BOOLEAN, hydrated : BOOLEAN, level : BOOLEAN, typed : BOOLEAN, text : BOOLEAN]
    BY DEF TypeOK, Search
  <1>c. Click => clicks' \in 0..Clicks
    BY PageAssumption DEF TypeOK, Click
  <1>f. ASSUME NEW f \in Filters, Patch(f) PROVE TypeOK'
    <2>1. [url EXCEPT !.f = f, !.n = 1] \in Search
      BY <1>0 DEF Search
    <2> QED BY <1>f, <2>1, GoToTypes DEF Patch
  <1>1. CASE UNCHANGED vars
    BY <1>1 DEF TypeOK, vars, Filters, Search
  <1>2. CASE Effects
    <2>1. nav' \in Search
      <3>1. Hydrated(nav) \in Search
        BY <1>0, PlainIsSearch DEF Hydrated, Search, Plain
      <3>2. Preselected(Hydrated(nav)) \in Search
        BY <1>0, <3>1, PageAssumption DEF Preselected, Search, Filters
      <3>3. PageReset(Preselected(Hydrated(nav))) \in Search
        BY <1>0, <3>2 DEF PageReset, Search
      <3> QED BY <1>2, <3>3 DEF Effects
    <2>2. stored' \in Filters /\ seen'.f \in Filters
      BY <1>0, <1>2 DEF Effects, Stored, Deps
    <2>3. page' \in [up : BOOLEAN, hydrated : BOOLEAN, level : BOOLEAN, typed : BOOLEAN, text : BOOLEAN]
      BY <1>0, <1>2 DEF Effects
    <2>4. url' = url /\ streams' = streams /\ saved' = saved /\ clicks' = clicks /\ opened' = opened
      BY <1>2 DEF Effects
    <2> QED BY <1>0, <2>1, <2>2, <2>3, <2>4 DEF TypeOK
  <1>3. CASE Commit
    BY <1>3 DEF TypeOK, Commit
  <1>4. CASE Debounce
    BY <1>4 DEF TypeOK, Debounce
  <1>5. CASE StreamsArrive
    BY <1>5 DEF TypeOK, StreamsArrive
  <1>6. CASE Activate
    BY <1>6, PlainIsSearch DEF TypeOK, Activate
  <1>7. ASSUME NEW deep \in BOOLEAN, NEW f \in Filters, Open(deep, f) PROVE TypeOK'
    <2>1. url' \in Search /\ nav' \in Search
      BY <1>7, PlainIsSearch DEF Open, Plain, Search
    <2>4. opened' \in Filters
      BY <1>7, <1>0, PlainIsSearch DEF Open
    <2>2. page' \in [up : BOOLEAN, hydrated : BOOLEAN, level : BOOLEAN, typed : BOOLEAN, text : BOOLEAN]
      BY <1>7 DEF Open, Unmounted
    <2>3. seen'.f \in Filters
      BY <1>7, PlainIsSearch DEF Open, NotYet
    <2> QED BY <1>7, <1>c, <1>0, <2>1, <2>2, <2>3, <2>4 DEF TypeOK, Open
  <1>8. CASE Leave
    <2>1. page' \in [up : BOOLEAN, hydrated : BOOLEAN, level : BOOLEAN, typed : BOOLEAN, text : BOOLEAN]
      BY <1>8 DEF Leave, Unmounted
    <2> QED BY <1>8, <1>c, <1>0, <2>1, PlainIsSearch DEF TypeOK, Leave
  <1>9. CASE SelectStream
    <2>1. \A s \in Stream \cup {NoStream} : [url.f EXCEPT !.stream = s] \in Filters
      BY <1>0 DEF Filters
    <2> QED BY <1>9, <1>f, <2>1 DEF SelectStream
  <1>10. CASE ToggleDedupe
    <2>1. [url EXCEPT !.f.dedupe = ~@] \in Search
      BY <1>0 DEF Search, Filters
    <2> QED BY <1>10, <2>1, GoToTypes DEF ToggleDedupe
  <1>11. CASE SetHosts
    <2>1. \A V \in SUBSET Value : [url.f EXCEPT !.include = V] \in Filters
      BY <1>0 DEF Filters
    <2> QED BY <1>11, <1>f, <2>1 DEF SetHosts
  <1>12. CASE HandleFilter
    <2>1. PICK v \in Value : Toggle(v, "include", "exclude") \/ Toggle(v, "exclude", "include")
      BY <1>12 DEF HandleFilter
    <2>2. CASE Toggle(v, "include", "exclude")
      <3>1. [url.f EXCEPT !["include"] = IF v \in @ THEN @ \ {v} ELSE @ \cup {v},
                          !["exclude"] = @ \ {v}] \in Filters
        BY <1>0 DEF Filters
      <3> QED BY <1>f, <2>2, <3>1 DEF Toggle
    <2>3. CASE Toggle(v, "exclude", "include")
      <3>1. [url.f EXCEPT !["exclude"] = IF v \in @ THEN @ \ {v} ELSE @ \cup {v},
                          !["include"] = @ \ {v}] \in Filters
        BY <1>0 DEF Filters
      <3> QED BY <1>f, <2>3, <3>1 DEF Toggle
    <2> QED BY <2>1, <2>2, <2>3
  <1>13. CASE GoToPage
    <2>1. [url EXCEPT !.n = 3 - @] \in Search
      BY <1>0 DEF Search
    <2> QED BY <1>13, <2>1, GoToTypes DEF GoToPage
  <1>14. CASE SetLevel \/ Type
    BY <1>14, <1>c, <1>0, PlainIsSearch DEF SetLevel, Type, Acts, TypeOK
  <1>15. CASE ResetFilters
    <2>1. nav' \in Search
      BY <1>0, <1>15, PlainIsSearch DEF ResetFilters, Plain, NoFilters, Search, Filters
    <2> QED BY <1>15, <1>c, <1>0, <2>1, PlainIsSearch DEF ResetFilters, Acts, TypeOK
  <1>16. CASE ApplySet
    <2>1. nav' \in Search
      <3>1. PICK V \in SUBSET Value, s \in Stream \cup {NoStream} :
              nav' = [Plain EXCEPT !.f.stream = s, !.f.include = V, !.set = TRUE]
        BY <1>16, Zenon DEF ApplySet
      <3>2. [Plain EXCEPT !.f.stream = s, !.f.include = V, !.set = TRUE] \in Search
        BY DEF Plain, NoFilters, Search, Filters
      <3> QED BY <3>1, <3>2
    <2> QED BY <1>16, <1>c, <1>0, <2>1, PlainIsSearch DEF ApplySet, Acts, TypeOK
  <1>17. CASE SaveSet
    <2>1. saved' \in Search
      BY <1>0, <1>17 DEF SaveSet, Search
    <2> QED BY <1>17, <1>c, <1>0, <2>1, PlainIsSearch DEF SaveSet, Acts, TypeOK
  <1> QED BY <1>1, <1>2, <1>3, <1>4, <1>5, <1>6, <1>7, <1>8, <1>9, <1>10, <1>11, <1>12,
             <1>13, <1>14, <1>15, <1>16, <1>17 DEF Next, User

\* What the page of a host has chosen.
HostTypes ==
  /\ c1 \in Worlds /\ c7 \in Ranges /\ c6 \in BOOLEAN
  /\ c2 \in ItemLists \cup {{}}
  /\ c4 \in Texts \cup {None} /\ c5 \in Dash!Templates \cup {None}
  /\ \A e \in c9 : e[1] \in Dash!Parts
  /\ c10 \in 0..Moves

\* Nothing is chosen when the page of a host opens.
LEMMA HostTypesInit == Dash!Init => HostTypes
  <1> SUFFICES ASSUME Dash!Init PROVE HostTypes
    OBVIOUS
  <1>1. c10 \in 0..Moves
    BY PagesAssumption DEF Dash!Init
  <1>2. \A e \in c9 : e[1] \in Dash!Parts
    BY DEF Dash!Init
  <1>3. c1 \in Worlds /\ c7 \in Ranges /\ c6 = FALSE /\ c2 = {} /\ c4 = None /\ c5 = None
    BY DEF Dash!Init
  <1> QED BY <1>1, <1>2, <1>3 DEF HostTypes

\* Every step of the page of a host: a choice is one of those offered, and only a
\* part of the page reports empty items.
LEMMA HostTypesStep == HostTypes /\ [Dash!Next]_(Dash!vars) => HostTypes'
  <1> SUFFICES ASSUME HostTypes, [Dash!Next]_(Dash!vars) PROVE HostTypes'
    OBVIOUS
  <1>t. Dash!Turn => c10' \in 0..Moves
    BY PagesAssumption DEF HostTypes, Dash!Turn
  <1>1. CASE UNCHANGED Dash!vars
    BY <1>1 DEF HostTypes, Dash!vars
  <1>2. ASSUME NEW l \in ItemLists, Dash!Load(l) PROVE HostTypes'
    BY <1>2, <1>t DEF HostTypes, Dash!Load
  <1>3. ASSUME NEW f \in Texts \cup {None}, Dash!SetFilterText(f) PROVE HostTypes'
    BY <1>3, <1>t DEF HostTypes, Dash!SetFilterText
  <1>4. ASSUME NEW t \in Dash!Templates, Dash!SelectTemplate(t) PROVE HostTypes'
    BY <1>4, <1>t DEF HostTypes, Dash!SelectTemplate
  <1>5. CASE Dash!TemplatesArrive
    BY <1>5 DEF HostTypes, Dash!TemplatesArrive
  <1>6. ASSUME NEW r \in Ranges, Dash!SetRange(r) PROVE HostTypes'
    BY <1>6, <1>t DEF HostTypes, Dash!SetRange
  <1>7. ASSUME NEW p \in Dash!Parts, Dash!ToggleOpen(p) \/ Dash!ToggleShowEmpty(p) PROVE HostTypes'
    BY <1>7, <1>t DEF HostTypes, Dash!ToggleOpen, Dash!ToggleShowEmpty
  <1>8. ASSUME NEW p \in Dash!Parts, NEW id, Dash!Scroll(p, id) \/ Dash!Fail(p, id) PROVE HostTypes'
    BY <1>8 DEF HostTypes, Dash!Scroll, Dash!Fail
  <1>9. ASSUME NEW p \in Dash!Parts, NEW id, Dash!Arrive(p, id) PROVE HostTypes'
    <2>1. c9' \in {c9, c9 \cup {<<p, id>>}}
      BY <1>9 DEF Dash!Arrive
    <2>2. \A e \in c9' : e[1] \in Dash!Parts
      BY <2>1 DEF HostTypes
    <2> QED BY <1>9, <2>2 DEF HostTypes, Dash!Arrive
  <1> QED BY <1>1, <1>2, <1>3, <1>4, <1>5, <1>6, <1>7, <1>8, <1>9 DEF Dash!Next

\* With what is known of its sections these are the types of the page of a host.
LEMMA HostIsTyped == SectionsInv /\ HostTypes => Dash!TypeOK
  BY DEF SectionsInv, Earned, HostTypes, Dash!TypeOK, Dash!Here

\* A request that has failed was for items of the host over the page's range.
IsRequest(k) == k = Absent \/ (k.of \subseteq Data!Ids /\ k.range = c5)

\* The page of the latest data.
LatestTypes ==
  /\ c1 \in DOMAIN LatestLists \cup {Absent} /\ c4 \in BOOLEAN /\ c6 \in BOOLEAN
  /\ Data!list = {} \/ (c1 # Absent /\ Data!list \in LatestLists[c1])
  /\ \E a \in 1..LatestNow : \E b \in a..LatestNow : c5 = <<a, b>>
  /\ c7 \in [Data!Ids -> {"none", "constant", "changed-once"}]
  /\ c8 = Absent \/ (c8.of \subseteq Data!Ids /\ c8.range = c5 /\ IsRequest(c8.failed))

\* The windows the picker offers lie within the clock.
LEMMA WindowsAreRanges == \A w \in LatestWindows : \E a \in 1..LatestNow : \E b \in a..LatestNow : w = <<a, b>>
  BY PagesAssumption DEF Data!LatestAssumption

\* The page of the latest data opens with a host, its range and nothing loaded.
LEMMA LatestInit == Data!Init => LatestTypes
  <1> SUFFICES ASSUME Data!Init PROVE LatestTypes
    OBVIOUS
  <1>1. \E a \in 1..LatestNow : \E b \in a..LatestNow : c5 = <<a, b>>
    BY WindowsAreRanges DEF Data!Init
  <1>2. c7 \in [Data!Ids -> {"none", "constant", "changed-once"}]
    BY DEF Data!Init
  <1>3. Data!list = {}
    BY DEF Data!Init, Data!list
  <1>4. c1 \in DOMAIN LatestLists /\ c4 = FALSE /\ c6 = TRUE /\ c8 = Absent
    BY DEF Data!Init
  <1> QED BY <1>1, <1>2, <1>3, <1>4 DEF LatestTypes

\* Everything on the list has an id.
LEMMA ListedHaveIds == LatestTypes => {i.id : i \in Data!list} \subseteq Data!Ids
  <1> SUFFICES ASSUME LatestTypes, NEW i \in Data!list PROVE i.id \in Data!Ids
    OBVIOUS
  <1>1. c1 \in DOMAIN LatestLists /\ Data!list \in LatestLists[c1]
    BY DEF LatestTypes
  <1> HIDE DEF LatestTypes
  <1> QED BY <1>1 DEF Data!Ids, Data!Items

\* The list of the host, bound by whichever template.
LEMMA BindsList ==
  ASSUME NEW l, NEW known, Data!Bind(l, known)
  PROVE  Data!list' = l
  BY DEF Data!Bind, Data!BuildSections, Data!list

\* Every step of the latest data: the items are the present host's, the window
\* ends after it starts, and the answers that judge items are about ids of the host.
LEMMA LatestStep == LatestTypes /\ [Data!Next]_(Data!vars) => LatestTypes'
  <1> SUFFICES ASSUME LatestTypes, [Data!Next]_(Data!vars) PROVE LatestTypes'
    OBVIOUS
  <1> DEFINE Unmoved == c1' = c1 /\ c4' = c4 /\ c6' = c6 /\ c3' = c3 /\ c5' = c5 /\ c7' = c7 /\ c8' = c8
  <1>1. CASE Unmoved
    BY <1>1 DEF LatestTypes, IsRequest, Data!list
  <1>2. CASE Data!PickSection \/ Data!OpenWindow \/ Data!ChangeWindow \/ UNCHANGED Data!vars
    BY <1>1, <1>2 DEF Data!PickSection, Data!OpenWindow, Data!ChangeWindow, Data!vars
  <1>3. CASE Data!PickHost
    <2>1. Data!list' = {}
      BY <1>3 DEF Data!PickHost, Data!list
    <2> QED BY <1>3, <2>1 DEF LatestTypes, IsRequest, Data!PickHost
  <1>4. CASE Data!ItemsArrive
    <2>1. c1 # Absent /\ c1' = c1 /\ Data!list' \in LatestLists[c1]
      BY <1>4, BindsList DEF Data!ItemsArrive
    <2> QED BY <1>4, <2>1 DEF LatestTypes, IsRequest, Data!ItemsArrive
  <1>5. CASE Data!ParentsArrive
    <2>1. Data!list' = Data!list
      BY <1>5, BindsList DEF Data!ParentsArrive
    <2> QED BY <1>5, <2>1 DEF LatestTypes, IsRequest, Data!ParentsArrive
  <1>6. CASE Data!ChangeRange \/ Data!Tick
    <2>1. c8 = Absent
      BY <1>6 DEF Data!ChangeRange, Data!Tick, Data!User, Data!Turn, Data!Settled, Data!HasPicker, Data!IsComponent
    <2>2. \E a \in 1..LatestNow : \E b \in a..LatestNow : c5' = <<a, b>>
      <3>1. CASE Data!ChangeRange
        BY <3>1, WindowsAreRanges DEF Data!ChangeRange
      <3>2. CASE Data!Tick
        <4>0. PICK a \in 1..LatestNow : \E b \in a..LatestNow : c5 = <<a, b>>
          BY DEF LatestTypes
        <4>1. PICK b \in a..LatestNow : c5 = <<a, b>>
          BY <4>0
        <4>2. c5' = <<LatestNow - (b - a), LatestNow>>
          BY <3>2, <4>1 DEF Data!Tick
        <4>3. LatestNow - (b - a) \in 1..LatestNow /\ LatestNow \in (LatestNow - (b - a))..LatestNow
          BY PagesAssumption DEF Data!LatestAssumption
        <4> QED BY <4>2, <4>3
      <3> QED BY <1>6, <3>1, <3>2
    <2>3. /\ c1' = c1 /\ c3' = c3 /\ c4' = c4 /\ c7' = c7 /\ c8' = c8 /\ c6' \in BOOLEAN
      BY <1>6 DEF LatestTypes, Data!ChangeRange, Data!Tick
    <2>4. Data!list' = Data!list
      BY <2>3 DEF Data!list
    <2> QED BY <2>1, <2>2, <2>3, <2>4 DEF LatestTypes
  <1>7. CASE Data!SeriesArrive \/ Data!SeriesFail \/ Data!Refocus \/ Data!AskAnew
    <2>0. Data!Wanted.of \subseteq Data!Ids /\ Data!Wanted.range = c5
      <3>1. {i.id : i \in Data!Numbers} \subseteq Data!Ids
        BY ListedHaveIds DEF Data!Numbers, Data!Shown
      <3> QED BY <3>1 DEF Data!Wanted
    <2>1. c8'.of \subseteq Data!Ids /\ c8'.range = c5
          /\ (c8'.failed = Absent \/ c8'.failed = Data!Wanted)
      <3>1. CASE Data!SeriesArrive
        BY <2>0, <3>1 DEF Data!SeriesArrive
      <3>2. CASE Data!SeriesFail
        BY <2>0, <3>2 DEF Data!SeriesFail, LatestTypes
      <3>3. CASE Data!Refocus \/ Data!AskAnew
        <4>1. c8 # Absent /\ c8' = [c8 EXCEPT !.failed = Absent]
          BY <3>3 DEF Data!Refocus, Data!AskAnew, Data!Failed
        <4> QED BY <4>1 DEF LatestTypes
      <3> QED BY <1>7, <3>1, <3>2, <3>3
    <2>2. c1' = c1 /\ c3' = c3 /\ c4' = c4 /\ c5' = c5 /\ c6' = c6 /\ c7' = c7
      BY <1>7 DEF Data!SeriesArrive, Data!SeriesFail, Data!Refocus, Data!AskAnew
    <2>3. Data!list' = Data!list
      BY <2>2 DEF Data!list
    <2>4. IsRequest(c8.failed)'
      BY <2>0, <2>1, <2>2 DEF IsRequest
    <2> QED BY <2>1, <2>2, <2>3, <2>4 DEF LatestTypes
  <1>8. CASE Data!OnClassified
    <2>1. \A v \in Data!Verdicts : v[2] \in {"none", "constant", "changed-once"}
      <3>1. \A s : Data!Classify(s) \in {"constant", "changed-once", "variable"}
        BY DEF Data!Classify
      <3>2. \A i : Data!Judged(i)[2] \in {"none", "constant", "changed-once"}
        BY <3>1 DEF Data!Judged
      <3> QED BY <3>2 DEF Data!Verdicts
    <2> DEFINE Of(d) == {v \in Data!Verdicts : v[1] = d}
               new(d) == IF Of(d) = {} THEN c7[d] ELSE (CHOOSE v \in Of(d) : TRUE)[2]
    <2>2. c7' = [d \in Data!Ids |-> new(d)]
      BY <1>8 DEF Data!OnClassified
    <2>3. \A d \in Data!Ids : new(d) \in {"none", "constant", "changed-once"}
      <3> TAKE d \in Data!Ids
      <3>1. CASE Of(d) = {}
        BY <3>1 DEF LatestTypes
      <3>2. CASE Of(d) # {}
        <4>1. (CHOOSE v \in Of(d) : TRUE) \in Data!Verdicts
          BY <3>2
        <4> HIDE DEF Of
        <4> QED BY <2>1, <3>2, <4>1
      <3> QED BY <3>1, <3>2
    <2> HIDE DEF new
    <2>4. c7' \in [Data!Ids -> {"none", "constant", "changed-once"}]
      BY <2>2, <2>3
    <2>5. c1' = c1 /\ c3' = c3 /\ c4' = c4 /\ c5' = c5 /\ c6' = c6 /\ c8' = c8
      BY <1>8 DEF Data!OnClassified
    <2>6. Data!list' = Data!list
      BY <2>5 DEF Data!list
    <2> QED BY <2>4, <2>5, <2>6 DEF LatestTypes, IsRequest
  <1>9. CASE Data!Unmount
    <2>1. c1' = c1 /\ c3' = c3 /\ c4' = c4 /\ c5' = c5 /\ c6' = c6 /\ c7' = c7 /\ c8' = Absent
      BY <1>9 DEF Data!Unmount
    <2>2. Data!list' = Data!list
      BY <2>1 DEF Data!list
    <2> QED BY <2>1, <2>2 DEF LatestTypes
  <1> QED BY <1>2, <1>3, <1>4, <1>5, <1>6, <1>7, <1>8, <1>9 DEF Data!Next, Data!Progress

\* These are the types of the page of the latest data.
LEMMA LatestIsTyped == LatestTypes => Data!TypeOK
  <1> SUFFICES ASSUME LatestTypes PROVE Data!TypeOK
    OBVIOUS
  <1>1. c5[1] \in 1..LatestNow /\ c5[2] \in c5[1]..LatestNow
    BY DEF LatestTypes
  <1> QED BY <1>1 DEF LatestTypes, IsRequest, Data!TypeOK

\* The topology.
StageTypes ==
  /\ c1 \in NodeLists /\ c2 \in AlarmLists \cup {{}} /\ c4 \in Topo!Tabs
  /\ c8 = Absent \/ (\E f, o, b, l : b \in BOOLEAN /\ l \in 1..3
                       /\ c8 = [of |-> f, open |-> b, family |-> o, level |-> l])

\* The topology opens without a stage.
LEMMA StageTypesInit == Topo!Init => StageTypes
  BY DEF Topo!Init, StageTypes

\* Every step of the topology; a stage is built, opened and zoomed level by level.
LEMMA StageTypesStep == StageTypes /\ [Topo!Next]_(Topo!vars) => StageTypes'
  <1> SUFFICES ASSUME StageTypes, [Topo!Next]_(Topo!vars) PROVE StageTypes'
    OBVIOUS
  <1>1. c1' \in NodeLists /\ c2' \in AlarmLists \cup {{}} /\ c4' \in Topo!Tabs
    BY DEF StageTypes, Topo!Next, Topo!vars, Topo!SetTab, Topo!SetCluster, Topo!Type, Topo!Jump, Topo!ResetStage,
           Topo!ExpandOk, Topo!FocusFamily, Topo!Zoom, Topo!HostsArrive, Topo!ProblemsArrive,
           Topo!TriggersArrive
  <1> DEFINE Good(s) == s = Absent \/ (\E f, o, b, l : b \in BOOLEAN /\ l \in 1..3
                          /\ s = [of |-> f, open |-> b, family |-> o, level |-> l])
  <1>2. Good(c8')
    <2>1. CASE c8' = c8
      BY <2>1 DEF StageTypes
    <2>2. CASE Topo!ResetStage
      <3>1. c8' = Absent \/ c8' = Topo!Blank
        BY <2>2 DEF Topo!ResetStage
      <3>2. 1 \in 1..3 /\ FALSE \in BOOLEAN
        OBVIOUS
      <3> QED BY <3>1, <3>2 DEF Topo!Blank
    <2>3. CASE Topo!ExpandOk \/ Topo!FocusFamily \/ Topo!Zoom
      <3>1. PICK f, o, b, l : b \in BOOLEAN /\ l \in 1..3
                              /\ c8 = [of |-> f, open |-> b, family |-> o, level |-> l]
        BY <2>3 DEF StageTypes, Topo!ExpandOk, Topo!FocusFamily, Topo!Zoom
      <3>2. 1 \in 1..3 /\ 2 \in 1..3
        OBVIOUS
      <3>3. CASE Topo!ExpandOk
        <4> DEFINE nb == ~b
        <4>1. nb \in BOOLEAN
          OBVIOUS
        <4>2. c8' = [of |-> f, open |-> nb, family |-> o, level |-> l]
          BY <3>1, <3>3 DEF Topo!ExpandOk
        <4> HIDE DEF nb
        <4> QED BY <3>1, <4>1, <4>2
      <3>4. CASE Topo!FocusFamily
        BY <3>1, <3>2, <3>4 DEF Topo!FocusFamily
      <3>5. CASE Topo!Zoom
        BY <3>1, <3>5 DEF Topo!Zoom
      <3> QED BY <2>3, <3>3, <3>4, <3>5
    <2> QED BY <2>1, <2>2, <2>3 DEF Topo!Next, Topo!vars, Topo!SetTab, Topo!SetCluster, Topo!Type, Topo!Jump,
           Topo!HostsArrive, Topo!ProblemsArrive, Topo!TriggersArrive
  <1> QED BY <1>1, <1>2 DEF StageTypes

\* No two clusters of a tab share an id: a map's, a subnet's and a proxy's id name
\* what they are of.
LEMMA StageIsTyped == StageTypes => Topo!TypeOK
  <1> SUFFICES ASSUME StageTypes PROVE Topo!TypeOK
    OBVIOUS
  <1>1. \A c, d \in Topo!Clusters(c4) : c.id = d.id => c = d
    <2>1. \A id, s : Topo!ClusterOf(id, s).id = id
      BY DEF Topo!ClusterOf
    <2>2. c4 \in Topo!Tabs
      BY DEF StageTypes
    <2>3. CASE c4 = "maps"
      <3> TAKE c, d \in Topo!Clusters(c4)
      <3> HAVE c.id = d.id
      <3>1. PICK m \in DOMAIN MapHosts : c = Topo!ClusterOf(<<"map", m>>, {h \in c1 : h.id \in MapHosts[m]})
        BY <2>3 DEF Topo!Clusters
      <3>2. PICK k \in DOMAIN MapHosts : d = Topo!ClusterOf(<<"map", k>>, {h \in c1 : h.id \in MapHosts[k]})
        BY <2>3 DEF Topo!Clusters
      <3>3. <<"map", m>> = <<"map", k>>
        BY <3>1, <3>2, <2>1
      <3>4. m = k
        BY <3>3
      <3> QED BY <3>1, <3>2, <3>4
    <2>4. CASE c4 = "l3"
      <3> TAKE c, d \in Topo!Clusters(c4)
      <3> HAVE c.id = d.id
      <3>1. PICK m \in {Topo!SubnetOf(h) : h \in c1} \ {Absent} : c = Topo!ClusterOf(<<"subnet", m>>, {h \in c1 : Topo!SubnetOf(h) = m})
        BY <2>4 DEF Topo!Clusters
      <3>2. PICK k \in {Topo!SubnetOf(h) : h \in c1} \ {Absent} : d = Topo!ClusterOf(<<"subnet", k>>, {h \in c1 : Topo!SubnetOf(h) = k})
        BY <2>4 DEF Topo!Clusters
      <3>3. <<"subnet", m>> = <<"subnet", k>>
        BY <3>1, <3>2, <2>1
      <3>4. m = k
        BY <3>3
      <3> QED BY <3>1, <3>2, <3>4
    <2>5. CASE c4 = "proxies"
      <3> TAKE c, d \in Topo!Clusters(c4)
      <3> HAVE c.id = d.id
      <3>1. PICK m \in {Topo!AnchorOf(h) : h \in c1} : c = Topo!ClusterOf(m, {h \in c1 : Topo!AnchorOf(h) = m})
        BY <2>5 DEF Topo!Clusters
      <3>2. PICK k \in {Topo!AnchorOf(h) : h \in c1} : d = Topo!ClusterOf(k, {h \in c1 : Topo!AnchorOf(h) = k})
        BY <2>5 DEF Topo!Clusters
      <3>3. m = k
        BY <3>1, <3>2, <2>1
      <3>4. m = k
        BY <3>3
      <3> QED BY <3>1, <3>2, <3>4
    <2> QED BY <2>2, <2>3, <2>4, <2>5 DEF Topo!Tabs, Topo!Clusters
  <1> QED BY <1>1 DEF StageTypes, Topo!TypeOK

-----------------------------------------------------------------------------

\* A selection never has an item twice.

\* The page's instance counts as the proofs do.
LEMMA MetrCounts == \A S : Metr!Cardinality(S) = Cardinality(S)
  BY DEF Metr!Cardinality, Metr!IsFiniteSet, Cardinality, IsFiniteSet

\* How many numbers of a set are less than one of them.
Below(S, x) == Metr!Cardinality({y \in S : y < x})

\* Every place in the order of some numbers is taken.
LEMMA EveryPlace ==
  ASSUME NEW S \in SUBSET Int, IsFiniteSet(S)
  PROVE  /\ Cardinality(S) \in Nat
         /\ \A i \in 0..Cardinality(S) - 1 : \E x \in S : Below(S, x) = i
  <1> DEFINE n == Cardinality(S)
             up == {p \in S \X S : p[1] < p[2]}
             place == [x \in S |-> RankOf(S, up, x)]
  <1>1. n \in Nat
    BY FS_CardinalityType
  <1>2. \A x, y \in S : <<x, y>> \in up <=> x < y
    BY Zenon
  <1> HIDE DEF up, n
  <1>3. Strict(S, up)
    BY <1>2 DEF Strict
  <1>4. ASSUME NEW x \in S
        PROVE  place[x] \in 0..n - 1 /\ \A y \in S : x < y => place[x] < place[y]
    BY <1>2, <1>3, RanksRise DEF n
  <1>5. place \in Injection(S, 0..n - 1)
    <2>1. place \in [S -> 0..n - 1]
      BY <1>4
    <2>2. ASSUME NEW x \in S, NEW y \in S, place[x] = place[y], x # y PROVE FALSE
      <3>1. x < y \/ y < x
        BY <2>2
      <3>2. place[x] \in Int /\ place[y] \in Int
        BY <1>1, <1>4
      <3> HIDE DEF place
      <3> QED BY <2>2, <3>1, <3>2, <1>4
    <2> QED BY <2>1, <2>2 DEF Injection, IsInjective
  <1>6. IsFiniteSet(0..n - 1) /\ Cardinality(0..n - 1) = n
    BY <1>1, FS_Interval
  <1>7. place \in Surjection(S, 0..n - 1)
    <2> HIDE DEF place
    <2> QED BY <1>5, <1>6, FS_Injection DEF n
  <1>8. ASSUME NEW i \in 0..n - 1 PROVE \E x \in S : Below(S, x) = i
    <2>1. PICK x \in S : place[x] = i
      <3> HIDE DEF place
      <3> QED BY <1>7 DEF Surjection
    <2>2. {y \in S : y < x} = {y \in S : <<y, x>> \in up}
      BY <1>2
    <2> QED BY <2>1, <2>2, MetrCounts DEF Below, RankOf
  <1> QED BY <1>1, <1>8 DEF n

\* The ids of the metrics, and sequences of ids with each at most once; a link may
\* have ids that no metric has any more.
MetricIds == {i.id : i \in Metrics}
SomeIds == {S \in SUBSET Int : IsFiniteSet(S)}
NoneTwice(s) ==
  /\ s \in Seq(Int)
  /\ \A n \in 1..Len(s) : \A m \in 1..n - 1 : s[m] # s[n]

\* The ids of the metrics are some integers.
LEMMA IdsAreFinite == SUBSET MetricIds \subseteq SomeIds
  <1>1. MetricIds \in SUBSET Int
    BY PagesAssumption DEF Metr!MetricsAssumption, Metr!IdsOf, MetricIds
  <1>2. IsFiniteSet(MetricIds)
    <2>1. IsFiniteSet(Metrics)
      BY PagesAssumption DEF Metr!MetricsAssumption, Metr!IsFiniteSet, IsFiniteSet
    <2> DEFINE f == [i \in Metrics |-> i.id]
    <2>2. f \in Surjection(Metrics, MetricIds)
      BY DEF Surjection, MetricIds
    <2> QED BY <2>1, <2>2, FS_Surjection
  <1> QED BY <1>1, <1>2, FS_Subset DEF SomeIds

\* A set in its order has each of its members once.
LEMMA SortedIsOnce ==
  ASSUME NEW S \in SomeIds
  PROVE  /\ NoneTwice(Metr!Sorted(S))
         /\ \A n \in 1..Len(Metr!Sorted(S)) : Metr!Sorted(S)[n] \in S
  <1> DEFINE k == Metr!Cardinality(S)
             at(n) == CHOOSE d \in S : Below(S, d) = n - 1
             t == [n \in 1..k |-> at(n)]
  <1>1. Metr!Sorted(S) = t
    BY DEF Metr!Sorted, Below
  <1>2. k \in Nat /\ \A n \in 1..k : at(n) \in S /\ Below(S, at(n)) = n - 1
    <2>1. S \in SUBSET Int /\ IsFiniteSet(S)
      BY DEF SomeIds
    <2>2. k \in Nat /\ \A i \in 0..k - 1 : \E x \in S : Below(S, x) = i
      BY <2>1, EveryPlace, MetrCounts
    <2>3. ASSUME NEW n \in 1..k PROVE at(n) \in S /\ Below(S, at(n)) = n - 1
      <3>1. n - 1 \in 0..k - 1
        BY <2>2
      <3>2. \E x \in S : Below(S, x) = n - 1
        BY <2>2, <3>1
      <3> QED BY <3>2
    <2> QED BY <2>2, <2>3
  <1> HIDE DEF at, k
  <1>3. t \in Seq(Int) /\ Len(t) = k /\ \A n \in 1..k : t[n] = at(n)
    <2>1. \A n \in 1..k : at(n) \in Int
      BY <1>2 DEF SomeIds
    <2> QED BY <1>2, <2>1
  <1> HIDE DEF t
  <1>4. ASSUME NEW n \in 1..k, NEW m \in 1..n - 1 PROVE t[m] # t[n]
    <2>1. m \in 1..k /\ m - 1 # n - 1
      BY <1>2
    <2> QED BY <1>2, <1>3, <2>1
  <1> QED BY <1>1, <1>2, <1>3, <1>4 DEF NoneTwice

\* A sequence without repetitions is as long as the set it lists.
LEMMA OnceIsCounted == ASSUME NEW s, NoneTwice(s) PROVE Metr!Cardinality(Metr!ToSet(s)) = Len(s)
  <1> DEFINE k == Len(s)
             f == [n \in 1..k |-> s[n]]
             T == Metr!ToSet(s)
  <1>1. k \in Nat /\ T = {s[n] : n \in 1..k}
    BY DEF NoneTwice, Metr!ToSet
  <1>2. f \in Injection(1..k, T)
    <2>1. f \in [1..k -> T]
      BY <1>1
    <2>2. \A n, m \in 1..k : f[n] = f[m] => n = m
      <3> SUFFICES ASSUME NEW n \in 1..k, NEW m \in 1..k, s[n] = s[m], n # m PROVE FALSE
        OBVIOUS
      <3>1. n \in 1..m - 1 \/ m \in 1..n - 1
        BY <1>1
      <3> QED BY <3>1 DEF NoneTwice
    <2> QED BY <2>1, <2>2 DEF Injection, IsInjective
  <1>3. f \in Surjection(1..k, T)
    BY <1>1 DEF Surjection
  <1>4. IsFiniteSet(1..k) /\ Cardinality(1..k) = k
    BY <1>1, FS_Interval
  <1> HIDE DEF f, T
  <1>5. Cardinality(T) = Cardinality(1..k)
    BY <1>2, <1>3, <1>4, FS_Surjection
  <1> QED BY <1>4, <1>5, MetrCounts DEF T

\* Toggling items leaves each at most once.
LEMMA ToggledIsOnce ==
  ASSUME NEW s, NoneTwice(s), NEW S \in SomeIds
  PROVE  NoneTwice(Metr!Toggled(s, S))
  <1> DEFINE A == Metr!ToSet(s)
             rest == S \ A
             t == Metr!Sorted(rest)
             u == s \o t
  <1>1. s \in Seq(Int) /\ A = {s[n] : n \in 1..Len(s)} /\ Len(s) \in Nat
    BY DEF NoneTwice, Metr!ToSet
  <1>2. CASE S \subseteq A
    <2> DEFINE o == Bar!Kept(s, A \ S)
               R == {p \in Int \X Int : p[1] # p[2]}
    <2>1. Metr!Toggled(s, S) = o
      BY <1>2, SameKept DEF Metr!Toggled
    <2>2. o \in Seq(Int)
      <3>1. o \in Seq(Int \cap (A \ S))
        BY <1>1, KeptIsTyped
      <3> QED BY <3>1
    <2>3. \A n \in 1..Len(s) : \A m \in 1..n - 1 : <<s[m], s[n]>> \in R
      <3> TAKE n \in 1..Len(s)
      <3> TAKE m \in 1..n - 1
      <3>1. s[m] \in Int /\ s[n] \in Int
        BY <1>1
      <3> QED BY <3>1 DEF NoneTwice
    <2>4. \A n \in 1..Len(o) : \A m \in 1..n - 1 : <<o[m], o[n]>> \in R
      <3> HIDE DEF R, A
      <3> QED BY <1>1, <2>3, KeptInOrder
    <2> HIDE DEF o
    <2>5. \A n \in 1..Len(o) : \A m \in 1..n - 1 : o[m] # o[n]
      BY <2>4
    <2> QED BY <2>1, <2>2, <2>5 DEF NoneTwice
  <1>3. CASE ~(S \subseteq A)
    <2>1. Metr!Toggled(s, S) = u
      BY <1>3 DEF Metr!Toggled
    <2>2. NoneTwice(t) /\ \A n \in 1..Len(t) : t[n] \in rest
      <3>1. rest \in SomeIds
        BY FS_Subset DEF SomeIds
      <3> QED BY <3>1, SortedIsOnce
    <2> HIDE DEF t
    <2>3. t \in Seq(Int) /\ Len(t) \in Nat
      BY <2>2 DEF NoneTwice
    <2>4. /\ u \in Seq(Int) /\ Len(u) = Len(s) + Len(t)
          /\ \A n \in 1..Len(s) : u[n] = s[n]
          /\ \A n \in 1..Len(u) : n > Len(s) => u[n] = t[n - Len(s)]
      BY <1>1, <2>3
    <2> HIDE DEF u
    <2>5. ASSUME NEW n \in 1..Len(u), NEW m \in 1..n - 1 PROVE u[m] # u[n]
      <3>1. m \in 1..Len(u)
        BY <1>1, <2>3, <2>4
      <3>2. CASE n <= Len(s)
        <4>1. n \in 1..Len(s) /\ m \in 1..Len(s)
          BY <3>2, <1>1
        <4> QED BY <4>1, <2>4 DEF NoneTwice
      <3>3. CASE n > Len(s) /\ m <= Len(s)
        <4>0. n \in 1..Len(s) + Len(t) /\ m \in Int /\ 1 <= m
          BY <2>4
        <4>1. m \in 1..Len(s) /\ n - Len(s) \in 1..Len(t)
          <5> HIDE DEF A, rest
          <5> QED BY <4>0, <3>3, <1>1, <2>3
        <4>2. u[m] = s[m] /\ u[n] = t[n - Len(s)]
          BY <3>3, <4>1, <2>4
        <4>3. u[m] \in A
          BY <4>1, <4>2, <1>1
        <4>4. u[n] \in rest
          BY <4>1, <4>2, <2>2
        <4> QED BY <4>3, <4>4
      <3>4. CASE n > Len(s) /\ m > Len(s)
        <4>1. n - Len(s) \in 1..Len(t) /\ m - Len(s) \in 1..(n - Len(s)) - 1
          BY <3>4, <1>1, <2>3, <2>4
        <4>2. u[m] = t[m - Len(s)] /\ u[n] = t[n - Len(s)]
          BY <3>1, <3>4, <2>4
        <4> QED BY <4>1, <4>2, <2>2 DEF NoneTwice
      <3> QED BY <3>2, <3>3, <3>4, <1>1
    <2> QED BY <2>1, <2>4, <2>5 DEF NoneTwice
  <1> QED BY <1>2, <1>3

\* What the metrics keep besides the search: a selection, the selections the asked
\* rows started from and the recorded ones, each with every id once.
MetrTypes ==
  /\ NoneTwice(c1)
  /\ c7 = Absent \/ c7.items \subseteq Metrics
  /\ \A r \in c8 : NoneTwice(r.order) /\ r.own \subseteq MetricIds
  /\ d1 \in Users \cup {Absent}
  /\ \A u \in Users : Len(d3[u]) <= MaxRecentSets /\ \A n \in 1..Len(d3[u]) : NoneTwice(d3[u][n].items)

\* Nothing selected repeats nothing.
LEMMA EmptyIsOnce == NoneTwice(<<>>)
  BY DEF NoneTwice

\* The metrics open with an empty selection or a link's.
LEMMA MetrTypesInit == Metr!Init => MetrTypes
  <1> SUFFICES ASSUME Metr!Init PROVE MetrTypes
    OBVIOUS
  <1>1. NoneTwice(c1)
    <2>1. c1 \in Links
      BY DEF Metr!Init
    <2> QED BY <2>1, PagesAssumption DEF Metr!MetricsAssumption, NoneTwice
  <1>2. c7 = Absent /\ c8 = {} /\ d1 = Absent
    BY DEF Metr!Init
  <1>3. \A u \in Users : d3[u] = <<>>
    BY DEF Metr!Init
  <1>4. Len(<<>>) <= MaxRecentSets /\ \A n \in 1..Len(<<>>) : FALSE
    BY PagesAssumption DEF Metr!MetricsAssumption
  <1> QED BY <1>1, <1>2, <1>3, <1>4 DEF MetrTypes

\* The ids on the matrix.
LEMMA LeastId == ASSUME NEW S \in SUBSET MetricIds, S # {} PROVE Metr!Min(S) \in S
  <1>1. S \in SUBSET Int /\ IsFiniteSet(S)
    BY IdsAreFinite DEF SomeIds
  <1>2. \E x \in S : \A y \in S : x <= y
    BY <1>1, HaveEnds
  <1> QED BY <1>2 DEF Metr!Min

\* What the matrix lists are metrics.
LEMMA ListedAreMetrics == MetrInv /\ MetrTypes => Metr!Listed \subseteq Metrics
  <1> SUFFICES ASSUME MetrInv, MetrTypes PROVE Metr!Listed \subseteq Metrics
    OBVIOUS
  <1>1. \A q \in Searches : q.of \subseteq Metrics
    BY PagesAssumption DEF Metr!MetricsAssumption
  <1>2. c5 # Absent => c5.items \subseteq Metrics
    BY <1>1 DEF MetrInv, SearchInv, FoundWith
  <1> QED BY <1>2 DEF Metr!Listed, Metr!Visible, MetrTypes

\* A row, a column or a cell of the matrix toggles ids of metrics.
LEMMA MatrixIds ==
  ASSUME MetrInv, MetrTypes
  PROVE  /\ \A r : Metr!RowIds(r) \in SUBSET MetricIds
         /\ Metr!CellIds \in SUBSET MetricIds
  <1>1. Metr!Listed \subseteq Metrics
    BY ListedAreMetrics
  <1>2. ASSUME NEW r PROVE Metr!RowIds(r) \in SUBSET MetricIds
    <2> DEFINE At(h) == {i \in Metr!Listed : i.host = h /\ <<i.key, i.name>> = r}
               Hosts == {j.host : j \in {i \in Metr!Listed : <<i.key, i.name>> = r /\ i.host \in Metr!ToSet(Metr!Columns)}}
    <2>1. ASSUME NEW h \in Hosts PROVE Metr!Min(Metr!IdsOf(At(h))) \in MetricIds
      <3>1. At(h) # {}
        OBVIOUS
      <3>2. At(h) \subseteq Metrics
        BY <1>1
      <3> HIDE DEF At
      <3>3. Metr!IdsOf(At(h)) \in SUBSET MetricIds /\ Metr!IdsOf(At(h)) # {}
        BY <3>1, <3>2 DEF Metr!IdsOf, MetricIds
      <3> QED BY <3>3, LeastId
    <2> QED BY <2>1 DEF Metr!RowIds
  <1> QED BY <1>2 DEF Metr!CellIds

\* What the effects store.
LEMMA RecordedTypes ==
  ASSUME NEW s, AllDiffer(s), NoneTwice(c1), \A n \in 1..Len(s) : NoneTwice(s[n].items)
  PROVE  /\ Len(Metr!AddRecent(s)) <= MaxRecentSets
         /\ \A n \in 1..Len(Metr!AddRecent(s)) : NoneTwice(Metr!AddRecent(s)[n].items)
  <1> DEFINE E == Metr!ToSet(s)
             F == {e \in E : Metr!ToSet(e.items) # Metr!ToSet(c1)}
             o == Bar!Kept(s, F)
             e0 == Metr!Entry
             t == <<e0>> \o o
             k == Metr!Min({Len(o) + 1, MaxRecentSets})
  <1>1. s \in Seq(E) /\ DOMAIN s = 1..Len(s)
    BY DEF AllDiffer
  <1>2. \A e \in E : NoneTwice(e.items)
    BY <1>1 DEF Metr!ToSet
  <1> HIDE DEF E
  <1>3. o \in Seq(E)
    <2>1. o \in Seq(E \cap F)
      BY <1>1, KeptIsTyped
    <2> QED BY <2>1
  <1> HIDE DEF o
  <1>4. NoneTwice(e0.items)
    BY DEF Metr!Entry
  <1> HIDE DEF e0
  <1>5. t \in Seq(E \cup {e0}) /\ Len(t) = Len(o) + 1 /\ Len(o) \in Nat
    <2>1. o \in Seq(E \cup {e0}) /\ <<e0>> \in Seq(E \cup {e0}) /\ Len(<<e0>>) = 1 /\ Len(o) \in Nat
      BY <1>3
    <2> QED BY <2>1
  <1> HIDE DEF t
  <1>6. k \in {Len(o) + 1, MaxRecentSets} /\ k <= Len(o) + 1 /\ k <= MaxRecentSets
    <2>1. Len(o) + 1 \in Int /\ MaxRecentSets \in Int
      BY <1>5, PagesAssumption DEF Metr!MetricsAssumption
    <2> QED BY <2>1, LeastOfTwo
  <1> HIDE DEF k
  <1>7. SubSeq(t, 1, k) \in Seq(E \cup {e0}) /\ Len(SubSeq(t, 1, k)) = k
    <2>1. k \in 1..Len(t)
      BY <1>5, <1>6, PagesAssumption DEF Metr!MetricsAssumption
    <2> QED BY <1>5, <2>1
  <1>8. \A n \in 1..k : NoneTwice(SubSeq(t, 1, k)[n].items)
    <2> TAKE n \in 1..k
    <2>1. SubSeq(t, 1, k)[n] \in E \cup {e0}
      BY <1>7
    <2> QED BY <2>1, <1>2, <1>4
  <1>9. Metr!AddRecent(s) = SubSeq(t, 1, k)
    BY SameKept DEF Metr!AddRecent, t, o, e0, E, k
  <1> QED BY <1>6, <1>7, <1>8, <1>9

\* Every step of the metrics: whatever replaces the selection (a toggle of what the
\* user sees or of what a row's answer finds, a recorded set) has each id once.
LEMMA MetrTypesStep == MetrInv /\ MetrTypes /\ [Metr!Next]_(Metr!vars) => MetrTypes'
  <1> SUFFICES ASSUME MetrInv, MetrTypes, [Metr!Next]_(Metr!vars) PROVE MetrTypes'
    OBVIOUS
  <1> DEFINE Sets == d1' = d1 /\ d3' = d3
  <1>1. ASSUME NoneTwice(c1)', c7' \in {c7, Absent}, c8' \subseteq c8, Sets PROVE MetrTypes'
    <2>1. \A r \in c8' : NoneTwice(r.order) /\ r.own \subseteq MetricIds
      BY <1>1 DEF MetrTypes
    <2>2. \A u \in Users : Len(d3'[u]) <= MaxRecentSets /\ \A n \in 1..Len(d3'[u]) : NoneTwice(d3'[u][n].items)
      BY <1>1 DEF MetrTypes
    <2>3. (c7' = Absent \/ c7'.items \subseteq Metrics) /\ d1' \in Users \cup {Absent}
      BY <1>1 DEF MetrTypes
    <2> QED BY <1>1, <2>1, <2>2, <2>3 DEF MetrTypes, NoneTwice
  <1>2. CASE Metr!Toggle
    <2>1. c7' = c7 /\ c8' = c8 /\ Sets
      BY <1>2 DEF Metr!Toggle, Metr!Still, Metr!Idle
    <2>2. PICK S \in SomeIds : c1' = Metr!Toggled(c1, S)
      <3>1. CASE \E d \in Metr!CellIds \cup Metr!ToSet(c1) : c1' = Metr!Toggled(c1, {d})
        <4>1. PICK d \in Metr!CellIds \cup Metr!ToSet(c1) : c1' = Metr!Toggled(c1, {d})
          BY <3>1
        <4>2. Metr!CellIds \subseteq Int
          BY MatrixIds, IdsAreFinite DEF SomeIds
        <4>3. Metr!ToSet(c1) \subseteq Int
          BY DEF MetrTypes, NoneTwice, Metr!ToSet
        <4>4. {d} \in SomeIds
          BY <4>2, <4>3, FS_Singleton DEF SomeIds
        <4> QED BY <4>1, <4>4
      <3>2. CASE \E h \in Metr!ToSet(Metr!Columns) : c1' = Metr!Toggled(c1, Metr!ColumnIds(h))
        <4>1. \A h : Metr!ColumnIds(h) \in SomeIds
          <5>1. \A h : Metr!ColumnIds(h) \in SUBSET MetricIds
            BY MatrixIds DEF Metr!ColumnIds
          <5> QED BY <5>1, IdsAreFinite
        <4> QED BY <3>2, <4>1
      <3> QED BY <1>2, <3>1, <3>2 DEF Metr!Toggle
    <2>3. NoneTwice(c1')
      BY <2>2, ToggledIsOnce DEF MetrTypes
    <2> QED BY <1>1, <2>1, <2>3 DEF NoneTwice
  <1>3. CASE Metr!ToggleRow
    <2>1. c1' = c1 /\ c7' = c7 /\ Sets
      BY <1>3 DEF Metr!ToggleRow, Metr!Still, Metr!Idle
    <2>2. PICK r : c8' = c8 \cup {[n |-> d5, by |-> c10, key |-> r[1], hosts |-> Metr!ToSet(Metr!Columns),
                                   own |-> Metr!RowIds(r), order |-> c1]}
      BY <1>3 DEF Metr!ToggleRow
    <2>3. \A q \in c8' : NoneTwice(q.order) /\ q.own \subseteq MetricIds
      BY <2>2, MatrixIds DEF MetrTypes
    <2> QED BY <2>1, <2>3 DEF MetrTypes, NoneTwice
  <1>4. ASSUME NEW r \in c8, Metr!RowAnswered(r) PROVE MetrTypes'
    <2>1. c7' = c7 /\ c8' \subseteq c8 /\ Sets
      BY <1>4 DEF Metr!RowAnswered, Metr!Still, Metr!Idle
    <2>2. PICK S \in SomeIds : c1' = Metr!Toggled(r.order, S)
      <3> DEFINE found == Metr!IdsOf({i \in Metrics : i.key = r.key /\ i.host \in r.hosts})
      <3>1. found \in SUBSET MetricIds /\ r.own \in SUBSET MetricIds
        BY DEF Metr!IdsOf, MetricIds, MetrTypes
      <3>2. \/ c1' = Metr!Toggled(r.order, IF found # {} THEN found ELSE r.own)
            \/ c1' = Metr!Toggled(r.order, r.own)
        BY <1>4 DEF Metr!RowAnswered
      <3> HIDE DEF found
      <3>3. r.own \in SomeIds /\ (IF found # {} THEN found ELSE r.own) \in SomeIds
        BY <3>1, IdsAreFinite
      <3> QED BY <3>1, <3>2, <3>3
    <2>3. NoneTwice(c1')
      BY <2>2, ToggledIsOnce DEF MetrTypes
    <2> QED BY <1>1, <2>1, <2>3 DEF NoneTwice
  <1>5. CASE Metr!ApplyRecipe
    <2>1. c7' = c7 /\ c8' = c8 /\ Sets
      BY <1>5 DEF Metr!ApplyRecipe, Metr!Still, Metr!Idle
    <2>2. CASE c1' = <<>>
      BY <1>1, <2>1, <2>2, EmptyIsOnce DEF NoneTwice
    <2>3. CASE \E n \in 1..Metr!Min({Metr!Len(d2), MaxRecipes - 2}) : c1' = d2[n].items
      <3>1. d1 = c10
        BY <1>5 DEF Metr!ApplyRecipe, Metr!Due
      <3>2. d2 = d3[c10] /\ c10 \in Users /\ AllDiffer(d2)
        BY <3>1 DEF MetrInv, RecentInv
      <3>3. Len(d2) \in Int /\ MaxRecipes - 2 \in Int
        BY <3>2, PagesAssumption DEF AllDiffer, Metr!MetricsAssumption
      <3>4. Metr!Min({Len(d2), MaxRecipes - 2}) <= Len(d2) /\ Metr!Min({Len(d2), MaxRecipes - 2}) \in Int
        BY <3>3, LeastOfTwo
      <3>5. PICK n \in 1..Metr!Min({Len(d2), MaxRecipes - 2}) : c1' = d2[n].items
        BY <2>3
      <3>6. n \in 1..Len(d2)
        BY <3>3, <3>4
      <3>7. NoneTwice(c1')
        BY <3>2, <3>5, <3>6 DEF MetrTypes
      <3> QED BY <1>1, <2>1, <3>7 DEF NoneTwice
    <2> QED BY <1>5, <2>2, <2>3 DEF Metr!ApplyRecipe
  <1>6. CASE Metr!MoreArrive
    <2>1. c1' = c1 /\ c8' = c8 /\ Sets
      BY <1>6 DEF Metr!MoreArrive, Metr!Idle
    <2>2. c7'.items \subseteq Metrics
      BY <1>6 DEF Metr!MoreArrive
    <2>3. /\ NoneTwice(c1') /\ d1' \in Users \cup {Absent}
          /\ \A r \in c8' : NoneTwice(r.order) /\ r.own \subseteq MetricIds
          /\ \A u \in Users : Len(d3'[u]) <= MaxRecentSets /\ \A n \in 1..Len(d3'[u]) : NoneTwice(d3'[u][n].items)
      BY <2>1 DEF MetrTypes
    <2> QED BY <2>2, <2>3 DEF MetrTypes, NoneTwice
  <1>7. CASE Metr!AddHost \/ Metr!Type \/ Metr!SignIn \/ Metr!Debounce \/ Metr!LookupEnds
             \/ Metr!HitsArrive \/ Metr!LabelsArrive \/ UNCHANGED Metr!vars
    <2>1. c1' = c1 /\ c7' \in {c7, Absent} /\ c8' = c8 /\ Sets
      BY <1>7 DEF Metr!AddHost, Metr!Type, Metr!SignIn, Metr!Debounce, Metr!LookupEnds,
                  Metr!HitsArrive, Metr!LabelsArrive, Metr!Idle, Metr!Still, Metr!vars
    <2> QED BY <1>1, <2>1 DEF MetrTypes, NoneTwice
  <1>8. CASE Metr!RunEffects
    <2> DEFINE mine == IF d1 # c10 THEN d3[c10] ELSE d2
    <2>1. c10 \in Users /\ mine = d3[c10] /\ AllDiffer(mine)
      BY DEF MetrInv, RecentInv
    <2>2. /\ d2' = IF Metr!Records THEN Metr!AddRecent(mine) ELSE mine
          /\ d3' = IF Metr!Records THEN [d3 EXCEPT ![c10] = d2'] ELSE d3
          /\ d1' = c10 /\ c1' = c1 /\ c7' = c7 /\ c8' = c8
      BY <1>8 DEF Metr!RunEffects, Metr!Still
    <2> HIDE DEF mine
    <2>3. Len(mine) <= MaxRecentSets /\ \A n \in 1..Len(mine) : NoneTwice(mine[n].items)
      BY <2>1 DEF MetrTypes
    <2>4. Len(d2') <= MaxRecentSets /\ \A n \in 1..Len(d2') : NoneTwice(d2'[n].items)
      <3>1. NoneTwice(c1)
        BY DEF MetrTypes
      <3> QED BY <2>1, <2>2, <2>3, <3>1, RecordedTypes
    <2>5. d3 = [u \in Users |-> d3[u]]
      BY DEF MetrInv, RecentInv
    <2>6. \A u \in Users : d3'[u] = d3[u] \/ d3'[u] = d2'
      BY <2>1, <2>2, <2>5
    <2>7. \A u \in Users : Len(d3'[u]) <= MaxRecentSets /\ \A n \in 1..Len(d3'[u]) : NoneTwice(d3'[u][n].items)
      BY <2>4, <2>6 DEF MetrTypes
    <2> QED BY <2>1, <2>2, <2>7 DEF MetrTypes, NoneTwice
  <1> QED BY <1>2, <1>3, <1>4, <1>5, <1>6, <1>7, <1>8 DEF Metr!Next

\* Who made the selection, and who clicked the rows that are under way.
Authors == d6 \in Users /\ \A r \in c8 : r.by \in Users

\* The link is opened by who is signed in.
LEMMA AuthorsInit == Metr!Init => Authors
  BY DEF Metr!Init, Authors

\* A selection is made by who is signed in, or was when a row was clicked.
LEMMA AuthorsStep == MetrInv /\ Authors /\ [Metr!Next]_(Metr!vars) => Authors'
  <1> SUFFICES ASSUME MetrInv, Authors, [Metr!Next]_(Metr!vars) PROVE Authors'
    OBVIOUS
  <1>0. c10 \in Users
    BY DEF MetrInv, RecentInv
  <1>1. CASE Metr!Toggle \/ Metr!ApplyRecipe
    <2>1. d6' = c10 /\ c8' = c8
      BY <1>1 DEF Metr!Toggle, Metr!ApplyRecipe
    <2> QED BY <1>0, <2>1 DEF Authors
  <1>2. CASE Metr!ToggleRow
    <2>1. PICK r \in Metr!Rows : c8' = c8 \cup {[n |-> d5, by |-> c10, key |-> r[1],
            hosts |-> Metr!ToSet(Metr!Columns), own |-> Metr!RowIds(r), order |-> c1]}
      BY <1>2 DEF Metr!ToggleRow
    <2>2. d6' = d6
      BY <1>2 DEF Metr!ToggleRow
    <2> QED BY <1>0, <2>1, <2>2 DEF Authors
  <1>3. ASSUME NEW r \in c8, Metr!RowAnswered(r) PROVE Authors'
    <2>1. d6' = r.by /\ c8' \subseteq c8
      BY <1>3 DEF Metr!RowAnswered
    <2> QED BY <2>1 DEF Authors
  <1>4. CASE Metr!AddHost \/ Metr!Type \/ Metr!SignIn \/ Metr!Debounce \/ Metr!LookupEnds
             \/ Metr!HitsArrive \/ Metr!MoreArrive \/ Metr!LabelsArrive \/ Metr!RunEffects
             \/ UNCHANGED Metr!vars
    <2>1. d6' = d6 /\ c8' = c8
      BY <1>4 DEF Metr!AddHost, Metr!Type, Metr!SignIn, Metr!Debounce, Metr!LookupEnds,
                  Metr!HitsArrive, Metr!MoreArrive, Metr!LabelsArrive, Metr!RunEffects, Metr!vars
    <2> QED BY <2>1 DEF Authors
  <1> QED BY <1>1, <1>2, <1>3, <1>4 DEF Metr!Next

\* With what is known of the search these are the types of the metrics.
LEMMA MetrIsTyped == MetrInv /\ MetrTypes /\ Authors => Metr!TypeOK
  <1> SUFFICES ASSUME MetrInv, MetrTypes, Authors PROVE Metr!TypeOK
    OBVIOUS
  <1>1. \A q \in Searches : q.of \subseteq Metrics
    BY PagesAssumption DEF Metr!MetricsAssumption
  <1>2. c5 = Absent \/ c5.items \subseteq Metrics
    BY <1>1 DEF MetrInv, SearchInv, FoundWith
  <1>3. Metr!Cardinality(Metr!ToSet(c1)) = Len(c1)
    BY OnceIsCounted DEF MetrTypes
  <1> QED BY <1>2, <1>3 DEF MetrInv, SearchInv, RecentInv, MetrTypes, Authors, Metr!TypeOK

\* Every value of the pages stays of its type, whatever the user does and in
\* whatever order the answers come: a selection of metrics never has an item twice
\* (MetricsPage.tsx:84-124, 174-205), no two clusters of the topology share an id
\* (topology.ts:300-417), a section of a host has cards only for charts it shows
\* and no item both empty and flat, the items of the latest data are the present
\* host's, and an entry of the maintenance form is a window the server accepts.
THEOREM PagesKeepTypes == PagesSpec => []PagesTypeOK
  <1> DEFINE Inv == /\ TypeOK
                    /\ about = "problems"    => ProblemsInv
                    /\ about = "docker"      => ContainersInv
                    /\ about = "maintenance" => FormInv
                    /\ about = "host"        => SectionsInv /\ HostTypes
                    /\ about = "latest"      => LatestTypes
                    /\ about = "metrics"     => MetrInv /\ MetrTypes /\ Authors
                    /\ about = "query"       => BarInv
                    /\ about = "topology"    => StageTypes
  <1>1. PagesInit => Inv
    <2> SUFFICES ASSUME PagesInit PROVE Inv
      OBVIOUS
    <2>1. TypeOK
      BY FirstTypes DEF PagesInit
    <2>2. /\ about = "problems"    => Prob!Init
          /\ about = "docker"      => Dock!Init
          /\ about = "maintenance" => Form!Init
          /\ about = "host"        => Dash!Init
          /\ about = "latest"      => Data!Init
          /\ about = "metrics"     => Metr!Init
          /\ about = "query"       => Bar!Init
          /\ about = "topology"    => Topo!Init
      BY DEF PagesInit
    <2> QED BY <2>1, <2>2, PagesAssumption, ProblemsInit, ContainersInit, FormInit, SectionsInit,
               HostTypesInit, LatestInit, MetrInit, MetrTypesInit, AuthorsInit, BarInit, StageTypesInit
  <1>2. Inv /\ [PagesNext]_all => Inv'
    <2> SUFFICES ASSUME Inv, [PagesNext]_all PROVE Inv'
      OBVIOUS
    <2>1. about' = about
      BY DEF PagesNext, Rest, all
    <2>2. [Next]_vars
      BY DEF PagesNext, Rest, all
    <2>3. TypeOK'
      BY <2>2, LogsTypesStep
    <2>4. /\ about = "problems"    => [Prob!Next]_(Prob!vars)
          /\ about = "docker"      => [Dock!Next]_(Dock!vars)
          /\ about = "maintenance" => [Form!Next]_(Form!vars)
      BY DEF PagesNext, all, Prob!vars, Dock!vars, Form!vars
    <2>5. /\ about = "host"        => [Dash!Next]_(Dash!vars)
          /\ about = "latest"      => [Data!Next]_(Data!vars)
          /\ about = "metrics"     => [Metr!Next]_(Metr!vars)
      BY DEF PagesNext, all, Extra, Dash!vars, Data!vars, Metr!vars
    <2>6. /\ about = "query"       => [Bar!Next]_(Bar!vars)
          /\ about = "topology"    => [Topo!Next]_(Topo!vars)
      BY DEF PagesNext, all, Bar!vars, Topo!vars
    <2>7. /\ about = "problems"    => ProblemsInv'
          /\ about = "docker"      => ContainersInv'
          /\ about = "maintenance" => FormInv'
      BY <2>4, PagesAssumption, ProblemsStep, ContainersStep, FormStep
    <2>8. /\ about = "host"        => SectionsInv' /\ HostTypes'
          /\ about = "latest"      => LatestTypes'
          /\ about = "topology"    => StageTypes'
      BY <2>5, <2>6, SectionsStep, HostTypesStep, LatestStep, StageTypesStep
    <2>9. /\ about = "metrics"     => MetrInv' /\ MetrTypes' /\ Authors'
          /\ about = "query"       => BarInv'
      <3>1. MetrInv /\ [Metr!Next]_(Metr!vars) => MetrInv'
        BY SearchStep, RecentStep DEF MetrInv
      <3> QED BY <2>5, <2>6, <3>1, MetrTypesStep, AuthorsStep, BarStep
    <2> QED BY <2>1, <2>3, <2>7, <2>8, <2>9
  <1>3. Inv => PagesTypeOK
    <2>1. ContainersInv => Dock!TypeOK
      BY DEF ContainersInv
    <2>2. ProblemsInv => Prob!TypeOK
      BY DEF ProblemsInv
    <2>3. BarInv => Bar!TypeOK
      BY DEF BarInv, Bar!TypeOK, Words
    <2> QED BY <2>1, <2>2, <2>3, TypesOfEntries, HostIsTyped, LatestIsTyped, MetrIsTyped, StageIsTyped
            DEF PagesTypeOK
  <1> QED BY <1>1, <1>2, <1>3, PTL DEF PagesSpec
=============================================================================
