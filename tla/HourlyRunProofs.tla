---------------------------- MODULE HourlyRunProofs ----------------------------
(***************************************************************************)
(* Theorems about HourlyRun, for any runs, entries, readings and numbers of  *)
(* tables: what OwmClientProofs shows of the client alone holds in the       *)
(* pipeline, and the properties of Serving hold however runs overlap.        *)
(*                                                                          *)
(* What all arguments share: two runs that are alive have met.  So a run     *)
(* whose view of a table is changed behind its back has met the run that     *)
(* changed it, and the invariants say what holds of a run that has met none. *)
(***************************************************************************)
EXTENDS HourlyRun, OwmClientProofs, SumProofs

-----------------------------------------------------------------------------
(* The client in the pipeline.                                               *)
LEMMA ClientSteps == [Next]_vars => [ClientNext]_clientVars
<1> SUFFICES ASSUME [Next]_vars PROVE [ClientNext]_clientVars
  OBVIOUS
<1>1. CASE Ingest
  BY <1>1 DEF Ingest, ClientNext
<1>2. ASSUME NEW r \in Runs, StartRun(r) PROVE ClientNext
  BY <1>2 DEF StartRun, ClientNext
<1>3. ASSUME NEW r \in Runs, HandOver(r) PROVE ClientNext
  BY <1>3 DEF HandOver, ClientNext
<1>4. ASSUME NEW r \in Runs, Process(r) PROVE UNCHANGED clientVars
  BY <1>4 DEF Process
<1>5. CASE UNCHANGED vars
  BY <1>5 DEF vars
<1>6. QED BY <1>1, <1>2, <1>3, <1>4, <1>5 DEF Next

(* In the pipeline the client takes the steps of its own specification, and  *)
(* no other part of a run takes one for it.                                  *)
THEOREM PipelineRunsTheClient == Spec => ClientInit /\ [][ClientNext]_clientVars
<1>1. Init => ClientInit
  BY DEF Init
<1>2. QED BY <1>1, ClientSteps, PTL DEF Spec

LEMMA ClientInvInPipeline == Spec => []ClientInv
<1>1. Init => ClientInv
  BY ClientInvInit DEF Init
<1>2. ClientInv /\ [Next]_vars => ClientInv'
  BY ClientSteps, ClientInvStep
<1>3. QED BY <1>1, <1>2, PTL DEF Spec

(* Also in the pipeline each entry of CITIES is a record or given up.        *)
THEOREM PipelineEntriesAccounted == Spec => []EveryEntryAccounted
<1>1. ClientInv => EveryEntryAccounted
  BY DEF ClientInv
<1>2. QED BY <1>1, ClientInvInPipeline, PTL

(* Also in the pipeline requests and waits are bounded, and spent.           *)
THEOREM PipelineRetriesBounded == Spec => []RetriesAreSpent
BY ClientInvInPipeline, ClientInvSpent, PTL

-----------------------------------------------------------------------------
(* Steps on the serving state.                                               *)
ServingStep(r) ==
    \/ Abort(r)
    \/ \E readings \in SUBSET Reading, changed \in SUBSET Cities : Begin(r, readings, changed)
    \/ RunStep(r)

LEMMA ServingSteps ==
    ASSUME [Next]_vars
    PROVE  (\E r \in Runs : ServingStep(r)) \/ UNCHANGED servingVars
<1>1. CASE Ingest
  BY <1>1 DEF Ingest
<1>2. ASSUME NEW r \in Runs, StartRun(r) PROVE UNCHANGED servingVars
  BY <1>2 DEF StartRun
<1>3. ASSUME NEW r \in Runs, HandOver(r) PROVE ServingStep(r)
  <2>1. CASE Abort(r)
    BY <2>1 DEF ServingStep
  <2>2. ASSUME NEW readings \in Batches, NEW changed \in SUBSET Changing,
               Begin(r, readings, changed)
        PROVE  ServingStep(r)
    <3>1. readings \in SUBSET Reading
      BY HourlyRunAssumption DEF Batches
    <3>2. changed \in SUBSET Cities
      BY HourlyRunAssumption
    <3>3. QED BY <2>2, <3>1, <3>2 DEF ServingStep
  <2>3. QED BY <1>3, <2>1, <2>2 DEF HandOver
<1>4. ASSUME NEW r \in Runs, Process(r) PROVE ServingStep(r)
  BY <1>4 DEF Process, ServingStep
<1>5. CASE UNCHANGED vars
  BY <1>5 DEF vars
<1>6. QED BY <1>1, <1>2, <1>3, <1>4, <1>5 DEF Next

-----------------------------------------------------------------------------
(* Where runs stand.                                                         *)
RunsTyped ==
    /\ alive \subseteq Runs
    /\ at \in [Runs -> Places]
    /\ done \in [Runs -> Nat]
    /\ batch \in [Runs -> SUBSET Reading]
    /\ gold \in [1..GoldCount -> Runs \cup {NULL}]
    /\ lakeVersion \in [Cities -> Nat]
    /\ pgVersion \in [Cities -> Nat]

NotBegun == \A r \in Runs : at[r] = "waiting" => done[r] = 0 /\ r \notin alive

AliveMet == \A q, r \in alive : q # r => Met(q, r)

CoreInv == RunsTyped /\ NotBegun /\ AliveMet

(* What a step of r leaves to the others, and what it never takes back.      *)
OthersStay(r) ==
    \A x \in Runs \ {r} : /\ at'[x] = at[x]
                          /\ done'[x] = done[x]
                          /\ batch'[x] = batch[x]
                          /\ x \in alive' <=> x \in alive

(* A step of a run that goes on or ends.                                     *)
Moves(r) ==
    /\ OthersStay(r)
    /\ alive' \subseteq alive
    /\ at' \in [Runs -> Places]
    /\ done' \in [Runs -> Nat]
    /\ batch' \in [Runs -> SUBSET Reading]
    /\ at'[r] # "waiting"

LEMMA GoToMoves ==
    ASSUME CoreInv, NEW r \in Runs, NEW place \in Places \ {"waiting"}, GoTo(r, place)
    PROVE  Moves(r) /\ at'[r] = place /\ done'[r] = 0 /\ alive' = alive /\ batch' = batch
BY DEF CoreInv, RunsTyped, GoTo, Moves, OthersStay

LEMMA EndAtMoves ==
    ASSUME CoreInv, NEW r \in Runs, NEW place \in Places \ {"waiting"}, EndAt(r, place)
    PROVE  Moves(r) /\ at'[r] = place /\ done' = done /\ alive' = alive \ {r}
BY DEF CoreInv, RunsTyped, EndAt, Moves, OthersStay

LEMMA NextTableMoves ==
    ASSUME CoreInv, NEW r \in Runs, NEW n \in Nat, NEW place \in Places \ {"waiting"},
           at[r] # "waiting", NextTable(r, n, place)
    PROVE  /\ Moves(r) /\ alive' = alive /\ batch' = batch
           /\ done[r] + 1 = n => at'[r] = place /\ done'[r] = 0
           /\ done[r] + 1 # n => at'[r] = at[r] /\ done'[r] = done[r] + 1
BY DEF CoreInv, RunsTyped, NextTable, Moves, OthersStay

LEMMA CountMoves ==
    ASSUME CoreInv, NEW r \in Runs, CountStatic(r)
    PROVE  /\ Moves(r) /\ r \in alive /\ alive' = alive /\ batch' = batch
           /\ at[r] = "count" /\ at'[r] \in {"count", "insert", "dims"}
           /\ at'[r] = "insert" => done'[r] + 1 \notin pgStatic
<1>1. r \in alive /\ at[r] = "count"
  BY DEF CountStatic, Running
<1>2. CASE done[r] + 1 \in pgStatic
  <2>1. NextTable(r, StaticCount, "dims")
    BY <1>2 DEF CountStatic
  <2>2. QED BY <1>1, <2>1, NextTableMoves, ServingAssumption DEF Places
<1>3. CASE done[r] + 1 \notin pgStatic
  BY <1>1, <1>3 DEF CountStatic, CoreInv, RunsTyped, Moves, OthersStay, Places
<1>4. QED BY <1>2, <1>3

LEMMA InsertMoves ==
    ASSUME CoreInv, NEW r \in Runs, InsertStatic(r)
    PROVE  /\ Moves(r) /\ r \in alive /\ alive' = alive /\ batch' = batch
           /\ at[r] = "insert" /\ at'[r] \in {"count", "dims"}
BY ServingAssumption
   DEF InsertStatic, Running, CoreInv, RunsTyped, Moves, OthersStay, Places

LEMMA BeginMoves ==
    ASSUME CoreInv, NEW r \in Runs, NEW readings \in SUBSET Reading, NEW changed,
           Begin(r, readings, changed)
    PROVE  /\ OthersStay(r) /\ at[r] = "waiting" /\ at'[r] = "gold" /\ done' = done
           /\ done[r] = 0 /\ alive' = alive \cup {r} /\ met \subseteq met'
           /\ RunsTyped' /\ NotBegun' /\ AliveMet'
<1>1. /\ at[r] = "waiting" /\ at' = [at EXCEPT ![r] = "gold"] /\ done' = done
      /\ batch' = [batch EXCEPT ![r] = readings] /\ alive' = alive \cup {r}
      /\ met' = met \cup {{q, r} : q \in alive}
      /\ gold' = gold /\ lakeVersion' = lakeVersion /\ pgVersion' = pgVersion
  BY DEF Begin, lakeVars, pgVars
<1>2. RunsTyped' /\ NotBegun' /\ OthersStay(r) /\ done[r] = 0 /\ at'[r] = "gold"
  BY <1>1 DEF CoreInv, RunsTyped, NotBegun, OthersStay, Places
<1>3. AliveMet'
  <2> SUFFICES ASSUME NEW p \in alive', NEW q \in alive', p # q
               PROVE  {p, q} \in met'
    BY DEF AliveMet, Met
  <2>1. CASE p = r
    <3>1. q \in alive /\ {p, q} = {q, r}
      BY <1>1, <2>1
    <3>2. QED BY <1>1, <3>1
  <2>2. CASE q = r
    BY <1>1, <2>2
  <2>3. CASE p # r /\ q # r
    BY <1>1, <2>3 DEF CoreInv, AliveMet, Met
  <2>4. QED BY <2>1, <2>2, <2>3
<1>4. QED BY <1>1, <1>2, <1>3

LEMMA AbortMoves ==
    ASSUME CoreInv, NEW r \in Runs, Abort(r)
    PROVE  /\ Moves(r) /\ at[r] = "waiting" /\ at'[r] = "aborted" /\ alive' = alive
           /\ r \notin alive
BY DEF Abort, CoreInv, RunsTyped, NotBegun, Moves, OthersStay, Places

LEMMA MovesKeepCore ==
    ASSUME CoreInv, NEW r \in Runs, Moves(r), met' = met,
           gold' \in [1..GoldCount -> Runs \cup {NULL}],
           lakeVersion' \in [Cities -> Nat], pgVersion' \in [Cities -> Nat]
    PROVE  CoreInv'
<1>1. RunsTyped'
  BY DEF CoreInv, RunsTyped, Moves
<1>2. NotBegun'
  BY DEF CoreInv, RunsTyped, NotBegun, Moves, OthersStay
<1>3. AliveMet'
  BY DEF CoreInv, AliveMet, Met, Moves
<1>4. QED BY <1>1, <1>2, <1>3 DEF CoreInv

(* Steps of a run: which they are, and how far each brings it.               *)
LEMMA RunStepMoves ==
    ASSUME CoreInv, NEW r \in Runs, RunStep(r)
    PROVE  Moves(r) /\ r \in alive /\ at[r] # "waiting" /\ met' = met
<1>1. CASE WriteGold(r)
  <2>1. r \in alive /\ at[r] = "gold" /\ NextTable(r, GoldCount, "static") /\ met' = met
    BY <1>1 DEF WriteGold, Running, auxVars
  <2>2. QED BY <2>1, NextTableMoves, ServingAssumption DEF Places
<1>2. CASE Bootstrap(r)
  <2>1. r \in alive /\ at[r] = "static" /\ NextTable(r, StaticCount, "scd2") /\ met' = met
    BY <1>2 DEF Bootstrap, Running, auxVars
  <2>2. QED BY <2>1, NextTableMoves, ServingAssumption DEF Places
<1>3. CASE ApplyChanges(r)
  <2>1. r \in alive /\ at[r] = "scd2" /\ GoTo(r, "facts") /\ met' = met
    BY <1>3 DEF ApplyChanges, Running, auxVars
  <2>2. QED BY <2>1, GoToMoves DEF Places
<1>4. CASE LoadDaily(r)
  <2>1. r \in alive /\ at[r] = "facts" /\ GoTo(r, "count") /\ met' = met
    BY <1>4 DEF LoadDaily, Running, auxVars
  <2>2. QED BY <2>1, GoToMoves DEF Places
<1>5. CASE CountStatic(r)
  BY <1>5, CountMoves DEF CountStatic, auxVars
<1>6. CASE InsertStatic(r)
  BY <1>6, InsertMoves DEF InsertStatic, auxVars
<1>7. CASE CommitDims(r)
  <2>1. r \in alive /\ at[r] = "dims" /\ GoTo(r, "daily") /\ met' = met
    BY <1>7 DEF CommitDims, Running
  <2>2. QED BY <2>1, GoToMoves DEF Places
<1>8. CASE CommitDaily(r)
  <2>1. r \in alive /\ at[r] = "daily" /\ GoTo(r, "refresh") /\ met' = met
    BY <1>8 DEF CommitDaily, Running
  <2>2. QED BY <2>1, GoToMoves DEF Places
<1>9. CASE RefuseStatic(r) \/ RefuseDaily(r)
  <2>1. r \in alive /\ at[r] \in {"insert", "daily"} /\ EndAt(r, "refused") /\ met' = met
    BY <1>9 DEF RefuseStatic, RefuseDaily, Running, auxVars
  <2>2. QED BY <2>1, EndAtMoves DEF Places
<1>10. CASE Refresh(r) \/ RefreshFails(r)
  <2>1. r \in alive /\ at[r] = "refresh" /\ EndAt(r, "complete") /\ met' = met
    BY <1>10 DEF Refresh, RefreshFails, Running, auxVars
  <2>2. QED BY <2>1, EndAtMoves DEF Places
<1>11. CASE Die(r)
  <2>1. r \in alive /\ EndAt(r, at[r]) /\ met' = met
    BY <1>11 DEF Die, auxVars
  <2>2. at[r] \in Places \ {"waiting"}
    BY <2>1 DEF CoreInv, RunsTyped, NotBegun
  <2>3. QED BY <2>1, <2>2, EndAtMoves
<1>12. QED
  BY <1>1, <1>2, <1>3, <1>4, <1>5, <1>6, <1>7, <1>8, <1>9, <1>10, <1>11 DEF RunStep

LEMMA CoreInit == Init => CoreInv
BY DEF Init, ServingInit, CoreInv, RunsTyped, NotBegun, AliveMet, Places

LEMMA CoreStep ==
    ASSUME CoreInv, NEW r \in Runs, ServingStep(r)
    PROVE  CoreInv' /\ OthersStay(r) /\ met \subseteq met'
<1>1. CASE Abort(r)
  <2>1. met' = met /\ gold' = gold /\ lakeVersion' = lakeVersion /\ pgVersion' = pgVersion
    BY <1>1 DEF Abort, lakeVars, pgVars, auxVars
  <2>2. Moves(r) /\ alive' = alive
    BY <1>1, AbortMoves
  <2>3. CoreInv'
    BY <2>1, <2>2, MovesKeepCore DEF CoreInv, RunsTyped
  <2>4. QED BY <2>1, <2>2, <2>3 DEF Moves
<1>2. ASSUME NEW readings \in SUBSET Reading, NEW changed \in SUBSET Cities,
             Begin(r, readings, changed)
      PROVE  CoreInv' /\ OthersStay(r) /\ met \subseteq met'
  BY <1>2, BeginMoves DEF CoreInv
<1>3. CASE RunStep(r)
  <2>1. Moves(r) /\ r \in alive /\ met' = met
    BY <1>3, RunStepMoves
  <2>2. gold' \in [1..GoldCount -> Runs \cup {NULL}]
    <3>1. gold' = gold \/ gold' = [gold EXCEPT ![done[r] + 1] = r]
      BY <1>3 DEF RunStep, WriteGold, Bootstrap, ApplyChanges, LoadDaily, CountStatic,
         InsertStatic, RefuseStatic, CommitDims, CommitDaily, RefuseDaily, Refresh,
         RefreshFails, Die, lakeVars
    <3>2. QED BY <3>1 DEF CoreInv, RunsTyped
  <2>3. lakeVersion' \in [Cities -> Nat]
    <3>1. CASE ApplyChanges(r)
      BY <3>1 DEF ApplyChanges, CoreInv, RunsTyped
    <3>2. CASE ~ApplyChanges(r)
      <4>1. lakeVersion' = lakeVersion
        BY <1>3, <3>2 DEF RunStep, WriteGold, Bootstrap, LoadDaily, CountStatic,
           InsertStatic, RefuseStatic, CommitDims, CommitDaily, RefuseDaily, Refresh,
           RefreshFails, Die, lakeVars
      <4>2. QED BY <4>1 DEF CoreInv, RunsTyped
    <3>3. QED BY <3>1, <3>2
  <2>4. pgVersion' \in [Cities -> Nat]
    <3>1. pgVersion' \in {pgVersion, lakeVersion}
      BY <1>3 DEF RunStep, WriteGold, Bootstrap, ApplyChanges, LoadDaily, CountStatic,
         InsertStatic, RefuseStatic, CommitDims, CommitDaily, RefuseDaily, Refresh,
         RefreshFails, Die, pgVars
    <3>2. QED BY <3>1 DEF CoreInv, RunsTyped
  <2>5. QED BY <2>1, <2>2, <2>3, <2>4, MovesKeepCore DEF Moves
<1>4. QED BY <1>1, <1>2, <1>3 DEF ServingStep

LEMMA CoreUnchanged == CoreInv /\ UNCHANGED servingVars => CoreInv'
BY DEF servingVars, runVars, lakeVars, pgVars, auxVars, CoreInv, RunsTyped, NotBegun,
       AliveMet, Met

-----------------------------------------------------------------------------
(* The view.                                                                 *)
ViewInv ==
    /\ \A r \in refreshed : r \in Runs /\ r \notin alive /\ at[r] # "waiting"
    /\ RefreshedViewsAreCurrent

LEMMA ViewStep ==
    ASSUME CoreInv, ViewInv, NEW r \in Runs, ServingStep(r)
    PROVE  ViewInv'
<1>1. CASE r \notin alive
  <2>1. Abort(r) \/ \E readings \in SUBSET Reading, changed \in SUBSET Cities :
                       Begin(r, readings, changed)
    BY <1>1, RunStepMoves DEF ServingStep
  <2>2. /\ at[r] = "waiting" /\ at'[r] # "waiting" /\ OthersStay(r) /\ refreshed' = refreshed
        /\ lastCommit' = lastCommit /\ trends' = trends /\ pgDaily' = pgDaily
        /\ pgVersion' = pgVersion
    BY <2>1, AbortMoves, BeginMoves DEF Abort, Begin, Moves, pgVars, auxVars
  <2>3. QED
    BY <2>2 DEF ViewInv, RefreshedViewsAreCurrent, Trends, OthersStay
<1>2. CASE r \in alive
  <2>1. RunStep(r)
    BY <1>2, AbortMoves, BeginMoves DEF ServingStep, CoreInv, NotBegun
  <2>2. Moves(r)
    BY <2>1, RunStepMoves
  <2>3. \A x \in refreshed : x \in Runs \ {r} /\ x \notin alive' /\ at'[x] # "waiting"
    BY <1>2, <2>2 DEF ViewInv, Moves, OthersStay
  <2>4. CASE Refresh(r)
    <3>1. /\ refreshed' = refreshed \cup {r} /\ trends' = Trends /\ pgDaily' = pgDaily
          /\ pgVersion' = pgVersion /\ EndAt(r, "complete")
      BY <2>4 DEF Refresh
    <3>2. r \notin alive' /\ at'[r] # "waiting"
      BY <2>2, <3>1 DEF EndAt, Moves
    <3>3. QED
      BY <2>3, <3>1, <3>2 DEF ViewInv, RefreshedViewsAreCurrent, Trends
  <2>5. CASE CommitDims(r) \/ CommitDaily(r)
    <3>1. refreshed' = refreshed /\ lastCommit' = r
      BY <2>5 DEF CommitDims, CommitDaily
    <3>2. QED BY <2>3, <3>1 DEF ViewInv, RefreshedViewsAreCurrent
  <2>6. CASE ~Refresh(r) /\ ~CommitDims(r) /\ ~CommitDaily(r)
    <3>1. /\ refreshed' = refreshed /\ lastCommit' = lastCommit /\ trends' = trends
          /\ pgDaily' = pgDaily /\ pgVersion' = pgVersion
      BY <2>1, <2>6 DEF RunStep, WriteGold, Bootstrap, ApplyChanges, LoadDaily, CountStatic,
         InsertStatic, RefuseStatic, RefuseDaily, RefreshFails, Die, pgVars, auxVars
    <3>2. QED BY <2>3, <3>1 DEF ViewInv, RefreshedViewsAreCurrent, Trends
  <2>7. QED BY <2>4, <2>5, <2>6
<1>3. QED BY <1>1, <1>2

-----------------------------------------------------------------------------
(* Refusals: what a run has been told by PostgreSQL, or computed from the    *)
(* lake, holds until it acts on it, unless it overlaps another run.          *)
Overlapped(r) == \E q \in Runs \ {r} : Met(q, r)

RefusalInv ==
    /\ \A r \in alive : at[r] = "insert" /\ done[r] + 1 \in pgStatic => Overlapped(r)
    /\ \A r \in alive : at[r] = "daily" /\ pgVersion # lakeVersion => Overlapped(r)
    /\ RefusedOnlyByOverlap

LEMMA BuiltVersions ==
    ASSUME RunsTyped, NEW r \in Runs, NEW p \in Built(r)
    PROVE  p.city \in Cities /\ p.version = lakeVersion[p.city]
<1>1. PICK x \in batch[r] : p = DailyRowOf(r, x.city, x.day)
  BY DEF Built
<1>2. x.city \in Cities
  BY DEF RunsTyped, Reading
<1>3. p.city = x.city /\ p.version = lakeVersion[x.city]
  BY <1>1 DEF DailyRowOf
<1>4. QED BY <1>2, <1>3

LEMMA RefusalStep ==
    ASSUME CoreInv, RefusalInv, NEW r \in Runs, ServingStep(r)
    PROVE  RefusalInv'
<1>1. CoreInv' /\ OthersStay(r) /\ met \subseteq met'
  BY CoreStep
<1>2. \A x \in Runs : Overlapped(x) => Overlapped(x)'
  BY <1>1 DEF Overlapped, Met
<1>3. CASE r \notin alive
  <2>1. Abort(r) \/ \E readings \in SUBSET Reading, changed \in SUBSET Cities :
                       Begin(r, readings, changed)
    BY <1>3, RunStepMoves DEF ServingStep
  <2>2. at'[r] \in {"aborted", "gold"}
    BY <2>1, AbortMoves, BeginMoves
  <2>3. pgStatic' = pgStatic /\ pgVersion' = pgVersion /\ lakeVersion' = lakeVersion
    BY <2>1 DEF Abort, Begin, lakeVars, pgVars
  <2>4. QED
    BY <1>1, <1>2, <2>2, <2>3
       DEF RefusalInv, RefusedOnlyByOverlap, Overlapped, OthersStay, CoreInv, RunsTyped
<1>4. CASE r \in alive
  <2>1. RunStep(r)
    BY <1>4, AbortMoves, BeginMoves DEF ServingStep, CoreInv, NotBegun
  <2>2. Moves(r) /\ met' = met
    BY <2>1, RunStepMoves
  <2>3. \A x \in alive \ {r} : Overlapped(x)'
    BY <1>2, <1>4 DEF Overlapped, CoreInv, AliveMet, RunsTyped
  <2>4. \A x \in Runs \ {r} : at'[x] = "refused" => Overlapped(x)'
    BY <1>2, <2>2 DEF RefusalInv, RefusedOnlyByOverlap, Overlapped, Moves, OthersStay
  <2>5. SUFFICES ASSUME ~Overlapped(r)
                 PROVE  /\ at'[r] = "insert" /\ r \in alive' => done'[r] + 1 \notin pgStatic'
                        /\ at'[r] = "daily" /\ r \in alive' => pgVersion' = lakeVersion'
                        /\ at'[r] # "refused"
    <3>1. Overlapped(r) => Overlapped(r)'
      BY <1>2
    <3>2. \A x \in alive' : x # r => Overlapped(x)'
      BY <2>2, <2>3 DEF Moves
    <3>3. /\ at'[r] = "insert" /\ r \in alive' => done'[r] + 1 \notin pgStatic' \/ Overlapped(r)'
          /\ at'[r] = "daily" /\ r \in alive' => pgVersion' = lakeVersion' \/ Overlapped(r)'
          /\ at'[r] = "refused" => Overlapped(r)'
      BY <2>5, <3>1
    <3>4. RefusedOnlyByOverlap'
      BY <2>4, <3>3 DEF RefusedOnlyByOverlap, Overlapped
    <3>5. QED BY <3>2, <3>3, <3>4 DEF RefusalInv
  <2>6. CASE CountStatic(r)
    BY <2>6, CountMoves DEF CountStatic, pgVars
  <2>7. CASE InsertStatic(r)
    BY <2>7, InsertMoves
  <2>8. CASE CommitDims(r)
    <3>1. pgVersion' = lakeVersion /\ lakeVersion' = lakeVersion /\ GoTo(r, "daily")
      BY <2>8 DEF CommitDims, lakeVars
    <3>2. QED BY <3>1, GoToMoves DEF Places
  <2>9. ASSUME RefuseStatic(r) PROVE FALSE
    BY <2>5, <2>9 DEF RefuseStatic, Running, RefusalInv
  <2>10. ASSUME RefuseDaily(r) PROVE FALSE
    <3>1. pgVersion = lakeVersion
      BY <2>5, <2>10 DEF RefuseDaily, Running, RefusalInv
    <3>2. \A p \in Built(r) : p.version <= pgVersion[p.city]
      BY <3>1, BuiltVersions DEF CoreInv, RunsTyped
    <3>3. QED BY <2>10, <3>2 DEF RefuseDaily, Resolves
  <2>11. CASE Die(r)
    <3>1. EndAt(r, at[r]) /\ at[r] \in Places \ {"waiting"}
      BY <1>4, <2>11 DEF Die, CoreInv, RunsTyped, NotBegun
    <3>2. at'[r] = at[r] /\ alive' = alive \ {r}
      BY <3>1, EndAtMoves
    <3>3. QED BY <2>5, <3>2 DEF RefusalInv, RefusedOnlyByOverlap, Overlapped
  <2>12. CASE WriteGold(r) \/ Bootstrap(r)
    <3>1. \/ at[r] = "gold" /\ NextTable(r, GoldCount, "static")
          \/ at[r] = "static" /\ NextTable(r, StaticCount, "scd2")
      BY <2>12 DEF WriteGold, Bootstrap, Running
    <3>2. at'[r] \in {"gold", "static", "scd2"}
      BY <3>1, NextTableMoves, ServingAssumption DEF Places
    <3>3. QED BY <3>2
  <2>13. CASE ApplyChanges(r) \/ LoadDaily(r) \/ CommitDaily(r)
    <3>1. \E place \in {"facts", "count", "refresh"} : GoTo(r, place)
      BY <2>13 DEF ApplyChanges, LoadDaily, CommitDaily
    <3>2. at'[r] \in {"facts", "count", "refresh"}
      BY <3>1, GoToMoves DEF Places
    <3>3. QED BY <3>2
  <2>14. CASE Refresh(r) \/ RefreshFails(r)
    <3>1. EndAt(r, "complete")
      BY <2>14 DEF Refresh, RefreshFails
    <3>2. at'[r] = "complete"
      BY <3>1, EndAtMoves DEF Places
    <3>3. QED BY <3>2
  <2>15. QED
    BY <2>1, <2>6, <2>7, <2>8, <2>9, <2>10, <2>11, <2>12, <2>13, <2>14 DEF RunStep
<1>5. QED BY <1>3, <1>4

-----------------------------------------------------------------------------
(* The Gold tables: what a run has written so far is still there, or was     *)
(* overwritten by a run it has met.                                          *)
GoldInv ==
    /\ \A r \in alive : at[r] = "gold" =>
          /\ done[r] < GoldCount
          /\ \A t \in 1..done[r] : gold[t] = r \/ (gold[t] # NULL /\ Met(gold[t], r))
    /\ GoldTablesAgree

(* A step that writes no Gold table.                                         *)
LEMMA GoldStays ==
    ASSUME CoreInv, GoldInv, NEW r \in Runs, OthersStay(r), met \subseteq met',
           CoreInv', gold' = gold,
           InGold(r) => InGold(r)',
           r \in alive' /\ at'[r] = "gold" => done'[r] = 0
    PROVE  GoldInv'
<1>1. \A x \in Runs : InGold(x) => InGold(x)'
  BY DEF OthersStay, InGold
<1>2. GoldTablesAgree'
  <2>1. \A p, q : Met(p, q) => Met(p, q)'
    BY DEF Met
  <2>2. \A t \in 1..GoldCount : gold[t] # NULL => gold[t] \in Runs
    BY DEF CoreInv, RunsTyped
  <2>3. QED BY <1>1, <2>1, <2>2 DEF GoldInv, GoldTablesAgree
<1>3. ASSUME NEW x \in alive', at'[x] = "gold"
      PROVE  /\ done'[x] < GoldCount
             /\ \A t \in 1..done'[x] : gold'[t] = x \/ (gold'[t] # NULL /\ Met(gold[t], x)')
  <2>1. CASE x = r
    BY <1>3, <2>1, ServingAssumption
  <2>2. CASE x # r
    <3>1. x \in alive /\ at[x] = "gold" /\ done'[x] = done[x]
      BY <1>3, <2>2 DEF OthersStay, CoreInv, RunsTyped
    <3>2. QED BY <3>1 DEF GoldInv, Met
  <2>3. QED BY <2>1, <2>2
<1>4. QED BY <1>2, <1>3 DEF GoldInv

LEMMA WriteGoldKeepsInv ==
    ASSUME CoreInv, GoldInv, NEW r \in Runs, WriteGold(r), CoreInv', OthersStay(r)
    PROVE  GoldInv'
<1> DEFINE n == done[r] + 1
<1>1. /\ r \in alive /\ at[r] = "gold" /\ gold' = [gold EXCEPT ![n] = r] /\ met' = met
      /\ NextTable(r, GoldCount, "static")
  BY DEF WriteGold, Running, auxVars
<1>2. n \in 1..GoldCount
  BY <1>1, ServingAssumption DEF GoldInv, CoreInv, RunsTyped
<1>3. gold'[n] = r /\ \A t \in 1..GoldCount : t # n => gold'[t] = gold[t]
  BY <1>1, <1>2 DEF CoreInv, RunsTyped
<1>4. /\ n = GoldCount => at'[r] = "static"
      /\ n # GoldCount => at'[r] = "gold" /\ done'[r] = n
  BY <1>1, NextTableMoves, ServingAssumption DEF Places
<1>5. r # NULL
  BY ServingAssumption
<1>6. \A t \in 1..done[r] : t \in 1..GoldCount /\ t # n
  BY <1>2, ServingAssumption DEF CoreInv, RunsTyped
<1>7. \A t \in 1..done[r] : gold'[t] = r \/ (gold'[t] # NULL /\ Met(gold[t], r)')
  BY <1>1, <1>3, <1>6 DEF GoldInv, Met
<1>8. \A x \in alive' : at'[x] = "gold" =>
        /\ done'[x] < GoldCount
        /\ \A t \in 1..done'[x] : gold'[t] = x \/ (gold'[t] # NULL /\ Met(gold[t], x)')
  <2> SUFFICES ASSUME NEW x \in alive', at'[x] = "gold"
               PROVE  /\ done'[x] < GoldCount
                      /\ \A t \in 1..done'[x] :
                            gold'[t] = x \/ (gold'[t] # NULL /\ Met(gold[t], x)')
    OBVIOUS
  <2>1. CASE x = r
    <3>1. n # GoldCount /\ done'[x] = n
      BY <1>4, <2>1
    <3>2. \A t \in 1..n : t = n \/ t \in 1..done[r]
      BY DEF CoreInv, RunsTyped
    <3>3. n < GoldCount
      BY <1>2, <3>1, ServingAssumption
    <3>4. ASSUME NEW t \in 1..n
          PROVE  gold'[t] = r \/ (gold'[t] # NULL /\ Met(gold[t], r)')
      BY <1>3, <1>7, <3>2
    <3>5. QED BY <2>1, <3>1, <3>3, <3>4
  <2>2. CASE x # r
    <3>1. x \in alive /\ x \in Runs /\ at[x] = "gold" /\ done'[x] = done[x]
      BY <2>2 DEF OthersStay, CoreInv, RunsTyped
    <3>2. Met(r, x)'
      BY <1>1, <2>2, <3>1 DEF CoreInv, AliveMet, Met
    <3>3. \A t \in 1..done[x] : t \in 1..GoldCount
      BY <3>1, ServingAssumption DEF GoldInv, CoreInv, RunsTyped
    <3>4. ASSUME NEW t \in 1..done[x]
          PROVE  gold'[t] = x \/ (gold'[t] # NULL /\ Met(gold[t], x)')
      <4>1. CASE t = n
        BY <1>3, <1>5, <3>2, <4>1
      <4>2. CASE t # n
        BY <1>1, <1>3, <3>1, <3>3, <4>2 DEF GoldInv, Met
      <4>3. QED BY <4>1, <4>2
    <3>5. QED BY <3>1, <3>4 DEF GoldInv
  <2>3. QED BY <2>1, <2>2
<1>9. GoldTablesAgree'
  <2>1. CASE n = GoldCount
    <3>1. gold'[GoldCount] = r
      BY <1>3, <2>1
    <3>2. \A t \in 1..GoldCount : t = n \/ t \in 1..done[r]
      BY <2>1 DEF CoreInv, RunsTyped
    <3>3. \A t \in 1..GoldCount : gold'[t] = r \/ Met(gold[t], r)'
      BY <1>3, <1>7, <3>2
    <3>4. QED BY <1>5, <3>1, <3>3 DEF GoldTablesAgree
  <2>2. CASE n # GoldCount
    <3>1. gold'[GoldCount] = gold[GoldCount]
      BY <1>3, <2>2, ServingAssumption
    <3>2. InGold(r)'
      BY <1>2, <1>4, <2>2 DEF InGold
    <3>3. ASSUME NEW t \in 1..GoldCount
          PROVE  \/ gold'[t] \in {gold'[GoldCount], NULL}
                 \/ InGold(gold[t])'
                 \/ gold'[GoldCount] # NULL /\ Met(gold[t], gold[GoldCount])'
      <4>1. CASE t = n
        BY <1>3, <3>2, <4>1
      <4>2. CASE t # n
        <5>1. gold'[t] = gold[t] /\ gold[t] \in Runs \cup {NULL}
          BY <1>3, <4>2 DEF CoreInv, RunsTyped
        <5>2. gold[t] \in Runs /\ InGold(gold[t]) => InGold(gold[t])'
          <6>1. CASE gold[t] = r
            <7>1. gold'[t] = r
              BY <5>1, <6>1
            <7>2. at'[gold[t]] = "gold" /\ done'[gold[t]] > 0
              BY <1>2, <1>4, <2>2, <6>1
            <7>3. QED BY <5>1, <7>2 DEF InGold
          <6>2. CASE gold[t] # r
            BY <5>1, <6>2 DEF OthersStay, InGold
          <6>3. QED BY <6>1, <6>2
        <5>3. QED BY <1>1, <3>1, <5>1, <5>2 DEF GoldInv, GoldTablesAgree, Met
      <4>3. QED BY <4>1, <4>2
    <3>4. QED BY <3>3 DEF GoldTablesAgree
  <2>3. QED BY <2>1, <2>2
<1>10. QED BY <1>8, <1>9 DEF GoldInv

LEMMA GoldStep ==
    ASSUME CoreInv, GoldInv, NEW r \in Runs, ServingStep(r)
    PROVE  GoldInv'
<1>1. CoreInv' /\ OthersStay(r) /\ met \subseteq met'
  BY CoreStep
<1>2. CASE WriteGold(r)
  BY <1>1, <1>2, WriteGoldKeepsInv
<1>3. CASE r \notin alive
  <2>1. Abort(r) \/ \E readings \in SUBSET Reading, changed \in SUBSET Cities :
                       Begin(r, readings, changed)
    BY <1>3, RunStepMoves DEF ServingStep
  <2>2. at[r] = "waiting" /\ done'[r] = done[r] /\ gold' = gold
    BY <2>1, AbortMoves, BeginMoves DEF Abort, Begin, lakeVars
  <2>3. QED
    BY <1>1, <2>2, GoldStays DEF InGold, CoreInv, NotBegun
<1>4. CASE Die(r)
  <2>1. EndAt(r, at[r]) /\ at[r] \in Places \ {"waiting"} /\ gold' = gold
    BY <1>4 DEF Die, lakeVars, CoreInv, RunsTyped, NotBegun
  <2>2. at'[r] = at[r] /\ done' = done /\ r \notin alive'
    BY <2>1, EndAtMoves
  <2>3. QED BY <1>1, <2>1, <2>2, GoldStays DEF InGold
<1>5. CASE r \in alive /\ ~WriteGold(r) /\ ~Die(r)
  <2>1. RunStep(r)
    BY <1>5, AbortMoves, BeginMoves DEF ServingStep, CoreInv, NotBegun
  <2>2. gold' = gold /\ at[r] # "gold"
    BY <1>5, <2>1 DEF RunStep, Bootstrap, ApplyChanges, LoadDaily, CountStatic,
       InsertStatic, RefuseStatic, CommitDims, CommitDaily, RefuseDaily, Refresh,
       RefreshFails, Running, lakeVars
  <2>3. at'[r] # "gold"
    <3>1. CASE Bootstrap(r)
      BY <3>1, NextTableMoves, ServingAssumption DEF Bootstrap, Running, Places
    <3>2. CASE CountStatic(r) \/ InsertStatic(r)
      BY <3>2, CountMoves, InsertMoves
    <3>3. CASE ~Bootstrap(r) /\ ~CountStatic(r) /\ ~InsertStatic(r)
      <4>1. \E place \in Places \ {"waiting", "gold"} : GoTo(r, place) \/ EndAt(r, place)
        BY <1>5, <2>1, <3>3 DEF RunStep, ApplyChanges, LoadDaily, RefuseStatic, CommitDims,
           CommitDaily, RefuseDaily, Refresh, RefreshFails, Places
      <4>2. QED BY <4>1, GoToMoves, EndAtMoves
    <3>4. QED BY <3>1, <3>2, <3>3
  <2>4. QED BY <1>1, <2>2, <2>3, GoldStays DEF InGold
<1>6. QED BY <1>2, <1>3, <1>4, <1>5

-----------------------------------------------------------------------------
(* Daily facts.  A run aggregates its batch when it loads the lake and again *)
(* when it commits to PostgreSQL.  Both times it finds the same figures, and *)
(* a version that can only have grown.                                       *)
SameFigures(p, q) ==
    /\ SameDay(p, q)
    /\ p.min = q.min /\ p.max = q.max /\ p.sum = q.sum /\ p.count = q.count

RowFields == {"city", "day", "version", "min", "max", "sum", "count", "first", "run"}

IsRow(p) == p = [f \in RowFields |-> p[f]]

(* Places of a run between its daily facts in the lake and those in          *)
(* PostgreSQL, and after these.                                              *)
Loaded == {"count", "insert", "dims", "daily"}
Committed == {"refresh", "complete"}

RowOwners ==
    /\ \A p \in pgDaily : /\ IsRow(p) /\ p.first \in Runs /\ p.run \in Runs
                          /\ at[p.first] \in Committed /\ at[p.run] \in Committed
    /\ \A q \in lakeDaily : /\ q.run \in Runs /\ q.city \in Cities /\ q.version \in Nat
                            /\ at[q.run] \in Loaded \cup Committed \cup {"refused"}

(* What a run has loaded, it will build again ...                            *)
LoadedIsBuilt ==
    \A q \in lakeDaily : q.run \in alive /\ at[q.run] \in Loaded =>
        \E b \in Built(q.run) : SameFigures(b, q) /\ b.version >= q.version

(* ... and a day of its batch is in the lake from itself, or from a run it   *)
(* has met.                                                                  *)
LoadedIsOwned ==
    \A r \in alive : at[r] \in Loaded =>
        \A b \in Built(r), q \in lakeDaily : SameDay(q, b) => q.run = r \/ Met(q.run, r)

DailyInv == RowOwners /\ LoadedIsBuilt /\ LoadedIsOwned /\ DailyFollowsLake

LEMMA BuiltRows ==
    ASSUME RunsTyped, NEW r \in Runs, NEW b \in Built(r)
    PROVE  IsRow(b) /\ b.run = r /\ b.first = r /\ b.city \in Cities /\ b.version \in Nat
<1>1. PICK x \in batch[r] : b = DailyRowOf(r, x.city, x.day)
  BY DEF Built
<1>2. x.city \in Cities
  BY DEF RunsTyped, Reading
<1>3. IsRow(b) /\ b.run = r /\ b.first = r /\ b.city = x.city
      /\ b.version = lakeVersion[x.city]
  BY <1>1 DEF DailyRowOf, IsRow, RowFields
<1>4. QED BY <1>2, <1>3 DEF RunsTyped

VersionsGrow == \A c \in Cities : lakeVersion'[c] >= lakeVersion[c]

LEMMA BuiltAgain ==
    ASSUME RunsTyped, RunsTyped', NEW r \in Runs, batch'[r] = batch[r], VersionsGrow
    PROVE  /\ \A b \in Built(r) : \E b2 \in Built(r)' :
                  SameFigures(b2, b) /\ b2.version \in Nat /\ b2.version >= b.version
           /\ \A b2 \in Built(r)' : \E b \in Built(r) : SameDay(b, b2)
<1>1. ASSUME NEW c \in Cities, NEW d
      PROVE  /\ SameFigures(DailyRowOf(r, c, d)', DailyRowOf(r, c, d))
             /\ DailyRowOf(r, c, d)'.version \in Nat
             /\ DailyRowOf(r, c, d)'.version >= DailyRowOf(r, c, d).version
  BY DEF DailyRowOf, SameFigures, SameDay, VersionsGrow, RunsTyped
<1>2. \A x \in batch[r] : x.city \in Cities
  BY DEF RunsTyped, Reading
<1>3. ASSUME NEW b \in Built(r)
      PROVE  \E b2 \in Built(r)' :
                SameFigures(b2, b) /\ b2.version \in Nat /\ b2.version >= b.version
  <2>1. PICK x \in batch[r] : b = DailyRowOf(r, x.city, x.day)
    BY DEF Built
  <2>2. DailyRowOf(r, x.city, x.day)' \in Built(r)'
    BY DEF Built
  <2>3. QED BY <1>1, <1>2, <2>1, <2>2
<1>4. ASSUME NEW b2 \in Built(r)'
      PROVE  \E b \in Built(r) : SameDay(b, b2)
  <2>1. PICK x \in batch'[r] : b2 = DailyRowOf(r, x.city, x.day)'
    BY DEF Built
  <2>2. x \in batch[r] /\ DailyRowOf(r, x.city, x.day) \in Built(r)
    BY <2>1 DEF Built
  <2>3. QED BY <1>1, <1>2, <2>1, <2>2 DEF SameFigures, SameDay
<1>5. QED BY <1>3, <1>4

LEMMA StillBuilt ==
    ASSUME RunsTyped, RunsTyped', NEW r \in Runs, batch'[r] = batch[r], VersionsGrow,
           NEW q, q.version \in Nat,
           NEW b \in Built(r), SameFigures(b, q), b.version >= q.version
    PROVE  \E b2 \in Built(r)' : SameFigures(b2, q) /\ b2.version >= q.version
<1>1. PICK b2 \in Built(r)' :
        SameFigures(b2, b) /\ b2.version \in Nat /\ b2.version >= b.version
  BY BuiltAgain
<1>2. b.version \in Nat
  BY BuiltRows
<1>3. b2.version >= q.version
  BY <1>1, <1>2
<1>4. SameFigures(b2, q)
  BY <1>1 DEF SameFigures, SameDay
<1>5. QED BY <1>3, <1>4

(* A step that touches no daily facts.                                       *)
Quiet(r) ==
    /\ lakeDaily' = lakeDaily /\ pgDaily' = pgDaily
    /\ at'[r] \in Committed <=> at[r] \in Committed
    /\ at[r] \in Loaded \cup Committed \cup {"refused"}
         => at'[r] \in Loaded \cup Committed \cup {"refused"}
    /\ r \in alive' /\ at'[r] \in Loaded
         => r \in alive /\ at[r] \in Loaded /\ batch'[r] = batch[r]

LEMMA QuietKeepsDaily ==
    ASSUME CoreInv, CoreInv', DailyInv, NEW r \in Runs, OthersStay(r), met \subseteq met',
           VersionsGrow, Quiet(r)
    PROVE  DailyInv'
<1>1. \A x \in Runs : x \in alive' /\ at'[x] \in Loaded
                       => x \in alive /\ at[x] \in Loaded /\ batch'[x] = batch[x]
  BY DEF OthersStay, Quiet
<1>2. \A x \in Runs : at'[x] \in Committed <=> at[x] \in Committed
  BY DEF OthersStay, Quiet
<1>3. RowOwners'
  <2>1. \A p \in pgDaily' : /\ IsRow(p) /\ p.first \in Runs /\ p.run \in Runs
                            /\ at'[p.first] \in Committed /\ at'[p.run] \in Committed
    BY <1>2 DEF DailyInv, RowOwners, Quiet
  <2>2. \A q \in lakeDaily' : /\ q.run \in Runs /\ q.city \in Cities /\ q.version \in Nat
                              /\ at'[q.run] \in Loaded \cup Committed \cup {"refused"}
    BY DEF DailyInv, RowOwners, Quiet, OthersStay
  <2>3. QED BY <2>1, <2>2 DEF RowOwners
<1>4. LoadedIsBuilt'
  <2> SUFFICES ASSUME NEW q \in lakeDaily', q.run \in alive', at'[q.run] \in Loaded
               PROVE  \E b \in Built(q.run)' : SameFigures(b, q) /\ b.version >= q.version
    BY DEF LoadedIsBuilt
  <2>1. q \in lakeDaily /\ q.run \in Runs /\ q.version \in Nat
    BY DEF Quiet, DailyInv, RowOwners
  <2>2. q.run \in alive /\ at[q.run] \in Loaded /\ batch'[q.run] = batch[q.run]
    BY <1>1, <2>1
  <2>3. PICK b \in Built(q.run) : SameFigures(b, q) /\ b.version >= q.version
    BY <2>1, <2>2 DEF DailyInv, LoadedIsBuilt
  <2>4. QED BY <2>1, <2>2, <2>3, StillBuilt DEF CoreInv
<1>5. LoadedIsOwned'
  <2> SUFFICES ASSUME NEW x \in alive', at'[x] \in Loaded,
                      NEW b2 \in Built(x)', NEW q \in lakeDaily', SameDay(q, b2)
               PROVE  q.run = x \/ Met(q.run, x)'
    BY DEF LoadedIsOwned
  <2>1. x \in Runs /\ x \in alive /\ at[x] \in Loaded /\ batch'[x] = batch[x]
    BY <1>1 DEF CoreInv, RunsTyped
  <2>2. PICK b \in Built(x) : SameDay(b, b2)
    BY <2>1, BuiltAgain DEF CoreInv
  <2>3. q \in lakeDaily /\ SameDay(q, b)
    BY <2>2 DEF Quiet, SameDay
  <2>4. QED BY <2>1, <2>3 DEF DailyInv, LoadedIsOwned, Met
<1>6. DailyFollowsLake'
  <2> SUFFICES ASSUME NEW q \in lakeDaily, at'[q.run] \in Committed
               PROVE  \/ \E p \in pgDaily :
                            /\ SameDay(p, q) /\ p.sum = q.sum /\ p.count = q.count
                            /\ p.run = p.first =>
                                 p.min = q.min /\ p.max = q.max /\ p.version >= q.version
                      \/ \E p \in pgDaily : SameDay(p, q) /\ Met(p.run, q.run)'
    BY DEF DailyFollowsLake, Quiet, Committed
  <2>1. at[q.run] \in {"refresh", "complete"}
    BY <1>2 DEF DailyInv, RowOwners, Committed
  <2>2. QED BY <2>1 DEF DailyInv, DailyFollowsLake, Met
<1>7. QED BY <1>3, <1>4, <1>5, <1>6 DEF DailyInv

(* The run takes over the days of its batch.                                 *)
LEMMA LoadKeepsDaily ==
    ASSUME CoreInv, CoreInv', DailyInv, NEW r \in Runs, OthersStay(r), LoadDaily(r)
    PROVE  DailyInv'
<1>1. /\ r \in alive /\ at[r] = "facts" /\ lakeDaily' = MergedDaily(lakeDaily, Built(r))
      /\ GoTo(r, "count") /\ pgDaily' = pgDaily /\ met' = met /\ lakeVersion' = lakeVersion
  BY DEF LoadDaily, Running, pgVars, auxVars
<1>2. at'[r] = "count" /\ alive' = alive /\ batch' = batch
  BY <1>1, GoToMoves DEF Places
<1>3. VersionsGrow
  BY <1>1 DEF VersionsGrow, CoreInv, RunsTyped
<1>4. \A q \in lakeDaily' : \/ q \in Built(r)
                            \/ q \in lakeDaily /\ \A b \in Built(r) : ~SameDay(q, b)
  BY <1>1 DEF MergedDaily
<1>5. \A b \in Built(r) : b.run = r /\ b.city \in Cities /\ b.version \in Nat
  BY BuiltRows DEF CoreInv
<1>6. \A q \in lakeDaily : q.run \in Runs \ {r} /\ at'[q.run] = at[q.run]
  BY <1>1 DEF DailyInv, RowOwners, OthersStay, Loaded, Committed
<1>7. RowOwners'
  <2>1. \A p \in pgDaily' : /\ IsRow(p) /\ p.first \in Runs /\ p.run \in Runs
                            /\ at'[p.first] \in Committed /\ at'[p.run] \in Committed
    BY <1>1, <1>2 DEF DailyInv, RowOwners, OthersStay, Committed
  <2>2. \A q \in lakeDaily' : /\ q.run \in Runs /\ q.city \in Cities /\ q.version \in Nat
                              /\ at'[q.run] \in Loaded \cup Committed \cup {"refused"}
    BY <1>2, <1>4, <1>5, <1>6 DEF DailyInv, RowOwners, Loaded
  <2>3. QED BY <2>1, <2>2 DEF RowOwners
<1>8. LoadedIsBuilt'
  <2> SUFFICES ASSUME NEW q \in lakeDaily', q.run \in alive', at'[q.run] \in Loaded
               PROVE  \E b \in Built(q.run)' : SameFigures(b, q) /\ b.version >= q.version
    BY DEF LoadedIsBuilt
  <2>1. PICK b \in Built(q.run) : SameFigures(b, q) /\ b.version >= q.version
    <3>1. CASE q \in Built(r)
      BY <1>5, <3>1 DEF SameFigures, SameDay
    <3>2. CASE q \in lakeDaily
      BY <1>2, <1>6, <3>2 DEF DailyInv, LoadedIsBuilt
    <3>3. QED BY <1>4, <3>1, <3>2
  <2>2. q.run \in Runs /\ q.version \in Nat /\ batch'[q.run] = batch[q.run]
    BY <1>2, <1>4, <1>5, <1>6 DEF DailyInv, RowOwners
  <2>3. QED BY <1>3, <2>1, <2>2, StillBuilt DEF CoreInv
<1>9. LoadedIsOwned'
  <2> SUFFICES ASSUME NEW x \in alive', at'[x] \in Loaded,
                      NEW b2 \in Built(x)', NEW q \in lakeDaily', SameDay(q, b2)
               PROVE  q.run = x \/ Met(q.run, x)'
    BY DEF LoadedIsOwned
  <2>1. x \in Runs /\ x \in alive /\ batch'[x] = batch[x]
    BY <1>2 DEF CoreInv, RunsTyped
  <2>2. PICK b \in Built(x) : SameDay(b, b2)
    BY <1>3, <2>1, BuiltAgain DEF CoreInv
  <2>3. SameDay(q, b)
    BY <2>2 DEF SameDay
  <2>4. CASE q \in Built(r)
    BY <1>1, <1>5, <2>1, <2>4 DEF CoreInv, AliveMet, Met
  <2>5. CASE q \in lakeDaily /\ \A row \in Built(r) : ~SameDay(q, row)
    <3>1. x # r
      BY <2>3, <2>5
    <3>2. at[x] \in Loaded
      BY <2>1, <3>1 DEF OthersStay
    <3>3. QED
      BY <1>1, <2>1, <2>3, <2>5, <3>2 DEF DailyInv, LoadedIsOwned, Met
  <2>6. QED BY <1>4, <2>4, <2>5
<1>10. DailyFollowsLake'
  <2> SUFFICES ASSUME NEW q \in lakeDaily', at'[q.run] \in Committed
               PROVE  \/ \E p \in pgDaily :
                            /\ SameDay(p, q) /\ p.sum = q.sum /\ p.count = q.count
                            /\ p.run = p.first =>
                                 p.min = q.min /\ p.max = q.max /\ p.version >= q.version
                      \/ \E p \in pgDaily : SameDay(p, q) /\ Met(p.run, q.run)'
    BY <1>1 DEF DailyFollowsLake, Committed
  <2>1. q \in lakeDaily
    BY <1>2, <1>4, <1>5 DEF Committed
  <2>2. at[q.run] \in {"refresh", "complete"}
    BY <1>6, <2>1 DEF Committed
  <2>3. QED BY <1>1, <2>1, <2>2 DEF DailyInv, DailyFollowsLake, Met
<1>11. QED BY <1>7, <1>8, <1>9, <1>10 DEF DailyInv

(* What the upsert leaves of a row, and of a row that it is given.           *)
LEMMA Upserts ==
    ASSUME NEW table, NEW rows, \A p \in table : IsRow(p)
    PROVE  /\ \A p \in table :
                  \/ p \in UpsertedDaily(table, rows)
                  \/ \E q \in rows : SameDay(p, q)
           /\ \A q \in rows :
                  \/ q \in UpsertedDaily(table, rows)
                  \/ \E p \in table : SameDay(p, q)
           /\ \A p \in table, q \in rows : SameDay(p, q) =>
                  \E u \in UpsertedDaily(table, rows) :
                     /\ SameDay(u, p) /\ u.sum = q.sum /\ u.count = q.count
                     /\ u.run = q.run /\ u.first = p.first
           /\ \A u \in UpsertedDaily(table, rows) :
                  \/ u \in table
                  \/ u \in rows
                  \/ \E p \in table, q \in rows : IsRow(u) /\ u.run = q.run /\ u.first = p.first
<1> DEFINE Updated(p, q) == [p EXCEPT !.sum = q.sum, !.count = q.count, !.run = q.run]
<1>1. ASSUME NEW p \in table, NEW q \in rows
      PROVE  /\ IsRow(Updated(p, q)) /\ SameDay(Updated(p, q), p)
             /\ Updated(p, q).sum = q.sum /\ Updated(p, q).count = q.count
             /\ Updated(p, q).run = q.run /\ Updated(p, q).first = p.first
  BY DEF IsRow, RowFields, SameDay
<1> DEFINE updated == UNION {{Updated(p, q) : q \in {x \in rows : SameDay(p, x)}} : p \in table}
<1>2. UpsertedDaily(table, rows) =
        {p \in table : \A q \in rows : ~SameDay(p, q)}
          \cup {q \in rows : \A p \in table : ~SameDay(p, q)}
          \cup updated
  BY DEF UpsertedDaily
<1> HIDE DEF Updated
<1>3. \A u : u \in updated
               <=> \E p \in table, q \in rows : SameDay(p, q) /\ u = Updated(p, q)
  OBVIOUS
<1> HIDE DEF updated
<1>4. ASSUME NEW p \in table, NEW q \in rows, SameDay(p, q)
      PROVE  Updated(p, q) \in UpsertedDaily(table, rows)
  BY <1>2, <1>3, <1>4
<1>5. ASSUME NEW u \in UpsertedDaily(table, rows)
      PROVE  u \in table \/ u \in rows \/ \E p \in table, q \in rows : u = Updated(p, q)
  BY <1>2, <1>3
<1>6. \A p \in table : p \in UpsertedDaily(table, rows) \/ \E q \in rows : SameDay(p, q)
  BY <1>2
<1>7. \A q \in rows : q \in UpsertedDaily(table, rows) \/ \E p \in table : SameDay(p, q)
  BY <1>2
<1>8. \A p \in table, q \in rows : SameDay(p, q) =>
         \E u \in UpsertedDaily(table, rows) :
            /\ SameDay(u, p) /\ u.sum = q.sum /\ u.count = q.count
            /\ u.run = q.run /\ u.first = p.first
  BY <1>1, <1>4
<1>9. \A u \in UpsertedDaily(table, rows) :
         \/ u \in table
         \/ u \in rows
         \/ \E p \in table, q \in rows : IsRow(u) /\ u.run = q.run /\ u.first = p.first
  BY <1>1, <1>5
<1>10. QED BY <1>6, <1>7, <1>8, <1>9

LEMMA CommitKeepsDaily ==
    ASSUME CoreInv, CoreInv', DailyInv, NEW r \in Runs, OthersStay(r), CommitDaily(r)
    PROVE  DailyInv'
<1>1. /\ r \in alive /\ at[r] = "daily" /\ pgDaily' = UpsertedDaily(pgDaily, Built(r))
      /\ GoTo(r, "refresh") /\ lakeDaily' = lakeDaily /\ met' = met
      /\ lakeVersion' = lakeVersion
  BY DEF CommitDaily, Running, lakeVars
<1>2. at'[r] = "refresh" /\ alive' = alive /\ batch' = batch
  BY <1>1, GoToMoves DEF Places
<1>3. VersionsGrow
  BY <1>1 DEF VersionsGrow, CoreInv, RunsTyped
<1>4. \A b \in Built(r) : IsRow(b) /\ b.run = r /\ b.first = r /\ b.version \in Nat
  BY BuiltRows DEF CoreInv
<1>5. \A p \in pgDaily : IsRow(p) /\ p.first \in Runs \ {r} /\ p.run \in Runs \ {r}
  BY <1>1 DEF DailyInv, RowOwners, Committed
<1>6. RowOwners'
  <2>1. \A p \in pgDaily' : /\ IsRow(p) /\ p.first \in Runs /\ p.run \in Runs
                            /\ at'[p.first] \in Committed /\ at'[p.run] \in Committed
    <3>1. \A x \in Runs : x = r \/ at[x] \in Committed => at'[x] \in Committed
      BY <1>1, <1>2 DEF OthersStay, Committed
    <3>2. \A p \in pgDaily' :
             \/ p \in pgDaily
             \/ p \in Built(r)
             \/ \E old \in pgDaily, b \in Built(r) :
                    IsRow(p) /\ p.run = b.run /\ p.first = old.first
      BY <1>1, <1>5, Upserts
    <3>3. QED BY <1>4, <3>1, <3>2 DEF DailyInv, RowOwners
  <2>2. \A q \in lakeDaily' : /\ q.run \in Runs /\ q.city \in Cities /\ q.version \in Nat
                              /\ at'[q.run] \in Loaded \cup Committed \cup {"refused"}
    BY <1>1, <1>2 DEF DailyInv, RowOwners, OthersStay, Committed
  <2>3. QED BY <2>1, <2>2 DEF RowOwners
<1>7. \A x \in Runs : at'[x] \in Loaded => x # r /\ at[x] \in Loaded
  BY <1>2 DEF OthersStay, Loaded
<1>8. LoadedIsBuilt'
  <2> SUFFICES ASSUME NEW q \in lakeDaily', q.run \in alive', at'[q.run] \in Loaded
               PROVE  \E b \in Built(q.run)' : SameFigures(b, q) /\ b.version >= q.version
    BY DEF LoadedIsBuilt
  <2>1. /\ q \in lakeDaily /\ q.run \in Runs /\ q.version \in Nat
        /\ q.run \in alive /\ at[q.run] \in Loaded /\ batch'[q.run] = batch[q.run]
    BY <1>1, <1>2, <1>7 DEF DailyInv, RowOwners
  <2>2. PICK b \in Built(q.run) : SameFigures(b, q) /\ b.version >= q.version
    BY <2>1 DEF DailyInv, LoadedIsBuilt
  <2>3. QED BY <1>3, <2>1, <2>2, StillBuilt DEF CoreInv
<1>9. LoadedIsOwned'
  <2> SUFFICES ASSUME NEW x \in alive', at'[x] \in Loaded,
                      NEW b2 \in Built(x)', NEW q \in lakeDaily', SameDay(q, b2)
               PROVE  q.run = x \/ Met(q.run, x)'
    BY DEF LoadedIsOwned
  <2>1. x \in Runs /\ x \in alive /\ at[x] \in Loaded /\ batch'[x] = batch[x]
    BY <1>2, <1>7 DEF CoreInv, RunsTyped
  <2>2. PICK b \in Built(x) : SameDay(b, b2)
    BY <1>3, <2>1, BuiltAgain DEF CoreInv
  <2>3. q \in lakeDaily /\ SameDay(q, b)
    BY <1>1, <2>2 DEF SameDay
  <2>4. QED BY <1>1, <2>1, <2>3 DEF DailyInv, LoadedIsOwned, Met
<1>10. DailyFollowsLake'
  <2> DEFINE Agrees(p, q) ==
               /\ SameDay(p, q) /\ p.sum = q.sum /\ p.count = q.count
               /\ p.run = p.first => p.min = q.min /\ p.max = q.max /\ p.version >= q.version
  <2> SUFFICES ASSUME NEW q \in lakeDaily, at'[q.run] \in Committed
               PROVE  \/ \E p \in pgDaily' : Agrees(p, q)
                      \/ \E p \in pgDaily' : SameDay(p, q) /\ Met(p.run, q.run)'
    BY <1>1 DEF DailyFollowsLake, Committed
  <2>1. q.run \in Runs
    BY DEF DailyInv, RowOwners
  <2>2. CASE q.run = r
    <3>1. PICK b \in Built(r) : SameFigures(b, q) /\ b.version >= q.version
      BY <1>1, <2>2 DEF DailyInv, LoadedIsBuilt, Loaded
    <3>2. CASE b \in pgDaily'
      BY <3>1, <3>2 DEF SameFigures
    <3>3. CASE b \notin pgDaily'
      <4>1. PICK p \in pgDaily : SameDay(p, b)
        BY <1>1, <1>5, <3>3, Upserts
      <4>2. PICK u \in pgDaily' : /\ SameDay(u, p) /\ u.sum = b.sum /\ u.count = b.count
                                  /\ u.run = b.run /\ u.first = p.first
        BY <1>1, <1>5, <4>1, Upserts
      <4>3. u.run # u.first
        BY <1>4, <1>5, <4>2
      <4>4. Agrees(u, q)
        BY <3>1, <4>1, <4>2, <4>3 DEF SameFigures, SameDay
      <4>5. QED BY <4>4
    <3>4. QED BY <3>2, <3>3
  <2>3. CASE q.run # r
    <3>1. at[q.run] \in {"refresh", "complete"}
      BY <2>1, <2>3 DEF OthersStay, Committed
    <3>2. PICK p \in pgDaily : Agrees(p, q) \/ (SameDay(p, q) /\ Met(p.run, q.run))
      BY <3>1 DEF DailyInv, DailyFollowsLake
    <3>3. CASE p \in pgDaily'
      BY <1>1, <3>2, <3>3 DEF Met
    <3>4. CASE p \notin pgDaily'
      <4>1. PICK b \in Built(r) : SameDay(p, b)
        BY <1>1, <1>5, <3>4, Upserts
      <4>2. PICK u \in pgDaily' : SameDay(u, p) /\ u.run = b.run
        BY <1>1, <1>5, <4>1, Upserts
      <4>3. SameDay(q, b) /\ SameDay(u, q)
        BY <3>2, <4>1, <4>2 DEF SameDay
      <4>4. Met(q.run, r)
        BY <1>1, <2>3, <4>1, <4>3 DEF DailyInv, LoadedIsOwned, Loaded
      <4>5. Met(u.run, q.run)'
        <5>1. u.run = r /\ {u.run, q.run} = {q.run, r}
          BY <1>4, <4>2
        <5>2. QED BY <1>1, <4>4, <5>1 DEF Met
      <4>6. QED BY <4>3, <4>5
    <3>5. QED BY <3>3, <3>4
  <2>4. QED BY <2>2, <2>3
<1>11. QED BY <1>6, <1>8, <1>9, <1>10 DEF DailyInv

LEMMA DailyStep ==
    ASSUME CoreInv, DailyInv, NEW r \in Runs, ServingStep(r)
    PROVE  DailyInv'
<1>1. CoreInv' /\ OthersStay(r) /\ met \subseteq met'
  BY CoreStep
<1>2. CASE LoadDaily(r)
  BY <1>1, <1>2, LoadKeepsDaily
<1>3. CASE CommitDaily(r)
  BY <1>1, <1>3, CommitKeepsDaily
<1>4. CASE ApplyChanges(r)
  <2>1. VersionsGrow
    BY <1>4 DEF ApplyChanges, VersionsGrow, CoreInv, RunsTyped
  <2>2. at[r] = "scd2" /\ GoTo(r, "facts") /\ lakeDaily' = lakeDaily /\ pgDaily' = pgDaily
    BY <1>4 DEF ApplyChanges, Running, pgVars
  <2>3. at'[r] = "facts"
    BY <2>2, GoToMoves DEF Places
  <2>4. Quiet(r)
    BY <2>2, <2>3 DEF Quiet, Loaded, Committed
  <2>5. QED BY <1>1, <2>1, <2>4, QuietKeepsDaily
<1>5. CASE r \notin alive
  <2>1. Abort(r) \/ \E readings \in SUBSET Reading, changed \in SUBSET Cities :
                       Begin(r, readings, changed)
    BY <1>5, RunStepMoves DEF ServingStep
  <2>2. at[r] = "waiting" /\ at'[r] \in {"aborted", "gold"}
    BY <2>1, AbortMoves, BeginMoves
  <2>3. lakeDaily' = lakeDaily /\ pgDaily' = pgDaily /\ lakeVersion' = lakeVersion
    BY <2>1 DEF Abort, Begin, lakeVars, pgVars
  <2>4. Quiet(r) /\ VersionsGrow
    BY <2>2, <2>3 DEF Quiet, VersionsGrow, Loaded, Committed, CoreInv, RunsTyped
  <2>5. QED BY <1>1, <2>4, QuietKeepsDaily
<1>6. CASE r \in alive /\ ~LoadDaily(r) /\ ~CommitDaily(r) /\ ~ApplyChanges(r)
  <2>1. RunStep(r)
    BY <1>6, AbortMoves, BeginMoves DEF ServingStep, CoreInv, NotBegun
  <2>2. lakeDaily' = lakeDaily /\ pgDaily' = pgDaily /\ lakeVersion' = lakeVersion
    BY <1>6, <2>1 DEF RunStep, WriteGold, Bootstrap, CountStatic, InsertStatic,
       RefuseStatic, CommitDims, RefuseDaily, Refresh, RefreshFails, Die, lakeVars, pgVars
  <2>3. VersionsGrow
    BY <2>2 DEF VersionsGrow, CoreInv, RunsTyped
  <2>4. Quiet(r)
    <3>1. CASE WriteGold(r) \/ Bootstrap(r)
      <4>1. \/ at[r] = "gold" /\ NextTable(r, GoldCount, "static")
            \/ at[r] = "static" /\ NextTable(r, StaticCount, "scd2")
        BY <3>1 DEF WriteGold, Bootstrap, Running
      <4>2. at[r] \in {"gold", "static"} /\ at'[r] \in {"gold", "static", "scd2"}
        BY <4>1, NextTableMoves, ServingAssumption DEF Places
      <4>3. QED BY <2>2, <4>2 DEF Quiet, Loaded, Committed
    <3>2. CASE CountStatic(r) \/ InsertStatic(r)
      <4>1. /\ at[r] \in Loaded /\ at'[r] \in Loaded /\ batch' = batch /\ alive' = alive
        BY <3>2, CountMoves, InsertMoves DEF Loaded
      <4>2. QED BY <2>2, <4>1 DEF Quiet, Loaded, Committed
    <3>3. CASE CommitDims(r)
      <4>1. at[r] = "dims" /\ GoTo(r, "daily")
        BY <3>3 DEF CommitDims, Running
      <4>2. at'[r] = "daily" /\ batch' = batch /\ alive' = alive
        BY <4>1, GoToMoves DEF Places
      <4>3. QED BY <2>2, <4>1, <4>2 DEF Quiet, Loaded, Committed
    <3>4. CASE RefuseStatic(r) \/ RefuseDaily(r)
      <4>1. at[r] \in Loaded /\ EndAt(r, "refused")
        BY <3>4 DEF RefuseStatic, RefuseDaily, Running, Loaded
      <4>2. at'[r] = "refused" /\ alive' = alive \ {r}
        BY <4>1, EndAtMoves DEF Places
      <4>3. QED BY <2>2, <4>1, <4>2 DEF Quiet, Loaded, Committed
    <3>5. CASE Refresh(r) \/ RefreshFails(r)
      <4>1. at[r] = "refresh" /\ EndAt(r, "complete")
        BY <3>5 DEF Refresh, RefreshFails, Running
      <4>2. at'[r] = "complete" /\ alive' = alive \ {r}
        BY <4>1, EndAtMoves DEF Places
      <4>3. QED BY <2>2, <4>1, <4>2 DEF Quiet, Loaded, Committed
    <3>6. CASE Die(r)
      <4>1. EndAt(r, at[r]) /\ at[r] \in Places \ {"waiting"}
        BY <1>6, <3>6 DEF Die, CoreInv, RunsTyped, NotBegun
      <4>2. at'[r] = at[r] /\ alive' = alive \ {r}
        BY <4>1, EndAtMoves
      <4>3. QED BY <2>2, <4>2 DEF Quiet
    <3>7. QED
      BY <1>6, <2>1, <3>1, <3>2, <3>3, <3>4, <3>5, <3>6 DEF RunStep
  <2>5. QED BY <1>1, <2>3, <2>4, QuietKeepsDaily
<1>7. QED BY <1>2, <1>3, <1>4, <1>5, <1>6

-----------------------------------------------------------------------------
(* The invariant of the serving state.                                       *)
ServingInv == CoreInv /\ ViewInv /\ RefusalInv /\ GoldInv /\ DailyInv

LEMMA ServingInvInit == Init => ServingInv
<1> SUFFICES ASSUME Init PROVE ServingInv
  OBVIOUS
<1>1. CoreInv
  BY CoreInit
<1>2. ViewInv
  BY DEF Init, ServingInit, ViewInv, RefreshedViewsAreCurrent
<1>3. RefusalInv
  BY DEF Init, ServingInit, RefusalInv, RefusedOnlyByOverlap
<1>4. GoldInv
  BY ServingAssumption DEF Init, ServingInit, GoldInv, GoldTablesAgree
<1>5. DailyInv
  BY DEF Init, ServingInit, DailyInv, RowOwners, LoadedIsBuilt, LoadedIsOwned,
         DailyFollowsLake
<1>6. QED BY <1>1, <1>2, <1>3, <1>4, <1>5 DEF ServingInv

LEMMA ServingUnchanged == ServingInv /\ UNCHANGED servingVars => ServingInv'
<1> SUFFICES ASSUME ServingInv, UNCHANGED servingVars PROVE ServingInv'
  OBVIOUS
<1> USE DEF servingVars, runVars, lakeVars, pgVars, auxVars
<1>1. CoreInv'
  BY CoreUnchanged DEF ServingInv
<1>2. ViewInv'
  BY DEF ServingInv, ViewInv, RefreshedViewsAreCurrent, Trends
<1>3. RefusalInv'
  BY DEF ServingInv, RefusalInv, RefusedOnlyByOverlap, Overlapped, Met
<1>4. GoldInv'
  BY DEF ServingInv, GoldInv, GoldTablesAgree, InGold, Met
<1>5. DailyInv'
  <2>1. \A r \in Runs : OthersStay(r) /\ Quiet(r)
    BY DEF OthersStay, Quiet
  <2>2. VersionsGrow
    BY DEF VersionsGrow, ServingInv, CoreInv, RunsTyped
  <2>3. CASE Runs # {}
    <3>1. PICK r \in Runs : OthersStay(r) /\ Quiet(r)
      BY <2>1, <2>3
    <3>2. QED BY <1>1, <2>2, <3>1, QuietKeepsDaily DEF ServingInv
  <2>4. CASE Runs = {}
    <3>1. lakeDaily = {} /\ pgDaily = {} /\ alive = {}
      BY <2>4 DEF ServingInv, DailyInv, RowOwners, CoreInv, RunsTyped
    <3>2. QED
      BY <3>1 DEF DailyInv, RowOwners, LoadedIsBuilt, LoadedIsOwned, DailyFollowsLake
  <2>5. QED BY <2>3, <2>4
<1>6. QED BY <1>1, <1>2, <1>3, <1>4, <1>5 DEF ServingInv

LEMMA ServingInvStep == ServingInv /\ [Next]_vars => ServingInv'
<1> SUFFICES ASSUME ServingInv, [Next]_vars PROVE ServingInv'
  OBVIOUS
<1>1. ASSUME NEW r \in Runs, ServingStep(r) PROVE ServingInv'
  BY <1>1, CoreStep, ViewStep, RefusalStep, GoldStep, DailyStep DEF ServingInv
<1>2. CASE UNCHANGED servingVars
  BY <1>2, ServingUnchanged
<1>3. QED BY <1>1, <1>2, ServingSteps

LEMMA ServingInvHolds == Spec => []ServingInv
BY ServingInvInit, ServingInvStep, PTL DEF Spec

(* gold.py, GoldProcessor.run: however runs overlap or die between their     *)
(* four overwrites, tables of different runs are explained by an unfinished  *)
(* run or an overlap.                                                        *)
THEOREM GoldAgrees == Spec => []GoldTablesAgree
<1>1. ServingInv => GoldTablesAgree
  BY DEF ServingInv, GoldInv
<1>2. QED BY <1>1, ServingInvHolds, PTL

(* _sync_to_postgres: once a run has committed its daily facts, PostgreSQL   *)
(* has the lake's average and count, unless a run it overlapped wrote last.  *)
THEOREM DailyFactsFollow == Spec => []DailyFollowsLake
<1>1. ServingInv => DailyFollowsLake
  BY DEF ServingInv, DailyInv
<1>2. QED BY <1>1, ServingInvHolds, PTL

(* _sync_to_postgres: neither the load-once of the static dimensions nor the *)
(* foreign key of the daily facts refuses a run that overlaps no other.      *)
THEOREM RefusalsNeedOverlap == Spec => []RefusedOnlyByOverlap
<1>1. ServingInv => RefusedOnlyByOverlap
  BY DEF ServingInv, RefusalInv
<1>2. QED BY <1>1, ServingInvHolds, PTL

(* Step 8 of run(): after a refresh by the run that committed last, the view *)
(* shows what the tables say, whatever earlier refreshes failed.             *)
THEOREM ViewsAreCurrent == Spec => []RefreshedViewsAreCurrent
<1>1. ServingInv => RefreshedViewsAreCurrent
  BY DEF ServingInv, ViewInv
<1>2. QED BY <1>1, ServingInvHolds, PTL

-----------------------------------------------------------------------------
(* The types of what is left.  An aggregate of a batch has a value because   *)
(* batches are finite; the loops over tables end before they run out of      *)
(* them.                                                                     *)
FiniteBatches == \A r \in Runs : IsFiniteSet(batch[r])

InStaticLoop ==
    \A r \in alive : at[r] \in {"static", "count", "insert"} => done[r] < StaticCount

TablesTyped ==
    /\ moved \in [Runs -> SUBSET Cities]
    /\ lakeStatic \subseteq 1..StaticCount
    /\ pgStatic \subseteq 1..StaticCount
    /\ lakeDaily \subseteq DailyRow
    /\ pgDaily \subseteq DailyRow
    /\ trends \subseteq DailyRow
    /\ lastCommit \in Runs \cup {NULL}
    /\ refreshed \subseteq Runs
    /\ met \subseteq SUBSET Runs

TablesInv == TablesTyped /\ InStaticLoop /\ FiniteBatches

(* An answer has at most one reading of each entry.                          *)
LEMMA BatchesFinite ==
    ASSUME ClientTypeOK, NEW readings \in Batches
    PROVE  IsFiniteSet(readings)
<1>1. PICK passed \in SUBSET results :
          \E answer \in [passed -> Weather] : readings = {answer[i] : i \in passed}
  BY DEF Batches
<1> PICK answer \in [passed -> Weather] : readings = {answer[i] : i \in passed}
  BY <1>1
<1>2. IsFiniteSet(1..Entries) /\ passed \subseteq 1..Entries
  BY OwmClientAssumption, FS_Interval DEF ClientTypeOK
<1>3. IsFiniteSet(passed) /\ DOMAIN answer = passed
  BY <1>2, FS_Subset
<1>4. QED BY <1>3, ImageIsFinite

LEMMA SumOfTempsIsInt ==
    ASSUME NEW R, IsFiniteSet(R), \A x \in R : x.temp \in Int
    PROVE  SumOfTemps(R) \in Int
<1> DEFINE f == [x \in R |-> x.temp]
<1>1. DOMAIN f = R /\ \A x \in R : f[x] \in Int
  OBVIOUS
<1>2. SumOfTemps(R) = Total(f, R)
  BY <1>1, SumIsTotal DEF SumOfTemps, SumFunction
<1> HIDE DEF f
<1>3. QED BY <1>1, <1>2, TotalIsInt

LEMMA BuiltTyped ==
    ASSUME RunsTyped, FiniteBatches, NEW r \in Runs
    PROVE  Built(r) \subseteq DailyRow
<1> SUFFICES ASSUME NEW x \in batch[r] PROVE DailyRowOf(r, x.city, x.day) \in DailyRow
  BY DEF Built
<1> DEFINE group == {y \in batch[r] : y.city = x.city /\ y.day = x.day}
           temp == [y \in group |-> y.temp]
           temps == {y.temp : y \in group}
<1>1. batch[r] \subseteq Reading
  BY DEF RunsTyped
<1>2. x.city \in Cities /\ x.day \in Days /\ x \in group /\ lakeVersion[x.city] \in Nat
  BY <1>1 DEF Reading, RunsTyped
<1>3. IsFiniteSet(group) /\ \A y \in group : y.temp \in Int
  <2>1. \A y \in group : y.temp \in Int
    BY <1>1, ServingAssumption DEF Reading
  <2>2. QED BY <2>1, FS_Subset DEF FiniteBatches
<1>4. IsFiniteSet(temps) /\ temps # {} /\ temps \subseteq Int
  <2>1. DOMAIN temp = group /\ temps = {temp[y] : y \in group}
    OBVIOUS
  <2>2. IsFiniteSet({temp[y] : y \in group})
    <3> HIDE DEF temp, group
    <3>1. QED BY <1>3, <2>1, ImageIsFinite
  <2>3. QED BY <1>2, <1>3, <2>1, <2>2
<1>5. Min(temps) \in Int /\ Max(temps) \in Int
  <2> HIDE DEF temps
  <2>1. QED BY <1>4, SmallestExists, GreatestExists DEF Min, Max
<1>6. SumOfTemps(group) \in Int /\ Cardinality(group) \in Nat
  <2> HIDE DEF group
  <2>1. QED BY <1>3, SumOfTempsIsInt, FS_CardinalityType
<1>7. DailyRowOf(r, x.city, x.day) =
        [city |-> x.city, day |-> x.day, version |-> lakeVersion[x.city],
         min |-> Min(temps), max |-> Max(temps),
         sum |-> SumOfTemps(group), count |-> Cardinality(group), first |-> r, run |-> r]
  BY DEF DailyRowOf
<1> HIDE DEF group, temps, temp
<1>8. QED BY <1>2, <1>5, <1>6, <1>7 DEF DailyRow

LEMMA UpsertTyped ==
    ASSUME NEW table, table \subseteq DailyRow, NEW rows, rows \subseteq DailyRow
    PROVE  UpsertedDaily(table, rows) \subseteq DailyRow
<1>1. ASSUME NEW p \in table, NEW q \in rows
      PROVE  [p EXCEPT !.sum = q.sum, !.count = q.count, !.run = q.run] \in DailyRow
  <2>1. p \in DailyRow /\ q.sum \in Int /\ q.count \in Nat /\ q.run \in Runs
    BY DEF DailyRow
  <2>2. QED BY <2>1 DEF DailyRow
<1> DEFINE Updated(p, q) == [p EXCEPT !.sum = q.sum, !.count = q.count, !.run = q.run]
           updated == UNION {{Updated(p, q) : q \in {x \in rows : SameDay(p, x)}} : p \in table}
<1>2. ASSUME NEW z \in updated PROVE z \in DailyRow
  <2>1. PICK p \in table : z \in {Updated(p, q) : q \in {x \in rows : SameDay(p, x)}}
    OBVIOUS
  <2>2. PICK q \in rows : z = Updated(p, q)
    BY <2>1
  <2>3. QED BY <1>1, <2>2
<1>3. UpsertedDaily(table, rows)
        = {p \in table : \A q \in rows : ~SameDay(p, q)}
            \cup {q \in rows : \A p \in table : ~SameDay(p, q)} \cup updated
  BY DEF UpsertedDaily
<1> HIDE DEF updated
<1>4. QED BY <1>2, <1>3

(* A run that moves on keeps its memory; one that ends has none.             *)
LEMMA MemoryAfter ==
    ASSUME NEW r \in Runs, RunStep(r)
    PROVE  \/ batch' = batch /\ moved' = moved
           \/ batch' = [batch EXCEPT ![r] = {}] /\ moved' = [moved EXCEPT ![r] = {}]
BY DEF RunStep, WriteGold, Bootstrap, ApplyChanges, LoadDaily, CountStatic, InsertStatic,
       RefuseStatic, CommitDims, CommitDaily, RefuseDaily, Refresh, RefreshFails, Die,
       GoTo, EndAt, NextTable

LEMMA FiniteBatchesStep ==
    ASSUME CoreInv, FiniteBatches, ClientTypeOK, [Next]_vars
    PROVE  FiniteBatches'
<1>1. batch \in [Runs -> SUBSET Reading] /\ IsFiniteSet({})
  BY FS_EmptySet DEF CoreInv, RunsTyped
<1>2. CASE batch' = batch
  BY <1>2 DEF FiniteBatches
<1>3. ASSUME NEW r \in Runs, NEW readings, IsFiniteSet(readings),
             batch' = [batch EXCEPT ![r] = readings]
      PROVE  FiniteBatches'
  BY <1>1, <1>3 DEF FiniteBatches
<1>4. ASSUME NEW r \in Runs, HandOver(r) PROVE FiniteBatches'
  <2>1. CASE Abort(r)
    BY <1>2, <2>1 DEF Abort
  <2>2. ASSUME NEW readings \in Batches, NEW changed, Begin(r, readings, changed)
        PROVE  FiniteBatches'
    BY <1>3, <2>2, BatchesFinite DEF Begin
  <2>3. QED BY <1>4, <2>1, <2>2 DEF HandOver
<1>5. ASSUME NEW r \in Runs, Process(r) PROVE FiniteBatches'
  BY <1>1, <1>2, <1>3, <1>5, MemoryAfter DEF Process
<1>6. CASE Ingest \/ UNCHANGED vars \/ \E r \in Runs : StartRun(r)
  BY <1>2, <1>6 DEF Ingest, StartRun, vars, servingVars, runVars
<1>7. QED BY <1>4, <1>5, <1>6 DEF Next

(* A step before, between or after the runs' own.                            *)
LEMMA TablesBegin ==
    ASSUME CoreInv, TablesInv, NEW r \in Runs,
           NEW readings \in SUBSET Reading, NEW changed \in SUBSET Cities,
           Begin(r, readings, changed)
    PROVE  TablesTyped' /\ InStaticLoop'
<1>1. /\ OthersStay(r) /\ at'[r] = "gold" /\ alive' = alive \cup {r} /\ alive \subseteq Runs
  BY BeginMoves DEF CoreInv, RunsTyped
<1>2. InStaticLoop'
  BY <1>1 DEF TablesInv, InStaticLoop, OthersStay
<1>3. /\ moved' = [moved EXCEPT ![r] = changed \cap {x.city : x \in readings}]
      /\ met' = met \cup {{q, r} : q \in alive}
      /\ UNCHANGED <<lakeStatic, pgStatic, lakeDaily, pgDaily, trends, lastCommit, refreshed>>
  BY DEF Begin, lakeVars, pgVars
<1>4. moved' \in [Runs -> SUBSET Cities]
  BY <1>3 DEF TablesInv, TablesTyped
<1>5. met' \subseteq SUBSET Runs
  BY <1>1, <1>3 DEF TablesInv, TablesTyped
<1>6. QED BY <1>2, <1>3, <1>4, <1>5 DEF TablesInv, TablesTyped

LEMMA TablesStay ==
    ASSUME TablesInv, NEW r \in Runs, OthersStay(r), alive' \subseteq alive,
           alive \subseteq Runs,
           r \in alive' /\ at'[r] \in {"static", "count", "insert"} => done'[r] < StaticCount
    PROVE  InStaticLoop'
BY DEF TablesInv, InStaticLoop, OthersStay

LEMMA TablesRun ==
    ASSUME CoreInv, TablesInv, NEW r \in Runs, RunStep(r)
    PROVE  TablesTyped' /\ InStaticLoop'
<1> DEFINE Loop == r \in alive' /\ at'[r] \in {"static", "count", "insert"} => done'[r] < StaticCount
<1>1. Moves(r) /\ r \in alive /\ met' = met /\ alive \subseteq Runs
  BY RunStepMoves DEF CoreInv, RunsTyped
<1>2. SUFFICES TablesTyped' /\ Loop
  BY <1>1, TablesStay DEF Moves
<1>3. moved' \in [Runs -> SUBSET Cities]
  BY MemoryAfter DEF TablesInv, TablesTyped
<1>4. done[r] \in Nat
  BY DEF CoreInv, RunsTyped
<1>5. Built(r) \subseteq DailyRow
  BY BuiltTyped DEF CoreInv, TablesInv
<1>6. CASE WriteGold(r)
  <2>1. NextTable(r, GoldCount, "static") /\ at[r] = "gold"
    BY <1>6 DEF WriteGold, Running
  <2>2. Loop
    BY <2>1, NextTableMoves, ServingAssumption DEF Places
  <2>3. QED
    BY <1>1, <1>3, <1>6, <2>2 DEF WriteGold, pgVars, auxVars, TablesInv, TablesTyped
<1>7. CASE Bootstrap(r)
  <2>1. NextTable(r, StaticCount, "scd2") /\ at[r] = "static" /\ done[r] < StaticCount
    BY <1>1, <1>7 DEF Bootstrap, Running, TablesInv, InStaticLoop
  <2>2. Loop
    BY <1>4, <2>1, NextTableMoves, ServingAssumption DEF Places
  <2>3. done[r] + 1 \in 1..StaticCount
    BY <1>4, <2>1, ServingAssumption
  <2>4. QED
    BY <1>1, <1>3, <1>7, <2>2, <2>3 DEF Bootstrap, pgVars, auxVars, TablesInv, TablesTyped
<1>8. CASE ApplyChanges(r)
  <2>1. GoTo(r, "facts")
    BY <1>8 DEF ApplyChanges
  <2>2. Loop
    BY <2>1, GoToMoves DEF Places
  <2>3. QED
    BY <1>1, <1>3, <1>8, <2>2 DEF ApplyChanges, pgVars, auxVars, TablesInv, TablesTyped
<1>9. CASE LoadDaily(r)
  <2>1. GoTo(r, "count")
    BY <1>9 DEF LoadDaily
  <2>2. Loop
    BY <2>1, GoToMoves, ServingAssumption DEF Places
  <2>3. lakeDaily' \subseteq DailyRow
    BY <1>5, <1>9 DEF LoadDaily, MergedDaily, TablesInv, TablesTyped
  <2>4. QED
    BY <1>1, <1>3, <1>9, <2>2, <2>3 DEF LoadDaily, pgVars, auxVars, TablesInv, TablesTyped
<1>10. CASE CountStatic(r)
  <2>1. at[r] = "count" /\ done[r] < StaticCount
    BY <1>1, <1>10 DEF CountStatic, Running, TablesInv, InStaticLoop
  <2>2. Loop
    <3>1. CASE done[r] + 1 \in pgStatic
      <4>1. NextTable(r, StaticCount, "dims")
        BY <1>10, <3>1 DEF CountStatic
      <4>2. QED BY <1>4, <2>1, <4>1, NextTableMoves, ServingAssumption DEF Places
    <3>2. CASE done[r] + 1 \notin pgStatic
      BY <1>10, <2>1, <3>2 DEF CountStatic
    <3>3. QED BY <3>1, <3>2
  <2>3. QED
    BY <1>1, <1>3, <1>10, <2>2 DEF CountStatic, lakeVars, pgVars, auxVars, TablesInv, TablesTyped
<1>11. CASE InsertStatic(r)
  <2>1. at[r] = "insert" /\ done[r] < StaticCount
    BY <1>1, <1>11 DEF InsertStatic, Running, TablesInv, InStaticLoop
  <2>2. Loop
    BY <1>4, <1>11, <2>1, ServingAssumption DEF InsertStatic, CoreInv, RunsTyped
  <2>3. done[r] + 1 \in 1..StaticCount
    BY <1>4, <2>1, ServingAssumption
  <2>4. QED
    BY <1>1, <1>3, <1>11, <2>2, <2>3 DEF InsertStatic, lakeVars, auxVars, TablesInv, TablesTyped
<1>12. CASE CommitDims(r)
  <2>1. GoTo(r, "daily")
    BY <1>12 DEF CommitDims
  <2>2. Loop
    BY <2>1, GoToMoves DEF Places
  <2>3. QED
    BY <1>1, <1>3, <1>12, <2>2 DEF CommitDims, lakeVars, TablesInv, TablesTyped
<1>13. CASE CommitDaily(r)
  <2>1. GoTo(r, "refresh")
    BY <1>13 DEF CommitDaily
  <2>2. Loop
    BY <2>1, GoToMoves DEF Places
  <2>3. pgDaily' \subseteq DailyRow
    BY <1>5, <1>13, UpsertTyped DEF CommitDaily, TablesInv, TablesTyped
  <2>4. QED
    BY <1>1, <1>3, <1>13, <2>2, <2>3 DEF CommitDaily, lakeVars, TablesInv, TablesTyped
<1>14. CASE RefuseStatic(r) \/ RefuseDaily(r) \/ Refresh(r) \/ RefreshFails(r) \/ Die(r)
  <2>1. r \notin alive'
    BY <1>14 DEF RefuseStatic, RefuseDaily, Refresh, RefreshFails, Die, EndAt
  <2>2. /\ trends' = trends \/ trends' = Trends
        /\ refreshed' = refreshed \/ refreshed' = refreshed \cup {r}
        /\ UNCHANGED <<lakeStatic, pgStatic, lakeDaily, pgDaily, lastCommit>>
    BY <1>14 DEF RefuseStatic, RefuseDaily, Refresh, RefreshFails, Die, lakeVars, pgVars, auxVars
  <2>3. Trends \subseteq pgDaily
    BY DEF Trends
  <2>4. QED BY <1>1, <1>3, <2>1, <2>2, <2>3 DEF TablesInv, TablesTyped
<1>15. QED
  BY <1>6, <1>7, <1>8, <1>9, <1>10, <1>11, <1>12, <1>13, <1>14 DEF RunStep

-----------------------------------------------------------------------------
(* The invariant of the whole.                                               *)
PipelineInv ==
    ClientInv /\ ServingInv /\ TablesInv /\ ingestingRun \in Runs \cup {NULL}

LEMMA PipelineInvInit == Init => PipelineInv
<1> SUFFICES ASSUME Init PROVE PipelineInv
  OBVIOUS
<1>1. ClientInv /\ ServingInv
  BY ClientInvInit, ServingInvInit DEF Init
<1>2. TablesInv
  BY FS_EmptySet DEF Init, ServingInit, TablesInv, TablesTyped, InStaticLoop, FiniteBatches
<1>3. QED BY <1>1, <1>2 DEF Init, PipelineInv

LEMMA TablesStep ==
    ASSUME CoreInv, TablesInv, NEW r \in Runs, ServingStep(r)
    PROVE  TablesTyped' /\ InStaticLoop'
<1>1. CASE Abort(r)
  <2>1. Moves(r) /\ r \notin alive /\ alive' = alive /\ alive \subseteq Runs
    BY <1>1, AbortMoves DEF CoreInv, RunsTyped
  <2>2. InStaticLoop'
    BY <2>1, TablesStay DEF Moves
  <2>3. QED
    BY <1>1, <2>2 DEF Abort, lakeVars, pgVars, auxVars, TablesInv, TablesTyped
<1>2. QED BY <1>1, TablesBegin, TablesRun DEF ServingStep

LEMMA PipelineInvStep == PipelineInv /\ [Next]_vars => PipelineInv'
<1> SUFFICES ASSUME PipelineInv, [Next]_vars PROVE PipelineInv'
  OBVIOUS
<1>1. ClientInv' /\ ServingInv' /\ CoreInv
  BY ClientSteps, ClientInvStep, ServingInvStep DEF PipelineInv, ServingInv
<1>2. FiniteBatches'
  BY <1>1, FiniteBatchesStep DEF PipelineInv, TablesInv, ClientInv
<1>3. TablesTyped' /\ InStaticLoop'
  <2>1. CASE UNCHANGED servingVars
    BY <2>1 DEF servingVars, runVars, lakeVars, pgVars, auxVars, PipelineInv, TablesInv,
       TablesTyped, InStaticLoop
  <2>2. QED BY <1>1, <2>1, ServingSteps, TablesStep DEF PipelineInv
<1>4. ingestingRun' \in Runs \cup {NULL}
  BY DEF PipelineInv, Next, Ingest, StartRun, HandOver, Process, vars
<1>5. QED BY <1>1, <1>2, <1>3, <1>4 DEF PipelineInv, TablesInv

(* Type correctness of the pipeline: also of the aggregates, a minimum,      *)
(* maximum and sum of a batch that is never without end and never empty for  *)
(* a row, and of the loops over tables, which never run past their last.     *)
THEOREM PipelineTypeCorrect == Spec => []TypeOK
<1>1. PipelineInv => TypeOK
  BY DEF PipelineInv, ClientInv, ServingInv, CoreInv, RunsTyped, TablesInv, TablesTyped,
         TypeOK, ServingTypeOK
<1>2. QED BY <1>1, PipelineInvInit, PipelineInvStep, PTL DEF Spec
=============================================================================
