------------------------------- MODULE CityDim -------------------------------
(***************************************************************************)
(* The type-2 slowly changing dimension dim_city of the Delta lake          *)
(* (src/src/warehouse/dimensions/dim_city.py).                              *)
(*                                                                          *)
(* One pipeline run applies one batch of source rows, at one time `now`.    *)
(* The first run creates the table.  A later run joins the batch with the   *)
(* current versions and, where a tracked column changed or the city is new, *)
(* makes TWO Delta commits: a MERGE that closes the versions of the changed *)
(* cities, and an append of their successors.  A Delta commit is atomic, the *)
(* pair is not: the process can die between them.  Runs on one lake follow  *)
(* one another.                                                             *)
(*                                                                          *)
(* The surrogate key, a uuid() drawn at insertion, is not a column here: a  *)
(* version is identified by its city, its attributes and the time of the    *)
(* run that inserted it, which no other insertion repeats.                  *)
(***************************************************************************)
EXTENDS Naturals, FiniteSets

CONSTANTS Cities,    \* natural keys (city_id)
          Attrs,     \* values of the remaining source columns
          RowHash,   \* RowHash[a]: the MD5 of the tracked columns of a
          Batches,   \* the source relations a run may be given
          MaxTime,   \* bound: the number of runs that are explored
          NULL

SourceRow == [city : Cities, attrs : Attrs]

Version == [city : Cities, attrs : Attrs, from : Nat,
            to : Nat \cup {NULL}, current : BOOLEAN]

ASSUME CityDimAssumption ==
    /\ Batches \subseteq SUBSET SourceRow
    /\ MaxTime \in Nat
    /\ NULL \notin Nat \cup Version

VARIABLES
    dim,          \* the rows of the Delta table
    created,      \* DeltaTable.isDeltaTable(dim_path)
    clock,        \* `now` of the latest run
    source,       \* the batch of the latest run
    stage,        \* where apply_scd2 stands
    interrupted,  \* auxiliary: the runs that died between their two commits
    single        \* auxiliary: no batch so far named a city twice

vars == <<dim, created, clock, source, stage, interrupted, single>>

TypeOK ==
    /\ dim \subseteq Version
    /\ created \in BOOLEAN
    /\ clock \in Nat
    /\ source \in SUBSET SourceRow
    /\ stage \in {"idle", "merge", "append", "done", "failed"}
    /\ interrupted \subseteq Nat
    /\ single \in BOOLEAN

-----------------------------------------------------------------------------
(* Operators on the table and the batch.                                     *)

Current == {r \in dim : r.current}

OneRowPerCity(rows) == \A m, n \in rows : m.city = n.city => m = n

(* (Variant: the cast of effective_from yields NULL.)                        *)
NewVersionWithoutDate(row, now) ==
    [city |-> row.city, attrs |-> row.attrs,
     from |-> NULL, to |-> NULL, current |-> TRUE]

(* (Variant: a version is dated back by one tick.)                           *)
NewVersionBackdated(row, now) ==
    [city |-> row.city, attrs |-> row.attrs,
     from |-> now - 1, to |-> NULL, current |-> TRUE]

NewVersion(row, now) ==
    [city |-> row.city, attrs |-> row.attrs,
     from |-> now, to |-> NULL, current |-> TRUE]

Unmatched == NULL

(* (Variant: an inner join, which loses the new cities.)                     *)
InnerJoined(rows) == {j \in rows \X Current : j[1].city = j[2].city}

(* The left join of the batch with the current versions: pairs of a source  *)
(* row and a current version of its city, or Unmatched when there is none.   *)
Joined(rows) ==
    {j \in rows \X Current : j[1].city = j[2].city}
      \cup {<<n, Unmatched>> : n \in {m \in rows : \A o \in Current : o.city # m.city}}

(* (Variant: no change filter.)                                              *)
ChangesUnfiltered(rows) == Joined(rows)

(* (Variant: only new cities count as changes.)                              *)
ChangesNewCities(rows) == {ch \in Joined(rows) : ch[2] = Unmatched}

(* The rows of the join that the filter keeps: new cities and changed hashes. *)
Changes(rows) ==
    {j \in Joined(rows) :
        j[2] = Unmatched \/ RowHash[j[1].attrs] # RowHash[j[2].attrs]}

ChangedCities(rows) == {ch[1].city : ch \in Changes(rows)}

(* Delta refuses a MERGE in which two source rows update one target row.     *)
Ambiguous(changes) ==
    \E r \in Current : \E c1, c2 \in changes :
        c1 # c2 /\ c1[1].city = r.city /\ c2[1].city = r.city

-----------------------------------------------------------------------------
Init ==
    /\ dim = {}
    /\ created = FALSE
    /\ clock = 0
    /\ source = {}
    /\ stage = "idle"
    /\ interrupted = {}
    /\ single = TRUE

(* A run reaches apply_scd2 with a batch and reads the clock.                *)
StartRun(rows) ==
    /\ stage \notin {"merge", "append"}
    /\ clock < MaxTime
    /\ clock' = clock + 1
    /\ source' = rows
    /\ single' = (single /\ OneRowPerCity(rows))
    /\ UNCHANGED interrupted

(* (Variant: the table is created again although it exists.)                 *)
InitializeAlways(rows) ==
    /\ StartRun(rows)
    /\ dim' = {NewVersion(n, clock') : n \in rows}
    /\ created' = TRUE
    /\ stage' = "done"

Initialize(rows) ==
    /\ StartRun(rows)
    /\ ~created
    /\ dim' = {NewVersion(n, clock') : n \in rows}
    /\ created' = TRUE
    /\ stage' = "done"

DetectChanges(rows) ==
    /\ StartRun(rows)
    /\ created
    /\ stage' = IF Changes(rows) = {} THEN "done" ELSE "merge"
    /\ UNCHANGED <<dim, created>>

(* (Variant: the MERGE dates the end but leaves is_current.)                 *)
ExpireLeavingFlag ==
    /\ stage = "merge"
    /\ ~Ambiguous(Changes(source))
    /\ dim' = {IF r.current /\ r.city \in ChangedCities(source)
                 THEN [r EXCEPT !.to = clock]
                 ELSE r : r \in dim}
    /\ stage' = "append"
    /\ UNCHANGED <<created, clock, source, interrupted, single>>

(* (Variant: the MERGE closes a version one tick early.)                     *)
ExpireEarly ==
    /\ stage = "merge"
    /\ ~Ambiguous(Changes(source))
    /\ dim' = {IF r.current /\ r.city \in ChangedCities(source)
                 THEN [r EXCEPT !.to = clock - 1, !.current = FALSE]
                 ELSE r : r \in dim}
    /\ stage' = "append"
    /\ UNCHANGED <<created, clock, source, interrupted, single>>

Expire ==
    /\ stage = "merge"
    /\ ~Ambiguous(Changes(source))
    /\ dim' = {IF r.current /\ r.city \in ChangedCities(source)
                 THEN [r EXCEPT !.to = clock, !.current = FALSE]
                 ELSE r : r \in dim}
    /\ stage' = "append"
    /\ UNCHANGED <<created, clock, source, interrupted, single>>

RefuseMerge ==
    /\ stage = "merge"
    /\ Ambiguous(Changes(source))
    /\ stage' = "failed"
    /\ UNCHANGED <<dim, created, clock, source, interrupted, single>>

(* `changes` is a lazy DataFrame: the append evaluates it again, on the      *)
(* snapshot the MERGE has just committed.                                    *)
Append ==
    /\ stage = "append"
    /\ dim' = dim \cup {NewVersion(ch[1], clock) : ch \in Changes(source)}
    /\ stage' = "done"
    /\ UNCHANGED <<created, clock, source, interrupted, single>>

(* The process dies, or a commit fails, before the next commit.              *)
Crash ==
    /\ stage \in {"merge", "append"}
    /\ stage' = "failed"
    /\ interrupted' = IF stage = "append" THEN interrupted \cup {clock}
                                          ELSE interrupted
    /\ UNCHANGED <<dim, created, clock, source, single>>

ApplySCD2(rows) == Initialize(rows) \/ DetectChanges(rows)

Next ==
    \/ \E rows \in Batches : ApplySCD2(rows)
    \/ Expire
    \/ RefuseMerge
    \/ Append
    \/ Crash

Spec == Init /\ [][Next]_vars

-----------------------------------------------------------------------------
(* Properties.                                                               *)

(* While no batch names a city twice, no two versions of a city are current *)
(* at once, whatever runs die between the MERGE and the append.              *)
OneCurrentPerCity ==
    single => \A r, s \in Current : r.city = s.city => r = s

(* Under the same condition the intervals of a city's versions do not       *)
(* overlap; and always `is_current` says the same as an open interval.       *)
OpenIsCurrent == \A r \in dim : r.current <=> r.to = NULL

DisjointIntervals ==
    /\ OpenIsCurrent
    /\ single =>
          \A r, s \in dim :
              r.city = s.city /\ r # s /\ r.from <= s.from
                => r.to # NULL /\ r.to <= s.from

Follows(s, r) == s.city = r.city /\ r.to # NULL /\ s.from = r.to

(* A closed version is followed at once by its successor: only a run that   *)
(* died between its commits, or is now between them, leaves a gap.           *)
GapsOnlyFromCrashes ==
    \A r \in dim :
        r.to = NULL
          \/ (\E s \in dim : Follows(s, r))
          \/ r.to \in interrupted
          \/ (stage = "append" /\ r.to = clock)

(* While no batch names a city twice, a version that follows another at     *)
(* once differs from it in a tracked column: re-running with an unchanged   *)
(* source adds no history.                                                   *)
NoRedundantVersions ==
    single =>
        \A r, s \in dim : Follows(s, r) => RowHash[r.attrs] # RowHash[s.attrs]

(* A run that ends well leaves every row of its batch with a current        *)
(* version that has its tracked columns, also when it follows a run that    *)
(* died half way.                                                            *)
AppliedBatchIsCurrent ==
    stage = "done" =>
        \A n \in source : \E r \in Current :
            r.city = n.city /\ RowHash[r.attrs] = RowHash[n.attrs]

(* While no batch names a city twice, the MERGE never meets two source rows *)
(* for one version, which Delta would refuse: every run gets through.        *)
MergeIsNeverRefused ==
    single /\ stage = "merge" => ~Ambiguous(Changes(source))

-----------------------------------------------------------------------------
(* The inductive strengthening of the invariants above.  Versions carry     *)
(* dates up to the clock; a version of the present moment exists only when  *)
(* the run has made its last commit; after the MERGE, a current version of  *)
(* a city of the batch already has the batch's tracked columns, and a       *)
(* version just closed belongs to a city of the batch.                       *)
DatesReached ==
    \A r \in dim :
        /\ r.from <= clock
        /\ r.to # NULL => r.from <= r.to /\ r.to <= clock

TableInv ==
    /\ TypeOK
    /\ clock <= MaxTime
    /\ created \/ (dim = {} /\ stage = "idle")
    /\ DatesReached
    /\ OpenIsCurrent

BatchBeforeAppend ==
    /\ stage \in {"merge", "append"} => \A r \in dim : r.from < clock
    /\ stage = "merge" => \A r \in dim : r.to # clock
    /\ stage = "append" =>
          /\ \A n \in source, r \in Current :
                r.city = n.city => RowHash[r.attrs] = RowHash[n.attrs]
          /\ \A r \in dim : r.to = clock =>
                /\ \A o \in Current : o.city # r.city
                /\ \E n \in source : n.city = r.city

SingleBatch ==
    single =>
        /\ OneRowPerCity(source)
        /\ stage = "append" => \A r \in dim : r.to = clock =>
              \E n \in source : n.city = r.city
                                  /\ RowHash[n.attrs] # RowHash[r.attrs]

IInv ==
    /\ TableInv
    /\ BatchBeforeAppend
    /\ SingleBatch
    /\ OneCurrentPerCity
    /\ DisjointIntervals
    /\ GapsOnlyFromCrashes
    /\ NoRedundantVersions
    /\ AppliedBatchIsCurrent

-----------------------------------------------------------------------------
(* What the dimension says about a city at time t.                           *)
AsOf(c, t) ==
    {r.attrs : r \in {x \in dim : x.city = c /\ x.from <= t
                                    /\ (x.to = NULL \/ t < x.to)}}

(* No step of a run changes what the dimension says about an earlier time:  *)
(* a report about the past can be reproduced.                                *)
PastIsStable ==
    [][\A c \in Cities : \A t \in 0..MaxTime :
          t < clock' => AsOf(c, t)' = AsOf(c, t)]_vars

Identity(r) == [city |-> r.city, attrs |-> r.attrs, from |-> r.from]

(* The dimension implements the append-only log of CityHistory: its two     *)
(* commits, its crashes and its refused MERGEs are invisible there.          *)
History == INSTANCE CityHistory
             WITH versions <- {Identity(r) : r \in dim}, now <- clock

ImplementsHistory == History!Spec

(* No version is lost, and one that is closed never changes again, although *)
(* creating the table overwrites it.                                         *)
HistoryIsKept ==
    [][\A r \in dim : \E s \in dim' :
          Identity(s) = Identity(r) /\ (r.current \/ s = r)]_vars
=============================================================================
