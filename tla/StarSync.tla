------------------------------- MODULE StarSync -------------------------------
(***************************************************************************)
(* The last third of a pipeline run (src/src/pipeline_runner.py): dim_city  *)
(* by CityDim, the observation facts of the batch in the Delta lake, and    *)
(* their copy to the PostgreSQL star schema in two transactions, dim_city   *)
(* first and fact_observations next (src/sql/003_dimensions.sql, 004_facts). *)
(*                                                                          *)
(* The transaction on dim_city upserts row by row, in the order in which    *)
(* Spark returns the rows, under the unique index on the current version of *)
(* a city.  A refused statement or a dead process rolls the transaction     *)
(* back and ends the run; what earlier transactions committed stays.  The   *)
(* lake is on the disk of the machine that runs the pipeline: it persists   *)
(* on a developer's machine, and every run of the hourly workflow starts    *)
(* with an empty one, while PostgreSQL persists in both.                    *)
(***************************************************************************)
EXTENDS Naturals, FiniteSets

CONSTANTS Cities, Attrs, RowHash, Batches, MaxTime, NULL,  \* as in CityDim
          Codes,       \* weather condition codes a reading may carry
          KnownCodes,  \* those with a row in dim_weather_condition
          Silvers,     \* the sets of readings a run may have in silver_df
          Ephemeral    \* TRUE: every run gets a new machine

(* A reading of the batch: source columns of dim_city, and of the fact.  Its *)
(* time is the run's, or an earlier one when the weather service repeats an *)
(* old measurement: `age` 1 means that of the run before.                    *)
Reading == [city : Cities, attrs : Attrs, age : {0, 1}, code : Codes]

VersionKey == [city : Cities, attrs : Attrs, from : Nat]

Fact == [city : Cities, at : Nat, sk : VersionKey \cup {NULL}, code : Codes]

SourceRows(silver) == {[city |-> r.city, attrs |-> r.attrs] : r \in silver}

ASSUME StarSyncAssumption ==
    /\ Silvers \subseteq SUBSET Reading
    /\ KnownCodes \subseteq Codes
    /\ Ephemeral \in BOOLEAN
    /\ \A silver \in Silvers : SourceRows(silver) \in Batches

VARIABLES
    dim, created, clock, source, stage, interrupted, single,  \* CityDim, in the lake
    silver,    \* the readings of the run
    lakeObs,   \* fact_observations of the lake
    phase,     \* where the run stands
    pgDim,     \* warehouse.dim_city
    pgObs,     \* warehouse.fact_observations
    txDim,     \* dim_city as the open transaction sees it
    todo       \* rows of the lake's dim_city that the transaction has yet to upsert

cityVars == <<dim, created, clock, source, stage, interrupted, single>>
vars == <<cityVars, silver, lakeObs, phase, pgDim, pgObs, txDim, todo>>

City == INSTANCE CityDim

ASSUME CityAssumption == City!CityDimAssumption

TypeOK ==
    /\ City!TypeOK
    /\ silver \subseteq Reading
    /\ lakeObs \subseteq Fact
    /\ phase \in {"idle", "scd2", "dims", "facts", "complete", "refused"}
    /\ pgDim \subseteq City!Version
    /\ pgObs \subseteq Fact
    /\ txDim \subseteq City!Version
    /\ todo \subseteq City!Version

-----------------------------------------------------------------------------
Key(v) == City!Identity(v)

(* (Variant: the natural key is taken for the surrogate key.)                *)
ResolvedToCity(r) ==
    {[city |-> r.city, at |-> clock - r.age, sk |-> r.city, code |-> r.code]}

(* (Variant: the join forgets its condition.)                                *)
ResolvedToAnyCity(r) ==
    {[city |-> r.city, at |-> clock - r.age, sk |-> Key(v), code |-> r.code] :
        v \in City!Current}

(* (Variant: one version per city, but the oldest and not the current one.)  *)
ResolvedToOldest(r) ==
    LET versions == {v \in dim : v.city = r.city}
        oldest == {v \in versions : \A w \in versions : v.from <= w.from}
    IN  {[city |-> r.city, at |-> clock - r.age, sk |-> Key(v), code |-> r.code] :
            v \in oldest}

(* resolve_keys(): a left join of the reading with the current versions of  *)
(* its city.                                                                 *)
Resolved(r) ==
    LET versions == {v \in City!Current : v.city = r.city}
        keys == IF versions = {} THEN {NULL} ELSE {Key(v) : v \in versions}
    IN  {[city |-> r.city, at |-> clock - r.age, sk |-> k, code |-> r.code] : k \in keys}

FactRows == UNION {Resolved(r) : r \in silver}

SameGrain(f, g) == f.city = g.city /\ f.at = g.at

(* (Variant: matched rows are not replaced.)                                 *)
InsertedFacts(table, rows) ==
    table \cup {g \in rows : \A f \in table : ~SameGrain(f, g)}

(* MERGE into the lake: matched rows are replaced.                           *)
MergedFacts(table, rows) ==
    {f \in table : \A g \in rows : ~SameGrain(f, g)} \cup rows

(* INSERT ... ON CONFLICT (city_id, observed_at) DO UPDATE SET ...: of the   *)
(* columns modelled here the update sets none, a matched row keeps its key.  *)
UpsertedFacts(table, rows) ==
    table \cup {g \in rows : \A f \in table : ~SameGrain(f, g)}

(* NOT NULL is checked on the proposed row, the foreign keys on a new row.   *)
Acceptable(f) ==
    /\ f.sk # NULL
    /\ \/ \E g \in pgObs : SameGrain(f, g)
       \/ (\E v \in pgDim : Key(v) = f.sk) /\ f.code \in KnownCodes

(* (Variant: the upsert leaves effective_to.)                                *)
UpsertedDimFlagOnly(table, v) ==
    {p \in table : Key(p) # Key(v)}
      \cup (IF \E p \in table : Key(p) = Key(v)
              THEN {[p EXCEPT !.current = v.current] : p \in {q \in table : Key(q) = Key(v)}}
              ELSE {v})

(* (Variant: ON CONFLICT DO NOTHING.)                                        *)
InsertedDim(table, v) ==
    IF \E p \in table : Key(p) = Key(v) THEN table ELSE table \cup {v}

(* INSERT ... ON CONFLICT (city_sk) DO UPDATE SET effective_to, is_current.  *)
UpsertedDim(table, v) == {p \in table : Key(p) # Key(v)} \cup {v}

(* uix_dim_city_current.                                                     *)
UniqueCurrent(table) ==
    \A p, q \in table : p.current /\ q.current /\ p.city = q.city => p = q

-----------------------------------------------------------------------------
Init ==
    /\ City!Init
    /\ silver = {}
    /\ lakeObs = {}
    /\ phase = "idle"
    /\ pgDim = {}
    /\ pgObs = {}
    /\ txDim = {}
    /\ todo = {}

Ended == phase \in {"idle", "complete", "refused"}

StartRun(readings) ==
    /\ Ended
    /\ Ephemeral => ~created
    /\ City!ApplySCD2(SourceRows(readings))
    /\ silver' = readings
    /\ phase' = "scd2"
    /\ UNCHANGED <<lakeObs, pgDim, pgObs, txDim, todo>>

(* The two commits of apply_scd2; its MERGE is never refused, see CityDim.   *)
CityStep ==
    /\ phase = "scd2"
    /\ City!Expire \/ City!Append
    /\ UNCHANGED <<silver, lakeObs, phase, pgDim, pgObs, txDim, todo>>

(* FactObservationsLoader.load; then the transaction on dim_city begins.     *)
LoadFacts ==
    /\ phase = "scd2"
    /\ stage = "done"
    /\ lakeObs' = MergedFacts(lakeObs, FactRows)
    /\ phase' = "dims"
    /\ txDim' = pgDim
    /\ todo' = dim
    /\ UNCHANGED <<cityVars, silver, pgDim, pgObs>>

UpsertDim(v) ==
    /\ phase = "dims"
    /\ UniqueCurrent(UpsertedDim(txDim, v))
    /\ txDim' = UpsertedDim(txDim, v)
    /\ todo' = todo \ {v}
    /\ UNCHANGED <<cityVars, silver, lakeObs, phase, pgDim, pgObs>>

(* A unique violation aborts the transaction and the run.                    *)
RefuseDim(v) ==
    /\ phase = "dims"
    /\ ~UniqueCurrent(UpsertedDim(txDim, v))
    /\ phase' = "refused"
    /\ txDim' = {}
    /\ todo' = {}
    /\ UNCHANGED <<cityVars, silver, lakeObs, pgDim, pgObs>>

CommitDims ==
    /\ phase = "dims"
    /\ todo = {}
    /\ pgDim' = txDim
    /\ phase' = "facts"
    /\ txDim' = {}
    /\ UNCHANGED <<cityVars, silver, lakeObs, pgObs, todo>>

(* (Variant: unacceptable rows are skipped instead of aborting.)             *)
CommitFactsSkipping ==
    /\ phase = "facts"
    /\ pgObs' = UpsertedFacts(pgObs, {f \in FactRows : Acceptable(f)})
    /\ phase' = "complete"
    /\ UNCHANGED <<cityVars, silver, lakeObs, pgDim, txDim, todo>>

CommitFacts ==
    /\ phase = "facts"
    /\ \A f \in FactRows : Acceptable(f)
    /\ pgObs' = UpsertedFacts(pgObs, FactRows)
    /\ phase' = "complete"
    /\ UNCHANGED <<cityVars, silver, lakeObs, pgDim, txDim, todo>>

(* One unacceptable row aborts the transaction for the whole batch.          *)
RefuseFacts ==
    /\ phase = "facts"
    /\ \E f \in FactRows : ~Acceptable(f)
    /\ phase' = "refused"
    /\ UNCHANGED <<cityVars, silver, lakeObs, pgDim, pgObs, txDim, todo>>

(* The process dies; PostgreSQL rolls an open transaction back.              *)
Crash ==
    /\ ~Ended
    /\ City!Crash \/ (stage = "done" /\ UNCHANGED cityVars)
    /\ phase' = "idle"
    /\ txDim' = {}
    /\ todo' = {}
    /\ UNCHANGED <<silver, lakeObs, pgDim, pgObs>>

(* The next run of the hourly workflow gets a machine with an empty lake.    *)
NewMachine ==
    /\ Ephemeral
    /\ Ended
    /\ created
    /\ dim' = {}
    /\ created' = FALSE
    /\ source' = {}
    /\ stage' = "idle"
    /\ interrupted' = {}
    /\ single' = TRUE
    /\ lakeObs' = {}
    /\ UNCHANGED <<clock, silver, phase, pgDim, pgObs, txDim, todo>>

Next ==
    \/ \E readings \in Silvers : StartRun(readings)
    \/ CityStep
    \/ LoadFacts
    \/ \E v \in todo : UpsertDim(v)
    \/ \E v \in todo : RefuseDim(v)
    \/ CommitDims
    \/ CommitFacts
    \/ RefuseFacts
    \/ Crash
    \/ NewMachine

Spec == Init /\ [][Next]_vars

-----------------------------------------------------------------------------
(* Properties.                                                               *)

(* PostgreSQL lags behind the lake's dim_city but never contradicts it: each *)
(* of its versions is one of the lake's, and a version it holds as closed is *)
(* closed at the same time in the lake, whatever syncs were refused or died. *)
DimNeverContradictsLake ==
    ~Ephemeral =>
        \A p \in pgDim : \E v \in dim : Key(v) = Key(p) /\ (p.current \/ p = v)

(* When the facts are written, PostgreSQL's dim_city is the lake's.          *)
DimSyncedBeforeFacts ==
    ~Ephemeral /\ phase \in {"facts", "complete"} => pgDim = dim

(* A fact refers to a version of its own city that is in PostgreSQL.         *)
FactsResolve ==
    \A f \in pgObs : \E v \in pgDim : Key(v) = f.sk /\ v.city = f.city

(* The lake's MERGE gives a repeated measurement the version that is now     *)
(* current, PostgreSQL's upsert leaves it the one it had.  Whatever runs are *)
(* refused or die, each of PostgreSQL's facts is in the lake, of the same    *)
(* version; or PostgreSQL names the version that held at the measurement,    *)
(* and the lake one that began after it.                                     *)
FactVersionsAgree ==
    ~Ephemeral =>
        \A f \in pgObs : \E g \in lakeObs :
            /\ SameGrain(f, g)
            /\ f.sk = g.sk \/ (f.sk.from <= f.at /\ f.at < g.sk.from)

Visible(f) == \E v \in pgDim : v.current /\ Key(v) = f.sk

(* v_latest_per_city: the latest visible fact of each city.                  *)
LatestPerCity ==
    {f \in pgObs : Visible(f) /\ \A g \in pgObs :
        g.city = f.city /\ Visible(g) => g.at <= f.at}

(* v_latest_per_city shows the reading, or a later one of its city.          *)
Shown(r) == \E f \in LatestPerCity : f.city = r.city /\ f.at >= clock - r.age

VersionBegan(c) == \E v \in pgDim : v.city = c /\ v.current /\ v.from = clock

(* A completed run shows its readings, those that repeat a measurement of    *)
(* the run before included, unless a version of the city began with this    *)
(* run: then a repeated measurement keeps the key of the version just closed. *)
CompletedRunIsShown ==
    phase = "complete" =>
        \A r \in silver : Shown(r) \/ (r.age = 1 /\ VersionBegan(r.city))

(* Between runs, every city with facts is in v_latest_per_city.              *)
EveryCityShown ==
    Ended => \A f \in pgObs : \E g \in LatestPerCity : g.city = f.city

(* A run is never refused: re-running the pipeline is safe.                  *)
NeverRefused == phase # "refused"
=============================================================================
