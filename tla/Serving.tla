-------------------------------- MODULE Serving --------------------------------
(***************************************************************************)
(* What a pipeline run leaves for its readers (src/src/pipeline_runner.py,  *)
(* from Step 4): the Gold tables, the static dimensions in the lake and in  *)
(* PostgreSQL, the daily facts in both, and the materialized view of the     *)
(* 7-day trends.  Every step is a commit of its own; a run can die between   *)
(* any two.  Runs may overlap: nothing keeps a manual run from starting     *)
(* while a scheduled one is on its way, on the same lake and PostgreSQL.     *)
(*                                                                          *)
(* dim_city is reduced to the number of the current version of each city,   *)
(* in the lake and in PostgreSQL; how it is kept is the matter of CityDim    *)
(* and StarSync, and so are the observation facts and their refusals.        *)
(***************************************************************************)
EXTENDS Integers, FiniteSets, FiniteSetsExt

CONSTANTS Runs,          \* runs of the pipeline
          Cities, Days,
          Hours,         \* times of day of a reading
          Temps,         \* temp_celsius
          GoldCount,     \* Gold tables, written in this order: four in the code
          StaticCount,   \* static dimensions, in this order: three in the code
          NULL

ASSUME ServingAssumption ==
    /\ GoldCount \in Nat \ {0}
    /\ StaticCount \in Nat \ {0}
    /\ Temps \subseteq Int
    /\ NULL \notin Runs

Reading == [city : Cities, day : Days, hour : Hours, temp : Temps]

(* A row of fact_daily_weather: its average is sum / count.  `first` and     *)
(* `run` are auxiliary: the run that inserted it and the last to write it.   *)
DailyRow == [city : Cities, day : Days, version : Nat, min : Int, max : Int,
             sum : Int, count : Nat, first : Runs, run : Runs]

VARIABLES
    at,           \* where a run stands
    done,         \* tables it has dealt with in a loop over tables
    alive,        \* runs that have neither ended nor died
    batch,        \* its silver_df
    moved,        \* cities whose tracked attributes its batch changes
    gold,         \* the run whose rows a Gold table has, or NULL
    lakeStatic,   \* static dimensions in the lake
    pgStatic,     \* static dimensions loaded to PostgreSQL
    lakeVersion,  \* current version of each city in the lake
    pgVersion,    \* and in PostgreSQL
    lakeDaily,    \* fact_daily_weather in the lake
    pgDaily,      \* warehouse.fact_daily_weather
    trends,       \* api.mv_city_7day_trends
    lastCommit,   \* auxiliary: the last run to commit what the view reads
    refreshed,    \* auxiliary: runs whose refresh succeeded
    met           \* auxiliary: pairs of runs that were alive together

runVars == <<at, done, alive, batch, moved>>
lakeVars == <<gold, lakeStatic, lakeVersion, lakeDaily>>
pgVars == <<pgStatic, pgVersion, pgDaily, trends>>
auxVars == <<lastCommit, refreshed, met>>
servingVars == <<runVars, lakeVars, pgVars, auxVars>>

Places == {"waiting", "gold", "static", "scd2", "facts", "count", "insert",
           "dims", "daily", "refresh", "complete", "refused", "aborted"}

ServingTypeOK ==
    /\ at \in [Runs -> Places]
    /\ done \in [Runs -> Nat]
    /\ alive \subseteq Runs
    /\ batch \in [Runs -> SUBSET Reading]
    /\ moved \in [Runs -> SUBSET Cities]
    /\ gold \in [1..GoldCount -> Runs \cup {NULL}]
    /\ lakeStatic \subseteq 1..StaticCount
    /\ pgStatic \subseteq 1..StaticCount
    /\ lakeVersion \in [Cities -> Nat]
    /\ pgVersion \in [Cities -> Nat]
    /\ lakeDaily \subseteq DailyRow
    /\ pgDaily \subseteq DailyRow
    /\ trends \subseteq DailyRow
    /\ lastCommit \in Runs \cup {NULL}
    /\ refreshed \subseteq Runs
    /\ met \subseteq SUBSET Runs

-----------------------------------------------------------------------------
SameDay(p, q) == p.city = q.city /\ p.day = q.day

SumOfTemps(readings) == SumFunction([x \in readings |-> x.temp])

DailyRowOf(r, c, d) ==
    LET group == {x \in batch[r] : x.city = c /\ x.day = d}
        temps == {x.temp : x \in group}
    IN  [city |-> c, day |-> d, version |-> lakeVersion[c],
         min |-> Min(temps), max |-> Max(temps),
         sum |-> SumOfTemps(group), count |-> Cardinality(group), first |-> r, run |-> r]

(* build(): the readings of the batch, grouped by city and day, with the     *)
(* version of the city that is current in the lake when it is evaluated.     *)
(* The code also groups by city_sk, name and country: with one current       *)
(* version of a city, and one answer for it in a batch, to the same groups.  *)
Built(r) == {DailyRowOf(r, x.city, x.day) : x \in batch[r]}

(* MERGE into the lake: a matched row is replaced.                           *)
MergedDaily(table, rows) ==
    {p \in table : \A q \in rows : ~SameDay(p, q)} \cup rows

(* (Variant: ON CONFLICT DO NOTHING.)                                        *)
InsertedDaily(table, rows) ==
    table \cup {q \in rows : \A p \in table : ~SameDay(p, q)}

(* INSERT ... ON CONFLICT (city_id, date_key) DO UPDATE SET average, count:  *)
(* of a matched row the city's key, minimum and maximum stay.                *)
UpsertedDaily(table, rows) ==
    LET Updated(p, q) == [p EXCEPT !.sum = q.sum, !.count = q.count, !.run = q.run]
    IN  {p \in table : \A q \in rows : ~SameDay(p, q)}
          \cup {q \in rows : \A p \in table : ~SameDay(p, q)}
          \cup UNION {{Updated(p, q) : q \in {x \in rows : SameDay(p, x)}} : p \in table}

(* mv_city_7day_trends: the daily facts of the current versions.             *)
Trends == {p \in pgDaily : p.version = pgVersion[p.city]}

-----------------------------------------------------------------------------
ServingInit ==
    /\ at = [r \in Runs |-> "waiting"]
    /\ done = [r \in Runs |-> 0]
    /\ alive = {}
    /\ batch = [r \in Runs |-> {}]
    /\ moved = [r \in Runs |-> {}]
    /\ gold = [t \in 1..GoldCount |-> NULL]
    /\ lakeStatic = {}
    /\ pgStatic = {}
    /\ lakeVersion = [c \in Cities |-> 0]
    /\ pgVersion = [c \in Cities |-> 0]
    /\ lakeDaily = {}
    /\ pgDaily = {}
    /\ trends = {}
    /\ lastCommit = NULL
    /\ refreshed = {}
    /\ met = {}

GoTo(r, place) ==
    /\ at' = [at EXCEPT ![r] = place]
    /\ done' = [done EXCEPT ![r] = 0]
    /\ UNCHANGED <<alive, batch, moved>>

(* The process ends there, and its memory with it.                           *)
EndAt(r, place) ==
    /\ at' = [at EXCEPT ![r] = place]
    /\ alive' = alive \ {r}
    /\ batch' = [batch EXCEPT ![r] = {}]
    /\ moved' = [moved EXCEPT ![r] = {}]
    /\ UNCHANGED done

(* (Variant: the loop makes one pass too many.)                              *)
NextTableOnceMore(r, n, place) ==
    /\ at' = [at EXCEPT ![r] = IF done[r] = n THEN place ELSE @]
    /\ done' = [done EXCEPT ![r] = IF done[r] = n THEN 0 ELSE @ + 1]
    /\ UNCHANGED <<alive, batch, moved>>

(* One pass of a loop over n tables, and the place after the last.           *)
NextTable(r, n, place) ==
    /\ at' = [at EXCEPT ![r] = IF done[r] + 1 = n THEN place ELSE @]
    /\ done' = [done EXCEPT ![r] = IF done[r] + 1 = n THEN 0 ELSE @ + 1]
    /\ UNCHANGED <<alive, batch, moved>>

(* The run has its silver_df.  What comes before touches none of the state   *)
(* here, so that runs may be taken to do it one after the other.             *)
Begin(r, readings, changed) ==
    /\ at[r] = "waiting"
    /\ at' = [at EXCEPT ![r] = "gold"]
    /\ batch' = [batch EXCEPT ![r] = readings]
    /\ moved' = [moved EXCEPT ![r] = changed \cap {x.city : x \in readings}]
    /\ met' = met \cup {{q, r} : q \in alive}
    /\ alive' = alive \cup {r}
    /\ UNCHANGED <<done, lakeVars, pgVars, lastCommit, refreshed>>

(* "No records ingested - aborting pipeline".                                *)
Abort(r) ==
    /\ at[r] = "waiting"
    /\ at' = [at EXCEPT ![r] = "aborted"]
    /\ UNCHANGED <<done, alive, batch, moved, lakeVars, pgVars, auxVars>>

Running(r, place) == r \in alive /\ at[r] = place

(* (Variant: the last table is not written when it would be empty.)          *)
WriteGoldUnlessEmpty(r) ==
    /\ Running(r, "gold")
    /\ \/ gold' = [gold EXCEPT ![done[r] + 1] = r]
       \/ done[r] + 1 = GoldCount /\ gold' = gold
    /\ NextTable(r, GoldCount, "static")
    /\ UNCHANGED <<lakeStatic, lakeVersion, lakeDaily, pgVars, auxVars>>

(* GoldProcessor.run: each table is overwritten from the batch.              *)
WriteGold(r) ==
    /\ Running(r, "gold")
    /\ gold' = [gold EXCEPT ![done[r] + 1] = r]
    /\ NextTable(r, GoldCount, "static")
    /\ UNCHANGED <<lakeStatic, lakeVersion, lakeDaily, pgVars, auxVars>>

(* A static dimension is generated unless the lake has it.                   *)
Bootstrap(r) ==
    /\ Running(r, "static")
    /\ lakeStatic' = lakeStatic \cup {done[r] + 1}
    /\ NextTable(r, StaticCount, "scd2")
    /\ UNCHANGED <<gold, lakeVersion, lakeDaily, pgVars, auxVars>>

ApplyChanges(r) ==
    /\ Running(r, "scd2")
    /\ lakeVersion' = [c \in Cities |->
                         IF c \in moved[r] \/ (lakeVersion[c] = 0 /\ \E x \in batch[r] : x.city = c)
                           THEN lakeVersion[c] + 1 ELSE lakeVersion[c]]
    /\ GoTo(r, "facts")
    /\ UNCHANGED <<gold, lakeStatic, lakeDaily, pgVars, auxVars>>

LoadDaily(r) ==
    /\ Running(r, "facts")
    /\ lakeDaily' = MergedDaily(lakeDaily, Built(r))
    /\ GoTo(r, "count")
    /\ UNCHANGED <<gold, lakeStatic, lakeVersion, pgVars, auxVars>>

(* (Variant: the rows are inserted without counting them.)                   *)
CountStaticNever(r) ==
    /\ Running(r, "count")
    /\ at' = [at EXCEPT ![r] = "insert"]
    /\ UNCHANGED <<done, alive, batch, moved, lakeVars, pgVars, auxVars>>

(* _sync_to_postgres, static dimensions: the count of a table's rows ...     *)
CountStatic(r) ==
    /\ Running(r, "count")
    /\ IF done[r] + 1 \in pgStatic
         THEN NextTable(r, StaticCount, "dims")
         ELSE /\ at' = [at EXCEPT ![r] = "insert"]
              /\ UNCHANGED <<done, alive, batch, moved>>
    /\ UNCHANGED <<lakeVars, pgVars, auxVars>>

(* ... and, in another transaction, the insert of all rows of the lake's:    *)
(* its primary key refuses them if the table has been loaded meanwhile.      *)
InsertStatic(r) ==
    /\ Running(r, "insert")
    /\ done[r] + 1 \in lakeStatic
    /\ done[r] + 1 \notin pgStatic
    /\ pgStatic' = pgStatic \cup {done[r] + 1}
    /\ at' = [at EXCEPT ![r] = IF done[r] + 1 = StaticCount THEN "dims" ELSE "count"]
    /\ done' = [done EXCEPT ![r] = IF @ + 1 = StaticCount THEN 0 ELSE @ + 1]
    /\ UNCHANGED <<alive, batch, moved, lakeVars, pgVersion, pgDaily, trends, auxVars>>

RefuseStatic(r) ==
    /\ Running(r, "insert")
    /\ done[r] + 1 \in pgStatic
    /\ EndAt(r, "refused")
    /\ UNCHANGED <<lakeVars, pgVars, auxVars>>

(* dim_city as the lake has it; then the observation facts.  The lake is     *)
(* read just before the transaction: a change that another run makes in     *)
(* between is taken to come after it, here and in CommitDaily.  What the     *)
(* code does then differs from an earlier or later step of one of the two    *)
(* only for runs that overlap, which the properties below set apart.         *)
CommitDims(r) ==
    /\ Running(r, "dims")
    /\ pgVersion' = lakeVersion
    /\ lastCommit' = r
    /\ GoTo(r, "daily")
    /\ UNCHANGED <<lakeVars, pgStatic, pgDaily, trends, refreshed, met>>

(* fact_daily_df is lazy: toPandas() builds it again.                        *)
Resolves(rows) == \A p \in rows : p.version <= pgVersion[p.city]

CommitDaily(r) ==
    /\ Running(r, "daily")
    /\ Resolves(Built(r))
    /\ pgDaily' = UpsertedDaily(pgDaily, Built(r))
    /\ lastCommit' = r
    /\ GoTo(r, "refresh")
    /\ UNCHANGED <<lakeVars, pgStatic, pgVersion, trends, refreshed, met>>

RefuseDaily(r) ==
    /\ Running(r, "daily")
    /\ ~Resolves(Built(r))
    /\ EndAt(r, "refused")
    /\ UNCHANGED <<lakeVars, pgVars, auxVars>>

(* (Variant: a view that has rows is left alone.)                            *)
RefreshOnce(r) ==
    /\ Running(r, "refresh")
    /\ trends' = IF trends = {} THEN Trends ELSE trends
    /\ refreshed' = refreshed \cup {r}
    /\ EndAt(r, "complete")
    /\ UNCHANGED <<lakeVars, pgStatic, pgVersion, pgDaily, lastCommit, met>>

Refresh(r) ==
    /\ Running(r, "refresh")
    /\ trends' = Trends
    /\ refreshed' = refreshed \cup {r}
    /\ EndAt(r, "complete")
    /\ UNCHANGED <<lakeVars, pgStatic, pgVersion, pgDaily, lastCommit, met>>

(* "Materialized view refresh failed (non-fatal)".                           *)
RefreshFails(r) ==
    /\ Running(r, "refresh")
    /\ EndAt(r, "complete")
    /\ UNCHANGED <<lakeVars, pgVars, auxVars>>

(* The process dies, or a step raises.                                       *)
Die(r) ==
    /\ r \in alive
    /\ EndAt(r, at[r])
    /\ UNCHANGED <<lakeVars, pgVars, auxVars>>

RunStep(r) ==
    \/ WriteGold(r) \/ Bootstrap(r) \/ ApplyChanges(r) \/ LoadDaily(r)
    \/ CountStatic(r) \/ InsertStatic(r) \/ RefuseStatic(r)
    \/ CommitDims(r) \/ CommitDaily(r) \/ RefuseDaily(r)
    \/ Refresh(r) \/ RefreshFails(r)
    \/ Die(r)

-----------------------------------------------------------------------------
(* Properties.                                                               *)

Met(q, r) == {q, r} \in met

InGold(r) == at[r] = "gold" /\ done[r] > 0

(* The Gold tables describe one batch: a table that is not of the run that   *)
(* wrote the last one comes from a run that has not finished its Gold tables *)
(* (it is at it, or died there), or from one that overlapped that run.       *)
GoldTablesAgree ==
    LET last == gold[GoldCount] IN
    \A t \in 1..GoldCount :
        gold[t] \in {last, NULL} \/ InGold(gold[t])
          \/ (last # NULL /\ Met(gold[t], last))

(* PostgreSQL has the lake's average and count of a day, unless the run that *)
(* aggregated the lake's row has not committed it (it is on its way, died or *)
(* was refused) or overlapped the run that did commit.  If no run had synced *)
(* the day before, it has the lake's extremes too, and the lake's version or *)
(* a newer one: the frame is evaluated again when it is sent.                *)
DailyFollowsLake ==
    \A q \in lakeDaily :
        \/ \E p \in pgDaily :
              /\ SameDay(p, q) /\ p.sum = q.sum /\ p.count = q.count
              /\ p.run = p.first =>
                   p.min = q.min /\ p.max = q.max /\ p.version >= q.version
        \/ at[q.run] \notin {"refresh", "complete"}
        \/ \E p \in pgDaily : SameDay(p, q) /\ Met(p.run, q.run)

(* A run that is alone is not refused: no repetition of the pipeline, also   *)
(* after runs that died anywhere, loads a static dimension twice or has a    *)
(* daily fact without its version.                                           *)
RefusedOnlyByOverlap ==
    \A r \in Runs : at[r] = "refused" => \E q \in Runs \ {r} : Met(q, r)

(* After a run that committed last and whose refresh did not fail, the view  *)
(* is what the tables say; a failed refresh is made good by the next run.    *)
RefreshedViewsAreCurrent ==
    lastCommit \in refreshed => trends = Trends
=============================================================================
