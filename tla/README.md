# Verification of the weather data warehouse

TLA+ models of the pipeline of this repository, the TLC configurations that
check them on small instances, and theorems about them that TLAPS has checked
for every value of the constants.  Paths below are relative to the repository.

## 1. The system

An hourly batch job, `run()` in `src/pipeline_runner.py`, moves weather readings
from the OpenWeatherMap API through a Delta lake into a PostgreSQL star schema.
An API and a dashboard read the star schema.

    OWM client -> Bronze -> Silver (+ quarantine, watermark) -> Gold
                              |
                              v
                 dim_city (SCD2), facts (Delta)  ->  PostgreSQL  ->  views, API

One run is one process.  It makes many commits one after another, each atomic
(a Delta commit or a PostgreSQL transaction), and no transaction spans two of
them.  It can die between any two.  The lake is on the local disk; PostgreSQL is
a service.  On a developer's machine (`README.md`, step 6) the lake persists; the
hourly workflow (`.github/workflows/ingest_hourly.yml`) gives every run a new
machine and saves nothing but the pip cache, so its lake starts empty.

### Inventory

| Component | State it keeps | Operations | What makes it correct |
|---|---|---|---|
| OWM client, `ingestion/` | raw JSON files | get with retries, ingest a city, ingest all (skips failures) | ends after 3 attempts; one city's failure costs no other city |
| Bronze, `processing/bronze.py` | Delta table keyed by (city_id, observed_at_utc) | MERGE or create | one load per key; a re-run adds nothing |
| Silver, `processing/silver.py` | Delta table keyed by (city_id, observed_at); quarantine table without key | read, deduplicate, split, quarantine, enrich, MERGE, mark | each row is in Silver or in quarantine; the latest load wins; nothing is skipped |
| Watermark, `cdc/watermark.py` | one row per layer in PostgreSQL | get, update, reset | never passes an unprocessed row |
| Gold, `processing/gold.py` | four overwritten Delta tables | aggregate, overwrite | the tables describe the same data |
| City dimension, `warehouse/dimensions/dim_city.py` | Delta table of dated versions | initialize, apply_scd2 (a MERGE and an append) | one current version per city, contiguous intervals, a past that never changes |
| Static dimensions, `warehouse/dimensions/dim_{date,time,weather}.py` | Delta tables and PostgreSQL tables, loaded once | build, load if empty | the calendar is right and covers the readings |
| Observation facts, `warehouse/facts/fact_observations.py` | Delta table keyed by (city_id, observed_at) | resolve keys, MERGE | a fact refers to a version of its own city |
| Daily facts, `warehouse/facts/fact_daily_weather.py` | Delta table keyed by (city_id, date_key) | aggregate the batch, MERGE | a row aggregates the day |
| PostgreSQL sync, `_sync_to_postgres` | star schema (`sql/003`, `004`) | upsert dim_city, observations, daily facts: one transaction each | never contradicts the lake; a run is not refused |
| Views, `sql/005`, `006` | materialized views | refresh (a failure is not fatal) | every city is shown with its latest reading |
| OLAP, `warehouse/olap/` | none | rollups, cube, streaks, windows | the algorithms compute what their comments say |
| Audit log, `sql/008` | append-only table | trigger on facts | one entry per committed change |
| API, dashboard, settings, encryption, policies | caches | read, render, validate | |

The behaviours that are hard: a crash between two commits of one component
(dim_city's MERGE and append; quarantine, Silver and the watermark; the
transactions of the sync); a lake that is lost while PostgreSQL is not; a lazy
DataFrame that is evaluated again after a commit has changed its source; re-runs
of what was already done; rows synced in an order that a per-statement constraint
can tell apart; dates and watermarks taken before the commits they stand for; a partial batch
taken for the whole day; two runs at once (the workflow has no concurrency group: a
manual dispatch may overlap a scheduled run), each of which checks a table and
fills it in two transactions, and Bronze and Silver jobs of different processes; one service error after another inside one retry
loop.  `PROJECT.json` lists each hazard at its line.

## 2. Modules

| Module | Models |
|---|---|
| `CityHistory` | what the city dimension promises: a log of dated versions that only grows |
| `CityDim` | `dim_city.py`: the Delta table and the two commits of `apply_scd2` |
| `Medallion` | `bronze.py`, `silver.py`, `watermark.py`: rows, jobs and commits |
| `StarSync` | the last third of `run()` for dimensions and observations: `CityDim` composed with the observation facts, the sync, PostgreSQL's constraints and `v_latest_per_city` |
| `OwmClient` | `owm_client.py`: the loop over the entries of CITIES and the retry loop |
| `Serving` | Steps 4 to 8 of overlapping runs: Gold, the static dimensions, the daily facts, their sync, the refreshed view |
| `HourlyRun` | `OwmClient` composed with `Serving`: runs from the first request to the refresh |
| `Enrichment` | one reading: the quality rules of `silver.py` and of the report, the derived columns, the extreme events of `gold.py` and of the view |
| `Reports` | the aggregations of `gold.py` |
| `Olap` | `rollups.py` and the anomalies of `window_analytics.py` |
| `Calendar` | `dim_date.py`, `dim_time.py` |
| `Derivations` | the four modules before it, on sampled inputs; the loop that generates dim_date |
| `CityDimProofs`, `MedallionProofs`, `StarSyncProofs`, `OwmClientProofs`, `HourlyRunProofs`, `DerivationsProofs` | theorems |
| `SumProofs`, `OlapProofs` | the lemmas they share: sums over finite sets; groups, roundings, deviations |
| `MCCityDim`, `MCMedallion`, `MCStarSync`, `MCHourlyRun`, `MCDerivations` | small instances for TLC |

A definition named "Variant" is a plausible error of the definition it stands
before; `PROJECT.json` "mutants" says which property finds it.  They are not part
of the specifications.

### CityDim

`dim` is the set of rows of the table, `clock` the `now` of the latest run,
`source` its batch, and `stage` the place in `apply_scd2`: `Initialize` (the table
does not exist), `DetectChanges` (the join with the current versions, and the early
return when nothing changed), `Expire` or `RefuseMerge` (the MERGE), `Append`.
`Crash` stands for a dead process or a failed commit.  Two modelling decisions
matter.  First, `changes` is a lazy DataFrame on the Delta table: `Append`
evaluates it again, on the table that the MERGE has left; an expired city is then
a new city to the join.  Second, the uuid surrogate key is represented by what it
identifies: the city, the attributes and the time of the insertion.  `RowHash`
is a function of the attributes: two attribute values with one hash differ only in
untracked columns (latitude, longitude).  Hash collisions are not modelled.

`interrupted` and `single` are auxiliary: they record which runs died between
their commits and whether a batch has named a city twice, so that properties can
say exactly when they hold.  A batch can: `silver_df.select(...).distinct()`
(`pipeline_runner.py:218`) has two rows of a city when two readings of it differ
in name or position.

### Medallion

A pipeline is a Bronze job followed by a Silver job that is handed its DataFrame, as
`run()` does; `BronzeJobs` and `SilverJobs` are jobs by themselves, the latter reading by
the watermark, as `SilverProcessor.run()` does by default.  Each of `Pipelines`,
`BronzeJobs` and `SilverJobs` happens at most once, at any time and beside any others;
`stage[j]` is its next step.  A loader dates its rows (`DateRecords`), finds the table
(`MergeBronze`, or `RefusedMerge` where Delta finds the MERGE ambiguous) or does not
(`FindNoBronze`, then `CreateBronze`, which overwrites what has come in between).  A
cleaner reads the watermark (`ReadIncremental`) unless it is handed its rows, appends to
quarantine (`WriteQuarantine`), merges (`MergeSilver`) or creates (`FindNoSilver`,
`CreateSilver`), and marks (`UpdateWatermark`).  `Die` may come between any two; it also
stands for a commit that Delta aborts because of a concurrent one.  A Silver job's
DataFrame is lazy: `Input` reads Bronze as it is when a commit evaluates it, with the
watermark that was read once (`since`), and `Deduplicated` picks one of the latest rows
per key anew each time.  `Reset` deletes the watermark.

An ingestion is a set of records with the entry of CITIES each one answers; two
entries may name one city, and any may be skipped (how, is `OwmClient`'s matter).  A
body is `Broken` or not: the quality predicate has a value on every record, since an answer
without temperature or humidity is not validated (`owm_client.py:26`) and its entry is
skipped.  Which reading is broken is `Enrichment`'s matter.  The columns that
`clamp_outliers`, `parse_timestamps` and `enrich` derive decide nothing here and are left
out.  The clock advances with each dating; those rows and a watermark stored after them
have the same time, which is the closest they can be: in the code the watermark is later.
`loaded` is kept after a job's end, and `met` records which jobs were under way together,
so that the properties can say exactly which rows an overlap explains.

### StarSync

A run goes through `scd2` (the steps of `CityDim`), `dims` (the transaction on
dim_city, one action per upserted row, in any order), `facts` (the transaction on
the observations, which is one action since only its rows as a set decide) and ends
`complete`, `refused` or, dead, `idle`.  PostgreSQL's constraints are guards:
the partial unique index on the current version is checked at each statement;
`NOT NULL` and the foreign keys decide about the facts.  The two upserts update the
columns the code updates: of a version `effective_to` and `is_current`, of a fact
none of the modelled ones.  `Ephemeral` adds `NewMachine`, the new machine of the
workflow's next run.  A reading has the run's time or, with `age` 1, the time of
the run before: the service repeats a measurement until it has the next.

### OwmClient

`entry` is the entry of CITIES in hand, `attempt` the number of its next request,
`slept` what it has waited between requests, `results` and `raw` the records in the
returned list and the saved files, `skipped` the entries whose exception
`ingest_all` has caught.  One action per outcome of a request: `Answer`,
`UselessAnswer` (no JSON, an answer `CurrentWeatherResponse` refuses, no weather
condition, a file that cannot be written), `RateLimited`, `Timeout`, `OtherError`;
and `Exhausted`, the RuntimeError after the loop.  `_get` waits after every 429, also
after the last, and after every timeout but the last, which it raises: the model keeps
that difference.  `Return` hands the list over.

### Serving and HourlyRun

Each run stands at a place (`at`) of `run()`; a place with a loop over tables counts
in `done`.  `alive` are the processes, `batch` a run's `silver_df`.  Every commit is an
action: one Gold table (`WriteGold`), one static dimension in the lake (`Bootstrap`),
dim_city (`ApplyChanges`), the daily facts (`LoadDaily`), then in PostgreSQL the count of
a static dimension (`CountStatic`) and, in another transaction, its insert
(`InsertStatic`, refused by the primary key in `RefuseStatic`), dim_city (`CommitDims`),
the daily facts (`CommitDaily`, refused by the foreign key in `RefuseDaily`), and the
refresh, which may fail and is not fatal.  `Die` may come before any of them.  The
frame of daily facts is lazy: `Built` is evaluated by `LoadDaily` and again by
`CommitDaily`, each time with the versions of that moment.  `UpsertedDaily` sets the
columns the `ON CONFLICT` clause sets (average and count) and leaves the others
(minimum, maximum, version).  dim_city is reduced to a version number per city, and
refusals on dim_city and the observations are left to `StarSync`: `Serving` is about
what those two do not touch.  `CommitDims` and `CommitDaily` read the lake in the step of
their transaction, where the code collects the frame first; a run that changes the lake in
between is one that overlaps, which every property excuses.  A daily row is of a city and
a day, where the code also groups by version, name and country: `dim_city` has one current
version of a city per run, and a batch with two names of a city is `StarSync`'s matter.
`first`, `run`, `lastCommit`, `refreshed` and `met` (pairs
of runs alive together) are auxiliary.

`HourlyRun` lets one run at a time ask the service, since the client's state is the
process's own and two clients share nothing; from `HandOver` on, runs interleave.

### Enrichment, Reports, Olap, Calendar, Derivations

Pure operators, translated column by column, with SQL's three-valued logic where a
column may be NULL; temperatures are integers in tenths or hundredths.  `Derivations`
holds one input at a time: a reading, an hour with an offset, a batch, a set of hot
days, a histogram of readings, or a date.  Dates advance by `NextDay`, the loop of
`DimDateBuilder.generate`.  Sums are the folds of the community modules, not recursive
operators, so that theorems can be proved about them.

## 3. Runs

| Run | Shows | Bounds |
|---|---|---|
| `city_dim` | one current version per city, disjoint intervals, gaps only after a crash, no version without a change, the applied batch is current, the MERGE is not refused; the past is stable, history is kept, refinement of `CityHistory` | 2 cities, 3 attribute values (one differs in untracked columns only), all batches of up to 2 rows, 4 runs |
| `medallion_jobs` | Silver's grain; a Silver row is in Bronze or superseded there; the watermark passes only rows that are in Silver or quarantine, contested or left behind; copies in quarantine are bounded by disturbed jobs and resets; the latest load wins | 1 pipeline, 1 Bronze job and 2 Silver jobs, overlapping and dying anywhere, 1 reset; 3 entries for 2 keys, 3 bodies, 4 ingestions; about 2 million states |
| `star_persistent` | PostgreSQL lags but never contradicts the lake, facts resolve and are of the lake's version but where the upsert keeps an earlier one, a completed run is shown, its repeated measurements included | 2 cities, 2 attribute values, 3 runs, repeated measurements, crash anywhere |
| `star_ephemeral` | a completed run is shown, on new machines and with unlisted weather codes | 2 cities, 2 attribute values, 2 codes, 3 runs |
| `hourly_run` | each entry is accounted for, retries are bounded and spent, an ingestion ends; Gold tables, daily facts, refusals and the view are what one batch makes them, but for runs that overlapped or died | 3 entries of 2 cities, 3 attempts, 2 overlapping runs, 2 days, 2 temperatures, 2 Gold tables, 2 static dimensions |
| `derivations` | quarantine agrees with the report, Gold's events with the view's, local hours with the clock, reports with each other; anomalies need eleven readings, and the calendar advances day by day | values on both sides of every threshold; every whole-hour offset and the fractions in use; batches of up to 3 rows; histograms of 3 values with up to 12 readings; every day from 2020 to 2030 |
| `medallion_rerun` | violation: a re-run quarantines a row again | 2 pipelines, one key |
| `medallion_passed` | violation: the watermark passes a row that no job has processed | 2 Bronze jobs, 1 Silver job, one key |
| `star_fresh_runner` | violation: the second run on a new machine is refused | 2 runs |
| `star_hidden` | violation: a run that fails between its transactions hides a city | 2 runs |
| `local_hours` | violation: a local hour is negative | every hour and quarter, the offsets in use |
| `heat_streaks` | violation: a streak is not one of consecutive days | 2 cities and 4 days, in either order of the cities |

Why the bounds are enough.  The properties of a dimension relate two versions of
one city or a batch and a version; four runs allow a change, a crash, the repair
and a further change, and two cities allow a batch that touches one of them.  The
Medallion properties relate two loads of one key and two Silver jobs: the loads may
overlap each other and either job, a job may follow one that died, and two first jobs may
both create a table.  Three runs of StarSync allow a stored fact, a
change, and a run after a failed one.  In `hourly_run` two runs are enough for an
overlap and for a run after one that died; two tables are the least with a first and a
last, and three attempts are the code's.  A city named by two entries gives a batch
with two readings of a day, so that minimum, maximum, sum and count differ.  The
theorems of section 4 remove these bounds.  In `derivations` the operators compare
columns with constants, so that the values next to each constant stand for all others;
the calendar is the whole one the pipeline generates.  Cities are interchangeable in `MCCityDim` and
`MCStarSync`, which makes their symmetry sound (no liveness is checked there).
Jobs of a kind are interchangeable in `MCMedallion`.
Deadlock checking is off in all runs: `MaxTime` and the number of jobs end
every behaviour, as the pipeline ends when nothing starts it.

The invariants of `StarSync` that hold on either kind of machine are checked in
`star_persistent` and proved for both; `star_ephemeral` is for what only a new machine can
break.

Fairness.  One run has a liveness property.  In `hourly_run`, `IngestionEnds` assumes
weak fairness of the client's next step: every request has `timeout=10` and every wait
is bounded, so that the client goes on as long as its process lives, and in that
specification the ingesting process does not die (death during the ingestion leaves no
state behind but files that nobody reads).  Nothing is assumed about the answers: the
service may refuse, or time out, for ever.  Of Silver no liveness is stated: the
repository only starts it with the batch in hand (`pipeline_runner.py:181`), so that
nothing in it takes up again what an earlier run has left in Bronze.

### What the checks found

Each violation run is a finding in `PROJECT.json` with the line it contradicts.

1. `medallion_rerun`: quarantine is appended to without a key, and grows on each re-run
   (`silver.py:114`).
2. `medallion_passed`: the watermark is the time of its writing and a row is dated before
   its MERGE, so that a row committed while a Silver job of another process runs is passed
   and never read (`watermark.py:58`, `bronze.py:76`).  In the pipeline's own way the same
   happens without an overlap: rows whose run died between Bronze and Silver are passed by
   the next run's watermark.  `PassedRowsAreRouted` lists all the ways (`LeftBehind`,
   `Contested`), and the theorem `WatermarkIsSafe` says that there is no other.
3. `star_fresh_runner`: a new machine initializes dim_city with new keys, and the unique
   index refuses every later sync of the same cities (`dim_city.py:105`).
4. `star_hidden`: a failure after the transaction on dim_city hides the changed cities
   (`pipeline_runner.py:59`).
5. `local_hours`: the local hour, "(0–23)" in `gold.py:80`, is negative where the local
   date is still the day before (`silver.py:184`).
6. `heat_streaks`: the streaks, "consecutive days above threshold per city" in
   `rollups.py:83`, run over days that were not hot, and end when another city has a hot
   day between (`rollups.py:105`).  The theorem `StreaksAreQuietSpells` says what they are.

On a lake that persists `NeverRefused` fails in another way, which `StarSync` has as well
(`RefuseDim`): the rows of dim_city are upserted in the order in which Spark returns
them, and a changed city is refused when its new version comes before its expired one
(`pipeline_runner.py:60`).  The property is that of `star_fresh_runner`, whose
configuration shows it too when `Ephemeral` is set to FALSE.

Where the code differs from what a reader of its comments would expect, other properties
of `derivations` state what it computes:

7. `LocalHourFollowsClock`: the local hour may be an hour off in zones with a fraction of
   an hour.
8. `EventsAgree`: a wind speed out of range is nulled before the categories, so that
   the row is a "storm" that is in no list of events (`silver.py:130`).
9. `AnomaliesNeedElevenReadings`: no z-score of up to ten readings exceeds 3
   (`window_analytics.py:78`).
10. `QuarantineAgreesWithChecks`: the two encodings agree on every column NULL, also on
    those the client never leaves so; a reading without a time of observation is
    quarantined for a reason no check looks at.

Seen while modelling, without a run: `hourly_grouping_sets` (`rollups.py:65`) promises to
aggregate by (country, local_hour) and by (local_hour) and has the first only; the Gold
check of the quality report opens a directory of tables; dim_date ends with 2030.

And of overlapping or repeated runs, `hourly_run`:

11. `DailyFollowsLake`: PostgreSQL keeps the minimum and maximum of the first run of a day
    and takes average and count from the last; the lake replaces the whole row.
12. `RefusedOnlyByOverlap`: two overlapping first runs can refuse each other's static
    dimensions, and a run can be refused because another gave a city a version between
    its two transactions.

## 4. Theorems

The constants are arbitrary, under the named assumptions of the modules
(`CityDimAssumption`, `MedallionAssumption`, `StarSyncAssumption`, `OwmClientAssumption`,
`ServingAssumption`, `HourlyRunAssumption`, `NullAssumption`, `DerivationsAssumption`;
`CityAssumption` is `CityDim`'s, in `StarSync`).  `NullAssumption` says that NULL is no
number, truth value or event.  `DerivationsAssumption` says of each kind of input what it
is, and no more: a reading with any columns NULL (`RawReading`), a time of day with an
offset from UTC-12 to UTC+14 (`ClockReading`), a batch of rows with integer temperatures
(`IsBatch`; names, days and hours may be anything), finitely many values with how often
each was read (`ReadingCount`), finitely many hot days with an order of the cities on each
day (`HotDays`), a date (`IsDate`).

`CityDimProofs`.  The invariants are not inductive: that the append creates no
second current version needs to know that the MERGE has closed the old one, and
that a city of the batch which still has a current version has the batch's hash.
`IInv` adds this (`BatchBeforeAppend`), the dates (`DatesReached`: nothing is dated
after the clock, and before its last commit a run has dated nothing but the ends of
versions) and what `single` implies about the batch (`SingleBatch`).  One lemma per
action shows that it keeps `IInv`.  From it follow `TypeCorrect`, `OneCurrent`,
`IntervalsDisjoint`, `ContiguousHistory`, `EveryVersionIsAChange`, `BatchApplied` and `MergeAccepted`; the action properties
`HistoryKept` and `PastStable`; and `RefinesHistory`: `Initialize` and `Append` are
`Record` steps of `CityHistory`, `DetectChanges` records nothing at the next
moment, and the rest stutters.

`MedallionProofs`, in four layers, for any number of jobs and no assumption on what the
ingestions return.  `LayersInv`: roles and dates (`Roles`, `Dated`: no row is dated after
the clock, two loads never have one date), which jobs have met (`Meetings`), where rows come
from (`Provenance`), and who may be about to create a table that another has created
meanwhile (`Creation`).  `Past` are the rows that have been written at some time; Bronze has
one load per key, and for each row of `Past` that row or a later load, unless two loads
overlapped (`OneLoadPerKey`, `BronzeIsLatest`, `PastFollowsBronze`).  Silver's rows are of
`Past`.  Hence `SilverHasOneRowPerKey`, `SilverIsConsistent` and `NeverGoesBack`.
`RoutingInv`: of the rows in a job's input that are neither contested nor left behind
(`Owed`), quarantine has the failed ones after its append and Silver the valid ones after
its MERGE.  `WatermarkInv`: such a row is in the input of every Silver job under way, or
routed; and if the watermark has passed a load that is still under way, that load has met
the job that moved the watermark, which is why its rows are excused.  Hence
`WatermarkIsSafe`.  `CopiesInv` counts: a row that an undisturbed job may yet append (its
input before the append, or what the watermark has not passed) has at most as many copies
as there were disturbed jobs and resets (`Allowed`, `Within`), and every other row one
more.  A job that ends well takes the allowance away from the rows it has appended, and
each disturbed job or reset gives one to all.  Hence `CopiesArePaidFor`.

`StarSyncProofs`.  What a run does to dim_city is a step of `CityDim` (`CitySteps`), so
that its `IInv` holds here too, on every new machine from the start; with
`IdentityIsKey`, two versions of a table never share a key.  `StarInv` adds what the open
transaction knows: it has upserted whatever is not in `todo` and has dropped no key
(`TxInv`), so that after its commit PostgreSQL has every row of the lake (`RunInv`).  On a
lake that persists, the table in PostgreSQL and the one in the transaction only lag
behind the lake's (`LagInv`): a step of `CityDim` loses no version and changes no closed
one.  `FactDates` says that no stored fact is of the run's own time until the run stores
it, so that the upsert inserts the new readings.  Hence `SyncTypeCorrect`,
`NeverContradicts`, `SyncedBeforeFacts` and `EveryFactResolves`.  A second invariant,
`VersionInv`, is about the versions that facts name: a fact of the last run that a repeated
measurement may meet names a version still current in the lake, unless the run has given
its city a new one (`RecentKeys`), the lake has the run's facts before PostgreSQL
(`LakeLoaded`), and on a new machine every version is the run's (`FreshLake`).  Hence
`VersionsAgree` and `CompletedRunShown`, repeated measurements included.  None of them needs the batches to name a city once.  And `StarSync`
implements `CityDim` on a lake that persists: `LakeFollowsCityDim` maps its steps one by
one, and with `RefinesHistory` it gives `LakeKeepsHistory`, that through whole runs, with
refused and broken syncs, the lake's versions are `CityHistory`'s log.

`OwmClientProofs`.  `ClientInv` adds to `EveryEntryAccounted` what the entry in hand has
cost: before request k the client has waited 2^k - 2 seconds (`WaitSoFar`), which
bounds the wait, and only a last attempt or a definitive failure gives an entry up.
Hence `EntriesAccounted` and `RetriesBounded`.  The provers have no exponentiation; that
powers of two double and grow is proved by counting subsets (`PowersDouble`,
`PowersGrow`).

`HourlyRunProofs`.  A step of the composition is a step of the client or leaves it alone
(`ClientSteps`), so that the pipeline implements the client's specification, fairness
aside (`PipelineRunsTheClient`), and the client's invariant holds in it.  For the serving
state, `CoreInv` says that runs alive together have met; therefore, whatever a run
relies on can only be changed by a run it has met, and each invariant says what holds
otherwise.  `GoldInv`: the tables a run has written so far are still its own.
`RefusalInv`: a static dimension that a run has counted as empty is empty; when it comes
to the daily facts, the versions of PostgreSQL are the lake's.  `DailyInv`: a row that a
run has loaded is what it would build again, but for a newer version (`LoadedIsBuilt`),
each day of its batch is in the lake by its own hand (`LoadedIsOwned`), and every row in
PostgreSQL is by runs that have committed (`RowOwners`).  `ViewInv`: a run that refreshed
has ended, so that a later commit is another run's.  Hence `GoldAgrees`,
`RefusalsNeedOverlap`, `DailyFactsFollow` and `ViewsAreCurrent`.  `PipelineInv` is for the
types: that a minimum and a maximum are temperatures needs that no group of a batch is
empty and that no batch is infinite (`FiniteBatches`: a batch has at most one reading for
an entry of CITIES, and the client returns finitely many), and that a loop over tables
never counts past the last (`InStaticLoop`).  Hence `PipelineTypeCorrect`.

`SumProofs`.  The fold that adds up a function over a set takes elements off with CHOOSE.
That this recursion defines a sum (`SummationExists`, `SummationsAgree`), and that the sum
does not depend on the order (`TotalWithout`, `TotalOfUnion`), is induction over finite
sets.  The library's induction rules take an operator as a parameter, which the provers
cannot instantiate; the proofs take a minimal counterexample of the well-founded relation
"proper subset" instead.  The rest is what the reports need: a sum over the parts of a
partition is the sum over the whole (`TotalOfParts`), over an image under an injective map
it is the sum over its domain (`TotalOfImage`), and bounds of the terms bound it.

`OlapProofs` has the arithmetic.  Deviations: by the variance without one reading, which
is not negative, the square of a reading's deviation is at most (n - 1)^2 / n variances
(`DeviationBound`), and that exceeds 3 deviations only from n = 11 on
(`OutlierNeedsEleven`); `OneAmongEqual` is the case in which the bound is reached.
Reports: each is one row per group of a partition of the batch (`IsReport`), so that the
counts add up to the batch (`CountsOf`), and the averages times the counts miss the sum by
at most half a unit per row (`AveragesOf`), hence differ by at most one; an average,
rounded, stays between the extremes (`AvgBetween`), and rounding keeps the order of means
(`RoundedKeepsOrder`).

`DerivationsProofs`.  The only invariant needed is that the input is of its kind
(`Sampled`): only dates change, and the day after a date is a date (`AddDayIsDate`).  The
rest are lemmas about the operators, for every input: `ReportFollowsSplit` and
`GoldAgreesWithView` go through the three-valued predicates column by column;
`LocalHourIsRight` is integer division; `StreaksAreQuietSpells` shows that the difference
of the two row numbers of a city's hot days counts the hot days of other cities before
them, and is equal for two exactly if there is none between; `ElevenReadings` and
`ReportsAreOfOneBatch` combine the lemmas of `OlapProofs`; `CalendarIsRight` holds from any
date, not only from 2020.

Every invariant and action property that a passing run checks is a theorem.  Only
model-checked is the liveness property `IngestionEnds`: fairness and ENABLED are out of
reach of the prover.

## 5. Not modelled, and the plan

Not modelled:

- API and dashboard: read-only queries and rendering.  What the queries on
  `v_latest_per_city` and the view of the trends can see is checked.
- The audit log, access policies and indexes: declarations that PostgreSQL executes.
- Settings, encryption, the Spark session: configuration and library calls.
- `merge_delta`, `write_dataframe`, `upsert_observations`: nothing in the pipeline
  calls them.
- Of the derivations: the value of the heat index, daylight minutes, the spelling of
  names, the ISO week, and the OLAP functions that are single calls of Spark (grouping sets, cube,
  percentiles, rolling averages, lags, dense rank).
- `mv_country_snapshot`, which is refreshed with `mv_city_7day_trends`, after it in the
  same transaction.
- Schema and type errors; hash collisions.
- Two Silver jobs of which the slower moves the watermark back between taking the time
  and storing it: rows would be read once more, which a reset shows as well.
- The readings of earlier runs in `Serving`: that a daily row aggregates its whole day does
  not hold of the code (`fact_daily_weather.py:35`, `pipeline_runner.py:137`), and no
  property says so.

Planned, in this order:

1. Theorems for what the violation runs refute in general: the conditions on the rows,
   the machine and the failures under which a run is not refused and every city is shown.
2. Daily facts over several runs of a day, with the day's readings kept beside them.
3. The audit log beside the transactions of `StarSync`.
