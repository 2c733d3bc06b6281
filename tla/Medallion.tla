------------------------------ MODULE Medallion ------------------------------
(***************************************************************************)
(* The Bronze and Silver layers of the Delta lake and the CDC watermark in  *)
(* PostgreSQL (src/src/processing/bronze.py, silver.py, src/src/cdc/         *)
(* watermark.py), and the jobs that write them.                             *)
(*                                                                          *)
(* A Bronze job dates the records of one ingestion and MERGEs them into the *)
(* Bronze table.  A Silver job reads the Bronze rows loaded after the       *)
(* watermark; a pipeline is a Bronze job and then a Silver job that is      *)
(* handed the Bronze job's DataFrame instead.  Silver makes three commits   *)
(* one after the other: an append to the quarantine table, a MERGE into     *)
(* Silver, and an upsert of the watermark.  Jobs are processes of their own *)
(* that take each other's steps into account only through the tables: any   *)
(* of them may overlap, and each may die between two of its steps, which    *)
(* keeps what has been committed and loses the DataFrame in hand.  A commit *)
(* that Delta aborts because of a concurrent one is such a death.           *)
(***************************************************************************)
EXTENDS Naturals, FiniteSets, Bags

CONSTANTS Pipelines,   \* runs of the pipeline,
          BronzeJobs,  \* Bronze jobs and
          SilverJobs,  \* Silver jobs explored; each happens at most once
          Entries,     \* entries of the CITIES setting: one request each
          Keys,        \* grain of both tables: (city_id, observed_at)
          Bodies,      \* the remaining columns of a record
          Broken,      \* the bodies of which the predicate `failed` is true
          Ingestions,  \* the record sets an ingestion may return
          MaxResets,   \* bound: watermark resets explored
          NULL

Loaders == Pipelines \cup BronzeJobs

Cleaners == Pipelines \cup SilverJobs

Jobs == Loaders \cup SilverJobs

Record == [entry : Entries, key : Keys, body : Bodies]

Row == [entry : Entries, key : Keys, body : Bodies, loadedAt : Nat]

ASSUME MedallionAssumption ==
    /\ IsFiniteSet(Jobs)
    /\ Loaders \cap SilverJobs = {} /\ Pipelines \cap BronzeJobs = {}
    /\ Ingestions \subseteq SUBSET Record
    /\ Broken \subseteq Bodies
    /\ MaxResets \in Nat
    /\ NULL \notin Nat

VARIABLES
    tables,      \* which of the two Delta tables exist
    bronze,      \* rows of the Bronze table
    silver,      \* rows of the Silver table
    quarantine,  \* rows of the quarantine table, a bag: it has no key
    watermark,   \* last_processed_at of layer "silver", or NULL
    clock,       \* time, which only the dating of a load advances
    stage,       \* stage[j]: the step that job j takes next
    loaded,      \* loaded[j]: the rows of a loader's DataFrame, kept when it ends
    since,       \* since[j]: the watermark a Silver job has read
    met,         \* pairs of jobs that were under way at the same time
    resets

vars == <<tables, bronze, silver, quarantine, watermark, clock, stage, loaded, since,
          met, resets>>

Ended(j) == stage[j] \in {"done", "dead"}

UnderWay(j) == stage[j] # "new" /\ ~Ended(j)

TypeOK ==
    /\ tables \subseteq {"bronze", "silver"}
    /\ bronze \subseteq Row
    /\ silver \subseteq Row
    /\ IsABag(quarantine) /\ DOMAIN quarantine \subseteq Row
    /\ watermark \in Nat \cup {NULL}
    /\ clock \in Nat
    /\ stage \in [Jobs -> {"new", "load", "createBronze", "split", "merge",
                           "createSilver", "mark", "done", "dead"}]
    /\ loaded \in [Jobs -> SUBSET Row]
    /\ since \in [Jobs -> Nat \cup {NULL}]
    /\ met \subseteq SUBSET Jobs
    /\ resets \in 0..MaxResets

-----------------------------------------------------------------------------
(* (Variant: the table is overwritten instead of merged.)                    *)
MergeByOverwriting(table, rows) == rows

(* (Variant: matched rows are not updated.)                                  *)
MergeByInserting(table, rows) ==
    table \cup {r \in rows : \A t \in table : t.key # r.key}

(* Delta MERGE on the grain, update all and insert all.                      *)
Merge(table, rows) ==
    {t \in table : \A r \in rows : r.key # t.key} \cup rows

(* Two incoming rows for one row of the table: Delta refuses the MERGE.      *)
Ambiguous(table, rows) ==
    \E t \in table : \E r, q \in rows : r # q /\ r.key = t.key /\ q.key = t.key

(* (Variant: the cast of bronze_loaded_at yields NULL.)                      *)
LoadedWithoutTime(rec, now) ==
    [entry |-> rec.entry, key |-> rec.key, body |-> rec.body, loadedAt |-> NULL]

Loaded(rec, now) ==
    [entry |-> rec.entry, key |-> rec.key, body |-> rec.body, loadedAt |-> now]

(* deduplicate(): row_number() over the grain, latest load first; ties are  *)
(* broken arbitrarily, each time the lazy DataFrame is evaluated.            *)
Latest(rows) ==
    {r \in rows : \A q \in rows : q.key = r.key => q.loadedAt <= r.loadedAt}

(* (Variant: no deduplication.)                                              *)
NotDeduplicated(rows) == {rows}

Deduplicated(rows) ==
    {d \in SUBSET Latest(rows) :
        /\ \A r, q \in d : r.key = q.key => r = q
        /\ \A r \in rows : \E q \in d : q.key = r.key}

(* The predicate has a value on every record: a record has a temperature    *)
(* and a humidity, or its answer was not validated (owm_client.py:20-31).    *)
Failed(rows) == {r \in rows : r.body \in Broken}

Valid(rows) == {r \in rows : r.body \notin Broken}

(* (Variant: the comparison with the watermark is not strict.)               *)
NotOlderThan(mark) == {b \in bronze : mark = NULL \/ b.loadedAt >= mark}

NewerThan(mark) == {b \in bronze : mark = NULL \/ b.loadedAt > mark}

(* read_incremental(): the watermark has been read, the table is read each  *)
(* time the DataFrame is evaluated.                                          *)
Input(j) == IF j \in Pipelines THEN loaded[j] ELSE NewerThan(since[j])

-----------------------------------------------------------------------------
Init ==
    /\ tables = {}
    /\ bronze = {}
    /\ silver = {}
    /\ quarantine = EmptyBag
    /\ watermark = NULL
    /\ clock = 0
    /\ stage = [j \in Jobs |-> "new"]
    /\ loaded = [j \in Jobs |-> {}]
    /\ since = [j \in Jobs |-> NULL]
    /\ met = {}
    /\ resets = 0

Enter(j, step) == stage' = [stage EXCEPT ![j] = step]

Start(j, step) ==
    /\ stage[j] = "new"
    /\ Enter(j, step)
    /\ met' = met \cup {{i, j} : i \in {i \in Jobs : UnderWay(i)}}

(* _records_to_df(): the rows are dated before any of them is written.       *)
DateRecords(j, records) ==
    /\ Start(j, "load")
    /\ records # {}
    /\ clock' = clock + 1
    /\ loaded' = [loaded EXCEPT ![j] = {Loaded(rec, clock') : rec \in records}]
    /\ UNCHANGED <<tables, bronze, silver, quarantine, watermark, since, resets>>

AfterBronze(j) == IF j \in Pipelines THEN "split" ELSE "done"

(* isDeltaTable() and the MERGE.                                             *)
MergeBronze(j) ==
    /\ stage[j] = "load"
    /\ "bronze" \in tables
    /\ ~Ambiguous(bronze, loaded[j])
    /\ bronze' = Merge(bronze, loaded[j])
    /\ Enter(j, AfterBronze(j))
    /\ UNCHANGED <<tables, silver, quarantine, watermark, clock, loaded, since, met, resets>>

RefusedMerge(j) ==
    /\ stage[j] = "load"
    /\ "bronze" \in tables
    /\ Ambiguous(bronze, loaded[j])
    /\ Enter(j, "dead")
    /\ UNCHANGED <<tables, bronze, silver, quarantine, watermark, clock, loaded, since,
                   met, resets>>

FindNoBronze(j) ==
    /\ stage[j] = "load"
    /\ "bronze" \notin tables
    /\ Enter(j, "createBronze")
    /\ UNCHANGED <<tables, bronze, silver, quarantine, watermark, clock, loaded, since,
                   met, resets>>

(* The table is created by overwriting what is there by then.                *)
CreateBronze(j) ==
    /\ stage[j] = "createBronze"
    /\ tables' = tables \cup {"bronze"}
    /\ bronze' = loaded[j]
    /\ Enter(j, AfterBronze(j))
    /\ UNCHANGED <<silver, quarantine, watermark, clock, loaded, since, met, resets>>

(* read_incremental() without an input DataFrame.                            *)
ReadIncremental(j) ==
    /\ Start(j, "split")
    /\ "bronze" \in tables
    /\ since' = [since EXCEPT ![j] = watermark]
    /\ UNCHANGED <<tables, bronze, silver, quarantine, watermark, clock, loaded, resets>>

(* (Variant: the watermark is moved before Silver is written.)               *)
WriteQuarantineAndMark(j) ==
    /\ stage[j] = "split"
    /\ \E d \in Deduplicated(Input(j)) :
          quarantine' = quarantine (+) SetToBag(Failed(d))
    /\ watermark' = clock
    /\ Enter(j, "merge")
    /\ UNCHANGED <<tables, bronze, silver, clock, loaded, since, met, resets>>

WriteQuarantine(j) ==
    /\ stage[j] = "split"
    /\ \E d \in Deduplicated(Input(j)) :
          quarantine' = quarantine (+) SetToBag(Failed(d))
    /\ Enter(j, "merge")
    /\ UNCHANGED <<tables, bronze, silver, watermark, clock, loaded, since, met, resets>>

(* isDeltaTable() and the MERGE, of a DataFrame evaluated again.             *)
MergeSilver(j) ==
    /\ stage[j] = "merge"
    /\ "silver" \in tables
    /\ \E d \in Deduplicated(Input(j)) : silver' = Merge(silver, Valid(d))
    /\ Enter(j, "mark")
    /\ UNCHANGED <<tables, bronze, quarantine, watermark, clock, loaded, since, met, resets>>

FindNoSilver(j) ==
    /\ stage[j] = "merge"
    /\ "silver" \notin tables
    /\ Enter(j, "createSilver")
    /\ UNCHANGED <<tables, bronze, silver, quarantine, watermark, clock, loaded, since,
                   met, resets>>

CreateSilver(j) ==
    /\ stage[j] = "createSilver"
    /\ tables' = tables \cup {"silver"}
    /\ \E d \in Deduplicated(Input(j)) : silver' = Valid(d)
    /\ Enter(j, "mark")
    /\ UNCHANGED <<bronze, quarantine, watermark, clock, loaded, since, met, resets>>

(* The watermark is the present time, not the time of a record.  It is      *)
(* taken and stored in one step: between the two only another Silver job    *)
(* can be told from none, whose later watermark this one would replace, and *)
(* rows would be read once more.                                             *)
UpdateWatermark(j) ==
    /\ stage[j] = "mark"
    /\ watermark' = clock
    /\ Enter(j, "done")
    /\ UNCHANGED <<tables, bronze, silver, quarantine, clock, loaded, since, met, resets>>

Die(j) ==
    /\ UnderWay(j)
    /\ Enter(j, "dead")
    /\ UNCHANGED <<tables, bronze, silver, quarantine, watermark, clock, loaded, since,
                   met, resets>>

(* WatermarkManager.reset(): forces a full reload.                           *)
Reset ==
    /\ resets < MaxResets
    /\ resets' = resets + 1
    /\ watermark' = NULL
    /\ UNCHANGED <<tables, bronze, silver, quarantine, clock, stage, loaded, since, met>>

BronzeStep(j) ==
    \/ \E records \in Ingestions : DateRecords(j, records)
    \/ MergeBronze(j)
    \/ RefusedMerge(j)
    \/ FindNoBronze(j)
    \/ CreateBronze(j)

SilverStep(j) ==
    \/ WriteQuarantine(j)
    \/ MergeSilver(j)
    \/ FindNoSilver(j)
    \/ CreateSilver(j)
    \/ UpdateWatermark(j)

Next ==
    \/ \E j \in Loaders : BronzeStep(j)
    \/ \E j \in SilverJobs : ReadIncremental(j)
    \/ \E j \in Cleaners : SilverStep(j)
    \/ \E j \in Jobs : Die(j)
    \/ Reset

Spec == Init /\ [][Next]_vars

-----------------------------------------------------------------------------
(* Properties.                                                               *)

Overlapped(i, j) == i # j /\ {i, j} \in met

(* The jobs that loaded two rows were under way at the same time.            *)
LoadsOverlapped(r, q) ==
    \E i, j \in Loaders : r \in loaded[i] /\ q \in loaded[j] /\ Overlapped(i, j)

(* Silver has one row per (city_id, observed_at), also when CITIES names a  *)
(* city twice and the first Bronze load therefore keeps two rows of it.      *)
SilverGrain == \A s, t \in silver : s.key = t.key => s = t

(* Silver is never ahead of Bronze: each of its rows is in Bronze, or has   *)
(* been superseded there by a later load; only another loader that was under *)
(* way with the row's may have put an earlier load in its place, or created *)
(* the table over it.                                                        *)
SilverFollowsBronze ==
    \A s \in silver :
        \/ \E b \in bronze : b.key = s.key /\ (b = s \/ s.loadedAt < b.loadedAt)
        \/ \E i, j \in Loaders : s \in loaded[j] /\ Overlapped(i, j)

(* A Silver row never goes back to an earlier load and never disappears,    *)
(* although a reset makes a job read every Bronze row again and although    *)
(* Silver jobs overlap: unless the two loads overlapped, or the step creates *)
(* a table that another job has created since this one looked.              *)
LatestLoadWins ==
    [][\A s \in silver :
          \/ \E t \in silver' :
                t.key = s.key /\ (t.loadedAt >= s.loadedAt \/ LoadsOverlapped(s, t))
          \/ \E i, j \in Cleaners :
                stage[i] = "createSilver" /\ stage'[i] = "mark" /\ Overlapped(i, j)]_vars

SameLoad(r, b) == r.key = b.key /\ r.loadedAt = b.loadedAt

InSilver(b) == b.body \notin Broken => \E s \in silver : SameLoad(s, b)

InQuarantine(b) == b.body \in Broken => \E q \in DOMAIN quarantine : SameLoad(q, b)

Routed(b) == InSilver(b) /\ InQuarantine(b)

(* What the watermark has passed is processed: the next job will not see a  *)
(* Bronze row loaded at or before it, so that row must already be in Silver *)
(* or in quarantine.                                                         *)
WatermarkCoversProcessed ==
    watermark # NULL => \A b \in bronze : b.loadedAt <= watermark => Routed(b)

(* Of one load, two answers for one city, of which one fails the predicate: *)
(* each evaluation may take another of them for the row to keep.             *)
Contested(b) ==
    \E c \in UNION {loaded[j] : j \in Loaders} :
        SameLoad(c, b) /\ (c.body \in Broken) # (b.body \in Broken)

(* The load of a Bronze row was under way while Silver was written by        *)
(* another job, or it was left to others to clean and a pipeline, which     *)
(* cleans its own rows only, was one of them.                                *)
LeftBehind(b) ==
    \E j \in Loaders : b \in loaded[j] /\
        \/ \E i \in Cleaners : Overlapped(i, j)
        \/ /\ j \in BronzeJobs \/ stage[j] = "dead"
           /\ \E i \in Pipelines : i # j /\ stage[i] # "new"

(* The watermark passes no Bronze row by that is in neither table, whatever *)
(* jobs die or overlap and whenever it is reset, but for rows that are      *)
(* contested or left behind.                                                 *)
PassedRowsAreRouted ==
    watermark # NULL =>
        \A b \in bronze :
            b.loadedAt <= watermark => Routed(b) \/ Contested(b) \/ LeftBehind(b)

(* Runs that follow each other, and none of which dies, do not quarantine   *)
(* the same reading twice.                                                   *)
QuarantinedOnce ==
    met = {} /\ (\A j \in Jobs : stage[j] # "dead") =>
        \A q, r \in DOMAIN quarantine :
            q.key = r.key /\ q.body = r.body => q = r /\ quarantine[q] = 1

(* The jobs that have come to write quarantine and have died, or were under *)
(* way together with another that does.                                      *)
Disturbed ==
    {j \in Cleaners :
        /\ stage[j] \in {"merge", "createSilver", "mark", "done", "dead"}
        /\ stage[j] = "dead" \/ \E i \in Cleaners : Overlapped(i, j)}

(* Each further copy of a row in quarantine is paid for by a disturbed job  *)
(* or a reset: otherwise no job takes up a row that another has taken up.    *)
CopiesNeedDisruption ==
    \A r \in DOMAIN quarantine : quarantine[r] <= 1 + Cardinality(Disturbed) + resets
=============================================================================
