--------------------------- MODULE MedallionProofs ---------------------------
(***************************************************************************)
(* Theorems about Medallion, for any jobs, entries, keys, readings and      *)
(* resets: whatever the ingestions return, whichever jobs die, and however  *)
(* their steps interleave.                                                   *)
(*                                                                          *)
(* LayersInv relates the two tables and the loads: what each row was loaded *)
(* by, which jobs must have met, and that Bronze keeps the latest load of a *)
(* key but for loads that overlapped.  RoutingInv and WatermarkInv follow a *)
(* Bronze row into Silver or quarantine, CopiesInv counts its copies there. *)
(***************************************************************************)
EXTENDS Medallion, TLAPS, FiniteSetTheorems

-----------------------------------------------------------------------------
(* The inductive invariant, in parts.                                        *)

Written(j) == stage[j] \in {"split", "merge", "createSilver", "mark", "done"}

(* Only loaders write Bronze, only cleaners write Silver.                    *)
Roles ==
    /\ \A j \in SilverJobs : stage[j] \notin {"load", "createBronze"} /\ loaded[j] = {}
    /\ \A j \in BronzeJobs : stage[j] \notin {"split", "merge", "createSilver", "mark"}

(* A load has one date, which is no other load's.                            *)
Dated ==
    /\ \A j \in Jobs : stage[j] = "new" => loaded[j] = {}
    /\ \A j \in Loaders : \A r \in loaded[j] : r.loadedAt <= clock
    /\ \A j \in Loaders : \A r, q \in loaded[j] : r.loadedAt = q.loadedAt
    /\ \A i, j \in Loaders : \A r \in loaded[i], q \in loaded[j] :
          r.loadedAt = q.loadedAt => i = j

(* Two jobs under way have met, and a job under way has met those that dated *)
(* a load after its own.                                                     *)
Meetings ==
    /\ \A i, j \in Jobs : UnderWay(i) /\ UnderWay(j) /\ i # j => Overlapped(i, j)
    /\ \A i, j \in Loaders : UnderWay(i) => \A r \in loaded[i], q \in loaded[j] :
          r.loadedAt < q.loadedAt => Overlapped(i, j)

(* The rows that have been written by a job that lives or has ended well.    *)
Past == silver \cup UNION {loaded[j] : j \in {i \in Loaders : Written(i)}}

(* Every row has been loaded; those of a load under way are in no table yet. *)
Provenance ==
    \A r \in bronze \cup silver \cup DOMAIN quarantine : \E j \in Loaders :
        r \in loaded[j] /\ stage[j] \notin {"new", "load", "createBronze"}

(* The tables before they are created, and the jobs that create them over   *)
(* another's.                                                                *)
Creation ==
    /\ "bronze" \notin tables =>
          bronze = {} /\ silver = {} /\ \A j \in Loaders : ~Written(j)
    /\ "silver" \notin tables =>
          /\ silver = {} /\ watermark = NULL /\ \A j \in SilverJobs : since[j] = NULL
          /\ \A j \in Cleaners : stage[j] \notin {"mark", "done"}
    /\ \A i \in Loaders : stage[i] = "createBronze" =>
          \A j \in Loaders : i # j /\ (loaded[j] \cap (bronze \cup Past)) # {} => Overlapped(i, j)
    /\ \A i \in Cleaners : stage[i] = "createSilver" =>
          /\ i \in SilverJobs => since[i] = NULL
          /\ "silver" \in tables => \E j \in Cleaners : Overlapped(i, j)
          /\ \A j \in Cleaners : i # j /\ stage[j] \in {"mark", "done"} => Overlapped(i, j)

(* Bronze has one load of a key; it is as late as any that has been written *)
(* before, or overlapped with it.                                            *)
OneLoadPerKey == \A b, c \in bronze : b.key = c.key => b.loadedAt = c.loadedAt

BronzeIsLatest ==
    \A w \in Past : \A b \in bronze :
        b.key = w.key => w.loadedAt <= b.loadedAt \/ LoadsOverlapped(w, b)

PastFollowsBronze ==
    \A w \in Past :
        \/ \E b \in bronze : b.key = w.key /\ (b = w \/ w.loadedAt < b.loadedAt)
        \/ \E i, j \in Loaders : w \in loaded[j] /\ Overlapped(i, j)

LayersInv ==
    /\ TypeOK /\ Roles /\ Dated /\ Meetings /\ Provenance /\ Creation
    /\ OneLoadPerKey /\ BronzeIsLatest /\ PastFollowsBronze /\ SilverGrain

-----------------------------------------------------------------------------
(* What has become of the Bronze rows that have no excuse: a cleaner that    *)
(* has a row in its input has routed it as far as it has come.               *)
Owed(b) == ~Contested(b) /\ ~LeftBehind(b)

RoutingInv ==
    \A j \in Cleaners : \A b \in bronze :
        b \in Input(j) /\ Owed(b) =>
            /\ stage[j] \in {"merge", "createSilver", "mark"} => InQuarantine(b)
            /\ stage[j] = "mark" => InSilver(b)
            /\ j \in Pipelines /\ stage[j] = "done" => Routed(b)

(* Whatever a Silver job has not in its input has been routed; a load the   *)
(* watermark has passed while it was under way met the job that moved it.    *)
WatermarkInv ==
    /\ watermark # NULL => watermark <= clock
    /\ \A j \in SilverJobs : UnderWay(j) =>
          \A b \in bronze : Owed(b) => b \in Input(j) \/ Routed(b)
    /\ \A k \in Loaders : UnderWay(k) /\ watermark # NULL =>
          \A r \in loaded[k] : r.loadedAt <= watermark => \E i \in Cleaners : Overlapped(i, k)
    /\ PassedRowsAreRouted

-----------------------------------------------------------------------------
(* Copies.                                                                   *)
Holding(j) == stage[j] \in {"merge", "createSilver", "mark"}

Undisturbed(j) == \A i \in Cleaners : ~Overlapped(i, j)

Allowed == Cardinality(Disturbed) + resets

Within(r) == r \in DOMAIN quarantine => quarantine[r] <= Allowed

CopiesInv ==
    /\ CopiesNeedDisruption
    /\ \A j \in Cleaners : stage[j] = "split" /\ Undisturbed(j) => \A r \in Input(j) : Within(r)
    /\ \/ \E j \in Cleaners : Holding(j) /\ Undisturbed(j)
       \/ \A r \in NewerThan(watermark) : Within(r)

-----------------------------------------------------------------------------
(* What the operators return.                                                *)
LEMMA MergedRows ==
    ASSUME NEW table, NEW rows, NEW t
    PROVE  t \in Merge(table, rows)
             <=> t \in rows \/ (t \in table /\ \A r \in rows : r.key # t.key)
BY DEF Merge

LEMMA LoadedRows ==
    ASSUME NEW rec \in Record, NEW now \in Nat
    PROVE  /\ Loaded(rec, now) \in Row
           /\ Loaded(rec, now).key = rec.key
           /\ Loaded(rec, now).body = rec.body
           /\ Loaded(rec, now).loadedAt = now
BY DEF Record, Row, Loaded

LEMMA DeduplicatedRows ==
    ASSUME NEW rows, NEW d \in Deduplicated(rows)
    PROVE  /\ d \subseteq rows
           /\ \A r \in d, q \in rows : q.key = r.key => q.loadedAt <= r.loadedAt
           /\ \A r, q \in d : r.key = q.key => r = q
           /\ \A r \in rows : \E q \in d : q.key = r.key
BY DEF Deduplicated, Latest

(* The append to quarantine adds its rows to the bag and removes none.       *)
LEMMA Appended ==
    ASSUME NEW B, IsABag(B), NEW S
    PROVE  /\ IsABag(B (+) SetToBag(S))
           /\ DOMAIN (B (+) SetToBag(S)) = DOMAIN B \cup S
<1>1. DOMAIN (B (+) SetToBag(S)) = DOMAIN B \cup S
  BY DEF (+), SetToBag
<1>2. IsABag(B (+) SetToBag(S))
  BY DEF (+), SetToBag, IsABag
<1>3. QED BY <1>1, <1>2

LEMMA EmptyBagIsEmpty == IsABag(EmptyBag) /\ DOMAIN EmptyBag = {}
BY DEF EmptyBag, SetToBag, IsABag

(* The rows a loader dates.                                                  *)
LEMMA IngestedRows ==
    ASSUME NEW records \in Ingestions, NEW now \in Nat,
           NEW r \in {Loaded(rec, now) : rec \in records}
    PROVE  r \in Row /\ r.loadedAt = now
<1>1. PICK rec \in records : r = Loaded(rec, now)
  OBVIOUS
<1>2. rec \in Record
  BY MedallionAssumption
<1>3. QED BY <1>1, <1>2, LoadedRows

LEMMA JobKinds ==
    /\ Loaders \subseteq Jobs /\ Cleaners \subseteq Jobs /\ SilverJobs \subseteq Jobs
    /\ \A j \in Jobs : j \in Loaders \/ j \in SilverJobs
    /\ \A j \in Loaders : j \notin SilverJobs /\ (j \in Pipelines \/ j \in BronzeJobs)
    /\ \A j \in Cleaners : j \notin BronzeJobs /\ (j \in Pipelines \/ j \in SilverJobs)
    /\ Pipelines \subseteq Loaders /\ Pipelines \subseteq Cleaners
    /\ BronzeJobs \subseteq Loaders /\ SilverJobs \subseteq Cleaners
BY MedallionAssumption DEF Loaders, Cleaners, Jobs

LEMMA Entered ==
    ASSUME TypeOK, NEW j \in Jobs, NEW step, Enter(j, step)
    PROVE  stage'[j] = step /\ \A i \in Jobs : i # j => stage'[i] = stage[i]
BY DEF TypeOK, Enter

LEMMA OverlapIsMutual ==
    ASSUME NEW i, NEW j
    PROVE  Overlapped(i, j) <=> Overlapped(j, i)
<1>1. {i, j} = {j, i}
  OBVIOUS
<1>2. QED BY <1>1 DEF Overlapped

(* A job that starts meets those under way, and no job unmeets another.      *)
LEMMA Started ==
    ASSUME TypeOK, NEW j \in Jobs, NEW step, Start(j, step)
    PROVE  /\ stage[j] = "new" /\ stage'[j] = step
           /\ \A i \in Jobs : i # j => stage'[i] = stage[i]
           /\ \A i \in Jobs : UnderWay(i) => Overlapped(i, j)' /\ Overlapped(j, i)'
           /\ \A a, b : Overlapped(a, b) => Overlapped(a, b)'
           /\ \A a, b : Overlapped(a, b)' =>
                Overlapped(a, b) \/ (a = j /\ UnderWay(b)) \/ (b = j /\ UnderWay(a))
<1>1. /\ stage[j] = "new" /\ Enter(j, step)
      /\ met' = met \cup {{i, j} : i \in {i \in Jobs : UnderWay(i)}}
  BY DEF Start
<1>2. ~UnderWay(j)
  BY <1>1 DEF UnderWay
<1>3. ASSUME NEW i \in Jobs, UnderWay(i) PROVE Overlapped(i, j)'
  BY <1>1, <1>2, <1>3 DEF Overlapped
<1>4. \A a, b : Overlapped(a, b) => Overlapped(a, b)'
  BY <1>1 DEF Overlapped
<1>5. ASSUME NEW a, NEW b, Overlapped(a, b)'
      PROVE  Overlapped(a, b) \/ (a = j /\ UnderWay(b)) \/ (b = j /\ UnderWay(a))
  <2>1. a # b /\ {a, b} \in met'
    BY <1>5 DEF Overlapped
  <2>2. CASE {a, b} \in met
    BY <2>1, <2>2 DEF Overlapped
  <2>3. CASE {a, b} \notin met
    <3>1. PICK i \in Jobs : UnderWay(i) /\ {a, b} = {i, j}
      BY <1>1, <2>1, <2>3
    <3>2. (a = i /\ b = j) \/ (a = j /\ b = i)
      BY <2>1, <3>1
    <3>3. QED BY <3>1, <3>2
  <2>4. QED BY <2>2, <2>3
<1>6. \A i \in Jobs : UnderWay(i) => Overlapped(j, i)'
  BY <1>3, OverlapIsMutual DEF Overlapped
<1>7. QED BY <1>1, <1>3, <1>4, <1>5, <1>6, Entered

-----------------------------------------------------------------------------
(* Types and roles.                                                          *)
LEMMA TypeInit == Init => TypeOK
<1> SUFFICES ASSUME Init PROVE TypeOK
  OBVIOUS
<1>1. IsABag(quarantine) /\ DOMAIN quarantine \subseteq Row
  BY EmptyBagIsEmpty DEF Init
<1>2. QED BY <1>1, MedallionAssumption DEF Init, TypeOK

Stages == {"new", "load", "createBronze", "split", "merge", "createSilver", "mark",
           "done", "dead"}

LEMMA StageType ==
    ASSUME TypeOK, NEW j \in Jobs, NEW step \in Stages, Enter(j, step)
    PROVE  stage' \in [Jobs -> Stages]
BY DEF TypeOK, Enter, Stages

LEMMA InputRows ==
    ASSUME TypeOK, NEW j \in Jobs
    PROVE  Input(j) \subseteq Row
BY DEF TypeOK, Input, NewerThan

LEMMA TypeStep == TypeOK /\ [Next]_vars => TypeOK'
<1> SUFFICES ASSUME TypeOK, [Next]_vars PROVE TypeOK'
  OBVIOUS
<1> USE MedallionAssumption
<1>1. ASSUME NEW j \in Loaders, NEW records \in Ingestions, DateRecords(j, records)
      PROVE  TypeOK'
  <2> DEFINE rows == {Loaded(rec, clock') : rec \in records}
  <2>1. j \in Jobs /\ clock' \in Nat /\ Start(j, "load")
    BY <1>1, JobKinds DEF DateRecords, TypeOK
  <2>2. rows \in SUBSET Row
    BY <2>1, IngestedRows
  <2>3. loaded' = [loaded EXCEPT ![j] = rows]
    BY <1>1 DEF DateRecords
  <2>4. loaded' \in [Jobs -> SUBSET Row]
    <3> HIDE DEF rows
    <3>1. QED BY <2>1, <2>2, <2>3 DEF TypeOK
  <2>5. stage' \in [Jobs -> Stages]
    BY <2>1, StageType DEF Start, Stages
  <2>6. met' \subseteq SUBSET Jobs
    BY <2>1 DEF Start, TypeOK
  <2>7. QED BY <1>1, <2>1, <2>4, <2>5, <2>6 DEF DateRecords, TypeOK, Stages
<1>2. ASSUME NEW j \in SilverJobs, ReadIncremental(j) PROVE TypeOK'
  <2>1. j \in Jobs /\ Start(j, "split")
    BY <1>2, JobKinds DEF ReadIncremental
  <2>2. stage' \in [Jobs -> Stages] /\ met' \subseteq SUBSET Jobs
    BY <2>1, StageType DEF Start, Stages, TypeOK
  <2>3. QED BY <1>2, <2>1, <2>2 DEF ReadIncremental, TypeOK, Stages
<1>3. ASSUME NEW j \in Loaders,
             MergeBronze(j) \/ RefusedMerge(j) \/ FindNoBronze(j) \/ CreateBronze(j)
      PROVE  TypeOK'
  <2>1. j \in Jobs /\ AfterBronze(j) \in Stages
    BY JobKinds DEF AfterBronze, Stages
  <2>2. stage' \in [Jobs -> Stages]
    BY <1>3, <2>1, StageType
    DEF MergeBronze, RefusedMerge, FindNoBronze, CreateBronze, Stages
  <2>3. bronze' \subseteq Row /\ tables' \subseteq {"bronze", "silver"}
    BY <1>3, <2>1 DEF MergeBronze, RefusedMerge, FindNoBronze, CreateBronze, Merge, TypeOK
  <2>4. QED
    BY <1>3, <2>2, <2>3
    DEF MergeBronze, RefusedMerge, FindNoBronze, CreateBronze, TypeOK, Stages
<1>4. ASSUME NEW j \in Cleaners, WriteQuarantine(j) PROVE TypeOK'
  <2>1. PICK d \in Deduplicated(Input(j)) :
            quarantine' = quarantine (+) SetToBag(Failed(d))
    BY <1>4 DEF WriteQuarantine
  <2>2. j \in Jobs /\ Input(j) \subseteq Row /\ d \subseteq Input(j)
    BY <2>1, DeduplicatedRows, InputRows, JobKinds
  <2>3. Failed(d) \subseteq d
    BY DEF Failed
  <2>4. IsABag(quarantine') /\ DOMAIN quarantine' \subseteq Row
    <3>1. DOMAIN quarantine' = DOMAIN quarantine \cup Failed(d) /\ IsABag(quarantine')
      BY <2>1, Appended DEF TypeOK
    <3>2. QED BY <2>2, <2>3, <3>1 DEF TypeOK
  <2>5. stage' \in [Jobs -> Stages]
    BY <1>4, <2>2, StageType DEF WriteQuarantine, Stages
  <2>6. QED BY <1>4, <2>4, <2>5 DEF WriteQuarantine, TypeOK, Stages
<1>5. ASSUME NEW j \in Cleaners, MergeSilver(j) \/ CreateSilver(j) PROVE TypeOK'
  <2>1. PICK d \in Deduplicated(Input(j)) :
            silver' = Merge(silver, Valid(d)) \/ silver' = Valid(d)
    BY <1>5 DEF MergeSilver, CreateSilver
  <2>2. j \in Jobs /\ silver' \subseteq Row
    BY <2>1, DeduplicatedRows, InputRows, JobKinds DEF Valid, Merge, TypeOK
  <2>3. stage' \in [Jobs -> Stages]
    BY <1>5, <2>2, StageType DEF MergeSilver, CreateSilver, Stages
  <2>4. QED BY <1>5, <2>2, <2>3 DEF MergeSilver, CreateSilver, TypeOK, Stages
<1>6. ASSUME NEW j \in Jobs, FindNoSilver(j) \/ UpdateWatermark(j) \/ Die(j)
      PROVE  TypeOK'
  <2>1. stage' \in [Jobs -> Stages]
    BY <1>6, StageType DEF FindNoSilver, UpdateWatermark, Die, Stages
  <2>2. QED BY <1>6, <2>1 DEF FindNoSilver, UpdateWatermark, Die, TypeOK, Stages
<1>7. CASE Reset
  BY <1>7 DEF Reset, TypeOK
<1>8. CASE UNCHANGED vars
  BY <1>8 DEF vars, TypeOK
<1>9. QED
  BY <1>1, <1>2, <1>3, <1>4, <1>5, <1>6, <1>7, <1>8, JobKinds
  DEF Next, BronzeStep, SilverStep

(* Every value stays in its type.                                            *)
THEOREM TypeCorrect == Spec => []TypeOK
BY TypeInit, TypeStep, PTL DEF Spec

-----------------------------------------------------------------------------
(* Roles, dates and meetings.                                                *)

(* A step by which no job starts.                                            *)
Quiet ==
    /\ loaded' = loaded /\ clock' = clock /\ met' = met /\ since' = since
    /\ \A i \in Jobs : UnderWay(i)' => UnderWay(i)
    /\ \A i \in Jobs : stage[i] = "new" <=> stage'[i] = "new"

LEMMA QuietStep ==
    ASSUME TypeOK, NEW j \in Jobs, NEW step, step # "new", UnderWay(j), Enter(j, step),
           loaded' = loaded, clock' = clock, met' = met, since' = since
    PROVE  Quiet
<1>1. stage'[j] = step /\ \A i \in Jobs : i # j => stage'[i] = stage[i]
  BY Entered
<1>2. QED BY <1>1 DEF Quiet, UnderWay, Ended

LEMMA EveryStep ==
    ASSUME TypeOK, [Next]_vars
    PROVE  \/ \E j \in Loaders, records \in Ingestions : DateRecords(j, records)
           \/ \E j \in SilverJobs : ReadIncremental(j)
           \/ Quiet
<1>1. ASSUME NEW j \in Loaders,
             MergeBronze(j) \/ RefusedMerge(j) \/ FindNoBronze(j) \/ CreateBronze(j)
      PROVE  Quiet
  <2>1. /\ j \in Jobs /\ UnderWay(j) /\ loaded' = loaded /\ clock' = clock /\ met' = met
        /\ since' = since /\ \E step : step # "new" /\ Enter(j, step)
    BY <1>1, JobKinds
    DEF MergeBronze, RefusedMerge, FindNoBronze, CreateBronze, AfterBronze, UnderWay, Ended
  <2>2. QED BY <2>1, QuietStep
<1>2. ASSUME NEW j \in Cleaners, SilverStep(j) PROVE Quiet
  <2>1. /\ j \in Jobs /\ UnderWay(j) /\ loaded' = loaded /\ clock' = clock /\ met' = met
        /\ since' = since /\ \E step : step # "new" /\ Enter(j, step)
    BY <1>2, JobKinds
    DEF SilverStep, WriteQuarantine, MergeSilver, FindNoSilver, CreateSilver,
        UpdateWatermark, UnderWay, Ended
  <2>2. QED BY <2>1, QuietStep
<1>3. ASSUME NEW j \in Jobs, Die(j) PROVE Quiet
  BY <1>3, QuietStep DEF Die
<1>4. CASE Reset \/ UNCHANGED vars
  BY <1>4 DEF Reset, vars, Quiet, UnderWay, Ended
<1>5. QED BY <1>1, <1>2, <1>3, <1>4 DEF Next, BronzeStep

LEMMA RolesStep ==
    ASSUME TypeOK, Roles, [Next]_vars
    PROVE  Roles'
<1>1. ASSUME NEW j \in Loaders, BronzeStep(j) PROVE Roles'
  <2>1. /\ j \in Jobs /\ j \notin SilverJobs
        /\ \A i \in Jobs : i # j => stage'[i] = stage[i] /\ loaded'[i] = loaded[i]
        /\ stage'[j] \in {"load", "createBronze", "dead", AfterBronze(j)}
    <3>1. j \in Jobs /\ j \notin SilverJobs
      BY JobKinds
    <3>2. \E step \in {"load", "createBronze", "dead", AfterBronze(j)} : Enter(j, step)
      BY <1>1
      DEF BronzeStep, DateRecords, Start, MergeBronze, RefusedMerge, FindNoBronze, CreateBronze
    <3>3. \A i \in Jobs : i # j => loaded'[i] = loaded[i]
      BY <1>1
      DEF BronzeStep, DateRecords, MergeBronze, RefusedMerge, FindNoBronze, CreateBronze, TypeOK
    <3>4. QED BY <3>1, <3>2, <3>3, Entered
  <2>2. j \in BronzeJobs => AfterBronze(j) = "done"
    BY MedallionAssumption DEF AfterBronze
  <2>3. QED BY <2>1, <2>2, JobKinds DEF Roles
<1>2. ASSUME NEW j \in SilverJobs, ReadIncremental(j) PROVE Roles'
  <2>1. j \in Jobs /\ j \notin BronzeJobs /\ loaded' = loaded
    BY <1>2, JobKinds DEF ReadIncremental
  <2>2. stage'[j] = "split" /\ \A i \in Jobs : i # j => stage'[i] = stage[i]
    BY <1>2, <2>1, Started DEF ReadIncremental
  <2>3. QED BY <2>1, <2>2, JobKinds DEF Roles
<1>3. ASSUME NEW j \in Cleaners, SilverStep(j) PROVE Roles'
  <2>1. /\ j \in Jobs /\ j \notin BronzeJobs /\ loaded' = loaded
        /\ \E step \in {"merge", "createSilver", "mark", "done"} : Enter(j, step)
    BY <1>3, JobKinds
    DEF SilverStep, WriteQuarantine, MergeSilver, FindNoSilver, CreateSilver, UpdateWatermark
  <2>2. /\ stage'[j] \in {"merge", "createSilver", "mark", "done"}
        /\ \A i \in Jobs : i # j => stage'[i] = stage[i]
    BY <2>1, Entered
  <2>3. QED BY <2>1, <2>2, JobKinds DEF Roles
<1>4. ASSUME NEW j \in Jobs, Die(j) PROVE Roles'
  <2>1. stage'[j] = "dead" /\ \A i \in Jobs : i # j => stage'[i] = stage[i]
    BY <1>4, Entered DEF Die
  <2>2. QED BY <1>4, <2>1, JobKinds DEF Die, Roles
<1>5. CASE Reset \/ UNCHANGED vars
  BY <1>5 DEF Reset, vars, Roles
<1>6. QED BY <1>1, <1>2, <1>3, <1>4, <1>5 DEF Next

(* What a dating does: a load of one date, later than any before it.         *)
LEMMA DatedLoad ==
    ASSUME TypeOK, NEW j \in Loaders, NEW records \in Ingestions, DateRecords(j, records)
    PROVE  /\ clock \in Nat /\ clock' = clock + 1
           /\ \A r \in loaded'[j] : r.loadedAt = clock + 1
           /\ \A i \in Jobs : i # j => loaded'[i] = loaded[i]
<1>1. /\ clock \in Nat /\ clock' = clock + 1
      /\ loaded' = [loaded EXCEPT ![j] = {Loaded(rec, clock') : rec \in records}]
      /\ loaded \in [Jobs -> SUBSET Row] /\ j \in Jobs
  BY JobKinds DEF DateRecords, TypeOK
<1>2. loaded'[j] = {Loaded(rec, clock') : rec \in records}
  BY <1>1
<1>3. \A i \in Jobs : i # j => loaded'[i] = loaded[i]
  BY <1>1
<1>4. \A r \in loaded'[j] : r.loadedAt = clock'
  <2>1. clock' \in Nat
    BY <1>1
  <2>2. QED BY <1>2, <2>1, IngestedRows
<1>5. QED BY <1>1, <1>3, <1>4

LEMMA LoadTimes ==
    ASSUME TypeOK, NEW j \in Jobs, NEW r \in loaded[j]
    PROVE  r \in Row /\ r.loadedAt \in Nat
BY DEF TypeOK, Row

LEMMA DatedStep ==
    ASSUME TypeOK, Dated, [Next]_vars
    PROVE  Dated'
<1>1. ASSUME NEW j \in Loaders, NEW records \in Ingestions, DateRecords(j, records)
      PROVE  Dated'
  <2>1. /\ clock \in Nat /\ clock' = clock + 1
        /\ \A r \in loaded'[j] : r.loadedAt = clock + 1
        /\ \A i \in Jobs : i # j => loaded'[i] = loaded[i]
    BY <1>1, DatedLoad
  <2>2. /\ stage'[j] = "load" /\ \A i \in Jobs : i # j => stage'[i] = stage[i]
    BY <1>1, JobKinds, Started DEF DateRecords
  <2>3. \A i \in Loaders : i # j => \A r \in loaded'[i] : r.loadedAt \in Nat /\ r.loadedAt <= clock
    BY <2>1, LoadTimes, JobKinds DEF Dated
  <2>4. (\A i \in Jobs : stage[i] = "new" => loaded[i] = {})'
    BY <2>1, <2>2 DEF Dated
  <2>5. \A i \in Loaders : \A r \in loaded'[i] : r.loadedAt <= clock'
    BY <2>1, <2>3
  <2>6. \A i \in Loaders : \A r, q \in loaded'[i] : r.loadedAt = q.loadedAt
    BY <2>1, JobKinds DEF Dated
  <2>7. ASSUME NEW i \in Loaders, NEW k \in Loaders, NEW r \in loaded'[i],
               NEW q \in loaded'[k], r.loadedAt = q.loadedAt
        PROVE  i = k
    <3>1. CASE i # j /\ k # j
      BY <2>1, <2>7, <3>1, JobKinds DEF Dated
    <3>2. CASE i # j /\ k = j
      BY <2>1, <2>3, <2>7, <3>2
    <3>3. CASE i = j /\ k # j
      BY <2>1, <2>3, <2>7, <3>3
    <3>4. QED BY <3>1, <3>2, <3>3
  <2>8. QED BY <2>4, <2>5, <2>6, <2>7 DEF Dated
<1>2. ASSUME NEW j \in SilverJobs, ReadIncremental(j) PROVE Dated'
  <2>1. loaded' = loaded /\ clock' = clock
    BY <1>2 DEF ReadIncremental
  <2>2. \A i \in Jobs : stage'[i] = "new" => stage[i] = "new"
    BY <1>2, JobKinds, Started DEF ReadIncremental
  <2>3. QED BY <2>1, <2>2 DEF Dated
<1>3. CASE Quiet
  BY <1>3 DEF Quiet, Dated
<1>4. QED BY <1>1, <1>2, <1>3, EveryStep

LEMMA MeetingsStep ==
    ASSUME TypeOK, Dated, Roles, Meetings, [Next]_vars
    PROVE  Meetings'
<1>1. ASSUME NEW j \in Loaders, NEW records \in Ingestions, DateRecords(j, records)
      PROVE  Meetings'
  <2>1. /\ clock \in Nat /\ clock' = clock + 1
        /\ \A r \in loaded'[j] : r.loadedAt = clock + 1
        /\ \A i \in Jobs : i # j => loaded'[i] = loaded[i]
    BY <1>1, DatedLoad
  <2>2. /\ j \in Jobs /\ stage[j] = "new"
        /\ \A i \in Jobs : i # j => stage'[i] = stage[i]
        /\ \A i \in Jobs : UnderWay(i) => Overlapped(i, j)' /\ Overlapped(j, i)'
        /\ \A a, b : Overlapped(a, b) => Overlapped(a, b)'
    BY <1>1, JobKinds, Started DEF DateRecords
  <2>3. \A i \in Jobs : i # j => (UnderWay(i)' <=> UnderWay(i))
    BY <2>2 DEF UnderWay, Ended
  <2>4. (\A i, k \in Jobs : UnderWay(i) /\ UnderWay(k) /\ i # k => Overlapped(i, k))'
    BY <2>2, <2>3 DEF Meetings
  <2>5. ASSUME NEW i \in Loaders, NEW k \in Loaders, UnderWay(i)', NEW r \in loaded'[i],
               NEW q \in loaded'[k], r.loadedAt < q.loadedAt
        PROVE  Overlapped(i, k)'
    <3>1. i \in Jobs /\ k \in Jobs
      BY JobKinds
    <3>2. CASE i # j /\ k # j
      <4>1. UnderWay(i) /\ r \in loaded[i] /\ q \in loaded[k]
        BY <2>1, <2>3, <2>5, <3>1, <3>2
      <4>2. QED BY <2>2, <2>5, <4>1 DEF Meetings
    <3>3. CASE i # j /\ k = j
      BY <2>2, <2>3, <2>5, <3>1, <3>3
    <3>4. CASE i = j
      <4>1. r.loadedAt = clock + 1
        BY <2>1, <3>4
      <4>2. CASE k = j
        BY <2>1, <2>5, <4>1, <4>2
      <4>3. CASE k # j
        <5>1. q \in loaded[k]
          BY <2>1, <3>1, <4>3
        <5>2. q.loadedAt \in Nat /\ q.loadedAt <= clock
          BY <3>1, <5>1, LoadTimes DEF Dated
        <5>3. QED BY <2>1, <2>5, <4>1, <5>2
      <4>4. QED BY <4>2, <4>3
    <3>5. QED BY <3>2, <3>3, <3>4
  <2>6. QED BY <2>4, <2>5 DEF Meetings
<1>2. ASSUME NEW j \in SilverJobs, ReadIncremental(j) PROVE Meetings'
  <2>1. /\ j \in Jobs /\ loaded' = loaded
        /\ \A i \in Jobs : i # j => stage'[i] = stage[i]
        /\ \A i \in Jobs : UnderWay(i) => Overlapped(i, j)' /\ Overlapped(j, i)'
        /\ \A a, b : Overlapped(a, b) => Overlapped(a, b)'
    BY <1>2, JobKinds, Started DEF ReadIncremental
  <2>2. \A i \in Jobs : i # j => (UnderWay(i)' <=> UnderWay(i))
    BY <2>1 DEF UnderWay, Ended
  <2>3. \A i \in Loaders : i \in Jobs /\ i # j
    BY JobKinds
  <2>4. (\A i, k \in Jobs : UnderWay(i) /\ UnderWay(k) /\ i # k => Overlapped(i, k))'
    BY <2>1, <2>2 DEF Meetings
  <2>5. ASSUME NEW i \in Loaders, NEW k \in Loaders, UnderWay(i)', NEW r \in loaded'[i],
               NEW q \in loaded'[k], r.loadedAt < q.loadedAt
        PROVE  Overlapped(i, k)'
    BY <2>1, <2>2, <2>3, <2>5 DEF Meetings
  <2>6. QED BY <2>4, <2>5 DEF Meetings
<1>3. CASE Quiet
  <2>1. \A a, b : Overlapped(a, b)' <=> Overlapped(a, b)
    BY <1>3 DEF Quiet, Overlapped
  <2>2. QED BY <1>3, <2>1, JobKinds DEF Quiet, Meetings
<1>4. QED BY <1>1, <1>2, <1>3, EveryStep

-----------------------------------------------------------------------------
(* What a step changes.                                                      *)
Early == {"new", "load", "createBronze"}

LEMMA Progress ==
    ASSUME TypeOK, Dated, [Next]_vars
    PROVE  /\ \A i \in Jobs : stage[i] # "new" => stage'[i] # "new" /\ loaded'[i] = loaded[i]
           /\ \A i \in Jobs : loaded[i] \subseteq loaded'[i]
           /\ \A a, b : Overlapped(a, b) => Overlapped(a, b)'
<1>1. ASSUME NEW j \in Loaders, NEW records \in Ingestions, DateRecords(j, records)
      PROVE  /\ \A i \in Jobs : stage[i] # "new" => stage'[i] # "new" /\ loaded'[i] = loaded[i]
             /\ \A a, b : Overlapped(a, b) => Overlapped(a, b)'
  <2>1. \A i \in Jobs : i # j => loaded'[i] = loaded[i]
    BY <1>1, DatedLoad
  <2>2. /\ j \in Jobs /\ stage[j] = "new" /\ \A i \in Jobs : i # j => stage'[i] = stage[i]
        /\ \A a, b : Overlapped(a, b) => Overlapped(a, b)'
    BY <1>1, JobKinds, Started DEF DateRecords
  <2>3. QED BY <2>1, <2>2
<1>2. ASSUME NEW j \in SilverJobs, ReadIncremental(j)
      PROVE  /\ \A i \in Jobs : stage[i] # "new" => stage'[i] # "new" /\ loaded'[i] = loaded[i]
             /\ \A a, b : Overlapped(a, b) => Overlapped(a, b)'
  <2>1. /\ j \in Jobs /\ stage[j] = "new" /\ loaded' = loaded
        /\ \A i \in Jobs : i # j => stage'[i] = stage[i]
        /\ \A a, b : Overlapped(a, b) => Overlapped(a, b)'
    BY <1>2, JobKinds, Started DEF ReadIncremental
  <2>2. QED BY <2>1
<1>3. CASE Quiet
  BY <1>3 DEF Quiet, Overlapped
<1>4. \A i \in Jobs : stage[i] # "new" => stage'[i] # "new" /\ loaded'[i] = loaded[i]
  BY <1>1, <1>2, <1>3, EveryStep
<1>5. \A a, b : Overlapped(a, b) => Overlapped(a, b)'
  BY <1>1, <1>2, <1>3, EveryStep
<1>6. \A i \in Jobs : loaded[i] \subseteq loaded'[i]
  BY <1>4 DEF Dated
<1>7. QED BY <1>4, <1>5, <1>6

(* No job goes back to loading.                                              *)
LEMMA LoadingIsFirst ==
    ASSUME TypeOK, Roles, [Next]_vars, NEW i \in Jobs, stage[i] \notin Early
    PROVE  stage'[i] \notin Early
<1>1. ASSUME NEW j \in Jobs, NEW step, Enter(j, step), step \in Early => stage[j] \in Early
      PROVE  stage'[i] \notin Early
  BY <1>1, Entered
<1>2. CASE \E j \in Loaders : BronzeStep(j)
  <2>1. \E j \in Jobs : stage[j] \in Early /\ \E step : Enter(j, step)
    BY <1>2, JobKinds
    DEF BronzeStep, DateRecords, Start, MergeBronze, RefusedMerge, FindNoBronze, CreateBronze, Early
  <2>2. QED BY <1>1, <2>1
<1>3. CASE \E j \in SilverJobs : ReadIncremental(j)
  BY <1>1, <1>3, JobKinds DEF ReadIncremental, Start, Early
<1>4. CASE \E j \in Cleaners : SilverStep(j)
  <2>1. \E j \in Jobs, step \in {"merge", "mark", "createSilver", "done"} : Enter(j, step)
    BY <1>4, JobKinds
    DEF SilverStep, WriteQuarantine, MergeSilver, FindNoSilver, CreateSilver, UpdateWatermark
  <2>2. QED BY <1>1, <2>1 DEF Early
<1>5. CASE \E j \in Jobs : Die(j)
  BY <1>1, <1>5 DEF Die, Early
<1>6. CASE Reset \/ UNCHANGED vars
  BY <1>6 DEF Reset, vars
<1>7. QED BY <1>2, <1>3, <1>4, <1>5, <1>6 DEF Next

CommitBronze(j) == MergeBronze(j) \/ CreateBronze(j)

CommitSilver(j) == MergeSilver(j) \/ CreateSilver(j)

LEMMA BronzeCommits ==
    ASSUME TypeOK, NEW j \in Loaders, CommitBronze(j)
    PROVE  /\ UnderWay(j) /\ ~Written(j) /\ stage'[j] = AfterBronze(j)
           /\ \A i \in Jobs : i # j => stage'[i] = stage[i]
           /\ UNCHANGED <<silver, quarantine, watermark, clock, loaded, since, met, resets>>
           /\ "bronze" \in tables' /\ tables \subseteq tables'
           /\ "silver" \in tables' => "silver" \in tables
           /\ loaded[j] \subseteq bronze'
           /\ \A b \in bronze' :
                 b \in loaded[j] \/ (b \in bronze /\ \A r \in loaded[j] : r.key # b.key)
           /\ Past' \subseteq Past \cup loaded[j]
<1>1. /\ UnderWay(j) /\ ~Written(j) /\ Enter(j, AfterBronze(j))
      /\ UNCHANGED <<silver, quarantine, watermark, clock, loaded, since, met, resets>>
      /\ "bronze" \in tables' /\ tables \subseteq tables'
      /\ "silver" \in tables' => "silver" \in tables
  BY DEF CommitBronze, MergeBronze, CreateBronze, UnderWay, Ended, Written
<1>2. stage'[j] = AfterBronze(j) /\ \A i \in Jobs : i # j => stage'[i] = stage[i]
  BY <1>1, Entered, JobKinds
<1>3. bronze' = Merge(bronze, loaded[j]) \/ bronze' = loaded[j]
  BY DEF CommitBronze, MergeBronze, CreateBronze
<1>4. Past' \subseteq Past \cup loaded[j]
  BY <1>1, <1>2, JobKinds DEF Past, Written
<1>5. QED BY <1>1, <1>2, <1>3, <1>4, MergedRows

LEMMA SilverCommits ==
    ASSUME TypeOK, NEW j \in Cleaners, CommitSilver(j)
    PROVE  /\ UnderWay(j) /\ stage[j] \in {"merge", "createSilver"} /\ stage'[j] = "mark"
           /\ \A i \in Jobs : i # j => stage'[i] = stage[i]
           /\ UNCHANGED <<bronze, quarantine, watermark, clock, loaded, since, met, resets>>
           /\ "silver" \in tables' /\ tables \subseteq tables'
           /\ "bronze" \in tables' => "bronze" \in tables
           /\ \E d \in Deduplicated(Input(j)) :
                 /\ stage[j] = "merge" => silver' = Merge(silver, Valid(d))
                 /\ stage[j] = "createSilver" => silver' = Valid(d)
           /\ silver' \subseteq silver \cup Input(j)
           /\ Past' \subseteq Past \cup Input(j)
<1>1. /\ UnderWay(j) /\ stage[j] \in {"merge", "createSilver"} /\ Enter(j, "mark")
      /\ UNCHANGED <<bronze, quarantine, watermark, clock, loaded, since, met, resets>>
      /\ "silver" \in tables' /\ tables \subseteq tables'
      /\ "bronze" \in tables' => "bronze" \in tables
  BY DEF CommitSilver, MergeSilver, CreateSilver, UnderWay, Ended
<1>2. stage'[j] = "mark" /\ \A i \in Jobs : i # j => stage'[i] = stage[i]
  BY <1>1, Entered, JobKinds
<1>3. PICK d \in Deduplicated(Input(j)) :
          /\ stage[j] = "merge" => silver' = Merge(silver, Valid(d))
          /\ stage[j] = "createSilver" => silver' = Valid(d)
  BY DEF CommitSilver, MergeSilver, CreateSilver
<1>4. silver' \subseteq silver \cup Input(j)
  <2>1. Valid(d) \subseteq Input(j)
    BY DeduplicatedRows DEF Valid
  <2>2. QED BY <1>1, <1>3, <2>1, MergedRows
<1>5. Past' \subseteq Past \cup Input(j)
  BY <1>1, <1>2, <1>4, JobKinds DEF Past, Written
<1>6. QED BY <1>1, <1>2, <1>3, <1>4, <1>5

(* Only commits change the tables, and only Bronze commits and deaths change *)
(* who has written.                                                          *)
LEMMA OtherSteps ==
    ASSUME TypeOK, Dated, [Next]_vars,
           \A j \in Loaders : ~CommitBronze(j), \A j \in Cleaners : ~CommitSilver(j)
    PROVE  /\ bronze' = bronze /\ silver' = silver /\ tables' = tables
           /\ \A i \in Loaders : Written(i)' => Written(i)
           /\ Past' \subseteq Past
<1>1. bronze' = bronze /\ silver' = silver /\ tables' = tables
  BY DEF Next, vars, BronzeStep, SilverStep, CommitBronze, CommitSilver, DateRecords,
         RefusedMerge, FindNoBronze, ReadIncremental, WriteQuarantine, FindNoSilver,
         UpdateWatermark, Die, Reset
<1>2. \A i \in Loaders : Written(i)' => Written(i)
  <2>1. ASSUME NEW j \in Jobs, NEW step, Enter(j, step), NEW i \in Loaders, Written(i)',
               j = i => Written(j) \/ step \in {"new", "load", "createBronze", "dead"}
        PROVE  Written(i)
    BY <2>1, Entered, JobKinds DEF Written
  <2>2. CASE \E j \in Loaders : BronzeStep(j)
    <3>1. \E j \in Jobs, step \in {"load", "createBronze", "dead"} : Enter(j, step)
      BY <2>2, JobKinds
      DEF BronzeStep, CommitBronze, DateRecords, Start, RefusedMerge, FindNoBronze
    <3>2. QED BY <2>1, <3>1
  <2>3. CASE \E j \in SilverJobs : ReadIncremental(j)
    BY <2>1, <2>3, JobKinds DEF ReadIncremental, Start
  <2>4. CASE \E j \in Cleaners : SilverStep(j)
    <3>1. \E j \in Jobs : \E step : Written(j) /\ Enter(j, step)
      BY <2>4, JobKinds
      DEF SilverStep, CommitSilver, WriteQuarantine, FindNoSilver, UpdateWatermark, Written
    <3>2. QED BY <2>1, <3>1
  <2>5. CASE \E j \in Jobs : Die(j)
    BY <2>1, <2>5 DEF Die
  <2>6. CASE Reset \/ UNCHANGED vars
    BY <2>6 DEF Reset, vars, Written
  <2>7. QED BY <2>2, <2>3, <2>4, <2>5, <2>6 DEF Next
<1>3. Past' \subseteq Past
  <2>1. \A i \in Loaders : Written(i) => loaded'[i] = loaded[i]
    BY Progress, JobKinds DEF Written
  <2>2. QED BY <1>1, <1>2, <2>1 DEF Past
<1>4. QED BY <1>1, <1>2, <1>3

LEMMA OverlapsRemain ==
    ASSUME TypeOK, Dated, [Next]_vars, NEW r, NEW q, LoadsOverlapped(r, q)
    PROVE  LoadsOverlapped(r, q)'
BY Progress, JobKinds DEF LoadsOverlapped

-----------------------------------------------------------------------------
(* Where the rows come from.                                                 *)
Settled(r) == \E j \in Loaders : r \in loaded[j] /\ stage[j] \notin Early

LEMMA InputIsSettled ==
    ASSUME TypeOK, Provenance, NEW j \in Cleaners, stage[j] \notin Early, NEW r \in Input(j)
    PROVE  Settled(r)
<1>1. CASE j \in Pipelines
  BY <1>1, JobKinds DEF Settled, Input
<1>2. CASE j \notin Pipelines
  <2>1. r \in bronze
    BY <1>2 DEF Input, NewerThan
  <2>2. QED BY <2>1 DEF Provenance, Settled, Early
<1>3. QED BY <1>1, <1>2

LEMMA ProvenanceStep ==
    ASSUME TypeOK, Roles, Dated, Provenance, [Next]_vars
    PROVE  Provenance'
<1>1. ASSUME NEW r, Settled(r) PROVE Settled(r)'
  BY <1>1, LoadingIsFirst, Progress, JobKinds DEF Settled, Early
<1>2. \A r \in bronze \cup silver \cup DOMAIN quarantine : Settled(r)
  BY DEF Provenance, Settled, Early
<1>3. ASSUME NEW j \in Loaders, CommitBronze(j), NEW r \in bronze' PROVE Settled(r)'
  <2>1. CASE r \in bronze
    BY <1>1, <1>2, <2>1
  <2>2. CASE r \in loaded[j]
    <3>1. stage'[j] \notin Early /\ r \in loaded'[j]
      BY <1>3, <2>2, BronzeCommits DEF AfterBronze, Early
    <3>2. QED BY <3>1 DEF Settled
  <2>3. QED BY <1>3, <2>1, <2>2, BronzeCommits
<1>4. ASSUME NEW j \in Cleaners, CommitSilver(j), NEW r \in silver' PROVE Settled(r)'
  <2>1. stage[j] \notin Early /\ (r \in silver \/ r \in Input(j))
    BY <1>4, SilverCommits DEF Early
  <2>2. Settled(r)
    BY <1>2, <2>1, InputIsSettled
  <2>3. QED BY <1>1, <2>2
<1>5. ASSUME NEW j \in Cleaners, WriteQuarantine(j), NEW r \in DOMAIN quarantine'
      PROVE  Settled(r)'
  <2>1. PICK d \in Deduplicated(Input(j)) :
            quarantine' = quarantine (+) SetToBag(Failed(d))
    BY <1>5 DEF WriteQuarantine
  <2>2. Failed(d) \subseteq d /\ d \subseteq Input(j)
    BY DeduplicatedRows DEF Failed
  <2>3. DOMAIN quarantine' = DOMAIN quarantine \cup Failed(d)
    BY <2>1, Appended DEF TypeOK
  <2>4. stage[j] \notin Early /\ (r \in DOMAIN quarantine \/ r \in Input(j))
    BY <1>5, <2>2, <2>3 DEF WriteQuarantine, Early
  <2>5. Settled(r)
    BY <1>2, <2>4, InputIsSettled
  <2>6. QED BY <1>1, <2>5
<1>6. (\A j \in Cleaners : ~WriteQuarantine(j)) => quarantine' = quarantine
  BY DEF Next, vars, BronzeStep, SilverStep, DateRecords, MergeBronze, RefusedMerge,
         FindNoBronze, CreateBronze, ReadIncremental, MergeSilver, FindNoSilver,
         CreateSilver, UpdateWatermark, Die, Reset
<1>7. \A r \in DOMAIN quarantine' : Settled(r)'
  BY <1>1, <1>2, <1>5, <1>6
<1>8. \A r \in bronze' : Settled(r)'
  BY <1>1, <1>2, <1>3, OtherSteps, SilverCommits
<1>9. \A r \in silver' : Settled(r)'
  BY <1>1, <1>2, <1>4, OtherSteps, BronzeCommits
<1>10. QED BY <1>7, <1>8, <1>9 DEF Provenance, Settled, Early

(* A written row is of some load.                                            *)
LEMMA PastIsLoaded ==
    ASSUME Provenance, NEW w \in Past
    PROVE  \E k \in Loaders : w \in loaded[k] /\ loaded[k] \cap (bronze \cup Past) # {}
<1>1. PICK k \in Loaders : w \in loaded[k]
  BY DEF Past, Provenance
<1>2. QED BY <1>1

(* What a cleaner takes up has been written before.                          *)
LEMMA InputIsWritten ==
    ASSUME NEW j \in Cleaners, NEW r \in Input(j),
           stage[j] \in {"split", "merge", "createSilver", "mark"}
    PROVE  r \in bronze \cup Past
<1>1. CASE j \in Pipelines
  BY <1>1, JobKinds DEF Past, Input, Written
<1>2. CASE j \notin Pipelines
  BY <1>2 DEF Input, NewerThan
<1>3. QED BY <1>1, <1>2

-----------------------------------------------------------------------------
(* The creation of the tables.                                               *)
CreatedBronze ==
    "bronze" \notin tables =>
        bronze = {} /\ silver = {} /\ \A j \in Loaders : ~Written(j)

CreatedSilver ==
    "silver" \notin tables =>
        /\ silver = {} /\ watermark = NULL /\ \A j \in SilverJobs : since[j] = NULL
        /\ \A j \in Cleaners : stage[j] \notin {"mark", "done"}

LEMMA CreatedBronzeStep ==
    ASSUME TypeOK, Roles, Dated, Creation, [Next]_vars
    PROVE  CreatedBronze'
<1>1. CASE \E j \in Loaders : CommitBronze(j)
  BY <1>1, BronzeCommits DEF CreatedBronze
<1>2. CASE \E j \in Cleaners : CommitSilver(j)
  <2>1. PICK j \in Cleaners : CommitSilver(j)
    BY <1>2
  <2>2. SUFFICES ASSUME "bronze" \notin tables'
                 PROVE  bronze' = {} /\ silver' = {} /\ \A i \in Loaders : ~Written(i)'
    BY DEF CreatedBronze
  <2>3. bronze = {} /\ silver = {} /\ \A i \in Loaders : ~Written(i)
    BY <2>1, <2>2, SilverCommits DEF Creation
  <2>4. j \notin Loaders
    BY <2>1, <2>3, SilverCommits DEF Written
  <2>5. Input(j) = {}
    BY <2>3, <2>4, JobKinds DEF Input, NewerThan
  <2>6. \A i \in Loaders : ~Written(i)'
    BY <2>1, <2>3, <2>4, SilverCommits, JobKinds DEF Written
  <2>7. QED BY <2>1, <2>3, <2>5, <2>6, SilverCommits
<1>3. CASE /\ \A j \in Loaders : ~CommitBronze(j)
           /\ \A j \in Cleaners : ~CommitSilver(j)
  BY <1>3, OtherSteps DEF Creation, CreatedBronze
<1>4. QED BY <1>1, <1>2, <1>3

LEMMA CreatedSilverStep ==
    ASSUME TypeOK, Roles, Creation, [Next]_vars
    PROVE  CreatedSilver'
<1> SUFFICES ASSUME "silver" \notin tables'
             PROVE  /\ silver' = {} /\ watermark' = NULL
                    /\ \A j \in SilverJobs : since'[j] = NULL
                    /\ \A j \in Cleaners : stage'[j] \notin {"mark", "done"}
  BY DEF CreatedSilver
<1>1. "silver" \notin tables
  BY DEF Next, vars, BronzeStep, SilverStep, DateRecords, MergeBronze, RefusedMerge,
         FindNoBronze, CreateBronze, ReadIncremental, WriteQuarantine, MergeSilver,
         FindNoSilver, CreateSilver, UpdateWatermark, Die, Reset
<1>2. /\ silver = {} /\ watermark = NULL /\ \A j \in SilverJobs : since[j] = NULL
      /\ \A j \in Cleaners : stage[j] \notin {"mark", "done"}
  BY <1>1 DEF Creation
<1>3. ASSUME NEW j \in Jobs, NEW step, Enter(j, step),
             j \in Cleaners => step \notin {"mark", "done"}
      PROVE  \A i \in Cleaners : stage'[i] \notin {"mark", "done"}
  BY <1>2, <1>3, Entered, JobKinds
<1>4. CASE \E j \in Loaders : BronzeStep(j)
  <2>1. PICK j \in Loaders : BronzeStep(j)
    BY <1>4
  <2>2. silver' = silver /\ watermark' = watermark /\ since' = since
    BY <2>1
    DEF BronzeStep, DateRecords, MergeBronze, RefusedMerge, FindNoBronze, CreateBronze
  <2>3. \E step \in {"load", "createBronze", "dead", AfterBronze(j)} : Enter(j, step)
    BY <2>1
    DEF BronzeStep, DateRecords, Start, MergeBronze, RefusedMerge, FindNoBronze, CreateBronze
  <2>4. j \in Cleaners => AfterBronze(j) = "split"
    BY JobKinds DEF AfterBronze
  <2>5. QED BY <1>2, <1>3, <2>2, <2>3, <2>4, JobKinds
<1>5. CASE \E j \in SilverJobs : ReadIncremental(j)
  <2>1. PICK j \in SilverJobs : ReadIncremental(j)
    BY <1>5
  <2>2. /\ silver' = silver /\ watermark' = watermark
        /\ since' = [since EXCEPT ![j] = watermark] /\ Enter(j, "split")
    BY <2>1 DEF ReadIncremental, Start
  <2>3. \A i \in SilverJobs : since'[i] = NULL
    BY <1>2, <2>2, JobKinds DEF TypeOK
  <2>4. QED BY <1>2, <1>3, <2>2, <2>3, JobKinds
<1>6. CASE \E j \in Cleaners : SilverStep(j)
  <2>1. PICK j \in Cleaners : SilverStep(j)
    BY <1>6
  <2>2. WriteQuarantine(j) \/ FindNoSilver(j)
    BY <1>1, <1>2, <2>1 DEF SilverStep, MergeSilver, CreateSilver, UpdateWatermark
  <2>3. /\ silver' = silver /\ watermark' = watermark /\ since' = since
        /\ \E step \in {"merge", "createSilver"} : Enter(j, step)
    BY <2>2 DEF WriteQuarantine, FindNoSilver
  <2>4. QED BY <1>2, <1>3, <2>3, JobKinds
<1>7. CASE \E j \in Jobs : Die(j)
  BY <1>2, <1>3, <1>7 DEF Die
<1>8. CASE Reset \/ UNCHANGED vars
  BY <1>2, <1>8 DEF Reset, vars
<1>9. QED BY <1>4, <1>5, <1>6, <1>7, <1>8 DEF Next

(* Jobs turn to creating a table when they do not find it.                   *)
LEMMA Entrance ==
    ASSUME TypeOK, [Next]_vars, NEW i \in Jobs, stage'[i] # stage[i]
    PROVE  /\ stage'[i] = "createBronze" => "bronze" \notin tables
           /\ stage'[i] = "createSilver" => "silver" \notin tables
<1>1. ASSUME NEW j \in Jobs, NEW step, Enter(j, step),
             step = "createBronze" => "bronze" \notin tables,
             step = "createSilver" => "silver" \notin tables
      PROVE  /\ stage'[i] = "createBronze" => "bronze" \notin tables
             /\ stage'[i] = "createSilver" => "silver" \notin tables
  BY <1>1, Entered
<1>2. CASE \E j \in Loaders : BronzeStep(j)
  <2>1. PICK j \in Loaders : BronzeStep(j)
    BY <1>2
  <2>2. CASE FindNoBronze(j)
    BY <1>1, <2>2, JobKinds DEF FindNoBronze
  <2>3. CASE ~FindNoBronze(j)
    <3>1. \E step \in {"load", "dead", AfterBronze(j)} : Enter(j, step)
      BY <2>1, <2>3
      DEF BronzeStep, DateRecords, Start, MergeBronze, RefusedMerge, CreateBronze
    <3>2. QED BY <1>1, <3>1, JobKinds DEF AfterBronze
  <2>4. QED BY <2>2, <2>3
<1>3. CASE \E j \in SilverJobs : ReadIncremental(j)
  BY <1>1, <1>3, JobKinds DEF ReadIncremental, Start
<1>4. CASE \E j \in Cleaners : SilverStep(j)
  <2>1. PICK j \in Cleaners : SilverStep(j)
    BY <1>4
  <2>2. CASE FindNoSilver(j)
    BY <1>1, <2>2, JobKinds DEF FindNoSilver
  <2>3. CASE ~FindNoSilver(j)
    <3>1. \E step \in {"merge", "mark", "done"} : Enter(j, step)
      BY <2>1, <2>3
      DEF SilverStep, WriteQuarantine, MergeSilver, CreateSilver, UpdateWatermark
    <3>2. QED BY <1>1, <3>1, JobKinds
  <2>4. QED BY <2>2, <2>3
<1>5. CASE \E j \in Jobs : Die(j)
  BY <1>1, <1>5 DEF Die
<1>6. CASE Reset \/ UNCHANGED vars
  BY <1>6 DEF Reset, vars
<1>7. QED BY <1>2, <1>3, <1>4, <1>5, <1>6 DEF Next

(* A job that is about to create a table has met those that have written it. *)
CreatesBronze(i) ==
    stage[i] = "createBronze" =>
        \A j \in Loaders : i # j /\ (loaded[j] \cap (bronze \cup Past)) # {} => Overlapped(i, j)

LEMMA CreatesBronzeStep ==
    ASSUME TypeOK, Roles, Dated, Meetings, Creation, Provenance, [Next]_vars,
           NEW i \in Loaders
    PROVE  CreatesBronze(i)'
<1> SUFFICES ASSUME stage'[i] = "createBronze", NEW j \in Loaders, i # j,
                    NEW r \in loaded'[j], r \in bronze' \cup Past'
             PROVE  Overlapped(i, j)'
  BY DEF CreatesBronze
<1>1. i \in Jobs /\ j \in Jobs
  BY JobKinds
<1>2. ASSUME UnderWay(i), UnderWay(j) PROVE Overlapped(i, j)'
  BY <1>1, <1>2, Progress DEF Meetings
<1>3. ASSUME stage[i] = "createBronze", r \in loaded[j], r \in bronze \cup Past
      PROVE  Overlapped(i, j)'
  BY <1>1, <1>3, Progress DEF Creation
<1>4. CASE \E k \in Loaders, records \in Ingestions : DateRecords(k, records)
  <2>1. PICK k \in Loaders, records \in Ingestions : DateRecords(k, records)
    BY <1>4
  <2>2. /\ k \in Jobs /\ stage'[k] = "load" /\ \A m \in Jobs : m # k => stage'[m] = stage[m]
        /\ \A m \in Jobs : UnderWay(m) => Overlapped(m, k)'
        /\ \A m \in Jobs : m # k => loaded'[m] = loaded[m]
    BY <2>1, DatedLoad, JobKinds, Started DEF DateRecords
  <2>3. i # k /\ UnderWay(i) /\ stage[i] = "createBronze"
    BY <1>1, <2>2 DEF UnderWay, Ended
  <2>4. CASE j = k
    BY <1>1, <2>2, <2>3, <2>4
  <2>5. CASE j # k
    <3>1. \A m \in Loaders : ~CommitBronze(m)
      BY <2>1, <2>2, <2>3, JobKinds, BronzeCommits DEF DateRecords, Start, UnderWay
    <3>2. \A m \in Cleaners : ~CommitSilver(m)
      BY <2>1, <2>2, <2>3, JobKinds, SilverCommits DEF DateRecords, Start, UnderWay
    <3>3. r \in bronze \cup Past
      BY <3>1, <3>2, OtherSteps
    <3>4. QED BY <1>1, <1>3, <2>2, <2>3, <2>5, <3>3
  <2>6. QED BY <2>4, <2>5
<1>5. CASE \E k \in SilverJobs : ReadIncremental(k)
  <2>1. PICK k \in SilverJobs : ReadIncremental(k)
    BY <1>5
  <2>2. /\ i # k /\ stage'[i] = stage[i] /\ loaded' = loaded
    BY <1>1, <2>1, JobKinds, Started DEF ReadIncremental
  <2>3. r \in bronze \cup Past
    <3>1. \A m \in Loaders : Written(m)' => Written(m)
      BY <2>1, JobKinds, Started DEF ReadIncremental, Written
    <3>2. QED BY <2>1, <2>2, <3>1 DEF ReadIncremental, Past
  <2>4. QED BY <1>3, <2>2, <2>3
<1>6. CASE Quiet
  <2>1. UnderWay(i) /\ loaded' = loaded
    BY <1>1, <1>6 DEF Quiet, UnderWay, Ended
  <2>2. CASE \E k \in Loaders : CommitBronze(k)
    <3>1. PICK k \in Loaders : CommitBronze(k)
      BY <2>2
    <3>2. i # k /\ stage'[i] = stage[i]
      <4>1. stage'[k] # "createBronze"
        BY <3>1, BronzeCommits DEF AfterBronze
      <4>2. QED BY <1>1, <3>1, <4>1, BronzeCommits
    <3>3. CASE r \in loaded[k]
      <4>1. j = k
        BY <2>1, <3>3 DEF Dated
      <4>2. QED BY <1>2, <2>1, <3>1, <4>1, BronzeCommits
    <3>4. CASE r \notin loaded[k]
      <4>1. r \in bronze \cup Past
        BY <3>1, <3>4, BronzeCommits
      <4>2. QED BY <1>3, <2>1, <3>2, <4>1
    <3>5. QED BY <3>3, <3>4
  <2>3. CASE \E k \in Cleaners : CommitSilver(k)
    <3>1. PICK k \in Cleaners : CommitSilver(k)
      BY <2>3
    <3>2. i # k /\ stage'[i] = stage[i] /\ stage[k] \in {"merge", "createSilver"}
      BY <1>1, <3>1, SilverCommits
    <3>3. r \in bronze \cup Past
      BY <3>1, <3>2, SilverCommits, InputIsWritten
    <3>4. QED BY <1>3, <2>1, <3>2, <3>3
  <2>4. CASE /\ \A k \in Loaders : ~CommitBronze(k)
             /\ \A k \in Cleaners : ~CommitSilver(k)
    <3>1. r \in bronze \cup Past
      BY <2>4, OtherSteps
    <3>2. CASE stage[i] = "createBronze"
      BY <1>3, <2>1, <3>1, <3>2
    <3>3. CASE stage[i] # "createBronze"
      <4>1. "bronze" \notin tables
        BY <1>1, <3>3, Entrance
      <4>2. bronze = {} /\ silver = {} /\ \A m \in Loaders : ~Written(m)
        BY <4>1 DEF Creation
      <4>3. QED BY <3>1, <4>2 DEF Past
    <3>4. QED BY <3>2, <3>3
  <2>5. QED BY <2>2, <2>3, <2>4
<1>7. QED BY <1>4, <1>5, <1>6, EveryStep

CreatesSilver(i) ==
    stage[i] = "createSilver" =>
        /\ i \in SilverJobs => since[i] = NULL
        /\ "silver" \in tables => \E j \in Cleaners : Overlapped(i, j)
        /\ \A j \in Cleaners : i # j /\ stage[j] \in {"mark", "done"} => Overlapped(i, j)

LEMMA CreatesSilverStep ==
    ASSUME TypeOK, Roles, Dated, Meetings, Creation, [Next]_vars,
           NEW i \in Cleaners
    PROVE  CreatesSilver(i)'
<1> SUFFICES ASSUME stage'[i] = "createSilver" PROVE CreatesSilver(i)'
  BY DEF CreatesSilver
<1>1. i \in Jobs /\ \A j \in Cleaners : j \in Jobs
  BY JobKinds
<1>2. stage[i] # "createSilver" =>
          "silver" \notin tables /\ \A j \in Cleaners : stage[j] \notin {"mark", "done"}
  BY <1>1, Entrance DEF Creation
<1>3. UnderWay(i)
  <2>1. CASE stage[i] = "new"
    <3>1. stage'[i] # "createSilver"
      <4>1. CASE Quiet
        BY <1>1, <2>1, <4>1 DEF Quiet
      <4>2. ASSUME NEW k \in Jobs, NEW step \in {"load", "split"}, Start(k, step)
            PROVE  stage'[i] # "createSilver"
        BY <1>1, <2>1, <4>2, Started
      <4>3. QED BY <4>1, <4>2, EveryStep, JobKinds DEF DateRecords, ReadIncremental
    <3>2. QED BY <3>1
  <2>2. CASE stage[i] # "new"
    <3>1. CASE Quiet
      BY <1>1, <3>1 DEF Quiet, UnderWay, Ended
    <3>2. ASSUME NEW k \in Jobs, NEW step \in {"load", "split"}, Start(k, step)
          PROVE  UnderWay(i)
      BY <1>1, <2>2, <3>2, Started DEF UnderWay, Ended
    <3>3. QED BY <3>1, <3>2, EveryStep, JobKinds DEF DateRecords, ReadIncremental
  <2>3. QED BY <2>1, <2>2
<1>4. i \in SilverJobs => since'[i] = NULL
  <2>1. i \in SilverJobs => since[i] = NULL
    BY <1>1, <1>2 DEF Creation
  <2>2. since'[i] = since[i]
    <3>1. CASE \E k \in SilverJobs : ReadIncremental(k)
      <4>1. PICK k \in SilverJobs : ReadIncremental(k)
        BY <3>1
      <4>2. i # k
        BY <1>3, <4>1 DEF ReadIncremental, Start, UnderWay
      <4>3. QED BY <1>1, <4>1, <4>2, JobKinds DEF ReadIncremental, TypeOK
    <3>2. CASE \E k \in Loaders, records \in Ingestions : DateRecords(k, records)
      BY <3>2 DEF DateRecords
    <3>3. CASE Quiet
      BY <3>3 DEF Quiet
    <3>4. QED BY <3>1, <3>2, <3>3, EveryStep
  <2>3. QED BY <2>1, <2>2
<1>5. ASSUME NEW j \in Cleaners, CommitSilver(j) PROVE Overlapped(i, j)'
  <2>1. i # j /\ UnderWay(j)
    BY <1>5, SilverCommits
  <2>2. QED BY <1>1, <1>3, <2>1, Progress DEF Meetings
<1>6. ASSUME "silver" \in tables' PROVE \E j \in Cleaners : Overlapped(i, j)'
  <2>1. CASE "silver" \in tables
    BY <1>1, <1>2, <2>1, Progress DEF Creation
  <2>2. CASE "silver" \notin tables
    <3>1. \E j \in Cleaners : CommitSilver(j)
      BY <1>6, <2>2, BronzeCommits, OtherSteps
    <3>2. QED BY <1>5, <3>1
  <2>3. QED BY <2>1, <2>2
<1>7. ASSUME NEW j \in Cleaners, i # j, stage'[j] \in {"mark", "done"}
      PROVE  Overlapped(i, j)'
  <2>1. CASE stage[j] \in {"mark", "done"}
    BY <1>1, <1>2, <1>7, <2>1, Progress DEF Creation
  <2>2. CASE stage[j] \notin {"mark", "done"}
    <3>1. CommitSilver(j)
      <4>1. ASSUME NEW k \in Jobs, NEW step, Enter(k, step),
                   k \in Cleaners => step \notin {"mark", "done"}
            PROVE  FALSE
        BY <1>1, <1>7, <2>2, <4>1, Entered
      <4>2. ASSUME NEW k \in Loaders, BronzeStep(k) PROVE FALSE
        <5>1. \E step \in {"load", "createBronze", "dead", AfterBronze(k)} : Enter(k, step)
          BY <4>2
          DEF BronzeStep, DateRecords, Start, MergeBronze, RefusedMerge, FindNoBronze,
              CreateBronze
        <5>2. k \in Cleaners => AfterBronze(k) = "split"
          BY JobKinds DEF AfterBronze
        <5>3. QED BY <4>1, <5>1, <5>2, JobKinds
      <4>3. ASSUME NEW k \in SilverJobs, ReadIncremental(k) PROVE FALSE
        BY <4>1, <4>3, JobKinds DEF ReadIncremental, Start
      <4>4. ASSUME NEW k \in Cleaners, SilverStep(k) PROVE CommitSilver(j)
        <5>1. CASE CommitSilver(k)
          <6>1. k = j
            BY <1>1, <1>7, <2>2, <5>1, SilverCommits
          <6>2. QED BY <5>1, <6>1
        <5>2. CASE UpdateWatermark(k)
          <6>1. k # j
            BY <2>2, <5>2 DEF UpdateWatermark
          <6>2. QED
            BY <1>1, <1>7, <2>2, <5>2, <6>1, Entered, JobKinds DEF UpdateWatermark
        <5>3. CASE WriteQuarantine(k) \/ FindNoSilver(k)
          BY <4>1, <5>3, JobKinds DEF WriteQuarantine, FindNoSilver
        <5>4. QED BY <4>4, <5>1, <5>2, <5>3 DEF SilverStep, CommitSilver
      <4>5. ASSUME NEW k \in Jobs, Die(k) PROVE FALSE
        BY <4>1, <4>5 DEF Die
      <4>6. CASE Reset \/ UNCHANGED vars
        BY <1>7, <2>2, <4>6 DEF Reset, vars
      <4>7. QED BY <4>2, <4>3, <4>4, <4>5, <4>6 DEF Next
    <3>2. QED BY <1>5, <3>1
  <2>3. QED BY <2>1, <2>2
<1>8. QED BY <1>4, <1>6, <1>7 DEF CreatesSilver

LEMMA CreationStep ==
    ASSUME TypeOK, Roles, Dated, Meetings, Creation, Provenance, [Next]_vars
    PROVE  Creation'
<1>1. CreatedBronze' /\ CreatedSilver'
  BY CreatedBronzeStep, CreatedSilverStep
<1>2. \A i \in Loaders : CreatesBronze(i)'
  BY CreatesBronzeStep
<1>3. \A i \in Cleaners : CreatesSilver(i)'
  BY CreatesSilverStep
<1>4. QED
  BY <1>1, <1>2, <1>3
  DEF Creation, CreatedBronze, CreatedSilver, CreatesBronze, CreatesSilver

-----------------------------------------------------------------------------
(* Bronze keeps the latest load.                                             *)

(* A load under way that is older than one that has been written overlaps it. *)
LEMMA LateCommit ==
    ASSUME TypeOK, Meetings, NEW j \in Loaders, NEW k \in Loaders, UnderWay(j),
           NEW r \in loaded[j], NEW w \in loaded[k]
    PROVE  /\ r.loadedAt \in Nat /\ w.loadedAt \in Nat
           /\ w.loadedAt <= r.loadedAt \/ Overlapped(j, k)
<1>1. r.loadedAt \in Nat /\ w.loadedAt \in Nat
  BY LoadTimes, JobKinds
<1>2. w.loadedAt <= r.loadedAt \/ r.loadedAt < w.loadedAt
  BY <1>1
<1>3. QED BY <1>1, <1>2 DEF Meetings

LEMMA BronzeTimes ==
    ASSUME TypeOK
    PROVE  \A b \in bronze \cup silver : b \in Row /\ b.loadedAt \in Nat
BY DEF TypeOK, Row

LEMMA OneLoadPerKeyStep ==
    ASSUME TypeOK, Dated, OneLoadPerKey, [Next]_vars
    PROVE  OneLoadPerKey'
<1>1. ASSUME NEW j \in Loaders, CommitBronze(j), NEW b \in bronze', NEW c \in bronze',
             b.key = c.key
      PROVE  b.loadedAt = c.loadedAt
  BY <1>1, BronzeCommits DEF OneLoadPerKey, Dated
<1>2. CASE \E j \in Loaders : CommitBronze(j)
  BY <1>1, <1>2 DEF OneLoadPerKey
<1>3. CASE \A j \in Loaders : ~CommitBronze(j)
  BY <1>3, OtherSteps, SilverCommits DEF OneLoadPerKey
<1>4. QED BY <1>2, <1>3

LEMMA BronzeIsLatestStep ==
    ASSUME TypeOK, Roles, Dated, Meetings, Provenance, OneLoadPerKey, BronzeIsLatest,
           [Next]_vars
    PROVE  BronzeIsLatest'
<1>1. ASSUME NEW w \in Past, NEW b \in bronze, b.key = w.key
      PROVE  w.loadedAt <= b.loadedAt \/ LoadsOverlapped(w, b)'
  BY <1>1, OverlapsRemain DEF BronzeIsLatest
<1>2. ASSUME NEW j \in Loaders, CommitBronze(j), NEW w \in Past', NEW b \in bronze',
             b.key = w.key
      PROVE  w.loadedAt <= b.loadedAt \/ LoadsOverlapped(w, b)'
  <2>1. CASE w \in Past /\ b \in bronze
    BY <1>1, <1>2, <2>1
  <2>2. CASE w \in Past /\ b \in loaded[j]
    <3>1. PICK k \in Loaders : w \in loaded[k]
      BY <2>2, PastIsLoaded
    <3>2. UnderWay(j)
      BY <1>2, BronzeCommits
    <3>3. w.loadedAt <= b.loadedAt \/ Overlapped(k, j)
      BY <2>2, <3>1, <3>2, LateCommit, OverlapIsMutual
    <3>4. Overlapped(k, j) => LoadsOverlapped(w, b)
      BY <2>2, <3>1 DEF LoadsOverlapped
    <3>5. QED BY <3>3, <3>4, OverlapsRemain
  <2>3. CASE w \in loaded[j]
    <3>1. b \in loaded[j]
      BY <1>2, <2>3, BronzeCommits
    <3>2. w.loadedAt = b.loadedAt /\ w.loadedAt \in Nat
      BY <2>3, <3>1, LoadTimes, JobKinds DEF Dated
    <3>3. QED BY <3>2
  <2>4. QED BY <1>2, <2>1, <2>2, <2>3, BronzeCommits
<1>3. ASSUME NEW j \in Cleaners, CommitSilver(j), NEW w \in Past', NEW b \in bronze',
             b.key = w.key
      PROVE  w.loadedAt <= b.loadedAt \/ LoadsOverlapped(w, b)'
  <2>1. b \in bronze /\ (w \in Past \/ w \in bronze)
    BY <1>3, SilverCommits, InputIsWritten
  <2>2. CASE w \in Past
    BY <1>1, <1>3, <2>1, <2>2
  <2>3. CASE w \in bronze
    BY <1>3, <2>1, <2>3, BronzeTimes DEF OneLoadPerKey
  <2>4. QED BY <2>1, <2>2, <2>3
<1>4. CASE /\ \A j \in Loaders : ~CommitBronze(j)
           /\ \A j \in Cleaners : ~CommitSilver(j)
  BY <1>1, <1>4, OtherSteps DEF BronzeIsLatest
<1>5. QED BY <1>2, <1>3, <1>4 DEF BronzeIsLatest

Followed(w) ==
    \/ \E b \in bronze : b.key = w.key /\ (b = w \/ w.loadedAt < b.loadedAt)
    \/ \E i, j \in Loaders : w \in loaded[j] /\ Overlapped(i, j)

LEMMA PastFollowsBronzeStep ==
    ASSUME TypeOK, Roles, Dated, Meetings, Provenance, Creation, PastFollowsBronze,
           [Next]_vars
    PROVE  PastFollowsBronze'
<1>1. \A w \in Past : Followed(w)
  BY DEF PastFollowsBronze, Followed
<1>2. ASSUME NEW w, NEW i \in Loaders, NEW j \in Loaders, w \in loaded[j], Overlapped(i, j)
      PROVE  Followed(w)'
  BY <1>2, Progress, JobKinds DEF Followed
<1>3. ASSUME NEW w, Followed(w), bronze' = bronze PROVE Followed(w)'
  BY <1>2, <1>3 DEF Followed
<1>4. ASSUME NEW j \in Loaders, MergeBronze(j), NEW w \in Past PROVE Followed(w)'
  <2>1. CommitBronze(j) /\ bronze' = Merge(bronze, loaded[j])
    BY <1>4 DEF CommitBronze, MergeBronze
  <2>2. CASE \E a, i \in Loaders : w \in loaded[i] /\ Overlapped(a, i)
    BY <1>2, <2>2
  <2>3. CASE \E b \in bronze : b.key = w.key /\ (b = w \/ w.loadedAt < b.loadedAt)
    <3>1. PICK b \in bronze : b.key = w.key /\ (b = w \/ w.loadedAt < b.loadedAt)
      BY <2>3
    <3>2. CASE b \in bronze'
      BY <3>1, <3>2 DEF Followed
    <3>3. CASE b \notin bronze'
      <4>1. PICK r \in loaded[j] : r.key = b.key
        BY <2>1, <3>3, MergedRows
      <4>2. PICK k \in Loaders : w \in loaded[k]
        BY PastIsLoaded
      <4>3. r.loadedAt \in Nat /\ w.loadedAt \in Nat /\ (w.loadedAt <= r.loadedAt \/ Overlapped(j, k))
        BY <2>1, <4>1, <4>2, BronzeCommits, LateCommit
      <4>4. CASE Overlapped(j, k)
        BY <1>2, <4>2, <4>4
      <4>5. CASE w.loadedAt < r.loadedAt
        BY <2>1, <3>1, <4>1, <4>5, BronzeCommits DEF Followed
      <4>6. CASE w.loadedAt = r.loadedAt
        <5>1. k = j
          BY <4>1, <4>2, <4>6 DEF Dated
        <5>2. w \in bronze'
          BY <2>1, <4>2, <5>1, BronzeCommits
        <5>3. QED BY <5>2 DEF Followed
      <4>7. QED BY <4>3, <4>4, <4>5, <4>6
    <3>4. QED BY <3>2, <3>3
  <2>4. QED BY <1>1, <2>2, <2>3 DEF Followed
<1>5. ASSUME NEW j \in Loaders, CreateBronze(j), NEW w \in Past PROVE Followed(w)'
  <2>1. bronze' = loaded[j] /\ stage[j] = "createBronze"
    BY <1>5 DEF CreateBronze
  <2>2. PICK k \in Loaders : w \in loaded[k] /\ loaded[k] \cap (bronze \cup Past) # {}
    BY PastIsLoaded
  <2>3. CASE k = j
    BY <2>1, <2>2, <2>3 DEF Followed
  <2>4. CASE k # j
    <3>1. Overlapped(j, k)
      BY <2>1, <2>2, <2>4 DEF Creation
    <3>2. QED BY <1>2, <2>2, <3>1
  <2>5. QED BY <2>3, <2>4
<1>6. ASSUME NEW j \in Loaders, CommitBronze(j), NEW w \in Past' PROVE Followed(w)'
  <2>1. CASE w \in Past
    BY <1>4, <1>5, <1>6, <2>1 DEF CommitBronze
  <2>2. CASE w \in loaded[j]
    <3>1. w \in bronze'
      BY <1>6, <2>2, BronzeCommits
    <3>2. QED BY <3>1 DEF Followed
  <2>3. QED BY <1>6, <2>1, <2>2, BronzeCommits
<1>7. ASSUME NEW j \in Cleaners, CommitSilver(j), NEW w \in Past' PROVE Followed(w)'
  <2>1. bronze' = bronze /\ (w \in Past \/ w \in bronze)
    BY <1>7, SilverCommits, InputIsWritten
  <2>2. w \in bronze => Followed(w)
    BY DEF Followed
  <2>3. QED BY <1>1, <1>3, <2>1, <2>2
<1>8. CASE /\ \A j \in Loaders : ~CommitBronze(j)
           /\ \A j \in Cleaners : ~CommitSilver(j)
  BY <1>1, <1>3, <1>8, OtherSteps DEF PastFollowsBronze, Followed
<1>9. QED
  <2>1. \A w \in Past' : Followed(w)'
    BY <1>1, <1>3, <1>6, <1>7, OtherSteps
  <2>2. QED BY <2>1 DEF PastFollowsBronze, Followed

LEMMA SilverGrainStep ==
    ASSUME TypeOK, Dated, SilverGrain, [Next]_vars
    PROVE  SilverGrain'
<1>1. ASSUME NEW j \in Cleaners, CommitSilver(j) PROVE SilverGrain'
  <2>1. PICK d \in Deduplicated(Input(j)) :
            silver' = Merge(silver, Valid(d)) \/ silver' = Valid(d)
    BY <1>1, SilverCommits
  <2>2. \A r, q \in Valid(d) : r.key = q.key => r = q
    BY DeduplicatedRows DEF Valid
  <2>3. QED BY <2>1, <2>2, MergedRows DEF SilverGrain
<1>2. CASE \A j \in Cleaners : ~CommitSilver(j)
  BY <1>2, OtherSteps, BronzeCommits DEF SilverGrain
<1>3. QED BY <1>1, <1>2

-----------------------------------------------------------------------------
(* The layers.                                                               *)
LEMMA LayersInit == Init => LayersInv
<1> SUFFICES ASSUME Init PROVE LayersInv
  OBVIOUS
<1>1. TypeOK
  BY TypeInit
<1>2. /\ bronze = {} /\ silver = {} /\ DOMAIN quarantine = {} /\ met = {} /\ watermark = NULL
      /\ \A j \in Jobs : stage[j] = "new" /\ loaded[j] = {} /\ since[j] = NULL
  BY EmptyBagIsEmpty DEF Init
<1>3. Past = {}
  BY <1>2, JobKinds DEF Past
<1>4. Roles /\ Dated
  BY <1>2, JobKinds DEF Roles, Dated
<1>5. Meetings
  BY <1>2, JobKinds DEF Meetings, UnderWay
<1>6. Provenance
  BY <1>2 DEF Provenance
<1>7. Creation
  BY <1>2, <1>3, JobKinds DEF Creation, Written
<1>8. OneLoadPerKey /\ BronzeIsLatest /\ PastFollowsBronze /\ SilverGrain
  BY <1>2, <1>3 DEF OneLoadPerKey, BronzeIsLatest, PastFollowsBronze, SilverGrain
<1>9. QED BY <1>1, <1>4, <1>5, <1>6, <1>7, <1>8 DEF LayersInv

LEMMA LayersStep == LayersInv /\ [Next]_vars => LayersInv'
<1> SUFFICES ASSUME LayersInv, [Next]_vars PROVE LayersInv'
  OBVIOUS
<1>1. /\ TypeOK /\ Roles /\ Dated /\ Meetings /\ Provenance /\ Creation
      /\ OneLoadPerKey /\ BronzeIsLatest /\ PastFollowsBronze /\ SilverGrain
  BY DEF LayersInv
<1>2. TypeOK' /\ Roles' /\ Dated' /\ Meetings'
  BY <1>1, TypeStep, RolesStep, DatedStep, MeetingsStep
<1>3. Provenance' /\ Creation'
  BY <1>1, ProvenanceStep, CreationStep
<1>4. OneLoadPerKey' /\ BronzeIsLatest' /\ PastFollowsBronze' /\ SilverGrain'
  BY <1>1, OneLoadPerKeyStep, BronzeIsLatestStep, PastFollowsBronzeStep, SilverGrainStep
<1>5. QED BY <1>2, <1>3, <1>4 DEF LayersInv

(* Silver has one row per grain, although the first load of Bronze keeps two *)
(* rows of a city that CITIES names twice.                                   *)
THEOREM SilverHasOneRowPerKey == Spec => []SilverGrain
<1>1. LayersInv => SilverGrain
  BY DEF LayersInv
<1>2. QED BY <1>1, LayersInit, LayersStep, PTL DEF Spec

(* Silver is never ahead of Bronze, but for loads that overlapped.           *)
THEOREM SilverIsConsistent == Spec => []SilverFollowsBronze
<1>1. LayersInv => SilverFollowsBronze
  BY DEF LayersInv, PastFollowsBronze, SilverFollowsBronze, Past
<1>2. QED BY <1>1, LayersInit, LayersStep, PTL DEF Spec

(* A Silver row never goes back to an earlier load and never disappears, but *)
(* for loads that overlapped and a table that two jobs create.               *)
NeverBack(s) ==
    \/ \E t \in silver' :
          t.key = s.key /\ (t.loadedAt >= s.loadedAt \/ LoadsOverlapped(s, t))
    \/ \E i, j \in Cleaners :
          stage[i] = "createSilver" /\ stage'[i] = "mark" /\ Overlapped(i, j)

LEMMA NoStepBack ==
    ASSUME LayersInv, [Next]_vars, NEW s \in silver
    PROVE  NeverBack(s)
<1>1. /\ TypeOK /\ Roles /\ Dated /\ Meetings /\ Provenance /\ Creation
      /\ OneLoadPerKey /\ BronzeIsLatest
  BY DEF LayersInv
<1>2. s \in Past /\ s.loadedAt \in Nat
  BY <1>1, BronzeTimes DEF Past
<1>3. s \in silver' => NeverBack(s)
  BY <1>2 DEF NeverBack
<1>4. ASSUME NEW j \in Cleaners, CommitSilver(j) PROVE NeverBack(s)
  <2>1. CASE stage[j] = "createSilver"
    <3>1. "silver" \in tables
      BY <1>1 DEF Creation
    <3>2. PICK i \in Cleaners : Overlapped(j, i)
      BY <1>1, <2>1, <3>1 DEF Creation
    <3>3. stage'[j] = "mark"
      BY <1>1, <1>4, SilverCommits
    <3>4. QED BY <2>1, <3>2, <3>3 DEF NeverBack
  <2>2. CASE stage[j] = "merge"
    <3>1. PICK d \in Deduplicated(Input(j)) : silver' = Merge(silver, Valid(d))
      BY <1>1, <1>4, <2>2, SilverCommits
    <3>2. CASE s \in silver'
      BY <1>3, <3>2
    <3>3. CASE s \notin silver'
      <4>1. PICK t \in Valid(d) : t.key = s.key
        BY <3>1, <3>3, MergedRows
      <4>2. t \in silver'
        BY <3>1, <4>1, MergedRows
      <4>3. t \in Input(j)
        BY <3>1, <4>1, DeduplicatedRows DEF Valid
      <4>4. (s.loadedAt <= t.loadedAt /\ t.loadedAt \in Nat) \/ LoadsOverlapped(s, t)
        <5>1. CASE j \in Pipelines
          <6>1. t \in loaded[j] /\ j \in Loaders /\ UnderWay(j)
            BY <1>1, <1>4, <4>3, <5>1, SilverCommits, JobKinds DEF Input
          <6>2. PICK k \in Loaders : s \in loaded[k]
            BY <1>1, <1>2, PastIsLoaded
          <6>3. t.loadedAt \in Nat /\ (s.loadedAt <= t.loadedAt \/ Overlapped(k, j))
            BY <1>1, <6>1, <6>2, LateCommit, OverlapIsMutual
          <6>4. QED BY <6>1, <6>2, <6>3 DEF LoadsOverlapped
        <5>2. CASE j \notin Pipelines
          <6>1. t \in bronze
            BY <4>3, <5>2 DEF Input, NewerThan
          <6>2. QED BY <1>1, <1>2, <4>1, <6>1, BronzeTimes DEF BronzeIsLatest
        <5>3. QED BY <5>1, <5>2
      <4>5. t.loadedAt >= s.loadedAt \/ LoadsOverlapped(s, t)
        BY <1>2, <4>4
      <4>6. QED BY <4>1, <4>2, <4>5 DEF NeverBack
    <3>4. QED BY <3>2, <3>3
  <2>3. QED BY <1>1, <1>4, <2>1, <2>2, SilverCommits
<1>5. (\A j \in Cleaners : ~CommitSilver(j)) => silver' = silver
  BY <1>1, OtherSteps, BronzeCommits
<1>6. QED BY <1>3, <1>4, <1>5

THEOREM NeverGoesBack == Spec => LatestLoadWins
<1>1. LayersInv /\ [Next]_vars
        => [\A s \in silver :
              \/ \E t \in silver' :
                    t.key = s.key /\ (t.loadedAt >= s.loadedAt \/ LoadsOverlapped(s, t))
              \/ \E i, j \in Cleaners :
                    stage[i] = "createSilver" /\ stage'[i] = "mark" /\ Overlapped(i, j)]_vars
  BY NoStepBack DEF NeverBack
<1>2. QED BY <1>1, LayersInit, LayersStep, PTL DEF Spec, LatestLoadWins

-----------------------------------------------------------------------------
(* The rows an evaluation keeps stand for those of its input.                *)
LEMMA BronzeIsLoaded ==
    ASSUME LayersInv, NEW b \in bronze
    PROVE  /\ \E k \in Loaders : b \in loaded[k]
           /\ b \in Row /\ b.loadedAt \in Nat
<1>1. TypeOK /\ Provenance
  BY DEF LayersInv
<1>2. QED BY <1>1, BronzeTimes DEF Provenance

LEMMA InputHasOneLoadPerKey ==
    ASSUME LayersInv, NEW j \in Cleaners, NEW b \in Input(j), NEW q \in Input(j),
           b.key = q.key
    PROVE  SameLoad(q, b) /\ \E k \in Loaders : q \in loaded[k]
<1>1. CASE j \in Pipelines
  BY <1>1, JobKinds DEF Input, LayersInv, Dated, SameLoad
<1>2. CASE j \notin Pipelines
  <2>1. b \in bronze /\ q \in bronze
    BY <1>2 DEF Input, NewerThan
  <2>2. QED BY <2>1, BronzeIsLoaded DEF LayersInv, OneLoadPerKey, SameLoad
<1>3. QED BY <1>1, <1>2

LEMMA Representative ==
    ASSUME LayersInv, NEW j \in Cleaners, NEW d \in Deduplicated(Input(j)),
           NEW b \in Input(j), ~Contested(b)
    PROVE  \E q \in d : SameLoad(q, b) /\ ((q.body \in Broken) <=> (b.body \in Broken))
<1>1. PICK q \in d : q.key = b.key
  BY DeduplicatedRows
<1>2. q \in Input(j)
  BY DeduplicatedRows
<1>3. SameLoad(q, b) /\ \E k \in Loaders : q \in loaded[k]
  BY <1>1, <1>2, InputHasOneLoadPerKey
<1>4. (q.body \in Broken) <=> (b.body \in Broken)
  BY <1>3 DEF Contested
<1>5. QED BY <1>3, <1>4

LEMMA EndsAreEnds ==
    ASSUME TypeOK, [Next]_vars, NEW i \in Jobs, stage[i] = "dead"
    PROVE  stage'[i] = "dead"
<1>1. CASE Quiet
  <2>1. ASSUME NEW j \in Jobs, NEW step, UnderWay(j), Enter(j, step)
        PROVE  stage'[i] = "dead"
    BY <2>1, Entered DEF UnderWay, Ended
  <2>2. CASE \E j \in Loaders : BronzeStep(j)
    <3>1. \A j \in Loaders, records \in Ingestions : ~DateRecords(j, records)
      BY <1>1, Started, JobKinds DEF Quiet, DateRecords
    <3>2. QED
      BY <2>1, <2>2, <3>1, JobKinds
      DEF BronzeStep, MergeBronze, RefusedMerge, FindNoBronze, CreateBronze, UnderWay, Ended
  <2>3. CASE \E j \in SilverJobs : ReadIncremental(j)
    BY <1>1, <2>3, Started, JobKinds DEF Quiet, ReadIncremental
  <2>4. CASE \E j \in Cleaners : SilverStep(j)
    BY <2>1, <2>4, JobKinds
    DEF SilverStep, WriteQuarantine, MergeSilver, FindNoSilver, CreateSilver,
        UpdateWatermark, UnderWay, Ended
  <2>5. CASE \E j \in Jobs : Die(j)
    BY <2>1, <2>5 DEF Die
  <2>6. CASE Reset \/ UNCHANGED vars
    BY <2>6 DEF Reset, vars
  <2>7. QED BY <2>2, <2>3, <2>4, <2>5, <2>6 DEF Next
<1>2. ASSUME NEW j \in Jobs, NEW step, Start(j, step) PROVE stage'[i] = "dead"
  BY <1>2, Started
<1>3. QED BY <1>1, <1>2, EveryStep, JobKinds DEF DateRecords, ReadIncremental

(* An excuse remains one.                                                    *)
LEMMA ExcusesRemain ==
    ASSUME LayersInv, [Next]_vars, NEW b, ~Owed(b)
    PROVE  ~Owed(b)'
<1>1. TypeOK /\ Dated
  BY DEF LayersInv
<1>2. CASE Contested(b)
  BY <1>1, <1>2, Progress, JobKinds DEF Contested, Owed
<1>3. CASE LeftBehind(b)
  <2>1. PICK j \in Loaders : b \in loaded[j] /\
            \/ \E i \in Cleaners : Overlapped(i, j)
            \/ /\ j \in BronzeJobs \/ stage[j] = "dead"
               /\ \E i \in Pipelines : i # j /\ stage[i] # "new"
    BY <1>3 DEF LeftBehind
  <2>2. b \in loaded'[j]
    BY <1>1, <2>1, Progress, JobKinds
  <2>3. CASE \E i \in Cleaners : Overlapped(i, j)
    <3>1. \E i \in Cleaners : Overlapped(i, j)'
      BY <1>1, <2>3, Progress
    <3>2. QED BY <2>2, <3>1 DEF LeftBehind, Owed
  <2>4. CASE /\ j \in BronzeJobs \/ stage[j] = "dead"
             /\ \E i \in Pipelines : i # j /\ stage[i] # "new"
    <3>1. j \in BronzeJobs \/ stage'[j] = "dead"
      BY <1>1, <2>4, EndsAreEnds, JobKinds
    <3>2. \E i \in Pipelines : i # j /\ stage'[i] # "new"
      BY <1>1, <2>4, Progress, JobKinds
    <3>3. QED BY <2>2, <3>1, <3>2 DEF LeftBehind, Owed
  <2>5. QED BY <2>1, <2>3, <2>4
<1>4. QED BY <1>2, <1>3 DEF Owed

(* A pipeline under way and another's row that has no excuse: that other has *)
(* ended well, and before.                                                   *)
LEMMA OthersHaveEnded ==
    ASSUME LayersInv, NEW j \in Pipelines, UnderWay(j), NEW k \in Loaders, k # j,
           NEW b \in loaded[k], Owed(b)
    PROVE  k \in Pipelines /\ stage[k] = "done" /\ ~Overlapped(j, k)
<1>1. j \in Cleaners /\ j \in Jobs /\ k \in Jobs /\ stage[j] # "new"
  BY JobKinds DEF UnderWay
<1>2. ~Overlapped(j, k)
  BY <1>1 DEF Owed, LeftBehind
<1>3. k \notin BronzeJobs /\ stage[k] # "dead"
  BY <1>1 DEF Owed, LeftBehind
<1>4. stage[k] # "new" /\ ~UnderWay(k)
  BY <1>1, <1>2 DEF LayersInv, Dated, Meetings
<1>5. QED BY <1>2, <1>3, <1>4, JobKinds DEF UnderWay, Ended

(* What is in quarantine stays there.                                        *)
LEMMA QuarantineGrows ==
    ASSUME TypeOK, [Next]_vars
    PROVE  DOMAIN quarantine \subseteq DOMAIN quarantine'
<1>1. ASSUME NEW j \in Cleaners, WriteQuarantine(j)
      PROVE  DOMAIN quarantine \subseteq DOMAIN quarantine'
  <2>1. PICK d \in Deduplicated(Input(j)) :
            quarantine' = quarantine (+) SetToBag(Failed(d))
    BY <1>1 DEF WriteQuarantine
  <2>2. DOMAIN quarantine' = DOMAIN quarantine \cup Failed(d)
    BY <2>1, Appended DEF TypeOK
  <2>3. QED BY <2>2
<1>2. (\A j \in Cleaners : ~WriteQuarantine(j)) => quarantine' = quarantine
  BY DEF Next, vars, BronzeStep, SilverStep, DateRecords, MergeBronze, RefusedMerge,
         FindNoBronze, CreateBronze, ReadIncremental, MergeSilver, FindNoSilver,
         CreateSilver, UpdateWatermark, Die, Reset
<1>3. QED BY <1>1, <1>2

-----------------------------------------------------------------------------
(* A Bronze row that Silver has, at its load, Silver keeps.                  *)
LEMMA SilverKeeps ==
    ASSUME LayersInv, [Next]_vars, NEW b \in bronze, Owed(b), InSilver(b)
    PROVE  InSilver(b)'
<1> SUFFICES ASSUME b.body \notin Broken PROVE \E t \in silver' : SameLoad(t, b)
  BY DEF InSilver, SameLoad
<1>1. PICK s \in silver : SameLoad(s, b)
  BY DEF InSilver
<1>2. /\ TypeOK /\ Roles /\ Dated /\ Meetings /\ Provenance /\ Creation
      /\ OneLoadPerKey /\ BronzeIsLatest
  BY DEF LayersInv
<1>3. ASSUME NEW j \in Cleaners, CommitSilver(j), NEW d \in Deduplicated(Input(j)),
             b \in Input(j), Valid(d) \subseteq silver'
      PROVE  \E t \in silver' : SameLoad(t, b)
  <2>1. PICK q \in d : SameLoad(q, b) /\ ((q.body \in Broken) <=> (b.body \in Broken))
    BY <1>3, Representative DEF Owed
  <2>2. q \in Valid(d)
    BY <2>1 DEF Valid
  <2>3. QED BY <1>3, <2>1, <2>2
<1>4. ASSUME NEW j \in Cleaners, MergeSilver(j) PROVE \E t \in silver' : SameLoad(t, b)
  <2>1. PICK d \in Deduplicated(Input(j)) : silver' = Merge(silver, Valid(d))
    BY <1>4 DEF MergeSilver
  <2>2. UnderWay(j) /\ CommitSilver(j)
    BY <1>4 DEF MergeSilver, UnderWay, Ended, CommitSilver
  <2>3. CASE s \in silver'
    BY <1>1, <2>3
  <2>4. CASE s \notin silver'
    <3>1. PICK t \in Valid(d) : t.key = s.key
      BY <2>1, <2>4, MergedRows
    <3>2. t \in silver' /\ t \in Input(j) /\ t.key = b.key
      BY <1>1, <2>1, <3>1, MergedRows, DeduplicatedRows DEF Valid, SameLoad
    <3>3. t.loadedAt = b.loadedAt
      <4>1. CASE j \in Pipelines
        <5>1. t \in loaded[j] /\ j \in Loaders /\ j \in Jobs
          BY <3>2, <4>1, JobKinds DEF Input
        <5>2. PICK k \in Loaders : b \in loaded[k]
          BY BronzeIsLoaded
        <5>3. ~Overlapped(j, k)
          BY <5>2 DEF Owed, LeftBehind
        <5>4. b.loadedAt <= t.loadedAt
          BY <1>2, <2>2, <5>1, <5>2, <5>3, LateCommit
        <5>5. t \in Past
          BY <1>4, <5>1 DEF Past, Written, MergeSilver
        <5>6. ~LoadsOverlapped(t, b)
          <6>1. \A i, m \in Loaders : t \in loaded[i] /\ b \in loaded[m] => i = j
            BY <1>2, <5>1 DEF Dated
          <6>2. \A m \in Loaders : b \in loaded[m] => ~Overlapped(j, m)
            BY DEF Owed, LeftBehind
          <6>3. QED BY <6>1, <6>2 DEF LoadsOverlapped
        <5>7. t.loadedAt <= b.loadedAt
          BY <1>2, <3>2, <5>5, <5>6 DEF BronzeIsLatest
        <5>8. t.loadedAt \in Nat /\ b.loadedAt \in Nat
          BY <1>2, <5>1, BronzeIsLoaded, LoadTimes
        <5>9. QED BY <5>4, <5>7, <5>8
      <4>2. CASE j \notin Pipelines
        <5>1. t \in bronze
          BY <3>2, <4>2 DEF Input, NewerThan
        <5>2. QED BY <1>2, <3>2, <5>1 DEF OneLoadPerKey
      <4>3. QED BY <4>1, <4>2
    <3>4. QED BY <3>2, <3>3 DEF SameLoad
  <2>5. QED BY <2>3, <2>4
<1>5. ASSUME NEW j \in Cleaners, CreateSilver(j) PROVE \E t \in silver' : SameLoad(t, b)
  <2>1. PICK d \in Deduplicated(Input(j)) : silver' = Valid(d)
    BY <1>5 DEF CreateSilver
  <2>2. /\ UnderWay(j) /\ CommitSilver(j) /\ stage[j] = "createSilver"
    BY <1>5 DEF CreateSilver, UnderWay, Ended, CommitSilver
  <2>3. b \in Input(j)
    <3>1. CASE j \in Pipelines
      <4>1. PICK k \in Loaders : b \in loaded[k]
        BY BronzeIsLoaded
      <4>2. k = j
        <5>1. k # j => k \in Pipelines /\ stage[k] = "done" /\ ~Overlapped(j, k)
          BY <2>2, <3>1, <4>1, OthersHaveEnded
        <5>2. k \in Pipelines /\ stage[k] = "done" /\ k # j => Overlapped(j, k)
          BY <1>2, <2>2, JobKinds DEF Creation
        <5>3. QED BY <5>1, <5>2
      <4>3. QED BY <3>1, <4>1, <4>2 DEF Input
    <3>2. CASE j \notin Pipelines
      <4>1. j \in SilverJobs /\ since[j] = NULL
        BY <1>2, <2>2, <3>2, JobKinds DEF Creation
      <4>2. QED BY <3>2, <4>1 DEF Input, NewerThan
    <3>3. QED BY <3>1, <3>2
  <2>4. QED BY <1>3, <2>1, <2>2, <2>3
<1>6. CASE \A j \in Cleaners : ~CommitSilver(j)
  <2>1. silver' = silver
    BY <1>2, <1>6, OtherSteps, BronzeCommits
  <2>2. QED BY <1>1, <2>1
<1>7. QED BY <1>4, <1>5, <1>6 DEF CommitSilver

LEMMA RoutedRemains ==
    ASSUME LayersInv, [Next]_vars, NEW b \in bronze, Owed(b), Routed(b)
    PROVE  Routed(b)'
<1>1. InSilver(b)'
  BY SilverKeeps DEF Routed
<1>2. InQuarantine(b)'
  BY QuarantineGrows DEF Routed, InQuarantine, LayersInv, SameLoad
<1>3. QED BY <1>1, <1>2 DEF Routed

(* A new Bronze row is of a load under way, which the cleaners under way     *)
(* have met.                                                                 *)
LEMMA NewRows ==
    ASSUME LayersInv, [Next]_vars, NEW b \in bronze', b \notin bronze
    PROVE  \E k \in Loaders : /\ b \in loaded[k] /\ b \in loaded'[k]
                              /\ UnderWay(k) /\ stage'[k] = AfterBronze(k)
                              /\ CommitBronze(k)
<1>1. TypeOK /\ Dated
  BY DEF LayersInv
<1>2. PICK k \in Loaders : CommitBronze(k)
  BY <1>1, OtherSteps, SilverCommits
<1>3. QED BY <1>1, <1>2, BronzeCommits

LEMMA MetLoader ==
    ASSUME LayersInv, [Next]_vars, NEW k \in Loaders, UnderWay(k), NEW i \in Cleaners,
           UnderWay(i), i # k, NEW b \in loaded[k]
    PROVE  ~Owed(b)'
<1>1. Overlapped(i, k)
  BY JobKinds DEF LayersInv, Meetings
<1>2. ~Owed(b)
  BY <1>1 DEF Owed, LeftBehind
<1>3. QED BY <1>2, ExcusesRemain

(* The input of a job that has one stays what it is for the rows of Bronze.  *)
LEMMA InputIsKept ==
    ASSUME LayersInv, [Next]_vars, NEW j \in Cleaners, UnderWay(j) \/ stage[j] = "done"
    PROVE  /\ loaded'[j] = loaded[j] /\ since'[j] = since[j]
           /\ \A b \in bronze \cap bronze' : b \in Input(j)' <=> b \in Input(j)
<1>1. TypeOK /\ Dated /\ j \in Jobs /\ stage[j] # "new"
  BY JobKinds DEF LayersInv, UnderWay
<1>2. loaded'[j] = loaded[j]
  BY <1>1, Progress
<1>3. since'[j] = since[j]
  <2>1. CASE \E k \in SilverJobs : ReadIncremental(k)
    <3>1. PICK k \in SilverJobs : ReadIncremental(k)
      BY <2>1
    <3>2. j # k
      BY <1>1, <3>1 DEF ReadIncremental, Start
    <3>3. QED BY <1>1, <3>1, <3>2, JobKinds DEF ReadIncremental, TypeOK
  <2>2. CASE \E k \in Loaders, records \in Ingestions : DateRecords(k, records)
    BY <2>2 DEF DateRecords
  <2>3. CASE Quiet
    BY <2>3 DEF Quiet
  <2>4. QED BY <1>1, <2>1, <2>2, <2>3, EveryStep
<1>4. QED BY <1>2, <1>3 DEF Input, NewerThan

(* How a cleaner comes to its stage.                                         *)
LEMMA CleanerStep ==
    ASSUME TypeOK, [Next]_vars, NEW j \in Cleaners,
           stage'[j] \in {"merge", "createSilver", "mark", "done"}
    PROVE  \/ stage'[j] = stage[j]
           \/ WriteQuarantine(j) /\ stage'[j] = "merge"
           \/ FindNoSilver(j) /\ stage[j] = "merge" /\ stage'[j] = "createSilver"
           \/ CommitSilver(j) /\ stage'[j] = "mark"
           \/ UpdateWatermark(j) /\ stage[j] = "mark" /\ stage'[j] = "done"
<1>1. j \in Jobs
  BY JobKinds
<1>2. ASSUME NEW k \in Jobs, NEW step, Enter(k, step),
             k = j => step \notin {"merge", "createSilver", "mark", "done"}
      PROVE  stage'[j] = stage[j]
  BY <1>1, <1>2, Entered
<1>3. CASE \E k \in Loaders : BronzeStep(k)
  <2>1. PICK k \in Loaders : BronzeStep(k)
    BY <1>3
  <2>2. \E step \in {"load", "createBronze", "dead", AfterBronze(k)} : Enter(k, step)
    BY <2>1
    DEF BronzeStep, DateRecords, Start, MergeBronze, RefusedMerge, FindNoBronze, CreateBronze
  <2>3. k = j => AfterBronze(k) = "split"
    BY <2>1, JobKinds DEF AfterBronze
  <2>4. QED BY <1>2, <2>2, <2>3, JobKinds
<1>4. CASE \E k \in SilverJobs : ReadIncremental(k)
  BY <1>2, <1>4, JobKinds DEF ReadIncremental, Start
<1>5. CASE \E k \in Cleaners : SilverStep(k)
  <2>1. PICK k \in Cleaners : SilverStep(k)
    BY <1>5
  <2>2. CASE k # j
    <3>1. \E step : Enter(k, step)
      BY <2>1
      DEF SilverStep, WriteQuarantine, MergeSilver, FindNoSilver, CreateSilver, UpdateWatermark
    <3>2. QED BY <1>2, <2>2, <3>1, JobKinds
  <2>3. CASE k = j
    <3>1. WriteQuarantine(j) => stage'[j] = "merge"
      BY <1>1, Entered DEF WriteQuarantine
    <3>2. FindNoSilver(j) => stage[j] = "merge" /\ stage'[j] = "createSilver"
      BY <1>1, Entered DEF FindNoSilver
    <3>3. UpdateWatermark(j) => stage[j] = "mark" /\ stage'[j] = "done"
      BY <1>1, Entered DEF UpdateWatermark
    <3>4. MergeSilver(j) \/ CreateSilver(j) => CommitSilver(j) /\ stage'[j] = "mark"
      BY SilverCommits DEF CommitSilver
    <3>5. QED BY <2>1, <2>3, <3>1, <3>2, <3>3, <3>4 DEF SilverStep
  <2>4. QED BY <2>2, <2>3
<1>6. CASE \E k \in Jobs : Die(k)
  BY <1>2, <1>6 DEF Die
<1>7. CASE Reset \/ UNCHANGED vars
  BY <1>7 DEF Reset, vars
<1>8. QED BY <1>3, <1>4, <1>5, <1>6, <1>7 DEF Next

(* A cleaner that has come this far has routed the row this far.             *)
RoutedBy(j, b) ==
    b \in Input(j) /\ Owed(b) =>
        /\ stage[j] \in {"merge", "createSilver", "mark"} => InQuarantine(b)
        /\ stage[j] = "mark" => InSilver(b)
        /\ j \in Pipelines /\ stage[j] = "done" => Routed(b)

LEMMA RoutingStep ==
    ASSUME LayersInv, RoutingInv, [Next]_vars
    PROVE  RoutingInv'
<1> SUFFICES ASSUME NEW j \in Cleaners, NEW b \in bronze' PROVE RoutedBy(j, b)'
  BY DEF RoutingInv, RoutedBy
<1> SUFFICES ASSUME b \in Input(j)', Owed(b)',
                    stage'[j] \in {"merge", "createSilver", "mark", "done"},
                    stage'[j] = "done" => j \in Pipelines
             PROVE  /\ stage'[j] # "done" => InQuarantine(b)'
                    /\ stage'[j] = "mark" => InSilver(b)'
                    /\ stage'[j] = "done" => Routed(b)'
  BY DEF RoutedBy
<1>1. TypeOK /\ Dated /\ j \in Jobs /\ Owed(b)
  BY ExcusesRemain, JobKinds DEF LayersInv
<1>2. \/ stage'[j] = stage[j]
      \/ WriteQuarantine(j) /\ stage'[j] = "merge"
      \/ FindNoSilver(j) /\ stage[j] = "merge" /\ stage'[j] = "createSilver"
      \/ CommitSilver(j) /\ stage'[j] = "mark"
      \/ UpdateWatermark(j) /\ stage[j] = "mark" /\ stage'[j] = "done"
  BY <1>1, CleanerStep
<1>3. UnderWay(j) \/ stage[j] = "done"
  BY <1>1, <1>2, SilverCommits DEF UnderWay, Ended, WriteQuarantine
<1>4. b \in bronze
  <2>1. SUFFICES ASSUME b \notin bronze PROVE FALSE
    OBVIOUS
  <2>2. PICK k \in Loaders : /\ b \in loaded[k] /\ UnderWay(k)
                             /\ stage'[k] = AfterBronze(k) /\ CommitBronze(k)
    BY <2>1, NewRows
  <2>3. stage'[j] = stage[j]
    BY <1>1, <1>2, <2>2, BronzeCommits, JobKinds DEF AfterBronze
  <2>4. j # k
    <3>1. j = k => AfterBronze(k) = "split"
      BY JobKinds DEF AfterBronze
    <3>2. QED BY <2>2, <3>1
  <2>5. ~UnderWay(j)
    BY <2>2, <2>4, MetLoader
  <2>6. stage[j] = "done" /\ j \in Pipelines
    BY <1>3, <2>3, <2>5
  <2>7. b \in loaded[j] /\ j \in Loaders
    BY <2>6, InputIsKept, JobKinds DEF Input
  <2>8. QED BY <1>1, <2>2, <2>4, <2>7 DEF Dated
<1>5. b \in Input(j)
  BY <1>3, <1>4, InputIsKept
<1>6. RoutedBy(j, b)
  BY <1>4 DEF RoutingInv, RoutedBy
<1>7. InQuarantine(b) => InQuarantine(b)'
  BY <1>1, QuarantineGrows DEF InQuarantine, SameLoad
<1>8. InSilver(b) => InSilver(b)'
  BY <1>1, <1>4, SilverKeeps
<1>9. CASE stage'[j] = stage[j]
  BY <1>1, <1>5, <1>6, <1>7, <1>8, <1>9 DEF RoutedBy, Routed
<1>10. CASE WriteQuarantine(j) /\ stage'[j] = "merge"
  <2>1. PICK d \in Deduplicated(Input(j)) :
            quarantine' = quarantine (+) SetToBag(Failed(d))
    BY <1>10 DEF WriteQuarantine
  <2>2. DOMAIN quarantine' = DOMAIN quarantine \cup Failed(d)
    BY <1>1, <2>1, Appended DEF TypeOK
  <2>3. PICK q \in d : SameLoad(q, b) /\ ((q.body \in Broken) <=> (b.body \in Broken))
    BY <1>1, <1>5, <2>1, Representative DEF Owed
  <2>4. b.body \in Broken => q \in DOMAIN quarantine'
    BY <2>2, <2>3 DEF Failed
  <2>5. InQuarantine(b)'
    BY <2>3, <2>4 DEF InQuarantine, SameLoad
  <2>6. QED BY <1>10, <2>5
<1>11. CASE FindNoSilver(j) /\ stage[j] = "merge" /\ stage'[j] = "createSilver"
  BY <1>1, <1>5, <1>6, <1>7, <1>11 DEF RoutedBy
<1>12. CASE CommitSilver(j) /\ stage'[j] = "mark"
  <2>1. stage[j] \in {"merge", "createSilver"}
    BY <1>1, <1>12, SilverCommits
  <2>2. InQuarantine(b)'
    BY <1>1, <1>5, <1>6, <1>7, <2>1 DEF RoutedBy
  <2>3. PICK d \in Deduplicated(Input(j)) :
            silver' = Merge(silver, Valid(d)) \/ silver' = Valid(d)
    BY <1>12 DEF CommitSilver, MergeSilver, CreateSilver
  <2>4. PICK q \in d : SameLoad(q, b) /\ ((q.body \in Broken) <=> (b.body \in Broken))
    BY <1>1, <1>5, <2>3, Representative DEF Owed
  <2>5. b.body \notin Broken => q \in silver'
    BY <2>3, <2>4, MergedRows DEF Valid
  <2>6. InSilver(b)'
    BY <2>4, <2>5 DEF InSilver, SameLoad
  <2>7. QED BY <1>12, <2>2, <2>6
<1>13. CASE UpdateWatermark(j) /\ stage[j] = "mark" /\ stage'[j] = "done"
  BY <1>1, <1>5, <1>6, <1>7, <1>8, <1>13 DEF RoutedBy, Routed
<1>14. QED BY <1>2, <1>9, <1>10, <1>11, <1>12, <1>13

(* The watermark, and the excuses, of the rows it passes.                    *)
LEMMA WatermarkTimes ==
    ASSUME LayersInv, WatermarkInv, [Next]_vars
    PROVE  (watermark # NULL => watermark <= clock)'
<1>1. TypeOK /\ clock \in Nat
  BY DEF LayersInv, TypeOK
<1>2. ASSUME NEW j \in Loaders, NEW records \in Ingestions, DateRecords(j, records)
      PROVE  watermark' # NULL => watermark' <= clock'
  <2>1. watermark' = watermark /\ clock' = clock + 1
    BY <1>2 DEF DateRecords
  <2>2. watermark # NULL => watermark \in Nat
    BY <1>1 DEF TypeOK
  <2>3. QED BY <1>1, <2>1, <2>2 DEF WatermarkInv
<1>3. CASE watermark' = watermark /\ clock' = clock
  BY <1>3 DEF WatermarkInv
<1>4. ASSUME NEW j \in Cleaners, UpdateWatermark(j)
      PROVE  watermark' # NULL => watermark' <= clock'
  BY <1>1, <1>4 DEF UpdateWatermark
<1>5. CASE Reset
  BY <1>5 DEF Reset
<1>6. QED
  BY <1>2, <1>3, <1>4, <1>5
  DEF Next, vars, BronzeStep, SilverStep, MergeBronze, RefusedMerge, FindNoBronze,
      CreateBronze, ReadIncremental, WriteQuarantine, MergeSilver, FindNoSilver,
      CreateSilver, Die

(* The watermark stays, or is moved to the present, or is reset.             *)
LEMMA WatermarkMoves ==
    ASSUME [Next]_vars
    PROVE  \/ watermark' = watermark
           \/ Reset /\ watermark' = NULL
           \/ \E j \in Cleaners : UpdateWatermark(j)
BY DEF Next, vars, BronzeStep, SilverStep, DateRecords, MergeBronze, RefusedMerge,
       FindNoBronze, CreateBronze, ReadIncremental, WriteQuarantine, MergeSilver,
       FindNoSilver, CreateSilver, Die, Reset

(* What a Silver job under way has not in its input has been routed.         *)
LEMMA SilverInputs ==
    ASSUME LayersInv, WatermarkInv, [Next]_vars, NEW j \in SilverJobs, UnderWay(j)',
           NEW b \in bronze', Owed(b)'
    PROVE  b \in Input(j)' \/ Routed(b)'
<1>1. TypeOK /\ Dated /\ j \in Jobs /\ j \in Cleaners /\ j \notin Pipelines /\ Owed(b)
  BY ExcusesRemain, JobKinds DEF LayersInv
<1>2. CASE UnderWay(j)
  <2>1. b \in bronze
    <3>1. SUFFICES ASSUME b \notin bronze PROVE FALSE
      OBVIOUS
    <3>2. PICK k \in Loaders : b \in loaded[k] /\ UnderWay(k)
      BY <3>1, NewRows
    <3>3. j # k
      BY <3>2, JobKinds
    <3>4. QED BY <1>1, <1>2, <3>2, <3>3, MetLoader
  <2>2. b \in Input(j) \/ Routed(b)
    BY <1>1, <1>2, <2>1 DEF WatermarkInv
  <2>3. QED BY <1>1, <1>2, <2>1, <2>2, InputIsKept, RoutedRemains
<1>3. CASE ~UnderWay(j)
  <2>1. ReadIncremental(j)
    <3>1. ~Quiet
      BY <1>1, <1>3 DEF Quiet
    <3>2. ASSUME NEW k \in Loaders, NEW records \in Ingestions, DateRecords(k, records)
          PROVE  FALSE
      <4>1. stage'[j] = stage[j]
        BY <1>1, <3>2, Started, JobKinds DEF DateRecords
      <4>2. QED BY <1>3, <4>1 DEF UnderWay, Ended
    <3>3. PICK k \in SilverJobs : ReadIncremental(k)
      BY <1>1, <3>1, <3>2, EveryStep
    <3>4. k = j
      <4>1. k # j => stage'[j] = stage[j]
        BY <1>1, <3>3, Started, JobKinds DEF ReadIncremental
      <4>2. QED BY <1>3, <4>1 DEF UnderWay, Ended
    <3>5. QED BY <3>3, <3>4
  <2>2. /\ bronze' = bronze /\ silver' = silver /\ quarantine' = quarantine
        /\ loaded' = loaded /\ since'[j] = watermark
    BY <1>1, <2>1 DEF ReadIncremental, TypeOK
  <2>3. CASE watermark # NULL /\ b.loadedAt <= watermark
    <3>1. Routed(b)
      BY <1>1, <2>2, <2>3 DEF WatermarkInv, PassedRowsAreRouted, Owed
    <3>2. QED BY <1>1, <2>2, <3>1, RoutedRemains
  <2>4. CASE watermark = NULL \/ ~(b.loadedAt <= watermark)
    <3>1. b.loadedAt \in Nat /\ (watermark # NULL => watermark \in Nat)
      BY <1>1, <2>2, BronzeTimes DEF TypeOK
    <3>2. b \in Input(j)'
      BY <1>1, <2>2, <2>4, <3>1 DEF Input, NewerThan
    <3>3. QED BY <3>2
  <2>5. QED BY <2>3, <2>4
<1>4. QED BY <1>2, <1>3

LEMMA LoadsBeforeTheMark ==
    ASSUME LayersInv, WatermarkInv, [Next]_vars, NEW k \in Loaders, UnderWay(k)',
           watermark' # NULL, NEW r \in loaded'[k], r.loadedAt <= watermark'
    PROVE  \E i \in Cleaners : Overlapped(i, k)'
<1>1. TypeOK /\ Dated /\ Meetings /\ k \in Jobs
  BY JobKinds DEF LayersInv
<1>2. CASE UnderWay(k)
  <2>1. r \in loaded[k]
    BY <1>1, <1>2, Progress DEF UnderWay
  <2>2. CASE watermark' = watermark
    <3>1. \E i \in Cleaners : Overlapped(i, k)
      BY <1>2, <2>1, <2>2 DEF WatermarkInv
    <3>2. QED BY <1>1, <3>1, Progress
  <2>3. CASE \E j \in Cleaners : UpdateWatermark(j)
    <3>1. PICK j \in Cleaners : UpdateWatermark(j)
      BY <2>3
    <3>2. UnderWay(j) /\ stage'[j] = "done"
      BY <1>1, <3>1, Entered, JobKinds DEF UpdateWatermark, UnderWay, Ended
    <3>3. j # k
      BY <3>2 DEF UnderWay, Ended
    <3>4. Overlapped(j, k)
      BY <1>1, <1>2, <3>2, <3>3, JobKinds DEF Meetings
    <3>5. QED BY <1>1, <3>4, Progress
  <2>4. QED BY <2>2, <2>3, WatermarkMoves
<1>3. CASE ~UnderWay(k)
  <2>1. ~Quiet
    BY <1>1, <1>3 DEF Quiet
  <2>2. ASSUME NEW j \in SilverJobs, ReadIncremental(j) PROVE FALSE
    <3>1. stage'[k] = stage[k]
      BY <1>1, <2>2, Started, JobKinds DEF ReadIncremental
    <3>2. QED BY <1>3, <3>1 DEF UnderWay, Ended
  <2>3. PICK j \in Loaders, records \in Ingestions : DateRecords(j, records)
    BY <1>1, <2>1, <2>2, EveryStep
  <2>4. j = k
    <3>1. j # k => stage'[k] = stage[k]
      BY <1>1, <2>3, Started, JobKinds DEF DateRecords
    <3>2. QED BY <1>3, <3>1 DEF UnderWay, Ended
  <2>5. clock \in Nat /\ r.loadedAt = clock + 1
    BY <1>1, <2>3, <2>4, DatedLoad
  <2>6. watermark' = watermark
    BY <2>3 DEF DateRecords
  <2>7. watermark \in Nat /\ watermark <= clock
    BY <1>1, <2>6 DEF TypeOK, WatermarkInv
  <2>8. QED BY <2>5, <2>6, <2>7
<1>4. QED BY <1>2, <1>3

LEMMA PassedStep ==
    ASSUME LayersInv, RoutingInv, WatermarkInv, [Next]_vars
    PROVE  PassedRowsAreRouted'
<1> SUFFICES ASSUME watermark' # NULL, NEW b \in bronze', b.loadedAt <= watermark', Owed(b)'
             PROVE  Routed(b)'
  BY DEF PassedRowsAreRouted, Owed
<1>1. TypeOK /\ Dated /\ Roles /\ Owed(b)
  BY ExcusesRemain DEF LayersInv
<1>2. CASE watermark' = watermark
  <2>1. CASE b \in bronze
    <3>1. Routed(b)
      BY <1>1, <1>2, <2>1 DEF WatermarkInv, PassedRowsAreRouted, Owed
    <3>2. QED BY <1>1, <2>1, <3>1, RoutedRemains
  <2>2. CASE b \notin bronze
    <3>1. PICK k \in Loaders : b \in loaded[k] /\ UnderWay(k)
      BY <2>2, NewRows
    <3>2. \E i \in Cleaners : Overlapped(i, k)
      BY <1>2, <3>1 DEF WatermarkInv
    <3>3. QED BY <1>1, <3>1, <3>2 DEF Owed, LeftBehind
  <2>3. QED BY <2>1, <2>2
<1>3. ASSUME NEW j \in Cleaners, UpdateWatermark(j) PROVE Routed(b)'
  <2>1. /\ UnderWay(j) /\ stage[j] = "mark"
        /\ bronze' = bronze
    BY <1>3 DEF UpdateWatermark, UnderWay, Ended
  <2>2. b \in Input(j) => Routed(b)
    BY <1>1, <2>1 DEF RoutingInv, Routed
  <2>3. Routed(b)
    <3>1. CASE j \in Pipelines
      <4>1. PICK k \in Loaders : b \in loaded[k]
        BY <2>1, BronzeIsLoaded
      <4>2. CASE k = j
        BY <2>2, <3>1, <4>1, <4>2 DEF Input
      <4>3. CASE k # j
        <5>1. k \in Pipelines /\ stage[k] = "done"
          BY <1>1, <2>1, <3>1, <4>1, <4>3, OthersHaveEnded
        <5>2. b \in Input(k) /\ k \in Cleaners
          BY <4>1, <5>1, JobKinds DEF Input
        <5>3. QED BY <1>1, <2>1, <5>1, <5>2 DEF RoutingInv
      <4>4. QED BY <4>2, <4>3
    <3>2. CASE j \notin Pipelines
      <4>1. j \in SilverJobs
        BY <3>2, JobKinds
      <4>2. QED BY <1>1, <2>1, <2>2, <4>1 DEF WatermarkInv
    <3>3. QED BY <3>1, <3>2
  <2>4. QED BY <1>1, <2>1, <2>3, RoutedRemains
<1>4. QED BY <1>2, <1>3, WatermarkMoves

LEMMA WatermarkStep ==
    ASSUME LayersInv, RoutingInv, WatermarkInv, [Next]_vars
    PROVE  WatermarkInv'
<1>1. (watermark # NULL => watermark <= clock)'
  BY WatermarkTimes
<1>2. (\A j \in SilverJobs : UnderWay(j) =>
          \A b \in bronze : Owed(b) => b \in Input(j) \/ Routed(b))'
  BY SilverInputs
<1>3. (\A k \in Loaders : UnderWay(k) /\ watermark # NULL =>
          \A r \in loaded[k] : r.loadedAt <= watermark => \E i \in Cleaners : Overlapped(i, k))'
  BY LoadsBeforeTheMark
<1>4. PassedRowsAreRouted'
  BY PassedStep
<1>5. QED BY <1>1, <1>2, <1>3, <1>4 DEF WatermarkInv

(* The watermark passes no Bronze row by that is in neither table, but for a *)
(* row that is contested or left behind.                                     *)
THEOREM WatermarkIsSafe == Spec => []PassedRowsAreRouted
<1> DEFINE Inv == LayersInv /\ RoutingInv /\ WatermarkInv
<1>1. Init => Inv
  <2>1. Init => bronze = {} /\ watermark = NULL
    BY DEF Init
  <2>2. Init => \A j \in Jobs : ~UnderWay(j)
    BY DEF Init, UnderWay
  <2>3. QED
    BY <2>1, <2>2, LayersInit, JobKinds DEF RoutingInv, WatermarkInv, PassedRowsAreRouted
<1>2. Inv /\ [Next]_vars => Inv'
  BY LayersStep, RoutingStep, WatermarkStep
<1>3. Inv => PassedRowsAreRouted
  BY DEF WatermarkInv
<1>4. QED BY <1>1, <1>2, <1>3, PTL DEF Spec

-----------------------------------------------------------------------------
(* Copies in quarantine.                                                     *)
LEMMA AppendedCopies ==
    ASSUME NEW B, IsABag(B), NEW S, NEW r \in DOMAIN B \cup S
    PROVE  /\ (B (+) SetToBag(S))[r] \in Nat
           /\ r \in DOMAIN B => (B (+) SetToBag(S))[r] <= B[r] + 1
           /\ r \notin S => (B (+) SetToBag(S))[r] = B[r]
           /\ r \notin DOMAIN B => (B (+) SetToBag(S))[r] = 1
<1>1. r \in DOMAIN B => B[r] \in Nat
  BY DEF IsABag
<1>2. (B (+) SetToBag(S))[r] = (IF r \in DOMAIN B THEN B[r] ELSE 0)
                                 + (IF r \in S THEN 1 ELSE 0)
  BY DEF (+), SetToBag
<1>3. QED BY <1>1, <1>2

LEMMA JobSets ==
    ASSUME NEW D \in SUBSET Jobs
    PROVE  IsFiniteSet(D) /\ Cardinality(D) \in Nat
BY FS_Subset, FS_CardinalityType, MedallionAssumption

(* The stages from which a cleaner has come to write quarantine.             *)
Late == {"merge", "createSilver", "mark", "done", "dead"}

LEMMA LateIsLate ==
    ASSUME TypeOK, Roles, [Next]_vars, NEW i \in Cleaners, stage[i] \in Late
    PROVE  stage'[i] \in Late
<1>1. i \in Jobs
  BY JobKinds
<1>2. ASSUME NEW j \in Jobs, NEW step, Enter(j, step), stage[j] \in Late => step \in Late
      PROVE  stage'[i] \in Late
  BY <1>1, <1>2, Entered
<1>3. CASE \E j \in Loaders : BronzeStep(j)
  <2>1. \E j \in Jobs : stage[j] \in Early /\ \E step : Enter(j, step)
    BY <1>3, JobKinds
    DEF BronzeStep, DateRecords, Start, MergeBronze, RefusedMerge, FindNoBronze, CreateBronze, Early
  <2>2. QED BY <1>2, <2>1 DEF Early, Late
<1>4. CASE \E j \in SilverJobs : ReadIncremental(j)
  BY <1>2, <1>4, JobKinds DEF ReadIncremental, Start, Late
<1>5. CASE \E j \in Cleaners : SilverStep(j)
  <2>1. \E j \in Jobs, step \in {"merge", "mark", "createSilver", "done"} : Enter(j, step)
    BY <1>5, JobKinds
    DEF SilverStep, WriteQuarantine, MergeSilver, FindNoSilver, CreateSilver, UpdateWatermark
  <2>2. QED BY <1>2, <2>1 DEF Late
<1>6. CASE \E j \in Jobs : Die(j)
  BY <1>2, <1>6 DEF Die, Late
<1>7. CASE Reset \/ UNCHANGED vars
  BY <1>7 DEF Reset, vars
<1>8. QED BY <1>3, <1>4, <1>5, <1>6, <1>7 DEF Next

(* The allowance never shrinks, and grows with each job that is disturbed    *)
(* and with a reset.                                                         *)
LEMMA AllowanceGrows ==
    ASSUME LayersInv, [Next]_vars
    PROVE  /\ Allowed \in Nat /\ Allowed' \in Nat /\ Allowed <= Allowed'
           /\ \A j \in Disturbed' : j \notin Disturbed => Allowed + 1 <= Allowed'
           /\ Reset => Allowed + 1 <= Allowed'
<1>1. TypeOK /\ Roles /\ Dated /\ resets \in Nat
  BY MedallionAssumption DEF LayersInv, TypeOK
<1>2. resets' = resets \/ (Reset /\ resets' = resets + 1)
  BY DEF Next, vars, BronzeStep, SilverStep, DateRecords, MergeBronze, RefusedMerge,
         FindNoBronze, CreateBronze, ReadIncremental, WriteQuarantine, MergeSilver,
         FindNoSilver, CreateSilver, UpdateWatermark, Die, Reset
<1>3. Reset => resets' = resets + 1
  BY DEF Reset
<1>4. Disturbed \subseteq Disturbed'
  <2>1. SUFFICES ASSUME NEW j \in Disturbed PROVE j \in Disturbed'
    OBVIOUS
  <2>2. j \in Cleaners /\ j \in Jobs /\ stage[j] \in Late
    BY JobKinds DEF Disturbed, Late
  <2>3. stage'[j] \in Late
    BY <1>1, <2>2, LateIsLate
  <2>4. stage'[j] = "dead" \/ \E i \in Cleaners : Overlapped(i, j)'
    BY <1>1, <2>2, EndsAreEnds, Progress DEF Disturbed
  <2>5. QED BY <2>2, <2>3, <2>4 DEF Disturbed, Late
<1>5. Disturbed \in SUBSET Jobs /\ Disturbed' \in SUBSET Jobs
  BY JobKinds DEF Disturbed
<1>6. /\ IsFiniteSet(Disturbed') /\ Cardinality(Disturbed) \in Nat
      /\ Cardinality(Disturbed') \in Nat
  BY <1>5, JobSets
<1>7. /\ Cardinality(Disturbed) <= Cardinality(Disturbed')
      /\ Cardinality(Disturbed') = Cardinality(Disturbed) => Disturbed' = Disturbed
  BY <1>4, <1>6, FS_Subset
<1>8. ASSUME NEW c \in Nat, NEW d \in Nat, c <= d, NEW r \in Nat, NEW s \in Nat,
             s = r \/ s = r + 1
      PROVE  /\ c + r \in Nat /\ d + s \in Nat /\ c + r <= d + s
             /\ c # d => c + r + 1 <= d + s
             /\ s = r + 1 => c + r + 1 <= d + s
  BY <1>8
<1>9. QED
  <2>1. resets' \in Nat /\ (resets' = resets \/ resets' = resets + 1)
    BY <1>1, <1>2
  <2>2. QED BY <1>1, <1>3, <1>6, <1>7, <1>8, <2>1 DEF Allowed

LEMMA Counts ==
    ASSUME LayersInv
    PROVE  /\ IsABag(quarantine)
           /\ \A r \in DOMAIN quarantine : quarantine[r] \in Nat
BY DEF LayersInv, TypeOK, IsABag

LEMMA Bounds ==
    ASSUME NEW n \in Nat, NEW a \in Nat, NEW b \in Nat, a <= b
    PROVE  /\ n <= a => n <= b
           /\ n <= 1 + a => n <= 1 + b
           /\ n <= 1 + a /\ a + 1 <= b => n <= b
           /\ n <= a => n + 1 <= 1 + b
           /\ n <= a /\ a + 1 <= b => n + 1 <= b
           /\ n <= 1 + a /\ a + 1 <= b => n + 1 <= 1 + b
OBVIOUS

(* A step that leaves quarantine alone.                                      *)
LEMMA SameQuarantine ==
    ASSUME LayersInv, CopiesNeedDisruption, [Next]_vars, quarantine' = quarantine
    PROVE  /\ CopiesNeedDisruption'
           /\ \A r : Within(r) => Within(r)'
           /\ Allowed + 1 <= Allowed' => \A r : Within(r)'
<1>1. Allowed \in Nat /\ Allowed' \in Nat /\ Allowed <= Allowed'
  BY AllowanceGrows
<1>2. \A r \in DOMAIN quarantine : quarantine[r] \in Nat /\ quarantine[r] <= 1 + Allowed
  <2>1. \A r \in DOMAIN quarantine : quarantine[r] <= 1 + Cardinality(Disturbed) + resets
    BY DEF CopiesNeedDisruption
  <2>2. Cardinality(Disturbed) \in Nat /\ resets \in Nat
    BY JobSets, JobKinds, MedallionAssumption DEF Disturbed, LayersInv, TypeOK
  <2>3. 1 + Cardinality(Disturbed) + resets = 1 + Allowed
    BY <2>2 DEF Allowed
  <2>4. QED BY <2>1, <2>3, Counts
<1>3. \A r \in DOMAIN quarantine' : quarantine'[r] <= 1 + Allowed'
  BY <1>1, <1>2, Bounds
<1>4. CopiesNeedDisruption'
  <2>1. Cardinality(Disturbed') \in Nat /\ resets' \in Nat
    BY JobSets, JobKinds, MedallionAssumption, TypeStep DEF Disturbed, LayersInv, TypeOK
  <2>2. 1 + Cardinality(Disturbed') + resets' = 1 + Allowed'
    BY <2>1 DEF Allowed
  <2>3. QED BY <1>3, <2>2 DEF CopiesNeedDisruption
<1>5. QED BY <1>1, <1>2, <1>4, Bounds DEF Within

(* A row of a load that is not written yet is not in quarantine.             *)
LEMMA FreshRows ==
    ASSUME LayersInv, NEW k \in Loaders, CommitBronze(k), NEW r \in loaded[k]
    PROVE  r \notin DOMAIN quarantine
<1>1. stage[k] \in {"load", "createBronze"}
  BY DEF CommitBronze, MergeBronze, CreateBronze
<1>2. QED BY <1>1 DEF LayersInv, Provenance, Dated

LEMMA NewRowsAreFresh ==
    ASSUME LayersInv, [Next]_vars, NEW r \in bronze', r \notin bronze
    PROVE  r \notin DOMAIN quarantine
<1>1. PICK k \in Loaders : r \in loaded[k] /\ CommitBronze(k)
  BY NewRows
<1>2. QED BY <1>1, FreshRows

LEMMA SplitStep ==
    ASSUME TypeOK, [Next]_vars, NEW i \in Cleaners, stage'[i] = "split"
    PROVE  \/ stage[i] = "split"
           \/ i \in SilverJobs /\ ReadIncremental(i)
           \/ i \in Pipelines /\ CommitBronze(i)
<1>1. i \in Jobs
  BY JobKinds
<1>2. ASSUME NEW j \in Jobs, NEW step, Enter(j, step), j = i => step # "split"
      PROVE  stage[i] = "split"
  BY <1>1, <1>2, Entered
<1>3. CASE \E j \in Loaders : BronzeStep(j)
  <2>1. PICK j \in Loaders : BronzeStep(j)
    BY <1>3
  <2>2. CASE CommitBronze(j)
    <3>1. j # i => stage[i] = "split"
      BY <1>1, <2>2, BronzeCommits
    <3>2. j = i => i \in Pipelines
      BY <1>1, JobKinds
    <3>3. QED BY <2>2, <3>1, <3>2
  <2>3. CASE ~CommitBronze(j)
    <3>1. \E step \in {"load", "createBronze", "dead"} : Enter(j, step)
      BY <2>1, <2>3
      DEF BronzeStep, CommitBronze, DateRecords, Start, RefusedMerge, FindNoBronze
    <3>2. QED BY <1>2, <3>1, JobKinds
  <2>4. QED BY <2>2, <2>3
<1>4. CASE \E j \in SilverJobs : ReadIncremental(j)
  <2>1. PICK j \in SilverJobs : ReadIncremental(j)
    BY <1>4
  <2>2. j # i => stage[i] = "split"
    BY <1>2, <2>1, JobKinds DEF ReadIncremental, Start
  <2>3. QED BY <2>1, <2>2
<1>5. CASE \E j \in Cleaners : SilverStep(j)
  <2>1. \E j \in Jobs, step \in {"merge", "mark", "createSilver", "done"} : Enter(j, step)
    BY <1>5, JobKinds
    DEF SilverStep, WriteQuarantine, MergeSilver, FindNoSilver, CreateSilver, UpdateWatermark
  <2>2. QED BY <1>2, <2>1
<1>6. CASE \E j \in Jobs : Die(j)
  BY <1>2, <1>6 DEF Die
<1>7. CASE Reset \/ UNCHANGED vars
  BY <1>7 DEF Reset, vars
<1>8. QED BY <1>3, <1>4, <1>5, <1>6, <1>7 DEF Next

LEMMA StaysUndisturbed ==
    ASSUME LayersInv, [Next]_vars, NEW i \in Cleaners, Undisturbed(i)'
    PROVE  Undisturbed(i)
BY Progress DEF LayersInv, Undisturbed

(* The rows of a job that is alone, and that has still to write quarantine.  *)
LEMMA InputsWithin ==
    ASSUME LayersInv, CopiesInv, [Next]_vars, quarantine' = quarantine,
           NEW i \in Cleaners, stage'[i] = "split", Undisturbed(i)', NEW r \in Input(i)'
    PROVE  Within(r)'
<1>1. TypeOK /\ Dated /\ i \in Jobs /\ Undisturbed(i)
  BY StaysUndisturbed, JobKinds DEF LayersInv
<1>2. Within(r) => Within(r)'
  BY SameQuarantine DEF CopiesInv
<1>3. r \notin DOMAIN quarantine => Within(r)'
  BY DEF Within
<1>4. CASE stage[i] = "split"
  <2>1. UnderWay(i)
    BY <1>4 DEF UnderWay, Ended
  <2>2. loaded'[i] = loaded[i] /\ since'[i] = since[i]
    BY <2>1, InputIsKept
  <2>3. CASE r \in Input(i)
    BY <1>1, <1>2, <1>4, <2>3 DEF CopiesInv
  <2>4. CASE r \notin Input(i)
    <3>1. r \in bronze' /\ r \notin bronze
      BY <2>2, <2>4 DEF Input, NewerThan
    <3>2. QED BY <1>3, <3>1, NewRowsAreFresh
  <2>5. QED BY <2>3, <2>4
<1>5. CASE i \in Pipelines /\ CommitBronze(i)
  <2>1. i \in Loaders /\ r \in loaded[i]
    BY <1>1, <1>5, BronzeCommits, JobKinds DEF Input
  <2>2. QED BY <1>3, <1>5, <2>1, FreshRows
<1>6. CASE i \in SilverJobs /\ ReadIncremental(i)
  <2>1. bronze' = bronze /\ since'[i] = watermark /\ i \notin Pipelines
    BY <1>1, <1>6, JobKinds DEF ReadIncremental, TypeOK
  <2>2. r \in NewerThan(watermark)
    BY <2>1 DEF Input, NewerThan
  <2>3. ASSUME NEW j \in Cleaners, Holding(j), Undisturbed(j) PROVE FALSE
    <3>1. UnderWay(j) /\ j \in Jobs
      BY <2>3, JobKinds DEF Holding, UnderWay, Ended
    <3>2. Overlapped(j, i)'
      BY <1>1, <1>6, <3>1, Started DEF ReadIncremental
    <3>3. QED BY <3>2 DEF Undisturbed
  <2>4. Within(r)
    BY <2>2, <2>3 DEF CopiesInv
  <2>5. QED BY <1>2, <2>4
<1>7. QED BY <1>1, <1>4, <1>5, <1>6, SplitStep

(* The rows that the next job will read.                                     *)
LEMMA NextInputWithin ==
    ASSUME LayersInv, CopiesInv, [Next]_vars, quarantine' = quarantine
    PROVE  \/ \E j \in Cleaners : Holding(j)' /\ Undisturbed(j)'
           \/ \A r \in NewerThan(watermark)' : Within(r)'
<1>1. TypeOK /\ Dated /\ Roles
  BY DEF LayersInv
<1>2. \A r : Within(r) => Within(r)'
  BY SameQuarantine DEF CopiesInv
<1>3. Allowed + 1 <= Allowed' => \A r : Within(r)'
  BY SameQuarantine DEF CopiesInv
<1>4. CASE Reset
  BY <1>3, <1>4, AllowanceGrows
<1>5. ASSUME NEW k \in Cleaners, UpdateWatermark(k)
      PROVE  NewerThan(watermark)' = {}
  <2>1. watermark' = clock /\ bronze' = bronze /\ clock \in Nat /\ clock # NULL
    BY <1>1, <1>5, MedallionAssumption DEF UpdateWatermark, TypeOK
  <2>2. \A b \in bronze : b.loadedAt \in Nat /\ b.loadedAt <= clock
    <3>1. \A b \in bronze : \E m \in Loaders : b \in loaded[m]
      BY BronzeIsLoaded
    <3>2. QED BY <1>1, <3>1, BronzeTimes DEF Dated
  <2>3. \A b \in bronze : ~(b.loadedAt > clock)
    BY <2>1, <2>2
  <2>4. QED BY <2>1, <2>3 DEF NewerThan
<1>6. CASE watermark' = watermark /\ \A k \in Cleaners : ~UpdateWatermark(k)
  <2>1. CASE \A r \in NewerThan(watermark) : Within(r)
    <3>1. SUFFICES ASSUME NEW r \in NewerThan(watermark)' PROVE Within(r)'
      OBVIOUS
    <3>2. CASE r \in bronze
      <4>1. r \in NewerThan(watermark)
        BY <1>6, <3>2 DEF NewerThan
      <4>2. QED BY <1>2, <2>1, <4>1
    <3>3. CASE r \notin bronze
      <4>1. r \in bronze'
        BY DEF NewerThan
      <4>2. r \notin DOMAIN quarantine
        BY <3>3, <4>1, NewRowsAreFresh
      <4>3. QED BY <4>2 DEF Within
    <3>4. QED BY <3>2, <3>3
  <2>2. CASE \E j \in Cleaners : Holding(j) /\ Undisturbed(j)
    <3>1. PICK j \in Cleaners : Holding(j) /\ Undisturbed(j)
      BY <2>2
    <3>2. j \in Jobs /\ stage[j] \in Late /\ stage[j] # "dead" /\ stage[j] # "done"
      BY <3>1, JobKinds DEF Holding, Late
    <3>3. stage'[j] \in Late /\ j \notin Disturbed
      BY <1>1, <3>1, <3>2, LateIsLate DEF Disturbed, Undisturbed
    <3>4. CASE j \in Disturbed'
      BY <1>3, <3>3, <3>4, AllowanceGrows
    <3>5. CASE j \notin Disturbed'
      <4>1. stage'[j] # "dead" /\ Undisturbed(j)'
        BY <3>3, <3>5 DEF Disturbed, Undisturbed, Late
      <4>2. stage'[j] # "done"
        BY <1>1, <1>6, <3>2, CleanerStep
      <4>3. Holding(j)'
        BY <3>3, <4>1, <4>2 DEF Late, Holding
      <4>4. QED BY <4>1, <4>3
    <3>6. QED BY <3>4, <3>5
  <2>3. QED BY <2>1, <2>2 DEF CopiesInv
<1>7. QED BY <1>4, <1>5, <1>6, WatermarkMoves

(* The append: a job that is alone adds a first copy, or one that has been   *)
(* paid for; one that is not alone becomes disturbed by it.                  *)
LEMMA AppendWithin ==
    ASSUME LayersInv, CopiesInv, [Next]_vars, NEW j \in Cleaners, WriteQuarantine(j)
    PROVE  CopiesInv'
<1>1. TypeOK /\ Dated /\ Roles /\ j \in Jobs
  BY JobKinds DEF LayersInv
<1>2. PICK d \in Deduplicated(Input(j)) :
          quarantine' = quarantine (+) SetToBag(Failed(d))
  BY DEF WriteQuarantine
<1>3. Failed(d) \subseteq Input(j)
  BY DeduplicatedRows DEF Failed
<1>4. /\ stage[j] = "split" /\ stage'[j] = "merge" /\ UnderWay(j)
      /\ \A i \in Jobs : i # j => stage'[i] = stage[i]
      /\ bronze' = bronze /\ watermark' = watermark /\ met' = met
  BY <1>1, Entered DEF WriteQuarantine, UnderWay, Ended
<1>5. Allowed \in Nat /\ Allowed' \in Nat /\ Allowed <= Allowed'
  BY AllowanceGrows
<1>6. ~Undisturbed(j) => Allowed + 1 <= Allowed'
  <2>1. j \notin Disturbed
    BY <1>4 DEF Disturbed
  <2>2. ~Undisturbed(j) => j \in Disturbed'
    BY <1>4 DEF Undisturbed, Disturbed, Overlapped
  <2>3. QED BY <2>1, <2>2, AllowanceGrows
<1>7. \A r \in DOMAIN quarantine : quarantine[r] \in Nat /\ quarantine[r] <= 1 + Allowed
  <2>1. Cardinality(Disturbed) \in Nat /\ resets \in Nat
    BY JobSets, JobKinds, MedallionAssumption DEF Disturbed, LayersInv, TypeOK
  <2>2. 1 + Cardinality(Disturbed) + resets = 1 + Allowed
    BY <2>1 DEF Allowed
  <2>3. QED BY <2>2, Counts DEF CopiesInv, CopiesNeedDisruption
<1>8. /\ DOMAIN quarantine' = DOMAIN quarantine \cup Failed(d)
      /\ \A r \in DOMAIN quarantine' :
            /\ quarantine'[r] \in Nat
            /\ r \in DOMAIN quarantine => quarantine'[r] <= quarantine[r] + 1
            /\ r \notin Failed(d) => quarantine'[r] = quarantine[r]
            /\ r \notin DOMAIN quarantine => quarantine'[r] = 1
  <2>1. IsABag(quarantine)
    BY Counts
  <2>2. DOMAIN quarantine' = DOMAIN quarantine \cup Failed(d)
    BY <1>2, <2>1, Appended
  <2>3. SUFFICES ASSUME NEW r \in DOMAIN quarantine \cup Failed(d)
                 PROVE  /\ quarantine'[r] \in Nat
                        /\ r \in DOMAIN quarantine => quarantine'[r] <= quarantine[r] + 1
                        /\ r \notin Failed(d) => quarantine'[r] = quarantine[r]
                        /\ r \notin DOMAIN quarantine => quarantine'[r] = 1
    BY <2>2
  <2>4. QED BY ONLY <1>2, <2>1, AppendedCopies
<1>9. Undisturbed(j) => \A r \in Failed(d) : Within(r)
  BY <1>3, <1>4 DEF CopiesInv
<1>10. ASSUME NEW n \in Nat, NEW m \in Nat, n <= m + 1, NEW a \in Nat, NEW b \in Nat, a <= b
       PROVE  /\ m <= a => n <= 1 + b
              /\ m <= 1 + a /\ a + 1 <= b => n <= 1 + b
              /\ m <= a /\ a + 1 <= b => n <= b
  BY <1>10
<1>11. \A r \in DOMAIN quarantine' : quarantine'[r] <= 1 + Allowed'
  <2>1. SUFFICES ASSUME NEW r \in DOMAIN quarantine' PROVE quarantine'[r] <= 1 + Allowed'
    OBVIOUS
  <2>2. CASE r \notin DOMAIN quarantine
    BY <1>5, <1>8, <2>2
  <2>3. CASE r \in DOMAIN quarantine /\ r \notin Failed(d)
    <3>1. quarantine'[r] = quarantine[r]
      BY <1>8, <2>3
    <3>2. QED BY <1>5, <1>7, <2>3, <3>1, Bounds
  <2>4. CASE r \in DOMAIN quarantine /\ r \in Failed(d)
    <3>1. quarantine'[r] <= quarantine[r] + 1 /\ quarantine'[r] \in Nat /\ quarantine[r] \in Nat
      BY <1>7, <1>8, <2>4
    <3>2. CASE Undisturbed(j)
      <4>1. quarantine[r] <= Allowed
        BY <1>9, <2>4, <3>2 DEF Within
      <4>2. QED BY <1>5, <1>10, <3>1, <4>1
    <3>3. CASE ~Undisturbed(j)
      <4>1. quarantine[r] <= 1 + Allowed /\ Allowed + 1 <= Allowed'
        BY <1>6, <1>7, <2>4, <3>3
      <4>2. QED BY <1>5, <1>10, <3>1, <4>1
    <3>4. QED BY <3>2, <3>3
  <2>5. QED BY <2>2, <2>3, <2>4
<1>12. CopiesNeedDisruption'
  <2>1. Cardinality(Disturbed') \in Nat /\ resets' \in Nat
    BY JobSets, JobKinds, MedallionAssumption, TypeStep DEF Disturbed, LayersInv, TypeOK
  <2>2. 1 + Cardinality(Disturbed') + resets' = 1 + Allowed'
    BY <2>1 DEF Allowed
  <2>3. QED BY <1>11, <2>2 DEF CopiesNeedDisruption
<1>13. ASSUME NEW i \in Cleaners, stage'[i] = "split", Undisturbed(i)' PROVE FALSE
  <2>1. i # j /\ UnderWay(i) /\ i \in Jobs
    BY <1>4, <1>13, JobKinds DEF UnderWay, Ended
  <2>2. Overlapped(j, i)
    BY <1>1, <1>4, <2>1 DEF LayersInv, Meetings
  <2>3. QED BY <1>13, <2>2, StaysUndisturbed DEF Undisturbed
<1>14. \/ \E i \in Cleaners : Holding(i)' /\ Undisturbed(i)'
       \/ \A r \in NewerThan(watermark)' : Within(r)'
  <2>1. CASE Undisturbed(j)
    <3>1. Undisturbed(j)' /\ Holding(j)'
      BY <1>4, <2>1 DEF Undisturbed, Overlapped, Holding
    <3>2. QED BY <3>1
  <2>2. CASE ~Undisturbed(j)
    <3>1. ASSUME NEW i \in Cleaners, Holding(i), Undisturbed(i) PROVE FALSE
      <4>1. i # j /\ UnderWay(i) /\ i \in Jobs
        BY <1>4, <3>1, JobKinds DEF UnderWay, Ended, Holding
      <4>2. Overlapped(j, i)
        BY <1>1, <1>4, <4>1 DEF LayersInv, Meetings
      <4>3. QED BY <3>1, <4>2 DEF Undisturbed
    <3>2. \A r \in NewerThan(watermark) : Within(r)
      BY <3>1 DEF CopiesInv
    <3>3. SUFFICES ASSUME NEW r \in NewerThan(watermark)', r \in DOMAIN quarantine'
                   PROVE  quarantine'[r] <= Allowed'
      BY DEF Within
    <3>4. r \in NewerThan(watermark)
      BY <1>4 DEF NewerThan
    <3>5. Allowed + 1 <= Allowed'
      BY <1>6, <2>2
    <3>6. CASE r \notin DOMAIN quarantine
      BY <1>5, <1>8, <3>3, <3>5, <3>6
    <3>7. CASE r \in DOMAIN quarantine
      <4>1. quarantine'[r] <= quarantine[r] + 1 /\ quarantine'[r] \in Nat /\ quarantine[r] \in Nat
        BY <1>7, <1>8, <3>3, <3>7
      <4>2. quarantine[r] <= Allowed
        BY <3>2, <3>4, <3>7 DEF Within
      <4>3. QED BY <1>5, <1>10, <3>5, <4>1, <4>2
    <3>8. QED BY <3>6, <3>7
  <2>3. QED BY <2>1, <2>2
<1>15. QED BY <1>12, <1>13, <1>14 DEF CopiesInv

LEMMA CopiesStep == LayersInv /\ CopiesInv /\ [Next]_vars => CopiesInv'
<1> SUFFICES ASSUME LayersInv, CopiesInv, [Next]_vars PROVE CopiesInv'
  OBVIOUS
<1>1. CASE \E j \in Cleaners : WriteQuarantine(j)
  BY <1>1, AppendWithin
<1>2. CASE \A j \in Cleaners : ~WriteQuarantine(j)
  <2>1. quarantine' = quarantine
    BY <1>2
    DEF Next, vars, BronzeStep, SilverStep, DateRecords, MergeBronze, RefusedMerge,
        FindNoBronze, CreateBronze, ReadIncremental, MergeSilver, FindNoSilver,
        CreateSilver, UpdateWatermark, Die, Reset
  <2>2. CopiesNeedDisruption'
    BY <2>1, SameQuarantine DEF CopiesInv
  <2>3. (\A j \in Cleaners : stage[j] = "split" /\ Undisturbed(j) =>
            \A r \in Input(j) : Within(r))'
    BY <2>1, InputsWithin
  <2>4. \/ \E j \in Cleaners : Holding(j)' /\ Undisturbed(j)'
        \/ \A r \in NewerThan(watermark)' : Within(r)'
    BY <2>1, NextInputWithin
  <2>5. QED BY <2>2, <2>3, <2>4 DEF CopiesInv
<1>3. QED BY <1>1, <1>2

(* Each further copy of a reading in quarantine is paid for by a job that    *)
(* died or overlapped another, or by a reset.                                *)
THEOREM CopiesArePaidFor == Spec => []CopiesNeedDisruption
<1>1. Init => LayersInv /\ CopiesInv
  <2>1. SUFFICES ASSUME Init PROVE CopiesInv
    BY LayersInit
  <2>2. DOMAIN quarantine = {} /\ bronze = {} /\ \A j \in Cleaners : stage[j] = "new"
    BY <2>1, EmptyBagIsEmpty, JobKinds DEF Init
  <2>3. CopiesNeedDisruption
    BY <2>2 DEF CopiesNeedDisruption
  <2>4. QED BY <2>2, <2>3 DEF CopiesInv, NewerThan
<1>2. LayersInv /\ CopiesInv /\ [Next]_vars => (LayersInv /\ CopiesInv)'
  BY LayersStep, CopiesStep
<1>3. CopiesInv => CopiesNeedDisruption
  BY DEF CopiesInv
<1>4. QED BY <1>1, <1>2, <1>3, PTL DEF Spec
=============================================================================
