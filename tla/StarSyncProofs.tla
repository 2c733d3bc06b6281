---------------------------- MODULE StarSyncProofs ----------------------------
(***************************************************************************)
(* Theorems about StarSync, for any cities, attributes, codes and batches,   *)
(* on a lake that persists and on new machines alike.  They rest on the      *)
(* inductive invariant of CityDim: what a run does to dim_city is a step of  *)
(* that module, and a new machine begins with the table of its first state.  *)
(***************************************************************************)
EXTENDS StarSync, TLAPS

Dim == INSTANCE CityDimProofs

-----------------------------------------------------------------------------
(* The two instances of CityDim say the same.                                *)
LEMMA SameTypes == City!TypeOK <=> Dim!TypeOK
BY DEF City!TypeOK, Dim!TypeOK, City!Version, Dim!Version, City!SourceRow, Dim!SourceRow

LEMMA SameApply ==
    ASSUME NEW rows, City!ApplySCD2(rows)
    PROVE  Dim!ApplySCD2(rows)
BY DEF City!ApplySCD2, Dim!ApplySCD2, City!Initialize, Dim!Initialize,
       City!DetectChanges, Dim!DetectChanges, City!StartRun, Dim!StartRun,
       City!OneRowPerCity, Dim!OneRowPerCity, City!NewVersion, Dim!NewVersion,
       City!Changes, Dim!Changes, City!Joined, Dim!Joined, City!Current, Dim!Current,
       City!Unmatched, Dim!Unmatched

LEMMA SameExpire == City!Expire => Dim!Expire
BY DEF City!Expire, Dim!Expire, City!Ambiguous, Dim!Ambiguous, City!ChangedCities,
       Dim!ChangedCities, City!Changes, Dim!Changes, City!Joined, Dim!Joined,
       City!Current, Dim!Current, City!Unmatched, Dim!Unmatched

LEMMA SameAppend == City!Append => Dim!Append
BY DEF City!Append, Dim!Append, City!NewVersion, Dim!NewVersion, City!Changes,
       Dim!Changes, City!Joined, Dim!Joined, City!Current, Dim!Current,
       City!Unmatched, Dim!Unmatched

LEMMA SameCrash == City!Crash => Dim!Crash
BY DEF City!Crash, Dim!Crash

LEMMA SameRefuse == City!RefuseMerge => Dim!RefuseMerge
BY DEF City!RefuseMerge, Dim!RefuseMerge, City!Ambiguous, Dim!Ambiguous, City!ChangedCities,
       Dim!ChangedCities, City!Changes, Dim!Changes, City!Joined, Dim!Joined,
       City!Current, Dim!Current, City!Unmatched, Dim!Unmatched

LEMMA SameInit == City!Init => Dim!Init
BY DEF City!Init, Dim!Init

LEMMA SameAssumption == Dim!CityDimAssumption
BY CityAssumption DEF City!CityDimAssumption, Dim!CityDimAssumption, City!Version,
   Dim!Version, City!SourceRow, Dim!SourceRow

-----------------------------------------------------------------------------
(* The inductive invariant.  In PostgreSQL as in the lake a key names one    *)
(* version; the transaction on dim_city has upserted what is not in todo and *)
(* drops no key; once it has committed, PostgreSQL has every row of the      *)
(* lake; and a fact is older than the run until the run has stored its own.  *)
KeysUnique(table) == \A v, w \in table : Key(v) = Key(w) => v = w

(* A table that holds versions of the lake, perhaps with an older flag.      *)
Lagging(table) == \A p \in table : \E v \in dim : Key(v) = Key(p) /\ (p.current \/ p = v)

Running == phase \in {"scd2", "dims", "facts"}

RunInv ==
    /\ Running => clock >= 1 /\ source = SourceRows(silver)
    /\ phase \in {"dims", "facts"} => stage = "done"
    /\ phase = "facts" => dim \subseteq pgDim

TxInv ==
    phase = "dims" =>
        /\ todo \subseteq dim
        /\ KeysUnique(txDim)
        /\ dim \ todo \subseteq txDim
        /\ \A p \in pgDim : \E v \in txDim : Key(v) = Key(p)

LagInv == ~Ephemeral => Lagging(pgDim) /\ (phase = "dims" => Lagging(txDim))

FactDates ==
    \A f \in pgObs : f.at <= clock /\ (Running => f.at < clock)

StarInv ==
    /\ TypeOK
    /\ Dim!IInv
    /\ Dim!IdentityIsKey
    /\ KeysUnique(pgDim)
    /\ RunInv
    /\ TxInv
    /\ LagInv
    /\ FactDates
    /\ FactsResolve
    /\ DimSyncedBeforeFacts

(* What the actions do to dim_city.                                          *)
CityVarsStep == [Dim!Next]_(Dim!vars)

LEMMA CitySteps ==
    ASSUME \/ \E readings \in Silvers : StartRun(readings)
           \/ CityStep
           \/ Crash
           \/ UNCHANGED cityVars
    PROVE  CityVarsStep
<1>1. ASSUME NEW readings \in Silvers, StartRun(readings) PROVE CityVarsStep
  <2>1. SourceRows(readings) \in Batches
    BY StarSyncAssumption
  <2>2. Dim!ApplySCD2(SourceRows(readings))
    BY <1>1, SameApply DEF StartRun
  <2>3. QED BY <2>1, <2>2 DEF CityVarsStep, Dim!Next
<1>2. CASE CityStep
  BY <1>2, SameExpire, SameAppend DEF CityStep, CityVarsStep, Dim!Next
<1>3. CASE UNCHANGED cityVars
  BY <1>3 DEF cityVars, CityVarsStep, Dim!vars
<1>4. CASE Crash
  BY <1>3, <1>4, SameCrash DEF Crash, CityVarsStep, Dim!Next
<1>5. QED BY <1>1, <1>2, <1>3, <1>4

LEMMA CityStepKeeps ==
    ASSUME StarInv, CityVarsStep
    PROVE  /\ Dim!IInv' /\ Dim!IdentityIsKey' /\ Dim!TypeOK'
           /\ \A r \in dim : \E s \in dim' : Key(s) = Key(r) /\ (r.current \/ s = r)
<1>1. Dim!IInv /\ Dim!TableInv /\ Dim!IdentityIsKey /\ [Dim!Next]_(Dim!vars)
  BY DEF StarInv, Dim!IInv, CityVarsStep
<1>2. Dim!IInv'
  BY <1>1, SameAssumption, Dim!InductiveInv
<1>3. Dim!IdentityIsKey'
  BY <1>1, SameAssumption, Dim!StepKeepsKeys
<1>4. \A r \in dim : \E s \in dim' :
         Dim!Identity(s) = Dim!Identity(r) /\ (r.current \/ s = r)
  BY <1>1, SameAssumption, Dim!StepKeepsVersions
<1>5. Dim!TypeOK'
  BY <1>2 DEF Dim!IInv, Dim!TableInv
<1>6. QED
  BY <1>2, <1>3, <1>4, <1>5 DEF Key, City!Identity, Dim!Identity

LEMMA SameTypesNext == City!TypeOK' <=> Dim!TypeOK'
BY DEF City!TypeOK, Dim!TypeOK, City!Version, Dim!Version, City!SourceRow, Dim!SourceRow

(* A table that lags behind the lake still does after a step on the lake.    *)
LEMMA StillLagging ==
    ASSUME NEW table, Lagging(table),
           \A r \in dim : \E s \in dim' : Key(s) = Key(r) /\ (r.current \/ s = r)
    PROVE  \A p \in table : \E v \in dim' : Key(v) = Key(p) /\ (p.current \/ p = v)
<1> TAKE p \in table
<1>1. PICK r \in dim : Key(r) = Key(p) /\ (p.current \/ p = r)
  BY DEF Lagging
<1>2. PICK s \in dim' : Key(s) = Key(r) /\ (r.current \/ s = r)
  OBVIOUS
<1>3. QED BY <1>1, <1>2

(* What a reading becomes: a fact of its city, of the run or of the one      *)
(* before, with the key of a current version of the city or none.            *)
LEMMA ResolvedRows ==
    ASSUME TypeOK, clock >= 1, silver \subseteq Reading, NEW f \in FactRows
    PROVE  /\ f \in Fact
           /\ f.at <= clock
           /\ f.sk # NULL => \E v \in dim : v.city = f.city /\ f.sk = Key(v)
<1>1. PICK r \in silver : f \in Resolved(r)
  BY DEF FactRows
<1>2. PICK k \in {NULL} \cup {Key(v) : v \in {w \in City!Current : w.city = r.city}} :
         f = [city |-> r.city, at |-> clock - r.age, sk |-> k, code |-> r.code]
  BY <1>1 DEF Resolved
<1>3. r.city \in Cities /\ r.age \in {0, 1} /\ r.code \in Codes
  BY DEF Reading
<1>4. clock - r.age \in Nat /\ clock - r.age <= clock
  BY <1>3 DEF TypeOK, City!TypeOK
<1>5. ASSUME k # NULL
      PROVE  k \in VersionKey /\ \E v \in dim : v.city = r.city /\ k = Key(v)
  <2>1. PICK v \in dim : v.city = r.city /\ k = Key(v)
    BY <1>5 DEF City!Current
  <2>2. v \in City!Version
    BY DEF TypeOK, City!TypeOK
  <2>3. Key(v) \in VersionKey
    BY <2>2 DEF City!Version, Key, City!Identity, VersionKey
  <2>4. QED BY <2>1, <2>3
<1>6. f \in Fact
  BY <1>2, <1>3, <1>4, <1>5 DEF Fact
<1>7. f.city = r.city /\ f.sk = k /\ f.at = clock - r.age
  BY <1>2
<1>8. QED BY <1>4, <1>5, <1>6, <1>7

LEMMA TypeStart ==
    ASSUME StarInv, NEW readings \in Silvers, StartRun(readings)
    PROVE  TypeOK'
<1>1. City!TypeOK'
  BY CitySteps, CityStepKeeps, SameTypesNext
<1>2. readings \subseteq Reading
  BY StarSyncAssumption
<1>3. QED
  BY <1>1, <1>2 DEF StartRun, StarInv, TypeOK, City!Version

-----------------------------------------------------------------------------
(* The invariant, action by action.                                          *)
LEMMA StarInit == Init => StarInv
<1> SUFFICES ASSUME Init PROVE StarInv
  OBVIOUS
<1>1. /\ dim = {} /\ pgDim = {} /\ pgObs = {} /\ silver = {} /\ lakeObs = {}
      /\ txDim = {} /\ todo = {} /\ phase = "idle"
  BY DEF Init, City!Init
<1>2. Dim!IInv
  BY SameAssumption, SameInit, Dim!InitInv DEF Init
<1>3. City!TypeOK
  BY <1>2, SameTypes DEF Dim!IInv, Dim!TableInv
<1>4. TypeOK
  BY <1>1, <1>3 DEF TypeOK
<1>5. Dim!IdentityIsKey /\ KeysUnique(pgDim) /\ Lagging(pgDim) /\ FactDates /\ FactsResolve
  BY <1>1 DEF Dim!IdentityIsKey, KeysUnique, Lagging, FactDates, FactsResolve
<1>6. RunInv /\ TxInv /\ LagInv /\ DimSyncedBeforeFacts
  BY <1>1, <1>5 DEF RunInv, Running, TxInv, LagInv, DimSyncedBeforeFacts
<1>7. QED BY <1>2, <1>4, <1>5, <1>6 DEF StarInv

LEMMA StartKeepsInv ==
    ASSUME StarInv, NEW readings \in Silvers, StartRun(readings)
    PROVE  StarInv'
<1>1. /\ Dim!IInv' /\ Dim!IdentityIsKey'
      /\ \A r \in dim : \E s \in dim' : Key(s) = Key(r) /\ (r.current \/ s = r)
  BY CitySteps, CityStepKeeps
<1>2. TypeOK'
  BY TypeStart
<1>3. /\ pgDim' = pgDim /\ pgObs' = pgObs /\ phase' = "scd2" /\ silver' = readings
      /\ City!ApplySCD2(SourceRows(readings))
  BY DEF StartRun
<1>4. clock' = clock + 1 /\ source' = SourceRows(readings) /\ clock \in Nat
  BY <1>3 DEF City!ApplySCD2, City!Initialize, City!DetectChanges, City!StartRun,
              StarInv, TypeOK, City!TypeOK
<1>5. KeysUnique(pgDim)' /\ FactsResolve' /\ TxInv'
  BY <1>3 DEF StarInv, KeysUnique, FactsResolve, TxInv, Key, City!Identity
<1>6. RunInv'
  BY <1>3, <1>4 DEF RunInv, Running, SourceRows
<1>7. LagInv'
  BY <1>1, <1>3, StillLagging DEF StarInv, LagInv, Lagging, Key, City!Identity
<1>8. FactDates'
  <2>1. \A f \in pgObs : f.at <= clock /\ f.at \in Nat
    BY DEF StarInv, FactDates, TypeOK, Fact
  <2>2. QED BY <1>3, <1>4, <2>1 DEF FactDates
<1>9. DimSyncedBeforeFacts'
  BY <1>3 DEF DimSyncedBeforeFacts
<1>10. QED BY <1>1, <1>2, <1>5, <1>6, <1>7, <1>8, <1>9 DEF StarInv

LEMMA CityStepKeepsInv ==
    ASSUME StarInv, CityStep
    PROVE  StarInv'
<1>1. /\ Dim!IInv' /\ Dim!IdentityIsKey'
      /\ \A r \in dim : \E s \in dim' : Key(s) = Key(r) /\ (r.current \/ s = r)
  BY CitySteps, CityStepKeeps
<1>2. /\ phase = "scd2" /\ pgDim' = pgDim /\ pgObs' = pgObs /\ phase' = phase
      /\ silver' = silver /\ lakeObs' = lakeObs /\ txDim' = txDim /\ todo' = todo
  BY DEF CityStep
<1>3. clock' = clock /\ source' = source
  BY DEF CityStep, City!Expire, City!Append
<1>4. TypeOK'
  <2>1. City!TypeOK'
    BY CitySteps, CityStepKeeps, SameTypesNext
  <2>2. QED BY <1>2, <2>1 DEF StarInv, TypeOK, City!Version
<1>5. KeysUnique(pgDim)' /\ FactsResolve' /\ TxInv' /\ FactDates'
  BY <1>2, <1>3 DEF StarInv, KeysUnique, FactsResolve, TxInv, FactDates, Running,
                    Key, City!Identity
<1>6. RunInv'
  BY <1>2, <1>3 DEF StarInv, RunInv, Running, SourceRows
<1>7. LagInv'
  BY <1>1, <1>2, StillLagging DEF StarInv, LagInv, Lagging, Key, City!Identity
<1>8. DimSyncedBeforeFacts'
  BY <1>2 DEF DimSyncedBeforeFacts
<1>9. QED BY <1>1, <1>4, <1>5, <1>6, <1>7, <1>8 DEF StarInv

(* The remaining actions leave dim_city of the lake alone, but for a new     *)
(* machine.                                                                  *)
LEMMA LakeUntouched ==
    ASSUME StarInv, UNCHANGED cityVars
    PROVE  /\ Dim!IInv' /\ Dim!IdentityIsKey' /\ City!TypeOK'
           /\ dim' = dim /\ clock' = clock /\ source' = source /\ stage' = stage
<1>1. Dim!IInv' /\ Dim!IdentityIsKey' /\ Dim!TypeOK'
  BY CitySteps, CityStepKeeps
<1>2. QED BY <1>1, SameTypesNext DEF cityVars

LEMMA LoadKeepsInv ==
    ASSUME StarInv, LoadFacts
    PROVE  StarInv'
<1>1. /\ phase = "scd2" /\ stage = "done" /\ phase' = "dims" /\ txDim' = pgDim
      /\ todo' = dim /\ pgDim' = pgDim /\ pgObs' = pgObs /\ silver' = silver
      /\ lakeObs' = MergedFacts(lakeObs, FactRows)
  BY DEF LoadFacts
<1>2. /\ Dim!IInv' /\ Dim!IdentityIsKey' /\ City!TypeOK'
      /\ dim' = dim /\ clock' = clock /\ source' = source /\ stage' = stage
  BY LakeUntouched DEF LoadFacts
<1>3. TypeOK'
  <2>1. FactRows \subseteq Fact
    BY <1>1, ResolvedRows DEF StarInv, TypeOK, RunInv, Running
  <2>2. lakeObs' \subseteq Fact
    BY <1>1, <2>1 DEF StarInv, TypeOK, MergedFacts
  <2>3. QED BY <1>1, <1>2, <2>2 DEF StarInv, TypeOK, City!Version, City!TypeOK
<1>4. KeysUnique(pgDim)' /\ FactsResolve' /\ FactDates' /\ LagInv'
  BY <1>1, <1>2 DEF StarInv, KeysUnique, FactsResolve, FactDates, Running, LagInv,
                    Lagging, Key, City!Identity
<1>5. RunInv'
  BY <1>1, <1>2 DEF StarInv, RunInv, Running, SourceRows
<1>6. TxInv'
  BY <1>1, <1>2 DEF StarInv, TxInv, KeysUnique, Key, City!Identity
<1>7. DimSyncedBeforeFacts'
  BY <1>1 DEF DimSyncedBeforeFacts
<1>8. QED BY <1>2, <1>3, <1>4, <1>5, <1>6, <1>7 DEF StarInv

(* An upsert replaces the row of its key, or adds it.                        *)
LEMMA UpsertDimKeepsTable ==
    ASSUME NEW table, NEW v, KeysUnique(table)
    PROVE  /\ KeysUnique(UpsertedDim(table, v))
           /\ v \in UpsertedDim(table, v)
           /\ \A p \in table : \E w \in UpsertedDim(table, v) : Key(w) = Key(p)
           /\ \A p \in UpsertedDim(table, v) : p \in table \/ p = v
           /\ \A p \in table : Key(p) # Key(v) => p \in UpsertedDim(table, v)
BY DEF KeysUnique, UpsertedDim

LEMMA UpsertKeepsInv ==
    ASSUME StarInv, NEW v \in todo, UpsertDim(v)
    PROVE  StarInv'
<1> DEFINE new == UpsertedDim(txDim, v)
<1>1. /\ phase = "dims" /\ phase' = phase /\ txDim' = new /\ todo' = todo \ {v}
      /\ pgDim' = pgDim /\ pgObs' = pgObs /\ silver' = silver /\ lakeObs' = lakeObs
  BY DEF UpsertDim
<1>2. /\ Dim!IInv' /\ Dim!IdentityIsKey' /\ City!TypeOK'
      /\ dim' = dim /\ clock' = clock /\ source' = source /\ stage' = stage
  BY LakeUntouched DEF UpsertDim
<1>3. /\ todo \subseteq dim /\ KeysUnique(txDim) /\ dim \ todo \subseteq txDim /\ v \in dim
      /\ \A p \in pgDim : \E w \in txDim : Key(w) = Key(p)
  BY <1>1 DEF StarInv, TxInv
<1>4. /\ KeysUnique(new)
      /\ v \in new
      /\ \A p \in txDim : \E w \in new : Key(w) = Key(p)
      /\ \A p \in new : p \in txDim \/ p = v
      /\ \A p \in txDim : Key(p) # Key(v) => p \in new
  BY <1>3, UpsertDimKeepsTable
<1> HIDE DEF new
<1>5. TypeOK'
  <2>1. new \subseteq City!Version
    BY <1>3, <1>4 DEF StarInv, TypeOK, City!TypeOK
  <2>2. QED BY <1>1, <1>2, <2>1 DEF StarInv, TypeOK, City!Version
<1>6. TxInv'
  <2>1. KeysUnique(txDim)'
    BY <1>1, <1>4 DEF KeysUnique, Key, City!Identity
  <2>2. \A p \in pgDim : \E w \in new : Key(w) = Key(p)
    BY <1>3, <1>4
  <2>3. ASSUME NEW w \in dim, w \notin todo' PROVE w \in new
    <3>1. CASE w = v
      BY <1>4, <3>1
    <3>2. CASE w # v
      <4>1. w \in txDim
        BY <1>1, <1>3, <2>3, <3>2
      <4>2. Key(w) # Key(v)
        BY <1>3, <3>2 DEF StarInv, Dim!IdentityIsKey, Dim!Identity, Key, City!Identity
      <4>3. QED BY <1>4, <4>1, <4>2
    <3>3. QED BY <3>1, <3>2
  <2>4. \A p \in pgDim' : \E w \in txDim' : Key(w)' = Key(p)'
    BY <1>1, <2>2 DEF Key, City!Identity
  <2>5. QED BY <1>1, <1>2, <1>3, <2>1, <2>3, <2>4 DEF TxInv
<1>7. LagInv'
  <2>1. Lagging(txDim) => Lagging(new)
    BY <1>3, <1>4 DEF Lagging
  <2>2. QED BY <1>1, <1>2, <2>1 DEF StarInv, LagInv, Lagging, Key, City!Identity
<1>8. KeysUnique(pgDim)' /\ FactsResolve' /\ FactDates' /\ RunInv'
  BY <1>1, <1>2 DEF StarInv, KeysUnique, FactsResolve, FactDates, Running, RunInv,
                    SourceRows, Key, City!Identity
<1>9. DimSyncedBeforeFacts'
  BY <1>1 DEF DimSyncedBeforeFacts
<1>10. QED BY <1>2, <1>5, <1>6, <1>7, <1>8, <1>9 DEF StarInv

LEMMA CommitDimsKeepsInv ==
    ASSUME StarInv, CommitDims
    PROVE  StarInv'
<1>1. /\ phase = "dims" /\ phase' = "facts" /\ pgDim' = txDim /\ todo = {} /\ todo' = {}
      /\ txDim' = {} /\ pgObs' = pgObs /\ silver' = silver /\ lakeObs' = lakeObs
  BY DEF CommitDims
<1>2. /\ Dim!IInv' /\ Dim!IdentityIsKey' /\ City!TypeOK'
      /\ dim' = dim /\ clock' = clock /\ source' = source /\ stage' = stage
  BY LakeUntouched DEF CommitDims
<1>3. /\ KeysUnique(txDim) /\ dim \subseteq txDim
      /\ \A p \in pgDim : \E w \in txDim : Key(w) = Key(p)
  BY <1>1 DEF StarInv, TxInv
<1>4. TypeOK'
  BY <1>1, <1>2 DEF StarInv, TypeOK, City!Version
<1>5. KeysUnique(pgDim)'
  BY <1>1, <1>3 DEF KeysUnique, Key, City!Identity
<1>6. FactsResolve'
  <2>1. ASSUME NEW f \in pgObs PROVE \E v \in txDim : Key(v) = f.sk /\ v.city = f.city
    <3>1. PICK p \in pgDim : Key(p) = f.sk /\ p.city = f.city
      BY DEF StarInv, FactsResolve
    <3>2. PICK w \in txDim : Key(w) = Key(p)
      BY <1>3
    <3>3. w.city = p.city
      BY <3>2 DEF Key, City!Identity
    <3>4. QED BY <3>1, <3>2, <3>3
  <2>2. QED BY <1>1, <2>1 DEF FactsResolve, Key, City!Identity
<1>7. Lagging(txDim) => txDim = dim
  <2>1. ASSUME Lagging(txDim), NEW p \in txDim PROVE p \in dim
    <3>1. PICK v \in dim : Key(v) = Key(p)
      BY <2>1 DEF Lagging
    <3>2. QED BY <1>3, <3>1 DEF KeysUnique
  <2>2. QED BY <1>3, <2>1
<1>8. LagInv' /\ DimSyncedBeforeFacts'
  <2>1. ~Ephemeral => Lagging(txDim) /\ txDim = dim
    BY <1>1, <1>7 DEF StarInv, LagInv
  <2>2. QED BY <1>1, <1>2, <2>1 DEF LagInv, Lagging, DimSyncedBeforeFacts, Key, City!Identity
<1>9. RunInv'
  BY <1>1, <1>2, <1>3 DEF StarInv, RunInv, Running, SourceRows
<1>10. FactDates' /\ TxInv'
  BY <1>1, <1>2 DEF StarInv, FactDates, Running, TxInv
<1>11. QED BY <1>2, <1>4, <1>5, <1>6, <1>8, <1>9, <1>10 DEF StarInv

LEMMA CommitFactsKeepsInv ==
    ASSUME StarInv, CommitFacts
    PROVE  StarInv'
<1>1. /\ phase = "facts" /\ phase' = "complete" /\ \A f \in FactRows : Acceptable(f)
      /\ pgObs' = UpsertedFacts(pgObs, FactRows) /\ pgDim' = pgDim /\ txDim' = txDim
      /\ todo' = todo /\ silver' = silver /\ lakeObs' = lakeObs
  BY DEF CommitFacts
<1>2. /\ Dim!IInv' /\ Dim!IdentityIsKey' /\ City!TypeOK'
      /\ dim' = dim /\ clock' = clock /\ source' = source /\ stage' = stage
  BY LakeUntouched DEF CommitFacts
<1>3. \A f \in FactRows :
         /\ f \in Fact /\ f.at <= clock
         /\ f.sk # NULL => \E v \in dim : v.city = f.city /\ f.sk = Key(v)
  BY <1>1, ResolvedRows DEF StarInv, RunInv, Running, TypeOK
<1>4. pgObs' \subseteq pgObs \cup FactRows
  BY <1>1 DEF UpsertedFacts
<1>5. TypeOK'
  <2>1. pgObs' \subseteq Fact
    BY <1>3, <1>4 DEF StarInv, TypeOK
  <2>2. QED BY <1>1, <1>2, <2>1 DEF StarInv, TypeOK, City!Version
<1>6. FactsResolve'
  <2>1. \A f \in FactRows : f.sk # NULL
    BY <1>1 DEF Acceptable
  <2>2. dim \subseteq pgDim
    BY <1>1 DEF StarInv, RunInv
  <2>3. \A f \in pgObs' : \E v \in pgDim : Key(v) = f.sk /\ v.city = f.city
    BY <1>3, <1>4, <2>1, <2>2 DEF StarInv, FactsResolve
  <2>4. QED BY <1>1, <2>3 DEF FactsResolve, Key, City!Identity
<1>7. \A f \in pgObs' : f.at <= clock
  BY <1>3, <1>4 DEF StarInv, FactDates
<1>8. FactDates'
  BY <1>1, <1>2, <1>7 DEF FactDates, Running
<1>10. KeysUnique(pgDim)' /\ LagInv' /\ DimSyncedBeforeFacts'
  BY <1>1, <1>2 DEF StarInv, KeysUnique, LagInv, Lagging, DimSyncedBeforeFacts,
                    Key, City!Identity
<1>11. RunInv' /\ TxInv'
  BY <1>1, <1>2 DEF RunInv, Running, TxInv
<1>12. QED BY <1>2, <1>5, <1>6, <1>8, <1>10, <1>11 DEF StarInv

(* A run that ends before its time leaves both databases as they were.       *)
LEMMA GivingUpKeepsInv ==
    ASSUME StarInv, (\E v \in todo : RefuseDim(v)) \/ RefuseFacts \/ Crash
    PROVE  StarInv'
<1>1. /\ phase' \in {"idle", "refused"} /\ pgDim' = pgDim /\ pgObs' = pgObs
      /\ silver' = silver /\ lakeObs' = lakeObs /\ dim' = dim /\ clock' = clock
      /\ txDim' \in {{}, txDim} /\ todo' \in {{}, todo}
  BY DEF RefuseDim, RefuseFacts, Crash, City!Crash, cityVars
<1>2. CityVarsStep
  BY CitySteps DEF RefuseDim, RefuseFacts
<1>3. Dim!IInv' /\ Dim!IdentityIsKey' /\ City!TypeOK'
  BY <1>2, CityStepKeeps, SameTypesNext
<1>4. TypeOK'
  BY <1>1, <1>3 DEF StarInv, TypeOK, City!Version
<1>5. KeysUnique(pgDim)' /\ FactsResolve' /\ FactDates' /\ LagInv'
  BY <1>1 DEF StarInv, KeysUnique, FactsResolve, FactDates, Running, LagInv, Lagging,
              Key, City!Identity
<1>6. RunInv' /\ TxInv' /\ DimSyncedBeforeFacts'
  BY <1>1 DEF RunInv, Running, TxInv, DimSyncedBeforeFacts
<1>7. QED BY <1>3, <1>4, <1>5, <1>6 DEF StarInv

LEMMA NewMachineKeepsInv ==
    ASSUME StarInv, NewMachine
    PROVE  StarInv'
<1>1. /\ Ephemeral /\ Ended /\ dim' = {} /\ created' = FALSE /\ source' = {}
      /\ stage' = "idle" /\ interrupted' = {} /\ single' = TRUE /\ lakeObs' = {}
      /\ clock' = clock /\ silver' = silver /\ phase' = phase /\ pgDim' = pgDim
      /\ pgObs' = pgObs /\ txDim' = txDim /\ todo' = todo
  BY DEF NewMachine
<1>2. Dim!TypeOK'
  <2>1. clock \in Nat
    BY DEF StarInv, TypeOK, City!TypeOK
  <2>2. {} \in SUBSET Dim!SourceRow /\ {} \subseteq Dim!Version
    OBVIOUS
  <2>3. dim' \subseteq Dim!Version /\ source' \in SUBSET Dim!SourceRow
    BY <1>1, <2>2
  <2>4. QED BY <1>1, <2>1, <2>3 DEF Dim!TypeOK
<1>3. Dim!TableInv'
  BY <1>1, <1>2 DEF Dim!TableInv, Dim!DatesReached, Dim!OpenIsCurrent, StarInv, Dim!IInv
<1>4. Dim!IInv'
  BY <1>1, <1>3 DEF Dim!IInv, Dim!TableInv, Dim!BatchBeforeAppend, Dim!SingleBatch,
     Dim!OneRowPerCity, Dim!Current, Dim!OneCurrentPerCity, Dim!DisjointIntervals,
     Dim!GapsOnlyFromCrashes, Dim!NoRedundantVersions, Dim!AppliedBatchIsCurrent
<1>5. TypeOK'
  BY <1>1, <1>2, SameTypesNext DEF StarInv, TypeOK, City!Version
<1>6. Dim!IdentityIsKey'
  BY <1>1 DEF Dim!IdentityIsKey
<1>7. KeysUnique(pgDim)' /\ FactsResolve' /\ FactDates'
  BY <1>1 DEF StarInv, KeysUnique, FactsResolve, FactDates, Running, Key, City!Identity
<1>8. RunInv' /\ TxInv' /\ LagInv' /\ DimSyncedBeforeFacts'
  BY <1>1 DEF RunInv, Running, Ended, TxInv, LagInv, DimSyncedBeforeFacts
<1>9. QED BY <1>4, <1>5, <1>6, <1>7, <1>8 DEF StarInv

LEMMA StutterKeepsInv ==
    ASSUME StarInv, UNCHANGED vars
    PROVE  StarInv'
<1>1. /\ phase' = phase /\ pgDim' = pgDim /\ pgObs' = pgObs /\ silver' = silver
      /\ lakeObs' = lakeObs /\ txDim' = txDim /\ todo' = todo /\ UNCHANGED cityVars
  BY DEF vars
<1>2. /\ Dim!IInv' /\ Dim!IdentityIsKey' /\ City!TypeOK'
      /\ dim' = dim /\ clock' = clock /\ source' = source /\ stage' = stage
  BY <1>1, LakeUntouched
<1>3. TypeOK'
  BY <1>1, <1>2 DEF StarInv, TypeOK, City!Version
<1>4. KeysUnique(pgDim)' /\ FactsResolve' /\ FactDates' /\ LagInv'
  BY <1>1, <1>2 DEF StarInv, KeysUnique, FactsResolve, FactDates, Running, LagInv,
                    Lagging, Key, City!Identity
<1>5. RunInv' /\ TxInv' /\ DimSyncedBeforeFacts'
  BY <1>1, <1>2 DEF StarInv, RunInv, Running, SourceRows, TxInv, KeysUnique,
                    DimSyncedBeforeFacts, Key, City!Identity
<1>6. QED BY <1>2, <1>3, <1>4, <1>5 DEF StarInv

LEMMA StarStep == StarInv /\ [Next]_vars => StarInv'
<1> SUFFICES ASSUME StarInv, [Next]_vars PROVE StarInv'
  OBVIOUS
<1>1. ASSUME NEW readings \in Silvers, StartRun(readings) PROVE StarInv'
  BY <1>1, StartKeepsInv
<1>2. CASE CityStep
  BY <1>2, CityStepKeepsInv
<1>3. CASE LoadFacts
  BY <1>3, LoadKeepsInv
<1>4. ASSUME NEW v \in todo, UpsertDim(v) PROVE StarInv'
  BY <1>4, UpsertKeepsInv
<1>5. CASE CommitDims
  BY <1>5, CommitDimsKeepsInv
<1>6. CASE CommitFacts
  BY <1>6, CommitFactsKeepsInv
<1>7. CASE (\E v \in todo : RefuseDim(v)) \/ RefuseFacts \/ Crash
  BY <1>7, GivingUpKeepsInv
<1>8. CASE NewMachine
  BY <1>8, NewMachineKeepsInv
<1>9. CASE UNCHANGED vars
  BY <1>9, StutterKeepsInv
<1>10. QED
  BY <1>1, <1>2, <1>3, <1>4, <1>5, <1>6, <1>7, <1>8, <1>9 DEF Next

LEMMA StarInvariance == Spec => []StarInv
BY StarInit, StarStep, PTL DEF Spec

-----------------------------------------------------------------------------
(* The second invariant: which versions the facts name.  A fact that the     *)
(* next run, or this one, may measure again names a version that is current  *)
(* in the lake, unless this run has closed every version of the city; on a   *)
(* new machine every version begins with the run.                            *)
FactsBegan ==
    \A f \in pgObs : f.sk.from <= clock /\ (Running => f.sk.from < clock)

Repeatable(f) == f.at = IF Running THEN clock - 1 ELSE clock

StillCurrent(f) == \E u \in City!Current : Key(u) = f.sk

Restarted(c) == \A v \in City!Current : v.city = c => v.from = clock

RecentKeys ==
    ~Ephemeral =>
        \A f \in pgObs :
            Repeatable(f) => StillCurrent(f) \/ (Running /\ Restarted(f.city))

LakeLoaded == phase \in {"dims", "facts"} => FactRows \subseteq lakeObs

FreshLake ==
    Ephemeral /\ Running => stage = "done" /\ \A v \in dim : v.from = clock

VersionInv ==
    /\ FactsBegan
    /\ RecentKeys
    /\ LakeLoaded
    /\ FreshLake
    /\ FactVersionsAgree
    /\ CompletedRunIsShown

(* What is known of every fact and of the lake's versions.                   *)
LEMMA FactsTyped ==
    ASSUME StarInv
    PROVE  /\ clock \in Nat
           /\ \A f \in pgObs : f.at \in Nat /\ f.at <= clock /\ (Running => f.at < clock)
           /\ \A f \in pgObs : f.sk \in VersionKey /\ f.sk.from \in Nat /\ f.sk.city = f.city
           /\ \A v \in dim : v.from \in Nat /\ v.from <= clock
<1>1. clock \in Nat /\ dim \subseteq City!Version /\ pgDim \subseteq City!Version
  BY DEF StarInv, TypeOK, City!TypeOK
<1>2. \A f \in pgObs : f.at \in Nat /\ f.at <= clock /\ (Running => f.at < clock)
  BY DEF StarInv, TypeOK, Fact, FactDates
<1>3. \A f \in pgObs : f.sk \in VersionKey /\ f.sk.from \in Nat /\ f.sk.city = f.city
  <2> TAKE f \in pgObs
  <2>1. PICK v \in pgDim : Key(v) = f.sk /\ v.city = f.city
    BY DEF StarInv, FactsResolve
  <2>2. v \in City!Version
    BY <1>1
  <2>3. v.city \in Cities /\ v.attrs \in Attrs /\ v.from \in Nat
    BY <2>2 DEF City!Version
  <2>4. f.sk = [city |-> v.city, attrs |-> v.attrs, from |-> v.from]
    BY <2>1 DEF Key, City!Identity
  <2>5. QED BY <2>1, <2>3, <2>4 DEF VersionKey
<1>4. \A v \in dim : v.from \in Nat /\ v.from <= clock
  <2>1. \A v \in dim : v.from <= clock
    BY DEF StarInv, Dim!IInv, Dim!TableInv, Dim!DatesReached
  <2>2. QED BY <1>1, <2>1 DEF City!Version
<1>5. QED BY <1>1, <1>2, <1>3, <1>4

(* The rows of a reading: one for each current version of its city, and      *)
(* there is one once the batch is applied.                                   *)
LEMMA ReadingRows ==
    ASSUME StarInv, Running, stage = "done", NEW r \in silver
    PROVE  /\ \E v \in City!Current : v.city = r.city
           /\ \A v \in City!Current : v.city = r.city =>
                 [city |-> r.city, at |-> clock - r.age, sk |-> Key(v), code |-> r.code]
                   \in FactRows
           /\ \A g \in Resolved(r) :
                 /\ g.city = r.city /\ g.at = clock - r.age
                 /\ \E v \in City!Current : v.city = r.city /\ g.sk = Key(v)
<1>1. [city |-> r.city, attrs |-> r.attrs] \in source
  BY DEF StarInv, RunInv, SourceRows
<1>2. PICK v \in Dim!Current : v.city = r.city
  BY <1>1 DEF StarInv, Dim!IInv, Dim!AppliedBatchIsCurrent
<1>3. v \in City!Current
  BY <1>2 DEF Dim!Current, City!Current
<1>4. Resolved(r) =
        {[city |-> r.city, at |-> clock - r.age, sk |-> k, code |-> r.code] :
            k \in {Key(w) : w \in {u \in City!Current : u.city = r.city}}}
  BY <1>2, <1>3 DEF Resolved
<1>5. ASSUME NEW w \in City!Current, w.city = r.city
      PROVE  [city |-> r.city, at |-> clock - r.age, sk |-> Key(w), code |-> r.code]
               \in FactRows
  <2>1. [city |-> r.city, at |-> clock - r.age, sk |-> Key(w), code |-> r.code] \in Resolved(r)
    BY <1>4, <1>5
  <2>2. QED BY <2>1 DEF FactRows
<1>6. ASSUME NEW g \in Resolved(r)
      PROVE  /\ g.city = r.city /\ g.at = clock - r.age
             /\ \E w \in City!Current : w.city = r.city /\ g.sk = Key(w)
  BY <1>4
<1>7. QED BY <1>2, <1>3, <1>5, <1>6

LEMMA VersionInit == Init => VersionInv
<1> SUFFICES ASSUME Init PROVE VersionInv
  OBVIOUS
<1>1. pgObs = {} /\ phase = "idle"
  BY DEF Init
<1>2. QED
  BY <1>1 DEF VersionInv, FactsBegan, RecentKeys, LakeLoaded, FreshLake, FactVersionsAgree,
              CompletedRunIsShown, Running

LEMMA StartKeepsVersions ==
    ASSUME StarInv, VersionInv, NEW readings \in Silvers, StartRun(readings)
    PROVE  VersionInv'
<1>1. /\ pgDim' = pgDim /\ pgObs' = pgObs /\ lakeObs' = lakeObs /\ phase' = "scd2"
      /\ ~Running /\ City!ApplySCD2(SourceRows(readings)) /\ (Ephemeral => ~created)
  BY DEF StartRun, Ended, Running
<1>2. clock' = clock + 1
  BY <1>1 DEF City!ApplySCD2, City!Initialize, City!DetectChanges, City!StartRun
<1>3. FactsBegan'
  BY <1>1, <1>2, FactsTyped DEF VersionInv, FactsBegan
<1>4. City!DetectChanges(SourceRows(readings)) => dim' = dim
  BY DEF City!DetectChanges
<1>5. City!Initialize(SourceRows(readings)) =>
        dim = {} /\ stage' = "done" /\ \A v \in dim' : v.from = clock'
  BY DEF City!Initialize, City!NewVersion, StarInv, Dim!IInv, Dim!TableInv
<1>6. RecentKeys'
  <2> SUFFICES ASSUME ~Ephemeral, NEW f \in pgObs, f.at = clock
               PROVE  \E u \in City!Current' : Key(u) = f.sk
    BY <1>1, <1>2, FactsTyped DEF RecentKeys, Repeatable, StillCurrent, Running, Key,
                                  City!Identity
  <2>1. PICK u \in City!Current : Key(u) = f.sk
    BY <1>1 DEF VersionInv, RecentKeys, Repeatable, StillCurrent
  <2>2. dim' = dim
    BY <1>1, <1>4, <1>5, <2>1 DEF City!ApplySCD2, City!Current
  <2>3. QED BY <2>1, <2>2 DEF City!Current
<1>7. LakeLoaded' /\ CompletedRunIsShown'
  BY <1>1 DEF LakeLoaded, CompletedRunIsShown
<1>8. FreshLake'
  BY <1>1, <1>5 DEF FreshLake, City!ApplySCD2, City!DetectChanges
<1>9. FactVersionsAgree'
  BY <1>1 DEF VersionInv, FactVersionsAgree, SameGrain
<1>10. QED BY <1>3, <1>6, <1>7, <1>8, <1>9 DEF VersionInv

(* The MERGE closes every current version of a city it touches, and the      *)
(* append adds versions of this run only.                                    *)
LEMMA CityStepKeepsVersions ==
    ASSUME StarInv, VersionInv, CityStep
    PROVE  VersionInv'
<1>1. /\ pgDim' = pgDim /\ pgObs' = pgObs /\ lakeObs' = lakeObs /\ phase' = phase
      /\ phase = "scd2" /\ silver' = silver /\ (City!Expire \/ City!Append)
      /\ clock' = clock /\ Running /\ Running'
  BY DEF CityStep, City!Expire, City!Append, Running
<1>2. stage # "done"
  BY <1>1 DEF City!Expire, City!Append
<1>3. ~Ephemeral
  BY <1>1, <1>2 DEF VersionInv, FreshLake
<1>4. /\ FactsBegan' /\ LakeLoaded' /\ CompletedRunIsShown' /\ FreshLake'
      /\ FactVersionsAgree'
  <2>1. FactsBegan'
    BY <1>1 DEF VersionInv, FactsBegan
  <2>2. phase' = "scd2"
    BY <1>1
  <2>3. LakeLoaded' /\ CompletedRunIsShown'
    BY <2>2 DEF LakeLoaded, CompletedRunIsShown
  <2>4. FreshLake'
    BY <1>3 DEF FreshLake
  <2>5. FactVersionsAgree'
    BY <1>1 DEF VersionInv, FactVersionsAgree, SameGrain
  <2>6. QED BY <2>1, <2>3, <2>4, <2>5
<1>5. ASSUME NEW f \in pgObs, f.at = clock - 1
      PROVE  \/ \E u \in City!Current' : Key(u) = f.sk
             \/ \A v \in City!Current' : v.city = f.city => v.from = clock
  <2>1. StillCurrent(f) \/ Restarted(f.city)
    BY <1>1, <1>3, <1>5 DEF VersionInv, RecentKeys, Repeatable
  <2>2. CASE City!Append
    <3>1. City!Current \subseteq City!Current'
      BY <2>2 DEF City!Append, City!Current
    <3>2. \A v \in City!Current' : v \in City!Current \/ v.from = clock
      BY <2>2 DEF City!Append, City!Current, City!NewVersion
    <3>3. QED BY <2>1, <3>1, <3>2 DEF StillCurrent, Restarted
  <2>3. CASE City!Expire
    <3>1. City!Current' = {u \in City!Current : u.city \notin City!ChangedCities(source)}
      <4>1. \A u \in dim : u.current /\ u.city \in City!ChangedCities(source)
              => ~[u EXCEPT !.to = clock, !.current = FALSE].current
        BY DEF StarInv, TypeOK, City!TypeOK, City!Version
      <4>2. QED BY <2>3, <4>1 DEF City!Expire, City!Current
    <3>2. ASSUME NEW u \in City!Current, Key(u) = f.sk PROVE u.city = f.city
      <4>1. f.sk.city = f.city
        BY FactsTyped
      <4>2. QED BY <3>2, <4>1 DEF Key, City!Identity
    <3>3. QED BY <2>1, <3>1, <3>2 DEF StillCurrent, Restarted
  <2>4. QED BY <1>1, <2>2, <2>3
<1>6. RecentKeys'
  <2> SUFFICES ASSUME NEW f \in pgObs', Repeatable(f)'
               PROVE  StillCurrent(f)' \/ Restarted(f.city)'
    BY <1>1 DEF RecentKeys
  <2>1. f \in pgObs /\ f.at = clock - 1
    BY <1>1 DEF Repeatable
  <2>2. QED BY <1>1, <1>5, <2>1 DEF StillCurrent, Restarted, Key, City!Identity
<1>7. QED BY <1>4, <1>6 DEF VersionInv

(* A fact that is measured again is replaced in the lake by one of the same  *)
(* version, or by one of a version that began with the run.                  *)
LEMMA LoadKeepsVersions ==
    ASSUME StarInv, VersionInv, LoadFacts
    PROVE  VersionInv'
<1>1. /\ pgDim' = pgDim /\ pgObs' = pgObs /\ phase' = "dims" /\ phase = "scd2"
      /\ stage = "done" /\ silver' = silver /\ lakeObs' = MergedFacts(lakeObs, FactRows)
      /\ dim' = dim /\ clock' = clock /\ stage' = stage /\ Running /\ Running'
  BY DEF LoadFacts, cityVars, Running
<1>2. FactsBegan' /\ CompletedRunIsShown' /\ FreshLake'
  BY <1>1 DEF VersionInv, FactsBegan, CompletedRunIsShown, FreshLake
<1>3. RecentKeys'
  BY <1>1 DEF VersionInv, RecentKeys, Repeatable, StillCurrent, Restarted, City!Current,
              Key, City!Identity
<1>4. FactRows' = FactRows
  BY <1>1 DEF FactRows, Resolved, City!Current, Key, City!Identity
<1>5. LakeLoaded'
  BY <1>1, <1>4 DEF LakeLoaded, MergedFacts
<1>6. ASSUME ~Ephemeral, NEW f \in pgObs
      PROVE  \E g \in lakeObs' :
                SameGrain(f, g) /\ (f.sk = g.sk \/ (f.sk.from <= f.at /\ f.at < g.sk.from))
  <2>1. PICK g \in lakeObs :
           SameGrain(f, g) /\ (f.sk = g.sk \/ (f.sk.from <= f.at /\ f.at < g.sk.from))
    BY <1>6 DEF VersionInv, FactVersionsAgree
  <2>2. CASE \A h \in FactRows : ~SameGrain(g, h)
    BY <1>1, <2>1, <2>2 DEF MergedFacts
  <2>3. ASSUME NEW h \in FactRows, SameGrain(g, h)
        PROVE  \E k \in FactRows :
                  SameGrain(f, k) /\ (f.sk = k.sk \/ (f.sk.from <= f.at /\ f.at < k.sk.from))
    <3>1. PICK r \in silver : h \in Resolved(r)
      BY DEF FactRows
    <3>2. PICK v \in City!Current : v.city = r.city /\ h.sk = Key(v)
      BY <1>1, <3>1, ReadingRows
    <3>3. h.city = r.city /\ h.at = clock - r.age
      BY <1>1, <3>1, ReadingRows
    <3>4. f.city = r.city /\ f.at = clock - r.age /\ r.age \in {0, 1}
      BY <2>1, <2>3, <3>3 DEF SameGrain, StarInv, TypeOK, Reading
    <3>5. f.at = clock - 1 /\ clock \in Nat
      BY <1>1, <3>4, FactsTyped
    <3>6. StillCurrent(f) \/ Restarted(f.city)
      BY <1>1, <1>6, <3>5 DEF VersionInv, RecentKeys, Repeatable
    <3>7. CASE StillCurrent(f)
      <4>1. PICK u \in City!Current : Key(u) = f.sk
        BY <3>7 DEF StillCurrent
      <4>2. u.city = r.city
        BY <3>4, <4>1, FactsTyped DEF Key, City!Identity
      <4> DEFINE k == [city |-> r.city, at |-> clock - r.age, sk |-> Key(u), code |-> r.code]
      <4>3. k \in FactRows
        BY <1>1, <4>2, ReadingRows
      <4>4. SameGrain(f, k) /\ f.sk = k.sk
        BY <3>4, <4>1 DEF SameGrain
      <4>5. QED BY <4>3, <4>4
    <3>8. CASE Restarted(f.city)
      <4>1. h.sk.from = clock
        BY <3>2, <3>4, <3>8 DEF Restarted, Key, City!Identity
      <4>2. f.sk.from < clock /\ f.sk.from \in Nat
        BY <1>1, FactsTyped DEF VersionInv, FactsBegan
      <4>3. f.sk.from <= f.at /\ f.at < h.sk.from
        BY <3>5, <4>1, <4>2
      <4>4. SameGrain(f, h)
        BY <2>1, <2>3 DEF SameGrain
      <4>5. QED BY <4>3, <4>4
    <3>9. QED BY <3>6, <3>7, <3>8
  <2>4. FactRows \subseteq lakeObs'
    BY <1>1 DEF MergedFacts
  <2>5. QED BY <2>2, <2>3, <2>4
<1>7. FactVersionsAgree'
  BY <1>1, <1>6 DEF FactVersionsAgree, SameGrain
<1>8. QED BY <1>2, <1>3, <1>5, <1>7 DEF VersionInv

(* Of facts up to now, one of the last two runs is the latest of its city,   *)
(* or a later one is.                                                        *)
LEMMA LatestExists ==
    ASSUME NEW facts, NEW now \in Nat, \A g \in facts : g.at \in Nat /\ g.at <= now,
           NEW f \in facts, f.at >= now - 1
    PROVE  \E g \in facts : /\ g.city = f.city /\ g.at >= f.at
                            /\ \A h \in facts : h.city = f.city => h.at <= g.at
<1>1. CASE \E g \in facts : g.city = f.city /\ g.at = now
  BY <1>1
<1>2. CASE \A g \in facts : g.city = f.city => g.at # now
  <2>1. \A g \in facts : g.city = f.city => g.at <= f.at
    BY <1>2
  <2>2. QED BY <2>1
<1>3. QED BY <1>1, <1>2

(* Of each reading the commit leaves a fact that the view can join.          *)
LEMMA ReadingVisible ==
    ASSUME StarInv, VersionInv, CommitFacts, NEW r \in silver,
           ~(r.age = 1 /\ VersionBegan(r.city))
    PROVE  \E f \in pgObs' : f.city = r.city /\ f.at = clock - r.age /\ Visible(f)
<1>1. /\ phase = "facts" /\ pgObs' = UpsertedFacts(pgObs, FactRows)
      /\ stage = "done" /\ dim \subseteq pgDim /\ Running
  BY DEF CommitFacts, StarInv, RunInv, Running
<1>2. PICK v \in City!Current : v.city = r.city
  BY <1>1, ReadingRows
<1>3. v \in pgDim /\ v.current /\ v \in dim
  BY <1>1, <1>2 DEF City!Current
<1> DEFINE g == [city |-> r.city, at |-> clock - r.age, sk |-> Key(v), code |-> r.code]
<1>4. g \in FactRows
  BY <1>1, <1>2, ReadingRows
<1>5. CASE \A f \in pgObs : ~SameGrain(f, g)
  <2>1. g \in pgObs'
    BY <1>1, <1>4, <1>5 DEF UpsertedFacts
  <2>2. Visible(g)
    BY <1>3 DEF Visible
  <2>3. QED BY <2>1, <2>2
<1>6. ASSUME NEW f \in pgObs, SameGrain(f, g)
      PROVE  f.city = r.city /\ f.at = clock - r.age /\ Visible(f)
  <2>1. f.city = r.city /\ f.at = clock - r.age /\ r.age \in {0, 1}
    BY <1>6 DEF SameGrain, StarInv, TypeOK, Reading
  <2>2. f.at = clock - 1 /\ r.age = 1
    BY <1>1, <2>1, FactsTyped
  <2>3. v.from # clock
    BY <1>2, <1>3, <2>2 DEF VersionBegan
  <2>4. ~Ephemeral
    BY <1>1, <1>3, <2>3 DEF VersionInv, FreshLake
  <2>5. ~Restarted(f.city)
    BY <1>2, <2>1, <2>3 DEF Restarted
  <2>6. StillCurrent(f)
    BY <1>1, <2>2, <2>4, <2>5 DEF VersionInv, RecentKeys, Repeatable
  <2>7. Visible(f)
    BY <1>1, <2>6 DEF StillCurrent, Visible, City!Current
  <2>8. QED BY <2>1, <2>7
<1>7. pgObs \subseteq pgObs'
  BY <1>1 DEF UpsertedFacts
<1>8. QED BY <1>5, <1>6, <1>7

LEMMA CommitFactsKeepsVersions ==
    ASSUME StarInv, VersionInv, CommitFacts
    PROVE  VersionInv'
<1>1. /\ phase = "facts" /\ phase' = "complete" /\ \A f \in FactRows : Acceptable(f)
      /\ pgObs' = UpsertedFacts(pgObs, FactRows) /\ pgDim' = pgDim /\ silver' = silver
      /\ lakeObs' = lakeObs /\ dim' = dim /\ clock' = clock
      /\ Running /\ ~Running' /\ stage = "done"
  BY DEF CommitFacts, cityVars, Running, StarInv, RunInv
<1>2. StarInv'
  BY CommitFactsKeepsInv
<1>3. ASSUME NEW f \in FactRows
      PROVE  f \in lakeObs /\ \E v \in City!Current : f.sk = Key(v)
  <2>1. PICK r \in silver : f \in Resolved(r)
    BY DEF FactRows
  <2>2. QED BY <1>1, <2>1, ReadingRows DEF VersionInv, LakeLoaded
<1>4. \A f \in pgObs' : f \in pgObs \/ f \in FactRows
  BY <1>1 DEF UpsertedFacts
<1>5. FactsBegan'
  <2>1. ASSUME NEW f \in FactRows PROVE f.sk.from <= clock
    <3>1. PICK v \in City!Current : f.sk = Key(v)
      BY <1>3
    <3>2. f.sk.from = v.from
      BY <3>1 DEF Key, City!Identity
    <3>3. v.from <= clock
      BY FactsTyped DEF City!Current
    <3>4. QED BY <3>2, <3>3
  <2>2. QED BY <1>1, <1>4, <2>1 DEF VersionInv, FactsBegan
<1>6. RecentKeys'
  <2> SUFFICES ASSUME NEW f \in pgObs', f.at = clock
               PROVE  \E u \in City!Current : Key(u) = f.sk
    BY <1>1 DEF RecentKeys, Repeatable, StillCurrent, City!Current, Key, City!Identity
  <2>1. f \notin pgObs
    BY <1>1, FactsTyped
  <2>2. QED BY <1>3, <1>4, <2>1
<1>7. LakeLoaded' /\ FreshLake'
  BY <1>1 DEF LakeLoaded, FreshLake
<1>8. FactVersionsAgree'
  <2>1. ~Ephemeral => \A f \in pgObs' : \E g \in lakeObs :
           SameGrain(f, g) /\ (f.sk = g.sk \/ (f.sk.from <= f.at /\ f.at < g.sk.from))
    BY <1>3, <1>4 DEF VersionInv, FactVersionsAgree, SameGrain
  <2>2. QED BY <1>1, <2>1 DEF FactVersionsAgree, SameGrain
<1>9. CompletedRunIsShown'
  <2> SUFFICES ASSUME NEW r \in silver, ~(r.age = 1 /\ VersionBegan(r.city))
               PROVE  \E g \in LatestPerCity' : g.city = r.city /\ g.at >= clock - r.age
    BY <1>1 DEF CompletedRunIsShown, Shown, VersionBegan
  <2>1. PICK f \in pgObs' : f.city = r.city /\ f.at = clock - r.age /\ Visible(f)
    BY ReadingVisible
  <2>2. r.age \in {0, 1} /\ clock \in Nat
    BY FactsTyped DEF StarInv, TypeOK, Reading
  <2> DEFINE shown == {g \in pgObs' : Visible(g)'}
  <2>3. f \in shown /\ f.at >= clock - 1
    BY <1>1, <2>1, <2>2 DEF Visible, Key, City!Identity
  <2>4. \A g \in shown : g.at \in Nat /\ g.at <= clock
    BY <1>1, <1>2 DEF StarInv, TypeOK, Fact, FactDates
  <2>5. PICK g \in shown : /\ g.city = f.city /\ g.at >= f.at
                           /\ \A h \in shown : h.city = f.city => h.at <= g.at
    BY <2>2, <2>3, <2>4, LatestExists
  <2>6. g \in LatestPerCity'
    BY <2>5 DEF LatestPerCity
  <2>7. QED BY <2>1, <2>5, <2>6
<1>10. QED BY <1>5, <1>6, <1>7, <1>8, <1>9 DEF VersionInv

(* The other steps add no fact, and leave the versions alone.                *)
LEMMA OthersKeepVersions ==
    ASSUME StarInv, VersionInv,
           \/ \E v \in todo : UpsertDim(v) \/ RefuseDim(v)
           \/ CommitDims \/ RefuseFacts \/ Crash \/ UNCHANGED vars
    PROVE  VersionInv'
<1>1. /\ pgObs' = pgObs /\ silver' = silver /\ lakeObs' = lakeObs
      /\ dim' = dim /\ clock' = clock
  BY DEF UpsertDim, RefuseDim, CommitDims, RefuseFacts, Crash, City!Crash, vars, cityVars
<1>2. (Running' => Running) /\ (Running' => stage' = stage)
  BY DEF UpsertDim, RefuseDim, CommitDims, RefuseFacts, Crash, vars, cityVars, Running
<1>3. phase' \in {"dims", "facts"} => phase \in {"dims", "facts"} \/ UNCHANGED phase
  BY DEF UpsertDim, RefuseDim, CommitDims, RefuseFacts, Crash, vars
<1>4. phase' = "complete" => phase = "complete" /\ pgDim' = pgDim
  BY DEF UpsertDim, RefuseDim, CommitDims, RefuseFacts, Crash, vars
<1>5. FactsBegan' /\ FreshLake' /\ FactVersionsAgree'
  BY <1>1, <1>2 DEF VersionInv, FactsBegan, FreshLake, FactVersionsAgree, SameGrain
<1>6. FactRows' = FactRows
  BY <1>1 DEF FactRows, Resolved, City!Current, Key, City!Identity
<1>7. LakeLoaded'
  BY <1>1, <1>3, <1>6 DEF VersionInv, LakeLoaded
<1>8. CompletedRunIsShown'
  BY <1>1, <1>4 DEF VersionInv, CompletedRunIsShown, Shown, VersionBegan, LatestPerCity,
                    Visible, Key, City!Identity
<1>9. RecentKeys'
  <2>1. ASSUME ~Ephemeral, NEW f \in pgObs, Repeatable(f)'
        PROVE  StillCurrent(f) \/ (Running' /\ Restarted(f.city))
    <3>1. CASE Running <=> Running'
      BY <1>1, <2>1, <3>1 DEF VersionInv, RecentKeys, Repeatable
    <3>2. CASE Running /\ ~Running'
      BY <1>1, <2>1, <3>2, FactsTyped DEF Repeatable
    <3>3. QED BY <1>2, <3>1, <3>2
  <2>2. QED
    BY <1>1, <2>1 DEF RecentKeys, StillCurrent, Restarted, City!Current, Key, City!Identity
<1>10. QED BY <1>5, <1>7, <1>8, <1>9 DEF VersionInv

LEMMA NewMachineKeepsVersions ==
    ASSUME VersionInv, NewMachine
    PROVE  VersionInv'
<1>1. /\ Ephemeral /\ phase \in {"idle", "complete", "refused"} /\ phase' = phase
      /\ clock' = clock /\ silver' = silver /\ pgDim' = pgDim /\ pgObs' = pgObs
  BY DEF NewMachine, Ended
<1>2. ~Running /\ ~Running'
  BY <1>1 DEF Running
<1>3. FactsBegan' /\ RecentKeys' /\ LakeLoaded' /\ FreshLake' /\ FactVersionsAgree'
  BY <1>1, <1>2 DEF VersionInv, FactsBegan, RecentKeys, LakeLoaded, FreshLake,
                    FactVersionsAgree
<1>4. CompletedRunIsShown'
  BY <1>1 DEF VersionInv, CompletedRunIsShown, Shown, VersionBegan, LatestPerCity,
              Visible, Key, City!Identity
<1>5. QED BY <1>3, <1>4 DEF VersionInv

LEMMA VersionStep == StarInv /\ VersionInv /\ [Next]_vars => VersionInv'
<1> SUFFICES ASSUME StarInv, VersionInv, [Next]_vars PROVE VersionInv'
  OBVIOUS
<1>1. ASSUME NEW readings \in Silvers, StartRun(readings) PROVE VersionInv'
  BY <1>1, StartKeepsVersions
<1>2. CASE CityStep
  BY <1>2, CityStepKeepsVersions
<1>3. CASE LoadFacts
  BY <1>3, LoadKeepsVersions
<1>4. CASE CommitFacts
  BY <1>4, CommitFactsKeepsVersions
<1>5. CASE NewMachine
  BY <1>5, NewMachineKeepsVersions
<1>6. CASE \/ \E v \in todo : UpsertDim(v) \/ RefuseDim(v)
           \/ CommitDims \/ RefuseFacts \/ Crash \/ UNCHANGED vars
  BY <1>6, OthersKeepVersions
<1>7. QED BY <1>1, <1>2, <1>3, <1>4, <1>5, <1>6 DEF Next

LEMMA VersionInvariance == Spec => []VersionInv
BY StarInvariance, VersionInit, VersionStep, PTL DEF Spec

-----------------------------------------------------------------------------
(* The theorems.                                                             *)

(* Every variable of the sync, and of dim_city under it, keeps its type.     *)
THEOREM SyncTypeCorrect == Spec => []TypeOK
<1>1. StarInv => TypeOK
  BY DEF StarInv
<1>2. QED BY <1>1, StarInvariance, PTL

(* On a lake that persists, PostgreSQL's dim_city never contradicts it,      *)
(* whatever transactions were refused and whatever runs died.                *)
THEOREM NeverContradicts == Spec => []DimNeverContradictsLake
<1>1. StarInv => DimNeverContradictsLake
  BY DEF StarInv, LagInv, Lagging, DimNeverContradictsLake
<1>2. QED BY <1>1, StarInvariance, PTL

(* On a lake that persists, the facts are written when PostgreSQL's dim_city *)
(* is the lake's, in whatever order its rows were upserted.                  *)
THEOREM SyncedBeforeFacts == Spec => []DimSyncedBeforeFacts
<1>1. StarInv => DimSyncedBeforeFacts
  BY DEF StarInv
<1>2. QED BY <1>1, StarInvariance, PTL

(* On either kind of machine, a fact in PostgreSQL refers to a version of    *)
(* its own city that PostgreSQL has.                                         *)
THEOREM EveryFactResolves == Spec => []FactsResolve
<1>1. StarInv => FactsResolve
  BY DEF StarInv
<1>2. QED BY <1>1, StarInvariance, PTL

(* On either kind of machine, a run that completes shows its readings in     *)
(* v_latest_per_city, those that repeat a measurement included, unless a     *)
(* version of the city began with the run.                                   *)
THEOREM CompletedRunShown == Spec => []CompletedRunIsShown
<1>1. VersionInv => CompletedRunIsShown
  BY DEF VersionInv
<1>2. QED BY <1>1, VersionInvariance, PTL

(* On a lake that persists, a fact of PostgreSQL is in the lake, of the same *)
(* version, or the lake has given a repeated measurement a version that      *)
(* began after it.                                                           *)
THEOREM VersionsAgree == Spec => []FactVersionsAgree
<1>1. VersionInv => FactVersionsAgree
  BY DEF VersionInv
<1>2. QED BY <1>1, VersionInvariance, PTL

(* On a lake that persists, dim_city goes through a behaviour of CityDim: a  *)
(* sync that is refused, and a run that dies after it, are stutters of it.   *)
THEOREM LakeFollowsCityDim == ~Ephemeral /\ Spec => City!Spec
<1> SUFFICES ASSUME ~Ephemeral PROVE Spec => City!Spec
  OBVIOUS
<1>1. Init => City!Init
  BY DEF Init
<1>2. [Next]_vars => [City!Next]_(City!vars)
  <2> SUFFICES ASSUME [Next]_vars PROVE City!Next \/ UNCHANGED cityVars
    BY DEF cityVars, City!vars
  <2>1. ASSUME NEW readings \in Silvers, StartRun(readings) PROVE City!Next
    <3>1. SourceRows(readings) \in Batches
      BY StarSyncAssumption
    <3>2. QED BY <2>1, <3>1 DEF StartRun, City!Next
  <2>2. CASE CityStep
    BY <2>2 DEF CityStep, City!Next
  <2>3. CASE Crash
    BY <2>3 DEF Crash, City!Next
  <2>4. CASE \/ LoadFacts \/ CommitDims \/ CommitFacts \/ RefuseFacts
             \/ \E v \in todo : UpsertDim(v) \/ RefuseDim(v)
    BY <2>4 DEF LoadFacts, CommitDims, CommitFacts, RefuseFacts, UpsertDim, RefuseDim
  <2>5. CASE UNCHANGED vars
    BY <2>5 DEF vars
  <2>6. ~NewMachine
    BY DEF NewMachine
  <2>7. QED BY <2>1, <2>2, <2>3, <2>4, <2>5, <2>6 DEF Next
<1>3. QED BY <1>1, <1>2, PTL DEF Spec, City!Spec

(* So the lake keeps the history of every city through whole runs: its       *)
(* versions are the append-only log of CityHistory.                          *)
THEOREM LakeKeepsHistory == ~Ephemeral /\ Spec => Dim!ImplementsHistory
<1>1. City!Spec => Dim!Spec
  <2>1. City!Init => Dim!Init
    BY SameInit
  <2>2. [City!Next]_(City!vars) => [Dim!Next]_(Dim!vars)
    <3>1. ASSUME NEW rows \in Batches, City!ApplySCD2(rows) PROVE Dim!Next
      BY <3>1, SameApply DEF Dim!Next
    <3>2. ASSUME City!Expire \/ City!Append \/ City!RefuseMerge \/ City!Crash PROVE Dim!Next
      BY <3>2, SameExpire, SameAppend, SameRefuse, SameCrash DEF Dim!Next
    <3>3. ASSUME UNCHANGED City!vars PROVE UNCHANGED Dim!vars
      BY <3>3 DEF City!vars, Dim!vars
    <3>4. QED BY <3>1, <3>2, <3>3 DEF City!Next
  <2>3. QED BY <2>1, <2>2, PTL DEF City!Spec, Dim!Spec
<1>2. Dim!Spec => Dim!ImplementsHistory
  BY SameAssumption, Dim!RefinesHistory
<1>3. QED BY <1>1, <1>2, LakeFollowsCityDim, PTL
=============================================================================
