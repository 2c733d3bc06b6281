---------------------------- MODULE CityDimProofs ----------------------------
(***************************************************************************)
(* Proofs about CityDim for every set of cities, attributes and batches and *)
(* every number of runs.                                                    *)
(***************************************************************************)
EXTENDS CityDim, TLAPS

(* A source row the change detection keeps: its city has no current version, *)
(* or one whose tracked columns differ.                                      *)
Differs(n) ==
    \/ \A o \in Current : o.city # n.city
    \/ \E o \in Current : o.city = n.city /\ RowHash[o.attrs] # RowHash[n.attrs]

(* The join and its filter keep exactly the source rows that differ.         *)
LEMMA ChangedRows ==
    ASSUME TypeOK, NEW rows \in SUBSET SourceRow
    PROVE  {ch[1] : ch \in Changes(rows)} = {n \in rows : Differs(n)}
<1>1. \A r \in Current : r # Unmatched
  BY CityDimAssumption DEF TypeOK, Current, Unmatched
<1>2. ASSUME NEW ch \in Changes(rows)
      PROVE  ch[1] \in rows /\ Differs(ch[1])
  BY <1>1 DEF Changes, Joined, Differs
<1>3. ASSUME NEW n \in rows, Differs(n)
      PROVE  \E ch \in Changes(rows) : ch[1] = n
  <2>1. CASE \A o \in Current : o.city # n.city
    <3>1. <<n, Unmatched>> \in Joined(rows)
      BY <2>1 DEF Joined
    <3>2. QED BY <3>1 DEF Changes
  <2>2. CASE \E o \in Current : o.city = n.city
                                  /\ RowHash[o.attrs] # RowHash[n.attrs]
    <3>1. PICK o \in Current : o.city = n.city
                                 /\ RowHash[o.attrs] # RowHash[n.attrs]
      BY <2>2
    <3>2. <<n, o>> \in Joined(rows)
      BY <3>1 DEF Joined
    <3>3. <<n, o>> \in Changes(rows)
      BY <3>1, <3>2 DEF Changes
    <3>4. QED BY <3>3
  <2>3. QED BY <1>3, <2>1, <2>2 DEF Differs
<1>4. QED BY <1>2, <1>3

LEMMA ChangedCitiesAre ==
    ASSUME TypeOK, NEW rows \in SUBSET SourceRow
    PROVE  /\ ChangedCities(rows) = {n.city : n \in {m \in rows : Differs(m)}}
           /\ (Changes(rows) = {}) <=> (\A n \in rows : ~Differs(n))
BY ChangedRows DEF ChangedCities

LEMMA AppendedVersions ==
    ASSUME TypeOK
    PROVE  {NewVersion(ch[1], clock) : ch \in Changes(source)}
             = {NewVersion(n, clock) : n \in {m \in source : Differs(m)}}
<1>1. source \in SUBSET SourceRow
  BY DEF TypeOK
<1>2. {ch[1] : ch \in Changes(source)} = {n \in source : Differs(n)}
  BY <1>1, ChangedRows
<1>3. QED BY <1>2

LEMMA NewVersionType ==
    ASSUME NEW n \in SourceRow, NEW t \in Nat
    PROVE  /\ NewVersion(n, t) \in Version
           /\ NewVersion(n, t).city = n.city
           /\ NewVersion(n, t).attrs = n.attrs
           /\ NewVersion(n, t).from = t
           /\ NewVersion(n, t).to = NULL
           /\ NewVersion(n, t).current = TRUE
BY DEF NewVersion, Version, SourceRow

LEMMA NewVersionsAreOpen ==
    ASSUME NEW rows \in SUBSET SourceRow, NEW t \in Nat
    PROVE  \A v \in {NewVersion(n, t) : n \in rows} :
              v.from = t /\ v.to = NULL /\ v.current = TRUE
<1>1. \A n \in rows : /\ NewVersion(n, t).from = t
                      /\ NewVersion(n, t).to = NULL
                      /\ NewVersion(n, t).current = TRUE
  BY NewVersionType
<1>2. QED BY <1>1

(* A version as the MERGE leaves it.                                         *)
Closed(r) ==
    IF r.current /\ r.city \in ChangedCities(source)
      THEN [r EXCEPT !.to = clock, !.current = FALSE]
      ELSE r

LEMMA ClosedType ==
    ASSUME TypeOK, NEW r \in dim
    PROVE  /\ Closed(r) \in Version
           /\ Closed(r).city = r.city
           /\ Closed(r).attrs = r.attrs
           /\ Closed(r).from = r.from
           /\ (r.current /\ r.city \in ChangedCities(source))
                => Closed(r).to = clock /\ Closed(r).current = FALSE
           /\ ~(r.current /\ r.city \in ChangedCities(source)) => Closed(r) = r
BY DEF Closed, TypeOK, Version

-----------------------------------------------------------------------------
LEMMA TypeInit == Init => TypeOK
<1>1. {} \subseteq Version /\ {} \in SUBSET SourceRow /\ {} \subseteq Nat /\ 0 \in Nat
  OBVIOUS
<1>2. FALSE \in BOOLEAN /\ "idle" \in {"idle", "merge", "append", "done", "failed"}
  OBVIOUS
<1>3. QED BY <1>1, <1>2, Zenon DEF Init, TypeOK

LEMMA TypeStep == TypeOK /\ [Next]_vars => TypeOK'
<1> SUFFICES ASSUME TypeOK, [Next]_vars PROVE TypeOK'
  OBVIOUS
<1>1. ASSUME NEW rows \in Batches, Initialize(rows) PROVE TypeOK'
  <2>1. rows \in SUBSET SourceRow
    BY CityDimAssumption
  <2>2. clock' \in Nat /\ source' = rows /\ interrupted' = interrupted
    BY <1>1 DEF Initialize, StartRun, TypeOK
  <2>3. dim' \subseteq Version
    BY <1>1, <2>1, <2>2, NewVersionType DEF Initialize
  <2>4. single' \in BOOLEAN
    BY <1>1, Zenon DEF Initialize, StartRun, TypeOK
  <2>5. QED BY <1>1, <2>1, <2>2, <2>3, <2>4 DEF TypeOK, Initialize
<1>2. ASSUME NEW rows \in Batches, DetectChanges(rows) PROVE TypeOK'
  <2>1. rows \in SUBSET SourceRow
    BY CityDimAssumption
  <2>2. QED BY <1>2, <2>1 DEF TypeOK, DetectChanges, StartRun
<1>3. CASE Expire
  <2>1. dim' = {Closed(r) : r \in dim}
    BY <1>3 DEF Expire, Closed
  <2>2. dim' \subseteq Version
    BY <2>1, ClosedType
  <2>3. QED BY <1>3, <2>2 DEF TypeOK, Expire
<1>4. CASE RefuseMerge
  BY <1>4 DEF TypeOK, RefuseMerge
<1>5. CASE Append
  <2>1. dim' = dim \cup {NewVersion(n, clock) : n \in {m \in source : Differs(m)}}
    BY <1>5, AppendedVersions DEF Append
  <2>2. dim' \subseteq Version
    BY <2>1, NewVersionType DEF TypeOK
  <2>3. QED BY <1>5, <2>2 DEF TypeOK, Append
<1>6. CASE Crash
  BY <1>6 DEF TypeOK, Crash
<1>7. CASE UNCHANGED vars
  BY <1>7 DEF TypeOK, vars
<1>8. QED
  BY <1>1, <1>2, <1>3, <1>4, <1>5, <1>6, <1>7 DEF Next, ApplySCD2

(* Every value stays in its type: the table holds well-formed versions.      *)
THEOREM TypeCorrect == Spec => []TypeOK
BY TypeInit, TypeStep, PTL DEF Spec

-----------------------------------------------------------------------------
(* The inductive invariant, action by action.                                *)
LEMMA InitInv == Init => IInv
<1> SUFFICES ASSUME Init PROVE IInv
  OBVIOUS
<1>1. TypeOK
  BY TypeInit
<1>2. clock <= MaxTime
  BY CityDimAssumption DEF Init
<1>3. QED
  BY <1>1, <1>2
  DEF Init, IInv, TableInv, DatesReached, OpenIsCurrent, BatchBeforeAppend, SingleBatch,
      OneRowPerCity, Current, OneCurrentPerCity, DisjointIntervals, GapsOnlyFromCrashes,
      NoRedundantVersions, AppliedBatchIsCurrent

LEMMA InitializeKeepsInv ==
    ASSUME IInv, TypeOK', NEW rows \in Batches, Initialize(rows)
    PROVE  IInv'
<1>1. rows \in SUBSET SourceRow
  BY CityDimAssumption
<1>2. /\ clock \in Nat /\ clock' = clock + 1 /\ clock' \in Nat /\ clock' <= MaxTime
      /\ source' = rows /\ stage' = "done" /\ created' = TRUE
      /\ single' => OneRowPerCity(rows)
      /\ dim' = {NewVersion(n, clock') : n \in rows}
  BY CityDimAssumption DEF IInv, TableInv, TypeOK, Initialize, StartRun
<1>3. \A n \in rows : /\ NewVersion(n, clock').city = n.city
                      /\ NewVersion(n, clock').attrs = n.attrs
                      /\ NewVersion(n, clock').from = clock'
                      /\ NewVersion(n, clock').to = NULL
                      /\ NewVersion(n, clock').current
  BY <1>1, <1>2, NewVersionType
<1>4. single' => \A r, s \in dim' : r.city = s.city => r = s
  BY <1>1, <1>2, <1>3 DEF OneRowPerCity
<1>5. \A r \in dim' : r.from = clock' /\ r.to = NULL /\ r.current
  BY <1>2, <1>3
<1>6. NULL \notin Nat
  BY CityDimAssumption
<1>7. TableInv'
  BY <1>2, <1>5 DEF TableInv, DatesReached, OpenIsCurrent
<1>8. BatchBeforeAppend' /\ SingleBatch'
  BY <1>1, <1>2 DEF BatchBeforeAppend, SingleBatch, OneRowPerCity
<1>9. OneCurrentPerCity' /\ DisjointIntervals' /\ GapsOnlyFromCrashes' /\ NoRedundantVersions'
  BY <1>4, <1>5 DEF OneCurrentPerCity, Current, DisjointIntervals, OpenIsCurrent,
                    GapsOnlyFromCrashes, NoRedundantVersions, Follows
<1>10. AppliedBatchIsCurrent'
  BY <1>2, <1>3 DEF AppliedBatchIsCurrent, Current
<1>11. QED
  BY <1>7, <1>8, <1>9, <1>10 DEF IInv

LEMMA DetectKeepsInv ==
    ASSUME IInv, TypeOK', NEW rows \in Batches, DetectChanges(rows)
    PROVE  IInv'
<1>1. rows \in SUBSET SourceRow
  BY CityDimAssumption
<1>2. /\ clock \in Nat /\ clock' = clock + 1 /\ clock' \in Nat /\ clock' <= MaxTime
      /\ source' = rows /\ dim' = dim /\ created' = created /\ created
      /\ interrupted' = interrupted
      /\ stage \notin {"merge", "append"}
      /\ stage' = IF Changes(rows) = {} THEN "done" ELSE "merge"
      /\ dim \subseteq Version
  BY CityDimAssumption DEF IInv, TableInv, TypeOK, DetectChanges, StartRun
<1>2a. single' => single /\ OneRowPerCity(rows)
  BY Zenon DEF DetectChanges, StartRun
<1>3. \A r \in dim : /\ r.from \in Nat /\ r.from <= clock
                     /\ r.to # NULL => r.to \in Nat /\ r.to <= clock
  BY <1>2, <1>2a DEF IInv, TableInv, DatesReached, Version
<1>4. TableInv'
  BY <1>2, <1>2a, <1>3 DEF IInv, TableInv, DatesReached, OpenIsCurrent
<1>5. \A r \in dim : r.from < clock' /\ r.to # clock'
  BY <1>2, <1>2a, <1>3, CityDimAssumption
<1>6. BatchBeforeAppend' /\ SingleBatch'
  BY <1>1, <1>2, <1>2a, <1>5 DEF BatchBeforeAppend, SingleBatch, OneRowPerCity
<1>7. OneCurrentPerCity' /\ DisjointIntervals' /\ NoRedundantVersions'
  BY <1>2, <1>2a DEF IInv, OneCurrentPerCity, Current, DisjointIntervals, OpenIsCurrent,
              NoRedundantVersions, Follows
<1>8. GapsOnlyFromCrashes'
  BY <1>2, <1>2a DEF IInv, GapsOnlyFromCrashes, Follows
<1>9. AppliedBatchIsCurrent'
  <2>1. ASSUME Changes(rows) = {}, NEW n \in rows
        PROVE  \E r \in Current : r.city = n.city /\ RowHash[r.attrs] = RowHash[n.attrs]
    <3>1. ~Differs(n)
      BY <1>1, <2>1, ChangedCitiesAre DEF IInv, TableInv
    <3>2. QED BY <3>1 DEF Differs
  <2>2. QED BY <1>2, <1>2a, <2>1 DEF AppliedBatchIsCurrent, Current
<1>10. QED
  BY <1>4, <1>6, <1>7, <1>8, <1>9 DEF IInv

LEMMA ExpireKeepsInv ==
    ASSUME IInv, TypeOK', Expire
    PROVE  IInv'
<1> DEFINE Hit(r) == r.current /\ r.city \in ChangedCities(source)
<1>1. /\ TypeOK /\ dim \subseteq Version /\ clock \in Nat /\ source \in SUBSET SourceRow
      /\ stage = "merge" /\ stage' = "append" /\ created' = created /\ clock' = clock
      /\ source' = source /\ interrupted' = interrupted /\ single' = single
      /\ dim' = {Closed(r) : r \in dim}
  BY DEF IInv, TableInv, TypeOK, Expire, Closed
<1>2. \A r \in dim : /\ Closed(r).city = r.city
                     /\ Closed(r).attrs = r.attrs
                     /\ Closed(r).from = r.from
                     /\ Hit(r) => Closed(r).to = clock /\ Closed(r).current = FALSE
                     /\ ~Hit(r) => Closed(r) = r
  BY <1>1, ClosedType
<1>3. \A r \in dim : /\ r.from \in Nat /\ r.from < clock /\ r.to # clock
                     /\ r.to # NULL => r.to \in Nat /\ r.from <= r.to /\ r.to <= clock
                     /\ r.current \in BOOLEAN /\ (r.current <=> r.to = NULL)
  BY <1>1 DEF IInv, TableInv, DatesReached, BatchBeforeAppend, OpenIsCurrent, Version
<1>4. clock # NULL
  BY <1>1, CityDimAssumption
<1>5. ChangedCities(source) = {n.city : n \in {m \in source : Differs(m)}}
  BY <1>1, ChangedCitiesAre
<1> HIDE DEF Hit
<1>6. \A r \in dim : Hit(r) <=> r.current /\ r.city \in ChangedCities(source)
  BY DEF Hit
<1>7. \A s \in Current' : \E r \in Current : s = r /\ ~Hit(r)
  BY <1>1, <1>2 DEF Current
<1>8. TableInv'
  <2>1. DatesReached'
    BY <1>1, <1>2, <1>3 DEF DatesReached
  <2>2. OpenIsCurrent'
    <3>1. \A r \in dim : Closed(r).current <=> Closed(r).to = NULL
      BY <1>2, <1>3, <1>4
    <3>2. QED BY <3>1, <1>1 DEF OpenIsCurrent
  <2>3. QED BY <2>1, <2>2, <1>1 DEF IInv, TableInv
<1>9. OneCurrentPerCity'
  BY <1>1, <1>7 DEF IInv, OneCurrentPerCity
<1>10. DisjointIntervals'
  <2>1. ASSUME single, NEW r \in dim, NEW s \in dim, r.city = s.city,
               Closed(r) # Closed(s), r.from <= s.from
        PROVE  Closed(r).to # NULL /\ Closed(r).to <= s.from
    <3>1. r.to # NULL /\ r.to <= s.from
      BY <2>1 DEF IInv, DisjointIntervals
    <3>2. ~Hit(r)
      BY <3>1, <1>3, <1>6
    <3>3. QED BY <3>1, <3>2, <1>2
  <2>2. QED BY <2>1, <1>1, <1>2, <1>8 DEF DisjointIntervals, TableInv
<1>11. BatchBeforeAppend'
  <2>1. ASSUME NEW n \in source, NEW o \in Current', o.city = n.city
        PROVE  RowHash[o.attrs] = RowHash[n.attrs]
    <3>1. PICK r \in Current : o = r /\ ~Hit(r)
      BY <1>7
    <3>2. ~Differs(n)
      BY <3>1, <2>1, <1>5, <1>6 DEF Current
    <3>3. QED BY <3>1, <3>2, <2>1 DEF Differs
  <2>2. ASSUME NEW r \in dim, Closed(r).to = clock
        PROVE  /\ \A o \in Current' : o.city # r.city
               /\ \E n \in source : n.city = r.city
    <3>1. Hit(r)
      BY <2>2, <1>2, <1>3
    <3>2. r.city \in ChangedCities(source)
      BY <3>1, <1>6
    <3>3. \A o \in Current' : o.city # r.city
      BY <3>2, <1>6, <1>7 DEF Current
    <3>4. QED BY <3>2, <3>3, <1>5
  <2>3. \A s \in dim' : s.from < clock
    BY <1>1, <1>2, <1>3
  <2>4. \A s \in dim' : s.to = clock =>
            /\ \A o \in Current' : o.city # s.city
            /\ \E n \in source : n.city = s.city
    BY <2>2, <1>1, <1>2
  <2>5. QED BY <2>1, <2>3, <2>4, <1>1 DEF BatchBeforeAppend
<1>12. SingleBatch'
  <2>1. ASSUME single, NEW r \in dim, Closed(r).to = clock
        PROVE  \E n \in source : n.city = r.city /\ RowHash[n.attrs] # RowHash[r.attrs]
    <3>1. Hit(r) /\ r \in Current
      BY <2>1, <1>2, <1>3, <1>6 DEF Current
    <3>2. \A o \in Current : o.city = r.city => o = r
      BY <2>1, <3>1 DEF IInv, OneCurrentPerCity
    <3>3. PICK n \in source : Differs(n) /\ n.city = r.city
      BY <3>1, <1>5, <1>6
    <3>4. RowHash[n.attrs] # RowHash[r.attrs]
      BY <3>1, <3>2, <3>3 DEF Differs
    <3>5. QED BY <3>3, <3>4
  <2>2. single => OneRowPerCity(source)
    BY DEF IInv, SingleBatch
  <2>3. single => \A s \in dim' : s.to = clock =>
           \E n \in source : n.city = s.city /\ RowHash[n.attrs] # RowHash[s.attrs]
    BY <2>1, <1>1, <1>2
  <2>4. QED BY <2>2, <2>3, <1>1 DEF SingleBatch, OneRowPerCity
<1>13. GapsOnlyFromCrashes'
  <2>1. ASSUME NEW r \in dim, ~Hit(r)
        PROVE  \/ Closed(r).to = NULL
               \/ \E s \in dim : Follows(Closed(s), Closed(r))
               \/ Closed(r).to \in interrupted
    BY <2>1, <1>1, <1>2 DEF IInv, GapsOnlyFromCrashes, Follows
  <2>2. ASSUME NEW r \in dim, Hit(r)
        PROVE  Closed(r).to = clock
    BY <2>2, <1>2
  <2>3. QED BY <2>1, <2>2, <1>1 DEF GapsOnlyFromCrashes, Follows
<1>14. NoRedundantVersions'
  <2>1. ASSUME single, NEW r \in dim, NEW s \in dim, Follows(Closed(s), Closed(r))
        PROVE  RowHash[r.attrs] # RowHash[s.attrs]
    <3>1. ~Hit(r)
      BY <2>1, <1>2, <1>3 DEF Follows
    <3>2. Follows(s, r)
      BY <2>1, <3>1, <1>2 DEF Follows
    <3>3. QED BY <2>1, <3>2 DEF IInv, NoRedundantVersions
  <2>2. QED BY <2>1, <1>1, <1>2 DEF NoRedundantVersions, Follows
<1>15. AppliedBatchIsCurrent'
  BY <1>1 DEF AppliedBatchIsCurrent
<1>16. QED
  BY <1>8, <1>9, <1>10, <1>11, <1>12, <1>13, <1>14, <1>15 DEF IInv

LEMMA AppendKeepsInv ==
    ASSUME IInv, TypeOK', Append
    PROVE  IInv'
<1> DEFINE New == {NewVersion(n, clock) : n \in {m \in source : Differs(m)}}
<1>1. /\ TypeOK /\ dim \subseteq Version /\ clock \in Nat /\ source \in SUBSET SourceRow
      /\ stage = "append" /\ stage' = "done" /\ created' = created /\ clock' = clock
      /\ source' = source /\ interrupted' = interrupted /\ single' = single
      /\ dim' = dim \cup New
  BY AppendedVersions DEF IInv, TableInv, TypeOK, Append
<1>2. \A n \in source : /\ NewVersion(n, clock).city = n.city
                        /\ NewVersion(n, clock).attrs = n.attrs
                        /\ NewVersion(n, clock).from = clock
                        /\ NewVersion(n, clock).to = NULL
                        /\ NewVersion(n, clock).current = TRUE
  BY <1>1, NewVersionType
<1>3. single => OneRowPerCity(source)
  BY DEF IInv, SingleBatch
<1>4. \A n \in source : Differs(n) => \A o \in Current : o.city # n.city
  BY <1>1 DEF IInv, BatchBeforeAppend, Differs
<1>5. \A v \in New : /\ v.from = clock /\ v.to = NULL /\ v.current = TRUE
                     /\ \E n \in source : v.city = n.city /\ v.attrs = n.attrs
                     /\ \A o \in Current : o.city # v.city
  BY <1>2, <1>4
<1>6. single => \A u, v \in New : u.city = v.city => u = v
  BY <1>2, <1>3 DEF OneRowPerCity
<1>7. \A r \in dim : /\ r.from \in Nat /\ r.from < clock
                     /\ r.to # NULL => r.to \in Nat /\ r.from <= r.to /\ r.to <= clock
                     /\ r.current \in BOOLEAN /\ (r.current <=> r.to = NULL)
                     /\ r.to = clock => /\ \A o \in Current : o.city # r.city
                                        /\ \E n \in source : n.city = r.city
  BY <1>1 DEF IInv, TableInv, DatesReached, BatchBeforeAppend, OpenIsCurrent, Version
<1>8. clock # NULL
  BY <1>1, CityDimAssumption
<1>9. \A n \in source : Differs(n) => NewVersion(n, clock) \in New
  OBVIOUS
<1> HIDE DEF New
<1>10. Current' = Current \cup New
  BY <1>1, <1>5 DEF Current
<1>11. TableInv'
  <2>1. DatesReached'
    BY <1>1, <1>5, <1>7 DEF DatesReached
  <2>2. OpenIsCurrent'
    BY <1>1, <1>5, <1>7 DEF OpenIsCurrent
  <2>3. QED BY <2>1, <2>2, <1>1 DEF IInv, TableInv
<1>12. BatchBeforeAppend' /\ SingleBatch'
  BY <1>1, <1>3 DEF BatchBeforeAppend, SingleBatch, OneRowPerCity
<1>13. OneCurrentPerCity'
  BY <1>1, <1>5, <1>6, <1>10 DEF IInv, OneCurrentPerCity
<1>14. DisjointIntervals'
  <2>1. ASSUME single, NEW r \in dim, NEW s \in dim, r.city = s.city, r # s, r.from <= s.from
        PROVE  r.to # NULL /\ r.to <= s.from
    BY <2>1 DEF IInv, DisjointIntervals
  <2>2. ASSUME NEW r \in dim, NEW s \in New, r.city = s.city
        PROVE  r.to # NULL /\ r.to <= s.from
    BY <2>2, <1>5, <1>7 DEF Current
  <2>3. ASSUME NEW r \in New, NEW s \in dim
        PROVE  ~(r.from <= s.from)
    BY <2>3, <1>1, <1>5, <1>7
  <2>4. QED BY <2>1, <2>2, <2>3, <1>1, <1>6, <1>11 DEF DisjointIntervals, TableInv
<1>15. GapsOnlyFromCrashes'
  <2>1. ASSUME NEW r \in dim, r.to = clock
        PROVE  \E s \in New : Follows(s, r)
    <3>1. PICK n \in source : n.city = r.city
      BY <2>1, <1>7
    <3>2. Differs(n)
      BY <2>1, <3>1, <1>7 DEF Differs
    <3>3. NewVersion(n, clock) \in New /\ Follows(NewVersion(n, clock), r)
      BY <2>1, <3>1, <3>2, <1>2, <1>8, <1>9 DEF Follows
    <3>4. QED BY <3>3
  <2>2. ASSUME NEW r \in dim, r.to # clock
        PROVE  r.to = NULL \/ (\E s \in dim : Follows(s, r)) \/ r.to \in interrupted
    BY <2>2 DEF IInv, GapsOnlyFromCrashes
  <2>3. QED BY <2>1, <2>2, <1>1, <1>5 DEF GapsOnlyFromCrashes, Follows
<1>16. NoRedundantVersions'
  <2>1. ASSUME single, NEW r \in dim, NEW s \in New, Follows(s, r)
        PROVE  RowHash[r.attrs] # RowHash[s.attrs]
    <3>1. r.to = clock /\ s.city = r.city
      BY <2>1, <1>5 DEF Follows
    <3>2. PICK n \in source : n.city = r.city /\ RowHash[n.attrs] # RowHash[r.attrs]
      BY <2>1, <3>1, <1>1 DEF IInv, SingleBatch
    <3>3. PICK m \in source : s.city = m.city /\ s.attrs = m.attrs
      BY <1>5
    <3>4. m = n
      BY <2>1, <3>1, <3>2, <3>3, <1>3 DEF OneRowPerCity
    <3>5. QED BY <3>2, <3>3, <3>4
  <2>2. ASSUME NEW r \in New, NEW s \in dim' PROVE ~Follows(s, r)
    BY <2>2, <1>5 DEF Follows
  <2>3. QED BY <2>1, <2>2, <1>1 DEF IInv, NoRedundantVersions
<1>17. AppliedBatchIsCurrent'
  <2>1. ASSUME NEW n \in source
        PROVE  \E r \in Current' : r.city = n.city /\ RowHash[r.attrs] = RowHash[n.attrs]
    <3>1. CASE Differs(n)
      BY <3>1, <1>2, <1>9, <1>10
    <3>2. CASE ~Differs(n)
      BY <3>2, <1>10 DEF Differs
    <3>3. QED BY <3>1, <3>2
  <2>2. QED BY <2>1, <1>1 DEF AppliedBatchIsCurrent
<1>18. QED
  BY <1>11, <1>12, <1>13, <1>14, <1>15, <1>16, <1>17 DEF IInv

LEMMA InductiveInv == IInv /\ [Next]_vars => IInv'
<1> SUFFICES ASSUME IInv, [Next]_vars PROVE IInv'
  OBVIOUS
<1>1. TypeOK'
  BY TypeStep DEF IInv, TableInv
<1>2. ASSUME NEW rows \in Batches, ApplySCD2(rows) PROVE IInv'
  BY <1>1, <1>2, InitializeKeepsInv, DetectKeepsInv DEF ApplySCD2
<1>3. CASE Expire
  BY <1>1, <1>3, ExpireKeepsInv
<1>4. CASE Append
  BY <1>1, <1>4, AppendKeepsInv
<1>5. ASSUME RefuseMerge \/ Crash \/ UNCHANGED vars PROVE IInv'
  <2>1. /\ dim' = dim /\ clock' = clock /\ created' = created /\ source' = source
        /\ single' = single
        /\ (stage' = stage \/ (stage' = "failed" /\ stage \in {"merge", "append"}))
        /\ interrupted \subseteq interrupted'
        /\ stage' = "append" => stage = "append"
        /\ (stage = "append" /\ stage' # "append") => clock \in interrupted'
    BY <1>5 DEF RefuseMerge, Crash, vars
  <2>2. GapsOnlyFromCrashes'
    BY <2>1 DEF IInv, GapsOnlyFromCrashes, Follows
  <2>3. OneCurrentPerCity' /\ DisjointIntervals' /\ NoRedundantVersions' /\ TableInv'
    BY <1>1, <2>1 DEF IInv, OneCurrentPerCity, Current, DisjointIntervals,
                      NoRedundantVersions, Follows, TableInv, DatesReached, OpenIsCurrent
  <2>4. BatchBeforeAppend' /\ SingleBatch' /\ AppliedBatchIsCurrent'
    BY <2>1 DEF IInv, BatchBeforeAppend, SingleBatch, OneRowPerCity,
                AppliedBatchIsCurrent, Current
  <2>5. QED BY <2>2, <2>3, <2>4 DEF IInv
<1>6. QED BY <1>2, <1>3, <1>4, <1>5 DEF Next

LEMMA Invariance == Spec => []IInv
<1>1. Init => IInv
  BY InitInv
<1>2. IInv /\ [Next]_vars => IInv'
  BY InductiveInv
<1>3. QED BY <1>1, <1>2, PTL DEF Spec

-----------------------------------------------------------------------------
(* While no batch names a city twice, no city ever has two current versions, *)
(* whatever runs die between the MERGE and the append.                       *)
THEOREM OneCurrent == Spec => []OneCurrentPerCity
<1>1. IInv => OneCurrentPerCity
  BY DEF IInv
<1>2. QED BY <1>1, Invariance, PTL

(* While no batch names a city twice, the versions of a city are disjoint in *)
(* time; and `is_current` always marks the open intervals.                    *)
THEOREM IntervalsDisjoint == Spec => []DisjointIntervals
<1>1. IInv => DisjointIntervals
  BY DEF IInv
<1>2. QED BY <1>1, Invariance, PTL

(* Each closed version is followed at once by a successor, except after a    *)
(* run that died half way.                                                   *)
THEOREM ContiguousHistory == Spec => []GapsOnlyFromCrashes
<1>1. IInv => GapsOnlyFromCrashes
  BY DEF IInv
<1>2. QED BY <1>1, Invariance, PTL

(* While no batch names a city twice, a successor has other tracked columns: *)
(* a re-run with an unchanged source adds no version.                        *)
THEOREM EveryVersionIsAChange == Spec => []NoRedundantVersions
<1>1. IInv => NoRedundantVersions
  BY DEF IInv
<1>2. QED BY <1>1, Invariance, PTL

(* A run that ends well leaves its batch current.                            *)
THEOREM BatchApplied == Spec => []AppliedBatchIsCurrent
<1>1. IInv => AppliedBatchIsCurrent
  BY DEF IInv
<1>2. QED BY <1>1, Invariance, PTL

(* While no batch names a city twice, Delta never refuses the MERGE of a run. *)
THEOREM MergeAccepted == Spec => []MergeIsNeverRefused
<1>1. IInv => MergeIsNeverRefused
  <2> SUFFICES ASSUME IInv, single, NEW r \in Current,
                      NEW c1 \in Changes(source), NEW c2 \in Changes(source),
                      c1[1].city = r.city, c2[1].city = r.city
               PROVE  c1 = c2
    BY DEF MergeIsNeverRefused, Ambiguous
  <2>1. ASSUME NEW ch \in Changes(source), ch[1].city = r.city
        PROVE  ch[1] \in source /\ ch = <<ch[1], r>>
    <3>1. ch \in source \X Current /\ ch[1].city = ch[2].city
      BY <2>1 DEF Changes, Joined
    <3>2. ch[2] = r
      BY <2>1, <3>1 DEF IInv, OneCurrentPerCity
    <3>3. QED BY <3>1, <3>2
  <2>2. c1[1] = c2[1]
    BY <2>1 DEF IInv, SingleBatch, OneRowPerCity
  <2>3. QED BY <2>1, <2>2
<1>2. QED BY <1>1, Invariance, PTL

-----------------------------------------------------------------------------
(* How each step changes the table: it is created, closed, extended or kept. *)
LEMMA StepOnTable ==
    ASSUME TableInv, [Next]_vars
    PROVE  \/ clock' = clock /\ dim' = {Closed(r) : r \in dim}
           \/ /\ clock' \in Nat
              /\ dim \subseteq dim'
              /\ \A s \in dim' \ dim : s.from = clock'
<1>1. TypeOK /\ TypeOK'
  BY TypeStep DEF TableInv
<1>2. ASSUME NEW rows \in Batches, Initialize(rows)
      PROVE  dim = {} /\ \A s \in dim' : s.from = clock'
  <2>1. rows \in SUBSET SourceRow /\ clock' \in Nat
    BY <1>1, CityDimAssumption DEF TypeOK
  <2>2. \A v \in {NewVersion(n, clock') : n \in rows} : v.from = clock'
    BY <2>1, NewVersionsAreOpen
  <2>3. QED BY <1>2, <2>2 DEF Initialize, TableInv
<1>3. ASSUME NEW rows \in Batches, DetectChanges(rows) PROVE dim' = dim
  BY <1>3 DEF DetectChanges
<1>4. CASE Expire
  BY <1>4 DEF Expire, Closed
<1>5. CASE Append
  <2>1. dim' = dim \cup {NewVersion(n, clock) : n \in {m \in source : Differs(m)}}
    BY <1>1, <1>5, AppendedVersions DEF Append
  <2>2. {m \in source : Differs(m)} \in SUBSET SourceRow /\ clock \in Nat
    BY <1>1 DEF TypeOK
  <2>3. \A v \in {NewVersion(n, clock) : n \in {m \in source : Differs(m)}} :
           v.from = clock
    BY <2>2, NewVersionsAreOpen
  <2>4. dim \subseteq dim' /\ clock' = clock /\ \A s \in dim' \ dim : s.from = clock'
    BY <1>5, <2>1, <2>3 DEF Append
  <2>5. QED BY <2>2, <2>4
<1>6. CASE RefuseMerge \/ Crash \/ UNCHANGED vars
  <2>1. dim' = dim /\ clock' = clock
    BY <1>6 DEF RefuseMerge, Crash, vars
  <2>2. QED BY <1>1, <2>1 DEF TypeOK
<1>7. QED
  BY <1>1, <1>2, <1>3, <1>4, <1>5, <1>6 DEF Next, ApplySCD2, TypeOK

(* A version keeps its identity, and a closed one stays as it is.            *)
LEMMA StepKeepsVersions ==
    ASSUME TableInv, [Next]_vars, NEW r \in dim
    PROVE  \E s \in dim' : Identity(s) = Identity(r) /\ (r.current \/ s = r)
<1>1. CASE dim' = {Closed(q) : q \in dim}
  <2>1. Closed(r) \in dim'
    BY <1>1
  <2>2. Identity(Closed(r)) = Identity(r) /\ (r.current \/ Closed(r) = r)
    BY ClosedType DEF TableInv, Identity
  <2>3. QED BY <2>1, <2>2
<1>2. CASE dim \subseteq dim'
  BY <1>2
<1>3. QED BY <1>1, <1>2, StepOnTable

(* The identity that stands for the surrogate key is one: no two versions    *)
(* share it.  A run appends versions dated now, where all others are older.  *)
IdentityIsKey == \A r, s \in dim : Identity(r) = Identity(s) => r = s

LEMMA NewVersionsHaveKeys ==
    ASSUME NEW rows \in SUBSET SourceRow, NEW t \in Nat
    PROVE  \A v, w \in {NewVersion(n, t) : n \in rows} :
              Identity(v) = Identity(w) => v = w
<1>1. ASSUME NEW m \in rows, NEW n \in rows,
             Identity(NewVersion(m, t)) = Identity(NewVersion(n, t))
      PROVE  NewVersion(m, t) = NewVersion(n, t)
  <2>1. m.city = n.city /\ m.attrs = n.attrs
    BY <1>1, NewVersionType DEF Identity
  <2>2. QED BY <2>1 DEF NewVersion
<1>2. QED BY <1>1

LEMMA StepKeepsKeys ==
    ASSUME IInv, IdentityIsKey, [Next]_vars
    PROVE  IdentityIsKey'
<1>1. TypeOK /\ TypeOK' /\ TableInv
  BY TypeStep DEF IInv, TableInv
<1>2. ASSUME NEW rows \in Batches, Initialize(rows) PROVE IdentityIsKey'
  <2>1. rows \in SUBSET SourceRow /\ clock' \in Nat
    BY <1>1, CityDimAssumption DEF TypeOK
  <2>2. dim' = {NewVersion(n, clock') : n \in rows}
    BY <1>2 DEF Initialize
  <2>3. \A v, w \in dim' : Identity(v) = Identity(w) => v = w
    BY <2>1, <2>2, NewVersionsHaveKeys
  <2>4. QED BY <2>3 DEF IdentityIsKey, Identity
<1>3. ASSUME dim' = dim PROVE IdentityIsKey'
  BY <1>3 DEF IdentityIsKey, Identity
<1>4. CASE Expire
  <2>1. dim' = {Closed(r) : r \in dim}
    BY <1>4 DEF Expire, Closed
  <2>2. \A r \in dim : Identity(Closed(r)) = Identity(r)
    BY <1>1, ClosedType DEF Identity
  <2>3. \A v, w \in dim' : Identity(v) = Identity(w) => v = w
    BY <2>1, <2>2 DEF IdentityIsKey
  <2>4. QED BY <2>3 DEF IdentityIsKey, Identity
<1>5. CASE Append
  <2> DEFINE rows == {m \in source : Differs(m)}
  <2> DEFINE New == {NewVersion(n, clock) : n \in rows}
  <2>1. dim' = dim \cup New
    BY <1>1, <1>5, AppendedVersions DEF Append
  <2>2. rows \in SUBSET SourceRow /\ clock \in Nat
    BY <1>1 DEF TypeOK
  <2>3. \A v, w \in New : Identity(v) = Identity(w) => v = w
    BY <2>2, NewVersionsHaveKeys
  <2>4. \A v \in New : v.from = clock
    BY <2>2, NewVersionsAreOpen
  <2>5. \A v \in dim : v.from < clock /\ v.from \in Nat
    BY <1>1, <1>5 DEF Append, IInv, BatchBeforeAppend, TypeOK, Version
  <2> HIDE DEF New
  <2>6. ASSUME NEW v \in dim, NEW w \in New PROVE Identity(v) # Identity(w)
    <3>1. v.from # w.from
      BY <2>2, <2>4, <2>5
    <3>2. QED BY <3>1 DEF Identity
  <2>7. \A v, w \in dim' : Identity(v) = Identity(w) => v = w
    BY <2>1, <2>3, <2>6 DEF IdentityIsKey
  <2>8. QED BY <2>7 DEF IdentityIsKey, Identity
<1>6. CASE RefuseMerge \/ Crash \/ UNCHANGED vars
  BY <1>3, <1>6 DEF RefuseMerge, Crash, vars
<1>7. QED
  BY <1>2, <1>3, <1>4, <1>5, <1>6 DEF Next, ApplySCD2, DetectChanges

(* No version is ever lost, and a closed one never changes.                  *)
THEOREM HistoryKept == Spec => HistoryIsKept
<1>1. TableInv /\ [Next]_vars =>
        [\A r \in dim : \E s \in dim' :
            Identity(s) = Identity(r) /\ (r.current \/ s = r)]_vars
  BY StepKeepsVersions
<1>2. IInv => TableInv
  BY DEF IInv
<1>3. QED BY <1>1, <1>2, Invariance, PTL DEF Spec, HistoryIsKept

(* No step of a run changes what the dimension says about an earlier time.   *)
THEOREM PastStable == Spec => PastIsStable
<1>1. TableInv /\ [Next]_vars =>
        [\A c \in Cities : \A t \in 0..MaxTime :
            t < clock' => AsOf(c, t)' = AsOf(c, t)]_vars
  <2> SUFFICES ASSUME TableInv, [Next]_vars, NEW c \in Cities, NEW t \in 0..MaxTime,
                      t < clock'
               PROVE  AsOf(c, t)' = AsOf(c, t)
    OBVIOUS
  <2> DEFINE Holds(x) == x.city = c /\ x.from <= t /\ (x.to = NULL \/ t < x.to)
  <2>1. TypeOK /\ clock \in Nat /\ t \in Nat /\ NULL \notin Nat
    BY CityDimAssumption DEF TableInv, TypeOK
  <2>2. AsOf(c, t) = {r.attrs : r \in {x \in dim : Holds(x)}}
    BY DEF AsOf
  <2>3. AsOf(c, t)' = {r.attrs : r \in {x \in dim' : Holds(x)}}
    BY DEF AsOf
  <2>4. CASE clock' = clock /\ dim' = {Closed(r) : r \in dim}
    <3>1. ASSUME NEW r \in dim
          PROVE  Closed(r).attrs = r.attrs /\ (Holds(Closed(r)) <=> Holds(r))
      BY <2>1, <2>4, ClosedType DEF TableInv, OpenIsCurrent
    <3>2. QED BY <2>2, <2>3, <2>4, <3>1
  <2>5. CASE clock' \in Nat /\ dim \subseteq dim' /\ \A s \in dim' \ dim : s.from = clock'
    <3>1. \A s \in dim' \ dim : ~Holds(s)
      BY <2>1, <2>5
    <3>2. QED BY <2>2, <2>3, <2>5, <3>1
  <2>6. QED BY <2>4, <2>5, StepOnTable
<1>2. IInv => TableInv
  BY DEF IInv
<1>3. QED BY <1>1, <1>2, Invariance, PTL DEF Spec, PastIsStable

-----------------------------------------------------------------------------
LEMMA IdentityOfNew ==
    ASSUME NEW rows \in SUBSET SourceRow, NEW t \in Nat
    PROVE  {Identity(v) : v \in {NewVersion(n, t) : n \in rows}}
             = {History!Dated(n, t) : n \in rows}
<1>1. \A n \in rows : Identity(NewVersion(n, t)) = History!Dated(n, t)
  BY NewVersionType DEF Identity, History!Dated
<1>2. QED BY <1>1

(* A run of dim_city, with its two commits, its crashes and refused MERGEs, *)
(* is a step or a stutter of the append-only log of CityHistory.             *)
THEOREM RefinesHistory == Spec => ImplementsHistory
<1> DEFINE Log == {Identity(r) : r \in dim}
<1>1. Init => History!Init
  BY DEF Init, History!Init
<1>2. IInv /\ [Next]_vars => [History!Next]_(History!historyVars)
  <2> SUFFICES ASSUME IInv, [Next]_vars
               PROVE  History!Next \/ (Log' = Log /\ clock' = clock)
    BY DEF History!historyVars
  <2>1. TypeOK /\ clock \in Nat /\ clock + 1 \in Nat
    BY DEF IInv, TableInv, TypeOK
  <2>2. \A r \in dim : r.from \in Nat /\ r.from < clock + 1
    BY <2>1 DEF IInv, TableInv, TypeOK, DatesReached, Version
  <2>3. ASSUME NEW rows \in Batches, Initialize(rows) PROVE History!Next
    <3>1. rows \in SUBSET SourceRow
      BY CityDimAssumption
    <3>2. dim = {} /\ clock' = clock + 1 /\ dim' = {NewVersion(n, clock + 1) : n \in rows}
      BY <2>3 DEF Initialize, StartRun, IInv, TableInv
    <3>3. Log' = Log \cup {History!Dated(n, clock') : n \in rows}
      <4>1. {Identity(v) : v \in {NewVersion(n, clock + 1) : n \in rows}}
              = {History!Dated(n, clock + 1) : n \in rows}
        BY <2>1, <3>1, IdentityOfNew
      <4>2. QED BY <3>2, <4>1, Zenon
    <3>4. History!Record(rows)
      BY <3>1, <3>2, <3>3 DEF History!Record
    <3>5. QED BY <3>1, <3>4 DEF History!Next, SourceRow
  <2>4. ASSUME NEW rows \in Batches, DetectChanges(rows) PROVE History!Next
    <3>1. dim' = dim /\ clock' = clock + 1
      BY <2>4 DEF DetectChanges, StartRun
    <3>2. History!Record({})
      BY <2>2, <3>1 DEF History!Record, Identity
    <3>3. QED BY <3>2 DEF History!Next
  <2>5. CASE Expire
    <3>1. clock' = clock /\ dim' = {Closed(r) : r \in dim}
      BY <2>5 DEF Expire, Closed
    <3>2. \A r \in dim : Identity(Closed(r)) = Identity(r)
      BY <2>1, ClosedType DEF Identity
    <3>3. QED BY <3>1, <3>2
  <2>6. CASE Append
    <3> DEFINE rows == {m \in source : Differs(m)}
    <3>1. rows \in SUBSET SourceRow
      BY <2>1 DEF TypeOK
    <3>2. clock' = clock /\ dim' = dim \cup {NewVersion(n, clock) : n \in rows}
      BY <2>1, <2>6, AppendedVersions DEF Append
    <3>3. \A r \in dim : r.from < clock
      BY <2>6 DEF Append, IInv, BatchBeforeAppend
    <3> HIDE DEF rows
    <3>4. Log' = Log \cup {History!Dated(n, clock') : n \in rows}
      <4>1. {Identity(v) : v \in {NewVersion(n, clock) : n \in rows}}
              = {History!Dated(n, clock) : n \in rows}
        BY <2>1, <3>1, IdentityOfNew
      <4> DEFINE New == {NewVersion(n, clock) : n \in rows}
      <4>2. dim' = dim \cup New /\ {Identity(v) : v \in New} = {History!Dated(n, clock) : n \in rows}
        BY <3>2, <4>1
      <4> HIDE DEF New
      <4>3. Log' = Log \cup {Identity(v) : v \in New}
        BY <4>2
      <4>4. QED BY <3>2, <4>2, <4>3
    <3>5. History!Record(rows)
      BY <3>1, <3>2, <3>3, <3>4 DEF History!Record, Identity
    <3>6. QED BY <3>1, <3>5 DEF History!Next, SourceRow
  <2>7. CASE RefuseMerge \/ Crash \/ UNCHANGED vars
    BY <2>7 DEF RefuseMerge, Crash, vars
  <2>8. QED BY <2>3, <2>4, <2>5, <2>6, <2>7 DEF Next, ApplySCD2
<1>3. QED BY <1>1, <1>2, Invariance, PTL DEF Spec, ImplementsHistory, History!Spec
=============================================================================
