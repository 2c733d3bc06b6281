---------------------------- MODULE OwmClientProofs ----------------------------
(***************************************************************************)
(* Theorems about OwmClient, for any number of entries and of attempts.     *)
(* ClientInv adds to the properties what the entry in hand has cost so far:  *)
(* before request k the client has waited 2 + 4 + ... + 2^(k-1) seconds.     *)
(***************************************************************************)
EXTENDS OwmClient, FiniteSetTheorems, FunctionTheorems, TLAPS

GivenUp == {s.entry : s \in skipped}

WaitSoFar ==
    /\ slept + 2 = 2 ^ attempt
    /\ ~Ingesting => attempt = 1

SpentOrDefinitive == \A s \in skipped : s.definitive \/ s.requests = MAX_RETRIES

ClientInv == ClientTypeOK /\ EveryEntryAccounted /\ WaitSoFar /\ SpentOrDefinitive

-----------------------------------------------------------------------------
(* Powers of two.                                                            *)
(* The provers have no exponentiation, but FiniteSetTheorems counts subsets. *)
LEMMA PowerOf ==
    ASSUME NEW k \in Nat
    PROVE  /\ IsFiniteSet(SUBSET (1..k))
           /\ 2 ^ k = Cardinality(SUBSET (1..k)) /\ 2 ^ k \in Nat
<1>1. IsFiniteSet(1..k) /\ Cardinality(1..k) = k
  BY FS_Interval
<1>2. IsFiniteSet(SUBSET (1..k)) /\ Cardinality(SUBSET (1..k)) = 2 ^ Cardinality(1..k)
  BY <1>1, FS_SUBSET
<1>3. Cardinality(SUBSET (1..k)) \in Nat
  BY <1>2, FS_CardinalityType
<1>4. Cardinality(SUBSET (1..k)) = 2 ^ k
  BY <1>1, <1>2, Zenon
<1>5. QED BY <1>2, <1>3, <1>4

LEMMA PowersGrow ==
    ASSUME NEW k \in Nat, NEW m \in Nat, k <= m
    PROVE  2 ^ k <= 2 ^ m
<1>1. SUBSET (1..k) \subseteq SUBSET (1..m)
  OBVIOUS
<1>2. Cardinality(SUBSET (1..k)) <= Cardinality(SUBSET (1..m))
  BY <1>1, PowerOf, FS_Subset
<1>3. QED BY <1>2, PowerOf

(* A subset of 1..(k + 1) is without k + 1, or one of these with k + 1 added.*)
LEMMA PowersDouble ==
    ASSUME NEW k \in Nat
    PROVE  2 ^ (k + 1) = 2 ^ k + 2 ^ k
<1> DEFINE without == SUBSET (1..k)
           with == {s \cup {k + 1} : s \in without}
           add == [s \in without |-> s \cup {k + 1}]
<1>1. IsFiniteSet(without) /\ 2 ^ k = Cardinality(without) /\ 2 ^ k \in Nat
  BY PowerOf
<1>2. 2 ^ (k + 1) = Cardinality(SUBSET (1..(k + 1)))
  BY PowerOf
<1>3. 1..(k + 1) = (1..k) \cup {k + 1} /\ k + 1 \notin 1..k
  OBVIOUS
<1>4. add \in Bijection(without, with)
  <2>1. add \in [without -> with] /\ \A t \in with : \E s \in without : add[s] = t
    OBVIOUS
  <2>2. \A a, b \in without : add[a] = add[b] => a = b
    BY <1>3
  <2>3. QED BY <2>1, <2>2, Fun_IsBij
<1>5. IsFiniteSet(with) /\ Cardinality(with) = Cardinality(without)
  BY <1>1, <1>4, FS_Bijection DEF ExistsBijection
<1>6. SUBSET (1..(k + 1)) = without \cup with
  <2>1. ASSUME NEW s \in SUBSET (1..(k + 1)), s \notin without PROVE s \in with
    <3>1. k + 1 \in s /\ s \ {k + 1} \in without
      BY <1>3, <2>1
    <3>2. s = (s \ {k + 1}) \cup {k + 1}
      BY <3>1
    <3>3. QED BY <3>1, <3>2
  <2>2. with \subseteq SUBSET (1..(k + 1))
    BY <1>3
  <2>3. without \subseteq SUBSET (1..(k + 1))
    BY <1>3
  <2> HIDE DEF with, without
  <2>4. QED BY <2>1, <2>2, <2>3
<1>7. without \cap with = {}
  BY <1>3
<1> HIDE DEF without, with
<1>8. Cardinality(without \cup with) = Cardinality(without) + Cardinality(with)
  <2>1. Cardinality(without \cup with)
          = Cardinality(without) + Cardinality(with) - Cardinality(without \cap with)
    BY <1>1, <1>5, FS_Union
  <2>2. Cardinality(without \cap with) = 0
    BY <1>7, FS_EmptySet
  <2>3. Cardinality(without) \in Nat
    BY <1>1
  <2>4. QED BY <1>5, <2>1, <2>2, <2>3
<1>9. QED BY <1>1, <1>2, <1>5, <1>6, <1>8

LEMMA FirstPower == 2 ^ 1 = 2
<1>1. 2 ^ 0 = 1
  <2>1. 1..0 = {} /\ SUBSET {} = {{}}
    OBVIOUS
  <2>2. 2 ^ 0 = Cardinality(SUBSET (1..0))
    BY PowerOf
  <2>3. Cardinality({{}}) = 1
    BY FS_Singleton
  <2>4. QED BY <2>1, <2>2, <2>3
<1>2. 2 ^ (0 + 1) = 2 ^ 0 + 2 ^ 0
  BY PowersDouble
<1>3. QED BY <1>1, <1>2

LEMMA Powers ==
    /\ \A k \in 1..(MAX_RETRIES + 1) : 2 ^ k \in Nat /\ 2 ^ k <= 2 ^ (MAX_RETRIES + 1)
    /\ \A k \in 1..MAX_RETRIES : 2 ^ (k + 1) = 2 ^ k + 2 ^ k
    /\ 2 ^ 1 = 2
<1>1. MAX_RETRIES + 1 \in Nat
  BY OwmClientAssumption
<1>2. ASSUME NEW k \in 1..(MAX_RETRIES + 1)
      PROVE  2 ^ k \in Nat /\ 2 ^ k <= 2 ^ (MAX_RETRIES + 1)
  <2>1. k \in Nat /\ k <= MAX_RETRIES + 1
    BY <1>1
  <2>2. 2 ^ k \in Nat
    BY <2>1, PowerOf
  <2>3. PICK m \in Nat : m = MAX_RETRIES + 1
    BY <1>1
  <2>4. 2 ^ k <= 2 ^ m
    BY <2>1, <2>3, PowersGrow
  <2>5. QED BY <2>2, <2>3, <2>4, Zenon
<1>3. ASSUME NEW k \in 1..MAX_RETRIES PROVE 2 ^ (k + 1) = 2 ^ k + 2 ^ k
  BY PowersDouble
<1>4. QED BY <1>2, <1>3, FirstPower

-----------------------------------------------------------------------------
(* The entries behind the one in hand have been dealt with, it has not.      *)
LEMMA InHand ==
    ASSUME ClientInv, Ingesting
    PROVE  /\ entry \in 1..Entries
           /\ results \cup GivenUp = 1..(entry - 1)
           /\ results \cap GivenUp = {}
           /\ results \subseteq raw
           /\ entry \notin results
           /\ entry \notin GivenUp
<1>1. entry \in 1..Entries
  BY OwmClientAssumption DEF ClientInv, ClientTypeOK, Ingesting
<1>2. results \cup GivenUp = 1..(entry - 1) /\ results \cap GivenUp = {} /\ results \subseteq raw
  BY DEF ClientInv, EveryEntryAccounted, GivenUp
<1>3. entry \notin 1..(entry - 1)
  BY <1>1
<1>4. QED BY <1>1, <1>2, <1>3

(* Going on to the next entry keeps the account when the entry in hand has   *)
(* become either a record or one that was given up.                          *)
LEMMA AccountAfterEntry ==
    ASSUME ClientInv, Ingesting, NextEntry,
           \/ results' = results \cup {entry} /\ GivenUp' = GivenUp
           \/ results' = results /\ GivenUp' = GivenUp \cup {entry},
           results' \subseteq raw'
    PROVE  EveryEntryAccounted'
<1>1. /\ entry \in 1..Entries
      /\ results \cup GivenUp = 1..(entry - 1)
      /\ results \cap GivenUp = {}
      /\ entry \notin results
      /\ entry \notin GivenUp
  BY InHand
<1>2. results' \cup GivenUp' = (1..(entry - 1)) \cup {entry}
  BY <1>1
<1>3. (1..(entry - 1)) \cup {entry} = 1..entry
  BY <1>1
<1>4. results' \cap GivenUp' = {}
  BY <1>1
<1>5. entry' = entry + 1 /\ entry' - 1 = entry
  BY <1>1 DEF NextEntry
<1>6. ~(Ingesting') => entry = Entries
  BY <1>1, <1>5, OwmClientAssumption DEF Ingesting
<1>7. QED
  BY <1>2, <1>3, <1>4, <1>5, <1>6 DEF EveryEntryAccounted, GivenUp

LEMMA WaitAfterEntry ==
    ASSUME ClientInv, Ingesting, NextEntry
    PROVE  /\ entry' \in 1..(Entries + 1)
           /\ attempt' \in 1..(MAX_RETRIES + 1)
           /\ slept' \in Nat
           /\ WaitSoFar'
<1>1. entry \in 1..Entries
  BY InHand
<1>2. QED
  BY <1>1, OwmClientAssumption, Powers DEF NextEntry, WaitSoFar, Ingesting

(* The wait doubles with each request that is repeated.                      *)
LEMMA BackOffKeepsInv ==
    ASSUME ClientInv, CanRequest, BackOff
    PROVE  ClientInv'
<1>1. attempt \in 1..MAX_RETRIES /\ slept \in Nat
  BY OwmClientAssumption DEF ClientInv, ClientTypeOK, CanRequest
<1>2. attempt' \in 1..(MAX_RETRIES + 1)
  BY <1>1, OwmClientAssumption DEF BackOff
<1>3. slept' \in Nat /\ slept' + 2 = 2 ^ (attempt + 1)
  <2>1. 2 ^ attempt \in Nat /\ 2 ^ (attempt + 1) = 2 ^ attempt + 2 ^ attempt
    BY <1>1, OwmClientAssumption, Powers
  <2>2. slept + 2 = 2 ^ attempt /\ slept' = slept + 2 ^ attempt
    BY DEF ClientInv, WaitSoFar, BackOff
  <2>3. QED BY <1>1, <2>1, <2>2
<1>4. entry' = entry /\ results' = results /\ raw' = raw /\ skipped' = skipped
  BY DEF BackOff
<1>5. ClientTypeOK'
  BY <1>2, <1>3, <1>4 DEF ClientInv, ClientTypeOK
<1>6. EveryEntryAccounted' /\ SpentOrDefinitive'
  BY <1>4 DEF ClientInv, EveryEntryAccounted, SpentOrDefinitive, Ingesting
<1>7. WaitSoFar'
  BY <1>3, <1>4 DEF WaitSoFar, BackOff, CanRequest, Ingesting
<1>8. QED BY <1>5, <1>6, <1>7 DEF ClientInv

(* An entry is given up for good, or after its last attempt.                 *)
LEMMA GiveUpKeepsInv ==
    ASSUME ClientInv, Ingesting,
           NEW requests \in 1..MAX_RETRIES, NEW definitive \in BOOLEAN,
           definitive \/ requests = MAX_RETRIES,
           GiveUp(requests, definitive),
           raw \subseteq raw', raw' \subseteq 1..Entries
    PROVE  ClientInv'
<1> DEFINE new == [entry |-> entry, requests |-> requests, definitive |-> definitive]
<1>1. entry \in 1..Entries /\ results \subseteq raw
  BY InHand
<1>2. skipped' = skipped \cup {new} /\ NextEntry /\ results' = results
  BY DEF GiveUp
<1>3. new \in Skip /\ new.entry = entry /\ (new.definitive \/ new.requests = MAX_RETRIES)
  BY <1>1 DEF Skip
<1>4. GivenUp' = GivenUp \cup {entry}
  BY <1>2, <1>3 DEF GivenUp
<1>5. EveryEntryAccounted'
  BY <1>1, <1>2, <1>4, AccountAfterEntry
<1>6. ClientTypeOK' /\ WaitSoFar'
  BY <1>2, <1>3, WaitAfterEntry DEF ClientInv, ClientTypeOK
<1>7. SpentOrDefinitive'
  <2>1. SpentOrDefinitive
    BY DEF ClientInv
  <2>2. QED BY <1>2, <1>3, <2>1 DEF SpentOrDefinitive
<1>8. QED BY <1>5, <1>6, <1>7 DEF ClientInv

LEMMA AnswerKeepsInv ==
    ASSUME ClientInv, Answer
    PROVE  ClientInv'
<1>1. Ingesting /\ NextEntry /\ results' = results \cup {entry}
      /\ raw' = raw \cup {entry} /\ skipped' = skipped
  BY DEF Answer, CanRequest
<1>2. entry \in 1..Entries /\ results \subseteq raw
  BY <1>1, InHand
<1>3. GivenUp' = GivenUp
  BY <1>1 DEF GivenUp
<1>4. EveryEntryAccounted'
  BY <1>1, <1>2, <1>3, AccountAfterEntry
<1>5. ClientTypeOK' /\ WaitSoFar'
  BY <1>1, <1>2, WaitAfterEntry DEF ClientInv, ClientTypeOK
<1>6. SpentOrDefinitive'
  BY <1>1 DEF ClientInv, SpentOrDefinitive
<1>7. QED BY <1>4, <1>5, <1>6 DEF ClientInv

(* Before and after an ingestion nothing is in hand.                         *)
LEMMA EmptyHanded ==
    ASSUME results' = {}, raw' = {}, skipped' = {}, attempt' = 1, slept' = 0,
           entry' \in {1, Entries + 1}
    PROVE  ClientInv'
<1>1. ClientTypeOK'
  BY OwmClientAssumption DEF ClientTypeOK
<1>2. EveryEntryAccounted'
  <2>1. {s.entry : s \in skipped'} = {}
    OBVIOUS
  <2>2. entry' = 1 => 1..(entry' - 1) = {}
    OBVIOUS
  <2>3. Ingesting' => entry' = 1
    BY OwmClientAssumption DEF Ingesting
  <2>4. QED BY <2>1, <2>2, <2>3 DEF EveryEntryAccounted
<1>3. WaitSoFar'
  BY Powers DEF WaitSoFar
<1>4. SpentOrDefinitive'
  BY DEF SpentOrDefinitive
<1>5. QED BY <1>1, <1>2, <1>3, <1>4 DEF ClientInv

-----------------------------------------------------------------------------
LEMMA ClientInvInit == ClientInit => ClientInv
<1> SUFFICES ASSUME ClientInit PROVE ClientInv
  OBVIOUS
<1>1. ClientTypeOK
  BY OwmClientAssumption DEF ClientInit, ClientTypeOK
<1>2. EveryEntryAccounted
  BY OwmClientAssumption DEF ClientInit, EveryEntryAccounted, Ingesting
<1>3. WaitSoFar /\ SpentOrDefinitive
  BY Powers DEF ClientInit, WaitSoFar, SpentOrDefinitive
<1>4. QED BY <1>1, <1>2, <1>3 DEF ClientInv

LEMMA ClientInvStep == ClientInv /\ [ClientNext]_clientVars => ClientInv'
<1> SUFFICES ASSUME ClientInv, [ClientNext]_clientVars PROVE ClientInv'
  OBVIOUS
<1>1. ClientTypeOK
  BY DEF ClientInv
<1>2. CASE StartIngestion
  BY <1>2, EmptyHanded DEF StartIngestion
<1>3. CASE Return
  <2>1. entry = Entries + 1
    BY <1>1, <1>3, OwmClientAssumption DEF ClientTypeOK, Return, Ingesting
  <2>2. attempt = 1 /\ slept + 2 = 2
    BY <1>3, Powers DEF ClientInv, WaitSoFar, Return
  <2>3. slept = 0
    BY <1>1, <2>2 DEF ClientTypeOK
  <2>4. QED BY <1>3, <2>1, <2>2, <2>3, EmptyHanded DEF Return
<1>4. CASE Answer
  BY <1>4, AnswerKeepsInv
<1>5. CASE UselessAnswer
  <2>1. CanRequest /\ raw' \in {raw, raw \cup {entry}} /\ GiveUp(attempt, TRUE)
    BY <1>5 DEF UselessAnswer
  <2>2. Ingesting /\ attempt \in 1..MAX_RETRIES
    BY <1>1, <2>1, OwmClientAssumption DEF CanRequest, ClientTypeOK
  <2>3. raw \subseteq raw' /\ raw' \subseteq 1..Entries
    BY <1>1, <2>1, <2>2, InHand DEF ClientTypeOK
  <2>4. QED BY <2>1, <2>2, <2>3, GiveUpKeepsInv
<1>6. CASE OtherError
  <2>1. CanRequest /\ GiveUp(attempt, TRUE) /\ raw' = raw
    BY <1>6 DEF OtherError
  <2>2. Ingesting /\ attempt \in 1..MAX_RETRIES
    BY <1>1, <2>1, OwmClientAssumption DEF CanRequest, ClientTypeOK
  <2>3. QED BY <1>1, <2>1, <2>2, GiveUpKeepsInv DEF ClientTypeOK
<1>7. CASE RateLimited
  BY <1>7, BackOffKeepsInv DEF RateLimited
<1>8. CASE Timeout
  <2>1. CASE attempt = MAX_RETRIES
    <3>1. Ingesting /\ GiveUp(attempt, FALSE) /\ raw' = raw
      BY <1>8, <2>1 DEF Timeout, CanRequest
    <3>2. attempt \in 1..MAX_RETRIES
      BY <2>1, OwmClientAssumption
    <3>3. QED BY <1>1, <2>1, <3>1, <3>2, GiveUpKeepsInv DEF ClientTypeOK
  <2>2. CASE attempt # MAX_RETRIES
    BY <1>8, <2>2, BackOffKeepsInv DEF Timeout
  <2>3. QED BY <2>1, <2>2
<1>9. CASE Exhausted
  <2>1. Ingesting /\ GiveUp(attempt - 1, FALSE) /\ raw' = raw
    BY <1>9 DEF Exhausted
  <2>2. attempt - 1 = MAX_RETRIES /\ attempt - 1 \in 1..MAX_RETRIES
    BY <1>1, <1>9, OwmClientAssumption DEF Exhausted, ClientTypeOK
  <2>3. QED BY <1>1, <2>1, <2>2, GiveUpKeepsInv DEF ClientTypeOK
<1>10. CASE UNCHANGED clientVars
  BY <1>10 DEF clientVars, ClientInv, ClientTypeOK, EveryEntryAccounted, WaitSoFar,
               SpentOrDefinitive, Ingesting
<1>11. QED
  BY <1>2, <1>3, <1>4, <1>5, <1>6, <1>7, <1>8, <1>9, <1>10 DEF ClientNext, IngestCity

LEMMA ClientInvSpent == ClientInv => RetriesAreSpent
<1> SUFFICES ASSUME ClientInv PROVE RetriesAreSpent
  OBVIOUS
<1>1. slept + 2 <= 2 ^ (MAX_RETRIES + 1)
  BY Powers DEF ClientInv, ClientTypeOK, WaitSoFar
<1>2. QED BY <1>1 DEF ClientInv, SpentOrDefinitive, RetriesAreSpent

-----------------------------------------------------------------------------
(* The client alone: every state is typed.                                   *)
THEOREM ClientTypeCorrect == ClientSpec => []ClientTypeOK
<1>1. ClientInv => ClientTypeOK
  BY DEF ClientInv
<1>2. QED BY <1>1, ClientInvInit, ClientInvStep, PTL DEF ClientSpec

(* "Skips failures" (ingest_all): each entry behind the one in hand is       *)
(* either a record with its raw file or given up, whatever the service does. *)
THEOREM EntriesAccounted == ClientSpec => []EveryEntryAccounted
<1>1. ClientInv => EveryEntryAccounted
  BY DEF ClientInv
<1>2. QED BY <1>1, ClientInvInit, ClientInvStep, PTL DEF ClientSpec

(* _get(): requests and waits of an entry are bounded, and an entry that did *)
(* not fail for good has had all its attempts.                               *)
THEOREM RetriesBounded == ClientSpec => []RetriesAreSpent
BY ClientInvInit, ClientInvStep, ClientInvSpent, PTL DEF ClientSpec
=============================================================================
