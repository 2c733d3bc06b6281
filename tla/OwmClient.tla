------------------------------- MODULE OwmClient -------------------------------
(***************************************************************************)
(* The weather client (src/src/ingestion/owm_client.py): ingest_all() asks  *)
(* for the entries of CITIES one after the other, and skips an entry whose  *)
(* ingestion raises.  One request has five outcomes: an answer, an answer   *)
(* that is of no use (no JSON, not the expected fields, no weather          *)
(* condition, not writable to disk), a refusal by the rate limiter (429), a  *)
(* timeout, and any other error.  _get() repeats the request after a        *)
(* refusal or a timeout, and after no other outcome.                        *)
(***************************************************************************)
EXTENDS Naturals, FiniteSets

CONSTANTS Entries,      \* how many entries CITIES has
          MAX_RETRIES   \* requests _get() makes for one entry, at most

ASSUME OwmClientAssumption ==
    /\ Entries \in Nat
    /\ MAX_RETRIES \in Nat \ {0}

VARIABLES
    entry,     \* entry that is being ingested
    attempt,   \* number of its next request
    slept,     \* seconds waited for it between requests
    results,   \* entries whose record is in the list that is returned
    raw,       \* entries whose answer has been saved as a file
    skipped    \* entries given up, with the requests made for them

clientVars == <<entry, attempt, slept, results, raw, skipped>>

Skip == [entry : 1..Entries, requests : 1..MAX_RETRIES, definitive : BOOLEAN]

ClientTypeOK ==
    /\ entry \in 1..(Entries + 1)
    /\ attempt \in 1..(MAX_RETRIES + 1)
    /\ slept \in Nat
    /\ results \subseteq 1..Entries
    /\ raw \subseteq 1..Entries
    /\ skipped \subseteq Skip

-----------------------------------------------------------------------------
Ingesting == entry <= Entries

CanRequest == Ingesting /\ attempt <= MAX_RETRIES

NextEntry ==
    /\ entry' = entry + 1
    /\ attempt' = 1
    /\ slept' = 0

(* The exception of ingest_city() is caught, logged, and the loop goes on.   *)
GiveUp(requests, definitive) ==
    /\ skipped' = skipped \cup {[entry |-> entry, requests |-> requests,
                                 definitive |-> definitive]}
    /\ NextEntry
    /\ UNCHANGED results

(* (Variant: the wait is not doubled but the request is not counted.)        *)
BackOffUncounted ==
    /\ slept' = slept + 2 ^ attempt
    /\ UNCHANGED <<entry, attempt, results, raw, skipped>>

BackOff ==
    /\ slept' = slept + 2 ^ attempt
    /\ attempt' = attempt + 1
    /\ UNCHANGED <<entry, results, raw, skipped>>

-----------------------------------------------------------------------------
ClientInit ==
    /\ entry = Entries + 1
    /\ attempt = 1
    /\ slept = 0
    /\ results = {}
    /\ raw = {}
    /\ skipped = {}

(* ingest_all() begins; the files of earlier runs have other names.          *)
StartIngestion ==
    /\ ~Ingesting
    /\ entry' = 1
    /\ attempt' = 1
    /\ slept' = 0
    /\ results' = {}
    /\ raw' = {}
    /\ skipped' = {}

(* ingest_all() returns its list, and its locals are gone.  Nobody reads the *)
(* files: they are left out from here on.                                    *)
Return ==
    /\ ~Ingesting
    /\ results' = {}
    /\ raw' = {}
    /\ skipped' = {}
    /\ UNCHANGED <<entry, attempt, slept>>

(* (Variant: the record is kept although its file could not be written.)     *)
AnswerUnsaved ==
    /\ CanRequest
    /\ results' = results \cup {entry}
    /\ raw' \in {raw, raw \cup {entry}}
    /\ NextEntry
    /\ UNCHANGED skipped

Answer ==
    /\ CanRequest
    /\ results' = results \cup {entry}
    /\ raw' = raw \cup {entry}
    /\ NextEntry
    /\ UNCHANGED skipped

(* The file is written before the record is flattened: it may remain.        *)
UselessAnswer ==
    /\ CanRequest
    /\ raw' \in {raw, raw \cup {entry}}
    /\ GiveUp(attempt, TRUE)

OtherError ==
    /\ CanRequest
    /\ GiveUp(attempt, TRUE)
    /\ UNCHANGED raw

(* (Variant: the loop over the attempts begins anew.)                        *)
RateLimitedForever ==
    /\ CanRequest
    /\ slept' = 0
    /\ attempt' = IF attempt = 1 THEN 2 ELSE 1
    /\ UNCHANGED <<entry, results, raw, skipped>>

RateLimited ==
    /\ CanRequest
    /\ BackOff

(* (Variant: the first timeout is raised.)                                   *)
TimeoutGivesUp ==
    /\ CanRequest
    /\ GiveUp(attempt, FALSE)
    /\ UNCHANGED raw

Timeout ==
    /\ CanRequest
    /\ IF attempt = MAX_RETRIES
         THEN GiveUp(attempt, FALSE) /\ UNCHANGED raw
         ELSE BackOff

(* The loop over the attempts ends with a RuntimeError: the last request was *)
(* refused by the rate limiter, and waited for all the same.                 *)
Exhausted ==
    /\ Ingesting
    /\ attempt > MAX_RETRIES
    /\ GiveUp(attempt - 1, FALSE)
    /\ UNCHANGED raw

IngestCity ==
    Answer \/ UselessAnswer \/ OtherError \/ RateLimited \/ Timeout \/ Exhausted

ClientNext == StartIngestion \/ IngestCity \/ Return

ClientSpec == ClientInit /\ [][ClientNext]_clientVars /\ WF_clientVars(IngestCity)

-----------------------------------------------------------------------------
(* Properties.                                                               *)

(* "Skips failures": whatever goes wrong with an entry, each earlier entry   *)
(* is either a record or given up, never both, and no later one has been     *)
(* touched; a record never comes without its raw file.                       *)
EveryEntryAccounted ==
    LET givenUp == {s.entry : s \in skipped} IN
    /\ Ingesting => results \cup givenUp = 1..(entry - 1)
    /\ ~Ingesting /\ results \cup givenUp # {} => results \cup givenUp = 1..Entries
    /\ results \cap givenUp = {}
    /\ results \subseteq raw

(* An entry costs a bounded number of requests and a bounded wait, however   *)
(* refusals and timeouts alternate, and unless it failed for good it is not  *)
(* given up before its last attempt.                                         *)
RetriesAreSpent ==
    /\ slept + 2 <= 2 ^ (MAX_RETRIES + 1)
    /\ \A s \in skipped : s.definitive \/ s.requests = MAX_RETRIES

(* An ingestion ends, also when the service never answers.                   *)
IngestionEnds == Ingesting ~> ~Ingesting
=============================================================================
