------------------------------- MODULE HourlyRun -------------------------------
(***************************************************************************)
(* Pipeline runs from the weather service to the readers: OwmClient asks     *)
(* for the entries of CITIES, what it returns is the batch that Serving      *)
(* takes to the lake and PostgreSQL (src/src/pipeline_runner.py, run()).     *)
(***************************************************************************)
EXTENDS OwmClient, Serving

CONSTANTS CityOf,    \* the city an entry of CITIES names
          Weather,   \* the readings the service may answer with
          Changing   \* cities whose attributes may have changed

ASSUME HourlyRunAssumption ==
    /\ CityOf \in [1..Entries -> Cities]
    /\ Weather \subseteq Reading
    /\ Changing \subseteq Cities

VARIABLE ingestingRun   \* the run that asks the service, or NULL

vars == <<clientVars, servingVars, ingestingRun>>

TypeOK == ClientTypeOK /\ ServingTypeOK /\ ingestingRun \in Runs \cup {NULL}

(* One reading of each answered entry, less what Silver does not let pass.   *)
Batches ==
    UNION {{{answer[i] : i \in passed} :
               answer \in {a \in [passed -> Weather] : \A i \in passed : a[i].city = CityOf[i]}} :
           passed \in SUBSET results}

Init == ClientInit /\ ServingInit /\ ingestingRun = NULL

StartRun(r) ==
    /\ ingestingRun = NULL
    /\ at[r] = "waiting"
    /\ StartIngestion
    /\ ingestingRun' = r
    /\ UNCHANGED servingVars

Ingest == IngestCity /\ UNCHANGED <<servingVars, ingestingRun>>

HandOver(r) ==
    /\ ingestingRun = r
    /\ \/ results = {} /\ Abort(r)
       \/ /\ results # {}
          /\ \E readings \in Batches, changed \in SUBSET Changing : Begin(r, readings, changed)
    /\ ingestingRun' = NULL
    /\ Return

Process(r) == RunStep(r) /\ UNCHANGED <<clientVars, ingestingRun>>

Next ==
    \/ Ingest
    \/ \E r \in Runs : StartRun(r) \/ HandOver(r) \/ Process(r)

(* Every request of the client has a timeout, so that it makes its next step.*)
Spec == Init /\ [][Next]_vars /\ WF_vars(Ingest)
=============================================================================
