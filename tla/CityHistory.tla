----------------------------- MODULE CityHistory -----------------------------
(***************************************************************************)
(* What the city dimension promises to its readers, without the Delta table *)
(* and its two commits: a log of dated versions that only grows.  A moment  *)
(* is recorded at most once, all its versions at the same time, and never   *)
(* after a later moment has been recorded.  CityDim implements it.          *)
(***************************************************************************)
EXTENDS Naturals

CONSTANTS Cities, Attrs

VARIABLES versions,  \* the dated versions recorded so far
          now        \* the latest moment reached

historyVars == <<versions, now>>

Dated(row, t) == [city |-> row.city, attrs |-> row.attrs, from |-> t]

Init ==
    /\ versions = {}
    /\ now = 0

(* Record the rows at the present moment or at the next one.                *)
Record(rows) ==
    /\ now' \in {now, now + 1}
    /\ \A v \in versions : v.from < now'
    /\ versions' = versions \cup {Dated(n, now') : n \in rows}

Next == \E rows \in SUBSET [city : Cities, attrs : Attrs] : Record(rows)

Spec == Init /\ [][Next]_historyVars
=============================================================================
