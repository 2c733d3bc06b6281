------------------------------ MODULE MCCityDim ------------------------------
(* CityDim on two cities and three attribute values, two of which differ     *)
(* only in untracked columns.                                                *)
EXTENDS CityDim, TLC

CONSTANTS c1, c2, name, nameMoved, renamed

MCCities == {c1, c2}
MCAttrs == {name, nameMoved, renamed}
MCRowHash == [a \in MCAttrs |-> IF a = renamed THEN "h2" ELSE "h1"]

(* Every batch of at most two rows: both cities, one of them, one of them    *)
(* twice, or none.                                                           *)
MCBatches == {rows \in SUBSET SourceRow : Cardinality(rows) <= 2}

CitySymmetry == Permutations(MCCities)
=============================================================================
