----------------------------- MODULE MCMedallion -----------------------------
(* Medallion on two grains; CITIES has two entries for the city of the first *)
(* grain and one for the city of the second.                                 *)
EXTENDS Medallion, TLC

CONSTANTS alias1, alias2, other, k1, k2, warm, cold, broken

MCEntries == {alias1, alias2, other}
MCKeys == {k1, k2}
MCBodies == {warm, cold, broken}
MCBroken == {broken}

Answer(e, b) == [entry |-> e, key |-> IF e = other THEN k2 ELSE k1, body |-> b]

(* Both cities answer, or one; the two entries of a city answer alike, or   *)
(* one reading passes the quality split and the other fails it.              *)
MCIngestions ==
    {{Answer(alias1, warm), Answer(other, broken)},
     {Answer(alias1, broken)},
     {Answer(alias1, warm), Answer(alias2, warm)},
     {Answer(alias1, cold), Answer(alias2, broken)}}

MCOneEntry == {{Answer(alias1, b)} : b \in MCBodies}

JobSymmetry ==
    Permutations(Pipelines) \cup Permutations(BronzeJobs) \cup Permutations(SilverJobs)
=============================================================================
