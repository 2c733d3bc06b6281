------------------------------ MODULE MCStarSync ------------------------------
(* StarSync on two cities, two attribute values and two condition codes.     *)
EXTENDS StarSync, TLC

CONSTANTS c1, c2, a1, a2, listed, unlisted, MaxAge

MCCities == {c1, c2}
MCAttrs == {a1, a2}
MCRowHash == [a \in MCAttrs |-> a]
MCKnownCodes == {listed}

(* One reading for each city that was ingested.                              *)
Readings(codes) ==
    LET Rest == [attrs : MCAttrs, age : 0..MaxAge, code : codes] IN
    UNION {{{[city |-> c, attrs |-> f[c].attrs, age |-> f[c].age, code |-> f[c].code] :
                c \in S} : f \in [S -> Rest]} : S \in (SUBSET MCCities) \ {{}}}

CitySymmetry == Permutations(MCCities)

MCSilvers == Readings({listed})
MCSilversWithUnlisted == Readings({listed, unlisted})
MCBatches == {SourceRows(readings) : readings \in MCSilvers}
=============================================================================
