------------------------------ MODULE MCHourlyRun ------------------------------
(* HourlyRun with two runs, on three entries of CITIES: one city is named    *)
(* twice, so that a batch may have two readings of it.                       *)
EXTENDS HourlyRun

CONSTANTS c1, c2

MCCityOf == <<c1, c1, c2>>

At(c, d, t) == [city |-> c, day |-> d, hour |-> 0, temp |-> t]

MCWeather == {At(c1, 1, 0), At(c1, 1, 5), At(c2, 2, 5)}
=============================================================================
