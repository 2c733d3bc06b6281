---------------------------------- MODULE Olap ----------------------------------
(***************************************************************************)
(* The OLAP functions on Silver rows (src/src/warehouse/olap/rollups.py,     *)
(* window_analytics.py), which no other part of the repository calls yet.   *)
(***************************************************************************)
EXTENDS Reports

(* temperature_rollup(): a level groups by a prefix of (country, name, day); *)
(* its name is read off the first column of the three that is NULL.          *)
Levels == <<"global", "country", "city", "day">>

Prefix(row, n) == SubSeq(<<row.country, row.name, row.day>>, 1, n)

TemperatureRollup(df) ==
    UNION {{[level |-> Levels[n + 1], key |-> Prefix(AnyRow(df, g), n), avg |-> Avg(df, g),
             min |-> Min(Temps(df, g)), max |-> Max(Temps(df, g)), count |-> Cardinality(g)] :
               g \in Groups([i \in DOMAIN df |-> Prefix(df[i], n)])} : n \in 0..3}

-----------------------------------------------------------------------------
(* heat_wave_streaks().  `hot` holds the pairs <<city, day>> whose maximum   *)
(* reaches the threshold, `before` an order of the cities: row_number() over *)
(* obs_date alone orders the rows of one day as it happens.                  *)

RnCity(hot, c, d) == Cardinality({e \in hot : e[1] = c /\ e[2] <= d})

RnAll(hot, before, c, d) ==
    Cardinality({e \in hot : e[2] < d \/ (e[2] = d /\ (e[1] = c \/ <<e[1], c>> \in before[d]))})

Island(hot, before, c, d) == RnAll(hot, before, c, d) - RnCity(hot, c, d)

HeatWaveStreaks(hot, before) ==
    {s \in {{e \in hot : e[1] = k[1] /\ Island(hot, before, e[1], e[2]) = k[2]} :
                k \in {<<e[1], Island(hot, before, e[1], e[2])>> : e \in hot}} :
        Cardinality(s) >= 2}

-----------------------------------------------------------------------------
(* detect_anomalies() of window_analytics.py, for one city: count[v] is how  *)
(* often the value v was read.  The sample deviation of one reading is NULL, *)
(* and so is a division by a deviation of zero.  |z| > 3 is compared after   *)
(* rounding to three decimals, that is, z^2 >= 3.0005^2 = 9.003.             *)

ReadingCount(count) ==
    /\ IsFiniteSet(DOMAIN count) /\ DOMAIN count \subseteq Int
    /\ count \in [DOMAIN count -> Nat]

Readings(count) == SumFunction(count)

SumOfReadings(count) == SumFunction([v \in DOMAIN count |-> count[v] * v])

SumOfSquares(count) == SumFunction([v \in DOMAIN count |-> count[v] * v * v])

(* n times the sum of squares less the square of the sum: the sample         *)
(* variance, times n (n - 1).                                                *)
Spread(count) ==
    Readings(count) * SumOfSquares(count) - SumOfReadings(count) * SumOfReadings(count)

(* (Variant: an undefined score is no anomaly.)                              *)
IsAnomalyOrNot(count, v, undefined) ==
    LET n == Readings(count)
        dev == n * v - SumOfReadings(count)
    IN  n > 1 /\ Spread(count) > 0 /\ 1000 * dev * dev * (n - 1) >= 9003 * n * Spread(count)

IsTempAnomaly(count, v, undefined) ==
    LET n == Readings(count)
        dev == n * v - SumOfReadings(count)
    IN  IF n = 1 \/ Spread(count) = 0 THEN undefined
        ELSE 1000 * dev * dev * (n - 1) >= 9003 * n * Spread(count)
=============================================================================
