-------------------------------- MODULE Reports --------------------------------
(***************************************************************************)
(* The aggregations of Silver rows into the Gold tables (src/src/processing/ *)
(* gold.py).  `df` is a sequence of rows [city, name, country, day, hour,    *)
(* temp], the temperature in hundredths, so that an average rounded to two   *)
(* decimals is an integer; it stands for all columns that are aggregated.    *)
(***************************************************************************)
EXTENDS Integers, Sequences, FiniteSetsExt

IsBatch(df) ==
    /\ Len(df) \in Nat /\ DOMAIN df = 1..Len(df)
    /\ \A i \in DOMAIN df : df[i].temp \in Int

(* groupBy(): the row numbers of each group, given the key of each row.      *)
Groups(key) == {{i \in DOMAIN key : key[i] = key[j]} : j \in DOMAIN key}

SumOver(df, g) == SumFunction([i \in g |-> df[i].temp])

Temps(df, g) == {df[i].temp : i \in g}

(* round(): half away from zero.                                             *)
Rounded(sum, n) ==
    LET half(a) == (2 * a + n) \div (2 * n) IN IF sum >= 0 THEN half(sum) ELSE -half(-sum)

Avg(df, g) == Rounded(SumOver(df, g), Cardinality(g))

AnyRow(df, g) == df[CHOOSE i \in g : TRUE]

-----------------------------------------------------------------------------
(* Also the aggregates of fact_daily_weather, whose frame has the city's     *)
(* surrogate key besides.                                                    *)
CityDailySummary(df) ==
    {[city |-> AnyRow(df, g).city, name |-> AnyRow(df, g).name,
      country |-> AnyRow(df, g).country, day |-> AnyRow(df, g).day, avg |-> Avg(df, g),
      min |-> Min(Temps(df, g)), max |-> Max(Temps(df, g)), count |-> Cardinality(g)] :
        g \in Groups([i \in DOMAIN df |-> <<df[i].city, df[i].name, df[i].country, df[i].day>>])}

(* (Variant: only the hours of the clock.)                                   *)
TrendsOfTheClock(df) ==
    {[hour |-> AnyRow(df, g).hour, avg |-> Avg(df, g), count |-> Cardinality(g)] :
        g \in {h \in Groups([i \in DOMAIN df |-> df[i].hour]) : AnyRow(df, h).hour \in 0..23}}

GlobalHourlyTrends(df) ==
    {[hour |-> AnyRow(df, g).hour, avg |-> Avg(df, g), count |-> Cardinality(g)] :
        g \in Groups([i \in DOMAIN df |-> df[i].hour])}

CountryRankings(df) ==
    LET agg == {[country |-> AnyRow(df, g).country, avg |-> Avg(df, g), count |-> Cardinality(g),
                 cities |-> Cardinality({df[i].city : i \in g})] :
                    g \in Groups([i \in DOMAIN df |-> df[i].country])}
    IN  {[row |-> a, rank |-> 1 + Cardinality({b \in agg : b.avg > a.avg})] : a \in agg}
=============================================================================
