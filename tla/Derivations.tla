------------------------------ MODULE Derivations ------------------------------
(***************************************************************************)
(* The columns and tables the pipeline derives, on sampled inputs: the       *)
(* variable holds one input of a kind, and each property is about the kinds *)
(* it names.  Only the loop of dim_date's generate() goes from one input to *)
(* the next.                                                                *)
(***************************************************************************)
EXTENDS Enrichment, Olap, Calendar, FiniteSets

CONSTANTS
    Inputs,    \* the inputs to begin with
    LastYear   \* generate() ends with its last day

(* An hour and minute of UTC, with an offset in use: from UTC-12 to UTC+14.  *)
ClockReading ==
    [hour : 0..23, minute : 0..59,
     offset : {o \in Int : -12 * 3600 <= o /\ o <= 14 * 3600}]

(* Pairs of a city and a day, and an order of the cities on each day.        *)
HotDays(hot, before) ==
    /\ IsFiniteSet(hot)
    /\ \A e \in hot : e = <<e[1], e[2]>> /\ e[2] \in Int
    /\ \A e, f \in hot :
          e[2] = f[2] /\ e[1] # f[1] =>
            (<<e[1], f[1]>> \in before[e[2]] <=> <<f[1], e[1]>> \notin before[e[2]])

ASSUME DerivationsAssumption ==
    /\ LastYear \in Nat
    /\ \A x \in Inputs :
         /\ x.kind = "reading" => x.of \in RawReading
         /\ x.kind = "clock" => x.of \in ClockReading
         /\ x.kind = "batch" => IsBatch(x.of)
         /\ x.kind = "readings" => ReadingCount(x.of)
         /\ x.kind = "heat" => HotDays(x.of.hot, x.of.before)
         /\ x.kind = "date" => IsDate(x.of)

VARIABLE sample

(* A kind of input, and the input.                                           *)
Input(kind, x) == [kind |-> kind, of |-> x]

Init == sample \in Inputs

(* The loop of generate(), one row per pass.                                 *)
NextDay ==
    /\ sample.kind = "date"
    /\ AddDay(sample.of).y <= LastYear
    /\ sample' = Input("date", AddDay(sample.of))

Spec == Init /\ [][NextDay]_sample

Of(kind) == sample.kind = kind

-----------------------------------------------------------------------------
(* Properties.                                                               *)

(* The quality report agrees with the split: what passed has no failing      *)
(* check, after clamping too; what is quarantined fails the check that its   *)
(* reason names, unless it has no time of observation, which no check looks  *)
(* at; and of a reading that is in neither table no check knows.  Among the  *)
(* rows that lack nothing the score tells hot weather from the rest.         *)
QuarantineAgreesWithChecks ==
    Of("reading") =>
        LET x == sample.of
            s == Clamped(x)
        IN  /\ Failed(x) = FALSE =>
                 /\ FailedChecks(s) = {} /\ s.temp = x.temp
                 /\ (DqScore(s) >= 95) = (x.visibility # NULL /\ x.gust # NULL)
                 /\ DqScore(s) = 100 =>
                      TempCategory(s) \in {"warm", "hot"} /\ s.humidity >= 40
            /\ Failed(x) = TRUE =>
                 Reason(x) \in FailedChecks(x) \cup {"null_observed_at"}
            /\ Failed(x) = NULL => FailedChecks(x) = {} /\ x.humidity = NULL

(* Gold and PostgreSQL call a Silver row the same extreme event, or none;    *)
(* an event's name fits the row's category; and a storm that is no event of  *)
(* wind or temperature is one whose speed was out of range and nulled.       *)
EventsAgree ==
    Of("reading") /\ Failed(sample.of) = FALSE =>
        LET s == Clamped(sample.of)
            byWeather == {"extreme_heat", "extreme_cold", "storm_wind"}
        IN  /\ GoldEvent(s) = ViewEvent(s)
            /\ GoldEvent(s) = "extreme_heat" => TempCategory(s) = "hot"
            /\ GoldEvent(s) = "extreme_cold" => TempCategory(s) = "freezing"
            /\ GoldEvent(s) = "storm_wind" => WindCategory(s) = "storm"
            /\ WindCategory(s) = "storm" /\ GoldEvent(s) \notin byWeather =>
                 sample.of.wind > WIND_MAX

(* But for whole days, local_hour is the hour on the clock of the city where *)
(* its offset is of whole hours, and at most an hour off where it is not,    *)
(* for minutes are not counted.  In dim_time a reading is filed under UTC:   *)
(* its key is that of one row, the one of its hour and minute, and no other  *)
(* row reads the same on a 12-hour clock.                                    *)
LocalHourFollowsClock ==
    Of("clock") =>
        LET x == sample.of
            local == x.hour * 3600 + x.minute * 60 + x.offset   \* seconds of the UTC date
            clock == (local \div 3600) % 24
            h == LocalHour(x.hour, x.offset)
            filed == {t \in DimTime : t.time_key = x.hour * 100 + x.minute}
        IN  /\ x.offset % 3600 = 0 => h % 24 = clock
            /\ \E e \in {-1, 0, 1} : h % 24 = (clock + e) % 24
            /\ \E t \in filed :
                 /\ filed = {t} /\ t.hour_24 = x.hour /\ t.minute = x.minute
                 /\ \A u \in DimTime : u.hour_12 = t.hour_12 /\ u.am_pm = t.am_pm
                                        /\ u.minute = t.minute => u = t

(* local_hour, the grain of global_hourly_trends, is an hour of the day.     *)
LocalHourInRange ==
    Of("clock") => LocalHour(sample.of.hour, sample.of.offset) \in 0..23

(* The reports of one batch are about the same rows: each counts every row   *)
(* once, averages by hour and by country differ by rounding only, a          *)
(* country's average lies within its cities' extremes, a warmer country is   *)
(* never ranked behind, and the rollup's days are the daily summary unless   *)
(* two cities of a country share a name.                                     *)
ReportsAgree ==
    Of("batch") =>
        LET df == sample.of
            n == Len(df)
            Rows(table) == SumFunction([t \in table |-> t.count])
            Total(table) == SumFunction([t \in table |-> t.count * t.avg])
            Near(t, u) == LET diff == Total(t) - Total(u) IN -n <= diff /\ diff <= n
            countries == {r.row : r \in CountryRankings(df)}
            OfCountry(c) == {i \in 1..n : df[i].country = c}
            namesDiffer == \A i, j \in 1..n :
                df[i].name = df[j].name /\ df[i].country = df[j].country => df[i].city = df[j].city
        IN  /\ \A table \in {CityDailySummary(df), GlobalHourlyTrends(df), countries} :
                 Rows(table) = n
            /\ \A l \in {"global", "country", "city", "day"} :
                 Rows({t \in TemperatureRollup(df) : t.level = l}) = n
            /\ Near(GlobalHourlyTrends(df), countries)
            /\ \A a \in countries : \E p, q \in CityDailySummary(df) :
                 p.min <= a.avg /\ a.avg <= q.max
            /\ \A p, q \in CountryRankings(df) :
                 LET g == OfCountry(p.row.country)
                     h == OfCountry(q.row.country)
                 IN  SumOver(df, g) * Cardinality(h) > SumOver(df, h) * Cardinality(g)
                       => p.rank <= q.rank
            /\ namesDiffer =>
                 {<<t.avg, t.min, t.max, t.count>> : t \in {u \in TemperatureRollup(df) : u.level = "day"}}
                   = {<<t.avg, t.min, t.max, t.count>> : t \in CityDailySummary(df)}

(* Two hot days of a city are of one streak exactly if every day from one to *)
(* the other was hot there.                                                  *)
StreaksAreConsecutiveDays ==
    Of("heat") =>
        LET hot == sample.of.hot
            streaks == HeatWaveStreaks(hot, sample.of.before)
        IN  \A e, f \in hot :
              e[1] = f[1] /\ e[2] < f[2] =>
                ((\E s \in streaks : e \in s /\ f \in s)
                   <=> \A d \in e[2]..f[2] : <<e[1], d>> \in hot)

(* No reading of a city is an anomaly before the city has eleven; from then  *)
(* on one that differs from otherwise equal readings is.  Readings that are  *)
(* all equal, or alone, are neither anomalous nor not: the flag is NULL.     *)
AnomaliesNeedElevenReadings ==
    Of("readings") =>
        LET count == sample.of
            n == Readings(count)
            read == {v \in DOMAIN count : count[v] > 0}
        IN  /\ \A v \in read :
                 /\ IsTempAnomaly(count, v, NULL) = TRUE => n >= 11
                 /\ (IsTempAnomaly(count, v, NULL) = NULL) = (read = {v})
            /\ \A v, w \in read :
                 v # w /\ read = {v, w} /\ count[v] = 1 /\ n >= 11
                   => IsTempAnomaly(count, v, NULL) = TRUE

(* From one row of dim_date to the next the key grows; a quarter, and the    *)
(* fiscal quarter with it, begins on the first of January, April, July and   *)
(* October and on no other day, a fiscal year in April and a season a month  *)
(* before a quarter; a month has as many days as its rows say; a leap year   *)
(* is one with a 366th day; weekends come two days after five.               *)
CalendarAdvances ==
    [][LET p == DateRow(sample.of)
           q == DateRow(sample'.of)
           Quarters(r) == 4 * r.year + r.quarter
           FiscalQuarters(r) == 4 * r.fiscal_year + r.fiscal_quarter
           newMonth == p.month_number # q.month_number
       IN  /\ p.date_key < q.date_key
           /\ Quarters(q) - Quarters(p) = (IF newMonth /\ q.month_number \in {1, 4, 7, 10} THEN 1 ELSE 0)
           /\ FiscalQuarters(q) - FiscalQuarters(p) = Quarters(q) - Quarters(p)
           /\ (q.fiscal_year # p.fiscal_year) = (newMonth /\ q.month_number = 4)
           /\ (q.season # p.season) = (newMonth /\ q.month_number \in {3, 6, 9, 12})
           /\ newMonth = (p.date_key % 100 = p.days_in_month)
           /\ p.year # q.year => p.is_leap_year = (p.day_of_year = 366)
           /\ p.is_weekend # p.is_weekday
           /\ (p.is_weekend /\ q.is_weekday) = (p.day_of_week = 7)
      ]_sample
=============================================================================
