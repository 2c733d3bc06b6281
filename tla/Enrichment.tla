------------------------------ MODULE Enrichment ------------------------------
(***************************************************************************)
(* What the Silver job makes of one reading (src/src/processing/silver.py), *)
(* what the quality report says of it (data_quality.py), and which extreme  *)
(* event it is for the Gold table (gold.py) and for the PostgreSQL view     *)
(* (src/sql/005_warehouse_views.sql).  Temperatures and wind speeds are in   *)
(* tenths; a missing column is NULL, and predicates are three-valued.       *)
(***************************************************************************)
EXTENDS Integers, Sequences

CONSTANTS NULL,
          Names    \* city names

(* NULL is no number, no truth value and no event.                           *)
ASSUME NullAssumption ==
    /\ NULL \notin Int /\ NULL \notin BOOLEAN
    /\ NULL \notin {"extreme_heat", "extreme_cold", "storm_wind", "saturation_humidity", "low_visibility"}

TEMP_MIN == -892
TEMP_MAX == 567
WIND_MAX == 1130

(* A row of the flat schema, as far as it is used here.  The client refuses  *)
(* an answer without the other columns, so that of what the pipeline hands   *)
(* to Silver only visibility and gust may be NULL; split and report take     *)
(* rows in which any column is.                                              *)
RawReading == [name : Names \cup {NULL}, observed : Nat \cup {NULL},
               temp : Int \cup {NULL}, humidity : Int \cup {NULL}, wind : Int,
               visibility : Int \cup {NULL}, gust : Int \cup {NULL}]

IsNull(x) == x = NULL

Not(p) == IF p = NULL THEN NULL ELSE ~p

AnyOf(ps) == IF TRUE \in ps THEN TRUE ELSE IF NULL \in ps THEN NULL ELSE FALSE

Between(x, low, high) == IF x = NULL THEN NULL ELSE low <= x /\ x <= high

AtLeast(x, low) == IF x = NULL THEN NULL ELSE x >= low

AtMost(x, high) == IF x = NULL THEN NULL ELSE x <= high

-----------------------------------------------------------------------------
(* split_valid_quarantine().                                                 *)

Failed(x) ==
    AnyOf({IsNull(x.name), IsNull(x.temp), IsNull(x.observed),
           Not(Between(x.temp, TEMP_MIN, TEMP_MAX)), Not(Between(x.humidity, 0, 100))})

(* (Variant: the ranges are looked at first.)                                *)
ReasonRangesFirst(x) ==
    IF Between(x.humidity, 0, 100) = FALSE THEN "humidity_out_of_range"
    ELSE IF IsNull(x.name) THEN "null_city_name"
    ELSE IF IsNull(x.observed) THEN "null_observed_at"
    ELSE "temp_out_of_range"

Reason(x) ==
    IF IsNull(x.name) THEN "null_city_name"
    ELSE IF IsNull(x.temp) THEN "null_temperature"
    ELSE IF IsNull(x.observed) THEN "null_observed_at"
    ELSE IF ~Between(x.temp, TEMP_MIN, TEMP_MAX) THEN "temp_out_of_range"
    ELSE "humidity_out_of_range"

(* check_layer("silver"): the checks that count the row.                     *)
FailedChecks(x) ==
    {c \in {"null_city_name", "null_temperature", "temp_out_of_range", "humidity_out_of_range"} :
        CASE c = "null_city_name" -> IsNull(x.name)
          [] c = "null_temperature" -> IsNull(x.temp)
          [] c = "temp_out_of_range" -> Between(x.temp, -892, 567) = FALSE
          [] c = "humidity_out_of_range" -> Between(x.humidity, 0, 100) = FALSE}

-----------------------------------------------------------------------------
(* clamp_outliers() and enrich().                                            *)

Clamped(x) ==
    [x EXCEPT !.temp = IF Between(@, TEMP_MIN, TEMP_MAX) = TRUE THEN @ ELSE NULL,
              !.wind = IF AtMost(@, WIND_MAX) = TRUE THEN @ ELSE NULL]

(* A chain of F.when(x < bound): the first bound above x, or the last name;  *)
(* that is also the name of a NULL.                                          *)
Category(x, bounds, names) ==
    LET above == {i \in DOMAIN bounds : x # NULL /\ x < bounds[i]}
    IN  names[CHOOSE i \in DOMAIN names :
                 /\ above = {} => i = Len(names)
                 /\ above # {} => i \in above /\ \A j \in above : i <= j]

TempCategory(x) ==
    Category(x.temp, <<0, 100, 200, 300>>, <<"freezing", "cold", "mild", "warm", "hot">>)

WindCategory(x) ==
    Category(x.wind, <<5, 55, 139, 245>>, <<"calm", "light", "moderate", "strong", "storm">>)

(* Of the heat index only whether there is one.                              *)
HasHeatIndex(x) == AtLeast(x.temp, 270) = TRUE /\ AtLeast(x.humidity, 40) = TRUE

DqScore(x) ==
    100 - (IF IsNull(x.visibility) THEN 15 ELSE 0)
        - (IF IsNull(x.gust) THEN 10 ELSE 0)
        - (IF HasHeatIndex(x) THEN 0 ELSE 5)

TruncatedDiv(a, b) == IF a >= 0 THEN a \div b ELSE -((-a) \div b)

(* (Variant: the offset is taken the other way.)                             *)
LocalHourWestward(hour, offset) == TruncatedDiv(hour * 3600 - offset, 3600) % 24

(* cast("int") cuts off towards zero; Spark's remainder has the sign of the  *)
(* dividend.                                                                 *)
LocalHour(hour, offset) ==
    LET h == TruncatedDiv(hour * 3600 + offset, 3600)
    IN  h - 24 * TruncatedDiv(h, 24)

-----------------------------------------------------------------------------
(* extreme_events() and v_recent_extremes; NULL: no event.                   *)

GoldEvent(x) ==
    IF AnyOf({AtLeast(x.temp, 400), AtMost(x.temp, -200), AtLeast(x.wind, 245),
              AtLeast(x.humidity, 95), AtMost(x.visibility, 200)}) # TRUE THEN NULL
    ELSE IF AtLeast(x.temp, 400) = TRUE THEN "extreme_heat"
    ELSE IF AtMost(x.temp, -200) = TRUE THEN "extreme_cold"
    ELSE IF AtLeast(x.wind, 245) = TRUE THEN "storm_wind"
    ELSE IF AtLeast(x.humidity, 95) = TRUE THEN "saturation_humidity"
    ELSE "low_visibility"

(* (Variant: the view's CASE looks for storms first.)                        *)
ViewEventStormFirst(x) ==
    IF AtLeast(x.wind, 245) = TRUE THEN "storm_wind" ELSE GoldEvent(x)

ViewEvent(x) ==
    IF AtLeast(x.temp, 400) = TRUE THEN "extreme_heat"
    ELSE IF AtMost(x.temp, -200) = TRUE THEN "extreme_cold"
    ELSE IF AtLeast(x.wind, 245) = TRUE THEN "storm_wind"
    ELSE IF AtLeast(x.humidity, 95) = TRUE THEN "saturation_humidity"
    ELSE IF AtMost(x.visibility, 200) = TRUE THEN "low_visibility"
    ELSE NULL
=============================================================================
