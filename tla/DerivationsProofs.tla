--------------------------- MODULE DerivationsProofs ---------------------------
(***************************************************************************)
(* Theorems about the derived columns, the OLAP functions and the calendar:  *)
(* what the run of Derivations shows of sampled inputs, for every input.     *)
(***************************************************************************)
EXTENDS Derivations, OlapProofs

-----------------------------------------------------------------------------
(* Three-valued logic.                                                       *)
LEMMA Nulls ==
    /\ NULL \notin Int /\ NULL # TRUE /\ NULL # FALSE
    /\ NULL \notin {"extreme_heat", "extreme_cold", "storm_wind", "saturation_humidity", "low_visibility"}
BY NullAssumption

LEMMA Failing ==
    ASSUME NEW x \in RawReading
    PROVE  /\ Failed(x) = TRUE <=>
                 \/ x.name = NULL \/ x.temp = NULL \/ x.observed = NULL
                 \/ x.temp # NULL /\ ~(TEMP_MIN <= x.temp /\ x.temp <= TEMP_MAX)
                 \/ x.humidity # NULL /\ ~(0 <= x.humidity /\ x.humidity <= 100)
           /\ Failed(x) = NULL <=>
                 /\ x.name # NULL /\ x.temp # NULL /\ x.observed # NULL
                 /\ TEMP_MIN <= x.temp /\ x.temp <= TEMP_MAX /\ x.humidity = NULL
           /\ Failed(x) \in {TRUE, FALSE, NULL}
<1>1. /\ Not(Between(x.temp, TEMP_MIN, TEMP_MAX)) =
             IF x.temp = NULL THEN NULL ELSE ~(TEMP_MIN <= x.temp /\ x.temp <= TEMP_MAX)
      /\ Not(Between(x.humidity, 0, 100)) =
             IF x.humidity = NULL THEN NULL ELSE ~(0 <= x.humidity /\ x.humidity <= 100)
  BY Nulls, Zenon DEF Not, Between
<1> DEFINE p == Not(Between(x.temp, TEMP_MIN, TEMP_MAX))
<1> DEFINE h == Not(Between(x.humidity, 0, 100))
<1>2. Failed(x) = AnyOf({x.name = NULL, x.temp = NULL, x.observed = NULL, p, h})
  BY DEF Failed, IsNull
<1>3. QED BY <1>1, <1>2, Nulls DEF AnyOf

LEMMA ClampedReading ==
    ASSUME NEW x \in RawReading
    PROVE  /\ Clamped(x).name = x.name /\ Clamped(x).humidity = x.humidity
           /\ Clamped(x).visibility = x.visibility /\ Clamped(x).gust = x.gust
           /\ Clamped(x).temp = IF x.temp # NULL /\ TEMP_MIN <= x.temp /\ x.temp <= TEMP_MAX
                                  THEN x.temp ELSE NULL
           /\ Clamped(x).wind = IF x.wind <= WIND_MAX THEN x.wind ELSE NULL
<1>1. Between(x.temp, TEMP_MIN, TEMP_MAX) = TRUE
         <=> x.temp # NULL /\ TEMP_MIN <= x.temp /\ x.temp <= TEMP_MAX
  BY Nulls DEF Between
<1>2. AtMost(x.wind, WIND_MAX) = TRUE <=> x.wind <= WIND_MAX
  BY Nulls DEF AtMost, RawReading
<1>3. QED BY <1>1, <1>2 DEF Clamped, RawReading

(* A chain of F.when takes the first bound above x.                          *)
LEMMA CategoryOf ==
    ASSUME NEW x \in Int \cup {NULL}, NEW b, NEW n,
           DOMAIN b = {1, 2, 3, 4}, DOMAIN n = {1, 2, 3, 4, 5}, Len(n) = 5,
           b[1] \in Int, b[2] \in Int, b[3] \in Int, b[4] \in Int,
           b[1] < b[2], b[2] < b[3], b[3] < b[4]
    PROVE  Category(x, b, n) =
             IF x = NULL THEN n[5] ELSE IF x < b[1] THEN n[1] ELSE IF x < b[2] THEN n[2]
             ELSE IF x < b[3] THEN n[3] ELSE IF x < b[4] THEN n[4] ELSE n[5]
<1> DEFINE above == {i \in DOMAIN b : x # NULL /\ x < b[i]}
<1> DEFINE Is(i) == /\ above = {} => i = Len(n)
                    /\ above # {} => i \in above /\ \A j \in above : i <= j
<1>2. Category(x, b, n) = n[CHOOSE i \in DOMAIN n : Is(i)]
  BY DEF Category
<1>3. above = IF x = NULL THEN {} ELSE IF x < b[1] THEN {1, 2, 3, 4} ELSE IF x < b[2] THEN {2, 3, 4}
              ELSE IF x < b[3] THEN {3, 4} ELSE IF x < b[4] THEN {4} ELSE {}
  OBVIOUS
<1> HIDE DEF above
<1> DEFINE k == IF x = NULL THEN 5 ELSE IF x < b[1] THEN 1 ELSE IF x < b[2] THEN 2
                ELSE IF x < b[3] THEN 3 ELSE IF x < b[4] THEN 4 ELSE 5
<1>4. k \in DOMAIN n /\ Is(k)
  BY <1>3
<1>5. \A i \in DOMAIN n : Is(i) => i = k
  BY <1>3
<1> HIDE DEF Is
<1>6. (CHOOSE i \in DOMAIN n : Is(i)) = k
  <2> HIDE DEF k
  <2>1. QED BY <1>4, <1>5
<1>7. QED BY <1>2, <1>6

LEMMA TemperatureBounds ==
    ASSUME NEW t \in Int \cup {NULL}
    PROVE  Category(t, <<0, 100, 200, 300>>, <<"freezing", "cold", "mild", "warm", "hot">>) =
             IF t = NULL THEN "hot" ELSE IF t < 0 THEN "freezing" ELSE IF t < 100 THEN "cold"
               ELSE IF t < 200 THEN "mild" ELSE IF t < 300 THEN "warm" ELSE "hot"
<1> DEFINE b == <<0, 100, 200, 300>>
<1> DEFINE n == <<"freezing", "cold", "mild", "warm", "hot">>
<1>1. /\ DOMAIN b = {1, 2, 3, 4} /\ DOMAIN n = {1, 2, 3, 4, 5} /\ Len(n) = 5
  OBVIOUS
<1>2. /\ b[1] = 0 /\ b[2] = 100 /\ b[3] = 200 /\ b[4] = 300
      /\ n[1] = "freezing" /\ n[2] = "cold" /\ n[3] = "mild" /\ n[4] = "warm" /\ n[5] = "hot"
  OBVIOUS
<1> HIDE DEF b, n
<1>3. /\ b[1] \in Int /\ b[2] \in Int /\ b[3] \in Int /\ b[4] \in Int
      /\ b[1] < b[2] /\ b[2] < b[3] /\ b[3] < b[4]
  BY <1>2
<1>4. Category(t, b, n) =
        IF t = NULL THEN n[5] ELSE IF t < b[1] THEN n[1] ELSE IF t < b[2] THEN n[2]
        ELSE IF t < b[3] THEN n[3] ELSE IF t < b[4] THEN n[4] ELSE n[5]
  BY <1>1, <1>3, CategoryOf
<1>5. Category(t, b, n) =
             IF t = NULL THEN "hot" ELSE IF t < 0 THEN "freezing" ELSE IF t < 100 THEN "cold"
               ELSE IF t < 200 THEN "mild" ELSE IF t < 300 THEN "warm" ELSE "hot"
  BY <1>2, <1>4
<1>6. QED BY <1>5 DEF b, n

LEMMA Temperature ==
    ASSUME NEW x, x.temp \in Int \cup {NULL}
    PROVE  /\ TempCategory(x) = "freezing" <=> x.temp # NULL /\ x.temp < 0
           /\ TempCategory(x) = "hot" <=> x.temp = NULL \/ x.temp >= 300
           /\ TempCategory(x) = "warm" <=> x.temp # NULL /\ x.temp >= 200 /\ x.temp < 300
<1>1. PICK t \in Int \cup {NULL} : t = x.temp
  OBVIOUS
<1>2. TempCategory(x) = Category(t, <<0, 100, 200, 300>>, <<"freezing", "cold", "mild", "warm", "hot">>)
  BY <1>1 DEF TempCategory
<1>3. Category(t, <<0, 100, 200, 300>>, <<"freezing", "cold", "mild", "warm", "hot">>) =
             IF t = NULL THEN "hot" ELSE IF t < 0 THEN "freezing" ELSE IF t < 100 THEN "cold"
               ELSE IF t < 200 THEN "mild" ELSE IF t < 300 THEN "warm" ELSE "hot"
  BY TemperatureBounds
<1>4. /\ TempCategory(x) = "freezing" <=> t # NULL /\ t < 0
      /\ TempCategory(x) = "hot" <=> t = NULL \/ t >= 300
      /\ TempCategory(x) = "warm" <=> t # NULL /\ t >= 200 /\ t < 300
  BY <1>2, <1>3
<1>5. QED BY <1>1, <1>4

LEMMA WindBounds ==
    ASSUME NEW t \in Int \cup {NULL}
    PROVE  Category(t, <<5, 55, 139, 245>>, <<"calm", "light", "moderate", "strong", "storm">>) =
             IF t = NULL THEN "storm" ELSE IF t < 5 THEN "calm" ELSE IF t < 55 THEN "light"
               ELSE IF t < 139 THEN "moderate" ELSE IF t < 245 THEN "strong" ELSE "storm"
<1> DEFINE b == <<5, 55, 139, 245>>
<1> DEFINE n == <<"calm", "light", "moderate", "strong", "storm">>
<1>1. /\ DOMAIN b = {1, 2, 3, 4} /\ DOMAIN n = {1, 2, 3, 4, 5} /\ Len(n) = 5
  OBVIOUS
<1>2. /\ b[1] = 5 /\ b[2] = 55 /\ b[3] = 139 /\ b[4] = 245
      /\ n[1] = "calm" /\ n[2] = "light" /\ n[3] = "moderate" /\ n[4] = "strong" /\ n[5] = "storm"
  OBVIOUS
<1> HIDE DEF b, n
<1>3. /\ b[1] \in Int /\ b[2] \in Int /\ b[3] \in Int /\ b[4] \in Int
      /\ b[1] < b[2] /\ b[2] < b[3] /\ b[3] < b[4]
  BY <1>2
<1>4. Category(t, b, n) =
        IF t = NULL THEN n[5] ELSE IF t < b[1] THEN n[1] ELSE IF t < b[2] THEN n[2]
        ELSE IF t < b[3] THEN n[3] ELSE IF t < b[4] THEN n[4] ELSE n[5]
  BY <1>1, <1>3, CategoryOf
<1>5. Category(t, b, n) =
             IF t = NULL THEN "storm" ELSE IF t < 5 THEN "calm" ELSE IF t < 55 THEN "light"
               ELSE IF t < 139 THEN "moderate" ELSE IF t < 245 THEN "strong" ELSE "storm"
  BY <1>2, <1>4
<1>6. QED BY <1>5 DEF b, n

LEMMA Wind ==
    ASSUME NEW x, x.wind \in Int \cup {NULL}
    PROVE  WindCategory(x) = "storm" <=> x.wind = NULL \/ x.wind >= 245
<1>1. PICK t \in Int \cup {NULL} : t = x.wind
  OBVIOUS
<1>2. WindCategory(x) = Category(t, <<5, 55, 139, 245>>, <<"calm", "light", "moderate", "strong", "storm">>)
  BY <1>1 DEF WindCategory
<1>3. Category(t, <<5, 55, 139, 245>>, <<"calm", "light", "moderate", "strong", "storm">>) =
             IF t = NULL THEN "storm" ELSE IF t < 5 THEN "calm" ELSE IF t < 55 THEN "light"
               ELSE IF t < 139 THEN "moderate" ELSE IF t < 245 THEN "strong" ELSE "storm"
  BY WindBounds
<1>4. WindCategory(x) = "storm" <=> t = NULL \/ t >= 245
  BY <1>2, <1>3
<1>5. QED BY <1>1, <1>4

-----------------------------------------------------------------------------
(* The sample is always one of the inputs, or a date.                        *)
Sampled ==
    \/ sample \in Inputs
    \/ sample.kind = "date" /\ IsDate(sample.of)

LEMMA SampleOfKind ==
    ASSUME Sampled
    PROVE  /\ sample.kind = "reading" => sample.of \in RawReading
           /\ sample.kind = "clock" => sample.of \in ClockReading
           /\ sample.kind = "batch" => IsBatch(sample.of)
           /\ sample.kind = "readings" => ReadingCount(sample.of)
           /\ sample.kind = "heat" => HotDays(sample.of.hot, sample.of.before)
           /\ sample.kind = "date" => IsDate(sample.of)
BY DerivationsAssumption DEF Sampled

LEMMA FailedChecksOf ==
    ASSUME NEW x
    PROVE  /\ "null_city_name" \in FailedChecks(x) <=> x.name = NULL
           /\ "null_temperature" \in FailedChecks(x) <=> x.temp = NULL
           /\ "temp_out_of_range" \in FailedChecks(x) <=> Between(x.temp, TEMP_MIN, TEMP_MAX) = FALSE
           /\ "humidity_out_of_range" \in FailedChecks(x) <=> Between(x.humidity, 0, 100) = FALSE
           /\ FailedChecks(x) \subseteq {"null_city_name", "null_temperature",
                                         "temp_out_of_range", "humidity_out_of_range"}
<1> DEFINE Fails(c) ==
             CASE c = "null_city_name" -> IsNull(x.name)
               [] c = "null_temperature" -> IsNull(x.temp)
               [] c = "temp_out_of_range" -> Between(x.temp, -892, 567) = FALSE
               [] c = "humidity_out_of_range" -> Between(x.humidity, 0, 100) = FALSE
<1>1. FailedChecks(x) =
        {c \in {"null_city_name", "null_temperature", "temp_out_of_range", "humidity_out_of_range"} : Fails(c)}
  BY DEF FailedChecks
<1>2. Fails("null_city_name") <=> x.name = NULL
  BY DEF IsNull
<1>3. Fails("null_temperature") <=> x.temp = NULL
  BY DEF IsNull
<1>4. Fails("temp_out_of_range") <=> Between(x.temp, TEMP_MIN, TEMP_MAX) = FALSE
  BY DEF TEMP_MIN, TEMP_MAX
<1>5. Fails("humidity_out_of_range") <=> Between(x.humidity, 0, 100) = FALSE
  OBVIOUS
<1> HIDE DEF Fails
<1>6. QED BY <1>1, <1>2, <1>3, <1>4, <1>5

(* For every reading, the quality report agrees with the split.              *)
LEMMA ReadingChecks ==
    ASSUME NEW x \in RawReading
    PROVE  LET s == Clamped(x)
           IN  /\ Failed(x) = FALSE =>
                    /\ FailedChecks(s) = {} /\ s.temp = x.temp
                    /\ (DqScore(s) >= 95) = (x.visibility # NULL /\ x.gust # NULL)
                    /\ DqScore(s) = 100 =>
                         TempCategory(s) \in {"warm", "hot"} /\ s.humidity >= 40
               /\ Failed(x) = TRUE =>
                    Reason(x) \in FailedChecks(x) \cup {"null_observed_at"}
               /\ Failed(x) = NULL => FailedChecks(x) = {} /\ x.humidity = NULL
<1> DEFINE s == Clamped(x)
<1>1. /\ x.temp \in Int \cup {NULL} /\ x.humidity \in Int \cup {NULL}
      /\ TEMP_MIN \in Int /\ TEMP_MAX \in Int /\ TEMP_MIN = -892 /\ TEMP_MAX = 567
  BY DEF RawReading, TEMP_MIN, TEMP_MAX
<1>2. /\ s.name = x.name /\ s.humidity = x.humidity
      /\ s.visibility = x.visibility /\ s.gust = x.gust
      /\ s.temp = IF x.temp # NULL /\ TEMP_MIN <= x.temp /\ x.temp <= TEMP_MAX
                    THEN x.temp ELSE NULL
  BY ClampedReading
<1> HIDE DEF s
<1>3. /\ Between(x.temp, TEMP_MIN, TEMP_MAX) = FALSE
           <=> x.temp # NULL /\ ~(TEMP_MIN <= x.temp /\ x.temp <= TEMP_MAX)
      /\ Between(x.humidity, 0, 100) = FALSE
           <=> x.humidity # NULL /\ ~(0 <= x.humidity /\ x.humidity <= 100)
  BY Nulls, Zenon DEF Between
<1>4. CASE Failed(x) = FALSE
  <2>1. /\ x.name # NULL /\ x.temp # NULL /\ x.observed # NULL
        /\ TEMP_MIN <= x.temp /\ x.temp <= TEMP_MAX
        /\ x.humidity # NULL /\ 0 <= x.humidity /\ x.humidity <= 100
    <3>1. Failed(x) # TRUE /\ Failed(x) # NULL
      BY <1>4, Nulls
    <3>2. QED BY <3>1, Failing
  <2>2. s.temp = x.temp /\ s.temp \in Int /\ s.humidity \in Int
    BY <1>1, <1>2, <2>1
  <2>3. FailedChecks(s) = {}
    <3>1. /\ Between(s.temp, TEMP_MIN, TEMP_MAX) # FALSE
          /\ Between(s.humidity, 0, 100) # FALSE
      BY <1>2, <1>3, <2>1, <2>2
    <3>2. QED BY <1>2, <2>1, <2>2, <3>1, FailedChecksOf
  <2>4. HasHeatIndex(s) <=> s.temp >= 270 /\ s.humidity >= 40
    BY <2>2, Nulls DEF HasHeatIndex, AtLeast
  <2>5. (DqScore(s) >= 95) = (x.visibility # NULL /\ x.gust # NULL)
    BY <1>2 DEF DqScore, IsNull
  <2>6. DqScore(s) = 100 => HasHeatIndex(s)
    BY DEF DqScore
  <2>7. s.temp >= 270 => TempCategory(s) \in {"warm", "hot"}
    BY <2>2, Temperature, Nulls
  <2>8. QED BY <1>4, <2>2, <2>3, <2>4, <2>5, <2>6, <2>7, Nulls DEF s
<1>5. CASE Failed(x) = TRUE
  <2>1. \/ x.name = NULL \/ x.temp = NULL \/ x.observed = NULL
        \/ x.temp # NULL /\ ~(TEMP_MIN <= x.temp /\ x.temp <= TEMP_MAX)
        \/ x.humidity # NULL /\ ~(0 <= x.humidity /\ x.humidity <= 100)
    BY <1>5, Failing
  <2>2. x.temp # NULL => (Between(x.temp, TEMP_MIN, TEMP_MAX) <=> TEMP_MIN <= x.temp /\ x.temp <= TEMP_MAX)
    BY DEF Between
  <2>3. Reason(x) \in FailedChecks(x) \cup {"null_observed_at"}
    <3>1. CASE x.name = NULL
      BY <3>1, FailedChecksOf DEF Reason, IsNull
    <3>2. CASE x.name # NULL /\ x.temp = NULL
      BY <3>2, FailedChecksOf DEF Reason, IsNull
    <3>3. CASE x.name # NULL /\ x.temp # NULL /\ x.observed = NULL
      BY <3>3 DEF Reason, IsNull
    <3>4. CASE /\ x.name # NULL /\ x.temp # NULL /\ x.observed # NULL
               /\ ~(TEMP_MIN <= x.temp /\ x.temp <= TEMP_MAX)
      <4>1. Reason(x) = "temp_out_of_range"
        BY <2>2, <3>4 DEF Reason, IsNull
      <4>2. QED BY <1>3, <3>4, <4>1, FailedChecksOf
    <3>5. CASE /\ x.name # NULL /\ x.temp # NULL /\ x.observed # NULL
               /\ TEMP_MIN <= x.temp /\ x.temp <= TEMP_MAX
      <4>1. Reason(x) = "humidity_out_of_range"
        BY <2>2, <3>5 DEF Reason, IsNull
      <4>2. Between(x.humidity, 0, 100) = FALSE
        BY <1>3, <2>1, <3>5
      <4>3. QED BY <4>1, <4>2, FailedChecksOf
    <3>6. QED BY <3>1, <3>2, <3>3, <3>4, <3>5
  <2>4. Failed(x) # FALSE /\ Failed(x) # NULL
    BY <1>5, Nulls
  <2>5. QED BY <2>3, <2>4
<1>6. CASE Failed(x) = NULL
  <2>1. /\ x.name # NULL /\ x.temp # NULL /\ x.observed # NULL
        /\ TEMP_MIN <= x.temp /\ x.temp <= TEMP_MAX /\ x.humidity = NULL
    BY <1>6, Failing
  <2>2. FailedChecks(x) = {}
    BY <1>3, <2>1, FailedChecksOf
  <2>3. Failed(x) # FALSE /\ Failed(x) # TRUE
    BY <1>6, Nulls
  <2>4. QED BY <2>1, <2>2, <2>3
<1>7. QED BY <1>4, <1>5, <1>6, Failing

(* For every reading that passes, Gold and the view agree.                   *)
LEMMA ReadingEvents ==
    ASSUME NEW x \in RawReading, Failed(x) = FALSE
    PROVE  LET s == Clamped(x)
               byWeather == {"extreme_heat", "extreme_cold", "storm_wind"}
           IN  /\ GoldEvent(s) = ViewEvent(s)
               /\ GoldEvent(s) = "extreme_heat" => TempCategory(s) = "hot"
               /\ GoldEvent(s) = "extreme_cold" => TempCategory(s) = "freezing"
               /\ GoldEvent(s) = "storm_wind" => WindCategory(s) = "storm"
               /\ WindCategory(s) = "storm" /\ GoldEvent(s) \notin byWeather =>
                    x.wind > WIND_MAX
<1> DEFINE s == Clamped(x)
<1> DEFINE heat == AtLeast(s.temp, 400)
<1> DEFINE cold == AtMost(s.temp, -200)
<1> DEFINE wind == AtLeast(s.wind, 245)
<1> DEFINE damp == AtLeast(s.humidity, 95)
<1> DEFINE fog == AtMost(s.visibility, 200)
<1>1. /\ x.wind \in Int /\ x.visibility \in Int \cup {NULL} /\ WIND_MAX = 1130
      /\ x.temp \in Int /\ x.humidity \in Int
  <2>1. Failed(x) # TRUE /\ Failed(x) # NULL
    BY Nulls
  <2>2. x.temp # NULL /\ x.humidity # NULL
    BY <2>1, Failing
  <2>3. QED BY <2>2 DEF RawReading, WIND_MAX
<1>2. /\ s.temp \in Int \cup {NULL} /\ s.wind \in Int \cup {NULL}
      /\ s.wind = IF x.wind <= WIND_MAX THEN x.wind ELSE NULL
  BY <1>1, ClampedReading
<1>3. GoldEvent(s) =
        IF heat = TRUE THEN "extreme_heat" ELSE IF cold = TRUE THEN "extreme_cold"
        ELSE IF wind = TRUE THEN "storm_wind" ELSE IF damp = TRUE THEN "saturation_humidity"
        ELSE IF fog = TRUE THEN "low_visibility" ELSE NULL
  <2>1. GoldEvent(s) =
          IF AnyOf({heat, cold, wind, damp, fog}) # TRUE THEN NULL
          ELSE IF heat = TRUE THEN "extreme_heat" ELSE IF cold = TRUE THEN "extreme_cold"
          ELSE IF wind = TRUE THEN "storm_wind" ELSE IF damp = TRUE THEN "saturation_humidity"
          ELSE "low_visibility"
    BY DEF GoldEvent
  <2> HIDE DEF heat, cold, wind, damp, fog
  <2>2. AnyOf({heat, cold, wind, damp, fog}) = TRUE
          <=> heat = TRUE \/ cold = TRUE \/ wind = TRUE \/ damp = TRUE \/ fog = TRUE
    BY Nulls, Zenon DEF AnyOf
  <2>3. QED BY <2>1, <2>2
<1>4. ViewEvent(s) = GoldEvent(s)
  BY <1>3 DEF ViewEvent
<1>5. /\ heat = TRUE <=> s.temp # NULL /\ s.temp >= 400
      /\ cold = TRUE <=> s.temp # NULL /\ s.temp <= -200
      /\ wind = TRUE <=> s.wind # NULL /\ s.wind >= 245
  BY <1>2, Nulls DEF AtLeast, AtMost
<1> HIDE DEF s, heat, cold, wind, damp, fog
<1>0. NULL \notin {"extreme_heat", "extreme_cold", "storm_wind", "saturation_humidity", "low_visibility"}
  BY Nulls
<1>6. GoldEvent(s) = "extreme_heat" => heat = TRUE
  BY <1>0, <1>3
<1>7. GoldEvent(s) = "extreme_cold" => cold = TRUE
  BY <1>0, <1>3
<1>8. /\ GoldEvent(s) = "storm_wind" => wind = TRUE
      /\ wind = TRUE => GoldEvent(s) \in {"extreme_heat", "extreme_cold", "storm_wind"}
  BY <1>0, <1>3
<1>9. GoldEvent(s) = "extreme_heat" => TempCategory(s) = "hot"
  <2>1. heat = TRUE => s.temp = NULL \/ s.temp >= 300
    BY <1>2, <1>5
  <2>2. QED BY <1>2, <1>6, <2>1, Temperature
<1>10. GoldEvent(s) = "extreme_cold" => TempCategory(s) = "freezing"
  <2>1. cold = TRUE => s.temp # NULL /\ s.temp < 0
    BY <1>2, <1>5
  <2>2. QED BY <1>2, <1>7, <2>1, Temperature
<1>11. GoldEvent(s) = "storm_wind" => WindCategory(s) = "storm"
  BY <1>2, <1>5, <1>8, Wind
<1>12. /\ WindCategory(s) = "storm"
       /\ GoldEvent(s) \notin {"extreme_heat", "extreme_cold", "storm_wind"}
       => x.wind > WIND_MAX
  <2>1. SUFFICES ASSUME WindCategory(s) = "storm", wind # TRUE
                 PROVE  x.wind > WIND_MAX
    BY <1>8
  <2>2. s.wind = NULL
    BY <1>2, <1>5, <2>1, Wind
  <2>3. QED BY <1>1, <1>2, <2>2, Nulls
<1>13. QED BY <1>4, <1>9, <1>10, <1>11, <1>12 DEF s


-----------------------------------------------------------------------------
(* The calendar.                                                             *)
LEMMA MonthLength ==
    ASSUME NEW y, NEW m
    PROVE  /\ MonthRange(y, m) = IF m = 2 THEN (IF IsLeap(y) THEN 29 ELSE 28)
                                 ELSE IF m \in {4, 6, 9, 11} THEN 30 ELSE 31
           /\ MonthRange(y, m) \in 28..31
BY DEF MonthRange, IsLeap

(* The days before a month are those before the last one and its own.        *)
LEMMA DaysBeforeNext ==
    ASSUME NEW y, NEW m \in 1..12
    PROVE  /\ DaysBefore(y, m) \in Nat
           /\ DaysBefore(y, 1) = 0
           /\ m # 12 => DaysBefore(y, m + 1) = DaysBefore(y, m) + MonthRange(y, m)
           /\ DaysBefore(y, 12) = IF IsLeap(y) THEN 335 ELSE 334
<1>1. \A k \in 1..12 : DaysBefore(y, k) =
        <<0, 31, 59, 90, 120, 151, 181, 212, 243, 273, 304, 334>>[k]
          + (IF k > 2 /\ IsLeap(y) THEN 1 ELSE 0)
  <2>1. MonthRange(y, 2) = 29 <=> IsLeap(y)
    BY MonthLength
  <2>2. QED BY <2>1 DEF DaysBefore
<1>2. MonthRange(y, m) = IF m = 2 THEN (IF IsLeap(y) THEN 29 ELSE 28)
                         ELSE IF m \in {4, 6, 9, 11} THEN 30 ELSE 31
  BY MonthLength
<1>3. m \in {1, 2, 3, 4, 5, 6, 7, 8, 9, 10, 11, 12}
  OBVIOUS
<1>4. QED BY <1>1, <1>2, <1>3

LEMMA NextDate ==
    ASSUME NEW t, IsDate(t)
    PROVE  LET u == AddDay(t)
               newMonth == t.d = MonthRange(t.y, t.m)
           IN  /\ u.y = (IF newMonth /\ t.m = 12 THEN t.y + 1 ELSE t.y)
               /\ u.m = (IF newMonth THEN (IF t.m = 12 THEN 1 ELSE t.m + 1) ELSE t.m)
               /\ u.d = (IF newMonth THEN 1 ELSE t.d + 1)
               /\ u.weekday = (t.weekday + 1) % 7
               /\ u.yday = (IF newMonth /\ t.m = 12 THEN 1 ELSE t.yday + 1)
               /\ u = [y |-> u.y, m |-> u.m, d |-> u.d, weekday |-> u.weekday, yday |-> u.yday]
BY DEF AddDay

(* The day after a date is a date.                                           *)
LEMMA AddDayIsDate ==
    ASSUME NEW t, IsDate(t)
    PROVE  IsDate(AddDay(t))
<1> DEFINE u == AddDay(t)
<1> DEFINE newMonth == t.d = MonthRange(t.y, t.m)
<1>1. /\ t.y \in Nat /\ t.m \in 1..12 /\ t.d \in 1..MonthRange(t.y, t.m)
      /\ t.weekday \in 0..6 /\ t.yday = DaysBefore(t.y, t.m) + t.d
  BY DEF IsDate
<1>2. /\ u.y = (IF newMonth /\ t.m = 12 THEN t.y + 1 ELSE t.y)
      /\ u.m = (IF newMonth THEN (IF t.m = 12 THEN 1 ELSE t.m + 1) ELSE t.m)
      /\ u.d = (IF newMonth THEN 1 ELSE t.d + 1)
      /\ u.weekday = (t.weekday + 1) % 7
      /\ u.yday = (IF newMonth /\ t.m = 12 THEN 1 ELSE t.yday + 1)
      /\ u = [y |-> u.y, m |-> u.m, d |-> u.d, weekday |-> u.weekday, yday |-> u.yday]
  BY NextDate
<1>3. /\ MonthRange(t.y, t.m) \in 28..31 /\ MonthRange(u.y, u.m) \in 28..31
  BY MonthLength
<1> HIDE DEF u
<1>4. u.y \in Nat /\ u.m \in 1..12 /\ u.weekday \in 0..6
  BY <1>1, <1>2
<1>5. u.d \in 1..MonthRange(u.y, u.m)
  <2>1. CASE newMonth
    BY <1>1, <1>2, <1>3, <2>1
  <2>2. CASE ~newMonth
    <3>1. u.y = t.y /\ u.m = t.m /\ u.d = t.d + 1 /\ t.d # MonthRange(t.y, t.m)
      BY <1>2, <2>2
    <3>2. QED BY <1>1, <1>3, <3>1
  <2>3. QED BY <2>1, <2>2
<1>6. u.yday = DaysBefore(u.y, u.m) + u.d
  <2>1. CASE newMonth /\ t.m = 12
    BY <1>2, <2>1, <1>1, DaysBeforeNext
  <2>2. CASE newMonth /\ t.m # 12
    <3>1. /\ u.y = t.y /\ u.m = t.m + 1 /\ u.d = 1 /\ u.yday = t.yday + 1
          /\ t.d = MonthRange(t.y, t.m)
      BY <1>2, <2>2
    <3>2. DaysBefore(t.y, t.m + 1) = DaysBefore(t.y, t.m) + MonthRange(t.y, t.m)
      BY <1>1, <2>2, DaysBeforeNext
    <3>3. DaysBefore(t.y, t.m) \in Nat
      BY <1>1, DaysBeforeNext
    <3>4. QED BY <1>1, <1>3, <3>1, <3>2, <3>3
  <2>3. CASE ~newMonth
    <3>1. u.y = t.y /\ u.m = t.m /\ u.d = t.d + 1 /\ u.yday = t.yday + 1
      BY <1>2, <2>3
    <3>2. DaysBefore(t.y, t.m) \in Nat
      BY <1>1, DaysBeforeNext
    <3>3. QED BY <1>1, <1>3, <3>1, <3>2
  <2>4. QED BY <2>1, <2>2, <2>3
<1>7. QED BY <1>2, <1>4, <1>5, <1>6 DEF u, IsDate

LEMMA QuarterOf ==
    ASSUME NEW m \in 1..12
    PROVE  (m - 1) \div 3 + 1 =
             IF m <= 3 THEN 1 ELSE IF m <= 6 THEN 2 ELSE IF m <= 9 THEN 3 ELSE 4
OBVIOUS

LEMMA FiscalOf ==
    ASSUME NEW y \in Nat, NEW m \in 1..12
    PROVE  /\ Fiscal(m, y)[1] = (IF m >= 4 THEN y + 1 ELSE y)
           /\ Fiscal(m, y)[2] = (IF m <= 3 THEN 4 ELSE IF m <= 6 THEN 1 ELSE IF m <= 9 THEN 2 ELSE 3)
<1> DEFINE mapping == [k \in 1..12 |->
             CASE k \in 4..6 -> <<1, 1>> [] k \in 7..9 -> <<1, 2>>
               [] k \in 10..12 -> <<1, 3>> [] k \in 1..3 -> <<0, 4>>]
<1>1. Fiscal(m, y) = <<y + mapping[m][1], mapping[m][2]>>
  BY DEF Fiscal
<1>2. /\ m \in 4..6 => mapping[m] = <<1, 1>>
      /\ m \in 7..9 => mapping[m] = <<1, 2>>
      /\ m \in 10..12 => mapping[m] = <<1, 3>>
      /\ m \in 1..3 => mapping[m] = <<0, 4>>
  OBVIOUS
<1>3. m \in 1..3 \/ m \in 4..6 \/ m \in 7..9 \/ m \in 10..12
  OBVIOUS
<1> HIDE DEF mapping
<1>4. QED BY <1>1, <1>2, <1>3

LEMMA SeasonOf ==
    ASSUME NEW m \in 1..12, NEW k \in 1..12, k = (IF m = 12 THEN 1 ELSE m + 1)
    PROVE  Season(m) # Season(k) <=> k \in {3, 6, 9, 12}
<1>1. /\ m \in {12, 1, 2} => Season(m) = "Winter"
      /\ m \in {3, 4, 5} => Season(m) = "Spring"
      /\ m \in {6, 7, 8} => Season(m) = "Summer"
      /\ m \in {9, 10, 11} => Season(m) = "Autumn"
  BY DEF Season
<1>2. /\ k \in {12, 1, 2} => Season(k) = "Winter"
      /\ k \in {3, 4, 5} => Season(k) = "Spring"
      /\ k \in {6, 7, 8} => Season(k) = "Summer"
      /\ k \in {9, 10, 11} => Season(k) = "Autumn"
  BY DEF Season
<1>3. m \in {1, 2, 3, 4, 5, 6, 7, 8, 9, 10, 11, 12}
  OBVIOUS
<1>4. QED BY <1>1, <1>2, <1>3

(* What a row of dim_date says of a date.                                    *)
LEMMA DateRowOf ==
    ASSUME NEW t, IsDate(t)
    PROVE  LET p == DateRow(t)
           IN  /\ p.date_key = t.y * 10000 + t.m * 100 + t.d
               /\ p.day_of_week = t.weekday + 1 /\ p.day_of_year = t.yday
               /\ p.month_number = t.m /\ p.year = t.y
               /\ p.quarter = (IF t.m <= 3 THEN 1 ELSE IF t.m <= 6 THEN 2 ELSE IF t.m <= 9 THEN 3 ELSE 4)
               /\ p.is_weekend = (t.weekday + 1 >= 6) /\ p.is_weekday = (t.weekday + 1 < 6)
               /\ p.is_leap_year = IsLeap(t.y) /\ p.days_in_month = MonthRange(t.y, t.m)
               /\ p.fiscal_year = (IF t.m >= 4 THEN t.y + 1 ELSE t.y)
               /\ p.fiscal_quarter =
                    (IF t.m <= 3 THEN 4 ELSE IF t.m <= 6 THEN 1 ELSE IF t.m <= 9 THEN 2 ELSE 3)
               /\ p.season = Season(t.m)
<1>1. t.m \in 1..12 /\ t.y \in Nat
  BY DEF IsDate
<1>2. /\ DateRow(t).quarter = (t.m - 1) \div 3 + 1
      /\ DateRow(t).fiscal_year = Fiscal(t.m, t.y)[1]
      /\ DateRow(t).fiscal_quarter = Fiscal(t.m, t.y)[2]
  BY DEF DateRow
<1>3. /\ (t.m - 1) \div 3 + 1 =
           (IF t.m <= 3 THEN 1 ELSE IF t.m <= 6 THEN 2 ELSE IF t.m <= 9 THEN 3 ELSE 4)
      /\ Fiscal(t.m, t.y)[1] = (IF t.m >= 4 THEN t.y + 1 ELSE t.y)
      /\ Fiscal(t.m, t.y)[2] =
           (IF t.m <= 3 THEN 4 ELSE IF t.m <= 6 THEN 1 ELSE IF t.m <= 9 THEN 2 ELSE 3)
  BY <1>1, QuarterOf, FiscalOf
<1>4. /\ DateRow(t).date_key = t.y * 10000 + t.m * 100 + t.d
      /\ DateRow(t).day_of_week = t.weekday + 1 /\ DateRow(t).day_of_year = t.yday
      /\ DateRow(t).month_number = t.m /\ DateRow(t).year = t.y
      /\ DateRow(t).is_weekend = (t.weekday + 1 >= 6) /\ DateRow(t).is_weekday = (t.weekday + 1 < 6)
      /\ DateRow(t).is_leap_year = IsLeap(t.y) /\ DateRow(t).days_in_month = MonthRange(t.y, t.m)
      /\ DateRow(t).season = Season(t.m)
  BY DEF DateRow
<1>5. QED BY <1>2, <1>3, <1>4

(* From a date to the next, the columns of dim_date advance as they should.  *)
LEMMA DayAdvances ==
    ASSUME NEW t, IsDate(t)
    PROVE  LET p == DateRow(t)
               q == DateRow(AddDay(t))
               Quarters(r) == 4 * r.year + r.quarter
               FiscalQuarters(r) == 4 * r.fiscal_year + r.fiscal_quarter
               newMonth == p.month_number # q.month_number
           IN  /\ p.date_key < q.date_key
               /\ Quarters(q) - Quarters(p) = (IF newMonth /\ q.month_number \in {1, 4, 7, 10} THEN 1 ELSE 0)
               /\ FiscalQuarters(q) - FiscalQuarters(p) = Quarters(q) - Quarters(p)
               /\ (q.fiscal_year # p.fiscal_year) = (newMonth /\ q.month_number = 4)
               /\ (q.season # p.season) = (newMonth /\ q.month_number \in {3, 6, 9, 12})
               /\ newMonth = (p.date_key % 100 = p.days_in_month)
               /\ p.year # q.year => p.is_leap_year = (p.day_of_year = 366)
               /\ p.is_weekend # p.is_weekday
               /\ (p.is_weekend /\ q.is_weekday) = (p.day_of_week = 7)
<1> DEFINE u == AddDay(t)
<1> DEFINE p == DateRow(t)
<1> DEFINE q == DateRow(u)
<1> DEFINE last == t.d = MonthRange(t.y, t.m)
<1>1. /\ t.y \in Nat /\ t.m \in 1..12 /\ t.d \in 1..MonthRange(t.y, t.m)
      /\ t.weekday \in 0..6 /\ t.yday = DaysBefore(t.y, t.m) + t.d
      /\ MonthRange(t.y, t.m) \in 28..31
  BY MonthLength DEF IsDate
<1>2. /\ u.y = (IF last /\ t.m = 12 THEN t.y + 1 ELSE t.y)
      /\ u.m = (IF last THEN (IF t.m = 12 THEN 1 ELSE t.m + 1) ELSE t.m)
      /\ u.d = (IF last THEN 1 ELSE t.d + 1)
      /\ u.weekday = (t.weekday + 1) % 7
  BY NextDate
<1>3. IsDate(u)
  BY AddDayIsDate
<1> HIDE DEF u
<1>4. /\ p.date_key = t.y * 10000 + t.m * 100 + t.d
      /\ p.day_of_week = t.weekday + 1 /\ p.day_of_year = t.yday
      /\ p.month_number = t.m /\ p.year = t.y
      /\ p.quarter = (IF t.m <= 3 THEN 1 ELSE IF t.m <= 6 THEN 2 ELSE IF t.m <= 9 THEN 3 ELSE 4)
      /\ p.is_weekend = (t.weekday + 1 >= 6) /\ p.is_weekday = (t.weekday + 1 < 6)
      /\ p.is_leap_year = IsLeap(t.y) /\ p.days_in_month = MonthRange(t.y, t.m)
      /\ p.fiscal_year = (IF t.m >= 4 THEN t.y + 1 ELSE t.y)
      /\ p.fiscal_quarter =
           (IF t.m <= 3 THEN 4 ELSE IF t.m <= 6 THEN 1 ELSE IF t.m <= 9 THEN 2 ELSE 3)
      /\ p.season = Season(t.m)
  BY DateRowOf
<1>5. /\ q.date_key = u.y * 10000 + u.m * 100 + u.d
      /\ q.month_number = u.m /\ q.year = u.y
      /\ q.quarter = (IF u.m <= 3 THEN 1 ELSE IF u.m <= 6 THEN 2 ELSE IF u.m <= 9 THEN 3 ELSE 4)
      /\ q.is_weekday = (u.weekday + 1 < 6)
      /\ q.fiscal_year = (IF u.m >= 4 THEN u.y + 1 ELSE u.y)
      /\ q.fiscal_quarter =
           (IF u.m <= 3 THEN 4 ELSE IF u.m <= 6 THEN 1 ELSE IF u.m <= 9 THEN 2 ELSE 3)
      /\ q.season = Season(u.m)
  BY <1>3, DateRowOf
<1> HIDE DEF p, q
<1>6. p.month_number # q.month_number <=> last
  BY <1>1, <1>2, <1>4, <1>5
<1>7. p.date_key < q.date_key
  BY <1>1, <1>2, <1>4, <1>5
<1>8. (4 * q.year + q.quarter) - (4 * p.year + p.quarter)
        = (IF last /\ u.m \in {1, 4, 7, 10} THEN 1 ELSE 0)
  BY <1>1, <1>2, <1>4, <1>5
<1>9. (4 * q.fiscal_year + q.fiscal_quarter) - (4 * p.fiscal_year + p.fiscal_quarter)
        = (4 * q.year + q.quarter) - (4 * p.year + p.quarter)
  BY <1>1, <1>2, <1>4, <1>5
<1>10. q.fiscal_year # p.fiscal_year <=> last /\ u.m = 4
  BY <1>1, <1>2, <1>4, <1>5
<1>11. q.season # p.season <=> last /\ u.m \in {3, 6, 9, 12}
  <2>1. CASE last
    <3>1. u.m \in 1..12 /\ u.m = (IF t.m = 12 THEN 1 ELSE t.m + 1)
      BY <1>1, <1>2, <2>1
    <3>2. QED BY <1>1, <1>4, <1>5, <2>1, <3>1, SeasonOf
  <2>2. CASE ~last
    BY <1>2, <1>4, <1>5, <2>2
  <2>3. QED BY <2>1, <2>2
<1>12. last <=> p.date_key % 100 = p.days_in_month
  <2>1. p.date_key % 100 = t.d
    BY <1>1, <1>4
  <2>2. QED BY <1>4, <2>1
<1>13. p.year # q.year => (p.is_leap_year <=> p.day_of_year = 366)
  <2>1. SUFFICES ASSUME last, t.m = 12
                 PROVE  IsLeap(t.y) <=> t.yday = 366
    BY <1>2, <1>4, <1>5
  <2>2. DaysBefore(t.y, 12) = (IF IsLeap(t.y) THEN 335 ELSE 334)
    BY <1>1, DaysBeforeNext
  <2>3. t.d = 31
    BY <2>1, MonthLength
  <2>4. QED BY <1>1, <2>1, <2>2, <2>3
<1>14. p.is_weekend # p.is_weekday
  BY <1>1, <1>4
<1>15. p.is_weekend /\ q.is_weekday <=> p.day_of_week = 7
  <2>1. u.weekday = IF t.weekday = 6 THEN 0 ELSE t.weekday + 1
    BY <1>1, <1>2
  <2>2. (p.is_weekend <=> t.weekday >= 5) /\ (q.is_weekday <=> u.weekday < 5)
    <3>1. p.is_weekend = (t.weekday + 1 >= 6) /\ q.is_weekday = (u.weekday + 1 < 6)
      BY <1>4, <1>5
    <3>2. (t.weekday + 1 >= 6 <=> t.weekday >= 5) /\ (u.weekday + 1 < 6 <=> u.weekday < 5)
      BY <1>1, <2>1
    <3>3. QED BY <3>1, <3>2
  <2>3. QED BY <1>1, <1>4, <2>1, <2>2
<1> DEFINE newMonth == p.month_number # q.month_number
<1>16. newMonth = last /\ q.month_number = u.m
  BY <1>5, <1>6
<1>17. /\ (4 * q.year + q.quarter) - (4 * p.year + p.quarter)
            = (IF newMonth /\ q.month_number \in {1, 4, 7, 10} THEN 1 ELSE 0)
       /\ (q.fiscal_year # p.fiscal_year) = (newMonth /\ q.month_number = 4)
       /\ (q.season # p.season) = (newMonth /\ q.month_number \in {3, 6, 9, 12})
       /\ newMonth = (p.date_key % 100 = p.days_in_month)
  BY <1>8, <1>10, <1>11, <1>12, <1>16
<1>18. p.year # q.year => p.is_leap_year = (p.day_of_year = 366)
  <2>1. p.is_leap_year = IsLeap(t.y)
    BY <1>4
  <2>2. p.is_leap_year \in BOOLEAN
    BY <2>1 DEF IsLeap
  <2>3. QED BY <1>13, <2>2
<1>19. (p.is_weekend /\ q.is_weekday) = (p.day_of_week = 7)
  BY <1>15
<1>20. QED
  BY <1>7, <1>9, <1>14, <1>17, <1>18, <1>19 DEF u, p, q

-----------------------------------------------------------------------------
(* The clock: k hours, in seconds cut off towards zero, are the hours of the *)
(* local time, rounded down, or one more or less.                            *)
LEMMA HoursOf ==
    ASSUME NEW a \in Int, -43200 <= a, a <= 133200,
           NEW minute \in Int, 0 <= minute, minute <= 59
    PROVE  LET k == TruncatedDiv(a, 3600)
               hours == (a + minute * 60) \div 3600
           IN  /\ k \in -12..37
               /\ \E e \in {-1, 0, 1} : k = hours + e
               /\ a % 3600 = 0 => k = hours
<1> DEFINE k == TruncatedDiv(a, 3600)
<1> DEFINE hours == (a + minute * 60) \div 3600
<1>1. hours \in Int /\ 3600 * hours <= a + minute * 60 /\ a + minute * 60 < 3600 * hours + 3600
  OBVIOUS
<1>2. a >= 0 => k = a \div 3600
  BY DEF TruncatedDiv
<1>3. a < 0 => k = -((-a) \div 3600)
  BY DEF TruncatedDiv
<1>4. a >= 0 => k \in Int /\ 3600 * k <= a /\ a < 3600 * k + 3600
  BY <1>2
<1>5. a < 0 => k \in Int /\ 3600 * k >= a /\ a > 3600 * k - 3600
  BY <1>3
<1>6. a % 3600 = 0 => a = 3600 * k
  <2>1. SUFFICES ASSUME a % 3600 = 0
                 PROVE  a = 3600 * k
    OBVIOUS
  <2>2. a = 3600 * (a \div 3600) /\ a \div 3600 \in Int
    <3>1. a = 3600 * (a \div 3600)
      BY <2>1
    <3>2. a \div 3600 \in Int
      OBVIOUS
    <3>3. QED BY <3>1, <3>2
  <2>3. QED BY <1>4, <1>5, <2>2
<1> HIDE DEF k, hours
<1>7. k \in Int
  BY <1>4, <1>5
<1>8. k \in -12..37
  BY <1>4, <1>5, <1>7
<1>9. k - hours \in {-1, 0, 1}
  BY <1>1, <1>4, <1>5, <1>7
<1>10. a % 3600 = 0 => k = hours
  BY <1>1, <1>6, <1>7
<1>11. \E e \in {-1, 0, 1} : k = hours + e
  BY <1>1, <1>7, <1>9
<1>12. QED BY <1>8, <1>10, <1>11 DEF k, hours

LEMMA LocalHourOf ==
    ASSUME NEW hour \in Int, NEW offset \in Int,
           NEW k, k = TruncatedDiv(hour * 3600 + offset, 3600), k \in -12..37
    PROVE  LocalHour(hour, offset) = (IF k < 24 THEN k ELSE k - 24)
<1>1. LocalHour(hour, offset) = k - 24 * TruncatedDiv(k, 24)
  BY DEF LocalHour
<1>2. TruncatedDiv(k, 24) = (IF k < 24 THEN 0 ELSE 1)
  BY DEF TruncatedDiv
<1>3. QED BY <1>1, <1>2

(* dim_time tells the minutes of a day apart by its key, and by what a       *)
(* 12-hour clock shows.                                                      *)
LEMMA MinutesApart ==
    ASSUME NEW h \in Int, 0 <= h, h <= 23, NEW m \in Int, 0 <= m, m <= 59,
           NEW i \in Int, 0 <= i, i <= 23, NEW n \in Int, 0 <= n, n <= 59
    PROVE  /\ TimeRow(h, m).time_key = TimeRow(i, n).time_key => h = i /\ m = n
           /\ /\ TimeRow(h, m).hour_12 = TimeRow(i, n).hour_12
              /\ TimeRow(h, m).am_pm = TimeRow(i, n).am_pm
              /\ TimeRow(h, m).minute = TimeRow(i, n).minute
              => h = i /\ m = n
<1> DEFINE p == TimeRow(h, m)
<1> DEFINE q == TimeRow(i, n)
<1>1. /\ p.time_key = h * 100 + m /\ p.minute = m
      /\ p.hour_12 = (IF h % 12 = 0 THEN 12 ELSE h % 12)
      /\ p.am_pm = (IF h < 12 THEN "AM" ELSE "PM")
      /\ q.time_key = i * 100 + n /\ q.minute = n
      /\ q.hour_12 = (IF i % 12 = 0 THEN 12 ELSE i % 12)
      /\ q.am_pm = (IF i < 12 THEN "AM" ELSE "PM")
  BY DEF TimeRow
<1> HIDE DEF p, q
<1>2. p.time_key = q.time_key => h = i /\ m = n
  <2>1. h * 100 + m = i * 100 + n => h = i /\ m = n
    OBVIOUS
  <2>2. QED BY <1>1, <2>1
<1>3. p.am_pm = q.am_pm => (h < 12 <=> i < 12)
  BY <1>1
<1>4. p.hour_12 = q.hour_12 => h % 12 = i % 12
  <2>1. h % 12 \in 0..11 /\ i % 12 \in 0..11
    OBVIOUS
  <2>2. QED BY <1>1, <2>1
<1>5. h % 12 = i % 12 /\ (h < 12 <=> i < 12) => h = i
  OBVIOUS
<1>6. p.minute = q.minute => m = n
  BY <1>1
<1>7. QED BY <1>2, <1>3, <1>4, <1>5, <1>6 DEF p, q

LEMMA ClockFollows ==
    ASSUME NEW hour \in Int, 0 <= hour, hour <= 23,
           NEW minute \in Int, 0 <= minute, minute <= 59,
           NEW offset \in Int, -43200 <= offset, offset <= 50400
    PROVE  LET local == hour * 3600 + minute * 60 + offset
               clock == (local \div 3600) % 24
               h == LocalHour(hour, offset)
           IN  /\ offset % 3600 = 0 => h % 24 = clock
               /\ \E e \in {-1, 0, 1} : h % 24 = (clock + e) % 24
<1> DEFINE a == hour * 3600 + offset
<1> DEFINE local == hour * 3600 + minute * 60 + offset
<1> DEFINE hours == local \div 3600
<1> DEFINE h == LocalHour(hour, offset)
<1> DEFINE k == TruncatedDiv(a, 3600)
<1>1. a \in Int /\ -43200 <= a /\ a <= 133200 /\ local = a + minute * 60 /\ local \in Int
  OBVIOUS
<1>2. hours \in Int /\ hours = (a + minute * 60) \div 3600
  BY <1>1
<1>3. offset % 3600 = 0 => a % 3600 = 0
  OBVIOUS
<1> HIDE DEF a, local, hours, h
<1>4. /\ k \in -12..37
      /\ \E e \in {-1, 0, 1} : k = (a + minute * 60) \div 3600 + e
      /\ a % 3600 = 0 => k = (a + minute * 60) \div 3600
  <2>1. a \in Int /\ -43200 <= a /\ a <= 133200
    BY <1>1
  <2>2. minute \in Int /\ 0 <= minute /\ minute <= 59
    OBVIOUS
  <2>3. QED BY ONLY <2>1, <2>2, HoursOf
<1> USE DEF h
<1>5. h = (IF k < 24 THEN k ELSE k - 24)
  <2>1. k = TruncatedDiv(hour * 3600 + offset, 3600)
    BY DEF a
  <2> HIDE DEF k
  <2>2. QED BY <1>4, <2>1, LocalHourOf
<1> HIDE DEF h, k
<1>6. \E e \in {-1, 0, 1} : k = hours + e
  BY <1>2, <1>4
<1>7. offset % 3600 = 0 => k = hours
  BY <1>2, <1>3, <1>4
<1>8. h % 24 = k % 24
  BY <1>4, <1>5
<1>9. offset % 3600 = 0 => h % 24 = hours % 24
  BY <1>7, <1>8
<1>10. \E e \in {-1, 0, 1} : h % 24 = ((hours % 24) + e) % 24
  <2>1. PICK e \in {-1, 0, 1} : k = hours + e
    BY <1>6
  <2>2. (hours + e) % 24 = ((hours % 24) + e) % 24
    BY <1>2, <2>1
  <2>3. QED BY <1>8, <2>1, <2>2
<1>11. QED BY <1>9, <1>10 DEF local, hours, h

LEMMA MinuteFiled ==
    ASSUME NEW hour \in Int, 0 <= hour, hour <= 23,
           NEW minute \in Int, 0 <= minute, minute <= 59
    PROVE  LET filed == {t \in DimTime : t.time_key = hour * 100 + minute}
           IN  \E t \in filed :
                 /\ filed = {t} /\ t.hour_24 = hour /\ t.minute = minute
                 /\ \A u \in DimTime : u.hour_12 = t.hour_12 /\ u.am_pm = t.am_pm
                                        /\ u.minute = t.minute => u = t
<1> DEFINE filed == {t \in DimTime : t.time_key = hour * 100 + minute}
<1> DEFINE t == TimeRow(hour, minute)
<1> DEFINE Hours == 0..23
<1> DEFINE Minutes == 0..59
<1>0. DimTime = {TimeRow(i, n) : i \in Hours, n \in Minutes}
  BY DEF DimTime
<1>8. hour \in Hours /\ minute \in Minutes
  OBVIOUS
<1> HIDE DEF Hours, Minutes, t
<1>1. t \in DimTime
  BY <1>0, <1>8 DEF t
<1>2. t.time_key = hour * 100 + minute /\ t.hour_24 = hour /\ t.minute = minute
  BY DEF TimeRow, t
<1>5. ASSUME NEW u \in DimTime
      PROVE  /\ u.time_key = t.time_key => u = t
             /\ u.hour_12 = t.hour_12 /\ u.am_pm = t.am_pm /\ u.minute = t.minute => u = t
  <2>1. PICK i \in Hours, n \in Minutes : u = TimeRow(i, n)
    BY <1>0
  <2>2. i \in Int /\ 0 <= i /\ i <= 23
    BY DEF Hours
  <2>3. n \in Int /\ 0 <= n /\ n <= 59
    BY DEF Minutes
  <2>4. /\ TimeRow(i, n).time_key = TimeRow(hour, minute).time_key => i = hour /\ n = minute
        /\ /\ TimeRow(i, n).hour_12 = TimeRow(hour, minute).hour_12
           /\ TimeRow(i, n).am_pm = TimeRow(hour, minute).am_pm
           /\ TimeRow(i, n).minute = TimeRow(hour, minute).minute
           => i = hour /\ n = minute
    BY <2>2, <2>3, MinutesApart
  <2>5. QED BY <2>1, <2>4 DEF t
<1>6. filed = {t}
  BY <1>1, <1>2, <1>5
<1>7. QED BY <1>1, <1>2, <1>5, <1>6

LEMMA ClockReadingFollows ==
    ASSUME NEW x \in ClockReading
    PROVE  LET local == x.hour * 3600 + x.minute * 60 + x.offset
               clock == (local \div 3600) % 24
               h == LocalHour(x.hour, x.offset)
               filed == {t \in DimTime : t.time_key = x.hour * 100 + x.minute}
           IN  /\ x.offset % 3600 = 0 => h % 24 = clock
               /\ \E e \in {-1, 0, 1} : h % 24 = (clock + e) % 24
               /\ \E t \in filed :
                    /\ filed = {t} /\ t.hour_24 = x.hour /\ t.minute = x.minute
                    /\ \A u \in DimTime : u.hour_12 = t.hour_12 /\ u.am_pm = t.am_pm
                                           /\ u.minute = t.minute => u = t
<1> DEFINE Hours == 0..23
<1> DEFINE Minutes == 0..59
<1> DEFINE Offsets == {o \in Int : -12 * 3600 <= o /\ o <= 14 * 3600}
<1>1. x \in [hour : Hours, minute : Minutes, offset : Offsets]
  <2>1. ClockReading = [hour : Hours, minute : Minutes, offset : Offsets]
    BY DEF ClockReading
  <2> HIDE DEF Hours, Minutes, Offsets
  <2>2. QED BY <2>1
<1> HIDE DEF Hours, Minutes, Offsets
<1>2. PICK hour \in Hours, minute \in Minutes, offset \in Offsets :
        hour = x.hour /\ minute = x.minute /\ offset = x.offset
  <2>1. x.hour \in Hours /\ x.minute \in Minutes /\ x.offset \in Offsets
    BY <1>1
  <2>2. QED BY ONLY <2>1, Zenon
<1>3. hour \in Int /\ 0 <= hour /\ hour <= 23
  BY DEF Hours
<1>4. minute \in Int /\ 0 <= minute /\ minute <= 59
  BY DEF Minutes
<1>5. offset \in Int /\ -43200 <= offset /\ offset <= 50400
  BY DEF Offsets
<1>7. LET local == hour * 3600 + minute * 60 + offset
          clock == (local \div 3600) % 24
          h == LocalHour(hour, offset)
      IN  /\ offset % 3600 = 0 => h % 24 = clock
          /\ \E e \in {-1, 0, 1} : h % 24 = (clock + e) % 24
  BY <1>3, <1>4, <1>5, ClockFollows
<1>8. LET filed == {t \in DimTime : t.time_key = hour * 100 + minute}
      IN  \E t \in filed :
            /\ filed = {t} /\ t.hour_24 = hour /\ t.minute = minute
            /\ \A u \in DimTime : u.hour_12 = t.hour_12 /\ u.am_pm = t.am_pm
                                   /\ u.minute = t.minute => u = t
  BY <1>3, <1>4, MinuteFiled
<1>9. QED BY <1>2, <1>7, <1>8

-----------------------------------------------------------------------------
(* Heat waves: the island of a hot day is the number of hot days of other    *)
(* cities that come before it.                                               *)
Elsewhere(hot, before, c, d) ==
    {g \in hot : g[1] # c /\ (g[2] < d \/ (g[2] = d /\ <<g[1], c>> \in before[d]))}

LEMMA IslandOf ==
    ASSUME NEW hot, NEW before, HotDays(hot, before), NEW c, NEW d \in Int
    PROVE  /\ Island(hot, before, c, d) = Cardinality(Elsewhere(hot, before, c, d))
           /\ IsFiniteSet(Elsewhere(hot, before, c, d))
<1> DEFINE All == {e \in hot : e[2] < d \/ (e[2] = d /\ (e[1] = c \/ <<e[1], c>> \in before[d]))}
<1> DEFINE Own == {e \in hot : e[1] = c /\ e[2] <= d}
<1>1. IsFiniteSet(hot) /\ \A e \in hot : e[2] \in Int
  BY DEF HotDays
<1>2. Own \subseteq All
  BY <1>1
<1>3. Elsewhere(hot, before, c, d) = All \ Own
  BY <1>1 DEF Elsewhere
<1>4. Island(hot, before, c, d) = Cardinality(All) - Cardinality(Own)
  BY DEF Island, RnAll, RnCity
<1>5. IsFiniteSet(All)
  BY <1>1, FS_Subset
<1> HIDE DEF All, Own
<1>6. All \cap Own = Own
  BY <1>2
<1>7. /\ IsFiniteSet(All \ Own)
      /\ Cardinality(All \ Own) = Cardinality(All) - Cardinality(Own)
  BY <1>5, <1>6, FS_Difference
<1>8. QED BY <1>3, <1>4, <1>7

LEMMA SameCardinality ==
    ASSUME NEW S, NEW T, IsFiniteSet(T), S \subseteq T
    PROVE  Cardinality(S) = Cardinality(T) <=> S = T
BY FS_Subset

(* Two hot days of a city are on one island if none elsewhere comes between. *)
LEMMA SameIsland ==
    ASSUME NEW hot, NEW before, HotDays(hot, before), NEW e \in hot, NEW f \in hot,
           e[1] = f[1], e[2] < f[2]
    PROVE  Island(hot, before, e[1], e[2]) = Island(hot, before, f[1], f[2])
             <=> ~\E g \in hot :
                    /\ g[1] # e[1]
                    /\ e[2] < g[2] \/ (e[2] = g[2] /\ <<e[1], g[1]>> \in before[e[2]])
                    /\ g[2] < f[2] \/ (g[2] = f[2] /\ <<g[1], f[1]>> \in before[g[2]])
<1> DEFINE S == Elsewhere(hot, before, e[1], e[2])
<1> DEFINE T == Elsewhere(hot, before, f[1], f[2])
<1>1. /\ e[2] \in Int /\ f[2] \in Int
      /\ \A g \in hot : g[2] \in Int
      /\ \A g \in hot : e[2] = g[2] /\ e[1] # g[1] =>
           (<<e[1], g[1]>> \in before[e[2]] <=> <<g[1], e[1]>> \notin before[e[2]])
  BY DEF HotDays
<1>2. /\ Island(hot, before, e[1], e[2]) = Cardinality(S)
      /\ Island(hot, before, f[1], f[2]) = Cardinality(T) /\ IsFiniteSet(T)
  BY <1>1, IslandOf
<1>3. S \subseteq T
  BY <1>1 DEF Elsewhere
<1>4. Island(hot, before, e[1], e[2]) = Island(hot, before, f[1], f[2]) <=> S = T
  <2> HIDE DEF S, T
  <2>1. QED BY <1>2, <1>3, SameCardinality
<1>5. ASSUME NEW g \in hot
      PROVE  g \in T /\ g \notin S
               <=> /\ g[1] # e[1]
                   /\ e[2] < g[2] \/ (e[2] = g[2] /\ <<e[1], g[1]>> \in before[e[2]])
                   /\ g[2] < f[2] \/ (g[2] = f[2] /\ <<g[1], f[1]>> \in before[g[2]])
  <2>1. g \in S <=> g[1] # e[1] /\ (g[2] < e[2] \/ (g[2] = e[2] /\ <<g[1], e[1]>> \in before[e[2]]))
    BY DEF Elsewhere
  <2>2. g \in T <=> g[1] # f[1] /\ (g[2] < f[2] \/ (g[2] = f[2] /\ <<g[1], f[1]>> \in before[f[2]]))
    BY DEF Elsewhere
  <2>3. QED BY <1>1, <2>1, <2>2
<1>6. T \subseteq hot
  BY DEF Elsewhere
<1> HIDE DEF S, T
<1>7. S = T <=> ~\E g \in hot : g \in T /\ g \notin S
  BY <1>3, <1>6
<1>8. QED BY <1>4, <1>5, <1>7

(* A streak has the hot days of one city on one island.                      *)
LEMMA SameStreak ==
    ASSUME NEW hot, NEW before, HotDays(hot, before), NEW e \in hot, NEW f \in hot,
           e[1] = f[1], e # f
    PROVE  (\E s \in HeatWaveStreaks(hot, before) : e \in s /\ f \in s)
             <=> Island(hot, before, e[1], e[2]) = Island(hot, before, f[1], f[2])
<1> DEFINE StreakOf(k) == {g \in hot : g[1] = k[1] /\ Island(hot, before, g[1], g[2]) = k[2]}
<1> DEFINE Keys == {<<g[1], Island(hot, before, g[1], g[2])>> : g \in hot}
<1>1. HeatWaveStreaks(hot, before) = {s \in {StreakOf(k) : k \in Keys} : Cardinality(s) >= 2}
  BY DEF HeatWaveStreaks
<1>2. ASSUME NEW s \in HeatWaveStreaks(hot, before), e \in s, f \in s
      PROVE  Island(hot, before, e[1], e[2]) = Island(hot, before, f[1], f[2])
  BY <1>1, <1>2
<1>3. ASSUME Island(hot, before, e[1], e[2]) = Island(hot, before, f[1], f[2])
      PROVE  \E s \in HeatWaveStreaks(hot, before) : e \in s /\ f \in s
  <2> DEFINE k == <<e[1], Island(hot, before, e[1], e[2])>>
  <2> DEFINE s == StreakOf(k)
  <2>1. k \in Keys
    OBVIOUS
  <2>2. e \in s /\ f \in s /\ s \subseteq hot
    BY <1>3
  <2> HIDE DEF s, StreakOf
  <2>3. Cardinality(s) >= 2
    <3>1. IsFiniteSet(s)
      BY <2>2, FS_Subset DEF HotDays
    <3>2. /\ Cardinality({e}) = 1 /\ IsFiniteSet({e})
      BY FS_Singleton
    <3>3. Cardinality({e} \cup {f}) = 2
      <4>1. f \notin {e}
        OBVIOUS
      <4> DEFINE single == {e}
      <4> HIDE DEF single
      <4>2. Cardinality(single \cup {f}) = Cardinality(single) + 1
        BY <3>2, <4>1, FS_AddElement DEF single
      <4>3. QED BY <3>2, <4>2 DEF single
    <3>4. {e} \cup {f} \subseteq s
      BY <2>2
    <3>5. Cardinality({e} \cup {f}) <= Cardinality(s)
      BY <3>1, <3>4, FS_Subset
    <3>6. Cardinality(s) \in Nat
      BY <3>1, FS_CardinalityType
    <3>7. QED BY <3>3, <3>5, <3>6
  <2>4. s \in {StreakOf(j) : j \in Keys}
    BY <2>1 DEF s
  <2>5. QED BY <1>1, <2>2, <2>3, <2>4
<1>4. QED BY <1>2, <1>3

(* What heat_wave_streaks computes in place of runs of consecutive days: for *)
(* all hot days, in every order of the cities on a day, two hot days of one  *)
(* city are of one streak exactly if no hot day of another city is numbered  *)
(* between them.  Days that were not hot do not end a streak, and heat       *)
(* elsewhere does.                                                           *)
THEOREM StreaksAreQuietSpells ==
    ASSUME NEW hot, NEW before, HotDays(hot, before),
           NEW e \in hot, NEW f \in hot, e[1] = f[1], e[2] < f[2]
    PROVE  (\E s \in HeatWaveStreaks(hot, before) : e \in s /\ f \in s)
             <=> ~\E g \in hot :
                    /\ g[1] # e[1]
                    /\ e[2] < g[2] \/ (e[2] = g[2] /\ <<e[1], g[1]>> \in before[e[2]])
                    /\ g[2] < f[2] \/ (g[2] = f[2] /\ <<g[1], f[1]>> \in before[g[2]])
<1>1. e # f
  BY DEF HotDays
<1>2. (\E s \in HeatWaveStreaks(hot, before) : e \in s /\ f \in s)
        <=> Island(hot, before, e[1], e[2]) = Island(hot, before, f[1], f[2])
  BY <1>1, SameStreak
<1>3. QED BY <1>2, SameIsland

-----------------------------------------------------------------------------
(* The properties of the specification.                                      *)
THEOREM SampledInvariant == Spec => []Sampled
<1>1. Init => Sampled
  BY DEF Init, Sampled
<1>2. Sampled /\ [NextDay]_sample => Sampled'
  <2>1. SUFFICES ASSUME Sampled, [NextDay]_sample
                 PROVE  Sampled'
    OBVIOUS
  <2>2. CASE NextDay
    <3>1. IsDate(sample.of) /\ sample' = Input("date", AddDay(sample.of))
      BY <2>1, <2>2, SampleOfKind DEF NextDay
    <3>2. IsDate(AddDay(sample.of))
      BY <3>1, AddDayIsDate
    <3>3. sample'.kind = "date" /\ sample'.of = AddDay(sample.of)
      BY <3>1 DEF Input
    <3>4. QED BY <3>2, <3>3 DEF Sampled
  <2>3. CASE sample' = sample
    BY <2>1, <2>3 DEF Sampled
  <2>4. QED BY <2>1, <2>2, <2>3
<1>3. QED BY <1>1, <1>2, PTL DEF Spec

(* Of every reading the quality report says what the split has done with it. *)
THEOREM ReportFollowsSplit == Spec => []QuarantineAgreesWithChecks
<1>1. Sampled => QuarantineAgreesWithChecks
  BY SampleOfKind, ReadingChecks DEF QuarantineAgreesWithChecks, Of
<1>2. QED BY <1>1, SampledInvariant, PTL

(* Gold and the view name the same extreme event for every Silver row.       *)
THEOREM GoldAgreesWithView == Spec => []EventsAgree
<1>1. Sampled => EventsAgree
  BY SampleOfKind, ReadingEvents DEF EventsAgree, Of
<1>2. QED BY <1>1, SampledInvariant, PTL

(* local_hour follows the clock for every time of day and offset.            *)
THEOREM LocalHourIsRight == Spec => []LocalHourFollowsClock
<1>1. Sampled => LocalHourFollowsClock
  BY SampleOfKind, ClockReadingFollows DEF LocalHourFollowsClock, Of
<1>2. QED BY <1>1, SampledInvariant, PTL

(* Of every batch, of any cities and size, the reports count the same rows,  *)
(* their averages differ by the rounding, ranks follow the means, and the    *)
(* rollup's days are the daily summary if names tell the cities.             *)
THEOREM ReportsAreOfOneBatch == Spec => []ReportsAgree
<1>1. Sampled => ReportsAgree
  <2>1. SUFFICES ASSUME Sampled, Of("batch")
                 PROVE  ReportsAgree
    BY DEF ReportsAgree
  <2>2. PICK df, countries : df = sample.of /\ countries = {r.row : r \in CountryRankings(df)}
    OBVIOUS
  <2>3. IsBatch(df)
    BY <2>1, <2>2, SampleOfKind DEF Of
  <2>4. 1..Len(df) = DOMAIN df
    BY <2>3 DEF IsBatch
  <2>5. /\ \A table \in {CityDailySummary(df), GlobalHourlyTrends(df), countries} :
             RowCount(table) = Len(df)
        /\ \A l \in {"global", "country", "city", "day"} :
             RowCount({t \in TemperatureRollup(df) : t.level = l}) = Len(df)
        /\ NearTotals(df, GlobalHourlyTrends(df), countries)
        /\ \A a \in countries : \E p, q \in CityDailySummary(df) :
             p.min <= a.avg /\ a.avg <= q.max
    BY <2>2, <2>3, ReportsOf
  <2>6. ASSUME NEW p \in CountryRankings(df), NEW q \in CountryRankings(df),
               NEW g, g = {i \in 1..Len(df) : df[i].country = p.row.country},
               NEW h, h = {i \in 1..Len(df) : df[i].country = q.row.country},
               SumOver(df, g) * Cardinality(h) > SumOver(df, h) * Cardinality(g)
        PROVE  p.rank <= q.rank
    <3>1. /\ g = {i \in DOMAIN df : df[i].country = p.row.country}
          /\ h = {i \in DOMAIN df : df[i].country = q.row.country}
      BY <2>4, <2>6
    <3>2. QED BY <2>3, <2>6, <3>1, WarmerNotBehind
  <2>7. ASSUME \A i, j \in 1..Len(df) :
                 df[i].name = df[j].name /\ df[i].country = df[j].country
                   => df[i].city = df[j].city
        PROVE  {<<t.avg, t.min, t.max, t.count>> : t \in {u \in TemperatureRollup(df) : u.level = "day"}}
                 = {<<t.avg, t.min, t.max, t.count>> : t \in CityDailySummary(df)}
    <3>1. NamesDiffer(df)
      BY <2>4, <2>7 DEF NamesDiffer
    <3>2. QED BY <2>3, <3>1, DaysAreTheSummary DEF Figures
  <2>8. QED BY <2>2, <2>5, <2>6, <2>7, Zenon DEF ReportsAgree, RowCount, NearTotals, RowTotal
<1>2. QED BY <1>1, SampledInvariant, PTL

(* However often each value was read: a flagged reading is one of eleven or  *)
(* more, the flag is NULL only where all readings are equal, and one odd      *)
(* reading among ten or more that are equal is flagged.                      *)
THEOREM ElevenReadings == Spec => []AnomaliesNeedElevenReadings
<1>1. Sampled => AnomaliesNeedElevenReadings
  <2>1. SUFFICES ASSUME Sampled, Of("readings")
                 PROVE  AnomaliesNeedElevenReadings
    BY DEF AnomaliesNeedElevenReadings
  <2>2. PICK count : count = sample.of
    OBVIOUS
  <2>3. ReadingCount(count) /\ NULL \notin BOOLEAN
    BY <2>1, <2>2, SampleOfKind, NullAssumption DEF Of
  <2>4. /\ \A v \in Read(count) :
             /\ IsTempAnomaly(count, v, NULL) = TRUE => Readings(count) >= 11
             /\ (IsTempAnomaly(count, v, NULL) = NULL) = (Read(count) = {v})
        /\ \A v, w \in Read(count) :
             v # w /\ Read(count) = {v, w} /\ count[v] = 1 /\ Readings(count) >= 11
               => IsTempAnomaly(count, v, NULL) = TRUE
    BY <2>3, AnomaliesOf
  <2>5. QED BY <2>2, <2>4 DEF AnomaliesNeedElevenReadings, Read
<1>2. QED BY <1>1, SampledInvariant, PTL

(* The calendar advances from every date, whatever the first one is.         *)
THEOREM CalendarIsRight == Spec => CalendarAdvances
<1> DEFINE Advance ==
             LET p == DateRow(sample.of)
                 q == DateRow(sample'.of)
                 Quarters(r) == 4 * r.year + r.quarter
                 FiscalQuarters(r) == 4 * r.fiscal_year + r.fiscal_quarter
                 newMonth == p.month_number # q.month_number
             IN  /\ p.date_key < q.date_key
                 /\ Quarters(q) - Quarters(p) = (IF newMonth /\ q.month_number \in {1, 4, 7, 10} THEN 1 ELSE 0)
                 /\ FiscalQuarters(q) - FiscalQuarters(p) = Quarters(q) - Quarters(p)
                 /\ (q.fiscal_year # p.fiscal_year) = (newMonth /\ q.month_number = 4)
                 /\ (q.season # p.season) = (newMonth /\ q.month_number \in {3, 6, 9, 12})
                 /\ newMonth = (p.date_key % 100 = p.days_in_month)
                 /\ p.year # q.year => p.is_leap_year = (p.day_of_year = 366)
                 /\ p.is_weekend # p.is_weekday
                 /\ (p.is_weekend /\ q.is_weekday) = (p.day_of_week = 7)
<1>1. Sampled /\ [NextDay]_sample => [Advance]_sample
  <2>1. SUFFICES ASSUME Sampled, NextDay
                 PROVE  Advance
    OBVIOUS
  <2>2. IsDate(sample.of) /\ sample' = Input("date", AddDay(sample.of))
    BY <2>1, SampleOfKind DEF NextDay
  <2>3. sample'.of = AddDay(sample.of)
    BY <2>2 DEF Input
  <2>4. QED BY <2>2, <2>3, DayAdvances
<1>2. Spec => [][Advance]_sample
  <2> HIDE DEF Advance
  <2>1. QED BY <1>1, SampledInvariant, PTL DEF Spec
<1>3. QED BY <1>2 DEF CalendarAdvances
=============================================================================
