------------------------------- MODULE Calendar -------------------------------
(***************************************************************************)
(* The generated dimensions: one row of dim_date per day (src/src/warehouse/ *)
(* dimensions/dim_date.py) and one of dim_time per minute (dim_time.py).     *)
(* Python's date is the record [y, m, d, weekday, yday]; labels that only    *)
(* spell other columns out are left out, and so is the ISO week.            *)
(***************************************************************************)
EXTENDS Integers

IsLeap(year) == year % 4 = 0 /\ (year % 100 # 0 \/ year % 400 = 0)

(* calendar.monthrange(y, m)[1].                                             *)
MonthRange(y, m) ==
    IF m = 2 THEN (IF y % 4 = 0 /\ (y % 100 # 0 \/ y % 400 = 0) THEN 29 ELSE 28)
    ELSE IF m \in {4, 6, 9, 11} THEN 30 ELSE 31

(* Of timetuple(): the days of the year before the month.                    *)
DaysBefore(y, m) ==
    <<0, 31, 59, 90, 120, 151, 181, 212, 243, 273, 304, 334>>[m]
      + (IF m > 2 /\ MonthRange(y, 2) = 29 THEN 1 ELSE 0)

IsDate(t) ==
    /\ t = [y |-> t.y, m |-> t.m, d |-> t.d, weekday |-> t.weekday, yday |-> t.yday]
    /\ t.y \in Nat /\ t.m \in 1..12 /\ t.d \in 1..MonthRange(t.y, t.m)
    /\ t.weekday \in 0..6 /\ t.yday = DaysBefore(t.y, t.m) + t.d

(* date + timedelta(days=1).                                                 *)
AddDay(t) ==
    LET newMonth == t.d = MonthRange(t.y, t.m)
        newYear == newMonth /\ t.m = 12
    IN  [y |-> IF newYear THEN t.y + 1 ELSE t.y,
         m |-> IF newYear THEN 1 ELSE IF newMonth THEN t.m + 1 ELSE t.m,
         d |-> IF newMonth THEN 1 ELSE t.d + 1,
         weekday |-> (t.weekday + 1) % 7,
         yday |-> IF newYear THEN 1 ELSE t.yday + 1]

(* (Variant: the quarter computed by a remainder.)                           *)
FiscalByRemainder(month, year) == 
    <<IF month >= 4 THEN year + 1 ELSE year, ((month - 4) % 12) \div 4 + 1>>

Fiscal(month, year) ==
    LET mapping == [m \in 1..12 |->
            CASE m \in 4..6 -> <<1, 1>> [] m \in 7..9 -> <<1, 2>>
              [] m \in 10..12 -> <<1, 3>> [] m \in 1..3 -> <<0, 4>>]
    IN  <<year + mapping[month][1], mapping[month][2]>>

Season(month) ==
    CASE month \in {12, 1, 2} -> "Winter" [] month \in {3, 4, 5} -> "Spring"
      [] month \in {6, 7, 8} -> "Summer" [] OTHER -> "Autumn"

DateRow(t) ==
    [date_key |-> t.y * 10000 + t.m * 100 + t.d,
     day_of_week |-> t.weekday + 1,
     day_of_year |-> t.yday,
     month_number |-> t.m,
     quarter |-> (t.m - 1) \div 3 + 1,
     year |-> t.y,
     is_weekend |-> t.weekday + 1 >= 6,
     is_weekday |-> t.weekday + 1 < 6,
     is_leap_year |-> IsLeap(t.y),
     days_in_month |-> MonthRange(t.y, t.m),
     fiscal_year |-> Fiscal(t.m, t.y)[1],
     fiscal_quarter |-> Fiscal(t.m, t.y)[2],
     season |-> Season(t.m)]

-----------------------------------------------------------------------------
TimeOfDay(hour) ==
    CASE 5 <= hour /\ hour < 12 -> "Morning" [] 12 <= hour /\ hour < 17 -> "Afternoon"
      [] 17 <= hour /\ hour < 21 -> "Evening" [] OTHER -> "Night"

TimeRow(h, m) ==
    [time_key |-> h * 100 + m,
     hour_24 |-> h,
     minute |-> m,
     hour_12 |-> IF h % 12 = 0 THEN 12 ELSE h % 12,
     am_pm |-> IF h < 12 THEN "AM" ELSE "PM",
     time_of_day |-> TimeOfDay(h),
     is_business_hour |-> 9 <= h /\ h < 17,
     is_peak_hour |-> (7 <= h /\ h < 9) \/ (17 <= h /\ h < 19)]

DimTime == {TimeRow(h, m) : h \in 0..23, m \in 0..59}
=============================================================================
