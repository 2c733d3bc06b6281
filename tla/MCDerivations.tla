----------------------------- MODULE MCDerivations -----------------------------
(* Derivations with the values on both sides of every threshold, all the     *)
(* offsets in use, small batches, and the calendar the pipeline generates.   *)
EXTENDS Derivations

CONSTANTS Name, c1, c2, c3, k1, k2

ReadingInputs ==
    {Input("reading", r) : r \in
        [name : {Name}, observed : {1}, temp : {-892, -200, -199, -1, 0, 269, 270, 300, 399, 400, 567},
         humidity : {NULL, -1, 0, 39, 40, 94, 95, 100, 101}, wind : {4, 5, 244, 245, 1130, 1131},
         visibility : {NULL, 200, 201}, gust : {NULL, 10}]
      \cup
        [name : {Name, NULL}, observed : {1, NULL}, temp : {NULL, -893, -892, 567, 568},
         humidity : {NULL, -1, 0, 100, 101}, wind : {5}, visibility : {201}, gust : {10}]}

(* Every whole-hour offset, and the fractions: India, Nepal, Newfoundland,   *)
(* the Marquesas, Central Australia, the Chatham Islands.                    *)
Offsets == {3600 * k : k \in -12..14} \cup {19800, 20700, -12600, -9000, -34200, 34200, 45900}

ClockInputs ==
    {Input("clock", r) : r \in [hour : 0..23, minute : {0, 15, 30, 45}, offset : Offsets]}

(* Two cities of country k1, which may share a name, and one of country k2.  *)
Cities(shared) ==
    {[city |-> c1, name |-> "a", country |-> k1],
     [city |-> c2, name |-> IF shared THEN "a" ELSE "b", country |-> k1],
     [city |-> c3, name |-> "a", country |-> k2]}

Rows(shared) ==
    {[city |-> c.city, name |-> c.name, country |-> c.country, day |-> d, hour |-> h, temp |-> t] :
        c \in Cities(shared), d \in {1}, h \in {-5, 19}, t \in {-1, 0, 2}}

BatchInputs ==
    {Input("batch", df) : df \in UNION {[1..n -> Rows(shared)] : n \in 0..2, shared \in BOOLEAN}}
      \cup
    {Input("batch", df) : df \in
        {<<p, q, r>> : p \in {s \in Rows(FALSE) : s.city = c1}, q \in {s \in Rows(FALSE) : s.city = c2},
                       r \in {s \in Rows(FALSE) : s.city = c3}}}

HeatInputs ==
    {Input("heat", [hot |-> hot, before |-> before]) :
        hot \in SUBSET ({c1, c2} \X (1..4)),
        before \in [1..4 -> {{<<c1, c2>>}, {<<c2, c1>>}}]}

ReadingsInputs ==
    {Input("readings", count) : count \in
        {b \in [{0, 1, 5} -> 0..12] : b[0] + b[1] + b[5] \in 1..12}}

MCInputs ==
    ReadingInputs \cup ClockInputs \cup BatchInputs \cup ReadingsInputs
      \cup {Input("date", [y |-> 2020, m |-> 1, d |-> 1, weekday |-> 2, yday |-> 1])}
=============================================================================
