-------------------------------- MODULE Age --------------------------------
(***************************************************************************)
(* The age ProfileScreen shows of a user with some birthday, computed anew *)
(* by every build while days go by.                                        *)
(***************************************************************************)
EXTENDS Integers

CONSTANTS
    FirstYear,  \* the date picker's first year
    LastYear    \* bound: the year in which the clock stops

ASSUME AgeAssumption == FirstYear \in Nat /\ LastYear \in Nat /\ FirstYear <= LastYear

VARIABLES today, birthday

vars == <<today, birthday>>

IsLeap(y) == y % 4 = 0 /\ (y % 100 # 0 \/ y % 400 = 0)

DaysIn(y, m) ==
    CASE m \in {4, 6, 9, 11} -> 30
      [] m = 2               -> IF IsLeap(y) THEN 29 ELSE 28
      [] OTHER               -> 31

\* A DateTime, without its time of day.
Date == {d \in [year: FirstYear..LastYear, month: 1..12, day: 1..31] :
            d.day <= DaysIn(d.year, d.month)}

\* d comes before e, or is the same day.
NotAfter(d, e) ==
    \/ d.year < e.year
    \/ d.year = e.year /\ d.month < e.month
    \/ d.year = e.year /\ d.month = e.month /\ d.day <= e.day

\* The day after d.
Tomorrow(d) ==
    IF d.day < DaysIn(d.year, d.month)
    THEN [year |-> d.year, month |-> d.month, day |-> d.day + 1]
    ELSE IF d.month < 12
    THEN [year |-> d.year, month |-> d.month + 1, day |-> 1]
    ELSE [year |-> d.year + 1, month |-> 1, day |-> 1]

TypeOK == today \in Date /\ birthday \in Date

----------------------------------------------------------------------------

\* Mutant: the birthday itself does not count.
calculateAge_DayBefore(birthDate, currentDate) ==
    LET age == currentDate.year - birthDate.year
    IN  IF birthDate.month > currentDate.month THEN age - 1
        ELSE IF birthDate.month = currentDate.month /\ birthDate.day >= currentDate.day
        THEN age - 1
        ELSE age

\* Mutant: the days are compared in every month.
calculateAge_AnyMonth(birthDate, currentDate) ==
    LET age == currentDate.year - birthDate.year
    IN  IF birthDate.month > currentDate.month \/ birthDate.day > currentDate.day
        THEN age - 1
        ELSE age

calculateAge(birthDate, currentDate) ==
    LET age == currentDate.year - birthDate.year
    IN  IF birthDate.month > currentDate.month THEN age - 1
        ELSE IF birthDate.month = currentDate.month /\ birthDate.day > currentDate.day
        THEN age - 1
        ELSE age

----------------------------------------------------------------------------

\* RegisterScreen and ProfileConfig offer the days up to today.
Init ==
    /\ today \in Date
    /\ birthday \in Date
    /\ NotAfter(birthday, today)

\* The clock of the device.
NextDay ==
    /\ Tomorrow(today).year <= LastYear
    /\ today' = Tomorrow(today)
    /\ UNCHANGED birthday

Next == NextDay

Spec == Init /\ [][Next]_vars

----------------------------------------------------------------------------
(* Properties *)

\* The n-th birthday of who was born on b has come by day d.
Reached(b, n, d) ==
    NotAfter([year |-> b.year + n, month |-> b.month, day |-> b.day], d)

\* The age shown is the number of birthdays reached: that many have come, and
\* the next one has not, also for the 29th of February.
AgeCountsBirthdays ==
    LET age == calculateAge(birthday, today)
    IN  /\ age >= 0
        /\ Reached(birthday, age, today)
        /\ ~Reached(birthday, age + 1, today)

\* Overnight the age stays or grows by one, never more, across the ends of
\* months, years and Februaries.
AgesOneAtATime ==
    [][calculateAge(birthday, today') - calculateAge(birthday, today) \in {0, 1}]_vars

=============================================================================
