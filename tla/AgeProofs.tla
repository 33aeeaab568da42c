----------------------------- MODULE AgeProofs -----------------------------
(***************************************************************************)
(* The age of ProfileScreen is right on every day of every calendar year.  *)
(* The inductive invariant adds to the types that nobody is born after     *)
(* today, which the date picker ensures and the clock preserves.           *)
(***************************************************************************)
EXTENDS Age, TLAPS

\* The inductive invariant: nobody is born after today.
BornByToday == TypeOK /\ NotAfter(birthday, today)

\* DaysIn is a length of a month.
LEMMA MonthLength ==
    ASSUME NEW y, NEW m
    PROVE  DaysIn(y, m) \in {28, 29, 30, 31}
  BY DEF DaysIn

\* The fields of a date are a year, a month and a day that the month has.
LEMMA DateFields ==
    ASSUME NEW d \in Date
    PROVE  /\ d = [year |-> d.year, month |-> d.month, day |-> d.day]
           /\ d.year \in Int /\ d.month \in 1..12 /\ d.day \in 1..31
           /\ d.year \in FirstYear..LastYear
           /\ d.day <= DaysIn(d.year, d.month)
  BY AgeAssumption DEF Date

\* Tomorrow(d), field by field: the three ways a day can end.
LEMMA TomorrowFields ==
    ASSUME NEW d \in Date
    PROVE  LET t == Tomorrow(d)
           IN  \/ t = [year |-> d.year, month |-> d.month, day |-> d.day + 1]
                  /\ d.day < DaysIn(d.year, d.month)
               \/ t = [year |-> d.year, month |-> d.month + 1, day |-> 1]
                  /\ d.month < 12
               \/ t = [year |-> d.year + 1, month |-> 1, day |-> 1]
                  /\ d.month = 12
  BY DateFields DEF Tomorrow

\* The clock shows dates: the days after dates are dates.
LEMMA TomorrowIsDate ==
    ASSUME NEW d \in Date, Tomorrow(d).year <= LastYear
    PROVE  Tomorrow(d) \in Date
<1> DEFINE t == Tomorrow(d)
<1>1. CASE /\ t = [year |-> d.year, month |-> d.month, day |-> d.day + 1]
           /\ d.day < DaysIn(d.year, d.month)
  <2>1. d.day + 1 \in 1..31 /\ d.day + 1 <= DaysIn(d.year, d.month)
    BY <1>1, DateFields, MonthLength
  <2> QED BY <1>1, <2>1, DateFields DEF Date
<1>2. CASE /\ t = [year |-> d.year, month |-> d.month + 1, day |-> 1]
           /\ d.month < 12
  <2>1. 1 <= DaysIn(d.year, d.month + 1) BY MonthLength
  <2> QED BY <1>2, <2>1, DateFields DEF Date
<1>3. CASE t = [year |-> d.year + 1, month |-> 1, day |-> 1] /\ d.month = 12
  <2>1. 1 <= DaysIn(d.year + 1, 1) BY MonthLength
  <2>2. d.year + 1 \in FirstYear..LastYear BY <1>3, DateFields, AgeAssumption
  <2> QED BY <1>3, <2>1, <2>2 DEF Date
<1> QED BY <1>1, <1>2, <1>3, TomorrowFields

\* Whoever is born is still born the day after.
LEMMA BornStaysBorn ==
    ASSUME NEW b \in Date, NEW d \in Date, NotAfter(b, d)
    PROVE  NotAfter(b, Tomorrow(d))
<1>1. /\ b.year \in Int /\ b.month \in Int /\ b.day \in Int
      /\ d.year \in Int /\ d.month \in Int /\ d.day \in Int
  BY DateFields
<1> QED BY <1>1, TomorrowFields DEF NotAfter

\* Time passing keeps BornByToday.
LEMMA BornByTodayInductive == BornByToday /\ [Next]_vars => BornByToday'
<1> SUFFICES ASSUME BornByToday, [Next]_vars PROVE BornByToday'
  OBVIOUS
<1>1. CASE NextDay
  BY <1>1, TomorrowIsDate, BornStaysBorn DEF NextDay, BornByToday, TypeOK
<1>2. CASE UNCHANGED vars
  BY <1>2 DEF vars, BornByToday, TypeOK
<1> QED BY <1>1, <1>2 DEF Next

\* What calculateAge computes, for every two dates in order.
LEMMA AgeOfDates ==
    ASSUME NEW b \in Date, NEW d \in Date, NotAfter(b, d)
    PROVE  LET age == calculateAge(b, d)
           IN  /\ age \in Nat
               /\ Reached(b, age, d)
               /\ ~Reached(b, age + 1, d)
<1> DEFINE age == calculateAge(b, d)
<1>1. /\ b.year \in Int /\ b.month \in Int /\ b.day \in Int
      /\ d.year \in Int /\ d.month \in Int /\ d.day \in Int
  BY DateFields
<1>2. age \in Nat
  BY <1>1 DEF calculateAge, NotAfter
<1>3. Reached(b, age, d)
  BY <1>1, <1>2 DEF calculateAge, Reached, NotAfter
<1>4. ~Reached(b, age + 1, d)
  BY <1>1, <1>2 DEF calculateAge, Reached, NotAfter
<1> QED BY <1>2, <1>3, <1>4

\* calculateAge (profile.dart 59-74) counts the birthdays that have come, for
\* every birthday the picker offers and every day after it.
THEOREM AgeIsRight == Spec => []AgeCountsBirthdays
<1>1. Init => BornByToday
  BY DEF Init, BornByToday, TypeOK
<1>2. BornByToday => AgeCountsBirthdays
  BY AgeOfDates DEF BornByToday, TypeOK, AgeCountsBirthdays
<1> QED BY <1>1, <1>2, BornByTodayInductive, PTL DEF Spec

\* From one day to the next the age calculateAge shows stays or grows by one.
THEOREM NobodySkipsAYear == Spec => AgesOneAtATime
<1> DEFINE grows == calculateAge(birthday, today') - calculateAge(birthday, today)
<1>1. BornByToday /\ [Next]_vars => [(grows \in {0, 1})]_vars
  <2> SUFFICES ASSUME BornByToday, NextDay PROVE grows \in {0, 1}
    BY DEF Next
  <2>1. today \in Date /\ birthday \in Date /\ today' = Tomorrow(today)
    BY DEF BornByToday, TypeOK, NextDay
  <2>2. /\ birthday.year \in Int /\ birthday.month \in 1..12 /\ birthday.day \in 1..31
        /\ today.year \in Int /\ today.month \in 1..12 /\ today.day \in 1..31
    BY <2>1, DateFields
  <2> QED BY <2>1, <2>2, TomorrowFields DEF calculateAge
<1>2. Init => BornByToday
  BY DEF Init, BornByToday, TypeOK
<1> QED BY <1>1, <1>2, BornByTodayInductive, PTL DEF Spec, AgesOneAtATime

=============================================================================
