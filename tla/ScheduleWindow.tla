----------------------------- MODULE ScheduleWindow -----------------------------
(***************************************************************************)
(* What a Schedule says of a moment (schedule-eligibility.ts): switched    *)
(* off, weekdays, a range of dates, and hours that may run past midnight,  *)
(* read on the server's clock.  Dates are counted in days, days are Day    *)
(* units long, and a week has Week days.                                   *)
(***************************************************************************)
EXTENDS Integers

CONSTANTS
  Day, Week,
  Weekdays,    \* the choices of weekdays; {} stands for every one of them
  DateRanges,  \* the ranges of dates: pairs, or None
  None,
  Last         \* bound: the last moment looked at

\* What a module that instantiates this one is to give it
ScheduleWindowAssumptions ==
  /\ {Day, Week} \subseteq Nat \ {0} /\ Last \in Nat /\ Last >= Day
  /\ \A range \in DateRanges \ {None} : range \in Nat \X Nat
  /\ None \notin (0..(Day - 1)) \X (0..(Day - 1))

VARIABLES schedule, now

vars == <<schedule, now>>

-----------------------------------------------------------------------------
clockMinutes == now % Day
today == now \div Day

Timed == schedule.hours # None
crossesMidnight == schedule.hours[1] > schedule.hours[2]

\* Slip: the hours past midnight count for the day they are on
DayItIs == today
dayTheWindowStarted ==
  IF Timed /\ crossesMidnight /\ clockMinutes <= schedule.hours[2] THEN today - 1 ELSE today

matchesWeekday(day) == schedule.weekdays = {} \/ day % Week \in schedule.weekdays

matchesDateRange(day) == schedule.dates # None => schedule.dates[1] <= day /\ day <= schedule.dates[2]

matchesTimeWindow ==
  Timed => LET from == schedule.hours[1] <= clockMinutes
               to == clockMinutes <= schedule.hours[2]
           IN IF crossesMidnight THEN from \/ to ELSE from /\ to

\* The first reason that applies
scheduleExclusion ==
  CASE ~schedule.enabled -> "scheduleOff"
    [] ~matchesWeekday(dayTheWindowStarted) -> "weekday"
    [] ~matchesDateRange(dayTheWindowStarted) -> "dateRange"
    [] ~matchesTimeWindow -> "notThisHour"
    [] OTHER -> "shows"

-----------------------------------------------------------------------------
Init ==
  /\ schedule \in [enabled: BOOLEAN, weekdays: Weekdays, dates: DateRanges,
                   hours: {None} \cup ((0..(Day - 1)) \X (0..(Day - 1)))]
  /\ now = Day

Tick == now < Last /\ now' = now + 1 /\ UNCHANGED schedule

Next == Tick
Spec == Init /\ [][Next]_vars

-----------------------------------------------------------------------------
(* What the code is to guarantee.                                          *)

\* "A window that crosses midnight belongs to the day it starts on": the Screen
\* shows exactly in the windows that begin on a day the Schedule is for, each from
\* its first minute to its last, both included.
WindowsBelongToTheirDay ==
  LET window(day) == IF ~Timed THEN <<day * Day, day * Day + Day - 1>>
                     ELSE <<day * Day + schedule.hours[1],
                            day * Day + schedule.hours[2] + (IF crossesMidnight THEN Day ELSE 0)>>
      open == \E day \in 0..(Last \div Day) :
                /\ schedule.weekdays = {} \/ day % Week \in schedule.weekdays
                /\ schedule.dates = None \/ day \in schedule.dates[1]..schedule.dates[2]
                /\ now \in window(day)[1]..window(day)[2]
  IN (scheduleExclusion = "shows") = (schedule.enabled /\ open)
=============================================================================
