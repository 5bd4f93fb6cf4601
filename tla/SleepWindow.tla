------------------------------ MODULE SleepWindow ------------------------------
(***************************************************************************)
(* Sleep Mode's window on the server's clock (sleep-mode.ts), which loses  *)
(* or repeats an hour when it changes for daylight saving, and the polls   *)
(* of a Device: asleep it is told to come back when the window ends.       *)
(* Moments are counted in a unit the constants share.                      *)
(***************************************************************************)
EXTENDS Integers, FiniteSetsExt

CONSTANTS
  Day, HOUR, MIN_SLEEP_REFRESH_RATE,
  Rates,      \* what a Device that is awake may be told to wait
  Days        \* bound: the days looked at; the clock changes on the third

\* What a module that instantiates this one is to give it
SleepWindowAssumptions ==
  /\ {Day, HOUR, MIN_SLEEP_REFRESH_RATE, Days} \subseteq Nat \ {0} /\ Days > 4
  /\ HOUR < Day /\ Day % HOUR = 0
  /\ MIN_SLEEP_REFRESH_RATE <= Day /\ Rates \subseteq 1..Day

VARIABLES now, start, end, changesAt, shift

vars == <<now, start, end, changesAt, shift>>

-----------------------------------------------------------------------------
(* JavaScript's Date in the server's time zone                             *)

Offset(moment) == IF moment < changesAt THEN 0 ELSE shift
\* What the calendar and the clock show, as units since the first midnight
Wall(moment) == moment + Offset(moment)
dayOf(moment) == Wall(moment) \div Day
secondsOfDay(moment) == Wall(moment) % Day

\* new Date(y, m, d, 0, 0, t): the first of two moments that read so; one that is
\* skipped is counted with the offset before the change.
At(wall) == IF wall < changesAt \/ wall < changesAt + shift THEN wall ELSE wall - shift
onDayOf(moment, timeOfDay) == At(dayOf(moment) * Day + timeOfDay)
\* setDate keeps the time of day
PlusDays(moment, n) == At(Wall(moment) + n * Day)

-----------------------------------------------------------------------------
isDeviceAsleep(moment) ==
  LET current == secondsOfDay(moment)
  IN IF start > end THEN current >= start \/ current < end ELSE current >= start /\ current < end

ReadsTheSame(moment, other) == secondsOfDay(moment) = secondsOfDay(other)

\* Slip: the repeated hour is forgotten
NextOnce(sleepEnd, moment) ==
  LET today == onDayOf(moment, sleepEnd) IN IF today > moment THEN today ELSE PlusDays(today, 1)

nextSleepEnd(sleepEnd, moment) ==
  LET today == onDayOf(moment, sleepEnd)
      repeated == today + HOUR
  IN IF today > moment THEN today
     ELSE IF repeated > moment /\ ReadsTheSame(repeated, today) THEN repeated
     ELSE PlusDays(today, 1)

lastSleepEnd(sleepEnd, moment) ==
  LET today == onDayOf(moment, sleepEnd)
      last == IF today > moment THEN onDayOf(PlusDays(moment, -1), sleepEnd) ELSE today
      repeated == last + HOUR
  IN IF repeated <= moment /\ ReadsTheSame(repeated, last) THEN repeated ELSE last

secondsUntilSleepEnd == Max({MIN_SLEEP_REFRESH_RATE, nextSleepEnd(end, now) - now})

-----------------------------------------------------------------------------
Init ==
  /\ now \in Day..(2 * Day - 1)
  /\ start \in 0..(Day - 1) /\ end \in 0..(Day - 1)
  /\ shift \in {-HOUR, 0, HOUR}
  /\ changesAt \in {n \in (2 * Day)..(3 * Day - 1) : n % HOUR = 0}  \* on the hour

\* DisplayService.buildSleepResponse, and the Device that does as it is told
Poll ==
  /\ now < (Days - 1) * Day
  /\ \E rate \in IF isDeviceAsleep(now) THEN {secondsUntilSleepEnd} ELSE Rates : now' = now + rate
  /\ UNCHANGED <<start, end, changesAt, shift>>

Next == Poll
Spec == Init /\ [][Next]_vars

-----------------------------------------------------------------------------
(* What the code is to guarantee.                                          *)

Moments == 0..((Days + 2) * Day)
Readings == {m \in Moments : secondsOfDay(m) = end}
\* The night that skips the end of the window has no moment that reads it.
Skipped(time) == shift > 0 /\ \E wall \in changesAt..(changesAt + shift - 1) : wall % Day = time

\* lastSleepEnd "agrees with the nextSleepEnd of a day before, even for a wake
\* time inside the skipped hour": the end that was coming is the last once it is there.
NextAgreesWithLast == LET next == nextSleepEnd(end, now) IN lastSleepEnd(end, next) = next

\* Unless a night skips that time, both ends are what the clock says they are, on
\* nights that lose or repeat an hour too, and a Device asleep polls next when it
\* is awake, or as soon as it may.
EndsAsTheClockReads ==
  ~Skipped(end) =>
    /\ nextSleepEnd(end, now) = Min({m \in Readings : m > now})
    /\ lastSleepEnd(end, now) = Max({m \in Readings : m <= now})
    /\ isDeviceAsleep(now) /\ isDeviceAsleep(now + secondsUntilSleepEnd) =>
         secondsUntilSleepEnd = MIN_SLEEP_REFRESH_RATE
=============================================================================
