----------------------------- MODULE LoopCalendar ----------------------------
(***************************************************************************)
(* The calendar of a loop (internal/loop/calendar.go): weekdays and daily  *)
(* windows in a time zone, and the instant at which it opens next.         *)
(*                                                                         *)
(* Days and weeks are DayLength units and WeekLength days long.  The zone  *)
(* changes its offset from OffsetBefore to OffsetAfter once, at Change.    *)
(***************************************************************************)
EXTENDS Integers, FiniteSetsExt

CONSTANTS
    DayLength, WeekLength, OffsetBefore, OffsetAfter, Change,
    MaxWindows, Horizon     \* bounds: windows of a calendar, instants asked about

ASSUME CalendarAssumption ==
    /\ {DayLength, WeekLength} \subseteq Nat \ {0}
    /\ {OffsetBefore, OffsetAfter} \subseteq Int
    /\ {Change, MaxWindows, Horizon} \subseteq Nat

VARIABLES
    calNow,           \* the instant asked about
    calDays,          \* the weekdays of the calendar
    calWindows        \* its windows, sorted

calVars == <<calNow, calDays, calWindows>>

(***************************************************************************)
(* CompileCalendar: each window must end after it starts; what is accepted *)
(* is sorted by the start of the windows, and none reaches into the next.  *)
(***************************************************************************)
Clock == 0..(DayLength - 1)
Windows == {w \in [start : Clock, end : 0..DayLength] : w.end > w.start}
Compiled ==
    {ws \in UNION {[1..n -> Windows] : n \in 1..MaxWindows} :
        \A i \in DOMAIN ws \ {1} : ws[i].start >= ws[i - 1].end}

CalInit ==
    /\ calNow = 0
    /\ calDays \in (SUBSET (0..(WeekLength - 1))) \ {{}}
    /\ calWindows \in Compiled

CalNext ==
    /\ calNow < Horizon /\ calNow' = calNow + 1
    /\ UNCHANGED <<calDays, calWindows>>

(***************************************************************************)
(* Local time: t.In(location), and time.Date, which takes the offset in    *)
(* force at the wall clock read as UTC, and looks again if that offset is  *)
(* not in force at the instant it gives.                                   *)
(***************************************************************************)
OffsetAt(t) == IF t < Change THEN OffsetBefore ELSE OffsetAfter
LocalTime(t) == t + OffsetAt(t)
LocalDay(t) == LocalTime(t) \div DayLength

At(day, second) ==
    LET wall == day * DayLength + second
        guess == wall - OffsetAt(wall)
    IN IF OffsetAt(wall) = 0 \/ (guess < Change <=> wall < Change)
       THEN guess ELSE wall - OffsetAt(guess)

(***************************************************************************)
(* openWindow, Open, OpenUntil, NextOpen.                                  *)
(***************************************************************************)
OpenWindows(t) ==
    {i \in DOMAIN calWindows :
        /\ LocalDay(t) % WeekLength \in calDays
        /\ LocalTime(t) % DayLength >= calWindows[i].start
        /\ LocalTime(t) % DayLength < calWindows[i].end}
IsOpen(t) == OpenWindows(t) # {}
OpenUntil(t) == At(LocalDay(t), calWindows[Min(OpenWindows(t))].end)

\* The windows of today and of the days until a week and a day later, in their
\* order; one that does not open after t, or is not open when it should be,
\* is passed over.
Candidates(t) ==
    {c \in (0..(WeekLength + 1)) \X DOMAIN calWindows :
        LET open == At(LocalDay(t) + c[1], calWindows[c[2]].start)
        IN /\ (LocalDay(t) + c[1]) % WeekLength \in calDays
           /\ open > t /\ IsOpen(open)}
Before(c, d) == c[1] < d[1] \/ (c[1] = d[1] /\ c[2] < d[2])
EarliestOf(C) == CHOOSE c \in C : \A d \in C \ {c} : Before(c, d)

NextOpenTomorrow(t) ==
    IF IsOpen(t) THEN t
    ELSE LET C == {c \in Candidates(t) : c[1] > 0}
         IN IF C = {} THEN t
            ELSE At(LocalDay(t) + EarliestOf(C)[1], calWindows[EarliestOf(C)[2]].start)
NextOpen(t) ==
    IF IsOpen(t) THEN t
    ELSE LET C == Candidates(t)
         IN IF C = {} THEN t
            ELSE At(LocalDay(t) + EarliestOf(C)[1], calWindows[EarliestOf(C)[2]].start)

CalSpec == CalInit /\ [][CalNext]_calVars

-----------------------------------------------------------------------------
(* Properties. *)

\* "NextOpen returns the earliest instant at or after t at which the calendar
\* is open" (calendar.go:222-223), and an open window stays open until its
\* end, in a zone that does not change its offset.
NextOpenIsEarliest ==
    OffsetBefore = OffsetAfter =>
        /\ NextOpen(calNow) >= calNow /\ IsOpen(NextOpen(calNow))
        /\ \A t \in calNow..(NextOpen(calNow) - 1) : ~IsOpen(t)
        /\ IsOpen(calNow) => \A t \in calNow..(OpenUntil(calNow) - 1) : IsOpen(t)

\* The same in a zone that does change it: no opening is passed over.
NextOpenSkipsNothing ==
    \A t \in calNow..(NextOpen(calNow) - 1) : ~IsOpen(t)

=============================================================================
