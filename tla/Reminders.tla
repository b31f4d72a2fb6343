------------------------------- MODULE Reminders -------------------------------
(***************************************************************************)
(* Schedule reminders (service/integration_schedule_reminders.go,          *)
(* service/user_reminder_time.go and their handlers in api_key_http.go).   *)
(*                                                                         *)
(* An integration asks which schedules of a user are due: those of today,  *)
(* where their marker is, from the user's reminder time on for an hour.    *)
(* Each that is returned leaves a row in the dispatch log, or changes the  *)
(* one it left before.  Time is counted in ticks of the clock.             *)
(***************************************************************************)
EXTENDS Integers, FiniteSets

CONSTANTS
    Planned,    \* schedules with a marker
    Poll,       \* requests that are served at the same time
    DayTicks,   \* ticks of a day
    Window,     \* reminderDueWindowMinutes
    LastDay,    \* days that are looked at (bound)
    Zone,       \* time zones of markers, as ticks ahead of UTC
    DueTime,    \* reminder times: ticks after midnight
    NoLog       \* no row in the log

ASSUME ReminderAssumption ==
    /\ DayTicks \in Nat \ {0}
    /\ Window \in 1 .. DayTicks
    /\ LastDay \in Nat
    /\ Zone \subseteq 0 .. DayTicks
    /\ DueTime \subseteq 0 .. DayTicks - 1
    /\ 0 \in Zone /\ DueTime # {}

Day == 0 .. LastDay + 1
Tick == 0 .. DayTicks * (LastDay + 1) - 1

VARIABLES
    ticks,    \* now, in UTC
    dayOf,    \* selected_local_date of each schedule
    zoneOf,   \* time zone of its marker
    dueTime,  \* the preference of the user
    logOf,    \* schedule_reminder_dispatch_logs: by schedule and local date
    poll      \* local variables of each request

reminderVars == <<ticks, dayOf, zoneOf, dueTime, logOf, poll>>

Logged == [at : Tick, time : DueTime, zone : Zone]
DueItem == [of : Planned, day : Day, zone : Zone]

Polling == [step : {"idle", "time", "dispatch"}, time : DueTime, at : Tick,
            todo : SUBSET DueItem]

NotPolling == [step |-> "idle", time |-> CHOOSE t \in DueTime : TRUE, at |-> 0,
               todo |-> {}]

ReminderTypeOK ==
    /\ ticks \in Tick
    /\ dayOf \in [Planned -> Day]
    /\ zoneOf \in [Planned -> Zone]
    /\ dueTime \in DueTime
    /\ logOf \in [Planned \X Day -> {NoLog} \cup Logged]
    /\ poll \in [Poll -> Polling]

ReminderInit ==
    /\ ticks = 0
    /\ dayOf \in [Planned -> Day]
    /\ zoneOf \in [Planned -> Zone]
    /\ dueTime \in DueTime
    /\ logOf = [e \in Planned \X Day |-> NoLog]
    /\ poll = [p \in Poll |-> NotPolling]

-----------------------------------------------------------------------------

LocalDay(now, zone) == (now + zone) \div DayTicks
LocalTick(now, zone) == (now + zone) % DayTicks

\* Mistake: the window is one tick too long.
InWindowClosed(local, start) ==
    LET end == (start + Window) % DayTicks
    IN  IF start <= end THEN start <= local /\ local <= end
                        ELSE start <= local \/ local <= end

\* isInReminderWindow.
InReminderWindow(local, start) ==
    LET end == (start + Window - 1) % DayTicks
    IN  IF start <= end THEN start <= local /\ local <= end
                        ELSE start <= local \/ local <= end

\* GetUserReminderTime.
ReadReminderTime(p) ==
    /\ poll[p].step = "idle"
    /\ poll' = [poll EXCEPT ![p] = [NotPolling EXCEPT !.step = "time", !.time = dueTime]]
    /\ UNCHANGED <<ticks, dayOf, zoneOf, dueTime, logOf>>

\* getDueScheduleRemindersByUsername: what is due now.
SelectDue(p) ==
    /\ poll[p].step = "time"
    /\ poll' = [poll EXCEPT
                  ![p].step = "dispatch", ![p].at = ticks,
                  ![p].todo = {[of |-> s, day |-> dayOf[s], zone |-> zoneOf[s]] :
                                 s \in {s \in Planned :
                                          /\ LocalDay(ticks, zoneOf[s]) = dayOf[s]
                                          /\ InReminderWindow(LocalTick(ticks, zoneOf[s]),
                                                              poll[p].time)}}]
    /\ UNCHANGED <<ticks, dayOf, zoneOf, dueTime, logOf>>

\* Mistake: a row that is there keeps its time zone.
DispatchKeepsZone(p, item) ==
    LET key == <<item.of, item.day>> IN
    /\ item \in poll[p].todo
    /\ logOf' = [logOf EXCEPT ![key] =
                   IF @ = NoLog THEN [at |-> poll[p].at, time |-> poll[p].time, zone |-> item.zone]
                   ELSE [@ EXCEPT !.at = poll[p].at, !.time = poll[p].time]]
    /\ poll' = [poll EXCEPT ![p].todo = @ \ {item}]
    /\ UNCHANGED <<ticks, dayOf, zoneOf, dueTime>>

\* Mistake: the row gets the local time.
DispatchLocal(p, item) ==
    /\ item \in poll[p].todo
    /\ logOf' = [logOf EXCEPT ![<<item.of, item.day>>] =
                   [at |-> poll[p].at + item.zone, time |-> poll[p].time, zone |-> item.zone]]
    /\ poll' = [poll EXCEPT ![p].todo = @ \ {item}]
    /\ UNCHANGED <<ticks, dayOf, zoneOf, dueTime>>

\* A row of the log is inserted or overwritten, and the item is returned.
Dispatch(p, item) ==
    /\ item \in poll[p].todo
    /\ logOf' = [logOf EXCEPT ![<<item.of, item.day>>] =
                   [at |-> poll[p].at, time |-> poll[p].time, zone |-> item.zone]]
    /\ poll' = [poll EXCEPT ![p].todo = @ \ {item}]
    /\ UNCHANGED <<ticks, dayOf, zoneOf, dueTime>>

\* All are written, or a call of the database fails: then the rows stay and
\* nothing is returned.
EndPoll(p) ==
    /\ poll[p].step # "idle"
    /\ poll' = [poll EXCEPT ![p] = NotPolling]
    /\ UNCHANGED <<ticks, dayOf, zoneOf, dueTime, logOf>>

SetUserReminderTime(t) ==
    /\ dueTime' = t
    /\ UNCHANGED <<ticks, dayOf, zoneOf, logOf, poll>>

\* A schedule gets another date; its marker, another place.
Reschedule(s, d, z) ==
    /\ dayOf' = [dayOf EXCEPT ![s] = d]
    /\ zoneOf' = [zoneOf EXCEPT ![s] = z]
    /\ UNCHANGED <<ticks, dueTime, logOf, poll>>

ClockTicks ==
    /\ ticks + 1 \in Tick
    /\ ticks' = ticks + 1
    /\ UNCHANGED <<dayOf, zoneOf, dueTime, logOf, poll>>

ReminderNext ==
    \/ \E p \in Poll :
          \/ ReadReminderTime(p) \/ SelectDue(p) \/ EndPoll(p)
          \/ \E item \in poll[p].todo : Dispatch(p, item)
    \/ \E t \in DueTime : SetUserReminderTime(t)
    \/ \E s \in Planned, d \in Day, z \in Zone : Reschedule(s, d, z)
    \/ ClockTicks

ReminderSpec == ReminderInit /\ [][ReminderNext]_reminderVars

-----------------------------------------------------------------------------
(* Properties                                                              *)

\* The log is about the day it says, however polls, changes of the schedule and
\* of its marker's place interleave: where the row says the marker is, it was
\* that day when the reminder was sent.
LoggedOnItsDay ==
    \A e \in Planned \X Day :
        logOf[e] # NoLog => LocalDay(logOf[e].at, logOf[e].zone) = e[2]

\* A reminder is sent less than Window after the reminder time of that day, or,
\* when that is past midnight, after the one of the day before.
LoggedInWindow ==
    \A e \in Planned \X Day :
        logOf[e] # NoLog =>
            \E day \in {e[2], e[2] - 1} :
                LET since == logOf[e].at + logOf[e].zone - (day * DayTicks + logOf[e].time)
                IN  since \in 0 .. Window - 1

\* What the log says of the day, and of the time, of a reminder is so.
LoggedWhenDue == LoggedOnItsDay /\ LoggedInWindow

===============================================================================
