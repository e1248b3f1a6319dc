----------------------------- MODULE Sunriset -----------------------------
(***************************************************************************)
(* The SUNRISET device (sunriset.c): four twilights, from the horizon to   *)
(* the astronomical one, each with an event when the sun rises through it  *)
(* and one when it sets.  When the device is parsed, and at every local    *)
(* midnight, the times of the day are computed and one timer is armed for  *)
(* each event that is still to come.  Nothing remembers where the sun is:  *)
(* the conditions are read off which of the two timers of a twilight are   *)
(* left.                                                                   *)
(*                                                                         *)
(* Local time is counted in slots of a day.  The position of the sun is    *)
(* what __sunriset__ reduces it to: the time it is at south and, for each  *)
(* twilight, the arc it travels from there to the horizon of the twilight. *)
(***************************************************************************)
EXTENDS Integers

CONSTANTS
    Day,        \* slots of a local day
    Noons,      \* times the sun may be at south
    Arcs        \* Arcs[k]: half the time the sun spends above twilight k

(* Horizon, civil, nautical and astronomical.                              *)
Twilights == 1 .. 4

Events == {"RISE", "SET"} \X Twilights

(* A lower horizon is crossed earlier and left later; the diurnal arc is   *)
(* zero below and half a day above the horizon all day.                    *)
ASSUME SunAssumption ==
    /\ Day \in Nat /\ Day > 1
    /\ Noons \subseteq 0 .. Day - 1
    /\ Arcs \subseteq [Twilights -> 0 .. Day \div 2]
    /\ \A arc \in Arcs : \A j, k \in Twilights : j <= k => arc[j] <= arc[k]

NoTimer == -1       \* NULL

VARIABLES
    now,        \* local time, Day when the midnight timer is due
    times,      \* times[e]: when the event falls today
    timers,     \* sunriset_timers[e]: when the timer is due, or NoTimer
    midnight,   \* the midnight timer is armed
    rised,      \* rised, rised_civ, rised_naut, rised_astr
    raising,    \* the events in dispatch: none, or the one of the callback
    since,      \* history: when the times were last computed
    raised      \* history: how often each event was raised since then

sunVars == <<now, times, timers, midnight, rised, raising, since, raised>>

(* TMOD: one day is added or taken off.                                    *)
Wrapped(t) == IF t < 0 THEN t + Day ELSE IF t >= Day THEN t - Day ELSE t

SunTimes(noon, arc) ==
    [e \in Events |-> IF e[1] = "RISE" THEN Wrapped(noon - arc[e[2]])
                                       ELSE Wrapped(noon + arc[e[2]])]

(* Mutant: an event of this very minute is scheduled as well.              *)
EventTimersAtOnce(ts, t) ==
    [e \in Events |-> IF ts[e] >= t THEN ts[e] ELSE NoTimer]

(* sunriset_create_event_timer for each event: not for one in history.     *)
EventTimers(ts, t) == [e \in Events |-> IF ts[e] > t THEN ts[e] ELSE NoTimer]

(* sunriset_current_state: the sun has risen when the timer of the rise is *)
(* gone and that of the set is not.                                        *)
CurrentState(tm) ==
    [k \in Twilights |-> tm[<<"RISE", k>>] = NoTimer /\ tm[<<"SET", k>>] # NoTimer]

(* sunriset_calculate, at time t of a day with the times ts.               *)
Calculate(ts, t) ==
    /\ times' = ts
    /\ timers' = EventTimers(ts, t)
    /\ rised' = CurrentState(timers')
    /\ since' = t
    /\ raised' = [e \in Events |-> 0]

-----------------------------------------------------------------------------
(* sunriset_parser, at any time of any day.                                *)
SunInit ==
    /\ now \in 0 .. Day - 1
    /\ \E noon \in Noons, arc \in Arcs : times = SunTimes(noon, arc)
    /\ timers = EventTimers(times, now)
    /\ rised = CurrentState(timers)
    /\ midnight = TRUE
    /\ raising = {}
    /\ since = now
    /\ raised = [e \in Events |-> 0]

DueNow == {e \in Events : timers[e] = now}

(* Mutant: the timer is forgotten before the rules run.                    *)
RaiseEventLate(e) ==
    /\ raising = {}
    /\ e \in DueNow
    /\ raising' = {e}
    /\ raised' = [raised EXCEPT ![e] = @ + 1]
    /\ timers' = [timers EXCEPT ![e] = NoTimer]
    /\ rised' = CurrentState(timers')
    /\ UNCHANGED <<now, times, midnight, since>>

(* sunriset_event_callback up to the end of the dispatch: the rules run    *)
(* before anything of the device has changed.                              *)
RaiseEvent(e) ==
    /\ raising = {}
    /\ e \in DueNow
    /\ raising' = {e}
    /\ raised' = [raised EXCEPT ![e] = @ + 1]
    /\ UNCHANGED <<now, times, timers, midnight, rised, since>>

(* Mutant: the conditions are left as they were.                           *)
ForgetTimerOnly ==
    /\ raising # {}
    /\ timers' = [e \in Events |-> IF e \in raising THEN NoTimer ELSE timers[e]]
    /\ raising' = {}
    /\ UNCHANGED <<now, times, midnight, rised, since, raised>>

(* ... and its rest.                                                       *)
ForgetTimer ==
    /\ raising # {}
    /\ timers' = [e \in Events |-> IF e \in raising THEN NoTimer ELSE timers[e]]
    /\ rised' = CurrentState(timers')
    /\ raising' = {}
    /\ UNCHANGED <<now, times, midnight, since, raised>>

(* The local time the midnight timer fires at.  mktime keeps the daylight  *)
(* saving flag of the day before, so when the clock was changed that day   *)
(* it is an hour, here a slot, late or early.                              *)
Midnights == {0, 1, Day - 1}

(* Mutant: the timer is not armed for the next day.                        *)
NextRunOnce ==
    /\ now = Day /\ midnight
    /\ \E t \in Midnights, noon \in Noons, arc \in Arcs :
          now' = t /\ Calculate(SunTimes(noon, arc), t)
    /\ midnight' = FALSE
    /\ UNCHANGED raising

(* sunriset_next_run_callback and sunriset_calculate_next_run.             *)
NextRun ==
    /\ now = Day /\ midnight
    /\ \E t \in Midnights, noon \in Noons, arc \in Arcs :
          now' = t /\ Calculate(SunTimes(noon, arc), t)
    /\ midnight' = TRUE
    /\ UNCHANGED raising

(* The engine is stopped, in a dispatch or not, and parses the same rule   *)
(* file again on the same day.                                             *)
Reparse ==
    /\ now < Day
    /\ Calculate(times, now)
    /\ midnight' = TRUE
    /\ raising' = {}
    /\ UNCHANGED now

(* The loop fires a timer in the slot it is due in.                        *)
Tick ==
    /\ raising = {} /\ DueNow = {} /\ ~(now = Day /\ midnight)
    /\ now' = (now + 1) % (Day + 1)
    /\ UNCHANGED <<times, timers, midnight, rised, raising, since, raised>>

SunStep == (\E e \in Events : RaiseEvent(e)) \/ ForgetTimer \/ NextRun \/ Tick

SunNext == SunStep \/ Reparse

SunSpec == SunInit /\ [][SunNext]_sunVars

(* Time passes, a callback runs to its end and the loop fires what is due. *)
SunFairSpec == SunSpec /\ WF_sunVars(SunStep)

-----------------------------------------------------------------------------
SunTypeOK ==
    /\ now \in 0 .. Day
    /\ times \in [Events -> 0 .. Day - 1]
    /\ timers \in [Events -> -1 .. Day - 1]
    /\ midnight \in BOOLEAN
    /\ rised \in [Twilights -> BOOLEAN]
    /\ \E e \in Events : raising \in {{}, {e}}
    /\ since \in 0 .. Day - 1
    /\ raised \in [Events -> 0 .. 1]

(* sunriset_device_check.                                                  *)
SunCheck(type, k) == IF type = "SUNRISE" THEN rised[k] ELSE ~rised[k]

Settled == raising = {} /\ DueNow = {}

(* With nothing left to fire, SUNRISE holds exactly from the rise to the   *)
(* set of the calendar day, also after a restart, although no position is  *)
(* stored and events of the past are not made up for.  The times are those *)
(* of the wrapped clock: a twilight whose set falls past midnight, or that *)
(* lasts all night, counts as set all day long (sunriset_current_state).   *)
SunriseInDaytime ==
    Settled => \A k \in Twilights :
        SunCheck("SUNRISE", k) <=> times[<<"RISE", k>>] <= now /\ now < times[<<"SET", k>>]

(* Every event is raised once a day, at its time, and never otherwise,     *)
(* except those of before the engine was started, and those the            *)
(* calculation at midnight finds in history: at 00:00 sharp, or in the     *)
(* hour by which that calculation is late after a change of the clock      *)
(* (sunriset_create_event_timer, sunriset_calculate_next_run).             *)
RaisedOnce ==
    \A e \in Events :
        raised[e] = IF /\ since < times[e] /\ times[e] <= now
                       /\ e \notin DueNow \ raising
                    THEN 1 ELSE 0

(* Rules that react to a rise or a set of a calendar day find the          *)
(* condition it is about to end: sunriset_event_callback raises the event  *)
(* before it forgets the timer.                                            *)
RulesSeeBefore ==
    \A e \in raising :
        times[<<"RISE", e[2]>>] < times[<<"SET", e[2]>>] =>
            SunCheck(IF e[1] = "RISE" THEN "SUNSET" ELSE "SUNRISE", e[2])

(* The device never falls silent: the times of a new day are computed      *)
(* again and again, whatever became of the day before, unless the engine   *)
(* is restarted for ever.                                                  *)
DaysGoOn == []<><<NextRun>>_sunVars \/ []<><<Reparse>>_sunVars
=============================================================================
