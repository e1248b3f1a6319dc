------------------------------ MODULE Schedule ------------------------------
(***************************************************************************)
(* A SCHEDULE device (schedule.c): a list of entries "at this minute of    *)
(* the day (or week), SET or UNSET", a timer that is created anew for each *)
(* full minute, and the condition other rules read, which is computed from *)
(* the list when the engine starts and follows the entries from then on.   *)
(* A DAY and a WEEK schedule differ only in the length of the cycle.  The  *)
(* timer is one of the event loop's: a busy loop serves it late, and it    *)
(* may come early by the wall clock.  Local time, which the minutes are    *)
(* read from, jumps: by an hour when summer time begins or ends, to any    *)
(* time of the cycle when somebody sets the clock.  The engine may be      *)
(* stopped and started again at any time; a schedule keeps nothing on disk. *)
(***************************************************************************)
EXTENDS Integers, SequencesExt

CONSTANTS
    Cycle,      \* minutes of a cycle: 24 * 60, or 7 * 24 * 60
    Minute,     \* ticks of a minute, 60 seconds
    Half,       \* the rounding limit, 30 seconds
    Late,       \* by how many ticks the loop may serve a timer late
    Early,      \* by how many ticks a timer may come early
    Files,      \* the entry lists the rule files may hold
    None        \* NULL

Events == {"SET", "UNSET"}
EntryRecords == [at : 0 .. Cycle - 1, ev : Events]

ASSUME ScheduleAssumption ==
    /\ Cycle \in Nat \ {0}
    /\ Half \in Nat /\ Minute \in Nat /\ Half < Minute
    /\ Late \in 0 .. Minute - 1 /\ Early \in 0 .. Minute - 1
    /\ Files \subseteq Seq(EntryRecords)
    /\ None \notin Events

VARIABLES
    entries,    \* schedule->entries
    min, sec,   \* local time: minute of the cycle, tick of the minute
    up,         \* the engine runs
    wait,       \* ticks until the timer is due; negative when it is late
    checked,    \* the minute looked up last, the one of the start at first
    pending,    \* the event being dispatched, or None
    condition,  \* schedule->condition
    steady,     \* history: local time has not jumped since the start or
                \* the last look-up that came in the minute it was for
    synced      \* history: an entry has been carried out since the start and
                \* since the last jump

vars == <<entries, min, sec, up, wait, checked, pending, condition, steady, synced>>

TypeOK ==
    /\ entries \in Files
    /\ min \in 0 .. Cycle - 1
    /\ sec \in 0 .. Minute - 1
    /\ up \in BOOLEAN
    /\ wait \in -Late .. Minute
    /\ checked \in 0 .. Cycle - 1
    /\ pending \in Events \cup {None}
    /\ condition \in Events
    /\ steady \in BOOLEAN /\ synced \in BOOLEAN

Succ(m) == IF m = Cycle - 1 THEN 0 ELSE m + 1
Pred(m) == IF m = 0 THEN Cycle - 1 ELSE m - 1

Init ==
    /\ entries \in Files
    /\ min \in 0 .. Cycle - 1
    /\ sec \in 0 .. Minute - 1
    /\ up = FALSE
    /\ wait = 0
    /\ checked = min
    /\ pending = None
    /\ condition = "UNSET"
    /\ steady = TRUE
    /\ synced = FALSE

-----------------------------------------------------------------------------
(* schedule_get_current_condition: the last entry of the file, unless one  *)
(* is found that is later than midnight and earlier than now.              *)
LastInFile == IF entries = <<>> THEN "UNSET" ELSE Last(entries).ev

(* Whether entry e replaces the one found before.                          *)
ReplacesAny(e, found, m) == e.at > 0 /\ e.at < m    \* mutant

Replaces(e, found, m) == e.at > found.at /\ e.at < m

(* Found(m)[n] is what is found among the first n entries.                 *)
Found(m) ==
    LET found[n \in 0 .. Len(entries)] ==
            IF n = 0 THEN [at |-> 0, ev |-> LastInFile]
            ELSE IF Replaces(entries[n], found[n - 1], m) THEN entries[n]
            ELSE found[n - 1]
    IN  found

StartCondition(m) == Found(m)[Len(entries)].ev

(* The timer for the next full minute.                                     *)
UntilNext == Minute - sec

(* schedule_init and, at the end of the rule files,                        *)
(* schedule_parsing_finished.                                              *)
Start ==
    /\ ~up
    /\ up' = TRUE
    /\ wait' = UntilNext
    /\ checked' = min
    /\ pending' = None
    /\ condition' = StartCondition(min)
    /\ steady' = TRUE
    /\ synced' = FALSE
    /\ UNCHANGED <<entries, min, sec>>

(* The engine is terminated, or crashes.                                   *)
Stop ==
    /\ up
    /\ up' = FALSE
    /\ wait' = 0
    /\ UNCHANGED <<entries, min, sec, checked, pending, condition, steady, synced>>

(* schedule_check_events: the minute nearest to the clock.                 *)
RoundedUp == IF sec > 0 THEN Succ(min) ELSE min     \* mutant

Rounded == IF sec > Half THEN Succ(min) ELSE min

(* schedule_search_entry: the first entry of the list for a minute.        *)
EntryAtLast(i, m) ==        \* mutant
    /\ entries[i].at = m
    /\ \A j \in i + 1 .. Len(entries) : entries[j].at # m

EntryAtButFirst(i, m) ==    \* mutant
    /\ i > 1 /\ entries[i].at = m
    /\ \A j \in 2 .. i - 1 : entries[j].at # m

EntryAt(i, m) ==
    /\ entries[i].at = m
    /\ \A j \in 1 .. i - 1 : entries[j].at # m

(* calculate_next_timing_event: the next timer is created before the       *)
(* entry of this minute is looked up and its event dispatched.             *)
Fire ==
    /\ up /\ pending = None
    /\ wait <= Early
    /\ wait' = UntilNext
    /\ checked' = Rounded
    /\ \/ \E i \in DOMAIN entries :
              EntryAt(i, Rounded) /\ pending' = entries[i].ev
       \/ /\ \A i \in DOMAIN entries : ~EntryAt(i, Rounded)
          /\ pending' = None
    /\ steady' = (steady \/ sec <= Half)
    /\ UNCHANGED <<entries, min, sec, up, condition, synced>>

(* The dispatch is over: schedule_check_event changes the condition.       *)
Settle ==
    /\ up /\ pending # None
    /\ condition' = pending
    /\ pending' = None
    /\ synced' = (synced \/ steady)
    /\ UNCHANGED <<entries, min, sec, up, wait, checked, steady>>

Tick ==
    /\ IF up THEN wait > -Late /\ wait' = wait - 1 ELSE UNCHANGED wait
    /\ sec' = IF sec = Minute - 1 THEN 0 ELSE sec + 1
    /\ min' = IF sec = Minute - 1 THEN Succ(min) ELSE min
    /\ UNCHANGED <<entries, up, checked, pending, condition, steady, synced>>

(* Local time jumps (localtime); the timer runs on as it was created.      *)
Jump ==
    /\ min' \in 0 .. Cycle - 1
    /\ sec' \in 0 .. Minute - 1
    /\ steady' = FALSE
    /\ synced' = FALSE
    /\ UNCHANGED <<entries, up, wait, checked, pending, condition>>

Next == Start \/ Stop \/ Fire \/ Settle \/ Tick \/ Jump

Spec == Init /\ [][Next]_vars

(* Time goes on, and a running loop serves its timer and ends a dispatch.  *)
FairSpec == Spec /\ WF_vars(Tick) /\ WF_vars(Fire) /\ WF_vars(Settle)

-----------------------------------------------------------------------------
(* The minutes since the minute a came last, at minute m.                  *)
Since(m, a) == IF a <= m THEN m - a ELSE m - a + Cycle

(* Entry i is the one in force at minute m: the latest, and of those for   *)
(* the same minute the first of the file.                                  *)
InForce(i, m) ==
    \A j \in DOMAIN entries :
        \/ Since(m, entries[i].at) < Since(m, entries[j].at)
        \/ entries[i].at = entries[j].at /\ i <= j

(* While the engine runs and local time does not jump, it looks up every   *)
(* minute of the cycle, one after the other, none twice and none left out; *)
(* and it does so again from the first look-up after a jump that comes in  *)
(* its minute.  A jump itself, as when summer time begins or ends, leaves  *)
(* the minutes it skips out and looks those it repeats up again.  Needs a  *)
(* timer that is never early and never later than the rounding limit       *)
(* (schedule_check_events rounds to the nearest minute,                    *)
(* calculate_next_timing_event measures from the clock).                   *)
Consecutive == [][Fire /\ steady => checked' = Succ(checked)]_vars

(* From the first entry carried out after a start or a jump of local time, *)
(* the condition is that of the entry in force at the minute looked up     *)
(* last.  Until then it may be stale: entries a jump has skipped never set *)
(* it (schedule_check_event).  Needs the same timer.                       *)
ConditionInForce ==
    up /\ synced /\ pending = None =>
        \E i \in DOMAIN entries : InForce(i, checked) /\ condition = entries[i].ev

(* A start finds the condition of the entry that was in force before the   *)
(* minute of the start, in whatever order the file lists its entries,      *)
(* unless an entry is for midnight; before the first entry of a cycle the  *)
(* file must list the latest entry last.                                   *)
StartsInForce ==
    [][Start /\ entries # <<>> /\ (\A i \in DOMAIN entries : entries[i].at > 0)
             /\ \/ \E i \in DOMAIN entries : entries[i].at < min
                \/ \A i \in 1 .. Len(entries) - 1 : entries[i].at < Last(entries).at
       => \E i \in DOMAIN entries :
             InForce(i, Pred(min)) /\ condition' = entries[i].ev]_vars

(* Only a start "in front of first entry" falls back on the entry the file *)
(* lists last: a start after an entry of this cycle finds the condition of *)
(* the latest of those.                                                    *)
LatestBeforeNow ==
    [][Start /\ (\E i \in DOMAIN entries : entries[i].at < min)
       => \E i \in DOMAIN entries :
             /\ entries[i].at < min
             /\ \A j \in DOMAIN entries :
                    entries[j].at < min => entries[j].at <= entries[i].at
             /\ condition' = entries[i].ev]_vars

(* A condition that a start has found wrong, or that a jump of local time  *)
(* has left stale, is corrected in the end: the engine is stopped, or      *)
(* local time jumps for ever, or an entry is carried out.                  *)
Recovers == <>[][~Jump]_vars => (up /\ entries # <<>> ~> synced \/ ~up)
=============================================================================
