-------------------------------- MODULE Fsb14 --------------------------------
(***************************************************************************)
(* The FSB14 blind actuator (eltako_fsb14.c): a command starts a motion,   *)
(* a timer of the blind's run time ends it and raises UP or DOWN, and a    *)
(* lock makes the driver ignore commands.  The rules that the UP or DOWN   *)
(* event triggers run inside the timer callback; they may command the very *)
(* same blind (Reactions).  The actuator on the bus and the blind itself   *)
(* are external: told, run and pos are what a telegram makes of them, and  *)
(* a telegram reaches the actuator at once.                                *)
(***************************************************************************)
EXTENDS Integers

CONSTANTS
    Timers,     \* timer objects of the event loop; bounds those alive at once
    Reactions,  \* the actions rules for UP or DOWN may take on this blind
    Duration,   \* the run time of the configuration, in ticks
    Options,    \* the run times options of actions may ask for instead
    Travel,     \* the ticks the blind really needs from end to end
    None        \* NULL

ActionTypes == {"UP", "DOWN", "STOP", "TOGGLE_UP", "TOGGLE_DOWN", "LOCK", "UNLOCK"}

(* The run time is one byte of the telegram; a blind is configured with at *)
(* least the time it needs.                                                *)
ASSUME BlindAssumption ==
    /\ None \notin Timers
    /\ Reactions \subseteq ActionTypes
    /\ Duration \in 1 .. 255
    /\ Options \subseteq 0 .. 255
    /\ Travel \in 0 .. Duration

VARIABLES
    reactions,      \* the actions the rules at hand take in reaction
    options,        \* the run times they ask for
    condition,      \* where the driver believes the blind to be
    last,           \* last_action: "NONE" in a device just created
    locked,
    timer,          \* the handle in device_fsb14_t
    live,           \* the timers the event loop will still fire
    left,           \* left[t]: ticks until the timer t is due
    firing,         \* the timer whose callback is raising its event, or None
    told,           \* the last telegram sent to the actuator
    run,            \* ticks the actuator still drives its motor
    pos             \* the position of the blind: 0 is closed, Travel is open

rulefile == <<reactions, options>>
driver == <<condition, last, locked, timer, live, left, firing>>
blind == <<told, run, pos>>
vars == <<rulefile, driver, blind>>

TypeOK ==
    /\ reactions \subseteq Reactions
    /\ options \subseteq Options
    /\ condition \in {"STOPPED", "UP", "DOWN", "RISING", "DESCENDING"}
    /\ last \in {"NONE", "UP", "DOWN", "STOP"}
    /\ locked \in BOOLEAN
    /\ timer \in Timers \cup {None}
    /\ live \subseteq Timers
    /\ left \in [Timers -> 0 .. Duration]
    /\ firing \in Timers \cup {None}
    /\ told \in {"nothing", "open", "close", "stop"}
    /\ run \in 0 .. 255
    /\ pos \in 0 .. Travel

(* A rule file takes all the liberties of the constants, or none of them.  *)
Init ==
    /\ reactions \in {{}, Reactions}
    /\ options \in {{}, Options}
    /\ condition = "STOPPED"
    /\ last = "NONE"
    /\ locked = FALSE
    /\ timer = None
    /\ live = {}
    /\ left = [t \in Timers |-> 0]
    /\ firing = None
    /\ told = "nothing"
    /\ run = 0
    /\ pos \in 0 .. Travel

-----------------------------------------------------------------------------
(* data[1] of the telegram: a toggle stops a blind that moves, and one     *)
(* that is already at the end it is toggled to.                            *)
Telegram(a) ==
    CASE a = "UP"          -> "open"
      [] a = "DOWN"        -> "close"
      [] a = "TOGGLE_UP"   -> IF condition \in {"STOPPED", "DOWN"} THEN "open" ELSE "stop"
      [] a = "TOGGLE_DOWN" -> IF condition \in {"STOPPED", "UP"} THEN "close" ELSE "stop"
      [] OTHER             -> "stop"

Lock(a) ==
    /\ a \in {"LOCK", "UNLOCK"}
    /\ locked' = (a = "LOCK")
    /\ UNCHANGED <<rulefile, condition, last, timer, live, left, blind>>

(* Mutant: a new command leaves the running timer alone.                   *)
NoneDestroyed == live

(* The running timer is destroyed first, whether the blind is locked or    *)
(* not.                                                                    *)
Destroyed == live \ {timer}

Ignore(a) ==
    /\ a \notin {"LOCK", "UNLOCK"}
    /\ locked
    /\ live' = Destroyed
    /\ timer' = None
    /\ UNCHANGED <<rulefile, condition, last, locked, left, blind>>

(* Mutant: the motion that is halted stays the last action.                *)
HaltKeepsAction(a) ==
    /\ a \notin {"LOCK", "UNLOCK"}
    /\ ~locked
    /\ Telegram(a) = "stop"
    /\ live' = Destroyed
    /\ timer' = None
    /\ condition' = "STOPPED"
    /\ told' = "stop"
    /\ run' = 0
    /\ UNCHANGED <<rulefile, last, locked, left, pos>>

Halt(a) ==
    /\ a \notin {"LOCK", "UNLOCK"}
    /\ ~locked
    /\ Telegram(a) = "stop"
    /\ live' = Destroyed
    /\ timer' = None
    /\ condition' = "STOPPED"
    /\ last' = "STOP"
    /\ told' = "stop"
    /\ run' = 0
    /\ UNCHANGED <<rulefile, locked, left, pos>>

(* The actuator is told how long to run; the driver's own timer is not.    *)
RunTimes == {Duration} \cup options

(* Mutant: the handle of the new timer is not stored.                      *)
MoveForgetsHandle(a) ==
    /\ a \notin {"LOCK", "UNLOCK"}
    /\ ~locked
    /\ Telegram(a) \in {"open", "close"}
    /\ \E t \in Timers \ (live \cup {firing}) :
          /\ live' = Destroyed \cup {t}
          /\ left' = [left EXCEPT ![t] = Duration]
    /\ timer' = None
    /\ told' = Telegram(a)
    /\ condition' = IF Telegram(a) = "open" THEN "RISING" ELSE "DESCENDING"
    /\ last' = IF Telegram(a) = "open" THEN "UP" ELSE "DOWN"
    /\ run' \in RunTimes
    /\ UNCHANGED <<rulefile, locked, pos>>

Move(a) ==
    /\ a \notin {"LOCK", "UNLOCK"}
    /\ ~locked
    /\ Telegram(a) \in {"open", "close"}
    /\ \E t \in Timers \ (live \cup {firing}) :
          /\ live' = Destroyed \cup {t}
          /\ left' = [left EXCEPT ![t] = Duration]
          /\ timer' = t
    /\ told' = Telegram(a)
    /\ condition' = IF Telegram(a) = "open" THEN "RISING" ELSE "DESCENDING"
    /\ last' = IF Telegram(a) = "open" THEN "UP" ELSE "DOWN"
    /\ run' \in RunTimes
    /\ UNCHANGED <<rulefile, locked, pos>>

(* fsb14_device_exec.                                                      *)
Exec(a) == Lock(a) \/ Ignore(a) \/ Halt(a) \/ Move(a)

(* A command from the loop: a rule of another device, or the remote.       *)
Command(a) ==
    /\ firing = None
    /\ Exec(a)
    /\ UNCHANGED firing

-----------------------------------------------------------------------------
(* Mutant: the callback returns at once.                                   *)
TimerFiresInVain(t) ==
    /\ firing = None
    /\ t \in live
    /\ left[t] = 0
    /\ live' = live \ {t}
    /\ UNCHANGED <<rulefile, condition, last, locked, timer, left, firing, blind>>

(* fsb14_timer_callback, up to the event it raises.                        *)
TimerFires(t) ==
    /\ firing = None
    /\ t \in live
    /\ left[t] = 0
    /\ live' = live \ {t}
    /\ \/ /\ last \in {"UP", "DOWN"}
          /\ condition' = last
          /\ firing' = t
          /\ UNCHANGED <<last, timer>>
       \/ /\ last \notin {"UP", "DOWN"}
          /\ condition' = "STOPPED"
          /\ last' = "STOP"
          /\ timer' = None
          /\ UNCHANGED firing
    /\ UNCHANGED <<rulefile, locked, left, blind>>

(* A rule for the event commands the blind while the callback runs.        *)
React(a) ==
    /\ firing # None
    /\ Exec(a)
    /\ UNCHANGED firing

(* The dispatch is over: the callback forgets the motion and the handle,   *)
(* also those a reaction has just set.                                     *)
TimerReturns ==
    /\ firing # None
    /\ last' = "STOP"
    /\ timer' = None
    /\ firing' = None
    /\ UNCHANGED <<rulefile, condition, locked, live, left, blind>>

(* Time passes.  The actuator stops by itself when its run time is over; a *)
(* timer that is due may still wait for a busy loop.                       *)
Tick ==
    /\ firing = None
    /\ left' = [t \in Timers |-> IF left[t] > 0 THEN left[t] - 1 ELSE 0]
    /\ run' = IF run > 0 THEN run - 1 ELSE 0
    /\ pos' = CASE run > 0 /\ told = "open" /\ pos < Travel -> pos + 1
                [] run > 0 /\ told = "close" /\ pos > 0     -> pos - 1
                [] OTHER                                     -> pos
    /\ UNCHANGED <<rulefile, condition, last, locked, timer, live, firing, told>>

Next ==
    \/ Tick
    \/ \E a \in ActionTypes : Command(a)
    \/ \E t \in Timers : TimerFires(t)
    \/ \E a \in reactions : React(a)
    \/ TimerReturns

Spec == Init /\ [][Next]_vars

(* Time goes on, the loop fires a due timer, and a callback returns.       *)
Fairness ==
    /\ WF_vars(Tick)
    /\ \A t \in Timers : WF_vars(TimerFires(t))
    /\ WF_vars(TimerReturns)

FairSpec == Spec /\ Fairness

-----------------------------------------------------------------------------
Moving == condition \in {"RISING", "DESCENDING"}

(* The driver's idea of the blind follows from the last telegram sent to   *)
(* it: opening and open after "open", closing and closed after "close".    *)
(* Holds with reactions, stray timers and locks (fsb14_timer_callback sets *)
(* the end position from last_action, not from the position).              *)
PositionFromTelegram ==
    /\ condition \in {"RISING", "UP"} => told = "open"
    /\ condition \in {"DESCENDING", "DOWN"} => told = "close"

NoReactions == reactions = {}
Quiet == reactions = {} /\ options = {}

(* UP is reported only when the blind is fully open, DOWN only when it is *)
(* fully closed and STOPPED only when the motor stands still, from         *)
(* whatever position it started and however often the motion was reversed, *)
(* halted or locked on the way: as long as no rule reacts to UP or DOWN    *)
(* with a command for the same blind, and no action has an option for the  *)
(* run time (fsb14_timer_callback, fsb14_device_exec).                     *)
EndReached ==
    Quiet => /\ condition = "UP" => pos = Travel
             /\ condition = "DOWN" => pos = 0
             /\ condition = "STOPPED" => run = 0

(* Unless a rule reacts to UP or DOWN with a command for the same blind,   *)
(* the handle is the one timer of this blind: no stray timer is left that  *)
(* would end a later motion early (fsb14_timer_callback).                  *)
OneTimer ==
    NoReactions =>
        /\ live = IF firing = None /\ timer # None THEN {timer} ELSE {}
        /\ firing # None => timer = firing

(* A command while locked has no effect (fsb14_device_exec logs "LOCKED!   *)
(* ignoring action").                                                      *)
LockedIgnores ==
    [][\A a \in ActionTypes \ {"LOCK", "UNLOCK"} :
          locked /\ Command(a) => UNCHANGED vars]_vars

(* A blind is left moving without a timer to end the motion only by a      *)
(* command that came while it was locked (fsb14_device_exec), or by a rule *)
(* that answered UP or DOWN (fsb14_timer_callback).                        *)
StuckOnlyByLock ==
    [][Moving' /\ timer' = None /\ ~(Moving /\ timer = None)
          => locked \/ firing # None]_vars

(* A motion whose timer is armed ends, unless the blind is commanded again *)
(* and again (fsb14_timer_callback).                                       *)
MotionEnds ==
    \/ []<>(~Moving \/ timer = None)
    \/ []<><<\E a \in ActionTypes : Command(a)>>_vars
=============================================================================
