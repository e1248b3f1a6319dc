------------------------------- MODULE Engine -------------------------------
(***************************************************************************)
(* The rule engine and the devices it drives (engine.c, rule_list.c,       *)
(* device.c, action.c, condition.c, and bool.c, timer.c, eltako_fsr14.c,   *)
(* eltako_fud14.c, gpio.c, eltako_fts14em.c, schedule.c).                  *)
(*                                                                         *)
(* Dispatch is synchronous and re-entrant: raising an event walks the rule *)
(* list, an action of a matching rule calls the device's exec callback,    *)
(* and that callback may raise an event of its own, walked to its end      *)
(* before the outer walk goes on.  The C call stack is the variable stack: *)
(* one frame per engine_trigger_event in progress.  The callbacks of the   *)
(* event loop (a remote command, a bus telegram, a timer, the minute tick) *)
(* start only when no other callback is running; what such a callback      *)
(* still has to do after the event it raised is the variable script.       *)
(***************************************************************************)
EXTENDS DeviceTypes, Sequences

CONSTANTS
    Devices,    \* the devices declared in the rule files
    Kind,       \* Kind[d] is the device type of d
    Rules,      \* the rule list, in the order of the files
    Commands    \* the "DO device action" lines the remote socket receives

ActionRecords == [dev : Devices, type : ActionTypes, opt : -1 .. 255]
ConditionRecords == [dev : Devices, type : ConditionTypes]
RuleRecords == [dev : Devices, ev : EventTypes,
                conds : Seq(ConditionRecords), acts : Seq(ActionRecords)]

ASSUME ConfigAssumption ==
    /\ Kind \in [Devices -> Kinds]
    /\ Rules \in Seq(RuleRecords)
    /\ Commands \subseteq ActionRecords

VARIABLES
    val,        \* val[d]: the level d remembers
    dir,        \* dir[d]: dim_direction of a FUD14
    held,       \* held[t]: tmr->timer of the TIMER t is not NULL
    armed,      \* armed[t]: timers of t the event loop will still fire
    stack,      \* event dispatches in progress, the innermost one last
    script      \* what the running loop callback does once stack is empty

vars == <<val, dir, held, armed, stack, script>>

Timers == {d \in Devices : Kind[d] = "TIMER"}
Buttons == {d \in Devices : Kind[d] = "FTS14EM"}
Schedules == {d \in Devices : Kind[d] = "SCHEDULE"}

(* rule: the rule the walk has reached; act: 0 while its event and its     *)
(* conditions are still to be looked at, else the next of its actions.     *)
Frame(d, e) == [dev |-> d, ev |-> e, rule |-> 1, act |-> 0]
Frames == [dev : Devices, ev : EventTypes, rule : 1 .. Len(Rules) + 1, act : Nat]

Raise(d, e) == [op |-> "raise", dev |-> d, arg |-> e]
Assign(d, v) == [op |-> "assign", dev |-> d, arg |-> v]
Ops == [op : {"raise"}, dev : Devices, arg : EventTypes]
         \cup [op : {"assign"}, dev : Buttons \cup Schedules, arg : 0 .. 1]

Resting == stack = <<>> /\ script = <<>>

Init ==
    /\ val \in {v \in [Devices -> -1 .. 1] :
                  \A d \in Devices : v[d] \in InitialLevels(Kind[d])}
    /\ dir = [d \in Devices |-> 1]
    /\ held = [t \in Timers |-> FALSE]
    /\ armed = [t \in Timers |-> 0]
    /\ stack = <<>>
    /\ script = <<>>

-----------------------------------------------------------------------------
(* device_set of action a, called with the call stack s.                   *)
(* Mutant: SET does not destroy the timer that is still running.           *)
PerformTimerLeaks(a, s) ==
    /\ Kind[a.dev] = "TIMER"
    /\ a.type \in Supported("TIMER")
    /\ armed' = [armed EXCEPT ![a.dev] = IF a.type = "SET" THEN @ + 1 ELSE 0]
    /\ held' = [held EXCEPT ![a.dev] = (a.type = "SET")]
    /\ stack' = s
    /\ UNCHANGED <<val, dir>>

PerformTimer(a, s) ==
    /\ Kind[a.dev] = "TIMER"
    /\ a.type \in Supported("TIMER")
    /\ armed' = [armed EXCEPT ![a.dev] = (IF held[a.dev] THEN @ - 1 ELSE @)
                                           + (IF a.type = "SET" THEN 1 ELSE 0)]
    /\ held' = [held EXCEPT ![a.dev] = (a.type = "SET")]
    /\ stack' = s
    /\ UNCHANGED <<val, dir>>

(* Mutant: the event is chosen before the level is written.                *)
PerformLevelStale(a, s) ==
    LET k == Kind[a.dev]
        new == After(k, a.type, a.opt, val[a.dev], dir[a.dev])
    IN  /\ ~(k = "TIMER" /\ a.type \in Supported("TIMER"))
        /\ val' = [val EXCEPT ![a.dev] = new.val]
        /\ dir' = [dir EXCEPT ![a.dev] = new.dir]
        /\ stack' = IF Raises(k, a.type, val[a.dev], new.val)
                    THEN Append(s, Frame(a.dev, RaisedEvent(k, val[a.dev])))
                    ELSE s
        /\ UNCHANGED <<held, armed>>

PerformLevel(a, s) ==
    LET k == Kind[a.dev]
        new == After(k, a.type, a.opt, val[a.dev], dir[a.dev])
    IN  /\ ~(k = "TIMER" /\ a.type \in Supported("TIMER"))
        /\ val' = [val EXCEPT ![a.dev] = new.val]
        /\ dir' = [dir EXCEPT ![a.dev] = new.dir]
        /\ stack' = IF Raises(k, a.type, val[a.dev], new.val)
                    THEN Append(s, Frame(a.dev, RaisedEvent(k, new.val)))
                    ELSE s
        /\ UNCHANGED <<held, armed>>

Perform(a, s) == PerformTimer(a, s) \/ PerformLevel(a, s)

-----------------------------------------------------------------------------
(* One engine_trigger_event: the walk of the innermost frame.              *)
Top == stack[Len(stack)]

WithTop(f) == [stack EXCEPT ![Len(stack)] = f]

Matches(f) == Rules[f.rule].dev = f.dev /\ Rules[f.rule].ev = f.ev

(* Mutant: the last condition overwrites the answer of those before it.    *)
LastConditionHolds(r) ==
    Rules[r].conds # <<>> =>
        LET c == Rules[r].conds[Len(Rules[r].conds)]
        IN  Holds(Kind[c.dev], c.type, val[c.dev])

ConditionsHold(r) ==
    \A i \in 1 .. Len(Rules[r].conds) :
        LET c == Rules[r].conds[i] IN Holds(Kind[c.dev], c.type, val[c.dev])

Walking == stack # <<>> /\ Top.rule <= Len(Rules)

PassRule ==
    /\ Walking
    /\ Top.act = 0
    /\ ~(Matches(Top) /\ ConditionsHold(Top.rule))
    /\ stack' = WithTop([Top EXCEPT !.rule = @ + 1])
    /\ UNCHANGED <<val, dir, held, armed, script>>

EnterRule ==
    /\ Walking
    /\ Top.act = 0
    /\ Matches(Top) /\ ConditionsHold(Top.rule)
    /\ stack' = WithTop([Top EXCEPT !.act = 1])
    /\ UNCHANGED <<val, dir, held, armed, script>>

NextAction == Rules[Top.rule].acts[Top.act]

RunAction ==
    /\ Walking
    /\ Top.act \in 1 .. Len(Rules[Top.rule].acts)
    /\ Perform(NextAction, WithTop([Top EXCEPT !.act = @ + 1]))
    /\ UNCHANGED script

(* Mutant: after the actions of a rule the walk begins anew.               *)
LeaveRuleAnew ==
    /\ Walking
    /\ Top.act > Len(Rules[Top.rule].acts)
    /\ stack' = WithTop([Top EXCEPT !.rule = 1, !.act = 0])
    /\ UNCHANGED <<val, dir, held, armed, script>>

LeaveRule ==
    /\ Walking
    /\ Top.act > Len(Rules[Top.rule].acts)
    /\ stack' = WithTop([Top EXCEPT !.rule = @ + 1, !.act = 0])
    /\ UNCHANGED <<val, dir, held, armed, script>>

Return ==
    /\ stack # <<>>
    /\ Top.rule > Len(Rules)
    /\ stack' = SubSeq(stack, 1, Len(stack) - 1)
    /\ UNCHANGED <<val, dir, held, armed, script>>

(* The loop callback goes on where the dispatch it started has returned.   *)
Continue ==
    /\ stack = <<>>
    /\ script # <<>>
    /\ LET o == Head(script)
       IN  \/ /\ o.op = "raise"
              /\ stack' = <<Frame(o.dev, o.arg)>>
              /\ UNCHANGED val
           \/ /\ o.op = "assign"
              /\ val' = [val EXCEPT ![o.dev] = o.arg]
              /\ UNCHANGED stack
    /\ script' = Tail(script)
    /\ UNCHANGED <<dir, held, armed>>

EngineStep ==
    PassRule \/ EnterRule \/ RunAction \/ LeaveRule \/ Return \/ Continue

-----------------------------------------------------------------------------
(* The callbacks of the event loop, each started at rest.                  *)
(* Mutant: a command is executed while rules are running.                  *)
RemoteDoAnytime(c) ==
    /\ Perform(c, stack)
    /\ UNCHANGED script

RemoteDo(c) ==
    /\ Resting
    /\ Perform(c, stack)
    /\ UNCHANGED script

(* A press telegram: press_time is written after the dispatch of PRESS.    *)
Press(d) ==
    /\ Resting
    /\ script' = <<Raise(d, "PRESS"), Assign(d, 1)>>
    /\ UNCHANGED <<val, dir, held, armed, stack>>

(* Mutant: a release raises the event of its length only.                  *)
ReleaseSilent(d) ==
    /\ Resting
    /\ val[d] = 1
    /\ \E e \in {"SHORT_PRESS", "LONG_PRESS"} :
          script' = <<Assign(d, 0), Raise(d, e)>>
    /\ UNCHANGED <<val, dir, held, armed, stack>>

(* A release telegram counts only after a press; the length of the press   *)
(* decides which of the two events follows RELEASE.                        *)
Release(d) ==
    /\ Resting
    /\ val[d] = 1
    /\ \E e \in {"SHORT_PRESS", "LONG_PRESS"} :
          script' = <<Raise(d, "RELEASE"), Assign(d, 0), Raise(d, e)>>
    /\ UNCHANGED <<val, dir, held, armed, stack>>

(* Mutant: a timer fires without raising its event.                        *)
TimeoutSilent(t) ==
    /\ Resting
    /\ armed[t] > 0
    /\ armed' = [armed EXCEPT ![t] = @ - 1]
    /\ held' = [held EXCEPT ![t] = FALSE]
    /\ UNCHANGED <<val, dir, stack, script>>

(* tmr_timeout: the handle is forgotten before the event is raised.        *)
Timeout(t) ==
    /\ Resting
    /\ armed[t] > 0
    /\ armed' = [armed EXCEPT ![t] = @ - 1]
    /\ held' = [held EXCEPT ![t] = FALSE]
    /\ script' = <<Raise(t, "TIMEOUT")>>
    /\ UNCHANGED <<val, dir, stack>>

(* An entry of a schedule falls due: its event is raised first, the        *)
(* condition other rules read changes when that dispatch is over.          *)
ScheduleTick(d) ==
    /\ Resting
    /\ \E e \in {"SET", "UNSET"} :
          script' = <<Raise(d, e), Assign(d, IF e = "SET" THEN 1 ELSE 0)>>
    /\ UNCHANGED <<val, dir, held, armed, stack>>

Next ==
    \/ EngineStep
    \/ \E c \in Commands : RemoteDo(c)
    \/ \E d \in Buttons : Press(d) \/ Release(d)
    \/ \E t \in Timers : Timeout(t)
    \/ \E d \in Schedules : ScheduleTick(d)

Spec == Init /\ [][Next]_vars

(* A callback runs to its end.  A timer the loop holds fires, or is        *)
(* destroyed, or is replaced by a new one before it is due; so a TIMER     *)
(* that is not idle again and again is armed again and again.              *)
Arms(t) ==
    \/ RunAction /\ NextAction.dev = t /\ NextAction.type = "SET"
    \/ \E c \in Commands : RemoteDo(c) /\ c.dev = t /\ c.type = "SET"

Fairness ==
    /\ WF_vars(EngineStep)
    /\ \A t \in Timers : []<>(armed[t] = 0) \/ []<><<Arms(t)>>_vars

FairSpec == Spec /\ Fairness

-----------------------------------------------------------------------------
(* Types, and the uint8 and boolean ranges of the C fields.                *)
TypeOK ==
    /\ val \in [Devices -> -1 .. 255]
    /\ \A d \in Devices : val[d] \in Level(Kind[d])
    /\ dir \in [Devices -> 0 .. 1]
    /\ held \in [Timers -> BOOLEAN]
    /\ armed \in [Timers -> 0 .. 1]
    /\ stack \in Seq(Frames)
    /\ script \in Seq(Ops)

(* A TIMER knows the timer it armed: the handle in tmr_t is set exactly    *)
(* while the event loop holds one timer for it.  Without it a timer fires  *)
(* that no UNSET can stop any more, or a dead timer is destroyed again     *)
(* (timer.c: tmr_timeout clears the handle before rules may SET again).    *)
TimerHandles == \A t \in Timers : armed[t] = IF held[t] THEN 1 ELSE 0
=============================================================================
