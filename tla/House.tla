------------------------------- MODULE House -------------------------------
(***************************************************************************)
(* What the author of a rule file may count on.  Four patterns of rules    *)
(* that every house has, and for each what the engine makes of it whenever *)
(* no rule is running, whatever the other rules are and however often the  *)
(* engine is stopped and started: a device that follows another one, a     *)
(* device that rules out another one, a timer that repeats while a button  *)
(* is held, and a dimmer.                                                  *)
(***************************************************************************)
EXTENDS Restart

IsOn(d) == IF Kind[d] = "TIMER" THEN held[d] ELSE val[d] > 0

ActionsOf(r) == 1 .. Len(Rules[r].acts)

(* Some rule without conditions does t to x on event e of d.               *)
Sure(d, e, x, t) ==
    \E r \in 1 .. Len(Rules) :
        /\ Rules[r].dev = d /\ Rules[r].ev = e /\ Rules[r].conds = <<>>
        /\ \E i \in ActionsOf(r) : Rules[r].acts[i].dev = x /\ Rules[r].acts[i].type = t

-----------------------------------------------------------------------------
(* f follows m: f is switched with every event of m, by no other rule and  *)
(* by no command; and if f is a timer, m is switched off when it fires.    *)
Follows(f, m) ==
    /\ Kind[m] \in Echoing
    /\ \/ Kind[f] \in {"TIMER", "GPO"}
       \/ Kind[f] = "FSR14" /\ Kind[m] # "BOOL"
    /\ \A e \in {"SET", "UNSET"} : Sure(m, e, f, e)
    /\ \A r \in 1 .. Len(Rules) : \A i \in ActionsOf(r) :
          Rules[r].acts[i].dev = f =>
              Rules[r].dev = m /\ Rules[r].ev = Rules[r].acts[i].type
    /\ \A c \in Commands : c.dev # f
    /\ Kind[f] = "TIMER" => Sure(f, "TIMEOUT", m, "UNSET")

Followers == {p \in Devices \X Devices : Follows(p[1], p[2])}

(* A device agrees with the one it follows whenever the loop is at rest:   *)
(* with the rules of a timer that fires, nested dispatches and stops in    *)
(* the middle of them, nothing is lost, done twice or done in another      *)
(* order.  Two devices that are both stored are saved at rest together.  A *)
(* timer or an output comes back off, and remains so until the device it   *)
(* follows raises an event: behind a lamp restored burning no timer runs,  *)
(* and a pilot light of a BOOL restored set is dark (engine.c,             *)
(* trigger_event_iter_cb; store.c, restore_devices_state; bool_exec).      *)
FollowersAgree ==
    Resting => \A p \in Followers :
        IsOn(p[1]) <=> IsOn(p[2]) /\ ~(p[2] \in silent /\ p[1] \notin Stored)

-----------------------------------------------------------------------------
(* a rules out m: setting a switches m off, and what may switch m on is    *)
(* the first thing a rule does that asks whether a is off or m is on       *)
(* already; a command only switches m off.                                 *)
RulesOut(a, m) ==
    /\ a # m /\ Kind[a] \in Echoing /\ Kind[m] \in {"FSR14", "FUD14"}
    /\ Sure(a, "SET", m, "UNSET")
    /\ \A r \in 1 .. Len(Rules) : \A i \in ActionsOf(r) :
          Rules[r].acts[i].dev = m /\ Rules[r].acts[i].type # "UNSET" =>
              /\ i = 1
              /\ \E c \in 1 .. Len(Rules[r].conds) :
                    Rules[r].conds[c] \in {[dev |-> a, type |-> "UNSET"],
                                           [dev |-> m, type |-> "SET"]}
    /\ \A c \in Commands : c.dev = m => c.type = "UNSET"

Exclusions == {p \in Devices \X Devices : RulesOut(p[1], p[2])}

(* Never are both on at rest, although the rule that switches m on and the *)
(* one that switches it off may be nested dispatches of different devices, *)
(* a condition is looked at before the action runs, and the engine may be  *)
(* stopped between the two (check_conditions_ok, store_devices_state).     *)
NeverBoth == Resting => \A p \in Exclusions : ~(IsOn(p[1]) /\ IsOn(p[2]))

-----------------------------------------------------------------------------
(* t repeats while b is held: it is set by presses of b and by itself only *)
(* and destroyed whenever b is released.                                   *)
RepeatsWith(t, b) ==
    /\ Kind[t] = "TIMER" /\ Kind[b] = "FTS14EM"
    /\ Sure(b, "RELEASE", t, "UNSET")
    /\ \A r \in 1 .. Len(Rules) : \A i \in ActionsOf(r) :
          Rules[r].acts[i].dev = t /\ Rules[r].acts[i].type = "SET" =>
              \/ Rules[r].dev = b /\ Rules[r].ev = "PRESS"
              \/ Rules[r].dev = t /\ Rules[r].ev = "TIMEOUT"
    /\ \A c \in Commands : c.dev = t => c.type # "SET"

Repeaters == {p \in Devices \X Devices : RepeatsWith(p[1], p[2])}

(* The repetition ends with the press: at rest the timer, which arms       *)
(* itself again in its own TIMEOUT, is armed only while the press is       *)
(* remembered; and that is written after the rules of PRESS have run       *)
(* (tmr_timeout, eltako_fts14em_incoming_data).                            *)
RepeatsStop == Resting => \A p \in Repeaters : held[p[1]] => val[p[2]] = 1

-----------------------------------------------------------------------------
(* d is never given a level by an option, and full is no multiple of the   *)
(* interval: 100 is none of 3.                                             *)
DimsByInterval(d) ==
    /\ Kind[d] = "FUD14"
    /\ \A r \in 1 .. Len(Rules) : \A i \in ActionsOf(r) :
          Rules[r].acts[i].dev = d => Rules[r].acts[i].opt = NoOption
    /\ \A c \in Commands : c.dev = d => c.opt = NoOption
    /\ DimMax % DimInterval # 0 /\ DimMax + DimInterval <= 255

Dimmers == {d \in Devices : DimsByInterval(d)}

Dims(d) == RunAction /\ NextAction.dev = d /\ NextAction.type = "DIM"

(* Dimming never switches such a light off: the way down wraps past zero   *)
(* and the branch that would turn the direction at DimMin is not taken     *)
(* (fud14_device_exec), also for a level restored without its direction.   *)
DimKeepsLight == [][\A d \in Dimmers : Dims(d) => val'[d] > 0]_vars
=============================================================================
