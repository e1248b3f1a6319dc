------------------------------ MODULE SunProofs ------------------------------
(***************************************************************************)
(* Proofs about what follows the sun: the Velux worker, for any set of     *)
(* devices in any order, and the blinds its trackers move, whatever the    *)
(* sun does; and the SUNRISET device, for days of any length: what the     *)
(* conditions read off the timers is what the clock says, every event is   *)
(* raised once, and rules see the condition of before the event.           *)
(***************************************************************************)
EXTENDS Soltracker, Sunriset, TLAPS

LEMMA TypeInit == Init => TypeOK
  BY VeluxAssumption DEF Init, TypeOK

LEMMA TypeNext == TypeOK /\ [Next]_vars => TypeOK'
<1> SUFFICES ASSUME TypeOK, [Next]_vars PROVE TypeOK'
  OBVIOUS
<1>1. ASSUME NEW d \in Devices, NEW a \in ActionTypes, Exec(d, a) PROVE TypeOK'
  <2>1. CASE a \in {"UP", "DOWN", "TOGGLE_UP", "TOGGLE_DOWN"}
    <3>1. /\ actual' = [actual EXCEPT ![d] = Wish(a)]
          /\ changed' = [changed EXCEPT ![d] = TRUE]
          /\ UNCHANGED <<target, locked, busy, script, window>>
      BY <1>1, <2>1 DEF Exec
    <3> QED  BY <3>1 DEF TypeOK, Wish
  <2>2. CASE a \in {"LOCK", "UNLOCK"}
    <3>1. /\ locked' = [locked EXCEPT ![d] = (a = "LOCK")]
          /\ UNCHANGED <<actual, target, changed, busy, script, window>>
      BY <1>1, <2>2 DEF Exec
    <3>2. locked' \in [Devices -> BOOLEAN]
      BY <3>1, Zenon DEF TypeOK
    <3> QED  BY <3>1, <3>2 DEF TypeOK
  <2>3. CASE a = "STOP"
    BY <1>1, <2>3 DEF Exec, vars, TypeOK
  <2> QED  BY <1>1, <2>1, <2>2, <2>3 DEF ActionTypes
<1>2. ASSUME NEW d \in Devices, Worker(d) PROVE TypeOK'
  BY <1>2 DEF Worker, CmdExec, TypeOK
<1>3. CASE ScriptMoves
  BY <1>3 DEF ScriptMoves, TypeOK
<1>4. CASE CommandDone
  <2>1. changed' \in [Devices -> BOOLEAN]
    <3>1. changed' = [changed EXCEPT ![busy] = @ /\ target[busy] # actual[busy]]
      BY <1>4 DEF CommandDone
    <3> QED  BY <3>1, Zenon DEF TypeOK
  <2>2. UNCHANGED <<actual, target, locked, window>>
    BY <1>4 DEF CommandDone
  <2>3. busy' = None /\ script' = "idle"
    BY <1>4 DEF CommandDone, CmdDone
  <2> QED  BY <2>1, <2>2, <2>3 DEF TypeOK
<1>5. CASE UNCHANGED vars
  BY <1>5 DEF vars, TypeOK
<1>6. CASE Restart
  <2>1. window' \in [Devices -> 0 .. 1]
    BY <1>6 DEF Restart, TypeOK
  <2> QED  BY <1>6, <2>1 DEF Restart, TypeOK
<1> QED  BY <1>1, <1>2, <1>3, <1>4, <1>5, <1>6 DEF Next

LEMMA ProgressInit == Init => InProgress
  BY VeluxAssumption DEF Init, InProgress

LEMMA ProgressNext == TypeOK /\ InProgress /\ [Next]_vars => InProgress'
<1> SUFFICES ASSUME TypeOK, InProgress, [Next]_vars PROVE InProgress'
  OBVIOUS
<1> USE VeluxAssumption
<1>1. ASSUME NEW d \in Devices, NEW a \in ActionTypes, Exec(d, a) PROVE InProgress'
  <2>1. UNCHANGED <<target, busy, script, window>>
    BY <1>1 DEF Exec, vars
  <2>2. busy # None => changed'[busy]
    BY <1>1 DEF Exec, vars, TypeOK, InProgress
  <2> QED  BY <2>1, <2>2 DEF InProgress
<1>2. ASSUME NEW d \in Devices, Worker(d) PROVE InProgress'
  BY <1>2 DEF Worker, CmdExec, FirstChanged, TypeOK, InProgress
<1>3. CASE ScriptMoves
  BY <1>3 DEF ScriptMoves, TypeOK, InProgress
<1>4. CASE CommandDone
  BY <1>4 DEF CommandDone, CmdDone, InProgress
<1>5. CASE UNCHANGED vars
  BY <1>5 DEF vars, InProgress
<1>6. CASE Restart
  BY <1>6 DEF Restart, InProgress
<1> QED  BY <1>1, <1>2, <1>3, <1>4, <1>5, <1>6 DEF Next

LEMMA SettleStep ==
    ASSUME TypeOK, InProgress, Next, NEW d \in Devices, changed[d], ~changed'[d]
    PROVE  window'[d] = actual'[d] \/ script = "running" \/ Restart
<1>1. CASE CommandDone
  <2>1. busy = d
    BY <1>1 DEF CommandDone, TypeOK
  <2>2. target[d] = actual[d]
    BY <1>1, <2>1 DEF CommandDone, TypeOK
  <2>3. script = "moved" => window[d] = target[d]
    BY <2>1 DEF InProgress
  <2> QED  BY <1>1, <2>2, <2>3 DEF CommandDone, CmdDone
<1>2. ASSUME NEW e \in Devices, NEW a \in ActionTypes, Exec(e, a) PROVE FALSE
  BY <1>2 DEF Exec, vars, TypeOK
<1>3. ASSUME NEW e \in Devices, Worker(e) PROVE FALSE
  BY <1>3 DEF Worker
<1>4. CASE ScriptMoves
  BY <1>4 DEF ScriptMoves
<1> QED  BY <1>1, <1>2, <1>3, <1>4 DEF Next

-----------------------------------------------------------------------------
(* Blinds that follow the sun.  An order agrees with what its tracker has  *)
(* found; a blind without one has the wish its tracker gave it, and, once  *)
(* it is settled, has carried it out.                                      *)
OrderRecords == [dev : Devices, type : {"UP", "DOWN"}]

Closed(d) == IF in_sun[Follows[d]] THEN 1 ELSE 0

TrackTypes ==
    /\ visiting \in 0 .. Len(Trackers)
    /\ in_sun \in [TrackerIds -> BOOLEAN]
    /\ orders \subseteq OrderRecords
    /\ astray \subseteq Devices

OrdersAgree == \A o \in orders : Wish(o.type) = Closed(o.dev)

Following ==
    \A d \in Devices \ astray :
        (\A o \in orders : o.dev # d) =>
            actual[d] = Closed(d) /\ (~changed[d] => window[d] = actual[d])

TrackInv == TypeOK /\ InProgress /\ TrackTypes /\ OrdersAgree /\ Following

(* Every step of the house is a step of the Velux devices or leaves them   *)
(* alone.                                                                  *)
LEMMA TrackStep == TrackTypes /\ [TrackNext]_trackVars => [Next]_vars
<1> SUFFICES ASSUME TrackTypes, [TrackNext]_trackVars PROVE [Next]_vars
  OBVIOUS
<1>1. ASSUME NEW o \in orders, Order(o) PROVE Next
  <2>1. o.dev \in Devices /\ o.type \in ActionTypes
    BY DEF TrackTypes, OrderRecords, ActionTypes
  <2> QED  BY <1>1, <2>1 DEF Order, Next
<1>2. ASSUME NEW d \in Devices, NEW a \in ActionTypes, ByHand(d, a) PROVE Next
  BY <1>2 DEF ByHand, Next
<1>3. TrackWorker \/ TrackScript \/ TrackCommandDone \/ TrackRestart => Next
  BY DEF TrackWorker, TrackScript, TrackCommandDone, TrackRestart, Next
<1>4. SunMoves \/ CheckAllTrackers \/ CheckTracker => UNCHANGED vars
  BY DEF SunMoves, CheckAllTrackers, CheckTracker
<1>5. UNCHANGED trackVars => UNCHANGED vars
  BY DEF trackVars
<1> QED  BY <1>1, <1>2, <1>3, <1>4, <1>5 DEF TrackNext

LEMMA TrackInvInit == TrackInit => TrackInv
<1> SUFFICES ASSUME TrackInit PROVE TrackInv
  OBVIOUS
<1>1. TypeOK /\ InProgress
  BY TypeInit, ProgressInit DEF TrackInit
<1>2. in_sun \in [TrackerIds -> BOOLEAN]
  BY Zenon DEF TrackInit
<1>3. Len(Trackers) \in Nat
  BY SoltrackerAssumption
<1> QED
  BY <1>1, <1>2, <1>3 DEF TrackInit, TrackInv, TrackTypes, OrdersAgree, Following

LEMMA TrackInvNext == TrackInv /\ [TrackNext]_trackVars => TrackInv'
<1> SUFFICES ASSUME TrackInv, [TrackNext]_trackVars PROVE TrackInv'
  OBVIOUS
<1>0. /\ TypeOK /\ InProgress /\ TrackTypes /\ OrdersAgree /\ Following
      /\ TypeOK' /\ InProgress'
      /\ Len(Trackers) \in Nat /\ Follows \in [Devices -> TrackerIds]
  BY TrackStep, TypeNext, ProgressNext, SoltrackerAssumption DEF TrackInv
<1>1. CASE SunMoves \/ UNCHANGED trackVars
  <2>1. UNCHANGED <<vars, in_sun, visiting, orders, astray>>
    BY <1>1 DEF SunMoves, trackVars
  <2> QED
    BY <1>0, <2>1 DEF vars, TrackInv, TrackTypes, OrdersAgree, Following, Closed
<1>2. CASE CheckAllTrackers
  <2>1. visiting' = 1 /\ UNCHANGED <<vars, in_sun, orders, astray>>
    BY <1>2 DEF CheckAllTrackers
  <2>2. Following' /\ OrdersAgree'
    BY <1>0, <2>1 DEF vars, OrdersAgree, Following, Closed
  <2>3. Len(Trackers) > 0
    BY <1>2, SoltrackerAssumption DEF CheckAllTrackers
  <2> QED  BY <1>0, <2>1, <2>2, <2>3 DEF TrackInv, TrackTypes
<1>3. CASE CheckTracker
  <2> DEFINE t == visiting
             new == Shines(t, sun)
  <2>1. /\ t \in TrackerIds /\ orders = {}
        /\ in_sun' = [in_sun EXCEPT ![t] = new]
        /\ orders' = IF new = in_sun[t] THEN {} ELSE Reaction(t, new)
        /\ visiting' = (t + 1) % (Len(Trackers) + 1)
        /\ UNCHANGED <<vars, astray>>
    BY <1>0, <1>3 DEF CheckTracker, TrackTypes, TrackerIds
  <2>2. new \in BOOLEAN
    BY DEF Shines
  <2>3. visiting' \in 0 .. Len(Trackers)
    BY <1>0, <2>1 DEF TrackTypes
  <2>4. in_sun' \in [TrackerIds -> BOOLEAN]
    <3> HIDE DEF new
    <3> QED  BY <1>0, <2>1, <2>2, Zenon DEF TrackTypes
  <2>5. \A d \in Devices :
            /\ Follows[d] # t => in_sun'[Follows[d]] = in_sun[Follows[d]]
            /\ Follows[d] = t => in_sun'[Follows[d]] = new
    <3> HIDE DEF new, t
    <3> QED  BY <1>0, <2>1 DEF TrackTypes
  <2>6. CASE new = in_sun[t]
    <3>1. \A d \in Devices : in_sun'[Follows[d]] = in_sun[Follows[d]]
      <4> HIDE DEF new, t
      <4> QED  BY <2>5, <2>6
    <3>2. orders' = {}
      BY <2>1, <2>6
    <3>3. Following'
      BY <1>0, <2>1, <3>1, <3>2 DEF Following, Closed, vars
    <3> QED
      BY <1>0, <2>1, <2>3, <2>4, <3>2, <3>3 DEF TrackInv, TrackTypes, OrdersAgree
  <2>7. CASE new # in_sun[t]
    <3>1. orders' = Reaction(t, new)
      BY <2>1, <2>7
    <3>2. \A o \in orders' : /\ o \in OrderRecords /\ Follows[o.dev] = t
                             /\ o.type = IF new THEN "DOWN" ELSE "UP"
      <4> HIDE DEF new, t
      <4> QED  BY <3>1 DEF Reaction, OrderRecords
    <3>3. \A d \in Devices : (\A o \in orders' : o.dev # d) => Follows[d] # t
      <4> HIDE DEF new, t
      <4> SUFFICES ASSUME NEW d \in Devices, Follows[d] = t
                   PROVE  \E o \in orders' : o.dev = d
        OBVIOUS
      <4> DEFINE o == [dev |-> d, type |-> IF new THEN "DOWN" ELSE "UP"]
      <4>1. o \in orders'
        BY <3>1 DEF Reaction
      <4> QED  BY <4>1
    <3>4. OrdersAgree'
      <4> HIDE DEF new, t
      <4> SUFFICES ASSUME NEW o \in orders'
                   PROVE  Wish(o.type) = IF in_sun'[Follows[o.dev]] THEN 1 ELSE 0
        BY DEF OrdersAgree, Closed
      <4>1. o.dev \in Devices
        BY <3>2 DEF OrderRecords
      <4> QED  BY <2>5, <3>2, <4>1 DEF Wish
    <3>5. Following'
      <4> HIDE DEF new, t
      <4> SUFFICES ASSUME NEW d \in Devices, d \notin astray',
                          \A o \in orders' : o.dev # d
                   PROVE  /\ actual'[d] = IF in_sun'[Follows[d]] THEN 1 ELSE 0
                          /\ ~changed'[d] => window'[d] = actual'[d]
        BY DEF Following, Closed
      <4>1. in_sun'[Follows[d]] = in_sun[Follows[d]]
        BY <2>5, <3>3
      <4> QED  BY <1>0, <2>1, <4>1 DEF Following, Closed, vars
    <3> QED
      BY <1>0, <2>1, <2>3, <2>4, <3>2, <3>4, <3>5 DEF TrackInv, TrackTypes
  <2> QED  BY <2>6, <2>7
<1>4. ASSUME NEW o \in orders, Order(o) PROVE TrackInv'
  <2>1. o.dev \in Devices /\ o.type \in {"UP", "DOWN"}
    BY <1>0 DEF TrackTypes, OrderRecords
  <2>2. /\ actual' = [actual EXCEPT ![o.dev] = Wish(o.type)]
        /\ changed' = [changed EXCEPT ![o.dev] = TRUE]
        /\ UNCHANGED <<window, in_sun, visiting>>
        /\ orders' = orders \ {o} /\ astray' = astray \ {o.dev}
    BY <1>4, <2>1 DEF Order, Exec
  <2>3. \A d \in Devices : Closed(d)' = Closed(d)
    BY <2>2 DEF Closed
  <2>4. Following'
    <3> SUFFICES ASSUME NEW d \in Devices, d \notin astray', \A x \in orders' : x.dev # d
                 PROVE  actual'[d] = Closed(d) /\ (~changed'[d] => window'[d] = actual'[d])
      BY <2>3 DEF Following
    <3>1. CASE d = o.dev
      BY <1>0, <2>1, <2>2, <3>1 DEF TypeOK, OrdersAgree
    <3>2. CASE d # o.dev
      BY <1>0, <2>1, <2>2, <3>2 DEF TypeOK, Following
    <3> QED  BY <3>1, <3>2
  <2>5. OrdersAgree'
    BY <1>0, <2>2, <2>3 DEF OrdersAgree, TrackTypes, OrderRecords
  <2> QED  BY <1>0, <2>2, <2>4, <2>5 DEF TrackInv, TrackTypes
<1>5. ASSUME NEW d \in Devices, NEW a \in ActionTypes, ByHand(d, a) PROVE TrackInv'
  <2>1. UNCHANGED <<window, in_sun, visiting, orders>>
    BY <1>5 DEF ByHand, Exec, vars
  <2>2. astray' \subseteq Devices /\ astray \subseteq astray'
    BY <1>0, <1>5 DEF ByHand, TrackTypes
  <2>3. \A x \in Devices \ astray' : actual'[x] = actual[x] /\ changed'[x] = changed[x]
    BY <1>0, <1>5 DEF ByHand, Exec, vars, TypeOK
  <2>4. Following' /\ OrdersAgree'
    BY <1>0, <2>1, <2>2, <2>3 DEF Following, OrdersAgree, Closed
  <2> QED  BY <1>0, <2>1, <2>2, <2>4 DEF TrackInv, TrackTypes
<1>6. CASE TrackWorker
  <2>1. UNCHANGED <<actual, changed, window, in_sun, visiting, orders, astray>>
    BY <1>6 DEF TrackWorker, Worker
  <2> QED
    BY <1>0, <2>1 DEF TrackInv, TrackTypes, OrdersAgree, Following, Closed
<1>7. CASE TrackScript
  <2>1. /\ script = "running" /\ window' = [window EXCEPT ![busy] = target[busy]]
        /\ UNCHANGED <<actual, changed, in_sun, visiting, orders, astray>>
    BY <1>7 DEF TrackScript, ScriptMoves
  <2>2. busy # None /\ changed[busy]
    BY <1>0, <2>1 DEF InProgress
  <2>3. \A d \in Devices : ~changed[d] => window'[d] = window[d]
    BY <1>0, <2>1, <2>2 DEF TypeOK
  <2>4. Following' /\ OrdersAgree'
    BY <1>0, <2>1, <2>3 DEF Following, OrdersAgree, Closed
  <2> QED  BY <1>0, <2>1, <2>4 DEF TrackInv, TrackTypes
<1>8. CASE TrackCommandDone
  <2>1. /\ script \in {"running", "moved"}
        /\ changed' = [changed EXCEPT ![busy] = @ /\ target[busy] # actual[busy]]
        /\ astray' = IF script = "running" THEN astray \cup {busy} ELSE astray
        /\ UNCHANGED <<actual, window, in_sun, visiting, orders>>
    BY <1>8 DEF TrackCommandDone, CommandDone, CmdDone
  <2>2. busy \in Devices /\ (script = "moved" => window[busy] = target[busy])
    BY <1>0, <2>1 DEF InProgress, TypeOK
  <2>3. \A d \in Devices : d # busy => changed'[d] = changed[d]
    BY <1>0, <2>1 DEF TypeOK
  <2>4. ~changed'[busy] /\ busy \notin astray' /\ changed[busy] => window[busy] = actual[busy]
    BY <1>0, <2>1, <2>2 DEF TypeOK
  <2>5. Following'
    <3> SUFFICES ASSUME NEW d \in Devices, d \notin astray', \A o \in orders : o.dev # d
                 PROVE  actual[d] = Closed(d) /\ (~changed'[d] => window[d] = actual[d])
      BY <2>1 DEF Following, Closed
    <3>1. d \notin astray
      BY <2>1
    <3>2. actual[d] = Closed(d) /\ (~changed[d] => window[d] = actual[d])
      BY <1>0, <3>1 DEF Following
    <3> QED  BY <2>3, <2>4, <3>2
  <2>6. OrdersAgree'
    BY <1>0, <2>1 DEF OrdersAgree, Closed
  <2> QED  BY <1>0, <2>1, <2>2, <2>5, <2>6 DEF TrackInv, TrackTypes
<1>9. CASE TrackRestart
  <2>1. in_sun' \in [TrackerIds -> BOOLEAN]
    BY <1>9, Zenon DEF TrackRestart
  <2> QED
    BY <1>0, <1>9, <2>1 DEF TrackRestart, TrackInv, TrackTypes, OrdersAgree, Following
<1> QED
  BY <1>1, <1>2, <1>3, <1>4, <1>5, <1>6, <1>7, <1>8, <1>9 DEF TrackNext

(* The house with its trackers and rules is an implementation of the Velux *)
(* devices taken alone: what holds of them holds under it.                 *)
THEOREM HouseImplementsVelux == TrackSpec => Spec
<1>1. TrackInit => Init
  BY DEF TrackInit
<1>2. TrackInv /\ [TrackNext]_trackVars => [Next]_vars
  BY TrackStep DEF TrackInv
<1> QED  BY <1>1, <1>2, TrackInvInit, TrackInvNext, PTL DEF TrackSpec, Spec

(* One script at a time, for a wish that is remembered until the script    *)
(* has ended (velux_klf200_worker, velux_klf200_cmd_cb).                   *)
THEOREM OneScript == TrackSpec => []InProgress
  BY HouseImplementsVelux, TypeInit, TypeNext, ProgressInit, ProgressNext, PTL DEF Spec

(* A blind that follows the sun, and reports its end position, is where    *)
(* the last event of its tracker sent it.                                  *)
THEOREM FollowsSun == TrackSpec => []BlindsFollowSun
<1>1. TrackInv => BlindsFollowSun
  BY DEF TrackInv, Following, BlindsFollowSun, Idle, Closed
<1> QED  BY <1>1, TrackInvInit, TrackInvNext, PTL DEF TrackSpec

(* A device reports its end position again only with its blind there, or   *)
(* after a script that failed, or a restart.                               *)
THEOREM SettlesTrulyHolds == TrackSpec => SettlesTruly
<1>1. TypeOK /\ InProgress /\ [Next]_vars =>
          [\A d \in Devices :
              changed[d] /\ ~changed'[d] =>
                  window'[d] = actual'[d] \/ script = "running" \/ Restart]_vars
  BY SettleStep
<1> QED
  BY <1>1, HouseImplementsVelux, TypeInit, TypeNext, ProgressInit, ProgressNext, PTL
     DEF Spec, SettlesTruly

-----------------------------------------------------------------------------
(* The SUNRISET device (Sunriset).                                         *)

(* The timers that are left are those of the events that are to come; one  *)
(* that is due may be left or gone.  Everything else is read off them.     *)
TimersLeft ==
    \A e \in Events :
        /\ timers[e] \in {NoTimer, times[e]}
        /\ times[e] > now => timers[e] = times[e]
        /\ timers[e] # NoTimer => since < times[e] /\ now <= times[e]

SunInv ==
    /\ SunTypeOK
    /\ since <= now
    /\ midnight
    /\ TimersLeft
    /\ rised = CurrentState(timers)
    /\ raising \subseteq DueNow
    /\ RaisedOnce

LEMMA SunTimesTyped ==
    ASSUME NEW noon \in Noons, NEW arc \in Arcs
    PROVE  SunTimes(noon, arc) \in [Events -> 0 .. Day - 1]
<1> DEFINE half == Day \div 2
<1>1. /\ Day \in Nat /\ Day > 1 /\ noon \in 0 .. Day - 1
      /\ arc \in [Twilights -> 0 .. half]
  BY SunAssumption
<1>2. half \in 0 .. Day - 1
  BY <1>1
<1>3. \A k \in Twilights : arc[k] \in 0 .. Day - 1
  <2> HIDE DEF half
  <2> QED  BY <1>1, <1>2
<1>4. \A e \in Events : e[2] \in Twilights
  BY DEF Events
<1>5. \A x, y \in 0 .. Day - 1 : /\ Wrapped(x - y) \in 0 .. Day - 1
                                 /\ Wrapped(x + y) \in 0 .. Day - 1
  BY <1>1 DEF Wrapped
<1>6. \A e \in Events : SunTimes(noon, arc)[e] \in 0 .. Day - 1
  BY <1>1, <1>3, <1>4, <1>5 DEF SunTimes
<1> QED  BY <1>6 DEF SunTimes

LEMMA EventTimersTyped ==
    ASSUME NEW ts \in [Events -> 0 .. Day - 1], NEW t \in 0 .. Day - 1
    PROVE  /\ EventTimers(ts, t) \in [Events -> -1 .. Day - 1]
           /\ \A e \in Events :
                 /\ EventTimers(ts, t)[e] # NoTimer <=> ts[e] > t
                 /\ EventTimers(ts, t)[e] \in {NoTimer, ts[e]}
  BY SunAssumption DEF EventTimers, NoTimer

LEMMA CurrentStateTyped ==
    ASSUME NEW tm
    PROVE  CurrentState(tm) \in [Twilights -> BOOLEAN]
  BY Zenon DEF CurrentState

(* A calculation establishes everything, at whatever time it is made.      *)
LEMMA CalculateEstablishes ==
    ASSUME NEW ts \in [Events -> 0 .. Day - 1], NEW t \in 0 .. Day - 1,
           Calculate(ts, t), now' = t, midnight' = TRUE, raising' = {}
    PROVE  SunInv'
<1>1. /\ times' = ts /\ timers' = EventTimers(ts, t) /\ since' = t
      /\ rised' = CurrentState(timers') /\ raised' = [e \in Events |-> 0]
  BY DEF Calculate
<1>2. Day \in Nat /\ Day > 1
  BY SunAssumption
<1>3. TimersLeft'
  BY <1>1, EventTimersTyped DEF TimersLeft
<1>4. SunTypeOK'
  <2>1. rised' \in [Twilights -> BOOLEAN]
    BY <1>1, CurrentStateTyped
  <2>2. timers' \in [Events -> -1 .. Day - 1] /\ raised' \in [Events -> 0 .. 1]
    BY <1>1, EventTimersTyped
  <2>3. \E e \in Events : raising' \in {{}, {e}}
    <3>1. <<"RISE", 1>> \in Events
      BY DEF Events, Twilights
    <3> QED  BY <3>1
  <2> QED  BY <1>1, <1>2, <2>1, <2>2, <2>3 DEF SunTypeOK
<1>5. RaisedOnce'
  BY <1>1 DEF RaisedOnce
<1> QED  BY <1>1, <1>3, <1>4, <1>5 DEF SunInv

LEMMA SunInvInit == SunInit => SunInv
<1> SUFFICES ASSUME SunInit PROVE SunInv
  OBVIOUS
<1>1. times \in [Events -> 0 .. Day - 1] /\ now \in 0 .. Day - 1
  BY SunTimesTyped DEF SunInit
<1>2. Day \in Nat /\ Day > 1
  BY SunAssumption
<1>3. /\ timers = EventTimers(times, now) /\ since = now /\ midnight = TRUE
      /\ rised = CurrentState(timers) /\ raising = {}
      /\ raised = [e \in Events |-> 0]
  BY DEF SunInit
<1>4. TimersLeft
  BY <1>1, <1>3, EventTimersTyped DEF TimersLeft
<1>5. SunTypeOK
  <2>1. rised \in [Twilights -> BOOLEAN]
    BY <1>3, CurrentStateTyped
  <2>2. timers \in [Events -> -1 .. Day - 1] /\ raised \in [Events -> 0 .. 1]
    BY <1>1, <1>3, EventTimersTyped
  <2>3. \E e \in Events : raising \in {{}, {e}}
    <3>1. <<"RISE", 1>> \in Events
      BY DEF Events, Twilights
    <3> QED  BY <1>3, <3>1
  <2> QED  BY <1>1, <1>2, <1>3, <2>1, <2>2, <2>3 DEF SunTypeOK
<1>6. RaisedOnce
  BY <1>1, <1>3 DEF RaisedOnce
<1> QED  BY <1>1, <1>3, <1>4, <1>5, <1>6 DEF SunInv

LEMMA SunInvNext == SunInv /\ [SunNext]_sunVars => SunInv'
<1> SUFFICES ASSUME SunInv, [SunNext]_sunVars PROVE SunInv'
  OBVIOUS
<1>0. /\ Day \in Nat /\ Day > 1
      /\ SunTypeOK /\ TimersLeft /\ RaisedOnce
      /\ since <= now /\ midnight /\ rised = CurrentState(timers)
      /\ raising \subseteq DueNow
  BY SunAssumption DEF SunInv
<1>1. ASSUME NEW e \in Events, RaiseEvent(e) PROVE SunInv'
  <2>1. /\ raising = {} /\ e \in DueNow /\ raising' = {e}
        /\ raised' = [raised EXCEPT ![e] = @ + 1]
        /\ UNCHANGED <<now, times, timers, midnight, rised, since>>
    BY <1>1 DEF RaiseEvent
  <2>2. DueNow' = DueNow
    BY <2>1 DEF DueNow
  <2>3. timers[e] = now /\ timers[e] # NoTimer
    BY <1>0, <2>1 DEF DueNow, SunTypeOK, NoTimer
  <2>4. times[e] = now /\ since < times[e]
    BY <1>0, <2>3 DEF TimersLeft
  <2>5. raised[e] = 0
    BY <1>0, <2>1 DEF RaisedOnce
  <2>6. raised' \in [Events -> 0 .. 1]
    BY <1>0, <2>1, <2>5 DEF SunTypeOK
  <2>7. SunTypeOK'
    BY <1>0, <2>1, <2>6 DEF SunTypeOK
  <2>8. RaisedOnce'
    <3> SUFFICES ASSUME NEW x \in Events
                 PROVE  raised'[x] = IF /\ since < times[x] /\ times[x] <= now
                                        /\ x \notin DueNow \ {e}
                                     THEN 1 ELSE 0
      BY <2>1, <2>2 DEF RaisedOnce
    <3>1. CASE x = e
      BY <1>0, <2>1, <2>4, <2>5, <3>1 DEF SunTypeOK
    <3>2. CASE x # e
      <4>1. raised'[x] = raised[x]
        BY <1>0, <2>1, <3>2 DEF SunTypeOK
      <4> QED  BY <1>0, <2>1, <3>2, <4>1 DEF RaisedOnce
    <3> QED  BY <3>1, <3>2
  <2>9. TimersLeft'
    BY <1>0, <2>1 DEF TimersLeft
  <2> QED  BY <1>0, <2>1, <2>2, <2>7, <2>8, <2>9 DEF SunInv
<1>2. CASE ForgetTimer
  <2>1. /\ timers' = [e \in Events |-> IF e \in raising THEN NoTimer ELSE timers[e]]
        /\ rised' = CurrentState(timers') /\ raising' = {}
        /\ UNCHANGED <<now, times, midnight, since, raised>>
    BY <1>2 DEF ForgetTimer
  <2>2. \A e \in raising : times[e] = now
    BY <1>0 DEF DueNow, TimersLeft, SunTypeOK, NoTimer
  <2>3. TimersLeft'
    BY <1>0, <2>1, <2>2 DEF TimersLeft, SunTypeOK
  <2>4. SunTypeOK'
    <3>1. rised' \in [Twilights -> BOOLEAN]
      BY <2>1, CurrentStateTyped
    <3>2. timers' \in [Events -> -1 .. Day - 1]
      BY <1>0, <2>1 DEF SunTypeOK, NoTimer
    <3>3. \E e \in Events : raising' \in {{}, {e}}
      BY <1>0, <2>1 DEF SunTypeOK
    <3> QED  BY <1>0, <2>1, <3>1, <3>2, <3>3 DEF SunTypeOK
  <2>5. DueNow' = DueNow \ raising
    BY <1>0, <2>1 DEF DueNow, SunTypeOK, NoTimer
  <2>6. RaisedOnce'
    BY <1>0, <2>1, <2>5 DEF RaisedOnce
  <2> QED  BY <1>0, <2>1, <2>3, <2>4, <2>6 DEF SunInv
<1>3. CASE NextRun
  <2>1. PICK t \in Midnights, noon \in Noons, arc \in Arcs :
           now' = t /\ Calculate(SunTimes(noon, arc), t)
    BY <1>3 DEF NextRun
  <2>2. t \in 0 .. Day - 1
    BY <1>0 DEF Midnights
  <2>3. raising' = {} /\ midnight' = TRUE
    <3>1. now = Day /\ raising' = raising /\ midnight' = TRUE
      BY <1>3 DEF NextRun
    <3>2. DueNow = {}
      BY <1>0, <3>1 DEF DueNow, SunTypeOK
    <3> QED  BY <1>0, <3>1, <3>2
  <2>4. SunTimes(noon, arc) \in [Events -> 0 .. Day - 1]
    BY SunTimesTyped
  <2> QED  BY <2>1, <2>2, <2>3, <2>4, CalculateEstablishes
<1>4. CASE Tick
  <2>1. /\ raising = {} /\ DueNow = {} /\ ~(now = Day /\ midnight)
        /\ now' = (now + 1) % (Day + 1)
        /\ UNCHANGED <<times, timers, midnight, rised, raising, since, raised>>
    BY <1>4 DEF Tick
  <2>2. now \in 0 .. Day - 1
    BY <1>0, <2>1 DEF SunTypeOK
  <2>3. now' = now + 1 /\ now' \in 0 .. Day
    BY <1>0, <2>1, <2>2
  <2>4. \A e \in Events : times[e] \in 0 .. Day - 1 /\ since \in 0 .. Day - 1
    BY <1>0 DEF SunTypeOK
  <2>5. \A e \in Events : timers[e] # now
    BY <2>1 DEF DueNow
  <2>6. TimersLeft'
    BY <1>0, <2>1, <2>2, <2>3, <2>4, <2>5 DEF TimersLeft
  <2>7. RaisedOnce'
    <3> SUFFICES ASSUME NEW e \in Events
                 PROVE  raised[e] = IF /\ since < times[e] /\ times[e] <= now + 1
                                       /\ e \notin DueNow' \ {}
                                    THEN 1 ELSE 0
      BY <2>1, <2>3 DEF RaisedOnce
    <3>1. raised[e] = IF since < times[e] /\ times[e] <= now THEN 1 ELSE 0
      BY <1>0, <2>1 DEF RaisedOnce
    <3>2. e \in DueNow' <=> timers[e] = now + 1
      BY <2>1, <2>3 DEF DueNow
    <3>3. CASE times[e] = now + 1
      <4>1. timers[e] = now + 1
        BY <1>0, <2>2, <2>4, <3>3 DEF TimersLeft
      <4> QED  BY <2>2, <3>1, <3>2, <3>3, <4>1
    <3>4. CASE times[e] # now + 1
      <4>1. timers[e] # now + 1
        BY <1>0, <2>2, <3>4 DEF TimersLeft, NoTimer
      <4> QED  BY <2>2, <2>4, <3>1, <3>2, <3>4, <4>1
    <3> QED  BY <3>3, <3>4
  <2>8. SunTypeOK'
    BY <1>0, <2>1, <2>3 DEF SunTypeOK
  <2>9. since' <= now'
    BY <1>0, <2>1, <2>2, <2>3 DEF SunTypeOK
  <2> QED  BY <1>0, <2>1, <2>6, <2>7, <2>8, <2>9 DEF SunInv
<1>5. CASE Reparse
  <2>1. /\ now \in 0 .. Day - 1 /\ times \in [Events -> 0 .. Day - 1]
        /\ Calculate(times, now) /\ now' = now /\ midnight' = TRUE /\ raising' = {}
    BY <1>0, <1>5 DEF Reparse, SunTypeOK
  <2> QED  BY <2>1, CalculateEstablishes
<1>6. CASE UNCHANGED sunVars
  <2>1. DueNow' = DueNow
    BY <1>6 DEF sunVars, DueNow
  <2> QED  BY <1>0, <1>6, <2>1 DEF sunVars, SunInv, SunTypeOK, TimersLeft, RaisedOnce
<1> QED  BY <1>1, <1>2, <1>3, <1>4, <1>5, <1>6 DEF SunNext, SunStep

(* The fields of a SUNRISET stay within their types whatever the sun does. *)
THEOREM SunTypeCorrect == SunSpec => []SunTypeOK
<1>1. SunInv => SunTypeOK
  BY DEF SunInv
<1> QED  BY <1>1, SunInvInit, SunInvNext, PTL DEF SunSpec

(* No event of a SUNRISET is raised twice or left out.                     *)
THEOREM EventsRaisedOnce == SunSpec => []RaisedOnce
<1>1. SunInv => RaisedOnce
  BY DEF SunInv
<1> QED  BY <1>1, SunInvInit, SunInvNext, PTL DEF SunSpec

LEMMA CheckReadsTimers ==
    ASSUME SunInv, NEW k \in Twilights
    PROVE  rised[k] <=> timers[<<"RISE", k>>] = NoTimer /\ timers[<<"SET", k>>] # NoTimer
  BY DEF SunInv, CurrentState

LEMMA TwilightEvents ==
    ASSUME NEW k \in Twilights
    PROVE  <<"RISE", k>> \in Events /\ <<"SET", k>> \in Events
  BY DEF Events

(* What is read off the timers is where the sun stands by the clock.       *)
THEOREM DaytimeBySun == SunSpec => []SunriseInDaytime
<1>1. ASSUME SunInv PROVE SunriseInDaytime
  <2> SUFFICES ASSUME Settled, NEW k \in Twilights
               PROVE  SunCheck("SUNRISE", k) <=>
                          times[<<"RISE", k>>] <= now /\ now < times[<<"SET", k>>]
    BY DEF SunriseInDaytime
  <2>1. \A e \in Events : timers[e] # NoTimer <=> now < times[e]
    <3> TAKE e \in Events
    <3>1. timers[e] # now
      BY DEF Settled, DueNow
    <3>2. times[e] \in 0 .. Day - 1 /\ now \in 0 .. Day /\ Day \in Nat
      BY <1>1, SunAssumption DEF SunInv, SunTypeOK
    <3> QED  BY <1>1, <3>1, <3>2 DEF SunInv, TimersLeft, NoTimer
  <2>2. \A e \in Events : times[e] \in Int /\ now \in Int
    BY <1>1, SunAssumption DEF SunInv, SunTypeOK
  <2> QED  BY <1>1, <2>1, <2>2, CheckReadsTimers, TwilightEvents DEF SunCheck
<1> QED  BY <1>1, SunInvInit, SunInvNext, PTL DEF SunSpec

(* Rules always run against the condition that their event ends.           *)
THEOREM RulesRunBefore == SunSpec => []RulesSeeBefore
<1>1. ASSUME SunInv PROVE RulesSeeBefore
  <2> SUFFICES ASSUME NEW e \in raising, e \in Events,
                      times[<<"RISE", e[2]>>] < times[<<"SET", e[2]>>]
               PROVE  SunCheck(IF e[1] = "RISE" THEN "SUNSET" ELSE "SUNRISE", e[2])
    BY <1>1 DEF RulesSeeBefore, SunInv, DueNow
  <2> DEFINE k == e[2]
             r == <<"RISE", k>>
             s == <<"SET", k>>
  <2>1. k \in Twilights /\ e \in {r, s} /\ r \in Events /\ s \in Events
    BY DEF Events
  <2>2. timers[e] = now /\ timers[e] # NoTimer /\ times[e] = now
    BY <1>1 DEF SunInv, DueNow, SunTypeOK, TimersLeft, NoTimer
  <2>3. times[r] \in Int /\ times[s] \in Int /\ now \in Int
    BY <1>1, <2>1, SunAssumption DEF SunInv, SunTypeOK
  <2>4. rised[k] <=> timers[r] = NoTimer /\ timers[s] # NoTimer
    BY <1>1, <2>1, CheckReadsTimers
  <2>5. CASE e = r
    BY <2>2, <2>4, <2>5 DEF SunCheck
  <2>6. CASE e = s
    <3>1. timers[r] = NoTimer
      BY <1>1, <2>1, <2>2, <2>3, <2>6 DEF SunInv, TimersLeft
    <3> QED  BY <2>2, <2>4, <2>6, <3>1 DEF SunCheck
  <2> QED  BY <2>1, <2>5, <2>6
<1> QED  BY <1>1, SunInvInit, SunInvNext, PTL DEF SunSpec
==============================================================================
