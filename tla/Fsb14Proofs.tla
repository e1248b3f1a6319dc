---------------------------- MODULE Fsb14Proofs ----------------------------
(***************************************************************************)
(* Proofs about the blind, for every run time, travel time and number of   *)
(* timers: what the driver believes follows from the last telegram,        *)
(* whatever the rules do in reaction to UP and DOWN; and without such      *)
(* reactions an end position is reported only when the blind is there.     *)
(***************************************************************************)
EXTENDS Fsb14, TLAPS

LEMMA TypeInit == Init => TypeOK
<1> SUFFICES ASSUME Init PROVE TypeOK
  OBVIOUS
<1>1. 0 \in 0 .. Duration
  BY BlindAssumption
<1>2. left \in [Timers -> 0 .. Duration]
  BY <1>1 DEF Init
<1>3. run \in 0 .. 255
  BY DEF Init
<1> QED  BY <1>1, <1>2, <1>3 DEF Init, TypeOK

LEMMA TelegramTyped ==
    ASSUME NEW a \in ActionTypes
    PROVE  Telegram(a) \in {"open", "close", "stop"}
  BY DEF Telegram, ActionTypes

LEMMA TypeExec ==
    ASSUME TypeOK, NEW a \in ActionTypes, Exec(a), UNCHANGED firing
    PROVE  TypeOK'
<1> USE DEF TypeOK, blind, rulefile
<1>1. CASE Lock(a)
  BY <1>1 DEF Lock
<1>2. CASE Ignore(a)
  BY <1>2 DEF Ignore, Destroyed
<1>3. CASE Halt(a)
  BY <1>3, BlindAssumption DEF Halt, Destroyed
<1>4. CASE Move(a)
  <2>1. PICK t \in Timers \ (live \cup {firing}) :
           /\ live' = Destroyed \cup {t}
           /\ left' = [left EXCEPT ![t] = Duration]
           /\ timer' = t
    BY <1>4 DEF Move
  <2>2. Duration \in 0 .. Duration
    BY BlindAssumption
  <2>3. told' \in {"open", "close"} /\ UNCHANGED <<rulefile, locked, pos>>
    BY <1>4 DEF Move
  <2>4. condition' \in {"RISING", "DESCENDING"} /\ last' \in {"UP", "DOWN"}
    BY <1>4 DEF Move
  <2>5. live' \subseteq Timers /\ timer' \in Timers /\ left' \in [Timers -> 0 .. Duration]
    BY <2>1, <2>2 DEF Destroyed
  <2>6. run' \in 0 .. 255
    BY <1>4, BlindAssumption DEF Move, RunTimes
  <2> QED  BY <2>2, <2>3, <2>4, <2>5, <2>6
<1> QED  BY <1>1, <1>2, <1>3, <1>4 DEF Exec

LEMMA TypeNext == TypeOK /\ [Next]_vars => TypeOK'
<1> SUFFICES ASSUME TypeOK, [Next]_vars PROVE TypeOK'
  OBVIOUS
<1>1. CASE Tick
  <2>1. left' \in [Timers -> 0 .. Duration]
    BY <1>1, BlindAssumption DEF Tick, TypeOK
  <2>2. run' \in 0 .. 255
    BY <1>1, BlindAssumption DEF Tick, TypeOK
  <2>3. pos' \in 0 .. Travel
    BY <1>1, BlindAssumption DEF Tick, TypeOK
  <2> QED  BY <1>1, <2>1, <2>2, <2>3 DEF Tick, TypeOK, rulefile
<1>2. ASSUME NEW a \in ActionTypes, Command(a) PROVE TypeOK'
  BY <1>2, TypeExec DEF Command
<1>3. ASSUME NEW a \in reactions, React(a) PROVE TypeOK'
  <2>1. a \in ActionTypes
    BY BlindAssumption DEF TypeOK
  <2> QED  BY <1>3, <2>1, TypeExec DEF React
<1>4. ASSUME NEW t \in Timers, TimerFires(t) PROVE TypeOK'
  BY <1>4 DEF TimerFires, TypeOK, blind, rulefile
<1>5. CASE TimerReturns
  BY <1>5 DEF TimerReturns, TypeOK, blind, rulefile
<1>6. CASE UNCHANGED vars
  BY <1>6 DEF vars, rulefile, driver, blind, TypeOK
<1> QED  BY <1>1, <1>2, <1>3, <1>4, <1>5, <1>6 DEF Next

-----------------------------------------------------------------------------
(* last_action, too, follows from the last telegram.                       *)
LastFromTelegram ==
    /\ last = "UP" => told = "open"
    /\ last = "DOWN" => told = "close"

BeliefInv == PositionFromTelegram /\ LastFromTelegram

LEMMA BeliefExec ==
    ASSUME BeliefInv, NEW a, Exec(a)
    PROVE  BeliefInv'
  BY DEF BeliefInv, PositionFromTelegram, LastFromTelegram, Exec,
         Lock, Ignore, Halt, Move, blind

LEMMA BeliefNext == BeliefInv /\ [Next]_vars => BeliefInv'
<1> SUFFICES ASSUME BeliefInv, [Next]_vars PROVE BeliefInv'
  OBVIOUS
<1> USE DEF BeliefInv, PositionFromTelegram, LastFromTelegram
<1>1. CASE Tick
  BY <1>1 DEF Tick
<1>2. ASSUME NEW a, Command(a) \/ React(a) PROVE BeliefInv'
  BY <1>2, BeliefExec DEF Command, React
<1>3. ASSUME NEW t \in Timers, TimerFires(t) PROVE BeliefInv'
  BY <1>3 DEF TimerFires, blind
<1>4. CASE TimerReturns
  BY <1>4 DEF TimerReturns, blind
<1>5. CASE UNCHANGED vars
  BY <1>5 DEF vars, driver, blind
<1> QED  BY <1>1, <1>2, <1>3, <1>4, <1>5 DEF Next

(* The types of the driver's and the blind's state.                        *)
THEOREM BlindTypes == Spec => []TypeOK
  BY TypeInit, TypeNext, PTL DEF Spec

(* Whatever rules, locks and stray timers do, the driver believes a blind  *)
(* open or opening only when the last telegram said so.                    *)
THEOREM BeliefSound == Spec => []PositionFromTelegram
<1>1. Init => BeliefInv
  BY DEF Init, BeliefInv, PositionFromTelegram, LastFromTelegram
<1>2. BeliefInv => PositionFromTelegram
  BY DEF BeliefInv
<1> QED  BY <1>1, <1>2, BeliefNext, PTL DEF Spec

-----------------------------------------------------------------------------
(* Without reactions the driver keeps track of its timer.                  *)
TimerInv == TypeOK /\ OneTimer

LEMMA FixedRules == [Next]_vars => UNCHANGED rulefile
  BY DEF Next, vars, Tick, Command, React, Exec, Lock, Ignore, Halt, Move,
         TimerFires, TimerReturns

LEMMA TimerNext == TimerInv /\ [Next]_vars => TimerInv'
<1> SUFFICES ASSUME TimerInv, [Next]_vars, NoReactions PROVE OneTimer'
  BY TypeNext, FixedRules DEF TimerInv, OneTimer, NoReactions, rulefile
<1> USE DEF TimerInv, NoReactions
<1>1. CASE Tick
  BY <1>1 DEF Tick, OneTimer
<1>2. ASSUME NEW a \in ActionTypes, Command(a) PROVE OneTimer'
  <2>1. CASE Move(a)
    <3>1. PICK t \in Timers \ (live \cup {firing}) :
             live' = Destroyed \cup {t} /\ timer' = t
      BY <2>1 DEF Move
    <3>2. Destroyed = {} /\ t # None
      BY <1>2, BlindAssumption DEF Command, Destroyed, OneTimer
    <3> QED  BY <1>2, <3>1, <3>2 DEF Command, OneTimer
  <2>2. CASE Lock(a) \/ Ignore(a) \/ Halt(a)
    BY <1>2, <2>2 DEF Command, Lock, Ignore, Halt, Destroyed, OneTimer
  <2> QED  BY <1>2, <2>1, <2>2 DEF Command, Exec
<1>3. ASSUME NEW t \in Timers, TimerFires(t) PROVE OneTimer'
  <2>1. timer = t /\ t # None
    BY <1>3, BlindAssumption DEF TimerFires, OneTimer
  <2> QED  BY <1>3, <2>1 DEF TimerFires, OneTimer
<1>4. CASE TimerReturns
  BY <1>4 DEF TimerReturns, OneTimer
<1>5. CASE UNCHANGED vars
  BY <1>5 DEF vars, driver, OneTimer
<1> QED  BY <1>1, <1>2, <1>3, <1>4, <1>5 DEF Next

(* Without reactions and options the timer and the motor run in step:      *)
(* when the timer is due the motor has run its time, and by then the blind *)
(* has made the way that was left.                                         *)
InStep ==
    Quiet /\ timer # None =>
        /\ last \in {"UP", "DOWN"}
        /\ run = left[timer]
        /\ last = "UP" => pos + run >= Travel
        /\ last = "DOWN" => pos <= run

Settled == Quiet /\ condition \in {"UP", "DOWN", "STOPPED"} => run = 0

QuietInv == TypeOK /\ BeliefInv /\ OneTimer /\ InStep /\ Settled /\ EndReached

LEMMA QuietNext == QuietInv /\ [Next]_vars => QuietInv'
<1> SUFFICES ASSUME QuietInv, [Next]_vars PROVE QuietInv'
  OBVIOUS
<1>q. Quiet' = Quiet
  BY FixedRules DEF Quiet, rulefile
<1>o. OneTimer'
  BY TimerNext DEF QuietInv, TimerInv
<1>a. TypeOK /\ TypeOK' /\ BeliefInv /\ BeliefInv'
  BY TypeNext, BeliefNext DEF QuietInv
<1>b. Duration \in Nat /\ Travel \in Nat /\ Travel <= Duration /\ None \notin Timers
  BY BlindAssumption
<1> SUFFICES ASSUME Quiet PROVE InStep' /\ Settled' /\ EndReached'
  BY <1>a, <1>q, <1>o DEF QuietInv, InStep, Settled, EndReached
<1>n. NoReactions /\ NoReactions' /\ Quiet'
  BY <1>q DEF Quiet, NoReactions
<1> USE <1>n DEF QuietInv
<1>1. CASE Tick
  <2>2. InStep'
    <3> SUFFICES ASSUME timer # None PROVE InStep'
      BY <1>1 DEF Tick, InStep
    <3>1. timer \in Timers
      BY <1>a DEF TypeOK
    <3>2. left'[timer] = IF left[timer] > 0 THEN left[timer] - 1 ELSE 0
      BY <1>1, <3>1 DEF Tick
    <3>3. run' = left'[timer']
      BY <1>1, <3>2 DEF Tick, InStep
    <3>4. CASE last = "UP"
      <4>1. told = "open"
        BY <3>4 DEF BeliefInv, LastFromTelegram
      <4>2. pos' = IF run > 0 /\ pos < Travel THEN pos + 1 ELSE pos
        BY <1>1, <4>1 DEF Tick
      <4>3. run' = IF run > 0 THEN run - 1 ELSE 0
        BY <1>1 DEF Tick
      <4>4. pos' + run' >= Travel
        BY <1>a, <1>b, <3>4, <4>2, <4>3 DEF InStep, TypeOK
      <4> QED  BY <1>1, <3>3, <3>4, <4>4 DEF Tick, InStep
    <3>5. CASE last = "DOWN"
      <4>1. told = "close"
        BY <3>5 DEF BeliefInv, LastFromTelegram
      <4>2. pos' = IF run > 0 /\ pos > 0 THEN pos - 1 ELSE pos
        BY <1>1, <4>1 DEF Tick
      <4>3. run' = IF run > 0 THEN run - 1 ELSE 0
        BY <1>1 DEF Tick
      <4>4. pos' <= run'
        BY <1>a, <1>b, <3>5, <4>2, <4>3 DEF InStep, TypeOK
      <4> QED  BY <1>1, <3>3, <3>5, <4>4 DEF Tick, InStep
    <3> QED  BY <3>4, <3>5 DEF InStep
  <2>3. Settled'
    BY <1>1 DEF Tick, Settled
  <2>4. EndReached'
    <3>1. condition \in {"UP", "DOWN"} => pos' = pos
      BY <1>1, <1>a DEF Tick, Settled, TypeOK
    <3> QED  BY <1>1, <2>3, <3>1 DEF Tick, EndReached, Settled
  <2> QED  BY <2>2, <2>3, <2>4
<1>2. ASSUME NEW a \in ActionTypes, Command(a) PROVE InStep' /\ Settled' /\ EndReached'
  <2> USE <1>2 DEF Command, blind
  <2>1. CASE Lock(a)
    BY <2>1 DEF Lock, InStep, Settled, EndReached
  <2>2. CASE Ignore(a)
    BY <2>2 DEF Ignore, Destroyed, InStep, Settled, EndReached
  <2>3. CASE Halt(a)
    BY <2>3 DEF Halt, Destroyed, InStep, Settled, EndReached
  <2>4. CASE Move(a)
    <3>1. PICK t \in Timers \ (live \cup {firing}) :
             /\ live' = Destroyed \cup {t}
             /\ left' = [left EXCEPT ![t] = Duration]
             /\ timer' = t
      BY <2>4 DEF Move
    <3>2. Destroyed = {} /\ t # None
      BY <1>b DEF Destroyed, OneTimer
    <3>4. left'[timer'] = Duration
      BY <1>a, <3>1 DEF TypeOK
    <3>5. run' = Duration /\ pos' = pos
      BY <2>4 DEF Move, RunTimes, Quiet
    <3>6. \/ last' = "UP" /\ condition' = "RISING"
          \/ last' = "DOWN" /\ condition' = "DESCENDING"
      BY <2>4 DEF Move
    <3>7. pos' + run' >= Travel /\ pos' <= run'
      BY <1>a, <1>b, <3>5 DEF TypeOK
    <3> QED  BY <3>4, <3>5, <3>6, <3>7 DEF InStep, Settled, EndReached
  <2> QED  BY <2>1, <2>2, <2>3, <2>4 DEF Exec
<1>3. ASSUME NEW t \in Timers, TimerFires(t) PROVE InStep' /\ Settled' /\ EndReached'
  <2>1. t \in live /\ left[t] = 0 /\ firing = None
    BY <1>3 DEF TimerFires
  <2>2. timer = t /\ t # None
    BY <1>b, <2>1 DEF OneTimer
  <2>3. run = 0 /\ last \in {"UP", "DOWN"}
    BY <2>1, <2>2 DEF InStep
  <2>4. /\ live' = live \ {t} /\ condition' = last /\ firing' = t
        /\ UNCHANGED <<last, timer, left, run, pos>>
    BY <1>3, <2>3 DEF TimerFires, blind
  <2>6. EndReached'
    <3>1. last = "UP" => pos >= Travel
      BY <1>a, <1>b, <2>2, <2>3 DEF InStep, TypeOK
    <3>2. last = "DOWN" => pos <= 0
      BY <1>a, <1>b, <2>2, <2>3 DEF InStep, TypeOK
    <3> QED  BY <1>a, <1>b, <2>3, <2>4, <3>1, <3>2 DEF EndReached, TypeOK
  <2>7. InStep' /\ Settled'
    BY <2>3, <2>4 DEF InStep, Settled
  <2> QED  BY <2>6, <2>7
<1>4. CASE TimerReturns
  BY <1>4 DEF TimerReturns, blind, InStep, Settled, EndReached
<1>5. CASE UNCHANGED vars
  BY <1>5 DEF vars, driver, blind, InStep, Settled, EndReached
<1> QED  BY <1>1, <1>2, <1>3, <1>4, <1>5 DEF Next, NoReactions

LEMMA QuietInit == Init => QuietInv
  BY TypeInit DEF Init, QuietInv, BeliefInv, PositionFromTelegram, LastFromTelegram,
                  OneTimer, InStep, Settled, EndReached

(* When no rule commands a blind in reaction to its own UP or DOWN, those  *)
(* events, and the conditions, report an end position only when the blind  *)
(* has reached it, for every run time that covers the travel time and is   *)
(* not overridden by an option.                                            *)
THEOREM EndPositionsTrue == Spec => []EndReached
<1>1. QuietInv => EndReached
  BY DEF QuietInv
<1>2. QuietInv /\ [Next]_vars => QuietInv'
  BY QuietNext
<1> QED  BY <1>1, <1>2, QuietInit, PTL DEF Spec

(* Without such reactions, and whatever the options, the driver never      *)
(* loses its timer and never keeps a dead one.                             *)
THEOREM TimerNotLost == Spec => []OneTimer
<1>1. Init => TimerInv
  BY TypeInit DEF Init, TimerInv, OneTimer
<1>2. TimerInv => OneTimer
  BY DEF TimerInv
<1>3. TimerInv /\ [Next]_vars => TimerInv'
  BY TimerNext
<1> QED  BY <1>1, <1>2, <1>3, PTL DEF Spec

-----------------------------------------------------------------------------
LEMMA StuckStep ==
    ASSUME [Next]_vars, firing = None, ~locked, Moving', timer' = None
    PROVE  Moving /\ timer = None
<1>1. ASSUME NEW a \in ActionTypes, Exec(a)
      PROVE  Moving /\ timer = None
  <2>1. CASE Lock(a)
    BY <2>1 DEF Lock, Moving
  <2>2. CASE Ignore(a)
    BY <2>2 DEF Ignore
  <2>3. CASE Halt(a)
    BY <2>3 DEF Halt, Moving
  <2>4. CASE Move(a)
    BY <2>4, BlindAssumption DEF Move
  <2> QED  BY <1>1, <2>1, <2>2, <2>3, <2>4 DEF Exec
<1>2. CASE Tick
  BY <1>2 DEF Tick, Moving
<1>3. CASE \E a \in ActionTypes : Command(a)
  BY <1>1, <1>3 DEF Command
<1>4. CASE \E t \in Timers : TimerFires(t)
  BY <1>4 DEF TimerFires, Moving
<1>5. CASE (\E a \in reactions : React(a)) \/ TimerReturns
  BY <1>5 DEF React, TimerReturns
<1>6. CASE UNCHANGED vars
  BY <1>6 DEF vars, driver, Moving
<1> QED  BY <1>2, <1>3, <1>4, <1>5, <1>6 DEF Next

(* A blind that is left moving with no timer to end its motion was         *)
(* commanded while it was locked, or by a rule that answered its event:    *)
(* no other order of commands and expiries does it, for any run times.     *)
THEOREM StrandedByLock == Spec => StuckOnlyByLock
<1>1. [Next]_vars =>
        [Moving' /\ timer' = None /\ ~(Moving /\ timer = None)
            => locked \/ firing # None]_vars
  BY StuckStep
<1> QED  BY <1>1, PTL DEF Spec, StuckOnlyByLock
=============================================================================
