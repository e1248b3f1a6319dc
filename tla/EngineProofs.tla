---------------------------- MODULE EngineProofs ----------------------------
(***************************************************************************)
(* Proofs about the engine, for every set of devices, every rule file and  *)
(* every set of remote commands, with saves and restarts at any time: type *)
(* correctness, the timer handles and the exclusions, repetitions and      *)
(* dimmers of House without further assumption; the depth and the end of   *)
(* the recursion, the absence of stale events and the devices that follow  *)
(* others for layered rule files.                                          *)
(***************************************************************************)
EXTENDS House, TLAPS

-----------------------------------------------------------------------------
(* What an action leaves in a device is a level of its type: the uint8 of  *)
(* the dimmer and the on/off value of the others stay in range.            *)
LEMMA DimmedLevel ==
    ASSUME NEW v \in 0 .. 255, NEW d \in 0 .. 1
    PROVE  /\ Dimmed(v, d).val \in 0 .. 255
           /\ Dimmed(v, d).dir \in 0 .. 1
<1> DEFINE raw == Uint8(IF d = 1 THEN v + DimInterval ELSE v - DimInterval)
           top == IF raw >= DimMax THEN [val |-> DimMax, dir |-> 0]
                                   ELSE [val |-> raw, dir |-> d]
<1>1. raw \in 0 .. 255
  BY DimAssumption DEF Uint8
<1>2. top.val \in 0 .. 255 /\ top.dir \in 0 .. 1
  <2> HIDE DEF raw
  <2> QED  BY <1>1, DimAssumption
<1>3. Dimmed(v, d) = IF top.val <= DimMin THEN [val |-> DimMin, dir |-> 1] ELSE top
  BY DEF Dimmed
<1> HIDE DEF top
<1> QED
  BY <1>2, <1>3 DEF DimMin

LEMMA AfterLevel ==
    ASSUME NEW k \in Kinds, NEW type \in ActionTypes, NEW opt \in -1 .. 255,
           NEW v \in Level(k), NEW d \in 0 .. 1,
           ~(k = "TIMER" /\ type \in Supported("TIMER"))
    PROVE  /\ After(k, type, opt, v, d).val \in Level(k)
           /\ After(k, type, opt, v, d).dir \in 0 .. 1
<1>1. CASE type \notin Supported(k)
  <2>1. After(k, type, opt, v, d) = [val |-> v, dir |-> d]
    BY <1>1 DEF After
  <2> QED  BY <2>1
<1>2. CASE type \in Supported(k) /\ k = "FUD14"
  <2>1. After(k, type, opt, v, d) = DimmerAfter(type, opt, v, d)
    BY <1>2 DEF After
  <2>2. v \in 0 .. 255 /\ Level(k) = 0 .. 255
    BY <1>2 DEF Level
  <2>3. FullLevel(opt) \in 0 .. 255
    BY DimAssumption DEF FullLevel, Uint8, NoOption
  <2>4. CASE type = "DIM"
    <3>1. DimmerAfter(type, opt, v, d) = Dimmed(v, d)
      BY <2>4 DEF DimmerAfter
    <3> QED  BY <2>1, <2>2, <3>1, DimmedLevel
  <2>5. CASE type # "DIM"
    <3> HIDE DEF FullLevel
    <3> QED  BY <2>1, <2>2, <2>3, <2>5 DEF DimmerAfter, ActionTypes
  <2> QED  BY <2>4, <2>5
<1>3. CASE type \in Supported(k) /\ k # "FUD14"
  <2>1. k \in {"BOOL", "FSR14", "GPO"}
    BY <1>3 DEF Supported, Kinds
  <2>2. After(k, type, opt, v, d) = [val |-> SwitchAfter(type, v), dir |-> d]
    BY <1>3 DEF After
  <2>3. SwitchAfter(type, v) \in {0, 1, v}
    BY DEF SwitchAfter
  <2> QED  BY <2>1, <2>2, <2>3 DEF Level
<1> QED  BY <1>1, <1>2, <1>3

LEMMA LevelBounds ==
    ASSUME NEW k \in Kinds
    PROVE  /\ Level(k) \subseteq -1 .. 255
           /\ InitialLevels(k) \subseteq Level(k)
  BY DEF Kinds, Level, InitialLevels

LEMMA RaisedIsEvent ==
    ASSUME NEW k, NEW v
    PROVE  RaisedEvent(k, v) \in EventTypes
  BY DEF RaisedEvent, EventTypes

(* Pushing, replacing and popping frames keeps a sequence a sequence.      *)
LEMMA StackOps ==
    ASSUME NEW S, NEW s \in Seq(S), NEW e \in S
    PROVE  /\ Append(s, e) \in Seq(S)
           /\ s # <<>> => /\ Len(s) \in Nat \ {0}
                          /\ s[Len(s)] \in S
                          /\ [s EXCEPT ![Len(s)] = e] \in Seq(S)
                          /\ SubSeq(s, 1, Len(s) - 1) \in Seq(S)
                          /\ Head(s) \in S
                          /\ Tail(s) \in Seq(S)
<1>1. Append(s, e) \in Seq(S)
  OBVIOUS
<1>2. CASE s # <<>>
  <2>1. Len(s) \in Nat \ {0}
    BY <1>2
  <2>2. s[Len(s)] \in S
    BY <2>1
  <2>3. [s EXCEPT ![Len(s)] = e] \in Seq(S)
    BY <2>1
  <2>4. SubSeq(s, 1, Len(s) - 1) \in Seq(S)
    BY <2>1
  <2>5. Head(s) \in S /\ Tail(s) \in Seq(S)
    BY <1>2
  <2> QED  BY <1>1, <2>1, <2>2, <2>3, <2>4, <2>5
<1> QED  BY <1>1, <1>2

LEMMA FrameIsFrame ==
    ASSUME NEW d \in Devices, NEW e \in EventTypes
    PROVE  Frame(d, e) \in Frames
  BY ConfigAssumption DEF Frame, Frames, RuleRecords

-----------------------------------------------------------------------------
(* Type correctness is inductive together with the timer handles: an armed *)
(* timer is destroyed before another one is created for the same device.   *)
EngineInv == TypeOK /\ TimerHandles

LEMMA EngineInvInit == Init => EngineInv
<1> SUFFICES ASSUME Init PROVE EngineInv
  OBVIOUS
<1>1. \A d \in Devices : /\ val[d] \in Level(Kind[d])
                        /\ val[d] \in -1 .. 255
  BY ConfigAssumption, LevelBounds DEF Init
<1>2. val \in [Devices -> -1 .. 255]
  BY <1>1 DEF Init
<1>3. TypeOK
  BY <1>1, <1>2 DEF Init, TypeOK
<1>4. TimerHandles
  BY DEF Init, TimerHandles
<1> QED  BY <1>3, <1>4 DEF EngineInv

LEMMA PerformTyped ==
    ASSUME EngineInv, NEW a \in ActionRecords, NEW s \in Seq(Frames), Perform(a, s)
    PROVE  /\ val' \in [Devices -> -1 .. 255]
           /\ \A d \in Devices : val'[d] \in Level(Kind[d])
           /\ dir' \in [Devices -> 0 .. 1]
           /\ held' \in [Timers -> BOOLEAN]
           /\ armed' \in [Timers -> 0 .. 1]
           /\ stack' \in Seq(Frames)
           /\ TimerHandles'
<1> USE DEF EngineInv, TypeOK, TimerHandles
<1>0. a.dev \in Devices /\ a.type \in ActionTypes /\ a.opt \in -1 .. 255
  BY DEF ActionRecords
<1>1. CASE PerformTimer(a, s)
  <2>1. a.dev \in Timers
    BY <1>0, <1>1 DEF PerformTimer, Timers
  <2>2. held' = [held EXCEPT ![a.dev] = (a.type = "SET")]
    BY <1>1 DEF PerformTimer
  <2>3. armed' = [armed EXCEPT ![a.dev] = (IF held[a.dev] THEN @ - 1 ELSE @)
                                            + (IF a.type = "SET" THEN 1 ELSE 0)]
    BY <1>1 DEF PerformTimer
  <2>4. armed'[a.dev] = IF a.type = "SET" THEN 1 ELSE 0
    BY <2>1, <2>3
  <2>5. held' \in [Timers -> BOOLEAN]
    BY <2>2
  <2>6. armed' \in [Timers -> 0 .. 1]
    BY <2>1, <2>3, <2>4
  <2>7. TimerHandles'
    BY <2>1, <2>2, <2>3, <2>4
  <2> QED  BY <1>1, <2>5, <2>6, <2>7 DEF PerformTimer
<1>2. CASE PerformLevel(a, s)
  <2> DEFINE k == Kind[a.dev]
             new == After(k, a.type, a.opt, val[a.dev], dir[a.dev])
  <2>1. k \in Kinds
    BY <1>0, ConfigAssumption
  <2>2. new.val \in Level(k) /\ new.dir \in 0 .. 1
    BY <1>0, <1>2, <2>1, AfterLevel DEF PerformLevel
  <2>3. Level(k) \subseteq -1 .. 255
    BY <2>1, LevelBounds
  <2>4. /\ val' = [val EXCEPT ![a.dev] = new.val]
        /\ dir' = [dir EXCEPT ![a.dev] = new.dir]
        /\ UNCHANGED <<held, armed>>
    BY <1>2 DEF PerformLevel
  <2>5. stack' = s \/ stack' = Append(s, Frame(a.dev, RaisedEvent(k, new.val)))
    BY <1>2 DEF PerformLevel
  <2>6. stack' \in Seq(Frames)
    <3>1. Frame(a.dev, RaisedEvent(k, new.val)) \in Frames
      BY <1>0, RaisedIsEvent, FrameIsFrame
    <3>2. Append(s, Frame(a.dev, RaisedEvent(k, new.val))) \in Seq(Frames)
      <4> HIDE DEF new, k
      <4> QED  BY <3>1, StackOps
    <3> QED  BY <2>5, <3>2, Zenon
  <2> HIDE DEF new
  <2>7. val' \in [Devices -> -1 .. 255] /\ dir' \in [Devices -> 0 .. 1]
    BY <1>0, <2>2, <2>3, <2>4
  <2>8. \A d \in Devices : val'[d] \in Level(Kind[d])
    BY <1>0, <2>2, <2>4
  <2>9. held' \in [Timers -> BOOLEAN] /\ armed' \in [Timers -> 0 .. 1] /\ TimerHandles'
    BY <2>4
  <2> QED  BY <2>6, <2>7, <2>8, <2>9
<1> QED  BY <1>1, <1>2 DEF Perform

LEMMA RuleTyped ==
    ASSUME NEW r \in 1 .. Len(Rules)
    PROVE  /\ Len(Rules) \in Nat
           /\ Rules[r].dev \in Devices /\ Rules[r].ev \in EventTypes
           /\ Len(Rules[r].acts) \in Nat
           /\ \A i \in 1 .. Len(Rules[r].acts) : Rules[r].acts[i] \in ActionRecords
<1>1. Rules[r] \in RuleRecords /\ Len(Rules) \in Nat
  BY ConfigAssumption
<1>2. /\ Rules[r].dev \in Devices /\ Rules[r].ev \in EventTypes
      /\ Rules[r].acts \in Seq(ActionRecords)
  BY <1>1 DEF RuleRecords
<1> QED  BY <1>1, <1>2

LEMMA TopTyped ==
    ASSUME EngineInv, stack # <<>>
    PROVE  /\ Top \in Frames
           /\ Top.dev \in Devices /\ Top.ev \in EventTypes
           /\ Top.rule \in 1 .. Len(Rules) + 1 /\ Top.act \in Nat
           /\ \A f \in Frames : WithTop(f) \in Seq(Frames)
           /\ SubSeq(stack, 1, Len(stack) - 1) \in Seq(Frames)
<1>1. stack \in Seq(Frames)
  BY DEF EngineInv, TypeOK
<1>2. Top \in Frames
  BY <1>1 DEF Top
<1>3. \A f \in Frames : WithTop(f) \in Seq(Frames)
  BY <1>1, StackOps DEF WithTop
<1>4. SubSeq(stack, 1, Len(stack) - 1) \in Seq(Frames)
  BY <1>1, <1>2, StackOps
<1> QED  BY <1>2, <1>3, <1>4 DEF Frames

(* The three ways a walk moves its frame on.                               *)
LEMMA FrameMoves ==
    ASSUME NEW f \in Frames
    PROVE  /\ [f EXCEPT !.act = 1] \in Frames
           /\ [f EXCEPT !.act = @ + 1] \in Frames
           /\ f.rule <= Len(Rules) =>
                 /\ [f EXCEPT !.rule = @ + 1] \in Frames
                 /\ [f EXCEPT !.rule = @ + 1, !.act = 0] \in Frames
<1>0. Len(Rules) \in Nat
  BY ConfigAssumption
<1>1. /\ f.dev \in Devices /\ f.ev \in EventTypes
      /\ f.rule \in 1 .. Len(Rules) + 1 /\ f.act \in Nat
  BY DEF Frames
<1>2. f = [dev |-> f.dev, ev |-> f.ev, rule |-> f.rule, act |-> f.act]
  BY DEF Frames
<1>3. \A n \in Nat : [f EXCEPT !.act = n] \in Frames
  BY <1>1, <1>2 DEF Frames
<1>4. \A n \in 1 .. Len(Rules) + 1 :
         /\ [f EXCEPT !.rule = n] \in Frames
         /\ [f EXCEPT !.rule = n, !.act = 0] \in Frames
  BY <1>1, <1>2 DEF Frames
<1>5. f.act + 1 \in Nat
  BY <1>1
<1>6. f.rule <= Len(Rules) => f.rule + 1 \in 1 .. Len(Rules) + 1
  BY <1>0, <1>1
<1> QED  BY <1>3, <1>4, <1>5, <1>6

LEMMA EngineInvNext == EngineInv /\ [Next]_vars => EngineInv'
<1> SUFFICES ASSUME EngineInv, [Next]_vars PROVE EngineInv'
  OBVIOUS
<1>0. Len(Rules) \in Nat
  BY ConfigAssumption
<1>1. CASE PassRule
  <2>1. [Top EXCEPT !.rule = @ + 1] \in Frames
    BY <1>1, TopTyped, FrameMoves DEF PassRule, Walking
  <2>2. stack' \in Seq(Frames)
    BY <1>1, <2>1, TopTyped DEF PassRule, Walking
  <2> QED  BY <1>1, <2>2 DEF PassRule, EngineInv, TypeOK, TimerHandles
<1>2. CASE EnterRule
  <2>1. [Top EXCEPT !.act = 1] \in Frames
    BY <1>2, TopTyped, FrameMoves DEF EnterRule, Walking
  <2>2. stack' \in Seq(Frames)
    BY <1>2, <2>1, TopTyped DEF EnterRule, Walking
  <2> QED  BY <1>2, <2>2 DEF EnterRule, EngineInv, TypeOK, TimerHandles
<1>3. CASE RunAction
  <2>1. [Top EXCEPT !.act = @ + 1] \in Frames
    BY <1>3, TopTyped, FrameMoves DEF RunAction, Walking
  <2>2. WithTop([Top EXCEPT !.act = @ + 1]) \in Seq(Frames)
    BY <1>3, <2>1, TopTyped DEF RunAction, Walking
  <2>3. Top.rule \in 1 .. Len(Rules)
    BY <1>0, <1>3, TopTyped DEF RunAction, Walking
  <2>4. NextAction \in ActionRecords
    BY <1>3, <2>3, RuleTyped DEF RunAction, NextAction
  <2>5. Perform(NextAction, WithTop([Top EXCEPT !.act = @ + 1])) /\ UNCHANGED script
    BY <1>3 DEF RunAction
  <2> QED  BY <2>2, <2>4, <2>5, PerformTyped DEF EngineInv, TypeOK
<1>4. CASE LeaveRule
  <2>1. [Top EXCEPT !.rule = @ + 1, !.act = 0] \in Frames
    BY <1>4, TopTyped, FrameMoves DEF LeaveRule, Walking
  <2>2. stack' \in Seq(Frames)
    BY <1>4, <2>1, TopTyped DEF LeaveRule, Walking
  <2> QED  BY <1>4, <2>2 DEF LeaveRule, EngineInv, TypeOK, TimerHandles
<1>5. CASE Return
  <2>1. stack' \in Seq(Frames)
    BY <1>5, TopTyped DEF Return
  <2> QED  BY <1>5, <2>1 DEF Return, EngineInv, TypeOK, TimerHandles
<1>6. CASE Continue
  <2> DEFINE o == Head(script)
  <2>1. script \in Seq(Ops) /\ script # <<>>
    BY <1>6 DEF Continue, EngineInv, TypeOK
  <2>2. o \in Ops /\ script' \in Seq(Ops)
    BY <1>6, <2>1 DEF Continue
  <2>3. CASE o.op = "raise"
    <3>1. o.dev \in Devices /\ o.arg \in EventTypes
      BY <2>2, <2>3 DEF Ops
    <3>2. Frame(o.dev, o.arg) \in Frames
      BY <3>1, FrameIsFrame
    <3>3. stack' = <<Frame(o.dev, o.arg)>> /\ UNCHANGED <<val, dir, held, armed>>
      BY <1>6, <2>3 DEF Continue
    <3>4. stack' \in Seq(Frames)
      BY <3>2, <3>3
    <3> QED  BY <2>2, <3>3, <3>4 DEF EngineInv, TypeOK, TimerHandles
  <2>4. CASE o.op = "assign"
    <3>1. o.dev \in Buttons \cup Schedules /\ o.arg \in 0 .. 1
      BY <2>2, <2>4 DEF Ops
    <3>2. o.dev \in Devices /\ Level(Kind[o.dev]) = 0 .. 1
      BY <3>1 DEF Buttons, Schedules, Level
    <3>3. val' = [val EXCEPT ![o.dev] = o.arg] /\ UNCHANGED <<dir, held, armed, stack>>
      BY <1>6, <2>4 DEF Continue
    <3>4. val' \in [Devices -> -1 .. 255]
      BY <3>1, <3>2, <3>3 DEF EngineInv, TypeOK
    <3>5. \A d \in Devices : val'[d] \in Level(Kind[d])
      BY <3>1, <3>2, <3>3 DEF EngineInv, TypeOK
    <3> QED  BY <2>2, <3>3, <3>4, <3>5 DEF EngineInv, TypeOK, TimerHandles
  <2> QED  BY <1>6, <2>3, <2>4 DEF Continue
<1>7. ASSUME NEW c \in Commands, RemoteDo(c) PROVE EngineInv'
  <2>1. c \in ActionRecords
    BY ConfigAssumption
  <2>2. stack \in Seq(Frames) /\ Perform(c, stack) /\ UNCHANGED script
    BY <1>7 DEF RemoteDo, EngineInv, TypeOK
  <2> QED  BY <2>1, <2>2, PerformTyped DEF EngineInv, TypeOK
<1>8. ASSUME NEW d \in Buttons, Press(d) \/ Release(d) PROVE EngineInv'
  <2>1. d \in Devices
    BY DEF Buttons
  <2>2. /\ Assign(d, 0) \in Ops /\ Assign(d, 1) \in Ops
        /\ \A e \in EventTypes : Raise(d, e) \in Ops
    BY <2>1 DEF Assign, Raise, Ops
  <2>3. script' \in Seq(Ops)
    <3>1. CASE Press(d)
      BY <2>2, <3>1 DEF Press, EventTypes
    <3>2. CASE Release(d)
      <4>1. PICK e \in {"SHORT_PRESS", "LONG_PRESS"} :
               script' = <<Raise(d, "RELEASE"), Assign(d, 0), Raise(d, e)>>
        BY <3>2 DEF Release
      <4>2. /\ Raise(d, "RELEASE") \in Ops /\ Assign(d, 0) \in Ops
            /\ Raise(d, e) \in Ops
        BY <2>2 DEF EventTypes
      <4> QED  BY <4>1, <4>2
    <3> QED  BY <1>8, <3>1, <3>2
  <2>4. UNCHANGED <<val, dir, held, armed, stack>>
    BY <1>8 DEF Press, Release
  <2> QED  BY <2>3, <2>4 DEF EngineInv, TypeOK, TimerHandles
<1>9. ASSUME NEW t \in Timers, Timeout(t) PROVE EngineInv'
  <2>1. t \in Devices
    BY DEF Timers
  <2>2. Raise(t, "TIMEOUT") \in Ops
    BY <2>1 DEF Raise, Ops, EventTypes
  <2>3. script' \in Seq(Ops)
    BY <1>9, <2>2 DEF Timeout
  <2>4. /\ held' \in [Timers -> BOOLEAN] /\ armed' \in [Timers -> 0 .. 1]
        /\ TimerHandles'
    BY <1>9 DEF Timeout, EngineInv, TypeOK, TimerHandles
  <2>5. UNCHANGED <<val, dir, stack>>
    BY <1>9 DEF Timeout
  <2> QED  BY <2>3, <2>4, <2>5 DEF EngineInv, TypeOK
<1>10. ASSUME NEW d \in Schedules, ScheduleTick(d) PROVE EngineInv'
  <2>1. d \in Devices
    BY DEF Schedules
  <2>2. /\ Assign(d, 0) \in Ops /\ Assign(d, 1) \in Ops
        /\ \A e \in EventTypes : Raise(d, e) \in Ops
    BY <2>1 DEF Assign, Raise, Ops
  <2>3. script' \in Seq(Ops)
    BY <1>10, <2>2 DEF ScheduleTick, EventTypes
  <2>4. UNCHANGED <<val, dir, held, armed, stack>>
    BY <1>10 DEF ScheduleTick
  <2> QED  BY <2>3, <2>4 DEF EngineInv, TypeOK, TimerHandles
<1>11. CASE UNCHANGED vars
  BY <1>11 DEF vars, EngineInv, TypeOK, TimerHandles
<1> QED
  BY <1>1, <1>2, <1>3, <1>4, <1>5, <1>6, <1>7, <1>8, <1>9, <1>10, <1>11
     DEF Next, EngineStep

-----------------------------------------------------------------------------
(* Saves and restarts.  A file is either unreadable or a picture of typed  *)
(* levels, so a start gives every device a level of its type.              *)
HouseInv == EngineInv /\ HouseTypeOK

LEMMA SnapshotTyped ==
    ASSUME NEW v \in [Devices -> -1 .. 255], \A d \in Devices : v[d] \in Level(Kind[d])
    PROVE  Snapshot(v) \in FileRecords
<1>1. Stored \subseteq Devices
  BY DEF Stored
<1> QED  BY <1>1 DEF Snapshot, FileRecords

LEMMA StartTyped ==
    ASSUME file \in FileRecords \cup {NoFile}, NEW first \in FirstLevels
    PROVE  /\ StartLevels(first) \in [Devices -> -1 .. 255]
           /\ \A d \in Devices : StartLevels(first)[d] \in Level(Kind[d])
<1>1. \A d \in Devices : StartLevels(first)[d] \in Level(Kind[d])
  <2> TAKE d \in Devices
  <2>1. Kind[d] \in Kinds
    BY ConfigAssumption
  <2>2. CASE d \in Stored /\ file # NoFile
    BY <2>2 DEF StartLevels, FileRecords
  <2>3. CASE ~(d \in Stored /\ file # NoFile) /\ d \in Declared
    <3>1. first[d] \in InitialLevels(Kind[d])
      BY <2>3 DEF FirstLevels
    <3>2. StartLevels(first)[d] = first[d]
      BY <2>3 DEF StartLevels
    <3> QED  BY <2>1, <3>1, <3>2, LevelBounds
  <2>4. CASE ~(d \in Stored /\ file # NoFile) /\ d \notin Declared
    <3>1. StartLevels(first)[d] = 0
      BY <2>4 DEF StartLevels
    <3>2. 0 \in Level(Kind[d])
      BY <2>1 DEF Kinds, Level
    <3> QED  BY <3>1, <3>2
  <2> QED  BY <2>2, <2>3, <2>4
<1>2. \A d \in Devices : Level(Kind[d]) \subseteq -1 .. 255
  BY ConfigAssumption, LevelBounds
<1> QED  BY <1>1, <1>2 DEF StartLevels

LEMMA RestartTyped ==
    ASSUME HouseInv, Restarts
    PROVE  EngineInv' /\ file' \in FileRecords
<1>1. PICK first \in FirstLevels : val' = StartLevels(first)
  BY DEF Restarts
<1>2. /\ val' \in [Devices -> -1 .. 255]
      /\ \A d \in Devices : val'[d] \in Level(Kind[d])
  BY <1>1, StartTyped DEF HouseInv, HouseTypeOK
<1>3. file' \in FileRecords
  BY <1>2, SnapshotTyped DEF Restarts
<1>4. EngineInv'
  BY <1>2 DEF Restarts, EngineInv, TypeOK, TimerHandles
<1> QED  BY <1>3, <1>4

LEMMA HouseInvInit == HouseInit => HouseInv
<1> SUFFICES ASSUME HouseInit PROVE HouseInv
  OBVIOUS
<1>1. EngineInv
  BY EngineInvInit DEF HouseInit
<1>2. Snapshot(val) \in FileRecords
  BY <1>1, SnapshotTyped DEF EngineInv, TypeOK
<1> QED  BY <1>1, <1>2 DEF HouseInv, HouseTypeOK, HouseInit, EngineInv

LEMMA HouseInvNext == HouseInv /\ [HouseNext]_houseVars => HouseInv'
<1> SUFFICES ASSUME HouseInv, [HouseNext]_houseVars PROVE HouseInv'
  OBVIOUS
<1>1. CASE EngineNext
  <2>1. EngineInv'
    BY <1>1, EngineInvNext DEF EngineNext, HouseInv
  <2> QED  BY <1>1, <2>1 DEF EngineNext, HouseInv, HouseTypeOK, EngineInv
<1>2. CASE Save
  <2>1. EngineInv'
    BY <1>2, EngineInvNext DEF Save, HouseInv
  <2>2. Snapshot(val) \in FileRecords
    BY SnapshotTyped DEF HouseInv, EngineInv, TypeOK
  <2>3. file' \in FileRecords \cup {NoFile} /\ silent' = silent
    BY <1>2, <2>2 DEF Save
  <2> QED  BY <2>1, <2>3 DEF HouseInv, HouseTypeOK, EngineInv
<1>3. CASE Restarts
  <2>1. silent' = Stored
    BY <1>3 DEF Restarts
  <2> QED  BY <1>3, <2>1, RestartTyped DEF HouseInv, HouseTypeOK, EngineInv
<1>4. CASE UNCHANGED houseVars
  <2>1. EngineInv'
    BY <1>4, EngineInvNext DEF houseVars, HouseInv
  <2> QED  BY <1>4, <2>1 DEF houseVars, HouseInv, HouseTypeOK, EngineInv
<1> QED  BY <1>1, <1>2, <1>3, <1>4 DEF HouseNext

(* In every state the engine can reach, for any rule file whatsoever and   *)
(* after any number of restarts, the levels stay within their C types, the *)
(* walk within the rule list, and the state file can be read back.         *)
THEOREM TypeCorrect == HouseSpec => []HouseTypeOK
<1>1. HouseInv => HouseTypeOK
  BY DEF HouseInv
<1> QED  BY <1>1, HouseInvInit, HouseInvNext, PTL DEF HouseSpec

(* No TIMER ever loses track of a timer it armed or keeps a dead one, for  *)
(* any rule file, rules that re-arm a timer in its own TIMEOUT included.   *)
THEOREM TimersTracked == HouseSpec => []TimerHandles
<1>1. HouseInv => TimerHandles
  BY DEF HouseInv, EngineInv
<1> QED  BY <1>1, HouseInvInit, HouseInvNext, PTL DEF HouseSpec

-----------------------------------------------------------------------------
(* Layered rule files.  Sound(s, v) gathers what holds of a call stack s   *)
(* with the levels v; it survives the moves of the walk because an action  *)
(* either leaves every echoing device alone or acts on one whose rank is   *)
(* below that of all the devices on the stack.                             *)
FrameSound(f, i, v) ==
    /\ f.act > 0 => f.rule <= Len(Rules) /\ Matches(f)
    /\ Rank[f.dev] + i <= MaxRank + 1
    /\ Kind[f.dev] \in Echoing => f.ev = RaisedEvent(Kind[f.dev], v[f.dev])

Sound(s, v) ==
    /\ \A i \in 1 .. Len(s) : FrameSound(s[i], i, v)
    /\ \A i, j \in 1 .. Len(s) : i < j => Rank[s[j].dev] < Rank[s[i].dev]

(* Only push buttons, timers and schedules start a cascade of their own.   *)
ScriptSources ==
    \A i \in 1 .. Len(script) :
        script[i].op = "raise" => Kind[script[i].dev] \notin Echoing

RankInv == EngineInv /\ Sound(stack, val) /\ ScriptSources

LEMMA StackFrame ==
    ASSUME NEW s \in Seq(Frames), NEW i \in 1 .. Len(s)
    PROVE  /\ s[i].dev \in Devices
           /\ Rank[s[i].dev] \in 0 .. MaxRank
           /\ Rank[s[i].dev] \in Nat
<1>1. s[i] \in Frames
  OBVIOUS
<1>2. s[i].dev \in Devices
  BY <1>1 DEF Frames
<1> QED  BY <1>2, RankAssumption

LEMMA SoundMeans ==
    ASSUME RankInv
    PROVE  BoundedDepth /\ NoStaleEvent
<1>1. stack \in Seq(Frames) /\ Len(stack) \in Nat
  BY DEF RankInv, EngineInv, TypeOK
<1>2. BoundedDepth
  <2>1. CASE Len(stack) = 0
    BY <2>1, RankAssumption DEF BoundedDepth
  <2>2. CASE Len(stack) > 0
    <3>1. Len(stack) \in 1 .. Len(stack)
      BY <1>1, <2>2
    <3>2. Rank[stack[Len(stack)].dev] + Len(stack) <= MaxRank + 1
      BY <3>1 DEF RankInv, Sound, FrameSound
    <3>3. Rank[stack[Len(stack)].dev] \in 0 .. MaxRank
      BY <1>1, <3>1, StackFrame
    <3> QED  BY <1>1, <3>2, <3>3, RankAssumption DEF BoundedDepth
  <2> QED  BY <1>1, <2>1, <2>2
<1>3. NoStaleEvent
  BY DEF RankInv, Sound, FrameSound, NoStaleEvent
<1> QED  BY <1>2, <1>3

(* Moving the walk on changes neither device nor event of the frame.       *)
LEMMA SoundMove ==
    ASSUME RankInv, stack # <<>>, NEW f \in Frames,
           f.dev = Top.dev, f.ev = Top.ev,
           f.act > 0 => f.rule <= Len(Rules) /\ Matches(f)
    PROVE  /\ Sound(WithTop(f), val)
           /\ Len(WithTop(f)) = Len(stack)
           /\ WithTop(f)[Len(stack)] = f
<1>1. stack \in Seq(Frames) /\ Len(stack) \in Nat \ {0}
  BY StackOps DEF RankInv, EngineInv, TypeOK
<1>2. /\ Len(WithTop(f)) = Len(stack)
      /\ WithTop(f)[Len(stack)] = f
      /\ \A i \in 1 .. Len(stack) : i # Len(stack) => WithTop(f)[i] = stack[i]
  BY <1>1 DEF WithTop
<1>3. \A i \in 1 .. Len(stack) : /\ WithTop(f)[i].dev = stack[i].dev
                                  /\ WithTop(f)[i].ev = stack[i].ev
  BY <1>1, <1>2 DEF Top
<1>4. \A i \in 1 .. Len(stack) : FrameSound(WithTop(f)[i], i, val)
  <2> TAKE i \in 1 .. Len(stack)
  <2>1. FrameSound(stack[i], i, val)
    BY DEF RankInv, Sound
  <2> QED  BY <1>2, <1>3, <2>1 DEF FrameSound
<1> QED  BY <1>2, <1>3, <1>4 DEF RankInv, Sound

(* Setting a device that is on no echoing frame of the stack.              *)
LEMMA SoundSet ==
    ASSUME NEW s \in Seq(Frames), NEW v \in [Devices -> -1 .. 255],
           Sound(s, v), NEW d \in Devices, NEW x,
           \A i \in 1 .. Len(s) : s[i].dev = d => Kind[d] \notin Echoing
    PROVE  Sound(s, [v EXCEPT ![d] = x])
<1>1. \A i \in 1 .. Len(s) : FrameSound(s[i], i, [v EXCEPT ![d] = x])
  <2> TAKE i \in 1 .. Len(s)
  <2>1. FrameSound(s[i], i, v) /\ s[i].dev \in Devices
    BY StackFrame DEF Sound
  <2>2. Kind[s[i].dev] \in Echoing => [v EXCEPT ![d] = x][s[i].dev] = v[s[i].dev]
    BY <2>1
  <2> QED  BY <2>1, <2>2 DEF FrameSound
<1> QED  BY <1>1 DEF Sound

(* Calling into a dispatch for a device below all those on the stack.      *)
LEMMA SoundPush ==
    ASSUME NEW s \in Seq(Frames), NEW v, Sound(s, v),
           NEW d \in Devices, NEW e \in EventTypes,
           Kind[d] \in Echoing => e = RaisedEvent(Kind[d], v[d]),
           s # <<>> => Rank[d] < Rank[s[Len(s)].dev]
    PROVE  Sound(Append(s, Frame(d, e)), v)
<1> DEFINE t == Append(s, Frame(d, e))
<1>1. /\ Len(s) \in Nat /\ Len(t) = Len(s) + 1 /\ t[Len(s) + 1] = Frame(d, e)
      /\ \A i \in 1 .. Len(s) : t[i] = s[i]
  OBVIOUS
<1>2. Rank[d] \in Nat /\ Rank[d] <= MaxRank /\ MaxRank \in Nat
  BY RankAssumption
<1>3. \A i \in 1 .. Len(s) : Rank[d] < Rank[s[i].dev] /\ Rank[s[i].dev] \in Nat
  <2> TAKE i \in 1 .. Len(s)
  <2>1. Len(s) \in 1 .. Len(s) /\ s # <<>>
    BY <1>1
  <2>2. Rank[s[i].dev] \in Nat /\ Rank[s[Len(s)].dev] \in Nat
    BY <2>1, StackFrame
  <2>3. i # Len(s) => Rank[s[Len(s)].dev] < Rank[s[i].dev]
    BY <2>1 DEF Sound
  <2> QED  BY <1>2, <2>1, <2>2, <2>3
<1>4. Rank[d] + (Len(s) + 1) <= MaxRank + 1
  <2>1. CASE s = <<>>
    BY <1>2, <2>1
  <2>2. CASE s # <<>>
    <3>1. Len(s) \in 1 .. Len(s)
      BY <2>2
    <3>2. Rank[s[Len(s)].dev] + Len(s) <= MaxRank + 1
      BY <3>1 DEF Sound, FrameSound
    <3> QED  BY <1>1, <1>2, <1>3, <3>1, <3>2
  <2> QED  BY <2>1, <2>2
<1>5. FrameSound(t[Len(s) + 1], Len(s) + 1, v)
  <2>1. Frame(d, e).dev = d /\ Frame(d, e).ev = e /\ Frame(d, e).act = 0
    BY DEF Frame
  <2> HIDE DEF t
  <2> QED  BY <1>1, <1>4, <2>1 DEF FrameSound
<1>6. \A i \in 1 .. Len(t) : FrameSound(t[i], i, v)
  <2> HIDE DEF t
  <2> QED  BY <1>1, <1>5 DEF Sound
<1>7. \A i, j \in 1 .. Len(t) : i < j => Rank[t[j].dev] < Rank[t[i].dev]
  <2>1. Frame(d, e).dev = d
    BY DEF Frame
  <2> HIDE DEF t
  <2> SUFFICES ASSUME NEW i \in 1 .. Len(t), NEW j \in 1 .. Len(t), i < j
               PROVE  Rank[t[j].dev] < Rank[t[i].dev]
    OBVIOUS
  <2>2. i \in 1 .. Len(s) /\ t[i] = s[i]
    BY <1>1
  <2>3. CASE j = Len(s) + 1
    BY <1>1, <1>3, <2>1, <2>2, <2>3
  <2>4. CASE j # Len(s) + 1
    BY <1>1, <2>2, <2>4 DEF Sound
  <2> QED  BY <2>3, <2>4
<1> QED  BY <1>6, <1>7 DEF Sound

LEMMA PerformSound ==
    ASSUME RankInv, NEW a \in ActionRecords, NEW s \in Seq(Frames), Sound(s, val),
           Perform(a, s),
           s # <<>> /\ Kind[a.dev] \in Echoing => Rank[a.dev] < Rank[s[Len(s)].dev]
    PROVE  Sound(stack', val')
<1>0. a.dev \in Devices /\ val \in [Devices -> -1 .. 255]
  BY DEF ActionRecords, RankInv, EngineInv, TypeOK
<1>1. CASE PerformTimer(a, s)
  BY <1>1 DEF PerformTimer
<1>2. CASE PerformLevel(a, s)
  <2> DEFINE k == Kind[a.dev]
             new == After(k, a.type, a.opt, val[a.dev], dir[a.dev])
  <2>1. ASSUME NEW i \in 1 .. Len(s), s[i].dev = a.dev, k \in Echoing
        PROVE  FALSE
    <3>1. s # <<>> /\ Len(s) \in 1 .. Len(s)
      OBVIOUS
    <3>2. Rank[a.dev] < Rank[s[Len(s)].dev]
      BY <2>1, <3>1
    <3>3. i # Len(s) => Rank[s[Len(s)].dev] < Rank[s[i].dev]
      BY <3>1 DEF Sound
    <3>4. Rank[s[Len(s)].dev] \in Nat /\ Rank[s[i].dev] \in Nat
      BY <3>1, StackFrame
    <3> QED  BY <2>1, <3>2, <3>3, <3>4
  <2>2. val' = [val EXCEPT ![a.dev] = new.val]
    BY <1>2 DEF PerformLevel
  <2>3. Sound(s, val')
    <3> HIDE DEF new
    <3> QED  BY <1>0, <2>1, <2>2, SoundSet
  <2>4. CASE Raises(k, a.type, val[a.dev], new.val)
    <3>1. stack' = Append(s, Frame(a.dev, RaisedEvent(k, new.val)))
      BY <1>2, <2>4 DEF PerformLevel
    <3>2. k \in Echoing
      BY <2>4 DEF Raises, Echoing
    <3>3. RaisedEvent(k, new.val) = RaisedEvent(k, val'[a.dev])
      BY <1>0, <2>2
    <3>4. RaisedEvent(k, new.val) \in EventTypes
      BY RaisedIsEvent
    <3> HIDE DEF new
    <3> QED  BY <1>0, <2>3, <3>1, <3>2, <3>3, <3>4, SoundPush
  <2>5. CASE ~Raises(k, a.type, val[a.dev], new.val)
    <3>1. stack' = s
      BY <1>2, <2>5 DEF PerformLevel
    <3> QED  BY <2>3, <3>1
  <2> QED  BY <2>4, <2>5
<1> QED  BY <1>1, <1>2 DEF Perform

LEMMA RankInvInit == Init => RankInv
<1> SUFFICES ASSUME Init PROVE RankInv
  OBVIOUS
<1>1. stack = <<>> /\ script = <<>>
  BY DEF Init
<1> QED  BY <1>1, EngineInvInit DEF RankInv, Sound, ScriptSources

LEMMA RankInvNext == RankInv /\ [Next]_vars => RankInv'
<1> SUFFICES ASSUME RankInv, [Next]_vars PROVE RankInv'
  OBVIOUS
<1>a. EngineInv /\ EngineInv'
  BY EngineInvNext DEF RankInv
<1>b. Len(Rules) \in Nat
  BY ConfigAssumption
<1>c. stack # <<>> => /\ Len(stack) \in 1 .. Len(stack)
                      /\ FrameSound(Top, Len(stack), val)
                      /\ Top.dev \in Devices
                      /\ Top \in Frames
  <2> SUFFICES ASSUME stack # <<>>
               PROVE  /\ Len(stack) \in 1 .. Len(stack)
                      /\ FrameSound(Top, Len(stack), val)
                      /\ Top.dev \in Devices
                      /\ Top \in Frames
    OBVIOUS
  <2>1. Len(stack) \in 1 .. Len(stack)
    BY <1>a DEF EngineInv, TypeOK
  <2> QED  BY <1>a, <2>1, TopTyped DEF RankInv, Sound, Top
<1>1. CASE PassRule
  <2> DEFINE f == [Top EXCEPT !.rule = @ + 1]
  <2>1. stack # <<>> /\ Top.act = 0 /\ Top.rule <= Len(Rules)
    BY <1>1 DEF PassRule, Walking
  <2>2. f \in Frames /\ f.dev = Top.dev /\ f.ev = Top.ev /\ f.act = 0
    BY <1>c, <2>1, FrameMoves DEF Frames
  <2>3. stack' = WithTop(f) /\ UNCHANGED <<val, script>>
    BY <1>1 DEF PassRule
  <2>4. Sound(WithTop(f), val)
    <3> HIDE DEF f
    <3> QED  BY <2>1, <2>2, SoundMove
  <2> QED  BY <1>a, <2>3, <2>4 DEF RankInv, ScriptSources
<1>2. CASE EnterRule
  <2> DEFINE f == [Top EXCEPT !.act = 1]
  <2>1. stack # <<>> /\ Top.rule <= Len(Rules) /\ Matches(Top)
    BY <1>2 DEF EnterRule, Walking
  <2>2. f \in Frames /\ f.dev = Top.dev /\ f.ev = Top.ev /\ f.rule = Top.rule
    BY <1>c, <2>1, FrameMoves DEF Frames
  <2>3. stack' = WithTop(f) /\ UNCHANGED <<val, script>>
    BY <1>2 DEF EnterRule
  <2>4. Sound(WithTop(f), val)
    <3> HIDE DEF f
    <3> QED  BY <2>1, <2>2, SoundMove DEF Matches
  <2> QED  BY <1>a, <2>3, <2>4 DEF RankInv, ScriptSources
<1>3. CASE RunAction
  <2> DEFINE f == [Top EXCEPT !.act = @ + 1]
             s == WithTop(f)
             a == NextAction
  <2>1. /\ stack # <<>> /\ Top.rule <= Len(Rules)
        /\ Top.act \in 1 .. Len(Rules[Top.rule].acts)
    BY <1>3 DEF RunAction, Walking
  <2>2. Matches(Top)
    BY <1>c, <2>1 DEF FrameSound
  <2>3. f \in Frames /\ f.dev = Top.dev /\ f.ev = Top.ev /\ f.rule = Top.rule
    BY <1>c, <2>1, FrameMoves DEF Frames
  <2>4. Sound(s, val) /\ Len(s) = Len(stack) /\ s[Len(s)] = f
    <3> HIDE DEF f
    <3> QED  BY <2>1, <2>2, <2>3, SoundMove DEF Matches
  <2>5. Top.rule \in 1 .. Len(Rules)
    BY <1>b, <1>c, <2>1 DEF Frames
  <2>6. a \in ActionRecords
    BY <2>1, <2>5, RuleTyped DEF NextAction
  <2>7. Kind[a.dev] \in Echoing => Rank[a.dev] < Rank[Top.dev]
    BY <2>1, <2>2, <2>5, RankAssumption DEF NextAction, Matches
  <2>8. s \in Seq(Frames)
    <3> HIDE DEF f
    <3> QED  BY <1>a, <2>1, <2>3, TopTyped
  <2>9. Perform(a, s) /\ UNCHANGED script
    BY <1>3 DEF RunAction
  <2>10. Sound(stack', val')
    <3> HIDE DEF f, s, a
    <3> QED  BY <2>3, <2>4, <2>6, <2>7, <2>8, <2>9, PerformSound
  <2> QED  BY <1>a, <2>9, <2>10 DEF RankInv, ScriptSources
<1>4. CASE LeaveRule
  <2> DEFINE f == [Top EXCEPT !.rule = @ + 1, !.act = 0]
  <2>1. stack # <<>> /\ Top.rule <= Len(Rules)
    BY <1>4 DEF LeaveRule, Walking
  <2>2. f \in Frames /\ f.dev = Top.dev /\ f.ev = Top.ev /\ f.act = 0
    BY <1>c, <2>1, FrameMoves DEF Frames
  <2>3. stack' = WithTop(f) /\ UNCHANGED <<val, script>>
    BY <1>4 DEF LeaveRule
  <2>4. Sound(WithTop(f), val)
    <3> HIDE DEF f
    <3> QED  BY <2>1, <2>2, SoundMove
  <2> QED  BY <1>a, <2>3, <2>4 DEF RankInv, ScriptSources
<1>5. CASE Return
  <2>1. /\ stack # <<>> /\ stack' = SubSeq(stack, 1, Len(stack) - 1)
        /\ UNCHANGED <<val, script>>
    BY <1>5 DEF Return
  <2>2. stack \in Seq(Frames) /\ Len(stack) \in Nat \ {0}
    BY <1>a, <2>1 DEF EngineInv, TypeOK
  <2>3. /\ Len(stack') = Len(stack) - 1
        /\ \A i \in 1 .. Len(stack) - 1 : stack'[i] = stack[i]
    <3> DEFINE n == Len(stack) - 1
    <3>1. n \in Nat /\ n <= Len(stack)
      BY <2>2
    <3>2. \A i \in 1 .. n : i \in Nat /\ 1 + i - 1 = i
      OBVIOUS
    <3> HIDE DEF n
    <3>3. Len(SubSeq(stack, 1, n)) = n
      BY <2>2, <3>1
    <3>4. \A i \in 1 .. n : SubSeq(stack, 1, n)[i] = stack[i]
      BY <2>2, <3>1, <3>2
    <3> USE DEF n
    <3> QED  BY <2>1, <3>3, <3>4
  <2>4. Sound(stack', val)
    <3>1. 1 .. Len(stack') \subseteq 1 .. Len(stack)
      BY <2>2, <2>3
    <3>2. \A i \in 1 .. Len(stack') : stack'[i] = stack[i]
      BY <2>3
    <3> QED  BY <3>1, <3>2 DEF RankInv, Sound
  <2> QED  BY <1>a, <2>1, <2>4 DEF RankInv, ScriptSources
<1>6. CASE Continue
  <2> DEFINE o == Head(script)
  <2>1. script \in Seq(Ops) /\ script # <<>> /\ script' = Tail(script) /\ stack = <<>>
    BY <1>6, <1>a DEF Continue, EngineInv, TypeOK
  <2>2. o \in Ops /\ o = script[1] /\ 1 \in 1 .. Len(script)
    BY <2>1
  <2>3. ScriptSources'
    <3>1. Len(script') = Len(script) - 1
      BY <2>1
    <3>2. \A i \in 1 .. Len(script') : script'[i] = script[i + 1] /\ i + 1 \in 1 .. Len(script)
      BY <2>1, <3>1
    <3> QED  BY <3>2 DEF RankInv, ScriptSources
  <2>4. CASE o.op = "raise"
    <3>1. o.dev \in Devices /\ o.arg \in EventTypes
      BY <2>2, <2>4 DEF Ops
    <3>2. Kind[o.dev] \notin Echoing
      BY <2>2, <2>4 DEF RankInv, ScriptSources
    <3>3. stack' = <<Frame(o.dev, o.arg)>> /\ val' = val
      BY <1>6, <2>4 DEF Continue
    <3>4. Sound(Append(<<>>, Frame(o.dev, o.arg)), val)
      <4>1. Sound(<<>>, val)
        BY DEF Sound
      <4>2. <<>> \in Seq(Frames)
        OBVIOUS
      <4> HIDE DEF o
      <4> QED  BY <3>1, <3>2, <4>1, <4>2, SoundPush
    <3>5. Append(<<>>, Frame(o.dev, o.arg)) = <<Frame(o.dev, o.arg)>>
      OBVIOUS
    <3> QED  BY <1>a, <2>3, <3>3, <3>4, <3>5 DEF RankInv
  <2>5. CASE o.op = "assign"
    <3>1. stack' = <<>>
      BY <1>6, <2>1, <2>5 DEF Continue
    <3>2. Sound(stack', val')
      BY <3>1 DEF Sound
    <3> QED  BY <1>a, <2>3, <3>2 DEF RankInv
  <2> QED  BY <1>6, <2>4, <2>5 DEF Continue
<1>7. ASSUME NEW c \in Commands, RemoteDo(c) PROVE RankInv'
  <2>1. stack = <<>> /\ stack \in Seq(Frames) /\ Perform(c, stack) /\ UNCHANGED script
    BY <1>7, <1>a DEF RemoteDo, Resting, EngineInv, TypeOK
  <2>2. c \in ActionRecords
    BY ConfigAssumption
  <2>3. Sound(stack', val')
    BY <2>1, <2>2, PerformSound DEF RankInv
  <2> QED  BY <1>a, <2>1, <2>3 DEF RankInv, ScriptSources
<1>8. ASSUME NEW d \in Devices, Kind[d] \notin Echoing,
             script' \in Seq(Ops), UNCHANGED <<val, stack>>,
             \A i \in 1 .. Len(script') : script'[i].op = "raise" => script'[i].dev = d
      PROVE  RankInv'
  BY <1>8, <1>a DEF RankInv, ScriptSources
<1>9. ASSUME NEW d \in Buttons, Press(d) \/ Release(d) PROVE RankInv'
  <2>1. d \in Devices /\ Kind[d] \notin Echoing
    BY DEF Buttons, Echoing
  <2>2. script' \in Seq(Ops) /\ UNCHANGED <<val, stack>>
    BY <1>9, <1>a DEF Press, Release, EngineInv, TypeOK
  <2>3. \A i \in 1 .. Len(script') : script'[i].op = "raise" => script'[i].dev = d
    <3>1. \A e : Raise(d, e).dev = d
      BY DEF Raise
    <3>2. \A v : Assign(d, v).op # "raise"
      BY DEF Assign
    <3>3. CASE Press(d)
      BY <3>1, <3>2, <3>3 DEF Press
    <3>4. CASE Release(d)
      BY <3>1, <3>2, <3>4 DEF Release
    <3> QED  BY <1>9, <3>3, <3>4
  <2> QED  BY <1>8, <2>1, <2>2, <2>3
<1>10. ASSUME NEW t \in Timers, Timeout(t) PROVE RankInv'
  <2>1. t \in Devices /\ Kind[t] \notin Echoing
    BY DEF Timers, Echoing
  <2>2. script' \in Seq(Ops) /\ UNCHANGED <<val, stack>>
    BY <1>10, <1>a DEF Timeout, EngineInv, TypeOK
  <2>3. \A i \in 1 .. Len(script') : script'[i].op = "raise" => script'[i].dev = t
    BY <1>10 DEF Timeout, Raise
  <2> QED  BY <1>8, <2>1, <2>2, <2>3
<1>11. ASSUME NEW d \in Schedules, ScheduleTick(d) PROVE RankInv'
  <2>1. d \in Devices /\ Kind[d] \notin Echoing
    BY DEF Schedules, Echoing
  <2>2. script' \in Seq(Ops) /\ UNCHANGED <<val, stack>>
    BY <1>11, <1>a DEF ScheduleTick, EngineInv, TypeOK
  <2>3. \A i \in 1 .. Len(script') : script'[i].op = "raise" => script'[i].dev = d
    BY <1>11 DEF ScheduleTick, Raise, Assign
  <2> QED  BY <1>8, <2>1, <2>2, <2>3
<1>12. CASE UNCHANGED vars
  BY <1>12, <1>a DEF vars, RankInv, Sound, ScriptSources
<1> QED
  BY <1>1, <1>2, <1>3, <1>4, <1>5, <1>6, <1>7, <1>9, <1>10, <1>11, <1>12
     DEF Next, EngineStep

(* A start empties the call stack, so it cannot leave a stale frame.       *)
RankHouseInv == RankInv /\ HouseInv

LEMMA RankHouseInvInit == HouseInit => RankHouseInv
  BY RankInvInit, HouseInvInit DEF RankHouseInv, HouseInit

LEMMA RankHouseInvNext == RankHouseInv /\ [HouseNext]_houseVars => RankHouseInv'
<1> SUFFICES ASSUME RankHouseInv, [HouseNext]_houseVars PROVE RankHouseInv'
  OBVIOUS
<1>0. HouseInv' /\ RankInv
  BY HouseInvNext DEF RankHouseInv
<1>1. CASE EngineNext
  BY <1>0, <1>1, RankInvNext DEF EngineNext, RankHouseInv
<1>2. CASE Save
  BY <1>0, <1>2, RankInvNext DEF Save, RankHouseInv
<1>3. CASE Restarts
  <2>1. stack' = <<>> /\ script' = <<>>
    BY <1>3 DEF Restarts
  <2>2. Sound(stack', val') /\ ScriptSources'
    BY <2>1 DEF Sound, ScriptSources
  <2> QED  BY <1>0, <2>2 DEF RankHouseInv, RankInv, HouseInv
<1>4. CASE UNCHANGED houseVars
  BY <1>0, <1>4, RankInvNext DEF houseVars, RankHouseInv
<1> QED  BY <1>1, <1>2, <1>3, <1>4 DEF HouseNext

(* With a layered rule file the recursion of engine_trigger_event is no    *)
(* deeper than the layers, whatever the devices, rules and commands.       *)
THEOREM DepthBounded == HouseSpec => []BoundedDepth
<1>1. RankHouseInv => BoundedDepth
  BY SoundMeans DEF RankHouseInv
<1> QED  BY <1>1, RankHouseInvInit, RankHouseInvNext, PTL DEF HouseSpec

(* With a layered rule file no rule acts on a SET or UNSET that an earlier *)
(* rule or a nested dispatch has already undone.                           *)
THEOREM EventsFresh == HouseSpec => []NoStaleEvent
<1>1. RankHouseInv => NoStaleEvent
  BY SoundMeans DEF RankHouseInv
<1> QED  BY <1>1, RankHouseInvInit, RankHouseInvNext, PTL DEF HouseSpec

-----------------------------------------------------------------------------
(* What a walk cannot miss.  An action t on x, in a rule for the event of  *)
(* frame f that has no conditions, is ahead of f until f has run it; Bound *)
(* says so of a frame for event e of d on the call stack s.                *)
Ahead(f, x, t) ==
    \E r \in 1 .. Len(Rules) :
        /\ Rules[r].dev = f.dev /\ Rules[r].ev = f.ev /\ Rules[r].conds = <<>>
        /\ \E i \in ActionsOf(r) :
              /\ Rules[r].acts[i].dev = x /\ Rules[r].acts[i].type = t
              /\ f.rule < r \/ (f.rule = r /\ f.act <= i)

Bound(s, d, e, x, t) ==
    \E i \in 1 .. Len(s) : s[i].dev = d /\ s[i].ev = e /\ Ahead(s[i], x, t)

(* A new dispatch has everything ahead of it.                              *)
LEMMA AheadAtFirst ==
    ASSUME NEW d, NEW e, NEW x, NEW t, Sure(d, e, x, t)
    PROVE  Ahead(Frame(d, e), x, t)
<1>1. PICK r \in 1 .. Len(Rules) :
         /\ Rules[r].dev = d /\ Rules[r].ev = e /\ Rules[r].conds = <<>>
         /\ \E i \in ActionsOf(r) : Rules[r].acts[i].dev = x /\ Rules[r].acts[i].type = t
  BY DEF Sure
<1>2. PICK i \in ActionsOf(r) : Rules[r].acts[i].dev = x /\ Rules[r].acts[i].type = t
  BY <1>1
<1>3. r \in Nat \ {0} /\ i \in Nat \ {0}
  BY RuleTyped DEF ActionsOf
<1>4. Frame(d, e).rule < r \/ (Frame(d, e).rule = r /\ Frame(d, e).act <= i)
  BY <1>3 DEF Frame
<1>5. Frame(d, e).dev = d /\ Frame(d, e).ev = e
  BY DEF Frame
<1> HIDE DEF Frame
<1> QED  BY <1>1, <1>2, <1>4, <1>5 DEF Ahead

(* The walk passes over no rule without conditions, and leaves none before *)
(* its last action.                                                        *)
LEMMA AheadMoves ==
    ASSUME EngineInv, Walking, NEW x, NEW t, Ahead(Top, x, t)
    PROVE  /\ Top.act = 0 /\ ~(Matches(Top) /\ ConditionsHold(Top.rule))
                 => Ahead([Top EXCEPT !.rule = @ + 1], x, t)
           /\ Top.act = 0 => Ahead([Top EXCEPT !.act = 1], x, t)
           /\ Top.act > Len(Rules[Top.rule].acts)
                 => Ahead([Top EXCEPT !.rule = @ + 1, !.act = 0], x, t)
           /\ ~(NextAction.dev = x /\ NextAction.type = t)
                 => Ahead([Top EXCEPT !.act = @ + 1], x, t)
<1>1. PICK r \in 1 .. Len(Rules) :
         /\ Rules[r].dev = Top.dev /\ Rules[r].ev = Top.ev /\ Rules[r].conds = <<>>
         /\ \E i \in ActionsOf(r) :
               /\ Rules[r].acts[i].dev = x /\ Rules[r].acts[i].type = t
               /\ Top.rule < r \/ (Top.rule = r /\ Top.act <= i)
  BY DEF Ahead
<1>2. PICK i \in ActionsOf(r) :
         /\ Rules[r].acts[i].dev = x /\ Rules[r].acts[i].type = t
         /\ Top.rule < r \/ (Top.rule = r /\ Top.act <= i)
  BY <1>1
<1>3. /\ stack # <<>> /\ Top.rule \in Nat /\ Top.act \in Nat /\ Top \in Frames
      /\ r \in Nat \ {0} /\ i \in Nat \ {0} /\ i <= Len(Rules[r].acts)
      /\ Len(Rules[r].acts) \in Nat
  BY TopTyped, RuleTyped DEF ActionsOf, Walking
<1>4. Top = [dev |-> Top.dev, ev |-> Top.ev, rule |-> Top.rule, act |-> Top.act]
  BY <1>3 DEF Frames
<1>5. ASSUME NEW n \in Nat, NEW k \in Nat, n < r \/ (n = r /\ k <= i),
             NEW f, f.dev = Top.dev, f.ev = Top.ev, f.rule = n, f.act = k
      PROVE  Ahead(f, x, t)
  BY <1>1, <1>2, <1>5 DEF Ahead
<1>6. ASSUME Top.act = 0, ~(Matches(Top) /\ ConditionsHold(Top.rule))
      PROVE  Ahead([Top EXCEPT !.rule = @ + 1], x, t)
  <2>1. ASSUME Top.rule = r PROVE FALSE
    <3>1. Matches(Top)
      BY <1>1, <2>1 DEF Matches
    <3>2. Len(Rules[r].conds) = 0
      BY <1>1
    <3>3. ConditionsHold(Top.rule)
      BY <2>1, <3>2 DEF ConditionsHold
    <3> QED  BY <1>6, <3>1, <3>3
  <2>2. Top.rule < r
    BY <1>2, <2>1
  <2>3. Top.rule + 1 < r \/ (Top.rule + 1 = r /\ 0 <= i)
    BY <1>3, <2>2
  <2>4. Top.rule + 1 \in Nat /\ 0 \in Nat
    BY <1>3
  <2>5. [Top EXCEPT !.rule = @ + 1]
          = [dev |-> Top.dev, ev |-> Top.ev, rule |-> Top.rule + 1, act |-> 0]
    BY <1>4, <1>6
  <2> QED  BY <1>5, <2>3, <2>4, <2>5
<1>7. ASSUME Top.act = 0 PROVE Ahead([Top EXCEPT !.act = 1], x, t)
  <2>1. [Top EXCEPT !.act = 1]
          = [dev |-> Top.dev, ev |-> Top.ev, rule |-> Top.rule, act |-> 1]
    BY <1>4
  <2>2. Top.rule < r \/ (Top.rule = r /\ 1 <= i)
    BY <1>2, <1>3
  <2> QED  BY <1>3, <1>5, <2>1, <2>2
<1>8. ASSUME Top.act > Len(Rules[Top.rule].acts)
      PROVE  Ahead([Top EXCEPT !.rule = @ + 1, !.act = 0], x, t)
  <2>1. Top.rule < r
    BY <1>2, <1>3, <1>8
  <2> DEFINE f == [Top EXCEPT !.rule = @ + 1, !.act = 0]
  <2>2. f.dev = Top.dev /\ f.ev = Top.ev /\ f.rule = Top.rule + 1 /\ f.act = 0
    BY <1>3 DEF Frames
  <2>3. Top.rule + 1 < r \/ (Top.rule + 1 = r /\ 0 <= i)
    BY <1>3, <2>1
  <2>4. Top.rule + 1 \in Nat /\ 0 \in Nat
    BY <1>3
  <2> HIDE DEF f
  <2>5. Ahead(f, x, t)
    BY <1>5, <2>2, <2>3, <2>4
  <2> QED  BY <2>5 DEF f
<1>9. ASSUME ~(NextAction.dev = x /\ NextAction.type = t)
      PROVE  Ahead([Top EXCEPT !.act = @ + 1], x, t)
  <2>1. [Top EXCEPT !.act = @ + 1]
          = [dev |-> Top.dev, ev |-> Top.ev, rule |-> Top.rule, act |-> Top.act + 1]
    BY <1>4
  <2>2. ~(Top.rule = r /\ Top.act = i)
    BY <1>2, <1>9 DEF NextAction
  <2>3. Top.rule < r \/ (Top.rule = r /\ Top.act + 1 <= i)
    BY <1>2, <1>3, <2>2
  <2>4. Top.act + 1 \in Nat
    BY <1>3
  <2> QED  BY <1>3, <1>5, <2>1, <2>3, <2>4
<1> QED  BY <1>6, <1>7, <1>8, <1>9

(* Moving the innermost frame on leaves the frames below it alone.         *)
LEMMA TopMoves ==
    ASSUME EngineInv, stack # <<>>, NEW f \in Frames
    PROVE  /\ WithTop(f) \in Seq(Frames) /\ Len(WithTop(f)) = Len(stack)
           /\ Len(stack) \in 1 .. Len(stack)
           /\ WithTop(f)[Len(stack)] = f
           /\ \A i \in 1 .. Len(stack) : i # Len(stack) => WithTop(f)[i] = stack[i]
<1>1. stack \in Seq(Frames) /\ Len(stack) \in Nat \ {0}
  BY StackOps DEF EngineInv, TypeOK
<1>2. WithTop(f) \in Seq(Frames)
  BY TopTyped
<1> QED  BY <1>1, <1>2 DEF WithTop

LEMMA BoundMoves ==
    ASSUME EngineInv, stack # <<>>, NEW f \in Frames, f.dev = Top.dev, f.ev = Top.ev,
           NEW d, NEW e, NEW x, NEW t, Bound(stack, d, e, x, t),
           Top.dev = d /\ Top.ev = e /\ Ahead(Top, x, t) => Ahead(f, x, t)
    PROVE  Bound(WithTop(f), d, e, x, t)
<1>1. PICK i \in 1 .. Len(stack) :
         stack[i].dev = d /\ stack[i].ev = e /\ Ahead(stack[i], x, t)
  BY DEF Bound
<1>2. CASE i = Len(stack)
  <2>1. stack[i] = Top
    BY <1>2 DEF Top
  <2>2. f.dev = d /\ f.ev = e /\ Ahead(f, x, t)
    BY <1>1, <2>1
  <2> QED  BY <2>2, TopMoves DEF Bound
<1>3. CASE i # Len(stack)
  BY <1>1, <1>3, TopMoves DEF Bound
<1> QED  BY <1>2, <1>3

(* What is left when the innermost frame returns.                          *)
LEMMA Popped ==
    ASSUME NEW s \in Seq(Frames), s # <<>>
    PROVE  /\ Len(SubSeq(s, 1, Len(s) - 1)) = Len(s) - 1
           /\ \A i \in 1 .. Len(s) : i # Len(s) =>
                 /\ i \in 1 .. Len(SubSeq(s, 1, Len(s) - 1))
                 /\ SubSeq(s, 1, Len(s) - 1)[i] = s[i]
<1> DEFINE n == Len(s) - 1
<1>1. n \in Nat /\ n <= Len(s) /\ Len(s) \in Nat
  OBVIOUS
<1>2. \A i \in 1 .. n : i \in Nat /\ 1 + i - 1 = i
  BY <1>1
<1>3. \A i \in 1 .. Len(s) : i # Len(s) => i \in 1 .. n
  BY <1>1
<1> HIDE DEF n
<1>4. Len(SubSeq(s, 1, n)) = n
  BY <1>1
<1>5. \A i \in 1 .. n : SubSeq(s, 1, n)[i] = s[i]
  BY <1>1, <1>2
<1> USE DEF n
<1> QED  BY <1>3, <1>4, <1>5

(* What a frame has ahead of it stays there until it is run, whatever      *)
(* nested dispatches do in between.                                        *)
LEMMA WalkKeeps ==
    ASSUME EngineInv, PassRule \/ EnterRule \/ LeaveRule \/ Return,
           NEW d, NEW e, NEW x, NEW t, Bound(stack, d, e, x, t)
    PROVE  Bound(stack', d, e, x, t)
<1>1. CASE PassRule
  <2>1. Walking /\ stack # <<>> /\ Top.rule <= Len(Rules)
    BY <1>1 DEF PassRule, Walking
  <2>2. Top \in Frames /\ Top.act = 0 /\ ~(Matches(Top) /\ ConditionsHold(Top.rule))
    BY <1>1, <2>1, TopTyped DEF PassRule
  <2> DEFINE f == [Top EXCEPT !.rule = @ + 1]
  <2>3. f \in Frames /\ f.dev = Top.dev /\ f.ev = Top.ev
    BY <2>1, <2>2, FrameMoves DEF Frames
  <2>4. Ahead(Top, x, t) => Ahead(f, x, t)
    BY <2>1, <2>2, AheadMoves
  <2>5. stack' = WithTop(f)
    BY <1>1 DEF PassRule
  <2> HIDE DEF f
  <2> QED  BY <2>1, <2>3, <2>4, <2>5, BoundMoves
<1>2. CASE EnterRule
  <2>1. Walking /\ stack # <<>> /\ Top.rule <= Len(Rules)
    BY <1>2 DEF EnterRule, Walking
  <2>2. Top \in Frames /\ Top.act = 0
    BY <1>2, <2>1, TopTyped DEF EnterRule
  <2> DEFINE f == [Top EXCEPT !.act = 1]
  <2>3. f \in Frames /\ f.dev = Top.dev /\ f.ev = Top.ev
    BY <2>1, <2>2, FrameMoves DEF Frames
  <2>4. Ahead(Top, x, t) => Ahead(f, x, t)
    BY <2>1, <2>2, AheadMoves
  <2>5. stack' = WithTop(f)
    BY <1>2 DEF EnterRule
  <2> HIDE DEF f
  <2> QED  BY <2>1, <2>3, <2>4, <2>5, BoundMoves
<1>3. CASE LeaveRule
  <2>1. Walking /\ stack # <<>> /\ Top.rule <= Len(Rules)
    BY <1>3 DEF LeaveRule, Walking
  <2>2. Top \in Frames /\ Top.act > Len(Rules[Top.rule].acts)
    BY <1>3, <2>1, TopTyped DEF LeaveRule
  <2> DEFINE f == [Top EXCEPT !.rule = @ + 1, !.act = 0]
  <2>3. f \in Frames /\ f.dev = Top.dev /\ f.ev = Top.ev
    BY <2>1, <2>2, FrameMoves DEF Frames
  <2>4. Ahead(Top, x, t) => Ahead(f, x, t)
    BY <2>1, <2>2, AheadMoves
  <2>5. stack' = WithTop(f)
    BY <1>3 DEF LeaveRule
  <2> HIDE DEF f
  <2> QED  BY <2>1, <2>3, <2>4, <2>5, BoundMoves
<1>4. CASE Return
  <2>1. stack # <<>> /\ Top.rule > Len(Rules) /\ stack' = SubSeq(stack, 1, Len(stack) - 1)
    BY <1>4 DEF Return
  <2>2. stack \in Seq(Frames) /\ Len(stack) \in Nat \ {0}
    BY <2>1, StackOps DEF EngineInv, TypeOK
  <2>3. PICK i \in 1 .. Len(stack) :
           stack[i].dev = d /\ stack[i].ev = e /\ Ahead(stack[i], x, t)
    BY DEF Bound
  <2>4. i # Len(stack)
    <3>1. Top.rule \in Nat /\ Len(Rules) \in Nat
      BY <2>1, TopTyped, ConfigAssumption
    <3>2. ~Ahead(Top, x, t)
      BY <2>1, <3>1 DEF Ahead
    <3> QED  BY <2>3, <3>2 DEF Top
  <2>5. i \in 1 .. Len(stack') /\ stack'[i] = stack[i]
    BY <2>1, <2>2, <2>4, Popped
  <2> QED  BY <2>3, <2>5 DEF Bound
<1> QED  BY <1>1, <1>2, <1>3, <1>4

(* An action takes only itself from what is ahead.                         *)
LEMMA ActionKeeps ==
    ASSUME EngineInv, RunAction, NEW d, NEW e, NEW x, NEW t, Bound(stack, d, e, x, t),
           ~(Top.dev = d /\ Top.ev = e /\ NextAction.dev = x /\ NextAction.type = t)
    PROVE  Bound(WithTop([Top EXCEPT !.act = @ + 1]), d, e, x, t)
<1>1. Walking /\ stack # <<>>
  BY DEF RunAction, Walking
<1>2. Top \in Frames
  BY <1>1, TopTyped
<1> DEFINE f == [Top EXCEPT !.act = @ + 1]
<1>3. f \in Frames /\ f.dev = Top.dev /\ f.ev = Top.ev
  BY <1>2, FrameMoves DEF Frames
<1>4. Top.dev = d /\ Top.ev = e /\ Ahead(Top, x, t) => Ahead(f, x, t)
  BY <1>1, AheadMoves
<1> HIDE DEF f
<1> QED  BY <1>1, <1>3, <1>4, BoundMoves DEF f

LEMMA BoundAppend ==
    ASSUME NEW s \in Seq(Frames), NEW f \in Frames, NEW d, NEW e, NEW x, NEW t,
           Bound(s, d, e, x, t) \/ (f.dev = d /\ f.ev = e /\ Ahead(f, x, t))
    PROVE  Bound(Append(s, f), d, e, x, t)
<1>1. /\ Len(s) \in Nat /\ Len(Append(s, f)) = Len(s) + 1
      /\ Append(s, f)[Len(s) + 1] = f /\ \A i \in 1 .. Len(s) : Append(s, f)[i] = s[i]
  OBVIOUS
<1> HIDE DEF Ahead
<1>2. CASE Bound(s, d, e, x, t)
  <2>1. PICK i \in 1 .. Len(s) : s[i].dev = d /\ s[i].ev = e /\ Ahead(s[i], x, t)
    BY <1>2 DEF Bound
  <2>2. i \in 1 .. Len(Append(s, f)) /\ Append(s, f)[i] = s[i]
    BY <1>1
  <2> QED  BY <2>1, <2>2 DEF Bound
<1>3. CASE f.dev = d /\ f.ev = e /\ Ahead(f, x, t)
  <2>1. Len(s) + 1 \in 1 .. Len(Append(s, f))
    BY <1>1
  <2> QED  BY <1>1, <1>3, <2>1 DEF Bound
<1> QED  BY <1>2, <1>3

-----------------------------------------------------------------------------
(* What every walk keeps, for any rule file.  A rule that has just been    *)
(* entered is that of the innermost frame, and its conditions still hold;  *)
(* frames below the innermost one are past the action they have called.    *)
Granted(r, v) ==
    \A i \in 1 .. Len(Rules[r].conds) :
        LET c == Rules[r].conds[i] IN Holds(Kind[c.dev], c.type, v[c.dev])

JustEntered ==
    \A i \in 1 .. Len(stack) :
        stack[i].act = 1 => i = Len(stack) /\ Granted(stack[i].rule, val)

WalkInv == HouseInv /\ FramesFollowRules /\ JustEntered

(* A call stack none of whose frames has just entered a rule.              *)
Calm(s) ==
    \A i \in 1 .. Len(s) :
        /\ s[i].act # 1
        /\ s[i].act > 0 => s[i].rule <= Len(Rules) /\ Matches(s[i])

LEMMA CalmIsWell ==
    ASSUME Calm(stack)'
    PROVE  FramesFollowRules' /\ JustEntered'
  BY DEF Calm, FramesFollowRules, JustEntered

LEMMA CalmMoves ==
    ASSUME WalkInv, stack # <<>>, NEW f \in Frames, f.act # 1,
           f.act > 0 => f.rule <= Len(Rules) /\ Matches(f)
    PROVE  Calm(WithTop(f))
<1> SUFFICES ASSUME NEW i \in 1 .. Len(WithTop(f))
             PROVE  /\ WithTop(f)[i].act # 1
                    /\ WithTop(f)[i].act > 0 =>
                          WithTop(f)[i].rule <= Len(Rules) /\ Matches(WithTop(f)[i])
  BY DEF Calm
<1>0. EngineInv /\ i \in 1 .. Len(stack)
  BY TopMoves DEF WalkInv, HouseInv
<1>1. CASE i = Len(stack)
  BY <1>0, <1>1, TopMoves
<1>2. CASE i # Len(stack)
  <2>1. WithTop(f)[i] = stack[i]
    BY <1>0, <1>2, TopMoves
  <2> QED  BY <1>0, <1>2, <2>1 DEF WalkInv, FramesFollowRules, JustEntered
<1> QED  BY <1>1, <1>2

LEMMA CalmAppend ==
    ASSUME NEW s \in Seq(Frames), Calm(s), NEW d, NEW e
    PROVE  Calm(Append(s, Frame(d, e)))
<1> DEFINE t == Append(s, Frame(d, e))
<1>1. /\ Len(s) \in Nat /\ Len(t) = Len(s) + 1 /\ t[Len(s) + 1] = Frame(d, e)
      /\ \A i \in 1 .. Len(s) : t[i] = s[i]
  OBVIOUS
<1>2. Frame(d, e).act = 0
  BY DEF Frame
<1> HIDE DEF t
<1>3. \A i \in 1 .. Len(t) : i = Len(s) + 1 \/ i \in 1 .. Len(s)
  BY <1>1
<1>4. Calm(t)
  BY <1>1, <1>2, <1>3 DEF Calm
<1> QED  BY <1>4 DEF t

(* What an action leaves on the call stack.                                *)
LEMMA PerformStack ==
    ASSUME EngineInv, NEW a \in ActionRecords, NEW s \in Seq(Frames), Perform(a, s)
    PROVE  \/ stack' = s
           \/ /\ Kind[a.dev] \in Echoing
              /\ RaisedEvent(Kind[a.dev], val'[a.dev]) \in {"SET", "UNSET"}
              /\ Frame(a.dev, RaisedEvent(Kind[a.dev], val'[a.dev])) \in Frames
              /\ stack' = Append(s, Frame(a.dev, RaisedEvent(Kind[a.dev], val'[a.dev])))
<1>0. a.dev \in Devices /\ val \in [Devices -> -1 .. 255]
  BY DEF ActionRecords, EngineInv, TypeOK
<1>1. CASE PerformTimer(a, s)
  BY <1>1 DEF PerformTimer
<1>2. CASE PerformLevel(a, s)
  <2> DEFINE k == Kind[a.dev]
             new == After(k, a.type, a.opt, val[a.dev], dir[a.dev])
  <2>1. val' = [val EXCEPT ![a.dev] = new.val]
    BY <1>2 DEF PerformLevel
  <2>2. CASE Raises(k, a.type, val[a.dev], new.val)
    <3>1. stack' = Append(s, Frame(a.dev, RaisedEvent(k, new.val)))
      BY <1>2, <2>2 DEF PerformLevel
    <3>2. k \in Echoing
      BY <2>2 DEF Raises, Echoing
    <3>3. new.val = val'[a.dev]
      BY <1>0, <2>1
    <3>4. RaisedEvent(k, val'[a.dev]) \in {"SET", "UNSET"}
      BY DEF RaisedEvent
    <3>5. Frame(a.dev, RaisedEvent(k, val'[a.dev])) \in Frames
      BY <1>0, <3>4, FrameIsFrame DEF EventTypes
    <3> QED  BY <3>1, <3>2, <3>3, <3>4, <3>5
  <2>3. CASE ~Raises(k, a.type, val[a.dev], new.val)
    BY <1>2, <2>3 DEF PerformLevel
  <2> QED  BY <2>2, <2>3
<1> QED  BY <1>1, <1>2 DEF Perform

(* A step that runs an action, and the stack it calls the action with.     *)
Advanced == [Top EXCEPT !.act = @ + 1]

LEMMA ActionRuns ==
    ASSUME WalkInv, RunAction
    PROVE  /\ stack # <<>> /\ Top.rule \in 1 .. Len(Rules) /\ Matches(Top)
           /\ Top.act \in ActionsOf(Top.rule) /\ Top.act \in Nat \ {0}
           /\ NextAction \in ActionRecords /\ NextAction = Rules[Top.rule].acts[Top.act]
           /\ Advanced \in Frames /\ Advanced.dev = Top.dev /\ Advanced.ev = Top.ev
           /\ Advanced.rule = Top.rule /\ Advanced.act = Top.act + 1
           /\ WithTop(Advanced) \in Seq(Frames)
           /\ Perform(NextAction, WithTop(Advanced)) /\ UNCHANGED script
           /\ Top.dev = stack[Len(stack)].dev /\ Len(stack) \in 1 .. Len(stack)
<1>0. EngineInv
  BY DEF WalkInv, HouseInv
<1>1. /\ stack # <<>> /\ Top.rule <= Len(Rules) /\ UNCHANGED script
      /\ Top.act \in 1 .. Len(Rules[Top.rule].acts)
      /\ Perform(NextAction, WithTop(Advanced))
  BY DEF RunAction, Walking, Advanced
<1>2. Top \in Frames /\ Top.rule \in 1 .. Len(Rules) /\ Top.act \in Nat \ {0}
  BY <1>0, <1>1, TopTyped, ConfigAssumption
<1>3. NextAction \in ActionRecords /\ NextAction = Rules[Top.rule].acts[Top.act]
  BY <1>1, <1>2, RuleTyped DEF NextAction
<1>4. /\ Advanced \in Frames /\ Advanced.dev = Top.dev /\ Advanced.ev = Top.ev
      /\ Advanced.rule = Top.rule /\ Advanced.act = Top.act + 1
  BY <1>2, FrameMoves DEF Advanced, Frames
<1>5. WithTop(Advanced) \in Seq(Frames) /\ Len(stack) \in 1 .. Len(stack)
  BY <1>0, <1>1, <1>4, TopMoves
<1>6. Matches(Top)
  BY <1>2, <1>5 DEF WalkInv, FramesFollowRules, Top
<1> QED  BY <1>1, <1>2, <1>3, <1>4, <1>5, <1>6 DEF ActionsOf, Top

LEMMA WalkInvInit == HouseInit => WalkInv
<1> SUFFICES ASSUME HouseInit PROVE WalkInv
  OBVIOUS
<1>1. stack = <<>>
  BY DEF HouseInit, Init
<1> QED  BY <1>1, HouseInvInit DEF WalkInv, FramesFollowRules, JustEntered

LEMMA WalkInvNext == WalkInv /\ [HouseNext]_houseVars => WalkInv'
<1> SUFFICES ASSUME WalkInv, [HouseNext]_houseVars PROVE WalkInv'
  OBVIOUS
<1>0. HouseInv' /\ EngineInv /\ stack \in Seq(Frames) /\ Calm(<<>>)
  BY HouseInvNext DEF WalkInv, HouseInv, EngineInv, TypeOK, Calm
<1> SUFFICES FramesFollowRules' /\ JustEntered'
  BY <1>0 DEF WalkInv
<1>1. CASE PassRule
  <2>1. stack # <<>> /\ Top.rule <= Len(Rules) /\ Top.act = 0
    BY <1>1 DEF PassRule, Walking
  <2> DEFINE f == [Top EXCEPT !.rule = @ + 1]
  <2>2. f \in Frames /\ f.act = 0
    BY <1>0, <2>1, TopTyped, FrameMoves DEF Frames
  <2>3. stack' = WithTop(f)
    BY <1>1 DEF PassRule
  <2> HIDE DEF f
  <2>4. Calm(stack')
    BY <2>1, <2>2, <2>3, CalmMoves
  <2> QED  BY <2>4, CalmIsWell
<1>2. CASE EnterRule
  <2>1. stack # <<>> /\ Top.rule <= Len(Rules) /\ Matches(Top) /\ ConditionsHold(Top.rule)
    BY <1>2 DEF EnterRule, Walking
  <2> DEFINE f == [Top EXCEPT !.act = 1]
  <2>2. f \in Frames /\ f.act = 1 /\ f.rule = Top.rule /\ f.dev = Top.dev /\ f.ev = Top.ev
    BY <1>0, <2>1, TopTyped, FrameMoves DEF Frames
  <2>3. stack' = WithTop(f) /\ UNCHANGED val
    BY <1>2 DEF EnterRule
  <2>4. Granted(f.rule, val')
    <3>1. Granted(Top.rule, val)
      BY <2>1 DEF ConditionsHold, Granted
    <3> QED  BY <2>2, <2>3, <3>1
  <2>5. f.rule <= Len(Rules) /\ Matches(f)
    BY <2>1, <2>2 DEF Matches
  <2> HIDE DEF f
  <2>6. ASSUME NEW i \in 1 .. Len(stack')
        PROVE  /\ stack'[i].act > 0 => stack'[i].rule <= Len(Rules) /\ Matches(stack'[i])
               /\ stack'[i].act = 1 => i = Len(stack') /\ Granted(stack'[i].rule, val')
    <3>1. i \in 1 .. Len(stack) /\ Len(stack') = Len(stack)
      BY <1>0, <2>1, <2>2, <2>3, TopMoves
    <3>2. CASE i = Len(stack)
      <4>1. stack'[i] = f
        BY <1>0, <2>1, <2>2, <2>3, <3>2, TopMoves
      <4> QED  BY <2>4, <2>5, <3>1, <3>2, <4>1
    <3>3. CASE i # Len(stack)
      <4>1. stack'[i] = stack[i]
        BY <1>0, <2>1, <2>2, <2>3, <3>1, <3>3, TopMoves
      <4> QED  BY <2>3, <3>1, <3>3, <4>1 DEF WalkInv, FramesFollowRules, JustEntered
    <3> QED  BY <3>2, <3>3
  <2> QED  BY <2>6 DEF FramesFollowRules, JustEntered
<1>3. CASE RunAction
  <2>1. stack # <<>> /\ Advanced \in Frames /\ Advanced.act # 1 /\ Matches(Advanced)
        /\ Advanced.rule <= Len(Rules)
    BY <1>3, ActionRuns DEF Matches
  <2>2. Calm(WithTop(Advanced))
    BY <2>1, CalmMoves
  <2>3. WithTop(Advanced) \in Seq(Frames) /\ NextAction \in ActionRecords
        /\ Perform(NextAction, WithTop(Advanced))
    BY <1>3, ActionRuns
  <2>4. Calm(stack')
    <3> DEFINE s == WithTop(Advanced)
               a == NextAction
    <3> HIDE DEF s, a
    <3>1. \/ stack' = s
          \/ stack' = Append(s, Frame(a.dev, RaisedEvent(Kind[a.dev], val'[a.dev])))
      BY <1>0, <2>3, PerformStack DEF s, a
    <3> QED  BY <2>2, <2>3, <3>1, CalmAppend DEF s
  <2> QED  BY <2>4, CalmIsWell
<1>4. CASE LeaveRule
  <2>1. stack # <<>> /\ Top.rule <= Len(Rules)
    BY <1>4 DEF LeaveRule, Walking
  <2> DEFINE f == [Top EXCEPT !.rule = @ + 1, !.act = 0]
  <2>2. f \in Frames /\ f.act = 0
    BY <1>0, <2>1, TopTyped, FrameMoves DEF Frames
  <2>3. stack' = WithTop(f)
    BY <1>4 DEF LeaveRule
  <2> HIDE DEF f
  <2>4. Calm(stack')
    BY <2>1, <2>2, <2>3, CalmMoves
  <2> QED  BY <2>4, CalmIsWell
<1>5. CASE Return
  <2>1. stack # <<>> /\ stack' = SubSeq(stack, 1, Len(stack) - 1)
    BY <1>5 DEF Return
  <2>2. /\ Len(stack') = Len(stack) - 1 /\ Len(stack) \in Nat
        /\ \A i \in 1 .. Len(stack) : i # Len(stack) => stack'[i] = stack[i]
    BY <1>0, <2>1, Popped
  <2>3. \A i \in 1 .. Len(stack') : i \in 1 .. Len(stack) /\ i # Len(stack) /\ stack'[i] = stack[i]
    BY <2>2
  <2>4. Calm(stack')
    BY <2>3 DEF Calm, WalkInv, FramesFollowRules, JustEntered
  <2> QED  BY <2>4, CalmIsWell
<1>6. CASE Continue
  <2>1. stack' = <<>> \/ stack' = <<Frame(Head(script).dev, Head(script).arg)>>
    BY <1>6 DEF Continue
  <2>2. <<Frame(Head(script).dev, Head(script).arg)>>
          = Append(<<>>, Frame(Head(script).dev, Head(script).arg))
    OBVIOUS
  <2>3. <<>> \in Seq(Frames)
    OBVIOUS
  <2>4. Calm(stack')
    BY <1>0, <2>1, <2>2, <2>3, CalmAppend
  <2> QED  BY <2>4, CalmIsWell
<1>7. ASSUME NEW c \in Commands, RemoteDo(c)
      PROVE  FramesFollowRules' /\ JustEntered'
  <2>1. stack = <<>> /\ Perform(c, stack) /\ c \in ActionRecords
    BY <1>7, ConfigAssumption DEF RemoteDo, Resting
  <2>2. \/ stack' = stack
        \/ stack' = Append(stack, Frame(c.dev, RaisedEvent(Kind[c.dev], val'[c.dev])))
    BY <1>0, <2>1, PerformStack
  <2>3. Calm(stack')
    BY <1>0, <2>1, <2>2, CalmAppend
  <2> QED  BY <2>3, CalmIsWell
<1>8. CASE stack' = <<>>
  <2>1. Calm(stack')
    BY <1>0, <1>8
  <2> QED  BY <2>1, CalmIsWell
<1>9. CASE UNCHANGED vars
  BY <1>9 DEF vars, WalkInv, FramesFollowRules, JustEntered
<1>10. (\E d \in Buttons : Press(d) \/ Release(d)) \/ (\E t \in Timers : Timeout(t))
          \/ (\E d \in Schedules : ScheduleTick(d)) \/ Restarts
        => stack' = <<>>
  BY DEF Press, Release, Timeout, ScheduleTick, Resting, Restarts
<1>11. Save => UNCHANGED vars
  BY DEF Save
<1> QED
  BY <1>1, <1>2, <1>3, <1>4, <1>5, <1>6, <1>7, <1>8, <1>9, <1>10, <1>11
     DEF HouseNext, EngineNext, Next, EngineStep, houseVars

-----------------------------------------------------------------------------
(* Dispatches end.  On its layer a dispatch is alone; moving it on, ending *)
(* it, or starting one on a lower layer leaves the layers above as they    *)
(* are.                                                                    *)
LEMMA LayerOfTop ==
    ASSUME RankInv, stack # <<>>
    PROVE  /\ Rank[Top.dev] \in 0 .. MaxRank /\ Top \in Layer(stack, Rank[Top.dev])
           /\ \A i \in 1 .. Len(stack) :
                 Rank[stack[i].dev] = Rank[Top.dev] => i = Len(stack)
<1>1. /\ stack \in Seq(Frames) /\ Len(stack) \in 1 .. Len(stack)
      /\ Top = stack[Len(stack)] /\ Len(stack) \in Nat
  <2>1. stack \in Seq(Frames) /\ Len(stack) \in Nat \ {0}
    BY StackOps DEF RankInv, EngineInv, TypeOK
  <2> QED  BY <2>1 DEF Top
<1>2. Rank[Top.dev] \in 0 .. MaxRank
  BY <1>1, StackFrame
<1>3. ASSUME NEW i \in 1 .. Len(stack), Rank[stack[i].dev] = Rank[Top.dev] PROVE i = Len(stack)
  <2> SUFFICES ASSUME i # Len(stack) PROVE FALSE
    OBVIOUS
  <2>1. i < Len(stack)
    BY <1>1
  <2>2. Rank[Top.dev] < Rank[stack[i].dev]
    BY <1>1, <2>1 DEF RankInv, Sound
  <2> QED  BY <1>2, <1>3, <2>2
<1> QED  BY <1>1, <1>2, <1>3 DEF Layer

LEMMA LayerMoved ==
    ASSUME RankInv, stack # <<>>, NEW f \in Frames, f.dev = Top.dev
    PROVE  /\ Layer(WithTop(f), Rank[Top.dev]) = {f}
           /\ \A q : q # Rank[Top.dev] => Layer(WithTop(f), q) = Layer(stack, q)
<1> DEFINE n == Len(stack)
           t == WithTop(f)
<1>1. /\ n \in 1 .. n /\ Top = stack[n] /\ Len(t) = n /\ t[n] = f
      /\ \A i \in 1 .. n : i # n => t[i] = stack[i]
  BY TopMoves DEF RankInv, Top
<1>2. \A i \in 1 .. n : t[i].dev = stack[i].dev
  BY <1>1
<1> HIDE DEF t, n
<1>3. \A i \in 1 .. n : Rank[t[i].dev] = Rank[Top.dev] => i = n
  BY <1>2, LayerOfTop DEF n
<1>4. Layer(t, Rank[Top.dev]) = {f}
  BY <1>1, <1>2, <1>3 DEF Layer
<1>5. ASSUME NEW q, q # Rank[Top.dev] PROVE Layer(t, q) = Layer(stack, q)
  <2>1. \A i \in 1 .. n : Rank[t[i].dev] = q => i # n
    BY <1>1, <1>2, <1>5
  <2> QED  BY <1>1, <1>2, <2>1 DEF Layer, n
<1> QED  BY <1>4, <1>5 DEF t

LEMMA LayerPushed ==
    ASSUME NEW s \in Seq(Frames), NEW f \in Frames, NEW q, Rank[f.dev] # q
    PROVE  Layer(Append(s, f), q) = Layer(s, q)
<1> DEFINE t == Append(s, f)
<1>1. /\ Len(s) \in Nat /\ Len(t) = Len(s) + 1 /\ t[Len(s) + 1] = f
      /\ \A i \in 1 .. Len(s) : t[i] = s[i] /\ i \in 1 .. Len(t)
  OBVIOUS
<1> HIDE DEF t
<1>2. \A i \in 1 .. Len(t) : Rank[t[i].dev] = q => i \in 1 .. Len(s)
  BY <1>1
<1>3. Layer(t, q) = Layer(s, q)
  BY <1>1, <1>2 DEF Layer
<1> QED  BY <1>3 DEF t

(* A step that moves the innermost dispatch on, perhaps into a lower one.  *)
Shrinks ==
    \E r \in 0 .. MaxRank :
        /\ \E f \in Layer(stack, r) : \A g \in Layer(stack', r) : Passed(f, g)
        /\ \A q \in r + 1 .. MaxRank : Layer(stack', q) = Layer(stack, q)

LEMMA MoveShrinks ==
    ASSUME RankInv, stack # <<>>, NEW f \in Frames, f.dev = Top.dev, Passed(Top, f),
           \/ stack' = WithTop(f)
           \/ \E g \in Frames : /\ stack' = Append(WithTop(f), g)
                                /\ Rank[g.dev] < Rank[Top.dev]
    PROVE  Shrinks
<1>1. /\ Rank[Top.dev] \in 0 .. MaxRank /\ Top \in Layer(stack, Rank[Top.dev])
      /\ Layer(WithTop(f), Rank[Top.dev]) = {f}
      /\ \A q : q # Rank[Top.dev] => Layer(WithTop(f), q) = Layer(stack, q)
  BY LayerOfTop, LayerMoved
<1>2. \A q \in Rank[Top.dev] + 1 .. MaxRank : q # Rank[Top.dev] /\ q > Rank[Top.dev] /\ q \in Nat
  BY <1>1
<1>3. CASE stack' = WithTop(f)
  BY <1>1, <1>2, <1>3 DEF Shrinks
<1>4. ASSUME NEW g \in Frames, stack' = Append(WithTop(f), g), Rank[g.dev] < Rank[Top.dev]
      PROVE  Shrinks
  <2>1. WithTop(f) \in Seq(Frames)
    BY TopMoves DEF RankInv
  <2>2. Rank[g.dev] \in Nat /\ Rank[Top.dev] \in Nat
    BY <1>1, RankAssumption DEF Frames
  <2>3. \A q : Rank[g.dev] # q => Layer(stack', q) = Layer(WithTop(f), q)
    BY <1>4, <2>1, LayerPushed
  <2>4. Rank[g.dev] # Rank[Top.dev] /\ \A q \in Rank[Top.dev] + 1 .. MaxRank : Rank[g.dev] # q
    BY <1>2, <1>4, <2>2
  <2> QED  BY <1>1, <1>2, <2>3, <2>4 DEF Shrinks
<1> QED  BY <1>3, <1>4

LEMMA StepShrinks ==
    ASSUME RankInv, EngineStep
    PROVE  Len(script') < Len(script) \/ (script' = script /\ Shrinks)
<1>0. EngineInv /\ Len(Rules) \in Nat
  BY ConfigAssumption DEF RankInv
<1>1. CASE PassRule
  <2> DEFINE f == [Top EXCEPT !.rule = @ + 1]
  <2>1. /\ stack # <<>> /\ Top.rule <= Len(Rules) /\ Top.act = 0
        /\ stack' = WithTop(f) /\ script' = script
    BY <1>1 DEF PassRule, Walking
  <2>2. Top \in Frames /\ Top.rule \in Nat
    BY <1>0, <2>1, TopTyped DEF Frames
  <2>3. f \in Frames /\ f.dev = Top.dev /\ f.rule = Top.rule + 1
    BY <2>1, <2>2, FrameMoves DEF Frames
  <2>4. Passed(Top, f)
    BY <2>2, <2>3 DEF Passed
  <2> HIDE DEF f
  <2> QED  BY <2>1, <2>3, <2>4, MoveShrinks
<1>2. CASE EnterRule
  <2> DEFINE f == [Top EXCEPT !.act = 1]
  <2>1. /\ stack # <<>> /\ Top.rule <= Len(Rules) /\ Top.act = 0
        /\ stack' = WithTop(f) /\ script' = script
    BY <1>2 DEF EnterRule, Walking
  <2>2. Top \in Frames /\ Top.rule \in 1 .. Len(Rules)
    BY <1>0, <2>1, TopTyped DEF Frames
  <2>3. f \in Frames /\ f.dev = Top.dev /\ f.rule = Top.rule /\ f.act = 1
    BY <2>1, <2>2, FrameMoves DEF Frames
  <2>4. Len(Rules[Top.rule].acts) \in Nat
    BY <2>2, RuleTyped
  <2>5. Passed(Top, f)
    BY <2>1, <2>3, <2>4 DEF Passed
  <2> HIDE DEF f
  <2> QED  BY <2>1, <2>3, <2>5, MoveShrinks
<1>3. CASE LeaveRule
  <2> DEFINE f == [Top EXCEPT !.rule = @ + 1, !.act = 0]
  <2>1. /\ stack # <<>> /\ Top.rule <= Len(Rules)
        /\ stack' = WithTop(f) /\ script' = script
    BY <1>3 DEF LeaveRule, Walking
  <2>2. Top \in Frames /\ Top.rule \in Nat
    BY <1>0, <2>1, TopTyped DEF Frames
  <2>3. f \in Frames /\ f.dev = Top.dev /\ f.rule = Top.rule + 1
    BY <2>1, <2>2, FrameMoves DEF Frames
  <2>4. Passed(Top, f)
    BY <2>2, <2>3 DEF Passed
  <2> HIDE DEF f
  <2> QED  BY <2>1, <2>3, <2>4, MoveShrinks
<1>4. CASE RunAction
  <2> DEFINE f == [Top EXCEPT !.act = @ + 1]
             c == NextAction
  <2>1. /\ stack # <<>> /\ Top.rule <= Len(Rules) /\ script' = script
        /\ Top.act \in 1 .. Len(Rules[Top.rule].acts)
        /\ Perform(c, WithTop(f))
    BY <1>4 DEF RunAction, Walking
  <2>2. Top \in Frames /\ Top.rule \in 1 .. Len(Rules) /\ Top.act \in Nat
    BY <1>0, <2>1, TopTyped DEF Frames
  <2>3. f \in Frames /\ f.dev = Top.dev /\ f.rule = Top.rule /\ f.act = Top.act + 1
    BY <2>2, FrameMoves DEF Frames
  <2>4. Len(Rules[Top.rule].acts) \in Nat
    BY <2>2, RuleTyped
  <2>5. Passed(Top, f)
    BY <2>1, <2>2, <2>3, <2>4 DEF Passed
  <2>6. c \in ActionRecords /\ c = Rules[Top.rule].acts[Top.act]
    BY <2>1, <2>2, RuleTyped DEF NextAction
  <2>7. Rules[Top.rule].dev = Top.dev
    <3>1. FrameSound(Top, Len(stack), val)
      BY <1>0, <2>1, TopMoves, <2>3 DEF RankInv, Sound, Top
    <3> QED  BY <2>1, <2>2, <3>1 DEF FrameSound, Matches
  <2>8. Kind[c.dev] \in Echoing => Rank[c.dev] < Rank[Top.dev]
    BY <2>1, <2>2, <2>6, <2>7, RankAssumption
  <2>9. WithTop(f) \in Seq(Frames)
    BY <1>0, <2>1, <2>3, TopMoves
  <2> HIDE DEF f, c
  <2>10. CASE stack' = WithTop(f)
    BY <2>1, <2>3, <2>5, <2>10, MoveShrinks
  <2>11. CASE stack' # WithTop(f)
    <3> DEFINE g == Frame(c.dev, RaisedEvent(Kind[c.dev], val'[c.dev]))
    <3>1. Kind[c.dev] \in Echoing /\ g \in Frames /\ stack' = Append(WithTop(f), g)
      BY <1>0, <2>1, <2>6, <2>9, <2>11, PerformStack
    <3>2. g.dev = c.dev
      BY DEF Frame
    <3> HIDE DEF g
    <3>3. Rank[g.dev] < Rank[Top.dev]
      BY <2>8, <3>1, <3>2
    <3> QED  BY <2>1, <2>3, <2>5, <3>1, <3>3, MoveShrinks
  <2> QED  BY <2>10, <2>11
<1>5. CASE Return
  <2>1. /\ stack # <<>> /\ stack' = SubSeq(stack, 1, Len(stack) - 1) /\ script' = script
    BY <1>5 DEF Return
  <2>2. stack \in Seq(Frames) /\ Len(stack) \in Nat
    BY DEF RankInv, EngineInv, TypeOK
  <2>3. /\ Len(stack') = Len(stack) - 1
        /\ \A i \in 1 .. Len(stack) :
              i # Len(stack) => i \in 1 .. Len(stack') /\ stack'[i] = stack[i]
    BY <2>1, <2>2, Popped
  <2>4. \A i \in 1 .. Len(stack') :
           i \in 1 .. Len(stack) /\ i # Len(stack) /\ stack'[i] = stack[i]
    BY <2>2, <2>3
  <2>5. /\ Rank[Top.dev] \in 0 .. MaxRank /\ Top \in Layer(stack, Rank[Top.dev])
        /\ \A i \in 1 .. Len(stack) :
              Rank[stack[i].dev] = Rank[Top.dev] => i = Len(stack)
    BY <2>1, LayerOfTop
  <2>6. Layer(stack', Rank[Top.dev]) = {}
    BY <2>4, <2>5 DEF Layer
  <2>7. ASSUME NEW q \in Rank[Top.dev] + 1 .. MaxRank PROVE Layer(stack', q) = Layer(stack, q)
    <3>1. q # Rank[Top.dev]
      BY <2>5
    <3>2. \A i \in 1 .. Len(stack) : Rank[stack[i].dev] = q => i # Len(stack)
      BY <3>1 DEF Top
    <3> QED  BY <2>3, <2>4, <3>2 DEF Layer
  <2> QED  BY <2>1, <2>5, <2>6, <2>7 DEF Shrinks
<1>6. CASE Continue
  <2>1. script # <<>> /\ script' = Tail(script) /\ script \in Seq(Ops)
    BY <1>0, <1>6 DEF Continue, EngineInv, TypeOK
  <2>2. Len(Tail(script)) = Len(script) - 1 /\ Len(script) \in Nat
    BY <2>1
  <2>3. Len(script') = Len(Tail(script))
    BY <2>1
  <2>4. Len(script') < Len(script)
    BY <2>2, <2>3
  <2> QED  BY <2>4
<1> QED  BY <1>1, <1>2, <1>3, <1>4, <1>5, <1>6 DEF EngineStep

(* With a layered rule file every dispatch ends: each step of one leaves   *)
(* less to do, in an order in which it cannot become less for ever.        *)
THEOREM DispatchesEnd == HouseSpec => WorkShrinks
<1>1. RankHouseInv /\ [HouseNext]_houseVars
        => [EngineStep =>
              \/ Len(script') < Len(script)
              \/ /\ script' = script
                 /\ \E r \in 0 .. MaxRank :
                       /\ \E f \in Layer(stack, r) : \A g \in Layer(stack', r) : Passed(f, g)
                       /\ \A q \in r + 1 .. MaxRank : Layer(stack', q) = Layer(stack, q)]_vars
  BY StepShrinks DEF RankHouseInv, Shrinks
<1> QED  BY <1>1, RankHouseInvInit, RankHouseInvNext, PTL DEF HouseSpec, WorkShrinks

-----------------------------------------------------------------------------
(* What the steps do to one device.                                        *)
LEMMA PerformElsewhere ==
    ASSUME EngineInv, NEW a \in ActionRecords, NEW s, Perform(a, s),
           NEW d \in Devices, d # a.dev
    PROVE  /\ val'[d] = val[d] /\ dir'[d] = dir[d]
           /\ d \in Timers => held'[d] = held[d]
<1>1. /\ val \in [Devices -> -1 .. 255] /\ dir \in [Devices -> 0 .. 1]
      /\ held \in [Timers -> BOOLEAN]
  BY DEF EngineInv, TypeOK
<1>2. CASE PerformTimer(a, s)
  BY <1>1, <1>2 DEF PerformTimer
<1>3. CASE PerformLevel(a, s)
  BY <1>1, <1>3 DEF PerformLevel
<1> QED  BY <1>2, <1>3 DEF Perform

LEMMA PerformHere ==
    ASSUME EngineInv, NEW a \in ActionRecords, NEW s, Perform(a, s), Kind[a.dev] # "TIMER"
    PROVE  LET k == Kind[a.dev]
               new == After(k, a.type, a.opt, val[a.dev], dir[a.dev])
           IN  /\ val'[a.dev] = new.val /\ dir'[a.dev] = new.dir
               /\ Raises(k, a.type, val[a.dev], new.val)
                     => stack' = Append(s, Frame(a.dev, RaisedEvent(k, new.val)))
               /\ ~Raises(k, a.type, val[a.dev], new.val) => stack' = s
<1>1. /\ val \in [Devices -> -1 .. 255] /\ dir \in [Devices -> 0 .. 1] /\ a.dev \in Devices
  BY DEF EngineInv, TypeOK, ActionRecords
<1>2. PerformLevel(a, s)
  BY DEF Perform, PerformTimer
<1> QED  BY <1>1, <1>2 DEF PerformLevel

LEMMA PerformOnTimer ==
    ASSUME EngineInv, NEW a \in ActionRecords, NEW s, Perform(a, s), Kind[a.dev] = "TIMER"
    PROVE  /\ a.type \in {"SET", "UNSET"} => (held'[a.dev] <=> a.type = "SET")
           /\ a.type \notin {"SET", "UNSET"} => held'[a.dev] = held[a.dev]
           /\ stack' = s
<1>1. held \in [Timers -> BOOLEAN] /\ a.dev \in Timers
  BY DEF EngineInv, TypeOK, ActionRecords, Timers
<1>2. Supported("TIMER") = {"SET", "UNSET"}
  BY DEF Supported
<1>3. CASE a.type \in {"SET", "UNSET"}
  <2>1. PerformTimer(a, s)
    BY <1>2, <1>3 DEF Perform, PerformLevel
  <2> QED  BY <1>1, <1>3, <2>1 DEF PerformTimer
<1>4. CASE a.type \notin {"SET", "UNSET"}
  <2>1. PerformLevel(a, s)
    BY <1>2, <1>4 DEF Perform, PerformTimer
  <2>2. held' = held
    BY <2>1 DEF PerformLevel
  <2>3. \A v : ~Raises("TIMER", a.type, val[a.dev], v)
    BY DEF Raises
  <2>4. stack' = s
    BY <2>1, <2>3 DEF PerformLevel
  <2> QED  BY <1>4, <2>2, <2>4
<1> QED  BY <1>3, <1>4

(* The steps that perform no action: they move the walk on, or start or    *)
(* continue a callback.                                                    *)
Quiet ==
    \/ PassRule \/ EnterRule \/ LeaveRule \/ Return \/ Continue
    \/ \E d \in Buttons : Press(d) \/ Release(d)
    \/ \E t \in Timers : Timeout(t)
    \/ \E d \in Schedules : ScheduleTick(d)

LEMMA StepSplits ==
    ASSUME [HouseNext]_houseVars
    PROVE  \/ EngineNext /\ (Quiet \/ RunAction \/ \E c \in Commands : RemoteDo(c))
           \/ Save \/ Restarts \/ UNCHANGED houseVars
  BY DEF HouseNext, EngineNext, Next, EngineStep, Quiet

LEMMA QuietLevel ==
    ASSUME EngineInv, Quiet, NEW d \in Devices
    PROVE  /\ Kind[d] \notin {"FTS14EM", "SCHEDULE"} => val'[d] = val[d]
           /\ dir' = dir
<1>1. CASE Continue
  <2>1. script \in Seq(Ops) /\ script # <<>>
    BY <1>1 DEF Continue, EngineInv, TypeOK
  <2>2. Head(script) \in Ops
    BY <2>1
  <2>3. CASE Head(script).op = "assign"
    <3>1. Kind[Head(script).dev] \in {"FTS14EM", "SCHEDULE"}
      BY <2>2, <2>3 DEF Ops, Buttons, Schedules
    <3>2. val' = [val EXCEPT ![Head(script).dev] = Head(script).arg]
      BY <1>1, <2>3 DEF Continue
    <3>3. val \in [Devices -> -1 .. 255]
      BY DEF EngineInv, TypeOK
    <3> QED  BY <1>1, <3>1, <3>2, <3>3 DEF Continue
  <2>4. CASE Head(script).op # "assign"
    BY <1>1, <2>4 DEF Continue
  <2> QED  BY <2>3, <2>4
<1>2. CASE ~Continue
  BY <1>2 DEF Quiet, PassRule, EnterRule, LeaveRule, Return, Press, Release, Timeout, ScheduleTick
<1> QED  BY <1>1, <1>2

LEMMA QuietKeeps ==
    ASSUME EngineInv, Quiet, NEW d, NEW e, NEW x, NEW t, Bound(stack, d, e, x, t)
    PROVE  Bound(stack', d, e, x, t)
<1>1. stack # <<>>
  BY DEF Bound
<1>2. PassRule \/ EnterRule \/ LeaveRule \/ Return
  BY <1>1 DEF Quiet, Continue, Press, Release, Timeout, ScheduleTick, Resting
<1> QED  BY <1>2, WalkKeeps

LEMMA NoneBound ==
    ASSUME stack = <<>>, NEW d, NEW e, NEW x, NEW t
    PROVE  ~Bound(stack, d, e, x, t)
  BY DEF Bound

(* What a save writes and what a start restores.                           *)
LEMMA SaveWrites ==
    ASSUME Save
    PROVE  Resting /\ UNCHANGED <<vars, silent>>
           /\ (file' # NoFile => \A d \in Stored : file'[d] = val[d])
  BY DEF Save, Snapshot

LEMMA StartRestores ==
    ASSUME Restarts
    PROVE  /\ file # NoFile => \A d \in Stored : val'[d] = file[d]
           /\ \A d \in Devices :
                 ~(d \in Stored /\ file # NoFile) /\ Kind[d] \notin {"BOOL", "SCHEDULE"}
                     => val'[d] = 0
           /\ \A d \in Stored : file'[d] = val'[d]
           /\ \A t \in Timers : held'[t] = FALSE
           /\ \A d \in Devices : dir'[d] = 1
           /\ stack' = <<>> /\ script' = <<>> /\ silent' = Stored
<1>1. PICK first \in FirstLevels : val' = StartLevels(first)
  BY DEF Restarts
<1>2. Stored \subseteq Devices
  BY DEF Stored
<1>3. file # NoFile => \A d \in Stored : val'[d] = file[d]
  BY <1>1, <1>2 DEF StartLevels
<1>4. \A d \in Devices :
         ~(d \in Stored /\ file # NoFile) /\ Kind[d] \notin {"BOOL", "SCHEDULE"}
             => val'[d] = 0
  BY <1>1 DEF StartLevels, Declared
<1>5. /\ file' = Snapshot(val') /\ held' = [t \in Timers |-> FALSE]
      /\ dir' = [d \in Devices |-> 1]
      /\ stack' = <<>> /\ script' = <<>> /\ silent' = Stored
  BY DEF Restarts
<1> QED  BY <1>3, <1>4, <1>5 DEF Snapshot

-----------------------------------------------------------------------------
(* Exclusions: while both devices are on, the rule that switches the one   *)
(* off is ahead of the frame that announces the other; and the file never  *)
(* holds both.                                                             *)
ExcludeInv(a, m) ==
    /\ val[a] > 0 /\ val[m] > 0 => Bound(stack, a, "SET", m, "UNSET")
    /\ file # NoFile => ~(file[a] > 0 /\ file[m] > 0)

LEMMA ExcludedKinds ==
    ASSUME EngineInv, NEW a \in Devices, NEW m \in Devices, RulesOut(a, m)
    PROVE  /\ Kind[a] # "TIMER" /\ Kind[m] # "TIMER" /\ a \in Stored /\ m \in Stored
           /\ val[m] \in 0 .. 255 /\ val[a] \in -1 .. 255
           /\ Kind[a] = "BOOL" => val[a] \in -1 .. 1
<1>1. Kind[a] \in {"BOOL", "FSR14", "FUD14"} /\ Kind[m] \in {"FSR14", "FUD14"}
  BY DEF RulesOut, Echoing
<1>2. val[m] \in Level(Kind[m]) /\ val[a] \in Level(Kind[a]) /\ val[a] \in -1 .. 255
  BY DEF EngineInv, TypeOK
<1>3. Level("BOOL") = -1 .. 1 /\ Level("FSR14") = 0 .. 1 /\ Level("FUD14") = 0 .. 255
  BY DEF Level
<1>4. val[m] \in 0 .. 255 /\ (Kind[a] = "BOOL" => val[a] \in -1 .. 1)
  BY <1>1, <1>2, <1>3
<1> QED  BY <1>1, <1>2, <1>4 DEF Stored

LEMMA PerformExcludes ==
    ASSUME EngineInv, EngineInv', NEW a \in Devices, NEW m \in Devices, RulesOut(a, m),
           NEW c \in ActionRecords, NEW s \in Seq(Frames), Perform(c, s),
           val[a] > 0 /\ val[m] > 0 /\ ~(c.dev = m /\ c.type = "UNSET")
               => Bound(s, a, "SET", m, "UNSET"),
           c.dev = m /\ c.type # "UNSET" => val[a] = 0 \/ val[m] # 0,
           val'[a] > 0, val'[m] > 0
    PROVE  Bound(stack', a, "SET", m, "UNSET")
<1>1. a # m /\ Kind[a] \in Echoing /\ Kind[m] \in {"FSR14", "FUD14"}
  BY DEF RulesOut
<1>2. /\ Kind[a] # "TIMER" /\ Kind[m] # "TIMER"
      /\ val[m] \in 0 .. 255 /\ val[a] \in -1 .. 255
      /\ val'[a] \in -1 .. 255 /\ (Kind[a] = "BOOL" => val'[a] \in -1 .. 1)
  <2>1. val'[a] \in Level(Kind[a]) /\ val'[a] \in -1 .. 255
    BY DEF EngineInv, TypeOK
  <2>2. Kind[a] = "BOOL" => val'[a] \in -1 .. 1
    BY <2>1 DEF Level
  <2> QED  BY <2>1, <2>2, ExcludedKinds
<1>3. ASSUME Bound(s, a, "SET", m, "UNSET") PROVE Bound(stack', a, "SET", m, "UNSET")
  BY <1>3, PerformStack, BoundAppend
<1>4. CASE c.dev = m
  <2>1. val'[a] = val[a]
    BY <1>1, <1>4, PerformElsewhere
  <2>2. val'[m] = After(Kind[m], c.type, c.opt, val[m], dir[m]).val
    BY <1>2, <1>4, PerformHere
  <2>3. c.type # "UNSET"
    <3>1. SUFFICES ASSUME c.type = "UNSET" PROVE val'[m] = 0
      OBVIOUS
    <3> QED  BY <1>1, <2>2, <3>1 DEF After, Supported, SwitchAfter, DimmerAfter, ActionTypes
  <2>4. val[a] > 0 /\ val[m] > 0
    <3>1. val[a] > 0 /\ val[a] # 0
      BY <1>2, <2>1
    <3>2. val[m] # 0
      BY <1>4, <2>3, <3>1
    <3>3. \A n \in 0 .. 255 : n # 0 => n > 0
      OBVIOUS
    <3> QED  BY <1>2, <3>1, <3>2, <3>3, Zenon
  <2> QED  BY <1>3, <2>3, <2>4
<1>5. CASE c.dev = a /\ ~(val[a] > 0)
  <2> DEFINE k == Kind[a]
             new == After(k, c.type, c.opt, val[a], dir[a])
  <2>1. val'[a] = new.val
    BY <1>2, <1>5, PerformHere
  <2>2. Raises(k, c.type, val[a], new.val)
    <3>1. new.val # val[a]
      BY <1>5, <2>1
    <3>2. c.type \in Supported(k)
      BY <3>1 DEF After
    <3> HIDE DEF new
    <3> QED  BY <1>1, <3>1, <3>2 DEF Raises, Echoing
  <2>3. stack' = Append(s, Frame(a, RaisedEvent(k, new.val)))
    BY <1>2, <1>5, <2>2, PerformHere
  <2>4. RaisedEvent(k, new.val) = "SET"
    BY <1>1, <1>2, <2>1 DEF RaisedEvent, Echoing
  <2>5. Ahead(Frame(a, "SET"), m, "UNSET") /\ Frame(a, "SET") \in Frames
        /\ Frame(a, "SET").dev = a /\ Frame(a, "SET").ev = "SET"
    <3>1. Frame(a, "SET") \in Frames
      BY FrameIsFrame DEF EventTypes
    <3>2. Ahead(Frame(a, "SET"), m, "UNSET")
      BY AheadAtFirst DEF RulesOut
    <3> QED  BY <3>1, <3>2 DEF Frame
  <2> HIDE DEF new
  <2> QED  BY <2>3, <2>4, <2>5, BoundAppend
<1>6. CASE c.dev # m /\ ~(c.dev = a /\ ~(val[a] > 0))
  <2>1. val'[m] = val[m] /\ (c.dev # a => val'[a] = val[a])
    BY <1>6, PerformElsewhere
  <2> QED  BY <1>3, <1>6, <2>1
<1> QED  BY <1>4, <1>5, <1>6, <1>1

LEMMA ExcludeInit ==
    ASSUME HouseInit, NEW a \in Devices, NEW m \in Devices, RulesOut(a, m)
    PROVE  ExcludeInv(a, m)
<1>1. Kind[m] \in {"FSR14", "FUD14"} /\ m \in Stored
  BY DEF RulesOut, Stored
<1>2. val[m] \in InitialLevels(Kind[m]) /\ file = Snapshot(val)
  BY DEF HouseInit, Init
<1>3. val[m] = 0
  BY <1>1, <1>2 DEF InitialLevels
<1> QED  BY <1>1, <1>2, <1>3 DEF ExcludeInv, Snapshot

LEMMA ExcludeNext ==
    ASSUME WalkInv, WalkInv', [HouseNext]_houseVars,
           NEW a \in Devices, NEW m \in Devices, RulesOut(a, m), ExcludeInv(a, m)
    PROVE  ExcludeInv(a, m)'
<1>0. EngineInv /\ EngineInv'
  BY DEF WalkInv, HouseInv
<1>1. /\ Kind[a] \notin {"TIMER", "FTS14EM", "SCHEDULE"} /\ a \in Stored
      /\ Kind[m] \notin {"TIMER", "FTS14EM", "SCHEDULE", "BOOL"} /\ m \in Stored
  BY DEF RulesOut, Stored, Echoing
<1>2. CASE EngineNext /\ Quiet
  <2>1. val'[a] = val[a] /\ val'[m] = val[m] /\ file' = file
    BY <1>0, <1>1, <1>2, QuietLevel DEF EngineNext
  <2>2. Bound(stack, a, "SET", m, "UNSET") => Bound(stack', a, "SET", m, "UNSET")
    BY <1>0, <1>2, QuietKeeps
  <2> QED  BY <2>1, <2>2 DEF ExcludeInv
<1>3. CASE EngineNext /\ RunAction
  <2> DEFINE c == NextAction
             s == WithTop(Advanced)
  <2>1. c \in ActionRecords /\ s \in Seq(Frames) /\ Perform(c, s)
    BY <1>3, ActionRuns
  <2>2. val[a] > 0 /\ val[m] > 0 /\ ~(c.dev = m /\ c.type = "UNSET")
            => Bound(s, a, "SET", m, "UNSET")
    BY <1>0, <1>3, ActionKeeps DEF ExcludeInv, Advanced
  <2>3. ASSUME c.dev = m, c.type # "UNSET" PROVE val[a] = 0 \/ val[m] # 0
    <3>1. /\ Top.rule \in 1 .. Len(Rules) /\ Top.act \in ActionsOf(Top.rule)
          /\ c = Rules[Top.rule].acts[Top.act] /\ Len(stack) \in 1 .. Len(stack)
      BY <1>3, ActionRuns
    <3>2. Top.act = 1 /\ \E i \in 1 .. Len(Rules[Top.rule].conds) :
             Rules[Top.rule].conds[i] \in {[dev |-> a, type |-> "UNSET"],
                                           [dev |-> m, type |-> "SET"]}
      BY <2>3, <3>1 DEF RulesOut
    <3>3. PICK i \in 1 .. Len(Rules[Top.rule].conds) :
             Rules[Top.rule].conds[i] \in {[dev |-> a, type |-> "UNSET"],
                                           [dev |-> m, type |-> "SET"]}
      BY <3>2
    <3>4. Granted(Top.rule, val)
      BY <3>1, <3>2 DEF WalkInv, JustEntered, Top
    <3>5. \/ Holds(Kind[a], "UNSET", val[a])
          \/ Holds(Kind[m], "SET", val[m])
      BY <3>3, <3>4 DEF Granted
    <3> QED  BY <3>5 DEF Holds
  <2>4. val'[a] > 0 /\ val'[m] > 0 => Bound(stack', a, "SET", m, "UNSET")
    <3> HIDE DEF c, s
    <3> QED  BY <1>0, <2>1, <2>2, <2>3, PerformExcludes
  <2> QED  BY <1>3, <2>4 DEF ExcludeInv, EngineNext
<1>4. ASSUME EngineNext, NEW c \in Commands, RemoteDo(c) PROVE ExcludeInv(a, m)'
  <2>1. c \in ActionRecords /\ stack = <<>> /\ stack \in Seq(Frames) /\ Perform(c, stack)
    BY <1>0, <1>4, ConfigAssumption DEF RemoteDo, Resting, EngineInv, TypeOK
  <2>2. c.dev = m => c.type = "UNSET"
    BY DEF RulesOut
  <2>3. ~(val[a] > 0 /\ val[m] > 0)
    BY <2>1, NoneBound DEF ExcludeInv
  <2>4. val'[a] > 0 /\ val'[m] > 0 => Bound(stack', a, "SET", m, "UNSET")
    BY <1>0, <2>1, <2>2, <2>3, PerformExcludes
  <2> QED  BY <1>4, <2>4 DEF ExcludeInv, EngineNext
<1>5. CASE Save
  <2>1. /\ stack = <<>> /\ UNCHANGED <<vars, silent>>
        /\ file' # NoFile => file'[a] = val[a] /\ file'[m] = val[m]
    BY <1>1, <1>5, SaveWrites DEF Resting
  <2>2. ~(val[a] > 0 /\ val[m] > 0)
    BY <2>1, NoneBound DEF ExcludeInv
  <2> QED  BY <2>1, <2>2 DEF ExcludeInv, vars
<1>6. CASE Restarts
  <2>1. ~(val'[a] > 0 /\ val'[m] > 0)
    BY <1>1, <1>6, StartRestores DEF ExcludeInv
  <2>2. file'[a] = val'[a] /\ file'[m] = val'[m]
    BY <1>1, <1>6, StartRestores
  <2> QED  BY <2>1, <2>2 DEF ExcludeInv
<1>7. CASE UNCHANGED houseVars
  BY <1>7 DEF houseVars, vars, ExcludeInv
<1> QED  BY <1>2, <1>3, <1>4, <1>5, <1>6, <1>7, StepSplits

AllExclude == WalkInv /\ \A p \in Exclusions : ExcludeInv(p[1], p[2])

(* A device that another one rules out by rules of this shape is never on  *)
(* at rest together with it, whatever the other rules are, and however     *)
(* often the engine is stopped between a condition and its action.         *)
THEOREM ExclusionsHold == HouseSpec => []NeverBoth
<1>1. HouseInit => AllExclude
  BY WalkInvInit, ExcludeInit DEF AllExclude, Exclusions
<1>2. AllExclude /\ [HouseNext]_houseVars => AllExclude'
  <2> SUFFICES ASSUME AllExclude, [HouseNext]_houseVars PROVE AllExclude'
    OBVIOUS
  <2>1. WalkInv /\ WalkInv'
    BY WalkInvNext DEF AllExclude
  <2>2. ASSUME NEW p \in Exclusions PROVE ExcludeInv(p[1], p[2])'
    <3>1. p[1] \in Devices /\ p[2] \in Devices /\ RulesOut(p[1], p[2]) /\ ExcludeInv(p[1], p[2])
      BY <2>2 DEF Exclusions, AllExclude
    <3> QED  BY <2>1, <3>1, ExcludeNext
  <2> QED  BY <2>1, <2>2 DEF AllExclude
<1>3. AllExclude => NeverBoth
  <2> SUFFICES ASSUME AllExclude, Resting, NEW p \in Exclusions
               PROVE  ~(IsOn(p[1]) /\ IsOn(p[2]))
    BY DEF NeverBoth
  <2>1. p[1] \in Devices /\ p[2] \in Devices /\ RulesOut(p[1], p[2]) /\ ExcludeInv(p[1], p[2])
    BY DEF Exclusions, AllExclude
  <2>2. Kind[p[1]] # "TIMER" /\ Kind[p[2]] # "TIMER"
    BY <2>1 DEF RulesOut, Echoing
  <2>3. ~Bound(stack, p[1], "SET", p[2], "UNSET")
    BY NoneBound DEF Resting
  <2> QED  BY <2>1, <2>2, <2>3 DEF ExcludeInv, IsOn
<1> QED  BY <1>1, <1>2, <1>3, PTL DEF HouseSpec

-----------------------------------------------------------------------------
(* Repetition.  Dispatches of buttons and timers are started by the script *)
(* of a callback only, never by a rule.                                    *)
OnStack(s, d, e) == \E i \in 1 .. Len(s) : s[i].dev = d /\ s[i].ev = e

LEMMA FrameFields ==
    ASSUME NEW f \in Frames
    PROVE  /\ [f EXCEPT !.act = 1].dev = f.dev /\ [f EXCEPT !.act = 1].ev = f.ev
           /\ [f EXCEPT !.rule = @ + 1].dev = f.dev /\ [f EXCEPT !.rule = @ + 1].ev = f.ev
           /\ [f EXCEPT !.rule = @ + 1, !.act = 0].dev = f.dev
           /\ [f EXCEPT !.rule = @ + 1, !.act = 0].ev = f.ev
  BY DEF Frames

LEMMA WalkFrames ==
    ASSUME EngineInv, PassRule \/ EnterRule \/ LeaveRule \/ Return,
           NEW d, NEW e, OnStack(stack', d, e)
    PROVE  OnStack(stack, d, e)
<1>1. PICK i \in 1 .. Len(stack') : stack'[i].dev = d /\ stack'[i].ev = e
  BY DEF OnStack
<1>2. stack # <<>> /\ (~Return => Top.rule <= Len(Rules))
  BY DEF PassRule, EnterRule, LeaveRule, Return, Walking
<1>3. stack \in Seq(Frames) /\ Len(stack) \in Nat /\ Top \in Frames /\ Top = stack[Len(stack)]
  BY <1>2, TopTyped DEF EngineInv, TypeOK, Top
<1>4. CASE Return
  <2>1. /\ Len(stack') = Len(stack) - 1
        /\ \A j \in 1 .. Len(stack) : j # Len(stack) => stack'[j] = stack[j]
    BY <1>2, <1>3, <1>4, Popped DEF Return
  <2>2. i \in 1 .. Len(stack) /\ i # Len(stack)
    BY <1>3, <2>1
  <2> QED  BY <1>1, <2>1, <2>2 DEF OnStack
<1>5. ASSUME NEW f \in Frames, f.dev = Top.dev, f.ev = Top.ev, stack' = WithTop(f)
      PROVE  OnStack(stack, d, e)
  <2>1. i \in 1 .. Len(stack)
    BY <1>2, <1>5, TopMoves
  <2>2. stack[i].dev = d /\ stack[i].ev = e
    BY <1>1, <1>2, <1>3, <1>5, <2>1, TopMoves
  <2> QED  BY <2>1, <2>2 DEF OnStack
<1>6. CASE PassRule
  <2> DEFINE f == [Top EXCEPT !.rule = @ + 1]
  <2>1. Top \in Frames /\ Top.rule <= Len(Rules)
    BY <1>3, <1>6 DEF PassRule, Walking
  <2>2. f \in Frames
    BY <2>1, FrameMoves
  <2>3. f.dev = Top.dev /\ f.ev = Top.ev
    BY <2>1, FrameFields
  <2>4. stack' = WithTop(f)
    BY <1>6 DEF PassRule
  <2> HIDE DEF f
  <2> QED  BY <1>5, <2>2, <2>3, <2>4
<1>7. CASE EnterRule
  <2> DEFINE f == [Top EXCEPT !.act = 1]
  <2>1. Top \in Frames /\ Top.rule <= Len(Rules)
    BY <1>3, <1>7 DEF EnterRule, Walking
  <2>2. f \in Frames
    BY <2>1, FrameMoves
  <2>3. f.dev = Top.dev /\ f.ev = Top.ev
    BY <2>1, FrameFields
  <2>4. stack' = WithTop(f)
    BY <1>7 DEF EnterRule
  <2> HIDE DEF f
  <2> QED  BY <1>5, <2>2, <2>3, <2>4
<1>8. CASE LeaveRule
  <2> DEFINE f == [Top EXCEPT !.rule = @ + 1, !.act = 0]
  <2>1. Top \in Frames /\ Top.rule <= Len(Rules)
    BY <1>3, <1>8 DEF LeaveRule, Walking
  <2>2. f \in Frames
    BY <2>1, FrameMoves
  <2>3. f.dev = Top.dev /\ f.ev = Top.ev
    BY <2>1, FrameFields
  <2>4. stack' = WithTop(f)
    BY <1>8 DEF LeaveRule
  <2> HIDE DEF f
  <2> QED  BY <1>5, <2>2, <2>3, <2>4
<1> QED  BY <1>4, <1>6, <1>7, <1>8

LEMMA PerformFrames ==
    ASSUME EngineInv, NEW a \in ActionRecords, NEW s \in Seq(Frames), Perform(a, s),
           NEW d, Kind[d] \notin Echoing, NEW e, OnStack(stack', d, e)
    PROVE  OnStack(s, d, e)
<1>1. CASE stack' = s
  BY <1>1
<1>2. ASSUME Kind[a.dev] \in Echoing, NEW v, stack' = Append(s, Frame(a.dev, v))
      PROVE  OnStack(s, d, e)
  <2> DEFINE t == Append(s, Frame(a.dev, v))
  <2>1. /\ Len(s) \in Nat /\ Len(t) = Len(s) + 1 /\ t[Len(s) + 1] = Frame(a.dev, v)
        /\ \A j \in 1 .. Len(s) : t[j] = s[j]
    OBVIOUS
  <2>2. Frame(a.dev, v).dev = a.dev
    BY DEF Frame
  <2> HIDE DEF t
  <2>3. stack' = t
    BY <1>2 DEF t
  <2>4. PICK i \in 1 .. Len(t) : t[i].dev = d /\ t[i].ev = e
    BY <2>3 DEF OnStack
  <2>5. i # Len(s) + 1
    BY <1>2, <2>1, <2>2, <2>4
  <2>6. i \in 1 .. Len(s)
    BY <2>1, <2>5
  <2> QED  BY <2>1, <2>4, <2>6 DEF OnStack
<1> QED  BY <1>1, <1>2, PerformStack

LEMMA AdvancedFrames ==
    ASSUME WalkInv, RunAction, NEW d, NEW e, OnStack(WithTop(Advanced), d, e)
    PROVE  OnStack(stack, d, e)
<1>1. PICK i \in 1 .. Len(WithTop(Advanced)) :
         WithTop(Advanced)[i].dev = d /\ WithTop(Advanced)[i].ev = e
  BY DEF OnStack
<1>2. /\ EngineInv /\ stack # <<>> /\ Advanced \in Frames
      /\ Advanced.dev = Top.dev /\ Advanced.ev = Top.ev
  BY ActionRuns DEF WalkInv, HouseInv
<1>3. i \in 1 .. Len(stack)
  BY <1>2, TopMoves
<1>4. stack[i].dev = d /\ stack[i].ev = e
  BY <1>1, <1>2, <1>3, TopMoves DEF Top
<1> QED  BY <1>3, <1>4 DEF OnStack

LEMMA OpsDiffer ==
    /\ \A d, e, x, y : Raise(d, e) = Raise(x, y) <=> d = x /\ e = y
    /\ \A d, e, x, y : Assign(d, e) = Assign(x, y) <=> d = x /\ e = y
    /\ \A d, e, x, y : Raise(d, e) # Assign(x, y)
<1>1. \A d, e, x, y : Raise(d, e) = Raise(x, y) => d = x /\ e = y
  <2> TAKE d, e, x, y
  <2>1. /\ Raise(d, e).dev = d /\ Raise(d, e).arg = e
        /\ Raise(x, y).dev = x /\ Raise(x, y).arg = y
    BY DEF Raise
  <2> QED  BY <2>1
<1>2. \A d, e, x, y : Assign(d, e) = Assign(x, y) => d = x /\ e = y
  <2> TAKE d, e, x, y
  <2>1. /\ Assign(d, e).dev = d /\ Assign(d, e).arg = e
        /\ Assign(x, y).dev = x /\ Assign(x, y).arg = y
    BY DEF Assign
  <2> QED  BY <2>1
<1>3. \A d, e, x, y : Raise(d, e) # Assign(x, y)
  <2> TAKE d, e, x, y
  <2>1. Raise(d, e).op = "raise" /\ Assign(x, y).op = "assign"
    BY DEF Raise, Assign
  <2> QED  BY <2>1
<1> QED  BY <1>1, <1>2, <1>3

LEMMA OpForms ==
    ASSUME NEW o \in Ops
    PROVE  /\ o.op = "raise" => o = Raise(o.dev, o.arg) /\ o.dev \in Devices /\ o.arg \in EventTypes
           /\ o.op = "assign" => /\ o = Assign(o.dev, o.arg) /\ o.arg \in 0 .. 1
                                 /\ o.dev \in Buttons \cup Schedules
           /\ o.op \in {"raise", "assign"}
  BY DEF Ops, Raise, Assign

(* While it is armed, t has its press, or a press that is about to be      *)
(* remembered; its TIMEOUT and the PRESS are dispatched with that press    *)
(* still to be released, and the release destroys t before it forgets.     *)
Says(o) == \E i \in 1 .. Len(script) : script[i] = o

InCall(d, e) == Says(Raise(d, e)) \/ OnStack(stack, d, e)

RepeatInv(t, b) ==
    /\ OnStack(stack, b, "PRESS") => Says(Assign(b, 1))
    /\ \A i \in 1 .. Len(script) : script[i] = Raise(b, "PRESS") =>
          \E j \in i + 1 .. Len(script) : script[j] = Assign(b, 1)
    /\ InCall(t, "TIMEOUT") => val[b] = 1 /\ ~Says(Assign(b, 0))
    /\ \A i \in 1 .. Len(script) : script[i] = Assign(b, 0) =>
          \/ ~held[t]
          \/ \E j \in 1 .. i - 1 : script[j] = Raise(b, "RELEASE")
          \/ Bound(stack, b, "RELEASE", t, "UNSET")
    /\ ~(Says(Assign(b, 0)) /\ Says(Assign(b, 1)))
    /\ held[t] => val[b] = 1 \/ Says(Assign(b, 1))

(* Steps that leave button, timer and script alone and start no dispatch   *)
(* of them.                                                                *)
LEMMA RepeatStays ==
    ASSUME NEW t, NEW b, RepeatInv(t, b), script' = script, val'[b] = val[b],
           OnStack(stack', b, "PRESS") => OnStack(stack, b, "PRESS"),
           OnStack(stack', t, "TIMEOUT") => OnStack(stack, t, "TIMEOUT"),
           \/ /\ held'[t] = held[t]
              /\ Bound(stack, b, "RELEASE", t, "UNSET") => Bound(stack', b, "RELEASE", t, "UNSET")
           \/ ~held'[t]
           \/ ~Says(Assign(b, 0)) /\ (val[b] = 1 \/ Says(Assign(b, 1)))
    PROVE  RepeatInv(t, b)'
<1>1. \A o : Says(o)' <=> Says(o)
  BY DEF Says
<1>2. InCall(t, "TIMEOUT")' => InCall(t, "TIMEOUT")
  BY DEF InCall, Says
<1>3. OnStack(stack', b, "PRESS") => Says(Assign(b, 1))'
  BY <1>1 DEF RepeatInv
<1>4. InCall(t, "TIMEOUT")' => val'[b] = 1 /\ ~Says(Assign(b, 0))'
  BY <1>1, <1>2 DEF RepeatInv
<1>5. ASSUME NEW i \in 1 .. Len(script'), script'[i] = Assign(b, 0)
      PROVE  \/ ~held'[t]
             \/ \E j \in 1 .. i - 1 : script'[j] = Raise(b, "RELEASE")
             \/ Bound(stack', b, "RELEASE", t, "UNSET")
  BY <1>5 DEF RepeatInv, Says
<1>6. held'[t] => val'[b] = 1 \/ Says(Assign(b, 1))'
  BY <1>1 DEF RepeatInv
<1>7. \A i \in 1 .. Len(script') : script'[i] = Raise(b, "PRESS") =>
         \E j \in i + 1 .. Len(script') : script'[j] = Assign(b, 1)
  BY DEF RepeatInv
<1>8. ~(Says(Assign(b, 0))' /\ Says(Assign(b, 1))')
  BY <1>1 DEF RepeatInv
<1> QED  BY <1>3, <1>4, <1>5, <1>6, <1>7, <1>8 DEF RepeatInv

LEMMA RepeatContinues ==
    ASSUME EngineInv, Continue, NEW t \in Devices, NEW b \in Devices, RepeatsWith(t, b),
           RepeatInv(t, b)
    PROVE  RepeatInv(t, b)'
<1> DEFINE o == Head(script)
<1>1. /\ stack = <<>> /\ script # <<>> /\ script \in Seq(Ops) /\ script' = Tail(script)
      /\ held' = held /\ val \in [Devices -> -1 .. 255]
  BY DEF Continue, EngineInv, TypeOK
<1>2. /\ o \in Ops /\ o = script[1] /\ 1 \in 1 .. Len(script) /\ Len(script) \in Nat
      /\ Len(script') = Len(script) - 1
      /\ \A i \in 1 .. Len(script') : script'[i] = script[i + 1] /\ i + 1 \in 1 .. Len(script)
  BY <1>1
<1>3. \/ /\ o.op = "raise" /\ val' = val
         /\ stack' = <<Frame(o.dev, o.arg)>>
      \/ /\ o.op = "assign" /\ stack' = stack
         /\ val' = [val EXCEPT ![o.dev] = o.arg]
  BY DEF Continue
<1> HIDE DEF o
<1>4. \A i \in 2 .. Len(script) : i - 1 \in 1 .. Len(script') /\ script'[i - 1] = script[i]
  BY <1>1, <1>2
<1>5. ASSUME NEW p, Says(p), o # p PROVE Says(p)'
  <2>1. PICK i \in 1 .. Len(script) : script[i] = p
    BY <1>5 DEF Says
  <2>2. i \in 2 .. Len(script)
    BY <1>2, <1>5, <2>1
  <2> QED  BY <1>4, <2>1, <2>2 DEF Says
<1>6. ASSUME NEW p, Says(p)' PROVE Says(p)
  BY <1>2, <1>6 DEF Says
<1>7. ASSUME NEW d, NEW e, OnStack(stack', d, e)
      PROVE  o = Raise(d, e) /\ Says(Raise(d, e)) /\ stack' = <<Frame(d, e)>> /\ val' = val
  <2>1. o.op = "raise" /\ stack' = <<Frame(o.dev, o.arg)>> /\ val' = val
    BY <1>1, <1>3, <1>7 DEF OnStack
  <2>2. Frame(o.dev, o.arg).dev = o.dev /\ Frame(o.dev, o.arg).ev = o.arg
    BY DEF Frame
  <2>3. Len(stack') = 1 /\ stack'[1] = Frame(o.dev, o.arg)
    BY <2>1
  <2>4. d = o.dev /\ e = o.arg
    BY <1>7, <2>2, <2>3 DEF OnStack
  <2>5. o = Raise(o.dev, o.arg)
    BY <1>2, <2>1, OpForms
  <2> QED  BY <1>2, <2>1, <2>4, <2>5 DEF Says
<1>8. o # Assign(b, 0) /\ o # Assign(b, 1) => val'[b] = val[b]
  <2>1. CASE o.op = "raise"
    BY <1>3, <2>1
  <2>2. CASE o.op = "assign" /\ o.dev # b
    BY <1>1, <1>3, <2>2
  <2>3. CASE o.op = "assign" /\ o.dev = b
    <3>1. o = Assign(b, o.arg) /\ o.arg \in 0 .. 1
      BY <1>2, <2>3, OpForms
    <3>2. o.arg = 0 \/ o.arg = 1
      BY <3>1
    <3> QED  BY <3>1, <3>2
  <2> QED  BY <1>2, <2>1, <2>2, <2>3, OpForms
<1>9. o = Assign(b, 1) => val'[b] = 1
  <2>1. Assign(b, 1).op = "assign" /\ Assign(b, 1).dev = b /\ Assign(b, 1).arg = 1
    BY DEF Assign
  <2> QED  BY <1>1, <1>3, <2>1
<1>10. OnStack(stack', b, "PRESS") => Says(Assign(b, 1))'
  <2> SUFFICES ASSUME OnStack(stack', b, "PRESS") PROVE Says(Assign(b, 1))'
    OBVIOUS
  <2>1. script[1] = Raise(b, "PRESS") /\ o = Raise(b, "PRESS")
    BY <1>2, <1>7
  <2>2. PICK j \in 1 + 1 .. Len(script) : script[j] = Assign(b, 1)
    BY <1>2, <2>1 DEF RepeatInv
  <2>3. j \in 1 .. Len(script)
    BY <1>2
  <2>4. Says(Assign(b, 1))
    BY <2>2, <2>3 DEF Says
  <2> QED  BY <1>5, <2>1, <2>4, OpsDiffer
<1>11. ASSUME NEW i \in 1 .. Len(script'), script'[i] = Raise(b, "PRESS")
       PROVE  \E j \in i + 1 .. Len(script') : script'[j] = Assign(b, 1)
  <2>1. script[i + 1] = Raise(b, "PRESS") /\ i + 1 \in 1 .. Len(script)
    BY <1>2, <1>11
  <2>2. PICK j \in (i + 1) + 1 .. Len(script) : script[j] = Assign(b, 1)
    BY <2>1 DEF RepeatInv
  <2>3. j \in 2 .. Len(script) /\ j - 1 \in i + 1 .. Len(script')
    BY <1>2
  <2> QED  BY <1>4, <2>2, <2>3
<1>12. InCall(t, "TIMEOUT")' => val'[b] = 1 /\ ~Says(Assign(b, 0))'
  <2> SUFFICES ASSUME InCall(t, "TIMEOUT")' PROVE val'[b] = 1 /\ ~Says(Assign(b, 0))'
    OBVIOUS
  <2>1. Says(Raise(t, "TIMEOUT"))' \/ OnStack(stack', t, "TIMEOUT")
    BY DEF InCall, Says
  <2>2. Says(Raise(t, "TIMEOUT"))
    BY <1>6, <1>7, <2>1
  <2>3. val[b] = 1 /\ ~Says(Assign(b, 0))
    BY <2>2 DEF RepeatInv, InCall
  <2>4. o # Assign(b, 0)
    BY <1>2, <2>3 DEF Says
  <2> QED  BY <1>6, <1>8, <1>9, <2>3, <2>4
<1>13. ASSUME NEW i \in 1 .. Len(script'), script'[i] = Assign(b, 0)
       PROVE  \/ ~held'[t]
              \/ \E j \in 1 .. i - 1 : script'[j] = Raise(b, "RELEASE")
              \/ Bound(stack', b, "RELEASE", t, "UNSET")
  <2>1. script[i + 1] = Assign(b, 0) /\ i + 1 \in 1 .. Len(script)
    BY <1>2, <1>13
  <2>2. \/ ~held[t]
        \/ \E j \in 1 .. (i + 1) - 1 : script[j] = Raise(b, "RELEASE")
    BY <1>1, <2>1, NoneBound DEF RepeatInv
  <2>3. ASSUME NEW j \in 1 .. (i + 1) - 1, script[j] = Raise(b, "RELEASE"), j # 1
        PROVE  \E k \in 1 .. i - 1 : script'[k] = Raise(b, "RELEASE")
    <3>1. j \in 2 .. Len(script) /\ j - 1 \in 1 .. i - 1
      BY <1>2, <2>1, <2>3
    <3> QED  BY <1>4, <2>3, <3>1
  <2>4. ASSUME script[1] = Raise(b, "RELEASE")
        PROVE  Bound(stack', b, "RELEASE", t, "UNSET")
    <3>1. /\ Raise(b, "RELEASE").op = "raise" /\ Raise(b, "RELEASE").dev = b
          /\ Raise(b, "RELEASE").arg = "RELEASE"
      BY DEF Raise
    <3>2. stack' = <<Frame(b, "RELEASE")>>
      BY <1>2, <1>3, <2>4, <3>1
    <3>3. Ahead(Frame(b, "RELEASE"), t, "UNSET")
      BY AheadAtFirst DEF RepeatsWith
    <3>4. Frame(b, "RELEASE").dev = b /\ Frame(b, "RELEASE").ev = "RELEASE"
      BY DEF Frame
    <3>5. Len(stack') = 1 /\ stack'[1] = Frame(b, "RELEASE") /\ 1 \in 1 .. 1
      BY <3>2
    <3> QED  BY <3>3, <3>4, <3>5 DEF Bound
  <2> QED  BY <1>1, <2>2, <2>3, <2>4
<1>14. ~(Says(Assign(b, 0))' /\ Says(Assign(b, 1))')
  BY <1>6 DEF RepeatInv
<1>15. held'[t] => val'[b] = 1 \/ Says(Assign(b, 1))'
  <2> SUFFICES ASSUME held[t] PROVE val'[b] = 1 \/ Says(Assign(b, 1))'
    BY <1>1
  <2>1. val[b] = 1 \/ Says(Assign(b, 1))
    BY DEF RepeatInv
  <2>2. o # Assign(b, 0)
    <3>1. \A j \in 1 .. 1 - 1 : FALSE
      OBVIOUS
    <3> QED  BY <1>1, <1>2, <3>1, NoneBound DEF RepeatInv
  <2> QED  BY <1>5, <1>8, <1>9, <2>1, <2>2
<1> QED  BY <1>10, <1>11, <1>12, <1>13, <1>14, <1>15 DEF RepeatInv

(* An action on the pair: only the rules of a press and the timer's own    *)
(* set it, and nothing sets a button.                                      *)
LEMMA RepeatPerforms ==
    ASSUME WalkInv, NEW t \in Devices, NEW b \in Devices, RepeatsWith(t, b), RepeatInv(t, b),
           NEW c \in ActionRecords, NEW s \in Seq(Frames), Perform(c, s), script' = script,
           \A d, e : OnStack(s, d, e) => OnStack(stack, d, e),
           ~(c.dev = t /\ c.type = "UNSET") /\ Bound(stack, b, "RELEASE", t, "UNSET")
               => Bound(s, b, "RELEASE", t, "UNSET"),
           c.dev = t /\ c.type = "SET"
               => OnStack(stack, b, "PRESS") \/ OnStack(stack, t, "TIMEOUT")
    PROVE  RepeatInv(t, b)'
<1>0. EngineInv /\ c.dev \in Devices /\ t \in Timers /\ Kind[t] = "TIMER" /\ Kind[b] = "FTS14EM"
  BY DEF WalkInv, HouseInv, ActionRecords, RepeatsWith, Timers
<1>1. Kind[b] \notin Echoing /\ Kind[t] \notin Echoing
  BY <1>0 DEF Echoing
<1>2. /\ OnStack(stack', b, "PRESS") => OnStack(stack, b, "PRESS")
      /\ OnStack(stack', t, "TIMEOUT") => OnStack(stack, t, "TIMEOUT")
  BY <1>0, <1>1, PerformFrames
<1>3. val'[b] = val[b]
  <2>1. CASE c.dev = b
    <3>1. Supported("FTS14EM") = {}
      BY DEF Supported
    <3>2. After("FTS14EM", c.type, c.opt, val[b], dir[b]).val = val[b]
      BY <3>1 DEF After
    <3> QED  BY <1>0, <2>1, <3>2, PerformHere
  <2>2. CASE c.dev # b
    BY <1>0, <2>2, PerformElsewhere
  <2> QED  BY <2>1, <2>2
<1>4. Bound(s, b, "RELEASE", t, "UNSET") => Bound(stack', b, "RELEASE", t, "UNSET")
  BY <1>0, PerformStack, BoundAppend
<1>5. CASE c.dev # t \/ c.type \notin {"SET", "UNSET"}
  <2>1. held'[t] = held[t]
    BY <1>0, <1>5, PerformElsewhere, PerformOnTimer
  <2>2. Bound(stack, b, "RELEASE", t, "UNSET") => Bound(stack', b, "RELEASE", t, "UNSET")
    BY <1>4, <1>5
  <2> QED  BY <1>2, <1>3, <2>1, <2>2, RepeatStays
<1>6. CASE c.dev = t /\ c.type = "UNSET"
  <2>1. ~held'[t]
    BY <1>0, <1>6, PerformOnTimer
  <2> QED  BY <1>2, <1>3, <2>1, RepeatStays
<1>7. CASE c.dev = t /\ c.type = "SET"
  <2>1. ~Says(Assign(b, 0)) /\ (val[b] = 1 \/ Says(Assign(b, 1)))
    BY <1>7 DEF RepeatInv, InCall
  <2> QED  BY <1>2, <1>3, <2>1, RepeatStays
<1> QED  BY <1>5, <1>6, <1>7

LEMMA RepeatInit ==
    ASSUME HouseInit, NEW t \in Devices, NEW b \in Devices, RepeatsWith(t, b)
    PROVE  RepeatInv(t, b)
<1>1. /\ stack = <<>> /\ script = <<>> /\ held = [d \in Timers |-> FALSE] /\ t \in Timers
  BY DEF HouseInit, Init, RepeatsWith, Timers
<1> QED  BY <1>1 DEF RepeatInv, OnStack, InCall, Says

(* A callback starts at rest, with its script still to be carried out.     *)
LEMMA RepeatStarts ==
    ASSUME WalkInv, NEW t \in Devices, NEW b \in Devices, RepeatsWith(t, b), RepeatInv(t, b),
           \/ \E d \in Buttons : Press(d) \/ Release(d)
           \/ \E d \in Timers : Timeout(d)
           \/ \E d \in Schedules : ScheduleTick(d)
    PROVE  RepeatInv(t, b)'
<1>0. /\ EngineInv /\ t \in Timers /\ Kind[t] = "TIMER" /\ Kind[b] = "FTS14EM"
      /\ held \in [Timers -> BOOLEAN]
  BY DEF WalkInv, HouseInv, RepeatsWith, Timers, EngineInv, TypeOK
<1>1. /\ stack = <<>> /\ script = <<>> /\ stack' = <<>> /\ val' = val
      /\ held'[t] => held[t]
  BY <1>0 DEF Press, Release, Timeout, ScheduleTick, Resting
<1>2. held[t] => val[b] = 1
  BY <1>1 DEF RepeatInv, Says
<1>3. ~OnStack(stack', b, "PRESS") /\ ~OnStack(stack', t, "TIMEOUT")
  BY <1>1 DEF OnStack
<1>4. ASSUME ~Says(Raise(t, "TIMEOUT"))' \/ (val[b] = 1 /\ ~Says(Assign(b, 0))'),
             ~Says(Raise(b, "PRESS"))' \/ script' = <<Raise(b, "PRESS"), Assign(b, 1)>>,
             ~Says(Assign(b, 0))' \/ \E e : script' = <<Raise(b, "RELEASE"), Assign(b, 0), Raise(b, e)>>
      PROVE  RepeatInv(t, b)'
  <2>1. ASSUME NEW i \in 1 .. Len(script'), script'[i] = Raise(b, "PRESS")
        PROVE  \E j \in i + 1 .. Len(script') : script'[j] = Assign(b, 1)
    <3>1. script' = <<Raise(b, "PRESS"), Assign(b, 1)>>
      BY <1>4, <2>1 DEF Says
    <3>2. Len(script') = 2 /\ script'[2] = Assign(b, 1)
      BY <3>1
    <3>3. i # 2
      BY <2>1, <3>2, OpsDiffer
    <3> QED  BY <3>2, <3>3
  <2>2. ASSUME NEW i \in 1 .. Len(script'), script'[i] = Assign(b, 0)
        PROVE  \E j \in 1 .. i - 1 : script'[j] = Raise(b, "RELEASE")
    <3>1. PICK e : script' = <<Raise(b, "RELEASE"), Assign(b, 0), Raise(b, e)>>
      BY <1>4, <2>2 DEF Says
    <3>2. Len(script') = 3 /\ script'[1] = Raise(b, "RELEASE")
      BY <3>1
    <3>3. i # 1
      BY <2>2, <3>2, OpsDiffer
    <3> QED  BY <3>2, <3>3
  <2>3. ~(Says(Assign(b, 0))' /\ Says(Assign(b, 1))')
    <3> SUFFICES ASSUME Says(Assign(b, 0))', Says(Assign(b, 1))' PROVE FALSE
      OBVIOUS
    <3>1. PICK e : script' = <<Raise(b, "RELEASE"), Assign(b, 0), Raise(b, e)>>
      BY <1>4
    <3>2. /\ Len(script') = 3 /\ script'[1] = Raise(b, "RELEASE")
          /\ script'[2] = Assign(b, 0) /\ script'[3] = Raise(b, e)
      BY <3>1
    <3>3. PICK i \in 1 .. 3 : script'[i] = Assign(b, 1)
      BY <3>2 DEF Says
    <3>4. i = 1 \/ i = 2 \/ i = 3
      OBVIOUS
    <3> QED  BY <3>2, <3>3, <3>4, OpsDiffer
  <2>4. InCall(t, "TIMEOUT")' => val'[b] = 1 /\ ~Says(Assign(b, 0))'
    BY <1>1, <1>3, <1>4 DEF InCall, Says
  <2>5. held'[t] => val'[b] = 1
    BY <1>1, <1>2
  <2> QED  BY <1>3, <2>1, <2>2, <2>3, <2>4, <2>5 DEF RepeatInv
<1>5. ASSUME NEW d \in Buttons, Press(d) PROVE RepeatInv(t, b)'
  <2>1. script' = <<Raise(d, "PRESS"), Assign(d, 1)>>
    BY <1>5 DEF Press
  <2>2. Len(script') = 2 /\ script'[1] = Raise(d, "PRESS") /\ script'[2] = Assign(d, 1)
    BY <2>1
  <2>3. \A i \in 1 .. 2 : i = 1 \/ i = 2
    OBVIOUS
  <2>4. \A p : Says(p)' => p = Raise(d, "PRESS") \/ p = Assign(d, 1)
    BY <2>2, <2>3 DEF Says
  <2>5. ~Says(Raise(t, "TIMEOUT"))' /\ ~Says(Assign(b, 0))'
    BY <2>4, OpsDiffer
  <2>6. Says(Raise(b, "PRESS"))' => d = b
    BY <2>4, OpsDiffer
  <2> QED  BY <1>4, <2>1, <2>5, <2>6
<1>6. ASSUME NEW d \in Buttons, Release(d) PROVE RepeatInv(t, b)'
  <2>1. PICK e \in {"SHORT_PRESS", "LONG_PRESS"} :
           script' = <<Raise(d, "RELEASE"), Assign(d, 0), Raise(d, e)>>
    BY <1>6 DEF Release
  <2>2. /\ Len(script') = 3 /\ script'[1] = Raise(d, "RELEASE")
        /\ script'[2] = Assign(d, 0) /\ script'[3] = Raise(d, e)
    BY <2>1
  <2>3. \A i \in 1 .. 3 : i = 1 \/ i = 2 \/ i = 3
    OBVIOUS
  <2>4. \A p : Says(p)' => p = Raise(d, "RELEASE") \/ p = Assign(d, 0) \/ p = Raise(d, e)
    BY <2>2, <2>3 DEF Says
  <2>5. ~Says(Raise(t, "TIMEOUT"))' /\ ~Says(Raise(b, "PRESS"))'
    BY <2>4, OpsDiffer
  <2>6. Says(Assign(b, 0))' => d = b
    BY <2>4, OpsDiffer
  <2> QED  BY <1>4, <2>1, <2>5, <2>6
<1>7. ASSUME NEW d \in Timers, Timeout(d) PROVE RepeatInv(t, b)'
  <2>1. script' = <<Raise(d, "TIMEOUT")>>
    BY <1>7 DEF Timeout
  <2>2. Len(script') = 1 /\ script'[1] = Raise(d, "TIMEOUT")
    BY <2>1
  <2>3. \A p : Says(p)' => p = Raise(d, "TIMEOUT")
    BY <2>2 DEF Says
  <2>4. ~Says(Raise(b, "PRESS"))' /\ ~Says(Assign(b, 0))'
    BY <2>3, OpsDiffer
  <2>5. Says(Raise(t, "TIMEOUT"))' => d = t
    BY <2>3, OpsDiffer
  <2>6. d = t => held[t]
    BY <1>0, <1>7 DEF Timeout, EngineInv, TypeOK, TimerHandles
  <2> QED  BY <1>2, <1>4, <2>4, <2>5, <2>6
<1>8. ASSUME NEW d \in Schedules, ScheduleTick(d) PROVE RepeatInv(t, b)'
  <2>1. PICK e \in {"SET", "UNSET"} :
           script' = <<Raise(d, e), Assign(d, IF e = "SET" THEN 1 ELSE 0)>>
    BY <1>8 DEF ScheduleTick
  <2>2. /\ Len(script') = 2 /\ script'[1] = Raise(d, e)
        /\ script'[2] = Assign(d, IF e = "SET" THEN 1 ELSE 0)
    BY <2>1
  <2>3. \A i \in 1 .. 2 : i = 1 \/ i = 2
    OBVIOUS
  <2>4. \A p : Says(p)' => p = Raise(d, e) \/ \E n : p = Assign(d, n)
    BY <2>2, <2>3 DEF Says
  <2>5. d # b
    BY <1>0 DEF Schedules
  <2>6. ~Says(Raise(t, "TIMEOUT"))' /\ ~Says(Raise(b, "PRESS"))' /\ ~Says(Assign(b, 0))'
    BY <2>4, <2>5, OpsDiffer
  <2> QED  BY <1>4, <2>6
<1> QED  BY <1>5, <1>6, <1>7, <1>8

LEMMA RepeatNext ==
    ASSUME WalkInv, [HouseNext]_houseVars,
           NEW t \in Devices, NEW b \in Devices, RepeatsWith(t, b), RepeatInv(t, b)
    PROVE  RepeatInv(t, b)'
<1>0. EngineInv
  BY DEF WalkInv, HouseInv
<1>1. CASE PassRule \/ EnterRule \/ LeaveRule \/ Return
  <2>1. script' = script /\ val' = val /\ held' = held
    BY <1>1 DEF PassRule, EnterRule, LeaveRule, Return
  <2>2. Bound(stack, b, "RELEASE", t, "UNSET") => Bound(stack', b, "RELEASE", t, "UNSET")
    BY <1>0, <1>1, WalkKeeps
  <2>3. /\ OnStack(stack', b, "PRESS") => OnStack(stack, b, "PRESS")
        /\ OnStack(stack', t, "TIMEOUT") => OnStack(stack, t, "TIMEOUT")
    BY <1>0, <1>1, WalkFrames
  <2> QED  BY <2>1, <2>2, <2>3, RepeatStays
<1>2. CASE Continue
  BY <1>0, <1>2, RepeatContinues
<1>3. CASE \/ \E d \in Buttons : Press(d) \/ Release(d)
           \/ \E d \in Timers : Timeout(d)
           \/ \E d \in Schedules : ScheduleTick(d)
  BY <1>3, RepeatStarts
<1>4. CASE RunAction
  <2> DEFINE c == NextAction
             s == WithTop(Advanced)
  <2>1. /\ c \in ActionRecords /\ s \in Seq(Frames) /\ Perform(c, s) /\ script' = script
        /\ Top.rule \in 1 .. Len(Rules) /\ Top.act \in ActionsOf(Top.rule) /\ Matches(Top)
        /\ c = Rules[Top.rule].acts[Top.act] /\ Len(stack) \in 1 .. Len(stack)
    BY <1>4, ActionRuns
  <2>2. \A d, e : OnStack(s, d, e) => OnStack(stack, d, e)
    BY <1>4, AdvancedFrames
  <2>3. ~(c.dev = t /\ c.type = "UNSET") /\ Bound(stack, b, "RELEASE", t, "UNSET")
            => Bound(s, b, "RELEASE", t, "UNSET")
    BY <1>0, <1>4, ActionKeeps DEF Advanced
  <2>4. c.dev = t /\ c.type = "SET"
            => OnStack(stack, b, "PRESS") \/ OnStack(stack, t, "TIMEOUT")
    <3>1. c.dev = t /\ c.type = "SET" =>
             \/ Top.dev = b /\ Top.ev = "PRESS"
             \/ Top.dev = t /\ Top.ev = "TIMEOUT"
      BY <2>1 DEF RepeatsWith, Matches
    <3> QED  BY <2>1, <3>1 DEF OnStack, Top
  <2> HIDE DEF c, s
  <2> QED  BY <2>1, <2>2, <2>3, <2>4, RepeatPerforms
<1>5. ASSUME NEW c \in Commands, RemoteDo(c) PROVE RepeatInv(t, b)'
  <2>1. /\ c \in ActionRecords /\ stack \in Seq(Frames) /\ Perform(c, stack) /\ script' = script
    BY <1>0, <1>5, ConfigAssumption DEF RemoteDo, EngineInv, TypeOK
  <2>2. c.dev = t => c.type # "SET"
    BY DEF RepeatsWith
  <2> QED  BY <2>1, <2>2, RepeatPerforms
<1>6. CASE Restarts
  <2>1. stack' = <<>> /\ script' = <<>> /\ held'[t] = FALSE
    BY <1>6, StartRestores DEF RepeatsWith, Timers
  <2> QED  BY <2>1 DEF RepeatInv, OnStack, InCall, Says
<1>7. CASE UNCHANGED vars
  BY <1>7, RepeatStays DEF vars
<1>8. Save => UNCHANGED vars
  BY DEF Save
<1>9. UNCHANGED houseVars => UNCHANGED vars
  BY DEF houseVars
<1> QED  BY <1>1, <1>2, <1>3, <1>4, <1>5, <1>6, <1>7, <1>8, <1>9, StepSplits DEF Quiet

AllRepeat == WalkInv /\ \A p \in Repeaters : RepeatInv(p[1], p[2])

(* A timer that repeats while a button is held stops with it, whatever the *)
(* other rules are: at rest it is armed only while a press is remembered.  *)
THEOREM RepetitionStops == HouseSpec => []RepeatsStop
<1>1. HouseInit => AllRepeat
  BY WalkInvInit, RepeatInit DEF AllRepeat, Repeaters
<1>2. AllRepeat /\ [HouseNext]_houseVars => AllRepeat'
  <2> SUFFICES ASSUME AllRepeat, [HouseNext]_houseVars PROVE AllRepeat'
    OBVIOUS
  <2>1. WalkInv /\ WalkInv'
    BY WalkInvNext DEF AllRepeat
  <2>2. ASSUME NEW p \in Repeaters PROVE RepeatInv(p[1], p[2])'
    <3>1. p[1] \in Devices /\ p[2] \in Devices /\ RepeatsWith(p[1], p[2]) /\ RepeatInv(p[1], p[2])
      BY <2>2 DEF Repeaters, AllRepeat
    <3> QED  BY <2>1, <3>1, RepeatNext
  <2> QED  BY <2>1, <2>2 DEF AllRepeat
<1>3. AllRepeat => RepeatsStop
  <2> SUFFICES ASSUME AllRepeat, Resting, NEW p \in Repeaters, held[p[1]] PROVE val[p[2]] = 1
    BY DEF RepeatsStop
  <2>1. RepeatInv(p[1], p[2])
    BY DEF AllRepeat
  <2> QED  BY <2>1 DEF RepeatInv, Says, Resting
<1> QED  BY <1>1, <1>2, <1>3, PTL DEF HouseSpec

-----------------------------------------------------------------------------
(* Dimming.  On the way down a level differs from full by a multiple of    *)
(* the interval, so it never meets zero and wraps past it.                 *)
DimInv(d) ==
    /\ val[d] \in 0 .. DimMax
    /\ dir[d] = 0 => val[d] % DimInterval = DimMax % DimInterval
    /\ file # NoFile => file[d] \in 0 .. DimMax

LEMMA Remainder ==
    ASSUME NEW n \in Nat \ {0}, NEW q \in Nat, NEW r \in 0 .. n - 1
    PROVE  (n * q + r) % n = r
  OBVIOUS

LEMMA RemainderDown ==
    ASSUME NEW n \in Nat \ {0}, NEW v \in Nat, v >= n
    PROVE  (v - n) % n = v % n
<1>1. PICK q \in Nat, r \in 0 .. n - 1 : v = n * q + r
  <2>1. v \div n \in Nat /\ v % n \in 0 .. n - 1 /\ v = n * (v \div n) + (v % n)
    OBVIOUS
  <2> QED  BY <2>1
<1>2. q # 0
  <2> SUFFICES ASSUME q = 0 PROVE FALSE
    OBVIOUS
  <2>1. n * q = 0
    OBVIOUS
  <2> QED  BY <1>1, <2>1
<1>3. q - 1 \in Nat /\ v - n = n * (q - 1) + r
  BY <1>1, <1>2
<1>4. v % n = r
  BY <1>1, Remainder
<1>5. (n * (q - 1) + r) % n = r
  BY <1>3, Remainder
<1> QED  BY <1>3, <1>4, <1>5

LEMMA DimmedKeeps ==
    ASSUME NEW v \in 0 .. DimMax, NEW d \in 0 .. 1,
           DimMax % DimInterval # 0, DimMax + DimInterval <= 255,
           d = 0 => v % DimInterval = DimMax % DimInterval
    PROVE  /\ Dimmed(v, d).val \in 1 .. DimMax
           /\ Dimmed(v, d).dir = 0 => Dimmed(v, d).val % DimInterval = DimMax % DimInterval
<1> DEFINE raw == Uint8(IF d = 1 THEN v + DimInterval ELSE v - DimInterval)
           top == IF raw >= DimMax THEN [val |-> DimMax, dir |-> 0]
                                   ELSE [val |-> raw, dir |-> d]
<1>1. DimMax \in 1 .. 255 /\ DimInterval \in 1 .. 255 /\ v \in Nat
  BY DimAssumption
<1>2. 0 % DimInterval = 0
  BY <1>1
<1>3. raw \in 1 .. 255
  <2>1. CASE d = 1
    BY <1>1, <2>1 DEF Uint8
  <2>2. CASE d = 0 /\ v >= DimInterval
    <3>1. v # DimInterval
      <4>1. DimInterval % DimInterval = 0
        BY <1>1
      <4> QED  BY <2>2, <4>1
    <3> QED  BY <1>1, <2>2, <3>1 DEF Uint8
  <2>3. CASE d = 0 /\ v < DimInterval
    BY <1>1, <1>2, <2>3 DEF Uint8
  <2> QED  BY <1>1, <2>1, <2>2, <2>3
<1>4. raw < DimMax /\ d = 0 => raw % DimInterval = DimMax % DimInterval
  <2> SUFFICES ASSUME raw < DimMax, d = 0 PROVE raw % DimInterval = DimMax % DimInterval
    OBVIOUS
  <2>1. v >= DimInterval
    <3> SUFFICES ASSUME v < DimInterval PROVE FALSE
      BY <1>1
    <3>1. v # 0
      BY <1>2
    <3>2. raw = 256 + v - DimInterval
      BY <1>1, <3>1 DEF Uint8
    <3> QED  BY <1>1, <3>2
  <2>2. raw = v - DimInterval
    BY <1>1, <2>1 DEF Uint8
  <2>3. (v - DimInterval) % DimInterval = v % DimInterval
    <3>1. DimInterval \in Nat \ {0} /\ v \in Nat
      BY <1>1
    <3> QED  BY <2>1, <3>1, RemainderDown, Zenon
  <2> QED  BY <2>2, <2>3
<1>5. Dimmed(v, d) = IF top.val <= DimMin THEN [val |-> DimMin, dir |-> 1] ELSE top
  BY DEF Dimmed
<1> HIDE DEF raw
<1>6. top.val \in 1 .. DimMax
  BY <1>1, <1>3
<1>7. top.dir = 0 => top.val % DimInterval = DimMax % DimInterval
  <2>1. CASE raw >= DimMax
    <3>1. top = [val |-> DimMax, dir |-> 0]
      BY <2>1
    <3> QED  BY <3>1
  <2>2. CASE ~(raw >= DimMax)
    <3>1. top = [val |-> raw, dir |-> d] /\ raw < DimMax
      BY <1>1, <1>3, <2>2
    <3> QED  BY <1>4, <3>1
  <2> QED  BY <2>1, <2>2
<1> HIDE DEF top
<1>8. Dimmed(v, d) = top
  BY <1>1, <1>5, <1>6 DEF DimMin
<1> QED  BY <1>6, <1>7, <1>8

LEMMA PerformDims ==
    ASSUME EngineInv, NEW d \in Devices, DimsByInterval(d), DimInv(d),
           NEW c \in ActionRecords, NEW s, Perform(c, s), c.dev = d => c.opt = NoOption
    PROVE  /\ val'[d] \in 0 .. DimMax
           /\ dir'[d] = 0 => val'[d] % DimInterval = DimMax % DimInterval
           /\ c.dev = d /\ c.type = "DIM" => val'[d] > 0
<1>1. CASE c.dev # d
  BY <1>1, PerformElsewhere DEF DimInv
<1>2. CASE c.dev = d
  <2> DEFINE new == DimmerAfter(c.type, NoOption, val[d], dir[d])
  <2>1. /\ Kind[d] = "FUD14" /\ c.type \in ActionTypes /\ c.opt = NoOption
        /\ DimMax % DimInterval # 0 /\ DimMax + DimInterval <= 255
        /\ dir[d] \in 0 .. 1 /\ DimMax \in 1 .. 255
    BY <1>2, DimAssumption DEF DimsByInterval, ActionRecords, EngineInv, TypeOK
  <2>2. After("FUD14", c.type, NoOption, val[d], dir[d]) = new
    BY <2>1 DEF After, Supported
  <2>3. val'[d] = new.val /\ dir'[d] = new.dir
    BY <1>2, <2>1, <2>2, PerformHere
  <2>4. CASE c.type = "DIM"
    <3>1. new = Dimmed(val[d], dir[d])
      BY <2>4 DEF DimmerAfter
    <3>2. /\ Dimmed(val[d], dir[d]).val \in 1 .. DimMax
          /\ Dimmed(val[d], dir[d]).dir = 0
                => Dimmed(val[d], dir[d]).val % DimInterval = DimMax % DimInterval
      BY <2>1, DimmedKeeps DEF DimInv
    <3> HIDE DEF new
    <3>3. val'[d] \in 1 .. DimMax
      BY <2>3, <3>1, <3>2
    <3>4. val'[d] \in 0 .. DimMax /\ val'[d] > 0
      BY <2>1, <3>3
    <3> QED  BY <2>3, <3>1, <3>2, <3>4
  <2>5. CASE c.type # "DIM"
    <3>1. FullLevel(NoOption) = DimMax
      BY DEF FullLevel
    <3>2. new \in {[val |-> DimMax, dir |-> 0], [val |-> 0, dir |-> 1]}
      BY <2>1, <2>5, <3>1 DEF DimmerAfter, ActionTypes
    <3> HIDE DEF new
    <3>3. CASE new = [val |-> DimMax, dir |-> 0]
      BY <1>2, <2>1, <2>3, <2>5, <3>3
    <3>4. CASE new = [val |-> 0, dir |-> 1]
      BY <1>2, <2>1, <2>3, <2>5, <3>4
    <3> QED  BY <3>2, <3>3, <3>4
  <2> QED  BY <2>4, <2>5
<1> QED  BY <1>1, <1>2

LEMMA DimInit ==
    ASSUME HouseInit, NEW d \in Devices, DimsByInterval(d)
    PROVE  DimInv(d)
<1>1. Kind[d] = "FUD14" /\ d \in Stored /\ DimMax \in 1 .. 255
  BY DimAssumption DEF DimsByInterval, Stored
<1>2. val[d] \in InitialLevels(Kind[d]) /\ file = Snapshot(val) /\ dir[d] = 1
  BY DEF HouseInit, Init
<1>3. val[d] = 0
  BY <1>1, <1>2 DEF InitialLevels
<1> QED  BY <1>1, <1>2, <1>3 DEF DimInv, Snapshot

(* An action of a rule or a command, for a dimmer that takes no options.   *)
LEMMA DimRuns ==
    ASSUME WalkInv, RunAction, NEW d \in Devices, DimsByInterval(d), DimInv(d)
    PROVE  /\ val'[d] \in 0 .. DimMax
           /\ dir'[d] = 0 => val'[d] % DimInterval = DimMax % DimInterval
           /\ Dims(d) => val'[d] > 0
<1> DEFINE c == NextAction
<1>1. /\ c \in ActionRecords /\ Perform(c, WithTop(Advanced)) /\ EngineInv
      /\ Top.rule \in 1 .. Len(Rules) /\ Top.act \in ActionsOf(Top.rule)
      /\ c = Rules[Top.rule].acts[Top.act]
  BY ActionRuns DEF WalkInv, HouseInv
<1>2. c.dev = d => c.opt = NoOption
  BY <1>1 DEF DimsByInterval
<1>3. Dims(d) => c.dev = d /\ c.type = "DIM"
  BY DEF Dims
<1> HIDE DEF c
<1> QED  BY <1>1, <1>2, <1>3, PerformDims

LEMMA DimNext ==
    ASSUME WalkInv, [HouseNext]_houseVars, NEW d \in Devices, DimsByInterval(d), DimInv(d)
    PROVE  DimInv(d)'
<1>0. EngineInv /\ Kind[d] = "FUD14" /\ d \in Stored /\ DimMax \in 1 .. 255
  BY DimAssumption DEF WalkInv, HouseInv, DimsByInterval, Stored
<1>1. CASE EngineNext /\ Quiet
  <2>1. val'[d] = val[d] /\ dir'[d] = dir[d] /\ file' = file
    BY <1>0, <1>1, QuietLevel DEF EngineNext
  <2> QED  BY <2>1 DEF DimInv
<1>2. CASE EngineNext /\ RunAction
  BY <1>2, DimRuns DEF EngineNext, DimInv
<1>3. ASSUME EngineNext, NEW c \in Commands, RemoteDo(c) PROVE DimInv(d)'
  <2>1. c \in ActionRecords /\ Perform(c, stack) /\ (c.dev = d => c.opt = NoOption)
    BY <1>3, ConfigAssumption DEF RemoteDo, DimsByInterval
  <2>2. /\ val'[d] \in 0 .. DimMax
        /\ dir'[d] = 0 => val'[d] % DimInterval = DimMax % DimInterval
    BY <1>0, <2>1, PerformDims
  <2> QED  BY <1>3, <2>2 DEF EngineNext, DimInv
<1>4. CASE Save
  <2>1. UNCHANGED vars /\ (file' # NoFile => file'[d] = val[d])
    BY <1>0, <1>4, SaveWrites
  <2> QED  BY <2>1 DEF vars, DimInv
<1>5. CASE Restarts
  <2>1. /\ file # NoFile => val'[d] = file[d]
        /\ file = NoFile => val'[d] = 0
        /\ file'[d] = val'[d]
        /\ dir'[d] = 1
    BY <1>0, <1>5, StartRestores
  <2>2. file # NoFile => file[d] \in 0 .. DimMax
    BY DEF DimInv
  <2>3. 0 \in 0 .. DimMax
    BY <1>0
  <2>4. val'[d] \in 0 .. DimMax
    BY <2>1, <2>2, <2>3
  <2> QED  BY <2>1, <2>4 DEF DimInv
<1>6. CASE UNCHANGED houseVars
  BY <1>6 DEF houseVars, vars, DimInv
<1> QED  BY <1>1, <1>2, <1>3, <1>4, <1>5, <1>6, StepSplits

AllDim == WalkInv /\ \A d \in Dimmers : DimInv(d)

(* No rule that dims a light darkens it, for every interval that does not  *)
(* divide the full level and leaves room above it in a byte.               *)
THEOREM LightKept == HouseSpec => DimKeepsLight
<1>1. HouseInit => AllDim
  BY WalkInvInit, DimInit DEF AllDim, Dimmers
<1>2. AllDim /\ [HouseNext]_houseVars => AllDim'
  <2> SUFFICES ASSUME AllDim, [HouseNext]_houseVars PROVE AllDim'
    OBVIOUS
  <2>1. WalkInv /\ WalkInv'
    BY WalkInvNext DEF AllDim
  <2>2. ASSUME NEW d \in Dimmers PROVE DimInv(d)'
    BY <2>1, DimNext DEF Dimmers, AllDim
  <2> QED  BY <2>1, <2>2 DEF AllDim
<1>3. AllDim /\ [HouseNext]_houseVars => [\A d \in Dimmers : Dims(d) => val'[d] > 0]_vars
  <2> SUFFICES ASSUME AllDim, NEW d \in Dimmers, Dims(d) PROVE val'[d] > 0
    OBVIOUS
  <2>1. WalkInv /\ RunAction /\ d \in Devices /\ DimsByInterval(d) /\ DimInv(d)
    BY DEF AllDim, Dimmers, Dims
  <2> QED  BY <2>1, DimRuns
<1> QED  BY <1>1, <1>2, <1>3, PTL DEF HouseSpec, DimKeepsLight
-----------------------------------------------------------------------------
(* Following.  f agrees with m unless the rule that is to switch it is     *)
(* still ahead of a frame of m, or it is a timer that has fired and is yet *)
(* to switch m off; and two devices that are stored agree in the file.     *)
Loud == \A i \in 1 .. Len(stack) : stack[i].dev \notin silent

Behind(s, f, m) == \E e \in {"SET", "UNSET"} : Bound(s, m, e, f, e)

Expiring(f, m) ==
    /\ Kind[f] = "TIMER"
    /\ Says(Raise(f, "TIMEOUT")) \/ Bound(stack, f, "TIMEOUT", m, "UNSET")

Due(f, m) == IsOn(m) /\ ~(m \in silent /\ f \notin Stored)

Agrees(f, m) ==
    ~Behind(stack, f, m) => /\ IsOn(f) => Due(f, m)
                            /\ Due(f, m) /\ ~Expiring(f, m) => IsOn(f)

FollowInv(f, m) ==
    /\ Agrees(f, m)
    /\ file # NoFile /\ f \in Stored => (file[f] > 0 <=> file[m] > 0)

FollowBase == RankHouseInv /\ WalkInv /\ Loud

LEMMA FollowKinds ==
    ASSUME NEW f \in Devices, NEW m \in Devices, Follows(f, m)
    PROVE  /\ f # m /\ Kind[m] \in {"BOOL", "FSR14", "FUD14"} /\ m \in Stored
           /\ Kind[f] \in {"TIMER", "GPO", "FSR14"}
           /\ f \in Stored => Kind[f] = "FSR14" /\ Kind[m] # "BOOL"
           /\ Kind[f] = "FSR14" => f \in Stored
           /\ Kind[f] = "TIMER" => f \in Timers
<1>1. /\ Kind[m] \in Echoing
      /\ Kind[f] \in {"TIMER", "GPO"} \/ (Kind[f] = "FSR14" /\ Kind[m] # "BOOL")
      /\ Sure(m, "SET", f, "SET")
  BY DEF Follows
<1>2. f # m
  <2>1. CASE Kind[f] \notin Echoing
    BY <1>1, <2>1
  <2>2. CASE Kind[f] \in Echoing
    <3>1. PICK r \in 1 .. Len(Rules) :
             Rules[r].dev = m /\ \E i \in ActionsOf(r) : Rules[r].acts[i].dev = f
      BY <1>1 DEF Sure
    <3>2. Rank[f] < Rank[m]
      BY <2>2, <3>1, RankAssumption DEF ActionsOf
    <3>3. Rank[m] \in Nat
      BY RankAssumption
    <3> QED  BY <3>2, <3>3
  <2> QED  BY <2>1, <2>2
<1> QED  BY <1>1, <1>2 DEF Echoing, Stored, Timers

(* Whatever m has just announced, f is still to be told.                   *)
LEMMA Told ==
    ASSUME NEW f \in Devices, NEW m \in Devices, Follows(f, m), NEW s \in Seq(Frames),
           NEW e \in {"SET", "UNSET"}
    PROVE  Behind(Append(s, Frame(m, e)), f, m)
<1>1. Frame(m, e) \in Frames
  BY FrameIsFrame DEF EventTypes
<1>2. Ahead(Frame(m, e), f, e)
  BY AheadAtFirst DEF Follows
<1>3. Frame(m, e).dev = m /\ Frame(m, e).ev = e
  BY DEF Frame
<1>4. Bound(Append(s, Frame(m, e)), m, e, f, e)
  BY <1>1, <1>2, <1>3, BoundAppend
<1> QED  BY <1>4 DEF Behind

(* An action that does not act on f: one on m that changes it tells f.     *)
LEMMA PerformAgrees ==
    ASSUME EngineInv, NEW f \in Devices, NEW m \in Devices, Follows(f, m), Agrees(f, m),
           NEW c \in ActionRecords, NEW s \in Seq(Frames), Perform(c, s), c.dev # f,
           script' = script, silent' = silent \ Heard,
           \A i \in 1 .. Len(s) : s[i].dev \notin silent,
           Behind(stack, f, m) => Behind(s, f, m),
           Bound(stack, f, "TIMEOUT", m, "UNSET")
               => \/ Bound(s, f, "TIMEOUT", m, "UNSET")
                  \/ c.dev = m /\ c.type = "UNSET"
    PROVE  Agrees(f, m)'
<1>0. /\ f # m /\ Kind[m] \in {"BOOL", "FSR14", "FUD14"} /\ Kind[m] # "TIMER"
      /\ Kind[f] = "TIMER" => f \in Timers
  BY FollowKinds
<1>1. IsOn(f)' <=> IsOn(f)
  <2>1. val'[f] = val[f] /\ (f \in Timers => held'[f] = held[f])
    BY PerformElsewhere
  <2> QED  BY <1>0, <2>1 DEF IsOn
<1>2. \A d, e, x, t : Bound(s, d, e, x, t) => Bound(stack', d, e, x, t)
  BY PerformStack, BoundAppend
<1>3. Behind(stack, f, m) => Behind(stack', f, m)
  BY <1>2 DEF Behind
<1>4. CASE stack' = s /\ val'[m] = val[m]
  <2>1. m \in silent' <=> m \in silent
    BY <1>4 DEF Heard
  <2>2. Due(f, m)' <=> Due(f, m)
    BY <1>0, <1>4, <2>1 DEF Due, IsOn
  <2>3. ASSUME Expiring(f, m), ~Expiring(f, m)' PROVE ~Due(f, m)'
    <3>1. Kind[f] = "TIMER" /\ Bound(stack, f, "TIMEOUT", m, "UNSET")
          /\ ~Bound(stack', f, "TIMEOUT", m, "UNSET")
      BY <2>3 DEF Expiring, Says
    <3>2. c.dev = m /\ c.type = "UNSET"
      BY <1>2, <3>1
    <3>3. val'[m] = 0
      BY <1>0, <3>2, PerformHere DEF After, Supported, SwitchAfter, DimmerAfter, ActionTypes
    <3> QED  BY <1>0, <3>3 DEF Due, IsOn
  <2>4. Agrees(f, m) => Agrees(f, m)'
    BY <1>1, <1>3, <2>2, <2>3 DEF Agrees
  <2> QED  BY <2>4
<1>5. CASE c.dev = m /\ ~(stack' = s /\ val'[m] = val[m])
  <2> DEFINE new == After(Kind[m], c.type, c.opt, val[m], dir[m])
  <2>1. /\ val'[m] = new.val
        /\ Raises(Kind[m], c.type, val[m], new.val)
              => stack' = Append(s, Frame(m, RaisedEvent(Kind[m], new.val)))
        /\ ~Raises(Kind[m], c.type, val[m], new.val) => stack' = s
    BY <1>0, <1>5, PerformHere
  <2>2. c.type \notin Supported(Kind[m]) => new.val = val[m]
    BY DEF After
  <2> HIDE DEF new
  <2>3. Raises(Kind[m], c.type, val[m], new.val)
    BY <1>0, <1>5, <2>1, <2>2 DEF Raises
  <2>4. RaisedEvent(Kind[m], new.val) \in {"SET", "UNSET"}
    BY DEF RaisedEvent
  <2>5. Behind(stack', f, m)
    BY <2>1, <2>3, <2>4, Told
  <2> QED  BY <2>5 DEF Agrees
<1>6. CASE c.dev # m /\ stack' # s
  <2>1. PICK e : stack' = Append(s, Frame(c.dev, e))
    BY <1>6, PerformStack
  <2>2. val'[m] = val[m]
    BY <1>6, PerformElsewhere
  <2>3. m \in silent' <=> m \in silent
    <3> DEFINE t == Append(s, Frame(c.dev, e))
    <3>1. /\ Len(s) \in Nat /\ Len(t) = Len(s) + 1 /\ t[Len(s) + 1] = Frame(c.dev, e)
          /\ \A j \in 1 .. Len(s) : t[j] = s[j]
      OBVIOUS
    <3>2. Frame(c.dev, e).dev = c.dev
      BY DEF Frame
    <3> HIDE DEF t
    <3>3. \A i \in 1 .. Len(t) : m \in silent => t[i].dev # m
      <4> TAKE i \in 1 .. Len(t)
      <4>1. CASE i = Len(s) + 1
        BY <1>6, <3>1, <3>2, <4>1
      <4>2. CASE i # Len(s) + 1
        <5>1. i \in 1 .. Len(s)
          BY <3>1, <4>2
        <5> QED  BY <3>1, <5>1
      <4> QED  BY <4>1, <4>2
    <3>4. stack' = t
      BY <2>1 DEF t
    <3> QED  BY <3>3, <3>4 DEF Heard
  <2>4. Due(f, m)' <=> Due(f, m)
    BY <1>0, <2>2, <2>3 DEF Due, IsOn
  <2>5. Expiring(f, m) => Expiring(f, m)'
    BY <1>2, <1>6 DEF Expiring, Says
  <2> QED  BY <1>1, <1>3, <2>4, <2>5 DEF Agrees
<1>7. CASE c.dev # m /\ stack' = s
  BY <1>4, <1>7, PerformElsewhere
<1> QED  BY <1>4, <1>5, <1>6, <1>7
(* An action on f is one of a rule of m for the event of that name, and    *)
(* the event is true.                                                      *)
LEMMA SwitchAgrees ==
    ASSUME RankInv, WalkInv, Loud, NEW f \in Devices, NEW m \in Devices, Follows(f, m),
           RunAction, NextAction.dev = f, silent' = silent \ Heard
    PROVE  Agrees(f, m)'
<1>0. /\ f # m /\ Kind[m] \in {"BOOL", "FSR14", "FUD14"} /\ EngineInv
      /\ Kind[f] \in {"TIMER", "GPO", "FSR14"}
  BY FollowKinds DEF RankInv
<1> DEFINE c == NextAction
           s == WithTop(Advanced)
           e == Top.ev
<1>1. /\ c \in ActionRecords /\ s \in Seq(Frames) /\ Perform(c, s) /\ c.dev = f
      /\ Top.rule \in 1 .. Len(Rules) /\ Top.act \in ActionsOf(Top.rule) /\ Matches(Top)
      /\ c = Rules[Top.rule].acts[Top.act] /\ Len(stack) \in 1 .. Len(stack)
  BY ActionRuns
<1>2. Top.dev = m /\ c.type = e
  <2>1. Rules[Top.rule].dev = m /\ Rules[Top.rule].ev = c.type
    BY <1>1 DEF Follows
  <2> QED  BY <1>1, <2>1 DEF Matches
<1>3. e = RaisedEvent(Kind[m], val[m])
  <2>1. FrameSound(Top, Len(stack), val)
    BY <1>1 DEF RankInv, Sound, Top
  <2> QED  BY <1>0, <1>2, <2>1 DEF FrameSound, Echoing
<1>4. e \in {"SET", "UNSET"} /\ (e = "SET" <=> val[m] > 0)
  <2>1. val[m] \in Level(Kind[m])
    BY <1>0 DEF EngineInv, TypeOK
  <2>2. CASE Kind[m] = "BOOL"
    <3>1. val[m] \in -1 .. 1
      BY <2>1, <2>2 DEF Level
    <3> QED  BY <1>3, <2>2, <3>1 DEF RaisedEvent
  <2>3. CASE Kind[m] # "BOOL"
    <3>1. val[m] \in 0 .. 255
      BY <1>0, <2>1, <2>3 DEF Level
    <3> QED  BY <1>3, <2>3, <3>1 DEF RaisedEvent
  <2> QED  BY <2>2, <2>3
<1>5. m \notin silent
  BY <1>1, <1>2 DEF Loud, Top
<1> HIDE DEF c, s, e
<1>6. IsOn(f)' <=> e = "SET"
  <2>1. CASE Kind[f] = "TIMER"
    BY <1>0, <1>1, <1>2, <1>4, <2>1, PerformOnTimer DEF IsOn
  <2>2. CASE Kind[f] # "TIMER"
    <3>1. val'[f] = After(Kind[f], c.type, c.opt, val[f], dir[f]).val
      BY <1>0, <1>1, <2>2, PerformHere
    <3>2. c.type \in Supported(Kind[f]) /\ Kind[f] # "FUD14"
      BY <1>0, <1>2, <1>4, <2>2 DEF Supported
    <3>3. val'[f] = SwitchAfter(e, val[f])
      BY <1>2, <3>1, <3>2 DEF After
    <3>4. val'[f] = IF e = "SET" THEN 1 ELSE 0
      BY <1>4, <3>3 DEF SwitchAfter
    <3> QED  BY <2>2, <3>4 DEF IsOn
  <2> QED  BY <2>1, <2>2
<1>7. IsOn(m)' <=> val[m] > 0
  <2>1. val'[m] = val[m]
    BY <1>0, <1>1, PerformElsewhere
  <2> QED  BY <1>0, <2>1 DEF IsOn
<1> QED  BY <1>4, <1>5, <1>6, <1>7 DEF Agrees, Due

LEMMA QuietSilent ==
    ASSUME EngineInv, ScriptSources, Loud, Quiet, silent' = silent \ Heard,
           NEW m \in Devices, Kind[m] \in Echoing
    PROVE  m \in silent' <=> m \in silent
<1> SUFFICES ASSUME m \in silent, m \in Heard PROVE FALSE
  OBVIOUS
<1>1. PICK i \in 1 .. Len(stack') : stack'[i].dev = m
  BY DEF Heard
<1>2. CASE PassRule \/ EnterRule \/ LeaveRule \/ Return
  <2>1. PICK e : e = stack'[i].ev
    OBVIOUS
  <2>2. OnStack(stack', m, e)
    BY <1>1, <2>1 DEF OnStack
  <2>3. OnStack(stack, m, e)
    BY <1>2, <2>2, WalkFrames
  <2> QED  BY <2>3 DEF OnStack, Loud
<1>3. CASE Continue
  <2>1. script \in Seq(Ops) /\ script # <<>> /\ stack = <<>>
    BY <1>3 DEF Continue, EngineInv, TypeOK
  <2>2. Head(script) = script[1] /\ 1 \in 1 .. Len(script)
    BY <2>1
  <2>3. stack' = <<Frame(Head(script).dev, Head(script).arg)>> /\ Head(script).op = "raise"
    BY <1>1, <1>3, <2>1 DEF Continue
  <2>4. Kind[Head(script).dev] \notin Echoing
    BY <2>2, <2>3 DEF ScriptSources
  <2>5. stack'[i].dev = Head(script).dev
    BY <1>1, <2>3 DEF Frame
  <2> QED  BY <1>1, <2>4, <2>5
<1>4. CASE ~(PassRule \/ EnterRule \/ LeaveRule \/ Return \/ Continue)
  <2>1. stack' = <<>>
    BY <1>4 DEF Quiet, Press, Release, Timeout, ScheduleTick, Resting
  <2> QED  BY <1>1, <2>1
<1> QED  BY <1>2, <1>3, <1>4

(* A step that performs no action: a timer that fires is expiring, and     *)
(* remains so when its dispatch begins.                                    *)
LEMMA QuietAgrees ==
    ASSUME RankInv, Loud, Quiet, silent' = silent \ Heard,
           NEW f \in Devices, NEW m \in Devices, Follows(f, m), Agrees(f, m)
    PROVE  Agrees(f, m)'
<1>0. /\ Kind[m] \in {"BOOL", "FSR14", "FUD14"} /\ EngineInv /\ ScriptSources
      /\ Kind[f] \in {"TIMER", "GPO", "FSR14"}
      /\ Kind[f] = "TIMER" => f \in Timers
  BY FollowKinds DEF RankInv
<1>1. val'[f] = val[f] /\ val'[m] = val[m]
  BY <1>0, QuietLevel
<1>2. m \in silent' <=> m \in silent
  BY <1>0, QuietSilent DEF Echoing
<1>3. Due(f, m)' <=> Due(f, m)
  BY <1>0, <1>1, <1>2 DEF Due, IsOn
<1>4. \A d, e, x, t : Bound(stack, d, e, x, t) => Bound(stack', d, e, x, t)
  BY <1>0, QuietKeeps
<1>5. Behind(stack, f, m) => Behind(stack', f, m)
  BY <1>4 DEF Behind
<1>6. CASE Kind[f] = "TIMER" /\ Timeout(f)
  <2>1. Expiring(f, m)'
    <3>1. script' = <<Raise(f, "TIMEOUT")>>
      BY <1>6 DEF Timeout
    <3>2. Says(Raise(f, "TIMEOUT"))'
      BY <3>1 DEF Says
    <3> QED  BY <1>6, <3>2 DEF Expiring
  <2>2. ~IsOn(f)'
    <3>1. held \in [Timers -> BOOLEAN] /\ held' = [held EXCEPT ![f] = FALSE]
      BY <1>0, <1>6 DEF Timeout, EngineInv, TypeOK
    <3> QED  BY <1>0, <1>6, <3>1 DEF IsOn
  <2> QED  BY <2>1, <2>2 DEF Agrees
<1>7. CASE ~(Kind[f] = "TIMER" /\ Timeout(f))
  <2>1. Kind[f] = "TIMER" => held'[f] = held[f]
    <3> SUFFICES ASSUME Kind[f] = "TIMER" PROVE held'[f] = held[f]
      OBVIOUS
    <3>1. CASE \E t \in Timers : Timeout(t)
      <4>1. PICK t \in Timers : Timeout(t)
        BY <3>1
      <4>2. t # f /\ held \in [Timers -> BOOLEAN] /\ held' = [held EXCEPT ![t] = FALSE]
        BY <1>0, <1>7, <4>1 DEF Timeout, EngineInv, TypeOK
      <4> QED  BY <1>0, <4>2
    <3>2. CASE ~\E t \in Timers : Timeout(t)
      BY <3>2 DEF Quiet, PassRule, EnterRule, LeaveRule, Return, Continue, Press, Release,
                  ScheduleTick
    <3> QED  BY <3>1, <3>2
  <2>2. IsOn(f)' <=> IsOn(f)
    BY <1>1, <2>1 DEF IsOn
  <2>3. Expiring(f, m) => Expiring(f, m)'
    <3> SUFFICES ASSUME Kind[f] = "TIMER", Says(Raise(f, "TIMEOUT"))
                 PROVE  Says(Raise(f, "TIMEOUT"))' \/ Bound(stack', f, "TIMEOUT", m, "UNSET")
      BY <1>4 DEF Expiring
    <3>1. PICK i \in 1 .. Len(script) : script[i] = Raise(f, "TIMEOUT")
      BY DEF Says
    <3>2. script \in Seq(Ops) /\ script # <<>>
      BY <1>0, <3>1 DEF EngineInv, TypeOK
    <3>3. CASE Continue
      <4>1. script' = Tail(script) /\ Head(script) = script[1] /\ Len(script) \in Nat
            /\ Len(Tail(script)) = Len(script) - 1
            /\ \A j \in 1 .. Len(script) - 1 : Tail(script)[j] = script[j + 1]
        BY <3>2, <3>3 DEF Continue
      <4>2. CASE i = 1
        <5>1. Head(script) = Raise(f, "TIMEOUT")
          BY <3>1, <4>1, <4>2
        <5>2. Head(script).op = "raise" /\ Head(script).dev = f /\ Head(script).arg = "TIMEOUT"
          BY <5>1 DEF Raise
        <5>3. stack' = <<Frame(f, "TIMEOUT")>>
          BY <3>3, <5>2 DEF Continue
        <5>4. Ahead(Frame(f, "TIMEOUT"), m, "UNSET")
          BY AheadAtFirst DEF Follows
        <5>5. Frame(f, "TIMEOUT").dev = f /\ Frame(f, "TIMEOUT").ev = "TIMEOUT"
          BY DEF Frame
        <5>6. Len(stack') = 1 /\ stack'[1] = Frame(f, "TIMEOUT")
          BY <5>3
        <5> QED  BY <5>4, <5>5, <5>6 DEF Bound
      <4>3. CASE i # 1
        <5>1. i - 1 \in 1 .. Len(script') /\ script'[i - 1] = script[i]
          BY <3>1, <4>1, <4>3
        <5> QED  BY <3>1, <5>1 DEF Says
      <4> QED  BY <4>2, <4>3
    <3>4. CASE ~Continue
      <4>1. script' = script
        BY <3>2, <3>4 DEF Quiet, PassRule, EnterRule, LeaveRule, Return, Press, Release,
                          Timeout, ScheduleTick, Resting
      <4> QED  BY <3>1, <4>1 DEF Says
    <3> QED  BY <3>3, <3>4
  <2> QED  BY <1>3, <1>5, <2>2, <2>3 DEF Agrees
<1> QED  BY <1>6, <1>7

LEMMA FollowInit ==
    ASSUME HouseInit, NEW f \in Devices, NEW m \in Devices, Follows(f, m)
    PROVE  FollowInv(f, m)
<1>0. /\ Kind[m] \in {"BOOL", "FSR14", "FUD14"} /\ m \in Stored
      /\ Kind[f] \in {"TIMER", "GPO", "FSR14"}
      /\ f \in Stored => Kind[f] = "FSR14" /\ Kind[m] # "BOOL"
      /\ Kind[f] = "FSR14" => f \in Stored
      /\ Kind[f] = "TIMER" => f \in Timers
  BY FollowKinds
<1>1. /\ \A d \in Devices : val[d] \in InitialLevels(Kind[d])
      /\ held = [t \in Timers |-> FALSE] /\ file = Snapshot(val) /\ silent = Stored
  BY DEF HouseInit, Init
<1>2. \A d \in Devices : Kind[d] \notin {"BOOL", "SCHEDULE"} => val[d] = 0
  BY <1>1 DEF InitialLevels
<1>3. ~IsOn(f) /\ (f \in Stored => ~IsOn(m))
  BY <1>0, <1>1, <1>2 DEF IsOn
<1>4. Agrees(f, m)
  BY <1>0, <1>1, <1>3 DEF Agrees, Due
<1>5. f \in Stored => file[f] = 0 /\ file[m] = 0
  BY <1>0, <1>1, <1>2 DEF Snapshot
<1> QED  BY <1>4, <1>5 DEF FollowInv

(* At rest nothing is behind or expiring, so the two devices agree.        *)
LEMMA RestAgrees ==
    ASSUME Resting, NEW f \in Devices, NEW m \in Devices, Agrees(f, m)
    PROVE  IsOn(f) <=> Due(f, m)
<1>1. ~Behind(stack, f, m) /\ ~Expiring(f, m)
  BY NoneBound DEF Resting, Behind, Expiring, Says
<1> QED  BY <1>1 DEF Agrees

LEMMA FollowNext ==
    ASSUME FollowBase, [HouseNext]_houseVars,
           NEW f \in Devices, NEW m \in Devices, Follows(f, m), FollowInv(f, m)
    PROVE  FollowInv(f, m)'
<1>0. /\ Kind[m] \in {"BOOL", "FSR14", "FUD14"} /\ m \in Stored
      /\ Kind[f] \in {"TIMER", "GPO", "FSR14"}
      /\ f \in Stored => Kind[f] = "FSR14" /\ Kind[m] # "BOOL"
      /\ Kind[f] = "FSR14" => f \in Stored
      /\ Kind[f] = "TIMER" => f \in Timers
  BY FollowKinds
<1>1. RankInv /\ WalkInv /\ Loud /\ EngineInv /\ Agrees(f, m)
  BY DEF FollowBase, RankHouseInv, RankInv, FollowInv
<1>2. CASE EngineNext /\ Quiet
  <2>1. silent' = silent \ Heard /\ file' = file
    BY <1>2 DEF EngineNext
  <2>2. Agrees(f, m)'
    BY <1>1, <1>2, <2>1, QuietAgrees
  <2> QED  BY <2>1, <2>2 DEF FollowInv
<1>3. CASE EngineNext /\ RunAction
  <2>1. silent' = silent \ Heard /\ file' = file
    BY <1>3 DEF EngineNext
  <2>2. CASE NextAction.dev = f
    <3>1. Agrees(f, m)'
      BY <1>1, <1>3, <2>1, <2>2, SwitchAgrees
    <3> QED  BY <2>1, <3>1 DEF FollowInv
  <2>3. CASE NextAction.dev # f
    <3> DEFINE c == NextAction
               s == WithTop(Advanced)
    <3>1. /\ c \in ActionRecords /\ s \in Seq(Frames) /\ Perform(c, s) /\ script' = script
          /\ stack # <<>> /\ Advanced \in Frames /\ Advanced.dev = Top.dev
      BY <1>1, <1>3, ActionRuns
    <3>2. \A i \in 1 .. Len(s) : s[i].dev \notin silent
      <4> TAKE i \in 1 .. Len(s)
      <4>1. i \in 1 .. Len(stack) /\ s[i].dev = stack[i].dev
        BY <1>1, <3>1, TopMoves DEF Top
      <4> QED  BY <1>1, <4>1 DEF Loud
    <3>3. Behind(stack, f, m) => Behind(s, f, m)
      <4>1. ASSUME NEW e \in {"SET", "UNSET"}, Bound(stack, m, e, f, e) PROVE Bound(s, m, e, f, e)
        BY <1>1, <1>3, <2>3, <4>1, ActionKeeps DEF Advanced
      <4> QED  BY <4>1 DEF Behind
    <3>4. Bound(stack, f, "TIMEOUT", m, "UNSET")
              => \/ Bound(s, f, "TIMEOUT", m, "UNSET")
                 \/ c.dev = m /\ c.type = "UNSET"
      BY <1>1, <1>3, ActionKeeps DEF Advanced
    <3>5. Agrees(f, m)'
      <4> HIDE DEF c, s
      <4>1. c.dev # f
        BY <2>3 DEF c
      <4> QED  BY <1>1, <2>1, <3>1, <3>2, <3>3, <3>4, <4>1, PerformAgrees
    <3> QED  BY <2>1, <3>5 DEF FollowInv
  <2> QED  BY <2>2, <2>3
<1>4. ASSUME EngineNext, NEW c \in Commands, RemoteDo(c) PROVE FollowInv(f, m)'
  <2>1. silent' = silent \ Heard /\ file' = file /\ script' = script
    BY <1>4 DEF EngineNext, RemoteDo
  <2>2. /\ c \in ActionRecords /\ stack \in Seq(Frames) /\ Perform(c, stack) /\ c.dev # f
        /\ \A i \in 1 .. Len(stack) : stack[i].dev \notin silent
    BY <1>1, <1>4, ConfigAssumption DEF RemoteDo, EngineInv, TypeOK, Loud, Follows
  <2>3. Agrees(f, m)'
    BY <1>1, <2>1, <2>2, PerformAgrees
  <2> QED  BY <2>1, <2>3 DEF FollowInv
<1>5. CASE Save
  <2>1. /\ Resting /\ UNCHANGED <<vars, silent>>
        /\ file' # NoFile => \A d \in Stored : file'[d] = val[d]
    BY <1>5, SaveWrites
  <2>2. IsOn(f) <=> Due(f, m)
    BY <1>1, <2>1, RestAgrees
  <2>3. f \in Stored => (val[f] > 0 <=> val[m] > 0)
    BY <1>0, <2>2 DEF IsOn, Due
  <2>4. Agrees(f, m)'
    BY <1>1, <2>1 DEF vars, Agrees, Due, IsOn, Expiring, Says
  <2> QED  BY <1>0, <2>1, <2>3, <2>4 DEF FollowInv
<1>6. CASE Restarts
  <2>1. /\ file # NoFile => \A d \in Stored : val'[d] = file[d]
        /\ \A d \in Devices :
              ~(d \in Stored /\ file # NoFile) /\ Kind[d] \notin {"BOOL", "SCHEDULE"}
                  => val'[d] = 0
        /\ \A d \in Stored : file'[d] = val'[d]
        /\ \A t \in Timers : held'[t] = FALSE
        /\ silent' = Stored
    BY <1>6, StartRestores
  <2>2. f \in Stored => (val'[f] > 0 <=> val'[m] > 0)
    <3>1. CASE file = NoFile
      BY <1>0, <2>1, <3>1
    <3>2. CASE file # NoFile
      BY <1>0, <2>1, <3>2 DEF FollowInv
    <3> QED  BY <3>1, <3>2
  <2>3. f \notin Stored => ~IsOn(f)'
    BY <1>0, <2>1 DEF IsOn
  <2>4. Agrees(f, m)'
    BY <1>0, <2>1, <2>2, <2>3 DEF Agrees, Due, IsOn
  <2> QED  BY <1>0, <2>1, <2>2, <2>4 DEF FollowInv
<1>7. CASE UNCHANGED houseVars
  BY <1>7 DEF houseVars, vars, FollowInv, Agrees, Due, IsOn, Expiring, Says
<1> QED  BY <1>2, <1>3, <1>4, <1>5, <1>6, <1>7, StepSplits

LEMMA LoudNext == Loud /\ [HouseNext]_houseVars => Loud'
<1> SUFFICES ASSUME Loud, [HouseNext]_houseVars PROVE Loud'
  OBVIOUS
<1>1. CASE EngineNext
  BY <1>1 DEF EngineNext, Heard, Loud
<1>2. CASE Save
  BY <1>2 DEF Save, vars, Loud
<1>3. CASE Restarts
  BY <1>3 DEF Restarts, Loud
<1>4. CASE UNCHANGED houseVars
  BY <1>4 DEF houseVars, vars, Loud
<1> QED  BY <1>1, <1>2, <1>3, <1>4 DEF HouseNext

AllFollow == FollowBase /\ \A p \in Followers : FollowInv(p[1], p[2])

(* With a layered rule file a device that follows another one by rules of  *)
(* this shape agrees with it whenever the loop is at rest, whatever the    *)
(* other rules are, and however often the engine is stopped between the    *)
(* event of the one and the action on the other.                           *)
THEOREM FollowersFollow == HouseSpec => []FollowersAgree
<1>1. HouseInit => AllFollow
  <2> SUFFICES ASSUME HouseInit PROVE AllFollow
    OBVIOUS
  <2>1. Loud
    BY DEF HouseInit, Init, Loud
  <2> QED  BY <2>1, RankHouseInvInit, WalkInvInit, FollowInit DEF AllFollow, FollowBase, Followers
<1>2. AllFollow /\ [HouseNext]_houseVars => AllFollow'
  <2> SUFFICES ASSUME AllFollow, [HouseNext]_houseVars PROVE AllFollow'
    OBVIOUS
  <2>1. FollowBase /\ FollowBase'
    BY RankHouseInvNext, WalkInvNext, LoudNext DEF AllFollow, FollowBase
  <2>2. ASSUME NEW p \in Followers PROVE FollowInv(p[1], p[2])'
    <3>1. p[1] \in Devices /\ p[2] \in Devices /\ Follows(p[1], p[2]) /\ FollowInv(p[1], p[2])
      BY <2>2 DEF Followers, AllFollow
    <3> QED  BY <2>1, <3>1, FollowNext
  <2> QED  BY <2>1, <2>2 DEF AllFollow
<1>3. AllFollow => FollowersAgree
  <2> SUFFICES ASSUME AllFollow, Resting, NEW p \in Followers
               PROVE  IsOn(p[1]) <=> IsOn(p[2]) /\ ~(p[2] \in silent /\ p[1] \notin Stored)
    BY DEF FollowersAgree
  <2>1. p[1] \in Devices /\ p[2] \in Devices /\ Agrees(p[1], p[2])
    BY DEF Followers, AllFollow, FollowInv
  <2>2. IsOn(p[1]) <=> Due(p[1], p[2])
    BY <2>1, RestAgrees
  <2> QED  BY <2>2 DEF Due
<1> QED  BY <1>1, <1>2, <1>3, PTL DEF HouseSpec
=============================================================================
