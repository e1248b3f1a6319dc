---------------------------- MODULE DeviceTypes ----------------------------
(***************************************************************************)
(* What the device types promise to the rule engine: which actions and     *)
(* conditions a type registers, what an action does to the level a device  *)
(* remembers, which event it raises, and what a condition reads.  Pure     *)
(* operators, one case per device type; the Engine module is built on      *)
(* them.  Levels are the C fields: int32 of BOOL and FSR14, uint8 of the   *)
(* FUD14 dimmer, the pin value of GPO, the condition of a SCHEDULE (1 is   *)
(* CONDITION_SET) and "press_time > 0" of an FTS14EM push button.          *)
(***************************************************************************)
EXTENDS Integers

CONSTANTS
    DimMax,         \* dim_max_value of a FUD14, 100
    DimInterval     \* dim_interval, 3

ASSUME DimAssumption == DimMax \in 1 .. 255 /\ DimInterval \in 1 .. 255

Kinds == {"BOOL", "TIMER", "FSR14", "FUD14", "GPO", "SCHEDULE", "FTS14EM"}

ActionTypes == {"SET", "UNSET", "TOGGLE", "DIM"}
EventTypes == {"SET", "UNSET", "TIMEOUT", "PRESS", "RELEASE",
               "SHORT_PRESS", "LONG_PRESS"}
ConditionTypes == {"SET", "UNSET"}

(* The types whose exec callback raises an event of the same device before *)
(* it returns: the edges along which rules cascade.                        *)
Echoing == {"BOOL", "FSR14", "FUD14"}

(* .actions of the type info: device_set logs an error for any other.      *)
Supported(k) ==
    CASE k \in {"BOOL", "FSR14", "GPO"} -> {"SET", "UNSET", "TOGGLE"}
      [] k = "FUD14"                    -> ActionTypes
      [] k = "TIMER"                    -> {"SET", "UNSET"}
      [] OTHER                          -> {}

(* .conditions of the type info: device_check is FALSE for any other.      *)
Checkable(k) ==
    IF k \in {"BOOL", "FSR14", "FUD14", "SCHEDULE"} THEN ConditionTypes ELSE {}

(* The action option of a rule without one.                                *)
NoOption == -1

Level(k) ==
    CASE k = "BOOL"  -> -1 .. 1
      [] k = "FUD14" -> 0 .. 255
      [] OTHER       -> 0 .. 1

(* The level a parser leaves in a new device: any of -1, 0 and 1 for a     *)
(* BOOL (options neither "0" nor "1" give -1), the condition computed from *)
(* the clock for a SCHEDULE, zero otherwise.                               *)
InitialLevels(k) ==
    CASE k = "BOOL"     -> -1 .. 1
      [] k = "SCHEDULE" -> 0 .. 1
      [] OTHER          -> {0}

-----------------------------------------------------------------------------
(* FUD14 dimmer: dim_value and dim_direction, both uint8.                  *)
DimMin == 0

Uint8(n) == n % 256

FullLevel(opt) == IF opt = NoOption THEN DimMax ELSE Uint8(opt)

(* Mutant: the level is computed in int, so zero is not wrapped past.      *)
DimmedWithoutWrap(v, dir) ==
    LET raw == IF dir = 1 THEN v + DimInterval ELSE v - DimInterval
    IN  IF raw >= DimMax THEN [val |-> DimMax, dir |-> 0]
        ELSE IF raw <= DimMin THEN [val |-> DimMin, dir |-> 1]
        ELSE [val |-> raw, dir |-> dir]

(* ACTION_DIM: one interval in the current direction, computed modulo 256, *)
(* then clamped from above, then from below.                               *)
Dimmed(v, dir) ==
    LET raw == Uint8(IF dir = 1 THEN v + DimInterval ELSE v - DimInterval)
        top == IF raw >= DimMax THEN [val |-> DimMax, dir |-> 0]
                                ELSE [val |-> raw, dir |-> dir]
    IN  IF top.val <= DimMin THEN [val |-> DimMin, dir |-> 1] ELSE top

DimmerAfter(type, opt, v, dir) ==
    CASE type = "SET"    -> [val |-> FullLevel(opt), dir |-> 0]
      [] type = "UNSET"  -> [val |-> 0, dir |-> 1]
      [] type = "TOGGLE" -> LET new == IF v > 0 THEN 0 ELSE FullLevel(opt)
                            IN  [val |-> new, dir |-> IF new = 0 THEN 1 ELSE 0]
      [] OTHER           -> Dimmed(v, dir)

(* BOOL, FSR14 and GPO: an on/off level; a BOOL at -1 toggles to 0.        *)
SwitchAfter(type, v) ==
    CASE type = "SET"    -> 1
      [] type = "UNSET"  -> 0
      [] type = "TOGGLE" -> IF v # 0 THEN 0 ELSE 1
      [] OTHER           -> v

(* What device_set leaves in a device of type k, TIMER apart.              *)
After(k, type, opt, v, dir) ==
    IF type \notin Supported(k) THEN [val |-> v, dir |-> dir]
    ELSE IF k = "FUD14" THEN DimmerAfter(type, opt, v, dir)
    ELSE [val |-> SwitchAfter(type, v), dir |-> dir]

(* A BOOL raises its event on a change only; FSR14 and FUD14 on every      *)
(* supported action, also when the level stays what it was.                *)
Raises(k, type, old, new) ==
    /\ type \in Supported(k)
    /\ \/ k = "BOOL" /\ old # new
       \/ k \in {"FSR14", "FUD14"}

RaisedEvent(k, new) ==
    IF new = 1 \/ (k # "BOOL" /\ new # 0) THEN "SET" ELSE "UNSET"

(* device_check: a BOOL at -1 counts as set.                               *)
Holds(k, type, v) ==
    /\ type \in Checkable(k)
    /\ IF type = "SET" THEN v # 0 ELSE v = 0
=============================================================================
