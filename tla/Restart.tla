------------------------------ MODULE Restart ------------------------------
(***************************************************************************)
(* The engine together with its state file: what it keeps, and what it     *)
(* loses, when it is stopped in the middle of anything and started again.  *)
(* A start builds the devices from the rule files, gives those that store  *)
(* a level the level of the file, and raises no event for it.  The levels  *)
(* of outputs, the presses of buttons, the direction of a dimmer and every *)
(* armed timer are lost, and so is the dispatch that was in progress.      *)
(* The steps of a save and of a start are spelled out in Store; here each  *)
(* of the two is one action.                                               *)
(***************************************************************************)
EXTENDS EngineRanked

CONSTANT NoFile     \* there is no state file, or none that can be read

VARIABLES
    file,       \* STORE_DEVICES_STATE_FILE
    silent      \* devices restored at the last start that have raised no
                \* event since

houseVars == <<vars, file, silent>>

(* The types of Engine with a store and a restore callback.                *)
Stored == {d \in Devices : Kind[d] \in {"BOOL", "FSR14", "FUD14"}}

FileRecords == {f \in [Stored -> -1 .. 255] : \A d \in Stored : f[d] \in Level(Kind[d])}

ASSUME RestartAssumption == NoFile \notin FileRecords

Snapshot(v) == [d \in Stored |-> v[d]]

(* The devices whose first level the rule files or the clock decide, and   *)
(* the levels their parsers can leave in them; in all others that is zero. *)
Declared == {d \in Devices : Kind[d] \in {"BOOL", "SCHEDULE"}}

FirstLevels ==
    {v \in [Declared -> -1 .. 1] : \A d \in Declared : v[d] \in InitialLevels(Kind[d])}

(* A first start finds no file and writes one.                             *)
HouseInit ==
    /\ Init
    /\ file = Snapshot(val)
    /\ silent = Stored

(* Whatever dispatches an event of a device has told its rules about it.   *)
Heard == {stack'[i].dev : i \in 1 .. Len(stack')}

EngineNext ==
    /\ Next
    /\ silent' = silent \ Heard
    /\ UNCHANGED file

(* The timer of store_init: a callback of the loop like any other, so no   *)
(* rule is running.  Writing may fail, and leaves a file nobody can read.  *)
Save ==
    /\ Resting
    /\ file' \in {Snapshot(val), NoFile}
    /\ UNCHANGED <<vars, silent>>

(* Mutant: the levels of outputs survive as well.                          *)
StartLevelsKeepsOutputs(first) ==
    [d \in Devices |-> IF Kind[d] = "GPO" THEN val[d]
                       ELSE IF d \in Stored /\ file # NoFile THEN file[d]
                       ELSE IF d \in Declared THEN first[d] ELSE 0]

(* The levels a start gives the devices, first being those of the parsers. *)
StartLevels(first) ==
    [d \in Devices |-> IF d \in Stored /\ file # NoFile THEN file[d]
                       ELSE IF d \in Declared THEN first[d] ELSE 0]

(* A crash, a power cut or a signal, at any time, and the next start, which *)
(* ends with a save.                                                       *)
Restarts ==
    /\ \E first \in FirstLevels : val' = StartLevels(first)
    /\ file' = Snapshot(val')
    /\ dir' = [d \in Devices |-> 1]
    /\ held' = [t \in Timers |-> FALSE]
    /\ armed' = [t \in Timers |-> 0]
    /\ stack' = <<>> /\ script' = <<>>
    /\ silent' = Stored

HouseNext == EngineNext \/ Save \/ Restarts

HouseSpec == HouseInit /\ [][HouseNext]_houseVars

(* As in Engine.  Nothing makes the engine stop, or start to save.         *)
HouseFairness ==
    /\ WF_houseVars(EngineStep /\ EngineNext)
    /\ \A t \in Timers : []<>(armed[t] = 0) \/ []<><<Arms(t)>>_vars

HouseFairSpec == HouseSpec /\ HouseFairness

(* The file holds levels that can be given back to the devices.            *)
HouseTypeOK ==
    /\ TypeOK
    /\ file \in FileRecords \cup {NoFile}
    /\ silent \subseteq Stored
=============================================================================
