------------------------------- MODULE Store --------------------------------
(***************************************************************************)
(* The state file (store.c): a start of the engine restores the devices    *)
(* from it, writes it, and restores them from what it has written; after   *)
(* that a timer writes it again and again.  The file is rewritten in place *)
(* and the result of the rewrite is not looked at.  Nothing is written     *)
(* when the engine stops.  "domotica-engine -t" goes through the same      *)
(* start, next to an engine that runs or does not, and exits.              *)
(***************************************************************************)
EXTENDS Integers

CONSTANTS
    Switches,   \* BOOL, FSR14, FUD14 and VELUX_KLF200 devices
    Blinds,     \* FSB14 devices
    Levels,     \* the values of a switch
    Level0,     \* the one the rule file gives it
    Absent,     \* there is no file
    Torn        \* a file json_object_from_file cannot read

Devices == Switches \cup Blinds
Conditions == {"UP", "DOWN", "STOPPED", "RISING", "DESCENDING"}
Values == Levels \cup Conditions \cup {"open", "closed", "stopped"}
Contents == [Devices -> Values]

ASSUME StoreAssumption ==
    /\ Switches \cap Blinds = {}
    /\ Level0 \in Levels
    /\ Absent \notin Contents /\ Torn \notin Contents /\ Absent # Torn

Processes == {"engine", "test"}

VARIABLES
    pc,         \* where a process is in store_init or the timer callback
    level,      \* the state of its devices
    file,       \* STORE_DEVICES_STATE_FILE
    saved,      \* the engine's devices when the timer last wrote the file
    restored,   \* since its start the engine neither changed a device nor saved
    sound,      \* since then no process found the file unreadable, and no
                \* test has written it
    odd         \* since then the starts have written it an odd number of times

history == <<saved, sound, odd>>
vars == <<pc, level, file, restored, history>>

Conditioned(f) == \A b \in Blinds : f[b] \in Conditions
Leveled(f) == \A s \in Switches : f[s] \in Levels

TypeOK ==
    /\ pc \in [Processes -> {"down", "restore", "truncate", "write", "again",
                             "up", "save"}]
    /\ level \in [Processes -> Contents]
    /\ \A p \in Processes : Leveled(level[p]) /\ Conditioned(level[p])
    /\ file \in Contents \cup {Absent, Torn}
    /\ file \in Contents =>
          /\ Leveled(file)
          /\ \A b \in Blinds : file[b] \in {"open", "closed", "stopped"}
    /\ saved \in Contents /\ Leveled(saved) /\ Conditioned(saved)
    /\ restored \in BOOLEAN /\ sound \in BOOLEAN /\ odd \in BOOLEAN

Fresh == [d \in Devices |-> IF d \in Blinds THEN "STOPPED" ELSE Level0]

Init ==
    /\ pc = [p \in Processes |-> "down"]
    /\ level = [p \in Processes |-> Fresh]
    /\ file = Absent
    /\ saved = Fresh
    /\ restored = FALSE /\ sound = FALSE /\ odd = FALSE

-----------------------------------------------------------------------------
(* device_store and device_restore.  The restore of an FSB14 takes the     *)
(* result of strcmp for a match.                                           *)
StoredBlind(c) ==
    IF c = "DOWN" THEN "closed" ELSE IF c = "UP" THEN "open" ELSE "stopped"

RestoredBlind(v) == IF v # "closed" THEN "DOWN" ELSE "UP"

StoredOf(f) ==
    [d \in Devices |-> IF d \in Blinds THEN StoredBlind(f[d]) ELSE f[d]]

(* Mutant: a switch is restored as the level the rule file gives it.       *)
RestoredBlindsOnly(f) ==
    [d \in Devices |-> IF d \in Blinds THEN RestoredBlind(f[d]) ELSE Level0]

RestoredOf(f) ==
    [d \in Devices |-> IF d \in Blinds THEN RestoredBlind(f[d]) ELSE f[d]]

Goto(p, label) == pc' = [pc EXCEPT ![p] = label]

(* The rule files are parsed.                                              *)
Begin(p) ==
    /\ pc[p] = "down"
    /\ Goto(p, "restore")
    /\ level' = [level EXCEPT ![p] = Fresh]
    /\ restored' = (p = "engine" \/ restored)
    /\ UNCHANGED <<file, history>>

(* restore_devices_state                                                   *)
ReadFile(p) ==
    /\ level' = IF file \in Contents THEN [level EXCEPT ![p] = RestoredOf(file)]
                                     ELSE level
    /\ sound' = (sound /\ file \in Contents)
    /\ UNCHANGED <<file, saved, odd, restored>>

Restore(p) == pc[p] = "restore" /\ Goto(p, "truncate") /\ ReadFile(p)

(* Mutant: the start does not restore from what it has written.            *)
RestoreOnce(p) ==
    /\ pc[p] = "again"
    /\ Goto(p, IF p = "engine" THEN "up" ELSE "down")
    /\ UNCHANGED <<file, level, restored, history>>

RestoreAgain(p) ==
    /\ pc[p] = "again"
    /\ Goto(p, IF p = "engine" THEN "up" ELSE "down")
    /\ ReadFile(p)

(* store_devices_state: json_object_to_file empties the file and writes    *)
(* the levels, or fails to; a write of another process in between may      *)
(* leave a mixture of both.                                                *)
Truncate(p) ==
    /\ pc[p] \in {"truncate", "up"}
    /\ Goto(p, IF pc[p] = "up" THEN "save" ELSE "write")
    /\ file' = Torn
    /\ sound' = (sound /\ p = "engine")
    /\ UNCHANGED <<level, saved, odd, restored>>

Written(p) == StoredOf(level[p])

Write(p) ==
    /\ pc[p] = "write"
    /\ Goto(p, "again")
    /\ file' \in {Written(p), Torn}
    /\ odd' = IF p = "engine" THEN ~odd ELSE odd
    /\ UNCHANGED <<level, saved, sound, restored>>

Save ==
    /\ pc["engine"] = "save"
    /\ Goto("engine", "up")
    /\ \/ /\ file' = Written("engine")
          /\ saved' = level["engine"]
          /\ sound' = (pc["test"] = "down")
          /\ odd' = FALSE
       \/ file' = Torn /\ UNCHANGED history
    /\ restored' = FALSE
    /\ UNCHANGED level

(* A rule or a command changes a device.                                   *)
Change(d, v) ==
    /\ pc["engine"] = "up"
    /\ v # level["engine"][d]
    /\ level' = [level EXCEPT !["engine"][d] = v]
    /\ restored' = FALSE
    /\ UNCHANGED <<pc, file, history>>

(* A crash, a power cut, or a signal.                                      *)
Stop(p) ==
    /\ pc[p] # "down"
    /\ Goto(p, "down")
    /\ UNCHANGED <<level, file, restored, history>>

Next ==
    \/ \E p \in Processes :
          \/ Begin(p) \/ Restore(p) \/ Truncate(p) \/ Write(p)
          \/ RestoreAgain(p) \/ Stop(p)
    \/ Save
    \/ \E s \in Switches, v \in Levels : Change(s, v)
    \/ \E b \in Blinds, c \in Conditions : Change(b, c)

Spec == Init /\ [][Next]_vars

-----------------------------------------------------------------------------
Started == pc["engine"] = "up" /\ restored /\ sound

(* Unless a process met a torn file, or a test ran, a start gives every    *)
(* switch the level of the timer's last save, however many starts have     *)
(* failed or been cut off since (store.c: store_init).                     *)
SwitchesSurvive ==
    Started => \A s \in Switches : level["engine"][s] = saved[s]

(* Each restore turns a blind around, and each start restores twice and    *)
(* saves in between: a blind saved open or closed is restored as that      *)
(* exactly when the starts since have written the file an odd number of    *)
(* times (eltako_fsb14.c: fsb14_device_restore).                           *)
BlindsSurvive ==
    Started => \A b \in Blinds :
        saved[b] \in {"UP", "DOWN"} => (level["engine"][b] = saved[b] <=> odd)

(* "restore state" (main.c): an open or closed blind is again what it was  *)
(* when the timer last saved it.                                           *)
RestoresState ==
    Started => \A b \in Blinds :
        saved[b] \in {"UP", "DOWN"} => level["engine"][b] = saved[b]
=============================================================================
