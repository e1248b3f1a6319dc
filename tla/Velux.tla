------------------------------- MODULE Velux -------------------------------
(***************************************************************************)
(* Velux roller blinds behind a KLF200 gateway (velux_klf200.c) and the    *)
(* asynchronous commands that drive them (utils_cmd.c).  An action only    *)
(* marks its device as changed; a periodic worker starts the command       *)
(* script of the first changed device in the list, one at a time, and the  *)
(* end of the script, seen as a hang-up of its pipe, clears the mark       *)
(* unless the wish has changed meanwhile.  The script and the blind        *)
(* (window) are external.                                                  *)
(***************************************************************************)
EXTENDS Naturals, Sequences

CONSTANTS
    Devices,        \* the KLF200 devices
    DeviceList,     \* klf200_devices: the same, in the order of the files
    None            \* NULL

ActionTypes == {"UP", "DOWN", "STOP", "TOGGLE_UP", "TOGGLE_DOWN", "LOCK", "UNLOCK"}

ASSUME VeluxAssumption ==
    /\ None \notin Devices
    /\ DeviceList \in Seq(Devices)
    /\ \A d \in Devices : \E i \in 1 .. Len(DeviceList) : DeviceList[i] = d

VARIABLES
    actual,     \* actual_value: the wish, 1 is closed
    target,     \* target_value: the wish the last script was started with
    changed,    \* the wish is still to be carried out
    locked,
    busy,       \* velux_klf200_device_in_progress
    script,     \* of the device in progress: idle, running, moved, or dead
    window      \* where the blind really is

vars == <<actual, target, changed, locked, busy, script, window>>

TypeOK ==
    /\ actual \in [Devices -> 0 .. 1]
    /\ target \in [Devices -> 0 .. 1]
    /\ changed \in [Devices -> BOOLEAN]
    /\ locked \in [Devices -> BOOLEAN]
    /\ busy \in Devices \cup {None}
    /\ script \in {"idle", "running", "moved", "dead"}
    /\ window \in [Devices -> 0 .. 1]

(* actual is zero, or restored from the state file; target is not stored.  *)
Init ==
    /\ actual \in [Devices -> 0 .. 1]
    /\ target = [d \in Devices |-> 0]
    /\ changed = [d \in Devices |-> FALSE]
    /\ locked = [d \in Devices |-> FALSE]
    /\ busy = None
    /\ script = "idle"
    /\ window \in [Devices -> 0 .. 1]

-----------------------------------------------------------------------------
(* velux_klf200_device_exec.  The toggles set a fixed wish, STOP is        *)
(* registered but does nothing, and nothing asks whether the device is     *)
(* locked.                                                                 *)
Wish(a) == IF a \in {"DOWN", "TOGGLE_DOWN"} THEN 1 ELSE 0

(* Mutant: a wish that is the target already needs no script.              *)
ExecSkipsTarget(d, a) ==
    \/ /\ a \in {"UP", "DOWN", "TOGGLE_UP", "TOGGLE_DOWN"}
       /\ actual' = [actual EXCEPT ![d] = Wish(a)]
       /\ changed' = [changed EXCEPT ![d] = (target[d] # Wish(a))]
       /\ UNCHANGED <<target, locked, busy, script, window>>
    \/ /\ a \in {"LOCK", "UNLOCK"}
       /\ locked' = [locked EXCEPT ![d] = (a = "LOCK")]
       /\ UNCHANGED <<actual, target, changed, busy, script, window>>
    \/ a = "STOP" /\ UNCHANGED vars

Exec(d, a) ==
    \/ /\ a \in {"UP", "DOWN", "TOGGLE_UP", "TOGGLE_DOWN"}
       /\ actual' = [actual EXCEPT ![d] = Wish(a)]
       /\ changed' = [changed EXCEPT ![d] = TRUE]
       /\ UNCHANGED <<target, locked, busy, script, window>>
    \/ /\ a \in {"LOCK", "UNLOCK"}
       /\ locked' = [locked EXCEPT ![d] = (a = "LOCK")]
       /\ UNCHANGED <<actual, target, changed, busy, script, window>>
    \/ a = "STOP" /\ UNCHANGED vars

(* velux_klf200_worker: the first changed device is served.                *)
FirstChanged(d) ==
    \E i \in 1 .. Len(DeviceList) :
        /\ DeviceList[i] = d
        /\ changed[d]
        /\ \A j \in 1 .. i - 1 : ~changed[DeviceList[j]]

(* cmd_exec: nobody asks whether the script could be started.              *)
CmdExec == script' \in {"running", "dead"}

(* The pipe of the script hangs up, which cmd_incoming_data reports with   *)
(* the exit status 0 whatever the script returned.                         *)
CmdDone == script \in {"running", "moved"} /\ script' = "idle"

(* velux_klf200_worker_check_velux: the device is in progress before the   *)
(* script is started, and stays so when it cannot be.                      *)
Worker(d) ==
    /\ busy = None
    /\ FirstChanged(d)
    /\ busy' = d
    /\ target' = [target EXCEPT ![d] = actual[d]]
    /\ CmdExec
    /\ UNCHANGED <<actual, changed, locked, window>>

(* The script moves the blind to the wish it was started with.             *)
ScriptMoves ==
    /\ script = "running"
    /\ script' = "moved"
    /\ window' = [window EXCEPT ![busy] = target[busy]]
    /\ UNCHANGED <<actual, target, changed, locked, busy>>

(* Mutant: the end of a script always settles the wish.                    *)
CommandDoneForgets ==
    /\ CmdDone
    /\ busy' = None
    /\ changed' = [changed EXCEPT ![busy] = FALSE]
    /\ UNCHANGED <<actual, target, locked, window>>

(* Mutant: the device stays in progress.                                   *)
CommandDoneStaysBusy ==
    /\ CmdDone
    /\ changed' = [changed EXCEPT ![busy] = @ /\ target[busy] # actual[busy]]
    /\ UNCHANGED <<actual, target, locked, busy, window>>

(* velux_klf200_cmd_cb, also for a script that ended without moving the    *)
(* blind.                                                                  *)
CommandDone ==
    /\ CmdDone
    /\ busy' = None
    /\ changed' = [changed EXCEPT ![busy] = @ /\ target[busy] # actual[busy]]
    /\ UNCHANGED <<actual, target, locked, window>>

(* The engine is stopped and started again.  The wishes come back from the *)
(* state file, at most minutes old, but not that they were still to be     *)
(* carried out.  A script that was running is left to itself and ends      *)
(* before another one is started.                                          *)
Restart ==
    /\ actual' \in [Devices -> 0 .. 1]
    /\ target' = [d \in Devices |-> 0]
    /\ changed' = [d \in Devices |-> FALSE]
    /\ locked' = [d \in Devices |-> FALSE]
    /\ busy' = None
    /\ script' = "idle"
    /\ \/ UNCHANGED window
       \/ script = "running" /\ window' = [window EXCEPT ![busy] = target[busy]]

Next ==
    \/ \E d \in Devices, a \in ActionTypes : Exec(d, a)
    \/ \E d \in Devices : Worker(d)
    \/ ScriptMoves
    \/ CommandDone
    \/ Restart

Spec == Init /\ [][Next]_vars

-----------------------------------------------------------------------------
(* The wish behind a running script is remembered until the script ends,   *)
(* and the script that has moved its blind has moved it to the target.     *)
InProgress ==
    /\ busy = None <=> script = "idle"
    /\ busy # None => changed[busy]
    /\ script = "moved" => window[busy] = target[busy]

(* A device reports "open" or "closed" again only when its blind is there, *)
(* or when its last script failed or the engine was restarted: a wish      *)
(* changed while a script runs is not forgotten when that script ends      *)
(* (velux_klf200_cmd_cb).                                                  *)
SettlesTruly ==
    [][\A d \in Devices :
          changed[d] /\ ~changed'[d] =>
              window'[d] = actual'[d] \/ script = "running" \/ Restart]_vars

(* Every wish is carried out, with two exceptions: devices commanded for   *)
(* ever, for one that comes first in the list can starve those after it,   *)
(* and a script that cannot be started, for its device stays in progress   *)
(* and no blind of any device moves again before the next restart.         *)
WishesEnd ==
    \A d \in Devices :
        \/ []<>~changed[d]
        \/ []<><<\E e \in Devices, a \in ActionTypes : Exec(e, a)>>_vars
        \/ <>[](script = "dead")
=============================================================================
