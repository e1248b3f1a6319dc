---------------------------- MODULE Soltracker ----------------------------
(***************************************************************************)
(* Blinds that follow the sun: SOLTRACKER devices (soltracker.c) and the   *)
(* Velux blinds that rules lower and raise on their events.  Once a minute *)
(* every tracker compares the position of the sun with the window it       *)
(* watches and raises SET or UNSET when the sun has come in or gone.  The  *)
(* rules run in the same callback, the blinds move long after it; the sun  *)
(* (SolTrack) is external.                                                 *)
(***************************************************************************)
EXTENDS Velux, Integers

CONSTANTS
    Trackers,       \* soltracker_list, a sequence of [angle, view] in degrees
    Positions,      \* positions of the sun: [azi, alt] in degrees
    Follows         \* Follows[d]: the tracker the rules of blind d are about

TrackerIds == 1 .. Len(Trackers)

ASSUME SoltrackerAssumption ==
    /\ Trackers \in Seq([angle : 0 .. 360, view : 0 .. 360])
    /\ Follows \in [Devices -> TrackerIds]

VARIABLES
    sun,        \* where the sun is
    in_sun,     \* what each tracker last found
    visiting,   \* where the loop over the trackers is, 0 between callbacks
    orders,     \* actions of the rules that the tracker just visited set off
    astray      \* history: blinds moved by hand, failed scripts or restarts
                \* since their tracker last raised an event

trackVars == <<vars, sun, in_sun, visiting, orders, astray>>

Idle == visiting = 0 /\ orders = {}

(* Between angle_on and angle_off; neither is normalised, so a window      *)
(* across north sees one side of it only.                                  *)
Shines(t, p) ==
    /\ p.alt >= 0
    /\ 2 * p.azi > 2 * Trackers[t].angle - Trackers[t].view
    /\ 2 * p.azi < 2 * Trackers[t].angle + Trackers[t].view

TrackInit ==
    /\ Init
    /\ sun \in Positions
    /\ in_sun = [t \in TrackerIds |-> FALSE]
    /\ visiting = 0
    /\ orders = {}
    /\ astray = Devices

-----------------------------------------------------------------------------
SunMoves ==
    /\ Idle
    /\ sun' \in Positions
    /\ UNCHANGED <<vars, in_sun, visiting, orders, astray>>

(* soltrack_timer_cb.                                                      *)
CheckAllTrackers ==
    /\ Idle /\ Trackers # <<>>
    /\ visiting' = 1
    /\ UNCHANGED <<vars, sun, in_sun, orders, astray>>

(* What the rules order when tracker t raises SET or UNSET.                *)
Reaction(t, shines) ==
    {[dev |-> d, type |-> IF shines THEN "DOWN" ELSE "UP"] :
        d \in {b \in Devices : Follows[b] = t}}

(* Mutant: the answer is not remembered.                                   *)
CheckTrackerForgets ==
    /\ visiting # 0 /\ orders = {}
    /\ visiting' = (visiting + 1) % (Len(Trackers) + 1)
    /\ orders' = IF Shines(visiting, sun) = in_sun[visiting] THEN {}
                 ELSE Reaction(visiting, Shines(visiting, sun))
    /\ UNCHANGED <<vars, sun, in_sun, astray>>

(* soltracker_check_tracker: in_sun is written first, and an event raised  *)
(* on a change only.                                                       *)
CheckTracker ==
    /\ visiting # 0 /\ orders = {}
    /\ visiting' = (visiting + 1) % (Len(Trackers) + 1)
    /\ in_sun' = [in_sun EXCEPT ![visiting] = Shines(visiting, sun)]
    /\ orders' = IF Shines(visiting, sun) = in_sun[visiting] THEN {}
                 ELSE Reaction(visiting, Shines(visiting, sun))
    /\ UNCHANGED <<vars, sun, astray>>

(* The rules run before the next tracker is visited, in whatever order the *)
(* rule files have them.                                                   *)
Order(o) ==
    /\ Exec(o.dev, o.type)
    /\ orders' = orders \ {o}
    /\ astray' = astray \ {o.dev}
    /\ UNCHANGED <<sun, in_sun, visiting>>

(* Somebody commands a blind by hand.                                      *)
ByHand(d, a) ==
    /\ Idle
    /\ Exec(d, a)
    /\ astray' = IF a \in {"STOP", "LOCK", "UNLOCK"} THEN astray ELSE astray \cup {d}
    /\ UNCHANGED <<sun, in_sun, visiting, orders>>

TrackWorker ==
    /\ Idle
    /\ \E d \in Devices : Worker(d)
    /\ UNCHANGED <<sun, in_sun, visiting, orders, astray>>

TrackScript ==
    /\ ScriptMoves
    /\ UNCHANGED <<sun, in_sun, visiting, orders, astray>>

(* A script that has not moved its blind by its end has failed.            *)
TrackCommandDone ==
    /\ Idle
    /\ CommandDone
    /\ astray' = IF script = "running" THEN astray \cup {busy} ELSE astray
    /\ UNCHANGED <<sun, in_sun, visiting, orders>>

(* Nothing of what the trackers had found survives a restart.              *)
TrackRestart ==
    /\ Restart
    /\ in_sun' = [t \in TrackerIds |-> FALSE]
    /\ visiting' = 0 /\ orders' = {}
    /\ astray' = Devices
    /\ UNCHANGED sun

TrackNext ==
    \/ SunMoves \/ CheckAllTrackers \/ CheckTracker
    \/ \E o \in orders : Order(o)
    \/ \E d \in Devices, a \in ActionTypes : ByHand(d, a)
    \/ TrackWorker \/ TrackScript \/ TrackCommandDone
    \/ TrackRestart

TrackSpec == TrackInit /\ [][TrackNext]_trackVars

(* A callback runs to its end; the worker and the end of a script are      *)
(* callbacks of the same loop, which come again and again between those of *)
(* the trackers; and every script ends.                                    *)
TrackFairness ==
    /\ WF_trackVars(CheckTracker \/ \E o \in orders : Order(o))
    /\ SF_trackVars(TrackWorker)
    /\ WF_trackVars(TrackScript)
    /\ SF_trackVars(TrackCommandDone)

TrackFairSpec == TrackSpec /\ TrackFairness

-----------------------------------------------------------------------------
(* A blind that reports its end position has followed the sun: it is down  *)
(* exactly if its tracker last found the sun in the window, although the   *)
(* tracker changes its mind while scripts run and the worker serves other  *)
(* blinds, unless since that event somebody has moved the blind by hand,   *)
(* its script has failed or the engine was restarted                       *)
(* (soltracker_check_tracker, velux_klf200_cmd_cb).                        *)
BlindsFollowSun ==
    Idle => \A d \in Devices \ astray :
        ~changed[d] => window[d] = IF in_sun[Follows[d]] THEN 1 ELSE 0
=============================================================================
