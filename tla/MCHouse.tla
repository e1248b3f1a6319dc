------------------------------ MODULE MCHouse ------------------------------
(***************************************************************************)
(* A house with every type of device the engine switches.  A push button   *)
(* lights the stairs at night unless somebody said "away"; held, it dims   *)
(* them.  The lamp starts the timer that switches it off and the fan,      *)
(* "away" darkens the stairs and is shown by a pilot light on an output.   *)
(* The engine is stopped and started again at any time.                    *)
(***************************************************************************)
EXTENDS House

CONSTANTS sw, night, away, lamp, stair, tick, fan, pilot

MCDevices == {sw, night, away, lamp, stair, tick, fan, pilot}

MCKind == [d \in MCDevices |->
             CASE d = sw             -> "FTS14EM"
               [] d = night          -> "SCHEDULE"
               [] d = away           -> "BOOL"
               [] d = lamp           -> "FUD14"
               [] d \in {stair, tick} -> "TIMER"
               [] d = fan            -> "FSR14"
               [] d = pilot          -> "GPO"]

Do(d, t) == [dev |-> d, type |-> t, opt |-> NoOption]
If(d, t) == [dev |-> d, type |-> t]
On(d, e, cs, as) == [dev |-> d, ev |-> e, conds |-> cs, acts |-> as]

MCRules == <<
    On(sw, "PRESS", <<If(away, "UNSET"), If(night, "SET")>>, <<Do(lamp, "SET")>>),
    On(sw, "PRESS", <<>>, <<Do(tick, "SET")>>),
    On(tick, "TIMEOUT", <<If(lamp, "SET")>>, <<Do(lamp, "DIM"), Do(tick, "SET")>>),
    On(sw, "RELEASE", <<>>, <<Do(tick, "UNSET")>>),
    On(lamp, "SET", <<>>, <<Do(stair, "SET"), Do(fan, "SET")>>),
    On(lamp, "UNSET", <<>>, <<Do(stair, "UNSET"), Do(fan, "UNSET")>>),
    On(stair, "TIMEOUT", <<>>, <<Do(lamp, "UNSET")>>),
    On(sw, "LONG_PRESS", <<>>, <<Do(away, "TOGGLE")>>),
    On(away, "SET", <<>>, <<Do(pilot, "SET"), Do(lamp, "UNSET")>>),
    On(away, "UNSET", <<>>, <<Do(pilot, "UNSET")>>),
    On(night, "UNSET", <<If(lamp, "SET")>>, <<Do(lamp, "TOGGLE")>>) >>

MCCommands == {Do(away, "SET"), Do(away, "UNSET"), Do(lamp, "UNSET")}

MCRank == [d \in MCDevices |->
             CASE d = fan  -> 0
               [] d = lamp -> 1
               [] d = away -> 2
               [] OTHER    -> 3]

(* The four patterns all occur.                                            *)
ASSUME HouseAssumption ==
    /\ Followers = {<<fan, lamp>>, <<stair, lamp>>, <<pilot, away>>}
    /\ Exclusions = {<<away, lamp>>}
    /\ Repeaters = {<<tick, sw>>}
    /\ Dimmers = {lamp}

Lit == IsOn(lamp)

BeingPressed == stack # <<>> /\ stack[1].dev \in {sw, tick}

(* Somebody always gets darkness back: a lamp whose timer runs goes out,   *)
(* or the button is pressed or held again and again, which restarts the    *)
(* timer (timer_device_exec), or the engine is restarted in between.       *)
LampGoesOut ==
    Lit /\ lamp \notin silent ~> ~Lit \/ BeingPressed \/ lamp \in silent
=============================================================================
