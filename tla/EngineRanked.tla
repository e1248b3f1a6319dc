---------------------------- MODULE EngineRanked ----------------------------
(***************************************************************************)
(* The engine under a layered configuration.  Nothing in engine.c stops a  *)
(* rule from triggering itself: the recursion is as deep as the rules make *)
(* it.  A rule file is layered when every device can be given a rank such  *)
(* that a rule acts on devices that raise events only below the rank of    *)
(* its own device.  What follows from that is stated here.                 *)
(***************************************************************************)
EXTENDS Engine

CONSTANTS
    Rank,       \* Rank[d]: the layer of d
    MaxRank     \* the highest layer

ASSUME RankAssumption ==
    /\ MaxRank \in Nat
    /\ Rank \in [Devices -> 0 .. MaxRank]
    /\ \A r \in 1 .. Len(Rules) : \A i \in 1 .. Len(Rules[r].acts) :
          LET a == Rules[r].acts[i]
          IN  Kind[a.dev] \in Echoing => Rank[a.dev] < Rank[Rules[r].dev]

(* A frame that runs actions runs those of a rule for its own event.       *)
FramesFollowRules ==
    \A i \in 1 .. Len(stack) :
        stack[i].act > 0 => stack[i].rule <= Len(Rules) /\ Matches(stack[i])

(* A nested dispatch is always about a device of a lower layer.            *)
Descending ==
    \A i, j \in 1 .. Len(stack) :
        i < j => Rank[stack[j].dev] < Rank[stack[i].dev]

(* The call stack of the engine stays shallow: a dispatch never nests      *)
(* deeper than the layers of the rule file (engine_trigger_event recurses  *)
(* through exec callbacks with no guard of its own).                       *)
BoundedDepth == Len(stack) <= MaxRank + 1

(* What BoundedDepth needs to be inductive.                                *)
DepthByRank ==
    \A i \in 1 .. Len(stack) : Rank[stack[i].dev] + i <= MaxRank + 1

(* Whoever runs while a SET or UNSET of a BOOL, FSR14 or FUD14 is being    *)
(* dispatched finds the device in the state the event announces, however   *)
(* many nested dispatches have run in between: no rule acts on an event    *)
(* that an earlier rule has already made untrue.                           *)
NoStaleEvent ==
    \A i \in 1 .. Len(stack) :
        LET f == stack[i]
        IN  Kind[f.dev] \in Echoing =>
                f.ev = RaisedEvent(Kind[f.dev], val[f.dev])

(* The dispatches of layer r on call stack s: one at most, by Descending.  *)
Layer(s, r) == {s[i] : i \in {j \in 1 .. Len(s) : Rank[s[j].dev] = r}}

(* The walk has come from f to g, which lies within the rules as well.     *)
Passed(f, g) ==
    \/ f.rule < g.rule
    \/ f.rule = g.rule /\ f.act < g.act /\ g.act <= Len(Rules[g.rule].acts) + 1

(* Every dispatch ends.  Each step of it takes work away: a callback has   *)
(* less left to do, or the dispatch of some layer has come further or has  *)
(* returned, and on the layers above nothing has changed.  What an action  *)
(* starts on the layers below, however much that is, is therefore done     *)
(* only as often as actions are left above (engine_trigger_event has no    *)
(* other bound: a rule that reaches its own event recurses for ever).      *)
WorkShrinks ==
    [][EngineStep =>
         \/ Len(script') < Len(script)
         \/ /\ script' = script
            /\ \E r \in 0 .. MaxRank :
                  /\ \E f \in Layer(stack, r) : \A g \in Layer(stack', r) : Passed(f, g)
                  /\ \A q \in r + 1 .. MaxRank : Layer(stack', q) = Layer(stack, q)]_vars
=============================================================================
