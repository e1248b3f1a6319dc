--------------------------- MODULE MCSoltracker ---------------------------
(* Two blinds behind one gateway, the kitchen first in the device list, on *)
(* two sides of the house: in the morning the sun is in one window, at     *)
(* noon in both, at night in none.                                         *)
EXTENDS Soltracker

CONSTANTS kitchen, attic

MCDeviceList == <<kitchen, attic>>

MCTrackers == <<[angle |-> 135, view |-> 180], [angle |-> 225, view |-> 180]>>

MCFollows == [d \in {kitchen, attic} |-> IF d = kitchen THEN 1 ELSE 2]

MCPositions == {[azi |-> 90, alt |-> 20], [azi |-> 180, alt |-> 60],
                [azi |-> 180, alt |-> -20]}
=============================================================================
