---------------------------- MODULE MCSunriset ----------------------------
(* Days of six slots with the sun at south in the middle of the day or a   *)
(* slot later (summer time), and every nested choice of arcs from polar    *)
(* night to midnight sun.                                                  *)
EXTENDS Sunriset

MCNoons == {3, 4}

MCArcs ==
    {arc \in [Twilights -> 0 .. 3] :
        \A j, k \in Twilights : j <= k => arc[j] <= arc[k]}
=============================================================================
