----------------------------- MODULE MCSchedule -----------------------------
(* All files of at most two entries; days of four minutes of four ticks.   *)
EXTENDS Schedule

MCEntries == [at : 0 .. 3, ev : {"SET", "UNSET"}]
MCFiles == {<<>>} \cup {<<e>> : e \in MCEntries}
                  \cup {<<e, f>> : e \in MCEntries, f \in MCEntries}
=============================================================================
