------------------------------ MODULE MCRemote ------------------------------
(* A user of domctl and a script in front of the bus, while somebody sets  *)
(* the wall clock.                                                         *)
EXTENDS Remote

CONSTANTS user, cron

MCMessages == {user, cron} \X (1 .. 2)

MCClockSteps == {-2, 4}
=============================================================================
