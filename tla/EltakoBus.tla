------------------------------ MODULE EltakoBus ------------------------------
(***************************************************************************)
(* The send queue of the Eltako bus (eltako.c): eltako_send appends a      *)
(* telegram and tries to send at once, a periodic timer tries again, and   *)
(* at most one telegram leaves per try, none if the last one left less     *)
(* than 190 ms ago.  "Ago" is a difference of two readings of the wall     *)
(* clock in uint64 arithmetic, so the clock may be set in between.  The    *)
(* timer is one callback of the event loop: scripts, requests and rules    *)
(* that run in others let it be served late.                               *)
(***************************************************************************)
EXTENDS Integers, Sequences

CONSTANTS
    Messages,       \* the telegrams
    MaxMessages,    \* bound on the telegrams sent in a behaviour
    Gap,            \* 190 ms, in ticks
    Period,         \* 100 ms, the period of the timer
    Late,           \* by how many ticks the loop may serve the timer late
    ClockSteps      \* by how much the wall clock may be set, in ticks

ASSUME BusAssumption ==
    /\ MaxMessages \in Nat
    /\ Gap \in Nat \ {0} /\ Period \in Nat \ {0} /\ Late \in Nat
    /\ ClockSteps \subseteq Int

VARIABLES
    queue,      \* eltako_send_queue
    wire,       \* the telegrams written to the serial port so far
    since,      \* ticks that have really passed since the last of them,
                \* counted while nobody sets the clock
    age,        \* now - eltako_send_last, by the wall clock
    due,        \* ticks to the next expiry of the queue timer; negative
                \* when it is late
    steady      \* nobody has set the clock since the last telegram left

vars == <<queue, wire, since, age, due, steady>>

(* The interval beyond which both differences are counted no further.      *)
Horizon == Gap + Period + Late + 1

Capped(n) == IF n > Horizon THEN Horizon ELSE n

TypeOK ==
    /\ queue \in Seq(Messages)
    /\ wire \in Seq(Messages)
    /\ since \in 0 .. Horizon
    /\ age \in -Horizon .. Horizon
    /\ due \in -Late .. Period
    /\ steady \in BOOLEAN

(* eltako_send_last is 0: the last telegram left in 1970.                  *)
Init ==
    /\ queue = <<>>
    /\ wire = <<>>
    /\ since = Horizon
    /\ age = Horizon
    /\ due = Period
    /\ steady = TRUE

(* Mutants: off by one, to the one side and to the other.                  *)
TooFastLoose == age \in 0 .. Gap - 2
TooFastStrict == age \in 0 .. Gap

(* A clock set back makes the unsigned difference huge.                    *)
TooFast == age \in 0 .. Gap - 1

(* eltako_check_send_queue, with q in the queue.                           *)
CheckSendQueue(q) ==
    \/ /\ q # <<>> /\ ~TooFast
       /\ queue' = Tail(q)
       /\ wire' = Append(wire, Head(q))
       /\ since' = 0
       /\ age' = 0
       /\ steady' = TRUE
    \/ /\ q = <<>> \/ TooFast
       /\ queue' = q
       /\ UNCHANGED <<wire, since, age, steady>>

(* Mutant: a telegram is put in front of those that wait.                  *)
SendPrepends(m) ==
    /\ Len(wire) + Len(queue) < MaxMessages
    /\ CheckSendQueue(<<m>> \o queue)
    /\ UNCHANGED due

Send(m) ==
    /\ Len(wire) + Len(queue) < MaxMessages
    /\ CheckSendQueue(Append(queue, m))
    /\ UNCHANGED due

(* Mutant: the periodic timer does not look at the queue.                  *)
TimerCheckIdle ==
    /\ due <= 0
    /\ due' \in {Period, due + Period}
    /\ UNCHANGED <<queue, wire, since, age, steady>>

(* The next period counts from now, or from the expiry that was missed.    *)
TimerCheck ==
    /\ due <= 0
    /\ CheckSendQueue(queue)
    /\ due' \in {Period, due + Period}

(* Time passes, also while the loop is busy and the timer is due.          *)
Tick ==
    /\ due > -Late
    /\ due' = due - 1
    /\ since' = Capped(since + 1)
    /\ age' = Capped(age + 1)
    /\ UNCHANGED <<queue, wire, steady>>

(* Somebody sets the wall clock; below -Horizon nothing new happens.  What *)
(* has really passed is of no use to anybody until the next telegram.      *)
SetClock(k) ==
    /\ age + k >= -Horizon
    /\ age' = Capped(age + k)
    /\ steady' = FALSE
    /\ since' = Horizon
    /\ UNCHANGED <<queue, wire, due>>

Next ==
    \/ \E m \in Messages : Send(m)
    \/ TimerCheck
    \/ Tick
    \/ \E k \in ClockSteps : SetClock(k)

Spec == Init /\ [][Next]_vars

-----------------------------------------------------------------------------
(* No two telegrams leave within the gap (eltako.c: "check if we are not   *)
(* sending too fast"), however sends and timer expiries interleave, unless *)
(* somebody sets the clock between the two.                                *)
Spacing == [][wire' # wire /\ steady => since >= Gap]_vars

(* The queue stalls no longer than the loop does: while telegrams wait,    *)
(* the last one left less than the gap, one timer period and the lateness  *)
(* of the timer ago, so the n-th in the queue waits at most n times that;  *)
(* a clock that is set may hold it up (eltako.c: eltako_check_send_queue   *)
(* and its timer).                                                         *)
NoStall == steady /\ queue # <<>> => since < Gap + Period + Late

(* Every telegram given to eltako_send leaves, once, in the order given,   *)
(* whatever is done to the clock.                                          *)
Fifo == INSTANCE ReliableFifo WITH given <- wire \o queue, taken <- wire

FifoOrder == Fifo!Spec
=============================================================================
