-------------------------- MODULE EltakoBusProofs --------------------------
(***************************************************************************)
(* Proofs about the send queue, for every gap, timer period and number of  *)
(* telegrams: it implements a reliable FIFO whatever happens to the clock, *)
(* and unless the clock is set it keeps the gap and stalls no longer than  *)
(* the loop does.  The socket in front of it is one way to drive it, and   *)
(* obeys its clients.                                                      *)
(***************************************************************************)
EXTENDS Remote, SequenceTheorems, TLAPS

LEMMA HorizonNat == Horizon \in Nat /\ Gap < Horizon /\ Gap + Period + Late < Horizon
  BY BusAssumption DEF Horizon

LEMMA TypeCheck ==
    ASSUME TypeOK, NEW q \in Seq(Messages), CheckSendQueue(q)
    PROVE  /\ queue' \in Seq(Messages) /\ wire' \in Seq(Messages)
           /\ since' \in 0 .. Horizon /\ age' \in -Horizon .. Horizon
           /\ steady' \in BOOLEAN
<1>1. CASE q # <<>> /\ ~TooFast
  <2>1. Head(q) \in Messages /\ Tail(q) \in Seq(Messages)
    BY <1>1
  <2>2. /\ queue' = Tail(q) /\ wire' = Append(wire, Head(q)) /\ since' = 0 /\ age' = 0
        /\ steady' = TRUE
    BY <1>1 DEF CheckSendQueue
  <2> QED  BY <2>1, <2>2, HorizonNat DEF TypeOK
<1>2. CASE q = <<>> \/ TooFast
  BY <1>2 DEF CheckSendQueue, TypeOK
<1> QED  BY <1>1, <1>2

LEMMA TypeInit == Init => TypeOK
<1> SUFFICES ASSUME Init PROVE TypeOK
  OBVIOUS
<1>1. Horizon \in 0 .. Horizon /\ Horizon \in -Horizon .. Horizon /\ Period \in -Late .. Period
  BY HorizonNat, BusAssumption
<1>2. <<>> \in Seq(Messages)
  OBVIOUS
<1> QED  BY <1>1, <1>2 DEF Init, TypeOK

LEMMA TypeNext == TypeOK /\ [Next]_vars => TypeOK'
<1> SUFFICES ASSUME TypeOK, [Next]_vars PROVE TypeOK'
  OBVIOUS
<1>1. ASSUME NEW m \in Messages, Send(m) PROVE TypeOK'
  <2>1. Append(queue, m) \in Seq(Messages)
    BY DEF TypeOK
  <2> QED  BY <1>1, <2>1, TypeCheck DEF Send, TypeOK
<1>2. CASE TimerCheck
  <2>1. due' \in -Late .. Period
    BY <1>2, BusAssumption DEF TimerCheck, TypeOK
  <2>2. queue \in Seq(Messages)
    BY DEF TypeOK
  <2> QED  BY <1>2, <2>1, <2>2, TypeCheck DEF TimerCheck, TypeOK
<1>3. CASE Tick
  BY <1>3, HorizonNat, BusAssumption DEF Tick, Capped, TypeOK
<1>4. ASSUME NEW k \in ClockSteps, SetClock(k) PROVE TypeOK'
  <2>1. k \in Int
    BY BusAssumption
  <2>2. age' \in -Horizon .. Horizon
    BY <1>4, <2>1, HorizonNat DEF SetClock, Capped, TypeOK
  <2>3. since' \in 0 .. Horizon
    BY <1>4, HorizonNat DEF SetClock
  <2> QED  BY <1>4, <2>2, <2>3 DEF SetClock, TypeOK
<1>5. CASE UNCHANGED vars
  BY <1>5 DEF vars, TypeOK
<1> QED  BY <1>1, <1>2, <1>3, <1>4, <1>5 DEF Next

(* The types of the queue and the ranges of the two intervals.             *)
THEOREM BusTypes == Spec => []TypeOK
  BY TypeInit, TypeNext, PTL DEF Spec

-----------------------------------------------------------------------------
(* The refinement: a send that finds the bus free gives and takes at once, *)
(* one that must wait only gives, and an expiry of the timer takes.        *)
LEMMA GiveSeq ==
    ASSUME NEW w \in Seq(Messages), NEW q \in Seq(Messages), NEW m \in Messages
    PROVE  w \o Append(q, m) = Append(w \o q, m)
  OBVIOUS

LEMMA TakeSeq ==
    ASSUME NEW w \in Seq(Messages), NEW q \in Seq(Messages), q # <<>>
    PROVE  /\ Append(w, Head(q)) \o Tail(q) = w \o q
           /\ Len(w) < Len(w \o q)
           /\ (w \o q)[Len(w) + 1] = Head(q)
  OBVIOUS

LEMMA SendRefines ==
    ASSUME TypeOK, NEW m \in Messages, Send(m)
    PROVE  Fifo!Next
<1> DEFINE q == Append(queue, m)
<1>1. queue \in Seq(Messages) /\ wire \in Seq(Messages)
  BY DEF TypeOK
<1>2. q \in Seq(Messages) /\ q # <<>>
  BY <1>1
<1>3. wire \o q = Append(wire \o queue, m)
  BY <1>1, GiveSeq
<1>4. CASE TooFast
  <2>1. queue' = q /\ wire' = wire
    BY <1>2, <1>4 DEF Send, CheckSendQueue
  <2>2. Fifo!Give(m)
    BY <1>3, <2>1 DEF Fifo!Give
  <2> QED  BY <2>2 DEF Fifo!Next
<1>5. CASE ~TooFast
  <2>1. queue' = Tail(q) /\ wire' = Append(wire, Head(q))
    BY <1>2, <1>5 DEF Send, CheckSendQueue
  <2>2. /\ wire' \o queue' = wire \o q
        /\ (wire \o q)[Len(wire) + 1] = Head(q)
    <3> HIDE DEF q
    <3> QED  BY <1>1, <1>2, <2>1, TakeSeq
  <2>3. Fifo!GiveAndTake(m)
    BY <1>3, <2>1, <2>2 DEF Fifo!GiveAndTake
  <2> QED  BY <2>3 DEF Fifo!Next
<1> QED  BY <1>4, <1>5

LEMMA TimerRefines ==
    ASSUME TypeOK, TimerCheck
    PROVE  Fifo!Next \/ UNCHANGED <<wire \o queue, wire>>
<1>1. queue \in Seq(Messages) /\ wire \in Seq(Messages)
  BY DEF TypeOK
<1>2. CASE queue # <<>> /\ ~TooFast
  <2>1. queue' = Tail(queue) /\ wire' = Append(wire, Head(queue))
    BY <1>2 DEF TimerCheck, CheckSendQueue
  <2>2. /\ wire' \o queue' = wire \o queue
        /\ Len(wire) < Len(wire \o queue)
        /\ (wire \o queue)[Len(wire) + 1] = Head(queue)
    BY <1>1, <1>2, <2>1, TakeSeq
  <2>3. Fifo!Take
    BY <2>1, <2>2 DEF Fifo!Take
  <2> QED  BY <2>3 DEF Fifo!Next
<1>3. CASE queue = <<>> \/ TooFast
  BY <1>3 DEF TimerCheck, CheckSendQueue
<1> QED  BY <1>2, <1>3

(* The queue of eltako.c implements a reliable FIFO: nothing given to      *)
(* eltako_send is lost, repeated or overtaken, however the clock is set.   *)
THEOREM BusIsFifo == Spec => FifoOrder
<1>1. Init => Fifo!Init
  BY DEF Init, Fifo!Init
<1>2. TypeOK /\ [Next]_vars => [Fifo!Next]_<<wire \o queue, wire>>
  <2> SUFFICES ASSUME TypeOK, [Next]_vars
               PROVE  Fifo!Next \/ UNCHANGED <<wire \o queue, wire>>
    OBVIOUS
  <2>1. CASE \E m \in Messages : Send(m)
    BY <2>1, SendRefines
  <2>2. CASE TimerCheck
    BY <2>2, TimerRefines
  <2>3. CASE Tick
    BY <2>3 DEF Tick
  <2>4. CASE \E k \in ClockSteps : SetClock(k)
    BY <2>4 DEF SetClock
  <2>5. CASE UNCHANGED vars
    BY <2>5 DEF vars
  <2> QED  BY <2>1, <2>2, <2>3, <2>4, <2>5 DEF Next
<1> QED  BY <1>1, <1>2, BusTypes, PTL DEF Spec, FifoOrder, Fifo!Spec

-----------------------------------------------------------------------------
(* While nobody has set the clock both intervals are the same, and a queue *)
(* that is not empty was found so within the gap at its last check.        *)
SteadyInv ==
    /\ TypeOK
    /\ steady => age = since
    /\ steady /\ queue # <<>> => since < Gap + (Period - due)

LEMMA SteadyNext ==
    SteadyInv /\ [Next]_vars => SteadyInv' /\ (wire' # wire /\ steady => since >= Gap)
<1> SUFFICES ASSUME SteadyInv, [Next]_vars
             PROVE  SteadyInv' /\ (wire' # wire /\ steady => since >= Gap)
  OBVIOUS
<1>1. TypeOK /\ TypeOK'
  BY TypeNext DEF SteadyInv
<1>2. /\ Gap \in Nat \ {0} /\ Period \in Nat \ {0} /\ due \in -Late .. Period
      /\ since \in 0 .. Horizon /\ Horizon \in Nat
  BY <1>1, BusAssumption, HorizonNat DEF TypeOK
<1>a. \A s, d \in Int : s < Gap /\ d <= Period => s < Gap + (Period - d)
  BY BusAssumption
<1>b. Gap > 0 /\ Gap \in Int /\ Period \in Int /\ since \in Int
  BY <1>2
<1>3. steady => (TooFast <=> since < Gap)
  BY <1>2 DEF TooFast, SteadyInv
<1>4. ASSUME NEW q, CheckSendQueue(q), due' \in -Late .. Period
      PROVE  SteadyInv' /\ (wire' # wire /\ steady => since >= Gap)
  <2>1. CASE q # <<>> /\ ~TooFast
    <3>1. since' = 0 /\ age' = 0 /\ due' \in -Late .. Period
      BY <1>1, <1>4, <2>1 DEF CheckSendQueue, TypeOK
    <3>2. since' \in Int /\ since' < Gap /\ due' \in Int /\ due' <= Period
      BY <1>b, <3>1
    <3>3. since' < Gap + (Period - due')
      BY <1>a, <3>2
    <3>4. steady => since >= Gap
      BY <1>2, <1>3, <2>1
    <3> QED  BY <1>1, <3>1, <3>3, <3>4 DEF SteadyInv
  <2>2. CASE TooFast
    <3>1. UNCHANGED <<wire, since, age, steady>> /\ due' \in -Late .. Period
      BY <1>1, <1>4, <2>2 DEF CheckSendQueue, TypeOK
    <3>2. CASE steady
      <4>1. since' \in Int /\ since' < Gap /\ due' \in Int /\ due' <= Period
        BY <1>b, <1>3, <2>2, <3>1, <3>2
      <4>2. since' < Gap + (Period - due')
        BY <1>a, <4>1
      <4> QED  BY <1>1, <3>1, <4>2 DEF SteadyInv
    <3>3. CASE ~steady
      BY <1>1, <3>1, <3>3 DEF SteadyInv
    <3> QED  BY <3>2, <3>3
  <2>3. CASE q = <<>> /\ ~TooFast
    BY <1>1, <1>4, <2>3 DEF CheckSendQueue, SteadyInv
  <2> QED  BY <2>1, <2>2, <2>3
<1>5. ASSUME NEW m \in Messages, Send(m)
      PROVE  SteadyInv' /\ (wire' # wire /\ steady => since >= Gap)
  <2>1. due' \in -Late .. Period
    BY <1>2, <1>5 DEF Send
  <2> QED  BY <1>4, <1>5, <2>1 DEF Send
<1>6. CASE TimerCheck
  <2>1. due' \in -Late .. Period
    BY <1>2, <1>6, BusAssumption DEF TimerCheck
  <2> QED  BY <1>4, <1>6, <2>1 DEF TimerCheck
<1>7. CASE Tick
  <2>1. /\ since' = Capped(since + 1) /\ age' = Capped(age + 1) /\ due' = due - 1
        /\ UNCHANGED <<queue, wire, steady>>
    BY <1>7 DEF Tick
  <2>2. since' <= since + 1 /\ since' \in Int
    BY <1>2, <2>1 DEF Capped
  <2>3. CASE steady
    <3>1. age = since /\ (queue # <<>> => since < Gap + (Period - due))
      BY <2>3 DEF SteadyInv
    <3>2. queue # <<>> => since' < Gap + (Period - due')
      BY <1>2, <2>1, <2>2, <3>1
    <3> QED  BY <1>1, <2>1, <3>1, <3>2 DEF SteadyInv
  <2>4. CASE ~steady
    BY <1>1, <2>1, <2>4 DEF SteadyInv
  <2> QED  BY <2>3, <2>4
<1>8. CASE \E k \in ClockSteps : SetClock(k)
  BY <1>1, <1>8 DEF SetClock, SteadyInv
<1>9. CASE UNCHANGED vars
  BY <1>1, <1>9 DEF vars, SteadyInv
<1> QED  BY <1>5, <1>6, <1>7, <1>8, <1>9 DEF Next

LEMMA SteadyInit == Init => SteadyInv
  BY TypeInit DEF Init, SteadyInv

(* Unless the clock is set in between, two telegrams leave at least the    *)
(* gap apart, for every gap and timer period.                              *)
THEOREM GapKept == Spec => Spacing
<1>1. SteadyInv /\ [Next]_vars => SteadyInv'
  BY SteadyNext
<1>2. SteadyInv /\ [Next]_vars => [wire' # wire /\ steady => since >= Gap]_vars
  BY SteadyNext
<1> QED  BY <1>1, <1>2, SteadyInit, PTL DEF Spec, Spacing

(* And the head of the queue leaves within the gap, a timer period and the *)
(* lateness of the timer, however late the loop may serve it.              *)
THEOREM QueueMoves == Spec => []NoStall
<1>1. SteadyInv /\ [Next]_vars => SteadyInv'
  BY SteadyNext
<1>2. SteadyInv => NoStall
  BY BusAssumption DEF SteadyInv, TypeOK, NoStall
<1> QED  BY <1>1, <1>2, SteadyInit, PTL DEF Spec

-----------------------------------------------------------------------------
(* The socket in front of the bus.  What a send and a step of the bus do   *)
(* to the telegrams it was given.                                          *)
LEMMA SendGives ==
    ASSUME TypeOK, NEW m \in Messages, Send(m)
    PROVE  Given' = Append(Given, m)
<1> DEFINE q == Append(queue, m)
<1>1. queue \in Seq(Messages) /\ wire \in Seq(Messages)
  BY DEF TypeOK
<1>2. queue \in Seq(Messages) /\ wire \in Seq(Messages) /\ q \in Seq(Messages) /\ q # <<>>
  BY <1>1
<1>3. wire \o q = Append(wire \o queue, m)
  BY <1>2, GiveSeq
<1>4. CASE TooFast
  BY <1>2, <1>3, <1>4 DEF Send, CheckSendQueue, Given
<1>5. CASE ~TooFast
  <2>1. queue' = Tail(q) /\ wire' = Append(wire, Head(q))
    BY <1>2, <1>5 DEF Send, CheckSendQueue
  <2>2. wire' \o queue' = wire \o q
    <3> HIDE DEF q
    <3> QED  BY <1>2, <2>1, TakeSeq
  <2> QED  BY <1>3, <2>2 DEF Given
<1> QED  BY <1>4, <1>5

LEMMA BusGivesNothing ==
    ASSUME TypeOK, BusRuns
    PROVE  Given' = Given
<1>1. queue \in Seq(Messages) /\ wire \in Seq(Messages)
  BY DEF TypeOK
<1>2. CASE TimerCheck /\ queue # <<>> /\ ~TooFast
  <2>1. queue' = Tail(queue) /\ wire' = Append(wire, Head(queue))
    BY <1>2 DEF TimerCheck, CheckSendQueue
  <2> QED  BY <1>1, <1>2, <2>1, TakeSeq DEF Given
<1>3. CASE TimerCheck /\ (queue = <<>> \/ TooFast)
  BY <1>3 DEF TimerCheck, CheckSendQueue, Given
<1>4. CASE Tick \/ \E k \in ClockSteps : SetClock(k)
  BY <1>4 DEF Tick, SetClock, Given
<1> QED  BY <1>2, <1>3, <1>4 DEF BusRuns

(* What a read leaves are lines from beyond the first, in their order,     *)
(* some of which give nothing.                                             *)
LEMMA LeftOverLines ==
    ASSUME NEW lines \in Seq(0 .. MaxAsked), NEW left \in LeftOver(lines)
    PROVE  /\ left \in Seq(0 .. MaxAsked)
           /\ Len(lines) <= Room => left = <<>>
           /\ \A k \in 1 .. Len(left) :
                 left[k] # Idle => k + Room <= Len(lines) /\ left[k] = lines[k + Room]
<1>1. CASE Len(lines) <= Room
  BY <1>1 DEF LeftOver
<1>2. CASE Len(lines) > Room
  <2> DEFINE beyond == SubSeq(lines, Room + 1, Len(lines))
  <2>1. /\ beyond \in Seq(0 .. MaxAsked) /\ Len(beyond) = Len(lines) - Room
        /\ \A k \in 1 .. Len(beyond) : beyond[k] = lines[k + Room]
    BY <1>2, RemoteAssumption
  <2>3. ~(Len(lines) <= Room)
    BY <1>2, RemoteAssumption
  <2>2. left = beyond \/ left = <<Idle>> \o Tail(beyond)
    BY <2>3, Zenon DEF LeftOver
  <2>4. Idle \in 0 .. MaxAsked
    BY RemoteAssumption DEF Idle
  <2> HIDE DEF beyond
  <2>5. CASE left = beyond
    BY <2>1, <2>3, <2>5, RemoteAssumption
  <2>6. CASE left = <<Idle>> \o Tail(beyond)
    <3>1. /\ left \in Seq(0 .. MaxAsked) /\ Len(left) = Len(beyond)
          /\ left[1] = Idle
          /\ \A k \in 2 .. Len(left) : left[k] = beyond[k]
      BY <1>2, <2>1, <2>4, <2>6, RemoteAssumption
    <3> QED  BY <1>2, <2>1, <2>3, <3>1, RemoteAssumption
  <2> QED  BY <2>2, <2>5, <2>6
<1> QED  BY <1>1, <1>2, RemoteAssumption

(* The commands of a client are given in the order they were written: what *)
(* was given comes before what waits in its socket, and that before what   *)
(* it has not asked yet.                                                   *)
GivenInOrder ==
    \A i, j \in 1 .. Len(Given) :
        i < j /\ Given[i][1] = Given[j][1] => Given[i][2] < Given[j][2]

GivenAsked == \A i \in 1 .. Len(Given) : Given[i][2] <= asked[Given[i][1]]

InboxInOrder ==
    \A c \in Clients : \A k \in 1 .. Len(inbox[c]) :
        inbox[c][k] # Idle =>
            /\ inbox[c][k] <= asked[c]
            /\ \A l \in 1 .. Len(inbox[c]) :
                  k < l /\ inbox[c][l] # Idle => inbox[c][k] < inbox[c][l]
            /\ \A i \in 1 .. Len(Given) :
                  Given[i][1] = c => Given[i][2] < inbox[c][k]

(* A call of domctl: its one line waits until it has its answer.           *)
OneLine ==
    \A c \in Domctls :
        /\ conn[c] = "asked" => asked[c] # 0 /\ inbox[c] = <<asked[c]>>
        /\ conn[c] # "asked" => inbox[c] = <<>>

CallsGiven ==
    \A c \in Domctls : \A n \in 1 .. asked[c] :
        \/ \E i \in 1 .. Len(Given) : Given[i] = <<c, n>>
        \/ n = asked[c] /\ conn[c] = "asked"

RemoteInv ==
    /\ RemoteTypeOK
    /\ GivenInOrder /\ GivenAsked /\ InboxInOrder
    /\ OneLine /\ CallsGiven

LEMMA GivenTyped ==
    ASSUME TypeOK
    PROVE  /\ Given \in Seq(Messages)
           /\ \A i \in 1 .. Len(Given) :
                 Given[i][1] \in Clients /\ Given[i][2] \in 1 .. MaxAsked
<1>1. Given \in Seq(Messages)
  BY DEF TypeOK, Given
<1>2. \A i \in 1 .. Len(Given) : Given[i] \in Messages
  BY <1>1
<1>3. \A m \in Messages : m[1] \in Clients /\ m[2] \in 1 .. MaxAsked
  BY RemoteAssumption
<1> QED  BY <1>1, <1>2, <1>3

LEMMA RemoteInitial == RemoteInit => RemoteInv
<1> SUFFICES ASSUME RemoteInit PROVE RemoteInv
  OBVIOUS
<1>1. TypeOK /\ queue = <<>> /\ wire = <<>>
  BY TypeInit DEF RemoteInit, Init
<1>2. Len(Given) = 0
  BY <1>1 DEF Given
<1>3. /\ conn \in [Clients -> {"none", "open", "asked", "told", "left"}]
      /\ inbox \in [Clients -> Seq(0 .. MaxAsked)]
      /\ asked \in [Clients -> 0 .. MaxAsked]
  BY RemoteAssumption DEF RemoteInit
<1>4. \A c \in Clients : conn[c] = "none" /\ inbox[c] = <<>> /\ asked[c] = 0
  BY DEF RemoteInit
<1>5. RemoteTypeOK
  BY <1>1, <1>3 DEF RemoteTypeOK
<1>6. GivenInOrder /\ GivenAsked /\ InboxInOrder
  BY <1>2, <1>4 DEF GivenInOrder, GivenAsked, InboxInOrder
<1>7. OneLine /\ CallsGiven
  BY <1>4 DEF OneLine, CallsGiven, Clients
<1> QED  BY <1>5, <1>6, <1>7 DEF RemoteInv

(* A client that connects, leaves or is forgotten gives nothing and asks   *)
(* nothing; what is forgotten with it was no call of domctl.               *)
LEMMA ConnectionKeeps ==
    ASSUME RemoteInv, NEW c \in Clients, Connect(c) \/ Leave(c) \/ Close(c)
    PROVE  RemoteInv'
<1>1. /\ UNCHANGED <<vars, asked>>
      /\ \E v \in {"none", "open", "left"} : conn' = [conn EXCEPT ![c] = v]
      /\ inbox' \in {inbox, [inbox EXCEPT ![c] = <<>>]}
      /\ c \in Domctls => conn[c] # "asked"
  BY DEF Connect, Leave, Close
<1>2. /\ TypeOK
      /\ conn \in [Clients -> {"none", "open", "asked", "told", "left"}]
      /\ inbox \in [Clients -> Seq(0 .. MaxAsked)]
      /\ asked \in [Clients -> 0 .. MaxAsked]
  BY DEF RemoteInv, RemoteTypeOK
<1>3. TypeOK' /\ Given' = Given /\ asked' = asked
  BY <1>1, <1>2 DEF vars, TypeOK, Given
<1>4. \A d \in Clients : inbox'[d] \in {inbox[d], <<>>}
  BY <1>1, <1>2
<1>5. /\ conn' \in [Clients -> {"none", "open", "asked", "told", "left"}]
      /\ inbox' \in [Clients -> Seq(0 .. MaxAsked)]
  <2>1. conn' \in [Clients -> {"none", "open", "asked", "told", "left"}]
    BY <1>1, <1>2
  <2>2. <<>> \in Seq(0 .. MaxAsked)
    OBVIOUS
  <2>3. inbox' \in [Clients -> Seq(0 .. MaxAsked)]
    BY <1>1, <1>2, <2>2
  <2> QED  BY <2>1, <2>3
<1>6. RemoteTypeOK'
  BY <1>2, <1>3, <1>5 DEF RemoteTypeOK
<1>7. (GivenInOrder /\ GivenAsked)'
  BY <1>3 DEF RemoteInv, GivenInOrder, GivenAsked
<1>8. InboxInOrder'
  BY <1>3, <1>4 DEF RemoteInv, InboxInOrder
<1>9. \A d \in Domctls : (conn'[d] = "asked") = (conn[d] = "asked")
  BY <1>1, <1>2 DEF Clients
<1>10. \A d \in Domctls : conn[d] = "asked" => inbox'[d] = inbox[d]
  BY <1>1, <1>2 DEF Clients
<1>11. OneLine'
  BY <1>3, <1>4, <1>9, <1>10 DEF RemoteInv, OneLine, Clients
<1>12. CallsGiven'
  BY <1>3, <1>9 DEF RemoteInv, CallsGiven
<1> QED  BY <1>6, <1>7, <1>8, <1>11, <1>12 DEF RemoteInv

(* A line that is written has the highest number of its client, or none.   *)
LEMMA WritingKeeps ==
    ASSUME RemoteInv, NEW c \in Clients, AskCommand(c) \/ AskOther(c)
    PROVE  RemoteInv'
<1>1. PICK line \in Nat :
        /\ Write(c, line)
        /\ \/ /\ line = asked[c] + 1 /\ asked[c] < MaxAsked
              /\ asked' = [asked EXCEPT ![c] = @ + 1]
           \/ line = Idle /\ c \notin Domctls /\ asked' = asked
  <2>1. asked[c] \in Nat /\ Idle \in Nat
    BY RemoteAssumption DEF RemoteInv, RemoteTypeOK, Idle
  <2>2. CASE AskCommand(c)
    BY <2>1, <2>2 DEF AskCommand
  <2>3. CASE AskOther(c)
    BY <2>1, <2>3, RemoteAssumption DEF AskOther
  <2> QED  BY <2>2, <2>3
<1>2. /\ TypeOK
      /\ conn \in [Clients -> {"none", "open", "asked", "told", "left"}]
      /\ inbox \in [Clients -> Seq(0 .. MaxAsked)]
      /\ asked \in [Clients -> 0 .. MaxAsked]
      /\ MaxAsked \in Nat
  BY RemoteAssumption DEF RemoteInv, RemoteTypeOK
<1>3. TypeOK' /\ Given' = Given
  BY <1>1, <1>2 DEF Write, vars, TypeOK, Given
<1>4. /\ line \in 0 .. MaxAsked
      /\ asked'[c] \in 0 .. MaxAsked /\ asked[c] <= asked'[c] /\ line <= asked'[c]
      /\ line # Idle => asked[c] < line
      /\ \A d \in Clients : d # c => asked'[d] = asked[d]
      /\ asked' \in [Clients -> 0 .. MaxAsked]
  <2>1. asked[c] \in 0 .. MaxAsked
    BY <1>2
  <2>2. CASE line = asked[c] + 1 /\ asked[c] < MaxAsked /\ asked' = [asked EXCEPT ![c] = @ + 1]
    <3>1. asked[c] + 1 \in 0 .. MaxAsked /\ asked'[c] = asked[c] + 1
      BY <1>2, <2>1, <2>2
    <3>2. asked' \in [Clients -> 0 .. MaxAsked]
      BY <1>2, <2>2, <3>1
    <3> QED  BY <1>2, <2>1, <2>2, <3>1, <3>2
  <2>3. CASE line = Idle /\ asked' = asked
    BY <1>2, <2>1, <2>3 DEF Idle
  <2> QED  BY <1>1, <2>2, <2>3
<1>5. /\ conn[c] = "open"
      /\ conn'[c] = IF c \in Domctls THEN "asked" ELSE "open"
      /\ inbox'[c] = Append(inbox[c], line)
      /\ \A d \in Clients : d # c => inbox'[d] = inbox[d] /\ conn'[d] = conn[d]
      /\ conn' \in [Clients -> {"none", "open", "asked", "told", "left"}]
      /\ inbox' \in [Clients -> Seq(0 .. MaxAsked)]
  BY <1>1, <1>2, <1>4 DEF Write
<1>6. RemoteTypeOK'
  BY <1>3, <1>4, <1>5 DEF RemoteTypeOK
<1>7. \A i \in 1 .. Len(Given) : Given[i][1] \in Clients /\ Given[i][2] \in 1 .. MaxAsked
  BY <1>2, GivenTyped
<1>8. GivenInOrder'
  BY <1>3 DEF RemoteInv, GivenInOrder
<1>9. GivenAsked'
  <2> SUFFICES ASSUME NEW i \in 1 .. Len(Given)
               PROVE  Given[i][2] <= asked'[Given[i][1]]
    BY <1>3 DEF GivenAsked
  <2>1. Given[i][2] <= asked[Given[i][1]]
    BY DEF RemoteInv, GivenAsked
  <2>2. asked[Given[i][1]] <= asked'[Given[i][1]]
    <3>1. Given[i][1] \in Clients /\ asked[Given[i][1]] \in 0 .. MaxAsked
      BY <1>2, <1>7
    <3>2. CASE Given[i][1] = c
      BY <1>4, <3>2
    <3>3. CASE Given[i][1] # c
      <4>1. asked'[Given[i][1]] = asked[Given[i][1]]
        BY <1>4, <3>1, <3>3
      <4> QED  BY <1>2, <3>1, <4>1
    <3> QED  BY <3>2, <3>3
  <2> QED  BY <1>2, <1>4, <1>7, <2>1, <2>2
<1>10. InboxInOrder'
  <2> SUFFICES ASSUME NEW d \in Clients, NEW k \in 1 .. Len(inbox'[d]), inbox'[d][k] # Idle
               PROVE  /\ inbox'[d][k] <= asked'[d]
                      /\ \A l \in 1 .. Len(inbox'[d]) :
                            k < l /\ inbox'[d][l] # Idle => inbox'[d][k] < inbox'[d][l]
                      /\ \A i \in 1 .. Len(Given) :
                            Given[i][1] = d => Given[i][2] < inbox'[d][k]
    BY <1>3 DEF InboxInOrder
  <2>1. CASE d # c
    BY <1>4, <1>5, <2>1 DEF RemoteInv, InboxInOrder
  <2>2. CASE d = c
    <3>1. /\ inbox[c] \in Seq(0 .. MaxAsked)
          /\ Len(inbox'[c]) = Len(inbox[c]) + 1
          /\ \A l \in 1 .. Len(inbox[c]) : inbox'[c][l] = inbox[c][l]
          /\ inbox'[c][Len(inbox[c]) + 1] = line
      BY <1>2, <1>4, <1>5
    <3>2. \A i \in 1 .. Len(Given) : Given[i][1] = c => Given[i][2] <= asked[c]
      BY DEF RemoteInv, GivenAsked
    <3>3. CASE k = Len(inbox[c]) + 1
      <4>1. inbox'[c][k] = line /\ line # Idle
        BY <2>2, <3>1, <3>3
      <4>2. \A l \in 1 .. Len(inbox'[c]) : ~(k < l)
        BY <3>1, <3>3
      <4>3. \A i \in 1 .. Len(Given) : Given[i][1] = c => Given[i][2] < line
        <5> SUFFICES ASSUME NEW i \in 1 .. Len(Given), Given[i][1] = c
                     PROVE  Given[i][2] < line
          OBVIOUS
        <5>1. Given[i][2] <= asked[c] /\ Given[i][2] \in 1 .. MaxAsked
          BY <1>7, <3>2
        <5>2. asked[c] \in 0 .. MaxAsked /\ asked[c] < line
          BY <1>2, <1>4, <4>1
        <5> QED  BY <1>2, <5>1, <5>2
      <4> QED  BY <1>4, <2>2, <4>1, <4>2, <4>3
    <3>4. CASE k \in 1 .. Len(inbox[c])
      <4>1. inbox'[c][k] = inbox[c][k] /\ inbox[c][k] # Idle
        BY <2>2, <3>1, <3>4
      <4>2. /\ inbox[c][k] <= asked[c]
            /\ \A l \in 1 .. Len(inbox[c]) :
                  k < l /\ inbox[c][l] # Idle => inbox[c][k] < inbox[c][l]
            /\ \A i \in 1 .. Len(Given) :
                  Given[i][1] = c => Given[i][2] < inbox[c][k]
        BY <3>4, <4>1 DEF RemoteInv, InboxInOrder
      <4>3. inbox[c][k] \in Nat /\ asked[c] \in Nat /\ asked'[c] \in Nat
        BY <1>2, <1>4, <3>1, <3>4
      <4>4. inbox[c][k] <= asked'[c]
        BY <1>4, <4>2, <4>3
      <4>5. \A l \in 1 .. Len(inbox'[c]) :
                k < l /\ inbox'[c][l] # Idle => inbox[c][k] < inbox'[c][l]
        <5> SUFFICES ASSUME NEW l \in 1 .. Len(inbox'[c]), k < l, inbox'[c][l] # Idle
                     PROVE  inbox[c][k] < inbox'[c][l]
          OBVIOUS
        <5>1. CASE l \in 1 .. Len(inbox[c])
          BY <3>1, <4>2, <5>1
        <5>2. CASE l = Len(inbox[c]) + 1
          <6>1. inbox'[c][l] = line /\ asked[c] < line
            BY <1>4, <3>1, <5>2
          <6> QED  BY <1>4, <4>2, <4>3, <6>1
        <5> QED  BY <3>1, <5>1, <5>2
      <4> QED  BY <2>2, <4>1, <4>2, <4>4, <4>5
    <3> QED  BY <2>2, <3>1, <3>3, <3>4
  <2> QED  BY <2>1, <2>2
<1>11. OneLine'
  <2> SUFFICES ASSUME NEW d \in Domctls
               PROVE  /\ conn'[d] = "asked" => asked'[d] # 0 /\ inbox'[d] = <<asked'[d]>>
                      /\ conn'[d] # "asked" => inbox'[d] = <<>>
    BY DEF OneLine
  <2>1. CASE d # c
    BY <1>4, <1>5, <2>1 DEF RemoteInv, OneLine, Clients
  <2>2. CASE d = c
    <3>1. inbox[c] = <<>> /\ conn'[c] = "asked"
      BY <1>5, <2>2 DEF RemoteInv, OneLine
    <3>2. asked'[c] = asked[c] + 1 /\ line = asked[c] + 1
      BY <1>1, <1>2, <2>2
    <3> QED  BY <1>2, <1>5, <2>2, <3>1, <3>2
  <2> QED  BY <2>1, <2>2
<1>12. CallsGiven'
  <2> SUFFICES ASSUME NEW d \in Domctls, NEW n \in 1 .. asked'[d]
               PROVE  \/ \E i \in 1 .. Len(Given) : Given[i] = <<d, n>>
                      \/ n = asked'[d] /\ conn'[d] = "asked"
    BY <1>3 DEF CallsGiven
  <2>1. CASE d # c
    BY <1>4, <1>5, <2>1 DEF RemoteInv, CallsGiven, Clients
  <2>2. CASE d = c
    <3>1. conn[c] = "open" /\ conn'[c] = "asked" /\ asked'[c] = asked[c] + 1
      BY <1>1, <1>2, <1>5, <2>2
    <3>2. CASE n = asked'[c]
      BY <2>2, <3>1, <3>2
    <3>3. CASE n \in 1 .. asked[c]
      BY <2>2, <3>1, <3>3 DEF RemoteInv, CallsGiven
    <3> QED  BY <1>2, <2>2, <3>1, <3>2, <3>3
  <2> QED  BY <2>1, <2>2
<1> QED  BY <1>6, <1>8, <1>9, <1>10, <1>11, <1>12 DEF RemoteInv

(* A read gives the bus the first line at most, which comes after all that *)
(* was given for its client and before all that it leaves.                 *)
LEMMA ReadingKeeps ==
    ASSUME RemoteInv, NEW c \in Clients, Read(c)
    PROVE  RemoteInv'
<1> DEFINE line == Head(inbox[c])
<1>1. /\ TypeOK
      /\ conn \in [Clients -> {"none", "open", "asked", "told", "left"}]
      /\ inbox \in [Clients -> Seq(0 .. MaxAsked)]
      /\ asked \in [Clients -> 0 .. MaxAsked]
      /\ MaxAsked \in Nat /\ Room \in Nat \ {0}
  BY RemoteAssumption DEF RemoteInv, RemoteTypeOK
<1>2. /\ inbox[c] # <<>> /\ inbox[c] \in Seq(0 .. MaxAsked)
      /\ line \in 0 .. MaxAsked /\ line = inbox[c][1] /\ 1 \in 1 .. Len(inbox[c])
  BY <1>1 DEF Read
<1>3. /\ HandleCommand(c, line) /\ asked' = asked
      /\ conn' = [conn EXCEPT ![c] = IF @ = "asked" THEN "told" ELSE @]
  BY DEF Read
<1>4. PICK left \in LeftOver(inbox[c]) : inbox' = [inbox EXCEPT ![c] = left]
  BY DEF Read
<1>5. /\ left \in Seq(0 .. MaxAsked)
      /\ Len(inbox[c]) <= Room => left = <<>>
      /\ \A k \in 1 .. Len(left) :
            left[k] # Idle => k + Room <= Len(inbox[c]) /\ left[k] = inbox[c][k + Room]
  BY <1>2, LeftOverLines
<1>6. /\ inbox'[c] = left
      /\ \A d \in Clients : d # c => inbox'[d] = inbox[d] /\ conn'[d] = conn[d]
      /\ inbox' \in [Clients -> Seq(0 .. MaxAsked)]
      /\ conn' \in [Clients -> {"none", "open", "asked", "told", "left"}]
      /\ conn'[c] = IF conn[c] = "asked" THEN "told" ELSE conn[c]
  BY <1>1, <1>3, <1>4, <1>5
<1>7. line # Idle => <<c, line>> \in Messages
  BY <1>1, <1>2, RemoteAssumption DEF Idle
<1> HIDE DEF line
<1>8. TypeOK'
  <2>1. CASE line = Idle
    BY <1>1, <1>3, <2>1 DEF HandleCommand, vars, TypeOK
  <2>2. CASE line # Idle
    <3>1. [Next]_vars
      BY <1>3, <1>7, <2>2 DEF HandleCommand, Next
    <3> QED  BY <1>1, <3>1, TypeNext
  <2> QED  BY <2>1, <2>2
<1>9. RemoteTypeOK'
  BY <1>1, <1>3, <1>6, <1>8 DEF RemoteTypeOK
<1>10. /\ Given \in Seq(Messages)
       /\ \A i \in 1 .. Len(Given) :
             Given[i][1] \in Clients /\ Given[i][2] \in 1 .. MaxAsked
  BY <1>1, GivenTyped
<1>11. \/ line = Idle /\ Given' = Given
       \/ line # Idle /\ Given' = Append(Given, <<c, line>>)
  <2>1. CASE line = Idle
    BY <1>3, <2>1 DEF HandleCommand, vars, Given
  <2>2. CASE line # Idle
    <3>1. Send(<<c, line>>)
      BY <1>3, <2>2 DEF HandleCommand
    <3> QED  BY <1>1, <1>7, <2>2, <3>1, SendGives
  <2> QED  BY <2>1, <2>2
<1>12. line # Idle =>
         /\ line <= asked[c]
         /\ \A l \in 1 .. Len(inbox[c]) : 1 < l /\ inbox[c][l] # Idle => line < inbox[c][l]
         /\ \A i \in 1 .. Len(Given) : Given[i][1] = c => Given[i][2] < line
  BY <1>2 DEF RemoteInv, InboxInOrder
<1>13. Len(Given) \in Nat
  BY <1>10
<1>14. \/ Given' = Given
       \/ /\ line # Idle
          /\ Len(Given') = Len(Given) + 1
          /\ \A i \in 1 .. Len(Given) : Given'[i] = Given[i]
          /\ Given'[Len(Given) + 1] = <<c, line>>
  <2> SUFFICES ASSUME line # Idle, Given' = Append(Given, <<c, line>>)
               PROVE  /\ Len(Given') = Len(Given) + 1
                      /\ \A i \in 1 .. Len(Given) : Given'[i] = Given[i]
                      /\ Given'[Len(Given) + 1] = <<c, line>>
    BY <1>11
  <2>1. Given \in Seq(Messages) /\ <<c, line>> \in Messages
    BY <1>7, <1>10
  <2> QED  BY <2>1, AppendProperties
<1>15. GivenInOrder'
  <2> SUFFICES ASSUME NEW i \in 1 .. Len(Given'), NEW j \in 1 .. Len(Given'),
                      i < j, Given'[i][1] = Given'[j][1]
               PROVE  Given'[i][2] < Given'[j][2]
    BY DEF GivenInOrder
  <2>1. CASE Given' = Given \/ j \in 1 .. Len(Given)
    BY <1>13, <1>14, <2>1 DEF RemoteInv, GivenInOrder
  <2>2. CASE Given' # Given /\ j = Len(Given) + 1
    <3>1. i \in 1 .. Len(Given) /\ Given'[i] = Given[i] /\ Given'[j] = <<c, line>>
      BY <1>13, <1>14, <2>2
    <3> QED  BY <1>12, <1>14, <2>2, <3>1
  <2> QED  BY <1>13, <1>14, <2>1, <2>2
<1>16. GivenAsked'
  <2> SUFFICES ASSUME NEW i \in 1 .. Len(Given')
               PROVE  Given'[i][2] <= asked[Given'[i][1]]
    BY <1>3 DEF GivenAsked
  <2>1. CASE Given' = Given \/ i \in 1 .. Len(Given)
    BY <1>14, <2>1 DEF RemoteInv, GivenAsked
  <2>2. CASE Given' # Given /\ i = Len(Given) + 1
    BY <1>12, <1>14, <2>2
  <2> QED  BY <1>13, <1>14, <2>1, <2>2
<1>17. InboxInOrder'
  <2> SUFFICES ASSUME NEW d \in Clients, NEW k \in 1 .. Len(inbox'[d]), inbox'[d][k] # Idle
               PROVE  /\ inbox'[d][k] <= asked[d]
                      /\ \A l \in 1 .. Len(inbox'[d]) :
                            k < l /\ inbox'[d][l] # Idle => inbox'[d][k] < inbox'[d][l]
                      /\ \A i \in 1 .. Len(Given') :
                            Given'[i][1] = d => Given'[i][2] < inbox'[d][k]
    BY <1>3 DEF InboxInOrder
  <2>1. PICK p \in 1 .. Len(inbox[d]) :
          /\ inbox[d][p] = inbox'[d][k]
          /\ \A l \in 1 .. Len(inbox'[d]) :
                k < l /\ inbox'[d][l] # Idle =>
                    \E r \in 1 .. Len(inbox[d]) : p < r /\ inbox[d][r] = inbox'[d][l]
          /\ d = c => 1 < p
    <3>1. CASE d # c
      <4>1. inbox'[d] = inbox[d]
        BY <1>6, <3>1
      <4> QED  BY <3>1, <4>1
    <3>2. CASE d = c
      <4>1. ASSUME NEW l \in 1 .. Len(left), left[l] # Idle
            PROVE  /\ l + Room \in 1 .. Len(inbox[c]) /\ 1 < l + Room
                   /\ inbox[c][l + Room] = left[l]
        <5>1. l + Room <= Len(inbox[c]) /\ inbox[c][l + Room] = left[l]
          BY <1>5, <4>1
        <5>2. l \in Nat \ {0} /\ Room \in Nat \ {0} /\ Len(inbox[c]) \in Nat
          BY <1>2, <1>5, RemoteAssumption
        <5> QED  BY <5>1, <5>2
      <4>2. /\ k \in 1 .. Len(left) /\ left[k] # Idle /\ inbox'[d] = left
        BY <1>6, <3>2
      <4>3. ASSUME NEW l \in 1 .. Len(left), k < l, left[l] # Idle
            PROVE  \E r \in 1 .. Len(inbox[c]) : k + Room < r /\ inbox[c][r] = left[l]
        <5>1. l + Room \in 1 .. Len(inbox[c]) /\ inbox[c][l + Room] = left[l]
          BY <4>1, <4>3
        <5>2. k \in Int /\ l \in Int /\ Room \in Int
          BY RemoteAssumption, <4>2
        <5>3. k + Room < l + Room
          BY <4>3, <5>2
        <5> QED  BY <5>1, <5>3
      <4>4. k + Room \in 1 .. Len(inbox[c]) /\ 1 < k + Room /\ inbox[c][k + Room] = left[k]
        BY <4>1, <4>2
      <4> QED  BY <3>2, <4>2, <4>3, <4>4
    <3> QED  BY <3>1, <3>2
  <2>2. /\ inbox[d][p] # Idle
        /\ inbox[d][p] <= asked[d]
        /\ \A r \in 1 .. Len(inbox[d]) :
              p < r /\ inbox[d][r] # Idle => inbox[d][p] < inbox[d][r]
        /\ \A i \in 1 .. Len(Given) : Given[i][1] = d => Given[i][2] < inbox[d][p]
    BY <2>1 DEF RemoteInv, InboxInOrder
  <2>3. \A l \in 1 .. Len(inbox'[d]) :
            k < l /\ inbox'[d][l] # Idle => inbox'[d][k] < inbox'[d][l]
    BY <2>1, <2>2
  <2>4. ASSUME NEW i \in 1 .. Len(Given'), Given'[i][1] = d
        PROVE  Given'[i][2] < inbox[d][p]
    <3>1. CASE Given' = Given \/ i \in 1 .. Len(Given)
      BY <1>14, <2>2, <2>4, <3>1
    <3>2. CASE Given' # Given /\ i = Len(Given) + 1
      <4>1. line # Idle /\ Given'[i] = <<c, line>> /\ d = c
        BY <1>14, <2>4, <3>2
      <4> QED  BY <1>12, <2>1, <2>2, <4>1
    <3> QED  BY <1>13, <1>14, <3>1, <3>2
  <2> QED  BY <2>1, <2>2, <2>3, <2>4
<1>18. OneLine'
  <2> SUFFICES ASSUME NEW d \in Domctls
               PROVE  /\ conn'[d] = "asked" => asked[d] # 0 /\ inbox'[d] = <<asked[d]>>
                      /\ conn'[d] # "asked" => inbox'[d] = <<>>
    BY <1>3 DEF OneLine
  <2>1. CASE d # c
    BY <1>6, <2>1 DEF RemoteInv, OneLine, Clients
  <2>2. CASE d = c
    <3>1. conn[c] = "asked" /\ inbox[c] = <<asked[c]>>
      BY <1>2, <2>2 DEF RemoteInv, OneLine
    <3>2. Len(inbox[c]) <= Room
      BY <1>1, <3>1
    <3>3. inbox'[c] = <<>> /\ conn'[c] = "told"
      BY <1>5, <1>6, <3>1, <3>2
    <3> QED  BY <2>2, <3>3
  <2> QED  BY <2>1, <2>2
<1>19. CallsGiven'
  <2> SUFFICES ASSUME NEW d \in Domctls, NEW n \in 1 .. asked[d]
               PROVE  \/ \E i \in 1 .. Len(Given') : Given'[i] = <<d, n>>
                      \/ n = asked[d] /\ conn'[d] = "asked"
    BY <1>3 DEF CallsGiven
  <2>1. CASE \E i \in 1 .. Len(Given) : Given[i] = <<d, n>>
    BY <1>13, <1>14, <2>1
  <2>2. CASE n = asked[d] /\ conn[d] = "asked" /\ d # c
    BY <1>6, <2>2 DEF Clients
  <2>3. CASE n = asked[d] /\ conn[d] = "asked" /\ d = c
    <3>1. inbox[c] = <<asked[c]>> /\ asked[c] # 0
      BY <2>3 DEF RemoteInv, OneLine
    <3>2. line = n /\ line # Idle
      BY <1>2, <2>3, <3>1 DEF Idle
    <3>3. Len(Given) + 1 \in 1 .. Len(Given') /\ Given'[Len(Given) + 1] = <<d, n>>
      BY <1>7, <1>10, <1>11, <2>3, <3>2
    <3> QED  BY <3>3
  <2> QED  BY <2>1, <2>2, <2>3 DEF RemoteInv, CallsGiven
<1> QED  BY <1>9, <1>15, <1>16, <1>17, <1>18, <1>19 DEF RemoteInv

LEMMA BusKeeps ==
    ASSUME RemoteInv, BusRuns
    PROVE  RemoteInv'
<1>1. TypeOK /\ RemoteTypeOK
  BY DEF RemoteInv, RemoteTypeOK
<1>2. [Next]_vars
  BY DEF BusRuns, Next
<1>3. TypeOK' /\ Given' = Given
  BY <1>1, <1>2, TypeNext, BusGivesNothing
<1>4. conn' = conn /\ inbox' = inbox /\ asked' = asked
  BY DEF BusRuns, socket
<1>5. RemoteTypeOK'
  BY <1>1, <1>3, <1>4 DEF RemoteTypeOK
<1>6. (GivenInOrder /\ GivenAsked /\ InboxInOrder /\ OneLine /\ CallsGiven)'
  BY <1>3, <1>4 DEF RemoteInv, GivenInOrder, GivenAsked, InboxInOrder, OneLine, CallsGiven
<1> QED  BY <1>5, <1>6 DEF RemoteInv

LEMMA RemoteInvNext == RemoteInv /\ [RemoteNext]_remoteVars => RemoteInv'
<1> SUFFICES ASSUME RemoteInv, [RemoteNext]_remoteVars PROVE RemoteInv'
  OBVIOUS
<1>1. ASSUME NEW c \in Clients, Connect(c) \/ Leave(c) \/ Close(c)
      PROVE  RemoteInv'
  BY <1>1, ConnectionKeeps
<1>2. ASSUME NEW c \in Clients, AskCommand(c) \/ AskOther(c)
      PROVE  RemoteInv'
  BY <1>2, WritingKeeps
<1>3. ASSUME NEW c \in Clients, Read(c)
      PROVE  RemoteInv'
  BY <1>3, ReadingKeeps
<1>4. CASE BusRuns
  BY <1>4, BusKeeps
<1>5. CASE UNCHANGED remoteVars
  BY <1>5 DEF remoteVars, socket, vars, RemoteInv, RemoteTypeOK, TypeOK, Given,
              GivenInOrder, GivenAsked, InboxInOrder, OneLine, CallsGiven
<1> QED  BY <1>1, <1>2, <1>3, <1>4, <1>5 DEF RemoteNext

(* However the lines of any number of clients share reads, are cut by them *)
(* or dropped with a connection, what a client gives the bus comes in the  *)
(* order it was written, and an answer to domctl means that its command    *)
(* has been given.                                                         *)
THEOREM CommandsObeyed == RemoteSpec => []Obeyed
<1>1. RemoteInv => Obeyed
  BY DEF RemoteInv, GivenInOrder, CallsGiven, Obeyed
<1> QED  BY <1>1, RemoteInitial, RemoteInvNext, PTL DEF RemoteSpec

(* The socket uses the bus as the bus expects: every step is one of the    *)
(* bus or leaves it alone, so what holds of the bus holds behind it.       *)
THEOREM RemoteDrivesBus == RemoteSpec => Spec /\ FifoOrder /\ Spacing /\ []NoStall
<1>1. RemoteInit => Init
  BY DEF RemoteInit
<1>2. RemoteInv /\ [RemoteNext]_remoteVars => [Next]_vars
  <2> SUFFICES ASSUME RemoteInv, [RemoteNext]_remoteVars PROVE [Next]_vars
    OBVIOUS
  <2>1. ASSUME NEW c \in Clients,
               Connect(c) \/ AskCommand(c) \/ AskOther(c) \/ Leave(c) \/ Close(c)
        PROVE  UNCHANGED vars
    BY <2>1 DEF Connect, AskCommand, AskOther, Write, Leave, Close
  <2>2. ASSUME NEW c \in Clients, Read(c)
        PROVE  [Next]_vars
    <3> DEFINE line == Head(inbox[c])
    <3>1. /\ inbox[c] # <<>> /\ inbox[c] \in Seq(0 .. MaxAsked)
          /\ MaxAsked \in Nat
      BY <2>2, RemoteAssumption DEF Read, RemoteInv, RemoteTypeOK
    <3>2. line = inbox[c][1] /\ 1 \in 1 .. Len(inbox[c])
      BY <3>1
    <3>3. line \in 0 .. MaxAsked
      <4> HIDE DEF line
      <4> QED  BY <3>1, <3>2
    <3>4. HandleCommand(c, line)
      BY <2>2 DEF Read
    <3>5. line # Idle => <<c, line>> \in Messages
      BY <3>3, RemoteAssumption DEF Idle
    <3> HIDE DEF line
    <3> QED  BY <3>4, <3>5 DEF HandleCommand, Next
  <2>3. CASE BusRuns
    BY <2>3 DEF BusRuns, Next
  <2>4. CASE UNCHANGED remoteVars
    BY <2>4 DEF remoteVars
  <2> QED  BY <2>1, <2>2, <2>3, <2>4 DEF RemoteNext
<1>3. RemoteSpec => Spec
  BY <1>1, <1>2, RemoteInitial, RemoteInvNext, PTL DEF RemoteSpec, Spec
<1> QED  BY <1>3, BusIsFifo, GapKept, QueueMoves, PTL
=============================================================================
