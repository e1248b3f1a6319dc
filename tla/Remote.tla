------------------------------- MODULE Remote -------------------------------
(***************************************************************************)
(* The remote control socket (remote.c) and its clients, in front of the   *)
(* Eltako bus.  A connection is a stream of bytes without any framing: the *)
(* engine takes whatever has arrived, up to the size of its buffer, for    *)
(* one line, carries it out within the callback and answers once.  domctl  *)
(* (domctl.c) sends one line per connection and leaves when it has its     *)
(* answer; other programs write and leave whenever they like.  A DO for a  *)
(* device on the bus gives the bus one telegram; the sockets themselves    *)
(* are external.                                                           *)
(***************************************************************************)
EXTENDS EltakoBus

CONSTANTS
    Domctls,        \* users of domctl, each one call after another
    Scripts,        \* other programs that connect to the socket
    Room,           \* lines that fit the 127 bytes of a read
    MaxAsked        \* bound on the commands of each of them

Clients == Domctls \cup Scripts

(* <<c, n>> is the telegram of the n-th command of client c.               *)
ASSUME RemoteAssumption ==
    /\ Domctls \cap Scripts = {}
    /\ MaxAsked \in Nat
    /\ Messages = Clients \X (1 .. MaxAsked)
    /\ Room \in Nat \ {0}

VARIABLES
    conn,       \* conn[c]: none, open, or left by the client; a domctl has
                \* besides asked, or been told its answer
    inbox,      \* lines of c that have arrived and are not read
    asked       \* history: commands c has written so far

socket == <<conn, inbox, asked>>
remoteVars == <<vars, socket>>

(* A line that gives no telegram: a request for a state or a log, one that *)
(* is refused, or the rest of a line that was cut.                         *)
Idle == 0

RemoteInit ==
    /\ Init
    /\ conn = [c \in Clients |-> "none"]
    /\ inbox = [c \in Clients |-> <<>>]
    /\ asked = [c \in Clients |-> 0]

-----------------------------------------------------------------------------
(* A client connects.  The engine accepts in its own time                  *)
(* (handle_incoming_event), but until it reads nobody can tell.            *)
Connect(c) ==
    /\ conn[c] = "none"
    /\ conn' = [conn EXCEPT ![c] = "open"]
    /\ UNCHANGED <<vars, inbox, asked>>

(* A client writes a line.  A socket holds one line more than a read.      *)
Write(c, line) ==
    /\ conn[c] = "open" /\ Len(inbox[c]) <= Room
    /\ conn' = [conn EXCEPT ![c] = IF c \in Domctls THEN "asked" ELSE "open"]
    /\ inbox' = [inbox EXCEPT ![c] = Append(@, line)]
    /\ UNCHANGED vars

AskCommand(c) ==
    /\ asked[c] < MaxAsked
    /\ Write(c, asked[c] + 1)
    /\ asked' = [asked EXCEPT ![c] = @ + 1]

AskOther(c) ==
    /\ c \in Scripts
    /\ Write(c, Idle)
    /\ UNCHANGED asked

(* What a read leaves in the socket: what did not fit the buffer, where    *)
(* the first line may have lost its beginning.                             *)
LeftOver(lines) ==
    IF Len(lines) <= Room THEN {<<>>}
    ELSE LET rest == SubSeq(lines, Room + 1, Len(lines))
         IN  {rest, <<Idle>> \o Tail(rest)}

(* handle_command: the buffer ends, for line_parse, with its first line.   *)
HandleCommand(c, line) ==
    \/ line = Idle /\ UNCHANGED vars
    \/ line # Idle /\ Send(<<c, line>>)

(* handle_incoming_conn_event: one line is carried out, the others in the  *)
(* buffer are lost, and one answer is written, if only to a client that    *)
(* has left.                                                               *)
Read(c) ==
    /\ inbox[c] # <<>>
    /\ HandleCommand(c, Head(inbox[c]))
    /\ \E rest \in LeftOver(inbox[c]) : inbox' = [inbox EXCEPT ![c] = rest]
    /\ conn' = [conn EXCEPT ![c] = IF @ = "asked" THEN "told" ELSE @]
    /\ UNCHANGED asked

(* Mutant: domctl leaves as soon as it has written its line.               *)
LeaveEarly(c) ==
    /\ conn[c] \in IF c \in Domctls THEN {"asked", "told"} ELSE {"open"}
    /\ conn' = [conn EXCEPT ![c] = "left"]
    /\ UNCHANGED <<vars, inbox, asked>>

(* domctl leaves with its answer only.                                     *)
Leave(c) ==
    /\ conn[c] = IF c \in Domctls THEN "told" ELSE "open"
    /\ conn' = [conn EXCEPT ![c] = "left"]
    /\ UNCHANGED <<vars, inbox, asked>>

(* remote_connection_close, after an end of file, or from                  *)
(* handle_incoming_conn_error with lines that are still unread.            *)
Close(c) ==
    /\ conn[c] = "left"
    /\ conn' = [conn EXCEPT ![c] = "none"]
    /\ inbox' = [inbox EXCEPT ![c] = <<>>]
    /\ UNCHANGED <<vars, asked>>

BusRuns ==
    /\ TimerCheck \/ Tick \/ \E k \in ClockSteps : SetClock(k)
    /\ UNCHANGED socket

RemoteNext ==
    \/ \E c \in Clients :
          \/ Connect(c) \/ AskCommand(c) \/ AskOther(c)
          \/ Read(c) \/ Leave(c) \/ Close(c)
    \/ BusRuns

RemoteSpec == RemoteInit /\ [][RemoteNext]_remoteVars

(* The loop serves its sockets and its timer, and time goes on.            *)
RemoteFairSpec ==
    /\ RemoteSpec
    /\ \A c \in Clients : WF_remoteVars(Read(c))
    /\ WF_remoteVars(TimerCheck /\ BusRuns)
    /\ WF_remoteVars(Tick /\ BusRuns)

-----------------------------------------------------------------------------
RemoteTypeOK ==
    /\ TypeOK
    /\ conn \in [Clients -> {"none", "open", "asked", "told", "left"}]
    /\ inbox \in [Clients -> Seq(0 .. MaxAsked)]
    /\ asked \in [Clients -> 0 .. MaxAsked]

(* The telegrams the bus was given, those that have left first.            *)
Given == wire \o queue

(* Nothing a client writes is carried out twice or overtakes what it has   *)
(* written before, however its lines share a read or are cut by it, and    *)
(* every command given through domctl is carried out, once, by the time    *)
(* domctl has its answer, whatever the other clients write or drop         *)
(* (handle_incoming_conn_event, domctl.c).                                 *)
Obeyed ==
    /\ \A i, j \in 1 .. Len(Given) :
          i < j /\ Given[i][1] = Given[j][1] => Given[i][2] < Given[j][2]
    /\ \A c \in Domctls : \A n \in 1 .. asked[c] :
          \/ \E i \in 1 .. Len(Given) : Given[i] = <<c, n>>
          \/ n = asked[c] /\ conn[c] = "asked"

(* A command given through domctl leaves on the bus in the end, unless     *)
(* somebody keeps setting the clock: the engine accepts, reads, queues and *)
(* tries again often enough (handle_incoming_event, eltako_check_send_queue). *)
CommandsLeave ==
    <>[]steady =>
        \A c \in Domctls : \A n \in 1 .. MaxAsked :
            asked[c] = n ~> \E i \in 1 .. Len(wire) : wire[i] = <<c, n>>
=============================================================================
