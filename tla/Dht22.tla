-------------------------------- MODULE Dht22 --------------------------------
(***************************************************************************)
(* The DHT22 sensors.  A worker thread (dht22_worker.c) reads one sensor   *)
(* after the other and publishes a reading that two successive answers     *)
(* agree on; the event loop (dht22.c) logs what is published at every      *)
(* moment that is a multiple of the measurement interval; the logs         *)
(* (device_logs.c) hold one day, and the remote asks for that day.  The    *)
(* thread writes temperature and humidity without a lock, and the loop     *)
(* reads them without one.  Readings are reduced to what they are: the     *)
(* zero of calloc, a true value, or a corrupt one that passed its          *)
(* checksum.                                                               *)
(***************************************************************************)
EXTENDS Integers, SequencesExt

CONSTANTS
    Count,      \* the number of sensors in dht22_devices
    Tries,      \* silent answers before the worker gives a sensor up
    Interval,   \* MEASURMENT_INTERVAL, in ticks
    Entries,    \* LOG_ENTRIES
    Late,       \* ticks a moment may be delayed by a busy loop
    MaxClock    \* bound: the clock stops here

ASSUME SensorAssumption ==
    /\ Count \in Nat \ {0} /\ Tries \in Nat \ {0}
    /\ Interval \in Nat \ {0} /\ Entries \in Nat \ {0}
    /\ Late \in Nat /\ Late < Interval
    /\ MaxClock \in Nat

Sensors == 1 .. Count
Values == {"zero", "true", "corrupt"}
LogEntries == [ts : Nat, value : Values]

VARIABLES
    pc,         \* where the worker thread is
    at,         \* the sensor it reads
    first,      \* the first of its two answers, or "none"
    silent,     \* the count of silent answers
    raised,     \* the thread runs at real-time priority
    temp, hum,  \* dht22_t's temperature and humidity, shared
    clock,      \* the wall clock
    due,        \* when the timer of the next moment is due
    todo,       \* the sensor whose log is written, 0 when the loop is idle
    stamp,      \* its log_time, -1 until its temperature is logged
    temps, hums \* the logs of each sensor, newest entry first

worker == <<pc, at, first, silent, raised>>
shared == <<temp, hum>>
loop   == <<due, todo, stamp, temps, hums>>
vars   == <<worker, shared, clock, loop>>

TypeOK ==
    /\ pc \in {"start", "read", "silent", "broken", "temperature", "humidity",
              "sleep", "dead"}
    /\ at \in Sensors
    /\ first \in Values \cup {"none"}
    /\ silent \in 0 .. Tries
    /\ raised \in BOOLEAN
    /\ temp \in [Sensors -> Values] /\ hum \in [Sensors -> Values]
    /\ clock \in Nat /\ due \in Nat
    /\ todo \in 0 .. Count
    /\ stamp \in Nat \cup {-1}
    /\ temps \in [Sensors -> Seq(LogEntries)]
    /\ hums \in [Sensors -> Seq(LogEntries)]

UntilNext(now) == Interval - (now % Interval)

(* The first call of dht22_calculate_next_measurement_moment measures      *)
(* nothing; the worker is created after it.                                *)
Init ==
    /\ pc = "start" /\ at = 1 /\ first = "none" /\ silent = 0 /\ raised = FALSE
    /\ temp = [s \in Sensors |-> "zero"]
    /\ hum = [s \in Sensors |-> "zero"]
    /\ clock \in 0 .. Interval - 1
    /\ due = clock + UntilNext(clock)
    /\ todo = 0 /\ stamp = -1
    /\ temps = [s \in Sensors |-> <<>>]
    /\ hums = [s \in Sensors |-> <<>>]

-----------------------------------------------------------------------------
(* The worker.  Without the memory of the GPIO pins the thread ends.       *)
StartWorker ==
    /\ pc = "start"
    /\ pc' \in {"read", "dead"}
    /\ UNCHANGED <<at, first, silent, raised, shared, clock, loop>>

(* Mutant: silent answers are not counted.                                 *)
SilentUncounted ==
    /\ pc = "read"
    /\ raised' = TRUE
    /\ pc' = "silent"
    /\ UNCHANGED <<at, first, silent, shared, clock, loop>>

(* Mutant: pi_2_dht_read is given the shared readings to clear.            *)
SilentClears ==
    /\ pc = "read"
    /\ raised' = TRUE
    /\ silent' = silent + 1
    /\ pc' = IF silent' < Tries THEN "silent" ELSE "sleep"
    /\ temp' = [temp EXCEPT ![at] = "zero"]
    /\ hum' = [hum EXCEPT ![at] = "zero"]
    /\ UNCHANGED <<at, first, clock, loop>>

(* pi_2_dht_read raises the priority before the sensor is asked and lowers *)
(* it after a whole answer only.  A sensor that does not respond at all is *)
(* given up after so many tries.                                           *)
Silent ==
    /\ pc = "read"
    /\ raised' = TRUE
    /\ silent' = silent + 1
    /\ pc' = IF silent' < Tries THEN "silent" ELSE "sleep"
    /\ UNCHANGED <<at, first, shared, clock, loop>>

(* An answer that stops half-way, or fails its checksum, is not counted.   *)
Broken ==
    /\ pc = "read"
    /\ raised' \in BOOLEAN
    /\ pc' = "broken"
    /\ UNCHANGED <<at, first, silent, shared, clock, loop>>

Retry ==
    /\ pc \in {"silent", "broken"}
    /\ pc' = "read"
    /\ UNCHANGED <<at, first, silent, raised, shared, clock, loop>>

(* A corrupt answer may pass its checksum; if both answers that are        *)
(* compared did so and agreed, nothing could tell them from true ones.     *)
Answers == IF first = "corrupt" THEN {"true"} ELSE {"true", "corrupt"}

Answered ==
    /\ pc = "read"
    /\ silent' = 0 /\ raised' = FALSE
    /\ UNCHANGED <<at, shared, clock, loop>>

FirstAnswer ==
    /\ first = "none"
    /\ first' \in Answers
    /\ UNCHANGED pc
    /\ Answered

(* Mutant: the second answer is not compared with the first.               *)
AgreesUnseen ==
    /\ first # "none"
    /\ first' \in Answers
    /\ pc' = "temperature"
    /\ Answered

(* Two true answers may still differ: the air has changed.                 *)
Agrees ==
    /\ first # "none"
    /\ first \in Answers /\ first' = first
    /\ pc' = "temperature"
    /\ Answered

Differs ==
    /\ first # "none"
    /\ first' = "none"
    /\ UNCHANGED pc
    /\ Answered

PublishTemperature ==
    /\ pc = "temperature"
    /\ temp' = [temp EXCEPT ![at] = first]
    /\ pc' = "humidity"
    /\ UNCHANGED <<at, first, silent, raised, hum, clock, loop>>

PublishHumidity ==
    /\ pc = "humidity"
    /\ hum' = [hum EXCEPT ![at] = first]
    /\ pc' = "sleep"
    /\ UNCHANGED <<at, first, silent, raised, temp, clock, loop>>

NextSensor ==
    /\ pc = "sleep"
    /\ at' = (at % Count) + 1
    /\ first' = "none" /\ silent' = 0
    /\ pc' = "read"
    /\ UNCHANGED <<raised, shared, clock, loop>>

Worker ==
    \/ StartWorker \/ NextSensor \/ Retry
    \/ Silent \/ Broken \/ FirstAnswer \/ Agrees \/ Differs
    \/ PublishTemperature \/ PublishHumidity

-----------------------------------------------------------------------------
(* The loop.  The timer of the next moment is armed before the sensors of  *)
(* this one are measured.                                                  *)
Moment ==
    /\ todo = 0 /\ clock >= due
    /\ due' = clock + UntilNext(clock)
    /\ todo' = 1
    /\ UNCHANGED <<worker, shared, clock, stamp, temps, hums>>

(* dht22_get_current_log_time_rounded                                      *)
Rounded(now) ==
    IF 2 * (now % Interval) < Interval THEN now - (now % Interval)
                                       ELSE now + UntilNext(now)

(* Mutant: memmove takes one entry too few.                                *)
AddShort(log, entry) ==
    SubSeq(<<entry>> \o log, 1,
           IF Len(log) + 1 < Entries THEN Len(log) + 1 ELSE Entries - 1)

(* device_log_add                                                          *)
Add(log, entry) ==
    SubSeq(<<entry>> \o log, 1,
           IF Len(log) < Entries THEN Len(log) + 1 ELSE Entries)

(* dht22_measure_device: the events of both readings are raised first, and *)
(* their rules may take their time; the log time is taken after them.      *)
LogTemperature ==
    /\ todo # 0 /\ stamp = -1
    /\ stamp' = Rounded(clock)
    /\ temps' = [temps EXCEPT ![todo] =
                    Add(@, [ts |-> Rounded(clock), value |-> temp[todo]])]
    /\ UNCHANGED <<worker, shared, clock, due, todo, hums>>

LogHumidity ==
    /\ todo # 0 /\ stamp # -1
    /\ hums' = [hums EXCEPT ![todo] =
                    Add(@, [ts |-> stamp, value |-> hum[todo]])]
    /\ stamp' = -1
    /\ todo' = (todo + 1) % (Count + 1)
    /\ UNCHANGED <<worker, shared, clock, due, temps>>

(* A moment is over at most Late ticks after it was due.                   *)
Tick ==
    /\ clock < MaxClock
    /\ clock < Late + (IF todo = 0 THEN due ELSE due - Interval)
    /\ clock' = clock + 1
    /\ UNCHANGED <<worker, shared, loop>>

Next == Worker \/ Moment \/ LogTemperature \/ LogHumidity \/ Tick

Spec == Init /\ [][Next]_vars

(* Every read of the worker ends, for its waits are counted.               *)
FairSpec == Spec /\ WF_vars(Worker)

-----------------------------------------------------------------------------
(* device_logs_get_json for a day: the walk ends at the first entry that   *)
(* is too old.                                                             *)
Day == Entries * Interval

Reply(log) ==
    LET old == SelectInSeq(log, LAMBDA e : e.ts < clock - Day)
    IN  IF old = 0 THEN log ELSE SubSeq(log, 1, old - 1)

MomentsServed ==
    {m \in 1 .. due - 1 : m % Interval = 0 /\ m > clock - Day}

Stamped(log) == {log[i].ts : i \in DOMAIN log}

(* Between two moments the remote gets every moment of the last day, each  *)
(* with both readings: the ring is just long enough, no moment is missed   *)
(* or counted twice, and the early end of the walk cuts off nothing.       *)
(* Needs moments served within half an interval (dht22.c: rounding;        *)
(* device_logs.c).                                                         *)
LastDay ==
    2 * Late < Interval /\ todo = 0 =>
        \A s \in Sensors :
            /\ MomentsServed \subseteq Stamped(Reply(temps[s]))
            /\ MomentsServed \subseteq Stamped(Reply(hums[s]))

(* For lack of a lock an entry may have a temperature that is measured and *)
(* a humidity that is not, or the other way round.  But no log falls back  *)
(* to an unmeasured zero, however many answers are lost, and an entry      *)
(* newer than a measured humidity is measured whole                        *)
(* (dht22_worker_measure_device, dht22_store_measurement_values).          *)
StaysMeasured ==
    \A s \in Sensors :
        \A i, j \in DOMAIN hums[s] :
            i < j /\ todo # s =>
                /\ temps[s][j].value # "zero" => temps[s][i].value # "zero"
                /\ hums[s][j].value # "zero" =>
                      "zero" \notin {temps[s][i].value, hums[s][i].value}

(* One corrupt answer that passes its checksum is never published, and     *)
(* never logged (dht22_worker_measure_device).                             *)
NeverCorrupt ==
    \A s \in Sensors :
        /\ "corrupt" \notin {temp[s], hum[s]}
        /\ \A i \in DOMAIN temps[s] : temps[s][i].value # "corrupt"
        /\ \A i \in DOMAIN hums[s] : hums[s][i].value # "corrupt"

(* Only broken and differing answers can hold the worker for ever: sensors *)
(* that are silent do not keep it from the others (the count of            *)
(* dht22_worker_measure_device_do).                                        *)
WorkerGoesOn ==
    \/ <>[](pc = "dead")
    \/ []<><<Broken \/ Differs>>_vars
    \/ \A s \in Sensors : []<>(pc = "read" /\ at = s)
=============================================================================
