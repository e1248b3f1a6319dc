---------------------------- MODULE Dht22Proofs -----------------------------
(***************************************************************************)
(* Proofs about the DHT22 sensors, for every number of sensors, tries and  *)
(* log entries: types, that a single corrupt answer is never published or  *)
(* logged, that no log falls back to an unmeasured zero although the       *)
(* thread and the loop share the readings without a lock, and that the     *)
(* logs hold the whole of the last day.                                    *)
(***************************************************************************)
EXTENDS Dht22, WellFoundedInduction, TLAPS

(* What device_log_add leaves: the new entry in front, the others moved on *)
(* by one, and no more of them than there is room for.                     *)
LEMMA AddMoves ==
    ASSUME NEW log \in Seq(LogEntries), NEW e \in LogEntries
    PROVE  /\ Add(log, e) \in Seq(LogEntries)
           /\ Len(Add(log, e)) = IF Len(log) < Entries THEN Len(log) + 1 ELSE Entries
           /\ Add(log, e)[1] = e
           /\ \A i \in 2 .. Len(Add(log, e)) : i - 1 \in 1 .. Len(log)
                                               /\ Add(log, e)[i] = log[i - 1]
<1> DEFINE whole == <<e>> \o log
<1> DEFINE n == IF Len(log) < Entries THEN Len(log) + 1 ELSE Entries
<1>1. whole \in Seq(LogEntries) /\ Len(whole) = Len(log) + 1
  OBVIOUS
<1>2. whole[1] = e /\ \A i \in 2 .. Len(whole) : whole[i] = log[i - 1]
  OBVIOUS
<1>3. n \in 1 .. Len(whole)
  BY <1>1, SensorAssumption
<1>4. Add(log, e) = SubSeq(whole, 1, n)
  BY DEF Add
<1> HIDE DEF whole, n
<1>5. /\ SubSeq(whole, 1, n) \in Seq(LogEntries) /\ Len(SubSeq(whole, 1, n)) = n
      /\ \A i \in 1 .. n : SubSeq(whole, 1, n)[i] = whole[i]
  BY <1>1, <1>3
<1>6. Add(log, e)[1] = e
  BY <1>2, <1>3, <1>4, <1>5
<1>7. ASSUME NEW i \in 2 .. n
      PROVE  i - 1 \in 1 .. Len(log) /\ Add(log, e)[i] = log[i - 1]
  BY <1>1, <1>2, <1>3, <1>4, <1>5, <1>7
<1> QED  BY <1>4, <1>5, <1>6, <1>7 DEF n

LEMMA RoundedNat == ASSUME NEW now \in Nat PROVE Rounded(now) \in Nat
  BY SensorAssumption DEF Rounded, UntilNext

(* Silent answers are counted up to the last try, and what is published is *)
(* a true answer: a corrupt one agrees with no other.                      *)
Counted == pc = "sleep" \/ silent < Tries
Found == pc \in {"temperature", "humidity"} => first = "true"

CoreInv == TypeOK /\ Counted /\ Found

LEMMA CoreInit == Init => CoreInv
<1> SUFFICES ASSUME Init PROVE CoreInv
  OBVIOUS
<1>1. clock \in Nat /\ due \in Nat
  BY SensorAssumption DEF Init, UntilNext
<1>2. at \in Sensors /\ silent \in 0 .. Tries /\ todo \in 0 .. Count
  BY SensorAssumption DEF Init, Sensors
<1>3. temps \in [Sensors -> Seq(LogEntries)] /\ hums \in [Sensors -> Seq(LogEntries)]
  BY DEF Init
<1>4. temp \in [Sensors -> Values] /\ hum \in [Sensors -> Values]
  BY DEF Init, Values
<1>5. Counted /\ Found
  BY SensorAssumption DEF Init, Counted, Found
<1> QED  BY <1>1, <1>2, <1>3, <1>4, <1>5 DEF Init, CoreInv, TypeOK

(* A log takes entries and stays a log.                                    *)
LEMMA LogTyped ==
    ASSUME NEW logs \in [Sensors -> Seq(LogEntries)], NEW s \in Sensors,
           NEW ts \in Nat, NEW value \in Values
    PROVE  [logs EXCEPT ![s] = Add(@, [ts |-> ts, value |-> value])]
              \in [Sensors -> Seq(LogEntries)]
<1>1. [ts |-> ts, value |-> value] \in LogEntries
  BY DEF LogEntries
<1>2. Add(logs[s], [ts |-> ts, value |-> value]) \in Seq(LogEntries)
  BY <1>1, AddMoves
<1> QED  BY <1>2

LEMMA CoreNext == CoreInv /\ [Next]_vars => CoreInv'
<1> SUFFICES ASSUME CoreInv, [Next]_vars PROVE CoreInv'
  OBVIOUS
<1> USE DEF CoreInv, TypeOK, Counted, Found, shared, loop, worker
<1>1. CASE StartWorker
  BY <1>1 DEF StartWorker
<1>2. CASE NextSensor
  <2>1. at' \in Sensors /\ silent' \in 0 .. Tries /\ silent' < Tries
    BY <1>2, SensorAssumption DEF NextSensor, Sensors
  <2> QED  BY <1>2, <2>1 DEF NextSensor
<1>3. CASE Retry
  BY <1>3 DEF Retry
<1>4. CASE Silent
  <2>1. silent' \in 0 .. Tries /\ (silent' < Tries \/ pc' = "sleep")
    BY <1>4, SensorAssumption DEF Silent
  <2>2. pc' \in {"silent", "sleep"}
    BY <1>4 DEF Silent
  <2> QED  BY <1>4, <2>1, <2>2 DEF Silent
<1>5. CASE Broken
  BY <1>5 DEF Broken
<1>6. CASE FirstAnswer \/ Agrees \/ Differs
  <2>1. silent' \in 0 .. Tries /\ silent' < Tries
    BY <1>6, SensorAssumption DEF FirstAnswer, Agrees, Differs, Answered
  <2>2. first' \in Values \cup {"none"}
    BY <1>6 DEF FirstAnswer, Agrees, Differs, Answers, Values
  <2>3. pc' = "read" \/ (pc' = "temperature" /\ first' = "true")
    BY <1>6 DEF FirstAnswer, Agrees, Differs, Answers, Answered
  <2> QED  BY <1>6, <2>1, <2>2, <2>3 DEF FirstAnswer, Agrees, Differs, Answered
<1>7. CASE PublishTemperature
  BY <1>7 DEF PublishTemperature, Values
<1>8. CASE PublishHumidity
  BY <1>8 DEF PublishHumidity, Values
<1>9. CASE Moment
  BY <1>9, SensorAssumption DEF Moment, UntilNext
<1>10. CASE LogTemperature
  <2>1. todo \in Sensors /\ Rounded(clock) \in Nat
    BY <1>10, SensorAssumption, RoundedNat DEF LogTemperature, Sensors
  <2>2. temps' \in [Sensors -> Seq(LogEntries)]
    BY <1>10, <2>1, LogTyped DEF LogTemperature
  <2> QED  BY <1>10, <2>1, <2>2 DEF LogTemperature
<1>11. CASE LogHumidity
  <2>1. todo \in Sensors
    BY <1>11, SensorAssumption DEF LogHumidity, Sensors
  <2>2. hums' \in [Sensors -> Seq(LogEntries)]
    <3>1. stamp \in Nat /\ hum[todo] \in Values
      BY <1>11, <2>1 DEF LogHumidity
    <3> QED  BY <1>11, <2>1, <3>1, LogTyped DEF LogHumidity
  <2>3. todo' \in 0 .. Count
    BY <1>11, SensorAssumption DEF LogHumidity
  <2> QED  BY <1>11, <2>2, <2>3 DEF LogHumidity
<1>12. CASE Tick
  BY <1>12 DEF Tick
<1>13. CASE UNCHANGED vars
  BY <1>13 DEF vars
<1> QED
  BY <1>1, <1>2, <1>3, <1>4, <1>5, <1>6, <1>7, <1>8, <1>9, <1>10, <1>11, <1>12, <1>13
     DEF Next, Worker

(* The types of the worker's, the loop's and the shared state.             *)
THEOREM SensorTypes == Spec => []TypeOK
<1>1. CoreInv => TypeOK
  BY DEF CoreInv
<1> QED  BY <1>1, CoreInit, CoreNext, PTL DEF Spec

-----------------------------------------------------------------------------
LEMMA AddClean ==
    ASSUME NEW log \in Seq(LogEntries), NEW e \in LogEntries, e.value # "corrupt",
           \A i \in DOMAIN log : log[i].value # "corrupt"
    PROVE  \A i \in DOMAIN Add(log, e) : Add(log, e)[i].value # "corrupt"
<1> SUFFICES ASSUME NEW i \in DOMAIN Add(log, e)
             PROVE  Add(log, e)[i].value # "corrupt"
  OBVIOUS
<1>a. /\ Add(log, e) \in Seq(LogEntries)
      /\ Add(log, e)[1] = e
      /\ \A j \in 2 .. Len(Add(log, e)) :
            j - 1 \in 1 .. Len(log) /\ Add(log, e)[j] = log[j - 1]
  BY AddMoves
<1>1. i \in 1 .. Len(Add(log, e))
  BY <1>a
<1>2. CASE i = 1
  BY <1>2, <1>a
<1>3. CASE i # 1
  <2>1. i \in 2 .. Len(Add(log, e))
    BY <1>1, <1>3
  <2>2. i - 1 \in DOMAIN log /\ Add(log, e)[i] = log[i - 1]
    BY <2>1, <1>a
  <2> QED  BY <2>2
<1> QED  BY <1>2, <1>3

CleanInv == CoreInv /\ NeverCorrupt

LEMMA CleanNext == CleanInv /\ [Next]_vars => CleanInv'
<1> SUFFICES ASSUME CleanInv, [Next]_vars PROVE NeverCorrupt'
  BY CoreNext DEF CleanInv
<1> USE DEF CleanInv
<1>1. CASE UNCHANGED <<shared, temps, hums>>
  BY <1>1 DEF NeverCorrupt, shared
<1>2. CASE PublishTemperature \/ PublishHumidity
  <2>1. /\ temp' \in {temp, [temp EXCEPT ![at] = "true"]}
        /\ hum' \in {hum, [hum EXCEPT ![at] = "true"]}
        /\ UNCHANGED <<temps, hums>>
    BY <1>2 DEF PublishTemperature, PublishHumidity, CoreInv, Found, loop
  <2> QED  BY <2>1 DEF NeverCorrupt, CoreInv, TypeOK
<1>3. CASE LogTemperature
  <2>1. todo \in Sensors
    BY <1>3, SensorAssumption DEF LogTemperature, Sensors, CoreInv, TypeOK
  <2> DEFINE e == [ts |-> Rounded(clock), value |-> temp[todo]]
  <2>2. e \in LogEntries /\ e.value # "corrupt"
    BY <2>1, RoundedNat DEF CoreInv, TypeOK, LogEntries, NeverCorrupt
  <2>3. temps[todo] \in Seq(LogEntries)
    BY <2>1 DEF CoreInv, TypeOK
  <2>4. \A i \in DOMAIN Add(temps[todo], e) : Add(temps[todo], e)[i].value # "corrupt"
    <3>1. \A i \in DOMAIN temps[todo] : temps[todo][i].value # "corrupt"
      BY <2>1 DEF NeverCorrupt
    <3> HIDE DEF e
    <3> QED  BY <2>2, <2>3, <3>1, AddClean
  <2>5. temps' = [temps EXCEPT ![todo] = Add(@, e)] /\ UNCHANGED <<shared, hums>>
    BY <1>3 DEF LogTemperature
  <2> HIDE DEF e
  <2> QED  BY <2>1, <2>4, <2>5 DEF NeverCorrupt, shared, CoreInv, TypeOK
<1>4. CASE LogHumidity
  <2>1. todo \in Sensors
    BY <1>4, SensorAssumption DEF LogHumidity, Sensors, CoreInv, TypeOK
  <2> DEFINE e == [ts |-> stamp, value |-> hum[todo]]
  <2>2. e \in LogEntries /\ e.value # "corrupt"
    BY <1>4, <2>1 DEF LogHumidity, CoreInv, TypeOK, LogEntries, NeverCorrupt
  <2>3. hums[todo] \in Seq(LogEntries)
    BY <2>1 DEF CoreInv, TypeOK
  <2>4. \A i \in DOMAIN Add(hums[todo], e) : Add(hums[todo], e)[i].value # "corrupt"
    <3>1. \A i \in DOMAIN hums[todo] : hums[todo][i].value # "corrupt"
      BY <2>1 DEF NeverCorrupt
    <3> HIDE DEF e
    <3> QED  BY <2>2, <2>3, <3>1, AddClean
  <2>5. hums' = [hums EXCEPT ![todo] = Add(@, e)] /\ UNCHANGED <<shared, temps>>
    BY <1>4 DEF LogHumidity
  <2> HIDE DEF e
  <2> QED  BY <2>1, <2>4, <2>5 DEF NeverCorrupt, shared, CoreInv, TypeOK
<1> QED
  BY <1>1, <1>2, <1>3, <1>4
     DEF Next, Worker, StartWorker, NextSensor, Retry, Silent, Broken, FirstAnswer,
         Agrees, Differs, Answered, Moment, Tick, loop, vars

(* One corrupt answer that passes its checksum reaches neither the shared  *)
(* readings nor a log.                                                     *)
THEOREM CorruptKeptOut == Spec => []NeverCorrupt
<1>1. Init => CleanInv
  BY CoreInit DEF CleanInv, NeverCorrupt, Init
<1>2. CleanInv => NeverCorrupt
  BY DEF CleanInv
<1> QED  BY <1>1, <1>2, CleanNext, PTL DEF Spec

-----------------------------------------------------------------------------
(* What is logged has been published, and stays so; a humidity is          *)
(* published after a temperature; and the two logs of a sensor move on     *)
(* together, but for the moment between LogTemperature and LogHumidity,    *)
(* when the temperatures are one step ahead.  An idle loop has no stamp.   *)
Ahead(s) == todo = s /\ stamp # -1

Zero(log, i) == log[i].value = "zero"

PublishedInOrder(s) == hum[s] # "zero" => temp[s] # "zero"

LoggedIsPublished(s) ==
    /\ \A i \in DOMAIN temps[s] : ~Zero(temps[s], i) => temp[s] # "zero"
    /\ \A i \in DOMAIN hums[s] : ~Zero(hums[s], i) => hum[s] # "zero"

InPairs(s) ==
    Len(temps[s]) = IF ~Ahead(s) THEN Len(hums[s])
                    ELSE IF Len(hums[s]) < Entries THEN Len(hums[s]) + 1
                    ELSE Entries

NoFallback(log) ==
    \A i, j \in DOMAIN log : i < j /\ ~Zero(log, j) => ~Zero(log, i)

HumidityLast(s) ==
    \A i \in DOMAIN temps[s], j \in DOMAIN hums[s] :
        (i < j \/ (i = j /\ Ahead(s))) /\ ~Zero(hums[s], j) => ~Zero(temps[s], i)

SensorInv(s) ==
    /\ PublishedInOrder(s) /\ LoggedIsPublished(s) /\ InPairs(s)
    /\ NoFallback(temps[s]) /\ NoFallback(hums[s]) /\ HumidityLast(s)

OrderInv ==
    /\ CoreInv
    /\ pc = "humidity" => temp[at] = "true"
    /\ todo = 0 => stamp = -1
    /\ \A s \in Sensors : SensorInv(s)

LEMMA OrderInit == Init => OrderInv
  BY CoreInit DEF Init, OrderInv, SensorInv, PublishedInOrder, LoggedIsPublished,
                  InPairs, NoFallback, HumidityLast, Ahead, Zero, Sensors

LEMMA AddNoFallback ==
    ASSUME NEW log \in Seq(LogEntries), NEW e \in LogEntries, NoFallback(log),
           \A i \in DOMAIN log : ~Zero(log, i) => e.value # "zero"
    PROVE  NoFallback(Add(log, e))
<1> DEFINE new == Add(log, e)
<1>a. /\ new \in Seq(LogEntries)
      /\ new[1] = e
      /\ \A j \in 2 .. Len(new) : j - 1 \in 1 .. Len(log) /\ new[j] = log[j - 1]
  BY AddMoves
<1> HIDE DEF new
<1> SUFFICES ASSUME NEW i \in 1 .. Len(new), NEW j \in 1 .. Len(new),
                    i < j, ~Zero(new, j)
             PROVE  ~Zero(new, i)
  BY <1>a DEF NoFallback, new
<1>1. j \in 2 .. Len(new) /\ j - 1 \in DOMAIN log /\ ~Zero(log, j - 1)
  BY <1>a DEF Zero
<1>2. CASE i = 1
  BY <1>1, <1>2, <1>a DEF Zero
<1>3. CASE i # 1
  <2>1. i \in 2 .. Len(new)
    BY <1>3
  <2>2. i - 1 \in DOMAIN log /\ new[i] = log[i - 1] /\ i - 1 < j - 1
    BY <2>1, <1>a
  <2>3. ~Zero(log, i - 1)
    BY <1>1, <2>2 DEF NoFallback
  <2> QED  BY <2>2, <2>3 DEF Zero
<1> QED  BY <1>2, <1>3

LEMMA TemperatureOrder ==
    ASSUME OrderInv, LogTemperature, CoreInv'
    PROVE  SensorInv(todo)'
<1>1. todo \in Sensors /\ todo' = todo /\ ~Ahead(todo)
  BY SensorAssumption DEF LogTemperature, Sensors, OrderInv, CoreInv, TypeOK, Ahead
<1>2. stamp' # -1
  BY RoundedNat DEF LogTemperature, OrderInv, CoreInv, TypeOK
<1> DEFINE log == temps[todo]
           e == [ts |-> Rounded(clock), value |-> temp[todo]]
           new == Add(log, e)
           h == hums[todo]
<1>3. log \in Seq(LogEntries) /\ e \in LogEntries /\ h \in Seq(LogEntries)
  BY <1>1, RoundedNat DEF OrderInv, CoreInv, TypeOK, LogEntries
<1>4. /\ new \in Seq(LogEntries)
      /\ Len(new) = IF Len(log) < Entries THEN Len(log) + 1 ELSE Entries
      /\ new[1] = e
      /\ \A i \in 2 .. Len(new) : i - 1 \in 1 .. Len(log) /\ new[i] = log[i - 1]
  <2> HIDE DEF log, e, h
  <2> QED  BY <1>3, AddMoves DEF new
<1>5. temps'[todo] = new /\ hums' = hums /\ temp' = temp /\ hum' = hum
  BY <1>1 DEF LogTemperature, OrderInv, CoreInv, TypeOK, shared
<1>6. /\ PublishedInOrder(todo) /\ LoggedIsPublished(todo) /\ InPairs(todo)
      /\ NoFallback(log) /\ NoFallback(h) /\ HumidityLast(todo)
  BY <1>1 DEF OrderInv, SensorInv
<1>7. e.value = temp[todo]
  OBVIOUS
<1> HIDE DEF e, new
<1>8. NoFallback(new)
  <2>1. \A i \in DOMAIN log : ~Zero(log, i) => e.value # "zero"
    BY <1>6, <1>7 DEF LoggedIsPublished
  <2> QED  BY <2>1, <1>3, <1>6, AddNoFallback DEF new
<1>9. ASSUME NEW i \in DOMAIN new, ~Zero(new, i) PROVE temp[todo] # "zero"
  <2>1. CASE i = 1
    BY <2>1, <1>9, <1>4, <1>7 DEF Zero
  <2>2. CASE i # 1
    <3>1. i - 1 \in DOMAIN log /\ ~Zero(log, i - 1)
      BY <2>2, <1>4, <1>9, <1>3 DEF Zero
    <3> QED  BY <3>1, <1>6 DEF LoggedIsPublished
  <2> QED  BY <2>1, <2>2
<1>10. ASSUME NEW i \in DOMAIN new, NEW j \in DOMAIN h, i <= j, ~Zero(h, j)
       PROVE  ~Zero(new, i)
  <2>1. CASE i = 1
    <3>1. hum[todo] # "zero"
      BY <1>6, <1>10 DEF LoggedIsPublished
    <3> QED  BY <2>1, <3>1, <1>4, <1>6, <1>7 DEF PublishedInOrder, Zero
  <2>2. CASE i # 1
    <3>1. i - 1 \in DOMAIN log /\ new[i] = log[i - 1] /\ i - 1 < j
      BY <2>2, <1>3, <1>4, <1>10
    <3>2. ~Zero(log, i - 1)
      BY <3>1, <1>6, <1>10 DEF HumidityLast
    <3> QED  BY <3>1, <3>2 DEF Zero
  <2> QED  BY <2>1, <2>2
<1>11. Len(new) = IF Len(h) < Entries THEN Len(h) + 1 ELSE Entries
  BY <1>1, <1>4, <1>6 DEF InPairs
<1> HIDE DEF log, h
<1>12. PublishedInOrder(todo)'
  BY <1>1, <1>5, <1>6 DEF PublishedInOrder
<1>13. LoggedIsPublished(todo)'
  BY <1>1, <1>5, <1>6, <1>9 DEF LoggedIsPublished, Zero
<1>14. InPairs(todo)'
  BY <1>1, <1>2, <1>5, <1>11 DEF InPairs, Ahead, h
<1>15. NoFallback(temps[todo])' /\ NoFallback(hums[todo])'
  BY <1>1, <1>5, <1>6, <1>8 DEF NoFallback, Zero, h
<1>16. HumidityLast(todo)'
  <2>1. SUFFICES ASSUME NEW i \in DOMAIN new, NEW j \in DOMAIN h,
                        i < j \/ i = j, ~Zero(h, j)
                 PROVE  ~Zero(new, i)
    BY <1>1, <1>5 DEF HumidityLast, Ahead, Zero, h
  <2>2. i <= j
    BY <2>1, <1>3, <1>4 
  <2> QED  BY <2>1, <2>2, <1>10
<1> QED  BY <1>12, <1>13, <1>14, <1>15, <1>16 DEF SensorInv

LEMMA HumidityOrder ==
    ASSUME OrderInv, LogHumidity, CoreInv', NEW s \in Sensors, todo = s
    PROVE  SensorInv(s)'
<1>1. Ahead(s) /\ ~Ahead(s)'
  BY DEF LogHumidity, Ahead
<1> DEFINE log == hums[s]
           e == [ts |-> stamp, value |-> hum[s]]
           new == Add(log, e)
           t == temps[s]
<1>2. stamp \in Nat
  BY DEF LogHumidity, OrderInv, CoreInv, TypeOK
<1>3. log \in Seq(LogEntries) /\ e \in LogEntries /\ t \in Seq(LogEntries)
  BY <1>2 DEF OrderInv, CoreInv, TypeOK, LogEntries
<1>4. /\ new \in Seq(LogEntries)
      /\ Len(new) = IF Len(log) < Entries THEN Len(log) + 1 ELSE Entries
      /\ new[1] = e
      /\ \A i \in 2 .. Len(new) : i - 1 \in 1 .. Len(log) /\ new[i] = log[i - 1]
  <2> HIDE DEF log, e, t
  <2>1. log \in Seq(LogEntries) /\ e \in LogEntries
    BY <1>3
  <2> QED  BY <2>1, AddMoves DEF new
<1>5. hums'[s] = new /\ temps' = temps /\ temp' = temp /\ hum' = hum
  BY DEF LogHumidity, OrderInv, CoreInv, TypeOK, shared
<1>6. /\ PublishedInOrder(s) /\ LoggedIsPublished(s) /\ InPairs(s)
      /\ NoFallback(t) /\ NoFallback(log) /\ HumidityLast(s)
  BY DEF OrderInv, SensorInv
<1>7. e.value = hum[s]
  OBVIOUS
<1> HIDE DEF e, new
<1>8. NoFallback(new)
  <2>1. \A i \in DOMAIN log : ~Zero(log, i) => e.value # "zero"
    BY <1>6, <1>7 DEF LoggedIsPublished
  <2> QED  BY <2>1, <1>3, <1>6, AddNoFallback DEF new
<1>9. ASSUME NEW i \in DOMAIN new, ~Zero(new, i) PROVE hum[s] # "zero"
  <2>1. CASE i = 1
    BY <2>1, <1>9, <1>4, <1>7 DEF Zero
  <2>2. CASE i # 1
    <3>1. i - 1 \in DOMAIN log /\ ~Zero(log, i - 1)
      BY <2>2, <1>4, <1>9, <1>3 DEF Zero
    <3> QED  BY <3>1, <1>6 DEF LoggedIsPublished
  <2> QED  BY <2>1, <2>2
<1>10. ASSUME NEW i \in DOMAIN t, NEW j \in DOMAIN new, i < j, ~Zero(new, j)
       PROVE  ~Zero(t, i)
  <2>1. j - 1 \in DOMAIN log /\ new[j] = log[j - 1] /\ (i < j - 1 \/ i = j - 1)
    BY <1>3, <1>4, <1>10
  <2>2. ~Zero(log, j - 1)
    BY <2>1, <1>10 DEF Zero
  <2> QED  BY <2>1, <2>2, <1>1, <1>6 DEF HumidityLast
<1>11. Len(t) = Len(new)
  BY <1>1, <1>4, <1>6 DEF InPairs
<1> HIDE DEF log, t
<1>12. PublishedInOrder(s)'
  BY <1>5, <1>6 DEF PublishedInOrder
<1>13. LoggedIsPublished(s)'
  BY <1>5, <1>6, <1>9 DEF LoggedIsPublished, Zero
<1>14. InPairs(s)'
  BY <1>1, <1>5, <1>11 DEF InPairs, t
<1>15. NoFallback(temps[s])' /\ NoFallback(hums[s])'
  BY <1>5, <1>6, <1>8 DEF NoFallback, Zero, t
<1>16. HumidityLast(s)'
  BY <1>1, <1>5, <1>10 DEF HumidityLast, Zero, t
<1> QED  BY <1>12, <1>13, <1>14, <1>15, <1>16 DEF SensorInv

(* A sensor none of whose readings and logs a step writes, and whose logs  *)
(* it leaves in pairs.                                                     *)
LEMMA Untouched ==
    ASSUME NEW s \in Sensors, SensorInv(s), Ahead(s)' = Ahead(s),
           temps'[s] = temps[s], hums'[s] = hums[s],
           temp'[s] = temp[s], hum'[s] = hum[s]
    PROVE  SensorInv(s)'
  BY DEF SensorInv, PublishedInOrder, LoggedIsPublished, InPairs, NoFallback,
         HumidityLast, Zero

LEMMA Published ==
    ASSUME NEW s \in Sensors, SensorInv(s), UNCHANGED loop,
           temp'[s] \in {temp[s], "true"}, hum'[s] \in {hum[s], "true"},
           hum'[s] # "zero" => temp'[s] # "zero"
    PROVE  SensorInv(s)'
  BY DEF SensorInv, PublishedInOrder, LoggedIsPublished, InPairs, NoFallback,
         HumidityLast, Zero, Ahead, loop

LEMMA OrderNext == OrderInv /\ [Next]_vars => OrderInv'
<1> SUFFICES ASSUME OrderInv, [Next]_vars PROVE OrderInv'
  OBVIOUS
<1>a. CoreInv /\ CoreInv' /\ \A s \in Sensors : SensorInv(s)
  BY CoreNext DEF OrderInv
<1>b. (todo = 0 => stamp = -1)'
  BY DEF OrderInv, Next, Worker, StartWorker, NextSensor, Retry, Silent, Broken,
         FirstAnswer, Agrees, Differs, Answered, PublishTemperature,
         PublishHumidity, Moment, LogTemperature, LogHumidity, Tick, loop, vars
<1> SUFFICES (pc = "humidity" => temp[at] = "true")' /\ \A s \in Sensors : SensorInv(s)'
  BY <1>a, <1>b DEF OrderInv
<1>1. CASE UNCHANGED <<shared, temps, hums>> /\ (Moment \/ Tick \/ UNCHANGED vars
             \/ StartWorker \/ NextSensor \/ Retry \/ Silent \/ Broken
             \/ FirstAnswer \/ Agrees \/ Differs)
  <2>1. \A s \in Sensors : Ahead(s)' = Ahead(s)
    <3>1. \/ UNCHANGED <<todo, stamp>>
          \/ todo = 0 /\ todo' = 1 /\ stamp = -1 /\ stamp' = -1
      BY <1>1 DEF OrderInv, Moment, Tick, vars, StartWorker, NextSensor, Retry, Silent, Broken,
                  FirstAnswer, Agrees, Differs, Answered, loop
    <3> QED  BY <3>1 DEF Ahead, Sensors
  <2>2. \A s \in Sensors : SensorInv(s)'
    BY <1>1, <1>a, <2>1, Untouched DEF shared
  <2>3. pc' = "humidity" => pc = "humidity" /\ UNCHANGED <<at, temp>>
    BY <1>1 DEF Moment, Tick, vars, worker, StartWorker, NextSensor, Retry, Silent,
                Broken, FirstAnswer, Agrees, Differs, Answered, shared
  <2> QED  BY <2>2, <2>3 DEF OrderInv
<1>2. CASE PublishTemperature
  <2>1. at \in Sensors /\ first = "true"
    BY <1>2, <1>a DEF PublishTemperature, CoreInv, TypeOK, Found
  <2>2. temp' = [temp EXCEPT ![at] = "true"] /\ UNCHANGED <<at, hum, loop>>
    BY <1>2, <2>1 DEF PublishTemperature
  <2>3. ASSUME NEW s \in Sensors PROVE SensorInv(s)'
    <3>1. temp'[s] \in {temp[s], "true"} /\ temp \in [Sensors -> Values]
      BY <1>a, <2>1, <2>2 DEF CoreInv, TypeOK
    <3>2. hum'[s] # "zero" => temp'[s] # "zero"
      BY <1>a, <2>2, <3>1 DEF SensorInv, PublishedInOrder
    <3> QED  BY <1>a, <2>2, <3>1, <3>2, Published
  <2>4. temp'[at'] = "true"
    BY <1>a, <2>1, <2>2 DEF CoreInv, TypeOK
  <2> QED  BY <2>3, <2>4
<1>3. CASE PublishHumidity
  <2>1. at \in Sensors /\ first = "true" /\ temp[at] = "true"
    BY <1>3, <1>a DEF PublishHumidity, OrderInv, CoreInv, TypeOK, Found
  <2>2. hum' = [hum EXCEPT ![at] = "true"] /\ UNCHANGED <<temp, loop>> /\ pc' = "sleep"
    BY <1>3, <2>1 DEF PublishHumidity
  <2>3. ASSUME NEW s \in Sensors PROVE SensorInv(s)'
    <3>1. hum'[s] \in {hum[s], "true"} /\ (s # at => hum'[s] = hum[s])
      BY <1>a, <2>1, <2>2 DEF CoreInv, TypeOK
    <3>2. hum'[s] # "zero" => temp'[s] # "zero"
      BY <1>a, <2>1, <2>2, <3>1 DEF SensorInv, PublishedInOrder
    <3> QED  BY <1>a, <2>2, <3>1, <3>2, Published
  <2> QED  BY <2>2, <2>3
<1>4. CASE LogTemperature
  <2>1. UNCHANGED <<worker, shared, todo, hums>> /\ stamp = -1
        /\ \A s \in Sensors \ {todo} : temps'[s] = temps[s]
    BY <1>4, <1>a DEF LogTemperature, CoreInv, TypeOK
  <2>2. ASSUME NEW s \in Sensors \ {todo} PROVE SensorInv(s)'
    BY <1>a, <2>1, <2>2, Untouched DEF Ahead, shared
  <2>3. SensorInv(todo)'
    BY <1>4, <1>a, TemperatureOrder
  <2>4. \A s \in Sensors : SensorInv(s)'
    BY <2>1, <2>2, <2>3
  <2> QED  BY <2>1, <2>4 DEF OrderInv, worker, shared
<1>5. CASE LogHumidity
  <2>1. UNCHANGED <<worker, shared, temps>> /\ stamp' = -1
        /\ \A s \in Sensors \ {todo} : hums'[s] = hums[s]
    BY <1>5, <1>a DEF LogHumidity, CoreInv, TypeOK
  <2>2. ASSUME NEW s \in Sensors PROVE SensorInv(s)'
    <3>1. CASE s = todo
      BY <1>5, <1>a, <3>1, HumidityOrder
    <3>2. CASE s # todo
      BY <1>a, <2>1, <3>2, Untouched DEF Ahead, shared
    <3> QED  BY <3>1, <3>2
  <2> QED  BY <2>1, <2>2 DEF OrderInv, worker, shared
<1> QED
  BY <1>1, <1>2, <1>3, <1>4, <1>5
     DEF Next, Worker, StartWorker, NextSensor, Retry, Silent, Broken, FirstAnswer,
         Agrees, Differs, Answered, Moment, Tick, loop, vars

(* No log falls back to an unmeasured zero, and an entry newer than a      *)
(* measured humidity is measured whole, for every interleaving of the      *)
(* thread's writes with the loop's reads.                                  *)
THEOREM MeasuredForGood == Spec => []StaysMeasured
<1>1. OrderInv => StaysMeasured
  <2> SUFFICES ASSUME OrderInv, NEW s \in Sensors, NEW i \in DOMAIN hums[s],
                      NEW j \in DOMAIN hums[s], i < j, todo # s
               PROVE  /\ temps[s][j].value # "zero" => temps[s][i].value # "zero"
                      /\ hums[s][j].value # "zero" =>
                            "zero" \notin {temps[s][i].value, hums[s][i].value}
    BY DEF StaysMeasured
  <2>1. SensorInv(s) /\ ~Ahead(s)
    BY DEF OrderInv, Ahead
  <2>2. DOMAIN temps[s] = DOMAIN hums[s]
    <3>1. temps[s] \in Seq(LogEntries) /\ hums[s] \in Seq(LogEntries)
      BY DEF OrderInv, CoreInv, TypeOK
    <3> QED  BY <2>1, <3>1 DEF SensorInv, InPairs
  <2> QED  BY <2>1, <2>2 DEF SensorInv, NoFallback, HumidityLast, Zero
<1> QED  BY <1>1, OrderInit, OrderNext, PTL DEF Spec

-----------------------------------------------------------------------------
(* The dates of the logs.  A log dated d has one entry for each moment     *)
(* before d, the newest first, up to the room it has.  The logs a moment   *)
(* has not reached yet are dated one interval before the others.           *)
Dated(log, d) ==
    /\ \A i \in DOMAIN log : log[i].ts = d - Interval * i
    /\ Len(log) = Entries \/ d = Interval * (Len(log) + 1)

Date(written) == IF written THEN due ELSE due - Interval

InTime ==
    /\ due % Interval = 0 /\ Interval <= due
    /\ due - Interval <= clock
    /\ clock <= Late + (IF todo = 0 THEN due ELSE due - Interval)

Dates ==
    /\ InTime
    /\ stamp # -1 => stamp = due - Interval
    /\ \A s \in Sensors :
          /\ Dated(temps[s], Date(todo = 0 \/ s < todo \/ Ahead(s)))
          /\ Dated(hums[s], Date(todo = 0 \/ s < todo))

DateInv == CoreInv /\ (todo = 0 => stamp = -1) /\ (2 * Late < Interval => Dates)

(* A multiple of the interval, and what is left of the times after it.     *)
LEMMA Quotient ==
    ASSUME NEW d \in Nat, d % Interval = 0
    PROVE  \E q \in Nat : d = Interval * q
  BY SensorAssumption

LEMMA Remainder ==
    ASSUME NEW q \in Nat, NEW r \in 0 .. Interval - 1
    PROVE  (Interval * q + r) % Interval = r
  BY SensorAssumption

LEMMA Distance ==
    ASSUME NEW p \in Int, NEW q \in Int, p < q
    PROVE  Interval * p + Interval <= Interval * q
  BY SensorAssumption

LEMMA NextMultiple ==
    ASSUME NEW d \in Nat, d % Interval = 0
    PROVE  /\ \A r \in 0 .. Interval - 1 : (d + r) % Interval = r
           /\ (d + Interval) % Interval = 0
<1>1. PICK q \in Nat : d = Interval * q
  BY Quotient
<1>2. \A r \in 0 .. Interval - 1 : (d + r) % Interval = r
  BY <1>1, Remainder
<1>3. d + Interval = Interval * (q + 1) + 0
  BY <1>1, SensorAssumption
<1>4. 0 \in 0 .. Interval - 1 /\ q + 1 \in Nat
  BY <1>1, SensorAssumption
<1> QED  BY <1>2, <1>3, <1>4, Remainder

(* An entry dated d makes a log that is dated one interval later.          *)
LEMMA AddDated ==
    ASSUME NEW log \in Seq(LogEntries), NEW d \in Nat, NEW e \in LogEntries,
           e.ts = d, Dated(log, d)
    PROVE  Dated(Add(log, e), d + Interval)
<1> DEFINE new == Add(log, e)
<1>a. /\ new \in Seq(LogEntries)
      /\ Len(new) = IF Len(log) < Entries THEN Len(log) + 1 ELSE Entries
      /\ new[1] = e
      /\ \A i \in 2 .. Len(new) : i - 1 \in 1 .. Len(log) /\ new[i] = log[i - 1]
  BY AddMoves
<1> HIDE DEF new
<1>1. \A i \in Nat : Interval * (i + 1) = Interval * i + Interval
  BY SensorAssumption
<1>2. Interval \in Nat /\ Interval * 1 = Interval /\ Entries \in Nat
  BY SensorAssumption
<1>3. ASSUME NEW i \in DOMAIN new
      PROVE  new[i].ts = (d + Interval) - Interval * i
  <2>1. CASE i = 1
    BY <1>a, <1>2, <2>1
  <2>2. CASE i # 1
    <3>1. i - 1 \in DOMAIN log /\ new[i] = log[i - 1] /\ i - 1 \in Nat
      BY <1>a, <2>2
    <3>2. new[i].ts = d - Interval * (i - 1)
      BY <3>1 DEF Dated
    <3>3. Interval * i = Interval * (i - 1) + Interval
      <4>1. i \in Int /\ (i - 1) + 1 = i
        BY <1>a
      <4> QED  BY <1>1, <3>1, <4>1
    <3>4. Interval * (i - 1) \in Int
      BY <1>2, <3>1
    <3> HIDE DEF new
    <3> QED  BY <1>2, <3>2, <3>3, <3>4
  <2> QED  BY <2>1, <2>2
<1>4. Len(new) = Entries \/ d + Interval = Interval * (Len(new) + 1)
  <2>1. CASE Len(log) < Entries
    <3>1. d = Interval * (Len(log) + 1) /\ Len(new) = Len(log) + 1
      BY <1>a, <2>1 DEF Dated
    <3>2. Interval * (Len(log) + 1 + 1) = Interval * (Len(log) + 1) + Interval
      BY <1>1
    <3> QED  BY <3>1, <3>2
  <2>2. CASE ~(Len(log) < Entries)
    BY <1>a, <2>2
  <2> QED  BY <2>1, <2>2
<1>5. Dated(new, d + Interval)
  BY <1>3, <1>4 DEF Dated
<1> QED  BY <1>5 DEF new

LEMMA DateInit == Init => DateInv
<1> SUFFICES ASSUME Init PROVE DateInv
  OBVIOUS
<1>1. CoreInv /\ todo = 0 /\ stamp = -1
  BY CoreInit DEF Init
<1>2. clock \in 0 .. Interval - 1 /\ clock % Interval = clock
  <2>1. clock \in 0 .. Interval - 1 /\ 0 \in Nat
    BY DEF Init
  <2>2. Interval * 0 + clock = clock
    BY <2>1, SensorAssumption
  <2> QED  BY <2>1, <2>2, Remainder
<1>3. due = Interval
  BY <1>2, SensorAssumption DEF Init, UntilNext
<1>4. InTime
  <2>1. due % Interval = 0
    <3>1. 0 \in Nat /\ 0 \in 0 .. Interval - 1 /\ 1 \in Nat /\ Interval * 1 + 0 = Interval
      BY SensorAssumption
    <3> QED  BY <1>3, <3>1, Remainder
  <2> QED  BY <1>1, <1>2, <1>3, <2>1, SensorAssumption DEF InTime
<1>5. Dated(<<>>, due)
  BY <1>3, SensorAssumption DEF Dated
<1>6. \A s \in Sensors : Dated(temps[s], due) /\ Dated(hums[s], due)
  BY <1>5 DEF Init
<1>7. Dates
  BY <1>1, <1>4, <1>6 DEF Dates, Date
<1> QED  BY <1>1, <1>7 DEF DateInv

(* The date of a moment that is served late is still the moment's.         *)
LEMMA RoundedBack ==
    ASSUME CoreInv, Dates, todo # 0, 2 * Late < Interval
    PROVE  Rounded(clock) = due - Interval
<1> DEFINE d == due - Interval
           r == clock - d
<1>1. due \in Nat /\ clock \in Nat /\ Interval \in Nat \ {0} /\ Late \in Nat
  BY SensorAssumption DEF CoreInv, TypeOK
<1>2. d \in Nat /\ r \in 0 .. Interval - 1 /\ 2 * r < Interval /\ clock = d + r
  BY <1>1 DEF Dates, InTime
<1>3. clock % Interval = r
  <2>1. PICK q \in Nat : due = Interval * q
    BY <1>1, Quotient DEF Dates, InTime
  <2>2. d = Interval * (q - 1)
    BY <1>1, <2>1
  <2>3. q - 1 \in Nat
    <3>1. CASE q = 0
      BY <1>1, <2>1, <3>1 DEF Dates, InTime
    <3>2. CASE q # 0
      BY <2>1, <3>2
    <3> QED  BY <3>1, <3>2
  <2> HIDE DEF d, r
  <2> QED  BY <1>2, <2>2, <2>3, Remainder
<1> QED  BY <1>1, <1>2, <1>3 DEF Rounded

LEMMA NextToDo ==
    ASSUME CoreInv, todo # 0
    PROVE  (todo + 1) % (Count + 1) = IF todo = Count THEN 0 ELSE todo + 1
<1>1. todo \in 1 .. Count /\ Count \in Nat \ {0}
  BY SensorAssumption DEF CoreInv, TypeOK
<1> QED  BY <1>1

LEMMA DateNext == DateInv /\ [Next]_vars => DateInv'
<1> SUFFICES ASSUME DateInv, [Next]_vars PROVE DateInv'
  OBVIOUS
<1>a. CoreInv /\ CoreInv' /\ (todo = 0 => stamp = -1)
  BY CoreNext DEF DateInv
<1>b. /\ due \in Nat /\ clock \in Nat /\ due' \in Nat /\ clock' \in Nat /\ todo \in 0 .. Count
      /\ stamp \in Nat \cup {-1}
      /\ temps \in [Sensors -> Seq(LogEntries)] /\ hums \in [Sensors -> Seq(LogEntries)]
      /\ Interval \in Nat \ {0} /\ Late \in Nat /\ Count \in Nat \ {0}
  BY <1>a, SensorAssumption DEF CoreInv, TypeOK
<1>c. (todo = 0 => stamp = -1)'
  BY <1>a DEF Next, Worker, StartWorker, NextSensor, Retry, Silent, Broken,
         FirstAnswer, Agrees, Differs, Answered, PublishTemperature,
         PublishHumidity, Moment, LogTemperature, LogHumidity, Tick, loop, vars
<1> SUFFICES ASSUME 2 * Late < Interval, Dates PROVE Dates'
  BY <1>a, <1>c DEF DateInv
<1>d. /\ InTime
      /\ stamp # -1 => stamp = due - Interval
      /\ \A s \in Sensors :
            /\ Dated(temps[s], Date(todo = 0 \/ s < todo \/ Ahead(s)))
            /\ Dated(hums[s], Date(todo = 0 \/ s < todo))
  BY DEF Dates
<1>1. CASE UNCHANGED <<clock, loop>>
  BY <1>1, <1>d DEF Dates, InTime, Date, Ahead, loop
<1>2. CASE Tick
  <2>1. UNCHANGED loop /\ InTime'
    BY <1>2, <1>b, <1>d DEF Tick, InTime, loop
  <2> QED  BY <1>d, <2>1 DEF Dates, Date, Ahead, loop
<1>3. CASE Moment
  <2>1. todo = 0 /\ todo' = 1 /\ stamp = -1 /\ UNCHANGED <<clock, stamp, temps, hums>>
    BY <1>3, <1>a DEF Moment
  <2>2. due <= clock /\ clock - due \in 0 .. Interval - 1
    BY <1>3, <1>b, <1>d, <2>1 DEF Moment, InTime
  <2>3. clock % Interval = clock - due
    <3>1. clock = due + (clock - due)
      BY <1>b
    <3>2. (due + (clock - due)) % Interval = clock - due
      BY <1>b, <1>d, <2>2, NextMultiple DEF InTime
    <3> QED  BY <3>1, <3>2
  <2>4. due' = due + Interval
    <3>1. due' = clock + UntilNext(clock)
      BY <1>3 DEF Moment
    <3>2. UntilNext(clock) = Interval - (clock - due)
      BY <2>3 DEF UntilNext
    <3> QED  BY <1>b, <3>1, <3>2
  <2>5. due' % Interval = 0
    BY <1>b, <1>d, <2>4, NextMultiple DEF InTime
  <2>6. InTime'
    BY <1>b, <1>d, <2>1, <2>2, <2>4, <2>5 DEF InTime
  <2>7. \A s \in Sensors : Dated(temps[s], due) /\ Dated(hums[s], due)
    BY <1>d, <2>1 DEF Date
  <2>8. \A s \in Sensors : ~(todo' = 0 \/ s < todo' \/ Ahead(s)')
    BY <2>1, <1>b DEF Ahead, Sensors
  <2>9. due' - Interval = due
    BY <1>b, <2>4
  <2> QED  BY <2>1, <2>6, <2>7, <2>8, <2>9 DEF Dates, Date
<1>4. CASE LogTemperature
  <2>1. /\ todo \in Sensors /\ stamp = -1 /\ todo' = todo
        /\ UNCHANGED <<clock, due, hums>>
    BY <1>4, <1>b DEF LogTemperature, Sensors
  <2> DEFINE d == due - Interval
             e == [ts |-> d, value |-> temp[todo]]
  <2>2. Rounded(clock) = d /\ d \in Nat
    BY <1>a, <1>b, <1>d, <2>1, RoundedBack DEF InTime, Sensors
  <2>3. stamp' = d /\ temps' = [temps EXCEPT ![todo] = Add(@, e)]
    BY <1>4, <2>2 DEF LogTemperature
  <2>4. Dated(temps[todo], d)
    BY <1>b, <1>d, <2>1 DEF Date, Ahead, Sensors
  <2>5. e \in LogEntries /\ e.ts = d /\ temps[todo] \in Seq(LogEntries)
    BY <1>a, <1>b, <2>1, <2>2 DEF CoreInv, TypeOK, LogEntries
  <2>6. d + Interval = due
    BY <1>b
  <2> HIDE DEF d, e
  <2>7. Dated(Add(temps[todo], e), due)
    BY <2>2, <2>4, <2>5, <2>6, AddDated
  <2>8. temps'[todo] = Add(temps[todo], e) /\ \A s \in Sensors \ {todo} : temps'[s] = temps[s]
    BY <1>b, <2>1, <2>3
  <2>9. stamp' # -1
    BY <2>2, <2>3
  <2>10. ASSUME NEW s \in Sensors
         PROVE  Dated(temps'[s], Date(todo = 0 \/ s < todo \/ Ahead(s))')
    <3>1. CASE s = todo
      BY <2>1, <2>7, <2>8, <2>9, <3>1 DEF Ahead, Date
    <3>2. CASE s # todo
      BY <1>d, <2>1, <2>8, <3>2 DEF Ahead, Date
    <3> QED  BY <3>1, <3>2
  <2>11. InTime'
    BY <1>d, <2>1 DEF InTime
  <2>12. \A s \in Sensors : Dated(hums'[s], Date(todo = 0 \/ s < todo)')
    BY <1>d, <2>1 DEF Date
  <2> QED  BY <2>1, <2>3, <2>10, <2>11, <2>12 DEF Dates, d
<1>5. CASE LogHumidity
  <2>1. /\ todo \in Sensors /\ stamp # -1 /\ stamp' = -1
        /\ UNCHANGED <<clock, due, temps>>
    BY <1>5, <1>b DEF LogHumidity, Sensors
  <2>2. todo' = IF todo = Count THEN 0 ELSE todo + 1
    BY <1>5, <1>a, NextToDo DEF LogHumidity
  <2> DEFINE e == [ts |-> stamp, value |-> hum[todo]]
  <2>3. stamp = due - Interval /\ stamp \in Nat
    BY <1>b, <1>d, <2>1
  <2>4. hums' = [hums EXCEPT ![todo] = Add(@, e)]
    BY <1>5 DEF LogHumidity
  <2>5. Dated(hums[todo], stamp)
    BY <1>b, <1>d, <2>1, <2>3 DEF Date, Sensors
  <2>6. e \in LogEntries /\ e.ts = stamp /\ hums[todo] \in Seq(LogEntries)
    BY <1>a, <1>b, <2>1, <2>3 DEF CoreInv, TypeOK, LogEntries
  <2>7. stamp + Interval = due
    BY <1>b, <2>3
  <2> HIDE DEF e
  <2>8. Dated(Add(hums[todo], e), due)
    BY <2>3, <2>5, <2>6, <2>7, AddDated
  <2>9. hums'[todo] = Add(hums[todo], e) /\ \A s \in Sensors \ {todo} : hums'[s] = hums[s]
    BY <1>b, <2>1, <2>4
  <2>10. ASSUME NEW s \in Sensors
         PROVE  /\ (todo' = 0 \/ s < todo') <=> (todo = 0 \/ s < todo \/ s = todo)
                /\ ~Ahead(s)' /\ (Ahead(s) <=> s = todo)
    BY <1>b, <2>1, <2>2 DEF Sensors, Ahead
  <2>11. ASSUME NEW s \in Sensors
         PROVE  /\ Dated(temps'[s], Date(todo = 0 \/ s < todo \/ Ahead(s))')
                /\ Dated(hums'[s], Date(todo = 0 \/ s < todo)')
    <3>1. Dated(temps'[s], Date(todo = 0 \/ s < todo \/ Ahead(s))')
      BY <1>d, <2>1, <2>10 DEF Date
    <3>2. CASE s = todo
      BY <2>1, <2>8, <2>9, <2>10, <3>1, <3>2 DEF Date
    <3>3. CASE s # todo
      BY <1>d, <2>1, <2>9, <2>10, <3>1, <3>3 DEF Date
    <3> QED  BY <3>2, <3>3
  <2>12. InTime'
    BY <1>b, <1>d, <2>1, <2>2 DEF InTime, Sensors
  <2> QED  BY <2>1, <2>11, <2>12 DEF Dates
<1> QED
  BY <1>1, <1>2, <1>3, <1>4, <1>5
     DEF Next, Worker, StartWorker, NextSensor, Retry, Silent, Broken, FirstAnswer,
         Agrees, Differs, Answered, PublishTemperature, PublishHumidity, loop, vars

LEMMA Smallest ==
    ASSUME NEW T \in SUBSET Nat, T # {}
    PROVE  Min(T) \in T
<1> DEFINE Below == {p \in Nat \X Nat : p[1] < p[2]}
<1>1. IsWellFoundedOn(Below, Nat)
  BY Zenon, NatLessThanWellFounded DEF OpToRel
<1>2. PICK n \in T : \A m \in T : ~(<<m, n>> \in Below)
  <2> HIDE DEF Below
  <2> QED  BY <1>1, WFMin
<1>3. ASSUME NEW m \in T PROVE n <= m
  <2>1. m \in Nat /\ n \in Nat /\ <<m, n>> \in Nat \X Nat
    BY SMT
  <2>2. m < n => <<m, n>> \in Below
    BY <2>1, SMT
  <2> QED  BY <1>2, <2>1, <2>2, SMT
<1> QED  BY <1>3 DEF Min

(* The reply contains every entry that no older one stands in front of.    *)
LEMMA ReplyKeeps ==
    ASSUME NEW log \in Seq(LogEntries), NEW k \in 1 .. Len(log), clock \in Int,
           \A i \in 1 .. k : ~(log[i].ts < clock - Day)
    PROVE  log[k].ts \in Stamped(Reply(log))
<1> DEFINE Old == {i \in 1 .. Len(log) : log[i].ts < clock - Day}
           old == SelectInSeq(log, LAMBDA e : e.ts < clock - Day)
<1>1. old = IF Old # {} THEN Min(Old) ELSE 0
  BY DEF SelectInSeq
<1>2. Reply(log) = IF old = 0 THEN log ELSE SubSeq(log, 1, old - 1)
  BY DEF Reply
<1>3. CASE Old = {}
  <2>1. Reply(log) = log
    BY <1>1, <1>2, <1>3
  <2> QED  BY <2>1 DEF Stamped
<1>4. CASE Old # {}
  <2>1. old \in Old
    <3>1. Old \in SUBSET Nat
      OBVIOUS
    <3> HIDE DEF Old, old
    <3> QED  BY <1>1, <1>4, <3>1, Smallest
  <2>2. old \in 1 .. Len(log) /\ k < old
    <3> HIDE DEF old
    <3> QED  BY <2>1
  <2> HIDE DEF Old, old
  <2>3. Reply(log) = SubSeq(log, 1, old - 1)
    BY <1>2, <2>2
  <2>4. k \in DOMAIN Reply(log) /\ Reply(log)[k] = log[k]
    BY <2>2, <2>3
  <2> QED  BY <2>4 DEF Stamped
<1> QED  BY <1>3, <1>4

(* A log that is dated by the next moment, between two moments, has every  *)
(* moment of the last day.                                                 *)
LEMMA DatedWhole ==
    ASSUME CoreInv, InTime, todo = 0,
           NEW log \in Seq(LogEntries), Dated(log, due),
           NEW m \in MomentsServed
    PROVE  m \in Stamped(Reply(log))
<1>1. /\ due \in Nat /\ clock \in Nat /\ Interval \in Nat \ {0} /\ Entries \in Nat \ {0}
      /\ Len(log) \in Nat
  BY SensorAssumption DEF CoreInv, TypeOK
<1>2. m \in Nat /\ 1 <= m /\ m < due /\ m % Interval = 0 /\ m > clock - Day
  BY <1>1 DEF MomentsServed
<1>3. due % Interval = 0 /\ due - Interval <= clock
  BY DEF InTime
<1>4. PICK q \in Nat : m = Interval * q
  BY <1>2, Quotient
<1>5. PICK n \in Nat : due = Interval * n
  BY <1>1, <1>3, Quotient
<1> DEFINE k == n - q
<1>6. k \in Int /\ m = due - Interval * k
  BY <1>1, <1>4, <1>5
<1> HIDE DEF k
<1>7. 1 <= k
  <2>1. Interval * 0 = 0
    BY <1>1
  <2>2. k < 1 => k = 0 \/ k < 0
    BY <1>6
  <2>3. k < 0 => Interval * k + Interval <= 0
    BY <1>6, <2>1, Distance
  <2> QED  BY <1>1, <1>2, <1>6, <2>1, <2>2, <2>3
<1>8. k <= Len(log)
  <2> DEFINE room == Len(log)
  <2>1. Interval * k < Interval * (room + 1)
    <3>1. CASE due = Interval * (room + 1)
      BY <1>1, <1>2, <1>6, <3>1
    <3>2. CASE room = Entries
      <4>1. Interval * (room + 1) = Day + Interval
        BY <1>1, <3>2 DEF Day
      <4>2. Interval * k < Day + Interval
        <5>1. Day \in Int /\ Interval * k \in Int
          BY <1>1, <1>6 DEF Day
        <5> QED  BY <1>1, <1>2, <1>3, <1>6, <5>1
      <4> QED  BY <4>1, <4>2
    <3> QED  BY <3>1, <3>2 DEF Dated
  <2>2. room + 1 \in Int
    BY <1>1
  <2>3. room + 1 < k => Interval * (room + 1) + Interval <= Interval * k
    BY <1>6, <2>2, Distance
  <2>4. Interval * (room + 1) \in Int /\ Interval * k \in Int
    BY <1>1, <1>6
  <2> HIDE DEF room
  <2>5. ~(room + 1 < k) /\ room + 1 # k
    BY <1>1, <2>1, <2>3, <2>4
  <2> QED  BY <1>1, <1>6, <2>2, <2>5 DEF room
<1>9. k \in 1 .. Len(log) /\ log[k].ts = m
  BY <1>1, <1>6, <1>7, <1>8 DEF Dated
<1>10. ASSUME NEW i \in 1 .. k PROVE ~(log[i].ts < clock - Day)
  <2>1. i \in DOMAIN log /\ i \in Int /\ (i = k \/ i < k)
    BY <1>1, <1>9
  <2>2. log[i].ts = due - Interval * i
    BY <2>1 DEF Dated
  <2>3. Interval * i <= Interval * k
    <3>1. i < k => Interval * i + Interval <= Interval * k
      BY <1>6, <2>1, Distance
    <3>2. Interval * i \in Int /\ Interval * k \in Int
      BY <1>1, <1>6, <2>1
    <3> QED  BY <1>1, <2>1, <3>1, <3>2
  <2>4. Interval * i \in Int /\ Interval * k \in Int /\ Day \in Int
    BY <1>1, <1>6, <2>1 DEF Day
  <2> QED  BY <1>1, <1>2, <1>6, <2>2, <2>3, <2>4
<1> QED  BY <1>1, <1>9, <1>10, ReplyKeeps

(* Between two moments served within half an interval, the remote gets     *)
(* every moment of the last day with both readings, for every interval,    *)
(* every size of the ring and every number of sensors.                     *)
THEOREM DayIsWhole == Spec => []LastDay
<1>1. DateInv => LastDay
  <2> SUFFICES ASSUME DateInv, 2 * Late < Interval, todo = 0, NEW s \in Sensors,
                      NEW m \in MomentsServed
               PROVE  /\ m \in Stamped(Reply(temps[s]))
                      /\ m \in Stamped(Reply(hums[s]))
    BY DEF LastDay
  <2>1. CoreInv /\ InTime /\ Dated(temps[s], due) /\ Dated(hums[s], due)
    BY DEF DateInv, Dates, Date
  <2>2. temps[s] \in Seq(LogEntries) /\ hums[s] \in Seq(LogEntries)
    BY <2>1 DEF CoreInv, TypeOK
  <2> QED  BY <2>1, <2>2, DatedWhole
<1> QED  BY <1>1, DateInit, DateNext, PTL DEF Spec
=============================================================================
