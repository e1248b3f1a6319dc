--------------------------- MODULE ScheduleProofs ---------------------------
(***************************************************************************)
(* Proofs about a schedule, for every cycle, every entry list and every    *)
(* resolution of the clock: served in time it looks up every minute once,  *)
(* between the jumps of local time, and its condition is that of the entry *)
(* in force, from the first entry carried out after a jump or a start on,  *)
(* and at a start itself if no entry is for midnight.                      *)
(***************************************************************************)
EXTENDS Schedule, WellFoundedInduction, TLAPS

(* What both theorems assume of the event loop.                            *)
Timely == Early = 0 /\ Late <= Half

(* While local time does not jump, it is in step with the timer and the    *)
(* minute looked up last: until the timer is due that minute is the        *)
(* current one, and a timer that is late is late by the ticks of the       *)
(* minute after it.  The first look-up in its minute after a jump puts     *)
(* them in step again.                                                     *)
InStep ==
    \/ wait > 0 /\ sec + wait = Minute /\ checked = min
    \/ wait <= 0 /\ -Late <= wait /\ sec = -wait /\ min = Succ(checked)

ClockInv ==
    /\ min \in 0 .. Cycle - 1 /\ sec \in 0 .. Minute - 1
    /\ checked \in 0 .. Cycle - 1 /\ wait \in Int
    /\ up \in BOOLEAN /\ steady \in BOOLEAN
    /\ entries \in Seq(EntryRecords)
    /\ up /\ steady => InStep

(* The event in dispatch and the condition are those of the entry in force *)
(* at the minute looked up last; a condition counted on has seen no jump.  *)
ForceInv ==
    /\ synced => steady
    /\ up /\ pending # None =>
          \E i \in DOMAIN entries : InForce(i, checked) /\ pending = entries[i].ev
    /\ ConditionInForce

LEMMA LeastNatural ==
    ASSUME NEW T \in SUBSET Nat, T # {}
    PROVE  \E n \in T : \A m \in T : n <= m
<1> DEFINE Below == {p \in Nat \X Nat : p[1] < p[2]}
<1>1. IsWellFoundedOn(Below, Nat)
  BY Zenon, NatLessThanWellFounded DEF OpToRel
<1>2. PICK n \in T : \A m \in T : ~(<<m, n>> \in Below)
  <2> HIDE DEF Below
  <2> QED  BY <1>1, WFMin
<1>3. ASSUME NEW m \in T PROVE n <= m
  <2>1. <<m, n>> \in Nat \X Nat
    BY SMT
  <2>2. m < n => <<m, n>> \in Below
    BY <2>1, SMT
  <2>3. m \in Nat /\ n \in Nat
    OBVIOUS
  <2> QED  BY <1>2, <2>2, <2>3, SMT
<1> QED  BY <1>3

(* A minute that some entry is for has a first entry.                      *)
LEMMA FirstEntry ==
    ASSUME entries \in Seq(EntryRecords), NEW m,
           NEW k \in DOMAIN entries, entries[k].at = m
    PROVE  \E i \in DOMAIN entries : EntryAt(i, m)
<1> DEFINE T == {i \in DOMAIN entries : entries[i].at = m}
<1>1. DOMAIN entries = 1 .. Len(entries) /\ Len(entries) \in Nat
  OBVIOUS
<1>2. T \in SUBSET Nat /\ T # {}
  BY <1>1
<1>3. PICK i \in T : \A j \in T : i <= j
  <2> HIDE DEF T
  <2> QED  BY <1>2, LeastNatural
<1>4. ASSUME NEW j \in 1 .. i - 1 PROVE entries[j].at # m
  <2>1. j \in DOMAIN entries /\ j < i
    BY <1>1
  <2> QED  BY <1>3, <2>1, <1>1
<1> QED  BY <1>3, <1>4 DEF EntryAt

LEMMA EntryType ==
    ASSUME entries \in Seq(EntryRecords), NEW i \in DOMAIN entries
    PROVE  entries[i].at \in 0 .. Cycle - 1 /\ entries[i].ev \in Events
<1>1. entries[i] \in EntryRecords
  OBVIOUS
<1> QED  BY <1>1 DEF EntryRecords

-----------------------------------------------------------------------------
LEMMA ClockInit == Init => ClockInv
<1> SUFFICES ASSUME Init PROVE ClockInv
  OBVIOUS
<1>1. entries \in Seq(EntryRecords)
  BY ScheduleAssumption DEF Init
<1>2. up \in BOOLEAN /\ ~up
  BY Zenon DEF Init
<1>3. wait = 0 /\ checked = min
  BY DEF Init
<1>4. min \in 0 .. Cycle - 1 /\ sec \in 0 .. Minute - 1
  BY DEF Init
<1>5. steady \in BOOLEAN
  BY Zenon DEF Init
<1> QED  BY <1>1, <1>2, <1>3, <1>4, <1>5 DEF ClockInv

LEMMA ClockNext == ASSUME Timely PROVE ClockInv /\ [Next]_vars => ClockInv'
<1> SUFFICES ASSUME ClockInv, [Next]_vars PROVE ClockInv'
  OBVIOUS
<1> USE ScheduleAssumption
<1>1. CASE Start
  <2>1. up' \in BOOLEAN /\ steady' \in BOOLEAN
    BY <1>1, Zenon DEF Start
  <2>2. wait' = Minute - sec /\ checked' = min /\ UNCHANGED <<entries, min, sec>>
    BY <1>1 DEF Start, UntilNext
  <2> QED  BY <2>1, <2>2 DEF ClockInv, InStep
<1>2. CASE Stop
  <2>1. up' \in BOOLEAN /\ ~up' /\ steady' \in BOOLEAN
    BY <1>2, Zenon DEF Stop, ClockInv
  <2>2. wait' = 0
    BY <1>2 DEF Stop
  <2>3. UNCHANGED <<entries, min, sec, checked>>
    BY <1>2 DEF Stop
  <2> QED  BY <2>1, <2>2, <2>3 DEF ClockInv
<1>3. CASE Fire
  <2>1. steady => sec <= Half
    BY <1>3 DEF Fire, ClockInv, InStep, Timely
  <2>2. steady' \in BOOLEAN /\ (steady' => sec <= Half)
    BY <1>3, <2>1, Zenon DEF Fire, ClockInv
  <2>3. wait' = Minute - sec /\ checked' = Rounded /\ UNCHANGED <<entries, min, sec, up>>
    BY <1>3 DEF Fire, UntilNext
  <2>4. Rounded \in 0 .. Cycle - 1 /\ (sec <= Half => Rounded = min)
    BY DEF Rounded, Succ, ClockInv
  <2>5. wait' > 0 /\ wait' \in Int /\ sec' + wait' = Minute
    BY <2>3 DEF ClockInv
  <2>6. steady' => InStep'
    BY <2>2, <2>3, <2>4, <2>5 DEF InStep
  <2> QED  BY <2>2, <2>3, <2>4, <2>5, <2>6 DEF ClockInv
<1>4. CASE Settle
  BY <1>4 DEF Settle, ClockInv, InStep, Succ
<1>5. CASE Tick
  <2>1. CASE up
    <3>1. wait > -Late /\ wait' = wait - 1
      BY <1>5, <2>1 DEF Tick
    <3>2. UNCHANGED <<entries, up, checked, steady>>
      BY <1>5 DEF Tick
    <3>3. /\ sec' = IF sec = Minute - 1 THEN 0 ELSE sec + 1
          /\ min' = IF sec = Minute - 1 THEN Succ(min) ELSE min
          /\ min' \in 0 .. Cycle - 1 /\ sec' \in 0 .. Minute - 1 /\ wait' \in Int
      BY <1>5, <3>1 DEF Tick, ClockInv, Succ
    <3>4. CASE steady /\ wait > 0
      <4>1. sec + wait = Minute /\ checked = min
        BY <2>1, <3>4 DEF ClockInv, InStep
      <4>2. InStep'
        BY <3>1, <3>2, <3>3, <3>4, <4>1 DEF InStep, ClockInv
      <4> QED  BY <3>2, <3>3, <4>2 DEF ClockInv
    <3>5. CASE steady /\ wait <= 0
      <4>1. sec = -wait /\ min = Succ(checked)
        BY <2>1, <3>5 DEF ClockInv, InStep
      <4>2. sec # Minute - 1
        BY <3>1, <4>1 DEF ClockInv, Timely
      <4>3. InStep'
        BY <3>1, <3>2, <3>3, <3>5, <4>1, <4>2 DEF InStep, ClockInv, Succ
      <4> QED  BY <3>2, <3>3, <4>3 DEF ClockInv
    <3>6. CASE ~steady
      BY <3>2, <3>3, <3>6 DEF ClockInv
    <3> QED  BY <3>4, <3>5, <3>6 DEF ClockInv
  <2>2. CASE ~up
    BY <1>5, <2>2 DEF Tick, ClockInv, Succ
  <2> QED  BY <2>1, <2>2
<1>6. CASE Jump
  <2>1. steady' \in BOOLEAN /\ ~steady'
    BY <1>6, Zenon DEF Jump
  <2> QED  BY <1>6, <2>1 DEF Jump, ClockInv
<1>7. CASE UNCHANGED vars
  BY <1>7 DEF vars, ClockInv, InStep, Succ
<1> QED  BY <1>1, <1>2, <1>3, <1>4, <1>5, <1>6, <1>7 DEF Next

LEMMA FireNext ==
    ASSUME Timely, ClockInv, Fire, steady
    PROVE  Rounded = Succ(checked) /\ checked' = Succ(checked)
  BY ScheduleAssumption DEF Fire, ClockInv, InStep, Timely, Rounded

(* Between two jumps of local time a running engine looks up every minute  *)
(* once and in order (schedule_check_events, calculate_next_timing_event), *)
(* provided the loop serves its timer within the rounding limit and never  *)
(* early.                                                                  *)
THEOREM MinutesInOrder == ASSUME Timely PROVE Spec => Consecutive
<1>1. ClockInv /\ [Next]_vars => [Fire /\ steady => checked' = Succ(checked)]_vars
  BY FireNext
<1> QED  BY <1>1, ClockInit, ClockNext, PTL DEF Spec, Consecutive

-----------------------------------------------------------------------------
(* The entry just looked up is in force.                                   *)
LEMMA EntryInForce ==
    ASSUME entries \in Seq(EntryRecords), NEW m \in 0 .. Cycle - 1,
           NEW i \in DOMAIN entries, EntryAt(i, m)
    PROVE  InForce(i, m)
<1> SUFFICES ASSUME NEW j \in DOMAIN entries
             PROVE  \/ Since(m, entries[i].at) < Since(m, entries[j].at)
                    \/ entries[i].at = entries[j].at /\ i <= j
  BY DEF InForce
<1>1. entries[i].at = m /\ entries[j].at \in 0 .. Cycle - 1
  BY EntryType DEF EntryAt
<1>2. CASE entries[j].at # m
  BY <1>1, <1>2, ScheduleAssumption DEF Since
<1>3. CASE entries[j].at = m
  <2>1. i \in Nat /\ j \in Nat /\ j >= 1
    OBVIOUS
  <2>2. ~(j \in 1 .. i - 1)
    BY <1>3 DEF EntryAt
  <2> QED  BY <1>1, <1>3, <2>1, <2>2
<1> QED  BY <1>2, <1>3

(* Without an entry for the next minute nothing comes into force.          *)
LEMMA StillInForce ==
    ASSUME entries \in Seq(EntryRecords), NEW m \in 0 .. Cycle - 1,
           NEW i \in DOMAIN entries, InForce(i, m),
           \A k \in DOMAIN entries : entries[k].at # Succ(m)
    PROVE  InForce(i, Succ(m))
<1>1. ASSUME NEW k \in DOMAIN entries
      PROVE  Since(Succ(m), entries[k].at) = Since(m, entries[k].at) + 1
  <2>1. entries[k].at \in 0 .. Cycle - 1 /\ entries[k].at # Succ(m)
    BY EntryType
  <2> QED  BY <2>1, ScheduleAssumption DEF Since, Succ
<1>2. ASSUME NEW k \in DOMAIN entries PROVE Since(m, entries[k].at) \in Int
  BY EntryType, ScheduleAssumption DEF Since
<1> QED  BY <1>1, <1>2 DEF InForce

LEMMA ForceInit == Init => ForceInv
  BY DEF Init, ForceInv, ConditionInForce

LEMMA ForceNext ==
    ASSUME Timely PROVE ClockInv /\ ForceInv /\ [Next]_vars => ForceInv'
<1> SUFFICES ASSUME ClockInv, ForceInv, [Next]_vars PROVE ForceInv'
  OBVIOUS
<1>1. CASE Start
  BY <1>1 DEF Start, ForceInv, ConditionInForce
<1>2. CASE Stop
  BY <1>2 DEF Stop, ForceInv, ConditionInForce
<1>3. CASE Fire
  <2>1. checked' = Rounded /\ (steady => Rounded = Succ(checked))
    BY <1>3, FireNext DEF Fire
  <2>2. UNCHANGED <<entries, up, condition, synced>> /\ up /\ pending = None
    BY <1>3 DEF Fire
  <2>3. entries \in Seq(EntryRecords) /\ checked \in 0 .. Cycle - 1
    BY DEF ClockInv
  <2>4. Rounded \in 0 .. Cycle - 1
    BY ScheduleAssumption DEF Rounded, Succ, ClockInv
  <2>5. (synced => steady)'
    <3>1. (synced => steady) /\ (steady => steady') /\ (synced' <=> synced)
      BY <1>3 DEF Fire, ForceInv
    <3> QED  BY <3>1
  <2>6. ASSUME NEW i \in DOMAIN entries, EntryAt(i, Rounded), pending' = entries[i].ev
        PROVE  ForceInv'
    <3>1. InForce(i, checked')
      BY <2>1, <2>3, <2>4, <2>6, EntryInForce
    <3>2. pending' # None
      BY <2>3, <2>6, EntryType, ScheduleAssumption
    <3>3. InForce(i, checked)'
      BY <3>1, <2>2 DEF InForce, Since
    <3> QED  BY <2>2, <2>6, <2>5, <3>2, <3>3 DEF ForceInv, ConditionInForce
  <2>7. ASSUME \A i \in DOMAIN entries : ~EntryAt(i, Rounded), pending' = None
        PROVE  ForceInv'
    <3>1. \A k \in DOMAIN entries : entries[k].at # Rounded
      BY <2>3, <2>7, FirstEntry
    <3>2. ASSUME synced
          PROVE  \E i \in DOMAIN entries :
                     InForce(i, checked') /\ condition = entries[i].ev
      <4>1. PICK i \in DOMAIN entries :
                   InForce(i, checked) /\ condition = entries[i].ev
        BY <2>2, <3>2 DEF ForceInv, ConditionInForce
      <4>2. Rounded = Succ(checked)
        BY <2>1, <3>2 DEF ForceInv
      <4>3. InForce(i, Succ(checked))
        BY <4>1, <4>2, <3>1, <2>3, StillInForce
      <4> QED  BY <4>1, <4>2, <4>3, <2>1
    <3> QED  BY <2>2, <2>7, <2>5, <3>2 DEF ForceInv, ConditionInForce, InForce, Since
  <2> QED  BY <1>3, <2>6, <2>7 DEF Fire
<1>4. CASE Settle
  BY <1>4 DEF Settle, ForceInv, ConditionInForce, InForce, Since
<1>5. CASE Tick
  BY <1>5 DEF Tick, ForceInv, ConditionInForce, InForce, Since
<1>6. CASE Jump
  BY <1>6 DEF Jump, ForceInv, ConditionInForce, InForce, Since
<1>7. CASE UNCHANGED vars
  BY <1>7 DEF vars, ForceInv, ConditionInForce, InForce, Since
<1> QED  BY <1>1, <1>2, <1>3, <1>4, <1>5, <1>6, <1>7 DEF Next

(* From the first entry carried out after a start or a jump of local time, *)
(* the condition rules read is that of the entry in force, for every       *)
(* schedule (schedule_search_entry, schedule_check_event).                 *)
THEOREM ConditionTrue == ASSUME Timely PROVE Spec => []ConditionInForce
<1>1. ClockInv /\ ForceInv => ConditionInForce
  BY DEF ForceInv
<1> QED  BY <1>1, ClockInit, ClockNext, ForceInit, ForceNext, PTL DEF Spec

-----------------------------------------------------------------------------
(* The condition found at a start.  The loop over the entries is a         *)
(* function defined by recursion; that there is one such function, and     *)
(* what it finds, is shown by looking at the least number of entries that  *)
(* would be an exception.                                                  *)
IsLoop(g, n, T, base, step) ==
    /\ g \in [0 .. n -> T] /\ g[0] = base
    /\ \A i \in 1 .. n : g[i] = step[<<i, g[i - 1]>>]

LEMMA LoopExists ==
    ASSUME NEW N \in Nat, NEW T, NEW base \in T, NEW step \in [(1 .. N) \X T -> T]
    PROVE  \E g : IsLoop(g, N, T, base, step)
<1> DEFINE Runs(k) == \E g : IsLoop(g, k, T, base, step)
           Bad == {k \in 0 .. N : ~Runs(k)}
<1> SUFFICES ASSUME Bad # {} PROVE FALSE
  <2>1. N \in 0 .. N
    OBVIOUS
  <2> QED  BY <2>1
<1>1. PICK k \in Bad : \A l \in Bad : k <= l
  <2>1. Bad \in SUBSET Nat
    OBVIOUS
  <2> HIDE DEF Bad
  <2> QED  BY <2>1, LeastNatural
<1>2. k \in 0 .. N /\ ~Runs(k)
  OBVIOUS
<1>3. k # 0
  <2> SUFFICES Runs(0)
    BY <1>2
  <2>1. [n \in 0 .. 0 |-> base] \in [0 .. 0 -> T] /\ [n \in 0 .. 0 |-> base][0] = base
    OBVIOUS
  <2>2. \A n \in 1 .. 0 : FALSE
    OBVIOUS
  <2> QED  BY <2>1, <2>2 DEF IsLoop
<1>4. Runs(k - 1)
  <2>1. k - 1 \in 0 .. N /\ ~(k <= k - 1)
    BY <1>2, <1>3
  <2> HIDE DEF Runs
  <2> QED  BY <1>1, <2>1
<1>5. PICK g \in [0 .. k - 1 -> T] :
         g[0] = base /\ \A n \in 1 .. k - 1 : g[n] = step[<<n, g[n - 1]>>]
  BY <1>4 DEF IsLoop
<1> DEFINE h == [n \in 0 .. k |-> IF n = k THEN step[<<k, g[k - 1]>>] ELSE g[n]]
<1>6. k \in 1 .. N /\ k - 1 \in 0 .. k - 1
  BY <1>2, <1>3
<1>7. g[k - 1] \in T /\ step[<<k, g[k - 1]>>] \in T
  BY <1>5, <1>6
<1>8. /\ h \in [0 .. k -> T] /\ h[k] = step[<<k, g[k - 1]>>]
      /\ \A n \in 0 .. k - 1 : h[n] = g[n]
  BY <1>5, <1>6, <1>7
<1> HIDE DEF h
<1>9. \A n \in 1 .. k : h[n] = step[<<n, h[n - 1]>>]
  <2> TAKE n \in 1 .. k
  <2>1. n - 1 \in 0 .. k - 1 /\ h[n - 1] = g[n - 1]
    BY <1>6, <1>8
  <2>2. CASE n = k
    BY <1>8, <2>1, <2>2
  <2>3. CASE n # k
    <3>1. n \in 1 .. k - 1 /\ n \in 0 .. k - 1
      BY <1>6, <2>3
    <3> QED  BY <1>5, <1>8, <2>1, <3>1
  <2> QED  BY <2>2, <2>3
<1>10. h[0] = base
  BY <1>5, <1>6, <1>8
<1>11. IsLoop(h, k, T, base, step)
  BY <1>8, <1>9, <1>10 DEF IsLoop
<1> QED  BY <1>2, <1>11

Candidates == {[at |-> 0, ev |-> LastInFile]} \cup {entries[i] : i \in DOMAIN entries}

LEMMA FoundRec ==
    ASSUME entries \in Seq(EntryRecords), NEW m
    PROVE  /\ Found(m)[0] = [at |-> 0, ev |-> LastInFile]
           /\ \A n \in 1 .. Len(entries) :
                 Found(m)[n] = IF Replaces(entries[n], Found(m)[n - 1], m)
                               THEN entries[n] ELSE Found(m)[n - 1]
<1> DEFINE first == [at |-> 0, ev |-> LastInFile]
           N == Len(entries)
           step == [p \in (1 .. N) \X Candidates |->
                      IF Replaces(entries[p[1]], p[2], m) THEN entries[p[1]] ELSE p[2]]
           Rec(f) == f = [n \in 0 .. N |->
                            IF n = 0 THEN first
                            ELSE IF Replaces(entries[n], f[n - 1], m) THEN entries[n]
                            ELSE f[n - 1]]
<1>0. N \in Nat /\ DOMAIN entries = 1 .. N
  OBVIOUS
<1>1. first \in Candidates /\ \A i \in 1 .. N : entries[i] \in Candidates
  BY <1>0 DEF Candidates
<1>2. step \in [(1 .. N) \X Candidates -> Candidates]
  <2> HIDE DEF first, N
  <2>1. ASSUME NEW p \in (1 .. N) \X Candidates
        PROVE  (IF Replaces(entries[p[1]], p[2], m) THEN entries[p[1]] ELSE p[2]) \in Candidates
    BY <1>1
  <2> QED  BY <2>1
<1>3. PICK g \in [0 .. N -> Candidates] :
         g[0] = first /\ \A n \in 1 .. N : g[n] = step[<<n, g[n - 1]>>]
  <2>1. PICK n, T, b, st : n = N /\ T = Candidates /\ b = first /\ st = step
    OBVIOUS
  <2>2. n \in Nat /\ b \in T /\ st \in [(1 .. n) \X T -> T]
    BY <1>0, <1>1, <1>2, <2>1
  <2>3. \E g : IsLoop(g, n, T, b, st)
    BY <2>2, LoopExists
  <2> HIDE DEF step, first, N
  <2> QED  BY <2>1, <2>3 DEF IsLoop
<1>4. Rec(g)
  <2> HIDE DEF first, N
  <2>1. ASSUME NEW n \in 0 .. N, n # 0
        PROVE  g[n] = IF Replaces(entries[n], g[n - 1], m) THEN entries[n] ELSE g[n - 1]
    <3>1. n \in 1 .. N /\ n - 1 \in 0 .. N
      BY <1>0, <2>1
    <3>2. <<n, g[n - 1]>> \in (1 .. N) \X Candidates /\ g[n] = step[<<n, g[n - 1]>>]
      BY <1>3, <3>1
    <3> QED  BY <3>2
  <2> HIDE DEF step
  <2> QED  BY <1>3, <2>1
<1>5. Rec(Found(m))
  <2>1. Found(m) = CHOOSE f : Rec(f)
    BY DEF Found
  <2> HIDE DEF Rec
  <2> QED  BY <1>4, <2>1
<1>6. \A n \in 1 .. N : n \in 0 .. N /\ n # 0
  BY <1>0
<1>7. 0 \in 0 .. N
  BY <1>0
<1>8. Found(m)[0] = first
  BY <1>5, <1>7
<1>9. ASSUME NEW n \in 1 .. N
      PROVE  Found(m)[n] = IF Replaces(entries[n], Found(m)[n - 1], m)
                           THEN entries[n] ELSE Found(m)[n - 1]
  BY <1>5, <1>6
<1> QED  BY <1>8, <1>9

(* Of the first n entries, i is the latest before m, and the first of the  *)
(* file among those for its minute.                                        *)
Best(i, n, m) ==
    /\ entries[i].at > 0 /\ entries[i].at < m
    /\ \A j \in 1 .. n : entries[j].at < m =>
          entries[j].at < entries[i].at \/ (entries[j].at = entries[i].at /\ i <= j)

FoundSoFar(n, m) ==
    \/ /\ Found(m)[n] = [at |-> 0, ev |-> LastInFile]
       /\ \A j \in 1 .. n : ~(entries[j].at > 0 /\ entries[j].at < m)
    \/ \E i \in 1 .. n : Best(i, n, m) /\ Found(m)[n] = entries[i]

LEMMA FoundOneMore ==
    ASSUME entries \in Seq(EntryRecords), NEW m \in 0 .. Cycle - 1,
           NEW n \in 1 .. Len(entries), FoundSoFar(n - 1, m)
    PROVE  FoundSoFar(n, m)
<1> DEFINE f == Found(m)[n - 1]
           e == entries[n]
<1>0. /\ n \in Nat /\ \A j \in 1 .. n : j \in 1 .. n - 1 \/ j = n
      /\ \A j \in 1 .. n : j \in DOMAIN entries /\ j \in Nat
      /\ n \in 1 .. n /\ 1 .. n - 1 \subseteq 1 .. n
  OBVIOUS
<1>1. \A j \in 1 .. n : entries[j].at \in Nat
  BY <1>0, EntryType
<1>2. Found(m)[n] = IF e.at > f.at /\ e.at < m THEN e ELSE f
  BY FoundRec DEF Replaces
<1>3. CASE /\ f = [at |-> 0, ev |-> LastInFile]
           /\ \A j \in 1 .. n - 1 : ~(entries[j].at > 0 /\ entries[j].at < m)
  <2>1. f.at = 0
    BY <1>3
  <2> HIDE DEF f
  <2>2. CASE e.at > 0 /\ e.at < m
    <3>1. Found(m)[n] = entries[n]
      BY <1>2, <2>1, <2>2
    <3>2. Best(n, n, m)
      BY <1>0, <1>1, <1>3, <2>2 DEF Best
    <3> QED  BY <1>0, <3>1, <3>2 DEF FoundSoFar
  <2>3. CASE ~(e.at > 0 /\ e.at < m)
    BY <1>0, <1>2, <1>3, <2>1, <2>3 DEF FoundSoFar
  <2> QED  BY <2>2, <2>3
<1>4. ASSUME NEW i \in 1 .. n - 1, Best(i, n - 1, m), f = entries[i]
      PROVE  FoundSoFar(n, m)
  <2>1. i \in 1 .. n /\ i \in Nat /\ i <= n
    BY <1>0
  <2> HIDE DEF f
  <2>2. CASE e.at > entries[i].at /\ e.at < m
    <3>1. Found(m)[n] = entries[n]
      BY <1>2, <1>4, <2>2
    <3>2. Best(n, n, m)
      BY <1>0, <1>1, <1>4, <2>1, <2>2 DEF Best
    <3> QED  BY <1>0, <3>1, <3>2 DEF FoundSoFar
  <2>3. CASE ~(e.at > entries[i].at /\ e.at < m)
    <3>1. Found(m)[n] = entries[i]
      BY <1>2, <1>4, <2>3
    <3>2. entries[n].at < m =>
             entries[n].at < entries[i].at \/ (entries[n].at = entries[i].at /\ i <= n)
      BY <1>0, <1>1, <2>1, <2>3
    <3>3. Best(i, n, m)
      <4>1. \A j \in 1 .. n : entries[j].at < m =>
               entries[j].at < entries[i].at \/ (entries[j].at = entries[i].at /\ i <= j)
        BY <1>0, <1>4, <3>2 DEF Best
      <4> QED  BY <1>4, <4>1 DEF Best
    <3> QED  BY <2>1, <3>1, <3>3 DEF FoundSoFar
  <2> QED  BY <2>2, <2>3
<1> QED  BY <1>3, <1>4 DEF FoundSoFar

LEMMA FoundIsBest ==
    ASSUME entries \in Seq(EntryRecords), NEW m \in 0 .. Cycle - 1
    PROVE  FoundSoFar(Len(entries), m)
<1> DEFINE Bad == {n \in 0 .. Len(entries) : ~FoundSoFar(n, m)}
<1>0. Len(entries) \in Nat
  OBVIOUS
<1> SUFFICES ASSUME Bad # {} PROVE FALSE
  BY <1>0
<1>1. PICK n \in Bad : \A l \in Bad : n <= l
  <2>1. Bad \in SUBSET Nat
    OBVIOUS
  <2> HIDE DEF Bad
  <2> QED  BY <2>1, LeastNatural
<1>2. n \in 0 .. Len(entries) /\ ~FoundSoFar(n, m)
  OBVIOUS
<1>3. n # 0
  BY <1>2, FoundRec DEF FoundSoFar
<1>4. n \in 1 .. Len(entries) /\ n - 1 \in 0 .. Len(entries) /\ ~(n <= n - 1)
  BY <1>0, <1>2, <1>3
<1>5. FoundSoFar(n - 1, m)
  BY <1>1, <1>4
<1> QED  BY <1>2, <1>4, <1>5, FoundOneMore

LEMMA BestInForce ==
    ASSUME entries \in Seq(EntryRecords), NEW m \in 0 .. Cycle - 1,
           NEW i \in DOMAIN entries, Best(i, Len(entries), m)
    PROVE  InForce(i, Pred(m))
<1> SUFFICES ASSUME NEW j \in DOMAIN entries
             PROVE  \/ Since(Pred(m), entries[i].at) < Since(Pred(m), entries[j].at)
                    \/ entries[i].at = entries[j].at /\ i <= j
  BY DEF InForce
<1>1. /\ entries[i].at \in 0 .. Cycle - 1 /\ entries[j].at \in 0 .. Cycle - 1
      /\ j \in 1 .. Len(entries)
  BY EntryType
<1>2. /\ entries[i].at < m
      /\ entries[j].at < m =>
            entries[j].at < entries[i].at \/ (entries[j].at = entries[i].at /\ i <= j)
  BY <1>1 DEF Best
<1>3. Pred(m) = m - 1
  BY <1>1, <1>2 DEF Pred
<1> QED  BY <1>1, <1>2, <1>3, ScheduleAssumption DEF Since

LEMMA LastEntryInForce ==
    ASSUME entries \in Seq(EntryRecords), NEW m \in 0 .. Cycle - 1, entries # <<>>,
           \A j \in DOMAIN entries : entries[j].at >= m,
           \A j \in 1 .. Len(entries) - 1 : entries[j].at < Last(entries).at
    PROVE  /\ Len(entries) \in DOMAIN entries /\ InForce(Len(entries), Pred(m))
           /\ LastInFile = entries[Len(entries)].ev
<1>1. /\ Len(entries) \in DOMAIN entries /\ Last(entries) = entries[Len(entries)]
      /\ \A j \in DOMAIN entries : j \in 1 .. Len(entries) - 1 \/ j = Len(entries)
  BY DEF Last
<1>2. LastInFile = entries[Len(entries)].ev
  BY <1>1 DEF LastInFile
<1>3. ASSUME NEW j \in DOMAIN entries
      PROVE  \/ Since(Pred(m), entries[Len(entries)].at) < Since(Pred(m), entries[j].at)
             \/ j = Len(entries)
  <2>1. /\ entries[j].at \in 0 .. Cycle - 1 /\ entries[Len(entries)].at \in 0 .. Cycle - 1
        /\ entries[j].at >= m /\ entries[Len(entries)].at >= m
    BY <1>1, EntryType
  <2>2. j # Len(entries) => entries[j].at < entries[Len(entries)].at
    BY <1>1
  <2>3. CASE m = 0
    <3>1. Pred(m) = Cycle - 1
      BY <2>3 DEF Pred
    <3> QED  BY <2>1, <2>2, <3>1, ScheduleAssumption DEF Since
  <2>4. CASE m # 0
    <3>1. Pred(m) = m - 1
      BY <2>4 DEF Pred
    <3> QED  BY <2>1, <2>2, <3>1, ScheduleAssumption DEF Since
  <2> QED  BY <2>3, <2>4
<1>4. InForce(Len(entries), Pred(m))
  BY <1>1, <1>3 DEF InForce
<1> QED  BY <1>1, <1>2, <1>4

EntriesInv == entries \in Seq(EntryRecords) /\ min \in 0 .. Cycle - 1

(* A start finds the condition of the entry that was in force before its   *)
(* minute, for every file without an entry for midnight, in whatever order *)
(* it lists its entries, unless the start comes before all of them and the *)
(* latest is not listed last (schedule_get_current_condition).             *)
THEOREM StartIsInForce == Spec => StartsInForce
<1>1. Init => EntriesInv
  BY ScheduleAssumption DEF Init, EntriesInv
<1>2. EntriesInv /\ [Next]_vars => EntriesInv'
  BY ScheduleAssumption
     DEF EntriesInv, Next, vars, Start, Stop, Fire, Settle, Tick, Jump, Succ
<1>3. ASSUME EntriesInv, Start, entries # <<>>, \A i \in DOMAIN entries : entries[i].at > 0,
             \/ \E i \in DOMAIN entries : entries[i].at < min
             \/ \A i \in 1 .. Len(entries) - 1 : entries[i].at < Last(entries).at
      PROVE  \E i \in DOMAIN entries : InForce(i, Pred(min)) /\ condition' = entries[i].ev
  <2>1. /\ entries \in Seq(EntryRecords) /\ min \in 0 .. Cycle - 1
        /\ DOMAIN entries = 1 .. Len(entries)
        /\ condition' = Found(min)[Len(entries)].ev
    BY <1>3 DEF EntriesInv, Start, StartCondition
  <2>2. FoundSoFar(Len(entries), min)
    BY <2>1, FoundIsBest
  <2>3. ASSUME NEW i \in 1 .. Len(entries), Best(i, Len(entries), min),
               Found(min)[Len(entries)] = entries[i]
        PROVE  \E k \in DOMAIN entries : InForce(k, Pred(min)) /\ condition' = entries[k].ev
    <3>1. InForce(i, Pred(min))
      BY <2>1, <2>3, BestInForce
    <3> QED  BY <2>1, <2>3, <3>1
  <2>4. ASSUME Found(min)[Len(entries)] = [at |-> 0, ev |-> LastInFile],
               \A j \in 1 .. Len(entries) : ~(entries[j].at > 0 /\ entries[j].at < min)
        PROVE  \E k \in DOMAIN entries : InForce(k, Pred(min)) /\ condition' = entries[k].ev
    <3>1. \A j \in DOMAIN entries : ~(entries[j].at < min)
      BY <1>3, <2>1, <2>4
    <3>2. \A j \in DOMAIN entries : entries[j].at >= min
      BY <2>1, <3>1, EntryType
    <3>3. \A i \in 1 .. Len(entries) - 1 : entries[i].at < Last(entries).at
      BY <1>3, <3>1
    <3>4. condition' = LastInFile
      BY <2>1, <2>4
    <3> QED  BY <1>3, <2>1, <3>2, <3>3, <3>4, LastEntryInForce
  <2> QED  BY <2>2, <2>3, <2>4 DEF FoundSoFar
<1> QED  BY <1>1, <1>2, <1>3, PTL DEF Spec, StartsInForce
=============================================================================
