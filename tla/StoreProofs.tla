---------------------------- MODULE StoreProofs -----------------------------
(***************************************************************************)
(* Proofs about the state file, for every set of switches and blinds: what *)
(* a start restores, however many starts and saves were cut off before it. *)
(***************************************************************************)
EXTENDS Store, TLAPS

LEMMA FileKinds == Absent \notin Contents /\ Torn \notin Contents /\ Absent # Torn
  BY StoreAssumption

LEMMA StoredType ==
    ASSUME NEW f \in Contents, Leveled(f)
    PROVE  /\ StoredOf(f) \in Contents /\ Leveled(StoredOf(f))
           /\ \A b \in Blinds : StoredOf(f)[b] \in {"open", "closed", "stopped"}
<1>1. \A s \in Switches : s \in Devices /\ s \notin Blinds
  BY StoreAssumption DEF Devices
<1>2. \A b \in Blinds : b \in Devices
  BY DEF Devices
<1>3. StoredOf(f) \in Contents
  BY DEF StoredOf, StoredBlind, Contents, Values
<1> QED  BY <1>1, <1>2, <1>3 DEF StoredOf, StoredBlind, Leveled

LEMMA RestoredType ==
    ASSUME NEW f \in Contents, Leveled(f)
    PROVE  /\ RestoredOf(f) \in Contents /\ Leveled(RestoredOf(f))
           /\ Conditioned(RestoredOf(f))
<1>1. \A s \in Switches : s \in Devices /\ s \notin Blinds
  BY StoreAssumption DEF Devices
<1>2. \A b \in Blinds : b \in Devices
  BY DEF Devices
<1>3. RestoredOf(f) \in Contents
  BY DEF RestoredOf, RestoredBlind, Contents, Values, Conditions
<1> QED  BY <1>1, <1>2, <1>3
         DEF RestoredOf, RestoredBlind, Leveled, Conditioned, Conditions

LEMMA FreshType == Fresh \in Contents /\ Leveled(Fresh) /\ Conditioned(Fresh)
<1>1. \A s \in Switches : s \in Devices /\ s \notin Blinds
  BY StoreAssumption DEF Devices
<1>2. \A b \in Blinds : b \in Devices
  BY DEF Devices
<1>3. Fresh \in Contents
  BY StoreAssumption DEF Fresh, Contents, Values, Conditions
<1> QED  BY <1>1, <1>2, <1>3, StoreAssumption DEF Fresh, Leveled, Conditioned, Conditions

LEMMA TypeInit == Init => TypeOK
  BY FreshType, FileKinds DEF Init, TypeOK

(* The state of one process is replaced by another well-typed one.         *)
LEMMA LevelType ==
    ASSUME TypeOK, NEW p \in Processes, NEW f \in Contents,
           Leveled(f), Conditioned(f), level' = [level EXCEPT ![p] = f]
    PROVE  /\ level' \in [Processes -> Contents]
           /\ \A q \in Processes : Leveled(level'[q]) /\ Conditioned(level'[q])
  BY DEF TypeOK

LEMMA ReadType ==
    ASSUME TypeOK, NEW p \in Processes, ReadFile(p)
    PROVE  /\ level' \in [Processes -> Contents]
           /\ \A q \in Processes : Leveled(level'[q]) /\ Conditioned(level'[q])
           /\ sound' \in BOOLEAN
<1>1. CASE file \in Contents
  <2>1. Leveled(file)
    BY <1>1 DEF TypeOK
  <2>2. RestoredOf(file) \in Contents /\ Leveled(RestoredOf(file))
        /\ Conditioned(RestoredOf(file))
    BY <1>1, <2>1, RestoredType
  <2> QED  BY <1>1, <2>2, LevelType DEF ReadFile
<1>2. CASE file \notin Contents
  BY <1>2 DEF ReadFile, TypeOK
<1> QED  BY <1>1, <1>2

LEMMA ChangeType ==
    ASSUME TypeOK, NEW d \in Devices, NEW v \in Values,
           d \in Switches => v \in Levels, d \in Blinds => v \in Conditions,
           Change(d, v)
    PROVE  TypeOK'
<1> DEFINE f == [level["engine"] EXCEPT ![d] = v]
<1>1. "engine" \in Processes
  BY DEF Processes
<1>2. level["engine"] \in Contents /\ Leveled(level["engine"])
      /\ Conditioned(level["engine"])
  BY <1>1 DEF TypeOK
<1>3. f \in Contents
  BY <1>2 DEF Contents
<1>4. Leveled(f) /\ Conditioned(f)
  BY <1>2 DEF Leveled, Conditioned, Contents, Devices
<1>5. level' = [level EXCEPT !["engine"] = f]
  BY DEF Change
<1>6. /\ level' \in [Processes -> Contents]
      /\ \A q \in Processes : Leveled(level'[q]) /\ Conditioned(level'[q])
  <2> HIDE DEF f
  <2> QED  BY <1>1, <1>3, <1>4, <1>5, LevelType
<1> QED  BY <1>6 DEF Change, TypeOK, history

LEMMA TypeNext == TypeOK /\ [Next]_vars => TypeOK'
<1> SUFFICES ASSUME TypeOK, [Next]_vars PROVE TypeOK'
  OBVIOUS
<1>1. ASSUME NEW p \in Processes, Begin(p) PROVE TypeOK'
  <2>1. /\ level' \in [Processes -> Contents]
        /\ \A q \in Processes : Leveled(level'[q]) /\ Conditioned(level'[q])
    BY <1>1, FreshType, LevelType DEF Begin
  <2>2. restored' \in BOOLEAN
    BY <1>1 DEF Begin, TypeOK
  <2> QED  BY <1>1, <2>1, <2>2 DEF Begin, Goto, TypeOK, history
<1>2. ASSUME NEW p \in Processes, Restore(p) PROVE TypeOK'
  <2>1. ReadFile(p)
    BY <1>2 DEF Restore
  <2> QED  BY <1>2, <2>1, ReadType DEF Restore, ReadFile, Goto, TypeOK
<1>3. ASSUME NEW p \in Processes, Truncate(p) PROVE TypeOK'
  <2>1. sound' \in BOOLEAN
    BY <1>3 DEF Truncate, TypeOK
  <2> QED  BY <1>3, <2>1, FileKinds DEF Truncate, Goto, TypeOK
<1>4. ASSUME NEW p \in Processes, Write(p) PROVE TypeOK'
  <2>1. level[p] \in Contents /\ Leveled(level[p])
    BY DEF TypeOK
  <2>2. /\ file' \in Contents \cup {Torn}
        /\ file' \in Contents =>
              /\ Leveled(file')
              /\ \A b \in Blinds : file'[b] \in {"open", "closed", "stopped"}
    BY <1>4, <2>1, StoredType, FileKinds DEF Write, Written
  <2>3. odd' \in BOOLEAN
    BY <1>4 DEF Write, TypeOK
  <2> QED  BY <1>4, <2>2, <2>3 DEF Write, Goto, TypeOK
<1>5. ASSUME NEW p \in Processes, RestoreAgain(p) PROVE TypeOK'
  <2>1. ReadFile(p)
    BY <1>5 DEF RestoreAgain
  <2> QED  BY <1>5, <2>1, ReadType DEF RestoreAgain, ReadFile, Goto, TypeOK
<1>6. ASSUME NEW p \in Processes, Stop(p) PROVE TypeOK'
  BY <1>6 DEF Stop, Goto, TypeOK, history
<1>7. CASE Save
  <2>1. "engine" \in Processes
    BY DEF Processes
  <2>2. level["engine"] \in Contents /\ Leveled(level["engine"])
        /\ Conditioned(level["engine"])
    BY <2>1 DEF TypeOK
  <2>3. /\ file' \in Contents \cup {Torn}
        /\ file' \in Contents =>
              /\ Leveled(file')
              /\ \A b \in Blinds : file'[b] \in {"open", "closed", "stopped"}
    BY <1>7, <2>2, StoredType, FileKinds DEF Save, Written
  <2>4. saved' \in Contents /\ Leveled(saved') /\ Conditioned(saved')
    BY <1>7, <2>2 DEF Save, TypeOK, history
  <2>5. sound' \in BOOLEAN /\ odd' \in BOOLEAN /\ restored' \in BOOLEAN
    BY <1>7 DEF Save, TypeOK, history
  <2> QED  BY <1>7, <2>3, <2>4, <2>5 DEF Save, Goto, TypeOK
<1>8. ASSUME NEW s \in Switches, NEW v \in Levels, Change(s, v) PROVE TypeOK'
  <2>1. s \in Devices /\ s \notin Blinds /\ v \in Values
    BY StoreAssumption DEF Devices, Values
  <2> QED  BY <1>8, <2>1, ChangeType
<1>9. ASSUME NEW b \in Blinds, NEW c \in Conditions, Change(b, c) PROVE TypeOK'
  <2>1. b \in Devices /\ b \notin Switches /\ c \in Values
    BY StoreAssumption DEF Devices, Values
  <2> QED  BY <1>9, <2>1, ChangeType
<1>10. CASE UNCHANGED vars
  BY <1>10 DEF vars, history, TypeOK
<1> QED  BY <1>1, <1>2, <1>3, <1>4, <1>5, <1>6, <1>7, <1>8, <1>9, <1>10 DEF Next

(* The file and the memory of both processes hold levels and conditions of *)
(* the devices' kinds.                                                     *)
THEOREM StoreTypes == Spec => []TypeOK
  BY TypeInit, TypeNext, PTL DEF Spec

-----------------------------------------------------------------------------
(* What a start makes of a sound file: the switches as saved, and a blind  *)
(* saved at an end as such or the other way round, by the parity of the    *)
(* starts since.  A start that has read the file holds that in its memory  *)
(* until it is through.                                                    *)
Match(f) ==
    /\ \A s \in Switches : f[s] = saved[s]
    /\ \A b \in Blinds :
          /\ f[b] \in {"UP", "DOWN"}
          /\ saved[b] \in {"UP", "DOWN"} => (f[b] = saved[b] <=> odd)

InHand ==
    \/ pc["engine"] \in {"truncate", "write"}
    \/ pc["engine"] \in {"up", "save"} /\ restored

StoreInv ==
    /\ TypeOK
    /\ sound => pc["test"] \in {"down", "restore", "truncate"}
    /\ sound /\ file \in Contents => Match(RestoredOf(file))
    /\ sound /\ InHand => Match(level["engine"])

LEMMA Engines == "engine" \in Processes /\ "test" \in Processes /\ "engine" # "test"
  BY DEF Processes

(* Stored and restored once, a blind at an end is turned around.           *)
LEMMA RoundTrip ==
    ASSUME NEW f \in Contents
    PROVE  /\ \A s \in Switches : RestoredOf(StoredOf(f))[s] = f[s]
           /\ \A b \in Blinds :
                 RestoredOf(StoredOf(f))[b] = IF f[b] = "DOWN" THEN "UP" ELSE "DOWN"
<1>1. \A s \in Switches : s \in Devices /\ s \notin Blinds
  BY StoreAssumption DEF Devices
<1>2. \A b \in Blinds : b \in Devices
  BY DEF Devices
<1> QED  BY <1>1, <1>2 DEF StoredOf, RestoredOf, StoredBlind, RestoredBlind

LEMMA InvInit == Init => StoreInv
  BY TypeInit DEF Init, StoreInv

LEMMA ReadInv ==
    ASSUME StoreInv, TypeOK', NEW p \in Processes, ReadFile(p),
           pc' \in [Processes -> {"down", "restore", "truncate", "write", "again",
                                 "up", "save"}],
           \A q \in Processes \ {p} : pc'[q] = pc[q],
           pc'["test"] \in {"down", "truncate"} \/ p # "test"
    PROVE  StoreInv'
<1>1. UNCHANGED <<file, saved, odd, restored>> /\ (sound' => sound /\ file \in Contents)
  BY DEF ReadFile, StoreInv, TypeOK
<1>2. (sound => pc["test"] \in {"down", "restore", "truncate"})'
  BY <1>1, Engines DEF StoreInv
<1>3. (sound /\ file \in Contents => Match(RestoredOf(file)))'
  BY <1>1 DEF StoreInv, Match, RestoredOf
<1>4. ASSUME sound', InHand' PROVE Match(level["engine"])'
  <2>1. sound /\ file \in Contents /\ Match(RestoredOf(file))
    BY <1>1, <1>4 DEF StoreInv
  <2>2. CASE p = "engine"
    <3>1. level'["engine"] = RestoredOf(file)
      BY <2>1, <2>2 DEF ReadFile, StoreInv, TypeOK
    <3> QED  BY <1>1, <2>1, <3>1 DEF Match
  <2>3. CASE p # "engine"
    <3>1. level'["engine"] = level["engine"] /\ pc'["engine"] = pc["engine"]
      BY <2>3, Engines DEF ReadFile, StoreInv, TypeOK
    <3>2. InHand
      BY <1>1, <1>4, <3>1 DEF InHand
    <3> QED  BY <1>1, <2>1, <3>1, <3>2 DEF Match, StoreInv
  <2> QED  BY <2>2, <2>3
<1> QED  BY <1>2, <1>3, <1>4 DEF StoreInv

LEMMA InvNext == StoreInv /\ [Next]_vars => StoreInv'
<1> SUFFICES ASSUME StoreInv, [Next]_vars PROVE StoreInv'
  OBVIOUS
<1>0. TypeOK /\ TypeOK'
  BY TypeNext DEF StoreInv
<1>1. ASSUME NEW p \in Processes, Begin(p) PROVE StoreInv'
  <2>1. /\ UNCHANGED <<file, saved, sound, odd>>
        /\ pc' = [pc EXCEPT ![p] = "restore"]
    BY <1>1 DEF Begin, Goto, history
  <2>2. (sound => pc["test"] \in {"down", "restore", "truncate"})'
    BY <1>0, <2>1, Engines DEF StoreInv, TypeOK
  <2>3. (sound /\ file \in Contents => Match(RestoredOf(file)))'
    BY <2>1 DEF StoreInv, Match, RestoredOf
  <2>4. ASSUME sound', InHand' PROVE Match(level["engine"])'
    <3>1. p # "engine"
      BY <1>0, <2>1, <2>4 DEF InHand, TypeOK
    <3>2. level'["engine"] = level["engine"] /\ pc'["engine"] = pc["engine"]
      BY <1>0, <1>1, <2>1, <3>1, Engines DEF Begin, TypeOK
    <3>3. restored' = restored
      BY <1>0, <1>1, <3>1 DEF Begin, TypeOK
    <3> QED  BY <2>1, <2>4, <3>2, <3>3 DEF InHand, Match, StoreInv
  <2> QED  BY <1>0, <2>2, <2>3, <2>4 DEF StoreInv
<1>2. ASSUME NEW p \in Processes, Restore(p) PROVE StoreInv'
  <2>1. ReadFile(p) /\ pc' = [pc EXCEPT ![p] = "truncate"]
    BY <1>2 DEF Restore, Goto
  <2>2. /\ pc'[p] = "truncate"
        /\ \A q \in Processes \ {p} : pc'[q] = pc[q]
    BY <1>0, <2>1 DEF TypeOK
  <2> QED  BY <1>0, <2>1, <2>2, ReadInv, Engines DEF TypeOK
<1>3. ASSUME NEW p \in Processes, Truncate(p) PROVE StoreInv'
  <2>1. /\ file' = Torn /\ UNCHANGED <<level, saved, odd, restored>>
        /\ pc[p] \in {"truncate", "up"}
        /\ pc' = [pc EXCEPT ![p] = IF pc[p] = "up" THEN "save" ELSE "write"]
    BY <1>3 DEF Truncate, Goto
  <2>2. sound' => sound /\ p = "engine"
    BY <1>0, <1>3 DEF Truncate, TypeOK
  <2>3. (sound => pc["test"] \in {"down", "restore", "truncate"})'
    BY <1>0, <2>1, <2>2, Engines DEF StoreInv, TypeOK
  <2>4. ASSUME sound', InHand' PROVE Match(level["engine"])'
    <3>1. p = "engine" /\ sound
      BY <2>2, <2>4
    <3>2. InHand
      BY <1>0, <2>1, <2>4, <3>1 DEF InHand, TypeOK
    <3> QED  BY <2>1, <3>1, <3>2 DEF Match, StoreInv
  <2> QED  BY <1>0, <2>1, <2>3, <2>4, FileKinds DEF StoreInv
<1>4. ASSUME NEW p \in Processes, Write(p) PROVE StoreInv'
  <2>1. /\ pc[p] = "write" /\ pc' = [pc EXCEPT ![p] = "again"]
        /\ UNCHANGED <<level, saved, sound, restored>>
        /\ file' = StoredOf(level[p]) \/ file' = Torn
    BY <1>4 DEF Write, Goto, Written
  <2>2. sound => p = "engine"
    BY <2>1 DEF StoreInv, Processes
  <2>3. (sound => pc["test"] \in {"down", "restore", "truncate"})'
    BY <1>0, <2>1, <2>2, Engines DEF StoreInv, TypeOK
  <2>4. ASSUME sound' PROVE ~InHand'
    <3>1. pc'["engine"] = "again"
      BY <1>0, <2>1, <2>2, <2>4 DEF TypeOK
    <3> QED  BY <3>1 DEF InHand
  <2>5. ASSUME sound', file' \in Contents PROVE Match(RestoredOf(file))'
    <3>1. p = "engine" /\ file' = StoredOf(level["engine"])
      BY <2>1, <2>2, <2>5, FileKinds
    <3>2. Match(level["engine"])
      BY <2>1, <2>5, <3>1 DEF InHand, StoreInv
    <3>3. level["engine"] \in Contents
      BY <1>0, Engines DEF TypeOK
    <3>4. odd' = ~odd
      BY <1>4, <3>1 DEF Write
    <3>5. /\ \A s \in Switches : RestoredOf(file')[s] = level["engine"][s]
          /\ \A b \in Blinds : RestoredOf(file')[b] =
                 IF level["engine"][b] = "DOWN" THEN "UP" ELSE "DOWN"
      BY <3>1, <3>3, RoundTrip
    <3>6. \A s \in Switches : RestoredOf(file')[s] = saved'[s]
      BY <2>1, <3>2, <3>5 DEF Match
    <3>7. ASSUME NEW b \in Blinds
          PROVE  /\ RestoredOf(file')[b] \in {"UP", "DOWN"}
                 /\ saved'[b] \in {"UP", "DOWN"} =>
                        (RestoredOf(file')[b] = saved'[b] <=> odd')
      <4>1. level["engine"][b] \in {"UP", "DOWN"}
            /\ (saved[b] \in {"UP", "DOWN"} => (level["engine"][b] = saved[b] <=> odd))
        BY <3>2 DEF Match
      <4>2. saved[b] \in {"UP", "DOWN"} =>
                (RestoredOf(file')[b] = saved[b] <=> level["engine"][b] # saved[b])
        BY <3>5, <4>1
      <4> QED  BY <2>1, <3>4, <3>5, <4>1, <4>2
    <3> QED  BY <3>6, <3>7 DEF Match, RestoredOf
  <2> QED  BY <1>0, <2>3, <2>4, <2>5 DEF StoreInv
<1>5. ASSUME NEW p \in Processes, RestoreAgain(p) PROVE StoreInv'
  <2>1. ReadFile(p) /\ pc' = [pc EXCEPT ![p] = IF p = "engine" THEN "up" ELSE "down"]
    BY <1>5 DEF RestoreAgain, Goto
  <2>2. /\ p = "test" => pc'[p] = "down"
        /\ \A q \in Processes \ {p} : pc'[q] = pc[q]
    BY <1>0, <2>1, Engines DEF TypeOK
  <2> QED  BY <1>0, <2>1, <2>2, ReadInv, Engines DEF TypeOK
<1>6. ASSUME NEW p \in Processes, Stop(p) PROVE StoreInv'
  <2>1. /\ UNCHANGED <<level, file, restored, saved, sound, odd>>
        /\ pc' = [pc EXCEPT ![p] = "down"]
    BY <1>6 DEF Stop, Goto, history
  <2>2. (sound => pc["test"] \in {"down", "restore", "truncate"})'
    BY <1>0, <2>1, Engines DEF StoreInv, TypeOK
  <2>3. (sound /\ file \in Contents => Match(RestoredOf(file)))'
    BY <2>1 DEF StoreInv, Match, RestoredOf
  <2>4. InHand' => InHand
    BY <1>0, <2>1, Engines DEF InHand, TypeOK
  <2>5. (sound /\ InHand => Match(level["engine"]))'
    BY <2>1, <2>4 DEF StoreInv, Match
  <2> QED  BY <1>0, <2>2, <2>3, <2>5 DEF StoreInv
<1>7. CASE Save
  <2>1. pc' = [pc EXCEPT !["engine"] = "up"] /\ restored' = FALSE /\ level' = level
    BY <1>7 DEF Save, Goto
  <2>2. ~InHand'
    BY <1>0, <2>1, Engines DEF InHand, TypeOK
  <2>3. CASE file' = Torn /\ UNCHANGED history
    BY <1>0, <2>1, <2>2, <2>3, FileKinds, Engines DEF history, StoreInv, TypeOK
  <2>4. CASE /\ file' = StoredOf(level["engine"]) /\ saved' = level["engine"]
             /\ sound' = (pc["test"] = "down") /\ odd' = FALSE
    <3>1. (sound => pc["test"] \in {"down", "restore", "truncate"})'
      BY <1>0, <2>1, <2>4, Engines DEF TypeOK
    <3>2. level["engine"] \in Contents
      BY <1>0, Engines DEF TypeOK
    <3>3. /\ \A s \in Switches : RestoredOf(file')[s] = saved'[s]
          /\ \A b \in Blinds : RestoredOf(file')[b] =
                 IF saved'[b] = "DOWN" THEN "UP" ELSE "DOWN"
      BY <2>4, <3>2, RoundTrip
    <3>4. Match(RestoredOf(file))'
      BY <2>4, <3>3 DEF Match, RestoredOf
    <3> QED  BY <1>0, <2>2, <3>1, <3>4 DEF StoreInv
  <2> QED  BY <1>7, <2>3, <2>4 DEF Save, Written
<1>8. ASSUME NEW d, NEW v, Change(d, v) PROVE StoreInv'
  <2>1. /\ UNCHANGED <<pc, file, saved, sound, odd>>
        /\ pc["engine"] = "up" /\ restored' = FALSE
    BY <1>8 DEF Change, history
  <2>2. ~InHand'
    BY <2>1 DEF InHand
  <2>3. (sound /\ file \in Contents => Match(RestoredOf(file)))'
    BY <2>1 DEF StoreInv, Match, RestoredOf
  <2> QED  BY <1>0, <2>1, <2>2, <2>3 DEF StoreInv
<1>9. CASE UNCHANGED vars
  BY <1>0, <1>9 DEF vars, history, StoreInv, InHand, Match, RestoredOf
<1> QED  BY <1>1, <1>2, <1>3, <1>4, <1>5, <1>6, <1>7, <1>8, <1>9 DEF Next

LEMMA StoreSafe == Spec => []StoreInv
  BY InvInit, InvNext, PTL DEF Spec

(* For any switches and any sequence of starts, stops and saves, a start   *)
(* from a sound file gives every switch the level that was last saved.     *)
THEOREM SwitchesKept == Spec => []SwitchesSurvive
<1>1. StoreInv => SwitchesSurvive
  BY DEF StoreInv, InHand, Match, Started, SwitchesSurvive
<1> QED  BY <1>1, StoreSafe, PTL

(* And every blind the end it was saved at, exactly when the starts since  *)
(* have written the file an odd number of times.                           *)
THEOREM BlindsByParity == Spec => []BlindsSurvive
<1>1. StoreInv => BlindsSurvive
  BY DEF StoreInv, InHand, Match, Started, BlindsSurvive
<1> QED  BY <1>1, StoreSafe, PTL
=============================================================================
