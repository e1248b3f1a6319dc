--------------------------- MODULE StartupProofs ----------------------------
(***************************************************************************)
(* Proofs about the start of the engine, for any rule directory: both      *)
(* passes, with their statics, make of the files exactly the devices and   *)
(* the rules that the text, read as a whole, spells out, a schedule has    *)
(* its condition when its block is ended, and the engine runs, or a test   *)
(* of the configuration succeeds, for exactly the sound directories.       *)
(***************************************************************************)
EXTENDS Startup, FiniteSetTheorems, WellFoundedInduction, TLAPS

(* How far a pass has come: the places before its position.                *)
Passed(w) == {v \in Places : Before(v, w)}
Done == Passed(<<file, pos>>)

(* Nothing in P ends the block of v, and no other rule begins after v.     *)
Open(v, P) == ~Blank(After(v, P))
InForce(v, P) == \A u \in After(v, P) : LineAt(u).st # "IF"

(* What the first pass lets through, and what it has made of P.            *)
FirstSound(w) ==
    \/ LineAt(w).st = "NONE"
    \/ Scheduled(w) /\ LineAt(w).st = "ENTRY"
    \/ ~Scheduled(w) /\ LineAt(w).st = "DECLARE" /\ LineAt(w).word \in types
    \/ ~Scheduled(w) /\ LineAt(w).st \in {"IF", "AND", "DO"}

DeviceRead(d, w, P) ==
    /\ devices[d].name = LineAt(w).name
    /\ devices[d].type = LineAt(w).word
    /\ IsFiniteSet(Entries(w, P))
    /\ devices[d].entries = Cardinality(Entries(w, P))
    /\ LineAt(w).word = "SCHEDULE" => (d \in finished <=> ~Open(w, P))
    /\ schedule = d <=> LineAt(w).word = "SCHEDULE" /\ Open(w, P)

DevicesRead(P) ==
    \E at \in Enumerations(Len(devices), Declarations(P)) :
        \A d \in 1 .. Len(devices) : DeviceRead(d, at[d], P)

FirstPass(P) == DevicesRead(P) /\ \A w \in P : FirstSound(w)

(* What the second pass has made of P.                                     *)
RuleRead(r, w, P) ==
    /\ Means(rules[r].on, w)
    /\ Refers(rules[r].conditions, Body(w, "AND", P))
    /\ Refers(rules[r].actions, Body(w, "DO", P))
    /\ rule = r <=> Open(w, P) /\ InForce(w, P)

RulesRead(P) ==
    \E at \in Enumerations(Len(rules), RuleHeads(P)) :
        \A r \in 1 .. Len(rules) : RuleRead(r, at[r], P)

Skips(P) == skipping <=> \E v \in P : OpensSchedule(v) /\ Open(v, P)

SecondPass(P) == RulesRead(P) /\ Skips(P) /\ \A w \in P : Sound(w)

(* Where a pass is: in a rule file it could open, behind others like it.   *)
Readable(n) == \A f \in DOMAIN dir : f < n /\ dir[f].rules => dir[f].readable

InFile ==
    pos > 0 => /\ file \in DOMAIN dir /\ dir[file].rules /\ dir[file].readable
               /\ pos <= Len(dir[file].lines) + 1

Complete == Readable(Len(dir) + 1) /\ \E f \in DOMAIN dir : dir[f].rules

Loaded == Complete /\ FirstPass(Places) /\ SecondPass(Places)

LoadInv ==
    /\ TypeOK
    /\ InFile
    /\ phase \in {"technologies", "declarations"} =>
          /\ Readable(file) /\ FirstPass(Done)
          /\ rules = <<>> /\ rule = 0 /\ ~skipping
    /\ phase = "technologies" => file = 1 /\ pos = 0
    /\ phase = "rules" => Complete /\ FirstPass(Places) /\ SecondPass(Done)
    /\ phase \in {"restore", "running"} => Loaded
    /\ phase = "running" => ~testing
    /\ rv = 0 => phase = "stopped"
    /\ phase = "stopped" => IF rv = 0 THEN Loaded ELSE ~Accepted

-----------------------------------------------------------------------------
(* The text.  A place is a rule file and one of its lines.                 *)
LEMMA PlaceOf ==
    ASSUME TypeOK, NEW w \in Places
    PROVE  /\ w = <<w[1], w[2]>> /\ w[1] \in Nat /\ w[2] \in Nat \ {0}
           /\ w[1] \in DOMAIN dir /\ dir[w[1]].rules
           /\ w[2] \in 1 .. Len(dir[w[1]].lines)
           /\ LineAt(w) \in LineRecords
<1>1. PICK f \in DOMAIN dir : dir[f].rules /\ w \in {f} \X DOMAIN dir[f].lines
  BY DEF Places
<1>2. dir[f] \in FileRecords /\ f \in Nat
  BY DEF TypeOK
<1>3. dir[f].lines \in Seq(LineRecords)
  BY <1>2 DEF FileRecords
<1>4. DOMAIN dir[f].lines = 1 .. Len(dir[f].lines) /\ Len(dir[f].lines) \in Nat
  BY <1>3
<1>5. w = <<f, w[2]>> /\ w[1] = f /\ w[2] \in 1 .. Len(dir[f].lines)
  BY <1>1, <1>4
<1>6. dir[f].lines[w[2]] \in LineRecords
  BY <1>3, <1>5
<1> QED  BY <1>1, <1>2, <1>4, <1>5, <1>6 DEF LineAt

LEMMA InPlaces ==
    ASSUME TypeOK, NEW f \in DOMAIN dir, dir[f].rules,
           NEW l \in 1 .. Len(dir[f].lines)
    PROVE  <<f, l>> \in Places
<1>1. dir[f] \in FileRecords
  BY DEF TypeOK
<1>2. dir[f].lines \in Seq(LineRecords)
  BY <1>1 DEF FileRecords
<1>3. l \in DOMAIN dir[f].lines
  BY <1>2
<1> QED  BY <1>3 DEF Places

LEMMA InOrder ==
    ASSUME TypeOK, NEW u \in Places, NEW v \in Places, NEW w \in Places
    PROVE  /\ ~Before(w, w)
           /\ Before(u, v) /\ Before(v, w) => Before(u, w)
           /\ u = v \/ Before(u, v) \/ Before(v, u)
           /\ Before(u, v) => ~Before(v, u)
<1>1. /\ u = <<u[1], u[2]>> /\ u[1] \in Nat /\ u[2] \in Nat
      /\ v = <<v[1], v[2]>> /\ v[1] \in Nat /\ v[2] \in Nat
      /\ w[1] \in Nat /\ w[2] \in Nat
  BY PlaceOf
<1> QED  BY <1>1 DEF Before

(* What one more line adds to the places passed.                           *)
LEMMA OneMore ==
    ASSUME TypeOK, NEW w \in Places
    PROVE  /\ UpTo(w) = Passed(w) \cup {w} /\ w \notin Passed(w)
           /\ Passed(w) \subseteq Places /\ \A v \in Passed(w) : Before(v, w)
           /\ After(w, UpTo(w)) = {}
           /\ \A v \in Passed(w) : After(v, UpTo(w)) = After(v, Passed(w)) \cup {w}
<1>1. UpTo(w) = Passed(w) \cup {w} /\ w \notin Passed(w)
  BY InOrder DEF UpTo, Passed
<1>2. Passed(w) \subseteq Places /\ \A v \in Passed(w) : Before(v, w)
  BY DEF Passed
<1>3. After(w, UpTo(w)) = {}
  BY <1>1, <1>2, InOrder DEF After
<1>4. \A v \in Passed(w) : After(v, UpTo(w)) = After(v, Passed(w)) \cup {w}
  BY <1>1, <1>2 DEF After
<1> QED  BY <1>1, <1>2, <1>3, <1>4

LEMMA BlockGrows ==
    ASSUME TypeOK, NEW w \in Places
    PROVE  /\ Open(w, UpTo(w)) /\ InForce(w, UpTo(w))
           /\ \A v \in Passed(w) :
                 /\ Open(v, UpTo(w)) <=> Open(v, Passed(w)) /\ LineAt(w).st # "NONE"
                 /\ InForce(v, UpTo(w)) <=> InForce(v, Passed(w)) /\ LineAt(w).st # "IF"
           /\ \A v \in Places : SameBlock(v, w) <=> v \in Passed(w) /\ Open(v, UpTo(w))
<1>1. Open(w, UpTo(w)) /\ InForce(w, UpTo(w))
  BY OneMore DEF Open, InForce, Blank
<1>2. ASSUME NEW v \in Passed(w)
      PROVE  /\ Open(v, UpTo(w)) <=> Open(v, Passed(w)) /\ LineAt(w).st # "NONE"
             /\ InForce(v, UpTo(w)) <=> InForce(v, Passed(w)) /\ LineAt(w).st # "IF"
  BY OneMore DEF Open, InForce, Blank
<1>3. \A v \in Places : SameBlock(v, w) <=> v \in Passed(w) /\ Open(v, UpTo(w))
  BY DEF SameBlock, Open, Passed
<1> QED  BY <1>1, <1>2, <1>3

(* The text does not change, and with it nothing that is read off it.      *)
LEMMA SameText ==
    ASSUME dir' = dir
    PROVE  /\ Places' = Places
           /\ \A w : /\ LineAt(w)' = LineAt(w) /\ Passed(w)' = Passed(w)
                     /\ UpTo(w)' = UpTo(w)
                     /\ OpensSchedule(w)' <=> OpensSchedule(w)
                     /\ Scheduled(w)' <=> Scheduled(w)
           /\ \A v, P : /\ Open(v, P)' <=> Open(v, P)
                        /\ InForce(v, P)' <=> InForce(v, P)
                        /\ Entries(v, P)' = Entries(v, P)
           /\ \A v, st, P : Body(v, st, P)' = Body(v, st, P)
           /\ \A P : /\ Declarations(P)' = Declarations(P)
                     /\ RuleHeads(P)' = RuleHeads(P)
<1>1. Places' = Places
  BY DEF Places
<1>2. \A w : LineAt(w)' = LineAt(w)
  BY DEF LineAt
<1>3. \A w : Passed(w)' = Passed(w) /\ UpTo(w)' = UpTo(w)
  BY <1>1 DEF Passed, UpTo
<1>4. \A w : OpensSchedule(w)' <=> OpensSchedule(w)
  BY <1>2 DEF OpensSchedule
<1>5. \A P : Blank(P)' <=> Blank(P)
  BY <1>2 DEF Blank
<1>6. \A v, w : SameBlock(v, w)' <=> SameBlock(v, w)
  BY <1>3, <1>5 DEF SameBlock
<1>7. \A w : Scheduled(w)' <=> Scheduled(w)
  BY <1>1, <1>4, <1>6 DEF Scheduled
<1>8. \A v, P : (Open(v, P)' <=> Open(v, P)) /\ (InForce(v, P)' <=> InForce(v, P))
  BY <1>2, <1>5 DEF Open, InForce
<1>9. \A v, P : Entries(v, P)' = Entries(v, P)
  BY <1>2, <1>6 DEF Entries
<1>10. \A v, st, P : Body(v, st, P)' = Body(v, st, P)
  BY <1>2, <1>3, <1>6 DEF Body
<1>11. \A P : Declarations(P)' = Declarations(P) /\ RuleHeads(P)' = RuleHeads(P)
  BY <1>2, <1>7 DEF Declarations, RuleHeads
<1> QED  BY <1>1, <1>2, <1>3, <1>4, <1>7, <1>8, <1>9, <1>10, <1>11

-----------------------------------------------------------------------------
(* Numbering places in the order of the text: a later one is the next.     *)
Then(n, at, w) == [i \in 1 .. n + 1 |-> IF i <= n THEN at[i] ELSE w]

LEMMA NumberNext ==
    ASSUME NEW n \in Nat, NEW S, NEW at \in Enumerations(n, S),
           NEW w, \A v \in S : Before(v, w)
    PROVE  Then(n, at, w) \in Enumerations(n + 1, S \cup {w})
<1> DEFINE next == Then(n, at, w)
<1>1. /\ at \in [1 .. n -> S]
      /\ \A i, j \in 1 .. n : i < j => Before(at[i], at[j])
      /\ \A v \in S : \E i \in 1 .. n : at[i] = v
  BY DEF Enumerations
<1>2. /\ \A i \in 1 .. n : next[i] = at[i]
      /\ next[n + 1] = w
      /\ next \in [1 .. n + 1 -> S \cup {w}]
  BY <1>1 DEF Then
<1>3. ASSUME NEW i \in 1 .. n + 1, NEW j \in 1 .. n + 1, i < j
      PROVE  Before(next[i], next[j])
  <2>1. i \in 1 .. n /\ (j \in 1 .. n \/ j = n + 1)
    BY <1>3
  <2>2. at[i] \in S
    BY <1>1, <2>1
  <2> HIDE DEF next
  <2> QED  BY <1>1, <1>2, <1>3, <2>1, <2>2
<1>4. ASSUME NEW v \in S \cup {w} PROVE \E i \in 1 .. n + 1 : next[i] = v
  <2>1. CASE v = w
    BY <1>2, <2>1
  <2>2. CASE v \in S
    <3>1. PICK i \in 1 .. n : at[i] = v
      BY <1>1, <2>2
    <3>2. i \in 1 .. n + 1
      OBVIOUS
    <3> HIDE DEF next
    <3> QED  BY <1>2, <3>1, <3>2
  <2> QED  BY <2>1, <2>2
<1> HIDE DEF next
<1> QED  BY <1>2, <1>3, <1>4 DEF Enumerations, next

LEMMA NumberNone == ASSUME NEW at \in [1 .. 0 -> {}] PROVE at \in Enumerations(0, {})
  BY DEF Enumerations

LEMMA NoneNumbered == Enumerations(0, {}) # {}
<1>1. [i \in 1 .. 0 |-> i] \in [1 .. 0 -> {}]
  OBVIOUS
<1> QED  BY <1>1, NumberNone

(* The rule's references, one more of them.                                *)
LEMMA ReferAlso ==
    ASSUME NEW references \in Seq(References), NEW reference \in References,
           NEW S, NEW w, \A v \in S : Before(v, w),
           Refers(references, S), Means(reference, w)
    PROVE  Refers(Append(references, reference), S \cup {w})
<1> DEFINE n == Len(references)  more == Append(references, reference)
<1>1. PICK at \in Enumerations(n, S) : \A k \in 1 .. n : Means(references[k], at[k])
  BY DEF Refers
<1>2. n \in Nat /\ Len(more) = n + 1 /\ more[n + 1] = reference
      /\ \A k \in 1 .. n : more[k] = references[k]
  OBVIOUS
<1> HIDE DEF n, more
<1>3. Then(n, at, w) \in Enumerations(n + 1, S \cup {w})
  BY <1>2, NumberNext
<1>4. Then(n, at, w)[n + 1] = w /\ \A k \in 1 .. n : Then(n, at, w)[k] = at[k]
  BY <1>2 DEF Then
<1>5. ASSUME NEW k \in 1 .. n + 1 PROVE Means(more[k], Then(n, at, w)[k])
  <2>1. k \in 1 .. n \/ k = n + 1
    BY <1>2
  <2> QED  BY <1>1, <1>2, <1>4, <2>1
<1> QED  BY <1>2, <1>3, <1>5 DEF Refers, more

LEMMA ReferNone == Refers(<<>>, {})
<1>1. PICK at : at \in Enumerations(0, {})
  BY NoneNumbered
<1>2. Len(<<>>) = 0
  OBVIOUS
<1> QED  BY <1>1, <1>2 DEF Refers

(* A set of numbers has a smallest one.                                    *)
LEMMA Smallest ==
    ASSUME NEW T \in SUBSET Nat, T # {}
    PROVE  Min(T) \in T /\ \A m \in T : Min(T) <= m
<1> DEFINE Below == {p \in Nat \X Nat : p[1] < p[2]}
<1>1. IsWellFoundedOn(Below, Nat)
  BY Zenon, NatLessThanWellFounded DEF OpToRel
<1>2. PICK n \in T : \A m \in T : ~(<<m, n>> \in Below)
  <2> HIDE DEF Below
  <2> QED  BY <1>1, WFMin
<1>3. ASSUME NEW m \in T PROVE n <= m
  <2>1. m \in Nat /\ n \in Nat /\ <<m, n>> \in Nat \X Nat
    BY SMT
  <2>2. m < n => <<m, n>> \in Below
    BY <2>1, SMT
  <2> QED  BY <1>2, <2>1, <2>2, SMT
<1> QED  BY <1>3 DEF Min

(* device_list_find_by_name finds the first device of the name, if any.    *)
LEMMA FindFirst ==
    ASSUME TypeOK, NEW name
    PROVE  /\ FindByName(name) = 0 =>
                 \A d \in 1 .. Len(devices) : devices[d].name # name
           /\ FindByName(name) # 0 =>
                 /\ FindByName(name) \in 1 .. Len(devices)
                 /\ devices[FindByName(name)].name = name
                 /\ \A d \in 1 .. FindByName(name) - 1 : devices[d].name # name
<1> DEFINE Of == {d \in 1 .. Len(devices) : devices[d].name = name}
           found == FindByName(name)
<1>1. found = IF Of # {} THEN Min(Of) ELSE 0
  BY DEF FindByName, SelectInSeq
<1>2. Len(devices) \in Nat
  BY DEF TypeOK
<1>3. CASE Of = {}
  <2>1. found = 0
    BY <1>1, <1>3
  <2> HIDE DEF found
  <2> QED  BY <1>3, <2>1 DEF found
<1>4. CASE Of # {}
  <2>1. Of \in SUBSET Nat
    BY <1>2
  <2>2. found \in Of /\ \A m \in Of : found <= m
    <3> HIDE DEF Of, found
    <3> QED  BY <1>1, <1>4, <2>1, Smallest
  <2>3. found \in 1 .. Len(devices) /\ devices[found].name = name /\ found # 0
    <3> HIDE DEF found
    <3> QED  BY <1>2, <2>2
  <2>4. ASSUME NEW d \in 1 .. found - 1 PROVE devices[d].name # name
    <3> HIDE DEF found
    <3>1. d \in 1 .. Len(devices) /\ ~(found <= d)
      BY <1>2, <2>3
    <3> QED  BY <2>2, <3>1
  <2> QED  BY <2>3, <2>4
<1> QED  BY <1>3, <1>4

-----------------------------------------------------------------------------
(* The first pass.  It is busy with a schedule exactly when the line is in *)
(* the block of one.                                                       *)
LEMMA BusyScheduling ==
    ASSUME TypeOK, NEW w \in Places, FirstPass(Passed(w)), LineAt(w).st # "NONE"
    PROVE  schedule # 0 <=> Scheduled(w)
<1>1. PICK at \in Enumerations(Len(devices), Declarations(Passed(w))) :
             \A d \in 1 .. Len(devices) : DeviceRead(d, at[d], Passed(w))
  BY DEF FirstPass, DevicesRead
<1>2. \A d \in 1 .. Len(devices) : at[d] \in Declarations(Passed(w))
  BY <1>1 DEF Enumerations
<1>3. \A v \in Passed(w) : SameBlock(v, w) <=> Open(v, Passed(w))
  BY OneMore, BlockGrows
<1>4. schedule \in 0 .. Len(devices) /\ Len(devices) \in Nat
  BY DEF TypeOK
<1>5. ASSUME schedule # 0 PROVE Scheduled(w)
  <2>1. schedule \in 1 .. Len(devices)
    BY <1>4, <1>5
  <2>2. /\ LineAt(at[schedule]).word = "SCHEDULE" /\ Open(at[schedule], Passed(w))
        /\ at[schedule] \in Declarations(Passed(w))
    BY <1>1, <1>2, <2>1 DEF DeviceRead
  <2>3. at[schedule] \in Passed(w) /\ at[schedule] \in Places
        /\ OpensSchedule(at[schedule])
    BY <2>2, OneMore DEF Declarations, OpensSchedule
  <2> QED  BY <1>3, <2>2, <2>3 DEF Scheduled
<1>6. ASSUME Scheduled(w) PROVE schedule # 0
  <2>1. PICK v \in Places : SameBlock(v, w) /\ OpensSchedule(v)
    BY <1>6 DEF Scheduled
  <2>2. v \in Passed(w) /\ Open(v, Passed(w))
    BY <1>3, <2>1, BlockGrows
  <2>3. ~Scheduled(v)
    BY <2>1, <2>2 DEF FirstPass, FirstSound, OpensSchedule
  <2>4. v \in Declarations(Passed(w))
    BY <2>1, <2>2, <2>3 DEF Declarations, OpensSchedule
  <2>5. PICK d \in 1 .. Len(devices) : at[d] = v
    BY <1>1, <2>4 DEF Enumerations
  <2>6. schedule = d
    BY <1>1, <2>1, <2>2, <2>5 DEF DeviceRead, OpensSchedule
  <2> QED  BY <1>4, <2>5, <2>6
<1> QED  BY <1>5, <1>6

(* What one more line adds to the declarations, and to a schedule's block. *)
LEMMA DeclarationsGrow ==
    ASSUME TypeOK, NEW w \in Places
    PROVE  Declarations(UpTo(w)) =
              Declarations(Passed(w))
              \cup IF LineAt(w).st = "DECLARE" /\ ~Scheduled(w) THEN {w} ELSE {}
  BY OneMore DEF Declarations

LEMMA EntriesGrow ==
    ASSUME TypeOK, NEW w \in Places, NEW v \in Passed(w)
    PROVE  Entries(v, UpTo(w)) =
              Entries(v, Passed(w))
              \cup IF LineAt(v).word = "SCHEDULE" /\ Open(v, UpTo(w)) THEN {w} ELSE {}
<1>1. v \in Places /\ w \notin Passed(w) /\ UpTo(w) = Passed(w) \cup {w}
  BY OneMore
<1>2. SameBlock(v, w) <=> Open(v, UpTo(w))
  BY <1>1, BlockGrows
<1> QED  BY <1>1, <1>2 DEF Entries

LEMMA NoEntriesYet ==
    ASSUME TypeOK, NEW w \in Places
    PROVE  Entries(w, UpTo(w)) = {}
<1>1. \A v \in UpTo(w) : ~Before(w, v)
  BY OneMore DEF After
<1> QED  BY <1>1 DEF Entries, SameBlock

(* A line that declares nothing leaves every device as it was, but for the *)
(* schedule that is open: an entry is its own, and an end is its end.      *)
LEMMA DevicesStay ==
    ASSUME TypeOK, NEW w \in Places, DevicesRead(Passed(w)), dir' = dir,
           ~(LineAt(w).st = "DECLARE" /\ ~Scheduled(w)),
           Len(devices') = Len(devices),
           \A d \in 1 .. Len(devices), v \in Declarations(Passed(w)) :
              DeviceRead(d, v, Passed(w)) => DeviceRead(d, v, UpTo(w))'
    PROVE  DevicesRead(UpTo(w))'
<1>1. PICK at \in Enumerations(Len(devices), Declarations(Passed(w))) :
             \A d \in 1 .. Len(devices) : DeviceRead(d, at[d], Passed(w))
  BY DEF DevicesRead
<1>2. Declarations(UpTo(w))' = Declarations(Passed(w))
  BY DeclarationsGrow, SameText
<1>3. at \in Enumerations(Len(devices), Declarations(UpTo(w)))'
  BY <1>1, <1>2
<1>4. \A d \in 1 .. Len(devices) : at[d] \in Declarations(Passed(w))
  BY <1>1 DEF Enumerations
<1>5. \A d \in 1 .. Len(devices)' : DeviceRead(d, at[d], UpTo(w))'
  BY <1>1, <1>4
<1> QED  BY <1>3, <1>5 DEF DevicesRead

LEMMA PassReads ==
    ASSUME TypeOK, NEW w \in Places, FirstPass(Passed(w)), dir' = dir,
           LineAt(w).st \in {"IF", "AND", "DO"}, schedule = 0,
           UNCHANGED <<devices, finished, schedule>>
    PROVE  DevicesRead(UpTo(w))'
<1>1. ASSUME NEW d \in 1 .. Len(devices), NEW v \in Declarations(Passed(w)),
             DeviceRead(d, v, Passed(w))
      PROVE  DeviceRead(d, v, UpTo(w))'
  <2>1. v \in Passed(w)
    BY DEF Declarations
  <2>2. Open(v, UpTo(w)) <=> Open(v, Passed(w))
    BY <2>1, BlockGrows
  <2>3. ~(LineAt(v).word = "SCHEDULE" /\ Open(v, Passed(w)))
    BY <1>1 DEF DeviceRead
  <2>4. Entries(v, UpTo(w)) = Entries(v, Passed(w))
    BY <2>1, <2>2, <2>3, EntriesGrow
  <2> QED  BY <1>1, <2>2, <2>4, SameText DEF DeviceRead
<1> QED  BY <1>1, DevicesStay DEF FirstPass

LEMMA FinishReads ==
    ASSUME TypeOK, NEW w \in Places, FirstPass(Passed(w)), dir' = dir,
           LineAt(w).st = "NONE", devices' = devices,
           finished' = finished \cup ({schedule} \ {0}), schedule' = 0
    PROVE  DevicesRead(UpTo(w))'
<1>1. ASSUME NEW d \in 1 .. Len(devices), NEW v \in Declarations(Passed(w)),
             DeviceRead(d, v, Passed(w))
      PROVE  DeviceRead(d, v, UpTo(w))'
  <2>1. v \in Passed(w)
    BY DEF Declarations
  <2>2. ~Open(v, UpTo(w))
    BY <2>1, BlockGrows
  <2>3. Entries(v, UpTo(w)) = Entries(v, Passed(w))
    BY <2>1, <2>2, EntriesGrow
  <2>4. LineAt(v).word = "SCHEDULE" => d \in finished'
    BY <1>1 DEF DeviceRead
  <2>5. schedule' # d
    OBVIOUS
  <2> QED  BY <1>1, <2>2, <2>3, <2>4, <2>5, SameText DEF DeviceRead
<1> QED  BY <1>1, DevicesStay DEF FirstPass

LEMMA EntryReads ==
    ASSUME TypeOK, NEW w \in Places, FirstPass(Passed(w)), dir' = dir,
           LineAt(w).st = "ENTRY", schedule # 0,
           devices' = [devices EXCEPT ![schedule].entries = @ + 1],
           UNCHANGED <<finished, schedule>>
    PROVE  DevicesRead(UpTo(w))'
<1>1. devices \in Seq(DeviceRecords) /\ schedule \in 1 .. Len(devices)
  BY DEF TypeOK
<1>2. devices' \in Seq(DeviceRecords) /\ Len(devices') = Len(devices)
      /\ \A d \in 1 .. Len(devices) :
            /\ devices'[d].name = devices[d].name /\ devices'[d].type = devices[d].type
            /\ devices'[d].entries = IF d = schedule THEN devices[d].entries + 1
                                                     ELSE devices[d].entries
  <2> DEFINE changed == [devices[schedule] EXCEPT !.entries = @ + 1]
  <2>1. /\ changed \in DeviceRecords /\ changed.name = devices[schedule].name
        /\ changed.type = devices[schedule].type
        /\ changed.entries = devices[schedule].entries + 1
    <3>1. devices[schedule] \in DeviceRecords
      BY <1>1
    <3> QED  BY <3>1 DEF DeviceRecords
  <2>2. devices' = [devices EXCEPT ![schedule] = changed]
    OBVIOUS
  <2> HIDE DEF changed
  <2>3. devices' \in Seq(DeviceRecords) /\ Len(devices') = Len(devices)
    BY <1>1, <2>1, <2>2
  <2>4. \A d \in 1 .. Len(devices) :
           devices'[d] = IF d = schedule THEN changed ELSE devices[d]
    BY <1>1, <2>2
  <2> QED  BY <2>1, <2>3, <2>4
<1>3. ASSUME NEW d \in 1 .. Len(devices), NEW v \in Declarations(Passed(w)),
             DeviceRead(d, v, Passed(w))
      PROVE  DeviceRead(d, v, UpTo(w))'
  <2>1. v \in Passed(w)
    BY DEF Declarations
  <2>2. Open(v, UpTo(w)) <=> Open(v, Passed(w))
    BY <2>1, BlockGrows
  <2>3. w \notin Entries(v, Passed(w))
    BY <2>1, OneMore DEF Entries
  <2>4. /\ IsFiniteSet(Entries(v, UpTo(w)))
        /\ devices'[d].entries = Cardinality(Entries(v, UpTo(w)))
    <3>1. CASE d = schedule
      <4>1. LineAt(v).word = "SCHEDULE" /\ Open(v, Passed(w))
        BY <1>3, <3>1 DEF DeviceRead
      <4>2. Entries(v, UpTo(w)) = Entries(v, Passed(w)) \cup {w}
        BY <2>1, <2>2, <4>1, EntriesGrow
      <4> QED  BY <1>2, <1>3, <2>3, <3>1, <4>2, FS_AddElement DEF DeviceRead
    <3>2. CASE d # schedule
      <4>1. ~(LineAt(v).word = "SCHEDULE" /\ Open(v, Passed(w)))
        BY <1>3, <3>2 DEF DeviceRead
      <4>2. Entries(v, UpTo(w)) = Entries(v, Passed(w))
        BY <2>1, <2>2, <4>1, EntriesGrow
      <4> QED  BY <1>2, <1>3, <3>2, <4>2 DEF DeviceRead
    <3> QED  BY <3>1, <3>2
  <2>5. devices'[d].name = LineAt(v).name /\ devices'[d].type = LineAt(v).word
    BY <1>2, <1>3 DEF DeviceRead
  <2> QED  BY <1>3, <2>2, <2>4, <2>5, SameText DEF DeviceRead
<1> QED  BY <1>2, <1>3, DevicesStay DEF FirstPass

LEMMA DeclareReads ==
    ASSUME TypeOK, NEW w \in Places, FirstPass(Passed(w)), dir' = dir,
           LineAt(w).st = "DECLARE", schedule = 0,
           devices' = Append(devices, [name |-> LineAt(w).name,
                                       type |-> LineAt(w).word, entries |-> 0]),
           schedule' = IF LineAt(w).word = "SCHEDULE" THEN Len(devices) + 1 ELSE 0,
           finished' = finished
    PROVE  DevicesRead(UpTo(w))'
<1>0. PICK n \in Nat : n = Len(devices)
  BY DEF TypeOK
<1>1. devices \in Seq(DeviceRecords) /\ n \in Nat /\ finished \subseteq 1 .. n
  BY <1>0 DEF TypeOK
<1>2. /\ Len(devices') = n + 1 /\ \A d \in 1 .. n : devices'[d] = devices[d]
      /\ devices'[n + 1] = [name |-> LineAt(w).name, type |-> LineAt(w).word,
                            entries |-> 0]
  BY <1>0, <1>1
<1>3. ~Scheduled(w)
  BY BusyScheduling
<1>4. PICK at \in Enumerations(n, Declarations(Passed(w))) :
             \A d \in 1 .. n : DeviceRead(d, at[d], Passed(w))
  BY <1>0 DEF FirstPass, DevicesRead
<1>5. Declarations(UpTo(w)) = Declarations(Passed(w)) \cup {w}
  BY <1>3, DeclarationsGrow
<1>6. Then(n, at, w) \in Enumerations(n + 1, Declarations(UpTo(w)))
  <2>1. \A v \in Declarations(Passed(w)) : Before(v, w)
    BY OneMore DEF Declarations
  <2> QED  BY <1>1, <1>4, <1>5, <2>1, NumberNext
<1>7. Then(n, at, w)[n + 1] = w /\ \A d \in 1 .. n : Then(n, at, w)[d] = at[d]
  BY <1>1 DEF Then
<1>8. ASSUME NEW d \in 1 .. n PROVE DeviceRead(d, at[d], UpTo(w))'
  <2>1. at[d] \in Passed(w)
    BY <1>4 DEF Enumerations, Declarations
  <2>2. Open(at[d], UpTo(w)) <=> Open(at[d], Passed(w))
    BY <2>1, BlockGrows
  <2>3. DeviceRead(d, at[d], Passed(w))
    BY <1>4
  <2>4. schedule' # d /\ schedule # d
    BY <1>0, <1>1
  <2>5. ~(LineAt(at[d]).word = "SCHEDULE" /\ Open(at[d], Passed(w)))
    BY <2>3, <2>4 DEF DeviceRead
  <2>6. Entries(at[d], UpTo(w)) = Entries(at[d], Passed(w))
    BY <2>1, <2>2, <2>5, EntriesGrow
  <2> QED  BY <1>2, <2>2, <2>3, <2>4, <2>5, <2>6, SameText DEF DeviceRead
<1>9. DeviceRead(n + 1, w, UpTo(w))'
  <2>1. Entries(w, UpTo(w)) = {} /\ Open(w, UpTo(w))
    BY NoEntriesYet, BlockGrows
  <2>2. IsFiniteSet(Entries(w, UpTo(w))) /\ Cardinality(Entries(w, UpTo(w))) = 0
    BY <2>1, FS_EmptySet
  <2>3. n + 1 \notin finished'
    BY <1>1
  <2>4. schedule' = n + 1 <=> LineAt(w).word = "SCHEDULE"
    BY <1>0, <1>1
  <2>5. /\ devices'[n + 1].name = LineAt(w).name
        /\ devices'[n + 1].type = LineAt(w).word
        /\ devices'[n + 1].entries = 0
    BY <1>2
  <2>6. /\ Entries(w, UpTo(w))' = Entries(w, UpTo(w)) /\ LineAt(w)' = LineAt(w)
        /\ Open(w, UpTo(w))' <=> Open(w, UpTo(w))
    BY SameText
  <2> QED  BY <2>1, <2>2, <2>3, <2>4, <2>5, <2>6 DEF DeviceRead
<1>10. ASSUME NEW d \in 1 .. n + 1 PROVE DeviceRead(d, Then(n, at, w)[d], UpTo(w))'
  <2>1. d \in 1 .. n \/ d = n + 1
    BY <1>1
  <2>2. CASE d \in 1 .. n
    <3>1. Then(n, at, w)[d] = at[d]
      BY <1>7, <2>2
    <3> QED  BY <1>8, <2>2, <3>1
  <2>3. CASE d = n + 1
    <3>1. Then(n, at, w)[d] = w
      BY <1>7, <2>3
    <3> QED  BY <1>9, <2>3, <3>1
  <2> QED  BY <2>1, <2>2, <2>3
<1>11. \E f \in Enumerations(n + 1, Declarations(UpTo(w))) :
         \A d \in 1 .. n + 1 : DeviceRead(d, f[d], UpTo(w))'
  BY <1>6, <1>10
<1> QED  BY <1>2, <1>11, SameText DEF DevicesRead

-----------------------------------------------------------------------------
(* The second pass.  It skips exactly the lines in the block of a schedule.*)
LEMMA BusySkipping ==
    ASSUME TypeOK, NEW w \in Places, Skips(Passed(w)), LineAt(w).st # "NONE"
    PROVE  skipping <=> Scheduled(w)
<1>1. \A v \in Places : SameBlock(v, w) <=> v \in Passed(w) /\ Open(v, Passed(w))
  BY BlockGrows
<1>2. Passed(w) \subseteq Places
  BY OneMore
<1> QED  BY <1>1, <1>2 DEF Skips, Scheduled

LEMMA SkipsOn ==
    ASSUME TypeOK, NEW w \in Places, Skips(Passed(w)), dir' = dir,
           skipping' = (LineAt(w).st # "NONE" /\ (skipping \/ OpensSchedule(w)))
    PROVE  Skips(UpTo(w))'
<1>1. /\ Open(w, UpTo(w))
      /\ \A v \in Passed(w) :
            Open(v, UpTo(w)) <=> Open(v, Passed(w)) /\ LineAt(w).st # "NONE"
  BY BlockGrows
<1>2. UpTo(w) = Passed(w) \cup {w}
  BY OneMore
<1>3. OpensSchedule(w) => LineAt(w).st # "NONE"
  BY DEF OpensSchedule
<1>4. skipping' <=> \E v \in UpTo(w) : OpensSchedule(v) /\ Open(v, UpTo(w))
  BY <1>1, <1>2, <1>3 DEF Skips
<1>5. skipping' <=> \E v \in UpTo(w) : OpensSchedule(v)' /\ Open(v, UpTo(w))'
  BY <1>4, SameText
<1> QED  BY <1>5, SameText DEF Skips

(* A reference keeps its meaning: the devices are all there.               *)
LEMMA SameMeaning ==
    ASSUME dir' = dir, devices' = devices
    PROVE  /\ \A reference, w : Means(reference, w)' <=> Means(reference, w)
           /\ \A references, S : Refers(references, S)' <=> Refers(references, S)
           /\ \A name : Declared(name)' <=> Declared(name)
<1>1. \A reference, w : Means(reference, w)' <=> Means(reference, w)
  BY SameText DEF Means
<1>2. \A references, S : Refers(references, S)' <=> Refers(references, S)
  BY <1>1 DEF Refers
<1>3. \A name : Declared(name)' <=> Declared(name)
  BY SameText DEF Declared
<1> QED  BY <1>1, <1>2, <1>3

LEMMA HeadsGrow ==
    ASSUME TypeOK, NEW w \in Places
    PROVE  RuleHeads(UpTo(w)) =
              RuleHeads(Passed(w))
              \cup IF LineAt(w).st = "IF" /\ ~Scheduled(w) THEN {w} ELSE {}
  BY OneMore DEF RuleHeads

LEMMA BodyGrows ==
    ASSUME TypeOK, NEW w \in Places, NEW v \in Passed(w), NEW st
    PROVE  Body(v, st, UpTo(w)) =
              Body(v, st, Passed(w))
              \cup IF LineAt(w).st = st /\ Open(v, UpTo(w)) /\ InForce(v, UpTo(w))
                   THEN {w} ELSE {}
<1>1. v \in Places /\ UpTo(w) = Passed(w) \cup {w}
  BY OneMore
<1>2. SameBlock(v, w) <=> Open(v, UpTo(w))
  BY <1>1, BlockGrows
<1> QED  BY <1>1, <1>2 DEF Body, InForce

LEMMA NoBodyYet ==
    ASSUME TypeOK, NEW w \in Places, NEW st
    PROVE  Body(w, st, UpTo(w)) = {}
<1>1. \A v \in UpTo(w) : ~Before(w, v)
  BY OneMore DEF After
<1> QED  BY <1>1 DEF Body, SameBlock

LEMMA RulesStay ==
    ASSUME TypeOK, NEW w \in Places, RulesRead(Passed(w)), dir' = dir,
           ~(LineAt(w).st = "IF" /\ ~Scheduled(w)),
           Len(rules') = Len(rules),
           \A r \in 1 .. Len(rules), v \in RuleHeads(Passed(w)) :
              RuleRead(r, v, Passed(w)) => RuleRead(r, v, UpTo(w))'
    PROVE  RulesRead(UpTo(w))'
<1>1. PICK at \in Enumerations(Len(rules), RuleHeads(Passed(w))) :
             \A r \in 1 .. Len(rules) : RuleRead(r, at[r], Passed(w))
  BY DEF RulesRead
<1>2. RuleHeads(UpTo(w))' = RuleHeads(Passed(w))
  BY HeadsGrow, SameText
<1>3. at \in Enumerations(Len(rules), RuleHeads(UpTo(w)))'
  BY <1>1, <1>2
<1>4. \A r \in 1 .. Len(rules) : at[r] \in RuleHeads(Passed(w))
  BY <1>1 DEF Enumerations
<1>5. \A r \in 1 .. Len(rules)' : RuleRead(r, at[r], UpTo(w))'
  BY <1>1, <1>4
<1> QED  BY <1>3, <1>5 DEF RulesRead

(* A declaration and an entry are in no rule, and end none.                *)
LEMMA DeclarationPassed ==
    ASSUME TypeOK, NEW w \in Places, RulesRead(Passed(w)), dir' = dir,
           LineAt(w).st \in {"DECLARE", "ENTRY"},
           UNCHANGED <<devices, rules, rule>>
    PROVE  RulesRead(UpTo(w))'
<1>1. ASSUME NEW r \in 1 .. Len(rules), NEW v \in RuleHeads(Passed(w)),
             RuleRead(r, v, Passed(w))
      PROVE  RuleRead(r, v, UpTo(w))'
  <2>1. v \in Passed(w)
    BY DEF RuleHeads
  <2>2. /\ Open(v, UpTo(w)) <=> Open(v, Passed(w))
        /\ InForce(v, UpTo(w)) <=> InForce(v, Passed(w))
    BY <2>1, BlockGrows
  <2>3. /\ Body(v, "AND", UpTo(w)) = Body(v, "AND", Passed(w))
        /\ Body(v, "DO", UpTo(w)) = Body(v, "DO", Passed(w))
    BY <2>1, BodyGrows
  <2> QED  BY <1>1, <2>2, <2>3, SameText, SameMeaning DEF RuleRead
<1> QED  BY <1>1, RulesStay

LEMMA BlockEnds ==
    ASSUME TypeOK, NEW w \in Places, RulesRead(Passed(w)), dir' = dir,
           LineAt(w).st = "NONE", rule' = 0, UNCHANGED <<devices, rules>>
    PROVE  RulesRead(UpTo(w))'
<1>1. ASSUME NEW r \in 1 .. Len(rules), NEW v \in RuleHeads(Passed(w)),
             RuleRead(r, v, Passed(w))
      PROVE  RuleRead(r, v, UpTo(w))'
  <2>1. v \in Passed(w)
    BY DEF RuleHeads
  <2>2. ~Open(v, UpTo(w)) /\ rule' # r
    BY <2>1, BlockGrows
  <2>3. /\ Body(v, "AND", UpTo(w)) = Body(v, "AND", Passed(w))
        /\ Body(v, "DO", UpTo(w)) = Body(v, "DO", Passed(w))
    BY <2>1, BodyGrows
  <2> QED  BY <1>1, <2>2, <2>3, SameText, SameMeaning DEF RuleRead
<1> QED  BY <1>1, RulesStay

(* The device a known line names is declared, and is the first of its name.*)
ReferenceAt(w) == [device |-> FindByName(LineAt(w).name), word |-> LineAt(w).word]

LEMMA ReferenceMeans ==
    ASSUME TypeOK, NEW w \in Places, LineAt(w).word \in Words,
           FindByName(LineAt(w).name) # 0
    PROVE  ReferenceAt(w) \in References /\ Means(ReferenceAt(w), w)
<1>1. Len(devices) \in Nat
  BY DEF TypeOK
<1>2. PICK d : d = FindByName(LineAt(w).name)
  OBVIOUS
<1>3. d \in 1 .. Len(devices) /\ devices[d].name = LineAt(w).name
      /\ \A e \in 1 .. d - 1 : devices[e].name # LineAt(w).name
  BY <1>2, FindFirst
<1>4. ReferenceAt(w) = [device |-> d, word |-> LineAt(w).word]
  BY <1>2 DEF ReferenceAt
<1> QED  BY <1>1, <1>3, <1>4 DEF References, Means

LEMMA DeclaredFound ==
    ASSUME TypeOK, NEW w \in Places, DevicesRead(Places)
    PROVE  Declared(LineAt(w).name) <=> FindByName(LineAt(w).name) # 0
<1>1. PICK at \in Enumerations(Len(devices), Declarations(Places)) :
             \A d \in 1 .. Len(devices) : DeviceRead(d, at[d], Places)
  BY DEF DevicesRead
<1>2. /\ \A d \in 1 .. Len(devices) :
            /\ at[d] \in Declarations(Places)
            /\ devices[d].name = LineAt(at[d]).name
      /\ \A v \in Declarations(Places) : \E d \in 1 .. Len(devices) : at[d] = v
  BY <1>1 DEF Enumerations, DeviceRead
<1>3. Declared(LineAt(w).name) <=>
         \E d \in 1 .. Len(devices) : devices[d].name = LineAt(w).name
  BY <1>2 DEF Declared
<1> QED  BY <1>3, FindFirst

LEMMA RuleBegins ==
    ASSUME TypeOK, NEW w \in Places, RulesRead(Passed(w)), dir' = dir,
           LineAt(w).st = "IF", ~Scheduled(w), NEW reference, Means(reference, w),
           rules' = Append(rules, [on |-> reference, conditions |-> <<>>,
                                   actions |-> <<>>]),
           rule' = Len(rules) + 1, devices' = devices
    PROVE  RulesRead(UpTo(w))'
<1>0. PICK n \in Nat : n = Len(rules)
  BY DEF TypeOK
<1>1. rules \in Seq(RuleRecords) /\ rule \in 0 .. n
  BY <1>0 DEF TypeOK
<1>2. /\ Len(rules') = n + 1 /\ \A r \in 1 .. n : rules'[r] = rules[r]
      /\ rules'[n + 1] = [on |-> reference, conditions |-> <<>>, actions |-> <<>>]
  BY <1>0, <1>1
<1>3. PICK at \in Enumerations(n, RuleHeads(Passed(w))) :
             \A r \in 1 .. n : RuleRead(r, at[r], Passed(w))
  BY <1>0 DEF RulesRead
<1>4. RuleHeads(UpTo(w)) = RuleHeads(Passed(w)) \cup {w}
  BY HeadsGrow
<1>5. Then(n, at, w) \in Enumerations(n + 1, RuleHeads(UpTo(w)))
  <2>1. \A v \in RuleHeads(Passed(w)) : Before(v, w)
    BY OneMore DEF RuleHeads
  <2> QED  BY <1>3, <1>4, <2>1, NumberNext
<1>6. Then(n, at, w)[n + 1] = w /\ \A r \in 1 .. n : Then(n, at, w)[r] = at[r]
  BY DEF Then
<1>7. ASSUME NEW r \in 1 .. n PROVE RuleRead(r, at[r], UpTo(w))'
  <2>1. PICK v : v = at[r]
    OBVIOUS
  <2>2. v \in Passed(w) /\ RuleRead(r, v, Passed(w))
    BY <1>3, <2>1 DEF Enumerations, RuleHeads
  <2>3. ~InForce(v, UpTo(w)) /\ rule' # r
    BY <1>0, <2>2, BlockGrows
  <2>4. /\ Body(v, "AND", UpTo(w)) = Body(v, "AND", Passed(w))
        /\ Body(v, "DO", UpTo(w)) = Body(v, "DO", Passed(w))
    BY <2>2, BodyGrows
  <2>5. RuleRead(r, v, UpTo(w))'
    BY <1>2, <2>2, <2>3, <2>4, SameText, SameMeaning DEF RuleRead
  <2> QED  BY <2>1, <2>5
<1>8. RuleRead(n + 1, w, UpTo(w))'
  <2>1. /\ Body(w, "AND", UpTo(w))' = {} /\ Body(w, "DO", UpTo(w))' = {}
        /\ Open(w, UpTo(w))' /\ InForce(w, UpTo(w))'
    BY NoBodyYet, BlockGrows, SameText
  <2>2. /\ rules'[n + 1].on = reference
        /\ rules'[n + 1].conditions = <<>> /\ rules'[n + 1].actions = <<>>
    BY <1>2
  <2>3. rule' = n + 1
    BY <1>0
  <2>4. Means(reference, w)' /\ Refers(<<>>, {})'
    BY ReferNone, SameMeaning
  <2> QED  BY <2>1, <2>2, <2>3, <2>4 DEF RuleRead
<1>9. ASSUME NEW r \in 1 .. n + 1 PROVE RuleRead(r, Then(n, at, w)[r], UpTo(w))'
  <2>1. r \in 1 .. n \/ r = n + 1
    OBVIOUS
  <2>2. CASE r \in 1 .. n
    <3>1. Then(n, at, w)[r] = at[r]
      BY <1>6, <2>2
    <3> QED  BY <1>7, <2>2, <3>1
  <2>3. CASE r = n + 1
    <3>1. Then(n, at, w)[r] = w
      BY <1>6, <2>3
    <3> QED  BY <1>8, <2>3, <3>1
  <2> QED  BY <2>1, <2>2, <2>3
<1>10. \E f \in Enumerations(n + 1, RuleHeads(UpTo(w))) :
         \A r \in 1 .. n + 1 : RuleRead(r, f[r], UpTo(w))'
  BY <1>5, <1>9
<1> QED  BY <1>2, <1>10, SameText DEF RulesRead

(* An AND or a DO goes to the rule in force, and to none when there is     *)
(* none.                                                                   *)
Grown(record, st, reference) ==
    IF st = "AND" THEN [record EXCEPT !.conditions = Append(@, reference)]
                  ELSE [record EXCEPT !.actions = Append(@, reference)]

LEMMA GrownOf ==
    ASSUME NEW record \in RuleRecords, NEW reference \in References,
           NEW st \in {"AND", "DO"}
    PROVE  /\ Grown(record, st, reference) \in RuleRecords
           /\ Grown(record, st, reference).on = record.on
           /\ Grown(record, st, reference).conditions =
                 IF st = "AND" THEN Append(record.conditions, reference)
                               ELSE record.conditions
           /\ Grown(record, st, reference).actions =
                 IF st = "DO" THEN Append(record.actions, reference)
                              ELSE record.actions
<1>1. /\ record.conditions \in Seq(References)
      /\ record.actions \in Seq(References)
  BY DEF RuleRecords
<1>2. /\ Append(record.conditions, reference) \in Seq(References)
      /\ Append(record.actions, reference) \in Seq(References)
  BY <1>1
<1> HIDE DEF References
<1> QED  BY <1>2 DEF Grown, RuleRecords

LEMMA RuleTakes ==
    ASSUME TypeOK, NEW w \in Places, RulesRead(Passed(w)), dir' = dir,
           LineAt(w).st \in {"AND", "DO"},
           NEW reference \in References, Means(reference, w),
           rules' = IF rule = 0 THEN rules
                    ELSE [rules EXCEPT ![rule] = Grown(@, LineAt(w).st, reference)],
           UNCHANGED <<devices, rule>>
    PROVE  RulesRead(UpTo(w))'
<1>0. PICK st \in {"AND", "DO"} : LineAt(w).st = st
  OBVIOUS
<1>1. /\ rules \in Seq(RuleRecords) /\ Len(rules) \in Nat
      /\ rule = 0 \/ rule \in 1 .. Len(rules)
  BY DEF TypeOK
<1>2. Len(rules') = Len(rules)
  BY <1>1
<1>3. ASSUME NEW r \in 1 .. Len(rules), NEW v \in RuleHeads(Passed(w)),
             RuleRead(r, v, Passed(w))
      PROVE  RuleRead(r, v, UpTo(w))'
  <2>1. v \in Passed(w)
    BY DEF RuleHeads
  <2>2. /\ Open(v, UpTo(w)) <=> Open(v, Passed(w))
        /\ InForce(v, UpTo(w)) <=> InForce(v, Passed(w))
    BY <2>1, BlockGrows
  <2>3. rule = r <=> Open(v, UpTo(w)) /\ InForce(v, UpTo(w))
    BY <1>3, <2>2 DEF RuleRead
  <2>4. rules[r] \in RuleRecords
    BY <1>1
  <2>5. rules'[r] = IF r = rule THEN Grown(rules[r], st, reference) ELSE rules[r]
    BY <1>0, <1>1
  <2>6. /\ rules'[r].on = rules[r].on
        /\ rules'[r].conditions = IF r = rule /\ st = "AND"
                                  THEN Append(rules[r].conditions, reference)
                                  ELSE rules[r].conditions
        /\ rules'[r].actions = IF r = rule /\ st = "DO"
                               THEN Append(rules[r].actions, reference)
                               ELSE rules[r].actions
    <3>1. CASE r = rule
      <4>1. rules'[r] = Grown(rules[r], st, reference)
        BY <2>5, <3>1
      <4>2. PICK old, new : old = rules[r] /\ new = Grown(old, st, reference)
        OBVIOUS
      <4>3. /\ new.on = old.on
            /\ new.conditions = IF st = "AND" THEN Append(old.conditions, reference)
                                              ELSE old.conditions
            /\ new.actions = IF st = "DO" THEN Append(old.actions, reference)
                                          ELSE old.actions
        BY <2>4, <4>2, GrownOf
      <4> QED  BY <3>1, <4>1, <4>2, <4>3
    <3>2. CASE r # rule
      BY <2>5, <3>2
    <3> QED  BY <3>1, <3>2
  <2>7. \A s \in {"AND", "DO"} :
           /\ Body(v, s, UpTo(w)) = Body(v, s, Passed(w)) \cup
                                    IF r = rule /\ st = s THEN {w} ELSE {}
           /\ \A u \in Body(v, s, Passed(w)) : Before(u, w)
    <3>1. \A s : \A u \in Body(v, s, Passed(w)) : Before(u, w)
      BY OneMore DEF Body
    <3>2. ASSUME NEW s \in {"AND", "DO"}
          PROVE Body(v, s, UpTo(w)) = Body(v, s, Passed(w)) \cup
                                      IF r = rule /\ st = s THEN {w} ELSE {}
      BY <1>0, <2>1, <2>3, BodyGrows
    <3> QED  BY <3>1, <3>2
  <2>8. /\ rules[r].conditions \in Seq(References)
        /\ rules[r].actions \in Seq(References)
        /\ Means(rules[r].on, v)
        /\ Refers(rules[r].conditions, Body(v, "AND", Passed(w)))
        /\ Refers(rules[r].actions, Body(v, "DO", Passed(w)))
    BY <1>3, <2>4 DEF RuleRecords, RuleRead
  <2>9. Refers(rules'[r].conditions, Body(v, "AND", UpTo(w)))
    <3> DEFINE S == Body(v, "AND", Passed(w))
    <3>1. CASE r = rule /\ st = "AND"
      <4>1. Refers(Append(rules[r].conditions, reference), S \cup {w})
        <5>1. Refers(rules[r].conditions, S) /\ \A u \in S : Before(u, w)
          BY <2>7, <2>8
        <5> HIDE DEF S
        <5> QED  BY <2>8, <5>1, ReferAlso
      <4> QED  BY <2>6, <2>7, <3>1, <4>1
    <3>2. CASE ~(r = rule /\ st = "AND")
      BY <2>6, <2>7, <2>8, <3>2
    <3> QED  BY <3>1, <3>2
  <2>10. Refers(rules'[r].actions, Body(v, "DO", UpTo(w)))
    <3> DEFINE S == Body(v, "DO", Passed(w))
    <3>1. CASE r = rule /\ st = "DO"
      <4>1. Refers(Append(rules[r].actions, reference), S \cup {w})
        <5>1. Refers(rules[r].actions, S) /\ \A u \in S : Before(u, w)
          BY <2>7, <2>8
        <5> HIDE DEF S
        <5> QED  BY <2>8, <5>1, ReferAlso
      <4> QED  BY <2>6, <2>7, <3>1, <4>1
    <3>2. CASE ~(r = rule /\ st = "DO")
      BY <2>6, <2>7, <2>8, <3>2
    <3> QED  BY <3>1, <3>2
  <2> QED  BY <2>3, <2>6, <2>8, <2>9, <2>10, SameText, SameMeaning DEF RuleRead
<1> QED  BY <1>2, <1>3, RulesStay

-----------------------------------------------------------------------------
(* The position.  A line that is being looked at is a place of the text.   *)
Here == <<file, pos>>

LEMMA AtPlace ==
    ASSUME TypeOK, InFile, NEW pass, NEW statements, At(pass, statements)
    PROVE  /\ phase = pass /\ Here \in Places /\ Line = LineAt(Here)
           /\ LineAt(Here) \in LineRecords /\ LineAt(Here).st \in statements
           /\ pos \in 1 .. Len(dir[file].lines)
<1>1. phase = pass /\ pos \in 1 .. Len(dir[file].lines) /\ Line.st \in statements
      /\ file \in DOMAIN dir /\ dir[file].rules
  BY DEF At, InFile
<1>2. Here \in Places
  BY <1>1, InPlaces DEF Here
<1>3. Line = LineAt(Here)
  BY DEF Line, LineAt, Here
<1> QED  BY <1>1, <1>2, <1>3, PlaceOf

LEMMA NextPlace ==
    ASSUME TypeOK, InFile, Here \in Places, NextLine,
           pos \in 1 .. Len(dir[file].lines)
    PROVE  /\ Done' = UpTo(Here) /\ InFile' /\ UNCHANGED <<env, main, file>>
           /\ file' \in 1 .. Len(dir) + 1 /\ pos' \in Nat
<1>1. pos' = pos + 1 /\ UNCHANGED <<env, main, file>> /\ dir' = dir
  BY DEF NextLine, env
<1>2. pos \in Nat /\ file \in Nat /\ dir \in Seq(FileRecords)
  BY DEF TypeOK
<1>3. ASSUME NEW v \in Places
      PROVE  Before(v, <<file, pos + 1>>) <=> v = Here \/ Before(v, Here)
  <2>1. v = <<v[1], v[2]>> /\ v[1] \in Nat /\ v[2] \in Nat
    BY PlaceOf
  <2> QED  BY <1>2, <2>1 DEF Before, Here
<1>4. Done' = {v \in Places : Before(v, <<file, pos + 1>>)}
  BY <1>1, SameText DEF Done, Passed
<1>5. Done' = UpTo(Here)
  BY <1>3, <1>4 DEF UpTo
<1>6. pos > 0 /\ file \in DOMAIN dir /\ dir[file].rules /\ dir[file].readable
  BY DEF InFile
<1>7. Len(dir[file].lines) \in Nat
  <2>1. dir[file] \in FileRecords
    BY <1>2, <1>6
  <2> QED  BY <2>1 DEF FileRecords
<1>8. InFile'
  BY <1>1, <1>2, <1>6, <1>7 DEF InFile
<1> QED  BY <1>1, <1>2, <1>5, <1>8 DEF TypeOK

LEMMA DonePassed == Done = Passed(Here)
  BY DEF Done, Here

(* At the head of the directory nothing has been passed, behind its last   *)
(* file everything, and between two files what was before the second.      *)
LEMMA NothingYet == ASSUME TypeOK PROVE Passed(<<1, 0>>) = {}
<1>1. ASSUME NEW v \in Places PROVE ~Before(v, <<1, 0>>)
  <2>1. v[1] \in 1 .. Len(dir) /\ v[2] \in Nat /\ Len(dir) \in Nat
    BY PlaceOf DEF TypeOK
  <2> QED  BY <2>1 DEF Before
<1> QED  BY <1>1 DEF Passed

LEMMA Everything == ASSUME TypeOK, file > Len(dir) PROVE Done = Places
<1>1. ASSUME NEW v \in Places PROVE Before(v, Here)
  <2>1. v[1] \in 1 .. Len(dir) /\ Len(dir) \in Nat /\ file \in Nat
    BY PlaceOf DEF TypeOK
  <2> QED  BY <2>1 DEF Before, Here
<1> QED  BY <1>1 DEF Done, Passed, Here

LEMMA FilePassed ==
    ASSUME TypeOK, file \in DOMAIN dir, file' = file + 1, pos' = 0, dir' = dir,
           dir[file].rules => pos > Len(dir[file].lines),
           pos = 0 \/ dir[file].rules
    PROVE  Done' = Done
<1>1. ASSUME NEW v \in Places
      PROVE  Before(v, <<file + 1, 0>>) <=> Before(v, Here)
  <2>1. /\ v[1] \in Nat /\ v[2] \in Nat \ {0} /\ file \in Nat /\ pos \in Nat
        /\ dir[v[1]].rules /\ v[2] \in 1 .. Len(dir[v[1]].lines)
    BY PlaceOf DEF TypeOK
  <2>2. CASE v[1] = file
    <3>1. Len(dir[file].lines) \in Nat
      <4>1. dir[file] \in FileRecords
        BY DEF TypeOK
      <4> QED  BY <4>1 DEF FileRecords
    <3>2. v[2] < pos
      BY <2>1, <2>2, <3>1
    <3> QED  BY <2>1, <2>2, <3>2 DEF Before, Here
  <2>3. CASE v[1] # file
    BY <2>1, <2>3 DEF Before, Here
  <2> QED  BY <2>2, <2>3
<1>2. Done' = {v \in Places : Before(v, <<file + 1, 0>>)}
  BY SameText DEF Done, Passed
<1> QED  BY <1>1, <1>2 DEF Done, Passed, Here

LEMMA FileOpened ==
    ASSUME TypeOK, pos = 0, pos' = 1, UNCHANGED <<file, dir>>
    PROVE  Done' = Done
<1>1. ASSUME NEW v \in Places
      PROVE  Before(v, <<file, 1>>) <=> Before(v, Here)
  <2>1. v[1] \in Nat /\ v[2] \in Nat \ {0} /\ file \in Nat
    BY PlaceOf DEF TypeOK
  <2> QED  BY <2>1 DEF Before, Here
<1>2. Done' = {v \in Places : Before(v, <<file, 1>>)}
  BY SameText DEF Done, Passed
<1> QED  BY <1>1, <1>2 DEF Done, Passed, Here

-----------------------------------------------------------------------------
(* What does not change as long as the lists do not.                       *)
LEMMA SameFiles ==
    ASSUME dir' = dir, types' = types
    PROVE  /\ \A w : (FirstSound(w)' <=> FirstSound(w)) /\ (Sound(w)' <=> Sound(w))
           /\ \A n : Readable(n)' <=> Readable(n)
           /\ Complete' <=> Complete
           /\ Accepted' <=> Accepted
<1>1. \A w : FirstSound(w)' <=> FirstSound(w)
  BY SameText DEF FirstSound
<1>2. \A name : Declared(name)' <=> Declared(name)
  BY SameText DEF Declared
<1>3. \A w : Sound(w)' <=> Sound(w)
  BY <1>2, SameText DEF Sound
<1>4. \A n : Readable(n)' <=> Readable(n)
  BY DEF Readable
<1>5. Complete' <=> Complete
  BY <1>4 DEF Complete
<1>6. Accepted' <=> Accepted
  BY <1>3, SameText DEF Accepted
<1> QED  BY <1>1, <1>3, <1>4, <1>5, <1>6

LEMMA SameDevices ==
    ASSUME UNCHANGED <<dir, types, devices, finished, schedule>>
    PROVE  \A P : FirstPass(P)' <=> FirstPass(P)
<1>1. \A d, w, P : DeviceRead(d, w, P)' <=> DeviceRead(d, w, P)
  BY SameText DEF DeviceRead
<1>2. \A P : DevicesRead(P)' <=> DevicesRead(P)
  BY <1>1, SameText DEF DevicesRead
<1> QED  BY <1>2, SameFiles DEF FirstPass

LEMMA SameRules ==
    ASSUME UNCHANGED <<dir, types, devices, rules, rule, skipping>>
    PROVE  \A P : SecondPass(P)' <=> SecondPass(P)
<1>1. \A r, w, P : RuleRead(r, w, P)' <=> RuleRead(r, w, P)
  BY SameText, SameMeaning DEF RuleRead
<1>2. \A P : (RulesRead(P)' <=> RulesRead(P)) /\ (Skips(P)' <=> Skips(P))
  BY <1>1, SameText DEF RulesRead, Skips
<1> QED  BY <1>2, SameFiles DEF SecondPass

(* Nothing has been read.                                                  *)
LEMMA NothingRead ==
    /\ devices = <<>> /\ schedule = 0 => FirstPass({})
    /\ rules = <<>> /\ ~skipping => SecondPass({})
<1>1. PICK at : at \in Enumerations(0, {})
  BY NoneNumbered
<1>2. Declarations({}) = {} /\ RuleHeads({}) = {}
  BY DEF Declarations, RuleHeads
<1>3. ASSUME devices = <<>> PROVE DevicesRead({})
  <2>1. Len(devices) = 0
    BY <1>3
  <2>2. at \in Enumerations(Len(devices), Declarations({}))
    BY <1>1, <1>2, <2>1
  <2>3. \A n \in 1 .. Len(devices) : DeviceRead(n, at[n], {})
    BY <2>1
  <2> QED  BY <2>2, <2>3 DEF DevicesRead
<1>4. ASSUME rules = <<>> PROVE RulesRead({})
  <2>1. Len(rules) = 0
    BY <1>4
  <2>2. at \in Enumerations(Len(rules), RuleHeads({}))
    BY <1>1, <1>2, <2>1
  <2>3. \A n \in 1 .. Len(rules) : RuleRead(n, at[n], {})
    BY <2>1
  <2> QED  BY <2>2, <2>3 DEF RulesRead
<1> QED  BY <1>3, <1>4 DEF FirstPass, SecondPass, Skips

-----------------------------------------------------------------------------
(* The inductive invariant.                                                *)
LEMMA LoadInit == Init => LoadInv
<1> SUFFICES ASSUME Init PROVE LoadInv
  OBVIOUS
<1>1. TypeOK
  <2>1. dir \in Seq(FileRecords)
    BY StartupAssumption DEF Init
  <2>2. file \in 1 .. Len(dir) + 1
    BY <2>1 DEF Init
  <2>3. devices \in Seq(DeviceRecords) /\ rules \in Seq(RuleRecords)
    BY DEF Init
  <2>4. /\ finished \subseteq DOMAIN devices /\ schedule \in 0 .. Len(devices)
        /\ rule \in 0 .. Len(rules)
    BY DEF Init
  <2> QED  BY <2>1, <2>2, <2>3, <2>4 DEF Init, TypeOK
<1>2. Done = {}
  BY <1>1, NothingYet DEF Init, Done
<1>3. FirstPass(Done)
  BY <1>2, NothingRead DEF Init
<1>4. Readable(file)
  BY <1>1 DEF Init, Readable, TypeOK
<1>5. InFile
  BY DEF Init, InFile
<1> QED  BY <1>1, <1>3, <1>4, <1>5 DEF LoadInv, Init

(* The process ends at an unsound directory.                               *)
LEMMA StopRefuses ==
    ASSUME LoadInv, Stop, ~Accepted, phase # "stopped"
    PROVE  LoadInv'
<1>1. rv = -1 /\ phase' = "stopped" /\ UNCHANGED <<env, rv, types, file, pos, lists>>
  BY DEF LoadInv, Stop, TypeOK
<1>2. TypeOK'
  BY <1>1 DEF LoadInv, TypeOK, env, lists
<1>3. InFile'
  BY <1>1 DEF LoadInv, InFile, env
<1>4. ~Accepted'
  BY <1>1, SameFiles DEF env
<1> QED  BY <1>1, <1>2, <1>3, <1>4 DEF LoadInv

(* A line of the first pass, and one of the second.                        *)
LEMMA FirstGoesOn ==
    ASSUME LoadInv, phase = "declarations", NEW w \in Places, w = Here, NextLine,
           pos \in 1 .. Len(dir[file].lines), FirstSound(w),
           DevicesRead(UpTo(w))', TypeOK', UNCHANGED <<rules, rule, skipping>>
    PROVE  LoadInv'
<1>1. TypeOK /\ InFile /\ FirstPass(Passed(w)) /\ Readable(file)
      /\ rules = <<>> /\ rule = 0 /\ ~skipping /\ rv # 0
  BY DonePassed DEF LoadInv
<1>2. Done' = UpTo(w) /\ InFile' /\ UNCHANGED <<env, main, file>>
  BY <1>1, NextPlace
<1>3. UNCHANGED <<dir, phase, rv, types, file>>
  BY <1>2 DEF env, main
<1>4. \A v \in UpTo(w) : FirstSound(v)'
  BY <1>1, <1>3, OneMore, SameFiles DEF FirstPass
<1>5. FirstPass(UpTo(w))'
  BY <1>3, <1>4, SameText DEF FirstPass
<1>6. FirstPass(Done)'
  BY <1>2, <1>3, <1>5, SameText
<1>7. Readable(file)'
  BY <1>1, <1>3, SameFiles
<1> QED  BY <1>1, <1>2, <1>3, <1>6, <1>7 DEF LoadInv

LEMMA SecondGoesOn ==
    ASSUME LoadInv, phase = "rules", NEW w \in Places, w = Here, NextLine,
           pos \in 1 .. Len(dir[file].lines), Sound(w), RulesRead(UpTo(w))',
           skipping' = (LineAt(w).st # "NONE" /\ (skipping \/ OpensSchedule(w))),
           TypeOK', UNCHANGED <<devices, finished, schedule>>
    PROVE  LoadInv'
<1>1. TypeOK /\ InFile /\ SecondPass(Passed(w)) /\ FirstPass(Places) /\ Complete
      /\ rv # 0
  BY DonePassed DEF LoadInv
<1>2. Done' = UpTo(w) /\ InFile' /\ UNCHANGED <<env, main, file>>
  BY <1>1, NextPlace
<1>3. UNCHANGED <<dir, phase, rv, types, file>>
  BY <1>2 DEF env, main
<1>4. \A v \in UpTo(w) : Sound(v)'
  BY <1>1, <1>3, OneMore, SameFiles DEF SecondPass
<1>5. Skips(UpTo(w))'
  BY <1>1, <1>3, SkipsOn DEF SecondPass
<1>6. SecondPass(UpTo(w))'
  BY <1>3, <1>4, <1>5, SameText DEF SecondPass
<1>7. SecondPass(Done)'
  BY <1>2, <1>3, <1>6, SameText
<1>8. FirstPass(Places)'
  BY <1>1, <1>3, SameDevices, SameText
<1>9. Complete'
  BY <1>1, <1>3, SameFiles
<1> QED  BY <1>1, <1>2, <1>3, <1>7, <1>8, <1>9 DEF LoadInv

(* The first pass, line by line.                                           *)
LEMMA DeclareKeeps == LoadInv /\ Declare => LoadInv'
<1> SUFFICES ASSUME LoadInv, Declare PROVE LoadInv'
  OBVIOUS
<1>1. PICK w : w = Here
  OBVIOUS
<1>2. /\ TypeOK /\ InFile /\ FirstPass(Passed(w)) /\ phase = "declarations"
      /\ w \in Places /\ LineAt(w) \in LineRecords /\ LineAt(w).st = "DECLARE"
      /\ Line = LineAt(w) /\ pos \in 1 .. Len(dir[file].lines)
  BY <1>1, AtPlace, DonePassed DEF LoadInv, Declare
<1>3. /\ schedule = 0 /\ LineAt(w).word \in types
      /\ devices' = Append(devices, [name |-> LineAt(w).name,
                                     type |-> LineAt(w).word, entries |-> 0])
      /\ schedule' = IF LineAt(w).word = "SCHEDULE" THEN Len(devices) + 1 ELSE 0
      /\ NextLine /\ UNCHANGED <<finished, rules, rule, skipping>>
  BY <1>2 DEF Declare
<1>4. UNCHANGED <<env, main, file>> /\ pos' \in Nat
  BY <1>1, <1>2, <1>3, NextPlace
<1>5. FirstSound(w)
  BY <1>2, <1>3, BusyScheduling DEF FirstSound
<1>6. DevicesRead(UpTo(w))'
  BY <1>2, <1>3, <1>4, DeclareReads DEF env
<1>7. TypeOK'
  <2>1. [name |-> LineAt(w).name, type |-> LineAt(w).word, entries |-> 0]
           \in DeviceRecords
    BY <1>2, <1>3 DEF LineRecords, DeviceRecords, TypeOK
  <2>2. devices \in Seq(DeviceRecords) /\ finished \subseteq 1 .. Len(devices)
    BY <1>2 DEF TypeOK
  <2>3. /\ devices' \in Seq(DeviceRecords) /\ Len(devices') = Len(devices) + 1
        /\ DOMAIN devices' = 1 .. Len(devices')
    BY <1>3, <2>1, <2>2
  <2>4. finished' \subseteq DOMAIN devices' /\ schedule' \in 0 .. Len(devices')
    BY <1>3, <2>2, <2>3
  <2> QED  BY <1>2, <1>3, <1>4, <2>3, <2>4 DEF TypeOK, env, main
<1> QED  BY <1>1, <1>2, <1>3, <1>5, <1>6, <1>7, FirstGoesOn

LEMMA AddEntryKeeps == LoadInv /\ AddEntry => LoadInv'
<1> SUFFICES ASSUME LoadInv, AddEntry PROVE LoadInv'
  OBVIOUS
<1>1. PICK w : w = Here
  OBVIOUS
<1>2. /\ TypeOK /\ InFile /\ FirstPass(Passed(w)) /\ phase = "declarations"
      /\ w \in Places /\ LineAt(w).st = "ENTRY" /\ pos \in 1 .. Len(dir[file].lines)
  BY <1>1, AtPlace, DonePassed DEF LoadInv, AddEntry
<1>3. /\ schedule # 0 /\ devices' = [devices EXCEPT ![schedule].entries = @ + 1]
      /\ NextLine /\ UNCHANGED <<finished, schedule, rules, rule, skipping>>
  BY DEF AddEntry
<1>4. UNCHANGED <<env, main, file>> /\ pos' \in Nat
  BY <1>1, <1>2, <1>3, NextPlace
<1>5. FirstSound(w)
  BY <1>2, <1>3, BusyScheduling DEF FirstSound
<1>6. DevicesRead(UpTo(w))'
  BY <1>2, <1>3, <1>4, EntryReads DEF env
<1>7. TypeOK'
  <2>1. devices \in Seq(DeviceRecords) /\ schedule \in 1 .. Len(devices)
    BY <1>2, <1>3 DEF TypeOK
  <2>2. [devices[schedule] EXCEPT !.entries = @ + 1] \in DeviceRecords
    <3>1. devices[schedule] \in DeviceRecords
      BY <2>1
    <3> QED  BY <3>1 DEF DeviceRecords
  <2>3. devices' = [devices EXCEPT ![schedule] = [devices[schedule] EXCEPT
                                                    !.entries = @ + 1]]
    BY <1>3
  <2>4. devices' \in Seq(DeviceRecords) /\ Len(devices') = Len(devices)
        /\ DOMAIN devices' = DOMAIN devices
    BY <2>1, <2>2, <2>3
  <2> QED  BY <1>2, <1>3, <1>4, <2>4 DEF TypeOK, env, main
<1> QED  BY <1>1, <1>2, <1>3, <1>5, <1>6, <1>7, FirstGoesOn

LEMMA FinishKeeps == LoadInv /\ FinishSchedule => LoadInv'
<1> SUFFICES ASSUME LoadInv, FinishSchedule PROVE LoadInv'
  OBVIOUS
<1>1. PICK w : w = Here
  OBVIOUS
<1>2. /\ TypeOK /\ InFile /\ FirstPass(Passed(w)) /\ phase = "declarations"
      /\ w \in Places /\ LineAt(w).st = "NONE" /\ pos \in 1 .. Len(dir[file].lines)
  BY <1>1, AtPlace, DonePassed DEF LoadInv, FinishSchedule
<1>3. /\ finished' = finished \cup ({schedule} \ {0}) /\ schedule' = 0
      /\ NextLine /\ UNCHANGED <<devices, rules, rule, skipping>>
  BY DEF FinishSchedule
<1>4. UNCHANGED <<env, main, file>> /\ pos' \in Nat
  BY <1>1, <1>2, <1>3, NextPlace
<1>5. FirstSound(w)
  BY <1>2 DEF FirstSound
<1>6. DevicesRead(UpTo(w))'
  BY <1>2, <1>3, <1>4, FinishReads DEF env
<1>7. TypeOK'
  <2>1. devices \in Seq(DeviceRecords) /\ schedule \in 0 .. Len(devices)
        /\ finished \subseteq 1 .. Len(devices) /\ DOMAIN devices = 1 .. Len(devices)
    BY <1>2 DEF TypeOK
  <2>2. finished' \subseteq DOMAIN devices' /\ schedule' \in 0 .. Len(devices')
    BY <1>3, <2>1
  <2> QED  BY <1>2, <1>3, <1>4, <2>2 DEF TypeOK, env, main
<1> QED  BY <1>1, <1>2, <1>3, <1>5, <1>6, <1>7, FirstGoesOn

LEMMA PassRuleKeeps == LoadInv /\ PassRuleLine => LoadInv'
<1> SUFFICES ASSUME LoadInv, PassRuleLine PROVE LoadInv'
  OBVIOUS
<1>1. PICK w : w = Here
  OBVIOUS
<1>2. /\ TypeOK /\ InFile /\ FirstPass(Passed(w)) /\ phase = "declarations"
      /\ w \in Places /\ LineAt(w).st \in {"IF", "AND", "DO"}
      /\ pos \in 1 .. Len(dir[file].lines)
  BY <1>1, AtPlace, DonePassed DEF LoadInv, PassRuleLine
<1>3. schedule = 0 /\ NextLine
      /\ UNCHANGED <<devices, finished, schedule, rules, rule, skipping>>
  BY DEF PassRuleLine, lists
<1>4. UNCHANGED <<env, main, file>> /\ pos' \in Nat
  BY <1>1, <1>2, <1>3, NextPlace
<1>5. FirstSound(w)
  BY <1>2, <1>3, BusyScheduling DEF FirstSound
<1>6. DevicesRead(UpTo(w))'
  BY <1>2, <1>3, <1>4, PassReads DEF env
<1>7. TypeOK'
  BY <1>2, <1>3, <1>4 DEF TypeOK, env, main
<1> QED  BY <1>1, <1>2, <1>3, <1>5, <1>6, <1>7, FirstGoesOn

LEMMA RejectDeclarationKeeps == LoadInv /\ RejectDeclaration => LoadInv'
<1> SUFFICES ASSUME LoadInv, RejectDeclaration PROVE LoadInv'
  OBVIOUS
<1>1. PICK w : w = Here
  OBVIOUS
<1>2. /\ TypeOK /\ InFile /\ phase = "declarations" /\ w \in Places
      /\ Line = LineAt(w) /\ Stop
      /\ \/ LineAt(w).st \in {"REFUSED", "OTHER"}
         \/ LineAt(w).st = "ENTRY" /\ schedule = 0
         \/ LineAt(w).st = "DECLARE" /\ (schedule # 0 \/ LineAt(w).word \notin types)
         \/ LineAt(w).st \in {"IF", "AND", "DO"} /\ schedule # 0
  <2>1. TypeOK /\ InFile /\ Stop
    BY DEF LoadInv, RejectDeclaration
  <2> QED  BY <1>1, <2>1, AtPlace DEF RejectDeclaration
<1>3. FirstPass(Passed(w))
  BY <1>1, <1>2, DonePassed DEF LoadInv
<1>4. ~Sound(w)
  BY <1>2, <1>3, BusyScheduling DEF Sound
<1> QED  BY <1>2, <1>4, StopRefuses DEF Accepted

(* The second pass, line by line.                                          *)
LEMMA AtRules ==
    ASSUME LoadInv, NEW w, w = Here, NEW statements, At("rules", statements)
    PROVE  /\ TypeOK /\ InFile /\ SecondPass(Passed(w)) /\ FirstPass(Places)
           /\ FirstSound(w) /\ phase = "rules" /\ w \in Places
           /\ LineAt(w) \in LineRecords /\ LineAt(w).st \in statements
           /\ Line = LineAt(w) /\ pos \in 1 .. Len(dir[file].lines)
           /\ LineAt(w).st # "NONE" => (skipping <=> Scheduled(w))
<1>1. /\ TypeOK /\ InFile /\ phase = "rules" /\ w \in Places
      /\ LineAt(w) \in LineRecords /\ LineAt(w).st \in statements
      /\ Line = LineAt(w) /\ pos \in 1 .. Len(dir[file].lines)
  BY AtPlace DEF LoadInv
<1>2. SecondPass(Passed(w)) /\ FirstPass(Places)
  BY <1>1, DonePassed DEF LoadInv
<1> QED  BY <1>1, <1>2, BusySkipping DEF FirstPass, SecondPass

LEMMA SkipLineKeeps == LoadInv /\ SkipLine => LoadInv'
<1> SUFFICES ASSUME LoadInv, SkipLine PROVE LoadInv'
  OBVIOUS
<1>1. PICK w : w = Here
  OBVIOUS
<1>2. /\ TypeOK /\ InFile /\ SecondPass(Passed(w)) /\ FirstSound(w)
      /\ phase = "rules" /\ w \in Places /\ LineAt(w).st # "NONE"
      /\ pos \in 1 .. Len(dir[file].lines) /\ (skipping <=> Scheduled(w))
  BY <1>1, AtRules DEF SkipLine
<1>3. skipping /\ NextLine
      /\ UNCHANGED <<devices, finished, schedule, rules, rule, skipping>>
  BY DEF SkipLine, lists
<1>4. UNCHANGED <<env, main, file>> /\ pos' \in Nat
  BY <1>1, <1>2, <1>3, NextPlace
<1>5. LineAt(w).st = "ENTRY" /\ Sound(w)
  BY <1>2, <1>3 DEF FirstSound, Sound
<1>6. RulesRead(UpTo(w))'
  BY <1>2, <1>3, <1>4, <1>5, DeclarationPassed DEF SecondPass, env
<1>7. TypeOK'
  BY <1>2, <1>3, <1>4 DEF TypeOK, env, main
<1>8. skipping' = (LineAt(w).st # "NONE" /\ (skipping \/ OpensSchedule(w)))
  BY <1>2, <1>3
<1> QED  BY <1>1, <1>2, <1>3, <1>5, <1>6, <1>7, <1>8, SecondGoesOn

LEMMA PassDeclarationKeeps == LoadInv /\ PassDeclaration => LoadInv'
<1> SUFFICES ASSUME LoadInv, PassDeclaration PROVE LoadInv'
  OBVIOUS
<1>1. PICK w : w = Here
  OBVIOUS
<1>2. /\ TypeOK /\ InFile /\ SecondPass(Passed(w)) /\ FirstSound(w)
      /\ phase = "rules" /\ w \in Places /\ LineAt(w).st \in {"DECLARE", "REFUSED"}
      /\ Line = LineAt(w) /\ pos \in 1 .. Len(dir[file].lines)
      /\ (skipping <=> Scheduled(w))
  BY <1>1, AtRules DEF PassDeclaration
<1>3. ~skipping /\ skipping' = (LineAt(w).word = "SCHEDULE") /\ NextLine
      /\ UNCHANGED <<devices, finished, schedule, rules, rule>>
  BY <1>2 DEF PassDeclaration
<1>4. UNCHANGED <<env, main, file>> /\ pos' \in Nat
  BY <1>1, <1>2, <1>3, NextPlace
<1>5. LineAt(w).st = "DECLARE" /\ Sound(w)
  BY <1>2, <1>3 DEF FirstSound, Sound
<1>6. RulesRead(UpTo(w))'
  BY <1>2, <1>3, <1>4, <1>5, DeclarationPassed DEF SecondPass, env
<1>7. TypeOK'
  BY <1>2, <1>3, <1>4 DEF TypeOK, env, main
<1>8. skipping' = (LineAt(w).st # "NONE" /\ (skipping \/ OpensSchedule(w)))
  BY <1>3, <1>5 DEF OpensSchedule
<1> QED  BY <1>1, <1>2, <1>3, <1>5, <1>6, <1>7, <1>8, SecondGoesOn

LEMMA EndBlockKeeps == LoadInv /\ EndBlock => LoadInv'
<1> SUFFICES ASSUME LoadInv, EndBlock PROVE LoadInv'
  OBVIOUS
<1>1. PICK w : w = Here
  OBVIOUS
<1>2. /\ TypeOK /\ InFile /\ SecondPass(Passed(w)) /\ phase = "rules"
      /\ w \in Places /\ LineAt(w).st = "NONE" /\ pos \in 1 .. Len(dir[file].lines)
  BY <1>1, AtRules DEF EndBlock
<1>3. rule' = 0 /\ skipping' = FALSE /\ NextLine
      /\ UNCHANGED <<devices, finished, schedule, rules>>
  BY DEF EndBlock
<1>4. UNCHANGED <<env, main, file>> /\ pos' \in Nat
  BY <1>1, <1>2, <1>3, NextPlace
<1>5. Sound(w)
  BY <1>2 DEF Sound
<1>6. RulesRead(UpTo(w))'
  BY <1>2, <1>3, <1>4, BlockEnds DEF SecondPass, env
<1>7. TypeOK'
  <2>1. rules \in Seq(RuleRecords) /\ Len(rules) \in Nat
    BY <1>2 DEF TypeOK
  <2>2. rule' \in 0 .. Len(rules') /\ skipping' \in BOOLEAN
    <3>1. rules' = rules /\ rule' = 0 /\ skipping' = FALSE
      BY <1>3
    <3>2. 0 \in 0 .. Len(rules)
      BY <2>1
    <3> QED  BY <3>1, <3>2
  <2> QED  BY <1>2, <1>3, <1>4, <2>2 DEF TypeOK, env, main
<1>8. skipping' = (LineAt(w).st # "NONE" /\ (skipping \/ OpensSchedule(w)))
  BY <1>2, <1>3
<1> QED  BY <1>1, <1>2, <1>3, <1>5, <1>6, <1>7, <1>8, SecondGoesOn

(* What the three kinds of rule line have in common.                       *)
LEMMA KnownLine ==
    ASSUME LoadInv, NEW w, w = Here, NEW statements, At("rules", statements),
           statements \subseteq {"IF", "AND", "DO"}, ~skipping, Known
    PROVE  /\ Sound(w) /\ ~Scheduled(w) /\ Reference = ReferenceAt(w)
           /\ Reference \in References /\ Means(Reference, w)
           /\ (LineAt(w).st # "NONE" /\ (skipping \/ OpensSchedule(w))) = FALSE
<1>1. /\ TypeOK /\ FirstPass(Places) /\ FirstSound(w) /\ w \in Places
      /\ LineAt(w).st \in {"IF", "AND", "DO"} /\ Line = LineAt(w) /\ ~Scheduled(w)
  BY AtRules
<1>2. FindByName(LineAt(w).name) # 0 /\ LineAt(w).word \in Words
  BY <1>1 DEF Known
<1>3. Reference = ReferenceAt(w)
  BY <1>1 DEF Reference, ReferenceAt
<1>4. Sound(w)
  BY <1>1, <1>2, DeclaredFound DEF Sound, FirstPass
<1> QED  BY <1>1, <1>2, <1>3, <1>4, ReferenceMeans DEF OpensSchedule

LEMMA AddRuleKeeps == LoadInv /\ AddRule => LoadInv'
<1> SUFFICES ASSUME LoadInv, AddRule PROVE LoadInv'
  OBVIOUS
<1>1. PICK w, reference : w = Here /\ reference = Reference
  OBVIOUS
<1>2. /\ TypeOK /\ InFile /\ SecondPass(Passed(w)) /\ phase = "rules"
      /\ w \in Places /\ LineAt(w).st = "IF" /\ pos \in 1 .. Len(dir[file].lines)
  BY <1>1, AtRules DEF AddRule
<1>3. /\ rules' = Append(rules, [on |-> reference, conditions |-> <<>>,
                                 actions |-> <<>>])
      /\ rule' = Len(rules) + 1 /\ NextLine
      /\ UNCHANGED <<devices, finished, schedule, skipping>>
  BY <1>1 DEF AddRule
<1>4. UNCHANGED <<env, main, file>> /\ pos' \in Nat
  BY <1>1, <1>2, <1>3, NextPlace
<1>5. /\ Sound(w) /\ ~Scheduled(w) /\ reference \in References /\ Means(reference, w)
      /\ (LineAt(w).st # "NONE" /\ (skipping \/ OpensSchedule(w))) = FALSE
      /\ ~skipping
  BY <1>1, KnownLine DEF AddRule
<1>6. RulesRead(UpTo(w))'
  BY <1>2, <1>3, <1>4, <1>5, RuleBegins DEF SecondPass, env
<1>7. TypeOK'
  <2>1. [on |-> reference, conditions |-> <<>>, actions |-> <<>>] \in RuleRecords
    BY <1>5 DEF RuleRecords
  <2>2. rules \in Seq(RuleRecords)
    BY <1>2 DEF TypeOK
  <2>3. rules' \in Seq(RuleRecords) /\ Len(rules') = Len(rules) + 1
    BY <1>3, <2>1, <2>2
  <2>4. rule' \in 0 .. Len(rules')
    BY <1>3, <2>2, <2>3
  <2> QED  BY <1>2, <1>3, <1>4, <2>3, <2>4 DEF TypeOK, env, main
<1>8. skipping' = (LineAt(w).st # "NONE" /\ (skipping \/ OpensSchedule(w)))
  BY <1>2, <1>3, <1>5 DEF TypeOK
<1> QED  BY <1>1, <1>2, <1>3, <1>5, <1>6, <1>7, <1>8, SecondGoesOn

LEMMA TakesKeeps ==
    ASSUME LoadInv, NEW st \in {"AND", "DO"}, At("rules", {st}), ~skipping, Known,
           NEW reference, reference = Reference,
           rules' = IF rule = 0 THEN rules
                    ELSE [rules EXCEPT ![rule] = Grown(@, st, reference)],
           NextLine, UNCHANGED <<devices, finished, schedule, rule, skipping>>
    PROVE  LoadInv'
<1>1. PICK w : w = Here
  OBVIOUS
<1>2. /\ TypeOK /\ InFile /\ SecondPass(Passed(w)) /\ phase = "rules"
      /\ w \in Places /\ LineAt(w).st = st /\ pos \in 1 .. Len(dir[file].lines)
  BY <1>1, AtRules
<1>4. UNCHANGED <<env, main, file>> /\ pos' \in Nat
  BY <1>1, <1>2, NextPlace
<1>5. /\ Sound(w) /\ reference \in References /\ Means(reference, w)
      /\ (LineAt(w).st # "NONE" /\ (skipping \/ OpensSchedule(w))) = FALSE
  BY <1>1, KnownLine
<1>6. RulesRead(UpTo(w))'
  BY <1>2, <1>4, <1>5, RuleTakes DEF SecondPass, env
<1>7. TypeOK'
  <2>1. rules \in Seq(RuleRecords) /\ (rule = 0 \/ rule \in 1 .. Len(rules))
        /\ rule \in 0 .. Len(rules)
    BY <1>2 DEF TypeOK
  <2>2. rules' \in Seq(RuleRecords) /\ Len(rules') = Len(rules)
    <3>1. CASE rule = 0
      BY <2>1, <3>1
    <3>2. CASE rule \in 1 .. Len(rules)
      <4>1. rules[rule] \in RuleRecords /\ rule # 0
        BY <2>1, <3>2
      <4>2. Grown(rules[rule], st, reference) \in RuleRecords
        BY <1>5, <4>1, GrownOf
      <4>3. rules' = [rules EXCEPT ![rule] = Grown(rules[rule], st, reference)]
        BY <4>1
      <4> QED  BY <2>1, <4>2, <4>3
    <3> QED  BY <2>1, <3>1, <3>2
  <2> QED  BY <1>2, <1>4, <2>1, <2>2 DEF TypeOK, env, main
<1>8. skipping' = (LineAt(w).st # "NONE" /\ (skipping \/ OpensSchedule(w)))
  BY <1>2, <1>5 DEF TypeOK
<1> QED  BY <1>1, <1>2, <1>5, <1>6, <1>7, <1>8, SecondGoesOn

LEMMA AddConditionKeeps == LoadInv /\ AddCondition => LoadInv'
<1> SUFFICES ASSUME LoadInv, AddCondition PROVE LoadInv'
  OBVIOUS
<1>1. PICK reference : reference = Reference
  OBVIOUS
<1>2. rules' = IF rule = 0 THEN rules
               ELSE [rules EXCEPT ![rule] = Grown(@, "AND", reference)]
  BY <1>1 DEF AddCondition, Grown
<1> QED  BY <1>1, <1>2, TakesKeeps DEF AddCondition

LEMMA AddActionKeeps == LoadInv /\ AddAction => LoadInv'
<1> SUFFICES ASSUME LoadInv, AddAction PROVE LoadInv'
  OBVIOUS
<1>1. PICK reference : reference = Reference
  OBVIOUS
<1>2. rules' = IF rule = 0 THEN rules
               ELSE [rules EXCEPT ![rule] = Grown(@, "DO", reference)]
  BY <1>1 DEF AddAction, Grown
<1> QED  BY <1>1, <1>2, TakesKeeps DEF AddAction

LEMMA RejectRuleKeeps == LoadInv /\ RejectRule => LoadInv'
<1> SUFFICES ASSUME LoadInv, RejectRule PROVE LoadInv'
  OBVIOUS
<1>1. PICK w : w = Here
  OBVIOUS
<1>2. \/ At("rules", {"ENTRY", "OTHER"})
      \/ At("rules", {"IF", "AND", "DO"}) /\ ~Known
  BY DEF RejectRule
<1>3. /\ TypeOK /\ FirstPass(Places) /\ phase = "rules" /\ w \in Places
      /\ Line = LineAt(w) /\ ~Scheduled(w)
      /\ \/ LineAt(w).st \in {"ENTRY", "OTHER"}
         \/ LineAt(w).st \in {"IF", "AND", "DO"} /\ ~Known
  BY <1>1, <1>2, AtRules DEF RejectRule
<1>4. ~Sound(w)
  BY <1>3, DeclaredFound DEF Sound, Known, FirstPass
<1>5. Stop
  BY DEF RejectRule
<1> QED  BY <1>3, <1>4, <1>5, StopRefuses DEF Accepted

-----------------------------------------------------------------------------
(* From file to file, from pass to pass, and on to the event loop.         *)
LEMMA InitTechnologiesKeeps == LoadInv /\ InitTechnologies => LoadInv'
<1> SUFFICES ASSUME LoadInv, InitTechnologies PROVE LoadInv'
  OBVIOUS
<1>1. /\ TypeOK /\ InFile /\ file = 1 /\ pos = 0 /\ phase = "technologies"
      /\ rules = <<>> /\ rule = 0 /\ ~skipping /\ Readable(file) /\ rv # 0
      /\ DevicesRead(Done)
  BY DEF LoadInv, InitTechnologies, FirstPass
<1>2. /\ types' = OtherTypes \cup (IF built THEN EltakoTypes ELSE {})
      /\ phase' = "declarations"
      /\ UNCHANGED <<dir, built, testing, rv, file, pos, devices, finished,
                     schedule, rules, rule, skipping>>
  BY DEF InitTechnologies, env, lists
<1>3. Done = {} /\ Done' = {}
  <2>1. Done = {}
    BY <1>1, NothingYet DEF Done
  <2>2. Done' = Done
    BY <1>2, SameText DEF Done
  <2> QED  BY <2>1, <2>2
<1>4. FirstPass(Done)'
  <2>1. \A d, v, P : DeviceRead(d, v, P)' <=> DeviceRead(d, v, P)
    BY <1>2, SameText DEF DeviceRead
  <2>2. DevicesRead({})'
    BY <1>1, <1>2, <1>3, <2>1, SameText DEF DevicesRead
  <2> QED  BY <1>3, <2>2 DEF FirstPass
<1>5. Readable(file)' /\ InFile'
  BY <1>1, <1>2 DEF Readable, InFile
<1>6. TypeOK'
  <2>1. types' \subseteq Types
    BY <1>2 DEF Types
  <2> QED  BY <1>1, <1>2, <2>1 DEF TypeOK
<1> QED  BY <1>1, <1>2, <1>4, <1>5, <1>6 DEF LoadInv

(* A step between two files of a pass changes nothing but the position.    *)
LEMMA StepOver ==
    ASSUME LoadInv, phase \in {"declarations", "rules"}, Done' = Done,
           TypeOK', InFile', Readable(file) => Readable(file)',
           UNCHANGED <<env, main, lists>>
    PROVE  LoadInv'
<1>1. UNCHANGED <<dir, phase, rv, types, devices, finished, schedule, rules, rule,
                  skipping>>
  BY DEF env, main, lists
<1>2. /\ FirstPass(Done) => FirstPass(Done)'
      /\ SecondPass(Done) => SecondPass(Done)'
      /\ FirstPass(Places) => FirstPass(Places)'
      /\ Complete => Complete'
  BY <1>1, SameDevices, SameRules, SameFiles, SameText
<1> QED  BY <1>1, <1>2 DEF LoadInv

LEMMA PassFileKeeps == LoadInv /\ PassFile => LoadInv'
<1> SUFFICES ASSUME LoadInv, PassFile PROVE LoadInv'
  OBVIOUS
<1>1. /\ TypeOK /\ phase \in {"declarations", "rules"} /\ pos = 0
      /\ file <= Len(dir) /\ ~dir[file].rules /\ file' = file + 1
      /\ UNCHANGED <<env, main, pos, lists>> /\ dir' = dir
  BY DEF LoadInv, PassFile, InDir, env
<1>2. file \in DOMAIN dir /\ file' \in 1 .. Len(dir) + 1 /\ file \in Nat
  BY <1>1 DEF TypeOK
<1>3. Done' = Done
  BY <1>1, <1>2, FilePassed
<1>4. TypeOK' /\ InFile'
  BY <1>1, <1>2 DEF TypeOK, InFile, env, main, lists
<1>5. Readable(file) => Readable(file)'
  BY <1>1, <1>2 DEF Readable, TypeOK
<1> QED  BY <1>1, <1>3, <1>4, <1>5, StepOver

LEMMA OpenFileKeeps == LoadInv /\ OpenFile => LoadInv'
<1> SUFFICES ASSUME LoadInv, OpenFile PROVE LoadInv'
  OBVIOUS
<1>1. /\ TypeOK /\ phase \in {"declarations", "rules"} /\ pos = 0
      /\ file <= Len(dir) /\ dir[file].rules
  BY DEF LoadInv, OpenFile, InDir
<1>2. file \in DOMAIN dir
  BY <1>1 DEF TypeOK
<1>3. CASE dir[file].readable
  <2>1. pos' = 1 /\ UNCHANGED <<env, main, file, lists>> /\ dir' = dir
    BY <1>3 DEF OpenFile, env
  <2>2. Done' = Done
    BY <1>1, <2>1, FileOpened
  <2>3. Len(dir[file].lines) \in Nat
    <3>1. dir[file] \in FileRecords
      BY <1>1, <1>2 DEF TypeOK
    <3> QED  BY <3>1 DEF FileRecords
  <2>4. TypeOK' /\ InFile'
    <3>1. TypeOK'
      BY <1>1, <2>1 DEF TypeOK, env, main, lists
    <3>2. InFile'
      BY <1>1, <1>2, <1>3, <2>1, <2>3 DEF InFile
    <3> QED  BY <3>1, <3>2
  <2>5. Readable(file) => Readable(file)'
    BY <2>1 DEF Readable
  <2> QED  BY <1>1, <2>1, <2>2, <2>4, <2>5, StepOver
<1>4. CASE ~dir[file].readable
  <2>1. Stop
    BY <1>4 DEF OpenFile
  <2>2. ~Accepted
    BY <1>1, <1>2, <1>4 DEF Accepted
  <2> QED  BY <1>1, <2>1, <2>2, StopRefuses
<1> QED  BY <1>3, <1>4

LEMMA CloseFileKeeps == LoadInv /\ CloseFile => LoadInv'
<1> SUFFICES ASSUME LoadInv, CloseFile PROVE LoadInv'
  OBVIOUS
<1>1. /\ TypeOK /\ phase \in {"declarations", "rules"} /\ pos > 0
      /\ pos > Len(dir[file].lines) /\ file' = file + 1 /\ pos' = 0
      /\ UNCHANGED <<env, main, lists>> /\ dir' = dir
      /\ file \in DOMAIN dir /\ dir[file].rules /\ dir[file].readable
  BY DEF LoadInv, CloseFile, InFile, env
<1>2. file' \in 1 .. Len(dir) + 1 /\ file \in Nat
  BY <1>1 DEF TypeOK
<1>3. Done' = Done
  BY <1>1, FilePassed
<1>4. TypeOK' /\ InFile'
  BY <1>1, <1>2 DEF TypeOK, InFile, env, main, lists
<1>5. Readable(file) => Readable(file)'
  BY <1>1, <1>2 DEF Readable, TypeOK
<1> QED  BY <1>1, <1>3, <1>4, <1>5, StepOver

LEMMA EndPassKeeps == LoadInv /\ EndPass => LoadInv'
<1> SUFFICES ASSUME LoadInv, EndPass PROVE LoadInv'
  OBVIOUS
<1>1. /\ TypeOK /\ phase \in {"declarations", "rules"} /\ pos = 0
      /\ file > Len(dir) /\ rv # 0
  BY DEF LoadInv, EndPass, InDir
<1>2. CASE ~\E f \in DOMAIN dir : dir[f].rules
  <2>1. Stop /\ ~Accepted
    BY <1>2 DEF EndPass, Accepted
  <2> QED  BY <1>1, <2>1, StopRefuses
<1>3. CASE \E f \in DOMAIN dir : dir[f].rules
  <2>1. /\ phase' = (IF phase = "declarations" THEN "rules" ELSE "restore")
        /\ file' = 1 /\ UNCHANGED <<env, rv, types, pos, lists>>
    BY <1>3 DEF EndPass
  <2>2. UNCHANGED <<dir, rv, types, pos, devices, finished, schedule, rules, rule,
                    skipping>>
    BY <2>1 DEF env, lists
  <2>3. Done = Places
    BY <1>1, Everything
  <2>4. TypeOK' /\ InFile'
    <3>1. file' \in 1 .. Len(dir') + 1
      BY <1>1, <2>1, <2>2 DEF TypeOK
    <3>2. TypeOK'
      BY <1>1, <2>1, <3>1 DEF TypeOK, env, lists
    <3> QED  BY <1>1, <2>2, <3>2 DEF InFile
  <2>5. Complete /\ FirstPass(Places)
    <3>1. CASE phase = "declarations"
      <4>1. Readable(file) /\ FirstPass(Places)
        BY <2>3, <3>1 DEF LoadInv
      <4>2. Readable(Len(dir) + 1)
        BY <1>1, <4>1 DEF Readable, TypeOK
      <4> QED  BY <1>3, <4>1, <4>2 DEF Complete
    <3>2. CASE phase = "rules"
      BY <3>2 DEF LoadInv
    <3> QED  BY <1>1, <3>1, <3>2
  <2>6. Complete' /\ FirstPass(Places)'
    BY <2>2, <2>5, SameFiles, SameDevices, SameText
  <2>7. CASE phase = "declarations"
    <3>1. rules = <<>> /\ ~skipping /\ phase' = "rules"
      BY <2>1, <2>7 DEF LoadInv
    <3>2. Done' = {}
      <4>1. file' = 1 /\ pos' = 0
        BY <1>1, <2>1, <2>2
      <4>2. Done' = Passed(<<1, 0>>)
        BY <2>2, <4>1, SameText DEF Done
      <4> QED  BY <1>1, <4>2, NothingYet
    <3>3. SecondPass({})'
      BY <2>2, <3>1, NothingRead, SameRules
    <3> QED  BY <1>1, <2>2, <2>4, <2>6, <3>1, <3>2, <3>3 DEF LoadInv
  <2>8. CASE phase = "rules"
    <3>1. SecondPass(Places) /\ phase' = "restore"
      BY <2>1, <2>3, <2>8 DEF LoadInv
    <3>2. SecondPass(Places)'
      BY <2>2, <3>1, SameRules, SameText
    <3> QED  BY <1>1, <2>2, <2>4, <2>6, <3>1, <3>2 DEF LoadInv, Loaded
  <2> QED  BY <1>1, <2>7, <2>8
<1> QED  BY <1>2, <1>3

(* Once everything is read nothing is forgotten.                           *)
LEMMA LoadedStays ==
    ASSUME UNCHANGED <<env, types, file, pos, lists>>
    PROVE  Loaded' <=> Loaded
<1>1. UNCHANGED <<dir, types, devices, finished, schedule, rules, rule, skipping>>
  BY DEF env, lists
<1> QED  BY <1>1, SameFiles, SameDevices, SameRules, SameText DEF Loaded

LEMMA RestoreKeeps == LoadInv /\ Restore => LoadInv'
<1> SUFFICES ASSUME LoadInv, Restore PROVE LoadInv'
  OBVIOUS
<1>1. /\ TypeOK /\ InFile /\ Loaded /\ rv # 0
      /\ UNCHANGED <<env, types, file, pos, lists>>
      /\ \/ testing /\ phase' = "stopped" /\ rv' = 0
         \/ ~testing /\ phase' = "running" /\ rv' = rv
  BY DEF LoadInv, Restore
<1>2. TypeOK' /\ InFile'
  BY <1>1 DEF TypeOK, InFile, env, lists
<1>3. Loaded'
  BY <1>1, LoadedStays
<1> QED  BY <1>1, <1>2, <1>3 DEF LoadInv, env

LEMMA TerminateKeeps == LoadInv /\ Terminate => LoadInv'
<1> SUFFICES ASSUME LoadInv, Terminate PROVE LoadInv'
  OBVIOUS
<1>1. /\ TypeOK /\ InFile /\ Loaded /\ phase' = "stopped" /\ rv' = 0
      /\ UNCHANGED <<env, types, file, pos, lists>>
  BY DEF LoadInv, Terminate
<1>2. TypeOK' /\ InFile'
  BY <1>1 DEF TypeOK, InFile, env, lists
<1>3. Loaded'
  BY <1>1, LoadedStays
<1> QED  BY <1>1, <1>2, <1>3 DEF LoadInv

LEMMA LoadNext == LoadInv /\ [Next]_vars => LoadInv'
<1> SUFFICES ASSUME LoadInv, [Next]_vars PROVE LoadInv'
  OBVIOUS
<1>1. CASE UNCHANGED vars
  <2>1. /\ UNCHANGED <<env, types, file, pos, lists, phase, rv>>
        /\ UNCHANGED <<dir, built, testing, devices, finished, schedule, rules, rule,
                       skipping>>
    BY <1>1 DEF vars, main, env, lists
  <2>2. /\ Loaded' <=> Loaded
        /\ Done' = Done /\ (Complete' <=> Complete) /\ (Accepted' <=> Accepted)
        /\ (Readable(file)' <=> Readable(file))
    BY <2>1, LoadedStays, SameFiles, SameText DEF Done
  <2>3. /\ FirstPass(Done)' <=> FirstPass(Done)
        /\ FirstPass(Places)' <=> FirstPass(Places)
        /\ SecondPass(Done)' <=> SecondPass(Done)
    BY <2>1, <2>2, SameDevices, SameRules, SameText
  <2>4. TypeOK' /\ InFile'
    BY <2>1 DEF LoadInv, TypeOK, InFile
  <2> QED  BY <2>1, <2>2, <2>3, <2>4 DEF LoadInv
<1> QED  BY <1>1, InitTechnologiesKeeps, RestoreKeeps, PassFileKeeps, OpenFileKeeps,
            CloseFileKeeps, EndPassKeeps, DeclareKeeps, AddEntryKeeps, FinishKeeps,
            PassRuleKeeps, RejectDeclarationKeeps, SkipLineKeeps,
            PassDeclarationKeeps, AddRuleKeeps, AddConditionKeeps, AddActionKeeps,
            EndBlockKeeps, RejectRuleKeeps, TerminateKeeps
         DEF Next, Load

-----------------------------------------------------------------------------
LEMMA LoadCorrect == Spec => []LoadInv
  BY LoadInit, LoadNext, PTL DEF Spec

(* However the directory and its files look, the lists, the statics of the *)
(* parsers and the state of main() are of their types: a reference always  *)
(* is to a device, the static schedule is one of the devices and the       *)
(* static rule one of the rules.                                           *)
THEOREM StartupTypes == Spec => []TypeOK
<1>1. LoadInv => TypeOK
  BY DEF LoadInv
<1> QED  BY <1>1, LoadCorrect, PTL

(* For every rule directory: once the engine runs, its devices and rules   *)
(* are those that the text of all files spells out, although two passes    *)
(* read it line by line and keep statics from one file to the next.        *)
THEOREM LoadsText == Spec => []LoadedAsWritten
<1>1. ASSUME LoadInv, phase = "running"
      PROVE  DevicesAsWritten(Places) /\ RulesAsWritten(Places)
  <2>1. DevicesRead(Places) /\ RulesRead(Places) /\ devices \in Seq(DeviceRecords)
    BY <1>1 DEF LoadInv, Loaded, FirstPass, SecondPass, TypeOK
  <2>2. PICK at \in Enumerations(Len(devices), Declarations(Places)) :
           \A d \in 1 .. Len(devices) : DeviceRead(d, at[d], Places)
    BY <2>1 DEF DevicesRead
  <2>3. ASSUME NEW d \in 1 .. Len(devices)
        PROVE  devices[d] = [name |-> LineAt(at[d]).name, type |-> LineAt(at[d]).word,
                             entries |-> Cardinality(Entries(at[d], Places))]
    <3>1. devices[d] \in DeviceRecords
      BY <2>1
    <3>2. devices[d] = [name |-> devices[d].name, type |-> devices[d].type,
                        entries |-> devices[d].entries]
      BY <3>1 DEF DeviceRecords
    <3> QED  BY <2>2, <3>2 DEF DeviceRead
  <2>4. DevicesAsWritten(Places)
    BY <2>2, <2>3 DEF DevicesAsWritten
  <2>5. RulesAsWritten(Places)
    BY <2>1 DEF RulesRead, RuleRead, RulesAsWritten
  <2> QED  BY <2>4, <2>5
<1>2. LoadInv => LoadedAsWritten
  BY <1>1 DEF LoadedAsWritten
<1> QED  BY <1>2, LoadCorrect, PTL

(* For every rule directory: when the engine runs, the schedules without   *)
(* a condition are exactly those whose block no empty line ends.           *)
THEOREM SchedulesEnded == Spec => []SchedulesStarted
<1>1. ASSUME LoadInv, phase = "running"
      PROVE  \E at \in Enumerations(Len(devices), Declarations(Places)) :
                \A d \in 1 .. Len(devices) :
                   devices[d].type = "SCHEDULE" =>
                      (d \in finished <=> Blank(After(at[d], Places)))
  <2>1. PICK at \in Enumerations(Len(devices), Declarations(Places)) :
           \A d \in 1 .. Len(devices) : DeviceRead(d, at[d], Places)
    BY <1>1 DEF LoadInv, Loaded, FirstPass, DevicesRead
  <2> QED  BY <2>1 DEF DeviceRead, Open
<1>2. LoadInv => SchedulesStarted
  BY <1>1 DEF SchedulesStarted
<1> QED  BY <1>2, LoadCorrect, PTL

(* For every rule directory: the engine runs, and a test of the            *)
(* configuration succeeds, exactly when every rule file opens and every    *)
(* line of them is sound.                                                  *)
THEOREM VerdictIsRight == Spec => []Verdict
<1>1. ASSUME TypeOK, Loaded PROVE Accepted
  <2>1. Readable(Len(dir) + 1) /\ \E f \in DOMAIN dir : dir[f].rules
    BY <1>1 DEF Loaded, Complete
  <2>2. \A w \in Places : Sound(w)
    BY <1>1 DEF Loaded, SecondPass
  <2>3. \A f \in DOMAIN dir : f < Len(dir) + 1
    BY <1>1 DEF TypeOK
  <2> QED  BY <2>1, <2>2, <2>3 DEF Accepted, Readable
<1>2. LoadInv => Verdict
  BY <1>1 DEF LoadInv, TypeOK, Verdict
<1> QED  BY <1>2, LoadCorrect, PTL
=============================================================================
