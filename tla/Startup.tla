------------------------------ MODULE Startup -------------------------------
(***************************************************************************)
(* How the engine comes up (main.c): the technologies register the device  *)
(* types, the rule files are read twice, once for the declarations and     *)
(* once for the rules (rule_parser.c), the saved states are restored, and  *)
(* the event loop runs, or the process ends when only the configuration    *)
(* was to be tested.  A file is the sequence of what fgets returns; a line *)
(* is reduced to its statement, its first word after it (the name of a     *)
(* device) and the next one (a device type, an event, a condition or an    *)
(* action).  The parsers keep the schedule, the rule and the flag they are *)
(* busy with in static variables, which outlive the file.                  *)
(***************************************************************************)
EXTENDS Integers, FiniteSets, SequencesExt

CONSTANTS
    Names,          \* the names of devices
    Words,          \* events, conditions and actions a rule may name
    Unknown,        \* a word that is none of them
    EltakoTypes,    \* device types of the Eltako bus
    OtherTypes,     \* device types of every other technology, and SCHEDULE
    Dirs            \* the rule directories: sequences of files, as readdir
                    \* returns them

Types == EltakoTypes \cup OtherTypes

(* line_parse: a comment, an empty line and a line with too few words are  *)
(* all NULL, here NONE.  REFUSED is a declaration with options the type's  *)
(* parser does not accept, OTHER a line that begins with no statement of   *)
(* the rule language; in the block of a schedule, ENTRY is a line that     *)
(* schedule_parse_line can read.                                           *)
Statements ==
    {"NONE", "DECLARE", "REFUSED", "ENTRY", "IF", "AND", "DO", "OTHER"}

LineRecords ==
    [st : Statements, name : Names, word : Types \cup Words \cup {Unknown}]

FileRecords == [rules : BOOLEAN, readable : BOOLEAN, lines : Seq(LineRecords)]

ASSUME StartupAssumption ==
    /\ EltakoTypes \cap OtherTypes = {}
    /\ "SCHEDULE" \in OtherTypes
    /\ Unknown \notin Types \cup Words
    /\ Types \cap Words = {}
    /\ Dirs \subseteq Seq(FileRecords)

VARIABLES
    dir,        \* arguments.rulesdir, the same in both passes
    built,      \* the build has the bus in it (ENABLE_MOD_ELTAKO)
    testing,    \* arguments.config_test
    phase,      \* where main() is
    rv,         \* what main() returns
    types,      \* device_types
    file, pos,  \* the file being read, and the line; pos = 0: not yet open
    devices,    \* the device list
    finished,   \* the schedules schedule_parsing_finished was called for
    schedule,   \* the first pass's static schedule, 0 for NULL
    rules,      \* the rule list
    rule,       \* the second pass's static rule, 0 for NULL
    skipping    \* the second pass's static flag schedule

env   == <<dir, built, testing>>
main  == <<phase, rv, types>>
lists == <<devices, finished, schedule, rules, rule, skipping>>
vars  == <<env, main, file, pos, lists>>

DeviceRecords == [name : Names, type : Types, entries : Nat]
References == [device : Nat \ {0}, word : Words]
RuleRecords ==
    [on : References, conditions : Seq(References), actions : Seq(References)]

TypeOK ==
    /\ dir \in Seq(FileRecords)
    /\ built \in BOOLEAN /\ testing \in BOOLEAN
    /\ phase \in {"technologies", "declarations", "rules", "restore",
                  "running", "stopped"}
    /\ rv \in {-1, 0}
    /\ types \subseteq Types
    /\ file \in 1 .. Len(dir) + 1
    /\ pos \in Nat
    /\ devices \in Seq(DeviceRecords)
    /\ finished \subseteq DOMAIN devices
    /\ schedule \in 0 .. Len(devices)
    /\ rules \in Seq(RuleRecords)
    /\ rule \in 0 .. Len(rules)
    /\ skipping \in BOOLEAN

Init ==
    /\ dir \in Dirs /\ built \in BOOLEAN /\ testing \in BOOLEAN
    /\ phase = "technologies" /\ rv = -1 /\ types = {}
    /\ file = 1 /\ pos = 0
    /\ devices = <<>> /\ finished = {} /\ schedule = 0
    /\ rules = <<>> /\ rule = 0 /\ skipping = FALSE

-----------------------------------------------------------------------------
(* technologies_init: a technology that is built in registers its types.   *)
(* None can fail: when the serial port cannot be opened, the function that *)
(* opens it answers -1 for a bool, which is true, and the bus comes up all *)
(* the same.                                                               *)
InitTechnologies ==
    /\ phase = "technologies"
    /\ types' = OtherTypes \cup (IF built THEN EltakoTypes ELSE {})
    /\ phase' = "declarations"
    /\ UNCHANGED <<env, rv, file, pos, lists>>

(* goto stop in main, with rv still -1.                                    *)
Stop ==
    /\ phase' = "stopped"
    /\ UNCHANGED <<env, rv, types, file, pos, lists>>

(* rules_read_dir: files whose name does not end in .rules are passed over.*)
InDir == phase \in {"declarations", "rules"} /\ pos = 0

PassFile ==
    /\ InDir /\ file <= Len(dir) /\ ~dir[file].rules
    /\ file' = file + 1
    /\ UNCHANGED <<env, main, pos, lists>>

OpenFile ==
    /\ InDir /\ file <= Len(dir) /\ dir[file].rules
    /\ IF dir[file].readable
       THEN pos' = 1 /\ UNCHANGED <<env, main, file, lists>>
       ELSE Stop

CloseFile ==
    /\ phase \in {"declarations", "rules"} /\ pos > 0
    /\ pos > Len(dir[file].lines)
    /\ file' = file + 1 /\ pos' = 0
    /\ UNCHANGED <<env, main, lists>>

(* At the end of the directory; ret is still -1 when nothing was read.     *)
EndPass ==
    /\ InDir /\ file > Len(dir)
    /\ IF \E f \in DOMAIN dir : dir[f].rules
       THEN /\ phase' = (IF phase = "declarations" THEN "rules" ELSE "restore")
            /\ file' = 1
            /\ UNCHANGED <<env, rv, types, pos, lists>>
       ELSE Stop

-----------------------------------------------------------------------------
Line == dir[file].lines[pos]

At(pass, statements) ==
    /\ phase = pass /\ pos > 0
    /\ pos \in 1 .. Len(dir[file].lines)
    /\ Line.st \in statements

NextLine == pos' = pos + 1 /\ UNCHANGED <<env, main, file>>

(* The first pass, rules_read_file_declarations.                           *)
Declare ==
    /\ At("declarations", {"DECLARE"}) /\ schedule = 0 /\ Line.word \in types
    /\ devices' = Append(devices,
                         [name |-> Line.name, type |-> Line.word, entries |-> 0])
    /\ schedule' = IF Line.word = "SCHEDULE" THEN Len(devices) + 1 ELSE 0
    /\ NextLine
    /\ UNCHANGED <<finished, rules, rule, skipping>>

AddEntry ==
    /\ At("declarations", {"ENTRY"}) /\ schedule # 0
    /\ devices' = [devices EXCEPT ![schedule].entries = @ + 1]
    /\ NextLine
    /\ UNCHANGED <<finished, schedule, rules, rule, skipping>>

(* Mutant: the schedule is let go of without schedule_parsing_finished.    *)
FinishForgetsCondition ==
    /\ At("declarations", {"NONE"})
    /\ schedule' = 0
    /\ NextLine
    /\ UNCHANGED <<devices, finished, rules, rule, skipping>>

FinishSchedule ==
    /\ At("declarations", {"NONE"})
    /\ finished' = finished \cup ({schedule} \ {0})
    /\ schedule' = 0
    /\ NextLine
    /\ UNCHANGED <<devices, rules, rule, skipping>>

PassRuleLine ==
    /\ At("declarations", {"IF", "AND", "DO"}) /\ schedule = 0
    /\ NextLine
    /\ UNCHANGED lists

RejectDeclaration ==
    /\ \/ At("declarations", {"REFUSED", "OTHER"})
       \/ At("declarations", {"ENTRY"}) /\ schedule = 0
       \/ At("declarations", {"DECLARE"}) /\ (schedule # 0 \/ Line.word \notin types)
       \/ At("declarations", {"IF", "AND", "DO"}) /\ schedule # 0
    /\ Stop

-----------------------------------------------------------------------------
(* device_list_find_by_name: the first device of that name.                *)
FindByName(name) == SelectInSeq(devices, LAMBDA d : d.name = name)

Known == FindByName(Line.name) # 0 /\ Line.word \in Words
Reference == [device |-> FindByName(Line.name), word |-> Line.word]

(* The second pass, rules_read_file_rules.                                 *)
SkipLine ==
    /\ At("rules", Statements \ {"NONE"}) /\ skipping
    /\ NextLine
    /\ UNCHANGED lists

PassDeclaration ==
    /\ At("rules", {"DECLARE", "REFUSED"}) /\ ~skipping
    /\ skipping' = (Line.word = "SCHEDULE")
    /\ NextLine
    /\ UNCHANGED <<devices, finished, schedule, rules, rule>>

AddRule ==
    /\ At("rules", {"IF"}) /\ ~skipping /\ Known
    /\ rules' = Append(rules, [on |-> Reference, conditions |-> <<>>, actions |-> <<>>])
    /\ rule' = Len(rules) + 1
    /\ NextLine
    /\ UNCHANGED <<devices, finished, schedule, skipping>>

(* Without a rule the line is called fatal in the log, and dropped:        *)
(* rule_add_condition and rule_add_action return at a NULL rule.           *)
AddCondition ==
    /\ At("rules", {"AND"}) /\ ~skipping /\ Known
    /\ rules' = IF rule = 0 THEN rules
                ELSE [rules EXCEPT ![rule].conditions = Append(@, Reference)]
    /\ NextLine
    /\ UNCHANGED <<devices, finished, schedule, rule, skipping>>

AddAction ==
    /\ At("rules", {"DO"}) /\ ~skipping /\ Known
    /\ rules' = IF rule = 0 THEN rules
                ELSE [rules EXCEPT ![rule].actions = Append(@, Reference)]
    /\ NextLine
    /\ UNCHANGED <<devices, finished, schedule, rule, skipping>>

(* Mutant: the rule is not let go of at the end of its block.              *)
EndKeepsRule ==
    /\ At("rules", {"NONE"})
    /\ skipping' = FALSE
    /\ NextLine
    /\ UNCHANGED <<devices, finished, schedule, rules, rule>>

EndBlock ==
    /\ At("rules", {"NONE"})
    /\ rule' = 0 /\ skipping' = FALSE
    /\ NextLine
    /\ UNCHANGED <<devices, finished, schedule, rules>>

(* Mutant: a word that is not known is not looked for.                     *)
RejectDevicesOnly ==
    /\ ~skipping
    /\ \/ At("rules", {"ENTRY", "OTHER"}) /\ Stop
       \/ /\ At("rules", {"IF", "AND", "DO"}) /\ FindByName(Line.name) = 0
          /\ Stop
       \/ /\ At("rules", {"IF", "AND", "DO"}) /\ FindByName(Line.name) # 0
          /\ ~Known /\ NextLine /\ UNCHANGED lists

RejectRule ==
    /\ ~skipping
    /\ \/ At("rules", {"ENTRY", "OTHER"})
       \/ At("rules", {"IF", "AND", "DO"}) /\ ~Known
    /\ Stop

-----------------------------------------------------------------------------
(* store_init cannot fail; then the test ends, or the event loop runs.     *)
Restore ==
    /\ phase = "restore"
    /\ IF testing THEN phase' = "stopped" /\ rv' = 0
                  ELSE phase' = "running" /\ rv' = rv
    /\ UNCHANGED <<env, types, file, pos, lists>>

(* SIGTERM and SIGINT stop the loop.                                       *)
Terminate ==
    /\ phase = "running"
    /\ phase' = "stopped" /\ rv' = 0
    /\ UNCHANGED <<env, types, file, pos, lists>>

Load ==
    \/ InitTechnologies \/ Restore
    \/ PassFile \/ OpenFile \/ CloseFile \/ EndPass
    \/ Declare \/ AddEntry \/ FinishSchedule \/ PassRuleLine \/ RejectDeclaration
    \/ SkipLine \/ PassDeclaration \/ AddRule \/ AddCondition \/ AddAction
    \/ EndBlock \/ RejectRule

Next == Load \/ Terminate

Spec == Init /\ [][Next]_vars

-----------------------------------------------------------------------------
(* What the files say, read as a whole: places in the text of all rule     *)
(* files, one file after the other, since nothing is reset between two.    *)
Places == UNION {{f} \X DOMAIN dir[f].lines : f \in {g \in DOMAIN dir : dir[g].rules}}

LineAt(w) == dir[w[1]].lines[w[2]]

Before(v, w) == v[1] < w[1] \/ (v[1] = w[1] /\ v[2] < w[2])

After(w, P) == {v \in P : Before(w, v)}

UpTo(w) == {v \in Places : v = w \/ Before(v, w)}

Blank(P) == \E w \in P : LineAt(w).st = "NONE"

(* No comment and no empty line from the line after v up to w.             *)
SameBlock(v, w) == Before(v, w) /\ ~Blank(After(v, UpTo(w)))

OpensSchedule(w) == LineAt(w).st = "DECLARE" /\ LineAt(w).word = "SCHEDULE"

Scheduled(w) == \E v \in Places : SameBlock(v, w) /\ OpensSchedule(v)

(* The ways, of which there is one, to number n places of S in the order   *)
(* of the text and leave none out.                                         *)
Enumerations(n, S) ==
    {at \in [1 .. n -> S] :
        /\ \A i, j \in 1 .. n : i < j => Before(at[i], at[j])
        /\ \A w \in S : \E i \in 1 .. n : at[i] = w}

(* What the places P of the text declare.                                  *)
Declarations(P) == {w \in P : LineAt(w).st = "DECLARE" /\ ~Scheduled(w)}

Entries(w, P) == IF LineAt(w).word = "SCHEDULE" THEN {v \in P : SameBlock(w, v)} ELSE {}

DevicesAsWritten(P) ==
    \E at \in Enumerations(Len(devices), Declarations(P)) :
        \A d \in 1 .. Len(devices) :
            devices[d] = [name |-> LineAt(at[d]).name, type |-> LineAt(at[d]).word,
                          entries |-> Cardinality(Entries(at[d], P))]

(* A reference means the first device of its name.                         *)
Means(reference, w) ==
    /\ reference.word = LineAt(w).word
    /\ reference.device \in 1 .. Len(devices)
    /\ devices[reference.device].name = LineAt(w).name
    /\ \A d \in 1 .. reference.device - 1 : devices[d].name # LineAt(w).name

Refers(references, S) ==
    \E at \in Enumerations(Len(references), S) :
        \A n \in 1 .. Len(references) : Means(references[n], at[n])

(* The lines of the rule at w: those of its block up to the next IF.       *)
Body(w, st, P) ==
    {v \in P : /\ SameBlock(w, v) /\ LineAt(v).st = st
               /\ \A u \in After(w, UpTo(v)) : LineAt(u).st # "IF"}

RuleHeads(P) == {w \in P : LineAt(w).st = "IF" /\ ~Scheduled(w)}

RulesAsWritten(P) ==
    \E at \in Enumerations(Len(rules), RuleHeads(P)) :
        \A r \in 1 .. Len(rules) :
            /\ Means(rules[r].on, at[r])
            /\ Refers(rules[r].conditions, Body(at[r], "AND", P))
            /\ Refers(rules[r].actions, Body(at[r], "DO", P))

(* Once the engine runs, its devices and its rules are those the files     *)
(* spell out, in their order, and a rule means the first device of a name  *)
(* wherever that is declared; an AND or a DO that a comment cuts off from  *)
(* its IF is in no rule (rule_parser.c, both passes).                      *)
LoadedAsWritten ==
    phase = "running" => DevicesAsWritten(Places) /\ RulesAsWritten(Places)

(* The engine runs with a schedule that has not computed its condition     *)
(* only when no empty line ends the schedule's block before the files do.  *)
SchedulesStarted ==
    phase = "running" =>
        \E at \in Enumerations(Len(devices), Declarations(Places)) :
            \A d \in 1 .. Len(devices) :
                devices[d].type = "SCHEDULE" =>
                    (d \in finished <=> Blank(After(at[d], Places)))

Declared(name) == \E w \in Declarations(Places) : LineAt(w).name = name

Sound(w) ==
    \/ LineAt(w).st = "NONE"
    \/ Scheduled(w) /\ LineAt(w).st = "ENTRY"
    \/ ~Scheduled(w) /\ LineAt(w).st = "DECLARE" /\ LineAt(w).word \in types
    \/ /\ ~Scheduled(w) /\ LineAt(w).st \in {"IF", "AND", "DO"}
       /\ Declared(LineAt(w).name) /\ LineAt(w).word \in Words

Accepted ==
    /\ \E f \in DOMAIN dir : dir[f].rules
    /\ \A f \in DOMAIN dir : dir[f].rules => dir[f].readable
    /\ \A w \in Places : Sound(w)

(* The engine runs, and a test of the configuration succeeds, for exactly  *)
(* the directories every line of which is sound (main.c): what the test    *)
(* accepts starts, and what starts has been read to its end.               *)
Verdict ==
    /\ phase = "running" => Accepted /\ ~testing
    /\ phase = "stopped" => (rv = 0 <=> Accepted)
=============================================================================
