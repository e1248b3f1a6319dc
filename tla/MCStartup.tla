----------------------------- MODULE MCStartup ------------------------------
(* Directories of a file of at most two blocks and a file of one.           *)
EXTENDS Startup

L(st, name, word) == [st |-> st, name |-> name, word |-> word]
Empty == L("NONE", "lamp", Unknown)
PlanEntry == L("ENTRY", "plan", Unknown)

Blocks ==
    { <<Empty>>,
      <<L("DECLARE", "lamp", "FSR14"), L("DECLARE", "plan", "BOOL")>>,
      <<L("DECLARE", "lamp", "BOOL")>>,
      <<L("DECLARE", "plan", "SCHEDULE"), PlanEntry, Empty>>,
      <<L("DECLARE", "plan", "SCHEDULE"), PlanEntry, PlanEntry>>,
      <<L("IF", "plan", "SET"), L("AND", "plan", "SET"), L("DO", "lamp", "SET")>>,
      <<L("IF", "lamp", "SET"), Empty, L("DO", "lamp", "SET")>>,
      <<L("DO", "lamp", "SET"), L("AND", "lamp", "SET")>>,
      <<L("IF", "lamp", Unknown)>>,
      <<L("REFUSED", "lamp", "BOOL"), L("OTHER", "lamp", Unknown)>> }

TextsOf == {<<>>} \cup Blocks \cup {a \o b : a, b \in Blocks}

File(suffix, opens, text) ==
    [rules |-> suffix, readable |-> opens, lines |-> text]

MCDirs ==
    {<<>>, <<File(FALSE, TRUE, <<PlanEntry>>)>>, <<File(TRUE, FALSE, <<Empty>>)>>}
    \cup {<<File(TRUE, TRUE, t)>> : t \in TextsOf}
    \cup {<<File(TRUE, TRUE, t), File(TRUE, TRUE, b)>> : t \in TextsOf, b \in Blocks}
    \cup {<<File(FALSE, TRUE, <<PlanEntry>>), File(TRUE, r, b)>> :
             r \in BOOLEAN, b \in Blocks}
=============================================================================
