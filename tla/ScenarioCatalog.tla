--------------------------- MODULE ScenarioCatalog ---------------------------
(***************************************************************************)
(* The scenario catalog: PostgresScenarioDefinitionStore and               *)
(* PostgresLorebookStore, ScenarioTransferService, AdminService's and      *)
(* admin_routes' requests on them, the import of the curated files at      *)
(* boot, and what /play takes from the catalog.  A request reads, then     *)
(* writes in later transactions; requests run concurrently.                *)
(***************************************************************************)
EXTENDS Integers, Sequences

CONSTANTS
  Scenarios,
  Curated,    \* those that ship as files, with their lore
  Requests,
  None,
  MaxStamps   \* bound: how often a scenario is retired

VARIABLES
  rows,       \* scenario_definitions: existing, offered to the caller, deleted_at
  lore,       \* a lore entry of each scenario: is it there
  req,        \* the requests being served
  stamps      \* history: the last value of the clock that retirements carry

vars == <<rows, lore, req, stamps>>

Idle == [op |-> "idle", scenario |-> None, step |-> "done", raced |-> FALSE]

RowOps == {"create", "put", "import", "retire", "restore", "play", "addLore"}
LoreOps == {"editLore", "dropLore"}
Saving == {"create", "put", "import"}

Init ==
  /\ rows = [s \in Scenarios |-> [there |-> FALSE, open |-> TRUE, stamp |-> 0]]
  /\ lore = [s \in Scenarios |-> FALSE]
  /\ req = [r \in Requests |-> Idle]
  /\ stamps = 0

\* Request r goes on to its next step, and those that have read what it wrote are raced.
Proceed(r, step, ops) ==
  req' = [q \in Requests |->
    IF q = r THEN IF step = "done" THEN Idle ELSE [req[r] EXCEPT !.step = step]
    ELSE IF req[q].op \in ops /\ req[q].scenario = req[r].scenario
      THEN [req[q] EXCEPT !.raced = TRUE] ELSE req[q]]
-----------------------------------------------------------------------------
(* What the code decides on.                                               *)

\* is_active and is_playable_by.
Offered(row) == row.there /\ row.stamp = 0 /\ row.open

\* The read before the write: 409 when a scenario to create exists, 404 when another does
\* not, /play refused; an import reads nothing.
Passes(op, s) ==
  CASE op = "create" -> ~rows[s].there
    [] op \in {"put", "retire", "restore", "addLore"} -> rows[s].there
    [] op = "play" -> Offered(rows[s])
    [] op \in LoreOps -> lore[s]
    [] op = "import" -> TRUE

Read(r, op, s) ==
  /\ req[r] = Idle
  /\ Passes(op, s)
  /\ req' = [req EXCEPT ![r] = [op |-> op, scenario |-> s, step |-> "write", raced |-> FALSE]]
  /\ UNCHANGED <<rows, lore, stamps>>
-----------------------------------------------------------------------------
(* The stores.                                                             *)

\* Mutant: the upsert writes deleted_at too.
SavedStamped(row, open) == [there |-> TRUE, open |-> open, stamp |-> 0]

\* save upserts everything but deleted_at.
Saved(row, open) == [row EXCEPT !.there = TRUE, !.open = open]

\* delete stamps a row that has no stamp.
Retired(row) == IF row.there /\ row.stamp = 0 THEN [row EXCEPT !.stamp = stamps + 1] ELSE row

SaveScenario(r) ==
  LET s == req[r].scenario IN
  /\ req[r].op \in Saving /\ req[r].step = "write"
  /\ \E open \in BOOLEAN : rows' = [rows EXCEPT ![s] = Saved(@, open)]
  /\ Proceed(r, "lore", RowOps)
  /\ UNCHANGED <<lore, stamps>>

\* A payload may bring lore along; the entries are upserted one by one afterwards.
SaveScenarioLore(r) ==
  LET s == req[r].scenario IN
  /\ req[r].step = "lore"
  /\ \E brings \in BOOLEAN : lore' = [lore EXCEPT ![s] = @ \/ brings]
  /\ Proceed(r, "done", LoreOps)
  /\ UNCHANGED <<rows, stamps>>

Retire(r) ==
  LET s == req[r].scenario IN
  /\ req[r].op = "retire" /\ req[r].step = "write"
  /\ stamps < MaxStamps
  /\ rows' = [rows EXCEPT ![s] = Retired(@)]
  /\ stamps' = stamps + 1
  /\ Proceed(r, "done", RowOps)
  /\ UNCHANGED <<lore>>

Restore(r) ==
  LET s == req[r].scenario IN
  /\ req[r].op = "restore" /\ req[r].step = "write"
  /\ rows' = [rows EXCEPT ![s].stamp = 0]
  /\ Proceed(r, "done", RowOps)
  /\ UNCHANGED <<lore, stamps>>

\* create_lorebook_entry takes a fresh id and update_lorebook_entry rewrites what it read:
\* both end in the same upsert.
SaveLore(r) ==
  LET s == req[r].scenario IN
  /\ req[r].op \in {"addLore", "editLore"} /\ req[r].step = "write"
  /\ lore' = [lore EXCEPT ![s] = TRUE]
  /\ Proceed(r, "done", LoreOps)
  /\ UNCHANGED <<rows, stamps>>

DropLore(r) ==
  LET s == req[r].scenario IN
  /\ req[r].op = "dropLore" /\ req[r].step = "write"
  /\ lore' = [lore EXCEPT ![s] = FALSE]
  /\ Proceed(r, "done", LoreOps)
  /\ UNCHANGED <<rows, stamps>>

\* /play begins a story of the definition it read.
BeginStory(r) ==
  /\ req[r].op = "play" /\ req[r].step = "write"
  /\ Proceed(r, "done", {})
  /\ UNCHANGED <<rows, lore, stamps>>
-----------------------------------------------------------------------------
(* The process ends, whatever it was doing; at the next start it imports the curated     *)
(* files, when the database answers, before it serves anything.                          *)
Reboot(imports) ==
  /\ req' = [r \in Requests |-> Idle]
  /\ rows' = IF imports THEN [s \in Scenarios |-> IF s \in Curated THEN Saved(rows[s], TRUE) ELSE rows[s]]
                        ELSE rows
  /\ lore' = [s \in Scenarios |-> lore[s] \/ (imports /\ s \in Curated)]
  /\ UNCHANGED <<stamps>>

Next ==
  \/ \E r \in Requests :
       \/ \E op \in RowOps \cup LoreOps, s \in Scenarios : Read(r, op, s)
       \/ SaveScenario(r) \/ SaveScenarioLore(r) \/ Retire(r) \/ Restore(r)
       \/ SaveLore(r) \/ DropLore(r) \/ BeginStory(r)
  \/ \E imports \in BOOLEAN : Reboot(imports)

Spec == Init /\ [][Next]_vars
-----------------------------------------------------------------------------
(* Properties.                                                             *)

\* The request that took this step: its write is done.
Wrote(r, op) ==
  /\ req[r].op = op /\ req[r].step = "write" /\ req'[r].step # "write"
  /\ req' # [q \in Requests |-> Idle] \/ \A q \in Requests \ {r} : req[q] = Idle

\* What was withdrawn comes back only by a request for it.  A retired scenario keeps the
\* stamp of when it first was, over saves that read it before, imports and reboots, until it
\* is restored (save's and delete's docstrings); no story begins in one, unless it was
\* offered when /play looked; and rewriting lore never brings a deleted entry back, unless
\* the edit had read it before.
WithdrawnStaysAway ==
  [][/\ \A s \in Scenarios : rows[s].stamp # 0 /\ rows'[s].stamp # rows[s].stamp =>
          \E r \in Requests : req[r].scenario = s /\ Wrote(r, "restore") /\ rows'[s].stamp = 0
     /\ \A r \in Requests : Wrote(r, "play") /\ ~req[r].raced =>
          rows[req[r].scenario].stamp = 0 /\ rows[req[r].scenario].open
     /\ \A r \in Requests : Wrote(r, "editLore") /\ ~req[r].raced => lore[req[r].scenario]]_vars
=============================================================================
