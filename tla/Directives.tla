----------------------------- MODULE Directives -----------------------------
(***************************************************************************)
(* A story's directives (core/scenario/session_directives.py): rules with  *)
(* the ids a player removes them by, and the language, director notes and  *)
(* memory switch beside them in the row, edited by Telegram commands       *)
(* (SessionDirectiveService) and by the panel (AdminService).  Every edit  *)
(* reads the whole session row and saves the whole row later.              *)
(***************************************************************************)
EXTENDS Integers, FiniteSetsExt

CONSTANTS
  Actors,     \* a Telegram handler, panel requests
  MaxRules    \* bound: rules ever added

VARIABLES
  row,    \* the stored session: its rules (a list in the order of their ids), and whether
          \* the other settings were changed
  edit,   \* each actor's edit: what it read and is about to save
  seen,   \* the rules each actor was shown last
  made,   \* rules added so far; a rule's number stands for its text
  gone    \* history: rules that have left the row

vars == <<row, edit, seen, made, gone>>

NoEdit == [op |-> "none"]

Init ==
  /\ row = [rules |-> {}, settings |-> FALSE]
  /\ edit = [a \in Actors |-> NoEdit]
  /\ seen = [a \in Actors |-> {}]
  /\ made = 0
  /\ gone = {}
-----------------------------------------------------------------------------
(* SessionDirectives: pure, a new value for every edit.                    *)

\* Mutant: the position instead of an id of its own.
NextRuleIdByPosition(rules) == Cardinality(rules) + 1

\* One more than the largest id left.
NextRuleId(rules) == Max({0} \cup {rule.id : rule \in rules}) + 1

WithRule(r) == [r EXCEPT !.rules = @ \cup {[id |-> NextRuleId(@), text |-> made]}]

WithoutRule(r, id) == [r EXCEPT !.rules = {rule \in @ : rule.id # id}]

\* with_language, with_director_instruction and with_memory change a field that the rules
\* edits carry along.  A blank text, an unknown code or an id nobody has is refused before
\* anything is saved.
Edited(r, op, id) ==
  CASE op = "add" -> WithRule(r)
    [] op = "remove" -> WithoutRule(r, id)
    [] op = "set" -> [r EXCEPT !.settings = TRUE]
-----------------------------------------------------------------------------
(* The handlers.                                                           *)

\* /rules, /rule list, or the panel's page.
Look(a) ==
  /\ edit[a] = NoEdit
  /\ seen' = [seen EXCEPT ![a] = row.rules]
  /\ UNCHANGED <<row, edit, made, gone>>

\* get_active at the start of the command, or get_by_id after the panel's liveness check;
\* the new row is computed from what was read.
Take(a, op, id) ==
  /\ edit[a] = NoEdit
  /\ edit' = [edit EXCEPT ![a] = [op |-> op, id |-> id, row |-> Edited(row, op, id),
                                  raced |-> FALSE]]
  /\ UNCHANGED <<row, seen, gone>>

Add(a) ==
  /\ made < MaxRules
  /\ made' = made + 1
  /\ Take(a, "add", 0)

RemoveSeen(a) ==
  /\ \E r \in seen[a] :
       /\ \E rule \in row.rules : rule.id = r.id
       /\ Take(a, "remove", r.id)
  /\ UNCHANGED made

Set(a) ==
  /\ Take(a, "set", 0)
  /\ UNCHANGED made

\* The whole row is upserted, whatever was saved meanwhile.
Save(a) ==
  /\ edit[a] # NoEdit
  /\ row' = edit[a].row
  /\ gone' = gone \cup (row.rules \ row'.rules)
  /\ edit' = [b \in Actors |-> IF b = a \/ edit[b] = NoEdit THEN NoEdit
                                ELSE [edit[b] EXCEPT !.raced = TRUE]]
  /\ UNCHANGED <<seen, made>>

Next ==
  \E a \in Actors :
    Look(a) \/ Add(a) \/ RemoveSeen(a) \/ Set(a) \/ Save(a)

Spec == Init /\ [][Next]_vars
-----------------------------------------------------------------------------
(* Properties.                                                             *)

Saves(a, op) == edit[a] # NoEdit /\ edit[a].op = op /\ edit'[a] = NoEdit

\* /rule remove takes the rule the player saw under that id and no other, however many were
\* added and removed around it; unless that rule was removed since they looked, or another
\* save ran into this one.
RemovalHitsSeen ==
  [][\A a \in Actors : Saves(a, "remove") /\ ~edit[a].raced =>
       \A lost \in row.rules \ row'.rules, r \in seen[a] \ gone :
         r.id = edit[a].id => lost = r]_vars

\* Ids are monotonic within a session and never reused (session_directives.py:113-114).
RuleIdsNeverReused == \A g \in gone, rule \in row.rules : rule.id # g.id
=============================================================================
