---------------------------- MODULE Playthroughs ----------------------------
(***************************************************************************)
(* One owner's session rows: PlaythroughService (start, restart, clear,    *)
(* set_persona), the directive edits of SessionDirectiveService and        *)
(* AdminService, a turn's reading and saving of the row, and hard delete,  *)
(* over PostgresScenarioSessionStore.  The store saves whole rows: what a  *)
(* client read several awaits ago overwrites what others wrote since.      *)
(* Telegram handles one update at a time; panel requests run beside it.    *)
(* A turn's messages are the business of ChatTurns; here a conversation is *)
(* only empty or not.                                                      *)
(***************************************************************************)
EXTENDS Naturals, FiniteSets

CONSTANTS
  Telegram,   \* the Telegram runtime: the owner's updates, one at a time
  Panel,      \* panel requests that run concurrently
  Scenarios,
  Slots,      \* bound: session ids that can be minted
  Rules,      \* rules and the like: language and memory settings behave as they do
  Personas,
  None,       \* no session, no persona
  MayFail     \* whether a request may die between two awaits

ASSUME PlaythroughAssumption ==
  /\ Scenarios # {}
  /\ Telegram \cap Panel = {}
  /\ None \notin Slots \cup Personas
  /\ MayFail \in BOOLEAN

VARIABLES
  racing,  \* fixed: whether requests interleave, or happen to wait for one another
  rows,    \* scenario_sessions, by id
  active,  \* active_scenario_sessions: the owner's pointer, or None
  pending, \* TelegramPendingPersonaStore: whose persona is being asked, or None
  minted,  \* ids used so far (uuid4 never repeats)
  opened,  \* ids whose conversation holds messages
  pc,      \* where each client's request is suspended
  local,   \* ... and the session object in its hands
  chosen,  \* history: the settings the player or operator last chose, per scenario
  torn     \* history: scenarios with a /restart that died between its two saves

vars == <<racing, rows, active, pending, minted, opened, pc, local, chosen, torn>>

Clients == Telegram \cup Panel
Steps == {"idle", "insert", "point", "wipe", "greet", "prompt", "name", "christen",
          "unprompt", "reactivate", "supersede", "checked", "hold", "generating",
          "reply", "purge"}

Settings == [rules : SUBSET Rules, persona : Personas \cup {None}]
Defaults == [rules |-> {}, persona |-> None]

Row == [scenario : Scenarios, live : BOOLEAN, note : BOOLEAN, settings : Settings]
NewRow(s, settings) ==
  [scenario |-> s, live |-> TRUE, note |-> FALSE, settings |-> settings]

Tiers == {"play", "restart", "clear"}
Locals == [id : Slots \cup {None}, row : Row, tier : Tiers]
Blank == NewRow(CHOOSE s \in Scenarios : TRUE, Defaults)
NoLocals == [id |-> None, row |-> Blank, tier |-> "play"]

Live(id) == id \in DOMAIN rows /\ rows[id].live
-----------------------------------------------------------------------------
(* The session store.                                                      *)

\* Mutant: the index is not unique.
NeverCollides(id, row) == FALSE

\* The partial unique index: one live row per owner and scenario.
Collides(id, row) ==
  row.live /\ \E i \in DOMAIN rows \ {id} : Live(i) /\ rows[i].scenario = row.scenario

Upsert(id, row) == [i \in DOMAIN rows \cup {id} |-> IF i = id THEN row ELSE rows[i]]

End(c) == /\ pc' = [pc EXCEPT ![c] = "idle"]
          /\ local' = [local EXCEPT ![c] = NoLocals]
Goto(c, step) == pc' = [pc EXCEPT ![c] = step] /\ UNCHANGED local
Hold(c, step, id, row, tier) ==
  /\ pc' = [pc EXCEPT ![c] = step]
  /\ local' = [local EXCEPT ![c] = [id |-> id, row |-> row, tier |-> tier]]

\* A request starts.
Ready(c) == pc[c] = "idle" /\ (racing \/ \A d \in Clients : pc[d] = "idle")
-----------------------------------------------------------------------------
(* PlaythroughService.                                                     *)

Init ==
  /\ racing \in BOOLEAN
  /\ rows = [i \in {} |-> Blank]
  /\ active = None
  /\ pending = None
  /\ minted = {}
  /\ opened = {}
  /\ pc = [c \in Clients |-> "idle"]
  /\ local = [c \in Clients |-> NoLocals]
  /\ chosen = [s \in Scenarios |-> Defaults]
  /\ torn = {}

\* Mutant: ids are not unique.
MintAgain(c, tier, row) ==
  \E id \in Slots :
    /\ minted' = minted \cup {id}
    /\ Hold(c, "insert", id, row, tier)

\* A new session object, not yet saved.
Mint(c, tier, row) ==
  \E id \in Slots \ minted :
    /\ minted' = minted \cup {id}
    /\ Hold(c, "insert", id, row, tier)

\* start: find_by_definition, then resume the live session or begin one.
Play(c, s) ==
  /\ Ready(c)
  /\ LET found == {i \in DOMAIN rows : Live(i) /\ rows[i].scenario = s} IN
       IF found = {}
         THEN Mint(c, "play", NewRow(s, Defaults))
         ELSE /\ \E id \in found : Hold(c, "reactivate", id, Blank, "play")
              /\ UNCHANGED minted
  /\ UNCHANGED <<rows, active, pending, opened, chosen>>

\* _begin saves the new row; the index may refuse it.
Insert(c) ==
  /\ pc[c] = "insert"
  /\ IF Collides(local[c].id, local[c].row)
       THEN End(c) /\ UNCHANGED rows
       ELSE /\ rows' = Upsert(local[c].id, local[c].row)
            /\ Hold(c, "point", local[c].id, Blank, local[c].tier)
  /\ UNCHANGED <<active, pending, minted, opened, chosen>>

\* Mutant: a resumed story is begun again.
PointBegins(c) ==
  /\ pc[c] \in {"point", "reactivate"}
  /\ IF local[c].id \notin DOMAIN rows
       THEN End(c) /\ UNCHANGED active
       ELSE active' = local[c].id /\ Goto(c, "wipe")
  /\ UNCHANGED <<rows, pending, minted, opened, chosen>>

\* set_active_for_owner; the foreign key refuses a row that has been deleted.
Point(c) ==
  /\ pc[c] \in {"point", "reactivate"}
  /\ IF local[c].id \notin DOMAIN rows
       THEN End(c) /\ UNCHANGED active
       ELSE /\ active' = local[c].id
            /\ IF pc[c] = "point" THEN Goto(c, "wipe") ELSE End(c)
  /\ UNCHANGED <<rows, pending, minted, opened, chosen>>

Wipe(c) ==
  /\ pc[c] = "wipe"
  /\ opened' = opened \ {local[c].id}
  /\ Goto(c, "greet")
  /\ UNCHANGED <<rows, active, pending, minted, chosen>>

\* The opening is stored.  Telegram then asks for a persona, except after /restart; a
\* panel request that carries one goes on to set it.
Greet(c) ==
  /\ pc[c] = "greet"
  /\ opened' = opened \cup {local[c].id}
  /\ IF c \in Telegram
       THEN IF local[c].tier = "restart" THEN End(c) ELSE Goto(c, "prompt")
       ELSE End(c) \/ Goto(c, "name")
  /\ UNCHANGED <<rows, active, pending, minted, chosen>>

Prompt(c) ==
  /\ pc[c] = "prompt"
  /\ pending' = local[c].id
  /\ End(c)
  /\ UNCHANGED <<rows, active, minted, opened, chosen>>

\* Mutant: a persona is accepted whether or not there is one.
UnnamedAlways(id) == Live(id)

\* The sessions set_persona accepts.
Unnamed(id) == Live(id) /\ rows[id].settings.persona = None

\* set_persona reads the row: the player's answer to a prompt, or the panel's own start.
ReadPersona(c, p) ==
  LET id == IF c \in Telegram THEN pending ELSE local[c].id IN
  /\ IF c \in Telegram THEN Ready(c) /\ pending # None ELSE pc[c] = "name"
  /\ IF Unnamed(id)
       THEN Hold(c, "christen", id, [rows[id] EXCEPT !.settings.persona = p], "play")
       ELSE IF c \in Telegram THEN Goto(c, "unprompt") ELSE End(c)
  /\ UNCHANGED <<rows, active, pending, minted, opened, chosen>>

\* ... and saves it whole.
Christen(c) ==
  LET v == local[c] IN
  /\ pc[c] = "christen"
  /\ IF Collides(v.id, v.row)
       THEN End(c) /\ UNCHANGED <<rows, chosen>>
       ELSE /\ rows' = Upsert(v.id, v.row)
            /\ chosen' = [chosen EXCEPT ![v.row.scenario].persona = v.row.settings.persona]
            /\ IF c \in Telegram THEN Goto(c, "unprompt") ELSE End(c)
  /\ UNCHANGED <<active, pending, minted, opened>>

Unprompt(c) ==
  /\ pc[c] = "unprompt"
  /\ pending' = None
  /\ End(c)
  /\ UNCHANGED <<rows, active, minted, opened, chosen>>

\* /restart and /clear: only a live active session can be reset.
Reset(c, tier) ==
  /\ c \in Telegram
  /\ Ready(c)
  /\ tier # "play"
  /\ Live(active)
  /\ Hold(c, "supersede", active, rows[active], tier)
  /\ UNCHANGED <<rows, active, pending, minted, opened, chosen>>

\* Mutant: /restart forgets the player's settings.
NothingCarried(v) == Defaults

\* What the replacement of a reset session starts with.
Carried(v) == IF v.tier = "restart" THEN v.row.settings ELSE Defaults

\* The outgoing row is stamped; its replacement is built at once.
Supersede(c) ==
  LET v == local[c] IN
  /\ pc[c] = "supersede"
  /\ rows' = Upsert(v.id, [v.row EXCEPT !.live = FALSE])
  /\ Mint(c, v.tier, NewRow(v.row.scenario, Carried(v)))
  /\ chosen' = IF v.tier = "clear" THEN [chosen EXCEPT ![v.row.scenario] = Defaults]
                                   ELSE chosen
  /\ UNCHANGED <<active, pending, opened>>
-----------------------------------------------------------------------------
(* Edits, turns and deletion.                                              *)

\* Telegram takes the active session; the panel checks that the one named is live.
Address(c, id) ==
  /\ Ready(c)
  /\ Live(id)
  /\ c \in Telegram => id = active
  /\ IF c \in Telegram THEN Hold(c, "hold", id, rows[id], "play")
                        ELSE Hold(c, "checked", id, Blank, "play")
  /\ UNCHANGED <<rows, active, pending, minted, opened, chosen>>

\* AdminService reads the row again to edit it.
Reread(c) ==
  /\ pc[c] = "checked"
  /\ IF local[c].id \in DOMAIN rows
       THEN Hold(c, "hold", local[c].id, rows[local[c].id], "play")
       ELSE End(c)
  /\ UNCHANGED <<rows, active, pending, minted, opened, chosen>>

\* What one edit makes of a session's settings.
Edited(c, settings) ==
     {[settings EXCEPT !.rules = @ \cup {r}] : r \in Rules \ settings.rules}
  \cup {[settings EXCEPT !.rules = @ \ {r}] : r \in settings.rules}
  \cup (IF c \in Panel THEN {[settings EXCEPT !.persona = p] : p \in Personas} ELSE {})

\* A rule is added or removed, or the operator overrides the persona: the row is saved.
SaveEdit(c) ==
  LET v == local[c] IN
  /\ pc[c] = "hold"
  /\ \E settings \in Edited(c, v.row.settings) :
       LET row == [v.row EXCEPT !.settings = settings] IN
       IF Collides(v.id, row)
         THEN UNCHANGED <<rows, chosen>>
         ELSE /\ rows' = Upsert(v.id, row)
              /\ chosen' = IF row.live
                             THEN [chosen EXCEPT ![row.scenario] = settings]
                             ELSE chosen
  /\ End(c)
  /\ UNCHANGED <<active, pending, minted, opened>>

\* A director note is queued.
SaveNote(c) ==
  LET row == [local[c].row EXCEPT !.note = TRUE] IN
  /\ pc[c] = "hold"
  /\ rows' = IF Collides(local[c].id, row) THEN rows ELSE Upsert(local[c].id, row)
  /\ End(c)
  /\ UNCHANGED <<active, pending, minted, opened, chosen>>

Generating(id) ==
  \E d \in Clients : pc[d] \in {"generating", "reply"} /\ local[d].id = id

\* ChatService takes the session's generation and reads its row.
BeginTurn(c) ==
  LET id == local[c].id IN
  /\ pc[c] = IF c \in Telegram THEN "hold" ELSE "checked"
  /\ IF id \in DOMAIN rows /\ ~Generating(id)
       THEN Hold(c, "generating", id, rows[id], "play")
       ELSE End(c)
  /\ UNCHANGED <<rows, active, pending, minted, opened, chosen>>

\* The reply is there: the row read before it was generated is saved, its notes emptied.
Consume(c) ==
  LET row == [local[c].row EXCEPT !.note = FALSE] IN
  /\ pc[c] = "generating"
  /\ IF ~local[c].row.note THEN Goto(c, "reply") /\ UNCHANGED rows
     ELSE IF Collides(local[c].id, row) THEN End(c) /\ UNCHANGED rows
     ELSE rows' = Upsert(local[c].id, row) /\ Hold(c, "reply", local[c].id, Blank, "play")
  /\ UNCHANGED <<active, pending, minted, opened, chosen>>

\* The turn's messages are stored.
StoreReply(c) ==
  /\ pc[c] = "reply"
  /\ opened' = opened \cup {local[c].id}
  /\ End(c)
  /\ UNCHANGED <<rows, active, pending, minted, chosen>>

\* delete_session: the conversation first ...
Purge(c, id) ==
  /\ c \in Panel
  /\ Ready(c)
  /\ id \in DOMAIN rows
  /\ opened' = opened \ {id}
  /\ Hold(c, "purge", id, Blank, "play")
  /\ UNCHANGED <<rows, active, pending, minted, chosen>>

\* Mutant: the pointer is left behind.
DeleteRowOnly(c) ==
  LET id == local[c].id IN
  /\ pc[c] = "purge"
  /\ rows' = [i \in DOMAIN rows \ {id} |-> rows[i]]
  /\ End(c)
  /\ UNCHANGED <<active, pending, minted, opened, chosen>>

\* ... then the row, and the owner's pointer with it (ON DELETE CASCADE).
DeleteRow(c) ==
  LET id == local[c].id IN
  /\ pc[c] = "purge"
  /\ rows' = [i \in DOMAIN rows \ {id} |-> rows[i]]
  /\ active' = IF active = id THEN None ELSE active
  /\ chosen' = IF Live(id) THEN [chosen EXCEPT ![rows[id].scenario] = Defaults] ELSE chosen
  /\ End(c)
  /\ UNCHANGED <<pending, minted, opened>>

\* An awaited call raises, or the process dies under the request.
Fail(c) ==
  /\ MayFail
  /\ pc[c] # "idle"
  /\ End(c)
  /\ torn' = IF pc[c] = "insert" /\ local[c].tier = "restart"
               THEN torn \cup {local[c].row.scenario} ELSE torn
  /\ UNCHANGED <<rows, active, pending, minted, opened, chosen>>

ServiceStep(c) ==
  \/ \E s \in Scenarios : Play(c, s)
  \/ Insert(c) \/ Point(c) \/ Wipe(c) \/ Greet(c) \/ Prompt(c)
  \/ \E p \in Personas : ReadPersona(c, p)
  \/ Christen(c) \/ Unprompt(c)
  \/ \E tier \in Tiers : Reset(c, tier)
  \/ Supersede(c)

RowStep(c) ==
  \/ \E id \in DOMAIN rows : Address(c, id) \/ Purge(c, id)
  \/ Reread(c) \/ SaveEdit(c) \/ SaveNote(c)
  \/ BeginTurn(c) \/ Consume(c) \/ StoreReply(c)
  \/ DeleteRow(c)

Next ==
  /\ UNCHANGED racing
  /\ \E c \in Clients :
       \/ (ServiceStep(c) \/ RowStep(c)) /\ UNCHANGED torn
       \/ Fail(c)

Spec == Init /\ [][Next]_vars
-----------------------------------------------------------------------------
(* Properties.                                                             *)

\* Type correctness; the pointer never dangles (its foreign key cascades).
TypeOK ==
  /\ racing \in BOOLEAN
  /\ DOMAIN rows \subseteq minted
  /\ minted \in SUBSET Slots
  /\ \A id \in DOMAIN rows : rows[id] \in Row
  /\ active \in DOMAIN rows \cup {None}
  /\ pending \in minted \cup {None}
  /\ opened \in SUBSET minted
  /\ pc \in [Clients -> Steps]
  /\ local \in [Clients -> Locals]
  /\ chosen \in [Scenarios -> Settings]
  /\ torn \in SUBSET Scenarios

\* However starts, resets, stale saves and deletions interleave, a scenario has one live
\* session at most: find_by_definition is never a coin flip between the current story
\* and a retired one (models.py:130-136).
OneLivePerScenario ==
  \A i, j \in DOMAIN rows :
    Live(i) /\ Live(j) /\ rows[i].scenario = rows[j].scenario => i = j

\* A session a reset has superseded is out of every "resume this scenario" lookup for
\* good (playthrough_service.py:177-180).
StaysSuperseded ==
  \A id \in DOMAIN rows \cap DOMAIN rows' : ~rows[id].live => ~rows'[id].live
SupersededStaysSuperseded == [][StaysSuperseded]_vars

\* ... which it is as long as requests do not overlap, wherever they die.
SupersededStaysInTurn == [][~racing => StaysSuperseded]_vars

\* No story loses its transcript but by the panel's hard delete: a resume, a reset or the
\* wipe with which a story begins never falls on messages already there.
KeepsTranscripts ==
  \A id \in opened \ opened' : \E c \in Panel : pc'[c] = "purge" /\ local'[c].id = id
TranscriptsKept == [][~racing => KeepsTranscripts]_vars

\* A player names a session's persona once; only the operator's override replaces it
\* (scenario_session.py:138-150).
KeepsPersona ==
  \A id \in DOMAIN rows \cap DOMAIN rows' :
    LET p == rows[id].settings.persona IN
    p # None /\ p # rows'[id].settings.persona => \E c \in Panel : pc[c] = "hold"
PersonaSetOnce == [][~racing => KeepsPersona]_vars

\* Language, rules and persona are as the player or the operator last chose them, through
\* turns, notes, resumes, restarts and requests that die, until a /clear or a hard delete
\* (DOMAIN_MODEL.md:348-349, playthrough_service.py:107-111).  Requests that overlap may
\* take an edit back, and a /restart that died between stamping the old row and inserting
\* the new one loses them.
ChosenSettingsHold ==
  ~racing /\ (\A c \in Clients : pc[c] = "idle") =>
    \A id \in DOMAIN rows :
      Live(id) /\ rows[id].scenario \notin torn => rows[id].settings = chosen[rows[id].scenario]
=============================================================================
