------------------------- MODULE PlaythroughsProofs --------------------------
(***************************************************************************)
(* Playthroughs, for any scenarios, rules, personas and panel requests,    *)
(* however they interleave and wherever they die: the owner's pointer      *)
(* never dangles, and a scenario has one live session at most; and what    *)
(* requests keep that wait for one another: superseding is final,          *)
(* transcripts, personas and chosen settings stay.                         *)
(***************************************************************************)
EXTENDS Playthroughs, TLAPS

\* The rows and the owner's pointer into them.
RowsTyped ==
  /\ minted \in SUBSET Slots
  /\ DOMAIN rows \subseteq minted
  /\ \A id \in DOMAIN rows : rows[id] \in Row
  /\ active \in DOMAIN rows \cup {None}

\* Where requests are suspended: one that is at work on a session holds an id in use.
Places ==
  /\ pc \in [Clients -> Steps]
  /\ local \in [Clients -> Locals]
  /\ \A c \in Clients : pc[c] \notin {"idle", "unprompt"} => local[c].id \in minted

RestTyped ==
  /\ pending \in minted \cup {None}
  /\ opened \in SUBSET minted
  /\ chosen \in [Scenarios -> Settings]

Typed == RowsTyped /\ Places /\ RestTyped

IInv == Typed /\ racing \in BOOLEAN /\ torn \in SUBSET Scenarios /\ OneLivePerScenario

\* Requests in turn: one at a time, ...
Alone == \A c, d \in Clients : pc[c] # "idle" /\ pc[d] # "idle" => c = d

\* ... so what a request holds is as it read it: the row its session has, or will have.
Fresh(c) ==
  LET v == local[c] IN
  /\ pc[c] = "insert" =>
       /\ v.id \notin DOMAIN rows \cup opened
       /\ v.row.live
       /\ \A i \in DOMAIN rows : Live(i) => rows[i].scenario # v.row.scenario
       /\ v.row.scenario \notin torn => v.row.settings = chosen[v.row.scenario]
  /\ pc[c] \in {"point", "wipe"} => v.id \notin opened
  /\ pc[c] = "checked" => Live(v.id)
  /\ pc[c] \in {"supersede", "hold"} => Live(v.id) /\ v.row = rows[v.id]
  /\ pc[c] = "supersede" => v.tier # "play"
  /\ pc[c] = "generating" => v.id \in DOMAIN rows /\ v.row = rows[v.id]
  /\ pc[c] = "christen" =>
       Unnamed(v.id) /\ \E p \in Personas : v.row = [rows[v.id] EXCEPT !.settings.persona = p]

\* A /restart between its two saves.
Restarting(s) ==
  \E c \in Clients : pc[c] = "insert" /\ local[c].row.scenario = s /\ local[c].tier = "restart"

\* The live session has the settings last chosen; without one there are none to keep.
ChosenStand ==
  \A s \in Scenarios \ torn :
    /\ \A i \in DOMAIN rows : Live(i) /\ rows[i].scenario = s => rows[i].settings = chosen[s]
    /\ \/ \E i \in DOMAIN rows : Live(i) /\ rows[i].scenario = s
       \/ chosen[s] = Defaults
       \/ Restarting(s)

InTurn == Alone /\ (\A c \in Clients : Fresh(c)) /\ ChosenStand

TInv == IInv /\ (~racing => InTurn)
-----------------------------------------------------------------------------
(* Rows, and what a request holds.                                         *)

\* The rows new sessions start from.
LEMMA NewRowTyped ==
  /\ Defaults \in Settings
  /\ \A s \in Scenarios, settings \in Settings : NewRow(s, settings) \in Row
  /\ Blank \in Row
<1>1. Defaults \in Settings
  BY DEF Defaults, Settings
<1>2. ASSUME NEW s \in Scenarios, NEW settings \in Settings PROVE NewRow(s, settings) \in Row
  BY Zenon DEF NewRow, Row
<1>3. (CHOOSE s \in Scenarios : TRUE) \in Scenarios
  BY PlaythroughAssumption
<1> QED BY <1>1, <1>2, <1>3 DEF Blank

\* A request that goes on holding a session stays in its place.
LEMMA HoldPlaces ==
  ASSUME Places, minted \subseteq minted', minted' \subseteq Slots,
         NEW c \in Clients, NEW s \in Steps, NEW id \in minted', NEW row \in Row,
         NEW tier \in Tiers, Hold(c, s, id, row, tier)
  PROVE  Places'
<1> DEFINE v == [id |-> id, row |-> row, tier |-> tier]
<1>1. v \in Locals /\ v.id = id
  <2>1. v.id = id
    BY Zenon
  <2>2. v \in Locals
    BY Zenon DEF Locals
  <2> QED BY <2>1, <2>2
<1>2. pc' = [pc EXCEPT ![c] = s] /\ local' = [local EXCEPT ![c] = v]
  BY DEF Hold
<1> HIDE DEF v
<1> QED BY <1>1, <1>2 DEF Places

\* ... one that ends lets go of it ...
LEMMA EndPlaces ==
  ASSUME Places, minted \subseteq minted', NEW c \in Clients, End(c)
  PROVE  Places'
<1>1. NoLocals \in Locals
  <2>1. "play" \in Tiers
    BY DEF Tiers
  <2> QED BY <2>1, NewRowTyped, Zenon DEF NoLocals, Locals
<1>2. "idle" \in Steps
  BY DEF Steps
<1> QED BY <1>1, <1>2 DEF Places, End

\* ... and one that goes to its next await has what it had.
LEMMA GotoPlaces ==
  ASSUME Places, minted \subseteq minted', NEW c \in Clients, NEW s \in Steps, Goto(c, s),
         s = "unprompt" \/ local[c].id \in minted
  PROVE  Places'
BY DEF Places, Goto

\* A new session takes an unused id.
LEMMA MintPlaces ==
  ASSUME RowsTyped, Places, NEW c \in Clients, NEW tier \in Tiers, NEW row \in Row,
         Mint(c, tier, row)
  PROVE  Places' /\ minted \subseteq minted' /\ minted' \subseteq Slots
<1>1. PICK id \in Slots \ minted :
        minted' = minted \cup {id} /\ Hold(c, "insert", id, row, tier)
  BY DEF Mint
<1>2. minted \subseteq minted' /\ minted' \subseteq Slots /\ id \in minted'
  BY <1>1 DEF RowsTyped
<1>3. "insert" \in Steps
  BY DEF Steps
<1>4. Places'
  BY <1>1, <1>2, <1>3, HoldPlaces
<1> QED BY <1>2, <1>4

\* A row the index does not refuse is saved: the scenario still has one live session.
LEMMA UpsertRow ==
  ASSUME RowsTyped, OneLivePerScenario, minted \subseteq minted', minted' \subseteq Slots,
         NEW id \in minted', NEW row \in Row, ~Collides(id, row),
         rows' = Upsert(id, row), active' = active
  PROVE  RowsTyped' /\ OneLivePerScenario'
<1>1. /\ DOMAIN rows' = DOMAIN rows \cup {id}
      /\ \A i \in DOMAIN rows' : rows'[i] = IF i = id THEN row ELSE rows[i]
  BY DEF Upsert
<1>2. RowsTyped'
  BY <1>1 DEF RowsTyped
<1>3. OneLivePerScenario'
  BY <1>1 DEF OneLivePerScenario, Live, Collides
<1> QED BY <1>2, <1>3

\* The settings a save or an edit leaves are settings.
LEMMA SettingsTyped ==
  ASSUME NEW row \in Row
  PROVE  /\ row.settings \in Settings /\ row.scenario \in Scenarios
         /\ row.settings.persona \in Personas \cup {None}
         /\ \A p \in Personas : [row EXCEPT !.settings.persona = p] \in Row
         /\ \A x \in Settings : [row EXCEPT !.settings = x] \in Row
         /\ \A b \in BOOLEAN : [row EXCEPT !.note = b] \in Row /\ [row EXCEPT !.live = b] \in Row
BY DEF Row, Settings

\* What a step leaves alone stays right while ids are only added.
LEMMA RowsKept ==
  ASSUME RowsTyped, OneLivePerScenario, minted \subseteq minted', minted' \subseteq Slots,
         rows' = rows, active' \in DOMAIN rows \cup {None}
  PROVE  RowsTyped' /\ OneLivePerScenario'
BY DEF RowsTyped, OneLivePerScenario, Live

LEMMA RestKept ==
  ASSUME RestTyped, minted \subseteq minted', UNCHANGED <<pending, opened, chosen>>
  PROVE  RestTyped'
BY DEF RestTyped
-----------------------------------------------------------------------------
(* The steps of PlaythroughService.                                        *)

Sound == Typed /\ OneLivePerScenario

\* start resumes the live session or mints one.
LEMMA PlaySound == ASSUME Sound, NEW c \in Clients, NEW s \in Scenarios, Play(c, s) PROVE Sound'
<1> DEFINE found == {i \in DOMAIN rows : Live(i) /\ rows[i].scenario = s}
<1>1. "play" \in Tiers /\ "reactivate" \in Steps
  BY DEF Tiers, Steps
<1>2. UNCHANGED <<rows, active, pending, opened, chosen>>
  BY DEF Play
<1>3. Places' /\ minted \subseteq minted' /\ minted' \subseteq Slots
  <2>1. CASE found = {}
    <3>1. Mint(c, "play", NewRow(s, Defaults))
      BY <2>1 DEF Play
    <3> QED BY <3>1, <1>1, NewRowTyped, MintPlaces DEF Sound, Typed
  <2>2. CASE found # {}
    <3>1. PICK id \in found : Hold(c, "reactivate", id, Blank, "play")
      BY <2>2 DEF Play
    <3>2. minted' = minted /\ id \in minted' /\ minted' \subseteq Slots
      BY <2>2 DEF Play, Sound, Typed, RowsTyped
    <3> QED BY <3>1, <3>2, <1>1, NewRowTyped, HoldPlaces DEF Sound, Typed
  <2> QED BY <2>1, <2>2
<1> QED BY <1>2, <1>3, RowsKept, RestKept DEF Sound, Typed, RowsTyped

\* _begin saves the row, unless the index refuses it.
LEMMA InsertSound == ASSUME Sound, NEW c \in Clients, Insert(c) PROVE Sound'
<1>1. /\ local[c].id \in minted /\ local[c].row \in Row /\ local[c].tier \in Tiers
      /\ minted' = minted /\ minted \subseteq Slots
  BY DEF Insert, Sound, Typed, Places, Locals, RowsTyped
<1>2. UNCHANGED <<active, pending, opened, chosen>>
  BY DEF Insert
<1>3. CASE Collides(local[c].id, local[c].row)
  <2>1. End(c) /\ rows' = rows
    BY <1>3 DEF Insert
  <2> QED BY <1>1, <1>2, <2>1, EndPlaces, RowsKept, RestKept DEF Sound, Typed, RowsTyped
<1>4. CASE ~Collides(local[c].id, local[c].row)
  <2>1. /\ rows' = Upsert(local[c].id, local[c].row)
        /\ Hold(c, "point", local[c].id, Blank, local[c].tier)
    BY <1>4 DEF Insert
  <2>2. "point" \in Steps
    BY DEF Steps
  <2>3. Places'
    BY <1>1, <2>1, <2>2, NewRowTyped, HoldPlaces DEF Sound, Typed
  <2> QED BY <1>1, <1>2, <1>4, <2>1, <2>3, UpsertRow, RestKept DEF Sound, Typed
<1> QED BY <1>3, <1>4

\* The pointer is set to a row that is there, by the foreign key.
LEMMA PointSound == ASSUME Sound, NEW c \in Clients, Point(c) PROVE Sound'
<1>1. /\ local[c].id \in minted
      /\ minted' = minted /\ minted \subseteq Slots
  BY DEF Point, Sound, Typed, Places, RowsTyped
<1>2. rows' = rows /\ UNCHANGED <<pending, opened, chosen>>
  BY DEF Point
<1>3. active' \in DOMAIN rows \cup {None}
  BY DEF Point, Sound, Typed, RowsTyped
<1>4. End(c) \/ Goto(c, "wipe")
  BY DEF Point
<1>5. "wipe" \in Steps
  BY DEF Steps
<1>6. Places'
  BY <1>1, <1>4, <1>5, EndPlaces, GotoPlaces DEF Sound, Typed
<1> QED BY <1>1, <1>2, <1>3, <1>6, RowsKept, RestKept DEF Sound, Typed

\* The wipe, the opening and the prompt touch no row.
LEMMA OpeningSound ==
  ASSUME Sound, NEW c \in Clients, Wipe(c) \/ Greet(c) \/ Prompt(c) \/ Unprompt(c)
  PROVE  Sound'
<1>1. minted' = minted /\ minted \subseteq Slots /\ rows' = rows /\ active' = active
  BY DEF Wipe, Greet, Prompt, Unprompt, Sound, Typed, RowsTyped
<1>2. Unprompt(c) \/ local[c].id \in minted
  BY DEF Wipe, Greet, Prompt, Sound, Typed, Places
<1>3. \/ End(c)
      \/ \E s \in {"greet", "prompt", "name"} : Goto(c, s) /\ local[c].id \in minted
  BY <1>2 DEF Wipe, Greet, Prompt, Unprompt
<1>4. Places'
  <2>1. CASE End(c)
    BY <1>1, <2>1, EndPlaces DEF Sound, Typed
  <2>2. ASSUME NEW s \in {"greet", "prompt", "name"}, Goto(c, s), local[c].id \in minted
        PROVE  Places'
    <3>1. s \in Steps
      BY DEF Steps
    <3> QED BY <1>1, <2>2, <3>1, GotoPlaces DEF Sound, Typed
  <2> QED BY <1>3, <2>1, <2>2
<1>5. RestTyped'
  BY <1>1, <1>2 DEF Wipe, Greet, Prompt, Unprompt, Sound, Typed, RestTyped
<1> QED BY <1>1, <1>4, <1>5, RowsKept DEF Sound, Typed, RowsTyped

\* set_persona reads a live row ...
LEMMA ReadPersonaSound ==
  ASSUME Sound, NEW c \in Clients, NEW p \in Personas, ReadPersona(c, p) PROVE Sound'
<1> DEFINE id == IF c \in Telegram THEN pending ELSE local[c].id
<1>1. /\ minted' = minted /\ minted \subseteq Slots
      /\ UNCHANGED <<rows, active, pending, opened, chosen>>
  BY DEF ReadPersona, Sound, Typed, RowsTyped
<1>2. {"christen", "unprompt"} \subseteq Steps /\ "play" \in Tiers
  BY DEF Steps, Tiers
<1>3. CASE Unnamed(id)
  <2>1. Hold(c, "christen", id, [rows[id] EXCEPT !.settings.persona = p], "play")
    BY <1>3 DEF ReadPersona
  <2>2. id \in minted /\ rows[id] \in Row
    BY <1>3 DEF Unnamed, Live, Sound, Typed, RowsTyped
  <2>3. [rows[id] EXCEPT !.settings.persona = p] \in Row
    BY <2>2, SettingsTyped
  <2>4. Places'
    BY <1>1, <1>2, <2>1, <2>2, <2>3, HoldPlaces DEF Sound, Typed
  <2> QED BY <1>1, <2>4, RowsKept, RestKept DEF Sound, Typed, RowsTyped
<1>4. CASE ~Unnamed(id)
  <2>1. Goto(c, "unprompt") \/ End(c)
    BY <1>4 DEF ReadPersona
  <2>2. Places'
    BY <1>1, <1>2, <2>1, EndPlaces, GotoPlaces DEF Sound, Typed
  <2> QED BY <1>1, <2>2, RowsKept, RestKept DEF Sound, Typed, RowsTyped
<1> QED BY <1>3, <1>4

\* ... and saves it whole.
LEMMA ChristenSound == ASSUME Sound, NEW c \in Clients, Christen(c) PROVE Sound'
<1>1. /\ local[c].id \in minted /\ local[c].row \in Row
      /\ minted' = minted /\ minted \subseteq Slots
  BY DEF Christen, Sound, Typed, Places, Locals, RowsTyped
<1>2. UNCHANGED <<active, pending, opened>> /\ (End(c) \/ Goto(c, "unprompt"))
  BY DEF Christen
<1>3. "unprompt" \in Steps
  BY DEF Steps
<1>4. Places'
  BY <1>1, <1>2, <1>3, EndPlaces, GotoPlaces DEF Sound, Typed
<1>5. CASE Collides(local[c].id, local[c].row)
  BY <1>1, <1>2, <1>4, <1>5, RowsKept, RestKept DEF Christen, Sound, Typed, RowsTyped
<1>6. CASE ~Collides(local[c].id, local[c].row)
  <2>1. rows' = Upsert(local[c].id, local[c].row)
    BY <1>6 DEF Christen
  <2>2. chosen' \in [Scenarios -> Settings]
    <3>1. chosen' = [chosen EXCEPT ![local[c].row.scenario].persona =
                                      local[c].row.settings.persona]
      BY <1>6 DEF Christen
    <3>2. local[c].row.settings.persona \in Personas \cup {None}
      BY <1>1, SettingsTyped
    <3> QED BY <3>1, <3>2 DEF Sound, Typed, RestTyped, Settings
  <2> QED BY <1>1, <1>2, <1>4, <1>6, <2>1, <2>2, UpsertRow DEF Sound, Typed, RestTyped
<1> QED BY <1>5, <1>6

\* A reset stamps the outgoing row, which the index never refuses, and mints the next.
LEMMA ResetSound ==
  ASSUME Sound, NEW c \in Clients, NEW tier \in Tiers, Reset(c, tier) PROVE Sound'
<1>1. /\ active \in minted /\ rows[active] \in Row /\ minted' = minted /\ minted \subseteq Slots
      /\ UNCHANGED <<rows, active, pending, opened, chosen>>
      /\ Hold(c, "supersede", active, rows[active], tier)
  BY DEF Reset, Live, Sound, Typed, RowsTyped
<1>2. "supersede" \in Steps
  BY DEF Steps
<1>3. Places'
  BY <1>1, <1>2, HoldPlaces DEF Sound, Typed
<1> QED BY <1>1, <1>3, RowsKept, RestKept DEF Sound, Typed, RowsTyped

LEMMA SupersedeSound == ASSUME Sound, NEW c \in Clients, Supersede(c) PROVE Sound'
<1> DEFINE v == local[c]
           old == [v.row EXCEPT !.live = FALSE]
<1>1. v.id \in minted /\ v.row \in Row /\ v.tier \in Tiers
  BY DEF Supersede, Sound, Typed, Places, Locals
<1>2. Carried(v) \in Settings /\ v.row.scenario \in Scenarios
  BY <1>1, NewRowTyped, SettingsTyped DEF Carried
<1>3. NewRow(v.row.scenario, Carried(v)) \in Row
  BY <1>2, NewRowTyped
<1>4. Mint(c, v.tier, NewRow(v.row.scenario, Carried(v)))
  BY DEF Supersede
<1>5. Places' /\ minted \subseteq minted' /\ minted' \subseteq Slots
  BY <1>1, <1>3, <1>4, MintPlaces DEF Sound, Typed
<1>6. old \in Row /\ ~old.live
  BY <1>1 DEF Row
<1>7. RowsTyped' /\ OneLivePerScenario'
  <2>1. rows' = Upsert(v.id, old) /\ active' = active
    BY DEF Supersede
  <2>2. ~Collides(v.id, old)
    BY <1>6 DEF Collides
  <2>3. v.id \in minted'
    BY <1>1, <1>5
  <2> HIDE DEF old, v
  <2> QED BY <1>5, <1>6, <2>1, <2>2, <2>3, UpsertRow DEF Sound, Typed
<1>8. chosen' \in [Scenarios -> Settings] /\ UNCHANGED <<pending, opened>>
  BY NewRowTyped DEF Supersede, Sound, Typed, RestTyped
<1> QED BY <1>5, <1>7, <1>8 DEF Sound, Typed, RestTyped
-----------------------------------------------------------------------------
(* Edits, turns and deletion.                                              *)

\* A request finds its session, or reads it again, or starts to delete it.
LEMMA ReadSound ==
  ASSUME Sound, NEW c \in Clients,
         \/ \E id \in DOMAIN rows : Address(c, id) \/ Purge(c, id)
         \/ Reread(c) \/ BeginTurn(c)
  PROVE  Sound'
<1>1. /\ minted' = minted /\ minted \subseteq Slots
      /\ UNCHANGED <<rows, active, pending, chosen>>
      /\ opened' \subseteq opened
  BY DEF Address, Purge, Reread, BeginTurn, Sound, Typed, RowsTyped
<1>2. \/ End(c)
      \/ \E s \in {"hold", "checked", "generating", "purge"}, id \in DOMAIN rows, row \in Row :
           Hold(c, s, id, row, "play")
  <2>1. Blank \in Row /\ \A id \in DOMAIN rows : rows[id] \in Row
    BY NewRowTyped DEF Sound, Typed, RowsTyped
  <2>2. ASSUME NEW id \in DOMAIN rows, Address(c, id) \/ Purge(c, id)
        PROVE  \E s \in {"hold", "checked", "purge"}, row \in Row : Hold(c, s, id, row, "play")
    BY <2>1, <2>2 DEF Address, Purge
  <2>3. CASE Reread(c) \/ BeginTurn(c)
    BY <2>1, <2>3 DEF Reread, BeginTurn
  <2> QED BY <2>2, <2>3
<1>3. Places'
  <2>1. CASE End(c)
    BY <1>1, <2>1, EndPlaces DEF Sound, Typed
  <2>2. ASSUME NEW s \in {"hold", "checked", "generating", "purge"}, NEW id \in DOMAIN rows,
               NEW row \in Row, Hold(c, s, id, row, "play")
        PROVE  Places'
    <3>1. s \in Steps /\ "play" \in Tiers
      BY DEF Steps, Tiers
    <3>2. id \in minted'
      BY <1>1 DEF Sound, Typed, RowsTyped
    <3> QED BY <1>1, <2>2, <3>1, <3>2, HoldPlaces DEF Sound, Typed
  <2> QED BY <1>2, <2>1, <2>2
<1>4. RestTyped'
  BY <1>1 DEF Sound, Typed, RestTyped
<1> QED BY <1>1, <1>3, <1>4, RowsKept DEF Sound, Typed, RowsTyped

\* An edit leaves settings.
LEMMA EditTyped ==
  ASSUME NEW c \in Clients, NEW old \in Settings, NEW new \in Edited(c, old)
  PROVE  new \in Settings
BY DEF Edited, Settings

\* The row is saved with the edit.
LEMMA SaveEditSound == ASSUME Sound, NEW c \in Clients, SaveEdit(c) PROVE Sound'
<1> DEFINE v == local[c]
<1>1. /\ v.id \in minted /\ v.row \in Row /\ minted' = minted /\ minted \subseteq Slots
      /\ UNCHANGED <<active, pending, opened>> /\ End(c)
  BY DEF SaveEdit, Sound, Typed, Places, Locals, RowsTyped
<1>2. Places'
  BY <1>1, EndPlaces DEF Sound, Typed
<1>3. PICK settings \in Edited(c, v.row.settings) :
        LET row == [v.row EXCEPT !.settings = settings] IN
        IF Collides(v.id, row)
          THEN UNCHANGED <<rows, chosen>>
          ELSE /\ rows' = Upsert(v.id, row)
               /\ chosen' = IF row.live THEN [chosen EXCEPT ![row.scenario] = settings]
                                        ELSE chosen
  BY DEF SaveEdit
<1> DEFINE row == [v.row EXCEPT !.settings = settings]
<1>4. settings \in Settings /\ row \in Row
  BY <1>1, EditTyped, SettingsTyped
<1> HIDE DEF v
<1>5. CASE Collides(v.id, row)
  <2>1. UNCHANGED <<rows, chosen>>
    BY <1>3, <1>5
  <2> QED BY <1>1, <1>2, <2>1, RowsKept, RestKept DEF Sound, Typed, RowsTyped
<1>6. CASE ~Collides(v.id, row)
  <2>1. /\ rows' = Upsert(v.id, row)
        /\ chosen' = IF row.live THEN [chosen EXCEPT ![row.scenario] = settings] ELSE chosen
    BY <1>3, <1>6
  <2> HIDE DEF row
  <2>2. chosen' \in [Scenarios -> Settings]
    BY <1>4, <2>1 DEF Sound, Typed, RestTyped
  <2> QED BY <1>1, <1>2, <1>4, <1>6, <2>1, <2>2, UpsertRow DEF Sound, Typed, RestTyped
<1> QED BY <1>5, <1>6

\* A note is queued, or a turn saves the row it read before it generated.
LEMMA SaveNoteSound == ASSUME Sound, NEW c \in Clients, SaveNote(c) PROVE Sound'
<1> DEFINE v == local[c]
           row == [v.row EXCEPT !.note = TRUE]
<1>1. /\ v.id \in minted /\ v.row \in Row /\ minted' = minted /\ minted \subseteq Slots
      /\ UNCHANGED <<active, pending, opened, chosen>> /\ End(c)
      /\ rows' = IF Collides(v.id, row) THEN rows ELSE Upsert(v.id, row)
  BY DEF SaveNote, Sound, Typed, Places, Locals, RowsTyped
<1>2. Places' /\ RestTyped' /\ row \in Row
  BY <1>1, EndPlaces, RestKept, SettingsTyped DEF Sound, Typed
<1> HIDE DEF v, row
<1>3. RowsTyped' /\ OneLivePerScenario'
  BY <1>1, <1>2, UpsertRow, RowsKept DEF Sound, Typed, RowsTyped
<1> QED BY <1>2, <1>3 DEF Sound, Typed

LEMMA ConsumeSound == ASSUME Sound, NEW c \in Clients, Consume(c) PROVE Sound'
<1> DEFINE v == local[c]
           row == [v.row EXCEPT !.note = FALSE]
<1>1. /\ v.id \in minted /\ v.row \in Row /\ minted' = minted /\ minted \subseteq Slots
      /\ UNCHANGED <<active, pending, opened, chosen>>
      /\ rows' = rows \/ (rows' = Upsert(v.id, row) /\ ~Collides(v.id, row))
      /\ End(c) \/ Goto(c, "reply") \/ Hold(c, "reply", v.id, Blank, "play")
  BY DEF Consume, Sound, Typed, Places, Locals, RowsTyped
<1>2. "reply" \in Steps /\ "play" \in Tiers
  BY DEF Steps, Tiers
<1>3. Places'
  BY <1>1, <1>2, NewRowTyped, EndPlaces, GotoPlaces, HoldPlaces DEF Sound, Typed
<1>4. RestTyped' /\ row \in Row
  BY <1>1, RestKept, SettingsTyped DEF Sound, Typed
<1> HIDE DEF v, row
<1>5. RowsTyped' /\ OneLivePerScenario'
  BY <1>1, <1>4, UpsertRow, RowsKept DEF Sound, Typed, RowsTyped
<1> QED BY <1>3, <1>4, <1>5 DEF Sound, Typed

\* The turn's messages are stored.
LEMMA StoreReplySound == ASSUME Sound, NEW c \in Clients, StoreReply(c) PROVE Sound'
<1>1. /\ local[c].id \in minted /\ minted' = minted /\ minted \subseteq Slots
      /\ UNCHANGED <<rows, active, pending, chosen>> /\ End(c)
      /\ opened' = opened \cup {local[c].id}
  BY DEF StoreReply, Sound, Typed, Places, RowsTyped
<1>2. Places'
  BY <1>1, EndPlaces DEF Sound, Typed
<1>3. RestTyped'
  BY <1>1 DEF Sound, Typed, RestTyped
<1> QED BY <1>1, <1>2, <1>3, RowsKept DEF Sound, Typed, RowsTyped

\* The row goes, and the pointer to it.
LEMMA DeleteRowSound == ASSUME Sound, NEW c \in Clients, DeleteRow(c) PROVE Sound'
<1> DEFINE id == local[c].id
<1>1. /\ minted' = minted /\ minted \subseteq Slots
      /\ UNCHANGED <<pending, opened>> /\ End(c)
      /\ rows' = [i \in DOMAIN rows \ {id} |-> rows[i]]
      /\ active' = IF active = id THEN None ELSE active
      /\ chosen' = IF Live(id) THEN [chosen EXCEPT ![rows[id].scenario] = Defaults] ELSE chosen
  BY DEF DeleteRow, Sound, Typed, RowsTyped
<1>2. Places'
  BY <1>1, EndPlaces DEF Sound, Typed
<1>3. RowsTyped' /\ OneLivePerScenario'
  BY <1>1 DEF Sound, Typed, RowsTyped, OneLivePerScenario, Live
<1>4. RestTyped'
  BY <1>1, NewRowTyped DEF Sound, Typed, RestTyped
<1> QED BY <1>2, <1>3, <1>4 DEF Sound, Typed

\* A request that dies has changed nothing since its last await.
LEMMA FailSound ==
  ASSUME Sound, torn \in SUBSET Scenarios, NEW c \in Clients, Fail(c)
  PROVE  Sound' /\ torn' \in SUBSET Scenarios
<1>1. /\ minted' = minted /\ minted \subseteq Slots
      /\ UNCHANGED <<rows, active, pending, opened, chosen>> /\ End(c)
  BY DEF Fail, Sound, Typed, RowsTyped
<1>2. Places'
  BY <1>1, EndPlaces DEF Sound, Typed
<1>3. local[c].row.scenario \in Scenarios
  <2>1. local[c].row \in Row
    BY DEF Sound, Typed, Places, Locals
  <2> QED BY <2>1, SettingsTyped
<1>4. torn' \in SUBSET Scenarios
  BY <1>3 DEF Fail
<1> QED BY <1>1, <1>2, <1>4, RowsKept, RestKept DEF Sound, Typed, RowsTyped
-----------------------------------------------------------------------------
(* The specification.                                                      *)

\* No session at the start.
LEMMA InitIInv == Init => IInv
<1> SUFFICES ASSUME Init PROVE IInv
  OBVIOUS
<1>1. "idle" \in Steps /\ "play" \in Tiers
  BY DEF Steps, Tiers
<1>2. NoLocals \in Locals
  BY <1>1, NewRowTyped, Zenon DEF NoLocals, Locals
<1>3. Places
  BY <1>1, <1>2 DEF Init, Places
<1>4. RowsTyped /\ RestTyped /\ OneLivePerScenario /\ torn \in SUBSET Scenarios /\ racing \in BOOLEAN
  BY NewRowTyped DEF Init, RowsTyped, RestTyped, OneLivePerScenario
<1> QED BY <1>3, <1>4 DEF IInv, Typed

\* No step undoes the invariant.
LEMMA NextIInv == IInv /\ [Next]_vars => IInv'
<1> SUFFICES ASSUME IInv, [Next]_vars PROVE IInv'
  OBVIOUS
<1>1. CASE UNCHANGED vars
  BY <1>1 DEF vars, IInv, Typed, RowsTyped, Places, RestTyped, OneLivePerScenario, Live
<1>2. CASE Next
  <2>1. PICK c \in Clients : ((ServiceStep(c) \/ RowStep(c)) /\ UNCHANGED torn) \/ Fail(c)
    BY <1>2 DEF Next
  <2>2. Sound /\ torn \in SUBSET Scenarios /\ racing' \in BOOLEAN
    BY <1>2 DEF IInv, Sound, Next
  <2>3. CASE ServiceStep(c) /\ UNCHANGED torn
    <3>1. Sound'
      BY <2>2, <2>3, PlaySound, InsertSound, PointSound, OpeningSound, ReadPersonaSound,
         ChristenSound, ResetSound, SupersedeSound DEF ServiceStep
    <3> QED BY <2>2, <2>3, <3>1 DEF IInv, Sound
  <2>4. CASE RowStep(c) /\ UNCHANGED torn
    <3>1. Sound'
      BY <2>2, <2>4, ReadSound, SaveEditSound, SaveNoteSound, ConsumeSound, StoreReplySound,
         DeleteRowSound DEF RowStep
    <3> QED BY <2>2, <2>4, <3>1 DEF IInv, Sound
  <2>5. CASE Fail(c)
    BY <2>2, <2>5, FailSound DEF IInv, Sound
  <2> QED BY <2>1, <2>3, <2>4, <2>5
<1> QED BY <1>1, <1>2

\* The variables keep their types, and the owner's pointer never dangles, whatever is
\* deleted under a request that still holds it (scenario_session_store.py).
THEOREM TypeCorrect == Spec => []TypeOK
<1>1. IInv => TypeOK
  BY DEF IInv, Typed, RowsTyped, Places, RestTyped, TypeOK
<1> QED BY <1>1, InitIInv, NextIInv, PTL DEF Spec

\* However starts, resets, stale whole-row saves and deletions interleave and die, an owner
\* has one live session of a scenario at most: the partial unique index (models.py) is all
\* it rests on, because the one save it does not guard stamps the row.
THEOREM OneLive == Spec => []OneLivePerScenario
<1>1. IInv => OneLivePerScenario
  BY DEF IInv
<1> QED BY <1>1, InitIInv, NextIInv, PTL DEF Spec
-----------------------------------------------------------------------------
(* Requests in turn.                                                       *)

Step(c) == ((ServiceStep(c) \/ RowStep(c)) /\ UNCHANGED torn) \/ Fail(c)

\* What a step may never do.
Kept == StaysSuperseded /\ KeepsTranscripts /\ KeepsPersona

\* Nobody but c is at work, before a step of its own and after.
Only(c) == \A d \in Clients \ {c} : pc[d] = "idle" /\ pc'[d] = "idle"

\* A request in turn is the only one, before its step and after.
LEMMA OneAtATime ==
  ASSUME IInv, ~racing, Alone, NEW c \in Clients, Step(c)
  PROVE  Alone' /\ Only(c)
<1> USE DEF End, Goto, Hold, Mint
<1>1. \A d \in Clients \ {c} : pc'[d] = pc[d]
  <2>1. pc \in [Clients -> Steps]
    BY DEF IInv, Typed, Places
  <2>2. CASE \E s \in Scenarios : Play(c, s)
    BY <2>1, <2>2 DEF Play
  <2>3. CASE Insert(c) \/ Point(c) \/ Wipe(c) \/ Greet(c) \/ Prompt(c) \/ Unprompt(c)
    BY <2>1, <2>3 DEF Insert, Point, Wipe, Greet, Prompt, Unprompt
  <2>4. CASE (\E p \in Personas : ReadPersona(c, p)) \/ Christen(c)
    BY <2>1, <2>4 DEF ReadPersona, Christen
  <2>5. CASE (\E tier \in Tiers : Reset(c, tier)) \/ Supersede(c)
    BY <2>1, <2>5 DEF Reset, Supersede
  <2>6. CASE \E id \in DOMAIN rows : Address(c, id) \/ Purge(c, id)
    BY <2>1, <2>6 DEF Address, Purge
  <2>7. CASE Reread(c) \/ SaveEdit(c) \/ SaveNote(c)
    BY <2>1, <2>7 DEF Reread, SaveEdit, SaveNote
  <2>8. CASE BeginTurn(c) \/ Consume(c) \/ StoreReply(c) \/ DeleteRow(c) \/ Fail(c)
    BY <2>1, <2>8 DEF BeginTurn, Consume, StoreReply, DeleteRow, Fail
  <2> QED BY <2>2, <2>3, <2>4, <2>5, <2>6, <2>7, <2>8 DEF Step, ServiceStep, RowStep
<1>2. pc[c] # "idle" \/ Ready(c)
  BY DEF Step, ServiceStep, RowStep, Play, Insert, Point, Wipe, Greet, Prompt, Unprompt,
         ReadPersona, Christen, Reset, Supersede, Address, Purge, Reread, SaveEdit, SaveNote,
         BeginTurn, Consume, StoreReply, DeleteRow, Fail
<1>3. \A d \in Clients \ {c} : pc[d] = "idle"
  BY <1>2 DEF Ready, Alone
<1> QED BY <1>1, <1>3 DEF Alone, Only

\* A step that leaves rows and settings alone keeps them as chosen, unless it ends a /restart.
LEMMA ChosenKept ==
  ASSUME ChosenStand, NEW c \in Clients, Only(c), UNCHANGED <<rows, chosen, torn>>,
         pc[c] # "insert" \/ local[c].tier # "restart"
  PROVE  ChosenStand'
<1>1. \A s \in Scenarios : ~Restarting(s)
  BY DEF Restarting, Only
<1> QED BY <1>1 DEF ChosenStand, Live

\* Such a step breaks no promise either, but it may take a transcript.
LEMMA RowsStand == ASSUME UNCHANGED rows PROVE StaysSuperseded /\ KeepsPersona
BY DEF StaysSuperseded, KeepsPersona

\* A row that is saved as it was read, but for its settings, its note or its persona.
LEMMA SavedRow ==
  ASSUME IInv, ChosenStand, NEW c \in Clients, Only(c), pc[c] # "insert",
         NEW id \in DOMAIN rows, NEW row \in Row, rows' = Upsert(id, row),
         row.live = rows[id].live, row.scenario = rows[id].scenario, torn' = torn,
         \A s \in Scenarios : s # row.scenario \/ ~row.live => chosen'[s] = chosen[s],
         row.live /\ row.scenario \notin torn => chosen'[row.scenario] = row.settings
  PROVE  ChosenStand' /\ StaysSuperseded
<1>1. /\ DOMAIN rows' = DOMAIN rows
      /\ \A i \in DOMAIN rows : rows'[i] = IF i = id THEN row ELSE rows[i]
  BY DEF Upsert
<1>2. \A s \in Scenarios : ~Restarting(s)
  BY DEF Restarting, Only
<1>3. \A i \in DOMAIN rows : Live(i)' <=> Live(i)
  BY <1>1 DEF Live
<1>4. StaysSuperseded
  BY <1>1 DEF StaysSuperseded
<1>5. ASSUME NEW s \in Scenarios \ torn
      PROVE  /\ \A i \in DOMAIN rows' :
                  Live(i)' /\ rows'[i].scenario = s => rows'[i].settings = chosen'[s]
             /\ \/ \E i \in DOMAIN rows' : Live(i)' /\ rows'[i].scenario = s
                \/ chosen'[s] = Defaults
  <2>1. ASSUME NEW i \in DOMAIN rows', Live(i)', rows'[i].scenario = s
        PROVE  rows'[i].settings = chosen'[s]
    <3>1. CASE i = id
      BY <1>1, <1>3, <2>1, <3>1 DEF Live
    <3>2. CASE i # id
      <4>1. s # row.scenario \/ ~row.live
        BY <1>1, <1>3, <2>1, <3>2 DEF IInv, OneLivePerScenario, Live
      <4>2. rows[i].settings = chosen[s]
        BY <1>1, <1>3, <1>5, <2>1, <3>2 DEF ChosenStand
      <4> QED BY <1>1, <1>5, <2>1, <3>2, <4>1, <4>2
    <3> QED BY <3>1, <3>2
  <2>2. CASE \E i \in DOMAIN rows : Live(i) /\ rows[i].scenario = s
    BY <1>1, <1>3, <2>1, <2>2
  <2>3. CASE ~\E i \in DOMAIN rows : Live(i) /\ rows[i].scenario = s
    <3>1. chosen[s] = Defaults
      BY <1>2, <1>5, <2>3 DEF ChosenStand
    <3>2. s # row.scenario \/ ~row.live
      BY <2>3 DEF Live
    <3> QED BY <1>5, <2>1, <3>1, <3>2
  <2> QED BY <2>2, <2>3
<1>6. ChosenStand'
  BY <1>5 DEF ChosenStand
<1> QED BY <1>4, <1>6

\* What a step of c does to the promises.
Stands(c) == Fresh(c)' /\ ChosenStand' /\ Kept

\* A request that ends holds nothing to go wrong.
LEMMA EndFresh == ASSUME IInv, NEW c \in Clients, End(c) PROVE Fresh(c)'
<1>1. pc'[c] = "idle"
  BY DEF End, IInv, Typed, Places
<1> QED BY <1>1 DEF Fresh

\* ... and one that has only its prompt to take back holds no row either.
LEMMA UnpromptFresh == ASSUME IInv, NEW c \in Clients, Goto(c, "unprompt") PROVE Fresh(c)'
<1>1. pc'[c] = "unprompt"
  BY DEF Goto, IInv, Typed, Places
<1> QED BY <1>1 DEF Fresh

LEMMA PlayInTurn ==
  ASSUME IInv, InTurn, ~racing, NEW c \in Clients, Only(c), UNCHANGED torn,
         NEW s \in Scenarios, Play(c, s)
  PROVE  Stands(c)
<1> DEFINE found == {i \in DOMAIN rows : Live(i) /\ rows[i].scenario = s}
<1>1. UNCHANGED <<rows, active, pending, opened, chosen>> /\ pc[c] = "idle"
  BY DEF Play, Ready
<1>2. ChosenStand' /\ Kept
  BY <1>1, ChosenKept, RowsStand DEF InTurn, Kept, KeepsTranscripts
<1>3. CASE found = {}
  <2>1. PICK id \in Slots \ minted : Hold(c, "insert", id, NewRow(s, Defaults), "play")
    BY <1>3 DEF Play, Mint
  <2>2. /\ pc'[c] = "insert" /\ local'[c].id = id
        /\ local'[c].row = NewRow(s, Defaults) /\ local'[c].tier = "play"
    BY <2>1 DEF Hold, IInv, Typed, Places
  <2>3. NewRow(s, Defaults).live /\ NewRow(s, Defaults).scenario = s
        /\ NewRow(s, Defaults).settings = Defaults
    BY DEF NewRow
  <2>4. id \notin DOMAIN rows \cup opened
    BY <2>1 DEF IInv, Typed, RowsTyped, RestTyped
  <2>5. ~Restarting(s)
    BY <1>1 DEF Restarting, Only
  <2>6. s \notin torn => chosen[s] = Defaults
    BY <1>3, <2>5 DEF InTurn, ChosenStand
  <2>7. Fresh(c)'
    BY <1>1, <1>3, <2>2, <2>3, <2>4, <2>6 DEF Fresh, Live
  <2> QED BY <1>2, <2>7 DEF Stands
<1>4. CASE found # {}
  <2>1. \E id \in found : Hold(c, "reactivate", id, Blank, "play")
    BY <1>4 DEF Play
  <2>2. pc'[c] = "reactivate"
    BY <2>1 DEF Hold, IInv, Typed, Places
  <2> QED BY <1>2, <2>2 DEF Stands, Fresh
<1> QED BY <1>3, <1>4

\* The index has nothing to refuse: a scenario whose session is minted in turn has no other.
LEMMA InsertInTurn ==
  ASSUME IInv, InTurn, NEW c \in Clients, Only(c), UNCHANGED torn, Insert(c)
  PROVE  Stands(c)
<1> DEFINE v == local[c]
<1>1. /\ v.id \in Slots /\ v.id \notin DOMAIN rows /\ v.id \notin opened /\ v.row \in Row /\ v.row.live
      /\ \A i \in DOMAIN rows : Live(i) => rows[i].scenario # v.row.scenario
      /\ v.row.scenario \notin torn => v.row.settings = chosen[v.row.scenario]
      /\ UNCHANGED <<opened, chosen>>
  BY DEF Insert, InTurn, Fresh, IInv, Typed, RowsTyped, Places, Locals
<1>2. ~Collides(v.id, v.row)
  BY <1>1 DEF Collides
<1>3. rows' = Upsert(v.id, v.row) /\ Hold(c, "point", v.id, Blank, v.tier)
  BY <1>2 DEF Insert
<1>4. /\ DOMAIN rows' = DOMAIN rows \cup {v.id}
      /\ rows'[v.id] = v.row
      /\ \A i \in DOMAIN rows : rows'[i] = rows[i]
  BY <1>1, <1>3 DEF Upsert
<1>5. pc'[c] = "point" /\ local'[c].id = v.id
  BY <1>3 DEF Hold, IInv, Typed, Places
<1>6. Fresh(c)'
  BY <1>1, <1>5 DEF Fresh
<1>7. Kept
  BY <1>1, <1>4 DEF Kept, StaysSuperseded, KeepsTranscripts, KeepsPersona
<1>8. ChosenStand'
  <2>1. \A s \in Scenarios : Restarting(s) => s = v.row.scenario
    BY DEF Restarting, Only
  <2>2. \A i \in DOMAIN rows' : Live(i)' <=> Live(i) \/ i = v.id
    BY <1>1, <1>4 DEF Live
  <2> HIDE DEF v
  <2> QED BY <1>1, <1>4, <2>1, <2>2 DEF InTurn, ChosenStand
<1> QED BY <1>6, <1>7, <1>8 DEF Stands

\* The pointer, the opening, the prompt and the turn's replies touch no row.
LEMMA OpeningInTurn ==
  ASSUME IInv, InTurn, NEW c \in Clients, Only(c), UNCHANGED torn,
         \/ Point(c) \/ Wipe(c) \/ Greet(c) \/ Prompt(c) \/ Unprompt(c) \/ StoreReply(c)
  PROVE  Stands(c)
<1>1. UNCHANGED <<rows, chosen>> /\ pc[c] # "insert"
  BY DEF Point, Wipe, Greet, Prompt, Unprompt, StoreReply
<1>2. opened \subseteq opened'
  BY DEF InTurn, Fresh, Point, Wipe, Greet, Prompt, Unprompt, StoreReply
<1>3. ChosenStand' /\ Kept
  BY <1>1, <1>2, ChosenKept, RowsStand DEF InTurn, Kept, KeepsTranscripts
<1>4. CASE End(c)
  BY <1>3, <1>4, EndFresh DEF Stands
<1>5. CASE Point(c) /\ ~End(c)
  <2>1. pc[c] = "point" /\ Goto(c, "wipe") /\ opened' = opened
    BY <1>5 DEF Point
  <2>2. pc'[c] = "wipe" /\ local' = local /\ local[c].id \notin opened
    BY <2>1 DEF Goto, IInv, Typed, Places, InTurn, Fresh
  <2>3. Fresh(c)'
    BY <2>1, <2>2 DEF Fresh
  <2> QED BY <1>3, <2>3 DEF Stands
<1>6. CASE \E s \in {"greet", "prompt", "name"} : Goto(c, s)
  BY <1>3, <1>6 DEF Stands, Fresh, Goto, IInv, Typed, Places
<1> QED BY <1>4, <1>5, <1>6 DEF Point, Wipe, Greet, Prompt, Unprompt, StoreReply

\* A session is read, or about to be deleted: what is held is the row.
LEMMA ReadInTurn ==
  ASSUME IInv, InTurn, NEW c \in Clients, Only(c), UNCHANGED torn,
         \/ \E id \in DOMAIN rows : Address(c, id) \/ Purge(c, id)
         \/ Reread(c) \/ BeginTurn(c)
         \/ \E p \in Personas : ReadPersona(c, p)
         \/ \E tier \in Tiers : Reset(c, tier)
  PROVE  Stands(c)
<1>1. UNCHANGED <<rows, chosen>> /\ pc[c] # "insert"
  BY DEF Address, Purge, Reread, BeginTurn, ReadPersona, Reset, Ready
<1>2. ChosenStand'
  BY <1>1, ChosenKept DEF InTurn
<1>3. ASSUME NEW s \in Steps, NEW id, NEW row, NEW tier, Hold(c, s, id, row, tier)
      PROVE  pc'[c] = s /\ local'[c].id = id /\ local'[c].row = row
  BY <1>3 DEF Hold, IInv, Typed, Places
<1> USE DEF Steps
<1>4. CASE \E id \in DOMAIN rows : Purge(c, id)
  <2>1. PICK id \in DOMAIN rows : Purge(c, id)
    BY <1>4
  <2>2. pc'[c] = "purge" /\ local'[c].id = id /\ opened \ opened' \subseteq {id} /\ c \in Panel
    BY <1>3, <2>1 DEF Purge
  <2>3. Fresh(c)'
    BY <2>2 DEF Fresh
  <2> QED BY <1>1, <1>2, <2>2, <2>3, RowsStand DEF Stands, Kept, KeepsTranscripts
<1>5. CASE ~\E id \in DOMAIN rows : Purge(c, id)
  <2>1. opened' = opened
    BY <1>5 DEF Address, Reread, BeginTurn, ReadPersona, Reset
  <2>2. Kept
    BY <1>1, <2>1, RowsStand DEF Kept, KeepsTranscripts
  <2>3. Fresh(c)'
    <3>1. CASE \E id \in DOMAIN rows : Address(c, id)
      <4>1. PICK id \in DOMAIN rows : Address(c, id)
        BY <3>1
      <4>2. \/ pc'[c] = "hold" /\ Live(id) /\ local'[c].id = id /\ local'[c].row = rows[id]
            \/ pc'[c] = "checked" /\ Live(id) /\ local'[c].id = id
        BY <1>3, <4>1 DEF Address
      <4> QED BY <1>1, <4>2 DEF Fresh, Live
    <3>2. CASE Reread(c) \/ BeginTurn(c)
      <4>1. CASE End(c)
        BY <4>1, EndFresh
      <4>2. CASE ~End(c)
        <5>1. CASE Reread(c)
          <6>1. pc'[c] = "hold" /\ local'[c].id = local[c].id /\ local'[c].row = rows[local[c].id]
            BY <1>3, <4>2, <5>1 DEF Reread
          <6>2. Live(local[c].id)
            BY <5>1 DEF Reread, InTurn, Fresh
          <6> QED BY <1>1, <6>1, <6>2 DEF Fresh, Live
        <5>2. CASE BeginTurn(c)
          <6>1. /\ pc'[c] = "generating" /\ local'[c].id = local[c].id
                /\ local'[c].row = rows[local[c].id] /\ local[c].id \in DOMAIN rows
            BY <1>3, <4>2, <5>2 DEF BeginTurn
          <6> QED BY <1>1, <6>1 DEF Fresh
        <5> QED BY <3>2, <5>1, <5>2
      <4> QED BY <4>1, <4>2
    <3>3. CASE \E p \in Personas : ReadPersona(c, p)
      <4>1. PICK p \in Personas : ReadPersona(c, p)
        BY <3>3
      <4> DEFINE id == IF c \in Telegram THEN pending ELSE local[c].id
      <4>2. CASE Unnamed(id)
        <5>1. Hold(c, "christen", id, [rows[id] EXCEPT !.settings.persona = p], "play")
          BY <4>1, <4>2 DEF ReadPersona
        <5> HIDE DEF id
        <5>2. /\ pc'[c] = "christen" /\ local'[c].id = id
              /\ local'[c].row = [rows[id] EXCEPT !.settings.persona = p]
          BY <1>3, <5>1
        <5> QED BY <1>1, <4>2, <5>2 DEF Fresh, Unnamed, Live
      <4>3. CASE ~Unnamed(id)
        <5>1. Goto(c, "unprompt") \/ End(c)
          BY <4>1, <4>3 DEF ReadPersona
        <5> QED BY <5>1, EndFresh, UnpromptFresh
      <4> QED BY <4>2, <4>3
    <3>4. CASE \E tier \in Tiers : Reset(c, tier)
      <4>1. PICK tier \in Tiers : Reset(c, tier)
        BY <3>4
      <4>2. /\ pc'[c] = "supersede" /\ local'[c].id = active /\ local'[c].row = rows[active]
            /\ local'[c].tier # "play" /\ Live(active)
        BY <4>1 DEF Reset, Hold, IInv, Typed, Places
      <4> QED BY <1>1, <4>2 DEF Fresh, Live
    <3> QED BY <1>5, <3>1, <3>2, <3>3, <3>4
  <2> QED BY <1>2, <2>2, <2>3 DEF Stands
<1> QED BY <1>4, <1>5

\* The persona that is saved is the session's first.
LEMMA ChristenInTurn ==
  ASSUME IInv, InTurn, NEW c \in Clients, Only(c), UNCHANGED torn, Christen(c)
  PROVE  Stands(c)
<1> DEFINE v == local[c]
<1>1. /\ v.id \in DOMAIN rows /\ rows[v.id].live /\ rows[v.id].settings.persona = None
      /\ v.row \in Row /\ rows[v.id] \in Row
      /\ UNCHANGED opened /\ pc[c] = "christen" /\ pc[c] # "insert"
  BY DEF Christen, InTurn, Fresh, Unnamed, Live, IInv, Typed, RowsTyped, Places, Locals
<1>2. PICK p \in Personas : v.row = [rows[v.id] EXCEPT !.settings.persona = p]
  BY DEF Christen, InTurn, Fresh
<1>3. /\ v.row.live = rows[v.id].live /\ v.row.scenario = rows[v.id].scenario
      /\ v.row.settings = [rows[v.id].settings EXCEPT !.persona = p]
      /\ v.row.settings.persona = p
  <2> DEFINE old == rows[v.id]
  <2>1. v.row = [old EXCEPT !.settings.persona = p] /\ old \in Row
    BY <1>1, <1>2
  <2> HIDE DEF old, v
  <2>2. v.row = [old EXCEPT !.settings = [old.settings EXCEPT !.persona = p]]
    BY <2>1
  <2>3. old.settings \in Settings
    BY <2>1, SettingsTyped
  <2>4. v.row.settings = [old.settings EXCEPT !.persona = p]
    BY <2>1, <2>2, Zenon DEF Row
  <2>5. v.row.settings.persona = p
    BY <2>3, <2>4 DEF Settings
  <2>6. v.row.live = old.live /\ v.row.scenario = old.scenario
    BY <2>1, <2>2 DEF Row
  <2> QED BY <2>4, <2>5, <2>6 DEF old
<1>4. ~Collides(v.id, v.row)
  BY <1>1, <1>3 DEF Collides, IInv, OneLivePerScenario, Live
<1>5. /\ rows' = Upsert(v.id, v.row)
      /\ chosen' = [chosen EXCEPT ![v.row.scenario].persona = p]
      /\ Goto(c, "unprompt") \/ End(c)
  BY <1>3, <1>4 DEF Christen
<1>6. v.row.scenario \in Scenarios /\ chosen \in [Scenarios -> Settings]
  BY <1>1 DEF Row, IInv, Typed, RestTyped
<1>7. v.row.scenario \notin torn => rows[v.id].settings = chosen[v.row.scenario]
  BY <1>1, <1>3, <1>6 DEF InTurn, ChosenStand, Live
<1> HIDE DEF v
<1>8. /\ \A s \in Scenarios : s # v.row.scenario => chosen'[s] = chosen[s]
      /\ v.row.scenario \notin torn => chosen'[v.row.scenario] = v.row.settings
  BY <1>3, <1>5, <1>6, <1>7
<1>9. ChosenStand' /\ StaysSuperseded
  BY <1>1, <1>3, <1>5, <1>8, SavedRow DEF InTurn
<1>10. KeepsPersona /\ KeepsTranscripts
  <2> USE DEF Upsert
  <2>1. KeepsTranscripts
    BY <1>1 DEF KeepsTranscripts
  <2>2. KeepsPersona
    BY <1>1, <1>5 DEF KeepsPersona
  <2> QED BY <2>1, <2>2
<1>11. Fresh(c)'
  BY <1>1, <1>5, EndFresh, UnpromptFresh
<1> QED BY <1>9, <1>10, <1>11 DEF Stands, Kept

\* The settings that are saved are the ones the edit has chosen.
LEMMA SaveEditInTurn ==
  ASSUME IInv, InTurn, NEW c \in Clients, Only(c), UNCHANGED torn, SaveEdit(c)
  PROVE  Stands(c)
<1> DEFINE v == local[c]
<1>1. /\ v.id \in DOMAIN rows /\ rows[v.id].live /\ v.row = rows[v.id] /\ v.row \in Row
      /\ UNCHANGED opened /\ pc[c] = "hold" /\ pc[c] # "insert" /\ End(c)
  BY DEF SaveEdit, InTurn, Fresh, Live, IInv, Typed, RowsTyped
<1>2. PICK settings \in Edited(c, v.row.settings) :
        LET row == [v.row EXCEPT !.settings = settings] IN
        IF Collides(v.id, row)
          THEN UNCHANGED <<rows, chosen>>
          ELSE /\ rows' = Upsert(v.id, row)
               /\ chosen' = IF row.live THEN [chosen EXCEPT ![row.scenario] = settings]
                                        ELSE chosen
  BY DEF SaveEdit
<1> DEFINE row == [v.row EXCEPT !.settings = settings]
<1>3. settings \in Settings /\ row \in Row
  BY <1>1, EditTyped, SettingsTyped
<1>4. row.live /\ row.scenario = rows[v.id].scenario /\ row.settings = settings
  BY <1>1 DEF Row
<1>5. ~Collides(v.id, row)
  BY <1>1, <1>4 DEF Collides, IInv, OneLivePerScenario, Live
<1>6. rows' = Upsert(v.id, row) /\ chosen' = [chosen EXCEPT ![row.scenario] = settings]
  BY <1>2, <1>4, <1>5
<1>7. row.scenario \in Scenarios /\ chosen \in [Scenarios -> Settings]
  BY <1>3 DEF Row, IInv, Typed, RestTyped
<1>8. KeepsPersona
  <2>1. c \in Panel \/ settings.persona = v.row.settings.persona
    BY <1>1, SettingsTyped DEF Edited, Settings
  <2> HIDE DEF v, row
  <2> QED BY <1>1, <1>4, <1>6, <2>1 DEF KeepsPersona, Upsert
<1> HIDE DEF v, row
<1>9. ChosenStand' /\ StaysSuperseded
  BY <1>1, <1>3, <1>4, <1>6, <1>7, SavedRow DEF InTurn
<1> QED BY <1>1, <1>8, <1>9, EndFresh DEF Stands, Kept, KeepsTranscripts

\* A note is queued, or taken off before the turn's messages are stored.
LEMMA NoteInTurn ==
  ASSUME IInv, InTurn, NEW c \in Clients, Only(c), UNCHANGED torn, SaveNote(c) \/ Consume(c)
  PROVE  Stands(c)
<1> DEFINE v == local[c]
<1>1. /\ v.id \in DOMAIN rows /\ v.row = rows[v.id] /\ v.row \in Row
      /\ UNCHANGED <<opened, chosen>> /\ pc[c] # "insert"
  BY DEF SaveNote, Consume, InTurn, Fresh, Live, IInv, Typed, RowsTyped
<1>2. Fresh(c)'
  <2>1. End(c) \/ pc'[c] = "reply"
    BY DEF SaveNote, Consume, Goto, Hold, IInv, Typed, Places
  <2> QED BY <2>1, EndFresh DEF Fresh
<1>3. CASE rows' = rows
  BY <1>1, <1>2, <1>3, ChosenKept, RowsStand DEF InTurn, Stands, Kept, KeepsTranscripts
<1>4. CASE rows' # rows
  <2>1. PICK note \in BOOLEAN : rows' = Upsert(v.id, [v.row EXCEPT !.note = note])
    BY <1>4 DEF SaveNote, Consume
  <2> DEFINE row == [v.row EXCEPT !.note = note]
  <2>2. /\ row \in Row /\ row.live = rows[v.id].live /\ row.scenario = rows[v.id].scenario
        /\ row.settings = rows[v.id].settings
    BY <1>1 DEF Row
  <2>3. row.live /\ row.scenario \notin torn => chosen[row.scenario] = row.settings
    BY <1>1, <2>2 DEF InTurn, ChosenStand, Live, Row
  <2>4. rows' = Upsert(v.id, row)
    BY <2>1
  <2> HIDE DEF row, v
  <2>5. ChosenStand' /\ StaysSuperseded
    BY <1>1, <2>2, <2>3, <2>4, SavedRow DEF InTurn
  <2>6. KeepsPersona
    BY <1>1, <2>2, <2>4 DEF KeepsPersona, Upsert
  <2> QED BY <1>1, <1>2, <2>5, <2>6 DEF Stands, Kept, KeepsTranscripts
<1> QED BY <1>3, <1>4

\* The outgoing session is the scenario's only one, and what its successor carries is what
\* was chosen: after a /clear that is nothing.
LEMMA SupersedeInTurn ==
  ASSUME IInv, InTurn, NEW c \in Clients, Only(c), UNCHANGED torn, Supersede(c)
  PROVE  Stands(c)
<1> DEFINE v == local[c]
           old == [v.row EXCEPT !.live = FALSE]
           s == v.row.scenario
           new == NewRow(s, Carried(v))
<1>1. /\ v.id \in DOMAIN rows /\ rows[v.id].live /\ v.row = rows[v.id] /\ v.row \in Row
      /\ v.tier \in Tiers /\ UNCHANGED opened /\ pc[c] = "supersede"
  BY DEF Supersede, InTurn, Fresh, Live, IInv, Typed, RowsTyped, Places, Locals
<1>2. s \in Scenarios /\ chosen \in [Scenarios -> Settings]
  BY <1>1 DEF Row, IInv, Typed, RestTyped
<1>3. PICK id \in Slots \ minted : Hold(c, "insert", id, new, v.tier)
  BY DEF Supersede, Mint
<1>4. /\ pc'[c] = "insert" /\ local'[c].id = id /\ local'[c].row = new /\ local'[c].tier = v.tier
  BY <1>3 DEF Hold, IInv, Typed, Places
<1>5. new.live /\ new.scenario = s /\ new.settings = Carried(v)
  BY DEF NewRow
<1>6. id \notin DOMAIN rows \cup opened
  BY <1>3 DEF IInv, Typed, RowsTyped, RestTyped
<1>7. /\ DOMAIN rows' = DOMAIN rows
      /\ rows'[v.id] = old
      /\ \A i \in DOMAIN rows \ {v.id} : rows'[i] = rows[i]
  BY <1>1 DEF Supersede, Upsert
<1>8. ~old.live /\ old.scenario = s /\ old.settings = rows[v.id].settings
  BY <1>1 DEF Row
<1>9. chosen' = IF v.tier = "clear" THEN [chosen EXCEPT ![s] = Defaults] ELSE chosen
  BY DEF Supersede
<1>10. s \notin torn => rows[v.id].settings = chosen[s]
  BY <1>1, <1>2 DEF InTurn, ChosenStand, Live
<1>11. s \notin torn => Carried(v) = chosen'[s]
  <2>1. v.tier \in {"restart", "clear", "play"}
    BY <1>1 DEF Tiers
  <2>2. v.tier # "restart" => Carried(v) = Defaults
    BY DEF Carried
  <2>3. v.tier = "restart" => Carried(v) = rows[v.id].settings
    BY <1>1 DEF Carried
  <2>4. v.tier # "play"
    BY DEF Supersede, InTurn, Fresh
  <2> QED BY <1>2, <1>9, <1>10, <2>1, <2>2, <2>3, <2>4
<1> HIDE DEF v, old, new
<1>12. \A i \in DOMAIN rows' : Live(i)' <=> Live(i) /\ i # v.id
  BY <1>7, <1>8 DEF Live
<1>13. \A i \in DOMAIN rows' : Live(i)' => rows'[i].scenario # s
  BY <1>1, <1>7, <1>12 DEF IInv, OneLivePerScenario, Live, s
<1>14. Fresh(c)'
  BY <1>4, <1>5, <1>6, <1>7, <1>11, <1>13, <1>1 DEF Fresh
<1>15. Kept
  BY <1>1, <1>7, <1>8 DEF Kept, StaysSuperseded, KeepsTranscripts, KeepsPersona
<1>16. ASSUME NEW x \in Scenarios \ torn
       PROVE  /\ \A i \in DOMAIN rows' :
                   Live(i)' /\ rows'[i].scenario = x => rows'[i].settings = chosen'[x]
              /\ \/ \E i \in DOMAIN rows' : Live(i)' /\ rows'[i].scenario = x
                 \/ chosen'[x] = Defaults
                 \/ Restarting(x)'
  <2>1. CASE x = s
    <3>1. v.tier = "restart" => Restarting(x)'
      BY <1>4, <1>5, <2>1 DEF Restarting
    <3>2. v.tier # "restart" => chosen'[x] = Defaults
      <4>1. v.tier # "restart" => Carried(v) = Defaults
        BY DEF Carried
      <4> QED BY <1>11, <1>16, <2>1, <4>1
    <3> QED BY <1>13, <2>1, <3>1, <3>2
  <2>2. CASE x # s
    <3>1. ~Restarting(x) /\ chosen'[x] = chosen[x]
      BY <1>1, <1>2, <1>9, <2>2 DEF Restarting, Only
    <3>2. \A i \in DOMAIN rows : Live(i) /\ rows[i].scenario = x => i # v.id
      BY <1>1, <2>2 DEF s
    <3> QED BY <1>7, <1>12, <1>16, <3>1, <3>2 DEF InTurn, ChosenStand
  <2> QED BY <2>1, <2>2
<1>17. ChosenStand'
  BY <1>16 DEF ChosenStand
<1> QED BY <1>14, <1>15, <1>17 DEF Stands

\* With the live session of a scenario go the settings chosen for it.
LEMMA DeleteRowInTurn ==
  ASSUME IInv, InTurn, NEW c \in Clients, Only(c), UNCHANGED torn, DeleteRow(c)
  PROVE  Stands(c)
<1> DEFINE id == local[c].id
<1>1. /\ rows' = [i \in DOMAIN rows \ {id} |-> rows[i]]
      /\ chosen' = IF Live(id) THEN [chosen EXCEPT ![rows[id].scenario] = Defaults] ELSE chosen
      /\ UNCHANGED opened /\ End(c) /\ pc[c] = "purge"
  BY DEF DeleteRow
<1>2. chosen \in [Scenarios -> Settings] /\ \A i \in DOMAIN rows : rows[i] \in Row
  BY DEF IInv, Typed, RowsTyped, RestTyped
<1>3. \A s \in Scenarios : ~Restarting(s)
  BY <1>1 DEF Restarting, Only
<1> HIDE DEF id
<1>4. \A i \in DOMAIN rows' : Live(i)' <=> Live(i)
  BY <1>1 DEF Live
<1>5. ASSUME NEW s \in Scenarios \ torn
      PROVE  /\ \A i \in DOMAIN rows' :
                  Live(i)' /\ rows'[i].scenario = s => rows'[i].settings = chosen'[s]
             /\ \/ \E i \in DOMAIN rows' : Live(i)' /\ rows'[i].scenario = s
                \/ chosen'[s] = Defaults
  <2>1. CASE Live(id) /\ rows[id].scenario = s
    <3>1. chosen'[s] = Defaults
      BY <1>1, <1>2, <2>1
    <3>2. \A i \in DOMAIN rows' : ~(Live(i) /\ rows[i].scenario = s)
      BY <1>1, <2>1 DEF IInv, OneLivePerScenario, Live
    <3> QED BY <1>1, <1>4, <3>1, <3>2
  <2>2. CASE ~(Live(id) /\ rows[id].scenario = s)
    <3>1. chosen'[s] = chosen[s]
      BY <1>1, <1>2, <2>2
    <3>2. /\ \A i \in DOMAIN rows : Live(i) /\ rows[i].scenario = s => rows[i].settings = chosen[s]
          /\ chosen[s] = Defaults \/ \E i \in DOMAIN rows : Live(i) /\ rows[i].scenario = s
      BY <1>3, <1>5 DEF InTurn, ChosenStand
    <3> QED BY <1>1, <1>4, <2>2, <3>1, <3>2
  <2> QED BY <2>1, <2>2
<1>6. ChosenStand'
  BY <1>5 DEF ChosenStand
<1>7. Kept
  BY <1>1 DEF Kept, StaysSuperseded, KeepsTranscripts, KeepsPersona
<1> QED BY <1>1, <1>6, <1>7, EndFresh DEF Stands

\* Dying loses settings only between the two saves of a /restart.
LEMMA FailInTurn ==
  ASSUME IInv, InTurn, NEW c \in Clients, Only(c), Fail(c)
  PROVE  Stands(c)
<1>1. UNCHANGED <<rows, opened, chosen>> /\ End(c)
  BY DEF Fail
<1>2. \A s \in Scenarios : Restarting(s) => s \in torn'
  BY DEF Fail, Restarting, Only
<1>3. torn \subseteq torn'
  BY DEF Fail
<1>4. ChosenStand'
  BY <1>1, <1>2, <1>3 DEF InTurn, ChosenStand, Live
<1> QED BY <1>1, <1>4, EndFresh, RowsStand DEF Stands, Kept, KeepsTranscripts

\* One client's step, and with it the whole specification.
LEMMA StepInTurn ==
  ASSUME IInv, InTurn, ~racing, NEW c \in Clients, Step(c)
  PROVE  InTurn' /\ Kept
<1>1. Alone' /\ Only(c)
  BY OneAtATime DEF InTurn
<1>2. Stands(c)
  <2>1. CASE ServiceStep(c) /\ UNCHANGED torn
    BY <1>1, <2>1, PlayInTurn, InsertInTurn, OpeningInTurn, ReadInTurn, ChristenInTurn,
       SupersedeInTurn DEF ServiceStep
  <2>2. CASE RowStep(c) /\ UNCHANGED torn
    BY <1>1, <2>2, OpeningInTurn, ReadInTurn, SaveEditInTurn, NoteInTurn, DeleteRowInTurn
       DEF RowStep
  <2>3. CASE Fail(c)
    BY <1>1, <2>3, FailInTurn
  <2> QED BY <2>1, <2>2, <2>3 DEF Step
<1>3. \A d \in Clients \ {c} : Fresh(d)'
  BY <1>1 DEF Only, Fresh
<1> QED BY <1>1, <1>2, <1>3 DEF InTurn, Stands

LEMMA NextInTurn == TInv /\ [Next]_vars => TInv' /\ (~racing => Kept)
<1> SUFFICES ASSUME TInv, [Next]_vars PROVE TInv' /\ (~racing => Kept)
  OBVIOUS
<1>1. IInv'
  BY NextIInv DEF TInv
<1>2. CASE UNCHANGED vars
  <2>1. ~racing => InTurn'
    <3>1. Alone' = Alone /\ (\A c \in Clients : Fresh(c)' = Fresh(c)) /\ ChosenStand' = ChosenStand
      BY <1>2 DEF vars, Alone, Fresh, ChosenStand, Live, Unnamed, Restarting
    <3> QED BY <1>2, <3>1 DEF TInv, InTurn, vars
  <2>2. Kept
    BY <1>2 DEF vars, Kept, StaysSuperseded, KeepsTranscripts, KeepsPersona
  <2> QED BY <1>1, <1>2, <2>1, <2>2 DEF TInv, vars
<1>3. CASE Next
  BY <1>1, <1>3, StepInTurn DEF TInv, Next, Step
<1> QED BY <1>2, <1>3

LEMMA InitInTurn == Init => TInv
<1> SUFFICES ASSUME Init PROVE TInv
  OBVIOUS
<1>1. Alone /\ (\A c \in Clients : Fresh(c)) /\ ChosenStand
  BY DEF Init, Alone, Fresh, ChosenStand
<1> QED BY <1>1, InitIInv DEF TInv, InTurn

\* The settings of a live session are those last chosen, through every request that waits
\* for the one before it, but for a /restart that dies between its two saves
\* (playthrough_service.py, session_directive_service.py, admin_service.py).
THEOREM ChosenHold == Spec => []ChosenSettingsHold
<1>1. TInv => ChosenSettingsHold
  <2> SUFFICES ASSUME TInv, ~racing, NEW id \in DOMAIN rows, Live(id),
                      rows[id].scenario \notin torn
               PROVE  rows[id].settings = chosen[rows[id].scenario]
    BY DEF ChosenSettingsHold
  <2>1. rows[id].scenario \in Scenarios
    BY DEF TInv, IInv, Typed, RowsTyped, Row
  <2> QED BY <2>1 DEF TInv, InTurn, ChosenStand
<1> QED BY <1>1, InitInTurn, NextInTurn, PTL DEF Spec

\* Of requests in turn, none brings back a session that a reset has superseded ...
THEOREM SupersededForGood == Spec => SupersededStaysInTurn
<1>1. TInv /\ [Next]_vars => [~racing => StaysSuperseded]_vars
  BY NextInTurn DEF Kept
<1> QED BY <1>1, InitInTurn, NextInTurn, PTL DEF Spec, SupersededStaysInTurn

\* ... none but the panel's hard delete takes a transcript ...
THEOREM TranscriptsStay == Spec => TranscriptsKept
<1>1. TInv /\ [Next]_vars => [~racing => KeepsTranscripts]_vars
  BY NextInTurn DEF Kept
<1> QED BY <1>1, InitInTurn, NextInTurn, PTL DEF Spec, TranscriptsKept

\* ... and none but the operator's override replaces a persona.
THEOREM PersonaStays == Spec => PersonaSetOnce
<1>1. TInv /\ [Next]_vars => [~racing => KeepsPersona]_vars
  BY NextInTurn DEF Kept
<1> QED BY <1>1, InitInTurn, NextInTurn, PTL DEF Spec, PersonaSetOnce
=============================================================================
