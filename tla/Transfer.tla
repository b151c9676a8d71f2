------------------------------ MODULE Transfer -------------------------------
(***************************************************************************)
(* A session put away as an archive and read back: the mappers of          *)
(* infrastructure/scenario_serialization.py, export_session and            *)
(* import_session of ScenarioTransferService and the save they end in.     *)
(* The stored row has the archive's form too: a load reads it with the     *)
(* same mapper.  Language and rules travel as the notes do.  Requests and  *)
(* turns run between any two awaits; the process may die at each.          *)
(***************************************************************************)
EXTENDS Integers, Sequences

CONSTANTS
  None,      \* a key that is absent, or null
  MaxEdits   \* bound: how often the session changes

Toggleable == {"rolling_summary", "lorebook"}   \* the layers this build has

VARIABLES
  saved,     \* the session's row, as a payload
  meant,     \* history: the session as it was last set or imported
  taken,     \* whether another live session holds its owner's slot
  spoken,    \* its transcript
  archive,   \* the file the operator has
  out,       \* an export: the session it read, and the one that was meant
  in,        \* an import: what it was given, and how far it came
  edits

vars == <<saved, meant, taken, spoken, archive, out, in, edits>>

Idle == [step |-> "idle", file |-> None, next |-> 0, raced |-> FALSE]

\* What sessions stored before memory settings existed read as: no key but the oldest.
Plain == [valid |-> TRUE, deleted |-> None, persona |-> None, notes |-> <<>>, note |-> None,
          layers |-> None, shares |-> None]

\* ... and mean.
Default == [deleted |-> None, persona |-> None, notes |-> <<>>, layers |-> {"rolling_summary"},
            shares |-> [layer \in {"rolling_summary"} |-> 25]]
-----------------------------------------------------------------------------
(* The mappers.                                                            *)

\* memory_settings_from_payload: only a missing list means the default.
EnabledFrom(layers) == IF layers = None THEN {"rolling_summary"} ELSE layers \cap Toggleable

Fits(shares, layer) == layer \in Toggleable /\ shares[layer] \in 1..100

\* _memory_source_budgets_from_payload, in percent.
SharesFrom(shares) ==
  IF shares = None THEN [layer \in {"rolling_summary"} |-> 25]
  ELSE [layer \in {known \in DOMAIN shares : Fits(shares, known)} |-> shares[layer]]

\* A list of notes without the blank ones.
Usable(notes) ==
  LET upTo[n \in 0..Len(notes)] ==
        IF n = 0 THEN <<>>
        ELSE IF notes[n] = "blank" THEN upTo[n - 1]
        ELSE Append(upTo[n - 1], notes[n])
  IN upTo[Len(notes)]

\* _director_instructions_from_payload: blank notes go, and the single note of older
\* archives is kept.
NotesFrom(p) ==
  IF p.notes # None THEN Usable(p.notes)
  ELSE IF p.note \in {None, "blank"} THEN <<>> ELSE <<p.note>>

\* _optional_text.
OptionalText(text) == IF text = "blank" THEN None ELSE text

\* scenario_session_from_payload, of one that can be read.
FromPayload(p) ==
  [deleted |-> p.deleted, persona |-> OptionalText(p.persona), notes |-> NotesFrom(p),
   layers |-> EnabledFrom(p.layers), shares |-> SharesFrom(p.shares)]

\* scenario_session_to_payload.
ToPayload(session) ==
  [valid |-> TRUE, deleted |-> session.deleted, persona |-> session.persona,
   notes |-> session.notes, note |-> None, layers |-> session.layers, shares |-> session.shares]
-----------------------------------------------------------------------------
(* What the player and the operator do meanwhile.                          *)

Init ==
  /\ saved \in {Plain, ToPayload(Default)}
  /\ meant = Default
  /\ taken = FALSE
  /\ spoken = <<>>
  /\ archive = None
  /\ out = None
  /\ in = Idle
  /\ edits = 0

Raced == in' = [in EXCEPT !.raced = in # Idle]
Counted == edits < MaxEdits /\ edits' = edits + 1

\* A request changes one setting of the session.
Edit ==
  LET session == FromPayload(saved) IN
  /\ \E changed \in
          {[session EXCEPT !.notes = notes] : notes \in {<<>>, <<"note">>}}
     \cup {[session EXCEPT !.layers = layers] : layers \in SUBSET Toggleable}
     \cup {[session EXCEPT !.persona = "someone"]} :
       changed # session /\ saved' = ToPayload(changed) /\ meant' = changed
  /\ Counted /\ Raced
  /\ UNCHANGED <<taken, spoken, archive, out>>

\* /restart and /clear stamp the session, and another takes its slot.
Supersede ==
  /\ saved.deleted = None
  /\ LET stamped == [FromPayload(saved) EXCEPT !.deleted = "then"] IN
       saved' = ToPayload(stamped) /\ meant' = stamped
  /\ taken' = TRUE
  /\ Counted /\ Raced
  /\ UNCHANGED <<spoken, archive, out>>

\* The panel deletes the session that took the slot.
Vacate ==
  /\ taken /\ taken' = FALSE
  /\ Counted
  /\ UNCHANGED <<saved, meant, spoken, archive, out, in>>

\* A turn stores a message.
Say ==
  /\ spoken' = Append(spoken, edits + 1)
  /\ Counted /\ Raced
  /\ UNCHANGED <<saved, meant, taken, archive, out>>
-----------------------------------------------------------------------------
(* Export: the row, then the messages.                                     *)

\* Mutant: the stamp of a superseded session stays behind.
ExportedLive(session) == [ToPayload(session) EXCEPT !.deleted = None]

Exported(session) == ToPayload(session)

ExportRow ==
  /\ out' = [read |-> FromPayload(saved), of |-> meant]
  /\ UNCHANGED <<saved, meant, taken, spoken, archive, in, edits>>

\* `of` is what the archive was made from.
ExportTranscript ==
  /\ out # None
  /\ archive' = [payload |-> Exported(out.read), said |-> spoken, of |-> out.of]
  /\ out' = None
  /\ UNCHANGED <<saved, meant, taken, spoken, in, edits>>

Unreadable == 0   \* a message without a role this build knows

\* Archives from elsewhere, with the session each stands for: one from before notes could
\* queue up, one of a build with more layers, one with a message that cannot be read, and
\* one that is no session.
Foreign ==
  {[payload |-> [Plain EXCEPT !.notes = None, !.note = "note"], said |-> <<7>>,
    of |-> [Default EXCEPT !.notes = <<"note">>]],
   [payload |-> [Plain EXCEPT !.notes = <<"blank", "note">>, !.persona = "blank",
                              !.layers = {"lorebook", "dreams"},
                              !.shares = [layer \in {"dreams", "lorebook"} |-> IF layer = "dreams" THEN 50 ELSE 0]],
    said |-> <<>>,
    of |-> [Default EXCEPT !.notes = <<"note">>, !.layers = {"lorebook"}, !.shares = <<>>]],
   [payload |-> Plain, said |-> <<7, Unreadable>>, of |-> Default],
   [payload |-> [Plain EXCEPT !.valid = FALSE], said |-> <<7>>, of |-> None]}

Receive ==
  /\ archive = None
  /\ archive' \in Foreign
  /\ UNCHANGED <<saved, meant, taken, spoken, out, in, edits>>
-----------------------------------------------------------------------------
(* Import: what cannot be read is refused, so is a live session whose slot is taken; then *)
(* the row is saved, the transcript cleared and written anew, message by message.         *)

ImportSession ==
  /\ in = Idle /\ archive # None
  /\ archive.payload.valid
  /\ LET session == FromPayload(archive.payload) IN
       /\ session.deleted # None \/ ~taken
       /\ saved' = ToPayload(session)
  /\ meant' = archive.of
  /\ in' = [step |-> "clear", file |-> archive, next |-> 1, raced |-> FALSE]
  /\ UNCHANGED <<taken, spoken, archive, out, edits>>

ClearTranscript ==
  /\ in.step = "clear"
  /\ spoken' = <<>>
  /\ in' = [in EXCEPT !.step = "say"]
  /\ UNCHANGED <<saved, meant, taken, archive, out, edits>>

Written == in.step = "say" /\ in.next > Len(in.file.said)

SaveMessage ==
  /\ in.step = "say" /\ ~Written
  /\ in.file.said[in.next] # Unreadable
  /\ spoken' = Append(spoken, in.file.said[in.next])
  /\ in' = [in EXCEPT !.next = @ + 1]
  /\ UNCHANGED <<saved, meant, taken, archive, out, edits>>

\* The import answers, or raises at a message it cannot read: what it wrote stays.
EndImport ==
  /\ in.step = "say"
  /\ ~Written => in.file.said[in.next] = Unreadable
  /\ in' = Idle
  /\ UNCHANGED <<saved, meant, taken, spoken, archive, out, edits>>

Crash ==
  /\ in' = Idle
  /\ out' = None
  /\ UNCHANGED <<saved, meant, taken, spoken, archive, edits>>

Next ==
  \/ Edit \/ Supersede \/ Vacate \/ Say
  \/ ExportRow \/ ExportTranscript \/ Receive
  \/ ImportSession \/ ClearTranscript \/ SaveMessage \/ EndImport
  \/ Crash

Spec == Init /\ [][Next]_vars
-----------------------------------------------------------------------------
\* A session reads back as it was last set, whatever its row was written by; and an import
\* sets the session its archive was made from -- settings, stamp and, when it ends well,
\* exactly its transcript -- whatever was there before, however earlier imports were cut off
\* and whichever build wrote the archive, unless the session changed under it (import_session
\* and the mappers of scenario_serialization).
ImportRestores ==
  /\ FromPayload(saved) = meant
  /\ Written /\ ~in.raced => meant = in.file.of /\ spoken = in.file.said
=============================================================================
