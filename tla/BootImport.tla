----------------------------- MODULE BootImport ------------------------------
(***************************************************************************)
(* The curated scenario files at boot: lifespan, import_directory,         *)
(* read_scenario_directory, read_scenario_lorebook_directory and the       *)
(* mappers of definitions, metadata and lore.  All definitions are read,   *)
(* then saved one by one; then the lore of all files likewise, by a second *)
(* pass that only asks a file for its id and its list of entries.  A lore  *)
(* entry's foreign key names its scenario.                                 *)
(***************************************************************************)
EXTENDS Sequences

CONSTANTS
  Ids,   \* the scenarios that ship as files, one each
  None

\* What a hand-written file may hold.  "wrong" metadata: not an object; characters "null":
\* not a map (an AttributeError is not among the errors the mapper expects).
Good == [text |-> "readable", name |-> "there", characters |-> "map", metadata |-> "text",
         lorebook |-> <<"good">>]

Metadatas == {"absent", "text", "number", "null", "nested", "wrong"}

\* One with at most one flaw besides its lore.
Files ==
  LET flawed == {[Good EXCEPT !.text = text] : text \in {"not json", "not utf-8", "not an object"}}
           \cup {[Good EXCEPT !.name = "missing"], [Good EXCEPT !.characters = "null"]}
           \cup {[Good EXCEPT !.metadata = metadata] : metadata \in Metadatas}
  IN {[file EXCEPT !.lorebook = lore] : file \in flawed, lore \in {None, <<"good">>, <<"bad">>}}

VARIABLES
  files,   \* the directory, by scenario id
  rowsOf,  \* scenario_definitions: what each scenario's metadata says, None without a row
  loreOf,  \* the scenarios with a lorebook entry
  phase,   \* of the process
  todo     \* what is read and not saved yet (in any order: the directory's shows nowhere)

vars == <<files, rowsOf, loreOf, phase, todo>>

Directories ==
  {[id \in Ids |-> IF id = odd THEN file ELSE Good] : odd \in Ids, file \in Files}

Init ==
  /\ files \in Directories
  /\ rowsOf = [id \in Ids |-> None]
  /\ loreOf = {}
  /\ phase = "down"
  /\ todo = {}
-----------------------------------------------------------------------------
(* The mappers: None is a payload refused.                                 *)

\* metadata_from_payload: scalars become text and null drops its key.
MetadataFrom(raw) ==
  CASE raw \in {"text", "number"} -> "text"
    [] raw \in {"absent", "null"} -> "nothing"
    [] raw \in {"nested", "wrong"} -> None

\* scenario_definition_from_payload.
DefinitionFrom(file) == IF file.name = "missing" THEN None ELSE MetadataFrom(file.metadata)

\* What is not JSON and what is not an object are skipped with a warning.
Parsed(file) == file.text = "readable"

\* What is not UTF-8 raises in both passes (a UnicodeDecodeError is no JSONDecodeError), a
\* wrong shape in the first.
Raises(file) ==
  \/ file.text = "not utf-8"
  \/ Parsed(file) /\ file.name = "there" /\ file.characters = "null"
-----------------------------------------------------------------------------
(* The boot.                                                               *)

\* Mutant: a file that gives nothing ends the reading, and nothing is saved.
DefinitionsAllOrNone ==
  {id \in Ids : \A other \in Ids : Parsed(files[other]) /\ DefinitionFrom(files[other]) # None}

Definitions == {id \in Ids : Parsed(files[id]) /\ DefinitionFrom(files[id]) # None}
Lores == {id \in Ids : Parsed(files[id]) /\ files[id].lorebook = <<"good">>}

\* The database does not answer: nothing is imported (or the process gives up).
BootBlind ==
  /\ phase = "down"
  /\ phase' \in {"serving", "down"}
  /\ UNCHANGED <<files, rowsOf, loreOf, todo>>

ReadDefinitions ==
  /\ phase = "down"
  /\ IF \E id \in Ids : Raises(files[id])
       THEN phase' = "raised" /\ todo' = {}
       ELSE phase' = "definitions" /\ todo' = Definitions
  /\ UNCHANGED <<files, rowsOf, loreOf>>

SaveDefinition ==
  /\ phase = "definitions"
  /\ \E id \in todo :
       /\ rowsOf' = [rowsOf EXCEPT ![id] = DefinitionFrom(files[id])]
       /\ todo' = todo \ {id}
  /\ UNCHANGED <<files, loreOf, phase>>

ReadLore ==
  /\ phase = "definitions" /\ todo = {}
  /\ phase' = "lore"
  /\ todo' = Lores
  /\ UNCHANGED <<files, rowsOf, loreOf>>

\* The insert is refused without the scenario's row, and nobody catches that.
SaveLoreEntry ==
  /\ phase = "lore"
  /\ \E id \in todo :
       IF rowsOf[id] = None
         THEN phase' = "raised" /\ todo' = {} /\ UNCHANGED loreOf
         ELSE loreOf' = loreOf \cup {id} /\ todo' = todo \ {id} /\ UNCHANGED phase
  /\ UNCHANGED <<files, rowsOf>>

Serve ==
  /\ phase = "lore" /\ todo = {}
  /\ phase' = "imported"
  /\ UNCHANGED <<files, rowsOf, loreOf, todo>>

\* The process ends, on its own or not, and the files may be edited before the next start.
Down ==
  /\ phase # "down"
  /\ phase' = "down"
  /\ todo' = {}
  /\ files' \in {files} \cup Directories
  /\ UNCHANGED <<rowsOf, loreOf>>

Next ==
  \/ BootBlind \/ ReadDefinitions \/ SaveDefinition \/ ReadLore \/ SaveLoreEntry \/ Serve
  \/ Down

Spec == Init /\ [][Next]_vars
-----------------------------------------------------------------------------
\* What a person can read in a file: all it needs is there, and nothing nested.
Usable(file) ==
  /\ file.text = "readable" /\ file.name = "there" /\ file.characters = "map"
  /\ file.metadata \notin {"nested", "wrong"}

\* A boot that imported has every usable file in the database with its lore, whatever the
\* other files hold, and no scenario is lost over an unquoted number (metadata_from_payload).
ImportComplete ==
  phase = "imported" =>
    \A id \in Ids : Usable(files[id]) =>
      /\ rowsOf[id] = IF files[id].metadata \in {"text", "number"} THEN "text" ELSE "nothing"
      /\ files[id].lorebook = <<"good">> => id \in loreOf

\* "Invalid files are logged and skipped rather than raised" (scenario_transfer.py:31-33).
BootSkipsBadFiles == phase # "raised"
=============================================================================
