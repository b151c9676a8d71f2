----------------------------- MODULE ChatPanel ------------------------------
(***************************************************************************)
(* ChatTurns with its generation traces and the admin panel peeling        *)
(* messages off the end of the transcript (AdminService.                   *)
(* delete_last_message).  The delete takes no notice of                    *)
(* _generating_sessions: it can fall anywhere inside a turn, and it is two *)
(* transactions, the message first and then the traces filed under its     *)
(* turn number.  Trace mode is "all" and appending works; what a trace     *)
(* says of the prompt is abstracted to the reply it describes.             *)
(***************************************************************************)
EXTENDS ChatTurns

VARIABLES
  traces,    \* generation_traces: the turn filed under, and the reply described
  sweeping,  \* turns whose message a delete request has removed, their traces not yet
  undercut,  \* history: ids of messages deleted while a turn was generating
  deleted,   \* history: ids of messages the panel deleted
  crossed    \* history: a deletion and a turn overlapped, or the process died in a deletion

panelVars == <<vars, traces, sweeping, undercut, deleted, crossed>>

\* The record _generate_traced appends when the model's answer becomes the turn's reply.
\* Failed and rejected attempts leave records too, which describe no message.
Trace(c) == [turn |-> Turn(Trimmed(local[c])), reply |-> nextId + 1]

TracedTurnStep(c) ==
  /\ TurnStep(c)
  /\ traces' = IF pc[c] \in {"generate", "again"} /\ pc'[c] = "consume"
                 THEN traces \cup {Trace(c)} ELSE traces

\* The steps of ChatTurns; one that overlaps a deletion is remembered.
TurnNext ==
  /\ \/ \E c \in Callers : TracedTurnStep(c)
     \/ UNCHANGED traces /\ \E c \in Callers, o \in Ops : Begin(c, o)
  /\ crossed' = (crossed \/ sweeping # {})
  /\ UNCHANGED <<sweeping, undercut, deleted>>

\* Mutant: the panel deletes the oldest message.
DeleteFirstMessage ==
  /\ store # <<>>
  /\ store' = Tail(store)
  /\ sweeping' = IF Head(store).turn > 0 THEN sweeping \cup {Head(store).turn} ELSE sweeping
  /\ undercut' = IF generating THEN undercut \cup {Head(store).id} ELSE undercut
  /\ deleted' = deleted \cup {Head(store).id}
  /\ crossed' = (crossed \/ generating)
  /\ UNCHANGED <<notes, generating, pc, local, editing, asked, nextId, traces>>

\* Mutant: the traces are left in place.
DeleteLastMessageOnly ==
  /\ store # <<>>
  /\ store' = Front(store)
  /\ undercut' = IF generating THEN undercut \cup {Last(store).id} ELSE undercut
  /\ deleted' = deleted \cup {Last(store).id}
  /\ crossed' = (crossed \/ generating)
  /\ UNCHANGED <<notes, generating, pc, local, editing, asked, nextId, traces, sweeping>>

\* The newest message goes; an empty conversation is refused.  A player's message carries
\* no turn, so nothing is swept for it.
DeleteLastMessage ==
  /\ store # <<>>
  /\ store' = Front(store)
  /\ sweeping' = IF Last(store).turn > 0 THEN sweeping \cup {Last(store).turn} ELSE sweeping
  /\ undercut' = IF generating THEN undercut \cup {Last(store).id} ELSE undercut
  /\ deleted' = deleted \cup {Last(store).id}
  /\ crossed' = (crossed \/ generating)
  /\ UNCHANGED <<notes, generating, pc, local, editing, asked, nextId, traces>>

\* Mutant: everything filed up to the turn goes.
DeleteTracesUpTo(turn) ==
  /\ turn \in sweeping
  /\ traces' = {t \in traces : t.turn > turn}
  /\ sweeping' = sweeping \ {turn}
  /\ UNCHANGED <<vars, undercut, deleted, crossed>>

\* delete_for_turn, the second transaction of the request.
DeleteTraces(turn) ==
  /\ turn \in sweeping
  /\ traces' = {t \in traces : t.turn # turn}
  /\ sweeping' = sweeping \ {turn}
  /\ UNCHANGED <<vars, undercut, deleted, crossed>>

PanelCrash ==
  /\ Crash
  /\ sweeping' = {}
  /\ crossed' = (crossed \/ sweeping # {})
  /\ UNCHANGED <<traces, undercut, deleted>>

PanelInit ==
  /\ Init
  /\ traces = {}
  /\ sweeping = {}
  /\ undercut = {}
  /\ deleted = {}
  /\ crossed = FALSE

PanelNext ==
  \/ TurnNext
  \/ DeleteLastMessage
  \/ \E turn \in sweeping : DeleteTraces(turn)
  \/ PanelCrash

PanelSpec == PanelInit /\ [][PanelNext]_panelVars
FairPanelSpec == PanelSpec /\ \A c \in Callers : WF_panelVars(TracedTurnStep(c) /\ TurnNext)
-----------------------------------------------------------------------------
\* What delete_last_message says its last-only rule is for: no reply is left answering
\* messages that no longer exist (admin_service.py:300-302) -- unless the message was
\* deleted in the middle of a turn, under the reply being written from it.
RepliesAnswerStoredMessages ==
  \A i \in DOMAIN store : store[i].turn > 0 =>
    \A j \in DOMAIN store[i].basis :
      \/ \E k \in 1..(i - 1) : store[k].id = store[i].basis[j]
      \/ store[i].basis[j] \in undercut

\* The panel groups traces onto messages by turn number.  Whoever inherits the number of a
\* deleted reply never inherits its traces too (admin_service.py:304-306), nor does one
\* stored reply show another's, whatever retries and crashes did to the numbering.  A
\* deletion that overlaps a turn or dies between its two transactions is the exception.
NoStaleTrace ==
  ~crossed /\ sweeping = {} =>
    \A i \in DOMAIN store, t \in traces :
      store[i].turn > 0 /\ t.turn = store[i].turn /\ t.reply > 0 =>
        /\ t.reply \notin deleted
        /\ \A j \in DOMAIN store : store[j].id = t.reply => j = i

\* Deleting by turn number takes no trace of a reply that stays: as long as deletions and
\* turns do not overlap, no two stored replies share a number, torn retries included.
SweepSparesStored ==
  [][~crossed => \A t \in traces \ traces', i \in DOMAIN store :
       t.reply > 0 => store[i].id # t.reply]_panelVars
=============================================================================
