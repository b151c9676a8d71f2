------------------------------- MODULE Story -------------------------------
(***************************************************************************)
(* What ChatService promises of one session's conversation, whatever it    *)
(* does to the messages table on the way: the transcript moves by whole    *)
(* turns.  A turn appends an exchange, appends a narrator reply, or        *)
(* replaces the last reply, and the reply it adds was written from exactly *)
(* the messages that precede it.  A turn that dies between two writes may  *)
(* tear the transcript, and only in two ways: it cuts it to a prefix, or   *)
(* leaves the player's message unanswered.                                 *)
(***************************************************************************)
EXTENDS Naturals, Sequences, SequencesExt

VARIABLE transcript

Ids(s) == [i \in 1..Len(s) |-> s[i].id]

\* A narrator reply whose prompt was built from the messages in `before`.
Answers(m, before) == m.role = "character" /\ m.basis = Ids(before)

\* send_message: the player's message and its reply arrive together.
Exchange ==
  /\ Len(transcript') = Len(transcript) + 2
  /\ Front(Front(transcript')) = transcript
  /\ Last(Front(transcript')).role = "user"
  /\ Answers(Last(transcript'), Front(transcript'))

\* continue_story: the narrator goes on with no player input.
Advance ==
  /\ Len(transcript') = Len(transcript) + 1
  /\ Front(transcript') = transcript
  /\ Answers(Last(transcript'), transcript)

\* regenerate_last_response: the last reply is exchanged for another.
Replace ==
  /\ Len(transcript) > 1
  /\ Last(transcript).role = "character"
  /\ Len(transcript') = Len(transcript)
  /\ Front(transcript') = Front(transcript)
  /\ Answers(Last(transcript'), Front(transcript'))

\* A turn died between two writes.
Tear ==
  \/ IsStrictPrefix(transcript', transcript)
  \/ /\ Len(transcript') = Len(transcript) + 1
     /\ Front(transcript') = transcript
     /\ Last(transcript').role = "user"

Init == Len(transcript) <= 1

Next == Exchange \/ Advance \/ Replace \/ Tear

Spec == Init /\ [][Next]_transcript
=============================================================================
