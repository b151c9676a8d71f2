------------------------------ MODULE Splitter ------------------------------
(***************************************************************************)
(* split_message (adapters/telegram/splitter.py): a reply that is too long *)
(* for one Telegram message is cut after a paragraph, a line, a sentence   *)
(* or a word, whichever comes first in this order, and in the middle of a  *)
(* word when there is nothing else.  A text is a sequence of characters of *)
(* four kinds.                                                             *)
(***************************************************************************)
EXTENDS Integers, Sequences, FiniteSetsExt

CONSTANTS
  MaxText,   \* bound: characters of a text
  Limits     \* max_length

VARIABLES
  text,
  limit,
  start,   \* characters cut off so far
  chunks

vars == <<text, limit, start, chunks>>

Newline == "newline"
Stop == "stop"
Characters == {"letter", "space", Newline, Stop}
Blank == {"space", Newline}

Init ==
  /\ text \in UNION {[1..n -> Characters] : n \in 0..MaxText}
  /\ limit \in Limits
  /\ start = 0
  /\ chunks = <<>>
-----------------------------------------------------------------------------
(* Where a window that starts after character s and ends with e may be cut: after which *)
(* characters.                                                                           *)

Paragraphs(s, e) ==
  {i \in s + 2..e : /\ text[i] = Newline /\ text[i - 1] = Newline
                    /\ i < e => text[i + 1] # Newline}

Lines(s, e) == {i \in s + 2..e : text[i] = Newline}

Sentences(s, e) ==
  {i \in s + 1..e : text[i] = Stop /\ (i < e => text[i + 1] \in Blank)}

Words(s, e) == {i \in s + 1..e : text[i] \in Blank}

\* _find_split_index: the last cut of the first kind there is.
SplitIndex(s, e) ==
  LET kinds == <<Paragraphs(s, e), Lines(s, e), Sentences(s, e), Words(s, e), {e}>>
  IN Max(kinds[Min({k \in DOMAIN kinds : kinds[k] # {}})])

\* Mutant: the character at the cut is taken for a blank and left out.
CutDropping ==
  LET i == SplitIndex(start, start + limit) IN
  /\ Len(text) - start > limit
  /\ chunks' = Append(chunks, SubSeq(text, start + 1, i))
  /\ start' = i + 1
  /\ UNCHANGED <<text, limit>>

Cut ==
  LET i == SplitIndex(start, start + limit) IN
  /\ Len(text) - start > limit
  /\ chunks' = Append(chunks, SubSeq(text, start + 1, i))
  /\ start' = i
  /\ UNCHANGED <<text, limit>>

\* The rest fits.  An empty text has no chunk at all.
Rest ==
  /\ Len(text) - start <= limit
  /\ start < Len(text)
  /\ chunks' = Append(chunks, SubSeq(text, start + 1, Len(text)))
  /\ start' = Len(text)
  /\ UNCHANGED <<text, limit>>

Next == Cut \/ Rest

Spec == Init /\ [][Next]_vars
-----------------------------------------------------------------------------
(* Properties.                                                             *)

Said[k \in 0..Len(chunks)] == IF k = 0 THEN <<>> ELSE Said[k - 1] \o chunks[k]

\* The messages a player gets are the reply, every character of it, each of a length
\* Telegram takes; and a word or a number is torn only where the window had no blank at
\* all, or after a stop in it.
SplitFaithful ==
  /\ Said[Len(chunks)] = SubSeq(text, 1, start)
  /\ \A k \in DOMAIN chunks :
       LET chunk == chunks[k]
           end == Len(Said[k])
       IN
       /\ Len(chunk) \in 1..limit
       /\ \/ end = Len(text)
          \/ chunk[Len(chunk)] \in Blank \cup {Stop}
          \/ Len(chunk) = limit /\ \A i \in DOMAIN chunk : chunk[i] \notin Blank
=============================================================================
