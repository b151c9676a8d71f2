---------------------------- MODULE TokenCounter ----------------------------
(***************************************************************************)
(* LMStudioTokenCounter: counts and the model's context length come from   *)
(* LM Studio in a worker thread, and are kept -- the counts of the texts   *)
(* used most recently, the length for good; when the call fails an         *)
(* estimate is answered and not kept.  Turns and the background worker     *)
(* count at the same time.                                                 *)
(***************************************************************************)
EXTENDS Integers, Sequences, SequencesExt

CONSTANTS
  Callers,
  Texts,
  CacheSize,  \* cache_size, at least one
  None

VARIABLES
  counts,   \* _counts, least recently used first: the texts LM Studio counted
  length,   \* _context_length: None, or what LM Studio reported
  asking,   \* what each caller waits for: a text, "length" or None
  age       \* history: how many other texts were counted since each one was, if ever

vars == <<counts, length, asking, age>>

Never == -1

Init ==
  /\ counts = <<>>
  /\ length = None
  /\ asking = [c \in Callers |-> None]
  /\ age = [t \in Texts |-> Never]

IsCached(t) == Contains(counts, t)

\* Mutant: an entry that is used again keeps its place.
MovedNowhere(s, t) == IF Contains(s, t) THEN s ELSE Append(s, t)

\* move_to_end: an entry the cache has leaves its place.
MovedToEnd(s, t) ==
  IF Contains(s, t) THEN Append(RemoveAt(s, CHOOSE i \in DOMAIN s : s[i] = t), t) ELSE Append(s, t)

\* _remember: the entry goes to the end, the oldest out.
Remember(t) ==
  LET grown == MovedToEnd(counts, t)
  IN IF Len(grown) > CacheSize THEN Tail(grown) ELSE grown

Used(t) ==
  [x \in Texts |->
    IF x = t THEN 0
    ELSE IF age[x] # Never /\ (age[t] = Never \/ age[x] < age[t]) THEN age[x] + 1
    ELSE age[x]]
-----------------------------------------------------------------------------
(* count_tokens.                                                           *)

Hit(c, t) ==
  /\ asking[c] = None /\ IsCached(t)
  /\ counts' = MovedToEnd(counts, t)
  /\ age' = Used(t)
  /\ UNCHANGED <<length, asking>>

Miss(c, t) ==
  /\ asking[c] = None /\ ~IsCached(t)
  /\ asking' = [asking EXCEPT ![c] = t]
  /\ UNCHANGED <<counts, length, age>>

Counted(c) ==
  /\ asking[c] \in Texts
  /\ counts' = Remember(asking[c])
  /\ age' = Used(asking[c])
  /\ asking' = [asking EXCEPT ![c] = None]
  /\ UNCHANGED length

\* The call fails, or reports a length no prompt fits in: the fallback answers.
Fail(c) ==
  /\ asking[c] # None
  /\ asking' = [asking EXCEPT ![c] = None]
  /\ UNCHANGED <<counts, length, age>>
-----------------------------------------------------------------------------
(* context_length.                                                         *)

AskLength(c) ==
  /\ asking[c] = None /\ length = None
  /\ asking' = [asking EXCEPT ![c] = "length"]
  /\ UNCHANGED <<counts, length, age>>

Reported(c) ==
  /\ asking[c] = "length"
  /\ length' = "reported"
  /\ asking' = [asking EXCEPT ![c] = None]
  /\ UNCHANGED <<counts, age>>

Next ==
  \E c \in Callers :
    \/ \E t \in Texts : Hit(c, t) \/ Miss(c, t)
    \/ Counted(c) \/ Fail(c) \/ AskLength(c) \/ Reported(c)

Spec == Init /\ [][Next]_vars
-----------------------------------------------------------------------------
(* Properties.                                                             *)

\* The texts LM Studio counted or the cache served last are in it, each once, however many
\* callers asked for one of them at the same time and whichever of them got an estimate:
\* long sessions do not recount their recent turns.
RecentCountsKept ==
  /\ \A t \in Texts : age[t] \in 0..CacheSize - 1 => IsCached(t)
  /\ Len(counts) <= CacheSize /\ IsInjective(counts)
=============================================================================
