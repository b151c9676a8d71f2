------------------------------- MODULE Prompt -------------------------------
(***************************************************************************)
(* From a recalled history to a reply: ConversationBuilder makes one list  *)
(* of messages of it, LMStudioConversationMapper makes the chat LM Studio  *)
(* takes of that, and LMStudioProvider makes a reply of the fragments that *)
(* come back.  A text is the numbers of the messages in it, 0 for a        *)
(* paragraph break between two of them.                                    *)
(***************************************************************************)
EXTENDS Integers, Sequences, SequencesExt

CONSTANTS
  Optional,     \* the sections a scenario and a session may have or not
  MaxHistory,   \* bound: messages of a history
  MaxFragments  \* bound: fragments of a reply

VARIABLES
  step,      \* "idle", "built" or "mapped"
  op,        \* what is built: a player's message, a continuation or a resumption
  history,   \* memory_messages
  messages,  \* Conversation.messages
  chat,      \* lms.Chat
  reply      \* the text delivered last

vars == <<step, op, history, messages, chat, reply>>

Break == 0

\* Messages in a history: the player's, a reply, and a reply cut at the token limit.
Kinds == {"user", "character", "cut"}

Role(kind) == IF kind = "cut" THEN "character" ELSE kind

NoChat == [system |-> <<>>, turns |-> <<>>]
NoReply == <<>>
-----------------------------------------------------------------------------
(* ConversationBuilder.                                                    *)

\* _build_system_messages: the sections in their order; the reply format and the memory
\* block are always there.
Ordered == <<"scenario", "character", "world", "persona", "rules", "format", "language",
             "session_rules", "notes", "memory">>

Sections(have) ==
  LET upTo[i \in 0..Len(Ordered)] ==
        IF i = 0 THEN <<>>
        ELSE IF Ordered[i] \in have \cup {"format", "memory"} THEN Append(upTo[i - 1], Ordered[i])
        ELSE upTo[i - 1]
  IN upTo[Len(Ordered)]

System(s) == [role |-> "system", text |-> <<s>>, cut |-> FALSE]

Replay(h) == [i \in DOMAIN h |-> [role |-> Role(h[i]), text |-> <<i>>, cut |-> h[i] = "cut"]]

\* The message that asks for the reply.
Ask(h) == [role |-> "user", text |-> <<Len(h) + 1>>, cut |-> FALSE]

\* A resumption appends none: the cut reply is the last message.
Closing(o, h) == IF o = "resume" THEN <<>> ELSE <<Ask(h)>>

\* build, build_continue and build_resume.  A reply is resumed when it is the last one; it
\* may have been too long for the window, which is then empty.
Build(o, h, have) ==
  /\ step = "idle"
  /\ o = "resume" /\ h # <<>> => Last(h) = "cut"
  /\ op' = o
  /\ history' = h
  /\ LET sections == Sections(have) IN
     messages' = [i \in DOMAIN sections |-> System(sections[i])] \o Replay(h) \o Closing(o, h)
  /\ step' = "built"
  /\ reply' = NoReply
  /\ UNCHANGED chat
-----------------------------------------------------------------------------
(* LMStudioConversationMapper.                                             *)

\* Mutant: the joined turn keeps the first message's metadata.
JoinedKeepsFirst(previous, m) ==
  [previous EXCEPT !.text = @ \o (IF previous.cut THEN <<>> ELSE <<Break>>) \o m.text]

\* Text after a cut reply is the rest of its sentence, anything else a beat of its own.
Joined(previous, m) ==
  [m EXCEPT !.text = previous.text \o (IF previous.cut THEN <<>> ELSE <<Break>>) \o @]

\* _collapse_narrator_runs, up to a message and that message.
After(turns, m) ==
  IF m.role = "system" THEN turns
  ELSE IF turns # <<>> /\ m.role = "character" /\ Last(turns).role = "character"
    THEN Append(Front(turns), Joined(Last(turns), m))
  ELSE Append(turns, m)

Collapsed(s) ==
  LET upTo[i \in 0..Len(s)] == IF i = 0 THEN <<>> ELSE After(upTo[i - 1], s[i])
  IN upTo[Len(s)]

Map ==
  /\ step = "built"
  /\ chat' = [system |-> FoldLeft(\o, <<>>, [i \in DOMAIN messages |->
                           IF messages[i].role = "system" THEN messages[i].text ELSE <<>>]),
              turns |-> Collapsed(messages)]
  /\ messages' = <<>>
  /\ step' = "mapped"
  /\ UNCHANGED <<op, history, reply>>
-----------------------------------------------------------------------------
(* LMStudioProvider.                                                       *)

\* LM Studio tells reasoning, and the tags around it, from prose; or it does not know the
\* model's delimiters and hands the reasoning over as prose, with a marker at its end, in
\* the form the code splits at or in one that has drifted from it.
Fragments ==
  {<<"reasoning", "thought">>, <<"tag", "tag">>, <<"none", "prose">>, <<"none", "thought">>,
   <<"none", "end">>, <<"none", "drifted">>}

Streams ==
  {s \in UNION {[1..n -> Fragments] : n \in 0..MaxFragments} :
     \A i \in DOMAIN s : s[i] = <<"none", "thought">> =>
       \E j \in i..Len(s) : s[j][2] \in {"end", "drifted"}}

\* What is handed over as prose.
ProseOf(s) ==
  LET upTo[i \in 0..Len(s)] ==
        IF i = 0 THEN <<>>
        ELSE IF s[i][1] = "none" THEN Append(upTo[i - 1], s[i][2])
        ELSE upTo[i - 1]
  IN upTo[Len(s)]

\* What follows the last marker.
AfterLast(t) ==
  SubSeq(t, (CHOOSE i \in {0} \cup {j \in DOMAIN t : t[j] = "end"} :
               \A j \in i + 1..Len(t) : t[j] # "end") + 1, Len(t))

\* Mutant: a marker left in the text is not looked for.
Trusted(t) == TRUE

\* A marker in what is left means that splitting has failed: no reply rather than that one.
Separated(t) == ~Contains(t, "drifted")

\* respond and _separate_reasoning.
Respond(s) ==
  /\ step = "mapped"
  /\ reply' = IF Separated(AfterLast(ProseOf(s))) THEN AfterLast(ProseOf(s)) ELSE NoReply
  /\ step' = "idle"
  /\ chat' = NoChat
  /\ history' = <<>>
  /\ UNCHANGED <<op, messages>>

\* LM Studio cannot be reached, times out or fails.
FailToRespond ==
  /\ step = "mapped"
  /\ reply' = NoReply
  /\ step' = "idle"
  /\ chat' = NoChat
  /\ history' = <<>>
  /\ UNCHANGED <<op, messages>>

Init ==
  /\ step = "idle" /\ op = "send" /\ history = <<>> /\ messages = <<>> /\ chat = NoChat
  /\ reply = NoReply

Next ==
  \/ \E o \in {"send", "continue", "resume"}, n \in 0..MaxHistory, have \in SUBSET Optional :
       \E h \in [1..n -> Kinds] : Build(o, h, have)
  \/ Map
  \/ \E s \in Streams : Respond(s)
  \/ FailToRespond

Spec == Init /\ [][Next]_vars
-----------------------------------------------------------------------------
(* Properties.                                                             *)

\* The chat is one LM Studio takes and that says what the history says: no two narrator
\* turns in a row, every message once and in order, no section of the system prompt among
\* them, two replies run on exactly when the first was cut; and only a resumption leaves
\* the last word to the narrator, at the very reply that was cut.
ChatWellFormed ==
  step = "mapped" =>
    LET turns == chat.turns
        last == IF op = "resume" THEN Len(history) ELSE Len(history) + 1
    IN
    /\ \A i \in 1..Len(turns) - 1 : ~(turns[i].role = "character" /\ turns[i + 1].role = "character")
    /\ \A m \in 1..last : \E t \in DOMAIN turns : \E p \in DOMAIN turns[t].text : turns[t].text[p] = m
    /\ \A t \in DOMAIN turns : \A p \in DOMAIN turns[t].text : turns[t].text[p] \in 0..last
    /\ \A t, u \in DOMAIN turns : \A p \in DOMAIN turns[t].text, q \in DOMAIN turns[u].text :
         LET m == turns[t].text[p]
             after == turns[u].text[q]
         IN m # Break /\ after # Break /\ (t < u \/ (t = u /\ p < q)) => m < after
    /\ \A t \in DOMAIN turns : \A p \in 2..Len(turns[t].text) :
         LET before == turns[t].text[p - 1] IN
         before # Break => (turns[t].text[p] = Break <=> history[before] # "cut")
    /\ turns # <<>> => (Last(turns).role = "character" <=> op = "resume")
    /\ turns # <<>> => Last(Last(turns).text) = last

\* A player never reads the model's reasoning or LM Studio's markers, whether LM Studio
\* recognised the reasoning, left a marker the code knows or one that has drifted.
NoThoughtDelivered == \A i \in DOMAIN reply : reply[i] = "prose"
=============================================================================
