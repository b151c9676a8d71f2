---------------------------- MODULE TelegramProofs ----------------------------
(***************************************************************************)
(* A chat shows the replies its stories hold (TelegramDispatch), for any   *)
(* number of chats, scenarios, stories, replies and parts of a reply.      *)
(* Between turns a chat is Settled; in a turn of its own it is Midway, and *)
(* a step disturbs the chat of its turn only.                              *)
(***************************************************************************)
EXTENDS Parts, TLAPS

\* The steps of a turn after its reply is stored.
Bookkeeping == {"withdraw", "untrack", "send", "track"}

Narrated == [story : Nat, reply : Nat, part : Int]   \* a narrator message

Story == [chat : Telegram!Chats, scenario : Scenarios, live : BOOLEAN, named : BOOLEAN, replies : Seq(Nat)]

\* Where the handler is, and what it holds.
Suspended ==
  [step : {"idle", "ask", "forget", "generate"} \cup Bookkeeping, chat : Telegram!Chats \cup {None},
   story : Nat \cup {None}, retry : BOOLEAN, reply : Nat, parts : Int, sent : SUBSET Narrated]

TelegramTyped ==
  /\ stories \in Seq(Story) /\ nextReply \in Nat
  /\ active \in [Telegram!Chats -> Nat \cup {None}] /\ pending \in [Telegram!Chats -> Nat \cup {None}]
  /\ shown \in [Telegram!Chats -> SUBSET Narrated] /\ tracked \in [Telegram!Chats -> SUBSET Narrated]
  /\ strayed \in [Telegram!Chats -> BOOLEAN] /\ switched \in [Telegram!Chats -> BOOLEAN]
  /\ at \in Suspended

\* A chat's pointer is to a story of its own.
PointerOwn ==
  \A c \in Telegram!Chats : active[c] # None =>
    active[c] \in DOMAIN stories /\ stories[active[c]].chat = c

\* Replies are numbered as they come.
Ranked(replies, n) ==
  \A i \in DOMAIN replies : replies[i] < n /\ \A j \in DOMAIN replies : i < j => replies[i] < replies[j]

RepliesRanked == \A s \in DOMAIN stories : Ranked(stories[s].replies, nextReply)

\* What a chat shows was told by a story of its own.
ShownOwn ==
  \A c \in Telegram!Chats : \A m \in shown[c] :
    m.story \in DOMAIN stories /\ stories[m.story].chat = c /\ m.reply < nextReply

\* A turn is of its chat's active story; a retry has a reply to replace; a reply that is
\* stored is the story's last unless the panel has played the story since.
TurnOwn ==
  /\ at.step \in {"generate"} \cup Bookkeeping =>
       at.chat \in Telegram!Chats /\ active[at.chat] # None /\ at.story = active[at.chat]
  /\ at.step = "generate" => at.sent = {} /\ (at.retry => stories[at.story].replies # <<>>)
  /\ at.step \in Bookkeeping => at.reply < nextReply

Latest(replies) == replies[Len(replies)]

\* The message m tells a reply its story holds.
Stands(m) == \E i \in DOMAIN stories[m.story].replies : stories[m.story].replies[i] = m.reply

\* The i-th reply of story s can be read in chat c.
Read(c, s, i) == \E m \in shown[c] : m.story = s /\ m.reply = stories[s].replies[i] /\ m.part = 1

MessagesOf(sent, s, r) == {m \in sent : m.story = s /\ m.reply = r}

AtWork(c) == at.chat = c /\ at.step \in Bookkeeping

\* Between turns a chat shows what its stories hold, and the file has the ids of the last
\* reply of its story, if that was told since the chat turned to the story.
Settled(c) ==
  LET s == active[c] IN
  /\ \A m \in shown[c] : Stands(m)
  /\ \A t \in DOMAIN stories : stories[t].chat = c => \A i \in DOMAIN stories[t].replies : Read(c, t, i)
  /\ ~switched[c] /\ s # None /\ stories[s].replies # <<>> =>
       tracked[c] = MessagesOf(shown[c], s, Latest(stories[s].replies))

\* In a turn all that may be wrong is the reply it has stored and the one that replaces.
Midway(c) ==
  LET s == at.story
      replies == stories[s].replies
  IN
  /\ replies # <<>> /\ Latest(replies) = at.reply
  /\ at.sent = MessagesOf(shown[c], s, at.reply)
  /\ \A m \in shown[c] : Stands(m) \/ (at.step = "withdraw" /\ m \in tracked[c])
  /\ at.step = "withdraw" => tracked[c] = {m \in shown[c] : m.story = s /\ ~Stands(m)}
  /\ \A t \in DOMAIN stories : stories[t].chat = c => \A i \in DOMAIN stories[t].replies :
       Read(c, t, i) \/ (t = s /\ i = Len(replies) /\ at.step # "track")

InStep ==
  \A c \in Telegram!Chats : ~strayed[c] => IF AtWork(c) THEN Midway(c) ELSE Settled(c)

TelegramFrame == PointerOwn /\ RepliesRanked /\ ShownOwn /\ TurnOwn

TelegramInv == TelegramTyped /\ TelegramFrame /\ InStep
-----------------------------------------------------------------------------
(* Between turns.                                                          *)

\* Nothing a story of chat c has told changes, and stories that begin have told nothing.
Untold(c) ==
  /\ \A s \in DOMAIN stories : /\ s \in DOMAIN stories' /\ stories'[s].chat = stories[s].chat
                               /\ stories[s].chat = c => stories'[s].replies = stories[s].replies
  /\ \A s \in DOMAIN stories' \ DOMAIN stories : stories'[s].replies = <<>>

\* A chat stays settled while nothing of its own is told, shown or filed.
LEMMA StaysSettled ==
  ASSUME TelegramTyped, TelegramFrame, NEW c \in Telegram!Chats, Settled(c), Untold(c),
         shown'[c] = shown[c], tracked'[c] = tracked[c],
         \/ active'[c] = active[c] /\ switched'[c] = switched[c]
         \/ active'[c] \in DOMAIN stories' \ DOMAIN stories
         \/ switched'[c]
  PROVE  Settled(c)'
<1>1. \A m \in shown[c] : m.story \in DOMAIN stories /\ stories'[m.story].replies = stories[m.story].replies
  BY DEF TelegramFrame, ShownOwn, Untold
<1>2. \A m \in shown'[c] : Stands(m)'
  BY <1>1 DEF Settled, Stands
<1>3. ASSUME NEW t \in DOMAIN stories', stories'[t].chat = c, NEW i \in DOMAIN stories'[t].replies
      PROVE  Read(c, t, i)'
  <2>1. CASE t \in DOMAIN stories
    <3>1. stories[t].chat = c /\ stories'[t].replies = stories[t].replies
      BY <1>3, <2>1 DEF Untold
    <3>2. Read(c, t, i)
      BY <1>3, <2>1, <3>1 DEF Settled
    <3> QED BY <3>1, <3>2 DEF Read
  <2>2. CASE t \notin DOMAIN stories
    BY <1>3, <2>2 DEF Untold
  <2> QED BY <2>1, <2>2
<1>4. ASSUME ~switched'[c], active'[c] # None, stories'[active'[c]].replies # <<>>
      PROVE  tracked'[c] = MessagesOf(shown'[c], active'[c], Latest(stories'[active'[c]].replies))
  <2>1. CASE active'[c] = active[c] /\ switched'[c] = switched[c]
    <3>1. active[c] \in DOMAIN stories /\ stories[active[c]].chat = c
      BY <1>4, <2>1 DEF TelegramFrame, PointerOwn
    <3>2. stories'[active[c]].replies = stories[active[c]].replies
      BY <3>1 DEF Untold
    <3>3. tracked[c] = MessagesOf(shown[c], active[c], Latest(stories[active[c]].replies))
      BY <1>4, <2>1, <3>2 DEF Settled
    <3> QED BY <2>1, <3>2, <3>3
  <2>2. CASE active'[c] \in DOMAIN stories' \ DOMAIN stories
    BY <1>4, <2>2 DEF Untold
  <2>3. CASE switched'[c]
    BY <1>4, <2>3
  <2> QED BY <2>1, <2>2, <2>3
<1> QED BY <1>2, <1>3, <1>4 DEF Settled

\* Between turns no chat is at work, so that a step which touches no message settles all.
LEMMA StaysInStep ==
  ASSUME TelegramTyped, TelegramFrame, InStep,
         \A c \in Telegram!Chats : AtWork(c) => strayed'[c],
         \A c \in Telegram!Chats : ~AtWork(c)',
         \A c \in Telegram!Chats : strayed[c] => strayed'[c],
         \A c \in Telegram!Chats : ~strayed'[c] =>
           /\ Untold(c) /\ shown'[c] = shown[c] /\ tracked'[c] = tracked[c]
           /\ \/ active'[c] = active[c] /\ switched'[c] = switched[c]
              \/ active'[c] \in DOMAIN stories' \ DOMAIN stories
              \/ switched'[c]
  PROVE  InStep'
<1> SUFFICES ASSUME NEW c \in Telegram!Chats, ~strayed'[c] PROVE Settled(c)'
  BY DEF InStep
<1>1. Settled(c)
  BY DEF InStep
<1> QED BY <1>1, StaysSettled

\* A story that begins.
LEMMA NewStoryKeeps ==
  ASSUME TelegramInv, at = Telegram!Idle, NEW c \in Telegram!Chats, NEW sc \in Scenarios,
         NEW named \in BOOLEAN, NEW asks \in BOOLEAN, NEW old,
         Telegram!NewStory(c, sc, named, asks, old)
  PROVE  TelegramInv'
<1> DEFINE n == Len(stories)
           past == [s \in DOMAIN stories |-> IF s = old THEN [stories[s] EXCEPT !.live = FALSE] ELSE stories[s]]
           new == [chat |-> c, scenario |-> sc, live |-> TRUE, named |-> named, replies |-> <<>>]
<1>0. TelegramTyped /\ TelegramFrame /\ InStep /\ n \in Nat /\ DOMAIN stories = 1..n
  BY DEF TelegramInv, TelegramTyped
<1>1. /\ stories' = Append(past, new) /\ active' = [active EXCEPT ![c] = n + 1]
      /\ UNCHANGED <<pending, tracked, shown, nextReply, strayed, switched>>
  BY DEF Telegram!NewStory
<1>2. ASSUME NEW s \in 1..n
      PROVE  past[s] \in Story /\ past[s].chat = stories[s].chat /\ past[s].replies = stories[s].replies
  <2>1. stories[s] \in Story
    BY <1>0, <1>2 DEF TelegramTyped
  <2> QED BY <1>0, <1>2, <2>1 DEF Story
<1>3. new \in Story
  BY DEF Story
<1>4. past \in Seq(Story) /\ Len(past) = n
  BY <1>0, <1>2
<1> HIDE DEF past
<1>5. /\ stories' \in Seq(Story) /\ DOMAIN stories' = 1..n + 1
      /\ \A s \in 1..n : stories'[s] = past[s]
      /\ stories'[n + 1].chat = c /\ stories'[n + 1].replies = <<>>
  BY <1>0, <1>1, <1>3, <1>4
<1>6. \A d \in Telegram!Chats : Untold(d)
  BY <1>0, <1>2, <1>5 DEF Untold
<1>7. at' \in [step : {"idle", "ask"}, chat : Telegram!Chats \cup {None}, story : Nat \cup {None},
               retry : BOOLEAN, reply : Nat, parts : Int, sent : SUBSET Narrated]
  <2>1. \/ at' = Telegram!Idle
        \/ at' = [step |-> "ask", chat |-> c, story |-> n + 1, retry |-> FALSE, reply |-> 0,
                  parts |-> 0, sent |-> {}]
    BY DEF Telegram!NewStory, Telegram!Idle
  <2>2. CASE at' = Telegram!Idle
    BY <2>2 DEF Telegram!Idle
  <2>3. CASE at' = [step |-> "ask", chat |-> c, story |-> n + 1, retry |-> FALSE, reply |-> 0,
                    parts |-> 0, sent |-> {}]
    <3>1. n + 1 \in Nat /\ {} \in SUBSET Narrated
      BY <1>0
    <3> HIDE DEF n
    <3> QED BY <2>3, <3>1
  <2> QED BY <2>1, <2>2, <2>3
<1>8. TelegramTyped'
  <2>1. active' \in [Telegram!Chats -> Nat \cup {None}]
    BY <1>0, <1>1 DEF TelegramTyped
  <2>2. /\ at'.step \in {"idle", "ask"} /\ at'.chat \in Telegram!Chats \cup {None}
        /\ at' \in Suspended
    BY <1>7 DEF Suspended
  <2> QED BY <1>0, <1>1, <1>5, <2>1, <2>2 DEF TelegramTyped
<1>9. TelegramFrame'
  <2>1. PointerOwn'
    <3> SUFFICES ASSUME NEW d \in Telegram!Chats, active'[d] # None
                 PROVE  active'[d] \in DOMAIN stories' /\ stories'[active'[d]].chat = d
      BY DEF PointerOwn
    <3>1. CASE d = c
      BY <1>0, <1>1, <1>5, <3>1 DEF TelegramTyped
    <3>2. CASE d # c
      <4>1. active'[d] = active[d] /\ active[d] \in 1..n /\ stories[active[d]].chat = d
        BY <1>0, <1>1, <3>2 DEF TelegramTyped, TelegramFrame, PointerOwn
      <4> QED BY <1>0, <1>2, <1>5, <4>1
    <3> QED BY <3>1, <3>2
  <2>2. RepliesRanked'
    <3>1. \A s \in 1..n : Ranked(stories'[s].replies, nextReply)
      BY <1>0, <1>2, <1>5 DEF TelegramFrame, RepliesRanked
    <3>2. Ranked(stories'[n + 1].replies, nextReply)
      BY <1>5 DEF Ranked
    <3>3. DOMAIN stories' = 1..n \cup {n + 1}
      BY <1>0, <1>5
    <3> QED BY <1>1, <3>1, <3>2, <3>3 DEF RepliesRanked
  <2>3. ShownOwn'
    <3> SUFFICES ASSUME NEW d \in Telegram!Chats, NEW m \in shown[d]
                 PROVE  m.story \in DOMAIN stories' /\ stories'[m.story].chat = d /\ m.reply < nextReply
      BY <1>1 DEF ShownOwn
    <3>1. m.story \in 1..n /\ stories[m.story].chat = d /\ m.reply < nextReply
      BY <1>0 DEF TelegramFrame, ShownOwn
    <3> QED BY <1>0, <1>2, <1>5, <3>1
  <2>4. TurnOwn'
    BY <1>7 DEF TurnOwn, Bookkeeping
  <2> QED BY <2>1, <2>2, <2>3, <2>4 DEF TelegramFrame
<1>10. InStep'
  <2>1. ASSUME NEW d \in Telegram!Chats PROVE ~AtWork(d) /\ ~AtWork(d)'
    BY <1>7 DEF AtWork, Bookkeeping, Telegram!Idle
  <2>2. ASSUME NEW d \in Telegram!Chats
        PROVE  active'[d] = active[d] \/ active'[d] \in DOMAIN stories' \ DOMAIN stories
    BY <1>0, <1>1, <1>5 DEF TelegramTyped
  <2> QED BY <1>0, <1>1, <1>6, <2>1, <2>2, StaysInStep
<1> QED BY <1>8, <1>9, <1>10 DEF TelegramInv

\* What is told, numbered and pointed at stays in order while stories, numbers and pointers
\* do not change and no message is added.
LEMMA FrameStays ==
  ASSUME TelegramTyped, TelegramFrame, DOMAIN stories' = DOMAIN stories,
         \A s \in DOMAIN stories : /\ stories'[s].chat = stories[s].chat
                                   /\ stories'[s].replies = stories[s].replies,
         nextReply' = nextReply, active' = active,
         \A c \in Telegram!Chats : shown'[c] \subseteq shown[c]
  PROVE  PointerOwn' /\ RepliesRanked' /\ ShownOwn' /\ \A c \in Telegram!Chats : Untold(c)
<1>1. PointerOwn'
  BY DEF TelegramFrame, PointerOwn
<1>2. RepliesRanked'
  BY DEF TelegramFrame, RepliesRanked
<1>3. ShownOwn'
  BY DEF TelegramFrame, ShownOwn
<1> QED BY <1>1, <1>2, <1>3 DEF Untold

\* A story that is resumed.
LEMMA ResumeKeeps ==
  ASSUME TelegramInv, NEW c \in Telegram!Chats, NEW sc \in Scenarios, Telegram!PlayResume(c, sc)
  PROVE  TelegramInv'
<1>0. TelegramTyped /\ TelegramFrame /\ InStep
  BY DEF TelegramInv
<1>1. PICK s \in DOMAIN stories :
        /\ stories[s].chat = c
        /\ active' = [active EXCEPT ![c] = s]
        /\ switched' = [switched EXCEPT ![c] = switched[c] \/ s # active[c]]
  BY DEF Telegram!PlayResume, Telegram!LiveStories
<1>2. at = Telegram!Idle /\ UNCHANGED <<stories, pending, tracked, shown, at, nextReply, strayed>>
  BY DEF Telegram!PlayResume
<1>3. DOMAIN stories \subseteq Nat
  BY <1>0 DEF TelegramTyped
<1>4. TelegramTyped'
  BY <1>0, <1>1, <1>2, <1>3 DEF TelegramTyped
<1>5. TelegramFrame'
  <2>1. PointerOwn'
    <3>1. \A d \in Telegram!Chats \ {c} : active'[d] = active[d]
      BY <1>0, <1>1 DEF TelegramTyped
    <3>2. active'[c] = s
      BY <1>0, <1>1 DEF TelegramTyped
    <3> QED BY <1>0, <1>1, <1>2, <3>1, <3>2 DEF TelegramFrame, PointerOwn
  <2>2. RepliesRanked' /\ ShownOwn'
    BY <1>0, <1>2 DEF TelegramFrame, RepliesRanked, ShownOwn
  <2>3. TurnOwn'
    BY <1>2 DEF TurnOwn, Bookkeeping, Telegram!Idle
  <2> QED BY <2>1, <2>2, <2>3 DEF TelegramFrame
<1>6. InStep'
  <2>1. ASSUME NEW d \in Telegram!Chats PROVE ~AtWork(d) /\ ~AtWork(d)'
    BY <1>2 DEF AtWork, Bookkeeping, Telegram!Idle
  <2>2. ASSUME NEW d \in Telegram!Chats
        PROVE  \/ active'[d] = active[d] /\ switched'[d] = switched[d]
               \/ switched'[d]
    <3>1. CASE d # c
      BY <1>0, <1>1, <3>1 DEF TelegramTyped
    <3>2. CASE d = c /\ s = active[c]
      <4>1. switched'[c] = (switched[c] \/ s # active[c]) /\ active'[c] = s
        BY <1>0, <1>1 DEF TelegramTyped
      <4>2. switched[c] \in BOOLEAN
        BY <1>0 DEF TelegramTyped
      <4> QED BY <3>2, <4>1, <4>2
    <3>3. CASE d = c /\ s # active[c]
      <4>1. switched'[c] = (switched[c] \/ s # active[c])
        BY <1>0, <1>1 DEF TelegramTyped
      <4> QED BY <3>3, <4>1
    <3> QED BY <3>1, <3>2, <3>3
  <2>3. \A d \in Telegram!Chats : Untold(d)
    BY <1>2 DEF Untold
  <2> QED BY <1>0, <1>2, <2>1, <2>2, <2>3, StaysInStep
<1> QED BY <1>4, <1>5, <1>6 DEF TelegramInv

\* A question, its answer, and the end of it: no chat is at work before or after.
LEMMA AnswerKeeps ==
  ASSUME TelegramInv, Telegram!Ask \/ Telegram!Forget \/ \E c \in Telegram!Chats : Telegram!Answer(c)
  PROVE  TelegramInv'
<1>0. TelegramTyped /\ TelegramFrame /\ InStep
  BY DEF TelegramInv
<1>1. UNCHANGED <<active, tracked, shown, nextReply, strayed, switched>>
  BY DEF Telegram!Ask, Telegram!Forget, Telegram!Answer
<1>2. at.step \notin Bookkeeping
  <2>1. at = Telegram!Idle \/ at.step \in {"ask", "forget"}
    BY DEF Telegram!Ask, Telegram!Forget, Telegram!Answer
  <2> QED BY <2>1 DEF Telegram!Idle, Bookkeeping
<1>3. /\ at' \in Suspended
      /\ at'.step \in {"idle", "forget"}
      /\ pending' \in [Telegram!Chats -> Nat \cup {None}]
  <2>1. CASE Telegram!Ask \/ Telegram!Forget
    <3>1. at' = Telegram!Idle
      BY <2>1 DEF Telegram!Ask, Telegram!Forget
    <3>2. /\ at' \in Suspended
          /\ at'.step = "idle"
      BY <3>1 DEF Telegram!Idle, Suspended
    <3>3. at.story \in Nat \cup {None}
      BY <1>0 DEF TelegramTyped, Suspended
    <3>4. pending' \in [Telegram!Chats -> Nat \cup {None}]
      BY <1>0, <2>1, <3>3 DEF Telegram!Ask, Telegram!Forget, TelegramTyped
    <3> QED BY <3>2, <3>4
  <2>2. ASSUME NEW c \in Telegram!Chats, Telegram!Answer(c)
        PROVE  /\ at' \in Suspended
               /\ at'.step \in {"idle", "forget"}
               /\ pending' \in [Telegram!Chats -> Nat \cup {None}]
    <3>1. at' = [step |-> "forget", chat |-> c, story |-> pending[c], retry |-> FALSE, reply |-> 0,
                 parts |-> 0, sent |-> {}] /\ pending' = pending
      BY <2>2 DEF Telegram!Answer, Telegram!Idle
    <3>2. pending[c] \in Nat \cup {None} /\ {} \in SUBSET Narrated
      BY <1>0 DEF TelegramTyped
    <3> QED BY <1>0, <3>1, <3>2 DEF TelegramTyped, Suspended
  <2> QED BY <2>1, <2>2
<1>4. /\ stories' \in Seq(Story) /\ DOMAIN stories' = DOMAIN stories
      /\ \A s \in DOMAIN stories : stories'[s].chat = stories[s].chat /\ stories'[s].replies = stories[s].replies
  <2>1. CASE stories' = stories
    BY <1>0, <2>1 DEF TelegramTyped
  <2>2. CASE \E s : stories' = [stories EXCEPT ![s].named = TRUE]
    <3>1. PICK s : stories' = [stories EXCEPT ![s].named = TRUE]
      BY <2>2
    <3>2. stories' = [stories EXCEPT ![s] = [stories[s] EXCEPT !.named = TRUE]]
      BY <3>1
    <3>3. ASSUME s \in DOMAIN stories
          PROVE  /\ [stories[s] EXCEPT !.named = TRUE] \in Story
                 /\ [stories[s] EXCEPT !.named = TRUE].chat = stories[s].chat
                 /\ [stories[s] EXCEPT !.named = TRUE].replies = stories[s].replies
      <4>1. stories[s] \in Story
        BY <1>0, <3>3 DEF TelegramTyped
      <4> QED BY <4>1 DEF Story
    <3>4. DOMAIN stories' = DOMAIN stories /\ \A t \in DOMAIN stories : t # s => stories'[t] = stories[t]
      BY <3>2
    <3>5. s \in DOMAIN stories => stories'[s] = [stories[s] EXCEPT !.named = TRUE]
      BY <3>2
    <3>6. \A t \in DOMAIN stories : stories'[t] \in Story
      BY <1>0, <3>3, <3>4, <3>5 DEF TelegramTyped
    <3>7. stories' \in Seq(Story)
      <4>1. stories' = [t \in DOMAIN stories |-> stories'[t]]
        BY <3>2
      <4> QED BY <1>0, <3>6, <4>1 DEF TelegramTyped
    <3> QED BY <3>3, <3>4, <3>5, <3>7
  <2> QED BY <2>1, <2>2 DEF Telegram!Ask, Telegram!Forget, Telegram!Answer
<1>5. TelegramTyped'
  BY <1>0, <1>1, <1>3, <1>4 DEF TelegramTyped
<1>6. PointerOwn' /\ RepliesRanked' /\ ShownOwn' /\ \A c \in Telegram!Chats : Untold(c)
  BY <1>0, <1>1, <1>4, FrameStays
<1>7. TurnOwn'
  BY <1>3 DEF TurnOwn, Bookkeeping
<1>8. \A c \in Telegram!Chats : ~AtWork(c) /\ ~AtWork(c)'
  BY <1>2, <1>3 DEF AtWork, Bookkeeping
<1>9. InStep'
  BY <1>0, <1>1, <1>6, <1>8, StaysInStep
<1> QED BY <1>5, <1>6, <1>7, <1>9 DEF TelegramInv, TelegramFrame

\* A turn that begins.
LEMMA BeginTurnKeeps ==
  ASSUME TelegramInv, NEW c \in Telegram!Chats, NEW asked, Telegram!BeginTurn(c, asked)
  PROVE  TelegramInv'
<1>0. TelegramTyped /\ TelegramFrame /\ InStep
  BY DEF TelegramInv
<1>1. /\ at = Telegram!Idle /\ active[c] # None
      /\ asked = "retry" => stories[active[c]].replies # <<>>
      /\ at' = [step |-> "generate", chat |-> c, story |-> active[c], retry |-> (asked = "retry"), reply |-> 0,
                parts |-> 0, sent |-> {}]
      /\ UNCHANGED <<stories, active, pending, tracked, shown, nextReply, strayed, switched>>
  BY DEF Telegram!BeginTurn, Telegram!Idle
<1>2. active[c] \in Nat \cup {None} /\ (asked = "retry") \in BOOLEAN /\ {} \in SUBSET Narrated
  BY <1>0 DEF TelegramTyped
<1>3. at' \in Suspended
  BY <1>1, <1>2 DEF Suspended
<1>4. TelegramTyped'
  BY <1>0, <1>1, <1>3 DEF TelegramTyped
<1>5. PointerOwn' /\ RepliesRanked' /\ ShownOwn' /\ \A d \in Telegram!Chats : Untold(d)
  BY <1>0, <1>1, FrameStays
<1>6. TurnOwn'
  BY <1>1 DEF TurnOwn, Bookkeeping
<1>7. \A d \in Telegram!Chats : ~AtWork(d) /\ ~AtWork(d)'
  BY <1>1 DEF AtWork, Bookkeeping, Telegram!Idle
<1>8. InStep'
  BY <1>0, <1>1, <1>5, <1>7, StaysInStep
<1> QED BY <1>4, <1>5, <1>6, <1>8 DEF TelegramInv, TelegramFrame
-----------------------------------------------------------------------------
(* Turns.                                                                  *)

\* A story with another list of replies.
LEMMA Retold ==
  ASSUME stories \in Seq(Story), NEW s \in DOMAIN stories, NEW replies \in Seq(Nat),
         stories' = [stories EXCEPT ![s].replies = replies]
  PROVE  /\ stories' \in Seq(Story) /\ DOMAIN stories' = DOMAIN stories
         /\ stories'[s].replies = replies /\ stories'[s].chat = stories[s].chat
         /\ \A t \in DOMAIN stories : t # s => stories'[t] = stories[t]
<1>1. stories' = [stories EXCEPT ![s] = [stories[s] EXCEPT !.replies = replies]]
  OBVIOUS
<1>2. stories[s] \in Story
  OBVIOUS
<1>3. PICK new \in Story : new = [stories[s] EXCEPT !.replies = replies]
  BY <1>2 DEF Story
<1>4. new.replies = replies /\ new.chat = stories[s].chat
  BY <1>2, <1>3 DEF Story
<1>5. stories' = [stories EXCEPT ![s] = new]
  BY <1>1, <1>3
<1> QED BY <1>4, <1>5

\* A reply that is stored is the last; the others are those before, the replaced one apart.
LEMMA ToldLast ==
  ASSUME NEW replies \in Seq(Nat), NEW retry \in BOOLEAN, NEW n \in Nat, Ranked(replies, n),
         retry => replies # <<>>
  PROVE  LET told == Telegram!Told(replies, retry, n) IN
         /\ told \in Seq(Nat) /\ told # <<>> /\ Latest(told) = n
         /\ Len(told) = IF retry THEN Len(replies) ELSE Len(replies) + 1
         /\ \A i \in 1..Len(told) - 1 : i \in DOMAIN replies /\ told[i] = replies[i]
         /\ Ranked(told, n + 1)
<1> DEFINE told == Telegram!Told(replies, retry, n)
           past == IF retry THEN SubSeq(replies, 1, Len(replies) - 1) ELSE replies
<1>0. Len(replies) \in Nat /\ DOMAIN replies = 1..Len(replies)
  OBVIOUS
<1>1. /\ past \in Seq(Nat) /\ Len(past) = IF retry THEN Len(replies) - 1 ELSE Len(replies)
      /\ \A i \in 1..Len(past) : i \in DOMAIN replies /\ past[i] = replies[i]
  <2>1. CASE retry
    <3>1. Len(replies) > 0
      BY <1>0, <2>1
    <3> QED BY <1>0, <2>1, <3>1
  <2>2. CASE ~retry
    BY <1>0, <2>2
  <2> QED BY <2>1, <2>2
<1>2. told = Append(past, n)
  BY DEF Telegram!Told, Telegram!Front
<1> HIDE DEF past, told
<1>3. /\ told \in Seq(Nat) /\ Len(told) = Len(past) + 1 /\ told[Len(past) + 1] = n
      /\ \A i \in 1..Len(past) : told[i] = past[i]
  BY <1>1, <1>2
<1>4. Len(past) \in Nat
  BY <1>1
<1>5. \A i \in 1..Len(past) : i \in DOMAIN replies /\ told[i] = replies[i]
  BY <1>1, <1>3
<1>6. Ranked(told, n + 1)
  <2> SUFFICES ASSUME NEW i \in 1..Len(past) + 1
               PROVE  told[i] < n + 1 /\ \A j \in 1..Len(past) + 1 : i < j => told[i] < told[j]
    BY <1>3, <1>4 DEF Ranked
  <2>1. CASE i = Len(past) + 1
    BY <1>3, <1>4, <2>1
  <2>2. CASE i # Len(past) + 1
    <3>1. i \in 1..Len(past)
      BY <1>4, <2>2
    <3>2. i \in DOMAIN replies /\ told[i] = replies[i] /\ replies[i] \in Nat /\ replies[i] < n
      BY <1>5, <3>1 DEF Ranked
    <3>3. ASSUME NEW j \in 1..Len(past) + 1, i < j PROVE told[i] < told[j]
      <4>1. CASE j = Len(past) + 1
        BY <1>3, <3>2, <4>1
      <4>2. CASE j # Len(past) + 1
        <5>1. j \in 1..Len(past)
          BY <1>4, <4>2
        <5>2. j \in DOMAIN replies /\ told[j] = replies[j]
          BY <1>5, <5>1
        <5> QED BY <3>2, <3>3, <5>2 DEF Ranked
      <4> QED BY <4>1, <4>2
    <3> QED BY <3>2, <3>3
  <2> QED BY <2>1, <2>2
<1>7. told # <<>> /\ Latest(told) = n
  BY <1>3, <1>4 DEF Latest
<1>8. \A i \in 1..Len(told) - 1 : i \in DOMAIN replies /\ told[i] = replies[i]
  BY <1>3, <1>4, <1>5
<1>9. Len(told) = IF retry THEN Len(replies) ELSE Len(replies) + 1
  <2>1. CASE retry
    BY <1>0, <1>1, <1>3, <2>1
  <2>2. CASE ~retry
    BY <1>0, <1>1, <1>3, <2>2
  <2> QED BY <2>1, <2>2
<1> QED BY <1>3, <1>6, <1>7, <1>8, <1>9 DEF told

\* What a turn is about.
LEMMA TurnFacts ==
  ASSUME TelegramInv, at.step \in {"generate"} \cup Bookkeeping
  PROVE  /\ at.chat \in Telegram!Chats /\ at.story \in DOMAIN stories /\ at.story = active[at.chat]
         /\ stories[at.story] \in Story /\ stories[at.story].chat = at.chat
         /\ at.story \in Nat /\ at.story # None
         /\ ~strayed[at.chat] /\ at.step = "generate" => Settled(at.chat)
         /\ ~strayed[at.chat] /\ at.step \in Bookkeeping => Midway(at.chat)
<1>0. TelegramTyped /\ TelegramFrame /\ InStep
  BY DEF TelegramInv
<1>1. at.chat \in Telegram!Chats /\ active[at.chat] # None /\ at.story = active[at.chat]
  BY <1>0 DEF TelegramFrame, TurnOwn
<1>2. at.story \in DOMAIN stories /\ stories[at.story].chat = at.chat
  BY <1>0, <1>1 DEF TelegramFrame, PointerOwn
<1>3. stories[at.story] \in Story /\ at.story \in Nat
  BY <1>0, <1>2 DEF TelegramTyped
<1>4. at.step = "generate" => at.step \notin Bookkeeping
  BY DEF Bookkeeping
<1> QED BY <1>0, <1>1, <1>2, <1>3, <1>4 DEF InStep, AtWork

\* A step of a turn leaves the other chats as they are.
LEMMA TurnStays ==
  ASSUME TelegramInv, NEW c \in Telegram!Chats, at.chat = c, at.step \in {"generate"} \cup Bookkeeping,
         \A d \in Telegram!Chats : d # c =>
           /\ ~AtWork(d)' /\ Untold(d) /\ shown'[d] = shown[d] /\ tracked'[d] = tracked[d]
           /\ active'[d] = active[d] /\ switched'[d] = switched[d] /\ strayed'[d] = strayed[d],
         ~strayed'[c] => IF AtWork(c)' THEN Midway(c)' ELSE Settled(c)'
  PROVE  InStep'
<1>0. TelegramTyped /\ TelegramFrame /\ InStep
  BY DEF TelegramInv
<1> SUFFICES ASSUME NEW d \in Telegram!Chats, ~strayed'[d]
             PROVE  IF AtWork(d)' THEN Midway(d)' ELSE Settled(d)'
  BY DEF InStep
<1>1. CASE d = c
  BY <1>1
<1>2. CASE d # c
  <2>1. ~strayed[d] /\ ~AtWork(d)
    BY <1>2 DEF AtWork
  <2>2. Settled(d)
    BY <1>0, <2>1 DEF InStep
  <2>3. Settled(d)'
    BY <1>0, <1>2, <2>2, StaysSettled
  <2> QED BY <1>2, <2>3
<1> QED BY <1>1, <1>2

\* The reply is stored: the last of its story, and in a retry in place of the one whose
\* messages the file has.
LEMMA GeneratedKeeps ==
  ASSUME TelegramInv, NEW parts \in 1..MaxParts, Telegram!Generated(parts)
  PROVE  TelegramInv'
<1>0. TelegramTyped /\ TelegramFrame /\ InStep
  BY DEF TelegramInv
<1>00. PICK c \in Telegram!Chats, s \in DOMAIN stories : c = at.chat /\ s = at.story
  <2>1. at.step = "generate"
    BY DEF Telegram!Generated
  <2> QED BY <2>1, TurnFacts
<1> DEFINE old == stories[s].replies
           told == Telegram!Told(old, at.retry, nextReply)
<1>1. /\ at.step = "generate"
      /\ stories' = [stories EXCEPT ![s].replies = told]
      /\ nextReply' = nextReply + 1
      /\ at' = [at EXCEPT !.step = IF at.retry THEN "withdraw" ELSE "send", !.reply = nextReply, !.parts = parts]
      /\ strayed' = [strayed EXCEPT ![c] = strayed[c] \/ (at.retry /\ switched[c])]
      /\ UNCHANGED <<active, pending, tracked, shown, switched, faults>>
  BY <1>00 DEF Telegram!Generated
<1>2. /\ c \in Telegram!Chats /\ s \in DOMAIN stories /\ s = active[c] /\ s \in Nat /\ s # None
      /\ stories[s] \in Story /\ stories[s].chat = c
      /\ ~strayed[c] => Settled(c)
  BY <1>00, <1>1, TurnFacts
<1>3. old \in Seq(Nat) /\ nextReply \in Nat /\ at.retry \in BOOLEAN /\ at \in Suspended
  BY <1>0, <1>2 DEF Story, TelegramTyped, Suspended
<1>4. at.sent = {} /\ (at.retry => old # <<>>)
  BY <1>0, <1>00, <1>1 DEF TelegramFrame, TurnOwn
<1>5. Ranked(old, nextReply)
  BY <1>0, <1>2 DEF TelegramFrame, RepliesRanked
<1>6. /\ told \in Seq(Nat) /\ told # <<>> /\ Latest(told) = nextReply
      /\ Len(told) = IF at.retry THEN Len(old) ELSE Len(old) + 1
      /\ \A i \in 1..Len(told) - 1 : i \in DOMAIN old /\ told[i] = old[i]
      /\ Ranked(told, nextReply + 1)
  BY <1>3, <1>4, <1>5, ToldLast
<1> HIDE DEF told
<1>7. /\ stories' \in Seq(Story) /\ DOMAIN stories' = DOMAIN stories
      /\ stories'[s].replies = told /\ stories'[s].chat = c
      /\ \A t \in DOMAIN stories : t # s => stories'[t] = stories[t]
  BY <1>0, <1>1, <1>2, <1>6, Retold DEF TelegramTyped
<1>8. /\ at' \in Suspended /\ at'.chat = c /\ at'.story = s /\ at'.sent = {} /\ at'.reply = nextReply
      /\ at'.step = IF at.retry THEN "withdraw" ELSE "send"
  <2>1. (IF at.retry THEN "withdraw" ELSE "send") \in {"idle", "ask", "forget", "generate"} \cup Bookkeeping
    BY DEF Bookkeeping
  <2>2. parts \in Int
    OBVIOUS
  <2>3. PICK next : next = IF at.retry THEN "withdraw" ELSE "send"
    OBVIOUS
  <2>4. at' = [at EXCEPT !.step = next, !.reply = nextReply, !.parts = parts]
    BY <1>1, <2>3
  <2> HIDE DEF old
  <2> QED BY <1>00, <1>3, <1>4, <2>1, <2>2, <2>3, <2>4 DEF Suspended
<1>9. TelegramTyped'
  <2>1. strayed' \in [Telegram!Chats -> BOOLEAN]
    BY <1>0, <1>1 DEF TelegramTyped
  <2> QED BY <1>0, <1>1, <1>3, <1>7, <1>8, <2>1 DEF TelegramTyped
<1>10. TelegramFrame'
  <2>1. PointerOwn'
    <3> SUFFICES ASSUME NEW d \in Telegram!Chats, active[d] # None
                 PROVE  active[d] \in DOMAIN stories' /\ stories'[active[d]].chat = d
      BY <1>1 DEF PointerOwn
    <3>1. active[d] \in DOMAIN stories /\ stories[active[d]].chat = d
      BY <1>0 DEF TelegramFrame, PointerOwn
    <3> QED BY <1>2, <1>7, <3>1
  <2>2. RepliesRanked'
    <3> SUFFICES ASSUME NEW t \in DOMAIN stories PROVE Ranked(stories'[t].replies, nextReply + 1)
      BY <1>1, <1>7 DEF RepliesRanked
    <3>1. CASE t = s
      BY <1>6, <1>7, <3>1
    <3>2. CASE t # s
      <4>1. Ranked(stories[t].replies, nextReply) /\ stories[t] \in Story
        BY <1>0 DEF TelegramFrame, RepliesRanked, TelegramTyped
      <4>2. \A i \in DOMAIN stories[t].replies : stories[t].replies[i] \in Nat
        BY <4>1 DEF Story
      <4> QED BY <1>3, <1>7, <3>2, <4>1, <4>2 DEF Ranked
    <3> QED BY <3>1, <3>2
  <2>3. ShownOwn'
    <3> SUFFICES ASSUME NEW d \in Telegram!Chats, NEW m \in shown[d]
                 PROVE  m.story \in DOMAIN stories' /\ stories'[m.story].chat = d /\ m.reply < nextReply + 1
      BY <1>1 DEF ShownOwn
    <3>1. m.story \in DOMAIN stories /\ stories[m.story].chat = d /\ m.reply < nextReply
      BY <1>0 DEF TelegramFrame, ShownOwn
    <3>2. m.reply \in Nat
      BY <1>0 DEF TelegramTyped, Narrated
    <3> QED BY <1>2, <1>3, <1>7, <3>1, <3>2
  <2>4. TurnOwn'
    <3>1. at'.step # "generate"
      BY <1>8
    <3> QED BY <1>1, <1>2, <1>3, <1>8, <3>1 DEF TurnOwn
  <2> QED BY <2>1, <2>2, <2>3, <2>4 DEF TelegramFrame
<1>11. ASSUME ~strayed'[c] PROVE Midway(c)'
  <2>1. ~strayed[c] /\ ~(at.retry /\ switched[c])
    <3>1. strayed'[c] = (strayed[c] \/ (at.retry /\ switched[c]))
      BY <1>0, <1>1, <1>2 DEF TelegramTyped
    <3> QED BY <1>11, <3>1
  <2>2. /\ \A m \in shown[c] : Stands(m)
        /\ \A t \in DOMAIN stories : stories[t].chat = c => \A i \in DOMAIN stories[t].replies : Read(c, t, i)
        /\ ~switched[c] /\ old # <<>> => tracked[c] = MessagesOf(shown[c], s, Latest(old))
    BY <1>2, <2>1 DEF Settled
  <2>3. {} = MessagesOf(shown[c], s, nextReply)
    <3>1. \A m \in shown[c] : m.reply < nextReply
      BY <1>0, <1>2 DEF TelegramFrame, ShownOwn
    <3>2. \A m \in shown[c] : m.reply # nextReply
      <4>1. \A m \in shown[c] : m.reply \in Nat
        BY <1>0, <1>2 DEF TelegramTyped, Narrated
      <4> QED BY <1>3, <3>1, <4>1
    <3> QED BY <3>2 DEF MessagesOf
  <2>4. DOMAIN old = 1..Len(old) /\ Len(old) \in Nat /\ DOMAIN told = 1..Len(told) /\ Len(told) \in Nat
    BY <1>3, <1>6
  <2>5. \A m \in shown[c] : m.story # s => Stands(m)'
    <3> SUFFICES ASSUME NEW m \in shown[c], m.story # s PROVE Stands(m)'
      OBVIOUS
    <3>1. m.story \in DOMAIN stories
      BY <1>0, <1>2 DEF TelegramFrame, ShownOwn
    <3> QED BY <1>7, <2>2, <3>1 DEF Stands
  <2>6. ASSUME ~at.retry PROVE \A m \in shown[c] : Stands(m)'
    <3> SUFFICES ASSUME NEW m \in shown[c], m.story = s PROVE Stands(m)'
      BY <2>5
    <3>1. PICK i \in DOMAIN old : old[i] = m.reply
      BY <2>2 DEF Stands
    <3>2. i \in 1..Len(told) - 1 /\ i \in DOMAIN told
      BY <1>6, <2>4, <2>6
    <3>3. told[i] = m.reply
      BY <1>6, <3>1, <3>2
    <3> QED BY <1>7, <3>2, <3>3 DEF Stands
  <2>7. ASSUME at.retry PROVE tracked[c] = {m \in shown[c] : m.story = s /\ ~Stands(m)'}
    <3>1. tracked[c] = MessagesOf(shown[c], s, Latest(old)) /\ Len(told) = Len(old) /\ Len(old) > 0
      BY <1>4, <1>6, <2>1, <2>2, <2>4, <2>7
    <3>2. ASSUME NEW m \in shown[c], m.story = s, m.reply = Latest(old) PROVE ~Stands(m)'
      <4> SUFFICES ASSUME NEW i \in DOMAIN told PROVE told[i] # m.reply
        BY <1>7, <3>2 DEF Stands
      <4>1. Len(old) \in DOMAIN old /\ m.reply = old[Len(old)] /\ m.reply \in Nat /\ m.reply < nextReply
        BY SMTT(30), <1>3, <1>5, <2>4, <3>1, <3>2 DEF Latest, Ranked
      <4>2. CASE i = Len(told)
        <5>1. told[i] = nextReply
          BY <1>6, <4>2 DEF Latest
        <5> QED BY <1>3, <4>1, <5>1
      <4>3. CASE i # Len(told)
        <5>1. i \in 1..Len(told) - 1 /\ i < Len(old)
          BY <2>4, <3>1, <4>3
        <5>2. told[i] = old[i] /\ i \in DOMAIN old
          BY <1>6, <5>1
        <5>3. old[i] < m.reply /\ old[i] \in Nat
          BY <1>3, <1>5, <4>1, <5>1, <5>2 DEF Ranked
        <5> QED BY <4>1, <5>2, <5>3
      <4> QED BY <4>2, <4>3
    <3>3. ASSUME NEW m \in shown[c], m.story = s, m.reply # Latest(old) PROVE Stands(m)'
      <4>1. PICK i \in DOMAIN old : old[i] = m.reply
        BY <2>2, <3>3 DEF Stands
      <4>2. i \in 1..Len(told) - 1 /\ i \in DOMAIN told
        BY <2>4, <3>1, <3>3, <4>1 DEF Latest
      <4>3. told[i] = m.reply
        BY <1>6, <4>1, <4>2
      <4> QED BY <1>7, <3>3, <4>2, <4>3 DEF Stands
    <3> QED BY <3>1, <3>2, <3>3 DEF MessagesOf
  <2>8. ASSUME NEW t \in DOMAIN stories, stories'[t].chat = c, NEW i \in DOMAIN stories'[t].replies
        PROVE  Read(c, t, i)' \/ (t = s /\ i = Len(told))
    <3>0. shown' = shown
      BY <1>1
    <3>1. CASE t # s
      <4>1. stories'[t] = stories[t] /\ Read(c, t, i)
        BY <1>7, <2>2, <2>8, <3>1
      <4> QED BY <3>0, <4>1 DEF Read
    <3>2. CASE t = s /\ i # Len(told)
      <4>1. i \in 1..Len(told) - 1
        BY <1>7, <2>4, <2>8, <3>2
      <4>2. i \in DOMAIN old /\ told[i] = old[i]
        BY <1>6, <4>1
      <4>3. Read(c, s, i)
        BY <1>2, <2>2, <4>2
      <4> QED BY <1>7, <3>0, <3>2, <4>2, <4>3 DEF Read
    <3> QED BY <3>1, <3>2
  <2>9. /\ (at.story)' = s /\ (at.reply)' = nextReply /\ (at.sent)' = {} /\ (shown[c])' = shown[c]
        /\ (tracked[c])' = tracked[c] /\ (at.step)' = IF at.retry THEN "withdraw" ELSE "send"
    BY <1>1, <1>8
  <2>10. \A m \in shown[c] : Stands(m)' \/ ((at.step)' = "withdraw" /\ m \in tracked[c])
    <3>1. CASE at.retry
      <4>1. (at.step)' = "withdraw"
        BY <2>9, <3>1
      <4> QED BY <2>5, <2>7, <3>1, <4>1
    <3>2. CASE ~at.retry
      BY <2>6, <3>2
    <3> QED BY <3>1, <3>2
  <2>11. (at.step)' = "withdraw" => tracked[c] = {m \in shown[c] : m.story = s /\ ~Stands(m)'}
    <3>1. (at.step)' = "withdraw" => at.retry
      BY <2>9
    <3> QED BY <2>7, <3>1
  <2>12. (at.step)' # "track"
    BY <2>9
  <2> QED BY <1>6, <1>7, <2>3, <2>8, <2>9, <2>10, <2>11, <2>12 DEF Midway
<1>12. InStep'
  <2>1. ASSUME NEW d \in Telegram!Chats, d # c
        PROVE  /\ ~AtWork(d)' /\ Untold(d) /\ shown'[d] = shown[d] /\ tracked'[d] = tracked[d]
               /\ active'[d] = active[d] /\ switched'[d] = switched[d] /\ strayed'[d] = strayed[d]
    <3>1. strayed'[d] = strayed[d]
      BY <1>0, <1>1, <2>1 DEF TelegramTyped
    <3>2. Untold(d)
      BY <1>2, <1>7, <2>1 DEF Untold
    <3> QED BY <1>1, <1>8, <2>1, <3>1, <3>2 DEF AtWork
  <2>2. AtWork(c)'
    <3>1. (at.chat)' = c /\ (at.step)' \in Bookkeeping
      BY <1>8 DEF Bookkeeping
    <3> QED BY <3>1 DEF AtWork
  <2>3. ~strayed'[c] => IF AtWork(c)' THEN Midway(c)' ELSE Settled(c)'
    BY <1>11, <2>2
  <2> QED BY <1>00, <1>1, <2>1, <2>3, TurnStays
<1> QED BY <1>9, <1>10, <1>12 DEF TelegramInv

\* A step of the bookkeeping of a turn of chat c: stories and pointers stay, and so do the
\* other chats.
Books(c) ==
  /\ at.chat = c /\ at.step \in Bookkeeping
  /\ UNCHANGED <<stories, active, pending, nextReply>>
  /\ \A d \in Telegram!Chats \ {c} : /\ shown'[d] = shown[d] /\ tracked'[d] = tracked[d]
                                     /\ switched'[d] = switched[d] /\ strayed'[d] = strayed[d]
  /\ (at'.chat = c /\ at'.step \in Bookkeeping) \/ at'.step = "idle"

\* Such a step keeps the invariant if it leaves its own chat in step.
LEMMA BooksKeep ==
  ASSUME TelegramInv, NEW c \in Telegram!Chats, Books(c), TelegramTyped', ShownOwn', TurnOwn',
         ~strayed'[c] => IF AtWork(c)' THEN Midway(c)' ELSE Settled(c)'
  PROVE  TelegramInv'
<1>0. TelegramTyped /\ TelegramFrame /\ InStep
  BY DEF TelegramInv
<1>1. PointerOwn' /\ RepliesRanked'
  BY <1>0 DEF Books, TelegramFrame, PointerOwn, RepliesRanked
<1>2. ASSUME NEW d \in Telegram!Chats, d # c
      PROVE  /\ ~AtWork(d)' /\ Untold(d) /\ shown'[d] = shown[d] /\ tracked'[d] = tracked[d]
             /\ active'[d] = active[d] /\ switched'[d] = switched[d] /\ strayed'[d] = strayed[d]
  <2>1. ~AtWork(d)'
    BY <1>2 DEF Books, AtWork, Bookkeeping
  <2>2. Untold(d)
    BY DEF Books, Untold
  <2> QED BY <1>2, <2>1, <2>2 DEF Books
<1>3. at.chat = c /\ at.step \in {"generate"} \cup Bookkeeping
  BY DEF Books
<1>4. InStep'
  BY <1>2, <1>3, TurnStays
<1> QED BY <1>1, <1>4 DEF TelegramInv, TelegramFrame

\* The messages of the reply that was replaced go, each of them or the chat has strayed.
LEMMA WithdrawKeeps == ASSUME TelegramInv, NEW away, Telegram!Withdraw(away) PROVE TelegramInv'
<1>0. TelegramTyped /\ TelegramFrame /\ InStep
  BY DEF TelegramInv
<1>00. at.step = "withdraw" /\ at.step \in Bookkeeping
  BY DEF Telegram!Withdraw, Bookkeeping
<1>01. PICK c \in Telegram!Chats, s \in DOMAIN stories : c = at.chat /\ s = at.story
  BY <1>00, TurnFacts
<1>1. /\ away \subseteq tracked[c]
      /\ shown' = [shown EXCEPT ![c] = shown[c] \ away]
      /\ strayed' = [strayed EXCEPT ![c] = strayed[c] \/ away # tracked[c]]
      /\ at' = [at EXCEPT !.step = "untrack"]
      /\ UNCHANGED <<stories, active, pending, tracked, nextReply, switched>>
  BY <1>01 DEF Telegram!Withdraw
<1>2. at \in Suspended
  BY <1>0 DEF TelegramTyped
<1>3. /\ at' \in Suspended /\ at'.chat = c /\ at'.story = s /\ at'.step = "untrack"
      /\ at'.sent = at.sent /\ at'.reply = at.reply
  BY <1>01, <1>1, <1>2 DEF Suspended, Bookkeeping
<1>4. /\ shown'[c] = shown[c] \ away /\ strayed'[c] = (strayed[c] \/ away # tracked[c])
      /\ \A d \in Telegram!Chats \ {c} : shown'[d] = shown[d] /\ strayed'[d] = strayed[d]
      /\ shown' \in [Telegram!Chats -> SUBSET Narrated] /\ strayed' \in [Telegram!Chats -> BOOLEAN]
  BY <1>0, <1>1 DEF TelegramTyped
<1>5. TelegramTyped'
  BY <1>0, <1>1, <1>3, <1>4 DEF TelegramTyped
<1>6. Books(c)
  BY <1>00, <1>01, <1>1, <1>3, <1>4 DEF Books, Bookkeeping
<1>7. ShownOwn'
  BY <1>0, <1>1, <1>4 DEF TelegramFrame, ShownOwn
<1>8. TurnOwn'
  BY <1>0, <1>00, <1>01, <1>1, <1>3 DEF TelegramFrame, TurnOwn, Bookkeeping
<1>9. ASSUME ~strayed'[c] PROVE AtWork(c)' /\ Midway(c)'
  <2>1. ~strayed[c] /\ away = tracked[c]
    BY <1>4, <1>9
  <2>2. Midway(c)
    BY <1>00, <1>01, <2>1, TurnFacts
  <2> DEFINE replies == stories[s].replies
  <2>3. /\ replies # <<>> /\ Latest(replies) = at.reply
        /\ at.sent = MessagesOf(shown[c], s, at.reply)
        /\ \A m \in shown[c] : Stands(m) \/ m \in tracked[c]
        /\ tracked[c] = {m \in shown[c] : m.story = s /\ ~Stands(m)}
        /\ \A t \in DOMAIN stories : stories[t].chat = c => \A i \in DOMAIN stories[t].replies :
             Read(c, t, i) \/ (t = s /\ i = Len(replies))
    BY <1>00, <1>01, <2>2 DEF Midway
  <2>4. \A m \in shown[c] : Stands(m) => m \in shown'[c]
    BY <1>4, <2>1, <2>3
  <2>5. stories[s].replies \in Seq(Nat)
    BY <1>00, <1>01, TurnFacts DEF Story
  <2>6. ASSUME NEW m \in shown[c], m.story = s, m.reply = at.reply PROVE Stands(m)
    <3>1. Len(replies) \in DOMAIN replies /\ replies[Len(replies)] = m.reply
      BY <2>3, <2>5, <2>6 DEF Latest
    <3> QED BY <2>6, <3>1 DEF Stands
  <2>7. at.sent = MessagesOf(shown'[c], s, at.reply)
    BY <1>4, <2>3, <2>4, <2>6 DEF MessagesOf
  <2>8. \A m \in shown'[c] : Stands(m)'
    <3>1. \A m \in shown'[c] : Stands(m)
      BY <1>4, <2>1, <2>3
    <3> QED BY <1>1, <3>1 DEF Stands
  <2>9. ASSUME NEW t \in DOMAIN stories, stories[t].chat = c, NEW i \in DOMAIN stories[t].replies,
               ~(t = s /\ i = Len(replies))
        PROVE  Read(c, t, i)'
    <3>1. PICK m \in shown[c] : m.story = t /\ m.reply = stories[t].replies[i] /\ m.part = 1
      BY <2>3, <2>9 DEF Read
    <3>2. m \in shown'[c]
      BY <2>4, <3>1 DEF Stands
    <3> QED BY <1>1, <3>1, <3>2 DEF Read
  <2>10. /\ (at.story)' = s /\ (at.reply)' = at.reply /\ (at.sent)' = at.sent /\ (at.step)' = "untrack"
         /\ stories' = stories
    BY <1>1, <1>3
  <2>11. AtWork(c)'
    BY <1>3 DEF AtWork, Bookkeeping
  <2> QED BY <2>3, <2>7, <2>8, <2>9, <2>10, <2>11 DEF Midway
<1> QED BY <1>5, <1>6, <1>7, <1>8, <1>9, BooksKeep

\* The file is emptied.
LEMMA UntrackKeeps == ASSUME TelegramInv, Telegram!Untrack PROVE TelegramInv'
<1>0. TelegramTyped /\ TelegramFrame /\ InStep
  BY DEF TelegramInv
<1>00. at.step = "untrack" /\ at.step \in Bookkeeping
  BY DEF Telegram!Untrack, Bookkeeping
<1>01. PICK c \in Telegram!Chats, s \in DOMAIN stories : c = at.chat /\ s = at.story
  BY <1>00, TurnFacts
<1>1. /\ tracked' = [tracked EXCEPT ![c] = {}]
      /\ at' = [at EXCEPT !.step = "send"]
      /\ UNCHANGED <<stories, active, pending, shown, nextReply, strayed, switched>>
  BY <1>01 DEF Telegram!Untrack
<1>2. at \in Suspended
  BY <1>0 DEF TelegramTyped
<1>3. /\ at' \in Suspended /\ at'.chat = c /\ at'.story = s /\ at'.step = "send"
      /\ at'.sent = at.sent /\ at'.reply = at.reply
  BY <1>01, <1>1, <1>2 DEF Suspended, Bookkeeping
<1>4. /\ \A d \in Telegram!Chats \ {c} : tracked'[d] = tracked[d]
      /\ tracked' \in [Telegram!Chats -> SUBSET Narrated]
  BY <1>0, <1>1 DEF TelegramTyped
<1>5. TelegramTyped'
  BY <1>0, <1>1, <1>3, <1>4 DEF TelegramTyped
<1>6. Books(c)
  BY <1>00, <1>01, <1>1, <1>3, <1>4 DEF Books, Bookkeeping
<1>7. ShownOwn'
  BY <1>0, <1>1 DEF TelegramFrame, ShownOwn
<1>8. TurnOwn'
  BY <1>0, <1>00, <1>01, <1>1, <1>3 DEF TelegramFrame, TurnOwn, Bookkeeping
<1>9. ASSUME ~strayed'[c] PROVE AtWork(c)' /\ Midway(c)'
  <2>1. Midway(c)
    BY <1>00, <1>01, <1>1, <1>9, TurnFacts
  <2>2. /\ stories[s].replies # <<>> /\ Latest(stories[s].replies) = at.reply
        /\ at.sent = MessagesOf(shown[c], s, at.reply)
        /\ \A m \in shown[c] : Stands(m)
        /\ \A t \in DOMAIN stories : stories[t].chat = c => \A i \in DOMAIN stories[t].replies :
             Read(c, t, i) \/ (t = s /\ i = Len(stories[s].replies))
    BY <1>00, <1>01, <2>1 DEF Midway
  <2>3. /\ (at.story)' = s /\ (at.reply)' = at.reply /\ (at.sent)' = at.sent /\ (at.step)' = "send"
        /\ stories' = stories /\ shown' = shown
    BY <1>1, <1>3
  <2>4. \A m : Stands(m)' <=> Stands(m)
    BY <2>3 DEF Stands
  <2>5. \A t, i : Read(c, t, i)' <=> Read(c, t, i)
    BY <2>3 DEF Read
  <2>6. AtWork(c)'
    BY <1>3 DEF AtWork, Bookkeeping
  <2> QED BY <2>2, <2>3, <2>4, <2>5, <2>6 DEF Midway
<1> QED BY <1>5, <1>6, <1>7, <1>8, <1>9, BooksKeep

\* A message of the new reply goes out; the last to go is part 1.
LEMMA SendKeeps == ASSUME TelegramInv, Telegram!Send PROVE TelegramInv'
<1>0. TelegramTyped /\ TelegramFrame /\ InStep
  BY DEF TelegramInv
<1>00. at.step = "send" /\ at.step \in Bookkeeping
  BY DEF Telegram!Send, Bookkeeping
<1>01. PICK c \in Telegram!Chats, s \in DOMAIN stories : c = at.chat /\ s = at.story
  BY <1>00, TurnFacts
<1>02. s \in Nat /\ stories[s].chat = c
  BY <1>00, <1>01, TurnFacts
<1>03. PICK new : new = [story |-> s, reply |-> at.reply, part |-> at.parts]
  OBVIOUS
<1>1. /\ shown' = [shown EXCEPT ![c] = shown[c] \cup {new}]
      /\ at' = [at EXCEPT !.step = IF at.parts = 1 THEN "track" ELSE "send",
                          !.parts = at.parts - 1, !.sent = at.sent \cup {new}]
      /\ UNCHANGED <<stories, active, pending, tracked, nextReply, strayed, switched>>
  BY <1>01, <1>03 DEF Telegram!Send
<1>2. at \in Suspended
  BY <1>0 DEF TelegramTyped
<1>21. new \in Narrated /\ new.story = s /\ new.reply = at.reply /\ new.part = at.parts
  BY <1>02, <1>03, <1>2 DEF Narrated, Suspended
<1>22. PICK next : next = IF at.parts = 1 THEN "track" ELSE "send"
  OBVIOUS
<1>23. next \in Bookkeeping
  BY <1>22 DEF Bookkeeping
<1>3. /\ at' \in Suspended /\ at'.chat = c /\ at'.story = s /\ at'.step = next
      /\ at'.sent = at.sent \cup {new} /\ at'.reply = at.reply
  <2>1. at' = [at EXCEPT !.step = next, !.parts = at.parts - 1, !.sent = at.sent \cup {new}]
    BY <1>1, <1>22
  <2>2. at.sent \cup {new} \in SUBSET Narrated /\ at.parts - 1 \in Int
    BY <1>2, <1>21 DEF Suspended
  <2> QED BY <1>01, <1>2, <1>23, <2>1, <2>2 DEF Suspended
<1>4. /\ shown'[c] = shown[c] \cup {new}
      /\ \A d \in Telegram!Chats \ {c} : shown'[d] = shown[d]
      /\ shown' \in [Telegram!Chats -> SUBSET Narrated]
  BY <1>0, <1>1, <1>21 DEF TelegramTyped
<1>5. TelegramTyped'
  BY <1>0, <1>1, <1>3, <1>4 DEF TelegramTyped
<1>6. Books(c)
  BY <1>00, <1>01, <1>1, <1>23, <1>3, <1>4 DEF Books
<1>7. ShownOwn'
  <2>1. at.reply < nextReply
    BY <1>0, <1>00 DEF TelegramFrame, TurnOwn
  <2> QED BY <1>0, <1>02, <1>1, <1>21, <1>4, <2>1 DEF TelegramFrame, ShownOwn
<1>8. TurnOwn'
  <2>1. at.reply < nextReply /\ active[c] # None /\ s = active[c]
    BY <1>0, <1>00, <1>01 DEF TelegramFrame, TurnOwn
  <2>2. next # "generate"
    BY <1>22
  <2> QED BY <1>1, <1>3, <2>1, <2>2 DEF TurnOwn
<1>9. ASSUME ~strayed'[c] PROVE AtWork(c)' /\ Midway(c)'
  <2>1. Midway(c)
    BY <1>00, <1>01, <1>1, <1>9, TurnFacts
  <2>2. /\ stories[s].replies # <<>> /\ Latest(stories[s].replies) = at.reply
        /\ at.sent = MessagesOf(shown[c], s, at.reply)
        /\ \A m \in shown[c] : Stands(m)
        /\ \A t \in DOMAIN stories : stories[t].chat = c => \A i \in DOMAIN stories[t].replies :
             Read(c, t, i) \/ (t = s /\ i = Len(stories[s].replies))
    BY <1>00, <1>01, <2>1 DEF Midway
  <2>3. /\ (at.story)' = s /\ (at.reply)' = at.reply /\ (at.sent)' = at.sent \cup {new} /\ (at.step)' = next
        /\ stories' = stories
    BY <1>1, <1>3
  <2>4. stories[s].replies \in Seq(Nat)
    BY <1>00, <1>01, TurnFacts DEF Story
  <2>5. \A m \in shown'[c] : Stands(m)'
    <3>1. Len(stories[s].replies) \in DOMAIN stories[s].replies
      BY <2>2, <2>4
    <3>2. Stands(new)
      BY <1>21, <2>2, <3>1 DEF Stands, Latest
    <3> QED BY <1>4, <2>2, <2>3, <3>2 DEF Stands
  <2>6. at.sent \cup {new} = MessagesOf(shown'[c], s, at.reply)
    BY <1>21, <1>4, <2>2 DEF MessagesOf
  <2>7. \A t, i : Read(c, t, i) => Read(c, t, i)'
    BY <1>4, <2>3 DEF Read
  <2>8. next = "track" => Read(c, s, Len(stories[s].replies))'
    <3> SUFFICES ASSUME next = "track" PROVE Read(c, s, Len(stories[s].replies))'
      OBVIOUS
    <3>1. new.part = 1
      BY <1>21, <1>22
    <3>2. new \in shown'[c] /\ new.story = s /\ new.reply = stories[s].replies[Len(stories[s].replies)]
      BY <1>21, <1>4, <2>2 DEF Latest
    <3> QED BY <2>3, <3>1, <3>2 DEF Read
  <2>9. AtWork(c)'
    BY <1>23, <1>3 DEF AtWork
  <2>10. next # "withdraw"
    BY <1>22
  <2>11. \A t \in DOMAIN stories : stories[t].chat = c => \A i \in DOMAIN stories[t].replies :
             Read(c, t, i)' \/ (t = s /\ i = Len(stories[s].replies) /\ next # "track")
    <3> SUFFICES ASSUME NEW t \in DOMAIN stories, stories[t].chat = c, NEW i \in DOMAIN stories[t].replies
                 PROVE  Read(c, t, i)' \/ (t = s /\ i = Len(stories[s].replies) /\ next # "track")
      OBVIOUS
    <3>1. CASE Read(c, t, i)
      BY <2>7, <3>1
    <3>2. CASE t = s /\ i = Len(stories[s].replies)
      BY <2>3, <2>8, <3>2
    <3> QED BY <2>2, <3>1, <3>2
  <2> QED BY <2>2, <2>3, <2>5, <2>6, <2>9, <2>10, <2>11 DEF Midway
<1> QED BY <1>5, <1>6, <1>7, <1>8, <1>9, BooksKeep

\* The ids are kept for /retry, and the turn is over.
LEMMA TrackKeeps == ASSUME TelegramInv, Telegram!Track PROVE TelegramInv'
<1>0. TelegramTyped /\ TelegramFrame /\ InStep
  BY DEF TelegramInv
<1>00. at.step = "track" /\ at.step \in Bookkeeping
  BY DEF Telegram!Track, Bookkeeping
<1>01. PICK c \in Telegram!Chats, s \in DOMAIN stories : c = at.chat /\ s = at.story
  BY <1>00, TurnFacts
<1>1. /\ tracked' = [tracked EXCEPT ![c] = at.sent]
      /\ switched' = [switched EXCEPT ![c] = FALSE]
      /\ at' = Telegram!Idle
      /\ UNCHANGED <<stories, active, pending, shown, nextReply, strayed>>
  BY <1>01 DEF Telegram!Track
<1>2. at.sent \in SUBSET Narrated
  BY <1>0 DEF TelegramTyped, Suspended
<1>3. at' \in Suspended /\ at'.step = "idle"
  BY <1>1 DEF Suspended, Telegram!Idle
<1>4. /\ tracked'[c] = at.sent
      /\ \A d \in Telegram!Chats \ {c} : tracked'[d] = tracked[d] /\ switched'[d] = switched[d]
      /\ tracked' \in [Telegram!Chats -> SUBSET Narrated] /\ switched' \in [Telegram!Chats -> BOOLEAN]
  BY <1>0, <1>1, <1>2 DEF TelegramTyped
<1>5. TelegramTyped'
  BY <1>0, <1>1, <1>3, <1>4 DEF TelegramTyped
<1>6. Books(c)
  BY <1>00, <1>01, <1>1, <1>3, <1>4 DEF Books
<1>7. ShownOwn'
  BY <1>0, <1>1 DEF TelegramFrame, ShownOwn
<1>8. TurnOwn'
  BY <1>3 DEF TurnOwn, Bookkeeping
<1>9. ASSUME ~strayed'[c] PROVE ~AtWork(c)' /\ Settled(c)'
  <2>1. Midway(c) /\ s = active[c]
    BY <1>00, <1>01, <1>1, <1>9, TurnFacts
  <2>2. /\ Latest(stories[s].replies) = at.reply
        /\ at.sent = MessagesOf(shown[c], s, at.reply)
        /\ \A m \in shown[c] : Stands(m)
        /\ \A t \in DOMAIN stories : stories[t].chat = c => \A i \in DOMAIN stories[t].replies : Read(c, t, i)
    BY <1>00, <1>01, <2>1 DEF Midway
  <2>3. stories' = stories /\ shown' = shown /\ active' = active
    BY <1>1
  <2>4. \A m : Stands(m)' <=> Stands(m)
    BY <2>3 DEF Stands
  <2>5. \A t, i : Read(c, t, i)' <=> Read(c, t, i)
    BY <2>3 DEF Read
  <2>6. ~AtWork(c)'
    BY <1>3 DEF AtWork, Bookkeeping
  <2> QED BY <1>4, <2>1, <2>2, <2>3, <2>4, <2>5, <2>6 DEF Settled
<1> QED BY <1>5, <1>6, <1>7, <1>8, <1>9, BooksKeep
-----------------------------------------------------------------------------
(* What goes wrong.                                                        *)

\* A call that raises or a death in a turn's bookkeeping strays its chat; before the reply is
\* stored it has changed nothing.
LEMMA InterruptedKeeps == ASSUME TelegramInv, Telegram!Interrupted PROVE TelegramInv'
<1>0. TelegramTyped /\ TelegramFrame /\ InStep
  BY DEF TelegramInv
<1>1. at' = Telegram!Idle /\ UNCHANGED <<stories, active, shown, nextReply, switched>>
  BY DEF Telegram!Interrupted
<1>2. strayed' = [strayed EXCEPT ![at.chat] = strayed[at.chat] \/ at.step # "generate"]
  BY DEF Telegram!Interrupted
<1>3. pending' = pending \/ pending' = [pending EXCEPT ![at.chat] = None]
  BY DEF Telegram!Interrupted
<1>4. tracked' = tracked \/ (at.step = "track" /\ tracked' = [tracked EXCEPT ![at.chat] = {}])
  BY DEF Telegram!Interrupted
<1>5. at' \in Suspended /\ at'.step = "idle"
  BY <1>1 DEF Suspended, Telegram!Idle
<1>6. TelegramTyped'
  <2>1. pending' \in [Telegram!Chats -> Nat \cup {None}]
    BY <1>0, <1>3 DEF TelegramTyped
  <2>2. tracked' \in [Telegram!Chats -> SUBSET Narrated]
    BY <1>0, <1>4 DEF TelegramTyped
  <2>3. strayed' \in [Telegram!Chats -> BOOLEAN]
    <3>1. CASE at.chat \in Telegram!Chats
      <4>1. (strayed[at.chat] \/ at.step # "generate") \in BOOLEAN
        BY <1>0, <3>1 DEF TelegramTyped
      <4> QED BY <1>0, <1>2, <4>1 DEF TelegramTyped
    <3>2. CASE at.chat \notin Telegram!Chats
      BY <1>0, <1>2, <3>2 DEF TelegramTyped
    <3> QED BY <3>1, <3>2
  <2> QED BY <1>0, <1>1, <1>5, <2>1, <2>2, <2>3 DEF TelegramTyped
<1>7. PointerOwn' /\ RepliesRanked' /\ ShownOwn' /\ \A d \in Telegram!Chats : Untold(d)
  BY <1>0, <1>1, FrameStays
<1>8. TurnOwn'
  BY <1>5 DEF TurnOwn, Bookkeeping
<1>9. InStep'
  <2>1. ASSUME NEW d \in Telegram!Chats, AtWork(d) PROVE strayed'[d]
    <3>1. d = at.chat /\ at.step # "generate"
      BY <2>1 DEF AtWork, Bookkeeping
    <3>2. strayed'[d] = (strayed[d] \/ at.step # "generate")
      BY <1>0, <1>2, <3>1 DEF TelegramTyped
    <3> QED BY <3>1, <3>2
  <2>2. ASSUME NEW d \in Telegram!Chats PROVE ~AtWork(d)'
    BY <1>5 DEF AtWork, Bookkeeping
  <2>3. ASSUME NEW d \in Telegram!Chats, strayed[d] PROVE strayed'[d]
    <3>1. CASE d = at.chat
      <4>1. strayed'[d] = (strayed[d] \/ at.step # "generate")
        BY <1>0, <1>2, <3>1 DEF TelegramTyped
      <4> QED BY <2>3, <4>1
    <3>2. CASE d # at.chat
      BY <1>0, <1>2, <2>3, <3>2 DEF TelegramTyped
    <3> QED BY <3>1, <3>2
  <2>4. ASSUME NEW d \in Telegram!Chats, ~strayed'[d] PROVE tracked'[d] = tracked[d]
    <3>1. ~AtWork(d)
      BY <2>1, <2>4
    <3>2. at.step = "track" => d # at.chat
      BY <3>1 DEF AtWork, Bookkeeping
    <3> QED BY <1>0, <1>4, <3>2 DEF TelegramTyped
  <2> QED BY <1>0, <1>1, <1>7, <2>1, <2>2, <2>3, <2>4, StaysInStep
<1> QED BY <1>6, <1>7, <1>8, <1>9 DEF TelegramInv, TelegramFrame

\* The panel plays a story: its chat has strayed, no other chat is concerned.
LEMMA PanelTurnKeeps ==
  ASSUME TelegramInv, NEW s \in DOMAIN stories, NEW told \in Seq(Nat), NEW more \in {0, 1},
         Ranked(told, nextReply + more), Telegram!PanelTurn(s, told, more)
  PROVE  TelegramInv'
<1>0. TelegramTyped /\ TelegramFrame /\ InStep
  BY DEF TelegramInv
<1>1. /\ ~(at.step = "generate" /\ at.story = s)
      /\ stories' = [stories EXCEPT ![s].replies = told]
      /\ nextReply' = nextReply + more
      /\ strayed' = [strayed EXCEPT ![stories[s].chat] = TRUE]
      /\ UNCHANGED <<active, pending, tracked, shown, at, switched>>
  BY DEF Telegram!PanelTurn
<1>2. PICK c \in Telegram!Chats : c = stories[s].chat
  <2>1. stories[s] \in Story
    BY <1>0 DEF TelegramTyped
  <2> QED BY <2>1 DEF Story
<1>3. /\ stories' \in Seq(Story) /\ DOMAIN stories' = DOMAIN stories
      /\ stories'[s].replies = told /\ stories'[s].chat = c
      /\ \A t \in DOMAIN stories : t # s => stories'[t] = stories[t]
  BY <1>0, <1>1, <1>2, Retold DEF TelegramTyped
<1>4. /\ strayed' \in [Telegram!Chats -> BOOLEAN] /\ strayed'[c]
      /\ \A d \in Telegram!Chats \ {c} : strayed'[d] = strayed[d]
  BY <1>0, <1>1, <1>2 DEF TelegramTyped
<1>5. nextReply \in Nat /\ nextReply' \in Nat /\ nextReply <= nextReply'
  BY <1>0, <1>1 DEF TelegramTyped
<1>6. TelegramTyped'
  BY <1>0, <1>1, <1>3, <1>4, <1>5 DEF TelegramTyped
<1>7. PointerOwn'
  <2> SUFFICES ASSUME NEW d \in Telegram!Chats, active[d] # None
               PROVE  active[d] \in DOMAIN stories' /\ stories'[active[d]].chat = d
    BY <1>1 DEF PointerOwn
  <2>1. active[d] \in DOMAIN stories /\ stories[active[d]].chat = d
    BY <1>0 DEF TelegramFrame, PointerOwn
  <2> QED BY <1>2, <1>3, <2>1
<1>8. RepliesRanked'
  <2> SUFFICES ASSUME NEW t \in DOMAIN stories PROVE Ranked(stories'[t].replies, nextReply')
    BY <1>3 DEF RepliesRanked
  <2>1. CASE t = s
    BY <1>1, <1>3, <2>1
  <2>2. CASE t # s
    <3>1. Ranked(stories[t].replies, nextReply) /\ stories[t] \in Story
      BY <1>0 DEF TelegramFrame, RepliesRanked, TelegramTyped
    <3>2. \A i \in DOMAIN stories[t].replies : stories[t].replies[i] \in Nat
      BY <3>1 DEF Story
    <3> QED BY <1>3, <1>5, <2>2, <3>1, <3>2 DEF Ranked
  <2> QED BY <2>1, <2>2
<1>9. ShownOwn'
  <2> SUFFICES ASSUME NEW d \in Telegram!Chats, NEW m \in shown[d]
               PROVE  m.story \in DOMAIN stories' /\ stories'[m.story].chat = d /\ m.reply < nextReply'
    BY <1>1 DEF ShownOwn
  <2>1. m.story \in DOMAIN stories /\ stories[m.story].chat = d /\ m.reply < nextReply
    BY <1>0 DEF TelegramFrame, ShownOwn
  <2>2. m.reply \in Nat
    BY <1>0 DEF TelegramTyped, Narrated
  <2>3. m.story \in DOMAIN stories' /\ stories'[m.story].chat = d
    BY <1>2, <1>3, <2>1
  <2>4. m.reply < nextReply'
    BY <1>5, <2>1, <2>2
  <2> QED BY <2>3, <2>4
<1>10. TurnOwn'
  <2>1. TurnOwn /\ at.reply \in Nat
    BY <1>0 DEF TelegramFrame, TelegramTyped, Suspended
  <2>2. at.step = "generate" /\ at.retry => stories'[at.story].replies # <<>>
    <3> SUFFICES ASSUME at.step = "generate", at.retry PROVE stories'[at.story].replies # <<>>
      OBVIOUS
    <3>1. at.story \in DOMAIN stories /\ at.story # s /\ stories[at.story].replies # <<>>
      BY <1>1, <2>1, TurnFacts DEF TurnOwn
    <3> QED BY <1>3, <3>1
  <2>3. at' = at /\ active' = active
    BY <1>1
  <2> QED BY <1>5, <2>1, <2>2, <2>3 DEF TurnOwn
<1>11. InStep'
  <2> SUFFICES ASSUME NEW d \in Telegram!Chats, ~strayed'[d]
               PROVE  IF AtWork(d)' THEN Midway(d)' ELSE Settled(d)'
    BY DEF InStep
  <2>1. d # c /\ ~strayed[d]
    BY <1>4
  <2>2. Untold(d)
    BY <1>2, <1>3, <2>1 DEF Untold
  <2>3. AtWork(d)' <=> AtWork(d)
    BY <1>1 DEF AtWork
  <2>4. CASE ~AtWork(d)
    <3>1. Settled(d)
      BY <1>0, <2>1, <2>4 DEF InStep
    <3>2. Settled(d)'
      BY <1>0, <1>1, <2>2, <3>1, StaysSettled
    <3> QED BY <2>3, <2>4, <3>2
  <2>5. CASE AtWork(d)
    <3>1. Midway(d)
      BY <1>0, <2>1, <2>5 DEF InStep
    <3>2. at.chat = d /\ at.step \in {"generate"} \cup Bookkeeping
      BY <2>5 DEF AtWork
    <3>3. PICK own \in DOMAIN stories : own = at.story /\ stories[own].chat = d
      BY <3>2, TurnFacts
    <3>4. stories'[own].replies = stories[own].replies
      BY <2>2, <3>3 DEF Untold
    <3>5. at' = at /\ shown' = shown /\ tracked' = tracked
      BY <1>1
    <3>6. \A m \in shown[d] : stories'[m.story].replies = stories[m.story].replies
      BY <1>0, <2>2 DEF TelegramFrame, ShownOwn, Untold
    <3>7. \A m \in shown[d] : Stands(m)' <=> Stands(m)
      BY <3>6 DEF Stands
    <3>8. \A t \in DOMAIN stories' : stories'[t].chat = d => /\ t \in DOMAIN stories /\ stories[t].chat = d
                                                           /\ stories'[t].replies = stories[t].replies
      BY <1>2, <1>3, <2>1 DEF Untold
    <3>9. ASSUME NEW t \in DOMAIN stories', stories'[t].chat = d, NEW i \in DOMAIN stories'[t].replies
          PROVE  Read(d, t, i)' <=> Read(d, t, i)
      BY <3>5, <3>8, <3>9 DEF Read
    <3>10. /\ stories[own].replies # <<>> /\ Latest(stories[own].replies) = at.reply
           /\ at.sent = MessagesOf(shown[d], own, at.reply)
           /\ \A m \in shown[d] : Stands(m) \/ (at.step = "withdraw" /\ m \in tracked[d])
           /\ at.step = "withdraw" => tracked[d] = {m \in shown[d] : m.story = own /\ ~Stands(m)}
           /\ \A t \in DOMAIN stories : stories[t].chat = d => \A i \in DOMAIN stories[t].replies :
                Read(d, t, i) \/ (t = own /\ i = Len(stories[own].replies) /\ at.step # "track")
      BY <3>1, <3>3 DEF Midway
    <3>11. /\ \A m \in shown[d] : Stands(m)' \/ (at.step = "withdraw" /\ m \in tracked[d])
           /\ at.step = "withdraw" => tracked[d] = {m \in shown[d] : m.story = own /\ ~Stands(m)'}
      BY <3>7, <3>10
    <3>12. ASSUME NEW t \in DOMAIN stories', stories'[t].chat = d, NEW i \in DOMAIN stories'[t].replies
           PROVE  Read(d, t, i)' \/ (t = own /\ i = Len(stories[own].replies) /\ at.step # "track")
      <4>1. Read(d, t, i) \/ (t = own /\ i = Len(stories[own].replies) /\ at.step # "track")
        BY <3>8, <3>10, <3>12
      <4>2. Read(d, t, i)' <=> Read(d, t, i)
        BY <3>9, <3>12
      <4> QED BY <4>1, <4>2
    <3>13. Midway(d)'
      BY <3>3, <3>4, <3>5, <3>10, <3>11, <3>12 DEF Midway
    <3> QED BY <2>3, <2>5, <3>13
  <2> QED BY <2>4, <2>5
<1> QED BY <1>6, <1>7, <1>8, <1>9, <1>10, <1>11 DEF TelegramInv, TelegramFrame

\* What the panel does to a story keeps its replies ranked.
LEMMA PanelKeeps == ASSUME TelegramInv, Telegram!PanelSteps PROVE TelegramInv'
<1>0. TelegramTyped /\ TelegramFrame
  BY DEF TelegramInv
<1>1. PICK s \in DOMAIN stories :
        \/ Telegram!PanelTurn(s, Append(stories[s].replies, nextReply), 1)
        \/ /\ stories[s].replies # <<>>
           /\ Telegram!PanelTurn(s, Append(Telegram!Front(stories[s].replies), nextReply), 1)
        \/ stories[s].replies # <<>> /\ Telegram!PanelTurn(s, Telegram!Front(stories[s].replies), 0)
  BY DEF Telegram!PanelSteps
<1> DEFINE r == stories[s].replies
<1>2. r \in Seq(Nat) /\ nextReply \in Nat /\ Ranked(r, nextReply)
  <2>1. stories[s] \in Story /\ nextReply \in Nat /\ Ranked(r, nextReply)
    BY <1>0 DEF TelegramFrame, TelegramTyped, RepliesRanked
  <2> QED BY <2>1 DEF Story
<1>3. CASE Telegram!PanelTurn(s, Append(r, nextReply), 1)
  <2>1. Append(r, nextReply) = Telegram!Told(r, FALSE, nextReply)
    BY DEF Telegram!Told
  <2>2. Append(r, nextReply) \in Seq(Nat) /\ Ranked(Append(r, nextReply), nextReply + 1)
    BY <1>2, <2>1, ToldLast
  <2> HIDE DEF r
  <2>3. 1 \in {0, 1}
    OBVIOUS
  <2> QED BY <1>3, <2>2, <2>3, PanelTurnKeeps
<1>4. CASE r # <<>> /\ Telegram!PanelTurn(s, Append(Telegram!Front(r), nextReply), 1)
  <2>1. Append(Telegram!Front(r), nextReply) = Telegram!Told(r, TRUE, nextReply)
    BY DEF Telegram!Told
  <2>2. /\ Append(Telegram!Front(r), nextReply) \in Seq(Nat)
        /\ Ranked(Append(Telegram!Front(r), nextReply), nextReply + 1)
    BY <1>2, <1>4, <2>1, ToldLast
  <2> HIDE DEF r
  <2>3. 1 \in {0, 1}
    OBVIOUS
  <2> QED BY <1>4, <2>2, <2>3, PanelTurnKeeps
<1>5. CASE r # <<>> /\ Telegram!PanelTurn(s, Telegram!Front(r), 0)
  <2>1. Telegram!Front(r) = SubSeq(r, 1, Len(r) - 1) /\ Len(r) \in Nat /\ Len(r) > 0
    BY <1>2, <1>5 DEF Telegram!Front
  <2>2. /\ Telegram!Front(r) \in Seq(Nat) /\ Len(Telegram!Front(r)) = Len(r) - 1
        /\ \A i \in 1..Len(r) - 1 : Telegram!Front(r)[i] = r[i]
    BY <1>2, <2>1
  <2>3. Ranked(Telegram!Front(r), nextReply + 0)
    <3>1. DOMAIN Telegram!Front(r) = 1..Len(r) - 1 /\ DOMAIN r = 1..Len(r)
      BY <1>2, <2>1, <2>2
    <3>2. \A i \in 1..Len(r) - 1 : i \in 1..Len(r)
      BY <2>1
    <3>3. nextReply + 0 = nextReply
      BY <1>2
    <3> HIDE DEF r
    <3>4. \A i \in 1..Len(r) - 1 : Telegram!Front(r)[i] = r[i] /\ i \in DOMAIN r
      BY <2>2, <3>1, <3>2
    <3> DEFINE front == Telegram!Front(r)
    <3>5. DOMAIN front = 1..Len(r) - 1
      BY <3>1
    <3>6. \A i \in DOMAIN front : front[i] = r[i] /\ i \in DOMAIN r
      BY <3>4, <3>5
    <3> HIDE DEF front
    <3>7. Ranked(front, nextReply)
      BY <1>2, <3>6 DEF Ranked
    <3> QED BY <3>3, <3>7 DEF front
  <2>4. 0 \in {0, 1}
    OBVIOUS
  <2> HIDE DEF r
  <2> QED BY <1>5, <2>2, <2>3, <2>4, PanelTurnKeeps
<1> QED BY <1>1, <1>3, <1>4, <1>5
-----------------------------------------------------------------------------
(* The theorem.                                                            *)

LEMMA TelegramInit == Init => TelegramInv
<1> SUFFICES ASSUME Telegram!Init PROVE TelegramInv
  BY DEF Init
<1> USE DEF Telegram!Init
<1>1. at \in Suspended
  BY DEF Suspended, Telegram!Idle
<1>2. stories \in Seq(Story) /\ DOMAIN stories = {}
  OBVIOUS
<1>3. TelegramTyped
  BY <1>1, <1>2 DEF TelegramTyped
<1>4. TelegramFrame
  BY <1>2 DEF TelegramFrame, PointerOwn, RepliesRanked, ShownOwn, TurnOwn, Bookkeeping, Telegram!Idle
<1>5. ASSUME NEW c \in Telegram!Chats PROVE ~AtWork(c) /\ Settled(c)
  BY <1>2 DEF AtWork, Bookkeeping, Telegram!Idle, Settled
<1> QED BY <1>3, <1>4, <1>5 DEF TelegramInv, InStep

\* No step undoes the invariant.
LEMMA TelegramNext == TelegramInv /\ [Next]_vars => TelegramInv'
<1> SUFFICES ASSUME TelegramInv, [Next]_vars PROVE TelegramInv'
  OBVIOUS
<1>0. TelegramTyped
  BY DEF TelegramInv
<1>1. CASE UNCHANGED TelegramVars
  <2>1. TelegramTyped'
    BY <1>0, <1>1 DEF TelegramVars, TelegramTyped
  <2>2. TelegramFrame'
    BY <1>1 DEF TelegramInv, TelegramVars, TelegramFrame, PointerOwn, RepliesRanked, ShownOwn, TurnOwn
  <2>3. InStep'
    BY <1>1 DEF TelegramInv, TelegramVars, InStep, AtWork, Settled, Midway, Stands, Read
  <2> QED BY <2>1, <2>2, <2>3 DEF TelegramInv
<1>2. ASSUME NEW c \in Telegram!Chats, NEW sc \in Scenarios, Telegram!PlayNew(c, sc) PROVE TelegramInv'
  <2>1. at = Telegram!Idle /\ Telegram!NewStory(c, sc, FALSE, TRUE, 0)
    BY <1>2 DEF Telegram!PlayNew
  <2> QED BY <2>1, NewStoryKeeps
<1>3. ASSUME NEW c \in Telegram!Chats, Telegram!Restart(c) \/ Telegram!Clear(c) PROVE TelegramInv'
  <2>1. at = Telegram!Idle /\ active[c] # None
    BY <1>3 DEF Telegram!Restart, Telegram!Clear
  <2>2. stories[active[c]] \in Story
    BY <2>1 DEF TelegramInv, TelegramTyped, TelegramFrame, PointerOwn
  <2>3. stories[active[c]].scenario \in Scenarios /\ stories[active[c]].named \in BOOLEAN
    BY <2>2 DEF Story
  <2>4. CASE Telegram!Restart(c)
    <3>1. Telegram!NewStory(c, stories[active[c]].scenario, stories[active[c]].named, FALSE, active[c])
      BY <2>4 DEF Telegram!Restart
    <3> QED BY <2>1, <2>3, <3>1, NewStoryKeeps
  <2>5. CASE Telegram!Clear(c)
    <3>1. Telegram!NewStory(c, stories[active[c]].scenario, FALSE, TRUE, active[c])
      BY <2>5 DEF Telegram!Clear
    <3> QED BY <2>1, <2>3, <3>1, NewStoryKeeps
  <2> QED BY <1>3, <2>4, <2>5
<1>4. CASE Telegram!Next
  BY <1>2, <1>3, <1>4, ResumeKeeps, AnswerKeeps, BeginTurnKeeps, GeneratedKeeps, WithdrawKeeps, UntrackKeeps,
     SendKeeps, TrackKeeps, InterruptedKeeps, PanelKeeps DEF Telegram!Next
<1> QED BY <1>1, <1>4 DEF Next, vars

\* Once a turn is over, a chat that no fault, no panel turn and no /retry straight after a
\* switch of story has left out of step shows the replies its stories hold and nothing else
\* (narrator_store.py, _delete_tracked_narrator and _send_narrator_reply of adapter.py), over
\* any number of chats, stories, replies, parts and retries.
THEOREM RepliesStand == Spec => []ShownRepliesStand
<1>1. TelegramInv => ShownRepliesStand
  <2> SUFFICES ASSUME TelegramInv, NEW c \in Telegram!Chats, at = Telegram!Idle, ~strayed[c]
               PROVE  /\ \A m \in shown[c] : Stands(m)
                      /\ \A s \in DOMAIN stories : stories[s].chat = c =>
                           \A i \in DOMAIN stories[s].replies : Read(c, s, i)
    BY DEF ShownRepliesStand, Telegram!ShownRepliesStand, Stands, Read
  <2>1. ~AtWork(c)
    BY DEF AtWork, Bookkeeping, Telegram!Idle
  <2> QED BY <2>1 DEF TelegramInv, InStep, Settled
<1> QED BY <1>1, TelegramInit, TelegramNext, PTL DEF Spec
=============================================================================
