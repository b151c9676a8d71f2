-------------------------- MODULE ChatTurnsProofs --------------------------
(***************************************************************************)
(* Theorems about ChatTurns, for any number of callers, editors, notes and *)
(* messages: one turn at a time, every stored reply was written from       *)
(* exactly the messages stored before it, history is lost only to an       *)
(* answered retry and notes only to an answered turn, replies are numbered *)
(* by rank, and the memory layers are asked about stored replies.          *)
(***************************************************************************)
EXTENDS ChatTurns, SequenceTheorems, FiniteSetTheorems, TLAPS

\* Types and the lock: what the other invariants lean on.
LockInv == TypeOK /\ OneGeneration

\* What the coroutine of caller c may rely on while it is suspended.  Until it writes,
\* the history it loaded is the store; then the store and the saves to come, together,
\* are a transcript whose replies answer their history.
Planned(c) ==
  LET v == local[c] IN
  /\ pc[c] \in {"generate", "again"} =>
       v.hist = store /\ (v.op = "retry" => Retryable(v.hist))
  /\ pc[c] \in {"consume", "clear", "write"} => v.todo # <<>>
  /\ pc[c] = "consume" /\ v.op # "retry" => AnsweredIn(store \o v.todo)
  /\ pc[c] = "consume" /\ v.op = "retry" => AnsweredIn(v.todo)
  /\ pc[c] = "clear" => AnsweredIn(v.todo)
  /\ pc[c] = "write" => AnsweredIn(store \o v.todo)

IInv == LockInv /\ AnsweredIn(store) /\ \A c \in Callers : Planned(c)
-----------------------------------------------------------------------------
(* Sequences of messages.                                                  *)

\* The ids of a sequence of messages are a sequence of numbers.
LEMMA IdsType == ASSUME NEW s \in Seq(Message) PROVE Ids(s) \in Seq(Nat)
<1>1. Len(s) \in Nat /\ \A i \in 1..Len(s) : s[i] \in Message
  OBVIOUS
<1>2. \A i \in 1..Len(s) : s[i].id \in Nat
  BY <1>1 DEF Message
<1>3. Ids(s) \in [1..Len(s) -> Nat]
  BY <1>2 DEF Ids
<1> QED  BY <1>1, <1>3, SeqDef

\* The narrator's messages of a history can be counted.
LEMMA TurnType == ASSUME NEW h \in Seq(Message) PROVE Turn(h) \in Nat \ {0}
<1> DEFINE C == {i \in DOMAIN h : h[i].role = "character"}
<1>1. Len(h) \in Nat /\ DOMAIN h = 1..Len(h)
  OBVIOUS
<1>2. IsFiniteSet(1..Len(h)) /\ C \in SUBSET (1..Len(h))
  BY <1>1, FS_Interval
<1>3. Cardinality(C) \in Nat
  BY <1>2, FS_Subset, FS_CardinalityType
<1> QED  BY <1>3 DEF Turn

\* Dropping the last message of a history.
LEMMA FrontType ==
  ASSUME NEW h \in Seq(Message), h # <<>>
  PROVE  /\ Front(h) \in Seq(Message)
         /\ Len(Front(h)) = Len(h) - 1
         /\ \A i \in 1..(Len(h) - 1) : Front(h)[i] = h[i]
<1>1. Len(h) \in Nat \ {0} /\ \A i \in 1..(Len(h) - 1) : h[i] \in Message
  OBVIOUS
<1> DEFINE n == Len(h) - 1
<1>2. n \in Nat /\ \A i \in 1..n : h[i] \in Message
  BY <1>1
<1> HIDE DEF n
<1>3. /\ SubSeq(h, 1, n) \in Seq(Message)
      /\ Len(SubSeq(h, 1, n)) = n
      /\ \A i \in 1..n : SubSeq(h, 1, n)[i] = h[i]
  BY <1>2, SubSeqProperties
<1> QED  BY <1>3 DEF Front, n

\* AnsweredIn, message by message.
LEMMA AnsweredPointwise ==
  ASSUME NEW s \in Seq(Message)
  PROVE  AnsweredIn(s) <=>
           \A i \in 1..Len(s) : s[i].turn > 0 => s[i].basis = [j \in 1..(i - 1) |-> s[j].id]
<1> SUFFICES ASSUME NEW i \in 1..Len(s)
             PROVE  Ids(SubSeq(s, 1, i - 1)) = [j \in 1..(i - 1) |-> s[j].id]
  BY DEF AnsweredIn
<1>1. Len(s) \in Nat /\ i - 1 \in Nat /\ \A j \in 1..(i - 1) : s[j] \in Message
  OBVIOUS
<1>2. /\ Len(SubSeq(s, 1, i - 1)) = i - 1
      /\ \A j \in 1..(i - 1) : SubSeq(s, 1, i - 1)[j] = s[j]
  BY <1>1, SubSeqProperties
<1> QED  BY <1>2 DEF Ids

\* A transcript still answers itself when its tail is cut off.
LEMMA AnsweredPrefix ==
  ASSUME NEW s \in Seq(Message), NEW t \in Seq(Message), Len(s) <= Len(t),
         \A i \in 1..Len(s) : s[i] = t[i], AnsweredIn(t)
  PROVE  AnsweredIn(s)
<1>1. \A i \in 1..Len(t) : t[i].turn > 0 => t[i].basis = [j \in 1..(i - 1) |-> t[j].id]
  BY AnsweredPointwise
<1> SUFFICES ASSUME NEW i \in 1..Len(s), s[i].turn > 0
             PROVE  s[i].basis = [j \in 1..(i - 1) |-> s[j].id]
  BY AnsweredPointwise
<1>2. i \in 1..Len(t) /\ s[i] = t[i] /\ \A j \in 1..(i - 1) : s[j] = t[j]
  OBVIOUS
<1>3. s[i].basis = [j \in 1..(i - 1) |-> t[j].id]
  BY <1>1, <1>2
<1> QED  BY <1>2, <1>3

\* A transcript goes on with a player's message, or with a reply to all of it.
LEMMA AnsweredAppend ==
  ASSUME NEW s \in Seq(Message), NEW m \in Message, AnsweredIn(s),
         m.turn > 0 => m.basis = Ids(s)
  PROVE  AnsweredIn(Append(s, m))
<1> DEFINE t == Append(s, m)
<1>1. /\ t \in Seq(Message)
      /\ Len(s) \in Nat
      /\ Len(t) = Len(s) + 1
      /\ t[Len(s) + 1] = m
      /\ \A i \in 1..Len(s) : t[i] = s[i]
  OBVIOUS
<1>2. \A i \in 1..Len(s) : s[i].turn > 0 => s[i].basis = [j \in 1..(i - 1) |-> s[j].id]
  BY AnsweredPointwise
<1> HIDE DEF t
<1> SUFFICES ASSUME NEW i \in 1..Len(t), t[i].turn > 0
             PROVE  t[i].basis = [j \in 1..(i - 1) |-> t[j].id]
  BY <1>1, AnsweredPointwise DEF t
<1>3. CASE i \in 1..Len(s)
  <2>1. t[i] = s[i] /\ \A j \in 1..(i - 1) : t[j] = s[j]
    BY <1>1, <1>3
  <2> QED  BY <1>2, <1>3, <2>1
<1>4. CASE i = Len(s) + 1
  <2>1. t[i] = m /\ i - 1 = Len(s)
    BY <1>1, <1>4
  <2>2. m.basis = [j \in 1..Len(s) |-> s[j].id]
    BY <2>1 DEF Ids
  <2> QED  BY <1>1, <2>1, <2>2
<1> QED  BY <1>1, <1>3, <1>4
-----------------------------------------------------------------------------
(* What the handlers compute, and its types.                               *)

LEMMA TrimmedType == ASSUME NEW v \in Locals PROVE Trimmed(v) \in Seq(Message)
<1>1. v.hist \in Seq(Message)
  BY DEF Locals
<1>2. CASE v.hist = <<>>
  <2>1. Len(v.hist) = 0
    BY <1>2
  <2>2. Front(v.hist) = <<>>
    BY <2>1, SubSeqEmpty DEF Front
  <2> QED  BY <1>1, <2>2 DEF Trimmed
<1>3. CASE v.hist # <<>>
  BY <1>1, <1>3, FrontType DEF Trimmed
<1> QED  BY <1>2, <1>3

LEMMA PlainType ==
  ASSUME NEW n \in Nat, NEW role \in {"user", "character"}
  PROVE  Plain(n, role) \in Message /\ Plain(n, role).turn = 0
BY DEF Plain, Message, Finishes

LEMMA ContextType ==
  ASSUME NEW v \in Locals, nextId \in Nat PROVE Context(v) \in Seq(Message)
<1>1. v.hist \in Seq(Message) /\ Plain(nextId, "user") \in Message
  BY PlainType DEF Locals
<1> QED  BY <1>1, TrimmedType DEF Context

LEMMA ReplyType ==
  ASSUME NEW v \in Locals, NEW finish \in Finishes, NEW blank \in BOOLEAN, NEW tries \in 1..2,
         nextId \in Nat
  PROVE  Reply(v, finish, blank, tries) \in Message
<1>1. Turn(Trimmed(v)) \in Nat
  BY TrimmedType, TurnType
<1>2. Ids(Context(v)) \in Seq(Nat)
  BY ContextType, IdsType
<1>3. Resumed(v) \in BOOLEAN
  BY DEF Resumed, ShouldResume
<1> QED  BY <1>1, <1>2, <1>3 DEF Reply, Message

\* A turn ends with at least one save.
LEMMA MessagesType ==
  ASSUME NEW v \in Locals, NEW r \in Message, nextId \in Nat
  PROVE  Messages(v, r) \in Seq(Message) /\ Messages(v, r) # <<>>
<1>1. Trimmed(v) \in Seq(Message) /\ Plain(nextId, "user") \in Message
  BY TrimmedType, PlainType
<1>2. v.op \in {"send", "continue", "retry"}
  BY DEF Locals, Ops
<1>3. CASE v.op = "send"
  BY <1>1, <1>3 DEF Messages
<1>4. CASE v.op = "continue"
  BY <1>4 DEF Messages
<1>5. CASE v.op = "retry"
  <2>1. Messages(v, r) = Append(Trimmed(v), r)
    BY <1>5 DEF Messages
  <2>2. Append(Trimmed(v), r) \in Seq(Message) /\ Len(Append(Trimmed(v), r)) > 0
    BY <1>1
  <2> QED  BY <2>1, <2>2
<1> QED  BY <1>2, <1>3, <1>4, <1>5

\* The saves of a turn continue the history the turn loaded, or, for a retry, rewrite it
\* with the last reply exchanged: either way every reply answers what precedes it.
LEMMA MessagesAnswer ==
  ASSUME NEW v \in Locals, NEW finish \in Finishes, NEW blank \in BOOLEAN, NEW tries \in 1..2,
         nextId \in Nat, AnsweredIn(v.hist), v.op = "retry" => Retryable(v.hist)
  PROVE  LET r == Reply(v, finish, blank, tries) IN
         /\ v.op # "retry" => AnsweredIn(v.hist \o Messages(v, r))
         /\ v.op = "retry" => AnsweredIn(Messages(v, r))
<1> DEFINE r == Reply(v, finish, blank, tries)
           p == Plain(nextId, "user")
<1>1. /\ r \in Message
      /\ r.basis = Ids(Context(v))
      /\ p \in Message
      /\ p.turn = 0
      /\ v.hist \in Seq(Message)
  BY ReplyType, PlainType DEF Reply, Locals
<1>2. v.op \in {"send", "continue", "retry"}
  BY DEF Locals, Ops
<1> HIDE DEF r
<1>3. CASE v.op = "send"
  <2>1. Context(v) = Append(v.hist, p) /\ Messages(v, r) = <<p, r>>
    BY <1>3 DEF Context, Messages
  <2>2. AnsweredIn(Append(v.hist, p))
    BY <1>1, AnsweredAppend
  <2>3. AnsweredIn(Append(Append(v.hist, p), r))
    <3> DEFINE h == Append(v.hist, p)
    <3>1. h \in Seq(Message) /\ r.basis = Ids(h) /\ AnsweredIn(h)
      BY <1>1, <2>1, <2>2
    <3> HIDE DEF h, p
    <3>2. AnsweredIn(Append(h, r))
      BY <1>1, <3>1, AnsweredAppend
    <3> QED  BY <3>2 DEF h
  <2>4. Append(Append(v.hist, p), r) = v.hist \o <<p, r>>
    BY <1>1
  <2> QED  BY <1>3, <2>1, <2>3, <2>4 DEF r
<1>4. CASE v.op = "continue"
  <2>1. Context(v) = v.hist /\ Messages(v, r) = <<r>>
    BY <1>4 DEF Context, Trimmed, Messages
  <2>2. AnsweredIn(Append(v.hist, r))
    BY <1>1, <2>1, AnsweredAppend
  <2>3. Append(v.hist, r) = v.hist \o <<r>>
    BY <1>1
  <2> QED  BY <1>4, <2>1, <2>2, <2>3 DEF r
<1>5. CASE v.op = "retry"
  <2>1. /\ Trimmed(v) = Front(v.hist)
        /\ Context(v) = Front(v.hist)
        /\ Messages(v, r) = Append(Front(v.hist), r)
    BY <1>5 DEF Trimmed, Context, Messages
  <2>2. v.hist # <<>>
    BY <1>1, <1>5 DEF Retryable
  <2>3. /\ Front(v.hist) \in Seq(Message)
        /\ Len(Front(v.hist)) <= Len(v.hist)
        /\ \A i \in 1..Len(Front(v.hist)) : Front(v.hist)[i] = v.hist[i]
    BY <1>1, <2>2, FrontType
  <2>4. AnsweredIn(Front(v.hist))
    BY <1>1, <2>3, AnsweredPrefix
  <2> QED  BY <1>1, <1>5, <2>1, <2>3, <2>4, AnsweredAppend DEF r
<1> QED  BY <1>2, <1>3, <1>4, <1>5
-----------------------------------------------------------------------------
(* The lock.                                                               *)

\* A step of a turn goes on inside the turn, keeping the lock, or ends it and lets go.
LEMMA StepKeepsLockOrReleases ==
  ASSUME NEW c \in Callers, TurnStep(c)
  PROVE  /\ pc[c] # "idle"
         /\ \/ Release(c)
            \/ \E step \in Steps \ {"idle"} : Goto(c, step) /\ generating' = generating
<1>1. ASSUME LoadSession(c) \/ Consume(c) \/ Clear(c) \/ WriteNext(c) PROVE
        /\ pc[c] # "idle"
        /\ \E step \in Steps \ {"idle"} : Goto(c, step) /\ generating' = generating
  BY <1>1 DEF LoadSession, Consume, Clear, WriteNext, Steps
<1>2. ASSUME LoadHistory(c) PROVE
        /\ pc[c] # "idle"
        /\ \/ Release(c)
           \/ \E step \in Steps \ {"idle"} : Goto(c, step) /\ generating' = generating
  BY <1>2 DEF LoadHistory, Steps
<1>3. ASSUME NEW r, Accept(c, r) PROVE
        \/ Release(c)
        \/ \E step \in Steps \ {"idle"} : Goto(c, step) /\ generating' = generating
  BY <1>3 DEF Accept, Steps
<1>4. ASSUME NEW finish \in Finishes, NEW blank \in BOOLEAN,
             Generate(c, finish, blank) \/ GenerateAgain(c, finish, blank) PROVE
        /\ pc[c] # "idle"
        /\ \/ Release(c)
           \/ \E step \in Steps \ {"idle"} : Goto(c, step) /\ generating' = generating
  <2>1. CASE GenerateAgain(c, finish, blank)
    BY <1>3, <2>1 DEF GenerateAgain
  <2>2. CASE Generate(c, finish, blank)
    <3>1. CASE Recovers(finish)
      BY <2>2, <3>1 DEF Generate, Steps
    <3>2. CASE ~Recovers(finish)
      BY <1>3, <2>2, <3>2 DEF Generate
    <3> QED  BY <3>1, <3>2
  <2> QED  BY <1>4, <2>1, <2>2
<1>5. ASSUME Finish(c) \/ Fail(c) PROVE pc[c] # "idle" /\ Release(c)
  BY <1>5 DEF Finish, Fail
<1> QED  BY <1>1, <1>2, <1>4, <1>5 DEF TurnStep

\* One generation at a time, whatever a step does.
LEMMA LockStep == LockInv /\ [Next]_vars => OneGeneration'
<1> SUFFICES ASSUME LockInv, [Next]_vars PROVE OneGeneration'
  OBVIOUS
<1> USE DEF OneGeneration
<1>0. OneGeneration /\ pc \in [Callers -> Steps]
  BY DEF LockInv, TypeOK
<1>1. ASSUME NEW c \in Callers, NEW o \in Ops, Begin(c, o) PROVE OneGeneration'
  BY <1>0, <1>1 DEF Begin, Goto
<1>2. ASSUME NEW c \in Callers, TurnStep(c) PROVE OneGeneration'
  <2>1. pc[c] # "idle" /\ generating
    BY <1>0, <1>2, StepKeepsLockOrReleases
  <2>2. \A d \in Callers : d # c => pc[d] = "idle"
    BY <1>0, <2>1
  <2>3. CASE Release(c)
    BY <1>0, <2>2, <2>3 DEF Release, Goto
  <2>4. CASE \E step \in Steps \ {"idle"} : Goto(c, step) /\ generating' = generating
    BY <1>0, <2>1, <2>2, <2>4 DEF Goto
  <2> QED  BY <1>2, <2>3, <2>4, StepKeepsLockOrReleases
<1>3. ASSUME NEW e \in Editors, EditorStep(e) PROVE OneGeneration'
  BY <1>0, <1>3 DEF EditorStep, ReadNotes, SaveNote
<1>4. ASSUME Crash PROVE OneGeneration'
  BY <1>4 DEF Crash
<1>5. CASE UNCHANGED vars
  BY <1>0, <1>5 DEF vars
<1> QED  BY <1>1, <1>2, <1>3, <1>4, <1>5 DEF Next
-----------------------------------------------------------------------------
(* Types.                                                                  *)

LEMMA NoLocalsType == NoLocals \in Locals
<1>1. Opening \in Message
  BY PlainType DEF Opening
<1> QED  BY <1>1 DEF NoLocals, Locals, Ops

LEMMA ReleaseType ==
  ASSUME TypeOK, NEW c \in Callers, Release(c)
  PROVE  generating' \in BOOLEAN /\ pc' \in [Callers -> Steps] /\ local' \in [Callers -> Locals]
BY NoLocalsType DEF TypeOK, Release, Goto, Steps

\* Accepting or rejecting a reply of the right type.
LEMMA AcceptType ==
  ASSUME TypeOK, NEW c \in Callers, NEW r \in Message, Accept(c, r)
  PROVE  /\ generating' \in BOOLEAN
         /\ pc' \in [Callers -> Steps]
         /\ local' \in [Callers -> Locals]
         /\ nextId' \in Nat
<1>1. CASE Usable(r)
  <2> DEFINE v == local[c]
             w == [v EXCEPT !.reply = r, !.todo = Messages(v, r)]
  <2>1. v \in Locals /\ Messages(v, r) \in Seq(Message)
    BY MessagesType DEF TypeOK
  <2>2. w \in Locals
    BY <2>1 DEF Locals
  <2>3. local' = [local EXCEPT ![c] = w]
    BY <1>1 DEF Accept
  <2> HIDE DEF w
  <2>4. local' \in [Callers -> Locals]
    BY <2>2, <2>3 DEF TypeOK
  <2> QED  BY <1>1, <2>4 DEF Accept, Goto, TypeOK, Steps
<1>2. CASE ~Usable(r)
  BY <1>2, ReleaseType DEF Accept, TypeOK
<1> QED  BY <1>1, <1>2

\* A pending write has a message to write (Planned says so), or its step could not be typed.
LEMMA TypeStep ==
  ASSUME TypeOK, \A c \in Callers : pc[c] = "write" => local[c].todo # <<>>, [Next]_vars
  PROVE  TypeOK'
<1>1. ASSUME NEW c \in Callers, NEW o \in Ops, Begin(c, o) PROVE TypeOK'
  <2>1. [local[c] EXCEPT !.op = o] \in Locals
    BY DEF TypeOK, Locals
  <2>2. local' = [local EXCEPT ![c] = [local[c] EXCEPT !.op = o]]
    BY <1>1 DEF Begin
  <2>3. local' \in [Callers -> Locals]
    BY <2>1, <2>2 DEF TypeOK
  <2> QED  BY <1>1, <2>3 DEF TypeOK, Begin, Goto, Steps
<1>2. ASSUME NEW c \in Callers, LoadSession(c) PROVE TypeOK'
  <2>1. [local[c] EXCEPT !.notes = notes] \in Locals
    BY DEF TypeOK, Locals
  <2>2. local' = [local EXCEPT ![c] = [local[c] EXCEPT !.notes = notes]]
    BY <1>2 DEF LoadSession
  <2>3. local' \in [Callers -> Locals]
    BY <2>1, <2>2 DEF TypeOK
  <2> QED  BY <1>2, <2>3 DEF TypeOK, LoadSession, Goto, Steps
<1>3. ASSUME NEW c \in Callers, LoadHistory(c) PROVE TypeOK'
  <2>1. CASE local[c].op = "retry" /\ ~Retryable(store)
    BY <1>3, <2>1, ReleaseType DEF LoadHistory, TypeOK
  <2>2. CASE ~(local[c].op = "retry" /\ ~Retryable(store))
    <3>1. [local[c] EXCEPT !.hist = store] \in Locals
      BY DEF TypeOK, Locals
    <3>2. local' = [local EXCEPT ![c] = [local[c] EXCEPT !.hist = store]]
      BY <1>3, <2>2 DEF LoadHistory
    <3>3. local' \in [Callers -> Locals]
      BY <3>1, <3>2 DEF TypeOK
    <3> QED  BY <1>3, <2>2, <3>3 DEF TypeOK, LoadHistory, Goto, Steps
  <2> QED  BY <2>1, <2>2
<1>4. ASSUME NEW c \in Callers, NEW finish \in Finishes, NEW blank \in BOOLEAN,
             Generate(c, finish, blank)
      PROVE  TypeOK'
  <2> DEFINE r == Reply(local[c], finish, blank, 1)
  <2>1. local[c] \in Locals /\ r \in Message
    BY ReplyType DEF TypeOK
  <2> HIDE DEF r
  <2>2. CASE Recovers(finish)
    <3>1. [local[c] EXCEPT !.reply = r] \in Locals
      BY <2>1 DEF Locals
    <3>2. local' = [local EXCEPT ![c] = [local[c] EXCEPT !.reply = r]]
      BY <1>4, <2>2 DEF Generate, r
    <3>3. local' \in [Callers -> Locals]
      BY <3>1, <3>2 DEF TypeOK
    <3> QED  BY <1>4, <2>2, <3>3 DEF TypeOK, Generate, Goto, Steps
  <2>3. CASE ~Recovers(finish)
    <3>1. Accept(c, r) /\ UNCHANGED <<store, notes, editing, asked>>
      BY <1>4, <2>3 DEF Generate, r
    <3> QED  BY <2>1, <3>1, AcceptType DEF TypeOK
  <2> QED  BY <2>2, <2>3
<1>5. ASSUME NEW c \in Callers, NEW finish \in Finishes, NEW blank \in BOOLEAN,
             GenerateAgain(c, finish, blank)
      PROVE  TypeOK'
  <2> DEFINE both == BlankTogether(local[c], blank)
             r == Reply(local[c], finish, both, 2)
  <2>1. local[c] \in Locals /\ local[c].reply.blank \in BOOLEAN
    BY DEF TypeOK, Locals, Message
  <2>2. both \in BOOLEAN
    BY <2>1 DEF BlankTogether
  <2> HIDE DEF both
  <2>3. r \in Message
    BY <2>1, <2>2, ReplyType DEF TypeOK
  <2>4. Accept(c, r) /\ UNCHANGED <<store, notes, editing, asked>>
    BY <1>5 DEF GenerateAgain, both
  <2> QED  BY <2>3, <2>4, AcceptType DEF TypeOK
<1>6. ASSUME NEW c \in Callers, Consume(c) \/ Clear(c) PROVE TypeOK'
  <2>1. \A step \in {"clear", "write"} : [pc EXCEPT ![c] = step] \in [Callers -> Steps]
    BY DEF TypeOK, Steps
  <2>2. pc' \in [Callers -> Steps]
    BY <1>6, <2>1 DEF Consume, Clear, Goto
  <2>3. notes' \in SUBSET Notes
    BY <1>6 DEF Consume, Clear, TypeOK
  <2>4. store' \in Seq(Message)
    BY <1>6, EmptySeq DEF Consume, Clear, TypeOK
  <2>5. UNCHANGED <<generating, local, editing, asked, nextId>>
    BY <1>6 DEF Consume, Clear
  <2> QED  BY <2>2, <2>3, <2>4, <2>5 DEF TypeOK
<1>7. ASSUME NEW c \in Callers, WriteNext(c) PROVE TypeOK'
  <2>1. local[c] \in Locals /\ local[c].todo \in Seq(Message)
    BY DEF TypeOK, Locals
  <2>2. Head(local[c].todo) \in Message /\ Tail(local[c].todo) \in Seq(Message)
    BY <1>7, <2>1, HeadTailProperties DEF WriteNext
  <2>3. [local[c] EXCEPT !.todo = Tail(local[c].todo)] \in Locals
    BY <2>1, <2>2 DEF Locals
  <2>4. local' = [local EXCEPT ![c] = [local[c] EXCEPT !.todo = Tail(local[c].todo)]]
    BY <1>7 DEF WriteNext
  <2>5. local' \in [Callers -> Locals]
    BY <2>3, <2>4 DEF TypeOK
  <2>6. store' \in Seq(Message)
    BY <1>7, <2>2 DEF WriteNext, TypeOK
  <2> QED  BY <1>7, <2>5, <2>6 DEF TypeOK, WriteNext, Goto, Steps
<1>8. ASSUME NEW c \in Callers, Finish(c) \/ Fail(c) PROVE TypeOK'
  <2>1. Release(c) /\ UNCHANGED <<store, notes, editing, nextId>>
    BY <1>8 DEF Finish, Fail
  <2>2. asked' \in Nat
    <3>1. local[c].reply.turn \in Nat
      BY DEF TypeOK, Locals, Message
    <3> QED  BY <1>8, <3>1 DEF Finish, Fail, TypeOK
  <2> QED  BY <2>1, <2>2, ReleaseType DEF TypeOK
<1>9. ASSUME NEW e \in Editors, EditorStep(e) PROVE TypeOK'
  <2> DEFINE Draft == [open : BOOLEAN, notes : SUBSET Notes]
  <2>1. UNCHANGED <<store, generating, pc, local, asked, nextId>>
    BY <1>9 DEF EditorStep, ReadNotes, SaveNote
  <2>2. editing[e].notes \in SUBSET Notes /\ NoDraft \in Draft /\ [open |-> TRUE, notes |-> notes] \in Draft
    BY DEF TypeOK, NoDraft
  <2>3. notes' \in SUBSET Notes
    BY <1>9, <2>2 DEF EditorStep, ReadNotes, SaveNote, TypeOK
  <2>4. \A d \in Draft : [editing EXCEPT ![e] = d] \in [Editors -> Draft]
    BY DEF TypeOK
  <2>5. editing' \in [Editors -> Draft]
    BY <1>9, <2>2, <2>4 DEF EditorStep, ReadNotes, SaveNote
  <2> QED  BY <2>1, <2>3, <2>5 DEF TypeOK
<1>10. ASSUME Crash PROVE TypeOK'
  <2>1. pc' \in [Callers -> Steps] /\ local' \in [Callers -> Locals]
    BY <1>10, NoLocalsType DEF Crash, Steps
  <2>2. editing' \in [Editors -> [open : BOOLEAN, notes : SUBSET Notes]]
    BY <1>10 DEF Crash, NoDraft
  <2> QED  BY <1>10, <2>1, <2>2 DEF Crash, TypeOK
<1>11. CASE UNCHANGED vars
  BY <1>11 DEF vars, TypeOK
<1> QED
  BY <1>1, <1>2, <1>3, <1>4, <1>5, <1>6, <1>7, <1>8, <1>9, <1>10, <1>11 DEF Next, TurnStep
-----------------------------------------------------------------------------
(* The transcript.                                                         *)

\* A turn that ends, or a caller that has none, plans nothing.
LEMMA IdlePlansNothing ==
  ASSUME NEW d \in Callers, pc'[d] = "idle" PROVE Planned(d)'
BY DEF Planned

\* A final reply turns the loaded history into a plan of saves that keeps the transcript
\* answered.
LEMMA AcceptPlans ==
  ASSUME TypeOK, NEW c \in Callers, NEW finish \in Finishes, NEW blank \in BOOLEAN,
         NEW tries \in 1..2, Accept(c, Reply(local[c], finish, blank, tries)),
         store' = store, AnsweredIn(store), local[c].hist = store,
         local[c].op = "retry" => Retryable(local[c].hist)
  PROVE  Planned(c)'
<1> DEFINE v == local[c]
           r == Reply(v, finish, blank, tries)
<1>1. v \in Locals /\ r \in Message
  BY ReplyType DEF TypeOK
<1>2. CASE ~Usable(r)
  <2>1. pc' = [pc EXCEPT ![c] = "idle"]
    BY <1>2 DEF Accept, Release, Goto
  <2> QED  BY <2>1, IdlePlansNothing DEF TypeOK
<1>3. CASE Usable(r)
  <2>1. /\ local' = [local EXCEPT ![c].reply = r, ![c].todo = Messages(v, r)]
        /\ pc' = [pc EXCEPT ![c] = "consume"]
    BY <1>3 DEF Accept, Goto
  <2>2. /\ pc'[c] = "consume"
        /\ local'[c].todo = Messages(v, r)
        /\ local'[c].op = v.op
    BY <1>1, <2>1 DEF TypeOK, Locals
  <2>3. /\ Messages(v, r) # <<>>
        /\ v.op # "retry" => AnsweredIn(store \o Messages(v, r))
        /\ v.op = "retry" => AnsweredIn(Messages(v, r))
    BY <1>1, MessagesType, MessagesAnswer DEF TypeOK
  <2> QED  BY <2>2, <2>3 DEF Planned
<1> QED  BY <1>2, <1>3

\* A save moves a message from the plan to the store; together they stay what they were.
LEMMA WriteMoves ==
  ASSUME NEW s \in Seq(Message), NEW todo \in Seq(Message), todo # <<>>
  PROVE  /\ Append(s, Head(todo)) \o Tail(todo) = s \o todo
         /\ Len(todo) # 1 => Tail(todo) # <<>>
<1> DEFINE t == Append(s, Head(todo))
           a == t \o Tail(todo)
           b == s \o todo
<1>1. /\ Tail(todo) \in Seq(Message)
      /\ Len(Tail(todo)) = Len(todo) - 1
      /\ Len(todo) \in Nat /\ Len(s) \in Nat
      /\ Head(todo) = todo[1]
      /\ t \in Seq(Message)
      /\ Len(t) = Len(s) + 1
  BY HeadTailProperties
<1>2. a \in Seq(Message) /\ b \in Seq(Message)
  BY <1>1, ConcatProperties
<1>3. Len(a) = Len(b)
  <2>1. Len(a) = Len(t) + Len(Tail(todo)) /\ Len(b) = Len(s) + Len(todo)
    BY <1>1, ConcatProperties
  <2> HIDE DEF a, b, t
  <2> QED  BY <1>1, <2>1
<1>4. \A i \in 1..Len(b) : a[i] = b[i]
  BY <1>1
<1>5. a = b
  <2> HIDE DEF a, b
  <2> QED  BY <1>2, <1>3, <1>4, SeqEqual
<1> HIDE DEF a, b, t
<1>6. Len(todo) # 1 => Tail(todo) # <<>>
  <2>1. ASSUME Tail(todo) = <<>> PROVE Len(todo) = 1
    <3>1. Len(Tail(todo)) = 0
      BY <2>1, EmptySeq, Zenon
    <3>2. Len(Tail(todo)) = Len(todo) - 1 /\ Len(todo) \in Nat
      BY <1>1
    <3> QED  BY <3>1, <3>2
  <2> QED  BY <2>1
<1> QED  BY <1>5, <1>6 DEF a, b, t

\* What one step of a turn does to its own plan and to the transcript.
LEMMA PlanStep ==
  ASSUME TypeOK, AnsweredIn(store), NEW c \in Callers, Planned(c), TurnStep(c)
  PROVE  AnsweredIn(store)' /\ Planned(c)'
<1>0. local[c] \in Locals /\ pc[c] \in Steps
  BY DEF TypeOK
<1>1. ASSUME LoadSession(c) PROVE AnsweredIn(store)' /\ Planned(c)'
  <2>1. pc'[c] = "history" /\ store' = store
    BY <1>1 DEF LoadSession, Goto, TypeOK
  <2> QED  BY <2>1 DEF Planned
<1>2. ASSUME LoadHistory(c) PROVE AnsweredIn(store)' /\ Planned(c)'
  <2>1. CASE local[c].op = "retry" /\ ~Retryable(store)
    <3>1. pc'[c] = "idle" /\ store' = store
      BY <1>2, <2>1 DEF LoadHistory, Release, Goto, TypeOK
    <3> QED  BY <3>1, IdlePlansNothing
  <2>2. CASE ~(local[c].op = "retry" /\ ~Retryable(store))
    <3>1. /\ pc'[c] = "generate"
          /\ local'[c].hist = store
          /\ local'[c].op = local[c].op
          /\ store' = store
      BY <1>0, <1>2, <2>2 DEF LoadHistory, Goto, TypeOK, Locals
    <3> QED  BY <2>2, <3>1 DEF Planned
  <2> QED  BY <2>1, <2>2
<1>3. ASSUME NEW finish \in Finishes, NEW blank \in BOOLEAN, Generate(c, finish, blank)
      PROVE  AnsweredIn(store)' /\ Planned(c)'
  <2>1. /\ store' = store
        /\ local[c].hist = store
        /\ local[c].op = "retry" => Retryable(local[c].hist)
    BY <1>3 DEF Generate, Planned
  <2>2. CASE Recovers(finish)
    <3>1. /\ pc'[c] = "again"
          /\ local'[c].hist = local[c].hist
          /\ local'[c].op = local[c].op
      BY <1>0, <1>3, <2>2 DEF Generate, Goto, TypeOK, Locals
    <3> QED  BY <2>1, <3>1 DEF Planned
  <2>3. CASE ~Recovers(finish)
    BY <1>3, <2>1, <2>3, AcceptPlans DEF Generate
  <2> QED  BY <2>2, <2>3
<1>4. ASSUME NEW finish \in Finishes, NEW blank \in BOOLEAN, GenerateAgain(c, finish, blank)
      PROVE  AnsweredIn(store)' /\ Planned(c)'
  <2> DEFINE both == BlankTogether(local[c], blank)
  <2>1. /\ store' = store
        /\ local[c].hist = store
        /\ local[c].op = "retry" => Retryable(local[c].hist)
    BY <1>4 DEF GenerateAgain, Planned
  <2>2. both \in BOOLEAN
    BY <1>0 DEF BlankTogether, Locals, Message
  <2> HIDE DEF both
  <2>3. Accept(c, Reply(local[c], finish, both, 2))
    BY <1>4 DEF GenerateAgain, both
  <2> QED  BY <2>1, <2>2, <2>3, AcceptPlans
<1>5. ASSUME Consume(c) PROVE AnsweredIn(store)' /\ Planned(c)'
  <2>1. /\ pc[c] = "consume"
        /\ pc'[c] = IF local[c].op = "retry" THEN "clear" ELSE "write"
        /\ local' = local
        /\ store' = store
    BY <1>5 DEF Consume, Goto, TypeOK
  <2> QED  BY <2>1 DEF Planned
<1>6. ASSUME Clear(c) PROVE AnsweredIn(store)' /\ Planned(c)'
  <2>1. /\ pc[c] = "clear"
        /\ pc'[c] = "write"
        /\ local' = local
        /\ store' = <<>>
    BY <1>6 DEF Clear, Goto, TypeOK
  <2>2. local[c].todo \in Seq(Message)
    BY <1>0 DEF Locals
  <2>3. store' \o local'[c].todo = local[c].todo
    BY <2>1, <2>2, ConcatEmptySeq
  <2>4. AnsweredIn(store')
    BY <2>1 DEF AnsweredIn
  <2> QED  BY <2>1, <2>3, <2>4 DEF Planned
<1>7. ASSUME WriteNext(c) PROVE AnsweredIn(store)' /\ Planned(c)'
  <2> DEFINE todo == local[c].todo
  <2>1. /\ pc[c] = "write"
        /\ todo \in Seq(Message)
        /\ todo # <<>>
        /\ store \in Seq(Message)
        /\ AnsweredIn(store \o todo)
    BY <1>0, <1>7 DEF WriteNext, Planned, Locals, TypeOK
  <2>2. /\ store' = Append(store, Head(todo))
        /\ local'[c].todo = Tail(todo)
        /\ pc'[c] = IF Len(todo) = 1 THEN "finish" ELSE "write"
    BY <1>0, <1>7 DEF WriteNext, Goto, TypeOK, Locals
  <2> HIDE DEF todo
  <2>3. /\ store' \in Seq(Message)
        /\ Len(store') = Len(store) + 1
        /\ \A i \in 1..Len(store') : store'[i] = (store \o todo)[i]
    BY <2>1, <2>2
  <2>4. store \o todo \in Seq(Message) /\ Len(store') <= Len(store \o todo)
    BY <2>1, <2>3
  <2>5. AnsweredIn(store')
    BY <2>1, <2>3, <2>4, AnsweredPrefix
  <2>6. store' \o Tail(todo) = store \o todo /\ (Len(todo) # 1 => Tail(todo) # <<>>)
    BY <2>1, <2>2, WriteMoves
  <2> QED  BY <2>1, <2>2, <2>5, <2>6 DEF Planned
<1>8. ASSUME Finish(c) \/ Fail(c) PROVE AnsweredIn(store)' /\ Planned(c)'
  <2>1. pc'[c] = "idle" /\ store' = store
    BY <1>8 DEF Finish, Fail, Release, Goto, TypeOK
  <2> QED  BY <2>1, IdlePlansNothing
<1> QED  BY <1>1, <1>2, <1>3, <1>4, <1>5, <1>6, <1>7, <1>8 DEF TurnStep

LEMMA InitIInv == Init => IInv
<1> SUFFICES ASSUME Init PROVE IInv
  OBVIOUS
<1>1. store \in Seq(Message) /\ Len(store) <= 1 /\ \A i \in 1..Len(store) : store[i].turn = 0
  <2>1. Opening \in Message /\ Opening.turn = 0
    BY PlainType DEF Opening
  <2>2. CASE store = <<>>
    BY <2>2
  <2>3. CASE store = <<Opening>>
    BY <2>1, <2>3
  <2> QED  BY <2>2, <2>3 DEF Init
<1>2. TypeOK
  <2>1. pc \in [Callers -> Steps] /\ local \in [Callers -> Locals]
    BY NoLocalsType DEF Init, Steps
  <2>2. editing \in [Editors -> [open : BOOLEAN, notes : SUBSET Notes]]
    BY DEF Init, NoDraft
  <2> QED  BY <1>1, <2>1, <2>2 DEF Init, TypeOK
<1>3. OneGeneration
  BY DEF Init, OneGeneration
<1>4. AnsweredIn(store)
  BY <1>1 DEF AnsweredIn
<1>5. ASSUME NEW c \in Callers PROVE Planned(c)
  BY DEF Init, Planned
<1> QED  BY <1>2, <1>3, <1>4, <1>5 DEF IInv, LockInv

\* Only the caller that holds the lock has a plan, and only its steps write the store.
LEMMA TranscriptStep ==
  IInv /\ [Next]_vars => AnsweredIn(store)' /\ \A d \in Callers : Planned(d)'
<1> SUFFICES ASSUME IInv, [Next]_vars
             PROVE  AnsweredIn(store)' /\ \A d \in Callers : Planned(d)'
  OBVIOUS
<1>0. /\ TypeOK
      /\ OneGeneration
      /\ AnsweredIn(store)
      /\ \A d \in Callers : Planned(d)
  BY DEF IInv, LockInv
<1>1. ASSUME NEW c \in Callers, NEW o \in Ops, Begin(c, o)
      PROVE  AnsweredIn(store)' /\ \A d \in Callers : Planned(d)'
  <2>1. /\ store' = store
        /\ \A d \in Callers : d # c => pc[d] = "idle" /\ pc'[d] = "idle"
        /\ pc'[c] = "session"
    BY <1>0, <1>1 DEF OneGeneration, Begin, Goto, TypeOK
  <2> QED  BY <1>0, <2>1, IdlePlansNothing DEF Planned
<1>2. ASSUME NEW c \in Callers, TurnStep(c)
      PROVE  AnsweredIn(store)' /\ \A d \in Callers : Planned(d)'
  <2>1. \A d \in Callers : d # c => pc[d] = "idle"
    BY <1>0, <1>2, StepKeepsLockOrReleases DEF OneGeneration
  <2>2. \E step : pc' = [pc EXCEPT ![c] = step]
    BY <1>2, StepKeepsLockOrReleases DEF Release, Goto
  <2>3. \A d \in Callers : d # c => pc'[d] = "idle"
    BY <1>0, <2>1, <2>2 DEF TypeOK
  <2>4. \A d \in Callers : d # c => Planned(d)'
    BY <2>3, IdlePlansNothing
  <2>5. AnsweredIn(store)' /\ Planned(c)'
    BY <1>0, <1>2, PlanStep
  <2> QED  BY <2>4, <2>5
<1>3. ASSUME (\E e \in Editors : EditorStep(e)) \/ UNCHANGED vars
      PROVE  AnsweredIn(store)' /\ \A d \in Callers : Planned(d)'
  <2>1. UNCHANGED <<store, pc, local>>
    BY <1>3 DEF EditorStep, ReadNotes, SaveNote, vars
  <2> QED  BY <1>0, <2>1 DEF Planned
<1>4. ASSUME Crash
      PROVE  AnsweredIn(store)' /\ \A d \in Callers : Planned(d)'
  <2>1. store' = store /\ \A d \in Callers : pc'[d] = "idle"
    BY <1>4 DEF Crash
  <2> QED  BY <1>0, <2>1, IdlePlansNothing
<1> QED  BY <1>1, <1>2, <1>3, <1>4 DEF Next

LEMMA Inductive == Spec => []IInv
<1>1. IInv /\ [Next]_vars => IInv'
  BY TypeStep, LockStep, TranscriptStep DEF IInv, LockInv, Planned
<1> QED  BY <1>1, InitIInv, PTL DEF Spec
-----------------------------------------------------------------------------
\* Type correctness of the turn handlers' state.
THEOREM TypeCorrect == Spec => []TypeOK
<1>1. IInv => TypeOK
  BY DEF IInv, LockInv
<1> QED  BY <1>1, Inductive, PTL

\* However many callers there are, at most one is inside a turn of the session, and the
\* session counts as generating exactly then (_one_generation_per_session).
THEOREM OneGenerationPerSession == Spec => []OneGeneration
<1>1. IInv => OneGeneration
  BY DEF IInv, LockInv
<1> QED  BY <1>1, Inductive, PTL

\* Every narrator reply ever stored was written from exactly the messages stored before
\* it, through concurrent callers, retries, failures and crashes.
THEOREM RepliesAnswerTheirHistory == Spec => []ReplyAnswersItsHistory
<1>1. IInv => ReplyAnswersItsHistory
  BY DEF IInv, ReplyAnswersItsHistory
<1> QED  BY <1>1, Inductive, PTL
-----------------------------------------------------------------------------
(* What a turn may take away and what its reply carries.                   *)


\* TurnsNumbered, of any sequence of messages.
NumberedIn(s) ==
  \A i \in 1..Len(s) : s[i].turn > 0 =>
    s[i].turn = Cardinality({j \in 1..i : s[j].role = "character"})

\* The saves to come keep the numbering, as in Planned.
NumberingPlanned(c) ==
  LET v == local[c] IN
  /\ pc[c] = "consume" /\ v.op # "retry" => NumberedIn(store \o v.todo)
  /\ pc[c] = "consume" /\ v.op = "retry" => NumberedIn(v.todo)
  /\ pc[c] = "clear" => NumberedIn(v.todo)
  /\ pc[c] = "write" => NumberedIn(store \o v.todo)

\* From the moment a coroutine changes anything, it holds a usable reply, which is the last
\* message it will write.
ReplyHeld(c) ==
  LET v == local[c] IN
  /\ pc[c] \in {"consume", "clear", "write"} => ~v.reply.blank /\ Last(v.todo).turn = v.reply.turn
  /\ pc[c] = "clear" => v.op = "retry"
  /\ pc[c] = "finish" => store # <<>> /\ Last(store).turn = v.reply.turn

Carries(c) == NumberingPlanned(c) /\ ReplyHeld(c)

RInv == IInv /\ NumberedIn(store) /\ \A c \in Callers : Carries(c)
-----------------------------------------------------------------------------
(* Numbering sequences of messages.                                        *)

\* Numbering is about what precedes a message, so a tail can be cut off.
LEMMA NumberedPrefix ==
  ASSUME NEW s \in Seq(Message), NEW t \in Seq(Message), Len(s) <= Len(t),
         \A i \in 1..Len(s) : s[i] = t[i], NumberedIn(t)
  PROVE  NumberedIn(s)
<1> SUFFICES ASSUME NEW i \in 1..Len(s), s[i].turn > 0
             PROVE  s[i].turn = Cardinality({j \in 1..i : s[j].role = "character"})
  BY DEF NumberedIn
<1>1. i \in 1..Len(t) /\ s[i] = t[i] /\ \A j \in 1..i : s[j] = t[j]
  OBVIOUS
<1>2. {j \in 1..i : s[j].role = "character"} = {j \in 1..i : t[j].role = "character"}
  BY <1>1
<1> QED BY <1>1, <1>2 DEF NumberedIn

\* A history goes on with a player's message, or with a reply numbered Turn.
LEMMA NumberedAppend ==
  ASSUME NEW s \in Seq(Message), NEW m \in Message, NumberedIn(s),
         m.turn > 0 => m.role = "character" /\ m.turn = Turn(s)
  PROVE  NumberedIn(Append(s, m))
<1> DEFINE t == Append(s, m)
           n == Len(s)
           C == {j \in 1..n : s[j].role = "character"}
<1>1. /\ t \in Seq(Message) /\ n \in Nat /\ Len(t) = n + 1 /\ t[n + 1] = m
      /\ \A i \in 1..n : t[i] = s[i]
  OBVIOUS
<1> SUFFICES ASSUME NEW i \in 1..Len(t), t[i].turn > 0
             PROVE  t[i].turn = Cardinality({j \in 1..i : t[j].role = "character"})
  BY DEF NumberedIn
<1>2. CASE i \in 1..n
  <2>1. t[i] = s[i] /\ \A j \in 1..i : t[j] = s[j]
    BY <1>1, <1>2
  <2>2. {j \in 1..i : t[j].role = "character"} = {j \in 1..i : s[j].role = "character"}
    BY <2>1
  <2> HIDE DEF t
  <2> QED BY <1>2, <2>1, <2>2 DEF NumberedIn
<1>3. CASE i = n + 1
  <2>1. m.role = "character" /\ m.turn = Turn(s)
    BY <1>1, <1>3
  <2>2. {j \in 1..i : t[j].role = "character"} = C \cup {n + 1}
    BY <1>1, <1>3, <2>1
  <2>3. IsFiniteSet(C) /\ n + 1 \notin C
    <3>1. C \subseteq 1..n /\ n + 1 \notin 1..n
      BY <1>1
    <3>2. IsFiniteSet(1..n)
      BY <1>1, FS_Interval
    <3> HIDE DEF C
    <3> QED BY <3>1, <3>2, FS_Subset
  <2>4. Cardinality(C \cup {n + 1}) = Cardinality(C) + 1
    BY <2>3, FS_AddElement
  <2>5. Turn(s) = Cardinality(C) + 1
    <3>1. {j \in DOMAIN s : s[j].role = "character"} = C
      OBVIOUS
    <3> QED BY <3>1 DEF Turn
  <2> HIDE DEF C
  <2> QED BY <1>1, <1>3, <2>1, <2>2, <2>4, <2>5
<1>4. i \in 1..n \/ i = n + 1
  BY <1>1
<1> QED BY <1>2, <1>3, <1>4

\* The player's message does not count.
LEMMA TurnOfPlayer ==
  ASSUME NEW s \in Seq(Message), NEW m \in Message, m.role = "user"
  PROVE  Turn(Append(s, m)) = Turn(s)
<1>1. /\ DOMAIN Append(s, m) = 1..(Len(s) + 1) /\ DOMAIN s = 1..Len(s) /\ Len(s) \in Nat
      /\ \A i \in 1..Len(s) : Append(s, m)[i] = s[i]
      /\ Append(s, m)[Len(s) + 1].role # "character"
  OBVIOUS
<1>2. {i \in DOMAIN Append(s, m) : Append(s, m)[i].role = "character"}
        = {i \in DOMAIN s : s[i].role = "character"}
  BY <1>1
<1> QED BY <1>2 DEF Turn

\* The saves of a turn continue the numbering of the history it loaded, or rewrite it.
LEMMA MessagesNumbered ==
  ASSUME NEW v \in Locals, NEW finish \in Finishes, NEW blank \in BOOLEAN, NEW tries \in 1..2,
         nextId \in Nat, NumberedIn(v.hist), v.op = "retry" => Retryable(v.hist)
  PROVE  LET r == Reply(v, finish, blank, tries) IN
         /\ v.op # "retry" => NumberedIn(v.hist \o Messages(v, r))
         /\ v.op = "retry" => NumberedIn(Messages(v, r))
         /\ Last(Messages(v, r)) = r
<1> DEFINE r == Reply(v, finish, blank, tries)
           p == Plain(nextId, "user")
<1>1. /\ r \in Message
      /\ r.role = "character"
      /\ r.turn = Turn(Trimmed(v))
      /\ p \in Message
      /\ p.turn = 0
      /\ p.role = "user"
      /\ v.hist \in Seq(Message)
  BY ReplyType, PlainType DEF Reply, Plain, Locals
<1>2. v.op \in {"send", "continue", "retry"}
  BY DEF Locals, Ops
<1> HIDE DEF r, p
<1>3. CASE v.op = "send"
  <2> DEFINE h == Append(v.hist, p)
  <2>1. Trimmed(v) = v.hist /\ Messages(v, r) = <<p, r>>
    BY <1>3 DEF Trimmed, Messages, p
  <2>2. NumberedIn(h) /\ h \in Seq(Message) /\ r.turn = Turn(h)
    BY <1>1, <2>1, NumberedAppend, TurnOfPlayer
  <2>3. NumberedIn(Append(h, r))
    <3> HIDE DEF h
    <3> QED BY <1>1, <2>2, NumberedAppend
  <2>4. Append(h, r) = v.hist \o <<p, r>>
    BY <1>1
  <2>5. Last(<<p, r>>) = r
    BY DEF Last
  <2> QED BY <1>3, <2>1, <2>3, <2>4, <2>5 DEF r
<1>4. CASE v.op = "continue"
  <2>1. Trimmed(v) = v.hist /\ Messages(v, r) = <<r>>
    BY <1>4 DEF Trimmed, Messages
  <2>2. NumberedIn(Append(v.hist, r))
    BY <1>1, <2>1, NumberedAppend
  <2>3. Append(v.hist, r) = v.hist \o <<r>>
    BY <1>1
  <2>4. Last(<<r>>) = r
    BY DEF Last
  <2> QED BY <1>4, <2>1, <2>2, <2>3, <2>4 DEF r
<1>5. CASE v.op = "retry"
  <2> DEFINE f == Front(v.hist)
  <2>1. Trimmed(v) = f /\ Messages(v, r) = Append(f, r)
    BY <1>5 DEF Trimmed, Messages
  <2>2. v.hist # <<>>
    BY <1>1, <1>5 DEF Retryable
  <2>3. f \in Seq(Message) /\ Len(f) <= Len(v.hist) /\ \A i \in 1..Len(f) : f[i] = v.hist[i]
    <3>1. v.hist \in Seq(Message) /\ Len(v.hist) \in Nat
      BY <1>1
    <3>2. /\ f \in Seq(Message) /\ Len(f) = Len(v.hist) - 1
          /\ \A i \in 1..Len(v.hist) - 1 : f[i] = v.hist[i]
      BY ONLY <2>2, <3>1, FrontType
    <3> HIDE DEF f
    <3> QED BY ONLY <3>1, <3>2
  <2>4. NumberedIn(f)
    <3> HIDE DEF f
    <3> QED BY <1>1, <2>3, NumberedPrefix
  <2>5. Last(Append(f, r)) = r
    BY <1>1, <2>3 DEF Last
  <2> HIDE DEF f
  <2>6. NumberedIn(Append(f, r))
    BY <1>1, <2>1, <2>3, <2>4, NumberedAppend
  <2> QED BY <1>5, <2>1, <2>5, <2>6 DEF r
<1> QED BY <1>2, <1>3, <1>4, <1>5
-----------------------------------------------------------------------------
(* The plan of a turn.                                                     *)

LEMMA IdleCarriesNothing == ASSUME NEW d \in Callers, pc'[d] = "idle" PROVE Carries(d)'
BY DEF Carries, NumberingPlanned, ReplyHeld

\* An accepted reply is usable, numbered, and written last.
LEMMA AcceptCarries ==
  ASSUME TypeOK, NEW c \in Callers, NEW finish \in Finishes, NEW blank \in BOOLEAN,
         NEW tries \in 1..2, Accept(c, Reply(local[c], finish, blank, tries)),
         store' = store, NumberedIn(store), local[c].hist = store,
         local[c].op = "retry" => Retryable(local[c].hist)
  PROVE  Carries(c)'
<1> DEFINE v == local[c]
           r == Reply(v, finish, blank, tries)
<1>1. v \in Locals /\ r \in Message
  BY ReplyType DEF TypeOK
<1>2. CASE ~Usable(r)
  <2>1. pc' = [pc EXCEPT ![c] = "idle"]
    BY <1>2 DEF Accept, Release, Goto
  <2> QED BY <2>1, IdleCarriesNothing DEF TypeOK
<1>3. CASE Usable(r)
  <2>1. /\ local' = [local EXCEPT ![c].reply = r, ![c].todo = Messages(v, r)]
        /\ pc' = [pc EXCEPT ![c] = "consume"]
    BY <1>3 DEF Accept, Goto
  <2>2. /\ pc'[c] = "consume"
        /\ local'[c].todo = Messages(v, r)
        /\ local'[c].reply = r
        /\ local'[c].op = v.op
    BY <1>1, <2>1 DEF TypeOK, Locals
  <2>3. /\ v.op # "retry" => NumberedIn(store \o Messages(v, r))
        /\ v.op = "retry" => NumberedIn(Messages(v, r))
        /\ Last(Messages(v, r)) = r
    BY <1>1, MessagesNumbered DEF TypeOK
  <2>4. ~r.blank
    BY <1>3 DEF Usable
  <2> HIDE DEF r
  <2> QED BY <2>2, <2>3, <2>4 DEF Carries, NumberingPlanned, ReplyHeld
<1> QED BY <1>2, <1>3

\* What one step of a turn does to the numbering and to what the turn carries.
LEMMA CarryStep ==
  ASSUME TypeOK, NumberedIn(store), NEW c \in Callers, Planned(c), Carries(c), TurnStep(c)
  PROVE  NumberedIn(store)' /\ Carries(c)'
<1>0. local[c] \in Locals /\ pc[c] \in Steps
  BY DEF TypeOK
<1>1. ASSUME LoadSession(c) \/ LoadHistory(c) PROVE NumberedIn(store)' /\ Carries(c)'
  <2>1. pc'[c] \in {"history", "generate", "idle"} /\ store' = store
    BY <1>1 DEF LoadSession, LoadHistory, Release, Goto, TypeOK
  <2> QED BY <2>1 DEF Carries, NumberingPlanned, ReplyHeld
<1>2. ASSUME NEW finish \in Finishes, NEW blank \in BOOLEAN, Generate(c, finish, blank)
      PROVE  NumberedIn(store)' /\ Carries(c)'
  <2>1. /\ store' = store
        /\ local[c].hist = store
        /\ local[c].op = "retry" => Retryable(local[c].hist)
    BY <1>2 DEF Generate, Planned
  <2>2. CASE Recovers(finish)
    <3>1. pc'[c] = "again"
      BY <1>2, <2>2 DEF Generate, Goto, TypeOK
    <3> QED BY <2>1, <3>1 DEF Carries, NumberingPlanned, ReplyHeld
  <2>3. CASE ~Recovers(finish)
    BY <1>2, <2>1, <2>3, AcceptCarries DEF Generate
  <2> QED BY <2>2, <2>3
<1>3. ASSUME NEW finish \in Finishes, NEW blank \in BOOLEAN, GenerateAgain(c, finish, blank)
      PROVE  NumberedIn(store)' /\ Carries(c)'
  <2> DEFINE both == BlankTogether(local[c], blank)
  <2>1. /\ store' = store
        /\ local[c].hist = store
        /\ local[c].op = "retry" => Retryable(local[c].hist)
    BY <1>3 DEF GenerateAgain, Planned
  <2>2. both \in BOOLEAN
    BY <1>0 DEF BlankTogether, Locals, Message
  <2> HIDE DEF both
  <2>3. Accept(c, Reply(local[c], finish, both, 2))
    BY <1>3 DEF GenerateAgain, both
  <2> QED BY <2>1, <2>2, <2>3, AcceptCarries
<1>4. ASSUME Consume(c) PROVE NumberedIn(store)' /\ Carries(c)'
  <2>1. /\ pc[c] = "consume"
        /\ pc'[c] = IF local[c].op = "retry" THEN "clear" ELSE "write"
        /\ local' = local
        /\ store' = store
    BY <1>4 DEF Consume, Goto, TypeOK
  <2> QED BY <2>1 DEF Carries, NumberingPlanned, ReplyHeld
<1>5. ASSUME Clear(c) PROVE NumberedIn(store)' /\ Carries(c)'
  <2>1. pc[c] = "clear" /\ pc'[c] = "write" /\ local' = local /\ store' = <<>>
    BY <1>5 DEF Clear, Goto, TypeOK
  <2>2. local[c].todo \in Seq(Message)
    BY <1>0 DEF Locals
  <2>3. store' \o local'[c].todo = local[c].todo
    BY <2>1, <2>2, ConcatEmptySeq
  <2>4. NumberedIn(store')
    BY <2>1 DEF NumberedIn
  <2> QED BY <2>1, <2>3, <2>4 DEF Carries, NumberingPlanned, ReplyHeld
<1>6. ASSUME WriteNext(c) PROVE NumberedIn(store)' /\ Carries(c)'
  <2> DEFINE todo == local[c].todo
  <2>1. /\ pc[c] = "write"
        /\ todo \in Seq(Message)
        /\ todo # <<>>
        /\ store \in Seq(Message)
        /\ NumberedIn(store \o todo)
        /\ ~local[c].reply.blank /\ Last(todo).turn = local[c].reply.turn
    BY <1>0, <1>6 DEF WriteNext, Planned, Carries, NumberingPlanned, ReplyHeld, Locals, TypeOK
  <2>2. /\ store' = Append(store, Head(todo))
        /\ local'[c].todo = Tail(todo)
        /\ local'[c].reply = local[c].reply
        /\ pc'[c] = IF Len(todo) = 1 THEN "finish" ELSE "write"
    BY <1>0, <1>6 DEF WriteNext, Goto, TypeOK, Locals
  <2> HIDE DEF todo
  <2>3. /\ store' \in Seq(Message)
        /\ \A i \in 1..Len(store') : store'[i] = (store \o todo)[i]
        /\ store \o todo \in Seq(Message) /\ Len(store') <= Len(store \o todo)
    BY <2>1, <2>2
  <2>4. NumberedIn(store')
    BY <2>1, <2>3, NumberedPrefix
  <2>5. store' \o Tail(todo) = store \o todo /\ (Len(todo) # 1 => Tail(todo) # <<>>)
    BY <2>1, <2>2, WriteMoves
  <2>6. CASE Len(todo) = 1
    <3>1. Last(todo) = Head(todo) /\ store' # <<>> /\ Last(store') = Head(todo)
      BY <2>1, <2>2, <2>6 DEF Last
    <3> QED BY <2>1, <2>2, <2>4, <2>6, <3>1 DEF Carries, NumberingPlanned, ReplyHeld
  <2>7. CASE Len(todo) # 1
    <3>1. Last(Tail(todo)) = Last(todo)
      <4>1. Len(todo) \in Nat /\ Len(todo) > 1
        <5>1. Len(todo) \in Nat
          BY <2>1
        <5>2. Len(todo) # 0
          BY <2>1, EmptySeq
        <5> QED BY <2>7, <5>1, <5>2
      <4>3. Len(Tail(todo)) = Len(todo) - 1
        BY <2>1, HeadTailProperties
      <4>2. Tail(todo)[Len(todo) - 1] = todo[Len(todo)]
        BY <2>1, <4>1
      <4> QED BY <4>1, <4>2, <4>3 DEF Last
    <3> QED BY <2>1, <2>2, <2>4, <2>5, <2>7, <3>1 DEF Carries, NumberingPlanned, ReplyHeld
  <2> QED BY <2>6, <2>7
<1>7. ASSUME Finish(c) \/ Fail(c) PROVE NumberedIn(store)' /\ Carries(c)'
  <2>1. pc'[c] = "idle" /\ store' = store
    BY <1>7 DEF Finish, Fail, Release, Goto, TypeOK
  <2> QED BY <2>1, IdleCarriesNothing
<1> QED BY <1>1, <1>2, <1>3, <1>4, <1>5, <1>6, <1>7 DEF TurnStep

\* The plan of the caller that holds the lock is stable; the others have none.
LEMMA CarriesStep ==
  RInv /\ [Next]_vars => NumberedIn(store)' /\ \A d \in Callers : Carries(d)'
<1> SUFFICES ASSUME RInv, [Next]_vars
             PROVE  NumberedIn(store)' /\ \A d \in Callers : Carries(d)'
  OBVIOUS
<1>0. /\ TypeOK
      /\ OneGeneration
      /\ NumberedIn(store)
      /\ \A d \in Callers : Planned(d) /\ Carries(d)
  BY DEF RInv, IInv, LockInv
<1>1. ASSUME NEW c \in Callers, NEW o \in Ops, Begin(c, o)
      PROVE  NumberedIn(store)' /\ \A d \in Callers : Carries(d)'
  <2>1. /\ store' = store
        /\ \A d \in Callers : d # c => pc'[d] = "idle"
        /\ pc'[c] = "session"
    BY <1>0, <1>1 DEF OneGeneration, Begin, Goto, TypeOK
  <2>2. Carries(c)'
    BY <2>1 DEF Carries, NumberingPlanned, ReplyHeld
  <2> QED BY <1>0, <2>1, <2>2, IdleCarriesNothing
<1>2. ASSUME NEW c \in Callers, TurnStep(c)
      PROVE  NumberedIn(store)' /\ \A d \in Callers : Carries(d)'
  <2>1. \A d \in Callers : d # c => pc[d] = "idle"
    BY <1>0, <1>2, StepKeepsLockOrReleases DEF OneGeneration
  <2>2. \E step : pc' = [pc EXCEPT ![c] = step]
    BY <1>2, StepKeepsLockOrReleases DEF Release, Goto
  <2>3. \A d \in Callers : d # c => pc'[d] = "idle"
    BY <1>0, <2>1, <2>2 DEF TypeOK
  <2>4. \A d \in Callers : d # c => Carries(d)'
    BY <2>3, IdleCarriesNothing
  <2>5. NumberedIn(store)' /\ Carries(c)'
    BY <1>0, <1>2, CarryStep
  <2> QED BY <2>4, <2>5
<1>3. ASSUME (\E e \in Editors : EditorStep(e)) \/ UNCHANGED vars
      PROVE  NumberedIn(store)' /\ \A d \in Callers : Carries(d)'
  <2>1. UNCHANGED <<store, pc, local>>
    BY <1>3 DEF EditorStep, ReadNotes, SaveNote, vars
  <2> QED BY <1>0, <2>1 DEF Carries, NumberingPlanned, ReplyHeld
<1>4. ASSUME Crash PROVE NumberedIn(store)' /\ \A d \in Callers : Carries(d)'
  <2>1. store' = store /\ \A d \in Callers : pc'[d] = "idle"
    BY <1>4 DEF Crash
  <2> QED BY <1>0, <2>1, IdleCarriesNothing
<1> QED BY <1>1, <1>2, <1>3, <1>4 DEF Next

LEMMA InitRInv == Init => RInv
<1> SUFFICES ASSUME Init PROVE RInv
  OBVIOUS
<1>1. NumberedIn(store)
  <2>1. CASE store = <<>>
    BY <2>1 DEF NumberedIn
  <2>2. CASE store = <<Opening>>
    BY <2>2, PlainType DEF NumberedIn, Opening
  <2> QED BY <2>1, <2>2 DEF Init
<1>2. \A c \in Callers : Carries(c)
  BY DEF Init, Carries, NumberingPlanned, ReplyHeld
<1> QED BY <1>1, <1>2, InitIInv DEF RInv

LEMMA RInvNext == RInv /\ [Next]_vars => RInv'
<1>1. RInv /\ [Next]_vars => IInv'
  BY TypeStep, LockStep, TranscriptStep DEF RInv, IInv, LockInv, Planned
<1> QED BY <1>1, CarriesStep DEF RInv

LEMMA RepliesInductive == Spec => []RInv
BY InitRInv, RInvNext, PTL DEF Spec
-----------------------------------------------------------------------------
(* What a step may change.                                                 *)

\* A step that is not a turn's: nobody's coroutine but all of them, or none, and no message.
LEMMA OthersKeepStore ==
  ASSUME \/ \E c \in Callers, o \in Ops : Begin(c, o)
         \/ \E e \in Editors : EditorStep(e)
         \/ Crash \/ UNCHANGED vars
  PROVE  store' = store /\ (asked' = asked \/ asked' = 0)
BY DEF Begin, EditorStep, ReadNotes, SaveNote, Crash, vars

\* A step of a turn adds a message or clears the store for a retry; asks at its end; and
\* takes notes only at consume.
LEMMA TurnChanges ==
  ASSUME TypeOK, NEW c \in Callers, TurnStep(c)
  PROVE  /\ \/ store' = store
            \/ pc[c] = "clear"
            \/ \E m : store' = Append(store, m)
         /\ asked' = asked \/ (pc[c] = "finish" /\ asked' = local[c].reply.turn /\ store' = store)
         /\ notes' = notes \/ pc[c] = "consume"
<1>2. CASE LoadSession(c) \/ LoadHistory(c) \/ Fail(c) \/ Finish(c)
  BY <1>2 DEF LoadSession, LoadHistory, Fail, Finish
<1>3. CASE \E finish \in Finishes, blank \in BOOLEAN :
             Generate(c, finish, blank) \/ GenerateAgain(c, finish, blank)
  BY <1>3 DEF Generate, GenerateAgain
<1>4. CASE Consume(c) \/ Clear(c)
  BY <1>4 DEF Consume, Clear
<1>5. CASE WriteNext(c)
  BY <1>5 DEF WriteNext
<1> QED BY <1>2, <1>3, <1>4, <1>5 DEF TurnStep

\* A step of a turn touches no other coroutine's variables.
LEMMA TurnLocal ==
  ASSUME TypeOK, NEW c \in Callers, TurnStep(c)
  PROVE  \E w : local' = [local EXCEPT ![c] = w]
<1>0. local = [local EXCEPT ![c] = local[c]]
  BY DEF TypeOK
<1>1. CASE LoadSession(c) \/ WriteNext(c) \/ Consume(c) \/ Clear(c)
  BY <1>0, <1>1 DEF LoadSession, WriteNext, Consume, Clear
<1>2. CASE LoadHistory(c) \/ Finish(c) \/ Fail(c)
  BY <1>2 DEF LoadHistory, Finish, Fail, Release
<1>3. CASE \E finish \in Finishes, blank \in BOOLEAN :
             Generate(c, finish, blank) \/ GenerateAgain(c, finish, blank)
  <2>1. ASSUME NEW r, Accept(c, r) PROVE \E w : local' = [local EXCEPT ![c] = w]
    BY <2>1 DEF Accept, Release
  <2> QED BY <1>3, <2>1 DEF Generate, GenerateAgain
<1> QED BY <1>1, <1>2, <1>3 DEF TurnStep

\* Replies are numbered by their rank among the narrator's messages, through retries, torn
\* rewrites and crashes: _resolve_turn; the traces are filed under this number.
THEOREM RepliesNumberedByRank == Spec => []TurnsNumbered
<1>1. RInv => TurnsNumbered
  <2> SUFFICES ASSUME RInv PROVE TurnsNumbered
    OBVIOUS
  <2>1. DOMAIN store = 1..Len(store)
    BY DEF RInv, IInv, LockInv, TypeOK
  <2> QED BY <2>1 DEF RInv, NumberedIn, TurnsNumbered
<1> QED BY <1>1, RepliesInductive, PTL

\* Messages go only to a retry that has its reply in hand (regenerate_last_response).
THEOREM HistoryGoesOnlyToRetries == Spec => HistoryLostOnlyToAnsweredRetry
<1> DEFINE Justified ==
      Len(store') < Len(store) =>
        \E c \in Callers : /\ pc[c] = "clear"
                           /\ local[c].op = "retry"
                           /\ ~local[c].reply.blank
<1>1. RInv /\ [Next]_vars => Justified
  <2> SUFFICES ASSUME RInv, [Next]_vars, Len(store') < Len(store)
               PROVE  \E c \in Callers :
                        pc[c] = "clear" /\ local[c].op = "retry" /\ ~local[c].reply.blank
    OBVIOUS
  <2>1. TypeOK /\ Len(store) \in Nat
    BY DEF RInv, IInv, LockInv, TypeOK
  <2>2. store' # store
    BY <2>1
  <2>3. PICK c \in Callers : TurnStep(c)
    BY <2>2, OthersKeepStore DEF Next
  <2>4. \A m : Len(Append(store, m)) = Len(store) + 1
    BY <2>1 DEF TypeOK
  <2>5. pc[c] = "clear"
    BY <2>1, <2>2, <2>3, <2>4, TurnChanges
  <2> QED BY <2>5 DEF RInv, Carries, ReplyHeld
<1> QED BY <1>1, RepliesInductive, PTL DEF Spec, HistoryLostOnlyToAnsweredRetry

\* A turn takes notes off the queue only with its reply in hand: a turn that fails keeps
\* them for the next (_consume_director_instruction).
THEOREM NotesGoOnlyToReplies == Spec => FailedTurnKeepsNotes
<1> DEFINE Justified ==
      \A c \in Callers :
        (<<pc[c], local[c]>>)' # <<pc[c], local[c]>> /\ ~(notes \subseteq notes') =>
          pc[c] = "consume" /\ ~local[c].reply.blank
<1>1. RInv /\ [Next]_vars => Justified
  <2> SUFFICES ASSUME RInv, [Next]_vars, NEW c \in Callers,
                      (<<pc[c], local[c]>>)' # <<pc[c], local[c]>>, ~(notes \subseteq notes')
               PROVE  pc[c] = "consume" /\ ~local[c].reply.blank
    OBVIOUS
  <2>1. notes' # notes /\ ~(pc'[c] = pc[c] /\ local'[c] = local[c])
    OBVIOUS
  <2>2. ~(\E e \in Editors : EditorStep(e)) /\ ~(UNCHANGED vars) /\ ~Crash
        /\ ~\E d \in Callers, o \in Ops : Begin(d, o)
    BY <2>1 DEF EditorStep, ReadNotes, SaveNote, vars, Crash, Begin
  <2>3. PICK d \in Callers : TurnStep(d)
    BY <2>2 DEF Next
  <2>4. pc[d] = "consume"
    BY <2>1, <2>3, TurnChanges DEF RInv, IInv, LockInv
  <2>5. d = c
    <3>1. \E step : pc' = [pc EXCEPT ![d] = step]
      BY <2>3, StepKeepsLockOrReleases DEF Release, Goto
    <3>2. \E w : local' = [local EXCEPT ![d] = w]
      BY <2>3, <2>4, TurnLocal DEF RInv, IInv, LockInv
    <3> QED BY <2>1, <3>1, <3>2 DEF RInv, IInv, LockInv, TypeOK
  <2> QED BY <2>4, <2>5 DEF RInv, Carries, ReplyHeld
<1> QED BY <1>1, RepliesInductive, PTL DEF Spec, FailedTurnKeepsNotes

\* The memory layers are asked about a turn only once its reply is the newest message
\* stored (_observe_turn).
THEOREM AskedOnlyOfStored == Spec => AskedAfterStored
<1> DEFINE Justified ==
      asked' # asked /\ asked' # 0 => store # <<>> /\ Last(store).turn = asked'
<1>1. RInv /\ [Next]_vars => Justified
  <2> SUFFICES ASSUME RInv, [Next]_vars, asked' # asked, asked' # 0
               PROVE  store # <<>> /\ Last(store).turn = asked'
    OBVIOUS
  <2>1. PICK c \in Callers : TurnStep(c)
    BY OthersKeepStore DEF Next
  <2>2. pc[c] = "finish" /\ asked' = local[c].reply.turn
    BY <2>1, TurnChanges DEF RInv, IInv, LockInv
  <2> QED BY <2>2 DEF RInv, Carries, ReplyHeld
<1> QED BY <1>1, RepliesInductive, PTL DEF Spec, AskedAfterStored
=============================================================================
