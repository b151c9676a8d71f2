--------------------------- MODULE ChatStoryProofs ---------------------------
(***************************************************************************)
(* ChatTurns implements Story, for any number of callers, editors, notes   *)
(* and messages: message-by-message writes, refused callers, failures and  *)
(* crashes look, to a reader of whole turns, like a transcript that moves  *)
(* by whole turns and is torn in two ways only.                            *)
(***************************************************************************)
EXTENDS ChatTurnsProofs

Writing == {"consume", "clear", "write"}

\* The player's message of a turn, and the saves left: both, or the reply alone.
SendPending(c, p) ==
  LET v == local[c] IN
  /\ p \in Message /\ p.role = "user"
  /\ v.reply.basis = Ids(Append(v.hist, p))
  /\ \/ store = v.hist /\ v.todo = <<p, v.reply>>
     \/ pc[c] = "write" /\ store = Append(v.hist, p) /\ v.todo = <<v.reply>>

\* What is left to write of an accepted reply makes a whole turn of the loaded history.
Pending(c) ==
  LET v == local[c] IN
  pc[c] \in Writing =>
    /\ v.reply.role = "character"
    /\ v.op = "send" => \E p : SendPending(c, p)
    /\ v.op = "continue" => /\ v.reply.basis = Ids(v.hist)
                            /\ store = v.hist /\ v.todo = <<v.reply>>
    /\ v.op = "retry" => /\ Len(v.hist) > 1 /\ Last(v.hist).role = "character"
                         /\ v.reply.basis = Ids(Front(v.hist))
                         /\ pc[c] # "write" => /\ store = v.hist
                                               /\ v.todo = Append(Front(v.hist), v.reply)
                         /\ pc[c] = "write" => store \o v.todo = Append(Front(v.hist), v.reply)
    /\ pc[c] = "clear" => v.op = "retry"

SInv == IInv /\ \A c \in Callers : Pending(c)
-----------------------------------------------------------------------------
(* The plan of a turn.                                                     *)

LEMMA IdlePends == ASSUME NEW d \in Callers, pc'[d] \notin Writing PROVE Pending(d)'
BY DEF Pending

\* The history a retry drops its last reply from.
LEMMA RetryContext ==
  ASSUME NEW v \in Locals, v.op = "retry", Retryable(v.hist)
  PROVE  /\ Len(v.hist) > 1 /\ Last(v.hist).role = "character" /\ v.hist # <<>>
         /\ Trimmed(v) = Front(v.hist) /\ Context(v) = Front(v.hist)
<1>1. v.hist # <<>>
  BY DEF Retryable, Locals
<1> QED BY <1>1 DEF Retryable, Trimmed, Context

\* An accepted reply makes a whole turn.
LEMMA AcceptPends ==
  ASSUME TypeOK, NEW c \in Callers, NEW finish \in Finishes, NEW blank \in BOOLEAN,
         NEW tries \in 1..2, Accept(c, Reply(local[c], finish, blank, tries)),
         store' = store, local[c].hist = store,
         local[c].op = "retry" => Retryable(local[c].hist)
  PROVE  Pending(c)'
<1> DEFINE v == local[c]
           r == Reply(v, finish, blank, tries)
           p == Plain(nextId, "user")
<1>1. /\ v \in Locals /\ r \in Message /\ p \in Message /\ p.role = "user"
      /\ r.role = "character" /\ r.basis = Ids(Context(v))
      /\ v.op \in {"send", "continue", "retry"}
  BY ReplyType, PlainType DEF TypeOK, Reply, Plain, Locals, Ops
<1>2. CASE ~Usable(r)
  <2>1. pc' = [pc EXCEPT ![c] = "idle"]
    BY <1>2 DEF Accept, Release, Goto
  <2> QED BY <2>1, IdlePends DEF TypeOK, Writing
<1>3. CASE Usable(r)
  <2>1. /\ local' = [local EXCEPT ![c].reply = r, ![c].todo = Messages(v, r)]
        /\ pc' = [pc EXCEPT ![c] = "consume"]
    BY <1>3 DEF Accept, Goto
  <2>2. /\ pc'[c] = "consume"
        /\ local'[c].todo = Messages(v, r)
        /\ local'[c].reply = r
        /\ local'[c].op = v.op
        /\ local'[c].hist = v.hist
    BY <1>1, <2>1 DEF TypeOK, Locals
  <2>3. v.op = "send" => Messages(v, r) = <<p, r>> /\ r.basis = Ids(Append(v.hist, p))
    BY <1>1 DEF Messages, Context
  <2>4. v.op = "continue" => Messages(v, r) = <<r>> /\ r.basis = Ids(v.hist)
    BY <1>1 DEF Messages, Context, Trimmed
  <2>5. v.op = "retry" => /\ Messages(v, r) = Append(Front(v.hist), r)
                          /\ r.basis = Ids(Front(v.hist))
                          /\ Len(v.hist) > 1 /\ Last(v.hist).role = "character"
    BY <1>1, RetryContext DEF Messages
  <2> HIDE DEF r, p
  <2>6. ASSUME v.op = "send" PROVE \E q : SendPending(c, q)'
    <3>1. PICK q : q = p
      OBVIOUS
    <3>2. local'[c].todo = <<q, local'[c].reply>> /\ store' = local'[c].hist
      BY <2>2, <2>3, <2>6, <3>1
    <3>3. local'[c].reply.basis = Ids(Append(local'[c].hist, q))
      BY <2>2, <2>3, <2>6, <3>1
    <3>4. SendPending(c, q)'
      BY <1>1, <3>1, <3>2, <3>3 DEF SendPending
    <3> QED BY <3>4
  <2> QED BY <1>1, <2>2, <2>4, <2>5, <2>6 DEF Pending
<1> QED BY <1>2, <1>3

\* A save of a turn leaves the rest of it.
LEMMA WritePends ==
  ASSUME TypeOK, NEW c \in Callers, Planned(c), Pending(c), WriteNext(c)
  PROVE  Pending(c)'
<1> DEFINE v == local[c]
<1>1. /\ v \in Locals /\ v.todo \in Seq(Message) /\ v.todo # <<>> /\ store \in Seq(Message)
      /\ v.op \in {"send", "continue", "retry"} /\ pc[c] = "write"
  BY DEF TypeOK, Locals, Ops, Planned, WriteNext
<1>2. /\ store' = Append(store, Head(v.todo))
      /\ local'[c].todo = Tail(v.todo) /\ local'[c].op = v.op
      /\ local'[c].hist = v.hist /\ local'[c].reply = v.reply
      /\ pc'[c] = IF Len(v.todo) = 1 THEN "finish" ELSE "write"
  BY <1>1 DEF WriteNext, Goto, TypeOK, Locals
<1>3. CASE Len(v.todo) = 1
  BY <1>2, <1>3, IdlePends DEF Writing
<1>4. CASE Len(v.todo) # 1
  <2>1. pc'[c] = "write" /\ v.op # "continue"
    <3>1. v.op = "continue" => v.todo = <<v.reply>>
      BY <1>1 DEF Pending, Writing
    <3>2. \A x : Len(<<x>>) = 1
      OBVIOUS
    <3> HIDE DEF v
    <3> QED BY <1>2, <1>4, <3>1, <3>2
  <2>2. ASSUME v.op = "send" PROVE \E p : SendPending(c, p)'
    <3>1. PICK p : SendPending(c, p)
      BY <1>1, <2>2 DEF Pending, Writing
    <3>2. store = v.hist /\ v.todo = <<p, v.reply>>
      <4>1. \/ store = v.hist /\ v.todo = <<p, v.reply>>
            \/ v.todo = <<v.reply>>
        BY <3>1 DEF SendPending
      <4>2. \A x : Len(<<x>>) = 1
        OBVIOUS
      <4> HIDE DEF v
      <4> QED BY <1>4, <4>1, <4>2
    <3>3. store' = Append(v.hist, p) /\ local'[c].todo = <<v.reply>>
      BY <1>2, <3>2
    <3>4. SendPending(c, p)'
      BY <1>2, <2>1, <3>1, <3>3 DEF SendPending
    <3> QED BY <3>4
  <2>3. ASSUME v.op = "retry" PROVE store' \o local'[c].todo = Append(Front(v.hist), v.reply)
    <3>1. store \o v.todo = Append(Front(v.hist), v.reply)
      BY <1>1, <2>3 DEF Pending, Writing
    <3>2. Append(store, Head(v.todo)) \o Tail(v.todo) = store \o v.todo
      BY <1>1, WriteMoves
    <3> QED BY <1>2, <3>1, <3>2
  <2> QED BY <1>1, <1>2, <2>1, <2>2, <2>3 DEF Pending, Writing
<1> QED BY <1>3, <1>4

\* What one step of a turn does to its own plan.
LEMMA PendingStep ==
  ASSUME TypeOK, NEW c \in Callers, Planned(c), Pending(c), TurnStep(c)
  PROVE  Pending(c)'
<1>0. local[c] \in Locals /\ pc[c] \in Steps
  BY DEF TypeOK
<1>1. CASE LoadSession(c) \/ LoadHistory(c)
  <2>1. pc'[c] \in {"history", "generate", "idle"}
    BY <1>1 DEF LoadSession, LoadHistory, Release, Goto, TypeOK
  <2> QED BY <2>1, IdlePends DEF Writing
<1>2. ASSUME NEW finish \in Finishes, NEW blank \in BOOLEAN, Generate(c, finish, blank)
      PROVE  Pending(c)'
  <2>1. CASE Recovers(finish)
    <3>1. pc'[c] = "again"
      BY <1>2, <2>1 DEF Generate, Goto, TypeOK
    <3> QED BY <3>1, IdlePends DEF Writing
  <2>2. CASE ~Recovers(finish)
    BY <1>2, <2>2, AcceptPends DEF Generate, Planned
  <2> QED BY <2>1, <2>2
<1>3. ASSUME NEW finish \in Finishes, NEW blank \in BOOLEAN, GenerateAgain(c, finish, blank)
      PROVE  Pending(c)'
  <2> DEFINE both == BlankTogether(local[c], blank)
  <2>1. both \in BOOLEAN
    BY <1>0 DEF BlankTogether, Locals, Message
  <2> HIDE DEF both
  <2>2. Accept(c, Reply(local[c], finish, both, 2))
    BY <1>3 DEF GenerateAgain, both
  <2> QED BY <1>3, <2>1, <2>2, AcceptPends DEF GenerateAgain, Planned
<1>4. CASE Consume(c)
  <2>1. /\ pc[c] = "consume" /\ local' = local /\ store' = store
        /\ pc'[c] = IF local[c].op = "retry" THEN "clear" ELSE "write"
    BY <1>4 DEF Consume, Goto, TypeOK
  <2>2. \A p : SendPending(c, p) => SendPending(c, p)'
    BY <2>1 DEF SendPending
  <2> QED BY <2>1, <2>2 DEF Pending, Writing
<1>5. CASE Clear(c)
  <2>1. /\ pc[c] = "clear" /\ local' = local /\ store' = <<>> /\ pc'[c] = "write"
    BY <1>5 DEF Clear, Goto, TypeOK
  <2>2. local[c].todo \in Seq(Message)
    BY <1>0 DEF Locals
  <2>3. store' \o local[c].todo = local[c].todo
    BY <2>1, <2>2, ConcatEmptySeq
  <2> QED BY <2>1, <2>3 DEF Pending, Writing
<1>6. CASE WriteNext(c)
  BY <1>6, WritePends
<1>7. CASE Finish(c) \/ Fail(c)
  <2>1. pc'[c] = "idle"
    BY <1>7 DEF Finish, Fail, Release, Goto, TypeOK
  <2> QED BY <2>1, IdlePends DEF Writing
<1> QED BY <1>1, <1>2, <1>3, <1>4, <1>5, <1>6, <1>7 DEF TurnStep

\* The plan of the caller that holds the lock is stable; the others have none.
LEMMA PendingStable == SInv /\ [Next]_vars => \A d \in Callers : Pending(d)'
<1> SUFFICES ASSUME SInv, [Next]_vars, NEW d \in Callers PROVE Pending(d)'
  OBVIOUS
<1>0. TypeOK /\ OneGeneration /\ \A c \in Callers : Planned(c) /\ Pending(c)
  BY DEF SInv, IInv, LockInv
<1>1. ASSUME NEW c \in Callers, NEW o \in Ops, Begin(c, o) PROVE Pending(d)'
  <2>1. pc'[d] \in {"idle", "session"}
    BY <1>0, <1>1 DEF OneGeneration, Begin, Goto, TypeOK
  <2> QED BY <2>1, IdlePends DEF Writing
<1>2. ASSUME NEW c \in Callers, TurnStep(c) PROVE Pending(d)'
  <2>1. CASE d = c
    BY <1>0, <1>2, <2>1, PendingStep
  <2>2. CASE d # c
    <3>1. pc[d] = "idle" /\ \E step : pc' = [pc EXCEPT ![c] = step]
      BY <1>0, <1>2, <2>2, StepKeepsLockOrReleases DEF OneGeneration, Release, Goto
    <3>2. pc'[d] = "idle"
      BY <1>0, <2>2, <3>1 DEF TypeOK
    <3> QED BY <3>2, IdlePends DEF Writing
  <2> QED BY <2>1, <2>2
<1>3. ASSUME (\E e \in Editors : EditorStep(e)) \/ UNCHANGED vars PROVE Pending(d)'
  <2>1. UNCHANGED <<store, pc, local>>
    BY <1>3 DEF EditorStep, ReadNotes, SaveNote, vars
  <2>2. \A p : SendPending(d, p) => SendPending(d, p)'
    BY <2>1 DEF SendPending
  <2> QED BY <1>0, <2>1, <2>2 DEF Pending
<1>4. ASSUME Crash PROVE Pending(d)'
  <2>1. pc'[d] = "idle"
    BY <1>4 DEF Crash
  <2> QED BY <2>1, IdlePends DEF Writing
<1> QED BY <1>1, <1>2, <1>3, <1>4 DEF Next

LEMMA StoryInductive == Spec => []SInv
<1>1. Init => SInv
  <2>1. Init => \A c \in Callers : Pending(c)
    BY DEF Init, Pending, Writing
  <2> QED BY <2>1, InitIInv DEF SInv
<1>2. SInv /\ [Next]_vars => SInv'
  <2>1. SInv /\ [Next]_vars => IInv'
    BY TypeStep, LockStep, TranscriptStep DEF SInv, IInv, LockInv, Planned
  <2> QED BY <2>1, PendingStable DEF SInv
<1> QED BY <1>1, <1>2, PTL DEF Spec
-----------------------------------------------------------------------------
(* The transcript as a reader of whole turns sees it.                      *)

Visible == {"clear", "write"}

\* With nobody writing it is the store, and else what the writer loaded.
LEMMA TranscriptIs ==
  /\ (\A d \in Callers : pc[d] \notin Visible) => Transcript = store
  /\ \A b \in Callers :
       pc[b] \in Visible /\ (\A d \in Callers : d # b => pc[d] \notin Visible)
         => Transcript = local[b].hist
<1>1. ASSUME \A d \in Callers : pc[d] \notin Visible PROVE Transcript = store
  BY <1>1 DEF Visible, Writers, Transcript
<1>2. ASSUME NEW c \in Callers, pc[c] \in Visible,
             \A d \in Callers : d # c => pc[d] \notin Visible
      PROVE  Transcript = local[c].hist
  <2>1. Writers = {c}
    BY <1>2 DEF Visible, Writers
  <2> QED BY <2>1 DEF Transcript
<1> QED BY <1>1, <1>2

\* Story takes messages apart with the same operators.
LEMMA StoryOperators ==
  /\ \A s : StoryOf!Front(s) = Front(s) /\ StoryOf!Last(s) = Last(s) /\ StoryOf!Ids(s) = Ids(s)
  /\ \A s, t : StoryOf!IsStrictPrefix(s, t) <=> IsStrictPrefix(s, t)
BY DEF StoryOf!Front, Front, StoryOf!Last, Last, StoryOf!Ids, Ids,
   StoryOf!IsStrictPrefix, StoryOf!IsPrefix, IsStrictPrefix, IsPrefix

\* Appending a message, and taking it off again.
LEMMA FrontAppend ==
  ASSUME NEW h \in Seq(Message), NEW m \in Message
  PROVE  /\ Append(h, m) \in Seq(Message) /\ Len(Append(h, m)) = Len(h) + 1
         /\ Front(Append(h, m)) = h /\ Last(Append(h, m)) = m
<1> DEFINE t == Append(h, m)
<1>1. /\ t \in Seq(Message) /\ Len(h) \in Nat /\ Len(t) = Len(h) + 1 /\ t[Len(h) + 1] = m
      /\ \A i \in 1..Len(h) : t[i] = h[i]
  OBVIOUS
<1>2. t # <<>>
  <2>1. Len(<<>>) = 0
    OBVIOUS
  <2> HIDE DEF t
  <2> QED BY <1>1, <2>1
<1> HIDE DEF t
<1>3. /\ Front(t) \in Seq(Message) /\ Len(Front(t)) = Len(h)
      /\ \A i \in 1..Len(h) : Front(t)[i] = h[i]
  BY <1>1, <1>2, FrontType
<1>4. Front(t) = h
  BY <1>3, SeqEqual
<1> QED BY <1>1, <1>4 DEF t, Last

\* Dropping a message leaves what was before it.
LEMMA PrefixOfFront ==
  ASSUME NEW h \in Seq(Message), h # <<>>, NEW s \in Seq(Message), Len(s) < Len(h),
         \A i \in 1..Len(s) : s[i] = Front(h)[i]
  PROVE  IsStrictPrefix(s, h)
<1>1. /\ Len(s) \in Nat /\ Len(h) \in Nat
      /\ \A i \in 1..(Len(h) - 1) : Front(h)[i] = h[i]
  BY FrontType
<1>2. \A i \in 1..Len(s) : s[i] = h[i]
  BY <1>1
<1>3. SubSeq(s, 1, Len(s)) = s /\ SubSeq(h, 1, Len(s)) = s
  <2> DEFINE n == Len(s)
             a == SubSeq(s, 1, n)
             b == SubSeq(h, 1, n)
  <2>1. n \in Nat /\ \A i \in 1..n : s[i] \in Message /\ h[i] \in Message
    BY <1>1
  <2> HIDE DEF n
  <2>2. a \in Seq(Message) /\ Len(a) = n /\ \A i \in 1..n : a[i] = s[i]
    BY <2>1, SubSeqProperties
  <2>3. b \in Seq(Message) /\ Len(b) = n /\ \A i \in 1..n : b[i] = h[i]
    BY <2>1, SubSeqProperties
  <2> HIDE DEF a, b
  <2>4. a = s /\ b = s
    BY <1>2, <2>2, <2>3, SeqEqual DEF n
  <2> QED BY <2>4 DEF a, b, n
<1>4. s # h
  BY <1>1
<1> QED BY <1>1, <1>3, <1>4 DEF IsStrictPrefix, IsPrefix

\* The store is what a turn at consume or clear loaded.
LEMMA LoadedIsStored ==
  ASSUME TypeOK, NEW c \in Callers, Pending(c), pc[c] \in {"consume", "clear"}
  PROVE  store = local[c].hist
<1>1. local[c].op \in {"send", "continue", "retry"}
  BY DEF TypeOK, Locals, Ops
<1>2. \A p : SendPending(c, p) => store = local[c].hist
  BY DEF SendPending
<1> QED BY <1>1, <1>2 DEF Pending, Writing

\* The last save of a turn makes it whole.
LEMMA WholeTurn ==
  ASSUME TypeOK, NEW c \in Callers, Pending(c), pc[c] = "write", Len(local[c].todo) = 1,
         Transcript = local[c].hist, Transcript' = Append(store, Head(local[c].todo))
  PROVE  StoryOf!Next
<1> DEFINE h == local[c].hist
           r == local[c].reply
           todo == local[c].todo
           t == Append(store, Head(todo))
<1>1. /\ h \in Seq(Message) /\ r \in Message /\ todo \in Seq(Message)
      /\ store \in Seq(Message) /\ Len(todo) = 1
      /\ local[c].op \in {"send", "continue", "retry"}
      /\ r.role = "character"
  BY DEF TypeOK, Locals, Ops, Pending, Writing
<1>2. \A x, y : Len(<<x, y>>) = 2 /\ Head(<<x>>) = x
  OBVIOUS
<1>3. CASE local[c].op = "send"
  <2>1. PICK p : SendPending(c, p)
    BY <1>3 DEF Pending, Writing
  <2>2. /\ p \in Message /\ p.role = "user" /\ r.basis = Ids(Append(h, p))
        /\ store = Append(h, p) /\ todo = <<r>>
    <3>1. \/ todo = <<p, r>>
          \/ store = Append(h, p) /\ todo = <<r>>
      BY <2>1 DEF SendPending
    <3>2. store = Append(h, p) /\ todo = <<r>>
      <4> HIDE DEF todo
      <4>1. Len(todo) = 1 /\ Len(<<p, r>>) = 2
        BY <1>1, <1>2
      <4> QED BY ONLY <3>1, <4>1
    <3> QED BY <2>1, <3>2 DEF SendPending
  <2>3. t = Append(store, r)
    BY <1>2, <2>2
  <2> HIDE DEF h, r, t, todo
  <2>4. /\ store \in Seq(Message) /\ Len(store) = Len(h) + 1 /\ Front(store) = h
        /\ Last(store) = p
    BY <1>1, <2>2, FrontAppend
  <2>5. Len(t) = Len(store) + 1 /\ Front(t) = store /\ Last(t) = r
    BY <1>1, <2>3, FrontAppend
  <2>6. Len(t) = Len(h) + 2
    BY <1>1, <2>4, <2>5
  <2>7. r.basis = Ids(store)
    BY <2>2
  <2>8. Transcript = h /\ Transcript' = t
    BY DEF h, t, todo
  <2>9. StoryOf!Exchange
    BY <1>1, <2>2, <2>4, <2>5, <2>6, <2>7, <2>8, StoryOperators
      DEF StoryOf!Exchange, StoryOf!Answers
  <2> QED BY <2>9 DEF StoryOf!Next
<1>4. CASE local[c].op = "continue"
  <2>1. r.basis = Ids(h) /\ store = h /\ todo = <<r>>
    BY <1>4 DEF Pending, Writing
  <2>2. t = Append(h, r)
    BY <1>2, <2>1
  <2> HIDE DEF h, r, t, todo
  <2>3. Len(t) = Len(h) + 1 /\ Front(t) = h /\ Last(t) = r
    BY <1>1, <2>2, FrontAppend
  <2>4. Transcript = h /\ Transcript' = t
    BY DEF h, t, todo
  <2>5. StoryOf!Advance
    BY <1>1, <2>1, <2>3, <2>4, StoryOperators DEF StoryOf!Advance, StoryOf!Answers
  <2> QED BY <2>5 DEF StoryOf!Next
<1>5. CASE local[c].op = "retry"
  <2> DEFINE f == Front(h)
  <2>1. /\ Len(h) > 1 /\ Last(h).role = "character" /\ r.basis = Ids(f)
        /\ store \o todo = Append(f, r)
    BY <1>5 DEF Pending, Writing
  <2> HIDE DEF h, r, todo
  <2>2. t = store \o todo
    <3>1. todo # <<>>
      <4>1. Len(<<>>) = 0
        OBVIOUS
      <4> QED BY <1>1, <4>1
    <3>2. t \o Tail(todo) = store \o todo /\ t \in Seq(Message)
      BY <1>1, <3>1, WriteMoves
    <3>3. Tail(todo) = <<>>
      <4>1. Tail(todo) \in Seq(Message) /\ Len(Tail(todo)) = 0
        BY <1>1, <3>1, HeadTailProperties
      <4> QED BY <4>1, EmptySeq
    <3> HIDE DEF t
    <3>4. t \o <<>> = t
      BY <3>2, ConcatEmptySeq
    <3> QED BY <3>2, <3>3, <3>4
  <2>3. f \in Seq(Message) /\ Len(f) = Len(h) - 1
    <3>1. h # <<>>
      BY <2>1
    <3> QED BY <1>1, <3>1, FrontType
  <2> HIDE DEF t, f
  <2>4. Len(t) = Len(f) + 1 /\ Front(t) = f /\ Last(t) = r
    BY <1>1, <2>1, <2>2, <2>3, FrontAppend
  <2>5. Len(t) = Len(h)
    <3>1. Len(h) \in Nat
      BY <1>1
    <3> QED BY <2>3, <2>4, <3>1
  <2>6. Transcript = h /\ Transcript' = t
    BY DEF h, t, todo
  <2>7. StoryOf!Replace
    BY <1>1, <2>1, <2>4, <2>5, <2>6, StoryOperators
      DEF StoryOf!Replace, StoryOf!Answers, f
  <2> QED BY <2>7 DEF StoryOf!Next
<1> QED BY <1>1, <1>3, <1>4, <1>5

\* A turn that dies before its last save leaves what it loaded, or tears it.
LEMMA TornTurn ==
  ASSUME TypeOK, NEW c \in Callers, Planned(c), Pending(c), pc[c] \in Visible,
         Transcript = local[c].hist, Transcript' = store
  PROVE  StoryOf!Next \/ Transcript' = Transcript
<1> DEFINE h == local[c].hist
           r == local[c].reply
           todo == local[c].todo
<1>1. /\ h \in Seq(Message) /\ r \in Message /\ todo \in Seq(Message) /\ todo # <<>>
      /\ store \in Seq(Message)
      /\ local[c].op \in {"send", "continue", "retry"}
  BY DEF TypeOK, Locals, Ops, Planned, Visible
<1>2. CASE pc[c] = "clear"
  BY <1>2, LoadedIsStored
<1>3. CASE pc[c] = "write" /\ local[c].op = "send"
  <2>1. PICK p : SendPending(c, p)
    BY <1>3 DEF Pending, Writing
  <2>2. CASE store = h
    BY <2>2
  <2>3. CASE store = Append(h, p)
    <3>1. p \in Message /\ p.role = "user"
      BY <2>1 DEF SendPending
    <3>2. Transcript = h /\ Transcript' = store
      OBVIOUS
    <3> HIDE DEF h
    <3>3. Len(store) = Len(h) + 1 /\ Front(store) = h /\ Last(store) = p
      BY <1>1, <2>3, <3>1, FrontAppend
    <3>4. StoryOf!Tear
      BY <3>1, <3>2, <3>3, StoryOperators DEF StoryOf!Tear
    <3> QED BY <3>4 DEF StoryOf!Next
  <2> QED BY <2>1, <2>2, <2>3 DEF SendPending
<1>4. CASE pc[c] = "write" /\ local[c].op = "continue"
  BY <1>4 DEF Pending, Writing
<1>5. CASE pc[c] = "write" /\ local[c].op = "retry"
  <2> DEFINE f == Front(h)
  <2>1. Len(h) > 1 /\ store \o todo = Append(f, r)
    BY <1>5 DEF Pending, Writing
  <2>2. Transcript = h /\ Transcript' = store
    OBVIOUS
  <2> HIDE DEF h, r, todo
  <2>3. h # <<>> /\ Len(h) \in Nat
    BY <1>1, <2>1
  <2>4. f \in Seq(Message) /\ Len(f) = Len(h) - 1
    BY <1>1, <2>3, FrontType
  <2> HIDE DEF f
  <2>5. Len(store \o todo) = Len(f) + 1 /\ \A i \in 1..Len(f) : (store \o todo)[i] = f[i]
    BY <1>1, <2>1, <2>4
  <2>6. /\ Len(store \o todo) = Len(store) + Len(todo)
        /\ \A i \in 1..Len(store) : (store \o todo)[i] = store[i]
    BY <1>1
  <2>7. Len(store) \in Nat /\ Len(todo) \in Nat \ {0}
    BY <1>1, EmptySeq
  <2>8. Len(store) < Len(h) /\ \A i \in 1..Len(store) : store[i] = f[i]
    BY <2>3, <2>4, <2>5, <2>6, <2>7
  <2>9. IsStrictPrefix(store, h)
    BY <1>1, <2>3, <2>8, PrefixOfFront DEF f
  <2>10. StoryOf!IsStrictPrefix(store, h)
    BY <2>9, StoryOperators
  <2> QED BY <2>2, <2>10 DEF StoryOf!Next, StoryOf!Tear
<1> QED BY <1>1, <1>2, <1>3, <1>4, <1>5 DEF Visible

\* Every step of a turn is one of Story, or none.
LEMMA TurnImplements ==
  ASSUME SInv, NEW c \in Callers, TurnStep(c)
  PROVE  StoryOf!Next \/ Transcript' = Transcript
<1>0. TypeOK /\ OneGeneration /\ Planned(c) /\ Pending(c) /\ local[c] \in Locals
  BY DEF SInv, IInv, LockInv, TypeOK
<1>1. \A d \in Callers : d # c => pc[d] \notin Visible /\ pc'[d] \notin Visible
  <2>1. \A d \in Callers : d # c => pc[d] = "idle"
    BY <1>0, StepKeepsLockOrReleases DEF OneGeneration
  <2>2. \E step : pc' = [pc EXCEPT ![c] = step]
    BY StepKeepsLockOrReleases DEF Release, Goto
  <2> QED BY <1>0, <2>1, <2>2 DEF TypeOK, Visible
<1>2. /\ pc[c] \notin Visible => Transcript = store
      /\ pc[c] \in Visible => Transcript = local[c].hist
  BY <1>1, TranscriptIs
<1>3. /\ pc'[c] \notin Visible => Transcript' = store'
      /\ pc'[c] \in Visible => Transcript' = local'[c].hist
  <2>1. ((\A d \in Callers : pc[d] \notin Visible) => Transcript = store)'
    BY TranscriptIs, PTL
  <2>2. ASSUME pc'[c] \in Visible PROVE Transcript' = local'[c].hist
    <3>1. Writers' = {c}
      BY <1>1, <2>2 DEF Visible, Writers
    <3> QED BY <3>1 DEF Transcript
  <2> QED BY <1>1, <2>1, <2>2
<1>4. CASE /\ pc[c] \notin Visible /\ pc'[c] \notin Visible /\ store' = store
  BY <1>2, <1>3, <1>4
<1>5. CASE LoadSession(c) \/ LoadHistory(c) \/ Finish(c)
  <2>1. /\ pc[c] \notin Visible /\ pc'[c] \in {"idle", "history", "generate"} /\ store' = store
    BY <1>0, <1>5 DEF LoadSession, LoadHistory, Finish, Release, Goto, TypeOK, Visible
  <2> QED BY <1>4, <2>1 DEF Visible
<1>6. CASE \E finish \in Finishes, blank \in BOOLEAN :
             Generate(c, finish, blank) \/ GenerateAgain(c, finish, blank)
  <2>1. ASSUME NEW r, Accept(c, r) PROVE pc'[c] \in {"consume", "idle"}
    BY <1>0, <2>1 DEF Accept, Release, Goto, TypeOK
  <2>2. ASSUME NEW finish \in Finishes, NEW blank \in BOOLEAN,
               Generate(c, finish, blank) \/ GenerateAgain(c, finish, blank)
        PROVE  pc[c] \notin Visible /\ pc'[c] \in {"again", "consume", "idle"} /\ store' = store
    BY <1>0, <2>1, <2>2 DEF Generate, GenerateAgain, Goto, TypeOK, Visible
  <2> QED BY <1>4, <1>6, <2>2 DEF Visible
<1>7. CASE Consume(c)
  <2>1. /\ pc[c] = "consume" /\ pc'[c] \in Visible /\ local' = local
    BY <1>0, <1>7 DEF Consume, Goto, TypeOK, Visible
  <2>2. store = local[c].hist
    BY <1>0, <2>1, LoadedIsStored
  <2> QED BY <1>2, <1>3, <2>1, <2>2 DEF Visible
<1>8. CASE Clear(c)
  <2>1. pc[c] \in Visible /\ pc'[c] \in Visible /\ local' = local
    BY <1>0, <1>8 DEF Clear, Goto, TypeOK, Visible
  <2> QED BY <1>2, <1>3, <2>1
<1>9. CASE WriteNext(c)
  <2>1. /\ pc[c] = "write" /\ store' = Append(store, Head(local[c].todo))
        /\ local'[c].hist = local[c].hist
        /\ pc'[c] = IF Len(local[c].todo) = 1 THEN "finish" ELSE "write"
    BY <1>0, <1>9 DEF WriteNext, Goto, TypeOK, Locals
  <2>2. Transcript = local[c].hist
    BY <1>2, <2>1 DEF Visible
  <2>3. CASE Len(local[c].todo) = 1
    <3>1. Transcript' = store'
      BY <1>3, <2>1, <2>3 DEF Visible
    <3>2. StoryOf!Next
      BY <1>0, <2>1, <2>2, <2>3, <3>1, WholeTurn
    <3> QED BY <3>2
  <2>4. CASE Len(local[c].todo) # 1
    BY <1>3, <2>1, <2>2, <2>4 DEF Visible
  <2> QED BY <2>3, <2>4
<1>10. CASE Fail(c)
  <2>1. pc'[c] = "idle" /\ store' = store
    BY <1>0, <1>10 DEF Fail, Release, Goto, TypeOK
  <2>2. Transcript' = store
    BY <1>3, <2>1 DEF Visible
  <2>3. CASE pc[c] \in Visible
    BY <1>0, <1>2, <2>2, <2>3, TornTurn
  <2> QED BY <1>2, <2>2, <2>3
<1> QED BY <1>5, <1>6, <1>7, <1>8, <1>9, <1>10 DEF TurnStep

\* Steps between turns show no change; a crash tears the turn it falls in.
LEMMA StepImplements ==
  ASSUME SInv, [Next]_vars
  PROVE  StoryOf!Next \/ Transcript' = Transcript
<1>0. /\ TypeOK /\ OneGeneration
      /\ \A c \in Callers : Planned(c) /\ Pending(c)
  BY DEF SInv, IInv, LockInv
<1>1. ((\A d \in Callers : pc[d] \notin Visible) => Transcript = store)'
  BY TranscriptIs, PTL
<1>2. ASSUME NEW c \in Callers, NEW o \in Ops, Begin(c, o) PROVE Transcript' = Transcript
  <2>1. /\ store' = store
        /\ \A d \in Callers : pc[d] = "idle" /\ pc'[d] \in {"idle", "session"}
    BY <1>0, <1>2 DEF OneGeneration, Begin, Goto, TypeOK
  <2> QED BY <1>1, <2>1, TranscriptIs DEF Visible
<1>3. ASSUME (\E e \in Editors : EditorStep(e)) \/ UNCHANGED vars PROVE Transcript' = Transcript
  <2>1. UNCHANGED <<store, pc, local>>
    BY <1>3 DEF EditorStep, ReadNotes, SaveNote, vars
  <2> QED BY <2>1 DEF Transcript, Writers
<1>4. ASSUME Crash PROVE StoryOf!Next \/ Transcript' = Transcript
  <2>1. store' = store /\ \A d \in Callers : pc'[d] = "idle"
    BY <1>4 DEF Crash
  <2>2. Transcript' = store
    BY <1>1, <2>1 DEF Visible
  <2>3. CASE \A d \in Callers : pc[d] \notin Visible
    BY <2>2, <2>3, TranscriptIs
  <2>4. ASSUME NEW c \in Callers, pc[c] \in Visible
        PROVE  StoryOf!Next \/ Transcript' = Transcript
    <3>1. \A d \in Callers : d # c => pc[d] \notin Visible
      BY <1>0, <2>4 DEF OneGeneration, Visible
    <3>2. Transcript = local[c].hist
      BY <2>4, <3>1, TranscriptIs
    <3> QED BY <1>0, <2>2, <2>4, <3>2, TornTurn
  <2> QED BY <2>3, <2>4
<1> QED BY <1>2, <1>3, <1>4, TurnImplements DEF Next

\* The writes of chat_service.py, message by message and torn by whatever fails, implement
\* a transcript that moves by whole turns.
THEOREM TurnsImplementStory == Spec => ImplementsStory
<1>1. Init => StoryOf!Init
  <2> SUFFICES ASSUME Init PROVE StoryOf!Init
    OBVIOUS
  <2>1. Transcript = store
    BY TranscriptIs DEF Init, Visible
  <2>2. Len(store) <= 1
    <3>1. CASE store = <<>>
      BY <3>1
    <3>2. CASE store = <<Opening>>
      BY <3>2
    <3> QED BY <3>1, <3>2 DEF Init
  <2> QED BY <2>1, <2>2 DEF StoryOf!Init
<1>2. SInv /\ [Next]_vars => [StoryOf!Next]_Transcript
  BY StepImplements
<1> QED BY <1>1, <1>2, StoryInductive, PTL DEF Spec, ImplementsStory, StoryOf!Spec
=============================================================================
