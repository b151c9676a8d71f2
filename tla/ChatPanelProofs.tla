--------------------------- MODULE ChatPanelProofs ---------------------------
(***************************************************************************)
(* What holds of ChatTurns while the admin panel deletes messages at any   *)
(* moment, for any number of callers, notes and messages: a reply answers  *)
(* what is stored before it or was deleted under it, and, as long as no    *)
(* deletion and turn overlap, traces stay with the reply they describe.    *)
(***************************************************************************)
EXTENDS ChatPanel, ChatTurnsProofs

\* n is the id of a message that stands before s[i], or is among the ids X.
Accounted(n, s, i, X) == n \in X \/ \E k \in 1..(i - 1) : s[k].id = n

\* RepliesAnswerStoredMessages, of any sequence of messages and deleted ids.
GroundedIn(s, X) ==
  \A i \in 1..Len(s) : s[i].turn > 0 =>
    \A j \in DOMAIN s[i].basis : Accounted(s[i].basis[j], s, i, X)

\* What the coroutine of caller c may rely on, whatever the panel deletes meanwhile: what
\* it has loaded is still stored or was deleted under it, and its saves stay grounded.
GroundPlanned(c) ==
  LET v == local[c] IN
  /\ pc[c] \in {"generate", "again"} =>
       /\ v.op = "retry" => Retryable(v.hist)
       /\ GroundedIn(v.hist, undercut)
       /\ \A i \in 1..Len(v.hist) : Accounted(v.hist[i].id, store, Len(store) + 1, undercut)
  /\ pc[c] \in {"consume", "clear", "write"} => v.todo # <<>>
  /\ pc[c] = "consume" /\ v.op # "retry" => GroundedIn(store \o v.todo, undercut)
  /\ pc[c] = "consume" /\ v.op = "retry" => GroundedIn(v.todo, undercut)
  /\ pc[c] = "clear" => GroundedIn(v.todo, undercut)
  /\ pc[c] = "write" => GroundedIn(store \o v.todo, undercut)

GroundInv == LockInv /\ GroundedIn(store, undercut) /\ \A c \in Callers : GroundPlanned(c)

\* A message the system holds: its id is used up, a turn number makes it a reply, and a
\* trace that describes it is filed under that number.
Filed(m, n, T) ==
  /\ m.id < n
  /\ m.turn > 0 => m.role = "character"
  /\ \A t \in T : t.reply = m.id => t.turn = m.turn

AllFiled(s, n, T) == \A i \in 1..Len(s) : Filed(s[i], n, T)

FiledInv ==
  /\ AllFiled(store, nextId, traces)
  /\ \A c \in Callers : AllFiled(local[c].hist, nextId, traces) /\ AllFiled(local[c].todo, nextId, traces)
  /\ traces \subseteq [turn : Nat \ {0}, reply : Nat]
  /\ \A t \in traces : t.reply < nextId
  /\ deleted \subseteq Nat
  /\ \A d \in deleted : d < nextId

\* As long as no deletion and turn overlap: what is known of ChatTurns holds, the traces of
\* a deleted reply wait to be swept, and nothing stored has a number that is swept.
Uncrossed ==
  /\ RInv
  /\ \A t \in traces : t.reply \in deleted => t.turn \in sweeping
  /\ \A k \in sweeping : k > 0 /\ \A i \in 1..Len(store) : store[i].turn # k

PanelInv == GroundInv /\ FiledInv /\ (~crossed => Uncrossed)
-----------------------------------------------------------------------------
(* Grounded sequences of messages.                                         *)

\* A tail can be cut off.
LEMMA GroundedPrefix ==
  ASSUME NEW s \in Seq(Message), NEW t \in Seq(Message), NEW X, Len(s) <= Len(t),
         \A i \in 1..Len(s) : s[i] = t[i], GroundedIn(t, X)
  PROVE  GroundedIn(s, X)
<1> SUFFICES ASSUME NEW i \in 1..Len(s), s[i].turn > 0, NEW j \in DOMAIN s[i].basis
             PROVE  Accounted(s[i].basis[j], s, i, X)
  BY DEF GroundedIn
<1>1. i \in 1..Len(t) /\ s[i] = t[i] /\ \A k \in 1..(i - 1) : s[k] = t[k]
  OBVIOUS
<1>2. Accounted(t[i].basis[j], t, i, X)
  BY <1>1 DEF GroundedIn
<1> QED BY <1>1, <1>2 DEF Accounted

\* A history goes on with a message written from what it holds.
LEMMA GroundedAppend ==
  ASSUME NEW s \in Seq(Message), NEW m \in Message, NEW X, GroundedIn(s, X),
         m.turn > 0 => \A j \in DOMAIN m.basis : Accounted(m.basis[j], s, Len(s) + 1, X)
  PROVE  GroundedIn(Append(s, m), X)
<1> DEFINE t == Append(s, m)
<1>1. /\ t \in Seq(Message) /\ Len(s) \in Nat /\ Len(t) = Len(s) + 1
      /\ t[Len(s) + 1] = m
      /\ \A i \in 1..Len(s) : t[i] = s[i]
  OBVIOUS
<1> HIDE DEF t
<1> SUFFICES ASSUME NEW i \in 1..Len(t), t[i].turn > 0, NEW j \in DOMAIN t[i].basis
             PROVE  Accounted(t[i].basis[j], t, i, X)
  BY <1>1 DEF GroundedIn, t
<1>2. CASE i \in 1..Len(s)
  <2>1. t[i] = s[i] /\ \A k \in 1..(i - 1) : t[k] = s[k]
    BY <1>1, <1>2
  <2>2. Accounted(s[i].basis[j], s, i, X)
    BY <1>2, <2>1 DEF GroundedIn
  <2> QED BY <2>1, <2>2 DEF Accounted
<1>3. CASE i = Len(s) + 1
  <2>1. Accounted(m.basis[j], s, Len(s) + 1, X)
    BY <1>1, <1>3
  <2>2. \A k \in 1..(i - 1) : t[k] = s[k]
    BY <1>1, <1>3
  <2> QED BY <1>1, <1>3, <2>1, <2>2 DEF Accounted
<1> QED BY <1>1, <1>2, <1>3

\* A message goes, and its id is remembered.
LEMMA GroundedCut ==
  ASSUME NEW s \in Seq(Message), NEW t \in Seq(Message), NEW X, s # <<>>, GroundedIn(s \o t, X)
  PROVE  GroundedIn(Front(s) \o t, X \cup {Last(s).id})
<1> DEFINE a == s \o t
           b == Front(s) \o t
           n == Len(s)
<1>1. /\ n \in Nat \ {0} /\ Len(t) \in Nat
      /\ Front(s) \in Seq(Message) /\ Len(Front(s)) = n - 1
      /\ \A i \in 1..(n - 1) : Front(s)[i] = s[i]
      /\ Last(s) = s[n]
  BY FrontType DEF Last
<1>2. /\ Len(a) = n + Len(t) /\ Len(b) = n - 1 + Len(t)
      /\ \A i \in 1..n : a[i] = s[i]
      /\ \A i \in 1..Len(b) : b[i] = IF i < n THEN a[i] ELSE a[i + 1]
  <2>1. Len(a) = n + Len(t) /\ \A i \in 1..(n + Len(t)) : a[i] = IF i <= n THEN s[i] ELSE t[i - n]
    BY <1>1, ConcatProperties
  <2>2. /\ Len(b) = n - 1 + Len(t)
        /\ \A i \in 1..(n - 1 + Len(t)) : b[i] = IF i <= n - 1 THEN s[i] ELSE t[i - (n - 1)]
    <3> DEFINE f == Front(s)
    <3>1. /\ n - 1 \in Nat /\ f \in Seq(Message) /\ Len(f) = n - 1
          /\ \A i \in 1..(n - 1) : f[i] = s[i]
      BY <1>1
    <3> HIDE DEF f, n
    <3>2. /\ Len(f \o t) = Len(f) + Len(t)
          /\ \A i \in 1..(Len(f) + Len(t)) :
               (f \o t)[i] = IF i <= Len(f) THEN f[i] ELSE t[i - Len(f)]
      BY <3>1, ConcatProperties
    <3>3. \A i \in 1..(n - 1 + Len(t)) : i <= n - 1 => i \in 1..(n - 1)
      BY <1>1, <3>1
    <3> QED BY <1>1, <3>1, <3>2, <3>3 DEF f
  <2> HIDE DEF a, b, n
  <2>3. \A i \in 1..n : a[i] = s[i]
    BY <1>1, <2>1
  <2>4. ASSUME NEW i \in 1..Len(b) PROVE b[i] = IF i < n THEN a[i] ELSE a[i + 1]
    <3>1. CASE i < n
      <4>1. i \in 1..n /\ i \in 1..(n - 1 + Len(t)) /\ i <= n - 1
        BY <1>1, <2>2, <3>1
      <4>2. b[i] = s[i]
        BY <2>2, <4>1
      <4>3. a[i] = s[i]
        BY <2>3, <4>1
      <4> QED BY <3>1, <4>2, <4>3
    <3>2. CASE ~(i < n)
      <4>1. i + 1 \in 1..(n + Len(t)) /\ ~(i + 1 <= n) /\ ~(i <= n - 1) /\ i + 1 - n = i - (n - 1)
        BY <1>1, <2>2, <3>2
      <4>2. a[i + 1] = t[i + 1 - n]
        BY <1>1, <2>1, <4>1
      <4>3. i \in 1..(n - 1 + Len(t)) /\ b[i] = t[i - (n - 1)]
        BY <1>1, <2>2, <4>1
      <4> QED BY <1>1, <3>2, <4>1, <4>2, <4>3
    <3> QED BY <3>1, <3>2
  <2> QED BY <2>1, <2>2, <2>3, <2>4
<1> HIDE DEF a, b, n
<1>3. \A i \in 1..Len(a) : a[i].turn > 0 =>
        \A j \in DOMAIN a[i].basis : Accounted(a[i].basis[j], a, i, X)
  BY DEF GroundedIn, a
<1> SUFFICES ASSUME NEW i \in 1..Len(b), b[i].turn > 0, NEW j \in DOMAIN b[i].basis
             PROVE  Accounted(b[i].basis[j], b, i, X \cup {Last(s).id})
  BY DEF GroundedIn, b
<1>4. CASE i < n
  <2>1. b[i] = a[i] /\ i \in 1..Len(a)
    <3>1. b[i] = a[i]
      BY <1>2, <1>4
    <3>2. i \in 1..Len(a)
      <4>1. Len(a) = n + Len(t) /\ Len(b) = n - 1 + Len(t) /\ n \in Nat \ {0} /\ Len(t) \in Nat
        BY <1>1, <1>2
      <4> QED BY <4>1
    <3> QED BY <3>1, <3>2
  <2>3. ASSUME NEW k \in 1..(i - 1) PROVE b[k] = a[k]
    <3>1. k \in 1..Len(b) /\ k < n
      BY <1>1, <1>2, <1>4
    <3> QED BY <1>2, <3>1
  <2>2. Accounted(a[i].basis[j], a, i, X)
    BY <1>3, <2>1
  <2> QED BY <2>1, <2>2, <2>3 DEF Accounted
<1>5. CASE ~(i < n)
  <2>1. b[i] = a[i + 1] /\ i + 1 \in 1..Len(a)
    BY <1>1, <1>2, <1>5
  <2>2. Accounted(a[i + 1].basis[j], a, i + 1, X)
    BY <1>3, <2>1
  <2>3. ASSUME NEW k \in 1..i, a[k].id = b[i].basis[j]
        PROVE  Accounted(b[i].basis[j], b, i, X \cup {Last(s).id})
    <3>1. CASE k < n
      <4>1. k \in 1..(i - 1) /\ b[k] = a[k]
        BY SMTT(30), <1>1, <1>2, <1>5, <3>1
      <4> QED BY <2>3, <4>1 DEF Accounted
    <3>2. CASE k = n
      BY <1>1, <1>2, <2>3, <3>2 DEF Accounted
    <3>3. CASE k > n
      <4>1. k - 1 \in 1..(i - 1) /\ b[k - 1] = a[k]
        BY <1>1, <1>2, <1>5, <3>3
      <4> QED BY <2>3, <4>1 DEF Accounted
    <3> QED BY <1>1, <3>1, <3>2, <3>3
  <2> QED BY <2>1, <2>2, <2>3 DEF Accounted
<1> QED BY <1>1, <1>4, <1>5

\* What a sequence holds, a longer one holds too.
LEMMA AccountedOn ==
  ASSUME NEW n, NEW s, NEW t, NEW i \in Nat, NEW k \in Nat, i <= k, NEW X, Accounted(n, s, i, X),
         \A h \in 1..(i - 1) : s[h] = t[h]
  PROVE  Accounted(n, t, k, X)
<1>1. CASE n \in X
  BY <1>1 DEF Accounted
<1>2. ASSUME NEW h \in 1..(i - 1), s[h].id = n PROVE Accounted(n, t, k, X)
  BY <1>2 DEF Accounted
<1> QED BY <1>1, <1>2 DEF Accounted

\* The saves of a turn whose history was partly deleted under it: the reply is accounted
\* for by what is left before it and by what was deleted.
LEMMA MessagesGrounded ==
  ASSUME NEW v \in Locals, NEW finish \in Finishes, NEW blank \in BOOLEAN, NEW tries \in 1..2,
         nextId \in Nat, NEW X, NEW s \in Seq(Message), GroundedIn(s, X), GroundedIn(v.hist, X),
         \A i \in 1..Len(v.hist) : Accounted(v.hist[i].id, s, Len(s) + 1, X),
         v.op = "retry" => Retryable(v.hist)
  PROVE  LET r == Reply(v, finish, blank, tries) IN
         /\ v.op # "retry" => GroundedIn(s \o Messages(v, r), X)
         /\ v.op = "retry" => GroundedIn(Messages(v, r), X)
<1> DEFINE r == Reply(v, finish, blank, tries)
           p == Plain(nextId, "user")
           w == Context(v)
<1>0. v.hist \in Seq(Message)
  BY DEF Locals
<1>1. /\ r \in Message /\ p \in Message /\ p.turn = 0
      /\ v.hist \in Seq(Message) /\ w \in Seq(Message)
      /\ Len(s) \in Nat /\ Len(v.hist) \in Nat
  BY <1>0, ReplyType, PlainType, ContextType
<1>2. DOMAIN r.basis = 1..Len(w) /\ \A j \in 1..Len(w) : r.basis[j] = w[j].id
  BY DEF Reply, Ids
<1>3. v.op \in {"send", "continue", "retry"}
  BY DEF Locals, Ops
<1> HIDE DEF r, p, w
<1>4. CASE v.op = "send"
  <2> DEFINE h == Append(s, p)
  <2>1. w = Append(v.hist, p) /\ Messages(v, r) = <<p, r>>
    BY <1>4 DEF Context, Messages, w, p
  <2>2. GroundedIn(h, X)
    BY <1>1, GroundedAppend
  <2>3. /\ h \in Seq(Message) /\ Len(h) = Len(s) + 1 /\ h[Len(s) + 1] = p
        /\ \A i \in 1..Len(s) : h[i] = s[i]
    BY <1>1
  <2>4. Append(h, r) = s \o <<p, r>>
    BY <1>1
  <2> HIDE DEF h
  <2>5. ASSUME NEW j \in 1..Len(w) PROVE Accounted(w[j].id, h, Len(h) + 1, X)
    <3>1. CASE j \in 1..Len(v.hist)
      <4>1. w[j] = v.hist[j] /\ Accounted(v.hist[j].id, s, Len(s) + 1, X)
        BY <1>1, <2>1, <3>1
      <4>2. /\ Len(s) + 1 \in Nat /\ Len(h) + 1 \in Nat /\ Len(s) + 1 <= Len(h) + 1
            /\ \A k \in 1..(Len(s) + 1 - 1) : s[k] = h[k]
        BY <1>1, <2>3
      <4> QED BY <4>1, <4>2, AccountedOn
    <3>2. CASE j = Len(v.hist) + 1
      <4>1. w[j] = p
        BY <1>1, <2>1, <3>2
      <4>2. Len(s) + 1 \in 1..(Len(h) + 1 - 1) /\ h[Len(s) + 1].id = w[j].id
        BY <1>1, <2>3, <4>1
      <4> QED BY <4>2 DEF Accounted
    <3>3. Len(w) = Len(v.hist) + 1
      BY <1>1, <2>1
    <3> QED BY <1>1, <3>1, <3>2, <3>3
  <2>6. GroundedIn(Append(h, r), X)
    BY <1>1, <1>2, <2>2, <2>3, <2>5, GroundedAppend
  <2> QED BY <1>4, <2>1, <2>4, <2>6 DEF r
<1>5. CASE v.op = "continue"
  <2>1. w = v.hist /\ Messages(v, r) = <<r>>
    BY <1>5 DEF Context, Trimmed, Messages, w
  <2>2. GroundedIn(Append(s, r), X)
    BY <1>1, <1>2, <2>1, GroundedAppend
  <2>3. Append(s, r) = s \o <<r>>
    BY <1>1
  <2> QED BY <1>5, <2>1, <2>2, <2>3 DEF r
<1>6. CASE v.op = "retry"
  <2>1. w = Front(v.hist) /\ Messages(v, r) = Append(w, r)
    BY <1>6 DEF Trimmed, Context, Messages, w
  <2>2. v.hist # <<>>
    BY <1>1, <1>6 DEF Retryable
  <2>3. Len(w) <= Len(v.hist) /\ \A i \in 1..Len(w) : w[i] = v.hist[i]
    <3>1. Len(w) = Len(v.hist) - 1 /\ \A i \in 1..(Len(v.hist) - 1) : w[i] = v.hist[i]
      BY <1>1, <2>1, <2>2, FrontType
    <3> QED BY <1>1, <3>1
  <2>4. GroundedIn(w, X)
    BY <1>1, <2>3, GroundedPrefix
  <2>5. Len(w) \in Nat /\ \A j \in 1..Len(w) : Accounted(w[j].id, w, Len(w) + 1, X)
    BY <1>1 DEF Accounted
  <2>6. GroundedIn(Append(w, r), X)
    BY <1>1, <1>2, <2>4, <2>5, GroundedAppend
  <2> QED BY <1>6, <2>1, <2>6 DEF r
<1> QED BY <1>3, <1>4, <1>5, <1>6
-----------------------------------------------------------------------------
(* What a turn's step does to the ground its reply stands on.              *)

\* A turn that ends, or a caller that has none, relies on nothing.
LEMMA IdleNeedsNoGround == ASSUME NEW d \in Callers, pc'[d] = "idle" PROVE GroundPlanned(d)'
BY DEF GroundPlanned

\* A final reply turns what was loaded, and what is left of it, into grounded saves.
LEMMA AcceptGrounds ==
  ASSUME TypeOK, NEW c \in Callers, NEW finish \in Finishes, NEW blank \in BOOLEAN,
         NEW tries \in 1..2, Accept(c, Reply(local[c], finish, blank, tries)),
         store' = store, undercut' = undercut, GroundedIn(store, undercut),
         GroundedIn(local[c].hist, undercut),
         \A i \in 1..Len(local[c].hist) :
           Accounted(local[c].hist[i].id, store, Len(store) + 1, undercut),
         local[c].op = "retry" => Retryable(local[c].hist)
  PROVE  GroundPlanned(c)'
<1> DEFINE v == local[c]
           r == Reply(v, finish, blank, tries)
<1>1. v \in Locals /\ r \in Message
  BY ReplyType DEF TypeOK
<1>2. CASE ~Usable(r)
  <2>1. pc' = [pc EXCEPT ![c] = "idle"]
    BY <1>2 DEF Accept, Release, Goto
  <2> QED  BY <2>1, IdleNeedsNoGround DEF TypeOK
<1>3. CASE Usable(r)
  <2>1. /\ local' = [local EXCEPT ![c].reply = r, ![c].todo = Messages(v, r)]
        /\ pc' = [pc EXCEPT ![c] = "consume"]
    BY <1>3 DEF Accept, Goto
  <2>2. pc'[c] = "consume" /\ local'[c].todo = Messages(v, r) /\ local'[c].op = v.op
    BY <1>1, <2>1 DEF TypeOK, Locals
  <2>3. /\ Messages(v, r) # <<>>
        /\ v.op # "retry" => GroundedIn(store \o Messages(v, r), undercut)
        /\ v.op = "retry" => GroundedIn(Messages(v, r), undercut)
    BY <1>1, MessagesType, MessagesGrounded DEF TypeOK
  <2> QED  BY <2>2, <2>3 DEF GroundPlanned
<1> QED  BY <1>2, <1>3

\* What one step of a turn does to its own plan and to the transcript.
LEMMA GroundStep ==
  ASSUME TypeOK, GroundedIn(store, undercut), NEW c \in Callers, GroundPlanned(c), TurnStep(c),
         undercut' = undercut
  PROVE  GroundedIn(store, undercut)' /\ GroundPlanned(c)'
<1> DEFINE Holds == GroundedIn(store, undercut)' /\ GroundPlanned(c)'
<1>0. local[c] \in Locals /\ pc[c] \in Steps
  BY DEF TypeOK
<1>1. ASSUME LoadSession(c) PROVE Holds
  <2>1. pc'[c] = "history" /\ store' = store
    BY <1>1 DEF LoadSession, Goto, TypeOK
  <2> QED  BY <2>1 DEF GroundPlanned
<1>2. ASSUME LoadHistory(c) PROVE Holds
  <2>1. CASE local[c].op = "retry" /\ ~Retryable(store)
    <3>1. pc'[c] = "idle" /\ store' = store
      BY <1>2, <2>1 DEF LoadHistory, Release, Goto, TypeOK
    <3> QED  BY <3>1, IdleNeedsNoGround
  <2>2. CASE ~(local[c].op = "retry" /\ ~Retryable(store))
    <3>1. /\ pc'[c] = "generate"
          /\ local'[c].hist = store
          /\ local'[c].op = local[c].op
          /\ store' = store
      BY <1>0, <1>2, <2>2 DEF LoadHistory, Goto, TypeOK, Locals
    <3>2. \A i \in 1..Len(store) : Accounted(store[i].id, store, Len(store) + 1, undercut)
      <4>1. Len(store) \in Nat
        BY DEF TypeOK
      <4> QED BY <4>1 DEF Accounted
    <3> QED  BY <2>2, <3>1, <3>2 DEF GroundPlanned
  <2> QED  BY <2>1, <2>2
<1>3. ASSUME NEW finish \in Finishes, NEW blank \in BOOLEAN, Generate(c, finish, blank)
      PROVE  Holds
  <2>1. /\ store' = store
        /\ local[c].op = "retry" => Retryable(local[c].hist)
        /\ GroundedIn(local[c].hist, undercut)
        /\ \A i \in 1..Len(local[c].hist) :
             Accounted(local[c].hist[i].id, store, Len(store) + 1, undercut)
    BY <1>3 DEF Generate, GroundPlanned
  <2>2. CASE Recovers(finish)
    <3>1. /\ pc'[c] = "again"
          /\ local'[c].hist = local[c].hist
          /\ local'[c].op = local[c].op
      BY <1>0, <1>3, <2>2 DEF Generate, Goto, TypeOK, Locals
    <3> QED  BY <2>1, <3>1 DEF GroundPlanned
  <2>3. CASE ~Recovers(finish)
    BY <1>3, <2>1, <2>3, AcceptGrounds DEF Generate
  <2> QED  BY <2>2, <2>3
<1>4. ASSUME NEW finish \in Finishes, NEW blank \in BOOLEAN, GenerateAgain(c, finish, blank)
      PROVE  Holds
  <2> DEFINE both == BlankTogether(local[c], blank)
  <2>1. /\ store' = store
        /\ local[c].op = "retry" => Retryable(local[c].hist)
        /\ GroundedIn(local[c].hist, undercut)
        /\ \A i \in 1..Len(local[c].hist) :
             Accounted(local[c].hist[i].id, store, Len(store) + 1, undercut)
    BY <1>4 DEF GenerateAgain, GroundPlanned
  <2>2. both \in BOOLEAN
    BY <1>0 DEF BlankTogether, Locals, Message
  <2> HIDE DEF both
  <2>3. Accept(c, Reply(local[c], finish, both, 2))
    BY <1>4 DEF GenerateAgain, both
  <2> QED  BY <2>1, <2>2, <2>3, AcceptGrounds
<1>5. ASSUME Consume(c) PROVE Holds
  <2>1. /\ pc[c] = "consume"
        /\ pc'[c] = IF local[c].op = "retry" THEN "clear" ELSE "write"
        /\ local' = local
        /\ store' = store
    BY <1>5 DEF Consume, Goto, TypeOK
  <2> QED  BY <2>1 DEF GroundPlanned
<1>6. ASSUME Clear(c) PROVE Holds
  <2>1. /\ pc[c] = "clear"
        /\ pc'[c] = "write"
        /\ local' = local
        /\ store' = <<>>
    BY <1>6 DEF Clear, Goto, TypeOK
  <2>2. local[c].todo \in Seq(Message)
    BY <1>0 DEF Locals
  <2>3. store' \o local'[c].todo = local[c].todo
    BY <2>1, <2>2, ConcatEmptySeq
  <2>4. GroundedIn(store', undercut')
    BY <2>1 DEF GroundedIn
  <2> QED  BY <2>1, <2>3, <2>4 DEF GroundPlanned
<1>7. ASSUME WriteNext(c) PROVE Holds
  <2> DEFINE todo == local[c].todo
  <2>1. /\ pc[c] = "write"
        /\ todo \in Seq(Message)
        /\ todo # <<>>
        /\ store \in Seq(Message)
        /\ GroundedIn(store \o todo, undercut)
    BY <1>0, <1>7 DEF WriteNext, GroundPlanned, Locals, TypeOK
  <2>2. /\ store' = Append(store, Head(todo))
        /\ local'[c].todo = Tail(todo)
        /\ pc'[c] = IF Len(todo) = 1 THEN "finish" ELSE "write"
    BY <1>0, <1>7 DEF WriteNext, Goto, TypeOK, Locals
  <2> HIDE DEF todo
  <2>3. /\ store' \in Seq(Message)
        /\ Len(store') = Len(store) + 1
        /\ \A i \in 1..Len(store') : store'[i] = (store \o todo)[i]
    BY <2>1, <2>2
  <2>4. store \o todo \in Seq(Message) /\ Len(store') <= Len(store \o todo)
    BY <2>1, <2>3
  <2>5. GroundedIn(store', undercut)
    BY <2>1, <2>3, <2>4, GroundedPrefix
  <2>6. store' \o Tail(todo) = store \o todo /\ (Len(todo) # 1 => Tail(todo) # <<>>)
    BY <2>1, <2>2, WriteMoves
  <2> QED  BY <2>1, <2>2, <2>5, <2>6 DEF GroundPlanned
<1>8. ASSUME Finish(c) \/ Fail(c) PROVE Holds
  <2>1. pc'[c] = "idle" /\ store' = store
    BY <1>8 DEF Finish, Fail, Release, Goto, TypeOK
  <2> QED  BY <2>1, IdleNeedsNoGround
<1> QED  BY <1>1, <1>2, <1>3, <1>4, <1>5, <1>6, <1>7, <1>8 DEF TurnStep
-----------------------------------------------------------------------------
(* The steps of the panel.                                                 *)

\* A step of ChatTurns keeps the types and the lock.
LEMMA LockHolds == GroundInv /\ [Next]_vars => LockInv'
BY TypeStep, LockStep DEF GroundInv, GroundPlanned, LockInv

\* Every step but a deletion is one of ChatTurns and deletes nothing.
LEMMA OtherSteps ==
  [PanelNext]_panelVars =>
    \/ DeleteLastMessage
    \/ /\ [Next]_vars /\ UNCHANGED <<undercut, deleted>>
       /\ \/ \E c \in Callers : TurnStep(c)
          \/ \E c \in Callers, o \in Ops : Begin(c, o)
          \/ Crash
          \/ UNCHANGED vars
BY DEF PanelNext, TurnNext, TracedTurnStep, DeleteTraces, PanelCrash, panelVars, Next, vars

\* A deletion outside a turn: nobody relies on anything.  In a turn: what the turn relied on
\* may be gone, but under its eyes.
LEMMA DeleteGrounds ==
  ASSUME GroundInv, DeleteLastMessage
  PROVE  GroundInv'
<1> DEFINE m == Last(store)
<1>1. /\ TypeOK /\ OneGeneration /\ GroundedIn(store, undercut) /\ store # <<>>
      /\ store \in Seq(Message) /\ Len(store) \in Nat
      /\ UNCHANGED <<notes, generating, pc, local, editing, asked, nextId>>
      /\ store' = Front(store)
      /\ undercut' = IF generating THEN undercut \cup {m.id} ELSE undercut
  BY DEF GroundInv, LockInv, TypeOK, DeleteLastMessage
<1>2. /\ store' \in Seq(Message) /\ Len(store') = Len(store) - 1
      /\ \A i \in 1..Len(store') : store'[i] = store[i]
      /\ m = store[Len(store)]
  BY <1>1, FrontType DEF Last
<1>3. LockInv'
  BY <1>1, <1>2 DEF LockInv, TypeOK, OneGeneration
<1>4. GroundedIn(store, undercut)'
  <2>1. GroundedIn(store', undercut)
    BY <1>1, <1>2, GroundedPrefix
  <2> QED BY <1>1, <2>1 DEF GroundedIn, Accounted
<1>5. ASSUME NEW c \in Callers PROVE GroundPlanned(c)'
  <2>1. CASE pc[c] = "idle"
    BY <1>1, <2>1, IdleNeedsNoGround
  <2>2. CASE pc[c] # "idle"
    <3> DEFINE v == local[c]
    <3>1. generating /\ undercut' = undercut \cup {m.id}
      BY <1>1, <2>2 DEF OneGeneration
    <3>2. v \in Locals /\ v.todo \in Seq(Message) /\ GroundPlanned(c)
      BY <1>1 DEF TypeOK, Locals, GroundInv
    <3>3. ASSUME NEW s, GroundedIn(s, undercut) PROVE GroundedIn(s, undercut')
      BY <3>1, <3>3 DEF GroundedIn, Accounted
    <3>4. ASSUME NEW n, Accounted(n, store, Len(store) + 1, undercut)
          PROVE  Accounted(n, store', Len(store') + 1, undercut')
      <4>1. CASE n \in undercut
        BY <3>1, <4>1 DEF Accounted
      <4>2. ASSUME NEW k \in 1..Len(store), store[k].id = n
            PROVE  Accounted(n, store', Len(store') + 1, undercut')
        <5>1. CASE k = Len(store)
          BY <1>2, <3>1, <4>2, <5>1 DEF Accounted
        <5>2. CASE k # Len(store)
          <6>1. k \in 1..(Len(store') + 1 - 1) /\ store'[k].id = n
            BY <1>1, <1>2, <4>2, <5>2
          <6> QED BY <6>1 DEF Accounted
        <5> QED BY <5>1, <5>2
      <4>3. 1..(Len(store) + 1 - 1) = 1..Len(store)
        BY <1>1
      <4> QED BY <3>4, <4>1, <4>2, <4>3 DEF Accounted
    <3>5. GroundedIn(store \o v.todo, undercut) => GroundedIn(store' \o v.todo, undercut')
      BY <1>1, <3>1, <3>2, GroundedCut
    <3> QED BY <1>1, <3>2, <3>3, <3>4, <3>5 DEF GroundPlanned
  <2> QED BY <2>1, <2>2
<1> QED BY <1>3, <1>4, <1>5 DEF GroundInv

\* No step takes the ground away.
LEMMA GroundNext == GroundInv /\ [PanelNext]_panelVars => GroundInv'
<1> SUFFICES ASSUME GroundInv, [PanelNext]_panelVars, ~DeleteLastMessage PROVE GroundInv'
  BY DeleteGrounds
<1>0. /\ TypeOK /\ OneGeneration /\ GroundedIn(store, undercut)
      /\ \A d \in Callers : GroundPlanned(d)
      /\ undercut' = undercut /\ LockInv'
  BY OtherSteps, LockHolds DEF GroundInv, LockInv
<1>1. ASSUME NEW c \in Callers, NEW o \in Ops, Begin(c, o) PROVE GroundInv'
  <2>1. /\ store' = store
        /\ \A d \in Callers : d # c => pc'[d] = "idle"
        /\ pc'[c] = "session"
    BY <1>0, <1>1 DEF OneGeneration, Begin, Goto, TypeOK
  <2>2. GroundPlanned(c)'
    BY <2>1 DEF GroundPlanned
  <2> QED BY <1>0, <2>1, <2>2, IdleNeedsNoGround DEF GroundInv
<1>2. ASSUME NEW c \in Callers, TurnStep(c) PROVE GroundInv'
  <2>1. \A d \in Callers : d # c => pc[d] = "idle"
    BY <1>0, <1>2, StepKeepsLockOrReleases DEF OneGeneration
  <2>2. \E at : pc' = [pc EXCEPT ![c] = at]
    BY <1>2, StepKeepsLockOrReleases DEF Release, Goto
  <2>3. \A d \in Callers : d # c => pc'[d] = "idle"
    BY <1>0, <2>1, <2>2 DEF TypeOK
  <2>4. GroundedIn(store, undercut)' /\ GroundPlanned(c)'
    BY <1>0, <1>2, GroundStep
  <2> QED BY <1>0, <2>3, <2>4, IdleNeedsNoGround DEF GroundInv
<1>3. CASE Crash
  <2>1. store' = store /\ \A d \in Callers : pc'[d] = "idle"
    BY <1>3 DEF Crash
  <2> QED BY <1>0, <2>1, IdleNeedsNoGround DEF GroundInv
<1>4. CASE UNCHANGED vars
  BY <1>0, <1>4 DEF vars, GroundInv, GroundPlanned
<1> QED BY <1>1, <1>2, <1>3, <1>4, OtherSteps

LEMMA GroundInit == PanelInit => GroundInv
<1> SUFFICES ASSUME PanelInit PROVE GroundInv
  OBVIOUS
<1>1. IInv /\ Init
  BY InitIInv DEF PanelInit
<1>2. \A i \in 1..Len(store) : store[i].turn = 0
  <2>1. CASE store = <<>>
    BY <2>1
  <2>2. CASE store = <<Opening>>
    BY <2>2, PlainType DEF Opening
  <2> QED BY <1>1, <2>1, <2>2 DEF Init
<1>3. GroundedIn(store, undercut)
  BY <1>2 DEF GroundedIn
<1>4. \A c \in Callers : GroundPlanned(c)
  BY <1>1 DEF Init, GroundPlanned
<1> QED BY <1>1, <1>3, <1>4 DEF IInv, GroundInv

\* No reply is left answering messages that no longer exist, except those that were deleted
\* in the middle of the turn that wrote it: the last-only rule of delete_last_message, at
\* whatever moment of whatever turn the panel deletes.
THEOREM RepliesStandOnTheirGround == PanelSpec => []RepliesAnswerStoredMessages
<1>1. GroundInv => RepliesAnswerStoredMessages
  <2> SUFFICES ASSUME GroundInv PROVE RepliesAnswerStoredMessages
    OBVIOUS
  <2>1. DOMAIN store = 1..Len(store)
    BY DEF GroundInv, LockInv, TypeOK
  <2> QED BY <2>1 DEF GroundInv, GroundedIn, Accounted, RepliesAnswerStoredMessages
<1> QED BY <1>1, GroundInit, GroundNext, PTL DEF PanelSpec
-----------------------------------------------------------------------------
(* Messages and the traces that describe them.                             *)

\* Filed messages stay filed when ids are used up and traces of newer replies come in, or
\* traces go.
LEMMA FiledLater ==
  ASSUME NEW s \in Seq(Message), NEW n \in Nat, NEW p \in Nat, n <= p, NEW T, NEW U,
         \A t \in U : t \in T \/ t.reply >= n, AllFiled(s, n, T)
  PROVE  AllFiled(s, p, U)
<1> SUFFICES ASSUME NEW i \in 1..Len(s) PROVE Filed(s[i], p, U)
  BY DEF AllFiled
<1>1. s[i].id \in Nat
  <2>1. s[i] \in Message
    OBVIOUS
  <2> QED BY <2>1 DEF Message
<1>2. Filed(s[i], n, T)
  BY DEF AllFiled
<1>3. ASSUME NEW t \in U, t.reply = s[i].id PROVE t.turn = s[i].turn
  BY <1>1, <1>2, <1>3 DEF Filed
<1> QED BY <1>1, <1>2, <1>3 DEF Filed

\* A part of filed messages is filed.
LEMMA FiledPart ==
  ASSUME NEW s, NEW t, NEW n, NEW T, AllFiled(t, n, T),
         \A i \in 1..Len(s) : \E j \in 1..Len(t) : s[i] = t[j]
  PROVE  AllFiled(s, n, T)
BY DEF AllFiled

LEMMA FiledAppend ==
  ASSUME NEW s \in Seq(Message), NEW m \in Message, NEW n, NEW T, AllFiled(s, n, T), Filed(m, n, T)
  PROVE  AllFiled(Append(s, m), n, T)
<1> SUFFICES ASSUME NEW i \in 1..Len(Append(s, m)) PROVE Filed(Append(s, m)[i], n, T)
  BY DEF AllFiled
<1>1. CASE i \in 1..Len(s)
  BY <1>1 DEF AllFiled
<1>2. CASE i = Len(s) + 1
  BY <1>2
<1> QED BY <1>1, <1>2

\* What a turn's step does to the messages it holds: it fixes its reply and its saves, and
\* uses up two ids; or it loads, saves, clears and drops what it has.
LEMMA TurnHolds ==
  ASSUME TypeOK, NEW c \in Callers, TurnStep(c),
         pc[c] = "write" => local[c].todo # <<>>
  PROVE  LET v == local[c]
             w == local'[c] IN
         \/ /\ pc[c] \in {"generate", "again"} /\ pc'[c] = "consume"
            /\ nextId' = nextId + 2 /\ store' = store
            /\ w.hist = v.hist
            /\ \E finish \in Finishes, blank \in BOOLEAN, tries \in 1..2 :
                 w.todo = Messages(v, Reply(v, finish, blank, tries))
         \/ /\ ~(pc[c] \in {"generate", "again"} /\ pc'[c] = "consume")
            /\ nextId' = nextId
            /\ w.hist \in {v.hist, store, <<>>}
            /\ w.todo = v.todo \/ w.todo = <<>> \/ (v.todo # <<>> /\ w.todo = Tail(v.todo))
            /\ \/ store' = store \/ store' = <<>>
               \/ v.todo # <<>> /\ store' = Append(store, Head(v.todo))
<1> DEFINE v == local[c]
           w == local'[c]
           Goal == \/ /\ pc[c] \in {"generate", "again"} /\ pc'[c] = "consume"
                      /\ nextId' = nextId + 2 /\ store' = store
                      /\ w.hist = v.hist
                      /\ \E finish \in Finishes, blank \in BOOLEAN, tries \in 1..2 :
                           w.todo = Messages(v, Reply(v, finish, blank, tries))
                   \/ /\ ~(pc[c] \in {"generate", "again"} /\ pc'[c] = "consume")
                      /\ nextId' = nextId
                      /\ w.hist \in {v.hist, store, <<>>}
                      /\ w.todo = v.todo \/ w.todo = <<>> \/ (v.todo # <<>> /\ w.todo = Tail(v.todo))
                      /\ \/ store' = store \/ store' = <<>>
                         \/ v.todo # <<>> /\ store' = Append(store, Head(v.todo))
<1>0. v \in Locals /\ NoLocals.hist = <<>> /\ NoLocals.todo = <<>>
  BY DEF TypeOK, NoLocals
<1>1. CASE LoadSession(c) \/ LoadHistory(c)
  BY <1>0, <1>1 DEF LoadSession, LoadHistory, Release, Goto, TypeOK, Locals
<1>2. ASSUME NEW finish \in Finishes, NEW blank \in BOOLEAN, NEW tries \in 1..2,
             Accept(c, Reply(v, finish, blank, tries)),
             pc[c] \in {"generate", "again"}, store' = store
      PROVE  Goal
  <2> DEFINE r == Reply(v, finish, blank, tries)
  <2>1. CASE ~Usable(r)
    <3>1. pc'[c] = "idle" /\ w = NoLocals /\ nextId' = nextId
      BY <1>2, <2>1 DEF Accept, Release, Goto, TypeOK
    <3> QED BY <1>0, <1>2, <3>1
  <2>2. CASE Usable(r)
    <3>1. pc'[c] = "consume" /\ nextId' = nextId + 2
      BY <1>2, <2>2 DEF Accept, Goto, TypeOK
    <3>2. local' = [local EXCEPT ![c].reply = r, ![c].todo = Messages(v, r)]
      BY <1>2, <2>2 DEF Accept
    <3> HIDE DEF r
    <3>3. w.hist = v.hist /\ w.todo = Messages(v, r)
      BY <1>0, <3>2 DEF TypeOK, Locals
    <3> QED BY <1>2, <3>1, <3>3 DEF r
  <2> QED BY <2>1, <2>2
<1>3. ASSUME NEW finish \in Finishes, NEW blank \in BOOLEAN, Generate(c, finish, blank)
      PROVE  Goal
  <2>1. CASE Recovers(finish)
    <3>1. pc'[c] = "again" /\ w.hist = v.hist /\ w.todo = v.todo /\ nextId' = nextId /\ store' = store
      BY <1>0, <1>3, <2>1 DEF Generate, Goto, TypeOK, Locals
    <3> QED BY <3>1
  <2>2. CASE ~Recovers(finish)
    BY <1>2, <1>3, <2>2 DEF Generate
  <2> QED BY <2>1, <2>2
<1>4. ASSUME NEW finish \in Finishes, NEW blank \in BOOLEAN, GenerateAgain(c, finish, blank)
      PROVE  Goal
  <2> DEFINE both == BlankTogether(v, blank)
  <2>1. both \in BOOLEAN
    BY <1>0 DEF BlankTogether, Locals, Message
  <2> HIDE DEF both
  <2>2. Accept(c, Reply(v, finish, both, 2)) /\ pc[c] = "again" /\ store' = store
    BY <1>4 DEF GenerateAgain, both
  <2> QED BY <1>2, <2>1, <2>2
<1>5. CASE Consume(c) \/ Clear(c)
  BY <1>5 DEF Consume, Clear
<1>6. CASE WriteNext(c)
  BY <1>0, <1>6 DEF WriteNext, TypeOK, Locals
<1>7. CASE Finish(c) \/ Fail(c)
  <2>1. w = NoLocals /\ pc'[c] = "idle" /\ store' = store /\ nextId' = nextId
    BY <1>7 DEF Finish, Fail, Release, Goto, TypeOK
  <2> QED BY <1>0, <2>1
<1> QED BY <1>1, <1>3, <1>4, <1>5, <1>6, <1>7 DEF TurnStep

\* The saves of a turn are filed, its new reply under the number of its trace.
LEMMA MessagesFiled ==
  ASSUME NEW v \in Locals, NEW finish \in Finishes, NEW blank \in BOOLEAN, NEW tries \in 1..2,
         NEW n \in Nat, n = nextId, NEW T, AllFiled(v.hist, n + 2, T),
         \A t \in T : t.reply < n \/ t = [turn |-> Turn(Trimmed(v)), reply |-> n + 1],
         \A t \in T : t.reply \in Nat
  PROVE  AllFiled(Messages(v, Reply(v, finish, blank, tries)), n + 2, T)
<1> DEFINE r == Reply(v, finish, blank, tries)
           p == Plain(nextId, "user")
<1>0. v.hist \in Seq(Message) /\ v.op \in {"send", "continue", "retry"}
  BY DEF Locals, Ops
<1>1. r \in Message /\ p \in Message /\ Trimmed(v) \in Seq(Message)
  BY ReplyType, PlainType, TrimmedType
<1>2. r.id = n + 1 /\ r.role = "character" /\ r.turn = Turn(Trimmed(v))
  BY DEF Reply
<1>3. p.id = n /\ p.turn = 0
  BY DEF Plain
<1>4. \A t \in T : t.reply = n + 1 => t.turn = Turn(Trimmed(v))
  OBVIOUS
<1>5. \A t \in T : t.reply # n
  OBVIOUS
<1> HIDE DEF r, p
<1>6. Filed(r, n + 2, T) /\ Filed(p, n + 2, T)
  BY <1>2, <1>3, <1>4, <1>5 DEF Filed
<1>7. CASE v.op = "send"
  <2>1. Messages(v, r) = <<p, r>>
    BY <1>7 DEF Messages, p
  <2> QED BY <1>6, <2>1 DEF AllFiled, r
<1>8. CASE v.op = "continue"
  <2>1. Messages(v, r) = <<r>>
    BY <1>8 DEF Messages
  <2> QED BY <1>6, <2>1 DEF AllFiled, r
<1>9. CASE v.op = "retry"
  <2>1. Messages(v, r) = Append(Trimmed(v), r) /\ Trimmed(v) = Front(v.hist)
    BY <1>9 DEF Messages, Trimmed
  <2>2. AllFiled(Trimmed(v), n + 2, T)
    <3>1. CASE v.hist = <<>>
      <4>1. Len(v.hist) = 0
        BY <3>1
      <4>2. Trimmed(v) = <<>>
        BY <2>1, <4>1, SubSeqEmpty DEF Front
      <4> QED BY <4>2 DEF AllFiled
    <3>2. CASE v.hist # <<>>
      <4>1. /\ Len(v.hist) \in Nat /\ Len(Trimmed(v)) = Len(v.hist) - 1
            /\ \A i \in 1..(Len(v.hist) - 1) : Trimmed(v)[i] = v.hist[i]
        BY <1>0, <2>1, <3>2, FrontType
      <4> QED BY <4>1, FiledPart
    <3> QED BY <3>1, <3>2
  <2> QED BY <1>1, <1>6, <2>1, <2>2, FiledAppend DEF r
<1> QED BY <1>0, <1>7, <1>8, <1>9

\* A step of a turn: its trace, if it leaves one, describes the reply it fixes.
LEMMA FiledTurn ==
  ASSUME GroundInv, FiledInv, NEW c \in Callers, TracedTurnStep(c), deleted' = deleted
  PROVE  FiledInv'
<1> DEFINE v == local[c]
           w == local'[c]
           n == nextId
<1>0. /\ TypeOK /\ TurnStep(c) /\ n \in Nat /\ store \in Seq(Message)
      /\ v \in Locals /\ v.hist \in Seq(Message) /\ v.todo \in Seq(Message)
      /\ pc[c] = "write" => v.todo # <<>>
  BY DEF GroundInv, LockInv, TypeOK, TracedTurnStep, Locals, GroundPlanned
<1>1. \A d \in Callers : d # c => local'[d] = local[d]
  BY <1>0, TurnLocal DEF TypeOK
<1>2. /\ AllFiled(store, n, traces) /\ AllFiled(v.hist, n, traces) /\ AllFiled(v.todo, n, traces)
      /\ \A t \in traces : t.turn \in Nat \ {0} /\ t.reply \in Nat /\ t.reply < n
  BY DEF FiledInv
<1>3. CASE pc[c] \in {"generate", "again"} /\ pc'[c] = "consume"
  <2> DEFINE new == Trace(c)
  <2>1. traces' = traces \cup {new}
    BY <1>3 DEF TracedTurnStep
  <2>2. /\ nextId' = n + 2 /\ store' = store /\ w.hist = v.hist
        /\ \E finish \in Finishes, blank \in BOOLEAN, tries \in 1..2 :
             w.todo = Messages(v, Reply(v, finish, blank, tries))
    BY <1>0, <1>3, TurnHolds
  <2>3. new = [turn |-> Turn(Trimmed(v)), reply |-> n + 1] /\ new.turn \in Nat \ {0} /\ new.reply = n + 1
    BY <1>0, TrimmedType, TurnType DEF Trace
  <2> HIDE DEF new
  <2>4. \A t \in traces' : /\ t \in traces \/ t.reply >= n
                           /\ t.reply \in Nat /\ t.reply < nextId'
    BY <1>0, <1>2, <2>1, <2>2, <2>3
  <2>5. ASSUME NEW s \in Seq(Message), AllFiled(s, n, traces) PROVE AllFiled(s, nextId', traces')
    <3>1. n + 2 \in Nat /\ n <= n + 2
      BY <1>0
    <3> QED BY <1>0, <2>2, <2>4, <2>5, <3>1, FiledLater
  <2>6. AllFiled(w.todo, nextId', traces')
    <3>1. PICK finish \in Finishes, blank \in BOOLEAN, tries \in 1..2 :
            w.todo = Messages(v, Reply(v, finish, blank, tries))
      BY <2>2
    <3>2. AllFiled(v.hist, n + 2, traces')
      BY <1>0, <1>2, <2>2, <2>5
    <3>3. \A t \in traces' : /\ t.reply < n \/ t = [turn |-> Turn(Trimmed(v)), reply |-> n + 1]
                             /\ t.reply \in Nat
      BY <1>2, <2>1, <2>3, <2>4
    <3>4. AllFiled(Messages(v, Reply(v, finish, blank, tries)), n + 2, traces')
      BY <1>0, <3>2, <3>3, MessagesFiled
    <3> QED BY <2>2, <3>1, <3>4
  <2>7. ASSUME NEW d \in Callers, d # c
        PROVE  AllFiled(local'[d].hist, nextId', traces') /\ AllFiled(local'[d].todo, nextId', traces')
    <3>1. local[d].hist \in Seq(Message) /\ local[d].todo \in Seq(Message) /\ local'[d] = local[d]
      BY <1>0, <1>1, <2>7 DEF TypeOK, Locals
    <3> QED BY <2>5, <3>1 DEF FiledInv
  <2>8. AllFiled(w.hist, nextId', traces') /\ AllFiled(store', nextId', traces')
    BY <1>0, <1>2, <2>2, <2>5
  <2>9. traces' \subseteq [turn : Nat \ {0}, reply : Nat]
    BY <1>0, <2>1, <2>3 DEF FiledInv
  <2>10. deleted' \subseteq Nat /\ \A d \in deleted' : d < nextId'
    BY <1>0, <2>2 DEF FiledInv
  <2> HIDE DEF w
  <2>11. \A d \in Callers : AllFiled(local'[d].hist, nextId', traces') /\ AllFiled(local'[d].todo, nextId', traces')
    BY <2>6, <2>7, <2>8 DEF w
  <2> QED BY <2>4, <2>8, <2>9, <2>10, <2>11 DEF FiledInv
<1>4. CASE ~(pc[c] \in {"generate", "again"} /\ pc'[c] = "consume")
  <2>1. traces' = traces
    BY <1>4 DEF TracedTurnStep
  <2>2. /\ nextId' = n
        /\ w.hist \in {v.hist, store, <<>>}
        /\ w.todo = v.todo \/ w.todo = <<>> \/ (v.todo # <<>> /\ w.todo = Tail(v.todo))
        /\ \/ store' = store \/ store' = <<>>
           \/ v.todo # <<>> /\ store' = Append(store, Head(v.todo))
    BY <1>0, <1>4, TurnHolds
  <2>3. AllFiled(<<>>, n, traces)
    BY DEF AllFiled
  <2>4. AllFiled(w.hist, n, traces)
    BY <1>2, <2>2, <2>3
  <2>5. ASSUME v.todo # <<>>
        PROVE  AllFiled(Tail(v.todo), n, traces) /\ AllFiled(Append(store, Head(v.todo)), n, traces)
    <3>1. /\ Head(v.todo) = v.todo[1] /\ Head(v.todo) \in Message /\ 1 \in 1..Len(v.todo)
          /\ Len(v.todo) \in Nat
          /\ Len(Tail(v.todo)) = Len(v.todo) - 1
          /\ \A i \in 1..(Len(v.todo) - 1) : Tail(v.todo)[i] = v.todo[i + 1]
      BY <1>0, <2>5, HeadTailProperties
    <3>2. AllFiled(Tail(v.todo), n, traces)
      <4>1. \A i \in 1..Len(Tail(v.todo)) : i + 1 \in 1..Len(v.todo) /\ Tail(v.todo)[i] = v.todo[i + 1]
        BY <3>1
      <4> QED BY <1>2, <4>1, FiledPart
    <3>3. Filed(Head(v.todo), n, traces)
      BY <1>2, <3>1 DEF AllFiled
    <3> QED BY <1>0, <1>2, <3>1, <3>2, <3>3, FiledAppend
  <2>6. AllFiled(w.todo, n, traces) /\ AllFiled(store', n, traces)
    BY <1>2, <2>2, <2>3, <2>5
  <2> HIDE DEF w
  <2>7. \A d \in Callers : AllFiled(local'[d].hist, n, traces) /\ AllFiled(local'[d].todo, n, traces)
    BY <1>1, <2>4, <2>6 DEF FiledInv, w
  <2> QED BY <2>1, <2>2, <2>6, <2>7 DEF FiledInv
<1> QED BY <1>3, <1>4

\* No step files a message under another's number.
LEMMA FiledNext == GroundInv /\ FiledInv /\ [PanelNext]_panelVars => FiledInv'
<1> SUFFICES ASSUME GroundInv, FiledInv, [PanelNext]_panelVars PROVE FiledInv'
  OBVIOUS
<1>0. TypeOK /\ store \in Seq(Message) /\ nextId \in Nat
  BY DEF GroundInv, LockInv, TypeOK
<1>1. ASSUME NEW c \in Callers, TracedTurnStep(c), deleted' = deleted PROVE FiledInv'
  BY <1>1, FiledTurn
<1>2. ASSUME NEW c \in Callers, NEW o \in Ops, Begin(c, o), UNCHANGED <<traces, deleted>> PROVE FiledInv'
  <2>1. \A d \in Callers : local'[d].hist = local[d].hist /\ local'[d].todo = local[d].todo
    BY <1>0, <1>2 DEF Begin, TypeOK, Locals
  <2> QED BY <1>2, <2>1 DEF Begin, FiledInv
<1>3. CASE DeleteLastMessage
  <2>1. /\ Len(store) \in Nat /\ store # <<>> /\ store' = Front(store) /\ Len(store') = Len(store) - 1
        /\ \A i \in 1..(Len(store) - 1) : store'[i] = store[i]
        /\ Len(store) \in 1..Len(store) /\ Last(store) = store[Len(store)]
        /\ UNCHANGED <<local, nextId, traces>> /\ deleted' = deleted \cup {Last(store).id}
    BY <1>0, <1>3, FrontType DEF DeleteLastMessage, Last
  <2>2. AllFiled(store', nextId, traces)
    BY <2>1, FiledPart DEF FiledInv
  <2>3. Last(store).id \in Nat /\ Last(store).id < nextId
    <3>1. Last(store) \in Message
      BY <1>0, <2>1
    <3> QED BY <2>1, <3>1 DEF FiledInv, AllFiled, Filed, Message
  <2> QED BY <2>1, <2>2, <2>3 DEF FiledInv
<1>4. ASSUME NEW turn \in sweeping, DeleteTraces(turn) PROVE FiledInv'
  <2>1. traces' \subseteq traces /\ UNCHANGED <<store, local, nextId, deleted>>
    BY <1>4 DEF DeleteTraces, vars
  <2>2. ASSUME NEW s, AllFiled(s, nextId, traces) PROVE AllFiled(s, nextId, traces')
    BY <2>1, <2>2 DEF AllFiled, Filed
  <2> QED BY <2>1, <2>2 DEF FiledInv
<1>5. CASE PanelCrash
  <2>1. /\ UNCHANGED <<store, nextId, traces, deleted>>
        /\ \A d \in Callers : local'[d].hist = <<>> /\ local'[d].todo = <<>>
    BY <1>5 DEF PanelCrash, Crash, NoLocals
  <2>2. AllFiled(<<>>, nextId, traces)
    BY DEF AllFiled
  <2> QED BY <2>1, <2>2 DEF FiledInv
<1>6. CASE UNCHANGED panelVars
  BY <1>6 DEF panelVars, vars, FiledInv
<1> QED BY <1>1, <1>2, <1>3, <1>4, <1>5, <1>6 DEF PanelNext, TurnNext
-----------------------------------------------------------------------------
(* As long as no deletion and turn overlap.                                *)

\* Two stored replies never share a number.
LEMMA NumbersTell ==
  ASSUME NEW s \in Seq(Message), NumberedIn(s), NEW i \in 1..Len(s), NEW j \in 1..Len(s), i < j,
         s[i].turn > 0, s[j].turn > 0, s[j].role = "character"
  PROVE  s[i].turn < s[j].turn
<1> DEFINE A == {k \in 1..i : s[k].role = "character"}
           B == {k \in 1..j : s[k].role = "character"}
<1>1. s[i].turn = Cardinality(A) /\ s[j].turn = Cardinality(B)
  BY DEF NumberedIn
<1>2. IsFiniteSet(A) /\ IsFiniteSet(B)
  <2>1. A \subseteq 1..i /\ B \subseteq 1..j /\ i \in Int /\ j \in Int
    OBVIOUS
  <2>2. IsFiniteSet(1..i) /\ IsFiniteSet(1..j)
    BY <2>1, FS_Interval
  <2> HIDE DEF A, B
  <2> QED BY <2>1, <2>2, FS_Subset
<1>3. A \subseteq B /\ j \in B /\ j \notin A
  OBVIOUS
<1> HIDE DEF A, B
<1>4. Cardinality(A \cup {j}) = Cardinality(A) + 1 /\ IsFiniteSet(A \cup {j})
  BY <1>2, <1>3, FS_AddElement
<1>5. Cardinality(A \cup {j}) <= Cardinality(B)
  <2>1. A \cup {j} \subseteq B
    BY <1>3
  <2> QED BY <1>2, <2>1, FS_Subset
<1>6. Cardinality(A) \in Nat /\ Cardinality(B) \in Nat
  BY <1>2, FS_CardinalityType
<1> QED BY <1>1, <1>4, <1>5, <1>6

\* A deletion between turns takes the newest number, and only from the reply that has it.
LEMMA DeleteUncrossed ==
  ASSUME GroundInv, FiledInv, Uncrossed, DeleteLastMessage, ~generating
  PROVE  Uncrossed'
<1> DEFINE m == Last(store)
           n == Len(store)
<1>0. /\ TypeOK /\ OneGeneration /\ store \in Seq(Message) /\ n \in Nat \ {0}
      /\ AnsweredIn(store) /\ NumberedIn(store)
      /\ UNCHANGED <<notes, generating, pc, local, editing, asked, nextId, traces>>
      /\ store' = Front(store)
      /\ deleted' = deleted \cup {m.id}
      /\ sweeping' = IF m.turn > 0 THEN sweeping \cup {m.turn} ELSE sweeping
      /\ m = store[n]
  BY EmptySeq DEF Uncrossed, RInv, IInv, GroundInv, LockInv, TypeOK, DeleteLastMessage, Last
<1>1. /\ store' \in Seq(Message) /\ Len(store') = n - 1
      /\ \A i \in 1..(n - 1) : store'[i] = store[i]
  BY <1>0, FrontType
<1>2. \A c \in Callers : pc'[c] = "idle"
  BY <1>0 DEF OneGeneration
<1>3. RInv'
  <2>1. LockInv'
    BY DeleteGrounds DEF GroundInv
  <2>2. AnsweredIn(store') /\ NumberedIn(store')
    BY <1>0, <1>1, AnsweredPrefix, NumberedPrefix
  <2> QED BY <1>2, <2>1, <2>2, IdlePlansNothing, IdleCarriesNothing DEF RInv, IInv
<1> HIDE DEF m
<1>4. Filed(m, nextId, traces) /\ m \in Message
  BY <1>0 DEF FiledInv, AllFiled
<1>5. ASSUME NEW t \in traces', t.reply \in deleted' PROVE t.turn \in sweeping'
  <2>1. CASE t.reply \in deleted
    BY <1>0, <2>1 DEF Uncrossed
  <2>2. CASE t.reply = m.id
    <3>1. t.turn = m.turn /\ t.turn \in Nat \ {0}
      BY <1>0, <1>4, <2>2 DEF Filed, FiledInv
    <3> QED BY <1>0, <3>1
  <2> QED BY <1>0, <1>5, <2>1, <2>2
<1>6. ASSUME NEW k \in sweeping', NEW i \in 1..Len(store') PROVE k > 0 /\ store'[i].turn # k
  <2>1. i \in 1..n /\ i < n /\ store'[i] = store[i]
    BY <1>0, <1>1
  <2>2. CASE k \in sweeping
    BY <2>1, <2>2 DEF Uncrossed
  <2>3. CASE m.turn > 0 /\ k = m.turn
    <3>1. m.role = "character" /\ m.turn \in Nat /\ store[i].turn \in Nat
      <4>1. store[i] \in Message
        BY <1>0, <2>1
      <4> QED BY <1>4, <2>3, <4>1 DEF Filed, Message
    <3>2. store[i].turn > 0 => store[i].turn < m.turn
      BY <1>0, <2>1, <2>3, <3>1, NumbersTell
    <3> QED BY <2>1, <2>3, <3>1, <3>2
  <2> QED BY <1>0, <1>6, <2>2, <2>3
<1>7. \A k \in sweeping' : k > 0
  BY <1>0 DEF Uncrossed
<1> QED BY <1>3, <1>5, <1>6, <1>7 DEF Uncrossed

\* What does not overlap keeps traces with their replies.
LEMMA UncrossedNext == PanelInv /\ [PanelNext]_panelVars => (~crossed => Uncrossed)'
<1> SUFFICES ASSUME PanelInv, [PanelNext]_panelVars, ~crossed' PROVE Uncrossed'
  OBVIOUS
<1>0. GroundInv /\ FiledInv /\ (~crossed => Uncrossed)
  BY DEF PanelInv
<1>1. [Next]_vars /\ Uncrossed => RInv'
  BY RInvNext DEF Uncrossed
<1>2. CASE TurnNext
  <2>1. /\ ~crossed /\ sweeping = {} /\ sweeping' = {} /\ deleted' = deleted
        /\ [Next]_vars
        /\ \A t \in traces' : t \in traces \/ t.reply = nextId + 1
    <3>1. ~crossed /\ sweeping = {} /\ sweeping' = {} /\ deleted' = deleted
      BY <1>2 DEF TurnNext
    <3>2. [Next]_vars
      BY <1>2 DEF TurnNext, TracedTurnStep, Next
    <3>3. \A t \in traces' : t \in traces \/ t.reply = nextId + 1
      BY <1>2 DEF TurnNext, TracedTurnStep, Trace
    <3> QED BY <3>1, <3>2, <3>3
  <2>2. nextId + 1 \notin deleted
    BY <1>0 DEF FiledInv, GroundInv, LockInv, TypeOK
  <2> QED BY <1>0, <1>1, <2>1, <2>2 DEF Uncrossed
<1>3. CASE DeleteLastMessage
  BY <1>0, <1>3, DeleteUncrossed DEF DeleteLastMessage
<1>4. ASSUME NEW turn \in sweeping, DeleteTraces(turn) PROVE Uncrossed'
  <2>1. /\ ~crossed /\ UNCHANGED <<vars, deleted>> /\ sweeping' = sweeping \ {turn}
        /\ \A t \in traces' : t \in traces /\ t.turn # turn
    BY <1>4 DEF DeleteTraces
  <2>2. store' = store
    BY <2>1 DEF vars
  <2>3. RInv'
    BY <1>0, <1>1, <2>1
  <2> QED BY <1>0, <2>1, <2>2, <2>3 DEF Uncrossed
<1>5. CASE PanelCrash
  <2>1. /\ ~crossed /\ sweeping' = sweeping /\ UNCHANGED <<store, traces, deleted>> /\ [Next]_vars
    BY <1>5 DEF PanelCrash, Crash, Next
  <2> QED BY <1>0, <1>1, <2>1 DEF Uncrossed
<1>6. CASE UNCHANGED panelVars
  <2>1. UNCHANGED <<vars, store, traces, deleted, sweeping, crossed>>
    BY <1>6 DEF panelVars, vars
  <2> QED BY <1>0, <1>1, <2>1 DEF Uncrossed
<1> QED BY <1>2, <1>3, <1>4, <1>5, <1>6 DEF PanelNext

LEMMA PanelInductive == PanelSpec => []PanelInv
<1>1. PanelInit => PanelInv
  <2> SUFFICES ASSUME PanelInit PROVE PanelInv
    OBVIOUS
  <2>1. Init /\ traces = {} /\ deleted = {} /\ sweeping = {}
    BY DEF PanelInit
  <2>2. AllFiled(store, nextId, traces)
    <3>1. CASE store = <<>>
      BY <3>1 DEF AllFiled
    <3>2. CASE store = <<Opening>>
      BY <2>1, <3>2 DEF AllFiled, Filed, Opening, Plain, Init
    <3> QED BY <2>1, <3>1, <3>2 DEF Init
  <2>3. \A c \in Callers : local[c].hist = <<>> /\ local[c].todo = <<>>
    BY <2>1 DEF Init, NoLocals
  <2>4. AllFiled(<<>>, nextId, traces)
    BY DEF AllFiled
  <2>5. FiledInv
    BY <2>1, <2>2, <2>3, <2>4 DEF FiledInv
  <2>6. Uncrossed
    BY <2>1, InitRInv DEF Uncrossed
  <2> QED BY <2>5, <2>6, GroundInit DEF PanelInv
<1>2. PanelInv /\ [PanelNext]_panelVars => PanelInv'
  BY GroundNext, FiledNext, UncrossedNext DEF PanelInv
<1> QED BY <1>1, <1>2, PTL DEF PanelSpec

\* Whoever inherits the number of a deleted reply inherits none of its traces, and no reply
\* shows another's, as long as no deletion and turn overlap: _resolve_turn's numbers after
\* any deletions (delete_last_message, delete_for_turn), retries and crashes.
THEOREM TracesStayWithTheirReplies == PanelSpec => []NoStaleTrace
<1>1. PanelInv => NoStaleTrace
  <2> SUFFICES ASSUME PanelInv, ~crossed, sweeping = {}, NEW i \in DOMAIN store, NEW t \in traces,
                      store[i].turn > 0, t.turn = store[i].turn, t.reply > 0
               PROVE  /\ t.reply \notin deleted
                      /\ \A j \in DOMAIN store : store[j].id = t.reply => j = i
    BY DEF NoStaleTrace
  <2>1. Uncrossed /\ store \in Seq(Message) /\ DOMAIN store = 1..Len(store) /\ NumberedIn(store)
    BY DEF PanelInv, Uncrossed, RInv, IInv, LockInv, TypeOK
  <2>2. \A j \in 1..Len(store) : Filed(store[j], nextId, traces)
    BY DEF PanelInv, FiledInv, AllFiled
  <2>3. t.reply \notin deleted
    BY <2>1 DEF Uncrossed
  <2>4. ASSUME NEW j \in DOMAIN store, store[j].id = t.reply PROVE j = i
    <3>1. store[j].turn = store[i].turn /\ store[i].role = "character" /\ store[j].role = "character"
      BY <2>1, <2>2, <2>4 DEF Filed
    <3>2. store[i].turn \in Nat
      <4>1. store[i] \in Message
        BY <2>1
      <4> QED BY <4>1 DEF Message
    <3>3. ~(i < j) /\ ~(j < i)
      BY <2>1, <3>1, <3>2, NumbersTell
    <3> QED BY <2>1, <3>3
  <2> QED BY <2>3, <2>4
<1> QED BY <1>1, PanelInductive, PTL

\* A sweep by turn number takes no trace of a reply that stays, as long as no deletion and
\* turn overlap (delete_for_turn of the generation trace store).
THEOREM SweepsSpareTheStored == PanelSpec => SweepSparesStored
<1> DEFINE Spared == ~crossed => \A t \in traces \ traces', i \in DOMAIN store :
                       t.reply > 0 => store[i].id # t.reply
<1>1. PanelInv /\ [PanelNext]_panelVars => Spared
  <2> SUFFICES ASSUME PanelInv, [PanelNext]_panelVars, ~crossed,
                      NEW t \in traces, t \notin traces', NEW i \in DOMAIN store
               PROVE  store[i].id # t.reply
    OBVIOUS
  <2>1. PICK turn \in sweeping : traces' = {x \in traces : x.turn # turn}
    BY DEF PanelNext, TurnNext, TracedTurnStep, DeleteLastMessage, DeleteTraces, PanelCrash, panelVars
  <2>2. t.turn \in sweeping
    BY <2>1
  <2>3. Uncrossed /\ DOMAIN store = 1..Len(store)
    BY DEF PanelInv, GroundInv, LockInv, TypeOK
  <2>4. Filed(store[i], nextId, traces) /\ store[i].turn # t.turn
    BY <2>2, <2>3 DEF PanelInv, FiledInv, AllFiled, Uncrossed
  <2> QED BY <2>4 DEF Filed
<1> QED BY <1>1, PanelInductive, PTL DEF PanelSpec, SweepSparesStored
=============================================================================
