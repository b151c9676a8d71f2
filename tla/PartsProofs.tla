----------------------------- MODULE PartsProofs -----------------------------
(***************************************************************************)
(* What the parts keep, for any number of users, stories, rules, callers,  *)
(* texts and files: per part an inductive invariant over its variables,    *)
(* which hold still while another part runs, one lemma per step or kind of *)
(* step, and the theorem.  Those of the rolling summary and of the recall  *)
(* are in MemoryProofs.                                                    *)
(***************************************************************************)
EXTENDS Parts, FiniteSetTheorems, SequenceTheorems, WellFoundedInduction, TLAPS
-----------------------------------------------------------------------------
(* Extremes of sets of numbers (the library has them for well-founded orders).             *)

\* A set of numbers has a least one ...
LEMMA NatMin ==
  ASSUME NEW T \in SUBSET Nat, T # {}
  PROVE  \E x \in T : \A y \in T : x <= y
<1>1. PICK x \in T : \A y \in T : ~(<<y, x>> \in OpToRel(<, Nat))
  BY NatLessThanWellFounded, WFMin
<1>2. ASSUME NEW y \in T PROVE x <= y
  <2>1. ~(<<y, x>> \in OpToRel(<, Nat))
    BY <1>1
  <2> QED BY <2>1 DEF OpToRel
<1> QED BY <1>2

\* ... and one that is bounded a greatest.
LEMMA NatMax ==
  ASSUME NEW n \in Nat, NEW T \in SUBSET (0..n), T # {}
  PROVE  \E x \in T : \A y \in T : y <= x
<1> DEFINE U == {n - x : x \in T}
<1>1. U \in SUBSET Nat /\ U # {}
  <2>1. \A y \in T : n - y \in Nat
    OBVIOUS
  <2> QED BY <2>1
<1>2. PICK u \in U : \A y \in U : u <= y
  <2> HIDE DEF U
  <2> QED BY <1>1, NatMin
<1>3. PICK x \in T : u = n - x
  OBVIOUS
<1>4. ASSUME NEW y \in T PROVE y <= x
  <2>1. n - y \in U
    OBVIOUS
  <2> HIDE DEF U
  <2>2. u <= n - y
    BY <1>2, <2>1
  <2> QED BY <1>3, <2>2
<1> QED BY <1>4

\* What holds of 0 and, if of a number, of the next, holds of all.
LEMMA Climb ==
  ASSUME NEW P, 0 \in P, \A n \in Nat : n \in P => n + 1 \in P
  PROVE  Nat \subseteq P
<1> SUFFICES ASSUME Nat \ P # {} PROVE FALSE
  OBVIOUS
<1>1. PICK x \in Nat \ P : \A y \in Nat \ P : x <= y
  BY NatMin
<1>2. x # 0 /\ x - 1 \in Nat
  BY <1>1
<1>3. x - 1 \in P
  BY <1>1, <1>2
<1>4. (x - 1) + 1 = x
  BY <1>1
<1> QED BY <1>1, <1>2, <1>3, <1>4

\* A recursion over 0..n has a solution.
LEMMA Recursion ==
  ASSUME NEW S, NEW base \in S, NEW n \in Nat, NEW following \in [1..n -> [S -> S]]
  PROVE  \E f \in [0..n -> S] : f[0] = base /\ \A i \in 1..n : f[i] = following[i][f[i - 1]]
<1> DEFINE Solves(f, m) == /\ f \in [0..m -> S] /\ f[0] = base
                           /\ \A i \in 1..m : f[i] = following[i][f[i - 1]]
           P == {m \in Nat : m <= n => \E f : Solves(f, m)}
<1>1. 0 \in P
  <2>1. Solves([i \in 0..0 |-> base], 0)
    OBVIOUS
  <2> QED BY <2>1
<1>2. ASSUME NEW m \in Nat, m \in P PROVE m + 1 \in P
  <2> SUFFICES ASSUME m + 1 <= n PROVE \E f : Solves(f, m + 1)
    OBVIOUS
  <2>1. PICK g : Solves(g, m)
    BY <1>2
  <2>2. PICK f : f = [i \in 0..m + 1 |-> IF i = m + 1 THEN following[m + 1][g[m]] ELSE g[i]]
    OBVIOUS
  <2>3. g[m] \in S /\ following[m + 1] \in [S -> S]
    BY <2>1
  <2>4. following[m + 1][g[m]] \in S
    BY <2>3
  <2>5. f \in [0..m + 1 -> S]
    BY <2>1, <2>2, <2>4
  <2>6. /\ f[m + 1] = following[m + 1][g[m]]
        /\ \A i \in 0..m : f[i] = g[i]
    BY <2>2
  <2>7. ASSUME NEW i \in 1..m + 1 PROVE f[i] = following[i][f[i - 1]]
    <3>1. CASE i = m + 1
      BY <2>6, <3>1
    <3>2. CASE i # m + 1
      <4>1. i \in 1..m /\ i - 1 \in 0..m /\ i \in 0..m
        BY <3>2
      <4> QED BY <2>1, <2>6, <4>1
    <3> QED BY <3>1, <3>2
  <2>8. f[0] = base
    BY <2>1, <2>6
  <2> QED BY <2>5, <2>7, <2>8
<1>3. n \in P
  <2> HIDE DEF P
  <2> QED BY <1>1, <1>2, Climb
<1> QED BY <1>3
-----------------------------------------------------------------------------
(* FeedbackTakenBack of Feedback.                                          *)

\* Outside the body of a turn and the steps of stop nothing types and nothing is held;
\* from the moment stop has awaited the task, nothing types any more.
NothingLeft ==
  /\ turn \in {"idle", "greet", "bare", "reply"} => typing \in {"none", "over"} /\ ~temp
  /\ turn = "delete" => typing = "over"

\* Every message left behind cost a failed call or a death.
EachStrayPaid ==
  /\ stray \in Nat /\ failed \in Nat
  /\ stray <= failed

SignsInv == NothingLeft /\ EachStrayPaid

\* The steps of start.
LEMMA StartsClean == ASSUME SignsInv, Signs!Select \/ Signs!Unstarted \/ Signs!Greet PROVE SignsInv'
<1>1. CASE Signs!Select
  <2>1. turn = "idle" /\ turn' = "greet" /\ UNCHANGED <<typing, temp, stray, failed>>
    BY <1>1 DEF Signs!Select
  <2> QED BY <2>1 DEF SignsInv, NothingLeft, EachStrayPaid
<1>2. CASE Signs!Unstarted
  BY <1>2 DEF Signs!Unstarted, SignsInv, NothingLeft, EachStrayPaid
<1>3. CASE Signs!Greet
  BY <1>3 DEF Signs!Greet, Signs!Fault, SignsInv, NothingLeft, EachStrayPaid
<1> QED BY <1>1, <1>2, <1>3

\* The steps of the typing task: it runs only while the turn does.
LEMMA TypesInTurn ==
  ASSUME SignsInv, Signs!Typed \/ Signs!TypeAgain \/ Signs!Cancelled
  PROVE  SignsInv'
<1>1. /\ typing \in {"sending", "waiting"} /\ turn' = turn /\ temp' = temp /\ stray' = stray
      /\ failed' = failed \/ Signs!Fault
  BY DEF Signs!Typed, Signs!TypeAgain, Signs!Cancelled
<1>2. turn \notin {"idle", "greet", "bare", "reply", "delete"}
  BY <1>1 DEF SignsInv, NothingLeft
<1> QED BY <1>1, <1>2 DEF Signs!Fault, SignsInv, NothingLeft, EachStrayPaid

\* The steps of stop, the reply, and the death of the process.
LEMMA StopsClean ==
  ASSUME SignsInv, Signs!Stop \/ Signs!Join \/ Signs!Delete \/ Signs!Reply \/ Signs!Crash
  PROVE  SignsInv'
<1>1. CASE Signs!Stop
  BY <1>1 DEF Signs!Stop, SignsInv, NothingLeft, EachStrayPaid
<1>2. CASE Signs!Join
  BY <1>2 DEF Signs!Join, SignsInv, NothingLeft, EachStrayPaid
<1>3. CASE Signs!Delete
  BY <1>3 DEF Signs!Delete, Signs!Fault, SignsInv, NothingLeft, EachStrayPaid
<1>4. CASE Signs!Reply
  BY <1>4 DEF Signs!Reply, SignsInv, NothingLeft, EachStrayPaid
<1>5. CASE Signs!Crash
  BY <1>5 DEF Signs!Crash, Signs!Fault, SignsInv, NothingLeft, EachStrayPaid
<1> QED BY <1>1, <1>2, <1>3, <1>4, <1>5

\* No step undoes the invariant.
LEMMA SignsNext == SignsInv /\ [Next]_vars => SignsInv'
<1> SUFFICES ASSUME SignsInv, [Next]_vars PROVE SignsInv'
  OBVIOUS
<1>1. CASE UNCHANGED SignsVars
  BY <1>1 DEF SignsVars, SignsInv, NothingLeft, EachStrayPaid
<1>2. CASE Signs!Next
  BY <1>2, StartsClean, TypesInTurn, StopsClean DEF Signs!Next
<1> QED BY <1>1, <1>2 DEF Next, vars

\* When the reply goes out, the typing action has ended and the temporary message is gone,
\* but for deletions that failed and deaths of the process: stop of feedback.py.
THEOREM TakenBack == Spec => []FeedbackTakenBack
<1>1. Init => SignsInv
  BY DEF Init, Signs!Init, SignsInv, NothingLeft, EachStrayPaid
<1>2. SignsInv => FeedbackTakenBack
  BY DEF SignsInv, NothingLeft, EachStrayPaid, FeedbackTakenBack, Signs!FeedbackTakenBack
<1> QED BY <1>1, <1>2, SignsNext, PTL DEF Spec
-----------------------------------------------------------------------------
(* AccessHolds and RequestOutlivesDecision of BetaAccess.                  *)

\* What a suspended handler is; of whose request does not matter.
Handler(u) ==
  [step : {"idle", "write", "accept", "reject", "remove", "tell"}, user : {u},
   accepts : BOOLEAN, blocked : BOOLEAN]

\* A file that cannot be parsed, or is behind memory, is the work of a write that failed.
FileInStep ==
  /\ ~dirty => file.ok /\ file.ids = allowed
  /\ dirty \in BOOLEAN

\* Of a granted request whose user the panel has not blocked, the user is in already; a
\* rejected one is archived before its file goes.
GrantStands ==
  /\ betaAt \in Handler(betaAt.user)
  /\ betaAt.step \in {"remove", "tell"} /\ betaAt.accepts /\ ~betaAt.blocked => betaAt.user \in allowed
  /\ betaAt.step = "remove" /\ ~betaAt.accepts => betaAt.user \in decided
  /\ betaAt.step = "reject" => ~betaAt.accepts
  /\ betaAt.step = "accept" => betaAt.accepts
  /\ ~up => betaAt.step = "idle"

\* What AccessHolds says, while the process is down too: nothing but a start reads the file.
Decided == approved \subseteq allowed /\ blocked \cap allowed = {}

BetaInv == FileInStep /\ GrantStands /\ Decided
-----------------------------------------------------------------------------
\* Nobody is in at the start.
LEMMA BetaInit == Beta!Init => BetaInv
<1> SUFFICES ASSUME Beta!Init PROVE BetaInv
  OBVIOUS
<1>1. FileInStep
  <2>1. file.ok /\ file.ids = {}
    BY Zenon DEF Beta!Init
  <2> QED BY <2>1 DEF Beta!Init, FileInStep
<1>2. betaAt \in Handler(betaAt.user)
  BY Zenon DEF Beta!Init, Beta!Idle, Handler
<1>3. betaAt.step = "idle"
  BY DEF Beta!Init, Beta!Idle
<1> QED BY <1>1, <1>2, <1>3 DEF Beta!Init, BetaInv, GrantStands, Decided

\* A write of the allowlist leaves the file in step, or is known to have failed.
LEMMA PersistInStep ==
  ASSUME Beta!Persist(allowed')
  PROVE  FileInStep'
<1>1. CASE file' = [ok |-> TRUE, ids |-> allowed'] /\ dirty' = FALSE
  <2>1. file'.ok /\ file'.ids = allowed'
    BY <1>1, Zenon
  <2> QED BY <1>1, <2>1 DEF FileInStep
<1>2. CASE dirty' = TRUE
  BY <1>2 DEF FileInStep
<1> QED BY <1>1, <1>2 DEF Beta!Persist

\* An idle handler holds nothing.
LEMMA IdleStands == ASSUME betaAt' = Beta!Idle PROVE GrantStands'
<1>1. Beta!Idle \in Handler(Beta!Idle.user)
  BY Zenon DEF Beta!Idle, Handler
<1>2. Beta!Idle.step = "idle"
  BY DEF Beta!Idle
<1> QED BY <1>1, <1>2 DEF GrantStands

\* The panel blocks someone.
LEMMA BlockKeepsAccess == ASSUME BetaInv, NEW u \in Users, Beta!Block(u) PROVE BetaInv'
<1>1. FileInStep'
  BY PersistInStep DEF Beta!Block
<1>2. /\ allowed' = allowed \ {u} /\ approved' = approved \ {u}
      /\ blocked' \in {blocked, blocked \cup {u}}
      /\ betaAt' = [betaAt EXCEPT !.blocked = @ \/ betaAt.user = u]
      /\ up' = up /\ decided' = decided
  BY DEF Beta!Block
<1>3. GrantStands'
  <2>1. CASE betaAt.user = u
    <3>1. betaAt' = [betaAt EXCEPT !.blocked = TRUE]
      BY <1>2, <2>1, Zenon
    <3> QED BY <1>2, <3>1 DEF BetaInv, GrantStands, Handler
  <2>2. CASE betaAt.user # u
    <3>1. (betaAt.blocked \/ betaAt.user = u) = betaAt.blocked
      BY <2>2 DEF BetaInv, GrantStands, Handler
    <3>2. betaAt' = betaAt
      BY <1>2, <3>1 DEF BetaInv, GrantStands, Handler
    <3> QED BY <1>2, <2>2, <3>2 DEF BetaInv, GrantStands
  <2> QED BY <2>1, <2>2
<1>4. Decided'
  BY <1>2 DEF BetaInv, Decided
<1> QED BY <1>1, <1>3, <1>4 DEF BetaInv

\* ... or lets someone back in.
LEMMA UnblockKeepsAccess == ASSUME BetaInv, NEW u \in Users, Beta!Unblock(u) PROVE BetaInv'
<1>1. FileInStep'
  BY PersistInStep DEF Beta!Unblock
<1>2. GrantStands' /\ Decided'
  BY DEF Beta!Unblock, BetaInv, GrantStands, Handler, Decided
<1> QED BY <1>1, <1>2 DEF BetaInv

\* An admin's decision lets the user in.
LEMMA GrantKeepsAccess == ASSUME BetaInv, Beta!Grant PROVE BetaInv'
<1>1. FileInStep'
  BY PersistInStep DEF Beta!Grant
<1>2. /\ allowed' = allowed \cup {betaAt.user} /\ approved' = approved
      /\ blocked' = blocked \ {betaAt.user}
      /\ betaAt' \in {Beta!Idle, [betaAt EXCEPT !.step = "remove"]}
  BY DEF Beta!Grant
<1>3. GrantStands'
  <2>1. CASE betaAt' = Beta!Idle
    BY <2>1, IdleStands
  <2>2. CASE betaAt' = [betaAt EXCEPT !.step = "remove"]
    BY <1>2, <2>2 DEF BetaInv, GrantStands, Handler, Beta!Grant
  <2> QED BY <1>2, <2>1, <2>2
<1>4. Decided'
  BY <1>2 DEF BetaInv, Decided
<1> QED BY <1>1, <1>3, <1>4 DEF BetaInv

\* The steps of the handler that leave the allowlist and the file alone.
LEMMA HandlerKeepsAccess ==
  ASSUME BetaInv,
         \/ \E u \in Users : Beta!Beta(u)
         \/ Beta!Write \/ Beta!GrantedBefore \/ Beta!Archive \/ Beta!Unlink \/ Beta!Tell
  PROVE  BetaInv'
<1>1. FileInStep'
  BY DEF BetaInv, FileInStep, Beta!Beta, Beta!Write, Beta!GrantedBefore, Beta!Archive,
         Beta!Unlink, Beta!Tell
<1>2. GrantStands' /\ Decided'
  <2>1. ASSUME NEW u \in Users, Beta!Beta(u) PROVE GrantStands' /\ Decided'
    BY <2>1 DEF BetaInv, GrantStands, Decided, Beta!Beta, Handler, Beta!Idle
  <2>2. CASE Beta!Write
    BY <2>2 DEF BetaInv, GrantStands, Decided, Beta!Write, Handler, Beta!Idle
  <2>3. CASE Beta!GrantedBefore
    BY <2>3 DEF BetaInv, GrantStands, Decided, Beta!GrantedBefore, Handler
  <2>4. CASE Beta!Archive
    BY <2>4 DEF BetaInv, GrantStands, Decided, Beta!Archive, Handler
  <2>5. CASE Beta!Unlink
    BY <2>5 DEF BetaInv, GrantStands, Decided, Beta!Unlink, Handler
  <2>6. CASE Beta!Tell
    BY <2>6 DEF BetaInv, GrantStands, Decided, Beta!Tell, Handler, Beta!Idle
  <2> QED BY <2>1, <2>2, <2>3, <2>4, <2>5, <2>6
<1> QED BY <1>1, <1>2 DEF BetaInv

\* An admin picks a request.
LEMMA ResolveKeepsAccess ==
  ASSUME BetaInv,
         NEW verdict \in {"accept", "reject"}, NEW u \in Users, Beta!Resolve(verdict, u)
  PROVE  BetaInv'
<1> DEFINE a == (verdict = "accept")
<1>1. a \in BOOLEAN
  OBVIOUS
<1>2. betaAt' = [step |-> verdict, user |-> u, accepts |-> a, blocked |-> FALSE]
  BY Zenon DEF Beta!Resolve, Beta!Idle
<1> HIDE DEF a
<1>3. betaAt' \in Handler(betaAt'.user) /\ betaAt'.step = verdict /\ betaAt'.accepts = a
  BY <1>1, <1>2 DEF Handler
<1>4. GrantStands'
  BY <1>3 DEF GrantStands, Beta!Resolve, a
<1> QED BY <1>4 DEF Beta!Resolve, BetaInv, FileInStep, Decided

\* The process dies, is started, or its file is repaired.
LEMMA ProcessKeepsAccess ==
  ASSUME BetaInv, Beta!Crash \/ Beta!Start \/ Beta!Repair
  PROVE  BetaInv'
<1>1. CASE Beta!Crash
  <2>1. FileInStep'
    <3>1. CASE file' = file
      BY <1>1, <3>1 DEF Beta!Crash, BetaInv, FileInStep
    <3>2. CASE file' = [ok |-> FALSE, ids |-> {}]
      <4>1. ~file'.ok
        BY <3>2, Zenon
      <4> QED BY <1>1, <4>1 DEF Beta!Crash, FileInStep
    <3> QED BY <1>1, <3>1, <3>2 DEF Beta!Crash
  <2>2. GrantStands'
    BY <1>1, IdleStands DEF Beta!Crash
  <2> QED BY <1>1, <2>1, <2>2 DEF Beta!Crash, BetaInv, Decided
<1>2. CASE Beta!Start
  <2>1. FileInStep' /\ GrantStands'
    BY <1>2 DEF Beta!Start, BetaInv, FileInStep, GrantStands
  <2>2. Decided'
    BY <1>2 DEF Beta!Start, BetaInv, FileInStep, Decided
  <2> QED BY <2>1, <2>2 DEF BetaInv
<1>3. CASE Beta!Repair
  BY <1>3 DEF Beta!Repair, BetaInv, FileInStep, GrantStands, Decided
<1> QED BY <1>1, <1>2, <1>3

\* No step undoes the invariant.
LEMMA BetaNext == BetaInv /\ [Next]_vars => BetaInv'
<1> SUFFICES ASSUME BetaInv, [Next]_vars PROVE BetaInv'
  OBVIOUS
<1>1. CASE UNCHANGED BetaVars
  BY <1>1 DEF BetaVars, BetaInv, FileInStep, GrantStands, Decided
<1>2. CASE Beta!Next
  BY <1>2, BlockKeepsAccess, UnblockKeepsAccess, GrantKeepsAccess, HandlerKeepsAccess,
     ResolveKeepsAccess, ProcessKeepsAccess DEF Beta!Next
<1> QED BY <1>1, <1>2 DEF Next, vars

\* Who was told to be in stays in and who was blocked stays out, whatever is decided,
\* blocked, lost and restarted: authorization.py and the adapter's decision handlers.
THEOREM AccessStands == Spec => []AccessHolds
<1>1. Init => BetaInv
  BY BetaInit DEF Init
<1>2. BetaInv => AccessHolds
  BY DEF BetaInv, Decided, AccessHolds, Beta!AccessHolds
<1> QED BY <1>1, <1>2, BetaNext, PTL DEF Spec

\* Only _write_request and the unlinking that ends a decision touch the request files.
LEMMA UnlinkTakesOne ==
  ASSUME Beta!Next, queue \ queue' # {}
  PROVE  betaAt.step = "remove" /\ queue \ queue' \subseteq {betaAt.user}
<1>1. ASSUME NEW u \in Users, Beta!Block(u) \/ Beta!Unblock(u) \/ Beta!Beta(u) PROVE queue' = queue
  BY <1>1 DEF Beta!Block, Beta!Unblock, Beta!Beta
<1>2. ASSUME NEW u \in Users, NEW verdict \in {"accept", "reject"}, Beta!Resolve(verdict, u)
      PROVE  queue' = queue
  BY <1>2 DEF Beta!Resolve
<1>3. CASE Beta!Write
  BY <1>3 DEF Beta!Write
<1>4. CASE Beta!Unlink
  BY <1>4 DEF Beta!Unlink
<1>5. CASE Beta!Grant \/ Beta!GrantedBefore \/ Beta!Archive \/ Beta!Tell
  BY <1>5 DEF Beta!Grant, Beta!GrantedBefore, Beta!Archive, Beta!Tell
<1>6. CASE Beta!Crash \/ Beta!Start \/ Beta!Repair
  BY <1>6 DEF Beta!Crash, Beta!Start, Beta!Repair
<1> QED BY <1>1, <1>2, <1>3, <1>4, <1>5, <1>6 DEF Beta!Next

\* A request file goes only once its decision is on disk: the allowlist is persisted, or
\* the rejection archived, before the file is unlinked (beta_registry.py, adapter.py).
THEOREM DecisionFirst == Spec => RequestOutlivesDecision
<1> DEFINE Decides == \A u \in queue \ queue' : u \in decided \cup file.ids \/ betaAt.blocked \/ dirty
<1>1. ASSUME BetaInv, [Next]_vars PROVE Decides
  <2>1. CASE queue' = queue
    BY <2>1
  <2>2. CASE Beta!Next
    <3> SUFFICES ASSUME NEW u \in queue \ queue', ~betaAt.blocked, ~dirty
                 PROVE  u \in decided \cup file.ids
      OBVIOUS
    <3>1. betaAt.step = "remove" /\ u = betaAt.user
      BY <2>2, UnlinkTakesOne
    <3>2. file.ids = allowed
      BY <1>1 DEF BetaInv, FileInStep
    <3>3. betaAt.accepts => u \in allowed
      BY <1>1, <3>1 DEF BetaInv, GrantStands
    <3>4. ~betaAt.accepts => u \in decided
      BY <1>1, <3>1 DEF BetaInv, GrantStands
    <3> QED BY <3>2, <3>3, <3>4
  <2> QED BY <1>1, <2>1, <2>2 DEF Next, vars, BetaVars
<1>2. ASSUME BetaInv, [Next]_vars PROVE [Decides]_(Beta!vars)
  BY <1>1, <1>2
<1>3. Init => BetaInv
  BY BetaInit DEF Init
<1> HIDE DEF Decides
<1>4. Spec => [][Decides]_(Beta!vars)
  BY <1>2, <1>3, BetaNext, PTL DEF Spec
<1> QED BY <1>4 DEF RequestOutlivesDecision, Beta!RequestOutlivesDecision, Decides
-----------------------------------------------------------------------------
(* OneOwnerEach of Identity.                                                               *)

\* What a caller waits for.
Resolving == {"look", "lookAgain", "insert", "reread"}

\* The types; a caller that is in the middle of something resolves an identity.
OwnersTyped ==
  /\ identities \in [Identities -> Nat \cup {None}]
  /\ owners \subseteq Nat
  /\ nextId \in Nat
  /\ pc \in [Resolvers -> Resolving \cup {"idle"}]
  /\ whom \in [Resolvers -> Identities \cup {None}]
  /\ \A c \in Resolvers : pc[c] # "idle" => whom[c] \in Identities
  /\ answered \in [Identities -> SUBSET Nat]

\* What was answered is what the table says, and never taken back.
Answered == \A i \in Identities : answered[i] \subseteq {identities[i]}

Reachable == \A o \in owners : \E i \in Identities : identities[i] = o

OwnersInv == OwnersTyped /\ Answered /\ Reachable
-----------------------------------------------------------------------------
\* Nothing is answered, and nobody exists, at the start.
LEMMA OwnersInit == Owners!Init => OwnersInv
BY DEF Owners!Init, OwnersInv, OwnersTyped, Answered, Reachable

\* A caller that returns the owner the table gives to its identity.
LEMMA ReturnKeepsOwners ==
  ASSUME OwnersInv, NEW c \in Resolvers, pc[c] # "idle",
         identities[whom[c]] # None, Owners!Return(c, identities[whom[c]]),
         UNCHANGED <<owners, identities, nextId>>
  PROVE  OwnersInv'
<1>1. whom[c] \in Identities /\ identities[whom[c]] \in Nat
  BY DEF OwnersInv, OwnersTyped
<1>2. OwnersTyped'
  BY <1>1 DEF OwnersInv, OwnersTyped, Owners!Return, Owners!Goto
<1>3. Answered'
  <2> SUFFICES ASSUME NEW i \in Identities PROVE answered'[i] \subseteq {identities'[i]}
    BY DEF Answered
  <2> QED BY <1>1 DEF OwnersInv, OwnersTyped, Answered, Owners!Return
<1>4. Reachable'
  BY DEF OwnersInv, Reachable
<1> QED BY <1>2, <1>3, <1>4 DEF OwnersInv

\* The only insert into an identity's row finds it empty, so nothing was answered for it.
LEMMA InsertKeepsOwners ==
  ASSUME OwnersInv, NEW c \in Resolvers, Owners!Insert(c)
  PROVE  OwnersInv'
<1> DEFINE w == whom[c]
<1>1. w \in Identities /\ identities[w] = None /\ nextId \in Nat
  BY DEF OwnersInv, OwnersTyped, Owners!Insert
<1>2. answered[w] = {}
  BY <1>1, PartsAssumption DEF OwnersInv, OwnersTyped, Answered
<1>3. identities' = [identities EXCEPT ![w] = nextId] /\ answered' = [answered EXCEPT ![w] = @ \cup {nextId}]
  BY DEF Owners!Insert, Owners!Return
<1>4. OwnersTyped'
  BY <1>1, <1>3 DEF OwnersInv, OwnersTyped, Owners!Insert, Owners!Return, Owners!Goto, Resolving
<1>5. Answered'
  <2> SUFFICES ASSUME NEW i \in Identities PROVE answered'[i] \subseteq {identities'[i]}
    BY DEF Answered
  <2>1. CASE i = w
    BY <2>1, <1>1, <1>2, <1>3 DEF OwnersInv, OwnersTyped
  <2>2. CASE i # w
    BY <2>2, <1>3 DEF OwnersInv, OwnersTyped, Answered
  <2> QED BY <2>1, <2>2
<1>6. Reachable'
  <2> SUFFICES ASSUME NEW o \in owners' PROVE \E i \in Identities : identities'[i] = o
    BY DEF Reachable
  <2>1. CASE o = nextId
    BY <2>1, <1>1, <1>3 DEF OwnersInv, OwnersTyped
  <2>2. CASE o \in owners
    <3>1. PICK i \in Identities : identities[i] = o
      BY <2>2 DEF OwnersInv, Reachable
    <3>2. i # w
      BY <3>1, <2>2, <1>1, PartsAssumption DEF OwnersInv, OwnersTyped
    <3> QED BY <3>1, <3>2, <1>3 DEF OwnersInv, OwnersTyped
  <2> QED BY <2>1, <2>2 DEF Owners!Insert
<1> QED BY <1>4, <1>5, <1>6 DEF OwnersInv

\* No step undoes the invariant.
LEMMA OwnersNext == OwnersInv /\ [Next]_vars => OwnersInv'
<1> SUFFICES ASSUME OwnersInv, [Next]_vars PROVE OwnersInv'
  OBVIOUS
<1>1. CASE UNCHANGED OwnersVars
  BY <1>1 DEF OwnersVars, OwnersInv, OwnersTyped, Answered, Reachable
<1>2. ASSUME NEW c \in Resolvers, NEW i \in Identities, Owners!Resolve(c, i) PROVE OwnersInv'
  BY <1>2 DEF Owners!Resolve, Owners!Goto, OwnersInv, OwnersTyped, Answered, Reachable, Resolving
<1>3. ASSUME NEW c \in Resolvers, Owners!Found(c) PROVE OwnersInv'
  BY <1>3, ReturnKeepsOwners DEF Owners!Found
<1>4. ASSUME NEW c \in Resolvers, Owners!Missing(c) PROVE OwnersInv'
  BY <1>4 DEF Owners!Missing, Owners!Goto, OwnersInv, OwnersTyped, Answered, Reachable, Resolving
<1>5. ASSUME NEW c \in Resolvers, Owners!Insert(c) PROVE OwnersInv'
  BY <1>5, InsertKeepsOwners
<1>6. ASSUME NEW c \in Resolvers, Owners!Conflict(c) PROVE OwnersInv'
  BY <1>6 DEF Owners!Conflict, Owners!Goto, OwnersInv, OwnersTyped, Answered, Reachable, Resolving
<1>7. ASSUME NEW c \in Resolvers, Owners!Fail(c) PROVE OwnersInv'
  BY <1>7 DEF Owners!Fail, Owners!Goto, OwnersInv, OwnersTyped, Answered, Reachable, Resolving
<1>8. CASE Owners!Next
  BY <1>8, <1>2, <1>3, <1>4, <1>5, <1>6, <1>7 DEF Owners!Next
<1> QED BY <1>1, <1>8 DEF Next, vars

\* The invariant says what the property says.
LEMMA OwnersInvSays == OwnersInv => Owners!OneOwnerEach
<1> SUFFICES ASSUME OwnersInv PROVE Owners!OneOwnerEach
  OBVIOUS
<1>1. ASSUME NEW i \in Identities
      PROVE  Cardinality(answered[i]) <= 1 /\ answered[i] \subseteq {identities[i]}
  <2>1. answered[i] \subseteq {identities[i]}
    BY DEF OwnersInv, Answered
  <2>2. IsFiniteSet({identities[i]}) /\ Cardinality({identities[i]}) = 1
    BY FS_Singleton
  <2>3. Cardinality(answered[i]) <= Cardinality({identities[i]})
    BY <2>1, <2>2, FS_Subset
  <2> QED BY <2>1, <2>2, <2>3
<1> QED BY <1>1 DEF OwnersInv, Reachable, Owners!OneOwnerEach, Owners!Cardinality, Cardinality

\* A platform identity is one owner for good, and every owner has an identity: for any
\* handlers that race, fail and die while they resolve any identities (the resolvers'
\* lookups and the stores' create_user_with_identity and create_group_with_identity).
THEOREM OneOwner == Spec => []OneOwnerEach
<1>1. Init => OwnersInv
  BY OwnersInit DEF Init
<1>2. OwnersInv => OneOwnerEach
  BY OwnersInvSays DEF OneOwnerEach
<1> QED BY <1>1, <1>2, OwnersNext, PTL DEF Spec
-----------------------------------------------------------------------------
(* RemovalHitsSeen of Directives.                                          *)

\* The ids of a story's rules tell them apart, and none is larger than the number of rules
\* ever added.
RulesTold(rules, n) ==
  /\ \A rule \in rules : rule.id \in 1..n
  /\ \A rule, other \in rules : rule.id = other.id => rule = other

\* Every edit under way holds such rules, and a removal that no save ran into holds those
\* of the row without the one it removes.
EditsHold ==
  \A a \in Actors :
    edit[a] = Settings!NoEdit \/
      /\ edit[a] \in [op : {"add", "remove", "set"}, id : Nat, row : [rules : {edit[a].row.rules},
                      settings : BOOLEAN], raced : BOOLEAN]
      /\ RulesTold(edit[a].row.rules, made)
      /\ edit[a].op = "remove" /\ ~edit[a].raced =>
           edit[a].row.rules = {rule \in row.rules : rule.id # edit[a].id}

\* What an actor was shown is in the row still, or has left it since.
SeenStands == \A a \in Actors : seen[a] \subseteq row.rules \cup gone

SettingsTyped ==
  /\ made \in Nat
  /\ row \in [rules : {row.rules}, settings : BOOLEAN]
  /\ DOMAIN edit = Actors /\ DOMAIN seen = Actors

SettingsInv == SettingsTyped /\ RulesTold(row.rules, made) /\ EditsHold /\ SeenStands
-----------------------------------------------------------------------------
\* The id a new rule gets is none that a rule of the row has.
LEMMA NextIdFresh ==
  ASSUME NEW rules, SettingsTyped, RulesTold(rules, made)
  PROVE  /\ Settings!NextRuleId(rules) \in 1..made + 1
         /\ \A rule \in rules : rule.id < Settings!NextRuleId(rules)
<1> DEFINE T == {0} \cup {rule.id : rule \in rules}
<1>1. T \in SUBSET (0..made) /\ T # {}
  BY DEF SettingsTyped, RulesTold
<1>2. PICK x \in T : \A y \in T : y <= x
  <2> HIDE DEF T
  <2> QED BY <1>1, NatMax DEF SettingsTyped
<1>3. Settings!Max(T) \in T /\ \A y \in T : y <= Settings!Max(T)
  <2> HIDE DEF T
  <2>1. x \in T /\ \A y \in T : x >= y
    BY <1>1, <1>2 DEF SettingsTyped
  <2>2. Settings!Max(T) \in T /\ \A y \in T : Settings!Max(T) >= y
    BY <2>1 DEF Settings!Max
  <2> QED BY <1>1, <2>2 DEF SettingsTyped
<1>4. Settings!NextRuleId(rules) = Settings!Max(T) + 1
  BY DEF Settings!NextRuleId
<1>5. \A rule \in rules : rule.id \in T
  OBVIOUS
<1> HIDE DEF T
<1> QED BY <1>1, <1>3, <1>4, <1>5 DEF SettingsTyped

\* An edit keeps the rules told apart.
LEMMA EditedTold ==
  ASSUME SettingsInv, NEW kind \in {"add", "remove", "set"}, NEW id \in Nat,
         made' = IF kind = "add" THEN made + 1 ELSE made
  PROVE  LET new == Settings!Edited(row, kind, id) IN
         /\ RulesTold(new.rules, made') /\ RulesTold(row.rules, made')
         /\ new \in [rules : {new.rules}, settings : BOOLEAN]
         /\ kind = "remove" => new.rules = {rule \in row.rules : rule.id # id}
<1>1. SettingsTyped /\ RulesTold(row.rules, made) /\ made' \in Nat /\ made <= made'
  BY DEF SettingsInv, SettingsTyped
<1>2. \A rule \in row.rules : rule.id \in 1..made'
  BY <1>1 DEF SettingsTyped, RulesTold
<1>3. CASE kind = "add"
  <2> DEFINE id1 == Settings!NextRuleId(row.rules)
             new == [id |-> id1, text |-> made]
  <2>1. Settings!Edited(row, kind, id) = [row EXCEPT !.rules = row.rules \cup {new}]
    BY <1>3, Zenon DEF Settings!Edited, Settings!WithRule
  <2>2. id1 \in 1..made + 1 /\ \A rule \in row.rules : rule.id < id1
    BY <1>1, NextIdFresh
  <2>3. new.id = id1
    BY Zenon
  <2> HIDE DEF id1, new
  <2> QED BY <1>1, <1>2, <1>3, <2>1, <2>2, <2>3 DEF SettingsTyped, RulesTold
<1>4. CASE kind = "remove"
  <2>1. Settings!Edited(row, kind, id) = [row EXCEPT !.rules = {rule \in row.rules : rule.id # id}]
    BY <1>4, Zenon DEF Settings!Edited, Settings!WithoutRule
  <2> QED BY <1>1, <1>2, <1>4, <2>1 DEF SettingsTyped, RulesTold
<1>5. CASE kind = "set"
  <2>1. Settings!Edited(row, kind, id) = [row EXCEPT !.settings = TRUE]
    BY <1>5, Zenon DEF Settings!Edited
  <2> QED BY <1>1, <1>2, <1>5, <2>1 DEF SettingsTyped, RulesTold
<1> QED BY <1>3, <1>4, <1>5

\* An edit begins.
LEMMA TakeHolds ==
  ASSUME SettingsInv, NEW a \in Actors, NEW kind \in {"add", "remove", "set"}, NEW id \in Nat,
         Settings!Take(a, kind, id), made' = IF kind = "add" THEN made + 1 ELSE made
  PROVE  SettingsInv'
<1> DEFINE new == Settings!Edited(row, kind, id)
           e == [op |-> kind, id |-> id, row |-> new, raced |-> FALSE]
<1>1. edit' = [edit EXCEPT ![a] = e] /\ row' = row /\ seen' = seen /\ gone' = gone
  BY DEF Settings!Take
<1>2. /\ RulesTold(new.rules, made') /\ RulesTold(row.rules, made')
      /\ new \in [rules : {new.rules}, settings : BOOLEAN]
      /\ kind = "remove" => new.rules = {rule \in row.rules : rule.id # id}
  BY EditedTold
<1> HIDE DEF new
<1>3. SettingsTyped' /\ SeenStands'
  BY <1>1 DEF SettingsInv, SettingsTyped, SeenStands
<1>4. RulesTold(row'.rules, made')
  BY <1>1, <1>2
<1>5. EditsHold'
  <2> SUFFICES ASSUME NEW b \in Actors, edit'[b] # Settings!NoEdit
               PROVE  /\ edit'[b] \in [op : {"add", "remove", "set"}, id : Nat,
                           row : [rules : {edit'[b].row.rules}, settings : BOOLEAN], raced : BOOLEAN]
                      /\ RulesTold(edit'[b].row.rules, made')
                      /\ edit'[b].op = "remove" /\ ~edit'[b].raced =>
                           edit'[b].row.rules = {rule \in row'.rules : rule.id # edit'[b].id}
    BY DEF EditsHold
  <2>1. CASE b = a
    <3>1. edit'[b] = e
      BY <1>1, <2>1 DEF SettingsInv, SettingsTyped
    <3>2. edit'[b].op = kind /\ edit'[b].id = id /\ edit'[b].row = new /\ ~edit'[b].raced
      BY <3>1
    <3>3. edit'[b] \in [op : {"add", "remove", "set"}, id : Nat,
                        row : [rules : {new.rules}, settings : BOOLEAN], raced : BOOLEAN]
      BY <1>2, <3>1
    <3> QED BY <1>1, <1>2, <3>2, <3>3
  <2>2. CASE b # a
    <3>1. edit'[b] = edit[b]
      BY <1>1, <2>2 DEF SettingsInv, SettingsTyped
    <3>2. RulesTold(edit'[b].row.rules, made')
      BY <3>1 DEF SettingsInv, SettingsTyped, EditsHold, RulesTold
    <3> QED BY <1>1, <3>1, <3>2 DEF SettingsInv, EditsHold
  <2> QED BY <2>1, <2>2
<1> QED BY <1>3, <1>4, <1>5 DEF SettingsInv

\* The whole row is saved, and every other edit under way is known to be raced.
LEMMA SaveHolds ==
  ASSUME SettingsInv, NEW a \in Actors, Settings!Save(a)
  PROVE  SettingsInv'
<1>1. /\ row' = edit[a].row /\ seen' = seen /\ made' = made
      /\ gone' = gone \cup (row.rules \ row'.rules)
      /\ edit' = [b \in Actors |-> IF b = a \/ edit[b] = Settings!NoEdit THEN Settings!NoEdit
                                     ELSE [edit[b] EXCEPT !.raced = TRUE]]
  BY DEF Settings!Save
<1>2. RulesTold(row'.rules, made')
  BY <1>1 DEF Settings!Save, SettingsInv, EditsHold, RulesTold
<1>3. SeenStands'
  BY <1>1 DEF SettingsInv, SeenStands
<1>4. SettingsTyped'
  BY <1>1 DEF Settings!Save, SettingsInv, SettingsTyped, EditsHold
<1>5. EditsHold'
  <2> SUFFICES ASSUME NEW b \in Actors, edit'[b] # Settings!NoEdit
               PROVE  /\ edit'[b] \in [op : {"add", "remove", "set"}, id : Nat,
                           row : [rules : {edit'[b].row.rules}, settings : BOOLEAN], raced : BOOLEAN]
                      /\ RulesTold(edit'[b].row.rules, made')
                      /\ edit'[b].raced
    BY DEF EditsHold
  <2>1. edit'[b] = [edit[b] EXCEPT !.raced = TRUE] /\ edit[b] # Settings!NoEdit
    BY <1>1
  <2>2. /\ edit[b] \in [op : {"add", "remove", "set"}, id : Nat,
                        row : [rules : {edit[b].row.rules}, settings : BOOLEAN], raced : BOOLEAN]
        /\ RulesTold(edit[b].row.rules, made)
    BY <2>1 DEF SettingsInv, EditsHold
  <2>3. edit'[b].row = edit[b].row
    BY <2>1, <2>2
  <2> QED BY <1>1, <2>1, <2>2, <2>3 DEF RulesTold
<1> QED BY <1>2, <1>3, <1>4, <1>5 DEF SettingsInv

\* No step undoes the invariant.
LEMMA SettingsNext == SettingsInv /\ [Next]_vars => SettingsInv'
<1> SUFFICES ASSUME SettingsInv, [Next]_vars PROVE SettingsInv'
  OBVIOUS
<1>1. CASE UNCHANGED SettingsVars
  BY <1>1 DEF SettingsVars, SettingsInv, SettingsTyped, RulesTold, EditsHold, SeenStands
<1>2. ASSUME NEW a \in Actors, Settings!Look(a) PROVE SettingsInv'
  BY <1>2 DEF Settings!Look, SettingsInv, SettingsTyped, RulesTold, EditsHold, SeenStands
<1>3. ASSUME NEW a \in Actors, Settings!Add(a) PROVE SettingsInv'
  BY <1>3, TakeHolds DEF Settings!Add
<1>4. ASSUME NEW a \in Actors, Settings!RemoveSeen(a) PROVE SettingsInv'
  <2>1. PICK r \in seen[a] : /\ \E rule \in row.rules : rule.id = r.id
                             /\ Settings!Take(a, "remove", r.id)
    BY <1>4 DEF Settings!RemoveSeen
  <2>2. r.id \in Nat
    BY <2>1 DEF SettingsInv, RulesTold, SettingsTyped
  <2> QED BY <1>4, <2>1, <2>2, TakeHolds DEF Settings!RemoveSeen
<1>5. ASSUME NEW a \in Actors, Settings!Set(a) PROVE SettingsInv'
  BY <1>5, TakeHolds DEF Settings!Set
<1>6. CASE Settings!Next
  BY <1>6, <1>2, <1>3, <1>4, <1>5, SaveHolds DEF Settings!Next
<1> QED BY <1>1, <1>6 DEF Next, vars

\* An edit ends in its own save only.
LEMMA SavesBySave ==
  ASSUME SettingsInv, Settings!Next, NEW a \in Actors, NEW kind, Settings!Saves(a, kind)
  PROVE  Settings!Save(a)
<1>1. PICK b \in Actors : \/ Settings!Look(b) \/ Settings!Add(b) \/ Settings!RemoveSeen(b)
                          \/ Settings!Set(b) \/ Settings!Save(b)
  BY DEF Settings!Next
<1>2. edit[a] # Settings!NoEdit /\ edit'[a] = Settings!NoEdit
  BY DEF Settings!Saves
<1>3. ASSUME NEW o, NEW id, Settings!Take(b, o, id) PROVE FALSE
  <2>1. b # a
    BY <1>2, <1>3 DEF Settings!Take
  <2> QED BY <1>2, <1>3, <2>1 DEF Settings!Take, SettingsInv, SettingsTyped
<1>4. ~Settings!Look(b)
  BY <1>2 DEF Settings!Look
<1>5. ~Settings!Add(b) /\ ~Settings!RemoveSeen(b) /\ ~Settings!Set(b)
  BY <1>3 DEF Settings!Add, Settings!RemoveSeen, Settings!Set
<1>6. ASSUME Settings!Save(b), b # a PROVE FALSE
  <2>1. edit'[a] = [edit[a] EXCEPT !.raced = TRUE]
    BY <1>2, <1>6 DEF Settings!Save
  <2>2. edit[a].op \in {"add", "remove", "set"} /\ edit'[a].op = edit[a].op
    BY <1>2, <2>1 DEF SettingsInv, EditsHold
  <2>3. Settings!NoEdit.op = "none"
    BY DEF Settings!NoEdit
  <2> QED BY <1>2, <2>2, <2>3
<1> QED BY <1>1, <1>4, <1>5, <1>6

\* Of the ids a player read, each takes the rule it was shown with and no other, whatever
\* was added, removed and saved around it: session_directives.py, and the whole-row saves
\* of SessionDirectiveService and AdminService.
THEOREM RemovalsHit == Spec => RemovalHitsSeen
<1> DEFINE Hits == \A a \in Actors : Settings!Saves(a, "remove") /\ ~edit[a].raced =>
                     \A lost \in row.rules \ row'.rules, r \in seen[a] \ gone :
                       r.id = edit[a].id => lost = r
<1>1. ASSUME SettingsInv, [Next]_vars PROVE [Hits]_(Settings!vars)
  <2> SUFFICES ASSUME Settings!Next, NEW a \in Actors, Settings!Saves(a, "remove"), ~edit[a].raced,
                      NEW lost \in row.rules \ row'.rules, NEW r \in seen[a] \ gone, r.id = edit[a].id
               PROVE  lost = r
    BY <1>1 DEF Next, vars, SettingsVars, Settings!vars
  <2>1. Settings!Save(a) /\ edit[a] # Settings!NoEdit /\ edit[a].op = "remove"
    BY <1>1, SavesBySave DEF Settings!Saves
  <2>2. row'.rules = {rule \in row.rules : rule.id # edit[a].id}
    BY <1>1, <2>1 DEF Settings!Save, SettingsInv, EditsHold
  <2>3. lost.id = edit[a].id /\ r \in row.rules
    BY <1>1, <2>2 DEF SettingsInv, SeenStands
  <2> QED BY <1>1, <2>3 DEF SettingsInv, RulesTold
<1>2. Init => SettingsInv
  <2> SUFFICES ASSUME Init PROVE SettingsInv
    OBVIOUS
  <2>1. row = [rules |-> {}, settings |-> FALSE] /\ made = 0 /\ gone = {}
        /\ edit = [a \in Actors |-> Settings!NoEdit] /\ seen = [a \in Actors |-> {}]
    BY DEF Init, Settings!Init
  <2> QED BY <2>1 DEF SettingsInv, SettingsTyped, RulesTold, EditsHold, SeenStands
<1> HIDE DEF Hits
<1>3. Spec => [][Hits]_(Settings!vars)
  BY <1>1, <1>2, SettingsNext, PTL DEF Spec
<1> QED BY <1>3 DEF RemovalHitsSeen, Settings!RemovalHitsSeen, Hits
-----------------------------------------------------------------------------
(* WithdrawnStaysAway of ScenarioCatalog.                                  *)

Requested ==
  [op : Catalog!RowOps \cup Catalog!LoreOps, scenario : Catalogued, step : {"write", "lore"}, raced : BOOLEAN]

CatalogTyped ==
  /\ rows \in [Catalogued -> [there : BOOLEAN, open : BOOLEAN, stamp : Nat]]
  /\ lore \in [Catalogued -> BOOLEAN]
  /\ req \in [Requests -> Requested \cup {Catalog!Idle}]
  /\ stamps \in Nat

\* What a request read before it writes still holds, unless a write came in between.
ReadHolds ==
  \A r \in Requests : ~req[r].raced =>
    /\ req[r].op = "play" => Catalog!Offered(rows[req[r].scenario])
    /\ req[r].op = "editLore" => lore[req[r].scenario]

CatalogInv == CatalogTyped /\ ReadHolds

\* What a write does to the other requests: those that have read it know.
Moved(r, ops) ==
  /\ \A q \in Requests \ {r} :
       req'[q] = IF req[q].op \in ops /\ req[q].scenario = req[r].scenario
                 THEN [req[q] EXCEPT !.raced = TRUE] ELSE req[q]
  /\ req'[r] = Catalog!Idle \/ (req'[r].op = req[r].op /\ req[r].op \in Catalog!Saving)

\* A step that writes keeps the types of the requests, and tells the others.
LEMMA GoesOn ==
  ASSUME CatalogInv, NEW r \in Requests, NEW ops \in SUBSET (Catalog!RowOps \cup Catalog!LoreOps), req[r] # Catalog!Idle,
         \/ Catalog!Proceed(r, "done", ops)
         \/ Catalog!Proceed(r, "lore", ops) /\ req[r].op \in Catalog!Saving
  PROVE  req' \in [Requests -> Requested \cup {Catalog!Idle}] /\ Moved(r, ops)
<1>1. req[r] \in Requested
  BY DEF CatalogInv, CatalogTyped
<1>2. \A q \in Requests : req[q].op \in ops => req[q] \in Requested
  BY DEF CatalogInv, CatalogTyped, Catalog!Idle, Catalog!RowOps, Catalog!LoreOps
<1>3. CASE Catalog!Proceed(r, "done", ops)
  BY <1>1, <1>2, <1>3 DEF Catalog!Proceed, Moved, CatalogInv, CatalogTyped, Requested
<1>4. CASE Catalog!Proceed(r, "lore", ops) /\ req[r].op \in Catalog!Saving
  BY <1>1, <1>2, <1>4 DEF Catalog!Proceed, Moved, CatalogInv, CatalogTyped, Requested
<1> QED BY <1>3, <1>4

\* A step that writes keeps what the others have read: a row operation leaves the lore
\* alone, a lore operation the rows, and what is written is of one scenario.
LEMMA OthersKnow ==
  ASSUME CatalogInv, NEW r \in Requests, NEW ops, req[r] \in Requested, Moved(r, ops),
         \A s \in Catalogued : rows'[s] # rows[s] => s = req[r].scenario /\ "play" \in ops,
         \A s \in Catalogued : lore'[s] # lore[s] /\ ~lore'[s] => s = req[r].scenario /\ "editLore" \in ops
  PROVE  ReadHolds'
<1> SUFFICES ASSUME NEW q \in Requests, ~req'[q].raced
    PROVE  /\ req'[q].op = "play" => Catalog!Offered(rows'[req'[q].scenario])
           /\ req'[q].op = "editLore" => lore'[req'[q].scenario]
  BY DEF ReadHolds, Catalog!Offered
<1>1. CASE q = r
  BY <1>1 DEF Moved, Catalog!Idle, Catalog!Saving
<1>2. CASE q # r
  <2>1. req[q] \in Requested \cup {Catalog!Idle}
    BY DEF CatalogInv, CatalogTyped
  <2>2. CASE req[q].op \in ops /\ req[q].scenario = req[r].scenario
    <3>1. req'[q] = [req[q] EXCEPT !.raced = TRUE]
      BY <1>2, <2>2 DEF Moved
    <3>2. req'[q].raced = TRUE
      BY <2>1, <3>1 DEF Requested, Catalog!Idle
    <3> QED BY <3>2
  <2>3. CASE ~(req[q].op \in ops /\ req[q].scenario = req[r].scenario)
    <3>1. req'[q] = req[q]
      BY <1>2, <2>3 DEF Moved
    <3>2. req[q] = Catalog!Idle \/ req[q].scenario \in Catalogued
      BY <2>1 DEF Requested
    <3>3. CASE req[q] = Catalog!Idle
      BY <3>1, <3>3 DEF Catalog!Idle
    <3>4. CASE req[q].scenario \in Catalogued
      <4>1. req[q].op = "play" => rows'[req[q].scenario] = rows[req[q].scenario]
        BY <2>3, <3>4
      <4>2. req[q].op = "editLore" /\ lore[req[q].scenario] => lore'[req[q].scenario]
        BY <2>3, <3>4
      <4> QED BY <3>1, <4>1, <4>2 DEF CatalogInv, ReadHolds, Catalog!Offered
    <3> QED BY <3>2, <3>3, <3>4
  <2> QED BY <2>2, <2>3
<1> QED BY <1>1, <1>2

\* A request begins: what it reads holds.
LEMMA ReadsTrue ==
  ASSUME CatalogInv, NEW r \in Requests, NEW kind \in Catalog!RowOps \cup Catalog!LoreOps, NEW s \in Catalogued,
         Catalog!Read(r, kind, s)
  PROVE  CatalogInv' /\ rows' = rows
<1>1. /\ req' = [req EXCEPT ![r] = [op |-> kind, scenario |-> s, step |-> "write", raced |-> FALSE]]
      /\ rows' = rows /\ lore' = lore /\ stamps' = stamps
      /\ kind = "play" => Catalog!Offered(rows[s])
      /\ kind = "editLore" => lore[s]
  BY DEF Catalog!Read, Catalog!Passes, Catalog!LoreOps
<1>2. CatalogTyped'
  BY <1>1 DEF CatalogInv, CatalogTyped, Requested
<1>3. ReadHolds'
  <2> SUFFICES ASSUME NEW q \in Requests, ~req'[q].raced
      PROVE  /\ req'[q].op = "play" => Catalog!Offered(rows'[req'[q].scenario])
             /\ req'[q].op = "editLore" => lore'[req'[q].scenario]
    BY DEF ReadHolds, Catalog!Offered
  <2>1. CASE q = r
    BY <1>1, <2>1 DEF CatalogInv, CatalogTyped
  <2>2. CASE q # r
    BY <1>1, <2>2 DEF CatalogInv, CatalogTyped, ReadHolds
  <2> QED BY <2>1, <2>2
<1> QED BY <1>1, <1>2, <1>3 DEF CatalogInv

\* A row keeps its stamp in every write but a restore.
LEMMA StampsKept ==
  ASSUME CatalogInv, NEW r \in Requests,
         \/ Catalog!SaveScenario(r) \/ Catalog!SaveScenarioLore(r) \/ Catalog!Retire(r)
         \/ Catalog!SaveLore(r) \/ Catalog!DropLore(r) \/ Catalog!BeginStory(r)
  PROVE  CatalogInv' /\ \A s \in Catalogued : rows[s].stamp # 0 => rows'[s].stamp = rows[s].stamp
<1>1. req[r] \in Requested
  BY DEF CatalogInv, CatalogTyped, Requested, Catalog!Idle, Catalog!SaveScenario, Catalog!SaveScenarioLore,
         Catalog!Retire, Catalog!SaveLore, Catalog!DropLore, Catalog!BeginStory
<1>2. req[r] # Catalog!Idle /\ req[r].scenario \in Catalogued
  BY <1>1 DEF Requested, Catalog!Idle, Catalog!RowOps, Catalog!LoreOps
<1>3. CASE Catalog!SaveScenario(r)
  <2>1. PICK open \in BOOLEAN : rows' = [rows EXCEPT ![req[r].scenario] = Catalog!Saved(@, open)]
    BY <1>3 DEF Catalog!SaveScenario
  <2>2. req' \in [Requests -> Requested \cup {Catalog!Idle}] /\ Moved(r, Catalog!RowOps)
    <3>1. Catalog!Proceed(r, "lore", Catalog!RowOps) /\ req[r].op \in Catalog!Saving
      BY <1>3 DEF Catalog!SaveScenario
    <3> QED BY <1>2, <3>1, GoesOn
  <2>3. lore' = lore /\ stamps' = stamps
    BY <1>3 DEF Catalog!SaveScenario
  <2>4. CatalogTyped'
    BY <1>2, <2>1, <2>2, <2>3 DEF CatalogInv, CatalogTyped, Catalog!Saved
  <2>5. ReadHolds'
    <3>1. \A s \in Catalogued : rows'[s] # rows[s] => s = req[r].scenario
      BY <2>1 DEF CatalogInv, CatalogTyped
    <3>2. "play" \in Catalog!RowOps
      BY DEF Catalog!RowOps
    <3> QED BY <1>1, <2>2, <2>3, <3>1, <3>2, OthersKnow
  <2>6. \A s \in Catalogued : rows'[s].stamp = rows[s].stamp
    BY <1>2, <2>1 DEF CatalogInv, CatalogTyped, Catalog!Saved
  <2> QED BY <2>4, <2>5, <2>6 DEF CatalogInv
<1>4. CASE Catalog!Retire(r)
  <2>1. /\ rows' = [rows EXCEPT ![req[r].scenario] = Catalog!Retired(@)]
        /\ lore' = lore /\ stamps' = stamps + 1
    BY <1>4 DEF Catalog!Retire
  <2>2. req' \in [Requests -> Requested \cup {Catalog!Idle}] /\ Moved(r, Catalog!RowOps)
    BY <1>2, <1>4, GoesOn DEF Catalog!Retire
  <2>3. CatalogTyped'
    BY <1>2, <2>1, <2>2 DEF CatalogInv, CatalogTyped, Catalog!Retired
  <2>4. ReadHolds'
    <3>1. \A s \in Catalogued : rows'[s] # rows[s] => s = req[r].scenario
      BY <2>1 DEF CatalogInv, CatalogTyped
    <3>2. "play" \in Catalog!RowOps
      BY DEF Catalog!RowOps
    <3> QED BY <1>1, <2>1, <2>2, <3>1, <3>2, OthersKnow
  <2>5. \A s \in Catalogued : rows[s].stamp # 0 => rows'[s].stamp = rows[s].stamp
    BY <1>2, <2>1 DEF CatalogInv, CatalogTyped, Catalog!Retired
  <2> QED BY <2>3, <2>4, <2>5 DEF CatalogInv
<1>5. CASE Catalog!SaveScenarioLore(r) \/ Catalog!SaveLore(r) \/ Catalog!DropLore(r)
  <2>1. /\ rows' = rows /\ stamps' = stamps
        /\ \E b \in BOOLEAN : lore' = [lore EXCEPT ![req[r].scenario] = b]
    <3>1. lore[req[r].scenario] \in BOOLEAN
      BY <1>2 DEF CatalogInv, CatalogTyped
    <3>2. \A b \in BOOLEAN : (lore[req[r].scenario] \/ b) \in BOOLEAN
      OBVIOUS
    <3> QED BY <1>5, <3>2 DEF Catalog!SaveScenarioLore, Catalog!SaveLore, Catalog!DropLore
  <2>2. req' \in [Requests -> Requested \cup {Catalog!Idle}] /\ Moved(r, Catalog!LoreOps)
    BY <1>2, <1>5, GoesOn DEF Catalog!SaveScenarioLore, Catalog!SaveLore, Catalog!DropLore
  <2>3. CatalogTyped'
    BY <1>2, <2>1, <2>2 DEF CatalogInv, CatalogTyped
  <2>4. ReadHolds'
    <3>1. \A s \in Catalogued : lore'[s] # lore[s] => s = req[r].scenario
      BY <2>1 DEF CatalogInv, CatalogTyped
    <3>2. "editLore" \in Catalog!LoreOps
      BY DEF Catalog!LoreOps
    <3> QED BY <1>1, <2>1, <2>2, <3>1, <3>2, OthersKnow
  <2> QED BY <2>1, <2>3, <2>4 DEF CatalogInv
<1>6. CASE Catalog!BeginStory(r)
  <2>1. rows' = rows /\ lore' = lore /\ stamps' = stamps
    BY <1>6 DEF Catalog!BeginStory
  <2>2. req' \in [Requests -> Requested \cup {Catalog!Idle}] /\ Moved(r, {})
    BY <1>2, <1>6, GoesOn DEF Catalog!BeginStory
  <2>3. CatalogTyped'
    BY <2>1, <2>2 DEF CatalogInv, CatalogTyped
  <2>4. ReadHolds'
    BY <1>1, <2>1, <2>2, OthersKnow
  <2> QED BY <2>1, <2>3, <2>4 DEF CatalogInv
<1> QED BY <1>3, <1>4, <1>5, <1>6

\* A restore brings back the scenario it is of, and is done then.
LEMMA RestoresOne ==
  ASSUME CatalogInv, NEW r \in Requests, Catalog!Restore(r)
  PROVE  /\ CatalogInv'
         /\ \A s \in Catalogued : rows'[s].stamp # rows[s].stamp =>
              req[r].scenario = s /\ Catalog!Wrote(r, "restore") /\ rows'[s].stamp = 0
<1>1. req[r] \in Requested
  BY DEF CatalogInv, CatalogTyped, Requested, Catalog!Idle, Catalog!Restore
<1>2. req[r] # Catalog!Idle /\ req[r].scenario \in Catalogued
  BY <1>1 DEF Requested, Catalog!Idle, Catalog!RowOps, Catalog!LoreOps
<1>3. /\ rows' = [rows EXCEPT ![req[r].scenario].stamp = 0]
      /\ lore' = lore /\ stamps' = stamps
      /\ req[r].op = "restore" /\ req[r].step = "write"
  BY DEF Catalog!Restore
<1>4. req' \in [Requests -> Requested \cup {Catalog!Idle}] /\ Moved(r, Catalog!RowOps)
  BY <1>2, GoesOn DEF Catalog!Restore
<1>5. CatalogTyped'
  BY <1>2, <1>3, <1>4 DEF CatalogInv, CatalogTyped
<1>6. \A s \in Catalogued : s # req[r].scenario => rows'[s] = rows[s]
  BY <1>3 DEF CatalogInv, CatalogTyped
<1>7. ReadHolds'
  <2>1. "play" \in Catalog!RowOps
    BY DEF Catalog!RowOps
  <2> QED BY <1>1, <1>3, <1>4, <1>6, <2>1, OthersKnow
<1>8. rows'[req[r].scenario].stamp = 0
  BY <1>2, <1>3 DEF CatalogInv, CatalogTyped
<1>9. Catalog!Wrote(r, "restore")
  <2>1. req'[r] = Catalog!Idle
    BY <1>3, <1>4 DEF Moved, Catalog!Saving
  <2>2. \A q \in Requests \ {r} : req[q] # Catalog!Idle => req'[q] # Catalog!Idle
    <3> SUFFICES ASSUME NEW q \in Requests \ {r}, req[q] # Catalog!Idle PROVE req'[q] # Catalog!Idle
      OBVIOUS
    <3>1. req[q] \in Requested
      BY DEF CatalogInv, CatalogTyped
    <3>2. req'[q] = req[q] \/ req'[q] = [req[q] EXCEPT !.raced = TRUE]
      BY <1>4 DEF Moved
    <3>3. req'[q].op = req[q].op
      BY <3>1, <3>2 DEF Requested
    <3>4. req[q].op # "idle"
      BY <3>1 DEF Requested, Catalog!RowOps, Catalog!LoreOps
    <3> QED BY <3>3, <3>4 DEF Catalog!Idle
  <2>3. req'[r].step = "done"
    BY <2>1 DEF Catalog!Idle
  <2>4. (\A q \in Requests : req'[q] = Catalog!Idle) => \A q \in Requests \ {r} : req[q] = Catalog!Idle
    BY <2>2
  <2>5. req' = [q \in Requests |-> Catalog!Idle] => \A q \in Requests : req'[q] = Catalog!Idle
    OBVIOUS
  <2> QED BY <1>3, <2>3, <2>4, <2>5 DEF Catalog!Wrote
<1> QED BY <1>5, <1>6, <1>7, <1>8, <1>9 DEF CatalogInv

\* The process ends and the files are imported: rows keep their stamps.
LEMMA BootKeepsStamps ==
  ASSUME CatalogInv, NEW imports \in BOOLEAN, Catalog!Reboot(imports)
  PROVE  CatalogInv' /\ \A s \in Catalogued : rows'[s].stamp = rows[s].stamp
<1>1. /\ \A s \in Catalogued : rows'[s] \in [there : BOOLEAN, open : BOOLEAN, stamp : Nat]
                               /\ rows'[s].stamp = rows[s].stamp
      /\ rows' \in [Catalogued -> [there : BOOLEAN, open : BOOLEAN, stamp : Nat]]
  BY DEF CatalogInv, CatalogTyped, Catalog!Reboot, Catalog!Saved
<1>2. req' = [r \in Requests |-> Catalog!Idle] /\ stamps' = stamps
  BY DEF Catalog!Reboot
<1>3. lore' \in [Catalogued -> BOOLEAN]
  BY DEF CatalogInv, CatalogTyped, Catalog!Reboot
<1>4. ReadHolds'
  BY <1>2 DEF ReadHolds, Catalog!Idle
<1> QED BY <1>1, <1>2, <1>3, <1>4 DEF CatalogInv, CatalogTyped

\* No step undoes the invariant, and a stamp goes only in a restore.
LEMMA CatalogNext ==
  ASSUME CatalogInv, [Next]_vars
  PROVE  /\ CatalogInv'
         /\ \A s \in Catalogued : rows[s].stamp # 0 /\ rows'[s].stamp # rows[s].stamp =>
              \E r \in Requests : req[r].scenario = s /\ Catalog!Wrote(r, "restore") /\ rows'[s].stamp = 0
<1>1. CASE UNCHANGED CatalogVars
  BY <1>1 DEF CatalogVars, CatalogInv, CatalogTyped, ReadHolds, Catalog!Offered
<1>2. CASE Catalog!Next
  <2>1. ASSUME NEW r \in Requests, NEW kind \in Catalog!RowOps \cup Catalog!LoreOps, NEW s \in Catalogued,
               Catalog!Read(r, kind, s)
        PROVE  CatalogInv' /\ rows' = rows
    BY <2>1, ReadsTrue
  <2> QED BY <1>2, <2>1, StampsKept, RestoresOne, BootKeepsStamps DEF Catalog!Next
<1> QED BY <1>1, <1>2 DEF Next, vars

\* What was withdrawn comes back only by a request for it: a retired scenario keeps its first
\* stamp until a restore, no story begins in one that was not offered, and no lore edit brings
\* a deleted entry back, however requests race and the process restarts.
THEOREM Withdrawn == Spec => WithdrawnStaysAway
<1>1. Init => CatalogInv
  <2> SUFFICES ASSUME Init PROVE CatalogInv
    OBVIOUS
  <2>1. CatalogTyped
    BY DEF Init, Catalog!Init, CatalogTyped
  <2>2. ReadHolds
    BY DEF Init, Catalog!Init, ReadHolds, Catalog!Idle
  <2> QED BY <2>1, <2>2 DEF CatalogInv
<1>2. CatalogInv /\ [Next]_vars =>
        [/\ \A s \in Catalogued : rows[s].stamp # 0 /\ rows'[s].stamp # rows[s].stamp =>
              \E r \in Requests : req[r].scenario = s /\ Catalog!Wrote(r, "restore") /\ rows'[s].stamp = 0
         /\ \A r \in Requests : Catalog!Wrote(r, "play") /\ ~req[r].raced =>
              rows[req[r].scenario].stamp = 0 /\ rows[req[r].scenario].open
         /\ \A r \in Requests : Catalog!Wrote(r, "editLore") /\ ~req[r].raced => lore[req[r].scenario]]_(Catalog!vars)
  <2> SUFFICES ASSUME CatalogInv, [Next]_vars
      PROVE  /\ \A s \in Catalogued : rows[s].stamp # 0 /\ rows'[s].stamp # rows[s].stamp =>
                  \E r \in Requests : req[r].scenario = s /\ Catalog!Wrote(r, "restore") /\ rows'[s].stamp = 0
             /\ \A r \in Requests : Catalog!Wrote(r, "play") /\ ~req[r].raced =>
                  rows[req[r].scenario].stamp = 0 /\ rows[req[r].scenario].open
             /\ \A r \in Requests : Catalog!Wrote(r, "editLore") /\ ~req[r].raced => lore[req[r].scenario]
    OBVIOUS
  <2>1. \A r \in Requests : Catalog!Wrote(r, "play") /\ ~req[r].raced =>
          rows[req[r].scenario].stamp = 0 /\ rows[req[r].scenario].open
    BY DEF CatalogInv, ReadHolds, Catalog!Wrote, Catalog!Offered
  <2>2. \A r \in Requests : Catalog!Wrote(r, "editLore") /\ ~req[r].raced => lore[req[r].scenario]
    BY DEF CatalogInv, ReadHolds, Catalog!Wrote
  <2> QED BY <2>1, <2>2, CatalogNext
<1>3. CatalogInv /\ [Next]_vars => CatalogInv'
  BY CatalogNext
<1> QED BY <1>1, <1>2, <1>3, PTL DEF Spec, WithdrawnStaysAway, Catalog!WithdrawnStaysAway
-----------------------------------------------------------------------------
(* RecentCountsKept of TokenCounter.                                       *)

\* Where a text stands in the cache says how many others were used since; a text that is
\* not cached was never counted, or fell out behind a full cache.
Aged(cached, since) ==
  /\ Len(cached) <= CacheSize
  /\ \A i \in 1..Len(cached) : since[cached[i]] = Len(cached) - i
  /\ \A t \in Texts : (\A i \in 1..Len(cached) : cached[i] # t) =>
       since[t] = Counter!Never \/ (Len(cached) = CacheSize /\ since[t] >= CacheSize)

CounterInv ==
  /\ counts \in Seq(Texts)
  /\ age \in [Texts -> Nat \cup {Counter!Never}]
  /\ Aged(counts, age)

\* An entry taken out: those behind it move up.
LEMMA TakenOut ==
  ASSUME NEW S, NEW s \in Seq(S), NEW k \in 1..Len(s)
  PROVE  /\ Counter!RemoveAt(s, k) \in Seq(S)
         /\ Len(Counter!RemoveAt(s, k)) = Len(s) - 1
         /\ \A i \in 1..Len(s) - 1 : Counter!RemoveAt(s, k)[i] = IF i < k THEN s[i] ELSE s[i + 1]
<1> DEFINE a == SubSeq(s, 1, k - 1)
           b == SubSeq(s, k + 1, Len(s))
<1>1. a \in Seq(S) /\ Len(a) = k - 1 /\ \A i \in 1..k - 1 : a[i] = s[i]
  BY SubSeqProperties
<1>2. b \in Seq(S) /\ Len(b) = Len(s) - k /\ \A i \in 1..Len(s) - k : b[i] = s[k + i]
  BY SubSeqProperties
<1>3. Counter!RemoveAt(s, k) = a \o b
  BY DEF Counter!RemoveAt
<1> HIDE DEF a, b
<1>4. /\ a \o b \in Seq(S)
      /\ Len(a \o b) = Len(a) + Len(b)
      /\ \A i \in 1..Len(a) + Len(b) : (a \o b)[i] = IF i <= Len(a) THEN a[i] ELSE b[i - Len(a)]
  BY <1>1, <1>2, ConcatProperties
<1>5. ASSUME NEW i \in 1..Len(s) - 1 PROVE (a \o b)[i] = IF i < k THEN s[i] ELSE s[i + 1]
  <2>1. CASE i < k
    BY <1>1, <1>2, <1>4, <2>1
  <2>2. CASE ~(i < k)
    <3>1. (a \o b)[i] = b[i - (k - 1)]
      BY <1>1, <1>2, <1>4, <2>2
    <3>2. i - (k - 1) \in 1..Len(s) - k
      BY <2>2
    <3> QED BY <1>2, <2>2, <3>1, <3>2
  <2> QED BY <2>1, <2>2
<1> QED BY <1>1, <1>2, <1>3, <1>4, <1>5

\* A text that is used comes last, at age 0, and those used after it grow older by one.
LEMMA UsedLast ==
  ASSUME CounterInv, NEW k \in 1..Len(counts)
  PROVE  LET moved == Append(Counter!RemoveAt(counts, k), counts[k]) IN
         /\ moved \in Seq(Texts) /\ Len(moved) = Len(counts)
         /\ Aged(moved, Counter!Used(counts[k]))
<1> DEFINE n == Len(counts)
           t == counts[k]
           rest == Counter!RemoveAt(counts, k)
           moved == Append(rest, t)
           aged == Counter!Used(t)
<1>1. /\ n \in Nat /\ k \in 1..n /\ counts[k] = t /\ t \in Texts
      /\ n <= CacheSize /\ CacheSize \in Nat
  BY PartsAssumption, ElementOfSeq DEF CounterInv, Aged
<1>2. \A i \in 1..n : counts[i] \in Texts
  BY ElementOfSeq DEF CounterInv
<1>3. \A i \in 1..n : age[counts[i]] = n - i
  BY DEF CounterInv, Aged
<1>4. \A x \in Texts : age[x] \in Int
  BY DEF CounterInv, Counter!Never
<1>5. /\ rest \in Seq(Texts) /\ Len(rest) = n - 1
      /\ \A i \in 1..n - 1 : rest[i] = IF i < k THEN counts[i] ELSE counts[i + 1]
  BY <1>1, TakenOut DEF CounterInv
<1>6. /\ moved \in Seq(Texts) /\ Len(moved) = n /\ moved[n] = t
      /\ \A i \in 1..n - 1 : moved[i] = IF i < k THEN counts[i] ELSE counts[i + 1]
  <2> HIDE DEF rest, t
  <2>1. /\ moved \in Seq(Texts) /\ Len(moved) = Len(rest) + 1 /\ moved[Len(rest) + 1] = t
        /\ \A i \in 1..Len(rest) : moved[i] = rest[i]
    BY <1>1, <1>5, AppendProperties
  <2> HIDE DEF moved, n
  <2> QED BY <1>1, <1>5, <2>1
<1>7. \A x \in Texts : aged[x] = IF x = t THEN 0
        ELSE IF age[x] # -1 /\ (age[t] = -1 \/ age[x] < age[t]) THEN age[x] + 1 ELSE age[x]
  BY DEF Counter!Used, Counter!Never
<1> HIDE DEF n, t, rest, moved, aged
<1>8. \A i \in 1..n : aged[moved[i]] = n - i
  <2> SUFFICES ASSUME NEW i \in 1..n PROVE aged[moved[i]] = n - i
    OBVIOUS
  <2>1. CASE i = n
    BY <1>1, <1>6, <1>7, <2>1
  <2>2. CASE i < k
    <3>1. moved[i] = counts[i] /\ age[counts[i]] = n - i /\ age[t] = n - k /\ counts[i] \in Texts
      BY <1>1, <1>2, <1>3, <1>6, <2>2
    <3> QED BY <1>1, <1>4, <1>7, <2>2, <3>1
  <2>3. CASE k <= i /\ i < n
    <3>1. moved[i] = counts[i + 1] /\ age[counts[i + 1]] = n - (i + 1) /\ age[t] = n - k
          /\ counts[i + 1] \in Texts
      BY <1>1, <1>2, <1>3, <1>6, <2>3
    <3> QED BY <1>1, <1>4, <1>7, <2>3, <3>1
  <2> QED BY <1>1, <2>1, <2>2, <2>3
<1>9. ASSUME NEW x \in Texts, \A i \in 1..n : moved[i] # x
      PROVE  aged[x] = -1 \/ (n = CacheSize /\ aged[x] >= CacheSize)
  <2>1. \A i \in 1..n : counts[i] # x
    <3> SUFFICES ASSUME NEW i \in 1..n, counts[i] = x PROVE FALSE
      OBVIOUS
    <3>1. CASE i = k
      BY <1>1, <1>6, <1>9, <3>1
    <3>2. CASE i < k
      BY <1>1, <1>6, <1>9, <3>2
    <3>3. CASE i > k
      <4>1. i - 1 \in 1..n - 1 /\ ~(i - 1 < k) /\ (i - 1) + 1 = i
        BY <1>1, <3>3
      <4>2. moved[i - 1] = counts[i]
        BY <1>6, <4>1
      <4> QED BY <1>1, <1>9, <4>1, <4>2
    <3> QED BY <1>1, <3>1, <3>2, <3>3
  <2>2. age[x] = -1 \/ (n = CacheSize /\ age[x] >= CacheSize)
    BY <2>1 DEF CounterInv, Aged, Counter!Never, n
  <2>3. age[t] = n - k /\ x # t
    BY <1>1, <1>3, <2>1
  <2> QED BY <1>1, <1>4, <1>7, <2>2, <2>3
<1> QED BY <1>1, <1>6, <1>8, <1>9 DEF Aged, Counter!Never, moved, aged, rest, t, n

\* A text that is new comes last; a full cache loses its oldest.
LEMMA UsedAnew ==
  ASSUME CounterInv, NEW t \in Texts, \A i \in 1..Len(counts) : counts[i] # t
  PROVE  LET grown == Append(counts, t)
             left == IF Len(grown) > CacheSize THEN Tail(grown) ELSE grown
         IN left \in Seq(Texts) /\ Aged(left, Counter!Used(t))
<1> DEFINE n == Len(counts)
           grown == Append(counts, t)
           left == IF Len(grown) > CacheSize THEN Tail(grown) ELSE grown
           aged == Counter!Used(t)
<1>1. /\ counts \in Seq(Texts) /\ n \in Nat
      /\ age \in [Texts -> Nat \cup {-1}]
      /\ \A i \in 1..n : counts[i] \in Texts /\ age[counts[i]] = n - i
      /\ n <= CacheSize /\ CacheSize \in Nat
      /\ \A x \in Texts : (\A i \in 1..n : counts[i] # x) =>
           age[x] = -1 \/ (n = CacheSize /\ age[x] >= CacheSize)
  BY PartsAssumption DEF CounterInv, Aged, Counter!Never
<1>2. /\ grown \in Seq(Texts) /\ Len(grown) = n + 1 /\ grown[n + 1] = t
      /\ \A i \in 1..n : grown[i] = counts[i]
  BY <1>1, AppendProperties
<1>3. \A x \in Texts : aged[x] = IF x = t THEN 0
        ELSE IF age[x] # -1 /\ (age[t] = -1 \/ age[x] < age[t]) THEN age[x] + 1 ELSE age[x]
  BY DEF Counter!Used, Counter!Never
<1>4. age[t] = -1 \/ (n = CacheSize /\ age[t] >= CacheSize)
  BY <1>1
<1> HIDE DEF grown, aged
<1>5. \A i \in 1..n : aged[counts[i]] = n + 1 - i
  BY <1>1, <1>3, <1>4
<1>6. CASE n + 1 > CacheSize
  <2>1. left = Tail(grown) /\ n = CacheSize /\ grown # <<>>
    BY <1>1, <1>2, <1>6
  <2>2. /\ left \in Seq(Texts) /\ Len(left) = n
        /\ \A i \in 1..n : left[i] = grown[i + 1]
    BY <1>1, <1>2, <2>1, HeadTailProperties
  <2> HIDE DEF left
  <2>3. ASSUME NEW i \in 1..n PROVE aged[left[i]] = n - i
    <3>1. CASE i = n
      BY <1>2, <1>3, <2>2, <3>1
    <3>2. CASE i < n
      <4>1. left[i] = counts[i + 1] /\ i + 1 \in 1..n
        BY <1>1, <1>2, <2>2, <3>2
      <4>2. aged[counts[i + 1]] = n + 1 - (i + 1)
        BY <1>5, <4>1
      <4> QED BY <4>1, <4>2, <1>1
    <3> QED BY <3>1, <3>2
  <2>4. ASSUME NEW x \in Texts, \A i \in 1..n : left[i] # x
        PROVE  aged[x] = -1 \/ aged[x] >= CacheSize
    <3>1. CASE \A i \in 1..n : counts[i] # x
      <4>1. age[x] = -1 \/ age[x] >= CacheSize
        BY <1>1, <3>1
      <4>2. x # t \/ n = 0
        BY <1>1, <1>2, <2>2, <2>4
      <4> QED BY <1>1, <1>3, <2>1, <4>1, <4>2
    <3>2. CASE \E i \in 1..n : counts[i] = x
      <4>1. PICK i \in 1..n : counts[i] = x
        BY <3>2
      <4>2. i = 1
        <5> SUFFICES ASSUME i # 1 PROVE FALSE
          OBVIOUS
        <5>1. i - 1 \in 1..n /\ (i - 1) + 1 = i
          BY <1>1
        <5>2. left[i - 1] = grown[i]
          BY <2>2, <5>1
        <5> QED BY <1>2, <2>4, <4>1, <5>1, <5>2
      <4> QED BY <1>1, <1>5, <2>1, <4>1, <4>2
    <3> QED BY <3>1, <3>2
  <2> QED BY <1>1, <2>1, <2>2, <2>3, <2>4 DEF Aged, Counter!Never, left, grown, aged
<1>7. CASE ~(n + 1 > CacheSize)
  <2>1. left = grown
    BY <1>2, <1>7
  <2>2. \A i \in 1..n + 1 : aged[grown[i]] = n + 1 - i
    BY <1>1, <1>2, <1>3, <1>5
  <2>3. ASSUME NEW x \in Texts, \A i \in 1..n + 1 : grown[i] # x PROVE aged[x] = -1
    <3>1. \A i \in 1..n : counts[i] # x
      BY <1>1, <1>2, <2>3
    <3>2. x # t
      BY <1>1, <1>2, <2>3
    <3> QED BY <1>1, <1>3, <1>7, <3>1, <3>2
  <2> QED BY <1>1, <1>2, <1>7, <2>1, <2>2, <2>3 DEF Aged, Counter!Never, grown, aged
<1> QED BY <1>1, <1>6, <1>7

\* No step undoes the invariant.
LEMMA CounterNext == CounterInv /\ [Next]_vars => CounterInv'
<1> SUFFICES ASSUME CounterInv, [Next]_vars PROVE CounterInv'
  OBVIOUS
<1>1. ASSUME NEW t \in Texts, age' = Counter!Used(t) PROVE age' \in [Texts -> Nat \cup {Counter!Never}]
  BY <1>1 DEF CounterInv, Counter!Used, Counter!Never
<1>2. ASSUME NEW t \in Texts, NEW i \in DOMAIN counts, counts[i] = t, Counter!Contains(counts, t)
      PROVE  \E k \in 1..Len(counts) :
               /\ t = counts[k]
               /\ Counter!MovedToEnd(counts, t) = Append(Counter!RemoveAt(counts, k), counts[k])
  <2> DEFINE k == CHOOSE j \in DOMAIN counts : counts[j] = t
  <2>1. k \in DOMAIN counts /\ counts[k] = t
    BY <1>2
  <2>2. DOMAIN counts = 1..Len(counts)
    BY DEF CounterInv
  <2> QED BY <1>2, <2>1, <2>2 DEF Counter!MovedToEnd
<1>3. ASSUME NEW t \in Texts, Counter!Contains(counts, t)
      PROVE  \E k \in 1..Len(counts) :
               /\ t = counts[k]
               /\ Counter!MovedToEnd(counts, t) = Append(Counter!RemoveAt(counts, k), counts[k])
  <2>1. \E i \in DOMAIN counts : counts[i] = t
    BY <1>3 DEF Counter!Contains, CounterInv
  <2> QED BY <1>2, <1>3, <2>1
<1>4. ASSUME NEW t \in Texts, Counter!Contains(counts, t), counts' = Counter!MovedToEnd(counts, t), age' = Counter!Used(t)
      PROVE  CounterInv'
  <2>1. PICK k \in 1..Len(counts) : t = counts[k] /\ counts' = Append(Counter!RemoveAt(counts, k), counts[k])
    BY <1>3, <1>4
  <2>2. counts' \in Seq(Texts) /\ Aged(counts', age')
    BY <1>4, <2>1, UsedLast
  <2> QED BY <1>1, <1>4, <2>2 DEF CounterInv, Aged, Counter!Never
<1>5. CASE UNCHANGED CounterVars \/ (UNCHANGED <<counts, age>>)
  BY <1>5 DEF CounterVars, CounterInv, Aged
<1>6. ASSUME NEW c \in Counters, NEW t \in Texts, Counter!Hit(c, t) PROVE CounterInv'
  BY <1>4, <1>6 DEF Counter!Hit, Counter!IsCached
<1>7. ASSUME NEW c \in Counters, Counter!Counted(c) PROVE CounterInv'
  <2> DEFINE t == asking[c]
  <2>1. t \in Texts /\ counts' = Counter!Remember(t) /\ age' = Counter!Used(t)
    BY <1>7 DEF Counter!Counted
  <2> HIDE DEF t
  <2>2. CASE Counter!Contains(counts, t)
    <3>1. PICK k \in 1..Len(counts) :
            t = counts[k] /\ Counter!MovedToEnd(counts, t) = Append(Counter!RemoveAt(counts, k), counts[k])
      BY <1>3, <2>1, <2>2
    <3>2. Len(Counter!MovedToEnd(counts, t)) = Len(counts)
      BY <3>1, UsedLast
    <3>3. ~(Len(counts) > CacheSize)
      BY PartsAssumption DEF CounterInv, Aged
    <3> QED BY <1>4, <2>1, <2>2, <3>2, <3>3 DEF Counter!Remember
  <2>3. CASE ~Counter!Contains(counts, t)
    <3>1. \A i \in 1..Len(counts) : counts[i] # t
      BY <2>3 DEF Counter!Contains
    <3>2. counts' \in Seq(Texts) /\ Aged(counts', age')
      BY <2>1, <2>3, <3>1, UsedAnew DEF Counter!Remember, Counter!MovedToEnd
    <3> QED BY <1>1, <2>1, <3>2 DEF CounterInv, Aged, Counter!Never
  <2> QED BY <2>2, <2>3
<1>8. CASE Counter!Next
  BY <1>5, <1>6, <1>7, <1>8 DEF Counter!Next, Counter!Miss, Counter!Fail, Counter!AskLength, Counter!Reported
<1> QED BY <1>5, <1>8 DEF Next, vars

\* The texts counted or served last are cached, each once, and the cache keeps its size, for
\* any number of callers, texts and entries: count_tokens and _remember of token_counter.py.
THEOREM CountsKept == Spec => []RecentCountsKept
<1>1. Init => CounterInv
  <2> SUFFICES ASSUME Init PROVE CounterInv
    OBVIOUS
  <2>1. counts = <<>> /\ age = [t \in Texts |-> -1]
    BY DEF Init, Counter!Init, Counter!Never
  <2> QED BY <2>1, PartsAssumption, EmptySeq DEF CounterInv, Aged, Counter!Never
<1>2. CounterInv => RecentCountsKept
  <2> SUFFICES ASSUME CounterInv PROVE RecentCountsKept
    OBVIOUS
  <2>1. /\ counts \in Seq(Texts) /\ Len(counts) \in Nat /\ DOMAIN counts = 1..Len(counts)
        /\ Len(counts) <= CacheSize /\ CacheSize \in Nat
        /\ \A i \in 1..Len(counts) : age[counts[i]] = Len(counts) - i
    BY PartsAssumption DEF CounterInv, Aged
  <2>2. ASSUME NEW t \in Texts, age[t] \in 0..CacheSize - 1 PROVE Counter!IsCached(t)
    <3>1. CounterInv => \/ \E i \in 1..Len(counts) : counts[i] = t
                        \/ age[t] = -1 \/ age[t] >= CacheSize
      BY DEF CounterInv, Aged, Counter!Never
    <3>2. \E i \in 1..Len(counts) : counts[i] = t
      BY <2>1, <2>2, <3>1
    <3> QED BY <3>2 DEF Counter!IsCached, Counter!Contains
  <2>3. \A i, j \in 1..Len(counts) : counts[i] = counts[j] => i = j
    BY <2>1
  <2> QED BY <2>1, <2>2, <2>3 DEF RecentCountsKept, Counter!RecentCountsKept, Counter!IsInjective
<1> QED BY <1>1, <1>2, CounterNext, PTL DEF Spec
-----------------------------------------------------------------------------
(* ImportComplete of BootImport.                                           *)

\* A file is one of those the directories hold.
FilesTyped ==
  /\ files \in [Shipped -> Boot!Files]
  /\ rowsOf \in [Shipped -> {None, "text", "nothing"}]
  /\ loreOf \subseteq Shipped

\* What the first pass read and has not to save any more is in the database as the file
\* says, and so it is with the lore once the second pass has read.
PassesSaved ==
  /\ phase = "definitions" => todo \subseteq Boot!Definitions
  /\ phase \in {"definitions", "lore", "imported"} =>
       \A id \in Boot!Definitions :
         rowsOf[id] = Boot!DefinitionFrom(files[id]) \/ (phase = "definitions" /\ id \in todo)
  /\ phase = "lore" => todo \subseteq Shipped
  /\ phase \in {"lore", "imported"} =>
       \A id \in Boot!Lores : id \in loreOf \/ (phase = "lore" /\ id \in todo)

BootInv == part = "boot" => FilesTyped /\ PassesSaved

\* A file is a record of five parts.
LEMMA FileParts ==
  Boot!Files \subseteq
    [text : {"readable", "not json", "not utf-8", "not an object"}, name : {"there", "missing"},
     characters : {"map", "null"}, metadata : Boot!Metadatas, lorebook : {None, <<"good">>, <<"bad">>}]
<1> DEFINE Shape ==
      [text : {"readable", "not json", "not utf-8", "not an object"}, name : {"there", "missing"},
       characters : {"map", "null"}, metadata : Boot!Metadatas, lorebook : {None, <<"good">>, <<"bad">>}]
<1>1. Boot!Good \in Shape
  BY DEF Boot!Good, Boot!Metadatas
<1> DEFINE flawed == {[Boot!Good EXCEPT !.text = x] : x \in {"not json", "not utf-8", "not an object"}}
                \cup {[Boot!Good EXCEPT !.name = "missing"], [Boot!Good EXCEPT !.characters = "null"]}
                \cup {[Boot!Good EXCEPT !.metadata = m] : m \in Boot!Metadatas}
<1>2. flawed \subseteq Shape
  <2>1. \A x \in {"not json", "not utf-8", "not an object"} : [Boot!Good EXCEPT !.text = x] \in Shape
    BY <1>1
  <2>2. [Boot!Good EXCEPT !.name = "missing"] \in Shape /\ [Boot!Good EXCEPT !.characters = "null"] \in Shape
    BY <1>1
  <2>3. \A m \in Boot!Metadatas : [Boot!Good EXCEPT !.metadata = m] \in Shape
    BY <1>1
  <2> HIDE DEF Shape
  <2> QED BY <2>1, <2>2, <2>3
<1>3. Boot!Files = {[given EXCEPT !.lorebook = l] : given \in flawed, l \in {None, <<"good">>, <<"bad">>}}
  BY DEF Boot!Files
<1> HIDE DEF flawed
<1>4. \A given \in Shape, l \in {None, <<"good">>, <<"bad">>} : [given EXCEPT !.lorebook = l] \in Shape
  OBVIOUS
<1> HIDE DEF Shape
<1>5. ASSUME NEW whole \in Boot!Files PROVE whole \in Shape
  <2>1. PICK given \in flawed, l \in {None, <<"good">>, <<"bad">>} : whole = [given EXCEPT !.lorebook = l]
    BY <1>3
  <2> QED BY <1>2, <1>4, <2>1
<1> QED BY <1>5 DEF Shape

\* What the mapper makes of a file.
LEMMA MadeOf ==
  ASSUME NEW given \in Boot!Files
  PROVE  /\ Boot!DefinitionFrom(given) \in {None, "text", "nothing"}
         /\ Boot!Usable(given) =>
              /\ Boot!Parsed(given)
              /\ Boot!DefinitionFrom(given) = IF given.metadata \in {"text", "number"} THEN "text" ELSE "nothing"
<1>1. given.metadata \in Boot!Metadatas
  BY FileParts
<1>2. given.metadata \in {"absent", "text", "number", "null", "nested", "wrong"}
  BY <1>1 DEF Boot!Metadatas
<1>3. CASE given.metadata \in {"text", "number"}
  <2>1. Boot!MetadataFrom(given.metadata) = "text"
    BY <1>3 DEF Boot!MetadataFrom
  <2> QED BY <1>3, <2>1 DEF Boot!DefinitionFrom, Boot!Usable, Boot!Parsed
<1>4. CASE given.metadata \in {"absent", "null"}
  <2>1. Boot!MetadataFrom(given.metadata) = "nothing" /\ given.metadata \notin {"text", "number"}
    BY <1>4 DEF Boot!MetadataFrom
  <2> QED BY <1>4, <2>1 DEF Boot!DefinitionFrom, Boot!Usable, Boot!Parsed
<1>5. CASE given.metadata \in {"nested", "wrong"}
  <2>1. Boot!MetadataFrom(given.metadata) = None
    BY <1>5 DEF Boot!MetadataFrom
  <2> QED BY <1>5, <2>1 DEF Boot!DefinitionFrom, Boot!Usable
<1> QED BY <1>2, <1>3, <1>4, <1>5

\* The directories hold such files.
LEMMA DirectoriesTyped == Boot!Directories \subseteq [Shipped -> Boot!Files]
<1>1. Boot!Good \in Boot!Files
  <2> DEFINE flawed == {[Boot!Good EXCEPT !.text = x] : x \in {"not json", "not utf-8", "not an object"}}
                  \cup {[Boot!Good EXCEPT !.name = "missing"], [Boot!Good EXCEPT !.characters = "null"]}
                  \cup {[Boot!Good EXCEPT !.metadata = m] : m \in Boot!Metadatas}
  <2>1. [Boot!Good EXCEPT !.metadata = "text"] = Boot!Good
    BY DEF Boot!Good
  <2>2. Boot!Good \in flawed
    BY <2>1 DEF Boot!Metadatas
  <2>3. Boot!Files = {[given EXCEPT !.lorebook = l] : given \in flawed, l \in {None, <<"good">>, <<"bad">>}}
    BY DEF Boot!Files
  <2>4. [Boot!Good EXCEPT !.lorebook = <<"good">>] = Boot!Good
    BY DEF Boot!Good
  <2> HIDE DEF flawed
  <2> QED BY <2>2, <2>3, <2>4
<1> QED BY <1>1 DEF Boot!Directories

\* No step undoes the invariant.
LEMMA BootNext == BootInv /\ [Next]_vars => BootInv'
<1> SUFFICES ASSUME BootInv, [Next]_vars, part = "boot" PROVE FilesTyped' /\ PassesSaved'
  BY DEF BootInv, Next, vars
<1>0. FilesTyped /\ PassesSaved
  BY DEF BootInv
<1> USE DEF Boot!Definitions, Boot!Lores
<1>1. CASE UNCHANGED BootVars
  BY <1>0, <1>1 DEF BootVars, FilesTyped, PassesSaved
<1>2. CASE Boot!BootBlind
  BY <1>0, <1>2 DEF Boot!BootBlind, FilesTyped, PassesSaved
<1>3. CASE Boot!ReadDefinitions
  BY <1>0, <1>3 DEF Boot!ReadDefinitions, FilesTyped, PassesSaved
<1>4. CASE Boot!SaveDefinition
  <2>1. PICK id \in todo : /\ rowsOf' = [rowsOf EXCEPT ![id] = Boot!DefinitionFrom(files[id])]
                           /\ todo' = todo \ {id}
    BY <1>4 DEF Boot!SaveDefinition
  <2>2. /\ phase = "definitions" /\ phase' = phase /\ files' = files /\ loreOf' = loreOf
        /\ id \in Shipped /\ files[id] \in Boot!Files
    BY <1>0, <1>4, <2>1 DEF Boot!SaveDefinition, PassesSaved, FilesTyped
  <2>3. Boot!DefinitionFrom(files[id]) \in {None, "text", "nothing"}
    BY <2>2, MadeOf
  <2>4. FilesTyped'
    BY <1>0, <2>1, <2>2, <2>3 DEF FilesTyped
  <2> QED BY <1>0, <2>1, <2>2, <2>4 DEF FilesTyped, PassesSaved
<1>5. CASE Boot!ReadLore
  BY <1>0, <1>5 DEF Boot!ReadLore, FilesTyped, PassesSaved
<1>6. CASE Boot!SaveLoreEntry
  BY <1>0, <1>6 DEF Boot!SaveLoreEntry, FilesTyped, PassesSaved
<1>7. CASE Boot!Serve
  BY <1>0, <1>7 DEF Boot!Serve, FilesTyped, PassesSaved
<1>8. CASE Boot!Down
  BY <1>0, <1>8, DirectoriesTyped DEF Boot!Down, FilesTyped, PassesSaved
<1> QED BY <1>1, <1>2, <1>3, <1>4, <1>5, <1>6, <1>7, <1>8 DEF Next, Boot!Next, vars

\* Every usable curated file is in the database with its lore once a boot has imported,
\* whatever is wrong with another and whatever earlier boots were cut off at: import_directory
\* and the mappers it reads with.
THEOREM Imported == Spec => []ImportComplete
<1>1. Init => BootInv
  BY DirectoriesTyped DEF Init, Boot!Init, BootInv, FilesTyped, PassesSaved
<1>2. BootInv => ImportComplete
  <2> SUFFICES ASSUME BootInv, part = "boot", phase = "imported", NEW id \in Shipped, Boot!Usable(files[id])
      PROVE  /\ rowsOf[id] = IF files[id].metadata \in {"text", "number"} THEN "text" ELSE "nothing"
             /\ files[id].lorebook = <<"good">> => id \in loreOf
    BY DEF ImportComplete, Boot!ImportComplete
  <2>1. /\ Boot!Parsed(files[id])
        /\ Boot!DefinitionFrom(files[id]) = IF files[id].metadata \in {"text", "number"} THEN "text" ELSE "nothing"
    BY MadeOf DEF BootInv, FilesTyped
  <2>2. id \in Boot!Definitions
    BY <2>1, PartsAssumption DEF Boot!Definitions
  <2>3. files[id].lorebook = <<"good">> => id \in Boot!Lores
    BY <2>1 DEF Boot!Lores
  <2> QED BY <2>1, <2>2, <2>3 DEF BootInv, PassesSaved
<1> QED BY <1>1, <1>2, BootNext, PTL DEF Spec
-----------------------------------------------------------------------------
(* SplitFaithful of Splitter.                                              *)

\* A cut of the window after s that ends with e is in the window and after a blank or a stop,
\* or ends a window without a blank.
FairCut(i, s, e) ==
  /\ i \in s + 1..e
  /\ text[i] \in Messages!Blank \cup {Messages!Stop} \/ (i = e /\ \A j \in s + 1..e : text[j] \notin Messages!Blank)

\* The last cut of the first kind there is, is fair.
LEMMA SplitFair ==
  ASSUME NEW s \in Nat, NEW e \in Nat, s < e
  PROVE  FairCut(Messages!SplitIndex(s, e), s, e)
<1> DEFINE kinds == <<Messages!Paragraphs(s, e), Messages!Lines(s, e), Messages!Sentences(s, e),
                      Messages!Words(s, e), {e}>>
           some == {k \in DOMAIN kinds : kinds[k] # {}}
<1>1. /\ DOMAIN kinds = 1..5 /\ kinds[1] = Messages!Paragraphs(s, e) /\ kinds[2] = Messages!Lines(s, e)
      /\ kinds[3] = Messages!Sentences(s, e) /\ kinds[4] = Messages!Words(s, e) /\ kinds[5] = {e}
  OBVIOUS
<1>2. Messages!SplitIndex(s, e) = Messages!Max(kinds[Messages!Min(some)])
  BY DEF Messages!SplitIndex
<1> HIDE DEF kinds
<1>3. some \in SUBSET Nat /\ 5 \in some
  BY <1>1
<1>4. PICK k \in some : k = Messages!Min(some) /\ \A x \in some : k <= x
  <2>1. \E x \in some : \A y \in some : x <= y
    <3> HIDE DEF some
    <3> QED BY <1>3, NatMin
  <2> HIDE DEF some
  <2> QED BY <2>1 DEF Messages!Min
<1>5. k \in 1..5 /\ kinds[k] # {}
  BY <1>1
<1>6. \A i \in kinds[k] : FairCut(i, s, e)
  <2>1. CASE k \in 1..3
    <3>1. ASSUME NEW i \in kinds[k] PROVE i \in s + 1..e /\ text[i] \in {Messages!Newline, Messages!Stop}
      BY <1>1, <2>1 DEF Messages!Paragraphs, Messages!Lines, Messages!Sentences
    <3> QED BY <3>1 DEF FairCut, Messages!Blank
  <2>2. CASE k = 4
    BY <1>1, <2>2 DEF FairCut, Messages!Words
  <2>3. CASE k = 5
    <3>1. 4 \notin some
      <4>1. \A x \in some : 5 <= x
        BY <1>4, <2>3
      <4> HIDE DEF some
      <4> QED BY <4>1
    <3>2. Messages!Words(s, e) = {}
      BY <1>1, <3>1
    <3>3. \A j \in s + 1..e : text[j] \notin Messages!Blank
      BY <3>2 DEF Messages!Words
    <3> QED BY <1>1, <2>3, <3>3 DEF FairCut
  <2> QED BY <1>5, <2>1, <2>2, <2>3
<1>7. kinds[k] \in SUBSET (0..e)
  BY <1>6 DEF FairCut
<1>8. Messages!Max(kinds[k]) \in kinds[k]
  <2>1. \E x \in kinds[k] : \A y \in kinds[k] : y <= x
    BY <1>5, <1>7, NatMax
  <2>2. \E x \in kinds[k] : \A y \in kinds[k] : x >= y
    <3>1. \A x, y \in kinds[k] : y <= x => x >= y
      BY <1>7
    <3> QED BY <2>1, <3>1
  <2> QED BY <2>2 DEF Messages!Max
<1> QED BY <1>2, <1>4, <1>6, <1>8

\* Chunk k is what stands between the ends of two chunks, and ends where it may.
ChunksEnd(end) ==
  /\ end \in [0..Len(chunks) -> 0..Len(text)]
  /\ end[0] = 0 /\ end[Len(chunks)] = start
  /\ \A k \in 1..Len(chunks) :
       /\ end[k] - end[k - 1] \in 1..limit
       /\ chunks[k] = SubSeq(text, end[k - 1] + 1, end[k])
       /\ end[k] = Len(text) \/ FairCut(end[k], end[k - 1], end[k - 1] + limit)

MessagesInv ==
  /\ text \in Seq(Messages!Characters) /\ limit \in Nat \ {0} /\ start \in 0..Len(text)
  /\ chunks \in Seq(Seq(Messages!Characters))
  /\ \E end : ChunksEnd(end)

\* A chunk that is added.
LEMMA ChunkAdded ==
  ASSUME MessagesInv, NEW i \in start + 1..Len(text), i - start <= limit,
         i = Len(text) \/ FairCut(i, start, start + limit),
         chunks' = Append(chunks, SubSeq(text, start + 1, i)), start' = i, UNCHANGED <<text, limit>>
  PROVE  MessagesInv'
<1> DEFINE n == Len(chunks)
<1>1. /\ text \in Seq(Messages!Characters) /\ limit \in Nat \ {0} /\ start \in 0..Len(text) /\ Len(text) \in Nat
      /\ chunks \in Seq(Seq(Messages!Characters)) /\ n \in Nat
  BY DEF MessagesInv
<1>2. SubSeq(text, start + 1, i) \in Seq(Messages!Characters)
  BY <1>1
<1>3. PICK chunk \in Seq(Messages!Characters) : chunk = SubSeq(text, start + 1, i)
  BY <1>2
<1>4. /\ chunks' \in Seq(Seq(Messages!Characters)) /\ Len(chunks') = n + 1
      /\ chunks'[n + 1] = chunk /\ \A k \in 1..n : chunks'[k] = chunks[k]
  BY <1>1, <1>3
<1>5. PICK end : ChunksEnd(end)
  BY DEF MessagesInv
<1>6. /\ end \in [0..n -> 0..Len(text)] /\ end[0] = 0 /\ end[n] = start
      /\ \A k \in 1..n : /\ end[k] - end[k - 1] \in 1..limit
                         /\ chunks[k] = SubSeq(text, end[k - 1] + 1, end[k])
                         /\ end[k] = Len(text) \/ FairCut(end[k], end[k - 1], end[k - 1] + limit)
  BY <1>5 DEF ChunksEnd
<1> HIDE DEF n
<1>7. PICK new : new = [k \in 0..n + 1 |-> IF k = n + 1 THEN i ELSE end[k]]
  OBVIOUS
<1>8. /\ new \in [0..n + 1 -> 0..Len(text)] /\ new[n + 1] = i
      /\ \A k \in 0..n : new[k] = end[k]
  BY <1>1, <1>6, <1>7
<1>9. ASSUME NEW k \in 1..n + 1
      PROVE  /\ new[k] - new[k - 1] \in 1..limit
             /\ chunks'[k] = SubSeq(text, new[k - 1] + 1, new[k])
             /\ new[k] = Len(text) \/ FairCut(new[k], new[k - 1], new[k - 1] + limit)
  <2>1. CASE k = n + 1
    <3>1. new[k] = i /\ new[k - 1] = start
      BY <1>1, <1>6, <1>8, <2>1
    <3>2. i - start \in 1..limit
      BY <1>1
    <3> QED BY <1>3, <1>4, <2>1, <3>1, <3>2
  <2>2. CASE k # n + 1
    <3>1. k \in 1..n /\ k \in 0..n /\ k - 1 \in 0..n
      BY <1>1, <2>2
    <3> QED BY <1>4, <1>6, <1>8, <3>1
  <2> QED BY <2>1, <2>2
<1>10. \A k, s, e : FairCut(k, s, e)' <=> FairCut(k, s, e)
  BY DEF FairCut
<1>11. ChunksEnd(new)'
  <2>1. new[0] = 0
    BY <1>1, <1>6, <1>8
  <2> QED BY <1>4, <1>8, <1>9, <1>10, <2>1 DEF ChunksEnd
<1> QED BY <1>1, <1>4, <1>11 DEF MessagesInv

LEMMA MessagesNext == MessagesInv /\ [Next]_vars => MessagesInv'
<1> SUFFICES ASSUME MessagesInv, [Next]_vars PROVE MessagesInv'
  OBVIOUS
<1>0. text \in Seq(Messages!Characters) /\ limit \in Nat \ {0} /\ start \in 0..Len(text) /\ Len(text) \in Nat
  BY DEF MessagesInv
<1>1. CASE UNCHANGED MessagesVars
  BY <1>1 DEF MessagesVars, MessagesInv, ChunksEnd, FairCut
<1>2. CASE Messages!Cut
  <2> DEFINE i == Messages!SplitIndex(start, start + limit)
  <2>1. Len(text) - start > limit /\ FairCut(i, start, start + limit)
    BY <1>0, <1>2, SplitFair DEF Messages!Cut
  <2>2. i \in start + 1..Len(text) /\ i - start <= limit
    BY <1>0, <2>1 DEF FairCut
  <2>3. chunks' = Append(chunks, SubSeq(text, start + 1, i)) /\ start' = i /\ UNCHANGED <<text, limit>>
    BY <1>2 DEF Messages!Cut
  <2> HIDE DEF i
  <2> QED BY <2>1, <2>2, <2>3, ChunkAdded
<1>3. CASE Messages!Rest
  <2>1. Len(text) \in start + 1..Len(text) /\ Len(text) - start <= limit
    BY <1>0, <1>3 DEF Messages!Rest
  <2> QED BY <1>3, <2>1, ChunkAdded DEF Messages!Rest
<1> QED BY <1>1, <1>2, <1>3 DEF Next, vars, Messages!Next

\* What a recursion over the chunks says: the text up to the end of each.
LEMMA SaidUpTo ==
  ASSUME MessagesInv, NEW end, ChunksEnd(end)
  PROVE  \A k \in 0..Len(chunks) : Messages!Said[k] = SubSeq(text, 1, end[k])
<1> DEFINE n == Len(chunks)
           upTo == [k \in 0..n |-> SubSeq(text, 1, end[k])]
<1>1. /\ text \in Seq(Messages!Characters) /\ limit \in Nat \ {0} /\ Len(text) \in Nat
      /\ chunks \in Seq(Seq(Messages!Characters)) /\ n \in Nat
  BY DEF MessagesInv
<1>2. /\ end \in [0..n -> 0..Len(text)] /\ end[0] = 0
      /\ \A k \in 1..n : end[k] - end[k - 1] \in 1..limit /\ chunks[k] = SubSeq(text, end[k - 1] + 1, end[k])
  BY DEF ChunksEnd
<1> HIDE DEF n
<1>3. ASSUME NEW k \in 1..n PROVE SubSeq(text, 1, end[k]) = SubSeq(text, 1, end[k - 1]) \o chunks[k]
  <2>1. end[k] \in 0..Len(text) /\ end[k - 1] \in 0..Len(text) /\ end[k - 1] <= end[k]
    BY ONLY SMTT(30), <1>1, <1>2
  <2>2. PICK a \in 0..Len(text), b \in 0..Len(text) : a = end[k - 1] /\ b = end[k] /\ a <= b
    BY <2>1
  <2>3. SubSeq(text, 1, b) = SubSeq(text, 1, a) \o SubSeq(text, a + 1, b)
    <3>1. 1 \in 1..Len(text) + 1 /\ a \in 1 - 1..Len(text) /\ b \in a..Len(text)
      BY <1>1, <2>2
    <3> QED BY <1>1, <3>1, ConcatAdjacentSubSeq
  <2> QED BY <1>2, <2>2, <2>3
<1>4. upTo = [k \in 0..n |-> IF k = 0 THEN <<>> ELSE upTo[k - 1] \o chunks[k]]
  <2>1. SubSeq(text, 1, end[0]) = <<>>
    BY <1>1, <1>2
  <2>2. ASSUME NEW k \in 0..n PROVE upTo[k] = IF k = 0 THEN <<>> ELSE upTo[k - 1] \o chunks[k]
    <3>1. CASE k = 0
      BY <2>1, <3>1
    <3>2. CASE k # 0
      <4>1. k \in 1..n /\ k - 1 \in 0..n
        BY <1>1, <3>2
      <4> QED BY <1>3, <3>2, <4>1
    <3> QED BY <3>1, <3>2
  <2> QED BY <2>2
<1>5. Messages!Said = [k \in 0..n |-> IF k = 0 THEN <<>> ELSE Messages!Said[k - 1] \o chunks[k]]
  <2> HIDE DEF upTo
  <2> QED BY <1>4 DEF Messages!Said, n
<1> DEFINE P == {k \in Nat : k <= n => Messages!Said[k] = upTo[k]}
<1> HIDE DEF upTo
<1>6. 0 \in P
  BY <1>1, <1>4, <1>5
<1>7. ASSUME NEW k \in Nat, k \in P PROVE k + 1 \in P
  <2> SUFFICES ASSUME k + 1 <= n PROVE Messages!Said[k + 1] = upTo[k + 1]
    OBVIOUS
  <2>1. k + 1 \in 0..n /\ k + 1 # 0 /\ (k + 1) - 1 = k /\ k <= n
    BY <1>1
  <2>2. Messages!Said[k + 1] = Messages!Said[k] \o chunks[k + 1]
    BY <1>5, <2>1
  <2>3. upTo[k + 1] = upTo[k] \o chunks[k + 1]
    BY <1>4, <2>1
  <2> QED BY <1>7, <2>1, <2>2, <2>3
<1>8. Nat \subseteq P
  <2> HIDE DEF P
  <2> QED BY <1>6, <1>7, Climb
<1>9. \A k \in 0..n : Messages!Said[k] = upTo[k]
  BY <1>1, <1>8
<1> QED BY <1>9 DEF upTo, n

\* Whatever a reply and the limit are, the messages a player gets are the reply, none is too
\* long, and a word is torn only where nothing else could be done (splitter.py).
THEOREM SplitSaysAll == Spec => []SplitFaithful
<1>1. Init => MessagesInv
  <2> SUFFICES ASSUME Init PROVE MessagesInv
    OBVIOUS
  <2>1. text \in Seq(Messages!Characters) /\ limit \in Nat \ {0} /\ start = 0 /\ chunks = <<>>
    <3>1. CASE part = "splitter"
      <4>1. PICK m \in 0..MaxText : text \in [1..m -> Messages!Characters]
        BY <3>1 DEF Init, Messages!Init
      <4>2. m \in Nat
        OBVIOUS
      <4>3. text \in Seq(Messages!Characters)
        BY <4>1, <4>2
      <4>4. limit \in Limits /\ start = 0 /\ chunks = <<>>
        BY <3>1 DEF Init, Messages!Init
      <4> QED BY <4>3, <4>4, PartsAssumption
    <3>2. CASE part # "splitter"
      BY <3>2 DEF Init
    <3> QED BY <3>1, <3>2
  <2>2. PICK end : end = [k \in 0..0 |-> 0]
    OBVIOUS
  <2>3. ChunksEnd(end)
    BY <2>1, <2>2 DEF ChunksEnd
  <2> QED BY <2>1, <2>3 DEF MessagesInv
<1>2. MessagesInv => SplitFaithful
  <2> SUFFICES ASSUME MessagesInv PROVE SplitFaithful
    OBVIOUS
  <2> DEFINE n == Len(chunks)
  <2>1. /\ text \in Seq(Messages!Characters) /\ limit \in Nat \ {0} /\ Len(text) \in Nat
        /\ n \in Nat /\ DOMAIN chunks = 1..n
    BY DEF MessagesInv
  <2>2. PICK end : ChunksEnd(end)
    BY DEF MessagesInv
  <2>3. /\ end \in [0..n -> 0..Len(text)] /\ end[n] = start
        /\ \A k \in 1..n : /\ end[k] - end[k - 1] \in 1..limit
                           /\ chunks[k] = SubSeq(text, end[k - 1] + 1, end[k])
                           /\ end[k] = Len(text) \/ FairCut(end[k], end[k - 1], end[k - 1] + limit)
    BY <2>2 DEF ChunksEnd
  <2>4. \A k \in 0..n : Messages!Said[k] = SubSeq(text, 1, end[k])
    BY <2>2, SaidUpTo
  <2> HIDE DEF n
  <2>5. Messages!Said[n] = SubSeq(text, 1, start)
    BY <2>1, <2>3, <2>4
  <2>6. ASSUME NEW k \in 1..n
        PROVE  /\ Len(chunks[k]) \in 1..limit
               /\ \/ Len(Messages!Said[k]) = Len(text)
                  \/ chunks[k][Len(chunks[k])] \in Messages!Blank \cup {Messages!Stop}
                  \/ Len(chunks[k]) = limit /\ \A i \in DOMAIN chunks[k] : chunks[k][i] \notin Messages!Blank
    <3>1. end[k] \in 0..Len(text) /\ end[k - 1] \in 0..Len(text)
      BY <2>1, <2>3
    <3>2. PICK a \in 0..Len(text), b \in 0..Len(text) : a = end[k - 1] /\ b = end[k]
      BY <3>1
    <3>3. b - a \in 1..limit /\ chunks[k] = SubSeq(text, a + 1, b) /\ (b = Len(text) \/ FairCut(b, a, a + limit))
      BY <2>3, <3>2
    <3>4. /\ Len(chunks[k]) = b - a /\ DOMAIN chunks[k] = 1..b - a
          /\ \A i \in 1..b - a : chunks[k][i] = text[a + i]
      BY SMTT(30), <2>1, <3>3
    <3>5. Len(Messages!Said[k]) = b
      <4>1. Messages!Said[k] = SubSeq(text, 1, b)
        BY <2>1, <2>4, <3>2
      <4> QED BY <2>1, <4>1
    <3>6. CASE b = Len(text)
      BY <3>3, <3>4, <3>5, <3>6
    <3>7. CASE FairCut(b, a, a + limit)
      <4>1. chunks[k][b - a] = text[b]
        <5>1. b - a \in 1..b - a /\ a + (b - a) = b
          BY <3>3
        <5> QED BY <3>4, <5>1
      <4>2. CASE text[b] \in Messages!Blank \cup {Messages!Stop}
        BY <3>3, <3>4, <4>1, <4>2
      <4>3. CASE b = a + limit /\ \A j \in a + 1..a + limit : text[j] \notin Messages!Blank
        <5>1. \A i \in 1..b - a : a + i \in a + 1..a + limit
          BY <2>1, <4>3
        <5>2. \A i \in 1..b - a : chunks[k][i] \notin Messages!Blank
          BY <3>4, <4>3, <5>1
        <5>3. Len(chunks[k]) = limit
          BY <2>1, <3>4, <4>3
        <5> QED BY <3>3, <3>4, <5>2, <5>3
      <4> QED BY <3>7, <4>2, <4>3 DEF FairCut
    <3> QED BY <3>3, <3>6, <3>7
  <2> QED BY <2>1, <2>5, <2>6 DEF n, SplitFaithful, Messages!SplitFaithful
<1> QED BY <1>1, <1>2, MessagesNext, PTL DEF Spec
-----------------------------------------------------------------------------
(* ImportRestores of Transfer.                                             *)

\* A list without blank notes reads back as it is, and no list reads back with a blank.
LEMMA UsableNotes ==
  ASSUME NEW notes \in Seq({"note", "blank"})
  PROVE  /\ Archives!Usable(notes) \in Seq({"note"})
         /\ notes \in Seq({"note"}) => Archives!Usable(notes) = notes
         /\ notes = <<"blank", "note">> => Archives!Usable(notes) = <<"note">>
<1>0. PICK n : n = Len(notes)
  OBVIOUS
<1> DEFINE next == [i \in 1..n |-> [x \in Seq({"note"}) |-> IF notes[i] = "blank" THEN x ELSE Append(x, notes[i])]]
<1>1. n \in Nat /\ \A i \in 1..n : notes[i] \in {"note", "blank"}
  BY <1>0
<1>2. next \in [1..n -> [Seq({"note"}) -> Seq({"note"})]]
  BY <1>1
<1>3. PICK g \in [0..n -> Seq({"note"})] : g[0] = <<>> /\ \A i \in 1..n : g[i] = next[i][g[i - 1]]
  <2> HIDE DEF next
  <2>1. PICK S, none, h : S = Seq({"note"}) /\ none = <<>> /\ h = next
    OBVIOUS
  <2>2. none \in S
    BY <2>1
  <2>3. h \in [1..n -> [S -> S]]
    BY <1>2, <2>1
  <2>0. n \in Nat
    BY <1>1
  <2>4. \E g \in [0..n -> S] : g[0] = none /\ \A i \in 1..n : g[i] = h[i][g[i - 1]]
    BY ONLY <2>0, <2>2, <2>3, Recursion
  <2> QED BY <2>1, <2>4
<1>4. \A i \in 1..n : g[i] = IF notes[i] = "blank" THEN g[i - 1] ELSE Append(g[i - 1], notes[i])
  <2> TAKE i \in 1..n
  <2>1. i - 1 \in 0..n
    BY <1>1
  <2>2. g[i - 1] \in Seq({"note"})
    BY <2>1
  <2> QED BY <1>3, <2>2
<1> DEFINE upTo == CHOOSE upTo : upTo = [i \in 0..n |-> IF i = 0 THEN <<>>
                                         ELSE IF notes[i] = "blank" THEN upTo[i - 1]
                                         ELSE Append(upTo[i - 1], notes[i])]
<1> HIDE DEF next
<1>5. g = [i \in 0..n |-> IF i = 0 THEN <<>>
                          ELSE IF notes[i] = "blank" THEN g[i - 1] ELSE Append(g[i - 1], notes[i])]
  <2>1. ASSUME NEW i \in 0..n
        PROVE  g[i] = IF i = 0 THEN <<>>
                      ELSE IF notes[i] = "blank" THEN g[i - 1] ELSE Append(g[i - 1], notes[i])
    <3>1. CASE i = 0
      BY <1>3, <3>1
    <3>2. CASE i # 0
      <4>1. i \in 1..n
        BY <1>1, <3>2
      <4> QED BY <1>4, <3>2, <4>1
    <3> QED BY <3>1, <3>2
  <2> QED BY <1>3, <2>1
<1>6. upTo = [i \in 0..n |-> IF i = 0 THEN <<>>
                             ELSE IF notes[i] = "blank" THEN upTo[i - 1] ELSE Append(upTo[i - 1], notes[i])]
  BY <1>5
<1>7. Archives!Usable(notes) = upTo[n]
  BY <1>0 DEF Archives!Usable
<1> HIDE DEF upTo
<1>8. upTo[0] = <<>> /\ \A i \in 1..n : upTo[i] = IF notes[i] = "blank" THEN upTo[i - 1] ELSE Append(upTo[i - 1], notes[i])
  <2>1. 0 \in 0..n /\ \A i \in 1..n : i \in 0..n /\ i # 0
    BY <1>1
  <2>2. upTo[0] = <<>>
    BY ONLY <1>6, <2>1
  <2> QED BY <1>6, <2>1, <2>2
<1> DEFINE P == {m \in Nat : m <= n => /\ upTo[m] \in Seq({"note"})
                                       /\ notes \in Seq({"note"}) => upTo[m] = SubSeq(notes, 1, m)}
<1>9. 0 \in P
  <2>1. <<>> \in Seq({"note"}) /\ SubSeq(notes, 1, 0) = <<>>
    BY <1>1
  <2> QED BY <1>8, <2>1
<1>10. ASSUME NEW m \in Nat, m \in P PROVE m + 1 \in P
  <2> SUFFICES ASSUME m + 1 <= n
               PROVE  /\ upTo[m + 1] \in Seq({"note"})
                      /\ notes \in Seq({"note"}) => upTo[m + 1] = SubSeq(notes, 1, m + 1)
    OBVIOUS
  <2>1. m + 1 \in 1..n /\ (m + 1) - 1 = m /\ upTo[m] \in Seq({"note"})
    BY <1>1, <1>10
  <2>2. upTo[m + 1] = IF notes[m + 1] = "blank" THEN upTo[m] ELSE Append(upTo[m], notes[m + 1])
    BY <1>8, <2>1
  <2>3. upTo[m + 1] \in Seq({"note"})
    BY <1>1, <2>1, <2>2
  <2>4. ASSUME notes \in Seq({"note"}) PROVE upTo[m + 1] = SubSeq(notes, 1, m + 1)
    <3>1. upTo[m] = SubSeq(notes, 1, m) /\ notes[m + 1] = "note"
      BY <1>0, <1>1, <1>10, <2>1, <2>4
    <3>2. SubSeq(notes, 1, m + 1) = Append(SubSeq(notes, 1, m), notes[m + 1])
      BY <1>0, <1>1, <2>1, <2>4
    <3> QED BY <2>2, <3>1, <3>2
  <2> QED BY <2>3, <2>4
<1>11. Nat \subseteq P
  <2> HIDE DEF P
  <2> QED BY <1>9, <1>10, Climb
<1>12. upTo[n] \in Seq({"note"}) /\ (notes \in Seq({"note"}) => upTo[n] = SubSeq(notes, 1, n))
  BY <1>1, <1>11
<1>13. notes \in Seq({"note"}) => SubSeq(notes, 1, n) = notes
  BY <1>0
<1>14. ASSUME notes = <<"blank", "note">> PROVE upTo[n] = <<"note">>
  <2>1. n = 2 /\ notes[1] = "blank" /\ notes[2] = "note"
    BY <1>0, <1>14
  <2>2. upTo[1] = upTo[0]
    BY <1>8, <2>1
  <2>3. upTo[2] = Append(upTo[1], "note")
    <3>1. 2 \in 1..n /\ notes[2] # "blank" /\ 2 - 1 = 1
      BY <2>1
    <3> QED BY <1>8, <2>1, <3>1
  <2> QED BY <1>8, <2>1, <2>2, <2>3
<1> QED BY <1>7, <1>12, <1>13, <1>14

\* Sessions a row can stand for.
LayerSets == SUBSET {"rolling_summary", "lorebook"}
SessionShares == UNION {[known -> 1..100] : known \in LayerSets}
ReadSessions ==
  [deleted : {None, "then"}, persona : {None, "someone"}, notes : Seq({"note"}),
   layers : LayerSets, shares : SessionShares]

\* What is written of a session reads back as it.
LEMMA ReadsBack ==
  ASSUME NEW session \in ReadSessions
  PROVE  Archives!FromPayload(Archives!ToPayload(session)) = session
<1> DEFINE p == Archives!ToPayload(session)
<1>1. /\ p.deleted = session.deleted /\ p.persona = session.persona /\ p.notes = session.notes
      /\ p.layers = session.layers /\ p.shares = session.shares
  BY DEF Archives!ToPayload
<1>2. /\ session.persona \in {None, "someone"} /\ session.notes \in Seq({"note"})
      /\ session.layers \in LayerSets /\ session.shares \in SessionShares
      /\ session = [deleted |-> session.deleted, persona |-> session.persona, notes |-> session.notes,
                    layers |-> session.layers, shares |-> session.shares]
  BY DEF ReadSessions
<1> HIDE DEF p
<1>3. Archives!OptionalText(p.persona) = session.persona
  BY <1>1, <1>2, PartsAssumption DEF Archives!OptionalText
<1>4. Archives!NotesFrom(p) = session.notes
  <2>1. session.notes \in Seq({"note", "blank"})
    BY <1>2
  <2>2. session.notes # None
    BY <2>1, PartsAssumption
  <2>3. Archives!Usable(session.notes) = session.notes
    BY <1>2, <2>1, UsableNotes
  <2> QED BY <1>1, <2>2, <2>3 DEF Archives!NotesFrom
<1>5. Archives!EnabledFrom(p.layers) = session.layers
  <2>1. session.layers \in SUBSET {"rolling_summary", "lorebook", "dreams"}
    BY <1>2 DEF LayerSets
  <2>2. session.layers # None
    BY <2>1, PartsAssumption
  <2> QED BY <1>1, <1>2, <2>2 DEF Archives!EnabledFrom, Archives!Toggleable, LayerSets
<1>6. Archives!SharesFrom(p.shares) = session.shares
  <2>1. PICK known \in LayerSets : session.shares \in [known -> 1..100]
    BY <1>2 DEF SessionShares
  <2>2. session.shares \in [known -> Nat] /\ known \in SUBSET {"rolling_summary", "lorebook", "dreams"}
    BY <2>1 DEF LayerSets
  <2>3. session.shares # None
    BY <2>2, PartsAssumption
  <2>4. \A layer \in known : Archives!Fits(session.shares, layer)
    BY <2>1 DEF Archives!Fits, Archives!Toggleable, LayerSets
  <2>5. {layer \in DOMAIN session.shares : Archives!Fits(session.shares, layer)} = known
    BY <2>1, <2>4
  <2> QED BY <1>1, <2>1, <2>3, <2>5 DEF Archives!SharesFrom
<1> QED BY <1>1, <1>2, <1>3, <1>4, <1>5, <1>6 DEF Archives!FromPayload, p

LEMMA DefaultSession == Archives!Default \in ReadSessions /\ Archives!FromPayload(Archives!Plain) = Archives!Default
<1>1. <<>> \in Seq({"note"}) /\ <<>> \in Seq({"note", "blank"})
  OBVIOUS
<1>2. [layer \in {"rolling_summary"} |-> 25] \in SessionShares
  <2>1. [layer \in {"rolling_summary"} |-> 25] \in [{"rolling_summary"} -> 1..100]
    OBVIOUS
  <2>2. {"rolling_summary"} \in LayerSets
    BY DEF LayerSets
  <2> QED BY <2>1, <2>2 DEF SessionShares
<1>3. Archives!Default \in ReadSessions
  BY <1>1, <1>2 DEF Archives!Default, ReadSessions, LayerSets
<1>4. Archives!NotesFrom(Archives!Plain) = <<>>
  <2>1. None # <<>>
    BY <1>1, PartsAssumption
  <2>2. Archives!Usable(<<>>) = <<>>
    BY <1>1, UsableNotes
  <2> QED BY <2>1, <2>2 DEF Archives!NotesFrom, Archives!Plain
<1> QED BY <1>3, <1>4 DEF Archives!FromPayload, Archives!Plain, Archives!Default, Archives!OptionalText,
       Archives!EnabledFrom, Archives!SharesFrom

\* The archives from elsewhere stand for what they are said to.
LEMMA ForeignRead ==
  ASSUME NEW given \in Archives!Foreign, given.payload.valid
  PROVE  /\ given.said \in Seq(Nat) /\ given.of \in ReadSessions
         /\ Archives!FromPayload(given.payload) = given.of
<1>1. CASE given = [payload |-> [Archives!Plain EXCEPT !.notes = None, !.note = "note"], said |-> <<7>>,
                    of |-> [Archives!Default EXCEPT !.notes = <<"note">>]]
  <2>1. given.of \in ReadSessions
    <3>1. <<"note">> \in Seq({"note"})
      OBVIOUS
    <3> QED BY <1>1, <3>1, DefaultSession DEF ReadSessions
  <2>2. /\ given.payload.deleted = None /\ given.payload.persona = None /\ given.payload.notes = None
        /\ given.payload.note = "note" /\ given.payload.layers = None /\ given.payload.shares = None
        /\ given.said = <<7>> /\ given.of = [Archives!Default EXCEPT !.notes = <<"note">>]
    BY <1>1 DEF Archives!Plain
  <2>3. Archives!NotesFrom(given.payload) = <<"note">>
    BY <2>2, PartsAssumption DEF Archives!NotesFrom
  <2>4. given.said \in Seq(Nat)
    BY <2>2
  <2> QED BY <2>1, <2>2, <2>3, <2>4 DEF Archives!FromPayload, Archives!Plain, Archives!Default, Archives!OptionalText,
       Archives!EnabledFrom, Archives!SharesFrom
<1>2. CASE given = [payload |-> Archives!Plain, said |-> <<7, Archives!Unreadable>>, of |-> Archives!Default]
  BY <1>2, DefaultSession DEF Archives!Unreadable
<1>3. CASE given = [payload |-> [Archives!Plain EXCEPT !.notes = <<"blank", "note">>, !.persona = "blank",
                              !.layers = {"lorebook", "dreams"},
                              !.shares = [layer \in {"dreams", "lorebook"} |-> IF layer = "dreams" THEN 50 ELSE 0]],
    said |-> <<>>,
    of |-> [Archives!Default EXCEPT !.notes = <<"note">>, !.layers = {"lorebook"}, !.shares = <<>>]]
  <2>1. <<"note">> \in Seq({"note"}) /\ <<"blank", "note">> \in Seq({"note", "blank"})
    OBVIOUS
  <2>2. Archives!Usable(<<"blank", "note">>) = <<"note">>
    BY <2>1, UsableNotes
  <2>3. <<"blank", "note">> # None /\ {"lorebook", "dreams"} # None
    BY <2>1, PartsAssumption
  <2>4. PICK shares : shares = [layer \in {"dreams", "lorebook"} |-> IF layer = "dreams" THEN 50 ELSE 0]
    OBVIOUS
  <2>5. DOMAIN shares = {"dreams", "lorebook"} /\ shares["dreams"] = 50 /\ shares["lorebook"] = 0
    BY <2>4
  <2>6. shares \in [{"dreams", "lorebook"} -> Nat]
    BY <2>4
  <2>7. shares # None
    BY <2>6, PartsAssumption
  <2>8. Archives!SharesFrom(shares) = [layer \in {} |-> 0]
    <3>1. {known \in DOMAIN shares : Archives!Fits(shares, known)} = {}
      BY <2>5 DEF Archives!Fits, Archives!Toggleable
    <3> QED BY <2>7, <3>1 DEF Archives!SharesFrom
  <2>9. <<>> = [layer \in {} |-> 0]
    <3>1. <<>> = [layer \in 1..0 |-> 0]
      OBVIOUS
    <3>2. 1..0 = {}
      OBVIOUS
    <3> QED BY <3>1, <3>2
  <2>10. <<>> \in SessionShares
    <3>1. [layer \in {} |-> 0] \in [{} -> 1..100]
      OBVIOUS
    <3>2. {} \in LayerSets
      BY DEF LayerSets
    <3> QED BY <2>9, <3>1, <3>2 DEF SessionShares
  <2>11. given.of \in ReadSessions
    BY <1>3, <2>1, <2>10, DefaultSession DEF ReadSessions, LayerSets
  <2>12. Archives!EnabledFrom({"lorebook", "dreams"}) = {"lorebook"}
    BY <2>3 DEF Archives!EnabledFrom, Archives!Toggleable
  <2>13. /\ given.payload.deleted = None /\ given.payload.persona = "blank" /\ given.payload.notes = <<"blank", "note">>
         /\ given.payload.layers = {"lorebook", "dreams"} /\ given.payload.shares = shares
    BY <1>3, <2>4 DEF Archives!Plain
  <2>14. given.of = [deleted |-> None, persona |-> None, notes |-> <<"note">>, layers |-> {"lorebook"}, shares |-> <<>>]
    BY <1>3 DEF Archives!Default
  <2>15. Archives!NotesFrom(given.payload) = <<"note">>
    BY <2>2, <2>3, <2>13 DEF Archives!NotesFrom
  <2>16. given.said \in Seq(Nat)
    BY <1>3
  <2> QED BY <2>8, <2>9, <2>11, <2>12, <2>13, <2>14, <2>15, <2>16 DEF Archives!FromPayload, Archives!OptionalText
<1>4. CASE given = [payload |-> [Archives!Plain EXCEPT !.valid = FALSE], said |-> <<7>>, of |-> None]
  BY <1>4 DEF Archives!Plain
<1> QED BY <1>1, <1>2, <1>3, <1>4 DEF Archives!Foreign

\* An archive that can be read stands for the session it was made from.
Honest(given) ==
  given.payload.valid =>
    /\ given.said \in Seq(Nat) /\ given.of \in ReadSessions
    /\ Archives!FromPayload(given.payload) = given.of

\* An import that nothing changed the session under has set it to the archive's, and its
\* transcript to what it has written so far.
Progress ==
  /\ in = [step |-> in.step, file |-> in.file, next |-> in.next, raced |-> in.raced]
  /\ in.step \in {"clear", "say"} /\ in.file.payload.valid /\ Honest(in.file)
  /\ in.next \in 1..Len(in.file.said) + 1
  /\ in.step = "clear" => in.next = 1
  /\ ~in.raced => meant = in.file.of
  /\ in.step = "say" /\ ~in.raced => spoken = SubSeq(in.file.said, 1, in.next - 1)

ArchivesInv ==
  /\ meant \in ReadSessions /\ Archives!FromPayload(saved) = meant
  /\ spoken \in Seq(Nat) /\ edits \in Nat
  /\ archive # None => Honest(archive)
  /\ out # None => out.read \in ReadSessions /\ out.of = out.read
  /\ in = Archives!Idle \/ Progress

LEMMA ArchivesInit == Archives!Init => ArchivesInv
<1> SUFFICES ASSUME Archives!Init PROVE ArchivesInv
  OBVIOUS
<1>1. meant \in ReadSessions /\ Archives!FromPayload(saved) = meant
  BY DefaultSession, ReadsBack DEF Archives!Init
<1> QED BY <1>1 DEF Archives!Init, ArchivesInv

\* What a payload says is the same in every state.
LEMMA ReadSame ==
  ASSUME NEW p, NEW given
  PROVE  /\ Archives!FromPayload(p)' = Archives!FromPayload(p)
         /\ Honest(given)' <=> Honest(given)
  BY DEF Honest, Archives!FromPayload, Archives!NotesFrom, Archives!Usable, Archives!OptionalText,
     Archives!EnabledFrom, Archives!SharesFrom, Archives!Fits

\* A change of the session, or of its transcript, beside an import.
LEMMA ArchivesRaced ==
  ASSUME ArchivesInv, Archives!Raced, NEW session \in ReadSessions,
         (saved' = Archives!ToPayload(session) /\ meant' = session) \/ UNCHANGED <<saved, meant>>,
         spoken' \in Seq(Nat), edits' \in Nat, UNCHANGED <<archive, out>>
  PROVE  ArchivesInv'
<1>1. meant' \in ReadSessions /\ Archives!FromPayload(saved)' = meant'
  <2>1. PICK new : new = saved'
    OBVIOUS
  <2>2. Archives!FromPayload(saved)' = Archives!FromPayload(new)
    BY <2>1 DEF Archives!FromPayload, Archives!NotesFrom, Archives!Usable, Archives!OptionalText,
       Archives!EnabledFrom, Archives!SharesFrom, Archives!Fits
  <2>3. CASE saved' = Archives!ToPayload(session) /\ meant' = session
    BY <2>1, <2>2, <2>3, ReadsBack
  <2>4. CASE UNCHANGED <<saved, meant>>
    BY <2>1, <2>2, <2>4 DEF ArchivesInv
  <2> QED BY <2>3, <2>4
<1>2. in' = Archives!Idle \/ Progress'
  <2>1. CASE in = Archives!Idle
    BY <2>1 DEF Archives!Raced, Archives!Idle
  <2>2. CASE in # Archives!Idle
    <3>1. Progress
      BY <2>2 DEF ArchivesInv
    <3>2. /\ in' = [step |-> in'.step, file |-> in'.file, next |-> in'.next, raced |-> in'.raced]
          /\ in'.step = in.step /\ in'.file = in.file /\ in'.next = in.next /\ in'.raced = TRUE
      BY <2>2, <3>1 DEF Archives!Raced, Progress
    <3>3. PICK given : given = in.file /\ given = in'.file
      BY <3>2
    <3>4. Honest(in.file)'
      BY <3>1, <3>3, ReadSame DEF Progress
    <3> QED BY <3>1, <3>2, <3>4 DEF Progress
  <2> QED BY <2>1, <2>2
<1>3. archive' # None => Honest(archive)'
  <2>1. PICK given : given = archive /\ given = archive'
    OBVIOUS
  <2> QED BY <2>1, ReadSame DEF ArchivesInv
<1> QED BY <1>1, <1>2, <1>3 DEF ArchivesInv

\* What the player and the operator do meanwhile.
LEMMA ArchivesChanged ==
  ASSUME ArchivesInv, Archives!Edit \/ Archives!Supersede \/ Archives!Say \/ Archives!Vacate
  PROVE  ArchivesInv'
<1>1. meant \in ReadSessions /\ Archives!FromPayload(saved) = meant /\ spoken \in Seq(Nat) /\ edits \in Nat
  BY DEF ArchivesInv
<1>2. CASE Archives!Edit
  <2>1. PICK changed \in
          {[meant EXCEPT !.notes = notes] : notes \in {<<>>, <<"note">>}}
     \cup {[meant EXCEPT !.layers = layers] : layers \in SUBSET Archives!Toggleable}
     \cup {[meant EXCEPT !.persona = "someone"]} :
       saved' = Archives!ToPayload(changed) /\ meant' = changed
    BY <1>1, <1>2 DEF Archives!Edit
  <2>2. changed \in ReadSessions
    <3>1. <<>> \in Seq({"note"}) /\ <<"note">> \in Seq({"note"})
      OBVIOUS
    <3>2. CASE \E notes \in {<<>>, <<"note">>} : changed = [meant EXCEPT !.notes = notes]
      BY <1>1, <3>1, <3>2 DEF ReadSessions
    <3>3. CASE \E layers \in SUBSET Archives!Toggleable : changed = [meant EXCEPT !.layers = layers]
      BY <1>1, <3>3 DEF ReadSessions, LayerSets, Archives!Toggleable
    <3>4. CASE changed = [meant EXCEPT !.persona = "someone"]
      BY <1>1, <3>4 DEF ReadSessions
    <3> QED BY <2>1, <3>2, <3>3, <3>4
  <2>3. Archives!Raced /\ spoken' \in Seq(Nat) /\ edits' \in Nat /\ UNCHANGED <<archive, out>>
    BY <1>1, <1>2 DEF Archives!Edit, Archives!Counted
  <2> QED BY <2>1, <2>2, <2>3, ArchivesRaced
<1>3. CASE Archives!Supersede
  <2>1. PICK stamped : stamped = [meant EXCEPT !.deleted = "then"] /\ saved' = Archives!ToPayload(stamped) /\ meant' = stamped
    BY <1>1, <1>3 DEF Archives!Supersede
  <2>2. stamped \in ReadSessions
    BY <1>1, <2>1 DEF ReadSessions
  <2>3. Archives!Raced /\ spoken' \in Seq(Nat) /\ edits' \in Nat /\ UNCHANGED <<archive, out>>
    BY <1>1, <1>3 DEF Archives!Supersede, Archives!Counted
  <2> QED BY <2>1, <2>2, <2>3, ArchivesRaced
<1>4. CASE Archives!Say
  <2>1. /\ Archives!Raced /\ UNCHANGED <<saved, meant>> /\ spoken' \in Seq(Nat) /\ edits' \in Nat
        /\ UNCHANGED <<archive, out>>
    BY <1>1, <1>4 DEF Archives!Say, Archives!Counted
  <2> QED BY <1>1, <2>1, ArchivesRaced
<1>5. CASE Archives!Vacate
  <2>1. edits' \in Nat /\ UNCHANGED <<saved, meant, spoken, archive, out, in>>
    BY <1>1, <1>5 DEF Archives!Vacate, Archives!Counted
  <2>2. PICK now, had, given : now = saved /\ now = saved' /\ had = archive /\ had = archive' /\ given = in.file /\ given = in'.file
    BY <2>1
  <2>3. Archives!FromPayload(saved)' = Archives!FromPayload(saved)
    BY <2>2, ReadSame
  <2>4. (Honest(archive)' <=> Honest(archive)) /\ (Honest(in.file)' <=> Honest(in.file))
    BY <2>2, ReadSame
  <2> QED BY <2>1, <2>3, <2>4 DEF ArchivesInv, Progress
<1> QED BY <1>2, <1>3, <1>4, <1>5

\* An export, and an archive that comes from elsewhere.
LEMMA ArchivesOut ==
  ASSUME ArchivesInv, Archives!ExportRow \/ Archives!ExportTranscript \/ Archives!Receive
  PROVE  ArchivesInv'
<1>1. /\ meant \in ReadSessions /\ Archives!FromPayload(saved) = meant /\ spoken \in Seq(Nat) /\ edits \in Nat
      /\ in = Archives!Idle \/ Progress
  BY DEF ArchivesInv
<1>2. UNCHANGED <<saved, meant, spoken, in, edits>>
  BY DEF Archives!ExportRow, Archives!ExportTranscript, Archives!Receive
<1>3. PICK now, given : now = saved /\ now = saved' /\ given = in.file /\ given = in'.file
  BY <1>2
<1>4. Archives!FromPayload(saved)' = Archives!FromPayload(saved) /\ (Honest(in.file)' <=> Honest(in.file))
  BY <1>3, ReadSame
<1>5. (archive' # None => Honest(archive')) /\ (out' # None => out'.read \in ReadSessions /\ out'.of = out'.read)
  <2>1. CASE Archives!ExportRow
    BY <1>1, <2>1 DEF Archives!ExportRow, ArchivesInv
  <2>2. CASE Archives!ExportTranscript
    <3>1. out.read \in ReadSessions /\ out.of = out.read
      BY <2>2 DEF Archives!ExportTranscript, ArchivesInv
    <3>2. archive' = [payload |-> Archives!ToPayload(out.read), said |-> spoken, of |-> out.of] /\ out' = None
      BY <2>2 DEF Archives!ExportTranscript, Archives!Exported
    <3>3. Archives!FromPayload(Archives!ToPayload(out.read)) = out.read
      BY <3>1, ReadsBack
    <3> HIDE DEF Archives!FromPayload, Archives!ToPayload
    <3>4. Honest(archive')
      BY <1>1, <3>1, <3>2, <3>3 DEF Honest
    <3> QED BY <3>2, <3>4
  <2>3. CASE Archives!Receive
    <3>1. PICK whose \in Archives!Foreign : archive' = whose
      BY <2>3 DEF Archives!Receive
    <3>2. Honest(whose)
      BY ForeignRead DEF Honest
    <3> QED BY <2>3, <3>1, <3>2 DEF Archives!Receive, ArchivesInv
  <2> QED BY <2>1, <2>2, <2>3
<1>6. archive' # None => Honest(archive)'
  <2>1. PICK new : new = archive'
    OBVIOUS
  <2>2. Honest(archive)' <=> Honest(new)'
    BY <2>1 DEF Honest, Archives!FromPayload, Archives!NotesFrom, Archives!Usable, Archives!OptionalText,
       Archives!EnabledFrom, Archives!SharesFrom, Archives!Fits
  <2> QED BY <1>5, <2>1, <2>2, ReadSame
<1> QED BY <1>1, <1>2, <1>4, <1>5, <1>6 DEF ArchivesInv, Progress

\* An import.
LEMMA ArchivesIn ==
  ASSUME ArchivesInv, Archives!ImportSession
  PROVE  ArchivesInv'
<1>1. Honest(archive) /\ archive.payload.valid /\ spoken \in Seq(Nat) /\ edits \in Nat
  BY DEF ArchivesInv, Archives!ImportSession
<1>2. PICK given : given = archive
  OBVIOUS
<1>3. Honest(given) /\ given.payload.valid /\ given.said \in Seq(Nat) /\ given.of \in ReadSessions
      /\ Archives!FromPayload(given.payload) = given.of
  BY <1>1, <1>2 DEF Honest
<1>4. /\ saved' = Archives!ToPayload(given.of) /\ meant' = given.of
      /\ in' = [step |-> "clear", file |-> given, next |-> 1, raced |-> FALSE]
      /\ UNCHANGED <<spoken, archive, out, edits>>
  BY <1>2, <1>3 DEF Archives!ImportSession
<1>5. Archives!FromPayload(saved)' = meant'
  <2>1. PICK new : new = saved'
    OBVIOUS
  <2>2. Archives!FromPayload(saved)' = Archives!FromPayload(new)
    BY <2>1 DEF Archives!FromPayload, Archives!NotesFrom, Archives!Usable, Archives!OptionalText,
       Archives!EnabledFrom, Archives!SharesFrom, Archives!Fits
  <2> QED BY <1>3, <1>4, <2>1, <2>2, ReadsBack
<1>6. archive' = given /\ Honest(given)' /\ in'.file = given
  BY <1>2, <1>3, <1>4, ReadSame
<1>7. Honest(archive)' /\ Honest(in.file)'
  BY <1>6
<1>8. Progress'
  <2>1. 1 \in 1..Len(given.said) + 1
    BY <1>3
  <2> QED BY <1>3, <1>4, <1>7, <2>1 DEF Progress
<1> QED BY <1>1, <1>3, <1>4, <1>5, <1>7, <1>8 DEF ArchivesInv

\* ... and its transcript.
LEMMA ArchivesWritten ==
  ASSUME ArchivesInv, Archives!ClearTranscript \/ Archives!SaveMessage \/ Archives!EndImport \/ Archives!Crash
  PROVE  ArchivesInv'
<1>1. /\ meant \in ReadSessions /\ Archives!FromPayload(saved) = meant /\ spoken \in Seq(Nat) /\ edits \in Nat
      /\ in = Archives!Idle \/ Progress
  BY DEF ArchivesInv
<1>2. UNCHANGED <<saved, meant, archive, edits>> /\ (out' = None \/ out' = out)
  BY DEF Archives!ClearTranscript, Archives!SaveMessage, Archives!EndImport, Archives!Crash
<1>3. PICK now, given : now = saved /\ now = saved' /\ given = archive /\ given = archive'
  BY <1>2
<1>4. Archives!FromPayload(saved)' = Archives!FromPayload(saved) /\ (Honest(archive)' <=> Honest(archive))
  BY <1>3, ReadSame
<1>5. spoken' \in Seq(Nat) /\ (in' = Archives!Idle \/ Progress')
  <2>1. CASE Archives!ClearTranscript
    <3>1. Progress /\ in.step = "clear" /\ spoken' = <<>> /\ in' = [in EXCEPT !.step = "say"]
      BY <1>1, <2>1 DEF Archives!ClearTranscript, Archives!Idle
    <3>2. PICK being : being = in.file /\ being = in'.file
      BY <3>1 DEF Progress
    <3>3. Honest(in.file)' /\ being.said \in Seq(Nat) /\ being.payload.valid
      BY <3>1, <3>2, ReadSame DEF Progress, Honest
    <3>4. SubSeq(being.said, 1, 0) = <<>>
      BY <3>3
    <3> QED BY <1>2, <3>1, <3>2, <3>3, <3>4 DEF Progress
  <2>2. CASE Archives!SaveMessage
    <3>1. Progress /\ in.step = "say"
      BY <1>1, <2>2 DEF Archives!SaveMessage, Archives!Idle
    <3>2. PICK being, n : being = in.file /\ n = in.next
      OBVIOUS
    <3>3. being.said \in Seq(Nat) /\ n \in 1..Len(being.said) + 1 /\ being.payload.valid
      BY <3>1, <3>2 DEF Progress, Honest
    <3>4. n \in 1..Len(being.said)
      BY <2>2, <3>1, <3>2, <3>3 DEF Archives!SaveMessage, Archives!Written
    <3>5. /\ spoken' = Append(spoken, being.said[n])
          /\ in' = [step |-> "say", file |-> being, next |-> n + 1, raced |-> in.raced]
      BY <2>2, <3>1, <3>2 DEF Archives!SaveMessage, Progress
    <3>6. Honest(in.file)'
      <4>1. being = in'.file
        BY <3>5
      <4> QED BY <3>1, <3>2, <4>1, ReadSame DEF Progress
    <3>7. SubSeq(being.said, 1, n) = Append(SubSeq(being.said, 1, n - 1), being.said[n])
      BY <3>3, <3>4
    <3>8. spoken' \in Seq(Nat)
      BY <1>1, <3>3, <3>4, <3>5
    <3>9. n + 1 \in 1..Len(being.said) + 1 /\ (n + 1) - 1 = n
      BY <3>3, <3>4
    <3> QED BY <1>2, <3>1, <3>2, <3>3, <3>5, <3>6, <3>7, <3>8, <3>9 DEF Progress
  <2>3. CASE Archives!EndImport \/ Archives!Crash
    BY <1>1, <2>3 DEF Archives!EndImport, Archives!Crash
  <2> QED BY <2>1, <2>2, <2>3
<1> QED BY <1>1, <1>2, <1>4, <1>5 DEF ArchivesInv

LEMMA ArchivesNext == (part = "archives" => ArchivesInv) /\ [Next]_vars => (part = "archives" => ArchivesInv)'
<1> SUFFICES ASSUME part = "archives" => ArchivesInv, [Next]_vars, part' = "archives" PROVE ArchivesInv'
  OBVIOUS
<1>1. part = "archives" /\ (Archives!Next \/ UNCHANGED ArchivesVars)
  BY DEF Next, vars
<1>2. CASE Archives!Next
  BY <1>1, <1>2, ArchivesChanged, ArchivesOut, ArchivesIn, ArchivesWritten DEF Archives!Next
<1>3. CASE UNCHANGED ArchivesVars
  <2>1. UNCHANGED <<saved, meant, spoken, archive, out, in, edits>>
    BY <1>3 DEF ArchivesVars
  <2>2. PICK now, had, given : now = saved /\ now = saved' /\ had = archive /\ had = archive' /\ given = in.file /\ given = in'.file
    BY <2>1
  <2>3. Archives!FromPayload(saved)' = Archives!FromPayload(saved)
    BY <2>2, ReadSame
  <2>4. (Honest(archive)' <=> Honest(archive)) /\ (Honest(in.file)' <=> Honest(in.file))
    BY <2>2, ReadSame
  <2> QED BY <1>1, <2>1, <2>3, <2>4 DEF ArchivesInv, Progress
<1> QED BY <1>1, <1>2, <1>3

\* A session reads back as it was last set, and an import that ends well, with nothing
\* changed under it, restores settings, stamp and transcript of what the archive was made
\* from, however earlier ones were cut off (import_session, scenario_serialization.py).
THEOREM ImportsRestore == Spec => []ImportRestores
<1>1. Init => (part = "archives" => ArchivesInv)
  BY ArchivesInit DEF Init
<1>2. (part = "archives" => ArchivesInv) => ImportRestores
  <2> SUFFICES ASSUME ArchivesInv PROVE Archives!ImportRestores
    BY DEF ImportRestores
  <2>1. ASSUME Archives!Written, ~in.raced PROVE meant = in.file.of /\ spoken = in.file.said
    <3>1. Progress /\ in.step = "say"
      BY <2>1 DEF ArchivesInv, Archives!Written, Archives!Idle
    <3>2. PICK being, n : being = in.file /\ n = in.next
      OBVIOUS
    <3>3. being.said \in Seq(Nat) /\ n \in 1..Len(being.said) + 1 /\ n > Len(being.said)
      BY <2>1, <3>1, <3>2 DEF Progress, Honest, Archives!Written
    <3>4. meant = being.of /\ spoken = SubSeq(being.said, 1, n - 1)
      BY <2>1, <3>1, <3>2 DEF Progress
    <3>5. n - 1 = Len(being.said)
      BY <3>3
    <3>6. SubSeq(being.said, 1, Len(being.said)) = being.said
      BY <3>3
    <3> QED BY <3>2, <3>4, <3>5, <3>6
  <2> QED BY <2>1 DEF ArchivesInv, Archives!ImportRestores
<1> QED BY <1>1, <1>2, ArchivesNext, PTL DEF Spec
-----------------------------------------------------------------------------
(* NoThoughtDelivered of Prompt.                                           *)

\* A thought that is handed over as prose has a marker after it there.
LEMMA Delimited ==
  ASSUME NEW s \in Prompting!Streams
  PROVE  LET prose == Prompting!ProseOf(s) IN
         /\ prose \in Seq({"prose", "thought", "end", "drifted"})
         /\ \A p \in DOMAIN prose : prose[p] = "thought" =>
              \E q \in p + 1..Len(prose) : prose[q] \in {"end", "drifted"}
<1> DEFINE Prose == {"prose", "thought", "end", "drifted"}
<1>0. PICK n \in Nat : s \in [1..n -> Prompting!Fragments]
  BY DEF Prompting!Streams
<1>1. /\ Len(s) = n
      /\ \A i \in 1..n : s[i][1] = "none" => s[i][2] \in Prose
      /\ \A i \in 1..n : s[i][2] \in {"end", "drifted"} => s[i][1] = "none"
      /\ \A i \in 1..n : s[i][1] = "none" /\ s[i][2] = "thought" =>
           \E j \in i..n : s[j][2] \in {"end", "drifted"}
  <2>1. Len(s) = n /\ DOMAIN s = 1..n
    BY <1>0
  <2>2. \A i \in 1..n : s[i] \in Prompting!Fragments
    BY <1>0
  <2>3. \A i \in 1..n : s[i][1] = "none" /\ s[i][2] = "thought" => s[i] = <<"none", "thought">>
    BY <2>2 DEF Prompting!Fragments
  <2>4. \A i \in 1..n : s[i][1] = "none" /\ s[i][2] = "thought" =>
           \E j \in i..n : s[j][2] \in {"end", "drifted"}
    BY <2>1, <2>3 DEF Prompting!Streams
  <2>5. \A i \in 1..n : (s[i][1] = "none" => s[i][2] \in Prose) /\ (s[i][2] \in {"end", "drifted"} => s[i][1] = "none")
    BY <2>2 DEF Prompting!Fragments
  <2> QED BY <2>1, <2>4, <2>5
<1> DEFINE next == [i \in 1..n |-> [x \in Seq(Prose) |-> IF s[i][1] = "none" THEN Append(x, s[i][2]) ELSE x]]
<1>2. next \in [1..n -> [Seq(Prose) -> Seq(Prose)]]
  BY <1>1
<1>3. PICK g \in [0..n -> Seq(Prose)] : g[0] = <<>> /\ \A i \in 1..n : g[i] = next[i][g[i - 1]]
  <2> HIDE DEF next, Prose
  <2>1. PICK S, none, h : S = Seq(Prose) /\ none = <<>> /\ h = next
    OBVIOUS
  <2>2. none \in S
    BY <2>1
  <2>3. h \in [1..n -> [S -> S]]
    BY <1>2, <2>1
  <2>4. n \in Nat
    OBVIOUS
  <2>5. \E g \in [0..n -> S] : g[0] = none /\ \A i \in 1..n : g[i] = h[i][g[i - 1]]
    BY ONLY <2>2, <2>3, <2>4, Recursion
  <2> QED BY <2>1, <2>5
<1>4. \A i \in 1..n : g[i] = IF s[i][1] = "none" THEN Append(g[i - 1], s[i][2]) ELSE g[i - 1]
  <2> TAKE i \in 1..n
  <2>1. i - 1 \in 0..n
    OBVIOUS
  <2>2. g[i - 1] \in Seq(Prose)
    BY <2>1
  <2> QED BY <1>3, <2>2
<1> HIDE DEF next
<1> DEFINE upTo == CHOOSE upTo : upTo = [i \in 0..n |-> IF i = 0 THEN <<>>
                                         ELSE IF s[i][1] = "none" THEN Append(upTo[i - 1], s[i][2])
                                         ELSE upTo[i - 1]]
<1>5. g = [i \in 0..n |-> IF i = 0 THEN <<>> ELSE IF s[i][1] = "none" THEN Append(g[i - 1], s[i][2]) ELSE g[i - 1]]
  <2>1. ASSUME NEW i \in 0..n
        PROVE  g[i] = IF i = 0 THEN <<>> ELSE IF s[i][1] = "none" THEN Append(g[i - 1], s[i][2]) ELSE g[i - 1]
    <3>1. CASE i = 0
      BY <1>3, <3>1
    <3>2. CASE i # 0
      <4>1. i \in 1..n
        BY <3>2
      <4> QED BY <1>4, <3>2, <4>1
    <3> QED BY <3>1, <3>2
  <2> QED BY <1>3, <2>1
<1>6. upTo = [i \in 0..n |-> IF i = 0 THEN <<>>
                             ELSE IF s[i][1] = "none" THEN Append(upTo[i - 1], s[i][2]) ELSE upTo[i - 1]]
  BY <1>5
<1>7. Prompting!ProseOf(s) = upTo[n]
  BY <1>1 DEF Prompting!ProseOf
<1> HIDE DEF upTo
<1>8. /\ upTo[0] = <<>>
      /\ \A i \in 1..n : upTo[i] = IF s[i][1] = "none" THEN Append(upTo[i - 1], s[i][2]) ELSE upTo[i - 1]
  <2>1. 0 \in 0..n /\ \A i \in 1..n : i \in 0..n /\ i # 0
    OBVIOUS
  <2>2. upTo[0] = <<>>
    BY ONLY <1>6, <2>1
  <2> QED BY <1>6, <2>1, <2>2
<1> DEFINE Marked(i) == /\ upTo[i] \in Seq(Prose)
                        /\ \A p \in DOMAIN upTo[i] : upTo[i][p] = "thought" =>
                             \/ \E q \in p + 1..Len(upTo[i]) : upTo[i][q] \in {"end", "drifted"}
                             \/ \E j \in i + 1..n : s[j][2] \in {"end", "drifted"}
           P == {m \in Nat : m <= n => Marked(m)}
<1>9. 0 \in P
  <2>1. <<>> \in Seq(Prose)
    BY EmptySeq
  <2>2. Marked(0)
    BY <1>8, <2>1
  <2> QED BY <2>2
<1>10. ASSUME NEW m \in Nat, m \in P PROVE m + 1 \in P
  <2> HIDE DEF Marked
  <2> SUFFICES ASSUME m + 1 <= n PROVE Marked(m + 1)
    OBVIOUS
  <2> USE DEF Marked
  <2>1. m + 1 \in 1..n /\ (m + 1) - 1 = m /\ Marked(m)
    BY <1>10
  <2>2. PICK old, new : old = upTo[m] /\ new = upTo[m + 1]
    OBVIOUS
  <2>3. old \in Seq(Prose)
    BY <2>1, <2>2
  <2>4. CASE s[m + 1][1] # "none"
    <3>1. new = old
      BY <1>8, <2>1, <2>2, <2>4
    <3>2. s[m + 1][2] \notin {"end", "drifted"}
      BY <1>1, <2>1, <2>4
    <3>3. ASSUME NEW j \in m + 1..n, s[j][2] \in {"end", "drifted"} PROVE j \in (m + 1) + 1..n
      BY <3>2, <3>3
    <3> QED BY <2>1, <2>2, <3>1, <3>3
  <2>5. CASE s[m + 1][1] = "none"
    <3>1. new = Append(old, s[m + 1][2]) /\ s[m + 1][2] \in Prose
      BY <1>1, <1>8, <2>1, <2>2, <2>5
    <3>2. /\ new \in Seq(Prose) /\ Len(new) = Len(old) + 1 /\ Len(old) \in Nat /\ DOMAIN new = 1..Len(old) + 1
          /\ new[Len(old) + 1] = s[m + 1][2] /\ \A p \in 1..Len(old) : new[p] = old[p]
      BY <2>3, <3>1
    <3>3. ASSUME NEW p \in DOMAIN new, new[p] = "thought"
          PROVE  \/ \E q \in p + 1..Len(new) : new[q] \in {"end", "drifted"}
                 \/ \E j \in (m + 1) + 1..n : s[j][2] \in {"end", "drifted"}
      <4>1. CASE p = Len(old) + 1
        <5>1. s[m + 1][2] = "thought"
          BY <3>2, <3>3, <4>1
        <5>2. PICK j \in m + 1..n : s[j][2] \in {"end", "drifted"}
          BY <1>1, <2>1, <2>5, <5>1
        <5>3. j # m + 1
          BY <5>1, <5>2
        <5> QED BY <5>2, <5>3
      <4>2. CASE p # Len(old) + 1
        <5>1. p \in 1..Len(old) /\ old[p] = "thought"
          BY <3>2, <3>3, <4>2
        <5>2. p \in DOMAIN upTo[m]
          BY <2>2, <2>3, <5>1
        <5>3. \/ \E q \in p + 1..Len(old) : old[q] \in {"end", "drifted"}
              \/ \E j \in m + 1..n : s[j][2] \in {"end", "drifted"}
          BY <2>1, <2>2, <5>1, <5>2
        <5>4. CASE \E q \in p + 1..Len(old) : old[q] \in {"end", "drifted"}
          <6>1. PICK q \in p + 1..Len(old) : old[q] \in {"end", "drifted"}
            BY <5>4
          <6>2. q \in p + 1..Len(new) /\ new[q] = old[q]
            BY <3>2, <5>1, <6>1
          <6> QED BY <6>1, <6>2
        <5>5. CASE \E j \in m + 1..n : s[j][2] \in {"end", "drifted"}
          <6>1. PICK j \in m + 1..n : s[j][2] \in {"end", "drifted"}
            BY <5>5
          <6>2. CASE j = m + 1
            <7>1. Len(old) + 1 \in p + 1..Len(new) /\ new[Len(old) + 1] \in {"end", "drifted"}
              BY <3>2, <5>1, <6>1, <6>2
            <7> QED BY <7>1
          <6>3. CASE j # m + 1
            BY <6>1, <6>3
          <6> QED BY <6>2, <6>3
        <5> QED BY <5>3, <5>4, <5>5
      <4> QED BY <4>1, <4>2
    <3> QED BY <2>2, <3>2, <3>3
  <2> QED BY <2>4, <2>5
<1>11. Nat \subseteq P
  <2> HIDE DEF P
  <2> QED BY <1>9, <1>10, Climb
<1>12. Marked(n)
  BY <1>11
<1>13. ~\E j \in n + 1..n : s[j][2] \in {"end", "drifted"}
  OBVIOUS
<1> QED BY <1>7, <1>12, <1>13

\* What is left after the last marker holds no thought unless it holds a marker.
LEMMA LastMarker ==
  ASSUME NEW t \in Seq({"prose", "thought", "end", "drifted"}),
         \A p \in DOMAIN t : t[p] = "thought" => \E q \in p + 1..Len(t) : t[q] \in {"end", "drifted"},
         Prompting!Separated(Prompting!AfterLast(t))
  PROVE  \A i \in DOMAIN Prompting!AfterLast(t) : Prompting!AfterLast(t)[i] = "prose"
<1> DEFINE ends == {0} \cup {j \in DOMAIN t : t[j] = "end"}
<1>1. Len(t) \in Nat /\ DOMAIN t = 1..Len(t)
  OBVIOUS
<1>2. PICK i \in ends : /\ \A j \in i + 1..Len(t) : t[j] # "end"
                        /\ Prompting!AfterLast(t) = SubSeq(t, i + 1, Len(t))
  <2>1. \E i \in ends : \A j \in i + 1..Len(t) : t[j] # "end"
    <3>1. PICK i \in ends : \A j \in ends : j <= i
      <4>1. ends \in SUBSET (0..Len(t)) /\ ends # {}
        BY <1>1
      <4> HIDE DEF ends
      <4> QED BY <1>1, <4>1, NatMax
    <3>2. i \in Nat
      BY <1>1, <3>1
    <3> QED BY <1>1, <3>1, <3>2
  <2> QED BY <2>1 DEF Prompting!AfterLast
<1>3. i \in 0..Len(t)
  BY <1>1
<1>4. PICK rest : rest = SubSeq(t, i + 1, Len(t))
  OBVIOUS
<1>5. Len(rest) = Len(t) - i /\ DOMAIN rest = 1..Len(t) - i /\ \A p \in 1..Len(t) - i : rest[p] = t[i + p]
  <2>0. PICK S : S = {"prose", "thought", "end", "drifted"}
    OBVIOUS
  <2>1. t \in Seq(S)
    BY <2>0
  <2>2. i + 1 \in 1..Len(t) + 1 /\ Len(t) \in Nat
    BY <1>1, <1>3
  <2>3. rest = [p \in 1..Len(t) - i |-> t[i + p]]
    BY ONLY <1>3, <1>4, <2>1, <2>2
  <2> QED BY <1>1, <1>3, <2>3
<1>6. \A p \in 1..Len(t) - i : t[i + p] # "drifted"
  BY <1>2, <1>4, <1>5 DEF Prompting!Separated, Prompting!Contains
<1>7. ASSUME NEW p \in 1..Len(t) - i PROVE t[i + p] = "prose"
  <2>1. i + p \in i + 1..Len(t) /\ i + p \in DOMAIN t
    BY <1>1, <1>3
  <2>2. t[i + p] \notin {"end", "drifted"}
    BY <1>2, <1>6, <2>1
  <2>3. t[i + p] # "thought"
    <3> SUFFICES ASSUME t[i + p] = "thought" PROVE FALSE
      OBVIOUS
    <3>1. PICK q \in (i + p) + 1..Len(t) : t[q] \in {"end", "drifted"}
      BY <2>1
    <3>2. q \in i + 1..Len(t) /\ q - i \in 1..Len(t) - i /\ i + (q - i) = q
      BY <1>1, <1>3, <3>1
    <3> QED BY <1>2, <1>6, <3>1, <3>2
  <2>4. t[i + p] \in {"prose", "thought", "end", "drifted"}
    BY <2>1
  <2> QED BY <2>2, <2>3, <2>4
<1> QED BY <1>2, <1>4, <1>5, <1>7

\* A player never reads the model's reasoning or a marker of it, however long the stream
\* of fragments is and wherever its markers are (LMStudioProvider._separate_reasoning).
THEOREM NoThoughtSaid == Spec => []NoThoughtDelivered
<1>1. Init => NoThoughtDelivered
  BY DEF Init, Prompting!Init, Prompting!NoReply, NoThoughtDelivered, Prompting!NoThoughtDelivered
<1>2. NoThoughtDelivered /\ [Next]_vars => NoThoughtDelivered'
  <2> SUFFICES ASSUME NoThoughtDelivered, [Next]_vars PROVE NoThoughtDelivered'
    OBVIOUS
  <2>1. CASE UNCHANGED reply
    BY <2>1 DEF NoThoughtDelivered, Prompting!NoThoughtDelivered
  <2>2. CASE reply' = <<>>
    BY <2>2 DEF NoThoughtDelivered, Prompting!NoThoughtDelivered
  <2>3. CASE \E s \in Prompting!Streams : Prompting!Respond(s)
    <3>1. PICK s \in Prompting!Streams : Prompting!Respond(s)
      BY <2>3
    <3>2. PICK t : t = Prompting!ProseOf(s)
      OBVIOUS
    <3>3. /\ t \in Seq({"prose", "thought", "end", "drifted"})
          /\ \A p \in DOMAIN t : t[p] = "thought" => \E q \in p + 1..Len(t) : t[q] \in {"end", "drifted"}
      BY <3>2, Delimited
    <3>4. PICK rest : rest = Prompting!AfterLast(t)
      OBVIOUS
    <3>5. reply' = (IF Prompting!Separated(rest) THEN rest ELSE <<>>)
      BY <3>1, <3>2, <3>4 DEF Prompting!Respond, Prompting!NoReply
    <3>6. Prompting!Separated(rest) => \A i \in DOMAIN rest : rest[i] = "prose"
      BY <3>3, <3>4, LastMarker
    <3> QED BY <2>2, <3>5, <3>6 DEF NoThoughtDelivered, Prompting!NoThoughtDelivered
  <2> QED BY <2>1, <2>2, <2>3 DEF Next, vars, PromptingVars, Prompting!Next, Prompting!Build, Prompting!Map,
         Prompting!FailToRespond, Prompting!NoReply
<1> QED BY <1>1, <1>2, PTL DEF Spec
-----------------------------------------------------------------------------
(* ChatWellFormed of Prompt.                                               *)

ChatTurnsOf == [role : {"user", "character"}, text : Seq(Nat), cut : BOOLEAN]

\* Message k of a history h and of what asks for the reply to it.
Given(h, k) ==
  [role |-> IF k \in 1..Len(h) THEN Prompting!Role(h[k]) ELSE "user", text |-> <<k>>,
   cut |-> k \in 1..Len(h) /\ h[k] = "cut"]

\* The turns that the first k messages make.
NumbersHeld(turns, k) ==
  \A t \in 1..Len(turns) : /\ Len(turns[t].text) >= 1
                           /\ \A p \in 1..Len(turns[t].text) : turns[t].text[p] \in 0..k
AllSaid(turns, k) ==
  \A m \in 1..k : \E t \in 1..Len(turns) : \E p \in 1..Len(turns[t].text) : turns[t].text[p] = m
SaidInOrder(turns) ==
  \A t, u \in 1..Len(turns) : \A p \in 1..Len(turns[t].text), q \in 1..Len(turns[u].text) :
    /\ turns[t].text[p] # 0 /\ turns[u].text[q] # 0
    /\ t < u \/ (t = u /\ p < q)
    => turns[t].text[p] < turns[u].text[q]
NarratorsApart(turns) ==
  \A i \in 1..Len(turns) - 1 : ~(turns[i].role = "character" /\ turns[i + 1].role = "character")
BreaksRight(turns, h) ==
  \A t \in 1..Len(turns) : \A p \in 2..Len(turns[t].text) :
    turns[t].text[p - 1] # 0 => (turns[t].text[p] = 0 <=> h[turns[t].text[p - 1]] # "cut")
EndsWith(turns, h, k) ==
  IF k = 0 THEN turns = <<>>
  ELSE /\ Len(turns) >= 1
       /\ turns[Len(turns)].role = Given(h, k).role /\ turns[Len(turns)].cut = Given(h, k).cut
       /\ turns[Len(turns)].text[Len(turns[Len(turns)].text)] = k

Makes(turns, h, k) ==
  /\ h \in Seq(Prompting!Kinds) /\ turns \in Seq(ChatTurnsOf)
  /\ NumbersHeld(turns, k) /\ AllSaid(turns, k) /\ SaidInOrder(turns) /\ NarratorsApart(turns)
  /\ BreaksRight(turns, h) /\ EndsWith(turns, h, k)

LEMMA GivenTyped ==
  ASSUME NEW h \in Seq(Prompting!Kinds), NEW k \in Nat
  PROVE  Given(h, k) \in ChatTurnsOf
<1>1. k \in 1..Len(h) => h[k] \in Prompting!Kinds
  OBVIOUS
<1>2. Given(h, k).role \in {"user", "character"}
  BY <1>1 DEF Given, Prompting!Role, Prompting!Kinds
<1>3. <<k>> \in Seq(Nat)
  OBVIOUS
<1> QED BY <1>2, <1>3 DEF Given, ChatTurnsOf

\* A message that opens a turn of its own.
LEMMA OwnTurn ==
  ASSUME NEW h, NEW k \in Nat, NEW turns, Makes(turns, h, k),
         turns = <<>> \/ Given(h, k + 1).role # "character" \/ turns[Len(turns)].role # "character"
  PROVE  Makes(Append(turns, Given(h, k + 1)), h, k + 1)
<1>0. PICK n, m, new : n = Len(turns) /\ m = Given(h, k + 1) /\ new = Append(turns, m)
  OBVIOUS
<1>1. turns \in Seq(ChatTurnsOf) /\ m \in ChatTurnsOf /\ n \in Nat /\ h \in Seq(Prompting!Kinds)
  BY <1>0, GivenTyped DEF Makes
<1>2. /\ new \in Seq(ChatTurnsOf) /\ Len(new) = n + 1 /\ new[n + 1] = m
      /\ \A t \in 1..n : new[t] = turns[t]
  BY <1>0, <1>1
<1>3. m.text = <<k + 1>> /\ Len(m.text) = 1 /\ m.text[1] = k + 1 /\ m.role = Given(h, k + 1).role
      /\ m.cut = Given(h, k + 1).cut
  BY <1>0 DEF Given
<1>4. \A t \in 1..n : turns[t].text \in Seq(Nat) /\ Len(turns[t].text) \in Nat
  <2> SUFFICES ASSUME NEW t \in 1..n PROVE turns[t].text \in Seq(Nat) /\ Len(turns[t].text) \in Nat
    OBVIOUS
  <2>1. turns[t] \in ChatTurnsOf
    BY <1>0, <1>1
  <2> QED BY <2>1 DEF ChatTurnsOf
<1>5. /\ NumbersHeld(turns, k) /\ AllSaid(turns, k) /\ SaidInOrder(turns) /\ NarratorsApart(turns)
      /\ BreaksRight(turns, h)
  BY DEF Makes
<1>6. NumbersHeld(new, k + 1)
  <2> SUFFICES ASSUME NEW t \in 1..n + 1
               PROVE  Len(new[t].text) >= 1 /\ \A p \in 1..Len(new[t].text) : new[t].text[p] \in 0..k + 1
    BY <1>2 DEF NumbersHeld
  <2>1. CASE t = n + 1
    <3>1. new[t].text = <<k + 1>>
      BY <1>2, <1>3, <2>1
    <3>2. Len(<<k + 1>>) = 1 /\ <<k + 1>>[1] = k + 1 /\ k + 1 \in 0..k + 1 /\ \A p \in 1..1 : p = 1
      OBVIOUS
    <3> QED BY <3>1, <3>2
  <2>2. CASE t # n + 1
    <3>1. t \in 1..n
      BY <1>1, <2>2
    <3> QED BY <1>0, <1>2, <1>5, <3>1 DEF NumbersHeld
  <2> QED BY <2>1, <2>2
<1>7. AllSaid(new, k + 1)
  <2> SUFFICES ASSUME NEW x \in 1..k + 1
               PROVE  \E t \in 1..n + 1 : \E p \in 1..Len(new[t].text) : new[t].text[p] = x
    BY <1>2 DEF AllSaid
  <2>1. CASE x = k + 1
    <3>1. n + 1 \in 1..n + 1 /\ 1 \in 1..Len(new[n + 1].text) /\ new[n + 1].text[1] = x
      BY <1>1, <1>2, <1>3, <2>1
    <3> QED BY <3>1
  <2>2. CASE x # k + 1
    <3>0. x \in 1..k
      BY <2>2
    <3>1. PICK t \in 1..n : \E p \in 1..Len(turns[t].text) : turns[t].text[p] = x
      BY <1>0, <1>5, <3>0 DEF AllSaid
    <3>2. t \in 1..n + 1 /\ new[t] = turns[t]
      BY <1>1, <1>2
    <3> QED BY <3>1, <3>2
  <2> QED BY <2>1, <2>2
<1>8. SaidInOrder(new)
  <2> SUFFICES ASSUME NEW t \in 1..n + 1, NEW u \in 1..n + 1,
                      NEW p \in 1..Len(new[t].text), NEW q \in 1..Len(new[u].text),
                      new[t].text[p] # 0, new[u].text[q] # 0, t < u \/ (t = u /\ p < q)
               PROVE  new[t].text[p] < new[u].text[q]
    BY <1>2 DEF SaidInOrder
  <2>1. CASE u = n + 1
    <3>1. new[u] = m /\ q = 1
      BY <1>2, <1>3, <2>1
    <3>2. t # n + 1
      BY <1>1, <2>1, <3>1, <1>3
    <3>3. t \in 1..n /\ new[t] = turns[t]
      BY <1>1, <1>2, <3>2
    <3>4. new[t].text[p] \in 0..k
      BY <1>0, <1>5, <3>3 DEF NumbersHeld
    <3> QED BY <1>3, <3>1, <3>4
  <2>2. CASE u # n + 1
    <3>1. t \in 1..n /\ u \in 1..n /\ new[t] = turns[t] /\ new[u] = turns[u]
      BY <1>1, <1>2, <2>2
    <3> QED BY <1>0, <1>5, <3>1 DEF SaidInOrder
  <2> QED BY <2>1, <2>2
<1>9. NarratorsApart(new)
  <2> SUFFICES ASSUME NEW i \in 1..n PROVE ~(new[i].role = "character" /\ new[i + 1].role = "character")
    BY <1>1, <1>2 DEF NarratorsApart
  <2>1. CASE i = n
    <3>1. new[i] = turns[n] /\ new[i + 1] = m /\ turns # <<>>
      BY <1>0, <1>1, <1>2, <2>1
    <3> QED BY <1>0, <1>3, <3>1
  <2>2. CASE i # n
    <3>1. i \in 1..n - 1 /\ i + 1 \in 1..n /\ new[i] = turns[i] /\ new[i + 1] = turns[i + 1]
      BY <1>1, <1>2, <2>2
    <3> QED BY <1>0, <1>5, <3>1 DEF NarratorsApart
  <2> QED BY <2>1, <2>2
<1>10. BreaksRight(new, h)
  <2> SUFFICES ASSUME NEW t \in 1..n + 1, NEW p \in 2..Len(new[t].text), new[t].text[p - 1] # 0
               PROVE  new[t].text[p] = 0 <=> h[new[t].text[p - 1]] # "cut"
    BY <1>2 DEF BreaksRight
  <2>1. t # n + 1
    <3> SUFFICES ASSUME t = n + 1 PROVE FALSE
      OBVIOUS
    <3>1. Len(new[t].text) = 1
      BY <1>2, <1>3
    <3> QED BY <3>1
  <2>2. t \in 1..n /\ new[t] = turns[t]
    BY <1>1, <1>2, <2>1
  <2> QED BY <1>0, <1>5, <2>2 DEF BreaksRight
<1>11. EndsWith(new, h, k + 1)
  BY <1>1, <1>2, <1>3 DEF EndsWith
<1> QED BY <1>0, <1>1, <1>2, <1>6, <1>7, <1>8, <1>9, <1>10, <1>11 DEF Makes

\* A narrator's message that is joined to the narrator's last.
LEMMA JoinedTurn ==
  ASSUME NEW h, NEW k \in Nat, NEW turns, Makes(turns, h, k), turns # <<>>,
         Given(h, k + 1).role = "character", turns[Len(turns)].role = "character"
  PROVE  Makes(Append(SubSeq(turns, 1, Len(turns) - 1), Prompting!Joined(turns[Len(turns)], Given(h, k + 1))),
               h, k + 1)
<1>0. PICK n, previous, m, new :
        /\ n = Len(turns) /\ previous = turns[n] /\ m = Given(h, k + 1)
        /\ new = Append(SubSeq(turns, 1, n - 1), Prompting!Joined(previous, m))
  OBVIOUS
<1>1. h \in Seq(Prompting!Kinds) /\ turns \in Seq(ChatTurnsOf) /\ m \in ChatTurnsOf /\ n \in Nat \ {0} /\ n \in 1..n
  BY <1>0, GivenTyped DEF Makes
<1>2. previous \in ChatTurnsOf
  BY <1>0, <1>1
<1>3. m.text = <<k + 1>> /\ m.role = "character" /\ m.cut = Given(h, k + 1).cut /\ m.cut \in BOOLEAN
      /\ m = [role |-> "character", text |-> <<k + 1>>, cut |-> m.cut]
  BY <1>0 DEF Given
<1>4. PICK lp \in Nat : lp = Len(previous.text) /\ previous.text \in Seq(Nat)
  BY <1>2 DEF ChatTurnsOf
<1>5. PICK j, gap : /\ j = Prompting!Joined(previous, m)
                    /\ gap = (IF previous.cut THEN <<>> ELSE <<0>>)
  OBVIOUS
<1>6. /\ j = [role |-> "character", text |-> previous.text \o gap \o <<k + 1>>, cut |-> m.cut]
  BY <1>3, <1>5 DEF Prompting!Joined, Prompting!Break
<1>7. /\ gap \in Seq(Nat) /\ Len(gap) = (IF previous.cut THEN 0 ELSE 1)
      /\ ~previous.cut => gap[1] = 0
  BY <1>5
<1>8. PICK lj \in Nat : /\ lj = Len(j.text) /\ lj = lp + Len(gap) + 1 /\ j.text \in Seq(Nat)
                        /\ \A p \in 1..lp : j.text[p] = previous.text[p]
                        /\ ~previous.cut => j.text[lp + 1] = 0
                        /\ j.text[lj] = k + 1
  <2>1. <<k + 1>> \in Seq(Nat) /\ Len(<<k + 1>>) = 1 /\ <<k + 1>>[1] = k + 1
    OBVIOUS
  <2>2. PICK said, one : said = previous.text /\ one = <<k + 1>>
    OBVIOUS
  <2>3. said \in Seq(Nat) /\ one \in Seq(Nat) /\ Len(said) = lp /\ Len(one) = 1 /\ one[1] = k + 1
    BY <1>4, <2>1, <2>2
  <2>4. PICK front : front = said \o gap
    OBVIOUS
  <2>5. /\ front \in Seq(Nat) /\ Len(front) = lp + Len(gap)
        /\ \A p \in 1..lp : front[p] = said[p]
        /\ ~previous.cut => front[lp + 1] = 0
    <3>1. said \in Seq(Nat) /\ gap \in Seq(Nat)
      BY <1>7, <2>3
    <3>2. /\ said \o gap \in Seq(Nat) /\ Len(said \o gap) = Len(said) + Len(gap)
          /\ \A i \in 1..Len(said) + Len(gap) :
               (said \o gap)[i] = IF i <= Len(said) THEN said[i] ELSE gap[i - Len(said)]
      BY <3>1, ConcatProperties
    <3>3. Len(gap) \in Nat /\ (~previous.cut => Len(gap) = 1 /\ gap[1] = 0)
      BY <1>7
    <3>4. \A p \in 1..lp : p \in 1..lp + Len(gap) /\ p <= lp
      BY <3>3
    <3>5. lp + 1 \in 1..lp + 1 /\ ~(lp + 1 <= lp) /\ (lp + 1) - lp = 1
      OBVIOUS
    <3> QED BY <2>3, <2>4, <3>2, <3>3, <3>4, <3>5
  <2>6. /\ front \o one \in Seq(Nat) /\ Len(front \o one) = lp + Len(gap) + 1
        /\ \A p \in 1..lp + Len(gap) : (front \o one)[p] = front[p]
        /\ (front \o one)[lp + Len(gap) + 1] = k + 1
    <3>1. one \in Seq(Nat) /\ front \in Seq(Nat)
      BY <2>3, <2>5
    <3>2. /\ front \o one \in Seq(Nat) /\ Len(front \o one) = Len(front) + Len(one)
          /\ \A i \in 1..Len(front) + Len(one) :
               (front \o one)[i] = IF i <= Len(front) THEN front[i] ELSE one[i - Len(front)]
      BY <3>1, ConcatProperties
    <3>3. PICK a \in Nat : a = Len(front) /\ a = lp + Len(gap)
      BY <1>7, <2>5
    <3>4. \A p \in 1..a : p \in 1..a + 1 /\ p <= a
      OBVIOUS
    <3>5. a + 1 \in 1..a + 1 /\ ~(a + 1 <= a) /\ (a + 1) - a = 1
      OBVIOUS
    <3> QED BY <2>3, <3>2, <3>3, <3>4, <3>5
  <2>7. j.text = front \o one
    BY <1>6, <2>2, <2>4
  <2>8. lp + Len(gap) + 1 \in Nat /\ \A p \in 1..lp : p \in 1..lp + Len(gap)
    BY <1>7
  <2>9. ~previous.cut => lp + 1 \in 1..lp + Len(gap)
    BY <1>7
  <2>10. \A p \in 1..lp : j.text[p] = previous.text[p]
    BY <2>2, <2>5, <2>6, <2>7, <2>8
  <2>11. ~previous.cut => j.text[lp + 1] = 0
    BY <2>5, <2>6, <2>7, <2>9
  <2>12. j.text \in Seq(Nat) /\ Len(j.text) = lp + Len(gap) + 1 /\ j.text[lp + Len(gap) + 1] = k + 1
    BY <2>6, <2>7
  <2>13. PICK lj \in Nat : lj = lp + Len(gap) + 1
    BY <2>8
  <2> QED BY <2>10, <2>11, <2>12, <2>13
<1>9. j \in ChatTurnsOf
  BY <1>3, <1>6, <1>8 DEF ChatTurnsOf
<1>10. /\ new \in Seq(ChatTurnsOf) /\ Len(new) = n /\ new[n] = j
       /\ \A t \in 1..n - 1 : new[t] = turns[t]
  <2>1. new = Append(SubSeq(turns, 1, n - 1), j)
    BY <1>0, <1>5
  <2> QED BY <1>0, <1>1, <1>9, <2>1
<1>22. Len(new[n].text) = lj /\ new[n].text = j.text /\ lj \in 1..lj /\ lj >= lp + 1 /\ lj <= lp + 2
  <2>1. lj >= lp + 1 /\ lj <= lp + 2 /\ lj \in 1..lj
    BY <1>7, <1>8
  <2>2. new[n].text = j.text
    BY <1>10
  <2> QED BY <1>8, <2>1, <2>2
<1>11. /\ NumbersHeld(turns, k) /\ AllSaid(turns, k) /\ SaidInOrder(turns) /\ NarratorsApart(turns)
       /\ BreaksRight(turns, h) /\ EndsWith(turns, h, k)
  BY DEF Makes
<1>12. k # 0 /\ previous.cut = Given(h, k).cut /\ lp >= 1 /\ previous.text[lp] = k
  BY <1>0, <1>1, <1>4, <1>11 DEF EndsWith, NumbersHeld
<1>13. previous.cut <=> h[k] = "cut"
  <2>1. k + 1 \in 1..Len(h)
    BY DEF Given
  <2>2. k \in 1..Len(h)
    BY <1>1, <1>12, <2>1
  <2> QED BY <1>12, <2>2 DEF Given
<1>14. \A p \in 1..lj : p \in 1..lp \/ (j.text[p] = 0 /\ p = lp + 1 /\ ~previous.cut) \/ (j.text[p] = k + 1 /\ p = lj)
  BY <1>7, <1>8
<1>15. \A p \in 1..lp : previous.text[p] \in 0..k
  BY <1>0, <1>1, <1>4, <1>11 DEF NumbersHeld
<1>16. NumbersHeld(new, k + 1)
  <2> SUFFICES ASSUME NEW t \in 1..n
               PROVE  Len(new[t].text) >= 1 /\ \A p \in 1..Len(new[t].text) : new[t].text[p] \in 0..k + 1
    BY <1>10 DEF NumbersHeld
  <2>1. CASE t = n
    <3>1. ASSUME NEW p \in 1..lj PROVE j.text[p] \in 0..k + 1
      BY SMTT(30), <1>8, <1>14, <1>15
    <3> QED BY <1>22, <2>1, <3>1
  <2>2. CASE t # n
    <3>1. t \in 1..n - 1
      BY <1>1, <2>2
    <3> QED BY <1>0, <1>10, <1>11, <3>1 DEF NumbersHeld
  <2> QED BY <2>1, <2>2
<1>17. AllSaid(new, k + 1)
  <2> SUFFICES ASSUME NEW x \in 1..k + 1
               PROVE  \E t \in 1..n : \E p \in 1..Len(new[t].text) : new[t].text[p] = x
    BY <1>10 DEF AllSaid
  <2>1. CASE x = k + 1
    <3>1. lj \in 1..Len(new[n].text) /\ new[n].text[lj] = x
      BY <1>8, <1>22, <2>1
    <3> QED BY <1>1, <3>1
  <2>2. CASE x # k + 1
    <3>0. x \in 1..k
      BY <2>2
    <3>1. PICK t \in 1..n : \E p \in 1..Len(turns[t].text) : turns[t].text[p] = x
      BY <1>0, <1>11, <3>0 DEF AllSaid
    <3>2. CASE t = n
      <4>1. PICK p \in 1..lp : previous.text[p] = x
        BY <1>0, <1>4, <3>1, <3>2
      <4>2. p \in 1..Len(new[n].text) /\ new[n].text[p] = x
        <5>1. p \in 1..lj
          BY <1>22, <4>1
        <5> QED BY <1>8, <1>22, <4>1, <5>1
      <4> QED BY <1>1, <4>2
    <3>3. CASE t # n
      <4>1. t \in 1..n - 1
        BY <1>1, <3>3
      <4> QED BY <1>10, <3>1, <4>1
    <3> QED BY <3>2, <3>3
  <2> QED BY <2>1, <2>2
<1>18. SaidInOrder(new)
  <2> SUFFICES ASSUME NEW t \in 1..n, NEW u \in 1..n,
                      NEW p \in 1..Len(new[t].text), NEW q \in 1..Len(new[u].text),
                      new[t].text[p] # 0, new[u].text[q] # 0, t < u \/ (t = u /\ p < q)
               PROVE  new[t].text[p] < new[u].text[q]
    BY <1>10 DEF SaidInOrder
  <2>1. t \in 1..n - 1 \/ t = n
    BY <1>1
  <2>2. u \in 1..n - 1 \/ u = n
    BY <1>1
  <2>3. CASE u \in 1..n - 1
    <3>1. t \in 1..n - 1
      BY <1>1, <2>3
    <3>2. new[t] = turns[t] /\ new[u] = turns[u]
      BY <1>10, <2>3, <3>1
    <3> QED BY <1>0, <1>11, <3>2 DEF SaidInOrder
  <2>4. CASE u = n /\ q = lj
    <3>1. new[u].text[q] = k + 1
      BY <1>8, <1>10, <2>4
    <3>2. new[t].text[p] \in 0..k
      <4>1. CASE t = n
        <5>1. p \in 1..lp
          BY <1>8, <1>10, <1>14, <2>4, <4>1
        <5> QED BY <1>8, <1>10, <1>15, <4>1, <5>1
      <4>2. CASE t \in 1..n - 1
        <5>1. new[t] = turns[t]
          BY <1>10, <4>2
        <5> QED BY <1>0, <1>11, <5>1 DEF NumbersHeld
      <4> QED BY <2>1, <4>1, <4>2
    <3> QED BY <3>1, <3>2
  <2>5. CASE u = n /\ q # lj
    <3>1. q \in 1..lp /\ new[u].text[q] = previous.text[q]
      BY <1>8, <1>10, <1>14, <2>5
    <3>2. CASE t = n
      <4>1. p \in 1..lp /\ new[t].text[p] = previous.text[p]
        BY SMTT(30), <1>8, <1>10, <1>14, <2>5, <3>1, <3>2
      <4> QED BY <1>0, <1>1, <1>4, <1>11, <2>5, <3>1, <3>2, <4>1 DEF SaidInOrder
    <3>3. CASE t \in 1..n - 1
      <4>1. new[t] = turns[t]
        BY <1>10, <3>3
      <4> QED BY <1>0, <1>1, <1>4, <1>11, <2>5, <3>1, <3>3, <4>1 DEF SaidInOrder
    <3> QED BY <2>1, <3>2, <3>3
  <2> QED BY <2>2, <2>3, <2>4, <2>5
<1>19. NarratorsApart(new)
  <2> SUFFICES ASSUME NEW i \in 1..n - 1 PROVE ~(new[i].role = "character" /\ new[i + 1].role = "character")
    BY <1>10 DEF NarratorsApart
  <2>1. new[i].role = turns[i].role
    BY <1>10
  <2>2. new[i + 1].role = turns[i + 1].role
    <3>1. CASE i + 1 = n
      BY <1>0, <1>6, <1>10, <3>1
    <3>2. CASE i + 1 # n
      <4>1. i + 1 \in 1..n - 1
        BY <1>1, <3>2
      <4> QED BY <1>10, <4>1
    <3> QED BY <3>1, <3>2
  <2> QED BY <1>0, <1>11, <2>1, <2>2 DEF NarratorsApart
<1>20. BreaksRight(new, h)
  <2> SUFFICES ASSUME NEW t \in 1..n, NEW p \in 2..Len(new[t].text), new[t].text[p - 1] # 0
               PROVE  new[t].text[p] = 0 <=> h[new[t].text[p - 1]] # "cut"
    BY <1>10 DEF BreaksRight
  <2>1. CASE t # n
    <3>1. t \in 1..n - 1
      BY <1>1, <2>1
    <3> QED BY <1>0, <1>10, <1>11, <3>1 DEF BreaksRight
  <2>2. CASE t = n
    <3>1. p \in 2..lj /\ p - 1 \in 1..lj /\ new[t] = j
      BY <1>10, <1>22, <2>2
    <3>2. CASE p \in 2..lp
      <4>1. j.text[p] = previous.text[p] /\ j.text[p - 1] = previous.text[p - 1]
        BY <1>8, <3>2
      <4> QED BY <1>0, <1>1, <1>4, <1>11, <3>1, <3>2, <4>1 DEF BreaksRight
    <3>3. CASE p = lp + 1
      <4>1. j.text[p - 1] = k
        BY <1>8, <1>12, <3>3
      <4>2. j.text[p] = 0 <=> ~previous.cut
        BY <1>7, <1>8, <3>3
      <4> QED BY <1>13, <3>1, <4>1, <4>2
    <3>4. CASE p > lp + 1
      <4>1. ~previous.cut /\ p = lp + 2
        BY <1>7, <1>8, <3>1, <3>4
      <4>2. j.text[p - 1] = 0
        BY <1>8, <4>1
      <4> QED BY <3>1, <4>2
    <3> QED BY <3>1, <3>2, <3>3, <3>4
  <2> QED BY <2>1, <2>2
<1>21. EndsWith(new, h, k + 1)
  BY <1>1, <1>3, <1>6, <1>8, <1>10 DEF EndsWith
<1> QED BY <1>0, <1>1, <1>10, <1>16, <1>17, <1>18, <1>19, <1>20, <1>21 DEF Makes

\* The chat is made of the messages one after the other.
LEMMA CollapsedSteps ==
  ASSUME NEW s, NEW n \in Nat, Len(s) = n
  PROVE  \E f : /\ f[0] = <<>>
                /\ \A i \in 1..n : f[i] = Prompting!After(f[i - 1], s[i])
                /\ Prompting!Collapsed(s) = f[n]
<1> DEFINE Solves(f, m) == f = [i \in 0..m |-> IF i = 0 THEN <<>> ELSE Prompting!After(f[i - 1], s[i])]
           P == {m \in Nat : \E f : Solves(f, m)}
<1>1. 0 \in P
  <2>1. Solves([i \in 0..0 |-> <<>>], 0)
    OBVIOUS
  <2> QED BY <2>1
<1>2. ASSUME NEW m \in Nat, m \in P PROVE m + 1 \in P
  <2>1. PICK g : Solves(g, m)
    BY <1>2
  <2>2. PICK f : f = [i \in 0..m + 1 |-> IF i = m + 1 THEN Prompting!After(g[m], s[m + 1]) ELSE g[i]]
    OBVIOUS
  <2>3. ASSUME NEW i \in 0..m + 1
        PROVE  f[i] = IF i = 0 THEN <<>> ELSE Prompting!After(f[i - 1], s[i])
    <3>1. CASE i = m + 1
      <4>1. m \in 0..m + 1 /\ m # m + 1 /\ i - 1 = m /\ i # 0
        BY <3>1
      <4> QED BY <2>2, <3>1, <4>1
    <3>2. CASE i = 0
      <4>1. i # m + 1 /\ i \in 0..m
        BY <3>2
      <4> QED BY <2>1, <2>2, <3>2, <4>1
    <3>3. CASE i \in 1..m
      <4>1. i # m + 1 /\ i \in 0..m /\ i # 0 /\ i - 1 \in 0..m + 1 /\ i - 1 # m + 1
        BY <3>3
      <4>2. f[i] = g[i] /\ f[i - 1] = g[i - 1]
        BY <2>2, <4>1
      <4> QED BY <2>1, <4>1, <4>2
    <3> QED BY <3>1, <3>2, <3>3
  <2>4. Solves(f, m + 1)
    BY <2>2, <2>3
  <2> HIDE DEF Solves
  <2> QED BY <2>4
<1>3. \E f : Solves(f, n)
  <2>1. n \in P
    <3> HIDE DEF P
    <3> QED BY <1>1, <1>2, Climb
  <2> QED BY <2>1
<1> DEFINE upTo == CHOOSE upTo : upTo = [i \in 0..n |-> IF i = 0 THEN <<>> ELSE Prompting!After(upTo[i - 1], s[i])]
<1>4. Prompting!Collapsed(s) = upTo[n]
  BY DEF Prompting!Collapsed
<1>5. upTo = [i \in 0..n |-> IF i = 0 THEN <<>> ELSE Prompting!After(upTo[i - 1], s[i])]
  BY <1>3
<1> HIDE DEF upTo
<1>6. /\ upTo[0] = <<>>
      /\ \A i \in 1..n : upTo[i] = Prompting!After(upTo[i - 1], s[i])
  <2>1. 0 \in 0..n /\ \A i \in 1..n : i \in 0..n /\ i # 0
    OBVIOUS
  <2>2. upTo[0] = <<>>
    BY ONLY <1>5, <2>1
  <2> QED BY <1>5, <2>1, <2>2
<1> QED BY <1>4, <1>6

\* What it is made of, with the sections of the system prompt before it.
LEMMA CollapsedMakes ==
  ASSUME NEW h \in Seq(Prompting!Kinds), NEW n \in Nat, NEW l \in Nat, NEW s, Len(s) = n + l,
         \A i \in 1..n : s[i].role = "system",
         \A k \in 1..l : s[n + k] = Given(h, k)
  PROVE  Makes(Prompting!Collapsed(s), h, l)
<1>1. PICK f : /\ f[0] = <<>>
               /\ \A i \in 1..n + l : f[i] = Prompting!After(f[i - 1], s[i])
               /\ Prompting!Collapsed(s) = f[n + l]
  <2>1. n + l \in Nat
    OBVIOUS
  <2> QED BY <2>1, CollapsedSteps
<1> DEFINE Of(m) == IF m <= n THEN 0 ELSE m - n
           P == {m \in Nat : m <= n + l => Makes(f[m], h, Of(m))}
<1>2. 0 \in P
  <2>1. Makes(<<>>, h, 0)
    BY DEF Makes, NumbersHeld, AllSaid, SaidInOrder, NarratorsApart, BreaksRight, EndsWith
  <2>2. Of(0) = 0
    OBVIOUS
  <2> QED BY <1>1, <2>1, <2>2
<1>3. ASSUME NEW m \in Nat, m \in P PROVE m + 1 \in P
  <2> SUFFICES ASSUME m + 1 <= n + l PROVE Makes(f[m + 1], h, Of(m + 1))
    OBVIOUS
  <2>1. PICK turns, k : turns = f[m] /\ k = Of(m)
    OBVIOUS
  <2>2. Makes(turns, h, k) /\ k \in Nat
    BY <1>3, <2>1
  <2>3. f[m + 1] = Prompting!After(turns, s[m + 1])
    <3>1. m + 1 \in 1..n + l /\ (m + 1) - 1 = m
      OBVIOUS
    <3> QED BY <1>1, <2>1, <3>1
  <2>4. CASE m + 1 <= n
    <3>1. s[m + 1].role = "system" /\ Of(m) = 0 /\ Of(m + 1) = 0
      BY <2>4
    <3> QED BY <2>1, <2>2, <2>3, <3>1 DEF Prompting!After
  <2>5. CASE m + 1 > n
    <3>1. k + 1 = Of(m + 1) /\ k + 1 \in 1..l /\ n + (k + 1) = m + 1
      BY <2>1, <2>5
    <3>2. PICK given : given = Given(h, k + 1) /\ given = s[m + 1]
      BY <3>1
    <3>3. given.role # "system"
      <4>1. given \in ChatTurnsOf
        <5>1. k + 1 \in Nat
          BY <2>2
        <5> QED BY <3>2, <5>1, GivenTyped
      <4> QED BY <4>1 DEF ChatTurnsOf
    <3>4. CASE turns # <<>> /\ given.role = "character" /\ turns[Len(turns)].role = "character"
      <4>1. f[m + 1] = Append(SubSeq(turns, 1, Len(turns) - 1), Prompting!Joined(turns[Len(turns)], given))
        BY <2>3, <3>2, <3>3, <3>4 DEF Prompting!After, Prompting!Last, Prompting!Front
      <4> QED BY <2>2, <3>1, <3>2, <3>4, <4>1, JoinedTurn
    <3>5. CASE ~(turns # <<>> /\ given.role = "character" /\ turns[Len(turns)].role = "character")
      <4>1. f[m + 1] = Append(turns, given)
        BY <2>3, <3>2, <3>3, <3>5 DEF Prompting!After, Prompting!Last
      <4> QED BY <2>2, <3>1, <3>2, <3>5, <4>1, OwnTurn
    <3> QED BY <3>4, <3>5
  <2> QED BY <2>4, <2>5
<1>4. Nat \subseteq P
  <2> HIDE DEF P
  <2> QED BY <1>2, <1>3, Climb
<1>5. Makes(f[n + l], h, Of(n + l))
  BY <1>4
<1>6. Of(n + l) = l
  OBVIOUS
<1> QED BY <1>1, <1>5, <1>6

\* The sections are a list of names.
LEMMA SectionsListed ==
  ASSUME NEW have
  PROVE  \E names : Prompting!Sections(have) \in Seq(names)
<1> DEFINE order == Prompting!Ordered
           n == Len(order)
<1>1. PICK names : order \in Seq(names)
  <2>1. order \in Seq({"scenario", "character", "world", "persona", "rules", "format", "language",
                       "session_rules", "notes", "memory"})
    BY DEF Prompting!Ordered
  <2> QED BY <2>1
<1> HIDE DEF order
<1>2. n \in Nat /\ \A i \in 1..n : order[i] \in names
  BY <1>1
<1> HIDE DEF n
<1> DEFINE next == [i \in 1..n |-> [x \in Seq(names) |->
                      IF order[i] \in have \cup {"format", "memory"} THEN Append(x, order[i]) ELSE x]]
<1>3. next \in [1..n -> [Seq(names) -> Seq(names)]]
  <2>1. ASSUME NEW i \in 1..n, NEW x \in Seq(names)
        PROVE  (IF order[i] \in have \cup {"format", "memory"} THEN Append(x, order[i]) ELSE x) \in Seq(names)
    <3>1. order[i] \in names
      BY <1>2
    <3> QED BY <3>1
  <2> QED BY <2>1
<1>4. PICK g \in [0..n -> Seq(names)] : g[0] = <<>> /\ \A i \in 1..n : g[i] = next[i][g[i - 1]]
  <2> HIDE DEF next
  <2>1. PICK S, none, h, m : S = Seq(names) /\ none = <<>> /\ h = next /\ m = n
    OBVIOUS
  <2>2. none \in S
    BY <2>1
  <2>3. h \in [1..m -> [S -> S]]
    BY <1>3, <2>1
  <2>4. m \in Nat
    BY <1>2, <2>1
  <2>5. \E g \in [0..m -> S] : g[0] = none /\ \A i \in 1..m : g[i] = h[i][g[i - 1]]
    BY ONLY <2>2, <2>3, <2>4, Recursion
  <2> QED BY <2>1, <2>5
<1>5. \A i \in 1..n : g[i] = IF order[i] \in have \cup {"format", "memory"} THEN Append(g[i - 1], order[i]) ELSE g[i - 1]
  <2> TAKE i \in 1..n
  <2>1. i - 1 \in 0..n
    BY <1>2
  <2>2. g[i - 1] \in Seq(names)
    BY <2>1
  <2> QED BY <1>4, <2>2
<1> HIDE DEF next
<1> DEFINE upTo == CHOOSE upTo : upTo = [i \in 0..n |-> IF i = 0 THEN <<>>
                     ELSE IF order[i] \in have \cup {"format", "memory"} THEN Append(upTo[i - 1], order[i])
                     ELSE upTo[i - 1]]
<1>6. g = [i \in 0..n |-> IF i = 0 THEN <<>>
                     ELSE IF order[i] \in have \cup {"format", "memory"} THEN Append(g[i - 1], order[i])
                     ELSE g[i - 1]]
  <2>1. ASSUME NEW i \in 0..n
        PROVE  g[i] = IF i = 0 THEN <<>>
                     ELSE IF order[i] \in have \cup {"format", "memory"} THEN Append(g[i - 1], order[i])
                     ELSE g[i - 1]
    <3>1. CASE i = 0
      BY <1>4, <3>1
    <3>2. CASE i # 0
      <4>1. i \in 1..n
        BY <1>2, <3>2
      <4> QED BY <1>5, <3>2, <4>1
    <3> QED BY <3>1, <3>2
  <2> QED BY <1>4, <2>1
<1>7. upTo = [i \in 0..n |-> IF i = 0 THEN <<>>
                     ELSE IF order[i] \in have \cup {"format", "memory"} THEN Append(upTo[i - 1], order[i])
                     ELSE upTo[i - 1]]
  BY <1>6
<1>8. Prompting!Sections(have) = upTo[n]
  BY DEF Prompting!Sections, order, n
<1> HIDE DEF upTo
<1>9. /\ upTo[0] = <<>>
      /\ \A i \in 1..n : upTo[i] = IF order[i] \in have \cup {"format", "memory"} THEN Append(upTo[i - 1], order[i])
                                   ELSE upTo[i - 1]
  <2>1. 0 \in 0..n /\ \A i \in 1..n : i \in 0..n /\ i # 0
    BY <1>2
  <2>2. upTo[0] = <<>>
    BY ONLY <1>7, <2>1
  <2> QED BY <1>7, <2>1, <2>2
<1> DEFINE P == {m \in Nat : m <= n => upTo[m] \in Seq(names)}
<1>10. 0 \in P
  BY <1>9, EmptySeq
<1>11. ASSUME NEW m \in Nat, m \in P PROVE m + 1 \in P
  <2> SUFFICES ASSUME m + 1 <= n PROVE upTo[m + 1] \in Seq(names)
    OBVIOUS
  <2>1. m + 1 \in 1..n /\ (m + 1) - 1 = m /\ upTo[m] \in Seq(names)
    BY <1>2, <1>11
  <2>2. upTo[m + 1] = IF order[m + 1] \in have \cup {"format", "memory"} THEN Append(upTo[m], order[m + 1])
                      ELSE upTo[m]
    BY <1>9, <2>1
  <2>3. order[m + 1] \in names
    BY <1>2, <2>1
  <2> QED BY <2>1, <2>2, <2>3
<1>12. Nat \subseteq P
  <2> HIDE DEF P
  <2> QED BY <1>10, <1>11, Climb
<1> QED BY <1>2, <1>8, <1>12

\* The number of the message that a chat ends with.
LastNumber == IF op = "resume" THEN Len(history) ELSE Len(history) + 1

PromptInv ==
  /\ history \in Seq(Prompting!Kinds)
  /\ op = "resume" /\ history # <<>> => history[Len(history)] = "cut"
  /\ promptStep = "built" =>
       \E n \in Nat : /\ Len(messages) = n + LastNumber
                      /\ \A i \in 1..n : messages[i].role = "system"
                      /\ \A k \in 1..LastNumber : messages[n + k] = Given(history, k)
  /\ promptStep = "mapped" => Makes(chat.turns, history, LastNumber)

\* What is built of a history: the sections, the history and what asks for the reply.
LEMMA Built ==
  ASSUME NEW o, NEW h \in Seq(Prompting!Kinds), NEW have, Prompting!Build(o, h, have)
  PROVE  PromptInv'
<1>1. /\ op' = o /\ history' = h /\ promptStep' = "built"
      /\ o = "resume" /\ h # <<>> => h[Len(h)] = "cut"
  BY DEF Prompting!Build, Prompting!Last
<1>2. PICK names : Prompting!Sections(have) \in Seq(names)
  BY SectionsListed
<1>3. PICK sections : sections = Prompting!Sections(have) /\ sections \in Seq(names)
  BY <1>2
<1>4. PICK n \in Nat : n = Len(sections) /\ DOMAIN sections = 1..n
  BY <1>3
<1>5. PICK systems : systems = [i \in 1..n |-> Prompting!System(sections[i])]
  OBVIOUS
<1>6. PICK S : S = {systems[i] : i \in 1..n} \cup ChatTurnsOf
  OBVIOUS
<1>7. systems \in Seq(S) /\ Len(systems) = n /\ \A i \in 1..n : systems[i].role = "system"
  <2>1. systems \in [1..n -> S]
    BY <1>5, <1>6
  <2>2. \A i \in 1..n : systems[i].role = "system"
    BY <1>5 DEF Prompting!System
  <2> QED BY <2>1, <2>2
<1>8. PICK l \in Nat : l = Len(h) /\ DOMAIN h = 1..l
  OBVIOUS
<1>9. PICK replay : replay = Prompting!Replay(h)
  OBVIOUS
<1>10. /\ replay \in Seq(S) /\ Len(replay) = l
       /\ \A i \in 1..l : replay[i] = Given(h, i)
  <2>1. replay = [i \in 1..l |-> Given(h, i)]
    BY <1>8, <1>9 DEF Prompting!Replay, Given
  <2>2. \A i \in 1..l : Given(h, i) \in S
    BY <1>6, GivenTyped
  <2>3. replay \in [1..l -> S]
    BY <2>1, <2>2
  <2> QED BY <2>1, <2>3
<1>11. PICK closing : closing = Prompting!Closing(o, h)
  OBVIOUS
<1>12. PICK e \in Nat : /\ e = IF o = "resume" THEN 0 ELSE 1
                        /\ closing \in Seq(S) /\ Len(closing) = e
                        /\ e = 1 => closing[1] = Given(h, l + 1)
  <2>1. CASE o = "resume"
    BY <1>11, <2>1, EmptySeq DEF Prompting!Closing
  <2>2. CASE o # "resume"
    <3>1. PICK last : last = Given(h, l + 1)
      OBVIOUS
    <3>2. last \in S
      BY <1>6, <3>1, GivenTyped
    <3>3. closing = <<last>>
      <4>1. l + 1 \notin 1..l
        OBVIOUS
      <4>2. last = [role |-> "user", text |-> <<l + 1>>, cut |-> FALSE]
        BY <1>8, <3>1, <4>1 DEF Given
      <4> QED BY <1>8, <1>11, <2>2, <4>2 DEF Prompting!Closing, Prompting!Ask
    <3>4. closing \in Seq(S) /\ Len(closing) = 1 /\ closing[1] = last
      BY <3>2, <3>3
    <3> QED BY <2>2, <3>1, <3>4
  <2> QED BY <2>1, <2>2
<1>13. PICK before : before = systems \o replay
  OBVIOUS
<1>14. /\ before \in Seq(S) /\ Len(before) = n + l
       /\ \A i \in 1..n : before[i] = systems[i]
       /\ \A k \in 1..l : before[n + k] = replay[k]
  <2>1. /\ before \in Seq(S) /\ Len(before) = n + l
        /\ \A i \in 1..n + l : before[i] = IF i <= n THEN systems[i] ELSE replay[i - n]
    BY <1>7, <1>10, <1>13, ConcatProperties
  <2>2. /\ \A i \in 1..n : i \in 1..n + l /\ i <= n
        /\ \A k \in 1..l : n + k \in 1..n + l /\ ~(n + k <= n) /\ (n + k) - n = k
    OBVIOUS
  <2> QED BY <2>1, <2>2
<1>15. PICK all : all = before \o closing
  OBVIOUS
<1>16. /\ Len(all) = n + l + e
       /\ \A i \in 1..n + l : all[i] = before[i]
       /\ e = 1 => all[n + l + 1] = closing[1]
  <2>1. /\ Len(all) = n + l + e
        /\ \A i \in 1..n + l + e : all[i] = IF i <= n + l THEN before[i] ELSE closing[i - (n + l)]
    <3>1. before \in Seq(S) /\ closing \in Seq(S)
      BY <1>12, <1>14
    <3>2. /\ Len(all) = Len(before) + Len(closing)
          /\ \A i \in 1..Len(before) + Len(closing) :
               all[i] = IF i <= Len(before) THEN before[i] ELSE closing[i - Len(before)]
      BY <1>15, <3>1, ConcatProperties
    <3> QED BY <1>12, <1>14, <3>2
  <2>2. /\ \A i \in 1..n + l : i \in 1..n + l + e /\ i <= n + l
        /\ ~(n + l + 1 <= n + l) /\ (n + l + 1) - (n + l) = 1
        /\ e = 1 => n + l + 1 \in 1..n + l + e
    OBVIOUS
  <2> QED BY <2>1, <2>2
<1>17. messages' = all
  BY <1>3, <1>4, <1>5, <1>9, <1>11, <1>13, <1>15 DEF Prompting!Build
<1>18. LastNumber' = l + e
  BY <1>1, <1>8, <1>12 DEF LastNumber
<1>19. Len(all) = n + (l + e)
  BY <1>16
<1>20. \A i \in 1..n : all[i].role = "system"
  BY <1>7, <1>14, <1>16
<1>21. ASSUME NEW k \in 1..l + e PROVE all[n + k] = Given(h, k)
  <2>1. CASE k \in 1..l
    <3>1. n + k \in 1..n + l
      BY <2>1
    <3> QED BY <1>10, <1>14, <1>16, <2>1, <3>1
  <2>2. CASE k \notin 1..l
    <3>1. k = l + 1 /\ e = 1 /\ n + k = n + l + 1
      BY <1>12, <2>2
    <3> QED BY <1>12, <1>16, <3>1
  <2> QED BY <2>1, <2>2
<1> QED BY <1>1, <1>17, <1>18, <1>19, <1>20, <1>21 DEF PromptInv

LEMMA PromptNext == PromptInv /\ [Next]_vars => PromptInv'
<1> SUFFICES ASSUME PromptInv, [Next]_vars PROVE PromptInv'
  OBVIOUS
<1>1. CASE UNCHANGED PromptingVars
  BY <1>1 DEF PromptingVars, PromptInv, LastNumber
<1>2. ASSUME NEW o, NEW n \in Nat, NEW h \in [1..n -> Prompting!Kinds], NEW have, Prompting!Build(o, h, have)
      PROVE  PromptInv'
  <2>1. h \in Seq(Prompting!Kinds)
    OBVIOUS
  <2> QED BY <1>2, <2>1, Built
<1>3. CASE Prompting!Map
  <2>1. PICK n \in Nat : /\ Len(messages) = n + LastNumber
                         /\ \A i \in 1..n : messages[i].role = "system"
                         /\ \A k \in 1..LastNumber : messages[n + k] = Given(history, k)
    BY <1>3 DEF Prompting!Map, PromptInv
  <2>2. history \in Seq(Prompting!Kinds) /\ LastNumber \in Nat
    BY DEF PromptInv, LastNumber
  <2>3. Makes(Prompting!Collapsed(messages), history, LastNumber)
    BY <2>1, <2>2, CollapsedMakes
  <2>4. PICK now, last, turns : now = history /\ last = LastNumber /\ turns = Prompting!Collapsed(messages)
    OBVIOUS
  <2>5. history' = now /\ LastNumber' = last /\ chat'.turns = turns /\ promptStep' = "mapped" /\ UNCHANGED op
    BY <1>3, <2>4 DEF Prompting!Map, LastNumber
  <2>6. Makes(chat.turns, history, LastNumber)'
    BY <2>3, <2>4, <2>5
  <2> QED BY <2>4, <2>5, <2>6 DEF PromptInv
<1>4. CASE history' = <<>> /\ promptStep' = "idle" /\ UNCHANGED op
  BY <1>4, EmptySeq DEF PromptInv
<1> QED BY <1>1, <1>2, <1>3, <1>4 DEF Next, vars, Prompting!Next, Prompting!Respond, Prompting!FailToRespond

\* However long a history is and whichever of its replies were cut, the chat LM Studio gets
\* is one it takes and says what the history says (conversation_mapper.py, builder.py).
THEOREM ChatTellsHistory == Spec => []ChatWellFormed
<1>1. Init => PromptInv
  BY EmptySeq DEF Init, Prompting!Init, PromptInv
<1>2. PromptInv => ChatWellFormed
  <2> SUFFICES ASSUME PromptInv, promptStep = "mapped" PROVE Prompting!ChatWellFormed
    BY DEF ChatWellFormed, Prompting!ChatWellFormed
  <2>1. PICK turns, last : turns = chat.turns /\ last = LastNumber
    OBVIOUS
  <2>2. Makes(turns, history, last) /\ history \in Seq(Prompting!Kinds) /\ last \in Nat
    BY <2>1 DEF PromptInv, LastNumber
  <2>3. /\ turns \in Seq(ChatTurnsOf)
        /\ NumbersHeld(turns, last) /\ AllSaid(turns, last) /\ SaidInOrder(turns) /\ NarratorsApart(turns)
        /\ BreaksRight(turns, history) /\ EndsWith(turns, history, last)
    BY <2>2 DEF Makes
  <2>4. DOMAIN turns = 1..Len(turns) /\ Len(turns) \in Nat
    BY <2>3
  <2>5. \A t \in 1..Len(turns) : DOMAIN turns[t].text = 1..Len(turns[t].text)
    <3> SUFFICES ASSUME NEW t \in 1..Len(turns) PROVE DOMAIN turns[t].text = 1..Len(turns[t].text)
      OBVIOUS
    <3>1. turns[t] \in ChatTurnsOf
      BY <2>3
    <3> QED BY <3>1 DEF ChatTurnsOf
  <2>6. ASSUME turns # <<>>
        PROVE  /\ turns[Len(turns)].role = "character" <=> op = "resume"
               /\ turns[Len(turns)].text[Len(turns[Len(turns)].text)] = last
    <3>1. last # 0
      BY <2>3, <2>6 DEF EndsWith
    <3>2. /\ turns[Len(turns)].role = Given(history, last).role
          /\ turns[Len(turns)].text[Len(turns[Len(turns)].text)] = last
      BY <2>3, <3>1 DEF EndsWith
    <3>3. Given(history, last).role = "character" <=> op = "resume"
      <4>1. CASE op = "resume"
        <5>1. last = Len(history) /\ last \in 1..Len(history) /\ history # <<>>
          BY <2>1, <2>2, <3>1, <4>1 DEF LastNumber
        <5>2. history[last] = "cut"
          BY <4>1, <5>1 DEF PromptInv
        <5> QED BY <4>1, <5>1, <5>2 DEF Given, Prompting!Role
      <4>2. CASE op # "resume"
        <5>1. last \notin 1..Len(history)
          BY <2>1, <2>2, <4>2 DEF LastNumber
        <5> QED BY <4>2, <5>1 DEF Given
      <4> QED BY <4>1, <4>2
    <3> QED BY <3>2, <3>3
  <2>7. \A i \in 1..Len(turns) - 1 : ~(turns[i].role = "character" /\ turns[i + 1].role = "character")
    BY <2>3 DEF NarratorsApart
  <2>8. \A m \in 1..last : \E t \in DOMAIN turns : \E p \in DOMAIN turns[t].text : turns[t].text[p] = m
    BY <2>3, <2>4, <2>5 DEF AllSaid
  <2>9. \A t \in DOMAIN turns : \A p \in DOMAIN turns[t].text : turns[t].text[p] \in 0..last
    BY <2>3, <2>4, <2>5 DEF NumbersHeld
  <2>10. \A t, u \in DOMAIN turns : \A p \in DOMAIN turns[t].text, q \in DOMAIN turns[u].text :
           turns[t].text[p] # 0 /\ turns[u].text[q] # 0 /\ (t < u \/ (t = u /\ p < q))
           => turns[t].text[p] < turns[u].text[q]
    BY <2>3, <2>4, <2>5 DEF SaidInOrder
  <2>11. \A t \in DOMAIN turns : \A p \in 2..Len(turns[t].text) :
           turns[t].text[p - 1] # 0 => (turns[t].text[p] = 0 <=> history[turns[t].text[p - 1]] # "cut")
    BY <2>3, <2>4 DEF BreaksRight
  <2> QED BY <2>1, <2>6, <2>7, <2>8, <2>9, <2>10, <2>11 DEF Prompting!ChatWellFormed, Prompting!Last,
         Prompting!Break, LastNumber
<1> QED BY <1>1, <1>2, PromptNext, PTL DEF Spec
=============================================================================
