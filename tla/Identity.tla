------------------------------ MODULE Identity ------------------------------
(***************************************************************************)
(* Who a Telegram message is from: IdentityResolver and                    *)
(* GroupIdentityResolver over PostgresUserIdentityStore and                *)
(* PostgresGroupIdentityStore.  A resolver looks the identity up, the      *)
(* store looks again, then inserts the owner and the identity in one       *)
(* transaction; the identity's primary key refuses a second one, and the   *)
(* loser of the race reads the winner's.                                   *)
(***************************************************************************)
EXTENDS Integers, FiniteSets

CONSTANTS
  Callers,     \* handlers, of this process and of one that is being replaced
  Identities,  \* provider and external id, of users and of groups
  None,
  MaxOwners    \* bound: users and groups ever created

VARIABLES
  owners,     \* the users and groups tables
  identities, \* the identities tables: whose each one is
  pc,         \* where each caller is suspended
  whom,       \* ... and the identity it resolves
  nextId,
  answered    \* history: owners each identity was resolved to

vars == <<owners, identities, pc, whom, nextId, answered>>

Init ==
  /\ owners = {}
  /\ identities = [i \in Identities |-> None]
  /\ pc = [c \in Callers |-> "idle"]
  /\ whom = [c \in Callers |-> None]
  /\ nextId = 1
  /\ answered = [i \in Identities |-> {}]

Goto(c, step) == pc' = [pc EXCEPT ![c] = step]

Return(c, owner) ==
  /\ Goto(c, "idle")
  /\ whom' = [whom EXCEPT ![c] = None]
  /\ answered' = [answered EXCEPT ![whom[c]] = @ \cup {owner}]

Resolve(c, i) ==
  /\ pc[c] = "idle"
  /\ whom' = [whom EXCEPT ![c] = i]
  /\ Goto(c, "look")
  /\ UNCHANGED <<owners, identities, nextId, answered>>

\* get_user_by_identity: in the resolver, again in create_user_with_identity, and once
\* more after a conflict, where finding none raises.
Found(c) ==
  /\ pc[c] \in {"look", "lookAgain", "reread"}
  /\ identities[whom[c]] # None
  /\ Return(c, identities[whom[c]])
  /\ UNCHANGED <<owners, identities, nextId>>

Missing(c) ==
  /\ pc[c] \in {"look", "lookAgain"}
  /\ identities[whom[c]] = None
  /\ Goto(c, IF pc[c] = "look" THEN "lookAgain" ELSE "insert")
  /\ UNCHANGED <<owners, identities, whom, nextId, answered>>

Insert(c) ==
  /\ pc[c] = "insert"
  /\ nextId <= MaxOwners
  /\ identities[whom[c]] = None
  /\ owners' = owners \cup {nextId}
  /\ identities' = [identities EXCEPT ![whom[c]] = nextId]
  /\ nextId' = nextId + 1
  /\ Return(c, nextId)

\* Mutant: the owner's row is committed before the identity's.
ConflictLeavesOwner(c) ==
  /\ pc[c] = "insert"
  /\ identities[whom[c]] # None
  /\ owners' = owners \cup {nextId}
  /\ nextId' = nextId + 1
  /\ Goto(c, "reread")
  /\ UNCHANGED <<identities, whom, answered>>

\* IntegrityError: both rows are rolled back.
Conflict(c) ==
  /\ pc[c] = "insert"
  /\ identities[whom[c]] # None
  /\ Goto(c, "reread")
  /\ UNCHANGED <<owners, identities, whom, nextId, answered>>

\* The database fails or the process dies under a caller.
Fail(c) ==
  /\ pc[c] # "idle"
  /\ Goto(c, "idle")
  /\ whom' = [whom EXCEPT ![c] = None]
  /\ UNCHANGED <<owners, identities, nextId, answered>>

Next ==
  \E c \in Callers :
    \/ \E i \in Identities : Resolve(c, i)
    \/ Found(c) \/ Missing(c) \/ Insert(c) \/ Conflict(c) \/ Fail(c)

Spec == Init /\ [][Next]_vars
-----------------------------------------------------------------------------
(* Properties.                                                             *)

\* A platform identity means one owner for good, whoever resolved it first and how many
\* did so at once: their stories hang on that id.  And no owner is left behind without an
\* identity by which anyone could ever reach it.
OneOwnerEach ==
  /\ \A i \in Identities : Cardinality(answered[i]) <= 1 /\ answered[i] \subseteq {identities[i]}
  /\ \A o \in owners : \E i \in Identities : identities[i] = o
=============================================================================
