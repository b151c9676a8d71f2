----------------------------- MODULE MemoryProofs -----------------------------
(***************************************************************************)
(* The memory of a session: what the recap tells, for any number of        *)
(* passes, messages and overlaps, over a store the panel deletes from,     *)
(* what the layers recall within the budget, and when the two leave out    *)
(* nothing.                                                                *)
(***************************************************************************)
EXTENDS PartsProofs
-----------------------------------------------------------------------------
(* Prefixes of a conversation and the turns in them.                       *)

StoredMessages == [id : Nat, role : {"user", "character"}, cost : Costs]
Conversations == Seq(StoredMessages)

Replies(A, i) == {j \in 1..i : A[j].role = "character"}

\* Turns are counted in numbers, and only those of the first messages matter.
LEMMA TurnsCount ==
  ASSUME NEW A, NEW i \in Nat
  PROVE  /\ IsFiniteSet(Replies(A, i))
         /\ Rolling!TurnsBefore(A, i) = Cardinality(Replies(A, i))
         /\ Rolling!TurnsBefore(A, i) \in Nat
<1>1. IsFiniteSet(1..i)
  BY FS_Interval
<1>2. IsFiniteSet(Replies(A, i))
  BY <1>1, FS_Subset DEF Replies
<1>3. Rolling!TurnsBefore(A, i) = Cardinality(Replies(A, i))
  BY DEF Rolling!TurnsBefore, Replies, Rolling!Cardinality, Cardinality
<1> QED BY <1>2, <1>3, FS_CardinalityType

LEMMA TurnsAgree ==
  ASSUME NEW A, NEW B, NEW i \in Nat, \A j \in 1..i : A[j] = B[j]
  PROVE  Rolling!TurnsBefore(A, i) = Rolling!TurnsBefore(B, i)
<1>1. Replies(A, i) = Replies(B, i)
  BY DEF Replies
<1> QED BY <1>1, TurnsCount

LEMMA NoTurnsYet == ASSUME NEW A PROVE Rolling!TurnsBefore(A, 0) = 0
<1>1. Replies(A, 0) = {}
  BY DEF Replies
<1> QED BY <1>1, TurnsCount, FS_EmptySet

\* They only grow, at a reply, by one.
LEMMA TurnsGrow ==
  ASSUME NEW A, NEW i \in Nat, NEW k \in Nat, i <= k
  PROVE  Rolling!TurnsBefore(A, i) <= Rolling!TurnsBefore(A, k)
<1>1. Replies(A, i) \subseteq Replies(A, k)
  BY DEF Replies
<1> QED BY <1>1, TurnsCount, FS_Subset

LEMMA TurnsGrowAtReply ==
  ASSUME NEW A, NEW i \in Nat, NEW k \in Nat, i < k, A[k].role = "character"
  PROVE  Rolling!TurnsBefore(A, i) < Rolling!TurnsBefore(A, k)
<1>1. Replies(A, i) \subseteq Replies(A, k) /\ k \in Replies(A, k) /\ k \notin Replies(A, i)
  BY DEF Replies
<1>2. Replies(A, i) # Replies(A, k)
  BY <1>1
<1>3. Cardinality(Replies(A, i)) < Cardinality(Replies(A, k))
  BY <1>1, <1>2, TurnsCount, FS_Subset
<1> QED BY <1>3, TurnsCount

LEMMA TurnsGrowByOne ==
  ASSUME NEW A, NEW i \in Nat
  PROVE  Rolling!TurnsBefore(A, i + 1) <= Rolling!TurnsBefore(A, i) + 1
<1>1. Replies(A, i + 1) \subseteq Replies(A, i) \cup {i + 1}
  BY DEF Replies
<1>2. /\ IsFiniteSet(Replies(A, i) \cup {i + 1})
      /\ Cardinality(Replies(A, i) \cup {i + 1}) <= Cardinality(Replies(A, i)) + 1
  BY TurnsCount, FS_AddElement
<1>3. Cardinality(Replies(A, i + 1)) <= Cardinality(Replies(A, i) \cup {i + 1})
  BY <1>1, <1>2, FS_Subset
<1>4. /\ Cardinality(Replies(A, i + 1)) \in Nat /\ Cardinality(Replies(A, i)) \in Nat
      /\ Cardinality(Replies(A, i) \cup {i + 1}) \in Nat
  BY <1>2, TurnsCount, FS_CardinalityType
<1> QED BY <1>2, <1>3, <1>4, TurnsCount
-----------------------------------------------------------------------------
(* Where the source's walks end.                                           *)

LEMMA LeastOf ==
  ASSUME NEW T \in SUBSET Nat, T # {}
  PROVE  Rolling!Smallest(T) \in T /\ \A y \in T : Rolling!Smallest(T) <= y
BY NatMin DEF Rolling!Smallest

LEMMA GreatestOf ==
  ASSUME NEW n \in Nat, NEW T \in SUBSET (0..n), T # {}
  PROVE  Rolling!Largest(T) \in T /\ \A y \in T : y <= Rolling!Largest(T)
BY NatMax DEF Rolling!Largest

\* The fold line lies just after a reply, or nothing is folded.
LEMMA FoldLine ==
  ASSUME NEW A \in Conversations
  PROVE  LET F == Rolling!FoldThrough(A) IN
         F \in 0..Len(A) /\ (F # 0 => A[F].role = "character")
<1> DEFINE budget == Rolling!Share(Total, HighWater)
           fits == {Len(A)} \cup {i \in 0..Len(A) : Rolling!Cost(Rolling!From(A, i)) <= budget}
           edge == Rolling!Edge(A, budget)
           ends == {0} \cup {i \in 1..edge : A[i].role = "character"}
<1>1. Len(A) \in Nat
  BY DEF Conversations
<1>2. edge = Rolling!Smallest(fits)
  BY DEF Rolling!Edge
<1>3. fits \in SUBSET (0..Len(A)) /\ fits # {}
  BY <1>1
<1>4. edge \in 0..Len(A)
  <2> HIDE DEF fits, edge
  <2>1. fits \in SUBSET Nat
    BY <1>1, <1>3
  <2> QED BY <1>2, <1>3, <2>1, LeastOf
<1>5. Rolling!FoldThrough(A) = Rolling!Largest(ends)
  BY DEF Rolling!FoldThrough, Rolling!EndOfTurn
<1> HIDE DEF edge
<1>6. ends \in SUBSET (0..Len(A)) /\ ends # {}
  BY <1>1, <1>4
<1>7. Rolling!Largest(ends) \in ends
  <2> HIDE DEF ends
  <2> QED BY <1>1, <1>6, GreatestOf
<1> QED BY <1>5, <1>6, <1>7

\* A recap whose turns end with message i of a conversation stopped there.
LEMMA StoppedAt ==
  ASSUME NEW A \in Conversations, NEW i \in 1..Len(A), A[i].role = "character"
  PROVE  Rolling!IndexAfterTurn(A, Rolling!TurnsBefore(A, i)) = i
<1> DEFINE c == Rolling!TurnsBefore(A, i)
           T == {j \in DOMAIN A : Rolling!TurnsBefore(A, j) = c}
<1>1. Len(A) \in Nat /\ DOMAIN A = 1..Len(A)
  BY DEF Conversations
<1>2. c \in Nat /\ c # 0
  <2>1. i \in Nat /\ 0 < i
    BY <1>1
  <2>2. Rolling!TurnsBefore(A, 0) < c
    BY <2>1, TurnsGrowAtReply
  <2> QED BY <2>1, <2>2, TurnsCount, NoTurnsYet
<1>3. ~(c > Rolling!TurnsBefore(A, Len(A)))
  BY <1>1, <1>2, TurnsCount, TurnsGrow
<1>4. i \in T /\ \A j \in T : i <= j
  <2>1. ASSUME NEW j \in T, j < i PROVE FALSE
    BY <1>1, <2>1, TurnsGrowAtReply, TurnsCount
  <2> QED BY <1>1, <2>1
<1>5. Rolling!Smallest(T) = i
  <2>1. T \in SUBSET Nat /\ T # {}
    BY <1>1, <1>4
  <2> HIDE DEF T
  <2>2. Rolling!Smallest(T) \in T /\ \A y \in T : Rolling!Smallest(T) <= y
    BY <2>1, LeastOf
  <2>3. Rolling!Smallest(T) <= i /\ i <= Rolling!Smallest(T) /\ Rolling!Smallest(T) \in Nat
    BY <1>4, <2>1, <2>2
  <2> QED BY <2>3
<1> HIDE DEF c
<1> QED BY <1>2, <1>3, <1>5 DEF Rolling!IndexAfterTurn, c

\* Where a recap of c turns stopped, c turns are told.
LEMMA StopsAfterTurns ==
  ASSUME NEW A \in Conversations, NEW c \in Nat, c <= Rolling!TurnsBefore(A, Len(A))
  PROVE  LET i == Rolling!IndexAfterTurn(A, c) IN i \in 0..Len(A) /\ Rolling!TurnsBefore(A, i) = c
<1>1. Len(A) \in Nat /\ DOMAIN A = 1..Len(A)
  BY DEF Conversations
<1>2. CASE c = 0
  BY <1>1, <1>2, NoTurnsYet DEF Rolling!IndexAfterTurn
<1>3. CASE c # 0
  <2> DEFINE U == {j \in 0..Len(A) : c <= Rolling!TurnsBefore(A, j)}
             T == {j \in DOMAIN A : Rolling!TurnsBefore(A, j) = c}
  <2>1. U \in SUBSET Nat /\ Len(A) \in U
    BY <1>1
  <2>2. PICK u \in U : \A y \in U : u <= y
    <3> HIDE DEF U
    <3> QED BY <2>1, NatMin
  <2>3. u # 0
    BY <1>3, NoTurnsYet
  <2>4. u - 1 \in 0..Len(A) /\ (u - 1) + 1 = u /\ u \in Nat /\ u - 1 \in Nat
    BY <1>1, <2>3
  <2>5. Rolling!TurnsBefore(A, u - 1) < c
    BY <2>2, <2>4, TurnsCount
  <2>6. Rolling!TurnsBefore(A, u) <= Rolling!TurnsBefore(A, u - 1) + 1
    BY <2>4, TurnsGrowByOne
  <2>7. Rolling!TurnsBefore(A, u) = c
    BY <2>4, <2>5, <2>6, TurnsCount
  <2>8. T \in SUBSET Nat /\ T # {}
    BY <1>1, <2>3, <2>7
  <2>9. Rolling!Smallest(T) \in T
    <3> HIDE DEF T
    <3> QED BY <2>8, LeastOf
  <2>10. Rolling!IndexAfterTurn(A, c) = Rolling!Smallest(T)
    BY <1>1, <1>3, TurnsCount DEF Rolling!IndexAfterTurn
  <2> QED BY <1>1, <2>9, <2>10
<1> QED BY <1>2, <1>3
-----------------------------------------------------------------------------
(* RecapTellsWhatItCovers and RecapNeverForgets of RollingSummary.         *)

\* The conversation only grows and shrinks at its end, so a message stands, for good, after
\* those it was written behind: upTo[n] is the conversation when message n was written.
Grown(A, upTo) ==
  /\ A \in Conversations
  /\ \A i \in 1..Len(A) : A[i].id \in DOMAIN upTo /\ upTo[A[i].id] = SubSeq(A, 1, i)

Histories(w) == [1..w - 1 -> Conversations]

Written(upTo, w) ==
  /\ upTo \in Histories(w)
  /\ \A n \in 1..w - 1 :
       Grown(upTo[n], upTo) /\ upTo[n] # <<>> /\ upTo[n][Len(upTo[n])].id = n

\* A recap of whole turns: of nothing, or of all messages up to one reply ...
Whole(x, upTo, w) ==
  \/ x.told = {} /\ x.covers = 0
  \/ \E n \in 1..w - 1 :
       /\ upTo[n][Len(upTo[n])].role = "character"
       /\ x.told = Rolling!Ids(upTo[n])
       /\ x.covers = Rolling!TurnsBefore(upTo[n], Len(upTo[n]))

\* ... and one that tells of a message deleted since.
Outlived(x, S) == \E n \in x.told : n \notin Rolling!Ids(S)

Recap(w) == [told : SUBSET (1..w - 1), covers : Nat, long : BOOLEAN]

Sound(x, upTo, w, S) == x \in Recap(w) /\ (Whole(x, upTo, w) \/ Outlived(x, S))

\* What a pass holds: a conversation that was, the recap it read and the one it makes of it,
\* which goes at least as far.
PassHolds(v, upTo, w, S) ==
  /\ v \in [msgs : Conversations, stored : Recap(w), draft : Recap(w)]
  /\ Grown(v.msgs, upTo) /\ Sound(v.stored, upTo, w, S) /\ Sound(v.draft, upTo, w, S)
  /\ v.stored.covers <= v.draft.covers /\ v.stored.told \subseteq v.draft.told

RollingInv(upTo) ==
  /\ written \in Nat \ {0}
  /\ Written(upTo, written)
  /\ Grown(store, upTo)
  /\ Sound(recap, upTo, written, store)
  /\ passAt \in [Rolling!Passes -> {"idle", "look", "summarize", "condense", "save"}]
  /\ DOMAIN local = Rolling!Passes
  /\ \A p \in Rolling!Passes : PassHolds(local[p], upTo, written, store)
  /\ \A p \in Rolling!Passes : passAt[p] = "summarize" =>
       Rolling!FoldNow(local[p].msgs, local[p].stored.covers)

\* A prefix of a conversation.
LEMMA PrefixOf ==
  ASSUME NEW A \in Conversations, NEW i \in 0..Len(A)
  PROVE  /\ SubSeq(A, 1, i) \in Conversations /\ Len(SubSeq(A, 1, i)) = i
         /\ \A j \in 1..i : SubSeq(A, 1, i)[j] = A[j]
         /\ Rolling!TurnsBefore(SubSeq(A, 1, i), i) = Rolling!TurnsBefore(A, i)
<1>1. Len(A) \in Nat /\ \A j \in 1..Len(A) : A[j] \in StoredMessages
  BY ElementOfSeq DEF Conversations
<1>2. /\ SubSeq(A, 1, i) \in Seq(StoredMessages)
      /\ Len(SubSeq(A, 1, i)) = IF 1 <= i THEN i - 1 + 1 ELSE 0
      /\ \A j \in 1..i - 1 + 1 : SubSeq(A, 1, i)[j] = A[1 + j - 1]
  BY <1>1, SubSeqProperties
<1>3. \A j \in 1..i : SubSeq(A, 1, i)[j] = A[j]
  BY <1>1, <1>2
<1>4. Rolling!TurnsBefore(SubSeq(A, 1, i), i) = Rolling!TurnsBefore(A, i)
  <2>1. i \in Nat
    BY <1>1
  <2> QED BY <1>3, <2>1, TurnsAgree
<1> QED BY <1>1, <1>2, <1>3, <1>4 DEF Conversations

\* The ids of the messages of a stretch.
LEMMA IdsOf ==
  ASSUME NEW A \in Conversations, NEW i \in 1..Len(A) + 1, NEW k \in 0..Len(A)
  PROVE  Rolling!Ids(SubSeq(A, i, k)) = {A[j].id : j \in i..k}
<1>1. Len(A) \in Nat /\ DOMAIN A = 1..Len(A) /\ \A j \in 1..Len(A) : A[j] \in StoredMessages
  BY ElementOfSeq DEF Conversations
<1> DEFINE B == SubSeq(A, i, k)
<1>2. /\ B \in Seq(StoredMessages)
      /\ Len(B) = IF i <= k THEN k - i + 1 ELSE 0
      /\ \A j \in 1..k - i + 1 : B[j] = A[i + j - 1]
  BY <1>1, SubSeqProperties
<1> HIDE DEF B
<1>3. DOMAIN B = 1..Len(B) /\ Len(B) \in Nat
  BY <1>2
<1>4. \A j \in DOMAIN B : i + j - 1 \in i..k /\ B[j] = A[i + j - 1]
  BY <1>1, <1>2, <1>3
<1>5. \A j \in i..k : j - i + 1 \in DOMAIN B /\ B[j - i + 1] = A[j]
  BY <1>1, <1>2, <1>3
<1>6. {B[j].id : j \in DOMAIN B} = {A[j].id : j \in i..k}
  BY <1>4, <1>5
<1> QED BY <1>6 DEF Rolling!Ids, B

\* A recap of all turns up to a reply that stands at place i.
Told(A, i) == {A[j].id : j \in 1..i}

LEMMA ToldUpTo ==
  ASSUME NEW upTo, NEW A, Grown(A, upTo), NEW i \in 1..Len(A), A[i].role = "character",
         NEW n, A[i].id = n
  PROVE  /\ upTo[n][Len(upTo[n])] = A[i]
         /\ Rolling!Ids(upTo[n]) = Told(A, i)
         /\ Rolling!TurnsBefore(upTo[n], Len(upTo[n])) = Rolling!TurnsBefore(A, i)
<1>1. A \in Conversations /\ Len(A) \in Nat /\ upTo[n] = SubSeq(A, 1, i)
  BY DEF Grown, Conversations
<1>2. i \in 0..Len(A) /\ 1 \in 1..Len(A) + 1 /\ i \in 1..i
  BY <1>1
<1>5. Rolling!Ids(upTo[n]) = Told(A, i)
  <2>1. Rolling!Ids(SubSeq(A, 1, i)) = {A[j].id : j \in 1..i}
    BY <1>1, <1>2, IdsOf
  <2> QED BY <1>1, <2>1 DEF Told
<1>6. Len(SubSeq(A, 1, i)) = i /\ SubSeq(A, 1, i)[i] = A[i]
      /\ Rolling!TurnsBefore(SubSeq(A, 1, i), i) = Rolling!TurnsBefore(A, i)
  BY <1>1, <1>2, PrefixOf
<1> QED BY <1>1, <1>5, <1>6

\* Folding a conversation into a recap keeps it sound: it tells whole turns again, or it
\* mixes in what was deleted.
LEMMA FoldSound ==
  ASSUME NEW upTo, written \in Nat \ {0}, Written(upTo, written), Grown(store, upTo),
         NEW v, PassHolds(v, upTo, written, store), Rolling!FoldNow(v.msgs, v.stored.covers), NEW long \in BOOLEAN
  PROVE  /\ Sound(Rolling!Folded(v, long), upTo, written, store)
         /\ v.stored.covers <= Rolling!Folded(v, long).covers
         /\ v.stored.told \subseteq Rolling!Folded(v, long).told
<1> DEFINE A == v.msgs
           x == v.stored
           c == x.covers
           F == Rolling!FoldThrough(A)
           from == Rolling!IndexAfterTurn(A, c)
           m == A[F].id
           y == Rolling!Folded(v, long)
<1>1. /\ A \in Conversations /\ Len(A) \in Nat /\ Grown(A, upTo)
      /\ x.told \subseteq 1..written - 1 /\ c \in Nat
      /\ \/ x.told = {} /\ c = 0
         \/ \E n \in 1..written - 1 : /\ upTo[n][Len(upTo[n])].role = "character"
                                     /\ x.told = Rolling!Ids(upTo[n])
                                     /\ c = Rolling!TurnsBefore(upTo[n], Len(upTo[n]))
         \/ Outlived(x, store)
      /\ DOMAIN upTo = 1..written - 1
  BY DEF PassHolds, Grown, Sound, Whole, Recap, Conversations, Written, Histories
<1>2. Rolling!TurnsBefore(A, F) > c
  BY DEF Rolling!FoldNow
<1>3. y = [told |-> x.told \cup Rolling!Ids(Rolling!Pending(A, c)), covers |-> Rolling!TurnsBefore(A, F), long |-> long]
  BY DEF Rolling!Folded
<1> HIDE DEF A, x, c, F, y
<1>4. F \in 1..Len(A) /\ A[F].role = "character" /\ F \in Nat
  <2>1. F \in 0..Len(A) /\ (F # 0 => A[F].role = "character")
    BY <1>1, FoldLine DEF F
  <2>2. F # 0
    BY <1>1, <1>2, NoTurnsYet
  <2> QED BY <1>1, <2>1, <2>2
<1>5. Rolling!TurnsBefore(A, F) \in Nat
  BY <1>4, TurnsCount
<1>6. from \in 0..Len(A) /\ Rolling!TurnsBefore(A, from) = c
  <2>1. c <= Rolling!TurnsBefore(A, Len(A))
    BY <1>1, <1>2, <1>4, <1>5, TurnsGrow, TurnsCount
  <2> QED BY <1>1, <2>1, StopsAfterTurns
<1> HIDE DEF from
<1>7. from < F
  BY <1>1, <1>2, <1>4, <1>5, <1>6, TurnsGrow
<1>8. Rolling!Ids(Rolling!Pending(A, c)) = {A[j].id : j \in from + 1..F}
  <2>1. Rolling!Pending(A, c) = SubSeq(A, from + 1, F)
    BY DEF Rolling!Pending, from, F
  <2>2. from + 1 \in 1..Len(A) + 1 /\ F \in 0..Len(A)
    BY <1>1, <1>4, <1>6
  <2> QED BY <1>1, <2>1, <2>2, IdsOf
<1>9. \A j \in 1..Len(A) : A[j].id \in 1..written - 1
  BY <1>1 DEF Grown
<1>10. y \in Recap(written) /\ y.covers = Rolling!TurnsBefore(A, F) /\ y.told = x.told \cup {A[j].id : j \in from + 1..F}
  <2>1. {A[j].id : j \in from + 1..F} \subseteq 1..written - 1
    BY <1>1, <1>4, <1>6, <1>9
  <2> QED BY <1>1, <1>3, <1>5, <1>8, <2>1 DEF Recap
<1>11. m \in y.told /\ m \in 1..written - 1
  <2>1. F \in from + 1..F
    BY <1>4, <1>6, <1>7
  <2> QED BY <1>4, <1>9, <1>10, <2>1
<1>12. /\ upTo[m][Len(upTo[m])] = A[F]
       /\ Rolling!Ids(upTo[m]) = Told(A, F)
       /\ Rolling!TurnsBefore(upTo[m], Len(upTo[m])) = Rolling!TurnsBefore(A, F)
  BY SMTT(30), <1>1, <1>4, ToldUpTo
<1> HIDE DEF m
<1>13. ASSUME x.told = Told(A, from) PROVE Whole(y, upTo, written)
  <2>1. 1..F = 1..from \cup (from + 1..F)
    BY <1>4, <1>6, <1>7
  <2>2. y.told = Told(A, F)
    BY <1>10, <1>13, <2>1 DEF Told
  <2> QED BY <1>4, <1>10, <1>11, <1>12, <2>2 DEF Whole
<1>14. ASSUME Outlived(x, store) PROVE Outlived(y, store)
  <2>1. x.told \subseteq y.told
    BY <1>10
  <2> QED BY <1>14, <2>1 DEF Outlived
<1>15. ASSUME x.told = {}, c = 0 PROVE Whole(y, upTo, written)
  <2>1. from = 0
    BY <1>15 DEF from, Rolling!IndexAfterTurn
  <2>2. Told(A, from) = {}
    BY <2>1 DEF Told
  <2> QED BY <1>13, <1>15, <2>2
<1>16. ASSUME NEW n \in 1..written - 1, upTo[n][Len(upTo[n])].role = "character",
              x.told = Rolling!Ids(upTo[n]), c = Rolling!TurnsBefore(upTo[n], Len(upTo[n]))
       PROVE  Whole(y, upTo, written) \/ Outlived(y, store)
  <2>0. n \in x.told
    <3>1. Grown(upTo[n], upTo) /\ upTo[n] # <<>> /\ upTo[n][Len(upTo[n])].id = n
      BY DEF Written
    <3>2. upTo[n] \in Conversations /\ Len(upTo[n]) \in 1..Len(upTo[n]) /\ DOMAIN upTo[n] = 1..Len(upTo[n])
      BY <3>1, EmptySeq DEF Grown, Conversations
    <3> QED BY <1>16, <3>1, <3>2 DEF Rolling!Ids
  <2>1. ASSUME NEW B, Grown(B, upTo), NEW i \in 1..Len(B), B[i].id = n
        PROVE  B[i].role = "character" /\ x.told = Told(B, i) /\ c = Rolling!TurnsBefore(B, i)
    <3>1. B \in Conversations /\ Len(B) \in Nat /\ upTo[n] = SubSeq(B, 1, i)
      BY <2>1 DEF Grown, Conversations
    <3>2. i \in 0..Len(B) /\ i \in 1..i
      BY <3>1
    <3>3. Len(SubSeq(B, 1, i)) = i /\ SubSeq(B, 1, i)[i] = B[i]
      BY <3>1, <3>2, PrefixOf
    <3>4. B[i].role = "character"
      BY <1>16, <3>1, <3>3
    <3>5. /\ Rolling!Ids(upTo[n]) = Told(B, i)
          /\ Rolling!TurnsBefore(upTo[n], Len(upTo[n])) = Rolling!TurnsBefore(B, i)
      BY <2>1, <3>4, ToldUpTo
    <3> QED BY <1>16, <3>4, <3>5
  <2>2. CASE \E i \in 1..Len(A) : A[i].id = n
    <3>1. PICK i \in 1..Len(A) : A[i].id = n
      BY <2>2
    <3>2. A[i].role = "character" /\ x.told = Told(A, i) /\ c = Rolling!TurnsBefore(A, i)
      BY <1>1, <2>1, <3>1
    <3>3. from = i
      BY <1>1, <3>2, StoppedAt DEF from
    <3> QED BY <1>13, <3>2, <3>3
  <2>3. CASE (\A i \in 1..Len(A) : A[i].id # n) /\ n \in Rolling!Ids(store) /\ m \in Rolling!Ids(store)
    <3>1. store \in Conversations /\ Len(store) \in Nat /\ DOMAIN store = 1..Len(store)
      BY DEF Grown, Conversations
    <3>2. PICK i \in 1..Len(store) : store[i].id = n
      BY <2>3, <3>1 DEF Rolling!Ids
    <3>3. PICK k \in 1..Len(store) : store[k].id = m
      BY <2>3, <3>1 DEF Rolling!Ids
    <3>4. c = Rolling!TurnsBefore(store, i)
      BY <2>1, <3>2
    <3>5. SubSeq(store, 1, k) = SubSeq(A, 1, F)
      BY <1>1, <1>4, <3>3 DEF Grown, m
    <3>6. k = F /\ \A j \in 1..k : store[j] = A[j]
      <4>1. k \in 0..Len(store) /\ F \in 0..Len(A)
        BY <1>1, <1>4, <3>1
      <4>2. Len(SubSeq(store, 1, k)) = k /\ \A j \in 1..k : SubSeq(store, 1, k)[j] = store[j]
        BY <3>1, <4>1, PrefixOf
      <4>3. Len(SubSeq(A, 1, F)) = F /\ \A j \in 1..F : SubSeq(A, 1, F)[j] = A[j]
        BY <1>1, <4>1, PrefixOf
      <4> QED BY <3>5, <4>2, <4>3
    <3>7. k < i
      <4>1. ASSUME i <= k PROVE FALSE
        <5>1. i \in 1..k /\ i \in 1..Len(A)
          BY <1>1, <1>4, <3>1, <3>6, <4>1
        <5> QED BY <2>3, <3>2, <3>6, <5>1
      <4> QED BY <3>1, <4>1
    <3>8. Rolling!TurnsBefore(store, k) = Rolling!TurnsBefore(A, F)
      BY <1>4, <3>6, TurnsAgree
    <3>9. Rolling!TurnsBefore(store, k) <= Rolling!TurnsBefore(store, i)
      BY <3>1, <3>7, TurnsGrow
    <3> QED BY <1>1, <1>2, <1>5, <3>4, <3>8, <3>9
  <2>4. CASE n \notin Rolling!Ids(store) \/ m \notin Rolling!Ids(store)
    BY <1>10, <1>11, <2>0, <2>4 DEF Outlived
  <2> QED BY <2>2, <2>3, <2>4
<1>17. Whole(y, upTo, written) \/ Outlived(y, store)
  BY <1>1, <1>14, <1>15, <1>16
<1> QED BY <1>1, <1>2, <1>5, <1>10, <1>17 DEF Sound, c, x, y
-----------------------------------------------------------------------------
\* What holds of a history holds of a longer one.
LEMMA Remembered ==
  ASSUME NEW upTo, NEW A, Grown(A, upTo), NEW later, DOMAIN upTo \subseteq DOMAIN later,
         \A n \in DOMAIN upTo : later[n] = upTo[n]
  PROVE  Grown(A, later)
BY DEF Grown

\* A message is written: it stands behind all that is stored, and the recaps stay sound.
LEMMA WrittenNext ==
  ASSUME NEW upTo, RollingInv(upTo), NEW who \in {"user", "character"}, NEW size \in Costs,
         Rolling!Write(who, size), recap' = recap, local' = local, passAt' = passAt
  PROVE  \E later : RollingInv(later)'
<1> DEFINE m == [id |-> written, role |-> who, cost |-> size]
<1> PICK later : later = [n \in 1..written |-> IF n = written THEN store' ELSE upTo[n]]
  OBVIOUS
<1>1. /\ written \in Nat \ {0} /\ Written(upTo, written) /\ Grown(store, upTo)
      /\ store \in Conversations /\ Len(store) \in Nat
      /\ DOMAIN upTo = 1..written - 1 /\ upTo \in Histories(written)
  BY DEF RollingInv, Grown, Written, Histories, Conversations
<1>2. store' = Append(store, m) /\ written' = written + 1
  BY DEF Rolling!Write
<1>3. m \in StoredMessages
  BY <1>1 DEF StoredMessages
<1>4. /\ store' \in Conversations /\ store' # <<>> /\ Len(store') = Len(store) + 1
      /\ store'[Len(store) + 1] = m /\ \A i \in 1..Len(store) : store'[i] = store[i]
  BY <1>1, <1>2, <1>3, AppendProperties DEF Conversations
<1>5. m.id = written
  OBVIOUS
<1>6. /\ DOMAIN later = 1..written /\ later[written] = store'
      /\ \A n \in 1..written - 1 : later[n] = upTo[n]
      /\ later \in [1..written' - 1 -> Conversations]
  BY <1>1, <1>2, <1>4 DEF Histories
<1> HIDE DEF m
<1>7. ASSUME NEW A, Grown(A, upTo) PROVE Grown(A, later)
  BY <1>1, <1>6, <1>7, Remembered
<1>8. Grown(store', later)
  <2> SUFFICES ASSUME NEW i \in 1..Len(store')
               PROVE  store'[i].id \in DOMAIN later /\ later[store'[i].id] = SubSeq(store', 1, i)
    BY <1>4 DEF Grown
  <2>1. CASE i = Len(store) + 1
    <3>1. store'[i].id = written
      BY <1>4, <1>5, <2>1
    <3>2. SubSeq(store', 1, i) = store'
      BY <1>4, <2>1, SubSeqFull DEF Conversations
    <3> QED BY <1>1, <1>6, <3>1, <3>2
  <2>2. CASE i \in 1..Len(store)
    <3>1. store'[i] = store[i] /\ Grown(store, later)
      BY <1>1, <1>4, <1>7, <2>2
    <3>2. store[i].id \in DOMAIN later /\ later[store[i].id] = SubSeq(store, 1, i)
      BY <2>2, <3>1 DEF Grown
    <3>3. SubSeq(store, 1, i) = SubSeq(store', 1, i)
      <4>1. /\ SubSeq(store, 1, i) \in Seq(StoredMessages) /\ Len(SubSeq(store, 1, i)) = i
            /\ \A j \in 1..i : SubSeq(store, 1, i)[j] = store[j]
        BY <1>1, <2>2, PrefixOf DEF Conversations
      <4>2. /\ SubSeq(store', 1, i) \in Seq(StoredMessages) /\ Len(SubSeq(store', 1, i)) = i
            /\ \A j \in 1..i : SubSeq(store', 1, i)[j] = store'[j]
        <5>1. i \in 0..Len(store')
          BY <1>1, <1>4
        <5> QED BY <1>4, <5>1, PrefixOf DEF Conversations
      <4>3. \A j \in 1..i : store[j] = store'[j]
        BY <1>1, <1>4, <2>2
      <4> QED BY <4>1, <4>2, <4>3, SeqEqual
    <3> QED BY <3>1, <3>2, <3>3
  <2>3. Len(store') = Len(store) + 1
    BY <1>4
  <2>4. i = Len(store) + 1 \/ i \in 1..Len(store)
    BY <1>1, <2>3
  <2> QED BY <2>1, <2>2, <2>4
<1>9. Written(later, written')
  <2>1. ASSUME NEW n \in 1..written - 1
        PROVE  Grown(later[n], later) /\ later[n] # <<>> /\ later[n][Len(later[n])].id = n
    BY <1>1, <1>6, <1>7 DEF Written
  <2>2. Grown(later[written], later) /\ later[written] # <<>> /\ later[written][Len(later[written])].id = written
    BY <1>4, <1>5, <1>6, <1>8
  <2>3. \A n \in 1..written' - 1 : n = written \/ n \in 1..written - 1
    BY <1>1, <1>2
  <2> QED BY <1>6, <2>1, <2>2, <2>3 DEF Written, Histories
<1>10. Rolling!Ids(store') \subseteq Rolling!Ids(store) \cup {written}
  BY <1>1, <1>4, <1>5 DEF Rolling!Ids, Conversations
<1>11. ASSUME NEW x, Sound(x, upTo, written, store) PROVE Sound(x, later, written', store')
  <2>1. x \in Recap(written') /\ x \in Recap(written)
    BY <1>1, <1>2, <1>11 DEF Sound, Recap
  <2>2. ASSUME Whole(x, upTo, written) PROVE Whole(x, later, written')
    <3>1. CASE x.told = {} /\ x.covers = 0
      BY <3>1 DEF Whole
    <3>2. ASSUME NEW n \in 1..written - 1,
                 upTo[n][Len(upTo[n])].role = "character", x.told = Rolling!Ids(upTo[n]),
                 x.covers = Rolling!TurnsBefore(upTo[n], Len(upTo[n]))
          PROVE  Whole(x, later, written')
      <4>1. later[n] = upTo[n] /\ n \in 1..written' - 1
        BY <1>1, <1>2, <1>6
      <4>2. /\ later[n][Len(later[n])].role = "character" /\ x.told = Rolling!Ids(later[n])
            /\ x.covers = Rolling!TurnsBefore(later[n], Len(later[n]))
        BY <3>2, <4>1
      <4> QED BY <4>1, <4>2 DEF Whole
    <3> QED BY <2>2, <3>1, <3>2 DEF Whole
  <2>3. ASSUME Outlived(x, store) PROVE Outlived(x, store')
    <3>1. PICK n \in x.told : n \notin Rolling!Ids(store)
      BY <2>3 DEF Outlived
    <3>2. n # written
      BY <1>1, <2>1, <3>1 DEF Recap
    <3> QED BY <1>10, <3>1, <3>2 DEF Outlived
  <2> QED BY <1>11, <2>1, <2>2, <2>3 DEF Sound
<1>12. ASSUME NEW v, PassHolds(v, upTo, written, store) PROVE PassHolds(v, later, written', store')
  <2>1. Grown(v.msgs, later) /\ Sound(v.stored, later, written', store') /\ Sound(v.draft, later, written', store')
    BY <1>7, <1>11, <1>12 DEF PassHolds
  <2>2. v \in [msgs : Conversations, stored : Recap(written'), draft : Recap(written')]
    BY <1>12, <2>1 DEF PassHolds, Sound
  <2> QED BY <1>12, <2>1, <2>2 DEF PassHolds
<1>13. RollingInv(later)'
  <2>1. Sound(recap', later, written', store')
    BY <1>11 DEF RollingInv
  <2>2. \A p \in Rolling!Passes : PassHolds(local'[p], later, written', store')
    BY <1>12 DEF RollingInv
  <2>3. written' \in Nat \ {0}
    BY <1>1, <1>2
  <2> QED BY <1>8, <1>9, <2>1, <2>2, <2>3 DEF RollingInv
<1> QED BY <1>13
-----------------------------------------------------------------------------
\* The panel deletes the newest message: what was deleted before stays so.
LEMMA PeelNext ==
  ASSUME NEW upTo, RollingInv(upTo), Rolling!Peel
  PROVE  RollingInv(upTo)'
<1> DEFINE n == Len(store) - 1
<1>1. /\ store \in Conversations /\ Len(store) \in Nat \ {0} /\ Grown(store, upTo)
      /\ store' = SubSeq(store, 1, n)
      /\ UNCHANGED <<recap, passAt, local, written>>
  BY EmptySeq DEF RollingInv, Grown, Conversations, Rolling!Peel, Rolling!Front
<1>2. n \in 0..Len(store) /\ n \in Nat
  BY <1>1
<1>3. /\ store' \in Conversations /\ Len(store') = n
      /\ \A j \in 1..n : store'[j] = store[j]
  BY <1>1, <1>2, PrefixOf
<1> HIDE DEF n
<1>4. Grown(store', upTo)
  <2> SUFFICES ASSUME NEW i \in 1..n
               PROVE  store'[i].id \in DOMAIN upTo /\ upTo[store'[i].id] = SubSeq(store', 1, i)
    BY <1>3 DEF Grown
  <2>1. i \in 1..Len(store) /\ i \in 0..Len(store) /\ i \in 0..Len(store')
    BY <1>1, <1>2, <1>3
  <2>2. store[i].id \in DOMAIN upTo /\ upTo[store[i].id] = SubSeq(store, 1, i)
    BY <1>1, <2>1 DEF Grown
  <2>3. SubSeq(store, 1, i) = SubSeq(store', 1, i)
    <3>1. /\ SubSeq(store, 1, i) \in Seq(StoredMessages) /\ Len(SubSeq(store, 1, i)) = i
          /\ \A j \in 1..i : SubSeq(store, 1, i)[j] = store[j]
      BY <1>1, <2>1, PrefixOf DEF Conversations
    <3>2. /\ SubSeq(store', 1, i) \in Seq(StoredMessages) /\ Len(SubSeq(store', 1, i)) = i
          /\ \A j \in 1..i : SubSeq(store', 1, i)[j] = store'[j]
      BY <1>3, <2>1, PrefixOf DEF Conversations
    <3>3. \A j \in 1..i : store[j] = store'[j]
      BY <1>2, <1>3
    <3> QED BY <3>1, <3>2, <3>3, SeqEqual
  <2> QED BY <1>3, <2>2, <2>3
<1>5. Rolling!Ids(store') \subseteq Rolling!Ids(store)
  BY <1>1, <1>2, <1>3 DEF Rolling!Ids, Conversations
<1>6. ASSUME NEW x, Sound(x, upTo, written, store) PROVE Sound(x, upTo, written, store')
  BY <1>5, <1>6 DEF Sound, Outlived
<1>7. ASSUME NEW v, PassHolds(v, upTo, written, store) PROVE PassHolds(v, upTo, written, store')
  BY <1>6, <1>7 DEF PassHolds
<1>8. Sound(recap, upTo, written, store')
  BY <1>6 DEF RollingInv
<1>9. \A p \in Rolling!Passes : PassHolds(local[p], upTo, written, store')
  BY <1>7 DEF RollingInv
<1> QED BY <1>1, <1>4, <1>8, <1>9 DEF RollingInv

\* A pass goes on with what it may hold.
LEMMA PassGoes ==
  ASSUME NEW upTo, RollingInv(upTo), NEW p \in Rolling!Passes, NEW v, PassHolds(v, upTo, written, store),
         NEW where \in {"idle", "look", "summarize", "condense", "save"}, Rolling!Goto(p, where, v),
         where = "summarize" => Rolling!FoldNow(v.msgs, v.stored.covers),
         Sound(recap', upTo, written, store), store' = store, written' = written
  PROVE  RollingInv(upTo)'
<1>1. /\ passAt' \in [Rolling!Passes -> {"idle", "look", "summarize", "condense", "save"}]
      /\ DOMAIN local' = Rolling!Passes
  BY DEF RollingInv, Rolling!Goto
<1>2. ASSUME NEW q \in Rolling!Passes
      PROVE  /\ PassHolds(local'[q], upTo, written, store)
             /\ passAt'[q] = "summarize" => Rolling!FoldNow(local'[q].msgs, local'[q].stored.covers)
  <2>1. CASE q = p
    <3>1. local'[q] = v /\ passAt'[q] = where
      BY <2>1 DEF RollingInv, Rolling!Goto
    <3> QED BY <3>1
  <2>2. CASE q # p
    <3>1. local'[q] = local[q] /\ passAt'[q] = passAt[q]
      BY <2>2 DEF RollingInv, Rolling!Goto
    <3> QED BY <3>1 DEF RollingInv
  <2> QED BY <2>1, <2>2
<1> QED BY <1>1, <1>2 DEF RollingInv

\* A pass that holds nothing holds what it may.
LEMMA HoldsNothing ==
  ASSUME NEW upTo, NEW w \in Nat \ {0}, NEW S
  PROVE  Sound(Rolling!NoRecap, upTo, w, S) /\ PassHolds(Rolling!NoLocals, upTo, w, S)
<1>1. <<>> \in Conversations /\ Len(<<>>) = 0
  BY EmptySeq DEF Conversations
<1>2. Grown(<<>>, upTo)
  BY <1>1 DEF Grown
<1>3. Rolling!NoRecap \in Recap(w)
  BY DEF Rolling!NoRecap, Recap
<1>4. Sound(Rolling!NoRecap, upTo, w, S)
  BY <1>3 DEF Sound, Whole, Rolling!NoRecap
<1>5. Rolling!NoRecap.covers <= Rolling!NoRecap.covers
  BY DEF Rolling!NoRecap
<1> QED BY <1>1, <1>2, <1>3, <1>4, <1>5 DEF PassHolds, Rolling!NoLocals

LEMMA EndsPass ==
  ASSUME NEW upTo, RollingInv(upTo), NEW p \in Rolling!Passes, Rolling!End(p),
         Sound(recap', upTo, written, store), store' = store, written' = written
  PROVE  RollingInv(upTo)'
<1>1. written \in Nat \ {0}
  BY DEF RollingInv
<1> QED BY <1>1, PassGoes, HoldsNothing DEF Rolling!End

\* What a step of a pass leaves: the recap only moves in a save, to the draft.
LEMMA PassNext ==
  ASSUME NEW upTo, RollingInv(upTo), NEW p \in Rolling!Passes, Rolling!PassStep(p)
  PROVE  RollingInv(upTo)'
<1> DEFINE v == local[p]
<1>1. /\ PassHolds(v, upTo, written, store) /\ Sound(recap, upTo, written, store)
      /\ written \in Nat \ {0} /\ Grown(store, upTo) /\ Written(upTo, written)
      /\ v \in [msgs : Conversations, stored : Recap(written), draft : Recap(written)]
  BY DEF RollingInv, PassHolds
<1> HIDE DEF v
<1>2. CASE Rolling!Load(p)
  <2>1. CASE store = <<>>
    <3>1. UNCHANGED <<store, recap, passAt, local, written>>
      BY <1>2, <2>1 DEF Rolling!Load
    <3> QED BY <3>1 DEF RollingInv
  <2>2. CASE store # <<>>
    <3> DEFINE u == [Rolling!NoLocals EXCEPT !.msgs = store]
    <3>1. Rolling!Goto(p, "look", u) /\ store' = store /\ recap' = recap /\ written' = written
      BY <1>2, <2>2 DEF Rolling!Load
    <3>2. u = [msgs |-> store, stored |-> Rolling!NoRecap, draft |-> Rolling!NoRecap]
      BY DEF Rolling!NoLocals
    <3>3. PassHolds(Rolling!NoLocals, upTo, written, store)
      BY <1>1, HoldsNothing
    <3>4. PassHolds(u, upTo, written, store)
      BY <1>1, <3>2, <3>3 DEF PassHolds, Rolling!NoLocals, Grown
    <3> HIDE DEF u
    <3> QED BY <1>1, <3>1, <3>4, PassGoes
  <2> QED BY <2>1, <2>2
<1>3. CASE Rolling!Look(p)
  <2> DEFINE u == [msgs |-> local[p].msgs, stored |-> recap, draft |-> recap]
  <2>1. u = [msgs |-> v.msgs, stored |-> recap, draft |-> recap]
    BY DEF v
  <2>2. PassHolds(u, upTo, written, store)
    <3>1. recap \in Recap(written) /\ recap.covers <= recap.covers
      BY <1>1 DEF Sound, Recap
    <3> QED BY <1>1, <2>1, <3>1 DEF PassHolds
  <2>3. store' = store /\ recap' = recap /\ written' = written
    BY <1>3 DEF Rolling!Look
  <2>4. \/ Rolling!Goto(p, "summarize", u) /\ Rolling!FoldNow(u.msgs, u.stored.covers)
        \/ Rolling!Goto(p, "condense", u)
        \/ Rolling!End(p)
    BY <1>3, <2>1 DEF Rolling!Look
  <2> HIDE DEF u
  <2> QED BY <1>1, <2>2, <2>3, <2>4, PassGoes, EndsPass
<1>4. ASSUME NEW long \in BOOLEAN, Rolling!Summarize(p, long) PROVE RollingInv(upTo)'
  <2> DEFINE u == [local[p] EXCEPT !.draft = Rolling!Folded(local[p], long)]
  <2>1. u = [msgs |-> v.msgs, stored |-> v.stored, draft |-> Rolling!Folded(v, long)]
    BY <1>1 DEF v
  <2>2. Rolling!FoldNow(v.msgs, v.stored.covers)
    BY <1>4 DEF RollingInv, Rolling!Summarize, v
  <2>3. /\ Sound(Rolling!Folded(v, long), upTo, written, store)
        /\ v.stored.covers <= Rolling!Folded(v, long).covers
        /\ v.stored.told \subseteq Rolling!Folded(v, long).told
    BY <1>1, <2>2, FoldSound
  <2>4. PassHolds(u, upTo, written, store)
    <3>1. Rolling!Folded(v, long) \in Recap(written)
      BY <2>3 DEF Sound
    <3> HIDE DEF u
    <3> QED BY <1>1, <2>1, <2>3, <3>1 DEF PassHolds
  <2>5. store' = store /\ recap' = recap /\ written' = written
    BY <1>4 DEF Rolling!Summarize
  <2>6. Rolling!Goto(p, "condense", u) \/ Rolling!Goto(p, "save", u)
    BY <1>4 DEF Rolling!Summarize
  <2> HIDE DEF u
  <2> QED BY <1>1, <2>4, <2>5, <2>6, PassGoes
<1>5. ASSUME NEW succeeds \in BOOLEAN, NEW long \in BOOLEAN, Rolling!Condense(p, succeeds, long) PROVE RollingInv(upTo)'
  <2> DEFINE u == [local[p] EXCEPT !.draft.long = long]
  <2>1. u = [msgs |-> v.msgs, stored |-> v.stored,
             draft |-> [told |-> v.draft.told, covers |-> v.draft.covers, long |-> long]]
    BY <1>1 DEF v, Recap
  <2>2. PassHolds(u, upTo, written, store)
    <3>1. u.draft \in Recap(written) /\ Sound(u.draft, upTo, written, store)
      BY SMTT(30), <1>1, <2>1 DEF PassHolds, Recap, Sound, Whole, Outlived
    <3> HIDE DEF u
    <3> QED BY <1>1, <2>1, <3>1 DEF PassHolds
  <2>3. store' = store /\ recap' = recap /\ written' = written
    BY <1>5 DEF Rolling!Condense
  <2>4. Rolling!Goto(p, "save", u) \/ Rolling!Goto(p, "save", v) \/ Rolling!End(p)
    BY <1>5 DEF Rolling!Condense, v
  <2> HIDE DEF u
  <2> QED BY <1>1, <2>2, <2>3, <2>4, PassGoes, EndsPass
<1>6. CASE Rolling!Save(p)
  <2>1. recap' = v.draft /\ Rolling!End(p) /\ store' = store /\ written' = written
    BY <1>6 DEF Rolling!Save, v
  <2>2. Sound(recap', upTo, written, store)
    BY <1>1, <2>1 DEF PassHolds
  <2> QED BY <2>1, <2>2, EndsPass
<1>7. CASE Rolling!FailPass(p)
  <2>1. Rolling!End(p) /\ store' = store /\ written' = written /\ recap' = recap
    BY <1>7 DEF Rolling!FailPass
  <2> QED BY <1>1, <2>1, EndsPass
<1> QED BY <1>2, <1>3, <1>4, <1>5, <1>6, <1>7 DEF Rolling!PassStep

\* The process dies: the passes hold nothing.
LEMMA DeathNext ==
  ASSUME NEW upTo, RollingInv(upTo), Rolling!Crash
  PROVE  RollingInv(upTo)'
<1>1. /\ \A p \in Rolling!Passes : passAt'[p] = "idle" /\ local'[p] = Rolling!NoLocals
      /\ passAt' \in [Rolling!Passes -> {"idle", "look", "summarize", "condense", "save"}]
      /\ DOMAIN local' = Rolling!Passes
      /\ UNCHANGED <<store, recap, written>>
  BY DEF Rolling!Crash
<1>2. \A p \in Rolling!Passes : PassHolds(local'[p], upTo, written, store)
  BY <1>1, HoldsNothing DEF RollingInv
<1> QED BY <1>1, <1>2 DEF RollingInv

RollingInvariant == \E upTo : RollingInv(upTo)

\* No step undoes the invariant, and a recap goes back only under a pass that was overtaken.
LEMMA RollingNext ==
  ASSUME RollingInvariant, [Next]_vars
  PROVE  /\ RollingInvariant'
         /\ \/ recap.covers <= recap'.covers /\ recap.told \subseteq recap'.told
            \/ \E p \in Rolling!Passes : Rolling!Overtaken(p)
<1> PICK upTo : RollingInv(upTo)
  BY DEF RollingInvariant
<1>0. recap' = recap => recap.covers <= recap'.covers /\ recap.told \subseteq recap'.told
  BY DEF RollingInv, Sound, Recap
<1>1. CASE UNCHANGED RollingVars
  <2>1. RollingInv(upTo)'
    BY <1>1 DEF RollingVars, RollingInv
  <2> QED BY <1>0, <1>1, <2>1 DEF RollingVars, RollingInvariant
<1>2. CASE Rolling!Next
  <2>1. ASSUME NEW size \in Costs, Rolling!PlayerWrites(size) \/ Rolling!NarratorWrites(size)
        PROVE  RollingInvariant' /\ recap' = recap
    <3>1. /\ Rolling!Write("user", size) \/ Rolling!Write("character", size)
          /\ recap' = recap /\ local' = local /\ passAt' = passAt
      BY <2>1 DEF Rolling!PlayerWrites, Rolling!NarratorWrites
    <3>2. PICK later : RollingInv(later)'
      BY <3>1, WrittenNext
    <3> QED BY <3>1, <3>2 DEF RollingInvariant
  <2>2. CASE Rolling!Peel
    <3>1. RollingInv(upTo)' /\ recap' = recap
      BY <2>2, PeelNext DEF Rolling!Peel
    <3> QED BY <1>0, <3>1 DEF RollingInvariant
  <2>3. ASSUME NEW p \in Rolling!Passes, Rolling!PassStep(p)
        PROVE  /\ RollingInvariant'
               /\ \/ recap.covers <= recap'.covers /\ recap.told \subseteq recap'.told
                  \/ Rolling!Overtaken(p)
    <3>1. RollingInv(upTo)'
      BY <2>3, PassNext
    <3>2. CASE Rolling!Save(p)
      <4>1. recap' = local[p].draft /\ passAt[p] = "save" /\ passAt'[p] = "idle"
        BY <3>2 DEF RollingInv, Rolling!Save, Rolling!End, Rolling!Goto
      <4>2. local[p].stored.covers <= local[p].draft.covers /\ local[p].stored.told \subseteq local[p].draft.told
        BY DEF RollingInv, PassHolds
      <4> QED BY <3>1, <4>1, <4>2 DEF RollingInvariant, Rolling!Overtaken
    <3>3. CASE ~Rolling!Save(p)
      <4>1. recap' = recap
        BY <2>3, <3>3 DEF Rolling!PassStep, Rolling!Load, Rolling!Look, Rolling!Summarize, Rolling!Condense, Rolling!FailPass
      <4> QED BY <1>0, <3>1, <4>1 DEF RollingInvariant
    <3> QED BY <3>2, <3>3
  <2>4. CASE Rolling!Crash
    <3>1. RollingInv(upTo)' /\ recap' = recap
      BY <2>4, DeathNext DEF Rolling!Crash
    <3> QED BY <1>0, <3>1 DEF RollingInvariant
  <2> QED BY <1>0, <1>2, <2>1, <2>2, <2>3, <2>4 DEF Rolling!Next
<1> QED BY <1>1, <1>2 DEF Next, vars

\* At the start nothing is written.
LEMMA RollingInit == Init => RollingInvariant
<1> SUFFICES ASSUME Init PROVE RollingInvariant
  OBVIOUS
<1>1. /\ store = <<>> /\ recap = Rolling!NoRecap /\ written = 1
      /\ passAt = [p \in Rolling!Passes |-> "idle"] /\ local = [p \in Rolling!Passes |-> Rolling!NoLocals]
  BY DEF Init, Rolling!Init
<1> PICK upTo : upTo = [n \in 1..0 |-> <<>>]
  OBVIOUS
<1>2. Written(upTo, 1)
  BY DEF Written, Histories
<1>3. Grown(<<>>, upTo)
  BY EmptySeq DEF Grown, Conversations
<1>4. Sound(Rolling!NoRecap, upTo, 1, <<>>) /\ PassHolds(Rolling!NoLocals, upTo, 1, <<>>)
  BY HoldsNothing
<1>5. RollingInv(upTo)
  BY <1>1, <1>2, <1>3, <1>4 DEF RollingInv
<1> QED BY <1>5 DEF RollingInvariant

\* A sound recap tells what it covers.
LEMMA SoundTells ==
  ASSUME NEW upTo, RollingInv(upTo), ~Rolling!Deleted
  PROVE  recap.told = Rolling!Ids(SubSeq(store, 1, Rolling!IndexAfterTurn(store, recap.covers)))
<1>1. /\ store \in Conversations /\ Len(store) \in Nat /\ DOMAIN store = 1..Len(store)
      /\ Grown(store, upTo) /\ Written(upTo, written)
  BY DEF RollingInv, Grown, Conversations
<1>2. recap.told \subseteq Rolling!Ids(store)
  BY DEF Rolling!Deleted
<1>3. Whole(recap, upTo, written)
  BY <1>2 DEF RollingInv, Sound, Outlived
<1>4. CASE recap.told = {} /\ recap.covers = 0
  <2>1. Rolling!IndexAfterTurn(store, recap.covers) = 0
    BY <1>4 DEF Rolling!IndexAfterTurn
  <2>2. 1 \in 1..Len(store) + 1 /\ 0 \in 0..Len(store)
    BY <1>1
  <2>3. Rolling!Ids(SubSeq(store, 1, 0)) = {store[j].id : j \in 1..0}
    BY <1>1, <2>2, IdsOf
  <2>4. {store[j].id : j \in 1..0} = {}
    OBVIOUS
  <2> QED BY <1>4, <2>1, <2>3, <2>4
<1>5. ASSUME NEW n \in 1..written - 1, upTo[n][Len(upTo[n])].role = "character",
             recap.told = Rolling!Ids(upTo[n]), recap.covers = Rolling!TurnsBefore(upTo[n], Len(upTo[n]))
      PROVE  recap.told = Rolling!Ids(SubSeq(store, 1, Rolling!IndexAfterTurn(store, recap.covers)))
  <2>1. n \in recap.told
    <3>1. Grown(upTo[n], upTo) /\ upTo[n] # <<>> /\ upTo[n][Len(upTo[n])].id = n
      BY <1>1 DEF Written
    <3>2. upTo[n] \in Conversations /\ Len(upTo[n]) \in 1..Len(upTo[n]) /\ DOMAIN upTo[n] = 1..Len(upTo[n])
      BY <3>1, EmptySeq DEF Grown, Conversations
    <3> QED BY <1>5, <3>1, <3>2 DEF Rolling!Ids
  <2>2. PICK i \in 1..Len(store) : store[i].id = n
    BY <1>1, <1>2, <2>1 DEF Rolling!Ids
  <2>3. upTo[n] = SubSeq(store, 1, i) /\ i \in 0..Len(store) /\ i \in 1..i
    BY <1>1, <2>2 DEF Grown
  <2>4. Len(SubSeq(store, 1, i)) = i /\ SubSeq(store, 1, i)[i] = store[i]
        /\ Rolling!TurnsBefore(SubSeq(store, 1, i), i) = Rolling!TurnsBefore(store, i)
    BY <1>1, <2>3, PrefixOf
  <2>5. store[i].role = "character" /\ recap.covers = Rolling!TurnsBefore(store, i)
    BY <1>5, <2>3, <2>4
  <2>6. Rolling!IndexAfterTurn(store, recap.covers) = i
    BY <1>1, <2>5, StoppedAt
  <2> QED BY <1>5, <2>3, <2>6
<1> QED BY <1>3, <1>4, <1>5 DEF Whole

\* The recap tells exactly the turns it says it covers, whatever passes overlap, fail, die or
\* are overtaken, as long as no message it tells of was deleted: fold of
\* rolling_summary_source.py, for any budget and shares, any prices and any number of
\* refreshes and messages.
THEOREM RecapTells == Spec => []RecapTellsWhatItCovers
<1>1. RollingInvariant => RecapTellsWhatItCovers
  BY SoundTells DEF RollingInvariant, RecapTellsWhatItCovers, Rolling!RecapTellsWhatItCovers
<1>2. RollingInvariant /\ [Next]_vars => RollingInvariant'
  BY RollingNext
<1> QED BY <1>1, <1>2, RollingInit, PTL DEF Spec

\* No pass unwrites what an earlier one folded, unless another pass saved since it read the
\* recap.
THEOREM RecapKept == Spec => RecapNeverForgets
<1>1. RollingInvariant /\ [Next]_vars => RollingInvariant'
  BY RollingNext
<1>2. RollingInvariant /\ [Next]_vars =>
        [\/ recap.covers <= recap'.covers /\ recap.told \subseteq recap'.told
         \/ \E p \in Rolling!Passes : Rolling!Overtaken(p)]_(Rolling!vars)
  BY RollingNext
<1> QED BY <1>1, <1>2, RollingInit, PTL DEF Spec, RecapNeverForgets, Rolling!RecapNeverForgets
-----------------------------------------------------------------------------
(* MemoryKeepsTheStory of MemoryRecall.                                    *)

\* What a sum is built of.
LEMMA SumSteps ==
  ASSUME NEW s, s \in Seq(Nat)
  PROVE  \E f \in [0..Len(s) -> Nat] :
           /\ f[0] = 0 /\ \A i \in 1..Len(s) : f[i] = f[i - 1] + s[i]
           /\ Recall!SumOf(s) = f[Len(s)]
<1>1. PICK n : n \in Nat /\ n = Len(s) /\ \A i \in 1..n : s[i] \in Nat
  OBVIOUS
<1> DEFINE next == [i \in 1..n |-> [x \in Nat |-> x + s[i]]]
<1>2. PICK g \in [0..n -> Nat] : g[0] = 0 /\ \A i \in 1..n : g[i] = next[i][g[i - 1]]
  <2>1. next \in [1..n -> [Nat -> Nat]]
    BY <1>1
  <2> HIDE DEF next
  <2>2. PICK S, none, h, m : S = Nat /\ none = 0 /\ h = next /\ m = n
    OBVIOUS
  <2>3. none \in S
    BY <2>2
  <2>4. h \in [1..m -> [S -> S]]
    BY <2>1, <2>2
  <2>5. m \in Nat
    BY <1>1, <2>2
  <2>6. \E g \in [0..m -> S] : g[0] = none /\ \A i \in 1..m : g[i] = h[i][g[i - 1]]
    BY ONLY <2>3, <2>4, <2>5, Recursion
  <2> QED BY <2>2, <2>6
<1>3. \A i \in 1..n : g[i] = g[i - 1] + s[i]
  <2> TAKE i \in 1..n
  <2>1. g[i - 1] \in Nat
    BY <1>1, <1>2
  <2> QED BY <1>2, <2>1
<1> HIDE DEF next
<1> DEFINE upTo == CHOOSE upTo : upTo = [i \in 0..n |-> IF i = 0 THEN 0 ELSE upTo[i - 1] + s[i]]
<1>4. g = [i \in 0..n |-> IF i = 0 THEN 0 ELSE g[i - 1] + s[i]]
  <2>1. ASSUME NEW i \in 0..n PROVE g[i] = IF i = 0 THEN 0 ELSE g[i - 1] + s[i]
    <3>1. CASE i = 0
      BY <1>2, <3>1
    <3>2. CASE i # 0
      BY <1>3, <3>2
    <3> QED BY <3>1, <3>2
  <2> QED BY <1>2, <2>1
<1>5. upTo = [i \in 0..n |-> IF i = 0 THEN 0 ELSE upTo[i - 1] + s[i]]
  BY <1>4
<1>6. Recall!SumOf(s) = upTo[n]
  BY <1>1 DEF Recall!SumOf
<1> HIDE DEF upTo
<1> DEFINE P == {m \in Nat : m <= n => upTo[m] = g[m]}
<1>7. 0 \in P
  BY <1>2, <1>5
<1>8. ASSUME NEW m \in Nat, m \in P PROVE m + 1 \in P
  BY <1>1, <1>3, <1>5, <1>8
<1>9. Nat \subseteq P
  <2> HIDE DEF P
  <2> QED BY <1>7, <1>8, Climb
<1>10. upTo[n] = g[n]
  BY <1>1, <1>9
<1> QED BY <1>1, <1>2, <1>3, <1>6, <1>10

LEMMA SumAppend ==
  ASSUME NEW s \in Seq(Nat), NEW x \in Nat
  PROVE  Recall!SumOf(s) \in Nat /\ Recall!SumOf(Append(s, x)) = Recall!SumOf(s) + x
<1>1. PICK n \in Nat : n = Len(s)
  OBVIOUS
<1>0. PICK t : t = Append(s, x)
  OBVIOUS
<1>2. /\ t = Append(s, x) /\ t \in Seq(Nat) /\ Len(t) = n + 1 /\ t[n + 1] = x
      /\ \A i \in 1..n : t[i] = s[i]
  BY <1>0, <1>1
<1>3. PICK f \in [0..n -> Nat] : /\ f[0] = 0 /\ \A i \in 1..n : f[i] = f[i - 1] + s[i]
                                 /\ Recall!SumOf(s) = f[n]
  BY <1>1, SumSteps
<1>4. PICK g \in [0..n + 1 -> Nat] : /\ g[0] = 0 /\ \A i \in 1..n + 1 : g[i] = g[i - 1] + t[i]
                                     /\ Recall!SumOf(t) = g[n + 1]
  <2>1. \E g \in [0..Len(t) -> Nat] : /\ g[0] = 0 /\ \A i \in 1..Len(t) : g[i] = g[i - 1] + t[i]
                                      /\ Recall!SumOf(t) = g[Len(t)]
    BY <1>2, SumSteps
  <2> QED BY <1>2, <2>1
<1> DEFINE P == {m \in Nat : m <= n => g[m] = f[m]}
<1>5. 0 \in P
  BY <1>3, <1>4
<1>6. ASSUME NEW m \in Nat, m \in P PROVE m + 1 \in P
  <2> SUFFICES ASSUME m + 1 <= n PROVE g[m + 1] = f[m + 1]
    OBVIOUS
  <2>1. m + 1 \in 1..n /\ m + 1 \in 1..n + 1 /\ (m + 1) - 1 = m /\ g[m] = f[m]
    BY <1>6
  <2> QED BY <1>2, <1>3, <1>4, <2>1
<1>7. Nat \subseteq P
  <2> HIDE DEF P
  <2> QED BY <1>5, <1>6, Climb
<1>8. g[n] = f[n]
  BY <1>7
<1>9. g[n + 1] = g[n] + x
  <2>1. n + 1 \in 1..n + 1 /\ (n + 1) - 1 = n
    OBVIOUS
  <2> QED BY <1>2, <1>4, <2>1
<1> QED BY <1>2, <1>3, <1>4, <1>8, <1>9

LEMMA SumEmpty == Recall!SumOf(<<>>) = 0
<1>1. PICK s : s = <<>> /\ s \in Seq(Nat) /\ Len(s) = 0
  BY EmptySeq
<1>2. Recall!SumOf(s) = 0
  BY <1>1, SumSteps
<1> QED BY <1>1, <1>2

\* What a layer recalls.
RecallLayers == {"recent_window", "rolling_summary", "lorebook"}

RecalledFragments == [layer : RecallLayers, tokens : Nat, messages : Seq(Nat)]

LEMMA TokensAppend ==
  ASSUME NEW k \in Seq(RecalledFragments), NEW f \in RecalledFragments
  PROVE  Recall!Tokens(k) \in Nat /\ Recall!Tokens(Append(k, f)) = Recall!Tokens(k) + f.tokens
<1>1. PICK n \in Nat : n = Len(k) /\ DOMAIN k = 1..n
  OBVIOUS
<1>2. PICK s : s = [i \in 1..n |-> k[i].tokens]
  OBVIOUS
<1>3. f.tokens \in Nat
  BY DEF RecalledFragments
<1>4. s \in Seq(Nat) /\ Len(s) = n
  <2>1. ASSUME NEW i \in 1..n PROVE k[i].tokens \in Nat
    <3>1. k[i] \in RecalledFragments
      BY <1>1
    <3> QED BY <3>1 DEF RecalledFragments
  <2>2. s \in [1..n -> Nat]
    BY <1>2, <2>1
  <2> QED BY <2>2
<1>0. PICK t : t = Append(k, f)
  OBVIOUS
<1>5. /\ t = Append(k, f) /\ DOMAIN t = 1..n + 1 /\ t[n + 1] = f
      /\ \A i \in 1..n : t[i] = k[i]
  BY <1>0, <1>1
<1>6. [i \in DOMAIN t |-> t[i].tokens] = Append(s, f.tokens)
  <2>1. PICK u : u = Append(s, f.tokens)
    OBVIOUS
  <2>2. /\ u = [i \in 1..n + 1 |-> u[i]] /\ u[n + 1] = f.tokens /\ \A i \in 1..n : u[i] = s[i]
    BY <1>3, <1>4, <2>1
  <2>3. ASSUME NEW i \in 1..n + 1 PROVE u[i] = t[i].tokens
    <3>1. CASE i = n + 1
      BY <1>5, <2>2, <3>1
    <3>2. CASE i # n + 1
      <4>1. i \in 1..n
        BY <3>2
      <4> QED BY <1>2, <1>5, <2>2, <4>1
    <3> QED BY <3>1, <3>2
  <2>4. u = [i \in 1..n + 1 |-> t[i].tokens]
    BY <2>2, <2>3
  <2> QED BY <1>5, <2>1, <2>4
<1>7. Recall!Tokens(k) = Recall!SumOf(s) /\ Recall!Tokens(t) = Recall!SumOf(Append(s, f.tokens))
  BY <1>1, <1>2, <1>6 DEF Recall!Tokens
<1> QED BY <1>3, <1>4, <1>5, <1>7, SumAppend

LEMMA TokensEmpty == Recall!Tokens(<<>>) = 0
<1>1. [i \in DOMAIN <<>> |-> <<>>[i].tokens] = <<>>
  <2>1. <<>> = [i \in 1..0 |-> 0]
    OBVIOUS
  <2>2. 1..0 = {} /\ DOMAIN <<>> = {}
    OBVIOUS
  <2>3. [i \in {} |-> <<>>[i].tokens] = [i \in {} |-> 0]
    OBVIOUS
  <2> QED BY <2>1, <2>2, <2>3
<1> QED BY <1>1, SumEmpty DEF Recall!Tokens

\* The share of a budget is part of it.
LEMMA ShareOfBudget ==
  ASSUME NEW a \in Nat, NEW r \in 0..100
  PROVE  (a * r) \div 100 \in 0..a
<1>1. PICK p : p = a * r
  OBVIOUS
<1>2. p \in Nat /\ p <= a * 100
  BY <1>1
<1>3. p \div 100 \in Nat /\ p \div 100 <= a
  BY <1>2
<1> QED BY <1>1, <1>3

LEMMA Budgets ==
  ASSUME reserved \in Nat
  PROVE  /\ Recall!Available \in Nat /\ Recall!Share \in Nat
         /\ Recall!Share <= Recall!Available
         /\ (reserved >= Room <=> Recall!Available = 0)
<1>1. Room \in Nat /\ RecapShare \in 0..100
  BY PartsAssumption
<1>2. Recall!Available \in Nat /\ (reserved >= Room <=> Recall!Available = 0)
  BY <1>1 DEF Recall!Available
<1>3. Recall!Share \in 0..Recall!Available
  BY <1>1, <1>2, ShareOfBudget DEF Recall!Share
<1> QED BY <1>2, <1>3

\* The fragments are offered one after the other.
LEMMA KeepSteps ==
  ASSUME NEW s, NEW n \in Nat, Len(s) = n
  PROVE  \E f : /\ f[0] = <<>>
                /\ \A i \in 1..n : f[i] = Recall!KeepNext(f[i - 1], s[i])
                /\ Recall!Keep(s) = f[n]
<1> DEFINE Solves(f, m) == f = [i \in 0..m |-> IF i = 0 THEN <<>> ELSE Recall!KeepNext(f[i - 1], s[i])]
           P == {m \in Nat : \E f : Solves(f, m)}
<1>1. 0 \in P
  <2>1. Solves([i \in 0..0 |-> <<>>], 0)
    OBVIOUS
  <2> QED BY <2>1
<1>2. ASSUME NEW m \in Nat, m \in P PROVE m + 1 \in P
  <2>1. PICK g : Solves(g, m)
    BY <1>2
  <2>2. PICK f : f = [i \in 0..m + 1 |-> IF i = m + 1 THEN Recall!KeepNext(g[m], s[m + 1]) ELSE g[i]]
    OBVIOUS
  <2>3. ASSUME NEW i \in 0..m + 1
        PROVE  f[i] = IF i = 0 THEN <<>> ELSE Recall!KeepNext(f[i - 1], s[i])
    <3>1. CASE i = m + 1
      <4>1. m \in 0..m + 1 /\ m # m + 1 /\ i - 1 = m /\ i # 0
        BY <3>1
      <4> QED BY <2>2, <3>1, <4>1
    <3>2. CASE i = 0
      <4>1. i # m + 1 /\ i \in 0..m
        BY <3>2
      <4> QED BY <2>1, <2>2, <3>2, <4>1
    <3>3. CASE i \in 1..m
      <4>1. i # m + 1 /\ i \in 0..m /\ i # 0 /\ i - 1 \in 0..m + 1 /\ i - 1 # m + 1
        BY <3>3
      <4>2. f[i] = g[i] /\ f[i - 1] = g[i - 1]
        BY <2>2, <4>1
      <4> QED BY <2>1, <4>1, <4>2
    <3> QED BY <3>1, <3>2, <3>3
  <2>4. Solves(f, m + 1)
    BY <2>2, <2>3
  <2> HIDE DEF Solves
  <2> QED BY <2>4
<1>3. \E f : Solves(f, n)
  <2>1. n \in P
    <3> HIDE DEF P
    <3> QED BY <1>1, <1>2, Climb
  <2> QED BY <2>1
<1> DEFINE upTo == CHOOSE upTo : upTo = [i \in 0..n |-> IF i = 0 THEN <<>> ELSE Recall!KeepNext(upTo[i - 1], s[i])]
<1>4. Recall!Keep(s) = upTo[n]
  BY DEF Recall!Keep
<1>5. upTo = [i \in 0..n |-> IF i = 0 THEN <<>> ELSE Recall!KeepNext(upTo[i - 1], s[i])]
  BY <1>3
<1> HIDE DEF upTo
<1>6. /\ upTo[0] = <<>>
      /\ \A i \in 1..n : upTo[i] = Recall!KeepNext(upTo[i - 1], s[i])
  <2>1. 0 \in 0..n /\ \A i \in 1..n : i \in 0..n /\ i # 0
    OBVIOUS
  <2>2. upTo[0] = <<>>
    BY ONLY <1>5, <2>1
  <2> QED BY <1>5, <2>1, <2>2
<1> QED BY <1>4, <1>6

\* What has been kept of fragments, with the two of highest priority in it if there was room.
HeldOf(k, s, i) ==
  /\ k \in Seq(RecalledFragments) /\ Recall!Tokens(k) <= Recall!Available
  /\ \A p \in DOMAIN k : \E j \in DOMAIN s : k[p] = s[j]
  /\ i = 0 => k = <<>>
  /\ i >= 1 /\ s[1].tokens <= Recall!Available => k # <<>> /\ k[1] = s[1]
  /\ i = 1 /\ s[1].tokens <= Recall!Available => Recall!Tokens(k) = s[1].tokens /\ Len(k) = 1
  /\ i >= 2 /\ s[1].tokens + s[2].tokens <= Recall!Available => Len(k) >= 2 /\ k[2] = s[2]

LEMMA KeptNext ==
  ASSUME NEW s \in Seq(RecalledFragments), NEW i \in Nat, i + 1 \in DOMAIN s, NEW k, HeldOf(k, s, i),
         Recall!Available \in Nat
  PROVE  HeldOf(Recall!KeepNext(k, s[i + 1]), s, i + 1)
<1>1. PICK f : f = s[i + 1] /\ f \in RecalledFragments
  OBVIOUS
<1>2. f.tokens \in Nat
  BY <1>1 DEF RecalledFragments
<1>3. k \in Seq(RecalledFragments) /\ \A p \in DOMAIN k : \E j \in DOMAIN s : k[p] = s[j]
  BY DEF HeldOf
<1>4. Recall!Tokens(k) \in Nat /\ Recall!Tokens(k) <= Recall!Available
  BY <1>1, <1>3, TokensAppend DEF HeldOf
<1>5. s[1] \in RecalledFragments /\ s[1].tokens \in Nat
  <2>1. 1 \in DOMAIN s
    OBVIOUS
  <2>2. s[1] \in RecalledFragments
    BY <2>1
  <2> QED BY <2>2 DEF RecalledFragments
<1>6. PICK new : new = Recall!KeepNext(k, f)
  OBVIOUS
<1>7. CASE Recall!Tokens(k) + f.tokens > Recall!Available
  <2>1. new = k
    BY <1>6, <1>7 DEF Recall!KeepNext
  <2>2. i = 0 => s[1].tokens > Recall!Available
    <3> SUFFICES ASSUME i = 0 PROVE s[1].tokens > Recall!Available
      OBVIOUS
    <3>1. k = <<>> /\ f = s[1]
      BY <1>1 DEF HeldOf
    <3>2. Recall!Tokens(k) = 0
      BY <3>1, TokensEmpty
    <3> QED BY <1>5, <1>7, <3>1, <3>2
  <2>3. i = 1 => s[1].tokens + s[2].tokens > Recall!Available
    <3>1. CASE i = 1 /\ s[1].tokens + s[2].tokens <= Recall!Available
      <4>1. f = s[2] /\ s[1].tokens <= Recall!Available
        BY <1>1, <1>2, <1>5, <3>1
      <4>2. Recall!Tokens(k) = s[1].tokens
        BY <3>1, <4>1 DEF HeldOf
      <4> QED BY <1>2, <1>5, <1>7, <3>1, <4>1, <4>2
    <3>2. s[1].tokens + s[2].tokens \in Nat \/ i # 1
      <4>1. i = 1 => f = s[2]
        BY <1>1
      <4> QED BY <1>2, <1>5, <4>1
    <3> QED BY <3>1, <3>2
  <2>4. i = 0 \/ i = 1 \/ i >= 2
    OBVIOUS
  <2>5. i + 1 = 1 => ~(s[1].tokens <= Recall!Available)
    BY <1>5, <2>2
  <2>6. i + 1 >= 1 /\ s[1].tokens <= Recall!Available => k # <<>> /\ k[1] = s[1]
    <3>1. s[1].tokens <= Recall!Available => i >= 1
      BY <1>5, <2>2
    <3> QED BY <3>1 DEF HeldOf
  <2>7. i + 1 >= 2 /\ s[1].tokens + s[2].tokens <= Recall!Available => Len(k) >= 2 /\ k[2] = s[2]
    <3>1. CASE i >= 2
      BY <3>1 DEF HeldOf
    <3>2. CASE i = 1
      <4>1. f = s[2]
        BY <1>1, <3>2
      <4> QED BY <1>2, <1>5, <2>3, <3>2, <4>1
    <3> QED BY <2>4, <3>1, <3>2
  <2>8. HeldOf(k, s, i + 1)
    <3>1. i + 1 # 0
      OBVIOUS
    <3> QED BY <1>3, <1>4, <2>5, <2>6, <2>7, <3>1 DEF HeldOf
  <2> QED BY <1>1, <1>6, <2>1, <2>8
<1>8. CASE ~(Recall!Tokens(k) + f.tokens > Recall!Available)
  <2>1. new = Append(k, f)
    BY <1>6, <1>8 DEF Recall!KeepNext
  <2>2. /\ new \in Seq(RecalledFragments) /\ Len(new) = Len(k) + 1 /\ new[Len(new)] = f
        /\ \A p \in DOMAIN k : p \in DOMAIN new /\ new[p] = k[p]
        /\ \A p \in DOMAIN new : p \in DOMAIN k \/ p = Len(new)
        /\ Len(k) \in Nat /\ (k # <<>> => Len(k) >= 1) /\ (k = <<>> => Len(k) = 0)
        /\ DOMAIN k = 1..Len(k)
    BY <1>1, <1>3, <2>1
  <2>3. Recall!Tokens(new) = Recall!Tokens(k) + f.tokens
    BY <1>1, <1>3, <2>1, TokensAppend
  <2>4. Recall!Tokens(new) <= Recall!Available
    BY <1>2, <1>4, <1>8, <2>3
  <2>5. \A p \in DOMAIN new : \E j \in DOMAIN s : new[p] = s[j]
    BY <1>1, <1>3, <2>2
  <2>6. s[1].tokens <= Recall!Available => new # <<>> /\ new[1] = s[1]
    <3>1. CASE i = 0
      <4>1. k = <<>>
        BY <3>1 DEF HeldOf
      <4>2. Len(new) = 1 /\ new[1] = f /\ f = s[1]
        BY <1>1, <2>2, <3>1, <4>1
      <4> QED BY <2>2, <4>2
    <3>2. CASE i # 0
      <4> SUFFICES ASSUME s[1].tokens <= Recall!Available PROVE new # <<>> /\ new[1] = s[1]
        OBVIOUS
      <4>1. i >= 1
        BY <3>2
      <4>2. k # <<>> /\ k[1] = s[1]
        BY <4>1 DEF HeldOf
      <4>3. 1 \in DOMAIN k
        BY <2>2, <4>2
      <4> QED BY <2>2, <4>2, <4>3
    <3> QED BY <3>1, <3>2
  <2>7. i + 1 = 1 => Recall!Tokens(new) = s[1].tokens /\ Len(new) = 1
    <3> SUFFICES ASSUME i = 0 PROVE Recall!Tokens(new) = s[1].tokens /\ Len(new) = 1
      OBVIOUS
    <3>1. k = <<>> /\ f = s[1]
      BY <1>1 DEF HeldOf
    <3> QED BY <1>2, <2>2, <2>3, <3>1, TokensEmpty
  <2>8. ASSUME i + 1 >= 2, s[1].tokens + s[2].tokens <= Recall!Available
        PROVE  Len(new) >= 2 /\ new[2] = s[2]
    <3>1. CASE i = 1
      <4>1. f = s[2] /\ s[1].tokens <= Recall!Available
        BY <1>1, <1>2, <1>5, <2>8, <3>1
      <4>2. Len(k) = 1
        BY <3>1, <4>1 DEF HeldOf
      <4> QED BY <2>2, <4>1, <4>2
    <3>2. CASE i # 1
      <4>1. i >= 2
        BY <2>8, <3>2
      <4>2. Len(k) >= 2 /\ k[2] = s[2]
        BY <2>8, <4>1 DEF HeldOf
      <4>3. 2 \in DOMAIN k
        BY <2>2, <4>2
      <4> QED BY <2>2, <4>2, <4>3
    <3> QED BY <3>1, <3>2
  <2> QED BY <1>1, <1>6, <2>2, <2>4, <2>5, <2>6, <2>7, <2>8 DEF HeldOf
<1> QED BY <1>7, <1>8

LEMMA KeptOf ==
  ASSUME NEW s \in Seq(RecalledFragments), Recall!Available \in Nat
  PROVE  HeldOf(Recall!Keep(s), s, Len(s))
<1>1. PICK n \in Nat : n = Len(s) /\ DOMAIN s = 1..n
  OBVIOUS
<1>2. PICK f : /\ f[0] = <<>>
               /\ \A i \in 1..n : f[i] = Recall!KeepNext(f[i - 1], s[i])
               /\ Recall!Keep(s) = f[n]
  BY <1>1, KeepSteps
<1> DEFINE P == {m \in Nat : m <= n => HeldOf(f[m], s, m)}
<1>3. 0 \in P
  <2>0. PICK k : k = <<>>
    OBVIOUS
  <2>1. k = <<>> /\ k \in Seq(RecalledFragments) /\ DOMAIN k = {}
    <3>1. DOMAIN <<>> = {}
      OBVIOUS
    <3> QED BY <2>0, <3>1, EmptySeq
  <2>2. Recall!Tokens(k) = 0 /\ 0 <= Recall!Available
    BY <2>1, TokensEmpty
  <2>3. HeldOf(k, s, 0)
    BY <2>1, <2>2 DEF HeldOf
  <2> QED BY <1>2, <2>1, <2>3
<1>4. ASSUME NEW m \in Nat, m \in P PROVE m + 1 \in P
  <2> SUFFICES ASSUME m + 1 <= n PROVE HeldOf(f[m + 1], s, m + 1)
    OBVIOUS
  <2>1. m + 1 \in 1..n /\ (m + 1) - 1 = m /\ HeldOf(f[m], s, m)
    BY <1>4
  <2>2. f[m + 1] = Recall!KeepNext(f[m], s[m + 1])
    BY <1>2, <2>1
  <2> QED BY <1>1, <2>1, <2>2, KeptNext
<1>5. Nat \subseteq P
  <2> HIDE DEF P
  <2> QED BY <1>3, <1>4, Climb
<1>6. HeldOf(f[n], s, n)
  BY <1>5
<1> QED BY <1>1, <1>2, <1>6

-----------------------------------------------------------------------------
(* A turn's recall.                                                        *)

RecallAnswers == RecallLayers \X Seq(RecalledFragments)

\* What a layer that answered may have said.
AnswerMeant(a) ==
  \/ a[1] = "recent_window" /\ a[2] = Recall!Window
  \/ /\ a[1] = "rolling_summary" /\ "rolling_summary" \in enabled
     /\ \/ a[2] = <<>>
        \/ \E cost \in Nat : a[2] = <<Recall!Fragment("rolling_summary", cost, <<>>)>>
  \/ /\ a[1] = "lorebook"
     /\ a[2] \in Seq(RecalledFragments)
     /\ \A p \in DOMAIN a[2] : a[2][p].layer = "lorebook"

RecallTyped ==
  /\ stored \in Seq(Nat) /\ reserved \in Nat
  /\ enabled \subseteq {"rolling_summary", "lorebook"}
  /\ answers \in Seq(RecallAnswers)

\* What is kept of the layers' answers once all of them are in.
Offered ==
  Recall!Recalled("recent_window") \o Recall!Recalled("rolling_summary") \o Recall!Recalled("lorebook")

RecallInv ==
  /\ RecallTyped
  /\ \A i \in DOMAIN answers : AnswerMeant(answers[i])
  /\ step = "cut" => \/ reserved >= Room /\ kept = <<>>
                     \/ Recall!Waiting = {} /\ kept = Recall!Keep(Offered)

\* The window's messages are an end of the story that fits what it is offered.
LEMMA WindowFits ==
  ASSUME RecallTyped
  PROVE  \E w : /\ w = SubSeq(stored, Recall!WindowFrom(Recall!BudgetFor("recent_window")) + 1, Len(stored))
                /\ w \in Seq(Nat)
                /\ Recall!SumOf(w) \in Nat /\ Recall!SumOf(w) <= Recall!BudgetFor("recent_window")
<1>1. PICK n \in Nat : n = Len(stored) /\ stored \in Seq(Nat)
  BY DEF RecallTyped
<1>2. Recall!BudgetFor("recent_window") \in Nat
  <2>1. reserved \in Nat
    BY DEF RecallTyped
  <2> QED BY <2>1, Budgets DEF Recall!BudgetFor
<1>3. PICK b : b = Recall!BudgetFor("recent_window") /\ b \in Nat
  BY <1>2
<1> DEFINE Fits == {i \in 0..n : Recall!SumOf(SubSeq(stored, i + 1, n)) <= b}
<1>4. n \in Fits
  <2>1. SubSeq(stored, n + 1, n) = <<>>
    BY <1>1
  <2>2. Recall!SumOf(SubSeq(stored, n + 1, n)) = 0
    BY <2>1, SumEmpty
  <2> QED BY <1>3, <2>2
<1>5. PICK from : from = Recall!WindowFrom(b)
  OBVIOUS
<1>6. from \in Fits
  <2>1. PICK m \in Fits : \A y \in Fits : m <= y
    <3> HIDE DEF Fits
    <3>1. Fits \subseteq Nat
      BY DEF Fits
    <3> QED BY <1>4, <3>1, NatMin
  <2>2. from = CHOOSE x \in Fits : \A y \in Fits : x <= y
    BY <1>1, <1>5 DEF Recall!WindowFrom, Recall!Least
  <2> HIDE DEF Fits
  <2> QED BY <2>1, <2>2
<1>7. PICK w : w = SubSeq(stored, from + 1, n)
  OBVIOUS
<1>8. w \in Seq(Nat)
  BY <1>1, <1>6, <1>7
<1>9. Recall!SumOf(w) <= b
  BY <1>6, <1>7
<1>10. Recall!SumOf(w) \in Nat
  BY <1>8, SumAppend
<1> QED BY <1>1, <1>3, <1>5, <1>7, <1>8, <1>9, <1>10

LEMMA WindowTyped ==
  ASSUME RecallTyped
  PROVE  Recall!Window \in Seq(RecalledFragments)
<1>1. PICK w : /\ w = SubSeq(stored, Recall!WindowFrom(Recall!BudgetFor("recent_window")) + 1, Len(stored))
               /\ w \in Seq(Nat) /\ Recall!SumOf(w) \in Nat
  BY WindowFits
<1>2. CASE w = <<>>
  BY <1>1, <1>2, EmptySeq DEF Recall!Window
<1>3. CASE w # <<>>
  <2>1. PICK f : f = Recall!Fragment("recent_window", Recall!SumOf(w), w)
    OBVIOUS
  <2>2. f \in RecalledFragments
    <3>1. PICK t \in Nat : t = Recall!SumOf(w)
      BY <1>1
    <3>2. f = [layer |-> "recent_window", tokens |-> t, messages |-> w]
      BY <2>1, <3>1 DEF Recall!Fragment
    <3>3. "recent_window" \in RecallLayers
      BY DEF RecallLayers
    <3> QED BY <1>1, <3>2, <3>3 DEF RecalledFragments
  <2>3. Recall!Window = <<f>>
    BY <1>1, <1>3, <2>1 DEF Recall!Window
  <2> QED BY <2>2, <2>3
<1> QED BY <1>2, <1>3

\* What the layers said, of an answer each.
LEMMA RecalledMeant ==
  ASSUME RecallInv, NEW layer
  PROVE  \/ /\ Recall!Recalled(layer) = <<>>
            /\ \A i \in DOMAIN answers : answers[i][1] # layer
         \/ \E i \in DOMAIN answers : /\ answers[i][1] = layer
                                      /\ Recall!Recalled(layer) = answers[i][2]
                                      /\ AnswerMeant(answers[i])
<1>1. PICK n \in Nat : DOMAIN answers = 1..n
  BY DEF RecallInv, RecallTyped
<1> DEFINE its == {i \in DOMAIN answers : answers[i][1] = layer}
<1>2. CASE its = {}
  BY <1>2 DEF Recall!Recalled
<1>3. CASE its # {}
  <2>1. its \subseteq Nat
    BY <1>1
  <2>2. Recall!Recalled(layer) = answers[CHOOSE x \in its : \A y \in its : x <= y][2]
    BY <1>3 DEF Recall!Recalled, Recall!Least
  <2>3. (CHOOSE x \in its : \A y \in its : x <= y) \in its
    <3> HIDE DEF its
    <3>1. PICK m \in its : \A y \in its : m <= y
      BY <1>3, <2>1, NatMin
    <3> QED BY <3>1
  <2> QED BY <2>2, <2>3 DEF RecallInv
<1> QED BY <1>2, <1>3

\* The answers of a layer, by what it is.
LEMMA RecallSaid ==
  ASSUME RecallInv
  PROVE  /\ Recall!Recalled("recent_window") \in {<<>>, Recall!Window}
         /\ \/ Recall!Recalled("rolling_summary") = <<>>
            \/ /\ "rolling_summary" \in enabled
               /\ \E cost \in Nat : Recall!Recalled("rolling_summary") =
                                      <<Recall!Fragment("rolling_summary", cost, <<>>)>>
         /\ Recall!Recalled("lorebook") \in Seq(RecalledFragments)
         /\ \A p \in DOMAIN Recall!Recalled("lorebook") : Recall!Recalled("lorebook")[p].layer = "lorebook"
<1>1. Recall!Recalled("recent_window") \in {<<>>, Recall!Window}
  BY RecalledMeant DEF AnswerMeant
<1>2. \/ Recall!Recalled("rolling_summary") = <<>>
      \/ /\ "rolling_summary" \in enabled
         /\ \E cost \in Nat : Recall!Recalled("rolling_summary") =
                                <<Recall!Fragment("rolling_summary", cost, <<>>)>>
  <2>1. CASE Recall!Recalled("rolling_summary") # <<>>
    <3>1. PICK i \in DOMAIN answers : /\ answers[i][1] = "rolling_summary"
                                     /\ Recall!Recalled("rolling_summary") = answers[i][2]
                                     /\ AnswerMeant(answers[i])
      BY <2>1, RecalledMeant
    <3>2. PICK a : a = answers[i]
      OBVIOUS
    <3>3. /\ "rolling_summary" \in enabled
          /\ \/ a[2] = <<>>
             \/ \E cost \in Nat : a[2] = <<Recall!Fragment("rolling_summary", cost, <<>>)>>
      BY <3>1, <3>2 DEF AnswerMeant
    <3> QED BY <2>1, <3>1, <3>2, <3>3
  <2> QED BY <2>1
<1>3. PICK its : its = Recall!Recalled("lorebook")
  OBVIOUS
<1>4. its \in Seq(RecalledFragments) /\ \A p \in DOMAIN its : its[p].layer = "lorebook"
  <2>1. CASE its = <<>>
    <3>1. DOMAIN <<>> = {}
      OBVIOUS
    <3> QED BY <2>1, <3>1, EmptySeq
  <2>2. CASE its # <<>>
    BY <1>3, <2>2, RecalledMeant DEF AnswerMeant
  <2> QED BY <2>1, <2>2
<1> QED BY <1>1, <1>2, <1>3, <1>4

\* What is offered, and what is first in it.
MadeUpOf(s, a, b, c) ==
  /\ a \in Seq(RecalledFragments) /\ b \in Seq(RecalledFragments) /\ c \in Seq(RecalledFragments)
  /\ s \in Seq(RecalledFragments)
  /\ Len(s) = Len(a) + Len(b) + Len(c)
  /\ \A j \in DOMAIN a : s[j] = a[j]
  /\ \A j \in DOMAIN b : s[Len(a) + j] = b[j]
  /\ \A j \in DOMAIN s : \/ \E i \in DOMAIN a : s[j] = a[i]
                         \/ \E i \in DOMAIN b : s[j] = b[i]
                         \/ \E i \in DOMAIN c : s[j] = c[i]

LEMMA OfferedFirst ==
  ASSUME RecallInv
  PROVE  \E a, b, c :
           /\ a = Recall!Recalled("recent_window") /\ b = Recall!Recalled("rolling_summary")
           /\ c = Recall!Recalled("lorebook") /\ MadeUpOf(Offered, a, b, c)
<1>1. PICK a, b, c : /\ a = Recall!Recalled("recent_window") /\ b = Recall!Recalled("rolling_summary")
                     /\ c = Recall!Recalled("lorebook")
  OBVIOUS
<1>2. a \in Seq(RecalledFragments)
  <2>1. RecallTyped
    BY DEF RecallInv
  <2> QED BY <1>1, <2>1, RecallSaid, WindowTyped, EmptySeq
<1>3. b \in Seq(RecalledFragments)
  <2>1. CASE b = <<>>
    BY <2>1, EmptySeq
  <2>2. CASE b # <<>>
    <3>1. PICK cost \in Nat : b = <<Recall!Fragment("rolling_summary", cost, <<>>)>>
      BY <1>1, <2>2, RecallSaid
    <3>2. PICK f, none : f = Recall!Fragment("rolling_summary", cost, none) /\ none = <<>>
      OBVIOUS
    <3>3. none \in Seq(Nat)
      BY <3>2, EmptySeq
    <3>4. f = [layer |-> "rolling_summary", tokens |-> cost, messages |-> none]
      BY <3>2 DEF Recall!Fragment
    <3>5. "rolling_summary" \in RecallLayers
      BY DEF RecallLayers
    <3>6. f \in RecalledFragments
      BY <3>3, <3>4, <3>5 DEF RecalledFragments
    <3>7. b = <<f>>
      BY <3>1, <3>2
    <3> QED BY <3>6, <3>7
  <2> QED BY <2>1, <2>2
<1>4. c \in Seq(RecalledFragments)
  BY <1>1, RecallSaid
<1>5. PICK ab : ab = a \o b
  OBVIOUS
<1>6. ab \in Seq(RecalledFragments)
  BY <1>2, <1>3, <1>5
<1>7. /\ Len(ab) = Len(a) + Len(b)
      /\ \A j \in DOMAIN a : ab[j] = a[j]
      /\ \A j \in DOMAIN b : ab[Len(a) + j] = b[j]
  BY <1>2, <1>3, <1>5
<1>8. \A j \in DOMAIN ab : \/ \E i \in DOMAIN a : ab[j] = a[i]
                           \/ \E i \in DOMAIN b : ab[j] = b[i]
  <2> TAKE j \in DOMAIN ab
  <2>1. CASE j \in DOMAIN a
    BY <1>7, <2>1
  <2>2. CASE j \notin DOMAIN a
    <3>1. j - Len(a) \in DOMAIN b /\ Len(a) + (j - Len(a)) = j
      BY <1>2, <1>3, <1>6, <1>7, <2>2
    <3> QED BY <1>7, <3>1
  <2> QED BY <2>1, <2>2
<1>9. PICK abc : abc = ab \o c
  OBVIOUS
<1>10. abc \in Seq(RecalledFragments)
  BY <1>4, <1>6, <1>9
<1>11. /\ Len(abc) = Len(ab) + Len(c)
       /\ \A j \in DOMAIN ab : abc[j] = ab[j]
       /\ \A j \in DOMAIN c : abc[Len(ab) + j] = c[j]
  BY <1>4, <1>6, <1>9
<1>12. \A j \in DOMAIN abc : \/ \E i \in DOMAIN ab : abc[j] = ab[i]
                             \/ \E i \in DOMAIN c : abc[j] = c[i]
  <2> TAKE j \in DOMAIN abc
  <2>1. CASE j \in DOMAIN ab
    BY <1>11, <2>1
  <2>2. CASE j \notin DOMAIN ab
    <3>1. j - Len(ab) \in DOMAIN c /\ Len(ab) + (j - Len(ab)) = j
      BY <1>4, <1>6, <1>10, <1>11, <2>2
    <3> QED BY <1>11, <3>1
  <2> QED BY <2>1, <2>2
<1>13. (\A j \in DOMAIN a : j \in DOMAIN ab) /\ (\A j \in DOMAIN b : Len(a) + j \in DOMAIN ab)
  BY <1>2, <1>3, <1>6, <1>7
<1>14. Offered = abc
  BY <1>1, <1>5, <1>9 DEF Offered
<1>15. Len(abc) = Len(a) + Len(b) + Len(c)
  BY <1>7, <1>11
<1>16. /\ \A j \in DOMAIN a : abc[j] = a[j]
       /\ \A j \in DOMAIN b : abc[Len(a) + j] = b[j]
  BY <1>7, <1>11, <1>13
<1>17. \A j \in DOMAIN abc : \/ \E i \in DOMAIN a : abc[j] = a[i]
                             \/ \E i \in DOMAIN b : abc[j] = b[i]
                             \/ \E i \in DOMAIN c : abc[j] = c[i]
  BY <1>8, <1>11, <1>12
<1>18. MadeUpOf(abc, a, b, c)
  BY <1>2, <1>3, <1>4, <1>10, <1>15, <1>16, <1>17 DEF MadeUpOf
<1> QED BY <1>1, <1>14, <1>18

\* What a cut keeps tells what it must.
LEMMA CutTells ==
  ASSUME RecallInv, Recall!Waiting = {}, kept = Recall!Keep(Offered)
  PROVE  Recall!WithinBudget /\ Recall!StoryUnbroken /\ Recall!RecapSpeaks
<1>1. PICK a, b, c :
        /\ a = Recall!Recalled("recent_window") /\ b = Recall!Recalled("rolling_summary")
        /\ c = Recall!Recalled("lorebook") /\ MadeUpOf(Offered, a, b, c)
  BY OfferedFirst
<1>2. PICK s : s = Offered
  OBVIOUS
<1>3. s \in Seq(RecalledFragments) /\ kept = Recall!Keep(s) /\ MadeUpOf(s, a, b, c)
  BY <1>1, <1>2 DEF MadeUpOf
<1>4. /\ Recall!Available \in Nat /\ Recall!Share \in Nat /\ Recall!Share <= Recall!Available
      /\ RecallTyped
  BY Budgets DEF RecallInv, RecallTyped
<1>5. HeldOf(kept, s, Len(s))
  BY <1>3, <1>4, KeptOf
<1>6. PICK w : /\ w = SubSeq(stored, Recall!WindowFrom(Recall!BudgetFor("recent_window")) + 1, Len(stored))
               /\ w \in Seq(Nat)
               /\ Recall!SumOf(w) \in Nat /\ Recall!SumOf(w) <= Recall!BudgetFor("recent_window")
  BY <1>4, WindowFits
<1>7. PICK f : f = Recall!Fragment("recent_window", Recall!SumOf(w), w)
  OBVIOUS
<1>8. f.layer = "recent_window" /\ f.tokens = Recall!SumOf(w) /\ f.messages = w
  BY <1>7 DEF Recall!Fragment
<1>9. a = <<>> \/ (w # <<>> /\ a = <<f>>)
  BY <1>1, <1>6, <1>7, RecallSaid DEF Recall!Window
<1>10. f.tokens <= Recall!Available
  BY <1>4, <1>6, <1>8 DEF Recall!BudgetFor
<1>11. /\ \A p \in DOMAIN b : b[p].layer = "rolling_summary"
       /\ \A p \in DOMAIN c : c[p].layer = "lorebook"
       /\ (b = <<>> \/ (Len(b) = 1 /\ "rolling_summary" \in enabled))
  <2>1. \A p \in DOMAIN c : c[p].layer = "lorebook"
    BY <1>1, RecallSaid
  <2>2. CASE b = <<>>
    <3>1. DOMAIN <<>> = {}
      OBVIOUS
    <3> QED BY <2>1, <2>2, <3>1
  <2>3. CASE b # <<>>
    <3>1. PICK cost \in Nat : b = <<Recall!Fragment("rolling_summary", cost, <<>>)>>
      BY <1>1, <2>3, RecallSaid
    <3>2. PICK g : g = Recall!Fragment("rolling_summary", cost, <<>>)
      OBVIOUS
    <3>3. g.layer = "rolling_summary"
      BY <3>2 DEF Recall!Fragment
    <3>4. b = <<g>>
      BY <3>1, <3>2
    <3>5. Len(b) = 1 /\ \A p \in DOMAIN b : b[p] = g
      BY <3>4
    <3>6. "rolling_summary" \in enabled
      BY <1>1, <2>3, RecallSaid
    <3> QED BY <2>1, <3>3, <3>5, <3>6
  <2> QED BY <2>2, <2>3
<1>12. Recall!WithinBudget
  BY <1>5 DEF Recall!WithinBudget, HeldOf
<1>13. CASE a = <<f>>
  <2>1. Len(a) = 1 /\ 1 \in DOMAIN a /\ a[1] = f
    BY <1>13
  <2>2. s[1] = f /\ Len(s) >= 1
    BY <1>3, <2>1 DEF MadeUpOf
  <2>3. kept # <<>> /\ kept[1] = f
    BY <1>5, <1>10, <2>2 DEF HeldOf
  <2>4. kept \in Seq(RecalledFragments)
    BY <1>5 DEF HeldOf
  <2>5. PICK n \in Nat : DOMAIN kept = 1..n /\ n >= 1
    BY <2>3, <2>4
  <2>6. Recall!StoryUnbroken
    <3> DEFINE its == {i \in DOMAIN kept : kept[i].layer = "recent_window"}
    <3>1. 1 \in its /\ \A y \in its : 1 <= y
      BY <1>8, <2>3, <2>5
    <3>2. (CHOOSE x \in its : \A y \in its : x <= y) = 1
      <4>1. \A x \in its : x \in Nat /\ (x <= 1 => x = 1)
        BY <2>5
      <4>2. \E x \in its : \A y \in its : x <= y
        BY <3>1
      <4> QED BY <3>1, <4>1, <4>2
    <3>3. Recall!Replayed = w
      BY <1>8, <2>3, <3>1, <3>2 DEF Recall!Replayed, Recall!Least
    <3> QED BY <1>6, <3>3 DEF Recall!StoryUnbroken
  <2>7. ASSUME NEW i \in DOMAIN b, b[i].tokens <= Recall!Share
        PROVE  \E p \in DOMAIN kept : kept[p] = b[i]
    <3>1. Len(b) = 1 /\ i = 1 /\ "rolling_summary" \in enabled /\ b[1] \in RecalledFragments
      BY <1>3, <1>11, <2>7 DEF MadeUpOf
    <3>2. s[2] = b[1] /\ Len(s) >= 2
      BY <1>3, <2>1, <3>1 DEF MadeUpOf
    <3>3. f.tokens <= Recall!Available - Recall!Share
      BY <1>6, <1>8, <3>1 DEF Recall!BudgetFor
    <3>4. b[1].tokens \in Nat /\ b[1].tokens <= Recall!Share
      BY <2>7, <3>1 DEF RecalledFragments
    <3>5. s[1].tokens + s[2].tokens <= Recall!Available
      BY <1>4, <1>6, <1>8, <2>2, <3>2, <3>3, <3>4
    <3>6. Len(kept) >= 2 /\ kept[2] = s[2]
      BY <1>5, <3>2, <3>5 DEF HeldOf
    <3>7. 2 \in DOMAIN kept
      BY <2>4, <3>6
    <3> QED BY <3>1, <3>2, <3>6, <3>7
  <2>8. Recall!RecapSpeaks
    BY <1>1, <2>7 DEF Recall!RecapSpeaks, Recall!Contains
  <2> QED BY <1>12, <2>6, <2>8
<1>14. CASE a = <<>>
  <2>1. Len(a) = 0 /\ DOMAIN a = {}
    BY <1>14
  <2>2. kept \in Seq(RecalledFragments)
    BY <1>5 DEF HeldOf
  <2>3. \A p \in DOMAIN kept : kept[p].layer # "recent_window"
    <3>1. \A j \in DOMAIN s : s[j].layer # "recent_window"
      BY <1>3, <1>11, <2>1 DEF MadeUpOf
    <3> QED BY <1>5, <3>1 DEF HeldOf
  <2>4. Recall!StoryUnbroken
    <3> SUFFICES ASSUME "recent_window" \notin raised PROVE Recall!Replayed = w
      BY <1>6 DEF Recall!StoryUnbroken
    <3>1. PICK i \in DOMAIN answers : answers[i][1] = "recent_window"
      BY DEF Recall!Waiting
    <3>2. a = Recall!Window
      BY <1>1, <3>1, RecalledMeant DEF AnswerMeant
    <3>3. w = <<>>
      BY <1>6, <1>14, <3>2 DEF Recall!Window
    <3>4. Recall!Replayed = <<>>
      BY <2>3 DEF Recall!Replayed
    <3> QED BY <3>3, <3>4
  <2>5. ASSUME NEW i \in DOMAIN b, b[i].tokens <= Recall!Share
        PROVE  \E p \in DOMAIN kept : kept[p] = b[i]
    <3>1. Len(b) = 1 /\ i = 1 /\ b[1] \in RecalledFragments
      BY <1>3, <1>11, <2>5 DEF MadeUpOf
    <3>2. s[1] = b[1] /\ Len(s) >= 1
      BY <1>3, <2>1, <3>1 DEF MadeUpOf
    <3>3. b[1].tokens \in Nat /\ b[1].tokens <= Recall!Share
      BY <2>5, <3>1 DEF RecalledFragments
    <3>4. s[1].tokens <= Recall!Available
      BY <1>4, <3>2, <3>3
    <3>5. kept # <<>> /\ kept[1] = s[1]
      BY <1>5, <3>2, <3>4 DEF HeldOf
    <3>6. 1 \in DOMAIN kept
      BY <2>2, <3>5
    <3> QED BY <3>1, <3>2, <3>5, <3>6
  <2>6. Recall!RecapSpeaks
    BY <1>1, <2>5 DEF Recall!RecapSpeaks, Recall!Contains
  <2> QED BY <1>12, <2>4, <2>6
<1> QED BY <1>9, <1>13, <1>14

\* A step that leaves the story, the price and the layers alone leaves the window alone ...
LEMMA SameWindow ==
  ASSUME UNCHANGED <<stored, reserved, enabled>>
  PROVE  /\ Recall!Window' = Recall!Window
         /\ \A a : AnswerMeant(a)' <=> AnswerMeant(a)
<1>1. /\ Recall!Available' = Recall!Available
      /\ Recall!Share' = Recall!Share
  BY DEF Recall!Available, Recall!Share
<1>2. Recall!BudgetFor("recent_window")' = Recall!BudgetFor("recent_window")
  BY <1>1 DEF Recall!BudgetFor
<1>3. Recall!WindowFrom(Recall!BudgetFor("recent_window"))' = Recall!WindowFrom(Recall!BudgetFor("recent_window"))
  BY <1>2 DEF Recall!WindowFrom
<1>4. Recall!Window' = Recall!Window
  BY <1>3 DEF Recall!Window
<1>5. ASSUME NEW a PROVE AnswerMeant(a)' <=> AnswerMeant(a)
  BY <1>4 DEF AnswerMeant
<1> QED BY <1>4, <1>5

\* ... and one that leaves the answers alone too, what is kept of them.
LEMMA SameKept ==
  ASSUME UNCHANGED <<stored, reserved, enabled, answers>>
  PROVE  Recall!Keep(Offered)' = Recall!Keep(Offered)
<1>1. Recall!Available' = Recall!Available
  BY DEF Recall!Available
<1>2. ASSUME NEW layer PROVE Recall!Recalled(layer)' = Recall!Recalled(layer)
  BY DEF Recall!Recalled
<1>3. Offered' = Offered
  BY <1>2 DEF Offered
<1>4. \A k, f : Recall!KeepNext(k, f)' = Recall!KeepNext(k, f)
  BY <1>1 DEF Recall!KeepNext
<1> QED BY <1>3, <1>4 DEF Recall!Keep

LEMMA RecallKept == RecallInv /\ UNCHANGED RecallVars => RecallInv'
<1> SUFFICES ASSUME RecallInv, UNCHANGED RecallVars PROVE RecallInv'
  OBVIOUS
<1>1. UNCHANGED <<step, stored, reserved, enabled, answers, raised, kept>>
  BY DEF RecallVars
<1>2. RecallTyped'
  BY <1>1 DEF RecallInv, RecallTyped
<1>3. (\A i \in DOMAIN answers : AnswerMeant(answers[i]))'
  BY <1>1, SameWindow DEF RecallInv
<1>4. Recall!Waiting' = Recall!Waiting
  BY <1>1 DEF Recall!Waiting
<1>5. Recall!Keep(Offered)' = Recall!Keep(Offered)
  BY <1>1, SameKept
<1> QED BY <1>1, <1>2, <1>3, <1>4, <1>5 DEF RecallInv

\* An answer is added as the layer gives it.
LEMMA LayerAnswered ==
  ASSUME RecallInv, NEW layer \in RecallLayers, NEW said \in Seq(RecalledFragments),
         Recall!Answer(layer, said), AnswerMeant(<<layer, said>>)
  PROVE  RecallInv'
<1>1. /\ step = "asked" /\ answers' = Append(answers, <<layer, said>>)
      /\ UNCHANGED <<step, stored, reserved, enabled, raised, kept>>
  BY DEF Recall!Answer
<1>2. PICK a, new : a = <<layer, said>> /\ new = answers'
  OBVIOUS
<1>3. a \in RecallAnswers
  BY <1>2 DEF RecallAnswers
<1>4. answers \in Seq(RecallAnswers) /\ new = Append(answers, a)
  BY <1>1, <1>2 DEF RecallInv, RecallTyped
<1>5. /\ new \in Seq(RecallAnswers)
      /\ \A i \in DOMAIN new : new[i] = a \/ (i \in DOMAIN answers /\ new[i] = answers[i])
  BY <1>3, <1>4
<1>6. \A i \in DOMAIN new : AnswerMeant(new[i])
  BY <1>2, <1>5 DEF RecallInv
<1>7. (\A i \in DOMAIN answers : AnswerMeant(answers[i]))'
  BY <1>1, <1>2, <1>6, SameWindow
<1>8. RecallTyped'
  BY <1>1, <1>2, <1>5 DEF RecallInv, RecallTyped
<1>9. step' # "cut"
  BY <1>1
<1> QED BY <1>7, <1>8, <1>9 DEF RecallInv

\* No step undoes the invariant.
LEMMA RecallNext == RecallInv /\ [Next]_vars => RecallInv'
<1> SUFFICES ASSUME RecallInv, [Next]_vars PROVE RecallInv'
  OBVIOUS
<1>1. CASE UNCHANGED RecallVars
  BY <1>1, RecallKept
<1>2. ASSUME NEW n \in 0..MaxRecalled, NEW s \in [1..n -> Sizes], NEW price \in Prices,
             NEW layers \in SUBSET Recall!Toggleable, Recall!Ask(s, price, layers)
      PROVE  RecallInv'
  <2>1. price \in Nat /\ Sizes \subseteq Nat /\ Room \in Nat
    BY PartsAssumption
  <2>2. s \in Seq(Nat)
    <3>1. s \in [1..n -> Nat]
      BY <2>1
    <3> QED BY <3>1
  <2>3. /\ stored' = s /\ reserved' = price /\ enabled' = layers /\ answers' = <<>> /\ kept' = <<>>
        /\ step' = IF price >= Room THEN "cut" ELSE "asked"
    BY <1>2 DEF Recall!Ask
  <2>4. <<>> \in Seq(RecallAnswers) /\ DOMAIN <<>> = {}
    <3>1. DOMAIN <<>> = {}
      OBVIOUS
    <3> QED BY <3>1, EmptySeq
  <2>5. RecallTyped'
    BY <2>1, <2>2, <2>3, <2>4 DEF RecallTyped, Recall!Toggleable
  <2>6. step' = "cut" => reserved' >= Room /\ kept' = <<>>
    BY <2>3
  <2> QED BY <2>3, <2>4, <2>5, <2>6 DEF RecallInv
<1>3. CASE Recall!Replay
  <2>1. Recall!Window \in Seq(RecalledFragments)
    BY WindowTyped DEF RecallInv
  <2>2. AnswerMeant(<<"recent_window", Recall!Window>>)
    BY DEF AnswerMeant
  <2>3. "recent_window" \in RecallLayers
    BY DEF RecallLayers
  <2> QED BY <1>3, <2>1, <2>2, <2>3, LayerAnswered DEF Recall!Replay
<1>4. ASSUME NEW cost \in Sizes \cup {0}, Recall!Retell(cost) PROVE RecallInv'
  <2>1. PICK said : said = IF cost = 0 THEN <<>> ELSE <<Recall!Fragment("rolling_summary", cost, <<>>)>>
    OBVIOUS
  <2>2. cost \in Nat
    BY PartsAssumption
  <2>3. said \in Seq(RecalledFragments)
    <3>1. CASE cost = 0
      BY <2>1, <3>1, EmptySeq
    <3>2. CASE cost # 0
      <4>1. PICK f, none : f = Recall!Fragment("rolling_summary", cost, none) /\ none = <<>>
        OBVIOUS
      <4>2. none \in Seq(Nat)
        BY <4>1, EmptySeq
      <4>3. f = [layer |-> "rolling_summary", tokens |-> cost, messages |-> none]
        BY <4>1 DEF Recall!Fragment
      <4>4. "rolling_summary" \in RecallLayers
        BY DEF RecallLayers
      <4>5. f \in RecalledFragments
        BY <2>2, <4>2, <4>3, <4>4 DEF RecalledFragments
      <4>6. said = <<f>>
        BY <2>1, <3>2, <4>1
      <4> QED BY <4>5, <4>6
    <3> QED BY <3>1, <3>2
  <2>4. Recall!Answer("rolling_summary", said)
    BY <1>4, <2>1 DEF Recall!Retell
  <2>5. "rolling_summary" \in enabled
    BY <2>4 DEF Recall!Answer, Recall!Waiting
  <2>6. said = <<>> \/ \E c \in Nat : said = <<Recall!Fragment("rolling_summary", c, <<>>)>>
    BY <2>1, <2>2
  <2>7. AnswerMeant(<<"rolling_summary", said>>)
    BY <2>5, <2>6 DEF AnswerMeant
  <2>8. "rolling_summary" \in RecallLayers
    BY DEF RecallLayers
  <2> QED BY <2>3, <2>4, <2>7, <2>8, LayerAnswered
<1>5. ASSUME NEW n \in 0..2, NEW costs \in [1..n -> Sizes], Recall!LookUp(costs) PROVE RecallInv'
  <2>1. PICK said : said = IF Recall!BudgetFor("lorebook") = 0 THEN <<>>
                           ELSE [i \in DOMAIN costs |-> Recall!Fragment("lorebook", costs[i], <<>>)]
    OBVIOUS
  <2>2. said \in Seq(RecalledFragments) /\ \A p \in DOMAIN said : said[p].layer = "lorebook"
    <3>1. CASE said = <<>>
      <4>1. DOMAIN <<>> = {}
        OBVIOUS
      <4> QED BY <3>1, <4>1, EmptySeq
    <3>2. CASE said # <<>>
      <4>1. PICK none : none = <<>>
        OBVIOUS
      <4>2. none \in Seq(Nat)
        BY <4>1, EmptySeq
      <4>3. said = [i \in 1..n |-> [layer |-> "lorebook", tokens |-> costs[i], messages |-> none]]
        BY <2>1, <3>2, <4>1 DEF Recall!Fragment
      <4>4. "lorebook" \in RecallLayers
        BY DEF RecallLayers
      <4>5. Sizes \subseteq Nat
        BY PartsAssumption
      <4>6. ASSUME NEW i \in 1..n PROVE said[i] \in RecalledFragments /\ said[i].layer = "lorebook"
        <5>1. costs[i] \in Nat
          BY <4>5
        <5> QED BY <4>2, <4>3, <4>4, <5>1 DEF RecalledFragments
      <4>7. DOMAIN said = 1..n /\ said = [i \in 1..n |-> said[i]]
        BY <4>3
      <4>8. said \in [1..n -> RecalledFragments]
        BY <4>6, <4>7
      <4> QED BY <4>6, <4>7, <4>8
    <3> QED BY <3>1, <3>2
  <2>3. Recall!Answer("lorebook", said)
    BY <1>5, <2>1 DEF Recall!LookUp
  <2>4. AnswerMeant(<<"lorebook", said>>)
    BY <2>2 DEF AnswerMeant
  <2>5. "lorebook" \in RecallLayers
    BY DEF RecallLayers
  <2> QED BY <2>2, <2>3, <2>4, <2>5, LayerAnswered
<1>6. ASSUME NEW layer, Recall!Raise(layer) PROVE RecallInv'
  <2>1. step = "asked" /\ UNCHANGED <<step, stored, reserved, enabled, answers, kept>>
    BY <1>6 DEF Recall!Raise
  <2>2. RecallTyped' /\ step' # "cut"
    BY <2>1 DEF RecallInv, RecallTyped
  <2>3. (\A i \in DOMAIN answers : AnswerMeant(answers[i]))'
    BY <2>1, SameWindow DEF RecallInv
  <2> QED BY <2>2, <2>3 DEF RecallInv
<1>7. CASE Recall!Cut
  <2>1. /\ Recall!Waiting = {} /\ UNCHANGED <<stored, reserved, enabled, answers, raised>>
        /\ kept' = Recall!Keep(Offered)
    BY <1>7 DEF Recall!Cut, Recall!Layers, Offered
  <2>2. RecallTyped'
    BY <2>1 DEF RecallInv, RecallTyped
  <2>3. (\A i \in DOMAIN answers : AnswerMeant(answers[i]))'
    BY <2>1, SameWindow DEF RecallInv
  <2>4. Recall!Waiting' = {}
    BY <2>1 DEF Recall!Waiting
  <2>5. kept' = Recall!Keep(Offered)'
    BY <2>1, SameKept
  <2> QED BY <2>2, <2>3, <2>4, <2>5 DEF RecallInv
<1>8. CASE Recall!Done
  <2>1. stored' = <<>> /\ reserved' = 0 /\ enabled' = {} /\ answers' = <<>> /\ step' = "idle"
    BY <1>8 DEF Recall!Done
  <2>2. DOMAIN <<>> = {}
    OBVIOUS
  <2> QED BY <2>1, <2>2, EmptySeq DEF RecallInv, RecallTyped
<1>9. CASE Recall!Next
  BY <1>2, <1>3, <1>4, <1>5, <1>6, <1>7, <1>8, <1>9 DEF Recall!Next
<1> QED BY <1>1, <1>9 DEF Next, vars

\* Whatever layers are on, however they answer and whichever of them raise, what a turn's
\* prompt recalls fits the budget, continues from an unbroken end of the story as long as the
\* window was offered room for, and has a recap that keeps to its share: for any budget, any
\* share, any prices and any length of the story (_apply_budget and budget_for of pipeline.py,
\* recent_window.py).
THEOREM RecallKeepsTheStory == Spec => []MemoryKeepsTheStory
<1>1. Init => RecallInv
  <2> SUFFICES ASSUME Init PROVE RecallInv
    OBVIOUS
  <2>1. stored = <<>> /\ reserved = 0 /\ enabled = {} /\ answers = <<>> /\ step = "idle"
    BY DEF Init, Recall!Init
  <2>2. DOMAIN <<>> = {}
    OBVIOUS
  <2> QED BY <2>1, <2>2, EmptySeq DEF RecallInv, RecallTyped
<1>2. RecallInv => MemoryKeepsTheStory
  <2> SUFFICES ASSUME RecallInv, step = "cut"
               PROVE  Recall!WithinBudget /\ Recall!StoryUnbroken /\ Recall!RecapSpeaks
    BY DEF MemoryKeepsTheStory, Recall!MemoryKeepsTheStory
  <2>1. CASE reserved >= Room /\ kept = <<>>
    <3>1. Recall!Available = 0
      BY <2>1, Budgets DEF RecallInv, RecallTyped
    <3> QED BY <2>1, <3>1, TokensEmpty DEF Recall!WithinBudget, Recall!StoryUnbroken, Recall!RecapSpeaks
  <2>2. CASE Recall!Waiting = {} /\ kept = Recall!Keep(Offered)
    BY <2>2, CutTells
  <2> QED BY <2>1, <2>2 DEF RecallInv
<1> QED BY <1>1, <1>2, RecallNext, PTL DEF Spec
-----------------------------------------------------------------------------
(* FloorHolds of RollingSummary.                                           *)

\* What a cost is built of.
LEMMA CostSteps ==
  ASSUME NEW s, s \in Conversations
  PROVE  \E f \in [0..Len(s) -> Nat] :
           /\ f[0] = 0 /\ \A i \in 1..Len(s) : f[i] = f[i - 1] + s[i].cost
           /\ Rolling!Cost(s) = f[Len(s)]
<1>1. PICK n : n \in Nat /\ n = Len(s) /\ \A i \in 1..n : s[i].cost \in Nat
  <2>1. \A i \in 1..Len(s) : s[i] \in StoredMessages
    BY ElementOfSeq DEF Conversations
  <2>2. Costs \subseteq Nat
    BY PartsAssumption
  <2>3. \A i \in 1..Len(s) : s[i].cost \in Nat
    BY <2>1, <2>2 DEF StoredMessages
  <2>4. Len(s) \in Nat
    BY DEF Conversations
  <2> QED BY <2>3, <2>4
<1> DEFINE next == [i \in 1..n |-> [x \in Nat |-> x + s[i].cost]]
<1>2. PICK g \in [0..n -> Nat] : g[0] = 0 /\ \A i \in 1..n : g[i] = next[i][g[i - 1]]
  <2>1. next \in [1..n -> [Nat -> Nat]]
    BY <1>1
  <2> HIDE DEF next
  <2>2. PICK S, none, h, m : S = Nat /\ none = 0 /\ h = next /\ m = n
    OBVIOUS
  <2>3. none \in S
    BY <2>2
  <2>4. h \in [1..m -> [S -> S]]
    BY <2>1, <2>2
  <2>5. m \in Nat
    BY <1>1, <2>2
  <2>6. \E g \in [0..m -> S] : g[0] = none /\ \A i \in 1..m : g[i] = h[i][g[i - 1]]
    BY ONLY <2>3, <2>4, <2>5, Recursion
  <2> QED BY <2>2, <2>6
<1>3. \A i \in 1..n : g[i] = g[i - 1] + s[i].cost
  <2> TAKE i \in 1..n
  <2>1. g[i - 1] \in Nat
    BY <1>1, <1>2
  <2> QED BY <1>2, <2>1
<1> HIDE DEF next
<1> DEFINE upTo == CHOOSE upTo : upTo = [i \in 0..n |-> IF i = 0 THEN 0 ELSE upTo[i - 1] + s[i].cost]
<1>4. g = [i \in 0..n |-> IF i = 0 THEN 0 ELSE g[i - 1] + s[i].cost]
  <2>1. ASSUME NEW i \in 0..n PROVE g[i] = IF i = 0 THEN 0 ELSE g[i - 1] + s[i].cost
    <3>1. CASE i = 0
      BY <1>2, <3>1
    <3>2. CASE i # 0
      BY <1>1, <1>3, <3>2
    <3> QED BY <3>1, <3>2
  <2> QED BY <1>2, <2>1
<1>5. upTo = [i \in 0..n |-> IF i = 0 THEN 0 ELSE upTo[i - 1] + s[i].cost]
  BY <1>4
<1>6. Rolling!Cost(s) = upTo[n]
  BY <1>1 DEF Rolling!Cost
<1> HIDE DEF upTo
<1> DEFINE P == {m \in Nat : m <= n => upTo[m] = g[m]}
<1>7. 0 \in P
  BY <1>1, <1>2, <1>5
<1>8. ASSUME NEW m \in Nat, m \in P PROVE m + 1 \in P
  BY <1>1, <1>3, <1>5, <1>8
<1>9. Nat \subseteq P
  <2> HIDE DEF P
  <2> QED BY <1>7, <1>8, Climb
<1>10. upTo[n] = g[n]
  BY <1>1, <1>9
<1> QED BY <1>1, <1>2, <1>3, <1>6, <1>10

\* The costs of stretches of a conversation add up.
LEMMA CostOfStretch ==
  ASSUME NEW A \in Conversations
  PROVE  \E f \in [0..Len(A) -> Nat] :
           /\ \A k \in 1..Len(A) : f[k] = f[k - 1] + A[k].cost /\ A[k].cost \in Costs /\ A[k].cost \in Nat
           /\ \A i, j \in 0..Len(A) : i <= j => /\ Rolling!Cost(SubSeq(A, i + 1, j)) = f[j] - f[i]
                                                /\ f[i] <= f[j]
<1>1. Len(A) \in Nat /\ \A k \in 1..Len(A) : A[k] \in StoredMessages
  BY ElementOfSeq DEF Conversations
<1>2. PICK f \in [0..Len(A) -> Nat] : f[0] = 0 /\ \A k \in 1..Len(A) : f[k] = f[k - 1] + A[k].cost
  BY CostSteps
<1>3. \A k \in 1..Len(A) : A[k].cost \in Costs /\ A[k].cost \in Nat
  BY <1>1, PartsAssumption DEF StoredMessages
<1>4. ASSUME NEW i \in 0..Len(A), NEW j \in 0..Len(A), i <= j
      PROVE  Rolling!Cost(SubSeq(A, i + 1, j)) = f[j] - f[i] /\ f[i] <= f[j]
  <2>1. PICK s : s = SubSeq(A, i + 1, j)
    OBVIOUS
  <2>2. PICK n : n \in Nat /\ n = j - i /\ i + n = j
    BY <1>1, <1>4
  <2>3. s \in Seq(StoredMessages) /\ Len(s) = n /\ \A k \in 1..n : s[k] = A[i + k]
    <3>1. i + 1 \in 1..Len(A) + 1
      BY <1>1
    <3>2. /\ SubSeq(A, i + 1, j) \in Seq(StoredMessages)
          /\ Len(SubSeq(A, i + 1, j)) = IF i + 1 <= j THEN j - (i + 1) + 1 ELSE 0
          /\ \A k \in 1..j - (i + 1) + 1 : SubSeq(A, i + 1, j)[k] = A[(i + 1) + k - 1]
      BY <1>1, <3>1, SubSeqProperties DEF Conversations
    <3>3. j - (i + 1) + 1 = n /\ (i + 1 <= j \/ n = 0) /\ \A k \in 1..n : (i + 1) + k - 1 = i + k
      BY <1>1, <1>4, <2>2
    <3> QED BY <2>1, <3>2, <3>3
  <2>4. PICK g \in [0..n -> Nat] : /\ g[0] = 0 /\ \A k \in 1..n : g[k] = g[k - 1] + s[k].cost
                                   /\ Rolling!Cost(s) = g[n]
    <3>1. s \in Conversations
      BY <2>3 DEF Conversations
    <3>2. \E g \in [0..Len(s) -> Nat] : /\ g[0] = 0 /\ \A k \in 1..Len(s) : g[k] = g[k - 1] + s[k].cost
                                        /\ Rolling!Cost(s) = g[Len(s)]
      BY <3>1, CostSteps
    <3> QED BY <2>3, <3>2
  <2> DEFINE P == {m \in Nat : m <= n => g[m] = f[i + m] - f[i]}
  <2>5. 0 \in P
    <3>1. f[i] \in Nat /\ i + 0 = i
      BY <1>1, <1>2
    <3> QED BY <2>4, <3>1
  <2>6. ASSUME NEW m \in Nat, m \in P PROVE m + 1 \in P
    <3> SUFFICES ASSUME m + 1 <= n PROVE g[m + 1] = f[i + (m + 1)] - f[i]
      OBVIOUS
    <3>1. /\ m + 1 \in 1..n /\ (m + 1) - 1 = m /\ g[m] = f[i + m] - f[i]
      BY <2>2, <2>6
    <3>2. /\ i + (m + 1) \in 1..Len(A) /\ (i + (m + 1)) - 1 = i + m /\ i + m \in 0..Len(A)
      BY <1>1, <2>2
    <3>3. g[m + 1] = g[m] + A[i + (m + 1)].cost
      BY <2>3, <2>4, <3>1
    <3>4. f[i + (m + 1)] = f[i + m] + A[i + (m + 1)].cost
      BY <1>2, <3>2
    <3>5. f[i + m] \in Nat /\ f[i] \in Nat /\ A[i + (m + 1)].cost \in Nat
      BY <1>2, <1>3, <3>2
    <3> QED BY <3>1, <3>3, <3>4, <3>5
  <2>7. Nat \subseteq P
    <3> HIDE DEF P
    <3> QED BY <2>5, <2>6, Climb
  <2>8. g[n] = f[i + n] - f[i]
    BY <2>2, <2>7
  <2>9. f[i] <= f[j]
    <3>1. g[n] \in Nat /\ f[i] \in Nat /\ f[j] \in Nat
      BY <1>2, <2>2, <2>4
    <3> QED BY <2>2, <2>8, <3>1
  <2> QED BY <2>1, <2>2, <2>4, <2>8, <2>9
<1> QED BY <1>2, <1>3, <1>4

\* The walk from the newest message back stops as soon as a stretch fits.
LEMMA EdgeFits ==
  ASSUME NEW A \in Conversations, NEW b \in Nat
  PROVE  /\ Rolling!Edge(A, b) \in 0..Len(A)
         /\ Rolling!Cost(SubSeq(A, Rolling!Edge(A, b) + 1, Len(A))) <= b
         /\ \A i \in 0..Len(A) : Rolling!Cost(SubSeq(A, i + 1, Len(A))) <= b => Rolling!Edge(A, b) <= i
<1> DEFINE fits == {Len(A)} \cup {i \in 0..Len(A) : Rolling!Cost(Rolling!From(A, i)) <= b}
<1>1. Len(A) \in Nat
  BY DEF Conversations
<1>2. PICK edge : edge = Rolling!Smallest(fits)
  OBVIOUS
<1>3. edge \in fits /\ \A y \in fits : edge <= y
  <2>1. fits \in SUBSET Nat /\ fits # {}
    BY <1>1
  <2> HIDE DEF fits
  <2> QED BY <1>2, <2>1, LeastOf
<1>4. Rolling!Edge(A, b) = edge
  BY <1>2 DEF Rolling!Edge
<1>5. Rolling!Cost(SubSeq(A, Len(A) + 1, Len(A))) = 0
  <2>1. PICK f \in [0..Len(A) -> Nat] :
          \A i, j \in 0..Len(A) : i <= j => Rolling!Cost(SubSeq(A, i + 1, j)) = f[j] - f[i]
    BY CostOfStretch
  <2>2. Len(A) \in 0..Len(A) /\ Len(A) <= Len(A) /\ f[Len(A)] \in Nat
    BY <1>1, <2>1
  <2> QED BY <2>1, <2>2
<1>6. \A i \in fits : i \in 0..Len(A) /\ Rolling!Cost(SubSeq(A, i + 1, Len(A))) <= b
  BY <1>1, <1>5 DEF Rolling!From
<1>7. \A i \in 0..Len(A) : Rolling!Cost(SubSeq(A, i + 1, Len(A))) <= b => i \in fits
  BY DEF Rolling!From
<1> HIDE DEF fits
<1> QED BY <1>3, <1>4, <1>6, <1>7

LineBudget == Rolling!Share(Total, HighWater)
Batch == Rolling!Share(Total, MinFold)

\* The fold line is pulled back over one line at most, that of the turn under way.
OneLineWaits(A) == Rolling!Edge(A, LineBudget) - Rolling!FoldThrough(A) <= 1

LEMMA SharesCount == LineBudget \in Nat /\ Batch \in Nat
<1>1. Total \in Nat /\ HighWater \in Nat /\ MinFold \in Nat
  BY PartsAssumption
<1>2. ASSUME NEW x \in Nat, NEW y \in Nat PROVE (x * y) \div 100 \in Nat
  <2>1. PICK z : z = x * y
    OBVIOUS
  <2>2. z \in Nat
    BY <2>1
  <2>3. z \div 100 \in Nat
    BY <2>2
  <2> QED BY <2>1, <2>3
<1> QED BY <1>1, <1>2 DEF LineBudget, Batch, Rolling!Share

\* What lies past the fold line then fits its budget, but for that line.
LEMMA PastTheLine ==
  ASSUME NEW A \in Conversations, A # <<>>, OneLineWaits(A)
  PROVE  \E c \in Costs : Rolling!Cost(SubSeq(A, Rolling!FoldThrough(A) + 1, Len(A))) <= LineBudget + c
<1>1. Len(A) \in Nat /\ Len(A) >= 1 /\ \A k \in 1..Len(A) : A[k].role \in {"user", "character"}
  <2>1. Len(A) \in Nat /\ \A k \in 1..Len(A) : A[k] \in StoredMessages
    BY ElementOfSeq DEF Conversations
  <2>2. Len(A) # 0
    BY EmptySeq DEF Conversations
  <2>3. \A k \in 1..Len(A) : A[k].role \in {"user", "character"}
    BY <2>1 DEF StoredMessages
  <2> QED BY <2>1, <2>2, <2>3
<1>2. PICK f \in [0..Len(A) -> Nat] :
        /\ \A k \in 1..Len(A) : f[k] = f[k - 1] + A[k].cost /\ A[k].cost \in Costs /\ A[k].cost \in Nat
        /\ \A i, j \in 0..Len(A) : i <= j => Rolling!Cost(SubSeq(A, i + 1, j)) = f[j] - f[i]
  BY CostOfStretch
<1>3. LineBudget \in Nat
  BY SharesCount
<1>4. PICK e : /\ e = Rolling!Edge(A, LineBudget) /\ e \in 0..Len(A)
               /\ Rolling!Cost(SubSeq(A, e + 1, Len(A))) <= LineBudget
  BY <1>3, EdgeFits
<1>5. PICK F : /\ F = Rolling!FoldThrough(A)
               /\ F = Rolling!Largest({0} \cup {i \in 1..e : A[i].role = "character"})
  BY <1>4 DEF Rolling!FoldThrough, Rolling!EndOfTurn, LineBudget
<1> DEFINE ends == {0} \cup {i \in 1..e : A[i].role = "character"}
<1>6. F \in ends /\ \A y \in ends : y <= F
  <2>1. e \in Nat /\ ends \in SUBSET (0..e) /\ ends # {}
    BY <1>1, <1>4
  <2>2. F = Rolling!Largest(ends)
    BY <1>5
  <2> HIDE DEF ends
  <2> QED BY <2>1, <2>2, GreatestOf
<1>7. CASE F = e
  <2>1. A[1].cost \in Costs /\ A[1].cost \in Nat
    BY <1>1, <1>2
  <2>2. Rolling!Cost(SubSeq(A, F + 1, Len(A))) = f[Len(A)] - f[F]
    <3>1. F \in 0..Len(A) /\ Len(A) \in 0..Len(A) /\ F <= Len(A)
      BY <1>1, <1>4, <1>7
    <3> QED BY <1>2, <3>1
  <2>3. f[Len(A)] \in Nat /\ f[F] \in Nat
    BY <1>1, <1>2, <1>4, <1>7
  <2>4. f[Len(A)] - f[F] <= LineBudget
    BY <1>4, <1>7, <2>2
  <2>5. f[Len(A)] - f[F] <= LineBudget + A[1].cost
    BY <1>3, <2>1, <2>3, <2>4
  <2> QED BY <1>5, <2>1, <2>2, <2>5
<1>8. CASE F # e
  <2>1. e \in 1..Len(A) /\ A[e].role # "character"
    <3>1. e # 0
      BY <1>6, <1>8
    <3>2. e \in 1..e /\ e \in 1..Len(A)
      BY <1>1, <1>4, <3>1
    <3>3. A[e].role = "character" => e \in ends
      BY <3>2
    <3>4. F \in 0..e
      BY <1>1, <1>4, <1>6
    <3> HIDE DEF ends
    <3>5. A[e].role = "character" => F = e
      BY <1>6, <3>2, <3>3, <3>4
    <3> QED BY <1>8, <3>2, <3>5
  <2>2. e - F <= 1
    BY <1>4, <1>5 DEF OneLineWaits
  <2>3. F = e - 1
    <3>1. F \in 0..e /\ e \in Nat
      BY <1>1, <1>4, <1>6
    <3>2. F \in Int /\ e \in Int /\ F <= e /\ F # e
      BY <1>8, <3>1
    <3> HIDE DEF ends
    <3> QED BY <2>2, <3>2
  <2>4. f[e] = f[F] + A[e].cost /\ A[e].cost \in Costs /\ A[e].cost \in Nat
    BY <1>2, <2>1, <2>3
  <2>5. /\ Rolling!Cost(SubSeq(A, e + 1, Len(A))) = f[Len(A)] - f[e]
        /\ Rolling!Cost(SubSeq(A, F + 1, Len(A))) = f[Len(A)] - f[F]
    <3>1. F \in 0..Len(A) /\ Len(A) \in 0..Len(A) /\ F <= Len(A) /\ e \in 0..Len(A) /\ e <= Len(A)
      BY <1>1, <2>1, <2>3
    <3> QED BY <1>2, <3>1
  <2>6. f[Len(A)] \in Nat /\ f[F] \in Nat /\ f[e] \in Nat
    <3>1. F \in 0..Len(A) /\ Len(A) \in 0..Len(A)
      BY <1>1, <2>1, <2>3
    <3> QED BY <1>2, <1>4, <3>1
  <2>7. f[Len(A)] - f[F] <= LineBudget + A[e].cost
    BY <1>3, <1>4, <2>4, <2>5, <2>6
  <2> QED BY <1>5, <2>4, <2>5, <2>7
<1> QED BY <1>7, <1>8

\* A recap that covers the turns up to the fold line stopped there or further on.
LEMMA PastFoldLine ==
  ASSUME NEW A \in Conversations, NEW c \in Nat
  PROVE  LET i == Rolling!IndexAfterTurn(A, c)
             F == Rolling!FoldThrough(A)
         IN  /\ i \in 0..Len(A) /\ F \in 0..Len(A)
             /\ Rolling!TurnsBefore(A, F) <= c => F <= i
<1>1. Len(A) \in Nat /\ DOMAIN A = 1..Len(A)
  BY DEF Conversations
<1>2. PICK F : F = Rolling!FoldThrough(A)
  OBVIOUS
<1>3. F \in 0..Len(A) /\ (F # 0 => A[F].role = "character")
  BY <1>2, FoldLine
<1>4. PICK i : i = Rolling!IndexAfterTurn(A, c)
  OBVIOUS
<1>5. CASE c > Rolling!TurnsBefore(A, Len(A))
  <2>1. Rolling!TurnsBefore(A, Len(A)) \in Nat
    BY <1>1, TurnsCount
  <2>2. i = Len(A)
    BY <1>4, <1>5, <2>1 DEF Rolling!IndexAfterTurn
  <2> QED BY <1>1, <1>2, <1>3, <1>4, <2>2
<1>6. CASE ~(c > Rolling!TurnsBefore(A, Len(A)))
  <2>1. c <= Rolling!TurnsBefore(A, Len(A))
    BY <1>1, <1>6, TurnsCount
  <2>2. i \in 0..Len(A) /\ Rolling!TurnsBefore(A, i) = c
    BY <1>4, <2>1, StopsAfterTurns
  <2>3. ASSUME i < F PROVE c < Rolling!TurnsBefore(A, F)
    <3>1. i \in Nat /\ F \in Nat /\ F # 0
      BY <1>1, <1>3, <2>2, <2>3
    <3> QED BY <1>3, <2>2, <2>3, <3>1, TurnsGrowAtReply
  <2>4. Rolling!TurnsBefore(A, F) \in Nat /\ i \in Nat /\ F \in Nat
    BY <1>1, <1>3, <2>2, TurnsCount
  <2>5. Rolling!TurnsBefore(A, F) <= c => F <= i
    BY <2>3, <2>4
  <2> QED BY <1>2, <1>3, <1>4, <2>2, <2>5
<1> QED BY <1>5, <1>6

\* What a pass left as it was had not filled a batch; what it folded is told up to the line.
Dealt(A, c) == ~Rolling!FoldNow(A, c) \/ c = Rolling!TurnsBefore(A, Rolling!FoldThrough(A))

\* The window has room for what stands past the fold line, a line that waits for its reply
\* and a batch that is not yet full.
FloorRoom ==
  \A c \in Costs, n \in {0} \cup 0..Batch - 1 : LineBudget + c + n <= Rolling!WindowBudget

LEMMA WindowRoom == Rolling!WindowBudget \in Nat
<1>1. Total \in Nat /\ Reserved \in Nat /\ RecapShare \in 0..100
  BY PartsAssumption
<1>2. CASE Reserved >= Total
  BY <1>2 DEF Rolling!WindowBudget
<1>3. CASE ~(Reserved >= Total)
  <2>1. PICK rest \in Nat : rest = Total - Reserved
    BY <1>1, <1>3
  <2>2. Rolling!Share(rest, RecapShare) \in 0..rest
    BY <1>1, ShareOfBudget DEF Rolling!Share
  <2>3. Rolling!WindowBudget = rest - Rolling!Share(rest, RecapShare)
    BY <1>3, <2>1 DEF Rolling!WindowBudget
  <2> QED BY <2>2, <2>3
<1> QED BY <1>2, <1>3

\* What the recap does not tell is in the window.
LEMMA FloorOf ==
  ASSUME NEW A \in Conversations, A # <<>>, OneLineWaits(A), NEW c \in Nat, Dealt(A, c), FloorRoom
  PROVE  Rolling!Edge(A, Rolling!WindowBudget) <= Rolling!IndexAfterTurn(A, c)
<1>1. Len(A) \in Nat
  BY DEF Conversations
<1>2. PICK f \in [0..Len(A) -> Nat] :
        \A i, j \in 0..Len(A) : i <= j => /\ Rolling!Cost(SubSeq(A, i + 1, j)) = f[j] - f[i]
                                          /\ f[i] <= f[j]
  BY CostOfStretch
<1>3. PICK F, i : F = Rolling!FoldThrough(A) /\ i = Rolling!IndexAfterTurn(A, c)
  OBVIOUS
<1>4. /\ i \in 0..Len(A) /\ F \in 0..Len(A)
      /\ Rolling!TurnsBefore(A, F) <= c => F <= i
  BY <1>3, PastFoldLine
<1>5. PICK n \in Nat : n = Len(A) /\ n \in 0..Len(A)
  BY <1>1
<1>6. f[n] \in Nat /\ f[F] \in Nat /\ f[i] \in Nat /\ F <= n /\ i <= n
  BY ONLY SMTT(30), <1>2, <1>4, <1>5
<1>7. PICK m \in Costs : f[n] - f[F] <= LineBudget + m
  <2>1. PICK m \in Costs : Rolling!Cost(SubSeq(A, F + 1, n)) <= LineBudget + m
    BY <1>3, <1>5, PastTheLine
  <2>2. Rolling!Cost(SubSeq(A, F + 1, n)) = f[n] - f[F]
    BY <1>2, <1>4, <1>5, <1>6
  <2> QED BY <2>1, <2>2
<1>8. LineBudget \in Nat /\ Batch \in Nat /\ m \in Nat /\ Rolling!WindowBudget \in Nat
  BY SharesCount, WindowRoom, PartsAssumption
<1>9. f[n] - f[i] <= Rolling!WindowBudget
  <2>1. CASE F <= i
    <3>1. f[F] <= f[i]
      BY <1>2, <1>4, <2>1
    <3>2. LineBudget + m + 0 <= Rolling!WindowBudget
      BY DEF FloorRoom
    <3> QED BY <1>6, <1>7, <1>8, <3>1, <3>2
  <2>2. CASE ~(F <= i)
    <3>1. i < F /\ i + 1 <= F /\ i + 1 \in 1..Len(A) + 1
      BY <1>1, <1>4, <2>2
    <3>2. Rolling!TurnsBefore(A, F) \in Nat /\ Rolling!TurnsBefore(A, F) > c
      <4>1. Rolling!TurnsBefore(A, F) \in Nat
        BY <1>4, TurnsCount
      <4> QED BY <1>4, <2>2, <4>1
    <3>3. ~Rolling!FoldNow(A, c)
      BY <1>3, <3>2 DEF Dealt
    <3>4. Rolling!Pending(A, c) = SubSeq(A, i + 1, F)
      BY <1>3 DEF Rolling!Pending
    <3>5. SubSeq(A, i + 1, F) # <<>>
      <4>1. PICK between : between = SubSeq(A, i + 1, F)
        OBVIOUS
      <4>2. Len(between) = F - (i + 1) + 1
        BY <1>1, <1>4, <3>1, <4>1, SubSeqProperties DEF Conversations
      <4>3. F - (i + 1) + 1 # 0
        BY <1>4, <3>1
      <4>4. between # <<>>
        BY <4>2, <4>3
      <4> QED BY <4>1, <4>4
    <3>6. ~(Rolling!Cost(SubSeq(A, i + 1, F)) >= Batch)
      BY <1>3, <3>2, <3>3, <3>4, <3>5 DEF Rolling!FoldNow, Batch
    <3>7. Rolling!Cost(SubSeq(A, i + 1, F)) = f[F] - f[i] /\ f[i] <= f[F]
      BY <1>2, <1>4, <3>1
    <3>8. PICK less \in Nat : less = f[F] - f[i]
      BY <1>6, <3>7
    <3>9. less \in 0..Batch - 1
      BY <1>8, <3>6, <3>7, <3>8
    <3>10. LineBudget + m + less <= Rolling!WindowBudget
      BY <3>9 DEF FloorRoom
    <3>11. f[n] - f[i] = (f[n] - f[F]) + less
      BY <1>6, <3>8
    <3>12. f[n] - f[i] \in Int /\ f[n] - f[F] \in Int
      BY <1>6
    <3> QED BY ONLY <1>7, <1>8, <3>8, <3>10, <3>11, <3>12
  <2> QED BY <2>1, <2>2
<1>10. Rolling!Cost(SubSeq(A, i + 1, n)) <= Rolling!WindowBudget
  BY <1>2, <1>4, <1>5, <1>6, <1>9
<1> QED BY <1>3, <1>4, <1>5, <1>8, <1>10, EdgeFits

FloorInv ==
  /\ RollingInvariant
  /\ Dealt(settled, recap.covers)
  /\ \A p \in Rolling!Passes :
       passAt[p] \in {"condense", "save"} => Dealt(local[p].msgs, local[p].draft.covers)

\* No step undoes the invariant.
LEMMA FloorNext == FloorInv /\ [Next]_vars => FloorInv'
<1> SUFFICES ASSUME FloorInv, [Next]_vars PROVE FloorInv'
  OBVIOUS
<1>1. RollingInvariant'
  BY RollingNext DEF FloorInv
<1>2. /\ DOMAIN passAt = Rolling!Passes /\ DOMAIN local = Rolling!Passes
      /\ \A p \in Rolling!Passes : local[p] = [msgs |-> local[p].msgs, stored |-> local[p].stored, draft |-> local[p].draft]
  BY DEF FloorInv, RollingInvariant, RollingInv, Grown, PassHolds
<1>3. ASSUME NEW p \in Rolling!Passes, NEW where, NEW v, Rolling!Goto(p, where, v),
             where \in {"condense", "save"} => Dealt(v.msgs, v.draft.covers)
      PROVE  \A q \in Rolling!Passes :
               passAt'[q] \in {"condense", "save"} => Dealt(local'[q].msgs, local'[q].draft.covers)
  <2> SUFFICES ASSUME NEW q \in Rolling!Passes, passAt'[q] \in {"condense", "save"}
               PROVE  Dealt(local'[q].msgs, local'[q].draft.covers)
    OBVIOUS
  <2>1. CASE q = p
    <3>1. passAt'[q] = where /\ local'[q] = v
      BY <1>2, <1>3, <2>1 DEF Rolling!Goto
    <3> QED BY <1>3, <3>1
  <2>2. CASE q # p
    <3>1. passAt'[q] = passAt[q] /\ local'[q] = local[q]
      BY <1>2, <1>3, <2>2 DEF Rolling!Goto
    <3> QED BY <3>1 DEF FloorInv
  <2> QED BY <2>1, <2>2
<1>4. ASSUME NEW p \in Rolling!Passes, Rolling!End(p)
      PROVE  \A q \in Rolling!Passes :
               passAt'[q] \in {"condense", "save"} => Dealt(local'[q].msgs, local'[q].draft.covers)
  BY <1>3, <1>4 DEF Rolling!End
<1>5. CASE UNCHANGED RollingVars
  BY <1>1, <1>5 DEF RollingVars, FloorInv
<1>6. ASSUME NEW size \in Costs, Rolling!PlayerWrites(size) \/ Rolling!NarratorWrites(size) PROVE FloorInv'
  <2>1. UNCHANGED <<recap, passAt, local, settled>>
    BY <1>6 DEF Rolling!PlayerWrites, Rolling!NarratorWrites
  <2> QED BY <1>1, <2>1 DEF FloorInv
<1>7. CASE Rolling!Peel
  <2>1. UNCHANGED <<recap, passAt, local, settled>>
    BY <1>7 DEF Rolling!Peel
  <2> QED BY <1>1, <2>1 DEF FloorInv
<1>8. ASSUME NEW p \in Rolling!Passes, Rolling!Load(p) PROVE FloorInv'
  <2>1. UNCHANGED <<store, recap, settled>>
    BY <1>8 DEF Rolling!Load
  <2>2. CASE UNCHANGED <<passAt, local>>
    BY <1>1, <2>1, <2>2 DEF FloorInv
  <2>3. CASE \E v : Rolling!Goto(p, "look", v)
    <3>1. \A q \in Rolling!Passes :
            passAt'[q] \in {"condense", "save"} => Dealt(local'[q].msgs, local'[q].draft.covers)
      BY <1>3, <2>3
    <3> QED BY <1>1, <2>1, <3>1 DEF FloorInv
  <2> QED BY <1>8, <2>2, <2>3 DEF Rolling!Load
<1>9. ASSUME NEW p \in Rolling!Passes, Rolling!Look(p) PROVE FloorInv'
  <2>1. PICK v : v = [msgs |-> local[p].msgs, stored |-> recap, draft |-> recap]
    OBVIOUS
  <2>2. v.msgs = local[p].msgs /\ v.draft = recap
    BY <2>1
  <2>3. /\ UNCHANGED <<store, recap>>
        /\ \/ Rolling!Goto(p, "summarize", v) /\ UNCHANGED settled
           \/ Rolling!Goto(p, "condense", v) /\ UNCHANGED settled /\ ~Rolling!FoldNow(v.msgs, recap.covers)
           \/ Rolling!End(p) /\ settled' = v.msgs /\ ~Rolling!FoldNow(v.msgs, recap.covers)
    BY <1>9, <2>1 DEF Rolling!Look
  <2>4. \A q \in Rolling!Passes :
          passAt'[q] \in {"condense", "save"} => Dealt(local'[q].msgs, local'[q].draft.covers)
    <3>1. ~Rolling!FoldNow(v.msgs, recap.covers) => Dealt(v.msgs, v.draft.covers)
      BY <2>2 DEF Dealt
    <3> QED BY <1>3, <1>4, <2>3, <3>1
  <2>5. Dealt(settled', recap'.covers)
    BY <2>3 DEF FloorInv, Dealt
  <2> QED BY <1>1, <2>3, <2>4, <2>5 DEF FloorInv
<1>10. ASSUME NEW p \in Rolling!Passes, NEW long \in BOOLEAN, Rolling!Summarize(p, long) PROVE FloorInv'
  <2>1. PICK v : v = [local[p] EXCEPT !.draft = Rolling!Folded(local[p], long)]
    OBVIOUS
  <2>2. v.msgs = local[p].msgs /\ v.draft = Rolling!Folded(local[p], long)
    BY <1>2, <2>1
  <2>3. v.draft.covers = Rolling!TurnsBefore(v.msgs, Rolling!FoldThrough(v.msgs))
    BY <2>2 DEF Rolling!Folded
  <2>4. Dealt(v.msgs, v.draft.covers)
    BY <2>3 DEF Dealt
  <2>5. UNCHANGED <<store, recap, settled>> /\ \E where : Rolling!Goto(p, where, v)
    BY <1>10, <2>1 DEF Rolling!Summarize
  <2>6. \A q \in Rolling!Passes :
          passAt'[q] \in {"condense", "save"} => Dealt(local'[q].msgs, local'[q].draft.covers)
    BY <1>3, <2>4, <2>5
  <2> QED BY <1>1, <2>5, <2>6 DEF FloorInv
<1>11. ASSUME NEW p \in Rolling!Passes, NEW succeeds \in BOOLEAN, NEW long \in BOOLEAN,
              Rolling!Condense(p, succeeds, long)
       PROVE  FloorInv'
  <2>1. passAt[p] = "condense" /\ Dealt(local[p].msgs, local[p].draft.covers) /\ UNCHANGED <<store, recap>>
    BY <1>11 DEF Rolling!Condense, FloorInv
  <2>2. PICK v : v = [local[p] EXCEPT !.draft.long = long]
    OBVIOUS
  <2>3. v.msgs = local[p].msgs /\ v.draft.covers = local[p].draft.covers
    <3>1. PICK held : held = local[p] /\ held = [msgs |-> held.msgs, stored |-> held.stored, draft |-> held.draft]
      BY <1>2
    <3>2. \E w : held.draft \in Recap(w)
      BY <3>1 DEF FloorInv, RollingInvariant, RollingInv, PassHolds
    <3>3. PICK d : d = held.draft /\ d = [told |-> d.told, covers |-> d.covers, long |-> d.long]
      BY <3>2 DEF Recap
    <3>4. v = [held EXCEPT !.draft = [d EXCEPT !.long = long]]
      BY <2>2, <3>1, <3>3
    <3> QED BY <3>1, <3>3, <3>4
  <2>4. \/ Rolling!Goto(p, "save", v) /\ UNCHANGED settled
        \/ Rolling!Goto(p, "save", local[p]) /\ UNCHANGED settled
        \/ /\ Rolling!End(p) /\ local[p].draft = local[p].stored
           /\ settled' = IF recap = local[p].stored THEN local[p].msgs ELSE settled
    BY <1>11, <2>2 DEF Rolling!Condense
  <2>5. \A q \in Rolling!Passes :
          passAt'[q] \in {"condense", "save"} => Dealt(local'[q].msgs, local'[q].draft.covers)
    <3>1. Dealt(v.msgs, v.draft.covers)
      BY <2>1, <2>3
    <3> QED BY <1>3, <1>4, <2>1, <2>4, <3>1
  <2>6. Dealt(settled', recap'.covers)
    BY <2>1, <2>4 DEF FloorInv
  <2> QED BY <1>1, <2>1, <2>5, <2>6 DEF FloorInv
<1>12. ASSUME NEW p \in Rolling!Passes, Rolling!Save(p) PROVE FloorInv'
  <2>1. /\ Dealt(local[p].msgs, local[p].draft.covers) /\ recap' = local[p].draft
        /\ settled' = local[p].msgs /\ Rolling!End(p) /\ store' = store
    BY <1>12 DEF Rolling!Save, FloorInv
  <2> QED BY <1>1, <1>4, <2>1 DEF FloorInv
<1>13. ASSUME NEW p \in Rolling!Passes, Rolling!FailPass(p) PROVE FloorInv'
  <2>1. Rolling!End(p) /\ UNCHANGED <<store, recap, settled>>
    BY <1>13 DEF Rolling!FailPass
  <2> QED BY <1>1, <1>4, <2>1 DEF FloorInv
<1>14. CASE Rolling!Crash
  <2>1. UNCHANGED <<store, recap, settled>> /\ \A p \in Rolling!Passes : passAt'[p] = "idle"
    BY <1>14 DEF Rolling!Crash
  <2> QED BY <1>1, <2>1 DEF FloorInv
<1>15. CASE Rolling!Next
  BY <1>6, <1>7, <1>8, <1>9, <1>10, <1>11, <1>12, <1>13, <1>14, <1>15 DEF Rolling!Next, Rolling!PassStep
<1> QED BY <1>5, <1>15 DEF Next, vars

\* The floor holds wherever the window has room for what stands past the fold line, one line
\* that waits for its reply and a batch short of one token: then no message is out of both
\* the recap and the prompt, whatever passes overlap, fail, die or are overtaken -- except in
\* a story whose fold line falls behind lines left without a reply, as FloorHolds says.
\* Nothing in the code keeps a configuration to this room (rolling_summary_source.py:177-180,
\* settings.py:82-95).
THEOREM FloorHeld == ASSUME FloorRoom PROVE Spec => []FloorHolds
<1>1. Init => FloorInv
  <2> SUFFICES ASSUME Init PROVE FloorInv
    OBVIOUS
  <2>1. /\ store = <<>> /\ settled = <<>> /\ recap = Rolling!NoRecap
        /\ passAt = [p \in Rolling!Passes |-> "idle"]
    BY DEF Init, Rolling!Init
  <2>2. Dealt(<<>>, 0)
    <3>1. PICK A : A = <<>> /\ A \in Conversations /\ Len(A) = 0
      BY EmptySeq DEF Conversations
    <3>2. Rolling!FoldThrough(A) = 0
      BY <3>1, FoldLine
    <3> QED BY <3>1, <3>2, NoTurnsYet DEF Dealt
  <2>3. RollingInvariant
    BY RollingInit
  <2> QED BY <2>1, <2>2, <2>3 DEF FloorInv, Rolling!NoRecap
<1>2. FloorInv => FloorHolds
  <2> SUFFICES ASSUME FloorInv, settled = store, ~Rolling!PulledBackOverUnanswered, ~Rolling!Deleted,
                      NEW i \in 1..Rolling!Edge(store, Rolling!WindowBudget)
               PROVE  store[i].id \in recap.told
    BY DEF FloorHolds, Rolling!FloorHolds
  <2>1. PICK upTo : RollingInv(upTo)
    BY DEF FloorInv, RollingInvariant
  <2>2. PICK c \in Nat : c = recap.covers
    BY <2>1 DEF RollingInv, Sound, Recap
  <2>3. store \in Conversations /\ Len(store) \in Nat
    BY <2>1 DEF RollingInv, Grown, Conversations
  <2>4. PICK to : to = Rolling!IndexAfterTurn(store, c) /\ to \in 0..Len(store)
    BY <2>3, PastFoldLine
  <2>5. Rolling!Edge(store, Rolling!WindowBudget) \in 0..Len(store)
    BY <2>3, WindowRoom, EdgeFits
  <2>6. Rolling!Edge(store, Rolling!WindowBudget) <= to
    <3>1. OneLineWaits(store)
      <4>1. Rolling!Edge(store, LineBudget) \in Int /\ Rolling!FoldThrough(store) \in Int
        BY <2>3, SharesCount, EdgeFits, FoldLine
      <4>2. ~(Rolling!Edge(store, LineBudget) - Rolling!FoldThrough(store) > 1)
        BY DEF Rolling!PulledBackOverUnanswered, LineBudget
      <4> QED BY <4>1, <4>2 DEF OneLineWaits
    <3>2. store # <<>>
      <4>1. store = <<>> => Len(store) = 0
        BY EmptySeq
      <4> QED BY <2>3, <2>5, <4>1
    <3> QED BY <2>2, <2>3, <2>4, <3>1, <3>2, FloorOf DEF FloorInv
  <2>7. i \in 1..to
    BY <2>3, <2>4, <2>5, <2>6
  <2>8. recap.told = Rolling!Ids(SubSeq(store, 1, to))
    BY <2>1, <2>2, <2>4, SoundTells
  <2>9. Rolling!Ids(SubSeq(store, 1, to)) = {store[j].id : j \in 1..to}
    <3>1. 1 \in 1..Len(store) + 1
      BY <2>3
    <3> QED BY <2>3, <2>4, <3>1, IdsOf
  <2> QED BY <2>7, <2>8, <2>9
<1> QED BY <1>1, <1>2, FloorNext, PTL DEF Spec
=============================================================================
