----------------------------- MODULE BetaAccess -----------------------------
(***************************************************************************)
(* Access to the closed beta: the request files of TelegramBetaRegistry,   *)
(* the allowlist of TelegramAuthorization (in memory, with users.json      *)
(* behind it), /beta and the admin's commands in adapter.py, and the       *)
(* panel's block and unblock.  Telegram updates are handled one at a time  *)
(* and suspend at every registry call; the panel runs in between.          *)
(***************************************************************************)
EXTENDS Integers

CONSTANTS
  Users,      \* Telegram users
  Nobody,
  MaxFaults   \* bound: deaths of the process and failed writes of users.json

VARIABLES
  allowed,   \* _allowed_user_ids
  file,      \* users.json: whether it can be parsed, and the ids in it
  queue,     \* users with a readable request file
  torn,      \* users whose request file was cut off while it was written
  at,        \* where the handler of the current update is suspended
  up,
  faults,
  dirty,     \* history: the last write of users.json failed
  decided,   \* history: users whose request is decided on disk
  approved,  \* history: users the admin was told are authorized, unless blocked since
  blocked    \* history: users the panel blocked, unless let in since

vars == <<allowed, file, queue, torn, at, up, faults, dirty, decided,
          approved, blocked>>

Idle == [step |-> "idle", user |-> Nobody, accepts |-> FALSE, blocked |-> FALSE]

Fault == faults < MaxFaults /\ faults' = faults + 1

Init ==
  /\ allowed = {} /\ file = [ok |-> TRUE, ids |-> {}]
  /\ queue = {} /\ torn = {}
  /\ at = Idle /\ up = TRUE /\ faults = 0
  /\ dirty = FALSE
  /\ decided = {} /\ approved = {} /\ blocked = {}
-----------------------------------------------------------------------------
(* The allowlist.                                                          *)

\* persist writes the whole set; when the write raises, memory is already changed and the
\* file is either untouched or truncated.
Persist(ids) ==
  \/ /\ file' = [ok |-> TRUE, ids |-> ids]
     /\ dirty' = FALSE
     /\ UNCHANGED faults
  \/ /\ Fault
     /\ dirty' = TRUE
     /\ file' \in {file, [ok |-> FALSE, ids |-> {}]}

\* block_user and unblock_user: no await between the set and the file.
Block(u) ==
  /\ up
  /\ allowed' = allowed \ {u}
  /\ Persist(allowed')
  /\ approved' = approved \ {u}
  /\ blocked' = IF dirty' THEN blocked ELSE blocked \cup {u}
  /\ at' = [at EXCEPT !.blocked = @ \/ at.user = u]
  /\ UNCHANGED <<queue, torn, up, decided>>

Unblock(u) ==
  /\ up
  /\ allowed' = allowed \cup {u}
  /\ Persist(allowed')
  /\ blocked' = blocked \ {u}
  /\ UNCHANGED <<queue, torn, at, up, decided, approved>>
-----------------------------------------------------------------------------
(* /beta.                                                                  *)

\* A request file that exists, readable or not, is only acknowledged; otherwise the write
\* is handed to a thread.
Beta(u) ==
  /\ up /\ at = Idle
  /\ u \notin queue \cup torn
  /\ at' = [Idle EXCEPT !.step = "write", !.user = u]
  /\ UNCHANGED <<allowed, file, queue, torn, up, faults, dirty, decided, approved, blocked>>

\* _write_request.
Write ==
  /\ up /\ at.step = "write"
  /\ queue' = queue \cup {at.user}
  /\ decided' = decided \ {at.user}
  /\ at' = Idle
  /\ UNCHANGED <<allowed, file, torn, up, faults, dirty, approved, blocked>>
-----------------------------------------------------------------------------
(* /admin_beta_list, _accept and _reject.                                  *)

\* _resolve_beta_request_target lists the readable requests, oldest first, and takes one by
\* its id or its position in the list.
Resolve(verdict, u) ==
  /\ up /\ at = Idle
  /\ u \in queue
  /\ at' = [Idle EXCEPT !.step = verdict, !.user = u, !.accepts = (verdict = "accept")]
  /\ UNCHANGED <<allowed, file, queue, torn, up, faults, dirty, decided, approved, blocked>>

\* Mutant: the allowlist is written before the user is added to it.
GrantPersistFirst ==
  LET u == at.user IN
  /\ up /\ at.step = "accept" /\ u \notin allowed
  /\ allowed' = allowed \cup {u}
  /\ Persist(allowed)
  /\ blocked' = blocked \ {u}
  /\ decided' = IF dirty' THEN decided ELSE decided \cup {u}
  /\ at' = IF dirty' THEN Idle ELSE [at EXCEPT !.step = "remove"]
  /\ UNCHANGED <<queue, torn, up, approved>>

\* The user is added and the allowlist written, in one go; a write that raises ends the
\* handler.
Grant ==
  LET u == at.user IN
  /\ up /\ at.step = "accept" /\ u \notin allowed
  /\ allowed' = allowed \cup {u}
  /\ Persist(allowed')
  /\ blocked' = blocked \ {u}
  /\ decided' = IF dirty' THEN decided ELSE decided \cup {u}
  /\ at' = IF dirty' THEN Idle ELSE [at EXCEPT !.step = "remove"]
  /\ UNCHANGED <<queue, torn, up, approved>>

\* ... or they are in the allowlist of the process already, and nothing is written.
GrantedBefore ==
  /\ up /\ at.step = "accept" /\ at.user \in allowed
  /\ decided' = decided \cup IF file.ok THEN {at.user} \cap file.ids ELSE {}
  /\ at' = [at EXCEPT !.step = "remove"]
  /\ UNCHANGED <<allowed, file, queue, torn, up, faults, dirty, approved, blocked>>

\* Mutant: the request is taken off the list first, and archived afterwards.
ArchiveLast ==
  /\ up /\ at.step = "reject"
  /\ queue' = queue \ {at.user}
  /\ at' = Idle
  /\ decided' = decided \cup {at.user}
  /\ UNCHANGED <<allowed, file, torn, up, faults, dirty, approved, blocked>>

\* archive_rejection writes the archive first ...
Archive ==
  /\ up /\ at.step = "reject"
  /\ decided' = decided \cup {at.user}
  /\ at' = [at EXCEPT !.step = "remove"]
  /\ UNCHANGED <<allowed, file, queue, torn, up, faults, dirty, approved, blocked>>

\* ... then it, and remove_request, unlinks the file.
Unlink ==
  /\ up /\ at.step = "remove"
  /\ queue' = queue \ {at.user}
  /\ at' = [at EXCEPT !.step = "tell"]
  /\ UNCHANGED <<allowed, file, torn, up, faults, dirty, decided, approved, blocked>>

\* The admin is told, and an approved user notified.
Tell ==
  /\ up /\ at.step = "tell"
  /\ approved' = IF at.accepts /\ ~at.blocked THEN approved \cup {at.user} ELSE approved
  /\ at' = Idle
  /\ UNCHANGED <<allowed, file, queue, torn, up, faults, dirty, decided, blocked>>
-----------------------------------------------------------------------------
(* The process.                                                            *)

\* It dies: a file that was being written is left cut off.
Crash ==
  /\ up
  /\ Fault
  /\ up' = FALSE
  /\ torn' \in {torn} \cup IF at.step = "write" THEN {torn \cup {at.user}} ELSE {}
  /\ file' \in {file} \cup IF at.step = "accept" THEN {[ok |-> FALSE, ids |-> {}]} ELSE {}
  /\ dirty' = (dirty \/ ~file'.ok)
  /\ at' = Idle
  /\ UNCHANGED <<allowed, queue, decided, approved, blocked>>

\* from_directory: a users.json it cannot parse makes the start fail.
Start ==
  /\ ~up /\ file.ok
  /\ up' = TRUE
  /\ allowed' = file.ids
  /\ dirty' = FALSE
  /\ approved' = IF dirty THEN {} ELSE approved
  /\ blocked' = IF dirty THEN {} ELSE blocked
  /\ UNCHANGED <<file, queue, torn, at, faults, decided>>

\* Nothing in the code repairs it: the operator deletes the file.
Repair ==
  /\ ~up /\ ~file.ok
  /\ file' = [ok |-> TRUE, ids |-> {}]
  /\ UNCHANGED <<allowed, queue, torn, at, up, faults, dirty, decided, approved, blocked>>

Next ==
  \/ \E u \in Users :
       \/ Block(u) \/ Unblock(u) \/ Beta(u)
       \/ \E verdict \in {"accept", "reject"} : Resolve(verdict, u)
  \/ Write \/ Grant \/ GrantedBefore \/ Archive \/ Unlink \/ Tell
  \/ Crash \/ Start \/ Repair

Spec == Init /\ [][Next]_vars
-----------------------------------------------------------------------------
(* Properties.                                                             *)

\* Who was told to be in stays in and who was blocked stays out, over restarts, requests
\* that race with the panel, and repeated decisions; unless the last write of users.json
\* had failed when the process ended, which nobody reports at the next start.
AccessHolds == up => approved \subseteq allowed /\ blocked \cap allowed = {}

\* A request leaves the list only once its decision is on disk, so that a crash loses
\* neither (persist before remove_request, the archive before unlink); unless the panel
\* blocked the user meanwhile, or users.json could not be written.
RequestOutlivesDecision ==
  [][\A u \in queue \ queue' :
       u \in decided \cup file.ids \/ at.blocked \/ dirty]_vars

=============================================================================
