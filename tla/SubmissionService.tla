-------------------------- MODULE SubmissionService --------------------------
(***************************************************************************)
(* The backend's submission service (apps/backend/src/vault.ts) with its    *)
(* journal (journal.ts).  A transfer is prepared under an id of the         *)
(* client's choosing, approved by one passkey or both, and broadcast by the *)
(* call that brings the last approval.  Requests and approvals live in      *)
(* memory, the journal is written to disk at every change.  Each call runs  *)
(* up to an await - a signature check, the broadcast, a reconciliation -    *)
(* and others run before it goes on; the process may die at any time.       *)
(*                                                                         *)
(* A call that changes nothing - refused, or answered with a status - is no *)
(* step.                                                                    *)
(***************************************************************************)
EXTENDS Integers

CONSTANTS
  Ids,                (* idempotency keys                                     *)
  Digests,            (* Safe transaction digests                             *)
  Requests,           (* requests that pass assertCanonicalRequest            *)
  Calls,              (* calls of submitPrimary and submitSecondary           *)
  BaseDailyLimit,
  InstantDailyLimit,
  None

ASSUME SubmissionAssumption ==
  /\ BaseDailyLimit \in Nat /\ InstantDailyLimit \in Nat
  /\ Requests \subseteq [digest: Digests, amount: Nat, baseSpent: Nat, instantSpent: Nat]
  /\ None \notin Requests /\ None \notin Digests

VARIABLES
  requests,   (* memory: the request prepared under each id                   *)
  approvals,  (* memory: under each id, which role approved which digest      *)
  journal,    (* disk: state of each id                                       *)
  bound,      (* disk: digest of each id                                      *)
  calls,      (* where each call waits, and what it holds meanwhile           *)
  attempted,  (* history: ids this process has begun to broadcast             *)
  ended,      (* history: ids of which a broadcast has ended                  *)
  halfway     (* history: ids that a crash left at "submitted", until another *)
              (* broadcast of them ends                                      *)

memory == <<requests, approvals>>
disk == <<journal, bound>>
history == <<attempted, ended, halfway>>
vars == <<memory, disk, calls, history>>

Roles == {"primary", "secondary"}
Approval == [role: Roles, digest: Digests]
JournalStates == {"none", "prepared", "submitted", "uncertain", "confirmed", "reverted"}
Settled == {"confirmed", "reverted"}

RequiredApprovals(r) ==
  CASE r.baseSpent + r.amount <= BaseDailyLimit -> "primary"
    [] r.instantSpent + r.amount <= InstantDailyLimit -> "secondary"
    [] OTHER -> "delayed"

RequiredRoles(r) == IF RequiredApprovals(r) = "primary" THEN {"primary"} ELSE Roles

Idle == [pc |-> "idle", id |-> None, request |-> None, role |-> None, carries |-> {}]

Call == [pc: {"verifying", "broadcasting", "reconciling"}, id: Ids, request: Requests,
         role: Roles, carries: SUBSET Approval] \cup {Idle}

In(pc, c) == calls[c].pc = pc

-----------------------------------------------------------------------------
Init ==
  /\ requests = [id \in Ids |-> None]
  /\ approvals = [id \in Ids |-> {}]
  /\ journal = [id \in Ids |-> "none"]
  /\ bound = [id \in Ids |-> None]
  /\ calls = [c \in Calls |-> Idle]
  /\ attempted = {} /\ ended = {} /\ halfway = {}

PrepareEntryUnbound(id, r) ==
  /\ journal[id] # "uncertain"
  /\ journal' = [journal EXCEPT ![id] = IF @ = "none" THEN "prepared" ELSE @]
  /\ bound' = [bound EXCEPT ![id] = IF @ = None THEN r.digest ELSE @]

PrepareEntryAfresh(id, r) ==
  /\ journal[id] # "none" => bound[id] = r.digest
  /\ journal' = [journal EXCEPT ![id] = IF @ \in Settled THEN @ ELSE "prepared"]
  /\ bound' = [bound EXCEPT ![id] = r.digest]

(* SubmissionJournal.prepare: a known id keeps its digest and its state.    *)
PrepareEntry(id, r) ==
  /\ journal[id] # "none" => bound[id] = r.digest /\ journal[id] # "uncertain"
  /\ journal' = [journal EXCEPT ![id] = IF @ = "none" THEN "prepared" ELSE @]
  /\ bound' = [bound EXCEPT ![id] = r.digest]

Prepare(id, r) ==
  /\ requests[id] # None => requests[id].digest = r.digest
  /\ PrepareEntry(id, r)
  /\ requests' = [requests EXCEPT ![id] = IF @ = None THEN r ELSE @]
  /\ UNCHANGED <<approvals, calls, history>>

-----------------------------------------------------------------------------
Waits(c, pc, id, request, role, carries) ==
  calls' = [calls EXCEPT ![c] = [pc |-> pc, id |-> id, request |-> request,
                                 role |-> role, carries |-> carries]]

Returns(c) == calls' = [calls EXCEPT ![c] = Idle]

BeginVerify(c, id, role) ==
  /\ In("idle", c)
  /\ requests[id] # None
  /\ Waits(c, "verifying", id, requests[id], role, approvals[id])
  /\ UNCHANGED <<memory, disk, history>>

SubmitPrimary(c, id) == approvals[id] = {} /\ BeginVerify(c, id, "primary")

SubmitSecondary(c, id) == approvals[id] # {} /\ BeginVerify(c, id, "secondary")

(* submitPrimary once more, after the approval was taken: only an uncertain *)
(* broadcast is looked into.                                               *)
RetryPrimary(c, id) ==
  /\ In("idle", c)
  /\ requests[id] # None
  /\ approvals[id] # {}
  /\ journal[id] = "uncertain"
  /\ Waits(c, "reconciling", id, requests[id], "primary", approvals[id])
  /\ UNCHANGED <<memory, disk, history>>

Continues(c, pc, carries) ==
  LET call == calls[c]
  IN  Waits(c, pc, call.id, call.request, call.role, carries)

(* broadcastOnce up to its await: what happens next is for the journal to   *)
(* say, as it is at this moment.                                           *)
BroadcastOnce(c, carries) ==
  LET id == calls[c].id
  IN  \/ /\ journal[id] = "uncertain"
         /\ Continues(c, "reconciling", carries)
         /\ UNCHANGED attempted
      \/ /\ journal[id] \in Settled
         /\ Returns(c)
         /\ UNCHANGED attempted
      \/ /\ journal[id] \in {"prepared", "submitted"}
         /\ Continues(c, "broadcasting", carries)
         /\ attempted' = attempted \cup {id}

VerifiedAlone(c) ==
  LET call == calls[c]
      approval == [role |-> call.role, digest |-> call.request.digest]
      carries == call.carries \cup {approval}
  IN  /\ In("verifying", c)
      /\ approvals' = [approvals EXCEPT ![call.id] = carries]
      /\ IF call.role = "secondary" \/ RequiredApprovals(call.request) # "delayed"
         THEN BroadcastOnce(c, carries)
         ELSE Returns(c) /\ UNCHANGED attempted
      /\ UNCHANGED <<requests, disk, ended, halfway>>

(* A good signature: the approval is noted, and the last one broadcasts.    *)
Verified(c) ==
  LET call == calls[c]
      approval == [role |-> call.role, digest |-> call.request.digest]
      carries == call.carries \cup {approval}
  IN  /\ In("verifying", c)
      /\ approvals' = [approvals EXCEPT ![call.id] = carries]
      /\ IF call.role = "secondary" \/ RequiredApprovals(call.request) = "primary"
         THEN BroadcastOnce(c, carries)
         ELSE Returns(c) /\ UNCHANGED attempted
      /\ UNCHANGED <<requests, disk, ended, halfway>>

Refused(c) ==
  /\ In("verifying", c)
  /\ Returns(c)
  /\ UNCHANGED <<memory, disk, history>>

Record(id, state) == journal' = [journal EXCEPT ![id] = state]

Ends(id) == ended' = ended \cup {id} /\ halfway' = halfway \ {id}

(* The broadcaster names a transaction hash, and the journal confirms.      *)
Broadcasted(c) ==
  /\ In("broadcasting", c)
  /\ Record(calls[c].id, "confirmed")
  /\ Ends(calls[c].id)
  /\ Returns(c)
  /\ UNCHANGED <<memory, bound, attempted>>

BroadcastFailedSilently(c) ==
  /\ In("broadcasting", c)
  /\ Ends(calls[c].id)
  /\ Returns(c)
  /\ UNCHANGED <<memory, disk, attempted>>

(* The broadcaster throws: nobody knows whether the transaction is out.     *)
BroadcastFailed(c) ==
  /\ In("broadcasting", c)
  /\ Record(calls[c].id, "uncertain")
  /\ Ends(calls[c].id)
  /\ Returns(c)
  /\ UNCHANGED <<memory, bound, attempted>>

Reconciled(c, outcome) ==
  /\ In("reconciling", c)
  /\ Record(calls[c].id, outcome)
  /\ Ends(calls[c].id)
  /\ Returns(c)
  /\ UNCHANGED <<memory, bound, attempted>>

(* No reconciliation, or none that knows: the broadcast remains uncertain.  *)
NotReconciled(c) ==
  /\ In("reconciling", c)
  /\ Returns(c)
  /\ UNCHANGED <<memory, disk, history>>

(* The process dies and starts again with what is on disk.  Of the two      *)
(* writes that follow a broadcast the first may have been made.             *)
Crash ==
  /\ requests' = [id \in Ids |-> None]
  /\ approvals' = [id \in Ids |-> {}]
  /\ calls' = [c \in Calls |-> Idle]
  /\ attempted' = {}
  /\ \/ UNCHANGED <<journal, halfway>>
     \/ \E c \in Calls : /\ In("broadcasting", c)
                         /\ Record(calls[c].id, "submitted")
                         /\ halfway' = halfway \cup {calls[c].id}
  /\ UNCHANGED <<bound, ended>>

Submit(c) ==
  \/ \E id \in Ids : SubmitPrimary(c, id) \/ SubmitSecondary(c, id) \/ RetryPrimary(c, id)
  \/ Verified(c) \/ Refused(c)
  \/ Broadcasted(c) \/ BroadcastFailed(c)
  \/ \E outcome \in Settled : Reconciled(c, outcome)
  \/ NotReconciled(c)

Next ==
  \/ \E id \in Ids, r \in Requests : Prepare(id, r)
  \/ \E c \in Calls : Submit(c)
  \/ Crash

Spec == Init /\ [][Next]_vars

-----------------------------------------------------------------------------
(* Invariants.                                                             *)

(* Types; and an id is on disk before it is in memory, with one digest.     *)
SubmissionTypeOK ==
  /\ requests \in [Ids -> Requests \cup {None}]
  /\ approvals \in [Ids -> SUBSET Approval]
  /\ journal \in [Ids -> JournalStates]
  /\ bound \in [Ids -> Digests \cup {None}]
  /\ calls \in [Calls -> Call]
  /\ attempted \subseteq Ids /\ ended \subseteq Ids /\ halfway \subseteq Ids
  /\ \A id \in Ids : requests[id] # None => bound[id] = requests[id].digest

(* What goes out under an id is the digest on disk for it, and carries an   *)
(* approval of that very digest by every role its amount requires - though  *)
(* approvals are kept by id, requests are lost and prepared again in a      *)
(* crash, and other calls ran while this one awaited its signature check.   *)
BroadcastIsAuthorized ==
  \A c \in Calls : In("broadcasting", c) =>
    LET call == calls[c] IN
    /\ bound[call.id] = call.request.digest
    /\ {[role |-> role, digest |-> bound[call.id]] : role \in RequiredRoles(call.request)}
         \subseteq call.carries

Broadcasting(id) == \E c \in Calls : In("broadcasting", c) /\ calls[c].id = id

(* A broadcast that began and is over is never forgotten: as long as the    *)
(* process lives, the journal has its outcome or says that it is unknown,   *)
(* whichever of several calls for the id ended last.                       *)
OutcomeIsRemembered ==
  \A id \in attempted :
    Broadcasting(id) \/ journal[id] \in Settled \cup {"uncertain"}

-----------------------------------------------------------------------------
(* Action properties.                                                      *)

(* Once a broadcast of an id has ended, with an answer or an error, the id  *)
(* is not broadcast again, over any restarts, preparations and approvals:   *)
(* an error is reconciled instead.  Nothing is said of a broadcast that has *)
(* not ended.  One that is running holds back no other; and one that a      *)
(* crash cuts off leaves the journal as it was, or at "submitted" if the    *)
(* first of the two writes was made ("halfway"), and after a restart the id *)
(* is broadcast again without being reconciled.                            *)
EndedIsNotRepeated ==
  [][\A c \in Calls : ~In("broadcasting", c) /\ calls'[c].pc = "broadcasting"
       => calls'[c].id \notin ended \ halfway]_vars

=============================================================================
