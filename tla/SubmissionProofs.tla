--------------------------- MODULE SubmissionProofs ---------------------------
(* Proofs about SubmissionService: the inductive invariant says of every    *)
(* piece of memory which digest it belongs to, and what the journal says of *)
(* ids that have been broadcast.                                           *)
EXTENDS SubmissionService, TLAPS

(* The approvals kept under an id are of its digest, the primary's first.   *)
ApprovalsFit ==
  \A id \in Ids :
    /\ \A a \in approvals[id] : a.digest = bound[id]
    /\ approvals[id] # {} => [role |-> "primary", digest |-> bound[id]] \in approvals[id]

(* So are those a waiting call holds; a secondary's has the primary's.      *)
CallFits(call) ==
  call.pc # "idle" =>
    /\ bound[call.id] = call.request.digest
    /\ \A a \in call.carries : a.digest = bound[call.id]
    /\ call.role = "secondary" =>
         [role |-> "primary", digest |-> bound[call.id]] \in call.carries

CallsFit == \A c \in Calls : CallFits(calls[c])

(* Whoever has a digest is on disk, and whoever has ended is not open.      *)
DiskFits ==
  /\ \A id \in Ids : bound[id] # None => journal[id] # "none"
  /\ \A id \in ended \ halfway : journal[id] \in Settled \cup {"uncertain"}

SubmissionInv ==
  /\ SubmissionTypeOK
  /\ ApprovalsFit
  /\ CallsFit
  /\ DiskFits
  /\ BroadcastIsAuthorized
  /\ OutcomeIsRemembered

(* A call that returns is idle, and no other call notices.                  *)
LEMMA ReturnsTyped ==
  ASSUME SubmissionTypeOK, NEW c \in Calls, Returns(c)
  PROVE  /\ calls' \in [Calls -> Call]
         /\ calls'[c] = Idle
         /\ \A d \in Calls \ {c} : calls'[d] = calls[d]
BY DEF SubmissionTypeOK, Returns, Call

LEMMA SubmissionInit == Init => SubmissionInv
BY SubmissionAssumption
   DEF Init, SubmissionInv, SubmissionTypeOK, ApprovalsFit, CallsFit, CallFits, DiskFits,
       BroadcastIsAuthorized, OutcomeIsRemembered, JournalStates, Call, Idle, In

(* A new request is bound on disk as it is in memory, or was already.       *)
LEMMA PrepareStep ==
  ASSUME SubmissionInv, NEW id \in Ids, NEW r \in Requests, Prepare(id, r)
  PROVE  SubmissionInv'
<1>1. r.digest \in Digests /\ r # None
  BY SubmissionAssumption
<1>2. bound[id] # None => bound[id] = r.digest
  BY DEF SubmissionInv, DiskFits, Prepare, PrepareEntry
<1>3. SubmissionTypeOK'
  BY <1>1, <1>2 DEF SubmissionInv, SubmissionTypeOK, Prepare, PrepareEntry, history, JournalStates
<1>4. \A i \in Ids : bound[i] # None => bound'[i] = bound[i]
  BY <1>1, <1>2 DEF SubmissionInv, SubmissionTypeOK, Prepare, PrepareEntry
<1>5. \A i \in Ids : approvals[i] # {} => bound[i] # None
  <2>1. \A i \in Ids : \A a \in approvals[i] : a.digest \in Digests
    BY DEF SubmissionInv, SubmissionTypeOK, Approval
  <2> QED BY <2>1, SubmissionAssumption DEF SubmissionInv, ApprovalsFit
<1>6. ApprovalsFit'
  BY <1>4, <1>5 DEF SubmissionInv, SubmissionTypeOK, ApprovalsFit, Prepare
<1>7. \A c \in Calls : calls[c].pc # "idle" =>
        calls[c].id \in Ids /\ bound[calls[c].id] # None
  <2>1. \A c \in Calls : calls[c].pc # "idle" =>
          calls[c].id \in Ids /\ calls[c].request \in Requests
    BY DEF SubmissionInv, SubmissionTypeOK, Call, Idle
  <2>2. \A q \in Requests : q.digest # None
    BY SubmissionAssumption
  <2> QED BY <2>1, <2>2 DEF SubmissionInv, CallsFit, CallFits
<1>8. CallsFit' /\ BroadcastIsAuthorized'
  BY <1>4, <1>7
     DEF SubmissionInv, SubmissionTypeOK, CallsFit, CallFits, BroadcastIsAuthorized, In, Prepare
<1>9. DiskFits'
  BY <1>1, <1>2
     DEF SubmissionInv, SubmissionTypeOK, DiskFits, Prepare, PrepareEntry, history, Settled,
         JournalStates
<1>10. OutcomeIsRemembered'
  BY DEF SubmissionInv, SubmissionTypeOK, OutcomeIsRemembered, Broadcasting, In, Prepare,
         PrepareEntry, history, Settled, JournalStates
<1> QED BY <1>3, <1>6, <1>8, <1>9, <1>10 DEF SubmissionInv

(* A call begins, and holds what is kept under its id.                      *)
LEMMA BeginStep ==
  ASSUME SubmissionInv, NEW c \in Calls, NEW id \in Ids, NEW role \in Roles,
         NEW pc \in {"verifying", "reconciling"},
         role = "secondary" => approvals[id] # {},
         requests[id] # None, In("idle", c),
         Waits(c, pc, id, requests[id], role, approvals[id]),
         UNCHANGED <<memory, disk, history>>
  PROVE  SubmissionInv'
<1>1. /\ calls' \in [Calls -> Call]
      /\ calls'[c] = [pc |-> pc, id |-> id, request |-> requests[id],
                      role |-> role, carries |-> approvals[id]]
      /\ \A d \in Calls \ {c} : calls'[d] = calls[d]
  <2>1. /\ requests[id] \in Requests /\ approvals[id] \in SUBSET Approval
        /\ pc \in {"verifying", "broadcasting", "reconciling"}
    BY DEF SubmissionInv, SubmissionTypeOK
  <2> QED BY <2>1 DEF SubmissionInv, SubmissionTypeOK, Waits, Call
<1>2. SubmissionTypeOK' /\ ApprovalsFit' /\ DiskFits'
  BY <1>1 DEF SubmissionInv, SubmissionTypeOK, ApprovalsFit, DiskFits, memory, disk, history
<1>3. /\ bound[id] = requests[id].digest
      /\ \A a \in approvals[id] : a.digest = bound[id]
      /\ role = "secondary" => [role |-> "primary", digest |-> bound[id]] \in approvals[id]
  BY DEF SubmissionInv, SubmissionTypeOK, ApprovalsFit
<1>4. CallsFit'
  BY <1>1, <1>3 DEF SubmissionInv, CallsFit, CallFits, disk
<1>5. BroadcastIsAuthorized'
  BY <1>1 DEF SubmissionInv, BroadcastIsAuthorized, In, disk
<1>6. OutcomeIsRemembered'
  BY <1>1 DEF SubmissionInv, OutcomeIsRemembered, Broadcasting, In, disk, history
<1> QED BY <1>2, <1>4, <1>5, <1>6 DEF SubmissionInv

(* A call that ends without a word leaves the rest as it was.               *)
LEMMA EndStep ==
  ASSUME SubmissionInv, NEW c \in Calls, ~In("broadcasting", c), Returns(c),
         UNCHANGED <<memory, disk, history>>
  PROVE  SubmissionInv'
<1>1. /\ calls' \in [Calls -> Call]
      /\ calls'[c] = Idle
      /\ \A d \in Calls \ {c} : calls'[d] = calls[d]
  BY ReturnsTyped DEF SubmissionInv
<1>2. SubmissionTypeOK' /\ ApprovalsFit' /\ DiskFits'
  BY <1>1 DEF SubmissionInv, SubmissionTypeOK, ApprovalsFit, DiskFits, memory, disk, history
<1>3. CallsFit' /\ BroadcastIsAuthorized'
  BY <1>1 DEF SubmissionInv, CallsFit, CallFits, BroadcastIsAuthorized, In, disk, Idle
<1>4. OutcomeIsRemembered'
  BY <1>1 DEF SubmissionInv, OutcomeIsRemembered, Broadcasting, In, disk, history, Idle
<1> QED BY <1>2, <1>3, <1>4 DEF SubmissionInv

(* A call that ends with an outcome puts it on record.                      *)
LEMMA RecordStep ==
  ASSUME SubmissionInv, NEW c \in Calls, calls[c].pc # "idle",
         NEW state \in Settled \cup {"uncertain"}, Record(calls[c].id, state), Returns(c),
         Ends(calls[c].id),
         UNCHANGED <<memory, bound, attempted>>
  PROVE  SubmissionInv'
<1>1. /\ calls' \in [Calls -> Call]
      /\ calls'[c] = Idle
      /\ \A d \in Calls \ {c} : calls'[d] = calls[d]
  BY ReturnsTyped DEF SubmissionInv
<1>2. calls[c].id \in Ids
  BY DEF SubmissionInv, SubmissionTypeOK, Call, Idle
<1>3. SubmissionTypeOK' /\ ApprovalsFit'
  BY <1>1, <1>2
     DEF SubmissionInv, SubmissionTypeOK, ApprovalsFit, memory, Record, Ends, Settled, JournalStates
<1>4. DiskFits'
  BY <1>2 DEF SubmissionInv, SubmissionTypeOK, DiskFits, Record, Ends, Settled
<1>5. CallsFit' /\ BroadcastIsAuthorized'
  BY <1>1 DEF SubmissionInv, CallsFit, CallFits, BroadcastIsAuthorized, In, Idle
<1>6. OutcomeIsRemembered'
  BY <1>1, <1>2
     DEF SubmissionInv, SubmissionTypeOK, OutcomeIsRemembered, Broadcasting, In, Idle, Record
<1> QED BY <1>3, <1>4, <1>5, <1>6 DEF SubmissionInv

(* A verified signature: what the call holds now names its digest, by all   *)
(* the roles that its request requires if the call goes on to broadcast.    *)
LEMMA VerifiedStep ==
  ASSUME SubmissionInv, NEW c \in Calls, Verified(c)
  PROVE  SubmissionInv'
<1> DEFINE call == calls[c]
           approval == [role |-> call.role, digest |-> call.request.digest]
           carries == call.carries \cup {approval}
<1>1. /\ call.id \in Ids /\ call.role \in Roles /\ call.request \in Requests
      /\ call.carries \in SUBSET Approval /\ carries \in SUBSET Approval
  BY SubmissionAssumption
     DEF SubmissionInv, SubmissionTypeOK, Call, Verified, In, Idle, Approval
<1>2. CallFits(call)
  BY DEF SubmissionInv, CallsFit
<1>3. /\ \A a \in carries : a.digest = bound[call.id]
      /\ [role |-> "primary", digest |-> bound[call.id]] \in carries
      /\ call.role = "secondary" =>
           [role |-> "secondary", digest |-> bound[call.id]] \in carries
  BY <1>1, <1>2 DEF CallFits, Verified, In, Roles
<1>4. approvals' = [approvals EXCEPT ![call.id] = carries]
  BY DEF Verified
<1>5. /\ UNCHANGED <<requests, journal, bound, ended, halfway>>
      /\ ~In("broadcasting", c)
  BY DEF Verified, disk, In
<1>6. ApprovalsFit' /\ DiskFits'
  BY <1>1, <1>3, <1>4, <1>5 DEF SubmissionInv, SubmissionTypeOK, ApprovalsFit, DiskFits
<1>7. CASE Returns(c) /\ UNCHANGED attempted
  <2>1. /\ calls' \in [Calls -> Call]
        /\ calls'[c] = Idle
        /\ \A d \in Calls \ {c} : calls'[d] = calls[d]
    BY <1>7, ReturnsTyped DEF SubmissionInv
  <2>2. SubmissionTypeOK'
    BY <1>1, <1>4, <1>5, <1>7, <2>1 DEF SubmissionInv, SubmissionTypeOK
  <2>3. CallsFit' /\ BroadcastIsAuthorized'
    BY <1>5, <2>1 DEF SubmissionInv, CallsFit, CallFits, BroadcastIsAuthorized, In, Idle
  <2>4. OutcomeIsRemembered'
    BY <1>5, <1>7, <2>1 DEF SubmissionInv, OutcomeIsRemembered, Broadcasting, In, Idle
  <2> QED BY <1>6, <2>2, <2>3, <2>4 DEF SubmissionInv
<1>8. CASE /\ call.role = "secondary" \/ RequiredApprovals(call.request) = "primary"
           /\ BroadcastOnce(c, carries)
           /\ ~(Returns(c) /\ UNCHANGED attempted)
  <2>1. PICK pc \in {"reconciling", "broadcasting"} :
          /\ Continues(c, pc, carries)
          /\ attempted' = IF pc = "broadcasting" THEN attempted \cup {call.id} ELSE attempted
    BY <1>8 DEF BroadcastOnce
  <2>2. /\ calls' \in [Calls -> Call]
        /\ calls'[c] = [pc |-> pc, id |-> call.id, request |-> call.request,
                        role |-> call.role, carries |-> carries]
        /\ \A d \in Calls \ {c} : calls'[d] = calls[d]
    <3>1. Waits(c, pc, call.id, call.request, call.role, carries)
      BY <2>1 DEF Continues
    <3>2. pc \in {"verifying", "broadcasting", "reconciling"}
      OBVIOUS
    <3> HIDE DEF carries
    <3> QED BY <1>1, <3>1, <3>2 DEF SubmissionInv, SubmissionTypeOK, Waits, Call
  <2>3. SubmissionTypeOK'
    BY <1>1, <1>4, <1>5, <2>1, <2>2 DEF SubmissionInv, SubmissionTypeOK
  <2>4. CallsFit'
    BY <1>2, <1>3, <1>5, <2>2, Verified(c) DEF SubmissionInv, CallsFit, CallFits, Verified, In
  <2>5. RequiredRoles(call.request) \subseteq
          IF call.role = "secondary" THEN Roles ELSE {"primary"}
    BY <1>8 DEF RequiredRoles, Roles
  <2>6. BroadcastIsAuthorized'
    BY <1>2, <1>3, <1>5, <2>2, <2>5, Verified(c)
       DEF SubmissionInv, BroadcastIsAuthorized, CallFits, In, Roles, Verified
  <2>7. OutcomeIsRemembered'
    BY <1>5, <2>1, <2>2 DEF SubmissionInv, OutcomeIsRemembered, Broadcasting, In
  <2> QED BY <1>6, <2>3, <2>4, <2>6, <2>7 DEF SubmissionInv
<1> QED BY <1>7, <1>8 DEF Verified

(* After a crash there is nothing but the disk.                             *)
LEMMA CrashStep == SubmissionInv /\ Crash => SubmissionInv'
<1> SUFFICES ASSUME SubmissionInv, Crash PROVE SubmissionInv'
  OBVIOUS
<1>1. /\ journal' \in [Ids -> JournalStates] /\ ended' \subseteq Ids /\ halfway' \subseteq Ids
      /\ \A id \in Ids : journal[id] # "none" => journal'[id] # "none"
      /\ \A id \in ended' \ halfway' : journal'[id] \in Settled \cup {"uncertain"}
  <2>1. CASE UNCHANGED <<journal, halfway>>
    BY <2>1 DEF SubmissionInv, SubmissionTypeOK, DiskFits, Crash
  <2>2. ASSUME NEW c \in Calls, In("broadcasting", c), Record(calls[c].id, "submitted"),
               halfway' = halfway \cup {calls[c].id}
        PROVE  <1>1
    <3>1. calls[c].id \in Ids
      BY <2>2 DEF SubmissionInv, SubmissionTypeOK, Call, In, Idle
    <3> QED BY <2>2, <3>1
      DEF SubmissionInv, SubmissionTypeOK, DiskFits, Crash, Record, JournalStates, Settled
  <2> QED BY <2>1, <2>2 DEF Crash
<1>2. SubmissionTypeOK'
  BY <1>1 DEF SubmissionInv, SubmissionTypeOK, Crash, Call
<1>3. ApprovalsFit' /\ CallsFit' /\ BroadcastIsAuthorized' /\ OutcomeIsRemembered'
  BY DEF Crash, ApprovalsFit, CallsFit, CallFits, BroadcastIsAuthorized, OutcomeIsRemembered,
         In, Idle
<1>4. DiskFits'
  BY <1>1 DEF SubmissionInv, DiskFits, Crash
<1> QED BY <1>2, <1>3, <1>4 DEF SubmissionInv

LEMMA SubmissionStep == SubmissionInv /\ [Next]_vars => SubmissionInv'
<1> SUFFICES ASSUME SubmissionInv, [Next]_vars PROVE SubmissionInv'
  OBVIOUS
<1>1. ASSUME NEW id \in Ids, NEW r \in Requests, Prepare(id, r) PROVE SubmissionInv'
  BY <1>1, PrepareStep
<1>2. ASSUME NEW c \in Calls, Submit(c) PROVE SubmissionInv'
  <2>1. ASSUME NEW id \in Ids, SubmitPrimary(c, id) PROVE SubmissionInv'
    BY <2>1, BeginStep DEF SubmitPrimary, BeginVerify, Roles
  <2>2. ASSUME NEW id \in Ids, SubmitSecondary(c, id) PROVE SubmissionInv'
    BY <2>2, BeginStep DEF SubmitSecondary, BeginVerify, Roles
  <2>3. ASSUME NEW id \in Ids, RetryPrimary(c, id) PROVE SubmissionInv'
    BY <2>3, BeginStep DEF RetryPrimary, Roles
  <2>4. CASE Refused(c) \/ NotReconciled(c)
    BY <2>4, EndStep DEF Refused, NotReconciled, In
  <2>5. CASE Broadcasted(c) \/ BroadcastFailed(c) \/ \E outcome \in Settled : Reconciled(c, outcome)
    BY <2>5, RecordStep DEF Broadcasted, BroadcastFailed, Reconciled, In, Settled
  <2> QED BY <1>2, <2>1, <2>2, <2>3, <2>4, <2>5, VerifiedStep DEF Submit
<1>3. CASE UNCHANGED vars
  BY <1>3 DEF vars, memory, disk, history, SubmissionInv, SubmissionTypeOK, ApprovalsFit,
              CallsFit, CallFits, DiskFits, BroadcastIsAuthorized, OutcomeIsRemembered,
              Broadcasting, In
<1> QED BY <1>1, <1>2, <1>3, CrashStep DEF Next

THEOREM SubmissionInvariant == Spec => []SubmissionInv
BY SubmissionInit, SubmissionStep, PTL DEF Spec

(* Ids stay bound to one digest from the disk to the memory                 *)
(* (SubmissionTypeOK), whatever the order of calls and restarts.            *)
THEOREM SubmissionIsTyped == Spec => []SubmissionTypeOK
BY SubmissionInvariant, PTL DEF SubmissionInv

(* broadcastOnce sends what is on disk for the id, approved by everyone it  *)
(* needs, for any number of ids, calls and restarts.                       *)
THEOREM BroadcastsAreAuthorized == Spec => []BroadcastIsAuthorized
BY SubmissionInvariant, PTL DEF SubmissionInv

(* The journal never forgets a broadcast that is over (broadcastOnce, both  *)
(* its branches, and journal.ts).                                          *)
THEOREM OutcomesAreRemembered == Spec => []OutcomeIsRemembered
BY SubmissionInvariant, PTL DEF SubmissionInv

(* No id of which a broadcast has ended is broadcast again, in this process *)
(* or a later one: after an error it is reconciled (broadcastOnce).  A      *)
(* broadcast that a crash cut off has not ended, and may be repeated.       *)
THEOREM EndedAreNotRepeated == Spec => EndedIsNotRepeated
<1>1. SubmissionInv /\ [Next]_vars =>
        [\A c \in Calls : ~In("broadcasting", c) /\ calls'[c].pc = "broadcasting"
           => calls'[c].id \notin ended \ halfway]_vars
  <2> SUFFICES ASSUME SubmissionInv, Next, NEW c \in Calls, ~In("broadcasting", c),
                      calls'[c].pc = "broadcasting"
               PROVE  calls'[c].id \notin ended \ halfway
    OBVIOUS
  <2>1. calls \in [Calls -> Call]
    BY DEF SubmissionInv, SubmissionTypeOK
  <2>2. PICK d \in Calls : Verified(d)
    BY <2>1 DEF Next, Submit, Prepare, Crash, SubmitPrimary, SubmitSecondary, BeginVerify,
                RetryPrimary, Waits, Returns, Idle, In, Refused, Broadcasted,
                BroadcastFailed, Reconciled, NotReconciled
  <2>3. c = d /\ journal[calls[c].id] \in {"prepared", "submitted"}
          /\ calls'[c].id = calls[c].id
    BY <2>1, <2>2 DEF Verified, BroadcastOnce, Continues, Waits, Returns, Idle, In
  <2> QED BY <2>3 DEF SubmissionInv, DiskFits, Settled
<1> QED BY <1>1, SubmissionInvariant, PTL DEF Spec, EndedIsNotRepeated

=============================================================================
