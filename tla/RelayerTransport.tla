--------------------------- MODULE RelayerTransport ---------------------------
(***************************************************************************)
(* The submission transport: the client of transport/https.ts, which posts  *)
(* a request under an idempotency key and gives up after a timeout, and     *)
(* validateAndBroadcast (transport/relayer.ts) at the other end, which      *)
(* reads every fact the request rests on, reads them all once more, one     *)
(* after the other, and broadcasts the request's calldata.                  *)
(*                                                                         *)
(* The chain moves between any two reads.  It is kept to what the requests  *)
(* depend on, and moves at most MaxMoves times other than by mining what    *)
(* the relayer broadcast.  The server in between is not in the repository:  *)
(* a post is handled once, or never, or its handler dies.                   *)
(***************************************************************************)
EXTENDS Integers, SequencesExt

CONSTANTS
  Calls,       (* calls of submit, each used once                            *)
  Requests,    (* requests they may be made with                             *)
  Queue,       (* contents of the Delay queue, created at time 0             *)
  Cooldown, Expiration,
  MaxMoves,    (* bound on what others do to the chain                       *)
  None

VARIABLES
  current,   (* of Shared, those as the requests expect them                 *)
  safeNonce, (* the Safe's nonce                                             *)
  spent,     (* the guard's counters for the asset                           *)
  head,      (* the Delay's next item                                        *)
  now,       (* block timestamp                                              *)
  moves,     (* history: steps of others                                     *)
  tx,        (* what each call has broadcast, and what became of it          *)
  executed,  (* history: what relayed transactions have executed             *)
  idempotency, (* client: payload each key was first used with               *)
  calls,     (* client: each call's request and result                       *)
  relay,     (* relayer: where the handler of each post is, and its answer   *)
  held       (* history: facts that held at some moment of the second round  *)

world == <<current, safeNonce, spent, head, now, moves>>
network == <<tx, executed>>
client == <<idempotency, calls>>
vars == <<world, network, client, relay, held>>

Keys == {r.key : r \in Requests}
Shared == {"deployments", "topology", "policy"}
Rejections == {"stale", "unsupported-chain", "rpc-inconsistent"}
Outcomes == {"submitted", "confirmed", "reverted"}
Results == Rejections \cup Outcomes \cup {"transport-unavailable"}

ASSUME TransportAssumption ==
  /\ \A r \in Requests : r.kind \in {"safe", "delay"} /\ r.nonce \in Nat /\ r.spent \in Nat
  /\ Len(Queue) \in Nat /\ DOMAIN Queue = 1..Len(Queue)
  /\ None \notin Requests /\ None \notin Results
  /\ Cooldown \in Nat /\ Expiration \in Nat /\ MaxMoves \in Nat

(* Facts in the order they are read; the request states each of them, the    *)
(* chain is asked for all but the cooldown and the expiration of an item.    *)
Facts(r) ==
  <<"chain", "deployments", "topology", "policy">> \o
    (IF r.kind = "safe" THEN <<"nonce", "spend">> ELSE <<"head", "item", "ripe">>)

(* The deadline the relayer computes is the request's: it adds the cooldown  *)
(* and expiration the request names to its creation time, and only that     *)
(* time is compared with Delay's.  Requests are taken to name Delay's own    *)
(* two numbers, so that one deadline serves the check and the execution.    *)
Ripe == now >= Cooldown /\ (Expiration > 0 => now <= Cooldown + Expiration)

HasItem(r) == r.nonce + 1 \in DOMAIN Queue /\ Queue[r.nonce + 1] = r.content

Holds(fact, r) ==
  CASE fact = "chain" -> r.chain = "here"
    [] fact \in Shared -> fact \in current
    [] fact = "nonce" -> safeNonce = r.nonce
    [] fact = "spend" -> spent = r.spent
    [] fact = "head" -> head = r.nonce
    [] fact = "item" -> HasItem(r)
    [] fact = "ripe" -> Ripe

Init ==
  /\ current = Shared
  /\ safeNonce = 0 /\ spent = 0 /\ head = 0 /\ now = 0 /\ moves = 0
  /\ tx = [c \in Calls |-> "none"]
  /\ executed = {}
  /\ idempotency = [k \in Keys |-> None]
  /\ calls = [c \in Calls |-> [state |-> "new", request |-> None, result |-> None]]
  /\ relay = [c \in Calls |-> [phase |-> "none", at |-> 1, answer |-> None]]
  /\ held = [c \in Calls |-> {}]

Request(c) == calls[c].request

(* A second round sees what held at any moment of it.                       *)
Remember ==
  held' = [c \in Calls |->
             IF relay'[c].phase = "second"
             THEN held[c] \cup {f \in ToSet(Facts(Request(c))) : Holds(f, Request(c))'}
             ELSE held[c]]

-----------------------------------------------------------------------------
(* The chain.                                                              *)

Moves == moves < MaxMoves /\ moves' = moves + 1 /\ UNCHANGED <<network, client, relay>>

Drift ==
  /\ Moves
  /\ \E f \in Shared : current' = IF f \in current THEN current \ {f} ELSE current \cup {f}
  /\ UNCHANGED <<safeNonce, spent, head, now>>

(* Another transaction of the Safe, which spends or does not.               *)
OtherSafeTransaction ==
  /\ Moves
  /\ safeNonce' = safeNonce + 1
  /\ spent' \in {spent, spent + 1}
  /\ UNCHANGED <<current, head, now>>

(* An item is executed by others, cancelled or skipped.                     *)
OtherQueueStep ==
  /\ Moves
  /\ head < Len(Queue)
  /\ head' = head + 1
  /\ UNCHANGED <<current, safeNonce, spent, now>>

Tick ==
  /\ Moves
  /\ now' = now + 1
  /\ UNCHANGED <<current, safeNonce, spent, head>>

(* A relayed transaction is mined.  The Safe takes its own nonce only, and  *)
(* the Delay the tuple at its head once it is ripe; the guard may refuse.   *)
MineSafe(c) ==
  /\ tx[c] = "pool" /\ Request(c).kind = "safe"
  /\ safeNonce = Request(c).nonce
  /\ tx' = [tx EXCEPT ![c] = "success"]
  /\ executed' = executed \cup {[call |-> c, nonce |-> safeNonce]}
  /\ safeNonce' = safeNonce + 1 /\ spent' = spent + 1
  /\ UNCHANGED <<current, head, now, moves, client, relay>>

MineDelay(c) ==
  /\ tx[c] = "pool" /\ Request(c).kind = "delay"
  /\ head < Len(Queue) /\ Queue[head + 1] = Request(c).content /\ Ripe
  /\ tx' = [tx EXCEPT ![c] = "success"]
  /\ executed' = executed \cup {[call |-> c, nonce |-> head]}
  /\ head' = head + 1
  /\ UNCHANGED <<current, safeNonce, spent, now, moves, client, relay>>

MineReverted(c) ==
  /\ tx[c] = "pool"
  /\ tx' = [tx EXCEPT ![c] = "reverted"]
  /\ UNCHANGED <<world, executed, client, relay>>

ChainStep ==
  \/ Drift \/ OtherSafeTransaction \/ OtherQueueStep \/ Tick
  \/ \E c \in Calls : MineSafe(c) \/ MineDelay(c) \/ MineReverted(c)

-----------------------------------------------------------------------------
(* The client.                                                             *)

Gives(c, result) == calls' = [calls EXCEPT ![c].state = "returned", ![c].result = result]

SubmitAnyKey(c, r) ==
  /\ calls[c].state = "new"
  /\ calls' = [calls EXCEPT ![c].state = "waiting", ![c].request = r]
  /\ idempotency' = [idempotency EXCEPT ![r.key] = r]
  /\ UNCHANGED <<world, network, relay>>

(* The key is looked up and taken without a pause, and the post begins.     *)
Submit(c, r) ==
  /\ calls[c].state = "new"
  /\ idempotency[r.key] \in {None, r}
  /\ calls' = [calls EXCEPT ![c].state = "waiting", ![c].request = r]
  /\ idempotency' = [idempotency EXCEPT ![r.key] = r]
  /\ UNCHANGED <<world, network, relay>>

SubmitRefused(c, r) ==
  /\ calls[c].state = "new"
  /\ idempotency[r.key] \notin {None, r}
  /\ Gives(c, "transport-unavailable")
  /\ UNCHANGED <<world, network, idempotency, relay>>

ReplyUnparsed(c) ==
  /\ calls[c].state = "waiting"
  /\ relay[c].phase = "done"
  /\ Gives(c, relay[c].answer)
  /\ UNCHANGED <<world, network, idempotency, relay>>

(* The answer names the request it is for.                                  *)
Reply(c) ==
  /\ calls[c].state = "waiting"
  /\ relay[c].answer \in Results
  /\ Gives(c, relay[c].answer)
  /\ UNCHANGED <<world, network, idempotency, relay>>

(* The timer aborts the fetch, or the network, the server's status or the   *)
(* shape of its answer fails it.                                           *)
Timeout(c) ==
  /\ calls[c].state = "waiting"
  /\ Gives(c, "transport-unavailable")
  /\ UNCHANGED <<world, network, idempotency, relay>>

ClientStep ==
  \E c \in Calls :
    \/ \E r \in Requests : Submit(c, r) \/ SubmitRefused(c, r)
    \/ Reply(c) \/ Timeout(c)

-----------------------------------------------------------------------------
(* The relayer.                                                            *)

Goes(c, phase) == relay' = [relay EXCEPT ![c].phase = phase, ![c].at = 1]

Answers(c, answer) ==
  relay' = [relay EXCEPT ![c].phase = "done", ![c].at = 1, ![c].answer = answer]

(* The post arrives, maybe after its client has given up.                   *)
Receive(c) ==
  /\ Request(c) # None
  /\ relay[c].phase = "none"
  /\ Goes(c, "first")
  /\ UNCHANGED <<world, network, client>>

Fact(c) == Facts(Request(c))[relay[c].at]

LastFact(c) == relay[c].at = Len(Facts(Request(c)))

Reading(c) == relay[c].phase \in {"first", "second"}

CheckOnce(c) ==
  /\ Reading(c)
  /\ Holds(Fact(c), Request(c))
  /\ IF LastFact(c) THEN Goes(c, "send") ELSE relay' = [relay EXCEPT ![c].at = @ + 1]
  /\ UNCHANGED <<world, network, client>>

CheckUntilTheQueue(c) ==
  /\ Reading(c)
  /\ Holds(Fact(c), Request(c)) \/ Fact(c) = "head"
  /\ IF LastFact(c) THEN Goes(c, IF relay[c].phase = "first" THEN "second" ELSE "send")
                    ELSE relay' = [relay EXCEPT ![c].at = @ + 1]
  /\ UNCHANGED <<world, network, client>>

(* One fact is read and is as expected.  The calldata is encoded between    *)
(* the rounds.                                                             *)
Check(c) ==
  /\ Reading(c)
  /\ Holds(Fact(c), Request(c))
  /\ IF LastFact(c) THEN Goes(c, IF relay[c].phase = "first" THEN "second" ELSE "send")
                    ELSE relay' = [relay EXCEPT ![c].at = @ + 1]
  /\ UNCHANGED <<world, network, client>>

Reject(c) ==
  /\ Reading(c)
  /\ ~Holds(Fact(c), Request(c))
  /\ Answers(c, IF Fact(c) = "chain" THEN "unsupported-chain" ELSE "stale")
  /\ UNCHANGED <<world, network, client>>

ReadFails(c) ==
  /\ Reading(c)
  /\ Answers(c, "rpc-inconsistent")
  /\ UNCHANGED <<world, network, client>>

Sends(c) == tx' = [tx EXCEPT ![c] = "pool"] /\ UNCHANGED executed

(* The broadcaster returns the hash, or throws an error that names it.      *)
Broadcast(c) ==
  /\ relay[c].phase = "send"
  /\ Sends(c)
  /\ \E phase \in {"reconcile", "reconcileError"} : Goes(c, phase)
  /\ UNCHANGED <<world, client>>

(* It throws an error that names nothing, and has or has not broadcast.     *)
BroadcastFails(c) ==
  /\ relay[c].phase = "send"
  /\ Sends(c) \/ UNCHANGED network
  /\ Answers(c, "transport-unavailable")
  /\ UNCHANGED <<world, client>>

ReconcileHopefully(c) ==
  /\ relay[c].phase \in {"reconcile", "reconcileError"}
  /\ Answers(c, IF tx[c] = "reverted" THEN "reverted" ELSE "confirmed")
  /\ UNCHANGED <<world, network, client>>

(* The receipt, if the node has one by now, says what became of it.         *)
Reconcile(c) ==
  /\ relay[c].phase \in {"reconcile", "reconcileError"}
  /\ Answers(c, CASE tx[c] = "pool" -> "submitted"
                  [] tx[c] = "success" -> "confirmed"
                  [] OTHER -> "reverted")
  /\ UNCHANGED <<world, network, client>>

(* Reading it fails: the error is taken for one of the broadcaster's and    *)
(* names no hash ...                                                       *)
ReceiptUnread(c) ==
  /\ relay[c].phase = "reconcile"
  /\ Answers(c, "transport-unavailable")
  /\ UNCHANGED <<world, network, client>>

(* ... and where the hash came from an error, nothing catches it.  The      *)
(* process of the handler may also end at any moment.                       *)
HandlerDies(c) ==
  /\ relay[c].phase \notin {"none", "done"}
  /\ Goes(c, "done")
  /\ UNCHANGED <<world, network, client>>

RelayStep ==
  \E c \in Calls :
    \/ Receive(c) \/ Check(c) \/ Reject(c) \/ ReadFails(c)
    \/ Broadcast(c) \/ BroadcastFails(c)
    \/ Reconcile(c) \/ ReceiptUnread(c) \/ HandlerDies(c)

Next == (ChainStep \/ ClientStep \/ RelayStep) /\ Remember

Spec == Init /\ [][Next]_vars

-----------------------------------------------------------------------------
(* Types; and a client's call has a result when it has returned.            *)
TransportTypeOK ==
  /\ current \subseteq Shared
  /\ safeNonce \in Nat /\ spent \in Nat /\ head \in 0..Len(Queue) /\ now \in Nat /\ moves \in 0..MaxMoves
  /\ tx \in [Calls -> {"none", "pool", "success", "reverted"}]
  /\ executed \subseteq [call : Calls, nonce : Nat]
  /\ idempotency \in [Keys -> Requests \cup {None}]
  /\ calls \in [Calls -> [state : {"new", "waiting", "returned"},
                          request : Requests \cup {None}, result : Results \cup {None}]]
  /\ \A c \in Calls : calls[c].state = "returned" <=> calls[c].result # None
  /\ relay \in [Calls -> [phase : {"none", "first", "second", "send", "reconcile",
                                   "reconcileError", "done"},
                          at : 1..7, answer : Results \cup {None}]]

(* What is broadcast rested on facts each of which held, as the request      *)
(* states it, at some moment after the relayer began to read them again,    *)
(* whatever moved between two of these reads (relayer.ts                    *)
(* validateAndBroadcast; of the deadline see Ripe).                         *)
BroadcastWasCurrent ==
  \A c \in Calls : tx[c] # "none" => held[c] = ToSet(Facts(Request(c)))

(* An answer is true of the chain: a rejected request has not been          *)
(* broadcast by this call, a confirmed one has been executed, a reverted    *)
(* one has not; and a client that did not give up holds that answer.        *)
AnswersAreTrue ==
  \A c \in Calls :
    LET answers == {relay[c].answer, calls[c].result}
    IN  /\ answers \cap Rejections # {} => tx[c] = "none"
        /\ "submitted" \in answers => tx[c] # "none"
        /\ "confirmed" \in answers => \E e \in executed : e.call = c
        /\ "reverted" \in answers => \A e \in executed : e.call # c

(* A relayed request executes its own Safe nonce, once however often it is  *)
(* retried, and in the Delay its own content: its own item, or - where a    *)
(* retry comes late - a later one that equals it, never an earlier one.     *)
ExecutionsFit ==
  /\ \A e \in executed :
       LET r == Request(e.call)
       IN  IF r.kind = "safe" THEN e.nonce = r.nonce
           ELSE e.nonce >= r.nonce /\ Queue[e.nonce + 1] = Queue[r.nonce + 1]
  /\ \A e, f \in executed :
       e.nonce = f.nonce /\ Request(e.call).kind = Request(f.call).kind => e = f

(* A key goes out with one payload, in all the calls of a client.           *)
KeysNameOnePayload ==
  \A c, d \in Calls :
    Request(c) # None /\ Request(d) # None /\ Request(c).key = Request(d).key
      => Request(c) = Request(d)

=============================================================================
