--------------------------- MODULE TransportProofs ---------------------------
(* Proofs about RelayerTransport: what a submission's answer and its         *)
(* broadcast say of the chain, for any calls, requests, queue and moves.     *)
EXTENDS RelayerTransport, TLAPS

(* The client sets a call's request once, and a key goes with one payload.   *)
Requested(c) ==
  /\ Request(c) # None => calls[c].state # "new" /\ idempotency[Request(c).key] = Request(c)
  /\ calls[c].state = "waiting" => Request(c) # None
  /\ calls[c].result \in {None, "transport-unavailable", relay[c].answer}

(* What a handler has done by the phase it is in.                            *)
Staged(c) ==
  /\ relay[c].phase # "none" => Request(c) # None
  /\ relay[c].phase # "done" => relay[c].answer = None
  /\ relay[c].phase \in {"none", "first"} => held[c] = {}
  /\ Reading(c) => relay[c].at <= Len(Facts(Request(c)))
  /\ relay[c].phase \in {"reconcile", "reconcileError"} => tx[c] # "none"
  /\ tx[c] # "none" => relay[c].phase \in {"reconcile", "reconcileError", "done"}

(* What the second round has seen: every fact it has passed, every fact that *)
(* holds, and nothing that the request does not rest on; a fact about the    *)
(* queue leaves a trace, since its head never goes back.                     *)
Seen(c) ==
  /\ held[c] # {} => Request(c) # None /\ held[c] \subseteq ToSet(Facts(Request(c)))
  /\ relay[c].phase = "second" =>
       /\ \A i \in 1..(relay[c].at - 1) : Facts(Request(c))[i] \in held[c]
       /\ \A f \in ToSet(Facts(Request(c))) : Holds(f, Request(c)) => f \in held[c]
  /\ relay[c].phase = "send" \/ tx[c] # "none" => held[c] = ToSet(Facts(Request(c)))
  /\ "head" \in held[c] => head >= Request(c).nonce
  /\ "item" \in held[c] => HasItem(Request(c))

(* The relayer's answer, as long as it is the last word.                     *)
Answered(c) ==
  /\ relay[c].answer \in Rejections => tx[c] = "none"
  /\ relay[c].answer = "submitted" => tx[c] # "none"
  /\ relay[c].answer = "confirmed" => tx[c] = "success"
  /\ relay[c].answer = "reverted" => tx[c] = "reverted"

(* What has been executed is behind the nonce or the head that named it.     *)
Executed ==
  /\ \A c \in Calls : tx[c] = "success" => \E e \in executed : e.call = c
  /\ \A e \in executed :
       LET r == Request(e.call)
       IN  /\ tx[e.call] = "success"
           /\ r.kind = "safe" => e.nonce = r.nonce /\ e.nonce < safeNonce
           /\ r.kind = "delay" => /\ e.nonce >= r.nonce /\ e.nonce < head
                                  /\ Queue[e.nonce + 1] = Queue[r.nonce + 1]
  /\ \A e, f \in executed :
       e.nonce = f.nonce /\ Request(e.call).kind = Request(f.call).kind => e = f

TransportInv ==
  /\ TransportTypeOK
  /\ \A c \in Calls : Requested(c) /\ Staged(c) /\ Seen(c) /\ Answered(c)
  /\ Executed

-----------------------------------------------------------------------------
(* How many facts there are, and that the queue's are among them.            *)
LEMMA FactsListed ==
  ASSUME NEW r \in Requests
  PROVE  /\ Len(Facts(r)) \in 6..7 /\ DOMAIN Facts(r) = 1..Len(Facts(r))
         /\ ToSet(Facts(r)) = {Facts(r)[i] : i \in 1..Len(Facts(r))}
         /\ r.kind = "delay" => "head" \in ToSet(Facts(r)) /\ "item" \in ToSet(Facts(r))
<1> DEFINE first == <<"chain", "deployments", "topology", "policy">>
           safe == <<"nonce", "spend">>
           delay == <<"head", "item", "ripe">>
<1>1. CASE r.kind = "safe"
  <2>1. Facts(r) = first \o safe
    BY <1>1 DEF Facts
  <2>2. Len(first \o safe) = 6 /\ DOMAIN (first \o safe) = 1..6
    OBVIOUS
  <2> QED BY <1>1, <2>1, <2>2 DEF ToSet
<1>2. CASE r.kind = "delay"
  <2>1. Facts(r) = first \o delay
    BY <1>2 DEF Facts
  <2>2. /\ Len(first \o delay) = 7 /\ DOMAIN (first \o delay) = 1..7
        /\ (first \o delay)[5] = "head" /\ (first \o delay)[6] = "item"
    OBVIOUS
  <2>3. 5 \in 1..7 /\ 6 \in 1..7
    OBVIOUS
  <2> QED BY <2>1, <2>2, <2>3 DEF ToSet
<1> QED BY <1>1, <1>2, TransportAssumption

(* A call's request, and its handler, are typed.                             *)
LEMMA CallTyped ==
  ASSUME TransportTypeOK, NEW c \in Calls
  PROVE  /\ Request(c) \in Requests \cup {None}
         /\ calls[c].result \in Results \cup {None}
         /\ relay[c].at \in 1..7
         /\ relay[c].answer \in Results \cup {None}
         /\ relay[c].phase \in {"none", "first", "second", "send", "reconcile", "reconcileError", "done"}
BY DEF TransportTypeOK, Request

LEMMA TransportInitially == Init => TransportInv
<1> SUFFICES ASSUME Init PROVE TransportInv
  OBVIOUS
<1>1. TransportTypeOK
  BY TransportAssumption DEF Init, TransportTypeOK
<1>2. ASSUME NEW c \in Calls PROVE Requested(c) /\ Staged(c) /\ Seen(c) /\ Answered(c)
  <2>1. /\ calls[c].request = None /\ calls[c].state = "new" /\ calls[c].result = None
        /\ relay[c].phase = "none" /\ relay[c].answer = None
        /\ tx[c] = "none" /\ held[c] = {}
    BY DEF Init
  <2> QED BY <2>1, TransportAssumption DEF Requested, Staged, Seen, Answered, Request, Reading, Results, Rejections, Outcomes
<1>3. Executed
  BY DEF Init, Executed
<1> QED BY <1>1, <1>2, <1>3 DEF TransportInv

-----------------------------------------------------------------------------
(* What a call has seen, when its handler stays, or moves on past a fact    *)
(* that it has seen.                                                        *)
LEMMA SeenGrows ==
  ASSUME NEW c \in Calls, TransportTypeOK, Staged(c), Seen(c), Remember,
         Request(c)' = Request(c), head' \in Nat, head' >= head,
         relay'[c].phase = "second" =>
           \/ relay'[c].at = 1
           \/ relay[c].phase = "second" /\ relay'[c].at = relay[c].at
           \/ /\ relay[c].phase = "second" /\ relay'[c].at = relay[c].at + 1
              /\ Facts(Request(c))[relay[c].at] \in held[c],
         relay'[c].phase = "second" => Request(c) # None,
         relay'[c].phase = "send" \/ tx'[c] # "none" =>
           relay'[c].phase # "second" /\ held[c] = ToSet(Facts(Request(c)))
  PROVE  Seen(c)'
<1> DEFINE r == Request(c)
           now2 == {f \in ToSet(Facts(r)) : Holds(f, r)'}
<1>1. held'[c] = IF relay'[c].phase = "second" THEN held[c] \cup now2 ELSE held[c]
  BY DEF Remember
<1>2. r \in Requests \cup {None} /\ relay[c].at \in 1..7 /\ head \in Nat
  BY CallTyped DEF TransportTypeOK
<1>3. CASE relay'[c].phase = "second"
  <2>1. held'[c] = held[c] \cup now2
    BY <1>1, <1>3
  <2>2. r # None /\ held'[c] \subseteq ToSet(Facts(r))
    BY <1>3, <2>1 DEF Seen
  <2>3. \A i \in 1..(relay'[c].at - 1) : Facts(r)[i] \in held[c]
    <3>1. CASE relay'[c].at = 1
      BY <3>1
    <3>2. CASE relay[c].phase = "second" /\ relay'[c].at = relay[c].at
      BY <3>2 DEF Seen
    <3>3. CASE /\ relay[c].phase = "second" /\ relay'[c].at = relay[c].at + 1
               /\ Facts(r)[relay[c].at] \in held[c]
      <4>1. \A i \in 1..(relay'[c].at - 1) : i \in 1..(relay[c].at - 1) \/ i = relay[c].at
        BY <1>2, <3>3
      <4> QED BY <3>3, <4>1 DEF Seen
    <3> QED BY <1>3, <3>1, <3>2, <3>3
  <2>4. \A f \in ToSet(Facts(r)) : Holds(f, r)' => f \in held'[c]
    BY <2>1
  <2>5. "head" \in held'[c] => head' >= r.nonce
    <3>1. CASE "head" \in held[c]
      <4>1. r \in Requests /\ r.nonce \in Nat
        BY <1>2, <2>2, TransportAssumption
      <4>2. head >= r.nonce
        BY <3>1 DEF Seen
      <4> QED BY <1>2, <4>1, <4>2
    <3>2. CASE "head" \in now2
      <4>1. Holds("head", r)'
        BY <3>2
      <4>2. head' = r.nonce
        BY <4>1 DEF Holds, Shared
      <4> QED BY <4>2
    <3> QED BY <2>1, <3>1, <3>2
  <2>6. "item" \in held'[c] => HasItem(r)
    <3>1. "item" \in now2 => HasItem(r)
      <4>1. Holds("item", r)' => HasItem(r)'
        BY DEF Holds, Shared
      <4>2. HasItem(r)' <=> HasItem(r)
        BY DEF HasItem
      <4> QED BY <4>1, <4>2
    <3> QED BY <2>1, <3>1 DEF Seen
  <2> QED BY <1>3, <2>1, <2>2, <2>3, <2>4, <2>5, <2>6 DEF Seen, HasItem
<1>4. CASE relay'[c].phase # "second"
  <2>1. held'[c] = held[c]
    BY <1>1, <1>4
  <2>2. "head" \in held[c] => head' >= r.nonce
    <3> SUFFICES ASSUME "head" \in held[c] PROVE head' >= r.nonce
      OBVIOUS
    <3>1. r \in Requests /\ r.nonce \in Nat
      BY <1>2, TransportAssumption DEF Seen
    <3> QED BY <1>2, <3>1 DEF Seen
  <2> QED BY <1>4, <2>1, <2>2 DEF Seen, HasItem
<1> QED BY <1>3, <1>4

(* A call whose client, handler and transaction stay as they are.           *)
LEMMA CallKept ==
  ASSUME NEW c \in Calls, TransportInv, Remember, head' \in Nat, head' >= head,
         calls'[c] = calls[c], relay'[c] = relay[c], tx'[c] = tx[c],
         \A k \in Keys : idempotency[k] # None => idempotency'[k] = idempotency[k]
  PROVE  (Requested(c) /\ Staged(c) /\ Seen(c) /\ Answered(c))'
<1>1. TransportTypeOK /\ Requested(c) /\ Staged(c) /\ Seen(c) /\ Answered(c)
  BY DEF TransportInv
<1>2. Request(c) \in Requests \cup {None} /\ Request(c)' = Request(c)
  BY <1>1, CallTyped DEF Request
<1>3. Requested(c)'
  <2>1. Request(c) # None => Request(c) \in Requests /\ Request(c).key \in Keys
    BY <1>2 DEF Keys
  <2> QED BY <1>1, <1>2, <2>1, TransportAssumption DEF Requested
<1>4. Seen(c)'
  <2>1. relay[c].phase = "second" => Request(c) # None
    BY <1>1 DEF Staged
  <2>2. relay[c].phase = "send" \/ tx[c] # "none" =>
          relay[c].phase # "second" /\ held[c] = ToSet(Facts(Request(c)))
    BY <1>1 DEF Staged, Seen
  <2> QED BY <1>1, <1>2, <2>1, <2>2, SeenGrows
<1>5. Staged(c)'
  <2>1. relay[c].phase # "second" => held'[c] = held[c]
    BY DEF Remember
  <2> QED BY <1>1, <1>2, <2>1 DEF Staged, Reading
<1>6. Answered(c)'
  BY <1>1 DEF Answered
<1> QED BY <1>3, <1>4, <1>5, <1>6

LEMMA MovesKeep ==
  ASSUME TransportInv, Remember, Drift \/ OtherSafeTransaction \/ OtherQueueStep \/ Tick
  PROVE  TransportInv'
<1>1. TransportTypeOK
  BY DEF TransportInv
<1>2. UNCHANGED <<tx, executed, idempotency, calls, relay>>
  BY DEF Drift, OtherSafeTransaction, OtherQueueStep, Tick, Moves, network, client
<1>3. /\ current' \subseteq Shared /\ spent' \in Nat /\ now' \in Nat /\ moves' \in 0..MaxMoves
      /\ head' \in 0..Len(Queue) /\ head' >= head
      /\ safeNonce' \in Nat /\ safeNonce' >= safeNonce
  <2>1. moves' \in 0..MaxMoves
    BY <1>1, TransportAssumption
       DEF TransportTypeOK, Drift, OtherSafeTransaction, OtherQueueStep, Tick, Moves
  <2> QED BY <1>1, <2>1, TransportAssumption
             DEF TransportTypeOK, Drift, OtherSafeTransaction, OtherQueueStep, Tick
<1>4. TransportTypeOK'
  BY <1>1, <1>2, <1>3 DEF TransportTypeOK
<1>5. \A c \in Calls : (Requested(c) /\ Staged(c) /\ Seen(c) /\ Answered(c))'
  BY <1>2, <1>3, CallKept, TransportAssumption
<1>6. Executed'
  <2>1. executed \subseteq [call : Calls, nonce : Nat] /\ head \in Nat /\ safeNonce \in Nat
    BY <1>1, TransportAssumption DEF TransportTypeOK
  <2>2. \A e \in executed : e.nonce \in Nat /\ (e.nonce < safeNonce => e.nonce < safeNonce')
                            /\ (e.nonce < head => e.nonce < head')
    BY <1>3, <2>1
  <2> QED BY <1>2, <2>2 DEF TransportInv, Executed, Request
<1> QED BY <1>4, <1>5, <1>6 DEF TransportInv

(* A mined transaction leaves its own nonce, or its own item, behind.       *)
LEMMA ExecutionKeeps ==
  ASSUME TransportInv, Remember, NEW c \in Calls, NEW n \in Nat, TransportTypeOK',
         tx[c] = "pool", tx' = [tx EXCEPT ![c] = "success"],
         executed' = executed \cup {[call |-> c, nonce |-> n]},
         UNCHANGED <<idempotency, calls, relay>>,
         head' >= head, safeNonce' >= safeNonce,
         Request(c).kind = "safe" => /\ n = Request(c).nonce /\ n = safeNonce
                                     /\ n < safeNonce',
         Request(c).kind = "delay" => /\ n >= Request(c).nonce /\ n = head /\ n < head'
                                      /\ Queue[n + 1] = Queue[Request(c).nonce + 1]
  PROVE  TransportInv'
<1> DEFINE done == [call |-> c, nonce |-> n]
<1>1. /\ TransportTypeOK /\ Requested(c) /\ Staged(c) /\ Seen(c) /\ Answered(c) /\ Executed
  BY DEF TransportInv
<1>2. head \in Nat /\ safeNonce \in Nat /\ head' \in Nat /\ safeNonce' \in Nat
  BY <1>1, TransportAssumption DEF TransportTypeOK
<1>3. /\ \A d \in Calls : Request(d)' = Request(d)
      /\ \A d \in Calls : tx'[d] = IF d = c THEN "success" ELSE tx[d]
  BY <1>1 DEF Request, TransportTypeOK
<1>4. ASSUME NEW d \in Calls PROVE (Requested(d) /\ Staged(d) /\ Seen(d) /\ Answered(d))'
  <2>1. CASE d # c
    BY <1>2, <1>3, <2>1, CallKept
  <2>2. CASE d = c
    <3>1. /\ tx'[c] = "success" /\ relay[c].phase \in {"reconcile", "reconcileError", "done"}
          /\ held[c] = ToSet(Facts(Request(c)))
      BY <1>1, <1>3 DEF Staged, Seen
    <3>2. Requested(c)'
      BY <1>1, <1>3 DEF Requested
    <3>3. Seen(c)'
      BY <1>1, <1>2, <1>3, <3>1, SeenGrows
    <3>4. Staged(c)' /\ Answered(c)'
      <4>1. held'[c] = held[c]
        BY <1>1, <3>1 DEF Remember
      <4>2. relay[c].answer \notin Rejections /\ relay[c].answer # "confirmed" /\ relay[c].answer # "reverted"
        BY <1>1 DEF Answered
      <4> QED BY <1>1, <1>3, <3>1, <4>1, <4>2 DEF Staged, Answered, Reading
    <3> QED BY <2>2, <3>2, <3>3, <3>4
  <2> QED BY <2>1, <2>2
<1>5. Executed'
  <2>1. /\ executed \subseteq [call : Calls, nonce : Nat]
        /\ Request(c) \in Requests /\ Request(c).kind \in {"safe", "delay"}
    <3>1. Request(c) # None
      BY <1>1 DEF Staged
    <3> QED BY <1>1, <3>1, CallTyped, TransportAssumption DEF TransportTypeOK
  <2>2. done \in executed' /\ done.call = c /\ done.nonce = n
    OBVIOUS
  <2>3. \A e \in executed' : e \in executed \/ e = done
    OBVIOUS
  <2> HIDE DEF done
  <2>4. \A d \in Calls : tx'[d] = "success" => \E e \in executed' : e.call = d
    BY <1>1, <1>3, <2>2 DEF Executed
  <2>5. ASSUME NEW e \in executed'
        PROVE  LET r == Request(e.call)
               IN  /\ tx'[e.call] = "success"
                   /\ r.kind = "safe" => e.nonce = r.nonce /\ e.nonce < safeNonce'
                   /\ r.kind = "delay" => /\ e.nonce >= r.nonce /\ e.nonce < head'
                                          /\ Queue[e.nonce + 1] = Queue[r.nonce + 1]
    <3>1. CASE e \in executed
      <4>1. e.call \in Calls /\ e.nonce \in Nat
        BY <2>1, <3>1
      <4> QED BY <1>1, <1>2, <1>3, <3>1, <4>1 DEF Executed
    <3>2. CASE e = done
      BY <1>3, <2>2, <3>2
    <3> QED BY <2>3, <3>1, <3>2
  <2>6. ASSUME NEW e \in executed', NEW f \in executed', e.nonce = f.nonce,
               Request(e.call).kind = Request(f.call).kind
        PROVE  e = f
    <3>1. \A g \in executed : g.nonce = n => Request(g.call).kind # Request(c).kind
      BY <1>1, <1>2, <2>1 DEF Executed
    <3> QED BY <1>1, <2>2, <2>3, <2>6, <3>1 DEF Executed
  <2>7. \A e \in executed' : e.call \in Calls
    BY <2>1, <2>2, <2>3
  <2> QED BY <1>3, <2>4, <2>5, <2>6, <2>7 DEF Executed
<1> QED BY <1>4, <1>5 DEF TransportInv

LEMMA MineSafeKeeps ==
  ASSUME TransportInv, Remember, NEW c \in Calls, MineSafe(c)
  PROVE  TransportInv'
<1>1. /\ TransportTypeOK
      /\ safeNonce \in Nat /\ head \in Nat /\ head' = head
      /\ Request(c).kind = "safe" /\ safeNonce = Request(c).nonce /\ safeNonce' = safeNonce + 1
      /\ tx[c] = "pool" /\ tx' = [tx EXCEPT ![c] = "success"]
      /\ executed' = executed \cup {[call |-> c, nonce |-> safeNonce]}
      /\ UNCHANGED <<idempotency, calls, relay>>
  BY TransportAssumption DEF TransportInv, TransportTypeOK, MineSafe, client
<1>2. TransportTypeOK'
  BY <1>1 DEF TransportTypeOK, MineSafe, client
<1>3. head' >= head /\ safeNonce' >= safeNonce /\ safeNonce < safeNonce'
  BY <1>1
<1>4. Request(c).kind # "delay"
  BY <1>1
<1> QED BY ONLY TransportInv, Remember, <1>1, <1>2, <1>3, <1>4, ExecutionKeeps

LEMMA MineDelayKeeps ==
  ASSUME TransportInv, Remember, NEW c \in Calls, MineDelay(c)
  PROVE  TransportInv'
<1> DEFINE r == Request(c)
<1>1. /\ TransportTypeOK /\ Staged(c) /\ Seen(c)
      /\ safeNonce \in Nat /\ head \in Nat /\ safeNonce' = safeNonce
      /\ r.kind = "delay" /\ Queue[head + 1] = r.content
      /\ head < Len(Queue) /\ head' = head + 1
      /\ tx[c] = "pool" /\ tx' = [tx EXCEPT ![c] = "success"]
      /\ executed' = executed \cup {[call |-> c, nonce |-> head]}
      /\ UNCHANGED <<idempotency, calls, relay>>
  BY TransportAssumption DEF TransportInv, TransportTypeOK, MineDelay, client
<1>2. TransportTypeOK'
  BY <1>1, TransportAssumption DEF TransportTypeOK, MineDelay, client
<1>3. r \in Requests
  BY <1>1, CallTyped DEF Staged
<1>4. "head" \in held[c] /\ "item" \in held[c]
  BY <1>1, <1>3, FactsListed DEF Seen
<1>5. head >= r.nonce /\ Queue[head + 1] = Queue[r.nonce + 1]
  BY <1>1, <1>4 DEF Seen, HasItem
<1>6. head' >= head /\ safeNonce' >= safeNonce /\ head < head'
  BY <1>1
<1>7. r.kind # "safe"
  BY <1>1
<1> QED BY ONLY TransportInv, Remember, <1>1, <1>2, <1>5, <1>6, <1>7, ExecutionKeeps

LEMMA MineRevertedKeeps ==
  ASSUME TransportInv, Remember, NEW c \in Calls, MineReverted(c)
  PROVE  TransportInv'
<1>1. /\ TransportTypeOK /\ Requested(c) /\ Staged(c) /\ Seen(c) /\ Answered(c) /\ Executed
      /\ tx[c] = "pool" /\ tx' = [tx EXCEPT ![c] = "reverted"]
      /\ UNCHANGED <<current, safeNonce, spent, head, now, moves, executed, idempotency, calls, relay>>
  BY DEF TransportInv, MineReverted, world, client
<1>2. TransportTypeOK'
  BY <1>1 DEF TransportTypeOK
<1>3. head \in Nat
  BY <1>1, TransportAssumption DEF TransportTypeOK
<1>4. /\ \A d \in Calls : Request(d)' = Request(d)
      /\ \A d \in Calls : tx'[d] = IF d = c THEN "reverted" ELSE tx[d]
  BY <1>1 DEF Request, TransportTypeOK
<1>5. ASSUME NEW d \in Calls PROVE (Requested(d) /\ Staged(d) /\ Seen(d) /\ Answered(d))'
  <2>1. CASE d # c
    BY <1>1, <1>3, <1>4, <2>1, CallKept
  <2>2. CASE d = c
    <3>1. /\ relay[c].phase \in {"reconcile", "reconcileError", "done"}
          /\ held[c] = ToSet(Facts(Request(c)))
      BY <1>1 DEF Staged, Seen
    <3>2. Requested(c)'
      BY <1>1, <1>4 DEF Requested
    <3>3. Seen(c)'
      BY <1>1, <1>3, <1>4, <3>1, SeenGrows
    <3>4. Staged(c)' /\ Answered(c)'
      <4>1. held'[c] = held[c]
        BY <1>1, <3>1 DEF Remember
      <4>2. relay[c].answer \notin Rejections /\ relay[c].answer # "confirmed" /\ relay[c].answer # "reverted"
        BY <1>1 DEF Answered
      <4> QED BY <1>1, <1>4, <3>1, <4>1, <4>2 DEF Staged, Answered, Reading
    <3> QED BY <2>2, <3>2, <3>3, <3>4
  <2> QED BY <2>1, <2>2
<1>6. Executed'
  <2>1. \A e \in executed : e.call \in Calls /\ tx[e.call] = "success"
    BY <1>1 DEF TransportTypeOK, Executed
  <2>2. \A d \in Calls : tx'[d] = "success" <=> tx[d] = "success"
    BY <1>1, <1>4
  <2> QED BY <1>1, <1>4, <2>1, <2>2 DEF Executed
<1> QED BY <1>2, <1>5, <1>6 DEF TransportInv

-----------------------------------------------------------------------------
(* The client's steps.                                                     *)
LEMMA SubmitKeeps ==
  ASSUME TransportInv, Remember, NEW c \in Calls, NEW r \in Requests, Submit(c, r)
  PROVE  TransportInv'
<1>1. /\ TransportTypeOK /\ Requested(c) /\ Staged(c) /\ Seen(c) /\ Answered(c) /\ Executed
      /\ calls[c].state = "new" /\ idempotency[r.key] \in {None, r}
      /\ calls' = [calls EXCEPT ![c].state = "waiting", ![c].request = r]
      /\ idempotency' = [idempotency EXCEPT ![r.key] = r]
      /\ UNCHANGED <<current, safeNonce, spent, head, now, moves, tx, executed, relay>>
  BY DEF TransportInv, Submit, world, network
<1>2. r.key \in Keys
  BY DEF Keys
<1>3. TransportTypeOK'
  <2>1. idempotency' \in [Keys -> Requests \cup {None}]
    BY <1>1, <1>2 DEF TransportTypeOK
  <2>2. /\ calls' \in [Calls -> [state : {"new", "waiting", "returned"},
                                 request : Requests \cup {None}, result : Results \cup {None}]]
        /\ \A d \in Calls : calls'[d].state = "returned" <=> calls'[d].result # None
    BY <1>1 DEF TransportTypeOK
  <2> QED BY <1>1, <2>1, <2>2 DEF TransportTypeOK
<1>4. head \in Nat /\ head >= head
  BY <1>1, TransportAssumption DEF TransportTypeOK
<1>5. \A k \in Keys : idempotency[k] # None => idempotency'[k] = idempotency[k]
  BY <1>1, <1>2, TransportAssumption DEF TransportTypeOK
<1>6. ASSUME NEW d \in Calls PROVE (Requested(d) /\ Staged(d) /\ Seen(d) /\ Answered(d))'
  <2>1. CASE d # c
    <3>1. calls'[d] = calls[d]
      BY <1>1, <2>1 DEF TransportTypeOK
    <3> QED BY <1>1, <1>4, <1>5, <3>1, CallKept
  <2>2. CASE d = c
    <3>1. /\ Request(c) = None /\ relay[c].phase = "none" /\ relay[c].answer = None
          /\ tx[c] = "none" /\ held[c] = {}
      BY <1>1 DEF Requested, Staged
    <3>2. held'[c] = {}
      BY <1>1, <3>1 DEF Remember
    <3>3. calls'[c].request = r /\ calls'[c].state = "waiting" /\ calls'[c].result = calls[c].result
          /\ idempotency'[r.key] = r
      BY <1>1, <1>2 DEF TransportTypeOK
    <3>4. Requested(c)'
      BY <1>1, <3>1, <3>3, TransportAssumption DEF Requested, Request
    <3>5. (Staged(c) /\ Seen(c) /\ Answered(c))'
      BY <1>1, <3>1, <3>2, TransportAssumption DEF Staged, Seen, Answered, Reading, Results, Rejections, Outcomes
    <3> QED BY <2>2, <3>4, <3>5
  <2> QED BY <2>1, <2>2
<1>7. Executed'
  <2>1. \A e \in executed : e.call \in Calls /\ tx[e.call] = "success"
    BY <1>1 DEF TransportTypeOK, Executed
  <2>2. tx[c] # "success"
    BY <1>1 DEF Requested, Staged
  <2>3. \A e \in executed : Request(e.call)' = Request(e.call)
    BY <1>1, <2>1, <2>2 DEF TransportTypeOK, Request
  <2> QED BY <1>1, <2>3 DEF Executed
<1> QED BY <1>3, <1>6, <1>7 DEF TransportInv

LEMMA ReturnKeeps ==
  ASSUME TransportInv, Remember, NEW c \in Calls, NEW answer,
         answer = "transport-unavailable" \/ (answer = relay[c].answer /\ answer \in Results),
         Gives(c, answer), UNCHANGED <<world, network, idempotency, relay>>
  PROVE  TransportInv'
<1>1. /\ TransportTypeOK /\ Requested(c) /\ Staged(c) /\ Seen(c) /\ Answered(c) /\ Executed
      /\ calls' = [calls EXCEPT ![c].state = "returned", ![c].result = answer]
      /\ UNCHANGED <<current, safeNonce, spent, head, now, moves, tx, executed, idempotency, relay>>
  BY DEF TransportInv, Gives, world, network
<1>2. answer \in Results /\ answer # None
  BY TransportAssumption DEF Results
<1>3. TransportTypeOK'
  <2>1. calls' \in [Calls -> [state : {"new", "waiting", "returned"},
                              request : Requests \cup {None}, result : Results \cup {None}]]
    <3>1. calls \in [Calls -> [state : {"new", "waiting", "returned"},
                               request : Requests \cup {None}, result : Results \cup {None}]]
      BY <1>1 DEF TransportTypeOK
    <3>2. answer \in Results \cup {None}
      BY <1>2
    <3> QED BY ONLY <1>1, <3>1, <3>2
  <2>2. calls'[c].state = "returned" /\ calls'[c].result = answer
    BY <1>1 DEF TransportTypeOK
  <2>3. \A d \in Calls : d # c => calls'[d] = calls[d]
    BY <1>1 DEF TransportTypeOK
  <2>4. \A d \in Calls : calls'[d].state = "returned" <=> calls'[d].result # None
    BY <1>1, <1>2, <2>2, <2>3 DEF TransportTypeOK
  <2> QED BY <1>1, <2>1, <2>4 DEF TransportTypeOK
<1>4. head \in Nat /\ head >= head
  BY <1>1, TransportAssumption DEF TransportTypeOK
<1>5. /\ calls'[c].request = calls[c].request /\ calls'[c].state = "returned" /\ calls'[c].result = answer
      /\ \A d \in Calls : Request(d)' = Request(d)
  BY <1>1 DEF TransportTypeOK, Request
<1>6. ASSUME NEW d \in Calls PROVE (Requested(d) /\ Staged(d) /\ Seen(d) /\ Answered(d))'
  <2>1. CASE d # c
    <3>1. calls'[d] = calls[d]
      BY <1>1, <2>1 DEF TransportTypeOK
    <3> QED BY <1>1, <1>4, <3>1, CallKept
  <2>2. CASE d = c
    <3>1. Requested(c)'
      BY <1>1, <1>5 DEF Requested
    <3>2. (Staged(c) /\ Answered(c))'
      <4>1. relay[c].phase # "second" => held'[c] = held[c]
        BY <1>1 DEF Remember
      <4> QED BY <1>1, <1>5, <4>1 DEF Staged, Answered, Reading
    <3>3. Seen(c)'
      <4>1. relay[c].phase = "second" => Request(c) # None
        BY <1>1 DEF Staged
      <4>2. relay[c].phase = "send" \/ tx[c] # "none" =>
              relay[c].phase # "second" /\ held[c] = ToSet(Facts(Request(c)))
        BY <1>1 DEF Staged, Seen
      <4> QED BY <1>1, <1>4, <1>5, <4>1, <4>2, SeenGrows
    <3> QED BY <2>2, <3>1, <3>2, <3>3
  <2> QED BY <2>1, <2>2
<1>7. Executed'
  <2>1. \A e \in executed : e.call \in Calls
    BY <1>1 DEF TransportTypeOK
  <2> QED BY <1>1, <1>5, <2>1 DEF Executed
<1> QED BY <1>3, <1>6, <1>7 DEF TransportInv

LEMMA ClientKeeps ==
  ASSUME TransportInv, Remember, ClientStep
  PROVE  TransportInv'
<1>1. PICK c \in Calls :
        (\E r \in Requests : Submit(c, r) \/ SubmitRefused(c, r)) \/ Reply(c) \/ Timeout(c)
  BY DEF ClientStep
<1>2. ASSUME NEW r \in Requests, SubmitRefused(c, r) PROVE TransportInv'
  BY <1>2, ReturnKeeps DEF SubmitRefused
<1>3. Reply(c) => TransportInv'
  BY ReturnKeeps DEF Reply
<1>4. Timeout(c) => TransportInv'
  BY ReturnKeeps DEF Timeout
<1> QED BY <1>1, <1>2, <1>3, <1>4, SubmitKeeps

-----------------------------------------------------------------------------
(* The relayer's steps.  One handler moves, and broadcasts at most once.    *)
LEMMA HandlerKeeps ==
  ASSUME TransportInv, Remember, NEW c \in Calls, NEW step,
         relay' = [relay EXCEPT ![c] = step],
         step \in [phase : {"none", "first", "second", "send", "reconcile", "reconcileError", "done"},
                   at : 1..7, answer : Results \cup {None}],
         UNCHANGED <<world, client, executed>>,
         tx' = tx \/ (tx[c] = "none" /\ tx' = [tx EXCEPT ![c] = "pool"]),
         relay[c].answer # None => step.answer = relay[c].answer,
         Staged(c)', Seen(c)', Answered(c)'
  PROVE  TransportInv'
<1>1. /\ TransportTypeOK /\ Requested(c) /\ Executed
      /\ UNCHANGED <<current, safeNonce, spent, head, now, moves, executed, idempotency, calls>>
  BY DEF TransportInv, world, client
<1>2. TransportTypeOK'
  <2>1. tx' \in [Calls -> {"none", "pool", "success", "reverted"}]
    BY <1>1 DEF TransportTypeOK
  <2>2. relay' \in [Calls -> [phase : {"none", "first", "second", "send", "reconcile", "reconcileError", "done"},
                              at : 1..7, answer : Results \cup {None}]]
    BY <1>1 DEF TransportTypeOK
  <2> QED BY <1>1, <2>1, <2>2 DEF TransportTypeOK
<1>3. head \in Nat /\ head >= head
  BY <1>1, TransportAssumption DEF TransportTypeOK
<1>4. /\ relay'[c] = step
      /\ \A d \in Calls : d # c => relay'[d] = relay[d] /\ tx'[d] = tx[d]
      /\ \A d \in Calls : tx'[d] = "success" <=> tx[d] = "success"
      /\ \A d \in Calls : Request(d)' = Request(d)
  BY <1>1 DEF TransportTypeOK, Request
<1>5. Requested(c)'
  BY <1>1, <1>4 DEF Requested
<1>6. \A d \in Calls : (Requested(d) /\ Staged(d) /\ Seen(d) /\ Answered(d))'
  BY <1>1, <1>3, <1>4, <1>5, CallKept
<1>7. Executed'
  <2>1. \A e \in executed : e.call \in Calls
    BY <1>1 DEF TransportTypeOK
  <2> QED BY <1>1, <1>4, <2>1 DEF Executed
<1> QED BY <1>2, <1>6, <1>7 DEF TransportInv

(* A handler that answers, or moves to a phase past its two rounds.         *)
LEMMA PastRoundsKeeps ==
  ASSUME TransportInv, Remember, NEW c \in Calls, NEW step,
         relay' = [relay EXCEPT ![c] = step],
         step \in [phase : {"send", "reconcile", "reconcileError", "done"},
                   at : 1..7, answer : Results \cup {None}],
         UNCHANGED <<world, client, executed>>,
         tx' = tx \/ (relay[c].phase = "send" /\ step.phase # "send" /\ tx' = [tx EXCEPT ![c] = "pool"]),
         Request(c) # None,
         relay[c].answer = None \/ step.answer = relay[c].answer,
         step.phase # "done" => step.answer = None,
         step.phase = "send" => tx' = tx /\ relay[c].phase = "second" /\ held[c] = ToSet(Facts(Request(c))),
         step.phase \in {"reconcile", "reconcileError"} => tx'[c] # "none",
         Answered(c)'
  PROVE  TransportInv'
<1>1. /\ TransportTypeOK /\ Staged(c) /\ Seen(c)
      /\ UNCHANGED <<current, safeNonce, spent, head, now, moves, executed, idempotency, calls>>
  BY DEF TransportInv, world, client
<1>2. head \in Nat /\ head' \in Nat /\ head' >= head
  BY <1>1, TransportAssumption DEF TransportTypeOK
<1>3. relay'[c] = step /\ Request(c)' = Request(c) /\ step.phase \notin {"none", "first", "second"}
  BY <1>1 DEF TransportTypeOK, Request
<1>4. tx'[c] # "none" => relay[c].phase = "send" \/ tx[c] # "none"
  BY <1>1 DEF TransportTypeOK
<1>5. tx'[c] # "none" => step.phase \in {"reconcile", "reconcileError", "done"}
  BY <1>1, <1>3 DEF Staged
<1>6. Staged(c)'
  BY <1>3, <1>5 DEF Staged, Reading
<1>7. Seen(c)'
  <2>1. tx'[c] # "none" => held[c] = ToSet(Facts(Request(c)))
    BY <1>1, <1>4 DEF Seen
  <2> QED BY <1>1, <1>2, <1>3, <2>1, SeenGrows
<1>8. tx[c] = "none" \/ tx' = tx
  BY <1>1 DEF Staged
<1>9. step \in [phase : {"none", "first", "second", "send", "reconcile", "reconcileError", "done"},
                at : 1..7, answer : Results \cup {None}]
  OBVIOUS
<1> QED BY <1>6, <1>7, <1>8, <1>9, HandlerKeeps

(* Goes and Answers give the handler one new record.                        *)
LEMMA HandlerRecord ==
  ASSUME NEW h \in [phase : {"none", "first", "second", "send", "reconcile", "reconcileError", "done"},
                    at : 1..7, answer : Results \cup {None}], NEW phase
  PROVE  [h EXCEPT !.phase = phase, !.at = 1] = [phase |-> phase, at |-> 1, answer |-> h.answer]
<1>1. [h EXCEPT !.phase = phase] = [phase |-> phase, at |-> h.at, answer |-> h.answer]
  OBVIOUS
<1>2. [[phase |-> phase, at |-> h.at, answer |-> h.answer] EXCEPT !.at = 1]
        = [phase |-> phase, at |-> 1, answer |-> h.answer]
  OBVIOUS
<1> QED BY <1>1, <1>2

LEMMA AnsweringRecord ==
  ASSUME NEW h \in [phase : {"none", "first", "second", "send", "reconcile", "reconcileError", "done"},
                    at : 1..7, answer : Results \cup {None}], NEW answer
  PROVE  [h EXCEPT !.phase = "done", !.at = 1, !.answer = answer]
           = [phase |-> "done", at |-> 1, answer |-> answer]
<1>1. [h EXCEPT !.phase = "done"] = [phase |-> "done", at |-> h.at, answer |-> h.answer]
  OBVIOUS
<1>2. [[phase |-> "done", at |-> h.at, answer |-> h.answer] EXCEPT !.at = 1]
        = [phase |-> "done", at |-> 1, answer |-> h.answer]
  OBVIOUS
<1>3. [[phase |-> "done", at |-> 1, answer |-> h.answer] EXCEPT !.answer = answer]
        = [phase |-> "done", at |-> 1, answer |-> answer]
  OBVIOUS
<1> QED BY <1>1, <1>2, <1>3

LEMMA GoesSteps ==
  ASSUME TransportTypeOK, NEW c \in Calls, NEW phase, Goes(c, phase)
  PROVE  relay' = [relay EXCEPT ![c] = [phase |-> phase, at |-> 1, answer |-> relay[c].answer]]
<1>1. relay[c] \in [phase : {"none", "first", "second", "send", "reconcile", "reconcileError", "done"},
                    at : 1..7, answer : Results \cup {None}]
  BY DEF TransportTypeOK
<1>2. [relay[c] EXCEPT !.phase = phase, !.at = 1] = [phase |-> phase, at |-> 1, answer |-> relay[c].answer]
  BY ONLY <1>1, HandlerRecord
<1>3. relay' = [relay EXCEPT ![c] = [relay[c] EXCEPT !.phase = phase, !.at = 1]]
  BY DEF Goes, TransportTypeOK
<1> QED BY <1>2, <1>3

LEMMA AnswersSteps ==
  ASSUME TransportTypeOK, NEW c \in Calls, NEW answer, Answers(c, answer)
  PROVE  relay' = [relay EXCEPT ![c] = [phase |-> "done", at |-> 1, answer |-> answer]]
<1>1. relay[c] \in [phase : {"none", "first", "second", "send", "reconcile", "reconcileError", "done"},
                    at : 1..7, answer : Results \cup {None}]
  BY DEF TransportTypeOK
<1>2. [relay[c] EXCEPT !.phase = "done", !.at = 1, !.answer = answer]
        = [phase |-> "done", at |-> 1, answer |-> answer]
  BY ONLY <1>1, AnsweringRecord
<1>3. relay' = [relay EXCEPT ![c] = [relay[c] EXCEPT !.phase = "done", !.at = 1, !.answer = answer]]
  BY DEF Answers, TransportTypeOK
<1> QED BY <1>2, <1>3

LEMMA ReceiveKeeps ==
  ASSUME TransportInv, Remember, NEW c \in Calls, Receive(c)
  PROVE  TransportInv'
<1> DEFINE step == [phase |-> "first", at |-> 1, answer |-> relay[c].answer]
<1>1. /\ TransportTypeOK /\ Staged(c) /\ Seen(c) /\ Answered(c)
      /\ Request(c) # None /\ relay[c].phase = "none" /\ Goes(c, "first")
      /\ UNCHANGED <<world, network, client>>
      /\ UNCHANGED <<head, tx, executed, calls>>
  BY DEF TransportInv, Receive, world, network, client
<1>2. relay' = [relay EXCEPT ![c] = step]
  BY <1>1, GoesSteps
<1>3. relay[c].answer = None /\ held[c] = {} /\ tx[c] = "none" /\ Request(c) \in Requests
  BY <1>1, CallTyped DEF Staged
<1>4. /\ relay'[c].phase = "first" /\ relay'[c].at = 1 /\ relay'[c].answer = None
      /\ Request(c)' = Request(c) /\ tx'[c] = "none"
  BY <1>1, <1>2, <1>3 DEF TransportTypeOK, Request
<1>5. held'[c] = {}
  BY <1>3, <1>4 DEF Remember
<1>6. Staged(c)'
  <2>1. 1 <= Len(Facts(Request(c)))
    BY <1>3, FactsListed
  <2> QED BY <1>1, <1>4, <1>5, <2>1 DEF Staged, Reading
<1>7. Seen(c)' /\ Answered(c)'
  BY <1>4, <1>5, TransportAssumption DEF Seen, Answered, Results, Rejections, Outcomes
<1>8. step \in [phase : {"none", "first", "second", "send", "reconcile", "reconcileError", "done"},
                at : 1..7, answer : Results \cup {None}]
  BY <1>3
<1> QED BY <1>1, <1>2, <1>3, <1>6, <1>7, <1>8, HandlerKeeps DEF network

(* A fact that is read and holds is among those seen, in the second round.  *)
LEMMA FactSeen ==
  ASSUME TransportInv, NEW c \in Calls, relay[c].phase = "second", Holds(Fact(c), Request(c))
  PROVE  Fact(c) \in held[c]
<1>1. TransportTypeOK /\ Staged(c) /\ Seen(c)
  BY DEF TransportInv
<1>2. Request(c) \in Requests /\ relay[c].at \in 1..Len(Facts(Request(c)))
  BY <1>1, CallTyped, FactsListed DEF Staged, Reading
<1>3. Fact(c) \in ToSet(Facts(Request(c)))
  BY <1>2, FactsListed DEF Fact
<1> QED BY <1>1, <1>3 DEF Seen

LEMMA NextFactKeeps ==
  ASSUME TransportInv, Remember, NEW c \in Calls, Check(c), ~LastFact(c)
  PROVE  TransportInv'
<1> DEFINE step == [phase |-> relay[c].phase, at |-> relay[c].at + 1, answer |-> relay[c].answer]
<1>1. /\ TransportTypeOK /\ Staged(c) /\ Seen(c) /\ Answered(c)
      /\ Reading(c) /\ Holds(Fact(c), Request(c))
      /\ relay' = [relay EXCEPT ![c].at = @ + 1]
      /\ UNCHANGED <<world, network, client>>
      /\ UNCHANGED <<head, tx, executed, calls>>
  BY DEF TransportInv, Check, world, network, client
<1>2. /\ relay[c].answer = None /\ tx[c] = "none" /\ Request(c) \in Requests
      /\ relay[c].phase \in {"first", "second"}
  BY <1>1, CallTyped DEF Staged, Reading
<1>3. relay[c].at \in 1..6 /\ relay[c].at + 1 <= Len(Facts(Request(c)))
  <2>1. Len(Facts(Request(c))) \in 6..7 /\ relay[c].at <= Len(Facts(Request(c)))
    BY <1>1, <1>2, FactsListed DEF Staged
  <2>2. relay[c].at # Len(Facts(Request(c))) /\ relay[c].at \in 1..7
    BY <1>1, CallTyped DEF LastFact
  <2>3. ASSUME NEW n \in 6..7, NEW i \in 1..7, i <= n, i # n PROVE i \in 1..6 /\ i + 1 <= n
    BY <2>3
  <2> QED BY ONLY <2>1, <2>2, <2>3
<1>4. relay' = [relay EXCEPT ![c] = step]
  <2>1. relay[c] \in [phase : {"none", "first", "second", "send", "reconcile", "reconcileError", "done"},
                      at : 1..7, answer : Results \cup {None}]
    BY <1>1 DEF TransportTypeOK
  <2>2. [relay[c] EXCEPT !.at = relay[c].at + 1] = step
    BY <2>1
  <2>3. relay' = [relay EXCEPT ![c] = [relay[c] EXCEPT !.at = relay[c].at + 1]]
    BY <1>1 DEF TransportTypeOK
  <2> QED BY <2>2, <2>3
<1>5. /\ relay'[c].phase = relay[c].phase /\ relay'[c].at = relay[c].at + 1 /\ relay'[c].answer = None
      /\ Request(c)' = Request(c) /\ tx'[c] = "none"
  BY <1>1, <1>2, <1>4 DEF TransportTypeOK, Request
<1>6. Staged(c)'
  <2>1. relay[c].phase = "first" => held'[c] = held[c]
    BY <1>5 DEF Remember
  <2> QED BY <1>1, <1>2, <1>3, <1>5, <2>1 DEF Staged, Reading
<1>7. Seen(c)'
  <2>1. relay[c].phase = "second" => Facts(Request(c))[relay[c].at] \in held[c]
    BY <1>1, FactSeen DEF Fact
  <2>2. head' \in Nat /\ head' >= head
    BY <1>1, TransportAssumption DEF TransportTypeOK
  <2>3. held[c] = {} \/ relay[c].phase = "second"
    BY <1>1, <1>2 DEF Staged
  <2>4. CASE relay[c].phase = "second"
    BY <1>1, <1>2, <1>5, <2>1, <2>2, <2>4, SeenGrows, TransportAssumption
  <2>5. CASE relay[c].phase = "first"
    BY <1>1, <1>2, <1>5, <2>2, <2>5, SeenGrows
  <2> QED BY <1>2, <2>4, <2>5
<1>8. Answered(c)'
  BY <1>5, TransportAssumption DEF Answered, Results, Rejections, Outcomes
<1>9. step \in [phase : {"none", "first", "second", "send", "reconcile", "reconcileError", "done"},
                at : 1..7, answer : Results \cup {None}]
  BY <1>2, <1>3
<1> QED BY <1>1, <1>2, <1>4, <1>6, <1>7, <1>8, <1>9, HandlerKeeps DEF network

(* The last fact of the first round begins the second, with what holds.     *)
LEMMA SecondRoundKeeps ==
  ASSUME TransportInv, Remember, NEW c \in Calls, Check(c), LastFact(c), relay[c].phase = "first"
  PROVE  TransportInv'
<1> DEFINE step == [phase |-> "second", at |-> 1, answer |-> relay[c].answer]
<1>1. /\ TransportTypeOK /\ Staged(c) /\ Seen(c)
      /\ Goes(c, "second")
      /\ UNCHANGED <<world, network, client>>
      /\ UNCHANGED <<head, tx, executed, calls>>
  BY DEF TransportInv, Check, world, network, client
<1>2. relay[c].answer = None /\ tx[c] = "none" /\ Request(c) \in Requests
  BY <1>1, CallTyped DEF Staged
<1>3. relay' = [relay EXCEPT ![c] = step]
  BY <1>1, GoesSteps
<1>4. /\ relay'[c].phase = "second" /\ relay'[c].at = 1 /\ relay'[c].answer = None
      /\ Request(c)' = Request(c) /\ tx'[c] = "none"
  BY <1>1, <1>2, <1>3 DEF TransportTypeOK, Request
<1>5. Staged(c)'
  <2>1. 1 <= Len(Facts(Request(c)))
    BY <1>2, FactsListed
  <2> QED BY <1>2, <1>4, <2>1, TransportAssumption DEF Staged, Reading
<1>6. Seen(c)'
  <2>1. head' \in Nat /\ head' >= head
    BY <1>1, TransportAssumption DEF TransportTypeOK
  <2> QED BY <1>1, <1>2, <1>4, <2>1, SeenGrows, TransportAssumption
<1>7. Answered(c)'
  BY <1>4, TransportAssumption DEF Answered, Results, Rejections, Outcomes
<1>8. step \in [phase : {"none", "first", "second", "send", "reconcile", "reconcileError", "done"},
                at : 1..7, answer : Results \cup {None}]
  BY <1>2
<1> QED BY <1>1, <1>2, <1>3, <1>5, <1>6, <1>7, <1>8, HandlerKeeps DEF network

(* The last fact of the second round: all of them have been seen.           *)
LEMMA LastFactKeeps ==
  ASSUME TransportInv, Remember, NEW c \in Calls, Check(c), LastFact(c), relay[c].phase = "second"
  PROVE  TransportInv'
<1> DEFINE r == Request(c)
           step == [phase |-> "send", at |-> 1, answer |-> relay[c].answer]
<1>1. /\ TransportTypeOK /\ Staged(c) /\ Seen(c)
      /\ Holds(Fact(c), r) /\ Goes(c, "send") /\ relay[c].at = Len(Facts(r))
      /\ UNCHANGED <<world, network, client>>
      /\ UNCHANGED <<tx, executed>>
  BY DEF TransportInv, Check, LastFact, network
<1>2. relay[c].answer = None /\ tx[c] = "none" /\ r \in Requests /\ r # None
  BY <1>1, CallTyped, TransportAssumption DEF Staged
<1>3. relay' = [relay EXCEPT ![c] = step]
  BY <1>1, GoesSteps
<1>4. held[c] = ToSet(Facts(r))
  <2>1. \A i \in 1..Len(Facts(r)) : i \in 1..(relay[c].at - 1) \/ i = relay[c].at
    BY <1>1, <1>2, FactsListed
  <2>2. \A i \in 1..(relay[c].at - 1) : Facts(r)[i] \in held[c]
    BY <1>1 DEF Seen
  <2>3. Facts(r)[relay[c].at] \in held[c]
    BY <1>1, FactSeen DEF Fact
  <2>4. ToSet(Facts(r)) = {Facts(r)[i] : i \in 1..Len(Facts(r))}
    BY <1>2, FactsListed
  <2>5. held[c] \subseteq ToSet(Facts(r))
    BY <1>1 DEF Seen
  <2> QED BY <2>1, <2>2, <2>3, <2>4, <2>5
<1>5. Answered(c)'
  <2>1. relay'[c].answer = None
    BY <1>1, <1>2, <1>3 DEF TransportTypeOK
  <2> QED BY <2>1, TransportAssumption DEF Answered, Results, Rejections, Outcomes
<1>6. step \in [phase : {"send", "reconcile", "reconcileError", "done"},
                at : 1..7, answer : Results \cup {None}]
  BY <1>2
<1> QED BY <1>1, <1>2, <1>3, <1>4, <1>5, <1>6, PastRoundsKeeps

LEMMA CheckKeeps ==
  ASSUME TransportInv, Remember, NEW c \in Calls, Check(c)
  PROVE  TransportInv'
<1>1. relay[c].phase \in {"first", "second"}
  BY DEF Check, Reading
<1> QED BY <1>1, NextFactKeeps, SecondRoundKeeps, LastFactKeeps

(* Answers that are not given of a receipt: nothing has been broadcast, or  *)
(* nothing is said of it.                                                  *)
LEMMA UnsettledAnswerKeeps ==
  ASSUME TransportInv, Remember, NEW c \in Calls, NEW answer,
         relay[c].phase \notin {"none", "done"}, Answers(c, answer),
         UNCHANGED <<world, client, executed>>,
         tx' = tx \/ (relay[c].phase = "send" /\ tx' = [tx EXCEPT ![c] = "pool"]),
         \/ answer \in Rejections /\ tx' = tx /\ Reading(c)
         \/ answer = "transport-unavailable"
  PROVE  TransportInv'
<1> DEFINE step == [phase |-> "done", at |-> 1, answer |-> answer]
<1>1. TransportTypeOK /\ Staged(c)
  BY DEF TransportInv
<1>2. relay' = [relay EXCEPT ![c] = step]
  BY <1>1, AnswersSteps
<1>3. relay'[c] = step
  BY <1>1, <1>2 DEF TransportTypeOK
<1>4. step \in [phase : {"send", "reconcile", "reconcileError", "done"},
                at : 1..7, answer : Results \cup {None}]
  BY DEF Results
<1>5. relay[c].answer = None /\ Request(c) # None
  BY <1>1 DEF Staged
<1>6. Answered(c)'
  <2>1. answer \in Rejections => tx'[c] = "none"
    BY <1>1 DEF Staged, Reading, Rejections
  <2>2. relay'[c].answer = answer
    BY <1>3
  <2> QED BY <2>1, <2>2 DEF Answered, Rejections
<1> QED BY <1>2, <1>4, <1>5, <1>6, PastRoundsKeeps

LEMMA ReconcileKeeps ==
  ASSUME TransportInv, Remember, NEW c \in Calls, Reconcile(c)
  PROVE  TransportInv'
<1> DEFINE answer == CASE tx[c] = "pool" -> "submitted"
                       [] tx[c] = "success" -> "confirmed"
                       [] OTHER -> "reverted"
           step == [phase |-> "done", at |-> 1, answer |-> answer]
<1>1. /\ TransportTypeOK /\ Staged(c) /\ Answers(c, answer)
      /\ relay[c].phase \in {"reconcile", "reconcileError"}
      /\ UNCHANGED <<world, client, executed>> /\ tx' = tx
  BY DEF TransportInv, Reconcile, network
<1>2. relay' = [relay EXCEPT ![c] = step]
  BY <1>1, AnswersSteps
<1>3. answer \in Outcomes
  BY DEF Outcomes
<1>4. tx[c] \in {"pool", "success", "reverted"} /\ relay[c].answer = None /\ Request(c) # None
  BY <1>1 DEF TransportTypeOK, Staged
<1>5. relay'[c].answer = answer /\ relay'[c].phase = "done"
  BY <1>1, <1>2 DEF TransportTypeOK
<1>6. Answered(c)'
  BY <1>1, <1>3, <1>4, <1>5 DEF Answered, Rejections, Outcomes
<1>7. step \in [phase : {"send", "reconcile", "reconcileError", "done"},
                at : 1..7, answer : Results \cup {None}]
  BY <1>3 DEF Results
<1>8. step.phase = "done"
  OBVIOUS
<1> HIDE DEF step
<1> QED BY <1>1, <1>2, <1>4, <1>6, <1>7, <1>8, PastRoundsKeeps

LEMMA BroadcastKeeps ==
  ASSUME TransportInv, Remember, NEW c \in Calls, Broadcast(c)
  PROVE  TransportInv'
<1>1. PICK phase \in {"reconcile", "reconcileError"} : Goes(c, phase)
  BY DEF Broadcast
<1> DEFINE step == [phase |-> phase, at |-> 1, answer |-> relay[c].answer]
<1>2. /\ TransportTypeOK /\ Staged(c) /\ relay[c].phase = "send"
      /\ UNCHANGED <<world, client, executed>> /\ tx' = [tx EXCEPT ![c] = "pool"]
  BY DEF TransportInv, Broadcast, Sends
<1>3. relay' = [relay EXCEPT ![c] = step]
  BY <1>1, <1>2, GoesSteps
<1>4. relay[c].answer = None /\ Request(c) # None
  BY <1>2 DEF Staged
<1>5. relay'[c].answer = None /\ tx'[c] = "pool"
  BY <1>2, <1>3, <1>4 DEF TransportTypeOK
<1>6. Answered(c)'
  BY <1>5, TransportAssumption DEF Answered, Results, Rejections, Outcomes
<1>7. /\ step \in [phase : {"send", "reconcile", "reconcileError", "done"},
                   at : 1..7, answer : Results \cup {None}]
      /\ step.phase = phase /\ step.answer = None
  BY <1>4
<1> HIDE DEF step
<1> QED BY <1>2, <1>3, <1>4, <1>5, <1>6, <1>7, PastRoundsKeeps

LEMMA HandlerDiesKeeps ==
  ASSUME TransportInv, Remember, NEW c \in Calls, HandlerDies(c)
  PROVE  TransportInv'
<1> DEFINE step == [phase |-> "done", at |-> 1, answer |-> relay[c].answer]
<1>1. /\ TransportTypeOK /\ Staged(c) /\ Answered(c) /\ Goes(c, "done")
      /\ relay[c].phase \notin {"none", "done"}
      /\ UNCHANGED <<world, client, executed>> /\ tx' = tx
  BY DEF TransportInv, HandlerDies, network
<1>2. relay' = [relay EXCEPT ![c] = step]
  BY <1>1, GoesSteps
<1>3. relay[c].answer = None /\ Request(c) # None
  BY <1>1 DEF Staged
<1>4. relay'[c].answer = None
  BY <1>1, <1>2, <1>3 DEF TransportTypeOK
<1>5. Answered(c)'
  BY <1>4, TransportAssumption DEF Answered, Results, Rejections, Outcomes
<1>6. step \in [phase : {"send", "reconcile", "reconcileError", "done"},
                at : 1..7, answer : Results \cup {None}]
  BY <1>3
<1> QED BY <1>1, <1>2, <1>3, <1>5, <1>6, PastRoundsKeeps

LEMMA RelayKeeps ==
  ASSUME TransportInv, Remember, RelayStep
  PROVE  TransportInv'
<1>1. PICK c \in Calls :
        \/ Receive(c) \/ Check(c) \/ Reject(c) \/ ReadFails(c)
        \/ Broadcast(c) \/ BroadcastFails(c)
        \/ Reconcile(c) \/ ReceiptUnread(c) \/ HandlerDies(c)
  BY DEF RelayStep
<1>2. CASE Reject(c)
  <2>1. \E answer \in Rejections : Answers(c, answer)
    BY <1>2 DEF Reject, Rejections
  <2> QED BY <1>2, <2>1, UnsettledAnswerKeeps DEF Reject, Reading, network
<1>3. CASE ReadFails(c)
  BY <1>3, UnsettledAnswerKeeps DEF ReadFails, Reading, Rejections, network
<1>4. CASE BroadcastFails(c)
  BY <1>4, UnsettledAnswerKeeps DEF BroadcastFails, Sends, network
<1>5. CASE ReceiptUnread(c)
  BY <1>5, UnsettledAnswerKeeps DEF ReceiptUnread, network
<1> QED BY <1>1, <1>2, <1>3, <1>4, <1>5, ReceiveKeeps, CheckKeeps, BroadcastKeeps, ReconcileKeeps,
           HandlerDiesKeeps

LEMMA ChainKeeps ==
  ASSUME TransportInv, Remember, ChainStep
  PROVE  TransportInv'
BY MovesKeep, MineSafeKeeps, MineDelayKeeps, MineRevertedKeeps DEF ChainStep

LEMMA StutterKeeps ==
  ASSUME TransportInv, UNCHANGED vars
  PROVE  TransportInv'
<1> USE DEF vars, world, network, client
<1>1. TransportTypeOK'
  BY DEF TransportInv, TransportTypeOK
<1>2. \A c \in Calls : (Requested(c) /\ Staged(c) /\ Seen(c) /\ Answered(c))'
  BY DEF TransportInv, Requested, Staged, Seen, Answered, Request, Reading, Holds, HasItem, Ripe
<1>3. Executed'
  BY DEF TransportInv, Executed, Request
<1> QED BY <1>1, <1>2, <1>3 DEF TransportInv

LEMMA TransportInvariant == Spec => []TransportInv
<1>1. TransportInv /\ [Next]_vars => TransportInv'
  BY ChainKeeps, ClientKeeps, RelayKeeps, StutterKeeps DEF Next
<1> QED BY <1>1, TransportInitially, PTL DEF Spec

-----------------------------------------------------------------------------
(* A submission's state stays in its type, whatever calls, requests, queue  *)
(* and moves of the chain there are.                                        *)
THEOREM TransportTypeCorrect == Spec => []TransportTypeOK
BY TransportInvariant, PTL DEF TransportInv

(* validateAndBroadcast sends nothing that rests on a fact which failed to  *)
(* hold throughout its second round of reads.                               *)
THEOREM BroadcastIsCurrent == Spec => []BroadcastWasCurrent
<1>1. TransportInv => BroadcastWasCurrent
  BY DEF TransportInv, BroadcastWasCurrent, Seen
<1> QED BY <1>1, TransportInvariant, PTL

(* However the chain, the handler and the client's timer interleave, the    *)
(* answer of the relayer, and what the client makes of it, is true.         *)
THEOREM AnswersAreTrueAlways == Spec => []AnswersAreTrue
<1>1. ASSUME TransportInv, NEW c \in Calls,
             NEW answer \in {relay[c].answer, calls[c].result}
      PROVE  /\ answer \in Rejections => tx[c] = "none"
             /\ answer = "submitted" => tx[c] # "none"
             /\ answer = "confirmed" => \E e \in executed : e.call = c
             /\ answer = "reverted" => \A e \in executed : e.call # c
  <2>1. /\ Requested(c) /\ Answered(c) /\ Executed
        /\ calls[c].result \in {None, "transport-unavailable", relay[c].answer}
    BY <1>1 DEF TransportInv, Requested
  <2>2. answer \in Rejections \cup Outcomes => answer = relay[c].answer
    BY <1>1, <2>1, TransportAssumption DEF Results, Rejections, Outcomes
  <2>3. \A e \in executed : tx[e.call] = "success"
    BY <2>1 DEF Executed
  <2> QED BY <2>1, <2>2, <2>3 DEF Answered, Executed, Outcomes
<1>2. TransportInv => AnswersAreTrue
  BY <1>1 DEF AnswersAreTrue
<1> QED BY <1>2, TransportInvariant, PTL

(* No retry, and no late handler, executes another Safe nonce or another    *)
(* content than its request named, or what was executed before.             *)
THEOREM ExecutionsAlwaysFit == Spec => []ExecutionsFit
<1>1. ASSUME TransportInv PROVE ExecutionsFit
  <2>1. ASSUME NEW e \in executed PROVE Request(e.call).kind \in {"safe", "delay"}
    <3>1. e.call \in Calls /\ tx[e.call] = "success"
      BY <1>1 DEF TransportInv, TransportTypeOK, Executed
    <3>2. Request(e.call) # None
      BY <1>1, <3>1 DEF TransportInv, Staged
    <3>3. Request(e.call) \in Requests
      BY <1>1, <3>1, <3>2, CallTyped DEF TransportInv
    <3> QED BY <3>3, TransportAssumption
  <2> QED BY <1>1, <2>1 DEF TransportInv, Executed, ExecutionsFit
<1> QED BY <1>1, TransportInvariant, PTL

(* HttpsSubmissionTransport.submit sends a key out with one payload only.   *)
THEOREM KeysAlwaysNameOnePayload == Spec => []KeysNameOnePayload
<1>1. TransportInv => KeysNameOnePayload
  BY DEF TransportInv, Requested, KeysNameOnePayload
<1> QED BY <1>1, TransportInvariant, PTL

=============================================================================
