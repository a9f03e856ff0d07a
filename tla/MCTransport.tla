----------------------------- MODULE MCTransport -----------------------------
(* Two identical queued transfers, a direct one, a request for another      *)
(* chain, and a key used for both queued ones, for TLC.                     *)
EXTENDS RelayerTransport, TLC

CONSTANTS k1, k2, k3, a

MCQueue == <<a, a>>

MCRequest(kind, key, nonce, chain) ==
  [kind |-> kind, key |-> key, nonce |-> nonce, chain |-> chain, content |-> a, spent |-> 0]

MCRequests ==
  {MCRequest("safe", k1, 0, "here"), MCRequest("safe", k3, 0, "elsewhere"),
   MCRequest("delay", k2, 0, "here"), MCRequest("delay", k2, 1, "here")}

MCSymmetry == Permutations(Calls)

=============================================================================
