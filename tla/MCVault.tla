------------------------------ MODULE MCVault ------------------------------
(***************************************************************************)
(* Small instances of Vault for TLC.  A run picks one menu of inputs; the   *)
(* model values are named in the .cfg files.                                *)
(***************************************************************************)
EXTENDS VaultClaims, LaneClassifier

CONSTANTS g1, g2, g3, eurc, usdc, alice, bob, key, card, spare, newKey

Policy(baseTx, stepTx, base, instant, recipients) ==
  [basePerTransaction |-> baseTx, stepUpPerTransaction |-> stepTx,
   baseDailyLimit |-> base, instantDailyLimit |-> instant, recipients |-> recipients]

Wide   == Policy(2, 3, 3, 4, {alice, bob})
Normal == Policy(1, 2, 2, 3, {alice, bob})
Tight  == Policy(1, 1, 1, 2, {alice})
Other  == Policy(1, 1, 1, 2, {bob})

Nobody == [passkey |-> key, ecdsaSecondary |-> card,
           contractSecondary |-> None, contractEnabled |-> FALSE]
SetUp  == [passkey |-> key, ecdsaSecondary |-> card,
           contractSecondary |-> spare, contractEnabled |-> TRUE]
Rotated == [Nobody EXCEPT !.passkey = newKey]

OneGuard == [g \in {g1} |-> SetUp]

StartNormal == [t \in Tokens |-> Normal]

OnlyEurc == [t \in Tokens |-> IF t = eurc THEN Normal ELSE Unset]

(* Limits: both lanes, two recipients, tightening and a queued repair.     *)
WidenCall == {RepairPolicyCall(g1, eurc, Wide)}
Menu == {Tight, Wide, Other}
Five == [t \in Tokens |-> 5]
Four == [t \in Tokens |-> 4]

(* Delay: queued payments and repairs against every owner operation.       *)
PaymentCalls == {TransferCall(eurc, bob, 4), RepairPolicyCall(g1, eurc, Normal)}
Tighter == {Tight}

(* Maintenance: a guard built for the current factors, one built for the    *)
(* rotated primary, and every rotation.                                    *)
ThreeGuards ==
  [g \in {g1, g2, g3} |-> CASE g = g1 -> SetUp [] g = g2 -> Nobody [] g = g3 -> Rotated]
MaintenanceCalls ==
  {ReplaceGuardsCall(g1, g) : g \in {g2, g3}}
    \cup {ReplaceSignerCall(g1, "primary", key, newKey)}
    \cup {ReplaceSignerCall(g, "secondary", s, newKey) : g \in {g1, g2}, s \in {card, spare}}
Narrow == Policy(1, 2, 2, 3, {alice})
StartNarrow == [t \in Tokens |-> Narrow]

=============================================================================
