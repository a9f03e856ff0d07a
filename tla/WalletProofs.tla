----------------------------- MODULE WalletProofs -----------------------------
(* Proofs about WalletBackend.  The properties speak of vaults and saved      *)
(* configurations; the inductive invariant also says what every call in      *)
(* flight stands for, for that is where the backend keeps them meanwhile.    *)
EXTENDS WalletBackend, TLAPS

(* Two credentials, and the ones the backend holds.                         *)
HeldKeys(k) ==
  /\ k = credentials
  /\ k["primary"] # k["secondary"]
  /\ \A r \in Role : k[r] # Nobody

CallFits(c) ==
  /\ call[c].op = "verifying" =>
       \E s \in sessions : s.id = call[c].id /\ s.role = call[c].role
  /\ call[c].op = "provision" => \A r \in Role : call[c].signers[r] # Nobody
  /\ call[c].op \in {"deploying", "mined"} => HeldKeys(call[c].signers)
  /\ call[c].op \in {"mined", "provisioned"} =>
       call[c].safe \in DOMAIN deployed /\ deployed[call[c].safe] = call[c].signers

CallsFit == \A c \in Clients : CallFits(c)

StoredAreProven ==
  \A r \in Role : credentials[r] # Nobody => <<r, credentials[r]>> \in proven

VaultFits ==
  vault # NoVault =>
    /\ HeldKeys(vault.signers)
    /\ vault.safe \in DOMAIN deployed /\ deployed[vault.safe] = vault.signers

ConfigFits ==
  \A c \in Clients : config[c] # NoVault =>
    config[c].safe \in DOMAIN deployed /\ deployed[config[c].safe] = config[c].signers

(* The vaults a client was told of, or is about to be.                      *)
Claims(c, s) ==
  \/ config[c] # NoVault /\ config[c].safe = s
  \/ call[c].op \in {"mined", "provisioned"} /\ call[c].safe = s

ClaimsAreApart ==
  \A c, d \in Clients, s \in 1..MaxVaults : Claims(c, s) /\ Claims(d, s) => c = d

WalletInv ==
  /\ WalletTypeOK
  /\ Len(deployed) <= MaxVaults
  /\ StoredAreProven
  /\ OnlyProvenKeysOwnVaults
  /\ CallsFit
  /\ VaultFits
  /\ ConfigFits
  /\ ClaimsAreApart

(* What the record of a call in flight holds.                               *)
LEMMA CallFields ==
  ASSUME NEW a \in Call
  PROVE  /\ a.op \in {"options", "challenge", "verify", "verifying", "registered"} => a.role \in Role
         /\ a.op \in {"challenge", "verify", "verifying", "registered"} => a.id \in 1..MaxSessions
         /\ a.op \in {"provision", "deploying", "mined", "provisioned"} => a.signers \in Signers
         /\ a.op \in {"mined", "provisioned", "preparing", "prepared"} => a.safe \in 1..MaxVaults
BY DEF Call, Idle, Refused, Sending

(* The records the actions make are calls.                                  *)
LEMMA CallRecords ==
  /\ Idle \in Call /\ Refused \in Call /\ Sending \in Call
  /\ \A r \in Role : Asked(r) \in Call
  /\ \A r \in Role, n \in 1..MaxSessions :
       {Challenged(r, n), Posted(r, n), Verifying(r, n), Registered(r, n)} \subseteq Call
  /\ \A k \in Signers : Requested(k) \in Call /\ Deploying(k) \in Call
  /\ \A s \in 1..MaxVaults, k \in Signers : Mined(s, k) \in Call /\ Provisioned(s, k) \in Call
  /\ \A s \in 1..MaxVaults : Preparing(s) \in Call /\ Prepared(s) \in Call
BY DEF Call, Idle, Refused, Sending, Asked, Challenged, Posted, Verifying, Registered,
       Requested, Deploying, Mined, Provisioned, Preparing, Prepared

LEMMA WalletInit == Init => WalletInv
BY WalletAssumption, CallRecords
   DEF Init, WalletInv, WalletTypeOK, StoredAreProven, OnlyProvenKeysOwnVaults, CallsFit, CallFits,
       VaultFits, ConfigFits, ClaimsAreApart, Claims, Signers, NoSigners, Nobody, Vault, NoVault,
       Idle, Role

(* A step that touches one call, and makes nothing of it that stands for a  *)
(* ceremony or a vault, keeps the invariant.                                *)
LEMMA QuietStep ==
  ASSUME WalletInv, NEW c \in Clients,
         call' \in [Clients -> Call],
         \A d \in Clients \ {c} : call'[d] = call[d],
         call'[c].op \notin {"verifying", "provision", "deploying", "mined", "provisioned"},
         obtained' \in [Clients -> SUBSET (1..MaxSessions)],
         kept' \in [Clients -> Signers],
         UNCHANGED <<memory, issued, deployed, proven, config, restarts>>
  PROVE  WalletInv'
<1>1. WalletTypeOK' /\ StoredAreProven' /\ OnlyProvenKeysOwnVaults' /\ Len(deployed')<= MaxVaults
  BY DEF WalletInv, WalletTypeOK, StoredAreProven, OnlyProvenKeysOwnVaults, memory
<1>2. VaultFits' /\ ConfigFits'
  BY DEF WalletInv, VaultFits, ConfigFits, HeldKeys, memory
<1>3. CallsFit'
  BY DEF WalletInv, CallsFit, CallFits, HeldKeys, memory
<1>4. ClaimsAreApart'
  BY DEF WalletInv, ClaimsAreApart, Claims, memory
<1> QED BY <1>1, <1>2, <1>3, <1>4 DEF WalletInv

(* Typing, as the steps below cite it.                                      *)
LEMMA Typed ==
  ASSUME WalletTypeOK
  PROVE  /\ sessions \subseteq Session /\ issued \in 0..MaxSessions
         /\ \A s, t \in sessions : s.role = t.role => s = t
         /\ credentials \in Signers /\ vault \in Vault /\ deployed \in Seq(Signers)
         /\ call \in [Clients -> Call]
         /\ obtained \in [Clients -> SUBSET (1..MaxSessions)]
         /\ kept \in [Clients -> Signers]
         /\ config \in [Clients -> Vault]
BY DEF WalletTypeOK

(* Every step of a client but its request for a vault and its saving of one. *)
LEMMA ClientQuiet ==
  ASSUME WalletInv, NEW c \in Clients,
         AskOptions(c) \/ Ceremony(c) \/ PostAgain(c) \/ Cancel(c) \/ Keep(c)
           \/ AskPrepare(c) \/ Sign(c)
  PROVE  WalletInv'
<1> USE Typed, CallRecords, CallFields DEF WalletInv
<1>1. \A x \in Clients : call[x] \in Call
  OBVIOUS
<1>2. CASE AskOptions(c)
  BY <1>2, QuietStep DEF AskOptions, Ask, Answer, Asked, client
<1>3. CASE Ceremony(c)
  <2>1. call[c].id \in 1..MaxSessions /\ call[c].role \in Role
    BY <1>1, <1>3 DEF Ceremony
  <2>2. PICK r \in Role : Answer(c, Posted(r, call[c].id))
    BY <1>3, <2>1 DEF Ceremony
  <2>3. Posted(r, call[c].id) \in Call /\ Posted(r, call[c].id).op = "verify"
    BY <2>1 DEF Posted
  <2> QED BY <1>3, <2>1, <2>2, <2>3, QuietStep DEF Ceremony, Answer
<1>4. CASE PostAgain(c)
  <2>1. PICK n \in obtained[c], r \in Role : Ask(c, Posted(r, n))
    BY <1>4 DEF PostAgain
  <2>2. n \in 1..MaxSessions
    OBVIOUS
  <2>3. Posted(r, n) \in Call /\ Posted(r, n).op = "verify"
    BY <2>2 DEF Posted
  <2> QED BY <2>1, <2>3, QuietStep DEF Ask, Answer, client
<1>5. CASE Cancel(c)
  <2>1. kept' \in [Clients -> Signers]
    <3>1. NoSigners \in Signers
      BY WalletAssumption DEF Signers, NoSigners, Nobody
    <3> QED BY <1>5, <3>1 DEF Cancel, Discard
  <2> QED BY <1>5, <2>1, QuietStep DEF Cancel, Answer, Idle
<1>6. CASE Keep(c)
  <2>1. call[c].id \in 1..MaxSessions /\ call[c].role \in Role
    BY <1>1, <1>6 DEF Keep
  <2>2. kept' \in [Clients -> Signers]
    BY <1>6, <2>1 DEF Keep, Signers
  <2> QED BY <1>6, <2>2, QuietStep DEF Keep, Answer, Idle
<1>7. CASE AskPrepare(c)
  BY <1>7, QuietStep DEF AskPrepare, Ask, Answer, Sending, client
<1>8. CASE Sign(c)
  BY <1>8, QuietStep DEF Sign, Answer, Idle, client
<1> QED BY <1>2, <1>3, <1>4, <1>5, <1>6, <1>7, <1>8

(* Answers of the backend that change nothing it holds.                     *)
LEMMA BackendQuiet ==
  ASSUME WalletInv, NEW c \in Clients,
         NotVerified(c) \/ DeployFails(c) \/ PrepareTransfer(c) \/ ReturnPrepared(c)
  PROVE  WalletInv'
<1> USE Typed, CallRecords, CallFields DEF WalletInv
<1>1. \A x \in Clients : call[x] \in Call
  OBVIOUS
<1>2. CASE NotVerified(c)
  BY <1>2, QuietStep DEF NotVerified, Answer, Refused, client
<1>3. CASE DeployFails(c)
  BY <1>3, QuietStep DEF DeployFails, Answer, Refused, client
<1>4. CASE PrepareTransfer(c)
  <2>1. vault # NoVault => vault.safe \in 1..MaxVaults
    BY DEF VaultFits, Vault
  <2>2. vault # NoVault => Preparing(vault.safe) \in Call
    BY <2>1
  <2> QED BY <1>4, <2>2, QuietStep DEF PrepareTransfer, Answer, Refused, Preparing, client
<1>5. CASE ReturnPrepared(c)
  <2>1. call[c].safe \in 1..MaxVaults
    BY <1>1, <1>5 DEF ReturnPrepared
  <2>2. Prepared(call[c].safe) \in Call
    BY <2>1
  <2> QED BY <1>5, <2>2, QuietStep DEF ReturnPrepared, Answer, Refused, Prepared, client
<1> QED BY <1>2, <1>3, <1>4, <1>5

LEMMA AskProvisionStep ==
  ASSUME WalletInv, NEW c \in Clients, AskProvision(c)
  PROVE  WalletInv'
<1> USE Typed, CallRecords DEF WalletInv
<1>1. call' \in [Clients -> Call] /\ call'[c] = Requested(kept[c])
  BY DEF AskProvision, Ask, Answer
<1>2. \A d \in Clients \ {c} : call'[d] = call[d]
  BY DEF AskProvision, Ask, Answer
<1>3. UNCHANGED <<memory, issued, deployed, proven, client, restarts>>
  BY DEF AskProvision, Ask
<1>4. WalletTypeOK' /\ StoredAreProven' /\ OnlyProvenKeysOwnVaults' /\ VaultFits' /\ ConfigFits'
  BY <1>1, <1>3 DEF WalletTypeOK, StoredAreProven, OnlyProvenKeysOwnVaults, VaultFits, ConfigFits,
                    HeldKeys, memory, client
<1>5. CallsFit'
  BY <1>1, <1>2, <1>3 DEF AskProvision, CallsFit, CallFits, HeldKeys, Requested, memory
<1>6. ClaimsAreApart'
  BY <1>1, <1>2, <1>3 DEF ClaimsAreApart, Claims, Requested, client
<1> QED BY <1>3, <1>4, <1>5, <1>6

LEMMA SaveConfigStep ==
  ASSUME WalletInv, NEW c \in Clients, SaveConfig(c)
  PROVE  WalletInv'
<1> USE Typed, CallRecords DEF WalletInv
<1>1. call' \in [Clients -> Call] /\ call'[c] = Idle
  BY DEF SaveConfig, Answer
<1>2. \A d \in Clients \ {c} : call'[d] = call[d] /\ config'[d] = config[d]
  BY DEF SaveConfig, Answer
<1>3. UNCHANGED <<memory, issued, deployed, proven, obtained, restarts>>
  BY DEF SaveConfig
<1>4. call[c].safe \in 1..MaxVaults /\ call[c].signers \in Signers
  BY CallFields DEF SaveConfig
<1>5. /\ config'[c] = [safe |-> call[c].safe, signers |-> call[c].signers]
      /\ config' \in [Clients -> Vault]
  BY <1>4, WalletAssumption DEF SaveConfig, Vault
<1>6. kept' \in [Clients -> Signers]
  <2>1. NoSigners \in Signers
    BY WalletAssumption DEF Signers, NoSigners, Nobody
  <2> QED BY <2>1 DEF SaveConfig, Discard
<1>7. WalletTypeOK' /\ StoredAreProven' /\ OnlyProvenKeysOwnVaults' /\ VaultFits'
  BY <1>1, <1>3, <1>5, <1>6
     DEF WalletTypeOK, StoredAreProven, OnlyProvenKeysOwnVaults, VaultFits, HeldKeys, memory
<1>8. CallsFit'
  BY <1>1, <1>2, <1>3 DEF CallsFit, CallFits, HeldKeys, Idle, memory
<1>9. ConfigFits'
  BY <1>2, <1>3, <1>5 DEF SaveConfig, CallsFit, CallFits, ConfigFits
<1>10. \A d \in Clients, s \in 1..MaxVaults : Claims(d, s)' => Claims(d, s)
  BY <1>1, <1>2, <1>5 DEF SaveConfig, Claims, Idle
<1>11. ClaimsAreApart'
  BY <1>10 DEF ClaimsAreApart
<1> QED BY <1>3, <1>7, <1>8, <1>9, <1>11

LEMMA CreateStep ==
  ASSUME WalletInv, NEW c \in Clients, Create(c)
  PROVE  WalletInv'
<1> USE Typed, CallRecords DEF WalletInv
<1>1. CASE Reserved(call[c].role)
  BY <1>1, QuietStep DEF Create, Answer, Refused, client, memory
<1>2. CASE ~Reserved(call[c].role)
  <2>1. call[c].role \in Role
    BY CallFields DEF Create
  <2>2. issued' \in 1..MaxSessions /\ call'[c] = Challenged(call[c].role, issued')
    BY <1>2, WalletAssumption DEF Create, Answer
  <2>3. call' \in [Clients -> Call] /\ \A d \in Clients \ {c} : call'[d] = call[d]
    BY <1>2, <2>1, <2>2 DEF Create, Answer
  <2>4. sessions' = sessions \cup {[id |-> issued', role |-> call[c].role, used |-> FALSE]}
    BY <1>2 DEF Create
  <2>5. UNCHANGED <<credentials, vault, deployed, proven, client, restarts>>
    BY DEF Create
  <2>6. sessions' \subseteq Session /\ \A s, t \in sessions' : s.role = t.role => s = t
    <3> DEFINE new == [id |-> issued', role |-> call[c].role, used |-> FALSE]
    <3>1. new \in Session /\ new.role = call[c].role
      BY <2>1, <2>2 DEF Session
    <3>2. \A s \in sessions : s.role # new.role
      BY <1>2, <3>1 DEF Reserved
    <3> HIDE DEF new
    <3>3. sessions' = sessions \cup {new}
      BY <2>4 DEF new
    <3> QED BY <3>1, <3>2, <3>3
  <2>7. WalletTypeOK' /\ StoredAreProven' /\ OnlyProvenKeysOwnVaults' /\ VaultFits' /\ ConfigFits'
    BY <2>2, <2>3, <2>5, <2>6
       DEF WalletTypeOK, StoredAreProven, OnlyProvenKeysOwnVaults, VaultFits, ConfigFits,
           HeldKeys, client
  <2>8. CallsFit'
    BY <2>2, <2>3, <2>4, <2>5 DEF CallsFit, CallFits, HeldKeys, Challenged
  <2>9. ClaimsAreApart'
    BY <2>2, <2>3, <2>5 DEF ClaimsAreApart, Claims, Challenged, client
  <2> QED BY <2>5, <2>7, <2>8, <2>9
<1> QED BY <1>1, <1>2

(* A call that is being verified or was refused rests on its session alone. *)
LEMMA FitsWhileVerifying ==
  ASSUME NEW c,
         call'[c].op \in {"refused", "verifying"},
         call'[c].op = "verifying" =>
           \E s \in sessions' : s.id = call'[c].id /\ s.role = call'[c].role
  PROVE  CallFits(c)'
BY DEF CallFits

LEMMA ConsumeStep ==
  ASSUME WalletInv, NEW c \in Clients, Consume(c)
  PROVE  WalletInv'
<1> USE Typed, CallRecords DEF WalletInv
<1> DEFINE r == call[c].role
           n == call[c].id
           open == Consumable(r, n)
<1>1. r \in Role /\ n \in 1..MaxSessions
  BY CallFields DEF Consume
<1>2. sessions' = (sessions \ open) \cup {[s EXCEPT !.used = TRUE] : s \in open}
  BY DEF Consume
<1>3. \/ call'[c] = Refused
      \/ open # {} /\ call'[c] = Verifying(r, n)
  BY DEF Consume, Answer
<1>4. \A d \in Clients \ {c} : call'[d] = call[d]
  BY DEF Consume, Answer
<1>5. UNCHANGED <<credentials, vault, issued, deployed, proven, client, restarts>>
  BY DEF Consume
<1>6. call' \in [Clients -> Call]
  <2>1. Verifying(r, n) \in Call
    BY <1>1
  <2> QED BY <2>1 DEF Consume, Answer
<1>7. \A s \in open : s \in sessions /\ s \in Session /\ s.id = n /\ s.role = r
  BY DEF Consumable
<1>8. CASE open = {}
  <2>1. UNCHANGED memory /\ UNCHANGED client /\ call'[c] = Refused
    BY <1>2, <1>3, <1>5, <1>8 DEF memory
  <2> QED BY <1>4, <1>5, <1>6, <2>1, QuietStep DEF Refused, client
<1>9. ASSUME NEW x \in open PROVE WalletInv'
  <2> DEFINE y == [x EXCEPT !.used = TRUE]
  <2>1. open = {x}
    BY <1>7, <1>9
  <2>2. x \in sessions /\ x.id = n /\ x.role = r
    BY <1>7, <1>9
  <2>3. y \in Session /\ y.id = n /\ y.role = r
    BY <1>7, <1>9 DEF Session
  <2>4. sessions' = (sessions \ {x}) \cup {y}
    BY <1>2, <2>1
  <2> HIDE DEF y, open
  <2>5. sessions' \subseteq Session /\ \A s, t \in sessions' : s.role = t.role => s = t
    BY <2>2, <2>3, <2>4
  <2>6. \A s \in sessions : \E t \in sessions' : s.id = t.id /\ s.role = t.role
    BY <2>2, <2>3, <2>4
  <2>7. WalletTypeOK' /\ StoredAreProven' /\ OnlyProvenKeysOwnVaults' /\ VaultFits' /\ ConfigFits'
    BY <1>5, <1>6, <2>5
       DEF WalletTypeOK, StoredAreProven, OnlyProvenKeysOwnVaults, VaultFits, ConfigFits,
           HeldKeys, client
  <2>8. CallsFit'
    <3>1. ASSUME NEW d \in Clients, d # c PROVE CallFits(d)'
      BY <1>4, <1>5, <2>6, <3>1 DEF CallsFit, CallFits, HeldKeys
    <3>2. \E s \in sessions' : s.id = n /\ s.role = r
      BY <2>2, <2>6
    <3>3. call'[c].op = "verifying" => call'[c].id = n /\ call'[c].role = r
      BY <1>3 DEF Refused, Verifying
    <3>4. call'[c].op \in {"refused", "verifying"}
      BY <1>3 DEF Refused, Verifying
    <3>5. CallFits(c)'
      BY <3>2, <3>3, <3>4, FitsWhileVerifying
    <3> QED BY <3>1, <3>5 DEF CallsFit
  <2>9. ClaimsAreApart'
    BY <1>3, <1>4, <1>5 DEF ClaimsAreApart, Claims, Refused, Verifying, client
  <2> QED BY <1>5, <2>7, <2>8, <2>9
<1> QED BY <1>8, <1>9

(* A verified ceremony proves what is stored, and nothing stored is changed *)
(* while a deployment rests on it.                                          *)
LEMMA VerifiedStep ==
  ASSUME WalletInv, NEW c \in Clients, Verified(c)
  PROVE  WalletInv'
<1> USE Typed, CallRecords DEF WalletInv
<1> DEFINE r == call[c].role
           n == call[c].id
<1>1. r \in Role /\ n \in 1..MaxSessions
  BY CallFields DEF Verified
<1>2. /\ call' \in [Clients -> Call]
      /\ \A d \in Clients \ {c} : call'[d] = call[d]
      /\ call'[c] \in {Registered(r, n), Refused}
  <2>1. Registered(r, n) \in Call
    BY <1>1
  <2> QED BY <2>1 DEF Verified, StoreCredential, Answer
<1>3. UNCHANGED <<sessions, vault, issued, deployed, client, restarts>>
  BY DEF Verified
<1>4. PICK s \in sessions : s.id = n /\ s.role = r
  BY DEF Verified, CallsFit, CallFits
<1>5. /\ proven' = proven \cup {<<t.role, t.id>> : t \in {u \in sessions : u.id = n}}
      /\ proven' \subseteq Role \X (1..MaxSessions)
  <2>1. \A t \in sessions : t.role \in Role /\ t.id \in 1..MaxSessions
    BY DEF Session
  <2> QED BY <2>1 DEF Verified, WalletTypeOK
<1>6. <<r, n>> \in proven' /\ proven \subseteq proven'
  BY <1>4, <1>5
<1>7. /\ OnlyProvenKeysOwnVaults' /\ ConfigFits' /\ ClaimsAreApart'
      /\ Len(deployed') <= MaxVaults
  <2>1. OnlyProvenKeysOwnVaults'
    BY <1>3, <1>6 DEF OnlyProvenKeysOwnVaults
  <2>2. ConfigFits' /\ Len(deployed') <= MaxVaults
    BY <1>3 DEF ConfigFits, client
  <2>3. call'[c].op \in {"registered", "refused"}
    BY <1>2 DEF Registered, Refused
  <2>4. ClaimsAreApart'
    BY <1>2, <1>3, <2>3 DEF ClaimsAreApart, Claims, client
  <2> QED BY <2>1, <2>2, <2>4
<1>8. CASE credentials[r] \in {Nobody, n}
  <2>1. credentials' = [credentials EXCEPT ![r] = n]
    BY <1>8 DEF Verified, StoreCredential
  <2>2. credentials' \in Signers
    BY <1>1, <2>1 DEF Signers
  <2>3. \A q \in Role : credentials'[q] = credentials[q] \/ (q = r /\ credentials'[q] = n)
    BY <2>1 DEF Signers
  <2>4. StoredAreProven'
    BY <1>6, <2>3 DEF StoredAreProven
  <2>5. (\A q \in Role : credentials[q] # Nobody) => credentials' = credentials
    BY <1>1, <1>8, <2>1 DEF Signers
  <2>6. CallsFit'
    BY <1>2, <1>3, <2>5 DEF CallsFit, CallFits, HeldKeys, Registered, Refused
  <2>7. VaultFits'
    BY <1>3, <2>5 DEF VaultFits, HeldKeys
  <2>8. WalletTypeOK'
    BY <1>2, <1>3, <1>5, <2>2 DEF WalletTypeOK, client
  <2> QED BY <1>7, <2>4, <2>6, <2>7, <2>8
<1>9. CASE credentials[r] \notin {Nobody, n}
  <2>1. UNCHANGED credentials
    BY <1>9 DEF Verified, StoreCredential
  <2>2. StoredAreProven'
    BY <1>6, <2>1 DEF StoredAreProven
  <2>3. CallsFit' /\ VaultFits'
    BY <1>2, <1>3, <2>1 DEF CallsFit, CallFits, VaultFits, HeldKeys, Registered, Refused
  <2>4. WalletTypeOK'
    BY <1>2, <1>3, <1>5, <2>1 DEF WalletTypeOK, client
  <2> QED BY <1>7, <2>2, <2>3, <2>4
<1> QED BY <1>8, <1>9

LEMMA ProvisionVaultStep ==
  ASSUME WalletInv, NEW c \in Clients, ProvisionVault(c)
  PROVE  WalletInv'
<1> USE Typed, CallRecords DEF WalletInv
<1> DEFINE k == call[c].signers
<1>1. k \in Signers /\ \A r \in Role : k[r] # Nobody
  BY CallFields DEF ProvisionVault, CallsFit, CallFits
<1>2. \A d \in Clients \ {c} : call'[d] = call[d]
  BY DEF ProvisionVault, Answer
<1>3. UNCHANGED <<memory, issued, deployed, proven, client, restarts>>
  BY DEF ProvisionVault
<1>4. CASE k = credentials /\ credentials["primary"] # credentials["secondary"]
  <2>1. call' \in [Clients -> Call] /\ call'[c] = Deploying(k)
    BY <1>1, <1>4 DEF ProvisionVault, Answer
  <2>2. HeldKeys(k)
    BY <1>1, <1>4 DEF HeldKeys
  <2>3. CallsFit'
    BY <1>2, <1>3, <2>1, <2>2 DEF CallsFit, CallFits, HeldKeys, Deploying, memory
  <2>4. ClaimsAreApart'
    BY <1>2, <1>3, <2>1 DEF ClaimsAreApart, Claims, Deploying, client
  <2> QED BY <1>3, <2>1, <2>3, <2>4
          DEF WalletTypeOK, StoredAreProven, OnlyProvenKeysOwnVaults, VaultFits, ConfigFits,
              HeldKeys, memory, client
<1>5. CASE ~(k = credentials /\ credentials["primary"] # credentials["secondary"])
  BY <1>2, <1>3, <1>5, QuietStep DEF ProvisionVault, Answer, Refused, client
<1> QED BY <1>4, <1>5

(* A deployment is a new vault, claimed by the client it is made for.       *)
LEMMA DeployStep ==
  ASSUME WalletInv, NEW c \in Clients, Deploy(c)
  PROVE  WalletInv'
<1> USE Typed, CallRecords DEF WalletInv
<1> DEFINE k == call[c].signers
           s == Len(deployed) + 1
<1>1. k \in Signers /\ HeldKeys(k)
  BY CallFields DEF Deploy, CallsFit, CallFits
<1>2. deployed' = Append(deployed, k) /\ Len(deployed) < MaxVaults
  BY DEF Deploy
<1>3. /\ deployed' \in Seq(Signers) /\ Len(deployed') = s /\ s \in 1..MaxVaults
      /\ deployed'[s] = k /\ \A i \in DOMAIN deployed : i \in DOMAIN deployed' /\ deployed'[i] = deployed[i]
      /\ \A i \in DOMAIN deployed' : i \in DOMAIN deployed \/ i = s
      /\ s \in DOMAIN deployed' /\ s \notin DOMAIN deployed
  BY <1>1, <1>2, WalletAssumption
<1>4. call' \in [Clients -> Call] /\ call'[c] = Mined(s, k)
  BY <1>1, <1>3 DEF Deploy, Answer
<1>5. \A d \in Clients \ {c} : call'[d] = call[d]
  BY DEF Deploy, Answer
<1>6. UNCHANGED <<memory, issued, proven, client, restarts>>
  BY DEF Deploy
<1>7. OnlyProvenKeysOwnVaults'
  BY <1>1, <1>3, <1>6 DEF OnlyProvenKeysOwnVaults, StoredAreProven, HeldKeys
<1> HIDE DEF s
<1>8. CallsFit'
  BY <1>1, <1>3, <1>4, <1>5, <1>6 DEF CallsFit, CallFits, HeldKeys, Mined, memory
<1>9. VaultFits' /\ ConfigFits'
  BY <1>3, <1>6 DEF VaultFits, ConfigFits, HeldKeys, memory, client
<1>10. \A d \in Clients : ~Claims(d, s)
  BY <1>3 DEF Claims, ConfigFits, CallsFit, CallFits
<1>11. \A d \in Clients, t \in 1..MaxVaults : t # s /\ Claims(d, t)' => Claims(d, t)
  BY <1>4, <1>5, <1>6 DEF Claims, Mined, client
<1>12. \A d \in Clients, t \in 1..MaxVaults : t = s /\ Claims(d, t)' => d = c
  BY <1>5, <1>6, <1>10 DEF Claims, client
<1>13. ClaimsAreApart'
  BY <1>11, <1>12 DEF ClaimsAreApart
<1>14. WalletTypeOK' /\ StoredAreProven' /\ Len(deployed') <= MaxVaults
  BY <1>3, <1>4, <1>6 DEF WalletTypeOK, StoredAreProven, memory, client
<1> QED BY <1>7, <1>8, <1>9, <1>13, <1>14

LEMMA HoldVaultStep ==
  ASSUME WalletInv, NEW c \in Clients, HoldVault(c)
  PROVE  WalletInv'
<1> USE Typed, CallRecords DEF WalletInv
<1> DEFINE k == call[c].signers
           s == call[c].safe
<1>1. k \in Signers /\ s \in 1..MaxVaults
  BY CallFields DEF HoldVault
<1>2. HeldKeys(k) /\ s \in DOMAIN deployed /\ deployed[s] = k
  BY DEF HoldVault, CallsFit, CallFits
<1>3. call' \in [Clients -> Call] /\ call'[c] = Provisioned(s, k)
  BY <1>1 DEF HoldVault, Answer
<1>4. \A d \in Clients \ {c} : call'[d] = call[d]
  BY DEF HoldVault, Answer
<1>5. vault' = [safe |-> s, signers |-> k] /\ vault' \in Vault
  BY <1>1, WalletAssumption DEF HoldVault, Vault
<1>6. UNCHANGED <<sessions, credentials, issued, deployed, proven, client, restarts>>
  BY DEF HoldVault
<1>7. VaultFits'
  BY <1>2, <1>5, <1>6 DEF VaultFits, HeldKeys
<1>8. CallsFit'
  BY <1>2, <1>3, <1>4, <1>6 DEF CallsFit, CallFits, HeldKeys, Provisioned
<1>9. \A d \in Clients, t \in 1..MaxVaults : Claims(d, t)' => Claims(d, t)
  BY <1>3, <1>4, <1>6 DEF HoldVault, Claims, Provisioned, client
<1>10. ClaimsAreApart'
  BY <1>9 DEF ClaimsAreApart
<1> QED BY <1>3, <1>5, <1>6, <1>7, <1>8, <1>10
        DEF WalletTypeOK, StoredAreProven, OnlyProvenKeysOwnVaults, ConfigFits, client

(* A restart leaves no call in flight that rests on what was forgotten.     *)
LEMMA RestartStep ==
  ASSUME WalletInv, Restart
  PROVE  WalletInv'
<1> USE Typed, CallRecords DEF WalletInv
<1>1. NoSigners \in Signers /\ NoVault \in Vault
  BY WalletAssumption DEF NoSigners, Signers, NoVault, Vault, Nobody
<1>2. \A c \in Clients : call'[c] = IF call[c].op \in InFlight THEN Refused ELSE call[c]
  BY DEF Restart
<1>3. call' \in [Clients -> Call]
  BY DEF Restart
<1>4. sessions' = {} /\ credentials' = NoSigners /\ vault' = NoVault
  BY DEF Restart
<1>5. UNCHANGED <<issued, deployed, proven, client>> /\ restarts' \in 0..MaxRestarts
  BY WalletAssumption DEF Restart, WalletTypeOK
<1>6. WalletTypeOK' /\ StoredAreProven' /\ OnlyProvenKeysOwnVaults' /\ VaultFits' /\ ConfigFits'
  BY <1>1, <1>3, <1>4, <1>5
     DEF WalletTypeOK, StoredAreProven, OnlyProvenKeysOwnVaults, VaultFits, ConfigFits,
         NoSigners, client
<1>7. CallsFit'
  BY <1>2, <1>5 DEF CallsFit, CallFits, InFlight, Refused
<1>8. ClaimsAreApart'
  BY <1>2, <1>5 DEF ClaimsAreApart, Claims, InFlight, Refused, client
<1> QED BY <1>5, <1>6, <1>7, <1>8

LEMMA WalletStep == WalletInv /\ [Next]_vars => WalletInv'
<1> SUFFICES ASSUME WalletInv, [Next]_vars PROVE WalletInv'
  OBVIOUS
<1>1. ASSUME NEW c \in Clients, ClientStep(c) PROVE WalletInv'
  BY <1>1, ClientQuiet, AskProvisionStep, SaveConfigStep DEF ClientStep
<1>2. ASSUME NEW c \in Clients, BackendStep(c) PROVE WalletInv'
  BY <1>2, BackendQuiet, CreateStep, ConsumeStep, VerifiedStep, ProvisionVaultStep, DeployStep,
     HoldVaultStep DEF BackendStep
<1>3. CASE UNCHANGED vars
  BY <1>3 DEF vars, WalletInv, WalletTypeOK, StoredAreProven, OnlyProvenKeysOwnVaults, CallsFit,
              CallFits, VaultFits, HeldKeys, ConfigFits, ClaimsAreApart, Claims
<1> QED BY <1>1, <1>2, <1>3, RestartStep DEF Next

THEOREM WalletInvariant == Spec => []WalletInv
BY WalletInit, WalletStep, PTL DEF Spec

(* Types, and one session to a role, for any clients, sessions, deployments *)
(* and restarts.                                                            *)
THEOREM WalletIsTyped == Spec => []WalletTypeOK
BY WalletInvariant, PTL DEF WalletInv

(* No vault is ever deployed for a credential that no ceremony proved for    *)
(* its role (session.ts, webauthn.ts, handlers.ts).                         *)
THEOREM VaultsHaveProvenKeys == Spec => []OnlyProvenKeysOwnVaults
BY WalletInvariant, PTL DEF WalletInv

(* The credentials compared before the deployment are still the ones held    *)
(* when the vault is stored after it (provisionVault).                      *)
THEOREM HeldVaultKeepsItsKeys == Spec => []HeldVaultHasHeldKeys
<1>1. WalletInv => HeldVaultHasHeldKeys
  BY DEF WalletInv, VaultFits, HeldKeys, HeldVaultHasHeldKeys
<1> QED BY <1>1, WalletInvariant, PTL

(* Every client ends with a vault of its own credentials, and its alone.    *)
THEOREM VaultsAreTheirOwners == Spec => []EveryVaultIsItsOwners
<1>1. WalletInv => EveryVaultIsItsOwners
  <2> SUFFICES ASSUME WalletInv, NEW c \in Clients, config[c] # NoVault
               PROVE  /\ deployed[config[c].safe] = config[c].signers
                      /\ \A d \in Clients \ {c} : config[d].safe # config[c].safe
    BY DEF EveryVaultIsItsOwners
  <2>1. /\ config[c].safe \in DOMAIN deployed
        /\ deployed[config[c].safe] = config[c].signers
    BY DEF WalletInv, ConfigFits
  <2>2. config[c].safe \in 1..MaxVaults
    BY <2>1, Typed, WalletAssumption DEF WalletInv
  <2>3. ASSUME NEW d \in Clients \ {c}, config[d].safe = config[c].safe PROVE FALSE
    <3>1. config[d] # NoVault
      BY <2>2, <2>3 DEF NoVault
    <3> QED BY <2>2, <2>3, <3>1 DEF WalletInv, ClaimsAreApart, Claims
  <2> QED BY <2>1, <2>3
<1> QED BY <1>1, WalletInvariant, PTL

=============================================================================
