---------------------------- MODULE WalletBackend ----------------------------
(***************************************************************************)
(* Setting up a wallet against the local backend: the registration          *)
(* sessions of apps/backend/src/session.ts, the verification of a ceremony  *)
(* (webauthn.ts), the credentials and the vault that handlers.ts keeps in    *)
(* memory, the deployment they await, and the clients that call them over    *)
(* HTTP - the web application (vault-store.tsx) and scripts that use the      *)
(* documented interface.                                                    *)
(*                                                                         *)
(* A session is its number, and the credential made for its challenge has   *)
(* the same number: authenticators make a fresh key per ceremony.  A vault  *)
(* is the number of its deployment.  A client has one call in flight; its    *)
(* record says how far the backend has got with it.  What happens to a      *)
(* prepared request is the subject of SubmissionService.                    *)
(***************************************************************************)
EXTENDS Integers, Sequences

CONSTANTS
  Wallets,      (* browser tabs running the web application's provision()    *)
  Scripts,      (* connections of one client of the documented interface     *)
  MaxSessions,  (* bound on challenges issued                                *)
  MaxVaults,    (* bound on deployments                                      *)
  MaxRestarts   (* bound on restarts of the backend                          *)

ASSUME WalletAssumption ==
  /\ Wallets \cap Scripts = {}
  /\ MaxSessions \in Nat /\ MaxVaults \in Nat /\ MaxRestarts \in Nat

VARIABLES
  sessions,     (* sessions of this run of the backend                       *)
  issued,       (* challenges issued so far, by every run                    *)
  credentials,  (* stored credential of each role                            *)
  vault,        (* the vault record the backend holds                        *)
  deployed,     (* on chain: the signers of every vault deployed             *)
  proven,       (* history: role and credential of each verified ceremony    *)
  call,         (* the call each client has in flight, or its answer         *)
  obtained,     (* sessions whose challenge a client was given               *)
  kept,         (* credentials a client holds for its vault                  *)
  config,       (* vault and credentials a client has saved                  *)
  restarts

memory == <<sessions, credentials, vault>>
client == <<obtained, kept, config>>
vars == <<sessions, issued, credentials, vault, deployed, proven, call,
          obtained, kept, config, restarts>>

Role == {"primary", "secondary"}
Clients == Wallets \cup Scripts
Nobody == 0
Session == [id: 1..MaxSessions, role: Role, used: BOOLEAN]
Signers == [Role -> 0..MaxSessions]
NoSigners == [r \in Role |-> Nobody]
Vault == [safe: 0..MaxVaults, signers: Signers]
NoVault == [safe |-> 0, signers |-> NoSigners]

Idle == [op |-> "idle"]
Refused == [op |-> "refused"]
Asked(r) == [op |-> "options", role |-> r]
Challenged(r, n) == [op |-> "challenge", role |-> r, id |-> n]
Posted(r, n) == [op |-> "verify", role |-> r, id |-> n]
Verifying(r, n) == [op |-> "verifying", role |-> r, id |-> n]
Registered(r, n) == [op |-> "registered", role |-> r, id |-> n]
Requested(k) == [op |-> "provision", signers |-> k]
Deploying(k) == [op |-> "deploying", signers |-> k]
Mined(s, k) == [op |-> "mined", safe |-> s, signers |-> k]
Provisioned(s, k) == [op |-> "provisioned", safe |-> s, signers |-> k]
Sending == [op |-> "prepare"]
Preparing(s) == [op |-> "preparing", safe |-> s]
Prepared(s) == [op |-> "prepared", safe |-> s]

Call ==
  {Idle, Refused, Sending}
    \cup [op: {"options"}, role: Role]
    \cup [op: {"challenge", "verify", "verifying", "registered"},
          role: Role, id: 1..MaxSessions]
    \cup [op: {"provision", "deploying"}, signers: Signers]
    \cup [op: {"mined", "provisioned"}, safe: 1..MaxVaults, signers: Signers]
    \cup [op: {"preparing", "prepared"}, safe: 1..MaxVaults]

(* The application posts the browser's registration response, whose fields  *)
(* are id, rawId and response; the backend looks for credentialId.          *)
NamesCredential(c) == c \in Scripts

Init ==
  /\ sessions = {} /\ issued = 0
  /\ credentials = NoSigners /\ vault = NoVault
  /\ deployed = <<>> /\ proven = {}
  /\ call = [c \in Clients |-> Idle]
  /\ obtained = [c \in Clients |-> {}]
  /\ kept = [c \in Clients |-> NoSigners]
  /\ config = [c \in Clients |-> NoVault]
  /\ restarts = 0

Answer(c, a) == call' = [call EXCEPT ![c] = a]

(* ------------------------------ the clients ----------------------------- *)

Ask(c, request) ==
  /\ call[c] = Idle
  /\ Answer(c, request)
  /\ UNCHANGED <<memory, issued, deployed, proven, client, restarts>>

(* Primary first, then secondary.  A wallet whose vault is set up may set up *)
(* another one, and then registers anew.                                    *)
AskOptions(c) ==
  \E r \in Role :
    /\ kept[c][r] = Nobody
    /\ r = "secondary" => kept[c]["primary"] # Nobody
    /\ Ask(c, Asked(r))

(* The ceremony: the credential made is the session's.  A script may name    *)
(* the wrong role in the address it posts to.                               *)
Ceremony(c) ==
  /\ call[c].op = "challenge"
  /\ obtained' = [obtained EXCEPT ![c] = @ \cup {call[c].id}]
  /\ \E r \in IF c \in Scripts THEN Role ELSE {call[c].role} :
       Answer(c, Posted(r, call[c].id))
  /\ UNCHANGED <<memory, issued, deployed, proven, kept, config, restarts>>

(* A script may post any ceremony it made, again or under the other role.   *)
PostAgain(c) ==
  /\ c \in Scripts
  /\ \E n \in obtained[c], r \in Role : Ask(c, Posted(r, n))

(* Who knows a credential: the tab that made it, or every connection.       *)
Holders(c) == IF c \in Wallets THEN {c} ELSE Scripts

Discard(c) == kept' = [d \in Clients |-> IF d \in Holders(c) THEN NoSigners ELSE kept[d]]

(* provision() of the application is one promise: once any step of it is     *)
(* refused or the user cancels, the next attempt registers from the start.   *)
(* A script may do so, or go on with what it has.                           *)
Cancel(c) ==
  /\ call[c].op \in {"challenge", "refused"}
  /\ Answer(c, Idle)
  /\ \/ Discard(c)
     \/ c \in Scripts /\ UNCHANGED kept
  /\ UNCHANGED <<memory, issued, deployed, proven, obtained, config, restarts>>

Keep(c) ==
  /\ call[c].op = "registered"
  /\ kept' = [d \in Clients |->
       IF d \in Holders(c) THEN [kept[d] EXCEPT ![call[c].role] = call[c].id] ELSE kept[d]]
  /\ Answer(c, Idle)
  /\ UNCHANGED <<memory, issued, deployed, proven, obtained, config, restarts>>

(* Two connections may ask for a vault with the same credentials.           *)
AskProvision(c) ==
  /\ Nobody \notin {kept[c][r] : r \in Role}
  /\ kept[c]["primary"] # kept[c]["secondary"]
  /\ Ask(c, Requested(kept[c]))

SaveConfig(c) ==
  /\ call[c].op = "provisioned"
  /\ config' = [config EXCEPT ![c] = [safe |-> call[c].safe, signers |-> call[c].signers]]
  /\ Answer(c, Idle)
  /\ IF c \in Wallets THEN Discard(c) ELSE UNCHANGED kept
  /\ UNCHANGED <<memory, issued, deployed, proven, obtained, restarts>>

AskPrepare(c) == config[c] # NoVault /\ Ask(c, Sending)

Sign(c) ==
  /\ call[c].op = "prepared"
  /\ Answer(c, Idle)
  /\ UNCHANGED <<memory, issued, deployed, proven, client, restarts>>

(* ------------------------------ the backend ----------------------------- *)

CreateUnreserved(c) ==
  /\ call[c].op = "options"
  /\ issued < MaxSessions
  /\ issued' = issued + 1
  /\ sessions' = sessions \cup {[id |-> issued', role |-> call[c].role, used |-> FALSE]}
  /\ Answer(c, Challenged(call[c].role, issued'))
  /\ UNCHANGED <<credentials, vault, deployed, proven, client, restarts>>

Reserved(r) == \E s \in sessions : s.role = r

(* A role is taken from its first challenge on: nothing calls clear.        *)
Create(c) ==
  /\ call[c].op = "options"
  /\ IF Reserved(call[c].role)
       THEN /\ Answer(c, Refused)
            /\ UNCHANGED <<sessions, issued>>
       ELSE /\ issued < MaxSessions
            /\ issued' = issued + 1
            /\ sessions' = sessions \cup
                 {[id |-> issued', role |-> call[c].role, used |-> FALSE]}
            /\ Answer(c, Challenged(call[c].role, issued'))
  /\ UNCHANGED <<credentials, vault, deployed, proven, client, restarts>>

ConsumableByAnyRole(r, n) == {s \in sessions : s.id = n /\ ~s.used}
Consumable(r, n) == {s \in sessions : s.id = n /\ ~s.used /\ s.role = r}

(* The session is consumed before anything about the response is checked.   *)
Consume(c) ==
  /\ call[c].op = "verify"
  /\ LET open == Consumable(call[c].role, call[c].id) IN
       /\ sessions' = (sessions \ open) \cup {[s EXCEPT !.used = TRUE] : s \in open}
       /\ Answer(c, IF open # {} /\ NamesCredential(c)
                      THEN Verifying(call[c].role, call[c].id) ELSE Refused)
  /\ UNCHANGED <<credentials, vault, issued, deployed, proven, client, restarts>>

StoreCredential(c) ==
  LET r == call[c].role
      n == call[c].id
      free == credentials[r] \in {Nobody, n} IN
    /\ credentials' = IF free THEN [credentials EXCEPT ![r] = n] ELSE credentials
    /\ Answer(c, IF free THEN Registered(r, n) ELSE Refused)

(* The verifier answers; a ceremony it accepts answered the challenge of the *)
(* session, and so proves a credential for the session's role.              *)
Verified(c) ==
  /\ call[c].op = "verifying"
  /\ StoreCredential(c)
  /\ proven' = proven \cup {<<s.role, s.id>> : s \in {t \in sessions : t.id = call[c].id}}
  /\ UNCHANGED <<sessions, vault, issued, deployed, client, restarts>>

NotVerified(c) ==
  /\ call[c].op = "verifying"
  /\ Answer(c, Refused)
  /\ UNCHANGED <<memory, issued, deployed, proven, client, restarts>>

ProvisionVaultUnchecked(c) ==
  /\ call[c].op = "provision"
  /\ Answer(c, Deploying(call[c].signers))
  /\ UNCHANGED <<memory, issued, deployed, proven, client, restarts>>

(* The request must name the two verified credentials; then the deployment  *)
(* is awaited.                                                              *)
ProvisionVault(c) ==
  /\ call[c].op = "provision"
  /\ Answer(c, IF /\ call[c].signers = credentials
                  /\ credentials["primary"] # credentials["secondary"]
                 THEN Deploying(call[c].signers) ELSE Refused)
  /\ UNCHANGED <<memory, issued, deployed, proven, client, restarts>>

Deploy(c) ==
  /\ call[c].op = "deploying"
  /\ Len(deployed) < MaxVaults
  /\ deployed' = Append(deployed, call[c].signers)
  /\ Answer(c, Mined(Len(deployed'), call[c].signers))
  /\ UNCHANGED <<memory, issued, proven, client, restarts>>

DeployFails(c) ==
  /\ call[c].op \in {"deploying", "mined"}
  /\ Answer(c, Refused)
  /\ UNCHANGED <<memory, issued, deployed, proven, client, restarts>>

HoldVaultOnce(c) ==
  /\ call[c].op = "mined"
  /\ vault' = IF vault = NoVault
                THEN [safe |-> call[c].safe, signers |-> call[c].signers] ELSE vault
  /\ Answer(c, Provisioned(vault'.safe, call[c].signers))
  /\ UNCHANGED <<sessions, credentials, issued, deployed, proven, client, restarts>>

(* Of two deployments the last to return is the vault held; each client is   *)
(* told its own.                                                            *)
HoldVault(c) ==
  /\ call[c].op = "mined"
  /\ vault' = [safe |-> call[c].safe, signers |-> call[c].signers]
  /\ Answer(c, Provisioned(call[c].safe, call[c].signers))
  /\ UNCHANGED <<sessions, credentials, issued, deployed, proven, client, restarts>>

(* The vault is read when the adapter is called ...                         *)
PrepareTransfer(c) ==
  /\ call[c].op = "prepare"
  /\ Answer(c, IF vault = NoVault THEN Refused ELSE Preparing(vault.safe))
  /\ UNCHANGED <<memory, issued, deployed, proven, client, restarts>>

(* ... and again when it has answered.                                      *)
ReturnPrepared(c) ==
  /\ call[c].op = "preparing"
  /\ Answer(c, IF call[c].safe = vault.safe THEN Prepared(call[c].safe) ELSE Refused)
  /\ UNCHANGED <<memory, issued, deployed, proven, client, restarts>>

(* All of it is memory: a restart forgets sessions, credentials and vault,   *)
(* and every call in flight breaks off, whatever the chain has made of it.   *)
InFlight == {"options", "verify", "verifying", "provision", "deploying", "mined",
             "prepare", "preparing"}

Restart ==
  /\ restarts < MaxRestarts
  /\ restarts' = restarts + 1
  /\ sessions' = {} /\ credentials' = NoSigners /\ vault' = NoVault
  /\ call' = [c \in Clients |-> IF call[c].op \in InFlight THEN Refused ELSE call[c]]
  /\ UNCHANGED <<issued, deployed, proven, client>>

ClientStep(c) ==
  \/ AskOptions(c) \/ Ceremony(c) \/ PostAgain(c) \/ Cancel(c) \/ Keep(c)
  \/ AskProvision(c) \/ SaveConfig(c) \/ AskPrepare(c) \/ Sign(c)

BackendStep(c) ==
  \/ Create(c) \/ Consume(c) \/ Verified(c) \/ NotVerified(c)
  \/ ProvisionVault(c) \/ Deploy(c) \/ DeployFails(c) \/ HoldVault(c)
  \/ PrepareTransfer(c) \/ ReturnPrepared(c)

Next == Restart \/ \E c \in Clients : ClientStep(c) \/ BackendStep(c)

Spec == Init /\ [][Next]_vars

(* ------------------------------ properties ------------------------------ *)

(* Types; sessions of one run have distinct numbers, and no role has two.   *)
WalletTypeOK ==
  /\ sessions \subseteq Session
  /\ \A s, t \in sessions : s.role = t.role => s = t
  /\ issued \in 0..MaxSessions
  /\ credentials \in Signers
  /\ vault \in Vault
  /\ deployed \in Seq(Signers)
  /\ proven \subseteq Role \X (1..MaxSessions)
  /\ call \in [Clients -> Call]
  /\ obtained \in [Clients -> SUBSET (1..MaxSessions)]
  /\ kept \in [Clients -> Signers]
  /\ config \in [Clients -> Vault]
  /\ restarts \in 0..MaxRestarts

(* The two signers of every vault ever deployed are two credentials, each   *)
(* proved in a ceremony for the very role it has in the vault (session.ts   *)
(* consume, webauthn.ts, handlers.ts storeCredential and provisionVault      *)
(* together).                                                               *)
OnlyProvenKeysOwnVaults ==
  \A i \in DOMAIN deployed :
    /\ deployed[i]["primary"] # deployed[i]["secondary"]
    /\ \A r \in Role : <<r, deployed[i][r]>> \in proven

(* The vault the backend holds belongs to the credentials it holds, although *)
(* they were compared before the deployment was awaited and the vault was    *)
(* stored after it (handlers.ts provisionVault).                            *)
HeldVaultHasHeldKeys ==
  vault # NoVault =>
    /\ vault.signers = credentials
    /\ deployed[vault.safe] = vault.signers

(* What a client saved as its vault is a vault deployed for the credentials  *)
(* it saved with it and the vault of nobody else, although the deployments   *)
(* of several requests run side by side (handlers.ts provisionVault,         *)
(* vault-store.tsx provision).                                              *)
EveryVaultIsItsOwners ==
  \A c \in Clients : config[c] # NoVault =>
    /\ deployed[config[c].safe] = config[c].signers
    /\ \A d \in Clients \ {c} : config[d].safe # config[c].safe

=============================================================================
