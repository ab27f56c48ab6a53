----------------------------- MODULE WalletKeys -----------------------------
(***************************************************************************)
(* The wallets and the keys that sign for them: creation and envelope      *)
(* encryption (services/crypto_wallet.py), rotation of the master key, the *)
(* treasury wallet, the reissue of a stranded wallet (routers/admin.py)    *)
(* and the migration of old wallets (migrate_legacy_wallets.py).           *)
(*                                                                         *)
(* A private key is encrypted under a data key of its own, and that one    *)
(* under the master key of the environment (scheme "v2"); older rows have  *)
(* the private key under the master key itself ("direct"), or no key at    *)
(* all.  Ciphers are abstract: a row names the master key it depends on.   *)
(*                                                                         *)
(* A call loads its rows and commits later: the reissue and the migration  *)
(* await the chain in between, a handler's user is loaded in a thread      *)
(* before the handler runs, and a deployment may have several replicas.    *)
(***************************************************************************)
EXTENDS Integers, FiniteSets

CONSTANTS
  Users,      \* accounts
  Legacy,     \* old addresses: Legacy[u] is the one user u has, or None
  OldScheme,  \* what an old address's row holds, "missing" without a row
  Fresh,      \* addresses that may be derived
  Calls,      \* requests and scripts that may be in progress
  MaxKek,     \* bound on the master keys used in turn
  None

Old       == {Legacy[u] : u \in Users} \ {None}
Addresses == Old \cup Fresh
Keks      == 1 .. MaxKek
RowType   == [owner : Users \cup {None}, active : BOOLEAN, treasury : BOOLEAN,
              scheme : {"v2", "direct", "none"}, kek : Keks]

ASSUME AddressAssumption == Fresh \cap Old = {} /\ None \notin Fresh \cup Users \cup Keks
ASSUME LegacyAssumption  ==
  /\ Legacy \in [Users -> Old \cup {None}]
  /\ \A u, v \in Users : Legacy[u] = Legacy[v] => u = v \/ Legacy[u] = None
  /\ OldScheme \in [Old -> {"missing", "direct", "none"}]
ASSUME KekAssumption     == MaxKek \in Nat \ {0} /\ \A r \in RowType : None # r

VARIABLES
  env,   \* FAWN_ENCRYPTION_KEY, FAWN_ENCRYPTION_KEY_PREVIOUS, and whether
         \* the rotation to the first has reported no failures
  row,   \* the CryptoWallet row of an address, None without one
  link,  \* User.crypto_wallet_address
  call,  \* what a call in progress has loaded
  told   \* the addresses returned as FAWN's treasury

vars == <<env, row, link, call, told>>

Idle == [op |-> "idle"]

(* A key encrypted with the master key itself, or a row without one *)
OldRow(u) == [owner |-> u, active |-> TRUE, treasury |-> FALSE,
              scheme |-> OldScheme[Legacy[u]], kek |-> 1]

Init ==
  /\ env = [active |-> 1, previous |-> None, clean |-> TRUE]
  /\ row = [a \in Addresses |->
              IF \E u \in Users : Legacy[u] = a /\ OldScheme[a] # "missing"
                THEN OldRow(CHOOSE u \in Users : Legacy[u] = a) ELSE None]
  /\ link = Legacy
  /\ call = [c \in Calls |-> Idle]
  /\ told = {}

Rows      == {a \in Addresses : row[a] # None}
OwnRows(u) == {a \in Rows : row[a].owner = u}

(* _unwrap_dek tries both keys; the older scheme knows only the active one. *)
Signs(r) == CASE r.scheme = "v2"     -> r.kek \in {env.active, env.previous}
              [] r.scheme = "direct" -> r.kek = env.active
              [] r.scheme = "none"   -> FALSE

(* _encrypt_private_key_envelope, and the row the callers make of it *)
NewRow(u) == [owner |-> u, active |-> TRUE, treasury |-> (u = None), scheme |-> "v2", kek |-> env.active]

Begin(c, r) == call[c] = Idle /\ call' = [call EXCEPT ![c] = r] /\ UNCHANGED <<env, row, link, told>>
End(c)      == call' = [call EXCEPT ![c] = Idle]
Fail(c)     == End(c) /\ UNCHANGED <<env, row, link, told>>

----------------------------------------------------------------------------
(* create_wallet, from any of its callers *)

LoadCreate(c, u) == link[u] = None /\ Begin(c, [op |-> "create", user |-> u])

(* user_id is unique: an insert for a user who has a row fails. *)
Insert(u) == OwnRows(u) = {}

CommitCreate(c, a) ==
  /\ call[c].op = "create" /\ row[a] = None
  /\ LET u == call[c].user IN
       IF Insert(u)
         THEN /\ row' = [row EXCEPT ![a] = NewRow(u)] /\ link' = [link EXCEPT ![u] = a]
              /\ End(c) /\ UNCHANGED <<env, told>>
         ELSE Fail(c)

----------------------------------------------------------------------------
(* get_or_create_treasury_wallet *)

Treasury == {a \in Rows : row[a].treasury}

FindTreasury(a) ==
  /\ a \in Treasury
  /\ told' = told \cup {a}
  /\ UNCHANGED <<env, row, link, call>>

LoadTreasury(c) == Treasury = {} /\ Begin(c, [op |-> "treasury"])

(* Mutant: there is no partial unique index, so no conflict. *)
CommitTreasuryAnyway(c, a) ==
  /\ call[c].op = "treasury" /\ row[a] = None
  /\ row' = [row EXCEPT ![a] = NewRow(None)] /\ told' = told \cup {a}
  /\ End(c)
  /\ UNCHANGED <<env, link>>

(* The insert that loses to the partial unique index takes the winner. *)
CommitTreasury(c, a) ==
  /\ call[c].op = "treasury" /\ row[a] = None
  /\ IF Treasury = {}
       THEN row' = [row EXCEPT ![a] = NewRow(None)] /\ told' = told \cup {a}
       ELSE row' = row /\ told' = told \cup Treasury
  /\ End(c)
  /\ UNCHANGED <<env, link>>

----------------------------------------------------------------------------
(* reissue_stranded_wallet: the row is loaded, and its key tried, before   *)
(* the chain is asked whether the address is empty; the answer that it is  *)
(* not, or no answer, ends the call.                                       *)

(* Mutant: the key is not tried. *)
StrandedAny(u) == OwnRows(u)

Stranded(u) == {a \in OwnRows(u) : ~ Signs(row[a])}

LoadReissue(c, u) ==
  /\ OwnRows(u) = Stranded(u)
  /\ Begin(c, [op |-> "reissue", user |-> u, seen |-> OwnRows(u)])

(* The loaded row is deleted, whatever it is by now; the insert fails, and *)
(* the deletion with it, if the user has got another row.                  *)
CommitReissue(c, a) ==
  /\ call[c].op = "reissue" /\ row[a] = None
  /\ LET u == call[c].user
         s == call[c].seen
     IN IF OwnRows(u) \subseteq s
          THEN /\ row' = [b \in Addresses |-> IF b = a THEN NewRow(u)
                                              ELSE IF b \in s THEN None ELSE row[b]]
               /\ link' = [link EXCEPT ![u] = a]
               /\ End(c) /\ UNCHANGED <<env, told>>
          ELSE Fail(c)

----------------------------------------------------------------------------
(* migrate_legacy_wallets: users without an active custodial row with a    *)
(* key at their address.  The script looks for them twice in one session:  *)
(* before it asks the chain, and again before it replaces what it finds    *)
(* then.  The second query does not refresh what the first has loaded,     *)
(* the user's address and the rows' status, but sees rows made since.      *)

Candidates(u, at) == {a \in Rows : ~ row[a].treasury /\ (row[a].owner = u \/ a = at)}

(* live: the active ones of the candidates, as the session knows them      *)
Custodial(at, live) == at \in live /\ row[at].scheme # "none"

(* The row taken for the old one, an active one if possible, or None       *)
Taken(found, live) == IF found = {} THEN {None} ELSE IF live = {} THEN found ELSE live

(* Balances that disagree, another owner, or anything on the chain block a *)
(* user.                                                                   *)
LoadMigrate(c, u) ==
  LET found == Candidates(u, link[u])
      live  == {a \in found : row[a].active}
  IN  /\ link[u] # None /\ ~ Custodial(link[u], live)
      /\ \E old \in Taken(found, live) : old # None => row[old].owner \in {u, None}
      /\ Begin(c, [op |-> "reconcile", user |-> u, at |-> link[u], seen |-> found, live |-> live])

ReloadMigrate(c) ==
  /\ call[c].op = "reconcile"
  /\ LET k     == call[c]
         found == Candidates(k.user, k.at)
         live  == {a \in found : IF a \in k.seen THEN a \in k.live ELSE row[a].active}
     IN IF Custodial(k.at, live) THEN End(c)
        ELSE \E old \in Taken(found, live) :
               call' = [call EXCEPT ![c] = [op |-> "migrate", user |-> k.user, old |-> old]]
  /\ UNCHANGED <<env, row, link, told>>

(* The old row stays, without owner; if it is gone, or the user has got    *)
(* another row, the script stops.                                          *)
CommitMigrate(c, a) ==
  /\ call[c].op = "migrate" /\ row[a] = None
  /\ LET u == call[c].user
         old == call[c].old
     IN IF OwnRows(u) \subseteq {old} /\ (old # None => old \in Rows)
          THEN /\ row' = [b \in Addresses |->
                            IF b = a THEN NewRow(u)
                            ELSE IF b = old THEN [row[b] EXCEPT !.owner = None, !.active = FALSE]
                            ELSE row[b]]
               /\ link' = [link EXCEPT ![u] = a]
               /\ End(c) /\ UNCHANGED <<env, told>>
          ELSE Fail(c)

----------------------------------------------------------------------------
(* Rotation of the master key, as rotate_wallet_keys documents it.  A new  *)
(* environment is a new deployment: calls in progress are lost.            *)

Deploy(e) == env' = e /\ call' = [c \in Calls |-> Idle] /\ UNCHANGED <<row, link, told>>

NewKek ==
  /\ env.previous = None /\ env.active < MaxKek
  /\ Deploy([active |-> env.active + 1, previous |-> env.active, clean |-> FALSE])

V2Rows == {a \in Rows : row[a].scheme = "v2"}

LoadRotate(c) == Begin(c, [op |-> "rotate", seen |-> V2Rows])

(* Mutant: the data keys are wrapped as they were. *)
RewrapSame(r) == r

Rewrap(r) == [r EXCEPT !.kek = env.active]

(* A loaded row that is gone fails the whole transaction. *)
CommitRotate(c) ==
  /\ call[c].op = "rotate"
  /\ IF call[c].seen \subseteq Rows
       THEN /\ row' = [a \in Addresses |-> IF a \in call[c].seen /\ Signs(row[a])
                                             THEN Rewrap(row[a]) ELSE row[a]]
            /\ env' = [env EXCEPT !.clean = \A a \in call[c].seen : Signs(row[a])]
            /\ End(c) /\ UNCHANGED <<link, told>>
       ELSE Fail(c)

RetireKek ==
  /\ env.previous # None /\ env.clean
  /\ Deploy([env EXCEPT !.previous = None])

----------------------------------------------------------------------------
Next ==
  \/ NewKek \/ RetireKek
  \/ \E a \in Addresses : FindTreasury(a)
  \/ \E c \in Calls :
       \/ LoadTreasury(c) \/ LoadRotate(c) \/ CommitRotate(c) \/ ReloadMigrate(c)
       \/ \E u \in Users : LoadCreate(c, u) \/ LoadReissue(c, u) \/ LoadMigrate(c, u)
       \/ \E a \in Fresh : CommitCreate(c, a) \/ CommitTreasury(c, a)
                           \/ CommitReissue(c, a) \/ CommitMigrate(c, a)

Spec == Init /\ [][Next]_vars

----------------------------------------------------------------------------
(* Properties that hold *)

(* Every variable holds what its table may hold. *)
TypeOK ==
  /\ env \in [active : Keks, previous : Keks \cup {None}, clean : BOOLEAN]
  /\ row \in [Addresses -> RowType \cup {None}]
  /\ link \in [Users -> Addresses \cup {None}]
  /\ told \subseteq Addresses

(* "Every v2 wallet's DEK gets unwrapped with the previous key and         *)
(* re-wrapped with the new one": a wallet made by this code can sign at    *)
(* every moment, with wallets created, replaced and deleted while the      *)
(* rotation has its rows loaded, and after the previous key is cleared.    *)
EnvelopesOpen == \A a \in V2Rows : Signs(row[a])

(* Once a user's address is one this code derived, it is the address of    *)
(* the user's only row, an active one, however the calls that create,      *)
(* reissue and migrate overlap.                                            *)
AddressIsOwn ==
  /\ \A u \in Users : Cardinality(OwnRows(u)) <= 1
  /\ \A u \in Users : link[u] \in Fresh => OwnRows(u) = {link[u]} /\ row[link[u]].active

(* There is one treasury wallet, and every caller has been given it. *)
OneTreasury == Cardinality(Treasury) <= 1 /\ told \subseteq Treasury

(* A user, and the platform, has one wallet, whoever looks for it or makes *)
(* it at once.                                                             *)
OneWalletEach == AddressIsOwn /\ OneTreasury

(* No step deletes a wallet that can sign: a reissue decides on a row it   *)
(* loaded before it asked the chain.                                       *)
SignableWalletsStay ==
  [][\A a \in Rows : Signs(row[a]) => row'[a] # None]_vars

----------------------------------------------------------------------------
(* Properties the code breaks *)

(* "Still decryptable exactly as before; there's no forced migration": a   *)
(* wallet whose key is under the master key itself can sign.               *)
DirectKeysOpen == \A a \in Rows : row[a].scheme = "direct" => Signs(row[a])

(* "Moves only a reconciled internal balance": the script takes no wallet  *)
(* away from its user that can sign, and it has not asked the chain about  *)
(* one that was made while it asked about another.                         *)
SignableWalletsKeepOwner ==
  [][\A a \in Rows : Signs(row[a]) /\ row'[a] # None => row'[a].owner = row[a].owner]_vars
=============================================================================
