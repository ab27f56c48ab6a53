------------------------------ MODULE Accounts ------------------------------
(***************************************************************************)
(* Accounts: registration and social sign-in, usernames and the payment    *)
(* handles that follow them, one-time links, passwords and referrals       *)
(* (routers/auth.py, accounts.py, member.py, referral.py,                  *)
(* services/username_service.py).                                          *)
(*                                                                         *)
(* Registration and renaming are coroutines without an await that matters: *)
(* one step of the event loop.  But the caller's User row is loaded before *)
(* that, in a thread, and is not loaded again; the other handlers run      *)
(* whole in threads.  A handler is cut where it has read and not written.  *)
(*                                                                         *)
(* Names are valid and lower case.  A password is named for the call that  *)
(* sets it.  Sessions, hashes and expired links are left out.              *)
(***************************************************************************)
EXTENDS Integers, FiniteSets

CONSTANTS
  Users,       \* e-mail addresses
  Names,
  Wild,        \* <<p, n>>: p matches n only because "_" is any character to ILIKE
  Legacy,      \* rows older than usernames and handles
  FirstName,   \* what they are called, or Null
  Links,       \* one-time links
  Codes,       \* referral codes
  Bonus,       \* referral_bonus_cents, rewards being enabled
  Requests, Null,
  Deleted,     \* the empty hash of a deleted account
  MaxEvents    \* bound on restarts and deletions of accounts

ASSUME UsersAssumption == Legacy \subseteq Users /\ FirstName \in [Legacy -> Names \cup {Null}]
ASSUME FirstNamesAssumption ==
  \A u, v \in Legacy : FirstName[u] = FirstName[v] /\ FirstName[u] # Null => u = v
ASSUME NullAssumption == Null \notin Users \cup Names \cup Links \cup Codes \cup Requests \cup {Deleted}
ASSUME WildAssumption == Wild \subseteq Names \X Names
ASSUME NatAssumption == Bonus \in Nat \ {0} /\ MaxEvents \in Nat
ASSUME RequestsAssumption == IsFiniteSet(Requests)

VARIABLES
  rows,      \* users with a User row
  name,      \* User.username
  handle,    \* Handle.handle
  wallets,   \* users with a wallet
  password,  \* the call that set it, or Deleted
  link,      \* a PasswordResetToken or MagicLinkToken
  code, referredBy, count, balance,  \* User.referral_code, ...
  pc, request, \* a call's next step, and its locals
  uses,      \* history: successful uses of each link
  claims,    \* history: codes each user has used
  bonuses,   \* history: referral_bonus_paid audit rows of each user
  overlaps,  \* history: calls that began while another one used the same link or claim
  events

names     == <<name, handle>>
profile   == <<rows, names, wallets>>
referrals == <<code, referredBy, count, balance, claims, bonuses>>
requests  == <<pc, request>>
accountsVars == <<profile, password, link, referrals, requests, uses, overlaps, events>>

NoLink == [status |-> "none", kind |-> "none", user |-> Null]
NoRequest == [kind |-> "none", user |-> Null, link |-> Null, name |-> Null, code |-> Null,
              knew |-> Null, inviter |-> Null, balance |-> 0, invBalance |-> 0, invCount |-> 0]

AccountsInit ==
  /\ rows = Legacy /\ wallets = Legacy
  /\ name = [u \in Users |-> IF u \in Legacy THEN FirstName[u] ELSE Null]
  /\ handle = [u \in Users |-> Null]
  /\ password = [u \in Users |-> Null]
  /\ link = [l \in Links |-> NoLink]
  /\ code = [u \in Users |-> Null] /\ referredBy = [u \in Users |-> Null]
  /\ count = [u \in Users |-> 0] /\ balance = [u \in Users |-> 0]
  /\ pc = [c \in Requests |-> "idle"] /\ request = [c \in Requests |-> NoRequest]
  /\ uses = [l \in Links |-> 0]
  /\ claims = [u \in Users |-> 0] /\ bonuses = [u \in Users |-> 0]
  /\ overlaps = [k \in Links \cup Users |-> 0]
  /\ events = 0

----------------------------------------------------------------------------
(* Names *)

(* User.username.ilike(p) *)
Like(p, n) == p = n \/ <<p, n>> \in Wild

(* Mutant: only the handles are looked at. *)
MatchesHandle(p) == {u \in rows : handle[u] = p}

Matches(p) == {u \in rows : Like(p, name[u])}

(* What generate_username may return: the first of its candidates, made    *)
(* from the full name and a counter, that no row matches                   *)
Generated(n) == Matches(n) = {}

(* _sync_handle finds the handle with somebody else. *)
Conflict(u, n) == \E v \in Users \ {u} : handle[v] = n

(* A row of its own, name and handle in one commit; a name that the user   *)
(* has chosen passes the same test.                                        *)
Enrol(u, n) ==
  /\ Generated(n) /\ ~ Conflict(u, n)
  /\ rows' = rows \cup {u}
  /\ name' = [name EXCEPT ![u] = n]
  /\ handle' = [handle EXCEPT ![u] = n]

(* register, and social_login of a new user; an e-mail address that is     *)
(* known is refused, or signs in.                                          *)
Register(u, n) ==
  /\ u \notin rows
  /\ Enrol(u, n)
  /\ wallets' = wallets \cup {u}
  /\ UNCHANGED <<password, link, referrals, requests, uses, overlaps, events>>

(* A generated name is committed at once: when the password turns out to   *)
(* contain it, or no wallet can be made, the refused user has a row.       *)
RegisterRefused(u, n) ==
  /\ u \notin rows
  /\ Enrol(u, n)
  /\ UNCHANGED <<wallets, password, link, referrals, requests, uses, overlaps, events>>

(* POST /wallets/create *)
CreateWallet(u) ==
  /\ u \in rows \ wallets
  /\ wallets' = wallets \cup {u}
  /\ UNCHANGED <<rows, name, handle, password, link, referrals, requests, uses, overlaps, events>>

(* update_username's assignment: no UPDATE when the loaded row has the name *)
Renamed(c, n) == IF request[c].name = n THEN name ELSE [name EXCEPT ![request[c].user] = n]

Finish(c) == /\ pc' = [pc EXCEPT ![c] = "done"]
             /\ request' = [request EXCEPT ![c] = NoRequest]

(* PUT /username *)
Rename(c, n) ==
  LET u == request[c].user IN
  /\ pc[c] = "loaded" /\ request[c].kind = "rename"
  /\ Matches(n) \subseteq {u} /\ ~ Conflict(u, n)
  /\ name' = Renamed(c, n)
  /\ handle' = [handle EXCEPT ![u] = n]
  /\ Finish(c)
  /\ UNCHANGED <<rows, wallets, password, link, referrals, uses, overlaps, events>>

(* ensure_all_user_profiles: one commit, its names generated against the   *)
(* table alone, so that two users may be given the same one: it fails.     *)
Backfilled(new) ==
  LET called == [u \in Users |-> IF u \in DOMAIN new THEN new[u] ELSE name[u]]
  IN  /\ \A u \in DOMAIN new : Generated(new[u])
      /\ \A u, v \in DOMAIN new : new[u] = new[v] => u = v
      /\ \A u \in rows : ~ Conflict(u, called[u])
      /\ name' = called
      /\ handle' = [u \in Users |-> IF u \in rows THEN called[u] ELSE handle[u]]

(* The process restarts, and the start-up hook runs before any request. *)
Restart ==
  /\ events < MaxEvents /\ events' = events + 1
  /\ pc' = [c \in Requests |-> IF pc[c] = "idle" THEN "idle" ELSE "done"]
  /\ request' = [c \in Requests |-> NoRequest]
  /\ \/ \E new \in [{u \in rows : name[u] = Null} -> Names] : Backfilled(new)
     \/ UNCHANGED names
  /\ UNCHANGED <<rows, wallets, password, link, referrals, uses, overlaps>>

----------------------------------------------------------------------------
(* Calls in threads *)

(* One-time things in use *)
Using(k) ==
  \E c \in Requests :
    k = CASE request[c].kind = "refer"               -> request[c].user
          [] request[c].kind \in {"reset", "verify"} -> request[c].link
          [] OTHER                                   -> Null

Overlapped(k) == overlaps' = [overlaps EXCEPT ![k] = @ + (IF Using(k) THEN 1 ELSE 0)]

(* get_current_user loads the row that the handler works with. *)
BeginRequest(c, kind, u) ==
  /\ pc[c] = "idle" /\ u \in rows
  /\ kind = "refer" => referredBy[u] = Null
  /\ kind = "code" => code[u] = Null
  /\ pc' = [pc EXCEPT ![c] = "loaded"]
  /\ request' = [request EXCEPT ![c] = [NoRequest EXCEPT !.kind = kind, !.user = u, !.name = name[u],
                                                         !.knew = password[u], !.balance = balance[u]]]
  /\ IF kind = "refer" THEN Overlapped(u) ELSE UNCHANGED overlaps
  /\ UNCHANGED <<profile, password, link, referrals, uses, events>>

Sent(l, kind, u) ==
  /\ link[l].status = "none" /\ u \in rows
  /\ link' = [link EXCEPT ![l] = [status |-> "sent", kind |-> kind, user |-> u]]
  /\ UNCHANGED <<profile, password, referrals, requests, uses, overlaps, events>>

(* forgot_password: a deleted account is sent one, too. *)
ForgotPassword(l, u) == Sent(l, "reset", u)

RequestMagicLink(l, u) == Sent(l, "verify", u)

(* Mutant: a link that was used is found again. *)
AnyLink(l) == link[l].status # "none"

(* The filter of the look-up *)
Usable(l) == link[l].status = "sent"

(* reset_password, verify_magic_link: the link is looked up. *)
FindLink(c, l) ==
  /\ pc[c] = "idle" /\ Usable(l)
  /\ pc' = [pc EXCEPT ![c] = "loaded"]
  /\ request' = [request EXCEPT ![c] = [NoRequest EXCEPT !.kind = link[l].kind, !.link = l,
                                                         !.user = link[l].user]]
  /\ Overlapped(l)
  /\ UNCHANGED <<profile, password, link, referrals, uses, events>>

UseLink(c) ==
  /\ pc[c] = "loaded"
  /\ link' = [link EXCEPT ![request[c].link].status = "used"]
  /\ uses' = [uses EXCEPT ![request[c].link] = @ + 1]
  /\ Finish(c)
  /\ UNCHANGED <<profile, referrals, overlaps, events>>

(* The new password goes into the commit that marks the link. *)
ResetPassword(c) ==
  /\ request[c].kind = "reset" /\ UseLink(c)
  /\ password' = [password EXCEPT ![request[c].user] = c]

(* The session of a member is handed out after the commit, if he is one    *)
(* still; a refunded member has used his link all the same.                *)
VerifyMagicLink(c) == request[c].kind = "verify" /\ UseLink(c) /\ UNCHANGED password

(* request_account_deletion: the hash becomes the empty string. *)
DeleteAccount(u) ==
  /\ events < MaxEvents /\ events' = events + 1
  /\ u \in rows
  /\ password' = [password EXCEPT ![u] = Deleted]
  /\ UNCHANGED <<profile, link, referrals, requests, uses, overlaps>>

(* change_password: checked against the password as loaded, and nothing    *)
(* checks against the empty hash                                           *)
ChangePassword(c) ==
  /\ pc[c] = "loaded" /\ request[c].kind = "change" /\ request[c].knew # Deleted
  /\ password' = [password EXCEPT ![request[c].user] = c]
  /\ Finish(c)
  /\ UNCHANGED <<profile, link, referrals, uses, overlaps, events>>

(* get_or_create_code: a code nobody has, over whatever the row has now *)
CreateCode(c, k) ==
  /\ pc[c] = "loaded" /\ request[c].kind = "code"
  /\ \A v \in rows : code[v] # k
  /\ code' = [code EXCEPT ![request[c].user] = k]
  /\ Finish(c)
  /\ UNCHANGED <<profile, password, link, referredBy, count, balance, claims, bonuses, uses,
                 overlaps, events>>

(* use_referral: the inviter is looked up by the code; nobody refers himself. *)
FindInviter(c, i) ==
  /\ pc[c] = "loaded" /\ request[c].kind = "refer"
  /\ i \in rows \ {request[c].user} /\ code[i] # Null
  /\ pc' = [pc EXCEPT ![c] = "found"]
  /\ request' = [request EXCEPT ![c].inviter = i, ![c].code = code[i],
                                ![c].invBalance = balance[i], ![c].invCount = count[i]]
  /\ UNCHANGED <<profile, password, link, referrals, uses, overlaps, events>>

(* _pay_bonus: the balances as loaded, plus the bonus *)
Paid(c) == [balance EXCEPT ![request[c].user] = request[c].balance + Bonus,
                           ![request[c].inviter] = request[c].invBalance + Bonus]

(* Mutant: the row keeps no trace of its inviter. *)
NotMarked(c) == referredBy

Marked(c) == [referredBy EXCEPT ![request[c].user] = request[c].code]

CommitReferral(c) ==
  LET u == request[c].user
      i == request[c].inviter IN
  /\ pc[c] = "found"
  /\ referredBy' = Marked(c)
  /\ count' = [count EXCEPT ![i] = request[c].invCount + 1]
  /\ balance' = Paid(c)
  /\ claims' = [claims EXCEPT ![u] = @ + 1]
  /\ bonuses' = [bonuses EXCEPT ![u] = @ + 1, ![i] = @ + 1]
  /\ Finish(c)
  /\ UNCHANGED <<profile, password, link, code, uses, overlaps, events>>

(* Any other ending: refused, an unknown code, a name that is taken *)
Refuse(c) ==
  /\ pc[c] = "loaded"
  /\ Finish(c)
  /\ UNCHANGED <<profile, password, link, referrals, uses, overlaps, events>>

Kinds == {"rename", "change", "code", "refer"}

Step(c) ==
  \/ \E u \in Users, k \in Kinds : BeginRequest(c, k, u)
  \/ \E l \in Links : FindLink(c, l)
  \/ \E n \in Names : Rename(c, n)
  \/ ResetPassword(c) \/ VerifyMagicLink(c) \/ ChangePassword(c) \/ CommitReferral(c) \/ Refuse(c)
  \/ \E k \in Codes : CreateCode(c, k)
  \/ \E i \in Users : FindInviter(c, i)

AccountsNext ==
  \/ \E u \in Users, n \in Names : Register(u, n) \/ RegisterRefused(u, n)
  \/ \E u \in Users : CreateWallet(u) \/ DeleteAccount(u)
  \/ \E u \in Users, l \in Links : ForgotPassword(l, u) \/ RequestMagicLink(l, u)
  \/ \E c \in Requests : Step(c)
  \/ Restart

AccountsSpec == AccountsInit /\ [][AccountsNext]_accountsVars

----------------------------------------------------------------------------
(* Properties *)

(* Every variable holds what its column or local variable may hold. *)
AccountsTypeOK ==
  /\ wallets \subseteq rows /\ rows \subseteq Users
  /\ name \in [Users -> Names \cup {Null}] /\ handle \in [Users -> Names \cup {Null}]
  /\ password \in [Users -> Requests \cup {Deleted, Null}]
  /\ link \in [Links -> [status : {"none", "sent", "used"}, kind : {"none", "reset", "verify"},
                         user : Users \cup {Null}]]
  /\ code \in [Users -> Codes \cup {Null}] /\ referredBy \in [Users -> Codes \cup {Null}]
  /\ count \in [Users -> Nat] /\ balance \in [Users -> Nat]
  /\ pc \in [Requests -> {"idle", "loaded", "found", "done"}]
  /\ request \in [Requests -> [kind : Kinds \cup {"reset", "verify", "none"}, user : Users \cup {Null},
                               link : Links \cup {Null}, name : Names \cup {Null},
                               code : Codes \cup {Null}, knew : Requests \cup {Deleted, Null},
                               inviter : Users \cup {Null}, balance : Nat, invBalance : Nat,
                               invCount : Nat]]
  /\ uses \in [Links -> Nat] /\ overlaps \in [Links \cup Users -> Nat]
  /\ claims \in [Users -> Nat] /\ bonuses \in [Users -> Nat] /\ events \in Nat

(* No two users have the same username or the same payment handle, and no  *)
(* user's handle is another one's name: a payment that finds nobody of     *)
(* that name and falls back on the handle reaches no stranger.  A handle   *)
(* may differ from its owner's name: renames overlap, and an unchanged     *)
(* name is not written.                                                    *)
NamesAreOwn ==
  /\ \A u, v \in rows : name[u] = name[v] /\ name[u] # Null => u = v
  /\ \A u, v \in Users : handle[u] # Null /\ handle[u] \in {handle[v], name[v]} => u = v

(* "Link works once": it is marked in the commit that honours it, so that  *)
(* it works again only for a call that began beside another one, and a     *)
(* reset link is not burnt for nothing, whenever the process stops.        *)
LinksWorkOnce ==
  \A l \in Links :
    /\ uses[l] <= 1 + overlaps[l]
    /\ link[l].status = "used" /\ link[l].kind = "reset" => password[link[l].user] # Null

(* A second referral of an account is only paid to a call that began       *)
(* beside the first one.  Balances are written whole, from what was        *)
(* loaded: bonuses get lost, but no cent is credited without an audit row. *)
ReferralsAddUp ==
  /\ AccountsTypeOK
  /\ \A u \in Users : /\ claims[u] <= 1 + overlaps[u]
                      /\ balance[u] <= Bonus * bonuses[u] /\ count[u] <= bonuses[u]

(* "The payout is once-per-account by construction": refuted, since both   *)
(* calls of one account find referred_by empty.                            *)
PaidOncePerAccount == \A u \in Users : claims[u] <= 1

(* "User can no longer log in after this": refuted, since a reset link     *)
(* gives a deleted account a password, and so does a change of password    *)
(* that has loaded the account before.                                     *)
DeletionStands == [][\A u \in Users : password[u] = Deleted => password'[u] = Deleted]_password
=============================================================================
