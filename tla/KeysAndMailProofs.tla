------------------------- MODULE KeysAndMailProofs -------------------------
(***************************************************************************)
(* What WalletKeys and Mailings guarantee for every value of their         *)
(* constants: a member's keys and its mail.                                *)
(*                                                                         *)
(* Keys.  What a call has loaded may be out of date when it commits; Inv   *)
(* says what is still true of it (Loaded): a rotation misses only rows     *)
(* that the new key wraps, the rows of a reissue still cannot sign, and a  *)
(* wallet of this code's making that a migration takes for the old one     *)
(* belongs to its user or to nobody.  This holds since no call loads for   *)
(* deletion a row this code has made (CallType), and the rows it makes     *)
(* stay linked to their users until they are replaced (Linked).            *)
(*                                                                         *)
(* Mailings.  A brief is charged to the loop, to a request that has come   *)
(* and will not send that address another one, or to a fault (BriefsOK);   *)
(* a mail to the log, to a thread that has sent it, to an overlap or to a  *)
(* fault, the threads that are still to send it included (MailsOK).        *)
(***************************************************************************)
EXTENDS WalletKeys, Mailings, FiniteSetTheorems, WellFoundedInduction, TLAPS

CallType ==
  [op : {"idle", "treasury"}] \cup [op : {"create"}, user : Users]
    \cup [op : {"reissue"}, user : Users, seen : SUBSET Old]
    \cup [op : {"reconcile"}, user : Users, at : Old, seen : SUBSET Addresses, live : SUBSET Addresses]
    \cup [op : {"migrate"}, user : Users, old : Addresses \cup {None}]
    \cup [op : {"rotate"}, seen : SUBSET Fresh]

(* The rows this code has made, and those from before it                   *)
Schemes ==
  /\ \A a \in Fresh : row[a] # None =>
       row[a].scheme = "v2" /\ (row[a].owner # None => row[a].active /\ ~ row[a].treasury)
  /\ \A a \in Old : row[a] # None => row[a].scheme # "v2" /\ ~ row[a].treasury

(* A data key is wrapped with a master key of the environment, and with    *)
(* the new one as soon as the rotation has reported no failures.           *)
Wrapped ==
  \A a \in Fresh : row[a] # None =>
    /\ row[a].kek \in {env.active, env.previous}
    /\ env.clean => row[a].kek = env.active

Loaded ==
  \A c \in Calls :
    /\ call[c].op = "rotate" =>
         \A a \in Fresh \ call[c].seen : row[a] # None => row[a].kek = env.active
    /\ call[c].op = "reissue" =>
         \A a \in call[c].seen : row[a] # None => ~ Signs(row[a])
    /\ call[c].op = "migrate" /\ call[c].old \in Fresh =>
         row[call[c].old] # None /\ row[call[c].old].owner \in {call[c].user, None}

(* One row for each user, linked to the user if this code has made it      *)
Linked ==
  /\ \A u \in Users : \A a, b \in OwnRows(u) : a = b
  /\ \A a \in Fresh : row[a] # None /\ row[a].owner # None => link[row[a].owner] = a
  /\ \A u \in Users : link[u] \in Fresh => row[link[u]] # None /\ row[link[u]].owner = u

OneOfEach == (\A a, b \in Treasury : a = b) /\ told \subseteq Treasury

Inv == /\ TypeOK /\ call \in [Calls -> CallType]
       /\ Schemes /\ Wrapped /\ Loaded /\ Linked /\ OneOfEach

LEMMA CallFields ==
  ASSUME call \in [Calls -> CallType], NEW c \in Calls
  PROVE  /\ call[c].op \in {"create", "reissue", "reconcile", "migrate"} => call[c].user \in Users
         /\ call[c].op = "reissue" => call[c].seen \subseteq Old
         /\ call[c].op = "reconcile" => call[c].at \in Old
         /\ call[c].op = "migrate" => call[c].old \in Addresses \cup {None}
         /\ call[c].op = "rotate" => call[c].seen \subseteq Fresh
BY DEF CallType

LEMMA Apart == /\ \A a \in Fresh : a \notin Old /\ a # None /\ a \in Addresses
               /\ \A a \in Old : a # None /\ a \in Addresses
               /\ \A a \in Addresses : a \in Fresh \/ a \in Old
               /\ \A u \in Users : u # None
               /\ \A k \in Keks : k # None
BY AddressAssumption DEF Old, Addresses

LEMMA NewRowFields ==
  ASSUME TypeOK, NEW u \in Users \cup {None}
  PROVE  /\ NewRow(u) \in RowType /\ NewRow(u) # None
         /\ NewRow(u).owner = u /\ NewRow(u).active /\ NewRow(u).scheme = "v2"
         /\ NewRow(u).kek = env.active /\ (NewRow(u).treasury <=> u = None)
<1>1. NewRow(u) \in RowType
  BY DEF NewRow, RowType, TypeOK
<1>2. QED BY <1>1, KekAssumption DEF NewRow

LEMMA InitInv == Init => Inv
<1> SUFFICES ASSUME Init PROVE Inv
  OBVIOUS
<1>1. \A u \in Users : Legacy[u] # None => Legacy[u] \in Old
  BY DEF Old
<1>2. \A u \in Users : Legacy[u] # None /\ OldScheme[Legacy[u]] # "missing" =>
        OldRow(u) \in RowType /\ OldRow(u) # None /\ OldRow(u).scheme # "v2"
          /\ ~ OldRow(u).treasury /\ OldRow(u).owner = u
  <2> TAKE u \in Users
  <2> HAVE Legacy[u] # None /\ OldScheme[Legacy[u]] # "missing"
  <2>1. OldScheme[Legacy[u]] \in {"direct", "none"} /\ 1 \in Keks
    BY <1>1, LegacyAssumption, KekAssumption DEF Keks
  <2>2. OldRow(u) \in RowType
    BY <2>1 DEF OldRow, RowType
  <2>3. QED BY <2>1, <2>2, KekAssumption DEF OldRow
<1>3. \A a \in Addresses : row[a] # None =>
        a \in Old /\ \E u \in Users : Legacy[u] = a /\ row[a] = OldRow(u) /\ OldScheme[a] # "missing"
  <2> TAKE a \in Addresses
  <2> HAVE row[a] # None
  <2>1. \E u \in Users : Legacy[u] = a /\ OldScheme[a] # "missing"
    BY DEF Init
  <2>2. row[a] = OldRow(CHOOSE u \in Users : Legacy[u] = a)
    BY <2>1 DEF Init
  <2>3. QED BY <1>1, <2>1, <2>2, Apart
<1>4. \A a \in Fresh : row[a] = None
  BY <1>3, Apart
<1>5. TypeOK
  <2>1. env \in [active : Keks, previous : Keks \cup {None}, clean : BOOLEAN]
    BY KekAssumption DEF Init, Keks
  <2>2. row \in [Addresses -> RowType \cup {None}]
    <3>1. \A a \in Addresses : row[a] \in RowType \cup {None}
      BY <1>2, <1>3, Apart
    <3>2. QED BY <3>1 DEF Init
  <2>3. link \in [Users -> Addresses \cup {None}]
    BY <1>1, LegacyAssumption, Apart DEF Init
  <2>4. QED BY <2>1, <2>2, <2>3 DEF TypeOK, Init
<1>6. call \in [Calls -> CallType]
  BY DEF Init, Idle, CallType
<1>7. Schemes
  BY <1>2, <1>3, <1>4, Apart DEF Schemes
<1>8. Wrapped /\ Loaded
  BY <1>4 DEF Wrapped, Loaded, Init, Idle
<1>9. Linked
  <2>1. \A u \in Users : \A a, b \in OwnRows(u) : a = b
    BY <1>2, <1>3, Apart DEF OwnRows, Rows
  <2>2. QED BY <1>1, <1>4, <2>1, Apart DEF Linked, Init
<1>10. OneOfEach
  BY <1>2, <1>3, Apart DEF OneOfEach, Treasury, Rows, Init
<1>11. QED BY <1>5, <1>6, <1>7, <1>8, <1>9, <1>10 DEF Inv

(* A call that goes on has loaded what Loaded says of it.                  *)
LEMMA GoesOnInv ==
  ASSUME Inv, NEW c \in Calls, NEW r \in CallType,
         call' = [call EXCEPT ![c] = r], UNCHANGED <<env, row, link, told>>,
         r.op = "rotate" => \A a \in Fresh \ r.seen : row[a] # None => row[a].kek = env.active,
         r.op = "reissue" => \A a \in r.seen : row[a] # None => ~ Signs(row[a]),
         r.op = "migrate" /\ r.old \in Fresh => row[r.old] # None /\ row[r.old].owner \in {r.user, None}
  PROVE  Inv'
<1>1. TypeOK' /\ Schemes' /\ Wrapped' /\ Linked' /\ OneOfEach'
  BY DEF Inv, TypeOK, Schemes, Wrapped, Linked, OneOfEach, OwnRows, Treasury, Rows
<1>2. call' \in [Calls -> CallType]
  BY DEF Inv
<1>3. Loaded'
  BY DEF Inv, Loaded, Signs
<1>4. QED BY <1>1, <1>2, <1>3 DEF Inv

(* A call that fails, or a step that only drops calls, changes no row.     *)
LEMMA DropInv ==
  ASSUME Inv, UNCHANGED <<env, row, link, told>>,
         call' \in [Calls -> CallType], \A c \in Calls : call'[c] \in {call[c], Idle}
  PROVE  Inv'
<1>1. TypeOK' /\ Schemes' /\ Wrapped' /\ Linked' /\ OneOfEach'
  BY DEF Inv, TypeOK, Schemes, Wrapped, Linked, OneOfEach, OwnRows, Treasury, Rows
<1>2. Loaded'
  <2>1. \A c \in Calls : call'[c] = call[c] \/ call'[c].op = "idle"
    BY DEF Idle
  <2>2. QED BY <2>1 DEF Inv, Loaded, Signs
<1>3. QED BY <1>1, <1>2 DEF Inv

LEMMA FailInv == ASSUME Inv, NEW c \in Calls, Fail(c) PROVE Inv'
<1>1. Idle \in CallType
  BY DEF Idle, CallType
<1>2. call' \in [Calls -> CallType] /\ \A d \in Calls : call'[d] \in {call[d], Idle}
  BY <1>1 DEF Inv, Fail, End
<1>3. QED BY <1>2, DropInv DEF Fail

(* What a call ends with, besides the row of its own it may have loaded    *)
Kept(b, u) ==
  \/ row'[b] = row[b]
  \/ b \in Old /\ row'[b] = None
  \/ /\ row[b] # None /\ row'[b] = [row[b] EXCEPT !.owner = None, !.active = FALSE]
     /\ b \in Fresh => row[b].owner \in {u, None}

LEMMA KeptFields ==
  ASSUME Inv, NEW b \in Addresses, NEW u, Kept(b, u), row'[b] # None
  PROVE  /\ row[b] # None /\ row'[b] \in RowType
         /\ row'[b].scheme = row[b].scheme /\ row'[b].kek = row[b].kek
         /\ row'[b].treasury = row[b].treasury
         /\ row'[b].owner \in {row[b].owner, None}
         /\ b \in Fresh => row'[b] = row[b] \/ (row'[b].owner = None /\ row[b].owner \in {u, None})
<1>1. CASE row'[b] = row[b]
  BY <1>1 DEF Inv, TypeOK
<1>2. CASE /\ row[b] # None /\ row'[b] = [row[b] EXCEPT !.owner = None, !.active = FALSE]
           /\ b \in Fresh => row[b].owner \in {u, None}
  <2>1. row[b] \in RowType
    BY <1>2 DEF Inv, TypeOK
  <2>2. QED BY <1>2, <2>1 DEF RowType
<1>3. QED BY <1>1, <1>2 DEF Kept

(* A wallet made for a user: by a creation, a reissue or a migration       *)
LEMMA NewWalletInv ==
  ASSUME Inv, NEW c \in Calls, NEW a \in Fresh, NEW u \in Users,
         row[a] = None, row' = [b \in Addresses |-> row'[b]], row'[a] = NewRow(u),
         \A b \in Addresses \ {a} : Kept(b, u) /\ (row'[b] # None => row'[b].owner # u),
         link' = [link EXCEPT ![u] = a], End(c), UNCHANGED <<env, told>>
  PROVE  Inv'
<1>1. TypeOK /\ Schemes /\ Wrapped /\ Loaded /\ Linked /\ OneOfEach /\ call \in [Calls -> CallType]
  BY DEF Inv
<1>2. /\ NewRow(u) \in RowType /\ row'[a] # None
      /\ row'[a].owner = u /\ row'[a].active /\ row'[a].scheme = "v2"
      /\ row'[a].kek = env.active /\ row'[a].treasury = FALSE
  BY <1>1, NewRowFields, Apart DEF NewRow
<1>3. \A b \in Addresses \ {a} : row'[b] # None =>
        /\ row[b] # None /\ row'[b] \in RowType
        /\ row'[b].scheme = row[b].scheme /\ row'[b].kek = row[b].kek
        /\ row'[b].treasury = row[b].treasury
        /\ row'[b].owner \in {row[b].owner, None} /\ row'[b].owner # u
        /\ b \in Fresh => row'[b] = row[b] \/ (row'[b].owner = None /\ row[b].owner \in {u, None})
  BY KeptFields
<1>4. \A b \in Fresh \ {a} : row[b] # None => row'[b] # None
  <2> SUFFICES ASSUME NEW b \in Fresh \ {a}, row[b] # None PROVE row'[b] # None
    OBVIOUS
  <2>1. Kept(b, u) /\ b \notin Old
    BY Apart
  <2>2. row[b] \in RowType
    BY <1>1, Apart DEF TypeOK
  <2>3. [row[b] EXCEPT !.owner = None, !.active = FALSE] \in RowType
    BY <2>2 DEF RowType
  <2>4. QED BY <2>1, <2>3, KekAssumption DEF Kept
<1>5. TypeOK'
  <2>1. \A b \in Addresses : row'[b] \in RowType \cup {None}
    BY <1>2, <1>3
  <2>2. row' \in [Addresses -> RowType \cup {None}]
    BY <2>1
  <2>3. link' \in [Users -> Addresses \cup {None}]
    BY <1>1, Apart DEF TypeOK
  <2>4. QED BY <1>1, <2>2, <2>3 DEF TypeOK
<1>6. call' \in [Calls -> CallType] /\ \A d \in Calls : call'[d] = call[d] \/ call'[d].op = "idle"
  <2>1. Idle \in CallType /\ Idle.op = "idle"
    BY DEF Idle, CallType
  <2>2. QED BY <1>1, <2>1 DEF End
<1>7. Schemes'
  BY <1>1, <1>2, <1>3, <1>4, Apart DEF Schemes
<1>8. Wrapped'
  BY <1>1, <1>2, <1>3, Apart DEF Wrapped
<1>9. Loaded'
  <2> SUFFICES ASSUME NEW d \in Calls, call'[d] = call[d]
               PROVE  /\ call[d].op = "rotate" =>
                           \A b \in Fresh \ call[d].seen : row'[b] # None => row'[b].kek = env.active
                      /\ call[d].op = "reissue" =>
                           \A b \in call[d].seen : row'[b] # None => ~ Signs(row'[b])
                      /\ call[d].op = "migrate" /\ call[d].old \in Fresh =>
                           row'[call[d].old] # None /\ row'[call[d].old].owner \in {call[d].user, None}
    BY <1>6 DEF Loaded, Signs
  <2>1. call[d].op = "rotate" =>
          \A b \in Fresh \ call[d].seen : row'[b] # None => row'[b].kek = env.active
    BY <1>1, <1>2, <1>3, Apart DEF Loaded
  <2>2. call[d].op = "reissue" =>
          \A b \in call[d].seen : row'[b] # None => ~ Signs(row'[b])
    <3> SUFFICES ASSUME call[d].op = "reissue", NEW b \in call[d].seen, row'[b] # None
                 PROVE  ~ Signs(row'[b])
      OBVIOUS
    <3>1. b \in Addresses \ {a}
      BY <1>1, CallFields, Apart
    <3>2. row[b] # None /\ row'[b].scheme = row[b].scheme /\ row'[b].kek = row[b].kek
      BY <1>3, <3>1
    <3>3. ~ Signs(row[b])
      BY <1>1, <3>2 DEF Loaded
    <3>4. QED BY <3>2, <3>3 DEF Signs
  <2>3. call[d].op = "migrate" /\ call[d].old \in Fresh =>
          row'[call[d].old] # None /\ row'[call[d].old].owner \in {call[d].user, None}
    <3> SUFFICES ASSUME call[d].op = "migrate", call[d].old \in Fresh
                 PROVE  row'[call[d].old] # None /\ row'[call[d].old].owner \in {call[d].user, None}
      OBVIOUS
    <3>1. row[call[d].old] # None /\ row[call[d].old].owner \in {call[d].user, None}
      BY <1>1 DEF Loaded
    <3>2. call[d].old \in Addresses \ {a} /\ row'[call[d].old] # None
      BY <1>4, <3>1, Apart
    <3>3. QED BY <1>3, <3>1, <3>2
  <2>4. QED BY <2>1, <2>2, <2>3
<1>10. Linked'
  <2>1. \A v \in Users : \A b, d \in OwnRows(v)' : b = d
    <3> SUFFICES ASSUME NEW v \in Users, NEW b \in Addresses, NEW d \in Addresses,
                        row'[b] # None, row'[b].owner = v, row'[d] # None, row'[d].owner = v
                 PROVE  b = d
      BY DEF OwnRows, Rows
    <3>1. CASE v = u
      BY <1>3, <3>1
    <3>2. CASE v # u
      BY <1>1, <1>2, <1>3, <3>2, Apart DEF Linked, OwnRows, Rows
    <3>3. QED BY <3>1, <3>2
  <2>2. \A b \in Fresh : row'[b] # None /\ row'[b].owner # None => link'[row'[b].owner] = b
    <3> SUFFICES ASSUME NEW b \in Fresh, row'[b] # None, row'[b].owner # None
                 PROVE  link'[row'[b].owner] = b
      OBVIOUS
    <3>1. CASE b = a
      BY <1>1, <1>2, <3>1 DEF TypeOK
    <3>2. CASE b # a
      <4>1. row'[b] = row[b] /\ row'[b].owner # u /\ row'[b].owner \in Users
        BY <1>3, <3>2, Apart DEF RowType
      <4>2. link[row[b].owner] = b
        BY <1>1, <4>1 DEF Linked
      <4>3. QED BY <1>1, <4>1, <4>2 DEF TypeOK
    <3>3. QED BY <3>1, <3>2
  <2>3. \A v \in Users : link'[v] \in Fresh => row'[link'[v]] # None /\ row'[link'[v]].owner = v
    <3> SUFFICES ASSUME NEW v \in Users, link'[v] \in Fresh
                 PROVE  row'[link'[v]] # None /\ row'[link'[v]].owner = v
      OBVIOUS
    <3>1. CASE v = u
      BY <1>1, <1>2, <3>1 DEF TypeOK
    <3>2. CASE v # u
      <4>1. link'[v] = link[v] /\ row[link[v]] # None /\ row[link[v]].owner = v
        BY <1>1, <3>2 DEF TypeOK, Linked
      <4>2. link[v] \in Fresh \ {a} /\ row'[link[v]] # None
        BY <1>4, <4>1
      <4>3. row'[link[v]] = row[link[v]]
        BY <1>3, <3>2, <4>1, <4>2, Apart
      <4>4. QED BY <4>1, <4>3
    <3>3. QED BY <3>1, <3>2
  <2>4. QED BY <2>1, <2>2, <2>3 DEF Linked
<1>11. OneOfEach'
  <2>1. Treasury' = Treasury
    <3>1. \A b \in Addresses : row'[b] # None /\ row'[b].treasury => row[b] # None /\ row[b].treasury
      BY <1>2, <1>3
    <3>2. \A b \in Addresses : row[b] # None /\ row[b].treasury => b \in Fresh /\ b # a
      BY <1>1, Apart DEF Schemes
    <3>3. \A b \in Addresses : row[b] # None /\ row[b].treasury => row'[b] # None /\ row'[b].treasury
      BY <1>3, <1>4, <3>2
    <3>4. QED BY <3>1, <3>3 DEF Treasury, Rows
  <2>2. QED BY <1>1, <2>1 DEF OneOfEach
<1>12. QED BY <1>5, <1>6, <1>7, <1>8, <1>9, <1>10, <1>11 DEF Inv

LEMMA CommitCreateInv ==
  ASSUME Inv, NEW c \in Calls, NEW a \in Fresh, CommitCreate(c, a) PROVE Inv'
<1> DEFINE u == call[c].user
<1>1. call[c].op = "create" /\ row[a] = None /\ u \in Users /\ row \in [Addresses -> RowType \cup {None}]
  BY CallFields DEF Inv, TypeOK, CommitCreate
<1>2. CASE Insert(u)
  <2>1. /\ row' = [row EXCEPT ![a] = NewRow(u)] /\ link' = [link EXCEPT ![u] = a]
        /\ End(c) /\ UNCHANGED <<env, told>>
    BY <1>2 DEF CommitCreate
  <2>2. row' = [b \in Addresses |-> row'[b]] /\ row'[a] = NewRow(u)
    BY <1>1, <2>1, Apart
  <2>3. \A b \in Addresses \ {a} : row'[b] = row[b] /\ (row[b] # None => row[b].owner # u)
    BY <1>1, <1>2, <2>1 DEF Insert, OwnRows, Rows
  <2>4. QED BY <1>1, <2>1, <2>2, <2>3, NewWalletInv DEF Kept
<1>3. CASE ~ Insert(u)
  BY <1>3, FailInv DEF CommitCreate
<1>4. QED BY <1>2, <1>3

LEMMA CommitReissueInv ==
  ASSUME Inv, NEW c \in Calls, NEW a \in Fresh, CommitReissue(c, a) PROVE Inv'
<1> DEFINE u == call[c].user
           s == call[c].seen
<1>1. /\ call[c].op = "reissue" /\ row[a] = None /\ u \in Users /\ s \subseteq Old
      /\ row \in [Addresses -> RowType \cup {None}]
  BY CallFields DEF Inv, TypeOK, CommitReissue
<1>2. CASE OwnRows(u) \subseteq s
  <2>1. /\ row' = [b \in Addresses |-> IF b = a THEN NewRow(u) ELSE IF b \in s THEN None ELSE row[b]]
        /\ link' = [link EXCEPT ![u] = a] /\ End(c) /\ UNCHANGED <<env, told>>
    BY <1>2 DEF CommitReissue
  <2>2. row' = [b \in Addresses |-> row'[b]] /\ row'[a] = NewRow(u)
    BY <2>1, Apart
  <2>3. \A b \in Addresses \ {a} :
          IF b \in s THEN b \in Old /\ row'[b] = None
                     ELSE row'[b] = row[b] /\ (row[b] # None => row[b].owner # u)
    BY <1>1, <1>2, <2>1 DEF OwnRows, Rows
  <2>4. QED BY <1>1, <2>1, <2>2, <2>3, NewWalletInv DEF Kept
<1>3. CASE ~ (OwnRows(u) \subseteq s)
  BY <1>3, FailInv DEF CommitReissue
<1>4. QED BY <1>2, <1>3

LEMMA CommitMigrateInv ==
  ASSUME Inv, NEW c \in Calls, NEW a \in Fresh, CommitMigrate(c, a) PROVE Inv'
<1> DEFINE u   == call[c].user
           old == call[c].old
           Moves == OwnRows(u) \subseteq {old} /\ (old # None => old \in Rows)
<1>1. /\ call[c].op = "migrate" /\ row[a] = None /\ u \in Users /\ old \in Addresses \cup {None}
      /\ row \in [Addresses -> RowType \cup {None}]
  BY CallFields DEF Inv, TypeOK, CommitMigrate
<1>2. CASE Moves
  <2>1. /\ row' = [b \in Addresses |->
                     IF b = a THEN NewRow(u)
                     ELSE IF b = old THEN [row[b] EXCEPT !.owner = None, !.active = FALSE] ELSE row[b]]
        /\ link' = [link EXCEPT ![u] = a] /\ End(c) /\ UNCHANGED <<env, told>>
    BY <1>2 DEF CommitMigrate
  <2>2. row' = [b \in Addresses |-> row'[b]] /\ row'[a] = NewRow(u)
    BY <2>1, Apart
  <2>3. \A b \in Addresses \ {a} : b # old =>
          row'[b] = row[b] /\ (row[b] # None => row[b].owner # u)
    BY <1>1, <1>2, <2>1 DEF OwnRows, Rows
  <2>4. \A b \in Addresses \ {a} : b = old =>
          /\ row[b] # None /\ row'[b] = [row[b] EXCEPT !.owner = None, !.active = FALSE]
          /\ b \in Fresh => row[b].owner \in {u, None}
          /\ row'[b].owner # u
    <3> SUFFICES ASSUME NEW b \in Addresses \ {a}, b = old
                 PROVE  /\ row[b] # None
                        /\ row'[b] = [row[b] EXCEPT !.owner = None, !.active = FALSE]
                        /\ b \in Fresh => row[b].owner \in {u, None}
                        /\ row'[b].owner # u
      OBVIOUS
    <3>1. row[b] # None /\ row[b] \in RowType
      BY <1>1, <1>2, Apart DEF Rows
    <3>2. row'[b] = [row[b] EXCEPT !.owner = None, !.active = FALSE]
      BY <2>1
    <3>3. row'[b].owner = None
      BY <3>1, <3>2 DEF RowType
    <3>4. b \in Fresh => row[b].owner \in {u, None}
      BY <1>1 DEF Inv, Loaded
    <3>5. QED BY <1>1, <3>1, <3>2, <3>3, <3>4, Apart
  <2>5. \A b \in Addresses \ {a} : Kept(b, u) /\ (row'[b] # None => row'[b].owner # u)
    BY <2>3, <2>4 DEF Kept
  <2>6. QED BY <1>1, <2>1, <2>2, <2>5, NewWalletInv
<1>3. CASE ~ Moves
  BY <1>3, FailInv DEF CommitMigrate
<1>4. QED BY <1>2, <1>3

LEMMA CommitTreasuryInv ==
  ASSUME Inv, NEW c \in Calls, NEW a \in Fresh, CommitTreasury(c, a) PROVE Inv'
<1>1. /\ row[a] = None /\ row \in [Addresses -> RowType \cup {None}]
      /\ TypeOK /\ Schemes /\ Wrapped /\ Loaded /\ Linked /\ OneOfEach /\ call \in [Calls -> CallType]
  BY DEF Inv, TypeOK, CommitTreasury
<1>2. call' \in [Calls -> CallType] /\ \A d \in Calls : call'[d] = call[d] \/ call'[d].op = "idle"
  <2>1. Idle \in CallType /\ Idle.op = "idle"
    BY DEF Idle, CallType
  <2>2. QED BY <1>1, <2>1 DEF End, CommitTreasury
<1>3. CASE Treasury # {}
  <2>1. UNCHANGED <<env, row, link>> /\ told' = told \cup Treasury
    BY <1>3 DEF CommitTreasury
  <2>2. TypeOK' /\ Schemes' /\ Wrapped' /\ Linked' /\ OneOfEach'
    BY <1>1, <2>1 DEF TypeOK, Schemes, Wrapped, Linked, OneOfEach, OwnRows, Treasury, Rows
  <2>3. Loaded'
    BY <1>1, <1>2, <2>1 DEF Loaded, Signs
  <2>4. QED BY <1>2, <2>2, <2>3 DEF Inv
<1>4. CASE Treasury = {}
  <2>1. /\ row' = [row EXCEPT ![a] = NewRow(None)] /\ told' = told \cup {a} /\ UNCHANGED <<env, link>>
    BY <1>4 DEF CommitTreasury
  <2>2. /\ row'[a] \in RowType /\ row'[a] # None /\ row'[a].owner = None /\ row'[a].active
        /\ row'[a].scheme = "v2" /\ row'[a].kek = env.active /\ row'[a].treasury
    BY <1>1, <2>1, NewRowFields, Apart
  <2>3. \A b \in Addresses \ {a} : row'[b] = row[b]
    BY <1>1, <2>1
  <2>4. TypeOK'
    BY <1>1, <2>1, <2>2, Apart DEF TypeOK
  <2>5. told = {}
    BY <1>1, <1>4 DEF OneOfEach
  <2>6. Treasury' = {a}
    BY <1>4, <2>2, <2>3, Apart DEF Treasury, Rows
  <2>7. Schemes' /\ Wrapped'
    BY <1>1, <2>1, <2>2, <2>3, Apart DEF Schemes, Wrapped
  <2>8. Linked'
    <3>1. \A v \in Users : OwnRows(v)' = OwnRows(v)
      BY <1>1, <2>2, <2>3, Apart DEF OwnRows, Rows
    <3>2. QED BY <1>1, <2>1, <2>2, <2>3, <3>1, Apart DEF Linked
  <2>9. Loaded'
    <3> SUFFICES ASSUME NEW d \in Calls, call'[d] = call[d]
                 PROVE  /\ call[d].op = "rotate" =>
                             \A b \in Fresh \ call[d].seen : row'[b] # None => row'[b].kek = env.active
                        /\ call[d].op = "reissue" =>
                             \A b \in call[d].seen : row'[b] # None => ~ Signs(row'[b])
                        /\ call[d].op = "migrate" /\ call[d].old \in Fresh =>
                             row'[call[d].old] # None /\ row'[call[d].old].owner \in {call[d].user, None}
      BY <1>2, <2>1 DEF Loaded, Signs
    <3>1. \A b \in Old : row'[b] = row[b]
      BY <1>1, <2>3, Apart
    <3>2. call[d].op = "rotate" =>
            \A b \in Fresh \ call[d].seen : row'[b] # None => row'[b].kek = env.active
      BY <1>1, <2>2, <2>3, Apart DEF Loaded
    <3>3. call[d].op = "reissue" => \A b \in call[d].seen : row'[b] # None => ~ Signs(row'[b])
      BY <1>1, <3>1, CallFields DEF Loaded
    <3>4. call[d].op = "migrate" /\ call[d].old \in Fresh =>
            row'[call[d].old] # None /\ row'[call[d].old].owner \in {call[d].user, None}
      <4> SUFFICES ASSUME call[d].op = "migrate", call[d].old \in Fresh
                   PROVE  row'[call[d].old] # None /\ row'[call[d].old].owner \in {call[d].user, None}
        OBVIOUS
      <4>1. row[call[d].old] # None /\ row[call[d].old].owner \in {call[d].user, None}
        BY <1>1 DEF Loaded
      <4>2. row'[call[d].old] = row[call[d].old]
        BY <1>1, <2>3, <4>1, Apart
      <4>3. QED BY <4>1, <4>2
    <3>5. QED BY <3>2, <3>3, <3>4
  <2>10. QED BY <1>2, <2>1, <2>4, <2>5, <2>6, <2>7, <2>8, <2>9 DEF Inv, OneOfEach
<1>5. QED BY <1>3, <1>4

(* A rotation re-wraps what it has loaded; what it has not is new enough.  *)
LEMMA CommitRotateInv ==
  ASSUME Inv, NEW c \in Calls, CommitRotate(c) PROVE Inv'
<1> DEFINE seen == call[c].seen
<1>1. /\ call[c].op = "rotate" /\ seen \subseteq Fresh
      /\ row \in [Addresses -> RowType \cup {None}]
      /\ TypeOK /\ Schemes /\ Wrapped /\ Loaded /\ Linked /\ OneOfEach /\ call \in [Calls -> CallType]
  BY CallFields DEF Inv, TypeOK, CommitRotate
<1>2. CASE ~ (seen \subseteq Rows)
  BY <1>2, FailInv DEF CommitRotate
<1>3. CASE seen \subseteq Rows
  <2>1. /\ row' = [a \in Addresses |-> IF a \in seen /\ Signs(row[a]) THEN Rewrap(row[a]) ELSE row[a]]
        /\ env' = [env EXCEPT !.clean = \A a \in seen : Signs(row[a])]
        /\ End(c) /\ UNCHANGED <<link, told>>
    BY <1>3 DEF CommitRotate
  <2>2. env'.active = env.active /\ env'.previous = env.previous
        /\ env' \in [active : Keks, previous : Keks \cup {None}, clean : BOOLEAN]
    BY <1>1, <2>1 DEF TypeOK
  <2>3. \A a \in seen : row[a] # None /\ row[a] \in RowType /\ Signs(row[a])
    BY <1>1, <1>3, Apart DEF Rows, Schemes, Wrapped, Signs
  <2>4. \A a \in seen : /\ row'[a] # None /\ row'[a] \in RowType /\ row'[a].kek = env.active
                         /\ row'[a].scheme = row[a].scheme /\ row'[a].owner = row[a].owner
                         /\ row'[a].active = row[a].active /\ row'[a].treasury = row[a].treasury
    <3> SUFFICES ASSUME NEW a \in seen
                 PROVE  /\ row'[a] # None /\ row'[a] \in RowType /\ row'[a].kek = env.active
                        /\ row'[a].scheme = row[a].scheme /\ row'[a].owner = row[a].owner
                        /\ row'[a].active = row[a].active /\ row'[a].treasury = row[a].treasury
      OBVIOUS
    <3>1. row'[a] = [row[a] EXCEPT !.kek = env.active]
      BY <1>1, <2>1, <2>3, Apart DEF Rewrap
    <3>2. env.active \in Keks
      BY <1>1 DEF TypeOK
    <3>3. QED BY <2>3, <3>1, <3>2, KekAssumption DEF RowType
  <2>5. \A a \in Addresses \ seen : row'[a] = row[a]
    BY <2>1
  <2>6. TypeOK'
    <3>1. \A a \in Addresses : row'[a] \in RowType \cup {None}
      BY <1>1, <2>4, <2>5
    <3>2. row' \in [Addresses -> RowType \cup {None}]
      BY <2>1, <3>1
    <3>3. QED BY <1>1, <2>1, <2>2, <3>2 DEF TypeOK
  <2>7. call' \in [Calls -> CallType] /\ \A d \in Calls : call'[d] = call[d] \/ call'[d].op = "idle"
    <3>1. Idle \in CallType /\ Idle.op = "idle"
      BY DEF Idle, CallType
    <3>2. QED BY <1>1, <2>1, <3>1 DEF End
  <2>8. Schemes'
    BY <1>1, <2>3, <2>4, <2>5, Apart DEF Schemes
  <2>9. \A a \in Fresh : row'[a] # None => row'[a].kek = env.active
    BY <1>1, <2>4, <2>5, Apart DEF Loaded
  <2>10. Wrapped'
    BY <2>2, <2>9 DEF Wrapped
  <2>11. Loaded'
    <3> SUFFICES ASSUME NEW d \in Calls, call'[d] = call[d]
                 PROVE  /\ call[d].op = "reissue" =>
                             \A b \in call[d].seen : row'[b] # None => ~ Signs(row[b])'
                        /\ call[d].op = "migrate" /\ call[d].old \in Fresh =>
                             row'[call[d].old] # None /\ row'[call[d].old].owner \in {call[d].user, None}
      BY <2>2, <2>7, <2>9 DEF Loaded, Signs
    <3>1. \A b \in Old : row'[b] = row[b]
      BY <1>1, <2>5, Apart
    <3>2. call[d].op = "reissue" => \A b \in call[d].seen : row'[b] # None => ~ Signs(row[b])'
      BY <1>1, <2>2, <3>1, CallFields DEF Loaded, Signs
    <3>3. call[d].op = "migrate" /\ call[d].old \in Fresh =>
            row'[call[d].old] # None /\ row'[call[d].old].owner \in {call[d].user, None}
      <4> SUFFICES ASSUME call[d].op = "migrate", call[d].old \in Fresh
                   PROVE  row'[call[d].old] # None /\ row'[call[d].old].owner \in {call[d].user, None}
        OBVIOUS
      <4>1. row[call[d].old] # None /\ row[call[d].old].owner \in {call[d].user, None}
        BY <1>1 DEF Loaded
      <4>2. row'[call[d].old] # None /\ row'[call[d].old].owner = row[call[d].old].owner
        BY <2>4, <2>5, <4>1, Apart
      <4>3. QED BY <4>1, <4>2
    <3>4. QED BY <3>2, <3>3
  <2>12. Linked'
    <3>1. \A v \in Users : OwnRows(v)' = OwnRows(v)
      BY <1>1, <2>3, <2>4, <2>5, Apart DEF OwnRows, Rows
    <3>2. \A a \in Fresh : (row'[a] # None <=> row[a] # None) /\ (row[a] # None => row'[a].owner = row[a].owner)
      BY <2>3, <2>4, <2>5, Apart
    <3>3. \A a \in Fresh : row'[a] # None /\ row'[a].owner # None => link'[row'[a].owner] = a
      BY <1>1, <2>1, <3>2 DEF Linked
    <3>4. \A v \in Users : link'[v] \in Fresh => row'[link'[v]] # None /\ row'[link'[v]].owner = v
      BY <1>1, <2>1, <3>2 DEF Linked
    <3>5. \A v \in Users : \A a, b \in OwnRows(v)' : a = b
      BY <1>1, <3>1 DEF Linked
    <3>6. QED BY <3>3, <3>4, <3>5 DEF Linked
  <2>13. OneOfEach'
    <3>1. Treasury' = Treasury
      BY <1>1, <2>3, <2>4, <2>5, Apart DEF Treasury, Rows
    <3>2. QED BY <1>1, <2>1, <3>1 DEF OneOfEach
  <2>14. QED BY <2>6, <2>7, <2>8, <2>10, <2>11, <2>12, <2>13 DEF Inv
<1>4. QED BY <1>2, <1>3

(* A new environment leaves no call in progress.                           *)
LEMMA DeployInv ==
  ASSUME Inv, NEW e \in [active : Keks, previous : Keks \cup {None}, clean : BOOLEAN], Deploy(e),
         \A a \in Fresh : row[a] # None =>
           row[a].kek \in {e.active, e.previous} /\ (e.clean => row[a].kek = e.active)
  PROVE  Inv'
<1>1. Idle \in CallType /\ Idle.op = "idle"
  BY DEF Idle, CallType
<1>2. call' \in [Calls -> CallType] /\ \A c \in Calls : call'[c].op = "idle"
  BY <1>1 DEF Deploy
<1>3. TypeOK' /\ Schemes' /\ Linked' /\ OneOfEach' /\ Wrapped'
  BY DEF Inv, Deploy, TypeOK, Schemes, Linked, OneOfEach, Wrapped, OwnRows, Treasury, Rows
<1>4. Loaded'
  BY <1>2 DEF Loaded
<1>5. QED BY <1>2, <1>3, <1>4 DEF Inv

LEMMA KeysInv == ASSUME Inv, NewKek \/ RetireKek PROVE Inv'
<1>1. /\ env \in [active : Keks, previous : Keks \cup {None}, clean : BOOLEAN] /\ Wrapped
      /\ \A a \in Fresh : row[a] # None => row[a].kek \in Keks
  BY Apart DEF Inv, TypeOK, RowType
<1>2. CASE NewKek
  <2> DEFINE e == [active |-> env.active + 1, previous |-> env.active, clean |-> FALSE]
  <2>1. e \in [active : Keks, previous : Keks \cup {None}, clean : BOOLEAN]
    BY <1>1, <1>2, KekAssumption DEF NewKek, Keks
  <2>2. \A a \in Fresh : row[a] # None => row[a].kek = env.active
    BY <1>1, <1>2, Apart DEF NewKek, Wrapped
  <2>3. Deploy(e)
    BY <1>2 DEF NewKek
  <2>4. QED BY <2>1, <2>2, <2>3, DeployInv
<1>3. CASE RetireKek
  <2> DEFINE e == [env EXCEPT !.previous = None]
  <2>1. e \in [active : Keks, previous : Keks \cup {None}, clean : BOOLEAN]
        /\ e.active = env.active
    BY <1>1
  <2>2. \A a \in Fresh : row[a] # None => row[a].kek = env.active
    BY <1>1, <1>3 DEF RetireKek, Wrapped
  <2>3. Deploy(e)
    BY <1>3 DEF RetireKek
  <2>4. QED BY <2>1, <2>2, <2>3, DeployInv
<1>4. QED BY <1>2, <1>3

(* What a call loads: no row of this code's making is stranded, and no     *)
(* user who has one is due for a migration.                                *)
LEMMA LoadInv ==
  ASSUME Inv, NEW c \in Calls,
         \/ LoadTreasury(c) \/ LoadRotate(c)
         \/ \E u \in Users : LoadCreate(c, u) \/ LoadReissue(c, u) \/ LoadMigrate(c, u)
  PROVE  Inv'
<1>1. TypeOK /\ Schemes /\ Wrapped /\ Loaded /\ Linked /\ OneOfEach
  BY DEF Inv
<1>2. CASE LoadTreasury(c)
  <2>1. [op |-> "treasury"] \in CallType
    BY DEF CallType
  <2>2. QED BY <1>2, <2>1, GoesOnInv DEF LoadTreasury, Begin
<1>3. CASE LoadRotate(c)
  <2> DEFINE r == [op |-> "rotate", seen |-> V2Rows]
  <2>1. V2Rows \subseteq Fresh /\ \A a \in Fresh : row[a] # None => a \in V2Rows
    BY <1>1, Apart DEF V2Rows, Rows, Schemes
  <2>2. r \in CallType /\ r.op = "rotate" /\ r.seen = V2Rows
    BY <2>1 DEF CallType
  <2>3. Begin(c, r)
    BY <1>3 DEF LoadRotate
  <2> HIDE DEF r
  <2>4. QED BY <2>1, <2>2, <2>3, GoesOnInv DEF Begin
<1>4. ASSUME NEW u \in Users, LoadCreate(c, u) PROVE Inv'
  <2>1. [op |-> "create", user |-> u] \in CallType
    BY DEF CallType
  <2>2. QED BY <1>4, <2>1, GoesOnInv DEF LoadCreate, Begin
<1>5. ASSUME NEW u \in Users, LoadReissue(c, u) PROVE Inv'
  <2> DEFINE r == [op |-> "reissue", user |-> u, seen |-> OwnRows(u)]
  <2>1. \A a \in OwnRows(u) : ~ Signs(row[a])
    BY <1>5 DEF LoadReissue, Stranded
  <2>2. OwnRows(u) \subseteq Old
    BY <1>1, <2>1, Apart DEF OwnRows, Rows, Schemes, Wrapped, Signs
  <2>3. r \in CallType /\ r.op = "reissue" /\ r.seen = OwnRows(u)
    BY <2>2 DEF CallType
  <2>4. Begin(c, r)
    BY <1>5 DEF LoadReissue
  <2> HIDE DEF r
  <2>5. QED BY <2>1, <2>3, <2>4, GoesOnInv DEF Begin
<1>6. ASSUME NEW u \in Users, LoadMigrate(c, u) PROVE Inv'
  <2> DEFINE found == Candidates(u, link[u])
             live  == {a \in found : row[a].active}
             r     == [op |-> "reconcile", user |-> u, at |-> link[u], seen |-> found, live |-> live]
  <2>1. link[u] # None /\ ~ Custodial(link[u], live) /\ Begin(c, r)
    BY <1>6 DEF LoadMigrate
  <2>2. link[u] \notin Fresh
    <3> SUFFICES ASSUME link[u] \in Fresh PROVE FALSE
      OBVIOUS
    <3>1. link[u] \in Rows /\ row[link[u]].owner = u
      BY <1>1, Apart DEF Linked, Rows
    <3>2. row[link[u]].active /\ row[link[u]].scheme = "v2" /\ ~ row[link[u]].treasury
      BY <1>1, <3>1, Apart DEF Schemes, Rows
    <3>3. QED BY <2>1, <3>1, <3>2 DEF Custodial, Candidates
  <2>3. link[u] \in Old /\ found \subseteq Addresses
    BY <1>1, <2>1, <2>2, Apart DEF TypeOK, Candidates, Rows
  <2>4. r \in CallType /\ r.op = "reconcile"
    BY <2>3 DEF CallType
  <2> HIDE DEF r
  <2>5. QED BY <2>1, <2>4, GoesOnInv DEF Begin
<1>7. QED BY <1>2, <1>3, <1>4, <1>5, <1>6

(* The second query may take a row made since the first for the old one,   *)
(* but only one of its user: the user's address was an old one.            *)
LEMMA ReloadMigrateInv == ASSUME Inv, NEW c \in Calls, ReloadMigrate(c) PROVE Inv'
<1> DEFINE k     == call[c]
           found == Candidates(k.user, k.at)
           live  == {a \in found : IF a \in k.seen THEN a \in k.live ELSE row[a].active}
<1>1. k.user \in Users /\ k.at \in Old /\ UNCHANGED <<env, row, link, told>>
  BY CallFields DEF Inv, ReloadMigrate
<1>2. CASE Custodial(k.at, live)
  BY <1>1, <1>2, FailInv DEF ReloadMigrate, Fail
<1>3. CASE ~ Custodial(k.at, live)
  <2>1. PICK old \in Taken(found, live) :
          call' = [call EXCEPT ![c] = [op |-> "migrate", user |-> k.user, old |-> old]]
    BY <1>3 DEF ReloadMigrate
  <2>2. old \in found \cup {None}
    BY DEF Taken
  <2>3. old \in Addresses \cup {None}
    BY <2>2 DEF Candidates, Rows
  <2>4. old \in Fresh => row[old] # None /\ row[old].owner \in {k.user, None}
    BY <1>1, <2>2, Apart DEF Candidates, Rows
  <2> DEFINE r == [op |-> "migrate", user |-> k.user, old |-> old]
  <2>5. r \in CallType /\ r.op = "migrate" /\ r.user = k.user /\ r.old = old
    BY <1>1, <2>3 DEF CallType
  <2>6. call' = [call EXCEPT ![c] = r]
    BY <2>1
  <2> HIDE DEF r
  <2>7. QED BY <1>1, <2>4, <2>5, <2>6, GoesOnInv
<1>4. QED BY <1>2, <1>3

LEMMA NextInv == Inv /\ [Next]_vars => Inv'
<1> SUFFICES ASSUME Inv, [Next]_vars PROVE Inv'
  OBVIOUS
<1>1. CASE NewKek \/ RetireKek
  BY <1>1, KeysInv
<1>2. ASSUME NEW a \in Addresses, FindTreasury(a) PROVE Inv'
  <2>1. UNCHANGED <<env, row, link, call>> /\ told' = told \cup {a} /\ a \in Treasury
    BY <1>2 DEF FindTreasury
  <2>2. TypeOK' /\ OneOfEach'
    BY <2>1 DEF Inv, TypeOK, OneOfEach, Treasury, Rows
  <2>3. Schemes' /\ Wrapped' /\ Linked'
    BY <2>1 DEF Inv, Schemes, Wrapped, Linked, OwnRows, Rows
  <2>4. Loaded'
    BY <2>1 DEF Inv, Loaded, Signs
  <2>5. QED BY <2>1, <2>2, <2>3, <2>4 DEF Inv
<1>3. ASSUME NEW c \in Calls,
             \/ LoadTreasury(c) \/ LoadRotate(c)
             \/ \E u \in Users : LoadCreate(c, u) \/ LoadReissue(c, u) \/ LoadMigrate(c, u)
      PROVE Inv'
  BY <1>3, LoadInv
<1>4. ASSUME NEW c \in Calls, CommitRotate(c) \/ ReloadMigrate(c) PROVE Inv'
  BY <1>4, CommitRotateInv, ReloadMigrateInv
<1>5. ASSUME NEW c \in Calls, NEW a \in Fresh,
             CommitCreate(c, a) \/ CommitTreasury(c, a) \/ CommitReissue(c, a) \/ CommitMigrate(c, a)
      PROVE Inv'
  BY <1>5, CommitCreateInv, CommitTreasuryInv, CommitReissueInv, CommitMigrateInv
<1>6. CASE UNCHANGED vars
  <2>1. UNCHANGED <<env, row, link, call, told>>
    BY <1>6 DEF vars
  <2>2. call' \in [Calls -> CallType] /\ \A c \in Calls : call'[c] \in {call[c], Idle}
    BY <2>1 DEF Inv
  <2>3. QED BY <2>1, <2>2, DropInv
<1>7. QED BY <1>1, <1>2, <1>3, <1>4, <1>5, <1>6 DEF Next

LEMMA InvImplies == Inv => TypeOK /\ EnvelopesOpen /\ OneWalletEach
<1> SUFFICES ASSUME Inv PROVE EnvelopesOpen /\ OneWalletEach
  BY DEF Inv
<1>1. TypeOK /\ Schemes /\ Wrapped /\ Linked /\ OneOfEach
  BY DEF Inv
<1>2. EnvelopesOpen
  BY <1>1, Apart DEF EnvelopesOpen, V2Rows, Rows, Schemes, Wrapped, Signs
<1>3. \A S : (\A a, b \in S : a = b) => Cardinality(S) <= 1
  <2> SUFFICES ASSUME NEW S, \A a, b \in S : a = b PROVE Cardinality(S) <= 1
    OBVIOUS
  <2>1. CASE S = {}
    BY <2>1, FS_EmptySet
  <2>2. ASSUME NEW a \in S PROVE Cardinality(S) <= 1
    <3>1. S = {a}
      OBVIOUS
    <3>2. QED BY <3>1, FS_Singleton
  <2>3. QED BY <2>1, <2>2
<1>4. AddressIsOwn
  <2>1. \A u \in Users : Cardinality(OwnRows(u)) <= 1
    BY <1>1, <1>3 DEF Linked
  <2>2. \A u \in Users : link[u] \in Fresh => OwnRows(u) = {link[u]} /\ row[link[u]].active
    <3> SUFFICES ASSUME NEW u \in Users, link[u] \in Fresh
                 PROVE  OwnRows(u) = {link[u]} /\ row[link[u]].active
      OBVIOUS
    <3>1. link[u] \in OwnRows(u) /\ row[link[u]].active
      BY <1>1, Apart DEF Linked, OwnRows, Rows, Schemes
    <3>2. QED BY <1>1, <3>1 DEF Linked
  <2>3. QED BY <2>1, <2>2 DEF AddressIsOwn
<1>5. OneTreasury
  BY <1>1, <1>3 DEF OneOfEach, OneTreasury
<1>6. QED BY <1>2, <1>4, <1>5 DEF OneWalletEach

(* Inv is an inductive invariant of the specification.                     *)
LEMMA Invariance == Spec => []Inv
BY InitInv, NextInv, PTL DEF Spec

(* Every table keeps its type.                                             *)
THEOREM TypeCorrectness == Spec => []TypeOK
BY Invariance, InvImplies, PTL

(* rotate_wallet_keys loses no wallet that this code has made: its key     *)
(* opens at every moment, whatever is created, replaced or deleted while   *)
(* the rotation runs, and once the previous master key is gone.            *)
THEOREM EnvelopesStayOpen == Spec => []EnvelopesOpen
BY Invariance, InvImplies, PTL

(* The unique user_id and the partial unique index give every user one     *)
(* wallet, the one the user's address names, and the platform one          *)
(* treasury, however the programs that make them overlap.                  *)
THEOREM WalletsAreUnique == Spec => []OneWalletEach
BY Invariance, InvImplies, PTL

(* A reissue deletes only rows that cannot sign, although it looked at     *)
(* them before it asked the chain.                                         *)
THEOREM WalletsThatSignStay == Spec => SignableWalletsStay
<1>1. Inv /\ [Next]_vars => [\A a \in Rows : Signs(row[a]) => row'[a] # None]_vars
  <2> SUFFICES ASSUME Inv, Next, NEW a \in Rows, Signs(row[a]) PROVE row'[a] # None
    BY DEF vars
  <2>1. row[a] # None /\ a \in Addresses /\ TypeOK /\ Loaded
    BY DEF Inv, Rows
  <2>2. CASE row' = row
    BY <2>1, <2>2
  <2>3. ASSUME NEW c \in Calls, NEW f \in Fresh,
               CommitCreate(c, f) \/ CommitTreasury(c, f) \/ CommitMigrate(c, f) \/ CommitReissue(c, f)
        PROVE  row'[a] # None
    <3>1. row[f] = None /\ a # f
      BY <2>1, <2>3 DEF CommitCreate, CommitTreasury, CommitMigrate, CommitReissue
    <3>2. CASE CommitCreate(c, f) \/ CommitTreasury(c, f)
      BY <2>1, <3>1, <3>2 DEF CommitCreate, CommitTreasury, Fail, TypeOK
    <3>3. CASE CommitMigrate(c, f)
      <4>1. row'[a] = row[a] \/ row'[a] = [row[a] EXCEPT !.owner = None, !.active = FALSE]
        BY <2>1, <3>1, <3>3 DEF CommitMigrate, Fail
      <4>2. [row[a] EXCEPT !.owner = None, !.active = FALSE] \in RowType
        BY <2>1 DEF TypeOK, RowType
      <4>3. QED BY <2>1, <4>1, <4>2, KekAssumption
    <3>4. CASE CommitReissue(c, f)
      <4>1. call[c].op = "reissue" /\ a \notin call[c].seen
        BY <2>1, <3>4 DEF CommitReissue, Loaded
      <4>2. QED BY <2>1, <3>1, <3>4, <4>1 DEF CommitReissue, Fail
    <3>5. QED BY <2>3, <3>2, <3>3, <3>4
  <2>4. ASSUME NEW c \in Calls, CommitRotate(c) PROVE row'[a] # None
    <3>1. row[a] \in RowType /\ env.active \in Keks
      BY <2>1 DEF TypeOK
    <3>2. row'[a] = row[a] \/ row'[a] = Rewrap(row[a])
      BY <2>1, <2>4 DEF CommitRotate, Fail
    <3>3. Rewrap(row[a]) \in RowType
      BY <3>1 DEF Rewrap, RowType
    <3>4. QED BY <2>1, <3>2, <3>3, KekAssumption
  <2>5. QED
    BY <2>2, <2>3, <2>4 DEF Next, NewKek, RetireKek, Deploy, FindTreasury, Begin,
       LoadTreasury, LoadRotate, LoadCreate, LoadReissue, LoadMigrate, ReloadMigrate
<1>2. QED BY <1>1, Invariance, PTL DEF Spec, SignableWalletsStay

----------------------------------------------------------------------------

Sending(p) == pc[p] \in {"post", "accepted"}

(* What a pass knows while it waits for the provider: the row as it loaded *)
(* it is there or not as it was then, and if not, the row is the pass's.   *)
PassesOK ==
  /\ \A p \in Passes : Sending(p) =>
       /\ pass[p].at \in Recipients
       /\ \A r \in pass[p].todo : r > pass[p].at
       /\ pass[p].seen = "none" <=> delivery[pass[p].at] = "none"
       /\ pc[p] = "accepted" => briefs[pass[p].at] > 0
  /\ \A p, q \in Passes :
       Sending(p) /\ Sending(q) /\ pass[p].at = pass[q].at /\ pass[p].seen = "none" => p = q
  /\ \A r \in Recipients : delivery[r] = "sent" => briefs[r] > 0

(* The loop has had its brief for r, and will not send it another one.     *)
Charged(r) ==
  \/ pc[loop] = "accepted" /\ pass[loop].at = r
  \/ delivery[r] = "sent" /\ ~ (pc[loop] = "post" /\ pass[loop].at = r)

(* Requests that have come, and those of them that may yet send r a brief  *)
Ahead(m, r) == (pc[m] = "post" /\ pass[m].at = r) \/ (Sending(m) /\ r \in pass[m].todo)
Past(r)     == {m \in Manual : pc[m] # "idle" /\ ~ Ahead(m, r)}

BriefsOK ==
  \A r \in Recipients :
    briefs[r] <= (IF Charged(r) THEN 1 ELSE 0) + faults + Cardinality(Past(r))

(* A thread's locals *)
ThreadType ==
  [kind : Campaigns \cup {"none"}, todo : SUBSET Recipients, at : Recipients \cup {Null},
   done : SUBSET Recipients, consent : SUBSET Recipients]

(* A thread mails who had consent, is on the list, and comes next; what it *)
(* has done, the provider has accepted.                                    *)
ThreadsOK ==
  /\ thread \in [Threads -> ThreadType]
  /\ \A t \in Threads : Mailing(t) =>
       LET x == thread[t] IN
       /\ x.kind \in Campaigns /\ x.at \in Recipients
       /\ x.todo \cup {x.at} \subseteq x.consent
       /\ x.todo \cup {x.at} \cup x.done \subseteq waiting
       /\ \A r \in x.todo : r > x.at
       /\ \A r \in x.done : mails[x.kind][r] > 0
       /\ tc[t] = "accepted" => mails[x.kind][x.at] > 0
  /\ \A k \in Campaigns : /\ logged[k] \subseteq waiting
                          /\ \A r \in logged[k] : mails[k][r] > 0

(* The threads that are about to mail k to r, and whether one has done it  *)
Due(k, r) ==
  {t \in Threads : /\ Mailing(t) /\ thread[t].kind = k
                   /\ \/ tc[t] = "post" /\ thread[t].at = r
                      \/ r \in thread[t].todo \ logged[k]}
Settled(k, r) ==
  \/ r \in logged[k]
  \/ \E t \in Threads : /\ Mailing(t) /\ thread[t].kind = k
                        /\ r \in thread[t].done \/ (tc[t] = "accepted" /\ thread[t].at = r)

MailsOK ==
  \A k \in Campaigns, r \in Recipients :
    mails[k][r] + Cardinality(Due(k, r))
      <= faults + overlaps + (IF Settled(k, r) \/ Due(k, r) # {} THEN 1 ELSE 0)

MailingsInv == MailingsTypeOK /\ PassesOK /\ BriefsOK /\ ThreadsOK /\ MailsOK

----------------------------------------------------------------------------

NatOrder == {xy \in Nat \X Nat : xy[1] < xy[2]}

LEMMA LeastIs ==
  ASSUME NEW S \in SUBSET Nat, S # {}
  PROVE  Min(S) \in S /\ \A y \in S : Min(S) <= y
<1>1. IsWellFoundedOn(NatOrder, Nat)
  BY NatLessThanWellFounded DEF OpToRel, NatOrder
<1>2. PICK x \in S : \A y \in S : ~ (<<y, x>> \in NatOrder)
  BY <1>1, WFMin
<1>3. \A y \in S : x <= y
  <2> SUFFICES ASSUME NEW y \in S PROVE ~ (y < x)
    OBVIOUS
  <2>1. y < x => <<y, x>> \in NatOrder
    BY DEF NatOrder
  <2> QED BY <1>2, <2>1
<1> QED BY <1>3 DEF Min

(* Cardinalities of the requests and threads that count *)
LEMMA CountsAre ==
  /\ \A S \in SUBSET Manual : IsFiniteSet(S) /\ Cardinality(S) \in Nat
  /\ \A S \in SUBSET Threads : IsFiniteSet(S) /\ Cardinality(S) \in Nat
  /\ \A S \in SUBSET Manual : \A T \in SUBSET S : Cardinality(T) <= Cardinality(S)
  /\ \A S \in SUBSET Threads : \A T \in SUBSET S : Cardinality(T) <= Cardinality(S)
<1>1. IsFiniteSet(Manual) /\ IsFiniteSet(Threads)
  BY FiniteAssumption
<1> QED BY <1>1, FS_Subset, FS_CardinalityType

LEMMA OneMore ==
  ASSUME NEW S, NEW x, IsFiniteSet(S), Cardinality(S) \in Nat, x \notin S
  PROVE  Cardinality(S \cup {x}) = Cardinality(S) + 1
BY FS_AddElement

(* A pass goes on to its next recipient, or rests. *)
GoesTo(p, rest, D, r) ==
  /\ D[r] # "sent"
  /\ pass' = [pass EXCEPT ![p] = [todo |-> {q \in rest : q > r}, at |-> r,
                                  seen |-> D[r], known |-> FALSE]]
  /\ frozen' \in BOOLEAN
  /\ \E stage \in {"post", "blocked"} :
       /\ pc' = [pc EXCEPT ![p] = stage]
       /\ stage = "post" => D[r] # "none" \/ Inserting(p, r) = {}

LEMMA ContinueIs ==
  ASSUME NEW p \in Passes, NEW rest \in SUBSET Recipients, NEW D, Continue(p, rest, D)
  PROVE  Rest(p) \/ \E r \in rest : GoesTo(p, rest, D, r)
<1> DEFINE open == {r \in rest : ~ Delivered(D, r)}
           n == Min(open)
<1>1. CASE open = {}
  BY <1>1 DEF Continue
<1>2. CASE open # {}
  <2>1. open \in SUBSET Nat
    BY RecipientsAssumption
  <2>2. n \in rest /\ D[n] # "sent"
    BY <1>2, <2>1, LeastIs DEF Delivered
  <2> HIDE DEF n
  <2>3. /\ pass' = [pass EXCEPT ![p] = [todo |-> {q \in rest : q > n}, at |-> n,
                                        seen |-> D[n], known |-> FALSE]]
        /\ frozen' = (D[n] = "none" /\ Inserting(p, n) # {})
        /\ Goto(p, IF frozen' THEN "blocked" ELSE "post")
    BY <1>2 DEF Continue, n
  <2>4. PICK stage \in {"post", "blocked"} : /\ stage = IF frozen' THEN "blocked" ELSE "post"
                                             /\ pc' = [pc EXCEPT ![p] = stage]
    BY <2>3 DEF Goto
  <2>5. frozen' \in BOOLEAN
    BY <2>3
  <2>6. stage = "post" => D[n] # "none" \/ Inserting(p, n) = {}
    BY <2>3, <2>4
  <2> QED BY <2>2, <2>3, <2>4, <2>5, <2>6 DEF GoesTo
<1> QED BY <1>1, <1>2

----------------------------------------------------------------------------
(* Steps of the other half of the system, and steps that do not mail *)

LEMMA PassesUnmoved ==
  ASSUME MailingsInv, UNCHANGED <<delivery, pc, pass, briefs>>,
         faults' \in {faults, faults + 1}
  PROVE  PassesOK' /\ BriefsOK'
<1>1. PassesOK'
  BY DEF MailingsInv, PassesOK, Sending
<1>2. \A r : Past(r)' = Past(r) /\ Charged(r)' = Charged(r)
  BY DEF Past, Ahead, Sending, Charged
<1>3. \A r \in Recipients : Cardinality(Past(r)) \in Nat /\ briefs[r] \in Nat
  <2>1. \A r : Past(r) \in SUBSET Manual
    BY DEF Past
  <2> QED BY <2>1, CountsAre DEF MailingsInv, MailingsTypeOK
<1>4. BriefsOK'
  <2> SUFFICES ASSUME NEW r \in Recipients
               PROVE  briefs[r] <= (IF Charged(r) THEN 1 ELSE 0) + faults' + Cardinality(Past(r))
    BY <1>2 DEF BriefsOK
  <2>1. faults \in Nat /\ faults <= faults'
    BY DEF MailingsInv, MailingsTypeOK
  <2> QED BY <1>3, <2>1 DEF MailingsInv, BriefsOK
<1> QED BY <1>1, <1>4

LEMMA ThreadsUnmoved ==
  ASSUME MailingsInv, UNCHANGED <<waiting, logged, tc, thread, mails, overlaps>>,
         faults' \in {faults, faults + 1}
  PROVE  ThreadsOK' /\ MailsOK'
<1>1. ThreadsOK'
  BY DEF MailingsInv, ThreadsOK, Mailing, ThreadType
<1>2. \A k, r : Due(k, r)' = Due(k, r) /\ Settled(k, r)' = Settled(k, r)
  BY DEF Due, Settled, Mailing
<1>3. \A k \in Campaigns, r \in Recipients : Cardinality(Due(k, r)) \in Nat /\ mails[k][r] \in Nat
  <2>1. \A k, r : Due(k, r) \in SUBSET Threads
    BY DEF Due
  <2> QED BY <2>1, CountsAre DEF MailingsInv, MailingsTypeOK
<1>4. MailsOK'
  <2> SUFFICES ASSUME NEW k \in Campaigns, NEW r \in Recipients
               PROVE  mails[k][r] + Cardinality(Due(k, r))
                        <= faults' + overlaps + (IF Settled(k, r) \/ Due(k, r) # {} THEN 1 ELSE 0)
    BY <1>2 DEF MailsOK
  <2>1. faults \in Nat /\ faults <= faults' /\ overlaps \in Nat
    BY DEF MailingsInv, MailingsTypeOK
  <2>2. mails[k][r] + Cardinality(Due(k, r))
          <= faults + overlaps + (IF Settled(k, r) \/ Due(k, r) # {} THEN 1 ELSE 0)
    BY DEF MailingsInv, MailsOK
  <2> QED BY <1>3, <2>1, <2>2
<1> QED BY <1>1, <1>4

(* A pass that neither mails nor begins to, and has come once it is not idle *)
LEMMA StaysQuiet ==
  ASSUME MailingsInv, NEW p \in Passes, ~ Sending(p),
         NEW stage \in {"idle", "script", "voice", "done"}, p # loop => stage # "idle",
         pc' = [pc EXCEPT ![p] = stage],
         \A q \in Passes \ {p} : pass'[q] = pass[q],
         UNCHANGED <<delivery, briefs, faults>>
  PROVE  PassesOK' /\ BriefsOK'
<1>1. \A q \in Passes : pc'[q] = (IF q = p THEN stage ELSE pc[q])
  BY DEF MailingsInv, MailingsTypeOK
<1>2. \A q \in Passes : Sending(q)' => Sending(q) /\ q # p /\ pass'[q] = pass[q] /\ pc'[q] = pc[q]
  BY <1>1 DEF Sending
<1>3. PassesOK'
  BY <1>2 DEF MailingsInv, PassesOK
<1>4. \A r : Past(r) \subseteq Past(r)' /\ Past(r)' \in SUBSET Manual
  <2>1. Manual \subseteq Passes /\ loop \in Passes /\ loop \notin Manual
    BY CallsAssumption DEF Passes
  <2> SUFFICES ASSUME NEW r, NEW m \in Past(r) PROVE m \in Past(r)'
    BY DEF Past
  <2>2. m \in Passes /\ m \in Manual /\ pc[m] # "idle" /\ m # loop /\ ~ Ahead(m, r)
    BY <2>1 DEF Past
  <2>3. pc'[m] # "idle"
    BY <1>1, <2>2
  <2>4. ~ Ahead(m, r)'
    BY <1>1, <1>2, <2>2 DEF Ahead, Sending
  <2> QED BY <2>2, <2>3, <2>4 DEF Past
<1>5. \A r : Charged(r)' = Charged(r)
  <2>1. loop \in Passes
    BY DEF Passes
  <2>2. CASE loop = p
    BY <1>1, <2>1, <2>2 DEF Charged, Sending
  <2>3. CASE loop # p
    BY <1>1, <2>1, <2>3 DEF Charged
  <2> QED BY <2>2, <2>3
<1>6. BriefsOK'
  <2> SUFFICES ASSUME NEW r \in Recipients
               PROVE  briefs[r] <= (IF Charged(r)' THEN 1 ELSE 0) + faults + Cardinality(Past(r)')
    BY DEF BriefsOK
  <2>1. Cardinality(Past(r)) \in Nat /\ Cardinality(Past(r)') \in Nat /\ Cardinality(Past(r)) <= Cardinality(Past(r)')
    BY <1>4, CountsAre
  <2>2. briefs[r] <= (IF Charged(r) THEN 1 ELSE 0) + faults + Cardinality(Past(r))
    BY DEF MailingsInv, BriefsOK
  <2> QED BY <1>5, <2>1, <2>2 DEF MailingsInv, MailingsTypeOK
<1> QED BY <1>3, <1>6

----------------------------------------------------------------------------
(* A pass goes on: it starts to deliver, or has heard of a brief *)

LEMMA MovesOn ==
  ASSUME MailingsInv, NEW p \in Passes, NEW rest \in SUBSET Recipients,
         Continue(p, rest, delivery'), briefs' = briefs, faults' \in {faults, faults + 1},
         delivery' \in [Recipients -> {"none", "sent", "failed"}],
         \A r \in Recipients : /\ delivery[r] = "sent" => delivery'[r] = "sent"
                               /\ delivery'[r] = "sent" => briefs[r] > 0,
         \A q \in Passes \ {p} : Sending(q) =>
           (delivery'[pass[q].at] = "none" <=> delivery[pass[q].at] = "none"),
         \A r \in rest : p # loop /\ pc[p] # "idle" => Ahead(p, r),
         p = loop /\ pc[loop] = "accepted" =>
           delivery'[pass[loop].at] = "sent" \/ faults' = faults + 1
  PROVE  /\ PassesOK' /\ BriefsOK'
         /\ pc' \in [Passes -> {"idle", "script", "voice", "post", "accepted", "blocked", "done"}]
         /\ pass' \in [Passes -> [todo : SUBSET Recipients, at : Recipients \cup {Null},
                                  seen : {"none", "failed"}, known : BOOLEAN]]
         /\ frozen' \in BOOLEAN
<1> DEFINE Stages == {"idle", "script", "voice", "post", "accepted", "blocked", "done"}
           Locals == [todo : SUBSET Recipients, at : Recipients \cup {Null},
                      seen : {"none", "failed"}, known : BOOLEAN]
<1>1. pc \in [Passes -> Stages] /\ pass \in [Passes -> Locals] /\ frozen \in BOOLEAN
      /\ briefs \in [Recipients -> Nat] /\ faults \in Nat
  BY DEF MailingsInv, MailingsTypeOK
<1>2. Manual \subseteq Passes /\ loop \in Passes /\ loop \notin Manual /\ Null \notin Recipients
      /\ Recipients \subseteq Nat
  BY CallsAssumption, RecipientsAssumption DEF Passes
(* The pass rests, or one more recipient is looked at. *)
<1>3. PICK stage \in {"idle", "done", "post", "blocked"}, x \in Locals :
        /\ pc' = [pc EXCEPT ![p] = stage] /\ pass' = [pass EXCEPT ![p] = x]
        /\ frozen' \in BOOLEAN
        /\ stage = "idle" => p = loop
        /\ stage = "post" => /\ x.at \in rest /\ x.todo = {q \in rest : q > x.at}
                             /\ x.seen = delivery'[x.at] /\ x.seen # "sent"
                             /\ x.seen # "none" \/ Inserting(p, x.at) = {}
  <2>1. CASE Rest(p)
    <3> DEFINE x == NoPass
               stage == IF p = loop THEN "idle" ELSE "done"
    <3>1. pc' = [pc EXCEPT ![p] = stage] /\ pass' = [pass EXCEPT ![p] = x] /\ frozen' = frozen
      BY <2>1 DEF Rest, Goto
    <3>2. x \in Locals /\ stage \in {"idle", "done"} /\ (stage = "idle" => p = loop)
      BY DEF NoPass
    <3> QED BY <1>1, <3>1, <3>2
  <2>2. CASE ~ Rest(p)
    <3>1. PICK r \in rest : GoesTo(p, rest, delivery', r)
      <4>1. PICK D : D = delivery'
        OBVIOUS
      <4>2. Continue(p, rest, D)
        BY <4>1
      <4> QED BY <2>2, <4>1, <4>2, ContinueIs
    <3>2. PICK stage \in {"post", "blocked"} :
            /\ pc' = [pc EXCEPT ![p] = stage]
            /\ stage = "post" => delivery'[r] # "none" \/ Inserting(p, r) = {}
      BY <3>1 DEF GoesTo
    <3>3. PICK x : /\ x = [todo |-> {q \in rest : q > r}, at |-> r, seen |-> delivery'[r], known |-> FALSE]
                   /\ pass' = [pass EXCEPT ![p] = x]
      BY <3>1 DEF GoesTo
    <3>4. x \in Locals /\ x.at = r /\ x.todo = {q \in rest : q > r} /\ x.seen = delivery'[r]
      <4>1. delivery'[r] \in {"none", "failed"}
        BY <3>1 DEF GoesTo
      <4>2. {q \in rest : q > r} \subseteq Recipients
        OBVIOUS
      <4> QED BY <3>3, <4>1, <4>2
    <3> QED BY <3>1, <3>2, <3>3, <3>4 DEF GoesTo
  <2> QED BY <2>1, <2>2
<1>4. /\ pc' \in [Passes -> Stages] /\ pass' \in [Passes -> Locals]
      /\ \A q \in Passes : /\ pc'[q] = (IF q = p THEN stage ELSE pc[q])
                           /\ pass'[q] = (IF q = p THEN x ELSE pass[q])
  BY <1>1, <1>3
<1>5. \A q \in Passes : Sending(q)' <=> (IF q = p THEN stage = "post" ELSE Sending(q))
  BY <1>3, <1>4 DEF Sending
<1>6. \A q \in Passes : Sending(q)' =>
        /\ pass'[q].at \in Recipients
        /\ \A r \in pass'[q].todo : r > pass'[q].at
        /\ pass'[q].seen = "none" <=> delivery'[pass'[q].at] = "none"
        /\ pc'[q] = "accepted" => briefs[pass'[q].at] > 0
  <2> SUFFICES ASSUME NEW q \in Passes, Sending(q)'
               PROVE  /\ pass'[q].at \in Recipients
                      /\ \A r \in pass'[q].todo : r > pass'[q].at
                      /\ pass'[q].seen = "none" <=> delivery'[pass'[q].at] = "none"
                      /\ pc'[q] = "accepted" => briefs[pass'[q].at] > 0
    OBVIOUS
  <2>1. CASE q = p
    BY <1>3, <1>4, <1>5, <2>1
  <2>2. CASE q # p
    <3>1. Sending(q) /\ pass'[q] = pass[q] /\ pc'[q] = pc[q]
      BY <1>4, <1>5, <2>2
    <3> QED BY <2>2, <3>1 DEF MailingsInv, PassesOK
  <2> QED BY <2>1, <2>2
(* Nobody else inserts the row this pass would insert. *)
<1>7. ASSUME NEW q \in Passes \ {p}, Sending(q), stage = "post", x.at = pass[q].at,
             x.seen = "none" \/ pass[q].seen = "none"
      PROVE  FALSE
  <2>1. delivery'[x.at] = "none" <=> delivery[x.at] = "none"
    BY <1>7
  <2>2. x.seen = "none" <=> delivery'[x.at] = "none"
    BY <1>3, <1>7
  <2>3. pass[q].seen = "none" <=> delivery[x.at] = "none"
    BY <1>7 DEF MailingsInv, PassesOK
  <2>4. q \in Inserting(p, x.at)
    BY <1>7, <2>1, <2>2, <2>3 DEF Inserting, Sending
  <2> QED BY <1>3, <1>7, <2>1, <2>2, <2>3, <2>4
<1>8. \A q, s \in Passes :
        Sending(q)' /\ Sending(s)' /\ pass'[q].at = pass'[s].at /\ pass'[q].seen = "none" => q = s
  <2> SUFFICES ASSUME NEW q \in Passes, NEW s \in Passes, Sending(q)', Sending(s)',
                      pass'[q].at = pass'[s].at, pass'[q].seen = "none", q # s
               PROVE  FALSE
    OBVIOUS
  <2>1. CASE q # p /\ s # p
    BY <1>4, <1>5, <2>1 DEF MailingsInv, PassesOK
  <2>2. CASE q = p
    <3>1. Sending(s) /\ pass'[s] = pass[s] /\ pass'[q] = x /\ stage = "post"
      BY <1>4, <1>5, <2>2
    <3> QED BY <1>7, <2>2, <3>1
  <2>3. CASE s = p
    <3>1. Sending(q) /\ pass'[q] = pass[q] /\ pass'[s] = x /\ stage = "post"
      BY <1>4, <1>5, <2>3
    <3> QED BY <1>7, <2>3, <3>1
  <2> QED BY <2>1, <2>2, <2>3
<1>9. PassesOK'
  BY <1>6, <1>8 DEF PassesOK
<1>10. ASSUME NEW r \in Recipients
       PROVE  Past(r) \subseteq Past(r)' /\ Past(r)' \in SUBSET Manual
  <2>1. Past(r)' \in SUBSET Manual
    BY DEF Past
  <2> SUFFICES ASSUME NEW m \in Past(r) PROVE m \in Past(r)'
    BY <2>1
  <2>2. m \in Manual /\ m \in Passes /\ m # loop /\ pc[m] # "idle" /\ ~ Ahead(m, r)
    BY <1>2 DEF Past
  <2>3. CASE m # p
    BY <1>4, <2>2, <2>3 DEF Past, Ahead, Sending
  <2>4. CASE m = p
    <3>1. r \notin rest
      BY <2>2, <2>4
    <3>2. pc'[m] = stage /\ pass'[m] = x /\ stage # "idle"
      BY <1>3, <1>4, <2>2, <2>4
    <3>3. ~ Ahead(m, r)'
      BY <1>3, <3>1, <3>2 DEF Ahead, Sending
    <3> QED BY <2>2, <3>2, <3>3 DEF Past
  <2> QED BY <2>3, <2>4
<1>11. ASSUME NEW r \in Recipients, Charged(r)
       PROVE  Charged(r)' \/ faults' = faults + 1
  <2>1. CASE delivery'[r] = "sent"
    <3>1. CASE p = loop
      <4>1. ~ (pc'[loop] = "post" /\ pass'[loop].at = r)
        BY <1>3, <1>4, <2>1, <3>1
      <4> QED BY <2>1, <4>1 DEF Charged
    <3>2. CASE p # loop
      <4>1. pc'[loop] = pc[loop] /\ pass'[loop] = pass[loop]
        BY <1>2, <1>4, <3>2
      <4> QED BY <1>11, <2>1, <4>1 DEF Charged
    <3> QED BY <3>1, <3>2
  <2>2. CASE delivery'[r] # "sent"
    <3>1. pc[loop] = "accepted" /\ pass[loop].at = r
      BY <1>11, <2>2 DEF Charged
    <3>2. p = loop => faults' = faults + 1
      BY <2>2, <3>1
    <3>3. p # loop => pc'[loop] = pc[loop] /\ pass'[loop] = pass[loop]
      BY <1>2, <1>4
    <3> QED BY <3>1, <3>2, <3>3 DEF Charged
  <2> QED BY <2>1, <2>2
<1>12. BriefsOK'
  <2> SUFFICES ASSUME NEW r \in Recipients
               PROVE  briefs[r] <= (IF Charged(r)' THEN 1 ELSE 0) + faults' + Cardinality(Past(r)')
    BY DEF BriefsOK
  <2>1. Cardinality(Past(r)) \in Nat /\ Cardinality(Past(r)') \in Nat /\ Cardinality(Past(r)) <= Cardinality(Past(r)')
    <3>1. Past(r) \in SUBSET Past(r)' /\ Past(r)' \in SUBSET Manual
      BY <1>10
    <3> QED BY <3>1, CountsAre
  <2>2. briefs[r] <= (IF Charged(r) THEN 1 ELSE 0) + faults + Cardinality(Past(r))
    BY DEF MailingsInv, BriefsOK
  <2> QED BY <1>1, <1>11, <2>1, <2>2
<1> QED BY <1>3, <1>4, <1>9, <1>12

LEMMA PassTypes ==
  ASSUME MailingsInv
  PROVE  /\ pass \in [Passes -> [todo : SUBSET Recipients, at : Recipients \cup {Null},
                                 seen : {"none", "failed"}, known : BOOLEAN]]
         /\ \A p \in Passes : /\ pass[p].todo \subseteq Recipients
                              /\ pass[p].seen \in {"none", "failed"}
         /\ delivery \in [Recipients -> {"none", "sent", "failed"}]
         /\ briefs \in [Recipients -> Nat] /\ faults \in Nat
         /\ NoPass \in [todo : SUBSET Recipients, at : Recipients \cup {Null},
                        seen : {"none", "failed"}, known : BOOLEAN]
<1>1. /\ pass \in [Passes -> [todo : SUBSET Recipients, at : Recipients \cup {Null},
                              seen : {"none", "failed"}, known : BOOLEAN]]
      /\ delivery \in [Recipients -> {"none", "sent", "failed"}]
      /\ briefs \in [Recipients -> Nat] /\ faults \in Nat
  BY DEF MailingsInv, MailingsTypeOK
<1>2. NoPass \in [todo : SUBSET Recipients, at : Recipients \cup {Null},
                  seen : {"none", "failed"}, known : BOOLEAN]
  BY DEF NoPass
<1> QED BY <1>1, <1>2

LEMMA GenerateHolds ==
  ASSUME MailingsInv, NEW p \in Passes, NEW force \in BOOLEAN, Generate(p, force)
  PROVE  MailingsInv'
<1>1. PICK x : x = [pass[p] EXCEPT !.known = episode]
  OBVIOUS
<1>2. /\ pc[p] = "idle" /\ pc' = [pc EXCEPT ![p] = "script"] /\ pass' = [pass EXCEPT ![p] = x]
      /\ UNCHANGED <<episode, over, delivery, waiting, optin, logged, frozen, tc, thread, briefs, mails, overlaps, faults>>
  BY <1>1 DEF Generate, Goto, waitlist, threads, history
<1>3. x \in [todo : SUBSET Recipients, at : Recipients \cup {Null},
             seen : {"none", "failed"}, known : BOOLEAN]
  BY <1>1, PassTypes DEF MailingsInv, MailingsTypeOK
<1>4. PassesOK' /\ BriefsOK'
  BY <1>2, PassTypes, StaysQuiet DEF Sending
<1>5. ThreadsOK' /\ MailsOK'
  BY <1>2, ThreadsUnmoved
<1>6. MailingsTypeOK'
  BY <1>2, <1>3, PassTypes DEF MailingsInv, MailingsTypeOK, Mailing
<1> QED BY <1>4, <1>5, <1>6 DEF MailingsInv

LEMMA RestingHolds ==
  ASSUME MailingsInv, NEW p \in Passes, GenerateFails(p) \/ Generated(p)
  PROVE  MailingsInv'
<1>1. PICK x, stage : /\ x = NoPass /\ stage = IF p = loop THEN "idle" ELSE "done"
  OBVIOUS
<1>2. /\ ~ Sending(p) /\ pc' = [pc EXCEPT ![p] = stage] /\ pass' = [pass EXCEPT ![p] = x]
      /\ UNCHANGED <<episode, over, delivery, waiting, optin, logged, frozen, tc, thread, briefs, mails, overlaps, faults>>
  BY <1>1 DEF GenerateFails, Generated, Rest, Goto, waitlist, threads, history, Sending
<1>3. x \in [todo : SUBSET Recipients, at : Recipients \cup {Null},
             seen : {"none", "failed"}, known : BOOLEAN]
  BY <1>1, PassTypes
<1>4. PassesOK' /\ BriefsOK'
  BY <1>1, <1>2, PassTypes, StaysQuiet
<1>5. ThreadsOK' /\ MailsOK'
  BY <1>2, ThreadsUnmoved
<1>6. MailingsTypeOK'
  BY <1>1, <1>2, <1>3, PassTypes DEF MailingsInv, MailingsTypeOK, Mailing
<1> QED BY <1>4, <1>5, <1>6 DEF MailingsInv

LEMMA PublishHolds ==
  ASSUME MailingsInv, NEW p \in Passes, Publish(p)
  PROVE  MailingsInv'
<1>1. /\ pc[p] = "script" /\ pc' = [pc EXCEPT ![p] = "voice"] /\ episode' = TRUE
      /\ UNCHANGED <<over, delivery, waiting, optin, logged, pass, frozen, tc, thread, briefs, mails, overlaps, faults>>
  BY DEF Publish, Goto, waitlist, threads, history
<1>2. PassesOK' /\ BriefsOK'
  BY <1>1, StaysQuiet DEF Sending
<1>3. ThreadsOK' /\ MailsOK'
  BY <1>1, ThreadsUnmoved
<1>4. MailingsTypeOK'
  BY <1>1 DEF MailingsInv, MailingsTypeOK, Mailing
<1> QED BY <1>2, <1>3, <1>4 DEF MailingsInv

LEMMA SendHolds ==
  ASSUME MailingsInv, NEW p \in Passes, Send(p)
  PROVE  MailingsInv'
<1>1. /\ pc[p] \in {"voice", "idle"} /\ (p # loop => pc[p] = "idle")
      /\ Continue(p, Subscribers, delivery) /\ delivery' = delivery
      /\ UNCHANGED <<episode, over, waiting, optin, logged, tc, thread, briefs, mails, overlaps, faults>>
  BY DEF Send, Newest, waitlist, threads, history
<1>2. PICK rest \in SUBSET Recipients : rest = Subscribers
  BY RecipientsAssumption DEF Subscribers, MailingsInv, MailingsTypeOK
<1>3. Continue(p, rest, delivery')
  BY <1>1, <1>2
<1>4. /\ PassesOK' /\ BriefsOK'
      /\ pc' \in [Passes -> {"idle", "script", "voice", "post", "accepted", "blocked", "done"}]
      /\ pass' \in [Passes -> [todo : SUBSET Recipients, at : Recipients \cup {Null},
                               seen : {"none", "failed"}, known : BOOLEAN]]
      /\ frozen' \in BOOLEAN
  <2>1. \A r \in Recipients : delivery[r] = "sent" => briefs[r] > 0
    BY DEF MailingsInv, PassesOK
  <2> QED BY <1>1, <1>3, <2>1, PassTypes, MovesOn
<1>5. ThreadsOK' /\ MailsOK'
  BY <1>1, ThreadsUnmoved
<1>6. MailingsTypeOK'
  BY <1>1, <1>4 DEF MailingsInv, MailingsTypeOK, Mailing
<1> QED BY <1>4, <1>5, <1>6 DEF MailingsInv

(* The brief that is accepted is the loop's only one, or a request's.      *)
LEMMA AcceptHolds ==
  ASSUME MailingsInv, NEW p \in Passes, Accept(p)
  PROVE  MailingsInv'
<1>1. PICK a : a = pass[p].at
  OBVIOUS
<1>2. /\ pc[p] = "post" /\ pc' = [pc EXCEPT ![p] = "accepted"]
      /\ briefs' = [briefs EXCEPT ![a] = @ + 1]
      /\ UNCHANGED <<episode, over, delivery, waiting, optin, logged, pass, frozen, tc, thread, mails, overlaps, faults>>
  BY <1>1 DEF Accept, Goto, waitlist, threads
<1>3. /\ a \in Recipients /\ a \notin pass[p].todo /\ a \in Nat
  <2>1. Sending(p)
    BY <1>2 DEF Sending
  <2>2. a \in Recipients /\ \A r \in pass[p].todo : r > a
    BY <1>1, <2>1 DEF MailingsInv, PassesOK
  <2>3. a \in Nat
    BY <2>2, RecipientsAssumption
  <2>4. a \notin pass[p].todo
    <3> SUFFICES ASSUME a \in pass[p].todo PROVE FALSE
      OBVIOUS
    <3>1. a > a
      BY <2>2
    <3> QED BY <2>3, <3>1
  <2> QED BY <2>2, <2>3, <2>4
<1>4. /\ \A q \in Passes : /\ pc'[q] = (IF q = p THEN "accepted" ELSE pc[q])
                           /\ Sending(q)' <=> Sending(q)
      /\ \A r \in Recipients : briefs'[r] = (IF r = a THEN briefs[r] + 1 ELSE briefs[r]) /\ briefs[r] \in Nat
  BY <1>2, PassTypes DEF MailingsInv, MailingsTypeOK, Sending
<1>5. MailingsTypeOK'
  BY <1>2, <1>3, PassTypes DEF MailingsInv, MailingsTypeOK, Mailing
<1>6. PassesOK'
  <2>1. \A q \in Passes : Sending(q)' =>
          /\ pass'[q].at \in Recipients
          /\ \A r \in pass'[q].todo : r > pass'[q].at
          /\ pass'[q].seen = "none" <=> delivery'[pass'[q].at] = "none"
          /\ pc'[q] = "accepted" => briefs'[pass'[q].at] > 0
    <3> SUFFICES ASSUME NEW q \in Passes, Sending(q)
                 PROVE  /\ pass[q].at \in Recipients
                        /\ \A r \in pass[q].todo : r > pass[q].at
                        /\ pass[q].seen = "none" <=> delivery[pass[q].at] = "none"
                        /\ pc'[q] = "accepted" => briefs'[pass[q].at] > 0
      BY <1>2, <1>4
    <3>1. /\ pass[q].at \in Recipients
          /\ \A r \in pass[q].todo : r > pass[q].at
          /\ pass[q].seen = "none" <=> delivery[pass[q].at] = "none"
          /\ pc[q] = "accepted" => briefs[pass[q].at] > 0
      BY DEF MailingsInv, PassesOK
    <3> QED BY <1>1, <1>4, <3>1
  <2>2. \A r \in Recipients : delivery[r] = "sent" => briefs'[r] > 0
    BY <1>4 DEF MailingsInv, PassesOK
  <2> QED BY <1>2, <1>4, <2>1, <2>2 DEF MailingsInv, PassesOK
<1>7. BriefsOK'
  <2> SUFFICES ASSUME NEW r \in Recipients
               PROVE  briefs'[r] <= (IF Charged(r)' THEN 1 ELSE 0) + faults + Cardinality(Past(r)')
    BY <1>2 DEF BriefsOK
  <2>1. loop \in Passes /\ Manual \subseteq Passes /\ loop \notin Manual
    BY CallsAssumption DEF Passes
  <2>2. Past(r) \in SUBSET Manual /\ Past(r)' \in SUBSET Manual
    BY DEF Past
  <2>3. Past(r)' = IF p \in Manual /\ r = a THEN Past(r) \cup {p} ELSE Past(r)
    <3>1. \A m \in Manual : m # p => (m \in Past(r)' <=> m \in Past(r))
      BY <1>2, <1>4, <2>1 DEF Past, Ahead
    <3>2. p \in Manual => (p \in Past(r)' <=> r = a \/ p \in Past(r))
      BY <1>1, <1>2, <1>3, <1>4 DEF Past, Ahead, Sending
    <3> QED BY <2>2, <3>1, <3>2
  <2>4. p \in Manual /\ r = a => p \notin Past(r)
    BY <1>1, <1>2 DEF Past, Ahead
  <2>5. Cardinality(Past(r)) \in Nat /\ IsFiniteSet(Past(r))
    BY <2>2, CountsAre
  <2>6. p \in Manual /\ r = a => Cardinality(Past(r)') = Cardinality(Past(r)) + 1
    BY <2>3, <2>4, <2>5, OneMore
  <2>7. ~ (p \in Manual /\ r = a) => Cardinality(Past(r)') = Cardinality(Past(r))
    BY <2>3
  <2>8. p = loop /\ r = a => ~ Charged(r) /\ Charged(r)'
    BY <1>1, <1>2, <1>4, <2>1 DEF Charged
  <2>9. ~ (p = loop /\ r = a) => (Charged(r) => Charged(r)')
    BY <1>1, <1>2, <1>4, <2>1 DEF Charged
  <2>10. briefs[r] <= (IF Charged(r) THEN 1 ELSE 0) + faults + Cardinality(Past(r))
    BY DEF MailingsInv, BriefsOK
  <2>11. p = loop \/ p \in Manual
    BY DEF Passes
  <2>12. CASE r = a /\ p = loop
    BY <1>4, <2>1, <2>5, <2>7, <2>8, <2>10, <2>12, PassTypes
  <2>13. CASE r = a /\ p \in Manual
    BY <1>4, <2>1, <2>5, <2>6, <2>9, <2>10, <2>13, PassTypes
  <2>14. CASE r # a
    BY <1>4, <2>5, <2>7, <2>9, <2>10, <2>14, PassTypes
  <2> QED BY <2>11, <2>12, <2>13, <2>14
<1>8. ThreadsOK' /\ MailsOK'
  BY <1>2, ThreadsUnmoved
<1> QED BY <1>5, <1>6, <1>7, <1>8 DEF MailingsInv

LEMMA RecordHolds ==
  ASSUME MailingsInv, NEW p \in Passes, NEW status \in {"sent", "failed"},
         Sending(p), Record(p, status), faults' \in {faults, faults + 1},
         status = "sent" => pc[p] = "accepted",
         status = "failed" => pc[p] = "post" \/ faults' = faults + 1
  PROVE  MailingsInv' /\ \A r \in Recipients : delivery[r] = "sent" => delivery'[r] = "sent"
<1>1. PICK a : a = pass[p].at
  OBVIOUS
<1>2. /\ a \in Recipients /\ a \notin pass[p].todo
      /\ pass[p].seen = "none" <=> delivery[a] = "none"
      /\ pc[p] = "accepted" => briefs[a] > 0
  <2>1. /\ a \in Recipients /\ \A r \in pass[p].todo : r > a
        /\ pass[p].seen = "none" <=> delivery[a] = "none"
        /\ pc[p] = "accepted" => briefs[a] > 0
    BY <1>1 DEF MailingsInv, PassesOK
  <2>2. a \in Nat
    BY <2>1, RecipientsAssumption
  <2>3. a \notin pass[p].todo
    BY <2>1, <2>2
  <2> QED BY <2>1, <2>3
<1>3. /\ delivery' = IF pass[p].seen = status THEN delivery ELSE [delivery EXCEPT ![a] = status]
      /\ Continue(p, pass[p].todo, delivery')
      /\ UNCHANGED <<episode, over, waiting, optin, logged, tc, thread, briefs, mails, overlaps>>
  BY <1>1 DEF Record, Written, waitlist, threads, history
<1>4. /\ delivery' \in [Recipients -> {"none", "sent", "failed"}]
      /\ \A r \in Recipients : delivery'[r] = IF r = a /\ pass[p].seen # status THEN status ELSE delivery[r]
  BY <1>2, <1>3, PassTypes
<1>5. \A r \in Recipients : /\ delivery[r] = "sent" => delivery'[r] = "sent"
                            /\ delivery'[r] = "sent" => briefs[r] > 0
  <2> SUFFICES ASSUME NEW r \in Recipients
               PROVE  /\ delivery[r] = "sent" => delivery'[r] = "sent"
                      /\ delivery'[r] = "sent" => briefs[r] > 0
    OBVIOUS
  <2>1. delivery[r] = "sent" => briefs[r] > 0
    BY DEF MailingsInv, PassesOK
  <2>2. pass[p].seen \in {"none", "failed"}
    BY PassTypes
  <2> QED BY <1>2, <1>4, <2>1, <2>2
<1>6. \A q \in Passes \ {p} : Sending(q) =>
        (delivery'[pass[q].at] = "none" <=> delivery[pass[q].at] = "none")
  <2> SUFFICES ASSUME NEW q \in Passes \ {p}, Sending(q)
               PROVE  delivery'[pass[q].at] = "none" <=> delivery[pass[q].at] = "none"
    OBVIOUS
  <2>1. pass[q].at \in Recipients /\ pass[q].at = a => pass[p].seen # "none"
    BY <1>1 DEF MailingsInv, PassesOK
  <2>2. pass[q].at \in Recipients
    BY DEF MailingsInv, PassesOK
  <2> QED BY <1>2, <1>4, <2>1, <2>2
<1>7. \A r \in pass[p].todo : Ahead(p, r)
  BY DEF Ahead
<1>8. p = loop /\ pc[loop] = "accepted" =>
        delivery'[pass[loop].at] = "sent" \/ faults' = faults + 1
  <2>1. status = "sent" => delivery'[a] = "sent"
    BY <1>2, <1>4, PassTypes
  <2> QED BY <1>1, <2>1
<1>9. PICK rest \in SUBSET Recipients : rest = pass[p].todo
  BY PassTypes
<1>10. Continue(p, rest, delivery') /\ \A r \in rest : p # loop /\ pc[p] # "idle" => Ahead(p, r)
  BY <1>3, <1>7, <1>9
<1>11. /\ PassesOK' /\ BriefsOK'
       /\ pc' \in [Passes -> {"idle", "script", "voice", "post", "accepted", "blocked", "done"}]
       /\ pass' \in [Passes -> [todo : SUBSET Recipients, at : Recipients \cup {Null},
                                seen : {"none", "failed"}, known : BOOLEAN]]
       /\ frozen' \in BOOLEAN
  BY <1>3, <1>4, <1>5, <1>6, <1>8, <1>10, MovesOn
<1>12. ThreadsOK' /\ MailsOK'
  BY <1>3, ThreadsUnmoved
<1>13. MailingsTypeOK'
  <2>1. faults' \in Nat
    BY PassTypes
  <2> QED BY <1>3, <1>4, <1>11, <2>1 DEF MailingsInv, MailingsTypeOK, Mailing
<1> QED BY <1>5, <1>11, <1>12, <1>13 DEF MailingsInv

----------------------------------------------------------------------------
(* The threads *)

LEMMA ThreadSets ==
  ASSUME NEW S \in SUBSET Threads, NEW T \in SUBSET Threads
  PROVE  /\ Cardinality(S) \in Nat
         /\ S = {} <=> Cardinality(S) = 0
         /\ S \subseteq T /\ S # T => Cardinality(S) + 1 <= Cardinality(T)
         /\ S \subseteq T => Cardinality(S) <= Cardinality(T)
         /\ \A t : S \subseteq T \cup {t} => Cardinality(S) <= Cardinality(T) + 1
<1>1. IsFiniteSet(S) /\ IsFiniteSet(T) /\ Cardinality(S) \in Nat /\ Cardinality(T) \in Nat
  BY CountsAre
<1>2. S = {} <=> Cardinality(S) = 0
  BY <1>1, FS_EmptySet
<1>3. S \subseteq T => Cardinality(S) <= Cardinality(T) /\ (Cardinality(T) = Cardinality(S) => S = T)
  BY <1>1, FS_Subset
<1>4. ASSUME NEW t, S \subseteq T \cup {t} PROVE Cardinality(S) <= Cardinality(T) + 1
  <2>1. /\ IsFiniteSet(T \cup {t})
        /\ Cardinality(T \cup {t}) = IF t \in T THEN Cardinality(T) ELSE Cardinality(T) + 1
    BY <1>1, FS_AddElement
  <2>2. Cardinality(S) <= Cardinality(T \cup {t})
    BY <1>4, <2>1, FS_Subset
  <2> QED BY <1>1, <2>1, <2>2
<1> QED BY <1>1, <1>2, <1>3, <1>4

LEMMA ThreadTypes ==
  ASSUME MailingsInv
  PROVE  /\ thread \in [Threads -> ThreadType] /\ tc \in [Threads -> {"idle", "post", "accepted", "done"}]
         /\ \A t \in Threads : /\ thread[t].todo \subseteq Recipients /\ thread[t].done \subseteq Recipients
                               /\ thread[t].consent \subseteq Recipients
         /\ logged \in [Campaigns -> SUBSET Recipients]
         /\ \A k \in Campaigns : \A r \in Recipients : mails[k][r] \in Nat
         /\ faults \in Nat /\ overlaps \in Nat /\ waiting \subseteq Recipients
<1>1. /\ thread \in [Threads -> ThreadType] /\ tc \in [Threads -> {"idle", "post", "accepted", "done"}]
      /\ logged \in [Campaigns -> SUBSET Recipients]
      /\ mails \in [Campaigns -> [Recipients -> Nat]]
      /\ faults \in Nat /\ overlaps \in Nat /\ waiting \subseteq Recipients
  BY DEF MailingsInv, MailingsTypeOK, ThreadsOK
<1>2. \A x \in ThreadType : x.todo \subseteq Recipients /\ x.done \subseteq Recipients /\ x.consent \subseteq Recipients
  BY DEF ThreadType
<1> QED BY <1>1, <1>2

(* A thread goes on to its next address, or commits what it has done.      *)
Commits(t, k, todo, done) ==
  /\ todo \subseteq logged[k]
  /\ logged' = [logged EXCEPT ![k] = @ \cup done]
  /\ tc' = [tc EXCEPT ![t] = "done"]
  /\ thread' = [thread EXCEPT ![t] = NoThread]

Mails(t, k, todo, done, consent, n) ==
  /\ n \notin logged[k] /\ \A r \in todo \ logged[k] : n <= r
  /\ tc' = [tc EXCEPT ![t] = "post"]
  /\ thread' = [thread EXCEPT ![t] =
       [kind |-> k, todo |-> {r \in todo : r > n}, at |-> n, done |-> done, consent |-> consent]]
  /\ logged' = logged

LEMMA ProceedIs ==
  ASSUME NEW t, NEW k, NEW todo \in SUBSET Recipients, NEW done, NEW consent,
         Proceed(t, k, todo, done, consent)
  PROVE  Commits(t, k, todo, done) \/ \E n \in todo : Mails(t, k, todo, done, consent, n)
<1> DEFINE open == Unlogged(k, todo)
           n == Min(open)
<1>1. CASE open = {}
  BY <1>1 DEF Proceed, Unlogged, Commits
<1>2. CASE open # {}
  <2>1. open \in SUBSET Nat /\ open = todo \ logged[k]
    BY RecipientsAssumption DEF Unlogged
  <2>2. n \in todo /\ n \notin logged[k] /\ \A r \in todo \ logged[k] : n <= r
    BY <1>2, <2>1, LeastIs
  <2> HIDE DEF n
  <2>3. /\ tc' = [tc EXCEPT ![t] = "post"] /\ logged' = logged
        /\ thread' = [thread EXCEPT ![t] =
             [kind |-> k, todo |-> {r \in todo : r > n}, at |-> n, done |-> done, consent |-> consent]]
    BY <1>2 DEF Proceed, n
  <2> QED BY <2>2, <2>3 DEF Mails
<1> QED BY <1>1, <1>2

(* A thread that starts a campaign has done nothing; one that goes on has  *)
(* done its last mail, unless it was refused or the answer was lost.       *)
Starts(t, done) ==
  /\ ~ Mailing(t) /\ done = {}
  /\ overlaps' = overlaps + (IF \E u \in Threads \ {t} : Mailing(u) THEN 1 ELSE 0)
  /\ faults' = faults

GoesOn(t, k, todo, done) ==
  /\ Mailing(t) /\ thread[t].kind = k /\ thread[t].todo = todo /\ thread[t].done \subseteq done
  /\ tc[t] = "accepted" => thread[t].at \in done \/ faults' = faults + 1
  /\ overlaps' = overlaps /\ faults' \in {faults, faults + 1}

LEMMA ThreadProceeds ==
  ASSUME MailingsInv, NEW t \in Threads, NEW k \in Campaigns,
         NEW todo \in SUBSET Recipients, NEW done \in SUBSET Recipients,
         NEW consent \in SUBSET Recipients,
         Proceed(t, k, todo, done, consent), UNCHANGED <<waiting, mails>>,
         todo \subseteq consent, todo \cup done \subseteq waiting,
         \A r \in done : mails[k][r] > 0,
         Starts(t, done) \/ GoesOn(t, k, todo, done)
  PROVE  /\ ThreadsOK' /\ MailsOK'
         /\ tc' \in [Threads -> {"idle", "post", "accepted", "done"}]
         /\ logged' \in [Campaigns -> SUBSET Recipients]
<1>1. /\ thread \in [Threads -> ThreadType] /\ tc \in [Threads -> {"idle", "post", "accepted", "done"}]
      /\ logged \in [Campaigns -> SUBSET Recipients]
      /\ \A j \in Campaigns, r \in Recipients : mails[j][r] \in Nat
      /\ faults \in Nat /\ overlaps \in Nat
  BY ThreadTypes
<1>2. Recipients \subseteq Nat
  BY RecipientsAssumption
<1>3. PICK stage \in {"post", "done"}, x \in ThreadType :
        /\ tc' = [tc EXCEPT ![t] = stage] /\ thread' = [thread EXCEPT ![t] = x]
        /\ stage = "done" => todo \subseteq logged[k] /\ logged' = [logged EXCEPT ![k] = @ \cup done]
        /\ stage = "post" => /\ logged' = logged
                             /\ x.kind = k /\ x.at \in todo /\ x.at \notin logged[k]
                             /\ x.todo = {r \in todo : r > x.at}
                             /\ x.done = done /\ x.consent = consent
                             /\ \A r \in todo \ logged[k] : x.at <= r
  <2>1. CASE Commits(t, k, todo, done)
    <3>1. NoThread \in ThreadType
      BY DEF NoThread, ThreadType
    <3> QED BY <2>1, <3>1 DEF Commits
  <2>2. CASE ~ Commits(t, k, todo, done)
    <3>1. PICK n \in todo : Mails(t, k, todo, done, consent, n)
      BY <2>2, ProceedIs
    <3>2. PICK x : /\ x = [kind |-> k, todo |-> {r \in todo : r > n}, at |-> n, done |-> done, consent |-> consent]
                   /\ thread' = [thread EXCEPT ![t] = x]
      BY <3>1 DEF Mails
    <3>3. /\ x.kind = k /\ x.at = n /\ x.todo = {r \in todo : r > n} /\ x.done = done /\ x.consent = consent
      BY <3>2
    <3>4. x \in ThreadType
      <4>1. {r \in todo : r > n} \in SUBSET Recipients
        OBVIOUS
      <4> QED BY <3>2, <4>1 DEF ThreadType
    <3> QED BY <3>1, <3>2, <3>3, <3>4 DEF Mails
  <2> QED BY <2>1, <2>2
<1>4. /\ tc' \in [Threads -> {"idle", "post", "accepted", "done"}] /\ thread' \in [Threads -> ThreadType]
      /\ \A u \in Threads : /\ tc'[u] = (IF u = t THEN stage ELSE tc[u])
                            /\ thread'[u] = (IF u = t THEN x ELSE thread[u])
  BY <1>1, <1>3
<1>5. \A u \in Threads : Mailing(u)' <=> (IF u = t THEN stage = "post" ELSE Mailing(u))
  BY <1>3, <1>4 DEF Mailing
<1>6. /\ logged' \in [Campaigns -> SUBSET Recipients]
      /\ \A j \in Campaigns : /\ logged[j] \subseteq logged'[j]
                              /\ j # k => logged'[j] = logged[j]
      /\ logged'[k] = IF stage = "done" THEN logged[k] \cup done ELSE logged[k]
  <2>1. CASE stage = "done"
    BY <1>1, <1>3, <2>1
  <2>2. CASE stage = "post"
    BY <1>1, <1>3, <2>2
  <2> QED BY <2>1, <2>2
<1>7. ThreadsOK'
  <2>1. ASSUME NEW u \in Threads, Mailing(u)'
        PROVE  LET y == thread'[u] IN
               /\ y.kind \in Campaigns /\ y.at \in Recipients
               /\ y.todo \cup {y.at} \subseteq y.consent
               /\ y.todo \cup {y.at} \cup y.done \subseteq waiting
               /\ \A r \in y.todo : r > y.at
               /\ \A r \in y.done : mails[y.kind][r] > 0
               /\ tc'[u] = "accepted" => mails[y.kind][y.at] > 0
    <3>1. CASE u = t
      BY <1>3, <1>4, <1>5, <2>1, <3>1
    <3>2. CASE u # t
      <4>1. Mailing(u) /\ thread'[u] = thread[u] /\ tc'[u] = tc[u]
        BY <1>4, <1>5, <2>1, <3>2
      <4> QED BY <4>1 DEF MailingsInv, ThreadsOK
    <3> QED BY <3>1, <3>2
  <2>2. ASSUME NEW j \in Campaigns
        PROVE  logged'[j] \subseteq waiting /\ \A r \in logged'[j] : mails[j][r] > 0
    <3>1. logged[j] \subseteq waiting /\ \A r \in logged[j] : mails[j][r] > 0
      BY DEF MailingsInv, ThreadsOK
    <3> QED BY <1>6, <3>1
  <2> QED BY <1>4, <2>1, <2>2 DEF ThreadsOK
<1>8. MailsOK'
  <2> SUFFICES ASSUME NEW j \in Campaigns, NEW r \in Recipients
               PROVE  mails[j][r] + Cardinality(Due(j, r)')
                        <= faults' + overlaps' + (IF Settled(j, r)' \/ Due(j, r)' # {} THEN 1 ELSE 0)
    BY DEF MailsOK
  <2>1. Due(j, r) \in SUBSET Threads /\ Due(j, r)' \in SUBSET Threads
    BY DEF Due
  <2>2. mails[j][r] + Cardinality(Due(j, r))
          <= faults + overlaps + (IF Settled(j, r) \/ Due(j, r) # {} THEN 1 ELSE 0)
    BY DEF MailingsInv, MailsOK
  <2>3. \A u \in Threads \ {t} : u \in Due(j, r)' => u \in Due(j, r)
    BY <1>4, <1>5, <1>6 DEF Due
  <2>4. t \in Due(j, r)' => j = k /\ r \in todo \ logged[k]
    BY <1>3, <1>4, <1>5, <1>6 DEF Due
  <2>5. Settled(j, r) => \/ Settled(j, r)'
                         \/ Mailing(t) /\ thread[t].kind = j /\ tc[t] = "accepted" /\ thread[t].at = r /\ r \notin done
    <3> SUFFICES ASSUME Settled(j, r),
                        ~ (Mailing(t) /\ thread[t].kind = j /\ tc[t] = "accepted"
                           /\ thread[t].at = r /\ r \notin done)
                 PROVE  Settled(j, r)'
      OBVIOUS
    <3>1. CASE r \in logged[j]
      BY <1>6, <3>1 DEF Settled
    <3>2. CASE r \notin logged[j]
      <4>1. PICK u \in Threads : /\ Mailing(u) /\ thread[u].kind = j
                                 /\ r \in thread[u].done \/ (tc[u] = "accepted" /\ thread[u].at = r)
        BY <3>2 DEF Settled
      <4>2. CASE u # t
        BY <1>4, <1>5, <4>1, <4>2 DEF Settled
      <4>3. CASE u = t
        <5>1. GoesOn(t, k, todo, done)
          BY <4>1, <4>3 DEF Starts
        <5>2. j = k /\ r \in done
          BY <4>1, <4>3, <5>1 DEF GoesOn
        <5>3. CASE stage = "done"
          BY <1>6, <5>2, <5>3 DEF Settled
        <5>4. CASE stage = "post"
          <6>1. Mailing(t)' /\ thread'[t].kind = j /\ r \in thread'[t].done
            BY <1>3, <1>4, <1>5, <5>2, <5>4
          <6> QED BY <6>1 DEF Settled
        <5> QED BY <5>3, <5>4
      <4> QED BY <4>2, <4>3
    <3> QED BY <3>1, <3>2
  <2>6. CASE GoesOn(t, k, todo, done)
    <3>1. Due(j, r)' \subseteq Due(j, r)
      <4>1. t \in Due(j, r)' => t \in Due(j, r)
        BY <2>4, <2>6 DEF Due, GoesOn
      <4> QED BY <2>1, <2>3, <4>1
    <3>2. Settled(j, r) => Settled(j, r)' \/ faults' = faults + 1
      BY <2>5, <2>6 DEF GoesOn
    <3>3. faults' \in {faults, faults + 1} /\ overlaps' = overlaps
      BY <2>6 DEF GoesOn
    <3> HIDE DEF MailsOK
    <3> DEFINE n == Cardinality(Due(j, r))  n1 == Cardinality(Due(j, r)')
    <3>4. /\ n \in Nat /\ n1 \in Nat /\ n1 <= n /\ (Due(j, r)' # Due(j, r) => n1 + 1 <= n)
      BY <2>1, <3>1, ThreadSets
    <3> HIDE DEF n, n1
    <3>5. mails[j][r] + n <= faults + overlaps + (IF Settled(j, r) \/ Due(j, r) # {} THEN 1 ELSE 0)
      BY <2>2 DEF n
    <3>6. mails[j][r] + n1 <= faults' + overlaps' + (IF Settled(j, r)' \/ Due(j, r)' # {} THEN 1 ELSE 0)
      BY <1>1, <3>2, <3>3, <3>4, <3>5
    <3> QED BY <3>6 DEF n1
  <2>7. CASE Starts(t, done)
    <3>1. Due(j, r)' \subseteq Due(j, r) \cup {t} /\ t \notin Due(j, r)
      BY <2>1, <2>3, <2>7 DEF Starts, Due
    <3>2. Settled(j, r) => Settled(j, r)'
      BY <2>5, <2>7 DEF Starts
    <3>3. faults' = faults /\ overlaps' = overlaps + (IF \E u \in Threads \ {t} : Mailing(u) THEN 1 ELSE 0)
      BY <2>7 DEF Starts
    <3> DEFINE n == Cardinality(Due(j, r))  n1 == Cardinality(Due(j, r)')
    <3>4. /\ n \in Nat /\ n1 \in Nat /\ n1 <= n + 1 /\ (Due(j, r)' = {} <=> n1 = 0)
          /\ Due(j, r) = {} <=> n = 0
      BY <2>1, <3>1, ThreadSets
    <3> HIDE DEF n, n1
    <3>5. mails[j][r] + n <= faults + overlaps + (IF Settled(j, r) \/ n # 0 THEN 1 ELSE 0)
      BY <2>2, <3>4 DEF n
    <3>6. CASE \E u \in Threads \ {t} : Mailing(u)
      <4>1. overlaps' = overlaps + 1
        BY <1>1, <3>3, <3>6
      <4>2. mails[j][r] + n1 <= faults' + overlaps' + (IF Settled(j, r)' \/ n1 # 0 THEN 1 ELSE 0)
        BY <1>1, <3>2, <3>3, <3>4, <3>5, <4>1
      <4> QED BY <3>4, <4>2 DEF n1
    <3>7. CASE ~ \E u \in Threads \ {t} : Mailing(u)
      <4>1. overlaps' = overlaps
        BY <1>1, <3>3, <3>7
      <4>2. \A u \in Threads : ~ Mailing(u)
        BY <2>7, <3>7 DEF Starts
      <4>3. Due(j, r) = {} /\ (Settled(j, r) <=> r \in logged[j])
        BY <4>2 DEF Due, Settled
      <4>4. n1 # 0 => ~ Settled(j, r)
        <5> SUFFICES ASSUME n1 # 0 PROVE ~ Settled(j, r)
          OBVIOUS
        <5>1. t \in Due(j, r)'
          BY <3>1, <3>4, <4>3
        <5> QED BY <2>4, <4>3, <5>1
      <4>5. n = 0
        BY <3>4, <4>3
      <4>6. mails[j][r] + n1 <= faults' + overlaps' + (IF Settled(j, r)' \/ n1 # 0 THEN 1 ELSE 0)
        BY <1>1, <3>2, <3>3, <3>4, <3>5, <4>1, <4>4, <4>5
      <4> QED BY <3>4, <4>6 DEF n1
    <3> QED BY <3>6, <3>7
  <2> QED BY <2>6, <2>7
<1> QED BY <1>4, <1>6, <1>7, <1>8

LEMMA CampaignHolds ==
  ASSUME MailingsInv, NEW t \in Threads, NEW k \in Campaigns, StartCampaign(t, k)
  PROVE  MailingsInv'
<1>1. /\ Proceed(t, k, optin, {}, optin) /\ Arrives(t) /\ Overlap(t)
      /\ UNCHANGED <<episode, over, delivery, waiting, optin, pc, pass, frozen, briefs, mails, faults>>
  BY DEF StartCampaign, Eligible, waitlist, passes
<1>2. Starts(t, {})
  BY <1>1 DEF Starts, Arrives, Overlap, Mailing
<1>3. optin \subseteq waiting /\ waiting \subseteq Recipients
  BY DEF MailingsInv, MailingsTypeOK
<1>4. PICK todo \in SUBSET Recipients : todo = optin
  BY <1>3
<1>5. PICK done \in SUBSET Recipients : done = {}
  OBVIOUS
<1>6. Proceed(t, k, todo, done, todo) /\ Starts(t, done)
  BY <1>1, <1>2, <1>4, <1>5
<1>7. /\ ThreadsOK' /\ MailsOK'
      /\ tc' \in [Threads -> {"idle", "post", "accepted", "done"}]
      /\ logged' \in [Campaigns -> SUBSET Recipients]
  BY <1>1, <1>3, <1>4, <1>5, <1>6, ThreadProceeds
<1>8. PassesOK' /\ BriefsOK'
  BY <1>1, PassesUnmoved
<1>9. overlaps' \in Nat
  BY <1>2, ThreadTypes DEF Starts
<1>10. MailingsTypeOK'
  BY <1>1, <1>7, <1>9 DEF MailingsInv, MailingsTypeOK, ThreadsOK
<1> QED BY <1>7, <1>8, <1>10 DEF MailingsInv

LEMMA MailEndsHolds ==
  ASSUME MailingsInv, NEW t \in Threads, NEW ok \in BOOLEAN,
         Mailing(t), MailEnds(t, ok), faults' \in {faults, faults + 1},
         ok => tc[t] = "accepted",
         tc[t] = "accepted" => ok \/ faults' = faults + 1
  PROVE  MailingsInv'
<1>1. PICK k, todo, done, consent :
        k = thread[t].kind /\ todo = thread[t].todo /\ done = DoneAfter(t, ok) /\ consent = thread[t].consent
  OBVIOUS
<1>2. /\ Proceed(t, k, todo, done, consent)
      /\ UNCHANGED <<episode, over, delivery, waiting, optin, pc, pass, frozen, briefs, mails, overlaps>>
  BY <1>1 DEF MailEnds, waitlist, passes, history
<1>3. /\ k \in Campaigns /\ thread[t].at \in Recipients
      /\ todo \subseteq consent /\ todo \cup {thread[t].at} \cup thread[t].done \subseteq waiting
      /\ \A r \in thread[t].done : mails[k][r] > 0
      /\ tc[t] = "accepted" => mails[k][thread[t].at] > 0
  BY <1>1 DEF MailingsInv, ThreadsOK
<1>4. done = thread[t].done \cup (IF ok THEN {thread[t].at} ELSE {})
  BY <1>1 DEF DoneAfter
<1>5. /\ todo \in SUBSET Recipients /\ consent \in SUBSET Recipients /\ done \in SUBSET Recipients
  BY <1>1, <1>3, <1>4, ThreadTypes
<1>6. /\ todo \cup done \subseteq waiting /\ \A r \in done : mails[k][r] > 0
  BY <1>3, <1>4
<1>7. GoesOn(t, k, todo, done)
  BY <1>1, <1>2, <1>4 DEF GoesOn
<1>8. /\ ThreadsOK' /\ MailsOK'
      /\ tc' \in [Threads -> {"idle", "post", "accepted", "done"}]
      /\ logged' \in [Campaigns -> SUBSET Recipients]
  BY <1>2, <1>3, <1>5, <1>6, <1>7, ThreadProceeds
<1>9. PassesOK' /\ BriefsOK'
  BY <1>2, PassesUnmoved
<1>10. MailingsTypeOK'
  <2>1. faults' \in Nat
    BY ThreadTypes
  <2> QED BY <1>2, <1>8, <2>1 DEF MailingsInv, MailingsTypeOK, ThreadsOK
<1> QED BY <1>8, <1>9, <1>10 DEF MailingsInv

LEMMA AcceptMailHolds ==
  ASSUME MailingsInv, NEW t \in Threads, AcceptMail(t)
  PROVE  MailingsInv'
<1>1. PICK k, a : k = thread[t].kind /\ a = thread[t].at
  OBVIOUS
<1>2. /\ tc[t] = "post" /\ tc' = [tc EXCEPT ![t] = "accepted"] /\ mails' = [mails EXCEPT ![k][a] = @ + 1]
      /\ UNCHANGED <<episode, over, delivery, waiting, optin, logged, pc, pass, frozen, thread, briefs, overlaps, faults>>
  BY <1>1 DEF AcceptMail, waitlist, passes
<1>3. k \in Campaigns /\ a \in Recipients /\ a \notin thread[t].todo
  <2>1. Mailing(t)
    BY <1>2 DEF Mailing
  <2>2. k \in Campaigns /\ a \in Recipients /\ \A r \in thread[t].todo : r > a
    BY <1>1, <2>1 DEF MailingsInv, ThreadsOK
  <2>3. a \in Nat
    BY <2>2, RecipientsAssumption
  <2> QED BY <2>2, <2>3
<1>4. /\ mails' \in [Campaigns -> [Recipients -> Nat]]
      /\ \A j \in Campaigns, r \in Recipients :
           /\ mails'[j][r] = (IF j = k /\ r = a THEN mails[j][r] + 1 ELSE mails[j][r])
           /\ mails[j][r] \in Nat
  BY <1>2, <1>3 DEF MailingsInv, MailingsTypeOK
<1>5. /\ tc' \in [Threads -> {"idle", "post", "accepted", "done"}]
      /\ \A u \in Threads : tc'[u] = (IF u = t THEN "accepted" ELSE tc[u])
  BY <1>2, ThreadTypes
<1>6. \A u \in Threads : Mailing(u)' <=> Mailing(u)
  BY <1>2, <1>5 DEF Mailing
<1>7. ThreadsOK'
  <2>1. ASSUME NEW u \in Threads, Mailing(u)
        PROVE  LET y == thread[u] IN
               /\ y.kind \in Campaigns /\ y.at \in Recipients
               /\ y.todo \cup {y.at} \subseteq y.consent
               /\ y.todo \cup {y.at} \cup y.done \subseteq waiting
               /\ \A r \in y.todo : r > y.at
               /\ \A r \in y.done : mails'[y.kind][r] > 0
               /\ tc'[u] = "accepted" => mails'[y.kind][y.at] > 0
    <3>1. LET y == thread[u] IN
          /\ y.kind \in Campaigns /\ y.at \in Recipients /\ y.done \subseteq Recipients
          /\ y.todo \cup {y.at} \subseteq y.consent
          /\ y.todo \cup {y.at} \cup y.done \subseteq waiting
          /\ \A r \in y.todo : r > y.at
          /\ \A r \in y.done : mails[y.kind][r] > 0
          /\ tc[u] = "accepted" => mails[y.kind][y.at] > 0
      BY <2>1, ThreadTypes DEF MailingsInv, ThreadsOK
    <3> QED BY <1>1, <1>4, <1>5, <3>1
  <2>2. ASSUME NEW j \in Campaigns
        PROVE  logged[j] \subseteq waiting /\ \A r \in logged[j] : mails'[j][r] > 0
    <3>1. logged[j] \subseteq waiting /\ logged[j] \subseteq Recipients /\ \A r \in logged[j] : mails[j][r] > 0
      BY ThreadTypes DEF MailingsInv, ThreadsOK
    <3> QED BY <1>4, <3>1
  <2> QED BY <1>2, <1>6, <2>1, <2>2, ThreadTypes DEF ThreadsOK, ThreadType
<1>8. MailsOK'
  <2> SUFFICES ASSUME NEW j \in Campaigns, NEW r \in Recipients
               PROVE  mails'[j][r] + Cardinality(Due(j, r)')
                        <= faults + overlaps + (IF Settled(j, r)' \/ Due(j, r)' # {} THEN 1 ELSE 0)
    BY <1>2 DEF MailsOK
  <2>1. Due(j, r) \in SUBSET Threads /\ Due(j, r)' \in SUBSET Threads
    BY DEF Due
  <2>2. mails[j][r] + Cardinality(Due(j, r))
          <= faults + overlaps + (IF Settled(j, r) \/ Due(j, r) # {} THEN 1 ELSE 0)
    BY DEF MailingsInv, MailsOK
  <2>3. \A u \in Threads \ {t} : u \in Due(j, r)' <=> u \in Due(j, r)
    BY <1>2, <1>5, <1>6 DEF Due
  <2>4. Settled(j, r) => Settled(j, r)'
    BY <1>2, <1>5, <1>6 DEF Settled
  <2>5. CASE j = k /\ r = a
    <3>1. t \in Due(j, r) /\ t \notin Due(j, r)'
      BY <1>1, <1>2, <1>3, <1>5, <2>5 DEF Due, Mailing
    <3>2. Settled(j, r)'
      BY <1>1, <1>2, <1>5, <2>5 DEF Settled, Mailing
    <3>3. Due(j, r)' \subseteq Due(j, r) /\ Due(j, r)' # Due(j, r)
      BY <2>1, <2>3, <3>1
    <3>4. /\ Cardinality(Due(j, r)) \in Nat /\ Cardinality(Due(j, r)') \in Nat
          /\ Cardinality(Due(j, r)') + 1 <= Cardinality(Due(j, r))
      BY <2>1, <3>3, ThreadSets
    <3> QED BY <1>4, <2>2, <2>5, <3>2, <3>4, ThreadTypes
  <2>6. CASE ~ (j = k /\ r = a)
    <3>1. t \in Due(j, r)' <=> t \in Due(j, r)
      BY <1>1, <1>2, <1>5, <1>6, <2>6 DEF Due
    <3>2. Due(j, r)' = Due(j, r)
      BY <2>1, <2>3, <3>1
    <3>3. Cardinality(Due(j, r)) \in Nat
      BY <2>1, CountsAre
    <3> QED BY <1>4, <2>2, <2>4, <2>6, <3>2, <3>3, ThreadTypes
  <2> QED BY <2>5, <2>6
<1>9. PassesOK' /\ BriefsOK'
  BY <1>2, PassesUnmoved
<1>10. MailingsTypeOK'
  <2>1. \A u \in Threads : Mailing(u)' => thread'[u].kind \in Campaigns /\ thread'[u].at \in Recipients
    BY <1>2, <1>6 DEF MailingsInv, MailingsTypeOK
  <2> QED BY <1>2, <1>4, <1>5, <2>1 DEF MailingsInv, MailingsTypeOK
<1> QED BY <1>7, <1>8, <1>9, <1>10 DEF MailingsInv

(* Nobody who is not on the list has been mailed, or is about to be.       *)
LEMMA JoinHolds ==
  ASSUME MailingsInv, NEW t \in Threads, NEW a \in Recipients, NEW consent \in BOOLEAN,
         Join(t, a, consent)
  PROVE  MailingsInv'
<1>1. PICK stage \in {"post", "done"}, x \in ThreadType :
        /\ x = IF consent THEN [kind |-> "welcome", todo |-> {}, at |-> a, done |-> {}, consent |-> {a}]
                          ELSE NoThread
        /\ stage = IF consent THEN "post" ELSE "done"
  <2>1. [kind |-> "welcome", todo |-> {}, at |-> a, done |-> {}, consent |-> {a}] \in ThreadType
    BY DEF ThreadType, Campaigns
  <2>2. NoThread \in ThreadType
    BY DEF ThreadType, NoThread
  <2>3. CASE consent
    BY <2>1, <2>3
  <2>4. CASE ~ consent
    BY <2>2, <2>4
  <2> QED BY <2>3, <2>4
<1>2. /\ tc' = [tc EXCEPT ![t] = stage] /\ thread' = [thread EXCEPT ![t] = x]
      /\ tc[t] = "idle" /\ a \notin waiting /\ waiting' = waiting \cup {a}
      /\ optin' = (IF consent THEN optin \cup {a} ELSE optin) /\ Overlap(t)
      /\ UNCHANGED <<episode, over, delivery, logged, pc, pass, frozen, briefs, mails, faults>>
  BY <1>1 DEF Join, Arrives, passes
<1>3. stage = "post" => /\ x.kind = "welcome" /\ x.todo = {} /\ x.at = a /\ x.done = {} /\ x.consent = {a}
  BY <1>1
<1>4. /\ tc' \in [Threads -> {"idle", "post", "accepted", "done"}] /\ thread' \in [Threads -> ThreadType]
      /\ \A u \in Threads : /\ tc'[u] = (IF u = t THEN stage ELSE tc[u])
                            /\ thread'[u] = (IF u = t THEN x ELSE thread[u])
  BY <1>1, <1>2, ThreadTypes
<1>5. \A u \in Threads : Mailing(u)' <=> (IF u = t THEN stage = "post" ELSE Mailing(u))
  BY <1>4 DEF Mailing
<1>6. overlaps' \in {overlaps, overlaps + 1} /\ overlaps \in Nat /\ faults \in Nat
  BY <1>2, ThreadTypes DEF Overlap
<1>7. "welcome" \in Campaigns
  BY DEF Campaigns
<1>8. ThreadsOK'
  <2>1. ASSUME NEW u \in Threads, Mailing(u)'
        PROVE  LET y == thread'[u] IN
               /\ y.kind \in Campaigns /\ y.at \in Recipients
               /\ y.todo \cup {y.at} \subseteq y.consent
               /\ y.todo \cup {y.at} \cup y.done \subseteq waiting'
               /\ \A r \in y.todo : r > y.at
               /\ \A r \in y.done : mails[y.kind][r] > 0
               /\ tc'[u] = "accepted" => mails[y.kind][y.at] > 0
    <3>1. CASE u = t
      BY <1>2, <1>3, <1>4, <1>5, <1>7, <2>1, <3>1
    <3>2. CASE u # t
      <4>1. Mailing(u) /\ thread'[u] = thread[u] /\ tc'[u] = tc[u]
        BY <1>4, <1>5, <2>1, <3>2
      <4> QED BY <1>2, <4>1 DEF MailingsInv, ThreadsOK
    <3> QED BY <3>1, <3>2
  <2> QED BY <1>2, <1>4, <2>1 DEF MailingsInv, ThreadsOK
<1>9. MailsOK'
  <2> SUFFICES ASSUME NEW j \in Campaigns, NEW r \in Recipients
               PROVE  mails[j][r] + Cardinality(Due(j, r)')
                        <= faults + overlaps' + (IF Settled(j, r)' \/ Due(j, r)' # {} THEN 1 ELSE 0)
    BY <1>2 DEF MailsOK
  <2>1. Due(j, r) \in SUBSET Threads /\ Due(j, r)' \in SUBSET Threads
    BY DEF Due
  <2>2. mails[j][r] + Cardinality(Due(j, r))
          <= faults + overlaps + (IF Settled(j, r) \/ Due(j, r) # {} THEN 1 ELSE 0)
    BY DEF MailingsInv, MailsOK
  <2>3. t \notin Due(j, r) /\ \A u \in Threads \ {t} : u \in Due(j, r)' <=> u \in Due(j, r)
    BY <1>2, <1>4, <1>5 DEF Due, Mailing
  <2>4. Settled(j, r) => Settled(j, r)'
    BY <1>2, <1>4, <1>5 DEF Settled, Mailing
  <2>5. Cardinality(Due(j, r)) \in Nat /\ Cardinality(Due(j, r)') \in Nat /\ mails[j][r] \in Nat
    BY <2>1, CountsAre, ThreadTypes
  <2>6. CASE t \in Due(j, r)'
    <3>1. j = "welcome" /\ r = a
      BY <1>3, <1>4, <1>5, <2>6 DEF Due
    <3>2. Due(j, r) = {} /\ ~ Settled(j, r)
      <4>1. \A u \in Threads : Mailing(u) => r # thread[u].at /\ r \notin thread[u].todo \cup thread[u].done
        BY <1>2, <3>1 DEF MailingsInv, ThreadsOK
      <4>2. r \notin logged[j]
        BY <1>2, <3>1 DEF MailingsInv, ThreadsOK
      <4> QED BY <4>1, <4>2 DEF Due, Settled
    <3>3. Cardinality(Due(j, r)) = 0 /\ Cardinality(Due(j, r)') <= 1
      <4>1. Due(j, r)' \subseteq Due(j, r) \cup {t}
        BY <2>1, <2>3
      <4>2. Cardinality(Due(j, r)) = 0
        BY <2>1, <3>2, ThreadSets
      <4>3. \A S, T \in SUBSET Threads : S \subseteq T \cup {t} => Cardinality(S) <= Cardinality(T) + 1
        BY ThreadSets
      <4>4. Cardinality(Due(j, r)') <= Cardinality(Due(j, r)) + 1
        BY <2>1, <4>1, <4>3
      <4> QED BY <2>5, <4>2, <4>4
    <3> QED BY <1>6, <2>2, <2>5, <2>6, <3>2, <3>3
  <2>7. CASE t \notin Due(j, r)'
    <3>1. Due(j, r)' = Due(j, r)
      BY <2>1, <2>3, <2>7
    <3> QED BY <1>6, <2>2, <2>4, <2>5, <3>1
  <2> QED BY <2>6, <2>7
<1>10. PassesOK' /\ BriefsOK'
  BY <1>2, PassesUnmoved
<1>11. MailingsTypeOK'
  <2>1. overlaps' \in Nat /\ optin' \subseteq waiting' /\ waiting' \subseteq Recipients
    BY <1>2, <1>6, ThreadTypes DEF MailingsInv, MailingsTypeOK
  <2> QED BY <1>2, <1>4, <1>8, <2>1 DEF MailingsInv, MailingsTypeOK, ThreadsOK
<1> QED BY <1>8, <1>9, <1>10, <1>11 DEF MailingsInv

LEMMA ConsentHolds ==
  ASSUME MailingsInv, NEW r \in Recipients, Consent(r) \/ Unsubscribe(r)
  PROVE  MailingsInv'
<1>1. /\ optin' \in {optin \cup {r}, optin \ {r}} /\ optin' \subseteq waiting
      /\ UNCHANGED <<episode, over, delivery, waiting, logged, pc, pass, frozen, tc, thread, briefs, mails, overlaps, faults>>
  BY DEF Consent, Unsubscribe, passes, threads, history, MailingsInv, MailingsTypeOK
<1>2. PassesOK' /\ BriefsOK' /\ ThreadsOK' /\ MailsOK'
  BY <1>1, PassesUnmoved, ThreadsUnmoved
<1>3. MailingsTypeOK'
  BY <1>1 DEF MailingsInv, MailingsTypeOK, Mailing
<1> QED BY <1>2, <1>3 DEF MailingsInv

(* A restart ends every pass and every thread, and may lose what they had  *)
(* not committed.                                                          *)
LEMMA RestartMails ==
  ASSUME MailingsInv, Restart
  PROVE  MailingsInv'
<1>1. /\ pc' = [p \in Passes |-> IF p = loop \/ pc[p] = "idle" THEN "idle" ELSE "done"]
      /\ pass' = [p \in Passes |-> NoPass] /\ frozen' = FALSE
      /\ tc' = [t \in Threads |-> IF tc[t] = "idle" THEN "idle" ELSE "done"]
      /\ thread' = [t \in Threads |-> NoThread] /\ faults' = faults + 1
      /\ UNCHANGED <<episode, over, delivery, waiting, optin, logged, briefs, mails, overlaps>>
  BY DEF Restart, waitlist, history
<1>2. NoThread \in ThreadType
  BY DEF NoThread, ThreadType
<1>3. (\A p \in Passes : ~ Sending(p)') /\ (\A t \in Threads : ~ Mailing(t)')
  BY <1>1 DEF Sending, Mailing
<1>4. MailingsTypeOK'
  <2>1. pc' \in [Passes -> {"idle", "script", "voice", "post", "accepted", "blocked", "done"}]
    BY <1>1
  <2>2. pass' \in [Passes -> [todo : SUBSET Recipients, at : Recipients \cup {Null},
                              seen : {"none", "failed"}, known : BOOLEAN]]
    <3>1. PICK x : x = NoPass
      OBVIOUS
    <3> QED BY <1>1, <3>1, PassTypes
  <2>3. tc' \in [Threads -> {"idle", "post", "accepted", "done"}]
    BY <1>1
  <2>4. faults' \in Nat
    BY <1>1, PassTypes
  <2> QED BY <1>1, <1>3, <2>1, <2>2, <2>3, <2>4 DEF MailingsInv, MailingsTypeOK
<1>5. PassesOK'
  BY <1>1, <1>3 DEF MailingsInv, PassesOK
<1>6. ThreadsOK'
  BY <1>1, <1>2, <1>3 DEF MailingsInv, ThreadsOK
<1>7. BriefsOK'
  <2> SUFFICES ASSUME NEW r \in Recipients
               PROVE  briefs[r] <= (IF Charged(r)' THEN 1 ELSE 0) + (faults + 1) + Cardinality(Past(r)')
    BY <1>1 DEF BriefsOK
  <2>1. Past(r) \in SUBSET Past(r)' /\ Past(r)' \in SUBSET Manual
    <3>1. Manual \subseteq Passes /\ loop \notin Manual
      BY CallsAssumption DEF Passes
    <3>2. ASSUME NEW m \in Past(r) PROVE m \in Past(r)'
      <4>1. m \in Manual /\ m \in Passes /\ pc[m] # "idle" /\ m # loop
        BY <3>1 DEF Past
      <4>2. pc'[m] = "done"
        BY <1>1, <4>1
      <4> QED BY <4>1, <4>2 DEF Past, Ahead, Sending
    <3> QED BY <3>2 DEF Past
  <2>2. Cardinality(Past(r)) \in Nat /\ Cardinality(Past(r)') \in Nat /\ Cardinality(Past(r)) <= Cardinality(Past(r)')
    BY <2>1, CountsAre
  <2>3. briefs[r] <= (IF Charged(r) THEN 1 ELSE 0) + faults + Cardinality(Past(r))
    BY DEF MailingsInv, BriefsOK
  <2> QED BY <2>2, <2>3, PassTypes
<1>8. MailsOK'
  <2> SUFFICES ASSUME NEW j \in Campaigns, NEW r \in Recipients
               PROVE  mails[j][r] + Cardinality(Due(j, r)')
                        <= (faults + 1) + overlaps + (IF Settled(j, r)' \/ Due(j, r)' # {} THEN 1 ELSE 0)
    BY <1>1 DEF MailsOK
  <2>1. Due(j, r) \in SUBSET Threads /\ Due(j, r)' = {}
    BY <1>3 DEF Due
  <2>2. Cardinality(Due(j, r)) \in Nat /\ Cardinality(Due(j, r)') = 0
    BY <2>1, CountsAre, ThreadSets
  <2>3. mails[j][r] + Cardinality(Due(j, r))
          <= faults + overlaps + (IF Settled(j, r) \/ Due(j, r) # {} THEN 1 ELSE 0)
    BY DEF MailingsInv, MailsOK
  <2> QED BY <2>2, <2>3, ThreadTypes
<1> QED BY <1>4, <1>5, <1>6, <1>7, <1>8 DEF MailingsInv

LEMMA MailingsStart == ASSUME MailingsInit PROVE MailingsInv
<1>1. /\ delivery = [r \in Recipients |-> "none"] /\ waiting = {} /\ optin = {} /\ episode = FALSE /\ over = FALSE /\ frozen = FALSE
      /\ logged = [k \in Campaigns |-> {}] /\ pc = [p \in Passes |-> "idle"]
      /\ pass = [p \in Passes |-> NoPass] /\ tc = [t \in Threads |-> "idle"]
      /\ thread = [t \in Threads |-> NoThread] /\ briefs = [r \in Recipients |-> 0]
      /\ mails = [k \in Campaigns |-> [r \in Recipients |-> 0]] /\ overlaps = 0 /\ faults = 0
  BY DEF MailingsInit
<1>2. NoThread \in ThreadType
  BY DEF NoThread, ThreadType
<1>3. NoPass \in [todo : SUBSET Recipients, at : Recipients \cup {Null},
                  seen : {"none", "failed"}, known : BOOLEAN]
  BY DEF NoPass
<1>4. (\A p \in Passes : ~ Sending(p)) /\ (\A t \in Threads : ~ Mailing(t))
  BY <1>1 DEF Sending, Mailing
<1>5. MailingsTypeOK
  BY <1>1, <1>3, <1>4 DEF MailingsTypeOK
<1>6. PassesOK
  BY <1>1, <1>4 DEF PassesOK
<1>7. ThreadsOK
  BY <1>1, <1>2, <1>4 DEF ThreadsOK
<1>8. BriefsOK
  <2>1. \A r \in Recipients : Cardinality(Past(r)) \in Nat /\ briefs[r] = 0
    <3>1. \A r : Past(r) \in SUBSET Manual
      BY DEF Past
    <3> QED BY <1>1, <3>1, CountsAre
  <2> QED BY <1>1, <2>1 DEF BriefsOK
<1>9. MailsOK
  <2>1. \A k \in Campaigns, r \in Recipients : Cardinality(Due(k, r)) = 0 /\ mails[k][r] = 0
    <3>1. \A k, r : Due(k, r) = {}
      BY <1>4 DEF Due
    <3> QED BY <1>1, <3>1, ThreadSets
  <2> QED BY <1>1, <2>1 DEF MailsOK
<1> QED BY <1>5, <1>6, <1>7, <1>8, <1>9 DEF MailingsInv

(* No step takes back a brief that is recorded as sent.                    *)
LEMMA MailingsStep ==
  ASSUME MailingsInv, [MailingsNext]_mailingsVars
  PROVE  MailingsInv' /\ \A r \in Recipients : delivery[r] = "sent" => delivery'[r] = "sent"
<1>1. CASE UNCHANGED mailingsVars
  <2>1. UNCHANGED <<episode, over, delivery, waiting, optin, logged, pc, pass, frozen, tc, thread, briefs, mails, overlaps, faults>>
    BY <1>1 DEF mailingsVars, waitlist, passes, threads, history
  <2>2. PassesOK' /\ BriefsOK' /\ ThreadsOK' /\ MailsOK'
    BY <2>1, PassesUnmoved, ThreadsUnmoved
  <2>3. MailingsTypeOK'
    BY <2>1 DEF MailingsInv, MailingsTypeOK, Mailing
  <2> QED BY <2>1, <2>2, <2>3 DEF MailingsInv
<1>2. ASSUME NEW p \in Passes, PassStep(p)
      PROVE  MailingsInv' /\ \A r \in Recipients : delivery[r] = "sent" => delivery'[r] = "sent"
  <2>1. CASE \E force \in BOOLEAN : Generate(p, force)
    BY <2>1, GenerateHolds DEF Generate
  <2>2. CASE GenerateFails(p) \/ Generated(p)
    BY <2>2, RestingHolds DEF GenerateFails, Generated
  <2>3. CASE Publish(p)
    BY <2>3, PublishHolds DEF Publish
  <2>4. CASE Send(p)
    BY <2>4, SendHolds DEF Send
  <2>5. CASE Accept(p)
    BY <2>5, AcceptHolds DEF Accept
  <2>6. CASE Answered(p)
    <3>1. pc[p] = "accepted" /\ Sending(p) /\ Record(p, "sent") /\ faults' = faults
      BY <2>6 DEF Answered, Sending
    <3> QED BY <3>1, RecordHolds
  <2>7. CASE Refused(p)
    <3>1. pc[p] = "post" /\ Sending(p) /\ Record(p, "failed") /\ faults' = faults
      BY <2>7 DEF Refused, Sending
    <3> QED BY <3>1, RecordHolds
  <2>8. CASE AnswerLost(p)
    <3>1. pc[p] = "accepted" /\ Sending(p) /\ Record(p, "failed") /\ faults' = faults + 1
      BY <2>8 DEF AnswerLost, Sending
    <3> QED BY <3>1, RecordHolds
  <2> QED BY <1>2, <2>1, <2>2, <2>3, <2>4, <2>5, <2>6, <2>7, <2>8 DEF PassStep
<1>3. ASSUME NEW t \in Threads, ThreadStep(t)
      PROVE  MailingsInv' /\ delivery' = delivery
  <2>1. CASE \E r \in Recipients, consent \in BOOLEAN : Join(t, r, consent)
    BY <2>1, JoinHolds DEF Join
  <2>2. CASE \E k \in Campaigns : StartCampaign(t, k)
    BY <2>2, CampaignHolds DEF StartCampaign
  <2>3. CASE AcceptMail(t)
    BY <2>3, AcceptMailHolds DEF AcceptMail
  <2>4. CASE MailAnswered(t)
    <3>1. tc[t] = "accepted" /\ Mailing(t) /\ MailEnds(t, TRUE) /\ faults' = faults
      BY <2>4 DEF MailAnswered, Mailing
    <3> QED BY <3>1, MailEndsHolds DEF MailEnds
  <2>5. CASE MailRefused(t)
    <3>1. tc[t] = "post" /\ Mailing(t) /\ MailEnds(t, FALSE) /\ faults' = faults
      BY <2>5 DEF MailRefused, Mailing
    <3> QED BY <3>1, MailEndsHolds DEF MailEnds
  <2>6. CASE MailAnswerLost(t)
    <3>1. tc[t] = "accepted" /\ Mailing(t) /\ MailEnds(t, FALSE) /\ faults' = faults + 1
      BY <2>6 DEF MailAnswerLost, Mailing
    <3> QED BY <3>1, MailEndsHolds DEF MailEnds
  <2> QED BY <1>3, <2>1, <2>2, <2>3, <2>4, <2>5, <2>6 DEF ThreadStep
<1>4. ASSUME NEW r \in Recipients, Consent(r) \/ Unsubscribe(r)
      PROVE  MailingsInv' /\ delivery' = delivery
  BY <1>4, ConsentHolds DEF Consent, Unsubscribe
<1>5. CASE Restart
  BY <1>5, RestartMails DEF Restart
<1>6. CASE DayEnds
  <2>1. /\ UNCHANGED <<episode, delivery, waiting, optin, logged, pc, pass, frozen, tc, thread>>
        /\ UNCHANGED <<briefs, mails, overlaps, faults>> /\ over' = TRUE
    BY <1>6 DEF DayEnds, waitlist, passes, threads, history
  <2>2. PassesOK' /\ BriefsOK' /\ ThreadsOK' /\ MailsOK'
    BY <2>1, PassesUnmoved, ThreadsUnmoved
  <2>3. MailingsTypeOK'
    BY <2>1 DEF MailingsInv, MailingsTypeOK, Mailing
  <2> QED BY <2>1, <2>2, <2>3 DEF MailingsInv
<1> QED BY <1>1, <1>2, <1>3, <1>4, <1>5, <1>6 DEF MailingsNext

(* The invariant the others follow from                                    *)
THEOREM MailingsInvariance == MailingsSpec => []MailingsInv
<1>1. MailingsInit => MailingsInv
  BY MailingsStart
<1>2. MailingsInv /\ [MailingsNext]_mailingsVars => MailingsInv'
  BY MailingsStep
<1> QED BY <1>1, <1>2, PTL DEF MailingsSpec

(* For any addresses, requests, threads and faults: what the delivery      *)
(* table and the mail log say was sent, the provider has accepted          *)
(* (send_episode_to_subscribers, process_nurture).                         *)
THEOREM RecordsStayTrue == MailingsSpec => []RecordsAreTrue
<1>1. MailingsInv => RecordsAreTrue
  BY DEF MailingsInv, PassesOK, ThreadsOK, RecordsAreTrue
<1> QED BY <1>1, MailingsInvariance, PTL

(* ... nobody gets a brief or a mail twice but through a lost answer, a    *)
(* restart, or requests and threads that mail beside one another.          *)
THEOREM RepeatsAreAccounted == MailingsSpec => []NothingIsMailedTwice
<1>1. MailingsInv => NothingIsMailedTwice
  <2> SUFFICES ASSUME MailingsInv, NEW r \in Recipients
               PROVE  /\ briefs[r] <= 1 + faults + Cardinality({m \in Manual : pc[m] # "idle"})
                      /\ \A k \in Campaigns : mails[k][r] <= 1 + faults + overlaps
    BY DEF NothingIsMailedTwice
  <2> DEFINE here == {m \in Manual : pc[m] # "idle"}
  <2>1. Past(r) \in SUBSET here /\ here \in SUBSET Manual
    BY DEF Past
  <2>2. Cardinality(Past(r)) \in Nat /\ Cardinality(here) \in Nat /\ Cardinality(Past(r)) <= Cardinality(here)
    BY <2>1, CountsAre
  <2>4. briefs[r] <= (IF Charged(r) THEN 1 ELSE 0) + faults + Cardinality(Past(r))
    BY DEF MailingsInv, BriefsOK
  <2>5. briefs[r] <= 1 + faults + Cardinality(here)
    <3> HIDE DEF here
    <3> QED BY <2>2, <2>4, PassTypes
  <2>6. ASSUME NEW k \in Campaigns PROVE mails[k][r] <= 1 + faults + overlaps
    <3>1. Due(k, r) \in SUBSET Threads
      BY DEF Due
    <3>2. Cardinality(Due(k, r)) \in Nat
      BY <3>1, CountsAre
    <3>3. mails[k][r] + Cardinality(Due(k, r))
            <= faults + overlaps + (IF Settled(k, r) \/ Due(k, r) # {} THEN 1 ELSE 0)
      BY DEF MailingsInv, MailsOK
    <3> QED BY <3>2, <3>3, ThreadTypes
  <2> QED BY <2>5, <2>6
<1> QED BY <1>1, MailingsInvariance, PTL

(* ... a campaign mails nobody who had no consent in force when it started *)
(* or, for the welcome, when the address joined.                           *)
THEOREM ConsentComesFirst == MailingsSpec => []MailFollowsConsent
<1>1. MailingsInv => MailFollowsConsent
  BY DEF MailingsInv, ThreadsOK, MailFollowsConsent
<1> QED BY <1>1, MailingsInvariance, PTL

(* ... and a pass that fails, having loaded the row before another one     *)
(* delivered, does not take back what that one has recorded.               *)
THEOREM DeliveriesStand == MailingsSpec => SentStaysSent
<1>1. MailingsInv /\ [MailingsNext]_mailingsVars => [\A r \in Recipients : delivery[r] = "sent" => delivery'[r] = "sent"]_mailingsVars
  BY MailingsStep
<1> QED BY <1>1, MailingsInvariance, PTL DEF MailingsSpec, SentStaysSent
=============================================================================
