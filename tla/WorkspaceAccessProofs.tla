------------------------ MODULE WorkspaceAccessProofs ------------------------
(***************************************************************************)
(* Theorems about WorkspaceAccess, for any number of users, workspaces,    *)
(* sessions and requests, and of seeds and samplers that die.              *)
(***************************************************************************)
EXTENDS WorkspaceAccess, FiniteSetsExt, FiniteSetTheorems, WellFoundedInduction, TLAPS

\* A set of numbers that is not empty has a smallest.
LEMMA HasSmallest ==
  ASSUME NEW S \in SUBSET Nat, S # {}
  PROVE  \E x \in S : \A y \in S : x <= y
<1>1. PICK x \in S : \A y \in S : <<y, x>> \notin OpToRel(<, Nat)
  BY NatLessThanWellFounded, WFMin, Zenon
<1>2. \A y \in S : ~(y < x)
  BY <1>1, Zenon DEF OpToRel
<1> QED BY <1>2

-----------------------------------------------------------------------------
(* Ids.                                                                    *)

\* A set of ids given so far.
Prefix(used) == \E n \in Nat : used = 1..n

\* The next id is new, and there is one as long as not all are used.
LEMMA NextIdIsFresh ==
  ASSUME NEW N \in Nat, NEW used \in SUBSET (1..N), Prefix(used)
  PROVE  /\ NextId(used) \notin used
         /\ Prefix(used \cup {NextId(used)})
         /\ used # 1..N => NextId(used) \in 1..N
<1>1. PICK n \in Nat : used = 1..n
  BY DEF Prefix
<1>2. Cardinality(used) = n
  BY <1>1, FS_Interval
<1>3. n <= N
  BY <1>1
<1>4. used \cup {n + 1} = 1..(n + 1)
  BY <1>1
<1> QED BY <1>1, <1>2, <1>3, <1>4 DEF Prefix, NextId

-----------------------------------------------------------------------------
(* Types.                                                                  *)

Roles == {"ADMIN", "USER"}
Ops == ChatOps \cup SpaceOps \cup AdminOps \cup {"createSession", "createWorkspace", "none"}

AccountRow ==
  [status : {"none", "ACTIVE", "BANNED", "DELETED"}, email : Emails \cup {"none", "gone"},
   role : Roles, whole : BOOLEAN]
SpaceRow ==
  [owner : Users \cup {0}, type : {"STANDARD", "PERSONAL"}, status : {"none", "ACTIVE", "DELETED"},
   names : SUBSET Users]
ChatRow == [space : Spaces \cup {0}, there : BOOLEAN, writers : SUBSET Users]
RequestRow ==
  [pc : {"unsent", "sent", "known", "allowed", "checked", "done", "refused"},
   user : Users \cup {0}, space : Spaces \cup {0}, op : Ops, target : Nat,
   email : Emails \cup {"none"}, role : Roles, shown : SUBSET Chats,
   userWas : BOOLEAN, spaceWas : BOOLEAN]
ProvisionerRow ==
  [pc : {"unused", "off", "admin", "user", "list", "find", "create", "check", "enrol"},
   user : Users \cup {0}, space : Spaces \cup {0}, todo : SUBSET Users]

AccessTypes ==
  /\ accounts \in [Users -> AccountRow] /\ spaces \in [Spaces -> SpaceRow]
  /\ owners \in [Spaces -> SUBSET Users] /\ chats \in [Chats -> ChatRow]
  /\ tokens \subseteq Users /\ requests \in [Requests -> RequestRow]
  /\ provisioning \in [Provisioners -> ProvisionerRow] /\ provisioned \subseteq Users
  /\ seeds \in 0..MaxSeeds /\ halts \in 0..MaxHalts

\* New rows are rows.
LEMMA NewRows ==
  /\ Unsent \in RequestRow /\ Resting \in ProvisionerRow
  /\ NoAccount \in AccountRow /\ NoSpace \in SpaceRow /\ NoChat \in ChatRow
  /\ \A email \in Emails, role \in Roles, whole \in BOOLEAN :
       NewAccount(email, role, whole) \in AccountRow
  /\ \A u \in Users, type \in {"STANDARD", "PERSONAL"} : NewSpace(u, type) \in SpaceRow
<1>1. Unsent \in RequestRow
  BY DEF Unsent, RequestRow, Roles, Ops
<1>2. Resting \in ProvisionerRow
  BY DEF Resting, ProvisionerRow
<1>3. NoAccount \in AccountRow /\ NoSpace \in SpaceRow /\ NoChat \in ChatRow
  BY DEF NoAccount, AccountRow, NoSpace, SpaceRow, NoChat, ChatRow, Roles
<1>4. \A email \in Emails, role \in Roles, whole \in BOOLEAN :
        NewAccount(email, role, whole) \in AccountRow
  BY DEF NewAccount, AccountRow
<1>5. \A u \in Users, type \in {"STANDARD", "PERSONAL"} : NewSpace(u, type) \in SpaceRow
  BY DEF NewSpace, SpaceRow
<1> QED BY <1>1, <1>2, <1>3, <1>4, <1>5

\* What becomes of a request is a request.
LEMMA RequestRows ==
  ASSUME NEW row \in RequestRow
  PROVE  /\ \A pc \in {"sent", "known", "allowed", "checked", "refused"} :
              [row EXCEPT !.pc = pc] \in RequestRow
         /\ \A role \in Roles : [row EXCEPT !.role = role] \in RequestRow
         /\ \A shown \in SUBSET Chats : Finished(row, shown) \in RequestRow
         /\ \A b \in BOOLEAN : [row EXCEPT !.userWas = b] \in RequestRow
<1>1. \A pc \in {"sent", "known", "allowed", "checked", "refused"} :
        [row EXCEPT !.pc = pc] \in RequestRow
  BY DEF RequestRow
<1>2. \A role \in Roles : [row EXCEPT !.role = role] \in RequestRow
  BY DEF RequestRow
<1>3. \A shown \in SUBSET Chats : Finished(row, shown) \in RequestRow
  BY DEF RequestRow, Finished
<1>4. \A b \in BOOLEAN : [row EXCEPT !.userWas = b] \in RequestRow
  BY DEF RequestRow
<1> QED BY <1>1, <1>2, <1>3, <1>4

\* A provisioner goes on with one of the users of its list.
LEMMA EnsuringRow ==
  ASSUME NEW row \in ProvisionerRow, NEW todo \in SUBSET Users
  PROVE  /\ Ensuring(row, todo) \in ProvisionerRow
         /\ \/ Ensuring(row, todo) = Resting
            \/ /\ Ensuring(row, todo).pc = "find"
               /\ Ensuring(row, todo).user \in todo
               /\ Ensuring(row, todo).todo \subseteq todo
<1>1. CASE todo = {}
  BY <1>1, NewRows DEF Ensuring
<1>2. CASE todo # {}
  <2> DEFINE u == CHOOSE x \in todo : \A y \in todo : x <= y
  <2>1. u \in todo
    <3>1. todo \in SUBSET Nat
      BY DEF Users
    <3> QED BY <1>2, <3>1, HasSmallest
  <2>2. Ensuring(row, todo) = [row EXCEPT !.pc = "find", !.user = u, !.space = 0, !.todo = todo \ {u}]
    BY <1>2 DEF Ensuring
  <2> HIDE DEF u
  <2> QED BY <2>1, <2>2 DEF ProvisionerRow
<1> QED BY <1>1, <1>2

-----------------------------------------------------------------------------
(* The inductive invariant.                                                *)

Created == {c \in Chats : chats[c].space # 0}

SpaceInv(w) ==
  /\ spaces[w].owner \in Registered
  /\ spaces[w].names = {spaces[w].owner}
  /\ spaces[w].type = "PERSONAL" => spaces[w].status = "ACTIVE"
  /\ spaces[w].type = "STANDARD" => owners[w] = {spaces[w].owner}

\* Ids are given in order; accounts and workspaces are whole.
TableInv ==
  /\ Prefix(Registered) /\ Prefix(Made)
  /\ tokens \subseteq Registered /\ provisioned \subseteq Registered
  /\ \A w \in Made : SpaceInv(w)
  /\ \A w \in Spaces : owners[w] \subseteq {spaces[w].owner}
  /\ \A u \in Users : \A w, x \in PersonalOf(u) : w = x
  /\ \A u, v \in Registered :
       accounts[u].email \in Emails /\ accounts[u].email = accounts[v].email => u = v
  /\ \A u \in Registered : accounts[u].whole \/ u \in provisioned => HasWorkspace(u)

\* Only the owner of its workspace has written to a session.
ChatInv ==
  /\ Prefix(Created)
  /\ \A c \in Created : chats[c].space \in Made
  /\ \A c \in Chats : chats[c].there =>
       c \in Created /\ chats[c].writers \subseteq {spaces[chats[c].space].owner}

\* Provisioning is about a user there is and, once it has found one, about a workspace of theirs.
ProvisionerInv(p) ==
  /\ provisioning[p].todo \subseteq Registered
  /\ provisioning[p].pc \in {"find", "create", "check", "enrol"} =>
       provisioning[p].user \in Registered
  /\ provisioning[p].pc \in {"check", "enrol"} =>
       provisioning[p].space \in PersonalOf(provisioning[p].user)

\* What a request names is there.
RequestNames(row) ==
  row.pc \in {"sent", "known", "allowed", "checked"} =>
    /\ row.user \in Registered /\ row.space \in Made
    /\ row.op \in ChatOps => row.target \in Created
    /\ row.op \in SpaceOps \cup {"adminDeleteWorkspace"} => row.target \in Made
    /\ row.op \in UserOps => row.target \in Registered
    /\ row.op = "createUser" => row.email \in Emails

\* Its user was active, and its workspace was active and theirs, since it was sent.
RequestWas(row) ==
  /\ row.pc = "sent" /\ accounts[row.user].status = "ACTIVE" => row.userWas
  /\ row.pc \in {"known", "allowed", "checked", "done"} => row.userWas
  /\ /\ row.pc \in {"sent", "known"}
     /\ spaces[row.space].status = "ACTIVE" /\ spaces[row.space].owner = row.user
     => row.spaceWas
  /\ row.pc \in {"allowed", "checked", "done"} => row.spaceWas

\* What authenticate, attachWorkspaceContext and the first read of the request have seen
\* and nobody changes any more.
RequestMay(row) ==
  /\ row.pc = "known" => row.role = accounts[row.user].role
  /\ row.pc \in {"allowed", "checked", "done"} =>
       /\ row.user \in Registered
       /\ row.op \in AdminOps => accounts[row.user].role = "ADMIN"
  /\ row.pc \in {"allowed", "checked"} => spaces[row.space].owner = row.user
  /\ row.pc = "checked" =>
       /\ row.op \in {"createMessage", "getMessages"} => chats[row.target].space = row.space
       /\ row.op = "updateWorkspace" => spaces[row.target].owner = row.user
       /\ row.op \in {"deleteWorkspace", "adminDeleteWorkspace"} =>
            spaces[row.target].type = "STANDARD"
  /\ row.pc = "done" =>
       \A c \in row.shown : c \in Created /\ spaces[chats[c].space].owner = row.user

RequestInv(row) == RequestNames(row) /\ RequestWas(row) /\ RequestMay(row)

AccessInv ==
  /\ AccessTypes /\ TableInv /\ ChatInv
  /\ \A p \in Provisioners : ProvisionerInv(p)
  /\ \A r \in Requests : RequestInv(requests[r])

-----------------------------------------------------------------------------
(* What no step takes back.                                                *)

Grows ==
  /\ \A u \in Registered : u \in Registered' /\ accounts'[u].role = accounts[u].role
  /\ \A w \in Made :
       /\ w \in Made'
       /\ spaces'[w].owner = spaces[w].owner /\ spaces'[w].type = spaces[w].type
       /\ spaces[w].status = "DELETED" => spaces'[w].status = "DELETED"
       /\ spaces'[w].status = "ACTIVE" => spaces[w].status = "ACTIVE"
  /\ \A c \in Created :
       /\ c \in Created' /\ chats'[c].space = chats[c].space
       /\ chats'[c].there => chats[c].there

\* An account becomes active again only with the knowledge of its requests.
StatusKnown(row, was) ==
  row.pc = "sent" /\ accounts'[row.user].status = "ACTIVE" =>
    accounts[row.user].status = "ACTIVE" \/ was

-----------------------------------------------------------------------------
(* The steps of a request, the ones that only move it along first.         *)

\* A step of a request changes that request only, but for updateUserStatus.
OneRequest(r, row) == requests' = [requests EXCEPT ![r] = row]

\* A request that moves on to its next check is a request.
LEMMA OneRequestType ==
  ASSUME AccessTypes, NEW r \in Requests, NEW row \in RequestRow, OneRequest(r, row)
  PROVE  requests' \in [Requests -> RequestRow]
BY DEF AccessTypes, OneRequest

\* The row of a request that is sent.
SentRow(u, w, op, target, email) ==
  [Unsent EXCEPT !.pc = "sent", !.user = u, !.space = w, !.op = op, !.target = target,
     !.email = email, !.userWas = accounts[u].status = "ACTIVE",
     !.spaceWas = spaces[w].owner = u /\ spaces[w].status = "ACTIVE"]

\* Sending keeps the types.
LEMMA SendType ==
  ASSUME AccessTypes, NEW r \in Requests, NEW u \in Users, NEW w \in Spaces,
         NEW op \in Ops, NEW target \in Nat, NEW email \in Emails \cup {"none"},
         Send(r, u, w, op, target, email)
  PROVE  /\ SentRow(u, w, op, target, email) \in RequestRow
         /\ requests' \in [Requests -> RequestRow]
<1> DEFINE userWas == accounts[u].status = "ACTIVE"
           spaceWas == spaces[w].owner = u /\ spaces[w].status = "ACTIVE"
<1>1. userWas \in BOOLEAN /\ spaceWas \in BOOLEAN
  OBVIOUS
<1>2. SentRow(u, w, op, target, email) =
        [Unsent EXCEPT !.pc = "sent", !.user = u, !.space = w, !.op = op, !.target = target,
           !.email = email, !.userWas = userWas, !.spaceWas = spaceWas]
  BY DEF SentRow
<1> HIDE DEF userWas, spaceWas
<1>3. SentRow(u, w, op, target, email) \in RequestRow
  BY <1>1, <1>2, NewRows DEF RequestRow
<1>4. requests' = [requests EXCEPT ![r] = SentRow(u, w, op, target, email)]
  BY DEF Send, SentRow
<1> QED BY <1>3, <1>4, OneRequestType DEF OneRequest

\* What updateUserStatus makes of each request.
LEMMA UserStatusRows ==
  ASSUME AccessTypes, NEW r \in Requests, UpdateUserStatus(r)
  PROVE  \A q \in Requests : \E b \in BOOLEAN :
           LET row == IF q = r THEN Finished(requests[r], {}) ELSE requests[q]
           IN /\ requests'[q] = [row EXCEPT !.userWas = b]
              /\ row \in RequestRow
              /\ b <=> row.userWas \/ (requests[r].op = "activateUser"
                                       /\ requests[q].user = requests[r].target)
<1> SUFFICES ASSUME NEW q \in Requests
             PROVE  \E b \in BOOLEAN :
                      LET row == IF q = r THEN Finished(requests[r], {}) ELSE requests[q]
                      IN /\ requests'[q] = [row EXCEPT !.userWas = b]
                         /\ row \in RequestRow
                         /\ b <=> row.userWas \/ (requests[r].op = "activateUser"
                                                  /\ requests[q].user = requests[r].target)
  OBVIOUS
<1> DEFINE row == IF q = r THEN Finished(requests[r], {}) ELSE requests[q]
           knows == requests[r].op = "activateUser" /\ requests[q].user = requests[r].target
           b == row.userWas \/ knows
<1>1. row \in RequestRow
  <2>1. requests[r] \in RequestRow /\ requests[q] \in RequestRow
    BY DEF AccessTypes
  <2>2. Finished(requests[r], {}) \in RequestRow
    BY <2>1, RequestRows
  <2> QED BY <2>1, <2>2
<1>2. requests'[q] = [row EXCEPT !.userWas = @ \/ knows]
  BY DEF UpdateUserStatus
<1>3. b \in BOOLEAN
  OBVIOUS
<1> HIDE DEF row, knows
<1>4. requests'[q] = [row EXCEPT !.userWas = b]
  BY <1>2
<1> QED BY <1>1, <1>3, <1>4 DEF row, knows

\* updateUserStatus keeps the types.
LEMMA UserStatusType ==
  ASSUME AccessTypes, NEW r \in Requests, UpdateUserStatus(r)
  PROVE  /\ requests' \in [Requests -> RequestRow]
         /\ accounts' \in [Users -> AccountRow]
<1>1. \A q \in Requests : requests'[q] \in RequestRow
  <2> TAKE q \in Requests
  <2>1. PICK b \in BOOLEAN, row \in RequestRow : requests'[q] = [row EXCEPT !.userWas = b]
    BY UserStatusRows, ZenonT(60)
  <2> QED BY <2>1, RequestRows
<1>2. requests' \in [Requests -> RequestRow]
  <2>1. requests' = [q \in Requests |-> requests'[q]]
    BY DEF UpdateUserStatus
  <2> QED BY <1>1, <2>1
<1>3. accounts' \in [Users -> AccountRow]
  <2> DEFINE u == requests[r].target
             status == CASE requests[r].op = "banUser" -> "BANNED"
                         [] requests[r].op = "activateUser" -> "ACTIVE"
                         [] OTHER -> "DELETED"
             account == [accounts[u] EXCEPT !.status = status]
             email == IF requests[r].op = "deleteUser" THEN "gone" ELSE account.email
  <2>1. CASE u \in Users
    <3>1. status \in {"BANNED", "ACTIVE", "DELETED"}
      OBVIOUS
    <3>2. account \in AccountRow
      <4> HIDE DEF status
      <4> QED BY <2>1, <3>1 DEF AccountRow, AccessTypes
    <3>3. email \in Emails \cup {"none", "gone"}
      <4> HIDE DEF account
      <4> QED BY <3>2 DEF AccountRow
    <3>4. [account EXCEPT !.email = email] \in AccountRow
      <4> HIDE DEF account, email
      <4> QED BY <3>2, <3>3 DEF AccountRow
    <3>5. accounts' = [accounts EXCEPT ![u] = [account EXCEPT !.email = email]]
      <4>1. accounts' = [accounts EXCEPT ![u].status = status,
                                         ![u].email = IF requests[r].op = "deleteUser" THEN "gone" ELSE @]
        BY DEF UpdateUserStatus
      <4> HIDE DEF status
      <4> QED BY <2>1, <4>1 DEF AccessTypes
    <3> HIDE DEF account, email
    <3> QED BY <3>4, <3>5 DEF AccessTypes
  <2>2. CASE u \notin Users
    BY <2>2 DEF UpdateUserStatus, AccessTypes
  <2> QED BY <2>1, <2>2
<1> QED BY <1>2, <1>3

-----------------------------------------------------------------------------
(* What changes the tables.                                                *)

\* A new workspace leaves the others alone.
LEMMA SpaceAdded ==
  ASSUME AccessInv, NEW u \in Users, NEW type \in {"STANDARD", "PERSONAL"}, NEW w, w = NextId(Made),
         Made # Spaces, spaces' = [spaces EXCEPT ![w] = NewSpace(u, type)]
  PROVE  /\ w \in Spaces /\ w \notin Made /\ Made' = Made \cup {w} /\ Prefix(Made')
         /\ spaces' \in [Spaces -> SpaceRow]
         /\ spaces'[w] = NewSpace(u, type)
         /\ \A x \in Spaces \ {w} : spaces'[x] = spaces[x]
         /\ owners[w] = {}
<1>1. w \in Spaces /\ w \notin Made /\ Prefix(Made \cup {w})
  <2>1. MaxSpaces \in Nat /\ Made \in SUBSET (1..MaxSpaces) /\ Prefix(Made) /\ Made # 1..MaxSpaces
    BY AccessConstants DEF Made, Spaces, AccessInv, TableInv
  <2> HIDE DEF Made
  <2> QED BY <2>1, NextIdIsFresh DEF Spaces
<1>2. NewSpace(u, type) \in SpaceRow
  BY NewRows
<1>3. /\ spaces' \in [Spaces -> SpaceRow]
      /\ spaces'[w] = NewSpace(u, type)
      /\ \A x \in Spaces \ {w} : spaces'[x] = spaces[x]
  BY <1>1, <1>2 DEF AccessInv, AccessTypes
<1>4. Made' = Made \cup {w}
  <2>1. spaces'[w].owner # 0
    BY <1>3 DEF NewSpace, Users
  <2> QED BY <1>1, <1>3, <2>1 DEF Made
<1>5. owners[w] = {}
  <2>1. spaces[w].owner = 0
    BY <1>1 DEF Made
  <2>2. owners[w] \subseteq {0} /\ owners[w] \subseteq Users
    BY <1>1, <2>1 DEF AccessInv, TableInv, AccessTypes
  <2> QED BY <2>2 DEF Users
<1> QED BY <1>1, <1>3, <1>4, <1>5

\* So does a new account.
LEMMA AccountAdded ==
  ASSUME AccessInv, NEW email \in Emails, NEW role \in Roles, NEW whole \in BOOLEAN, NEW u,
         u = NextId(Registered), Registered # Users,
         accounts' = [accounts EXCEPT ![u] = NewAccount(email, role, whole)]
  PROVE  /\ u \in Users /\ u \notin Registered /\ Registered' = Registered \cup {u}
         /\ Prefix(Registered')
         /\ accounts' \in [Users -> AccountRow]
         /\ accounts'[u] = NewAccount(email, role, whole)
         /\ \A v \in Users \ {u} : accounts'[v] = accounts[v]
<1>1. u \in Users /\ u \notin Registered /\ Prefix(Registered \cup {u})
  BY NextIdIsFresh, AccessConstants DEF Registered, Users, AccessInv, TableInv
<1>2. NewAccount(email, role, whole) \in AccountRow
  BY NewRows
<1>3. /\ accounts' \in [Users -> AccountRow]
      /\ accounts'[u] = NewAccount(email, role, whole)
      /\ \A v \in Users \ {u} : accounts'[v] = accounts[v]
  BY <1>1, <1>2 DEF AccessInv, AccessTypes
<1>4. Registered' = Registered \cup {u}
  <2>1. accounts'[u].status # "none"
    BY <1>3 DEF NewAccount
  <2> QED BY <1>1, <1>3, <2>1 DEF Registered
<1> QED BY <1>1, <1>3, <1>4

\* Nobody who is not registered has a workspace, and who has one personal workspace has no other.
LEMMA PersonalFacts ==
  ASSUME AccessInv
  PROVE  /\ \A u \in Users : PersonalOf(u) # {} => u \in Registered
         /\ \A u \in Users : PersonalOf(u) \subseteq Made
         /\ Made \subseteq Spaces /\ Registered \subseteq Users
BY DEF AccessInv, TableInv, SpaceInv, PersonalOf, Made, Registered

\* What the tables promise after a step, from what it may change.
TablesStep ==
  /\ accounts' \in [Users -> AccountRow] /\ spaces' \in [Spaces -> SpaceRow]
  /\ owners' \in [Spaces -> SUBSET Users] /\ provisioned' \subseteq Users
  /\ TableInv' /\ Grows

\* A workspace that keeps its row and its members serves its user as before.
LEMMA WorkspaceKept ==
  ASSUME NEW u, NEW w, w \in PersonalOf(u), spaces[w].status = "ACTIVE", owners[w] = {u},
         w \in Made', spaces'[w].owner = spaces[w].owner, spaces'[w].type = spaces[w].type,
         spaces'[w].status = "ACTIVE", owners'[w] = owners[w]
  PROVE  HasWorkspace(u)'
BY DEF HasWorkspace, PersonalOf

\* A step that leaves the tables alone.
LEMMA UnchangedTables ==
  ASSUME AccessInv, UNCHANGED <<accounts, spaces, owners, provisioned, chats>>,
         tokens' \subseteq Registered
  PROVE  TablesStep
<1>1. Registered' = Registered /\ Made' = Made /\ Created' = Created
  BY DEF Registered, Made, Created
<1>2. \A u : PersonalOf(u)' = PersonalOf(u) /\ (HasWorkspace(u)' <=> HasWorkspace(u))
  BY DEF HasWorkspace, PersonalOf, Made
<1>3. \A w : SpaceInv(w)' <=> SpaceInv(w)
  BY <1>1 DEF SpaceInv
<1>4. TableInv'
  BY <1>1, <1>2, <1>3 DEF AccessInv, TableInv
<1>5. Grows
  BY <1>1 DEF Grows
<1> QED BY <1>4, <1>5 DEF TablesStep, AccessInv, AccessTypes

\* The seed creates a user that it has not found.
LEMMA UpsertTables ==
  ASSUME AccessInv, NEW email \in SeededEmails, NEW role \in Roles, NEW next, Upsert(email, role, next)
  PROVE  TablesStep
<1>1. UNCHANGED <<spaces, owners, chats, tokens, provisioned>>
  BY DEF Upsert
<1>2. CASE UNCHANGED accounts
  BY <1>1, <1>2, UnchangedTables DEF AccessInv, TableInv
<1>3. CASE /\ Addressed(email) = {} /\ Registered # Users
           /\ accounts' = [accounts EXCEPT ![NextId(Registered)] = NewAccount(email, role, FALSE)]
  <2> DEFINE u == NextId(Registered)
  <2>1. /\ u \in Users /\ u \notin Registered /\ Registered' = Registered \cup {u}
        /\ Prefix(Registered')
        /\ accounts' \in [Users -> AccountRow]
        /\ accounts'[u] = NewAccount(email, role, FALSE)
        /\ \A v \in Users \ {u} : accounts'[v] = accounts[v]
    BY <1>3, AccountAdded DEF Emails
  <2> HIDE DEF u
  <2>2. Grows
    <3>1. \A v \in Registered : v \in Registered' /\ accounts'[v] = accounts[v]
      BY <2>1 DEF Registered
    <3>2. Made' = Made /\ Created' = Created
      BY <1>1 DEF Made, Created
    <3> QED BY <1>1, <3>1, <3>2 DEF Grows
  <2>3. \A v, x \in Registered' :
          accounts'[v].email \in Emails /\ accounts'[v].email = accounts'[x].email => v = x
    <3>1. \A v \in Registered : accounts'[v] = accounts[v] /\ accounts[v].email # email
      BY <1>3, <2>1 DEF Addressed, Registered
    <3>2. accounts'[u].email = email
      BY <2>1 DEF NewAccount
    <3>3. \A v, x \in Registered :
            accounts[v].email \in Emails /\ accounts[v].email = accounts[x].email => v = x
      BY DEF AccessInv, TableInv
    <3> TAKE v, x \in Registered'
    <3> HAVE accounts'[v].email \in Emails /\ accounts'[v].email = accounts'[x].email
    <3>4. CASE v = u
      BY <2>1, <3>1, <3>2, <3>4
    <3>5. CASE x = u
      BY <2>1, <3>1, <3>2, <3>5
    <3>6. CASE v \in Registered /\ x \in Registered
      BY <3>1, <3>3, <3>6
    <3> QED BY <2>1, <3>4, <3>5, <3>6
  <2>4. \A v \in Registered' : accounts'[v].whole \/ v \in provisioned => HasWorkspace(v)'
    <3>1. accounts'[u].whole = FALSE /\ u \notin provisioned
      BY <2>1 DEF NewAccount, AccessInv, TableInv
    <3>2. \A v \in Registered : HasWorkspace(v) => HasWorkspace(v)'
      BY <1>1 DEF HasWorkspace, PersonalOf, Made
    <3>3. \A v \in Registered : accounts'[v] = accounts[v]
      BY <2>1 DEF Registered
    <3> QED BY <2>1, <3>1, <3>2, <3>3 DEF AccessInv, TableInv
  <2>5. TableInv'
    BY <1>1, <2>1, <2>3, <2>4 DEF TableInv, AccessInv, SpaceInv, PersonalOf, Made
  <2> QED BY <1>1, <2>1, <2>2, <2>5 DEF TablesStep, AccessInv, AccessTypes
<1> QED BY <1>2, <1>3 DEF Upsert

\* The part of it that is about workspaces and their members.
SpacesStep ==
  /\ spaces' \in [Spaces -> SpaceRow] /\ owners' \in [Spaces -> SUBSET Users]
  /\ Prefix(Made') /\ \A w \in Made' : SpaceInv(w)'
  /\ \A w \in Spaces : owners'[w] \subseteq {spaces'[w].owner}
  /\ \A u \in Users : \A w, x \in PersonalOf(u)' : w = x
  /\ \A w \in Made :
       /\ w \in Made'
       /\ spaces'[w].owner = spaces[w].owner /\ spaces'[w].type = spaces[w].type
       /\ spaces[w].status = "DELETED" => spaces'[w].status = "DELETED"
       /\ spaces'[w].status = "ACTIVE" => spaces[w].status = "ACTIVE"
  /\ \A u \in Users : HasWorkspace(u) => HasWorkspace(u)'

\* The part that is about accounts.
AccountsStep ==
  /\ accounts' \in [Users -> AccountRow] /\ Prefix(Registered')
  /\ \A u, v \in Registered' :
       accounts'[u].email \in Emails /\ accounts'[u].email = accounts'[v].email => u = v
  /\ \A u \in Registered : u \in Registered' /\ accounts'[u].role = accounts[u].role

\* The parts make the whole, when every account that should have a workspace has it.
LEMMA TablesTogether ==
  ASSUME AccessInv, AccountsStep, SpacesStep, UNCHANGED chats, UNCHANGED tokens,
         provisioned' \subseteq Registered',
         \A u \in Registered' : accounts'[u].whole \/ u \in provisioned' => HasWorkspace(u)'
  PROVE  TablesStep
<1>1. tokens' \subseteq Registered'
  BY DEF AccessInv, TableInv, AccountsStep
<1>2. TableInv'
  BY <1>1 DEF TableInv, AccountsStep, SpacesStep
<1>3. Created' = Created
  BY DEF Created
<1>4. Grows
  BY <1>3 DEF Grows, AccountsStep, SpacesStep
<1>5. Registered' \subseteq Users
  BY DEF Registered
<1> QED BY <1>2, <1>4, <1>5 DEF TablesStep, AccountsStep, SpacesStep

\* Accounts that are left alone.
LEMMA SameAccounts ==
  ASSUME AccessInv, UNCHANGED accounts
  PROVE  AccountsStep /\ Registered' = Registered
<1>1. Registered' = Registered
  BY DEF Registered
<1> QED BY <1>1 DEF AccessInv, AccessTypes, TableInv, AccountsStep

\* A new workspace, of a user who has no personal one if that is what it is.
LEMMA SpacesAdded ==
  ASSUME AccessInv, NEW u \in Users, u \in Registered', NEW type \in {"STANDARD", "PERSONAL"},
         NEW w, w = NextId(Made), Made # Spaces, spaces' = [spaces EXCEPT ![w] = NewSpace(u, type)],
         owners' = [owners EXCEPT ![w] = {u}] \/ (owners' = owners /\ type = "PERSONAL"),
         type = "PERSONAL" => PersonalOf(u) = {},
         Registered \subseteq Registered'
  PROVE  /\ SpacesStep /\ w \in Spaces /\ w \notin Made
         /\ type = "PERSONAL" => w \in PersonalOf(u)'
         /\ type = "PERSONAL" /\ owners'[w] = {u} => HasWorkspace(u)'
<1>1. /\ w \in Spaces /\ w \notin Made /\ Made' = Made \cup {w} /\ Prefix(Made')
      /\ spaces' \in [Spaces -> SpaceRow]
      /\ spaces'[w] = NewSpace(u, type)
      /\ \A x \in Spaces \ {w} : spaces'[x] = spaces[x]
      /\ owners[w] = {}
  BY SpaceAdded
<1>2. /\ spaces'[w].owner = u /\ spaces'[w].type = type /\ spaces'[w].status = "ACTIVE"
      /\ spaces'[w].names = {u}
  BY <1>1 DEF NewSpace
<1>3. /\ owners' \in [Spaces -> SUBSET Users]
      /\ \A x \in Spaces \ {w} : owners'[x] = owners[x]
      /\ owners'[w] = {u} \/ (owners'[w] = {} /\ type = "PERSONAL")
  BY <1>1 DEF AccessInv, AccessTypes
<1>4. \A x \in Made : x \in Spaces \ {w} /\ x \in Made' /\ spaces'[x] = spaces[x] /\ owners'[x] = owners[x]
  BY <1>1, <1>3 DEF Made
<1>5. \A x \in Made' : SpaceInv(x)'
  <2>1. SpaceInv(w)'
    BY <1>2, <1>3 DEF SpaceInv
  <2>2. \A x \in Made : SpaceInv(x) => SpaceInv(x)'
    BY <1>4 DEF SpaceInv
  <2> QED BY <1>1, <2>1, <2>2 DEF AccessInv, TableInv
<1>6. \A x \in Spaces : owners'[x] \subseteq {spaces'[x].owner}
  BY <1>1, <1>2, <1>3 DEF AccessInv, TableInv
<1>7. \A v \in Users : \A x \in PersonalOf(v)' :
        x \in PersonalOf(v) \/ (x = w /\ v = u /\ type = "PERSONAL")
  BY <1>1, <1>2, <1>4 DEF PersonalOf
<1>8. \A v \in Users : \A x, y \in PersonalOf(v)' : x = y
  BY <1>7 DEF AccessInv, TableInv
<1>9. \A v \in Users : HasWorkspace(v) => HasWorkspace(v)'
  <2> SUFFICES ASSUME NEW v \in Users, HasWorkspace(v) PROVE HasWorkspace(v)'
    OBVIOUS
  <2>1. PICK x \in PersonalOf(v) : spaces[x].status = "ACTIVE" /\ owners[x] = {v}
    BY DEF HasWorkspace
  <2>2. x \in Made
    BY DEF PersonalOf
  <2> QED BY <1>4, <2>1, <2>2, WorkspaceKept
<1>10. type = "PERSONAL" => w \in PersonalOf(u)'
  BY <1>1, <1>2 DEF PersonalOf
<1>11. type = "PERSONAL" /\ owners'[w] = {u} => HasWorkspace(u)'
  BY <1>2, <1>10 DEF HasWorkspace
<1> QED BY <1>1, <1>3, <1>4, <1>5, <1>6, <1>8, <1>9, <1>10, <1>11 DEF SpacesStep

\* A workspace that keeps its owner, its type and, if it is personal, its status.
LEMMA SpacesChanged ==
  ASSUME AccessInv, NEW w \in Made, NEW row \in SpaceRow, NEW members \in SUBSET Users,
         row.owner = spaces[w].owner, row.type = spaces[w].type, row.names = spaces[w].names,
         row.status = spaces[w].status \/ (row.type = "STANDARD" /\ row.status = "DELETED"),
         spaces' = [spaces EXCEPT ![w] = row],
         members = owners[w] \/ members = {spaces[w].owner},
         owners' = [owners EXCEPT ![w] = members],
         Registered \subseteq Registered'
  PROVE  /\ SpacesStep /\ Made' = Made
         /\ \A u \in Users : PersonalOf(u)' = PersonalOf(u)
<1>1. w \in Spaces /\ Made \subseteq Spaces
  BY DEF Made
<1>2. /\ spaces' \in [Spaces -> SpaceRow] /\ owners' \in [Spaces -> SUBSET Users]
      /\ spaces'[w] = row /\ owners'[w] = members
      /\ \A x \in Spaces \ {w} : spaces'[x] = spaces[x] /\ owners'[x] = owners[x]
  BY <1>1 DEF AccessInv, AccessTypes
<1>3. \A x \in Spaces : /\ spaces'[x].owner = spaces[x].owner /\ spaces'[x].type = spaces[x].type
                        /\ spaces'[x].names = spaces[x].names
  BY <1>2
<1>4. Made' = Made
  BY <1>3 DEF Made
<1>5. \A u \in Users : PersonalOf(u)' = PersonalOf(u)
  BY <1>1, <1>3, <1>4 DEF PersonalOf
<1>6. \A x \in Made' : SpaceInv(x)'
  <2> SUFFICES ASSUME NEW x \in Made PROVE SpaceInv(x)'
    BY <1>4
  <2>1. SpaceInv(x)
    BY DEF AccessInv, TableInv
  <2>2. CASE x = w
    <3>1. row.type = "PERSONAL" => row.status = "ACTIVE"
      BY <2>1, <2>2 DEF SpaceInv
    <3>2. row.type = "STANDARD" => members = {row.owner}
      BY <2>1, <2>2 DEF SpaceInv
    <3> QED BY <1>2, <2>1, <2>2, <3>1, <3>2 DEF SpaceInv
  <2>3. CASE x # w
    BY <1>1, <1>2, <2>1, <2>3 DEF SpaceInv
  <2> QED BY <2>2, <2>3
<1>7. \A x \in Spaces : owners'[x] \subseteq {spaces'[x].owner}
  <2>1. owners[w] \subseteq {spaces[w].owner}
    BY <1>1 DEF AccessInv, TableInv
  <2> QED BY <1>2, <2>1 DEF AccessInv, TableInv
<1>8. \A x \in Made :
       /\ spaces[x].status = "DELETED" => spaces'[x].status = "DELETED"
       /\ spaces'[x].status = "ACTIVE" => spaces[x].status = "ACTIVE"
  BY <1>1, <1>2
<1>9. \A u \in Users : HasWorkspace(u) => HasWorkspace(u)'
  <2> SUFFICES ASSUME NEW u \in Users, HasWorkspace(u) PROVE HasWorkspace(u)'
    OBVIOUS
  <2>1. PICK x \in PersonalOf(u) : spaces[x].status = "ACTIVE" /\ owners[x] = {u}
    BY DEF HasWorkspace
  <2>2. x \in Made /\ x \in Spaces /\ spaces[x].owner = u /\ spaces[x].type = "PERSONAL"
    BY <1>1 DEF PersonalOf
  <2>3. spaces'[x].status = "ACTIVE"
    BY <1>2, <2>1, <2>2
  <2>4. owners'[x] = owners[x]
    BY <1>2, <2>1, <2>2
  <2> QED BY <1>3, <1>4, <2>1, <2>2, <2>3, <2>4, WorkspaceKept
<1>10. /\ Prefix(Made') /\ \A u \in Users : \A x, y \in PersonalOf(u)' : x = y
  BY <1>4, <1>5 DEF AccessInv, TableInv
<1>11. \A x \in Made :
       /\ x \in Made'
       /\ spaces'[x].owner = spaces[x].owner /\ spaces'[x].type = spaces[x].type
  BY <1>1, <1>3, <1>4
<1> QED BY <1>2, <1>4, <1>5, <1>6, <1>7, <1>8, <1>9, <1>10, <1>11 DEF SpacesStep

\* Workspaces that are left alone.
LEMMA SameSpaces ==
  ASSUME AccessInv, UNCHANGED <<spaces, owners>>, Registered \subseteq Registered'
  PROVE  SpacesStep /\ Made' = Made /\ \A u : PersonalOf(u)' = PersonalOf(u)
<1>1. Made' = Made
  BY DEF Made
<1>2. \A u : PersonalOf(u)' = PersonalOf(u) /\ (HasWorkspace(u)' <=> HasWorkspace(u))
  BY <1>1 DEF HasWorkspace, PersonalOf
<1>3. \A w \in Made : SpaceInv(w) => SpaceInv(w)'
  BY <1>1 DEF SpaceInv
<1> QED BY <1>1, <1>2, <1>3 DEF AccessInv, AccessTypes, TableInv, SpacesStep

\* A provisioner creates the personal workspace that its user does not have.
LEMMA CreatePersonalTables ==
  ASSUME AccessInv, NEW p \in Provisioners, CreatePersonal(p)
  PROVE  /\ TablesStep
         /\ \E w \in PersonalOf(provisioning[p].user)' :
              provisioning' = [provisioning EXCEPT ![p].pc = "check", ![p].space = w]
<1>0. PICK u : u = provisioning[p].user
  OBVIOUS
<1>1. UNCHANGED <<accounts, owners, chats, tokens, provisioned>>
  BY DEF CreatePersonal
<1>2. u \in Registered /\ u \in Users
  BY <1>0 DEF CreatePersonal, AccessInv, ProvisionerInv, Registered
<1>3. AccountsStep /\ Registered' = Registered
  BY <1>1, SameAccounts
<1>4. ASSUME NEW w \in PersonalOf(u), UNCHANGED spaces,
             provisioning' = [provisioning EXCEPT ![p].pc = "check", ![p].space = w]
      PROVE  /\ TablesStep
             /\ \E x \in PersonalOf(provisioning[p].user)' :
                  provisioning' = [provisioning EXCEPT ![p].pc = "check", ![p].space = x]
  <2>1. TablesStep
    BY <1>1, <1>4, UnchangedTables DEF AccessInv, TableInv
  <2>2. \A x \in PersonalOf(u) : x \in PersonalOf(u) /\ spaces' = spaces => w \in Made'
    BY <1>4 DEF PersonalOf, Made
  <2>3. /\ w \in Made' /\ spaces'[w].owner = u /\ spaces'[w].type = "PERSONAL"
    BY <1>4, <2>2 DEF PersonalOf
  <2>4. provisioning'[p].user = u
    BY <1>0, <1>4 DEF AccessInv, AccessTypes, ProvisionerRow
  <2> QED BY <1>0, <1>4, <2>1, <2>3, <2>4 DEF PersonalOf
<1>5. ASSUME PersonalOf(u) = {}, Made # Spaces,
             spaces' = [spaces EXCEPT ![NextId(Made)] = NewSpace(u, "PERSONAL")],
             provisioning' = [provisioning EXCEPT ![p].pc = "check", ![p].space = NextId(Made)]
      PROVE  /\ TablesStep
             /\ \E x \in PersonalOf(provisioning[p].user)' :
                  provisioning' = [provisioning EXCEPT ![p].pc = "check", ![p].space = x]
  <2>0. PICK w : w = NextId(Made)
    OBVIOUS
  <2>1. SpacesStep /\ w \in PersonalOf(u)'
    BY <1>1, <1>2, <1>3, <1>5, <2>0, SpacesAdded
  <2>2. \A v \in Registered' : accounts'[v].whole \/ v \in provisioned' => HasWorkspace(v)'
    BY <1>1, <1>3, <2>1 DEF SpacesStep, AccessInv, TableInv, Registered
  <2>3. TablesStep
    BY <1>1, <1>3, <2>1, <2>2, TablesTogether DEF AccessInv, TableInv
  <2>4. provisioning'[p].user = provisioning[p].user
    BY <1>5 DEF AccessInv, AccessTypes, ProvisionerRow
  <2> QED BY <1>0, <1>5, <2>0, <2>1, <2>3, <2>4 DEF PersonalOf
<1> QED BY <1>0, <1>4, <1>5 DEF CreatePersonal

\* An only owner that is a member makes a whole account: a provisioner reports success.
LEMMA CheckMembershipTables ==
  ASSUME AccessInv, NEW p \in Provisioners, CheckMembership(p)
  PROVE  TablesStep
<1>0. PICK u, w : u = provisioning[p].user /\ w = provisioning[p].space
  OBVIOUS
<1>1. UNCHANGED <<accounts, spaces, owners, chats, tokens>>
  BY DEF CheckMembership
<1>2. u \in Registered /\ w \in PersonalOf(u)
  BY <1>0 DEF CheckMembership, AccessInv, ProvisionerInv
<1>3. AccountsStep /\ Registered' = Registered /\ SpacesStep
  BY <1>1, SameAccounts, SameSpaces
<1>4. CASE UNCHANGED provisioned
  BY <1>1, <1>4, UnchangedTables DEF AccessInv, TableInv
<1>5. CASE owners[w] = {u} /\ provisioned' = provisioned \cup {u}
  <2>1. HasWorkspace(u)
    BY <1>2, <1>5 DEF HasWorkspace, PersonalOf, AccessInv, TableInv, SpaceInv
  <2>2. \A v \in Registered' : accounts'[v].whole \/ v \in provisioned' => HasWorkspace(v)'
    BY <1>1, <1>3, <1>5, <2>1 DEF SpacesStep, AccessInv, TableInv, Registered
  <2>3. provisioned' \subseteq Registered'
    BY <1>2, <1>3, <1>5 DEF AccessInv, TableInv
  <2> QED BY <1>1, <1>3, <2>2, <2>3, TablesTogether
<1> QED BY <1>0, <1>4, <1>5 DEF CheckMembership, Provided

\* The membership that was missing, in a workspace of its user.
LEMMA EnrolTables ==
  ASSUME AccessInv, NEW p \in Provisioners, Enrol(p)
  PROVE  TablesStep
<1>0. PICK u, w : u = provisioning[p].user /\ w = provisioning[p].space
  OBVIOUS
<1>1. UNCHANGED <<accounts, spaces, chats, tokens>>
  BY DEF Enrol
<1>2. u \in Registered /\ w \in PersonalOf(u)
  BY <1>0 DEF Enrol, AccessInv, ProvisionerInv
<1>3. AccountsStep /\ Registered' = Registered
  BY <1>1, SameAccounts
<1>4. CASE UNCHANGED owners /\ UNCHANGED provisioned
  BY <1>1, <1>4, UnchangedTables DEF AccessInv, TableInv
<1>5. CASE owners' = [owners EXCEPT ![w] = @ \cup {u}] /\ provisioned' = provisioned \cup {u}
  <2>1. w \in Made /\ w \in Spaces /\ spaces[w].owner = u /\ spaces[w].type = "PERSONAL" /\ u \in Users
    BY <1>2 DEF PersonalOf, Made, Registered
  <2>2. owners[w] \cup {u} = {u}
    BY <2>1 DEF AccessInv, TableInv
  <2>3. spaces' = [spaces EXCEPT ![w] = spaces[w]] /\ spaces[w] \in SpaceRow
    BY <1>1, <2>1 DEF AccessInv, AccessTypes
  <2>4. owners' = [owners EXCEPT ![w] = {u}]
    BY <1>5, <2>2
  <2>5. SpacesStep /\ Made' = Made /\ PersonalOf(u)' = PersonalOf(u)
    <3>1. PICK row \in SpaceRow, members \in SUBSET Users : row = spaces[w] /\ members = {u}
      BY <2>1, <2>3
    <3>2. spaces' = [spaces EXCEPT ![w] = row] /\ owners' = [owners EXCEPT ![w] = members]
      BY <2>3, <2>4, <3>1
    <3>3. members = {spaces[w].owner}
      BY <2>1, <3>1
    <3> QED BY <1>3, <2>1, <3>1, <3>2, <3>3, SpacesChanged
  <2>6. HasWorkspace(u)'
    <3>1. owners'[w] = {u} /\ spaces'[w].status = "ACTIVE"
      BY <1>1, <2>1, <2>4 DEF AccessInv, AccessTypes, TableInv, SpaceInv
    <3> QED BY <1>2, <2>5, <3>1 DEF HasWorkspace
  <2>7. \A v \in Registered' : accounts'[v].whole \/ v \in provisioned' => HasWorkspace(v)'
    <3> SUFFICES ASSUME NEW v \in Registered, v # u, accounts[v].whole \/ v \in provisioned
                 PROVE  HasWorkspace(v)'
      BY <1>1, <1>3, <1>5, <2>6
    <3> QED BY <2>5 DEF SpacesStep, AccessInv, TableInv, Registered
  <2>8. provisioned' \subseteq Registered'
    BY <1>2, <1>3, <1>5 DEF AccessInv, TableInv
  <2> QED BY <1>1, <1>3, <2>5, <2>7, <2>8, TablesTogether
<1> QED BY <1>0, <1>4, <1>5 DEF Enrol, Provided

\* A request creates a workspace and its membership at once.
LEMMA CreateStandardTables ==
  ASSUME AccessInv, NEW r \in Requests, CreateStandardWorkspace(r)
  PROVE  TablesStep
<1>0. PICK u, w : u = requests[r].user /\ w = NextId(Made)
  OBVIOUS
<1>1. /\ UNCHANGED <<accounts, chats, tokens, provisioned>> /\ Made # Spaces
      /\ spaces' = [spaces EXCEPT ![w] = NewSpace(u, "STANDARD")] /\ owners' = [owners EXCEPT ![w] = {u}]
  BY <1>0 DEF CreateStandardWorkspace
<1>2. u \in Registered /\ u \in Users
  BY <1>0 DEF CreateStandardWorkspace, Doing, AccessInv, RequestInv, RequestNames, Registered
<1>3. AccountsStep /\ Registered' = Registered
  BY <1>1, SameAccounts
<1>4. SpacesStep
  BY <1>0, <1>1, <1>2, <1>3, SpacesAdded
<1>5. \A v \in Registered' : accounts'[v].whole \/ v \in provisioned' => HasWorkspace(v)'
  BY <1>1, <1>3, <1>4 DEF SpacesStep, AccessInv, TableInv, Registered
<1> QED BY <1>1, <1>3, <1>4, <1>5, TablesTogether DEF AccessInv, TableInv

\* Whoever names its own workspace leaves no other name in it.
LEMMA UpdateNameTables ==
  ASSUME AccessInv, NEW r \in Requests, UpdateWorkspaceName(r)
  PROVE  TablesStep
<1>0. PICK u, w : u = requests[r].user /\ w = requests[r].target
  OBVIOUS
<1>1. w \in Made /\ spaces[w].owner = u
  BY <1>0 DEF UpdateWorkspaceName, Checked, AccessInv, RequestInv, RequestNames, RequestMay, SpaceOps
<1>2. spaces[w].names \cup {u} = spaces[w].names
  BY <1>1 DEF AccessInv, TableInv, SpaceInv
<1>3. spaces' = spaces
  <2>1. w \in Spaces /\ spaces[w] \in SpaceRow
    BY <1>1 DEF Made, AccessInv, AccessTypes
  <2>2. [spaces[w] EXCEPT !.names = spaces[w].names] = spaces[w]
    BY <2>1 DEF SpaceRow
  <2>3. spaces' = [spaces EXCEPT ![w] = [spaces[w] EXCEPT !.names = spaces[w].names \cup {u}]]
    BY <1>0, <2>1 DEF UpdateWorkspaceName
  <2> QED BY <1>2, <2>1, <2>2, <2>3 DEF AccessInv, AccessTypes
<1> QED BY <1>3, UnchangedTables DEF UpdateWorkspaceName, AccessInv, TableInv

\* A deletion that was checked meets a standard workspace, deleted or not.
LEMMA SoftDeleteTables ==
  ASSUME AccessInv, NEW r \in Requests, SoftDeleteWorkspace(r)
  PROVE  TablesStep
<1>0. PICK w : w = requests[r].target
  OBVIOUS
<1>1. w \in Made /\ w \in Spaces /\ spaces[w].type = "STANDARD"
  BY <1>0 DEF SoftDeleteWorkspace, Checked, AccessInv, RequestInv, RequestNames, RequestMay, SpaceOps, Made
<1>2. PICK row : row = [spaces[w] EXCEPT !.status = "DELETED"]
  OBVIOUS
<1>3. /\ row \in SpaceRow /\ row.owner = spaces[w].owner /\ row.type = spaces[w].type
      /\ row.names = spaces[w].names /\ row.status = "DELETED"
  <2>1. spaces[w] \in SpaceRow
    BY <1>1 DEF AccessInv, AccessTypes
  <2> QED BY <1>2, <2>1 DEF SpaceRow
<1>4. /\ UNCHANGED <<accounts, owners, chats, tokens, provisioned>>
      /\ spaces' = [spaces EXCEPT ![w] = row]
  BY <1>0, <1>2 DEF SoftDeleteWorkspace
<1>5. AccountsStep /\ Registered' = Registered
  BY <1>4, SameAccounts
<1>6. SpacesStep
  <2>1. PICK members \in SUBSET Users : members = owners[w]
    BY <1>1 DEF AccessInv, AccessTypes
  <2>2. owners' = [owners EXCEPT ![w] = members]
    BY <1>1, <1>4, <2>1 DEF AccessInv, AccessTypes
  <2> QED BY <1>1, <1>3, <1>4, <1>5, <2>1, <2>2, SpacesChanged
<1>7. \A v \in Registered' : accounts'[v].whole \/ v \in provisioned' => HasWorkspace(v)'
  BY <1>4, <1>5, <1>6 DEF SpacesStep, AccessInv, TableInv, Registered
<1> QED BY <1>4, <1>5, <1>6, <1>7, TablesTogether DEF AccessInv, TableInv

\* What an administrator makes of an account keeps its role, and its address or none.
LEMMA UserStatusTables ==
  ASSUME AccessInv, NEW r \in Requests, UpdateUserStatus(r)
  PROVE  TablesStep
<1>0. PICK u : u = requests[r].target
  OBVIOUS
<1>1. /\ UNCHANGED <<spaces, owners, chats, tokens, provisioned>>
      /\ accounts' \in [Users -> AccountRow]
  BY UserStatusType DEF UpdateUserStatus, AccessInv
<1>2. u \in Registered /\ u \in Users
  BY <1>0 DEF UpdateUserStatus, AccessInv, RequestInv, RequestNames, Registered
<1>3. \A v \in Users \ {u} : accounts'[v] = accounts[v]
  BY <1>0 DEF UpdateUserStatus, AccessInv, AccessTypes
<1>4. /\ accounts'[u].status # "none" /\ accounts'[u].role = accounts[u].role
      /\ accounts'[u].whole = accounts[u].whole
      /\ accounts'[u].email \in {accounts[u].email, "gone"}
  <2> DEFINE status == CASE requests[r].op = "banUser" -> "BANNED"
                         [] requests[r].op = "activateUser" -> "ACTIVE"
                         [] OTHER -> "DELETED"
  <2>1. accounts' = [accounts EXCEPT ![u].status = status,
                                     ![u].email = IF requests[r].op = "deleteUser" THEN "gone" ELSE @]
    BY <1>0 DEF UpdateUserStatus
  <2>2. status # "none"
    OBVIOUS
  <2> HIDE DEF status
  <2> QED BY <1>2, <2>1, <2>2 DEF AccessInv, AccessTypes, AccountRow
<1>5. Registered' = Registered
  BY <1>2, <1>3, <1>4 DEF Registered
<1>6. \A v \in Registered : /\ accounts'[v].role = accounts[v].role
                            /\ accounts'[v].whole = accounts[v].whole
                            /\ accounts'[v].email \in {accounts[v].email, "gone"}
  BY <1>2, <1>3, <1>4 DEF Registered
<1>7. AccountsStep
  <2>1. Prefix(Registered')
    BY <1>5 DEF AccessInv, TableInv
  <2>2. \A v, x \in Registered' :
          accounts'[v].email \in Emails /\ accounts'[v].email = accounts'[x].email => v = x
    BY <1>5, <1>6 DEF AccessInv, TableInv, Emails, SeededEmails
  <2> QED BY <1>1, <1>5, <1>6, <2>1, <2>2 DEF AccountsStep
<1>8. SpacesStep
  BY <1>1, <1>5, SameSpaces
<1>9. \A v \in Registered' : accounts'[v].whole \/ v \in provisioned' => HasWorkspace(v)'
  BY <1>1, <1>5, <1>6, <1>8 DEF SpacesStep, AccessInv, TableInv, Registered
<1> QED BY <1>1, <1>5, <1>7, <1>8, <1>9, TablesTogether DEF AccessInv, TableInv

\* An administrator creates a user with its workspace and its membership.
LEMMA CreateUserTables ==
  ASSUME AccessInv, NEW r \in Requests, CreateUser(r)
  PROVE  TablesStep
<1>1. UNCHANGED <<chats, tokens, provisioned>>
  BY DEF CreateUser
<1>2. CASE Addressed(requests[r].email) # {}
  BY <1>1, <1>2, UnchangedTables DEF CreateUser, AccessInv, TableInv
<1>3. CASE Addressed(requests[r].email) = {}
  <2>0. PICK u, w, email : u = NextId(Registered) /\ w = NextId(Made) /\ email = requests[r].email
    OBVIOUS
  <2>1. /\ Registered # Users /\ Made # Spaces
        /\ accounts' = [accounts EXCEPT ![u] = NewAccount(email, "USER", TRUE)]
        /\ spaces' = [spaces EXCEPT ![w] = NewSpace(u, "PERSONAL")]
        /\ owners' = [owners EXCEPT ![w] = {u}]
    BY <1>3, <2>0 DEF CreateUser
  <2>2. email \in Emails
    BY <2>0 DEF CreateUser, Checked, AccessInv, RequestInv, RequestNames
  <2>3. /\ u \in Users /\ u \notin Registered /\ Registered' = Registered \cup {u}
        /\ Prefix(Registered')
        /\ accounts' \in [Users -> AccountRow]
        /\ accounts'[u] = NewAccount(email, "USER", TRUE)
        /\ \A v \in Users \ {u} : accounts'[v] = accounts[v]
    BY <2>0, <2>1, <2>2, AccountAdded DEF Roles
  <2>4. \A v \in Registered : accounts'[v] = accounts[v] /\ accounts[v].email # email
    BY <1>3, <2>0, <2>3 DEF Addressed, Registered
  <2>5. AccountsStep
    <3>1. accounts'[u].email = email
      BY <2>3 DEF NewAccount
    <3>2. \A v, x \in Registered' :
            accounts'[v].email \in Emails /\ accounts'[v].email = accounts'[x].email => v = x
      <4>1. \A v, x \in Registered :
              accounts[v].email \in Emails /\ accounts[v].email = accounts[x].email => v = x
        BY DEF AccessInv, TableInv
      <4> TAKE v, x \in Registered'
      <4> HAVE accounts'[v].email \in Emails /\ accounts'[v].email = accounts'[x].email
      <4>2. CASE v = u
        BY <2>3, <2>4, <3>1, <4>2
      <4>3. CASE x = u
        BY <2>3, <2>4, <3>1, <4>3
      <4>4. CASE v \in Registered /\ x \in Registered
        BY <2>4, <4>1, <4>4
      <4> QED BY <2>3, <4>2, <4>3, <4>4
    <3> QED BY <2>3, <2>4, <3>2 DEF AccountsStep
  <2>6. PersonalOf(u) = {}
    BY <2>3, PersonalFacts
  <2>7. SpacesStep /\ HasWorkspace(u)'
    <3>1. SpacesStep /\ w \in Spaces /\ (owners'[w] = {u} => HasWorkspace(u)')
      BY <2>0, <2>1, <2>3, <2>6, SpacesAdded
    <3>2. owners'[w] = {u}
      BY <2>1, <3>1 DEF AccessInv, AccessTypes
    <3> QED BY <3>1, <3>2
  <2>8. \A v \in Registered' : accounts'[v].whole \/ v \in provisioned' => HasWorkspace(v)'
    BY <1>1, <2>3, <2>4, <2>7 DEF SpacesStep, AccessInv, TableInv, Registered
  <2> QED BY <1>1, <2>3, <2>5, <2>7, <2>8, TablesTogether DEF AccessInv, TableInv
<1> QED BY <1>2, <1>3

-----------------------------------------------------------------------------
(* What changes the sessions.                                              *)

ChatsStep == chats' \in [Chats -> ChatRow] /\ ChatInv'

\* Sessions that are left alone stay where they are.
LEMMA SameChats ==
  ASSUME AccessInv, Grows, UNCHANGED chats
  PROVE  ChatsStep
<1>1. Created' = Created
  BY DEF Created
<1>2. \A c \in Created : chats[c].space \in Made
  BY DEF AccessInv, ChatInv
<1>3. \A c \in Created : spaces'[chats[c].space].owner = spaces[chats[c].space].owner
  BY <1>2 DEF Grows
<1>4. \A c \in Created : chats[c].space \in Made'
  BY <1>2 DEF Grows
<1> QED BY <1>1, <1>3, <1>4 DEF ChatsStep, ChatInv, AccessInv, AccessTypes

\* A session that stays in its workspace, or comes into one, with writers who own it.
LEMMA ChatChanged ==
  ASSUME AccessInv, UNCHANGED <<accounts, spaces, owners, tokens, provisioned>>,
         NEW c \in Chats, NEW row \in ChatRow, chats' = [chats EXCEPT ![c] = row],
         row.space \in Made, row.there => row.writers \subseteq {spaces[row.space].owner},
         c \in Created => row.space = chats[c].space /\ (row.there => chats[c].there),
         Prefix(Created \cup {c})
  PROVE  TablesStep /\ ChatsStep
<1>1. /\ chats' \in [Chats -> ChatRow] /\ chats'[c] = row
      /\ \A d \in Chats \ {c} : chats'[d] = chats[d]
  BY DEF AccessInv, AccessTypes
<1>2. Created' = Created \cup {c}
  <2>1. row.space # 0
    BY DEF Made, Spaces
  <2> QED BY <1>1, <2>1 DEF Created
<1>3. Registered' = Registered /\ Made' = Made
  BY DEF Registered, Made
<1>4. Grows
  <2>1. \A d \in Created : d \in Chats
    BY DEF Created
  <2> QED BY <1>1, <1>2, <1>3, <2>1 DEF Grows
<1>5. TablesStep
  <2>1. \A u : PersonalOf(u)' = PersonalOf(u) /\ (HasWorkspace(u)' <=> HasWorkspace(u))
    BY <1>3 DEF HasWorkspace, PersonalOf
  <2>2. \A w : SpaceInv(w)' <=> SpaceInv(w)
    BY <1>3 DEF SpaceInv
  <2>3. TableInv'
    BY <1>3, <2>1, <2>2 DEF AccessInv, TableInv
  <2> QED BY <1>4, <2>3 DEF TablesStep, AccessInv, AccessTypes
<1>6. ChatInv'
  <2>1. \A d \in Created' : chats'[d].space \in Made'
    BY <1>1, <1>2, <1>3 DEF AccessInv, ChatInv, Created
  <2>2. \A d \in Chats : chats'[d].there =>
          d \in Created' /\ chats'[d].writers \subseteq {spaces'[chats'[d].space].owner}
    BY <1>1, <1>2 DEF AccessInv, ChatInv
  <2> QED BY <1>2, <2>1, <2>2 DEF ChatInv
<1> QED BY <1>1, <1>5, <1>6 DEF ChatsStep

\* A request creates a session in its own workspace.
LEMMA NewSessionTables ==
  ASSUME AccessInv, NEW r \in Requests, NewSession(r)
  PROVE  TablesStep /\ ChatsStep
<1>1. PICK c \in Chats : /\ c = NextId(Created)
                         /\ chats' = [chats EXCEPT ![c] = [space |-> requests[r].space, there |-> TRUE,
                                                           writers |-> {requests[r].user}]]
  BY DEF NewSession, Created
<1>2. PICK row : row = [space |-> requests[r].space, there |-> TRUE, writers |-> {requests[r].user}]
  OBVIOUS
<1>3. /\ requests[r].space \in Made /\ requests[r].user \in Registered
      /\ spaces[requests[r].space].owner = requests[r].user
  BY DEF NewSession, Doing, AccessInv, RequestInv, RequestNames, RequestMay
<1>4. /\ row \in ChatRow /\ row.space \in Made
      /\ row.there => row.writers \subseteq {spaces[row.space].owner}
  BY <1>2, <1>3 DEF ChatRow, Made, Registered
<1>5. c \notin Created /\ Prefix(Created \cup {c})
  <2>1. MaxChats \in Nat /\ Created \in SUBSET (1..MaxChats) /\ Prefix(Created)
    BY AccessConstants DEF Created, Chats, AccessInv, ChatInv
  <2> HIDE DEF Created
  <2> QED BY <1>1, <2>1, NextIdIsFresh
<1>6. UNCHANGED <<accounts, spaces, owners, tokens, provisioned>>
  BY DEF NewSession
<1> QED BY <1>1, <1>2, <1>4, <1>5, <1>6, ChatChanged

\* What an owner writes into a session of a workspace, or takes away with it.
LEMMA SessionWritten ==
  ASSUME AccessInv, UNCHANGED <<accounts, spaces, owners, tokens, provisioned>>,
         NEW c \in Created, NEW row, chats[c].there,
         \/ row = [[chats[c] EXCEPT !.there = FALSE] EXCEPT !.writers = {}]
         \/ row = [chats[c] EXCEPT !.writers = @ \cup {spaces[chats[c].space].owner}],
         chats' = [chats EXCEPT ![c] = row]
  PROVE  TablesStep /\ ChatsStep
<1>1. c \in Chats /\ chats[c] \in ChatRow /\ chats[c].space \in Made /\ Prefix(Created)
  BY DEF Created, AccessInv, AccessTypes, ChatInv
<1>2. spaces[chats[c].space].owner \in Users /\ chats[c].writers \subseteq {spaces[chats[c].space].owner}
  BY <1>1 DEF AccessInv, TableInv, SpaceInv, ChatInv, Registered
<1>3. /\ row \in ChatRow /\ row.space = chats[c].space
      /\ row.writers \subseteq {spaces[chats[c].space].owner}
  BY <1>1, <1>2 DEF ChatRow
<1>4. Created \cup {c} = Created
  OBVIOUS
<1> QED BY <1>1, <1>3, <1>4, ChatChanged

\* Updating and deleting a session found in the workspace of the request.
LEMMA ChangeSessionTables ==
  ASSUME AccessInv, NEW r \in Requests, ChangeSession(r)
  PROVE  TablesStep /\ ChatsStep
<1>0. PICK c : c = requests[r].target
  OBVIOUS
<1>1. UNCHANGED <<accounts, spaces, owners, tokens, provisioned>>
  BY DEF ChangeSession
<1>2. /\ c \in Created /\ requests[r].space \in Made
      /\ spaces[requests[r].space].owner = requests[r].user
  BY <1>0 DEF ChangeSession, AccessInv, RequestInv, RequestNames, RequestMay, ChatOps
<1>3. CASE UNCHANGED chats
  <2>1. TablesStep
    BY <1>1, <1>3, UnchangedTables DEF AccessInv, TableInv
  <2> QED BY <1>3, <2>1, SameChats DEF TablesStep
<1>4. CASE InWorkspace(r, c)
  <2>1. chats[c].there /\ spaces[chats[c].space].owner = requests[r].user
    BY <1>2, <1>4 DEF InWorkspace
  <2>2. c \in Chats /\ chats \in [Chats -> ChatRow]
    BY <1>2 DEF Created, AccessInv, AccessTypes
  <2>3. CASE requests[r].op = "deleteSession"
    <3>1. chats' = [chats EXCEPT ![c].there = FALSE, ![c].writers = {}]
      BY <1>0, <1>4, <2>3 DEF ChangeSession
    <3>2. PICK row : row = [[chats[c] EXCEPT !.there = FALSE] EXCEPT !.writers = {}]
      OBVIOUS
    <3>3. chats' = [chats EXCEPT ![c] = row]
      BY <2>2, <3>1, <3>2
    <3> QED BY <1>1, <1>2, <2>1, <3>2, <3>3, SessionWritten
  <2>4. CASE requests[r].op # "deleteSession"
    <3>1. chats' = [chats EXCEPT ![c].writers = @ \cup {requests[r].user}]
      BY <1>0, <1>4, <2>4 DEF ChangeSession
    <3>2. PICK row : row = [chats[c] EXCEPT !.writers = @ \cup {spaces[chats[c].space].owner}]
      OBVIOUS
    <3>3. chats' = [chats EXCEPT ![c] = row]
      BY <2>1, <2>2, <3>1, <3>2
    <3> QED BY <1>1, <1>2, <2>1, <3>2, <3>3, SessionWritten
  <2> QED BY <2>3, <2>4
<1> QED BY <1>0, <1>3, <1>4 DEF ChangeSession

\* A message to a session that was found in the workspace of the request.
LEMMA CreateMessageTables ==
  ASSUME AccessInv, NEW r \in Requests, CreateMessage(r)
  PROVE  TablesStep /\ ChatsStep
<1>0. PICK c : c = requests[r].target
  OBVIOUS
<1>1. UNCHANGED <<accounts, spaces, owners, tokens, provisioned>>
  BY DEF CreateMessage
<1>2. /\ c \in Created /\ chats[c].space = requests[r].space
      /\ spaces[requests[r].space].owner = requests[r].user
  BY <1>0 DEF CreateMessage, Checked, AccessInv, RequestInv, RequestNames, RequestMay, ChatOps
<1>3. CASE UNCHANGED chats
  <2>1. TablesStep
    BY <1>1, <1>3, UnchangedTables DEF AccessInv, TableInv
  <2> QED BY <1>3, <2>1, SameChats DEF TablesStep
<1>4. CASE chats[c].there /\ chats' = [chats EXCEPT ![c].writers = @ \cup {requests[r].user}]
  <2>1. c \in Chats /\ chats \in [Chats -> ChatRow]
    BY <1>2 DEF Created, AccessInv, AccessTypes
  <2>2. PICK row : row = [chats[c] EXCEPT !.writers = @ \cup {spaces[chats[c].space].owner}]
    OBVIOUS
  <2>3. chats' = [chats EXCEPT ![c] = row]
    BY <1>2, <1>4, <2>1, <2>2
  <2> QED BY <1>1, <1>2, <1>4, <2>2, <2>3, SessionWritten
<1> QED BY <1>0, <1>3, <1>4 DEF CreateMessage

-----------------------------------------------------------------------------
(* The steps of a provisioner.                                             *)

ProvisionersStep ==
  /\ provisioning' \in [Provisioners -> ProvisionerRow]
  /\ \A p \in Provisioners : ProvisionerInv(p)'

\* Personal workspaces stay with their users.
LEMMA PersonalGrows ==
  ASSUME Grows
  PROVE  /\ \A u : PersonalOf(u) \subseteq PersonalOf(u)'
         /\ Registered \subseteq Registered'
BY DEF Grows, PersonalOf

\* Of the provisioners, one moves.
LEMMA OneProvisioner ==
  ASSUME AccessInv, Grows, NEW p \in Provisioners, NEW row \in ProvisionerRow,
         provisioning' = [provisioning EXCEPT ![p] = row], row.todo \subseteq Registered',
         row.pc \in {"find", "create", "check", "enrol"} => row.user \in Registered',
         row.pc \in {"check", "enrol"} => row.space \in PersonalOf(row.user)'
  PROVE  ProvisionersStep
<1>1. /\ provisioning' \in [Provisioners -> ProvisionerRow] /\ provisioning'[p] = row
      /\ \A q \in Provisioners \ {p} : provisioning'[q] = provisioning[q]
  BY DEF AccessInv, AccessTypes
<1>2. ASSUME NEW q \in Provisioners PROVE ProvisionerInv(q)'
  <2>1. CASE q = p
    <3>1. row.pc \in {"check", "enrol"} =>
            /\ row.space \in Made' /\ spaces'[row.space].owner = row.user
            /\ spaces'[row.space].type = "PERSONAL"
      BY DEF PersonalOf
    <3> QED BY <1>1, <2>1, <3>1 DEF ProvisionerInv, PersonalOf
  <2>2. CASE q # p
    <3>1. ProvisionerInv(q)
      BY DEF AccessInv
    <3>2. provisioning'[q] = provisioning[q]
      BY <1>1, <2>2
    <3>3. \A u : \A w \in PersonalOf(u) :
            w \in Made' /\ spaces'[w].owner = u /\ spaces'[w].type = "PERSONAL"
      BY DEF Grows, PersonalOf
    <3> QED BY <3>1, <3>2, <3>3, PersonalGrows DEF ProvisionerInv, PersonalOf
  <2> QED BY <2>1, <2>2
<1> QED BY <1>1, <1>2 DEF ProvisionersStep

\* None moves.
LEMMA SameProvisioners ==
  ASSUME AccessInv, Grows, UNCHANGED provisioning
  PROVE  ProvisionersStep
<1>1. ASSUME NEW q \in Provisioners PROVE ProvisionerInv(q)'
  <2>1. ProvisionerInv(q)
    BY DEF AccessInv
  <2>2. \A u : \A w \in PersonalOf(u) :
          w \in Made' /\ spaces'[w].owner = u /\ spaces'[w].type = "PERSONAL"
    BY DEF Grows, PersonalOf
  <2> QED BY <2>1, <2>2, PersonalGrows DEF ProvisionerInv, PersonalOf
<1> QED BY <1>1 DEF ProvisionersStep, AccessInv, AccessTypes

\* One goes on to the next user of its list.
LEMMA EnsuringStep ==
  ASSUME AccessInv, Grows, NEW p \in Provisioners, NEW todo \in SUBSET Registered,
         provisioning' = [provisioning EXCEPT ![p] = Ensuring(@, todo)]
  PROVE  ProvisionersStep
<1>1. provisioning[p] \in ProvisionerRow /\ todo \in SUBSET Users
  BY DEF AccessInv, AccessTypes, Registered
<1>2. PICK row : row = Ensuring(provisioning[p], todo)
  OBVIOUS
<1>3. /\ row \in ProvisionerRow
      /\ row = Resting \/ (row.pc = "find" /\ row.user \in todo /\ row.todo \subseteq todo)
  BY <1>1, <1>2, EnsuringRow
<1>4. provisioning' = [provisioning EXCEPT ![p] = row]
  BY <1>2
<1>5. Registered \subseteq Registered'
  BY PersonalGrows
<1>6. CASE row = Resting
  BY <1>3, <1>4, <1>6, OneProvisioner DEF Resting
<1>7. CASE row.pc = "find" /\ row.user \in todo /\ row.todo \subseteq todo
  BY <1>3, <1>4, <1>5, <1>7, OneProvisioner
<1> QED BY <1>3, <1>6, <1>7

\* One goes on with its user, having found a workspace of it or not.
LEMMA GoingOn ==
  ASSUME AccessInv, Grows, NEW p \in Provisioners, NEW pc, NEW space,
         \/ pc \in {"admin", "user", "list"} /\ space = provisioning[p].space
         \/ pc = "create" /\ provisioning[p].pc = "find" /\ space = provisioning[p].space
         \/ pc = "enrol" /\ provisioning[p].pc = "check" /\ space = provisioning[p].space
         \/ /\ pc = "check" /\ provisioning[p].pc \in {"find", "create"}
            /\ space \in PersonalOf(provisioning[p].user)',
         spaces' \in [Spaces -> SpaceRow],
         provisioning' = [provisioning EXCEPT ![p] = [provisioning[p] EXCEPT !.pc = pc, !.space = space]]
  PROVE  ProvisionersStep
<1>0. PICK u, pc0, space0, todo : /\ u = provisioning[p].user /\ pc0 = provisioning[p].pc
                                  /\ space0 = provisioning[p].space /\ todo = provisioning[p].todo
  OBVIOUS
<1>1. provisioning[p] \in ProvisionerRow
  BY DEF AccessInv, AccessTypes
<1>2. PICK row : row = [provisioning[p] EXCEPT !.pc = pc, !.space = space]
  OBVIOUS
<1>3. row.pc = pc /\ row.space = space /\ row.user = u /\ row.todo = todo
  BY <1>0, <1>1, <1>2 DEF ProvisionerRow
<1>4. /\ todo \subseteq Registered
      /\ pc0 \in {"find", "create", "check", "enrol"} => u \in Registered
      /\ pc0 \in {"check", "enrol"} => space0 \in PersonalOf(u)
  BY <1>0 DEF AccessInv, ProvisionerInv
<1>5. pc = "check" => space \in PersonalOf(u)'
  <2>1. pc = "check" => /\ space \in Made' /\ spaces'[space].type = "PERSONAL"
                        /\ spaces'[space].owner = provisioning'[p].user
    BY DEF PersonalOf
  <2>2. provisioning'[p].user = u
    BY <1>0, <1>1 DEF ProvisionerRow, AccessInv, AccessTypes
  <2> QED BY <2>1, <2>2 DEF PersonalOf
<1>6. /\ Registered \subseteq Registered'
      /\ pc0 \in {"check", "enrol"} => space0 \in PersonalOf(u)'
  BY <1>4, PersonalGrows
<1>7. /\ row.pc \in {"find", "create", "check", "enrol"} => row.user \in Registered'
      /\ row.pc \in {"check", "enrol"} => row.space \in PersonalOf(u)'
      /\ row.todo \subseteq Registered'
  BY <1>0, <1>3, <1>4, <1>5, <1>6
<1>8. row.pc \in {"check", "enrol"} => row.space \in PersonalOf(row.user)'
  BY <1>3, <1>7
<1>9. row \in ProvisionerRow
  <2>1. space \in Spaces \cup {0}
    BY <1>0, <1>1, <1>5 DEF ProvisionerRow, PersonalOf, Made
  <2>2. pc \in {"admin", "user", "list", "create", "enrol", "check"}
    OBVIOUS
  <2> QED BY <1>1, <1>2, <2>1, <2>2 DEF ProvisionerRow
<1> QED BY <1>2, <1>7, <1>8, <1>9, OneProvisioner

\* Steps that change provisioners only.
LEMMA QuietTables ==
  ASSUME AccessInv, UNCHANGED <<accounts, spaces, owners, chats, tokens, provisioned>>
  PROVE  TablesStep /\ ChatsStep
<1>1. TablesStep
  BY UnchangedTables DEF AccessInv, TableInv
<1> QED BY <1>1, SameChats DEF TablesStep

\* A call of Halt, or an error of the provisioning, ends it.
LEMMA RestingStep ==
  ASSUME AccessInv, Grows, NEW p \in Provisioners, provisioning' = [provisioning EXCEPT ![p] = Resting]
  PROVE  ProvisionersStep
<1>1. Resting \in ProvisionerRow /\ Resting.todo = {} /\ Resting.pc = "off"
  BY NewRows DEF Resting
<1>2. PICK row : row = Resting
  OBVIOUS
<1> QED BY <1>1, <1>2, OneProvisioner

\* A provisioner looks for the personal workspace of its user.
LEMMA FindPersonalStep ==
  ASSUME AccessInv, NEW p \in Provisioners, FindPersonal(p)
  PROVE  TablesStep /\ ChatsStep /\ ProvisionersStep
<1>1. UNCHANGED <<accounts, spaces, owners, chats, tokens, provisioned>>
  BY DEF FindPersonal
<1>2. TablesStep /\ ChatsStep /\ Grows
  BY <1>1, QuietTables DEF TablesStep
<1>3. spaces' \in [Spaces -> SpaceRow]
  BY <1>2 DEF TablesStep
<1>4. provisioning \in [Provisioners -> ProvisionerRow] /\ provisioning[p] \in ProvisionerRow
  BY DEF AccessInv, AccessTypes
<1>5. CASE provisioning' = [provisioning EXCEPT ![p].pc = "create"]
  <2>1. [provisioning[p] EXCEPT !.pc = "create", !.space = provisioning[p].space]
          = [provisioning[p] EXCEPT !.pc = "create"]
    BY <1>4 DEF ProvisionerRow
  <2>2. provisioning' = [provisioning EXCEPT ![p] =
          [provisioning[p] EXCEPT !.pc = "create", !.space = provisioning[p].space]]
    BY <1>5, <2>1
  <2>3. provisioning[p].pc = "find"
    BY DEF FindPersonal
  <2> QED BY <1>2, <1>3, <2>2, <2>3, GoingOn
<1>6. ASSUME NEW w \in PersonalOf(provisioning[p].user),
             provisioning' = [provisioning EXCEPT ![p].pc = "check", ![p].space = w]
      PROVE  ProvisionersStep
  <2>1. provisioning' = [provisioning EXCEPT ![p] = [provisioning[p] EXCEPT !.pc = "check", !.space = w]]
    BY <1>4, <1>6
  <2>2. provisioning'[p].user = provisioning[p].user
    BY <1>4, <1>6 DEF ProvisionerRow
  <2>3. w \in PersonalOf(provisioning[p].user)'
    BY <1>1, <1>6, <2>2 DEF PersonalOf, Made
  <2> QED BY <1>2, <1>3, <2>1, <2>3, GoingOn DEF FindPersonal
<1> QED BY <1>2, <1>5, <1>6 DEF FindPersonal

\* It creates the workspace, or finds that somebody else has.
LEMMA CreatePersonalStep ==
  ASSUME AccessInv, NEW p \in Provisioners, CreatePersonal(p)
  PROVE  TablesStep /\ ChatsStep /\ ProvisionersStep
<1>1. PICK w \in PersonalOf(provisioning[p].user)' :
        provisioning' = [provisioning EXCEPT ![p].pc = "check", ![p].space = w]
  BY CreatePersonalTables
<1>2. TablesStep /\ Grows /\ spaces' \in [Spaces -> SpaceRow] /\ UNCHANGED chats
  BY CreatePersonalTables DEF TablesStep, CreatePersonal
<1>3. provisioning' = [provisioning EXCEPT ![p] = [provisioning[p] EXCEPT !.pc = "check", !.space = w]]
  BY <1>1 DEF AccessInv, AccessTypes
<1>4. provisioning[p].pc \in {"find", "create"}
  BY DEF CreatePersonal
<1> QED BY <1>1, <1>2, <1>3, <1>4, GoingOn, SameChats

\* It looks at the members of the workspace that it has found or created.
LEMMA CheckMembershipStep ==
  ASSUME AccessInv, NEW p \in Provisioners, CheckMembership(p)
  PROVE  TablesStep /\ ChatsStep /\ ProvisionersStep
<1>1. TablesStep /\ Grows /\ spaces' \in [Spaces -> SpaceRow] /\ UNCHANGED chats
  BY CheckMembershipTables DEF TablesStep, CheckMembership
<1>2. CASE provisioning' = [provisioning EXCEPT ![p].pc = "enrol"]
  <2>1. [provisioning[p] EXCEPT !.pc = "enrol", !.space = provisioning[p].space]
          = [provisioning[p] EXCEPT !.pc = "enrol"]
    BY DEF AccessInv, AccessTypes, ProvisionerRow
  <2>2. provisioning' = [provisioning EXCEPT ![p] =
          [provisioning[p] EXCEPT !.pc = "enrol", !.space = provisioning[p].space]]
    BY <1>2, <2>1
  <2>3. provisioning[p].pc = "check"
    BY DEF CheckMembership
  <2> QED BY <1>1, <2>2, <2>3, GoingOn, SameChats
<1>3. CASE Provided(p)
  <2>1. PICK todo \in SUBSET Registered : todo = provisioning[p].todo
    BY DEF AccessInv, ProvisionerInv
  <2> QED BY <1>1, <1>3, <2>1, EnsuringStep, SameChats DEF Provided
<1>4. CASE provisioning' = [provisioning EXCEPT ![p] = Resting]
  BY <1>1, <1>4, RestingStep, SameChats
<1> QED BY <1>2, <1>3, <1>4 DEF CheckMembership

\* It makes its user a member.
LEMMA EnrolStep ==
  ASSUME AccessInv, NEW p \in Provisioners, Enrol(p)
  PROVE  TablesStep /\ ChatsStep /\ ProvisionersStep
<1>1. TablesStep /\ Grows /\ UNCHANGED chats
  BY EnrolTables DEF TablesStep, Enrol
<1>2. CASE Provided(p)
  <2>1. PICK todo \in SUBSET Registered : todo = provisioning[p].todo
    BY DEF AccessInv, ProvisionerInv
  <2> QED BY <1>1, <1>2, <2>1, EnsuringStep, SameChats DEF Provided
<1>3. CASE provisioning' = [provisioning EXCEPT ![p] = Resting]
  BY <1>1, <1>3, RestingStep, SameChats
<1> QED BY <1>2, <1>3 DEF Enrol

\* It dies.
LEMMA HaltStep ==
  ASSUME AccessInv, NEW p \in Provisioners, Halt(p)
  PROVE  TablesStep /\ ChatsStep /\ ProvisionersStep
<1>1. TablesStep /\ ChatsStep /\ Grows
  BY QuietTables DEF TablesStep, Halt
<1> QED BY <1>1, RestingStep DEF Halt

\* Nothing about the users, but for new ones.
StatusKept == \A u \in Registered : accounts'[u].status = accounts[u].status

\* Whatever a provisioner does.
LEMMA ProvisionStep ==
  ASSUME AccessInv, Provision
  PROVE  /\ TablesStep /\ ChatsStep /\ ProvisionersStep /\ StatusKept
         /\ UNCHANGED <<requests, tokens>> /\ seeds' \in 0..MaxSeeds /\ halts' \in 0..MaxHalts
<1>0. /\ UNCHANGED <<requests, tokens>> /\ MaxSeeds \in Nat /\ MaxHalts \in Nat
      /\ seeds \in 0..MaxSeeds /\ halts \in 0..MaxHalts
  BY AccessConstants DEF Provision, StartSeed, StartBackfill, StartSampler, Upsert, FindPersonal,
     CreatePersonal, CheckMembership, Enrol, Halt, AccessInv, AccessTypes
<1>1. CASE StartSeed
  <2>1. TablesStep /\ ChatsStep /\ Grows /\ spaces' \in [Spaces -> SpaceRow]
    BY <1>1, QuietTables DEF StartSeed, TablesStep
  <2>2. provisioning["seed"] \in ProvisionerRow /\ "seed" \in Provisioners
    BY DEF AccessInv, AccessTypes, Provisioners
  <2>3. [provisioning["seed"] EXCEPT !.pc = "admin", !.space = provisioning["seed"].space]
          = [provisioning["seed"] EXCEPT !.pc = "admin"]
    BY <2>2 DEF ProvisionerRow
  <2>4. provisioning' = [provisioning EXCEPT !["seed"] =
          [provisioning["seed"] EXCEPT !.pc = "admin", !.space = provisioning["seed"].space]]
    BY <1>1, <2>3 DEF StartSeed
  <2>5. ProvisionersStep
    BY <2>1, <2>2, <2>4, GoingOn
  <2> QED BY <1>0, <1>1, <2>1, <2>5 DEF StartSeed, StatusKept
<1>2. ASSUME NEW email \in SeededEmails, NEW role \in Roles, NEW next \in {"user", "list"},
             Upsert(email, role, next)
      PROVE  TablesStep /\ ChatsStep /\ ProvisionersStep /\ StatusKept /\ UNCHANGED <<seeds, halts>>
  <2>1. TablesStep /\ Grows /\ UNCHANGED chats /\ spaces' \in [Spaces -> SpaceRow]
    BY <1>2, UpsertTables DEF Upsert, TablesStep
  <2>2. provisioning["seed"] \in ProvisionerRow /\ "seed" \in Provisioners
    BY DEF AccessInv, AccessTypes, Provisioners
  <2>3. [provisioning["seed"] EXCEPT !.pc = next, !.space = provisioning["seed"].space]
          = [provisioning["seed"] EXCEPT !.pc = next]
    BY <2>2 DEF ProvisionerRow
  <2>4. provisioning' = [provisioning EXCEPT !["seed"] =
          [provisioning["seed"] EXCEPT !.pc = next, !.space = provisioning["seed"].space]]
    BY <1>2, <2>3 DEF Upsert
  <2>5. next \in {"admin", "user", "list"}
    OBVIOUS
  <2>6. ProvisionersStep
    BY <2>1, <2>2, <2>4, <2>5, GoingOn
  <2>7. StatusKept
    <3>1. CASE UNCHANGED accounts
      BY <3>1 DEF StatusKept
    <3>2. CASE /\ Registered # Users
               /\ accounts' = [accounts EXCEPT ![NextId(Registered)] = NewAccount(email, role, FALSE)]
      <4>1. \A v \in Users \ {NextId(Registered)} : accounts'[v] = accounts[v]
        BY <3>2, AccountAdded DEF Emails
      <4>2. NextId(Registered) \notin Registered
        BY <3>2, AccountAdded DEF Emails
      <4> QED BY <4>1, <4>2 DEF StatusKept, Registered
    <3> QED BY <1>2, <3>1, <3>2 DEF Upsert
  <2> QED BY <1>2, <2>1, <2>6, <2>7, SameChats DEF Upsert
<1>3. CASE StartBackfill
  <2>1. TablesStep /\ ChatsStep /\ Grows
    BY <1>3, QuietTables DEF StartBackfill, TablesStep
  <2>2. "seed" \in Provisioners
    BY DEF Provisioners
  <2>3. PICK todo \in SUBSET Registered : todo = Registered
    OBVIOUS
  <2>4. ProvisionersStep
    BY <1>3, <2>1, <2>2, <2>3, EnsuringStep DEF StartBackfill
  <2> QED BY <1>0, <1>3, <2>1, <2>4 DEF StartBackfill, StatusKept
<1>4. CASE StartSampler
  <2>1. TablesStep /\ ChatsStep /\ Grows
    BY <1>4, QuietTables DEF StartSampler, TablesStep
  <2>2. "sampler" \in Provisioners
    BY DEF Provisioners
  <2>3. PICK u \in Registered : provisioning' = [provisioning EXCEPT !["sampler"] = Ensuring(@, {u})]
    BY <1>4 DEF StartSampler
  <2>4. {u} \in SUBSET Registered
    OBVIOUS
  <2>5. ProvisionersStep
    BY <2>1, <2>2, <2>3, <2>4, EnsuringStep
  <2> QED BY <1>0, <1>4, <2>1, <2>5 DEF StartSampler, StatusKept
<1>5. ASSUME NEW p \in Provisioners, FindPersonal(p) \/ CreatePersonal(p) \/ CheckMembership(p) \/ Enrol(p)
      PROVE  TablesStep /\ ChatsStep /\ ProvisionersStep /\ StatusKept /\ UNCHANGED <<seeds, halts>>
  <2>1. TablesStep /\ ChatsStep /\ ProvisionersStep
    BY <1>5, FindPersonalStep, CreatePersonalStep, CheckMembershipStep, EnrolStep
  <2>2. UNCHANGED <<accounts, seeds, halts>>
    BY <1>5 DEF FindPersonal, CreatePersonal, CheckMembership, Enrol
  <2> QED BY <2>1, <2>2 DEF StatusKept
<1>6. ASSUME NEW p \in Provisioners, Halt(p)
      PROVE  TablesStep /\ ChatsStep /\ ProvisionersStep /\ StatusKept
             /\ UNCHANGED seeds /\ halts' \in 0..MaxHalts
  <2>1. TablesStep /\ ChatsStep /\ ProvisionersStep
    BY <1>6, HaltStep
  <2>2. UNCHANGED <<accounts, seeds>> /\ halts < MaxHalts /\ halts' = halts + 1
    BY <1>6 DEF Halt
  <2>3. halts' \in 0..MaxHalts
    BY <1>0, <2>2
  <2> QED BY <2>1, <2>2, <2>3 DEF StatusKept
<1>7. "admin" \in SeededEmails /\ "user" \in SeededEmails /\ "ADMIN" \in Roles /\ "USER" \in Roles
  BY DEF SeededEmails, Roles
<1>8. CASE Upsert("admin", "ADMIN", "user") \/ Upsert("user", "USER", "list")
  <2>1. TablesStep /\ ChatsStep /\ ProvisionersStep /\ StatusKept /\ UNCHANGED <<seeds, halts>>
    BY <1>2, <1>7, <1>8
  <2> QED BY <1>0, <2>1
<1>9. CASE \E p \in Provisioners : FindPersonal(p) \/ CreatePersonal(p) \/ CheckMembership(p) \/ Enrol(p)
  <2>1. TablesStep /\ ChatsStep /\ ProvisionersStep /\ StatusKept /\ UNCHANGED <<seeds, halts>>
    BY <1>5, <1>9
  <2> QED BY <1>0, <2>1
<1>10. CASE \E p \in Provisioners : Halt(p)
  <2>1. TablesStep /\ ChatsStep /\ ProvisionersStep /\ StatusKept
        /\ UNCHANGED seeds /\ halts' \in 0..MaxHalts
    BY <1>6, <1>10
  <2> QED BY <1>0, <2>1
<1> QED BY <1>1, <1>3, <1>4, <1>8, <1>9, <1>10 DEF Provision

-----------------------------------------------------------------------------
(* The steps of a request.                                                 *)

RequestsStep ==
  /\ requests' \in [Requests -> RequestRow]
  /\ \A r \in Requests : RequestInv(requests[r])'

\* A request that does nothing keeps what it knows, whatever others do; what its user was
\* may be news to it.
LEMMA RequestKept ==
  ASSUME AccessInv, TablesStep, ChatsStep, NEW row \in RequestRow, NEW new \in RequestRow,
         RequestInv(row), new.pc = row.pc, new.user = row.user, new.space = row.space,
         new.op = row.op, new.target = row.target, new.email = row.email, new.role = row.role,
         new.shown = row.shown, new.spaceWas = row.spaceWas, row.userWas => new.userWas,
         StatusKnown(row, new.userWas)
  PROVE  RequestInv(new)'
<1>1. Grows
  BY DEF TablesStep
<1>2. /\ \A u \in Registered : u \in Registered' /\ accounts'[u].role = accounts[u].role
      /\ \A w \in Made :
           /\ w \in Made' /\ spaces'[w].owner = spaces[w].owner /\ spaces'[w].type = spaces[w].type
           /\ spaces'[w].status = "ACTIVE" => spaces[w].status = "ACTIVE"
      /\ \A c \in Created : c \in Created' /\ chats'[c].space = chats[c].space
      /\ \A c \in Created : chats[c].space \in Made
  BY <1>1 DEF Grows, AccessInv, ChatInv
<1>3. RequestNames(new)'
  BY <1>2 DEF RequestInv, RequestNames
<1>4. RequestWas(new)'
  <2>1. new.pc = "sent" /\ accounts'[new.user].status = "ACTIVE" => new.userWas
    BY DEF RequestInv, RequestWas, StatusKnown
  <2>2. new.pc \in {"known", "allowed", "checked", "done"} => new.userWas
    BY DEF RequestInv, RequestWas
  <2>3. /\ new.pc \in {"sent", "known"}
        /\ spaces'[new.space].status = "ACTIVE" /\ spaces'[new.space].owner = new.user
        => new.spaceWas
    BY <1>2 DEF RequestInv, RequestNames, RequestWas
  <2>4. new.pc \in {"allowed", "checked", "done"} => new.spaceWas
    BY DEF RequestInv, RequestWas
  <2> QED BY <2>1, <2>2, <2>3, <2>4 DEF RequestWas
<1>5. RequestMay(new)'
  <2>1. new.pc = "known" => new.role = accounts'[new.user].role
    BY <1>2 DEF RequestInv, RequestNames, RequestMay
  <2>2. new.pc \in {"allowed", "checked", "done"} =>
          /\ new.user \in Registered'
          /\ new.op \in AdminOps => accounts'[new.user].role = "ADMIN"
    BY <1>2 DEF RequestInv, RequestMay
  <2>3. new.pc \in {"allowed", "checked"} => spaces'[new.space].owner = new.user
    BY <1>2 DEF RequestInv, RequestNames, RequestMay
  <2>4. new.pc = "checked" =>
         /\ new.op \in {"createMessage", "getMessages"} => chats'[new.target].space = new.space
         /\ new.op = "updateWorkspace" => spaces'[new.target].owner = new.user
         /\ new.op \in {"deleteWorkspace", "adminDeleteWorkspace"} =>
              spaces'[new.target].type = "STANDARD"
    BY <1>2 DEF RequestInv, RequestNames, RequestMay, ChatOps, SpaceOps
  <2>5. new.pc = "done" =>
          \A c \in new.shown : c \in Created' /\ spaces'[chats'[c].space].owner = new.user
    BY <1>2 DEF RequestInv, RequestMay
  <2> QED BY <2>1, <2>2, <2>3, <2>4, <2>5 DEF RequestMay
<1> QED BY <1>3, <1>4, <1>5 DEF RequestInv

\* Requests that nobody moves, when accounts keep their status.
LEMMA SameRequests ==
  ASSUME AccessInv, TablesStep, ChatsStep, StatusKept, UNCHANGED requests
  PROVE  RequestsStep
<1>1. ASSUME NEW r \in Requests PROVE RequestInv(requests[r])'
  <2>1. PICK row \in RequestRow : row = requests[r] /\ RequestInv(row)
    BY DEF AccessInv, AccessTypes
  <2>2. StatusKnown(row, row.userWas)
    BY <2>1 DEF StatusKnown, StatusKept, RequestInv, RequestNames
  <2>3. RequestInv(row)'
    BY <2>1, <2>2, RequestKept
  <2>4. requests'[r] = row
    BY <2>1
  <2> QED BY <2>3, <2>4 DEF RequestInv, RequestNames, RequestWas, RequestMay
<1> QED BY <1>1 DEF RequestsStep, AccessInv, AccessTypes

\* One of them moves.
LEMMA OneRequestStep ==
  ASSUME AccessInv, TablesStep, ChatsStep, StatusKept, NEW r \in Requests, NEW row \in RequestRow,
         OneRequest(r, row), RequestInv(row)'
  PROVE  RequestsStep
<1>1. requests' \in [Requests -> RequestRow]
  BY OneRequestType DEF AccessInv
<1>2. ASSUME NEW q \in Requests PROVE RequestInv(requests[q])'
  <2>1. CASE q = r
    <3>1. requests'[q] = row
      BY <2>1 DEF OneRequest, AccessInv, AccessTypes
    <3> QED BY <3>1 DEF RequestInv, RequestNames, RequestWas, RequestMay
  <2>2. CASE q # r
    <3>1. PICK old \in RequestRow : old = requests[q] /\ RequestInv(old)
      BY DEF AccessInv, AccessTypes
    <3>2. StatusKnown(old, old.userWas)
      BY <3>1 DEF StatusKnown, StatusKept, RequestInv, RequestNames
    <3>3. RequestInv(old)'
      BY <3>1, <3>2, RequestKept
    <3>4. requests'[q] = old
      BY <2>2, <3>1 DEF OneRequest, AccessInv, AccessTypes
    <3> QED BY <3>3, <3>4 DEF RequestInv, RequestNames, RequestWas, RequestMay
  <2> QED BY <2>1, <2>2
<1> QED BY <1>1, <1>2 DEF RequestsStep

\* A request that is refused promises nothing.
LEMMA RefusedStep ==
  ASSUME AccessInv, TablesStep, ChatsStep, StatusKept, NEW r \in Requests, Refused(r)
  PROVE  RequestsStep
<1>1. PICK row : row = [Unsent EXCEPT !.pc = "refused"]
  OBVIOUS
<1>2. row \in RequestRow /\ row.pc = "refused"
  BY <1>1, NewRows, RequestRows DEF Unsent
<1>3. RequestInv(row)'
  BY <1>2 DEF RequestInv, RequestNames, RequestWas, RequestMay
<1> QED BY <1>1, <1>2, <1>3, OneRequestStep DEF Refused, OneRequest

\* One that is done was entitled to it, and shows what is in its user's workspaces.
LEMMA FinishedStep ==
  ASSUME AccessInv, TablesStep, ChatsStep, StatusKept, NEW r \in Requests,
         requests[r].pc \in {"allowed", "checked"}, NEW shown \in SUBSET Created,
         \A c \in shown : spaces[chats[c].space].owner = requests[r].user,
         OneRequest(r, Finished(requests[r], shown))
  PROVE  RequestsStep
<1>0. PICK old \in RequestRow : old = requests[r] /\ RequestInv(old)
  BY DEF AccessInv, AccessTypes
<1>1. PICK row : row = Finished(old, shown)
  OBVIOUS
<1>2. /\ row.pc = "done" /\ row.user = old.user /\ row.op = old.op /\ row.shown = shown
      /\ row.userWas = old.userWas /\ row.spaceWas = old.spaceWas
  BY <1>0, <1>1 DEF Finished, RequestRow
<1>3. row \in RequestRow
  <2>1. shown \in SUBSET Chats
    BY DEF Created
  <2> QED BY <1>0, <1>1, <2>1, RequestRows
<1>4. /\ \A u \in Registered : u \in Registered' /\ accounts'[u].role = accounts[u].role
      /\ \A c \in Created : /\ c \in Created'
                            /\ spaces'[chats'[c].space].owner = spaces[chats[c].space].owner
  BY DEF TablesStep, Grows, AccessInv, ChatInv
<1>5. RequestNames(row)'
  BY <1>2 DEF RequestNames
<1>6. RequestWas(row)'
  BY <1>0, <1>2 DEF RequestWas, RequestInv
<1>7. RequestMay(row)'
  <2>1. row.user \in Registered' /\ (row.op \in AdminOps => accounts'[row.user].role = "ADMIN")
    BY <1>0, <1>2, <1>4 DEF RequestMay, RequestInv
  <2>2. \A c \in row.shown : c \in Created' /\ spaces'[chats'[c].space].owner = row.user
    BY <1>0, <1>2, <1>4
  <2> QED BY <1>2, <2>1, <2>2 DEF RequestMay
<1>8. RequestInv(row)'
  BY <1>5, <1>6, <1>7 DEF RequestInv
<1> QED BY <1>0, <1>1, <1>3, <1>8, OneRequestStep

\* One that shows nothing.
LEMMA DoneStep ==
  ASSUME AccessInv, TablesStep, ChatsStep, StatusKept, NEW r \in Requests,
         requests[r].pc \in {"allowed", "checked"}, Done(r)
  PROVE  RequestsStep
<1>1. PICK shown \in SUBSET Created : shown = {}
  OBVIOUS
<1> QED BY <1>1, FinishedStep DEF Done, OneRequest

\* One that goes on, with what its next check has seen.
LEMMA AtStep ==
  ASSUME AccessInv, TablesStep, ChatsStep, StatusKept, NEW r \in Requests, NEW pc,
         \/ /\ requests[r].pc = "known" /\ pc = "allowed"
            /\ spaces[requests[r].space].status = "ACTIVE"
            /\ spaces[requests[r].space].owner = requests[r].user
            /\ requests[r].op \in AdminOps => requests[r].role = "ADMIN"
         \/ /\ requests[r].pc = "allowed" /\ pc = "checked"
            /\ requests[r].op \in {"createMessage", "getMessages"} =>
                 chats[requests[r].target].space = requests[r].space
            /\ requests[r].op = "updateWorkspace" =>
                 spaces[requests[r].target].owner = requests[r].user
            /\ requests[r].op \in {"deleteWorkspace", "adminDeleteWorkspace"} =>
                 spaces[requests[r].target].type = "STANDARD",
         At(r, pc)
  PROVE  RequestsStep
<1>0. PICK old \in RequestRow : old = requests[r] /\ RequestInv(old)
  BY DEF AccessInv, AccessTypes
<1>1. PICK row : row = [old EXCEPT !.pc = pc]
  OBVIOUS
<1>2. /\ row.pc = pc /\ row.user = old.user /\ row.op = old.op /\ row.space = old.space
      /\ row.target = old.target /\ row.email = old.email /\ row.role = old.role
      /\ row.userWas = old.userWas /\ row.spaceWas = old.spaceWas /\ pc \in {"allowed", "checked"}
  BY <1>0, <1>1 DEF RequestRow
<1>3. row \in RequestRow
  BY <1>0, <1>1, <1>2, RequestRows
<1>4. /\ \A u \in Registered : u \in Registered' /\ accounts'[u].role = accounts[u].role
      /\ \A w \in Made :
           /\ w \in Made' /\ spaces'[w].owner = spaces[w].owner /\ spaces'[w].type = spaces[w].type
      /\ \A c \in Created : c \in Created' /\ chats'[c].space = chats[c].space
  BY DEF TablesStep, Grows
<1>5. RequestNames(row)'
  BY <1>0, <1>2, <1>4 DEF RequestNames, RequestInv
<1>6. RequestWas(row)'
  BY <1>0, <1>2 DEF RequestWas, RequestInv
<1>7. RequestMay(row)'
  <2>1. row.user \in Registered' /\ (row.op \in AdminOps => accounts'[row.user].role = "ADMIN")
    BY <1>0, <1>2, <1>4 DEF RequestMay, RequestNames, RequestInv
  <2>2. spaces'[row.space].owner = row.user
    BY <1>0, <1>2, <1>4 DEF RequestMay, RequestNames, RequestInv
  <2>3. pc = "checked" =>
         /\ row.op \in {"createMessage", "getMessages"} => chats'[row.target].space = row.space
         /\ row.op = "updateWorkspace" => spaces'[row.target].owner = row.user
         /\ row.op \in {"deleteWorkspace", "adminDeleteWorkspace"} =>
              spaces'[row.target].type = "STANDARD"
    BY <1>0, <1>2, <1>4 DEF RequestNames, RequestInv, ChatOps, SpaceOps
  <2> QED BY <1>2, <2>1, <2>2, <2>3 DEF RequestMay
<1>8. RequestInv(row)'
  BY <1>5, <1>6, <1>7 DEF RequestInv
<1> QED BY <1>0, <1>1, <1>3, <1>8, OneRequestStep DEF At, OneRequest

\* A request names what is there.
LEMMA SendStep ==
  ASSUME AccessInv, NEW r \in Requests, NEW u \in tokens, NEW w \in Made,
         NEW op \in Ops, NEW target, NEW email \in Emails \cup {"none"},
         target \in Asks(op), op = "createUser" => email \in Emails,
         Send(r, u, w, op, target, email)
  PROVE  TablesStep /\ ChatsStep /\ RequestsStep
<1>1. TablesStep /\ ChatsStep /\ StatusKept
  BY QuietTables DEF Send, StatusKept
<1>2. u \in Registered /\ u \in Users /\ w \in Spaces
  BY DEF AccessInv, TableInv, Registered, Made
<1>3. /\ op \in ChatOps => target \in Created
      /\ op \in SpaceOps \cup {"adminDeleteWorkspace"} => target \in Made
      /\ op \in UserOps => target \in Registered
      /\ target \in Nat
  BY DEF Asks, Created, Made, Registered, Chats, Spaces, Users, ChatOps, SpaceOps, UserOps, AdminOps
<1>4. PICK row : row = SentRow(u, w, op, target, email)
  OBVIOUS
<1>5. row \in RequestRow
  BY <1>2, <1>3, <1>4, SendType DEF AccessInv
<1>6. /\ row.pc = "sent" /\ row.user = u /\ row.space = w /\ row.op = op /\ row.target = target
      /\ row.email = email /\ (row.userWas <=> accounts[u].status = "ACTIVE")
      /\ (row.spaceWas <=> spaces[w].owner = u /\ spaces[w].status = "ACTIVE")
  BY <1>4 DEF SentRow, Unsent
<1>7. /\ Registered' = Registered /\ Made' = Made /\ Created' = Created
      /\ UNCHANGED <<accounts, spaces, chats>>
  BY DEF Send, Registered, Made, Created
<1>8. RequestInv(row)'
  <2>1. RequestNames(row)'
    BY <1>2, <1>3, <1>6, <1>7 DEF RequestNames
  <2>2. RequestWas(row)'
    BY <1>6, <1>7 DEF RequestWas
  <2>3. RequestMay(row)'
    BY <1>6 DEF RequestMay
  <2> QED BY <2>1, <2>2, <2>3 DEF RequestInv
<1>9. OneRequest(r, row)
  BY <1>4 DEF Send, SentRow, OneRequest
<1> QED BY <1>1, <1>5, <1>8, <1>9, OneRequestStep

\* A request is authenticated by what its account is now.
LEMMA AuthenticateStep ==
  ASSUME AccessInv, NEW r \in Requests, Authenticate(r)
  PROVE  TablesStep /\ ChatsStep /\ RequestsStep
<1>1. TablesStep /\ ChatsStep /\ StatusKept
  BY QuietTables DEF Authenticate, StatusKept
<1>2. CASE Refused(r)
  BY <1>1, <1>2, RefusedStep
<1>3. CASE /\ accounts[requests[r].user].status = "ACTIVE"
           /\ requests' = [requests EXCEPT ![r].pc = "known", ![r].role = accounts[requests[r].user].role]
  <2>0. PICK old \in RequestRow : old = requests[r] /\ RequestInv(old) /\ old.pc = "sent"
    BY DEF AccessInv, AccessTypes, Authenticate
  <2>1. old.user \in Registered /\ old.user \in Users /\ accounts[old.user].role \in Roles
    BY <2>0 DEF RequestInv, RequestNames, Registered, AccessInv, AccessTypes, AccountRow
  <2>2. PICK role \in Roles : role = accounts[old.user].role
    BY <2>1
  <2>3. PICK row : row = [[old EXCEPT !.pc = "known"] EXCEPT !.role = role]
    OBVIOUS
  <2>4. row \in RequestRow
    BY <2>0, <2>2, <2>3, RequestRows
  <2>5. /\ row.pc = "known" /\ row.user = old.user /\ row.op = old.op /\ row.space = old.space
        /\ row.target = old.target /\ row.email = old.email /\ row.role = role
        /\ row.userWas = old.userWas /\ row.spaceWas = old.spaceWas
    BY <2>0, <2>3 DEF RequestRow
  <2>6. /\ Registered' = Registered /\ Made' = Made /\ Created' = Created
        /\ UNCHANGED <<accounts, spaces, chats>>
    BY DEF Authenticate, Registered, Made, Created
  <2>7. RequestInv(row)'
    <3>1. RequestNames(row)'
      BY <2>0, <2>5, <2>6 DEF RequestNames, RequestInv
    <3>2. RequestWas(row)'
      BY <1>3, <2>0, <2>5, <2>6 DEF RequestWas, RequestInv
    <3>3. RequestMay(row)'
      BY <2>2, <2>5, <2>6 DEF RequestMay
    <3> QED BY <3>1, <3>2, <3>3 DEF RequestInv
  <2>8. OneRequest(r, row)
    <3>1. requests' = [requests EXCEPT ![r] = [[requests[r] EXCEPT !.pc = "known"]
                                                 EXCEPT !.role = accounts[requests[r].user].role]]
      BY <1>3 DEF AccessInv, AccessTypes
    <3> QED BY <2>0, <2>2, <2>3, <3>1 DEF OneRequest
  <2> QED BY <1>1, <2>4, <2>7, <2>8, OneRequestStep
<1> QED BY <1>2, <1>3 DEF Authenticate

\* The checks that only look.
LEMMA CheckSteps ==
  ASSUME AccessInv, NEW r \in Requests,
         \/ AttachWorkspace(r) \/ EnsureSessionInWorkspace(r) \/ FindOwnedWorkspace(r)
         \/ FindStandardWorkspace(r) \/ FindByEmail(r)
  PROVE  TablesStep /\ ChatsStep /\ RequestsStep
<1>1. TablesStep /\ ChatsStep /\ StatusKept
  BY QuietTables DEF AttachWorkspace, EnsureSessionInWorkspace, FindOwnedWorkspace,
     FindStandardWorkspace, FindByEmail, StatusKept
<1>2. CASE Refused(r)
  BY <1>1, <1>2, RefusedStep
<1>3. CASE AttachWorkspace(r) /\ ~Refused(r)
  BY <1>1, <1>3, AtStep DEF AttachWorkspace
<1>4. CASE EnsureSessionInWorkspace(r) /\ ~Refused(r)
  <2>1. /\ requests[r].pc = "allowed" /\ requests[r].op \in {"createMessage", "getMessages"}
        /\ chats[requests[r].target].space = requests[r].space /\ At(r, "checked")
    BY <1>4 DEF EnsureSessionInWorkspace, InWorkspace
  <2> QED BY <1>1, <2>1, AtStep
<1>5. CASE FindOwnedWorkspace(r) /\ ~Refused(r)
  <2>1. /\ requests[r].pc = "allowed" /\ requests[r].op \in {"updateWorkspace", "deleteWorkspace"}
        /\ spaces[requests[r].target].owner = requests[r].user
        /\ spaces[requests[r].target].type = "STANDARD" /\ At(r, "checked")
    BY <1>5 DEF FindOwnedWorkspace, SpaceOps
  <2> QED BY <1>1, <2>1, AtStep
<1>6. CASE FindStandardWorkspace(r) /\ ~Refused(r)
  <2>1. /\ requests[r].pc = "allowed" /\ requests[r].op = "adminDeleteWorkspace"
        /\ spaces[requests[r].target].type = "STANDARD" /\ (Done(r) \/ At(r, "checked"))
    BY <1>6 DEF FindStandardWorkspace, Doing
  <2> QED BY <1>1, <2>1, AtStep, DoneStep
<1>7. CASE FindByEmail(r) /\ ~Refused(r)
  <2>1. /\ requests[r].pc = "allowed" /\ requests[r].op = "createUser" /\ At(r, "checked")
    BY <1>7 DEF FindByEmail, Doing
  <2> QED BY <1>1, <2>1, AtStep
<1> QED BY <1>2, <1>3, <1>4, <1>5, <1>6, <1>7

\* What a request writes to the sessions.
LEMMA SessionSteps ==
  ASSUME AccessInv, NEW r \in Requests, NewSession(r) \/ ChangeSession(r) \/ CreateMessage(r)
  PROVE  TablesStep /\ ChatsStep /\ RequestsStep
<1>1. TablesStep /\ ChatsStep
  BY NewSessionTables, ChangeSessionTables, CreateMessageTables
<1>2. StatusKept
  BY DEF NewSession, ChangeSession, CreateMessage, StatusKept
<1>3. requests[r].pc \in {"allowed", "checked"} /\ (Done(r) \/ Refused(r))
  BY DEF NewSession, ChangeSession, CreateMessage, Doing, Checked
<1> QED BY <1>1, <1>2, <1>3, DoneStep, RefusedStep

\* What it reads of them.
LEMMA ListMessagesStep ==
  ASSUME AccessInv, NEW r \in Requests, ListMessages(r)
  PROVE  TablesStep /\ ChatsStep /\ RequestsStep
<1>1. TablesStep /\ ChatsStep /\ StatusKept
  BY QuietTables DEF ListMessages, StatusKept
<1>2. PICK shown : shown = {c \in {requests[r].target} : InWorkspace(r, c)}
  OBVIOUS
<1>3. /\ requests[r].pc = "checked" /\ requests[r].target \in Created
      /\ spaces[requests[r].space].owner = requests[r].user
  BY DEF ListMessages, Checked, AccessInv, RequestInv, RequestNames, RequestMay, ChatOps
<1>4. shown \in SUBSET Created /\ \A c \in shown : spaces[chats[c].space].owner = requests[r].user
  BY <1>2, <1>3 DEF InWorkspace
<1>5. OneRequest(r, Finished(requests[r], shown))
  BY <1>2 DEF ListMessages, OneRequest
<1> QED BY <1>1, <1>3, <1>4, <1>5, FinishedStep

\* What a request does to workspaces and accounts, in the end.
LEMMA TableSteps ==
  ASSUME AccessInv, NEW r \in Requests,
         CreateStandardWorkspace(r) \/ UpdateWorkspaceName(r) \/ SoftDeleteWorkspace(r) \/ CreateUser(r)
  PROVE  TablesStep /\ ChatsStep /\ RequestsStep
<1>1. TablesStep /\ Grows
  BY CreateStandardTables, UpdateNameTables, SoftDeleteTables, CreateUserTables DEF TablesStep
<1>2. ChatsStep
  BY <1>1, SameChats DEF CreateStandardWorkspace, UpdateWorkspaceName, SoftDeleteWorkspace, CreateUser
<1>3. StatusKept
  <2>1. CASE UNCHANGED accounts
    BY <2>1 DEF StatusKept
  <2>2. CASE CreateUser(r) /\ ~UNCHANGED accounts
    <3>1. PICK u, email : u = NextId(Registered) /\ email = requests[r].email
      OBVIOUS
    <3>2. Registered # Users /\ accounts' = [accounts EXCEPT ![u] = NewAccount(email, "USER", TRUE)]
      BY <2>2, <3>1 DEF CreateUser
    <3>3. email \in Emails
      BY <2>2, <3>1 DEF CreateUser, Checked, AccessInv, RequestInv, RequestNames
    <3>4. u \notin Registered /\ \A v \in Users \ {u} : accounts'[v] = accounts[v]
      BY <3>1, <3>2, <3>3, AccountAdded DEF Roles
    <3> QED BY <3>4 DEF StatusKept, Registered
  <2> QED BY <2>1, <2>2 DEF CreateStandardWorkspace, UpdateWorkspaceName, SoftDeleteWorkspace
<1>4. requests[r].pc \in {"allowed", "checked"} /\ (Done(r) \/ Refused(r))
  BY DEF CreateStandardWorkspace, UpdateWorkspaceName, SoftDeleteWorkspace, CreateUser, Doing, Checked
<1> QED BY <1>1, <1>2, <1>3, <1>4, DoneStep, RefusedStep

\* An account that becomes active again is known to the requests of its user.
LEMMA UserStatusStep ==
  ASSUME AccessInv, NEW r \in Requests, UpdateUserStatus(r)
  PROVE  TablesStep /\ ChatsStep /\ RequestsStep
<1>1. TablesStep /\ ChatsStep
  BY UserStatusTables, SameChats DEF TablesStep, UpdateUserStatus
<1>2. requests' \in [Requests -> RequestRow]
  BY UserStatusType DEF AccessInv
<1>3. \A u \in Registered : accounts'[u].status = "ACTIVE" =>
        accounts[u].status = "ACTIVE" \/ (requests[r].op = "activateUser" /\ u = requests[r].target)
  <2>0. PICK t : t = requests[r].target
    OBVIOUS
  <2> DEFINE status == CASE requests[r].op = "banUser" -> "BANNED"
                         [] requests[r].op = "activateUser" -> "ACTIVE"
                         [] OTHER -> "DELETED"
  <2>1. accounts' = [accounts EXCEPT ![t].status = status,
                                     ![t].email = IF requests[r].op = "deleteUser" THEN "gone" ELSE @]
    BY <2>0 DEF UpdateUserStatus
  <2>2. status = "ACTIVE" => requests[r].op = "activateUser"
    OBVIOUS
  <2> HIDE DEF status
  <2> SUFFICES ASSUME NEW u \in Registered, accounts'[u].status = "ACTIVE"
               PROVE  accounts[u].status = "ACTIVE" \/ (requests[r].op = "activateUser" /\ u = t)
    BY <2>0
  <2>3. u \in Users /\ accounts[u] \in AccountRow
    BY DEF Registered, AccessInv, AccessTypes
  <2>4. CASE u = t
    <3>1. accounts'[u].status = status
      BY <2>1, <2>3, <2>4 DEF AccessInv, AccessTypes, AccountRow
    <3> QED BY <2>2, <2>4, <3>1
  <2>5. CASE u # t
    BY <2>1, <2>3, <2>5 DEF AccessInv, AccessTypes
  <2> QED BY <2>4, <2>5
<1>4. ASSUME NEW q \in Requests PROVE RequestInv(requests[q])'
  <2>0. PICK old \in RequestRow : old = requests[r] /\ RequestInv(old) /\ old.pc = "allowed"
    BY DEF AccessInv, AccessTypes, UpdateUserStatus
  <2>1. PICK b \in BOOLEAN :
          LET row == IF q = r THEN Finished(requests[r], {}) ELSE requests[q]
          IN /\ requests'[q] = [row EXCEPT !.userWas = b]
             /\ row \in RequestRow
             /\ b <=> row.userWas \/ (requests[r].op = "activateUser"
                                      /\ requests[q].user = requests[r].target)
    BY UserStatusRows DEF AccessInv
  <2>2. PICK row : row = IF q = r THEN Finished(requests[r], {}) ELSE requests[q]
    OBVIOUS
  <2>3. /\ requests'[q] = [row EXCEPT !.userWas = b] /\ row \in RequestRow
        /\ b <=> row.userWas \/ (requests[r].op = "activateUser" /\ requests[q].user = requests[r].target)
    BY <2>1, <2>2
  <2>4. RequestInv(row)
    <3>1. CASE q = r
      <4>1. /\ row.pc = "done" /\ row.user = old.user /\ row.op = old.op /\ row.shown = {}
            /\ row.userWas = old.userWas /\ row.spaceWas = old.spaceWas
        BY <2>0, <2>2, <3>1 DEF Finished, RequestRow
      <4> QED BY <2>0, <4>1 DEF RequestInv, RequestNames, RequestWas, RequestMay
    <3>2. CASE q # r
      BY <2>2, <3>2 DEF AccessInv
    <3> QED BY <3>1, <3>2
  <2>5. StatusKnown(row, b)
    <3>1. CASE q = r
      BY <2>2, <3>1 DEF StatusKnown, Finished
    <3>2. CASE q # r
      <4>1. row = requests[q]
        BY <2>2, <3>2
      <4> QED BY <1>3, <2>3, <2>4, <4>1 DEF StatusKnown, RequestInv, RequestNames
    <3> QED BY <3>1, <3>2
  <2>6. PICK new : new = [row EXCEPT !.userWas = b]
    OBVIOUS
  <2>7. /\ new \in RequestRow /\ new.pc = row.pc /\ new.user = row.user /\ new.space = row.space
        /\ new.op = row.op /\ new.target = row.target /\ new.email = row.email /\ new.role = row.role
        /\ new.shown = row.shown /\ new.spaceWas = row.spaceWas /\ new.userWas = b
    BY <2>3, <2>6 DEF RequestRow
  <2>8. RequestInv(new)'
    BY <1>1, <2>3, <2>4, <2>5, <2>7, RequestKept
  <2>9. requests'[q] = new
    BY <2>3, <2>6
  <2> QED BY <2>8, <2>9 DEF RequestInv, RequestNames, RequestWas, RequestMay
<1> QED BY <1>1, <1>2, <1>4 DEF RequestsStep

\* Whatever a request does.
LEMMA RequestStep ==
  ASSUME AccessInv, NEW r \in Requests, Request(r)
  PROVE  /\ TablesStep /\ ChatsStep /\ RequestsStep
         /\ UNCHANGED <<tokens, provisioning, seeds, halts>>
<1>0. "none" \in Ops /\ "none" \in Emails \cup {"none"}
  BY DEF Ops
<1>1. ASSUME NEW u \in tokens, NEW w \in Made, NEW op \in Ops \ {"createUser"}, NEW target \in Asks(op),
             Send(r, u, w, op, target, "none")
      PROVE  TablesStep /\ ChatsStep /\ RequestsStep
  BY <1>0, <1>1, SendStep
<1>2. ASSUME NEW u \in tokens, NEW w \in Made, NEW email \in Emails, Send(r, u, w, "createUser", 0, email)
      PROVE  TablesStep /\ ChatsStep /\ RequestsStep
  <2>1. "createUser" \in Ops /\ 0 \in Asks("createUser")
    BY DEF Ops, AdminOps, Asks, ChatOps, SpaceOps, UserOps
  <2> QED BY <1>2, <2>1, SendStep
<1>3. \A op \in {"createSession", "createWorkspace"} : op \in Ops \ {"createUser"} /\ 0 \in Asks(op)
  BY DEF Ops, Asks, ChatOps, SpaceOps, UserOps
<1>4. \A op \in ChatOps \cup SpaceOps \cup UserOps \cup {"adminDeleteWorkspace"} : op \in Ops \ {"createUser"}
  BY DEF Ops, AdminOps, ChatOps, SpaceOps, UserOps
<1>5. TablesStep /\ ChatsStep /\ RequestsStep
  BY <1>1, <1>2, <1>3, <1>4, AuthenticateStep, CheckSteps, SessionSteps, ListMessagesStep, TableSteps,
     UserStatusStep DEF Request
<1>6. UNCHANGED <<tokens, provisioning, seeds, halts>>
  BY ZenonT(60) DEF Request, Send, Authenticate, AttachWorkspace, NewSession, ChangeSession,
     EnsureSessionInWorkspace, CreateMessage, ListMessages, CreateStandardWorkspace,
     FindOwnedWorkspace, UpdateWorkspaceName, FindStandardWorkspace, SoftDeleteWorkspace,
     UpdateUserStatus, FindByEmail, CreateUser
<1> QED BY <1>5, <1>6

-----------------------------------------------------------------------------
(* The theorems.                                                           *)

\* A token is of a user there is.
LEMMA LoginStep ==
  ASSUME AccessInv, NEW u \in Users, Login(u)
  PROVE  /\ TablesStep /\ ChatsStep /\ StatusKept /\ tokens' \subseteq Users
         /\ UNCHANGED <<requests, provisioning, seeds, halts>>
<1>1. u \in Registered
  BY DEF Login, Registered
<1>2. TablesStep
  BY <1>1, UnchangedTables DEF Login, AccessInv, TableInv
<1> QED BY <1>1, <1>2, SameChats DEF TablesStep, Login, StatusKept, AccessInv, AccessTypes

\* The invariant is inductive.
LEMMA AccessInvStep ==
  ASSUME AccessInv, [AccessNext]_accessVars
  PROVE  AccessInv' /\ Grows
<1>1. ASSUME TablesStep, ChatsStep, ProvisionersStep, RequestsStep, tokens' \subseteq Users,
             seeds' \in 0..MaxSeeds, halts' \in 0..MaxHalts
      PROVE  AccessInv' /\ Grows
  BY <1>1 DEF AccessInv, AccessTypes, TablesStep, ChatsStep, ProvisionersStep, RequestsStep
<1>2. CASE Provision
  <2>1. /\ TablesStep /\ ChatsStep /\ ProvisionersStep /\ StatusKept
        /\ UNCHANGED <<requests, tokens>> /\ seeds' \in 0..MaxSeeds /\ halts' \in 0..MaxHalts
    BY <1>2, ProvisionStep
  <2>2. RequestsStep
    BY <2>1, SameRequests
  <2>3. tokens' \subseteq Users
    BY <2>1 DEF AccessInv, AccessTypes
  <2> QED BY <1>1, <2>1, <2>2, <2>3
<1>3. ASSUME NEW u \in Users, Login(u) PROVE AccessInv' /\ Grows
  <2>1. /\ TablesStep /\ ChatsStep /\ StatusKept /\ tokens' \subseteq Users
        /\ UNCHANGED <<requests, provisioning, seeds, halts>>
    BY <1>3, LoginStep
  <2>2. RequestsStep /\ ProvisionersStep
    BY <2>1, SameRequests, SameProvisioners DEF TablesStep
  <2>3. seeds' \in 0..MaxSeeds /\ halts' \in 0..MaxHalts
    BY <2>1 DEF AccessInv, AccessTypes
  <2> QED BY <1>1, <2>1, <2>2, <2>3
<1>4. ASSUME NEW r \in Requests, Request(r) PROVE AccessInv' /\ Grows
  <2>1. /\ TablesStep /\ ChatsStep /\ RequestsStep
        /\ UNCHANGED <<tokens, provisioning, seeds, halts>>
    BY <1>4, RequestStep
  <2>2. ProvisionersStep
    BY <2>1, SameProvisioners DEF TablesStep
  <2>3. tokens' \subseteq Users /\ seeds' \in 0..MaxSeeds /\ halts' \in 0..MaxHalts
    BY <2>1 DEF AccessInv, AccessTypes
  <2> QED BY <1>1, <2>1, <2>2, <2>3
<1>5. CASE UNCHANGED accessVars
  <2>1. /\ UNCHANGED <<accounts, spaces, owners, chats, tokens, provisioned>>
        /\ UNCHANGED <<requests, provisioning, seeds, halts>>
    BY <1>5 DEF accessVars
  <2>2. TablesStep /\ ChatsStep /\ StatusKept
    BY <2>1, QuietTables DEF StatusKept
  <2>3. RequestsStep /\ ProvisionersStep
    BY <2>1, <2>2, SameRequests, SameProvisioners DEF TablesStep
  <2>4. tokens' \subseteq Users /\ seeds' \in 0..MaxSeeds /\ halts' \in 0..MaxHalts
    BY <2>1 DEF AccessInv, AccessTypes
  <2> QED BY <1>1, <2>2, <2>3, <2>4
<1> QED BY <1>2, <1>3, <1>4, <1>5 DEF AccessNext

\* In the beginning nobody is registered and nothing is made.
LEMMA AccessInvInit ==
  ASSUME AccessInit
  PROVE  AccessInv
<1>1. AccessTypes
  <2>1. MaxSeeds \in Nat /\ MaxHalts \in Nat
    BY AccessConstants
  <2> QED BY <2>1, NewRows DEF AccessInit, AccessTypes
<1>2. Registered = {} /\ Made = {} /\ Created = {}
  BY DEF AccessInit, Registered, Made, Created, NoAccount, NoSpace, NoChat
<1>3. Prefix({})
  <2>1. {} = 1..0 /\ 0 \in Nat
    OBVIOUS
  <2> QED BY <2>1 DEF Prefix
<1>4. TableInv
  BY <1>2, <1>3 DEF TableInv, AccessInit, PersonalOf
<1>5. ChatInv
  BY <1>2, <1>3 DEF ChatInv, AccessInit, NoChat
<1>6. ASSUME NEW p \in Provisioners PROVE ProvisionerInv(p)
  BY DEF AccessInit, ProvisionerInv, Resting
<1>7. ASSUME NEW r \in Requests PROVE RequestInv(requests[r])
  BY DEF AccessInit, RequestInv, RequestNames, RequestWas, RequestMay, Unsent
<1> QED BY <1>1, <1>4, <1>5, <1>6, <1>7 DEF AccessInv

\* The inductive invariant holds in every state.
THEOREM AccessInvariant == AccessSpec => []AccessInv
<1>1. AccessInit => AccessInv
  BY AccessInvInit
<1>2. AccessInv /\ [AccessNext]_accessVars => AccessInv'
  BY AccessInvStep
<1> QED BY <1>1, <1>2, PTL DEF AccessSpec

\* Tables, requests and provisioners have their types, and tokens are of registered users.
THEOREM AccessTypeCorrect == AccessSpec => []AccessTypeOK
<1>1. AccessInv => AccessTypeOK
  <2> SUFFICES ASSUME AccessInv PROVE AccessTypeOK
    OBVIOUS
  <2>1. \A u \in Users : /\ accounts[u].status \in {"none", "ACTIVE", "BANNED", "DELETED"}
                         /\ accounts[u].email \in Emails \cup {"none", "gone"}
    BY DEF AccessInv, AccessTypes, AccountRow
  <2>2. \A w \in Spaces : /\ spaces[w].owner \in Users \cup {0}
                          /\ spaces[w].status \in {"none", "ACTIVE", "DELETED"}
    BY DEF AccessInv, AccessTypes, SpaceRow
  <2>3. \A r \in Requests :
          requests[r].pc \in {"unsent", "sent", "known", "allowed", "checked", "done", "refused"}
    BY DEF AccessInv, AccessTypes, RequestRow
  <2>4. \A p \in Provisioners : provisioning[p].pc \in
          {"unused", "off", "admin", "user", "list", "find", "create", "check", "enrol"}
    BY DEF AccessInv, AccessTypes, ProvisionerRow
  <2> QED BY <2>1, <2>2, <2>3, <2>4 DEF AccessTypeOK, AccessInv, AccessTypes, TableInv
<1> QED BY <1>1, AccessInvariant, PTL

\* Whatever seeds, samplers and administrators create concurrently, and wherever they die:
\* no second personal workspace, no foreign owner, no address twice, and whoever was
\* promised a workspace has it.
THEOREM AccountsAreAlwaysWhole == AccessSpec => []AccountsAreWhole
<1>1. AccessInv => AccountsAreWhole
  <2> SUFFICES ASSUME AccessInv PROVE AccountsAreWhole
    OBVIOUS
  <2>1. ASSUME NEW u \in Registered PROVE Cardinality(PersonalOf(u)) <= 1
    <3>1. u \in Users
      BY DEF Registered
    <3>2. CASE PersonalOf(u) = {}
      BY <3>2, FS_EmptySet
    <3>3. CASE PersonalOf(u) # {}
      <4>1. PICK w : PersonalOf(u) = {w}
        BY <3>1, <3>3 DEF AccessInv, TableInv
      <4>2. Cardinality({w}) = 1
        BY FS_Singleton
      <4> QED BY <4>1, <4>2
    <3> QED BY <3>2, <3>3
  <2>2. ASSUME NEW u \in Registered, accounts[u].email \in Emails
        PROVE  Addressed(accounts[u].email) = {u}
    BY <2>2 DEF AccessInv, TableInv, Addressed
  <2>3. \A w \in Made : spaces[w].type = "STANDARD" => owners[w] = {spaces[w].owner}
    BY DEF AccessInv, TableInv, SpaceInv
  <2> QED BY <2>1, <2>2, <2>3 DEF AccountsAreWhole, AccessInv, TableInv
<1> QED BY <1>1, AccessInvariant, PTL

\* Whatever a request did, its user was active, through an active workspace of theirs, at
\* some moment since it was sent, and nobody else has written there.
THEOREM AccessIsAlwaysDeserved == AccessSpec => []AccessIsDeserved
<1>1. AccessInv => AccessIsDeserved
  <2> SUFFICES ASSUME AccessInv PROVE AccessIsDeserved
    OBVIOUS
  <2>1. ASSUME NEW r \in Requests, requests[r].pc = "done"
        PROVE  /\ requests[r].userWas /\ requests[r].spaceWas
               /\ requests[r].op \in AdminOps => accounts[requests[r].user].role = "ADMIN"
               /\ \A c \in requests[r].shown : spaces[chats[c].space].owner = requests[r].user
    BY <2>1 DEF AccessInv, RequestInv, RequestWas, RequestMay
  <2>2. \A w \in Made : spaces[w].names = {spaces[w].owner}
    BY DEF AccessInv, TableInv, SpaceInv
  <2>3. \A c \in Chats : chats[c].there => chats[c].writers \subseteq {spaces[chats[c].space].owner}
    BY DEF AccessInv, ChatInv
  <2> QED BY <2>1, <2>2, <2>3 DEF AccessIsDeserved
<1> QED BY <1>1, AccessInvariant, PTL

\* No late write brings a deleted workspace or session back, deletes a personal workspace,
\* or gives one to somebody else.
THEOREM RetiredAlwaysStaysRetired == AccessSpec => RetiredStaysRetired
<1>1. AccessInv /\ AccessInv' /\ [AccessNext]_accessVars =>
        [/\ \A w \in Made :
              /\ spaces[w].status = "DELETED" => spaces'[w].status = "DELETED"
              /\ spaces[w].type = "PERSONAL" => spaces'[w].status = "ACTIVE"
              /\ spaces'[w].owner = spaces[w].owner /\ spaces'[w].type = spaces[w].type
         /\ \A c \in Chats : chats[c].space # 0 =>
              chats'[c].space = chats[c].space /\ (chats'[c].there => chats[c].there)]_accessVars
  <2> SUFFICES ASSUME AccessInv, AccessInv', [AccessNext]_accessVars
               PROVE  /\ \A w \in Made :
                           /\ spaces[w].status = "DELETED" => spaces'[w].status = "DELETED"
                           /\ spaces[w].type = "PERSONAL" => spaces'[w].status = "ACTIVE"
                           /\ spaces'[w].owner = spaces[w].owner /\ spaces'[w].type = spaces[w].type
                      /\ \A c \in Chats : chats[c].space # 0 =>
                           chats'[c].space = chats[c].space /\ (chats'[c].there => chats[c].there)
    OBVIOUS
  <2>1. Grows
    BY AccessInvStep
  <2>2. \A w \in Made' : spaces'[w].type = "PERSONAL" => spaces'[w].status = "ACTIVE"
    BY DEF AccessInv, TableInv, SpaceInv
  <2> QED BY <2>1, <2>2 DEF Grows, Created
<1> QED BY <1>1, AccessInvariant, PTL DEF AccessSpec, RetiredStaysRetired
=============================================================================
