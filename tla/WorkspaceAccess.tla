--------------------------- MODULE WorkspaceAccess ---------------------------
(***************************************************************************)
(* Accounts, their workspaces and the requests that reach the sessions in  *)
(* them.  A request is authenticated by one read of the account and one of *)
(* the workspace its header names; what it does comes later, in reads and  *)
(* writes of its own, while other requests ban, delete and create.         *)
(* Personal workspaces are provisioned by the transaction that creates a   *)
(* user, and statement by statement by the seed of each start of the API   *)
(* and by the health sampler of a worker.                                  *)
(***************************************************************************)
EXTENDS Naturals, FiniteSets

CONSTANTS
  MaxUsers,     \* accounts there will be
  MaxSpaces,    \* workspaces there will be
  MaxChats,     \* sessions there will be
  MaxRequests,  \* requests there will be, of any user
  MaxSeeds,     \* bound on runs of the seed
  MaxHalts      \* bound on seeds and samplers that die

ASSUME AccessConstants ==
  /\ MaxUsers \in Nat /\ MaxSpaces \in Nat /\ MaxChats \in Nat
  /\ MaxRequests \in Nat /\ MaxSeeds \in Nat /\ MaxHalts \in Nat

Users == 1..MaxUsers
Spaces == 1..MaxSpaces
Chats == 1..MaxChats
Requests == 1..MaxRequests
Provisioners == {"seed", "sampler"}
SeededEmails == {"admin", "user"}
Emails == SeededEmails \cup {"new"}

VARIABLES
  accounts,     \* the users table
  spaces,       \* the workspaces table; rows are never removed
  owners,       \* per workspace: its ACTIVE memberships with the role OWNER
  chats,        \* the sessions: their workspace, and who has written to them
  tokens,       \* users who hold a token of an earlier login
  requests,     \* each request, with what its user was when it was sent
  provisioning, \* the calls of ensurePersonalWorkspaceForUser outside transactions
  provisioned,  \* users for whom such a call has reported success
  seeds, halts

accessVars == <<accounts, spaces, owners, chats, tokens, requests, provisioning, provisioned,
                seeds, halts>>

NoAccount == [status |-> "none", email |-> "none", role |-> "USER", whole |-> FALSE]
NoSpace == [owner |-> 0, type |-> "STANDARD", status |-> "none", names |-> {}]
NoChat == [space |-> 0, there |-> FALSE, writers |-> {}]
Unsent == [pc |-> "unsent", user |-> 0, space |-> 0, op |-> "none", target |-> 0,
           email |-> "none", role |-> "USER", shown |-> {}, userWas |-> FALSE, spaceWas |-> FALSE]
\* "unused": a provisioner that is not part of the deployment.
Resting == [pc |-> "off", user |-> 0, space |-> 0, todo |-> {}]

Registered == {u \in Users : accounts[u].status # "none"}
Made == {w \in Spaces : spaces[w].owner # 0}
PersonalOf(u) == {w \in Made : spaces[w].owner = u /\ spaces[w].type = "PERSONAL"}
Addressed(email) == {u \in Registered : accounts[u].email = email}

\* Ids are given in order.
NextId(used) == Cardinality(used) + 1

NewAccount(email, role, whole) ==
  [status |-> "ACTIVE", email |-> email, role |-> role, whole |-> whole]
NewSpace(u, type) == [owner |-> u, type |-> type, status |-> "ACTIVE", names |-> {u}]

-----------------------------------------------------------------------------
(* Provisioning.                                                           *)

\* ensurePersonalWorkspaceForUser, first for the smallest user of the seed's list.
Ensuring(p, todo) ==
  IF todo = {} THEN Resting
  ELSE LET u == CHOOSE x \in todo : \A y \in todo : x <= y
       IN [p EXCEPT !.pc = "find", !.user = u, !.space = 0, !.todo = todo \ {u}]

\* The seed upserts its two users, then lists all users there are.
StartSeed ==
  /\ provisioning["seed"].pc = "off" /\ seeds < MaxSeeds /\ seeds' = seeds + 1
  /\ provisioning' = [provisioning EXCEPT !["seed"].pc = "admin"]
  /\ UNCHANGED <<accounts, spaces, owners, chats, tokens, requests, provisioned, halts>>

Upsert(email, role, next) ==
  /\ provisioning["seed"].pc = email
  /\ \/ Addressed(email) # {} /\ UNCHANGED accounts
     \/ /\ Addressed(email) = {} /\ Registered # Users
        /\ accounts' = [accounts EXCEPT ![NextId(Registered)] = NewAccount(email, role, FALSE)]
  /\ provisioning' = [provisioning EXCEPT !["seed"].pc = next]
  /\ UNCHANGED <<spaces, owners, chats, tokens, requests, provisioned, seeds, halts>>

StartBackfill ==
  /\ provisioning["seed"].pc = "list"
  /\ provisioning' = [provisioning EXCEPT !["seed"] = Ensuring(@, Registered)]
  /\ UNCHANGED <<accounts, spaces, owners, chats, tokens, requests, provisioned, seeds, halts>>

\* findProviderHealthSamplingJobOwner: the first active administrator.
StartSampler ==
  /\ provisioning["sampler"].pc = "off"
  /\ \E u \in Registered :
       /\ accounts[u].role = "ADMIN" /\ accounts[u].status = "ACTIVE"
       /\ \A v \in Registered : accounts[v].role = "ADMIN" /\ accounts[v].status = "ACTIVE" => u <= v
       /\ provisioning' = [provisioning EXCEPT !["sampler"] = Ensuring(@, {u})]
  /\ UNCHANGED <<accounts, spaces, owners, chats, tokens, requests, provisioned, seeds, halts>>

FindPersonal(p) ==
  /\ provisioning[p].pc = "find"
  /\ LET found == PersonalOf(provisioning[p].user)
     IN \/ /\ found = {} /\ provisioning' = [provisioning EXCEPT ![p].pc = "create"]
        \/ \E w \in found : provisioning' = [provisioning EXCEPT ![p].pc = "check", ![p].space = w]
  /\ UNCHANGED <<accounts, spaces, owners, chats, tokens, requests, provisioned, seeds, halts>>

\* The unique index refuses a second personal workspace, and the first is read again.
CreatePersonal(p) ==
  /\ provisioning[p].pc = "create"
  /\ LET found == PersonalOf(provisioning[p].user)
     IN \/ /\ found = {} /\ Made # Spaces
           /\ spaces' = [spaces EXCEPT ![NextId(Made)] = NewSpace(provisioning[p].user, "PERSONAL")]
           /\ provisioning' = [provisioning EXCEPT ![p].pc = "check", ![p].space = NextId(Made)]
        \/ /\ \E w \in found : provisioning' = [provisioning EXCEPT ![p].pc = "check", ![p].space = w]
           /\ UNCHANGED spaces
  /\ UNCHANGED <<accounts, owners, chats, tokens, requests, provisioned, seeds, halts>>

Provided(p) ==
  /\ provisioning' = [provisioning EXCEPT ![p] = Ensuring(@, provisioning[p].todo)]
  /\ provisioned' = provisioned \cup {provisioning[p].user}

\* Mutant: who has a workspace is taken for its member.
TrustMembership(p) ==
  /\ provisioning[p].pc = "check" /\ Provided(p)
  /\ UNCHANGED <<accounts, spaces, owners, chats, tokens, requests, seeds, halts>>

\* An active owner other than the canonical one is an error.
CheckMembership(p) ==
  /\ provisioning[p].pc = "check"
  /\ LET now == owners[provisioning[p].space]
     IN \/ /\ now = {} /\ provisioning' = [provisioning EXCEPT ![p].pc = "enrol"]
           /\ UNCHANGED provisioned
        \/ now = {provisioning[p].user} /\ Provided(p)
        \/ /\ now \ {provisioning[p].user} # {}
           /\ provisioning' = [provisioning EXCEPT ![p] = Resting] /\ UNCHANGED provisioned
  /\ UNCHANGED <<accounts, spaces, owners, chats, tokens, requests, seeds, halts>>

\* A membership that was created meanwhile is an error, and ends a seed.
Enrol(p) ==
  /\ provisioning[p].pc = "enrol"
  /\ LET w == provisioning[p].space  u == provisioning[p].user
     IN \/ u \notin owners[w] /\ owners' = [owners EXCEPT ![w] = @ \cup {u}] /\ Provided(p)
        \/ /\ u \in owners[w] /\ provisioning' = [provisioning EXCEPT ![p] = Resting]
           /\ UNCHANGED <<owners, provisioned>>
  /\ UNCHANGED <<accounts, spaces, chats, tokens, requests, seeds, halts>>

\* A seed or a worker dies, or the database refuses it, between two statements.
Halt(p) ==
  /\ provisioning[p].pc \notin {"unused", "off"} /\ halts < MaxHalts /\ halts' = halts + 1
  /\ provisioning' = [provisioning EXCEPT ![p] = Resting]
  /\ UNCHANGED <<accounts, spaces, owners, chats, tokens, requests, provisioned, seeds>>

-----------------------------------------------------------------------------
(* Login and the authentication of a request.                              *)

Login(u) ==
  /\ u \notin tokens /\ accounts[u].status = "ACTIVE" /\ accounts[u].email \in Emails
  /\ \E w \in PersonalOf(u) : spaces[w].status = "ACTIVE"
  /\ tokens' = tokens \cup {u}
  /\ UNCHANGED <<accounts, spaces, owners, chats, requests, provisioning, provisioned, seeds, halts>>

ChatOps == {"createMessage", "getMessages", "updateSession", "deleteSession"}
SpaceOps == {"updateWorkspace", "deleteWorkspace"}
UserOps == {"banUser", "activateUser", "deleteUser"}
AdminOps == UserOps \cup {"createUser", "adminDeleteWorkspace"}

\* What a client may ask: any operation, on any row that it may have heard of.
Asks(op) ==
  CASE op \in ChatOps -> {c \in Chats : chats[c].space # 0}
    [] op \in SpaceOps \cup {"adminDeleteWorkspace"} -> Made
    [] op \in UserOps -> Registered
    [] OTHER -> {0}

Send(r, u, w, op, target, email) ==
  /\ requests[r].pc = "unsent" /\ \A q \in 1..(r - 1) : requests[q].pc # "unsent"
  /\ u \in tokens /\ w \in Made /\ target \in Asks(op)
  /\ requests' = [requests EXCEPT ![r] =
       [Unsent EXCEPT !.pc = "sent", !.user = u, !.space = w, !.op = op, !.target = target,
          !.email = email, !.userWas = accounts[u].status = "ACTIVE",
          !.spaceWas = spaces[w].owner = u /\ spaces[w].status = "ACTIVE"]]
  /\ UNCHANGED <<accounts, spaces, owners, chats, tokens, provisioning, provisioned, seeds, halts>>

\* A request that is refused leaves nothing behind.
Refused(r) == requests' = [requests EXCEPT ![r] = [Unsent EXCEPT !.pc = "refused"]]
At(r, pc) == requests' = [requests EXCEPT ![r].pc = pc]
\* What is kept of a request that is over is what it was entitled to.
Finished(request, shown) ==
  [request EXCEPT !.pc = "done", !.shown = shown, !.space = 0, !.target = 0, !.email = "none"]
Done(r) == requests' = [requests EXCEPT ![r] = Finished(@, {})]

\* authenticate reads the account, whatever the token says.
Authenticate(r) ==
  /\ requests[r].pc = "sent"
  /\ LET account == accounts[requests[r].user]
     IN IF account.status = "ACTIVE"
        THEN requests' = [requests EXCEPT ![r].pc = "known", ![r].role = account.role]
        ELSE Refused(r)
  /\ UNCHANGED <<accounts, spaces, owners, chats, tokens, provisioning, provisioned, seeds, halts>>

\* attachWorkspaceContext: the workspace is active and the caller owns it; then the role.
AttachWorkspace(r) ==
  /\ requests[r].pc = "known"
  /\ LET w == spaces[requests[r].space]
     IN IF /\ w.status = "ACTIVE" /\ w.owner = requests[r].user
           /\ requests[r].op \in AdminOps => requests[r].role = "ADMIN"
        THEN At(r, "allowed") ELSE Refused(r)
  /\ UNCHANGED <<accounts, spaces, owners, chats, tokens, provisioning, provisioned, seeds, halts>>

-----------------------------------------------------------------------------
(* What an allowed request does.                                           *)

Doing(r, op) == requests[r].pc = "allowed" /\ requests[r].op = op
Checked(r, op) == requests[r].pc = "checked" /\ requests[r].op = op

\* A session is found in the workspace of the request only.
InWorkspace(r, c) == chats[c].there /\ chats[c].space = requests[r].space

NewSession(r) ==
  /\ Doing(r, "createSession")
  /\ \E c \in Chats :
       /\ c = NextId({x \in Chats : chats[x].space # 0})
       /\ chats' = [chats EXCEPT ![c] = [space |-> requests[r].space, there |-> TRUE,
                                         writers |-> {requests[r].user}]]
  /\ Done(r)
  /\ UNCHANGED <<accounts, spaces, owners, tokens, provisioning, provisioned, seeds, halts>>

\* updateSessionInWorkspace and deleteSessionInWorkspace, one transaction each.
ChangeSession(r) ==
  /\ requests[r].pc = "allowed" /\ requests[r].op \in {"updateSession", "deleteSession"}
  /\ LET c == requests[r].target
     IN IF InWorkspace(r, c)
        THEN /\ chats' = IF requests[r].op = "deleteSession"
                         THEN [chats EXCEPT ![c].there = FALSE, ![c].writers = {}]
                         ELSE [chats EXCEPT ![c].writers = @ \cup {requests[r].user}]
             /\ Done(r)
        ELSE Refused(r) /\ UNCHANGED chats
  /\ UNCHANGED <<accounts, spaces, owners, tokens, provisioning, provisioned, seeds, halts>>

\* Mutant: a message names its session, and that is enough.
SkipEnsureSession(r) ==
  /\ requests[r].pc = "allowed" /\ requests[r].op \in {"createMessage", "getMessages"}
  /\ At(r, "checked")
  /\ UNCHANGED <<accounts, spaces, owners, chats, tokens, provisioning, provisioned, seeds, halts>>

EnsureSessionInWorkspace(r) ==
  /\ requests[r].pc = "allowed" /\ requests[r].op \in {"createMessage", "getMessages"}
  /\ IF InWorkspace(r, requests[r].target) THEN At(r, "checked") ELSE Refused(r)
  /\ UNCHANGED <<accounts, spaces, owners, chats, tokens, provisioning, provisioned, seeds, halts>>

\* A message of a session that has gone is refused by its foreign key.
CreateMessage(r) ==
  /\ Checked(r, "createMessage")
  /\ LET c == requests[r].target
     IN IF chats[c].there
        THEN /\ chats' = [chats EXCEPT ![c].writers = @ \cup {requests[r].user}]
             /\ Done(r)
        ELSE Refused(r) /\ UNCHANGED chats
  /\ UNCHANGED <<accounts, spaces, owners, tokens, provisioning, provisioned, seeds, halts>>

ListMessages(r) ==
  /\ Checked(r, "getMessages")
  /\ requests' = [requests EXCEPT ![r] =
                     Finished(@, {c \in {requests[r].target} : InWorkspace(r, c)})]
  /\ UNCHANGED <<accounts, spaces, owners, chats, tokens, provisioning, provisioned, seeds, halts>>

\* The workspace and its membership in one transaction.
CreateStandardWorkspace(r) ==
  /\ Doing(r, "createWorkspace") /\ Made # Spaces
  /\ spaces' = [spaces EXCEPT ![NextId(Made)] = NewSpace(requests[r].user, "STANDARD")]
  /\ owners' = [owners EXCEPT ![NextId(Made)] = {requests[r].user}]
  /\ Done(r)
  /\ UNCHANGED <<accounts, chats, tokens, provisioning, provisioned, seeds, halts>>

\* The workspace of the path, which need not be the one of the header.
FindOwnedWorkspace(r) ==
  /\ requests[r].pc = "allowed" /\ requests[r].op \in SpaceOps
  /\ LET w == spaces[requests[r].target]
     IN IF w.status = "ACTIVE" /\ w.owner = requests[r].user /\ w.type = "STANDARD"
        THEN At(r, "checked") ELSE Refused(r)
  /\ UNCHANGED <<accounts, spaces, owners, chats, tokens, provisioning, provisioned, seeds, halts>>

\* Mutant: the row that was read is written back with its new name.
WriteBackWorkspace(r) ==
  /\ Checked(r, "updateWorkspace") /\ Done(r)
  /\ spaces' = [spaces EXCEPT ![requests[r].target].status = "ACTIVE",
                              ![requests[r].target].names = @ \cup {requests[r].user}]
  /\ UNCHANGED <<accounts, owners, chats, tokens, provisioning, provisioned, seeds, halts>>

UpdateWorkspaceName(r) ==
  /\ Checked(r, "updateWorkspace") /\ Done(r)
  /\ spaces' = [spaces EXCEPT ![requests[r].target].names = @ \cup {requests[r].user}]
  /\ UNCHANGED <<accounts, owners, chats, tokens, provisioning, provisioned, seeds, halts>>

FindStandardWorkspace(r) ==
  /\ Doing(r, "adminDeleteWorkspace")
  /\ LET w == spaces[requests[r].target]
     IN IF w.type # "STANDARD" THEN Refused(r)
        ELSE IF w.status = "DELETED" THEN Done(r) ELSE At(r, "checked")
  /\ UNCHANGED <<accounts, spaces, owners, chats, tokens, provisioning, provisioned, seeds, halts>>

SoftDeleteWorkspace(r) ==
  /\ Checked(r, "deleteWorkspace") \/ Checked(r, "adminDeleteWorkspace")
  /\ spaces' = [spaces EXCEPT ![requests[r].target].status = "DELETED"] /\ Done(r)
  /\ UNCHANGED <<accounts, owners, chats, tokens, provisioning, provisioned, seeds, halts>>

\* updateUserStatus: from any status; an account that is deleted gives up its address.
\* A request of the user that is under way has met an active account.
UpdateUserStatus(r) ==
  /\ requests[r].pc = "allowed" /\ requests[r].op \in UserOps
  /\ LET u == requests[r].target
     IN /\ accounts' = [accounts EXCEPT ![u].status =
                CASE requests[r].op = "banUser" -> "BANNED"
                  [] requests[r].op = "activateUser" -> "ACTIVE"
                  [] OTHER -> "DELETED",
              ![u].email = IF requests[r].op = "deleteUser" THEN "gone" ELSE @]
        /\ requests' = [q \in Requests |->
              [IF q = r THEN Finished(requests[r], {}) ELSE requests[q] EXCEPT
                 !.userWas = @ \/ (requests[r].op = "activateUser" /\ requests[q].user = u)]]
  /\ UNCHANGED <<spaces, owners, chats, tokens, provisioning, provisioned, seeds, halts>>

FindByEmail(r) ==
  /\ Doing(r, "createUser")
  /\ IF \E u \in Addressed(requests[r].email) : accounts[u].status # "DELETED"
     THEN Refused(r) ELSE At(r, "checked")
  /\ UNCHANGED <<accounts, spaces, owners, chats, tokens, provisioning, provisioned, seeds, halts>>

\* The user, the workspace and the membership in one transaction; the address is unique.
CreateUser(r) ==
  /\ Checked(r, "createUser")
  /\ IF Addressed(requests[r].email) # {}
     THEN Refused(r) /\ UNCHANGED <<accounts, spaces, owners>>
     ELSE LET u == NextId(Registered)  w == NextId(Made)
          IN /\ Registered # Users /\ Made # Spaces
             /\ accounts' = [accounts EXCEPT ![u] = NewAccount(requests[r].email, "USER", TRUE)]
             /\ spaces' = [spaces EXCEPT ![w] = NewSpace(u, "PERSONAL")]
             /\ owners' = [owners EXCEPT ![w] = {u}]
             /\ Done(r)
  /\ UNCHANGED <<chats, tokens, provisioning, provisioned, seeds, halts>>

-----------------------------------------------------------------------------
AccessInit ==
  /\ accounts = [u \in Users |-> NoAccount] /\ spaces = [w \in Spaces |-> NoSpace]
  /\ owners = [w \in Spaces |-> {}] /\ chats = [c \in Chats |-> NoChat]
  /\ tokens = {} /\ requests = [r \in Requests |-> Unsent]
  /\ provisioning = [p \in Provisioners |-> Resting] /\ provisioned = {}
  /\ seeds = 0 /\ halts = 0

Provision ==
  \/ StartSeed \/ StartBackfill \/ StartSampler
  \/ Upsert("admin", "ADMIN", "user") \/ Upsert("user", "USER", "list")
  \/ \E p \in Provisioners : FindPersonal(p) \/ CreatePersonal(p) \/ CheckMembership(p) \/ Enrol(p) \/ Halt(p)

Request(r) ==
  \/ \E u \in tokens, w \in Made :
       \/ \E op \in ChatOps \cup SpaceOps \cup UserOps \cup {"adminDeleteWorkspace"} :
            \E target \in Asks(op) : Send(r, u, w, op, target, "none")
       \/ \E op \in {"createSession", "createWorkspace"} : Send(r, u, w, op, 0, "none")
       \/ \E email \in Emails : Send(r, u, w, "createUser", 0, email)
  \/ Authenticate(r) \/ AttachWorkspace(r)
  \/ NewSession(r) \/ ChangeSession(r)
  \/ EnsureSessionInWorkspace(r) \/ CreateMessage(r) \/ ListMessages(r)
  \/ CreateStandardWorkspace(r) \/ FindOwnedWorkspace(r) \/ UpdateWorkspaceName(r)
  \/ FindStandardWorkspace(r) \/ SoftDeleteWorkspace(r)
  \/ UpdateUserStatus(r) \/ FindByEmail(r) \/ CreateUser(r)

AccessNext == Provision \/ (\E u \in Users : Login(u)) \/ \E r \in Requests : Request(r)

AccessSpec == AccessInit /\ [][AccessNext]_accessVars

-----------------------------------------------------------------------------
AccessTypeOK ==
  /\ \A u \in Users : /\ accounts[u].status \in {"none", "ACTIVE", "BANNED", "DELETED"}
                      /\ accounts[u].email \in Emails \cup {"none", "gone"}
  /\ \A w \in Spaces : /\ spaces[w].owner \in Users \cup {0}
                       /\ spaces[w].status \in {"none", "ACTIVE", "DELETED"}
  /\ owners \in [Spaces -> SUBSET Users] /\ tokens \subseteq Registered
  /\ \A r \in Requests :
       requests[r].pc \in {"unsent", "sent", "known", "allowed", "checked", "done", "refused"}
  /\ \A p \in Provisioners : provisioning[p].pc \in
       {"unused", "off", "admin", "user", "list", "find", "create", "check", "enrol"}
  /\ seeds \in 0..MaxSeeds /\ halts \in 0..MaxHalts

HasWorkspace(u) == \E w \in PersonalOf(u) : spaces[w].status = "ACTIVE" /\ owners[w] = {u}

\* Whatever seeds, samplers and creations overlap and wherever they die, a user has no
\* second personal workspace and no workspace an owner beside its own; an address belongs to
\* one account; and a user who was created by an administrator, or whose provisioning was
\* ever reported a success, has an active personal workspace and is its member.
AccountsAreWhole ==
  /\ \A u \in Registered :
       /\ Cardinality(PersonalOf(u)) <= 1
       /\ accounts[u].email \in Emails => Addressed(accounts[u].email) = {u}
       /\ accounts[u].whole \/ u \in provisioned => HasWorkspace(u)
  /\ \A w \in Spaces : owners[w] \subseteq {spaces[w].owner}
  /\ \A w \in Made : spaces[w].type = "STANDARD" => owners[w] = {spaces[w].owner}

\* A request that did anything, or showed anything, was of a user who was active, through a
\* workspace of theirs that was active, at some moment since it was sent; what it reached is
\* in a workspace of that user, and nobody else has ever written to a session or a name
\* there, whoever banned, deleted or created what meanwhile.
AccessIsDeserved ==
  /\ \A r \in Requests : requests[r].pc = "done" =>
       /\ requests[r].userWas /\ requests[r].spaceWas
       /\ requests[r].op \in AdminOps => accounts[requests[r].user].role = "ADMIN"
       /\ \A c \in requests[r].shown : spaces[chats[c].space].owner = requests[r].user
  /\ \A c \in Chats : chats[c].there => chats[c].writers \subseteq {spaces[chats[c].space].owner}
  /\ \A w \in Made : spaces[w].names = {spaces[w].owner}

\* Requests that were checked before a deletion and write after it bring nothing back: a
\* deleted workspace stays deleted, a personal one is never deleted, and neither
\* workspaces nor sessions change hands.
RetiredStaysRetired ==
  [][/\ \A w \in Made :
          /\ spaces[w].status = "DELETED" => spaces'[w].status = "DELETED"
          /\ spaces[w].type = "PERSONAL" => spaces'[w].status = "ACTIVE"
          /\ spaces'[w].owner = spaces[w].owner /\ spaces'[w].type = spaces[w].type
     /\ \A c \in Chats : chats[c].space # 0 =>
          chats'[c].space = chats[c].space /\ (chats'[c].there => chats[c].there)]_accessVars
=============================================================================
