---------------------------- MODULE UserService ----------------------------
(***************************************************************************)
(* The user service (apps/user-service): the accounts in MongoDB and the   *)
(* steps of the endpoints that read or write them.  The auth service calls *)
(* createUser, validateCredentials and findById; updateUser and deleteUser *)
(* are called with an access token, whose guard looks at no session.       *)
(*                                                                         *)
(* A document, a session and a refresh token are named by the request that *)
(* made them.  The user.* events are left to RecommendationGraph, the only *)
(* component that hears one (user.created).                                *)
(***************************************************************************)

CONSTANTS
    Reqs,     \* HTTP requests; each makes at most one account and one session
    Emails,   \* e-mail addresses
    AskSets,  \* the assignments of bodies to requests to consider
    Faults    \* may requests stop half way?

Ops == {"register", "login", "refresh", "verify", "logout", "update", "delete"}

\* email: of a registration or a login.  by: the request whose answer holds the
\* tokens that the others present.
Asks == [op : Ops, email : Emails, by : Reqs]

ASSUME UserAssumption ==
    /\ AskSets \subseteq [Reqs -> Asks]
    /\ Faults \in BOOLEAN

VARIABLES
    ask,      \* request |-> what it asks for
    pc,       \* request |-> where it is
    user,     \* request |-> the account it acts for: {} or {account}
    account,  \* the users collection: "none", "live" or "deleted" (deletedAt)
    profile   \* account |-> the last update written to it: {} or {request}

userVars == <<ask, pc, user, account, profile>>

UserInit ==
    /\ ask \in AskSets
    /\ pc = [r \in Reqs |-> "idle"]
    /\ user = [r \in Reqs |-> {}]
    /\ account = [r \in Reqs |-> "none"]
    /\ profile = [r \in Reqs |-> {}]

-----------------------------------------------------------------------------
Begins(r, op) == pc[r] = "idle" /\ ask[r].op = op

\* The answer that the presented tokens come from has been sent.
Presents(r) == pc[ask[r].by] = "done"

Goto(r, s) == pc' = [pc EXCEPT ![r] = s]

\* Every read of the repository has deletedAt: null in its filter.  Slip: one
\* by id forgets it.
Live_AnyId(a) == account[a] # "none"
Live(a) == account[a] = "live"

AccountsOf(email) == {a \in Reqs : account[a] = "live" /\ ask[a].email = email}

\* createUser: existsByEmail ...
CheckEmail(r) ==
    /\ Begins(r, "register")
    /\ Goto(r, IF AccountsOf(ask[r].email) = {} THEN "insert" ELSE "rejected")
    /\ UNCHANGED <<ask, user, account, profile>>

\* The unique index of the collection, which knows nothing of deletedAt.
\* Slip: no index, so that existsByEmail is the only check.
EmailTaken_NoIndex(email) == FALSE
EmailTaken(email) == \E a \in Reqs : account[a] # "none" /\ ask[a].email = email

\* ... then, once the password is hashed, save().
InsertUser(r) ==
    /\ pc[r] = "insert"
    /\ IF EmailTaken(ask[r].email)
       THEN Goto(r, "rejected") /\ UNCHANGED <<user, account>>
       ELSE /\ account' = [account EXCEPT ![r] = "live"]
            /\ user' = [user EXCEPT ![r] = {r}]
            /\ Goto(r, "session")
    /\ UNCHANGED <<ask, profile>>

\* validateCredentials: findByEmail, then the comparison of the password, which
\* may fail.
ValidateCredentials(r) ==
    /\ Begins(r, "login")
    /\ \/ \E a \in AccountsOf(ask[r].email) :
              user' = [user EXCEPT ![r] = {a}] /\ Goto(r, "session")
       \/ Goto(r, "rejected") /\ UNCHANGED user
    /\ UNCHANGED <<ask, account, profile>>

\* findById for a refresh; a token belongs to one account.
GetUser(r) ==
    /\ pc[r] = "getuser"
    /\ \E a \in user[ask[r].by] :
         IF Live(a)
         THEN Goto(r, "readtoken") /\ user' = [user EXCEPT ![r] = {a}]
         ELSE Goto(r, "rejected") /\ UNCHANGED user
    /\ UNCHANGED <<ask, account, profile>>

\* updateUser, for the owner of the token only: findById ...
FindUser(r) ==
    /\ Begins(r, "update") /\ Presents(r)
    /\ \E a \in user[ask[r].by] :
         /\ user' = [user EXCEPT ![r] = {a}]
         /\ Goto(r, IF Live(a) THEN "write" ELSE "rejected")
    /\ UNCHANGED <<ask, account, profile>>

\* Slip: findByIdAndUpdate(id), without the filter on deletedAt.
Writable_AnyId(a) == account[a] # "none"
Writable(a) == account[a] = "live"

\* ... then findOneAndUpdate.
WriteUser(r) ==
    /\ pc[r] = "write"
    /\ \E a \in user[r] :
         IF Writable(a)
         THEN Goto(r, "ended") /\ profile' = [profile EXCEPT ![a] = {r}]
         ELSE Goto(r, "rejected") /\ UNCHANGED profile
    /\ UNCHANGED <<ask, user, account>>

\* deleteUser: one findOneAndUpdate.  Sessions and tokens are not touched.
DeleteUser(r) ==
    /\ Begins(r, "delete") /\ Presents(r)
    /\ \E a \in user[ask[r].by] :
         IF Live(a)
         THEN Goto(r, "ended") /\ account' = [account EXCEPT ![a] = "deleted"]
         ELSE Goto(r, "rejected") /\ UNCHANGED account
    /\ UNCHANGED <<ask, user, profile>>

UserStep(r) ==
    \/ CheckEmail(r) \/ InsertUser(r) \/ ValidateCredentials(r) \/ GetUser(r)
    \/ FindUser(r) \/ WriteUser(r) \/ DeleteUser(r)

=============================================================================
