---------------------------- MODULE AuthService ----------------------------
(***************************************************************************)
(* The auth service (apps/auth-service) over the user service: sessions    *)
(* and refresh tokens in Redis, under the keys session:{id},               *)
(* refresh:{token} and refresh_user:{userId}, and the steps of             *)
(* /auth/register, login, refresh-token, logout and verify, one for each   *)
(* await.                                                                  *)
(*                                                                         *)
(* Time is a step of the environment: what is stored with a TTL lapses     *)
(* (expiresAt has passed) and is evicted by Redis.  A request with an      *)
(* expired access token or a wrong body is refused before anything is read *)
(* and is a request that never begins.                                     *)
(***************************************************************************)
EXTENDS UserService

CONSTANT Aging  \* requests whose session and token may expire

ASSUME AuthAssumption == Aging \subseteq Reqs

VARIABLES
    session,  \* session:{id}, by the request that made it
    token,    \* refresh:{token}, by the request that made it
    latest,   \* refresh_user:{userId}: {} or {token}
    named,    \* request |-> the token it has read and will delete: {} or {token}
    spent     \* request |-> history: requests that had already been granted a
              \* refresh with the token it presents when it was validated

authVars == <<session, token, latest, named, spent>>
aVars    == <<userVars, authVars>>

\* A key: not written yet, there, there but past its expiresAt, deleted before
\* it expired, gone (evicted or deleted) after it did.
KeyStates == {"none", "live", "late", "deleted", "expired"}

Kept(k) == k \in {"live", "late"}

\* DEL
Deleted(k) ==
    CASE k = "live" -> "deleted" [] k = "late" -> "expired" [] OTHER -> k

Init ==
    /\ UserInit
    /\ session = [r \in Reqs |-> "none"]
    /\ token = [r \in Reqs |-> "none"]
    /\ latest = [a \in Reqs |-> {}]
    /\ named = [r \in Reqs |-> {}]
    /\ spent = [r \in Reqs |-> {}]

-----------------------------------------------------------------------------
(* register, login and refresh-token all end with createSession and        *)
(* createRefreshToken.                                                     *)

\* createSession, and SETEX refresh:{token}: nobody can name either key before
\* the mapping is written ...
StoreKeys(r) ==
    /\ pc[r] = "session"
    /\ session' = [session EXCEPT ![r] = "live"]
    /\ token' = [token EXCEPT ![r] = "live"]
    /\ Goto(r, "map")
    /\ UNCHANGED <<ask, user, account, profile, latest, named, spent>>

\* Slips: the mapping is a set of tokens; a refresh maps the token it was given.
Mapping_Sadd(old, r) == old \cup {r}
Mapping_Given(old, r) == IF ask[r].op = "refresh" THEN {ask[r].by} ELSE {r}
Mapping(old, r) == {r}

\* ... and SETEX refresh_user:{userId}, then the answer.
MapToken(r) ==
    /\ pc[r] = "map"
    /\ \E a \in user[r] : latest' = [latest EXCEPT ![a] = Mapping(@, r)]
    /\ Goto(r, "done")
    /\ UNCHANGED <<ask, user, account, profile, session, token, named, spent>>

-----------------------------------------------------------------------------
(* refreshToken.                                                           *)

\* A refresh that has deleted the old token, or has nothing left to delete.
Granted(r) == pc[r] \in {"session", "map", "done"}

\* validateRefreshToken: GET refresh:{token}.  A token past its expiresAt is
\* deleted like a valid one, but no user is looked up for it.
ValidateToken(r) ==
    /\ Begins(r, "refresh") /\ Presents(r)
    /\ spent' = [spent EXCEPT ![r] = {q \in Reqs : /\ ask[q].op = "refresh"
                                                  /\ ask[q].by = ask[r].by
                                                  /\ Granted(q)}]
    /\ Goto(r, CASE token[ask[r].by] = "live" -> "getuser"
                 [] token[ask[r].by] = "late" -> "readtoken"
                 [] OTHER                     -> "rejected")
    /\ UNCHANGED <<ask, user, account, profile, session, token, latest, named>>

\* deleteRefreshToken: GET refresh:{token} ...
ReadToken(r) ==
    /\ pc[r] = "readtoken"
    /\ named' = [named EXCEPT ![r] = IF Kept(token[ask[r].by]) THEN {ask[r].by}
                                     ELSE {}]
    /\ Goto(r, "deltoken")
    /\ UNCHANGED <<ask, user, account, profile, session, token, latest, spent>>

\* DEL of the tokens in T.  A deleted key stays deleted: a token is a fresh UUID.
Without(T) ==
    [t \in Reqs |-> IF t \in T THEN Deleted(token[t]) ELSE token[t]]

\* Slip: the token that the user's mapping names is deleted instead.
Old_Latest(r) == UNION {latest[a] : a \in user[r]}
Old(r) == {ask[r].by}

\* ... DEL refresh:{token} ...
DelToken(r) ==
    /\ pc[r] = "deltoken"
    /\ token' = Without(Old(r))
    /\ Goto(r, "delmap")
    /\ UNCHANGED <<ask, user, account, profile, session, latest, named, spent>>

\* ... and DEL refresh_user:{userId} if the GET found the token, whichever token
\* is mapped by now.
DelMapping(r) ==
    /\ pc[r] = "delmap"
    /\ latest' = [a \in Reqs |-> IF named[r] # {} /\ a \in user[ask[r].by] THEN {}
                                 ELSE latest[a]]
    /\ named' = [named EXCEPT ![r] = {}]
    /\ Goto(r, IF user[r] = {} THEN "rejected" ELSE "session")
    /\ UNCHANGED <<ask, user, account, profile, session, token, spent>>

-----------------------------------------------------------------------------
(* logout and verify; both find the session by the id in the access token. *)

GetSession(r) ==
    /\ Begins(r, "logout") /\ Presents(r)
    /\ IF Kept(session[ask[r].by])
       THEN /\ user' = [user EXCEPT ![r] = user[ask[r].by]]
            /\ Goto(r, "delsession")
       ELSE UNCHANGED user /\ Goto(r, "ended")
    /\ UNCHANGED <<ask, account, profile, authVars>>

DropSession(s) == session' = [session EXCEPT ![s] = Deleted(@)]

DelSession(r) ==
    /\ pc[r] = "delsession"
    /\ DropSession(ask[r].by)
    /\ Goto(r, "readmap")
    /\ UNCHANGED <<ask, user, account, profile, token, latest, named, spent>>

\* deleteRefreshTokenByUserId: GET refresh_user:{userId} ...
ReadMapping(r) ==
    /\ pc[r] = "readmap"
    /\ \E a \in user[r] : named' = [named EXCEPT ![r] = latest[a]]
    /\ Goto(r, "delmapped")
    /\ UNCHANGED <<ask, user, account, profile, session, token, latest, spent>>

\* ... DEL of the token it names ...
DelMapped(r) ==
    /\ pc[r] = "delmapped"
    /\ token' = Without(named[r])
    /\ Goto(r, "clearmap")
    /\ UNCHANGED <<ask, user, account, profile, session, latest, named, spent>>

\* ... and DEL of the mapping itself.
ClearMapping(r) ==
    /\ pc[r] = "clearmap"
    /\ \E a \in user[r] : latest' = [latest EXCEPT ![a] = {}]
    /\ named' = [named EXCEPT ![r] = {}]
    /\ Goto(r, "ended")
    /\ UNCHANGED <<ask, user, account, profile, session, token, spent>>

Verify(r) ==
    /\ Begins(r, "verify") /\ Presents(r)
    /\ Goto(r, CASE session[ask[r].by] = "live" -> "ended"
                 [] session[ask[r].by] = "late" -> "purge"
                 [] OTHER                       -> "rejected")
    /\ UNCHANGED <<ask, user, account, profile, authVars>>

PurgeSession(r) ==
    /\ pc[r] = "purge"
    /\ DropSession(ask[r].by)
    /\ Goto(r, "rejected")
    /\ UNCHANGED <<ask, user, account, profile, token, latest, named, spent>>

-----------------------------------------------------------------------------
(* The environment.                                                        *)

\* A request under way does not outlast the TTLs.
Passed(r) == r \in Aging /\ pc[r] \in {"done", "lost"}

ExpireSession(r) ==
    /\ Passed(r) /\ Kept(session[r])
    /\ \E k \in {"late", "expired"} \ {session[r]} :
         session' = [session EXCEPT ![r] = k]
    /\ UNCHANGED <<userVars, token, latest, named, spent>>

ExpireToken(r) ==
    /\ Passed(r) /\ Kept(token[r])
    /\ \E k \in {"late", "expired"} \ {token[r]} :
         token' = [token EXCEPT ![r] = k]
    /\ UNCHANGED <<userVars, session, latest, named, spent>>

\* The mapping is written after its token, with the same TTL.
ExpireMapping(a) ==
    /\ latest[a] # {} /\ \A t \in latest[a] : ~Kept(token[t])
    /\ latest' = [latest EXCEPT ![a] = {}]
    /\ UNCHANGED <<userVars, session, token, named, spent>>

\* The process stops, or MongoDB, Redis or the other service answers with an
\* error.
FailRequest(r) ==
    /\ Faults
    /\ pc[r] \notin {"idle", "done", "ended", "rejected", "lost"}
    /\ Goto(r, "lost")
    /\ named' = [named EXCEPT ![r] = {}]
    /\ UNCHANGED <<ask, user, account, profile, session, token, latest, spent>>

-----------------------------------------------------------------------------
AuthStep(r) ==
    \/ StoreKeys(r) \/ MapToken(r)
    \/ ValidateToken(r) \/ ReadToken(r) \/ DelToken(r) \/ DelMapping(r)
    \/ GetSession(r) \/ DelSession(r) \/ ReadMapping(r) \/ DelMapped(r)
    \/ ClearMapping(r) \/ Verify(r) \/ PurgeSession(r)

Environment(r) ==
    \/ ExpireSession(r) \/ ExpireToken(r) \/ ExpireMapping(r) \/ FailRequest(r)

Step(r) ==
    \/ UserStep(r) /\ UNCHANGED authVars
    \/ AuthStep(r)
    \/ Environment(r)

Next == \E r \in Reqs : Step(r)

Spec == Init /\ [][Next]_aVars

-----------------------------------------------------------------------------
(* What is checked.                                                        *)

AuthPCs ==
    {"idle", "rejected", "lost", "done", "ended", "insert", "session", "map",
     "getuser", "readtoken", "deltoken", "delmap", "write",
     "delsession", "readmap", "delmapped", "clearmap", "purge"}

AtMostOne(S) == \A x, y \in S : x = y

\* Every variable holds a value of its kind: in particular a request acts for
\* at most one account and a mapping names at most one token.
TypeOK ==
    /\ ask \in [Reqs -> Asks]
    /\ pc \in [Reqs -> AuthPCs]
    /\ account \in [Reqs -> {"none", "live", "deleted"}]
    /\ user \in [Reqs -> SUBSET Reqs]
    /\ profile \in [Reqs -> SUBSET Reqs]
    /\ latest \in [Reqs -> SUBSET Reqs]
    /\ named \in [Reqs -> SUBSET Reqs]
    /\ \A r \in Reqs : AtMostOne(user[r]) /\ AtMostOne(latest[r]) /\ AtMostOne(named[r])
    /\ session \in [Reqs -> KeyStates]
    /\ token \in [Reqs -> KeyStates]
    /\ spent \in [Reqs -> SUBSET Reqs]

\* No two accounts have the same address, deleted ones included, also when two
\* registrations pass existsByEmail before either is inserted.
OneAccountPerEmail ==
    \A a, b \in Reqs :
        account[a] # "none" /\ account[b] # "none" /\ ask[a].email = ask[b].email
        => a = b

\* Rotation: when a refresh is granted, no other one with the same token had
\* been granted when it was validated.  A token can be exchanged twice only by
\* two requests that overlap.
SuccessorsOverlap ==
    \A r \in Reqs : ask[r].op = "refresh" /\ Granted(r) => spent[r] = {}

Quiet == \A r \in Reqs : pc[r] \in {"idle", "done", "ended", "rejected"}

NobodyLoggedOut == \A r \in Reqs : ask[r].op = "logout" => pc[r] = "idle"

NothingLapsed == \A r \in Reqs : token[r] \notin {"late", "expired"}

\* As long as nobody logs out and nothing expires or fails, refresh_user of an
\* account with tokens names one that is live whenever no request is under way,
\* though a refresh deletes the mapping whatever it names: a logout then finds
\* a token to delete.
LatestIsLive ==
    Quiet /\ NobodyLoggedOut /\ NothingLapsed =>
        \A r \in Reqs : pc[r] = "done" =>
            \A a \in user[r] : \E t \in latest[a] : token[t] = "live"

\* Once a logout has ended a session, the refresh token that was issued with it
\* is not valid any more.
LogoutEndsLogin ==
    \A r \in Reqs : ask[r].op = "logout" /\ pc[r] = "ended" /\ user[r] # {} =>
        ~Kept(token[ask[r].by])

\* A deleted account stays deleted and its profile is written no more, also by
\* an update that had already found it live.
DeletedIsFrozen ==
    [][\A a \in Reqs : account[a] = "deleted" =>
           account'[a] = "deleted" /\ profile'[a] = profile[a]]_aVars

\* The services implement the ledger of AccessLedger: a token is only ever
\* given to a request that found the account live, and is never valid again
\* once deleted or expired.
GrantOps == {"register", "login", "refresh"}

GrantOf(r) ==
    IF ask[r].op \notin GrantOps \/ user[r] = {} THEN "none"
    ELSE CASE token[r] = "none" /\ pc[r] # "lost" -> "owed"
           [] Kept(token[r])                      -> "live"
           [] OTHER                               -> "over"

Ledger == INSTANCE AccessLedger WITH
    Grants <- Reqs,
    address <- [r \in Reqs |-> ask[r].email],
    grant <- [r \in Reqs |-> GrantOf(r)],
    holder <- [r \in Reqs |-> IF ask[r].op \in GrantOps THEN user[r] ELSE {}]

ImplementsAccess == Ledger!Spec

-----------------------------------------------------------------------------
(* The invariant behind SuccessorsOverlap, LatestIsLive and                *)
(* ImplementsAccess: none of them is inductive as it stands.               *)

RefreshPCs == {"getuser", "readtoken", "deltoken", "delmap"}
LogoutPCs == {"delsession", "readmap", "delmapped", "clearmap"}

\* A request is only at steps of its kind, acts for an account from the step
\* that found it live, and has its keys from StoreKeys on.
StepInv ==
    \A r \in Reqs :
        /\ pc[r] = "insert" => ask[r].op = "register"
        /\ pc[r] \in RefreshPCs => ask[r].op = "refresh"
        /\ pc[r] \in {"session", "map", "done"} =>
               ask[r].op \in GrantOps /\ user[r] # {}
        /\ pc[r] \in LogoutPCs => ask[r].op = "logout"
        /\ pc[r] \in {"ended", "write", "purge"} => ask[r].op \notin GrantOps
        /\ pc[r] \in {"idle", "insert", "getuser", "rejected"}
           /\ ask[r].op \in GrantOps => user[r] = {}
        /\ pc[r] \notin {"map", "done", "lost"} => token[r] = "none"
        /\ token[r] # "none" => ask[r].op \in GrantOps /\ user[r] # {}
        /\ pc[r] \in {"map", "done"} => token[r] # "none"
        /\ pc[r] = "map" => token[r] = "live"

\* What a mapping or a logout names has been answered.
NamedInv ==
    \A r \in Reqs :
        /\ \A t \in latest[r] : pc[t] = "done" /\ r \in user[t]
        /\ \A t \in named[r] : pc[t] = "done"

\* A document is in the collection from InsertUser on.
AccountInv ==
    \A r \in Reqs : account[r] # "none" =>
        /\ ask[r].op = "register"
        /\ pc[r] \notin {"idle", "insert", "rejected"}

\* A request that is under way with the tokens of another one has got them from
\* its answer; one that has deleted the refresh token leaves it deleted, and
\* had nobody before it.
RefreshInv ==
    \A r \in Reqs : ask[r].op = "refresh" =>
        /\ pc[r] # "idle" => pc[ask[r].by] = "done"
        /\ pc[r] \in {"delmap", "session", "map", "done"} => ~Kept(token[ask[r].by])
        /\ pc[r] \notin {"idle", "rejected", "lost"} => spent[r] = {}

\* As long as nobody logs out and nothing expires or fails ...
Calm ==
    /\ NobodyLoggedOut /\ NothingLapsed
    /\ \A r \in Reqs : pc[r] # "lost"

\* ... a refresh acts for the owner of the token ...
OwnerInv ==
    Calm => \A r \in Reqs : pc[r] \in {"readtoken", "deltoken", "delmap"} =>
                user[r] # {} /\ user[r] = user[ask[r].by]

\* ... and the mapping of an account with tokens names a live one, or a request
\* is on its way to write it.
WillMap(a) == \E r \in Reqs : pc[r] \in {"delmap", "session", "map"} /\ a \in user[r]

MappingInv ==
    Calm => \A r \in Reqs : pc[r] = "done" => \A a \in user[r] :
                WillMap(a) \/ \E t \in latest[a] : token[t] = "live"

AInv == /\ TypeOK /\ StepInv /\ NamedInv /\ AccountInv /\ OneAccountPerEmail /\ RefreshInv
        /\ OwnerInv /\ MappingInv

=============================================================================
