----------------------------- MODULE AuthProofs -----------------------------
(***************************************************************************)
(* Proofs about AuthService, for any requests, addresses and bodies, with  *)
(* keys that expire and requests that stop anywhere.                       *)
(***************************************************************************)
EXTENDS AuthService, TLAPS

\* An ask is a record of three fields.
LEMMA AskFields ==
  ASSUME TypeOK, NEW r \in Reqs
  PROVE  ask[r].by \in Reqs /\ ask[r].op \in Ops /\ ask[r].email \in Emails
BY DEF TypeOK, Asks

-----------------------------------------------------------------------------
(* Type correctness.                                                       *)

LEMMA TypeInit == ASSUME UserAssumption, Init PROVE TypeOK
BY DEF UserAssumption, Init, UserInit, TypeOK, AuthPCs, KeyStates, AtMostOne

LEMMA TypeStep ==
  ASSUME TypeOK, NEW r \in Reqs, Step(r)
  PROVE  TypeOK'
<1> USE DEF TypeOK, AtMostOne, AuthPCs, KeyStates, userVars, authVars
<1>0. ask[r].by \in Reqs
  BY AskFields
<1>1. CASE CheckEmail(r) /\ UNCHANGED authVars
  BY <1>1 DEF CheckEmail, Begins, Goto
<1>2. CASE InsertUser(r) /\ UNCHANGED authVars
  BY <1>2 DEF InsertUser, Goto
<1>3. CASE ValidateCredentials(r) /\ UNCHANGED authVars
  BY <1>3 DEF ValidateCredentials, Begins, AccountsOf, Goto
<1>4. CASE GetUser(r) /\ UNCHANGED authVars
  BY <1>4, <1>0 DEF GetUser, Live, Goto
<1>5. CASE FindUser(r) /\ UNCHANGED authVars
  BY <1>5, <1>0 DEF FindUser, Begins, Presents, Goto
<1>6. CASE WriteUser(r) /\ UNCHANGED authVars
  BY <1>6 DEF WriteUser, Writable, Goto
<1>7. CASE DeleteUser(r) /\ UNCHANGED authVars
  BY <1>7 DEF DeleteUser, Begins, Presents, Live, Goto
<1>8. CASE StoreKeys(r)
  BY <1>8 DEF StoreKeys, Goto
<1>9. CASE MapToken(r)
  BY <1>9 DEF MapToken, Mapping, Goto
<1>10. CASE ValidateToken(r)
  BY <1>10 DEF ValidateToken, Begins, Presents, Goto
<1>11. CASE ReadToken(r)
  BY <1>11, <1>0 DEF ReadToken, Kept, Goto
<1>12. CASE DelToken(r)
  BY <1>12 DEF DelToken, Without, Deleted, Old, Goto
<1>13. CASE DelMapping(r)
  BY <1>13 DEF DelMapping, Goto
<1>14. CASE GetSession(r)
  BY <1>14, <1>0 DEF GetSession, Begins, Presents, Goto
<1>15. CASE DelSession(r)
  BY <1>15 DEF DelSession, DropSession, Deleted, Goto
<1>16. CASE ReadMapping(r)
  BY <1>16 DEF ReadMapping, Goto
<1>17. CASE DelMapped(r)
  BY <1>17 DEF DelMapped, Without, Deleted, Goto
<1>18. CASE ClearMapping(r)
  BY <1>18 DEF ClearMapping, Goto
<1>19. CASE Verify(r)
  BY <1>19 DEF Verify, Begins, Presents, Goto
<1>20. CASE PurgeSession(r)
  BY <1>20 DEF PurgeSession, DropSession, Deleted, Goto
<1>21. CASE ExpireSession(r)
  BY <1>21 DEF ExpireSession, Kept, Passed
<1>22. CASE ExpireToken(r)
  BY <1>22 DEF ExpireToken, Kept, Passed
<1>23. CASE ExpireMapping(r)
  BY <1>23 DEF ExpireMapping
<1>24. CASE FailRequest(r)
  BY <1>24 DEF FailRequest, Goto
<1> QED
  BY <1>1, <1>2, <1>3, <1>4, <1>5, <1>6, <1>7, <1>8, <1>9, <1>10, <1>11, <1>12, <1>13,
     <1>14, <1>15, <1>16, <1>17, <1>18, <1>19, <1>20, <1>21, <1>22, <1>23, <1>24
     DEF Step, UserStep, AuthStep, Environment

\* Every variable of auth and user service holds a value of its kind; at most
\* one account per request and one token per mapping.
THEOREM TypeCorrect == ASSUME UserAssumption PROVE Spec => []TypeOK
<1>1. Init => TypeOK
  BY TypeInit
<1>2. TypeOK /\ UNCHANGED aVars => TypeOK'
  BY DEF TypeOK, AtMostOne, aVars, userVars, authVars
<1>3. TypeOK /\ [Next]_aVars => TypeOK'
  BY <1>2, TypeStep DEF Next
<1> QED
  BY <1>1, <1>3, PTL DEF Spec

-----------------------------------------------------------------------------
(* What a step can change.                                                 *)

\* A step of one request leaves the others, and those that have ended, alone.
LEMMA Frame ==
  ASSUME TypeOK, NEW r \in Reqs, Step(r)
  PROVE  /\ ask' = ask
         /\ \A q \in Reqs \ {r} : /\ pc'[q] = pc[q] /\ user'[q] = user[q]
                                  /\ named'[q] = named[q] /\ spent'[q] = spent[q]
         /\ pc[r] \in {"done", "ended", "rejected", "lost"} =>
                pc' = pc /\ user' = user
<1> USE DEF TypeOK, AtMostOne, userVars, authVars
<1>1. CASE CheckEmail(r) /\ UNCHANGED authVars
  BY <1>1 DEF CheckEmail, Begins, Goto
<1>2. CASE InsertUser(r) /\ UNCHANGED authVars
  BY <1>2 DEF InsertUser, Goto
<1>3. CASE ValidateCredentials(r) /\ UNCHANGED authVars
  BY <1>3 DEF ValidateCredentials, Begins, AccountsOf, Goto
<1>4. CASE GetUser(r) /\ UNCHANGED authVars
  BY <1>4 DEF GetUser, Live, Goto
<1>5. CASE FindUser(r) /\ UNCHANGED authVars
  BY <1>5 DEF FindUser, Begins, Presents, Goto
<1>6. CASE WriteUser(r) /\ UNCHANGED authVars
  BY <1>6 DEF WriteUser, Writable, Goto
<1>7. CASE DeleteUser(r) /\ UNCHANGED authVars
  BY <1>7 DEF DeleteUser, Begins, Presents, Live, Goto
<1>8. CASE StoreKeys(r)
  BY <1>8 DEF StoreKeys, Goto
<1>9. CASE MapToken(r)
  BY <1>9 DEF MapToken, Mapping, Goto
<1>10. CASE ValidateToken(r)
  BY <1>10 DEF ValidateToken, Begins, Presents, Goto
<1>11. CASE ReadToken(r)
  BY <1>11 DEF ReadToken, Kept, Goto
<1>12. CASE DelToken(r)
  BY <1>12 DEF DelToken, Without, Deleted, Old, Goto
<1>13. CASE DelMapping(r)
  BY <1>13 DEF DelMapping, Goto
<1>14. CASE GetSession(r)
  BY <1>14 DEF GetSession, Begins, Presents, Goto
<1>15. CASE DelSession(r)
  BY <1>15 DEF DelSession, DropSession, Deleted, Goto
<1>16. CASE ReadMapping(r)
  BY <1>16 DEF ReadMapping, Goto
<1>17. CASE DelMapped(r)
  BY <1>17 DEF DelMapped, Without, Deleted, Goto
<1>18. CASE ClearMapping(r)
  BY <1>18 DEF ClearMapping, Goto
<1>19. CASE Verify(r)
  BY <1>19 DEF Verify, Begins, Presents, Goto
<1>20. CASE PurgeSession(r)
  BY <1>20 DEF PurgeSession, DropSession, Deleted, Goto
<1>21. CASE ExpireSession(r)
  BY <1>21 DEF ExpireSession, Kept, Passed
<1>22. CASE ExpireToken(r)
  BY <1>22 DEF ExpireToken, Kept, Passed
<1>23. CASE ExpireMapping(r)
  BY <1>23 DEF ExpireMapping
<1>24. CASE FailRequest(r)
  BY <1>24 DEF FailRequest, Goto
<1> QED
  BY <1>1, <1>2, <1>3, <1>4, <1>5, <1>6, <1>7, <1>8, <1>9, <1>10, <1>11, <1>12, <1>13,
     <1>14, <1>15, <1>16, <1>17, <1>18, <1>19, <1>20, <1>21, <1>22, <1>23, <1>24
     DEF Step, UserStep, AuthStep, Environment

\* Where the steps of a request lead.
LEMMA Order ==
  ASSUME TypeOK, NEW r \in Reqs, Step(r)
  PROVE  /\ pc'[r] \in {"idle", "insert", "rejected"} =>
                \/ pc'[r] = pc[r]
                \/ pc[r] \in {"idle", "insert", "write", "purge"} \cup RefreshPCs
         /\ pc'[r] = "idle" => pc[r] = "idle"
         /\ pc[r] = "idle" /\ pc'[r] # "idle" /\ ask[r].op = "refresh" =>
                Presents(r) /\ ValidateToken(r)
         /\ pc'[r] \in {"delmap", "session", "map", "done"} =>
                \/ pc'[r] = pc[r]
                \/ pc[r] \in {"delmap", "session", "map"}
                \/ InsertUser(r) \/ ValidateCredentials(r) \/ DelToken(r)
         /\ pc'[r] = "done" => pc[r] = "done" \/ MapToken(r)
         /\ pc[r] \in {"delmap", "session", "map"} =>
                \/ pc' = pc /\ user' = user
                \/ DelMapping(r) \/ StoreKeys(r) \/ MapToken(r) \/ FailRequest(r)
         /\ pc'[r] \in {"readtoken", "deltoken"} =>
                \/ pc[r] \in {"readtoken", "deltoken"} /\ user' = user
                \/ GetUser(r) \/ ValidateToken(r)
         /\ pc'[r] = "delmap" =>
                pc[r] \in {"deltoken", "delmap"} /\ user' = user
         /\ pc'[r] = "lost" => pc' = pc \/ FailRequest(r)
<1> USE DEF TypeOK, RefreshPCs, userVars, authVars
<1>1. CASE CheckEmail(r) /\ UNCHANGED authVars
  BY <1>1 DEF CheckEmail, Begins, Goto
<1>2. CASE InsertUser(r) /\ UNCHANGED authVars
  BY <1>2 DEF InsertUser, Goto
<1>3. CASE ValidateCredentials(r) /\ UNCHANGED authVars
  BY <1>3 DEF ValidateCredentials, Begins, AccountsOf, Goto
<1>4. CASE GetUser(r) /\ UNCHANGED authVars
  BY <1>4 DEF GetUser, Live, Goto
<1>5. CASE FindUser(r) /\ UNCHANGED authVars
  BY <1>5 DEF FindUser, Begins, Presents, Goto
<1>6. CASE WriteUser(r) /\ UNCHANGED authVars
  BY <1>6 DEF WriteUser, Writable, Goto
<1>7. CASE DeleteUser(r) /\ UNCHANGED authVars
  BY <1>7 DEF DeleteUser, Begins, Presents, Live, Goto
<1>8. CASE StoreKeys(r)
  BY <1>8 DEF StoreKeys, Goto
<1>9. CASE MapToken(r)
  BY <1>9 DEF MapToken, Mapping, Goto
<1>10. CASE ValidateToken(r)
  BY <1>10 DEF ValidateToken, Begins, Presents, Goto
<1>11. CASE ReadToken(r)
  BY <1>11 DEF ReadToken, Kept, Goto
<1>12. CASE DelToken(r)
  BY <1>12 DEF DelToken, Without, Deleted, Old, Goto
<1>13. CASE DelMapping(r)
  BY <1>13 DEF DelMapping, Goto
<1>14. CASE GetSession(r)
  BY <1>14 DEF GetSession, Begins, Presents, Goto
<1>15. CASE DelSession(r)
  BY <1>15 DEF DelSession, DropSession, Deleted, Goto
<1>16. CASE ReadMapping(r)
  BY <1>16 DEF ReadMapping, Goto
<1>17. CASE DelMapped(r)
  BY <1>17 DEF DelMapped, Without, Deleted, Goto
<1>18. CASE ClearMapping(r)
  BY <1>18 DEF ClearMapping, Goto
<1>19. CASE Verify(r)
  BY <1>19 DEF Verify, Begins, Presents, Goto
<1>20. CASE PurgeSession(r)
  BY <1>20 DEF PurgeSession, DropSession, Deleted, Goto
<1>21. CASE ExpireSession(r)
  BY <1>21 DEF ExpireSession, Kept, Passed
<1>22. CASE ExpireToken(r)
  BY <1>22 DEF ExpireToken, Kept, Passed
<1>23. CASE ExpireMapping(r)
  BY <1>23 DEF ExpireMapping
<1>24. CASE FailRequest(r)
  BY <1>24 DEF FailRequest, Goto
<1> QED
  BY <1>1, <1>2, <1>3, <1>4, <1>5, <1>6, <1>7, <1>8, <1>9, <1>10, <1>11, <1>12, <1>13,
     <1>14, <1>15, <1>16, <1>17, <1>18, <1>19, <1>20, <1>21, <1>22, <1>23, <1>24
     DEF Step, UserStep, AuthStep, Environment

\* Which steps write which variable.
LEMMA Writes ==
  ASSUME TypeOK, NEW r \in Reqs, Step(r)
  PROVE  /\ account' = account \/ InsertUser(r) \/ DeleteUser(r)
         /\ profile' = profile \/ WriteUser(r)
         /\ \/ token' = token
            \/ StoreKeys(r) \/ DelToken(r) \/ DelMapped(r) \/ ExpireToken(r)
         /\ \/ latest' = latest
            \/ MapToken(r) \/ DelMapping(r) \/ ClearMapping(r) \/ ExpireMapping(r)
         /\ \/ named' = named
            \/ ReadToken(r) \/ DelMapping(r) \/ ReadMapping(r) \/ ClearMapping(r)
            \/ FailRequest(r)
         /\ spent' = spent \/ ValidateToken(r)
<1> USE DEF userVars, authVars
<1>1. CASE CheckEmail(r) /\ UNCHANGED authVars
  BY <1>1 DEF CheckEmail, Begins, Goto
<1>2. CASE InsertUser(r) /\ UNCHANGED authVars
  BY <1>2 DEF InsertUser, Goto
<1>3. CASE ValidateCredentials(r) /\ UNCHANGED authVars
  BY <1>3 DEF ValidateCredentials, Begins, AccountsOf, Goto
<1>4. CASE GetUser(r) /\ UNCHANGED authVars
  BY <1>4 DEF GetUser, Live, Goto
<1>5. CASE FindUser(r) /\ UNCHANGED authVars
  BY <1>5 DEF FindUser, Begins, Presents, Goto
<1>6. CASE WriteUser(r) /\ UNCHANGED authVars
  BY <1>6 DEF WriteUser, Writable, Goto
<1>7. CASE DeleteUser(r) /\ UNCHANGED authVars
  BY <1>7 DEF DeleteUser, Begins, Presents, Live, Goto
<1>8. CASE StoreKeys(r)
  BY <1>8 DEF StoreKeys, Goto
<1>9. CASE MapToken(r)
  BY <1>9 DEF MapToken, Mapping, Goto
<1>10. CASE ValidateToken(r)
  BY <1>10 DEF ValidateToken, Begins, Presents, Goto
<1>11. CASE ReadToken(r)
  BY <1>11 DEF ReadToken, Kept, Goto
<1>12. CASE DelToken(r)
  BY <1>12 DEF DelToken, Without, Deleted, Old, Goto
<1>13. CASE DelMapping(r)
  BY <1>13 DEF DelMapping, Goto
<1>14. CASE GetSession(r)
  BY <1>14 DEF GetSession, Begins, Presents, Goto
<1>15. CASE DelSession(r)
  BY <1>15 DEF DelSession, DropSession, Deleted, Goto
<1>16. CASE ReadMapping(r)
  BY <1>16 DEF ReadMapping, Goto
<1>17. CASE DelMapped(r)
  BY <1>17 DEF DelMapped, Without, Deleted, Goto
<1>18. CASE ClearMapping(r)
  BY <1>18 DEF ClearMapping, Goto
<1>19. CASE Verify(r)
  BY <1>19 DEF Verify, Begins, Presents, Goto
<1>20. CASE PurgeSession(r)
  BY <1>20 DEF PurgeSession, DropSession, Deleted, Goto
<1>21. CASE ExpireSession(r)
  BY <1>21 DEF ExpireSession, Kept, Passed
<1>22. CASE ExpireToken(r)
  BY <1>22 DEF ExpireToken, Kept, Passed
<1>23. CASE ExpireMapping(r)
  BY <1>23 DEF ExpireMapping
<1>24. CASE FailRequest(r)
  BY <1>24 DEF FailRequest, Goto
<1> QED
  BY <1>1, <1>2, <1>3, <1>4, <1>5, <1>6, <1>7, <1>8, <1>9, <1>10, <1>11, <1>12, <1>13,
     <1>14, <1>15, <1>16, <1>17, <1>18, <1>19, <1>20, <1>21, <1>22, <1>23, <1>24
     DEF Step, UserStep, AuthStep, Environment

-----------------------------------------------------------------------------
(* Each part of the invariant is kept by every step.                       *)

LEMMA StepKept ==
  ASSUME TypeOK, StepInv, NamedInv, RefreshInv, NEW r \in Reqs, Step(r)
  PROVE  StepInv'
<1> USE DEF TypeOK, StepInv, Ops, GrantOps, RefreshPCs, LogoutPCs, AuthPCs, KeyStates,
            userVars, authVars
<1>0. ask[r].by \in Reqs /\ ask[r].op \in Ops
  BY AskFields
<1>1. CASE CheckEmail(r) /\ UNCHANGED authVars
  BY <1>1, <1>0 DEF CheckEmail, Begins, Goto
<1>2. CASE InsertUser(r) /\ UNCHANGED authVars
  <2>1. CASE UNCHANGED <<user, account>> /\ Goto(r, "rejected")
    BY <1>2, <2>1, <1>0 DEF InsertUser, Goto
  <2>2. CASE user' = [user EXCEPT ![r] = {r}] /\ Goto(r, "session")
    BY <1>2, <2>2, <1>0 DEF InsertUser, Goto
  <2> QED
    BY <1>2, <2>1, <2>2 DEF InsertUser
<1>3. CASE ValidateCredentials(r) /\ UNCHANGED authVars
  <2>1. CASE UNCHANGED user /\ Goto(r, "rejected")
    BY <1>3, <2>1, <1>0 DEF ValidateCredentials, Begins, Goto
  <2>2. ASSUME NEW a \in Reqs, user' = [user EXCEPT ![r] = {a}], Goto(r, "session")
        PROVE  StepInv'
    BY <1>3, <2>2, <1>0 DEF ValidateCredentials, Begins, Goto
  <2> QED
    BY <1>3, <2>1, <2>2 DEF ValidateCredentials, AccountsOf
<1>4. CASE GetUser(r) /\ UNCHANGED authVars
  BY <1>4, <1>0 DEF GetUser, Live, Goto
<1>5. CASE FindUser(r) /\ UNCHANGED authVars
  BY <1>5, <1>0 DEF FindUser, Begins, Presents, Goto
<1>6. CASE WriteUser(r) /\ UNCHANGED authVars
  BY <1>6, <1>0 DEF WriteUser, Writable, Goto
<1>7. CASE DeleteUser(r) /\ UNCHANGED authVars
  BY <1>7, <1>0 DEF DeleteUser, Begins, Presents, Live, Goto
<1>8. CASE StoreKeys(r)
  BY <1>8, <1>0 DEF StoreKeys, Goto
<1>9. CASE MapToken(r)
  BY <1>9, <1>0 DEF MapToken, Mapping, Goto
<1>10. CASE ValidateToken(r)
  BY <1>10, <1>0 DEF ValidateToken, Begins, Presents, Goto
<1>11. CASE ReadToken(r)
  BY <1>11, <1>0 DEF ReadToken, Kept, Goto
<1>12. CASE DelToken(r)
  <2>1. pc[ask[r].by] = "done"
    BY <1>12, <1>0 DEF DelToken, RefreshInv
  <2> QED
    BY <1>12, <2>1, <1>0 DEF DelToken, Old, Without, Deleted, Goto
<1>13. CASE DelMapping(r)
  BY <1>13, <1>0 DEF DelMapping, Goto
<1>14. CASE GetSession(r)
  BY <1>14, <1>0 DEF GetSession, Begins, Presents, Goto
<1>15. CASE DelSession(r)
  BY <1>15, <1>0 DEF DelSession, DropSession, Deleted, Goto
<1>16. CASE ReadMapping(r)
  BY <1>16, <1>0 DEF ReadMapping, Goto
<1>17. CASE DelMapped(r)
  <2>1. \A t \in named[r] : pc[t] = "done"
    BY <1>17 DEF NamedInv
  <2> QED
    BY <1>17, <2>1, <1>0 DEF DelMapped, Without, Deleted, Goto
<1>18. CASE ClearMapping(r)
  BY <1>18, <1>0 DEF ClearMapping, Goto
<1>19. CASE Verify(r)
  BY <1>19, <1>0 DEF Verify, Begins, Presents, Goto
<1>20. CASE PurgeSession(r)
  BY <1>20, <1>0 DEF PurgeSession, DropSession, Deleted, Goto
<1>21. CASE ExpireSession(r)
  BY <1>21, <1>0 DEF ExpireSession, Kept, Passed
<1>22. CASE ExpireToken(r)
  BY <1>22, <1>0 DEF ExpireToken, Kept, Passed
<1>23. CASE ExpireMapping(r)
  BY <1>23, <1>0 DEF ExpireMapping
<1>24. CASE FailRequest(r)
  BY <1>24, <1>0 DEF FailRequest, Goto
<1> QED
  BY <1>1, <1>2, <1>3, <1>4, <1>5, <1>6, <1>7, <1>8, <1>9, <1>10, <1>11, <1>12, <1>13,
     <1>14, <1>15, <1>16, <1>17, <1>18, <1>19, <1>20, <1>21, <1>22, <1>23, <1>24
     DEF Step, UserStep, AuthStep, Environment

\* What is named stays answered; a mapping names what it is given at MapToken.
LEMMA NamedKept ==
  ASSUME TypeOK, StepInv, NamedInv, RefreshInv, NEW r \in Reqs, Step(r)
  PROVE  NamedInv'
<1>0. ask[r].by \in Reqs
  BY AskFields
<1>1. \A t \in Reqs : pc[t] = "done" => pc'[t] = "done" /\ user'[t] = user[t]
  BY Frame
<1>2. ASSUME NEW q \in Reqs, NEW t \in latest'[q]
      PROVE  pc'[t] = "done" /\ q \in user'[t]
  <2>1. CASE t \in latest[q]
    BY <1>1, <2>1 DEF NamedInv, TypeOK
  <2>2. CASE t \notin latest[q]
    <3>1. MapToken(r) /\ t = r /\ q \in user[r]
      <4>1. MapToken(r)
        BY <2>2, Writes DEF TypeOK, DelMapping, ClearMapping, ExpireMapping
      <4>2. PICK a \in user[r] : latest' = [latest EXCEPT ![a] = {r}]
        BY <4>1 DEF MapToken, Mapping, TypeOK
      <4>3. q = a
        BY <2>2, <4>2, <1>2 DEF TypeOK
      <4> QED
        BY <1>2, <4>1, <4>2, <4>3 DEF TypeOK
    <3> QED
      BY <3>1 DEF MapToken, Goto, TypeOK
  <2> QED
    BY <2>1, <2>2
<1>3. ASSUME NEW q \in Reqs, NEW t \in named'[q]
      PROVE  pc'[t] = "done"
  <2>1. CASE t \in named[q]
    BY <1>1, <2>1 DEF NamedInv, TypeOK
  <2>2. CASE t \notin named[q]
    <3>1. q = r /\ (ReadToken(r) \/ ReadMapping(r))
      BY <2>2, Frame, Writes
         DEF TypeOK, DelMapping, ClearMapping, FailRequest
    <3>2. CASE ReadToken(r)
      BY <1>0, <1>1, <1>3, <3>1, <3>2
         DEF ReadToken, RefreshInv, StepInv, RefreshPCs, TypeOK
    <3>3. CASE ReadMapping(r)
      BY <1>1, <1>3, <3>1, <3>3 DEF ReadMapping, NamedInv, TypeOK
    <3> QED
      BY <3>1, <3>2, <3>3
  <2> QED
    BY <2>1, <2>2
<1> QED
  BY <1>2, <1>3 DEF NamedInv

LEMMA AccountKept ==
  ASSUME TypeOK, StepInv, AccountInv, NEW r \in Reqs, Step(r)
  PROVE  AccountInv'
<1>1. ASSUME NEW q \in Reqs, account[q] # "none"
      PROVE  ask'[q].op = "register" /\ pc'[q] \notin {"idle", "insert", "rejected"}
  <2>1. ask[q].op = "register" /\ pc[q] \notin {"idle", "insert", "rejected"}
    BY <1>1 DEF AccountInv
  <2>2. pc[q] \notin {"write", "purge"} \cup RefreshPCs
    BY <2>1 DEF StepInv, GrantOps
  <2> QED
    BY <2>1, <2>2, Frame, Order
<1>2. ASSUME NEW q \in Reqs, account[q] = "none", account'[q] # "none"
      PROVE  q = r /\ pc[r] = "insert" /\ pc'[r] = "session"
  <2>1. ~DeleteUser(r)
    BY <1>2 DEF DeleteUser, Live, TypeOK
  <2> QED
    BY <1>2, <2>1, Writes DEF InsertUser, Goto, TypeOK
<1> QED
  BY <1>1, <1>2, Frame DEF AccountInv, StepInv

LEMMA EmailKept ==
  ASSUME TypeOK, OneAccountPerEmail, NEW r \in Reqs, Step(r)
  PROVE  OneAccountPerEmail'
<1>1. CASE \A q \in Reqs : account'[q] # "none" => account[q] # "none"
  BY <1>1, Frame DEF OneAccountPerEmail
<1>2. CASE InsertUser(r)
  <2>1. CASE EmailTaken(ask[r].email)
    BY <1>2, <2>1, Frame DEF InsertUser, OneAccountPerEmail
  <2>2. CASE ~EmailTaken(ask[r].email)
    <3>1. \A q \in Reqs \ {r} : account'[q] = account[q]
      BY <1>2, <2>2 DEF InsertUser, TypeOK
    <3>2. \A q \in Reqs : account[q] # "none" => ask[q].email # ask[r].email
      BY <2>2 DEF EmailTaken
    <3> QED
      BY <3>1, <3>2, Frame DEF OneAccountPerEmail
  <2> QED
    BY <2>1, <2>2
<1>3. CASE DeleteUser(r)
  BY <1>1, <1>3 DEF DeleteUser, Live, TypeOK
<1>4. CASE account' = account
  BY <1>1, <1>4
<1> QED
  BY <1>2, <1>3, <1>4, Writes

\* A key that is gone does not come back while its request is answered.
LEMMA GoneStaysGone ==
  ASSUME TypeOK, NEW r \in Reqs, Step(r),
         NEW t \in Reqs, pc[t] = "done", ~Kept(token[t])
  PROVE  ~Kept(token'[t])
<1>1. CASE StoreKeys(r)
  BY <1>1 DEF StoreKeys, TypeOK
<1>2. CASE DelToken(r)
  BY <1>2 DEF DelToken, Without, Deleted, Kept
<1>3. CASE DelMapped(r)
  BY <1>3 DEF DelMapped, Without, Deleted, Kept
<1>4. CASE ExpireToken(r)
  BY <1>4 DEF ExpireToken, TypeOK
<1> QED
  BY <1>1, <1>2, <1>3, <1>4, Writes

\* Whoever has deleted the token it presents leaves nothing to those that are
\* validated later.
LEMMA RefreshKept ==
  ASSUME TypeOK, StepInv, RefreshInv, NEW r \in Reqs, Step(r)
  PROVE  RefreshInv'
<1> SUFFICES ASSUME NEW q \in Reqs, ask[q].op = "refresh"
             PROVE  /\ pc'[q] # "idle" => pc'[ask[q].by] = "done"
                    /\ pc'[q] \in {"delmap", "session", "map", "done"}
                           => ~Kept(token'[ask[q].by])
                    /\ pc'[q] \notin {"idle", "rejected", "lost"} => spent'[q] = {}
  BY Frame DEF RefreshInv
<1>0. ask[q].by \in Reqs
  BY AskFields
<1>1. pc[ask[q].by] = "done" => pc'[ask[q].by] = "done"
  BY <1>0, Frame
<1>2. pc'[q] # "idle" => pc'[ask[q].by] = "done"
  BY <1>1, Frame, Order DEF RefreshInv, Presents
<1>3. ASSUME pc'[q] \in {"delmap", "session", "map", "done"}
      PROVE  ~Kept(token'[ask[q].by])
  <2>1. CASE pc[q] \in {"delmap", "session", "map", "done"}
    BY <1>0, <2>1, GoneStaysGone DEF RefreshInv
  <2>2. CASE pc[q] \notin {"delmap", "session", "map", "done"}
    <3>1. q = r /\ DelToken(r)
      <4>1. q = r /\ (InsertUser(r) \/ ValidateCredentials(r) \/ DelToken(r))
        BY <1>3, <2>2, Frame, Order
      <4>2. ~InsertUser(r) /\ ~ValidateCredentials(r)
        BY <4>1 DEF InsertUser, ValidateCredentials, Begins, StepInv
      <4> QED
        BY <4>1, <4>2
    <3> QED
      BY <1>0, <3>1 DEF DelToken, Old, Without, Deleted, Kept
  <2> QED
    BY <2>1, <2>2
<1>4. ASSUME pc'[q] \notin {"idle", "rejected", "lost"}
      PROVE  spent'[q] = {}
  <2>1. CASE q = r /\ ValidateToken(r)
    <3>1. Kept(token[ask[q].by])
      BY <1>4, <2>1 DEF ValidateToken, Begins, Goto, Kept, TypeOK
    <3>2. \A p \in Reqs : ask[p].op = "refresh" /\ ask[p].by = ask[q].by => ~Granted(p)
      BY <3>1 DEF RefreshInv, Granted
    <3> QED
      BY <2>1, <3>2 DEF ValidateToken, TypeOK
  <2>2. CASE ~(q = r /\ ValidateToken(r))
    <3>1. spent'[q] = spent[q]
      BY <2>2, Frame, Writes
    <3>2. pc[q] \notin {"idle", "rejected", "lost"}
      BY <1>4, <2>2, Frame, Order
    <3> QED
      BY <3>1, <3>2 DEF RefreshInv
  <2> QED
    BY <2>1, <2>2
<1> QED
  BY <1>2, <1>3, <1>4

-----------------------------------------------------------------------------
(* While nobody logs out and nothing expires or fails.                     *)

\* What has happened once has happened for good.
LEMMA CalmBefore ==
  ASSUME TypeOK, StepInv, NEW r \in Reqs, Step(r), Calm'
  PROVE  Calm
<1>1. NobodyLoggedOut
  BY Frame, Order DEF Calm, NobodyLoggedOut
<1>2. \A q \in Reqs : pc[q] # "lost"
  BY Frame DEF Calm
<1>3. ASSUME NEW t \in Reqs PROVE token[t] \notin {"late", "expired"}
  <2>0. token'[t] \notin {"late", "expired"}
    BY DEF Calm, NothingLapsed
  <2>1. CASE StoreKeys(r)
    BY <2>0, <2>1 DEF StoreKeys, StepInv, TypeOK
  <2>2. CASE DelToken(r)
    BY <2>0, <2>2 DEF DelToken, Without, Deleted
  <2>3. CASE DelMapped(r)
    BY <2>0, <2>3 DEF DelMapped, Without, Deleted
  <2>4. CASE ExpireToken(r)
    BY <2>0, <2>4 DEF ExpireToken, Kept, TypeOK
  <2> QED
    BY <2>0, <2>1, <2>2, <2>3, <2>4, Writes
<1> QED
  BY <1>1, <1>2, <1>3 DEF Calm, NothingLapsed

\* What cannot be done then.
LEMMA CalmSteps ==
  ASSUME TypeOK, StepInv, NEW r \in Reqs, Step(r), Calm, Calm'
  PROVE  ~DelMapped(r) /\ ~ClearMapping(r) /\ ~ExpireToken(r) /\ ~FailRequest(r)
<1>1. ~DelMapped(r) /\ ~ClearMapping(r)
  BY DEF DelMapped, ClearMapping, StepInv, LogoutPCs, Calm, NobodyLoggedOut
<1>2. ~ExpireToken(r)
  BY DEF ExpireToken, Calm, NothingLapsed, TypeOK
<1>3. ~FailRequest(r)
  BY DEF FailRequest, Goto, Calm, TypeOK
<1> QED
  BY <1>1, <1>2, <1>3

LEMMA OwnerKept ==
  ASSUME TypeOK, StepInv, RefreshInv, OwnerInv, NEW r \in Reqs, Step(r)
  PROVE  OwnerInv'
<1> SUFFICES ASSUME Calm', NEW q \in Reqs, pc'[q] \in {"readtoken", "deltoken", "delmap"}
             PROVE  user'[q] # {} /\ user'[q] = user'[ask[q].by]
  BY Frame DEF OwnerInv
<1>0. ask[q].by \in Reqs
  BY AskFields
<1>1. Calm
  BY CalmBefore
<1>2. CASE pc[q] \in {"readtoken", "deltoken", "delmap"} /\ user'[q] = user[q]
  <2>1. pc[ask[q].by] = "done"
    BY <1>2 DEF RefreshInv, StepInv, RefreshPCs
  <2>2. user'[ask[q].by] = user[ask[q].by]
    BY <1>0, <2>1, Frame
  <2> QED
    BY <1>1, <1>2, <2>2 DEF OwnerInv
<1>3. CASE q = r /\ GetUser(r)
  <2>1. PICK a \in user[ask[r].by] : user' = [user EXCEPT ![r] = {a}]
    BY <1>3 DEF GetUser, Goto, TypeOK
  <2>2. user[ask[r].by] = {a} /\ ask[r].by # r
    BY <1>0, <1>3, <2>1 DEF GetUser, TypeOK, AtMostOne, RefreshInv, StepInv, RefreshPCs
  <2> QED
    BY <1>0, <1>3, <2>1, <2>2 DEF TypeOK
<1>4. CASE q = r /\ ValidateToken(r)
  BY <1>0, <1>1, <1>4 DEF ValidateToken, Goto, Calm, NothingLapsed, TypeOK
<1> QED
  BY <1>2, <1>3, <1>4, Frame, Order

\* Who is on its way to write the mapping of an account stays on its way, until
\* it writes it.
LEMMA WillMapKept ==
  ASSUME TypeOK, NEW r \in Reqs, Step(r), ~MapToken(r), ~DelMapping(r), ~FailRequest(r),
         NEW a \in Reqs, WillMap(a)
  PROVE  WillMap(a)'
<1>1. PICK w \in Reqs : pc[w] \in {"delmap", "session", "map"} /\ a \in user[w]
  BY DEF WillMap
<1>2. CASE pc'[w] = pc[w] /\ user'[w] = user[w]
  BY <1>1, <1>2 DEF WillMap
<1>3. CASE w = r /\ StoreKeys(r)
  BY <1>1, <1>3 DEF WillMap, StoreKeys, Goto, TypeOK
<1> QED
  BY <1>1, <1>2, <1>3, Frame, Order

LEMMA MappingKept ==
  ASSUME TypeOK, StepInv, NamedInv, RefreshInv, OwnerInv, MappingInv,
         NEW r \in Reqs, Step(r)
  PROVE  MappingInv'
<1> SUFFICES ASSUME Calm', NEW q \in Reqs, pc'[q] = "done", NEW a \in user'[q]
             PROVE  WillMap(a)' \/ \E t \in latest'[a] : token'[t] = "live"
  BY DEF MappingInv
<1>0. a \in Reqs /\ latest[a] \subseteq Reqs
  BY TypeStep DEF TypeOK
<1>1. Calm
  BY CalmBefore
<1>2. ~DelMapped(r) /\ ~ClearMapping(r) /\ ~ExpireToken(r) /\ ~FailRequest(r)
  BY <1>1, CalmSteps
<1>3. CASE MapToken(r)
  <2>1. PICK b \in user[r] : latest' = [latest EXCEPT ![b] = {r}]
    BY <1>3 DEF MapToken, Mapping, TypeOK
  <2>2. token'[r] = "live" /\ token' = token /\ user' = user /\ pc[r] = "map"
    BY <1>3 DEF MapToken, StepInv
  <2>3. CASE a = b
    BY <1>0, <2>1, <2>2, <2>3 DEF TypeOK
  <2>4. CASE a # b
    <3>1. a \notin user[r]
      BY <2>1, <2>4 DEF TypeOK, AtMostOne
    <3>2. pc[q] = "done" /\ a \in user[q]
      BY <2>2, <3>1, Frame
    <3>3. latest'[a] = latest[a]
      BY <1>0, <2>1, <2>4 DEF TypeOK
    <3>4. CASE \E t \in latest[a] : token[t] = "live"
      BY <2>2, <3>3, <3>4
    <3>5. CASE WillMap(a)
      BY <2>2, <3>1, <3>5, Frame DEF WillMap
    <3> QED
      BY <1>1, <3>2, <3>4, <3>5 DEF MappingInv
  <2> QED
    BY <2>3, <2>4
<1>4. CASE ~MapToken(r)
  <2>0. pc[q] = "done" /\ a \in user[q]
    BY <1>4, Frame, Order
  <2>1. CASE DelMapping(r)
    <3>1. user[r] # {} /\ user[r] = user[ask[r].by] /\ user' = user /\ token' = token
      BY <1>1, <2>1 DEF DelMapping, OwnerInv
    <3>2. pc'[r] = "session" /\ \A w \in Reqs \ {r} : pc'[w] = pc[w]
      BY <2>1, <3>1, Frame DEF DelMapping, Goto, TypeOK
    <3>3. CASE a \in user[r]
      BY <3>1, <3>2, <3>3 DEF WillMap
    <3>4. CASE a \notin user[r]
      <4>1. latest'[a] = latest[a]
        BY <1>0, <2>1, <3>1, <3>4 DEF DelMapping
      <4>2. WillMap(a) => WillMap(a)'
        BY <3>1, <3>2, <3>4 DEF WillMap
      <4> QED
        BY <1>1, <2>0, <3>1, <4>1, <4>2 DEF MappingInv
    <3> QED
      BY <3>3, <3>4
  <2>2. CASE ~DelMapping(r)
    <3>1. WillMap(a) => WillMap(a)'
      BY <1>0, <1>2, <1>4, <2>2, WillMapKept
    <3>2. ASSUME ~WillMap(a), ~WillMap(a)'
          PROVE  \E t \in latest'[a] : token'[t] = "live"
      <4>1. PICK t \in latest[a] : token[t] = "live"
        BY <1>1, <2>0, <3>2 DEF MappingInv
      <4>2. t \in Reqs
        BY <1>0, <4>1
      <4>3. t \in latest'[a]
        <5>1. CASE ExpireMapping(r)
          BY <1>0, <4>1, <5>1 DEF ExpireMapping, Kept, TypeOK
        <5> QED
          BY <1>2, <1>4, <2>2, <4>1, <5>1, Writes
      <4>4. token'[t] = "live"
        <5>1. CASE StoreKeys(r)
          BY <4>1, <4>2, <5>1 DEF StoreKeys, TypeOK
        <5>2. CASE DelToken(r)
          <6>1. user[r] # {} /\ user[r] = user[ask[r].by]
            BY <1>1, <5>2 DEF DelToken, OwnerInv
          <6>2. pc'[r] = "delmap" /\ user' = user
            BY <5>2 DEF DelToken, Goto, TypeOK
          <6>3. a \notin user[r]
            BY <3>2, <6>2 DEF WillMap
          <6>4. t # ask[r].by
            BY <1>0, <4>1, <6>1, <6>3 DEF NamedInv
          <6> QED
            BY <4>1, <4>2, <5>2, <6>4 DEF DelToken, Old, Without
        <5> QED
          BY <1>2, <4>1, <5>1, <5>2, Writes
      <4> QED
        BY <4>3, <4>4
    <3> QED
      BY <3>1, <3>2
  <2> QED
    BY <2>1, <2>2
<1> QED
  BY <1>3, <1>4

-----------------------------------------------------------------------------
(* The invariant and what follows from it.                                 *)

LEMMA InvInit == ASSUME UserAssumption, Init PROVE AInv
<1>1. TypeOK
  BY TypeInit
<1> QED
  BY <1>1 DEF Init, UserInit, AInv, StepInv, NamedInv, AccountInv, OneAccountPerEmail,
              RefreshInv, OwnerInv, MappingInv, RefreshPCs, LogoutPCs

LEMMA InvStep == ASSUME AInv, NEW r \in Reqs, Step(r) PROVE AInv'
BY TypeStep, StepKept, NamedKept, AccountKept, EmailKept, RefreshKept, OwnerKept,
   MappingKept
   DEF AInv

LEMMA InvStutter == ASSUME AInv, UNCHANGED aVars PROVE AInv'
BY DEF aVars, userVars, authVars, AInv, TypeOK, AtMostOne, StepInv, NamedInv,
   AccountInv,
       OneAccountPerEmail, RefreshInv, OwnerInv, MappingInv, WillMap, Calm,
       NobodyLoggedOut, NothingLapsed

\* The invariant that the properties below follow from holds in every reachable
\* state.
THEOREM Inductive == ASSUME UserAssumption PROVE Spec => []AInv
<1>1. Init => AInv
  BY InvInit
<1>2. AInv /\ [Next]_aVars => AInv'
  BY InvStep, InvStutter DEF Next
<1> QED
  BY <1>1, <1>2, PTL DEF Spec

\* Two registrations that both pass existsByEmail make one account: the index
\* decides.
THEOREM EmailIsUnique == ASSUME UserAssumption PROVE Spec => []OneAccountPerEmail
<1>1. AInv => OneAccountPerEmail
  BY DEF AInv
<1> QED
  BY <1>1, Inductive, PTL

\* A refresh token is exchanged twice only by requests that overlap.
THEOREM RotationWorks == ASSUME UserAssumption PROVE Spec => []SuccessorsOverlap
<1>1. AInv => SuccessorsOverlap
  BY DEF AInv, RefreshInv, SuccessorsOverlap, Granted
<1> QED
  BY <1>1, Inductive, PTL

\* While nobody logs out and nothing lapses, the mapping of an account names a
\* live token whenever no request is under way.
THEOREM MappingIsLive == ASSUME UserAssumption PROVE Spec => []LatestIsLive
<1>1. ASSUME AInv PROVE LatestIsLive
  <2> SUFFICES ASSUME Quiet, NobodyLoggedOut, NothingLapsed,
                      NEW r \in Reqs, pc[r] = "done", NEW a \in user[r]
               PROVE  \E t \in latest[a] : token[t] = "live"
    BY DEF LatestIsLive
  <2>1. Calm
    BY DEF Calm, Quiet
  <2>2. ~WillMap(a)
    BY DEF WillMap, Quiet
  <2> QED
    BY <1>1, <2>1, <2>2 DEF AInv, MappingInv
<1> QED
  BY <1>1, Inductive, PTL

\* No step, of an update that had found the account live either, touches a
\* deleted account.
THEOREM DeletedStays == ASSUME UserAssumption PROVE Spec => DeletedIsFrozen
<1>1. ASSUME TypeOK, NEW r \in Reqs, Step(r), NEW a \in Reqs, account[a] = "deleted"
      PROVE  account'[a] = "deleted" /\ profile'[a] = profile[a]
  <2>1. account'[a] = "deleted"
    <3>1. CASE InsertUser(r)
      <4>1. CASE EmailTaken(ask[r].email)
        BY <1>1, <3>1, <4>1 DEF InsertUser
      <4>2. CASE ~EmailTaken(ask[r].email)
        BY <1>1, <3>1, <4>2 DEF InsertUser, EmailTaken, TypeOK
      <4> QED
        BY <4>1, <4>2
    <3>2. CASE DeleteUser(r)
      BY <1>1, <3>2 DEF DeleteUser, Live, TypeOK
    <3> QED
      BY <1>1, <3>1, <3>2, Writes
  <2>2. profile'[a] = profile[a]
    <3>1. CASE WriteUser(r)
      BY <1>1, <3>1 DEF WriteUser, Writable, TypeOK
    <3> QED
      BY <1>1, <3>1, Writes
  <2> QED
    BY <2>1, <2>2
<1>2. TypeOK /\ [Next]_aVars =>
        [\A a \in Reqs : account[a] = "deleted" =>
            account'[a] = "deleted" /\ profile'[a] = profile[a]]_aVars
  BY <1>1 DEF Next
<1> QED
  BY <1>2, TypeCorrect, PTL DEF Spec, DeletedIsFrozen

-----------------------------------------------------------------------------
(* The services implement AccessLedger.                                    *)

\* A grant depends on the token, the account and the failure of its request.
LEMMA GrantFrame ==
  ASSUME ask' = ask, NEW q \in Reqs, token'[q] = token[q], user'[q] = user[q],
         pc'[q] = "lost" <=> pc[q] = "lost"
  PROVE  GrantOf(q)' = GrantOf(q)
BY DEF GrantOf, Kept

\* A step that gives, opens or revokes nothing is one the ledger does not see.
LEMMA Unseen ==
  ASSUME TypeOK, NEW r \in Reqs, Step(r), UNCHANGED <<account, token>>,
         pc'[r] = "lost" <=> pc[r] = "lost",
         user'[r] = user[r] \/ ask[r].op \notin GrantOps
  PROVE  UNCHANGED Ledger!vars
<1>1. \A q \in Reqs : GrantOf(q)' = GrantOf(q)
  <2> SUFFICES ASSUME NEW q \in Reqs PROVE GrantOf(q)' = GrantOf(q)
    OBVIOUS
  <2>1. CASE ask[q].op \notin GrantOps
    BY <2>1, Frame DEF GrantOf
  <2>2. CASE ask[q].op \in GrantOps
    BY <2>2, Frame, GrantFrame
  <2> QED
    BY <2>1, <2>2
<1>2. \A q \in Reqs : ask[q].op \in GrantOps => user'[q] = user[q]
  BY Frame
<1> QED
  BY <1>1, <1>2, Frame DEF Ledger!vars

\* The grant of r becomes g and everything else is as before.
LEMMA GrantChange ==
  ASSUME TypeOK, NEW r \in Reqs, Step(r), NEW t \in Reqs, NEW g,
         \A q \in Reqs \ {t} : /\ token'[q] = token[q] /\ user'[q] = user[q]
                               /\ pc'[q] = "lost" <=> pc[q] = "lost",
         GrantOf(t)' = g
  PROVE  [q \in Reqs |-> GrantOf(q)]' = [[q \in Reqs |-> GrantOf(q)] EXCEPT ![t] = g]
<1>1. \A q \in Reqs \ {t} : GrantOf(q)' = GrantOf(q)
  BY Frame, GrantFrame
<1> QED
  BY <1>1

LEMMA LedgerOpen ==
  ASSUME AInv, NEW r \in Reqs, Step(r), InsertUser(r), UNCHANGED authVars,
         ~EmailTaken(ask[r].email)
  PROVE  Ledger!Open(r)
<1> USE DEF AInv
<1>1. /\ pc[r] = "insert" /\ ask[r].op = "register" /\ token[r] = "none" /\ user[r] = {}
      /\ account[r] = "none"
  BY DEF InsertUser, StepInv, AccountInv, GrantOps, TypeOK
<1>2. /\ account' = [account EXCEPT ![r] = "live"]
      /\ user' = [user EXCEPT ![r] = {r}]
      /\ pc' = [pc EXCEPT ![r] = "session"]
      /\ ask' = ask /\ token' = token
  BY DEF InsertUser, Goto, authVars
<1>3. GrantOf(r) = "none" /\ GrantOf(r)' = "owed"
  BY <1>1, <1>2 DEF GrantOf, Kept, GrantOps, TypeOK
<1>4. \A q \in Reqs \ {r} : /\ token'[q] = token[q] /\ user'[q] = user[q]
                            /\ pc'[q] = "lost" <=> pc[q] = "lost"
  BY <1>2 DEF TypeOK
<1>5. [q \in Reqs |-> GrantOf(q)]' = [[q \in Reqs |-> GrantOf(q)] EXCEPT ![r] = "owed"]
  BY <1>3, <1>4, GrantChange
<1>6. [q \in Reqs |-> IF ask[q].op \in GrantOps THEN user[q] ELSE {}]' =
      [[q \in Reqs |-> IF ask[q].op \in GrantOps THEN user[q] ELSE {}] EXCEPT ![r] = {r}]
  BY <1>1, <1>2 DEF GrantOps, TypeOK
<1> QED
  BY <1>1, <1>2, <1>3, <1>5, <1>6 DEF Ledger!Open, EmailTaken

\* A login or a refresh that finds the account live.
LEMMA LedgerAdmit ==
  ASSUME AInv, NEW r \in Reqs, Step(r), NEW a \in Reqs,
         account[a] = "live", UNCHANGED <<ask, account, token>>,
         user' = [user EXCEPT ![r] = {a}],
         pc[r] \in {"idle", "getuser"}, pc'[r] # "lost", ask[r].op \in GrantOps
  PROVE  Ledger!Admit(r)
<1> USE DEF AInv
<1>1. token[r] = "none" /\ user[r] = {}
  BY DEF StepInv
<1>2. GrantOf(r) = "none" /\ GrantOf(r)' = "owed"
  BY <1>1 DEF GrantOf, Kept, TypeOK
<1>3. \A q \in Reqs \ {r} : /\ token'[q] = token[q] /\ user'[q] = user[q]
                            /\ pc'[q] = "lost" <=> pc[q] = "lost"
  BY Frame
<1>4. [q \in Reqs |-> GrantOf(q)]' = [[q \in Reqs |-> GrantOf(q)] EXCEPT ![r] = "owed"]
  BY <1>2, <1>3, GrantChange
<1>5. [q \in Reqs |-> IF ask[q].op \in GrantOps THEN user[q] ELSE {}]' =
      [[q \in Reqs |-> IF ask[q].op \in GrantOps THEN user[q] ELSE {}] EXCEPT ![r] = {a}]
  BY DEF TypeOK
<1> QED
  BY <1>2, <1>4, <1>5 DEF Ledger!Admit

LEMMA LedgerGive ==
  ASSUME AInv, NEW r \in Reqs, Step(r), StoreKeys(r)
  PROVE  Ledger!Give(r)
<1> USE DEF AInv
<1>1. token[r] = "none" /\ user[r] # {} /\ ask[r].op \in GrantOps /\ pc[r] # "lost"
  BY DEF StepInv, StoreKeys
<1>2. token' = [token EXCEPT ![r] = "live"] /\ pc'[r] # "lost"
  BY DEF StoreKeys, Goto, TypeOK
<1>3. UNCHANGED <<ask, user, account>>
  BY DEF StoreKeys
<1>4. GrantOf(r) = "owed" /\ GrantOf(r)' = "live"
  BY <1>1, <1>2, <1>3 DEF GrantOf, Kept, TypeOK
<1>5. \A q \in Reqs \ {r} : /\ token'[q] = token[q] /\ user'[q] = user[q]
                            /\ pc'[q] = "lost" <=> pc[q] = "lost"
  BY <1>2, <1>3, Frame DEF TypeOK
<1>6. [q \in Reqs |-> GrantOf(q)]' = [[q \in Reqs |-> GrantOf(q)] EXCEPT ![r] = "live"]
  BY <1>4, <1>5, GrantChange
<1> QED
  BY <1>3, <1>4, <1>6 DEF Ledger!Give

\* A token that is deleted or expires.
LEMMA LedgerRevoke ==
  ASSUME AInv, NEW r \in Reqs, Step(r), NEW t \in Reqs,
         UNCHANGED <<ask, user, account>>,
         \A q \in Reqs : pc'[q] = "lost" <=> pc[q] = "lost",
         Kept(token[t]), token' = [token EXCEPT ![t] = token'[t]],
         token'[t] \in {"deleted", "expired"}
  PROVE  Ledger!Revoke(t)
<1> USE DEF AInv
<1>1. token[t] # "none" /\ user[t] # {} /\ ask[t].op \in GrantOps
  BY DEF Kept, StepInv
<1>2. GrantOf(t) = "live" /\ GrantOf(t)' = "over"
  BY <1>1 DEF GrantOf, Kept
<1>3. \A q \in Reqs \ {t} : token'[q] = token[q]
  BY DEF TypeOK
<1>4. [q \in Reqs |-> GrantOf(q)]' = [[q \in Reqs |-> GrantOf(q)] EXCEPT ![t] = "over"]
  BY <1>2, <1>3, GrantChange
<1> QED
  BY <1>2, <1>4 DEF Ledger!Revoke

\* DEL of at most one token.
LEMMA LedgerDelete ==
  ASSUME AInv, NEW r \in Reqs, Step(r), UNCHANGED <<ask, user, account>>,
         \A q \in Reqs : pc'[q] = "lost" <=> pc[q] = "lost",
         NEW T \in SUBSET Reqs, AtMostOne(T), token' = Without(T)
  PROVE  (\E t \in Reqs : Ledger!Revoke(t)) \/ UNCHANGED Ledger!vars
<1> USE DEF AInv
<1>1. CASE \E t \in T : Kept(token[t])
  <2>1. PICK t \in T : Kept(token[t])
    BY <1>1
  <2>2. T = {t}
    BY DEF AtMostOne
  <2>3. token'[t] \in {"deleted", "expired"} /\ token' = [token EXCEPT ![t] = token'[t]]
    BY <2>1, <2>2 DEF Without, Deleted, Kept, TypeOK
  <2> QED
    BY <2>1, <2>3, LedgerRevoke
<1>2. CASE \A t \in T : ~Kept(token[t])
  <2>1. token' = token
    BY <1>2 DEF Without, Deleted, Kept, TypeOK
  <2> QED
    BY <2>1, Unseen
<1> QED
  BY <1>1, <1>2

LEMMA LedgerInit == ASSUME Init PROVE Ledger!Init
BY DEF Init, UserInit, Ledger!Init, GrantOf

LEMMA LedgerStep ==
  ASSUME AInv, NEW r \in Reqs, Step(r)
  PROVE  [Ledger!Next]_(Ledger!vars)
<1> USE DEF AInv
<1>0. ask[r].by \in Reqs
  BY AskFields
<1>1. CASE CheckEmail(r) /\ UNCHANGED authVars
  BY <1>1, Unseen DEF CheckEmail, Begins, Goto, TypeOK, userVars, authVars
<1>2. CASE InsertUser(r) /\ UNCHANGED authVars
  <2>1. CASE EmailTaken(ask[r].email)
    BY <1>2, <2>1, Unseen DEF InsertUser, Goto, TypeOK, authVars
  <2>2. CASE ~EmailTaken(ask[r].email)
    BY <1>2, <2>2, LedgerOpen DEF Ledger!Next
  <2> QED
    BY <2>1, <2>2
<1>3. CASE ValidateCredentials(r) /\ UNCHANGED authVars
  <2>1. CASE UNCHANGED user /\ Goto(r, "rejected")
    BY <1>3, <2>1, Unseen DEF ValidateCredentials, Begins, Goto, TypeOK, authVars
  <2>2. ASSUME NEW a \in AccountsOf(ask[r].email), user' = [user EXCEPT ![r] = {a}],
               Goto(r, "session")
        PROVE  Ledger!Admit(r)
    BY <1>3, <2>2, LedgerAdmit
       DEF ValidateCredentials, AccountsOf, Begins, Goto, GrantOps, TypeOK, authVars
  <2> QED
    BY <1>3, <2>1, <2>2 DEF ValidateCredentials, Ledger!Next
<1>4. CASE GetUser(r) /\ UNCHANGED authVars
  <2>1. PICK a \in user[ask[r].by] :
           IF Live(a) THEN Goto(r, "readtoken") /\ user' = [user EXCEPT ![r] = {a}]
           ELSE Goto(r, "rejected") /\ UNCHANGED user
    BY <1>4 DEF GetUser
  <2>2. CASE account[a] = "live"
    <3>1. a \in Reqs /\ ask[r].op = "refresh"
      BY <1>0, <1>4, <2>1 DEF GetUser, StepInv, RefreshPCs, TypeOK
    <3>2. Ledger!Admit(r)
      BY <1>4, <2>1, <2>2, <3>1, LedgerAdmit
         DEF GetUser, Live, Goto, GrantOps, TypeOK, authVars
    <3> QED
      BY <3>2 DEF Ledger!Next
  <2>3. CASE account[a] # "live"
    BY <1>4, <2>1, <2>3, Unseen DEF GetUser, Live, Goto, TypeOK, authVars
  <2> QED
    BY <2>2, <2>3
<1>5. CASE FindUser(r) /\ UNCHANGED authVars
  BY <1>5, Unseen
     DEF FindUser, Begins, Presents, Goto, GrantOps, TypeOK, userVars, authVars
<1>6. CASE WriteUser(r) /\ UNCHANGED authVars
  BY <1>6, Unseen DEF WriteUser, Writable, Goto, TypeOK, userVars, authVars
<1>7. CASE DeleteUser(r) /\ UNCHANGED authVars
  <2>1. PICK a \in user[ask[r].by] :
           IF Live(a) THEN Goto(r, "ended") /\ account' = [account EXCEPT ![a] = "deleted"]
           ELSE Goto(r, "rejected") /\ UNCHANGED account
    BY <1>7 DEF DeleteUser
  <2>2. UNCHANGED <<ask, user, token>> /\ (pc'[r] = "lost" <=> pc[r] = "lost")
    BY <1>7, <2>1 DEF DeleteUser, Begins, Goto, TypeOK, authVars
  <2>3. \A q \in Reqs : GrantOf(q)' = GrantOf(q)
    BY <2>2, Frame, GrantFrame
  <2>4. CASE account[a] = "live"
    <3>1. a \in Reqs /\ account' = [account EXCEPT ![a] = "deleted"]
      BY <1>0, <2>1, <2>4 DEF Live, TypeOK
    <3>2. Ledger!Close(a)
      BY <2>2, <2>3, <2>4, <3>1 DEF Ledger!Close
    <3> QED
      BY <3>1, <3>2 DEF Ledger!Next
  <2>5. CASE account[a] # "live"
    BY <2>1, <2>2, <2>5, Unseen DEF Live
  <2> QED
    BY <2>4, <2>5
<1>8. CASE StoreKeys(r)
  BY <1>8, LedgerGive DEF Ledger!Next
<1>9. CASE MapToken(r)
  BY <1>9, Unseen DEF MapToken, Mapping, Goto, TypeOK, userVars, authVars
<1>10. CASE ValidateToken(r)
  BY <1>10, Unseen DEF ValidateToken, Begins, Presents, Goto, TypeOK, userVars, authVars
<1>11. CASE ReadToken(r)
  BY <1>11, Unseen DEF ReadToken, Kept, Goto, TypeOK, userVars, authVars
<1>12. CASE DelToken(r)
  <2>1. /\ UNCHANGED <<ask, user, account>> /\ token' = Without({ask[r].by})
        /\ \A q \in Reqs : pc'[q] = "lost" <=> pc[q] = "lost"
    BY <1>12 DEF DelToken, Old, Goto, TypeOK
  <2>2. AtMostOne({ask[r].by})
    BY DEF AtMostOne
  <2> QED
    BY <1>0, <2>1, <2>2, LedgerDelete DEF Ledger!Next
<1>13. CASE DelMapping(r)
  BY <1>13, Unseen DEF DelMapping, Goto, TypeOK, userVars, authVars
<1>14. CASE GetSession(r)
  BY <1>14, Unseen
     DEF GetSession, Begins, Presents, Goto, GrantOps, TypeOK, userVars, authVars
<1>15. CASE DelSession(r)
  BY <1>15, Unseen
     DEF DelSession, DropSession, Deleted, Goto, TypeOK, userVars, authVars
<1>16. CASE ReadMapping(r)
  BY <1>16, Unseen DEF ReadMapping, Goto, TypeOK, userVars, authVars
<1>17. CASE DelMapped(r)
  <2>1. /\ UNCHANGED <<ask, user, account>> /\ token' = Without(named[r])
        /\ \A q \in Reqs : pc'[q] = "lost" <=> pc[q] = "lost"
    BY <1>17 DEF DelMapped, Goto, TypeOK
  <2>2. named[r] \in SUBSET Reqs /\ AtMostOne(named[r])
    BY DEF TypeOK
  <2> QED
    BY <2>1, <2>2, LedgerDelete DEF Ledger!Next
<1>18. CASE ClearMapping(r)
  BY <1>18, Unseen DEF ClearMapping, Goto, TypeOK, userVars, authVars
<1>19. CASE Verify(r)
  BY <1>19, Unseen DEF Verify, Begins, Presents, Goto, TypeOK, userVars, authVars
<1>20. CASE PurgeSession(r)
  BY <1>20, Unseen
     DEF PurgeSession, DropSession, Deleted, Goto, TypeOK, userVars, authVars
<1>21. CASE ExpireSession(r)
  BY <1>21, Unseen DEF ExpireSession, Kept, Passed, TypeOK, userVars, authVars
<1>22. CASE ExpireToken(r)
  <2>1. PICK k \in {"late", "expired"} \ {token[r]} : token' = [token EXCEPT ![r] = k]
    BY <1>22 DEF ExpireToken
  <2>2. Kept(token[r]) /\ UNCHANGED <<ask, user, account, pc>>
    BY <1>22 DEF ExpireToken, userVars
  <2>3. token'[r] = k
    BY <2>1 DEF TypeOK
  <2>4. CASE k = "expired"
    <3>1. Ledger!Revoke(r)
      BY <2>1, <2>2, <2>3, <2>4, LedgerRevoke
    <3> QED
      BY <3>1 DEF Ledger!Next
  <2>5. CASE k = "late"
    <3>1. GrantOf(r)' = GrantOf(r)
      BY <2>2, <2>3, <2>5 DEF GrantOf, Kept
    <3>2. \A q \in Reqs \ {r} : GrantOf(q)' = GrantOf(q)
      BY <2>1, <2>2, GrantFrame DEF TypeOK
    <3> QED
      BY <2>2, <3>1, <3>2 DEF Ledger!vars
  <2> QED
    BY <2>4, <2>5
<1>23. CASE ExpireMapping(r)
  BY <1>23, Unseen DEF ExpireMapping, TypeOK, userVars, authVars
<1>24. CASE FailRequest(r)
  <2>1. /\ UNCHANGED <<ask, user, account, token>> /\ pc'[r] = "lost" /\ pc[r] # "lost"
        /\ pc[r] \notin {"done", "lost"}
    BY <1>24 DEF FailRequest, Goto, TypeOK
  <2>2. CASE GrantOf(r) = "owed"
    <3>1. GrantOf(r)' = "over"
      BY <2>1, <2>2 DEF GrantOf, Kept
    <3>2. \A q \in Reqs \ {r} : /\ token'[q] = token[q] /\ user'[q] = user[q]
                                /\ pc'[q] = "lost" <=> pc[q] = "lost"
      BY <2>1, Frame
    <3>3. [q \in Reqs |-> GrantOf(q)]' = [[q \in Reqs |-> GrantOf(q)] EXCEPT ![r] = "over"]
      BY <3>1, <3>2, GrantChange
    <3>4. Ledger!Revoke(r)
      BY <2>1, <2>2, <3>3 DEF Ledger!Revoke
    <3> QED
      BY <3>4 DEF Ledger!Next
  <2>3. CASE GrantOf(r) # "owed"
    <3>1. GrantOf(r)' = GrantOf(r)
      BY <2>1, <2>3 DEF GrantOf, Kept
    <3>2. \A q \in Reqs \ {r} : GrantOf(q)' = GrantOf(q)
      BY <2>1, Frame, GrantFrame
    <3> QED
      BY <2>1, <3>1, <3>2 DEF Ledger!vars
  <2> QED
    BY <2>2, <2>3
<1> QED
  BY <1>1, <1>2, <1>3, <1>4, <1>5, <1>6, <1>7, <1>8, <1>9, <1>10, <1>11, <1>12, <1>13,
     <1>14, <1>15, <1>16, <1>17, <1>18, <1>19, <1>20, <1>21, <1>22, <1>23, <1>24
     DEF Step, UserStep, AuthStep, Environment

\* Tokens are given only to requests that found the account live, and never
\* come back: the services implement the ledger.
THEOREM Refinement == ASSUME UserAssumption PROVE Spec => ImplementsAccess
<1>1. Init => Ledger!Init
  BY LedgerInit
<1>2. AInv /\ UNCHANGED aVars => UNCHANGED Ledger!vars
  BY DEF aVars, userVars, authVars, Ledger!vars, GrantOf, Kept
<1>3. AInv /\ [Next]_aVars => [Ledger!Next]_(Ledger!vars)
  BY <1>2, LedgerStep DEF Next
<1> QED
  BY <1>1, <1>3, Inductive, PTL DEF Spec, ImplementsAccess, Ledger!Spec

=============================================================================
