------------------------ MODULE UserSessionsProofs ------------------------
(***************************************************************************)
(* Theorems about UserSessions, for any users, sessions and requests.      *)
(* Requests overlap at every step, so each theorem rests on what a request *)
(* still knows when it goes on (ReadInv): its session was issued, the user *)
(* of the session exists, and a demand to change the password that came    *)
(* after the user was loaded has revoked the session.                      *)
(***************************************************************************)
EXTENDS UserSessions, TLAPS

\* The user of a session exists; users are never deleted.
SessionsInv == \A s \in SessionIds : Issued(s) => user[session[s].user].exists

\* What a request has read and still relies on: a login on its user, a look-up
\* on its session and later on the user of the session, an access change on its
\* target.  The last conjunct is about a password reset after the user was read.
RequestInv(r) ==
    /\ At(r, "login") => req[r].user \in Users /\ user[req[r].user].exists
    /\ req[r].pc \in {"found", "loaded"} =>
           req[r].session \in SessionIds /\ Issued(req[r].session)
    /\ At(r, "loaded") => req[r].user = session[req[r].session].user
    /\ (/\ At(r, "loaded")
        /\ req[r].route = "normal"
        /\ user[req[r].user].mustChange) => session[req[r].session].revoked
    /\ At(r, "access") => req[r].target \in Users

ReadInv == \A r \in Requests : RequestInv(r)

SInv == TypeOK /\ SessionsInv /\ ReadInv /\ LastAdminKept

-----------------------------------------------------------------------------
(* Lemmas about the operators *)

\* Done ends one request and leaves the others as they are.
LEMMA DoneIdle ==
    ASSUME TypeOK, NEW r \in Requests, Done(r)
    PROVE  /\ req' \in [Requests -> Request]
           /\ req'[r] = Idle
           /\ \A q \in Requests : q # r => req'[q] = req[q]
  <1>1. Idle \in Request
    BY DEF Idle, Request, NoChange, AccessChanges, Routes
  <1>2. QED
    BY <1>1 DEF Done, TypeOK

\* Revoking keeps the users of sessions and every revocation.
LEMMA RevokedSessions ==
    ASSUME TypeOK, NEW S, session' = Revoked(S)
    PROVE  /\ session' \in [SessionIds -> SessionRow]
           /\ \A s \in SessionIds : /\ session'[s].user = session[s].user
                                    /\ session[s].revoked => session'[s].revoked
                                    /\ s \in S => session'[s].revoked
  <1>1. ASSUME NEW s \in SessionIds
        PROVE  /\ session'[s] \in SessionRow
               /\ session'[s].user = session[s].user
               /\ session[s].revoked => session'[s].revoked
               /\ s \in S => session'[s].revoked
    BY <1>1 DEF TypeOK, Revoked, SessionRow
  <1>2. session' = [s \in SessionIds |-> session'[s]]
    BY DEF Revoked
  <1>3. QED
    BY <1>1, <1>2

\* An ended request relies on nothing.
LEMMA IdleRequest ==
    ASSUME NEW r \in Requests, req[r] = Idle
    PROVE  RequestInv(r)
  BY DEF RequestInv, At, Idle

\* What a step of request r leaves to the others: no user disappears, no session
\* changes hands or comes back, and a new demand to change the password revokes
\* the sessions of that user.
Courteous(r) ==
    /\ \A q \in Requests : q # r => req'[q] = req[q]
    /\ \A u \in Users : user[u].exists => user'[u].exists
    /\ \A s \in SessionIds : Issued(s) => session'[s].user = session[s].user
    /\ \A s \in SessionIds : session[s].revoked => session'[s].revoked
    /\ \A u \in Users : user[u].exists /\ user'[u].mustChange =>
           user[u].mustChange \/ \A s \in SessionIds : session[s].user = u => session'[s].revoked

LEMMA OthersUndisturbed ==
    ASSUME SInv, NEW r \in Requests, Courteous(r)
    PROVE  \A q \in Requests : q # r => RequestInv(q)'
  <1> SUFFICES ASSUME NEW q \in Requests, q # r
               PROVE  RequestInv(q)'
    OBVIOUS
  <1> USE DEF SInv, ReadInv, At, Issued
  <1>1. RequestInv(q) /\ req'[q] = req[q] /\ req[q] \in Request
    BY DEF Courteous, TypeOK
  <1>2. (At(q, "login") => req[q].user \in Users /\ user[req[q].user].exists)'
    BY <1>1 DEF Courteous, RequestInv
  <1>3. (req[q].pc \in {"found", "loaded"} =>
             req[q].session \in SessionIds /\ Issued(req[q].session))'
    BY <1>1, UserSessionsAssumption DEF Courteous, RequestInv
  <1>4. (At(q, "loaded") => req[q].user = session[req[q].session].user)'
    BY <1>1 DEF Courteous, RequestInv
  <1>5. ASSUME At(q, "loaded")', req[q].route = "normal", user'[req[q].user].mustChange
        PROVE  session'[req[q].session].revoked
    <2>1. /\ req[q].session \in SessionIds
          /\ Issued(req[q].session)
          /\ req[q].user = session[req[q].session].user
      BY <1>1, <1>5 DEF RequestInv
    <2>2. req[q].user \in Users /\ user[req[q].user].exists
      BY <2>1 DEF SessionsInv, TypeOK, SessionRow
    <2>3. CASE user[req[q].user].mustChange
      BY <2>1, <2>3, <1>1, <1>5 DEF RequestInv, Courteous
    <2>4. CASE ~user[req[q].user].mustChange
      BY <2>1, <2>2, <2>4, <1>5 DEF Courteous
    <2>5. QED
      BY <2>3, <2>4
  <1>6. (At(q, "access") => req[q].target \in Users)'
    BY <1>1 DEF RequestInv
  <1>7. QED
    BY <1>1, <1>2, <1>3, <1>4, <1>5, <1>6 DEF RequestInv

\* The sessions' users go on existing.
LEMMA SessionsKept ==
    ASSUME SInv, NEW r \in Requests, Courteous(r),
           \A s \in SessionIds : ~Issued(s) => session'[s].user = session[s].user
    PROVE  SessionsInv'
  BY DEF SInv, SessionsInv, Courteous, Issued, TypeOK, SessionRow

\* A step that takes no administrator's existence, role or activity.
LEMMA AdminsKept ==
    ASSUME LastAdminKept,
           \A u \in Users : user[u].exists /\ user[u].active /\ user[u].admin =>
                user'[u].exists /\ user'[u].active /\ user'[u].admin
    PROVE  LastAdminKept'
  BY DEF LastAdminKept, ActiveAdmins

\* The three facts above put together.
LEMMA StepOfRequest ==
    ASSUME SInv, NEW r \in Requests, Courteous(r), TypeOK', RequestInv(r)', LastAdminKept',
           \A s \in SessionIds : ~Issued(s) => session'[s].user = session[s].user
    PROVE  SInv'
  BY OthersUndisturbed, SessionsKept DEF SInv, ReadInv

-----------------------------------------------------------------------------
(* Steps that write only the request *)

LEMMA ReadingStep ==
    ASSUME SInv, NEW r \in Requests, UNCHANGED <<user, session>>,
           NEW row \in Request, req' = [req EXCEPT ![r] = row], RequestInv(r)'
    PROVE  SInv'
  <1>1. TypeOK'
    BY DEF SInv, TypeOK
  <1>2. Courteous(r)
    BY DEF Courteous, SInv, TypeOK
  <1>3. LastAdminKept'
    BY DEF SInv, LastAdminKept, ActiveAdmins
  <1>4. \A s \in SessionIds : ~Issued(s) => session'[s].user = session[s].user
    OBVIOUS
  <1>5. QED
    BY <1>1, <1>2, <1>3, <1>4, StepOfRequest

LEMMA EndingStep ==
    ASSUME SInv, NEW r \in Requests, UNCHANGED <<user, session>>, Done(r)
    PROVE  SInv'
  <1>1. Idle \in Request
    BY DEF Idle, Request, NoChange, AccessChanges, Routes
  <1>2. RequestInv(r)'
    BY DoneIdle DEF SInv, RequestInv, At, Idle
  <1>3. QED
    BY <1>1, <1>2, ReadingStep DEF Done

LEMMA LoginCheckStep ==
    ASSUME SInv, NEW r \in Requests, NEW u \in Users, LoginCheck(r, u)
    PROVE  SInv'
  <1> DEFINE row == [Idle EXCEPT !.pc = "login", !.user = u]
  <1>1. /\ row \in Request
        /\ row.pc = "login"
        /\ row.user = u
    BY DEF Idle, Request, NoChange, AccessChanges, Routes
  <1>2. req' = [req EXCEPT ![r] = row] /\ UNCHANGED <<user, session>> /\ user[u].exists
    BY DEF LoginCheck
  <1>3. req'[r] = row
    BY <1>2 DEF SInv, TypeOK
  <1> HIDE DEF row
  <1>4. RequestInv(r)'
    BY <1>1, <1>2, <1>3 DEF RequestInv, At
  <1>5. QED
    BY <1>1, <1>2, <1>4, ReadingStep

LEMMA FindSessionStep ==
    ASSUME SInv, NEW r \in Requests, NEW s \in SessionIds, NEW route \in Routes,
           FindSession(r, s, route)
    PROVE  SInv'
  <1> DEFINE row == [Idle EXCEPT !.pc = "found", !.session = s, !.route = route]
  <1>1. /\ row \in Request
        /\ row.pc = "found"
        /\ row.session = s
    BY DEF Idle, Request, NoChange, AccessChanges, Routes
  <1>2. req' = [req EXCEPT ![r] = row] /\ UNCHANGED <<user, session>> /\ Issued(s)
    BY DEF FindSession, Live
  <1>3. req'[r] = row
    BY <1>2 DEF SInv, TypeOK
  <1> HIDE DEF row
  <1>4. RequestInv(r)'
    BY <1>1, <1>2, <1>3 DEF RequestInv, At, Issued
  <1>5. QED
    BY <1>1, <1>2, <1>4, ReadingStep

LEMMA LoadUserStep ==
    ASSUME SInv, NEW r \in Requests, LoadUser(r)
    PROVE  SInv'
  <1> DEFINE u == session[req[r].session].user
             row == [req[r] EXCEPT !.pc = "loaded", !.user = u, !.admin = user[u].admin]
  <1>1. /\ UNCHANGED <<user, session>>
        /\ \/ Done(r)
           \/ /\ req' = [req EXCEPT ![r] = row]
              /\ user[u].mustChange => req[r].route = "change_password"
    BY DEF LoadUser, SInv, TypeOK
  <1>2. /\ req[r].session \in SessionIds
        /\ Issued(req[r].session)
        /\ req[r] \in Request
        /\ u \in Users
    BY DEF SInv, ReadInv, RequestInv, LoadUser, At, TypeOK, Issued, SessionRow
  <1>3. CASE Done(r)
    BY <1>1, <1>3, EndingStep
  <1>4. CASE /\ req' = [req EXCEPT ![r] = row]
             /\ user[u].mustChange => req[r].route = "change_password"
    <2>1. user[u].admin \in BOOLEAN
      BY <1>2 DEF SInv, TypeOK, UserRow
    <2>2. /\ row \in Request
          /\ row.pc = "loaded"
          /\ row.user = u
          /\ row.session = req[r].session
          /\ row.route = req[r].route
      BY <1>2, <2>1 DEF Request
    <2>3. req'[r] = row
      BY <1>4 DEF SInv, TypeOK
    <2> HIDE DEF row
    <2>4. RequestInv(r)'
      BY <1>1, <1>2, <1>4, <2>2, <2>3 DEF RequestInv, At, Issued
    <2>5. QED
      BY <1>1, <1>4, <2>2, <2>4, ReadingStep
  <1>5. QED
    BY <1>1, <1>3, <1>4

LEMMA TouchSessionStep ==
    ASSUME SInv, NEW r \in Requests, TouchSession(r)
    PROVE  SInv'
  <1> DEFINE row == [req[r] EXCEPT !.pc = "confirmed"]
  <1>1. UNCHANGED <<user, session>> /\ (Done(r) \/ req' = [req EXCEPT ![r] = row])
    BY DEF TouchSession, SInv, TypeOK
  <1>2. row \in Request /\ row.pc = "confirmed"
    BY DEF SInv, TypeOK, Request
  <1>3. CASE Done(r)
    BY <1>1, <1>3, EndingStep
  <1>4. CASE req' = [req EXCEPT ![r] = row]
    <2>1. req'[r] = row
      BY <1>4 DEF SInv, TypeOK
    <2> HIDE DEF row
    <2>2. RequestInv(r)'
      BY <1>2, <2>1 DEF RequestInv, At
    <2>3. QED
      BY <1>1, <1>2, <1>4, <2>2, ReadingStep
  <1>5. QED
    BY <1>1, <1>3, <1>4

LEMMA ReadAccessStep ==
    ASSUME SInv, NEW r \in Requests, NEW u \in Users, NEW change \in AccessChanges,
           ReadAccess(r, u, change)
    PROVE  SInv'
  <1> DEFINE gone == user[u].active /\ ~After(user[u], change).active
             row == [req[r] EXCEPT !.pc = "access", !.target = u, !.change = change,
                                   !.becomingInactive = gone]
  <1>1. UNCHANGED <<user, session>> /\ req' = [req EXCEPT ![r] = row]
    BY DEF ReadAccess, SInv, TypeOK
  <1>2. gone \in BOOLEAN
    OBVIOUS
  <1> HIDE DEF gone
  <1>3. row \in Request /\ row.pc = "access" /\ row.target = u
    BY <1>2 DEF SInv, TypeOK, Request
  <1>4. req'[r] = row
    BY <1>1 DEF SInv, TypeOK
  <1> HIDE DEF row
  <1>5. RequestInv(r)'
    BY <1>3, <1>4 DEF RequestInv, At
  <1>6. QED
    BY <1>1, <1>3, <1>5, ReadingStep

-----------------------------------------------------------------------------
(* Steps that end the request with a transaction *)

LEMMA LoginIssueStep ==
    ASSUME SInv, NEW r \in Requests, LoginIssue(r)
    PROVE  SInv'
  <1>1. PICK s \in SessionIds : ~Issued(s) /\ session' = [session EXCEPT ![s].user = req[r].user]
    BY DEF LoginIssue
  <1>2. Done(r) /\ UNCHANGED user /\ req[r].user \in Users /\ user[req[r].user].exists
    BY DEF LoginIssue, SInv, ReadInv, RequestInv
  <1>3. \A t \in SessionIds :
            /\ t # s => session'[t] = session[t]
            /\ session'[s].user = req[r].user
            /\ session'[t].revoked = session[t].revoked
    BY <1>1 DEF SInv, TypeOK, SessionRow
  <1>4. session' \in [SessionIds -> SessionRow]
    BY <1>1, <1>2 DEF SInv, TypeOK, SessionRow
  <1>5. TypeOK' /\ req'[r] = Idle
    BY <1>2, <1>4, DoneIdle DEF SInv, TypeOK
  <1>6. Courteous(r)
    BY <1>1, <1>2, <1>3, DoneIdle DEF SInv, Courteous, Issued
  <1>7. RequestInv(r)'
    BY <1>5 DEF RequestInv, At, Idle
  <1>8. SessionsInv'
    BY <1>2, <1>3 DEF SInv, SessionsInv, Issued
  <1>9. LastAdminKept'
    BY <1>2 DEF SInv, LastAdminKept, ActiveAdmins
  <1>10. QED
    BY <1>5, <1>6, <1>7, <1>8, <1>9, OthersUndisturbed DEF SInv, ReadInv

\* A request that ends by writing users and revoking sessions.
LEMMA WritingStep ==
    ASSUME SInv, NEW r \in Requests, NEW S \in SUBSET SessionIds, Done(r),
           session' = Revoked(S),
           user' \in [Users -> UserRow],
           \A u \in Users : user[u].exists => user'[u].exists,
           \A u \in Users : user[u].exists /\ user'[u].mustChange =>
               user[u].mustChange \/ SessionsOf(u) \subseteq S,
           LastAdminKept'
    PROVE  SInv'
  <1>1. TypeOK' /\ req'[r] = Idle /\ \A q \in Requests : q # r => req'[q] = req[q]
    BY DoneIdle, RevokedSessions DEF SInv, TypeOK
  <1>2. \A s \in SessionIds : /\ session'[s].user = session[s].user
                              /\ session[s].revoked => session'[s].revoked
                              /\ s \in S => session'[s].revoked
    BY RevokedSessions DEF SInv
  <1>3. Courteous(r)
    BY <1>1, <1>2 DEF Courteous, SessionsOf
  <1>4. RequestInv(r)'
    BY <1>1 DEF RequestInv, At, Idle
  <1>5. QED
    BY <1>1, <1>2, <1>3, <1>4, StepOfRequest

\* Leaving the sessions alone is revoking none.
LEMMA RevokedNone ==
    ASSUME TypeOK
    PROVE  session = Revoked({})
  BY DEF TypeOK, Revoked

LEMMA LogoutAllStep ==
    ASSUME SInv, NEW r \in Requests, LogoutAll(r)
    PROVE  SInv'
  <1>1. LastAdminKept'
    BY DEF SInv, LastAdminKept, ActiveAdmins, LogoutAll
  <1>2. SessionsOf(req[r].user) \in SUBSET SessionIds
    BY DEF SessionsOf
  <1>3. QED
    BY <1>1, <1>2, WritingStep DEF LogoutAll, SInv, TypeOK

LEMMA ChangeOwnPasswordStep ==
    ASSUME SInv, NEW r \in Requests, ChangeOwnPassword(r)
    PROVE  SInv'
  <1>1. user' = [user EXCEPT ![req[r].user].mustChange = FALSE]
    BY DEF ChangeOwnPassword
  <1>2. /\ user' \in [Users -> UserRow]
        /\ \A u \in Users : /\ user'[u].exists = user[u].exists
                            /\ user'[u].admin = user[u].admin
                            /\ user'[u].active = user[u].active
                            /\ user'[u].mustChange => user[u].mustChange
    BY <1>1 DEF SInv, TypeOK, UserRow
  <1>3. LastAdminKept'
    BY <1>2, AdminsKept DEF SInv
  <1>4. SessionsOf(req[r].user) \ {req[r].session} \in SUBSET SessionIds
    BY DEF SessionsOf
  <1>5. QED
    BY <1>2, <1>3, <1>4, WritingStep DEF ChangeOwnPassword

LEMMA CreateUserStep ==
    ASSUME SInv, NEW r \in Requests, NEW u \in Users, NEW admin \in BOOLEAN,
           NEW mustChange \in BOOLEAN, CreateUserAsAdmin(r, u, admin, mustChange)
    PROVE  SInv'
  <1>1. /\ ~user[u].exists
        /\ user' = [user EXCEPT ![u] = [exists |-> TRUE, admin |-> admin, active |-> TRUE,
                                        mustChange |-> mustChange]]
    BY DEF CreateUserAsAdmin
  <1>2. /\ user' \in [Users -> UserRow]
        /\ user'[u].exists
        /\ \A w \in Users : w # u => user'[w] = user[w]
    BY <1>1 DEF SInv, TypeOK, UserRow
  <1>3. LastAdminKept'
    BY <1>1, <1>2, AdminsKept DEF SInv
  <1>4. session' = Revoked({})
    BY RevokedNone DEF CreateUserAsAdmin, SInv
  <1>5. \A w \in Users : user[w].exists => user'[w].exists /\ user'[w] = user[w]
    BY <1>1, <1>2
  <1>6. QED
    BY <1>2, <1>3, <1>4, <1>5, WritingStep DEF CreateUserAsAdmin

LEMMA SetUserPasswordStep ==
    ASSUME SInv, NEW r \in Requests, NEW u \in Users, NEW mustChange \in BOOLEAN,
           SetUserPasswordAsAdmin(r, u, mustChange)
    PROVE  SInv'
  <1>1. user' = [user EXCEPT ![u].mustChange = mustChange]
    BY DEF SetUserPasswordAsAdmin
  <1>2. /\ user' \in [Users -> UserRow]
        /\ \A w \in Users : /\ user'[w].exists = user[w].exists
                            /\ user'[w].admin = user[w].admin
                            /\ user'[w].active = user[w].active
                            /\ w # u => user'[w] = user[w]
    BY <1>1 DEF SInv, TypeOK, UserRow
  <1>3. LastAdminKept'
    BY <1>2, AdminsKept DEF SInv
  <1>4. SessionsOf(u) \in SUBSET SessionIds
    BY DEF SessionsOf
  <1>5. \A w \in Users : user[w].exists /\ user'[w].mustChange =>
            user[w].mustChange \/ SessionsOf(w) \subseteq SessionsOf(u)
    BY <1>2
  <1>6. QED
    BY <1>2, <1>3, <1>4, <1>5, WritingStep DEF SetUserPasswordAsAdmin

\* What an access change does to the row of its target.
LEMMA AfterChange ==
    ASSUME NEW row \in UserRow, NEW change \in AccessChanges
    PROVE  /\ After(row, change) \in UserRow
           /\ After(row, change).exists = row.exists
           /\ After(row, change).mustChange = row.mustChange
  <1>1. (IF change.admin = None THEN row.admin ELSE change.admin) \in BOOLEAN
    BY DEF UserRow, AccessChanges
  <1>2. (IF change.active = None THEN row.active ELSE change.active) \in BOOLEAN
    BY DEF UserRow, AccessChanges
  <1>3. QED
    BY <1>1, <1>2 DEF After, UserRow

\* The administrators are counted again inside the transaction: the change is
\* not one that takes the last of them away.
LEMMA ApplyAccessStep ==
    ASSUME SInv, NEW r \in Requests, ApplyAccess(r)
    PROVE  SInv'
  <1> DEFINE u == req[r].target
             change == req[r].change
             S == IF req[r].becomingInactive THEN SessionsOf(u) ELSE {}
             next == After(user[u], change)
  <1>1. u \in Users /\ change \in AccessChanges /\ Done(r)
    BY DEF SInv, ReadInv, RequestInv, ApplyAccess, TypeOK, Request
  <1>2. CASE RemovesLastAdmin(u, change)
    BY <1>1, <1>2, EndingStep DEF ApplyAccess
  <1>3. CASE ~RemovesLastAdmin(u, change)
    <2>1. user' = [user EXCEPT ![u] = next] /\ session' = Revoked(S)
      BY <1>3 DEF ApplyAccess
    <2>2. next \in UserRow /\ next.exists = user[u].exists /\ next.mustChange = user[u].mustChange
      BY <1>1, AfterChange DEF SInv, TypeOK
    <2>3. \/ u \notin ActiveAdmins
          \/ next.active /\ next.admin
          \/ \E w \in ActiveAdmins : w # u
      BY <1>3 DEF RemovesLastAdmin
    <2> HIDE DEF next
    <2>4. /\ user' \in [Users -> UserRow]
          /\ user'[u] = next
          /\ \A w \in Users : w # u => user'[w] = user[w]
      BY <1>1, <2>1, <2>2 DEF SInv, TypeOK
    <2>5. LastAdminKept'
      BY <1>1, <2>2, <2>3, <2>4 DEF SInv, LastAdminKept, ActiveAdmins
    <2>6. S \in SUBSET SessionIds
      BY DEF SessionsOf
    <2>7. \A w \in Users : /\ user'[w].exists = user[w].exists
                           /\ user'[w].mustChange = user[w].mustChange
      BY <2>2, <2>4
    <2> HIDE DEF S
    <2>8. QED
      BY <1>1, <2>1, <2>4, <2>5, <2>6, <2>7, WritingStep
  <1>4. QED
    BY <1>2, <1>3

-----------------------------------------------------------------------------
(* Steps of no request *)

LEMMA SessionStep ==
    ASSUME SInv, UNCHANGED <<user, req>>, session' \in [SessionIds -> SessionRow],
           \A s \in SessionIds : /\ session'[s].user = session[s].user
                                 /\ session[s].revoked => session'[s].revoked
    PROVE  SInv'
  <1>1. TypeOK' /\ LastAdminKept'
    BY DEF SInv, TypeOK, LastAdminKept, ActiveAdmins
  <1>2. SessionsInv'
    BY DEF SInv, SessionsInv, Issued
  <1>3. ASSUME NEW r \in Requests PROVE RequestInv(r)'
    <2>1. RequestInv(r)
      BY DEF SInv, ReadInv
    <2>2. QED
      BY <2>1 DEF RequestInv, At, Issued
  <1>4. QED
    BY <1>1, <1>2, <1>3 DEF SInv, ReadInv

LEMMA LogoutStep ==
    ASSUME SInv, NEW s \in SessionIds, Logout(s)
    PROVE  SInv'
  BY RevokedSessions, SessionStep DEF Logout, SInv

LEMMA ExpireStep ==
    ASSUME SInv, NEW s \in SessionIds, Expire(s)
    PROVE  SInv'
  <1>1. /\ session' \in [SessionIds -> SessionRow]
        /\ \A t \in SessionIds : /\ session'[t].user = session[t].user
                                 /\ session'[t].revoked = session[t].revoked
    BY DEF Expire, SInv, TypeOK, SessionRow
  <1>2. QED
    BY <1>1, SessionStep DEF Expire

-----------------------------------------------------------------------------
LEMMA InitSInv == Init => SInv
  <1> SUFFICES ASSUME Init PROVE SInv
    OBVIOUS
  <1>1. Idle \in Request
    BY DEF Idle, Request, NoChange, AccessChanges, Routes
  <1>2. NoSession \in SessionRow
    BY DEF NoSession, SessionRow
  <1>3. TypeOK
    BY <1>1, <1>2 DEF Init, TypeOK, UserRow
  <1>4. SessionsInv
    BY DEF Init, SessionsInv, Issued, NoSession
  <1>5. ReadInv
    BY IdleRequest DEF Init, ReadInv
  <1>6. LastAdminKept
    BY UserSessionsAssumption DEF Init, LastAdminKept, ActiveAdmins
  <1>7. QED
    BY <1>3, <1>4, <1>5, <1>6 DEF SInv

LEMMA NextSInv == SInv /\ [Next]_vars => SInv'
  <1> SUFFICES ASSUME SInv, [Next]_vars PROVE SInv'
    OBVIOUS
  <1>1. CASE UNCHANGED vars
    BY <1>1 DEF vars, SInv, TypeOK, SessionsInv, ReadInv, RequestInv, At, Issued,
                LastAdminKept, ActiveAdmins
  <1>2. ASSUME NEW r \in Requests, NEW u \in Users, LoginCheck(r, u) PROVE SInv'
    BY <1>2, LoginCheckStep
  <1>3. ASSUME NEW r \in Requests, EndRequest(r) PROVE SInv'
    BY <1>3, EndingStep DEF EndRequest
  <1>4. QED
    BY <1>1, <1>2, <1>3, LoginIssueStep, FindSessionStep, LoadUserStep, TouchSessionStep,
       LogoutAllStep, ChangeOwnPasswordStep, CreateUserStep, SetUserPasswordStep,
       ReadAccessStep, ApplyAccessStep, LogoutStep, ExpireStep DEF Next

\* Everything below follows from this: what requests have read stays true as
\* far as they rely on it, however they overlap.
THEOREM SessionsInvariance == Spec => []SInv
  BY InitSInv, NextSInv, PTL DEF Spec

\* The rows of users, sessions and requests stay well-formed.
THEOREM SessionsTypeCorrect == Spec => []TypeOK
  <1>1. SInv => TypeOK
    BY DEF SInv
  <1>2. QED
    BY <1>1, SessionsInvariance, PTL

\* However many administrators demote or deactivate each other at the same time,
\* one active administrator remains.  (_apply_user_access_change)
THEOREM LastAdminRemains == Spec => []LastAdminKept
  <1>1. SInv => LastAdminKept
    BY DEF SInv
  <1>2. QED
    BY <1>1, SessionsInvariance, PTL

-----------------------------------------------------------------------------
(* Action properties: only touching the session confirms a context *)

\* A step that confirms a request is the touch of a session that is not revoked.
Confirms(r) == req[r].pc # "confirmed" /\ req'[r].pc = "confirmed"

LEMMA OnlyTouchConfirms ==
    ASSUME SInv, [Next]_vars, NEW r \in Requests, Confirms(r)
    PROVE  /\ At(r, "loaded")
           /\ ~session[req[r].session].revoked
           /\ req' = [req EXCEPT ![r].pc = "confirmed"]
  <1> USE DEF Confirms
  <1> DEFINE Goal == /\ At(r, "loaded")
                     /\ ~session[req[r].session].revoked
                     /\ req' = [req EXCEPT ![r].pc = "confirmed"]
  <1>1. ASSUME NEW q \in Requests, Done(q) PROVE FALSE
    BY <1>1, DoneIdle DEF SInv, Idle
  <1>2. ASSUME NEW q \in Requests, NEW row, req' = [req EXCEPT ![q] = row],
               row.pc # "confirmed"
        PROVE FALSE
    BY <1>2 DEF SInv, TypeOK
  <1>3. ASSUME NEW q \in Requests, NEW u \in Users, LoginCheck(q, u) PROVE FALSE
    <2>1. [Idle EXCEPT !.pc = "login", !.user = u].pc # "confirmed"
      BY DEF Idle
    <2>2. QED
      BY <1>2, <1>3, <2>1 DEF LoginCheck
  <1>4. ASSUME NEW q \in Requests, NEW s \in SessionIds, NEW route \in Routes,
               FindSession(q, s, route)
        PROVE FALSE
    <2>1. [Idle EXCEPT !.pc = "found", !.session = s, !.route = route].pc # "confirmed"
      BY DEF Idle
    <2>2. QED
      BY <1>2, <1>4, <2>1 DEF FindSession
  <1>5. ASSUME NEW q \in Requests, LoadUser(q) PROVE FALSE
    <2>1. req'[r].pc # "confirmed" \/ req'[r] = req[r] \/ Done(q)
      BY <1>5 DEF LoadUser, SInv, TypeOK, Request
    <2>2. QED
      BY <1>1, <2>1
  <1>6. ASSUME NEW q \in Requests, NEW u \in Users, NEW change \in AccessChanges,
               ReadAccess(q, u, change)
        PROVE FALSE
    BY <1>6 DEF ReadAccess, SInv, TypeOK, Request
  <1>7. ASSUME NEW q \in Requests, TouchSession(q) PROVE Goal
    <2>1. CASE session[req[q].session].revoked
      BY <1>1, <1>7, <2>1 DEF TouchSession
    <2>2. CASE ~session[req[q].session].revoked
      <3>1. req' = [req EXCEPT ![q].pc = "confirmed"] /\ At(q, "loaded")
        BY <1>7, <2>2 DEF TouchSession
      <3>2. q = r
        BY <3>1 DEF SInv, TypeOK
      <3>3. QED
        BY <2>2, <3>1, <3>2
    <2>3. QED
      BY <2>1, <2>2
  <1>8. CASE UNCHANGED vars
    BY <1>8 DEF vars
  <1>9. ASSUME NEW s \in SessionIds, Logout(s) \/ Expire(s) PROVE FALSE
    BY <1>9 DEF Logout, Expire
  <1>10. ASSUME NEW q \in Requests,
                \/ LoginIssue(q) \/ EndRequest(q) \/ LogoutAll(q) \/ ChangeOwnPassword(q)
                \/ \E u \in Users, admin, mustChange \in BOOLEAN :
                      CreateUserAsAdmin(q, u, admin, mustChange)
                \/ \E u \in Users, mustChange \in BOOLEAN : SetUserPasswordAsAdmin(q, u, mustChange)
                \/ ApplyAccess(q)
         PROVE  FALSE
    BY <1>1, <1>10 DEF LoginIssue, EndRequest, LogoutAll, ChangeOwnPassword,
                       CreateUserAsAdmin, SetUserPasswordAsAdmin, ApplyAccess
  <1>11. QED
    BY <1>3, <1>4, <1>5, <1>6, <1>7, <1>8, <1>9, <1>10 DEF Next

\* A revocation is never undone by any step.
LEMMA RevocationsStay ==
    ASSUME SInv, [Next]_vars, NEW s \in SessionIds, session[s].revoked
    PROVE  session'[s].revoked
  <1> USE DEF SInv
  <1>1. ASSUME NEW S, session' = Revoked(S) PROVE session'[s].revoked
    BY <1>1, RevokedSessions
  <1>2. ASSUME NEW r \in Requests, LoginIssue(r) PROVE session'[s].revoked
    BY <1>2 DEF LoginIssue, TypeOK, SessionRow
  <1>3. ASSUME NEW t \in SessionIds, Expire(t) PROVE session'[s].revoked
    BY <1>3 DEF Expire, TypeOK, SessionRow
  <1>4. ASSUME NEW r \in Requests, ApplyAccess(r) PROVE session'[s].revoked
    BY <1>1, <1>4 DEF ApplyAccess
  <1>5. ASSUME NEW r \in Requests, TouchSession(r) \/ LoadUser(r) \/ EndRequest(r)
        PROVE  session'[s].revoked
    BY <1>5 DEF TouchSession, LoadUser, EndRequest
  <1>6. ASSUME NEW r \in Requests, NEW u \in Users, NEW admin \in BOOLEAN, NEW mustChange \in BOOLEAN,
               \/ LoginCheck(r, u)
               \/ CreateUserAsAdmin(r, u, admin, mustChange)
               \/ SetUserPasswordAsAdmin(r, u, mustChange)
        PROVE  session'[s].revoked
    BY <1>1, <1>6 DEF LoginCheck, CreateUserAsAdmin, SetUserPasswordAsAdmin
  <1>7. ASSUME NEW r \in Requests, NEW t \in SessionIds, NEW route \in Routes,
               FindSession(r, t, route)
        PROVE  session'[s].revoked
    BY <1>7 DEF FindSession
  <1>8. ASSUME NEW r \in Requests, NEW u \in Users, NEW change \in AccessChanges,
               ReadAccess(r, u, change)
        PROVE  session'[s].revoked
    BY <1>8 DEF ReadAccess
  <1>9. ASSUME NEW r \in Requests, LogoutAll(r) \/ ChangeOwnPassword(r) PROVE session'[s].revoked
    BY <1>1, <1>9 DEF LogoutAll, ChangeOwnPassword
  <1>10. ASSUME NEW t \in SessionIds, Logout(t) PROVE session'[s].revoked
    BY <1>1, <1>10 DEF Logout
  <1>11. CASE UNCHANGED vars
    BY <1>11 DEF vars
  <1>12. QED
    BY <1>2, <1>3, <1>4, <1>5, <1>6, <1>7, <1>8, <1>9, <1>10, <1>11 DEF Next

\* A revoked session stays revoked, and no context is confirmed for one, however
\* late the revocation comes.  (touch, resolve_session)
THEOREM RevocationStaysFinal == Spec => RevocationIsFinal
  <1> DEFINE A == /\ \A s \in SessionIds : session[s].revoked => session'[s].revoked
                  /\ \A r \in Requests :
                         req[r].pc # "confirmed" /\ req'[r].pc = "confirmed"
                         => ~session[req'[r].session].revoked
  <1>1. SInv /\ [Next]_vars => [A]_vars
    <2> SUFFICES ASSUME SInv, [Next]_vars PROVE A
      OBVIOUS
    <2>1. ASSUME NEW r \in Requests, Confirms(r) PROVE ~session[req'[r].session].revoked
      <3>1. req'[r].session = req[r].session
        BY <2>1, OnlyTouchConfirms DEF SInv, TypeOK, Request
      <3>2. QED
        BY <2>1, <3>1, OnlyTouchConfirms
    <2>2. QED
      BY <2>1, RevocationsStay DEF Confirms
  <1>2. QED
    BY <1>1, SessionsInvariance, PTL DEF Spec, RevocationIsFinal

\* A request for an ordinary route never gets through while its user has to
\* change the password, also when the reset comes between loading the user and
\* touching the session.  (set_user_password_as_admin, resolve_session)
THEOREM PasswordChangeComesFirst == Spec => NoContextBeforePasswordChange
  <1> DEFINE A == \A r \in Requests :
                      req[r].pc # "confirmed" /\ req'[r].pc = "confirmed"
                      /\ req'[r].route = "normal"
                      => ~user[req'[r].user].mustChange
  <1>1. SInv /\ [Next]_vars => [A]_vars
    <2> SUFFICES ASSUME SInv, [Next]_vars, NEW r \in Requests, Confirms(r),
                        req'[r].route = "normal"
                 PROVE  ~user[req'[r].user].mustChange
      BY DEF Confirms
    <2>1. req'[r].user = req[r].user /\ req'[r].route = req[r].route
      BY OnlyTouchConfirms DEF SInv, TypeOK, Request
    <2>2. QED
      BY <2>1, OnlyTouchConfirms DEF SInv, ReadInv, RequestInv
  <1>2. QED
    BY <1>1, SessionsInvariance, PTL DEF Spec, NoContextBeforePasswordChange
=============================================================================
