---------------------------- MODULE UserSessions ----------------------------
(***************************************************************************)
(* Users, opaque sessions and the requests of the authentication and user  *)
(* administration routes, on PostgreSQL.  The routes run on a thread pool  *)
(* and every repository call outside an explicit transaction commits by    *)
(* itself, so a request is a sequence of steps: its session is looked up,  *)
(* the user is loaded, the session is touched, and the confirmed context   *)
(* is used.  A change is one transaction; what it read before is in the    *)
(* request.  Passwords are reduced to the demand to change them, times to  *)
(* "expired" and "revoked", QMB flags and profile fields are left out.     *)
(***************************************************************************)
EXTENDS Naturals, FiniteSets

CONSTANTS
    Users,        \* user ids
    FirstAdmin,   \* the administrator the installation starts with
    MaxSessions,  \* bound: sessions ever issued
    Requests,     \* bound: requests in flight at a time
    None

SessionIds == 1..MaxSessions

ASSUME UserSessionsAssumption ==
    /\ FirstAdmin \in Users
    /\ None \notin Users
    /\ MaxSessions \in Nat

VARIABLES
    user,     \* user id -> row of usermanagement.users
    session,  \* session id -> row of usermanagement.sessions
    req       \* request -> how far it is and what it has read

vars == <<user, session, req>>

UserRow == [exists : BOOLEAN, admin : BOOLEAN, active : BOOLEAN, mustChange : BOOLEAN]

SessionRow == [user : Users \cup {None}, revoked : BOOLEAN, expired : BOOLEAN]

Routes == {"normal", "change_password"}

\* What a PATCH of the access fields asks for.
AccessChanges == [admin : BOOLEAN \cup {None}, active : BOOLEAN \cup {None}]

NoChange == [admin |-> None, active |-> None]

Request ==
    [pc               : {"idle", "login", "found", "loaded", "confirmed", "access"},
     user             : Users \cup {None},     \* user of the request
     session          : SessionIds \cup {0},   \* session of the request
     route            : Routes,
     admin            : BOOLEAN,               \* role read from the user row
     target           : Users \cup {None},     \* user to be changed
     change           : AccessChanges,
     becomingInactive : BOOLEAN]               \* computed before the transaction

Idle ==
    [pc |-> "idle", user |-> None, session |-> 0, route |-> "normal", admin |-> FALSE,
     target |-> None, change |-> NoChange, becomingInactive |-> FALSE]

NoSession == [user |-> None, revoked |-> FALSE, expired |-> FALSE]

TypeOK ==
    /\ user \in [Users -> UserRow]
    /\ session \in [SessionIds -> SessionRow]
    /\ req \in [Requests -> Request]

Init ==
    /\ user = [u \in Users |->
                  [exists |-> u = FirstAdmin, admin |-> u = FirstAdmin,
                   active |-> u = FirstAdmin, mustChange |-> FALSE]]
    /\ session = [s \in SessionIds |-> NoSession]
    /\ req = [r \in Requests |-> Idle]

Issued(s) == session[s].user # None

Live(s) == Issued(s) /\ ~session[s].revoked /\ ~session[s].expired

\* UPDATE ... SET revoked_at WHERE revoked_at IS NULL, for the sessions in S.
Revoked(S) == [s \in SessionIds |-> IF s \in S THEN [session[s] EXCEPT !.revoked = TRUE]
                                               ELSE session[s]]

SessionsOf(u) == {s \in SessionIds : session[s].user = u}

At(r, pc) == req[r].pc = pc

Done(r) == req' = [req EXCEPT ![r] = Idle]

-----------------------------------------------------------------------------
(* Login: read and verify, then insert the session *)

LoginCheck(r, u) ==
    /\ At(r, "idle")
    /\ user[u].exists
    /\ user[u].active
    /\ req' = [req EXCEPT ![r] = [Idle EXCEPT !.pc = "login", !.user = u]]
    /\ UNCHANGED <<user, session>>

LoginIssue(r) ==
    /\ At(r, "login")
    /\ \E s \in SessionIds :
          /\ ~Issued(s)
          /\ \A t \in SessionIds : t < s => Issued(t)
          /\ session' = [session EXCEPT ![s].user = req[r].user]
    /\ Done(r)
    /\ UNCHANGED user

-----------------------------------------------------------------------------
(* resolve_session: three reads, each in a transaction of its own *)

FindSession(r, s, route) ==
    /\ At(r, "idle")
    /\ Live(s)
    /\ req' = [req EXCEPT ![r] = [Idle EXCEPT !.pc = "found", !.session = s, !.route = route]]
    /\ UNCHANGED <<user, session>>

\* Role, activity and password demand come from the current user row.
LoadUser(r) ==
    LET u == session[req[r].session].user
    IN  /\ At(r, "found")
        /\ IF user[u].active /\ (user[u].mustChange => req[r].route = "change_password")
           THEN req' = [req EXCEPT ![r].pc = "loaded", ![r].user = u, ![r].admin = user[u].admin]
           ELSE Done(r)
        /\ UNCHANGED <<user, session>>

\* Mutant: what the look-up saw is trusted.
TouchBlindly(r) ==
    /\ At(r, "loaded")
    /\ req' = [req EXCEPT ![r].pc = "confirmed"]
    /\ UNCHANGED <<user, session>>

\* touch returns the current row and leaves a revoked one alone.  The expiry is
\* compared with the time taken at the look-up, so it is not decided again.
TouchSession(r) ==
    /\ At(r, "loaded")
    /\ IF session[req[r].session].revoked
       THEN Done(r)
       ELSE req' = [req EXCEPT ![r].pc = "confirmed"]
    /\ UNCHANGED <<user, session>>

Confirmed(r, route) == At(r, "confirmed") /\ req[r].route = route

\* The request of an administrator, by the role the context carries.
AdminRequest(r) == Confirmed(r, "normal") /\ req[r].admin

-----------------------------------------------------------------------------
(* What a confirmed context is used for *)

\* Any other route: the context is handed on and the request ends; a request
\* that fails (its audit row cannot be written, a time-out) rolls back and ends.
EndRequest(r) ==
    /\ ~At(r, "idle")
    /\ Done(r)
    /\ UNCHANGED <<user, session>>

\* logout_backend resolves no context; a known token is revoked once.
Logout(s) ==
    /\ Issued(s)
    /\ session' = Revoked({s})
    /\ UNCHANGED <<user, req>>

LogoutAll(r) ==
    /\ Confirmed(r, "normal")
    /\ session' = Revoked(SessionsOf(req[r].user))
    /\ Done(r)
    /\ UNCHANGED user

ChangeOwnPassword(r) ==
    /\ Confirmed(r, "change_password")
    /\ user' = [user EXCEPT ![req[r].user].mustChange = FALSE]
    /\ session' = Revoked(SessionsOf(req[r].user) \ {req[r].session})
    /\ Done(r)

CreateUserAsAdmin(r, u, admin, mustChange) ==
    /\ AdminRequest(r)
    /\ ~user[u].exists
    /\ user' = [user EXCEPT ![u] = [exists |-> TRUE, admin |-> admin, active |-> TRUE,
                                    mustChange |-> mustChange]]
    /\ Done(r)
    /\ UNCHANGED session

\* Mutant: a reset keeps the sessions.
ResetKeepsSessions(r, u, mustChange) ==
    /\ AdminRequest(r)
    /\ user[u].exists
    /\ user' = [user EXCEPT ![u].mustChange = mustChange]
    /\ Done(r)
    /\ UNCHANGED session

SetUserPasswordAsAdmin(r, u, mustChange) ==
    /\ AdminRequest(r)
    /\ user[u].exists
    /\ user' = [user EXCEPT ![u].mustChange = mustChange]
    /\ session' = Revoked(SessionsOf(u))
    /\ Done(r)

-----------------------------------------------------------------------------
(* Changing role or activity: a check on what was read, then a transaction *)

ActiveAdmins == {u \in Users : user[u].exists /\ user[u].active /\ user[u].admin}

After(row, change) ==
    [row EXCEPT !.admin  = IF change.admin = None THEN @ ELSE change.admin,
                !.active = IF change.active = None THEN @ ELSE change.active]

\* The change would take an administrator away and leave no other.
RemovesLastAdmin(u, change) ==
    LET next == After(user[u], change)
    IN  /\ u \in ActiveAdmins
        /\ ~(next.active /\ next.admin)
        /\ ActiveAdmins \subseteq {u}

\* _apply_user_access_change up to its transaction.
ReadAccess(r, u, change) ==
    /\ AdminRequest(r)
    /\ user[u].exists
    /\ change # NoChange
    /\ ~RemovesLastAdmin(u, change)
    /\ req' = [req EXCEPT ![r].pc = "access", ![r].target = u, ![r].change = change,
                          ![r].becomingInactive = user[u].active
                                                  /\ ~After(user[u], change).active]
    /\ UNCHANGED <<user, session>>

\* Mutant: the administrators are counted before the transaction only.
ApplyUnlocked(r) ==
    LET u == req[r].target
    IN  /\ At(r, "access")
        /\ user' = [user EXCEPT ![u] = After(@, req[r].change)]
        /\ session' = Revoked(IF req[r].becomingInactive THEN SessionsOf(u) ELSE {})
        /\ Done(r)

\* The transaction locks the active administrators and checks again; whether
\* the sessions are revoked was decided by the first read.
ApplyAccess(r) ==
    LET u == req[r].target
        change == req[r].change
    IN  /\ At(r, "access")
        /\ IF RemovesLastAdmin(u, change)
           THEN UNCHANGED <<user, session>>
           ELSE /\ user' = [user EXCEPT ![u] = After(@, change)]
                /\ session' = Revoked(IF req[r].becomingInactive THEN SessionsOf(u) ELSE {})
        /\ Done(r)

\* Time passes.
Expire(s) ==
    /\ Live(s)
    /\ session' = [session EXCEPT ![s].expired = TRUE]
    /\ UNCHANGED <<user, req>>

-----------------------------------------------------------------------------
Next ==
    \/ \E r \in Requests :
          \/ \E u \in Users : LoginCheck(r, u)
          \/ LoginIssue(r)
          \/ \E s \in SessionIds, route \in Routes : FindSession(r, s, route)
          \/ LoadUser(r)
          \/ TouchSession(r)
          \/ EndRequest(r)
          \/ LogoutAll(r)
          \/ ChangeOwnPassword(r)
          \/ \E u \in Users, admin, mustChange \in BOOLEAN :
                CreateUserAsAdmin(r, u, admin, mustChange)
          \/ \E u \in Users, mustChange \in BOOLEAN : SetUserPasswordAsAdmin(r, u, mustChange)
          \/ \E u \in Users, change \in AccessChanges : ReadAccess(r, u, change)
          \/ ApplyAccess(r)
    \/ \E s \in SessionIds : Logout(s) \/ Expire(s)

Spec == Init /\ [][Next]_vars

-----------------------------------------------------------------------------
(* Properties *)

\* However demotions and deactivations of administrators overlap, one active
\* administrator remains.
LastAdminKept == ActiveAdmins # {}

\* A context for an ordinary route is never confirmed for a user who has to
\* change the password: a reset that falls between loading the user and
\* touching the session has revoked that session.
NoContextBeforePasswordChange ==
    [][\A r \in Requests :
           req[r].pc # "confirmed" /\ req'[r].pc = "confirmed" /\ req'[r].route = "normal"
           => ~user[req'[r].user].mustChange]_vars

\* A revocation is never undone, and a context is confirmed only for a session
\* that is not revoked at that moment, whatever was read before.
RevocationIsFinal ==
    [][/\ \A s \in SessionIds : session[s].revoked => session'[s].revoked
       /\ \A r \in Requests :
              req[r].pc # "confirmed" /\ req'[r].pc = "confirmed"
              => ~session[req'[r].session].revoked]_vars
=============================================================================
