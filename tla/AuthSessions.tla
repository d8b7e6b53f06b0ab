----------------------------- MODULE AuthSessions -----------------------------
(***************************************************************************)
(* Accounts and their sessions: services/auth.py and its callers, the      *)
(* login and logout handlers, the check that every page and every API      *)
(* request passes (api/deps.py, opds/auth.py, web/views.py) and            *)
(* `buku user create`.                                                     *)
(*                                                                         *)
(* A caller is a request or a command in a database session of its own.    *)
(* Nothing is locked between its statements: a SELECT sees the commits     *)
(* made before it, a DELETE of a row that is gone is a no-op, an UPDATE of *)
(* one is an error.  Passwords are left out: who logs in knows his.        *)
(***************************************************************************)
EXTENDS Integers, Sequences

CONSTANTS
  Names,        \* user names
  MaxUsers,     \* bound on the accounts
  Callers,      \* requests and commands at a time
  Tokens,       \* session tokens: random, none is drawn twice
  NoToken,
  Lifetime,     \* duration_days
  MaxClock      \* bound on the clock

ASSUME AuthAssumption ==
  /\ Names # {}
  /\ MaxUsers \in Nat /\ Lifetime \in Nat \ {0} /\ MaxClock \in Nat
  /\ NoToken \notin Tokens

VARIABLES
  users,        \* the users table, in the order of the ids
  sessions,     \* the row of each token
  opened,       \* the tokens sessions have been created with
  clock,        \* days
  caller        \* the local state of each caller

authVars == <<users, sessions, opened, clock, caller>>

Account == [name : Names, active : BOOLEAN]
SessionRow == [user : 1..MaxUsers, expires : 1..(MaxClock + Lifetime)]
NoRow == [user |-> 0, expires |-> 0]

Call == [at : {"idle", "create", "login", "found", "discard", "vouched", "basic", "admitted",
                "logout"},
         name : Names,
         user : 0..MaxUsers,
         token : Tokens \cup {NoToken},
         expires : 0..(MaxClock + Lifetime),
         began : 0..MaxClock]
Quiet == [at |-> "idle", name |-> CHOOSE n \in Names : TRUE, user |-> 0, token |-> NoToken,
          expires |-> 0, began |-> 0]

AuthTypeOK ==
  /\ users \in Seq(Account) /\ Len(users) <= MaxUsers
  /\ sessions \in [Tokens -> SessionRow \cup {NoRow}]
  /\ opened \in SUBSET Tokens
  /\ clock \in 0..MaxClock
  /\ caller \in [Callers -> Call]

AuthInit ==
  /\ users = <<>>
  /\ sessions = [t \in Tokens |-> NoRow]
  /\ opened = {}
  /\ clock = 0
  /\ caller = [c \in Callers |-> Quiet]

Waits(c, point) == caller[c].at = point
Return(c) == caller' = [caller EXCEPT ![c] = Quiet]
Taken(name) == \E u \in DOMAIN users : users[u].name = name

Tick ==
  /\ clock < MaxClock
  /\ clock' = clock + 1
  /\ UNCHANGED <<users, sessions, opened, caller>>

-----------------------------------------------------------------------------
(* Accounts.                                                               *)

\* create_user finds the name free.
CreateLook(c, name) ==
  /\ Waits(c, "idle")
  /\ ~Taken(name)
  /\ caller' = [caller EXCEPT ![c] = [Quiet EXCEPT !.at = "create", !.name = name]]
  /\ UNCHANGED <<users, sessions, opened, clock>>

\* The INSERT, which the unique user name may refuse.
CreateInsert(c) ==
  /\ Waits(c, "create")
  /\ Len(users) < MaxUsers
  /\ users' = IF Taken(caller[c].name) THEN users
              ELSE Append(users, [name |-> caller[c].name, active |-> TRUE])
  /\ Return(c)
  /\ UNCHANGED <<sessions, opened, clock>>

Revoked(u) == [t \in Tokens |-> IF sessions[t].user = u THEN NoRow ELSE sessions[t]]

\* disable_user: the flag and the deletion of the sessions are one commit.
Disable(u) ==
  /\ users' = [users EXCEPT ![u].active = FALSE]
  /\ sessions' = Revoked(u)
  /\ UNCHANGED <<opened, clock, caller>>

RevokeAll(u) ==
  /\ sessions' = Revoked(u)
  /\ UNCHANGED <<users, opened, clock, caller>>

-----------------------------------------------------------------------------
(* Logging in and out.                                                     *)

\* authenticate_user accepts the credentials of an active account.
LoginCheck(c, u) ==
  /\ Waits(c, "idle")
  /\ users[u].active
  /\ caller' = [caller EXCEPT ![c] = [Quiet EXCEPT !.at = "login", !.user = u]]
  /\ UNCHANGED <<users, sessions, opened, clock>>

OwnerOf(u) == u

\* create_session, some time later.
LoginOpen(c) ==
  /\ Waits(c, "login")
  /\ \E t \in Tokens \ opened :
       /\ sessions' = [sessions EXCEPT ![t] = [user |-> OwnerOf(caller[c].user),
                                               expires |-> clock + Lifetime]]
       /\ opened' = opened \cup {t}
  /\ Return(c)
  /\ UNCHANGED <<users, clock>>

\* revoke_session finds the row, and deletes it.
LogoutLook(c, t) ==
  /\ Waits(c, "idle")
  /\ sessions[t] # NoRow
  /\ caller' = [caller EXCEPT ![c] = [Quiet EXCEPT !.at = "logout", !.token = t]]
  /\ UNCHANGED <<users, sessions, opened, clock>>

LogoutDelete(c) ==
  /\ Waits(c, "logout")
  /\ sessions' = [sessions EXCEPT ![caller[c].token] = NoRow]
  /\ Return(c)
  /\ UNCHANGED <<users, opened, clock>>

-----------------------------------------------------------------------------
(* validate_session, on behalf of a request that presents a token.         *)

\* The row is read.  A request whose token has no row is turned away.
Look(c, t) ==
  /\ Waits(c, "idle")
  /\ sessions[t] # NoRow
  /\ caller' = [caller EXCEPT ![c] = [Quiet EXCEPT !.at = "found", !.token = t,
                                        !.user = sessions[t].user,
                                        !.expires = sessions[t].expires, !.began = clock]]
  /\ UNCHANGED <<users, sessions, opened, clock>>

OverdueLate(c) == caller[c].expires < clock - 1   \* mutant of Overdue: a day of grace
Overdue(c) == caller[c].expires <= clock

\* The time is compared, and the user, whom only this access loads, is read.
Judge(c) ==
  /\ Waits(c, "found")
  /\ caller' = [caller EXCEPT ![c].at =
                  IF Overdue(c) \/ ~users[caller[c].user].active THEN "discard" ELSE "vouched"]
  /\ UNCHANGED <<users, sessions, opened, clock>>

Discard(c) ==
  /\ Waits(c, "discard")
  /\ sessions' = [sessions EXCEPT ![caller[c].token] = NoRow]
  /\ Return(c)
  /\ UNCHANGED <<users, opened, clock>>

\* Mutant of Admit: the session is written back whole if it is gone.
AdmitMerged(c) ==
  /\ Waits(c, "vouched")
  /\ sessions' = [sessions EXCEPT ![caller[c].token] =
                    [user |-> caller[c].user, expires |-> caller[c].expires]]
  /\ caller' = [caller EXCEPT ![c].at = "admitted"]
  /\ UNCHANGED <<users, opened, clock>>

\* The UPDATE of last_active_at, by which the request is let in; an error if
\* the row has gone since.
Admit(c) ==
  /\ Waits(c, "vouched")
  /\ IF sessions[caller[c].token] = NoRow THEN Return(c)
     ELSE caller' = [caller EXCEPT ![c].at = "admitted"]
  /\ UNCHANGED <<users, sessions, opened, clock>>

-----------------------------------------------------------------------------
(* get_opds_user, for a request that presents Basic credentials: they are  *)
(* checked each time, and open no session.                                 *)

\* authenticate_user reads the account, which must be active.
BasicCheck(c, u) ==
  /\ Waits(c, "idle")
  /\ users[u].active
  /\ caller' = [caller EXCEPT ![c] = [Quiet EXCEPT !.at = "basic", !.user = u]]
  /\ UNCHANGED <<users, sessions, opened, clock>>

\* The password has been verified, slowly, and the request is let in as the
\* account that was read.
BasicAdmit(c) ==
  /\ Waits(c, "basic")
  /\ caller' = [caller EXCEPT ![c].at = "admitted"]
  /\ UNCHANGED <<users, sessions, opened, clock>>

-----------------------------------------------------------------------------

\* The request has been answered; or it fails or dies at any moment, and
\* what it has not committed is not done.
Finish(c) ==
  /\ ~Waits(c, "idle")
  /\ Return(c)
  /\ UNCHANGED <<users, sessions, opened, clock>>

AuthNext ==
  \/ Tick
  \/ \E u \in DOMAIN users : Disable(u) \/ RevokeAll(u)
  \/ \E c \in Callers :
       \/ \E name \in Names : CreateLook(c, name)
       \/ \E u \in DOMAIN users : LoginCheck(c, u) \/ BasicCheck(c, u)
       \/ \E t \in Tokens : LogoutLook(c, t) \/ Look(c, t)
       \/ CreateInsert(c) \/ LoginOpen(c) \/ LogoutDelete(c)
       \/ Judge(c) \/ Discard(c) \/ Admit(c) \/ BasicAdmit(c) \/ Finish(c)

AuthSpec == AuthInit /\ [][AuthNext]_authVars

-----------------------------------------------------------------------------
(* Properties.                                                             *)

LetIn(c) == caller[c].at # "admitted" /\ caller'[c].at = "admitted"

\* At the moment a request is let in by a session (validate_session), its
\* user is not deactivated, and the session has not been revoked, whatever was
\* committed while it was being checked (disable_user: "immediately revoke all
\* active sessions"), and had not expired when the request came.
AdmittedIsLive ==
  [][\A c \in Callers : LetIn(c) /\ caller'[c].token # NoToken =>
       /\ users[caller'[c].user].active
       /\ sessions[caller'[c].token] # NoRow
       /\ caller[c].began < caller[c].expires]_authVars

\* opds/auth.py: the dependency "ensures disabled users are rejected regardless
\* of which mechanism they use".  A request with Basic credentials is let in on
\* the account read before the password was verified.
DisabledRejected ==
  [][\A c \in Callers : LetIn(c) => users[caller'[c].user].active]_authVars

\* A session that has been revoked, by logout, deactivation or expiry, never
\* comes back, however many requests with its token are under way.
RevokedStaysDead ==
  [][\A t \in opened : sessions[t] = NoRow => sessions'[t] = NoRow]_authVars
=============================================================================
