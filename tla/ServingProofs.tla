---------------------------- MODULE ServingProofs ----------------------------
(***************************************************************************)
(* Proofs about what the server does on the readers' behalf: sessions and  *)
(* users (AuthSessions), the reader's cache (ReaderCache), a reading       *)
(* session in the browser (ReadingSession), the paged feeds (CatalogFeed)  *)
(* and reading progress (Progression).  They share no variable, and the    *)
(* proofs no invariant.                                                    *)
(*                                                                         *)
(* Sessions.  A request that validate_session has vouched for is let in by *)
(* an UPDATE of its session's row.  The argument is that as long as the    *)
(* row is there its user is active: what deactivates the user deletes the  *)
(* row in the same commit, and no row is ever written under a token that   *)
(* has been used.                                                          *)
(*                                                                         *)
(* The cache.  A structure may be cached under the key of an earlier       *)
(* version than it was parsed from, never of a later one, and the file has *)
(* moved on at least as far as what was parsed of it.  So an entry whose   *)
(* key is the version on disk holds that version's structure.              *)
(*                                                                         *)
(* The reading session.  What the server lists as the reading order is the *)
(* spine without what is no member, and the script finds a place in it by  *)
(* its member.  So the page is always at a chapter, and a link that is in  *)
(* the order is found where the order has it.                              *)
(*                                                                         *)
(* The feeds.  A page is a range of positions in a listing, and every      *)
(* position is less than the number of books the links are made from.  So  *)
(* it is enough to know of each book on which side of the client it is:    *)
(* nothing moves it in a quiet crawl, and an addition moves it forward.    *)
(*                                                                         *)
(* Progress.  A request that is to update has read a record that is not    *)
(* newer than its own.  That is all that is true of concurrent requests;   *)
(* for a reader served one request at a time the record read is still the  *)
(* one in the table.                                                       *)
(***************************************************************************)
EXTENDS MCServing, SelectionProofs, FiniteSetTheorems

-----------------------------------------------------------------------------
(* Sessions and users.                                                     *)

\* A row belongs to an account, and its token has been drawn.
RowsOwned ==
  \A t \in Tokens : sessions[t] # NoRow => t \in opened /\ sessions[t].user \in DOMAIN users

\* A login is for an account.
LoginsKnown == \A c \in Callers : Waits(c, "login") => caller[c].user \in DOMAIN users

Checking(c) == caller[c].at \in {"found", "discard", "vouched"}

\* A request being checked presents a drawn token and has its owner at hand.
TokenHeld(c) ==
  /\ caller[c].token \in opened
  /\ caller[c].user \in DOMAIN users
  /\ sessions[caller[c].token] # NoRow => sessions[caller[c].token].user = caller[c].user

\* One that was vouched for came in time, and its user is active unless the
\* row has gone.
VouchedLive(c) ==
  /\ caller[c].began < caller[c].expires
  /\ sessions[caller[c].token] # NoRow => users[caller[c].user].active

ChecksSound ==
  \A c \in Callers :
    /\ Checking(c) => TokenHeld(c)
    /\ Waits(c, "found") => caller[c].began <= clock
    /\ Waits(c, "vouched") => VouchedLive(c)

\* A logout has found its row.
LogoutsKnown == \A c \in Callers : Waits(c, "logout") => caller[c].token \in Tokens

\* A request with Basic credentials presents no token.
BasicsBare == \A c \in Callers : Waits(c, "basic") => caller[c].token = NoToken

AuthInv == AuthTypeOK /\ RowsOwned /\ LoginsKnown /\ ChecksSound /\ LogoutsKnown /\ BasicsBare

-----------------------------------------------------------------------------

\* The state between requests is a state of a caller.
LEMMA QuietTyped == Quiet \in Call
<1>1. (CHOOSE n \in Names : TRUE) \in Names
  BY AuthAssumption
<1> QED
  BY <1>1, AuthAssumption DEF Quiet, Call

\* No row is a row that could be stored.
LEMMA NoRowIsNone == NoRow \notin SessionRow
  BY DEF NoRow, SessionRow

\* Adding an account leaves the others where they are.
LEMMA AccountAdded ==
  ASSUME users \in Seq(Account), NEW a \in Account
  PROVE  /\ Append(users, a) \in Seq(Account)
         /\ Len(Append(users, a)) = Len(users) + 1
         /\ DOMAIN users \subseteq DOMAIN Append(users, a)
         /\ \A u \in DOMAIN users : Append(users, a)[u] = users[u]
  OBVIOUS

\* Deactivating an account leaves the others as they are.
LEMMA AccountDisabled ==
  ASSUME users \in Seq(Account), NEW u \in DOMAIN users
  PROVE  LET new == [users EXCEPT ![u].active = FALSE] IN
         /\ new \in Seq(Account)
         /\ Len(new) = Len(users) /\ DOMAIN new = DOMAIN users
         /\ \A v \in DOMAIN users : v # u => new[v] = users[v]
<1>1. users[u] \in Account /\ u \in 1..Len(users)
  OBVIOUS
<1>2. [users[u] EXCEPT !.active = FALSE] \in Account
  BY <1>1 DEF Account
<1>3. [users EXCEPT ![u].active = FALSE] = [users EXCEPT ![u] = [users[u] EXCEPT !.active = FALSE]]
  OBVIOUS
<1> QED
  BY <1>1, <1>2, <1>3, ExceptSeq

\* Revoking leaves rows or none.
LEMMA RevokedTyped ==
  ASSUME AuthTypeOK, NEW u
  PROVE  Revoked(u) \in [Tokens -> SessionRow \cup {NoRow}]
  BY DEF AuthTypeOK, Revoked

\* The invariant holds of an empty database.
LEMMA AuthInvInit == AuthInit => AuthInv
<1> SUFFICES ASSUME AuthInit PROVE AuthInv
  OBVIOUS
<1>1. AuthTypeOK
  BY QuietTyped, AuthAssumption, EmptySeq DEF AuthInit, AuthTypeOK
<1>2. RowsOwned /\ LoginsKnown /\ ChecksSound /\ LogoutsKnown /\ BasicsBare
  BY DEF AuthInit, RowsOwned, LoginsKnown, ChecksSound, LogoutsKnown, BasicsBare, Checking,
     Waits, Quiet
<1> QED
  BY <1>1, <1>2 DEF AuthInv

-----------------------------------------------------------------------------

\* The conjuncts of the invariant that speak of callers hold of each caller
\* by itself.
CallerSound(c) ==
  /\ caller[c] \in Call
  /\ Waits(c, "login") => caller[c].user \in DOMAIN users
  /\ Checking(c) => TokenHeld(c)
  /\ Waits(c, "found") => caller[c].began <= clock
  /\ Waits(c, "vouched") => VouchedLive(c)
  /\ Waits(c, "logout") => caller[c].token \in Tokens
  /\ Waits(c, "basic") => caller[c].token = NoToken

TablesSound ==
  /\ users \in Seq(Account) /\ Len(users) <= MaxUsers
  /\ sessions \in [Tokens -> SessionRow \cup {NoRow}]
  /\ opened \in SUBSET Tokens
  /\ clock \in 0..MaxClock
  /\ RowsOwned

\* The invariant is one about the tables and one about each call by itself.
LEMMA AuthInvSplit ==
  AuthInv <=> /\ TablesSound
              /\ caller \in [Callers -> Call]
              /\ \A c \in Callers : CallerSound(c)
  BY DEF AuthInv, AuthTypeOK, TablesSound, LoginsKnown, ChecksSound, LogoutsKnown,
     BasicsBare, CallerSound

\* A caller at rest is sound, whatever the tables hold.
LEMMA QuietSound ==
  ASSUME NEW c \in Callers, caller'[c] = Quiet
  PROVE  CallerSound(c)'
  BY QuietTyped DEF CallerSound, Checking, Waits, Quiet

\* What no step undoes: accounts stay, tokens stay drawn, rows go or are
\* written under new tokens, and those of a deactivated account go.
Frame ==
  /\ DOMAIN users \subseteq DOMAIN users' /\ opened \subseteq opened' /\ clock <= clock'
  /\ \A t \in opened : sessions'[t] \in {sessions[t], NoRow}
  /\ \A u \in DOMAIN users : users[u].active =>
       users'[u].active \/ \A t \in opened : sessions'[t] # NoRow => sessions'[t].user # u

\* A caller that does not move stays sound.
LEMMA OthersSound ==
  ASSUME AuthInv, TablesSound', Frame,
         NEW c \in Callers, caller'[c] = caller[c]
  PROVE  CallerSound(c)'
<1>1. CallerSound(c) /\ caller[c] \in Call
  BY AuthInvSplit DEF CallerSound
<1>2. Checking(c) => TokenHeld(c)'
  BY <1>1 DEF CallerSound, TokenHeld, Frame
<1>3. Waits(c, "vouched") => VouchedLive(c)'
  <2> SUFFICES ASSUME Waits(c, "vouched"), sessions'[caller[c].token] # NoRow
               PROVE  users'[caller[c].user].active
    BY <1>1 DEF CallerSound, VouchedLive
  <2>1. TokenHeld(c) /\ VouchedLive(c)
    BY <1>1 DEF CallerSound, Checking, Waits
  <2>2. caller[c].token \in opened /\ caller[c].user \in DOMAIN users
    BY <2>1 DEF TokenHeld
  <2>3. sessions'[caller[c].token] = sessions[caller[c].token]
    BY <2>2 DEF Frame
  <2>4. users[caller[c].user].active /\ sessions'[caller[c].token].user = caller[c].user
    BY <2>1, <2>3 DEF TokenHeld, VouchedLive
  <2> QED
    BY <2>2, <2>4 DEF Frame
<1>4. Waits(c, "found") => caller[c].began <= clock'
  <2>1. caller[c].began \in Int /\ clock \in Int /\ clock' \in Int /\ clock <= clock'
    BY <1>1, AuthAssumption DEF Call, AuthInv, AuthTypeOK, TablesSound, Frame
  <2> QED
    BY <1>1, <2>1 DEF CallerSound
<1>5. Waits(c, "login") => caller[c].user \in DOMAIN users'
  BY <1>1 DEF CallerSound, Frame
<1>6. UNCHANGED <<Waits(c, "login"), Waits(c, "found"), Waits(c, "vouched"), Waits(c, "logout"),
                  Waits(c, "basic"), Checking(c)>>
  BY DEF Waits, Checking
<1> QED
  BY <1>1, <1>2, <1>3, <1>4, <1>5, <1>6 DEF CallerSound

\* A step of one caller preserves the invariant if it leaves the tables and
\* that caller sound.
LEMMA OneMoves ==
  ASSUME AuthInv, TablesSound', Frame,
         NEW c \in Callers, CallerSound(c)',
         caller' \in [Callers -> Call], \A d \in Callers : d # c => caller'[d] = caller[d]
  PROVE  AuthInv'
<1>1. \A d \in Callers : CallerSound(d)'
  BY OthersSound
<1> QED
  BY <1>1 DEF AuthInv, AuthTypeOK, TablesSound, LoginsKnown, ChecksSound, LogoutsKnown,
     BasicsBare, CallerSound

\* So does one of no caller.
LEMMA NoneMoves ==
  ASSUME AuthInv, TablesSound', Frame, caller' = caller
  PROVE  AuthInv'
<1>1. \A d \in Callers : CallerSound(d)'
  BY OthersSound
<1> QED
  BY <1>1 DEF AuthInv, AuthTypeOK, TablesSound, LoginsKnown, ChecksSound, LogoutsKnown,
     BasicsBare, CallerSound

\* A step that reads only.
LEMMA TablesKept ==
  ASSUME AuthInv, UNCHANGED <<users, sessions, opened, clock>>
  PROVE  TablesSound' /\ Frame
  BY DEF AuthInv, AuthTypeOK, TablesSound, RowsOwned, Frame

\* A step that deletes rows.
LEMMA RowsDeleted ==
  ASSUME AuthInv, UNCHANGED <<users, opened, clock>>,
         sessions' \in [Tokens -> SessionRow \cup {NoRow}],
         \A t \in Tokens : sessions'[t] \in {sessions[t], NoRow}
  PROVE  TablesSound' /\ Frame
  BY DEF AuthInv, AuthTypeOK, TablesSound, RowsOwned, Frame

\* The next state of a caller that comes to rest.
LEMMA ReturnSound ==
  ASSUME AuthInv, TablesSound', Frame, NEW c \in Callers, Return(c)
  PROVE  AuthInv'
<1>1. caller'[c] = Quiet /\ caller' \in [Callers -> Call]
      /\ \A d \in Callers : d # c => caller'[d] = caller[d]
  BY QuietTyped DEF Return, AuthInv, AuthTypeOK
<1> QED
  BY <1>1, QuietSound, OneMoves

-----------------------------------------------------------------------------

\* Accounts: deactivating one deletes its rows.
LEMMA DisableStep ==
  ASSUME AuthInv, NEW u \in DOMAIN users, Disable(u)
  PROVE  AuthInv'
<1>1. /\ users' \in Seq(Account) /\ Len(users') <= MaxUsers /\ DOMAIN users' = DOMAIN users
      /\ \A v \in DOMAIN users : v # u => users'[v] = users[v]
  BY AccountDisabled DEF Disable, AuthInv, AuthTypeOK
<1>2. /\ sessions' \in [Tokens -> SessionRow \cup {NoRow}]
      /\ \A t \in Tokens : sessions'[t] \in {sessions[t], NoRow} /\ sessions'[t].user # u
  <2>1. 0 \notin DOMAIN users /\ NoRow.user = 0
    BY DEF AuthInv, AuthTypeOK, NoRow
  <2> QED
    BY <2>1, RevokedTyped DEF Disable, AuthInv, Revoked
<1>3. TablesSound' /\ Frame
  BY <1>1, <1>2 DEF Disable, AuthInv, AuthTypeOK, TablesSound, RowsOwned, Frame
<1> QED
  BY <1>3, NoneMoves DEF Disable

\* A new password or an administrator's revocation deletes the rows of a user.
LEMMA RevokeAllStep ==
  ASSUME AuthInv, NEW u \in DOMAIN users, RevokeAll(u)
  PROVE  AuthInv'
<1>1. TablesSound' /\ Frame
  BY RevokedTyped, RowsDeleted DEF RevokeAll, Revoked, AuthInv, AuthTypeOK
<1> QED
  BY <1>1, NoneMoves DEF RevokeAll

\* The clock moves, and nothing is said of what it was.
LEMMA TickStep ==
  ASSUME AuthInv, Tick
  PROVE  AuthInv'
<1>1. TablesSound' /\ Frame
  BY AuthAssumption DEF Tick, AuthInv, AuthTypeOK, TablesSound, RowsOwned, Frame
<1> QED
  BY <1>1, NoneMoves DEF Tick

\* An account is added at the end, so no row changes its user.
LEMMA CreateInsertStep ==
  ASSUME AuthInv, NEW c \in Callers, CreateInsert(c)
  PROVE  AuthInv'
<1>1. TablesSound' /\ Frame
  <2>1. CASE Taken(caller[c].name)
    BY <2>1, TablesKept DEF CreateInsert
  <2>2. CASE ~Taken(caller[c].name)
    <3>1. [name |-> caller[c].name, active |-> TRUE] \in Account
      BY DEF AuthInv, AuthTypeOK, Call, Account
    <3>2. users' = Append(users, [name |-> caller[c].name, active |-> TRUE])
      BY <2>2 DEF CreateInsert
    <3>3. /\ users' \in Seq(Account) /\ Len(users') <= MaxUsers
          /\ DOMAIN users \subseteq DOMAIN users' /\ \A u \in DOMAIN users : users'[u] = users[u]
      BY <3>1, <3>2, AccountAdded, AuthAssumption DEF CreateInsert, AuthInv, AuthTypeOK
    <3> QED
      BY <3>3 DEF CreateInsert, AuthInv, AuthTypeOK, TablesSound, RowsOwned, Frame
  <2> QED
    BY <2>1, <2>2
<1> QED
  BY <1>1, ReturnSound DEF CreateInsert

-----------------------------------------------------------------------------

\* Logging in: the new row is under a token never drawn before.
LEMMA LoginOpenStep ==
  ASSUME AuthInv, NEW c \in Callers, LoginOpen(c)
  PROVE  AuthInv'
<1>1. PICK t \in Tokens \ opened :
        /\ sessions' = [sessions EXCEPT ![t] = [user |-> OwnerOf(caller[c].user),
                                                expires |-> clock + Lifetime]]
        /\ opened' = opened \cup {t}
  BY DEF LoginOpen
<1>2. caller[c].user \in DOMAIN users /\ DOMAIN users \subseteq 1..MaxUsers
  BY AuthAssumption DEF LoginOpen, AuthInv, LoginsKnown, AuthTypeOK
<1>3. clock + Lifetime \in 1..(MaxClock + Lifetime)
  BY AuthAssumption DEF AuthInv, AuthTypeOK
<1>4. [user |-> OwnerOf(caller[c].user), expires |-> clock + Lifetime] \in SessionRow
  BY <1>2, <1>3 DEF OwnerOf, SessionRow
<1>5. /\ sessions' \in [Tokens -> SessionRow \cup {NoRow}]
      /\ opened \subseteq opened' /\ opened' \in SUBSET Tokens
      /\ \A u \in opened : sessions'[u] = sessions[u]
  BY <1>1, <1>4 DEF AuthInv, AuthTypeOK
<1>6. RowsOwned'
  BY <1>1, <1>2 DEF OwnerOf, LoginOpen, AuthInv, AuthTypeOK, RowsOwned
<1>7. TablesSound' /\ Frame
  BY <1>5, <1>6 DEF LoginOpen, AuthInv, AuthTypeOK, TablesSound, Frame
<1> QED
  BY <1>7, ReturnSound DEF LoginOpen

\* Logging out, and the discarding of a session, delete a row.
LEMMA RowDeletedStep ==
  ASSUME AuthInv, NEW c \in Callers, LogoutDelete(c) \/ Discard(c)
  PROVE  AuthInv'
<1>1. TablesSound' /\ Frame
  BY RowsDeleted DEF LogoutDelete, Discard, AuthInv, AuthTypeOK
<1> QED
  BY <1>1, ReturnSound DEF LogoutDelete, Discard

\* A request that ends.
LEMMA FinishStep ==
  ASSUME AuthInv, NEW c \in Callers, Finish(c)
  PROVE  AuthInv'
  BY TablesKept, ReturnSound DEF Finish

\* The callers that set out.
LEMMA SetOutStep ==
  ASSUME AuthInv, NEW c \in Callers,
         \/ \E name \in Names : CreateLook(c, name)
         \/ \E u \in DOMAIN users : LoginCheck(c, u) \/ BasicCheck(c, u)
         \/ \E t \in Tokens : LogoutLook(c, t)
  PROVE  AuthInv'
<1>1. UNCHANGED <<users, sessions, opened, clock>>
  BY DEF CreateLook, LoginCheck, BasicCheck, LogoutLook
<1>2. TablesSound' /\ Frame
  BY <1>1, TablesKept
<1>3. PICK next \in Call :
        /\ caller' = [caller EXCEPT ![c] = next]
        /\ next.at \in {"create", "login", "basic", "logout"}
        /\ next.at = "login" => next.user \in DOMAIN users
        /\ next.at = "logout" => next.token \in Tokens
        /\ next.at = "basic" => next.token = NoToken
  <2>1. DOMAIN users \subseteq 0..MaxUsers
    BY AuthAssumption DEF AuthInv, AuthTypeOK
  <2>2. CASE \E name \in Names : CreateLook(c, name)
    <3>1. PICK name \in Names : CreateLook(c, name)
      BY <2>2
    <3>2. [Quiet EXCEPT !.at = "create", !.name = name] \in Call
      BY QuietTyped DEF Call
    <3> QED
      BY <3>1, <3>2, QuietTyped DEF CreateLook, Call
  <2>3. CASE \E u \in DOMAIN users : LoginCheck(c, u) \/ BasicCheck(c, u)
    <3>1. PICK u \in DOMAIN users : LoginCheck(c, u) \/ BasicCheck(c, u)
      BY <2>3
    <3>2. \A point \in {"login", "basic"} : [Quiet EXCEPT !.at = point, !.user = u] \in Call
      BY <2>1, QuietTyped DEF Call
    <3>3. Quiet.token = NoToken
      BY DEF Quiet
    <3>4. PICK point \in {"login", "basic"} :
            caller' = [caller EXCEPT ![c] = [Quiet EXCEPT !.at = point, !.user = u]]
      BY <3>1 DEF LoginCheck, BasicCheck
    <3>5. LET next == [Quiet EXCEPT !.at = point, !.user = u] IN
          next.at = point /\ next.user = u /\ next.token = NoToken
      BY <3>3, QuietTyped DEF Call
    <3> QED
      BY <3>2, <3>4, <3>5
  <2>4. CASE \E t \in Tokens : LogoutLook(c, t)
    <3>1. PICK t \in Tokens : LogoutLook(c, t)
      BY <2>4
    <3>2. [Quiet EXCEPT !.at = "logout", !.token = t] \in Call
      BY QuietTyped DEF Call
    <3> QED
      BY <3>1, <3>2, QuietTyped DEF LogoutLook, Call
  <2> QED
    BY <2>2, <2>3, <2>4
<1>4. /\ caller'[c] = next /\ caller' \in [Callers -> Call]
      /\ \A d \in Callers : d # c => caller'[d] = caller[d]
  BY <1>3 DEF AuthInv, AuthTypeOK
<1>5. CallerSound(c)'
  BY <1>1, <1>3, <1>4 DEF CallerSound, Checking, Waits
<1> QED
  BY <1>2, <1>4, <1>5, OneMoves

\* A request presents a token that has a row.
LEMMA LookStep ==
  ASSUME AuthInv, NEW c \in Callers, NEW t \in Tokens, Look(c, t)
  PROVE  AuthInv'
<1>1. TablesSound' /\ Frame
  BY TablesKept DEF Look
<1>2. sessions[t] \in SessionRow /\ t \in opened /\ sessions[t].user \in DOMAIN users
  BY DEF Look, AuthInv, AuthTypeOK, RowsOwned
<1>3. /\ sessions[t].user \in 0..MaxUsers
      /\ sessions[t].expires \in 0..(MaxClock + Lifetime)
      /\ clock \in 0..MaxClock /\ clock <= clock
  BY <1>2, AuthAssumption DEF SessionRow, AuthInv, AuthTypeOK
<1> DEFINE next == [Quiet EXCEPT !.at = "found", !.token = t, !.user = sessions[t].user,
                                 !.expires = sessions[t].expires, !.began = clock]
<1>4. /\ next \in Call /\ next.at = "found" /\ next.token = t
      /\ next.user = sessions[t].user /\ next.began = clock
  BY <1>3, QuietTyped DEF Call
<1>5. /\ caller'[c] = next /\ caller' \in [Callers -> Call]
      /\ \A d \in Callers : d # c => caller'[d] = caller[d]
  BY <1>4 DEF Look, AuthInv, AuthTypeOK
<1>6. CallerSound(c)'
  <2> HIDE DEF next
  <2> QED
    BY <1>2, <1>3, <1>4, <1>5 DEF Look, CallerSound, Checking, TokenHeld, Waits
<1> QED
  BY <1>1, <1>5, <1>6, OneMoves

\* The time has been compared, and the user read.
LEMMA JudgeStep ==
  ASSUME AuthInv, NEW c \in Callers, Judge(c)
  PROVE  AuthInv'
<1>1. TablesSound' /\ Frame
  BY TablesKept DEF Judge
<1>2. PICK point \in {"discard", "vouched"} :
        /\ caller' = [caller EXCEPT ![c].at = point]
        /\ point = "vouched" => ~Overdue(c) /\ users[caller[c].user].active
  BY DEF Judge
<1>3. caller[c] \in Call /\ TokenHeld(c) /\ caller[c].began <= clock
  BY DEF Judge, AuthInv, AuthTypeOK, ChecksSound, Checking, Waits
<1>4. /\ caller'[c] = [caller[c] EXCEPT !.at = point]
      /\ \A d \in Callers : d # c => caller'[d] = caller[d]
  BY <1>2 DEF AuthInv, AuthTypeOK
<1>5. /\ caller'[c] \in Call /\ caller'[c].at = point
      /\ caller'[c].user = caller[c].user /\ caller'[c].token = caller[c].token
      /\ caller'[c].expires = caller[c].expires /\ caller'[c].began = caller[c].began
  BY <1>3, <1>4 DEF Call
<1>6. caller' \in [Callers -> Call]
  BY <1>2, <1>4, <1>5 DEF AuthInv, AuthTypeOK
<1>7. point = "vouched" => caller[c].began < caller[c].expires
  <2>1. caller[c].began \in Int /\ caller[c].expires \in Int /\ clock \in Int
    BY <1>3, AuthAssumption DEF Call, AuthInv, AuthTypeOK
  <2> QED
    BY <1>2, <1>3, <2>1 DEF Overdue
<1>8. CallerSound(c)'
  <2>1. TokenHeld(c)'
    BY <1>3, <1>5 DEF TokenHeld, Judge
  <2>2. point = "vouched" => VouchedLive(c)'
    BY <1>2, <1>5, <1>7 DEF VouchedLive, Judge
  <2> QED
    BY <1>5, <2>1, <2>2 DEF CallerSound, Checking, Waits
<1> QED
  BY <1>1, <1>4, <1>6, <1>8, OneMoves

\* The UPDATE that lets the request in, or meets no row.
LEMMA AdmitStep ==
  ASSUME AuthInv, NEW c \in Callers, Admit(c)
  PROVE  AuthInv'
<1>1. TablesSound' /\ Frame
  BY TablesKept DEF Admit
<1>2. CASE Return(c)
  BY <1>1, <1>2, ReturnSound
<1>3. CASE caller' = [caller EXCEPT ![c].at = "admitted"]
  <2>1. /\ caller'[c] \in Call /\ caller'[c].at = "admitted"
        /\ caller' \in [Callers -> Call]
        /\ \A d \in Callers : d # c => caller'[d] = caller[d]
    BY <1>3, ZenonT(40) DEF AuthInv, AuthTypeOK, Call
  <2>2. CallerSound(c)'
    BY <2>1 DEF CallerSound, Checking, Waits
  <2> QED
    BY <1>1, <2>1, <2>2, OneMoves
<1> QED
  BY <1>2, <1>3 DEF Admit

\* The end of the verification of a password.
LEMMA BasicAdmitStep ==
  ASSUME AuthInv, NEW c \in Callers, BasicAdmit(c)
  PROVE  AuthInv'
<1>1. TablesSound' /\ Frame
  BY TablesKept DEF BasicAdmit
<1>2. /\ caller'[c] \in Call /\ caller'[c].at = "admitted"
      /\ caller' \in [Callers -> Call]
      /\ \A d \in Callers : d # c => caller'[d] = caller[d]
  BY ZenonT(40) DEF BasicAdmit, AuthInv, AuthTypeOK, Call
<1>3. CallerSound(c)'
  BY <1>2 DEF CallerSound, Checking, Waits
<1> QED
  BY <1>1, <1>2, <1>3, OneMoves

\* Every step preserves the invariant.
LEMMA AuthInvStep == AuthInv /\ [AuthNext]_authVars => AuthInv'
<1> SUFFICES ASSUME AuthInv, [AuthNext]_authVars PROVE AuthInv'
  OBVIOUS
<1>1. CASE UNCHANGED authVars
  <2>1. TablesSound' /\ Frame
    BY <1>1, TablesKept DEF authVars
  <2> QED
    BY <1>1, <2>1, NoneMoves DEF authVars
<1>2. CASE Tick
  BY <1>2, TickStep
<1>3. ASSUME NEW u \in DOMAIN users, Disable(u) \/ RevokeAll(u)
      PROVE  AuthInv'
  BY <1>3, DisableStep, RevokeAllStep
<1>4. ASSUME NEW c \in Callers,
             \/ \E name \in Names : CreateLook(c, name)
             \/ \E u \in DOMAIN users : LoginCheck(c, u) \/ BasicCheck(c, u)
             \/ \E t \in Tokens : LogoutLook(c, t) \/ Look(c, t)
             \/ CreateInsert(c) \/ LoginOpen(c) \/ LogoutDelete(c)
             \/ Judge(c) \/ Discard(c) \/ Admit(c) \/ BasicAdmit(c) \/ Finish(c)
      PROVE  AuthInv'
  BY <1>4, SetOutStep, LookStep, CreateInsertStep, LoginOpenStep, RowDeletedStep, JudgeStep,
     AdmitStep, BasicAdmitStep, FinishStep
<1> QED
  BY <1>1, <1>2, <1>3, <1>4 DEF AuthNext

\* The invariant holds of every reachable state.
THEOREM AuthInvariant == AuthSpec => []AuthInv
  BY AuthInvInit, AuthInvStep, PTL DEF AuthSpec

\* Type correctness: every variable keeps its type.
THEOREM AuthTypeCorrect == AuthSpec => []AuthTypeOK
<1>1. AuthInv => AuthTypeOK
  BY DEF AuthInv
<1> QED
  BY AuthInvariant, <1>1, PTL

\* A request is let in by its credentials or by the row of its session.
LEMMA WaysIn ==
  ASSUME AuthInv, AuthNext, NEW c \in Callers, LetIn(c)
  PROVE  BasicAdmit(c) \/ (Admit(c) /\ ~Return(c))
<1>1. caller' # caller /\ caller \in [Callers -> Call]
  BY DEF LetIn, AuthInv, AuthTypeOK
<1>2. PICK d \in Callers :
        \/ \E name \in Names : CreateLook(d, name)
        \/ \E u \in DOMAIN users : LoginCheck(d, u) \/ BasicCheck(d, u)
        \/ \E t \in Tokens : LogoutLook(d, t) \/ Look(d, t)
        \/ CreateInsert(d) \/ LoginOpen(d) \/ LogoutDelete(d)
        \/ Judge(d) \/ Discard(d) \/ Admit(d) \/ BasicAdmit(d) \/ Finish(d)
  BY <1>1 DEF AuthNext, Tick, Disable, RevokeAll
<1>3. \A e \in Callers : e # d => caller'[e] = caller[e]
  BY <1>1, <1>2 DEF CreateLook, LoginCheck, BasicCheck, LogoutLook, Look, CreateInsert,
     LoginOpen, LogoutDelete, Judge, Discard, Admit, BasicAdmit, Finish, Return
<1>4. d = c
  BY <1>3 DEF LetIn
<1>5. ~Return(c)
  BY <1>1 DEF LetIn, Return, Quiet
<1>6. ~\E name \in Names : CreateLook(c, name)
  BY <1>1 DEF LetIn, CreateLook, Quiet
<1>7. ~\E u \in DOMAIN users : LoginCheck(c, u) \/ BasicCheck(c, u)
  <2> SUFFICES ASSUME NEW u \in DOMAIN users, LoginCheck(c, u) \/ BasicCheck(c, u)
               PROVE FALSE
    OBVIOUS
  <2>1. \E point \in {"login", "basic"} :
          caller'[c] = [Quiet EXCEPT !.at = point, !.user = u]
    BY <1>1 DEF LoginCheck, BasicCheck
  <2> QED
    BY <2>1 DEF LetIn, Quiet
<1>8. ~\E t \in Tokens : LogoutLook(c, t) \/ Look(c, t)
  BY <1>1 DEF LetIn, LogoutLook, Look, Quiet
<1>9. ~Judge(c)
  <2> SUFFICES ASSUME Judge(c) PROVE FALSE
    OBVIOUS
  <2>1. PICK point \in {"discard", "vouched"} : caller' = [caller EXCEPT ![c].at = point]
    BY DEF Judge
  <2> QED
    BY <1>1, <2>1 DEF LetIn, Call
<1> QED
  BY <1>2, <1>4, <1>5, <1>6, <1>7, <1>8, <1>9
     DEF CreateInsert, LoginOpen, LogoutDelete, Discard, Finish

\* Whatever is committed while a session is being checked, at the moment its
\* request is let in the user is active, the session exists, and had not
\* expired when the request came.
THEOREM Admitted == AuthSpec => AdmittedIsLive
<1> DEFINE Live(c) ==
      /\ users[caller'[c].user].active
      /\ sessions[caller'[c].token] # NoRow
      /\ caller[c].began < caller[c].expires
<1>1. ASSUME AuthInv, AuthNext, NEW c \in Callers, LetIn(c), caller'[c].token # NoToken
      PROVE  Live(c)
  <2>1. CASE BasicAdmit(c)
    <3>1. caller'[c].token = caller[c].token
      BY <2>1 DEF BasicAdmit, AuthInv, AuthTypeOK, Call
    <3>2. caller[c].token = NoToken
      BY <1>1, <2>1 DEF BasicAdmit, AuthInv, BasicsBare
    <3> QED
      BY <1>1, <3>1, <3>2
  <2>2. CASE Admit(c) /\ ~Return(c)
    <3>1. sessions[caller[c].token] # NoRow /\ caller' = [caller EXCEPT ![c].at = "admitted"]
      BY <2>2 DEF Admit
    <3>2. caller'[c].user = caller[c].user /\ caller'[c].token = caller[c].token
      BY <3>1 DEF AuthInv, AuthTypeOK, Call
    <3>3. VouchedLive(c)
      BY <1>1, <2>2 DEF Admit, AuthInv, ChecksSound
    <3> QED
      BY <3>1, <3>2, <3>3 DEF VouchedLive
  <2> QED
    BY <1>1, <2>1, <2>2, WaysIn
<1>2. AuthInv /\ [AuthNext]_authVars =>
        [\A c \in Callers : LetIn(c) /\ caller'[c].token # NoToken => Live(c)]_authVars
  BY <1>1
<1> QED
  BY AuthInvariant, <1>2, PTL DEF AuthSpec, AdmittedIsLive

\* A row that has gone stays gone, whatever requests with its token are
\* under way: none of their steps writes it, and a login draws a new token.
THEOREM Dead == AuthSpec => RevokedStaysDead
<1> DEFINE Stays == \A t \in opened : sessions[t] = NoRow => sessions'[t] = NoRow
<1>1. ASSUME AuthInv, AuthNext
      PROVE  Stays
  <2>1. CASE UNCHANGED sessions
    BY <2>1
  <2>2. ASSUME NEW u \in DOMAIN users, sessions' = Revoked(u)
        PROVE  Stays
    BY <1>1, <2>2 DEF Revoked, AuthInv, AuthTypeOK
  <2>3. ASSUME NEW c \in Callers, LogoutDelete(c) \/ Discard(c)
        PROVE  Stays
    BY <1>1, <2>3 DEF LogoutDelete, Discard, AuthInv, AuthTypeOK
  <2>4. ASSUME NEW c \in Callers, LoginOpen(c)
        PROVE  Stays
    BY <1>1, <2>4 DEF LoginOpen, AuthInv, AuthTypeOK
  <2> QED
    BY <1>1, <2>1, <2>2, <2>3, <2>4
       DEF AuthNext, Tick, Disable, RevokeAll, CreateLook, CreateInsert, LoginCheck,
           BasicCheck, LogoutLook, Look, Judge, Admit, BasicAdmit, Finish
<1>2. AuthInv /\ [AuthNext]_authVars => [Stays]_authVars
  BY <1>1
<1> QED
  BY AuthInvariant, <1>2, PTL DEF AuthSpec, RevokedStaysDead

-----------------------------------------------------------------------------
(* The reader's cache.                                                     *)

\* Version v of the file at b has been there: it is gone, or it is still
\* there, or a later one is.
Past(b, v) == disk[b] = 0 \/ v <= disk[b]

\* Parsed from version "shape" after the file was found to be "known".
Sound(b, known, shape) == 1 <= known /\ known <= shape /\ shape <= latest /\ Past(b, shape)

SoundEntry == {e \in Entry : Sound(e.book, e.key, e.shape)}

DiskKnown == \A b \in Books : disk[b] <= latest

CacheSound == cache \in Seq(SoundEntry)

\* Where a request has a key, and where it has a structure.
Keyed(t) == thread[t].at \in {"get", "touch", "parse", "store", "trim", "pop", "open", "read"}
Shaped(t) == thread[t].at \in {"touch", "store", "trim", "pop", "open", "read"}

ThreadSound(t) ==
  /\ ~Waiting(t, "rest") => thread[t].book \in Books
  /\ Keyed(t) =>
       /\ 1 <= thread[t].key /\ thread[t].key <= latest
       /\ Past(thread[t].book, thread[t].key)
       /\ thread[t].steady => disk[thread[t].book] = thread[t].key
  /\ Shaped(t) => Sound(thread[t].book, thread[t].key, thread[t].shape)

ThreadsSound == \A t \in Readers : ThreadSound(t)

ReaderInv == ReaderTypeOK /\ DiskKnown /\ CacheSound /\ ThreadsSound

-----------------------------------------------------------------------------

\* A request at rest is a request.
LEMMA RestTyped == Rest \in Request
  BY ReaderAssumption DEF Rest, Request, Version

\* Where the file is the one that was looked for, and was parsed later, that
\* is what was parsed.
LEMMA SteadyShape ==
  ASSUME ReaderInv, NEW t \in Readers, Shaped(t), thread[t].steady
  PROVE  thread[t].shape = disk[thread[t].book]
<1>1. /\ thread[t] \in Request /\ thread[t].book \in Books
      /\ Sound(thread[t].book, thread[t].key, thread[t].shape)
      /\ disk[thread[t].book] = thread[t].key
  BY DEF ReaderInv, ReaderTypeOK, ThreadsSound, ThreadSound, Keyed, Shaped, Waiting
<1>2. thread[t].shape \in Int /\ thread[t].key \in Int /\ latest \in Int
  BY <1>1, ReaderAssumption DEF Request, Version, ReaderInv, ReaderTypeOK
<1> QED
  BY <1>1, <1>2 DEF Sound, Past

\* The invariant gives the property.
LEMMA InvServes == ReaderInv => ServedConsistent
  BY SteadyShape DEF ServedConsistent, Shaped, Waiting

\* It holds of an empty cache.
LEMMA ReaderInvInit == ReaderInit => ReaderInv
<1> SUFFICES ASSUME ReaderInit PROVE ReaderInv
  OBVIOUS
<1>1. ReaderTypeOK
  BY RestTyped, EmptySeq, ReaderAssumption DEF ReaderInit, ReaderTypeOK, Version
<1>2. CacheSound
  BY EmptySeq DEF ReaderInit, CacheSound
<1>3. DiskKnown
  BY DEF ReaderInit, DiskKnown
<1>4. ThreadsSound
  BY DEF ReaderInit, ThreadsSound, ThreadSound, Waiting, Keyed, Shaped, Rest
<1> QED
  BY <1>1, <1>2, <1>3, <1>4 DEF ReaderInv

-----------------------------------------------------------------------------

\* What is sound stays sound when a file is put in place or taken away.
LEMMA PlaceKeeps ==
  ASSUME ReaderInv, NEW b \in Books, NEW v \in {0, latest + 1}, Place(b, v),
         NEW c \in Books, NEW known \in Version, NEW shape \in Version, Sound(c, known, shape)
  PROVE  Sound(c, known, shape)'
<1>1. latest' = latest + 1 /\ latest \in Int /\ known \in Int /\ shape \in Int
  BY ReaderAssumption DEF Place, Version, ReaderInv, ReaderTypeOK
<1>2. disk'[c] = IF c = b THEN v ELSE disk[c]
  BY DEF Place, ReaderInv, ReaderTypeOK
<1> QED
  BY <1>1, <1>2 DEF Sound, Past

\* A replaced file leaves behind only what is past.
LEMMA PlaceStep ==
  ASSUME ReaderInv, NEW b \in Books, NEW v \in {0, latest + 1}, Place(b, v)
  PROVE  ReaderInv'
<1>1. /\ latest' = latest + 1 /\ latest \in Nat /\ latest' \in Version /\ v \in Version
      /\ disk' \in [Books -> Version]
      /\ \A c \in Books : disk'[c] = IF c = b THEN v ELSE disk[c]
  BY ReaderAssumption DEF Place, Version, ReaderInv, ReaderTypeOK
<1>2. DiskKnown'
  <2> SUFFICES ASSUME NEW c \in Books PROVE disk'[c] <= latest'
    BY DEF DiskKnown
  <2>1. disk[c] \in Int /\ disk[c] <= latest /\ latest \in Int
    BY ReaderAssumption DEF DiskKnown, ReaderInv, ReaderTypeOK, Version
  <2> QED
    BY <1>1, <2>1
<1>3. /\ thread' \in [Readers -> Request]
      /\ \A t \in Readers :
           thread'[t] = IF thread[t].book = b THEN [thread[t] EXCEPT !.steady = FALSE] ELSE thread[t]
  <2>1. \A t \in Readers : thread[t] \in Request /\ [thread[t] EXCEPT !.steady = FALSE] \in Request
    BY DEF ReaderInv, ReaderTypeOK, Request
  <2> QED
    BY <2>1 DEF Place
<1>4. ReaderTypeOK'
  BY <1>1, <1>3 DEF ReaderInv, ReaderTypeOK, Place
<1>5. CacheSound'
  <2>1. SoundEntry \subseteq SoundEntry'
    BY PlaceKeeps DEF SoundEntry, Entry
  <2>2. cache \in Seq(SoundEntry')
    BY <2>1 DEF ReaderInv, CacheSound
  <2> QED
    BY <2>2 DEF CacheSound, Place
<1>6. ASSUME NEW t \in Readers PROVE ThreadSound(t)'
  <2>1. thread[t] \in Request /\ ThreadSound(t)
    BY DEF ReaderInv, ReaderTypeOK, ThreadsSound
  <2>2. /\ thread'[t].at = thread[t].at /\ thread'[t].book = thread[t].book
        /\ thread'[t].key = thread[t].key /\ thread'[t].shape = thread[t].shape
        /\ thread'[t].steady => thread[t].steady /\ thread[t].book # b
    BY <1>3, <2>1 DEF Request
  <2>3. thread[t].key \in Int
    BY <2>1, ReaderAssumption DEF Request, Version
  <2>4. Keyed(t) => /\ 1 <= thread[t].key /\ thread[t].key <= latest'
                    /\ Past(thread[t].book, thread[t].key)'
                    /\ thread'[t].steady => disk'[thread[t].book] = thread[t].key
    BY <1>1, <2>1, <2>2, <2>3 DEF ThreadSound, Keyed, Waiting, Past
  <2>5. ASSUME Shaped(t)
        PROVE  Sound(thread[t].book, thread[t].key, thread[t].shape)'
    <3>1. /\ thread[t].book \in Books /\ thread[t].key \in Version /\ thread[t].shape \in Version
          /\ Sound(thread[t].book, thread[t].key, thread[t].shape)
      BY <2>1, <2>5 DEF ThreadSound, Shaped, Waiting, Request
    <3>2. \A c \in Books, known \in Version, shape \in Version :
            Sound(c, known, shape) => Sound(c, known, shape)'
      BY PlaceKeeps
    <3> QED
      BY <2>2, <3>1, <3>2 DEF Sound, Past
  <2> QED
    BY <2>1, <2>2, <2>4, <2>5 DEF ThreadSound, Keyed, Shaped, Waiting, Past, Sound
<1> QED
  BY <1>2, <1>4, <1>5, <1>6 DEF ReaderInv, ThreadsSound

-----------------------------------------------------------------------------

\* A step of one request preserves the invariant if it leaves the cache and
\* that request sound.
LEMMA OneRequest ==
  ASSUME ReaderInv, UNCHANGED <<disk, latest>>, CacheSound',
         NEW t \in Readers, NEW local \in Request, Go(t, local), ThreadSound(t)'
  PROVE  ReaderInv'
<1>1. thread' \in [Readers -> Request] /\ \A u \in Readers : u # t => thread'[u] = thread[u]
  BY DEF Go, ReaderInv, ReaderTypeOK
<1>2. cache' \in Seq(Entry)
  <2>1. SoundEntry' \subseteq Entry
    BY DEF SoundEntry, Entry
  <2> QED
    BY <2>1 DEF CacheSound
<1>3. \A u \in Readers : ThreadSound(u)'
  BY <1>1 DEF ReaderInv, ThreadsSound, ThreadSound, Keyed, Shaped, Waiting, Past, Sound
<1> QED
  BY <1>1, <1>2, <1>3 DEF ReaderInv, ReaderTypeOK, DiskKnown, ThreadsSound

\* While the files stay, what is sound stays sound.
LEMMA CacheKept ==
  ASSUME ReaderInv, UNCHANGED <<disk, latest, cache>>
  PROVE  CacheSound'
  BY DEF ReaderInv, CacheSound, SoundEntry, Sound, Past, Entry

\* A request that ends has nothing in hand of which anything is claimed.
LEMMA ReplySound ==
  ASSUME ReaderInv, UNCHANGED <<disk, latest>>, CacheSound', NEW t \in Readers, Reply(t)
  PROVE  ReaderInv'
<1>1. thread'[t] = Rest
  BY DEF Reply, Go, ReaderInv, ReaderTypeOK
<1>2. ThreadSound(t)'
  BY <1>1 DEF ThreadSound, Waiting, Keyed, Shaped, Rest
<1> QED
  BY <1>2, RestTyped, OneRequest DEF Reply

\* A request that only goes on, from a point where it had a structure.
LEMMA GoesOn ==
  ASSUME ReaderInv, UNCHANGED <<disk, latest>>, CacheSound', NEW t \in Readers,
         NEW point \in {"trim", "pop", "open", "read"}, Shaped(t), On(t, point)
  PROVE  ReaderInv'
<1>1. thread[t] \in Request /\ ThreadSound(t)
  BY DEF ReaderInv, ReaderTypeOK, ThreadsSound
<1> DEFINE local == [thread[t] EXCEPT !.at = point]
<1>2. /\ local \in Request /\ local.at = point /\ local.book = thread[t].book
      /\ local.key = thread[t].key /\ local.shape = thread[t].shape
      /\ local.steady = thread[t].steady
  BY <1>1 DEF Request
<1>3. thread'[t] = local /\ Go(t, local)
  BY DEF On, Go, ReaderInv, ReaderTypeOK
<1> HIDE DEF local
<1>4. ThreadSound(t)'
  BY <1>1, <1>2, <1>3 DEF ThreadSound, Waiting, Keyed, Shaped, Past, Sound
<1> QED
  BY <1>2, <1>3, <1>4, OneRequest

\* The request comes in,
LEMMA OpenStep ==
  ASSUME ReaderInv, NEW t \in Readers, NEW b \in Books, NEW page \in BOOLEAN, Open(t, b, page)
  PROVE  ReaderInv'
<1> DEFINE local == [Rest EXCEPT !.at = "stat", !.book = b, !.page = page]
<1>1. local \in Request /\ local.at = "stat" /\ local.book = b
  BY RestTyped DEF Request
<1>2. thread'[t] = local /\ Go(t, local)
  BY DEF Open, Go, ReaderInv, ReaderTypeOK
<1> HIDE DEF local
<1>3. ThreadSound(t)'
  BY <1>1, <1>2 DEF ThreadSound, Waiting, Keyed, Shaped
<1> QED
  BY <1>1, <1>2, <1>3, CacheKept, OneRequest DEF Open

\* finds which version there is,
LEMMA StatStep ==
  ASSUME ReaderInv, NEW t \in Readers, Stat(t)
  PROVE  ReaderInv'
<1>1. CASE disk[thread[t].book] = 0
  BY <1>1, CacheKept, ReplySound DEF Stat
<1>2. CASE disk[thread[t].book] # 0
  <2> DEFINE local == [thread[t] EXCEPT !.at = "get", !.key = KeyOf(thread[t].book)]
  <2>1. thread[t] \in Request /\ thread[t].book \in Books
    BY DEF Stat, ReaderInv, ReaderTypeOK, ThreadsSound, ThreadSound, Waiting
  <2>2. /\ disk[thread[t].book] \in Version
        /\ 1 <= disk[thread[t].book] /\ disk[thread[t].book] <= latest
    BY <1>2, <2>1, ReaderAssumption DEF ReaderInv, ReaderTypeOK, DiskKnown, Version
  <2>3. /\ local \in Request /\ local.at = "get" /\ local.book = thread[t].book
        /\ local.key = disk[thread[t].book]
    BY <2>1, <2>2 DEF KeyOf, Request
  <2>4. thread'[t] = local /\ Go(t, local)
    BY <1>2 DEF Stat, Go, ReaderInv, ReaderTypeOK
  <2> HIDE DEF local
  <2>5. disk[thread[t].book] <= disk[thread[t].book]
    BY <2>2, ReaderAssumption DEF Version
  <2>6. ThreadSound(t)'
    BY <2>1, <2>2, <2>3, <2>4, <2>5 DEF Stat, ThreadSound, Waiting, Keyed, Shaped, Past
  <2> QED
    BY <2>3, <2>4, <2>6, CacheKept, OneRequest DEF Stat
<1> QED
  BY <1>1, <1>2

\* takes the structure from the cache,
LEMMA GetStep ==
  ASSUME ReaderInv, NEW t \in Readers, Get(t)
  PROVE  ReaderInv'
<1>1. thread[t] \in Request /\ ThreadSound(t)
  BY DEF ReaderInv, ReaderTypeOK, ThreadsSound
<1>2. CASE On(t, "parse")
  <2> DEFINE local == [thread[t] EXCEPT !.at = "parse"]
  <2>1. /\ local \in Request /\ local.at = "parse" /\ local.book = thread[t].book
        /\ local.key = thread[t].key /\ local.steady = thread[t].steady
    BY <1>1 DEF Request
  <2>2. thread'[t] = local /\ Go(t, local)
    BY <1>2 DEF On, Go, ReaderInv, ReaderTypeOK
  <2> HIDE DEF local
  <2>3. ThreadSound(t)'
    BY <1>1, <2>1, <2>2 DEF Get, ThreadSound, Waiting, Keyed, Shaped, Past
  <2> QED
    BY <2>1, <2>2, <2>3, CacheKept, OneRequest DEF Get
<1>3. ASSUME NEW i \in DOMAIN cache, Holds(i, thread[t].book, thread[t].key),
             Go(t, [thread[t] EXCEPT !.at = "touch", !.shape = cache[i].shape])
      PROVE  ReaderInv'
  <2> DEFINE local == [thread[t] EXCEPT !.at = "touch", !.shape = cache[i].shape]
  <2>1. cache[i] \in SoundEntry
    BY DEF ReaderInv, CacheSound
  <2>2. /\ cache[i].shape \in Version
        /\ Sound(thread[t].book, thread[t].key, cache[i].shape)
    BY <1>3, <2>1 DEF SoundEntry, Entry, Holds
  <2>3. /\ local \in Request /\ local.at = "touch" /\ local.book = thread[t].book
        /\ local.key = thread[t].key /\ local.steady = thread[t].steady
        /\ local.shape = cache[i].shape
    BY <1>1, <2>2 DEF Request
  <2>4. thread'[t] = local /\ Go(t, local)
    BY <1>3 DEF Go, ReaderInv, ReaderTypeOK
  <2> HIDE DEF local
  <2>5. ThreadSound(t)'
    BY <1>1, <2>2, <2>3, <2>4 DEF Get, ThreadSound, Waiting, Keyed, Shaped, Past, Sound
  <2> QED
    BY <2>3, <2>4, <2>5, CacheKept, OneRequest DEF Get
<1> QED
  BY <1>2, <1>3 DEF Get

\* An entry made the youngest leaves the same entries.
LEMMA EntryMoved ==
  ASSUME NEW S, NEW s \in Seq(S), NEW i \in DOMAIN s
  PROVE  Append(RemoveAt(s, i), s[i]) \in Seq(S)
<1>1. i \in 1..Len(s) /\ Len(s) \in Nat /\ s[i] \in S
  OBVIOUS
<1>2. SubSeq(s, 1, i - 1) \in Seq(S)
  BY <1>1, SubSeqProperties
<1>3. SubSeq(s, i + 1, Len(s)) \in Seq(S)
  BY <1>1, SubSeqProperties
<1>4. RemoveAt(s, i) \in Seq(S)
  BY <1>2, <1>3, ConcatProperties DEF RemoveAt
<1> QED
  BY <1>1, <1>4, AppendProperties

\* makes its entry the youngest,
LEMMA TouchStep ==
  ASSUME ReaderInv, NEW t \in Readers, Touch(t)
  PROVE  ReaderInv'
<1>1. SoundEntry' = SoundEntry
  BY DEF Touch, SoundEntry, Sound, Past, Entry
<1>2. CASE Cached(thread[t].book, thread[t].key)
  <2>1. PICK i \in DOMAIN cache :
          /\ cache' = Append(RemoveAt(cache, i), cache[i])
          /\ On(t, IF thread[t].fresh THEN "trim" ELSE "open")
    BY <1>2 DEF Touch
  <2>2. cache' \in Seq(SoundEntry)
    BY <2>1, EntryMoved DEF ReaderInv, CacheSound
  <2>3. CacheSound'
    BY <1>1, <2>2 DEF CacheSound
  <2>4. Shaped(t)
    BY DEF Touch, Waiting, Shaped
  <2>5. PICK point \in {"trim", "open"} : On(t, point)
    BY <2>1
  <2> QED
    BY <2>3, <2>4, <2>5, GoesOn DEF Touch
<1>3. CASE ~Cached(thread[t].book, thread[t].key)
  BY <1>3, CacheKept, ReplySound DEF Touch
<1> QED
  BY <1>2, <1>3

\* or parses what lies there by now: a file once gone comes back as a later
\* version, so what is parsed is no older than what was found,
LEMMA ParseStep ==
  ASSUME ReaderInv, NEW t \in Readers, Parse(t)
  PROVE  ReaderInv'
<1> DEFINE v == disk[thread[t].book]
<1>1. thread[t] \in Request /\ ThreadSound(t) /\ thread[t].book \in Books
  BY DEF Parse, ReaderInv, ReaderTypeOK, ThreadsSound, ThreadSound, Waiting
<1>2. CASE v \in {0} \cup Unsound
  BY <1>2, CacheKept, ReplySound DEF Parse
<1>3. CASE v \notin {0} \cup Unsound
  <2> DEFINE local == [thread[t] EXCEPT !.at = "store", !.shape = v]
  <2>1. v \in Version /\ v # 0 /\ v <= latest
    BY <1>1, <1>3 DEF ReaderInv, ReaderTypeOK, DiskKnown
  <2>2. /\ local \in Request /\ local.at = "store" /\ local.book = thread[t].book
        /\ local.key = thread[t].key /\ local.steady = thread[t].steady
        /\ local.shape = v
    BY <1>1, <2>1 DEF Request
  <2>3. thread'[t] = local /\ Go(t, local)
    BY <1>3 DEF Parse, Go, ReaderInv, ReaderTypeOK
  <2>4. 1 <= thread[t].key /\ thread[t].key <= v /\ v <= v
    BY <1>1, <2>1, ReaderAssumption DEF Parse, ThreadSound, Keyed, Waiting, Past, Version, Request
  <2>5. Sound(thread[t].book, thread[t].key, v)
    BY <2>1, <2>4 DEF Sound, Past
  <2> HIDE DEF local
  <2>6. ThreadSound(t)'
    BY <1>1, <2>2, <2>3, <2>5 DEF Parse, ThreadSound, Waiting, Keyed, Shaped, Past, Sound
  <2> QED
    BY <2>2, <2>3, <2>6, CacheKept, OneRequest DEF Parse
<1> QED
  BY <1>2, <1>3

\* and stores it,
LEMMA StoreStep ==
  ASSUME ReaderInv, NEW t \in Readers, Store(t)
  PROVE  ReaderInv'
<1>1. thread[t] \in Request /\ ThreadSound(t) /\ thread[t].book \in Books
  BY DEF Store, ReaderInv, ReaderTypeOK, ThreadsSound, ThreadSound, Waiting
<1>2. SoundEntry' = SoundEntry
  BY DEF Store, SoundEntry, Sound, Past, Entry
<1> DEFINE mine == [book |-> thread[t].book, key |-> thread[t].key, shape |-> thread[t].shape]
<1>3. mine \in SoundEntry
  BY <1>1 DEF Store, ThreadSound, Waiting, Shaped, SoundEntry, Entry, Request
<1>4. cache \in Seq(SoundEntry)
  BY DEF ReaderInv, CacheSound
<1>5. cache' = IF Cached(mine.book, mine.key)
               THEN [i \in DOMAIN cache |-> IF Holds(i, mine.book, mine.key) THEN mine ELSE cache[i]]
               ELSE Append(cache, mine)
  BY DEF Store
<1> HIDE DEF mine
<1>6. CacheSound'
  <2>1. CASE Cached(mine.book, mine.key)
    <3>1. cache' = [i \in 1..Len(cache) |-> IF Holds(i, mine.book, mine.key) THEN mine ELSE cache[i]]
      BY <1>4, <1>5, <2>1
    <3>2. \A i \in 1..Len(cache) :
            (IF Holds(i, mine.book, mine.key) THEN mine ELSE cache[i]) \in SoundEntry
      BY <1>3, <1>4
    <3>3. cache' \in [1..Len(cache) -> SoundEntry] /\ Len(cache) \in Nat
      BY <1>4, <3>1, <3>2
    <3> QED
      BY <1>2, <3>3, SeqDef DEF CacheSound
  <2>2. CASE ~Cached(mine.book, mine.key)
    BY <1>2, <1>3, <1>4, <1>5, <2>2, AppendProperties DEF CacheSound
  <2> QED
    BY <2>1, <2>2
<1> DEFINE local == [thread[t] EXCEPT !.at = "touch", !.fresh = TRUE]
<1>7. /\ local \in Request /\ local.at = "touch" /\ local.book = thread[t].book
      /\ local.key = thread[t].key /\ local.steady = thread[t].steady
      /\ local.shape = thread[t].shape
  BY <1>1 DEF Request
<1>8. thread'[t] = local /\ Go(t, local)
  BY DEF Store, Go, ReaderInv, ReaderTypeOK
<1> HIDE DEF local
<1>9. ThreadSound(t)'
  BY <1>1, <1>7, <1>8 DEF Store, ThreadSound, Waiting, Keyed, Shaped, Past, Sound
<1> QED
  BY <1>6, <1>7, <1>8, <1>9, OneRequest DEF Store

\* finds too many entries,
LEMMA TrimStep ==
  ASSUME ReaderInv, NEW t \in Readers, Trim(t)
  PROVE  ReaderInv'
<1>1. PICK point \in {"pop", "open"} : On(t, point)
  BY DEF Trim
<1>2. Shaped(t)
  BY DEF Trim, Waiting, Shaped
<1> QED
  BY <1>1, <1>2, CacheKept, GoesOn DEF Trim

\* drops the oldest,
LEMMA PopStep ==
  ASSUME ReaderInv, NEW t \in Readers, Pop(t)
  PROVE  ReaderInv'
<1>1. CASE cache = <<>>
  BY <1>1, CacheKept, ReplySound DEF Pop
<1>2. CASE cache # <<>>
  <2>1. SoundEntry' = SoundEntry
    BY DEF Pop, SoundEntry, Sound, Past, Entry
  <2>2. cache' = Tail(cache) /\ On(t, "trim")
    BY <1>2 DEF Pop
  <2>3. cache' \in Seq(SoundEntry)
    BY <1>2, <2>2, HeadTailProperties DEF ReaderInv, CacheSound
  <2>4. CacheSound'
    BY <2>1, <2>3 DEF CacheSound
  <2> QED
    BY <2>2, <2>4, GoesOn DEF Pop, Waiting, Shaped
<1> QED
  BY <1>1, <1>2

\* and answers.
LEMMA ServeStep ==
  ASSUME ReaderInv, NEW t \in Readers, Serve(t)
  PROVE  ReaderInv'
<1>1. Reply(t) \/ On(t, "read")
  BY DEF Serve
<1>2. Shaped(t)
  BY DEF Serve, Waiting, Shaped
<1> QED
  BY <1>1, <1>2, CacheKept, ReplySound, GoesOn DEF Serve

\* The chapter read, the request ends.
LEMMA ReadStep ==
  ASSUME ReaderInv, NEW t \in Readers, Read(t)
  PROVE  ReaderInv'
  BY CacheKept, ReplySound DEF Read

-----------------------------------------------------------------------------

\* Every step keeps the invariant.
LEMMA ReaderInvStep == ReaderInv /\ [ReaderNext]_readerVars => ReaderInv'
<1> SUFFICES ASSUME ReaderInv, [ReaderNext]_readerVars PROVE ReaderInv'
  OBVIOUS
<1>1. CASE UNCHANGED readerVars
  BY <1>1 DEF readerVars, ReaderInv, ReaderTypeOK, DiskKnown, CacheSound, SoundEntry, ThreadsSound,
     ThreadSound, Keyed, Shaped, Waiting, Sound, Past
<1>2. ASSUME NEW b \in Books, Place(b, latest + 1) \/ Place(b, 0) PROVE ReaderInv'
  BY <1>2, PlaceStep
<1>3. ASSUME NEW t \in Readers, NEW b \in Books, NEW page \in BOOLEAN, Open(t, b, page)
      PROVE  ReaderInv'
  BY <1>3, OpenStep
<1>4. ASSUME NEW t \in Readers,
             \/ Stat(t) \/ Get(t) \/ Touch(t) \/ Parse(t) \/ Store(t) \/ Trim(t) \/ Pop(t)
             \/ Serve(t) \/ Read(t)
      PROVE  ReaderInv'
  BY <1>4, StatStep, GetStep, TouchStep, ParseStep, StoreStep, TrimStep, PopStep, ServeStep, ReadStep
<1> QED
  BY <1>1, <1>2, <1>3, <1>4 DEF ReaderNext

\* Every structure in the cache was parsed from the version it is cached for
\* or from a later one, and a request keeps that until it is answered.
THEOREM ReaderInvariant == ReaderSpec => []ReaderInv
  BY ReaderInvInit, ReaderInvStep, PTL DEF ReaderSpec

\* The state of the reader's cache has its type.
THEOREM ReaderTypeCorrect == ReaderSpec => []ReaderTypeOK
<1>1. ReaderInv => ReaderTypeOK
  BY DEF ReaderInv
<1> QED
  BY <1>1, ReaderInvariant, PTL

\* A chapter of a file that stays in place during the request is looked up in
\* the structure of that very file, however many requests share the cache.
THEOREM Served == ReaderSpec => []ServedConsistent
  BY InvServes, ReaderInvariant, PTL

-----------------------------------------------------------------------------
(* A reading session.                                                      *)

\* While the page is open the script and the frame are at chapters.
SessionInv ==
  /\ SessionTypeOK
  /\ reading => {current, shown} \subseteq DOMAIN Order(package)

\* A book's reading order is of members, and of none if no book is at hand.
LEMMA OrderTyped ==
  /\ \A p \in Packages \cup {NoPackage} : Order(p) \in Seq(Members)
  /\ Order(NoPackage) = <<>>
<1>1. ASSUME NEW p \in Packages \cup {NoPackage} PROVE Order(p) \in Seq(Members)
  <2> DEFINE s == [k \in DOMAIN p.spine |-> p.manifest[p.spine[k]]]
  <2>1. p.spine \in Seq(Ids) /\ p.manifest \in [Ids -> Members \cup {Nowhere}]
    <3>1. CASE p \in Packages
      BY <3>1, PackageAssumption
    <3>2. CASE p = NoPackage
      <4>1. <<>> \in Seq(Ids)
        OBVIOUS
      <4> QED
        BY <3>2, <4>1 DEF NoPackage
    <3> QED
      BY <3>1, <3>2
  <2>2. s \in Seq(Members \cup {Nowhere})
    BY <2>1
  <2>3. Kept(s, Members) \in Seq((Members \cup {Nowhere}) \cap Members)
    BY <2>2, KeptElements
  <2>4. (Members \cup {Nowhere}) \cap Members = Members
    OBVIOUS
  <2> QED
    BY <2>3, <2>4 DEF Order
<1>2. Order(NoPackage) = <<>>
  <2> DEFINE s == [k \in DOMAIN NoPackage.spine |-> NoPackage.manifest[NoPackage.spine[k]]]
  <2>1. s = <<>>
    BY DEF NoPackage
  <2>2. <<>> \in Seq(Members)
    OBVIOUS
  <2>3. /\ Kept(<<>>, Members) \in Seq(Members)
        /\ \E at : KeptAt(<<>>, 0, Members, Kept(<<>>, Members), at)
    <3>1. Len(<<>>) = 0
      OBVIOUS
    <3> HIDE DEF s
    <3> QED
      BY <2>2, <3>1, KeptPositions
  <2>4. Len(Kept(<<>>, Members)) = 0
    BY <2>3 DEF KeptAt
  <2> QED
    BY <2>1, <2>3, <2>4 DEF Order
<1> QED
  BY <1>1, <1>2

\* A member that is in the reading order has a first and a last place.
LEMMA PlacesOf ==
  ASSUME NEW p \in Packages \cup {NoPackage}, NEW m, Places(p, m) # {}
  PROVE  /\ FirstPlace(p, m) \in Places(p, m)
         /\ LastPlace(p, m) \in Places(p, m)
<1> DEFINE n == Len(Order(p))
           S == Places(p, m)
<1>1. n \in Nat /\ S \subseteq 1 .. n
  BY OrderTyped DEF Places
<1>2. PICK f \in S : \A j \in S : f <= j
  BY <1>1, LeastNatural
<1>3. PICK k \in S : \A j \in S : j <= k
  <2>1. S \subseteq 0 .. n
    BY <1>1
  <2> QED
    BY <1>1, <2>1, GreatestNatural
<1> QED
  BY <1>2, <1>3 DEF FirstPlace, LastPlace

\* A place of a member is a place in the reading order, and of that member.
LEMMA PlaceIs ==
  ASSUME NEW p, NEW m, NEW k \in Places(p, m)
  PROVE  k \in DOMAIN Order(p) /\ Order(p)[k] = m
BY DEF Places

\* The invariant holds before a page is opened.
LEMMA SessionInvInit == SessionInit => SessionInv
<1> SUFFICES ASSUME SessionInit PROVE SessionInv
  OBVIOUS
<1>1. Len(Order(package)) = 0 /\ package \in Packages \cup {NoPackage}
  BY OrderTyped DEF SessionInit
<1>2. current = 1 /\ shown = 1 /\ ~ reading /\ reading \in BOOLEAN /\ saved = Nowhere
  BY DEF SessionInit
<1> HIDE DEF NoPackage
<1> QED
  BY <1>1, <1>2 DEF SessionInv, SessionTypeOK

\* A chapter is loaded, and perhaps saved.
LEMMA LoadStep ==
  ASSUME SessionInv, NEW index, LoadChapter(index)
  PROVE  SessionInv'
<1>1. Order(package) \in Seq(Members) /\ package' = package
  BY OrderTyped DEF SessionInv, SessionTypeOK, LoadChapter
<1>2. index \in 1 .. Len(Order(package)) /\ Order(package)[index] \in Members
  BY <1>1 DEF LoadChapter
<1> QED
  BY <1>1, <1>2 DEF SessionInv, SessionTypeOK, LoadChapter, MaySave

\* Neither a page load nor a button, a jump or a link leaves the order.
LEMMA SessionInvStep == SessionInv /\ [SessionNext]_sessionVars => SessionInv'
<1> SUFFICES ASSUME SessionInv, [SessionNext]_sessionVars PROVE SessionInv'
  OBVIOUS
<1>o. Order(package) \in Seq(Members) /\ DOMAIN Order(package) = 1 .. Len(Order(package))
  BY OrderTyped DEF SessionInv, SessionTypeOK
<1>s. reading => Order(package)[current] \in Members
  BY <1>o DEF SessionInv
<1>1. ASSUME NEW p \in Packages, TakeUp(p) PROVE SessionInv'
  <2>1. Len(Order(package)) = 0 /\ ~ reading
    BY <1>1, OrderTyped DEF TakeUp, SessionInv
  <2>2. Order(p) \in Seq(Members)
    BY OrderTyped
  <2>3. Len(Order(p)) \in Nat
    BY <2>2
  <2> QED
    BY <1>1, <2>1, <2>3 DEF TakeUp, SessionInv, SessionTypeOK
<1>2. CASE OpenPage
  <2> DEFINE start == IF Places(package, saved) = {} THEN 1 ELSE FirstPlace(package, saved)
  <2>1. Order(package) # <<>> /\ package \in Packages \cup {NoPackage}
    BY <1>2 DEF OpenPage, SessionInv, SessionTypeOK
  <2>2. 1 \in DOMAIN Order(package)
    BY <1>o, <2>1
  <2>3. start \in DOMAIN Order(package)
    BY <2>1, <2>2, PlacesOf, PlaceIs
  <2> QED
    BY <1>2, <1>o, <2>3 DEF OpenPage, SessionInv, SessionTypeOK
<1>3. CASE NextChapter
  BY <1>3, LoadStep DEF NextChapter
<1>4. CASE PreviousChapter
  BY <1>4, LoadStep DEF PreviousChapter
<1>5. CASE Save
  BY <1>5, <1>s DEF Save, MaySave, SessionInv, SessionTypeOK
<1>6. CASE ClosePage
  BY <1>6, <1>s DEF ClosePage, MaySave, SessionInv, SessionTypeOK
<1>7. ASSUME NEW m \in Members, OtherDevice(m) PROVE SessionInv'
  BY <1>7 DEF OtherDevice, SessionInv, SessionTypeOK
<1>8. ASSUME NEW m \in Members, Jump(m) PROVE SessionInv'
  BY <1>8, LoadStep DEF Jump
<1>9. ASSUME NEW m \in Members, FollowLink(m) PROVE SessionInv'
  <2>1. package \in Packages \cup {NoPackage} /\ Places(package, m) # {}
    BY <1>9 DEF FollowLink, SessionInv, SessionTypeOK
  <2>2. LastPlace(package, m) \in DOMAIN Order(package)
    BY <2>1, PlacesOf, PlaceIs
  <2> QED
    BY <1>9, <1>o, <2>2 DEF FollowLink, SessionInv, SessionTypeOK
<1>10. CASE UNCHANGED sessionVars
  BY <1>10 DEF sessionVars, SessionInv, SessionTypeOK
<1> QED
  BY <1>1, <1>2, <1>3, <1>4, <1>5, <1>6, <1>7, <1>8, <1>9, <1>10 DEF SessionNext

\* The script and the frame stay within the book, for any packages.
THEOREM SessionInvariant == SessionSpec => []SessionInv
BY SessionInvInit, SessionInvStep, PTL DEF SessionSpec

\* The state of a reading session has its type.
THEOREM SessionTypeCorrect == SessionSpec => []SessionTypeOK
<1>1. SessionInv => SessionTypeOK
  BY DEF SessionInv
<1> QED
  BY <1>1, SessionInvariant, PTL

\* A stored position, an entry of the table of contents and a link lead to
\* the document they name, however often the spine names it, and whatever
\* the spine names that is no chapter.
THEOREM Land == SessionSpec => LinksLand
<1>1. ASSUME SessionInv, SessionNext
      PROVE  /\ OpenPage /\ saved \in Range(Order(package)) => LandsOn(saved)
             /\ \A m \in Members : Jump(m) \/ FollowLink(m) => LandsOn(m)
  <2>1. package \in Packages \cup {NoPackage}
    BY <1>1 DEF SessionInv, SessionTypeOK
  <2>2. ASSUME OpenPage, saved \in Range(Order(package)) PROVE LandsOn(saved)
    <3>1. Places(package, saved) # {}
      BY <2>2 DEF Range, Places
    <3>2. package' = package /\ shown' = FirstPlace(package, saved)
      BY <2>2, <3>1 DEF OpenPage
    <3>3. FirstPlace(package, saved) \in DOMAIN Order(package)
          /\ Order(package)[FirstPlace(package, saved)] = saved
      BY <2>1, <3>1, PlacesOf, PlaceIs
    <3> QED
      BY <3>2, <3>3 DEF LandsOn, ShownMember
  <2>3. ASSUME NEW m \in Members, Jump(m) PROVE LandsOn(m)
    <3>1. Places(package, m) # {} /\ package' = package /\ shown' = FirstPlace(package, m)
      BY <2>3 DEF Jump, LoadChapter
    <3>2. FirstPlace(package, m) \in DOMAIN Order(package)
          /\ Order(package)[FirstPlace(package, m)] = m
      BY <2>1, <3>1, PlacesOf, PlaceIs
    <3> QED
      BY <3>1, <3>2 DEF LandsOn, ShownMember
  <2>4. ASSUME NEW m \in Members, FollowLink(m) PROVE LandsOn(m)
    <3>1. Places(package, m) # {} /\ package' = package /\ shown' = LastPlace(package, m)
      BY <2>4 DEF FollowLink
    <3>2. LastPlace(package, m) \in DOMAIN Order(package)
          /\ Order(package)[LastPlace(package, m)] = m
      BY <2>1, <3>1, PlacesOf, PlaceIs
    <3> QED
      BY <3>1, <3>2 DEF LandsOn, ShownMember
  <2> QED
    BY <2>2, <2>3, <2>4
<1>2. SessionInv /\ [SessionNext]_sessionVars =>
        [/\ OpenPage /\ saved \in Range(Order(package)) => LandsOn(saved)
         /\ \A m \in Members : Jump(m) \/ FollowLink(m) => LandsOn(m)]_sessionVars
  BY <1>1
<1> QED
  BY <1>2, SessionInvariant, PTL DEF SessionSpec, LinksLand

-----------------------------------------------------------------------------
(* Feeds: the pages of a listing.                                          *)

SearchFeeds == {"search", "x4search"}

\* Paged, Listed, Before and Position of CatalogFeed, of any books and order.
PagedOf(bs, feed) ==
  {b \in DOMAIN bs : /\ feed \in {"group", "x4group", "search", "x4search"} => bs[b].asked
                     /\ feed \in {"x4", "x4group"} => bs[b].epub}

ListedOf(bs, feed) == {b \in PagedOf(bs, feed) : feed = "x4search" => bs[b].epub}

Precedes(bs, rank, feed, b, c) ==
  IF feed = "recent" THEN b > c
  ELSE IF feed \in SearchFeeds THEN rank[b] < rank[c]
  ELSE bs[b].title < bs[c].title \/ (bs[b].title = bs[c].title /\ b < c)

Preceding(bs, rank, feed, b) == {c \in PagedOf(bs, feed) : Precedes(bs, rank, feed, c, b)}

PositionOf(bs, rank, feed, b) == Cardinality(Preceding(bs, rank, feed, b))

\* They say what CatalogFeed's say of the books and the order there are.
LEMMA ListingsOf ==
  ASSUME NEW feed \in Feeds
  PROVE  /\ Paged(feed) = PagedOf(books, feed)
         /\ Listed(feed) = ListedOf(books, feed)
         /\ \A b : Position(feed, b) = PositionOf(books, crawl.rank, feed, b)
<1>1. Paged(feed) = PagedOf(books, feed)
  BY DEF Feeds, Paged, PagedOf, AllBooks, GroupBooks, X4Books, X4GroupBooks, Matches, X4Ready
<1>2. Listed(feed) = ListedOf(books, feed)
  BY <1>1 DEF Listed, ListedOf, Matches, Paged, PagedOf, AllBooks, X4Ready
<1>3. ASSUME NEW b
      PROVE  Position(feed, b) = PositionOf(books, crawl.rank, feed, b)
  <2>1. \A c : Before(feed, c, b) <=> Precedes(books, crawl.rank, feed, c, b)
    BY DEF Feeds, Before, Precedes, SearchFeeds, ByAge, ByRank, ByTitle
  <2>2. {c \in Paged(feed) : Before(feed, c, b)} = Preceding(books, crawl.rank, feed, b)
    BY <1>1, <2>1 DEF Preceding
  <2> QED
    BY <2>2 DEF Position, PositionOf
<1> QED
  BY <1>1, <1>2, <1>3

\* A listing is finite, and each of its books has a position in it.
LEMMA PositionsBounded ==
  ASSUME NEW n \in 0..MaxBooks, NEW bs \in [1..n -> Book],
         NEW rank \in [BookId -> BookId], NEW feed \in Feeds
  PROVE  /\ PagedOf(bs, feed) \subseteq BookId /\ IsFiniteSet(PagedOf(bs, feed))
         /\ Cardinality(PagedOf(bs, feed)) \in 0..MaxBooks
         /\ \A b : PositionOf(bs, rank, feed, b) \in Nat
         /\ \A b \in PagedOf(bs, feed) :
              PositionOf(bs, rank, feed, b) < Cardinality(PagedOf(bs, feed))
<1> DEFINE P == PagedOf(bs, feed)
<1>1. P \subseteq BookId /\ P \subseteq 1..n
  BY FeedAssumption DEF PagedOf, BookId
<1>2. IsFiniteSet(BookId) /\ Cardinality(BookId) = MaxBooks
  BY FS_Interval, FeedAssumption DEF BookId
<1>3. IsFiniteSet(P) /\ Cardinality(P) \in Nat /\ Cardinality(P) <= MaxBooks
  BY <1>1, <1>2, FS_Subset, FS_CardinalityType
<1>4. ASSUME NEW b
      PROVE  /\ PositionOf(bs, rank, feed, b) \in Nat
             /\ b \in P => PositionOf(bs, rank, feed, b) < Cardinality(P)
  <2> DEFINE Q == Preceding(bs, rank, feed, b)
  <2>1. Q \subseteq P
    BY DEF Preceding
  <2>2. IsFiniteSet(Q) /\ Cardinality(Q) \in Nat /\ Cardinality(Q) <= Cardinality(P)
        /\ (Cardinality(P) = Cardinality(Q) => P = Q)
    BY <1>3, <2>1, FS_Subset, FS_CardinalityType
  <2>3. b \in P => ~Precedes(bs, rank, feed, b, b)
    <3> SUFFICES ASSUME b \in P PROVE ~Precedes(bs, rank, feed, b, b)
      OBVIOUS
    <3>1. b \in BookId /\ b \in 1..n /\ BookId \subseteq Nat
      BY <1>1 DEF BookId
    <3>2. rank[b] \in Nat /\ bs[b] \in Book
      BY <3>1
    <3>3. bs[b].title \in Nat
      BY <3>2, FeedAssumption DEF Book
    <3> QED
      BY <3>1, <3>2, <3>3 DEF Precedes
  <2>4. b \in P => P # Q
    BY <2>3 DEF Preceding
  <2> QED
    BY <1>3, <2>2, <2>4 DEF PositionOf
<1> QED
  BY <1>1, <1>3, <1>4

\* In a table that books are added to, a book keeps its place among those of
\* before, and others may come before it.
LEMMA PositionsGrow ==
  ASSUME NEW n \in 0..MaxBooks, NEW bs \in [1..n -> Book],
         NEW m \in 0..MaxBooks, n <= m, NEW cs \in [1..m -> Book],
         \A b \in 1..n : cs[b] = bs[b],
         NEW rank \in [BookId -> BookId], NEW order \in [BookId -> BookId],
         NEW feed \in Feeds \ SearchFeeds
  PROVE  /\ PagedOf(bs, feed) \subseteq PagedOf(cs, feed)
         /\ \A b \in PagedOf(bs, feed) :
              PositionOf(bs, rank, feed, b) <= PositionOf(cs, order, feed, b)
<1>1. PagedOf(bs, feed) \subseteq PagedOf(cs, feed)
  BY DEF PagedOf
<1>2. ASSUME NEW b \in PagedOf(bs, feed)
      PROVE  PositionOf(bs, rank, feed, b) <= PositionOf(cs, order, feed, b)
  <2>1. Preceding(bs, rank, feed, b) \subseteq Preceding(cs, order, feed, b)
    <3> SUFFICES ASSUME NEW c \in Preceding(bs, rank, feed, b)
                 PROVE  c \in Preceding(cs, order, feed, b)
      OBVIOUS
    <3>1. c \in PagedOf(bs, feed) /\ Precedes(bs, rank, feed, c, b)
      BY DEF Preceding
    <3>2. b \in 1..n /\ c \in 1..n
      BY <3>1 DEF PagedOf
    <3>3. cs[b] = bs[b] /\ cs[c] = bs[c]
      BY <3>2
    <3>4. Precedes(cs, order, feed, c, b)
      BY <3>1, <3>3 DEF Precedes
    <3> QED
      BY <1>1, <3>1, <3>4 DEF Preceding
  <2>2. IsFiniteSet(Preceding(cs, order, feed, b))
    BY PositionsBounded, FS_Subset DEF Preceding
  <2> QED
    BY <2>1, <2>2, FS_Subset DEF PositionOf
<1> QED
  BY <1>1, <1>2

\* The page after the last begins beyond the last entry.
LEMMA PagesCover ==
  ASSUME NEW total \in Nat, NEW size \in Nat \ {0}, NEW page \in Nat
  PROVE  /\ TotalPages(total, size) \in Nat
         /\ TotalPages(total, size) <= 1 \/ TotalPages(total, size) <= total
         /\ page >= TotalPages(total, size) => total <= page * size
         /\ Offset(page + 1, size) = Offset(page, size) + size
         /\ Offset(page + 1, size) = page * size
<1>1. CASE total = 0
  <2>1. page * size \in Nat
    OBVIOUS
  <2> QED
    BY <1>1, <2>1 DEF TotalPages, Offset
<1>2. CASE total # 0
  <2> DEFINE q == (total + size - 1) \div size
  <2>1. q \in Nat
    OBVIOUS
  <2>2. q * size <= total + size - 1 /\ total + size - 1 < q * size + size
    OBVIOUS
  <2> HIDE DEF q
  <2>3. q <= total
    <3> SUFFICES ASSUME q >= total + 1 PROVE FALSE
      BY <2>1
    <3>1. q * size >= (total + 1) * size
      BY <2>1
    <3>2. total * size >= total
      OBVIOUS
    <3>3. (total + 1) * size = total * size + size
      OBVIOUS
    <3> QED
      BY <2>1, <2>2, <3>1, <3>2, <3>3
  <2>4. page >= q => total <= page * size
    <3> SUFFICES ASSUME page >= q PROVE total <= page * size
      OBVIOUS
    <3>1. page * size >= q * size
      BY <2>1
    <3> QED
      BY <2>1, <2>2, <3>1
  <2>5. TotalPages(total, size) = q
    BY <1>2 DEF TotalPages, q
  <2>6. Offset(page + 1, size) = page * size /\ Offset(page + 1, size) = Offset(page, size) + size
    BY DEF Offset
  <2> QED
    BY <2>1, <2>3, <2>4, <2>5, <2>6
<1> QED
  BY <1>1, <1>2

-----------------------------------------------------------------------------
(* Feeds: the crawl.                                                       *)

\* A page asked for is one there may be, in an order of all books.
Underway ==
  crawl.at # "idle" =>
    /\ crawl.size \in PageSizes /\ crawl.page \in Nat \ {0}
    /\ crawl.plain => crawl.size = UsualSize(crawl.feed)

Standing(b) == PositionOf(books, crawl.rank, crawl.feed, b)

\* The links are made from the number of books there are.
CountedAll ==
  crawl.at = "slice" => crawl.total = Cardinality(PagedOf(books, crawl.feed))

\* While nothing changes, the pages answered are the books before the page
\* that is asked for.
QuietSoFar ==
  crawl.at # "idle" /\ crawl.plain /\ crawl.moves = 0 =>
    /\ crawl.seen = {b \in ListedOf(books, crawl.feed) :
                       Standing(b) < Offset(crawl.page, crawl.size)}
    /\ ~crawl.twice
    /\ CountedAll

\* While books are only added between the requests, a book of the beginning
\* that has not been listed is not behind the client.
GrowingSoFar ==
  crawl.at # "idle" /\ crawl.plain /\ crawl.grown /\ crawl.feed \notin SearchFeeds =>
    /\ crawl.first \subseteq PagedOf(books, crawl.feed)
    /\ \A b \in crawl.first : b \in crawl.seen \/ Offset(crawl.page, crawl.size) <= Standing(b)
    /\ CountedAll

FeedInv == FeedTypeOK /\ Underway /\ QuietSoFar /\ GrowingSoFar

\* What the types say of a client at work.
LEMMA CrawlTyped ==
  ASSUME FeedInv
  PROVE  /\ \E n \in 0..MaxBooks : books \in [1..n -> Book]
         /\ crawl \in Crawl /\ crawl.feed \in Feeds /\ crawl.rank \in [BookId -> BookId]
         /\ crawl.total \in 0..MaxBooks /\ crawl.page \in Nat
         /\ crawl.at # "idle" => crawl.size \in Nat \ {0}
         /\ NoCrawl \in Crawl
<1>1. crawl \in Crawl /\ \E n \in 0..MaxBooks : books \in [1..n -> Book]
  BY DEF FeedInv, FeedTypeOK
<1>2. /\ crawl.feed \in Feeds /\ crawl.rank \in [BookId -> BookId]
      /\ crawl.total \in 0..MaxBooks /\ crawl.page \in 0..(MaxBooks + 1)
  BY <1>1 DEF Crawl
<1>3. crawl.at # "idle" => crawl.size \in Nat \ {0}
  BY FeedAssumption DEF FeedInv, Underway
<1>4. NoCrawl \in Crawl
  <2>1. [b \in BookId |-> b] \in [BookId -> BookId]
    OBVIOUS
  <2> QED
    BY <2>1, FeedAssumption DEF NoCrawl, Crawl, Feeds
<1> QED
  BY <1>1, <1>2, <1>3, <1>4, FeedAssumption

\* A page is a range of positions among the books listed.
LEMMA PageIs ==
  ASSUME FeedInv, crawl.at # "idle"
  PROVE  Page = {b \in ListedOf(books, crawl.feed) :
                   /\ Offset(crawl.page, crawl.size) <= Standing(b)
                   /\ Standing(b) < Offset(crawl.page + 1, crawl.size)}
<1>1. Offset(crawl.page + 1, crawl.size) = Offset(crawl.page, crawl.size) + crawl.size
  BY CrawlTyped, PagesCover
<1>2. Slice(crawl.feed, crawl.page, crawl.size)
        = {b \in PagedOf(books, crawl.feed) :
             /\ Offset(crawl.page, crawl.size) <= Standing(b)
             /\ Standing(b) < Offset(crawl.page + 1, crawl.size)}
  BY <1>1, CrawlTyped, ListingsOf DEF Slice, Standing
<1> QED
  BY <1>2 DEF Page, Entries, X4Ready, ListedOf

\* The order of relevance is a permutation, if there is one.
LEMMA RanksTyped ==
  \A feed : Ranks(feed) \subseteq [BookId -> BookId]
BY DEF Ranks, NoCrawl

\* Nobody crawls at first.
LEMMA FeedInvInit == FeedInit => FeedInv
<1> SUFFICES ASSUME FeedInit PROVE FeedInv
  OBVIOUS
<1>1. crawl.at = "idle" /\ crawl = NoCrawl
  BY DEF FeedInit, NoCrawl
<1>2. NoCrawl \in Crawl
  <2>1. [b \in BookId |-> b] \in [BookId -> BookId]
    OBVIOUS
  <2> QED
    BY <2>1, FeedAssumption DEF NoCrawl, Crawl, Feeds
<1>3. books \in [1..0 -> Book] /\ 0 \in 0..MaxBooks
  BY FeedAssumption DEF FeedInit, NoBooks
<1> QED
  BY <1>1, <1>2, <1>3 DEF FeedInv, FeedTypeOK, Underway, QuietSoFar, GrowingSoFar

\* A crawl begins at the first page.
LEMMA CrawlBeginStep ==
  ASSUME FeedInv, NEW feed \in Feeds, NEW size \in PageSizes, Begin(feed, size)
  PROVE  FeedInv'
<1>1. PICK rank \in Ranks(feed) :
        crawl' = [NoCrawl EXCEPT !.at = "count", !.feed = feed, !.size = size,
                                 !.plain = (size = UsualSize(feed)), !.page = 1,
                                 !.first = Listed(feed), !.rank = rank]
  BY DEF Begin
<1>2. books' = books /\ rank \in [BookId -> BookId] /\ size \in Nat \ {0}
  BY RanksTyped, FeedAssumption DEF Begin
<1>3. PICK n \in 0..MaxBooks : books \in [1..n -> Book]
  BY CrawlTyped
<1>4. /\ crawl'.at = "count" /\ crawl'.feed = feed /\ crawl'.size = size /\ crawl'.page = 1
      /\ crawl'.plain = (size = UsualSize(feed)) /\ crawl'.first = Listed(feed)
      /\ crawl'.rank = rank /\ crawl'.seen = {} /\ crawl'.twice = FALSE
  BY <1>1 DEF NoCrawl
<1>5. Listed(feed) = ListedOf(books, feed) /\ ListedOf(books, feed) \subseteq PagedOf(books, feed)
  BY ListingsOf DEF ListedOf
<1>6. \A b : PositionOf(books, rank, feed, b) \in Nat
  BY <1>2, <1>3, PositionsBounded
<1>7. Offset(1, size) = 0
  BY <1>2 DEF Offset
<1>8. Listed(feed) \subseteq BookId
  BY <1>2, <1>3, <1>5, PositionsBounded
<1>9. FeedTypeOK'
  <2>1. 1 \in 0..(MaxBooks + 1) /\ (size = UsualSize(feed)) \in BOOLEAN
    BY FeedAssumption
  <2>2. crawl' \in Crawl
    BY <1>1, <1>2, <1>8, <2>1, CrawlTyped, ZenonT(40) DEF NoCrawl, Crawl
  <2> QED
    BY <1>2, <2>2 DEF FeedInv, FeedTypeOK
<1>10. Underway'
  <2>1. crawl'.plain => crawl'.size = UsualSize(crawl.feed)'
    BY <1>4, Zenon DEF UsualSize
  <2>2. crawl'.size \in PageSizes /\ crawl'.page \in Nat \ {0}
    BY <1>4
  <2> QED
    BY <2>1, <2>2 DEF Underway
<1>11. QuietSoFar'
  <2>1. {b \in ListedOf(books, feed) : PositionOf(books, rank, feed, b) < 0} = {}
    BY <1>6
  <2> QED
    BY <1>2, <1>4, <1>7, <2>1 DEF QuietSoFar, CountedAll, Standing
<1>12. GrowingSoFar'
  BY <1>2, <1>4, <1>5, <1>6, <1>7 DEF GrowingSoFar, CountedAll, Standing
<1> QED
  BY <1>9, <1>10, <1>11, <1>12 DEF FeedInv

\* The links are made from what the first query of a request counts.
LEMMA CountStep ==
  ASSUME FeedInv, CountBooks
  PROVE  FeedInv'
<1>1. PICK n \in 0..MaxBooks : books \in [1..n -> Book]
  BY CrawlTyped
<1>2. /\ Paged(crawl.feed) = PagedOf(books, crawl.feed)
      /\ Cardinality(Paged(crawl.feed)) \in 0..MaxBooks
  BY <1>1, CrawlTyped, ListingsOf, PositionsBounded
<1>3. crawl.at = "count" /\ books' = books
      /\ crawl' = [crawl EXCEPT !.at = "slice", !.total = Cardinality(Paged(crawl.feed))]
  BY DEF CountBooks
<1>4. /\ crawl'.at = "slice" /\ crawl'.total = Cardinality(PagedOf(books, crawl.feed))
      /\ crawl'.feed = crawl.feed /\ crawl'.size = crawl.size /\ crawl'.page = crawl.page
      /\ crawl'.plain = crawl.plain /\ crawl'.first = crawl.first /\ crawl'.seen = crawl.seen
      /\ crawl'.twice = crawl.twice /\ crawl'.moves = crawl.moves /\ crawl'.grown = crawl.grown
      /\ crawl'.rank = crawl.rank
  BY <1>2, <1>3, CrawlTyped DEF Crawl
<1>5. FeedTypeOK'
  <2>1. crawl' \in Crawl
    BY <1>2, <1>3, CrawlTyped DEF Crawl
  <2> QED
    BY <1>3, <2>1 DEF FeedInv, FeedTypeOK
<1>6. Underway'
  BY <1>3, <1>4 DEF FeedInv, Underway, UsualSize
<1>7. QuietSoFar'
  BY <1>3, <1>4 DEF FeedInv, QuietSoFar, CountedAll, Standing
<1>8. GrowingSoFar'
  BY <1>3, <1>4 DEF FeedInv, GrowingSoFar, CountedAll, Standing
<1> QED
  BY <1>5, <1>6, <1>7, <1>8 DEF FeedInv

\* The pages answered are continued by the next.
LEMMA NextStep ==
  ASSUME FeedInv, NextPage
  PROVE  FeedInv'
<1>1. PICK n \in 0..MaxBooks : books \in [1..n -> Book]
  BY CrawlTyped
<1>2. /\ crawl.at = "slice" /\ books' = books
      /\ crawl.page < TotalPages(crawl.total, crawl.size)
      /\ crawl' = [crawl EXCEPT !.at = "count", !.page = @ + 1,
                                !.size = UsualSize(crawl.feed), !.seen = @ \cup Page,
                                !.twice = @ \/ Page \cap crawl.seen # {}]
  <2>1. crawl.page \in Nat /\ TotalPages(crawl.total, crawl.size) \in Nat
    BY CrawlTyped, PagesCover DEF NextPage
  <2> QED
    BY <2>1 DEF NextPage, LastPage
<1>3. /\ crawl'.at = "count" /\ crawl'.page = crawl.page + 1
      /\ crawl'.size = UsualSize(crawl.feed) /\ crawl'.seen = crawl.seen \cup Page
      /\ crawl'.twice = (crawl.twice \/ Page \cap crawl.seen # {})
      /\ crawl'.feed = crawl.feed /\ crawl'.plain = crawl.plain /\ crawl'.first = crawl.first
      /\ crawl'.moves = crawl.moves /\ crawl'.grown = crawl.grown /\ crawl'.rank = crawl.rank
  BY <1>2, CrawlTyped DEF Crawl
<1>4. /\ crawl.page \in Nat \ {0} /\ crawl.size \in Nat \ {0}
      /\ crawl.plain => crawl.size = UsualSize(crawl.feed)
  BY <1>2, CrawlTyped DEF FeedInv, Underway
<1>5. UsualSize(crawl.feed) \in PageSizes
  BY FeedAssumption DEF UsualSize
<1>6. /\ \A b : Standing(b) \in Nat
      /\ PagedOf(books, crawl.feed) \subseteq BookId
  BY <1>1, CrawlTyped, PositionsBounded DEF Standing
<1>7. Page = {b \in ListedOf(books, crawl.feed) :
                /\ Offset(crawl.page, crawl.size) <= Standing(b)
                /\ Standing(b) < Offset(crawl.page + 1, crawl.size)}
  BY <1>2, PageIs
<1>8. ListedOf(books, crawl.feed) \subseteq PagedOf(books, crawl.feed)
  BY DEF ListedOf
<1>9. /\ Offset(crawl.page + 1, crawl.size) = Offset(crawl.page, crawl.size) + crawl.size
      /\ Offset(crawl.page, crawl.size) \in Nat
  <2>1. Offset(crawl.page, crawl.size) \in Nat
    <3>1. crawl.page - 1 \in Nat
      BY <1>4
    <3> QED
      BY <1>4, <3>1 DEF Offset
  <2> QED
    BY <1>4, <2>1, CrawlTyped, PagesCover
<1>10. FeedTypeOK'
  <2>1. crawl.page + 1 \in 0..(MaxBooks + 1)
    <3>1. crawl.total \in Nat /\ crawl.total <= MaxBooks
      BY CrawlTyped, FeedAssumption
    <3>2. /\ TotalPages(crawl.total, crawl.size) \in Nat
          /\ TotalPages(crawl.total, crawl.size) <= 1
             \/ TotalPages(crawl.total, crawl.size) <= crawl.total
      BY <1>4, <3>1, PagesCover
    <3> QED
      BY <1>2, <1>4, <3>1, <3>2, FeedAssumption
  <2>2. Page \subseteq BookId
    BY <1>6, <1>7, <1>8
  <2>3. crawl' \in Crawl
    BY <1>2, <1>5, <2>1, <2>2, CrawlTyped DEF Crawl
  <2> QED
    BY <1>2, <2>3 DEF FeedInv, FeedTypeOK
<1>11. Underway'
  BY <1>3, <1>4, <1>5 DEF Underway, UsualSize
<1>12. QuietSoFar'
  <2> SUFFICES ASSUME crawl.plain, crawl.moves = 0 PROVE QuietSoFar'
    BY <1>3 DEF QuietSoFar
  <2>1. /\ crawl.seen = {b \in ListedOf(books, crawl.feed) :
                           Standing(b) < Offset(crawl.page, crawl.size)}
        /\ ~crawl.twice
    BY <1>2 DEF FeedInv, QuietSoFar
  <2>2. crawl'.size = crawl.size
    BY <1>3, <1>4
  <2>3. Page \cap crawl.seen = {}
    BY <1>6, <1>7, <1>9, <2>1
  <2>4. crawl.seen \cup Page = {b \in ListedOf(books, crawl.feed) :
                                 Standing(b) < Offset(crawl.page + 1, crawl.size)}
    BY <1>6, <1>7, <1>9, <1>4, <2>1
  <2> QED
    BY <1>2, <1>3, <2>1, <2>2, <2>3, <2>4 DEF QuietSoFar, CountedAll, Standing
<1>13. GrowingSoFar'
  <2> SUFFICES ASSUME crawl.plain, crawl.grown, crawl.feed \notin SearchFeeds PROVE GrowingSoFar'
    BY <1>3 DEF GrowingSoFar
  <2>1. /\ crawl.first \subseteq PagedOf(books, crawl.feed)
        /\ \A b \in crawl.first : b \in crawl.seen \/ Offset(crawl.page, crawl.size) <= Standing(b)
    BY <1>2 DEF FeedInv, GrowingSoFar
  <2>2. crawl'.size = crawl.size
    BY <1>3, <1>4
  <2>3. crawl.first \subseteq ListedOf(books, crawl.feed)
    BY <2>1 DEF ListedOf, SearchFeeds
  <2>4. \A b \in crawl.first : b \in crawl.seen \cup Page
                              \/ Offset(crawl.page + 1, crawl.size) <= Standing(b)
    BY <1>6, <1>7, <1>9, <1>4, <2>1, <2>3
  <2> QED
    BY <1>2, <1>3, <2>1, <2>2, <2>4 DEF GrowingSoFar, CountedAll, Standing
<1> QED
  BY <1>10, <1>11, <1>12, <1>13 DEF FeedInv

\* The client is done, and may begin again.
LEMMA CrawlEndStep ==
  ASSUME FeedInv, FinishCrawl
  PROVE  FeedInv'
<1>1. crawl' = NoCrawl /\ books' = books /\ NoCrawl.at = "idle"
  BY DEF FinishCrawl, NoCrawl
<1> QED
  BY <1>1, CrawlTyped DEF FeedInv, FeedTypeOK, Underway, QuietSoFar, GrowingSoFar

\* Any change is counted, and one within a request or other than an addition
\* ends what is claimed of a crawl that the catalog grows under.
LEMMA MovedCrawl ==
  ASSUME FeedInv, NEW addition \in BOOLEAN, Moved(addition), crawl.at # "idle"
  PROVE  /\ crawl' \in Crawl
         /\ crawl'.at = crawl.at /\ crawl'.feed = crawl.feed /\ crawl'.size = crawl.size
         /\ crawl'.page = crawl.page /\ crawl'.plain = crawl.plain
         /\ crawl'.first = crawl.first /\ crawl'.seen = crawl.seen
         /\ crawl'.moves # 0 /\ crawl'.rank \in [BookId -> BookId]
         /\ crawl'.grown => crawl.grown /\ addition /\ crawl.at = "count"
<1>1. /\ crawl.moves < MaxMoves
      /\ \E rank \in Ranks(crawl.feed) :
           crawl' = [crawl EXCEPT !.moves = @ + 1, !.rank = rank,
                                  !.grown = @ /\ addition /\ crawl.at = "count"]
  BY DEF Moved
<1>2. PICK rank \in [BookId -> BookId] :
        crawl' = [crawl EXCEPT !.moves = @ + 1, !.rank = rank,
                               !.grown = @ /\ addition /\ crawl.at = "count"]
  BY <1>1, RanksTyped
<1>3. crawl.moves + 1 \in 0..MaxMoves /\ crawl.moves + 1 # 0
      /\ (crawl.grown /\ addition /\ crawl.at = "count") \in BOOLEAN
  BY <1>1, CrawlTyped, FeedAssumption, SMTT(30) DEF Crawl
<1>4. crawl' \in Crawl
  BY <1>2, <1>3, CrawlTyped DEF Crawl
<1> QED
  BY <1>2, <1>3, <1>4, CrawlTyped DEF Crawl

\* A book that is added has the next id.
LEMMA AddBookStep ==
  ASSUME FeedInv, NEW book \in Book, AddBook(book)
  PROVE  FeedInv'
<1>1. PICK n \in 0..MaxBooks : books \in [1..n -> Book]
  BY CrawlTyped
<1>2. Cardinality(AllBooks) = n
  BY <1>1, FS_Interval, FeedAssumption DEF AllBooks
<1>3. /\ n + 1 \in 0..MaxBooks
      /\ books' \in [1..(n + 1) -> Book]
      /\ \A b \in 1..n : books'[b] = books[b]
  <2>1. n < MaxBooks /\ books' = [b \in 1..(n + 1) |-> IF b \in 1..n THEN books[b] ELSE book]
    BY <1>1, <1>2 DEF AddBook, AllBooks
  <2> QED
    BY <1>1, <2>1, FeedAssumption
<1>4. CASE crawl.at = "idle"
  <2>1. crawl' = crawl
    BY <1>4 DEF AddBook, Moved
  <2> QED
    BY <1>3, <1>4, <2>1 DEF FeedInv, FeedTypeOK, Underway, QuietSoFar, GrowingSoFar
<1>5. CASE crawl.at # "idle"
  <2>1. /\ crawl' \in Crawl
        /\ crawl'.at = crawl.at /\ crawl'.feed = crawl.feed /\ crawl'.size = crawl.size
        /\ crawl'.page = crawl.page /\ crawl'.plain = crawl.plain
        /\ crawl'.first = crawl.first /\ crawl'.seen = crawl.seen
        /\ crawl'.moves # 0 /\ crawl'.rank \in [BookId -> BookId]
        /\ crawl'.grown => crawl.grown /\ crawl.at = "count"
    BY <1>5, MovedCrawl DEF AddBook
  <2>2. GrowingSoFar'
    <3> SUFFICES ASSUME crawl.plain, crawl.grown, crawl.at = "count",
                        crawl.feed \notin SearchFeeds
                 PROVE  GrowingSoFar'
      BY <2>1 DEF GrowingSoFar
    <3>1. /\ crawl.first \subseteq PagedOf(books, crawl.feed)
          /\ \A b \in crawl.first : b \in crawl.seen \/ Offset(crawl.page, crawl.size) <= Standing(b)
      BY DEF FeedInv, GrowingSoFar
    <3>2. /\ PagedOf(books, crawl.feed) \subseteq PagedOf(books', crawl.feed)
          /\ \A b \in PagedOf(books, crawl.feed) :
               Standing(b) <= PositionOf(books', crawl'.rank, crawl.feed, b)
      <4>1. n <= n + 1 /\ crawl.feed \in Feeds \ SearchFeeds
        BY CrawlTyped
      <4> QED
        BY <1>1, <1>3, <2>1, <4>1, CrawlTyped, PositionsGrow DEF Standing
    <3>3. \A b : Standing(b) \in Nat /\ PositionOf(books', crawl'.rank, crawl.feed, b) \in Nat
      BY <1>1, <1>3, <2>1, CrawlTyped, PositionsBounded DEF Standing
    <3>4. Offset(crawl.page, crawl.size) \in Int
      BY <1>5, CrawlTyped DEF Offset
    <3>5. \A b \in crawl.first :
            \/ b \in crawl.seen
            \/ Offset(crawl.page, crawl.size) <= PositionOf(books', crawl'.rank, crawl.feed, b)
      BY <3>1, <3>2, <3>3, <3>4
    <3> QED
      BY <2>1, <3>1, <3>2, <3>5 DEF GrowingSoFar, CountedAll, Standing
  <2>3. FeedTypeOK' /\ Underway' /\ QuietSoFar'
    BY <1>3, <2>1 DEF FeedInv, FeedTypeOK, Underway, QuietSoFar, UsualSize
  <2> QED
    BY <2>2, <2>3 DEF FeedInv
<1> QED
  BY <1>4, <1>5

\* Any other change ends what is claimed.
LEMMA ChangeStep ==
  ASSUME FeedInv, NEW b \in AllBooks, NEW book \in Book, ChangeBook(b, book)
  PROVE  FeedInv'
<1>1. PICK n \in 0..MaxBooks : books \in [1..n -> Book]
  BY CrawlTyped
<1>2. books' \in [1..n -> Book]
  BY <1>1 DEF ChangeBook, AllBooks
<1>3. /\ crawl' \in Crawl
      /\ crawl'.at = crawl.at /\ crawl'.feed = crawl.feed /\ crawl'.size = crawl.size
      /\ crawl'.page = crawl.page /\ crawl'.plain = crawl.plain
      /\ crawl'.moves # 0 /\ ~crawl'.grown
  BY MovedCrawl DEF ChangeBook
<1> QED
  BY <1>2, <1>3 DEF FeedInv, FeedTypeOK, Underway, QuietSoFar, GrowingSoFar, UsualSize

\* Every step keeps the invariant.
LEMMA FeedInvStep == FeedInv /\ [FeedNext]_feedVars => FeedInv'
<1> SUFFICES ASSUME FeedInv, [FeedNext]_feedVars PROVE FeedInv'
  OBVIOUS
<1>1. CASE UNCHANGED feedVars
  BY <1>1 DEF feedVars, FeedInv, FeedTypeOK, Underway, QuietSoFar, GrowingSoFar, UsualSize,
              CountedAll, Standing
<1>2. CASE \E feed \in Feeds, size \in PageSizes : Begin(feed, size)
  BY <1>2, CrawlBeginStep
<1>3. CASE CountBooks
  BY <1>3, CountStep
<1>4. CASE NextPage
  BY <1>4, NextStep
<1>5. CASE FinishCrawl
  BY <1>5, CrawlEndStep
<1>6. CASE \E book \in Book : AddBook(book)
  BY <1>6, AddBookStep
<1>7. ASSUME NEW b \in AllBooks, Regroup(b) \/ MarkFile(b) \/ \E title \in Titles : Retitle(b, title)
      PROVE  FeedInv'
  <2>1. books[b] \in Book
    BY CrawlTyped DEF AllBooks
  <2>2. PICK book \in Book : ChangeBook(b, book)
    BY <1>7, <2>1 DEF Regroup, MarkFile, Retitle, Book
  <2> QED
    BY <2>2, ChangeStep
<1> QED
  BY <1>1, <1>2, <1>3, <1>4, <1>5, <1>6, <1>7 DEF FeedNext

\* The invariant of a crawl holds.
THEOREM FeedInvariant == FeedSpec => []FeedInv
  BY FeedInvInit, FeedInvStep, PTL DEF FeedSpec

\* What the feeds page through and the client keeps its type.
THEOREM FeedTypeCorrect == FeedSpec => []FeedTypeOK
<1>1. FeedInv => FeedTypeOK
  BY DEF FeedInv
<1> QED
  BY <1>1, FeedInvariant, PTL

\* At the last page no book is behind it: every position in a listing is less
\* than the number of books, which the links were made from.
LEMMA LastPageEnds ==
  ASSUME FeedInv, FinishCrawl, CountedAll
  PROVE  /\ \A b : Standing(b) \in Nat
         /\ \A b \in PagedOf(books, crawl.feed) : Standing(b) < Offset(crawl.page + 1, crawl.size)
         /\ Offset(crawl.page, crawl.size) \in Int /\ Offset(crawl.page + 1, crawl.size) \in Int
<1>1. crawl.at = "slice" /\ crawl.page >= TotalPages(crawl.total, crawl.size)
  BY DEF FinishCrawl, LastPage
<1>2. crawl.size \in Nat \ {0} /\ crawl.page \in Nat /\ crawl.total \in Nat
  BY <1>1, CrawlTyped, FeedAssumption
<1>3. PICK n \in 0..MaxBooks : books \in [1..n -> Book]
  BY CrawlTyped
<1>4. /\ \A b : Standing(b) \in Nat
      /\ \A b \in PagedOf(books, crawl.feed) : Standing(b) < crawl.total
  BY <1>1, <1>3, CrawlTyped, PositionsBounded DEF CountedAll, Standing
<1>5. crawl.total <= Offset(crawl.page + 1, crawl.size)
  <2>1. /\ crawl.page >= TotalPages(crawl.total, crawl.size) => crawl.total <= crawl.page * crawl.size
        /\ Offset(crawl.page + 1, crawl.size) = crawl.page * crawl.size
    BY <1>2, PagesCover
  <2> QED
    BY <1>1, <2>1
<1>6. Offset(crawl.page, crawl.size) \in Int /\ Offset(crawl.page + 1, crawl.size) \in Int
  BY <1>2 DEF Offset
<1> QED
  BY <1>2, <1>4, <1>5, <1>6

\* A crawl by pages of the usual size, during which nothing changes, lists
\* every book of the feed, once, and no other, of whatever size the catalog
\* and the pages are.
THEOREM QuietCrawls == FeedSpec => QuietCrawlExact
<1>1. FeedInv => (FinishCrawl /\ crawl.moves = 0 /\ crawl.plain => CrawledAll)
  <2> SUFFICES ASSUME FeedInv, FinishCrawl, crawl.moves = 0, crawl.plain PROVE CrawledAll
    OBVIOUS
  <2>1. crawl.at = "slice" /\ crawl.feed \in Feeds
    BY CrawlTyped DEF FinishCrawl
  <2>2. /\ crawl.seen = {b \in ListedOf(books, crawl.feed) :
                           Standing(b) < Offset(crawl.page, crawl.size)}
        /\ ~crawl.twice /\ CountedAll
    BY <2>1 DEF FeedInv, QuietSoFar
  <2>3. Page = {b \in ListedOf(books, crawl.feed) :
                  /\ Offset(crawl.page, crawl.size) <= Standing(b)
                  /\ Standing(b) < Offset(crawl.page + 1, crawl.size)}
    BY <2>1, PageIs
  <2>4. ListedOf(books, crawl.feed) \subseteq PagedOf(books, crawl.feed)
    BY DEF ListedOf
  <2>5. crawl.seen \cup Page = ListedOf(books, crawl.feed) /\ crawl.seen \cap Page = {}
    BY <2>2, <2>3, <2>4, LastPageEnds
  <2> QED
    BY <2>1, <2>2, <2>5, ListingsOf DEF CrawledAll
<1> QED
  BY <1>1, FeedInvariant, PTL DEF QuietCrawlExact

\* A crawl that books are added to between its requests misses none that was
\* there when it began: each comes no earlier in the listing than before.
THEOREM GrowingCrawls == FeedSpec => GrowingCrawlComplete
<1>1. FeedInv => (FinishCrawl /\ crawl.grown /\ crawl.plain /\ crawl.feed \notin {"search", "x4search"}
                    => crawl.first \subseteq crawl.seen \cup Page)
  <2> SUFFICES ASSUME FeedInv, FinishCrawl, crawl.grown, crawl.plain, crawl.feed \notin SearchFeeds
               PROVE  crawl.first \subseteq crawl.seen \cup Page
    BY DEF SearchFeeds
  <2>1. crawl.at = "slice"
    BY DEF FinishCrawl
  <2>2. /\ crawl.first \subseteq PagedOf(books, crawl.feed)
        /\ \A b \in crawl.first : b \in crawl.seen \/ Offset(crawl.page, crawl.size) <= Standing(b)
        /\ CountedAll
    BY <2>1 DEF FeedInv, GrowingSoFar
  <2>3. Page = {b \in ListedOf(books, crawl.feed) :
                  /\ Offset(crawl.page, crawl.size) <= Standing(b)
                  /\ Standing(b) < Offset(crawl.page + 1, crawl.size)}
    BY <2>1, PageIs
  <2>4. PagedOf(books, crawl.feed) = ListedOf(books, crawl.feed)
    BY DEF ListedOf, SearchFeeds
  <2> QED
    BY <2>2, <2>3, <2>4, LastPageEnds
<1> QED
  BY <1>1, FeedInvariant, PTL DEF GrowingCrawlComplete

-----------------------------------------------------------------------------
(* The inductive invariant of every execution.                             *)

\* A request that is being served knows its key and carries a record; one
\* that will update has read a record that is not newer.
InService ==
  \A r \in Requests :
    /\ phase[r] # "idle" => key[r] \in Keys /\ want[r] \in Records
    /\ phase[r] = "update" => snap[r] \in Records /\ ~Older(want[r], snap[r])

\* A record, once there, stays.
RecordsStay == \A r \in Requests : phase[r] = "update" => row[key[r]] # NoRecord

ProgressInv == ProgressionTypeOK /\ InService /\ RecordsStay /\ CreatedOnce

\* The invariant holds before the first request.
LEMMA ProgressInvInit == ProgressionInit => ProgressInv
  BY ProgressAssumption DEF ProgressionInit, ProgressInv, ProgressionTypeOK, InService, RecordsStay, CreatedOnce

\* Answering a request forgets it and nothing else.
LEMMA AnswerLocal ==
  ASSUME ProgressInv, NEW r \in Requests, Answer(r)
  PROVE  /\ phase'[r] = "idle"
         /\ \A q \in Requests : q # r =>
              phase'[q] = phase[q] /\ key'[q] = key[q] /\ want'[q] = want[q] /\ snap'[q] = snap[q]
         /\ phase' \in [Requests -> {"idle", "insert", "update"}]
         /\ key' \in [Requests -> Keys \cup {NoKey}]
         /\ want' \in [Requests -> Records \cup {NoRecord}]
         /\ snap' \in [Requests -> Records \cup {NoRecord}]
         /\ InService'
<1> USE DEF ProgressInv, ProgressionTypeOK
<1>1. /\ phase'[r] = "idle"
      /\ \A q \in Requests : q # r =>
           phase'[q] = phase[q] /\ key'[q] = key[q] /\ want'[q] = want[q] /\ snap'[q] = snap[q]
  BY DEF Answer
<1>2. /\ phase' \in [Requests -> {"idle", "insert", "update"}]
      /\ key' \in [Requests -> Keys \cup {NoKey}]
      /\ want' \in [Requests -> Records \cup {NoRecord}]
      /\ snap' \in [Requests -> Records \cup {NoRecord}]
  BY DEF Answer
<1>3. InService'
  <2> SUFFICES ASSUME NEW q \in Requests, phase'[q] # "idle"
               PROVE  /\ key'[q] \in Keys /\ want'[q] \in Records
                      /\ phase'[q] = "update" => snap'[q] \in Records /\ ~Older(want'[q], snap'[q])
    BY DEF InService, Older
  <2> QED
    BY <1>1 DEF InService
<1> QED
  BY <1>1, <1>2, <1>3

\* What an UPDATE leaves is a record with the request's own timestamp; over
\* the record the request has read it is the request's own record.
LEMMA MergeRecord ==
  ASSUME NEW u \in Records, NEW v \in Records, NEW s \in Records
  PROVE  /\ Merge(s, v, u) \in Records
         /\ Merge(s, v, u).at = u.at
         /\ Merge(v, v, u) = u
  BY DEF Merge, Records

\* Reading the record, or answering CONFLICT, keeps the invariant.
LEMMA AskKeepsInvariant ==
  ASSUME ProgressInv, NEW r \in Requests, Ask(r)
  PROVE  ProgressInv'
<1> USE DEF ProgressInv, ProgressionTypeOK
<1>1. PICK k \in Keys, u \in Records : AskFirst(r, k, u) \/ AskNewer(r, k, u) \/ AskConflict(r, k, u)
  BY DEF Ask
<1>2. CASE AskConflict(r, k, u)
  BY <1>2 DEF AskConflict, progressionVars, InService, Older, RecordsStay, CreatedOnce
<1>3. CASE AskFirst(r, k, u) \/ AskNewer(r, k, u)
  <2>1. /\ UNCHANGED <<row, created>>
        /\ \/ row[k] = NoRecord /\ Hold(r, k, u, "insert")
           \/ row[k] \in Records /\ ~Older(u, row[k]) /\ Hold(r, k, u, "update")
    BY <1>3 DEF AskFirst, AskNewer
  <2>2. ProgressionTypeOK'
    BY <2>1 DEF Hold
  <2>3. /\ phase'[r] \in {"insert", "update"} /\ key'[r] = k /\ want'[r] = u /\ snap'[r] = row[k]
        /\ phase'[r] = "update" => row[k] \in Records /\ ~Older(u, row[k])
        /\ \A q \in Requests : q # r =>
             phase'[q] = phase[q] /\ key'[q] = key[q] /\ want'[q] = want[q] /\ snap'[q] = snap[q]
    BY <2>1 DEF Hold
  <2>4. InService'
    <3> SUFFICES ASSUME NEW q \in Requests
                 PROVE  /\ phase'[q] # "idle" => key'[q] \in Keys /\ want'[q] \in Records
                        /\ phase'[q] = "update" =>
                             snap'[q] \in Records /\ ~Older(want'[q], snap'[q])
      BY DEF InService, Older
    <3> QED
      BY <2>3 DEF InService
  <2>5. CreatedOnce'
    BY <2>1 DEF CreatedOnce
  <2>6. row' = row /\ NoRecord \notin Records
    BY <2>1, ProgressAssumption DEF Records
  <2>7. RecordsStay'
    <3> SUFFICES ASSUME NEW q \in Requests, phase'[q] = "update"
                 PROVE  row[key'[q]] # NoRecord
      BY <2>6 DEF RecordsStay
    <3> QED
      BY <2>3, <2>6 DEF RecordsStay
  <2> QED
    BY <2>2, <2>4, <2>5, <2>7
<1> QED
  BY <1>1, <1>2, <1>3

\* So does every write, successful or refused.
LEMMA WriteKeepsInvariant ==
  ASSUME ProgressInv, NEW r \in Requests,
         Insert(r) \/ InsertRefused(r) \/ Update(r) \/ WriteError(r)
  PROVE  ProgressInv'
<1> USE ProgressAssumption DEF ProgressInv, ProgressionTypeOK
<1>1. Answer(r) /\ key[r] \in Keys /\ want[r] \in Records
  BY DEF Insert, InsertRefused, Update, WriteError, InService
<1>2. CASE Insert(r)
  <2>1. row' = [row EXCEPT ![key[r]] = want[r]] /\ row[key[r]] = NoRecord
        /\ created' = [created EXCEPT ![key[r]] = created[key[r]] + 1]
    BY <1>2 DEF Insert
  <2>2. row' \in [Keys -> Records \cup {NoRecord}] /\ created' \in [Keys -> Nat]
    BY <1>1, <2>1
  <2>3. want[r] # NoRecord
    BY <1>1 DEF Records
  <2>4. CreatedOnce'
    BY <1>1, <2>1, <2>3 DEF CreatedOnce
  <2>5. RecordsStay'
    BY <1>1, <2>1, <2>3, AnswerLocal DEF RecordsStay, InService
  <2> QED
    BY <1>1, <2>2, <2>4, <2>5, AnswerLocal
<1>3. CASE InsertRefused(r) \/ WriteError(r)
  <2>1. UNCHANGED <<row, created>>
    BY <1>3 DEF InsertRefused, WriteError
  <2> QED
    BY <1>1, <2>1, AnswerLocal DEF CreatedOnce, RecordsStay
<1>4. CASE Update(r)
  <2>1. /\ row' = [row EXCEPT ![key[r]] = Merge(row[key[r]], snap[r], want[r])]
        /\ created' = created /\ snap[r] \in Records /\ row[key[r]] \in Records
    BY <1>1, <1>4 DEF Update, InService, RecordsStay
  <2>2. Merge(row[key[r]], snap[r], want[r]) \in Records
    BY <1>1, <2>1, MergeRecord
  <2>3. row' \in [Keys -> Records \cup {NoRecord}]
    BY <2>1, <2>2
  <2>4. CreatedOnce' /\ RecordsStay'
    BY <1>1, <2>1, <2>2, AnswerLocal, SMTT(30) DEF CreatedOnce, RecordsStay, InService, Records
  <2> QED
    BY <1>1, <2>1, <2>3, <2>4, AnswerLocal
<1> QED
  BY <1>2, <1>3, <1>4

\* No step of a request breaks the invariant.
LEMMA ProgressInvStep == ProgressInv /\ [ProgressionNext]_progressionVars => ProgressInv'
<1>1. ASSUME ProgressInv, UNCHANGED progressionVars PROVE ProgressInv'
  BY <1>1 DEF progressionVars, ProgressInv, ProgressionTypeOK, InService, Older, RecordsStay, CreatedOnce
<1> QED
  BY <1>1, AskKeepsInvariant, WriteKeepsInvariant DEF ProgressionNext

\* The invariant holds however the requests overlap.
LEMMA ProgressInvariant == ProgressionSpec => []ProgressInv
  BY ProgressInvInit, ProgressInvStep, PTL DEF ProgressionSpec

-----------------------------------------------------------------------------
(* What holds of every execution.                                          *)

\* Every variable keeps its type.
THEOREM ProgressTypeCorrect == ProgressionSpec => []ProgressionTypeOK
  BY ProgressInvariant, PTL DEF ProgressInv

\* However many first writes race, one creates the record.
THEOREM Created == ProgressionSpec => []CreatedOnce
  BY ProgressInvariant, PTL DEF ProgressInv

\* A request that writes over the record it read leaves its own record whole
\* and not an older one, whatever other requests do meanwhile.
THEOREM FreshWrite == ProgressionSpec => FreshWriteIsWhole
<1> DEFINE Whole == \A r \in Requests :
             phase[r] = "update" /\ row'[key[r]] # row[key[r]] /\ phase'[r] = "idle"
               /\ snap[r] = row[key[r]]
             => row'[key[r]] = want[r] /\ row[key[r]].at <= want[r].at
<1>1. ProgressInv /\ [ProgressionNext]_progressionVars => [Whole]_progressionVars
  <2> SUFFICES ASSUME ProgressInv, ProgressionNext, NEW r \in Requests,
                      phase[r] = "update", row'[key[r]] # row[key[r]], phase'[r] = "idle",
                      snap[r] = row[key[r]]
               PROVE  row'[key[r]] = want[r] /\ row[key[r]].at <= want[r].at
    OBVIOUS
  <2> USE ProgressAssumption DEF ProgressInv, ProgressionTypeOK
  <2>1. /\ key[r] \in Keys /\ want[r] \in Records /\ snap[r] \in Records
        /\ ~Older(want[r], snap[r])
    BY DEF InService
  <2>2. PICK q \in Requests :
          Ask(q) \/ Insert(q) \/ InsertRefused(q) \/ Update(q) \/ WriteError(q)
    BY DEF ProgressionNext
  <2>3. q = r
    <3>1. CASE Ask(q)
      BY <3>1 DEF Ask, AskFirst, AskNewer, AskConflict, progressionVars
    <3>2. CASE ~Ask(q)
      <4>1. Answer(q)
        BY <2>2, <3>2 DEF Insert, InsertRefused, Update, WriteError
      <4> QED
        BY <4>1, AnswerLocal
    <3> QED
      BY <3>1, <3>2
  <2>4. Update(r)
    BY <2>2, <2>3
       DEF Ask, AskFirst, AskNewer, AskConflict, progressionVars, Insert, InsertRefused, WriteError
  <2>5. row'[key[r]] = Merge(snap[r], snap[r], want[r])
    BY <2>1, <2>4 DEF Update
  <2>6. row'[key[r]] = want[r]
    BY <2>1, <2>5, MergeRecord
  <2>7. snap[r].at \in Nat /\ want[r].at \in Nat
    BY <2>1 DEF Records
  <2> QED
    BY <2>1, <2>6, <2>7 DEF Older
<1> QED
  BY <1>1, ProgressInvariant, PTL DEF ProgressionSpec, FreshWriteIsWhole

-----------------------------------------------------------------------------
(* What holds of the keys whose requests do not overlap.                   *)

\* One request for such a key at a time,
Undisturbed ==
  \A q, r \in Requests :
    q # r /\ phase[q] # "idle" /\ phase[r] # "idle" /\ key[r] \in Serial => key[q] # key[r]

\* so what it has read is still there when it writes.
Current ==
  \A r \in Requests : key[r] \in Serial =>
    /\ phase[r] = "insert" => row[key[r]] = NoRecord
    /\ phase[r] = "update" => row[key[r]] = snap[r]

SerialInv == ProgressInv /\ Undisturbed /\ Current

\* A write for another key leaves the register as it is.
LEMMA OtherKey ==
  ASSUME ProgressInv, NEW k \in Keys \ Serial, NEW v, row' = [row EXCEPT ![k] = v]
  PROVE  SerialRow' = SerialRow
BY ProgressAssumption DEF ProgressInv, ProgressionTypeOK, SerialRow

\* A write for such a key is a write of the register.
LEMMA SerialKey ==
  ASSUME ProgressInv, NEW k \in Serial, NEW v, row' = [row EXCEPT ![k] = v]
  PROVE  SerialRow' = [SerialRow EXCEPT ![k] = v] /\ SerialRow[k] = row[k]
BY ProgressAssumption DEF ProgressInv, ProgressionTypeOK, SerialRow

\* What a request for such a key has read is still stored when it writes, and
\* every step is a step of the register.
LEMMA SerialStep ==
  ASSUME SerialInv, [ProgressionNext]_progressionVars
  PROVE  SerialInv' /\ [Register!RegisterNext]_SerialRow
<1> USE DEF SerialInv, ProgressInv, ProgressionTypeOK
<1>1. ProgressInv'
  BY ProgressInvStep
<1>2. CASE UNCHANGED progressionVars
  BY <1>1, <1>2 DEF progressionVars, Undisturbed, Current, SerialRow
<1>3. ASSUME NEW r \in Requests, Ask(r)
      PROVE  SerialInv' /\ [Register!RegisterNext]_SerialRow
  <2>1. PICK k \in Keys, u \in Records :
          AskFirst(r, k, u) \/ AskNewer(r, k, u) \/ AskConflict(r, k, u)
    BY <1>3 DEF Ask
  <2>2. CASE AskConflict(r, k, u)
    BY <1>1, <2>2 DEF AskConflict, progressionVars, Undisturbed, Current, SerialRow
  <2>3. CASE AskFirst(r, k, u) \/ AskNewer(r, k, u)
    <3>1. /\ row' = row /\ key'[r] = k /\ snap'[r] = row[k] /\ MayBegin(r, k)
          /\ phase'[r] = "insert" => row[k] = NoRecord
          /\ \A q \in Requests : q # r =>
               phase'[q] = phase[q] /\ key'[q] = key[q] /\ snap'[q] = snap[q]
      BY <2>3 DEF AskFirst, AskNewer, Hold
    <3>2. k \in Serial => \A q \in Requests : q # r /\ phase[q] # "idle" => key[q] # k
      BY <3>1 DEF MayBegin
    <3>3. Undisturbed' /\ Current'
      BY <3>1, <3>2 DEF Undisturbed, Current
    <3>4. SerialRow' = SerialRow
      BY <3>1 DEF SerialRow
    <3> QED
      BY <1>1, <3>3, <3>4
  <2> QED
    BY <2>1, <2>2, <2>3
<1>4. ASSUME NEW r \in Requests, Insert(r) \/ Update(r)
      PROVE  SerialInv' /\ [Register!RegisterNext]_SerialRow
  <2>1. Answer(r) /\ phase[r] # "idle" /\ key[r] \in Keys /\ want[r] \in Records
    BY <1>4 DEF Insert, Update, InService
  <2>2. PICK v : row' = [row EXCEPT ![key[r]] = v]
    BY <1>4 DEF Insert, Update
  <2>3. ASSUME key[r] \in Serial
        PROVE  row' = [row EXCEPT ![key[r]] = want[r]] /\ (row[key[r]] = NoRecord \/ row[key[r]].at <= want[r].at)
    <3>1. CASE Insert(r)
      BY <3>1 DEF Insert
    <3>2. CASE Update(r)
      <4>1. row' = [row EXCEPT ![key[r]] = Merge(row[key[r]], snap[r], want[r])]
        BY <3>2 DEF Update
      <4>2. row[key[r]] = snap[r] /\ snap[r] \in Records /\ ~Older(want[r], snap[r])
        BY <2>3, <3>2 DEF Update, Current, InService
      <4>3. Merge(row[key[r]], snap[r], want[r]) = want[r]
        BY <2>1, <4>2, MergeRecord
      <4>4. row[key[r]].at \in Nat /\ want[r].at \in Nat
        BY <2>1, <4>2, ProgressAssumption DEF Records
      <4> QED
        BY <4>1, <4>2, <4>3, <4>4 DEF Older
    <3> QED
      BY <1>4, <3>1, <3>2
  <2>4. [Register!RegisterNext]_SerialRow
    <3>1. CASE key[r] \notin Serial
      BY <2>1, <2>2, <3>1, OtherKey
    <3>2. CASE key[r] \in Serial
      <4>1. /\ SerialRow' = [SerialRow EXCEPT ![key[r]] = want[r]]
            /\ SerialRow[key[r]] = row[key[r]]
        BY <2>3, <3>2, SerialKey
      <4> QED
        BY <2>1, <2>3, <3>2, <4>1
           DEF Register!RegisterNext, Register!Accept, Register!Records, Records
    <3> QED
      BY <3>1, <3>2
  <2>5. \A q \in Requests : q # r /\ phase[q] # "idle" =>
          key[q] \in Keys /\ (key[q] \in Serial => key[q] # key[r])
    BY <2>1 DEF Undisturbed, InService
  <2>6. \A q \in Requests : q # r /\ phase[q] # "idle" /\ key[q] \in Serial =>
          row'[key[q]] = row[key[q]]
    BY <2>2, <2>5
  <2>7. Undisturbed' /\ Current'
    BY <2>1, <2>5, <2>6, AnswerLocal DEF Undisturbed, Current
  <2> QED
    BY <1>1, <2>4, <2>7
<1>5. ASSUME NEW r \in Requests, InsertRefused(r) \/ WriteError(r)
      PROVE  SerialInv' /\ [Register!RegisterNext]_SerialRow
  <2>1. Answer(r) /\ row' = row
    BY <1>5 DEF InsertRefused, WriteError
  <2> QED
    BY <1>1, <2>1, AnswerLocal DEF Undisturbed, Current, SerialRow
<1> QED
  BY <1>2, <1>3, <1>4, <1>5 DEF ProgressionNext

\* The stronger invariant holds at first, in the register too.
LEMMA SerialInit == ProgressionInit => SerialInv /\ Register!RegisterInit
  BY ProgressInvInit, ProgressAssumption
     DEF ProgressionInit, SerialInv, Undisturbed, Current, Register!RegisterInit, SerialRow

\* The stronger invariant holds in every behaviour.
LEMMA SerialHolds == ProgressionSpec => []SerialInv
<1>1. SerialInv /\ [ProgressionNext]_progressionVars => SerialInv'
  BY SerialStep
<1> QED
  BY <1>1, SerialInit, PTL DEF ProgressionSpec

\* Requests that do not overlap replace the record whole by one that is not
\* older: the service implements the register for their keys.
THEOREM ProgressRefines == ProgressionSpec => ImplementsRegister
<1>1. SerialInv /\ [ProgressionNext]_progressionVars => [Register!RegisterNext]_SerialRow
  BY SerialStep
<1> QED
  BY <1>1, SerialInit, SerialHolds, PTL
     DEF ProgressionSpec, ImplementsRegister, Register!RegisterSpec

\* If no requests overlap the stored timestamp of no record goes back.
THEOREM Monotone ==
  ASSUME Serial = Keys
  PROVE  ProgressionSpec => TimestampsMonotone
<1> DEFINE Later == \A k \in Keys : row[k] # NoRecord =>
                      row'[k] # NoRecord /\ row[k].at <= row'[k].at
<1>1. SerialInv /\ [ProgressionNext]_progressionVars => [Later]_progressionVars
  <2> SUFFICES ASSUME SerialInv, [ProgressionNext]_progressionVars, NEW k \in Keys, row[k] # NoRecord
               PROVE  row'[k] # NoRecord /\ row[k].at <= row'[k].at
    OBVIOUS
  <2>1. row \in [Keys -> Records \cup {NoRecord}] /\ NoRecord \notin Records
    BY ProgressAssumption DEF SerialInv, ProgressInv, ProgressionTypeOK, Records
  <2>2. row[k].at \in Nat
    BY <2>1, ProgressAssumption DEF Records
  <2>3. [Register!RegisterNext]_SerialRow
    BY SerialStep
  <2>4. SerialRow[k] = row[k] /\ SerialRow'[k] = row'[k]
    BY DEF SerialRow
  <2>5. CASE SerialRow' = SerialRow
    BY <2>2, <2>4, <2>5
  <2>6. ASSUME NEW l \in Keys, NEW u \in Records, Register!Accept(l, u)
        PROVE  row'[k] # NoRecord /\ row[k].at <= row'[k].at
    <3>1. SerialRow'[k] = IF k = l THEN u ELSE SerialRow[k]
      BY <2>6 DEF Register!Accept, SerialRow
    <3> QED
      BY <2>1, <2>2, <2>4, <2>6, <3>1 DEF Register!Accept
  <2> QED
    BY <2>3, <2>5, <2>6 DEF Register!RegisterNext, Register!Records, Records
<1> QED
  BY <1>1, SerialHolds, PTL DEF ProgressionSpec, TimestampsMonotone

-----------------------------------------------------------------------------
(* The five together.                                                      *)

\* A behavior of the five is a behavior of each of them: one part moves and the
\* others stand still.
THEOREM ServingParts == Spec => AuthSpec /\ ReaderSpec /\ SessionSpec /\ FeedSpec /\ ProgressionSpec
<1>1. Init => AuthInit /\ ReaderInit /\ SessionInit /\ FeedInit /\ ProgressionInit
  BY DEF Init
<1>2. [Next]_vars => [AuthNext]_authVars
  BY DEF Next, vars
<1>3. [Next]_vars => [ReaderNext]_readerVars
  BY DEF Next, vars
<1>4. [Next]_vars => [SessionNext]_sessionVars
  BY DEF Next, vars
<1>5. [Next]_vars => [FeedNext]_feedVars
  BY DEF Next, vars
<1>6. [Next]_vars => [ProgressionNext]_progressionVars
  BY DEF Next, vars
<1> QED
  BY <1>1, <1>2, <1>3, <1>4, <1>5, <1>6, PTL
  DEF Spec, AuthSpec, ReaderSpec, SessionSpec, FeedSpec, ProgressionSpec

\* Each of the five keeps its types, whichever is at work.
THEOREM ServingTypeCorrect == Spec => []TypeOK
<1>1. AuthTypeOK /\ ReaderTypeOK /\ SessionTypeOK /\ FeedTypeOK /\ ProgressionTypeOK => TypeOK
  BY DEF TypeOK
<1> QED
  BY <1>1, ServingParts, AuthTypeCorrect, ReaderTypeCorrect, SessionTypeCorrect,
    FeedTypeCorrect, ProgressTypeCorrect, PTL
=============================================================================
