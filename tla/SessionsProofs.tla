---------------------------- MODULE SessionsProofs ----------------------------
(***************************************************************************)
(* Theorems about Sessions, for any number of users, sessions, links and   *)
(* requests in progress, and about Accounts, for any people and documents.  *)
(***************************************************************************)
EXTENDS Sessions, Accounts, TLAPS

-----------------------------------------------------------------------------
(* THE INVARIANT                                                            *)

\* The version of a user counts the withdrawals of its access, and every session,
\* in Redis or in the hands of a request, carries the count of its own login.
VersionIsCount ==
    /\ \A u \in Users : user[u].version = withdrawn[u]
    /\ \A sid \in Sids : rows[sid] # Null => rows[sid].version = rows[sid].seen
    /\ \A r \in Requests :
         request[r].pc \in {"verify", "clear", "establish", "save", "loaded", "admitted", "change"} =>
            request[r].session.version = request[r].session.seen

SessionsInv == TypeOK /\ VersionIsCount

RequestType == {Idle} \cup LoggingIn \cup WithSession \cup Changing \cup ForUser
                  \cup Resetting \cup Revoking

-----------------------------------------------------------------------------
(* REQUESTS                                                                 *)

\* A request has the fields of its step.
LEMMA RequestFields ==
    ASSUME TypeOK, NEW r \in Requests
    PROVE  /\ request[r].pc \in {"verify", "clear", "establish"} => request[r] \in LoggingIn
           /\ request[r].pc \in {"save", "loaded", "admitted"} => request[r] \in WithSession
           /\ request[r].pc = "change" => request[r] \in Changing
           /\ request[r].pc \in {"ask", "withdraw"} => request[r] \in ForUser
           /\ request[r].pc = "reset" => request[r] \in Resetting
           /\ request[r].pc = "revoke" => request[r] \in Revoking
  <1>1. request[r] \in RequestType
    BY DEF TypeOK, RequestType
  <1>2. /\ request[r] = Idle => request[r].pc = "idle"
        /\ request[r] \in LoggingIn => request[r].pc \in {"verify", "clear", "establish"}
        /\ request[r] \in WithSession => request[r].pc \in {"save", "loaded", "admitted"}
    BY DEF Idle, LoggingIn, WithSession
  <1>3. /\ request[r] \in Changing => request[r].pc = "change"
        /\ request[r] \in ForUser => request[r].pc \in {"ask", "withdraw"}
        /\ request[r] \in Resetting => request[r].pc = "reset"
        /\ request[r] \in Revoking => request[r].pc = "revoke"
    BY DEF Changing, ForUser, Resetting, Revoking
  <1> QED
    BY <1>1, <1>2, <1>3 DEF RequestType

\* A request that takes its next step with a record of a right form keeps the table.
LEMMA BecomeKeeps ==
    ASSUME SessionsInv, NEW r \in Requests, NEW q \in RequestType, Become(r, q),
           q.pc \in {"verify", "clear", "establish", "save", "loaded", "admitted", "change"} =>
              q.session.version = q.session.seen
    PROVE  /\ request' \in [Requests -> RequestType]
           /\ \A x \in Requests :
                request'[x].pc \in {"verify", "clear", "establish", "save", "loaded",
                                    "admitted", "change"} =>
                   request'[x].session.version = request'[x].session.seen
  <1>1. request \in [Requests -> RequestType]
    BY DEF SessionsInv, TypeOK, RequestType
  <1>2. request' = [request EXCEPT ![r] = q]
    BY DEF Become
  <1>3. request' \in [Requests -> RequestType]
    BY <1>1, <1>2
  <1>4. \A x \in Requests : request'[x] = IF x = r THEN q ELSE request[x]
    BY <1>1, <1>2
  <1> QED
    BY <1>3, <1>4 DEF SessionsInv, VersionIsCount

LEMMA EndKeeps ==
    ASSUME SessionsInv, NEW r \in Requests, End(r)
    PROVE  /\ request' \in [Requests -> RequestType]
           /\ \A x \in Requests :
                request'[x].pc \in {"verify", "clear", "establish", "save", "loaded",
                                    "admitted", "change"} =>
                   request'[x].session.version = request'[x].session.seen
  <1>1. Idle \in RequestType /\ Idle.pc = "idle"
    BY DEF Idle, RequestType
  <1> QED
    BY <1>1, BecomeKeeps DEF End

\* What the invariant says of the users, of the store and of the requests apart.
UsersAgree ==
    /\ user \in [Users -> UserRow] /\ withdrawn \in [Users -> 0..MaxVersion]
    /\ wrong \in [Users -> 0..MaxWrong]
    /\ \A u \in Users : user[u].version = withdrawn[u]

StoreAgrees ==
    /\ rows \in [Sids -> Session \cup {Null}] /\ index \in [Users -> SUBSET Sids]
    /\ issued \subseteq Sids
    /\ \A sid \in Sids : rows[sid] # Null => rows[sid].version = rows[sid].seen

LinksAgree == live \in [Users -> SUBSET Links] /\ spent \subseteq Links

RequestsAgree ==
    /\ request \in [Requests -> RequestType]
    /\ \A r \in Requests :
         request[r].pc \in {"verify", "clear", "establish", "save", "loaded", "admitted", "change"} =>
            request[r].session.version = request[r].session.seen

LEMMA InvIsParts == SessionsInv <=> UsersAgree /\ StoreAgrees /\ LinksAgree /\ RequestsAgree
  BY DEF SessionsInv, TypeOK, VersionIsCount, UsersAgree, StoreAgrees, LinksAgree, RequestsAgree,
         RequestType

LEMMA PartsAreInv ==
    ASSUME UsersAgree', StoreAgrees', LinksAgree', RequestsAgree'
    PROVE  SessionsInv'
  BY DEF SessionsInv, TypeOK, VersionIsCount, UsersAgree, StoreAgrees, LinksAgree, RequestsAgree,
         RequestType

LEMMA RequestStep ==
    ASSUME SessionsInv, NEW r \in Requests
    PROVE  /\ End(r) => RequestsAgree'
           /\ \A q \in RequestType :
                /\ Become(r, q)
                /\ q.pc \in {"verify", "clear", "establish", "save", "loaded", "admitted", "change"} =>
                     q.session.version = q.session.seen
                => RequestsAgree'
  BY BecomeKeeps, EndKeeps DEF RequestsAgree

\* The parts that a step leaves alone.
LEMMA Untouched ==
    ASSUME SessionsInv
    PROVE  /\ UNCHANGED <<user, withdrawn, wrong>> => UsersAgree'
           /\ UNCHANGED store => StoreAgrees'
           /\ UNCHANGED links => LinksAgree'
           /\ UNCHANGED request => RequestsAgree'
  BY InvIsParts DEF UsersAgree, StoreAgrees, LinksAgree, RequestsAgree, store, links

\* What a failure, a success and a withdrawal make of the row of a user.
LEMMA RowForms ==
    ASSUME NEW row \in UserRow
    PROVE  /\ row.failed < MaxWrong => CountFailure(row) \in UserRow
           /\ CountFailure(row).version = row.version
           /\ Cleared(row) \in UserRow /\ Cleared(row).version = row.version
           /\ row.version < MaxVersion => NextVersion(row) \in UserRow
           /\ NextVersion(row).version = row.version + 1
  <1>1. /\ row.version \in 0..MaxVersion /\ row.failed \in 0..MaxWrong
        /\ row.blocked \in BOOLEAN /\ row.lock \in {"never", "locked", "over"}
    BY DEF UserRow
  <1>2. /\ CountFailure(row).version = row.version /\ Cleared(row).version = row.version
        /\ NextVersion(row).version = row.version + 1
    BY DEF CountFailure, Cleared, NextVersion, UserRow
  <1>3. /\ row.failed < MaxWrong => row.failed + 1 \in 0..MaxWrong
        /\ row.version < MaxVersion => row.version + 1 \in 0..MaxVersion
        /\ 0 \in 0..MaxWrong
    BY <1>1, SessionsAssumption
  <1>4. row.failed < MaxWrong => CountFailure(row) \in UserRow
    <2> DEFINE lock == IF row.failed + 1 >= MaxFailed THEN "locked" ELSE row.lock
    <2>1. lock \in {"never", "locked", "over"}
      BY <1>1
    <2>2. CountFailure(row) = [row EXCEPT !.failed = row.failed + 1, !.lock = lock]
      BY DEF CountFailure, UserRow
    <2> HIDE DEF lock
    <2> QED
      BY <1>3, <2>1, <2>2 DEF UserRow
  <1>5. Cleared(row) \in UserRow
    BY <1>3 DEF Cleared, UserRow
  <1>6. row.version < MaxVersion => NextVersion(row) \in UserRow
    BY <1>3 DEF NextVersion, UserRow
  <1> QED
    BY <1>2, <1>4, <1>5, <1>6

-----------------------------------------------------------------------------
(* THE STEPS                                                                *)

LEMMA LoginSteps ==
    ASSUME SessionsInv, NEW r \in Requests,
           \/ \E u \in Users, old \in issued \cup {NoSid} : StartLogin(r, u, old)
           \/ WrongPassword(r) \/ RightPassword(r) \/ ClearFailures(r)
           \/ \E sid \in Sids : Establish(r, sid)
    PROVE  SessionsInv'
  <1>1. ASSUME NEW u \in Users, NEW old \in issued \cup {NoSid}, StartLogin(r, u, old)
        PROVE  SessionsInv'
    <2> DEFINE s == [user |-> u, version |-> user[u].version, seen |-> withdrawn[u]]
               q == [pc |-> "verify", old |-> old, session |-> s,
                     dirty |-> user[u].failed # 0 \/ user[u].lock # "never"]
    <2>1. s \in Session /\ s.version = s.seen
      BY InvIsParts DEF Session, UsersAgree, UserRow
    <2>2. q \in RequestType /\ q.session = s
      <3> HIDE DEF s
      <3> QED
        BY <2>1 DEF LoggingIn, RequestType, SessionsInv, TypeOK
    <2>3. Become(r, q) /\ UNCHANGED <<user, withdrawn, wrong, store, links>>
      BY <1>1 DEF StartLogin, history
    <2> HIDE DEF s, q
    <2>4. RequestsAgree'
      BY <2>1, <2>2, <2>3, RequestStep
    <2> QED
      BY <2>3, <2>4, Untouched, PartsAreInv
  <1>2. CASE WrongPassword(r)
    <2> DEFINE u == request[r].session.user
    <2>1. u \in Users
      BY <1>2, RequestFields DEF WrongPassword, At, LoggingIn, Session, SessionsInv
    <2>2. /\ user' = [user EXCEPT ![u] = CountFailure(user[u])]
          /\ wrong' = [wrong EXCEPT ![u] = wrong[u] + 1]
          /\ user[u].failed < MaxWrong /\ wrong[u] < MaxWrong
          /\ withdrawn' = withdrawn
      BY <1>2, <2>1, InvIsParts DEF WrongPassword, UsersAgree
    <2> HIDE DEF u
    <2>3. user[u] \in UserRow /\ wrong[u] \in 0..MaxWrong
      BY <2>1, InvIsParts DEF UsersAgree
    <2>4. /\ CountFailure(user[u]) \in UserRow
          /\ CountFailure(user[u]).version = user[u].version
      BY <2>2, <2>3, RowForms
    <2>5. UsersAgree'
      <3>1. wrong' \in [Users -> 0..MaxWrong]
        BY <2>1, <2>2, <2>3, InvIsParts, SessionsAssumption DEF UsersAgree
      <3>2. user' \in [Users -> UserRow]
        BY <2>1, <2>2, <2>4, InvIsParts DEF UsersAgree
      <3>3. \A v \in Users : user'[v].version = user[v].version
        BY <2>1, <2>2, <2>4, InvIsParts DEF UsersAgree
      <3> QED
        BY <2>2, <3>1, <3>2, <3>3, InvIsParts DEF UsersAgree
    <2>6. RequestsAgree'
      BY <1>2, RequestStep DEF WrongPassword
    <2> QED
      BY <1>2, <2>5, <2>6, Untouched, PartsAreInv DEF WrongPassword
  <1>3. CASE RightPassword(r)
    <2> DEFINE q == [request[r] EXCEPT !.pc = IF request[r].dirty THEN "clear" ELSE "establish"]
    <2>1. request[r] \in LoggingIn /\ request[r].session.version = request[r].session.seen
      BY <1>3, RequestFields DEF RightPassword, At, SessionsInv, VersionIsCount
    <2>2. q \in LoggingIn /\ q.session = request[r].session
      BY <2>1 DEF LoggingIn
    <2>3. Become(r, q) /\ UNCHANGED <<user, withdrawn, wrong, store, links>>
      BY <1>3 DEF RightPassword, history
    <2> HIDE DEF q
    <2>4. RequestsAgree'
      BY <2>1, <2>2, <2>3, RequestStep DEF RequestType
    <2> QED
      BY <2>3, <2>4, Untouched, PartsAreInv
  <1>4. CASE ClearFailures(r)
    <2> DEFINE u == request[r].session.user
               q == [request[r] EXCEPT !.pc = "establish"]
    <2>1. request[r] \in LoggingIn /\ request[r].session.version = request[r].session.seen
      BY <1>4, RequestFields DEF ClearFailures, At, SessionsInv, VersionIsCount
    <2>2. u \in Users /\ q \in LoggingIn /\ q.session = request[r].session
      BY <2>1 DEF LoggingIn, Session
    <2>3. /\ Become(r, q)
          /\ user' = [user EXCEPT ![u] = Cleared(user[u])]
          /\ wrong' = [wrong EXCEPT ![u] = 0]
          /\ UNCHANGED <<withdrawn, store, links>>
      BY <1>4, <2>2, InvIsParts DEF ClearFailures, UsersAgree
    <2> HIDE DEF u, q
    <2>4. RequestsAgree'
      BY <2>1, <2>2, <2>3, RequestStep DEF RequestType
    <2>5. user[u] \in UserRow
      BY <2>2, InvIsParts DEF UsersAgree
    <2>6. Cleared(user[u]) \in UserRow /\ Cleared(user[u]).version = user[u].version
      BY <2>5, RowForms
    <2>7. UsersAgree'
      BY <2>2, <2>3, <2>6, InvIsParts, SessionsAssumption DEF UsersAgree
    <2> QED
      BY <2>3, <2>4, <2>7, Untouched, PartsAreInv
  <1>5. ASSUME NEW sid \in Sids, Establish(r, sid)
        PROVE  SessionsInv'
    <2> DEFINE new == request[r].session
               q == [pc |-> "save", sid |-> sid, session |-> new]
    <2>1. new \in Session /\ new.version = new.seen
      BY <1>5, RequestFields DEF Establish, At, SessionsInv, VersionIsCount, LoggingIn
    <2>2. q \in WithSession /\ q.session = new
      <3> HIDE DEF new
      <3> QED
        BY <2>1 DEF WithSession
    <2>3. /\ Become(r, q)
          /\ rows' = [s \in Sids |-> IF s = sid THEN new
                                     ELSE IF s = request[r].old THEN Null ELSE rows[s]]
          /\ index' \in [Users -> SUBSET Sids]
          /\ issued' \subseteq Sids
          /\ UNCHANGED <<user, withdrawn, wrong, links>>
      BY <1>5, InvIsParts DEF Establish, SessionOf, history, StoreAgrees
    <2> HIDE DEF new, q
    <2>4. RequestsAgree'
      BY <2>1, <2>2, <2>3, RequestStep DEF RequestType
    <2>5. StoreAgrees'
      BY <2>1, <2>3, InvIsParts DEF StoreAgrees
    <2> QED
      BY <2>3, <2>4, <2>5, Untouched, PartsAreInv
  <1> QED
    BY <1>1, <1>2, <1>3, <1>4, <1>5

\* A session that goes leaves the others as they are.
LEMMA RemoveKeeps ==
    ASSUME SessionsInv, NEW sid \in Sids, Remove(sid), issued' = issued
    PROVE  StoreAgrees'
  BY InvIsParts DEF Remove, StoreAgrees

LEMMA SessionSteps ==
    ASSUME SessionsInv, NEW r \in Requests,
           \/ \E sid \in Sids : Load(r, sid)
           \/ FinishSave(r) \/ TooOld(r) \/ Refuse(r) \/ Admit(r) \/ Answer(r) \/ Logout(r)
           \/ StartChange(r)
    PROVE  SessionsInv'
  <1>1. ASSUME NEW sid \in Sids, Load(r, sid)
        PROVE  SessionsInv'
    <2> DEFINE q == [pc |-> "loaded", sid |-> sid, session |-> rows[sid]]
    <2>1. rows[sid] \in Session /\ rows[sid].version = rows[sid].seen
      BY <1>1, InvIsParts DEF Load, StoreAgrees
    <2>2. q \in WithSession /\ q.session = rows[sid]
      BY <2>1 DEF WithSession
    <2>3. Become(r, q) /\ UNCHANGED <<user, withdrawn, wrong, store, links>>
      BY <1>1 DEF Load, history
    <2> HIDE DEF q
    <2>4. RequestsAgree'
      BY <2>1, <2>2, <2>3, RequestStep DEF RequestType
    <2> QED
      BY <2>3, <2>4, Untouched, PartsAreInv
  <1>2. CASE FinishSave(r)
    <2>1. request[r] \in WithSession
      BY <1>2, RequestFields DEF FinishSave, At, SessionsInv
    <2>2. StoreAgrees'
      BY <1>2, <2>1, InvIsParts DEF FinishSave, AddToIndex, StoreAgrees, WithSession
    <2>3. RequestsAgree'
      BY <1>2, RequestStep DEF FinishSave
    <2> QED
      BY <1>2, <2>2, <2>3, Untouched, PartsAreInv DEF FinishSave, history
  <1>3. CASE TooOld(r) \/ Refuse(r) \/ Logout(r)
    <2>1. Destroy(r) /\ request[r].sid \in Sids
      BY <1>3, RequestFields DEF TooOld, Refuse, Logout, At, SessionsInv, WithSession
    <2>2. StoreAgrees'
      BY <2>1, RemoveKeeps DEF Destroy
    <2>3. RequestsAgree'
      BY <2>1, RequestStep DEF Destroy
    <2> QED
      BY <2>1, <2>2, <2>3, Untouched, PartsAreInv DEF Destroy, history
  <1>4. CASE Admit(r) \/ Answer(r)
    <2>1. /\ request[r] \in WithSession
          /\ request[r].session \in Session
          /\ request[r].session.version = request[r].session.seen
      BY <1>4, RequestFields DEF Admit, Answer, At, SessionsInv, VersionIsCount, WithSession
    <2>2. PICK pc \in {"save", "admitted"} : Become(r, [request[r] EXCEPT !.pc = pc])
      BY <1>4 DEF Admit, Answer
    <2> DEFINE q == [request[r] EXCEPT !.pc = pc]
    <2>3. q \in WithSession /\ q.session = request[r].session
      BY <2>1 DEF WithSession
    <2>4. Become(r, q)
      BY <2>2
    <2> HIDE DEF q
    <2>5. RequestsAgree'
      BY <2>1, <2>3, <2>4, RequestStep DEF RequestType
    <2>6. StoreAgrees'
      BY <1>4, <2>1, InvIsParts DEF Admit, Answer, SetRow, StoreAgrees, store
    <2> QED
      BY <1>4, <2>5, <2>6, Untouched, PartsAreInv DEF Admit, Answer, history
  <1>5. CASE StartChange(r)
    <2>1. /\ request[r] \in WithSession
          /\ request[r].session.version = request[r].session.seen
      BY <1>5, RequestFields DEF StartChange, At, SessionsInv, VersionIsCount
    <2> DEFINE q == [request[r] EXCEPT !.pc = "change"]
    <2>2. q \in Changing /\ q.session = request[r].session
      BY <2>1 DEF WithSession, Changing
    <2>3. Become(r, q) /\ UNCHANGED <<user, withdrawn, wrong, store, links>>
      BY <1>5 DEF StartChange, history
    <2> HIDE DEF q
    <2>4. RequestsAgree'
      BY <2>1, <2>2, <2>3, RequestStep DEF RequestType
    <2> QED
      BY <2>3, <2>4, Untouched, PartsAreInv
  <1> QED
    BY <1>1, <1>2, <1>3, <1>4, <1>5

-----------------------------------------------------------------------------
(* WITHDRAWALS                                                              *)

\* A step that withdraws the access of a user counts it, in the row and in the history.
LEMMA WithdrawKeeps ==
    ASSUME SessionsInv, NEW u \in Users, NEW row \in UserRow, Withdraw(u, row),
           row.version = user[u].version + 1,
           wrong' \in [Users -> 0..MaxWrong]
    PROVE  UsersAgree'
  <1>1. user \in [Users -> UserRow] /\ withdrawn \in [Users -> 0..MaxVersion]
    BY InvIsParts DEF UsersAgree
  <1>2. /\ user' = [user EXCEPT ![u] = row]
        /\ withdrawn' = [withdrawn EXCEPT ![u] = withdrawn[u] + 1]
        /\ withdrawn[u] < MaxVersion
    BY <1>1 DEF Withdraw
  <1>3. withdrawn[u] + 1 \in 0..MaxVersion
    BY <1>1, <1>2, SessionsAssumption
  <1>4. user' \in [Users -> UserRow] /\ withdrawn' \in [Users -> 0..MaxVersion]
    BY <1>1, <1>2, <1>3
  <1>5. \A v \in Users : user'[v].version = withdrawn'[v]
    BY <1>1, <1>2, InvIsParts DEF UsersAgree
  <1> QED
    BY <1>4, <1>5 DEF UsersAgree

LEMMA ThenRevokeKeeps ==
    ASSUME SessionsInv, NEW r \in Requests, NEW u \in Users, NEW then \in Sids \cup {NoSid},
           ThenRevoke(r, u, then)
    PROVE  RequestsAgree'
  <1> DEFINE q == [pc |-> "withdraw", user |-> u, then |-> then]
  <1>1. q \in RequestType /\ q.pc = "withdraw" /\ Become(r, q)
    BY DEF ForUser, RequestType, ThenRevoke
  <1> HIDE DEF q
  <1> QED
    BY <1>1, RequestStep

\* A clean-up goes on to revoke and ends some resets; the other requests stay.
LEMMA CleanUpKeepsRequests ==
    ASSUME SessionsInv, NEW r \in Requests, NEW u \in Users, CleanUp(r, u)
    PROVE  RequestsAgree'
  <1> DEFINE q == [pc |-> "withdraw", user |-> u, then |-> NoSid]
  <1>1. q \in RequestType /\ q.pc = "withdraw" /\ Idle \in RequestType /\ Idle.pc = "idle"
    BY DEF ForUser, RequestType, Idle
  <1>2. /\ DOMAIN request' = Requests /\ request' = [x \in Requests |-> request'[x]]
        /\ \A x \in Requests : request'[x] \in {q, Idle, request[x]}
    BY DEF CleanUp
  <1> HIDE DEF q
  <1> QED
    BY <1>1, <1>2, InvIsParts DEF RequestsAgree

LEMMA WithdrawalSteps ==
    ASSUME SessionsInv, NEW r \in Requests,
           \/ CommitChange(r) \/ CommitReset(r)
           \/ \E u \in Users : \/ Block(r, u) \/ CleanUp(r, u)
                             \/ \E link \in Links : AdminReset(r, u, link)
    PROVE  SessionsInv'
  <1>0. /\ wrong \in [Users -> 0..MaxWrong] /\ user \in [Users -> UserRow]
        /\ live \in [Users -> SUBSET Links] /\ spent \subseteq Links
    BY InvIsParts DEF UsersAgree, LinksAgree
  <1>1. CASE CommitChange(r)
    <2> DEFINE u == request[r].session.user
    <2>1. u \in Users /\ request[r].sid \in Sids
      BY <1>1, RequestFields DEF CommitChange, At, SessionsInv, Changing, Session
    <2>2. Withdraw(u, NextVersion(user[u])) /\ ThenRevoke(r, u, request[r].sid)
      BY <1>1 DEF CommitChange
    <2>3. UNCHANGED <<store, links, wrong>>
      BY <1>1 DEF CommitChange
    <2> HIDE DEF u
    <2>4. NextVersion(user[u]) \in UserRow /\ NextVersion(user[u]).version = user[u].version + 1
      BY <1>0, <2>1, <2>2, RowForms DEF Withdraw
    <2>5. UsersAgree' /\ RequestsAgree'
      BY <1>0, <2>1, <2>2, <2>3, <2>4, WithdrawKeeps, ThenRevokeKeeps
    <2> QED
      BY <2>3, <2>5, Untouched, PartsAreInv
  <1>2. CASE CommitReset(r)
    <2> DEFINE u == request[r].user
    <2>1. u \in Users /\ request[r].link \in Links
      BY <1>2, RequestFields DEF CommitReset, At, SessionsInv, Resetting
    <2>2. Withdraw(u, NextVersion(user[u])) /\ ThenRevoke(r, u, NoSid)
      BY <1>2 DEF CommitReset
    <2>3. UNCHANGED <<store, wrong>> /\ LinksAgree'
      BY <1>0, <1>2, <2>1 DEF CommitReset, LinksAgree
    <2> HIDE DEF u
    <2>4. NextVersion(user[u]) \in UserRow /\ NextVersion(user[u]).version = user[u].version + 1
      BY <1>0, <2>1, <2>2, RowForms DEF Withdraw
    <2>5. UsersAgree' /\ RequestsAgree'
      BY <1>0, <2>1, <2>2, <2>3, <2>4, WithdrawKeeps, ThenRevokeKeeps
    <2> QED
      BY <2>3, <2>5, Untouched, PartsAreInv
  <1>3. ASSUME NEW u \in Users, Block(r, u)
        PROVE  SessionsInv'
    <2> DEFINE next == NextVersion(user[u])
               row == [next EXCEPT !.blocked = TRUE]
    <2>1. Withdraw(u, row) /\ ThenRevoke(r, u, NoSid) /\ UNCHANGED <<store, links, wrong>>
      BY <1>3 DEF Block
    <2>2. next \in UserRow /\ next.version = user[u].version + 1
      BY <1>0, <1>3, RowForms DEF Block, Withdraw
    <2>3. row \in UserRow /\ row.version = next.version
      <3> HIDE DEF next
      <3> QED
        BY <2>2 DEF UserRow
    <2> HIDE DEF next, row
    <2>4. UsersAgree' /\ RequestsAgree'
      BY <1>0, <2>1, <2>2, <2>3, WithdrawKeeps, ThenRevokeKeeps
    <2> QED
      BY <2>1, <2>4, Untouched, PartsAreInv
  <1>4. ASSUME NEW u \in Users, NEW link \in Links, AdminReset(r, u, link)
        PROVE  SessionsInv'
    <2> DEFINE next == NextVersion(user[u])
    <2>1. Withdraw(u, Cleared(next)) /\ ThenRevoke(r, u, NoSid) /\ UNCHANGED store
      BY <1>4 DEF AdminReset
    <2>2. next \in UserRow /\ next.version = user[u].version + 1
      BY <1>0, <1>4, RowForms DEF AdminReset, Withdraw
    <2>3. Cleared(next) \in UserRow /\ Cleared(next).version = next.version
      BY <2>2, RowForms
    <2>4. wrong' \in [Users -> 0..MaxWrong] /\ LinksAgree'
      BY <1>0, <1>4, SessionsAssumption DEF AdminReset, LinksAgree
    <2> HIDE DEF next
    <2>5. UsersAgree' /\ RequestsAgree'
      BY <1>0, <2>1, <2>2, <2>3, <2>4, WithdrawKeeps, ThenRevokeKeeps
    <2> QED
      BY <2>1, <2>4, <2>5, Untouched, PartsAreInv
  <1>5. ASSUME NEW u \in Users, CleanUp(r, u)
        PROVE  SessionsInv'
    <2>1. Withdraw(u, NextVersion(user[u])) /\ UNCHANGED <<store, wrong>>
      BY <1>5 DEF CleanUp
    <2>2. NextVersion(user[u]) \in UserRow /\ NextVersion(user[u]).version = user[u].version + 1
      BY <1>0, <2>1, RowForms DEF Withdraw
    <2>3. UsersAgree'
      BY <1>0, <2>1, <2>2, WithdrawKeeps
    <2>4. LinksAgree'
      BY <1>0, <1>5 DEF CleanUp, LinksAgree
    <2>5. RequestsAgree'
      BY <1>5, CleanUpKeepsRequests
    <2> QED
      BY <2>1, <2>3, <2>4, <2>5, Untouched, PartsAreInv
  <1> QED
    BY <1>1, <1>2, <1>3, <1>4, <1>5

LEMMA LinkSteps ==
    ASSUME SessionsInv,
           \/ \E r \in Requests, u \in Users : AskReset(r, u)
           \/ \E r \in Requests, link \in Links : CreateLink(r, link)
           \/ \E r \in Requests, u \in Users, link \in Links : StartReset(r, u, link)
           \/ \E u \in Users, link \in Links : LinkExpires(u, link)
    PROVE  SessionsInv'
  <1>0. live \in [Users -> SUBSET Links] /\ spent \subseteq Links
    BY InvIsParts DEF LinksAgree
  <1>1. ASSUME NEW r \in Requests, NEW u \in Users, AskReset(r, u)
        PROVE  SessionsInv'
    <2> DEFINE q == [pc |-> "ask", user |-> u, then |-> NoSid]
    <2>1. q \in RequestType /\ q.pc = "ask"
      BY DEF ForUser, RequestType
    <2>2. Become(r, q) /\ LinksAgree' /\ UNCHANGED <<user, withdrawn, wrong, store>>
      BY <1>0, <1>1 DEF AskReset, LinksAgree, history
    <2> HIDE DEF q
    <2>3. RequestsAgree'
      BY <2>1, <2>2, RequestStep
    <2> QED
      BY <2>2, <2>3, Untouched, PartsAreInv
  <1>2. ASSUME NEW r \in Requests, NEW link \in Links, CreateLink(r, link)
        PROVE  SessionsInv'
    <2>1. LinksAgree' /\ UNCHANGED <<user, withdrawn, wrong, store>>
      BY <1>0, <1>2 DEF CreateLink, LinksAgree, history
    <2>2. RequestsAgree'
      BY <1>2, RequestStep DEF CreateLink
    <2> QED
      BY <2>1, <2>2, Untouched, PartsAreInv
  <1>3. ASSUME NEW r \in Requests, NEW u \in Users, NEW link \in Links, StartReset(r, u, link)
        PROVE  SessionsInv'
    <2> DEFINE q == [pc |-> "reset", user |-> u, link |-> link]
    <2>1. q \in RequestType /\ q.pc = "reset"
      BY DEF Resetting, RequestType
    <2>2. Become(r, q) /\ UNCHANGED <<user, withdrawn, wrong, store, links>>
      BY <1>3 DEF StartReset, history
    <2> HIDE DEF q
    <2>3. RequestsAgree'
      BY <2>1, <2>2, RequestStep
    <2> QED
      BY <2>2, <2>3, Untouched, PartsAreInv
  <1>4. ASSUME NEW u \in Users, NEW link \in Links, LinkExpires(u, link)
        PROVE  SessionsInv'
    <2>1. LinksAgree' /\ UNCHANGED <<user, withdrawn, wrong, store, request>>
      BY <1>0, <1>4 DEF LinkExpires, LinksAgree, history
    <2> QED
      BY <2>1, Untouched, PartsAreInv
  <1> QED
    BY <1>1, <1>2, <1>3, <1>4

LEMMA OtherSteps ==
    ASSUME SessionsInv,
           \/ \E r \in Requests : ListSessions(r) \/ Revoke(r) \/ Die(r)
           \/ \E u \in Users : Unblock(u) \/ LockEnds(u)
           \/ \E sid \in Sids : RowExpires(sid)
    PROVE  SessionsInv'
  <1>0. /\ user \in [Users -> UserRow] /\ wrong \in [Users -> 0..MaxWrong]
        /\ index \in [Users -> SUBSET Sids]
    BY InvIsParts DEF UsersAgree, StoreAgrees
  <1>1. ASSUME NEW r \in Requests, ListSessions(r)
        PROVE  SessionsInv'
    <2> DEFINE q == [pc |-> "revoke", user |-> request[r].user, sids |-> index[request[r].user],
                     then |-> request[r].then]
    <2>1. request[r].user \in Users /\ request[r].then \in Sids \cup {NoSid}
      BY <1>1, RequestFields DEF ListSessions, At, SessionsInv, ForUser
    <2>2. q \in RequestType /\ q.pc = "revoke"
      BY <1>0, <2>1 DEF Revoking, RequestType
    <2>3. Become(r, q) /\ UNCHANGED <<user, withdrawn, wrong, store, links>>
      BY <1>1 DEF ListSessions, history
    <2> HIDE DEF q
    <2>4. RequestsAgree'
      BY <2>2, <2>3, RequestStep
    <2> QED
      BY <2>3, <2>4, Untouched, PartsAreInv
  <1>2. ASSUME NEW r \in Requests, Revoke(r)
        PROVE  SessionsInv'
    <2>1. request[r].user \in Users
      BY <1>2, RequestFields DEF Revoke, At, SessionsInv, Revoking
    <2>2. StoreAgrees'
      BY <1>2, <2>1, InvIsParts DEF Revoke, StoreAgrees
    <2>3. RequestsAgree'
      BY <1>2, RequestStep DEF Revoke
    <2> QED
      BY <1>2, <2>2, <2>3, Untouched, PartsAreInv DEF Revoke, history
  <1>3. ASSUME NEW r \in Requests, Die(r)
        PROVE  SessionsInv'
    <2>1. RequestsAgree'
      BY <1>3, RequestStep DEF Die
    <2> QED
      BY <1>3, <2>1, Untouched, PartsAreInv DEF Die, history
  <1>4. ASSUME NEW u \in Users, Unblock(u)
        PROVE  SessionsInv'
    <2> DEFINE clear == Cleared(user[u])
               row == [clear EXCEPT !.blocked = FALSE]
    <2>1. clear \in UserRow /\ clear.version = user[u].version
      BY <1>0, RowForms
    <2>2. row \in UserRow /\ row.version = clear.version
      <3> HIDE DEF clear
      <3> QED
        BY <2>1 DEF UserRow
    <2>3. /\ user' = [user EXCEPT ![u] = row] /\ wrong' = [wrong EXCEPT ![u] = 0]
          /\ UNCHANGED <<withdrawn, store, links, request>>
      BY <1>0, <1>4 DEF Unblock
    <2> HIDE DEF clear, row
    <2>4. UsersAgree'
      BY <2>1, <2>2, <2>3, InvIsParts, SessionsAssumption DEF UsersAgree
    <2> QED
      BY <2>3, <2>4, Untouched, PartsAreInv
  <1>5. ASSUME NEW u \in Users, LockEnds(u)
        PROVE  SessionsInv'
    <2> DEFINE row == [user[u] EXCEPT !.lock = "over"]
    <2>1. user[u] \in UserRow
      BY <1>0
    <2>2. row \in UserRow /\ row.version = user[u].version
      BY <2>1 DEF UserRow
    <2>3. /\ user' = [user EXCEPT ![u] = row]
          /\ UNCHANGED <<withdrawn, wrong, store, links, request>>
      BY <1>0, <1>5 DEF LockEnds, history
    <2> HIDE DEF row
    <2>4. UsersAgree'
      BY <2>2, <2>3, InvIsParts DEF UsersAgree
    <2> QED
      BY <2>3, <2>4, Untouched, PartsAreInv
  <1>6. ASSUME NEW sid \in Sids, RowExpires(sid)
        PROVE  SessionsInv'
    <2>1. StoreAgrees' /\ UNCHANGED <<user, withdrawn, wrong, links, request>>
      BY <1>6, InvIsParts DEF RowExpires, StoreAgrees, history
    <2> QED
      BY <2>1, Untouched, PartsAreInv
  <1> QED
    BY <1>1, <1>2, <1>3, <1>4, <1>5, <1>6

-----------------------------------------------------------------------------
(* THE THEOREMS                                                             *)

LEMMA SessionsInitial == Init => SessionsInv
  <1> SUFFICES ASSUME Init PROVE SessionsInv
    OBVIOUS
  <1>1. TypeOK
    BY SessionsAssumption DEF Init, TypeOK, UserRow, Idle
  <1>2. VersionIsCount
    BY SessionsAssumption DEF Init, VersionIsCount, Idle
  <1> QED
    BY <1>1, <1>2 DEF SessionsInv

LEMMA SessionsStep == SessionsInv /\ [Next]_vars => SessionsInv'
  <1> SUFFICES ASSUME SessionsInv, [Next]_vars PROVE SessionsInv'
    OBVIOUS
  <1>1. CASE UNCHANGED vars
    BY <1>1, Untouched, PartsAreInv DEF vars, store, links
  <1>2. CASE Next
    BY <1>2, LoginSteps, SessionSteps, WithdrawalSteps, LinkSteps, OtherSteps DEF Next
  <1> QED
    BY <1>1, <1>2

THEOREM SessionsInvHolds == Spec => []SessionsInv
  BY SessionsInitial, SessionsStep, PTL DEF Spec

\* Users, sessions, links and requests keep their types.
THEOREM SessionsTypeCorrect == Spec => []TypeOK
  <1>1. SessionsInv => TypeOK
    BY DEF SessionsInv
  <1> QED
    BY <1>1, SessionsInvHolds, PTL

\* A request enters only with a session whose password was verified after the last
\* withdrawal of its user's access, whatever rows Redis holds.
THEOREM WithdrawnSessionsStayOut == Spec => OnlyCurrentSessions
  <1> DEFINE Step == \A r \in Requests :
                request[r].pc # "admitted" /\ request'[r].pc = "admitted" =>
                   LET s == request'[r].session
                   IN  s.seen = withdrawn[s.user] /\ ~user[s.user].blocked
  <1>1. SessionsInv /\ [Next]_vars => Step
    <2> SUFFICES ASSUME SessionsInv, [Next]_vars, NEW r \in Requests,
                        request[r].pc # "admitted", request'[r].pc = "admitted"
                 PROVE  LET s == request'[r].session
                        IN  s.seen = withdrawn[s.user] /\ ~user[s.user].blocked
      OBVIOUS
    <2>1. request \in [Requests -> RequestType]
      BY InvIsParts DEF RequestsAgree
    <2>2. Admit(r)
      <3>1. ASSUME NEW x \in Requests, NEW q, Become(x, q), q.pc # "admitted"
            PROVE  FALSE
        BY <2>1, <3>1 DEF Become
      <3>2. request' # request
        OBVIOUS
      <3>3. \A x \in Requests : Admit(x) => x = r
        BY <2>1 DEF Admit, Become
      <3>4. \A x \in Requests : ~End(x)
        BY <3>1 DEF End, Idle
      <3>5. \A x \in Requests :
              /\ ~\E u \in Users, old \in issued \cup {NoSid} : StartLogin(x, u, old)
              /\ ~RightPassword(x) /\ ~ClearFailures(x) /\ ~StartChange(x) /\ ~Answer(x)
              /\ ~CommitChange(x) /\ ~CommitReset(x) /\ ~ListSessions(x)
        <4> SUFFICES ASSUME NEW x \in Requests
                     PROVE  /\ ~\E u \in Users, old \in issued \cup {NoSid} : StartLogin(x, u, old)
                            /\ ~RightPassword(x) /\ ~ClearFailures(x) /\ ~StartChange(x)
                            /\ ~Answer(x) /\ ~CommitChange(x) /\ ~CommitReset(x)
                            /\ ~ListSessions(x)
          OBVIOUS
        <4>1. ~\E u \in Users, old \in issued \cup {NoSid} : StartLogin(x, u, old)
          BY <3>1 DEF StartLogin
        <4>2. ~RightPassword(x) /\ ~ClearFailures(x)
          <5>1. ASSUME At(x, "verify") \/ At(x, "clear"), NEW pc \in {"clear", "establish"},
                       Become(x, [request[x] EXCEPT !.pc = pc])
                PROVE  FALSE
            <6>1. [request[x] EXCEPT !.pc = pc].pc = pc
              BY <5>1, RequestFields DEF At, SessionsInv, LoggingIn
            <6> QED
              BY <3>1, <5>1, <6>1
          <5> QED
            BY <5>1 DEF RightPassword, ClearFailures
        <4>3. ~StartChange(x) /\ ~Answer(x)
          <5>1. ASSUME At(x, "admitted"), NEW pc \in {"change", "save"},
                       Become(x, [request[x] EXCEPT !.pc = pc])
                PROVE  FALSE
            <6>1. [request[x] EXCEPT !.pc = pc].pc = pc
              BY <5>1, RequestFields DEF At, SessionsInv, WithSession
            <6> QED
              BY <3>1, <5>1, <6>1
          <5> QED
            BY <5>1 DEF StartChange, Answer
        <4>4. ~CommitChange(x) /\ ~CommitReset(x) /\ ~ListSessions(x)
          BY <3>1 DEF CommitChange, CommitReset, ListSessions, ThenRevoke
        <4> QED
          BY <4>1, <4>2, <4>3, <4>4
      <3>6. \A x \in Requests :
              /\ ~WrongPassword(x) /\ ~FinishSave(x) /\ ~TooOld(x) /\ ~Refuse(x) /\ ~Logout(x)
              /\ ~Revoke(x) /\ ~Die(x) /\ ~\E link \in Links : CreateLink(x, link)
        BY <3>4 DEF WrongPassword, FinishSave, TooOld, Refuse, Logout, Destroy, Revoke, Die,
                    CreateLink
      <3>7. \A x \in Requests, sid \in Sids : ~Establish(x, sid) /\ ~Load(x, sid)
        BY <3>1 DEF Establish, Load
      <3>8. \A x \in Requests, u \in Users :
              /\ ~AskReset(x, u) /\ ~Block(x, u) /\ ~CleanUp(x, u)
              /\ \A link \in Links : ~StartReset(x, u, link) /\ ~AdminReset(x, u, link)
        <4>1. \A x \in Requests, u \in Users : ~CleanUp(x, u)
          BY DEF CleanUp, Idle
        <4> QED
          BY <3>1, <4>1 DEF AskReset, Block, StartReset, AdminReset, ThenRevoke
      <3>9. /\ \A u \in Users : ~Unblock(u) /\ ~LockEnds(u)
            /\ \A sid \in Sids : ~RowExpires(sid)
            /\ \A u \in Users, link \in Links : ~LinkExpires(u, link)
        BY <3>2 DEF Unblock, LockEnds, RowExpires, LinkExpires
      <3> QED
        BY <3>2, <3>3, <3>5, <3>6, <3>7, <3>8, <3>9 DEF Next, vars
    <2>3. request[r] \in WithSession /\ request[r].session.version = request[r].session.seen
      BY <2>2, RequestFields DEF Admit, At, SessionsInv, VersionIsCount
    <2>4. request'[r].session = request[r].session
      BY <2>1, <2>2, <2>3 DEF Admit, Become, WithSession
    <2>5. request[r].session.user \in Users
      BY <2>3 DEF WithSession, Session
    <2> QED
      BY <2>2, <2>3, <2>4, <2>5, InvIsParts DEF Admit, MayEnter, UsersAgree
  <1>2. Step => [Step]_vars
    OBVIOUS
  <1> QED
    BY <1>1, SessionsInvHolds, PTL DEF Spec, OnlyCurrentSessions

-----------------------------------------------------------------------------
(* FAILED LOGINS.  The invariant: the counter of the row is the number of   *)
(* wrong passwords, so no failure was written over another.                 *)

FailuresCounted == \A u \in Users : user[u].failed = wrong[u]

\* What a step does to the counter and to the lock of one user.
LEMMA CounterSteps ==
    ASSUME TypeOK, [Next]_vars, NEW u \in Users
    PROVE  \/ /\ wrong'[u] = wrong[u]
              /\ user'[u].failed = user[u].failed
              /\ user'[u].lock = user[u].lock \/ user'[u].lock = "over"
           \/ wrong'[u] = 0 /\ user'[u].failed = 0
           \/ wrong'[u] = wrong[u] + 1 /\ user'[u] = CountFailure(user[u])
  <1> DEFINE P == \/ /\ wrong'[u] = wrong[u]
                     /\ user'[u].failed = user[u].failed
                     /\ user'[u].lock = user[u].lock \/ user'[u].lock = "over"
                  \/ wrong'[u] = 0 /\ user'[u].failed = 0
                  \/ wrong'[u] = wrong[u] + 1 /\ user'[u] = CountFailure(user[u])
  <1>1. /\ user \in [Users -> UserRow]
        /\ wrong \in [Users -> 0..MaxWrong]
        /\ user[u] \in UserRow
    BY DEF TypeOK
  <1>2. ASSUME UNCHANGED <<user, wrong>>
        PROVE  P
    BY <1>2
  <1>3. ASSUME NEW v \in Users, UNCHANGED wrong, user' = [user EXCEPT ![v] = NextVersion(user[v])]
        PROVE  P
    BY <1>1, <1>3 DEF NextVersion, UserRow
  <1>4. ASSUME NEW r \in Requests, WrongPassword(r)
        PROVE  P
    BY <1>1, <1>4 DEF WrongPassword
  <1>5. ASSUME NEW r \in Requests, ClearFailures(r)
        PROVE  P
    BY <1>1, <1>5 DEF ClearFailures, Cleared, UserRow
  <1>6. ASSUME NEW r \in Requests, CommitChange(r) \/ CommitReset(r)
        PROVE  P
    <2>1. \E v : user' = [user EXCEPT ![v] = NextVersion(user[v])]
      BY <1>6 DEF CommitChange, CommitReset, Withdraw
    <2>2. UNCHANGED wrong
      BY <1>6 DEF CommitChange, CommitReset
    <2> QED
      BY <1>1, <2>1, <2>2 DEF NextVersion, UserRow
  <1>7. ASSUME NEW r \in Requests, NEW v \in Users, Block(r, v)
        PROVE  P
    BY <1>1, <1>7 DEF Block, Withdraw, NextVersion, UserRow
  <1>8. ASSUME NEW r \in Requests, NEW v \in Users, CleanUp(r, v)
        PROVE  P
    BY <1>1, <1>8 DEF CleanUp, Withdraw, NextVersion, UserRow
  <1>9. ASSUME NEW r \in Requests, NEW v \in Users, NEW link \in Links, AdminReset(r, v, link)
        PROVE  P
    BY <1>1, <1>9 DEF AdminReset, Withdraw, Cleared, NextVersion, UserRow
  <1>10. ASSUME NEW v \in Users, Unblock(v)
         PROVE  P
    BY <1>1, <1>10 DEF Unblock, Cleared, UserRow
  <1>11. ASSUME NEW v \in Users, LockEnds(v)
         PROVE  P
    <2>1. user'[u] = user[u] \/ user'[u] = [user[u] EXCEPT !.lock = "over"]
      BY <1>1, <1>11 DEF LockEnds
    <2>2. user'[u].failed = user[u].failed
            /\ (user'[u].lock = user[u].lock \/ user'[u].lock = "over")
      BY <1>1, <2>1 DEF UserRow
    <2>3. wrong'[u] = wrong[u]
      BY <1>11 DEF LockEnds, history
    <2> QED
      BY <2>2, <2>3
  <1> HIDE DEF P
  <1>12. ASSUME NEW r \in Requests, NEW v \in Users, NEW old,
                StartLogin(r, v, old) \/ AskReset(r, v)
         PROVE  P
    BY <1>2, <1>12 DEF StartLogin, AskReset, history
  <1>13. ASSUME NEW r \in Requests, NEW sid \in Sids,
                Establish(r, sid) \/ Load(r, sid)
         PROVE  P
    BY <1>2, <1>13 DEF Establish, Load, history
  <1>14. ASSUME NEW r \in Requests,
                \/ RightPassword(r) \/ FinishSave(r) \/ TooOld(r) \/ Refuse(r) \/ Admit(r)
                \/ Answer(r) \/ Logout(r) \/ StartChange(r) \/ ListSessions(r) \/ Revoke(r)
                \/ Die(r)
         PROVE  P
    BY <1>2, <1>14 DEF RightPassword, FinishSave, TooOld, Refuse, Admit, Answer, Logout, Destroy,
                       StartChange, ListSessions, Revoke, Die, history
  <1>15. ASSUME NEW r, NEW v, NEW link,
                CreateLink(r, link) \/ StartReset(r, v, link) \/ LinkExpires(v, link)
         PROVE  P
    BY <1>2, <1>15 DEF CreateLink, StartReset, LinkExpires, history
  <1>16. ASSUME NEW sid, RowExpires(sid)
         PROVE  P
    BY <1>2, <1>16 DEF RowExpires, history
  <1>17. UNCHANGED vars => P
    BY <1>2 DEF vars
  <1>18. Next => P
    BY <1>4, <1>5, <1>6, <1>7, <1>8, <1>9, <1>10, <1>11, <1>12, <1>13, <1>14, <1>15, <1>16
    DEF Next
  <1> QED
    BY <1>17, <1>18 DEF P

\* No wrong password is lost, for any number of logins that overlap, resets and
\* blocks: once MAX_FAILED_ATTEMPTS of them were made since the counter was cleared,
\* the account has been locked (LoginService, whose single UPDATE counts and locks).
THEOREM FailuresHold == Spec => []EveryFailureCounts
  <1>1. Init => FailuresCounted /\ EveryFailureCounts
    BY SessionsAssumption DEF Init, FailuresCounted, EveryFailureCounts
  <1>2. TypeOK /\ FailuresCounted /\ EveryFailureCounts /\ [Next]_vars
          => FailuresCounted' /\ EveryFailureCounts'
    <2> SUFFICES ASSUME TypeOK, FailuresCounted, EveryFailureCounts, [Next]_vars, NEW u \in Users
                 PROVE  /\ user'[u].failed = wrong'[u]
                        /\ wrong'[u] >= MaxFailed => user'[u].lock # "never"
      BY DEF FailuresCounted, EveryFailureCounts
    <2>1. /\ user[u] \in UserRow /\ wrong[u] \in Nat /\ MaxFailed \in Nat \ {0}
          /\ user[u].failed = wrong[u]
          /\ wrong[u] >= MaxFailed => user[u].lock # "never"
      BY SessionsAssumption DEF TypeOK, FailuresCounted, EveryFailureCounts
    <2>2. CASE wrong'[u] = wrong[u] + 1 /\ user'[u] = CountFailure(user[u])
      BY <2>1, <2>2 DEF CountFailure, UserRow
    <2>3. CASE ~(wrong'[u] = wrong[u] + 1 /\ user'[u] = CountFailure(user[u]))
      BY <2>1, <2>3, CounterSteps
    <2> QED
      BY <2>2, <2>3
  <1> QED
    BY <1>1, <1>2, SessionsTypeCorrect, PTL DEF Spec

-----------------------------------------------------------------------------
(* ACCOUNTS                                                                 *)

\* Accounts are never deleted: the one a profile update has read is there.
AccountsInv ==
    /\ AccountsTypeOK
    /\ \A f \in Forms : form[f] \in Profile => form[f].of \in People /\ Exists(form[f].of)

FormType == {Waiting} \cup Registering \cup Profile \cup Authorized \cup Roles

\* IdentityIsFinal of one step.
IdentityKept ==
    \A p \in People : Exists(p) =>
        /\ account'[p] # Blank
        /\ account[p].cpf # Blank => account'[p].cpf = account[p].cpf
        /\ account[p].birth # Blank => account'[p].birth = account[p].birth

\* A form has the fields of its step.
LEMMA FormFields ==
    ASSUME AccountsTypeOK, NEW f \in Forms
    PROVE  /\ On(f, "findByCpf") \/ On(f, "create") => form[f] \in Registering
           /\ On(f, "findOwner") \/ On(f, "update") => form[f] \in Profile
           /\ On(f, "authorized") => form[f] \in Authorized
           /\ On(f, "roles") => form[f] \in Roles
  <1>1. form[f] \in FormType
    BY DEF AccountsTypeOK, FormType
  <1> QED
    BY <1>1 DEF FormType, On, Waiting, Registering, Profile, Authorized, Roles

\* A request that only reads: it goes on with a form of a right kind.
LEMMA FillStep ==
    ASSUME AccountsInv, NEW f \in Forms, NEW next \in FormType, Fill(f, next),
           next \in Profile => Exists(next.of),
           account' = account, roles' = roles
    PROVE  AccountsInv' /\ IdentityKept
  <1>1. \A g \in Forms : form'[g] = IF g = f THEN next ELSE form[g]
    BY DEF AccountsInv, AccountsTypeOK, Fill
  <1>2. AccountsTypeOK'
    BY DEF AccountsInv, AccountsTypeOK, Fill, FormType
  <1>3. \A g \in Forms : form'[g] \in Profile =>
            form'[g].of \in People /\ account'[form'[g].of] # Blank
    BY <1>1 DEF AccountsInv, Exists, Profile
  <1>4. IdentityKept
    BY DEF IdentityKept, Exists
  <1> QED
    BY <1>2, <1>3, <1>4 DEF AccountsInv, Exists

LEMMA WaitingIsForm == Waiting \in FormType /\ Waiting \notin Profile
  BY DEF FormType, Waiting, Profile

\* A request that ends, and leaves the identity of every account as it was.
LEMMA LeaveStep ==
    ASSUME AccountsInv, NEW f \in Forms, Leave(f), IdentityKept,
           account' \in [People -> Account \cup {Blank}],
           roles' \in [People -> SUBSET (Forms \cup {Blank})]
    PROVE  AccountsInv'
  <1>1. form' \in [Forms -> FormType]
    BY WaitingIsForm DEF AccountsInv, AccountsTypeOK, Leave, Fill, FormType
  <1>2. \A g \in Forms : form'[g] = IF g = f THEN Waiting ELSE form[g]
    BY DEF AccountsInv, AccountsTypeOK, Leave, Fill
  <1>3. \A p \in People : Exists(p) => Exists(p)'
    BY DEF IdentityKept, Exists
  <1>4. \A g \in Forms : form'[g] \in Profile =>
            form'[g].of \in People /\ account'[form'[g].of] # Blank
    BY <1>2, <1>3, WaitingIsForm DEF AccountsInv, Exists
  <1> QED
    BY <1>1, <1>4 DEF AccountsInv, AccountsTypeOK, FormType, Exists

Confirmed(row, cpf, birth) == [row EXCEPT !.cpf = cpf, !.birth = birth]

LEMMA ConfirmedRow ==
    ASSUME NEW row \in Account, NEW cpf \in Cpfs \cup {Blank}, NEW birth \in Births \cup {Blank}
    PROVE  /\ Confirmed(row, cpf, birth) \in Account
           /\ Confirmed(row, cpf, birth).cpf = cpf
           /\ Confirmed(row, cpf, birth).birth = birth
  BY DEF Confirmed, Account

LEMMA AccountsInitHolds == AccountsInit => AccountsInv
  <1> SUFFICES ASSUME AccountsInit
               PROVE  AccountsInv
    OBVIOUS
  <1>1. AccountsTypeOK
    BY AccountsAssumption DEF AccountsInit, AccountsTypeOK, Account
  <1> QED
    BY <1>1, WaitingIsForm DEF AccountsInit, AccountsInv

LEMMA ReadingStep ==
    ASSUME AccountsInv, NEW f \in Forms,
           \/ \E p \in People, cpf \in Cpfs, birth \in Births :
                StartRegistration(f, Mail[p], cpf, birth)
           \/ \E p \in People, cpf \in Cpfs \cup {Blank}, birth \in Births \cup {Blank} :
                ReadProfile(f, p, [cpf |-> cpf, birth |-> birth])
           \/ \E p \in People : Authorize(f, p)
           \/ \E p \in People, grant \in BOOLEAN : DeleteRoles(f, p, grant)
           \/ FindByCpf(f) \/ FindOwner(f) \/ Drop(f)
    PROVE  AccountsInv' /\ IdentityKept
  <1>1. ASSUME NEW p \in People, NEW cpf \in Cpfs, NEW birth \in Births,
               StartRegistration(f, Mail[p], cpf, birth)
        PROVE  AccountsInv' /\ IdentityKept
    <2> DEFINE data == [email |-> Mail[p], cpf |-> cpf, birth |-> birth]
               next == [step |-> "findByCpf", data |-> data]
    <2>1. data \in Account
      BY DEF Account
    <2> HIDE DEF data
    <2>2. next \in Registering /\ next \in FormType /\ next \notin Profile
      BY <2>1 DEF Registering, Profile, FormType
    <2>3. Fill(f, next) /\ account' = account /\ roles' = roles
      BY <1>1 DEF StartRegistration, data
    <2> QED
      BY <2>2, <2>3, FillStep
  <1>2. ASSUME NEW p \in People, NEW cpf \in Cpfs \cup {Blank}, NEW birth \in Births \cup {Blank},
               ReadProfile(f, p, [cpf |-> cpf, birth |-> birth])
        PROVE  AccountsInv' /\ IdentityKept
    <2> DEFINE data == [cpf |-> cpf, birth |-> birth]
               asksCpf == data.cpf # Blank /\ account[p].cpf = Blank
               asksBirth == data.birth # Blank /\ account[p].birth = Blank
               next == [step |-> IF asksCpf THEN "findOwner" ELSE "update", of |-> p,
                        data |-> data, cpf |-> asksCpf, birth |-> asksBirth]
    <2>1. Fill(f, next) /\ account' = account /\ roles' = roles /\ Exists(p)
      BY <1>2 DEF ReadProfile
    <2>2. asksCpf \in BOOLEAN /\ asksBirth \in BOOLEAN
      OBVIOUS
    <2> HIDE DEF asksCpf, asksBirth
    <2>3. next \in Profile
      BY <2>2 DEF Profile
    <2>4. next \in FormType /\ next.of = p
      BY <2>3 DEF FormType
    <2> HIDE DEF next
    <2> QED
      BY <2>1, <2>4, FillStep
  <1>3. ASSUME NEW p \in People, Authorize(f, p)
        PROVE  AccountsInv' /\ IdentityKept
    <2> DEFINE next == [step |-> "authorized", by |-> p]
    <2>1. next \in FormType /\ next \notin Profile
      BY DEF FormType, Authorized, Profile
    <2> QED
      BY <1>3, <2>1, FillStep DEF Authorize
  <1>4. ASSUME NEW p \in People, NEW grant \in BOOLEAN, DeleteRoles(f, p, grant)
        PROVE  AccountsInv' /\ IdentityKept
    <2> DEFINE next == [step |-> "roles", of |-> p, grant |-> grant, old |-> roles[p]]
    <2>1. roles[p] \in SUBSET (Forms \cup {Blank})
      BY DEF AccountsInv, AccountsTypeOK
    <2>2. next \in FormType /\ next \notin Profile
      BY <2>1 DEF FormType, Roles, Profile
    <2> QED
      BY <1>4, <2>2, FillStep DEF DeleteRoles
  <1>5. CASE FindByCpf(f)
    <2>1. form[f] \in Registering
      BY <1>5, FormFields DEF FindByCpf, AccountsInv
    <2>2. [form[f] EXCEPT !.step = "create"] \in FormType
          /\ [form[f] EXCEPT !.step = "create"] \notin Profile
      BY <2>1 DEF FormType, Registering, Profile
    <2> QED
      BY <1>5, <2>2, FillStep, WaitingIsForm DEF FindByCpf, Leave
  <1>6. CASE FindOwner(f)
    <2>1. form[f] \in Profile /\ Exists(form[f].of)
      BY <1>6, FormFields DEF FindOwner, AccountsInv
    <2>2. [form[f] EXCEPT !.step = "update"] \in FormType
          /\ [form[f] EXCEPT !.step = "update"].of = form[f].of
      BY <2>1 DEF FormType, Profile
    <2> QED
      BY <1>6, <2>1, <2>2, FillStep, WaitingIsForm DEF FindOwner, Leave
  <1>7. CASE Drop(f)
    BY <1>7, FillStep, WaitingIsForm DEF Drop, Leave
  <1> QED
    BY <1>1, <1>2, <1>3, <1>4, <1>5, <1>6, <1>7

LEMMA CreateUserStep ==
    ASSUME AccountsInv, NEW f \in Forms, NEW p \in People, CreateUser(f, p)
    PROVE  AccountsInv' /\ IdentityKept
  <1>1. form[f].data \in Account
    <2>1. form[f] \in Registering
      BY FormFields DEF CreateUser, AccountsInv
    <2> QED
      BY <2>1 DEF Registering
  <1>2. account' = account \/ account' = [account EXCEPT ![p] = form[f].data]
    BY DEF CreateUser
  <1>3. account' \in [People -> Account \cup {Blank}]
    BY <1>1, <1>2 DEF AccountsInv, AccountsTypeOK
  <1>4. \A x \in People \ {p} : account'[x] = account[x]
    BY <1>2 DEF AccountsInv, AccountsTypeOK
  <1>5. IdentityKept
    BY <1>4 DEF IdentityKept, CreateUser, Exists
  <1> QED
    BY <1>3, <1>5, LeaveStep DEF CreateUser, AccountsInv, AccountsTypeOK

LEMMA UpdateProfileStep ==
    ASSUME AccountsInv, NEW f \in Forms, UpdateProfile(f)
    PROVE  AccountsInv' /\ IdentityKept
  <1> DEFINE doc == form[f]
             p == doc.of
             row == account[p]
             cpf == IF doc.cpf THEN doc.data.cpf ELSE row.cpf
             birth == IF doc.birth THEN doc.data.birth ELSE row.birth
             new == Confirmed(row, cpf, birth)
  <1>1. doc \in Profile /\ p \in People /\ Exists(p)
    BY FormFields DEF UpdateProfile, AccountsInv
  <1>2. row \in Account
    BY <1>1 DEF AccountsInv, AccountsTypeOK, Exists
  <1>3. account' = account \/ (StillBlank(row, doc) /\ account' = [account EXCEPT ![p] = new])
    BY DEF UpdateProfile, Confirmed
  <1>4. cpf \in Cpfs \cup {Blank} /\ birth \in Births \cup {Blank}
    BY <1>1, <1>2 DEF Profile, Account
  <1>5. StillBlank(row, doc) => /\ row.cpf # Blank => cpf = row.cpf
                                /\ row.birth # Blank => birth = row.birth
    BY DEF StillBlank
  <1> HIDE DEF cpf, birth
  <1>6. new \in Account /\ new.cpf = cpf /\ new.birth = birth
    BY <1>2, <1>4, ConfirmedRow
  <1>7. new # Blank
    BY <1>6, AccountsAssumption
  <1> HIDE DEF new
  <1>8. account' \in [People -> Account \cup {Blank}]
    BY <1>3, <1>6 DEF AccountsInv, AccountsTypeOK
  <1>9. IdentityKept
    <2>1. \A x \in People \ {p} : account'[x] = account[x]
      BY <1>3 DEF AccountsInv, AccountsTypeOK
    <2>2. account'[p] = row \/ (StillBlank(row, doc) /\ account'[p] = new)
      BY <1>1, <1>3 DEF AccountsInv, AccountsTypeOK
    <2>3. /\ account'[p] # Blank
          /\ row.cpf # Blank => account'[p].cpf = row.cpf
          /\ row.birth # Blank => account'[p].birth = row.birth
      BY <1>1, <1>5, <1>6, <1>7, <2>2 DEF Exists
    <2> QED
      BY <2>1, <2>3 DEF IdentityKept, Exists
  <1> QED
    BY <1>8, <1>9, LeaveStep DEF UpdateProfile, AccountsInv, AccountsTypeOK

LEMMA CommitRolesStep ==
    ASSUME AccountsInv, NEW f \in Forms, CommitRoles(f)
    PROVE  AccountsInv' /\ IdentityKept
  <1>1. form[f] \in Roles
    BY FormFields DEF CommitRoles, AccountsInv
  <1>2. account' = account
    BY DEF CommitRoles
  <1>3. IdentityKept
    BY <1>2 DEF IdentityKept, Exists
  <1>4. roles' \in [People -> SUBSET (Forms \cup {Blank})]
    BY DEF CommitRoles, AccountsInv, AccountsTypeOK
  <1> QED
    BY <1>2, <1>3, <1>4, LeaveStep DEF CommitRoles, AccountsInv, AccountsTypeOK

LEMMA AccountsNextHolds ==
    AccountsInv /\ [AccountsNext]_accountVars => AccountsInv' /\ IdentityKept
  <1> SUFFICES ASSUME AccountsInv, [AccountsNext]_accountVars
               PROVE  AccountsInv' /\ IdentityKept
    OBVIOUS
  <1>1. CASE UNCHANGED accountVars
    BY <1>1 DEF accountVars, AccountsInv, AccountsTypeOK, Exists, IdentityKept
  <1>2. CASE AccountsNext
    BY <1>2, ReadingStep, CreateUserStep, UpdateProfileStep, CommitRolesStep DEF AccountsNext
  <1> QED
    BY <1>1, <1>2

\* A CPF or a date of birth that was confirmed is never changed or lost, for any
\* number of overlapping registrations and profile updates (UpdateProfileService,
\* UserService.createUser).
THEOREM IdentityHolds == AccountsSpec => IdentityIsFinal
  <1>1. AccountsInv /\ [AccountsNext]_accountVars => AccountsInv'
    BY AccountsNextHolds
  <1>2. AccountsInv /\ [AccountsNext]_accountVars => [IdentityKept]_accountVars
    BY AccountsNextHolds
  <1>3. [IdentityKept]_accountVars
          => [\A p \in People : Exists(p) =>
                /\ account'[p] # Blank
                /\ account[p].cpf # Blank => account'[p].cpf = account[p].cpf
                /\ account[p].birth # Blank => account'[p].birth = account[p].birth]_accountVars
    BY DEF IdentityKept
  <1> QED
    BY AccountsInitHolds, <1>1, <1>2, <1>3, PTL DEF AccountsSpec, IdentityIsFinal

=============================================================================
