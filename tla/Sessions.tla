------------------------------- MODULE Sessions -------------------------------
(***************************************************************************)
(* Accounts and their sessions: LoginService, establishAuthenticatedSession,*)
(* authMiddleware and the session lifetime middleware, RedisSessionStore,  *)
(* logout, and what withdraws access: ChangePasswordService,               *)
(* RequestPasswordResetService, ResetPasswordService and the admin's       *)
(* blockUser, unblockUser and resetPassword, and the script for requests   *)
(* of data subjects, privacy-subject-request.js.                           *)
(*                                                                         *)
(* Every request works on the copy of the session it loaded at its start   *)
(* and, rolling, writes it back at its end: a row of Redis that a logout or *)
(* a revocation has deleted meanwhile comes back.  What keeps a withdrawn  *)
(* session out is the version of the users table, read by every request.   *)
(* A password is abstracted to whether it matches the hash that was read.  *)
(***************************************************************************)
EXTENDS Naturals, FiniteSets

CONSTANTS
    Users,
    Null,        \* no row
    NoSid,       \* no session
    Sids,        \* session ids: random, so one is never issued twice
    Links,       \* password reset tokens, never issued twice either
    Requests,    \* HTTP requests that can be in progress together
    MaxFailed,   \* MAX_FAILED_ATTEMPTS (5 in the code)
    MaxWrong,    \* bound on the failures counted before a reset of the counter
    MaxVersion   \* bound on sessionVersion

VARIABLES
    user,       \* the columns of users that say who may enter
    rows,       \* Redis: f12:session:<sid>
    index,      \* Redis: f12:user-sessions:<user>
    issued,     \* session ids handed out so far
    live,       \* password_reset_tokens: unused and not expired
    spent,      \* password_reset_tokens: the others
    request,    \* requests in progress
    withdrawn,  \* history: how often the access of a user has been withdrawn
    wrong       \* history: wrong passwords since the counter was last cleared

store == <<rows, index, issued>>
links == <<live, spent>>
history == <<withdrawn, wrong>>
vars == <<user, rows, index, issued, live, spent, request, withdrawn, wrong>>

\* lockedUntil: null, in the future, in the past.
UserRow == [version : 0..MaxVersion, blocked : BOOLEAN, failed : 0..MaxWrong,
            lock : {"never", "locked", "over"}]

\* seen is history: withdrawn[user] when the password of this session was verified.
Session == [user : Users, version : 0..MaxVersion, seen : 0..MaxVersion]

ASSUME SessionsAssumption ==
    /\ MaxFailed \in Nat \ {0} /\ MaxWrong \in Nat /\ MaxVersion \in Nat
    /\ NoSid \notin Sids
    /\ Null \notin Session

Idle == [pc |-> "idle"]
LoggingIn == [pc : {"verify", "clear", "establish"}, session : Session, dirty : BOOLEAN,
              old : Sids \cup {NoSid}]
WithSession == [pc : {"save", "loaded", "admitted"}, sid : Sids, session : Session]
Changing == [pc : {"change"}, sid : Sids, session : Session]
ForUser == [pc : {"ask", "withdraw"}, user : Users, then : Sids \cup {NoSid}]
Resetting == [pc : {"reset"}, user : Users, link : Links]
Revoking == [pc : {"revoke"}, user : Users, sids : SUBSET Sids, then : Sids \cup {NoSid}]

TypeOK ==
    /\ user \in [Users -> UserRow]
    /\ rows \in [Sids -> Session \cup {Null}]
    /\ index \in [Users -> SUBSET Sids]
    /\ issued \subseteq Sids
    /\ live \in [Users -> SUBSET Links]
    /\ spent \subseteq Links
    /\ request \in [Requests -> {Idle} \cup LoggingIn \cup WithSession \cup Changing
                                  \cup ForUser \cup Resetting \cup Revoking]
    /\ withdrawn \in [Users -> 0..MaxVersion]
    /\ wrong \in [Users -> 0..MaxWrong]

Init ==
    /\ user = [u \in Users |-> [version |-> 0, blocked |-> FALSE, failed |-> 0,
                                lock |-> "never"]]
    /\ rows = [s \in Sids |-> Null]
    /\ index = [u \in Users |-> {}]
    /\ issued = {}
    /\ live = [u \in Users |-> {}]
    /\ spent = {}
    /\ request = [r \in Requests |-> Idle]
    /\ withdrawn = [u \in Users |-> 0]
    /\ wrong = [u \in Users |-> 0]

At(r, pc) == request[r].pc = pc
Become(r, q) == request' = [request EXCEPT ![r] = q]
End(r) == Become(r, Idle)

-----------------------------------------------------------------------------
(* THE STORE                                                                *)

\* persist: SET, then SADD and EXPIRE of the user's index, which lives as long.
SetRow(sid, session) == rows' = [rows EXCEPT ![sid] = session]
AddToIndex(sid, u) == index' = [index EXCEPT ![u] = @ \cup {sid}]

\* remove: the row goes, and the index forgets it if there was a row.
Remove(sid) ==
    /\ rows' = [rows EXCEPT ![sid] = Null]
    /\ index' = [u \in Users |->
                   IF rows[sid] # Null /\ rows[sid].user = u THEN index[u] \ {sid} ELSE index[u]]

\* The rest of a persist that has set its row: a login's or a touch's.
FinishSave(r) ==
    /\ At(r, "save")
    /\ AddToIndex(request[r].sid, request[r].session.user)
    /\ End(r)
    /\ UNCHANGED <<user, rows, issued, links, history>>

\* The idle TTL of a row is over.
RowExpires(sid) ==
    /\ rows[sid] # Null
    /\ rows' = [rows EXCEPT ![sid] = Null]
    /\ UNCHANGED <<user, index, issued, links, request, history>>

-----------------------------------------------------------------------------
(* LOGIN                                                                    *)

\* LoginService reads the user once; a blocked or a locked one is refused.
StartLogin(r, u, old) ==
    /\ At(r, "idle")
    /\ ~user[u].blocked
    /\ user[u].lock # "locked"
    /\ Become(r, [pc |-> "verify", old |-> old,
                  session |-> [user |-> u, version |-> user[u].version, seen |-> withdrawn[u]],
                  dirty |-> user[u].failed # 0 \/ user[u].lock # "never"])
    /\ UNCHANGED <<user, store, links, history>>

\* Fault: the lock looks at the counter before this failure.
LockOneLate(row) ==
    [row EXCEPT !.failed = @ + 1, !.lock = IF row.failed >= MaxFailed THEN "locked" ELSE @]

\* One UPDATE that counts in the database, not from what was read.
CountFailure(row) ==
    [row EXCEPT !.failed = @ + 1,
                !.lock = IF row.failed + 1 >= MaxFailed THEN "locked" ELSE @]

WrongPassword(r) ==
    /\ At(r, "verify")
    /\ LET u == request[r].session.user
       IN  /\ user[u].failed < MaxWrong
           /\ wrong[u] < MaxWrong
           /\ user' = [user EXCEPT ![u] = CountFailure(@)]
           /\ wrong' = [wrong EXCEPT ![u] = @ + 1]
    /\ End(r)
    /\ UNCHANGED <<store, links, withdrawn>>

RightPassword(r) ==
    /\ At(r, "verify")
    /\ Become(r, [request[r] EXCEPT !.pc = IF request[r].dirty THEN "clear" ELSE "establish"])
    /\ UNCHANGED <<user, store, links, history>>

Cleared(row) == [row EXCEPT !.failed = 0, !.lock = "never"]

ClearFailures(r) ==
    /\ At(r, "clear")
    /\ LET u == request[r].session.user
       IN  /\ user' = [user EXCEPT ![u] = Cleared(@)]
           /\ wrong' = [wrong EXCEPT ![u] = 0]
    /\ Become(r, [request[r] EXCEPT !.pc = "establish"])
    /\ UNCHANGED <<store, links, withdrawn>>

\* Fault: the version of the new session is read again when the session is made.
VersionWhenEstablished(session) == [session EXCEPT !.version = user[session.user].version]

\* The session carries what was read with the password.
SessionOf(session) == session

\* regenerate destroys the session the browser came with; save writes the new one.
Establish(r, sid) ==
    /\ At(r, "establish")
    /\ sid \notin issued
    /\ issued' = issued \cup {sid}
    /\ LET old == request[r].old
           new == SessionOf(request[r].session)
       IN  /\ rows' = [s \in Sids |->
                         IF s = sid THEN new ELSE IF s = old THEN Null ELSE rows[s]]
           /\ index' = [u \in Users |->
                IF old # NoSid /\ rows[old] # Null /\ rows[old].user = u
                THEN index[u] \ {old} ELSE index[u]]
           /\ Become(r, [pc |-> "save", sid |-> sid, session |-> new])
    /\ UNCHANGED <<user, links, history>>

-----------------------------------------------------------------------------
(* A REQUEST WITH A SESSION                                                 *)

Load(r, sid) ==
    /\ At(r, "idle")
    /\ rows[sid] # Null
    /\ Become(r, [pc |-> "loaded", sid |-> sid, session |-> rows[sid]])
    /\ UNCHANGED <<user, store, links, history>>

\* The absolute lifetime is over, or authMiddleware refuses: the session goes.
Destroy(r) ==
    /\ Remove(request[r].sid)
    /\ End(r)
    /\ UNCHANGED <<user, issued, links, history>>

TooOld(r) == At(r, "loaded") /\ Destroy(r)

MayEnter(session) ==
    /\ ~user[session.user].blocked
    /\ session.version = user[session.user].version

Refuse(r) ==
    /\ At(r, "loaded")
    /\ ~MayEnter(request[r].session)
    /\ Destroy(r)

Admit(r) ==
    /\ At(r, "loaded")
    /\ MayEnter(request[r].session)
    /\ Become(r, [request[r] EXCEPT !.pc = "admitted"])
    /\ UNCHANGED <<user, store, links, history>>

\* The answer: rolling sessions are touched, and this store's touch is a set.
Answer(r) ==
    /\ At(r, "admitted")
    /\ SetRow(request[r].sid, request[r].session)
    /\ Become(r, [request[r] EXCEPT !.pc = "save"])
    /\ UNCHANGED <<user, index, issued, links, history>>

Logout(r) == At(r, "admitted") /\ Destroy(r)

-----------------------------------------------------------------------------
(* WITHDRAWING ACCESS                                                       *)

NextVersion(row) == [row EXCEPT !.version = @ + 1]

Withdraw(u, row) ==
    /\ user[u].version < MaxVersion
    /\ withdrawn[u] < MaxVersion
    /\ user' = [user EXCEPT ![u] = row]
    /\ withdrawn' = [withdrawn EXCEPT ![u] = @ + 1]

\* revokeUserSessions comes after the commit: SMEMBERS, then the deletions.
ThenRevoke(r, u, then) == Become(r, [pc |-> "withdraw", user |-> u, then |-> then])

\* ChangePasswordService: the current password is verified on an earlier read.
StartChange(r) ==
    /\ At(r, "admitted")
    /\ Become(r, [request[r] EXCEPT !.pc = "change"])
    /\ UNCHANGED <<user, store, links, history>>

CommitChange(r) ==
    /\ At(r, "change")
    /\ LET u == request[r].session.user
       IN  /\ Withdraw(u, NextVersion(user[u]))
           /\ ThenRevoke(r, u, request[r].sid)
    /\ UNCHANGED <<store, links, wrong>>

\* RequestPasswordResetService: older links are spent, then one is created.
AskReset(r, u) ==
    /\ At(r, "idle")
    /\ spent' = spent \cup live[u]
    /\ live' = [live EXCEPT ![u] = {}]
    /\ Become(r, [pc |-> "ask", user |-> u, then |-> NoSid])
    /\ UNCHANGED <<user, store, history>>

Fresh(link) == link \notin spent /\ \A u \in Users : link \notin live[u]

CreateLink(r, link) ==
    /\ At(r, "ask")
    /\ Fresh(link)
    /\ live' = [live EXCEPT ![request[r].user] = @ \cup {link}]
    /\ End(r)
    /\ UNCHANGED <<user, store, spent, history>>

\* The thirty minutes of a link are over.
LinkExpires(u, link) ==
    /\ link \in live[u]
    /\ live' = [live EXCEPT ![u] = @ \ {link}]
    /\ spent' = spent \cup {link}
    /\ UNCHANGED <<user, store, request, history>>

\* ResetPasswordService reads the token, hashes, and writes both rows by id.
StartReset(r, u, link) ==
    /\ At(r, "idle")
    /\ link \in live[u]
    /\ Become(r, [pc |-> "reset", user |-> u, link |-> link])
    /\ UNCHANGED <<user, store, links, history>>

CommitReset(r) ==
    /\ At(r, "reset")
    /\ LET u == request[r].user
       IN  /\ Withdraw(u, NextVersion(user[u]))
           /\ live' = [live EXCEPT ![u] = @ \ {request[r].link}]
           /\ ThenRevoke(r, u, NoSid)
    /\ spent' = spent \cup {request[r].link}
    /\ UNCHANGED <<store, wrong>>

\* AdminUserManagementService.blockUser and unblockUser.
Block(r, u) ==
    /\ At(r, "idle")
    /\ Withdraw(u, [NextVersion(user[u]) EXCEPT !.blocked = TRUE])
    /\ ThenRevoke(r, u, NoSid)
    /\ UNCHANGED <<store, links, wrong>>

Unblock(u) ==
    /\ user' = [user EXCEPT ![u] = [Cleared(@) EXCEPT !.blocked = FALSE]]
    /\ wrong' = [wrong EXCEPT ![u] = 0]
    /\ UNCHANGED <<store, links, request, withdrawn>>

\* AdminUserManagementService.resetPassword, when the mail goes out: a password
\* nobody knows, and a link.
AdminReset(r, u, link) ==
    /\ At(r, "idle")
    /\ Fresh(link)
    /\ Withdraw(u, Cleared(NextVersion(user[u])))
    /\ wrong' = [wrong EXCEPT ![u] = 0]
    /\ spent' = spent \cup live[u]
    /\ live' = [live EXCEPT ![u] = {link}]
    /\ ThenRevoke(r, u, NoSid)
    /\ UNCHANGED store

\* privacy-subject-request.js: every link of the user is deleted.  A reset that has
\* read one of them fails when it writes to it, and is dropped here.
CleanUp(r, u) ==
    /\ At(r, "idle")
    /\ Withdraw(u, NextVersion(user[u]))
    /\ spent' = spent \cup live[u]
    /\ live' = [live EXCEPT ![u] = {}]
    /\ request' = [x \in Requests |->
           IF x = r THEN [pc |-> "withdraw", user |-> u, then |-> NoSid]
           ELSE IF At(x, "reset") /\ request[x].user = u THEN Idle ELSE request[x]]
    /\ UNCHANGED <<store, wrong>>

ListSessions(r) ==
    /\ At(r, "withdraw")
    /\ Become(r, [pc |-> "revoke", user |-> request[r].user, sids |-> index[request[r].user],
                  then |-> request[r].then])
    /\ UNCHANGED <<user, store, links, history>>

\* After a change of password the controller also destroys its own session.
Revoke(r) ==
    /\ At(r, "revoke")
    /\ rows' = [s \in Sids |->
                  IF s \in request[r].sids \cup {request[r].then} THEN Null ELSE rows[s]]
    /\ index' = [index EXCEPT ![request[r].user] = {}]
    /\ End(r)
    /\ UNCHANGED <<user, issued, links, history>>

\* The fifteen minutes of a lock are over.
LockEnds(u) ==
    /\ user[u].lock = "locked"
    /\ user' = [user EXCEPT ![u].lock = "over"]
    /\ UNCHANGED <<store, links, request, history>>

\* A request dies between two of its steps: a crash, or Redis is away.
Die(r) ==
    /\ request[r] # Idle
    /\ End(r)
    /\ UNCHANGED <<user, store, links, history>>

-----------------------------------------------------------------------------
Next ==
    \/ \E r \in Requests, u \in Users, old \in issued \cup {NoSid} : StartLogin(r, u, old)
    \/ \E r \in Requests : WrongPassword(r) \/ RightPassword(r) \/ ClearFailures(r)
    \/ \E r \in Requests, sid \in Sids : Establish(r, sid) \/ Load(r, sid)
    \/ \E r \in Requests : FinishSave(r) \/ TooOld(r) \/ Refuse(r) \/ Admit(r)
    \/ \E r \in Requests : Answer(r) \/ Logout(r) \/ StartChange(r) \/ CommitChange(r)
    \/ \E r \in Requests, u \in Users : AskReset(r, u) \/ Block(r, u) \/ CleanUp(r, u)
    \/ \E r \in Requests, link \in Links : CreateLink(r, link)
    \/ \E r \in Requests, u \in Users, link \in Links :
         StartReset(r, u, link) \/ AdminReset(r, u, link)
    \/ \E u \in Users, link \in Links : LinkExpires(u, link)
    \/ \E r \in Requests : CommitReset(r) \/ ListSessions(r) \/ Revoke(r) \/ Die(r)
    \/ \E u \in Users : Unblock(u) \/ LockEnds(u)
    \/ \E sid \in Sids : RowExpires(sid)

Spec == Init /\ [][Next]_vars

-----------------------------------------------------------------------------
(* PROPERTIES                                                               *)

\* A request enters only with a session whose password was verified after the last
\* change or reset of the password and the last block of its user: however a login, a
\* revocation and the write-back of other requests interleave, an older session stays
\* out even when its row is in Redis again (authMiddleware, LoginService).
OnlyCurrentSessions ==
    [][\A r \in Requests :
          request[r].pc # "admitted" /\ request'[r].pc = "admitted" =>
             LET s == request'[r].session
             IN  s.seen = withdrawn[s.user] /\ ~user[s.user].blocked]_vars

\* Wrong passwords are all counted, however many logins overlap: once there have been
\* MAX_FAILED_ATTEMPTS of them since the counter was cleared, the account has been
\* locked (LoginService's single UPDATE).
EveryFailureCounts ==
    \A u \in Users : wrong[u] >= MaxFailed => user[u].lock # "never"

=============================================================================
