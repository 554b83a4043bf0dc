------------------------------ MODULE MCSessions ------------------------------
(* Small instances of Sessions and of Accounts, in one run: its behaviours    *)
(* are those of one of the two, with the other at rest.                       *)
EXTENDS Sessions, Accounts, TLC

MCMail == [p \in People |-> p]

MCSymmetry == Permutations(Requests) \cup Permutations(Sids) \cup Permutations(Links)

VARIABLE about    \* which of the two this behaviour is one of

MCInit == Init /\ AccountsInit /\ about \in {"sessions", "accounts"}

InSession == about = "sessions" /\ UNCHANGED <<about, accountVars>>
InAccount == about = "accounts" /\ UNCHANGED <<about, vars>>

MCNext ==
    \/ \E r \in Requests, u \in Users :
         \/ \E old \in issued \cup {NoSid} : InSession /\ StartLogin(r, u, old)
         \/ InSession /\ AskReset(r, u)
         \/ InSession /\ Block(r, u)
         \/ InSession /\ CleanUp(r, u)
    \/ \E r \in Requests :
         \/ InSession /\ WrongPassword(r)
         \/ InSession /\ RightPassword(r)
         \/ InSession /\ ClearFailures(r)
         \/ InSession /\ FinishSave(r)
         \/ InSession /\ TooOld(r)
         \/ InSession /\ Refuse(r)
         \/ InSession /\ Admit(r)
         \/ InSession /\ Answer(r)
         \/ InSession /\ Logout(r)
         \/ InSession /\ StartChange(r)
         \/ InSession /\ CommitChange(r)
         \/ InSession /\ CommitReset(r)
         \/ InSession /\ ListSessions(r)
         \/ InSession /\ Revoke(r)
         \/ InSession /\ Die(r)
    \/ \E r \in Requests, sid \in Sids :
         \/ InSession /\ Establish(r, sid)
         \/ InSession /\ Load(r, sid)
    \/ \E r \in Requests, link \in Links :
         \/ InSession /\ CreateLink(r, link)
         \/ \E u \in Users : InSession /\ StartReset(r, u, link)
         \/ \E u \in Users : InSession /\ AdminReset(r, u, link)
    \/ \E u \in Users :
         \/ InSession /\ Unblock(u)
         \/ InSession /\ LockEnds(u)
         \/ \E link \in Links : InSession /\ LinkExpires(u, link)
    \/ \E sid \in Sids : InSession /\ RowExpires(sid)
    \/ \E f \in Forms, p \in People, cpf \in Cpfs \cup {Blank}, birth \in Births \cup {Blank} :
         \/ InAccount /\ Blank \notin {cpf, birth} /\ StartRegistration(f, Mail[p], cpf, birth)
         \/ InAccount /\ ReadProfile(f, p, [cpf |-> cpf, birth |-> birth])
    \/ \E f \in Forms, p \in People :
         \/ InAccount /\ CreateUser(f, p)
         \/ InAccount /\ Authorize(f, p)
         \/ \E grant \in BOOLEAN : InAccount /\ DeleteRoles(f, p, grant)
    \/ \E f \in Forms :
         \/ InAccount /\ FindByCpf(f)
         \/ InAccount /\ FindOwner(f)
         \/ InAccount /\ UpdateProfile(f)
         \/ InAccount /\ CommitRoles(f)
         \/ InAccount /\ Drop(f)

MCSpec == MCInit /\ [][MCNext]_<<vars, accountVars, about>>
=============================================================================
