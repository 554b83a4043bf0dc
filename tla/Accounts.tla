------------------------------ MODULE Accounts ------------------------------
(***************************************************************************)
(* Who an account is and what it may administer: UserService.createUser,   *)
(* UpdateProfileService, authMiddleware's demand for a complete identity,  *)
(* authorize with hasAdminPermission, and setAdminRoles of                 *)
(* AdminUserManagementService.                                             *)
(*                                                                         *)
(* Every service reads, decides and then writes, and the rows may change    *)
(* in between; PostgreSQL's default isolation shows each statement what is *)
(* committed when it starts.  Names, addresses and the password are left   *)
(* out: nothing is decided by them here.                                   *)
(***************************************************************************)
EXTENDS Naturals, FiniteSets

CONSTANTS
    People,      \* ids of accounts, registered or yet to be
    Legacy,      \* accounts of before CPF and birth date were asked for
    FirstAdmins, \* legacy accounts with the ADMIN role
    Mail,        \* mail[p]: the e-mail address of the person behind p
    Cpfs,
    Births,      \* dates of birth
    Blank,       \* null
    Forms        \* requests that can be in progress together

Account == [email : {Mail[p] : p \in People}, cpf : Cpfs \cup {Blank},
            birth : Births \cup {Blank}]

ASSUME AccountsAssumption ==
    /\ FirstAdmins \subseteq Legacy /\ Legacy \subseteq People
    /\ Blank \notin Cpfs \cup Births \cup Account

VARIABLES
    account,     \* users: email, cpf, birthDate
    roles,       \* user_admin_roles: the rows of each account, named by who made them
    form         \* what each request is doing

accountVars == <<account, roles, form>>

Waiting == [step |-> "waiting"]
Registering == [step : {"findByCpf", "create"}, data : Account]
Profile == [step : {"findOwner", "update"}, of : People,
            data : [cpf : Cpfs \cup {Blank}, birth : Births \cup {Blank}],
            cpf : BOOLEAN, birth : BOOLEAN]
Authorized == [step : {"authorized"}, by : People]
Roles == [step : {"roles"}, of : People, grant : BOOLEAN, old : SUBSET (Forms \cup {Blank})]

AccountsTypeOK ==
    /\ account \in [People -> Account \cup {Blank}]
    /\ roles \in [People -> SUBSET (Forms \cup {Blank})]
    /\ form \in [Forms -> {Waiting} \cup Registering \cup Profile \cup Authorized \cup Roles]

AccountsInit ==
    /\ account = [p \in People |->
                    IF p \in Legacy
                    THEN [email |-> Mail[p], cpf |-> Blank, birth |-> Blank] ELSE Blank]
    /\ roles = [p \in People |-> IF p \in FirstAdmins THEN {Blank} ELSE {}]
    /\ form = [f \in Forms |-> Waiting]

On(f, step) == form[f].step = step
Fill(f, next) == form' = [form EXCEPT ![f] = next]
Leave(f) == Fill(f, Waiting)

Exists(p) == account[p] # Blank
HasEmail(email) == \E p \in People : Exists(p) /\ account[p].email = email
HasCpf(cpf) == \E p \in People : Exists(p) /\ account[p].cpf = cpf

-----------------------------------------------------------------------------
(* REGISTRATION                                                             *)

\* CreateUserSchema asks for both; findByEmail finds nobody.
StartRegistration(f, email, cpf, birth) ==
    /\ On(f, "waiting")
    /\ ~HasEmail(email)
    /\ Fill(f, [step |-> "findByCpf",
                data |-> [email |-> email, cpf |-> cpf, birth |-> birth]])
    /\ UNCHANGED <<account, roles>>

FindByCpf(f) ==
    /\ On(f, "findByCpf")
    /\ IF HasCpf(form[f].data.cpf) THEN Leave(f) ELSE Fill(f, [form[f] EXCEPT !.step = "create"])
    /\ UNCHANGED <<account, roles>>

\* The unique indexes of email and cpf; a violation is answered 400.
CreateUser(f, p) ==
    /\ On(f, "create")
    /\ ~Exists(p)
    /\ account' = IF HasEmail(form[f].data.email) \/ HasCpf(form[f].data.cpf)
                  THEN account ELSE [account EXCEPT ![p] = form[f].data]
    /\ Leave(f)
    /\ UNCHANGED roles

-----------------------------------------------------------------------------
(* PROFILE                                                                  *)

\* What was confirmed may be sent again, never differently.
Agrees(old, new) == old = Blank \/ new = Blank \/ old = new

\* UpdateProfileService reads the identity, refuses another one, and decides what
\* this update confirms.
ReadProfile(f, p, data) ==
    /\ On(f, "waiting")
    /\ Exists(p)
    /\ Agrees(account[p].cpf, data.cpf)
    /\ Agrees(account[p].birth, data.birth)
    /\ LET cpf == data.cpf # Blank /\ account[p].cpf = Blank
       IN  Fill(f, [step |-> IF cpf THEN "findOwner" ELSE "update", of |-> p, data |-> data,
                    cpf |-> cpf, birth |-> data.birth # Blank /\ account[p].birth = Blank])
    /\ UNCHANGED <<account, roles>>

FindOwner(f) ==
    /\ On(f, "findOwner")
    /\ IF HasCpf(form[f].data.cpf) THEN Leave(f) ELSE Fill(f, [form[f] EXCEPT !.step = "update"])
    /\ UNCHANGED <<account, roles>>

\* Fault: the update is by id alone.
ById(row, doc) == TRUE

\* The update's AND, over the row as it is now.
StillBlank(row, doc) ==
    /\ doc.cpf => row.cpf = Blank
    /\ doc.birth => row.birth = Blank

\* P2025 (no such row any more) and P2002 (the unique index) are answered 409.
UpdateProfile(f) ==
    /\ On(f, "update")
    /\ LET doc == form[f]
           row == account[doc.of]
           new == [row EXCEPT !.cpf = IF doc.cpf THEN doc.data.cpf ELSE @,
                              !.birth = IF doc.birth THEN doc.data.birth ELSE @]
           taken == doc.cpf /\ \E q \in People \ {doc.of} :
                                  Exists(q) /\ account[q].cpf = doc.data.cpf
       IN  account' = IF StillBlank(row, doc) /\ ~taken
                      THEN [account EXCEPT ![doc.of] = new] ELSE account
    /\ Leave(f)
    /\ UNCHANGED roles

-----------------------------------------------------------------------------
(* ADMINISTRATION                                                           *)

\* authMiddleware: everything but /api/me needs both.
Complete(p) == Exists(p) /\ account[p].cpf # Blank /\ account[p].birth # Blank

\* hasAdminPermission: any row of an administrative role, whatever the permission.
Authorize(f, p) ==
    /\ On(f, "waiting")
    /\ Complete(p)
    /\ roles[p] # {}
    /\ Fill(f, [step |-> "authorized", by |-> p])
    /\ UNCHANGED <<account, roles>>

\* Nobody removes his own roles.
MaySet(by, of, grant) == by # of \/ grant

\* A row another transaction is deleting makes this deleteMany wait for its commit.
Locked(p) == \E f \in Forms : On(f, "roles") /\ form[f].of = p /\ form[f].old \cap roles[p] # {}

\* setAdminRoles' transaction up to its deleteMany, which sees the committed rows.
DeleteRoles(f, p, grant) ==
    /\ On(f, "authorized")
    /\ Exists(p)
    /\ MaySet(form[f].by, p, grant)
    /\ ~Locked(p)
    /\ Fill(f, [step |-> "roles", of |-> p, grant |-> grant, old |-> roles[p]])
    /\ UNCHANGED <<account, roles>>

\* createMany, the audit entry and the commit.
CommitRoles(f) ==
    /\ On(f, "roles")
    /\ roles' = [roles EXCEPT ![form[f].of] =
                   (@ \ form[f].old) \cup (IF form[f].grant THEN {f} ELSE {})]
    /\ Leave(f)
    /\ UNCHANGED account

\* The request's process dies, or its transaction is rolled back.
Drop(f) ==
    /\ ~On(f, "waiting")
    /\ Leave(f)
    /\ UNCHANGED <<account, roles>>

-----------------------------------------------------------------------------
AccountsNext ==
    \E f \in Forms :
        \/ \E p \in People, cpf \in Cpfs, birth \in Births :
             StartRegistration(f, Mail[p], cpf, birth)
        \/ \E p \in People, cpf \in Cpfs \cup {Blank}, birth \in Births \cup {Blank} :
             ReadProfile(f, p, [cpf |-> cpf, birth |-> birth])
        \/ \E p \in People : CreateUser(f, p) \/ Authorize(f, p)
        \/ \E p \in People, grant \in BOOLEAN : DeleteRoles(f, p, grant)
        \/ FindByCpf(f) \/ FindOwner(f) \/ UpdateProfile(f) \/ CommitRoles(f) \/ Drop(f)

AccountsSpec == AccountsInit /\ [][AccountsNext]_accountVars

-----------------------------------------------------------------------------
(* PROPERTIES                                                               *)

\* A CPF or a date of birth that was confirmed is never changed or lost, whichever
\* registrations and profile updates overlap: each decides on a read, and only the
\* condition of its update keeps two of them from confirming different values
\* (UpdateProfileService).
IdentityIsFinal ==
    [][\A p \in People : Exists(p) =>
          /\ account'[p] # Blank
          /\ account[p].cpf # Blank => account'[p].cpf = account[p].cpf
          /\ account[p].birth # Blank => account'[p].birth = account[p].birth]_accountVars

\* There is always an account that may administer.  It does not hold: two admins who
\* are both authorized remove each other.
AnAdminRemains == FirstAdmins # {} => \E p \in People : roles[p] # {}

\* A removal of the roles of an account leaves it without any.  It does not hold: the
\* deleteMany does not see the row of a grant that commits before the removal does.
RemovalRemoves ==
    [][\A f \in Forms : On(f, "roles") /\ ~form[f].grant /\ roles # roles'
          => (form'[f] = Waiting => roles'[form[f].of] = {})]_accountVars
=============================================================================
