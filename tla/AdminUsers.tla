----------------------------- MODULE AdminUsers -----------------------------
(***************************************************************************)
(* The administrators' accounts, their sessions and the requests that      *)
(* change accounts.  Every operation of AdminUserService reads a row,      *)
(* decides, and writes by the row's id after one more await: what was      *)
(* decided on may have changed.  The rights of a request are those in its  *)
(* token, which are the role of the account when it logged in.             *)
(*                                                                         *)
(* Two kinds of actions: those named after the service's operations run to *)
(* their last await, and Write is what comes after it.  Rows are never     *)
(* removed; names, addresses and the times of log-ins are left out, and so *)
(* are requests that are answered before they change anything.             *)
(***************************************************************************)

CONSTANTS
    Accounts,       \* bound: the ids the table may hold
    Emails,
    Passwords,
    Clients         \* bound: sessions, each with one request at a time

(* What stands for a field that is absent or not given. *)
None == "none"
Roles == {"ADMIN", "SUPER_ADMIN"}

ASSUME AdminAssumption ==
    /\ None \notin Accounts
    /\ None \notin Emails
    /\ None \notin Passwords

VARIABLES
    status,         \* status[a]: "absent", "active" or "deleted" (deletedAt)
    email,          \* email[a], role[a], password[a]: the other columns
    role,
    password,
    sub,            \* sub[c]: the account that the token of c names
    claim,          \* claim[c]: the role in that token
    req,            \* req[c]: the request of c and what it will write
    stage,          \* stage[c]: the await it has reached
    moved           \* history: accounts written by others since it began

table == <<status, email, role, password>>
session == <<sub, claim>>
request == <<req, stage, moved>>
vars == <<table, session, request>>

Operations ==
    {"create", "update", "password", "delete", "restore", "login"}

Request == [op : Operations \union {None}, target : Accounts \union {None},
            email : Emails \union {None}, role : Roles \union {None},
            password : Passwords \union {None}]

NoRequest == [op |-> None, target |-> None, email |-> None, role |-> None,
              password |-> None]

TypeOK ==
    /\ status \in [Accounts -> {"absent", "active", "deleted"}]
    /\ email \in [Accounts -> Emails \union {None}]
    /\ role \in [Accounts -> Roles \union {None}]
    /\ password \in [Accounts -> Passwords \union {None}]
    /\ sub \in [Clients -> Accounts \union {None}]
    /\ claim \in [Clients -> Roles \union {None}]
    /\ req \in [Clients -> Request]
    /\ stage \in [Clients -> {"idle", "email", "write"}]
    /\ moved \in [Clients -> SUBSET Accounts]

(* The migration leaves the table empty. *)
Init ==
    /\ status = [a \in Accounts |-> "absent"]
    /\ email = [a \in Accounts |-> None]
    /\ role = [a \in Accounts |-> None]
    /\ password = [a \in Accounts |-> None]
    /\ sub = [c \in Clients |-> None]
    /\ claim = [c \in Clients |-> None]
    /\ req = [c \in Clients |-> NoRequest]
    /\ stage = [c \in Clients |-> "idle"]
    /\ moved = [c \in Clients |-> {}]

-----------------------------------------------------------------------------
Present(a) == status[a] # "absent"
Active(a) == status[a] = "active"
Holders(e) == {a \in Accounts : Present(a) /\ email[a] = e}
SuperAdmins == {a \in Accounts : Active(a) /\ role[a] = "SUPER_ADMIN"}

(* requireAdmin and requireSuperAdmin look at the token alone. *)
RequireAdmin(c) == stage[c] = "idle" /\ sub[c] # None
RequireSuperAdmin(c) == RequireAdmin(c) /\ claim[c] = "SUPER_ADMIN"

(* The request of c has been checked and awaits its next statement. *)
Await(c, next, r) ==
    /\ req' = [req EXCEPT ![c] = r]
    /\ stage' = [stage EXCEPT ![c] = next]
    /\ moved' = [moved EXCEPT ![c] = {}]
    /\ UNCHANGED <<table, session>>

(* The others in progress may be overtaken by what was written. *)
Overtaken(d, written) ==
    IF stage[d] = "idle" THEN {} ELSE moved[d] \union written

(* The request of c is over; it may have written. *)
Done(c, written) ==
    /\ req' = [req EXCEPT ![c] = NoRequest]
    /\ stage' = [stage EXCEPT ![c] = "idle"]
    /\ moved' = [d \in Clients |-> IF d = c THEN {} ELSE Overtaken(d, written)]

-----------------------------------------------------------------------------
(* createAdmin: nobody has the address, deleted accounts included; the     *)
(* password is hashed meanwhile.                                           *)
CreateAdmin(c, e, r, p) ==
    /\ Holders(e) = {}
    /\ Await(c, "write", [op |-> "create", target |-> None, email |-> e,
                          role |-> r, password |-> p])

(* Mutant: the second statement is left out. *)
UpdateAdmin_Unchecked(c, a, e, r) ==
    /\ Active(a)
    /\ r # None => a # sub[c]
    /\ Await(c, "write", [op |-> "update", target |-> a, email |-> e,
                          role |-> r, password |-> None])

(* updateAdmin up to its second statement. *)
UpdateAdmin(c, a, e, r) ==
    /\ Active(a)
    /\ r # None => a # sub[c]
    /\ Await(c, IF e = None THEN "write" ELSE "email",
             [op |-> "update", target |-> a, email |-> e, role |-> r,
              password |-> None])

EmailTaken(c) ==
    \E a \in Holders(req[c].email) : Active(a) /\ a # req[c].target

(* updateAdmin's second statement: no other active account has the address *)
(* or the answer is 409.                                                   *)
CheckEmail(c) ==
    /\ stage[c] = "email"
    /\ IF EmailTaken(c)
       THEN /\ Done(c, {})
            /\ UNCHANGED <<table, session>>
       ELSE /\ stage' = [stage EXCEPT ![c] = "write"]
            /\ UNCHANGED <<table, session, req, moved>>

(* changePassword: the password given is the account's, the new one is not. *)
ChangePassword(c, p) ==
    /\ Active(sub[c])
    /\ p # password[sub[c]]
    /\ Await(c, "write", [op |-> "password", target |-> sub[c], email |-> None,
                          role |-> None, password |-> p])

ResetPassword(c, a, p) ==
    /\ Active(a)
    /\ Await(c, "write", [op |-> "password", target |-> a, email |-> None,
                          role |-> None, password |-> p])

(* Mutant: no guard against deleting oneself. *)
DeleteAdmin_OneselfToo(c, a) ==
    /\ Active(a)
    /\ Await(c, "write", [op |-> "delete", target |-> a, email |-> None,
                          role |-> None, password |-> None])

DeleteAdmin(c, a) ==
    /\ a # sub[c]
    /\ Active(a)
    /\ Await(c, "write", [op |-> "delete", target |-> a, email |-> None,
                          role |-> None, password |-> None])

RestoreAdmin(c, a) ==
    /\ status[a] = "deleted"
    /\ Await(c, "write", [op |-> "restore", target |-> a, email |-> None,
                          role |-> None, password |-> None])

(* AuthService.login: the account is found by its address, deleted or not, *)
(* and the role in the row goes into the token after two more awaits.      *)
Login(c) ==
    /\ stage[c] = "idle"
    /\ sub[c] = None
    /\ \E a \in Accounts :
        /\ Present(a)
        /\ Await(c, "write", [op |-> "login", target |-> a, email |-> None,
                              role |-> role[a], password |-> None])

-----------------------------------------------------------------------------
Given(column, a, value) ==
    IF value = None THEN column ELSE [column EXCEPT ![a] = value]

(* INSERT; the unique index refuses an address that is taken: 500.  Bound: *)
(* once the ids are used up a creation can only be refused or be stopped.  *)
CreateWrite(c) ==
    LET r == req[c] IN
    /\ r.op = "create"
    /\ UNCHANGED session
    /\ \/ /\ Holders(r.email) # {}
          /\ Done(c, {})
          /\ UNCHANGED table
       \/ /\ Holders(r.email) = {}
          /\ \E a \in Accounts :
                /\ ~Present(a)
                /\ status' = [status EXCEPT ![a] = "active"]
                /\ email' = [email EXCEPT ![a] = r.email]
                /\ role' = [role EXCEPT ![a] = r.role]
                /\ password' = [password EXCEPT ![a] = r.password]
                /\ Done(c, {a})

(* UPDATE of the fields that were given, whatever has become of the row;   *)
(* the unique index counts deleted accounts: 500.                          *)
UpdateWrite(c) ==
    LET r == req[c] IN
    /\ r.op \in {"update", "password"}
    /\ UNCHANGED <<status, session>>
    /\ \/ /\ r.email # None
          /\ Holders(r.email) \ {r.target} # {}
          /\ Done(c, {})
          /\ UNCHANGED table
       \/ /\ r.email = None \/ Holders(r.email) \subseteq {r.target}
          /\ email' = Given(email, r.target, r.email)
          /\ role' = Given(role, r.target, r.role)
          /\ password' = Given(password, r.target, r.password)
          /\ Done(c, {r.target})

(* UPDATE of deletedAt. *)
StatusWrite(c) ==
    LET r == req[c] IN
    /\ r.op \in {"delete", "restore"}
    /\ status' = [status EXCEPT ![r.target] =
            IF r.op = "delete" THEN "deleted" ELSE "active"]
    /\ Done(c, {r.target})
    /\ UNCHANGED <<email, role, password, session>>

(* The token is signed: it lives 24 hours, refreshing it copies it. *)
LoggedIn(c) ==
    LET r == req[c] IN
    /\ r.op = "login"
    /\ sub' = [sub EXCEPT ![c] = r.target]
    /\ claim' = [claim EXCEPT ![c] = r.role]
    /\ Done(c, {})
    /\ UNCHANGED table

Write(c) ==
    /\ stage[c] = "write"
    /\ \/ CreateWrite(c)
       \/ UpdateWrite(c)
       \/ StatusWrite(c)
       \/ LoggedIn(c)

(* A statement fails or the process stops before the write. *)
Abort(c) ==
    /\ stage[c] # "idle"
    /\ Done(c, {})
    /\ UNCHANGED <<table, session>>

(* POST /auth/logout, or the token expires. *)
SessionEnds(c) ==
    /\ stage[c] = "idle"
    /\ sub[c] # None
    /\ sub' = [sub EXCEPT ![c] = None]
    /\ claim' = [claim EXCEPT ![c] = None]
    /\ UNCHANGED <<table, request>>

-----------------------------------------------------------------------------
PostUsers(c) ==
    /\ RequireSuperAdmin(c)
    /\ \E e \in Emails, r \in Roles, p \in Passwords : CreateAdmin(c, e, r, p)

PatchUser(c) ==
    /\ RequireSuperAdmin(c)
    /\ \E a \in Accounts, e \in Emails \union {None}, r \in Roles \union {None} :
        UpdateAdmin(c, a, e, r)

DeleteUser(c) ==
    RequireSuperAdmin(c) /\ \E a \in Accounts : DeleteAdmin(c, a)

PostRestore(c) ==
    RequireSuperAdmin(c) /\ \E a \in Accounts : RestoreAdmin(c, a)

PostResetPassword(c) ==
    /\ RequireSuperAdmin(c)
    /\ \E a \in Accounts, p \in Passwords : ResetPassword(c, a, p)

PostMyPassword(c) ==
    RequireAdmin(c) /\ \E p \in Passwords : ChangePassword(c, p)

(* The row that an upsert by address writes: the holder's, else a new one. *)
Upserted(e) ==
    IF Holders(e) # {} THEN Holders(e) ELSE {a \in Accounts : ~Present(a)}

(* The seed script, with the address, password and role it finds in its    *)
(* environment: it creates the account, or gives the one that has the      *)
(* address that password and role, deleted or not.                         *)
Seed ==
    /\ \E e \in Emails, r \in Roles, p \in Passwords :
        \E a \in Upserted(e) :
            /\ status' = [status EXCEPT ![a] =
                    IF Present(a) THEN status[a] ELSE "active"]
            /\ email' = [email EXCEPT ![a] = e]
            /\ role' = [role EXCEPT ![a] = r]
            /\ password' = [password EXCEPT ![a] = p]
            /\ moved' = [d \in Clients |-> Overtaken(d, {a})]
    /\ UNCHANGED <<session, req, stage>>

Next ==
    \/ Seed
    \/ \E c \in Clients :
        \/ PostUsers(c)
        \/ PatchUser(c)
        \/ DeleteUser(c)
        \/ PostRestore(c)
        \/ PostResetPassword(c)
        \/ PostMyPassword(c)
        \/ Login(c)
        \/ CheckEmail(c)
        \/ Write(c)
        \/ Abort(c)
        \/ SessionEnds(c)

Spec == Init /\ [][Next]_vars

-----------------------------------------------------------------------------
(* What was checked before a write, as the table has it at the write. *)
CheckHolds(r) ==
    CASE r.op = "create" -> Holders(r.email) = {}
      [] r.op = "update" ->
            /\ Active(r.target)
            /\ \A a \in Holders(r.email) \ {r.target} : ~Active(a)
      [] r.op \in {"password", "delete"} -> Active(r.target)
      [] r.op = "restore" -> status[r.target] = "deleted"
      [] OTHER -> TRUE

Concerned(r) == Holders(r.email) \union {r.target}

(* A write finds the rows it checked as it checked them, deleted or not,   *)
(* its address free or not, unless another request wrote in between.  The  *)
(* unique index refuses a creation for a race only, and an update for a    *)
(* race or a deleted account, which the check of updateAdmin leaves out.   *)
WritesWhatItChecked ==
    \A c \in Clients :
        stage[c] = "write"
            => CheckHolds(req[c]) \/ Concerned(req[c]) \cap moved[c] # {}

(* The last active super administrator is lost only to a request of one    *)
(* who is no longer an active super administrator, or to a run of the seed *)
(* script: the guards against deleting or demoting oneself keep one,       *)
(* whatever the others do to each other one after the other, until two do  *)
(* it at the same time or a token outlives the role.                       *)
LastSuperAdmin ==
    [][(SuperAdmins # {} /\ SuperAdmins' = {})
        => \/ Seed
           \/ \E c \in Clients :
                /\ stage[c] = "write" /\ stage'[c] = "idle"
                /\ sub[c] \notin SuperAdmins]_vars
=============================================================================
