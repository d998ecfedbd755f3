-------------------------- MODULE AdminUsersProofs --------------------------
(***************************************************************************)
(* Proofs about AdminUsers.  LastSuperAdmin speaks of a write; the guards  *)
(* it rests on were passed by the same request some awaits before.         *)
(* RequestsGuarded carries them there: what a request in progress is about *)
(* to write is whole, and never the requester's own role or deletion.      *)
(***************************************************************************)
EXTENDS AdminUsers, TLAPS

Whole(r) ==
    /\ r.op \in Operations
    /\ r.op = "create" => /\ r.email \in Emails
                          /\ r.role \in Roles
                          /\ r.password \in Passwords
    /\ r.op # "create" => r.target \in Accounts

SparesRequester(r, self) ==
    /\ r.op = "delete" => r.target # self
    /\ r.op = "update" /\ r.role # None => r.target # self
    /\ r.op = "password" => r.role = None

Guarded(c) ==
    stage[c] # "idle" => Whole(req[c]) /\ SparesRequester(req[c], sub[c])

RequestsGuarded == \A c \in Clients : Guarded(c)

AdminInv == TypeOK /\ RequestsGuarded

-----------------------------------------------------------------------------
LEMMA Initially == Init => AdminInv
<1> SUFFICES ASSUME Init PROVE AdminInv
    OBVIOUS
<1>1. TypeOK
    BY AdminAssumption
    DEF Init, TypeOK, AdminAssumption, Roles, NoRequest, Request
<1>2. RequestsGuarded
    BY DEF Init, RequestsGuarded, Guarded
<1> QED
    BY <1>1, <1>2 DEF AdminInv

(* A request that starts to wait with a guarded request record. *)
LEMMA AwaitKeeps ==
    ASSUME AdminInv, NEW c \in Clients, NEW next \in {"email", "write"},
           NEW r \in Request, Whole(r), SparesRequester(r, sub[c]),
           Await(c, next, r)
    PROVE  AdminInv'
<1>1. TypeOK'
    BY DEF AdminInv, TypeOK, Await, table, session
<1>2. RequestsGuarded'
  <2> SUFFICES ASSUME NEW d \in Clients PROVE Guarded(d)'
      BY DEF RequestsGuarded
  <2>1. CASE d = c
      BY <2>1 DEF AdminInv, TypeOK, Await, Guarded, session, Whole, SparesRequester
  <2>2. CASE d # c
      BY <2>2 DEF AdminInv, TypeOK, RequestsGuarded, Await, Guarded, session,
                  Whole, SparesRequester
  <2> QED
      BY <2>1, <2>2
<1> QED
    BY <1>1, <1>2 DEF AdminInv

(* A request that ends, whatever it has written. *)
LEMMA DoneKeeps ==
    ASSUME AdminInv, NEW c \in Clients, NEW W \in SUBSET Accounts, Done(c, W),
           \A d \in Clients \ {c} : sub'[d] = sub[d]
    PROVE  /\ req' \in [Clients -> Request]
           /\ stage' \in [Clients -> {"idle", "email", "write"}]
           /\ moved' \in [Clients -> SUBSET Accounts]
           /\ RequestsGuarded'
<1>1. NoRequest \in Request
    BY DEF NoRequest, Request
<1>2. /\ req' \in [Clients -> Request]
      /\ stage' \in [Clients -> {"idle", "email", "write"}]
    BY <1>1 DEF AdminInv, TypeOK, Done, Overtaken
<1>3. moved' \in [Clients -> SUBSET Accounts]
    BY DEF AdminInv, TypeOK, Done, Overtaken
<1>4. ASSUME NEW d \in Clients PROVE Guarded(d)'
    BY DEF AdminInv, TypeOK, RequestsGuarded, Done, Guarded, Whole,
           SparesRequester
<1> QED
    BY <1>2, <1>3, <1>4 DEF RequestsGuarded

-----------------------------------------------------------------------------
(* Every operation up to its await. *)
LEMMA OperationKeeps ==
    ASSUME AdminInv, NEW c \in Clients,
           \/ PostUsers(c) \/ PatchUser(c) \/ DeleteUser(c) \/ PostRestore(c)
           \/ PostResetPassword(c) \/ PostMyPassword(c) \/ Login(c)
    PROVE  AdminInv'
<1> USE DEF Request, Operations, Whole, SparesRequester
<1>1. CASE PostUsers(c)
  <2> PICK e \in Emails, r \in Roles, p \in Passwords : CreateAdmin(c, e, r, p)
      BY <1>1 DEF PostUsers
  <2> DEFINE q == [op |-> "create", target |-> None, email |-> e, role |-> r,
                   password |-> p]
  <2>1. q \in Request /\ Whole(q) /\ SparesRequester(q, sub[c])
      OBVIOUS
  <2>2. Await(c, "write", q)
      BY DEF CreateAdmin
  <2> QED
      BY <2>1, <2>2, AwaitKeeps
<1>2. CASE PatchUser(c)
  <2> PICK a \in Accounts, e \in Emails \union {None}, r \in Roles \union {None} :
           UpdateAdmin(c, a, e, r)
      BY <1>2 DEF PatchUser
  <2> DEFINE q == [op |-> "update", target |-> a, email |-> e, role |-> r,
                   password |-> None]
  <2>1. q \in Request /\ Whole(q) /\ SparesRequester(q, sub[c])
      BY DEF UpdateAdmin
  <2>2. Await(c, "write", q) \/ Await(c, "email", q)
      BY DEF UpdateAdmin
  <2> QED
      BY <2>1, <2>2, AwaitKeeps
<1>3. CASE DeleteUser(c)
  <2> PICK a \in Accounts : DeleteAdmin(c, a)
      BY <1>3 DEF DeleteUser
  <2> DEFINE q == [op |-> "delete", target |-> a, email |-> None,
                   role |-> None, password |-> None]
  <2>1. q \in Request /\ Whole(q) /\ SparesRequester(q, sub[c])
      BY DEF DeleteAdmin
  <2>2. Await(c, "write", q)
      BY DEF DeleteAdmin
  <2> QED
      BY <2>1, <2>2, AwaitKeeps
<1>4. CASE PostRestore(c)
  <2> PICK a \in Accounts : RestoreAdmin(c, a)
      BY <1>4 DEF PostRestore
  <2> DEFINE q == [op |-> "restore", target |-> a, email |-> None,
                   role |-> None, password |-> None]
  <2>1. q \in Request /\ Whole(q) /\ SparesRequester(q, sub[c])
      OBVIOUS
  <2>2. Await(c, "write", q)
      BY DEF RestoreAdmin
  <2> QED
      BY <2>1, <2>2, AwaitKeeps
<1>5. CASE PostResetPassword(c) \/ PostMyPassword(c)
  <2>1. PICK a \in Accounts, p \in Passwords :
            Await(c, "write", [op |-> "password", target |-> a, email |-> None,
                               role |-> None, password |-> p])
    <3>1. CASE PostResetPassword(c)
        BY <3>1 DEF PostResetPassword, ResetPassword
    <3>2. CASE PostMyPassword(c)
      <4>1. sub[c] \in Accounts
          BY <3>2 DEF PostMyPassword, RequireAdmin, AdminInv, TypeOK
      <4> QED
          BY <3>2, <4>1 DEF PostMyPassword, ChangePassword
    <3> QED
        BY <1>5, <3>1, <3>2
  <2> DEFINE q == [op |-> "password", target |-> a, email |-> None,
                   role |-> None, password |-> p]
  <2>2. q \in Request /\ Whole(q) /\ SparesRequester(q, sub[c])
      OBVIOUS
  <2> QED
      BY <2>1, <2>2, AwaitKeeps
<1>6. CASE Login(c)
  <2> PICK a \in Accounts :
           Await(c, "write", [op |-> "login", target |-> a, email |-> None,
                              role |-> role[a], password |-> None])
      BY <1>6 DEF Login
  <2> DEFINE q == [op |-> "login", target |-> a, email |-> None,
                   role |-> role[a], password |-> None]
  <2>1. q \in Request /\ Whole(q) /\ SparesRequester(q, sub[c])
      BY DEF AdminInv, TypeOK
  <2> QED
      BY <2>1, AwaitKeeps
<1> QED
    BY <1>1, <1>2, <1>3, <1>4, <1>5, <1>6

(* A field that a request gives, or leaves alone. *)
LEMMA GivenType ==
    ASSUME NEW S, NEW column \in [Accounts -> S \union {None}], NEW a,
           NEW value \in S \union {None}
    PROVE  Given(column, a, value) \in [Accounts -> S \union {None}]
BY DEF Given

(* Every write. *)
LEMMA WriteKeeps ==
    ASSUME AdminInv, NEW c \in Clients, Write(c)
    PROVE  AdminInv'
<1> DEFINE r == req[c]
<1>1. r \in Request /\ Whole(r) /\ stage[c] = "write"
    BY DEF Write, AdminInv, TypeOK, RequestsGuarded, Guarded
<1>2. CASE CreateWrite(c)
  <2>1. PICK W \in SUBSET Accounts : Done(c, W)
      BY <1>2 DEF CreateWrite
  <2>2. UNCHANGED session
      BY <1>2 DEF CreateWrite
  <2>3. /\ status' \in [Accounts -> {"absent", "active", "deleted"}]
        /\ email' \in [Accounts -> Emails \union {None}]
        /\ role' \in [Accounts -> Roles \union {None}]
        /\ password' \in [Accounts -> Passwords \union {None}]
    <3>1. CASE UNCHANGED table
        BY <3>1 DEF AdminInv, TypeOK, table
    <3>2. CASE ~ UNCHANGED table
        BY <1>1, <1>2, <3>2 DEF AdminInv, TypeOK, CreateWrite, Whole
    <3> QED
        BY <3>1, <3>2
  <2> QED
      BY <2>1, <2>2, <2>3, DoneKeeps DEF AdminInv, TypeOK, session
<1>3. CASE UpdateWrite(c)
  <2>1. PICK W \in SUBSET Accounts : Done(c, W)
      BY <1>1, <1>3 DEF UpdateWrite, Whole
  <2>2. UNCHANGED session /\ UNCHANGED status
      BY <1>3 DEF UpdateWrite
  <2>3. /\ email' \in [Accounts -> Emails \union {None}]
        /\ role' \in [Accounts -> Roles \union {None}]
        /\ password' \in [Accounts -> Passwords \union {None}]
    <3>1. CASE UNCHANGED table
        BY <3>1 DEF AdminInv, TypeOK, table
    <3>2. CASE ~ UNCHANGED table
      <4>1. /\ email' = Given(email, r.target, r.email)
            /\ role' = Given(role, r.target, r.role)
            /\ password' = Given(password, r.target, r.password)
          BY <1>3, <3>2 DEF UpdateWrite
      <4> QED
          BY <1>1, <4>1, GivenType DEF AdminInv, TypeOK, Request
    <3> QED
        BY <3>1, <3>2
  <2> QED
      BY <2>1, <2>2, <2>3, DoneKeeps DEF AdminInv, TypeOK, session
<1>4. CASE StatusWrite(c)
  <2>1. Done(c, {r.target}) /\ {r.target} \in SUBSET Accounts
      BY <1>1, <1>4 DEF StatusWrite, Whole
  <2>2. UNCHANGED <<email, role, password, session>>
      BY <1>4 DEF StatusWrite
  <2>3. status' \in [Accounts -> {"absent", "active", "deleted"}]
      BY <1>4 DEF StatusWrite, AdminInv, TypeOK
  <2> QED
      BY <2>1, <2>2, <2>3, DoneKeeps DEF AdminInv, TypeOK, session
<1>5. CASE LoggedIn(c)
  <2>1. Done(c, {}) /\ UNCHANGED table
      BY <1>5 DEF LoggedIn
  <2>2. /\ sub' \in [Clients -> Accounts \union {None}]
        /\ claim' \in [Clients -> Roles \union {None}]
        /\ \A d \in Clients \ {c} : sub'[d] = sub[d]
      BY <1>1, <1>5 DEF LoggedIn, AdminInv, TypeOK, Request, Whole
  <2> QED
      BY <2>1, <2>2, DoneKeeps DEF AdminInv, TypeOK, table
<1> QED
    BY <1>2, <1>3, <1>4, <1>5 DEF Write

(* The seed script writes a row and leaves every request as it was. *)
LEMMA SeedKeeps ==
    ASSUME AdminInv, Seed
    PROVE  AdminInv'
<1>1. PICK e \in Emails, r \in Roles, p \in Passwords, a \in Accounts :
        /\ status' = [status EXCEPT ![a] =
                        IF Present(a) THEN status[a] ELSE "active"]
        /\ email' = [email EXCEPT ![a] = e]
        /\ role' = [role EXCEPT ![a] = r]
        /\ password' = [password EXCEPT ![a] = p]
        /\ moved' = [d \in Clients |-> Overtaken(d, {a})]
  <2> DEFINE Writes(e, r, p, a) ==
                /\ status' = [status EXCEPT ![a] =
                                IF Present(a) THEN status[a] ELSE "active"]
                /\ email' = [email EXCEPT ![a] = e]
                /\ role' = [role EXCEPT ![a] = r]
                /\ password' = [password EXCEPT ![a] = p]
                /\ moved' = [d \in Clients |-> Overtaken(d, {a})]
  <2>1. \E e \in Emails, r \in Roles, p \in Passwords :
            \E a \in Upserted(e) : Writes(e, r, p, a)
      BY DEF Seed
  <2>2. \A e \in Emails : Upserted(e) \subseteq Accounts
      BY DEF Upserted, Holders
  <2> HIDE DEF Writes
  <2>3. \E e \in Emails, r \in Roles, p \in Passwords, a \in Accounts :
            Writes(e, r, p, a)
      BY <2>1, <2>2
  <2> QED
      BY <2>3 DEF Writes
<1>2. UNCHANGED <<session, req, stage>>
    BY DEF Seed
<1>3. moved' \in [Clients -> SUBSET Accounts]
    BY <1>1 DEF Overtaken, AdminInv, TypeOK
<1>4. /\ status' \in [Accounts -> {"absent", "active", "deleted"}]
      /\ email' \in [Accounts -> Emails \union {None}]
      /\ role' \in [Accounts -> Roles \union {None}]
      /\ password' \in [Accounts -> Passwords \union {None}]
    BY <1>1 DEF AdminInv, TypeOK
<1>5. RequestsGuarded'
    BY <1>2 DEF AdminInv, RequestsGuarded, Guarded, Whole, SparesRequester,
                session
<1> QED
    BY <1>2, <1>3, <1>4, <1>5 DEF AdminInv, TypeOK, session

(* The inductive step: the invariant survives every action. *)
LEMMA StepKeeps == AdminInv /\ [Next]_vars => AdminInv'
<1> SUFFICES ASSUME AdminInv, [Next]_vars PROVE AdminInv'
    OBVIOUS
<1>1. CASE UNCHANGED vars
    BY <1>1 DEF AdminInv, TypeOK, RequestsGuarded, Guarded, Whole,
                SparesRequester, vars, table, session, request
<1>2. ASSUME NEW c \in Clients,
             \/ PostUsers(c) \/ PatchUser(c) \/ DeleteUser(c) \/ PostRestore(c)
             \/ PostResetPassword(c) \/ PostMyPassword(c) \/ Login(c)
      PROVE  AdminInv'
    BY <1>2, OperationKeeps
<1>3. ASSUME NEW c \in Clients, CheckEmail(c) PROVE AdminInv'
  <2>1. CASE EmailTaken(c)
    <3>1. Done(c, {}) /\ UNCHANGED <<table, session>>
        BY <1>3, <2>1 DEF CheckEmail
    <3> QED
        BY <3>1, DoneKeeps DEF AdminInv, TypeOK, table, session
  <2>2. CASE ~EmailTaken(c)
    <3>1. /\ stage[c] = "email"
          /\ stage' = [stage EXCEPT ![c] = "write"]
          /\ UNCHANGED <<table, session, req, moved>>
        BY <1>3, <2>2 DEF CheckEmail
    <3>2. TypeOK'
        BY <3>1 DEF AdminInv, TypeOK, table, session
    <3>3. RequestsGuarded'
        BY <3>1 DEF AdminInv, TypeOK, RequestsGuarded, Guarded, Whole,
                    SparesRequester, session
    <3> QED
        BY <3>2, <3>3 DEF AdminInv
  <2> QED
      BY <2>1, <2>2
<1>4. ASSUME NEW c \in Clients, Write(c) PROVE AdminInv'
    BY <1>4, WriteKeeps
<1>5. ASSUME NEW c \in Clients, Abort(c) PROVE AdminInv'
  <2>1. Done(c, {}) /\ UNCHANGED <<table, session>>
      BY <1>5 DEF Abort
  <2> QED
      BY <2>1, DoneKeeps DEF AdminInv, TypeOK, table, session
<1>6. ASSUME NEW c \in Clients, SessionEnds(c) PROVE AdminInv'
  <2>1. TypeOK'
      BY <1>6 DEF SessionEnds, AdminInv, TypeOK, table, request
  <2>2. RequestsGuarded'
      BY <1>6 DEF SessionEnds, AdminInv, TypeOK, RequestsGuarded, Guarded,
                  Whole, SparesRequester, request
  <2> QED
      BY <2>1, <2>2 DEF AdminInv
<1>7. CASE Seed
    BY <1>7, SeedKeeps
<1> QED
    BY <1>1, <1>2, <1>3, <1>4, <1>5, <1>6, <1>7 DEF Next

-----------------------------------------------------------------------------
(* The columns, tokens and requests keep their types, for any number of    *)
(* accounts, addresses, passwords and sessions.                            *)
THEOREM TypeCorrect == Spec => []TypeOK
<1>1. Spec => []AdminInv
    BY Initially, StepKeeps, PTL DEF Spec
<1>2. AdminInv => TypeOK
    BY DEF AdminInv
<1> QED
    BY <1>1, <1>2, PTL

(* A write leaves the requester the super administrator that he is. *)
LEMMA RequesterStays ==
    ASSUME AdminInv, NEW c \in Clients, Write(c), sub[c] \in SuperAdmins
    PROVE  sub[c] \in SuperAdmins'
<1> DEFINE r == req[c]
<1> DEFINE s == sub[c]
<1>1. r \in Request /\ Whole(r) /\ SparesRequester(r, s)
    BY DEF Write, AdminInv, TypeOK, RequestsGuarded, Guarded
<1>2. s \in Accounts /\ status[s] = "active" /\ role[s] = "SUPER_ADMIN"
    BY DEF SuperAdmins, Active
<1>3. status'[s] = "active" /\ role'[s] = "SUPER_ADMIN"
  <2>1. CASE CreateWrite(c)
      BY <1>2, <2>1 DEF CreateWrite, Present, AdminInv, TypeOK, table
  <2>2. CASE UpdateWrite(c)
    <3>1. status' = status /\ (role' = role \/ role' = Given(role, r.target, r.role))
        BY <2>2 DEF UpdateWrite, table
    <3>2. r.role = None \/ r.target # s
        BY <1>1, <2>2 DEF UpdateWrite, SparesRequester
    <3> QED
        BY <1>2, <3>1, <3>2 DEF Given, AdminInv, TypeOK
  <2>3. CASE StatusWrite(c)
      BY <1>1, <1>2, <2>3 DEF StatusWrite, SparesRequester, AdminInv, TypeOK
  <2>4. CASE LoggedIn(c)
      BY <1>2, <2>4 DEF LoggedIn, table
  <2> QED
      BY <2>1, <2>2, <2>3, <2>4 DEF Write
<1> QED
    BY <1>2, <1>3 DEF SuperAdmins, Active

(* Whoever loses the last active super administrator was himself no longer *)
(* one, or was the seed script, for any number of accounts and sessions.   *)
THEOREM LastSuperAdminHolds == Spec => LastSuperAdmin
<1> DEFINE Loses == SuperAdmins # {} /\ SuperAdmins' = {}
<1> DEFINE ByAnOutsider ==
        \E c \in Clients : /\ stage[c] = "write" /\ stage'[c] = "idle"
                           /\ sub[c] \notin SuperAdmins
<1>1. AdminInv /\ [Next]_vars => [Loses => Seed \/ ByAnOutsider]_vars
  <2> SUFFICES ASSUME AdminInv, Next, ~Seed, Loses PROVE ByAnOutsider
      OBVIOUS
  <2>1. PICK c \in Clients : Write(c)
    <3>1. ~ UNCHANGED table
        BY DEF table, SuperAdmins, Active
    <3> QED
        BY <3>1 DEF Next, PostUsers, PatchUser, DeleteUser, PostRestore,
            PostResetPassword, PostMyPassword, Login, CreateAdmin, UpdateAdmin,
            DeleteAdmin, RestoreAdmin, ResetPassword, ChangePassword, Await,
            CheckEmail, Abort, SessionEnds
  <2>2. sub[c] \notin SuperAdmins
      BY <2>1, RequesterStays
  <2>3. stage[c] = "write" /\ stage'[c] = "idle"
      BY <2>1 DEF Write, CreateWrite, UpdateWrite, StatusWrite, LoggedIn, Done,
                  AdminInv, TypeOK
  <2> QED
      BY <2>2, <2>3
<1>2. Spec => []AdminInv
    BY Initially, StepKeeps, PTL DEF Spec
<1> QED
    BY <1>1, <1>2, PTL DEF Spec, LastSuperAdmin

-----------------------------------------------------------------------------
(* Rows have an address from their creation on. *)
EmailsGiven == \A a \in Accounts : Present(a) => email[a] \in Emails

(* What the request of c has checked and how it may have gone stale. *)
Known(c) ==
    /\ stage[c] = "email" => req[c].op = "update"
    /\ stage[c] # "idle" /\ req[c].op \in {"update", "password", "delete", "restore"}
        => Present(req[c].target)
    /\ stage[c] # "idle" /\ req[c].op \in {"update", "password", "delete"}
        => Active(req[c].target) \/ req[c].target \in moved[c]
    /\ stage[c] # "idle" /\ req[c].op = "restore"
        => status[req[c].target] = "deleted" \/ req[c].target \in moved[c]
    /\ stage[c] = "write" /\ req[c].op = "create"
        => Holders(req[c].email) \subseteq moved[c]
    /\ stage[c] = "write" /\ req[c].op = "update"
        => \A a \in Holders(req[c].email) \ {req[c].target} :
              ~Active(a) \/ a \in moved[c]

ChecksKnown == \A c \in Clients : Known(c)

KnownInv == AdminInv /\ EmailsGiven /\ ChecksKnown

(* What a request has checked when it reaches an await, in terms of the    *)
(* table.                                                                  *)
Checked(next, r) ==
    /\ next = "email" => r.op = "update"
    /\ r.op \in {"update", "password", "delete"} => Active(r.target)
    /\ r.op = "restore" => status[r.target] = "deleted"
    /\ next = "write" /\ r.op = "create" => Holders(r.email) = {}
    /\ next = "write" /\ r.op = "update" => r.email = None

LEMMA AwaitKnown ==
    ASSUME KnownInv, NEW c \in Clients, NEW next \in {"email", "write"},
           NEW r, Checked(next, r), Await(c, next, r)
    PROVE  EmailsGiven' /\ ChecksKnown'
<1>1. /\ req' = [req EXCEPT ![c] = r] /\ stage' = [stage EXCEPT ![c] = next]
      /\ moved' = [moved EXCEPT ![c] = {}] /\ status' = status /\ email' = email
    BY DEF Await, table
<1>2. EmailsGiven'
    BY <1>1 DEF KnownInv, EmailsGiven, Present
<1>3. ASSUME NEW d \in Clients PROVE Known(d)'
  <2>1. CASE d = c
    <3>1. req'[c] = r /\ stage'[c] = next
        BY <1>1 DEF KnownInv, AdminInv, TypeOK
    <3>2. \A a \in Accounts : Present(a) => email[a] # None
        BY AdminAssumption DEF KnownInv, EmailsGiven
    <3>3. next = "write" /\ r.op = "update" => Holders(r.email) = {}
        BY <3>2 DEF Checked, Holders
    <3> QED
        BY <1>1, <2>1, <3>1, <3>3 DEF Known, Checked, Present, Active, Holders
  <2>2. CASE d # c
    <3>1. req'[d] = req[d] /\ stage'[d] = stage[d] /\ moved'[d] = moved[d]
        BY <1>1, <2>2 DEF KnownInv, AdminInv, TypeOK
    <3>2. Known(d)
        BY DEF KnownInv, ChecksKnown
    <3> QED
        BY <1>1, <3>1, <3>2 DEF Known, Present, Active, Holders
  <2> QED
      BY <2>1, <2>2
<1> QED
    BY <1>2, <1>3 DEF ChecksKnown

(* A request in progress while the rows of W are written and no others. *)
LEMMA RowsKnown ==
    ASSUME KnownInv, NEW W \in SUBSET Accounts,
           \A a \in Accounts : Present(a) => Present(a)',
           \A a \in Accounts \ W : status'[a] = status[a] /\ email'[a] = email[a],
           NEW d \in Clients, stage[d] # "idle",
           req'[d] = req[d], stage'[d] = stage[d], moved'[d] = moved[d] \union W
    PROVE  Known(d)'
<1>1. /\ req'[d] = req[d] /\ stage'[d] = stage[d] /\ stage[d] # "idle"
      /\ moved'[d] = moved[d] \union W
    OBVIOUS
<1>2. Known(d) /\ Whole(req[d])
    BY <1>1 DEF KnownInv, ChecksKnown, AdminInv, RequestsGuarded, Guarded
<1>3. \A a \in Accounts \ W :
        /\ Active(a)' <=> Active(a)
        /\ Present(a)' <=> Present(a)
    BY DEF Active, Present
<1>4. \A e : Holders(e)' \ W \subseteq Holders(e)
    BY <1>3 DEF Holders
<1>5. req[d].op # "create" => req[d].target \in Accounts
    BY <1>2 DEF Whole
<1>6. CASE req[d].op = "create"
    BY <1>1, <1>2, <1>4, <1>6 DEF Known
<1>7. CASE req[d].op = "update"
  <2>1. Present(req[d].target)'
      BY <1>1, <1>2, <1>5, <1>7 DEF Known
  <2>2. Active(req[d].target)' \/ req[d].target \in moved'[d]
      BY <1>1, <1>2, <1>3, <1>5, <1>7 DEF Known
  <2>3. ASSUME stage[d] = "write",
               NEW a \in Holders(req[d].email)' \ {req[d].target}
        PROVE  ~Active(a)' \/ a \in moved'[d]
    <3>1. a \in Accounts
        BY DEF Holders
    <3> QED
        BY <1>1, <1>2, <1>3, <1>4, <1>7, <2>3, <3>1 DEF Known
  <2> QED
      BY <1>1, <1>7, <2>1, <2>2, <2>3 DEF Known, Present, Active, Holders
<1>8. CASE req[d].op \in {"password", "delete"}
  <2>1. /\ Present(req[d].target)'
        /\ Active(req[d].target)' \/ req[d].target \in moved'[d]
        /\ stage[d] # "email"
      BY <1>1, <1>2, <1>3, <1>5, <1>8 DEF Known
  <2> QED
      BY <1>1, <1>8, <2>1 DEF Known, Present, Active
<1>9. CASE req[d].op = "restore"
    BY <1>1, <1>2, <1>5, <1>9 DEF Known, Present
<1>10. CASE req[d].op \notin {"create", "update", "password", "delete", "restore"}
    BY <1>1, <1>2, <1>10 DEF Known
<1> QED
    BY <1>6, <1>7, <1>8, <1>9, <1>10

(* A request that ends and wrote no rows but those it names. *)
LEMMA DoneKnown ==
    ASSUME KnownInv, NEW c \in Clients, NEW W \in SUBSET Accounts, Done(c, W),
           \A a \in Accounts : Present(a) => Present(a)',
           \A a \in Accounts \ W : status'[a] = status[a] /\ email'[a] = email[a]
    PROVE  ChecksKnown'
<1> SUFFICES ASSUME NEW d \in Clients, stage'[d] # "idle" PROVE Known(d)'
    BY DEF ChecksKnown, Known
<1>1. /\ stage[d] # "idle" /\ req'[d] = req[d] /\ stage'[d] = stage[d]
      /\ moved'[d] = moved[d] \union W
    BY DEF Done, Overtaken, KnownInv, AdminInv, TypeOK
<1> QED
    BY <1>1, RowsKnown

(* The seed script overtakes the requests in progress. *)
LEMMA SeedKnown ==
    ASSUME KnownInv, Seed
    PROVE  EmailsGiven' /\ ChecksKnown'
<1>1. PICK e \in Emails, a \in Accounts :
        /\ status' = [status EXCEPT ![a] =
                        IF Present(a) THEN status[a] ELSE "active"]
        /\ email' = [email EXCEPT ![a] = e]
        /\ moved' = [d \in Clients |-> Overtaken(d, {a})]
    BY DEF Seed, Upserted, Holders
<1>2. req' = req /\ stage' = stage
    BY DEF Seed
<1>3. /\ status \in [Accounts -> {"absent", "active", "deleted"}]
      /\ email \in [Accounts -> Emails \union {None}]
    BY DEF KnownInv, AdminInv, TypeOK
<1>4. /\ \A b \in Accounts : Present(b) => Present(b)'
      /\ \A b \in Accounts \ {a} : status'[b] = status[b] /\ email'[b] = email[b]
    BY <1>1, <1>3 DEF Present
<1>5. EmailsGiven'
    BY <1>1, <1>3 DEF KnownInv, EmailsGiven, Present
<1>6. ASSUME NEW d \in Clients PROVE Known(d)'
  <2>1. CASE stage[d] = "idle"
      BY <1>2, <2>1 DEF Known
  <2>2. CASE stage[d] # "idle"
    <3>1. moved'[d] = moved[d] \union {a} /\ {a} \in SUBSET Accounts
        BY <1>1, <2>2 DEF Overtaken
    <3> QED
        BY <1>2, <1>4, <2>2, <3>1, RowsKnown
  <2> QED
      BY <2>1, <2>2
<1> QED
    BY <1>5, <1>6 DEF ChecksKnown

(* Each operation has checked what it passes on. *)
LEMMA OperationKnown ==
    ASSUME KnownInv, NEW c \in Clients,
           \/ PostUsers(c) \/ PatchUser(c) \/ DeleteUser(c) \/ PostRestore(c)
           \/ PostResetPassword(c) \/ PostMyPassword(c) \/ Login(c)
    PROVE  EmailsGiven' /\ ChecksKnown'
<1>1. SUFFICES ASSUME NEW next \in {"email", "write"}, NEW r,
                      Checked(next, r), Await(c, next, r)
               PROVE  EmailsGiven' /\ ChecksKnown'
  <2>1. \E next \in {"email", "write"} : \E r : Checked(next, r) /\ Await(c, next, r)
    <3>1. CASE PostUsers(c)
        BY <3>1 DEF PostUsers, CreateAdmin, Checked
    <3>2. CASE PatchUser(c)
      <4> PICK a \in Accounts, e \in Emails \union {None}, r \in Roles \union {None} :
               UpdateAdmin(c, a, e, r)
          BY <3>2 DEF PatchUser
      <4> DEFINE q == [op |-> "update", target |-> a, email |-> e, role |-> r,
                       password |-> None]
      <4>1. CASE e = None
        <5>1. Await(c, "write", q) /\ Checked("write", q)
            BY <4>1 DEF UpdateAdmin, Checked
        <5> QED
            BY <5>1
      <4>2. CASE e # None
        <5>1. Await(c, "email", q) /\ Checked("email", q)
            BY <4>2 DEF UpdateAdmin, Checked
        <5> QED
            BY <5>1
      <4> QED
          BY <4>1, <4>2
    <3>3. CASE DeleteUser(c)
        BY <3>3 DEF DeleteUser, DeleteAdmin, Checked
    <3>4. CASE PostRestore(c)
        BY <3>4 DEF PostRestore, RestoreAdmin, Checked
    <3>5. CASE PostResetPassword(c)
        BY <3>5 DEF PostResetPassword, ResetPassword, Checked
    <3>6. CASE PostMyPassword(c)
        BY <3>6 DEF PostMyPassword, ChangePassword, Checked
    <3>7. CASE Login(c)
        BY <3>7 DEF Login, Checked
    <3> QED
        BY <3>1, <3>2, <3>3, <3>4, <3>5, <3>6, <3>7
  <2> QED
      BY <2>1
<1> QED
    BY <1>1, AwaitKnown

(* A step that leaves status and addresses alone loses nothing. *)
LEMMA TableKept ==
    ASSUME KnownInv, NEW c \in Clients, NEW W \in SUBSET Accounts, Done(c, W),
           status' = status, email' = email
    PROVE  EmailsGiven' /\ ChecksKnown'
<1>1. EmailsGiven'
    BY DEF KnownInv, EmailsGiven, Present
<1>2. \A a \in Accounts : Present(a) => Present(a)'
    BY DEF Present
<1> QED
    BY <1>1, <1>2, DoneKnown

LEMMA WriteKnown ==
    ASSUME KnownInv, NEW c \in Clients, Write(c)
    PROVE  EmailsGiven' /\ ChecksKnown'
<1> DEFINE r == req[c]
<1>1. /\ r \in Request /\ Whole(r) /\ Known(c) /\ stage[c] = "write"
      /\ status \in [Accounts -> {"absent", "active", "deleted"}]
      /\ email \in [Accounts -> Emails \union {None}]
    BY DEF Write, KnownInv, AdminInv, TypeOK, RequestsGuarded, Guarded,
           ChecksKnown
<1>2. CASE CreateWrite(c)
  <2>1. CASE UNCHANGED table /\ Done(c, {})
      BY <2>1, TableKept DEF table
  <2>2. ASSUME NEW a \in Accounts, ~Present(a),
               status' = [status EXCEPT ![a] = "active"],
               email' = [email EXCEPT ![a] = r.email], Done(c, {a})
        PROVE  EmailsGiven' /\ ChecksKnown'
    <3>1. r.email \in Emails
        BY <1>1, <1>2 DEF CreateWrite, Whole
    <3>2. EmailsGiven'
        BY <1>1, <2>2, <3>1 DEF KnownInv, EmailsGiven, Present
    <3>3. /\ \A b \in Accounts : Present(b) => Present(b)'
          /\ \A b \in Accounts \ {a} : status'[b] = status[b] /\ email'[b] = email[b]
        BY <1>1, <2>2 DEF Present
    <3> QED
        BY <2>2, <3>2, <3>3, DoneKnown
  <2> QED
      BY <1>2, <2>1, <2>2 DEF CreateWrite
<1>3. CASE UpdateWrite(c)
  <2>1. CASE UNCHANGED table /\ Done(c, {})
      BY <2>1, TableKept DEF table
  <2>2. CASE email' = Given(email, r.target, r.email) /\ Done(c, {r.target})
    <3>1. r.target \in Accounts /\ status' = status
        BY <1>1, <1>3 DEF UpdateWrite, Whole
    <3>2. r.email # None => r.email \in Emails
        BY <1>1 DEF Request
    <3>3. /\ EmailsGiven'
          /\ \A b \in Accounts \ {r.target} : email'[b] = email[b]
        BY <1>1, <2>2, <3>1, <3>2 DEF KnownInv, EmailsGiven, Present, Given
    <3>4. \A b \in Accounts : Present(b) => Present(b)'
        BY <3>1 DEF Present
    <3> QED
        BY <2>2, <3>1, <3>3, <3>4, DoneKnown
  <2> QED
      BY <1>3, <2>1, <2>2 DEF UpdateWrite
<1>4. CASE StatusWrite(c)
  <2>1. /\ r.target \in Accounts /\ Present(r.target) /\ email' = email
        /\ status' = [status EXCEPT ![r.target] =
                        IF r.op = "delete" THEN "deleted" ELSE "active"]
        /\ Done(c, {r.target})
      BY <1>1, <1>4 DEF StatusWrite, Whole, Known
  <2>2. /\ \A b \in Accounts : Present(b)' <=> Present(b)
        /\ \A b \in Accounts \ {r.target} : status'[b] = status[b]
      BY <1>1, <2>1 DEF Present
  <2>3. EmailsGiven'
      BY <2>1, <2>2 DEF KnownInv, EmailsGiven
  <2> QED
      BY <2>1, <2>2, <2>3, DoneKnown
<1>5. CASE LoggedIn(c)
    BY <1>5, TableKept DEF LoggedIn, table
<1> QED
    BY <1>2, <1>3, <1>4, <1>5 DEF Write

LEMMA KnownInductive == (Init => KnownInv) /\ (KnownInv /\ [Next]_vars => KnownInv')
<1>1. ASSUME Init PROVE KnownInv
  <2>1. AdminInv
      BY <1>1, Initially
  <2>2. EmailsGiven /\ ChecksKnown
      BY <1>1, AdminAssumption
      DEF Init, EmailsGiven, ChecksKnown, Known, Present
  <2> QED
      BY <2>1, <2>2 DEF KnownInv
<1>2. ASSUME KnownInv, [Next]_vars PROVE KnownInv'
  <2>1. AdminInv'
      BY <1>2, StepKeeps DEF KnownInv
  <2>2. EmailsGiven' /\ ChecksKnown'
    <3>1. CASE UNCHANGED vars
        BY <1>2, <3>1 DEF KnownInv, EmailsGiven, ChecksKnown, Known, Present,
                          Active, Holders, vars, table, request
    <3>2. ASSUME NEW c \in Clients,
                 \/ PostUsers(c) \/ PatchUser(c) \/ DeleteUser(c) \/ PostRestore(c)
                 \/ PostResetPassword(c) \/ PostMyPassword(c) \/ Login(c)
          PROVE  EmailsGiven' /\ ChecksKnown'
        BY <1>2, <3>2, OperationKnown
    <3>3. ASSUME NEW c \in Clients, CheckEmail(c)
          PROVE  EmailsGiven' /\ ChecksKnown'
      <4>1. CASE EmailTaken(c)
          BY <1>2, <3>3, <4>1, TableKept DEF CheckEmail, table
      <4>2. CASE ~EmailTaken(c)
        <5>1. /\ stage[c] = "email" /\ stage' = [stage EXCEPT ![c] = "write"]
              /\ status' = status /\ email' = email /\ req' = req /\ moved' = moved
            BY <3>3, <4>2 DEF CheckEmail, table
        <5>2. \A a \in Holders(req[c].email) \ {req[c].target} : ~Active(a)
            BY <4>2 DEF EmailTaken
        <5>3. ASSUME NEW d \in Clients PROVE Known(d)'
          <6>1. Known(d) /\ Known(c)
              BY <1>2 DEF KnownInv, ChecksKnown
          <6>2. CASE d = c
            <7>1. stage'[c] = "write" /\ req[c].op = "update"
                BY <1>2, <5>1, <6>1 DEF KnownInv, AdminInv, TypeOK, Known
            <7> QED
                BY <5>1, <5>2, <6>1, <6>2, <7>1
                DEF Known, Present, Active, Holders
          <6>3. CASE d # c
            <7>1. stage'[d] = stage[d]
                BY <1>2, <5>1, <6>3 DEF KnownInv, AdminInv, TypeOK
            <7> QED
                BY <5>1, <6>1, <7>1 DEF Known, Present, Active, Holders
          <6> QED
              BY <6>2, <6>3
        <5>4. EmailsGiven'
            BY <1>2, <5>1 DEF KnownInv, EmailsGiven, Present
        <5> QED
            BY <5>3, <5>4 DEF ChecksKnown
      <4> QED
          BY <4>1, <4>2
    <3>4. ASSUME NEW c \in Clients, Write(c)
          PROVE  EmailsGiven' /\ ChecksKnown'
        BY <1>2, <3>4, WriteKnown
    <3>5. ASSUME NEW c \in Clients, Abort(c)
          PROVE  EmailsGiven' /\ ChecksKnown'
        BY <1>2, <3>5, TableKept DEF Abort, table
    <3>6. CASE \E c \in Clients : SessionEnds(c)
      <4>1. UNCHANGED <<status, email, req, stage, moved>>
          BY <3>6 DEF SessionEnds, table, request
      <4> QED
          BY <1>2, <4>1 DEF KnownInv, EmailsGiven, ChecksKnown, Known, Present,
                            Active, Holders
    <3>7. CASE Seed
        BY <1>2, <3>7, SeedKnown
    <3> QED
        BY <1>2, <3>1, <3>2, <3>3, <3>4, <3>5, <3>6, <3>7 DEF Next
  <2> QED
      BY <2>1, <2>2 DEF KnownInv
<1> QED
    BY <1>1, <1>2

(* A write of AdminUserService finds the accounts and the address as it    *)
(* checked them, unless another request wrote one of them in between.      *)
THEOREM WritesWhatItCheckedHolds == Spec => []WritesWhatItChecked
<1>1. Spec => []KnownInv
    BY KnownInductive, PTL DEF Spec
<1>2. KnownInv => WritesWhatItChecked
  <2> SUFFICES ASSUME KnownInv, NEW c \in Clients, stage[c] = "write",
                      Concerned(req[c]) \cap moved[c] = {}
               PROVE  CheckHolds(req[c])
      BY DEF WritesWhatItChecked
  <2>1. Known(c)
      BY DEF KnownInv, ChecksKnown
  <2>2. /\ req[c].target \notin moved[c]
        /\ Holders(req[c].email) \cap moved[c] = {}
      BY DEF Concerned
  <2> QED
      BY <2>1, <2>2 DEF Known, CheckHolds
<1> QED
    BY <1>1, <1>2, PTL
=============================================================================
