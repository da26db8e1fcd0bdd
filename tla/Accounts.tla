------------------------------ MODULE Accounts ------------------------------
(***************************************************************************)
(* services/admin/user_management.py, services/auth/password_management.py *)
(* and the login, logout and sign-up routes: who may act, and which of the *)
(* tokens that were issued still count.                                    *)
(*                                                                         *)
(* get_current_user loads the account of the one who asks before any lock  *)
(* is taken, and the session keeps that object: what a queued request      *)
(* knows of its own account is as old as its arrival.                      *)
(***************************************************************************)
EXTENDS Integers, Sequences, SequencesExt

CONSTANTS
  Users,      \* ids of users rows
  Founder,    \* the ADMIN that is seeded
  Roles,      \* the fixed vocabulary
  Sessions,   \* jti of the tokens that are issued
  Chosen,     \* passwords users choose
  Temporary,  \* passwords that resets generate, each once
  Requests,   \* requests in flight
  Mortal,     \* the requests that an exception may end between two steps
  MaxEpoch,   \* bound: how often a password of each account is replaced
  Nothing     \* no account, no token, no password

ASSUME UsersAssumption == Founder \in Users /\ Chosen # {}

(* generate_temporary_password is random: nobody chooses what it generates.  *)
ASSUME PasswordsAssumption == Chosen \cap Temporary = {}

ASSUME RequestsAssumption == Mortal \subseteq Requests

ASSUME RolesAssumption == "ADMIN" \in Roles /\ "OPERATOR" \in Roles

ASSUME MaxEpochAssumption == MaxEpoch \in [Users -> Nat]

VARIABLES
  account,  \* users with user_roles and user_credentials
  epoch,    \* how often each account's password was replaced (no column)
  lag,      \* by how much the versions that password changes counted on from
            \* were behind when they were written, in all (no column)
  token,    \* what each issued token says
  revoked,  \* the token_revocations table
  queue,    \* the two process locks: the head holds it, the rest waits
  request   \* what each request is doing

vars == <<account, epoch, lag, token, revoked, queue, request>>

-----------------------------------------------------------------------------
Passwords == Chosen \cup Temporary

Account == [active : BOOLEAN, roles : SUBSET Roles, version : Nat,
            must : BOOLEAN, password : Passwords]

(* When a token was issued its user had verified the password of that epoch. *)
Token == [user : Users, version : Nat, epoch : Nat]

Locks == {"admin", "password"}

Ops == {"login", "active", "roles", "change", "reset"}

LockOf(op) == IF op \in {"active", "roles"} THEN "admin" ELSE "password"

(* version and must are those of the account as it was loaded; overtaken:    *)
(* the role rows that came with the actor have been replaced since.          *)
Activity == [pc : {"queue", "write"}, op : Ops,
             actor : Users, target : Users, active : BOOLEAN,
             roles : SUBSET Roles, current : Passwords \cup {Nothing},
             new : Passwords \cup {Nothing}, version : Nat, must : BOOLEAN,
             overtaken : BOOLEAN]

ASSUME NothingAssumption == Nothing \notin Account \cup Token \cup Activity

Exists(u) == account[u] # Nothing

(* Rows, tokens and requests keep their shape; each request that asked for a *)
(* lock stands in its queue, once.                                           *)
TypeOK ==
  /\ account \in [Users -> Account \cup {Nothing}]
  /\ epoch \in [Users -> Nat]
  /\ lag \in [Users -> Int]
  /\ token \in [Sessions -> Token \cup {Nothing}]
  /\ revoked \subseteq Sessions
  /\ queue \in [Locks -> Seq(Requests)]
  /\ \A k \in Locks : /\ IsInjective(queue[k])
                      /\ \A i \in 1..Len(queue[k]) :
                           /\ request[queue[k][i]] # Nothing
                           /\ LockOf(request[queue[k][i]].op) = k
  /\ request \in [Requests -> Activity \cup {Nothing}]
  /\ \A u \in Users : Exists(u) => account[u].roles # {}

-----------------------------------------------------------------------------
Registered(roles, password) ==
  [active |-> TRUE, roles |-> roles, version |-> 1, must |-> FALSE,
   password |-> password]

Init ==
  /\ account = [u \in Users |->
       IF u = Founder THEN Registered({"ADMIN"}, CHOOSE p \in Chosen : TRUE)
       ELSE Nothing]
  /\ epoch = [u \in Users |-> 0]
  /\ lag = [u \in Users |-> 0]
  /\ token = [s \in Sessions |-> Nothing]
  /\ revoked = {}
  /\ queue = [k \in Locks |-> <<>>]
  /\ request = [q \in Requests |-> Nothing]

Done(q) == [request EXCEPT ![q] = Nothing]

Released(q, k) == [queue EXCEPT ![k] = RemoveFirst(@, q)]

(* Fault: a refusal leaves without the lock's release.                       *)
Refuse_Leaks(q) ==
  /\ request' = Done(q)
  /\ UNCHANGED <<account, epoch, lag, token, revoked, queue>>

(* The request ends and gives its lock back, or its place in the queue.      *)
Refuse(q) ==
  /\ request' = Done(q)
  /\ queue' = Released(q, LockOf(request[q].op))
  /\ UNCHANGED <<account, epoch, lag, token, revoked>>

-----------------------------------------------------------------------------
(* signup: the e-mail is UNIQUE; a second one is answered with 409.          *)
SignUp(u, password) ==
  /\ ~Exists(u)
  /\ account' = [account EXCEPT ![u] = Registered({"OPERATOR"}, password)]
  /\ UNCHANGED <<epoch, lag, token, revoked, queue, request>>

(* Every token gets a fresh jti.                                             *)
Unused == {s \in Sessions : token[s] = Nothing}

(* The passwords that somebody can give for an account by now; one that is   *)
(* simply wrong is answered with 401.                                        *)
Known(u) ==
  {account[u].password}
    \cup {request[q].new : q \in {r \in Requests : request[r] # Nothing
                                      /\ request[r].op = "change"
                                      /\ request[r].actor = u}}

Blank(u, op) ==
  [pc |-> "queue", op |-> op, actor |-> u, target |-> u, active |-> TRUE,
   roles |-> {}, current |-> Nothing, new |-> Nothing, version |-> 0,
   must |-> FALSE, overtaken |-> FALSE]

(* login reads the users row, then the credential, and signs the version of  *)
(* the row.                                                                  *)
LoginLoads(q, u, password) ==
  /\ request[q] = Nothing
  /\ account[u].active
  /\ Unused # {}
  /\ request' = [request EXCEPT ![q] =
       [Blank(u, "login") EXCEPT !.current = password,
                                 !.version = account[u].version]]
  /\ UNCHANGED <<account, epoch, lag, token, revoked, queue>>

Issued(u, version) == [user |-> u, version |-> version, epoch |-> epoch[u]]

LoginVerifies(q) ==
  LET u == request[q].actor IN
  /\ request[q] # Nothing /\ request[q].op = "login"
  /\ \/ /\ request[q].current = account[u].password
        /\ Unused # {}
        /\ token' = [token EXCEPT ![CHOOSE s \in Unused : TRUE] =
                      Issued(u, request[q].version)]
     \/ /\ request[q].current # account[u].password \/ Unused = {}
        /\ UNCHANGED token
  /\ request' = Done(q)
  /\ UNCHANGED <<account, epoch, lag, revoked, queue>>

-----------------------------------------------------------------------------
(* get_current_user: the token is not revoked, its user is active and has    *)
(* the version that the token carries.                                       *)
Acceptable(s) ==
  /\ token[s] # Nothing
  /\ s \notin revoked
  /\ account[token[s].user].active
  /\ account[token[s].user].version = token[s].version

(* A pending password change leaves only /me and change-password open;       *)
(* managing users and roles takes the ADMIN role.                            *)
Permitted(u, op) ==
  \/ op = "change"
  \/ op = "logout" /\ ~account[u].must
  \/ /\ op \in {"active", "roles", "reset"}
     /\ ~account[u].must
     /\ "ADMIN" \in account[u].roles

Logout(s) ==
  /\ Acceptable(s)
  /\ Permitted(token[s].user, "logout")
  /\ revoked' = revoked \cup {s}
  /\ UNCHANGED <<account, epoch, lag, token, queue, request>>

(* A token expires, and its revocation is purged.                            *)
Expire(s) ==
  /\ token[s] # Nothing
  /\ token' = [token EXCEPT ![s] = Nothing]
  /\ revoked' = revoked \ {s}
  /\ UNCHANGED <<account, epoch, lag, queue, request>>

(* Whoever may act is queued at once: asyncio.Lock hands over in the order   *)
(* of arrival.                                                               *)
Ask(q, wish) ==
  /\ request[q] = Nothing
  /\ Permitted(wish.actor, wish.op)
  /\ Exists(wish.target)
  /\ request' = [request EXCEPT ![q] = wish]
  /\ queue' = [queue EXCEPT ![LockOf(wish.op)] = Append(@, q)]
  /\ UNCHANGED <<account, epoch, lag, token, revoked>>

(* On one's own account neither changes anything: one is refused, the other  *)
(* finds it active.                                                          *)
AskActive(q, u, target, active) ==
  /\ target # u
  /\ Ask(q, [Blank(u, "active") EXCEPT !.target = target, !.active = active])

AskRoles(q, u, target, roles) ==
  /\ roles # {}
  /\ Ask(q, [Blank(u, "roles") EXCEPT !.target = target, !.roles = roles])

AskChange(q, u, current, new) ==
  /\ epoch[u] < MaxEpoch[u]
  /\ current \in Known(u)
  /\ Ask(q, [Blank(u, "change") EXCEPT !.current = current, !.new = new,
                !.version = account[u].version, !.must = account[u].must])

(* The temporary password is generated under the lock; it is fixed here, and *)
(* no other request knows it.                                                *)
AskReset(q, u, target, new) ==
  /\ target # u
  /\ epoch[target] < MaxEpoch[target]
  /\ \A v \in Users : Exists(v) => account[v].password # new
  /\ \A r \in Requests : request[r] # Nothing =>
       request[r].new # new /\ request[r].current # new
  /\ Ask(q, [Blank(u, "reset") EXCEPT !.target = target, !.new = new])

-----------------------------------------------------------------------------
(* Fault: nothing serialises the mutations.                                  *)
Holds_Unlocked(q, op, pc) ==
  /\ request[q] # Nothing
  /\ request[q].op = op
  /\ request[q].pc = pc

Holds(q, op, pc) ==
  /\ request[q] # Nothing
  /\ request[q].op = op
  /\ request[q].pc = pc
  /\ Head(queue[LockOf(op)]) = q

Goes(q, pc) ==
  /\ request' = [request EXCEPT ![q].pc = pc]
  /\ UNCHANGED <<account, epoch, lag, token, revoked, queue>>

OtherAdmins(u) ==
  {v \in Users \ {u} : Exists(v) /\ account[v].active
                       /\ "ADMIN" \in account[v].roles}

(* A query for the account that the session holds already answers with the   *)
(* object that it holds: whoever asks was an active ADMIN then.              *)
IsAdmin(q) ==
  LET u == request[q].target IN
  u = request[q].actor \/ (account[u].active /\ "ADMIN" \in account[u].roles)

(* Under the lock the target is loaded and the other ADMINs are counted.     *)
CheckActive(q) ==
  LET u == request[q].target IN
  /\ Holds(q, "active", "queue")
  /\ IF \/ account[u].active = request[q].active
        \/ ~request[q].active /\ IsAdmin(q) /\ OtherAdmins(u) = {}
     THEN Refuse(q) ELSE Goes(q, "write")

CheckRoles(q) ==
  /\ Holds(q, "roles", "queue")
  /\ IF /\ IsAdmin(q) /\ "ADMIN" \notin request[q].roles
        /\ OtherAdmins(request[q].target) = {}
     THEN Refuse(q) ELSE Goes(q, "write")

WriteActive(q) ==
  /\ Holds(q, "active", "write")
  /\ account' = [account EXCEPT ![request[q].target].active = request[q].active]
  /\ request' = Done(q)
  /\ queue' = Released(q, "admin")
  /\ UNCHANGED <<epoch, lag, token, revoked>>

(* The rows that were loaded are deleted, the new ones inserted.  Of one's   *)
(* own account other rows may be stored by now: they stay, and one of the    *)
(* same role makes the insert fail.                                          *)
WriteRoles(q) ==
  LET u    == request[q].target
      kept == IF request[q].overtaken /\ u = request[q].actor
              THEN account[u].roles ELSE {} IN
  /\ Holds(q, "roles", "write")
  /\ IF kept \cap request[q].roles # {} THEN Refuse(q)
     ELSE /\ account' = [account EXCEPT ![u].roles = kept \cup request[q].roles]
          /\ request' = [r \in Requests |->
               IF r = q \/ request[r] = Nothing THEN Nothing
               ELSE [request[r] EXCEPT
                       !.overtaken = @ \/ (/\ request[r].op = "roles"
                                           /\ request[r].actor = u
                                           /\ request[r].target = u)]]
          /\ queue' = Released(q, "admin")
          /\ UNCHANGED <<epoch, lag, token, revoked>>

-----------------------------------------------------------------------------
Replace(q, u, must, version, behind) ==
  /\ account' = [account EXCEPT ![u].password = request[q].new,
                                ![u].must = must, ![u].version = version]
  /\ epoch' = [epoch EXCEPT ![u] = @ + 1]
  /\ lag' = [lag EXCEPT ![u] = @ + behind]
  /\ request' = Done(q)
  /\ queue' = Released(q, "password")
  /\ UNCHANGED <<token, revoked>>

(* change_own_password: the credential is read afresh, the account is not.   *)
VerifyCurrent(q) ==
  LET stored == account[request[q].actor].password IN
  /\ Holds(q, "change", "queue")
  /\ IF request[q].current # stored \/ request[q].new = stored
     THEN Refuse(q) ELSE Goes(q, "write")

(* Fault: the hash is replaced under the version it had.                     *)
WriteChange_SameVersion(q) ==
  LET u == request[q].actor IN
  /\ Holds(q, "change", "write")
  /\ Replace(q, u, account[u].must /\ ~request[q].must, request[q].version,
             account[u].version - request[q].version)

(* An attribute is written when it differs from the object that was loaded.  *)
WriteChange(q) ==
  LET u == request[q].actor IN
  /\ Holds(q, "change", "write")
  /\ Replace(q, u, account[u].must /\ ~request[q].must, request[q].version + 1,
             account[u].version - request[q].version)

(* Fault: the flag is left to the caller.                                    *)
Reset_Unforced(q) ==
  LET u == request[q].target IN
  /\ Holds(q, "reset", "queue")
  /\ Replace(q, u, account[u].must, account[u].version + 1, 0)

(* The target is loaded under the lock, where nothing else writes what the   *)
(* reset writes.                                                             *)
Reset(q) ==
  LET u == request[q].target IN
  /\ Holds(q, "reset", "queue")
  /\ Replace(q, u, TRUE, account[u].version + 1, 0)

(* An exception, a lost connection, a restart: async with frees the lock.    *)
Fail(q) ==
  /\ q \in Mortal
  /\ request[q] # Nothing
  /\ Refuse(q)

-----------------------------------------------------------------------------
Arrive(q) ==
  \/ \E u \in {v \in Users : Exists(v)} : \E p \in Known(u) : LoginLoads(q, u, p)
  \/ \E u \in {token[s].user : s \in {t \in Sessions : Acceptable(t)}} :
       \/ \E v \in Users : \/ \E b \in BOOLEAN : AskActive(q, u, v, b)
                           \/ \E roles \in SUBSET Roles : AskRoles(q, u, v, roles)
                           \/ \E t \in Temporary : AskReset(q, u, v, t)
       \/ \E p \in Passwords, new \in Chosen : AskChange(q, u, p, new)

Proceed(q) ==
  \/ LoginVerifies(q)
  \/ CheckActive(q) \/ WriteActive(q)
  \/ CheckRoles(q) \/ WriteRoles(q)
  \/ VerifyCurrent(q) \/ WriteChange(q)
  \/ Reset(q)

Next ==
  \/ \E u \in Users, p \in Chosen : SignUp(u, p)
  \/ \E s \in Sessions : Logout(s) \/ Expire(s)
  \/ \E q \in Requests : Arrive(q) \/ Proceed(q) \/ Fail(q)

Spec == Init /\ [][Next]_vars

-----------------------------------------------------------------------------
(* "The final active ADMIN can never be deactivated or lose the ADMIN role": *)
(* not by two ADMINs who act on each other, nor by one who acts on what it   *)
(* was when it asked.                                                        *)
AnAdminRemains ==
  \E u \in Users : Exists(u) /\ account[u].active /\ "ADMIN" \in account[u].roles

(* An account is held to change its password exactly while it has the one    *)
(* that a reset generated, whatever changes were queued when the reset came. *)
ForcedUntilChosen ==
  \A u \in Users : Exists(u) =>
    (account[u].must <=> account[u].password \in Temporary)

(* "all existing sessions die": a token that counts was issued for the       *)
(* password that the account has now.                                        *)
OldSessionsDie ==
  \A s \in Sessions : Acceptable(s) => token[s].epoch = epoch[token[s].user]

(* A token outlives no more replacements of its password than the versions   *)
(* that changes counted on from were behind.  A session dies with its        *)
(* password unless a change was written on a version that was replaced while *)
(* it waited: a login that loads the account before the credential is no     *)
(* other way to survive, whatever resets and changes come in between.        *)
SurvivalTakesStaleVersions ==
  \A s \in Sessions : Acceptable(s) =>
    epoch[token[s].user] - token[s].epoch <= lag[token[s].user]
=============================================================================
