------------------------------- MODULE Accounts -------------------------------
(***************************************************************************)
(* The accounts, and the sessions that the tokens given out at a login     *)
(* stand for.  The middleware checks a token in a transaction of its own;  *)
(* the handler then reads, decides, and commits in a later step.           *)
(***************************************************************************)
EXTENDS Naturals, FiniteSets

CONSTANTS Users,        \* ids of accounts
          Emails, Passwords,
          Tokens,       \* tokens that may be given out
          Clients,      \* requests that may be under way at a time
          None,
          MaxVersion,   \* bound on the version of an account
          Workloads     \* which rows there are at first, which forms a request
                        \* sends, and which requests come

Roles     == {"Admin", "Contributor", "Reader"}
Hierarchy == [Admin |-> 3, Contributor |-> 2, Reader |-> 1]
CanPerform(role, required) == Hierarchy[role] >= Hierarchy[required]

Row   == [stage : {"unused", "stored", "gone"}, email : Emails \cup {None},
          role : Roles, active : BOOLEAN, password : Passwords \cup {None},
          version : 1..MaxVersion]
StoredRow == {r \in Row : r.stage = "stored"}

ASSUME AccountsAssumption ==
  /\ MaxVersion \in Nat \ {0}
  /\ \A w \in Workloads :
       /\ DOMAIN w.rows \subseteq Users
       /\ \A u \in DOMAIN w.rows : w.rows[u] \in StoredRow
       /\ \A u, v \in DOMAIN w.rows : w.rows[u].email = w.rows[v].email => u = v
       /\ w.forms \subseteq StoredRow

VARIABLES account,      \* account[u]: the row, with stage unused, stored or gone
          token,        \* token[t]: the account and the version it was given for
          ended,        \* tokens given out before a session was ended on purpose
          call,         \* call[c]: the request of c
          overlapped,   \* accounts whose version a stale request wrote
          offered

vars == <<account, token, ended, call, overlapped, offered>>

NoRow == [stage |-> "unused", email |-> None, role |-> "Contributor", active |-> TRUE,
          password |-> None, version |-> 1]
Call  == [op : {"none", "create", "update", "delete", "password", "logout"},
          u : Users \cup {None}, was : Row, to : Row, fresh : BOOLEAN]
NoCall == [op |-> "none", u |-> None, was |-> NoRow, to |-> NoRow, fresh |-> FALSE]

TypeOK ==
  /\ account \in [Users -> Row]
  /\ token \in [Tokens -> [u : Users, version : 1..MaxVersion] \cup {None}]
  /\ ended \subseteq Tokens /\ overlapped \subseteq Users
  /\ call \in [Clients -> Call] /\ offered \in Workloads

Init ==
  /\ offered \in Workloads
  /\ account = [u \in Users |-> IF u \in DOMAIN offered.rows THEN offered.rows[u] ELSE NoRow]
  /\ token = [t \in Tokens |-> None]
  /\ ended = {} /\ overlapped = {}
  /\ call = [c \in Clients |-> NoCall]

Stored   == {u \in Users : account[u].stage = "stored"}
Admins   == {u \in Stored : account[u].role = "Admin"}
GetByEmail(e) == {u \in Stored : account[u].email = e}

\* The start of the process drops every request under way, and makes the
\* first account when there is none.
Startup ==
  /\ \/ Stored = {} /\ \E u \in Users, e \in Emails, p \in Passwords :
          /\ account[u].stage = "unused"
          /\ account' = [account EXCEPT ![u] =
               [NoRow EXCEPT !.stage = "stored", !.email = e, !.role = "Admin", !.password = p]]
     \/ Stored # {} /\ UNCHANGED account
  /\ call' = [c \in Clients |-> NoCall]
  /\ UNCHANGED <<token, ended, overlapped, offered>>

-----------------------------------------------------------------------------
\* POST /auth/login
CreateJwt(u) == [u |-> u, version |-> account[u].version]

Authenticate(t) ==
  \E u \in Stored :
    /\ token[t] = None /\ account[u].active
    /\ \E p \in Passwords : account[u].password = p
    /\ token' = [token EXCEPT ![t] = CreateJwt(u)]
    /\ UNCHANGED <<account, ended, call, overlapped, offered>>

\* AuthMiddleware: the version of the token is compared with the account's.
AcceptsNot(t) ==
  /\ token[t] # None /\ token[t].u \in Stored /\ account[token[t].u].active
Accepts(t) ==
  /\ token[t] # None /\ token[t].u \in Stored
  /\ token[t].version = account[token[t].u].version /\ account[token[t].u].active

\* require_role: the role is the one in the row, not the one in the token.
Role(t) == account[token[t].u].role

May(c, t, required, op) ==
  /\ op \in offered.ops /\ call[c] = NoCall
  /\ Accepts(t) /\ CanPerform(Role(t), required)

Start(c, r) ==
  /\ call' = [call EXCEPT ![c] = [r EXCEPT !.fresh = TRUE]]
  /\ UNCHANGED <<account, token, ended, overlapped, offered>>

\* A commit on the account u makes what others have read of it stale.
Commit(c, u) ==
  call' = [x \in Clients |->
             IF x = c \/ call[x] = NoCall THEN NoCall
             ELSE [call[x] EXCEPT !.fresh = @ /\ call[x].u # u]]

Refuse(c) ==
  /\ call' = [call EXCEPT ![c] = NoCall]
  /\ UNCHANGED <<account, token, ended, overlapped, offered>>

\* The unique constraint on users.email.
UniqueEmail(u, e) == GetByEmail(e) \subseteq {u}

\* Every token of u given out so far.
Ended(u) == {t \in Tokens : token[t] # None /\ token[t].u = u}

\* POST /users
CreateUser(c, t) ==
  /\ May(c, t, "Admin", "create")
  /\ \E u \in Users, form \in offered.forms :
       /\ account[u].stage = "unused" /\ GetByEmail(form.email) = {}
       /\ \A x \in Clients : call[x].op = "create" => call[x].u # u
       /\ Start(c, [NoCall EXCEPT !.op = "create", !.u = u, !.to = form])

CommitCreateUser(c) ==
  LET r == call[c]
  IN /\ r.op = "create"
     /\ IF UniqueEmail(r.u, r.to.email)
        THEN /\ account' = [account EXCEPT ![r.u] = r.to]
             /\ Commit(c, r.u)
             /\ UNCHANGED <<token, ended, overlapped, offered>>
        ELSE Refuse(c)

\* PATCH /users/{id}
UpdateUser(c, t) ==
  /\ May(c, t, "Admin", "update")
  /\ \E u \in Stored, form \in offered.forms :
       LET was == account[u]
       IN /\ form.email # was.email => GetByEmail(form.email) = {}
          /\ Start(c, [NoCall EXCEPT !.op = "update", !.u = u, !.was = was,
                         !.to = [form EXCEPT !.version = was.version]])

\* Whether the update ends the sessions of the account, as the request read it.
EndsSessions(r) == r.to.role # r.was.role \/ r.to.active # r.was.active

\* Columns that differ from what was read are written.
Merge(stored, was, to) ==
  [f \in DOMAIN stored |-> IF to[f] = was[f] THEN stored[f] ELSE to[f]]

\* The row is written, and so locked, before its version is read again and
\* raised: no other request comes between.
CommitUpdateUser(c) ==
  LET r   == call[c]
      row == Merge(account[r.u], r.was, r.to)
  IN /\ r.op = "update"
     /\ IF r.u \in Stored /\ UniqueEmail(r.u, row.email)
        THEN /\ EndsSessions(r) => row.version < MaxVersion
             /\ account' = [account EXCEPT ![r.u] =
                  IF EndsSessions(r) THEN [row EXCEPT !.version = @ + 1] ELSE row]
             /\ ended' = IF EndsSessions(r) THEN ended \cup Ended(r.u) ELSE ended
             /\ Commit(c, r.u)
             /\ UNCHANGED <<token, overlapped, offered>>
        ELSE Refuse(c)

\* DELETE /users/{id}
DeleteUser(c, t) ==
  /\ May(c, t, "Admin", "delete")
  /\ \E u \in Stored \ {token[t].u} :
       Start(c, [NoCall EXCEPT !.op = "delete", !.u = u, !.was = account[u]])

\* The rows of the admins are counted under a lock that lasts to the commit.
CountBeforeLock(r) == TRUE
CountForUpdate(r) == r.was.role = "Admin" => Cardinality(Admins) > 1

CommitDeleteUser(c) ==
  LET r == call[c]
  IN /\ r.op = "delete"
     /\ IF CountForUpdate(r)
        THEN /\ account' = [account EXCEPT ![r.u].stage = "gone"]
             /\ Commit(c, r.u)
             /\ UNCHANGED <<token, ended, overlapped, offered>>
        ELSE Refuse(c)

\* PATCH /auth/me/password
ChangeOwnPassword(c, t) ==
  /\ May(c, t, "Reader", "password")
  /\ \E p \in Passwords :
       LET was == account[token[t].u]
       IN /\ was.password # p
          /\ Start(c, [NoCall EXCEPT !.op = "password", !.u = token[t].u, !.was = was,
                         !.to = [was EXCEPT !.password = p]])

CommitPassword(c) ==
  LET r == call[c]
  IN /\ r.op = "password"
     /\ IF r.u \in Stored
        THEN /\ account[r.u].version < MaxVersion
             /\ account' = [account EXCEPT ![r.u].password = r.to.password,
                                           ![r.u].version = @ + 1]
             /\ ended' = ended \cup Ended(r.u)
             /\ Commit(c, r.u)
             /\ UNCHANGED <<token, overlapped, offered>>
        ELSE Refuse(c)

\* The command line resets the password of the account with an email; the
\* sessions of the account go on.
ResetPasswordByEmail ==
  \E e \in Emails, p \in Passwords : \E u \in GetByEmail(e) :
    /\ "password" \in offered.ops
    /\ account' = [account EXCEPT ![u].password = p]
    /\ Commit(None, u)
    /\ UNCHANGED <<token, ended, overlapped, offered>>

\* POST /auth/logout
Logout(c, t) ==
  /\ May(c, t, "Reader", "logout")
  /\ account[token[t].u].version < MaxVersion
  /\ Start(c, [NoCall EXCEPT !.op = "logout", !.u = token[t].u,
                 !.was = account[token[t].u]])

\* The version is raised from what this request has read.
IncrementNot(was) == was.version
IncrementTokenVersion(was) == was.version + 1

CommitLogout(c) ==
  LET r == call[c]
  IN /\ r.op = "logout"
     /\ IF r.u \in Stored
        THEN /\ account' = [account EXCEPT ![r.u].version = IncrementTokenVersion(r.was)]
             /\ ended' = ended \cup Ended(r.u)
             /\ overlapped' = IF r.fresh THEN overlapped ELSE overlapped \cup {r.u}
             /\ Commit(c, r.u)
             /\ UNCHANGED <<token, offered>>
        ELSE Refuse(c)

Next ==
  \/ Startup \/ ResetPasswordByEmail
  \/ \E t \in Tokens : Authenticate(t)
  \/ \E c \in Clients :
       \/ CommitCreateUser(c) \/ CommitUpdateUser(c) \/ CommitDeleteUser(c)
       \/ CommitPassword(c) \/ CommitLogout(c)
       \/ \E t \in Tokens : \/ CreateUser(c, t) \/ UpdateUser(c, t) \/ DeleteUser(c, t)
                            \/ ChangeOwnPassword(c, t) \/ Logout(c, t)

Spec == Init /\ [][Next]_vars

-----------------------------------------------------------------------------
\* A session that was ended on purpose stays ended, unless a logout overlapped
\* another change of the account: it raises the version it has read.
EndedSessionsStayEnded ==
  \A t \in ended : Accepts(t) => token[t].u \in overlapped

\* No two accounts share an email.
EmailsUnique ==
  \A u, v \in Stored : account[u].email = account[v].email => u = v

\* A session that was ended on purpose stays ended (user_service.py, auth.py).
SessionsHold == TypeOK /\ EmailsUnique /\ EndedSessionsStayEnded

\* A delete that nothing overlapped leaves an Admin: the count comes after the
\* lock on the rows of all Admins, so two Admins who delete each other do not
\* both succeed.  (One that has read the account before it became an Admin does
\* not count, and may take the last.)
DeleteLeavesAdminStep ==
  \A c \in Clients :
    /\ call[c].op = "delete" /\ call[c].fresh /\ call'[c] = NoCall /\ Admins # {}
    /\ account[call[c].u].stage = "stored" /\ account'[call[c].u].stage = "gone"
    => Admins' # {}
DeleteLeavesAdmin == [][DeleteLeavesAdminStep]_vars
===============================================================================
