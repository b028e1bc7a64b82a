---------------------------- MODULE Accounts_proofs ----------------------------
(***************************************************************************)
(* Sessions that were ended stay ended, for any number of accounts,        *)
(* tokens and requests.                                                    *)
(*                                                                         *)
(* A token counts while its version is the account's.  What has to be      *)
(* known of every request under way is what its commit will do to that     *)
(* version: an update keeps it or raises the stored one, a logout writes   *)
(* one more than it has read, which is the stored one plus one only if     *)
(* nothing overlapped it.                                                  *)
(***************************************************************************)
EXTENDS Accounts, FiniteSetTheorems, TLAPS

\* No token is newer than its account, if no stale request wrote the version.
TokensOld ==
  \A t \in Tokens : token[t] # None =>
    /\ account[token[t].u].stage # "unused"
    /\ token[t].u \in overlapped \/ token[t].version <= account[token[t].u].version

\* A session that was ended is older than its account.
EndedOld ==
  \A t \in ended :
    /\ token[t] # None
    /\ token[t].u \in overlapped \/ token[t].version < account[token[t].u].version

\* A new id belongs to one request and to no row.
CreateInv ==
  \A c \in Clients : call[c].op = "create" =>
    /\ call[c].u \in Users /\ account[call[c].u].stage = "unused"
    /\ call[c].to.stage = "stored"
    /\ \A x \in Clients : call[x].op = "create" /\ call[x].u = call[c].u => x = c

\* The other requests have read a row; what they will write keeps its stage.
ReadInv ==
  \A c \in Clients : call[c].op \in {"update", "delete", "password", "logout"} =>
    /\ call[c].u \in Users /\ account[call[c].u].stage # "unused"
    /\ call[c].op = "update" => /\ call[c].to.version = call[c].was.version
                                /\ call[c].to.stage = call[c].was.stage
    /\ call[c].op = "logout" =>
         /\ call[c].was.version < MaxVersion
         /\ call[c].fresh => call[c].was.version = account[call[c].u].version

SInv == TypeOK /\ EmailsUnique /\ TokensOld /\ EndedOld /\ CreateInv /\ ReadInv

-----------------------------------------------------------------------------

LEMMA NoCallTyped == NoRow \in Row /\ NoCall \in Call
  BY AccountsAssumption DEF NoRow, Row, NoCall, Call, Roles

LEMMA InitHolds == Init => SInv
<1> SUFFICES ASSUME Init PROVE SInv
  OBVIOUS
<1>1. account \in [Users -> Row]
  BY NoCallTyped, AccountsAssumption DEF Init, StoredRow
<1>2. TypeOK
  BY <1>1, NoCallTyped DEF Init, TypeOK
<1>3. \A c \in Clients : call[c].op = "none"
  BY DEF Init, NoCall
<1>4. TokensOld /\ EndedOld /\ CreateInv /\ ReadInv
  BY <1>3 DEF Init, TokensOld, EndedOld, CreateInv, ReadInv
<1>5. EmailsUnique
  BY AccountsAssumption DEF Init, EmailsUnique, Stored, NoRow
<1> QED  BY <1>2, <1>4, <1>5 DEF SInv

-----------------------------------------------------------------------------
(* What a step does to one row, to the tokens and to the requests.          *)

\* A step that changes the row u keeps emails unique if it keeps this one unique.
LEMMA RowKeepsEmails ==
  ASSUME EmailsUnique, TypeOK, NEW u \in Users,
         \A v \in Users \ {u} : account'[v] = account[v],
         account'[u].stage = "stored" => UniqueEmail(u, account'[u].email)
  PROVE  EmailsUnique'
<1> SUFFICES ASSUME NEW v \in Stored', NEW w \in Stored', account'[v].email = account'[w].email
             PROVE  v = w
  BY DEF EmailsUnique
<1>1. CASE v # u /\ w # u
  BY <1>1 DEF EmailsUnique, Stored
<1>2. CASE v = u \/ w = u
  BY <1>2 DEF UniqueEmail, GetByEmail, Stored
<1> QED  BY <1>1, <1>2

\* It keeps what is known of tokens if the version of the row does not fall, and
\* rises when sessions are ended, or else the row counts as overlapped.
LEMMA RowKeepsTokens ==
  ASSUME TypeOK, TypeOK', TokensOld, EndedOld, NEW u \in Users, UNCHANGED token,
         \A v \in Users \ {u} : account'[v] = account[v],
         account[u].stage # "unused" => account'[u].stage # "unused",
         overlapped \subseteq overlapped',
         \/ account[u].stage = "unused" \/ u \in overlapped'
         \/ account'[u].version >= account[u].version,
         \/ ended' = ended
         \/ /\ ended' = ended \cup Ended(u)
            /\ u \in overlapped' \/ account'[u].version > account[u].version
  PROVE  TokensOld' /\ EndedOld'
<1>1. \A v \in Users : account[v].version \in Nat /\ account'[v].version \in Nat
  BY AccountsAssumption DEF TypeOK, Row
<1>2. \A t \in Tokens : token[t] # None => token[t].u \in Users /\ token[t].version \in Nat
  BY AccountsAssumption DEF TypeOK
<1>3. TokensOld'
  BY <1>1, <1>2 DEF TokensOld
<1>4. ended' \subseteq Tokens
  BY DEF TypeOK
<1>5. ASSUME NEW t \in ended' PROVE token[t] # None
  BY <1>5 DEF EndedOld, Ended
<1>6. ASSUME NEW t \in ended', token[t].u \notin overlapped'
      PROVE  token[t].version < account'[token[t].u].version
  <2>1. token[t] # None /\ token[t].u \in Users /\ token[t].version \in Nat /\ t \in Tokens
    BY <1>2, <1>4, <1>5, <1>6
  <2>2. CASE t \in ended
    BY <1>1, <1>6, <2>1, <2>2 DEF EndedOld, TokensOld
  <2>3. CASE t \notin ended
    BY <1>1, <1>6, <2>1, <2>3 DEF TokensOld, Ended
  <2> QED  BY <2>2, <2>3
<1> QED  BY <1>3, <1>5, <1>6 DEF EndedOld

\* A commit leaves to the other requests all but their freshness.
LEMMA CommitLeaves ==
  ASSUME TypeOK, NEW c, NEW u, Commit(c, u), NEW x \in Clients
  PROVE  /\ call'[x] \in Call
         /\ call'[x].op # "none" =>
              /\ x # c
              /\ call'[x].op = call[x].op /\ call'[x].u = call[x].u
              /\ call'[x].was = call[x].was /\ call'[x].to = call[x].to
              /\ call'[x].fresh => call[x].fresh /\ call[x].u # u
<1>1. call[x] \in Call
  BY DEF TypeOK
<1>2. CASE x = c \/ call[x] = NoCall
  BY <1>2, NoCallTyped DEF Commit, NoCall
<1>3. CASE ~(x = c \/ call[x] = NoCall)
  <2>1. call'[x] = [call[x] EXCEPT !.fresh = @ /\ call[x].u # u]
    BY <1>3 DEF Commit
  <2> QED  BY <1>1, <1>3, <2>1 DEF Call
<1> QED  BY <1>2, <1>3

\* A commit on a row keeps what is known of the requests, if it makes a row of an
\* unused id only for the request that was to create it.
LEMMA CommitKeepsCalls ==
  ASSUME TypeOK, CreateInv, ReadInv, NEW c, NEW u \in Users, Commit(c, u),
         \A v \in Users \ {u} : account'[v] = account[v],
         account[u].stage # "unused" => account'[u].stage # "unused",
         account[u].stage = "unused" => c \in Clients /\ call[c].op = "create" /\ call[c].u = u
  PROVE  CreateInv' /\ ReadInv'
<1>1. CreateInv'
  <2> SUFFICES ASSUME NEW x \in Clients, call'[x].op = "create"
               PROVE  /\ call'[x].u \in Users /\ account'[call'[x].u].stage = "unused"
                      /\ call'[x].to.stage = "stored"
                      /\ \A y \in Clients : call'[y].op = "create" /\ call'[y].u = call'[x].u
                           => y = x
    BY DEF CreateInv
  <2>1. x # c /\ call[x].op = "create" /\ call'[x].u = call[x].u /\ call'[x].to = call[x].to
    BY CommitLeaves
  <2>2. call[x].u # u
    BY <2>1 DEF CreateInv
  <2>3. ASSUME NEW y \in Clients, call'[y].op = "create", call'[y].u = call'[x].u
        PROVE  y = x
    BY <2>1, <2>3, CommitLeaves DEF CreateInv
  <2> QED  BY <2>1, <2>2, <2>3 DEF CreateInv
<1>2. ReadInv'
  <2> SUFFICES ASSUME NEW x \in Clients,
                      call'[x].op \in {"update", "delete", "password", "logout"}
               PROVE  /\ call'[x].u \in Users /\ account'[call'[x].u].stage # "unused"
                      /\ call'[x].op = "update" =>
                           /\ call'[x].to.version = call'[x].was.version
                           /\ call'[x].to.stage = call'[x].was.stage
                      /\ call'[x].op = "logout" =>
                           /\ call'[x].was.version < MaxVersion
                           /\ call'[x].fresh =>
                                call'[x].was.version = account'[call'[x].u].version
    BY DEF ReadInv
  <2>1. /\ call'[x].op = call[x].op /\ call'[x].u = call[x].u
        /\ call'[x].was = call[x].was /\ call'[x].to = call[x].to
        /\ call'[x].fresh => call[x].fresh /\ call[x].u # u
    BY CommitLeaves
  <2> QED  BY <2>1 DEF ReadInv
<1> QED  BY <1>1, <1>2

-----------------------------------------------------------------------------
(* The actions.                                                             *)

\* A row that an update merges is a row, stored like the one it replaces.
LEMMA MergeTyped ==
  ASSUME NEW stored \in Row, NEW was \in Row, NEW to \in Row
  PROVE  /\ Merge(stored, was, to) \in Row
         /\ to.stage = was.stage => Merge(stored, was, to).stage = stored.stage
         /\ to.version = was.version => Merge(stored, was, to).version = stored.version
  BY DEF Merge, Row

\* A request that starts has read the row as it is.
LEMMA StartHolds ==
  ASSUME SInv, NEW c \in Clients, call[c] = NoCall,
         NEW r \in Call, r.op # "none", r.fresh, call' = [call EXCEPT ![c] = r],
         UNCHANGED <<account, token, ended, overlapped, offered>>,
         r.u \in Users,
         r.op = "create" =>
           /\ account[r.u].stage = "unused" /\ r.to.stage = "stored"
           /\ \A x \in Clients : call[x].op = "create" => call[x].u # r.u,
         r.op # "create" => account[r.u].stage = "stored" /\ r.was = account[r.u],
         r.op = "update" => r.to.version = r.was.version /\ r.to.stage = r.was.stage,
         r.op = "logout" => r.was.version < MaxVersion
  PROVE  SInv'
<1> USE DEF SInv
<1>1. TypeOK'
  BY DEF TypeOK
<1>2. EmailsUnique' /\ TokensOld' /\ EndedOld'
  BY DEF EmailsUnique, Stored, TokensOld, EndedOld
<1>3. \A x \in Clients : call'[x] = IF x = c THEN r ELSE call[x]
  BY DEF TypeOK
<1>4. call[c].op = "none"
  BY DEF NoCall
<1>5. CreateInv'
  BY <1>3, <1>4 DEF CreateInv
<1>6. ReadInv'
  BY <1>3 DEF ReadInv
<1> QED  BY <1>1, <1>2, <1>5, <1>6

\* What the requests start with.
LEMMA BeginHolds ==
  ASSUME SInv, NEW c \in Clients, NEW t \in Tokens,
         CreateUser(c, t) \/ UpdateUser(c, t) \/ DeleteUser(c, t)
           \/ ChangeOwnPassword(c, t) \/ Logout(c, t)
  PROVE  SInv'
<1>1. account \in [Users -> Row] /\ offered \in Workloads /\ offered.forms \subseteq StoredRow
  BY AccountsAssumption DEF SInv, TypeOK
<1>2. ASSUME Accepts(t)
      PROVE  token[t].u \in Users /\ account[token[t].u] \in StoredRow
  BY <1>1, <1>2 DEF Accepts, Stored, StoredRow
<1>3. CASE CreateUser(c, t)
  <2>1. PICK u \in Users, form \in offered.forms :
          /\ account[u].stage = "unused"
          /\ \A x \in Clients : call[x].op = "create" => call[x].u # u
          /\ Start(c, [NoCall EXCEPT !.op = "create", !.u = u, !.to = form])
    BY <1>3 DEF CreateUser
  <2> DEFINE r == [NoCall EXCEPT !.op = "create", !.u = u, !.to = form, !.fresh = TRUE]
  <2>2. r \in Call /\ r.op = "create" /\ r.fresh /\ r.u = u /\ r.to = form /\ form.stage = "stored"
    BY <1>1, NoCallTyped DEF Call, StoredRow, NoCall
  <2>3. /\ call[c] = NoCall /\ call' = [call EXCEPT ![c] = r]
        /\ UNCHANGED <<account, token, ended, overlapped, offered>>
    BY <1>3, <2>1 DEF CreateUser, May, Start
  <2> HIDE DEF r
  <2> QED  BY <2>1, <2>2, <2>3, StartHolds
<1>4. CASE UpdateUser(c, t)
  <2>1. PICK u \in Stored, form \in offered.forms :
          Start(c, [NoCall EXCEPT !.op = "update", !.u = u, !.was = account[u],
                      !.to = [form EXCEPT !.version = account[u].version]])
    BY <1>4 DEF UpdateUser
  <2> DEFINE r == [NoCall EXCEPT !.op = "update", !.u = u, !.was = account[u],
                     !.to = [form EXCEPT !.version = account[u].version], !.fresh = TRUE]
  <2>2. account[u] \in StoredRow /\ form \in StoredRow /\ u \in Users
    BY <1>1 DEF Stored, StoredRow
  <2>3. [form EXCEPT !.version = account[u].version] \in StoredRow
    BY <2>2 DEF StoredRow, Row
  <2>4. /\ r \in Call /\ r.op = "update" /\ r.fresh /\ r.u = u /\ r.was = account[u]
        /\ r.to.version = r.was.version /\ r.to.stage = r.was.stage
    BY <2>2, <2>3, NoCallTyped DEF Call, StoredRow, Row, NoCall
  <2>5. /\ call[c] = NoCall /\ call' = [call EXCEPT ![c] = r]
        /\ UNCHANGED <<account, token, ended, overlapped, offered>>
    BY <1>4, <2>1 DEF UpdateUser, May, Start
  <2> HIDE DEF r
  <2> QED  BY <2>2, <2>4, <2>5, StartHolds DEF StoredRow
<1>5. CASE DeleteUser(c, t)
  <2>1. PICK u \in Stored :
          Start(c, [NoCall EXCEPT !.op = "delete", !.u = u, !.was = account[u]])
    BY <1>5 DEF DeleteUser
  <2> DEFINE r == [NoCall EXCEPT !.op = "delete", !.u = u, !.was = account[u], !.fresh = TRUE]
  <2>2. account[u] \in StoredRow /\ u \in Users
    BY <1>1 DEF Stored, StoredRow
  <2>3. r \in Call /\ r.op = "delete" /\ r.fresh /\ r.u = u /\ r.was = account[u]
    BY <2>2, NoCallTyped DEF Call, StoredRow, NoCall
  <2>4. /\ call[c] = NoCall /\ call' = [call EXCEPT ![c] = r]
        /\ UNCHANGED <<account, token, ended, overlapped, offered>>
    BY <1>5, <2>1 DEF DeleteUser, May, Start
  <2> HIDE DEF r
  <2> QED  BY <2>2, <2>3, <2>4, StartHolds DEF StoredRow
<1>6. CASE ChangeOwnPassword(c, t)
  <2> DEFINE u == token[t].u
  <2>1. Accepts(t) /\ call[c] = NoCall
    BY <1>6 DEF ChangeOwnPassword, May
  <2>2. PICK p \in Passwords :
          Start(c, [NoCall EXCEPT !.op = "password", !.u = u, !.was = account[u],
                      !.to = [account[u] EXCEPT !.password = p]])
    BY <1>6 DEF ChangeOwnPassword
  <2> DEFINE r == [NoCall EXCEPT !.op = "password", !.u = u, !.was = account[u],
                     !.to = [account[u] EXCEPT !.password = p], !.fresh = TRUE]
  <2>3. account[u] \in StoredRow /\ u \in Users
    BY <1>2, <2>1
  <2>4. [account[u] EXCEPT !.password = p] \in Row
    BY <2>3 DEF StoredRow, Row
  <2>5. r \in Call /\ r.op = "password" /\ r.fresh /\ r.u = u /\ r.was = account[u]
    BY <2>3, <2>4, NoCallTyped DEF Call, StoredRow, NoCall
  <2>6. /\ call' = [call EXCEPT ![c] = r]
        /\ UNCHANGED <<account, token, ended, overlapped, offered>>
    BY <2>2 DEF Start
  <2> HIDE DEF r
  <2> QED  BY <2>1, <2>3, <2>5, <2>6, StartHolds DEF StoredRow
<1>7. CASE Logout(c, t)
  <2> DEFINE u == token[t].u
             r == [NoCall EXCEPT !.op = "logout", !.u = u, !.was = account[u], !.fresh = TRUE]
  <2>1. Accepts(t) /\ call[c] = NoCall /\ account[u].version < MaxVersion
    BY <1>7 DEF Logout, May
  <2>2. account[u] \in StoredRow /\ u \in Users
    BY <1>2, <2>1
  <2>3. r \in Call /\ r.op = "logout" /\ r.fresh /\ r.u = u /\ r.was = account[u]
    BY <2>2, NoCallTyped DEF Call, StoredRow, NoCall
  <2>4. /\ call' = [call EXCEPT ![c] = r]
        /\ UNCHANGED <<account, token, ended, overlapped, offered>>
    BY <1>7 DEF Logout, Start
  <2> HIDE DEF r
  <2> QED  BY <2>1, <2>2, <2>3, <2>4, StartHolds DEF StoredRow
<1> QED  BY <1>3, <1>4, <1>5, <1>6, <1>7

\* A refused request leaves everything but itself as it was.
LEMMA RefuseHolds == ASSUME SInv, NEW c \in Clients, Refuse(c) PROVE SInv'
<1> USE DEF SInv, Refuse
<1>1. TypeOK'
  BY NoCallTyped DEF TypeOK
<1>2. EmailsUnique' /\ TokensOld' /\ EndedOld'
  BY DEF EmailsUnique, Stored, TokensOld, EndedOld
<1>3. \A x \in Clients : call'[x].op # "none" => x # c /\ call'[x] = call[x]
  BY DEF TypeOK, NoCall
<1> QED  BY <1>1, <1>2, <1>3 DEF CreateInv, ReadInv

\* A commit that writes one row, with all that has to be known of it.
LEMMA CommitHolds ==
  ASSUME SInv, NEW c, NEW u \in Users, NEW row \in Row, Commit(c, u),
         account' = [account EXCEPT ![u] = row], UNCHANGED <<token, offered>>,
         overlapped' \subseteq Users, overlapped \subseteq overlapped',
         row.stage = "stored" => UniqueEmail(u, row.email),
         row.stage # "unused",
         account[u].stage = "unused" => c \in Clients /\ call[c].op = "create" /\ call[c].u = u,
         \/ account[u].stage = "unused" \/ u \in overlapped'
         \/ row.version >= account[u].version,
         \/ ended' = ended
         \/ ended' = ended \cup Ended(u) /\ (u \in overlapped' \/ row.version > account[u].version)
  PROVE  SInv'
<1> USE DEF SInv
<1>1. /\ account' \in [Users -> Row] /\ account'[u] = row
      /\ \A v \in Users \ {u} : account'[v] = account[v]
  BY DEF TypeOK
<1>2. call' \in [Clients -> Call]
  <2>1. \A x \in Clients : call'[x] \in Call
    BY CommitLeaves
  <2>2. call' = [x \in Clients |-> call'[x]]
    BY DEF Commit
  <2> QED  BY <2>1, <2>2
<1>3. TypeOK'
  BY <1>1, <1>2 DEF TypeOK, Ended
<1>4. EmailsUnique'
  BY <1>1, RowKeepsEmails
<1>5. TokensOld' /\ EndedOld'
  BY <1>1, <1>3, RowKeepsTokens
<1>6. CreateInv' /\ ReadInv'
  BY <1>1, CommitKeepsCalls
<1> QED  BY <1>3, <1>4, <1>5, <1>6

\* Every commit of a request keeps the invariant.
LEMMA CommitsHold ==
  ASSUME SInv, NEW c \in Clients,
         CommitCreateUser(c) \/ CommitUpdateUser(c) \/ CommitDeleteUser(c)
           \/ CommitPassword(c) \/ CommitLogout(c)
  PROVE  SInv'
<1> DEFINE r == call[c]
<1>1. /\ r \in Call /\ account \in [Users -> Row]
      /\ \A v \in Users : account[v].version \in Nat /\ account[v].version <= MaxVersion
  BY AccountsAssumption DEF SInv, TypeOK, Row
<1>2. CASE CommitCreateUser(c) /\ ~Refuse(c)
  <2>1. /\ UniqueEmail(r.u, r.to.email) /\ account' = [account EXCEPT ![r.u] = r.to]
        /\ Commit(c, r.u) /\ UNCHANGED <<token, ended, overlapped, offered>>
        /\ r.op = "create"
    BY <1>2 DEF CommitCreateUser
  <2>2. r.u \in Users /\ account[r.u].stage = "unused" /\ r.to.stage = "stored" /\ r.to \in Row
    BY <1>1, <2>1 DEF SInv, CreateInv, Call
  <2>3. overlapped \subseteq Users
    BY DEF SInv, TypeOK
  <2> QED  BY <2>1, <2>2, <2>3, CommitHolds
<1>3. CASE CommitUpdateUser(c) /\ ~Refuse(c)
  <2> DEFINE row == Merge(account[r.u], r.was, r.to)
             now == IF EndsSessions(r) THEN [row EXCEPT !.version = @ + 1] ELSE row
  <2>1. /\ r.op = "update" /\ r.u \in Stored /\ UniqueEmail(r.u, row.email)
        /\ EndsSessions(r) => row.version < MaxVersion
        /\ account' = [account EXCEPT ![r.u] = now]
        /\ ended' = IF EndsSessions(r) THEN ended \cup Ended(r.u) ELSE ended
        /\ Commit(c, r.u) /\ UNCHANGED <<token, overlapped, offered>>
    BY <1>3 DEF CommitUpdateUser
  <2>2. /\ r.u \in Users /\ account[r.u].stage = "stored" /\ account[r.u] \in Row
        /\ r.was \in Row /\ r.to \in Row
        /\ r.to.version = r.was.version /\ r.to.stage = r.was.stage
    BY <1>1, <2>1 DEF SInv, ReadInv, Call, Stored
  <2>3. row \in Row /\ row.stage = "stored" /\ row.version = account[r.u].version
    BY <2>2, MergeTyped
  <2> HIDE DEF row
  <2>4. /\ now \in Row /\ now.stage = "stored" /\ now.email = row.email
        /\ now.version = IF EndsSessions(r) THEN account[r.u].version + 1
                         ELSE account[r.u].version
    BY <1>1, <2>1, <2>2, <2>3, AccountsAssumption DEF Row
  <2>5. overlapped \subseteq Users
    BY DEF SInv, TypeOK
  <2> HIDE DEF now
  <2>6. now.version >= account[r.u].version
        /\ (EndsSessions(r) => now.version > account[r.u].version)
    BY <1>1, <2>2, <2>4
  <2> QED  BY <2>1, <2>2, <2>4, <2>5, <2>6, CommitHolds
<1>4. CASE CommitDeleteUser(c) /\ ~Refuse(c)
  <2> DEFINE row == [account[r.u] EXCEPT !.stage = "gone"]
  <2>1. /\ r.op = "delete" /\ account' = [account EXCEPT ![r.u].stage = "gone"]
        /\ Commit(c, r.u) /\ UNCHANGED <<token, ended, overlapped, offered>>
    BY <1>4 DEF CommitDeleteUser
  <2>2. r.u \in Users /\ account[r.u].stage # "unused" /\ account[r.u] \in Row
    BY <1>1, <2>1 DEF SInv, ReadInv
  <2>3. row \in Row /\ row.stage = "gone" /\ row.version = account[r.u].version
        /\ account' = [account EXCEPT ![r.u] = row]
    BY <1>1, <2>1, <2>2 DEF Row
  <2>4. overlapped \subseteq Users
    BY DEF SInv, TypeOK
  <2> HIDE DEF row
  <2>5. row.version >= account[r.u].version /\ row.stage # "stored" /\ row.stage # "unused"
    BY <1>1, <2>2, <2>3
  <2> QED  BY <2>1, <2>2, <2>3, <2>4, <2>5, CommitHolds
<1>5. CASE CommitPassword(c) /\ ~Refuse(c)
  <2> DEFINE row == [account[r.u] EXCEPT !.password = r.to.password, !.version = @ + 1]
  <2>1. /\ r.op = "password" /\ r.u \in Stored /\ account[r.u].version < MaxVersion
        /\ account' = [account EXCEPT ![r.u].password = r.to.password,
                                      ![r.u].version = @ + 1]
        /\ ended' = ended \cup Ended(r.u)
        /\ Commit(c, r.u) /\ UNCHANGED <<token, overlapped, offered>>
    BY <1>5 DEF CommitPassword
  <2>2. r.u \in Users /\ account[r.u].stage = "stored" /\ account[r.u] \in Row /\ r.to \in Row
    BY <1>1, <2>1 DEF Stored, Call
  <2>3. /\ row \in Row /\ row.stage = "stored" /\ row.version = account[r.u].version + 1
        /\ row.email = account[r.u].email
    BY <1>1, <2>1, <2>2, AccountsAssumption DEF Row
  <2>4. account' = [account EXCEPT ![r.u] = row]
    BY <1>1, <2>1, <2>2
  <2>5. UniqueEmail(r.u, row.email)
    BY <2>1, <2>3 DEF SInv, EmailsUnique, UniqueEmail, GetByEmail
  <2>6. overlapped \subseteq Users
    BY DEF SInv, TypeOK
  <2> HIDE DEF row
  <2>7. row.version > account[r.u].version /\ row.version >= account[r.u].version
    BY <1>1, <2>2, <2>3
  <2> QED  BY <2>1, <2>2, <2>3, <2>4, <2>5, <2>6, <2>7, CommitHolds
<1>6. CASE CommitLogout(c) /\ ~Refuse(c)
  <2> DEFINE row == [account[r.u] EXCEPT !.version = IncrementTokenVersion(r.was)]
  <2>1. /\ r.op = "logout" /\ r.u \in Stored
        /\ account' = [account EXCEPT ![r.u].version = IncrementTokenVersion(r.was)]
        /\ ended' = ended \cup Ended(r.u)
        /\ overlapped' = IF r.fresh THEN overlapped ELSE overlapped \cup {r.u}
        /\ Commit(c, r.u) /\ UNCHANGED <<token, offered>>
    BY <1>6 DEF CommitLogout
  <2>2. /\ r.u \in Users /\ account[r.u].stage = "stored" /\ account[r.u] \in Row
        /\ r.was \in Row /\ r.was.version < MaxVersion
        /\ r.fresh => r.was.version = account[r.u].version
    BY <1>1, <2>1 DEF Stored, Call, SInv, ReadInv
  <2>3. /\ row \in Row /\ row.stage = "stored" /\ row.version = r.was.version + 1
        /\ row.email = account[r.u].email
    BY <1>1, <2>1, <2>2, AccountsAssumption DEF Row, IncrementTokenVersion
  <2>4. account' = [account EXCEPT ![r.u] = row]
    BY <1>1, <2>1, <2>2
  <2>5. UniqueEmail(r.u, row.email)
    BY <2>1, <2>3 DEF SInv, EmailsUnique, UniqueEmail, GetByEmail
  <2>6. overlapped' \subseteq Users /\ overlapped \subseteq overlapped'
    BY <2>1, <2>2 DEF SInv, TypeOK
  <2> HIDE DEF row
  <2>7. r.u \in overlapped' \/ (row.version > account[r.u].version
                                /\ row.version >= account[r.u].version)
    BY <1>1, <2>1, <2>2, <2>3
  <2> QED  BY <2>1, <2>2, <2>3, <2>4, <2>5, <2>6, <2>7, CommitHolds
<1>7. CASE Refuse(c)
  BY <1>7, RefuseHolds
<1> QED  BY <1>2, <1>3, <1>4, <1>5, <1>6, <1>7

\* A restart drops the requests; the first account has an id that no token names.
LEMMA StartupHolds == ASSUME SInv, Startup PROVE SInv'
<1> USE DEF SInv
<1>1. /\ UNCHANGED <<token, ended, overlapped, offered>>
      /\ \A c \in Clients : call'[c].op = "none"
      /\ call' \in [Clients -> Call]
  BY NoCallTyped DEF Startup, NoCall
<1>2. CreateInv' /\ ReadInv'
  BY <1>1 DEF CreateInv, ReadInv
<1>3. CASE UNCHANGED account
  BY <1>1, <1>2, <1>3 DEF TypeOK, EmailsUnique, Stored, TokensOld, EndedOld
<1>4. ASSUME Stored = {}, NEW u \in Users, NEW e \in Emails, NEW p \in Passwords,
             account[u].stage = "unused",
             account' = [account EXCEPT ![u] =
               [NoRow EXCEPT !.stage = "stored", !.email = e, !.role = "Admin", !.password = p]]
      PROVE  SInv'
  <2> DEFINE row == [NoRow EXCEPT !.stage = "stored", !.email = e, !.role = "Admin",
                                  !.password = p]
  <2>1. row \in Row /\ row.stage = "stored"
    BY NoCallTyped DEF Row, Roles
  <2>2. account' = [account EXCEPT ![u] = row]
    BY <1>4
  <2> HIDE DEF row
  <2>3. /\ account' \in [Users -> Row] /\ account'[u] = row
        /\ \A v \in Users \ {u} : account'[v] = account[v]
    BY <2>1, <2>2 DEF TypeOK
  <2>4. TypeOK'
    BY <1>1, <2>3 DEF TypeOK
  <2>5. UniqueEmail(u, row.email)
    BY <1>4 DEF UniqueEmail, GetByEmail
  <2>6. EmailsUnique'
    BY <2>3, <2>5, RowKeepsEmails
  <2>7. TokensOld' /\ EndedOld'
    BY <1>1, <1>4, <2>1, <2>3, <2>4, RowKeepsTokens
  <2> QED  BY <1>2, <2>4, <2>6, <2>7
<1> QED  BY <1>3, <1>4 DEF Startup

\* A reset of the password from the command line.
LEMMA ResetHolds == ASSUME SInv, ResetPasswordByEmail PROVE SInv'
<1>1. PICK e \in Emails, p \in Passwords : \E u \in GetByEmail(e) :
        /\ account' = [account EXCEPT ![u].password = p]
        /\ Commit(None, u) /\ UNCHANGED <<token, ended, overlapped, offered>>
  BY DEF ResetPasswordByEmail
<1>2. PICK u \in GetByEmail(e) :
        /\ account' = [account EXCEPT ![u].password = p]
        /\ Commit(None, u) /\ UNCHANGED <<token, ended, overlapped, offered>>
  BY <1>1
<1> DEFINE row == [account[u] EXCEPT !.password = p]
<1>3. /\ u \in Users /\ u \in Stored /\ account[u] \in Row /\ account[u].stage = "stored"
      /\ account[u].version \in Nat
  BY AccountsAssumption DEF GetByEmail, Stored, SInv, TypeOK, Row
<1>4. /\ row \in Row /\ row.stage = "stored" /\ row.email = account[u].email
      /\ row.version = account[u].version /\ account' = [account EXCEPT ![u] = row]
  BY <1>2, <1>3 DEF Row, SInv, TypeOK
<1>5. UniqueEmail(u, row.email)
  BY <1>3, <1>4 DEF SInv, EmailsUnique, UniqueEmail, GetByEmail
<1>6. overlapped \subseteq Users
  BY DEF SInv, TypeOK
<1> HIDE DEF row
<1>7. row.version >= account[u].version
  BY <1>3, <1>4
<1> QED  BY <1>2, <1>3, <1>4, <1>5, <1>6, <1>7, CommitHolds

\* A login gives out a token of the version that the account has.
LEMMA LoginHolds == ASSUME SInv, NEW t \in Tokens, Authenticate(t) PROVE SInv'
<1> USE DEF SInv
<1>1. PICK u \in Stored : /\ token[t] = None /\ token' = [token EXCEPT ![t] = CreateJwt(u)]
                          /\ UNCHANGED <<account, ended, call, overlapped, offered>>
  BY DEF Authenticate
<1>2. /\ u \in Users /\ account[u].stage = "stored" /\ account[u].version \in 1..MaxVersion
      /\ account[u].version \in Nat
  BY AccountsAssumption DEF Stored, TypeOK, Row
<1>3. /\ CreateJwt(u) \in [u : Users, version : 1..MaxVersion]
      /\ CreateJwt(u).u = u /\ CreateJwt(u).version = account[u].version
  BY <1>2 DEF CreateJwt
<1>4. TypeOK'
  BY <1>1, <1>3 DEF TypeOK
<1>5. \A x \in Tokens : token'[x] = IF x = t THEN CreateJwt(u) ELSE token[x]
  BY <1>1 DEF TypeOK
<1>6. TokensOld'
  BY <1>1, <1>2, <1>3, <1>5 DEF TokensOld
<1>7. t \notin ended
  BY <1>1 DEF EndedOld
<1>8. EndedOld'
  BY <1>1, <1>5, <1>7 DEF EndedOld, TypeOK
<1>9. EmailsUnique' /\ CreateInv' /\ ReadInv'
  BY <1>1 DEF EmailsUnique, Stored, CreateInv, ReadInv
<1> QED  BY <1>4, <1>6, <1>8, <1>9

LEMMA NextHolds == SInv /\ [Next]_vars => SInv'
<1> SUFFICES ASSUME SInv, [Next]_vars PROVE SInv'
  OBVIOUS
<1>1. CASE UNCHANGED vars
  BY <1>1 DEF vars, SInv, TypeOK, EmailsUnique, Stored, TokensOld, EndedOld, CreateInv, ReadInv
<1>2. CASE Next
  BY <1>2, StartupHolds, ResetHolds, LoginHolds, CommitsHold, BeginHolds DEF Next
<1> QED  BY <1>1, <1>2

\* A token that is accepted has the version of its account.
LEMMA OldIsRefused == SInv => SessionsHold
<1> SUFFICES ASSUME SInv, NEW t \in ended, Accepts(t), token[t].u \notin overlapped
             PROVE  FALSE
  BY DEF SInv, SessionsHold, EndedSessionsStayEnded
<1>1. token[t].version < account[token[t].u].version
  BY DEF SInv, EndedOld
<1>2. account[token[t].u].version \in Nat /\ token[t].version = account[token[t].u].version
  BY AccountsAssumption DEF SInv, TypeOK, Row, Accepts, Stored
<1> QED  BY <1>1, <1>2

-----------------------------------------------------------------------------
\* What tokens and requests under way know of the accounts stays right in every
\* reachable state: the strengthened invariant (user_service.py).
THEOREM SessionsInductive == Spec => []SInv
  BY InitHolds, NextHolds, PTL DEF Spec

\* A session that a logout, a new password or a changed role has ended is refused ever
\* after, and emails stay unique, whatever requests overlap, but for accounts whose version
\* a logout wrote from a stale read (user_service.py, middleware/auth.py).
THEOREM SessionsCorrect == Spec => []SessionsHold
<1> QED  BY SessionsInductive, OldIsRefused, PTL

-----------------------------------------------------------------------------
(* Deletions.  What a fresh request has read is the row as it is, so it     *)
(* asks for the count of Admins if, and only if, it takes one of them.      *)

FreshDeletes ==
  \A c \in Clients : call[c].op = "delete" /\ call[c].fresh =>
    call[c].u \in Stored /\ call[c].was = account[call[c].u]

\* What a commit does to rows and to requests: all but its own row stays.
LEMMA CommitWrites ==
  ASSUME SInv, NEW c \in Clients,
         CommitCreateUser(c) \/ CommitUpdateUser(c) \/ CommitDeleteUser(c)
           \/ CommitPassword(c) \/ CommitLogout(c)
  PROVE  \/ Refuse(c)
         \/ /\ Commit(c, call[c].u)
            /\ \A v \in Users : v # call[c].u => account'[v] = account[v]
<1>1. account \in [Users -> Row]
  BY DEF SInv, TypeOK
<1>2. CASE CommitCreateUser(c)
  BY <1>1, <1>2 DEF CommitCreateUser
<1>3. CASE CommitUpdateUser(c)
  BY <1>1, <1>3 DEF CommitUpdateUser
<1>4. CASE CommitDeleteUser(c)
  BY <1>1, <1>4 DEF CommitDeleteUser
<1>5. CASE CommitPassword(c)
  BY <1>1, <1>5 DEF CommitPassword
<1>6. CASE CommitLogout(c)
  BY <1>1, <1>6 DEF CommitLogout
<1> QED  BY <1>2, <1>3, <1>4, <1>5, <1>6

\* A commit makes every request stale that has read the row.
LEMMA FreshAfterCommit ==
  ASSUME TypeOK, FreshDeletes, NEW c, NEW u, Commit(c, u),
         \A v \in Users : v # u => account'[v] = account[v]
  PROVE  FreshDeletes'
<1> SUFFICES ASSUME NEW x \in Clients, call'[x].op = "delete", call'[x].fresh
             PROVE  /\ call'[x].u \in Users /\ account'[call'[x].u].stage = "stored"
                    /\ call'[x].was = account'[call'[x].u]
  BY DEF FreshDeletes, Stored
<1>1. /\ call[x].op = "delete" /\ call[x].fresh /\ call[x].u # u
      /\ call'[x].u = call[x].u /\ call'[x].was = call[x].was
  BY CommitLeaves
<1>2. call[x].u \in Users /\ account[call[x].u].stage = "stored"
      /\ call[x].was = account[call[x].u]
  BY <1>1 DEF FreshDeletes, Stored
<1> QED  BY <1>1, <1>2

\* A request that starts leaves the rows; one that deletes has read its own.
LEMMA FreshAfterBegin ==
  ASSUME SInv, FreshDeletes, NEW c \in Clients, NEW t \in Tokens,
         CreateUser(c, t) \/ UpdateUser(c, t) \/ DeleteUser(c, t)
           \/ ChangeOwnPassword(c, t) \/ Logout(c, t)
  PROVE  FreshDeletes' /\ UNCHANGED account
<1>1. /\ UNCHANGED account
      /\ \A x \in Clients : x # c => call'[x] = call[x]
  BY DEF CreateUser, UpdateUser, DeleteUser, ChangeOwnPassword, Logout, Start, SInv, TypeOK
<1>2. call'[c].op = "delete" => call'[c].u \in Stored /\ call'[c].was = account[call'[c].u]
  <2> USE DEF SInv, TypeOK, Start, NoCall
  <2>1. CASE CreateUser(c, t)
    <3>1. PICK u \in Users, form \in offered.forms :
            Start(c, [NoCall EXCEPT !.op = "create", !.u = u, !.to = form])
      BY <2>1 DEF CreateUser
    <3> QED  BY <3>1
  <2>2. CASE UpdateUser(c, t)
    <3>1. PICK u \in Stored, form \in offered.forms :
            Start(c, [NoCall EXCEPT !.op = "update", !.u = u, !.was = account[u],
                        !.to = [form EXCEPT !.version = account[u].version]])
      BY <2>2 DEF UpdateUser
    <3> QED  BY <3>1
  <2>3. CASE DeleteUser(c, t)
    <3>1. PICK u \in Stored :
            Start(c, [NoCall EXCEPT !.op = "delete", !.u = u, !.was = account[u]])
      BY <2>3 DEF DeleteUser
    <3> QED  BY <3>1
  <2>4. CASE ChangeOwnPassword(c, t)
    <3>1. PICK p \in Passwords :
            Start(c, [NoCall EXCEPT !.op = "password", !.u = token[t].u,
                        !.was = account[token[t].u],
                        !.to = [account[token[t].u] EXCEPT !.password = p]])
      BY <2>4 DEF ChangeOwnPassword
    <3> QED  BY <3>1
  <2>5. CASE Logout(c, t)
    BY <2>5 DEF Logout
  <2> QED  BY <2>1, <2>2, <2>3, <2>4, <2>5
<1> QED  BY <1>1, <1>2 DEF FreshDeletes, Stored

LEMMA FreshInit == Init => FreshDeletes
  BY DEF Init, FreshDeletes, NoCall

LEMMA FreshNext == SInv /\ FreshDeletes /\ [Next]_vars => FreshDeletes'
<1> SUFFICES ASSUME SInv, FreshDeletes, [Next]_vars PROVE FreshDeletes'
  OBVIOUS
<1>1. CASE UNCHANGED vars
  BY <1>1 DEF vars, FreshDeletes, Stored
<1>2. CASE Startup
  BY <1>2 DEF Startup, FreshDeletes, NoCall
<1>3. CASE ResetPasswordByEmail
  <2>1. PICK e \in Emails, p \in Passwords : \E u \in GetByEmail(e) :
          account' = [account EXCEPT ![u].password = p] /\ Commit(None, u)
    BY <1>3 DEF ResetPasswordByEmail
  <2>2. PICK u \in GetByEmail(e) :
          account' = [account EXCEPT ![u].password = p] /\ Commit(None, u)
    BY <2>1
  <2>3. \A v \in Users : v # u => account'[v] = account[v]
    BY <2>2 DEF SInv, TypeOK
  <2> QED  BY <2>2, <2>3, FreshAfterCommit DEF SInv
<1>4. ASSUME NEW t \in Tokens, Authenticate(t) PROVE FreshDeletes'
  BY <1>4 DEF Authenticate, FreshDeletes, Stored
<1>5. ASSUME NEW c \in Clients, Refuse(c) PROVE FreshDeletes'
  BY <1>5 DEF Refuse, FreshDeletes, Stored, NoCall, SInv, TypeOK
<1>6. ASSUME NEW c \in Clients,
             CommitCreateUser(c) \/ CommitUpdateUser(c) \/ CommitDeleteUser(c)
               \/ CommitPassword(c) \/ CommitLogout(c)
      PROVE  FreshDeletes'
  BY <1>5, <1>6, CommitWrites, FreshAfterCommit DEF SInv
<1> QED  BY <1>1, <1>2, <1>3, <1>4, <1>6, FreshAfterBegin DEF Next

\* A step that ends a request and takes its row is the commit of that delete.
LEMMA TakenByDelete ==
  ASSUME SInv, Next, NEW c \in Clients, call[c].op = "delete", call'[c] = NoCall,
         call[c].u \in Users,
         account[call[c].u].stage = "stored", account'[call[c].u].stage = "gone"
  PROVE  CommitDeleteUser(c) /\ ~UNCHANGED account
<1>1. ~UNCHANGED account
  OBVIOUS
<1>2. ~Startup
  BY DEF Startup, SInv, TypeOK, NoRow
<1>3. ~ResetPasswordByEmail
  <2> SUFFICES ASSUME ResetPasswordByEmail PROVE FALSE
    OBVIOUS
  <2>1. PICK e \in Emails, p \in Passwords : \E u \in GetByEmail(e) :
          account' = [account EXCEPT ![u].password = p]
    BY DEF ResetPasswordByEmail
  <2>2. PICK u \in GetByEmail(e) : account' = [account EXCEPT ![u].password = p]
    BY <2>1
  <2>3. account[call[c].u] \in Row /\ account[u] \in Row /\ u \in Users
    BY DEF GetByEmail, Stored, SInv, TypeOK
  <2>4. account'[call[c].u].stage = account[call[c].u].stage
    BY <2>2, <2>3 DEF SInv, TypeOK, Row
  <2> QED  BY <2>4
<1>4. \A t \in Tokens : ~Authenticate(t)
  BY <1>1 DEF Authenticate
<1>5. ASSUME NEW x \in Clients, NEW t \in Tokens,
             CreateUser(x, t) \/ UpdateUser(x, t) \/ DeleteUser(x, t)
               \/ ChangeOwnPassword(x, t) \/ Logout(x, t)
      PROVE  FALSE
  BY <1>1, <1>5 DEF CreateUser, UpdateUser, DeleteUser, ChangeOwnPassword, Logout, Start
<1>6. ASSUME NEW x \in Clients, x # c,
             CommitCreateUser(x) \/ CommitUpdateUser(x) \/ CommitDeleteUser(x)
               \/ CommitPassword(x) \/ CommitLogout(x)
      PROVE  FALSE
  <2>1. CASE Refuse(x)
    BY <1>1, <2>1 DEF Refuse
  <2>2. CASE Commit(x, call[x].u)
    <3>1. call[c] # NoCall /\ call[c] \in Call
      BY DEF NoCall, SInv, TypeOK
    <3>2. call'[c] = [call[c] EXCEPT !.fresh = @ /\ call[c].u # call[x].u]
      BY <1>6, <2>2, <3>1 DEF Commit
    <3>3. call'[c].op = "delete"
      BY <3>1, <3>2 DEF Call
    <3> QED  BY <3>3 DEF NoCall
  <2> QED  BY <1>6, <2>1, <2>2, CommitWrites
<1>7. PICK x \in Clients :
        CommitCreateUser(x) \/ CommitUpdateUser(x) \/ CommitDeleteUser(x)
          \/ CommitPassword(x) \/ CommitLogout(x)
  BY <1>2, <1>3, <1>4, <1>5 DEF Next
<1>8. x = c
  BY <1>6, <1>7
<1>9. CommitDeleteUser(c)
  BY <1>7, <1>8 DEF CommitCreateUser, CommitUpdateUser, CommitPassword, CommitLogout
<1> QED  BY <1>1, <1>9

LEMMA DeleteLeaves == SInv /\ FreshDeletes /\ Next => DeleteLeavesAdminStep
<1> SUFFICES ASSUME SInv, FreshDeletes, Next, NEW c \in Clients,
                    call[c].op = "delete", call[c].fresh, call'[c] = NoCall, Admins # {},
                    account[call[c].u].stage = "stored", account'[call[c].u].stage = "gone"
             PROVE  Admins' # {}
  BY DEF DeleteLeavesAdminStep
<1> DEFINE u == call[c].u
<1>1. u \in Users /\ call[c].was = account[u]
  BY DEF FreshDeletes, Stored
<1>2. CommitDeleteUser(c) /\ ~UNCHANGED account
  BY <1>1, TakenByDelete
<1>3. CountForUpdate(call[c]) /\ account' = [account EXCEPT ![u].stage = "gone"]
  BY <1>2 DEF CommitDeleteUser, Refuse
<1>4. PICK v \in Admins : v # u
  <2>1. CASE account[u].role = "Admin"
    <3>1. Cardinality(Admins) > 1
      BY <1>1, <1>3, <2>1 DEF CountForUpdate
    <3>2. ~(Admins \subseteq {u})
      <4> SUFFICES ASSUME Admins \subseteq {u} PROVE FALSE
        OBVIOUS
      <4>1. IsFiniteSet({u}) /\ Cardinality({u}) = 1
        BY FS_Singleton
      <4>2. Cardinality(Admins) \in Nat /\ Cardinality(Admins) <= 1
        BY <4>1, FS_Subset, FS_CardinalityType
      <4> QED  BY <3>1, <4>2
    <3> QED  BY <3>2
  <2>2. CASE account[u].role # "Admin"
    BY <2>2 DEF Admins
  <2> QED  BY <2>1, <2>2
<1>5. v \in Users /\ account'[v] = account[v]
  BY <1>3, <1>4 DEF Admins, Stored, SInv, TypeOK
<1>6. v \in Admins'
  BY <1>4, <1>5 DEF Admins, Stored
<1> QED  BY <1>6

\* A delete that nothing overlapped leaves an Admin, however many of them delete each
\* other at a time (user_service.py, with the lock of its count).
THEOREM AdminsCorrect == Spec => DeleteLeavesAdmin
<1>1. SInv /\ FreshDeletes /\ [Next]_vars => [DeleteLeavesAdminStep]_vars
  BY DeleteLeaves
<1>2. Spec => []FreshDeletes
  BY SessionsInductive, FreshInit, FreshNext, PTL DEF Spec
<1> QED  BY SessionsInductive, <1>1, <1>2, PTL DEF Spec, DeleteLeavesAdmin

================================================================================
