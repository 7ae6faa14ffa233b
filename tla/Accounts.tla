------------------------------ MODULE Accounts -------------------------------
(***************************************************************************)
(* The account service of the server: the handlers registerUser and login  *)
(* (src/server/AuthenticationImpl.cpp), deleteUser and logout              *)
(* (src/server/SessionImpl.cpp), the threads that dispatch them and the    *)
(* callback they make to the client (src/server/IceServer.cpp), and the    *)
(* pool of database connections they share (src/common/DBPool.cpp).        *)
(*                                                                         *)
(* A client has at most one call in progress.  Its handler runs on a       *)
(* thread of the server's Ice pool, keeps the connection it leased until   *)
(* it returns or throws, and reaches the database one autocommitted        *)
(* statement at a time, so the handlers of different clients interleave    *)
(* between any two statements.                                             *)
(***************************************************************************)
EXTENDS SdcHelper, FiniteSets

CONSTANTS
  Clients,          \* the processes that call the server
  Callback,         \* how each client's callback object answers
  Credentials,      \* IDs, passwords and public keys to present together
  Presents,         \* the credentials that each client presents
  Threads,          \* Ice.ThreadPool.Server.Size
  PoolSize,         \* connections in the DBPool
  MaxRegistrations, \* bound: rows ever inserted
  MaxSessions,      \* bound: sessions exposed since the last restart
  MaxRestarts       \* bound: restarts of the server

ASSUME ClientsAssumption ==
  /\ IsFiniteSet(Clients)
  /\ Callback \in [Clients -> {"valid", "wrong", "invalid", "silent"}]

ASSUME CredentialsAssumption ==
  /\ Credentials \subseteq [id : Seq(STRING), pw : STRING, key : STRING]
  /\ Presents \in [Clients -> SUBSET Credentials]

ASSUME SizesAssumption ==
  /\ Threads \in Nat \ {0}
  /\ PoolSize \in Nat \ {0}
  /\ MaxRegistrations \in Nat
  /\ MaxSessions \in Nat
  /\ MaxRestarts \in Nat

VARIABLES
  users,     \* the rows of table users; reg is the order of insertion
  nextReg,   \* the reg of the next row
  created,   \* table users exists
  sessions,  \* the SessionImpl objects exposed, in the order of creation
  pc,        \* where the call of each client stands
  call,      \* the parameters of the call in progress
  row,       \* the row that login selected
  leased,    \* the clients whose handler holds a connection
  reply,     \* how the last call of each client ended
  restarts,  \* restarts so far
  deleted,   \* history: rows a DELETE statement has addressed
  gone       \* history: the value of deleted when the login was made

db   == <<users, nextReg, created, deleted>>
vars == <<users, nextReg, created, sessions, pc, call, row, leased, reply,
          restarts, deleted, gone>>

IDs       == {cr.id : cr \in Credentials}
Names     == {AccountName(id) : id \in IDs}
Passwords == {cr.pw : cr \in Credentials}
Keys      == {cr.key : cr \in Credentials}

NoKey  == ""
NoCall == [op |-> "none", id |-> <<>>, pw |-> "", key |-> NoKey, sid |-> 0]
NoRow  == [reg |-> 0, id |-> <<>>, pw |-> "", pubkey |-> NoKey]

Ops   == {"none", "registerUser", "login", "deleteUser", "logout"}
Calls == [op : Ops, id : IDs \cup {<<>>}, pw : Passwords \cup {""},
          key : Keys \cup {NoKey}, sid : 0 .. MaxSessions]
Rows  == [reg : 1 .. MaxRegistrations, id : Names, pw : Passwords, pubkey : Keys]

\* client and loggedIn are the session's own; reg and pw are history: the row
\* the login was decided on and the password that was presented.
Sessions == [client : Clients, user : Names, pubkey : Keys,
             loggedIn : BOOLEAN, reg : 1 .. MaxRegistrations, pw : Passwords]

\* A handler is at the statement, callback or pool operation that pc names.
AtStatement == {"create", "select", "insert", "delete"}
InCallback  == {"isA", "echo"}
HoldsLease  == AtStatement \cup InCallback \cup {"expose"}
PCs         == {"idle", "queued", "lease"} \cup HoldsLease

Replies == {"none", "ok", "ID already exists", "unknown ID",
            "invalid password", "public key can't change",
            "echo not working", "not permitted", "callback failed",
            "database error", "connection lost"}

TypeOK ==
  /\ users \subseteq Rows
  /\ nextReg \in 1 .. MaxRegistrations + 1
  /\ created \in BOOLEAN
  /\ sessions \in Seq(Sessions)
  /\ Len(sessions) <= MaxSessions
  /\ pc \in [Clients -> PCs]
  /\ call \in [Clients -> Calls]
  /\ row \in [Clients -> Rows \cup {NoRow}]
  /\ leased \subseteq Clients
  /\ reply \in [Clients -> Replies]
  /\ restarts \in 0 .. MaxRestarts
  /\ deleted \subseteq Rows
  /\ gone \in [Clients -> SUBSET Rows]

Init ==
  /\ users = {}
  /\ nextReg = 1
  /\ created = FALSE
  /\ sessions = <<>>
  /\ pc = [c \in Clients |-> "idle"]
  /\ call = [c \in Clients |-> NoCall]
  /\ row = [c \in Clients |-> NoRow]
  /\ leased = {}
  /\ reply = [c \in Clients |-> "none"]
  /\ restarts = 0
  /\ deleted = {}
  /\ gone = [c \in Clients |-> {}]
-----------------------------------------------------------------------------
(***************************************************************************)
(* The clients.  The bounds keep room for what the calls already made may  *)
(* still insert or expose, so no handler is ever stopped by a bound.       *)
(***************************************************************************)
Calling(op) == {c \in Clients : call[c].op = op}

Send(c, k) ==
  /\ pc[c] = "idle"
  /\ pc' = [pc EXCEPT ![c] = "queued"]
  /\ call' = [call EXCEPT ![c] = k]
  /\ reply' = [reply EXCEPT ![c] = "none"]
  /\ gone' = [gone EXCEPT ![c] = IF k.op = "login" THEN deleted ELSE {}]
  /\ UNCHANGED <<db, sessions, row, leased, restarts>>

CallRegister(c, cr) ==
  /\ nextReg + Cardinality(Calling("registerUser")) <= MaxRegistrations
  /\ Send(c, [op |-> "registerUser", id |-> cr.id, pw |-> cr.pw,
              key |-> cr.key, sid |-> 0])

CallLogin(c, cr) ==
  /\ Len(sessions) + Cardinality(Calling("login")) < MaxSessions
  /\ Send(c, [op |-> "login", id |-> cr.id, pw |-> cr.pw,
              key |-> cr.key, sid |-> 0])

\* Only the client that a session was returned to has its proxy.
CallDelete(c, sid, id) ==
  /\ sessions[sid].client = c
  /\ Send(c, [op |-> "deleteUser", id |-> id, pw |-> "", key |-> NoKey,
              sid |-> sid])

CallLogout(c, sid) ==
  /\ sessions[sid].client = c
  /\ Send(c, [op |-> "logout", id |-> <<>>, pw |-> "", key |-> NoKey,
              sid |-> sid])
-----------------------------------------------------------------------------
(***************************************************************************)
(* Dispatch.  A handler occupies a thread until it returns, also while it  *)
(* waits for a connection or for the client's answer to a callback.  That  *)
(* answer comes in over the connection the client opened, so one of the    *)
(* same threads has to be free to read it.                                 *)
(***************************************************************************)
Busy       == {c \in Clients : pc[c] \notin {"idle", "queued"}}

\* Variant of the pool with one thread less than configured.
OneThreadLess == Cardinality(Busy) + 1 < Threads

ThreadFree == Cardinality(Busy) < Threads

Goto(c, label) ==
  /\ pc' = [pc EXCEPT ![c] = label]
  /\ UNCHANGED <<call, reply, restarts, gone>>

\* Variant in which the lease outlives the handler, as it would without the
\* destructor of soci::session.
FinishKeepingLease(c, r) ==
  /\ pc' = [pc EXCEPT ![c] = "idle"]
  /\ call' = [call EXCEPT ![c] = NoCall]
  /\ row' = [row EXCEPT ![c] = NoRow]
  /\ reply' = [reply EXCEPT ![c] = r]
  /\ gone' = [gone EXCEPT ![c] = {}]
  /\ UNCHANGED <<leased, restarts>>

\* The handler returns or throws: its locals are destroyed, which gives the
\* connection back, its thread is free and the reply is sent.
Finish(c, r) ==
  /\ pc' = [pc EXCEPT ![c] = "idle"]
  /\ call' = [call EXCEPT ![c] = NoCall]
  /\ row' = [row EXCEPT ![c] = NoRow]
  /\ leased' = leased \ {c}
  /\ reply' = [reply EXCEPT ![c] = r]
  /\ gone' = [gone EXCEPT ![c] = {}]
  /\ UNCHANGED restarts

\* deleteUser only goes on for the ID of the session's own user.
OwnID(c) == call[c].id = sessions[call[c].sid].user

Start(c) ==
  /\ pc[c] = "queued"
  /\ ThreadFree
  /\ call[c].op # "logout"
  /\ call[c].op = "deleteUser" => OwnID(c)
  /\ Goto(c, "lease")
  /\ UNCHANGED <<db, sessions, row, leased>>

RefuseDelete(c) ==
  /\ pc[c] = "queued"
  /\ ThreadFree
  /\ call[c].op = "deleteUser"
  /\ ~ OwnID(c)
  /\ Finish(c, "not permitted")
  /\ UNCHANGED <<db, sessions>>

\* logout sets a flag that no handler reads, deleteUser included.
Logout(c) ==
  /\ pc[c] = "queued"
  /\ ThreadFree
  /\ call[c].op = "logout"
  /\ sessions' = [sessions EXCEPT ![call[c].sid].loggedIn = FALSE]
  /\ Finish(c, "ok")
  /\ UNCHANGED db

\* session sql(db_pool->getPool()): blocks until a connection is free.
Lease(c) ==
  /\ pc[c] = "lease"
  /\ Cardinality(leased) < PoolSize
  /\ leased' = leased \cup {c}
  /\ Goto(c, IF call[c].op = "deleteUser" THEN "delete" ELSE "create")
  /\ UNCHANGED <<db, sessions, row>>
-----------------------------------------------------------------------------
(***************************************************************************)
(* Statements.  SQLite lets one connection write while no other reads, and *)
(* the connections are opened without a busy timeout: a statement that     *)
(* meets a conflicting one fails at once with a soci_error.  Statements    *)
(* are atomic here; two handlers that are both at a statement may overlap. *)
(***************************************************************************)
Writes(c) == pc[c] \in {"insert", "delete"} \/ (pc[c] = "create" /\ ~ created)

MayConflict(c) ==
  \E d \in Clients \ {c} : /\ pc[d] \in AtStatement
                           /\ Writes(c) \/ Writes(d)

MayFail(c) == MayConflict(c) \/ (pc[c] # "create" /\ ~ created)

\* In deleteUser the exception is caught and reported as an unknown ID.
StatementFails(c) ==
  /\ pc[c] \in AtStatement
  /\ MayFail(c)
  /\ Finish(c, IF pc[c] = "delete" THEN "unknown ID" ELSE "database error")
  /\ UNCHANGED <<db, sessions>>

CreateTable(c) ==
  /\ pc[c] = "create"
  /\ created' = TRUE
  /\ Goto(c, "select")
  /\ UNCHANGED <<users, nextReg, deleted, sessions, row, leased>>

\* The rows a SELECT or DELETE of a call addresses.
Matching(c) == {r \in users : r.id = AccountName(call[c].id)}

\* A SELECT into single variables yields the first row in rowid order.
FirstMatch(c) ==
  CHOOSE r \in Matching(c) : \A q \in Matching(c) : r.reg <= q.reg

\* Variant of registerUser that does not look at what it selected.
CheckIDWithoutTest(c) ==
  /\ pc[c] = "select"
  /\ call[c].op = "registerUser"
  /\ created
  /\ Goto(c, "insert")
  /\ UNCHANGED <<db, sessions, row, leased>>

\* registerUser: SELECT id, and "ID already exists" if there is a row.
CheckID(c) ==
  /\ pc[c] = "select"
  /\ call[c].op = "registerUser"
  /\ created
  /\ \/ /\ Matching(c) # {}
        /\ Finish(c, "ID already exists")
     \/ /\ Matching(c) = {}
        /\ Goto(c, "insert")
        /\ UNCHANGED <<row, leased>>
  /\ UNCHANGED <<db, sessions>>

\* Variant of the INSERT that stores the ID as the client wrote it.
InsertRawID(c) ==
  /\ pc[c] = "insert"
  /\ created
  /\ users' = users \cup {[reg |-> nextReg, id |-> call[c].id,
                           pw |-> call[c].pw, pubkey |-> call[c].key]}
  /\ nextReg' = nextReg + 1
  /\ Finish(c, "ok")
  /\ UNCHANGED <<created, deleted, sessions>>

\* registerUser: INSERT.
Insert(c) ==
  /\ pc[c] = "insert"
  /\ created
  /\ users' = users \cup {[reg |-> nextReg, id |-> AccountName(call[c].id),
                           pw |-> call[c].pw, pubkey |-> call[c].key]}
  /\ nextReg' = nextReg + 1
  /\ Finish(c, "ok")
  /\ UNCHANGED <<created, deleted, sessions>>

\* Variant of Verdict without the comparison of the passwords.
VerdictIgnoringPassword(c) ==
  IF Matching(c) = {} THEN "unknown ID"
  ELSE IF call[c].key \notin {NoKey, FirstMatch(c).pubkey}
       THEN "public key can't change"
  ELSE "ok"

\* What login makes of the row it selected, "ok" if it goes on.
Verdict(c) ==
  IF Matching(c) = {} THEN "unknown ID"
  ELSE IF call[c].pw # FirstMatch(c).pw THEN "invalid password"
  ELSE IF call[c].key \notin {NoKey, FirstMatch(c).pubkey}
       THEN "public key can't change"
  ELSE "ok"

\* login: SELECT id, pw, pubkey, and the tests before the callback.
CheckLogin(c) ==
  /\ pc[c] = "select"
  /\ call[c].op = "login"
  /\ created
  /\ \/ /\ Verdict(c) # "ok"
        /\ Finish(c, Verdict(c))
     \/ /\ Verdict(c) = "ok"
        /\ row' = [row EXCEPT ![c] = FirstMatch(c)]
        /\ Goto(c, "isA")
        /\ UNCHANGED leased
  /\ UNCHANGED <<db, sessions>>

\* Variant of the DELETE statement that stops after the first row.
DeleteFirstRow(c) ==
  /\ pc[c] = "delete"
  /\ created
  /\ users' = IF Matching(c) = {} THEN users ELSE users \ {FirstMatch(c)}
  /\ deleted' = deleted \cup Matching(c)
  /\ Finish(c, "ok")
  /\ UNCHANGED <<nextReg, created, sessions>>

\* deleteUser: DELETE, which succeeds whether or not there is a row.
DeleteRows(c) ==
  /\ pc[c] = "delete"
  /\ created
  /\ users' = users \ Matching(c)
  /\ deleted' = deleted \cup Matching(c)
  /\ Finish(c, "ok")
  /\ UNCHANGED <<nextReg, created, sessions>>
-----------------------------------------------------------------------------
(***************************************************************************)
(* The callback of login: checkedCast asks the client's object for its     *)
(* type, then echo has to return what it was sent.  Neither call has a     *)
(* timeout.  An answer is only read while a thread is free.                *)
(***************************************************************************)
AnswerIsA(c) ==
  /\ pc[c] = "isA"
  /\ ThreadFree
  /\ Callback[c] \in {"valid", "wrong"}
  /\ Goto(c, "echo")
  /\ UNCHANGED <<db, sessions, row, leased>>

\* checkedCast yields a null proxy, and echo throws on it.
DenyIsA(c) ==
  /\ pc[c] = "isA"
  /\ ThreadFree
  /\ Callback[c] = "invalid"
  /\ Finish(c, "callback failed")
  /\ UNCHANGED <<db, sessions>>

AnswerEcho(c) ==
  /\ pc[c] = "echo"
  /\ ThreadFree
  /\ Callback[c] = "valid"
  /\ Goto(c, "expose")
  /\ UNCHANGED <<db, sessions, row, leased>>

GarbleEcho(c) ==
  /\ pc[c] = "echo"
  /\ ThreadFree
  /\ Callback[c] = "wrong"
  /\ Finish(c, "echo not working")
  /\ UNCHANGED <<db, sessions>>

\* The connection to the client breaks and the pending callback throws.
LoseConnection(c) ==
  /\ pc[c] \in InCallback
  /\ ThreadFree
  /\ Finish(c, "connection lost")
  /\ UNCHANGED <<db, sessions>>

\* Variant that puts the key the client presented into the session.
ExposePresentedKey(c) ==
  /\ pc[c] = "expose"
  /\ sessions' = Append(sessions,
       [client |-> c, user |-> AccountName(call[c].id), pubkey |-> call[c].key,
        loggedIn |-> TRUE, reg |-> row[c].reg, pw |-> call[c].pw])
  /\ Finish(c, "ok")
  /\ UNCHANGED db

\* new SessionImpl, exposed under a fresh identity and returned.
ExposeSession(c) ==
  /\ pc[c] = "expose"
  /\ sessions' = Append(sessions,
       [client |-> c, user |-> AccountName(call[c].id), pubkey |-> row[c].pubkey,
        loggedIn |-> TRUE, reg |-> row[c].reg, pw |-> call[c].pw])
  /\ Finish(c, "ok")
  /\ UNCHANGED db
-----------------------------------------------------------------------------
\* The server dies, whatever its handlers are doing, and is started again: the
\* file of the database stays, sessions and calls are lost.  An orderly stop,
\* which lets the handlers end first, is the case in which all are idle.
Restart ==
  /\ restarts < MaxRestarts
  /\ restarts' = restarts + 1
  /\ sessions' = <<>>
  /\ pc' = [c \in Clients |-> "idle"]
  /\ call' = [c \in Clients |-> NoCall]
  /\ row' = [c \in Clients |-> NoRow]
  /\ leased' = {}
  /\ reply' = [c \in Clients |-> IF pc[c] = "idle" THEN reply[c]
                                 ELSE "connection lost"]
  /\ gone' = [c \in Clients |-> {}]
  /\ UNCHANGED db

Invoke(c) ==
  \/ \E cr \in Presents[c] : CallRegister(c, cr)
  \/ \E cr \in Presents[c] : CallLogin(c, cr)
  \/ \E sid \in DOMAIN sessions, id \in IDs : CallDelete(c, sid, id)
  \/ \E sid \in DOMAIN sessions : CallLogout(c, sid)

\* What becomes of a call once it is made, except that its connection is lost.
Handle(c) ==
  \/ Start(c)
  \/ RefuseDelete(c)
  \/ Logout(c)
  \/ Lease(c)
  \/ StatementFails(c)
  \/ CreateTable(c)
  \/ CheckID(c)
  \/ Insert(c)
  \/ CheckLogin(c)
  \/ DeleteRows(c)
  \/ AnswerIsA(c)
  \/ DenyIsA(c)
  \/ AnswerEcho(c)
  \/ GarbleEcho(c)
  \/ ExposeSession(c)

Next ==
  \/ \E c \in Clients : Invoke(c)
  \/ \E c \in Clients : Handle(c)
  \/ \E c \in Clients : LoseConnection(c)
  \/ Restart

Spec == Init /\ [][Next]_vars

\* Threads that can run do run, and a callback object that is not silent
\* answers.  The fairness is strong, since other calls may take the last free
\* thread again and again: a thread of the Ice pool that asks for work is given
\* every connection that is ready in turn, the request or answer of none is
\* passed over for ever.  Calls are never forced, nor are lost connections.
Fairness == \A c \in Clients : SF_vars(Handle(c))

FairSpec == Spec /\ Fairness
-----------------------------------------------------------------------------
(***************************************************************************)
(* Properties that hold with the production pool.                          *)
(***************************************************************************)

\* session sql(db_pool->getPool()) never waits when the pool has at least as
\* many connections as the server has threads: a thread that waits for a
\* client's answer keeps one connection, but a thread needs no second one.
LeaseNeverBlocks ==
  \A c \in Clients : pc[c] = "lease" => Cardinality(leased) < PoolSize

\* Every session was opened with the password of a registration, and carries
\* the name and the key of that registration, whatever ID and key the client
\* presented and however long its callback took (AuthenticationImpl.cpp:59-77).
SessionsAuthenticated ==
  \A i \in DOMAIN sessions :
    \E r \in users \cup deleted :
      /\ r.reg = sessions[i].reg
      /\ r.id = sessions[i].user
      /\ r.pubkey = sessions[i].pubkey
      /\ r.pw = sessions[i].pw

\* "they won't be able to [...] login again" (SessionImpl.cpp:40-41): a login
\* made after an account was deleted is never decided on a row of it, even
\* when registrations had raced and the name had several rows.
NoLoginAfterDelete == \A c \in Clients : row[c] \notin gone[c]

\* A row only ever disappears by a deleteUser on a session of that very name,
\* although the session keeps a name that was normalised once and deleteUser
\* normalises the ID a second time (SessionImpl.cpp:23-28).
DeletesOwnName ==
  [][\A r \in users \ users' :
       \E c \in Clients : /\ pc[c] = "delete"
                          /\ pc'[c] = "idle"
                          /\ sessions[call[c].sid].user = r.id]_vars

\* Every thread is held by a handler that waits for its client, so that none is
\* left to read what a client answers.
NoReaderLeft == Cardinality({c \in Clients : pc[c] \in InCallback}) = Threads

\* Every call of a client whose callback object answers is decided in the end,
\* also when silent clients hold threads and connections and calls contend for
\* the rest, unless callbacks in progress come to hold all the threads at once
\* (IceServer.cpp:23, AuthenticationImpl.cpp:59-68).
CallsReturn ==
  \A c \in Clients :
    Callback[c] # "silent" => (pc[c] # "idle" ~> pc[c] = "idle" \/ NoReaderLeft)
-----------------------------------------------------------------------------
(***************************************************************************)
(* What the code, its comments and its tests promise and the production    *)
(* pool does not keep.                                                     *)
(***************************************************************************)

\* "ID already exists" (AuthenticationImpl.cpp:28-29, test CantRegisterTwice):
\* a name belongs to at most one account.
OneAccountPerName == \A q, r \in users : q.id = r.id => q = r

\* "for now only delete own account" (SessionImpl.cpp:22): what a session
\* deletes is the registration it was opened for.
DeletesOwnAccount ==
  [][\A r \in users \ users' :
       \E c \in Clients : /\ pc[c] = "delete"
                          /\ pc'[c] = "idle"
                          /\ sessions[call[c].sid].reg = r.reg]_vars

\* "unknown ID", "assuming nothing else can go wrong" (SessionImpl.cpp:36-37):
\* deleteUser only reports an unknown ID when no account has it.
UnknownIDIsTrue ==
  [][\A c \in Clients :
       (pc[c] = "delete" /\ pc'[c] = "idle" /\ reply'[c] = "unknown ID")
         => Matching(c) = {}]_vars

\* "Can delete own account" (test CanDeleteOwnAccount, tests/server/session.cpp,
\* which registers and deletes under one and the same full ID): on a session
\* opened under the ID that the account was registered with, deleteUser of that
\* ID is permitted.  It is about clients that use one ID throughout.
CanDeleteOwnAccount ==
  [][\A c \in Clients :
       (pc[c] = "queued" /\ call[c].op = "deleteUser" /\ pc'[c] = "idle"
          /\ reply'[c] = "not permitted")
         => call[c].id \notin {cr.id : cr \in Presents[c]}]_vars

\* Every operation throws after logout (test ThrowAfterLogout,
\* tests/server/session.cpp:47-59): no deleteUser of a session that has been
\* logged out is carried out and answered as a success.
ThrowsAfterLogout ==
  [][\A c \in Clients :
       (pc[c] = "delete" /\ pc'[c] = "idle" /\ reply'[c] = "ok")
         => sessions[call[c].sid].loggedIn]_vars

\* "a login with an invalid callback object will be rejected"
\* (SecureDistributedChat.ice:197-198): once login tests the callback of a
\* client that answers it wrongly, the login comes to an end.
InvalidCallbackRejected ==
  \A c \in Clients :
    Callback[c] \in {"wrong", "invalid"} => (pc[c] = "isA" ~> pc[c] = "idle")
-----------------------------------------------------------------------------
(***************************************************************************)
(* How far two of these go: what it takes to break the promise, and what   *)
(* is left of it.                                                          *)
(***************************************************************************)

\* No two handlers of registerUser are between SELECT and INSERT for one name.
RegistrationsApart ==
  \A c, d \in Clients :
    c # d /\ pc[c] = "insert" /\ pc[d] = "insert"
      => AccountName(call[c].id) # AccountName(call[d].id)

\* The unprotected time between SELECT and INSERT (AuthenticationImpl.cpp:25-34)
\* is the only way to two accounts of one name, whatever else the handlers, the
\* deletions and the restarts of the production server do.
DuplicatesNeedRace == []RegistrationsApart => []OneAccountPerName

\* A session that deletes an account which is not its own leaves none of its
\* own behind: that one has been deleted before, or goes with the same
\* statement (SessionImpl.cpp:23-34).
DeletesOwnToo ==
  [][\A r \in users \ users' :
       \E c \in Clients : /\ pc[c] = "delete"
                          /\ pc'[c] = "idle"
                          /\ \E q \in deleted' :
                               q.reg = sessions[call[c].sid].reg]_vars
-----------------------------------------------------------------------------
(***************************************************************************)
(* With a pool of one connection, as DBPool::TestPool makes it, a handler  *)
(* keeps every other one away from the database until it returns, and the  *)
(* server provides the service of AccountService.                          *)
(***************************************************************************)
AbstractAccount(r) == [id |-> r.id, pw |-> r.pw, key |-> r.pubkey]
AbstractSession(s) == [client |-> s.client, user |-> s.user,
                       pubkey |-> s.pubkey, loggedIn |-> s.loggedIn]

AbstractAccounts == {AbstractAccount(r) : r \in users}
AbstractOpen     == [i \in DOMAIN sessions |-> AbstractSession(sessions[i])]

Service == INSTANCE AccountService WITH
  accounts <- AbstractAccounts,
  open     <- AbstractOpen,
  pending  <- call,
  answer   <- reply

\* Registering, logging in, deleting and logging out are atomic: each answer,
\* and each effect, is one the service may give at that instant.
ImplementsService == Service!Spec
=============================================================================
