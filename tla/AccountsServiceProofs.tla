------------------------ MODULE AccountsServiceProofs ------------------------
(***************************************************************************)
(* With one connection the handlers exclude each other for as long as they *)
(* hold it, names are unique, and Accounts implements AccountService.      *)
(***************************************************************************)
EXTENDS AccountsSafetyProofs, SequenceTheorems

\* At most one handler holds a connection.
Exclusive == \A c, d \in leased : c = d

\* The table exists from the first statement after CREATE TABLE on, and for as
\* long as there is a session.
TableExists ==
  /\ \A c \in Clients : pc[c] \in HoldsLease \ {"create"} => created
  /\ sessions # <<>> => created

\* What the holder of the connection has read still holds.
ReadsCurrent ==
  \A c \in Clients :
    /\ pc[c] = "insert" => Matching(c) = {}
    /\ pc[c] \in InCallback \cup {"expose"} =>
         /\ row[c] \in Matching(c)
         /\ row[c].pw = call[c].pw
         /\ call[c].key \in {NoKey, row[c].pubkey}

SerialInv ==
  /\ TypeInv
  /\ LeasesHeld
  /\ ThreadsBounded
  /\ Exclusive
  /\ TableExists
  /\ ReadsCurrent
  /\ OneAccountPerName

\* Two handlers never conflict, so no statement fails.
LEMMA NoFailure ==
  ASSUME SerialInv, NEW c \in Clients
  PROVE  ~ StatementFails(c)
<1> SUFFICES ASSUME pc[c] \in AtStatement, MayFail(c) PROVE FALSE
  BY DEF StatementFails
<1>1. \A d \in Clients \ {c} : pc[d] \notin AtStatement
  BY DEF SerialInv, LeasesHeld, Exclusive, HoldsLease
<1>2. ~ MayConflict(c)
  BY <1>1 DEF MayConflict
<1>3. pc[c] # "create" => created
  BY DEF SerialInv, TableExists, HoldsLease
<1> QED BY <1>2, <1>3 DEF MayFail

LEMMA InitSerial == Init => SerialInv
<1> SUFFICES ASSUME Init PROVE SerialInv
  OBVIOUS
<1>1. pc = [c \in Clients |-> "idle"] /\ users = {} /\ leased = {} /\ sessions = <<>>
  BY DEF Init
<1>2. LeasesHeld /\ ThreadsBounded /\ Exclusive /\ OneAccountPerName
  BY <1>1, InitCapacity DEF CapacityInv, Exclusive, OneAccountPerName
<1>3. TableExists
  BY <1>1 DEF TableExists, HoldsLease, AtStatement, InCallback
<1>4. ReadsCurrent
  BY <1>1 DEF ReadsCurrent, InCallback
<1> QED BY <1>2, <1>3, <1>4, InitTypeInv DEF SerialInv

LEMMA InvokeSerial ==
  ASSUME SerialInv, NEW c \in Clients, Invoke(c)
  PROVE  Exclusive' /\ TableExists' /\ ReadsCurrent' /\ OneAccountPerName'
<1>1. PICK k : Send(c, k)
  BY DEF Invoke, CallRegister, CallLogin, CallDelete, CallLogout
<1>2. /\ pc' = [pc EXCEPT ![c] = "queued"]
      /\ call' = [call EXCEPT ![c] = k]
      /\ UNCHANGED <<users, created, sessions, row, leased>>
  BY <1>1 DEF Send, db
<1>3. Exclusive' /\ OneAccountPerName'
  BY <1>2 DEF SerialInv, Exclusive, OneAccountPerName
<1>4. TableExists'
  BY <1>2 DEF SerialInv, TypeInv, TypeOK, TableExists, HoldsLease, AtStatement,
     InCallback
<1>5. ReadsCurrent'
  BY <1>2 DEF SerialInv, TypeInv, TypeOK, ReadsCurrent, Matching, InCallback
<1> QED BY <1>3, <1>4, <1>5

\* While one handler holds the connection, what it does to the rows concerns
\* nobody else's reads.
LEMMA HolderAlone ==
  ASSUME SerialInv, NEW c \in Clients, pc[c] \in HoldsLease,
         NEW d \in Clients \ {c}
  PROVE  pc[d] \notin HoldsLease
BY DEF SerialInv, LeasesHeld, Exclusive

LEMMA FinishSerial ==
  ASSUME SerialInv, NEW c \in Clients, NEW r, Finish(c, r),
         users' = users \/ pc[c] \in HoldsLease,
         created => created', sessions' # <<>> => created'
  PROVE  Exclusive' /\ TableExists' /\ ReadsCurrent'
<1>1. /\ pc' = [pc EXCEPT ![c] = "idle"]
      /\ call' = [call EXCEPT ![c] = NoCall]
      /\ row' = [row EXCEPT ![c] = NoRow]
      /\ leased' = leased \ {c}
  BY DEF Finish
<1>2. Exclusive'
  BY <1>1 DEF SerialInv, Exclusive
<1>3. TableExists'
  BY <1>1 DEF SerialInv, TypeInv, TypeOK, TableExists, HoldsLease, AtStatement,
     InCallback
<1>4. ReadsCurrent'
  <2>1. CASE users' = users
    BY <1>1, <2>1
    DEF SerialInv, TypeInv, TypeOK, ReadsCurrent, Matching, InCallback
  <2>2. CASE pc[c] \in HoldsLease
    <3>1. \A d \in Clients : pc'[d] \notin HoldsLease
      BY <1>1, <2>2, HolderAlone
      DEF SerialInv, TypeInv, TypeOK, HoldsLease, AtStatement, InCallback
    <3> QED BY <3>1 DEF ReadsCurrent, HoldsLease, AtStatement, InCallback
  <2> QED BY <2>1, <2>2
<1> QED BY <1>2, <1>3, <1>4

LEMMA GotoSerial ==
  ASSUME SerialInv, NEW c \in Clients, NEW label, Goto(c, label),
         UNCHANGED <<users, sessions, leased>>,
         created => created',
         label \in HoldsLease \ {"create"} => created',
         NEW r, row' = [row EXCEPT ![c] = r],
         label = "insert" => Matching(c) = {},
         label \in InCallback \cup {"expose"} =>
           /\ r \in Matching(c)
           /\ r.pw = call[c].pw
           /\ call[c].key \in {NoKey, r.pubkey}
  PROVE  Exclusive' /\ TableExists' /\ ReadsCurrent'
<1>1. pc' = [pc EXCEPT ![c] = label] /\ call' = call
  BY DEF Goto
<1>2. Exclusive'
  BY DEF SerialInv, Exclusive
<1>3. TableExists'
  BY <1>1 DEF SerialInv, TypeInv, TypeOK, TableExists
<1>4. ReadsCurrent'
  BY <1>1 DEF SerialInv, TypeInv, TypeOK, ReadsCurrent, Matching
<1> QED BY <1>2, <1>3, <1>4

LEMMA SameNames ==
  ASSUME SerialInv, users' \subseteq users
  PROVE  OneAccountPerName'
BY DEF SerialInv, OneAccountPerName

LEMMA HandleSerial ==
  ASSUME PoolSize = 1, SerialInv, NEW c \in Clients,
         Handle(c) \/ LoseConnection(c)
  PROVE  Exclusive' /\ TableExists' /\ ReadsCurrent' /\ OneAccountPerName'
<1>0. row = [row EXCEPT ![c] = row[c]]
  BY DEF SerialInv, TypeInv, TypeOK
<1>1. CASE Start(c)
  BY <1>0, <1>1, GotoSerial, SameNames
  DEF Start, db, HoldsLease, AtStatement, InCallback
<1>2. CASE Lease(c)
  <2>1. PICK label \in {"create", "delete"} :
          /\ Goto(c, label)
          /\ label = "delete" <=> call[c].op = "deleteUser"
    BY <1>2 DEF Lease
  <2>2. /\ pc' = [pc EXCEPT ![c] = label]
        /\ UNCHANGED <<users, created, sessions, row, call>>
        /\ leased' = leased \cup {c}
        /\ Cardinality(leased) < PoolSize
        /\ pc[c] = "lease"
    BY <1>2, <2>1 DEF Lease, Goto, db
  <2>3. leased = {}
    <3>1. IsFiniteSet(leased) /\ Cardinality(leased) \in Nat
      BY ClientsAssumption, FS_Subset, FS_CardinalityType
      DEF SerialInv, TypeInv, TypeOK
    <3> QED BY <2>2, <3>1, FS_EmptySet
  <2>4. Exclusive'
    BY <2>2, <2>3 DEF Exclusive
  <2>5. label = "delete" => created
    <3>1. label = "delete" => call[c].sid \in DOMAIN sessions
      BY <2>1 DEF SerialInv, TypeInv, CallsWellFormed
    <3>2. sessions = <<>> => DOMAIN sessions = {}
      OBVIOUS
    <3> QED BY <3>1, <3>2 DEF SerialInv, TableExists
  <2>6. TableExists'
    BY <2>2, <2>5 DEF SerialInv, TypeInv, TypeOK, TableExists, HoldsLease,
       AtStatement, InCallback
  <2>7. ReadsCurrent'
    BY <2>2
    DEF SerialInv, TypeInv, TypeOK, ReadsCurrent, Matching, InCallback
  <2> QED BY <2>2, <2>4, <2>6, <2>7, SameNames
<1>3. CASE CreateTable(c)
  BY <1>0, <1>3, GotoSerial, SameNames DEF CreateTable, InCallback
<1>4. CASE CheckID(c)
  <2>1. UNCHANGED <<users, created, sessions>> /\ created
    BY <1>4 DEF CheckID, db
  <2>2. OneAccountPerName'
    BY <2>1, SameNames
  <2>3. CASE Finish(c, "ID already exists")
    BY <2>1, <2>2, <2>3, FinishSerial
  <2>4. CASE Matching(c) = {} /\ Goto(c, "insert") /\ UNCHANGED <<row, leased>>
    <3>1. row' = [row EXCEPT ![c] = row[c]]
      BY <1>0, <2>4
    <3> DEFINE label == "insert"
    <3>2. /\ UNCHANGED <<users, sessions, leased>>
          /\ created' /\ Goto(c, label) /\ Matching(c) = {}
      BY <2>1, <2>4
    <3>3. label \notin InCallback \cup {"expose"}
      BY DEF InCallback
    <3> HIDE DEF label
    <3>4. Exclusive' /\ TableExists' /\ ReadsCurrent'
      BY <3>1, <3>2, <3>3, GotoSerial
    <3> QED BY <2>2, <3>4
  <2> QED BY <1>4, <2>3, <2>4 DEF CheckID
<1>5. CASE Insert(c)
  <2> DEFINE new == [reg |-> nextReg, id |-> AccountName(call[c].id),
                     pw |-> call[c].pw, pubkey |-> call[c].key]
  <2>1. /\ users' = users \cup {new}
        /\ new.id = AccountName(call[c].id)
        /\ UNCHANGED <<created, sessions>>
        /\ Finish(c, "ok")
        /\ pc[c] = "insert"
    BY <1>5 DEF Insert
  <2> HIDE DEF new
  <2>2. \A r \in users : r.id # new.id
    BY <2>1 DEF SerialInv, ReadsCurrent, Matching
  <2>3. OneAccountPerName'
    BY <2>1, <2>2 DEF SerialInv, OneAccountPerName
  <2>4. pc[c] \in HoldsLease
    BY <2>1 DEF HoldsLease, AtStatement
  <2> QED BY <2>1, <2>3, <2>4, FinishSerial DEF SerialInv, TableExists
<1>6. CASE CheckLogin(c)
  <2>1. UNCHANGED <<users, created, sessions>>
    BY <1>6 DEF CheckLogin, db
  <2>2. CASE Finish(c, Verdict(c))
    BY <2>1, <2>2, FinishSerial, SameNames DEF SerialInv, TableExists
  <2>3. CASE Verdict(c) = "ok" /\ Goto(c, "isA")
             /\ row' = [row EXCEPT ![c] = FirstMatch(c)] /\ UNCHANGED leased
    <3>1. FirstMatch(c) \in Matching(c)
      BY <2>3, MatchingRows DEF Verdict, SerialInv
    <3>2. /\ FirstMatch(c).pw = call[c].pw
          /\ call[c].key \in {NoKey, FirstMatch(c).pubkey}
      BY <2>3 DEF Verdict
    <3>3. created
      BY <1>6 DEF CheckLogin
    <3> DEFINE r == FirstMatch(c)
    <3>4. r \in Matching(c) /\ r.pw = call[c].pw /\ call[c].key \in {NoKey, r.pubkey}
      BY <3>1, <3>2
    <3>5. row' = [row EXCEPT ![c] = r]
      BY <2>3
    <3> HIDE DEF r
    <3>6. Exclusive' /\ TableExists' /\ ReadsCurrent'
      <4> DEFINE label == "isA"
      <4>1. /\ UNCHANGED <<users, sessions, leased>>
            /\ created' /\ Goto(c, label) /\ label # "insert"
        BY <2>1, <2>3, <3>3
      <4> HIDE DEF label
      <4> QED BY <3>4, <3>5, <4>1, GotoSerial
    <3> QED BY <2>1, <3>6, SameNames
  <2> QED BY <1>6, <2>2, <2>3 DEF CheckLogin
<1>7. CASE DeleteRows(c)
  <2>1. /\ users' \subseteq users
        /\ UNCHANGED <<created, sessions>>
        /\ Finish(c, "ok")
        /\ pc[c] = "delete"
    BY <1>7 DEF DeleteRows
  <2>2. pc[c] \in HoldsLease
    BY <2>1 DEF HoldsLease, AtStatement
  <2> QED BY <2>1, <2>2, FinishSerial, SameNames DEF SerialInv, TableExists
<1>8. CASE AnswerIsA(c) \/ AnswerEcho(c)
  <2>1. /\ \E label \in {"echo", "expose"} : Goto(c, label)
        /\ UNCHANGED <<users, created, sessions, leased, row>>
        /\ pc[c] \in InCallback
    BY <1>8 DEF AnswerIsA, AnswerEcho, db, InCallback
  <2>2. created
    BY <2>1 DEF SerialInv, TableExists, HoldsLease, InCallback, AtStatement
  <2>3. /\ row[c] \in Matching(c)
        /\ row[c].pw = call[c].pw
        /\ call[c].key \in {NoKey, row[c].pubkey}
    BY <2>1 DEF SerialInv, ReadsCurrent
  <2>4. row' = [row EXCEPT ![c] = row[c]]
    BY <1>0, <2>1
  <2> QED BY <2>1, <2>2, <2>3, <2>4, GotoSerial, SameNames
<1>9. CASE ExposeSession(c)
  <2>1. /\ UNCHANGED <<users, created>> /\ Finish(c, "ok") /\ pc[c] = "expose"
    BY <1>9 DEF ExposeSession, db
  <2>2. created
    BY <2>1 DEF SerialInv, TableExists, HoldsLease, InCallback, AtStatement
  <2> QED BY <2>1, <2>2, FinishSerial, SameNames
<1>10. CASE Logout(c)
  <2>1. /\ UNCHANGED <<users, created>> /\ Finish(c, "ok")
        /\ call[c].sid \in DOMAIN sessions
    BY <1>10 DEF Logout, db, SerialInv, TypeInv, CallsWellFormed
  <2>2. created
    <3>1. sessions = <<>> => DOMAIN sessions = {}
      OBVIOUS
    <3> QED BY <2>1, <3>1 DEF SerialInv, TableExists
  <2> QED BY <2>1, <2>2, FinishSerial, SameNames
<1>11. CASE \/ RefuseDelete(c) \/ DenyIsA(c) \/ GarbleEcho(c) \/ LoseConnection(c)
  <2>1. UNCHANGED <<users, created, sessions>> /\ \E r : Finish(c, r)
    BY <1>11 DEF RefuseDelete, DenyIsA, GarbleEcho, LoseConnection, db
  <2> QED BY <2>1, FinishSerial, SameNames DEF SerialInv, TableExists
<1> QED
  BY <1>1, <1>2, <1>3, <1>4, <1>5, <1>6, <1>7, <1>8, <1>9, <1>10, <1>11,
     NoFailure DEF Handle

LEMMA NextSerial ==
  ASSUME PoolSize = 1
  PROVE  SerialInv /\ [Next]_vars => SerialInv'
<1> SUFFICES ASSUME SerialInv, [Next]_vars
             PROVE  /\ Exclusive' /\ TableExists'
                    /\ ReadsCurrent' /\ OneAccountPerName'
  BY NextCapacity DEF SerialInv, CapacityInv
<1>1. CASE \E c \in Clients : Invoke(c) \/ Handle(c) \/ LoseConnection(c)
  BY <1>1, InvokeSerial, HandleSerial
<1>2. CASE Restart
  <2>1. /\ leased' = {} /\ sessions' = <<>> /\ users' = users
        /\ pc' = [c \in Clients |-> "idle"]
    BY <1>2 DEF Restart, db
  <2>2. Exclusive' /\ OneAccountPerName'
    BY <2>1 DEF SerialInv, Exclusive, OneAccountPerName
  <2>3. TableExists' /\ ReadsCurrent'
    BY <2>1 DEF TableExists, ReadsCurrent, HoldsLease, AtStatement, InCallback
  <2> QED BY <2>2, <2>3
<1>3. CASE UNCHANGED vars
  BY <1>3 DEF vars, SerialInv, Exclusive, TableExists, ReadsCurrent,
     OneAccountPerName, Matching
<1> QED BY <1>1, <1>2, <1>3 DEF Next

LEMMA AlwaysSerialInv == ASSUME PoolSize = 1 PROVE Spec => []SerialInv
BY InitSerial, NextSerial, PTL DEF Spec

\* With one connection no two registrations of a name can both find it free:
\* the handler that found it free keeps all others away until it has inserted.
THEOREM UniqueNames ==
  ASSUME PoolSize = 1
  PROVE  Spec => []OneAccountPerName
BY AlwaysSerialInv, PTL DEF SerialInv
-----------------------------------------------------------------------------
(***************************************************************************)
(* Refinement.  A call takes effect with the step in which its handler     *)
(* returns; every other step of a handler is invisible to the clients.     *)
(***************************************************************************)
IdleCalls == \A c \in Clients : pc[c] = "idle" => call[c] = NoCall

\* Only an object that answers as it should gets through the callback.
CallbacksPassed ==
  \A c \in Clients :
    /\ pc[c] = "echo" => Callback[c] \in {"valid", "wrong"}
    /\ pc[c] = "expose" => Callback[c] = "valid"

ServiceInv == SerialInv /\ NamesInv /\ IdleCalls /\ CallbacksPassed

\* How the steps of Accounts change what the clients see.
LEMMA OpenSame ==
  /\ DOMAIN AbstractOpen = DOMAIN sessions
  /\ \A i \in DOMAIN sessions : AbstractOpen[i] = AbstractSession(sessions[i])
BY DEF AbstractOpen

LEMMA OpenIsSeq ==
  ASSUME TypeOK
  PROVE  /\ AbstractOpen = [i \in 1 .. Len(sessions) |-> AbstractSession(sessions[i])]
         /\ AbstractOpen \in Seq({AbstractSession(s) : s \in Sessions})
         /\ Len(AbstractOpen) = Len(sessions)
<1>1. sessions \in Seq(Sessions) /\ Len(sessions) \in Nat
      /\ DOMAIN sessions = 1 .. Len(sessions)
  BY DEF TypeOK
<1>2. AbstractOpen = [i \in 1 .. Len(sessions) |-> AbstractSession(sessions[i])]
  BY <1>1 DEF AbstractOpen
<1> DEFINE T == {AbstractSession(s) : s \in Sessions}
<1>3. \A i \in 1 .. Len(sessions) : AbstractSession(sessions[i]) \in T
  BY <1>1
<1> HIDE DEF T
<1>4. AbstractOpen \in [1 .. Len(sessions) -> T]
  BY <1>2, <1>3
<1>5. AbstractOpen \in Seq(T) /\ Len(AbstractOpen) = Len(sessions)
  BY <1>1, <1>4
<1> QED BY <1>2, <1>5 DEF T

LEMMA OpenAppend ==
  ASSUME TypeOK, NEW s \in Sessions, sessions' = Append(sessions, s)
  PROVE  AbstractOpen' = Append(AbstractOpen, AbstractSession(s))
<1> DEFINE n == Len(sessions)
<1>1. /\ n \in Nat
      /\ DOMAIN sessions' = 1 .. n + 1
      /\ \A i \in 1 .. n : sessions'[i] = sessions[i]
      /\ sessions'[n + 1] = s
  BY DEF TypeOK
<1>2. AbstractOpen' = [i \in 1 .. n + 1 |-> AbstractSession(sessions'[i])]
  BY <1>1 DEF AbstractOpen, AbstractSession
<1> DEFINE T == {AbstractSession(t) : t \in Sessions}
<1>3. AbstractOpen \in Seq(T) /\ Len(AbstractOpen) = n
  BY OpenIsSeq
<1>4. \A i \in 1 .. n : AbstractOpen[i] = AbstractSession(sessions[i])
  BY <1>1, OpenIsSeq
<1> DEFINE a == AbstractSession(s)
<1>5. a \in T
  OBVIOUS
<1> HIDE DEF a, T, n
<1>6. /\ Append(AbstractOpen, a) \in Seq(T)
      /\ Len(Append(AbstractOpen, a)) = n + 1
      /\ DOMAIN Append(AbstractOpen, a) = 1 .. n + 1
      /\ \A i \in 1 .. n : Append(AbstractOpen, a)[i] = AbstractOpen[i]
      /\ Append(AbstractOpen, a)[n + 1] = a
  BY <1>1, <1>3, <1>5
<1>7. \A i \in 1 .. n + 1 : i \in 1 .. n \/ i = n + 1
  BY <1>1
<1>8. \A i \in 1 .. n + 1 :
        AbstractSession(sessions'[i]) = Append(AbstractOpen, a)[i]
  BY <1>1, <1>4, <1>6, <1>7 DEF a
<1>9. Append(AbstractOpen, a) =
        [i \in 1 .. n + 1 |-> Append(AbstractOpen, a)[i]]
  <2>1. Append(AbstractOpen, a) \in [1 .. n + 1 -> T]
    BY <1>6, LenProperties
  <2> QED BY <2>1
<1> QED BY <1>2, <1>8, <1>9 DEF a

LEMMA OpenLogout ==
  ASSUME TypeOK, NEW sid \in DOMAIN sessions,
         sessions' = [sessions EXCEPT ![sid].loggedIn = FALSE]
  PROVE  AbstractOpen' = [AbstractOpen EXCEPT ![sid].loggedIn = FALSE]
<1> DEFINE t == [sessions[sid] EXCEPT !.loggedIn = FALSE]
<1>1. /\ DOMAIN sessions' = DOMAIN sessions
      /\ \A i \in DOMAIN sessions \ {sid} : sessions'[i] = sessions[i]
      /\ sessions'[sid] = t
  BY DEF TypeOK
<1>2. sessions[sid] \in Sessions
  BY DEF TypeOK
<1>3. AbstractSession(t) = [AbstractSession(sessions[sid]) EXCEPT !.loggedIn = FALSE]
  <2> DEFINE s == sessions[sid]
  <2>1. /\ t.client = s.client /\ t.user = s.user /\ t.pubkey = s.pubkey
        /\ t.loggedIn = FALSE
    BY <1>2 DEF Sessions
  <2> HIDE DEF s, t
  <2>2. [AbstractSession(s) EXCEPT !.loggedIn = FALSE] =
          [client |-> s.client, user |-> s.user, pubkey |-> s.pubkey,
           loggedIn |-> FALSE]
    <3> DEFINE R == [client : {s.client}, user : {s.user},
                     pubkey : {s.pubkey}, loggedIn : {s.loggedIn, FALSE}]
               x == AbstractSession(s)
               y == [x EXCEPT !.loggedIn = FALSE]
    <3>1. x \in R /\ x.client = s.client /\ x.user = s.user /\ x.pubkey = s.pubkey
      BY DEF AbstractSession
    <3> HIDE DEF x
    <3>2. y \in R
      BY <3>1
    <3>3. /\ y.client = s.client /\ y.user = s.user /\ y.pubkey = s.pubkey
          /\ y.loggedIn = FALSE
      BY <3>1
    <3> HIDE DEF y
    <3>4. y = [client |-> s.client, user |-> s.user, pubkey |-> s.pubkey,
               loggedIn |-> FALSE]
      BY <3>2, <3>3
    <3> QED BY <3>4 DEF x, y
  <2>3. AbstractSession(t) = [AbstractSession(s) EXCEPT !.loggedIn = FALSE]
    BY <2>1, <2>2 DEF AbstractSession
  <2> QED BY <2>3 DEF s
<1> HIDE DEF t
<1>4. AbstractOpen' = [i \in DOMAIN sessions |->
                         IF i = sid THEN AbstractSession(t)
                         ELSE AbstractSession(sessions[i])]
  BY <1>1 DEF AbstractOpen, AbstractSession
<1> QED BY <1>3, <1>4 DEF AbstractOpen

\* The two modules take an ID apart in the same way.
LEMMA SameName == \A id : Service!AccountName(id) = AccountName(id)
BY DEF Service!AccountName, Service!isValidID, Service!getNameFromID,
   Service!getServerFromID, Service!find, Service!npos, Service!HasSep,
   Service!Sep, AccountName, isValidID, getNameFromID, getServerFromID, find,
   npos, HasSep, Sep

LEMMA KnownAccounts ==
  ASSUME NEW c \in Clients
  PROVE  /\ Service!Name(c) = AccountName(call[c].id)
         /\ Service!Known(c) = {AbstractAccount(r) : r \in Matching(c)}
BY SameName DEF Service!Name, Service!Known, AbstractAccounts, AbstractAccount, Matching

LEMMA Returns ==
  ASSUME NEW c \in Clients, NEW r, Finish(c, r)
  PROVE  Service!Answer(c, r)
BY DEF Finish, Service!Answer

LEMMA Invisible ==
  ASSUME UNCHANGED <<users, sessions, call, reply>>
  PROVE  UNCHANGED Service!vars
<1>1. AbstractAccounts' = AbstractAccounts /\ AbstractOpen' = AbstractOpen
  BY DEF AbstractAccounts, AbstractAccount, AbstractOpen, AbstractSession
<1> QED BY <1>1 DEF Service!vars

\* A step that changes neither rows nor sessions changes neither accounts nor
\* open sessions.
LEMMA Undisturbed ==
  /\ users' = users => AbstractAccounts' = AbstractAccounts
  /\ sessions' = sessions => AbstractOpen' = AbstractOpen
BY DEF AbstractAccounts, AbstractAccount, AbstractOpen, AbstractSession

LEMMA InvokeRefines ==
  ASSUME ServiceInv, NEW c \in Clients, Invoke(c)
  PROVE  Service!Request(c) /\ IdleCalls'
<1>1. PICK k : Send(c, k)
  BY DEF Invoke, CallRegister, CallLogin, CallDelete, CallLogout
<1>2. /\ pc[c] = "idle"
      /\ pc' = [pc EXCEPT ![c] = "queued"]
      /\ call' = [call EXCEPT ![c] = k]
      /\ reply' = [reply EXCEPT ![c] = "none"]
      /\ UNCHANGED <<users, sessions>>
  BY <1>1 DEF Send, db
<1>3. TypeInv'
  BY InvokeType DEF ServiceInv, SerialInv
<1>4. call'[c] = k /\ k \in Calls /\ k.op # "none"
  BY <1>2, <1>3 DEF ServiceInv, SerialInv, TypeInv, TypeOK, CallsWellFormed
<1>5. call[c] = NoCall /\ k # NoCall
  <2>1. NoCall.op = "none"
    BY DEF NoCall
  <2> QED BY <1>2, <1>4, <2>1 DEF ServiceInv, IdleCalls
<1>6. IdleCalls'
  BY <1>2 DEF ServiceInv, SerialInv, TypeInv, TypeOK, IdleCalls
<1>7. AbstractAccounts' = AbstractAccounts /\ AbstractOpen' = AbstractOpen
  BY <1>2, Undisturbed
<1> QED BY <1>2, <1>4, <1>5, <1>6, <1>7 DEF Service!Request

LEMMA HandleIdle ==
  ASSUME ServiceInv, NEW c \in Clients, Handle(c) \/ LoseConnection(c)
  PROVE  IdleCalls'
<1>1. \/ \E r : Finish(c, r)
      \/ \E label : label # "idle" /\ Goto(c, label)
  <2>1. CASE Lease(c)
    BY <2>1 DEF Lease
  <2>2. CASE ~ Lease(c)
    BY <2>2 DEF Handle, Start, RefuseDelete, Logout, StatementFails, CreateTable,
       CheckID, Insert, CheckLogin, DeleteRows, AnswerIsA, DenyIsA, AnswerEcho,
       GarbleEcho, ExposeSession, LoseConnection
  <2> QED BY <2>1, <2>2
<1>2. CASE \E r : Finish(c, r)
  <2>1. /\ pc' = [pc EXCEPT ![c] = "idle"]
        /\ call' = [call EXCEPT ![c] = NoCall]
    BY <1>2 DEF Finish
  <2> QED BY <2>1 DEF ServiceInv, SerialInv, TypeInv, TypeOK, IdleCalls
<1>3. CASE \E label : label # "idle" /\ Goto(c, label)
  <2>1. PICK label : label # "idle" /\ pc' = [pc EXCEPT ![c] = label] /\ call' = call
    BY <1>3 DEF Goto
  <2> QED BY <2>1 DEF ServiceInv, SerialInv, TypeInv, TypeOK, IdleCalls
<1> QED BY <1>1, <1>2, <1>3

\* What login or registerUser refuses, the service may refuse.
LEMMA VerdictRefines ==
  ASSUME ServiceInv, NEW c \in Clients, CheckLogin(c), Finish(c, Verdict(c)),
         Verdict(c) # "ok"
  PROVE  \E a \in Service!Refusals : Service!RefuseLogin(c, a)
<1>1. /\ call[c].op = "login"
      /\ UNCHANGED <<users, sessions>>
      /\ Service!Answer(c, Verdict(c))
  BY Returns DEF CheckLogin, db
<1>2. AbstractAccounts' = AbstractAccounts /\ AbstractOpen' = AbstractOpen
  BY <1>1, Undisturbed
<1>3. CASE Matching(c) = {}
  <2>1. Verdict(c) = "unknown ID" /\ Service!Known(c) = {}
    BY <1>3, KnownAccounts DEF Verdict
  <2> QED BY <1>1, <1>2, <2>1 DEF Service!RefuseLogin, Service!Refusals
<1>4. CASE Matching(c) # {}
  <2> DEFINE a == AbstractAccount(FirstMatch(c))
  <2>1. /\ a \in Service!Known(c)
        /\ a.pw = FirstMatch(c).pw /\ a.key = FirstMatch(c).pubkey
    BY <1>4, MatchingRows, KnownAccounts DEF AbstractAccount, ServiceInv, SerialInv
  <2> HIDE DEF a
  <2>2. CASE call[c].pw # FirstMatch(c).pw
    <3>1. Verdict(c) = "invalid password"
      BY <1>4, <2>2 DEF Verdict
    <3> QED
      BY <1>1, <1>2, <2>1, <2>2, <3>1 DEF Service!RefuseLogin, Service!Refusals
  <2>3. CASE call[c].pw = FirstMatch(c).pw
    <3>1. /\ Verdict(c) = "public key can't change"
          /\ call[c].key \notin {"", FirstMatch(c).pubkey}
      BY <1>4, <2>3 DEF Verdict, NoKey
    <3> QED
      BY <1>1, <1>2, <2>1, <2>3, <3>1 DEF Service!RefuseLogin, Service!Refusals
  <2> QED BY <2>2, <2>3
<1> QED BY <1>3, <1>4

\* While the callback is tested, the selected account is still there and the
\* password and the key of the call are good for it.
LEMMA GrantedInCallback ==
  ASSUME ServiceInv, NEW c \in Clients, pc[c] \in InCallback \cup {"expose"}
  PROVE  /\ call[c].op = "login"
         /\ AbstractAccount(row[c]) \in Service!Granted(c)
         /\ row[c].id = AccountName(call[c].id)
<1>1. /\ call[c].op = "login"
      /\ row[c] \in Matching(c)
      /\ row[c].pw = call[c].pw
      /\ call[c].key \in {"", row[c].pubkey}
  BY DEF ServiceInv, SerialInv, TypeInv, CallsWellFormed, ReadsCurrent, NoKey
<1>2. AbstractAccount(row[c]) \in Service!Known(c)
  BY <1>1, KnownAccounts
<1>3. AbstractAccount(row[c]).pw = row[c].pw /\ AbstractAccount(row[c]).key = row[c].pubkey
  BY DEF AbstractAccount
<1> QED BY <1>1, <1>2, <1>3 DEF Service!Granted, Matching

LEMMA CallbackRefines ==
  ASSUME ServiceInv, NEW c \in Clients,
         DenyIsA(c) \/ GarbleEcho(c) \/ LoseConnection(c)
  PROVE  \E a \in Service!Refusals : Service!RefuseCallback(c, a)
<1>1. UNCHANGED <<users, sessions>> /\ pc[c] \in InCallback
  BY DEF DenyIsA, GarbleEcho, LoseConnection, InCallback, db
<1>2. AbstractAccounts' = AbstractAccounts /\ AbstractOpen' = AbstractOpen
  BY <1>1, Undisturbed
<1>3. call[c].op = "login" /\ Service!Granted(c) # {}
  BY <1>1, GrantedInCallback
<1>4. PICK a \in Service!Refusals :
        /\ Service!Answer(c, a)
        /\ \/ a = "connection lost"
           \/ a = "echo not working" /\ Callback[c] = "wrong"
           \/ a = "callback failed" /\ Callback[c] = "invalid"
  BY Returns DEF DenyIsA, GarbleEcho, LoseConnection, Service!Refusals
<1> QED BY <1>2, <1>3, <1>4 DEF Service!RefuseCallback

LEMMA ExposeRefines ==
  ASSUME ServiceInv, NEW c \in Clients, ExposeSession(c)
  PROVE  Service!Login(c)
<1> DEFINE s == [client |-> c, user |-> AccountName(call[c].id),
                 pubkey |-> row[c].pubkey, loggedIn |-> TRUE,
                 reg |-> row[c].reg, pw |-> call[c].pw]
           a == AbstractAccount(row[c])
<1>1. /\ sessions' = Append(sessions, s)
      /\ users' = users
      /\ Service!Answer(c, "ok")
      /\ pc[c] = "expose"
  BY Returns DEF ExposeSession, db
<1>2. /\ call[c].op = "login"
      /\ a \in Service!Granted(c)
      /\ row[c].id = AccountName(call[c].id)
  BY <1>1, GrantedInCallback
<1>3. Callback[c] = "valid"
  BY <1>1 DEF ServiceInv, CallbacksPassed
<1>4. s \in Sessions
  <2>1. /\ call[c].id \in IDs /\ call[c].pw \in Passwords /\ row[c] \in Rows
    BY <1>1 DEF ServiceInv, SerialInv, TypeInv, CallsWellFormed, AuthOps, InCallback
  <2>2. AccountName(call[c].id) \in Names
    BY <2>1 DEF Names
  <2> QED BY <2>1, <2>2 DEF Sessions, Rows
<1>5. AbstractSession(s) = [client |-> c, user |-> a.id, pubkey |-> a.key,
                            loggedIn |-> TRUE]
  BY <1>2 DEF AbstractSession, AbstractAccount
<1> HIDE DEF s, a
<1>6. AbstractOpen' = Append(AbstractOpen, AbstractSession(s))
  BY <1>1, <1>4, OpenAppend DEF ServiceInv, SerialInv, TypeInv
<1>7. AbstractAccounts' = AbstractAccounts
  BY <1>1, Undisturbed
<1> QED BY <1>1, <1>2, <1>3, <1>5, <1>6, <1>7 DEF Service!Login

LEMMA InsertRefines ==
  ASSUME ServiceInv, NEW c \in Clients, Insert(c)
  PROVE  Service!Register(c)
<1> DEFINE new == [reg |-> nextReg, id |-> AccountName(call[c].id),
                   pw |-> call[c].pw, pubkey |-> call[c].key]
<1>1. /\ users' = users \cup {new}
      /\ sessions' = sessions
      /\ Service!Answer(c, "ok")
      /\ pc[c] = "insert"
  BY Returns DEF Insert
<1>2. call[c].op = "registerUser" /\ Matching(c) = {}
  BY <1>1 DEF ServiceInv, SerialInv, TypeInv, CallsWellFormed, ReadsCurrent
<1>3. Service!Known(c) = {}
  BY <1>2, KnownAccounts
<1>4. AbstractAccount(new) =
        [id |-> Service!Name(c), pw |-> call[c].pw, key |-> call[c].key]
  BY KnownAccounts DEF AbstractAccount
<1> HIDE DEF new
<1>5. AbstractAccounts' = AbstractAccounts \cup {AbstractAccount(new)}
  BY <1>1 DEF AbstractAccounts, AbstractAccount
<1>6. AbstractOpen' = AbstractOpen
  BY <1>1, Undisturbed
<1> QED BY <1>1, <1>2, <1>3, <1>4, <1>5, <1>6 DEF Service!Register

\* The session of a call on a session, as the clients see it.
LEMMA OwnAgrees ==
  ASSUME ServiceInv, NEW c \in Clients,
         call[c].op \in {"deleteUser", "logout"}
  PROVE  /\ call[c].sid \in DOMAIN sessions
         /\ AbstractOpen[call[c].sid].user = sessions[call[c].sid].user
         /\ Service!Own(c) <=> OwnID(c)
<1>1. call[c].sid \in DOMAIN sessions
  BY DEF ServiceInv, SerialInv, TypeInv, CallsWellFormed
<1>2. AbstractOpen[call[c].sid].user = sessions[call[c].sid].user
  BY <1>1 DEF AbstractOpen, AbstractSession
<1> QED BY <1>1, <1>2 DEF Service!Own, OwnID

LEMMA DeleteRefines ==
  ASSUME ServiceInv, NEW c \in Clients, DeleteRows(c)
  PROVE  Service!Delete(c)
<1>1. /\ users' = users \ Matching(c)
      /\ sessions' = sessions
      /\ Service!Answer(c, "ok")
      /\ pc[c] = "delete"
  BY Returns DEF DeleteRows
<1>2. call[c].op = "deleteUser" /\ OwnID(c)
  BY <1>1
  DEF ServiceInv, SerialInv, NamesInv, TypeInv, CallsWellFormed, SessionNames
<1>3. AccountName(call[c].id) = sessions[call[c].sid].user
  BY <1>2, OwnAgrees DEF OwnID, ServiceInv, NamesInv, SessionNames
<1> DEFINE name == AbstractOpen[call[c].sid].user
<1>4. Matching(c) = {r \in users : r.id = name} /\ Service!Own(c)
  BY <1>2, <1>3, OwnAgrees DEF Matching
<1> HIDE DEF name
<1>5. AbstractAccounts' = {AbstractAccount(r) : r \in {q \in users : q.id # name}}
  <2>1. users' = {q \in users : q.id # name}
    BY <1>1, <1>4
  <2> QED BY <2>1 DEF AbstractAccounts, AbstractAccount
<1>6. \A r : AbstractAccount(r).id = r.id
  BY DEF AbstractAccount
<1>7. AbstractAccounts' = {a \in AbstractAccounts : a.id # name}
  BY <1>5, <1>6 DEF AbstractAccounts
<1>8. AbstractOpen' = AbstractOpen
  BY <1>1, Undisturbed
<1> QED BY <1>1, <1>2, <1>4, <1>7, <1>8 DEF name, Service!Delete

LEMMA LogoutRefines ==
  ASSUME ServiceInv, NEW c \in Clients, Logout(c)
  PROVE  Service!Logout(c)
<1>1. /\ sessions' = [sessions EXCEPT ![call[c].sid].loggedIn = FALSE]
      /\ users' = users
      /\ Service!Answer(c, "ok")
      /\ call[c].op = "logout"
  BY Returns DEF Logout, db
<1>2. AbstractOpen' = [AbstractOpen EXCEPT ![call[c].sid].loggedIn = FALSE]
  BY <1>1, OwnAgrees, OpenLogout DEF ServiceInv, SerialInv, TypeInv
<1>3. AbstractAccounts' = AbstractAccounts
  BY <1>1, Undisturbed
<1> QED BY <1>1, <1>2, <1>3 DEF Service!Logout

LEMMA HandleRefines ==
  ASSUME ServiceInv, NEW c \in Clients, Handle(c) \/ LoseConnection(c)
  PROVE  Service!Next \/ UNCHANGED Service!vars
<1>1. CASE \/ Start(c) \/ Lease(c) \/ CreateTable(c) \/ AnswerIsA(c) \/ AnswerEcho(c)
  <2>1. UNCHANGED <<users, sessions, call, reply>>
    BY <1>1 DEF Start, Lease, CreateTable, AnswerIsA, AnswerEcho, Goto, db
  <2> QED BY <2>1, Invisible
<1>2. CASE CheckID(c)
  <2>1. /\ call[c].op = "registerUser"
        /\ UNCHANGED <<users, sessions>>
    BY <1>2 DEF CheckID, db
  <2>2. CASE Goto(c, "insert")
    BY <2>1, <2>2, Invisible DEF Goto
  <2>3. CASE Matching(c) # {} /\ Finish(c, "ID already exists")
    <3> DEFINE a == "ID already exists"
    <3>1. Service!Known(c) # {}
      <4>1. PICK r \in Matching(c) : TRUE
        BY <2>3
      <4>2. AbstractAccount(r) \in Service!Known(c)
        BY KnownAccounts
      <4> QED BY <4>2
    <3>2. Service!Answer(c, a)
      <4>1. Finish(c, a)
        BY <2>3
      <4> HIDE DEF a
      <4> QED BY <4>1, Returns
    <3>3. Service!RefuseRegister(c)
      BY <2>1, <3>1, <3>2, Undisturbed DEF Service!RefuseRegister
    <3> QED BY <3>3 DEF Service!Next
  <2> QED BY <1>2, <2>2, <2>3 DEF CheckID
<1>3. CASE CheckLogin(c)
  <2>1. CASE Verdict(c) # "ok" /\ Finish(c, Verdict(c))
    BY <1>3, <2>1, VerdictRefines DEF Service!Next
  <2>2. CASE Goto(c, "isA")
    BY <1>3, <2>2, Invisible DEF CheckLogin, Goto, db
  <2> QED BY <1>3, <2>1, <2>2 DEF CheckLogin
<1>4. CASE RefuseDelete(c)
  <2>1. /\ call[c].op = "deleteUser" /\ ~ OwnID(c)
        /\ UNCHANGED <<users, sessions>>
        /\ Service!Answer(c, "not permitted")
    BY <1>4, Returns DEF RefuseDelete, db
  <2>2. Service!RefuseDelete(c)
    BY <2>1, OwnAgrees, Undisturbed DEF Service!RefuseDelete
  <2> QED BY <2>2 DEF Service!Next
<1>5. CASE DenyIsA(c) \/ GarbleEcho(c) \/ LoseConnection(c)
  BY <1>5, CallbackRefines DEF Service!Next
<1>6. CASE Insert(c)
  BY <1>6, InsertRefines DEF Service!Next
<1>7. CASE ExposeSession(c)
  BY <1>7, ExposeRefines DEF Service!Next
<1>8. CASE DeleteRows(c)
  BY <1>8, DeleteRefines DEF Service!Next
<1>9. CASE Logout(c)
  BY <1>9, LogoutRefines DEF Service!Next
<1> QED
  BY <1>1, <1>2, <1>3, <1>4, <1>5, <1>6, <1>7, <1>8, <1>9, NoFailure
  DEF Handle, ServiceInv

LEMMA HandleCallbacks ==
  ASSUME ServiceInv, NEW c \in Clients,
         Invoke(c) \/ Handle(c) \/ LoseConnection(c)
  PROVE  CallbacksPassed'
<1>1. PICK label :
        /\ pc' = [pc EXCEPT ![c] = label]
        /\ label = "echo" => Callback[c] \in {"valid", "wrong"}
        /\ label = "expose" => Callback[c] = "valid"
  <2>1. CASE \/ Invoke(c)
    BY <2>1 DEF Invoke, CallRegister, CallLogin, CallDelete, CallLogout, Send
  <2>2. CASE Lease(c)
    <3>1. \E label \in {"create", "delete"} : pc' = [pc EXCEPT ![c] = label]
      <4>1. CASE call[c].op = "deleteUser"
        BY <2>2, <4>1 DEF Lease, Goto
      <4>2. CASE call[c].op # "deleteUser"
        BY <2>2, <4>2 DEF Lease, Goto
      <4> QED BY <4>1, <4>2
    <3> QED BY <3>1
  <2>3. CASE AnswerIsA(c) \/ AnswerEcho(c)
    BY <2>3 DEF AnswerIsA, AnswerEcho, Goto
  <2>4. CASE Start(c) \/ CreateTable(c) \/ CheckID(c) \/ CheckLogin(c)
    BY <2>4 DEF Start, CreateTable, CheckID, CheckLogin, Goto, Finish
  <2>5. CASE \/ RefuseDelete(c) \/ Logout(c) \/ StatementFails(c) \/ Insert(c)
             \/ DeleteRows(c) \/ DenyIsA(c) \/ GarbleEcho(c) \/ ExposeSession(c)
             \/ LoseConnection(c)
    BY <2>5 DEF RefuseDelete, Logout, StatementFails, Insert, DeleteRows,
       DenyIsA, GarbleEcho, ExposeSession, LoseConnection, Finish
  <2> QED BY <2>1, <2>2, <2>3, <2>4, <2>5 DEF Handle
<1> QED BY <1>1 DEF ServiceInv, SerialInv, TypeInv, TypeOK, CallbacksPassed

LEMMA InitRefines == Init => ServiceInv /\ Service!Init
<1> SUFFICES ASSUME Init PROVE ServiceInv /\ Service!Init
  OBVIOUS
<1>1. /\ users = {} /\ sessions = <<>>
      /\ pc = [c \in Clients |-> "idle"]
      /\ call = [c \in Clients |-> NoCall]
      /\ reply = [c \in Clients |-> "none"]
  BY DEF Init
<1>2. IdleCalls /\ CallbacksPassed
  BY <1>1 DEF IdleCalls, CallbacksPassed
<1>3. ServiceInv
  BY <1>2, InitSerial, InitNames DEF ServiceInv
<1>4. AbstractAccounts = {}
  BY <1>1 DEF AbstractAccounts
<1>5. AbstractOpen = <<>>
  <2>1. TypeOK
    BY <1>3 DEF ServiceInv, SerialInv, TypeInv
  <2> DEFINE T == {AbstractSession(s) : s \in Sessions}
  <2>2. AbstractOpen \in Seq(T) /\ Len(AbstractOpen) = 0
    BY <1>1, <2>1, OpenIsSeq
  <2> HIDE DEF T
  <2> QED BY <2>2, EmptySeq
<1> QED BY <1>1, <1>3, <1>4, <1>5 DEF Service!Init

\* A restart leaves the accounts, and a call that it cuts off without effect.
LEMMA RestartRefines ==
  ASSUME ServiceInv, Restart
  PROVE  IdleCalls' /\ CallbacksPassed' /\ Service!Restart
<1>1. /\ TypeOK /\ CallsWellFormed /\ IdleCalls
      /\ users' = users /\ sessions' = <<>>
      /\ pc' = [c \in Clients |-> "idle"]
      /\ call' = [c \in Clients |-> NoCall]
      /\ reply' = [c \in Clients |-> IF pc[c] = "idle" THEN reply[c]
                                     ELSE "connection lost"]
  BY DEF Restart, db, ServiceInv, SerialInv, TypeInv
<1>2. IdleCalls' /\ CallbacksPassed'
  BY <1>1 DEF IdleCalls, CallbacksPassed
<1>3. \A c \in Clients : pc[c] = "idle" <=> call[c] = NoCall
  <2>1. NoCall.op = "none"
    BY DEF NoCall
  <2> QED BY <1>1, <2>1 DEF CallsWellFormed, IdleCalls
<1>4. reply' = [c \in Clients |-> IF call[c] = NoCall THEN reply[c]
                                 ELSE "connection lost"]
  BY <1>1, <1>3
<1>5. AbstractOpen' = <<>>
  <2>1. DOMAIN sessions' = 1 .. 0
    <3>1. sessions' = <<>>
      BY <1>1
    <3>2. sessions' \in Seq(Sessions) /\ Len(sessions') = 0
      BY <3>1
    <3> QED BY <3>2, LenProperties
  <2>2. AbstractOpen' = [i \in 1 .. 0 |-> AbstractSession(sessions[i])']
    BY <2>1 DEF AbstractOpen, AbstractSession
  <2> DEFINE f == [i \in 1 .. 0 |-> AbstractSession(sessions[i])']
  <2>3. f \in Seq({}) /\ Len(f) = 0
    BY DEF AbstractSession
  <2> HIDE DEF f
  <2> QED BY <2>2, <2>3, EmptySeq DEF f
<1>6. AbstractAccounts' = AbstractAccounts
  BY <1>1, Undisturbed
<1> QED BY <1>1, <1>2, <1>4, <1>5, <1>6 DEF Service!Restart

LEMMA NextRefines ==
  ASSUME PoolSize = 1
  PROVE  ServiceInv /\ [Next]_vars => ServiceInv' /\ [Service!Next]_(Service!vars)
<1> SUFFICES ASSUME ServiceInv, [Next]_vars
             PROVE  ServiceInv' /\ (Service!Next \/ UNCHANGED Service!vars)
  OBVIOUS
<1>1. SerialInv' /\ NamesInv'
  BY NextSerial, NextNames DEF ServiceInv
<1>2. CASE Restart
  BY <1>1, <1>2, RestartRefines DEF ServiceInv, Service!Next
<1>3. CASE UNCHANGED vars
  <2>1. IdleCalls' /\ CallbacksPassed'
    BY <1>3 DEF vars, ServiceInv, IdleCalls, CallbacksPassed
  <2>2. UNCHANGED Service!vars
    BY <1>3, Invisible DEF vars
  <2> QED BY <1>1, <2>1, <2>2 DEF ServiceInv
<1>4. ASSUME NEW c \in Clients, Invoke(c)
      PROVE  IdleCalls' /\ CallbacksPassed' /\ Service!Next
  BY <1>4, InvokeRefines, HandleCallbacks DEF Service!Next
<1>5. ASSUME NEW c \in Clients, Handle(c) \/ LoseConnection(c)
      PROVE  /\ IdleCalls' /\ CallbacksPassed'
             /\ Service!Next \/ UNCHANGED Service!vars
  BY <1>5, HandleIdle, HandleCallbacks, HandleRefines
<1> QED BY <1>1, <1>2, <1>3, <1>4, <1>5 DEF Next, ServiceInv

\* With one connection, every call takes effect at one instant, as AccountService
\* describes it, and a restart of the server leaves each call with all of its
\* effect or with none.
THEOREM Refinement ==
  ASSUME PoolSize = 1
  PROVE  Spec => ImplementsService
<1>1. Init => ServiceInv /\ Service!Init
  BY InitRefines
<1>2. ServiceInv /\ [Next]_vars => ServiceInv' /\ [Service!Next]_(Service!vars)
  BY NextRefines
<1> QED BY <1>1, <1>2, PTL DEF Spec, Service!Spec, ImplementsService
=============================================================================
