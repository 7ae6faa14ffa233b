------------------------ MODULE AccountsSafetyProofs -------------------------
(***************************************************************************)
(* The safety properties of Accounts as theorems.  Each rests on an        *)
(* inductive invariant, a conjunction of the named parts below with the    *)
(* type invariant of AccountsProofs.                                       *)
(***************************************************************************)
EXTENDS AccountsProofs

-----------------------------------------------------------------------------
(***************************************************************************)
(* Threads and connections.                                                *)
(***************************************************************************)

\* A connection is held exactly between the lease and the end of the handler.
LeasesHeld == leased = {c \in Clients : pc[c] \in HoldsLease}

ThreadsBounded == Cardinality(Busy) <= Threads

CapacityInv == TypeInv /\ LeasesHeld /\ ThreadsBounded

LEMMA BusyFinite ==
  /\ IsFiniteSet(Busy) /\ Cardinality(Busy) \in Nat
  /\ IsFiniteSet(Busy') /\ Cardinality(Busy') \in Nat
<1>1. Busy \subseteq Clients /\ Busy' \subseteq Clients
  BY DEF Busy
<1> QED BY <1>1, ClientsAssumption, FS_Subset, FS_CardinalityType

\* Only a step that found a thread free makes a further handler busy.
LEMMA BusyStep ==
  ASSUME TypeInv, ThreadsBounded,
         NEW c \in Clients,
         \/ Busy' \subseteq Busy
         \/ ThreadFree /\ Busy' \subseteq Busy \cup {c}
  PROVE  ThreadsBounded'
<1>1. CASE Busy' \subseteq Busy
  <2>1. Cardinality(Busy') <= Cardinality(Busy)
    BY <1>1, BusyFinite, FS_Subset
  <2> QED BY <2>1, BusyFinite, SizesAssumption DEF ThreadsBounded
<1>2. CASE ThreadFree /\ Busy' \subseteq Busy \cup {c}
  <2>1. /\ IsFiniteSet(Busy \cup {c})
        /\ Cardinality(Busy \cup {c}) \in Nat
        /\ Cardinality(Busy \cup {c}) <= Cardinality(Busy) + 1
    <3>1. /\ IsFiniteSet(Busy \cup {c})
          /\ \/ Cardinality(Busy \cup {c}) = Cardinality(Busy)
             \/ Cardinality(Busy \cup {c}) = Cardinality(Busy) + 1
      BY BusyFinite, FS_AddElement
    <3>2. Cardinality(Busy \cup {c}) \in Nat
      BY <3>1, FS_CardinalityType
    <3> QED BY <3>1, <3>2, BusyFinite
  <2>2. Cardinality(Busy') <= Cardinality(Busy \cup {c})
    BY <1>2, <2>1, FS_Subset
  <2> QED
    BY <1>2, <2>1, <2>2, BusyFinite, SizesAssumption DEF ThreadsBounded, ThreadFree
<1> QED BY <1>1, <1>2

LEMMA InvokeCapacity ==
  ASSUME CapacityInv, NEW c \in Clients, Invoke(c)
  PROVE  LeasesHeld' /\ ThreadsBounded'
<1>1. /\ pc[c] = "idle"
      /\ pc' = [pc EXCEPT ![c] = "queued"]
      /\ leased' = leased
  BY DEF Invoke, CallRegister, CallLogin, CallDelete, CallLogout, Send
<1>2. LeasesHeld'
  BY <1>1 DEF CapacityInv, TypeInv, TypeOK, LeasesHeld, HoldsLease, AtStatement,
     InCallback
<1>3. Busy' \subseteq Busy
  BY <1>1 DEF CapacityInv, TypeInv, TypeOK, Busy
<1> QED BY <1>2, <1>3, BusyStep DEF CapacityInv

\* A handler that is under way gives its connection back when it returns and
\* keeps it otherwise; it never becomes a second busy handler.
LEMMA FinishCapacity ==
  ASSUME CapacityInv, NEW c \in Clients, NEW r, Finish(c, r)
  PROVE  LeasesHeld' /\ ThreadsBounded'
<1>1. pc' = [pc EXCEPT ![c] = "idle"] /\ leased' = leased \ {c}
  BY DEF Finish
<1>2. LeasesHeld'
  BY <1>1 DEF CapacityInv, TypeInv, TypeOK, LeasesHeld, HoldsLease, AtStatement,
     InCallback
<1>3. Busy' \subseteq Busy
  BY <1>1 DEF CapacityInv, TypeInv, TypeOK, Busy
<1> QED BY <1>2, <1>3, BusyStep DEF CapacityInv

LEMMA GotoCapacity ==
  ASSUME CapacityInv, NEW c \in Clients, NEW label, Goto(c, label),
         pc[c] \in HoldsLease, label \in HoldsLease, leased' = leased
  PROVE  LeasesHeld' /\ ThreadsBounded'
<1>1. pc' = [pc EXCEPT ![c] = label]
  BY DEF Goto
<1>2. LeasesHeld'
  BY <1>1 DEF CapacityInv, TypeInv, TypeOK, LeasesHeld
<1>3. Busy' \subseteq Busy
  BY <1>1 DEF CapacityInv, TypeInv, TypeOK, Busy, HoldsLease, AtStatement, InCallback
<1> QED BY <1>2, <1>3, BusyStep DEF CapacityInv

LEMMA HandleCapacity ==
  ASSUME CapacityInv, NEW c \in Clients, Handle(c) \/ LoseConnection(c)
  PROVE  LeasesHeld' /\ ThreadsBounded'
<1>1. CASE Start(c)
  <2>1. /\ pc' = [pc EXCEPT ![c] = "lease"] /\ leased' = leased
        /\ pc[c] = "queued" /\ ThreadFree
    BY <1>1 DEF Start, Goto
  <2>2. LeasesHeld'
    BY <2>1 DEF CapacityInv, TypeInv, TypeOK, LeasesHeld, HoldsLease,
       AtStatement, InCallback
  <2>3. Busy' \subseteq Busy \cup {c}
    BY <2>1 DEF CapacityInv, TypeInv, TypeOK, Busy
  <2> QED BY <2>1, <2>2, <2>3, BusyStep DEF CapacityInv
<1>2. CASE Lease(c)
  <2>1. PICK label \in {"create", "delete"} :
          /\ pc' = [pc EXCEPT ![c] = label]
          /\ leased' = leased \cup {c}
          /\ pc[c] = "lease"
    BY <1>2 DEF Lease, Goto
  <2>2. LeasesHeld'
    BY <2>1 DEF CapacityInv, TypeInv, TypeOK, LeasesHeld, HoldsLease, AtStatement
  <2>3. Busy' \subseteq Busy
    BY <2>1 DEF CapacityInv, TypeInv, TypeOK, Busy
  <2> QED BY <2>2, <2>3, BusyStep DEF CapacityInv
<1>3. CASE CreateTable(c) \/ AnswerIsA(c) \/ AnswerEcho(c)
  BY <1>3, GotoCapacity DEF CreateTable, AnswerIsA, AnswerEcho, HoldsLease,
     AtStatement, InCallback
<1>4. CASE CheckID(c)
  BY <1>4, GotoCapacity, FinishCapacity
  DEF CheckID, HoldsLease, AtStatement
<1>5. CASE CheckLogin(c)
  BY <1>5, GotoCapacity, FinishCapacity
  DEF CheckLogin, HoldsLease, AtStatement, InCallback
<1>6. CASE \/ RefuseDelete(c) \/ Logout(c) \/ StatementFails(c) \/ Insert(c)
           \/ DeleteRows(c) \/ DenyIsA(c) \/ GarbleEcho(c) \/ ExposeSession(c)
           \/ LoseConnection(c)
  <2>1. \E r : Finish(c, r)
    BY <1>6 DEF RefuseDelete, Logout, StatementFails, Insert, DeleteRows,
       DenyIsA, GarbleEcho, ExposeSession, LoseConnection
  <2> QED BY <2>1, FinishCapacity
<1> QED BY <1>1, <1>2, <1>3, <1>4, <1>5, <1>6 DEF Handle

LEMMA NextCapacity == CapacityInv /\ [Next]_vars => CapacityInv'
<1> SUFFICES ASSUME CapacityInv, [Next]_vars
             PROVE  LeasesHeld' /\ ThreadsBounded'
  BY NextTypeInv DEF CapacityInv
<1>1. CASE \E c \in Clients : Invoke(c) \/ Handle(c) \/ LoseConnection(c)
  BY <1>1, InvokeCapacity, HandleCapacity
<1>2. CASE Restart
  <2>1. pc' = [c \in Clients |-> "idle"] /\ leased' = {}
    BY <1>2 DEF Restart
  <2>2. Busy' = {} /\ LeasesHeld'
    BY <2>1 DEF Busy, LeasesHeld, HoldsLease, AtStatement, InCallback
  <2> QED BY <2>2, FS_EmptySet, SizesAssumption DEF ThreadsBounded
<1>3. CASE UNCHANGED vars
  BY <1>3 DEF vars, CapacityInv, LeasesHeld, ThreadsBounded, Busy
<1> QED BY <1>1, <1>2, <1>3 DEF Next

LEMMA InitCapacity == Init => CapacityInv
<1> SUFFICES ASSUME Init PROVE LeasesHeld /\ ThreadsBounded
  BY InitTypeInv DEF CapacityInv
<1>1. Busy = {}
  BY DEF Init, Busy
<1>2. ThreadsBounded
  BY <1>1, FS_EmptySet, SizesAssumption DEF ThreadsBounded
<1>3. LeasesHeld
  BY DEF Init, LeasesHeld, HoldsLease, AtStatement, InCallback
<1> QED BY <1>2, <1>3

LEMMA AlwaysCapacityInv == Spec => []CapacityInv
BY InitCapacity, NextCapacity, PTL DEF Spec

\* The thread pool bounds the use of the connection pool: whatever the two
\* sizes are, as long as there are at least as many connections as threads, a
\* handler that asks for a connection finds one.  Every holder of a connection
\* is busy, and so is the handler that asks, but it holds none.
THEOREM ConnectionsSuffice ==
  ASSUME Threads <= PoolSize
  PROVE  Spec => []LeaseNeverBlocks
<1>1. CapacityInv => LeaseNeverBlocks
  <2> SUFFICES ASSUME CapacityInv, NEW c \in Clients, pc[c] = "lease"
               PROVE  Cardinality(leased) < PoolSize
    BY DEF LeaseNeverBlocks
  <2>1. leased \subseteq Busy \ {c} /\ c \in Busy
    BY DEF CapacityInv, LeasesHeld, Busy, HoldsLease, AtStatement, InCallback
  <2>2. /\ IsFiniteSet(Busy \ {c})
        /\ Cardinality(Busy \ {c}) = Cardinality(Busy) - 1
    BY <2>1, BusyFinite, FS_RemoveElement
  <2>3. /\ Cardinality(leased) <= Cardinality(Busy \ {c})
        /\ Cardinality(leased) \in Nat
    BY <2>1, <2>2, FS_Subset, FS_CardinalityType
  <2> QED
    BY <2>2, <2>3, BusyFinite, SizesAssumption DEF CapacityInv, ThreadsBounded
<1> QED BY <1>1, AlwaysCapacityInv, PTL
-----------------------------------------------------------------------------
(***************************************************************************)
(* Rows, snapshots of rows, and sessions.                                  *)
(***************************************************************************)

\* A row is numbered below nextReg, and no row outlives its deletion.
RowsNumbered ==
  /\ \A r \in users \cup deleted : r.reg < nextReg
  /\ users \cap deleted = {}

\* A login holds a row that was in the table when it looked, of the account it
\* names and with the password it presents; no other handler holds a row.
Snapshots ==
  \A c \in Clients :
    /\ gone[c] \subseteq deleted
    /\ row[c] \notin gone[c]
    /\ IF pc[c] \in InCallback \cup {"expose"}
       THEN /\ row[c] \in users \cup deleted
            /\ row[c].id = AccountName(call[c].id)
            /\ row[c].pw = call[c].pw
       ELSE row[c] = NoRow

RowsInv == TypeInv /\ RowsNumbered /\ Snapshots /\ SessionsAuthenticated

LEMMA InitRows == Init => RowsInv
<1> SUFFICES ASSUME Init
             PROVE  RowsNumbered /\ Snapshots /\ SessionsAuthenticated
  BY InitTypeInv DEF RowsInv
<1>1. RowsNumbered /\ SessionsAuthenticated
  BY DEF Init, RowsNumbered, SessionsAuthenticated
<1>2. Snapshots
  BY DEF Init, Snapshots, InCallback
<1> QED BY <1>1, <1>2

LEMMA InvokeRows ==
  ASSUME RowsInv, NEW c \in Clients, Invoke(c)
  PROVE  RowsNumbered' /\ Snapshots' /\ SessionsAuthenticated'
<1>1. PICK k : Send(c, k)
  BY DEF Invoke, CallRegister, CallLogin, CallDelete, CallLogout
<1>2. /\ pc[c] = "idle" /\ pc' = [pc EXCEPT ![c] = "queued"]
      /\ call' = [call EXCEPT ![c] = k]
      /\ \E h \in {deleted, {}} : gone' = [gone EXCEPT ![c] = h]
      /\ UNCHANGED <<users, nextReg, deleted, sessions, row>>
  BY <1>1 DEF Send, db
<1>3. RowsNumbered' /\ SessionsAuthenticated'
  BY <1>2 DEF RowsInv, RowsNumbered, SessionsAuthenticated
<1>4. NoRow \notin deleted
  BY RowTypes DEF RowsInv, TypeInv, TypeOK
<1>5. Snapshots'
  BY <1>2, <1>4 DEF RowsInv, TypeInv, TypeOK, Snapshots, InCallback
<1> QED BY <1>3, <1>5

\* What a step of a handler may do to the rows: insert one, delete some, or
\* nothing.  A handler that returns drops its snapshot, and the snapshots of
\* the others stay valid since no row is ever forgotten.
LEMMA FinishRows ==
  ASSUME RowsInv, NEW c \in Clients, NEW r, Finish(c, r),
         users \cup deleted \subseteq users' \cup deleted',
         deleted \subseteq deleted'
  PROVE  Snapshots'
<1>1. /\ pc' = [pc EXCEPT ![c] = "idle"]
      /\ call' = [call EXCEPT ![c] = NoCall]
      /\ row' = [row EXCEPT ![c] = NoRow]
      /\ gone' = [gone EXCEPT ![c] = {}]
  BY DEF Finish
<1> QED BY <1>1 DEF RowsInv, TypeInv, TypeOK, Snapshots, InCallback

LEMMA GotoRows ==
  ASSUME RowsInv, NEW c \in Clients, NEW label, Goto(c, label),
         UNCHANGED <<users, deleted, row>>,
         label \in InCallback \cup {"expose"} <=>
           pc[c] \in InCallback \cup {"expose"}
  PROVE  Snapshots'
<1>1. /\ pc' = [pc EXCEPT ![c] = label]
      /\ UNCHANGED <<call, gone>>
  BY DEF Goto
<1> QED BY <1>1 DEF RowsInv, TypeInv, TypeOK, Snapshots

LEMMA SameRows ==
  ASSUME RowsInv, UNCHANGED <<users, nextReg, deleted, sessions>>
  PROVE  RowsNumbered' /\ SessionsAuthenticated'
BY DEF RowsInv, RowsNumbered, SessionsAuthenticated

LEMMA MoreRows ==
  ASSUME RowsInv, sessions' = sessions,
         users \cup deleted \subseteq users' \cup deleted'
  PROVE  SessionsAuthenticated'
BY DEF RowsInv, SessionsAuthenticated

LEMMA HandleRows ==
  ASSUME RowsInv, NEW c \in Clients, Handle(c) \/ LoseConnection(c)
  PROVE  RowsNumbered' /\ Snapshots' /\ SessionsAuthenticated'
<1>1. CASE Start(c) \/ Lease(c) \/ CreateTable(c) \/ AnswerIsA(c) \/ AnswerEcho(c)
  <2>1. UNCHANGED <<users, nextReg, deleted, sessions, row>>
    BY <1>1 DEF Start, Lease, CreateTable, AnswerIsA, AnswerEcho, db
  <2>2. PICK label :
          /\ Goto(c, label)
          /\ label \in InCallback \cup {"expose"} <=>
               pc[c] \in InCallback \cup {"expose"}
    BY <1>1 DEF Start, Lease, CreateTable, AnswerIsA, AnswerEcho, InCallback
  <2> QED BY <2>1, <2>2, SameRows, GotoRows
<1>2. CASE \/ RefuseDelete(c) \/ StatementFails(c) \/ DenyIsA(c)
           \/ GarbleEcho(c) \/ LoseConnection(c)
  <2>1. UNCHANGED <<users, nextReg, deleted, sessions>>
    BY <1>2 DEF RefuseDelete, StatementFails, DenyIsA, GarbleEcho,
       LoseConnection, db
  <2>2. \E r : Finish(c, r)
    BY <1>2 DEF RefuseDelete, StatementFails, DenyIsA, GarbleEcho, LoseConnection
  <2> QED BY <2>1, <2>2, SameRows, FinishRows
<1>3. CASE CheckID(c)
  <2>1. UNCHANGED <<users, nextReg, deleted, sessions>>
    BY <1>3 DEF CheckID, db
  <2>2. CASE Finish(c, "ID already exists")
    BY <2>1, <2>2, SameRows, FinishRows
  <2>3. CASE Goto(c, "insert") /\ UNCHANGED row
    BY <1>3, <2>1, <2>3, SameRows, GotoRows DEF CheckID, InCallback
  <2> QED BY <1>3, <2>2, <2>3 DEF CheckID
<1>4. CASE CheckLogin(c)
  <2>1. UNCHANGED <<users, nextReg, deleted, sessions>>
    BY <1>4 DEF CheckLogin, db
  <2>2. CASE Finish(c, Verdict(c))
    BY <2>1, <2>2, SameRows, FinishRows
  <2>3. CASE Verdict(c) = "ok" /\ Goto(c, "isA")
             /\ row' = [row EXCEPT ![c] = FirstMatch(c)]
    <3>1. FirstMatch(c) \in Matching(c)
      BY <2>3, MatchingRows DEF Verdict, RowsInv
    <3>2. /\ FirstMatch(c) \in users
          /\ FirstMatch(c).id = AccountName(call[c].id)
          /\ FirstMatch(c).pw = call[c].pw
      BY <2>3, <3>1 DEF Verdict, Matching
    <3>3. FirstMatch(c) \notin gone[c]
      BY <3>2 DEF RowsInv, RowsNumbered, Snapshots
    <3>4. pc' = [pc EXCEPT ![c] = "isA"] /\ UNCHANGED <<call, gone>>
      BY <2>3 DEF Goto
    <3>5. Snapshots'
      BY <2>1, <2>3, <3>2, <3>3, <3>4
      DEF RowsInv, TypeInv, TypeOK, Snapshots, InCallback
    <3> QED BY <2>1, <3>5, SameRows
  <2> QED BY <1>4, <2>2, <2>3 DEF CheckLogin
<1>5. CASE Insert(c)
  <2> DEFINE new == [reg |-> nextReg, id |-> AccountName(call[c].id),
                     pw |-> call[c].pw, pubkey |-> call[c].key]
  <2>1. /\ users' = users \cup {new} /\ new.reg = nextReg
        /\ nextReg' = nextReg + 1
        /\ UNCHANGED <<deleted, sessions>>
        /\ Finish(c, "ok")
    BY <1>5 DEF Insert
  <2> HIDE DEF new
  <2>2. nextReg \in Nat /\ \A r \in users \cup deleted : r.reg \in Nat
    BY SizesAssumption DEF RowsInv, TypeInv, TypeOK, Rows
  <2>3. new \notin deleted
    BY <2>1, <2>2 DEF RowsInv, RowsNumbered
  <2>4. RowsNumbered'
    BY <2>1, <2>2, <2>3 DEF RowsInv, RowsNumbered
  <2> QED BY <2>1, <2>4, FinishRows, MoreRows
<1>6. CASE DeleteRows(c)
  <2>1. /\ users' = users \ Matching(c)
        /\ deleted' = deleted \cup Matching(c)
        /\ Matching(c) \subseteq users
        /\ UNCHANGED <<nextReg, sessions>>
        /\ Finish(c, "ok")
    BY <1>6 DEF DeleteRows, Matching
  <2>2. RowsNumbered'
    BY <2>1 DEF RowsInv, RowsNumbered
  <2> QED BY <2>1, <2>2, FinishRows, MoreRows
<1>7. CASE Logout(c)
  <2>1. /\ UNCHANGED <<users, nextReg, deleted>>
        /\ Finish(c, "ok")
        /\ sessions' = [sessions EXCEPT ![call[c].sid].loggedIn = FALSE]
        /\ call[c].sid \in DOMAIN sessions
    BY <1>7 DEF Logout, db, RowsInv, TypeInv, CallsWellFormed
  <2>2. /\ DOMAIN sessions' = DOMAIN sessions
        /\ \A i \in DOMAIN sessions :
             /\ sessions'[i].reg = sessions[i].reg
             /\ sessions'[i].user = sessions[i].user
             /\ sessions'[i].pubkey = sessions[i].pubkey
             /\ sessions'[i].pw = sessions[i].pw
    BY <2>1 DEF RowsInv, TypeInv, TypeOK, Sessions
  <2>3. SessionsAuthenticated'
    BY <2>1, <2>2 DEF RowsInv, SessionsAuthenticated
  <2>4. RowsNumbered'
    BY <2>1 DEF RowsInv, RowsNumbered
  <2> QED BY <2>1, <2>3, <2>4, FinishRows
<1>8. CASE ExposeSession(c)
  <2> DEFINE s == [client |-> c, user |-> AccountName(call[c].id),
                   pubkey |-> row[c].pubkey, loggedIn |-> TRUE,
                   reg |-> row[c].reg, pw |-> call[c].pw]
  <2>1. /\ UNCHANGED <<users, nextReg, deleted>>
        /\ Finish(c, "ok")
        /\ sessions' = Append(sessions, s)
        /\ pc[c] = "expose"
    BY <1>8 DEF ExposeSession, db
  <2>2. \E r \in users \cup deleted :
          /\ r.reg = s.reg /\ r.id = s.user
          /\ r.pubkey = s.pubkey /\ r.pw = s.pw
    BY <2>1 DEF RowsInv, Snapshots
  <2> HIDE DEF s
  <2>3. \A i \in DOMAIN sessions' :
          sessions'[i] = s \/ (i \in DOMAIN sessions /\ sessions'[i] = sessions[i])
    BY <2>1 DEF RowsInv, TypeInv, TypeOK
  <2>4. SessionsAuthenticated'
    BY <2>1, <2>2, <2>3 DEF RowsInv, SessionsAuthenticated
  <2>5. RowsNumbered'
    BY <2>1 DEF RowsInv, RowsNumbered
  <2> QED BY <2>1, <2>4, <2>5, FinishRows
<1> QED
  BY <1>1, <1>2, <1>3, <1>4, <1>5, <1>6, <1>7, <1>8 DEF Handle

LEMMA NextRows == RowsInv /\ [Next]_vars => RowsInv'
<1> SUFFICES ASSUME RowsInv, [Next]_vars
             PROVE  RowsNumbered' /\ Snapshots' /\ SessionsAuthenticated'
  BY NextTypeInv DEF RowsInv
<1>1. CASE \E c \in Clients : Invoke(c) \/ Handle(c) \/ LoseConnection(c)
  BY <1>1, InvokeRows, HandleRows
<1>2. CASE Restart
  <2>1. RowsNumbered' /\ SessionsAuthenticated'
    <3>1. sessions' = <<>> /\ UNCHANGED db
      BY <1>2 DEF Restart
    <3>2. RowsNumbered'
      BY <3>1 DEF db, RowsInv, RowsNumbered
    <3>3. SessionsAuthenticated'
      BY <3>1 DEF SessionsAuthenticated
    <3> QED BY <3>2, <3>3
  <2>2. Snapshots'
    BY <1>2 DEF Restart, db, Snapshots, InCallback
  <2> QED BY <2>1, <2>2
<1>3. CASE UNCHANGED vars
  BY <1>3 DEF vars, RowsInv, RowsNumbered, Snapshots, SessionsAuthenticated
<1> QED BY <1>1, <1>2, <1>3 DEF Next

LEMMA AlwaysRowsInv == Spec => []RowsInv
BY InitRows, NextRows, PTL DEF Spec

\* Every session was opened with the password of a registration and carries
\* the name and the key of that registration.
THEOREM Authentication == Spec => []SessionsAuthenticated
BY AlwaysRowsInv, PTL DEF RowsInv

\* A login made after a deletion is never decided on a deleted row: a row is
\* in the table or deleted but never both, and a login selects from the table.
THEOREM DeletionIsFinal == Spec => []NoLoginAfterDelete
<1>1. RowsInv => NoLoginAfterDelete
  BY DEF RowsInv, Snapshots, NoLoginAfterDelete
<1> QED BY <1>1, AlwaysRowsInv, PTL
-----------------------------------------------------------------------------
(***************************************************************************)
(* Whose rows a session deletes.                                           *)
(***************************************************************************)

\* A session has a normalised name, and a deleteUser that was let in names it.
SessionNames ==
  /\ \A i \in DOMAIN sessions :
       AccountName(sessions[i].user) = sessions[i].user
  /\ \A c \in Clients :
       pc[c] # "queued" /\ call[c].op = "deleteUser" => OwnID(c)

NamesInv == TypeInv /\ SessionNames

\* The names that sessions get are normalised.
LEMMA NamesNormalised ==
  ASSUME NEW id \in IDs
  PROVE  AccountName(AccountName(id)) = AccountName(id)
BY CredentialsAssumption, AccountNameIdempotent DEF IDs

LEMMA InvokeNames ==
  ASSUME NamesInv, NEW c \in Clients, Invoke(c)
  PROVE  SessionNames'
<1>1. PICK k : Send(c, k)
  BY DEF Invoke, CallRegister, CallLogin, CallDelete, CallLogout
<1>2. /\ pc' = [pc EXCEPT ![c] = "queued"]
      /\ call' = [call EXCEPT ![c] = k]
      /\ UNCHANGED sessions
  BY <1>1 DEF Send
<1> QED BY <1>2 DEF NamesInv, TypeInv, TypeOK, SessionNames, OwnID

\* A step of a handler that adds no session and lets no deleteUser in.
LEMMA QuietNames ==
  ASSUME NamesInv, NEW c \in Clients,
         DOMAIN sessions' = DOMAIN sessions,
         \A i \in DOMAIN sessions : sessions'[i].user = sessions[i].user,
         \/ \E r : Finish(c, r)
         \/ pc[c] # "queued" /\ \E label : Goto(c, label)
  PROVE  SessionNames'
<1>1. \A i \in DOMAIN sessions' :
        AccountName(sessions'[i].user) = sessions'[i].user
  BY DEF NamesInv, SessionNames
<1>2. CASE \E r : Finish(c, r)
  <2>1. /\ pc' = [pc EXCEPT ![c] = "idle"]
        /\ call' = [call EXCEPT ![c] = NoCall]
    BY <1>2 DEF Finish
  <2> QED
    BY <1>1, <2>1
    DEF NamesInv, TypeInv, TypeOK, CallsWellFormed, SessionNames, OwnID, NoCall
<1>3. CASE pc[c] # "queued" /\ \E label : Goto(c, label)
  <2>1. PICK label : pc' = [pc EXCEPT ![c] = label] /\ call' = call
    BY <1>3 DEF Goto
  <2> QED
    BY <1>1, <1>3, <2>1
    DEF NamesInv, TypeInv, TypeOK, CallsWellFormed, SessionNames, OwnID
<1> QED BY <1>2, <1>3

LEMMA HandleNames ==
  ASSUME NamesInv, NEW c \in Clients, Handle(c) \/ LoseConnection(c)
  PROVE  SessionNames'
<1>1. CASE Start(c)
  <2>1. /\ pc' = [pc EXCEPT ![c] = "lease"]
        /\ UNCHANGED <<call, sessions>>
        /\ call[c].op = "deleteUser" => OwnID(c)
    BY <1>1 DEF Start, Goto
  <2> QED
    BY <2>1 DEF NamesInv, TypeInv, TypeOK, SessionNames, OwnID
<1>2. CASE \/ RefuseDelete(c) \/ StatementFails(c) \/ Insert(c) \/ DeleteRows(c)
           \/ DenyIsA(c) \/ GarbleEcho(c) \/ LoseConnection(c)
  <2>1. UNCHANGED sessions /\ \E r : Finish(c, r)
    BY <1>2 DEF RefuseDelete, StatementFails, Insert, DeleteRows, DenyIsA,
       GarbleEcho, LoseConnection
  <2> QED BY <2>1, QuietNames
<1>3. CASE \/ Lease(c) \/ CreateTable(c) \/ CheckID(c) \/ CheckLogin(c)
           \/ AnswerIsA(c) \/ AnswerEcho(c)
  <2>1. /\ UNCHANGED sessions
        /\ pc[c] # "queued"
        /\ (\E r : Finish(c, r)) \/ (\E label : Goto(c, label))
    BY <1>3 DEF Lease, CreateTable, CheckID, CheckLogin, AnswerIsA, AnswerEcho
  <2> QED BY <2>1, QuietNames
<1>4. CASE Logout(c)
  <2>1. /\ sessions' = [sessions EXCEPT ![call[c].sid].loggedIn = FALSE]
        /\ \E r : Finish(c, r)
    BY <1>4 DEF Logout
  <2>2. /\ DOMAIN sessions' = DOMAIN sessions
        /\ \A i \in DOMAIN sessions : sessions'[i].user = sessions[i].user
    BY <2>1 DEF NamesInv, TypeInv, TypeOK, Sessions
  <2> QED BY <2>1, <2>2, QuietNames
<1>5. CASE ExposeSession(c)
  <2> DEFINE s == [client |-> c, user |-> AccountName(call[c].id),
                   pubkey |-> row[c].pubkey, loggedIn |-> TRUE,
                   reg |-> row[c].reg, pw |-> call[c].pw]
  <2>1. /\ sessions' = Append(sessions, s)
        /\ call[c].op = "login" /\ call[c].id \in IDs
        /\ pc' = [pc EXCEPT ![c] = "idle"]
        /\ call' = [call EXCEPT ![c] = NoCall]
    BY <1>5 DEF ExposeSession, Finish, NamesInv, TypeInv, CallsWellFormed, AuthOps
  <2>2. AccountName(s.user) = s.user
    BY <2>1, NamesNormalised
  <2> HIDE DEF s
  <2>3. /\ \A i \in DOMAIN sessions :
             i \in DOMAIN sessions' /\ sessions'[i] = sessions[i]
        /\ \A i \in DOMAIN sessions' : i \in DOMAIN sessions \/ sessions'[i] = s
    BY <2>1 DEF NamesInv, TypeInv, TypeOK
  <2>4. \A i \in DOMAIN sessions' :
          AccountName(sessions'[i].user) = sessions'[i].user
    BY <2>2, <2>3 DEF NamesInv, SessionNames
  <2> QED
    BY <2>1, <2>3, <2>4
    DEF NamesInv, TypeInv, TypeOK, CallsWellFormed, SessionNames, OwnID, NoCall
<1> QED BY <1>1, <1>2, <1>3, <1>4, <1>5 DEF Handle

LEMMA NextNames == NamesInv /\ [Next]_vars => NamesInv'
<1> SUFFICES ASSUME NamesInv, [Next]_vars PROVE SessionNames'
  BY NextTypeInv DEF NamesInv
<1>1. CASE \E c \in Clients : Invoke(c) \/ Handle(c) \/ LoseConnection(c)
  BY <1>1, InvokeNames, HandleNames
<1>2. CASE Restart
  <2>1. sessions' = <<>> /\ call' = [c \in Clients |-> NoCall]
    BY <1>2 DEF Restart
  <2>2. DOMAIN sessions' = {}
    BY <2>1
  <2>3. \A c \in Clients : call'[c].op # "deleteUser"
    BY <2>1 DEF NoCall
  <2> QED BY <2>2, <2>3 DEF SessionNames
<1>3. CASE UNCHANGED vars
  BY <1>3 DEF vars, NamesInv, SessionNames, OwnID
<1> QED BY <1>1, <1>2, <1>3 DEF Next

LEMMA InitNames == Init => NamesInv
<1> SUFFICES ASSUME Init PROVE SessionNames
  BY InitTypeInv DEF NamesInv
<1>1. sessions = <<>> /\ call = [c \in Clients |-> NoCall]
  BY DEF Init
<1>2. DOMAIN sessions = {}
  BY <1>1
<1>3. \A c \in Clients : call[c].op # "deleteUser"
  BY <1>1 DEF NoCall
<1> QED BY <1>2, <1>3 DEF SessionNames

LEMMA AlwaysNamesInv == Spec => []NamesInv
BY InitNames, NextNames, PTL DEF Spec

\* Who removes a row: a deleteUser, and the row has the name of its session.
\* That name is normalised and the ID was found equal to it, so normalising it
\* again changes nothing.
LEMMA RowRemoved ==
  ASSUME NamesInv, Next, NEW r \in users \ users'
  PROVE  \E c \in Clients :
           /\ DeleteRows(c)
           /\ pc[c] = "delete" /\ pc'[c] = "idle"
           /\ call[c].sid \in DOMAIN sessions
           /\ AccountName(call[c].id) = sessions[call[c].sid].user
           /\ sessions[call[c].sid].user = r.id
<1>1. PICK c \in Clients : DeleteRows(c)
  BY DEF Next, Invoke, CallRegister, CallLogin, CallDelete, CallLogout, Send,
     Handle, Start, RefuseDelete, Logout, Lease, StatementFails, CreateTable,
     CheckID, Insert, CheckLogin, AnswerIsA, DenyIsA, AnswerEcho, GarbleEcho,
     ExposeSession, LoseConnection, Restart, db
<1>2. pc[c] = "delete" /\ pc'[c] = "idle" /\ r \in Matching(c)
  BY <1>1 DEF DeleteRows, Finish, NamesInv, TypeInv, TypeOK
<1>3. /\ call[c].op = "deleteUser" /\ OwnID(c)
      /\ call[c].sid \in DOMAIN sessions
  BY <1>2 DEF NamesInv, SessionNames, TypeInv, CallsWellFormed
<1>4. r.id = AccountName(call[c].id)
  BY <1>2 DEF Matching
<1>5. AccountName(call[c].id) = sessions[call[c].sid].user
  BY <1>3 DEF OwnID, NamesInv, SessionNames
<1> QED BY <1>1, <1>2, <1>3, <1>4, <1>5

\* Only a deleteUser removes rows, and it removes rows of the name of its
\* session.
THEOREM DeletionByName == Spec => DeletesOwnName
<1> DEFINE A == \A r \in users \ users' :
                  \E c \in Clients : /\ pc[c] = "delete"
                                     /\ pc'[c] = "idle"
                                     /\ sessions[call[c].sid].user = r.id
<1>1. NamesInv /\ [Next]_vars => [A]_vars
  BY RowRemoved
<1> QED BY <1>1, AlwaysNamesInv, PTL DEF Spec, DeletesOwnName

\* No session deletes an account and keeps its own: the registration of the
\* session is either deleted already, or in the table under the name whose
\* rows are being deleted.
THEOREM DeletionIncludesOwn == Spec => DeletesOwnToo
<1> DEFINE A == \A r \in users \ users' :
                  \E c \in Clients : /\ pc[c] = "delete"
                                     /\ pc'[c] = "idle"
                                     /\ \E q \in deleted' :
                                          q.reg = sessions[call[c].sid].reg
<1>1. NamesInv /\ RowsInv /\ [Next]_vars => [A]_vars
  <2> SUFFICES ASSUME NamesInv, RowsInv, Next, NEW r \in users \ users'
               PROVE  \E c \in Clients : /\ pc[c] = "delete"
                                         /\ pc'[c] = "idle"
                                         /\ \E q \in deleted' :
                                              q.reg = sessions[call[c].sid].reg
    OBVIOUS
  <2>1. PICK c \in Clients :
          /\ DeleteRows(c)
          /\ pc[c] = "delete" /\ pc'[c] = "idle"
          /\ call[c].sid \in DOMAIN sessions
          /\ AccountName(call[c].id) = sessions[call[c].sid].user
    BY RowRemoved
  <2>2. PICK q \in users \cup deleted :
          /\ q.reg = sessions[call[c].sid].reg
          /\ q.id = sessions[call[c].sid].user
    BY <2>1 DEF RowsInv, SessionsAuthenticated
  <2>3. q \in users => q \in Matching(c)
    BY <2>1, <2>2 DEF Matching
  <2>4. q \in deleted'
    BY <2>1, <2>2, <2>3 DEF DeleteRows
  <2> QED BY <2>1, <2>2, <2>4
<1> QED BY <1>1, AlwaysNamesInv, AlwaysRowsInv, PTL DEF Spec, DeletesOwnToo
-----------------------------------------------------------------------------
(***************************************************************************)
(* What it takes for a name to get two accounts.                           *)
(***************************************************************************)

\* Whoever is about to insert a row has found none, and there still is none.
InsertFree == \A c \in Clients : pc[c] = "insert" => Matching(c) = {}

ApartInv == TypeInv /\ InsertFree /\ OneAccountPerName

LEMMA InitApart == Init => ApartInv
<1> SUFFICES ASSUME Init PROVE InsertFree /\ OneAccountPerName
  BY InitTypeInv DEF ApartInv
<1> QED BY DEF Init, InsertFree, OneAccountPerName

\* A step that inserts no row, and sends nobody to the INSERT who has not found
\* the name free.
LEMMA NoInsertApart ==
  ASSUME ApartInv, users' \subseteq users,
         \A d \in Clients :
           pc'[d] = "insert" =>
             /\ call'[d] = call[d]
             /\ pc[d] = "insert" \/ Matching(d) = {}
  PROVE  InsertFree' /\ OneAccountPerName'
<1>1. OneAccountPerName'
  BY DEF ApartInv, OneAccountPerName
<1>2. InsertFree'
  BY DEF ApartInv, InsertFree, Matching
<1> QED BY <1>1, <1>2

LEMMA InsertApart ==
  ASSUME ApartInv, RegistrationsApart, NEW c \in Clients, Insert(c)
  PROVE  InsertFree' /\ OneAccountPerName'
<1> DEFINE new == [reg |-> nextReg, id |-> AccountName(call[c].id),
                   pw |-> call[c].pw, pubkey |-> call[c].key]
<1>1. /\ users' = users \cup {new}
      /\ new.id = AccountName(call[c].id)
      /\ pc[c] = "insert"
      /\ pc' = [pc EXCEPT ![c] = "idle"]
      /\ call' = [call EXCEPT ![c] = NoCall]
  BY DEF Insert, Finish
<1> HIDE DEF new
<1>2. \A r \in users : r.id # new.id
  BY <1>1 DEF ApartInv, InsertFree, Matching
<1>3. OneAccountPerName'
  BY <1>1, <1>2 DEF ApartInv, OneAccountPerName
<1>4. \A d \in Clients : pc'[d] = "insert" =>
        /\ d # c /\ pc[d] = "insert" /\ call'[d] = call[d]
        /\ new.id # AccountName(call[d].id)
  BY <1>1 DEF ApartInv, TypeInv, TypeOK, RegistrationsApart
<1>5. InsertFree'
  BY <1>1, <1>4 DEF ApartInv, InsertFree, Matching
<1> QED BY <1>3, <1>5

LEMMA NextApart ==
  ApartInv /\ RegistrationsApart /\ [Next]_vars => ApartInv'
<1> SUFFICES ASSUME ApartInv, RegistrationsApart, [Next]_vars
             PROVE  InsertFree' /\ OneAccountPerName'
  BY NextTypeInv DEF ApartInv
<1>1. CASE UNCHANGED vars
  BY <1>1, NoInsertApart DEF vars, ApartInv, InsertFree
<1>2. CASE Restart
  <2>1. users' = users /\ \A d \in Clients : pc'[d] = "idle"
    BY <1>2 DEF Restart, db
  <2> QED BY <2>1, NoInsertApart
<1>3. ASSUME NEW c \in Clients, NEW k, Send(c, k)
      PROVE  InsertFree' /\ OneAccountPerName'
  <2>1. /\ users' = users
        /\ pc' = [pc EXCEPT ![c] = "queued"]
        /\ call' = [call EXCEPT ![c] = k]
    BY <1>3 DEF Send, db
  <2> QED BY <2>1, NoInsertApart DEF ApartInv, TypeInv, TypeOK
<1>4. ASSUME NEW c \in Clients, NEW r, Finish(c, r), users' \subseteq users
      PROVE  InsertFree' /\ OneAccountPerName'
  <2>1. /\ pc' = [pc EXCEPT ![c] = "idle"]
        /\ call' = [call EXCEPT ![c] = NoCall]
    BY <1>4 DEF Finish
  <2> QED BY <1>4, <2>1, NoInsertApart DEF ApartInv, TypeInv, TypeOK
<1>5. ASSUME NEW c \in Clients, NEW label, Goto(c, label), users' = users,
             label = "insert" => Matching(c) = {}
      PROVE  InsertFree' /\ OneAccountPerName'
  <2>1. pc' = [pc EXCEPT ![c] = label] /\ call' = call
    BY <1>5 DEF Goto
  <2> QED BY <1>5, <2>1, NoInsertApart DEF ApartInv, TypeInv, TypeOK
<1>6. CASE \E c \in Clients : Invoke(c)
  BY <1>3, <1>6 DEF Invoke, CallRegister, CallLogin, CallDelete, CallLogout
<1>7. ASSUME NEW c \in Clients, Handle(c) \/ LoseConnection(c)
      PROVE  InsertFree' /\ OneAccountPerName'
  <2>1. CASE Insert(c)
    BY <2>1, InsertApart
  <2>2. CASE \/ RefuseDelete(c) \/ Logout(c) \/ StatementFails(c)
             \/ DeleteRows(c) \/ DenyIsA(c) \/ GarbleEcho(c)
             \/ ExposeSession(c) \/ LoseConnection(c)
    <3>1. users' \subseteq users /\ \E r : Finish(c, r)
      BY <2>2 DEF RefuseDelete, Logout, StatementFails, DeleteRows, DenyIsA,
         GarbleEcho, ExposeSession, LoseConnection, db
    <3> QED BY <1>4, <3>1
  <2>3. CASE \/ Start(c) \/ Lease(c) \/ CreateTable(c) \/ AnswerIsA(c)
             \/ AnswerEcho(c)
    <3>1. users' = users /\ \E label : Goto(c, label) /\ label # "insert"
      BY <2>3 DEF Start, Lease, CreateTable, AnswerIsA, AnswerEcho, db
    <3> QED BY <1>5, <3>1
  <2>4. CASE CheckID(c)
    <3>1. /\ users' = users
          /\ \/ Finish(c, "ID already exists")
             \/ Matching(c) = {} /\ Goto(c, "insert")
      BY <2>4 DEF CheckID, db
    <3> QED BY <1>4, <1>5, <3>1
  <2>5. CASE CheckLogin(c)
    <3>1. /\ users' = users
          /\ \/ Finish(c, Verdict(c))
             \/ Goto(c, "isA")
      BY <2>5 DEF CheckLogin, db
    <3> QED BY <1>4, <1>5, <3>1
  <2> QED BY <1>7, <2>1, <2>2, <2>3, <2>4, <2>5 DEF Handle
<1> QED BY <1>1, <1>2, <1>6, <1>7 DEF Next

\* With any number of threads and connections, a name gets a second account
\* only if two handlers were between SELECT and INSERT for it at once.
THEOREM RaceNeeded == Spec => DuplicatesNeedRace
<1>1. Init => ApartInv
  BY InitApart
<1>2. ApartInv /\ RegistrationsApart /\ [Next]_vars => ApartInv'
  BY NextApart
<1>3. ApartInv => OneAccountPerName
  BY DEF ApartInv
<1> QED BY <1>1, <1>2, <1>3, PTL DEF Spec, DuplicatesNeedRace

\* A server with a single thread has no such race, however many connections
\* its pool has.
THEOREM OneThreadSuffices ==
  ASSUME Threads = 1
  PROVE  Spec => []OneAccountPerName
<1>1. CapacityInv => RegistrationsApart
  <2> SUFFICES ASSUME CapacityInv, NEW c \in Clients, NEW d \in Clients,
                      c # d, pc[c] = "insert", pc[d] = "insert"
               PROVE  FALSE
    BY DEF RegistrationsApart
  <2>1. {c, d} \subseteq Busy
    BY DEF Busy
  <2>2. IsFiniteSet({c}) /\ Cardinality({c}) = 1
    BY FS_Singleton
  <2>3. Cardinality({c} \cup {d}) = 2
    BY <2>2, FS_AddElement
  <2>4. {c} \cup {d} \subseteq Busy
    BY <2>1
  <2>5. Cardinality({c} \cup {d}) <= Cardinality(Busy)
    BY <2>4, BusyFinite, FS_Subset
  <2> QED BY <2>3, <2>5, BusyFinite DEF CapacityInv, ThreadsBounded
<1> QED BY <1>1, AlwaysCapacityInv, RaceNeeded, PTL DEF DuplicatesNeedRace
=============================================================================
