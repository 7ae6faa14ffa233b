--------------------------- MODULE AccountsProofs ----------------------------
(***************************************************************************)
(* Theorems about Accounts, for every set of clients, every size of the    *)
(* thread pool and of the connection pool, and every bound.                *)
(***************************************************************************)
EXTENDS Accounts, SdcHelperProofs, FiniteSetTheorems

AuthOps == {"registerUser", "login"}

\* A call in progress names an operation and carries what that reads, and its
\* handler is only where that operation can be.
CallsWellFormed ==
  \A c \in Clients :
    /\ (pc[c] = "idle") <=> (call[c].op = "none")
    /\ pc[c] = "lease" => call[c].op \in AuthOps \cup {"deleteUser"}
    /\ pc[c] \in {"create", "select"} => call[c].op \in AuthOps
    /\ pc[c] = "insert" => call[c].op = "registerUser"
    /\ pc[c] = "delete" => call[c].op = "deleteUser"
    /\ pc[c] \in InCallback \cup {"expose"} =>
         call[c].op = "login" /\ row[c] \in Rows
    /\ call[c].op \in AuthOps =>
         /\ call[c].id \in IDs
         /\ call[c].pw \in Passwords
         /\ call[c].key \in Keys
    /\ call[c].op = "deleteUser" => call[c].id \in IDs
    /\ call[c].op \in {"deleteUser", "logout"} => call[c].sid \in DOMAIN sessions

\* The bounds leave room for the calls in progress.
RoomLeft ==
  /\ nextReg + Cardinality(Calling("registerUser")) <= MaxRegistrations + 1
  /\ Len(sessions) + Cardinality(Calling("login")) <= MaxSessions

TypeInv == TypeOK /\ CallsWellFormed /\ RoomLeft
-----------------------------------------------------------------------------
(***************************************************************************)
(* Facts about the operators of the model.                                 *)
(***************************************************************************)

\* The row that a SELECT yields is one of the rows it addresses.
LEMMA FirstMatchExists ==
  ASSUME TypeOK, NEW c \in Clients, Matching(c) # {}
  PROVE  FirstMatch(c) \in Matching(c)
<1> DEFINE Regs == {r.reg : r \in Matching(c)}
<1>1. Matching(c) \subseteq Rows
  BY DEF TypeOK, Matching
<1>2. Regs \in SUBSET Nat /\ Regs # {}
  BY <1>1, SizesAssumption DEF Rows
<1>3. PICK m \in Regs : \A n \in Regs : m <= n
  BY <1>2, LeastNat
<1>4. PICK r \in Matching(c) : \A q \in Matching(c) : r.reg <= q.reg
  BY <1>3
<1> QED BY <1>4 DEF FirstMatch

\* The calls that the bounds count: one more when a client calls, one less
\* when its handler returns.
LEMMA CallingFinite ==
  ASSUME NEW op
  PROVE  IsFiniteSet(Calling(op)) /\ Cardinality(Calling(op)) \in Nat
BY ClientsAssumption, FS_Subset, FS_CardinalityType DEF Calling

LEMMA CallingSend ==
  ASSUME TypeInv, NEW c \in Clients, NEW k, Send(c, k), NEW op \in AuthOps
  PROVE  Cardinality(Calling(op))' =
           Cardinality(Calling(op)) + (IF k.op = op THEN 1 ELSE 0)
<1>1. c \notin Calling(op)
  BY DEF TypeInv, CallsWellFormed, Send, Calling, AuthOps
<1>2. CASE k.op = op
  <2>1. Calling(op)' = Calling(op) \cup {c}
    BY <1>2 DEF TypeInv, TypeOK, Send, Calling
  <2> QED BY <1>1, <1>2, <2>1, CallingFinite, FS_AddElement
<1>3. CASE k.op # op
  <2>1. Calling(op)' = Calling(op)
    BY <1>1, <1>3 DEF TypeInv, TypeOK, Send, Calling
  <2> QED BY <1>3, <2>1, CallingFinite
<1> QED BY <1>2, <1>3

LEMMA CallingFinish ==
  ASSUME TypeInv, NEW c \in Clients, NEW r, Finish(c, r), NEW op \in AuthOps
  PROVE  Cardinality(Calling(op))' =
           Cardinality(Calling(op)) - (IF call[c].op = op THEN 1 ELSE 0)
<1>1. Calling(op)' = Calling(op) \ {c}
  BY DEF TypeInv, TypeOK, Finish, Calling, NoCall, AuthOps
<1>2. c \in Calling(op) <=> call[c].op = op
  BY DEF Calling
<1>3. CASE call[c].op = op
  BY <1>1, <1>2, <1>3, CallingFinite, FS_RemoveElement
<1>4. CASE call[c].op # op
  <2>1. Calling(op)' = Calling(op)
    BY <1>1, <1>2, <1>4
  <2> QED BY <1>4, <2>1, CallingFinite
<1> QED BY <1>3, <1>4
-----------------------------------------------------------------------------
(***************************************************************************)
(* Type correctness.  The three shapes of a step come first: a client      *)
(* calls, a handler goes on, a handler returns.                            *)
(***************************************************************************)
LEMMA RowTypes ==
  /\ \A r \in Rows : r.reg # 0 /\ r # NoRow
  /\ NoCall \in Calls
<1>1. \A r \in Rows : r.reg # 0
  BY SizesAssumption DEF Rows
<1>2. NoRow.reg = 0
  BY DEF NoRow
<1>3. 0 \in 0 .. MaxSessions
  BY SizesAssumption
<1>4. NoCall \in Calls
  BY <1>3 DEF NoCall, Calls, Ops, NoKey
<1> QED BY <1>1, <1>2, <1>4

LEMMA SendType ==
  ASSUME TypeInv, NEW c \in Clients, NEW k \in Calls, Send(c, k),
         k.op # "none",
         k.op \in AuthOps =>
           k.id \in IDs /\ k.pw \in Passwords /\ k.key \in Keys,
         k.op = "deleteUser" => k.id \in IDs,
         k.op \in {"deleteUser", "logout"} => k.sid \in DOMAIN sessions,
         k.op = "registerUser" =>
           nextReg + Cardinality(Calling("registerUser")) <= MaxRegistrations,
         k.op = "login" =>
           Len(sessions) + Cardinality(Calling("login")) < MaxSessions
  PROVE  TypeInv'
<1>1. TypeOK'
  BY DEF TypeInv, TypeOK, Send, db, PCs, Replies
<1>2. CallsWellFormed'
  <2>1. /\ pc' = [pc EXCEPT ![c] = "queued"]
        /\ call' = [call EXCEPT ![c] = k]
        /\ UNCHANGED <<row, sessions>>
    BY DEF Send
  <2> QED
    BY <2>1 DEF TypeInv, TypeOK, CallsWellFormed, InCallback, AuthOps
<1>3. RoomLeft'
  <2>1. /\ nextReg \in Nat /\ Len(sessions) \in Nat
        /\ MaxRegistrations \in Nat /\ MaxSessions \in Nat
        /\ UNCHANGED <<nextReg, sessions>>
    BY SizesAssumption DEF TypeInv, TypeOK, Send, db
  <2>2. \A op \in AuthOps : Cardinality(Calling(op)) \in Nat
    BY CallingFinite
  <2>3. \A op \in AuthOps :
          Cardinality(Calling(op))' =
            Cardinality(Calling(op)) + (IF k.op = op THEN 1 ELSE 0)
    BY CallingSend
  <2> QED BY <2>1, <2>2, <2>3 DEF TypeInv, RoomLeft, AuthOps
<1> QED BY <1>1, <1>2, <1>3 DEF TypeInv

LEMMA GotoType ==
  ASSUME TypeInv, NEW c \in Clients, NEW label \in PCs \ {"idle", "queued"},
         Goto(c, label),
         UNCHANGED <<users, nextReg, deleted, sessions>>,
         created' \in BOOLEAN, leased' \subseteq Clients,
         NEW r \in Rows \cup {NoRow}, row' = [row EXCEPT ![c] = r],
         label = "lease" => call[c].op \in AuthOps \cup {"deleteUser"},
         label \in {"create", "select"} => call[c].op \in AuthOps,
         label = "insert" => call[c].op = "registerUser",
         label = "delete" => call[c].op = "deleteUser",
         label \in InCallback \cup {"expose"} => call[c].op = "login" /\ r \in Rows,
         pc[c] # "idle"
  PROVE  TypeInv'
<1>1. TypeOK'
  BY DEF TypeInv, TypeOK, Goto
<1>2. CallsWellFormed'
  <2>1. /\ pc' = [pc EXCEPT ![c] = label]
        /\ UNCHANGED <<call, sessions>>
    BY DEF Goto
  <2> QED BY <2>1 DEF TypeInv, TypeOK, CallsWellFormed
<1>3. RoomLeft'
  BY DEF TypeInv, RoomLeft, Goto, Calling
<1> QED BY <1>1, <1>2, <1>3 DEF TypeInv

LEMMA FinishType ==
  ASSUME TypeInv, NEW c \in Clients, pc[c] # "idle",
         NEW r \in Replies, Finish(c, r),
         users' \subseteq Rows, deleted' \subseteq Rows, created' \in BOOLEAN,
         nextReg' \in Nat, nextReg' >= nextReg,
         nextReg' <= nextReg + (IF call[c].op = "registerUser" THEN 1 ELSE 0),
         sessions' \in Seq(Sessions), Len(sessions') >= Len(sessions),
         Len(sessions') <= Len(sessions) + (IF call[c].op = "login" THEN 1 ELSE 0)
  PROVE  TypeInv'
<1>1. RoomLeft'
  <2>1. /\ nextReg \in Nat /\ Len(sessions) \in Nat /\ Len(sessions') \in Nat
        /\ MaxRegistrations \in Nat /\ MaxSessions \in Nat
    BY SizesAssumption DEF TypeInv, TypeOK
  <2>2. \A op \in AuthOps : Cardinality(Calling(op)) \in Nat
    BY CallingFinite
  <2>3. \A op \in AuthOps :
          Cardinality(Calling(op))' =
            Cardinality(Calling(op)) - (IF call[c].op = op THEN 1 ELSE 0)
    BY CallingFinish
  <2> QED BY <2>1, <2>2, <2>3 DEF TypeInv, RoomLeft, AuthOps
<1>2. /\ nextReg' \in 1 .. MaxRegistrations + 1
      /\ Len(sessions') <= MaxSessions
  <2>1. /\ nextReg \in 1 .. MaxRegistrations + 1 /\ Len(sessions') \in Nat
        /\ MaxRegistrations \in Nat /\ MaxSessions \in Nat
    BY SizesAssumption DEF TypeInv, TypeOK
  <2>2. \A op \in AuthOps : Cardinality(Calling(op))' \in Nat
    <3>1. \A op \in AuthOps : Calling(op)' \subseteq Clients
      BY DEF Calling
    <3> QED BY <3>1, ClientsAssumption, FS_Subset, FS_CardinalityType
  <2> QED BY <1>1, <2>1, <2>2 DEF RoomLeft, AuthOps
<1>3. TypeOK'
  BY <1>2, RowTypes DEF TypeInv, TypeOK, Finish, PCs
<1>4. CallsWellFormed'
  <2>1. /\ pc' = [pc EXCEPT ![c] = "idle"]
        /\ call' = [call EXCEPT ![c] = NoCall]
        /\ row' = [row EXCEPT ![c] = NoRow]
    BY DEF Finish
  <2>2. DOMAIN sessions \subseteq DOMAIN sessions'
    BY DEF TypeInv, TypeOK
  <2> QED
    BY <2>1, <2>2 DEF TypeInv, TypeOK, CallsWellFormed, InCallback, AuthOps, NoCall
<1> QED BY <1>1, <1>3, <1>4 DEF TypeInv

\* A handler that goes on, or returns, without a change to the tables or to
\* the sessions.
LEMMA GoOnType ==
  ASSUME TypeInv, NEW c \in Clients, pc[c] # "idle",
         NEW label \in PCs \ {"idle", "queued"}, Goto(c, label),
         UNCHANGED <<users, nextReg, deleted, sessions, row>>,
         created' \in BOOLEAN, leased' \subseteq Clients,
         label = "lease" => call[c].op \in AuthOps \cup {"deleteUser"},
         label \in {"create", "select"} => call[c].op \in AuthOps,
         label = "insert" => call[c].op = "registerUser",
         label = "delete" => call[c].op = "deleteUser",
         label \in InCallback \cup {"expose"} =>
           call[c].op = "login" /\ row[c] \in Rows
  PROVE  TypeInv'
<1>1. row[c] \in Rows \cup {NoRow} /\ row' = [row EXCEPT ![c] = row[c]]
  BY DEF TypeInv, TypeOK
<1> QED BY <1>1, GotoType

LEMMA ReturnType ==
  ASSUME TypeInv, NEW c \in Clients, pc[c] # "idle",
         NEW r \in Replies, Finish(c, r), UNCHANGED <<db, sessions>>
  PROVE  TypeInv'
<1>1. /\ users' \subseteq Rows /\ deleted' \subseteq Rows /\ created' \in BOOLEAN
      /\ nextReg' \in Nat /\ nextReg' >= nextReg
      /\ nextReg' <= nextReg + (IF call[c].op = "registerUser" THEN 1 ELSE 0)
      /\ sessions' \in Seq(Sessions)
  BY SizesAssumption DEF TypeInv, TypeOK, db
<1>2. /\ Len(sessions') >= Len(sessions)
      /\ Len(sessions') <= Len(sessions) + (IF call[c].op = "login" THEN 1 ELSE 0)
  BY DEF TypeInv, TypeOK
<1> QED BY <1>1, <1>2, FinishType

LEMMA InitTypeInv == Init => TypeInv
<1> SUFFICES ASSUME Init PROVE TypeInv
  OBVIOUS
<1>0. sessions \in Seq(Sessions) /\ Len(sessions) = 0
  BY DEF Init
<1>1. TypeOK
  <2>1. /\ nextReg \in 1 .. MaxRegistrations + 1
        /\ restarts \in 0 .. MaxRestarts
        /\ Len(sessions) <= MaxSessions
    BY <1>0, SizesAssumption DEF Init
  <2>2. /\ pc \in [Clients -> PCs]
        /\ call \in [Clients -> Calls]
        /\ row \in [Clients -> Rows \cup {NoRow}]
        /\ reply \in [Clients -> Replies]
        /\ gone \in [Clients -> SUBSET Rows]
    BY RowTypes DEF Init, PCs, Replies
  <2>3. /\ users \subseteq Rows /\ deleted \subseteq Rows
        /\ created \in BOOLEAN /\ leased \subseteq Clients
    BY DEF Init
  <2> QED BY <1>0, <2>1, <2>2, <2>3 DEF TypeOK
<1>2. CallsWellFormed
  BY DEF Init, CallsWellFormed, InCallback, NoCall, AuthOps
<1>3. RoomLeft
  <2>1. \A op \in AuthOps : Calling(op) = {}
    BY DEF Init, Calling, NoCall, AuthOps
  <2> QED
    <3>1. nextReg = 1
      BY DEF Init
    <3>2. \A op \in AuthOps : Cardinality(Calling(op)) = 0
      BY <2>1, FS_EmptySet
    <3> QED BY <1>0, <3>1, <3>2, SizesAssumption DEF RoomLeft, AuthOps
<1> QED BY <1>1, <1>2, <1>3 DEF TypeInv

\* The row that login keeps is a row of the table.
LEMMA MatchingRows ==
  ASSUME TypeInv, NEW c \in Clients, Matching(c) # {}
  PROVE  FirstMatch(c) \in Matching(c) /\ FirstMatch(c) \in Rows
BY FirstMatchExists DEF TypeInv, TypeOK, Matching

LEMMA InvokeType ==
  ASSUME TypeInv, NEW c \in Clients, Invoke(c)
  PROVE  TypeInv'
<1>1. CASE \E cr \in Presents[c] : CallRegister(c, cr)
  <2>1. PICK cr \in Credentials : CallRegister(c, cr)
    BY <1>1, CredentialsAssumption
  <2> DEFINE k == [op |-> "registerUser", id |-> cr.id, pw |-> cr.pw,
                   key |-> cr.key, sid |-> 0]
  <2>2. cr.id \in IDs /\ cr.pw \in Passwords /\ cr.key \in Keys
    BY DEF IDs, Passwords, Keys
  <2>3. 0 \in 0 .. MaxSessions
    BY SizesAssumption
  <2>4. k \in Calls
    BY <2>2, <2>3 DEF Calls, Ops
  <2> QED BY <2>1, <2>2, <2>4, SendType DEF CallRegister
<1>2. CASE \E cr \in Presents[c] : CallLogin(c, cr)
  <2>1. PICK cr \in Credentials : CallLogin(c, cr)
    BY <1>2, CredentialsAssumption
  <2> DEFINE k == [op |-> "login", id |-> cr.id, pw |-> cr.pw,
                   key |-> cr.key, sid |-> 0]
  <2>2. cr.id \in IDs /\ cr.pw \in Passwords /\ cr.key \in Keys
    BY DEF IDs, Passwords, Keys
  <2>3. 0 \in 0 .. MaxSessions
    BY SizesAssumption
  <2>4. k \in Calls
    BY <2>2, <2>3 DEF Calls, Ops
  <2> QED BY <2>1, <2>2, <2>4, SendType DEF CallLogin
<1>3. CASE \E sid \in DOMAIN sessions, id \in IDs : CallDelete(c, sid, id)
  <2>1. PICK sid \in DOMAIN sessions, id \in IDs : CallDelete(c, sid, id)
    BY <1>3
  <2> DEFINE k == [op |-> "deleteUser", id |-> id, pw |-> "", key |-> NoKey,
                   sid |-> sid]
  <2>2. sid \in 0 .. MaxSessions
    BY SizesAssumption DEF TypeInv, TypeOK
  <2>3. k \in Calls
    BY <2>2 DEF Calls, Ops
  <2> QED BY <2>1, <2>3, SendType DEF CallDelete, AuthOps
<1>4. CASE \E sid \in DOMAIN sessions : CallLogout(c, sid)
  <2>1. PICK sid \in DOMAIN sessions : CallLogout(c, sid)
    BY <1>4
  <2> DEFINE k == [op |-> "logout", id |-> <<>>, pw |-> "", key |-> NoKey,
                   sid |-> sid]
  <2>2. sid \in 0 .. MaxSessions
    BY SizesAssumption DEF TypeInv, TypeOK
  <2>3. k \in Calls
    BY <2>2 DEF Calls, Ops
  <2> QED BY <2>1, <2>3, SendType DEF CallLogout, AuthOps
<1> QED BY <1>1, <1>2, <1>3, <1>4 DEF Invoke

LEMMA HandleType ==
  ASSUME TypeInv, NEW c \in Clients, Handle(c) \/ LoseConnection(c)
  PROVE  TypeInv'
<1> USE DEF db
<1>0. /\ row[c] \in Rows \cup {NoRow} /\ row = [row EXCEPT ![c] = row[c]]
      /\ users \subseteq Rows /\ deleted \subseteq Rows /\ created \in BOOLEAN
      /\ leased \subseteq Clients
      /\ nextReg \in Nat /\ sessions \in Seq(Sessions) /\ Len(sessions) \in Nat
  BY SizesAssumption DEF TypeInv, TypeOK
<1>1. CASE Start(c)
  BY <1>0, <1>1, GoOnType DEF Start, TypeInv, TypeOK, CallsWellFormed, PCs,
     InCallback, HoldsLease, AtStatement, AuthOps, Calls, Ops
<1>2. CASE RefuseDelete(c)
  BY <1>2, ReturnType DEF RefuseDelete, Replies
<1>3. CASE Logout(c)
  <2> DEFINE sid == call[c].sid
             s == [sessions[sid] EXCEPT !.loggedIn = FALSE]
  <2>1. sid \in DOMAIN sessions /\ sessions[sid] \in Sessions
    BY <1>0, <1>3 DEF Logout, TypeInv, CallsWellFormed
  <2>2. s \in Sessions
    BY <2>1 DEF Sessions
  <2>3. sessions' = [sessions EXCEPT ![sid] = s]
    BY <1>3 DEF Logout
  <2> HIDE DEF s, sid
  <2>4. sessions' \in Seq(Sessions) /\ Len(sessions') = Len(sessions)
    BY <1>0, <2>1, <2>2, <2>3
  <2>5. pc[c] # "idle" /\ Finish(c, "ok") /\ "ok" \in Replies /\ UNCHANGED db
    BY <1>3 DEF Logout, Replies
  <2> QED BY <1>0, <2>4, <2>5, FinishType
<1>4. CASE Lease(c)
  BY <1>0, <1>4, GoOnType DEF Lease, TypeInv, CallsWellFormed, PCs,
     InCallback, HoldsLease, AtStatement
<1>5. CASE StatementFails(c)
  BY <1>5, ReturnType DEF StatementFails, Replies, AtStatement
<1>6. CASE CreateTable(c)
  BY <1>0, <1>6, GoOnType DEF CreateTable, TypeInv, CallsWellFormed, PCs,
     InCallback, HoldsLease, AtStatement
<1>7. CASE CheckID(c)
  BY <1>0, <1>7, GoOnType, ReturnType DEF CheckID, PCs, Replies,
     InCallback, HoldsLease, AtStatement
<1>8. CASE Insert(c)
  <2>1. nextReg \in 1 .. MaxRegistrations
    <3>1. c \in Calling("registerUser")
      BY <1>8 DEF Insert, Calling, TypeInv, CallsWellFormed
    <3>2. Cardinality(Calling("registerUser")) >= 1
      BY <3>1, CallingFinite, FS_EmptySet
    <3> QED
      BY <1>0, <3>2, CallingFinite, SizesAssumption
      DEF TypeInv, TypeOK, RoomLeft
  <2>2. users' \subseteq Rows
    BY <1>0, <1>8, <2>1
    DEF Insert, Rows, Names, TypeInv, CallsWellFormed, AuthOps
  <2>3. call[c].op = "registerUser"
    BY <1>8 DEF Insert, TypeInv, CallsWellFormed
  <2>4. nextReg' = nextReg + 1 /\ UNCHANGED <<created, deleted, sessions>>
    BY <1>8 DEF Insert
  <2>5. pc[c] # "idle" /\ Finish(c, "ok") /\ "ok" \in Replies
    BY <1>8 DEF Insert, Replies
  <2> QED BY <1>0, <2>2, <2>3, <2>4, <2>5, FinishType
<1>9. CASE CheckLogin(c)
  <2>1. CASE Verdict(c) # "ok"
    <3>1. Finish(c, Verdict(c)) /\ UNCHANGED <<db, sessions>>
      BY <1>9, <2>1 DEF CheckLogin
    <3>2. Verdict(c) \in Replies
      BY DEF Verdict, Replies
    <3>3. pc[c] # "idle"
      BY <1>9 DEF CheckLogin
    <3> QED BY <3>1, <3>2, <3>3, ReturnType
  <2>2. CASE Verdict(c) = "ok"
    <3>1. Matching(c) # {}
      BY <2>2 DEF Verdict
    <3>2. FirstMatch(c) \in Rows
      BY <3>1, MatchingRows
    <3> QED BY <1>0, <1>9, <2>2, <3>2, GotoType
            DEF CheckLogin, PCs, InCallback, HoldsLease, AtStatement
  <2> QED BY <2>1, <2>2
<1>10. CASE DeleteRows(c)
    <2>1. /\ users' \subseteq Rows /\ deleted' \subseteq Rows
        /\ UNCHANGED <<nextReg, created, sessions>>
    BY <1>0, <1>10 DEF DeleteRows, Matching
  <2>2. pc[c] # "idle" /\ Finish(c, "ok") /\ "ok" \in Replies
    BY <1>10 DEF DeleteRows, Replies
  <2> QED BY <1>0, <2>1, <2>2, FinishType
<1>11. CASE AnswerIsA(c)
  BY <1>0, <1>11, GoOnType DEF AnswerIsA, TypeInv, CallsWellFormed, PCs,
     InCallback, HoldsLease, AtStatement
<1>12. CASE DenyIsA(c)
  BY <1>12, ReturnType DEF DenyIsA, Replies
<1>13. CASE AnswerEcho(c)
  BY <1>0, <1>13, GoOnType DEF AnswerEcho, TypeInv, CallsWellFormed, PCs,
     InCallback, HoldsLease, AtStatement
<1>14. CASE GarbleEcho(c)
  BY <1>14, ReturnType DEF GarbleEcho, Replies
<1>15. CASE ExposeSession(c)
  <2>1. /\ call[c].op = "login"
        /\ call[c].id \in IDs /\ call[c].pw \in Passwords
        /\ row[c] \in Rows
    BY <1>15 DEF ExposeSession, TypeInv, CallsWellFormed, AuthOps
  <2> DEFINE s == [client |-> c, user |-> AccountName(call[c].id),
                   pubkey |-> row[c].pubkey, loggedIn |-> TRUE,
                   reg |-> row[c].reg, pw |-> call[c].pw]
  <2>2. s \in Sessions
    BY <2>1 DEF Sessions, Rows, Names
  <2>3. sessions' = Append(sessions, s)
    BY <1>15 DEF ExposeSession
  <2> HIDE DEF s
  <2>4. sessions' \in Seq(Sessions) /\ Len(sessions') = Len(sessions) + 1
    BY <1>0, <2>2, <2>3
  <2> QED
    <3>1. pc[c] # "idle" /\ Finish(c, "ok") /\ "ok" \in Replies
      BY <1>15 DEF ExposeSession, Replies
    <3>2. UNCHANGED db
      BY <1>15 DEF ExposeSession
    <3> QED BY <1>0, <2>1, <2>4, <3>1, <3>2, FinishType
<1>16. CASE LoseConnection(c)
  BY <1>16, ReturnType DEF LoseConnection, InCallback, Replies
<1> QED
  BY <1>1, <1>2, <1>3, <1>4, <1>5, <1>6, <1>7, <1>8, <1>9, <1>10, <1>11,
     <1>12, <1>13, <1>14, <1>15, <1>16 DEF Handle

LEMMA RestartType ==
  ASSUME TypeInv, Restart
  PROVE  TypeInv'
<1>1. TypeOK'
  <2>0. /\ restarts < MaxRestarts /\ restarts' = restarts + 1
        /\ sessions' \in Seq(Sessions) /\ Len(sessions') = 0
    <3>1. restarts < MaxRestarts /\ restarts' = restarts + 1 /\ sessions' = <<>>
      BY DEF Restart
    <3> QED BY <3>1
  <2>1. Len(sessions') <= MaxSessions
    BY <2>0, SizesAssumption
  <2>2. restarts' \in 0 .. MaxRestarts
    BY <2>0, SizesAssumption DEF TypeInv, TypeOK
  <2>3. /\ pc' \in [Clients -> PCs]
        /\ call' \in [Clients -> Calls]
        /\ row' \in [Clients -> Rows \cup {NoRow}]
        /\ reply' \in [Clients -> Replies]
        /\ gone' \in [Clients -> SUBSET Rows]
    BY RowTypes DEF TypeInv, TypeOK, Restart, PCs, Replies
  <2>4. leased' \subseteq Clients /\ UNCHANGED db
    BY DEF Restart
  <2> QED BY <2>0, <2>1, <2>2, <2>3, <2>4 DEF TypeInv, TypeOK, db
<1>2. CallsWellFormed'
  BY DEF Restart, CallsWellFormed, InCallback, NoCall, AuthOps
<1>3. RoomLeft'
  <2>1. \A op \in AuthOps : Calling(op)' = {}
    BY DEF Restart, Calling, NoCall, AuthOps
  <2>2. \A op \in AuthOps : Cardinality(Calling(op))' = 0
    BY <2>1, FS_EmptySet
  <2> QED
    <3>1. Len(sessions') = 0
      BY DEF Restart
    <3> QED
      BY <1>1, <2>2, <3>1, SizesAssumption DEF RoomLeft, AuthOps, TypeOK
<1> QED BY <1>1, <1>2, <1>3 DEF TypeInv

LEMMA NextTypeInv == TypeInv /\ [Next]_vars => TypeInv'
<1> SUFFICES ASSUME TypeInv, [Next]_vars PROVE TypeInv'
  OBVIOUS
<1>1. CASE Next
  BY <1>1, InvokeType, HandleType, RestartType DEF Next
<1>2. CASE UNCHANGED vars
  BY <1>2 DEF vars, TypeInv, TypeOK, CallsWellFormed, RoomLeft, Calling
<1> QED BY <1>1, <1>2

LEMMA AlwaysTypeInv == Spec => []TypeInv
BY InitTypeInv, NextTypeInv, PTL DEF Spec

\* Every variable keeps its type, whatever the clients call, and the bounds
\* never stop a handler that is under way.
THEOREM TypeCorrect == Spec => []TypeOK
BY AlwaysTypeInv, PTL DEF TypeInv
=============================================================================
