--------------------------- MODULE AccountService ----------------------------
(***************************************************************************)
(* What the account service promises its clients: every call takes effect  *)
(* at one instant between the request and the answer, on a set of accounts *)
(* with at most one account for a name.                                    *)
(*                                                                         *)
(* It has the calls of the interface (src/ice/SecureDistributedChat.ice)   *)
(* with the answers AuthenticationImpl and SessionImpl give to them.  It   *)
(* knows no threads, no connections, no statements and no callback in      *)
(* progress.  Where the unit tests ask for more than the code does, it     *)
(* follows the code: it deletes on a session that has been logged out, and *)
(* it refuses an ID that is not spelled as the session's own name.  What   *)
(* the tests ask for is stated in Accounts (ThrowsAfterLogout and          *)
(* CanDeleteOwnAccount), and is false of it.                               *)
(***************************************************************************)
EXTENDS SdcHelper

CONSTANTS Clients,     \* the processes that call the service
          Callback,    \* how each client's callback object answers
          Calls,       \* the calls a client may make
          NoCall       \* stands for no call

VARIABLES accounts,    \* the registered accounts: id, pw and key
          open,        \* the sessions, in the order in which they were opened
          pending,     \* the call of each client that is not yet answered
          answer       \* the answer to the last call of each client

vars == <<accounts, open, pending, answer>>

Init ==
  /\ accounts = {}
  /\ open = <<>>
  /\ pending = [c \in Clients |-> NoCall]
  /\ answer = [c \in Clients |-> "none"]

Request(c) ==
  /\ pending[c] = NoCall
  /\ pending'[c] \in Calls \ {NoCall}
  /\ pending' = [pending EXCEPT ![c] = pending'[c]]
  /\ answer' = [answer EXCEPT ![c] = "none"]
  /\ UNCHANGED <<accounts, open>>

Answer(c, a) ==
  /\ pending' = [pending EXCEPT ![c] = NoCall]
  /\ answer' = [answer EXCEPT ![c] = a]

Name(c)  == AccountName(pending[c].id)
Known(c) == {a \in accounts : a.id = Name(c)}

\* The accounts the password and the key of a login are good for.
Granted(c) ==
  {a \in Known(c) : a.pw = pending[c].pw /\ pending[c].key \in {"", a.key}}

Register(c) ==
  /\ pending[c].op = "registerUser"
  /\ Known(c) = {}
  /\ accounts' = accounts \cup
       {[id |-> Name(c), pw |-> pending[c].pw, key |-> pending[c].key]}
  /\ Answer(c, "ok")
  /\ UNCHANGED open

RefuseRegister(c) ==
  /\ pending[c].op = "registerUser"
  /\ Known(c) # {}
  /\ Answer(c, "ID already exists")
  /\ UNCHANGED <<accounts, open>>

Login(c) ==
  /\ pending[c].op = "login"
  /\ Callback[c] = "valid"
  /\ \E a \in Granted(c) :
       open' = Append(open, [client |-> c, user |-> a.id, pubkey |-> a.key,
                             loggedIn |-> TRUE])
  /\ Answer(c, "ok")
  /\ UNCHANGED accounts

RefuseLogin(c, a) ==
  /\ pending[c].op = "login"
  /\ \/ a = "unknown ID" /\ Known(c) = {}
     \/ /\ a = "invalid password"
        /\ \E k \in Known(c) : k.pw # pending[c].pw
     \/ /\ a = "public key can't change"
        /\ \E k \in Known(c) : /\ k.pw = pending[c].pw
                               /\ pending[c].key \notin {"", k.key}
  /\ Answer(c, a)
  /\ UNCHANGED <<accounts, open>>

\* The password is checked before the callback is tested.
RefuseCallback(c, a) ==
  /\ pending[c].op = "login"
  /\ Granted(c) # {}
  /\ \/ a = "connection lost"
     \/ a = "echo not working" /\ Callback[c] = "wrong"
     \/ a = "callback failed" /\ Callback[c] = "invalid"
  /\ Answer(c, a)
  /\ UNCHANGED <<accounts, open>>

Own(c) == pending[c].id = open[pending[c].sid].user

\* Whether the session is logged in makes no difference, contrary to the test
\* ThrowAfterLogout (src/tests/server/session.cpp:59).
Delete(c) ==
  /\ pending[c].op = "deleteUser"
  /\ Own(c)
  /\ accounts' = {a \in accounts : a.id # open[pending[c].sid].user}
  /\ Answer(c, "ok")
  /\ UNCHANGED open

RefuseDelete(c) ==
  /\ pending[c].op = "deleteUser"
  /\ ~ Own(c)
  /\ Answer(c, "not permitted")
  /\ UNCHANGED <<accounts, open>>

Logout(c) ==
  /\ pending[c].op = "logout"
  /\ open' = [open EXCEPT ![pending[c].sid].loggedIn = FALSE]
  /\ Answer(c, "ok")
  /\ UNCHANGED accounts

\* The server is started again.  The accounts stay, the sessions are gone, and
\* a call that was pending had no effect.
Restart ==
  /\ open' = <<>>
  /\ pending' = [c \in Clients |-> NoCall]
  /\ answer' = [c \in Clients |-> IF pending[c] = NoCall THEN answer[c]
                                  ELSE "connection lost"]
  /\ UNCHANGED accounts

Refusals == {"unknown ID", "invalid password", "public key can't change",
             "connection lost", "echo not working", "callback failed"}

Next ==
  \/ \E c \in Clients :
       \/ Request(c)
       \/ Register(c)
       \/ RefuseRegister(c)
       \/ Login(c)
       \/ \E a \in Refusals : RefuseLogin(c, a) \/ RefuseCallback(c, a)
       \/ Delete(c)
       \/ RefuseDelete(c)
       \/ Logout(c)
  \/ Restart

Spec == Init /\ [][Next]_vars
=============================================================================
