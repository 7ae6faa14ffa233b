----------------------------- MODULE MCAccounts ------------------------------
(***************************************************************************)
(* Instances of Accounts for TLC.                                          *)
(***************************************************************************)
EXTENDS Accounts

CONSTANTS c1, c2, c3

\* "a@h" is a full ID, "a@h@x" one with a second separator, "a" a bare name:
\* all three belong to the account "a".
FullID  == <<"a", "@", "h">>
TwiceID == <<"a", "@", "h", "@", "x">>
BareID  == <<"a">>

MCCredentials ==
  {[id |-> FullID,  pw |-> "p", key |-> "k"],
   [id |-> TwiceID, pw |-> "q", key |-> "k"],
   [id |-> BareID,  pw |-> "p", key |-> ""]}

BareCredential == {[id |-> BareID, pw |-> "p", key |-> "k"]}

FullCredential == {[id |-> FullID, pw |-> "p", key |-> "k"]}

\* Every client may present all there are, or each keeps to one of its own.
Own1 == [id |-> TwiceID, pw |-> "p", key |-> "k"]
Own2 == [id |-> FullID,  pw |-> "q", key |-> "k"]
Own3 == [id |-> BareID,  pw |-> "p", key |-> ""]

OwnCredentials == {Own1, Own2, Own3}

Any    == [c \in Clients |-> Credentials]
OwnOne == [c \in Clients |-> CASE c = c1 -> {Own1}
                               [] c = c2 -> {Own2}
                               [] OTHER  -> {Own3}]

AllValid    == [c \in Clients |-> "valid"]
AllInvalid  == [c \in Clients |-> "invalid"]
OneSilent   == [c \in Clients |-> IF c = c2 THEN "silent" ELSE "valid"]
WrongAndNot == [c \in Clients |-> CASE c = c1 -> "valid"
                                    [] c = c2 -> "wrong"
                                    [] OTHER  -> "invalid"]
=============================================================================
