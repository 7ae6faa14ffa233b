------------------------------ MODULE SdcHelper ------------------------------
(***************************************************************************)
(* The IDs of SDC and the helper that takes them apart                     *)
(* (src/common/sdcHelper.cpp).  A full ID is a name, "@" and the host name *)
(* of a server.  An ID is a sequence of characters here because what the   *)
(* helper returns depends on where the separators stand.                   *)
(***************************************************************************)
EXTENDS Naturals, Sequences

Sep  == "@"
npos == 0

HasSep(id) == \E i \in DOMAIN id : id[i] = Sep

\* Variant of find that looks for the last separator, as string::rfind does.
rfind(id) == IF HasSep(id)
             THEN CHOOSE i \in DOMAIN id :
                    id[i] = Sep /\ \A j \in DOMAIN id : j > i => id[j] # Sep
             ELSE npos

\* The position of the first separator of an ID, npos if there is none.
find(id) == IF HasSep(id)
            THEN CHOOSE i \in DOMAIN id :
                   id[i] = Sep /\ \A j \in DOMAIN id : j < i => id[j] # Sep
            ELSE npos

getNameFromID(id) ==
  IF find(id) # npos THEN SubSeq(id, 1, find(id) - 1) ELSE <<>>

getServerFromID(id) ==
  IF find(id) # npos THEN SubSeq(id, find(id) + 1, Len(id)) ELSE <<>>

isValidID(id) == getNameFromID(id) # <<>> /\ getServerFromID(id) # <<>>

\* The name under which an account is stored.  registerUser, login and
\* deleteUser each compute it in the same way: the name of a full ID, and any
\* other ID as it is.
AccountName(id) == IF isValidID(id) THEN getNameFromID(id) ELSE id
=============================================================================
