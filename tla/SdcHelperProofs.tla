--------------------------- MODULE SdcHelperProofs ---------------------------
(***************************************************************************)
(* What the helper for IDs returns, for every ID.                          *)
(***************************************************************************)
EXTENDS SdcHelper, TLAPS, WellFoundedInduction

\* A set of natural numbers that is not empty has a least member.
LEMMA LeastNat ==
  ASSUME NEW S \in SUBSET Nat, S # {}
  PROVE  \E m \in S : \A n \in S : m <= n
<1>1. IsWellFoundedOn(OpToRel(<, Nat), Nat)
  BY NatLessThanWellFounded
<1>2. PICK m \in S : \A n \in S : ~ (<<n, m>> \in OpToRel(<, Nat))
  BY <1>1, WFMin
<1>3. \A n \in S : ~ (n < m)
  BY <1>2 DEF OpToRel
<1> QED BY <1>3

\* find yields a position of the ID that holds a separator and has none
\* before it, or npos when the ID has no separator.
LEMMA FindFirst ==
  ASSUME NEW id \in Seq(STRING)
  PROVE  \/ find(id) = npos /\ ~ HasSep(id)
         \/ /\ find(id) \in 1 .. Len(id)
            /\ id[find(id)] = Sep
            /\ \A j \in 1 .. Len(id) : j < find(id) => id[j] # Sep
<1>1. CASE ~ HasSep(id)
  BY <1>1 DEF find
<1>2. CASE HasSep(id)
  <2> DEFINE S == {i \in 1 .. Len(id) : id[i] = Sep}
  <2>1. S \in SUBSET Nat /\ S # {}
    BY <1>2 DEF HasSep
  <2>2. PICK m \in S : \A n \in S : m <= n
    BY <2>1, LeastNat
  <2>3. \E i \in DOMAIN id :
          id[i] = Sep /\ \A j \in DOMAIN id : j < i => id[j] # Sep
    BY <2>2
  <2>4. /\ find(id) \in DOMAIN id
        /\ id[find(id)] = Sep
        /\ \A j \in DOMAIN id : j < find(id) => id[j] # Sep
    BY <1>2, <2>3, Zenon DEF find
  <2>5. DOMAIN id = 1 .. Len(id)
    OBVIOUS
  <2> QED BY <2>4, <2>5
<1> QED BY <1>1, <1>2

\* The name of an ID (what stands before the first separator) has no separator.
LEMMA NameHasNoSep ==
  ASSUME NEW id \in Seq(STRING)
  PROVE  /\ getNameFromID(id) \in Seq(STRING)
         /\ ~ HasSep(getNameFromID(id))
<1>1. CASE find(id) = npos
  <2>1. getNameFromID(id) = <<>>
    BY <1>1 DEF getNameFromID
  <2> QED BY <2>1 DEF HasSep
<1>2. CASE find(id) # npos
  <2> DEFINE k == find(id)
  <2>1. /\ k \in 1 .. Len(id)
        /\ \A j \in 1 .. Len(id) : j < k => id[j] # Sep
    BY <1>2, FindFirst
  <2>2. getNameFromID(id) = SubSeq(id, 1, k - 1)
    BY <1>2 DEF getNameFromID
  <2> HIDE DEF k
  <2>3. /\ SubSeq(id, 1, k - 1) \in Seq(STRING)
        /\ Len(SubSeq(id, 1, k - 1)) = k - 1
        /\ \A j \in 1 .. k - 1 : SubSeq(id, 1, k - 1)[j] = id[j]
    BY <2>1
  <2> DEFINE n == SubSeq(id, 1, k - 1)
  <2> HIDE DEF n
  <2>4. n \in Seq(STRING) /\ DOMAIN n = 1 .. k - 1
    BY <2>1, <2>3 DEF n
  <2>5. \A j \in DOMAIN n : n[j] # Sep
    BY <2>1, <2>3, <2>4 DEF n
  <2> QED BY <2>2, <2>4, <2>5 DEF HasSep, n
<1> QED BY <1>1, <1>2

\* registerUser and login normalise an ID once and keep the result in the
\* session; deleteUser normalises it again.  The second time changes nothing,
\* so both mean the same account.
THEOREM AccountNameIdempotent ==
  ASSUME NEW id \in Seq(STRING)
  PROVE  AccountName(AccountName(id)) = AccountName(id)
<1>1. CASE isValidID(id)
  <2> DEFINE n == getNameFromID(id)
  <2>1. AccountName(id) = n
    BY <1>1 DEF AccountName
  <2>2. n \in Seq(STRING) /\ ~ HasSep(n)
    BY NameHasNoSep
  <2> HIDE DEF n
  <2>3. getNameFromID(n) = <<>>
    BY <2>2, FindFirst DEF getNameFromID, npos, find
  <2>4. AccountName(n) = n
    BY <2>3 DEF AccountName, isValidID
  <2> QED BY <2>1, <2>4
<1>2. CASE ~ isValidID(id)
  BY <1>2 DEF AccountName
<1> QED BY <1>1, <1>2
=============================================================================
