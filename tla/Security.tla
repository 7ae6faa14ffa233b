------------------------------- MODULE Security ------------------------------
(***************************************************************************)
(* Encryption of data for the owner of a key (src/common/Security.cpp).    *)
(* encryptRSA draws a symmetric key, encrypts the data with it and puts    *)
(* the symmetric key, encrypted with RSA, in front; decryptRSA cuts the    *)
(* two apart again.  The ciphers are QCA's: what is modelled is what the   *)
(* code hands to them, in which order, and when it refuses.                *)
(***************************************************************************)
EXTENDS ByteSeqs

CONSTANTS
  m_rsa, m_aes,             \* what the constructor found to be supported
  Keys,                     \* key pairs; a key may be null, or half of a pair
  canEncrypt, canDecrypt,
  bitSize,
  maximumEncryptSize,       \* the longest message OAEP leaves room for
  PublicEncrypt(_, _),      \* PublicKey::encrypt
  PrivateDecrypt(_, _),     \* PrivateKey::decrypt, a result as below
  Process(_, _, _, _)       \* Cipher::process after setup(dir, key, iv)

\* A result: the bytes that a function returns, or its exception.
Returns(bytes)    == [threw |-> FALSE, bytes |-> bytes]
SecurityException == [threw |-> TRUE, bytes |-> <<>>]

\* iv is the initialisation vector that encoding draws, as long as the key.
processAES(key, data, dir, iv) ==
  LET symkey == byteSeqToByteArray(key)
      array  == byteSeqToByteArray(data)
      size   == Len(symkey)
  IN  CASE ~ m_aes \/ size = 0 -> SecurityException
        [] m_aes /\ size # 0 /\ dir = "Encode" ->
             Returns(byteArraytoByteSeq(iv \o Process(dir, symkey, iv, array)))
        [] m_aes /\ size # 0 /\ dir = "Decode" ->
             Returns(byteArraytoByteSeq(
                       Process(dir, symkey, left(array, size), mid(array, size))))

encryptAES(key, data, iv) == processAES(key, data, "Encode", iv)
decryptAES(key, data)     == processAES(key, data, "Decode", <<>>)

\* The keys that may be drawn for a size.
genAESKey(size) == IF m_aes THEN [1 .. size -> Byte] ELSE {}

\* symkey is the key drawn, one of genAESKey(maximumEncryptSize[key]).
encryptRSA(key, data, symkey, iv) ==
  LET encdata == encryptAES(symkey, data, iv)
      block   == PublicEncrypt(key, byteSeqToByteArray(symkey))
  IN  IF ~ (m_rsa /\ m_aes) \/ ~ canEncrypt[key] \/ encdata.threw
      THEN SecurityException
      ELSE Returns(byteArraytoByteSeq(block \o byteSeqToByteArray(encdata.bytes)))

decryptRSA(key, data) ==
  LET encdata == byteSeqToByteArray(data)
      size    == bitSize[key] \div 8
      symkey  == PrivateDecrypt(key, left(encdata, size))
  IN  IF ~ (m_rsa /\ m_aes) \/ ~ canDecrypt[key] \/ symkey.threw
      THEN SecurityException
      ELSE decryptAES(byteArraytoByteSeq(symkey.bytes),
                      byteArraytoByteSeq(mid(encdata, size)))
-----------------------------------------------------------------------------
(***************************************************************************)
(* What QCA does, as far as the code relies on it.                         *)
(***************************************************************************)
\* An RSA block has as many bytes as the modulus needs.
BlockSize(key) == (bitSize[key] + 7) \div 8

\* The block of a message that is not too long gives the message back.
BlocksOpen ==
  \A key \in Keys :
    /\ bitSize[key] \in Nat \ {0}
    /\ \A msg \in Seq(Char) : Len(msg) <= maximumEncryptSize[key] =>
         /\ PublicEncrypt(key, msg) \in Seq(Char)
         /\ Len(PublicEncrypt(key, msg)) = BlockSize(key)
         /\ PrivateDecrypt(key, PublicEncrypt(key, msg)) = Returns(msg)

\* Under the same key and vector, decoding undoes encoding.
CipherInverts ==
  \A key, iv, msg \in Seq(Char) :
    /\ Process("Encode", key, iv, msg) \in Seq(Char)
    /\ Process("Decode", key, iv, Process("Encode", key, iv, msg)) = msg
=============================================================================
