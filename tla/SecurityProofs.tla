---------------------------- MODULE SecurityProofs ---------------------------
(***************************************************************************)
(* Encrypted data can be decrypted, for every key whose size is a multiple *)
(* of eight bits.  With another key the block is cut in the wrong place.   *)
(***************************************************************************)
EXTENDS Security, TLAPS

\* Going to a signed char and back keeps a byte, and the other way round.
LEMMA CharsAreBytes ==
  /\ \A b \in Byte : toChar(b) \in Char /\ toByte(toChar(b)) = b
  /\ \A c \in Char : toByte(c) \in Byte /\ toChar(toByte(c)) = c
<1>1. \A b \in Byte : toChar(b) \in Char /\ toByte(toChar(b)) = b
  <2> SUFFICES ASSUME NEW b \in 0 .. 255
               PROVE  toChar(b) \in Char /\ toByte(toChar(b)) = b
    BY DEF Byte
  <2>1. CASE b < 128
    BY <2>1 DEF Char, toChar, toByte
  <2>2. CASE ~ (b < 128)
    <3>1. (b - 256) % 256 = b
      OBVIOUS
    <3> QED BY <2>2, <3>1 DEF Char, toChar, toByte
  <2> QED BY <2>1, <2>2
<1>2. \A c \in Char : toByte(c) \in Byte /\ toChar(toByte(c)) = c
  <2> SUFFICES ASSUME NEW c \in -128 .. 127
               PROVE  toByte(c) \in Byte /\ toChar(toByte(c)) = c
    BY DEF Char
  <2>1. CASE c >= 0
    <3>1. c % 256 = c
      BY <2>1
    <3> QED BY <2>1, <3>1 DEF Byte, toChar, toByte
  <2>2. CASE c < 0
    <3>1. c % 256 = c + 256
      BY <2>2
    <3> QED BY <2>2, <3>1 DEF Byte, toChar, toByte
  <2> QED BY <2>1, <2>2
<1> QED BY <1>1, <1>2

\* A byte sequence becomes an array of as many characters.
LEMMA ToArray ==
  ASSUME NEW bytes \in Seq(Byte)
  PROVE  /\ byteSeqToByteArray(bytes) \in Seq(Char)
         /\ Len(byteSeqToByteArray(bytes)) = Len(bytes)
         /\ \A i \in 1 .. Len(bytes) : byteSeqToByteArray(bytes)[i] = toChar(bytes[i])
<1>1. \A i \in 1 .. Len(bytes) : bytes[i] \in Byte
  OBVIOUS
<1>2. \A i \in 1 .. Len(bytes) : toChar(bytes[i]) \in Char
  BY <1>1, CharsAreBytes
<1> QED BY <1>2 DEF byteSeqToByteArray

\* An array becomes a byte sequence of its length.
LEMMA ToByteSeq ==
  ASSUME NEW arr \in Seq(Char)
  PROVE  /\ byteArraytoByteSeq(arr) \in Seq(Byte)
         /\ Len(byteArraytoByteSeq(arr)) = Len(arr)
         /\ \A i \in 1 .. Len(arr) : byteArraytoByteSeq(arr)[i] = toByte(arr[i])
<1>1. \A i \in 1 .. Len(arr) : arr[i] \in Char
  OBVIOUS
<1>2. \A i \in 1 .. Len(arr) : toByte(arr[i]) \in Byte
  BY <1>1, CharsAreBytes
<1> QED BY <1>2 DEF byteArraytoByteSeq, bStringToByteSeq

\* Two sequences of the same length and the same elements are equal.
LEMMA SameElements ==
  ASSUME NEW S, NEW s \in Seq(S), NEW t \in Seq(S),
         Len(s) = Len(t), \A i \in 1 .. Len(s) : s[i] = t[i]
  PROVE  s = t
OBVIOUS

\* The conversions between byte sequences and arrays undo each other, whatever
\* the bytes are: none is lost to the sign of a char.
THEOREM ConversionsInverse ==
  /\ \A bytes \in Seq(Byte) : byteArraytoByteSeq(byteSeqToByteArray(bytes)) = bytes
  /\ \A arr \in Seq(Char) : byteSeqToByteArray(byteArraytoByteSeq(arr)) = arr
<1>1. ASSUME NEW bytes \in Seq(Byte)
      PROVE  byteArraytoByteSeq(byteSeqToByteArray(bytes)) = bytes
  <2> DEFINE arr == byteSeqToByteArray(bytes)
             back == byteArraytoByteSeq(arr)
  <2>1. /\ arr \in Seq(Char) /\ Len(arr) = Len(bytes)
        /\ \A i \in 1 .. Len(bytes) : arr[i] = toChar(bytes[i])
    BY ToArray
  <2> HIDE DEF arr
  <2>2. /\ back \in Seq(Byte) /\ Len(back) = Len(bytes)
        /\ \A i \in 1 .. Len(bytes) : back[i] = toByte(arr[i])
    BY <2>1, ToByteSeq
  <2>3. \A i \in 1 .. Len(bytes) : bytes[i] \in Byte
    OBVIOUS
  <2> HIDE DEF back
  <2>4. \A i \in 1 .. Len(back) : back[i] = bytes[i]
    BY <2>1, <2>2, <2>3, CharsAreBytes
  <2>5. back = bytes
    BY <2>2, <2>4, SameElements
  <2> QED BY <2>5 DEF back, arr
<1>2. ASSUME NEW arr \in Seq(Char)
      PROVE  byteSeqToByteArray(byteArraytoByteSeq(arr)) = arr
  <2> DEFINE bytes == byteArraytoByteSeq(arr)
             back  == byteSeqToByteArray(bytes)
  <2>1. /\ bytes \in Seq(Byte) /\ Len(bytes) = Len(arr)
        /\ \A i \in 1 .. Len(arr) : bytes[i] = toByte(arr[i])
    BY ToByteSeq
  <2> HIDE DEF bytes
  <2>2. /\ back \in Seq(Char) /\ Len(back) = Len(arr)
        /\ \A i \in 1 .. Len(arr) : back[i] = toChar(bytes[i])
    BY <2>1, ToArray
  <2>3. \A i \in 1 .. Len(arr) : arr[i] \in Char
    OBVIOUS
  <2> HIDE DEF back
  <2>4. \A i \in 1 .. Len(back) : back[i] = arr[i]
    BY <2>1, <2>2, <2>3, CharsAreBytes
  <2>5. back = arr
    BY <2>2, <2>4, SameElements
  <2> QED BY <2>5 DEF back, bytes
<1> QED BY <1>1, <1>2

\* What was put together at n is cut apart at n.
LEMMA CutsApart ==
  ASSUME NEW a \in Seq(Char), NEW b \in Seq(Char)
  PROVE  left(a \o b, Len(a)) = a /\ mid(a \o b, Len(a)) = b
<1> DEFINE ab == a \o b
<1>1. /\ ab \in Seq(Char)
      /\ Len(ab) = Len(a) + Len(b)
      /\ \A i \in 1 .. Len(a) : ab[i] = a[i]
      /\ \A i \in 1 .. Len(b) : ab[Len(a) + i] = b[i]
  OBVIOUS
<1> HIDE DEF ab
<1>2. Len(a) \in Nat /\ Len(b) \in Nat
  OBVIOUS
<1>3. left(ab, Len(a)) = a
  <2>1. CASE Len(b) = 0
    <3>1. ab = a
      BY <1>1, <1>2, <2>1, SameElements
    <3> QED BY <3>1, <1>2 DEF left
  <2>2. CASE Len(b) > 0
    <3> DEFINE s == SubSeq(ab, 1, Len(a))
    <3>1. /\ s \in Seq(Char) /\ Len(s) = Len(a)
          /\ \A i \in 1 .. Len(a) : s[i] = ab[i]
      BY <1>1, <1>2, <2>2
    <3>2. left(ab, Len(a)) = s
      BY <1>1, <1>2, <2>2 DEF left
    <3> HIDE DEF s
    <3>3. s = a
      BY <3>1, <1>1, <1>2, SameElements
    <3> QED BY <3>2, <3>3
  <2> QED BY <2>1, <2>2, <1>2
<1>4. mid(ab, Len(a)) = b
  <2> DEFINE s == SubSeq(ab, Len(a) + 1, Len(ab))
  <2>1. s \in Seq(Char) /\ Len(s) = Len(b)
    BY <1>1, <1>2
  <2>2. \A i \in 1 .. Len(b) : s[i] = ab[Len(a) + i]
    BY <1>1, <1>2
  <2> HIDE DEF s
  <2>3. s = b
    BY <2>1, <2>2, <1>1, SameElements
  <2> QED BY <2>3 DEF mid, s
<1> QED BY <1>3, <1>4 DEF ab

\* What encryptAES returns for a key that is not empty: the vector, and the
\* data as the cipher has left them.
LEMMA EncryptAES ==
  ASSUME m_aes, CipherInverts,
         NEW key \in Seq(Byte), key # <<>>,
         NEW data \in Seq(Byte),
         NEW iv \in Seq(Char)
  PROVE  LET out == Process("Encode", byteSeqToByteArray(key), iv,
                            byteSeqToByteArray(data))
         IN  /\ out \in Seq(Char)
             /\ encryptAES(key, data, iv) = Returns(byteArraytoByteSeq(iv \o out))
<1> DEFINE symkey == byteSeqToByteArray(key)
           array  == byteSeqToByteArray(data)
           out    == Process("Encode", symkey, iv, array)
<1>1. symkey \in Seq(Char) /\ array \in Seq(Char) /\ Len(symkey) = Len(key)
  BY ToArray
<1>2. Len(symkey) # 0
  BY <1>1
<1> HIDE DEF symkey, array
<1>3. out \in Seq(Char)
  BY <1>1 DEF CipherInverts
<1>4. encryptAES(key, data, iv) = Returns(byteArraytoByteSeq(iv \o out))
  <2>1. encryptAES(key, data, iv) = processAES(key, data, "Encode", iv)
    BY DEF encryptAES
  <2> QED BY <2>1, <1>2 DEF processAES, symkey, array
<1> QED BY <1>3, <1>4 DEF symkey, array

\* decryptAES gives back what encryptAES was given, whatever vector it drew:
\* the vector travels in front of the data and is cut off at the key's length.
THEOREM DecryptAESInverts ==
  ASSUME m_aes, CipherInverts,
         NEW key \in Seq(Byte), key # <<>>,
         NEW data \in Seq(Byte),
         NEW iv \in Seq(Char), Len(iv) = Len(key)
  PROVE  /\ ~ encryptAES(key, data, iv).threw
         /\ decryptAES(key, encryptAES(key, data, iv).bytes) = Returns(data)
<1> DEFINE symkey == byteSeqToByteArray(key)
           array  == byteSeqToByteArray(data)
           out    == Process("Encode", symkey, iv, array)
           framed == iv \o out
           sent   == byteArraytoByteSeq(framed)
<1>1. symkey \in Seq(Char) /\ array \in Seq(Char) /\ Len(symkey) = Len(key)
  BY ToArray
<1>2. out \in Seq(Char) /\ encryptAES(key, data, iv) = Returns(sent)
  BY EncryptAES
<1>3. ~ encryptAES(key, data, iv).threw /\ encryptAES(key, data, iv).bytes = sent
  BY <1>2 DEF Returns
<1>4. Len(symkey) # 0
  BY <1>1
<1>5. byteArraytoByteSeq(array) = data
  BY ConversionsInverse
<1> HIDE DEF symkey, array
<1>6. Process("Decode", symkey, iv, out) = array
  BY <1>1 DEF CipherInverts
<1> HIDE DEF out
<1>7. framed \in Seq(Char)
  BY <1>2
<1>8. left(framed, Len(symkey)) = iv /\ mid(framed, Len(symkey)) = out
  <2>1. left(framed, Len(iv)) = iv /\ mid(framed, Len(iv)) = out
    BY <1>2, CutsApart
  <2> QED BY <2>1, <1>1
<1> HIDE DEF framed
<1>9. byteSeqToByteArray(sent) = framed
  BY <1>7, ConversionsInverse
<1> HIDE DEF sent
<1>10. decryptAES(key, sent) = Returns(data)
  <2>1. decryptAES(key, sent) = processAES(key, sent, "Decode", <<>>)
    BY DEF decryptAES
  <2>2. processAES(key, sent, "Decode", <<>>)
          = Returns(byteArraytoByteSeq(
                      Process("Decode", symkey, left(framed, Len(symkey)),
                              mid(framed, Len(symkey)))))
    BY <1>4, <1>9 DEF processAES, symkey
  <2> QED BY <2>1, <2>2, <1>5, <1>6, <1>8
<1> QED BY <1>3, <1>10

\* A key drawn by genAESKey is a byte sequence of the size asked for.
LEMMA DrawnKey ==
  ASSUME NEW size \in Nat \ {0}, NEW symkey \in genAESKey(size)
  PROVE  /\ m_aes
         /\ symkey \in Seq(Byte) /\ Len(symkey) = size /\ symkey # <<>>
<1>1. m_aes
  BY DEF genAESKey
<1>2. symkey \in [1 .. size -> Byte]
  BY <1>1 DEF genAESKey
<1>3. symkey \in Seq(Byte) /\ Len(symkey) = size
  BY <1>2
<1> QED BY <1>1, <1>3

\* What encryptRSA sends, as an array: the block, then what encryptAES returns.
LEMMA EncryptRSA ==
  ASSUME m_rsa, BlocksOpen, CipherInverts,
         NEW key \in Keys, canEncrypt[key], maximumEncryptSize[key] \in Nat \ {0},
         NEW symkey \in genAESKey(maximumEncryptSize[key]),
         NEW data \in Seq(Byte),
         NEW iv \in Seq(Char)
  PROVE  LET msg   == byteSeqToByteArray(symkey)
             block == PublicEncrypt(key, msg)
             rest  == encryptAES(symkey, data, iv).bytes
         IN  /\ block \in Seq(Char)
             /\ Len(block) = BlockSize(key)
             /\ PrivateDecrypt(key, block) = Returns(msg)
             /\ rest \in Seq(Byte)
             /\ ~ encryptRSA(key, data, symkey, iv).threw
             /\ encryptRSA(key, data, symkey, iv).bytes \in Seq(Byte)
             /\ byteSeqToByteArray(encryptRSA(key, data, symkey, iv).bytes)
                  = block \o byteSeqToByteArray(rest)
<1> DEFINE msg    == byteSeqToByteArray(symkey)
           block  == PublicEncrypt(key, msg)
           enc    == encryptAES(symkey, data, iv)
           array  == block \o byteSeqToByteArray(enc.bytes)
<1>1. m_aes /\ symkey \in Seq(Byte) /\ symkey # <<>>
      /\ Len(symkey) = maximumEncryptSize[key]
  BY DrawnKey
<1>2. msg \in Seq(Char) /\ Len(msg) = maximumEncryptSize[key]
  BY <1>1, ToArray
<1> HIDE DEF msg
<1>3. /\ block \in Seq(Char)
      /\ Len(block) = BlockSize(key)
      /\ PrivateDecrypt(key, block) = Returns(msg)
  BY <1>2 DEF BlocksOpen
<1>4. ~ enc.threw /\ enc.bytes \in Seq(Byte)
  <2> DEFINE out == Process("Encode", msg, iv, byteSeqToByteArray(data))
  <2>1. out \in Seq(Char) /\ enc = Returns(byteArraytoByteSeq(iv \o out))
    BY <1>1, EncryptAES DEF msg
  <2>2. iv \o out \in Seq(Char)
    BY <2>1
  <2>3. byteArraytoByteSeq(iv \o out) \in Seq(Byte)
    BY <2>2, ToByteSeq
  <2> QED BY <2>1, <2>3 DEF Returns
<1>5. array \in Seq(Char)
  BY <1>3, <1>4, ToArray
<1>6. encryptRSA(key, data, symkey, iv) = Returns(byteArraytoByteSeq(array))
  BY <1>1, <1>4 DEF encryptRSA, msg
<1> HIDE DEF array
<1>7. /\ byteArraytoByteSeq(array) \in Seq(Byte)
      /\ byteSeqToByteArray(byteArraytoByteSeq(array)) = array
  BY <1>5, ToByteSeq, ConversionsInverse
<1>8. /\ ~ encryptRSA(key, data, symkey, iv).threw
      /\ encryptRSA(key, data, symkey, iv).bytes = byteArraytoByteSeq(array)
  BY <1>6 DEF Returns
<1> QED BY <1>3, <1>4, <1>7, <1>8 DEF array, msg

\* Rounding up and rounding down agree on a whole number of bytes.
LEMMA WholeBytes ==
  ASSUME NEW bits \in Nat, bits % 8 = 0
  PROVE  bits \div 8 = (bits + 7) \div 8
<1>1. bits = 8 * (bits \div 8)
  OBVIOUS
<1> QED BY <1>1

\* And differ by one on any other number of bits.
LEMMA OddBits ==
  ASSUME NEW bits \in Nat, bits % 8 # 0
  PROVE  bits \div 8 \in Nat /\ (bits + 7) \div 8 = bits \div 8 + 1
OBVIOUS

\* decryptRSA gives back what encryptRSA was given, whatever key and vector
\* were drawn, if the size of the RSA key is a multiple of eight bits and the
\* key leaves room for a message.
THEOREM DecryptRSAInverts ==
  ASSUME m_rsa, BlocksOpen, CipherInverts,
         NEW key \in Keys, canEncrypt[key], canDecrypt[key],
         maximumEncryptSize[key] \in Nat \ {0},
         bitSize[key] % 8 = 0,
         NEW symkey \in genAESKey(maximumEncryptSize[key]),
         NEW data \in Seq(Byte),
         NEW iv \in Seq(Char), Len(iv) = Len(symkey)
  PROVE  decryptRSA(key, encryptRSA(key, data, symkey, iv).bytes) = Returns(data)
<1> DEFINE msg   == byteSeqToByteArray(symkey)
           block == PublicEncrypt(key, msg)
           rest  == encryptAES(symkey, data, iv).bytes
           sent  == encryptRSA(key, data, symkey, iv).bytes
           tail  == byteSeqToByteArray(rest)
           size  == bitSize[key] \div 8
<1>1. m_aes /\ symkey \in Seq(Byte) /\ symkey # <<>>
  BY DrawnKey
<1>2. /\ block \in Seq(Char) /\ Len(block) = BlockSize(key)
      /\ PrivateDecrypt(key, block) = Returns(msg)
      /\ rest \in Seq(Byte)
      /\ byteSeqToByteArray(sent) = block \o tail
  BY EncryptRSA
<1>3. decryptAES(symkey, rest) = Returns(data)
  BY <1>1, DecryptAESInverts
<1>4. byteArraytoByteSeq(msg) = symkey
  BY <1>1, ConversionsInverse
<1>5. size = Len(block)
  <2>1. bitSize[key] \in Nat
    BY DEF BlocksOpen
  <2>2. bitSize[key] \div 8 = (bitSize[key] + 7) \div 8
    BY <2>1, WholeBytes
  <2> QED BY <1>2, <2>2 DEF BlockSize
<1>6. tail \in Seq(Char) /\ byteArraytoByteSeq(tail) = rest
  BY <1>2, ToArray, ConversionsInverse
<1> HIDE DEF msg, block, rest, sent, tail, size
<1>7. left(block \o tail, size) = block /\ mid(block \o tail, size) = tail
  BY <1>2, <1>5, <1>6, CutsApart
<1>8. decryptRSA(key, sent)
        = IF PrivateDecrypt(key, block).threw THEN SecurityException
          ELSE decryptAES(byteArraytoByteSeq(PrivateDecrypt(key, block).bytes),
                          byteArraytoByteSeq(tail))
  BY <1>1, <1>2, <1>7 DEF decryptRSA, size
<1>9. ~ PrivateDecrypt(key, block).threw /\ PrivateDecrypt(key, block).bytes = msg
  BY <1>2 DEF Returns
<1>10. decryptRSA(key, sent) = Returns(data)
  BY <1>3, <1>4, <1>6, <1>8, <1>9
<1> QED BY <1>10 DEF sent

\* With a key of any other size decryptRSA cuts what encryptRSA has sent in the
\* wrong place (Security.cpp:66, bitSize / 8 rounds down): the private key is
\* given the block without its last byte, and throws or opens that.
THEOREM OddKeyCutsBlock ==
  ASSUME m_rsa, BlocksOpen, CipherInverts,
         NEW key \in Keys, canEncrypt[key], canDecrypt[key],
         maximumEncryptSize[key] \in Nat \ {0},
         bitSize[key] % 8 # 0,
         NEW symkey \in genAESKey(maximumEncryptSize[key]),
         NEW data \in Seq(Byte),
         NEW iv \in Seq(Char)
  PROVE  LET block  == PublicEncrypt(key, byteSeqToByteArray(symkey))
             opened == PrivateDecrypt(key, SubSeq(block, 1, Len(block) - 1))
             sent   == encryptRSA(key, data, symkey, iv).bytes
             rest   == mid(byteSeqToByteArray(sent), Len(block) - 1)
         IN  decryptRSA(key, sent)
               = IF opened.threw THEN SecurityException
                 ELSE decryptAES(byteArraytoByteSeq(opened.bytes),
                                 byteArraytoByteSeq(rest))
<1> DEFINE block == PublicEncrypt(key, byteSeqToByteArray(symkey))
           sent  == encryptRSA(key, data, symkey, iv).bytes
           tail  == byteSeqToByteArray(encryptAES(symkey, data, iv).bytes)
           array == byteSeqToByteArray(sent)
           size  == bitSize[key] \div 8
           cut   == SubSeq(block, 1, Len(block) - 1)
<1>1. /\ block \in Seq(Char) /\ Len(block) = BlockSize(key)
      /\ encryptAES(symkey, data, iv).bytes \in Seq(Byte)
      /\ array = block \o tail
  BY EncryptRSA
<1>2. m_aes
  BY DrawnKey
<1>3. tail \in Seq(Char)
  BY <1>1, ToArray
<1> HIDE DEF block, array, tail
<1>4. size \in Nat /\ Len(block) = size + 1
  <2>1. bitSize[key] \in Nat
    BY DEF BlocksOpen
  <2>2. bitSize[key] \div 8 \in Nat
        /\ (bitSize[key] + 7) \div 8 = bitSize[key] \div 8 + 1
    BY <2>1, OddBits
  <2> QED BY <1>1, <2>2 DEF BlockSize
<1> HIDE DEF size
<1>5. left(array, size) = cut
  <2>1. /\ array \in Seq(Char)
        /\ Len(array) = Len(block) + Len(tail)
        /\ \A i \in 1 .. Len(block) : array[i] = block[i]
    <3>1. block \o tail \in Seq(Char)
          /\ Len(block \o tail) = Len(block) + Len(tail)
          /\ \A i \in 1 .. Len(block) : (block \o tail)[i] = block[i]
      <4>1. block \in Seq(Char)
        BY <1>1
      <4> QED BY <4>1, <1>3
    <3> QED BY <3>1, <1>1
  <2>2. Len(tail) \in Nat
    BY <1>3
  <2>3. left(array, size) = SubSeq(array, 1, size)
    BY <2>1, <2>2, <1>4 DEF left
  <2>4. /\ SubSeq(array, 1, size) \in Seq(Char)
        /\ Len(SubSeq(array, 1, size)) = size
        /\ \A i \in 1 .. size : SubSeq(array, 1, size)[i] = array[i]
    BY <2>1, <2>2, <1>4
  <2>5. /\ SubSeq(block, 1, size) \in Seq(Char)
        /\ Len(SubSeq(block, 1, size)) = size
        /\ \A i \in 1 .. size : SubSeq(block, 1, size)[i] = block[i]
    BY <1>1, <1>4
  <2>6. \A i \in 1 .. size : array[i] = block[i]
    BY <2>1, <1>4
  <2>7. SubSeq(array, 1, size) = SubSeq(block, 1, size)
    BY <2>4, <2>5, <2>6, <1>4, SameElements
  <2>8. Len(block) - 1 = size
    BY <1>4
  <2> QED BY <2>3, <2>7, <2>8
<1>6. Len(block) - 1 = size
  BY <1>4
<1> HIDE DEF cut, sent
<1>7. decryptRSA(key, sent)
        = IF PrivateDecrypt(key, cut).threw THEN SecurityException
          ELSE decryptAES(byteArraytoByteSeq(PrivateDecrypt(key, cut).bytes),
                          byteArraytoByteSeq(mid(array, size)))
  BY <1>2, <1>5 DEF decryptRSA, size, array
<1> QED BY <1>6, <1>7 DEF cut, sent, block, array
=============================================================================
