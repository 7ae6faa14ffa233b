------------------------------- MODULE ByteSeqs ------------------------------
(***************************************************************************)
(* Byte sequences and byte arrays (src/common/sdcHelper.cpp).  Ice counts  *)
(* a byte from 0 to 255, a char of C++ and of QByteArray is signed here:   *)
(* each assignment between the two keeps the eight bits, not the number.   *)
(***************************************************************************)
EXTENDS Integers, Sequences

Byte == 0 .. 255
Char == -128 .. 127

toByte(c) == c % 256
toChar(b) == IF b < 128 THEN b ELSE b - 256

\* The counter is an int and len a long: defined for arrays of less than
\* 2^31 characters only.
bStringToByteSeq(arr, len) == [i \in 1 .. len |-> toByte(arr[i])]

byteSeqToByteArray(bytes) == [i \in 1 .. Len(bytes) |-> toChar(bytes[i])]

getBinaryString(bytes) == [i \in 1 .. Len(bytes) |-> toChar(bytes[i])]

byteArraytoByteSeq(arr) == bStringToByteSeq(arr, Len(arr))

\* QByteArray: the first n bytes, or all of them, and what comes after them.
left(arr, n) == IF n < Len(arr) THEN SubSeq(arr, 1, n) ELSE arr
mid(arr, n)  == SubSeq(arr, n + 1, Len(arr))
=============================================================================
