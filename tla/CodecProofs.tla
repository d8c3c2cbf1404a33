---------------------------- MODULE CodecProofs -----------------------------
(***************************************************************************)
(* Proofs about the codecs of the tools extension, for texts and strings   *)
(* of every length.  Base64: a group of bytes survives encoding and        *)
(* decoding, and the decoder stays inside the buffer that decode_base64    *)
(* makes.  The escaping codecs: what an encoder wrote is decoded to the    *)
(* same text, whatever memory lies behind it, and fits its buffer.         *)
(***************************************************************************)
EXTENDS Base64, HexCodec, SequenceTheorems, TLAPS

\* Dividing a byte by a power of two, as the shifts and masks do.
LEMMA ByteParts ==
  ASSUME NEW x \in Byte
  PROVE  /\ x \div 4 \in 0..63 /\ x % 4 \in 0..3 /\ x = 4 * (x \div 4) + (x % 4)
         /\ x \div 16 \in 0..15 /\ x % 16 \in 0..15 /\ x = 16 * (x \div 16) + (x % 16)
         /\ x \div 64 \in 0..3 /\ x % 64 \in 0..63 /\ x = 64 * (x \div 64) + (x % 64)
  BY SMT DEF Byte

\* A group of one, two or three bytes.
LEMMA GroupType ==
  ASSUME NEW a \in Byte, NEW b \in Byte, NEW c \in Byte, NEW n \in Int
  PROVE  Base64EncodeGroup(a, b, c, n) \in Char \X Char \X Char \X Char
  BY ByteParts DEF Base64EncodeGroup, Char, Sextet, Pad, Other

\* The value of a decoded group is three bytes.
LEMMA DecodedType ==
  ASSUME NEW a \in 0..127, NEW b \in Sextet, NEW c \in 0..127, NEW d \in 0..127
  PROVE  /\ Base64DecodeGroup(a, b, c, d)[1] \in Byte
         /\ c \in Sextet => Base64DecodeGroup(a, b, c, d)[2] \in Byte
         /\ d \in Sextet => Base64DecodeGroup(a, b, c, d)[3] \in Byte
  BY SMT DEF Base64DecodeGroup, Byte, Sextet

(***************************************************************************)
(* Base64DecodeGroup undoes Base64EncodeGroup bit by bit, for a full group *)
(* and for the two kinds of padded ones, whose padding the decoder never   *)
(* looks at.                                                               *)
(***************************************************************************)
THEOREM GroupRoundTrip ==
  ASSUME NEW a \in Byte, NEW b \in Byte, NEW c \in Byte
  PROVE  LET Decoded(n) ==
               LET g == Base64EncodeGroup(a, b, c, n)
               IN Base64DecodeGroup(CHAR64(g[1]), CHAR64(g[2]), CHAR64(g[3]), CHAR64(g[4]))
         IN /\ Decoded(1)[1] = a
            /\ Decoded(2)[1] = a /\ Decoded(2)[2] = b
            /\ Decoded(3) = <<a, b, c>>
<1> DEFINE a1 == a \div 4
           a2 == a % 4
           b1 == b \div 16
           b2 == b % 16
           c1 == c \div 64
           c2 == c % 64
<1>1. /\ a1 \in 0..63 /\ a2 \in 0..3 /\ a = 4 * a1 + a2
      /\ b1 \in 0..15 /\ b2 \in 0..15 /\ b = 16 * b1 + b2
      /\ c1 \in 0..3 /\ c2 \in 0..63 /\ c = 64 * c1 + c2
  BY ByteParts
<1>2. /\ a2 * 16 \in Sextet /\ a2 * 16 + b1 \in Sextet
      /\ b2 * 4 \in Sextet /\ b2 * 4 + c1 \in Sextet
      /\ a1 \in Sextet /\ c2 \in Sextet
  BY <1>1 DEF Sextet
<1>3. /\ (a1 * 4) % 256 = a1 * 4
      /\ (a2 * 16) \div 16 = a2
      /\ (a2 * 16 + b1) \div 16 = a2
      /\ ((a2 * 16 + b1) * 16) % 256 = b1 * 16
      /\ (b2 * 4) \div 4 = b2
      /\ (b2 * 4 + c1) \div 4 = b2
      /\ ((b2 * 4 + c1) * 64) % 256 = c1 * 64
  <2> HIDE DEF a1, a2, b1, b2, c1, c2
  <2> QED
    BY <1>1
<1> QED
  BY <1>1, <1>2, <1>3 DEF Base64EncodeGroup, Base64DecodeGroup, CHAR64
-----------------------------------------------------------------------------
(***************************************************************************)
(* Where the decoder is: it has read whole groups of four characters, and  *)
(* written at most three bytes for each, into a buffer of half as much     *)
(* again as the string.                                                    *)
(***************************************************************************)
DecodeInv ==
  /\ pc \in {"encode", "enter"} => out = <<>> /\ count = 0 /\ ret = 0
  /\ pc \in {"decode", "done"} => size = BufferFor(Len(input))
  /\ pc = "decode" => ret = 0 /\ \E m \in Nat : Len(input) = 4 * m
  /\ \E k \in Nat : count = 4 * k /\ Len(out) <= 3 * k
  /\ count <= Len(input) /\ (Len(out) > 0 => 2 * Len(out) <= size)
  /\ ret # -3

CodecInv == TypeOK /\ DecodeInv

LEMMA BufferForType ==
  ASSUME NEW n \in Nat
  PROVE  /\ BufferFor(n) \in Nat
         /\ n >= 2 => BufferFor(n) >= 3
         /\ \A m \in Nat : n = 4 * m => BufferFor(n) = 6 * m
  BY DEF BufferFor

LEMMA EncodedType ==
  ASSUME NEW s \in Seq(1..255)
  PROVE  Base64Encoded(s) \in Seq(Char)
<1> DEFINE at(i) == IF i <= Len(s) THEN s[i] ELSE 0
           group(i) == Base64EncodeGroup(at(3 * i + 1), at(3 * i + 2), at(3 * i + 3),
                                         Len(s) - 3 * i)
           n == EncodedLength(Len(s))
<1>1. n \in Nat
  BY DEF EncodedLength
<1>2. ASSUME NEW i \in Nat PROVE group(i) \in Char \X Char \X Char \X Char
  <2>1. at(3 * i + 1) \in Byte /\ at(3 * i + 2) \in Byte /\ at(3 * i + 3) \in Byte
    <3>1. ASSUME NEW j \in Nat \ {0} PROVE at(j) \in Byte
      <4>1. CASE j <= Len(s)
        <5>1. j \in 1..Len(s)
          BY <4>1
        <5>2. s[j] \in 1..255
          BY <5>1, ElementOfSeq
        <5> QED
          BY <4>1, <5>2 DEF Byte
      <4>2. CASE ~(j <= Len(s))
        BY <4>2 DEF Byte
      <4> QED
        BY <4>1, <4>2
    <3> HIDE DEF at
    <3> QED
      BY <3>1
  <2>2. Len(s) - 3 * i \in Int
    OBVIOUS
  <2> QED
    BY <2>1, <2>2, GroupType
<1>3. ASSUME NEW k \in 1..n PROVE group((k - 1) \div 4)[((k - 1) % 4) + 1] \in Char
  <2>1. (k - 1) \div 4 \in Nat /\ ((k - 1) % 4) + 1 \in 1..4
    BY <1>1
  <2> HIDE DEF group
  <2>2. group((k - 1) \div 4) \in Char \X Char \X Char \X Char
    BY <1>2, <2>1
  <2> QED
    BY <2>1, <2>2
<1>4. [k \in 1..n |-> group((k - 1) \div 4)[((k - 1) % 4) + 1]] \in Seq(Char)
  <2> HIDE DEF group, n
  <2> QED
    BY <1>1, <1>3
<1> QED
  BY <1>4 DEF Base64Encoded

LEMMA EncodeResultsType ==
  ASSUME NEW s \in Seq(1..255), NEW r \in EncodeResults(s)
  PROVE  r.ret \in {0, -2} /\ r.str \in Seq(Char)
<1> DEFINE room == BufferFor(Len(s)) - EncodedLength(Len(s))
           coded == IF room >= 0 THEN Base64Encoded(s) ELSE <<>>
<1>1. coded \in Seq(Char)
  BY EncodedType
<1>2. \A g \in Garbage : coded \o g \in Seq(Char)
  <2> HIDE DEF coded
  <2> QED
    BY <1>1, CodecAssumption
<1>3. r.ret \in {0, -2}
  BY DEF EncodeResults
<1>4. r.str = coded \/ \E g \in Garbage : r.str = coded \o g
  BY DEF EncodeResults
<1> HIDE DEF coded
<1> QED
  BY <1>1, <1>2, <1>3, <1>4

LEMMA CodecInvInit == Init => CodecInv
<1> SUFFICES ASSUME Init PROVE CodecInv
  OBVIOUS
<1>0. <<>> \in Seq(1..255) /\ <<>> \in Seq(Char) /\ <<>> \in Seq(Byte)
  OBVIOUS
<1>1. text \in Seq(1..255) /\ input \in Seq(Char) /\ out \in Seq(Byte)
  <2>1. CASE pc = "encode" /\ text \in Texts /\ input = <<>>
    BY <1>0, <2>1, CodecAssumption, Zenon DEF Init
  <2>2. CASE pc = "enter" /\ text = <<>> /\ input \in Strings
    BY <1>0, <2>2, CodecAssumption, Zenon DEF Init
  <2> QED
    BY <2>1, <2>2 DEF Init
<1>2. TypeOK
  BY <1>1 DEF Init, TypeOK
<1>3. DecodeInv
  <2>1. count = 4 * 0 /\ Len(out) <= 3 * 0
    BY DEF Init
  <2> QED
    BY <1>1, <2>1 DEF Init, DecodeInv
<1> QED
  BY <1>2, <1>3 DEF CodecInv

LEMMA CodecInvNext == CodecInv /\ [Next]_vars => CodecInv'
<1> SUFFICES ASSUME CodecInv, [Next]_vars PROVE CodecInv'
  OBVIOUS
<1>0. TypeOK /\ DecodeInv
  BY DEF CodecInv
<1>1. CASE Encode
  <2> PICK r \in EncodeResults(text) : enc' = r /\ input' = r.str
    BY <1>1 DEF Encode
  <2>1. r.ret \in {0, -2} /\ r.str \in Seq(Char)
    BY <1>0, EncodeResultsType DEF TypeOK
  <2>2. TypeOK'
    BY <1>0, <1>1, <2>1 DEF Encode, TypeOK
  <2>3. DecodeInv'
    BY <1>0, <1>1, <2>1 DEF Encode, DecodeInv
  <2> QED
    BY <2>2, <2>3 DEF CodecInv
<1>2. CASE Enter
  <2>1. Len(input) \in Nat /\ BufferFor(Len(input)) \in Nat
    BY <1>0, BufferForType DEF TypeOK
  <2>2. TypeOK'
    BY <1>0, <1>2, <2>1 DEF Enter, TypeOK
  <2>3. Len(input) % 4 = 0 => \E m \in Nat : Len(input) = 4 * m
    <3>1. Len(input) = 4 * (Len(input) \div 4) + (Len(input) % 4)
          /\ Len(input) \div 4 \in Nat
      BY <2>1
    <3> QED
      BY <3>1
  <2>4. DecodeInv'
    BY <1>0, <1>2, <2>1, <2>3 DEF Enter, DecodeInv
  <2> QED
    BY <2>2, <2>4 DEF CodecInv
<1>3. CASE DecodeGroup
  <2>1. PICK m \in Nat : Len(input) = 4 * m
    BY <1>0, <1>3 DEF DecodeGroup, DecodeInv
  <2>2. PICK k \in Nat : count = 4 * k /\ Len(out) <= 3 * k
    BY <1>0 DEF DecodeInv
  <2>3. k < m
    BY <1>3, <2>1, <2>2 DEF DecodeGroup
  <2> DEFINE n == GroupSize
             v(i) == CHAR64(In(i))
             bytes == Base64DecodeGroup(v(1), v(2), v(3), v(4))
  <2>4. n \in 1..3
    BY DEF GroupSize
  <2>5. \A i \in 1..4 : v(i) \in 0..127
    BY DEF CHAR64, Sextet, XX
  <2>6. \A i \in 1..(n + 1) : v(i) \in Sextet
    BY <1>3 DEF DecodeGroup, Sound, CHAR64
  <2>7. /\ bytes[1] \in Byte
        /\ n >= 2 => bytes[2] \in Byte
        /\ n >= 3 => bytes[3] \in Byte
    <3> HIDE DEF n, v
    <3>1. v(1) \in 0..127 /\ v(2) \in Sextet /\ v(3) \in 0..127 /\ v(4) \in 0..127
      BY <2>4, <2>5, <2>6
    <3>2. (n >= 2 => v(3) \in Sextet) /\ (n >= 3 => v(4) \in Sextet)
      BY <2>4, <2>6
    <3> QED
      BY <3>1, <3>2, DecodedType
  <2>8. SubSeq(bytes, 1, n) \in Seq(Byte) /\ Len(SubSeq(bytes, 1, n)) = n
    <3>1. bytes = <<bytes[1], bytes[2], bytes[3]>>
      BY DEF Base64DecodeGroup
    <3> HIDE DEF bytes, n
    <3> QED
      BY <2>4, <2>7, <3>1
  <2>9. out' \in Seq(Byte) /\ Len(out') = Len(out) + n
    <3>1. out' = out \o SubSeq(bytes, 1, n) /\ out \in Seq(Byte)
      BY <1>0, <1>3 DEF DecodeGroup, TypeOK
    <3> HIDE DEF bytes, n
    <3> QED
      BY <2>4, <2>8, <3>1
  <2> HIDE DEF n, bytes, v
  <2>10. TypeOK'
    BY <1>0, <1>3, <2>9 DEF DecodeGroup, TypeOK
  <2>11. k + 1 \in Nat /\ count' = 4 * (k + 1) /\ Len(out') <= 3 * (k + 1)
    BY <1>3, <2>2, <2>4, <2>9, <1>0 DEF DecodeGroup, TypeOK
  <2>12. size = 6 * m
    BY <1>0, <1>3, <2>1, BufferForType DEF DecodeGroup, DecodeInv, TypeOK
  <2>13. count' <= Len(input) /\ 2 * Len(out') <= size
    BY <2>1, <2>3, <2>9, <2>11, <2>12
  <2>14. /\ pc' = "decode" /\ input' = input /\ size' = size /\ ret' = ret
    BY <1>3 DEF DecodeGroup
  <2>15. DecodeInv'
    BY <1>0, <1>3, <2>11, <2>13, <2>14 DEF DecodeGroup, DecodeInv
  <2> QED
    BY <2>10, <2>15 DEF CodecInv
<1>4. CASE DecodeStops
  <2>1. PICK m \in Nat : Len(input) = 4 * m
    BY <1>0, <1>4 DEF DecodeStops, DecodeInv
  <2>2. size = 6 * m /\ m > 0
    BY <1>0, <1>4, <2>1, BufferForType DEF DecodeStops, DecodeInv, TypeOK
  <2>3. Len(out) < size
    BY <1>0, <2>2 DEF DecodeInv, TypeOK
  <2>4. GroupSize \in 1..3
    BY DEF GroupSize
  <2>5. Stop(-3 - GroupSize)
    BY <1>0, <1>4, <2>3 DEF DecodeStops, TypeOK
  <2>6. ret' \in -6..-4
    BY <2>4, <2>5 DEF Stop
  <2>7. TypeOK'
    BY <1>0, <2>5, <2>6 DEF Stop, TypeOK
  <2>8. DecodeInv'
    BY <1>0, <1>4, <2>5, <2>6 DEF DecodeStops, Stop, DecodeInv
  <2> QED
    BY <2>7, <2>8 DEF CodecInv
<1>5. CASE DecodeEnds
  <2>1. TypeOK'
    BY <1>0, <1>5 DEF DecodeEnds, Stop, TypeOK
  <2>2. DecodeInv'
    BY <1>0, <1>5 DEF DecodeEnds, Stop, DecodeInv
  <2> QED
    BY <2>1, <2>2 DEF CodecInv
<1>6. CASE UNCHANGED vars
  <2>1. TypeOK'
    BY <1>0, <1>6 DEF vars, TypeOK
  <2>2. DecodeInv'
    BY <1>0, <1>6 DEF vars, DecodeInv
  <2> QED
    BY <2>1, <2>2 DEF CodecInv
<1> QED
  BY <1>1, <1>2, <1>3, <1>4, <1>5, <1>6 DEF Next

(***************************************************************************)
(* The decoder never writes behind the buffer of decode_base64 nor over    *)
(* its last byte, and never finds it full.                                 *)
(***************************************************************************)
THEOREM DecoderInside == Spec => []DecodeInside
<1>1. CodecInv => DecodeInside
  <2> SUFFICES ASSUME CodecInv PROVE DecodeInside
    OBVIOUS
  <2>1. TypeOK /\ DecodeInv
    BY DEF CodecInv
  <2>2. ASSUME pc \in {"decode", "done"}, Len(input) >= 2 PROVE Len(out) < size
    <3>1. size >= 3 /\ size \in Nat
      BY <2>1, <2>2, BufferForType DEF DecodeInv, TypeOK
    <3> QED
      BY <2>1, <3>1 DEF DecodeInv, TypeOK
  <2> QED
    BY <2>1, <2>2 DEF DecodeInside, DecodeInv
<1> QED
  BY <1>1, CodecInvInit, CodecInvNext, PTL DEF Spec

\* What encode_base64 and decode_base64 return has its type: in particular,
\* every byte the decoder writes is a byte and every code is one of -6..0.
THEOREM TypeCorrect == Spec => []TypeOK
<1>1. CodecInv => TypeOK
  BY DEF CodecInv
<1> QED
  BY <1>1, CodecInvInit, CodecInvNext, PTL DEF Spec

-----------------------------------------------------------------------------
(***************************************************************************)
(* The buffer of encode_base64, half as much again as the text, holds the  *)
(* encoded text and its terminator for every text of 26 characters or more.*)
(***************************************************************************)
THEOREM LongTextsTerminated ==
  ASSUME NEW n \in Nat, n >= 26
  PROVE  EncodedLength(n) < BufferFor(n)
  BY DEF EncodedLength, BufferFor

-----------------------------------------------------------------------------
(***************************************************************************)
(* The round trip of a whole text.  The encoder's output, seen group by    *)
(* group, is decoded group by group: behind the k-th group stand the first *)
(* 3*k bytes of the text, or all of them.                                  *)
(***************************************************************************)
ByteAt(s, i) == IF i <= Len(s) THEN s[i] ELSE 0

GroupOf(s, k) ==
  Base64EncodeGroup(ByteAt(s, 3 * k + 1), ByteAt(s, 3 * k + 2),
                    ByteAt(s, 3 * k + 3), Len(s) - 3 * k)

\* How many groups a text of n bytes makes, and the bytes of the k-th of them.
Groups(n) == (n + 2) \div 3
Filled(n, k) == IF n - 3 * k <= 3 THEN n - 3 * k ELSE 3

LEMMA GroupsAre ==
  ASSUME NEW n \in Nat
  PROVE  /\ Groups(n) \in Nat
         /\ EncodedLength(n) = 4 * Groups(n)
         /\ \A k \in Nat : k < Groups(n) <=> 3 * k < n
  BY DEF Groups, EncodedLength

LEMMA ByteAtType ==
  ASSUME NEW s \in Seq(1..255), NEW i \in Nat \ {0}
  PROVE  ByteAt(s, i) \in Byte
<1>1. CASE i <= Len(s)
  <2>1. i \in 1..Len(s)
    BY <1>1, LenProperties
  <2>2. s[i] \in 1..255
    BY <2>1, ElementOfSeq
  <2> QED
    BY <1>1, <2>2 DEF ByteAt, Byte
<1>2. CASE ~(i <= Len(s))
  BY <1>2 DEF ByteAt, Byte
<1> QED
  BY <1>1, <1>2

\* The i-th character of the k-th group stands where it should.
LEMMA EncodedIs ==
  ASSUME NEW s \in Seq(1..255)
  PROVE  /\ Len(Base64Encoded(s)) = 4 * Groups(Len(s))
         /\ \A k \in Nat, i \in 1..4 :
              k < Groups(Len(s)) => Base64Encoded(s)[4 * k + i] = GroupOf(s, k)[i]
<1> DEFINE n == EncodedLength(Len(s))
<1>1. Len(s) \in Nat
  BY LenProperties
<1>2. n = 4 * Groups(Len(s)) /\ n \in Nat /\ Groups(Len(s)) \in Nat
  BY <1>1 DEF EncodedLength, Groups
<1>3. Base64Encoded(s) = [k \in 1..n |-> GroupOf(s, (k - 1) \div 4)[((k - 1) % 4) + 1]]
  BY DEF Base64Encoded, GroupOf, ByteAt
<1> HIDE DEF n
<1>4. Len(Base64Encoded(s)) = n
  BY <1>2, <1>3
<1>5. ASSUME NEW k \in Nat, NEW i \in 1..4, k < Groups(Len(s))
      PROVE  Base64Encoded(s)[4 * k + i] = GroupOf(s, k)[i]
  <2>1. 4 * k + i \in 1..n
    BY <1>2, <1>5
  <2>2. (4 * k + i - 1) \div 4 = k /\ ((4 * k + i - 1) % 4) + 1 = i
    OBVIOUS
  <2> QED
    BY <1>3, <2>1, <2>2
<1> QED
  BY <1>2, <1>4, <1>5

\* What a group of n bytes tells the decoder, and what the decoder makes of it.
LEMMA GroupTells ==
  ASSUME NEW a \in Byte, NEW b \in Byte, NEW c \in Byte, NEW n \in Nat \ {0}
  PROVE  LET g == Base64EncodeGroup(a, b, c, n)
             d == Base64DecodeGroup(CHAR64(g[1]), CHAR64(g[2]), CHAR64(g[3]), CHAR64(g[4]))
         IN  /\ g[1] \in Sextet /\ g[2] \in Sextet
             /\ IF n > 1 THEN g[3] \in Sextet ELSE g[3] = Pad
             /\ IF n > 2 THEN g[4] \in Sextet ELSE g[4] = Pad
             /\ d[1] = a
             /\ n > 1 => d[2] = b
             /\ n > 2 => d[3] = c
<1>1. /\ a \div 4 \in 0..63 /\ a % 4 \in 0..3
      /\ b \div 16 \in 0..15 /\ b % 16 \in 0..15
      /\ c \div 64 \in 0..3 /\ c % 64 \in 0..63
  BY ByteParts
<1>2. CASE n = 1
  BY <1>1, <1>2, GroupRoundTrip DEF Base64EncodeGroup, Sextet
<1>3. CASE n = 2
  <2>1. (b % 16) * 4 \in Sextet /\ (a % 4) * 16 + b \div 16 \in Sextet
    BY <1>1 DEF Sextet
  <2> QED
    BY <1>1, <1>3, <2>1, GroupRoundTrip DEF Base64EncodeGroup, Sextet
<1>4. CASE n > 2
  <2>1. Base64EncodeGroup(a, b, c, n) = Base64EncodeGroup(a, b, c, 3)
    BY <1>4 DEF Base64EncodeGroup
  <2>2. (b % 16) * 4 + c \div 64 \in Sextet /\ (a % 4) * 16 + b \div 16 \in Sextet
    BY <1>1 DEF Sextet
  <2>3. /\ Base64EncodeGroup(a, b, c, 3)[1] \in Sextet
        /\ Base64EncodeGroup(a, b, c, 3)[2] \in Sextet
        /\ Base64EncodeGroup(a, b, c, 3)[3] \in Sextet
        /\ Base64EncodeGroup(a, b, c, 3)[4] \in Sextet
    BY <1>1, <2>2 DEF Base64EncodeGroup, Sextet
  <2> QED
    BY <1>4, <2>1, <2>3, GroupRoundTrip
<1> QED
  BY <1>2, <1>3, <1>4

\* The text decoded so far: all there is of its first 3*k bytes.
Decoded(k) ==
  /\ Len(out) = IF 3 * k <= Len(text) THEN 3 * k ELSE Len(text)
  /\ \A i \in 1..Len(out) : out[i] = text[i]

TripInv ==
  text # <<>> /\ Terminated =>
    /\ pc # "encode" => enc.ret = 0 /\ input = Base64Encoded(text)
    /\ pc = "decode" => \E k \in Nat : count = 4 * k /\ Decoded(k)
    /\ pc = "done" => ret = 0 /\ out = text

\* A text whose encoding fits comes back from encode_base64 as it was written.
LEMMA TerminatedResult ==
  ASSUME NEW s \in Seq(1..255), EncodedLength(Len(s)) < BufferFor(Len(s)),
         NEW r \in EncodeResults(s)
  PROVE  r.ret = 0 /\ r.str = Base64Encoded(s)
<1> DEFINE room == BufferFor(Len(s)) - EncodedLength(Len(s))
<1>1. Len(s) \in Nat
  BY LenProperties
<1>2. room >= 0 /\ room # 0 /\ BufferFor(Len(s)) # 0
  BY <1>1 DEF BufferFor, EncodedLength
<1> QED
  BY <1>2 DEF EncodeResults

(***************************************************************************)
(* A turn of Base64_Decode on an encoded text: the group it stands at is   *)
(* sound and holds the text's next bytes.                                  *)
(***************************************************************************)
LEMMA AtGroup ==
  ASSUME text \in Seq(1..255), input = Base64Encoded(text),
         NEW k \in Nat, count = 4 * k, count < Len(input)
  PROVE  LET left == Len(text) - 3 * k
             d == Base64DecodeGroup(CHAR64(In(1)), CHAR64(In(2)), CHAR64(In(3)),
                                    CHAR64(In(4)))
         IN  /\ left \in Nat \ {0}
             /\ GroupSize = IF left <= 3 THEN left ELSE 3
             /\ Sound(GroupSize)
             /\ \A j \in 1..GroupSize : d[j] = text[3 * k + j]
<1> DEFINE left == Len(text) - 3 * k
           a == ByteAt(text, 3 * k + 1)
           b == ByteAt(text, 3 * k + 2)
           c == ByteAt(text, 3 * k + 3)
           g == Base64EncodeGroup(a, b, c, left)
           d == Base64DecodeGroup(CHAR64(g[1]), CHAR64(g[2]), CHAR64(g[3]), CHAR64(g[4]))
<1>1. Len(text) \in Nat
  BY LenProperties
<1>2. Groups(Len(text)) \in Nat /\ \A j \in Nat : j < Groups(Len(text)) => 3 * j < Len(text)
  BY <1>1, GroupsAre
<1>3. Len(input) = 4 * Groups(Len(text))
  BY EncodedIs
<1>4. k < Groups(Len(text))
  BY <1>2, <1>3
<1>5. left \in Nat \ {0}
  BY <1>1, <1>2, <1>4
<1>6. a \in Byte /\ b \in Byte /\ c \in Byte
  BY ByteAtType
<1>7. ASSUME NEW i \in 1..4 PROVE In(i) = g[i]
  <2>1. Base64Encoded(text)[4 * k + i] = GroupOf(text, k)[i]
    BY <1>4, EncodedIs
  <2> QED
    BY <2>1 DEF In, GroupOf
<1>8. /\ a = text[3 * k + 1]
      /\ left > 1 => b = text[3 * k + 2]
      /\ left > 2 => c = text[3 * k + 3]
  BY <1>1, <1>5 DEF ByteAt
<1> HIDE DEF a, b, c
<1>9. /\ g[1] \in Sextet /\ g[2] \in Sextet
      /\ IF left > 1 THEN g[3] \in Sextet ELSE g[3] = Pad
      /\ IF left > 2 THEN g[4] \in Sextet ELSE g[4] = Pad
      /\ d[1] = a
      /\ left > 1 => d[2] = b
      /\ left > 2 => d[3] = c
  <2> HIDE DEF left
  <2> QED
    BY <1>5, <1>6, GroupTells
<1> HIDE DEF g, left
<1>10. GroupSize = IF left <= 3 THEN left ELSE 3
  <2>1. In(3) = g[3] /\ In(4) = g[4]
    BY <1>7
  <2>2. IF left > 1 THEN g[3] \in Sextet ELSE g[3] = Pad
    BY <1>9
  <2>3. IF left > 2 THEN g[4] \in Sextet ELSE g[4] = Pad
    BY <1>9
  <2>4. Pad \notin Sextet
    BY DEF Pad, Sextet
  <2>5. (left > 1 <=> In(3) # Pad) /\ (left > 2 <=> In(4) # Pad)
    BY <2>1, <2>2, <2>3, <2>4, Zenon
  <2> QED
    BY <1>5, <2>5 DEF GroupSize
<1>11. \A i \in 1..(GroupSize + 1) : i \in 1..4 /\ g[i] \in Sextet
  BY <1>5, <1>9, <1>10
<1>12. Sound(GroupSize)
  <2>1. \A i \in 1..(GroupSize + 1) : In(i) \in Sextet
    BY <1>7, <1>11
  <2>2. \A x \in Sextet : CHAR64(x) # XX
    BY DEF CHAR64, XX, Sextet
  <2> QED
    BY <2>1, <2>2, Zenon DEF Sound
<1>13. d = Base64DecodeGroup(CHAR64(In(1)), CHAR64(In(2)), CHAR64(In(3)), CHAR64(In(4)))
  BY <1>7
<1> HIDE DEF d
<1>14. \A j \in 1..GroupSize : d[j] = text[3 * k + j]
  <2>1. CASE left = 1
    BY <1>8, <1>9, <1>10, <2>1
  <2>2. CASE left = 2
    <3>1. GroupSize = 2 /\ d[1] = text[3 * k + 1] /\ d[2] = text[3 * k + 2]
      BY <1>8, <1>9, <1>10, <2>2
    <3> QED
      BY <3>1
  <2>3. CASE left >= 3
    <3>1. /\ GroupSize = 3
          /\ d[1] = text[3 * k + 1] /\ d[2] = text[3 * k + 2] /\ d[3] = text[3 * k + 3]
      BY <1>5, <1>8, <1>9, <1>10, <2>3
    <3> QED
      BY <3>1
  <2> QED
    BY <1>5, <2>1, <2>2, <2>3
<1> QED
  BY <1>5, <1>10, <1>12, <1>13, <1>14 DEF left

LEMMA TripInvNext == CodecInv /\ TripInv /\ [Next]_vars => TripInv'
<1> SUFFICES ASSUME CodecInv, TripInv, [Next]_vars, text' # <<>>, Terminated'
             PROVE  /\ pc' # "encode" => enc'.ret = 0 /\ input' = Base64Encoded(text')
                    /\ pc' = "decode" => \E k \in Nat : count' = 4 * k /\ Decoded(k)'
                    /\ pc' = "done" => ret' = 0 /\ out' = text'
  BY DEF TripInv
<1>1. text' = text
  BY DEF Next, Encode, Enter, DecodeGroup, DecodeStops, DecodeEnds, Stop, vars
<1>2. text # <<>> /\ Terminated
  BY <1>1 DEF Terminated
<1>3. /\ pc # "encode" => enc.ret = 0 /\ input = Base64Encoded(text)
      /\ pc = "decode" => \E k \in Nat : count = 4 * k /\ Decoded(k)
      /\ pc = "done" => ret = 0 /\ out = text
  BY <1>2 DEF TripInv
<1>4. /\ TypeOK /\ DecodeInv
      /\ text \in Seq(1..255) /\ out \in Seq(Byte)
      /\ Len(text) \in Nat /\ Len(out) \in Nat
  BY LenProperties DEF CodecInv, TypeOK
<1>5. CASE Encode
  <2>1. PICK r \in EncodeResults(text) : enc' = r /\ input' = r.str
    BY <1>5 DEF Encode
  <2>2. r.ret = 0 /\ r.str = Base64Encoded(text)
    BY <1>2, <1>4, TerminatedResult DEF Terminated
  <2> QED
    BY <1>1, <1>5, <2>1, <2>2 DEF Encode
<1>6. CASE Enter
  <2>1. input = Base64Encoded(text) /\ enc.ret = 0
    BY <1>3, <1>6 DEF Enter
  <2>2. Len(input) = 4 * Groups(Len(text)) /\ Groups(Len(text)) \in Nat
    BY <1>4, <2>1, EncodedIs, GroupsAre
  <2>3. Len(input) % 4 = 0
    BY <2>2
  <2>4. pc' = "decode" /\ UNCHANGED <<enc, input, out, count>>
    BY <1>6, <2>3 DEF Enter
  <2>5. out = <<>> /\ count = 0
    BY <1>4, <1>6 DEF Enter, DecodeInv
  <2>6. count' = 4 * 0 /\ Decoded(0)'
    BY <1>1, <1>4, <2>4, <2>5 DEF Decoded
  <2> QED
    BY <1>1, <2>1, <2>4, <2>6
<1>7. ASSUME pc = "decode", NEW k \in Nat, count = 4 * k, count < Len(input)
      PROVE  LET left == Len(text) - 3 * k
                 d == Base64DecodeGroup(CHAR64(In(1)), CHAR64(In(2)), CHAR64(In(3)),
                                        CHAR64(In(4)))
             IN  /\ left \in Nat \ {0}
                 /\ GroupSize = IF left <= 3 THEN left ELSE 3
                 /\ Sound(GroupSize)
                 /\ \A j \in 1..GroupSize : d[j] = text[3 * k + j]
  BY <1>3, <1>4, <1>7, AtGroup
<1>8. CASE DecodeGroup
  <2>1. PICK k \in Nat : count = 4 * k /\ Decoded(k)
    BY <1>3, <1>8 DEF DecodeGroup
  <2> DEFINE left == Len(text) - 3 * k
             d == Base64DecodeGroup(CHAR64(In(1)), CHAR64(In(2)), CHAR64(In(3)),
                                    CHAR64(In(4)))
             n == GroupSize
             more == SubSeq(d, 1, n)
  <2>2. /\ left \in Nat \ {0}
        /\ n = IF left <= 3 THEN left ELSE 3
        /\ \A j \in 1..n : d[j] = text[3 * k + j]
    BY <1>7, <1>8, <2>1 DEF DecodeGroup
  <2>3. out' = out \o more
    BY <1>8 DEF DecodeGroup
  <2>4. n \in 1..3
    BY DEF GroupSize
  <2>5. Len(d) = 3 /\ d = <<d[1], d[2], d[3]>>
    BY DEF Base64DecodeGroup
  <2> HIDE DEF d, n
  <2>6. n \in Nat /\ Len(more) = n /\ \A j \in 1..n : more[j] = d[j]
    BY <2>4, <2>5
  <2>7. more \in Seq({d[1], d[2], d[3]})
    BY <2>4, <2>5
  <2> HIDE DEF more
  <2>8. /\ Len(out') = Len(out) + n
        /\ \A i \in 1..(Len(out) + n) :
             out'[i] = IF i <= Len(out) THEN out[i] ELSE more[i - Len(out)]
    <3> DEFINE All == Byte \cup {d[1], d[2], d[3]}
    <3>1. out \in Seq(All) /\ more \in Seq(All)
      BY <1>4, <2>7
    <3> HIDE DEF All
    <3>2. /\ Len(out \o more) = Len(out) + Len(more)
          /\ \A i \in 1..(Len(out) + Len(more)) :
               (out \o more)[i] = IF i <= Len(out) THEN out[i] ELSE more[i - Len(out)]
      BY <3>1, ConcatProperties
    <3> QED
      BY <2>3, <2>6, <3>2
  <2>9. Len(out) = 3 * k /\ \A i \in 1..Len(out) : out[i] = text[i]
    BY <1>4, <2>1, <2>2 DEF Decoded
  <2>10. \A i \in 1..Len(out') : out'[i] = text[i]
    <3> SUFFICES ASSUME NEW i \in 1..(3 * k + n) PROVE out'[i] = text[i]
      BY <2>8, <2>9
    <3>1. CASE i <= 3 * k
      BY <2>8, <2>9, <3>1
    <3>2. CASE i > 3 * k
      <4>1. i - 3 * k \in 1..n /\ 3 * k + (i - 3 * k) = i
        BY <2>4, <3>2
      <4>2. out'[i] = more[i - 3 * k]
        BY <2>4, <2>8, <2>9, <3>2
      <4>3. more[i - 3 * k] = text[3 * k + (i - 3 * k)]
        BY <2>2, <2>6, <4>1
      <4> QED
        BY <4>1, <4>2, <4>3
    <3> QED
      BY <2>4, <3>1, <3>2
  <2>11. Len(out') = IF 3 * (k + 1) <= Len(text) THEN 3 * (k + 1) ELSE Len(text)
    <3>1. Len(out') = 3 * k + n
      BY <2>8, <2>9
    <3>2. CASE left <= 3
      BY <1>4, <2>2, <3>1, <3>2
    <3>3. CASE left > 3
      <4>1. n = 3
        BY <2>2, <3>3
      <4>2. 3 * (k + 1) <= Len(text) /\ 3 * (k + 1) = 3 * k + 3
        BY <1>4, <3>3
      <4> QED
        BY <3>1, <4>1, <4>2
    <3> QED
      BY <1>4, <3>2, <3>3
  <2>12. count' = 4 * (k + 1) /\ k + 1 \in Nat
    BY <1>8, <2>1 DEF DecodeGroup
  <2>13. Decoded(k + 1)'
    BY <1>1, <2>10, <2>11 DEF Decoded
  <2> QED
    BY <1>1, <1>3, <1>8, <2>12, <2>13 DEF DecodeGroup
<1>9. ASSUME DecodeStops PROVE FALSE
  <2>1. PICK k \in Nat : count = 4 * k /\ Decoded(k)
    BY <1>3, <1>9 DEF DecodeStops
  <2>2. Sound(GroupSize)
    BY <1>7, <1>9, <2>1 DEF DecodeStops
  <2>3. PICK m \in Nat : Len(input) = 4 * m
    BY <1>4, <1>9 DEF DecodeStops, DecodeInv
  <2>4. size = 6 * m /\ m > 0
    BY <1>4, <1>9, <2>3, BufferForType DEF DecodeStops, DecodeInv, TypeOK
  <2>5. Len(out) < size
    BY <1>4, <2>4 DEF DecodeInv, TypeOK
  <2> QED
    BY <1>4, <1>9, <2>2, <2>5 DEF DecodeStops, TypeOK
<1>10. CASE DecodeEnds
  <2>1. PICK k \in Nat : count = 4 * k /\ Decoded(k)
    BY <1>3, <1>10 DEF DecodeEnds
  <2>2. Len(input) = 4 * Groups(Len(text)) /\ Groups(Len(text)) \in Nat
    BY <1>3, <1>4, <1>10, EncodedIs, GroupsAre DEF DecodeEnds
  <2>3. ~(k < Groups(Len(text)))
    BY <1>10, <2>1, <2>2 DEF DecodeEnds
  <2>4. ~(3 * k < Len(text))
    BY <1>4, <2>3, GroupsAre
  <2>5. Len(out) = Len(text) /\ \A i \in 1..Len(out) : out[i] = text[i]
    BY <1>4, <2>1, <2>4 DEF Decoded
  <2>6. out = text
    <3>1. text \in Seq(Byte)
      BY <1>4 DEF Byte
    <3> QED
      BY <1>4, <2>5, <3>1, SeqEqual
  <2> QED
    BY <1>1, <1>3, <1>10, <2>6 DEF DecodeEnds, Stop
<1>11. CASE UNCHANGED vars
  BY <1>3, <1>11 DEF vars, Decoded
<1> QED
  BY <1>5, <1>6, <1>8, <1>9, <1>10, <1>11 DEF Next

\* decode_base64 gives back every text, of every length and of any bytes, that
\* encode_base64 has a buffer for.
THEOREM TextsSurvive == Spec => []RoundTrip
<1>1. Init => TripInv
  BY DEF Init, TripInv
<1>2. TripInv => RoundTrip
  BY DEF TripInv, RoundTrip
<1> QED
  BY <1>1, <1>2, CodecInvInit, CodecInvNext, TripInvNext, PTL DEF Spec
-----------------------------------------------------------------------------
(***************************************************************************)
(* The escaping codecs.                                                    *)
(***************************************************************************)

\* The input of the decoder ends with its terminator.
EndsMarked == stage # "encode" => len < Len(mem) /\ mem[len + 1] = NUL

(***************************************************************************)
(* The output keeps up with the input: three characters written for one of *)
(* the encoder's, at most one for each of the decoder's.                   *)
(***************************************************************************)
SizeInv ==
  /\ stage = "encode" => p <= Len(plain) + 1 /\ Len(buf) <= 3 * (p - 1)
  /\ stage # "encode" => Len(buf) <= p - 1

\* Behind each escape character among the first n of t there are two more.
Whole(t, n) == \A i \in 1..n : t[i] = PERCENT => i + 2 <= n

(***************************************************************************)
(* What an encoder has written is made of whole escapes, and so is the     *)
(* decoder's input when an encoder wrote it.                               *)
(***************************************************************************)
EscapeInv ==
  /\ stage = "encode" => Whole(buf, Len(buf))
  /\ stage # "encode" /\ plain # <<>> => Whole(mem, len)

HexInv == HexTypeOK /\ EndsMarked /\ SizeInv /\ EscapeInv /\ StaysInside
-----------------------------------------------------------------------------
LEMMA DigitIsByte == ASSUME NEW n \in 0..15 PROVE HexDigit(n) \in 48..70 \ {PERCENT}
  BY DEF HexDigit, PERCENT

LEMMA IndexIsSmall == ASSUME NEW c \in 0..255 PROVE get_index(c) \in -1..16
  BY DEF get_index, toupper, NUL

LEMMA AtIsByte ==
  ASSUME mem \in Seq(0..255), NEW i \in Nat \ {0}
  PROVE  At(i) \in 0..255
<1>1. CASE i <= Len(mem)
  BY <1>1, ElementOfSeq DEF At
<1>2. CASE ~(i <= Len(mem))
  BY <1>2 DEF At, NUL
<1> QED
  BY <1>1, <1>2

\* A text and its terminator, with memory behind.
LEMMA InMemory ==
  ASSUME NEW t \in Seq(0..255), NEW b \in Seq(1..255)
  PROVE  LET x == t \o <<NUL>> \o b \o <<NUL>>
         IN  /\ x \in Seq(0..255)
             /\ Len(t) < Len(x)
             /\ x[Len(t) + 1] = NUL
             /\ \A i \in 1..Len(t) : x[i] = t[i]
<1> DEFINE x == t \o <<NUL>> \o b \o <<NUL>>
<1>1. <<NUL>> \in Seq(0..255) /\ Len(<<NUL>>) = 1 /\ <<NUL>>[1] = NUL
  BY DEF NUL
<1>2. b \in Seq(0..255)
  OBVIOUS
<1>3. /\ t \o <<NUL>> \in Seq(0..255)
      /\ Len(t \o <<NUL>>) = Len(t) + 1
      /\ (t \o <<NUL>>)[Len(t) + 1] = NUL
      /\ \A i \in 1..Len(t) : (t \o <<NUL>>)[i] = t[i]
  BY <1>1, ConcatProperties, LenProperties
<1>4. /\ t \o <<NUL>> \o b \in Seq(0..255)
      /\ Len(t \o <<NUL>> \o b) >= Len(t) + 1
      /\ \A i \in 1..(Len(t) + 1) : (t \o <<NUL>> \o b)[i] = (t \o <<NUL>>)[i]
  BY <1>2, <1>3, ConcatProperties, LenProperties
<1>5. /\ x \in Seq(0..255)
      /\ Len(x) >= Len(t) + 1
      /\ \A i \in 1..(Len(t) + 1) : x[i] = (t \o <<NUL>> \o b)[i]
  BY <1>1, <1>4, ConcatProperties, LenProperties
<1> HIDE DEF x
<1>6. Len(t) \in Nat
  BY LenProperties
<1>7. Len(t) < Len(x)
  BY <1>5, <1>6, LenProperties
<1>8. Len(t) + 1 \in 1..(Len(t) + 1)
  BY <1>6
<1>9. x[Len(t) + 1] = NUL
  BY <1>3, <1>4, <1>5, <1>8
<1>10. ASSUME NEW i \in 1..Len(t) PROVE x[i] = t[i]
  <2>1. i \in 1..(Len(t) + 1)
    BY <1>6
  <2> QED
    BY <1>3, <1>4, <1>5, <2>1
<1> QED
  BY <1>5, <1>7, <1>9, <1>10 DEF x

\* Whole escapes behind whole escapes.
Added(o, e) ==
  /\ o \o e \in Seq(0..255)
  /\ Len(o \o e) <= Len(o) + 3
  /\ Whole(o \o e, Len(o \o e))

LEMMA Appending ==
  ASSUME NEW o \in Seq(0..255), Whole(o, Len(o)),
         NEW e \in Seq(0..255), Len(e) \in 1..3, Whole(e, Len(e))
  PROVE  Added(o, e)
<1>1. /\ o \o e \in Seq(0..255)
      /\ Len(o \o e) = Len(o) + Len(e)
      /\ \A i \in 1..(Len(o) + Len(e)) :
           (o \o e)[i] = IF i <= Len(o) THEN o[i] ELSE e[i - Len(o)]
  BY ConcatProperties
<1>2. Len(o) \in Nat
  BY LenProperties
<1>3. ASSUME NEW i \in 1..(Len(o) + Len(e)), (o \o e)[i] = PERCENT
      PROVE  i + 2 <= Len(o) + Len(e)
  <2>1. CASE i <= Len(o)
    BY <1>1, <1>2, <1>3, <2>1 DEF Whole
  <2>2. CASE i > Len(o)
    <3>1. i - Len(o) \in 1..Len(e) /\ e[i - Len(o)] = PERCENT
      BY <1>1, <1>2, <1>3, <2>2
    <3>2. (i - Len(o)) + 2 <= Len(e)
      BY <3>1 DEF Whole
    <3> QED
      BY <1>2, <3>2
  <2> QED
    BY <1>2, <2>1, <2>2
<1>4. Whole(o \o e, Len(o \o e))
  BY <1>1, <1>3 DEF Whole
<1>5. Len(o \o e) <= Len(o) + 3
  <2>1. Len(o \o e) = Len(o) + Len(e)
    BY <1>1
  <2>2. \A a \in Nat, b \in 1..3 : a + b <= a + 3
    OBVIOUS
  <2> QED
    BY ONLY <1>2, <2>1, <2>2, Len(e) \in 1..3
<1> QED
  BY <1>1, <1>4, <1>5 DEF Added

\* What the encoder adds for a character.
Piece(cd, c) == IF Escaped(cd, c)
                THEN <<PERCENT, HexDigit(c \div 16), HexDigit(c % 16)>> ELSE <<c>>

LEMMA PieceIsWhole ==
  ASSUME NEW c \in 1..255
  PROVE  Piece(codec, c) \in Seq(0..255) /\ Len(Piece(codec, c)) \in 1..3
         /\ Whole(Piece(codec, c), Len(Piece(codec, c)))
<1>1. CASE Escaped(codec, c)
  <2> DEFINE h == HexDigit(c \div 16)
             l == HexDigit(c % 16)
  <2>1. c \div 16 \in 0..15 /\ c % 16 \in 0..15
    OBVIOUS
  <2>2. h \in 48..70 \ {PERCENT} /\ l \in 48..70 \ {PERCENT}
    BY <2>1, DigitIsByte
  <2>3. Piece(codec, c) = <<PERCENT, h, l>>
    BY <1>1 DEF Piece
  <2> HIDE DEF h, l
  <2> QED
    BY <2>2, <2>3 DEF Whole, PERCENT
<1>2. CASE ~Escaped(codec, c)
  <2>1. Piece(codec, c) = <<c>> /\ c # PERCENT
    BY <1>2 DEF Piece, Escaped, sEncodeTable
  <2> QED
    BY <2>1 DEF Whole
<1> QED
  BY <1>1, <1>2
-----------------------------------------------------------------------------
LEMMA HexInvInit == HexInit => HexInv
<1> SUFFICES ASSUME HexInit PROVE HexInv
  OBVIOUS
<1>1. CASE stage = "encode"
  <2>1. plain \in Seq(1..255) /\ mem = <<>> /\ len = 0
    BY <1>1, CStrings DEF HexInit
  <2>2. buf = <<>> /\ p = 1 /\ result = 0 /\ codec \in {"string", "hex"} /\ Len(plain) \in Nat
    BY <2>1, LenProperties DEF HexInit
  <2> QED
    BY <1>1, <2>1, <2>2
       DEF HexInv, HexTypeOK, EndsMarked, SizeInv, EscapeInv, StaysInside, Whole
<1>2. CASE stage # "encode"
  <2>1. PICK s \in HexStrings, b \in Behind :
          stage = "decode" /\ plain = <<>> /\ mem = s \o <<NUL>> \o b \o <<NUL>> /\ len = Len(s)
    BY <1>2 DEF HexInit
  <2>2. s \in Seq(0..255) /\ b \in Seq(1..255)
    BY CStrings
  <2>3. mem \in Seq(0..255) /\ len < Len(mem) /\ mem[len + 1] = NUL /\ len \in Nat
    BY <2>1, <2>2, InMemory, LenProperties
  <2>4. buf = <<>> /\ p = 1 /\ result = 0 /\ codec \in {"string", "hex"}
    BY DEF HexInit
  <2> QED
    BY <1>2, <2>1, <2>3, <2>4
       DEF HexInv, HexTypeOK, EndsMarked, SizeInv, EscapeInv, StaysInside
<1> QED
  BY <1>1, <1>2

LEMMA HexInvNext == HexInv /\ [HexNext]_hexvars => HexInv'
<1> SUFFICES ASSUME HexInv, [HexNext]_hexvars PROVE HexInv'
  OBVIOUS
<1> USE DEF HexInv
<1>0. /\ plain \in Seq(1..255) /\ mem \in Seq(0..255) /\ buf \in Seq(0..255)
      /\ len \in Nat /\ p \in Nat \ {0} /\ Len(buf) \in Nat /\ Len(mem) \in Nat
      /\ Len(plain) \in Nat
  BY LenProperties DEF HexTypeOK
<1>1. CASE EncodeChar
  <2>1. plain[p] \in 1..255
    <3>1. p \in 1..Len(plain)
      BY <1>0, <1>1 DEF EncodeChar
    <3> QED
      BY <1>0, <3>1, ElementOfSeq
  <2>2. Whole(buf, Len(buf))
    BY <1>1 DEF EscapeInv, EncodeChar
  <2>3. buf' \in Seq(0..255) /\ Len(buf') <= Len(buf) + 3 /\ Whole(buf', Len(buf'))
    <3>1. buf' = buf \o Piece(codec, plain[p])
      BY <1>1 DEF EncodeChar, Piece
    <3>2. Added(buf, Piece(codec, plain[p]))
      BY <1>0, <2>1, <2>2, Appending, PieceIsWhole
    <3> QED
      BY <3>1, <3>2 DEF Added
  <2>4. Len(buf') \in Nat
    BY <2>3, LenProperties
  <2>5. HexTypeOK'
    <3>1. UNCHANGED <<stage, codec, plain, mem, len, result>> /\ p' = p + 1
      BY <1>1 DEF EncodeChar
    <3> QED
      BY <1>0, <2>3, <3>1 DEF HexTypeOK
  <2>6. SizeInv'
    BY <1>0, <1>1, <2>3, <2>4 DEF EncodeChar, SizeInv
  <2> QED
    BY <1>1, <2>3, <2>5, <2>6 DEF EncodeChar, EndsMarked, EscapeInv, StaysInside
<1>2. CASE EncodeEnds
  <2>1. PICK b \in Behind : mem' = buf \o <<NUL>> \o b \o <<NUL>>
    BY <1>2 DEF EncodeEnds
  <2>2. b \in Seq(1..255)
    BY CStrings
  <2>3. /\ mem' \in Seq(0..255) /\ Len(buf) < Len(mem') /\ mem'[Len(buf) + 1] = NUL
        /\ \A i \in 1..Len(buf) : mem'[i] = buf[i]
    BY <1>0, <2>1, <2>2, InMemory
  <2>4. HexTypeOK'
    BY <1>0, <1>2, <2>3 DEF EncodeEnds, HexTypeOK
  <2>5. EndsMarked' /\ SizeInv' /\ StaysInside'
    BY <1>0, <1>2, <2>3 DEF EncodeEnds, EndsMarked, SizeInv, StaysInside
  <2>6. EscapeInv'
    BY <1>0, <1>2, <2>3 DEF EncodeEnds, EscapeInv, Whole
  <2> QED
    BY <2>4, <2>5, <2>6
<1>3. CASE DecodePlain
  <2>1. p <= len + 1 => p <= len
    BY <1>0, <1>3 DEF DecodePlain, EndsMarked, At
  <2>2. At(p) \in 0..255
    BY <1>0, AtIsByte
  <2>3. buf' \in Seq(0..255) /\ Len(buf') = Len(buf) + 1
    BY <1>0, <1>3, <2>2 DEF DecodePlain
  <2>4. HexTypeOK'
    BY <1>0, <1>3, <2>3 DEF DecodePlain, HexTypeOK
  <2>5. SizeInv'
    BY <1>0, <1>3, <2>3 DEF DecodePlain, SizeInv
  <2>6. StaysInside'
    BY <1>0, <1>3, <2>1 DEF DecodePlain, StaysInside, CutShort
  <2> QED
    BY <1>3, <2>4, <2>5, <2>6 DEF DecodePlain, EndsMarked, EscapeInv
<1>4. CASE DecodeEscape
  <2>1. p <= len + 1 => p <= len /\ mem[p] = PERCENT
    BY <1>0, <1>4 DEF DecodeEscape, EndsMarked, At, NUL, PERCENT
  <2>2. plain # <<>> => p + 3 <= len + 1
    BY <1>0, <1>4, <2>1 DEF DecodeEscape, EscapeInv, StaysInside, Whole
  <2>3. get_index(At(p + 1)) \in 0..16 /\ get_index(At(p + 2)) \in 0..16
    <3>1. At(p + 1) \in 0..255 /\ At(p + 2) \in 0..255
      BY <1>0, AtIsByte
    <3>2. get_index(At(p + 1)) \in -1..16 /\ get_index(At(p + 2)) \in -1..16
      BY <3>1, IndexIsSmall
    <3> QED
      BY <1>4, <3>2 DEF DecodeEscape
  <2>4. (16 * get_index(At(p + 1)) + get_index(At(p + 2))) % 256 \in 0..255
    BY <2>3
  <2>5. buf' \in Seq(0..255) /\ Len(buf') = Len(buf) + 1
    BY <1>0, <1>4, <2>4 DEF DecodeEscape
  <2>6. HexTypeOK'
    BY <1>0, <1>4, <2>5 DEF DecodeEscape, HexTypeOK
  <2>7. SizeInv'
    BY <1>0, <1>4, <2>5 DEF DecodeEscape, SizeInv
  <2>8. StaysInside'
    <3>1. UNCHANGED <<stage, plain, mem, len>> /\ p' = p + 3 /\ stage = "decode"
      BY <1>4 DEF DecodeEscape
    <3>2. CASE p > len + 1
      BY <3>1, <3>2 DEF StaysInside, CutShort
    <3>3. CASE p <= len + 1 /\ p + 3 > len + 1
      <4>1. plain = <<>>
        BY <1>0, <2>2, <3>3
      <4>2. p = len \/ p = len - 1
        BY <1>0, <2>1, <3>3
      <4>3. CutShort
        BY <1>0, <2>1, <3>3, <4>2 DEF CutShort
      <4> QED
        BY <3>1, <4>1, <4>3 DEF StaysInside, CutShort
    <3>4. CASE p + 3 <= len + 1
      BY <1>0, <3>1, <3>4 DEF StaysInside
    <3> QED
      BY <1>0, <3>2, <3>3, <3>4
  <2> QED
    BY <1>4, <2>6, <2>7, <2>8 DEF DecodeEscape, EndsMarked, EscapeInv
<1>5. CASE DecodeFails
  BY <1>0, <1>5
     DEF DecodeFails, HexTypeOK, EndsMarked, SizeInv, EscapeInv, StaysInside, CutShort
<1>6. CASE StringEnds
  BY <1>0, <1>6
     DEF StringEnds, HexTypeOK, EndsMarked, SizeInv, EscapeInv, StaysInside, CutShort
<1>7. CASE UNCHANGED hexvars
  BY <1>7 DEF hexvars, HexTypeOK, EndsMarked, SizeInv, EscapeInv, StaysInside, CutShort, Whole
<1> QED
  BY <1>1, <1>2, <1>3, <1>4, <1>5, <1>6, <1>7 DEF HexNext

\* String_Encode and HexString_Encode never write beyond the strlen*3+4 bytes of
\* their buffer.  The decoders write beyond their strlen+4 bytes only where the
\* string ends within an escape, which none does that an encoder wrote: as long
\* as they are inside their input they write at most a byte for each they read.
THEOREM BuffersSufficeUnlessCutShort == HexSpec => []FitsBuffer
<1>1. HexInit => HexInv
  BY HexInvInit
<1>2. HexInv /\ [HexNext]_hexvars => HexInv'
  BY HexInvNext
<1>3. HexInv => FitsBuffer
  <2> SUFFICES ASSUME HexInv PROVE FitsBuffer
    OBVIOUS
  <2>1. stage = "encode" => Len(buf) < 3 * Len(plain) + 4
    BY LenProperties DEF HexInv, HexTypeOK, SizeInv
  <2>2. ASSUME stage # "encode", p <= len + 1 PROVE Len(buf) < len + 4
    BY <2>2, LenProperties DEF HexInv, HexTypeOK, SizeInv
  <2>3. ASSUME stage # "encode", p > len + 1 PROVE plain = <<>> /\ CutShort
    BY <2>3 DEF HexInv, StaysInside
  <2>4. p \in Nat /\ len \in Nat
    BY DEF HexInv, HexTypeOK
  <2> QED
    BY <2>1, <2>2, <2>3, <2>4 DEF FitsBuffer
<1> QED
  BY <1>1, <1>2, <1>3, PTL DEF HexSpec

\* String_Decode and HexString_Decode leave their input only where a string ends
\* within an escape, which none does that an encoder wrote.
THEOREM DecoderStaysInside == HexSpec => []StaysInside
<1>1. HexInit => HexInv
  BY HexInvInit
<1>2. HexInv /\ [HexNext]_hexvars => HexInv'
  BY HexInvNext
<1>3. HexInv => StaysInside
  BY DEF HexInv
<1> QED
  BY <1>1, <1>2, <1>3, PTL DEF HexSpec

-----------------------------------------------------------------------------
(***************************************************************************)
(* The round trip.  The first m characters of o are what the encoder makes *)
(* of the first n characters of the text, the i-th of which starts at f[i].*)
(***************************************************************************)
Laid(cd, t, o, m, n, f) ==
  /\ f[1] = 1 /\ f[n + 1] = m + 1
  /\ \A i \in 1..(n + 1) : f[i] <= m + 1
  /\ \A i \in 1..n :
       /\ f[i + 1] = f[i] + Len(Piece(cd, t[i]))
       /\ \A j \in 1..Len(Piece(cd, t[i])) : o[f[i] + j - 1] = Piece(cd, t[i])[j]

Places(n) == [1..(n + 1) -> Nat \ {0}]

\* The decoder stands at the start of a piece and has written the text before it.
Reading(f) ==
  /\ Laid(codec, plain, mem, len, Len(plain), f)
  /\ Len(buf) <= Len(plain)
  /\ p = f[Len(buf) + 1]
  /\ \A i \in 1..Len(buf) : buf[i] = plain[i]

(***************************************************************************)
(* The encoder has laid out the characters before p, and the decoder reads *)
(* what it has laid out.                                                   *)
(***************************************************************************)
LaidInv ==
  plain # <<>> =>
    /\ result = 0
    /\ stage = "encode" =>
         \E f \in Places(p - 1) : Laid(codec, plain, buf, Len(buf), p - 1, f)
    /\ stage = "decode" => \E f \in Places(Len(plain)) : Reading(f)
    /\ stage = "done" => buf = plain

\* get_index finds the digits that sHexTable has.
LEMMA IndexOfDigit ==
  ASSUME NEW n \in 0..15
  PROVE  get_index(HexDigit(n)) = n
  BY DEF get_index, toupper, HexDigit, NUL

\* The two forms of a piece, and what the decoder reads from an escape.
LEMMA PieceIs ==
  ASSUME NEW c \in 1..255
  PROVE  \/ /\ Piece(codec, c) = <<c>> /\ Len(Piece(codec, c)) = 1
            /\ c \notin {NUL, PERCENT}
         \/ /\ Len(Piece(codec, c)) = 3
            /\ Piece(codec, c)[1] = PERCENT
            /\ get_index(Piece(codec, c)[2]) >= 0 /\ get_index(Piece(codec, c)[3]) >= 0
            /\ c = (16 * get_index(Piece(codec, c)[2]) + get_index(Piece(codec, c)[3])) % 256
<1>1. CASE Escaped(codec, c)
  <2> DEFINE h == c \div 16
             l == c % 16
  <2>1. h \in 0..15 /\ l \in 0..15 /\ c = 16 * h + l
    OBVIOUS
  <2>2. Piece(codec, c) = <<PERCENT, HexDigit(h), HexDigit(l)>>
    BY <1>1 DEF Piece
  <2> HIDE DEF h, l
  <2>3. get_index(HexDigit(h)) = h /\ get_index(HexDigit(l)) = l
    BY <2>1, IndexOfDigit
  <2>4. (16 * h + l) % 256 = c
    BY <2>1
  <2>5. h >= 0 /\ l >= 0
    BY <2>1
  <2> QED
    BY <2>2, <2>3, <2>4, <2>5
<1>2. CASE ~Escaped(codec, c)
  BY <1>2 DEF Piece, Escaped, sEncodeTable, NUL
<1> QED
  BY <1>1, <1>2

\* A piece lies among the m characters.
LEMMA Within ==
  ASSUME plain \in Seq(1..255), NEW n \in Nat, n <= Len(plain), NEW m \in Nat, NEW o,
         NEW f \in Places(n), Laid(codec, plain, o, m, n, f),
         NEW i \in 1..n, NEW j \in 1..Len(Piece(codec, plain[i]))
  PROVE  f[i] + j - 1 \in 1..m
<1> DEFINE l == Len(Piece(codec, plain[i]))
<1>1. plain[i] \in 1..255
  <2>1. i \in 1..Len(plain)
    BY LenProperties
  <2> QED
    BY <2>1, ElementOfSeq
<1>2. l \in 1..3
  BY <1>1, PieceIsWhole
<1>3. f[i + 1] = f[i] + l
  BY DEF Laid
<1> HIDE DEF l
<1>4. f[i] \in Nat \ {0} /\ f[i + 1] <= m + 1
  <2>1. i \in 1..(n + 1) /\ i + 1 \in 1..(n + 1)
    OBVIOUS
  <2> QED
    BY <2>1 DEF Places, Laid
<1>5. f[i] + l <= m + 1
  BY <1>3, <1>4
<1>6. j \in Nat \ {0} /\ j <= l
  BY <1>2 DEF l
<1>7. \A a \in Nat \ {0}, k \in Nat \ {0}, x \in 1..3, y \in Nat :
        k <= x /\ a + x <= y + 1 => a + k - 1 \in 1..y
  OBVIOUS
<1> QED
  BY ONLY <1>2, <1>4, <1>5, <1>6, <1>7, m \in Nat

\* One more piece behind the others.
LEMMA LaidMore ==
  ASSUME plain \in Seq(1..255), NEW n \in Nat, n < Len(plain),
         NEW o \in Seq(0..255), NEW f \in Places(n),
         Laid(codec, plain, o, Len(o), n, f),
         NEW e \in Seq(0..255), e = Piece(codec, plain[n + 1])
  PROVE  \E g \in Places(n + 1) : Laid(codec, plain, o \o e, Len(o \o e), n + 1, g)
<1> DEFINE g == [i \in 1..(n + 1 + 1) |->
                   IF i <= n + 1 THEN f[i] ELSE Len(o) + Len(e) + 1]
<1>1. Len(o) \in Nat /\ Len(e) \in Nat
  BY LenProperties
<1>2. \A i \in 1..(n + 1) : f[i] \in Nat \ {0} /\ f[i] <= Len(o) + 1
  BY DEF Places, Laid
<1>3. g \in Places(n + 1)
  BY <1>1, <1>2 DEF Places
<1>4. /\ Len(o \o e) = Len(o) + Len(e)
      /\ \A i \in 1..(Len(o) + Len(e)) :
           (o \o e)[i] = IF i <= Len(o) THEN o[i] ELSE e[i - Len(o)]
  BY ConcatProperties
<1>5. /\ \A i \in 1..(n + 1) : g[i] = f[i]
      /\ g[n + 1 + 1] = Len(o) + Len(e) + 1
  BY <1>1
<1> HIDE DEF g
<1>6. g[1] = 1
  BY <1>5 DEF Laid
<1>7. \A i \in 1..(n + 1 + 1) : g[i] <= Len(o \o e) + 1
  BY <1>1, <1>2, <1>4, <1>5
<1>8. \A i \in 1..(n + 1) : plain[i] \in 1..255
  <2> SUFFICES ASSUME NEW i \in 1..(n + 1) PROVE plain[i] \in 1..255
    OBVIOUS
  <2>1. i \in 1..Len(plain)
    BY LenProperties
  <2> QED
    BY <2>1, ElementOfSeq
<1>9. ASSUME NEW i \in 1..(n + 1)
      PROVE  /\ g[i + 1] = g[i] + Len(Piece(codec, plain[i]))
             /\ \A j \in 1..Len(Piece(codec, plain[i])) :
                  (o \o e)[g[i] + j - 1] = Piece(codec, plain[i])[j]
  <2>1. CASE i = n + 1
    <3>1. g[i] = Len(o) + 1 /\ g[i + 1] = Len(o) + Len(e) + 1
      BY <1>5, <2>1 DEF Laid
    <3>2. ASSUME NEW j \in 1..Len(e) PROVE (o \o e)[Len(o) + j] = e[j]
      BY <1>1, <1>4
    <3>3. ASSUME NEW j \in 1..Len(e) PROVE (o \o e)[g[i] + j - 1] = e[j]
      <4>1. g[i] + j - 1 = Len(o) + j
        BY <1>1, <3>1
      <4> QED
        BY <3>2, <4>1
    <3>4. g[i + 1] = g[i] + Len(e)
      BY <1>1, <3>1
    <3> QED
      BY <2>1, <3>3, <3>4
  <2>2. CASE i # n + 1
    <3> DEFINE P == Piece(codec, plain[i])
    <3>0. i \in 1..n /\ i + 1 \in 1..(n + 1)
      BY <2>2
    <3>1. /\ f[i + 1] = f[i] + Len(P)
          /\ \A j \in 1..Len(P) : o[f[i] + j - 1] = P[j]
      BY <3>0 DEF Laid
    <3> HIDE DEF P
    <3>2. g[i] = f[i] /\ g[i + 1] = f[i + 1]
      BY <1>5, <3>0
    <3>3. f[i] \in Nat \ {0} /\ f[i + 1] \in Nat /\ f[i + 1] <= Len(o) + 1
      BY <1>2, <3>0
    <3>5. ASSUME NEW j \in 1..Len(P) PROVE (o \o e)[g[i] + j - 1] = P[j]
      <4>1. f[i] + j - 1 \in 1..Len(o)
        <5>1. n <= Len(plain)
          BY LenProperties
        <5>2. j \in 1..Len(Piece(codec, plain[i]))
          BY <3>5 DEF P
        <5> QED
          BY <1>1, <3>0, <5>1, <5>2, Within
      <4>2. (o \o e)[f[i] + j - 1] = o[f[i] + j - 1]
        BY <1>1, <1>4, <4>1
      <4> QED
        BY <3>1, <3>2, <4>2
    <3> QED
      BY <3>1, <3>2, <3>5 DEF P
  <2> QED
    BY <2>1, <2>2
<1>10. Laid(codec, plain, o \o e, Len(o \o e), n + 1, g)
  BY <1>1, <1>4, <1>5, <1>6, <1>7, <1>9 DEF Laid
<1> QED
  BY <1>3, <1>10

\* What the decoder finds where the k-th piece starts.
LEMMA PieceFound ==
  ASSUME HexTypeOK, EndsMarked, stage = "decode",
         NEW f \in Places(Len(plain)),
         Laid(codec, plain, mem, len, Len(plain), f),
         NEW k \in 1..Len(plain), p = f[k]
  PROVE  \/ f[k + 1] = p + 1 /\ At(p) = plain[k] /\ plain[k] \notin {NUL, PERCENT}
         \/ /\ f[k + 1] = p + 3
            /\ At(p) = PERCENT
            /\ get_index(At(p + 1)) >= 0 /\ get_index(At(p + 2)) >= 0
            /\ plain[k] = (16 * get_index(At(p + 1)) + get_index(At(p + 2))) % 256
<1> DEFINE P == Piece(codec, plain[k])
<1>1. plain \in Seq(1..255) /\ Len(plain) \in Nat /\ Len(plain) <= Len(plain)
      /\ len \in Nat /\ len < Len(mem)
  BY LenProperties DEF HexTypeOK, EndsMarked
<1>2. plain[k] \in 1..255
  BY <1>1, ElementOfSeq
<1>3. p \in Nat \ {0}
  BY DEF HexTypeOK
<1>4. f[k + 1] = p + Len(P)
  BY DEF Laid
<1>5. ASSUME NEW j \in 1..Len(P) PROVE At(p + j - 1) = P[j]
  <2>1. f[k] + j - 1 \in 1..len
    BY <1>1, Within
  <2>2. mem[f[k] + j - 1] = P[j]
    BY DEF Laid
  <2>3. f[k] + j - 1 <= Len(mem)
    BY <1>1, <2>1, LenProperties DEF HexTypeOK
  <2> QED
    BY <2>2, <2>3 DEF At
<1>6. CASE P = <<plain[k]>> /\ Len(P) = 1 /\ plain[k] \notin {NUL, PERCENT}
  <2>1. At(p + 1 - 1) = P[1] /\ p + 1 - 1 = p
    BY <1>3, <1>5, <1>6
  <2> QED
    BY <1>4, <1>6, <2>1
<1>7. CASE /\ Len(P) = 3
           /\ P[1] = PERCENT
           /\ get_index(P[2]) >= 0 /\ get_index(P[3]) >= 0
           /\ plain[k] = (16 * get_index(P[2]) + get_index(P[3])) % 256
  <2>1. At(p + 1 - 1) = P[1] /\ At(p + 2 - 1) = P[2] /\ At(p + 3 - 1) = P[3]
    BY <1>5, <1>7
  <2>2. p + 1 - 1 = p /\ p + 2 - 1 = p + 1 /\ p + 3 - 1 = p + 2
    BY <1>3
  <2>3. At(p) = P[1] /\ At(p + 1) = P[2] /\ At(p + 2) = P[3]
    BY <2>1, <2>2
  <2> QED
    BY <1>4, <1>7, <2>3
<1>8. \/ P = <<plain[k]>> /\ Len(P) = 1 /\ plain[k] \notin {NUL, PERCENT}
      \/ /\ Len(P) = 3
         /\ P[1] = PERCENT
         /\ get_index(P[2]) >= 0 /\ get_index(P[3]) >= 0
         /\ plain[k] = (16 * get_index(P[2]) + get_index(P[3])) % 256
  BY <1>2, PieceIs
<1> HIDE DEF P
<1> QED
  BY <1>6, <1>7, <1>8

\* Behind the last piece it finds the terminator.
LEMMA EndFound ==
  ASSUME HexTypeOK, EndsMarked, stage = "decode",
         NEW f \in Places(Len(plain)),
         Laid(codec, plain, mem, len, Len(plain), f), p = f[Len(plain) + 1]
  PROVE  At(p) = NUL
<1>1. p = len + 1
  BY DEF Laid
<1>2. len < Len(mem) /\ mem[len + 1] = NUL
  BY DEF EndsMarked
<1> QED
  BY <1>1, <1>2 DEF At

\* The next character of the text behind those already written.
LEMMA OneMore ==
  ASSUME plain \in Seq(1..255), buf \in Seq(0..255), Len(buf) < Len(plain),
         \A i \in 1..Len(buf) : buf[i] = plain[i],
         NEW o, o = Append(buf, plain[Len(buf) + 1])
  PROVE  Len(o) = Len(buf) + 1 /\ \A i \in 1..Len(o) : o[i] = plain[i]
<1>1. plain[Len(buf) + 1] \in 0..255
  <2>1. Len(buf) + 1 \in 1..Len(plain)
    BY LenProperties
  <2>2. plain[Len(buf) + 1] \in 1..255
    BY <2>1, ElementOfSeq
  <2> QED
    BY <2>2
<1>2. /\ Len(o) = Len(buf) + 1
      /\ \A i \in 1..Len(buf) : o[i] = buf[i]
      /\ o[Len(buf) + 1] = plain[Len(buf) + 1]
  BY <1>1, AppendProperties
<1> QED
  BY <1>2, LenProperties
-----------------------------------------------------------------------------
LEMMA LaidInvInit == HexInit => LaidInv
<1> SUFFICES ASSUME HexInit, plain # <<>> PROVE LaidInv
  BY DEF LaidInv
<1>1. stage = "encode" /\ buf = <<>> /\ p = 1 /\ result = 0
  BY DEF HexInit
<1> DEFINE f == [i \in 1..1 |-> 1]
<1>2. f \in Places(p - 1)
  BY <1>1 DEF Places
<1>3. Laid(codec, plain, buf, Len(buf), p - 1, f)
  BY <1>1 DEF Laid
<1> QED
  BY <1>1, <1>2, <1>3 DEF LaidInv

LEMMA LaidInvNext == HexInv /\ LaidInv /\ [HexNext]_hexvars => LaidInv'
<1> SUFFICES ASSUME HexInv, LaidInv, [HexNext]_hexvars, plain' # <<>>
             PROVE  LaidInv'
  BY DEF LaidInv
<1>0. plain' = plain /\ codec' = codec /\ plain # <<>> /\ result = 0
  BY DEF LaidInv, HexNext, hexvars, EncodeChar, EncodeEnds, DecodePlain, DecodeEscape,
         DecodeFails, StringEnds
<1>1. /\ HexTypeOK /\ EndsMarked
      /\ plain \in Seq(1..255) /\ buf \in Seq(0..255) /\ p \in Nat \ {0}
      /\ Len(plain) \in Nat /\ Len(buf) \in Nat
  BY LenProperties DEF HexInv, HexTypeOK
<1>2. CASE EncodeChar
  <2>1. /\ stage = "encode" /\ p <= Len(plain)
        /\ buf' = buf \o Piece(codec, plain[p])
        /\ p' = p + 1 /\ stage' = "encode" /\ result' = result
    BY <1>2 DEF EncodeChar, Piece
  <2>2. PICK f \in Places(p - 1) : Laid(codec, plain, buf, Len(buf), p - 1, f)
    BY <1>0, <2>1 DEF LaidInv
  <2> DEFINE n == p - 1
             e == Piece(codec, plain[n + 1])
  <2>3. n \in Nat /\ n < Len(plain) /\ n + 1 = p
    BY <1>1, <2>1
  <2>4. e \in Seq(0..255)
    <3>1. n + 1 \in 1..Len(plain)
      BY <1>1, <2>3
    <3>2. plain[n + 1] \in 1..255
      BY <1>1, <3>1, ElementOfSeq
    <3> QED
      BY <3>2, PieceIsWhole
  <2>5. buf' = buf \o e /\ p' - 1 = n + 1
    BY <1>1, <2>1, <2>3
  <2>6. f \in Places(n) /\ Laid(codec, plain, buf, Len(buf), n, f)
    BY <2>2
  <2> HIDE DEF n
  <2>7. \E g \in Places(n + 1) : Laid(codec, plain, buf \o e, Len(buf \o e), n + 1, g)
    BY <1>1, <2>3, <2>4, <2>6, LaidMore
  <2>8. \E g \in Places(p' - 1) : Laid(codec', plain', buf', Len(buf'), p' - 1, g)
    BY <1>0, <2>5, <2>7
  <2> QED
    BY <1>0, <2>1, <2>8 DEF LaidInv
<1>3. CASE EncodeEnds
  <2>1. /\ stage = "encode" /\ p > Len(plain)
        /\ len' = Len(buf) /\ stage' = "decode" /\ p' = 1 /\ buf' = <<>> /\ result' = result
    BY <1>3 DEF EncodeEnds
  <2>2. PICK b \in Behind : mem' = buf \o <<NUL>> \o b \o <<NUL>>
    BY <1>3 DEF EncodeEnds
  <2>3. b \in Seq(1..255)
    BY CStrings
  <2>4. \A i \in 1..Len(buf) : mem'[i] = buf[i]
    BY <1>1, <2>2, <2>3, InMemory
  <2>5. p - 1 = Len(plain)
    BY <1>1, <2>1 DEF HexInv, SizeInv
  <2>6. PICK f \in Places(Len(plain)) : Laid(codec, plain, buf, Len(buf), Len(plain), f)
    BY <1>0, <2>1, <2>5 DEF LaidInv
  <2>7. ASSUME NEW i \in 1..Len(plain), NEW j \in 1..Len(Piece(codec, plain[i]))
        PROVE  mem'[f[i] + j - 1] = Piece(codec, plain[i])[j]
    <3>1. f[i] + j - 1 \in 1..Len(buf)
      <4>1. Len(plain) <= Len(plain)
        BY <1>1
      <4> QED
        BY <1>1, <2>6, <4>1, Within
    <3>2. buf[f[i] + j - 1] = Piece(codec, plain[i])[j]
      BY <2>6 DEF Laid
    <3> QED
      BY <2>4, <3>1, <3>2
  <2>8. Laid(codec', plain', mem', len', Len(plain'), f)
    BY <1>0, <2>1, <2>6, <2>7 DEF Laid
  <2>9. Len(buf') <= Len(plain') /\ p' = f[Len(buf') + 1]
        /\ \A i \in 1..Len(buf') : buf'[i] = plain'[i]
    BY <1>0, <1>1, <2>1, <2>6 DEF Laid
  <2>10. Reading(f)'
    BY <2>8, <2>9 DEF Reading
  <2> QED
    BY <1>0, <2>1, <2>6, <2>10 DEF LaidInv
<1>4. CASE stage = "decode"
  <2>1. PICK f \in Places(Len(plain)) : Reading(f)
    BY <1>0, <1>4 DEF LaidInv
  <2> DEFINE k == Len(buf) + 1
  <2>2. /\ Laid(codec, plain, mem, len, Len(plain), f)
        /\ Len(buf) <= Len(plain) /\ p = f[k]
        /\ \A i \in 1..Len(buf) : buf[i] = plain[i]
    BY <2>1 DEF Reading
  <2>3. CASE Len(buf) = Len(plain)
    <3>1. At(p) = NUL
      BY <1>1, <1>4, <2>2, <2>3, EndFound
    <3>2. StringEnds \/ UNCHANGED hexvars
      BY <1>4, <3>1 DEF HexNext, EncodeChar, EncodeEnds, DecodePlain, DecodeEscape,
                        DecodeFails, NUL, PERCENT
    <3>3. buf = plain
      <4>1. plain \in Seq(0..255)
        BY <1>1
      <4> QED
        BY <1>1, <2>2, <2>3, <4>1, SeqEqual
    <3>4. CASE StringEnds
      BY <1>0, <3>3, <3>4 DEF StringEnds, LaidInv
    <3>5. CASE UNCHANGED hexvars
      BY <1>0, <3>5 DEF hexvars, LaidInv, Reading
    <3> QED
      BY <3>2, <3>4, <3>5
  <2>4. CASE Len(buf) # Len(plain)
    <3>1. k \in 1..Len(plain) /\ Len(buf) < Len(plain)
      BY <1>1, <2>2, <2>4
    <3>2. \/ f[k + 1] = p + 1 /\ At(p) = plain[k] /\ plain[k] \notin {NUL, PERCENT}
          \/ /\ f[k + 1] = p + 3
             /\ At(p) = PERCENT
             /\ get_index(At(p + 1)) >= 0 /\ get_index(At(p + 2)) >= 0
             /\ plain[k] = (16 * get_index(At(p + 1)) + get_index(At(p + 2))) % 256
      BY <1>1, <1>4, <2>2, <3>1, PieceFound
    <3>3. \/ /\ buf' = Append(buf, plain[k]) /\ p' = f[k + 1]
             /\ stage' = stage /\ mem' = mem /\ len' = len /\ result' = result
          \/ UNCHANGED hexvars
      <4>1. DecodePlain \/ DecodeEscape \/ DecodeFails \/ StringEnds \/ UNCHANGED hexvars
        BY <1>4 DEF HexNext, EncodeChar, EncodeEnds
      <4> DEFINE a == At(p)
                 h == get_index(At(p + 1))
                 l == get_index(At(p + 2))
      <4>2. DecodePlain => /\ a \notin {NUL, PERCENT} /\ buf' = Append(buf, a)
                           /\ p' = p + 1
                           /\ stage' = stage /\ mem' = mem /\ len' = len /\ result' = result
        BY DEF DecodePlain
      <4>3. DecodeEscape => /\ a = PERCENT /\ buf' = Append(buf, (16 * h + l) % 256)
                            /\ p' = p + 3
                            /\ stage' = stage /\ mem' = mem /\ len' = len /\ result' = result
        BY DEF DecodeEscape
      <4>4. DecodeFails => a = PERCENT /\ ~(h >= 0 /\ l >= 0)
        <5>1. At(p + 1) \in 0..255 /\ At(p + 2) \in 0..255
          BY <1>1, AtIsByte DEF HexTypeOK
        <5>2. h \in -1..16 /\ l \in -1..16
          BY <5>1, IndexIsSmall
        <5>3. DecodeFails => a = PERCENT /\ (h < 0 \/ l < 0)
          BY DEF DecodeFails
        <5> HIDE DEF a, h, l
        <5> QED
          BY <5>2, <5>3
      <4>5. StringEnds => a = NUL
        BY DEF StringEnds
      <4>6. \/ f[k + 1] = p + 1 /\ a = plain[k] /\ plain[k] \notin {NUL, PERCENT}
            \/ /\ f[k + 1] = p + 3 /\ a = PERCENT
               /\ h >= 0 /\ l >= 0 /\ plain[k] = (16 * h + l) % 256
        BY <3>2
      <4> HIDE DEF a, h, l, k
      <4>7. NUL # PERCENT
        BY DEF NUL, PERCENT
      <4> QED
        BY <4>1, <4>2, <4>3, <4>4, <4>5, <4>6, <4>7
    <3>4. CASE /\ buf' = Append(buf, plain[k]) /\ p' = f[k + 1]
               /\ stage' = stage /\ mem' = mem /\ len' = len /\ result' = result
      <4>1. Len(buf') = Len(buf) + 1 /\ \A i \in 1..Len(buf') : buf'[i] = plain[i]
        BY <1>1, <2>2, <3>1, <3>4, OneMore
      <4>2. Len(buf') <= Len(plain') /\ p' = f[Len(buf') + 1]
        BY <1>0, <1>1, <3>1, <3>4, <4>1
      <4>3. Reading(f)'
        BY <1>0, <2>2, <3>4, <4>1, <4>2 DEF Reading
      <4> QED
        BY <1>0, <1>4, <3>4, <4>3 DEF LaidInv
    <3>5. CASE UNCHANGED hexvars
      BY <1>0, <3>5 DEF hexvars, LaidInv, Reading
    <3> QED
      BY <3>3, <3>4, <3>5
  <2> QED
    BY <2>3, <2>4
<1>5. CASE UNCHANGED hexvars
  BY <1>5 DEF hexvars, LaidInv, Reading
<1> QED
  BY <1>2, <1>3, <1>4, <1>5 DEF HexNext, DecodePlain, DecodeEscape, DecodeFails, StringEnds

\* Decoding what String_Encode or HexString_Encode wrote gives the text back, for
\* texts of every length: also those that hold the escape character, digits behind
\* it, or bytes that are not printable.
THEOREM EscapesSurvive == HexSpec => []HexRoundTrip
<1>1. HexInit => HexInv /\ LaidInv
  BY HexInvInit, LaidInvInit
<1>2. HexInv /\ LaidInv /\ [HexNext]_hexvars => HexInv' /\ LaidInv'
  BY HexInvNext, LaidInvNext
<1>3. HexInv /\ LaidInv => HexRoundTrip
  BY DEF LaidInv, HexRoundTrip
<1> QED
  BY <1>1, <1>2, <1>3, PTL DEF HexSpec
=============================================================================
