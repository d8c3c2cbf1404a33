------------------------------- MODULE Base64 -------------------------------
(***************************************************************************)
(* The base64 codec (tools/base64.c) as scripts use it through libtools    *)
(* (encode_base64, decode_base64 in tools/tools.cpp): a text is encoded    *)
(* and what that returned is decoded, as bin/scripts/main.lua does, or     *)
(* some other string is decoded.                                           *)
(*                                                                         *)
(* A byte is a number below 256.  A character of an encoded string is a    *)
(* number below 64 (the tables base64_char and index_64 are inverse to     *)
(* each other), Pad for '=', or Other for a character in neither.          *)
(***************************************************************************)
EXTENDS Integers, Sequences

CONSTANTS
  Texts,    \* the texts that are encoded: strings of bytes other than NUL
  Strings,  \* other strings that are decoded
  Garbage   \* what may follow a buffer that has no terminator

Byte == 0..255
Sextet == 0..63
Pad == -1
Other == -2
Char == Sextet \cup {Pad, Other}

ASSUME CodecAssumption ==
  /\ Texts \subseteq Seq(1..255)
  /\ Strings \subseteq Seq(Char)
  /\ Garbage \subseteq Seq(Char)

VARIABLES
  pc,     \* "encode", "enter", "decode", "done"
  text,   \* the text that is encoded; <<>> when only a string is decoded
  enc,    \* what encode_base64 returned to the script
  input,  \* the string that is decoded
  size,   \* output_size
  out,    \* output, the *result_length bytes written to it
  count,  \* how much of the input is decoded
  ret     \* what Base64_Decode returned

vars == <<pc, text, enc, input, size, out, count, ret>>

XX == 127
CHAR64(c) == IF c \in Sextet THEN c ELSE XX
-----------------------------------------------------------------------------
(* The encoder.                                                            *)

\* MUTANT: the size base64.h gives for a string of full groups.
BufferForExact(n) == (n * 3) \div 4

\* The size of the buffer that tools.cpp makes for a string of n characters.
BufferFor(n) == (n \div 2) * 3

\* encode_length of Base64_Encode.
EncodedLength(n) == ((n + 2) \div 3) * 4

\* MUTANT: the remainder of the second byte is not shifted.
Base64EncodeGroupUnshifted(a, b, c, len) ==
  <<a \div 4,
    (a % 4) * 16 + (IF len > 1 THEN b \div 16 ELSE 0),
    IF len > 1 THEN (b % 16) + (IF len > 2 THEN c \div 64 ELSE 0) ELSE Pad,
    IF len > 2 THEN c % 64 ELSE Pad>>

\* The four characters for a group of len bytes a, b, c.
Base64EncodeGroup(a, b, c, len) ==
  <<a \div 4,
    (a % 4) * 16 + (IF len > 1 THEN b \div 16 ELSE 0),
    IF len > 1 THEN (b % 16) * 4 + (IF len > 2 THEN c \div 64 ELSE 0) ELSE Pad,
    IF len > 2 THEN c % 64 ELSE Pad>>

\* The characters Base64_Encode writes, group by group.
Base64Encoded(s) ==
  LET at(i) == IF i <= Len(s) THEN s[i] ELSE 0
      group(i) == Base64EncodeGroup(at(3 * i + 1), at(3 * i + 2), at(3 * i + 3),
                                    Len(s) - 3 * i)
  IN [k \in 1..EncodedLength(Len(s)) |-> group((k - 1) \div 4)[((k - 1) % 4) + 1]]

(***************************************************************************)
(* encode_base64, with the buffer it makes.  The result is the buffer as a *)
(* C string: empty when Base64_Encode refuses (-2), and running on into    *)
(* whatever follows when the buffer has no byte for the terminator.        *)
(***************************************************************************)
EncodeResults(s) ==
  LET room == BufferFor(Len(s)) - EncodedLength(Len(s))
      coded == IF room >= 0 THEN Base64Encoded(s) ELSE <<>>
  IN [ret : {IF room >= 0 THEN 0 ELSE -2},
      str : IF room = 0 \/ BufferFor(Len(s)) = 0
            THEN {coded \o g : g \in Garbage} ELSE {coded}]

Init ==
  /\ \/ pc = "encode" /\ text \in Texts /\ input = <<>>
     \/ pc = "enter" /\ text = <<>> /\ input \in Strings
  /\ enc = [ret |-> 0, str |-> <<>>]
  /\ size = 0
  /\ out = <<>>
  /\ count = 0
  /\ ret = 0

\* encode_base64(text); the script goes on with the string it got.
Encode ==
  /\ pc = "encode"
  /\ \E r \in EncodeResults(text) : enc' = r /\ input' = r.str
  /\ pc' = "enter"
  /\ UNCHANGED <<text, size, out, count, ret>>
-----------------------------------------------------------------------------
(* The decoder.                                                            *)

\* decode_base64 makes a buffer and calls Base64_Decode.
Enter ==
  /\ pc = "enter"
  /\ size' = BufferFor(Len(input))
  /\ IF Len(input) % 4 # 0 THEN ret' = -2 /\ pc' = "done"
                           ELSE ret' = 0 /\ pc' = "decode"
  /\ UNCHANGED <<text, enc, input, out, count>>

\* The group at count: its i-th character.
In(i) == input[count + i]

\* How many bytes a group holds, by its padding.
GroupSize ==
  IF In(3) = Pad /\ In(4) = Pad THEN 1 ELSE IF In(4) = Pad THEN 2 ELSE 3

\* The characters of a group of n bytes are sound.
Sound(n) == \A i \in 1..(n + 1) : CHAR64(In(i)) # XX

\* MUTANT: the shifted values are not cut to a byte.
Base64DecodeGroupWide(a, b, c, d) ==
  <<a * 4 + b \div 16, b * 16 + c \div 4, c * 64 + d>>

\* Base64DecodeGroup on the values of the four characters.
Base64DecodeGroup(a, b, c, d) ==
  <<((a * 4) % 256) + b \div 16,
    ((b * 16) % 256) + c \div 4,
    ((c * 64) % 256) + d>>

Stop(code) ==
  /\ ret' = code
  /\ pc' = "done"
  /\ UNCHANGED <<text, enc, input, size, out, count>>

\* One turn of the loop that decodes a group.
DecodeGroup ==
  /\ pc = "decode"
  /\ count < Len(input)
  /\ Len(out) < size
  /\ Sound(GroupSize)
  /\ out' = out \o SubSeq(Base64DecodeGroup(CHAR64(In(1)), CHAR64(In(2)),
                                            CHAR64(In(3)), CHAR64(In(4))),
                          1, GroupSize)
  /\ count' = count + 4
  /\ UNCHANGED <<pc, text, enc, input, size, ret>>

\* The turns that return: -3 for a full buffer, else by the kind of group.
DecodeStops ==
  /\ pc = "decode"
  /\ count < Len(input)
  /\ \/ Len(out) >= size /\ Stop(-3)
     \/ Len(out) < size /\ ~Sound(GroupSize) /\ Stop(-3 - GroupSize)

DecodeEnds == pc = "decode" /\ count >= Len(input) /\ Stop(0)

Next == Encode \/ Enter \/ DecodeGroup \/ DecodeStops \/ DecodeEnds

Spec == Init /\ [][Next]_vars
-----------------------------------------------------------------------------
TypeOK ==
  /\ pc \in {"encode", "enter", "decode", "done"}
  /\ text \in Seq(1..255)
  /\ enc.ret \in {0, -2} /\ enc.str \in Seq(Char)
  /\ input \in Seq(Char)
  /\ size \in Nat
  /\ out \in Seq(Byte)
  /\ count \in Nat
  /\ ret \in -6..0

\* The buffer of encode_base64 holds the encoded text and its terminator.
Terminated == EncodedLength(Len(text)) < BufferFor(Len(text))

(***************************************************************************)
(* Base64_Decode inverts Base64_Encode, for texts of every length modulo 3 *)
(* and all the places a bit can be, whenever the buffer of encode_base64   *)
(* holds the result and its terminator.                                    *)
(***************************************************************************)
RoundTrip ==
  pc = "done" /\ text # <<>> /\ Terminated => enc.ret = 0 /\ ret = 0 /\ out = text

(***************************************************************************)
(* Base64_Decode tests for a full buffer before a group and then writes up *)
(* to three bytes, and lua_pushstring takes the buffer for a C string.     *)
(* With the buffer that decode_base64 makes for a string of two characters *)
(* or more, nothing is written behind its end or over its last, zero byte, *)
(* and the test never fails (-3).                                          *)
(***************************************************************************)
DecodeInside ==
  /\ pc \in {"decode", "done"} /\ Len(input) >= 2 => Len(out) < size
  /\ ret # -3

=============================================================================
