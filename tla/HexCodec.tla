------------------------------ MODULE HexCodec ------------------------------
(***************************************************************************)
(* The escaping codecs (tools/hex.cpp): String_Encode escapes the          *)
(* characters of sEncodeTable as % and two hexadecimal digits,             *)
(* HexString_Encode also whatever is not printable; the two decoders are   *)
(* the same.  A text is encoded and the result decoded, or some other      *)
(* string is decoded.  The decoder walks with a pointer through memory     *)
(* that ends with the terminator only if it does not step over it; what    *)
(* lies behind is not the codec's.                                         *)
(***************************************************************************)
EXTENDS Integers, Sequences

CONSTANTS
  HexTexts,    \* the texts that are encoded: strings of bytes other than NUL
  HexStrings,  \* other strings that are decoded
  Behind       \* what memory may hold behind a terminator, up to the next one

\* Strings of C: no NUL among their characters.
ASSUME CStrings ==
  /\ HexTexts \subseteq Seq(1..255)
  /\ HexStrings \subseteq Seq(1..255)
  /\ Behind \subseteq Seq(1..255)

VARIABLES
  stage,   \* "encode", "decode", "done"
  codec,   \* "string" or "hex"
  plain,   \* the text that is encoded; <<>> when only a string is decoded
  mem,     \* the decoder's input, its terminator and the memory behind it
  len,     \* strlen of the decoder's input, or of what is encoded so far
  p,       \* the index of the next character
  buf,     \* what is written to the buffer
  result   \* the decoder's return value

hexvars == <<stage, codec, plain, mem, len, p, buf, result>>

NUL == 0
PERCENT == 37
sEncodeTable == {61, 38, PERCENT, 13, 10}  \* = & % CR LF
isprint(c) == c \in 32..126
toupper(c) == IF c \in 97..122 THEN c - 32 ELSE c

\* sHexTable: the digit for a number below 16.
HexDigit(n) == IF n < 10 THEN 48 + n ELSE 55 + n

\* strchr also finds the terminator, behind the sixteen digits.
get_index(ch) ==
  IF toupper(ch) \in 48..57 THEN toupper(ch) - 48
  ELSE IF toupper(ch) \in 65..70 THEN toupper(ch) - 55
  ELSE IF ch = NUL THEN 16 ELSE -1

\* MUTANT: the escape character itself is not escaped.
EscapedNotPercent(cd, c) == c \in sEncodeTable \ {PERCENT} \/ (cd = "hex" /\ ~isprint(c))

Escaped(cd, c) == c \in sEncodeTable \/ (cd = "hex" /\ ~isprint(c))

HexInit ==
  /\ codec \in {"string", "hex"}
  /\ \/ stage = "encode" /\ plain \in HexTexts /\ mem = <<>> /\ len = 0
     \/ \E s \in HexStrings, b \in Behind :
          /\ stage = "decode"
          /\ plain = <<>>
          /\ mem = s \o <<NUL>> \o b \o <<NUL>>
          /\ len = Len(s)
  /\ p = 1
  /\ buf = <<>>
  /\ result = 0

\* MUTANT: an escape is written with a terminator of its own.
EncodeCharFour ==
  /\ stage = "encode"
  /\ p <= Len(plain)
  /\ LET c == plain[p] IN
       buf' = buf \o IF Escaped(codec, c)
                     THEN <<PERCENT, HexDigit(c \div 16), HexDigit(c % 16), NUL>>
                     ELSE <<c>>
  /\ p' = p + 1
  /\ UNCHANGED <<stage, codec, plain, mem, len, result>>

\* One turn of the encoder's loop.
EncodeChar ==
  /\ stage = "encode"
  /\ p <= Len(plain)
  /\ LET c == plain[p] IN
       buf' = buf \o IF Escaped(codec, c)
                     THEN <<PERCENT, HexDigit(c \div 16), HexDigit(c % 16)>>
                     ELSE <<c>>
  /\ p' = p + 1
  /\ UNCHANGED <<stage, codec, plain, mem, len, result>>

\* The encoder returns, and its result goes to the decoder.
EncodeEnds ==
  /\ stage = "encode"
  /\ p > Len(plain)
  /\ \E b \in Behind : mem' = buf \o <<NUL>> \o b \o <<NUL>>
  /\ len' = Len(buf)
  /\ stage' = "decode"
  /\ p' = 1
  /\ buf' = <<>>
  /\ UNCHANGED <<codec, plain, result>>

\* The character at index i; memory nobody described stops everything.
At(i) == IF i <= Len(mem) THEN mem[i] ELSE NUL

DecodePlain ==
  /\ stage = "decode"
  /\ At(p) \notin {NUL, PERCENT}
  /\ buf' = Append(buf, At(p))
  /\ p' = p + 1
  /\ UNCHANGED <<stage, codec, plain, mem, len, result>>

\* MUTANT: the value is not cut to a char.
DecodeEscapeWide ==
  /\ stage = "decode"
  /\ At(p) = PERCENT
  /\ get_index(At(p + 1)) >= 0 /\ get_index(At(p + 2)) >= 0
  /\ buf' = Append(buf, 16 * get_index(At(p + 1)) + get_index(At(p + 2)))
  /\ p' = p + 3
  /\ UNCHANGED <<stage, codec, plain, mem, len, result>>

\* MUTANT: the pointer is moved once more behind an escape.
DecodeEscapeSkips ==
  /\ stage = "decode"
  /\ At(p) = PERCENT
  /\ get_index(At(p + 1)) >= 0 /\ get_index(At(p + 2)) >= 0
  /\ buf' = Append(buf, (16 * get_index(At(p + 1)) + get_index(At(p + 2))) % 256)
  /\ p' = p + 4
  /\ UNCHANGED <<stage, codec, plain, mem, len, result>>

\* % and two characters that get_index knows.
DecodeEscape ==
  /\ stage = "decode"
  /\ At(p) = PERCENT
  /\ get_index(At(p + 1)) >= 0 /\ get_index(At(p + 2)) >= 0
  /\ buf' = Append(buf, (16 * get_index(At(p + 1)) + get_index(At(p + 2))) % 256)
  /\ p' = p + 3
  /\ UNCHANGED <<stage, codec, plain, mem, len, result>>

\* % and something else: -2.
DecodeFails ==
  /\ stage = "decode"
  /\ At(p) = PERCENT
  /\ get_index(At(p + 1)) < 0 \/ get_index(At(p + 2)) < 0
  /\ result' = -2
  /\ stage' = "done"
  /\ UNCHANGED <<codec, plain, mem, len, p, buf>>

StringEnds ==
  /\ stage = "decode"
  /\ At(p) = NUL
  /\ stage' = "done"
  /\ UNCHANGED <<codec, plain, mem, len, p, buf, result>>

HexNext == EncodeChar \/ EncodeEnds \/ DecodePlain \/ DecodeEscape \/ DecodeFails
        \/ StringEnds

HexSpec == HexInit /\ [][HexNext]_hexvars
-----------------------------------------------------------------------------
HexTypeOK ==
  /\ stage \in {"encode", "decode", "done"}
  /\ codec \in {"string", "hex"}
  /\ plain \in Seq(1..255)
  /\ mem \in Seq(0..255)
  /\ len \in Nat
  /\ p \in Nat \ {0}
  /\ buf \in Seq(0..255)
  /\ result \in {0, -2}

(***************************************************************************)
(* Decoding what an encoder wrote gives the text back, for both codecs and *)
(* texts with escape characters, digits behind them and bytes that are not *)
(* printable.                                                              *)
(***************************************************************************)
HexRoundTrip == stage = "done" /\ plain # <<>> => result = 0 /\ buf = plain

\* The string at mem ends within an escape: % and at most one character.
CutShort ==
  \/ len >= 1 /\ mem[len] = PERCENT
  \/ len >= 2 /\ mem[len - 1] = PERCENT

(***************************************************************************)
(* The encoded text and its terminator fit the strlen*3+4 bytes of the     *)
(* encoder's buffer, and the decoder's output the strlen+4 of its own,     *)
(* with one exception: a string that ends within an escape.  There the     *)
(* decoder goes on behind the terminator, through memory strlen did not    *)
(* count, and writes as far beyond its heap buffer as that memory reaches. *)
(* Nothing an encoder wrote is such a string.                              *)
(***************************************************************************)
FitsBuffer ==
  /\ stage = "encode" => Len(buf) < 3 * Len(plain) + 4
  /\ stage # "encode" => Len(buf) < len + 4 \/ (plain = <<>> /\ CutShort)

(***************************************************************************)
(* get_index takes the terminator for a digit, so a string that ends in    *)
(* the middle of an escape leads the decoder behind its end.  No other     *)
(* string does: in particular none that an encoder wrote.                  *)
(***************************************************************************)
StaysInside ==
  stage # "encode" /\ p > len + 1 => plain = <<>> /\ CutShort

=============================================================================
