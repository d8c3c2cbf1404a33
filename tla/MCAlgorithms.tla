---------------------------- MODULE MCAlgorithms ----------------------------
\* The pure algorithms, one beside the other: the Lua compiler with its machine,
\* Lua's pattern matching, and the codecs of libtools.  They share no state: which
\* says which one runs, and st is the state of the machine or the matcher.
EXTENDS Base64, HexCodec

Upto(S, n) == UNION {[1..k -> S] : k \in 0..n}
-----------------------------------------------------------------------------
\* Texts for Base64: a text of n bytes that run through all values with n's
\* neighbours; one group with the bytes' high and low bits on and off, behind two
\* groups that make the buffer of encode_base64 large enough.
Ramp(n) == [i \in 1..n |-> ((37 * i + 11 * n) % 255) + 1]
MCTexts ==
  {<<1, 2, 3, 250, 5, 6>> \o t : t \in Upto({1, 85, 128, 170, 255}, 4)}
  \cup {Ramp(n) : n \in 0..40}
\* Strings of one and of two groups over a character of each kind.
MCStrings == Upto({0, 63, Pad, Other}, 4) \cup [1..8 -> {63, Pad, Other}]
\* Nothing, a character of the alphabet, one that is not.
MCGarbage == {<<>>, <<7>>, <<Other>>}

\* For the escaping codecs: 'a' and '2' (also hexadecimal digits), 'z' (not one),
\* '%', LF, and a byte with its high bit set; behind a string: nothing, a digit, an
\* escape, two letters.
MCHexTexts == Upto({97, 50, 122, 37, 10, 200}, 4)
MCHexStrings == Upto({97, 50, 122, 37, 10}, 5)
MCBehind == {<<>>, <<50>>, <<37, 50, 50>>, <<50, 122, 122, 122, 122, 122>>}
-----------------------------------------------------------------------------
\* Subjects over two letters, and patterns of two repetitions with captures around
\* them, or with the other items beside them.
PatChars == {"a", "b"}
Subjects == UNION {[1..n -> PatChars] : n \in 0..3} \cup {<<"a", "b", "a", "b">>,
                                                       <<"a", "a", "b", "b">>}
Item(k, c) == [k |-> k, set |-> c]
Open == [k |-> "open"]
Close == [k |-> "close"]
Here == [k |-> "position"]
End == [k |-> "end"]
Reps == {Item(k, c) : k \in {"one", "opt", "star", "plus", "lazy"}, c \in {{"a"}, PatChars}}
Again(n) == [k |-> "ref", n |-> n]
Balance == [k |-> "balance", x |-> "a", y |-> "b"]
Front_ == [k |-> "frontier", set |-> {"b"}]
JustB == Item("one", {"b"})
Shapes ==
  UNION {{<<x, y>>, <<Open, x, Close, y, Again(1)>>, <<x, Open, y, Close, JustB>>,
          <<x, Open, y, Here, Close, End>>, <<Open, Open, x, Close, y, Close, Again(2)>>,
          <<Balance, x, y>>, <<x, Front_, y>>, <<Front_, x, JustB>>} :
         x \in Reps, y \in Reps}
  \cup {<<>>, <<JustB>>, <<JustB, Item("one", {"a"})>>, <<End>>, <<Here>>, <<Balance, End>>}
Patterns == {[items |-> shape, anchor |-> a] : shape \in Shapes, a \in BOOLEAN}
-----------------------------------------------------------------------------
CONSTANTS Fields, MaxStack, Programs
VARIABLES which, st

VM == INSTANCE LuaVM WITH s <- st
Syntax == INSTANCE LuaPrograms
MCPrograms == LET programs == Syntax!AllPrograms
              IN  [prog \in programs |-> VM!Processed(prog)]
Matching == INSTANCE LuaMatch WITH s <- st, Inits <- {1, -2}

\* The state of a codec where another algorithm runs.
NoBase64 == /\ pc = "idle" /\ text = <<>> /\ enc = 0 /\ input = <<>>
            /\ size = 0 /\ out = <<>> /\ count = 0 /\ ret = 0
NoHex == /\ stage = "idle" /\ codec = "none" /\ plain = <<>> /\ mem = <<>>
         /\ len = 0 /\ p = 0 /\ buf = <<>> /\ result = 0
MCInit ==
  \/ which = "base64" /\ Init /\ NoHex /\ st = 0
  \/ which = "hex" /\ HexInit /\ NoBase64 /\ st = 0
  \/ which = "vm" /\ VM!Init /\ NoBase64 /\ NoHex
  \/ which = "match" /\ Matching!Init /\ NoBase64 /\ NoHex
MCNext ==
  \/ which = "base64" /\ Next /\ UNCHANGED <<which, st, hexvars>>
  \/ which = "hex" /\ HexNext /\ UNCHANGED <<which, st, vars>>
  \/ which = "vm" /\ VM!Next /\ UNCHANGED <<which, vars, hexvars>>
  \/ which = "match" /\ Matching!Next /\ UNCHANGED <<which, vars, hexvars>>
mcvars == <<which, st, vars, hexvars>>
MCSpec == MCInit /\ [][MCNext]_mcvars
-----------------------------------------------------------------------------
\* The codecs' properties say nothing where their codec is idle.  What the others
\* mean, their modules say.
AssertionsHold == which = "vm" => VM!AssertionsHold
SameMeaning == which = "vm" => VM!SameMeaning
FindIsMeant == which = "match" => Matching!FindIsMeant
SameMatches == which = "match" => Matching!SameMatches
=============================================================================
