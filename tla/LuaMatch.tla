------------------------------ MODULE LuaMatch ------------------------------
(***************************************************************************)
(* Pattern matching in the embedded Lua (lstrlib.c): the backtracking      *)
(* matcher with its captures, and find, match, gmatch and gsub, which call *)
(* it from one position after the other.                                   *)
(*                                                                         *)
(* A subject is a sequence of characters, positions count those in front,  *)
(* and a pattern is a sequence of items: [k |-> "one" | "opt" | "star" |   *)
(* "plus" | "lazy", set |-> the characters of the class], "open", "close"  *)
(* and "position" for the parentheses, "ref" for %n, "balance" for %bxy,   *)
(* "frontier" for %f[set] and "end" for $.  ms is the MatchState; it is    *)
(* passed on through failed attempts, which have to undo what they did.    *)
(* Left out: malformed patterns, and the text of a replacement.            *)
(***************************************************************************)
EXTENDS Integers, Sequences, SequencesExt, FiniteSets

CONSTANTS
  Subjects, Patterns,
  Inits \* the third argument of find

VARIABLE s \* [src, pat, init, phase, pos, found: find's result,
           \*  list: gmatch's matches, subs: gsub's]

Unfinished == -1 \* CAP_UNFINISHED
Position == -2   \* CAP_POSITION
Null == -1
MatchState == [level |-> 0, capture |-> <<>>]
Result(e, ms) == [e |-> e, ms |-> ms]
At(x, i) == x[i + 1]
\* singlematch
Single(x, i, item) == i < Len(x) /\ At(x, i) \in item.set

\* matchbalance
MatchBalance(x, i, item) ==
  LET opens(j) == Cardinality({k \in i..(j - 1) : At(x, k) = item.x /\ item.x # item.y})
      shuts(j) == Cardinality({k \in (i + 1)..(j - 1) : At(x, k) = item.y})
      depth(j) == IF item.x = item.y THEN 1 - shuts(j) ELSE opens(j) - shuts(j)
      ends == {j \in (i + 2)..Len(x) : depth(j) = 0}
  IN  IF i >= Len(x) \/ At(x, i) # item.x \/ ends = {} THEN Null
      ELSE CHOOSE j \in ends : \A k \in ends : j <= k
\* match_capture; check_capture
MatchCapture(x, i, ms, n) ==
  LET c == ms.capture[n]
  IN  IF c.len >= 0 /\ Len(x) - i >= c.len
         /\ SubSeq(x, i + 1, i + c.len) = SubSeq(x, c.init + 1, c.init + c.len)
      THEN i + c.len ELSE Null
Frontier(x, i, item) ==
  /\ i = 0 \/ At(x, i - 1) \notin item.set
  /\ i < Len(x) /\ At(x, i) \in item.set

RECURSIVE Match(_, _, _, _), MaxExpand(_, _, _, _, _), MinExpand(_, _, _, _)
\* max_expand: k repetitions of the item at the head of p, and fewer.
MaxExpand(x, i, p, ms, k) ==
  LET r == Match(x, i + k, Tail(p), ms)
  IN  IF k < 0 THEN Result(Null, ms)
      ELSE IF r.e # Null THEN r ELSE MaxExpand(x, i, p, r.ms, k - 1)
\* min_expand
MinExpand(x, i, p, ms) ==
  LET r == Match(x, i, Tail(p), ms)
  IN  IF r.e # Null THEN r
      ELSE IF Single(x, i, Head(p)) THEN MinExpand(x, i + 1, p, r.ms)
      ELSE Result(Null, r.ms)
\* start_capture: the slots above level keep what was in them.
StartCapture(x, i, p, ms, what) ==
  LET c == [init |-> i, len |-> what]
      open == [level |-> ms.level + 1,
               capture |-> IF ms.level < Len(ms.capture)
                           THEN [ms.capture EXCEPT ![ms.level + 1] = c]
                           ELSE Append(ms.capture, c)]
      r == Match(x, i, p, open)
  IN  IF r.e # Null THEN r ELSE Result(Null, [r.ms EXCEPT !.level = @ - 1])
\* capture_to_close
CaptureToClose(ms) ==
  SelectLastInSeq(SubSeq(ms.capture, 1, ms.level), LAMBDA c : c.len = Unfinished)
\* Mutant: a failed match leaves the capture closed.
EndCaptureKept(x, i, p, ms) ==
  LET l == CaptureToClose(ms)
  IN  Match(x, i, p, [ms EXCEPT !.capture[l].len = i - ms.capture[l].init])
\* end_capture
EndCapture(x, i, p, ms) ==
  LET l == CaptureToClose(ms)
      r == Match(x, i, p, [ms EXCEPT !.capture[l].len = i - ms.capture[l].init])
  IN  IF r.e # Null THEN r
      ELSE Result(Null, [r.ms EXCEPT !.capture[l].len = Unfinished])
Match(x, i, p, ms) ==
  LET item == Head(p)
      then(e) == IF e = Null THEN Result(Null, ms) ELSE Match(x, e, Tail(p), ms)
      test(b) == then(IF b THEN i ELSE Null)
      m == Single(x, i, item)
      \* how far max_expand can go
      run(from) == IF \A j \in from..(Len(x) - 1) : Single(x, j, item) THEN Len(x) - from
                   ELSE (CHOOSE j \in from..(Len(x) - 1) :
                           /\ ~Single(x, j, item)
                           /\ \A k \in from..(j - 1) : Single(x, k, item)) - from
      more == Match(x, i + 1, Tail(p), ms)
  IN  IF p = <<>> THEN Result(i, ms)
      ELSE CASE item.k = "open" -> StartCapture(x, i, Tail(p), ms, Unfinished)
             [] item.k = "position" -> StartCapture(x, i, Tail(p), ms, Position)
             [] item.k = "close" -> EndCapture(x, i, Tail(p), ms)
             [] item.k = "balance" -> then(MatchBalance(x, i, item))
             [] item.k = "frontier" -> test(Frontier(x, i, item))
             [] item.k = "ref" -> then(MatchCapture(x, i, ms, item.n))
             [] item.k = "end" -> test(i = Len(x))
             [] item.k = "opt" -> IF m /\ more.e # Null THEN more
                                  ELSE Match(x, i, Tail(p), IF m THEN more.ms ELSE ms)
             [] item.k = "star" -> MaxExpand(x, i, p, ms, run(i))
             [] item.k = "plus" -> IF m THEN MaxExpand(x, i + 1, p, ms, run(i + 1))
                                   ELSE Result(Null, ms)
             [] item.k = "lazy" -> MinExpand(x, i, p, ms)
             [] item.k = "one" -> then(IF m THEN i + 1 ELSE Null)

\* push_captures, push_onecapture: those of a match of [i, e).
Captures(ms, i, e) ==
  IF ms.level = 0 THEN <<[init |-> i, len |-> e - i]>> ELSE SubSeq(ms.capture, 1, ms.level)
MatchAt(i, ms) == Match(s.src, i, s.pat.items, ms)
Item(i, r) == [from |-> i, to |-> r.e, caps |-> Captures(r.ms, i, r.e)]

\* posrelat, and what str_find_aux makes of it.
FirstPosition(init, len) ==
  LET pos == IF init >= 0 THEN init ELSE IF len + init + 1 >= 0 THEN len + init + 1 ELSE 0
  IN  IF pos - 1 < 0 THEN 0 ELSE IF pos - 1 > len THEN len ELSE pos - 1
\* lmemfind, for a pattern without special characters.
IsPlain(pat) == ~pat.anchor /\ \A j \in DOMAIN pat.items :
                                 /\ pat.items[j].k = "one"
                                 /\ Cardinality(pat.items[j].set) = 1
MemFind(x, i, items) ==
  LET at(j) == \A k \in DOMAIN items : {x[j + k]} = items[k].set
      js == {j \in i..(Len(x) - Len(items)) : at(j)}
  IN  IF js = {} THEN Null ELSE CHOOSE j \in js : \A k \in js : j <= k
-----------------------------------------------------------------------------
Init ==
  \E x \in Subjects, p \in Patterns, i \in Inits :
    s = [src |-> x, pat |-> p, init |-> i, phase |-> "find", pos |-> FirstPosition(i, Len(x)),
         found |-> <<>>, list |-> <<>>, subs |-> <<>>]

\* str_find_aux for find: one turn of its loop, or lmemfind.  Without captures it
\* pushes none (match, like gmatch, the whole match).
Find ==
  LET r == MatchAt(s.pos, MatchState)
      at == MemFind(s.src, s.pos, s.pat.items)
      next == [s EXCEPT !.phase = "gmatch", !.pos = 0]
  IN  /\ s.phase = "find"
      /\ s' = IF IsPlain(s.pat)
              THEN IF at = Null THEN next
                   ELSE [next EXCEPT !.found = <<[from |-> at,
                                                  to |-> at + Len(s.pat.items),
                                                  caps |-> <<>>]>>]
              ELSE IF r.e # Null
              THEN [next EXCEPT !.found = <<[Item(s.pos, r) EXCEPT
                                               !.caps = IF r.ms.level = 0 THEN <<>> ELSE @]>>]
              ELSE IF s.pos < Len(s.src) /\ ~s.pat.anchor THEN [s EXCEPT !.pos = @ + 1]
              ELSE next
\* gmatch_aux: one turn of its loop.  ^ is no anchor for gmatch, but a character,
\* which no subject has.
GMatch ==
  LET r == MatchAt(s.pos, MatchState)
  IN  /\ s.phase = "gmatch"
      /\ s' = IF s.pos > Len(s.src) \/ s.pat.anchor
              THEN [s EXCEPT !.phase = "gsub", !.pos = 0]
              ELSE IF r.e = Null THEN [s EXCEPT !.pos = @ + 1]
              ELSE [s EXCEPT !.list = Append(@, Item(s.pos, r)),
                             !.pos = IF r.e = s.pos THEN r.e + 1 ELSE r.e]
\* Mutant: an empty match is skipped like any other.
GSubEmpty ==
  LET r == MatchAt(s.pos, MatchState)
      next == [s EXCEPT !.subs = IF r.e # Null THEN Append(@, Item(s.pos, r)) ELSE @]
  IN  /\ s.phase = "gsub"
      /\ s' = IF Len(s.subs) >= Len(s.src) + 1 THEN [s EXCEPT !.phase = "done"]
              ELSE IF r.e # Null THEN [next EXCEPT !.pos = r.e]
              ELSE IF s.pos < Len(s.src) THEN [next EXCEPT !.pos = @ + 1]
              ELSE [next EXCEPT !.phase = "done"]
\* str_gsub, one turn of its loop: add_value, and a character that is copied.
GSub ==
  LET r == MatchAt(s.pos, MatchState)
      next == [s EXCEPT !.subs = IF r.e # Null THEN Append(@, Item(s.pos, r)) ELSE @]
      moved == IF r.e > s.pos THEN [next EXCEPT !.pos = r.e]
               ELSE IF s.pos < Len(s.src) THEN [next EXCEPT !.pos = @ + 1]
               ELSE [next EXCEPT !.phase = "done"]
  IN  /\ s.phase = "gsub"
      /\ s' = IF Len(s.subs) >= Len(s.src) + 1 THEN [s EXCEPT !.phase = "done"]
              ELSE IF s.pat.anchor THEN [moved EXCEPT !.phase = "done"]
              ELSE moved

Next == Find \/ GMatch \/ GSub
-----------------------------------------------------------------------------
(* What a pattern means: each repetition may match any number of times; of *)
(* all the ways to match, the one counts that repeats the leftmost item    *)
(* most often, or least often if it is lazy, then the next one, ...        *)
RECURSIVE Ways(_, _, _, _)
Ways(x, i, p, caps) ==
  LET item == Head(p)
      fits(n) == i + n <= Len(x) /\ \A j \in i..(i + n - 1) : At(x, j) \in item.set
      counts == CASE item.k = "one" -> {1} [] item.k = "opt" -> {0, 1}
                  [] item.k = "plus" -> 1..Len(x) [] OTHER -> 0..Len(x)
      goes(e, c) == {[w EXCEPT !.v = <<0>> \o @] : w \in Ways(x, e, Tail(p), c)}
      last == SelectLastInSeq(caps, LAMBDA c : c.len = Unfinished)
      ref == SubSeq(x, caps[item.n].init + 1, caps[item.n].init + caps[item.n].len)
      depth(j) == Cardinality({k \in i..(j - 1) : At(x, k) = item.x})
                  - Cardinality({k \in i..(j - 1) : At(x, k) = item.y})
  IN  CASE p = <<>> -> {[v |-> <<>>, e |-> i, caps |-> caps]}
        [] p # <<>> /\ item.k \in {"one", "opt", "star", "plus", "lazy"} ->
             UNION {{[w EXCEPT !.v = <<IF item.k = "lazy" THEN -n ELSE n>> \o @] :
                       w \in Ways(x, i + n, Tail(p), caps)} : n \in {m \in counts : fits(m)}}
        [] p # <<>> /\ item.k = "open" -> goes(i, Append(caps, [init |-> i, len |-> Unfinished]))
        [] p # <<>> /\ item.k = "position" ->
             goes(i, Append(caps, [init |-> i, len |-> Position]))
        [] p # <<>> /\ item.k = "close" -> goes(i, [caps EXCEPT ![last].len = i - caps[last].init])
        [] p # <<>> /\ item.k = "end" -> IF i = Len(x) THEN goes(i, caps) ELSE {}
        [] p # <<>> /\ item.k = "frontier" ->
             IF (i = 0 \/ x[i] \notin item.set) /\ i < Len(x) /\ x[i + 1] \in item.set
             THEN goes(i, caps) ELSE {}
        [] p # <<>> /\ item.k = "ref" ->
             IF IsPrefix(ref, SubSeq(x, i + 1, Len(x))) THEN goes(i + Len(ref), caps) ELSE {}
        [] p # <<>> /\ item.k = "balance" ->
             UNION {goes(j, caps) : j \in {e \in (i + 2)..Len(x) :
                                             /\ x[i + 1] = item.x
                                             /\ depth(e) = 0
                                             /\ \A d \in (i + 1)..(e - 1) : depth(d) > 0}}
Better(v, w) == \E j \in DOMAIN v : /\ v[j] > w[j]
                                    /\ \A k \in 1..(j - 1) : v[k] = w[k]
\* The match that starts at i, if there is one, with its captures.
Meant(x, i, p) ==
  LET ws == Ways(x, i, p, <<>>)
      best == {w \in ws : \A u \in ws : u = w \/ Better(w.v, u.v)}
  IN  {[from |-> i, to |-> w.e,
        caps |-> IF w.caps = <<>> THEN <<[init |-> i, len |-> w.e - i]>> ELSE w.caps] :
         w \in best}

\* Backtracking, captures that a failed attempt has opened or closed, lazy and
\* greedy repetitions: find reports the first position at which the pattern
\* matches, and there the match that it means.
FindIsMeant ==
  s.phase = "gmatch" /\ s.pos = 0 =>
    LET first == FirstPosition(s.init, Len(s.src))
        all == IF s.pat.anchor THEN {first} ELSE first..Len(s.src)
        at == {i \in all : Meant(s.src, i, s.pat.items) # {}}
        i == CHOOSE j \in at : \A k \in at : j <= k
        captures == \E j \in DOMAIN s.pat.items : s.pat.items[j].k \in {"open", "position"}
        bare == {[m EXCEPT !.caps = <<>>] : m \in Meant(s.src, i, s.pat.items)}
    IN  Range(s.found) = IF at = {} THEN {}
                         ELSE IF captures THEN Meant(s.src, i, s.pat.items)
                         ELSE bare

\* gmatch and gsub walk over the subject in loops of their own, in which an empty
\* match must still make progress: they find the same matches, which do not
\* overlap, and every position that no match covers has none.
SameMatches ==
  s.phase = "done" /\ ~s.pat.anchor =>
    /\ s.subs = s.list
    /\ \A j \in DOMAIN s.list : s.list[j] \in Meant(s.src, s.list[j].from, s.pat.items)
    /\ \A j \in 1..(Len(s.list) - 1) :
         /\ s.list[j].to <= s.list[j + 1].from
         /\ s.list[j].from < s.list[j + 1].from
    /\ \A i \in 0..Len(s.src) :
         \/ \E m \in Range(s.list) : i = m.from \/ (m.from < i /\ i < m.to)
         \/ Meant(s.src, i, s.pat.items) = {}
=============================================================================
