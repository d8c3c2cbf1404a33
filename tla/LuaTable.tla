------------------------------ MODULE LuaTable ------------------------------
(***************************************************************************)
(* Lua's tables (ltable.c): an array part, and a hash part that chains     *)
(* collisions through free nodes with Brent's variation, both re-sized     *)
(* when no node is free; the border that # returns; and the traversal of   *)
(* next, during which a program may clear or assign existing fields and    *)
(* the collector may kill the keys of cleared ones (lgc.c removeentry).    *)
(*                                                                         *)
(* A positive key is an integer, a negative one a string or another        *)
(* object; KeyHash is what their hash functions give.  The value stored    *)
(* under a key is the key itself, so that a mixed-up entry shows; 0 is     *)
(* nil.  Left out: other numbers, sizes and borders beyond MAXASIZE and    *)
(* MAX_INT, and memory errors.                                             *)
(***************************************************************************)
EXTENDS Integers, Sequences, FiniteSets, FiniteSetsExt

CONSTANTS
  Ints, Others, \* the keys that the program uses
  StringKeys,   \* those of Others that hash like strings
  KeyHash,      \* key -> its hash
  Sizes         \* what lua_createtable and OP_NEWTABLE are given

Keys == Ints \cup Others
ASSUME TableConstants ==
  /\ IsFiniteSet(Ints) /\ \A k \in Ints : k \in Nat /\ k > 0
  /\ IsFiniteSet(Others) /\ \A k \in Others : k \in Int /\ k < 0
  /\ KeyHash \in [Keys -> Nat]
  /\ Sizes \subseteq Nat \X Nat

VARIABLE tb \* [t: the table; ref: the map it stands for; key, seen: of the
            \*  running traversal; on: there is one]

Live(v) == v # 0
Pow2[n \in Nat] == IF n = 0 THEN 1 ELSE 2 * Pow2[n - 1]
\* ceillog2
CeilLog2(n) == CHOOSE i \in 0..n : Pow2[i] >= n /\ \A j \in 0..(i - 1) : Pow2[j] < n

\* setnodevector: the hash part of a table without hash elements is the shared
\* dummynode, which is never written.
FreeNode == [key |-> 0, val |-> 0, next |-> -1, dead |-> FALSE]
SetNodeVector(t, size) ==
  LET n == IF size = 0 THEN 1 ELSE Pow2[CeilLog2(size)]
  IN  [t EXCEPT !.node = [i \in 0..(n - 1) |-> FreeNode],
                !.sizenode = n,
                !.dummy = size = 0,
                !.lastfree = IF size = 0 THEN 0 ELSE n]
NewTable(na, nh) ==
  SetNodeVector([arr |-> [i \in 1..na |-> 0], sizearray |-> na, node |-> <<>>,
                 sizenode |-> 0, dummy |-> TRUE, lastfree |-> 0], nh)

\* mainposition: modulo the size for strings, (size - 1) | 1 for other keys.
Odd(n) == IF n % 2 = 0 THEN n + 1 ELSE n
MainPosition(t, k) ==
  KeyHash[k] % (IF k \in StringKeys THEN t.sizenode ELSE Odd(t.sizenode - 1))

\* The nodes of the chain from node i on.
Chain(t, i) ==
  LET from[j \in 0..(t.sizenode - 1)] ==
        {j} \cup (IF t.node[j].next = -1 THEN {} ELSE from[t.node[j].next])
  IN  from[i]
\* The first node of k's chain whose key is k, dead or not as given, or -1.
First(t, k, dead) ==
  LET found == {i \in Chain(t, MainPosition(t, k)) : t.node[i].key = k /\ t.node[i].dead \in dead}
  IN  IF found = {} THEN -1 ELSE CHOOSE i \in found : found \subseteq Chain(t, i)
\* luaH_get
FindNode(t, k) == First(t, k, {FALSE})
InArray(t, k) == k \in 1..t.sizearray
Get(t, k) ==
  IF InArray(t, k) THEN t.arr[k]
  ELSE IF k \notin Keys THEN 0
  ELSE IF FindNode(t, k) = -1 THEN 0 ELSE t.node[FindNode(t, k)].val

\* numusearray, numusehash, countint, computesizes: the array part is the
\* largest power of two of which more than half is used.
UsedKeys(t) == {k \in Keys : Live(Get(t, k))}
UpTo(K, n) == Cardinality({k \in K : k \in 1..n})
ComputeSizes(K) ==
  LET total == Cardinality({k \in K : k > 0})
      fits == {i \in 0..total :
                 /\ Pow2[i] < 2 * total
                 /\ \E k \in K : 2 * k > Pow2[i] /\ k <= Pow2[i]
                 /\ 2 * UpTo(K, Pow2[i]) > Pow2[i]}
  IN  IF fits = {} THEN 0 ELSE Pow2[Max(fits)]

\* getfreepos: lastfree only moves down, and a dead key is not free.
FreePositions(t) == {i \in 0..(t.lastfree - 1) : t.node[i].key = 0}

\* Mutant: the chain of a colliding node that is moved is not redone.
PreviousLost(t, i, mp) == mp
\* The node in front of mp in the chain from node i on.
Previous(t, i, mp) == CHOOSE p \in Chain(t, i) : t.node[p].next = mp

\* newkey, where it needs no rehash.
Put(t, i, k, v) ==
  [t EXCEPT !.node[i] = [key |-> k, val |-> v, next |-> @.next, dead |-> FALSE]]
NewKey(t, k, v) ==
  LET mp == MainPosition(t, k)
      n == Max(FreePositions(t))
      other == MainPosition(t, t.node[mp].key)
      moved == [t EXCEPT !.lastfree = n,
                         !.node[Previous(t, other, mp)].next = n,
                         !.node[n] = t.node[mp],
                         !.node[mp] = FreeNode]
      chained == [t EXCEPT !.lastfree = n,
                           !.node[n].next = t.node[mp].next,
                           !.node[mp].next = n]
  IN  IF ~Live(t.node[mp].val) /\ ~t.dummy THEN Put(t, mp, k, v)
      ELSE IF other # mp THEN Put(moved, mp, k, v) ELSE Put(chained, n, k, v)
\* luaH_set, luaH_setnum, luaH_setstr and the assignment that follows, ...
Store(t, k, v) ==
  IF InArray(t, k) THEN [t EXCEPT !.arr[k] = v]
  ELSE IF FindNode(t, k) # -1 THEN [t EXCEPT !.node[FindNode(t, k)].val = v]
  ELSE NewKey(t, k, v)
\* ... where there is a node for k.
Fits(t, k) ==
  \/ InArray(t, k)
  \/ FindNode(t, k) # -1
  \/ ~Live(t.node[MainPosition(t, k)].val) /\ ~t.dummy
  \/ FreePositions(t) # {}

\* resize: the vanishing slice of the array part and then all nodes, from the
\* last one down, are inserted anew; there is a node for each of them.
Reinsert(t, vals, n) ==
  LET after[i \in 0..n] ==
        IF i = 0 THEN t
        ELSE IF Live(vals[i]) THEN Store(after[i - 1], vals[i], vals[i])
        ELSE after[i - 1]
  IN  after[n]
Resize(t, na, nh) ==
  LET kept == [i \in 1..na |-> IF InArray(t, i) THEN t.arr[i] ELSE 0]
      slice == IF t.sizearray > na THEN t.sizearray - na ELSE 0
      all == slice + t.sizenode
      vals == [i \in 1..all |-> IF i <= slice THEN t.arr[na + i]
                                ELSE t.node[t.sizenode - (i - slice)].val]
  IN  Reinsert(SetNodeVector([t EXCEPT !.arr = kept, !.sizearray = na], nh), vals, all)
Rehash(t, k) ==
  LET K == UsedKeys(t) \cup {k}
      na == ComputeSizes(K)
  IN  Resize(t, na, Cardinality(K) - UpTo(K, na))
SetRaw(t, k, v) == Store(IF Fits(t, k) THEN t ELSE Rehash(t, k), k, v)

\* Mutant: a dead key is not found.
FindIndexLive(t, k) ==
  IF k = 0 THEN 0
  ELSE IF InArray(t, k) THEN k
  ELSE IF FindNode(t, k) = -1 THEN -1 ELSE t.sizearray + 1 + FindNode(t, k)
\* findindex: a dead key is still good enough to go on from.
FindIndex(t, k) ==
  IF k = 0 THEN 0
  ELSE IF InArray(t, k) THEN k
  ELSE LET i == First(t, k, BOOLEAN)
       IN  IF i = -1 THEN -1 ELSE t.sizearray + 1 + i
\* luaH_next: array elements count from 1, nodes follow; 0 at the end.
At(t, i) == IF i <= t.sizearray THEN t.arr[i] ELSE t.node[i - t.sizearray - 1].val
NextKey(t, k) ==
  LET later == {i \in (FindIndex(t, k) + 1)..(t.sizearray + t.sizenode) : Live(At(t, i))}
  IN  IF later = {} THEN 0 ELSE At(t, Min(later))

\* luaH_getn and unbound_search: a binary search for a border, in the array
\* part when its last element is nil.
Bisect(t, i, j) ==
  LET b[n \in Nat] ==
        IF n = 0 THEN <<i, j>>
        ELSE LET x == b[n - 1]
                 m == (x[1] + x[2]) \div 2
             IN  IF x[2] - x[1] <= 1 THEN x
                 ELSE IF Live(Get(t, m)) THEN <<m, x[2]>> ELSE <<x[1], m>>
  IN  b[j - i][1]
Unbound(t, j) ==
  LET b[n \in Nat] ==
        IF n = 0 THEN <<j, j + 1>>
        ELSE LET x == b[n - 1]
             IN  IF Live(Get(t, x[2])) THEN <<x[2], 2 * x[2]>> ELSE x
  IN  b[Cardinality(Ints)]
GetN(t) ==
  LET j == t.sizearray
      ends == Unbound(t, j)
  IN  IF j > 0 /\ ~Live(t.arr[j]) THEN Bisect(t, 0, j)
      ELSE IF t.dummy THEN j
      ELSE Bisect(t, ends[1], ends[2])
-----------------------------------------------------------------------------
TableInit ==
  \E z \in Sizes :
    tb = [t |-> NewTable(z[1], z[2]), ref |-> [k \in Keys |-> 0],
          key |-> 0, seen |-> {}, on |-> FALSE]

\* Any assignment t[k] = v, v = 0 for nil, while no traversal is running.
AssignField(k, v) ==
  /\ ~tb.on
  /\ tb' = [tb EXCEPT !.t = SetRaw(@, k, v), !.ref[k] = v]
\* OP_SETLIST: the array part is made to hold n elements (luaH_resizearray).
SetList(n) ==
  /\ ~tb.on
  /\ n > tb.t.sizearray
  /\ tb' = [tb EXCEPT !.t = Resize(@, n, IF @.dummy THEN 0 ELSE @.sizenode)]
Begin ==
  /\ ~tb.on
  /\ tb' = [tb EXCEPT !.on = TRUE, !.key = 0, !.seen = {}]
\* During a traversal only fields that are there are assigned.
AssignExisting(k, v) ==
  /\ tb.on
  /\ Live(tb.ref[k])
  /\ tb' = [tb EXCEPT !.t = SetRaw(@, k, v), !.ref[k] = v]
\* lgc.c, removeentry: an object as the key of an empty node is let go.
Killed(t, gone) ==
  [t EXCEPT !.node = [i \in DOMAIN @ |-> IF i \in gone THEN [@[i] EXCEPT !.dead = TRUE] ELSE @[i]]]
KillKeys ==
  LET gone == {i \in DOMAIN tb.t.node : tb.t.node[i].key \in Others
                                        /\ ~Live(tb.t.node[i].val)}
  IN  /\ \E i \in gone : ~tb.t.node[i].dead
      /\ tb' = [tb EXCEPT !.t = Killed(@, gone)]
\* luaH_next
NextField ==
  /\ tb.on
  /\ LET k == NextKey(tb.t, tb.key)
     IN  tb' = [tb EXCEPT !.key = k, !.on = k # 0,
                          !.seen = IF k = 0 THEN {} ELSE @ \cup {k}]

TableNext ==
  \/ \E k \in Keys : AssignField(k, k) \/ AssignField(k, 0) \/ AssignExisting(k, 0)
  \/ \E n \in Ints : SetList(n)
  \/ Begin \/ KillKeys \/ NextField
TableSpec == TableInit /\ [][TableNext]_tb
-----------------------------------------------------------------------------
\* Through all collisions, moves and rehashes the table is the map that the
\* program has assigned, and the result of # is a border of it.
TableIsMap ==
  LET n == GetN(tb.t)
  IN  /\ \A k \in Keys : Get(tb.t, k) = tb.ref[k]
      /\ n = 0 \/ Live(Get(tb.t, n))
      /\ n + 1 \in Ints => ~Live(Get(tb.t, n + 1))

\* next never fails or repeats a key, and has been at every field when it ends,
\* whatever existing fields were cleared and keys collected meanwhile.
TraversalComplete ==
  tb.on =>
    LET k == NextKey(tb.t, tb.key)
    IN  /\ FindIndex(tb.t, tb.key) # -1
        /\ k # 0 => k \notin tb.seen /\ Live(tb.ref[k])
        /\ k = 0 => {x \in Keys : Live(tb.ref[x])} \subseteq tb.seen
=============================================================================
