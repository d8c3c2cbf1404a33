----------------------------- MODULE MCMsgQueue -----------------------------
EXTENDS MsgQueue, TLC

\* The callers are interchangeable.
Symmetry == Permutations(Procs)

\* With mtext_t of 8 + 12 bytes and 4 of padding: an empty text, one shorter
\* than its mlen field with an mlen that wraps around, one with a wrong mlen,
\* the longest that passes the checks, the next one, which reaches into the
\* padding, and one that MSG_NOERROR cuts.
RawMessages ==
  {[size |-> 8, mlen |-> 0], [size |-> 7, mlen |-> Word - 1],
   [size |-> 9, mlen |-> 9], [size |-> 20, mlen |-> 12],
   [size |-> 21, mlen |-> 13], [size |-> 26, mlen |-> 16]}

\* The types sent, and asked for: any, one, the lowest.
MCSendTypes == {1, 2}
MCRecvTypes == {0, 2, -1}
=============================================================================
