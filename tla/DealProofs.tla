----------------------------- MODULE DealProofs -----------------------------
(***************************************************************************)
(* Proofs about deal() and the signal handler, for a pool of any size and  *)
(* any number of edits of the script.                                      *)
(***************************************************************************)
EXTENDS Deal, TLAPS

\* The two flags, which only Boolean reasoning is needed for.
FlagsOK == bExit \in BOOLEAN /\ bUpdate \in BOOLEAN

\* The rest of the types.
RestOK ==
  /\ main \in {"create", "join", "done", "aborted"}
  /\ term \in {"none", "half"}
  /\ pc \in [Workers -> Places]
  /\ disk \in Nat
  /\ loaded \in [Workers -> Nat]
  /\ states \in [Workers -> Nat]
  /\ at \in [Workers -> Places \cup {"never"}]

(***************************************************************************)
(* lua_close takes a state away, and the count stays a natural number only *)
(* because there is one to take: types and OneStatePerWorker are inductive *)
(* together.                                                               *)
(***************************************************************************)
TypeInv == RestOK /\ OneStatePerWorker

LEMMA FlagsInit == Init => FlagsOK
  BY Zenon DEF Init, FlagsOK

LEMMA FlagsNext == FlagsOK /\ [Next]_vars => FlagsOK'
<1> SUFFICES ASSUME FlagsOK, [Next]_vars PROVE FlagsOK'
  OBVIOUS
<1> USE DEF FlagsOK, Flags
<1>1. CASE Joined \/ Edit \/ Usr1 \/ TermExit \/ TermUpdate
  BY <1>1, Zenon DEF Joined, Edit, Usr1, TermExit, TermUpdate
<1>2. ASSUME NEW w \in Workers, Create(w) PROVE FlagsOK'
  BY <1>2, Zenon DEF Create
<1>3. ASSUME NEW w \in Workers, Deal(w) PROVE FlagsOK'
  <2>1. CASE ResetUpdate(w)
    BY <2>1, Zenon DEF ResetUpdate
  <2>2. CASE UNCHANGED Flags
    BY <2>2, Zenon
  <2>3. ResetUpdate(w) \/ UNCHANGED Flags
    BY <1>3, Zenon DEF Deal, CheckExit, Load, LoadFails, RunChunk, ChunkFails, Panics,
           RunInit, Poll, MainReturns, MainFails, Sleep, Clear
  <2> QED
    BY <2>1, <2>2, <2>3
<1>4. CASE UNCHANGED vars
  BY <1>4, Zenon DEF vars
<1> QED
  BY <1>1, <1>2, <1>3, <1>4 DEF Next

LEMMA TypeInvInit == Init => TypeInv
  BY DEF Init, TypeInv, RestOK, OneStatePerWorker, HasState, Places, Window

LEMMA TypeInvNext == TypeInv /\ [Next]_vars => TypeInv'
<1> SUFFICES ASSUME TypeInv, [Next]_vars PROVE TypeInv'
  OBVIOUS
<1> USE DEF TypeInv, RestOK, Flags, Script, Places, Window, OneStatePerWorker, HasState
<1>1. CASE Joined \/ Edit \/ Usr1
  BY <1>1 DEF Joined, Edit, Usr1
<1>2. CASE TermExit \/ TermUpdate
  BY <1>2 DEF TermExit, TermUpdate
<1>3. ASSUME NEW w \in Workers, Create(w) PROVE TypeInv'
  BY <1>3 DEF Create, Go
<1>4. ASSUME NEW w \in Workers, Deal(w) PROVE TypeInv'
  <2> USE DEF Go
  <2>1. CASE CheckExit(w)
    BY <2>1 DEF CheckExit
  <2>2. CASE Load(w)
    BY <2>2 DEF Load
  <2>3. CASE LoadFails(w)
    BY <2>3 DEF LoadFails
  <2>4. CASE RunChunk(w) \/ ChunkFails(w)
    BY <2>4 DEF RunChunk, ChunkFails
  <2>5. CASE Panics(w) \/ RunInit(w)
    BY <2>5 DEF Panics, RunInit
  <2>6. CASE ResetUpdate(w) \/ Poll(w)
    BY <2>6 DEF ResetUpdate, Poll
  <2>7. CASE MainReturns(w) \/ MainFails(w) \/ Sleep(w)
    BY <2>7 DEF MainReturns, MainFails, Sleep
  <2>8. CASE Clear(w)
    BY <2>8 DEF Clear
  <2> QED
    BY <1>4, <2>1, <2>2, <2>3, <2>4, <2>5, <2>6, <2>7, <2>8 DEF Deal
<1>5. CASE UNCHANGED vars
  BY <1>5 DEF vars
<1> QED
  BY <1>1, <1>2, <1>3, <1>4, <1>5 DEF Next

(***************************************************************************)
(* The variables of deal(), the handler and main() keep their types.       *)
(***************************************************************************)
THEOREM TypeCorrect == Spec => []TypeOK
<1>1. TypeInv /\ FlagsOK => TypeOK
  BY DEF TypeInv, RestOK, FlagsOK, TypeOK
<1> QED
  BY <1>1, FlagsInit, FlagsNext, TypeInvInit, TypeInvNext, PTL DEF Spec

(***************************************************************************)
(* However often deal() starts over, no thread ever has two Lua states.    *)
(***************************************************************************)
THEOREM LuaStatesBounded == Spec => []OneStatePerWorker
<1>1. TypeInv => OneStatePerWorker
  BY DEF TypeInv
<1> QED
  BY <1>1, TypeInvInit, TypeInvNext, PTL DEF Spec

-----------------------------------------------------------------------------
(***************************************************************************)
(* Why a SIGTERM is not lost: once its handler has returned bExit is set   *)
(* for good, so no thread that was outside the window enters it again, and *)
(* only threads in the window reset bUpdate.                               *)
(***************************************************************************)
ExitInv == (term = "half" \/ TermSeen) => bExit = TRUE

TermInv ==
  TermSeen => \A w \in Workers :
                /\ pc[w] \notin Window
                /\ pc[w] \in {"loop", "main"} => bUpdate = TRUE

LEMMA TermInvInit == Init => ExitInv /\ TermInv
  BY DealAssumption DEF Init, ExitInv, TermInv, TermSeen

LEMMA ExitInvNext == RestOK /\ ExitInv /\ [Next]_vars => ExitInv'
<1> SUFFICES ASSUME RestOK, ExitInv, [Next]_vars PROVE ExitInv'
  OBVIOUS
<1> USE DEF ExitInv, TermSeen
<1>1. CASE TermExit
  BY <1>1 DEF TermExit
<1>2. CASE TermUpdate
  BY <1>2 DEF TermUpdate
<1>3. CASE UNCHANGED <<bExit, term, at>>
  BY <1>3
<1>4. TermExit \/ TermUpdate \/ UNCHANGED <<bExit, term, at>>
  BY Zenon DEF Next, vars, Joined, Edit, Usr1, Create, Deal, CheckExit, Load, LoadFails,
     RunChunk, ChunkFails, Panics, RunInit, ResetUpdate, Poll, MainReturns,
     MainFails, Sleep, Clear, Flags
<1> QED
  BY <1>1, <1>2, <1>3, <1>4

LEMMA TermInvNext == RestOK /\ ExitInv /\ TermInv /\ [Next]_vars => TermInv'
<1> SUFFICES ASSUME RestOK, ExitInv, TermInv, [Next]_vars PROVE TermInv'
  OBVIOUS
<1> USE DEF TermInv, ExitInv, TermSeen, RestOK, Flags, Window, Places
<1>1. CASE Joined \/ Edit \/ Usr1 \/ TermExit
  BY <1>1 DEF Joined, Edit, Usr1, TermExit
<1>2. CASE TermUpdate
  BY <1>2 DEF TermUpdate
<1>3. ASSUME NEW w \in Workers, Create(w) PROVE TermInv'
  BY <1>3 DEF Create, Go
<1>4. ASSUME NEW w \in Workers, Deal(w) PROVE TermInv'
  <2> USE DEF Go
  <2>1. CASE CheckExit(w)
    BY <2>1 DEF CheckExit
  <2>2. CASE Load(w) \/ LoadFails(w)
    BY <2>2 DEF Load, LoadFails
  <2>3. CASE RunChunk(w) \/ ChunkFails(w) \/ Panics(w) \/ RunInit(w)
    BY <2>3 DEF RunChunk, ChunkFails, Panics, RunInit
  <2>4. CASE ResetUpdate(w)
    BY <2>4 DEF ResetUpdate
  <2>5. CASE Poll(w)
    BY <2>5 DEF Poll
  <2>6. CASE MainReturns(w) \/ MainFails(w) \/ Sleep(w)
    BY <2>6 DEF MainReturns, MainFails, Sleep
  <2>7. CASE Clear(w)
    BY <2>7 DEF Clear
  <2> QED
    BY <1>4, <2>1, <2>2, <2>3, <2>4, <2>5, <2>6, <2>7 DEF Deal
<1>5. CASE UNCHANGED vars
  BY <1>5 DEF vars
<1> QED
  BY <1>1, <1>2, <1>3, <1>4, <1>5 DEF Next

(***************************************************************************)
(* A SIGTERM handled while no thread of the pool is starting a script      *)
(* reaches all of them, however the handler's two assignments and the      *)
(* threads' accesses of the flags interleave.                              *)
(***************************************************************************)
THEOREM TermNotLost == Spec => []TermHonoured
<1>1. TermInv => TermHonoured
  BY DEF TermInv, TermHonoured
<1>2. TypeInv => RestOK
  BY DEF TypeInv
<1> QED
  BY <1>1, <1>2, TypeInvInit, TypeInvNext, TermInvInit, ExitInvNext, TermInvNext, PTL
  DEF Spec
=============================================================================
