------------------------- MODULE LoginAttemptsProofs -------------------------
(***************************************************************************)
(* Proofs about LoginAttempts, for any number of logins in flight, any     *)
(* three tiers and any three locks.                                        *)
(*                                                                         *)
(* NoSpuriousLock is not inductive: a stale copy of the row may be written *)
(* back at any time.  The invariant says of the row and of every copy that *)
(* its count is at most the number of failures there have been, and that a *)
(* lock in it is one that Tier1 failures have earned.                      *)
(*                                                                         *)
(* CountIsExact and LocksWhenAlone speak of logins that come one at a      *)
(* time.  Alone says what that gives: one login at most is under way, and  *)
(* the copy it is about to write back is the row.                          *)
(***************************************************************************)
EXTENDS LoginAttempts, TLAPS

\* A row, or a copy of it, that the failures so far account for.
Earned(x, n) == /\ x.count <= n
                /\ x.lock > 0 => n >= Tier1

CopiesEarned ==
  /\ row # Null => Earned(row, everFailed)
  /\ \A r \in Requests : req[r].snap # Null => /\ row # Null
                                               /\ Earned(req[r].snap, everFailed)

IInv == TypeOK /\ CopiesEarned

Login == [pc : PCs, snap : Row \cup {Null}]

-----------------------------------------------------------------------------

\* Helpers: what Saturate, LockAfter and Less return.
LEMMA SaturateBounds ==
  ASSUME NEW n \in 0..Tier3
  PROVE  /\ Saturate(n + 1) \in 0..Tier3
         /\ n <= Saturate(n + 1)
         /\ Saturate(n + 1) >= 1
         /\ \A m \in 0..Tier3 : m <= n => Saturate(m + 1) <= Saturate(n + 1)
<1>1. Tier3 \in Nat /\ Tier3 >= 1
  BY TiersAssumption
<1>2. Saturate(n + 1) \in 0..Tier3 /\ n <= Saturate(n + 1) /\ Saturate(n + 1) >= 1
  BY <1>1 DEF Saturate
<1>3. ASSUME NEW m \in 0..Tier3, m <= n PROVE Saturate(m + 1) <= Saturate(n + 1)
  BY <1>1, <1>3 DEF Saturate
<1> QED BY <1>2, <1>3

LEMMA LockAfterEarned ==
  ASSUME NEW c \in 0..Tier3, NEW old \in 0..Lock3
  PROVE  /\ LockAfter(c, old) \in 0..Lock3
         /\ LockAfter(c, old) > 0 => c >= Tier1 \/ old > 0
BY TiersAssumption DEF LockAfter

LEMMA ElapsedRow ==
  ASSUME NEW x \in Row
  PROVE  /\ Elapsed(x) \in Row
         /\ Elapsed(x) # Null
         /\ Elapsed(x).count = x.count
         /\ Elapsed(x).lock <= x.lock
<1>1. x # Null
  BY NullRowAssumption
<1>2. x.count \in 0..Tier3 /\ x.lock \in 0..Lock3
  BY DEF Row
<1>3. Elapsed(x) = [x EXCEPT !.lock = Less(@)]
  BY <1>1 DEF Elapsed
<1>4. Less(x.lock) \in 0..Lock3 /\ Less(x.lock) <= x.lock
  BY <1>2, TiersAssumption DEF Less
<1>5. Elapsed(x) \in Row /\ Elapsed(x).count = x.count /\ Elapsed(x).lock = Less(x.lock)
  BY <1>3, <1>4 DEF Row
<1> QED BY <1>4, <1>5, NullRowAssumption

LEMMA ElapsedNull == Elapsed(Null) = Null
BY DEF Elapsed

-----------------------------------------------------------------------------

LEMMA InitInvariant == Init => IInv
<1> SUFFICES ASSUME Init PROVE IInv
  OBVIOUS
<1>1. TypeOK
  <2>1. row = Null /\ failures \in 0..Tier3 /\ everFailed \in 0..Tier3
    BY TiersAssumption DEF Init
  <2>2. overlapped \in BOOLEAN
    BY DEF Init
  <2>3. req \in [Requests -> [pc : PCs, snap : Row \cup {Null}]]
    BY DEF Init, Idle, PCs
  <2> QED BY <2>1, <2>2, <2>3 DEF TypeOK
<1>2. CopiesEarned
  BY DEF Init, CopiesEarned, Idle
<1> QED BY <1>1, <1>2 DEF IInv

\* A step that leaves the row and the history alone and gives one login a
\* copy that is Null or the row.
LEMMA ReadStep ==
  ASSUME IInv, NEW r \in Requests, NEW q \in Login,
         q.snap \in {Null, row, req[r].snap},
         req' = [req EXCEPT ![r] = q], overlapped' \in BOOLEAN,
         UNCHANGED <<row, failures, everFailed>>
  PROVE  IInv'
<1>1. TypeOK'
  BY DEF IInv, TypeOK, Login
<1>2. ASSUME NEW x \in Requests PROVE req'[x].snap \in {Null, row, req[x].snap}
  <2>1. CASE x = r
    BY <2>1, <1>1 DEF IInv, TypeOK
  <2>2. CASE x # r
    BY <2>2 DEF IInv, TypeOK
  <2> QED BY <2>1, <2>2
<1>3. CopiesEarned'
  BY <1>2 DEF IInv, CopiesEarned
<1> QED BY <1>1, <1>3 DEF IInv

LEMMA IdleIsLogin == Idle \in Login /\ Idle.snap = Null
BY DEF Idle, Login, PCs

\* A failure that is counted writes a row the new history accounts for, and
\* every copy there is stays accounted for.
LEMMA FailureStep ==
  ASSUME IInv, NEW r \in Requests, FailureCounted,
         row' \in Row, Earned(row', everFailed'),
         req' = [req EXCEPT ![r] = Idle], UNCHANGED overlapped
  PROVE  IInv'
<1>1. everFailed' \in 0..Tier3 /\ everFailed <= everFailed' /\ failures' \in 0..Tier3
  BY SaturateBounds DEF FailureCounted, IInv, TypeOK
<1>2. everFailed \in 0..Tier3 /\ Tier1 \in Nat
  BY TiersAssumption DEF IInv, TypeOK
<1>3. TypeOK'
  BY <1>1, IdleIsLogin DEF IInv, TypeOK, Login
<1>4. row' # Null
  BY NullRowAssumption
<1>5. ASSUME NEW x \in Requests, req'[x].snap # Null
      PROVE  Earned(req'[x].snap, everFailed')
  <2>1. x # r
    BY <1>5, IdleIsLogin DEF IInv, TypeOK
  <2>2. req'[x].snap = req[x].snap
    BY <2>1 DEF IInv, TypeOK
  <2>3. req[x].snap \in Row
    BY <2>2, <1>5 DEF IInv, TypeOK
  <2>4. Earned(req[x].snap, everFailed)
    BY <2>2, <1>5 DEF IInv, CopiesEarned
  <2>5. req[x].snap.count \in Nat /\ req[x].snap.lock \in Nat
    BY <2>3 DEF Row
  <2> QED BY <2>2, <2>4, <2>5, <1>1, <1>2 DEF Earned
<1>6. CopiesEarned'
  BY <1>4, <1>5 DEF CopiesEarned
<1> QED BY <1>3, <1>6 DEF IInv

LEMMA InsertFailureInvariant ==
  ASSUME IInv, NEW r \in Requests, InsertFailure(r)
  PROVE  IInv'
<1>1. everFailed' = Saturate(everFailed + 1) /\ everFailed \in 0..Tier3
  BY DEF InsertFailure, FailureCounted, IInv, TypeOK
<1>2. everFailed' \in 0..Tier3 /\ everFailed' >= 1 /\ everFailed <= everFailed'
  BY <1>1, SaturateBounds
<1>3. row' \in Row /\ Earned(row', everFailed')
  <2>1. CASE row = Null
    <3>1. row' = [count |-> 1, lock |-> LockAfter(1, 0)]
      BY <2>1 DEF InsertFailure
    <3>2. 1 \in 0..Tier3 /\ 0 \in 0..Lock3
      BY TiersAssumption
    <3>3. /\ LockAfter(1, 0) \in 0..Lock3
          /\ LockAfter(1, 0) > 0 => 1 >= Tier1 \/ 0 > 0
      BY <3>2, LockAfterEarned
    <3> QED BY <3>1, <3>2, <3>3, <1>2, TiersAssumption DEF Row, Earned
  <2>2. CASE row # Null
    <3>1. row' = row /\ row \in Row /\ Earned(row, everFailed)
      BY <2>2 DEF InsertFailure, IInv, TypeOK, CopiesEarned
    <3>2. row.count \in Nat /\ row.lock \in Nat
      BY <3>1 DEF Row
    <3> QED BY <3>1, <3>2, <1>1, <1>2, TiersAssumption DEF Earned
  <2> QED BY <2>1, <2>2
<1> QED BY <1>3, FailureStep DEF InsertFailure

LEMMA UpdateFailureInvariant ==
  ASSUME IInv, NEW r \in Requests, UpdateFailure(r)
  PROVE  IInv'
<1> DEFINE snap == req[r].snap
           count == Saturate(snap.count + 1)
<1>1. snap # Null /\ snap \in Row /\ Earned(snap, everFailed)
  BY DEF UpdateFailure, IInv, TypeOK, CopiesEarned
<1>2. row' = [count |-> count, lock |-> LockAfter(count, snap.lock)]
  BY DEF UpdateFailure
<1>3. snap.count \in 0..Tier3 /\ snap.lock \in 0..Lock3
  BY <1>1 DEF Row
<1>4. everFailed' = Saturate(everFailed + 1) /\ everFailed \in 0..Tier3
  BY DEF UpdateFailure, FailureCounted, IInv, TypeOK
<1>5. count \in 0..Tier3 /\ count <= everFailed' /\ everFailed <= everFailed'
      /\ everFailed' \in 0..Tier3
  BY <1>1, <1>3, <1>4, SaturateBounds DEF Earned
<1>6. /\ LockAfter(count, snap.lock) \in 0..Lock3
      /\ LockAfter(count, snap.lock) > 0 => count >= Tier1 \/ snap.lock > 0
  BY <1>3, <1>5, LockAfterEarned
<1>7. row' \in Row /\ Earned(row', everFailed')
  <2> HIDE DEF count, snap
  <2> QED BY <1>1, <1>2, <1>3, <1>4, <1>5, <1>6, TiersAssumption DEF Row, Earned
<1> QED BY <1>7, FailureStep DEF UpdateFailure

LEMMA SaveSuccessInvariant ==
  ASSUME IInv, NEW r \in Requests, SaveSuccess(r)
  PROVE  IInv'
<1>1. req' = [req EXCEPT ![r] = Idle] /\ failures' = 0
      /\ everFailed' = everFailed /\ overlapped' = overlapped
  BY DEF SaveSuccess
<1>2. row' \in Row \cup {Null} /\ (row # Null => row' # Null)
      /\ (row' # Null => Earned(row', everFailed))
  <2>1. CASE req[r].snap = Null
    BY <2>1 DEF SaveSuccess, IInv, TypeOK, CopiesEarned
  <2>2. CASE req[r].snap # Null
    <3>1. row \in Row /\ row' = [row EXCEPT !.count = 0] /\ Earned(row, everFailed)
      BY <2>2 DEF SaveSuccess, IInv, TypeOK, CopiesEarned
    <3>2. row' \in Row /\ row'.count = 0 /\ row'.lock = row.lock
      BY <3>1, TiersAssumption DEF Row
    <3>3. everFailed \in Nat
      BY DEF IInv, TypeOK
    <3> QED BY <3>1, <3>2, <3>3, NullRowAssumption DEF Earned
  <2> QED BY <2>1, <2>2
<1>3. TypeOK'
  BY <1>1, <1>2, IdleIsLogin, TiersAssumption DEF IInv, TypeOK, Login
<1>4. ASSUME NEW x \in Requests PROVE req'[x].snap \in {Null, req[x].snap}
  <2>1. CASE x = r
    BY <2>1, <1>1, IdleIsLogin DEF IInv, TypeOK
  <2>2. CASE x # r
    BY <2>2, <1>1 DEF IInv, TypeOK
  <2> QED BY <2>1, <2>2
<1>5. CopiesEarned'
  BY <1>1, <1>2, <1>4 DEF IInv, CopiesEarned
<1> QED BY <1>3, <1>5 DEF IInv

LEMMA TickInvariant ==
  ASSUME IInv, Tick
  PROVE  IInv'
<1>1. row' = Elapsed(row) /\ UNCHANGED <<failures, everFailed, overlapped>>
      /\ req' = [x \in Requests |-> [req[x] EXCEPT !.snap = Elapsed(@)]]
  BY DEF Tick
<1>2. everFailed \in Nat
  BY DEF IInv, TypeOK
<1>3. ASSUME NEW y \in Row \cup {Null}, y # Null => Earned(y, everFailed)
      PROVE  /\ Elapsed(y) \in Row \cup {Null}
             /\ (Elapsed(y) = Null) <=> (y = Null)
             /\ Elapsed(y) # Null => Earned(Elapsed(y), everFailed)
  <2>1. CASE y = Null
    BY <2>1, ElapsedNull
  <2>2. CASE y # Null
    <3>1. y \in Row /\ Earned(y, everFailed)
      BY <2>2, <1>3
    <3>2. y.lock \in Nat /\ Elapsed(y) \in Row /\ Elapsed(y) # Null
          /\ Elapsed(y).count = y.count /\ Elapsed(y).lock <= y.lock
      BY <3>1, ElapsedRow DEF Row
    <3>3. Elapsed(y).lock \in Nat
      BY <3>2 DEF Row
    <3>4. Earned(Elapsed(y), everFailed)
      BY <3>1, <3>2, <3>3 DEF Earned
    <3> QED BY <3>2, <3>4, <2>2
  <2> QED BY <2>1, <2>2
<1>4. ASSUME NEW x \in Requests
      PROVE  /\ req'[x].pc = req[x].pc /\ req'[x].snap = Elapsed(req[x].snap)
             /\ req'[x] \in Login
             /\ (req'[x].snap = Null) <=> (req[x].snap = Null)
             /\ req'[x].snap # Null => Earned(req'[x].snap, everFailed)
  <2>1. req[x] \in Login /\ req[x].snap \in Row \cup {Null}
        /\ (req[x].snap # Null => Earned(req[x].snap, everFailed))
    BY DEF IInv, TypeOK, CopiesEarned, Login
  <2>2. Elapsed(req[x].snap) \in Row \cup {Null}
        /\ ((Elapsed(req[x].snap) = Null) <=> (req[x].snap = Null))
        /\ (Elapsed(req[x].snap) # Null => Earned(Elapsed(req[x].snap), everFailed))
    BY <1>3, <2>1
  <2>3. req'[x] = [req[x] EXCEPT !.snap = Elapsed(req[x].snap)]
    BY <1>1
  <2>4. req'[x] = [pc |-> req[x].pc, snap |-> Elapsed(req[x].snap)] /\ req[x].pc \in PCs
    BY <2>1, <2>3 DEF Login
  <2> QED BY <2>2, <2>4 DEF Login
<1>5. /\ row' \in Row \cup {Null}
      /\ (row' = Null) <=> (row = Null)
      /\ row' # Null => Earned(row', everFailed)
  BY <1>1, <1>3 DEF IInv, TypeOK, CopiesEarned
<1>6. req' \in [Requests -> Login]
  BY <1>1, <1>4
<1>7. TypeOK'
  BY <1>1, <1>5, <1>6 DEF IInv, TypeOK, Login
<1>8. CopiesEarned'
  BY <1>1, <1>4, <1>5 DEF IInv, CopiesEarned
<1> QED BY <1>7, <1>8 DEF IInv

LEMMA NextInvariant == IInv /\ [Next]_vars => IInv'
<1> SUFFICES ASSUME IInv, [Next]_vars PROVE IInv'
  OBVIOUS
<1>1. CASE UNCHANGED vars
  BY <1>1 DEF IInv, TypeOK, CopiesEarned, Earned, vars
<1>2. CASE Tick
  BY <1>2, TickInvariant
<1>3. ASSUME NEW r \in Requests, Start(r) \/ Verify(r) \/ ReadFailure(r) \/ ReadSuccess(r)
      PROVE  IInv'
  <2>0. overlapped \in BOOLEAN
    BY DEF IInv, TypeOK
  <2>1. req[r] \in Login /\ req \in [Requests -> Login] /\ row \in Row \cup {Null}
    BY DEF IInv, TypeOK, Login
  <2>2. PICK pc \in PCs, snap \in {Null, row, req[r].snap} :
          /\ req' = [req EXCEPT ![r] = [pc |-> pc, snap |-> snap]]
          /\ UNCHANGED <<row, failures, everFailed>>
          /\ overlapped' \in BOOLEAN
    <3>0. req[r] = [pc |-> req[r].pc, snap |-> req[r].snap]
      BY <2>1 DEF Login
    <3>1. CASE Start(r)
      <4>1. [req[r] EXCEPT !.pc = "verify"] = [pc |-> "verify", snap |-> req[r].snap]
        BY <3>0
      <4>2. req' = [req EXCEPT ![r] = [pc |-> "verify", snap |-> req[r].snap]]
        BY <3>1, <4>1, <2>1 DEF Start, Enter
      <4>3. overlapped' \in BOOLEAN
        BY <3>1, <2>0 DEF Start, Enter
      <4> QED BY <3>1, <4>2, <4>3 DEF Start, PCs
    <3>2. CASE Verify(r)
      <4>1. PICK pc \in {"readFailure", "readSuccess"} : req' = [req EXCEPT ![r].pc = pc]
        BY <3>2 DEF Verify
      <4>2. [req[r] EXCEPT !.pc = pc] = [pc |-> pc, snap |-> req[r].snap]
        BY <3>0
      <4>3. req' = [req EXCEPT ![r] = [pc |-> pc, snap |-> req[r].snap]]
        BY <4>1, <4>2, <2>1
      <4> QED BY <3>2, <4>3, <2>0 DEF Verify, PCs
    <3>3. CASE ReadFailure(r)
      BY <3>3, <2>0 DEF ReadFailure, PCs
    <3>4. CASE ReadSuccess(r)
      BY <3>4, <2>0 DEF ReadSuccess, PCs
    <3> QED BY <1>3, <3>1, <3>2, <3>3, <3>4
  <2>3. [pc |-> pc, snap |-> snap] \in Login
    BY <2>1 DEF Login
  <2> QED BY <2>2, <2>3, ReadStep
<1>4. ASSUME NEW r \in Requests, InsertFailure(r) PROVE IInv'
  BY <1>4, InsertFailureInvariant
<1>5. ASSUME NEW r \in Requests, UpdateFailure(r) PROVE IInv'
  BY <1>5, UpdateFailureInvariant
<1>6. ASSUME NEW r \in Requests, SaveSuccess(r) PROVE IInv'
  BY <1>6, SaveSuccessInvariant
<1> QED BY <1>1, <1>2, <1>3, <1>4, <1>5, <1>6 DEF Next, Advance

LEMMA InvariantAlways == Spec => []IInv
<1> QED BY InitInvariant, NextInvariant, PTL DEF Spec

-----------------------------------------------------------------------------

\* While no login has begun beside another.
Alone ==
  ~overlapped =>
    /\ \A r, x \in Requests : req[r].pc # "idle" /\ req[x].pc # "idle" => r = x
    /\ \A r \in Requests : req[r].pc \in {"saveFailure", "saveSuccess"} => req[r].snap = row
    /\ row = Null => failures = 0
    /\ row # Null => row.count = failures

LEMMA InitAlone == Init => Alone
BY DEF Init, Alone, Idle

\* A login that goes on, or begins alone, and leaves the row as it is.
LEMMA AloneReadStep ==
  ASSUME TypeOK, Alone, NEW r \in Requests, NEW q \in Login,
         req' = [req EXCEPT ![r] = q], UNCHANGED <<row, failures>>,
         overlapped => overlapped',
         ~overlapped' => \A x \in Requests : req[x].pc # "idle" => x = r,
         q.pc \in {"saveFailure", "saveSuccess"} => q.snap = row
  PROVE  Alone'
<1>1. req'[r] = q /\ \A x \in Requests : x # r => req'[x] = req[x]
  BY DEF TypeOK
<1> QED BY <1>1 DEF Alone

\* A login that ends and leaves a row with the count of the history.
LEMMA AloneSaveStep ==
  ASSUME TypeOK, Alone, NEW r \in Requests,
         req[r].pc # "idle", req' = [req EXCEPT ![r] = Idle], UNCHANGED overlapped,
         ~overlapped => IF row' = Null THEN failures' = 0 ELSE row'.count = failures'
  PROVE  Alone'
<1>1. req'[r] = Idle /\ \A x \in Requests : x # r => req'[x] = req[x]
  BY DEF TypeOK
<1>2. Idle.pc = "idle"
  BY DEF Idle
<1>3. ~overlapped => \A x \in Requests : x # r => req[x].pc = "idle"
  BY DEF Alone
<1> QED BY <1>1, <1>2, <1>3 DEF Alone

\* What a failure that ends alone has written: the count of the history, with
\* the lock that goes with it.
LEMMA FailureAlone ==
  ASSUME TypeOK, Alone, ~overlapped, NEW r \in Requests,
         InsertFailure(r) \/ UpdateFailure(r)
  PROVE  /\ row' # Null /\ row'.count = failures'
         /\ failures' \in 0..Tier3
         /\ \E old \in 0..Lock3 : row'.lock = LockAfter(failures', old)
<1>1. req[r].snap = row /\ failures' = Saturate(failures + 1) /\ failures \in 0..Tier3
  BY DEF InsertFailure, UpdateFailure, FailureCounted, Alone, TypeOK
<1>2. failures' \in 0..Tier3
  BY <1>1, SaturateBounds
<1>3. CASE InsertFailure(r)
  <2>1. row = Null /\ failures = 0 /\ row' = [count |-> 1, lock |-> LockAfter(1, 0)]
    BY <1>1, <1>3 DEF InsertFailure, Alone
  <2>2. failures' = 1
    BY <1>1, <2>1, TiersAssumption DEF Saturate
  <2>3. 0 \in 0..Lock3 /\ LockAfter(1, 0) \in 0..Lock3 /\ 1 \in 0..Tier3
    BY TiersAssumption, LockAfterEarned
  <2>4. row' \in Row
    BY <2>1, <2>3 DEF Row
  <2> QED BY <1>2, <2>1, <2>2, <2>3, <2>4, NullRowAssumption
<1>4. CASE UpdateFailure(r)
  <2>1. row \in Row /\ row.count = failures
    BY <1>1, <1>4 DEF UpdateFailure, Alone, TypeOK
  <2>2. row' = [count |-> failures', lock |-> LockAfter(failures', row.lock)]
    BY <1>1, <1>4, <2>1 DEF UpdateFailure
  <2>3. row.lock \in 0..Lock3 /\ LockAfter(failures', row.lock) \in 0..Lock3
    BY <1>2, <2>1, LockAfterEarned DEF Row
  <2>4. row' \in Row
    BY <1>2, <2>2, <2>3 DEF Row
  <2> QED BY <1>2, <2>2, <2>3, <2>4, NullRowAssumption
<1> QED BY <1>3, <1>4

LEMMA NextAlone == TypeOK /\ Alone /\ [Next]_vars => Alone'
<1> SUFFICES ASSUME TypeOK, Alone, [Next]_vars PROVE Alone'
  OBVIOUS
<1>1. CASE UNCHANGED vars
  BY <1>1 DEF Alone, vars
<1>2. CASE Tick
  <2>1. row' = Elapsed(row) /\ UNCHANGED <<failures, overlapped>>
        /\ req' = [x \in Requests |-> [req[x] EXCEPT !.snap = Elapsed(@)]]
    BY <1>2 DEF Tick
  <2>2. \A x \in Requests : req'[x].pc = req[x].pc /\ req'[x].snap = Elapsed(req[x].snap)
    <3> SUFFICES ASSUME NEW x \in Requests
                 PROVE  req'[x].pc = req[x].pc /\ req'[x].snap = Elapsed(req[x].snap)
      OBVIOUS
    <3>1. req[x] \in Login
      BY DEF TypeOK, Login
    <3>2. req'[x] = [req[x] EXCEPT !.snap = Elapsed(req[x].snap)]
      BY <2>1
    <3> QED BY <3>1, <3>2 DEF Login
  <2>3. (row' = Null <=> row = Null) /\ (row # Null => row'.count = row.count)
    BY <2>1, ElapsedRow, ElapsedNull DEF TypeOK
  <2> QED BY <2>1, <2>2, <2>3 DEF Alone
<1>3. ASSUME NEW r \in Requests, Start(r) \/ Verify(r) \/ ReadFailure(r) \/ ReadSuccess(r)
      PROVE  Alone'
  <2>1. req[r] \in Login /\ req[r] = [pc |-> req[r].pc, snap |-> req[r].snap]
    BY DEF TypeOK, Login
  <2>2. UNCHANGED <<row, failures>> /\ row \in Row \cup {Null}
    BY <1>3 DEF Start, Verify, ReadFailure, ReadSuccess, TypeOK
  <2>3. CASE Start(r)
    <3> DEFINE q == [pc |-> "verify", snap |-> req[r].snap]
    <3>1. q = [req[r] EXCEPT !.pc = "verify"]
      BY <2>1
    <3>2. req' = [req EXCEPT ![r] = q] /\ overlapped' = (overlapped \/ \E x \in Requests : req[x].pc # "idle")
      BY <2>3, <3>1 DEF Start, Enter
    <3>3. q \in Login
      BY <2>1 DEF Login, PCs
    <3> HIDE DEF q
    <3>4. q.pc = "verify"
      BY DEF q
    <3> QED BY <2>2, <3>2, <3>3, <3>4, AloneReadStep
  <2>4. CASE Verify(r)
    <3>1. PICK pc \in {"readFailure", "readSuccess"} : req' = [req EXCEPT ![r].pc = pc]
      BY <2>4 DEF Verify
    <3> DEFINE q == [pc |-> pc, snap |-> req[r].snap]
    <3>2. q = [req[r] EXCEPT !.pc = pc]
      BY <2>1
    <3>3. req' = [req EXCEPT ![r] = q] /\ overlapped' = overlapped /\ req[r].pc = "verify"
      BY <2>4, <3>1, <3>2 DEF Verify
    <3>4. q \in Login /\ q.pc = pc
      BY <2>1 DEF Login, PCs
    <3> HIDE DEF q
    <3> QED BY <2>2, <3>3, <3>4, AloneReadStep DEF Alone
  <2>5. CASE ReadFailure(r) \/ ReadSuccess(r)
    <3>1. PICK pc \in {"saveFailure", "saveSuccess"} :
            req' = [req EXCEPT ![r] = [pc |-> pc, snap |-> row]]
      BY <2>5 DEF ReadFailure, ReadSuccess
    <3>2. overlapped' = overlapped /\ req[r].pc # "idle"
      BY <2>5 DEF ReadFailure, ReadSuccess
    <3>3. [pc |-> pc, snap |-> row] \in Login
      BY <2>2 DEF Login, PCs
    <3> QED BY <2>2, <3>1, <3>2, <3>3, AloneReadStep DEF Alone
  <2> QED BY <1>3, <2>3, <2>4, <2>5
<1>4. ASSUME NEW r \in Requests, InsertFailure(r) \/ UpdateFailure(r) PROVE Alone'
  BY <1>4, FailureAlone, AloneSaveStep DEF InsertFailure, UpdateFailure
<1>5. ASSUME NEW r \in Requests, SaveSuccess(r) PROVE Alone'
  <2>1. ~overlapped => req[r].snap = row
    BY <1>5 DEF SaveSuccess, Alone
  <2>2. row # Null => [row EXCEPT !.count = 0].count = 0
    BY DEF TypeOK, Row
  <2>3. ~overlapped => IF row' = Null THEN failures' = 0 ELSE row'.count = failures'
    BY <1>5, <2>1, <2>2 DEF SaveSuccess
  <2> QED BY <1>5, <2>3, AloneSaveStep DEF SaveSuccess
<1> QED BY <1>1, <1>2, <1>3, <1>4, <1>5 DEF Next, Advance

LEMMA AloneAlways == Spec => [](TypeOK /\ Alone)
<1>1. Init => TypeOK /\ Alone
  BY InitInvariant, InitAlone DEF IInv
<1>2. IInv /\ Alone /\ [Next]_vars => Alone'
  BY NextAlone DEF IInv
<1>3. IInv => TypeOK
  BY DEF IInv
<1> QED BY <1>1, <1>2, <1>3, InvariantAlways, PTL DEF Spec

-----------------------------------------------------------------------------

\* Counts and locks stay in range for any tiers, locks and number of logins.
THEOREM TypeCorrect == Spec => []TypeOK
<1>1. IInv => TypeOK
  BY DEF IInv
<1> QED BY <1>1, InvariantAlways, PTL

\* However many logins overlap in incrementFailure and resetOnSuccess, whoever
\* is locked out has failed at least Tier1 times.
THEOREM NoSpuriousLockAlways == Spec => []NoSpuriousLock
<1>1. IInv => NoSpuriousLock
  BY DEF IInv, CopiesEarned, NoSpuriousLock, Locked, Earned
<1> QED BY <1>1, InvariantAlways, PTL

\* With logins that come one at a time, incrementFailure and resetOnSuccess
\* count exactly the failures since the last success.
THEOREM CountIsExactAlways == Spec => []CountIsExact
<1>1. TypeOK /\ Alone => CountIsExact
  BY DEF Alone, CountIsExact
<1> QED BY <1>1, AloneAlways, PTL

\* ... and failure number Tier1 of them, and every one after it, locks.
THEOREM LocksWhenAloneAlways == Spec => LocksWhenAlone
<1>1. TypeOK /\ Alone => (~overlapped => \A r \in Requests : FailureLocks(r))
  <2> SUFFICES ASSUME TypeOK, Alone, ~overlapped, NEW r \in Requests,
                      InsertFailure(r) \/ UpdateFailure(r), failures' >= Tier1
               PROVE  row'.lock >= Lock1
    BY DEF FailureLocks
  <2>1. PICK old \in 0..Lock3 : row'.lock = LockAfter(failures', old)
    BY FailureAlone
  <2>2. failures' \in 0..Tier3
    BY FailureAlone
  <2> QED BY <2>1, <2>2, TiersAssumption DEF LockAfter
<1> QED BY <1>1, AloneAlways, PTL DEF LocksWhenAlone

=============================================================================
