---------------------------- MODULE LoginAttempts ----------------------------
(***************************************************************************)
(* LoginAttemptsService and the part of POST /login that uses it: one row  *)
(* of login_attempts, that of one (tenant, email, ip), under concurrent    *)
(* logins.  Every attempt reads the row to see whether it is locked,       *)
(* verifies the password, reads the row again and saves it.                *)
(*                                                                         *)
(* Time is what is left of a lock: lockedUntil - now, 0 once it has passed *)
(* and 0 for NULL.  A snapshot holds an absolute time, so its rest shrinks *)
(* with the row's.  Counts saturate at Tier3, above which nothing compares *)
(* them.                                                                   *)
(***************************************************************************)
EXTENDS Naturals, FiniteSets

CONSTANTS Requests,                 \* logins in flight
          Tier1, Tier2, Tier3,      \* 5, 10, 15 failures
          Lock1, Lock2, Lock3,      \* 5, 15, 60 minutes
          Null                      \* no row

ASSUME TiersAssumption ==
  /\ {Tier1, Tier2, Tier3, Lock1, Lock2, Lock3} \subseteq Nat \ {0}
  /\ Tier1 < Tier2 /\ Tier2 < Tier3
  /\ Lock1 < Lock2 /\ Lock2 < Lock3

Row == [count : 0..Tier3, lock : 0..Lock3]

ASSUME NullRowAssumption == Null \notin Row

VARIABLES row,       \* the row, or Null before the first failure
          req,       \* per login: where it is and the row it has read
          failures,  \* history: failed logins since the last success
          everFailed, \* history: failed logins of all time
          overlapped \* history: a login has begun while another was under way

vars == <<row, req, failures, everFailed, overlapped>>

PCs == {"idle", "verify", "readFailure", "saveFailure", "readSuccess", "saveSuccess"}

Idle == [pc |-> "idle", snap |-> Null]

Saturate(n) == IF n < Tier3 THEN n ELSE Tier3

Locked == row # Null /\ row.lock > 0

\* Mutant: the first threshold is off by one.
LockEarly(count, old) ==
  IF count >= Tier3 THEN Lock3
  ELSE IF count >= Tier2 THEN Lock2
  ELSE IF count + 1 >= Tier1 THEN Lock1 ELSE old

\* Mutant: > where the code has >=.
LockLate(count, old) ==
  IF count > Tier3 THEN Lock3
  ELSE IF count > Tier2 THEN Lock2
  ELSE IF count > Tier1 THEN Lock1 ELSE old

\* Mutant: the new lock is added to what is left of the old one.
LockAdds(count, old) ==
  IF count >= Tier3 THEN old + Lock3
  ELSE IF count >= Tier2 THEN old + Lock2
  ELSE IF count >= Tier1 THEN old + Lock1 ELSE old

\* The lock a failure leaves, given the count with that failure in it.
LockAfter(count, old) ==
  IF count >= Tier3 THEN Lock3
  ELSE IF count >= Tier2 THEN Lock2
  ELSE IF count >= Tier1 THEN Lock1 ELSE old

(***************************************************************************)
(* Actions                                                                 *)
(***************************************************************************)

Enter(r) ==
  /\ req' = [req EXCEPT ![r].pc = "verify"]
  /\ overlapped' = (overlapped \/ \E x \in Requests : req[x].pc # "idle")

\* Mutant: the login page does not ask isLocked.
StartUnchecked(r) ==
  /\ req[r].pc = "idle"
  /\ Enter(r)
  /\ UNCHANGED <<row, failures, everFailed>>

\* isLocked says no.  (A locked attempt is answered 429 and changes nothing.)
Start(r) ==
  /\ req[r].pc = "idle"
  /\ ~Locked
  /\ Enter(r)
  /\ UNCHANGED <<row, failures, everFailed>>

\* The user is unknown or the password wrong; or the password is right.
Verify(r) ==
  /\ req[r].pc = "verify"
  /\ \E pc \in {"readFailure", "readSuccess"} : req' = [req EXCEPT ![r].pc = pc]
  /\ UNCHANGED <<row, failures, everFailed, overlapped>>

\* incrementFailure: findOne.
ReadFailure(r) ==
  /\ req[r].pc = "readFailure"
  /\ req' = [req EXCEPT ![r] = [pc |-> "saveFailure", snap |-> row]]
  /\ UNCHANGED <<row, failures, everFailed, overlapped>>

FailureCounted ==
  /\ failures' = Saturate(failures + 1)
  /\ everFailed' = Saturate(everFailed + 1)

\* No row was found: create and INSERT.  A row inserted since then violates
\* the unique index; the login is answered 500 and its failure not counted.
InsertFailure(r) ==
  /\ req[r].pc = "saveFailure" /\ req[r].snap = Null
  /\ row' = IF row = Null THEN [count |-> 1, lock |-> LockAfter(1, 0)] ELSE row
  /\ FailureCounted
  /\ req' = [req EXCEPT ![r] = Idle]
  /\ UNCHANGED overlapped

\* A row was found: its copy, one higher, is written back over whatever the
\* row is by now, lockedUntil included.
UpdateFailure(r) ==
  LET snap == req[r].snap
      count == Saturate(snap.count + 1)
  IN
  /\ req[r].pc = "saveFailure" /\ snap # Null
  /\ row' = [count |-> count, lock |-> LockAfter(count, snap.lock)]
  /\ FailureCounted
  /\ req' = [req EXCEPT ![r] = Idle]
  /\ UNCHANGED overlapped

\* resetOnSuccess: findOne.
ReadSuccess(r) ==
  /\ req[r].pc = "readSuccess"
  /\ req' = [req EXCEPT ![r] = [pc |-> "saveSuccess", snap |-> row]]
  /\ UNCHANGED <<row, failures, everFailed, overlapped>>

\* Mutant: success leaves the count as it was.
SaveSuccessKeepsCount(r) ==
  /\ req[r].pc = "saveSuccess"
  /\ failures' = 0
  /\ req' = [req EXCEPT ![r] = Idle]
  /\ UNCHANGED <<row, everFailed, overlapped>>

\* count becomes 0.  lockedUntil is set to undefined, a value save() leaves
\* out of the UPDATE: the column keeps what it holds.
SaveSuccess(r) ==
  /\ req[r].pc = "saveSuccess"
  /\ row' = IF req[r].snap = Null THEN row ELSE [row EXCEPT !.count = 0]
  /\ failures' = 0
  /\ req' = [req EXCEPT ![r] = Idle]
  /\ UNCHANGED <<everFailed, overlapped>>

Less(n) == IF n = 0 THEN 0 ELSE n - 1

Elapsed(x) == IF x = Null THEN Null ELSE [x EXCEPT !.lock = Less(@)]

\* Time passes, for the row and for the copies of it.
Tick ==
  /\ Locked \/ \E r \in Requests : req[r].snap # Null /\ req[r].snap.lock > 0
  /\ row' = Elapsed(row)
  /\ req' = [r \in Requests |-> [req[r] EXCEPT !.snap = Elapsed(@)]]
  /\ UNCHANGED <<failures, everFailed, overlapped>>

(***************************************************************************)
(* Specification                                                           *)
(***************************************************************************)
Init ==
  /\ row = Null
  /\ req = [r \in Requests |-> Idle]
  /\ failures = 0
  /\ everFailed = 0
  /\ overlapped = FALSE

Advance(r) ==
  \/ Verify(r)
  \/ ReadFailure(r)
  \/ InsertFailure(r)
  \/ UpdateFailure(r)
  \/ ReadSuccess(r)
  \/ SaveSuccess(r)

Next == Tick \/ \E r \in Requests : Start(r) \/ Advance(r)

Spec == Init /\ [][Next]_vars

\* Time passes and a login that has begun goes on; nobody has to log in.
Fairness == WF_vars(Tick) /\ \A r \in Requests : WF_vars(Advance(r))

FairSpec == Spec /\ Fairness

(***************************************************************************)
(* Properties                                                              *)
(***************************************************************************)

\* The row and the copies of it keep counts and locks within their bounds.
TypeOK ==
  /\ row \in Row \cup {Null}
  /\ req \in [Requests -> [pc : PCs, snap : Row \cup {Null}]]
  /\ failures \in 0..Tier3
  /\ everFailed \in 0..Tier3
  /\ overlapped \in BOOLEAN

\* Nobody is locked out who has not failed as often as the first tier asks,
\* however stale the copies that overlapping logins write back.
NoSpuriousLock == Locked => everFailed >= Tier1

\* As long as logins come one at a time, the count is the number of failures
\* since the last success, so that tiers are reached after exactly that many.
CountIsExact == ~overlapped /\ row # Null => row.count = failures

\* Failure number Tier1 in a row, and every one after it, leaves the row locked.
FailureLocks(r) ==
  (InsertFailure(r) \/ UpdateFailure(r)) /\ failures' >= Tier1 => row'.lock >= Lock1

\* ... which holds as long as logins come one at a time.
LocksWhenAlone == [][~overlapped => \A r \in Requests : FailureLocks(r)]_vars

\* A lock does not last for ever: logins already under way when it begins may
\* prolong it, and none of those can do so twice.
LockLifts == Locked ~> ~Locked

\* login-attempts.service.ts: "Progressive lockout: 5 fails => 5m", whether or
\* not logins overlap.
FailuresLock == [][\A r \in Requests : FailureLocks(r)]_vars

=============================================================================
