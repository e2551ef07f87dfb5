-------------------------- MODULE SigningKeysProofs --------------------------
(***************************************************************************)
(* Proofs about SigningKeys, for any number of processes, tasks, keys and  *)
(* failures.                                                               *)
(*                                                                         *)
(* TokensVerifiable and SigningKeyOwned depend on what the tasks hold: a   *)
(* task that is about to make its key the process's activeKey must already *)
(* have stored the row and the private key, and no step may take either    *)
(* away from a process that is not dying.                                  *)
(*                                                                         *)
(* OneActiveRow is inductive by itself once the tasks that have stored a   *)
(* row and not retired the others are known to be finitely many.           *)
(***************************************************************************)
EXTENDS SigningKeys, FiniteSetTheorems, TLAPS

StoredRow(k) == status[k] # "none"

\* A task about to install a key has its row stored and its private key here.
TaskKeys ==
  \A t \in Tasks :
    /\ task[t].pc # "idle" => task[t].proc \in Processes
    /\ task[t].pc \in {"save", "import", "retire", "install"} =>
         /\ task[t].key \in Keys
         /\ task[t].key \in privs[task[t].proc]
    /\ task[t].pc \in {"import", "retire", "install"} => StoredRow(task[t].key)
    /\ task[t].pc = "sign" => active[task[t].proc] # NoKey

\* So has a process that has a key to sign with.
ActiveKeys ==
  \A p \in Processes : active[p] # NoKey => /\ active[p] \in privs[p]
                                            /\ StoredRow(active[p])

UsedKeys == \A k \in used : StoredRow(k)

IInv == TypeOK /\ TaskKeys /\ ActiveKeys /\ UsedKeys

\* Rows are never deleted and no process forgets a key while it lives.
Grows ==
  /\ \A k \in Keys : StoredRow(k) => StoredRow(k)'
  /\ \A p \in Processes : privs[p] \subseteq privs'[p]

-----------------------------------------------------------------------------

LEMMA IdleTask == Idle \in Task /\ Idle.pc = "idle"
BY DEF Idle, Task, PCs, Kinds

LEMMA InitInvariant == Init => IInv
<1> SUFFICES ASSUME Init PROVE IInv
  OBVIOUS
<1>1. TypeOK
  BY IdleTask, BoundsAssumption DEF Init, TypeOK
<1>2. TaskKeys /\ ActiveKeys /\ UsedKeys
  BY IdleTask DEF Init, TaskKeys, ActiveKeys, UsedKeys
<1> QED BY <1>1, <1>2 DEF IInv

\* The parts of the invariant that speak of tasks, after a step of task t that
\* takes no row and no private key away: only task t has to be looked at.
LEMMA OneTaskStep ==
  ASSUME IInv, TypeOK', Grows, NEW t \in Tasks, NEW q \in Task,
         task' = [task EXCEPT ![t] = q],
         \A p \in Processes : active[p] # NoKey => active'[p] # NoKey,
         q.pc # "idle" => q.proc \in Processes,
         q.pc \in {"save", "import", "retire", "install"} =>
           q.key \in Keys /\ q.key \in privs'[q.proc],
         q.pc \in {"import", "retire", "install"} => status'[q.key] # "none",
         q.pc = "sign" => active'[q.proc] # NoKey
  PROVE  TaskKeys'
<1> SUFFICES ASSUME NEW x \in Tasks
             PROVE  /\ task'[x].pc # "idle" => task'[x].proc \in Processes
                    /\ task'[x].pc \in {"save", "import", "retire", "install"} =>
                         /\ task'[x].key \in Keys
                         /\ task'[x].key \in privs'[task'[x].proc]
                    /\ task'[x].pc \in {"import", "retire", "install"} => status'[task'[x].key] # "none"
                    /\ task'[x].pc = "sign" => active'[task'[x].proc] # NoKey
  BY DEF TaskKeys, StoredRow
<1>1. CASE x = t
  <2>1. task'[x] = q
    BY <1>1 DEF IInv, TypeOK
  <2> QED BY <2>1 DEF StoredRow
<1>2. CASE x # t
  <2>1. task'[x] = task[x]
    BY <1>2 DEF IInv, TypeOK
  <2> QED BY <2>1 DEF IInv, TaskKeys, Grows, StoredRow
<1> QED BY <1>1, <1>2

\* The other two parts, when the step leaves activeKey and the tokens alone.
LEMMA KeepsKeys ==
  ASSUME IInv, Grows, UNCHANGED <<active, used>>
  PROVE  ActiveKeys' /\ UsedKeys'
BY DEF IInv, TypeOK, Grows, ActiveKeys, UsedKeys, StoredRow

LEMMA GrowsIfUnchanged == ASSUME UNCHANGED <<status, privs>> PROVE Grows
BY DEF Grows, StoredRow

-----------------------------------------------------------------------------
(* One lemma for each group of actions.                                    *)

\* A task begins, or goes from one statement to the next, changing at most the
\* phase of a process.
LEMMA MoveInvariant ==
  ASSUME IInv, NEW t \in Tasks, NEW q \in Task, task' = [task EXCEPT ![t] = q],
         phase' \in [Processes -> {"down", "warming", "up"}],
         losses' \in 0..MaxLosses,
         UNCHANGED <<status, active, privs, used, made>>,
         q.pc # "idle" => q.proc \in Processes,
         q.pc \in {"save", "import", "retire", "install"} =>
           q.key \in Keys /\ q.key \in privs[q.proc],
         q.pc \in {"import", "retire", "install"} => StoredRow(q.key),
         q.pc = "sign" => active[q.proc] # NoKey
  PROVE  IInv'
<1>1. TypeOK'
  BY DEF IInv, TypeOK
<1>2. Grows
  BY GrowsIfUnchanged
<1>3. ActiveKeys' /\ UsedKeys'
  BY <1>2, KeepsKeys
<1>4. q.pc \in {"import", "retire", "install"} => status'[q.key] # "none"
  BY DEF StoredRow
<1>5. TaskKeys'
  BY <1>1, <1>2, <1>4, OneTaskStep
<1> QED BY <1>1, <1>3, <1>5 DEF IInv

LEMMA BeginInvariant ==
  ASSUME IInv, NEW t \in Tasks, Begin(t)
  PROVE  IInv'
<1> USE DEF Task, PCs, Kinds
<1>1. PICK p \in Processes : StartProcess(t, p) \/ RotateDaily(t, p) \/ SignJwt(t, p)
  BY DEF Begin
<1>2. losses \in 0..MaxLosses /\ phase \in [Processes -> {"down", "warming", "up"}]
  BY DEF IInv, TypeOK
<1>3. CASE StartProcess(t, p)
  <2> DEFINE q == [pc |-> "find", kind |-> "warmup", proc |-> p, key |-> NoKey]
  <2>1. q \in Task /\ task' = [task EXCEPT ![t] = q]
    BY <1>3 DEF StartProcess
  <2>2. phase' \in [Processes -> {"down", "warming", "up"}]
    BY <1>2, <1>3 DEF StartProcess
  <2> QED BY <1>2, <1>3, <2>1, <2>2, MoveInvariant DEF StartProcess
<1>4. CASE RotateDaily(t, p)
  <2> DEFINE q == [pc |-> "generate", kind |-> "rotate", proc |-> p, key |-> NoKey]
  <2>1. q \in Task /\ task' = [task EXCEPT ![t] = q]
    BY <1>4 DEF RotateDaily
  <2> QED BY <1>2, <1>4, <2>1, MoveInvariant DEF RotateDaily
<1>5. CASE SignJwt(t, p)
  <2> DEFINE q == [pc |-> IF active[p] = NoKey THEN "find" ELSE "sign",
                   kind |-> "sign", proc |-> p, key |-> NoKey]
  <2>1. q \in Task /\ task' = [task EXCEPT ![t] = q]
    BY <1>5 DEF SignJwt
  <2> QED BY <1>2, <1>5, <2>1, MoveInvariant DEF SignJwt
<1> QED BY <1>1, <1>3, <1>4, <1>5

LEMMA FindInvariant ==
  ASSUME IInv, NEW t \in Tasks, FindOwnKey(t) \/ FindNoKey(t)
  PROVE  IInv'
<1>1. task[t] \in Task /\ losses \in 0..MaxLosses
      /\ phase \in [Processes -> {"down", "warming", "up"}]
  BY DEF IInv, TypeOK
<1>2. task[t].proc \in Processes
  BY DEF IInv, TaskKeys, FindOwnKey, FindNoKey
<1>3. CASE FindOwnKey(t)
  <2>1. PICK k \in privs[task[t].proc] :
          IsNewest(k) /\ task' = [task EXCEPT ![t].pc = "import", ![t].key = k]
    BY <1>3 DEF FindOwnKey
  <2>2. k \in Keys /\ StoredRow(k)
    BY <2>1 DEF IsNewest, ActiveRows, StoredRow
  <2> DEFINE q == [task[t] EXCEPT !.pc = "import", !.key = k]
  <2>3. task' = [task EXCEPT ![t] = q]
    BY <2>1 DEF IInv, TypeOK
  <2>4. q \in Task /\ q.pc = "import" /\ q.key = k /\ q.proc = task[t].proc
    BY <1>1, <2>2 DEF Task, PCs
  <2> HIDE DEF q
  <2> QED BY <1>1, <1>2, <1>3, <2>1, <2>2, <2>3, <2>4, MoveInvariant DEF FindOwnKey
<1>4. CASE FindNoKey(t)
  <2> DEFINE q == [task[t] EXCEPT !.pc = "generate"]
  <2>1. task' = [task EXCEPT ![t] = q]
    BY <1>4 DEF FindNoKey, Goto, IInv, TypeOK
  <2>2. q \in Task /\ q.pc = "generate" /\ q.proc = task[t].proc
    BY <1>1 DEF Task, PCs
  <2> HIDE DEF q
  <2> QED BY <1>1, <1>2, <1>4, <2>1, <2>2, MoveInvariant DEF FindNoKey
<1> QED BY <1>3, <1>4

LEMMA GenerateInvariant ==
  ASSUME IInv, NEW t \in Tasks, Generate(t)
  PROVE  IInv'
<1> DEFINE p == task[t].proc
           q == [task[t] EXCEPT !.pc = "save", !.key = made + 1]
<1>1. task[t] \in Task /\ p \in Processes /\ made + 1 \in Keys /\ made + 1 \in 0..MaxKeys
  BY BoundsAssumption DEF Generate, IInv, TypeOK, TaskKeys, Keys
<1>2. q \in Task /\ q.pc = "save" /\ q.key = made + 1 /\ q.proc = p
  BY <1>1 DEF Task, PCs
<1>3. task' = [task EXCEPT ![t] = q]
  BY DEF Generate, IInv, TypeOK
<1>4. privs' = [privs EXCEPT ![p] = @ \cup {made + 1}]
      /\ made' = made + 1 /\ UNCHANGED <<status, phase, active, used, losses>>
  BY DEF Generate
<1>5. TypeOK'
  BY <1>1, <1>2, <1>3, <1>4 DEF IInv, TypeOK
<1>6. Grows
  BY <1>4 DEF Grows, StoredRow, IInv, TypeOK
<1>7. made + 1 \in privs'[p]
  BY <1>1, <1>4 DEF IInv, TypeOK
<1>8. TaskKeys'
  <2> HIDE DEF p, q
  <2> QED BY <1>1, <1>2, <1>3, <1>4, <1>5, <1>6, <1>7, OneTaskStep
<1>9. ActiveKeys' /\ UsedKeys'
  BY <1>4, <1>6, KeepsKeys
<1> QED BY <1>5, <1>8, <1>9 DEF IInv

LEMMA TableInvariant ==
  ASSUME IInv, NEW t \in Tasks, SaveKey(t) \/ RetireOthers(t)
  PROVE  IInv'
<1> DEFINE pc == IF task[t].pc = "save" THEN "retire" ELSE "install"
           q == [task[t] EXCEPT !.pc = pc]
<1>1. task[t] \in Task /\ task[t].pc \in {"save", "retire"}
  BY DEF SaveKey, RetireOthers, IInv, TypeOK
<1>2. /\ task[t].proc \in Processes /\ task[t].key \in Keys
      /\ task[t].key \in privs[task[t].proc]
      /\ task[t].pc = "retire" => StoredRow(task[t].key)
  BY <1>1 DEF IInv, TaskKeys
<1>3. q \in Task /\ q.pc = pc /\ q.key = task[t].key /\ q.proc = task[t].proc
  BY <1>1 DEF Task, PCs
<1>4. task' = [task EXCEPT ![t] = q] /\ UNCHANGED <<phase, active, privs, used, made, losses>>
  BY DEF SaveKey, RetireOthers, Goto, IInv, TypeOK
<1>5. status' \in [Keys -> {"none", "active", "retired"}]
      /\ \A k \in Keys : StoredRow(k) => StoredRow(k)'
  <2>1. CASE SaveKey(t)
    BY <2>1, <1>2 DEF SaveKey, StoredRow, IInv, TypeOK
  <2>2. CASE RetireOthers(t)
    BY <2>2 DEF RetireOthers, StoredRow, IInv, TypeOK
  <2> QED BY <2>1, <2>2
<1>6. status'[task[t].key] # "none"
  <2>1. CASE SaveKey(t)
    BY <2>1, <1>2 DEF SaveKey, IInv, TypeOK
  <2>2. CASE RetireOthers(t)
    <3>1. StoredRow(task[t].key)
      BY <2>2, <1>2 DEF RetireOthers
    <3> QED BY <3>1, <1>2, <1>5 DEF StoredRow
  <2> QED BY <2>1, <2>2
<1>7. TypeOK'
  <2> HIDE DEF q
  <2> QED BY <1>3, <1>4, <1>5 DEF IInv, TypeOK
<1>8. Grows
  BY <1>4, <1>5 DEF Grows
<1>9. TaskKeys'
  <2>1. q.pc \in {"retire", "install"} /\ status'[q.key] # "none"
    BY <1>1, <1>3, <1>6
  <2> HIDE DEF q, pc
  <2> QED BY <1>2, <1>3, <1>4, <1>7, <1>8, <2>1, OneTaskStep
<1>10. ActiveKeys' /\ UsedKeys'
  BY <1>4, <1>8, KeepsKeys
<1> QED BY <1>7, <1>9, <1>10 DEF IInv

LEMMA InstallInvariant ==
  ASSUME IInv, NEW t \in Tasks, Import(t) \/ InstallKey(t)
  PROVE  IInv'
<1> DEFINE p == task[t].proc
           k == task[t].key
<1>1. /\ p \in Processes /\ k \in Keys /\ k \in privs[p] /\ StoredRow(k)
      /\ task[t] \in Task
  BY DEF Import, InstallKey, IInv, TypeOK, TaskKeys
<1>2. active' = [active EXCEPT ![p] = k] /\ UNCHANGED <<status, privs, used, made, losses>>
  BY DEF Import, InstallKey
<1>3. k # NoKey
  BY <1>1 DEF Keys, NoKey
<1>4. PICK q \in {[task[t] EXCEPT !.pc = "sign"], Idle} : task' = [task EXCEPT ![t] = q]
  BY DEF Import, InstallKey, Ensured, Goto, Finish, IInv, TypeOK
<1>5. q \in Task /\ q.pc \in {"sign", "idle"} /\ (q.pc = "sign" => q.proc = p)
  <2>1. CASE q = Idle
    BY <2>1, IdleTask
  <2>2. CASE q = [task[t] EXCEPT !.pc = "sign"]
    BY <2>2, <1>1 DEF Task, PCs
  <2> QED BY <2>1, <2>2, <1>4
<1>6. phase' \in [Processes -> {"down", "warming", "up"}]
  BY DEF Import, InstallKey, Ensured, IInv, TypeOK
<1>7. TypeOK'
  BY <1>1, <1>2, <1>4, <1>5, <1>6 DEF IInv, TypeOK
<1>8. Grows
  BY <1>2, GrowsIfUnchanged
<1>9. \A x \in Processes : active'[x] = IF x = p THEN k ELSE active[x]
  BY <1>1, <1>2 DEF IInv, TypeOK
<1>10. TaskKeys'
  <2> HIDE DEF p, k
  <2> QED BY <1>1, <1>3, <1>4, <1>5, <1>7, <1>8, <1>9, OneTaskStep
<1>11. ActiveKeys' /\ UsedKeys'
  <2>1. ActiveKeys'
    <3> SUFFICES ASSUME NEW x \in Processes, active'[x] # NoKey
                 PROVE  active'[x] \in privs[x] /\ status[active'[x]] # "none"
      BY <1>2 DEF ActiveKeys, StoredRow
    <3>1. CASE x = p
      BY <3>1, <1>1, <1>9 DEF StoredRow
    <3>2. CASE x # p
      BY <3>2, <1>9 DEF IInv, ActiveKeys, StoredRow
    <3> QED BY <3>1, <3>2
  <2>2. UsedKeys'
    BY <1>2 DEF IInv, UsedKeys, StoredRow
  <2> QED BY <2>1, <2>2
<1> QED BY <1>7, <1>10, <1>11 DEF IInv

LEMMA SignInvariant ==
  ASSUME IInv, NEW t \in Tasks, Sign(t)
  PROVE  IInv'
<1> DEFINE k == active[task[t].proc]
<1>1. task[t].proc \in Processes /\ k # NoKey
  BY DEF Sign, IInv, TaskKeys
<1>2. k \in Keys /\ StoredRow(k)
  BY <1>1 DEF IInv, TypeOK, ActiveKeys
<1>3. /\ used' = used \cup {k} /\ task' = [task EXCEPT ![t] = Idle]
      /\ UNCHANGED <<status, phase, active, privs, made, losses>>
  BY DEF Sign, Finish
<1>4. TypeOK'
  BY <1>2, <1>3, IdleTask DEF IInv, TypeOK
<1>5. Grows
  BY <1>3, GrowsIfUnchanged
<1>6. TaskKeys'
  BY <1>3, <1>4, <1>5, IdleTask, OneTaskStep
<1>7. ActiveKeys'
  BY <1>3 DEF IInv, ActiveKeys, StoredRow
<1>8. UsedKeys'
  BY <1>2, <1>3 DEF IInv, UsedKeys, StoredRow
<1> QED BY <1>4, <1>6, <1>7, <1>8 DEF IInv

LEMMA ThrowInvariant ==
  ASSUME IInv, NEW t \in Tasks, Throw(t)
  PROVE  IInv'
<1>1. task' = [task EXCEPT ![t] = Idle] /\ UNCHANGED <<status, active, privs, used, made>>
  BY DEF Throw, Finish
<1>2. phase' \in [Processes -> {"down", "warming", "up"}]
  BY DEF Throw, IInv, TypeOK
<1>3. losses' \in 0..MaxLosses
  <2>1. losses \in 0..MaxLosses /\ losses < MaxLosses /\ losses' = losses + 1
    BY DEF Throw, IInv, TypeOK
  <2> QED BY <2>1, BoundsAssumption
<1> QED BY <1>1, <1>2, <1>3, IdleTask, MoveInvariant

LEMMA DieInvariant ==
  ASSUME IInv, NEW p \in Processes, Die(p)
  PROVE  IInv'
<1>1. /\ active' = [active EXCEPT ![p] = NoKey]
      /\ privs' = [privs EXCEPT ![p] = {}]
      /\ phase' = [phase EXCEPT ![p] = "down"]
      /\ losses < MaxLosses /\ losses' = losses + 1
      /\ task' = [t \in Tasks |-> IF task[t].proc = p THEN Idle ELSE task[t]]
      /\ UNCHANGED <<status, used, made>>
  BY DEF Die
<1>2. \A x \in Processes : /\ active'[x] = IF x = p THEN NoKey ELSE active[x]
                           /\ x # p => privs'[x] = privs[x]
  BY <1>1 DEF IInv, TypeOK
<1>3. \A t \in Tasks : task'[t] = IF task[t].proc = p THEN Idle ELSE task[t]
  BY <1>1
<1>4. TypeOK'
  <2>1. task' \in [Tasks -> Task]
    BY <1>1, IdleTask DEF IInv, TypeOK
  <2>2. active' \in [Processes -> Keys \cup {NoKey}] /\ privs' \in [Processes -> SUBSET Keys]
        /\ phase' \in [Processes -> {"down", "warming", "up"}]
    BY <1>1 DEF IInv, TypeOK
  <2>3. losses' \in 0..MaxLosses
    BY <1>1, BoundsAssumption DEF IInv, TypeOK
  <2> QED BY <1>1, <2>1, <2>2, <2>3 DEF IInv, TypeOK
<1>5. TaskKeys'
  <2> SUFFICES ASSUME NEW x \in Tasks
               PROVE  /\ task'[x].pc # "idle" => task'[x].proc \in Processes
                      /\ task'[x].pc \in {"save", "import", "retire", "install"} =>
                           /\ task'[x].key \in Keys
                           /\ task'[x].key \in privs'[task'[x].proc]
                      /\ task'[x].pc \in {"import", "retire", "install"} =>
                           status[task'[x].key] # "none"
                      /\ task'[x].pc = "sign" => active'[task'[x].proc] # NoKey
    BY <1>1 DEF TaskKeys, StoredRow
  <2>1. CASE task[x].proc = p
    BY <2>1, <1>3, IdleTask
  <2>2. CASE task[x].proc # p
    <3>1. task'[x] = task[x]
      BY <2>2, <1>3
    <3> QED BY <2>2, <3>1, <1>2 DEF IInv, TaskKeys, StoredRow
  <2> QED BY <2>1, <2>2
<1>6. ActiveKeys'
  BY <1>1, <1>2 DEF IInv, ActiveKeys, StoredRow
<1>7. UsedKeys'
  BY <1>1 DEF IInv, UsedKeys, StoredRow
<1> QED BY <1>4, <1>5, <1>6, <1>7 DEF IInv

LEMMA NextInvariant == IInv /\ [Next]_vars => IInv'
<1> SUFFICES ASSUME IInv, [Next]_vars PROVE IInv'
  OBVIOUS
<1>1. CASE UNCHANGED vars
  BY <1>1 DEF IInv, TypeOK, TaskKeys, ActiveKeys, UsedKeys, StoredRow, vars
<1>2. ASSUME NEW t \in Tasks, Begin(t) PROVE IInv'
  BY <1>2, BeginInvariant
<1>3. ASSUME NEW t \in Tasks, Continue(t) PROVE IInv'
  <2>1. CASE FindOwnKey(t) \/ FindNoKey(t)
    BY <2>1, FindInvariant
  <2>2. CASE Generate(t)
    BY <2>2, GenerateInvariant
  <2>3. CASE SaveKey(t) \/ RetireOthers(t)
    BY <2>3, TableInvariant
  <2>4. CASE Import(t) \/ InstallKey(t)
    BY <2>4, InstallInvariant
  <2>5. CASE Sign(t)
    BY <2>5, SignInvariant
  <2> QED BY <1>3, <2>1, <2>2, <2>3, <2>4, <2>5 DEF Continue
<1>4. ASSUME NEW t \in Tasks, Throw(t) PROVE IInv'
  BY <1>4, ThrowInvariant
<1>5. ASSUME NEW p \in Processes, Die(p) PROVE IInv'
  BY <1>5, DieInvariant
<1> QED BY <1>1, <1>2, <1>3, <1>4, <1>5 DEF Next

LEMMA InvariantAlways == Spec => []IInv
<1> QED BY InitInvariant, NextInvariant, PTL DEF Spec

-----------------------------------------------------------------------------

Retiring == {t \in Tasks : task[t].pc = "retire"}

Rows == IsFiniteSet(Retiring) /\ OneActiveRow

LEMMA KeysFinite ==
  ASSUME NEW S \in SUBSET Keys
  PROVE  IsFiniteSet(S)
<1>1. MaxKeys \in Int /\ 1 \in Int
  BY BoundsAssumption
<1>2. IsFiniteSet(1..MaxKeys)
  BY <1>1, FS_Interval
<1> QED BY <1>2, FS_Subset DEF Keys

LEMMA InitRows == Init => Rows
<1> SUFFICES ASSUME Init PROVE Rows
  OBVIOUS
<1>1. Retiring = {} /\ ActiveRows = {}
  BY IdleTask DEF Init, Retiring, ActiveRows
<1> QED BY <1>1, FS_EmptySet DEF Rows, OneActiveRow, Retiring

\* A task that is lost takes nothing from the property: it no longer speaks.
LEMMA LossRows ==
  ASSUME TypeOK, Rows, losses' = losses + 1,
         \A t \in Tasks : task'[t].pc = "retire" => task[t].pc = "retire"
  PROVE  Rows'
<1>1. Retiring' \subseteq Retiring
  BY DEF Retiring
<1>2. IsFiniteSet(Retiring')
  BY <1>1, FS_Subset DEF Rows
<1>3. losses' # 0
  BY DEF TypeOK
<1> QED BY <1>2, <1>3 DEF Rows, OneActiveRow

\* A step of a task that has neither stored a row nor is about to.
LEMMA OtherRows ==
  ASSUME TypeOK, Rows, UNCHANGED <<status, losses>>,
         \A t \in Tasks : task'[t].pc = "retire" <=> task[t].pc = "retire"
  PROVE  Rows'
<1>1. Retiring' = Retiring /\ ActiveRows' = ActiveRows
  BY DEF Retiring, ActiveRows
<1> QED BY <1>1 DEF Rows, OneActiveRow, Retiring

LEMMA SaveKeyRows ==
  ASSUME TypeOK, Rows, NEW t \in Tasks, SaveKey(t)
  PROVE  Rows'
<1> PICK k \in Keys \cup {NoKey} : k = task[t].key
  BY DEF TypeOK, Task
<1>1. /\ \A x \in Tasks : x # t => task'[x] = task[x]
      /\ task'[t].pc = "retire" /\ task[t].pc = "save"
      /\ losses' = losses /\ status' = [status EXCEPT ![k] = "active"]
  <2>1. task[t] \in Task
    BY DEF TypeOK
  <2> QED BY <2>1 DEF SaveKey, Goto, TypeOK, Task
<1>2. Retiring' = Retiring \cup {t} /\ t \notin Retiring
  BY <1>1 DEF Retiring
<1>3. IsFiniteSet(Retiring) /\ IsFiniteSet(Retiring')
      /\ Cardinality(Retiring') = Cardinality(Retiring) + 1
  BY <1>2, FS_AddElement DEF Rows
<1>4. ActiveRows' \subseteq ActiveRows \cup {k}
  BY <1>1 DEF ActiveRows, TypeOK
<1>5. IsFiniteSet(ActiveRows) /\ IsFiniteSet(ActiveRows \cup {k})
  BY KeysFinite, FS_AddElement DEF ActiveRows
<1>6. Cardinality(ActiveRows \cup {k}) <= Cardinality(ActiveRows) + 1
  <2>1. Cardinality(ActiveRows) \in Nat
    BY <1>5, FS_CardinalityType
  <2>2. CASE k \in ActiveRows
    <3>1. ActiveRows \cup {k} = ActiveRows
      BY <2>2
    <3>2. Cardinality(ActiveRows \cup {k}) = Cardinality(ActiveRows)
      BY ONLY <3>1, Zenon
    <3> QED BY <3>2, <2>1
  <2>3. CASE k \notin ActiveRows
    <3>1. Cardinality(ActiveRows \cup {k}) = Cardinality(ActiveRows) + 1
      BY <1>5, <2>3, FS_AddElement
    <3> QED BY <3>1, <2>1
  <2> QED BY <2>2, <2>3
<1>7. Cardinality(ActiveRows') <= Cardinality(ActiveRows \cup {k}) /\ IsFiniteSet(ActiveRows')
  BY <1>4, <1>5, FS_Subset
<1>8. /\ Cardinality(Retiring) \in Nat /\ Cardinality(Retiring') \in Nat
      /\ Cardinality(ActiveRows) \in Nat /\ Cardinality(ActiveRows') \in Nat
      /\ Cardinality(ActiveRows \cup {k}) \in Nat
  BY <1>3, <1>5, <1>7, FS_CardinalityType
<1>9. losses = 0 => Cardinality(ActiveRows) <= 1 + Cardinality(Retiring)
  BY DEF Rows, OneActiveRow, Retiring
<1>10. losses' = 0 => Cardinality(ActiveRows') <= 1 + Cardinality(Retiring')
  BY <1>1, <1>3, <1>6, <1>7, <1>8, <1>9
<1> QED BY <1>3, <1>10 DEF Rows, OneActiveRow, Retiring

\* The UPDATE leaves the row of its own key, if that.
LEMMA RetireOthersRows ==
  ASSUME TypeOK, Rows, NEW t \in Tasks, RetireOthers(t)
  PROVE  Rows'
<1> PICK k \in Keys \cup {NoKey} : k = task[t].key
  BY DEF TypeOK, Task
<1>1. /\ \A x \in Tasks : x # t => task'[x] = task[x]
      /\ task'[t].pc = "install"
      /\ status' = [j \in Keys |-> IF j \in ActiveRows \ {k} THEN "retired" ELSE status[j]]
  <2>1. task[t] \in Task
    BY DEF TypeOK
  <2> QED BY <2>1 DEF RetireOthers, Goto, TypeOK, Task
<1>2. Retiring' \subseteq Retiring
  BY <1>1 DEF Retiring
<1>3. IsFiniteSet(Retiring')
  BY <1>2, FS_Subset DEF Rows
<1>4. ActiveRows' \subseteq {k}
  BY <1>1 DEF ActiveRows, TypeOK
<1>5. Cardinality(ActiveRows') <= 1
  <2>1. IsFiniteSet({k}) /\ Cardinality({k}) = 1
    BY FS_Singleton
  <2> QED BY <1>4, <2>1, FS_Subset
<1>6. Cardinality(Retiring') \in Nat /\ Cardinality(ActiveRows') \in Nat
  <2>1. IsFiniteSet(ActiveRows')
    BY KeysFinite DEF ActiveRows
  <2> QED BY <1>3, <2>1, FS_CardinalityType
<1>7. Cardinality(ActiveRows') <= 1 + Cardinality(Retiring')
  BY <1>5, <1>6
<1> QED BY <1>3, <1>7 DEF Rows, OneActiveRow, Retiring

LEMMA NextRows == TypeOK /\ Rows /\ [Next]_vars => Rows'
<1> SUFFICES ASSUME TypeOK, Rows, [Next]_vars PROVE Rows'
  OBVIOUS
<1>1. CASE UNCHANGED vars
  BY <1>1, OtherRows DEF vars
<1>2. ASSUME NEW t \in Tasks, Begin(t) PROVE Rows'
  <2>1. UNCHANGED <<status, losses>>
    BY <1>2 DEF Begin, StartProcess, RotateDaily, SignJwt
  <2>2. task[t].pc = "idle" /\ task'[t].pc # "retire"
        /\ \A x \in Tasks : x # t => task'[x] = task[x]
    BY <1>2 DEF Begin, StartProcess, RotateDaily, SignJwt, TypeOK
  <2> QED BY <2>1, <2>2, OtherRows
<1>3. ASSUME NEW t \in Tasks, Continue(t) PROVE Rows'
  <2>0. task[t] \in Task
    BY DEF TypeOK
  <2>1. CASE SaveKey(t)
    BY <2>1, SaveKeyRows
  <2>2. CASE RetireOthers(t)
    BY <2>2, RetireOthersRows
  <2>3. CASE FindOwnKey(t) \/ FindNoKey(t) \/ Generate(t)
    <3>1. UNCHANGED <<status, losses>>
      BY <2>3 DEF FindOwnKey, FindNoKey, Generate
    <3>2. task[t].pc # "retire" /\ task'[t].pc # "retire"
          /\ \A x \in Tasks : x # t => task'[x] = task[x]
      BY <2>0, <2>3 DEF FindOwnKey, FindNoKey, Generate, Goto, TypeOK, Task
    <3> QED BY <3>1, <3>2, OtherRows
  <2>4. CASE Import(t) \/ InstallKey(t) \/ Sign(t)
    <3>1. UNCHANGED <<status, losses>>
      BY <2>4 DEF Import, InstallKey, Sign
    <3>2. task[t].pc # "retire" /\ task'[t].pc # "retire"
          /\ \A x \in Tasks : x # t => task'[x] = task[x]
      BY <2>0, <2>4, IdleTask DEF Import, InstallKey, Sign, Ensured, Goto, Finish, TypeOK, Task
    <3> QED BY <3>1, <3>2, OtherRows
  <2> QED BY <1>3, <2>1, <2>2, <2>3, <2>4 DEF Continue
<1>4. ASSUME NEW t \in Tasks, Throw(t) PROVE Rows'
  <2>1. \A x \in Tasks : task'[x].pc = "retire" => task[x].pc = "retire"
    BY <1>4, IdleTask DEF Throw, Finish, TypeOK
  <2> QED BY <1>4, <2>1, LossRows DEF Throw
<1>5. ASSUME NEW p \in Processes, Die(p) PROVE Rows'
  <2>1. \A x \in Tasks : task'[x].pc = "retire" => task[x].pc = "retire"
    BY <1>5, IdleTask DEF Die
  <2> QED BY <1>5, <2>1, LossRows DEF Die
<1> QED BY <1>1, <1>2, <1>3, <1>4, <1>5 DEF Next

LEMMA RowsAlways == Spec => []Rows
<1>1. IInv => TypeOK
  BY DEF IInv
<1> QED BY <1>1, InitRows, NextRows, InvariantAlways, PTL DEF Spec

-----------------------------------------------------------------------------

\* The table keys, the processes' memories and the tasks keep their types.
THEOREM TypeCorrect == Spec => []TypeOK
<1>1. IInv => TypeOK
  BY DEF IInv
<1> QED BY <1>1, InvariantAlways, PTL

\* Whatever restarts, overlapping rotations and failed statements occur, the
\* row of every key that has signed a token is in the table: rotateKeys stores
\* it before it makes the key the process's activeKey, and nothing deletes it.
THEOREM TokensVerifiableAlways == Spec => []TokensVerifiable
<1>1. IInv => TokensVerifiable
  BY DEF IInv, TypeOK, UsedKeys, TokensVerifiable, StoredRow
<1> QED BY <1>1, InvariantAlways, PTL

\* ensureActiveKey never makes a row the process's key without its private half.
THEOREM SigningKeyOwnedAlways == Spec => []SigningKeyOwned
<1>1. IInv => SigningKeyOwned
  BY DEF IInv, ActiveKeys, SigningKeyOwned
<1> QED BY <1>1, InvariantAlways, PTL

\* While no task has been lost, rotations that overlap leave one active row, and
\* one more for each that has yet to run its UPDATE.
THEOREM OneActiveRowAlways == Spec => []OneActiveRow
<1>1. Rows => OneActiveRow
  BY DEF Rows
<1> QED BY <1>1, RowsAlways, PTL

=============================================================================
