----------------------------- MODULE SigningKeys -----------------------------
(***************************************************************************)
(* JwkService and JwkRotationService: the table keys, shared by all server *)
(* processes, and in each process the key it signs with and the private    *)
(* keys it has generated.  A task is one async call: the warm-up at start, *)
(* the nightly rotation, or a signJwt; tasks interleave at every await.    *)
(*                                                                         *)
(* Key ids are numbered in the order their rows are created in memory,     *)
(* which is the order of notBefore (the processes' clocks agree).          *)
(***************************************************************************)
EXTENDS Naturals, FiniteSets

CONSTANTS Processes, Tasks,
          NoProc,     \* the process of a task that has not begun
          MaxKeys,    \* bound: keys generated (a rotation beyond it waits for ever)
          MaxLosses   \* bound: tasks that throw and processes that die

ASSUME BoundsAssumption == MaxKeys \in Nat /\ MaxLosses \in Nat
ASSUME NoProcAssumption == NoProc \notin Processes

Keys == 1..MaxKeys
NoKey == 0

VARIABLES status,  \* table keys: the status column, "none" before the INSERT
          phase,   \* per process: "down", "warming" (onModuleInit runs) or "up"
          active,  \* per process: activeKey, or NoKey
          privs,   \* per process: inMemoryPrivates
          task,    \* per task: its kind, process, place and key
          used,    \* history: kids in the headers of signed tokens
          made,    \* the number of keys generated so far
          losses   \* history: tasks and processes lost

vars == <<status, phase, active, privs, task, used, made, losses>>

Kinds == {"warmup", "rotate", "sign"}

PCs == {"idle", "find", "import", "generate", "save", "retire", "install", "sign"}

Task == [pc : PCs, kind : Kinds, proc : Processes \cup {NoProc}, key : Keys \cup {NoKey}]

Idle == [pc |-> "idle", kind |-> "sign", proc |-> NoProc, key |-> NoKey]

ActiveRows == {k \in Keys : status[k] = "active"}

\* findOne({status: 'active'}, order notBefore DESC) finds row k.
IsNewest(k) == k \in ActiveRows /\ \A j \in ActiveRows : j <= k

Goto(t, pc) == task' = [task EXCEPT ![t].pc = pc]
Finish(t) == task' = [task EXCEPT ![t] = Idle]

\* ensureActiveKey returns: a signJwt goes on to sign; the warm-up is over,
\* and the process begins to listen.
Ensured(t) ==
  /\ IF task[t].kind = "sign" THEN Goto(t, "sign") ELSE Finish(t)
  /\ phase' = IF task[t].kind = "warmup" THEN [phase EXCEPT ![task[t].proc] = "up"] ELSE phase

(***************************************************************************)
(* A task begins                                                           *)
(***************************************************************************)

\* onModuleInit of a process that starts, with nothing in its memory.
StartProcess(t, p) ==
  /\ task[t].pc = "idle" /\ phase[p] = "down"
  /\ phase' = [phase EXCEPT ![p] = "warming"]
  /\ task' = [task EXCEPT ![t] = [pc |-> "find", kind |-> "warmup", proc |-> p, key |-> NoKey]]
  /\ UNCHANGED <<status, active, privs, used, made, losses>>

\* rotateDaily.
RotateDaily(t, p) ==
  /\ task[t].pc = "idle" /\ phase[p] = "up"
  /\ task' = [task EXCEPT ![t] = [pc |-> "generate", kind |-> "rotate", proc |-> p, key |-> NoKey]]
  /\ UNCHANGED <<status, phase, active, privs, used, made, losses>>

\* signJwt; its ensureActiveKey returns at once if the process has a key.
SignJwt(t, p) ==
  /\ task[t].pc = "idle" /\ phase[p] = "up"
  /\ task' = [task EXCEPT ![t] = [pc |-> IF active[p] = NoKey THEN "find" ELSE "sign",
                                  kind |-> "sign", proc |-> p, key |-> NoKey]]
  /\ UNCHANGED <<status, phase, active, privs, used, made, losses>>

(***************************************************************************)
(* ensureActiveKey                                                         *)
(***************************************************************************)

\* Mutant: the row is used whether or not its private key is in this process.
FindAnyKey(t) ==
  /\ task[t].pc = "find"
  /\ \E k \in Keys : /\ IsNewest(k)
                     /\ task' = [task EXCEPT ![t].pc = "import", ![t].key = k]
  /\ UNCHANGED <<status, phase, active, privs, used, made, losses>>

\* findOne finds a row whose private key is in this process.
FindOwnKey(t) ==
  /\ task[t].pc = "find"
  /\ \E k \in privs[task[t].proc] :
       /\ IsNewest(k)
       /\ task' = [task EXCEPT ![t].pc = "import", ![t].key = k]
  /\ UNCHANGED <<status, phase, active, privs, used, made, losses>>

\* importJWK is done: the key becomes activeKey.
Import(t) ==
  /\ task[t].pc = "import"
  /\ active' = [active EXCEPT ![task[t].proc] = task[t].key]
  /\ Ensured(t)
  /\ UNCHANGED <<status, privs, used, made, losses>>

\* No active row, or its private key was lost with the process that made it.
FindNoKey(t) ==
  /\ task[t].pc = "find"
  /\ ~\E k \in privs[task[t].proc] : IsNewest(k)
  /\ Goto(t, "generate")
  /\ UNCHANGED <<status, phase, active, privs, used, made, losses>>

(***************************************************************************)
(* rotateKeys                                                              *)
(***************************************************************************)

\* generateKeyPair is done: storePrivateJwk, and the row gets its notBefore.
Generate(t) ==
  LET p == task[t].proc IN
  /\ task[t].pc = "generate"
  /\ made < MaxKeys
  /\ made' = made + 1
  /\ privs' = [privs EXCEPT ![p] = @ \cup {made + 1}]
  /\ task' = [task EXCEPT ![t].pc = "save", ![t].key = made + 1]
  /\ UNCHANGED <<status, phase, active, used, losses>>

\* Mutant: activeKey is set before the row is saved.
SaveKeyLate(t) ==
  /\ task[t].pc = "save"
  /\ active' = [active EXCEPT ![task[t].proc] = task[t].key]
  /\ Goto(t, "retire")
  /\ UNCHANGED <<status, phase, privs, used, made, losses>>

SaveKey(t) ==
  /\ task[t].pc = "save"
  /\ status' = [status EXCEPT ![task[t].key] = "active"]
  /\ Goto(t, "retire")
  /\ UNCHANGED <<phase, active, privs, used, made, losses>>

\* Mutant: the UPDATE is forgotten.
RetireNone(t) ==
  /\ task[t].pc = "retire"
  /\ Goto(t, "install")
  /\ UNCHANGED <<status, phase, active, privs, used, made, losses>>

\* UPDATE keys SET status = 'retired' WHERE kid != :kid AND status = 'active'.
RetireOthers(t) ==
  /\ task[t].pc = "retire"
  /\ status' = [k \in Keys |-> IF k \in ActiveRows \ {task[t].key} THEN "retired" ELSE status[k]]
  /\ Goto(t, "install")
  /\ UNCHANGED <<phase, active, privs, used, made, losses>>

\* this.activeKey = {kid, alg, privateKey}, and the caller goes on.
InstallKey(t) ==
  /\ task[t].pc = "install"
  /\ active' = [active EXCEPT ![task[t].proc] = task[t].key]
  /\ Ensured(t)
  /\ UNCHANGED <<status, privs, used, made, losses>>

\* Mutant: the header names the key this call has looked up.
SignWithFoundKey(t) ==
  /\ task[t].pc = "sign"
  /\ used' = used \cup {task[t].key}
  /\ Finish(t)
  /\ UNCHANGED <<status, phase, active, privs, made, losses>>

\* The token's header names the key that is active when it is signed.
Sign(t) ==
  /\ task[t].pc = "sign"
  /\ used' = used \cup {active[task[t].proc]}
  /\ Finish(t)
  /\ UNCHANGED <<status, phase, active, privs, made, losses>>

(***************************************************************************)
(* Errors                                                                  *)
(***************************************************************************)

\* A statement of the task throws.  onModuleInit and rotateDaily log it and go
\* on; signJwt's caller gets it.  Nothing throws once the UPDATE has returned,
\* and importing a key this process has exported itself does not.
Throw(t) ==
  /\ task[t].pc \notin {"idle", "import", "install"}
  /\ losses < MaxLosses
  /\ losses' = losses + 1
  /\ Finish(t)
  /\ phase' = IF task[t].kind = "warmup" THEN [phase EXCEPT ![task[t].proc] = "up"] ELSE phase
  /\ UNCHANGED <<status, active, privs, used, made>>

\* The process dies with its tasks, its activeKey and its private keys.
Die(p) ==
  /\ phase[p] # "down"
  /\ losses < MaxLosses
  /\ losses' = losses + 1
  /\ phase' = [phase EXCEPT ![p] = "down"]
  /\ active' = [active EXCEPT ![p] = NoKey]
  /\ privs' = [privs EXCEPT ![p] = {}]
  /\ task' = [t \in Tasks |-> IF task[t].proc = p THEN Idle ELSE task[t]]
  /\ UNCHANGED <<status, used, made>>

(***************************************************************************)
(* Specification                                                           *)
(***************************************************************************)
Init ==
  /\ status = [k \in Keys |-> "none"]
  /\ phase = [p \in Processes |-> "down"]
  /\ active = [p \in Processes |-> NoKey]
  /\ privs = [p \in Processes |-> {}]
  /\ task = [t \in Tasks |-> Idle]
  /\ used = {}
  /\ made = 0
  /\ losses = 0

Begin(t) == \E p \in Processes : StartProcess(t, p) \/ RotateDaily(t, p) \/ SignJwt(t, p)

Continue(t) ==
  \/ FindOwnKey(t)
  \/ FindNoKey(t)
  \/ Import(t)
  \/ Generate(t)
  \/ SaveKey(t)
  \/ RetireOthers(t)
  \/ InstallKey(t)
  \/ Sign(t)

Next ==
  \/ \E t \in Tasks : Begin(t) \/ Continue(t) \/ Throw(t)
  \/ \E p \in Processes : Die(p)

Spec == Init /\ [][Next]_vars

(***************************************************************************)
(* Properties                                                              *)
(***************************************************************************)

\* The table, the memory of the processes and the tasks keep their types.
TypeOK ==
  /\ status \in [Keys -> {"none", "active", "retired"}]
  /\ phase \in [Processes -> {"down", "warming", "up"}]
  /\ active \in [Processes -> Keys \cup {NoKey}]
  /\ privs \in [Processes -> SUBSET Keys]
  /\ task \in [Tasks -> Task]
  /\ used \subseteq Keys
  /\ made \in 0..MaxKeys
  /\ losses \in 0..MaxLosses

\* Every token can be verified with what /jwks.json publishes: the row of the
\* key that signed it was stored first and is still active or retired.
TokensVerifiable == \A k \in used : k \in Keys /\ status[k] # "none"

\* A process signs only with a key whose private half it holds: after a restart
\* the active row it finds is not enough.
SigningKeyOwned == \A p \in Processes : active[p] # NoKey => active[p] \in privs[p]

\* Rotations that overlap leave no two active rows behind: while no task has
\* been lost, the rows beyond the first are those of rotations that have yet to
\* retire the others.
OneActiveRow ==
  losses = 0 => Cardinality(ActiveRows) <= 1 + Cardinality({t \in Tasks : task[t].pc = "retire"})

=============================================================================
