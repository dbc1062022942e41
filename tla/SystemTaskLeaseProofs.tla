------------------------ MODULE SystemTaskLeaseProofs ------------------------
(***************************************************************************)
(* Proofs about SystemTaskLease for any number of runners, tasks, crashes  *)
(* and failing statements: IInv always, LeaseShape while no process stalls *)
(* for longer than the TTL.                                                *)
(***************************************************************************)
EXTENDS SystemTaskLease, FiniteSetTheorems, TLAPS

-----------------------------------------------------------------------------
(* Inductive invariants                                                    *)

Claiming == {"acquire", "inspect", "takeover", "markOld", "start"}

(* A claim has a task; a task that was started is never pending again, and *)
(* a handler is the one that started its task.                             *)
IInv ==
    /\ TypeOK
    /\ \A r \in Runners : loop[r].pc \in Claiming => loop[r].task \in Tasks
    /\ \A t \in Tasks : starts[t] = {} \/ \E r \in Runners : starts[t] = {r}
    /\ \A t \in Tasks : starts[t] # {} => status[t] \notin {"absent", "pending"}
    /\ \A r \in Runners, t \in Tasks : exec[r][t] # "none" => r \in starts[t]

Live(r, t) == exec[r][t] \in {"run", "release"}
Granted(r) == loop[r].pc \in {"markOld", "start"}

(* Who was granted the lock, or runs under it, has the lease; nobody runs  *)
(* while a claim is about to start its task; and a runner does not claim a *)
(* task it has started.                                                    *)
LeaseShape ==
    /\ \A r \in Runners : Granted(r) => Lease(loop[r].task, r)
    /\ \A r \in Runners, t \in Tasks : Live(r, t) => Lease(t, r)
    /\ \A r, q \in Runners, t \in Tasks : Granted(r) => ~Live(q, t)
    /\ \A r \in Runners : loop[r].pc \in Claiming => r \notin starts[loop[r].task]

-----------------------------------------------------------------------------
USE LeaseAssumption DEF LeaseAssumption

Statuses == {"absent"} \cup Active \cup Ended
ExecStates == {"none", "run", "cancelled", "release", "done"}
LoopStates == {"idle", "expire", "mark", "delete", "schedule", "create", "claim",
               "acquire", "inspect", "takeover", "markOld", "start", "dead"}

LEMMA TypeForm ==
  ASSUME TypeOK
  PROVE  /\ status \in [Tasks -> Statuses] /\ lock \in LockType \cup {NoLock}
         /\ loop \in [Runners -> LoopType]
         /\ exec \in [Runners -> [Tasks -> ExecStates]]
         /\ crashes \in 0..MaxCrashes /\ starts \in [Tasks -> SUBSET Runners]
  BY DEF TypeOK, Statuses, ExecStates

(* A lock row is told from its absence by its task.                        *)
LEMMA LockForm ==
  /\ NoLock \notin LockType
  /\ \A l \in LockType : l.task \in Tasks /\ l.by \in Runners /\ l.expired \in BOOLEAN
  /\ IdleLoop \in LoopType /\ IdleLoop.pc = "idle" /\ IdleLoop.task = NoTask
  BY DEF NoLock, LockType, Tasks, NoTask, LoopType, IdleLoop

LEMMA InitIInv == Init => IInv
<1> SUFFICES ASSUME Init PROVE IInv
  OBVIOUS
<1>1. TypeOK
  BY LockForm DEF Init, TypeOK, Active, Ended
<1>2. \A r \in Runners : loop[r].pc \notin Claiming
  BY LockForm DEF Init, Claiming
<1> QED
  BY <1>1, <1>2 DEF Init, IInv

(* What the steps of a loop do to the loops.                               *)
LEMMA GoForm ==
  ASSUME TypeOK, NEW r \in Runners, NEW l \in LoopStates, Go(r, l)
  PROVE  /\ loop' \in [Runners -> LoopType]
         /\ loop'[r].pc = l /\ loop'[r].task = loop[r].task
         /\ \A q \in Runners : q # r => loop'[q] = loop[q]
<1>1. loop[r] \in LoopType
  BY TypeForm
<1>2. [loop[r] EXCEPT !.pc = l] \in LoopType
  BY <1>1 DEF LoopType, LoopStates
<1>3. [loop[r] EXCEPT !.pc = l].pc = l /\ [loop[r] EXCEPT !.pc = l].task = loop[r].task
  BY <1>1 DEF LoopType
<1>4. loop' = [loop EXCEPT ![r] = [loop[r] EXCEPT !.pc = l]]
  BY DEF Go
<1> QED
  BY <1>2, <1>3, <1>4, TypeForm

LEMMA SeeForm ==
  ASSUME TypeOK, NEW r \in Runners, NEW l \in LoopStates, NEW k \in LockType \cup {NoLock},
         loop' = [loop EXCEPT ![r].pc = l, ![r].seen = k]
  PROVE  /\ loop' \in [Runners -> LoopType]
         /\ loop'[r].pc = l /\ loop'[r].task = loop[r].task
         /\ \A q \in Runners : q # r => loop'[q] = loop[q]
<1> DEFINE x == [loop[r] EXCEPT !.pc = l, !.seen = k]
<1>1. loop[r] \in LoopType
  BY TypeForm
<1>2. x \in LoopType /\ x.pc = l /\ x.task = loop[r].task
  BY <1>1 DEF LoopType, LoopStates
<1>4. loop' = [loop EXCEPT ![r] = x]
  OBVIOUS
<1> HIDE DEF x
<1> QED
  BY <1>2, <1>4, TypeForm

LEMMA RestForm ==
  ASSUME TypeOK, NEW r \in Runners, Rest(r)
  PROVE  /\ loop' \in [Runners -> LoopType]
         /\ loop'[r].pc = "idle"
         /\ \A q \in Runners : q # r => loop'[q] = loop[q]
  BY TypeForm, LockForm DEF Rest

LEMMA AdvanceForm ==
  ASSUME TypeOK, NEW r \in Runners, NEW x \in LoopType, Advance(r, x)
  PROVE  /\ loop' \in [Runners -> LoopType]
         /\ loop'[r] = x
         /\ \A q \in Runners : q # r => loop'[q].pc = loop[q].pc /\ loop'[q].task = loop[q].task
<1> DEFINE o(q) == [loop[q] EXCEPT !.old = @ \/ loop[q].pc \notin {"idle", "dead"}]
<1>1. \A q \in Runners : o(q) \in LoopType /\ o(q).pc = loop[q].pc /\ o(q).task = loop[q].task
  <2> SUFFICES ASSUME NEW q \in Runners
               PROVE  o(q) \in LoopType /\ o(q).pc = loop[q].pc /\ o(q).task = loop[q].task
    OBVIOUS
  <2>1. loop[q] \in LoopType
    BY TypeForm
  <2>2. (loop[q].old \/ loop[q].pc \notin {"idle", "dead"}) \in BOOLEAN
    OBVIOUS
  <2> QED
    BY <2>1, <2>2 DEF LoopType
<1>2. loop' = [q \in Runners |-> IF q = r THEN x ELSE o(q)]
  BY DEF Advance
<1> HIDE DEF o
<1> QED
  BY <1>1, <1>2

(* The loops may move as long as a claim keeps its task.                   *)
ClaimsKept == \A q \in Runners : loop[q].pc \in Claiming => loop[q].task \in Tasks

LEMMA LoopIInv ==
  ASSUME IInv, loop' \in [Runners -> LoopType], ClaimsKept',
         lock' \in LockType \cup {NoLock},
         status' \in [Tasks -> Statuses],
         \A t \in Tasks : status[t] \notin {"absent", "pending"} => status'[t] \notin {"absent", "pending"},
         UNCHANGED <<exec, crashes, starts>>
  PROVE  IInv'
<1>1. TypeOK'
  BY DEF IInv, TypeOK, Statuses
<1> QED
  BY <1>1 DEF IInv, ClaimsKept

LEMMA OneLoop ==
  ASSUME IInv, NEW r \in Runners,
         loop'[r].pc \in Claiming => loop'[r].task \in Tasks,
         \A q \in Runners : q # r => loop'[q].pc = loop[q].pc /\ loop'[q].task = loop[q].task
  PROVE  ClaimsKept'
  BY DEF IInv, ClaimsKept

LEMMA StatusSame == ASSUME IInv, UNCHANGED status
  PROVE /\ status' \in [Tasks -> Statuses]
        /\ \A t \in Tasks : status[t] \notin {"absent", "pending"} => status'[t] \notin {"absent", "pending"}
  BY TypeForm DEF IInv

(* MarkSystemTaskLeaseExpired ends a running task and nothing else.        *)
LEMMA MarkForm ==
  ASSUME TypeOK, NEW k, status' = MarkExpired(status, k)
  PROVE  /\ status' \in [Tasks -> Statuses]
         /\ \A t \in Tasks : status'[t] = status[t] \/ (status[t] = "running" /\ status'[t] = "failed")
<1>1. status \in [Tasks -> Statuses] /\ "failed" \in Statuses
  BY TypeForm DEF Statuses, Ended
<1> QED
  BY <1>1 DEF MarkExpired

LEMMA ReleaseForm ==
  ASSUME TypeOK, NEW t, NEW r, Release(t, r)
  PROVE  /\ lock' \in LockType \cup {NoLock}
         /\ lock' = lock \/ (lock' = NoLock /\ Held(t, r))
  BY TypeForm DEF Release

LEMMA PassStepIInv ==
  ASSUME IInv, NEW r \in Runners,
         RunPass(r) \/ ExpireRead(r) \/ ExpireMark(r) \/ ExpireDelete(r) \/ ScheduleRead(r)
  PROVE  IInv'
<1>0. TypeOK
  BY DEF IInv
<1> DEFINE Goes == \E l \in LoopStates \ Claiming : Go(r, l)
<1>1. ASSUME Goes PROVE loop' \in [Runners -> LoopType] /\ ClaimsKept'
  <2>1. PICK l \in LoopStates \ Claiming : Go(r, l)
    BY <1>1
  <2>2. loop' \in [Runners -> LoopType] /\ loop'[r].pc \notin Claiming
        /\ \A q \in Runners : q # r => loop'[q] = loop[q]
    BY <1>0, <2>1, GoForm
  <2> QED
    BY <2>2, OneLoop
<1>2. ASSUME NEW l \in LoopStates \ Claiming, NEW k \in LockType \cup {NoLock},
             loop' = [loop EXCEPT ![r].pc = l, ![r].seen = k]
      PROVE  loop' \in [Runners -> LoopType] /\ ClaimsKept'
  <2>2. loop' \in [Runners -> LoopType] /\ loop'[r].pc \notin Claiming
        /\ \A q \in Runners : q # r => loop'[q] = loop[q]
    BY <1>0, <1>2, SeeForm
  <2> QED
    BY <2>2, OneLoop
<1>3. {"expire", "schedule", "claim", "mark", "delete", "create"} \subseteq LoopStates \ Claiming
  BY DEF LoopStates, Claiming
<1>4. lock \in LockType \cup {NoLock} /\ NoLock \in LockType \cup {NoLock}
  BY <1>0, TypeForm
<1>a. CASE RunPass(r)
  <2>1. Goes /\ UNCHANGED <<status, lock, exec, crashes, starts>>
    BY <1>3, <1>a DEF RunPass
  <2> QED
    BY <1>1, <1>4, <2>1, StatusSame, LoopIInv
<1>b. CASE ExpireRead(r)
  <2>1. UNCHANGED <<status, lock, exec, crashes, starts>>
    BY <1>b DEF ExpireRead
  <2>2. loop' \in [Runners -> LoopType] /\ ClaimsKept'
    BY <1>1, <1>2, <1>3, <1>4, <1>b DEF ExpireRead
  <2> QED
    BY <1>4, <2>1, <2>2, StatusSame, LoopIInv
<1>c. CASE ExpireMark(r)
  <2>1. Goes /\ UNCHANGED <<lock, exec, crashes, starts>>
    BY <1>3, <1>c DEF ExpireMark
  <2>2. status' = status \/ status' = MarkExpired(status, loop[r].seen.task)
    BY <1>c DEF ExpireMark
  <2>3. /\ status' \in [Tasks -> Statuses]
        /\ \A t \in Tasks : status[t] \notin {"absent", "pending"} => status'[t] \notin {"absent", "pending"}
    BY <1>0, <2>2, StatusSame, MarkForm
  <2> QED
    BY <1>1, <1>4, <2>1, <2>3, LoopIInv
<1>d. CASE ExpireDelete(r)
  <2>1. UNCHANGED <<status, exec, crashes, starts>> /\ lock' \in LockType \cup {NoLock}
    BY <1>4, <1>d DEF ExpireDelete
  <2>2. loop' \in [Runners -> LoopType] /\ ClaimsKept'
    BY <1>2, <1>3, <1>4, <1>d DEF ExpireDelete
  <2> QED
    BY <2>1, <2>2, StatusSame, LoopIInv
<1>e. CASE ScheduleRead(r)
  <2>1. Goes /\ UNCHANGED <<status, lock, exec, crashes, starts>>
    BY <1>3, <1>e DEF ScheduleRead
  <2> QED
    BY <1>1, <1>4, <2>1, StatusSame, LoopIInv
<1> QED
  BY <1>a, <1>b, <1>c, <1>d, <1>e

(* A new row is pending, and nobody has started it.                        *)
LEMMA CreateTaskIInv == ASSUME IInv, NEW r \in Runners, CreateTask(r) PROVE IInv'
<1>0. TypeOK /\ "claim" \in LoopStates /\ "claim" \notin Claiming
  BY DEF IInv, LoopStates, Claiming
<1>1. Go(r, "claim") /\ UNCHANGED <<lock, exec, crashes, starts>>
  BY DEF CreateTask
<1>2. loop' \in [Runners -> LoopType] /\ ClaimsKept' /\ lock' \in LockType \cup {NoLock}
  BY <1>0, <1>1, GoForm, OneLoop, TypeForm
<1>3. /\ status' \in [Tasks -> Statuses]
      /\ \A t \in Tasks : status[t] \notin {"absent", "pending"} => status'[t] \notin {"absent", "pending"}
  <2>1. ASSUME NEW t \in Tasks, status[t] = "absent", status' = [status EXCEPT ![t] = "pending"]
        PROVE  /\ status' \in [Tasks -> Statuses]
               /\ \A u \in Tasks : status[u] \notin {"absent", "pending"} => status'[u] \notin {"absent", "pending"}
    <3>1. "pending" \in Statuses
      BY DEF Statuses, Active
    <3> QED
      BY <1>0, <2>1, <3>1, TypeForm
  <2> QED
    BY <2>1, StatusSame DEF CreateTask
<1> QED
  BY <1>1, <1>2, <1>3, LoopIInv

LEMMA ClaimStepIInv ==
  ASSUME IInv, NEW r \in Runners,
         ClaimRead(r) \/ AcquireInsert(r) \/ AcquireInspect(r) \/ AcquireTakeOver(r) \/ ClaimMarkOld(r)
  PROVE  IInv'
<1>0. TypeOK /\ loop[r] \in LoopType /\ loop \in [Runners -> LoopType]
  BY TypeForm DEF IInv
<1>0a. Claiming \subseteq LoopStates /\ "idle" \notin Claiming
  BY DEF LoopStates, Claiming
<1>0b. loop[r].pc \in Claiming => loop[r].task \in Tasks
  BY DEF IInv
<1>1. ASSUME Rest(r) PROVE loop' \in [Runners -> LoopType] /\ ClaimsKept'
  BY <1>0, <1>0a, <1>1, RestForm, OneLoop
<1>2. ASSUME NEW l \in Claiming, Go(r, l), loop[r].pc \in Claiming
      PROVE  loop' \in [Runners -> LoopType] /\ ClaimsKept'
  BY <1>0, <1>0a, <1>0b, <1>2, GoForm, OneLoop
<1>3. ASSUME NEW l \in Claiming, Issue(r, l), loop[r].pc \in Claiming
      PROVE  /\ loop' \in [Runners -> LoopType] /\ ClaimsKept'
             /\ lock' \in LockType \cup {NoLock}
  <2> DEFINE x == [loop[r] EXCEPT !.pc = l]
  <2>1. x \in LoopType /\ x.task = loop[r].task
    BY <1>0, <1>0a DEF LoopType, LoopStates
  <2>2. Advance(r, x) /\ lock' = [task |-> loop[r].task, by |-> r, expired |-> FALSE]
    BY <1>3 DEF Issue
  <2> HIDE DEF x
  <2>3. loop' \in [Runners -> LoopType] /\ ClaimsKept'
    BY <1>0, <1>0b, <1>3, <2>1, <2>2, AdvanceForm, OneLoop
  <2>4. lock' \in LockType
    BY <1>0b, <1>3, <2>2 DEF LockType
  <2> QED
    BY <2>3, <2>4
<1>4. lock \in LockType \cup {NoLock}
  BY <1>0, TypeForm
<1>5. {"acquire", "inspect", "takeover", "markOld", "start"} = Claiming
  BY DEF Claiming
<1>a. CASE ClaimRead(r)
  <2>1. UNCHANGED <<status, lock, exec, crashes, starts>>
    BY <1>a DEF ClaimRead
  <2>2. ASSUME NEW t \in Tasks, loop' = [loop EXCEPT ![r].pc = "acquire", ![r].task = t]
        PROVE  loop' \in [Runners -> LoopType] /\ ClaimsKept'
    <3> DEFINE x == [loop[r] EXCEPT !.pc = "acquire", !.task = t]
    <3>1. x \in LoopType /\ x.task = t
      BY <1>0 DEF LoopType
    <3>2. loop' = [loop EXCEPT ![r] = x]
      BY <2>2
    <3> HIDE DEF x
    <3>3. loop'[r] = x /\ (\A q \in Runners : q # r => loop'[q] = loop[q]) /\ loop' \in [Runners -> LoopType]
      BY <1>0, <3>1, <3>2
    <3> QED
      BY <3>1, <3>3, OneLoop
  <2>3. loop' \in [Runners -> LoopType] /\ ClaimsKept'
    BY <1>1, <1>a, <2>2 DEF ClaimRead
  <2> QED
    BY <1>4, <2>1, <2>3, StatusSame, LoopIInv
<1>b. CASE AcquireInsert(r)
  <2>1. UNCHANGED <<status, exec, crashes, starts>> /\ loop[r].pc \in Claiming
    BY <1>5, <1>b DEF AcquireInsert
  <2>2. loop' \in [Runners -> LoopType] /\ ClaimsKept' /\ lock' \in LockType \cup {NoLock}
    BY <1>2, <1>3, <1>4, <1>5, <1>b, <2>1 DEF AcquireInsert
  <2> QED
    BY <2>1, <2>2, StatusSame, LoopIInv
<1>c. CASE AcquireInspect(r)
  <2>1. UNCHANGED <<status, lock, exec, crashes, starts>> /\ loop[r].pc \in Claiming
    BY <1>5, <1>c DEF AcquireInspect
  <2>2. ASSUME loop' = [loop EXCEPT ![r].pc = "takeover", ![r].seen = lock]
        PROVE  loop' \in [Runners -> LoopType] /\ ClaimsKept'
    BY <1>0, <1>0a, <1>0b, <1>4, <1>5, <2>1, <2>2, SeeForm, OneLoop
  <2>3. loop' \in [Runners -> LoopType] /\ ClaimsKept'
    BY <1>1, <1>c, <2>2 DEF AcquireInspect
  <2> QED
    BY <1>4, <2>1, <2>3, StatusSame, LoopIInv
<1>d. CASE AcquireTakeOver(r)
  <2>1. UNCHANGED <<status, exec, crashes, starts>> /\ loop[r].pc \in Claiming
    BY <1>5, <1>d DEF AcquireTakeOver
  <2>2. loop' \in [Runners -> LoopType] /\ ClaimsKept' /\ lock' \in LockType \cup {NoLock}
    BY <1>1, <1>3, <1>4, <1>5, <1>d, <2>1 DEF AcquireTakeOver
  <2> QED
    BY <2>1, <2>2, StatusSame, LoopIInv
<1>e. CASE ClaimMarkOld(r)
  <2>1. UNCHANGED <<exec, crashes, starts>> /\ loop[r].pc \in Claiming
    BY <1>5, <1>e DEF ClaimMarkOld
  <2>2. loop' \in [Runners -> LoopType] /\ ClaimsKept'
    BY <1>1, <1>2, <1>5, <1>e, <2>1 DEF ClaimMarkOld
  <2>3. lock' \in LockType \cup {NoLock}
    BY <1>0, <1>4, <1>e, ReleaseForm DEF ClaimMarkOld
  <2>4. /\ status' \in [Tasks -> Statuses]
        /\ \A t \in Tasks : status[t] \notin {"absent", "pending"} => status'[t] \notin {"absent", "pending"}
    BY <1>0, <1>e, StatusSame, MarkForm DEF ClaimMarkOld
  <2> QED
    BY <2>1, <2>2, <2>3, <2>4, LoopIInv
<1> QED
  BY <1>a, <1>b, <1>c, <1>d, <1>e

(* The conditional update finds the row pending, so nobody started it      *)
(* before.                                                                 *)
LEMMA ClaimStartIInv == ASSUME IInv, NEW r \in Runners, ClaimStart(r) PROVE IInv'
<1> DEFINE t == loop[r].task
<1>0. TypeOK /\ t \in Tasks /\ loop[r].pc = "start" /\ UNCHANGED crashes
  BY DEF IInv, ClaimStart, Claiming
<1>0a. "idle" \notin Claiming /\ IdleLoop.pc = "idle" /\ IdleLoop \in LoopType
  BY LockForm DEF Claiming
<1>a. CASE Release(t, r) /\ Rest(r) /\ UNCHANGED <<status, exec, starts>>
  <2>1. loop' \in [Runners -> LoopType] /\ ClaimsKept' /\ lock' \in LockType \cup {NoLock}
    BY <1>0, <1>0a, <1>a, RestForm, OneLoop, ReleaseForm
  <2> QED
    BY <1>0, <1>a, <2>1, StatusSame, LoopIInv
<1>b. CASE /\ CanStart(r) /\ status' = [status EXCEPT ![t] = "running"]
           /\ Advance(r, IdleLoop) /\ UNCHANGED lock
  <2>1. loop' \in [Runners -> LoopType] /\ ClaimsKept' /\ lock' \in LockType \cup {NoLock}
    BY <1>0, <1>0a, <1>b, AdvanceForm, OneLoop, TypeForm
  <2>2. /\ status' \in [Tasks -> Statuses] /\ status'[t] = "running"
        /\ \A u \in Tasks : u # t => status'[u] = status[u]
    <3>1. "running" \in Statuses
      BY DEF Statuses, Active
    <3> QED
      BY <1>0, <1>b, <3>1, TypeForm
  <2>3. starts[t] = {}
    BY <1>0, <1>b DEF IInv, CanStart
  <2>c. CASE UNCHANGED <<exec, starts>>
    BY <1>0, <2>1, <2>2, <2>c, LoopIInv
  <2>d. CASE exec' = [exec EXCEPT ![r][t] = "run"] /\ starts' = [starts EXCEPT ![t] = @ \cup {r}]
    <3>1. starts'[t] = {r} /\ (\A u \in Tasks : u # t => starts'[u] = starts[u])
          /\ starts' \in [Tasks -> SUBSET Runners]
      BY <1>0, <2>3, <2>d, TypeForm
    <3>2. /\ exec' \in [Runners -> [Tasks -> ExecStates]]
          /\ \A q \in Runners, u \in Tasks : <<q, u>> # <<r, t>> => exec'[q][u] = exec[q][u]
      <4>1. exec \in [Runners -> [Tasks -> ExecStates]] /\ "run" \in ExecStates
        BY <1>0, TypeForm DEF ExecStates
      <4> QED
        BY <1>0, <2>d, <4>1
    <3>3. TypeOK'
      BY <1>0, <2>1, <2>2, <3>1, <3>2 DEF TypeOK, Statuses, ExecStates
    <3>4. \A u \in Tasks : starts'[u] = {} \/ \E q \in Runners : starts'[u] = {q}
      BY <3>1 DEF IInv
    <3>5. \A u \in Tasks : starts'[u] # {} => status'[u] \notin {"absent", "pending"}
      BY <2>2, <3>1 DEF IInv
    <3>6. \A q \in Runners, u \in Tasks : exec'[q][u] # "none" => q \in starts'[u]
      BY <2>3, <3>1, <3>2, ZenonT(60) DEF IInv
    <3> QED
      BY <2>1, <3>3, <3>4, <3>5, <3>6 DEF IInv, ClaimsKept
  <2> QED
    BY <1>b, <2>c, <2>d DEF ClaimStart, CanStart, Release, Rest
<1> QED
  BY <1>a, <1>b DEF ClaimStart

(* A handler that is there stays the one that started its task.            *)
LEMMA ExecIInv ==
  ASSUME IInv, NEW r \in Runners, NEW t \in Tasks, NEW s \in ExecStates, exec[r][t] # "none",
         exec' = [exec EXCEPT ![r][t] = s],
         status' \in [Tasks -> Statuses], lock' \in LockType \cup {NoLock},
         \A u \in Tasks : status[u] \notin {"absent", "pending"} => status'[u] \notin {"absent", "pending"},
         UNCHANGED <<loop, crashes, starts>>
  PROVE  IInv'
<1>1. /\ exec' \in [Runners -> [Tasks -> ExecStates]]
      /\ \A q \in Runners, u \in Tasks : <<q, u>> # <<r, t>> => exec'[q][u] = exec[q][u]
  BY TypeForm DEF IInv
<1>2. TypeOK'
  BY <1>1 DEF IInv, TypeOK, Statuses, ExecStates
<1>3. \A q \in Runners, u \in Tasks : exec'[q][u] # "none" => q \in starts'[u]
  BY <1>1 DEF IInv
<1> QED
  BY <1>2, <1>3 DEF IInv

LEMMA HandlerIInv ==
  ASSUME IInv, NEW r \in Runners, NEW t \in Tasks, Heartbeat(r, t) \/ HandlerStep(r, t)
  PROVE  IInv'
<1>0. TypeOK /\ lock \in LockType \cup {NoLock} /\ status \in [Tasks -> Statuses]
  BY TypeForm DEF IInv
<1>1. exec[r][t] # "none" /\ UNCHANGED <<loop, crashes, starts>>
  BY DEF Heartbeat, HandlerStep, FinishTask, FinishRelease, HandlerReturns
<1>2. PICK s \in ExecStates : exec' = [exec EXCEPT ![r][t] = s]
  BY DEF Heartbeat, HandlerStep, FinishTask, FinishRelease, HandlerReturns, ExecStates
<1>3. lock' \in LockType \cup {NoLock}
  BY <1>0, ReleaseForm DEF Heartbeat, HandlerStep, FinishTask, FinishRelease, HandlerReturns
<1>4. /\ status' \in [Tasks -> Statuses]
      /\ \A u \in Tasks : status[u] \notin {"absent", "pending"} => status'[u] \notin {"absent", "pending"}
  <2>1. CASE \E o \in Ended : status' = [status EXCEPT ![t] = o]
    BY <1>0, <2>1 DEF Statuses, Ended
  <2>2. CASE UNCHANGED status
    BY <2>2, StatusSame
  <2> QED
    BY <2>1, <2>2 DEF Heartbeat, HandlerStep, FinishTask, FinishRelease, HandlerReturns
<1> QED
  BY <1>1, <1>2, <1>3, <1>4, ExecIInv

(* A crash ends the loop and the handlers of its process.                  *)
LEMMA CrashIInv == ASSUME IInv, NEW r \in Runners, Crash(r) PROVE IInv'
<1>0. TypeOK /\ crashes' \in 0..MaxCrashes /\ UNCHANGED <<status, lock, starts>>
  BY TypeForm DEF IInv, Crash
<1> DEFINE x == [IdleLoop EXCEPT !.pc = "dead"]
<1>1. x \in LoopType /\ x.pc = "dead" /\ "dead" \notin Claiming
  BY LockForm DEF LoopType, Claiming
<1>2. loop' = [loop EXCEPT ![r] = x]
  BY DEF Crash
<1> HIDE DEF x
<1>3. loop'[r] = x /\ (\A q \in Runners : q # r => loop'[q] = loop[q]) /\ loop' \in [Runners -> LoopType]
  BY <1>0, <1>1, <1>2, TypeForm
<1>4. ClaimsKept'
  BY <1>1, <1>3, OneLoop
<1>5. /\ exec' \in [Runners -> [Tasks -> ExecStates]]
      /\ \A q \in Runners, t \in Tasks : exec'[q][t] = exec[q][t] \/ (exec[q][t] # "none" /\ exec'[q][t] = "done")
  BY <1>0, TypeForm DEF Crash, ExecStates
<1>6. TypeOK'
  BY <1>0, <1>3, <1>5 DEF TypeOK, ExecStates
<1>7. \A q \in Runners, t \in Tasks : exec'[q][t] # "none" => q \in starts'[t]
  BY <1>0, <1>5 DEF IInv
<1> QED
  BY <1>0, <1>4, <1>6, <1>7 DEF IInv, ClaimsKept

LEMMA LockExpiresIInv == ASSUME IInv, LockExpires PROVE IInv'
<1>1. lock \in LockType /\ UNCHANGED <<status, loop, exec, crashes, starts>>
  BY TypeForm DEF IInv, LockExpires
<1>2. lock' \in LockType
  BY <1>1 DEF LockExpires, LockType
<1>3. loop' \in [Runners -> LoopType] /\ ClaimsKept'
  BY <1>1, TypeForm DEF IInv, ClaimsKept
<1> QED
  BY <1>1, <1>2, <1>3, StatusSame, LoopIInv

LEMMA NextIInv == ASSUME IInv, [Next]_vars PROVE IInv'
<1>1. ASSUME NEW r \in Runners, LoopStep(r) \/ Crash(r) PROVE IInv'
  BY <1>1, PassStepIInv, CreateTaskIInv, ClaimStepIInv, ClaimStartIInv, CrashIInv DEF LoopStep
<1>2. ASSUME NEW r \in Runners, NEW t \in Tasks, Heartbeat(r, t) \/ HandlerStep(r, t) PROVE IInv'
  BY <1>2, HandlerIInv
<1>3. CASE UNCHANGED vars
  BY <1>3 DEF vars, IInv, TypeOK
<1> QED
  BY <1>1, <1>2, <1>3, LockExpiresIInv DEF Next

(* IInv holds in every reachable state, whichever process stalls, crashes  *)
(* or loses a statement.                                                   *)
THEOREM LeaseInvariance == Spec => []IInv
<1>1. Init => IInv
  BY InitIInv
<1>2. IInv /\ [Next]_vars => IInv'
  BY NextIInv
<1> QED
  BY <1>1, <1>2, PTL DEF Spec

(* The variables keep their types: a lock row always names a task and a    *)
(* runner (acquireSystemTaskLock).                                         *)
THEOREM LeaseTypeCorrect == Spec => []TypeOK
<1>1. IInv => TypeOK
  BY DEF IInv
<1> QED
  BY <1>1, LeaseInvariance, PTL

(* ClaimSystemTask hands a task to at most one handler, ever.              *)
THEOREM TasksStartOnce == Spec => []StartedOnce
<1>1. ASSUME IInv PROVE StartedOnce
  <2> SUFFICES ASSUME NEW t \in Tasks PROVE Cardinality(starts[t]) <= 1
    BY DEF StartedOnce
  <2>1. CASE starts[t] = {}
    BY <2>1, FS_EmptySet
  <2>2. CASE \E r \in Runners : starts[t] = {r}
    BY <2>2, FS_Singleton
  <2> QED
    BY <1>1, <2>1, <2>2 DEF IInv
<1> QED
  BY <1>1, LeaseInvariance, PTL

(* FinishSystemTask and MarkSystemTaskLeaseExpired never overwrite an      *)
(* outcome.                                                                *)
THEOREM OutcomesAreFinal == Spec => OutcomeIsFinal
<1> DEFINE Keeps == \A t \in Tasks : status[t] \in Ended => status'[t] = status[t]
<1>1. ASSUME IInv, Next PROVE Keeps
  <2>0. TypeOK /\ status \in [Tasks -> Statuses]
    BY <1>1, TypeForm DEF IInv
  <2>1. ASSUME NEW k, status' = MarkExpired(status, k) PROVE Keeps
    BY <2>0, <2>1, MarkForm DEF Ended
  <2>2. ASSUME NEW r \in Runners, LoopStep(r) \/ Crash(r) PROVE Keeps
    <3>1. CASE ExpireMark(r) \/ ClaimMarkOld(r)
      BY <2>1, <3>1 DEF ExpireMark, ClaimMarkOld
    <3>2. CASE CreateTask(r)
      BY <2>0, <3>2 DEF CreateTask, Ended
    <3>3. CASE ClaimStart(r)
      BY <2>0, <3>3 DEF ClaimStart, CanStart, Ended
    <3>4. CASE \/ RunPass(r) \/ ExpireRead(r) \/ ExpireDelete(r) \/ ScheduleRead(r) \/ ClaimRead(r)
               \/ AcquireInsert(r) \/ AcquireInspect(r) \/ AcquireTakeOver(r) \/ Crash(r)
      BY <3>4 DEF RunPass, ExpireRead, ExpireDelete, ScheduleRead, ClaimRead, AcquireInsert,
                  AcquireInspect, AcquireTakeOver, Crash
    <3> QED
      BY <2>2, <3>1, <3>2, <3>3, <3>4 DEF LoopStep
  <2>3. ASSUME NEW r \in Runners, NEW t \in Tasks, Heartbeat(r, t) \/ HandlerStep(r, t) PROVE Keeps
    BY <2>0, <2>3 DEF Heartbeat, HandlerStep, FinishTask, FinishRelease, HandlerReturns, CanFinish, Ended
  <2> QED
    BY <1>1, <2>2, <2>3 DEF Next, LockExpires
<1>2. IInv /\ [Next]_vars => [Keeps]_vars
  BY <1>1
<1>3. Spec => [][Keeps]_vars
  BY <1>2, LeaseInvariance, PTL DEF Spec
<1> QED
  BY <1>3 DEF OutcomeIsFinal

(* FinishSystemTask: a success is recorded by the one handler the task was *)
(* given to, and under an unexpired lease.                                 *)
THEOREM OutcomesUnderLease == Spec => OutcomeUnderLease
<1> DEFINE Leased == \A t \in Tasks : status[t] # "succeeded" /\ status'[t] = "succeeded" =>
                       \E r \in Runners : starts[t] = {r} /\ Lease(t, r)
<1>1. ASSUME IInv, Next PROVE Leased
  <2>0. TypeOK /\ status \in [Tasks -> Statuses]
    BY <1>1, TypeForm DEF IInv
  <2>1. ASSUME NEW k, status' = MarkExpired(status, k) PROVE Leased
    BY <2>0, <2>1, MarkForm
  <2>2. ASSUME NEW r \in Runners, LoopStep(r) \/ Crash(r) PROVE Leased
    <3>1. CASE ExpireMark(r) \/ ClaimMarkOld(r)
      BY <2>1, <3>1 DEF ExpireMark, ClaimMarkOld
    <3>2. CASE CreateTask(r)
      BY <2>0, <3>2 DEF CreateTask
    <3>3. CASE ClaimStart(r)
      BY <2>0, <3>3 DEF ClaimStart
    <3>4. CASE \/ RunPass(r) \/ ExpireRead(r) \/ ExpireDelete(r) \/ ScheduleRead(r) \/ ClaimRead(r)
               \/ AcquireInsert(r) \/ AcquireInspect(r) \/ AcquireTakeOver(r) \/ Crash(r)
      BY <3>4 DEF RunPass, ExpireRead, ExpireDelete, ScheduleRead, ClaimRead, AcquireInsert,
                  AcquireInspect, AcquireTakeOver, Crash
    <3> QED
      BY <2>2, <3>1, <3>2, <3>3, <3>4 DEF LoopStep
  <2>3. ASSUME NEW r \in Runners, NEW t \in Tasks, Heartbeat(r, t) \/ HandlerStep(r, t) PROVE Leased
    <3>1. CASE UNCHANGED status
      BY <3>1
    <3>2. CASE CanFinish(r, t) /\ exec[r][t] \in {"run", "cancelled"}
               /\ \E s \in Ended : status' = [status EXCEPT ![t] = s]
      <4>1. starts[t] = {r} /\ Lease(t, r)
        BY <1>1, <3>2 DEF IInv, CanFinish
      <4> QED
        BY <2>0, <3>2, <4>1
    <3> QED
      BY <2>3, <3>1, <3>2 DEF Heartbeat, HandlerStep, FinishTask, FinishRelease, HandlerReturns
  <2> QED
    BY <1>1, <2>2, <2>3 DEF Next, LockExpires
<1>2. IInv /\ [Next]_vars => [Leased]_vars
  BY <1>1
<1>3. Spec => [][Leased]_vars
  BY <1>2, LeaseInvariance, PTL DEF Spec
<1> QED
  BY <1>3 DEF OutcomeUnderLease

-----------------------------------------------------------------------------
(* While no process stalls                                                 *)

Lone == \A r \in Runners : ~Granted(r) /\ \A t \in Tasks : ~Live(r, t)
OwnClaim == \A r \in Runners : loop[r].pc \in Claiming => r \notin starts[loop[r].task]

(* A lock that is free or has expired covers nobody.                       *)
LEMMA FreeLock == ASSUME LeaseShape, lock = NoLock \/ Stale PROVE Lone
  BY DEF LeaseShape, Lone, Lease, Held, Stale

(* Claims and handlers only fall away, and the lock stays.                 *)
LEMMA QuietShape ==
  ASSUME LeaseShape, UNCHANGED lock, OwnClaim',
         \A q \in Runners : Granted(q)' => Granted(q) /\ loop'[q].task = loop[q].task,
         \A q \in Runners, t \in Tasks : Live(q, t)' => Live(q, t)
  PROVE  LeaseShape'
  BY DEF LeaseShape, Lease, Held, OwnClaim

(* The claims of the other runners go on as they were.                     *)
LEMMA OwnKept ==
  ASSUME LeaseShape, NEW r \in Runners, UNCHANGED starts,
         loop'[r].pc \in Claiming => r \notin starts[loop'[r].task],
         \A q \in Runners : q # r => loop'[q].pc = loop[q].pc /\ loop'[q].task = loop[q].task
  PROVE  OwnClaim'
  BY DEF LeaseShape, OwnClaim

(* The lock is issued while it covers nobody.                              *)
LEMMA IssueShape ==
  ASSUME IInv, LeaseShape, NEW r \in Runners, NEW l \in {"markOld", "start"}, Issue(r, l),
         loop[r].pc \in Claiming, lock = NoLock \/ Stale, UNCHANGED <<exec, starts>>
  PROVE  LeaseShape'
<1> DEFINE x == [loop[r] EXCEPT !.pc = l]
<1>0. loop[r] \in LoopType /\ TypeOK
  BY TypeForm DEF IInv
<1>1. x \in LoopType /\ x.task = loop[r].task /\ x.pc = l
  BY <1>0 DEF LoopType
<1>2. Advance(r, x) /\ lock' = [task |-> loop[r].task, by |-> r, expired |-> FALSE]
  BY DEF Issue
<1> HIDE DEF x
<1>3. /\ loop'[r].pc = l /\ loop'[r].task = loop[r].task
      /\ \A q \in Runners : q # r => loop'[q].pc = loop[q].pc /\ loop'[q].task = loop[q].task
  BY <1>0, <1>1, <1>2, AdvanceForm
<1>4. Lone
  BY FreeLock
<1>5. (\A q \in Runners : Granted(q)' => q = r) /\ (\A q \in Runners, t \in Tasks : ~Live(q, t)')
  BY <1>3, <1>4 DEF Lone, Granted, Live
<1>6. OwnClaim'
  BY <1>3, OwnKept DEF LeaseShape
<1>7. loop[r].task \in Tasks
  BY DEF IInv
<1>8. lock' # NoLock /\ lock'.task = loop[r].task /\ lock'.by = r /\ lock'.expired = FALSE
  BY <1>2, <1>7 DEF NoLock, Tasks, NoTask
<1>9. \A q \in Runners : Granted(q)' => Lease(loop[q].task, q)'
  BY <1>3, <1>5, <1>8 DEF Lease, Held
<1> QED
  BY <1>5, <1>6, <1>9 DEF LeaseShape, OwnClaim

LEMMA PassLease ==
  ASSUME IInv, LeaseShape, NEW r \in Runners,
         \/ RunPass(r) \/ ExpireRead(r) \/ ExpireMark(r) \/ ExpireDelete(r) \/ ScheduleRead(r)
         \/ CreateTask(r)
  PROVE  LeaseShape'
<1>0. TypeOK /\ lock \in LockType \cup {NoLock}
  BY TypeForm DEF IInv
<1>1. UNCHANGED <<exec, starts>> /\ loop[r].pc \notin Claiming
  BY DEF RunPass, ExpireRead, ExpireMark, ExpireDelete, ScheduleRead, CreateTask, Claiming
<1>2. /\ loop'[r].pc \notin Claiming
      /\ \A q \in Runners : q # r => loop'[q] = loop[q]
  <2>1. {"expire", "schedule", "claim", "mark", "delete", "create"} \subseteq LoopStates \ Claiming
    BY DEF LoopStates, Claiming
  <2>2. ASSUME NEW l \in LoopStates \ Claiming, Go(r, l)
        PROVE  loop'[r].pc \notin Claiming /\ \A q \in Runners : q # r => loop'[q] = loop[q]
    BY <1>0, <2>2, GoForm
  <2>3. ASSUME NEW l \in LoopStates \ Claiming, NEW k \in LockType \cup {NoLock},
               loop' = [loop EXCEPT ![r].pc = l, ![r].seen = k]
        PROVE  loop'[r].pc \notin Claiming /\ \A q \in Runners : q # r => loop'[q] = loop[q]
    BY <1>0, <2>3, SeeForm
  <2>4. CASE RunPass(r) \/ ExpireMark(r) \/ ScheduleRead(r) \/ CreateTask(r)
    BY <2>1, <2>2, <2>4 DEF RunPass, ExpireMark, ScheduleRead, CreateTask
  <2>5. CASE ExpireRead(r)
    BY <1>0, <2>1, <2>2, <2>3, <2>5 DEF ExpireRead
  <2>6. CASE ExpireDelete(r)
    BY <2>1, <2>3, <2>6 DEF ExpireDelete
  <2> QED
    BY <2>4, <2>5, <2>6
<1>3. OwnClaim'
  BY <1>1, <1>2, OwnKept
<1>4. /\ \A q \in Runners : Granted(q)' => Granted(q) /\ loop'[q].task = loop[q].task
      /\ \A q \in Runners, t \in Tasks : Live(q, t)' => Live(q, t)
  BY <1>1, <1>2 DEF Granted, Live, Claiming
<1>a. CASE lock' = lock
  BY <1>3, <1>4, <1>a, QuietShape
<1>b. CASE Stale
  <2>1. Lone
    BY <1>b, FreeLock
  <2>2. Lone'
    BY <1>4, <2>1 DEF Lone
  <2> QED
    BY <1>3, <2>2 DEF Lone, OwnClaim, LeaseShape
<1> QED
  BY <1>a, <1>b DEF RunPass, ExpireRead, ExpireMark, ExpireDelete, ScheduleRead, CreateTask

LEMMA RestShape ==
  ASSUME IInv, LeaseShape, NEW r \in Runners, Rest(r), UNCHANGED <<exec, starts>>,
         UNCHANGED lock \/ (Granted(r) /\ Release(loop[r].task, r))
  PROVE  LeaseShape'
<1>1. loop'[r].pc = "idle" /\ \A q \in Runners : q # r => loop'[q] = loop[q]
  BY RestForm DEF IInv
<1>2. OwnClaim'
  BY <1>1, OwnKept DEF Claiming
<1>3. /\ \A q \in Runners : Granted(q)' => q # r /\ Granted(q) /\ loop'[q].task = loop[q].task
      /\ \A q \in Runners, t \in Tasks : Live(q, t)' => Live(q, t)
  BY <1>1 DEF Granted, Live
<1>a. CASE UNCHANGED lock
  BY <1>2, <1>3, <1>a, QuietShape
<1>b. CASE Granted(r)
  <2>1. (\A q \in Runners : Granted(q) => q = r) /\ \A q \in Runners, t \in Tasks : ~Live(q, t)
    BY <1>b DEF LeaseShape, Lease, Held
  <2>2. Lone'
    BY <1>3, <2>1 DEF Lone
  <2> QED
    BY <1>2, <2>2 DEF Lone, OwnClaim, LeaseShape
<1> QED
  BY <1>a, <1>b

LEMMA ClaimLease ==
  ASSUME IInv, LeaseShape, NEW r \in Runners,
         ClaimRead(r) \/ AcquireInsert(r) \/ AcquireInspect(r) \/ AcquireTakeOver(r) \/ ClaimMarkOld(r)
  PROVE  LeaseShape'
<1>0. TypeOK /\ lock \in LockType \cup {NoLock} /\ loop[r] \in LoopType /\ loop \in [Runners -> LoopType]
  BY TypeForm DEF IInv
<1>1. UNCHANGED <<exec, starts>>
  BY DEF ClaimRead, AcquireInsert, AcquireInspect, AcquireTakeOver, ClaimMarkOld
<1>2. Claiming = {"acquire", "inspect", "takeover", "markOld", "start"} /\ Claiming \subseteq LoopStates
  BY DEF Claiming, LoopStates
<1>3. ASSUME loop[r].pc \in Claiming, loop'[r].pc \in Claiming, loop'[r].task = loop[r].task,
             loop'[r].pc \in {"markOld", "start"} => loop[r].pc \in {"markOld", "start"},
             \A q \in Runners : q # r => loop'[q] = loop[q], UNCHANGED lock
      PROVE  LeaseShape'
  <2>1. OwnClaim'
    BY <1>1, <1>3, OwnKept DEF LeaseShape
  <2>2. /\ \A q \in Runners : Granted(q)' => Granted(q) /\ loop'[q].task = loop[q].task
        /\ \A q \in Runners, t \in Tasks : Live(q, t)' => Live(q, t)
    BY <1>1, <1>3 DEF Granted, Live
  <2> QED
    BY <1>3, <2>1, <2>2, QuietShape
<1>a. CASE ClaimRead(r)
  <2>1. ASSUME NEW t \in Tasks, status[t] = "pending",
               loop' = [loop EXCEPT ![r].pc = "acquire", ![r].task = t]
        PROVE  LeaseShape'
    <3> DEFINE x == [loop[r] EXCEPT !.pc = "acquire", !.task = t]
    <3>1. x \in LoopType /\ x.task = t /\ x.pc = "acquire"
      BY <1>0 DEF LoopType
    <3>2. loop' = [loop EXCEPT ![r] = x]
      BY <2>1
    <3> HIDE DEF x
    <3>3. loop'[r] = x /\ \A q \in Runners : q # r => loop'[q] = loop[q]
      BY <1>0, <3>1, <3>2
    <3>4. starts[t] = {}
      BY <2>1 DEF IInv
    <3>5. OwnClaim'
      BY <1>1, <3>1, <3>3, <3>4, OwnKept
    <3>6. /\ \A q \in Runners : Granted(q)' => Granted(q) /\ loop'[q].task = loop[q].task
          /\ \A q \in Runners, u \in Tasks : Live(q, u)' => Live(q, u)
      BY <1>1, <3>1, <3>3 DEF Granted, Live
    <3> QED
      BY <1>a, <3>5, <3>6, QuietShape DEF ClaimRead
  <2> QED
    BY <1>1, <1>a, <2>1, RestShape DEF ClaimRead
<1>b. CASE AcquireInsert(r)
  <2>1. CASE lock = NoLock /\ Issue(r, "start")
    BY <1>1, <1>2, <1>b, <2>1, IssueShape DEF AcquireInsert
  <2>2. CASE Go(r, "inspect") /\ UNCHANGED lock
    BY <1>0, <1>2, <1>3, <1>b, <2>2, GoForm DEF AcquireInsert
  <2> QED
    BY <1>b, <2>1, <2>2 DEF AcquireInsert
<1>c. CASE AcquireInspect(r)
  <2>1. CASE loop' = [loop EXCEPT ![r].pc = "takeover", ![r].seen = lock]
    <3>1. /\ loop'[r].pc = "takeover" /\ loop'[r].task = loop[r].task
          /\ \A q \in Runners : q # r => loop'[q] = loop[q]
      BY <1>0, <1>2, <2>1, SeeForm
    <3> QED
      BY <1>2, <1>3, <1>c, <3>1 DEF AcquireInspect
  <2> QED
    BY <1>1, <1>c, <2>1, RestShape DEF AcquireInspect
<1>d. CASE AcquireTakeOver(r)
  <2>1. ASSUME NEW l \in {"markOld", "start"}, Stale, Issue(r, l) PROVE LeaseShape'
    BY <1>1, <1>2, <1>d, <2>1, IssueShape DEF AcquireTakeOver
  <2> QED
    BY <1>1, <1>d, <2>1, RestShape DEF AcquireTakeOver
<1>e. CASE ClaimMarkOld(r)
  <2>1. CASE Go(r, "start") /\ UNCHANGED lock
    BY <1>0, <1>2, <1>3, <1>e, <2>1, GoForm DEF ClaimMarkOld
  <2> QED
    BY <1>1, <1>e, <2>1, RestShape DEF ClaimMarkOld, Granted
<1> QED
  BY <1>a, <1>b, <1>c, <1>d, <1>e

(* The claim turns into the handler that runs under its lease.             *)
LEMMA StartLease == ASSUME IInv, LeaseShape, NEW r \in Runners, ClaimStart(r) PROVE LeaseShape'
<1> DEFINE t == loop[r].task
<1>0. TypeOK /\ t \in Tasks /\ loop[r].pc = "start" /\ Granted(r) /\ exec \in [Runners -> [Tasks -> ExecStates]]
  BY TypeForm DEF IInv, ClaimStart, Claiming, Granted
<1>a. CASE Release(t, r) /\ Rest(r) /\ UNCHANGED <<status, exec, starts>>
  BY <1>0, <1>a, RestShape
<1>b. CASE Advance(r, IdleLoop) /\ UNCHANGED lock
  <2>1. /\ loop'[r].pc = "idle"
        /\ \A q \in Runners : q # r => loop'[q].pc = loop[q].pc /\ loop'[q].task = loop[q].task
    BY <1>0, <1>b, AdvanceForm, LockForm
  <2>2. (\A q \in Runners : Granted(q) => q = r) /\ \A q \in Runners, u \in Tasks : ~Live(q, u)
    BY <1>0 DEF LeaseShape, Lease, Held
  <2>3. \A q \in Runners : ~Granted(q)'
    BY <2>1, <2>2 DEF Granted
  <2>4. Lease(t, r)
    BY <1>0 DEF LeaseShape
  <2>c. CASE UNCHANGED <<exec, starts>>
    <3>1. OwnClaim'
      BY <2>1, <2>c, OwnKept DEF Claiming
    <3> QED
      BY <1>b, <2>2, <2>3, <2>c, <3>1, QuietShape DEF Live
  <2>d. CASE exec' = [exec EXCEPT ![r][t] = "run"] /\ starts' = [starts EXCEPT ![t] = @ \cup {r}]
    <3>1. \A q \in Runners, u \in Tasks : Live(q, u)' => q = r /\ u = t
      BY <1>0, <2>2, <2>d DEF Live
    <3>2. \A q \in Runners : q # r => \A u \in Tasks : q \in starts'[u] => q \in starts[u]
      BY <1>0, <2>d, TypeForm
    <3>3. \A q \in Runners : loop[q].pc \in Claiming => loop[q].task \in Tasks
      BY DEF IInv
    <3>4. OwnClaim'
      BY <2>1, <3>2, <3>3 DEF LeaseShape, OwnClaim, Claiming
    <3>5. \A q \in Runners, u \in Tasks : Live(q, u)' => Lease(u, q)'
      BY <1>b, <2>4, <3>1 DEF Lease, Held
    <3> QED
      BY <2>3, <3>4, <3>5 DEF LeaseShape, OwnClaim
  <2> QED
    BY <1>b, <2>c, <2>d DEF ClaimStart, Release, Rest
<1> QED
  BY <1>a, <1>b DEF ClaimStart

(* A cancelled handler that can still record its outcome has kept the      *)
(* lease, and its runner is not claiming the task again.                   *)
LEMMA HandlerLease ==
  ASSUME IInv, LeaseShape, NEW r \in Runners, NEW t \in Tasks, Heartbeat(r, t) \/ HandlerStep(r, t)
  PROVE  LeaseShape'
<1>0. exec \in [Runners -> [Tasks -> ExecStates]] /\ TypeOK
  BY TypeForm DEF IInv
<1>1. UNCHANGED <<loop, starts>>
  BY DEF Heartbeat, HandlerStep, FinishTask, FinishRelease, HandlerReturns
<1>2. OwnClaim' /\ \A q \in Runners : Granted(q)' = Granted(q)
  BY <1>1 DEF LeaseShape, OwnClaim, Granted
<1>a. CASE UNCHANGED lock /\ exec' \in {[exec EXCEPT ![r][t] = "cancelled"], [exec EXCEPT ![r][t] = "done"]}
  <2>1. \A q \in Runners, u \in Tasks : Live(q, u)' => Live(q, u)
    BY <1>0, <1>a DEF Live
  <2> QED
    BY <1>1, <1>2, <1>a, <2>1, QuietShape
<1>b. CASE /\ CanFinish(r, t) /\ exec[r][t] \in {"run", "cancelled"} /\ UNCHANGED lock
           /\ exec' = [exec EXCEPT ![r][t] = "release"]
  <2>1. \A q \in Runners, u \in Tasks : Live(q, u)' => Live(q, u) \/ (q = r /\ u = t)
    BY <1>0, <1>b DEF Live
  <2>2. Lease(t, r) /\ r \in starts[t]
    BY <1>b DEF CanFinish, IInv
  <2>3. \A q \in Runners : ~Granted(q)
    BY <2>2 DEF LeaseShape, Lease, Held, Granted, Claiming
  <2>4. \A q \in Runners, u \in Tasks : Live(q, u)' => Lease(u, q)'
    BY <1>b, <2>1, <2>2 DEF LeaseShape, Lease, Held
  <2> QED
    BY <1>2, <2>3, <2>4 DEF LeaseShape, OwnClaim
<1>c. CASE FinishRelease(r, t)
  <2>1. Live(r, t) /\ Release(t, r) /\ exec' = [exec EXCEPT ![r][t] = "done"]
    BY <1>c DEF FinishRelease, Live
  <2>2. \A q \in Runners, u \in Tasks : Live(q, u) => q = r /\ u = t
    BY <2>1 DEF LeaseShape, Lease, Held
  <2>3. \A q \in Runners, u \in Tasks : ~Live(q, u)'
    BY <1>0, <2>1, <2>2 DEF Live
  <2>4. \A q \in Runners : ~Granted(q)
    BY <2>1 DEF LeaseShape
  <2> QED
    BY <1>2, <2>3, <2>4 DEF LeaseShape, OwnClaim
<1> QED
  BY <1>a, <1>b, <1>c DEF Heartbeat, HandlerStep, FinishTask, HandlerReturns

LEMMA CrashLease == ASSUME IInv, LeaseShape, NEW r \in Runners, Crash(r) PROVE LeaseShape'
<1> DEFINE x == [IdleLoop EXCEPT !.pc = "dead"]
<1>1. x \in LoopType /\ x.pc = "dead" /\ "dead" \notin Claiming
  BY LockForm DEF LoopType, Claiming
<1>2. loop' = [loop EXCEPT ![r] = x] /\ UNCHANGED <<lock, starts>>
  BY DEF Crash
<1> HIDE DEF x
<1>3. loop'[r].pc = "dead" /\ \A q \in Runners : q # r => loop'[q] = loop[q]
  BY <1>1, <1>2, TypeForm DEF IInv
<1>4. OwnClaim'
  BY <1>1, <1>2, <1>3, OwnKept
<1>5. /\ \A q \in Runners : Granted(q)' => Granted(q) /\ loop'[q].task = loop[q].task
      /\ \A q \in Runners, t \in Tasks : Live(q, t)' => Live(q, t)
  <2>1. \A q \in Runners, t \in Tasks : exec'[q][t] \in {exec[q][t], "done"}
    BY TypeForm DEF IInv, Crash
  <2> QED
    BY <1>3, <2>1 DEF Granted, Live
<1> QED
  BY <1>2, <1>4, <1>5, QuietShape

(* Renewals keep the lease of whoever attends to it.                       *)
LEMMA ExpiryLease == ASSUME ~Stalls, IInv, LeaseShape, LockExpires PROVE LeaseShape'
<1>1. ~Attended /\ lock # NoLock /\ UNCHANGED <<loop, exec, starts>>
  BY DEF LockExpires
<1>2. Lone
  BY <1>1 DEF LeaseShape, Attended, Lone, Lease, Held, Granted, Live
<1> QED
  BY <1>1, <1>2 DEF LeaseShape, Lone, Granted, Live

LEMMA NextLease == ASSUME ~Stalls, IInv, LeaseShape, [Next]_vars PROVE LeaseShape'
<1>1. ASSUME NEW r \in Runners, LoopStep(r) \/ Crash(r) PROVE LeaseShape'
  BY <1>1, PassLease, ClaimLease, StartLease, CrashLease DEF LoopStep
<1>2. ASSUME NEW r \in Runners, NEW t \in Tasks, Heartbeat(r, t) \/ HandlerStep(r, t) PROVE LeaseShape'
  BY <1>2, HandlerLease
<1>3. CASE UNCHANGED vars
  <2>1. UNCHANGED <<lock, loop, exec, starts>>
    BY <1>3 DEF vars
  <2> QED
    BY <2>1 DEF LeaseShape, Lease, Held, Granted, Live
<1> QED
  BY <1>1, <1>2, <1>3, ExpiryLease DEF Next

(* While no process falls silent for longer than systemTaskLockTTL, only   *)
(* the holder of an unexpired lease claims or runs, and only one of them.  *)
THEOREM LeasesCover == ASSUME ~Stalls PROVE Spec => []LeaseShape
<1>1. Init => LeaseShape
  BY LockForm DEF Init, LeaseShape, Granted, Live, Claiming
<1>2. IInv /\ LeaseShape /\ [Next]_vars => LeaseShape'
  BY NextLease
<1> QED
  BY <1>1, <1>2, LeaseInvariance, PTL DEF Spec

(* runWithLeaseHeartbeat: without such stalls at most one handler of the   *)
(* type runs with a live context, whatever crashed or failed.              *)
THEOREM AtMostOneHandler == ASSUME ~Stalls PROVE Spec => []OneHandler
<1>1. ASSUME LeaseShape PROVE OneHandler
  <2> DEFINE S == {h \in Runners \X Tasks : exec[h[1]][h[2]] \in {"run", "release"}}
  <2>1. \A h \in S : h = <<h[1], h[2]>> /\ lock.by = h[1] /\ lock.task = h[2]
    BY <1>1 DEF LeaseShape, Live, Lease, Held
  <2>2. \A g, h \in S : g = h
    BY <2>1
  <2>3. Cardinality(S) <= 1
    <3>1. CASE S = {}
      BY <3>1, FS_EmptySet
    <3>2. ASSUME NEW h \in S PROVE Cardinality(S) <= 1
      <4>1. S = {h}
        BY <2>2
      <4> HIDE DEF S
      <4> QED
        BY <4>1, FS_Singleton
    <3> QED
      BY <3>1, <3>2
  <2> QED
    BY <2>3 DEF OneHandler
<1> QED
  BY <1>1, LeasesCover, PTL
=============================================================================
