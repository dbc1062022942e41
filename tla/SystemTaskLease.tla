--------------------------- MODULE SystemTaskLease ---------------------------
(***************************************************************************)
(* The durable job runner of service/system_task.go and                    *)
(* model/system_task.go, which schedules (among others) the polling passes *)
(* of TaskLifecycle.  Every node runs a loop that fails tasks whose lease  *)
(* has expired, creates the row of a due task and claims a pending one,    *)
(* then runs the task's handler beside the loop under a heartbeat.         *)
(*                                                                         *)
(* Task types share nothing, so one type is modelled: its rows, and the    *)
(* single row of system_task_locks it may have.  Every SQL statement is    *)
(* one step.  A crashed process comes back under a new runner id.          *)
(***************************************************************************)
EXTENDS Integers, FiniteSets

CONSTANTS
    Runners,      \* runner ids (NodeName plus a random suffix)
    MaxTasks,     \* bound on the rows created
    MaxCrashes,   \* bound on process crashes
    Stalls,       \* a live process may fall silent for longer than systemTaskLockTTL
    FaultyOps     \* statements that may fail, see OpNames

OpNames == {"mark", "start", "reread", "renew", "finish", "release"}

ASSUME LeaseAssumption ==
    /\ MaxTasks \in Nat /\ MaxCrashes \in Nat
    /\ Stalls \in BOOLEAN
    /\ FaultyOps \subseteq OpNames

VARIABLES
    status,     \* system_tasks.status; row t is created t-th
    lock,       \* the lock row of the type
    loop,       \* the runner loops
    exec,       \* the handlers
    crashes,    \* how many processes have crashed
    starts      \* history: who started which task

vars == <<status, lock, loop, exec, crashes, starts>>

Tasks == 1..MaxTasks
NoTask == 0

Active == {"pending", "running"}
Ended  == {"succeeded", "failed"}

(* LockedUntil is in the past or not.                                      *)
LockType == [task: Tasks, by: Runners, expired: BOOLEAN]
NoLock == [task |-> NoTask]

LoopType == [pc: {"idle", "expire", "mark", "delete", "schedule", "create", "claim",
                  "acquire", "inspect", "takeover", "markOld", "start", "dead"},
             task: Tasks \cup {NoTask},          \* the task being claimed
             seen: LockType \cup {NoLock},       \* the lock row that was read
             old: BOOLEAN]      \* history: the pass overlaps the claim of the lock

TypeOK ==
    /\ status \in [Tasks -> {"absent"} \cup Active \cup Ended]
    /\ lock \in LockType \cup {NoLock}
    /\ loop \in [Runners -> LoopType]
    /\ exec \in [Runners -> [Tasks -> {"none", "run", "cancelled", "release", "done"}]]
    /\ crashes \in 0..MaxCrashes
    /\ starts \in [Tasks -> SUBSET Runners]

IdleLoop == [pc |-> "idle", task |-> NoTask, seen |-> NoLock, old |-> FALSE]

Init ==
    /\ status = [t \in Tasks |-> "absent"]
    /\ lock = NoLock
    /\ loop = [r \in Runners |-> IdleLoop]
    /\ exec = [r \in Runners |-> [t \in Tasks |-> "none"]]
    /\ crashes = 0
    /\ starts = [t \in Tasks |-> {}]

Go(r, l) == loop' = [loop EXCEPT ![r].pc = l]
Rest(r) == loop' = [loop EXCEPT ![r] = IdleLoop]

Held(t, r) == lock # NoLock /\ lock.task = t /\ lock.by = r
Lease(t, r) == Held(t, r) /\ ~lock.expired

(* (mutant) the expiry is not looked at *)
AnyLock == lock # NoLock

Stale == lock # NoLock /\ lock.expired

(* ReleaseSystemTaskLock                                                   *)
Release(t, r) ==
    \/ lock' = IF Held(t, r) THEN NoLock ELSE lock
    \/ "release" \in FaultyOps /\ UNCHANGED lock

(* (mutants) whatever the status; the wrong status; to a status of its own *)
MarkAny(s, t) == [s EXCEPT ![t] = "failed"]
MarkPending(s, t) == IF s[t] = "pending" THEN [s EXCEPT ![t] = "failed"] ELSE s
MarkLapsed(s, t) == IF s[t] = "running" THEN [s EXCEPT ![t] = "expired"] ELSE s

(* MarkSystemTaskLeaseExpired                                              *)
MarkExpired(s, t) == IF s[t] = "running" THEN [s EXCEPT ![t] = "failed"] ELSE s

-----------------------------------------------------------------------------
(* The runner loop: runPass of StartSystemTaskRunner                       *)

(* A pass begins; stale locks and schedule are throttled on their own.     *)
RunPass(r) ==
    /\ loop[r].pc = "idle"
    /\ \E l \in {"expire", "schedule", "claim"} : Go(r, l)
    /\ UNCHANGED <<status, lock, exec, crashes, starts>>

(* ExpireStaleSystemTaskLocks: the stale locks are listed, ...             *)
ExpireRead(r) ==
    /\ loop[r].pc = "expire"
    /\ IF Stale THEN loop' = [loop EXCEPT ![r].pc = "mark", ![r].seen = lock]
                ELSE Go(r, "schedule")
    /\ UNCHANGED <<status, lock, exec, crashes, starts>>

(* ... the task is failed if it is running, ...                            *)
ExpireMark(r) ==
    /\ loop[r].pc = "mark"
    /\ \/ status' = MarkExpired(status, loop[r].seen.task) /\ Go(r, "delete")
       \/ "mark" \in FaultyOps /\ Go(r, "schedule") /\ UNCHANGED status
    /\ UNCHANGED <<lock, exec, crashes, starts>>

(* ... and the lock deleted if it is still the one that was listed.        *)
ExpireDelete(r) ==
    /\ loop[r].pc = "delete"
    /\ lock' = IF Stale /\ Held(loop[r].seen.task, loop[r].seen.by) THEN NoLock ELSE lock
    /\ loop' = [loop EXCEPT ![r].pc = "schedule", ![r].seen = NoLock]
    /\ UNCHANGED <<status, exec, crashes, starts>>

HasActive == \E t \in Tasks : status[t] \in Active

(* runSystemTaskScheduler (and EnqueueSystemTask): no active row, and due. *)
ScheduleRead(r) ==
    /\ loop[r].pc = "schedule"
    /\ \/ ~HasActive /\ Go(r, "create")
       \/ Go(r, "claim")
    /\ UNCHANGED <<status, lock, exec, crashes, starts>>

(* CreateSystemTask: active_key has a unique index.                        *)
CreateTask(r) ==
    /\ loop[r].pc = "create"
    /\ Go(r, "claim")
    /\ \/ \E t \in Tasks :
            /\ ~HasActive
            /\ status[t] = "absent" /\ \A u \in Tasks : u < t => status[u] # "absent"
            /\ status' = [status EXCEPT ![t] = "pending"]
       \/ /\ HasActive \/ \A t \in Tasks : status[t] # "absent"
          /\ UNCHANGED status
    /\ UNCHANGED <<lock, exec, crashes, starts>>

(* runSystemTaskClaimPass: FindEarliestPendingSystemTasks and the read of  *)
(* ClaimSystemTask.                                                        *)
ClaimRead(r) ==
    /\ loop[r].pc = "claim"
    /\ \/ \E t \in Tasks :
            /\ status[t] = "pending" /\ \A u \in Tasks : u < t => status[u] # "pending"
            /\ loop' = [loop EXCEPT ![r].pc = "acquire", ![r].task = t]
       \/ (\A t \in Tasks : status[t] # "pending") /\ Rest(r)
    /\ UNCHANGED <<status, lock, exec, crashes, starts>>

(* The loop of r moves to x; the other passes under way overlap its claim. *)
Advance(r, x) ==
    loop' = [q \in Runners |->
               IF q = r THEN x ELSE [loop[q] EXCEPT !.old = @ \/ loop[q].pc \notin {"idle", "dead"}]]

(* The lock row is issued to r, whose claim goes on at l.                  *)
Issue(r, l) ==
    /\ lock' = [task |-> loop[r].task, by |-> r, expired |-> FALSE]
    /\ Advance(r, [loop[r] EXCEPT !.pc = l])

(* acquireSystemTaskLock: insert the lock row, ...                         *)
AcquireInsert(r) ==
    /\ loop[r].pc = "acquire"
    /\ \/ lock = NoLock /\ Issue(r, "start")
       \/ lock # NoLock /\ Go(r, "inspect") /\ UNCHANGED lock
    /\ UNCHANGED <<status, exec, crashes, starts>>

(* ... or look at the one that is there ...                                *)
AcquireInspect(r) ==
    /\ loop[r].pc = "inspect"
    /\ \/ Stale /\ loop' = [loop EXCEPT ![r].pc = "takeover", ![r].seen = lock]
       \/ ~Stale /\ Rest(r)
    /\ UNCHANGED <<status, lock, exec, crashes, starts>>

(* ... and overwrite it if it has expired.  The task to fail is the one    *)
(* of the row that was read.                                               *)
AcquireTakeOver(r) ==
    /\ loop[r].pc = "takeover"
    /\ \/ /\ Stale
          /\ Issue(r, IF loop[r].seen.task = loop[r].task THEN "start" ELSE "markOld")
       \/ ~Stale /\ Rest(r) /\ UNCHANGED lock
    /\ UNCHANGED <<status, exec, crashes, starts>>

ClaimMarkOld(r) ==
    /\ loop[r].pc = "markOld"
    /\ \/ /\ status' = MarkExpired(status, loop[r].seen.task)
          /\ Go(r, "start")
          /\ UNCHANGED lock
       \/ /\ "mark" \in FaultyOps
          /\ Release(loop[r].task, r)
          /\ Rest(r)
          /\ UNCHANGED status
    /\ UNCHANGED <<exec, crashes, starts>>

(* (mutant) the status update is not conditional *)
StartAnyway(r) == TRUE

CanStart(r) == status[loop[r].task] = "pending"

(* The rest of ClaimSystemTask: pending to running, and the handler is     *)
(* dispatched unless the row cannot be read back.                          *)
ClaimStart(r) ==
    LET t == loop[r].task IN
    /\ loop[r].pc = "start"
    /\ \/ /\ CanStart(r)
          /\ status' = [status EXCEPT ![t] = "running"]
          /\ \/ exec' = [exec EXCEPT ![r][t] = "run"] /\ starts' = [starts EXCEPT ![t] = @ \cup {r}]
             \/ "reread" \in FaultyOps /\ UNCHANGED <<exec, starts>>
          /\ Advance(r, IdleLoop)
          /\ UNCHANGED lock
       \/ /\ ~CanStart(r) \/ "start" \in FaultyOps
          /\ Release(t, r)
          /\ Rest(r)
          /\ UNCHANGED <<status, exec, starts>>
    /\ UNCHANGED crashes

LoopStep(r) ==
    \/ RunPass(r) \/ ExpireRead(r) \/ ExpireMark(r) \/ ExpireDelete(r)
    \/ ScheduleRead(r) \/ CreateTask(r)
    \/ ClaimRead(r) \/ AcquireInsert(r) \/ AcquireInspect(r) \/ AcquireTakeOver(r)
    \/ ClaimMarkOld(r) \/ ClaimStart(r)

-----------------------------------------------------------------------------
(* The handler of a claimed task: runWithLeaseHeartbeat                    *)

(* RenewSystemTaskLock finds the lease gone, or fails: ctx is cancelled.   *)
(* (A renewal that succeeds is a lease that does not expire.)              *)
Heartbeat(r, t) ==
    /\ exec[r][t] = "run"
    /\ ~Lease(t, r) \/ "renew" \in FaultyOps
    /\ exec' = [exec EXCEPT ![r][t] = "cancelled"]
    /\ UNCHANGED <<status, lock, loop, crashes, starts>>

CanFinish(r, t) == status[t] = "running" /\ Lease(t, r)

(* FinishSystemTask: the outcome is recorded under the lease, ...          *)
FinishTask(r, t) ==
    /\ exec[r][t] \in {"run", "cancelled"}
    /\ \/ /\ CanFinish(r, t)
          /\ \E s \in Ended : status' = [status EXCEPT ![t] = s]
          /\ exec' = [exec EXCEPT ![r][t] = "release"]
       \/ /\ ~CanFinish(r, t) \/ "finish" \in FaultyOps
          /\ exec' = [exec EXCEPT ![r][t] = "done"]
          /\ UNCHANGED status
    /\ UNCHANGED <<lock, loop, crashes, starts>>

(* ... and the lock released.                                              *)
FinishRelease(r, t) ==
    /\ exec[r][t] = "release"
    /\ Release(t, r)
    /\ exec' = [exec EXCEPT ![r][t] = "done"]
    /\ UNCHANGED <<status, loop, crashes, starts>>

(* The handler gives up without an outcome: UpdateSystemTaskState reported *)
(* the lock lost.                                                          *)
HandlerReturns(r, t) ==
    /\ exec[r][t] \in {"run", "cancelled"} /\ ~CanFinish(r, t)
    /\ exec' = [exec EXCEPT ![r][t] = "done"]
    /\ UNCHANGED <<status, lock, loop, crashes, starts>>

HandlerStep(r, t) == FinishTask(r, t) \/ FinishRelease(r, t) \/ HandlerReturns(r, t)

-----------------------------------------------------------------------------
Crash(r) ==
    /\ loop[r].pc # "dead"
    /\ crashes < MaxCrashes /\ crashes' = crashes + 1
    /\ loop' = [loop EXCEPT ![r] = [IdleLoop EXCEPT !.pc = "dead"]]
    /\ exec' = [exec EXCEPT ![r] = [t \in Tasks |-> IF @[t] = "none" THEN "none" ELSE "done"]]
    /\ UNCHANGED <<status, lock, starts>>

(* The holder is on its way from acquiring the lock to starting the task,  *)
(* or its handler renews the lease every third of the TTL.                 *)
Attended ==
    /\ lock # NoLock
    /\ \/ exec[lock.by][lock.task] \in {"run", "release"}
       \/ loop[lock.by].pc \in {"markOld", "start"} /\ loop[lock.by].task = lock.task

(* Without stalls the passes that overlapped the claim are over before the *)
(* TTL is.                                                                 *)
LockExpires ==
    /\ lock # NoLock /\ ~lock.expired
    /\ Stalls \/ (~Attended /\ \A r \in Runners : ~loop[r].old)
    /\ lock' = [lock EXCEPT !.expired = TRUE]
    /\ UNCHANGED <<status, loop, exec, crashes, starts>>

Next ==
    \/ \E r \in Runners : LoopStep(r) \/ Crash(r)
    \/ \E r \in Runners, t \in Tasks : Heartbeat(r, t) \/ HandlerStep(r, t)
    \/ LockExpires

Spec == Init /\ [][Next]_vars

(* Loops, handlers and clocks go on; the throttles let a pass look for     *)
(* stale locks again and again.                                            *)
FairSpec ==
    /\ Spec
    /\ WF_vars(LockExpires)
    /\ \A r \in Runners : WF_vars(LoopStep(r)) /\ SF_vars(ExpireRead(r))
    /\ \A r \in Runners : SF_vars(RunPass(r) /\ loop'[r].pc = "expire")
    /\ \A r \in Runners, t \in Tasks : WF_vars(~Lease(t, r) /\ Heartbeat(r, t)) /\ WF_vars(HandlerStep(r, t))
-----------------------------------------------------------------------------
(* Correctness                                                             *)

(* ClaimSystemTask moves a row from pending to running once: however many  *)
(* runners race for an expired lock, stall or crash, no task is ever       *)
(* handed to a second handler, not even after the first one died.          *)
StartedOnce == \A t \in Tasks : Cardinality(starts[t]) <= 1

(* "The per-type lock guarantees only one runner executes the task"        *)
(* (service/system_task.go:259): while processes do not fall silent for    *)
(* longer than the TTL, at most one handler of the type runs with a live   *)
(* context, whoever crashed or lost a race before.                         *)
OneHandler ==
    Cardinality({h \in Runners \X Tasks : exec[h[1]][h[2]] \in {"run", "release"}}) <= 1

(* A recorded outcome is final: neither a late sweep of an expired lease   *)
(* nor a handler that has lost its lease overwrites it.                    *)
OutcomeIsFinal == [][\A t \in Tasks : status[t] \in Ended => status'[t] = status[t]]_vars

(* A handler that is past its lease records nothing: an outcome of         *)
(* "succeeded" comes from the one handler that was started and held an     *)
(* unexpired lease at that moment.                                         *)
OutcomeUnderLease ==
    [][\A t \in Tasks : status[t] # "succeeded" /\ status'[t] = "succeeded" =>
         \E r \in Runners : starts[t] = {r} /\ Lease(t, r)]_vars

(* Every task that is created ends, whoever crashes and whichever          *)
(* statement fails, so that the scheduler is never blocked for good by an  *)
(* active row nobody works on.                                             *)
EveryTaskEnds == \A t \in Tasks : status[t] \in Active ~> status[t] \in Ended
=============================================================================
