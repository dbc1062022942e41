---------------------------- MODULE TaskLifecycle ----------------------------
(***************************************************************************)
(* The life of one asynchronous (video, music, image) task:                *)
(* executeTaskSubmissionWith (controller/relay.go) inserts its row, the    *)
(* polling passes of service/task_polling.go and the realtime fetch of     *)
(* relay/relay_task.go move it to a terminal status, and                   *)
(* service/task_billing.go settles or refunds it.                          *)
(*                                                                         *)
(* Tasks share nothing but the accounts they add to and subtract from, so  *)
(* one row is enough.  Polling passes overlap when a system-task lease is  *)
(* lost (see SystemTaskLease); each works on its own copy of the row.      *)
(* row.quota is at once the amount to settle against and the marker of a   *)
(* refund still to be made.                                                *)
(*                                                                         *)
(* fund, tok, bill and lost are history variables: what is really held     *)
(* from the funding source and from the token on behalf of the task, what  *)
(* the task should cost, and what went wrong on the way: writes of a       *)
(* settlement that were lost, and the accidents nothing guards against.    *)
(***************************************************************************)
EXTENDS Integers

CONSTANTS
    Pollers,        \* RunTaskPollingOnce passes that may overlap
    Fetchers,       \* clients whose fetch asks a Gemini/Vertex channel directly
    Quotas,         \* quotas a submission or a usage report may amount to
    Kinds,          \* kinds of task, see KindType
    MaxFailures,    \* constant.TaskPollMaxFailures, 0 = never give up
    TimeoutSweep,   \* constant.TaskTimeoutMinutes > 0
    FailureUsage,   \* upstream reports token usage of failed tasks too
    FullProgress,   \* upstream reports progress "100%" before it is done
    ChannelLoss,    \* the task's channel may be deleted
    SlowRefund,     \* an adjustment may outlast the 30s grace period
    MaxCrashes,     \* bound on process crashes
    MaxFetches,     \* bound on realtime fetches
    FaultyOps       \* database writes that may fail, see OpNames

(* TieredSnapshot, PerCallBilling or neither; submitted before             *)
(* TaskRefundLegacyCutoff or not.                                          *)
KindType == [billing: {"tiered", "perCall", "usage"}, legacy: BOOLEAN]

OpNames == {"insert", "settle", "status", "funding", "token", "marker", "claim", "restore"}

(* What may befall an adjustment and is not guarded against: a fetch that  *)
(* wrote its copy back, a process that crashed or a grace period that ran  *)
(* out in the middle, a vanished channel that failed an ended task.        *)
Accidents == {"fetch", "crash", "grace", "channel"}

ASSUME ConstantsAssumption ==
    /\ Quotas \subseteq Nat
    /\ Kinds \subseteq KindType
    /\ MaxFailures \in Nat /\ MaxCrashes \in Nat /\ MaxFetches \in Nat
    /\ FailureUsage \in BOOLEAN /\ FullProgress \in BOOLEAN /\ ChannelLoss \in BOOLEAN
    /\ SlowRefund \in BOOLEAN /\ TimeoutSweep \in BOOLEAN
    /\ FaultyOps \subseteq OpNames

VARIABLES
    kind,       \* billing kind of the task (never changes)
    row,        \* the tasks row
    fresh,      \* updated_at is within refundReconciliationGracePeriod
    overdue,    \* submit_time is older than TaskTimeoutMinutes
    sub,        \* where executeTaskSubmissionWith is
    due,        \* result.Quota
    pre,        \* what the billing session holds after Reserve
    pass,       \* the polling passes
    fetch,      \* the realtime fetches
    crashes, fetches,   \* how many there have been
    fund, tok, bill, lost   \* history, see above

subVars == <<kind, sub, due, pre>>
fetchVars == <<fetch, fetches>>
history == <<fund, tok, bill, lost>>
vars == <<kind, row, fresh, overdue, sub, due, pre, pass, fetch, fetches, crashes,
          fund, tok, bill, lost>>

(* Two statuses stand for the four that are not terminal (NOT_START,       *)
(* SUBMITTED, QUEUED, IN_PROGRESS), which no code tells apart.             *)
Active   == {"SUBMITTED", "IN_PROGRESS"}
Terminal == {"SUCCESS", "FAILURE"}

RowType == [status: {"absent"} \cup Active \cup Terminal,
            quota: Nat,
            fails: Nat,            \* PrivateData.PollFailures
            full: BOOLEAN]         \* progress = "100%"

Adjusting == {"funding", "token", "marker"}

PassType == [pc: {"idle", "sweep", "timeout", "recon", "claim", "poll", "fetched", "restore"} \cup Adjusting,
             phase: {"sweep", "recon", "poll"},
             copy: RowType,
             target: Nat]

NoRow == [status |-> "absent", quota |-> 0, fails |-> 0, full |-> FALSE]

IdlePass == [pc |-> "idle", phase |-> "sweep", copy |-> NoRow, target |-> 0]

SubStates == {"start", "insert", "settle", "done", "rejected", "unsettled", "crashed"}

TypeOK ==
    /\ kind \in Kinds
    /\ row \in RowType
    /\ fresh \in BOOLEAN /\ overdue \in BOOLEAN
    /\ sub \in SubStates
    /\ due \in Nat /\ pre \in Nat
    /\ pass \in [Pollers -> PassType]
    /\ fetch \in [Fetchers -> RowType]
    /\ crashes \in 0..MaxCrashes /\ fetches \in 0..MaxFetches
    /\ fund \in Int /\ tok \in Int /\ bill \in Nat /\ lost \subseteq OpNames \cup Accidents

(* A legacy task was submitted, and paid for, long ago.                    *)
LegacyTask(q) ==
    /\ row = [NoRow EXCEPT !.status = "SUBMITTED", !.quota = q]
    /\ sub = "done" /\ due = q /\ pre = q
    /\ fund = q /\ tok = q /\ bill = q

NewTask ==
    row = NoRow /\ sub = "start" /\ due = 0 /\ pre = 0 /\ fund = 0 /\ tok = 0 /\ bill = 0

Init ==
    /\ kind \in Kinds
    /\ \/ kind.legacy /\ \E q \in Quotas : LegacyTask(q)
       \/ ~kind.legacy /\ NewTask
    /\ fresh = FALSE /\ overdue = FALSE
    /\ pass = [p \in Pollers |-> IdlePass]
    /\ fetch = [f \in Fetchers |-> NoRow]
    /\ crashes = 0 /\ fetches = 0
    /\ lost = {}

-----------------------------------------------------------------------------
(* executeTaskSubmissionWith                                               *)

(* Whether the progress upstream reports with a status is "100%".          *)
Progress(st) ==
    IF st \in Terminal THEN {TRUE} ELSE IF FullProgress THEN BOOLEAN ELSE {FALSE}

(* The upstream accepted the task and Reserve covered result.Quota, except *)
(* for a trusted session, which holds nothing; or the submission failed    *)
(* and everything is refunded (BillingSession).                            *)
Submit ==
    /\ sub = "start"
    /\ \/ /\ \E q, h \in Quotas \cup {0} :
               /\ h = 0 \/ h >= q
               /\ due' = q /\ pre' = h /\ fund' = h /\ tok' = h
          /\ sub' = "insert"
       \/ sub' = "rejected" /\ UNCHANGED <<due, pre, fund, tok>>
    /\ UNCHANGED <<kind, row, fresh, overdue, pass, fetchVars, crashes, bill, lost>>

(* Insert, the durability barrier: the row is as submitted or holds an     *)
(* immediate result, whose failure made result.Quota 0; without the row    *)
(* everything is refunded.                                                 *)
Insert ==
    /\ sub = "insert"
    /\ \/ /\ \E st \in Active \cup Terminal : \E full \in Progress(st) :
               /\ st = "FAILURE" => due = 0
               /\ row' = [status |-> st, quota |-> due, fails |-> 0, full |-> full]
          /\ bill' = due
          /\ fresh' = TRUE
          /\ sub' = "settle"
          /\ UNCHANGED <<fund, tok>>
       \/ /\ "insert" \in FaultyOps
          /\ sub' = "rejected"
          /\ fund' = 0 /\ tok' = 0
          /\ UNCHANGED <<row, fresh, bill>>
    /\ UNCHANGED <<kind, overdue, due, pre, pass, fetchVars, crashes, lost>>

(* SettleBilling after the barrier: the funding source, whose error leaves *)
(* the task as it is, then the token, whose failure is logged.             *)
Settle ==
    /\ sub = "settle"
    /\ \/ /\ sub' = "done"
          /\ fund' = fund + (due - pre) /\ tok' = tok + (due - pre)
          /\ UNCHANGED lost
       \/ /\ "token" \in FaultyOps
          /\ sub' = "done"
          /\ fund' = fund + (due - pre)
          /\ lost' = lost \cup {"token"}
          /\ UNCHANGED tok
       \/ /\ "settle" \in FaultyOps
          /\ sub' = "unsettled"
          /\ UNCHANGED <<fund, tok, lost>>
    /\ UNCHANGED <<kind, row, fresh, overdue, due, pre, pass, fetchVars, crashes, bill>>

CrashSubmission ==
    /\ sub \in {"insert", "settle"}
    /\ crashes < MaxCrashes /\ crashes' = crashes + 1
    /\ sub' = "crashed"
    /\ UNCHANGED <<kind, row, fresh, overdue, due, pre, pass, fetchVars, history>>

-----------------------------------------------------------------------------
(* The row operations of model/task.go                                     *)

(* (mutant) only SUBMITTED tasks are looked for *)
UnfinishedSubmitted(r) == r.status = "SUBMITTED" /\ ~r.full

Unfinished(r) == r.status \in Active /\ ~r.full

RefundPending == row.status = "FAILURE" /\ row.quota # 0 /\ ~kind.legacy

(* HasTaskPollingWork *)
PollingWork == Unfinished(row) \/ RefundPending

(* (mutant) the update is not guarded by the status *)
StatusAnyway(from) == TRUE

(* UpdateWithStatus: all columns are written if the status is still the    *)
(* one the copy was read with.                                             *)
StatusIs(from) == row.status = from

Write(r) == row' = r /\ fresh' = TRUE

-----------------------------------------------------------------------------
(* A polling pass: RunTaskPollingOnce                                      *)

Step(p, l) == pass' = [pass EXCEPT ![p].pc = l]

(* The loop body for this task is over and its copy forgotten.             *)
Leave(p, l) == pass' = [pass EXCEPT ![p] = [IdlePass EXCEPT !.pc = l]]

(* Where a pass goes after the loop body for this task.                    *)
After(ph) == CASE ph = "sweep" -> "recon" [] ph = "recon" -> "poll" [] ph = "poll" -> "idle"

StartPass(p) ==
    /\ pass[p].pc = "idle" /\ PollingWork
    /\ Step(p, "sweep")
    /\ UNCHANGED <<row, fresh, overdue, subVars, fetchVars, crashes, history>>

(* The final adjustment of the task's charge, from the copy's quota to the *)
(* target: RefundTaskQuota is RecalculateTaskQuota with target 0.  Nothing *)
(* happens when they are equal.                                            *)
AdjustTo(p, r, ph, t) ==
    IF r.quota = t
    THEN Leave(p, After(ph))
    ELSE pass' = [pass EXCEPT ![p] = [pc |-> "funding", phase |-> ph, copy |-> r, target |-> t]]

(* sweepTimedOutTasks: GetTimedOutUnfinishedTasks, ...                     *)
SweepRead(p) ==
    /\ pass[p].pc = "sweep"
    /\ pass' = IF TimeoutSweep /\ Unfinished(row) /\ overdue
               THEN [pass EXCEPT ![p].pc = "timeout", ![p].copy = row]
               ELSE [pass EXCEPT ![p].pc = "recon"]
    /\ UNCHANGED <<row, fresh, overdue, subVars, fetchVars, crashes, history>>

TimedOut(r) ==
    [r EXCEPT !.status = "FAILURE", !.full = TRUE, !.quota = IF kind.legacy THEN 0 ELSE @]

(* ... the CAS to FAILURE, and the refund, which legacy tasks do not get.  *)
SweepTimedOut(p) ==
    /\ pass[p].pc = "timeout"
    /\ \/ /\ StatusIs(pass[p].copy.status)
          /\ Write(TimedOut(pass[p].copy))
          /\ AdjustTo(p, TimedOut(pass[p].copy), "sweep", 0)
          /\ bill' = IF kind.legacy THEN bill ELSE 0
       \/ /\ ~StatusIs(pass[p].copy.status) \/ "status" \in FaultyOps
          /\ Leave(p, "recon")
          /\ UNCHANGED <<row, fresh, bill>>
    /\ UNCHANGED <<overdue, subVars, fetchVars, crashes, fund, tok, lost>>

(* (mutant) the grace period is compared the wrong way *)
ReconcilableFresh == RefundPending /\ fresh

(* GetUnrefundedFailedTasks *)
Reconcilable == RefundPending /\ ~fresh

(* sweepUnrefundedFailedTasks: the read, ...                               *)
ReconcileRead(p) ==
    /\ pass[p].pc = "recon"
    /\ pass' = IF Reconcilable
               THEN [pass EXCEPT ![p].pc = "claim", ![p].copy = row]
               ELSE [pass EXCEPT ![p].pc = "poll"]
    /\ UNCHANGED <<row, fresh, overdue, subVars, fetchVars, crashes, history>>

(* (mutant) the claim does not compare the marker *)
ClaimAnyway(p) == TRUE

ClaimHolds(p) == row.quota = pass[p].copy.quota

(* ... ClaimQuotaForRefund, ...                                            *)
ClaimQuota(p) ==
    /\ pass[p].pc = "claim"
    /\ \/ /\ ClaimHolds(p)
          /\ Write([row EXCEPT !.quota = 0])
          /\ AdjustTo(p, pass[p].copy, "recon", 0)
       \/ /\ ~ClaimHolds(p) \/ "claim" \in FaultyOps
          /\ Leave(p, "poll")
          /\ UNCHANGED <<row, fresh>>
    /\ UNCHANGED <<overdue, subVars, fetchVars, crashes, history>>

(* ... and RestoreQuotaAfterFailedRefund.                                  *)
RestoreQuota(p) ==
    /\ pass[p].pc = "restore"
    /\ \/ /\ row.quota = 0
          /\ Write([row EXCEPT !.quota = pass[p].copy.quota])
          /\ UNCHANGED lost
       \/ /\ row.quota # 0 \/ "restore" \in FaultyOps
          /\ lost' = lost \cup {"restore"}
          /\ UNCHANGED <<row, fresh>>
    /\ Leave(p, "poll")
    /\ UNCHANGED <<overdue, subVars, fetchVars, crashes, fund, tok, bill>>

(* GetAllUnFinishSyncTasks                                                 *)
PollRead(p) ==
    /\ pass[p].pc = "poll"
    /\ pass' = IF Unfinished(row)
               THEN [pass EXCEPT ![p].pc = "fetched", ![p].copy = row]
               ELSE [pass EXCEPT ![p].pc = "idle"]
    /\ UNCHANGED <<row, fresh, overdue, subVars, fetchVars, crashes, history>>

(* What a task that ends with st should cost (history): the reported usage *)
(* if it is billed by usage, the submitted quota if it succeeded.          *)
Owed(st, u) ==
    CASE u >= 0 /\ kind.billing = "usage" -> u
      [] u >= 0 /\ kind.billing = "tiered" /\ st = "SUCCESS" -> u
      [] OTHER -> IF st = "SUCCESS" THEN due ELSE 0

(* (mutants) usage that cannot be evaluated is settled all the same; usage *)
(* is settled for tasks billed per call                                    *)
FinalQuotaUnchecked(r, st, u) ==
    IF kind.billing = "usage" THEN u ELSE IF st = "FAILURE" THEN 0 ELSE r.quota
FinalQuotaPerCall(r, st, u) ==
    IF u >= 0 THEN u ELSE IF st = "FAILURE" THEN 0 ELSE r.quota

(* What the task costs once it ends with st: settleTaskBillingOnComplete   *)
(* and the refund of finalizeTerminalTask.  u is the quota the reported    *)
(* usage amounts to, or -1 when there is none or it cannot be evaluated.   *)
FinalQuota(r, st, u) ==
    IF u >= 0 /\ (kind.billing = "usage" \/ (kind.billing = "tiered" /\ st = "SUCCESS")) THEN u
    ELSE IF st = "FAILURE" THEN 0 ELSE r.quota

Usages(st) == IF st = "SUCCESS" \/ FailureUsage THEN Quotas \cup {-1} ELSE {-1}

Finished(r, st) == [r EXCEPT !.status = st, !.full = TRUE]

(* updateVideoSingleTask / updateBatchTasks with a terminal answer (also   *)
(* failTaskFromPoll, which reports no usage): the CAS winner finalizes.    *)
PollTerminal(p) ==
    /\ pass[p].pc = "fetched"
    /\ \/ \E st \in Terminal : \E u \in Usages(st) :
            /\ StatusIs(pass[p].copy.status)
            /\ Write(Finished(pass[p].copy, st))
            /\ AdjustTo(p, Finished(pass[p].copy, st), "poll", FinalQuota(pass[p].copy, st, u))
            /\ bill' = Owed(st, u)
       \/ /\ ~StatusIs(pass[p].copy.status) \/ "status" \in FaultyOps
          /\ Leave(p, "idle")
          /\ UNCHANGED <<row, fresh, bill>>
    /\ UNCHANGED <<overdue, subVars, fetchVars, crashes, fund, tok, lost>>

(* A recognised answer that is not terminal: the copy is written back      *)
(* unless nothing in it changed.                                           *)
PollProgress(p) ==
    /\ pass[p].pc = "fetched"
    /\ \E st \in Active : \E full \in Progress(st) :
         LET r == [pass[p].copy EXCEPT !.status = st, !.fails = 0, !.full = full] IN
         \/ StatusIs(pass[p].copy.status) /\ Write(r)
         \/ /\ ~StatusIs(pass[p].copy.status) \/ "status" \in FaultyOps \/ r = pass[p].copy
            /\ UNCHANGED <<row, fresh>>
    /\ Leave(p, "idle")
    /\ UNCHANGED <<overdue, subVars, fetchVars, crashes, history>>

(* recordPollFailure: the failure is counted, or the task given up.        *)
PollFailure(p) ==
    LET r == [pass[p].copy EXCEPT !.fails = @ + 1]
        giveUp == MaxFailures > 0 /\ r.fails >= MaxFailures IN
    /\ pass[p].pc = "fetched"
    /\ \/ /\ StatusIs(r.status) /\ giveUp
          /\ Write(Finished(r, "FAILURE"))
          /\ AdjustTo(p, Finished(r, "FAILURE"), "poll", 0)
          /\ bill' = 0
       \/ /\ StatusIs(r.status) /\ ~giveUp
          /\ Write(r)
          /\ Leave(p, "idle")
          /\ UNCHANGED bill
       \/ /\ ~StatusIs(r.status) \/ "status" \in FaultyOps
          /\ Leave(p, "idle")
          /\ UNCHANGED <<row, fresh, bill>>
    /\ UNCHANGED <<overdue, subVars, fetchVars, crashes, fund, tok, lost>>

(* CacheGetChannel failed, or the row has no upstream id:                  *)
(* TaskBulkUpdateByID, without a CAS.                                      *)
PollChannelLost(p) ==
    /\ pass[p].pc = "fetched" /\ ChannelLoss
    /\ Write(Finished(row, "FAILURE"))
    /\ bill' = IF row.status \in Terminal THEN bill ELSE 0
    /\ lost' = IF row.status \in Terminal THEN lost \cup {"channel"} ELSE lost
    /\ Leave(p, "idle")
    /\ UNCHANGED <<overdue, subVars, fetchVars, crashes, fund, tok>>

(* The context was cancelled (lease lost): no further task is taken up.    *)
PassCancelled(p) ==
    /\ pass[p].pc \in {"claim", "fetched"}
    /\ Leave(p, "idle")
    /\ UNCHANGED <<row, fresh, overdue, subVars, fetchVars, crashes, history>>

-----------------------------------------------------------------------------
(* RefundTaskQuota / RecalculateTaskQuota: funding, token, marker          *)

Adjuster(p) == pass[p].pc \in Adjusting \cup {"restore"}

Delta(p) == pass[p].target - pass[p].copy.quota

(* taskAdjustFunding; a claimed marker is restored when it fails.          *)
AdjustFunding(p) ==
    /\ pass[p].pc = "funding"
    /\ \/ fund' = fund + Delta(p) /\ Step(p, "token") /\ UNCHANGED lost
       \/ /\ "funding" \in FaultyOps
          /\ IF pass[p].phase = "recon" THEN Step(p, "restore") ELSE Leave(p, After(pass[p].phase))
          /\ lost' = IF row.status = "SUCCESS" THEN lost \cup {"funding"} ELSE lost
          /\ UNCHANGED fund
    /\ UNCHANGED <<row, fresh, overdue, subVars, fetchVars, crashes, tok, bill>>

(* taskAdjustTokenQuota; a failure is logged.                              *)
AdjustToken(p) ==
    /\ pass[p].pc = "token"
    /\ Step(p, "marker")
    /\ \/ tok' = tok + Delta(p) /\ UNCHANGED lost
       \/ "token" \in FaultyOps /\ lost' = lost \cup {"token"} /\ UNCHANGED tok
    /\ UNCHANGED <<row, fresh, overdue, subVars, fetchVars, crashes, fund, bill>>

(* (mutant) the settled quota is not written back *)
MarkerKept(p) == row.quota

NewMarker(p) == pass[p].target

(* UpdateQuota                                                             *)
WriteMarker(p) ==
    /\ pass[p].pc = "marker"
    /\ Leave(p, After(pass[p].phase))
    /\ \/ Write([row EXCEPT !.quota = NewMarker(p)]) /\ UNCHANGED lost
       \/ "marker" \in FaultyOps /\ lost' = lost \cup {"marker"} /\ UNCHANGED <<row, fresh>>
    /\ UNCHANGED <<overdue, subVars, fetchVars, crashes, fund, tok, bill>>

CrashPass(p) ==
    /\ pass[p].pc # "idle"
    /\ crashes < MaxCrashes /\ crashes' = crashes + 1
    /\ Leave(p, "idle")
    /\ lost' = IF Adjuster(p) THEN lost \cup {"crash"} ELSE lost
    /\ UNCHANGED <<row, fresh, overdue, subVars, fetchVars, fund, tok, bill>>

-----------------------------------------------------------------------------
(* tryRealtimeFetch: the client's fetch reads the row whatever its status, *)
(* asks upstream and writes the copy back, with no billing at all.  An     *)
(* answer without a progress leaves the copy's.                            *)

FetchRead(f) ==
    /\ fetch[f].status = "absent" /\ row.status # "absent"
    /\ fetches < MaxFetches /\ fetches' = fetches + 1
    /\ fetch' = [fetch EXCEPT ![f] = row]
    /\ UNCHANGED <<row, fresh, overdue, subVars, pass, crashes, history>>

FetchWrite(f) ==
    /\ fetch[f].status # "absent"
    /\ fetch' = [fetch EXCEPT ![f] = NoRow]
    /\ \/ \E st \in Active \cup Terminal : \E u \in Usages(st), full \in Progress(st) \cup {fetch[f].full} :
            /\ StatusIs(fetch[f].status)
            /\ Write([fetch[f] EXCEPT !.status = st, !.full = full])
            /\ bill' = IF st \in Terminal \ {row.status} THEN Owed(st, u) ELSE bill
            /\ lost' = lost \cup {"fetch"}
       \/ UNCHANGED <<row, fresh, bill, lost>>
    /\ UNCHANGED <<overdue, subVars, pass, fetches, crashes, fund, tok>>

-----------------------------------------------------------------------------
(* Time                                                                    *)

(* 30 seconds pass without a write to the row.                             *)
GraceElapses ==
    /\ fresh /\ fresh' = FALSE
    /\ \/ (\A p \in Pollers : ~Adjuster(p)) /\ UNCHANGED lost
       \/ SlowRefund /\ (\E p \in Pollers : Adjuster(p)) /\ lost' = lost \cup {"grace"}
    /\ UNCHANGED <<row, overdue, subVars, pass, fetchVars, crashes, fund, tok, bill>>

TimeoutElapses ==
    /\ row.status # "absent" /\ ~overdue /\ overdue' = TRUE
    /\ UNCHANGED <<row, fresh, subVars, pass, fetchVars, crashes, history>>

PassStep(p) ==
    \/ StartPass(p) \/ SweepRead(p) \/ SweepTimedOut(p)
    \/ ReconcileRead(p) \/ ClaimQuota(p) \/ RestoreQuota(p)
    \/ PollRead(p) \/ PollTerminal(p) \/ PollProgress(p) \/ PollFailure(p)
    \/ PollChannelLost(p)
    \/ AdjustFunding(p) \/ AdjustToken(p) \/ WriteMarker(p)

Submission == Submit \/ Insert \/ Settle

(* Nothing is left to do for the task.                                     *)
Rest ==
    /\ sub \notin {"start", "insert", "settle"} /\ ~PollingWork
    /\ \A p \in Pollers : pass[p].pc = "idle"
    /\ UNCHANGED vars

Next ==
    \/ Submission \/ CrashSubmission
    \/ \E p \in Pollers : PassStep(p) \/ PassCancelled(p) \/ CrashPass(p)
    \/ \E f \in Fetchers : FetchRead(f) \/ FetchWrite(f)
    \/ GraceElapses \/ TimeoutElapses
    \/ Rest

Spec == Init /\ [][Next]_vars

(* Handlers and passes keep running, the scheduler starts a pass whenever  *)
(* there is work, time passes, and a pass does not lose its lease every    *)
(* time it is about to claim a refund.                                     *)
FairSpec ==
    /\ Spec
    /\ WF_vars(Submission) /\ WF_vars(GraceElapses) /\ WF_vars(TimeoutElapses)
    /\ \A p \in Pollers : WF_vars(PassStep(p)) /\ SF_vars(ClaimQuota(p))
    /\ \A f \in Fetchers : WF_vars(FetchWrite(f))
-----------------------------------------------------------------------------
(* Correctness                                                             *)

(* What SettleBilling has still to add to the charge.                      *)
Pending == IF sub = "settle" THEN due - pre ELSE 0

(* The submission reached its end or will (no crash, no settlement error). *)
Submitted == sub \in {"settle", "done"}

Quiet == \A p \in Pollers : ~Adjuster(p)

(* No fetch has overwritten the row, and no adjustment was cut off or took *)
(* longer than the grace period.                                           *)
Sound == lost \cap {"fetch", "crash", "grace"} = {}

(* A terminal status is overwritten in two ways only, both without the     *)
(* billing that belongs to the transition: by the bulk update of a         *)
(* vanished channel, to FAILURE (task_polling.go:476, the use that the     *)
(* warning of TaskBulkUpdateByID, model/task.go:609, forbids), and by a    *)
(* realtime fetch that had read this very status (relay_task.go:612).      *)
ByBulkUpdate ==
    row'.status = "FAILURE" /\ \E p \in Pollers : pass[p].pc = "fetched" /\ pass'[p].pc = "idle"

ByLateFetch ==
    \E f \in Fetchers : fetch[f].status = row.status /\ fetch'[f].status = "absent"

(* UpdateWithStatus guards the other transitions: whichever stale copies   *)
(* overlapping passes, sweeps, reconciliations and fetches begun before    *)
(* the end write back, and wherever they crash, a task that has ended      *)
(* keeps its status, but for the two unguarded writes above.               *)
TerminalStep ==
    row.status \in Terminal => row'.status = row.status \/ ByBulkUpdate \/ ByLateFetch

TerminalIsFinal == [][TerminalStep]_vars

(* RefundTaskQuota clears the marker after the money is back and           *)
(* RecalculateTaskQuota writes the settled amount back: whenever no        *)
(* adjustment is under way, row.quota is exactly what the task holds, so   *)
(* that any later settlement or refund computes the right difference       *)
(* (unless a write of the marker itself failed, which is logged, or one of *)
(* the accidents nobody guards against happened before).                   *)
MarkerTruthful ==
    Submitted /\ Quiet /\ ~kind.legacy /\ Sound /\ lost \cap {"marker", "restore"} = {} =>
        /\ fund + Pending = row.quota
        /\ "token" \notin lost => tok + Pending = row.quota

(* No interleaving of timeout sweep, reconciliation, poll results and the  *)
(* submission's own settlement refunds more than the task holds (unless    *)
(* clearing the marker failed, the risk RefundTaskQuota logs, or an        *)
(* accident happened, the risk the grace period is there to make rare).    *)
NoOverRefund == Submitted /\ Sound /\ "marker" \notin lost => fund + Pending >= 0

(* finalizeTerminalTask, "called by the winner of the status CAS, exactly  *)
(* once" (task_polling.go:672): a successful task has paid what its usage  *)
(* amounts to, a failed one whose marker is cleared what it owes, which is *)
(* nothing unless its usage was settled.                                   *)
FinalCharge ==
    /\ Submitted /\ Quiet /\ lost = {} /\ ~kind.legacy
    /\ row.status = "SUCCESS" \/ (row.status = "FAILURE" /\ row.quota = 0)
    => fund + Pending = bill

(* "The 24h sweep remains the only backstop" (task_polling.go:812): with   *)
(* the sweep switched on a submitted task reaches a terminal status,       *)
(* whatever upstream answers and wherever a pass crashes, unless upstream  *)
(* reports 100% while it is still active, or a fetch sets an ended task    *)
(* back: then polling and sweep both look past it (progress != '100%',     *)
(* model/task.go:372) and the row stays as it is.                          *)
EveryTaskEnds == TimeoutSweep => (<>[](row.status \in Active) => <>[](row.full))

(* sweepUnrefundedFailedTasks: the marker of a failed task is cleared in   *)
(* the end, even if the pass that failed the task crashed before or during *)
(* its refund.                                                             *)
FailureIsRefunded ==
    (row.status = "FAILURE" /\ ~kind.legacy) ~> (row.status = "FAILURE" => row.quota = 0)
=============================================================================
