------------------------- MODULE TaskLifecycleProofs -------------------------
(***************************************************************************)
(* Proofs about TaskLifecycle for any number of overlapping polling        *)
(* passes, any quotas and any failing writes: the inductive invariant IInv *)
(* and the properties that follow from it.                                 *)
(***************************************************************************)
EXTENDS TaskLifecycle, TLAPS

-----------------------------------------------------------------------------
(* The inductive invariant: it holds for as long as the run is Sound,      *)
(* whatever writes fail and channels vanish.                               *)

(* Only successes report usage.                                            *)
Calm == ~FailureUsage

(* The row exists once inserted, and keeps its quota until the task ends.  *)
RowShape ==
    /\ row.status = "absent" => sub \in {"start", "insert", "rejected", "crashed"}
    /\ sub \in {"start", "insert", "rejected"} => row.status = "absent"
    /\ sub = "insert" => fund = pre /\ tok = pre
    /\ row.status \in Active => row.quota = due
    /\ kind.legacy => sub = "done"

(* A stale copy can only win a CAS while the task is still active.         *)
CopyShape(p) ==
    /\ pass[p].pc # "idle" => row.status # "absent"
    /\ pass[p].pc \in {"timeout", "fetched"} =>
         pass[p].copy.status \in Active /\ pass[p].copy.quota = due
    /\ pass[p].pc = "claim" =>
         /\ row.status = "FAILURE" /\ pass[p].copy.quota # 0 /\ ~kind.legacy
         /\ \A q \in Pollers : Adjuster(q) => pass[q].phase = "recon"

(* One adjustment at a time; a reconciliation has claimed the marker, any  *)
(* other one is protected by the grace period.                             *)
AdjusterShape(p) == Adjuster(p) =>
    /\ \A q \in Pollers : Adjuster(q) => q = p
    /\ row.status \in Terminal
    /\ pass[p].phase = "recon" =>
         row.status = "FAILURE" /\ row.quota = 0 /\ pass[p].target = 0 /\ ~kind.legacy
    /\ pass[p].phase # "recon" => fresh /\ row.quota = pass[p].copy.quota /\ pass[p].pc # "restore"

(* What the task holds at each step of an adjustment and between them.     *)
FundLedger ==
    Submitted /\ "marker" \notin lost =>
        /\ Quiet => fund + Pending >= row.quota
        /\ \A p \in Pollers :
             /\ pass[p].pc \in {"funding", "restore"} => fund + Pending >= pass[p].copy.quota
             /\ pass[p].pc \in {"token", "marker"} => fund + Pending >= pass[p].target

ExactLedger ==
    Submitted /\ ~kind.legacy /\ lost \cap {"marker", "restore"} = {} =>
        /\ Quiet => fund + Pending = row.quota
        /\ \A p \in Pollers :
             /\ pass[p].pc \in {"funding", "restore"} => fund + Pending = pass[p].copy.quota
             /\ pass[p].pc \in {"token", "marker"} => fund + Pending = pass[p].target

TokenLedger ==
    Submitted /\ ~kind.legacy /\ lost \cap {"marker", "restore", "token"} = {} =>
        /\ Quiet => tok + Pending = row.quota
        /\ \A p \in Pollers :
             /\ pass[p].pc \in {"funding", "restore", "token"} => tok + Pending = pass[p].copy.quota
             /\ pass[p].pc = "marker" => tok + Pending = pass[p].target

(* The bill is what the adjustment aims at.                                *)
BillShape ==
    Calm /\ ~kind.legacy /\ "channel" \notin lost =>
        /\ row.status \in Active => bill = due
        /\ row.status = "FAILURE" => bill = 0
        /\ row.status = "SUCCESS" /\ lost = {} =>
             /\ Quiet => row.quota = bill
             /\ \A p \in Pollers : Adjuster(p) => pass[p].target = bill

IInv ==
    /\ TypeOK /\ RowShape
    /\ \A p \in Pollers : CopyShape(p) /\ AdjusterShape(p)
    /\ FundLedger /\ ExactLedger /\ TokenLedger /\ BillShape

-----------------------------------------------------------------------------
USE ConstantsAssumption DEF ConstantsAssumption

(* The initial states satisfy the invariant.                               *)
LEMMA InitIInv == Init => IInv
<1> SUFFICES ASSUME Init PROVE IInv
  OBVIOUS
<1> DEFINE Good == TypeOK /\ RowShape /\ (Submitted => fund + Pending = row.quota /\ tok + Pending = row.quota)
<1>a. NoRow \in RowType /\ IdlePass \in PassType
  BY DEF NoRow, IdlePass, RowType, PassType
<1>b. kind \in Kinds /\ kind.legacy \in BOOLEAN
  BY DEF Init, KindType
<1>b1. fresh \in BOOLEAN /\ overdue \in BOOLEAN
  BY DEF Init
<1>b2. crashes \in 0..MaxCrashes /\ fetches \in 0..MaxFetches
  BY DEF Init
<1>b3. lost \subseteq OpNames \cup Accidents
  BY DEF Init
<1>b4. pass \in [Pollers -> PassType] /\ fetch \in [Fetchers -> RowType]
  BY <1>a DEF Init
<1>c. ASSUME kind.legacy PROVE Good
  <2>0. PICK q \in Quotas : LegacyTask(q)
    BY <1>c DEF Init
  <2>1. /\ row = [NoRow EXCEPT !.status = "SUBMITTED", !.quota = q]
        /\ sub = "done" /\ due = q /\ pre = q
        /\ fund = q /\ tok = q /\ bill = q
    BY <2>0 DEF LegacyTask
  <2>2. row \in RowType /\ row.status = "SUBMITTED" /\ row.quota = q
    BY <2>1 DEF NoRow, RowType, Active
  <2>3. TypeOK
    BY <1>b, <1>b1, <1>b2, <1>b3, <1>b4, <2>1, <2>2 DEF TypeOK, SubStates
  <2>4. RowShape
    BY <1>b, <1>c, <2>1, <2>2 DEF RowShape, Active
  <2> QED
    BY <2>1, <2>2, <2>3, <2>4 DEF Pending, Submitted
<1>d. ASSUME ~kind.legacy PROVE Good
  <2>0. NewTask
    BY <1>d DEF Init
  <2>1. TypeOK
    BY <1>a, <1>b, <1>b1, <1>b2, <1>b3, <1>b4, <2>0 DEF NewTask, TypeOK, SubStates
  <2>2. RowShape
    BY <1>b, <1>d, <2>0 DEF NewTask, RowShape, Active, NoRow
  <2> QED
    BY <2>0, <2>1, <2>2 DEF NewTask, Submitted
<1>1. Good
  BY <1>b, <1>c, <1>d
<1>3. \A p \in Pollers : pass[p].pc = "idle"
  BY DEF Init, IdlePass
<1>4. \A p \in Pollers : CopyShape(p) /\ AdjusterShape(p)
  BY <1>3 DEF CopyShape, AdjusterShape, Adjuster, Adjusting
<1>5. FundLedger /\ ExactLedger /\ TokenLedger
  BY <1>1, <1>3 DEF FundLedger, ExactLedger, TokenLedger, TypeOK, RowType
<1>6. BillShape
  <2>1. SUFFICES ASSUME ~kind.legacy PROVE BillShape
    BY DEF BillShape
  <2>2. NewTask
    BY <2>1 DEF Init
  <2> QED
    BY <2>2 DEF NewTask, BillShape, NoRow, Active
<1> QED
  BY <1>1, <1>4, <1>5, <1>6 DEF IInv

(* A step of a pass that moves no money and touches no row.                *)
LEMMA MoveIInv ==
  ASSUME IInv, NEW p \in Pollers, NEW x \in PassType,
         pass' = [pass EXCEPT ![p] = x],
         UNCHANGED <<kind, row, fresh, overdue, sub, due, pre, fetch, fetches,
                     fund, tok, bill, lost>>,
         crashes' \in 0..MaxCrashes,
         ~Adjuster(p), x.pc \notin Adjusting \cup {"restore"},
         x.pc # "idle" => row.status # "absent",
         x.pc \in {"timeout", "fetched"} => x.copy.status \in Active /\ x.copy.quota = due,
         x.pc = "claim" =>
           /\ row.status = "FAILURE" /\ x.copy.quota # 0 /\ ~kind.legacy
           /\ \A q \in Pollers : Adjuster(q) => pass[q].phase = "recon"
  PROVE  IInv'
<1>1. TypeOK'
  BY DEF IInv, TypeOK
<1>2. RowShape'
  BY DEF IInv, RowShape
<1>3. pass'[p] = x /\ \A q \in Pollers : q # p => pass'[q] = pass[q]
  BY DEF IInv, TypeOK
<1>4. \A q \in Pollers : Adjuster(q)' = Adjuster(q) /\ (Adjuster(q) => q # p)
  BY <1>3 DEF Adjuster
<1>5. Quiet' = Quiet
  BY <1>4 DEF Quiet
<1>6. \A q \in Pollers : CopyShape(q)'
  BY <1>3, <1>4 DEF IInv, CopyShape
<1>7. \A q \in Pollers : AdjusterShape(q)'
  BY <1>3, <1>4 DEF IInv, AdjusterShape
<1>8. \A q \in Pollers : pass'[q].pc \in Adjusting \cup {"restore"} => pass'[q] = pass[q]
  BY <1>3
<1>9. FundLedger' /\ ExactLedger' /\ TokenLedger'
  BY <1>5, <1>8 DEF IInv, FundLedger, ExactLedger, TokenLedger, Submitted, Pending, Adjusting
<1>10. BillShape'
  BY <1>4, <1>5, <1>8 DEF IInv, BillShape, Adjuster
<1> QED
  BY <1>1, <1>2, <1>6, <1>7, <1>9, <1>10 DEF IInv

(* What a pass looks like after the usual updates.                         *)
LEMMA StepForm ==
  ASSUME TypeOK, NEW p \in Pollers, NEW l, Step(p, l)
  PROVE  /\ pass' = [pass EXCEPT ![p] = [pass[p] EXCEPT !.pc = l]]
         /\ pass'[p].pc = l /\ pass'[p].phase = pass[p].phase
         /\ pass'[p].copy = pass[p].copy /\ pass'[p].target = pass[p].target
         /\ \A q \in Pollers : q # p => pass'[q] = pass[q]
  BY DEF Step, TypeOK, PassType

LEMMA LeaveForm ==
  ASSUME TypeOK, NEW p \in Pollers, NEW l \in {"idle", "recon", "poll"}, Leave(p, l)
  PROVE  /\ [IdlePass EXCEPT !.pc = l] \in PassType
         /\ [IdlePass EXCEPT !.pc = l].pc = l
         /\ pass' \in [Pollers -> PassType]
         /\ pass'[p].pc = l
         /\ \A q \in Pollers : q # p => pass'[q] = pass[q]
  BY DEF Leave, TypeOK, PassType, IdlePass, NoRow, RowType

LEMMA AfterType == \A ph \in {"sweep", "recon", "poll"} : After(ph) \in {"idle", "recon", "poll"}
  BY DEF After

(* While the task is active, or a marker is about to be claimed, nobody    *)
(* adjusts its charge.                                                     *)
LEMMA ActiveQuiet ==
  ASSUME IInv, row.status \in Active
  PROVE  /\ Quiet /\ row.quota = due
         /\ \A p \in Pollers : ~Adjuster(p) /\ pass[p].pc # "claim"
  BY DEF IInv, AdjusterShape, CopyShape, RowShape, Quiet, Active, Terminal

(* The CAS winner ends an active task and takes on its adjustment.         *)
LEMMA EndIInv ==
  ASSUME IInv, NEW p \in Pollers, NEW ph \in {"sweep", "poll"},
         NEW r \in RowType, NEW t \in Nat,
         row.status \in Active, r.status \in Terminal,
         r.quota = due \/ (kind.legacy /\ r.quota = 0),
         row' = r, fresh' = TRUE, AdjustTo(p, r, ph, t),
         bill' \in Nat,
         Calm /\ ~kind.legacy => bill' = IF r.status = "FAILURE" THEN 0 ELSE t,
         UNCHANGED <<kind, overdue, sub, due, pre, fetch, fetches, crashes, fund, tok, lost>>
  PROVE  IInv'
<1>0. TypeOK /\ r.quota \in Nat /\ due \in Nat /\ fund \in Int /\ tok \in Int /\ Pending \in Int
  BY DEF IInv, TypeOK, RowType, Pending
<1>1. /\ Quiet /\ row.quota = due
      /\ \A q \in Pollers : ~Adjuster(q) /\ pass[q].pc # "claim"
  BY ActiveQuiet
<1>2. RowShape'
  BY DEF IInv, RowShape, Active, Terminal
<1>3. Submitted' = Submitted /\ Pending' = Pending
  BY DEF Submitted, Pending
<1>4. /\ Submitted /\ "marker" \notin lost => fund + Pending >= r.quota
      /\ Submitted /\ ~kind.legacy /\ lost \cap {"marker", "restore"} = {} => fund + Pending = r.quota
      /\ Submitted /\ ~kind.legacy /\ lost \cap {"marker", "restore", "token"} = {} => tok + Pending = r.quota
  BY <1>0, <1>1 DEF IInv, FundLedger, ExactLedger, TokenLedger
<1>a. CASE r.quota = t
  <2>1. Leave(p, After(ph)) /\ After(ph) \in {"idle", "recon", "poll"}
    BY <1>a, AfterType DEF AdjustTo
  <2>2. /\ pass' \in [Pollers -> PassType]
        /\ pass'[p].pc \in {"idle", "recon", "poll"}
        /\ \A q \in Pollers : q # p => pass'[q] = pass[q]
    BY <1>0, <2>1, LeaveForm
  <2>3. TypeOK'
    BY <1>0, <2>2 DEF TypeOK
  <2>4. Quiet' /\ \A q \in Pollers : ~Adjuster(q)'
    BY <1>1, <2>2 DEF Quiet, Adjuster, Adjusting
  <2>5. \A q \in Pollers : CopyShape(q)' /\ AdjusterShape(q)'
    BY <1>1, <2>2, <2>4 DEF IInv, CopyShape, AdjusterShape, Active, Terminal
  <2>6. \A q \in Pollers : pass'[q].pc \notin {"funding", "token", "marker", "restore"}
    BY <2>4 DEF Adjuster, Adjusting
  <2>7. FundLedger' /\ ExactLedger' /\ TokenLedger'
    BY <1>3, <1>4, <2>4, <2>6 DEF FundLedger, ExactLedger, TokenLedger
  <2>8. BillShape'
    BY <1>a, <2>4 DEF BillShape, Active, Terminal
  <2> QED
    BY <1>2, <2>3, <2>5, <2>7, <2>8 DEF IInv
<1>b. CASE r.quota # t
  <2> DEFINE x == [pc |-> "funding", phase |-> ph, copy |-> r, target |-> t]
  <2>1. x \in PassType /\ pass' = [pass EXCEPT ![p] = x]
    BY <1>b DEF AdjustTo, PassType, Adjusting
  <2>2. /\ pass' \in [Pollers -> PassType] /\ pass'[p] = x
        /\ \A q \in Pollers : q # p => pass'[q] = pass[q]
    BY <1>0, <2>1 DEF TypeOK
  <2>3. TypeOK'
    BY <1>0, <2>2 DEF TypeOK
  <2>4. ~Quiet' /\ \A q \in Pollers : Adjuster(q)' <=> q = p
    BY <1>1, <2>2 DEF Quiet, Adjuster, Adjusting
  <2>5. \A q \in Pollers : CopyShape(q)' /\ AdjusterShape(q)'
    BY <1>1, <2>2, <2>4 DEF IInv, CopyShape, AdjusterShape, Active, Terminal
  <2>6. \A q \in Pollers : q # p => pass'[q].pc \notin {"funding", "token", "marker", "restore"}
    BY <2>4 DEF Adjuster, Adjusting
  <2>7. FundLedger' /\ ExactLedger' /\ TokenLedger'
    BY <1>3, <1>4, <2>2, <2>4, <2>6 DEF FundLedger, ExactLedger, TokenLedger
  <2>8. BillShape'
    BY <2>2, <2>4 DEF BillShape, Active, Terminal
  <2> QED
    BY <1>2, <2>3, <2>5, <2>7, <2>8 DEF IInv
<1> QED
  BY <1>a, <1>b

(* A copy is written back and the task stays active.                       *)
LEMMA WriteBackIInv ==
  ASSUME IInv, NEW p \in Pollers, NEW r \in RowType, Leave(p, "idle"),
         row.status \in Active, r.status \in Active, r.quota = due,
         row' = r, fresh' = TRUE,
         UNCHANGED <<kind, overdue, sub, due, pre, fetch, fetches, crashes, fund, tok, bill, lost>>
  PROVE  IInv'
<1>0. TypeOK
  BY DEF IInv
<1>1. /\ Quiet /\ row.quota = due
      /\ \A q \in Pollers : ~Adjuster(q) /\ pass[q].pc # "claim"
  BY ActiveQuiet
<1>2. RowShape'
  BY DEF IInv, RowShape, Active
<1>3. Submitted' = Submitted /\ Pending' = Pending
  BY DEF Submitted, Pending
<1>4. /\ pass' \in [Pollers -> PassType] /\ pass'[p].pc = "idle"
      /\ \A q \in Pollers : q # p => pass'[q] = pass[q]
  BY <1>0, LeaveForm
<1>5. TypeOK'
  BY <1>0, <1>4 DEF TypeOK
<1>6. Quiet' /\ \A q \in Pollers : ~Adjuster(q)'
  BY <1>1, <1>4 DEF Quiet, Adjuster, Adjusting
<1>7. \A q \in Pollers : CopyShape(q)' /\ AdjusterShape(q)'
  BY <1>1, <1>4, <1>6 DEF IInv, CopyShape, AdjusterShape, Active
<1>8. \A q \in Pollers : pass'[q].pc \notin {"funding", "token", "marker", "restore"}
  BY <1>6 DEF Adjuster, Adjusting
<1>9. FundLedger' /\ ExactLedger' /\ TokenLedger'
  BY <1>1, <1>3, <1>6, <1>8 DEF IInv, FundLedger, ExactLedger, TokenLedger
<1>10. BillShape'
  BY DEF IInv, BillShape, Active
<1> QED
  BY <1>2, <1>5, <1>7, <1>9, <1>10 DEF IInv

-----------------------------------------------------------------------------
(* The submission                                                          *)

(* Before the insert there is nothing for a pass to work on.               *)
LEMMA AbsentQuiet ==
  ASSUME IInv, row.status = "absent"
  PROVE  Quiet /\ \A p \in Pollers : pass[p].pc = "idle"
  BY DEF IInv, CopyShape, Quiet, Adjuster, Adjusting

(* While no pass is at work the invariant is about the row alone.          *)
LEMMA IdleIInvPrime ==
  ASSUME TypeOK', RowShape', (\A p \in Pollers : pass[p].pc = "idle")',
         (Submitted => fund + Pending = row.quota /\ tok + Pending = row.quota)',
         BillShape'
  PROVE  IInv'
<1>1. \A p \in Pollers : CopyShape(p)' /\ AdjusterShape(p)'
  BY DEF CopyShape, AdjusterShape, Adjuster, Adjusting
<1>2. FundLedger' /\ ExactLedger' /\ TokenLedger'
  BY DEF FundLedger, ExactLedger, TokenLedger, TypeOK, RowType
<1> QED
  BY <1>1, <1>2 DEF IInv

LEMMA SubmitIInv == ASSUME IInv, Submit PROVE IInv'
<1>0. TypeOK /\ row.status = "absent" /\ sub = "start" /\ ~kind.legacy
  BY DEF IInv, RowShape, Submit
<1>1. \A p \in Pollers : pass[p].pc = "idle"
  BY <1>0, AbsentQuiet
<1>2. (\A p \in Pollers : pass[p].pc = "idle")'
  BY <1>1 DEF Submit
<1>3. sub' \in {"insert", "rejected"} /\ ~Submitted'
  BY DEF Submit, Submitted
<1>4. BillShape'
  BY <1>0 DEF Submit, BillShape, Active
<1>a. ASSUME NEW q \in Quotas \cup {0}, NEW h \in Quotas \cup {0},
             due' = q, pre' = h, fund' = h, tok' = h, sub' = "insert"
      PROVE  IInv'
  <2>1. TypeOK'
    BY <1>0, <1>a DEF TypeOK, Submit, SubStates, fetchVars
  <2>2. RowShape'
    BY <1>0, <1>a DEF RowShape, Submit, Active
  <2> QED
    BY <1>2, <1>3, <1>4, <2>1, <2>2, IdleIInvPrime
<1>b. ASSUME sub' = "rejected", UNCHANGED <<due, pre, fund, tok>>
      PROVE  IInv'
  <2>1. TypeOK'
    BY <1>0, <1>b DEF TypeOK, Submit, SubStates, fetchVars
  <2>2. RowShape'
    BY <1>0, <1>b DEF RowShape, Submit, Active
  <2> QED
    BY <1>2, <1>3, <1>4, <2>1, <2>2, IdleIInvPrime
<1> QED
  BY <1>a, <1>b DEF Submit

LEMMA InsertIInv == ASSUME IInv, Insert PROVE IInv'
<1>0. TypeOK /\ row.status = "absent" /\ sub = "insert" /\ ~kind.legacy /\ fund = pre /\ tok = pre
  BY DEF IInv, RowShape, Insert
<1>1. \A p \in Pollers : pass[p].pc = "idle"
  BY <1>0, AbsentQuiet
<1>2. (\A p \in Pollers : pass[p].pc = "idle")'
  BY <1>1 DEF Insert
<1>a. ASSUME NEW st \in Active \cup Terminal, NEW full \in Progress(st),
             st = "FAILURE" => due = 0,
             row' = [status |-> st, quota |-> due, fails |-> 0, full |-> full],
             bill' = due, fresh' = TRUE, sub' = "settle", UNCHANGED <<fund, tok>>
      PROVE  IInv'
  <2>a. due \in Nat /\ pre \in Nat /\ due' = due /\ pre' = pre
    BY <1>0 DEF TypeOK, Insert
  <2>b. full \in BOOLEAN
    BY DEF Progress
  <2>0. row' \in RowType /\ row'.status = st /\ row'.quota = due
    BY <1>a, <2>a, <2>b DEF RowType
  <2>1. TypeOK'
    BY <1>0, <1>a, <2>a, <2>0 DEF TypeOK, Insert, SubStates, fetchVars
  <2>2. RowShape'
    BY <1>0, <1>a, <2>0 DEF RowShape, Insert, Active, Terminal
  <2>3. (fund + Pending = row.quota /\ tok + Pending = row.quota)'
    BY <1>0, <1>a, <2>a, <2>0 DEF Pending
  <2>4. Quiet' /\ \A p \in Pollers : ~Adjuster(p)'
    BY <1>2 DEF Quiet, Adjuster, Adjusting
  <2>5. BillShape'
    BY <1>a, <2>0, <2>4 DEF BillShape, Active, Terminal, Insert
  <2> QED
    BY <1>2, <2>1, <2>2, <2>3, <2>5, IdleIInvPrime
<1>b. ASSUME sub' = "rejected", fund' = 0, tok' = 0, UNCHANGED <<row, fresh, bill>>
      PROVE  IInv'
  <2>1. TypeOK'
    BY <1>0, <1>b DEF TypeOK, Insert, SubStates, fetchVars
  <2>2. RowShape'
    BY <1>0, <1>b DEF RowShape, Insert, Active
  <2>3. BillShape' /\ ~Submitted'
    BY <1>0, <1>b DEF BillShape, Submitted, Active
  <2> QED
    BY <1>2, <2>1, <2>2, <2>3, IdleIInvPrime
<1> QED
  BY <1>a, <1>b DEF Insert

LEMMA SettleIInv == ASSUME IInv, Settle PROVE IInv'
<1>0. /\ TypeOK /\ ~kind.legacy /\ sub = "settle" /\ row.status # "absent"
      /\ due \in Nat /\ pre \in Nat /\ fund \in Int /\ tok \in Int
  BY DEF IInv, RowShape, Settle, TypeOK
<1>1. sub' \in {"done", "unsettled"} /\ fund' \in Int /\ tok' \in Int
      /\ (lost' = lost \/ lost' = lost \cup {"token"}) /\ lost \subseteq OpNames \cup Accidents
  BY <1>0 DEF Settle, TypeOK
<1>1a. lost' \subseteq OpNames \cup Accidents
  BY <1>1 DEF OpNames
<1>2. TypeOK'
  BY <1>0, <1>1, <1>1a DEF TypeOK, Settle, SubStates, fetchVars
<1>3. RowShape'
  BY <1>0, <1>1 DEF IInv, RowShape, Settle
<1>4. UNCHANGED <<kind, row, fresh, due, pass, bill>>
  BY DEF Settle
<1>5. /\ \A p \in Pollers : Adjuster(p)' = Adjuster(p)
      /\ Quiet' = Quiet
  BY <1>4 DEF Adjuster, Quiet
<1>6. \A p \in Pollers : CopyShape(p)' /\ AdjusterShape(p)'
  BY <1>4, <1>5 DEF IInv, CopyShape, AdjusterShape
<1>7. Submitted' => /\ Submitted
                    /\ fund' + Pending' = fund + Pending
                    /\ "token" \notin lost' => tok' + Pending' = tok + Pending
  BY <1>0 DEF Settle, Submitted, Pending
<1>7a. \A x \in {"marker", "restore", "token", "channel"} : x \notin lost' => x \notin lost
  BY <1>1
<1>7b. lost' = {} => lost = {}
  BY <1>1
<1>8. FundLedger' /\ ExactLedger' /\ TokenLedger'
  BY <1>4, <1>5, <1>7, <1>7a DEF IInv, FundLedger, ExactLedger, TokenLedger
<1>9. BillShape'
  BY <1>4, <1>5, <1>7a, <1>7b DEF IInv, BillShape
<1> QED
  BY <1>2, <1>3, <1>6, <1>8, <1>9 DEF IInv

-----------------------------------------------------------------------------
(* The reads of a pass, and the steps that only abandon a copy             *)

LEMMA LeaveIInv ==
  ASSUME IInv, NEW p \in Pollers, NEW l \in {"idle", "recon", "poll"}, Leave(p, l),
         ~Adjuster(p), row.status # "absent",
         UNCHANGED <<kind, row, fresh, overdue, sub, due, pre, fetch, fetches, crashes,
                     fund, tok, bill, lost>>
  PROVE  IInv'
<1> DEFINE x == [IdlePass EXCEPT !.pc = l]
<1>1. x \in PassType /\ x.pc = l
  BY LeaveForm DEF IInv
<1>2. pass' = [pass EXCEPT ![p] = x]
  BY DEF Leave
<1>c. crashes' \in 0..MaxCrashes
  BY DEF IInv, TypeOK
<1> HIDE DEF x
<1> QED
  BY <1>1, <1>2, <1>c, MoveIInv DEF Adjusting

LEMMA StepIInv ==
  ASSUME IInv, NEW p \in Pollers, NEW l \in {"idle", "sweep", "recon", "poll"}, Step(p, l),
         ~Adjuster(p), row.status # "absent",
         UNCHANGED <<kind, row, fresh, overdue, sub, due, pre, fetch, fetches, crashes,
                     fund, tok, bill, lost>>
  PROVE  IInv'
<1> DEFINE x == [pass[p] EXCEPT !.pc = l]
<1>1. x \in PassType /\ x.pc = l
  BY DEF IInv, TypeOK, PassType
<1>2. pass' = [pass EXCEPT ![p] = x]
  BY StepForm DEF IInv
<1>c. crashes' \in 0..MaxCrashes
  BY DEF IInv, TypeOK
<1> HIDE DEF x
<1> QED
  BY <1>1, <1>2, <1>c, MoveIInv DEF Adjusting

LEMMA ReadIInv ==
  ASSUME IInv, NEW p \in Pollers, NEW l \in {"timeout", "claim", "fetched"},
         pass' = [pass EXCEPT ![p].pc = l, ![p].copy = row],
         ~Adjuster(p), l # "claim" => row.status \in Active,
         l = "claim" => Reconcilable,
         UNCHANGED <<kind, row, fresh, overdue, sub, due, pre, fetch, fetches, crashes,
                     fund, tok, bill, lost>>
  PROVE  IInv'
<1> DEFINE x == [pass[p] EXCEPT !.pc = l, !.copy = row]
<1>0. TypeOK
  BY DEF IInv
<1>1. x \in PassType /\ x.pc = l /\ x.copy = row
  BY <1>0 DEF TypeOK, PassType
<1>2. pass' = [pass EXCEPT ![p] = x]
  BY <1>0 DEF TypeOK, PassType
<1>3. row.status # "absent"
  BY DEF Reconcilable, RefundPending, Active
<1>4. row.status \in Active => row.quota = due
  BY DEF IInv, RowShape
<1>5. l = "claim" => /\ row.status = "FAILURE" /\ row.quota # 0 /\ ~kind.legacy
                     /\ \A q \in Pollers : Adjuster(q) => pass[q].phase = "recon"
  BY DEF Reconcilable, RefundPending, IInv, AdjusterShape
<1>c. crashes' \in 0..MaxCrashes
  BY DEF IInv, TypeOK
<1> HIDE DEF x
<1> QED
  BY <1>1, <1>2, <1>3, <1>4, <1>5, <1>c, MoveIInv DEF Adjusting

LEMMA ReadsIInv ==
  ASSUME IInv, NEW p \in Pollers,
         StartPass(p) \/ SweepRead(p) \/ ReconcileRead(p) \/ PollRead(p)
  PROVE  IInv'
<1>2. ~Adjuster(p)
  BY DEF Adjuster, Adjusting, StartPass, SweepRead, ReconcileRead, PollRead
<1>3. row.status # "absent"
  BY DEF IInv, CopyShape, StartPass, SweepRead, ReconcileRead, PollRead,
         PollingWork, Unfinished, RefundPending, Active
<1>4. UNCHANGED <<kind, row, fresh, overdue, sub, due, pre, fetch, fetches, crashes,
                  fund, tok, bill, lost>>
  BY DEF StartPass, SweepRead, ReconcileRead, PollRead, subVars, fetchVars, history
<1>a. CASE StartPass(p)
  BY <1>2, <1>3, <1>4, <1>a, StepIInv DEF StartPass
<1>b. CASE SweepRead(p)
  <2>1. CASE TimeoutSweep /\ Unfinished(row) /\ overdue
    <3>1. pass' = [pass EXCEPT ![p].pc = "timeout", ![p].copy = row]
      BY <1>b, <2>1 DEF SweepRead
    <3> QED
      BY <1>2, <1>4, <2>1, <3>1, ReadIInv DEF Unfinished
  <2>2. CASE ~(TimeoutSweep /\ Unfinished(row) /\ overdue)
    BY <1>2, <1>3, <1>4, <1>b, <2>2, StepIInv DEF SweepRead, Step
  <2> QED
    BY <2>1, <2>2
<1>c. CASE ReconcileRead(p)
  <2>1. CASE Reconcilable
    <3>1. pass' = [pass EXCEPT ![p].pc = "claim", ![p].copy = row]
      BY <1>c, <2>1 DEF ReconcileRead
    <3> QED
      BY <1>2, <1>4, <2>1, <3>1, ReadIInv
  <2>2. CASE ~Reconcilable
    BY <1>2, <1>3, <1>4, <1>c, <2>2, StepIInv DEF ReconcileRead, Step
  <2> QED
    BY <2>1, <2>2
<1>d. CASE PollRead(p)
  <2>1. CASE Unfinished(row)
    <3>1. pass' = [pass EXCEPT ![p].pc = "fetched", ![p].copy = row]
      BY <1>d, <2>1 DEF PollRead
    <3> QED
      BY <1>2, <1>4, <2>1, <3>1, ReadIInv DEF Unfinished
  <2>2. CASE ~Unfinished(row)
    BY <1>2, <1>3, <1>4, <1>d, <2>2, StepIInv DEF PollRead, Step
  <2> QED
    BY <2>1, <2>2
<1> QED
  BY <1>a, <1>b, <1>c, <1>d

-----------------------------------------------------------------------------
(* The steps that end the task or write it back                            *)

LEMMA SweepTimedOutIInv ==
  ASSUME IInv, NEW p \in Pollers, SweepTimedOut(p) PROVE IInv'
<1> DEFINE c == pass[p].copy
<1>0. TypeOK /\ c \in RowType /\ c.status \in Active /\ c.quota = due /\ row.status # "absent"
  BY DEF IInv, TypeOK, PassType, CopyShape, SweepTimedOut
<1>1. ~Adjuster(p)
  BY DEF SweepTimedOut, Adjuster, Adjusting
<1>2. UNCHANGED <<kind, overdue, sub, due, pre, fetch, fetches, crashes, fund, tok, lost>>
  BY DEF SweepTimedOut, subVars, fetchVars
<1>a. ASSUME row.status = c.status, Write(TimedOut(c)), AdjustTo(p, TimedOut(c), "sweep", 0),
             bill' = IF kind.legacy THEN bill ELSE 0
      PROVE  IInv'
  <2> DEFINE r == TimedOut(c)
  <2>1. /\ r \in RowType /\ r.status = "FAILURE"
        /\ r.quota = due \/ (kind.legacy /\ r.quota = 0)
    BY <1>0 DEF TimedOut, RowType, Terminal, TypeOK
  <2>2. row' = r /\ fresh' = TRUE
    BY <1>a DEF Write
  <2>3. bill' \in Nat /\ (~kind.legacy => bill' = 0)
    BY <1>0, <1>a DEF TypeOK
  <2>4. AdjustTo(p, r, "sweep", 0) /\ row.status \in Active
    BY <1>0, <1>a
  <2> HIDE DEF r
  <2> QED
    BY <1>2, <2>1, <2>2, <2>3, <2>4, EndIInv DEF Terminal
<1>b. ASSUME Leave(p, "recon"), UNCHANGED <<row, fresh, bill>> PROVE IInv'
  BY <1>0, <1>1, <1>2, <1>b, LeaveIInv
<1> QED
  BY <1>a, <1>b DEF SweepTimedOut, StatusIs

LEMMA PollTerminalIInv ==
  ASSUME IInv, NEW p \in Pollers, PollTerminal(p) PROVE IInv'
<1> DEFINE c == pass[p].copy
<1>0. TypeOK /\ c \in RowType /\ c.status \in Active /\ c.quota = due /\ row.status # "absent"
  BY DEF IInv, TypeOK, PassType, CopyShape, PollTerminal
<1>1. ~Adjuster(p)
  BY DEF PollTerminal, Adjuster, Adjusting
<1>2. UNCHANGED <<kind, overdue, sub, due, pre, fetch, fetches, crashes, fund, tok, lost>>
  BY DEF PollTerminal, subVars, fetchVars
<1>a. ASSUME NEW st \in Terminal, NEW u \in Usages(st), row.status = c.status,
             Write(Finished(c, st)), AdjustTo(p, Finished(c, st), "poll", FinalQuota(c, st, u)),
             bill' = Owed(st, u)
      PROVE  IInv'
  <2> DEFINE r == Finished(c, st)
             t == FinalQuota(c, st, u)
  <2>1. r \in RowType /\ r.status = st /\ r.quota = due /\ due \in Nat
    BY <1>0 DEF Finished, RowType, Terminal, TypeOK
  <2>2. row' = r /\ fresh' = TRUE
    BY <1>a DEF Write
  <2>3. u \in Quotas \cup {-1} /\ (Calm /\ st = "FAILURE" => u = -1)
    BY <1>a DEF Usages, Calm, Terminal
  <2>4. u \in Int /\ (u >= 0 => u \in Nat)
    BY <2>3
  <2>5. t \in Nat /\ Owed(st, u) \in Nat
    BY <1>0, <2>1, <2>4 DEF FinalQuota, Owed, RowType
  <2>6. Calm => Owed(st, u) = IF st = "FAILURE" THEN 0 ELSE t
    <3>1. CASE st = "SUCCESS"
      BY <1>0, <2>3, <2>4, <3>1 DEF FinalQuota, Owed, KindType, TypeOK
    <3>2. CASE st = "FAILURE"
      BY <2>3, <3>2 DEF Owed
    <3> QED
      BY <3>1, <3>2 DEF Terminal
  <2>7. AdjustTo(p, r, "poll", t) /\ row.status \in Active
    BY <1>0, <1>a
  <2> HIDE DEF r, t
  <2> QED
    BY <1>2, <1>a, <2>1, <2>2, <2>5, <2>6, <2>7, EndIInv
<1>b. ASSUME Leave(p, "idle"), UNCHANGED <<row, fresh, bill>> PROVE IInv'
  BY <1>0, <1>1, <1>2, <1>b, LeaveIInv
<1> QED
  BY <1>a, <1>b DEF PollTerminal, StatusIs

LEMMA PollProgressIInv ==
  ASSUME IInv, NEW p \in Pollers, PollProgress(p) PROVE IInv'
<1> DEFINE c == pass[p].copy
<1>0. TypeOK /\ c \in RowType /\ c.status \in Active /\ c.quota = due /\ row.status # "absent"
  BY DEF IInv, TypeOK, PassType, CopyShape, PollProgress
<1>1. ~Adjuster(p) /\ Leave(p, "idle")
  BY DEF PollProgress, Adjuster, Adjusting
<1>2. UNCHANGED <<kind, overdue, sub, due, pre, fetch, fetches, crashes, fund, tok, bill, lost>>
  BY DEF PollProgress, subVars, fetchVars, history
<1>a. ASSUME NEW st \in Active, NEW full \in Progress(st), StatusIs(c.status),
             Write([c EXCEPT !.status = st, !.fails = 0, !.full = full])
      PROVE  IInv'
  <2> DEFINE r == [c EXCEPT !.status = st, !.fails = 0, !.full = full]
  <2>1. full \in BOOLEAN
    BY DEF Progress
  <2>2. r \in RowType /\ r.status \in Active /\ r.quota = due
    BY <1>0, <2>1 DEF RowType
  <2>3. row' = r /\ fresh' = TRUE /\ row.status \in Active
    BY <1>0, <1>a DEF Write, StatusIs
  <2> HIDE DEF r
  <2> QED
    BY <1>1, <1>2, <2>2, <2>3, WriteBackIInv
<1>b. ASSUME UNCHANGED <<row, fresh>> PROVE IInv'
  BY <1>0, <1>1, <1>2, <1>b, LeaveIInv
<1> QED
  BY <1>a, <1>b DEF PollProgress

LEMMA PollFailureIInv ==
  ASSUME IInv, NEW p \in Pollers, PollFailure(p) PROVE IInv'
<1> DEFINE c == pass[p].copy
           r == [c EXCEPT !.fails = @ + 1]
           d == Finished(r, "FAILURE")
<1>0. TypeOK /\ c \in RowType /\ c.status \in Active /\ c.quota = due /\ row.status # "absent"
  BY DEF IInv, TypeOK, PassType, CopyShape, PollFailure
<1>1. ~Adjuster(p)
  BY DEF PollFailure, Adjuster, Adjusting
<1>2. UNCHANGED <<kind, overdue, sub, due, pre, fetch, fetches, crashes, fund, tok, lost>>
  BY DEF PollFailure, subVars, fetchVars
<1>3. r \in RowType /\ r.status = c.status /\ r.quota = due
  BY <1>0 DEF RowType
<1>4. d \in RowType /\ d.status = "FAILURE" /\ d.quota = due
  BY <1>3 DEF Finished, RowType, Terminal
<1>5. \/ row.status = r.status /\ Write(d) /\ AdjustTo(p, d, "poll", 0) /\ bill' = 0
      \/ row.status = r.status /\ Write(r) /\ Leave(p, "idle") /\ UNCHANGED bill
      \/ Leave(p, "idle") /\ UNCHANGED <<row, fresh, bill>>
  BY DEF PollFailure, StatusIs
<1> HIDE DEF r, d
<1>a. CASE row.status = r.status /\ Write(d) /\ AdjustTo(p, d, "poll", 0) /\ bill' = 0
  BY <1>0, <1>2, <1>3, <1>4, <1>a, EndIInv DEF Write, Terminal
<1>b. CASE row.status = r.status /\ Write(r) /\ Leave(p, "idle") /\ UNCHANGED bill
  BY <1>0, <1>2, <1>3, <1>b, WriteBackIInv DEF Write
<1>c. CASE Leave(p, "idle") /\ UNCHANGED <<row, fresh, bill>>
  BY <1>0, <1>1, <1>2, <1>c, LeaveIInv
<1> QED
  BY <1>5, <1>a, <1>b, <1>c

(* TaskBulkUpdateByID touches the status alone, so the ledgers survive it. *)
LEMMA PollChannelLostIInv ==
  ASSUME IInv, NEW p \in Pollers, PollChannelLost(p) PROVE IInv'
<1>0. TypeOK /\ row.status # "absent" /\ pass[p].pc = "fetched"
  BY DEF IInv, CopyShape, PollChannelLost
<1>1. UNCHANGED <<kind, overdue, sub, due, pre, fetch, fetches, crashes, fund, tok>>
  BY DEF PollChannelLost, subVars, fetchVars
<1>2. /\ pass' \in [Pollers -> PassType] /\ pass'[p].pc = "idle"
      /\ \A q \in Pollers : q # p => pass'[q] = pass[q]
  BY <1>0, LeaveForm DEF PollChannelLost
<1>3. row' \in RowType /\ row'.status = "FAILURE" /\ row'.quota = row.quota /\ fresh' = TRUE
  BY <1>0 DEF PollChannelLost, Write, Finished, RowType, TypeOK, Terminal
<1>4. /\ bill' = IF row.status \in Terminal THEN bill ELSE 0
      /\ lost' = IF row.status \in Terminal THEN lost \cup {"channel"} ELSE lost
      /\ bill' \in Nat /\ lost' \subseteq OpNames \cup Accidents
  BY <1>0 DEF PollChannelLost, TypeOK, Accidents
<1>4a. \A x \in {"marker", "restore", "token"} : x \notin lost' => x \notin lost
  BY <1>4
<1>5. TypeOK'
  BY <1>0, <1>1, <1>2, <1>3, <1>4 DEF TypeOK
<1>6. RowShape'
  BY <1>0, <1>1, <1>3 DEF IInv, RowShape, Active
<1>7. /\ ~Adjuster(p) /\ \A q \in Pollers : Adjuster(q)' = Adjuster(q)
      /\ Quiet' = Quiet
      /\ \A q \in Pollers : pass'[q].pc \in {"funding", "token", "marker", "restore"} => pass'[q] = pass[q]
  BY <1>0, <1>2 DEF Quiet, Adjuster, Adjusting
<1>8. \A q \in Pollers : CopyShape(q)'
  BY <1>0, <1>1, <1>2, <1>3, <1>7 DEF IInv, CopyShape
<1>9. \A q \in Pollers : AdjusterShape(q)'
  BY <1>0, <1>1, <1>2, <1>3, <1>7 DEF IInv, AdjusterShape, Terminal
<1>10. FundLedger' /\ ExactLedger' /\ TokenLedger'
  BY <1>1, <1>3, <1>4a, <1>7 DEF IInv, FundLedger, ExactLedger, TokenLedger, Submitted, Pending
<1>11. BillShape'
  <2>1. CASE row.status \in Terminal
    BY <1>4, <2>1 DEF BillShape
  <2>2. CASE row.status \notin Terminal
    BY <1>3, <1>4, <2>2 DEF BillShape, Active
  <2> QED
    BY <2>1, <2>2
<1> QED
  BY <1>5, <1>6, <1>8, <1>9, <1>10, <1>11 DEF IInv

-----------------------------------------------------------------------------
(* The reconciliation and the adjustment                                   *)

LEMMA ClaimQuotaIInv ==
  ASSUME IInv, NEW p \in Pollers, ClaimQuota(p) PROVE IInv'
<1> DEFINE c == pass[p].copy
<1>0. /\ TypeOK /\ c \in RowType /\ row \in RowType /\ row.status = "FAILURE"
      /\ c.quota # 0 /\ ~kind.legacy /\ ~Adjuster(p)
      /\ \A q \in Pollers : Adjuster(q) => pass[q].phase = "recon"
  BY DEF IInv, TypeOK, PassType, CopyShape, ClaimQuota, Adjuster, Adjusting
<1>1. UNCHANGED <<kind, overdue, sub, due, pre, fetch, fetches, crashes, fund, tok, bill, lost>>
  BY DEF ClaimQuota, subVars, fetchVars, history
<1>a. ASSUME row.quota = c.quota, Write([row EXCEPT !.quota = 0]), AdjustTo(p, c, "recon", 0)
      PROVE  IInv'
  <2>1. Quiet /\ \A q \in Pollers : ~Adjuster(q)
    BY <1>0, <1>a DEF IInv, AdjusterShape, Quiet
  <2>2. /\ row' \in RowType /\ row'.status = "FAILURE" /\ row'.quota = 0 /\ fresh' = TRUE
    BY <1>0, <1>a DEF Write, RowType
  <2> DEFINE x == [pc |-> "funding", phase |-> "recon", copy |-> c, target |-> 0]
  <2>3. x \in PassType /\ pass' = [pass EXCEPT ![p] = x]
    BY <1>0, <1>a DEF AdjustTo, PassType, Adjusting
  <2>4. /\ pass' \in [Pollers -> PassType] /\ pass'[p] = x
        /\ \A q \in Pollers : q # p => pass'[q] = pass[q]
    BY <1>0, <2>3 DEF TypeOK
  <2>5. TypeOK'
    BY <1>0, <1>1, <2>2, <2>4 DEF TypeOK
  <2>6. RowShape'
    BY <1>0, <1>1, <2>2 DEF IInv, RowShape, Active
  <2>7. ~Quiet' /\ \A q \in Pollers : Adjuster(q)' <=> q = p
    BY <2>1, <2>4 DEF Quiet, Adjuster, Adjusting
  <2>8. \A q \in Pollers : CopyShape(q)' /\ AdjusterShape(q)'
    BY <1>0, <1>1, <2>2, <2>4, <2>7 DEF IInv, CopyShape, AdjusterShape, Terminal
  <2>9. \A q \in Pollers : q # p => pass'[q].pc \notin {"funding", "token", "marker", "restore"}
    BY <2>7 DEF Adjuster, Adjusting
  <2>10. FundLedger' /\ ExactLedger' /\ TokenLedger'
    BY <1>a, <1>1, <2>1, <2>4, <2>7, <2>9
       DEF IInv, FundLedger, ExactLedger, TokenLedger, Submitted, Pending
  <2>11. BillShape'
    BY <1>0, <1>1, <2>2 DEF IInv, BillShape, Active
  <2> QED
    BY <2>5, <2>6, <2>8, <2>10, <2>11 DEF IInv
<1>b. ASSUME Leave(p, "poll"), UNCHANGED <<row, fresh>> PROVE IInv'
  BY <1>0, <1>1, <1>b, LeaveIInv
<1> QED
  BY <1>a, <1>b DEF ClaimQuota, ClaimHolds

(* An adjustment that is over leaves the ledgers balanced.                 *)
LEMMA AdjustedIInv ==
  ASSUME IInv, NEW p \in Pollers, NEW l \in {"idle", "recon", "poll"}, Adjuster(p), Leave(p, l),
         NEW r \in RowType, row' = r, r.status = row.status,
         fresh' \in BOOLEAN, lost' \subseteq OpNames \cup Accidents, lost \subseteq lost',
         UNCHANGED <<kind, overdue, sub, due, pre, fetch, fetches, crashes, fund, tok, bill>>,
         Submitted /\ "marker" \notin lost' => fund + Pending >= r.quota,
         Submitted /\ ~kind.legacy /\ lost' \cap {"marker", "restore"} = {} => fund + Pending = r.quota,
         Submitted /\ ~kind.legacy /\ lost' \cap {"marker", "restore", "token"} = {} => tok + Pending = r.quota,
         Calm /\ ~kind.legacy /\ row.status = "SUCCESS" /\ lost' = {} => r.quota = bill
  PROVE  IInv'
<1>0. TypeOK /\ row.status \in Terminal /\ \A q \in Pollers : Adjuster(q) => q = p
  BY DEF IInv, AdjusterShape
<1>1. /\ pass' \in [Pollers -> PassType] /\ pass'[p].pc = l
      /\ \A q \in Pollers : q # p => pass'[q] = pass[q]
  BY <1>0, LeaveForm
<1>2. TypeOK'
  BY <1>0, <1>1 DEF TypeOK
<1>3. RowShape'
  BY <1>0 DEF IInv, RowShape, Active, Terminal
<1>4. Quiet' /\ \A q \in Pollers : ~Adjuster(q)'
  BY <1>0, <1>1 DEF Quiet, Adjuster, Adjusting
<1>5. \A q \in Pollers : CopyShape(q)' /\ AdjusterShape(q)'
  BY <1>0, <1>1, <1>4 DEF IInv, CopyShape, AdjusterShape, Terminal
<1>6. \A q \in Pollers : pass'[q].pc \notin {"funding", "token", "marker", "restore"}
  BY <1>4 DEF Adjuster, Adjusting
<1>7. Submitted' = Submitted /\ Pending' = Pending
  BY DEF Submitted, Pending
<1>8. FundLedger' /\ ExactLedger' /\ TokenLedger'
  BY <1>4, <1>6, <1>7 DEF FundLedger, ExactLedger, TokenLedger
<1>9. BillShape'
  BY <1>0, <1>4 DEF IInv, BillShape, Active, Terminal
<1> QED
  BY <1>2, <1>3, <1>5, <1>8, <1>9 DEF IInv

LEMMA RestoreQuotaIInv ==
  ASSUME IInv, NEW p \in Pollers, RestoreQuota(p) PROVE IInv'
<1> DEFINE c == pass[p].copy
<1>0. /\ TypeOK /\ c \in RowType /\ row \in RowType /\ Adjuster(p)
      /\ fund \in Int /\ tok \in Int /\ Pending \in Int /\ lost \subseteq OpNames \cup Accidents
  BY DEF IInv, TypeOK, PassType, RestoreQuota, Adjuster, Adjusting, Pending
<1>1. row.status = "FAILURE" /\ row.quota = 0 /\ ~kind.legacy
  BY <1>0 DEF IInv, AdjusterShape, RestoreQuota
<1>2. UNCHANGED <<kind, overdue, sub, due, pre, fetch, fetches, crashes, fund, tok, bill>>
  BY DEF RestoreQuota, subVars, fetchVars
<1>3. /\ Submitted /\ "marker" \notin lost => fund + Pending >= c.quota
      /\ Submitted /\ lost \cap {"marker", "restore"} = {} => fund + Pending = c.quota
      /\ Submitted /\ lost \cap {"marker", "restore", "token"} = {} => tok + Pending = c.quota
  BY <1>1 DEF IInv, FundLedger, ExactLedger, TokenLedger, RestoreQuota
<1>4. Leave(p, "poll")
  BY DEF RestoreQuota
<1>a. ASSUME Write([row EXCEPT !.quota = c.quota]), UNCHANGED lost PROVE IInv'
  <2> DEFINE r == [row EXCEPT !.quota = c.quota]
  <2>1. r \in RowType /\ r.status = row.status /\ r.quota = c.quota
    BY <1>0 DEF RowType
  <2>2. row' = r /\ fresh' = TRUE
    BY <1>a DEF Write
  <2> HIDE DEF r
  <2> QED
    BY <1>0, <1>1, <1>2, <1>3, <1>4, <1>a, <2>1, <2>2, AdjustedIInv
<1>b. ASSUME lost' = lost \cup {"restore"}, UNCHANGED <<row, fresh>> PROVE IInv'
  <2>1. lost' \subseteq OpNames \cup Accidents /\ lost \subseteq lost' /\ lost' # {}
        /\ lost' \cap {"marker", "restore"} # {} /\ lost' \cap {"marker", "restore", "token"} # {}
    BY <1>0, <1>b DEF OpNames
  <2>2. fresh' \in BOOLEAN /\ row' = row
    BY <1>0, <1>b DEF TypeOK
  <2>3. Submitted /\ "marker" \notin lost' => fund + Pending >= row.quota
    BY <1>0, <1>1, <1>3, <2>1 DEF RowType
  <2> QED
    BY <1>0, <1>1, <1>2, <1>4, <2>1, <2>2, <2>3, AdjustedIInv
<1> QED
  BY <1>a, <1>b DEF RestoreQuota

(* An adjustment that goes on keeps its amounts in step with its position. *)
LEMMA AdjustingIInv ==
  ASSUME IInv, NEW p \in Pollers, NEW l \in {"token", "marker", "restore"}, Adjuster(p), Step(p, l),
         l = "restore" => pass[p].phase = "recon",
         fund' \in Int, tok' \in Int, lost' \subseteq OpNames \cup Accidents, lost \subseteq lost',
         UNCHANGED <<kind, row, fresh, overdue, sub, due, pre, fetch, fetches, crashes, bill>>,
         Submitted /\ "marker" \notin lost' =>
           fund' + Pending >= IF l = "restore" THEN pass[p].copy.quota ELSE pass[p].target,
         Submitted /\ ~kind.legacy /\ lost' \cap {"marker", "restore"} = {} =>
           fund' + Pending = IF l = "restore" THEN pass[p].copy.quota ELSE pass[p].target,
         Submitted /\ ~kind.legacy /\ lost' \cap {"marker", "restore", "token"} = {} =>
           tok' + Pending = IF l = "marker" THEN pass[p].target ELSE pass[p].copy.quota
  PROVE  IInv'
<1>0. TypeOK /\ row.status \in Terminal /\ \A q \in Pollers : Adjuster(q) => q = p
  BY DEF IInv, AdjusterShape
<1>1. /\ pass' = [pass EXCEPT ![p] = [pass[p] EXCEPT !.pc = l]]
      /\ pass'[p].pc = l /\ pass'[p].phase = pass[p].phase
      /\ pass'[p].copy = pass[p].copy /\ pass'[p].target = pass[p].target
      /\ \A q \in Pollers : q # p => pass'[q] = pass[q]
  BY <1>0, StepForm
<1>2. TypeOK'
  <2>1. [pass[p] EXCEPT !.pc = l] \in PassType
    BY <1>0 DEF TypeOK, PassType, Adjusting
  <2> QED
    BY <1>0, <1>1, <2>1 DEF TypeOK
<1>3. RowShape'
  BY <1>0 DEF IInv, RowShape, Active, Terminal
<1>4. ~Quiet' /\ \A q \in Pollers : Adjuster(q)' <=> q = p
  BY <1>0, <1>1 DEF Quiet, Adjuster, Adjusting
<1>5. \A q \in Pollers : CopyShape(q)' /\ AdjusterShape(q)'
  BY <1>0, <1>1, <1>4 DEF IInv, CopyShape, AdjusterShape, Terminal
<1>6. \A q \in Pollers : q # p => pass'[q].pc \notin {"funding", "token", "marker", "restore"}
  BY <1>4 DEF Adjuster, Adjusting
<1>7. Submitted' = Submitted /\ Pending' = Pending
  BY DEF Submitted, Pending
<1>8. FundLedger' /\ ExactLedger' /\ TokenLedger'
  BY <1>1, <1>4, <1>6, <1>7 DEF FundLedger, ExactLedger, TokenLedger
<1>9. BillShape'
  BY <1>0, <1>1, <1>4 DEF IInv, BillShape, Active, Terminal
<1> QED
  BY <1>2, <1>3, <1>5, <1>8, <1>9 DEF IInv

LEMMA AdjustFundingIInv ==
  ASSUME IInv, NEW p \in Pollers, AdjustFunding(p) PROVE IInv'
<1> DEFINE c == pass[p].copy
<1>0. /\ TypeOK /\ c \in RowType /\ pass[p].target \in Nat /\ row \in RowType /\ Adjuster(p)
      /\ fund \in Int /\ tok \in Int /\ Pending \in Int /\ lost \subseteq OpNames \cup Accidents
      /\ pass[p].pc = "funding" /\ pass[p].phase \in {"sweep", "recon", "poll"}
  BY DEF IInv, TypeOK, PassType, AdjustFunding, Adjuster, Adjusting, Pending
<1>0a. c.quota \in Nat /\ row.status \in Terminal
  BY <1>0 DEF RowType, IInv, AdjusterShape
<1>1. UNCHANGED <<kind, row, fresh, overdue, sub, due, pre, fetch, fetches, crashes, tok, bill>>
  BY DEF AdjustFunding, subVars, fetchVars
<1>2. /\ Submitted /\ "marker" \notin lost => fund + Pending >= c.quota
      /\ Submitted /\ ~kind.legacy /\ lost \cap {"marker", "restore"} = {} => fund + Pending = c.quota
      /\ Submitted /\ ~kind.legacy /\ lost \cap {"marker", "restore", "token"} = {} => tok + Pending = c.quota
  BY <1>0 DEF IInv, FundLedger, ExactLedger, TokenLedger
<1>a. ASSUME fund' = fund + Delta(p), Step(p, "token"), UNCHANGED lost PROVE IInv'
  <2>1. fund' \in Int /\ fund' + Pending = (fund + Pending) + (pass[p].target - c.quota)
    BY <1>0, <1>0a, <1>a DEF Delta
  <2>2. /\ Submitted /\ "marker" \notin lost => fund' + Pending >= pass[p].target
        /\ Submitted /\ ~kind.legacy /\ lost \cap {"marker", "restore"} = {} => fund' + Pending = pass[p].target
    BY <1>0, <1>0a, <1>2, <2>1
  <2> QED
    BY <1>0, <1>1, <1>2, <1>a, <2>1, <2>2, AdjustingIInv
<1>b. ASSUME IF pass[p].phase = "recon" THEN Step(p, "restore") ELSE Leave(p, After(pass[p].phase)),
             lost' = IF row.status = "SUCCESS" THEN lost \cup {"funding"} ELSE lost,
             UNCHANGED fund
      PROVE  IInv'
  <2>1. /\ lost' \subseteq OpNames \cup Accidents /\ lost \subseteq lost'
        /\ row.status = "SUCCESS" => lost' # {}
        /\ "marker" \in lost' <=> "marker" \in lost
        /\ lost' \cap {"marker", "restore"} = {} => lost \cap {"marker", "restore"} = {}
        /\ lost' \cap {"marker", "restore", "token"} = {} => lost \cap {"marker", "restore", "token"} = {}
    BY <1>0, <1>b DEF OpNames
  <2>2. CASE pass[p].phase = "recon"
    <3>1. Step(p, "restore") /\ fund' \in Int /\ tok' \in Int
      BY <1>0, <1>1, <1>b, <2>2
    <3> QED
      BY <1>0, <1>1, <1>2, <1>b, <2>1, <2>2, <3>1, AdjustingIInv
  <2>3. CASE pass[p].phase # "recon"
    <3>1. Leave(p, After(pass[p].phase)) /\ After(pass[p].phase) \in {"idle", "recon", "poll"}
      BY <1>0, <1>b, <2>3, AfterType
    <3>2. row.quota = c.quota
      BY <1>0, <2>3 DEF IInv, AdjusterShape
    <3>3. fresh' \in BOOLEAN /\ row' = row
      BY <1>0, <1>1 DEF TypeOK
    <3> HIDE DEF c
    <3> QED
      BY <1>0, <1>1, <1>2, <1>b, <2>1, <3>1, <3>2, <3>3, AdjustedIInv
  <2> QED
    BY <2>2, <2>3
<1> QED
  BY <1>a, <1>b DEF AdjustFunding

LEMMA AdjustTokenIInv ==
  ASSUME IInv, NEW p \in Pollers, AdjustToken(p) PROVE IInv'
<1> DEFINE c == pass[p].copy
<1>0. /\ TypeOK /\ c \in RowType /\ pass[p].target \in Nat /\ Adjuster(p) /\ Step(p, "marker")
      /\ fund \in Int /\ tok \in Int /\ Pending \in Int /\ lost \subseteq OpNames \cup Accidents
      /\ pass[p].pc = "token"
  BY DEF IInv, TypeOK, PassType, AdjustToken, Adjuster, Adjusting, Pending
<1>0a. c.quota \in Nat
  BY <1>0 DEF RowType
<1>1. UNCHANGED <<kind, row, fresh, overdue, sub, due, pre, fetch, fetches, crashes, fund, bill>>
  BY DEF AdjustToken, subVars, fetchVars
<1>2. /\ Submitted /\ "marker" \notin lost => fund + Pending >= pass[p].target
      /\ Submitted /\ ~kind.legacy /\ lost \cap {"marker", "restore"} = {} => fund + Pending = pass[p].target
      /\ Submitted /\ ~kind.legacy /\ lost \cap {"marker", "restore", "token"} = {} => tok + Pending = c.quota
  BY <1>0 DEF IInv, FundLedger, ExactLedger, TokenLedger
<1>a. ASSUME tok' = tok + Delta(p), UNCHANGED lost PROVE IInv'
  <2>1. tok' \in Int /\ tok' + Pending = (tok + Pending) + (pass[p].target - c.quota)
    BY <1>0, <1>0a, <1>a DEF Delta
  <2>2. Submitted /\ ~kind.legacy /\ lost \cap {"marker", "restore", "token"} = {} => tok' + Pending = pass[p].target
    BY <1>0, <1>0a, <1>2, <2>1
  <2> QED
    BY <1>0, <1>1, <1>2, <1>a, <2>1, <2>2, AdjustingIInv
<1>b. ASSUME lost' = lost \cup {"token"}, UNCHANGED tok PROVE IInv'
  <2>1. /\ lost' \subseteq OpNames \cup Accidents /\ lost \subseteq lost'
        /\ "marker" \in lost' <=> "marker" \in lost
        /\ lost' \cap {"marker", "restore"} = {} => lost \cap {"marker", "restore"} = {}
        /\ lost' \cap {"marker", "restore", "token"} # {}
    BY <1>0, <1>b DEF OpNames
  <2> QED
    BY <1>0, <1>1, <1>2, <1>b, <2>1, AdjustingIInv
<1> QED
  BY <1>a, <1>b DEF AdjustToken

LEMMA WriteMarkerIInv ==
  ASSUME IInv, NEW p \in Pollers, WriteMarker(p) PROVE IInv'
<1> DEFINE t == pass[p].target
<1>0. /\ TypeOK /\ t \in Nat /\ row \in RowType /\ Adjuster(p)
      /\ fund \in Int /\ tok \in Int /\ Pending \in Int /\ lost \subseteq OpNames \cup Accidents
      /\ pass[p].pc = "marker" /\ pass[p].phase \in {"sweep", "recon", "poll"}
  BY DEF IInv, TypeOK, PassType, WriteMarker, Adjuster, Adjusting, Pending
<1>1. UNCHANGED <<kind, overdue, sub, due, pre, fetch, fetches, crashes, fund, tok, bill>>
  BY DEF WriteMarker, subVars, fetchVars
<1>2. /\ Submitted /\ "marker" \notin lost => fund + Pending >= t
      /\ Submitted /\ ~kind.legacy /\ lost \cap {"marker", "restore"} = {} => fund + Pending = t
      /\ Submitted /\ ~kind.legacy /\ lost \cap {"marker", "restore", "token"} = {} => tok + Pending = t
      /\ Calm /\ ~kind.legacy /\ row.status = "SUCCESS" /\ lost = {} => t = bill
  BY <1>0 DEF IInv, FundLedger, ExactLedger, TokenLedger, BillShape
<1>3. Leave(p, After(pass[p].phase)) /\ After(pass[p].phase) \in {"idle", "recon", "poll"}
  BY <1>0, AfterType DEF WriteMarker
<1>a. ASSUME Write([row EXCEPT !.quota = t]), UNCHANGED lost PROVE IInv'
  <2> DEFINE r == [row EXCEPT !.quota = t]
  <2>1. r \in RowType /\ r.status = row.status /\ r.quota = t
    BY <1>0 DEF RowType
  <2>2. row' = r /\ fresh' = TRUE
    BY <1>a DEF Write
  <2> HIDE DEF r, t
  <2> QED
    BY <1>0, <1>1, <1>2, <1>3, <1>a, <2>1, <2>2, AdjustedIInv
<1>b. ASSUME lost' = lost \cup {"marker"}, UNCHANGED <<row, fresh>> PROVE IInv'
  <2>1. /\ lost' \subseteq OpNames \cup Accidents /\ lost \subseteq lost' /\ lost' # {} /\ "marker" \in lost'
        /\ lost' \cap {"marker", "restore"} # {} /\ lost' \cap {"marker", "restore", "token"} # {}
    BY <1>0, <1>b DEF OpNames
  <2>2. fresh' \in BOOLEAN /\ row' = row
    BY <1>0, <1>b DEF TypeOK
  <2> QED
    BY <1>0, <1>1, <1>3, <2>1, <2>2, AdjustedIInv
<1> QED
  BY <1>a, <1>b DEF WriteMarker, NewMarker

-----------------------------------------------------------------------------
(* Time, and everything together                                           *)

LEMMA TimeIInv ==
  ASSUME IInv, Sound', GraceElapses \/ TimeoutElapses PROVE IInv'
<1>0. lost' = lost
  BY DEF GraceElapses, TimeoutElapses, history, Sound
<1>1. UNCHANGED <<kind, row, sub, due, pre, pass, fetch, fetches, crashes, fund, tok, bill, lost>>
  BY <1>0 DEF GraceElapses, TimeoutElapses, subVars, fetchVars, history
<1>2. fresh' \in BOOLEAN /\ overdue' \in BOOLEAN
  BY DEF GraceElapses, TimeoutElapses, IInv, TypeOK
<1>3. fresh' = fresh \/ \A p \in Pollers : ~Adjuster(p)
  BY DEF GraceElapses, TimeoutElapses, Sound
<1>4. TypeOK'
  BY <1>1, <1>2 DEF IInv, TypeOK
<1>5. (\A p \in Pollers : Adjuster(p)' = Adjuster(p)) /\ Quiet' = Quiet
  BY <1>1 DEF Adjuster, Quiet
<1>6. RowShape' /\ \A p \in Pollers : CopyShape(p)'
  BY <1>1, <1>5 DEF IInv, RowShape, CopyShape
<1>7. \A p \in Pollers : AdjusterShape(p)'
  BY <1>1, <1>3, <1>5 DEF IInv, AdjusterShape
<1>8. FundLedger' /\ ExactLedger' /\ TokenLedger' /\ BillShape'
  BY <1>1, <1>5 DEF IInv, FundLedger, ExactLedger, TokenLedger, BillShape, Submitted, Pending
<1> QED
  BY <1>4, <1>6, <1>7, <1>8 DEF IInv

(* A step that touches neither row nor passes nor money; a submission that *)
(* crashed has nothing to account for.                                     *)
LEMMA ElsewhereIInv ==
  ASSUME IInv, TypeOK', sub' # sub => sub' = "crashed" /\ sub \in {"insert", "settle"},
         UNCHANGED <<kind, row, fresh, due, pre, pass, fund, tok, bill, lost>>
  PROVE  IInv'
<1>1. (\A p \in Pollers : Adjuster(p)' = Adjuster(p)) /\ Quiet' = Quiet
  BY DEF Adjuster, Quiet
<1>2. RowShape'
  BY DEF IInv, RowShape
<1>3. \A p \in Pollers : CopyShape(p)' /\ AdjusterShape(p)'
  BY <1>1 DEF IInv, CopyShape, AdjusterShape
<1>4. Submitted' => Submitted /\ Pending' = Pending
  BY DEF Submitted, Pending
<1>5. FundLedger' /\ ExactLedger' /\ TokenLedger' /\ BillShape'
  BY <1>1, <1>4 DEF IInv, FundLedger, ExactLedger, TokenLedger, BillShape
<1> QED
  BY <1>2, <1>3, <1>5 DEF IInv

(* A fetch that does not write its copy back.                              *)
LEMMA FetchIInv ==
  ASSUME IInv, Sound', NEW f \in Fetchers, FetchRead(f) \/ FetchWrite(f)
  PROVE  IInv'
<1>0. /\ fetch \in [Fetchers -> RowType] /\ row \in RowType /\ NoRow \in RowType
      /\ fetches \in 0..MaxFetches
  BY DEF IInv, TypeOK, NoRow, RowType
<1>1. fetch' \in [Fetchers -> RowType] /\ fetches' \in 0..MaxFetches
  <2>1. CASE FetchRead(f)
    BY <1>0, <2>1 DEF FetchRead
  <2>2. CASE FetchWrite(f)
    BY <1>0, <2>2 DEF FetchWrite
  <2> QED
    BY <2>1, <2>2
<1>2. UNCHANGED <<kind, row, fresh, overdue, sub, due, pre, pass, crashes, fund, tok, bill, lost>>
  <2>1. CASE FetchRead(f)
    BY <2>1 DEF FetchRead, subVars, history
  <2>2. CASE FetchWrite(f)
    <3>1. "fetch" \notin lost'
      BY DEF Sound
    <3>2. UNCHANGED <<row, fresh, bill, lost>>
      BY <2>2, <3>1 DEF FetchWrite
    <3> QED
      BY <2>2, <3>2 DEF FetchWrite, subVars
  <2> QED
    BY <2>1, <2>2
<1>3. TypeOK'
  BY <1>1, <1>2 DEF IInv, TypeOK
<1>4. UNCHANGED <<kind, row, fresh, due, pre, pass, fund, tok, bill, lost>>
  BY <1>2
<1>5. ~(sub' # sub)
  BY <1>2
<1> QED
  BY <1>3, <1>4, <1>5, ElsewhereIInv, Zenon

(* A pass that crashes between two adjustments, and a submission that      *)
(* crashes.                                                                *)
LEMMA CrashIInv ==
  ASSUME IInv, Sound', CrashSubmission \/ \E p \in Pollers : CrashPass(p)
  PROVE  IInv'
<1>1. CASE CrashSubmission
  <2>1. UNCHANGED <<kind, row, fresh, overdue, due, pre, pass, fetch, fetches, fund, tok, bill, lost>>
    BY <1>1 DEF CrashSubmission, fetchVars, history
  <2>2. sub' = "crashed" /\ sub \in {"insert", "settle"} /\ crashes' \in 0..MaxCrashes
    BY <1>1 DEF CrashSubmission, IInv, TypeOK
  <2>3. TypeOK'
    BY <2>1, <2>2 DEF IInv, TypeOK, SubStates
  <2> QED
    BY <2>1, <2>2, <2>3, ElsewhereIInv
<1>2. ASSUME NEW p \in Pollers, CrashPass(p) PROVE IInv'
  <2>1. ~Adjuster(p) /\ lost' = lost
    BY <1>2 DEF CrashPass, Sound
  <2>2. UNCHANGED <<kind, row, fresh, overdue, sub, due, pre, fetch, fetches, fund, tok, bill, lost>>
    BY <1>2, <2>1 DEF CrashPass, subVars, fetchVars
  <2>3. crashes' \in 0..MaxCrashes /\ Leave(p, "idle")
    BY <1>2 DEF CrashPass, IInv, TypeOK
  <2> DEFINE x == [IdlePass EXCEPT !.pc = "idle"]
  <2>4. x \in PassType /\ x.pc = "idle"
    BY <2>3, LeaveForm DEF IInv
  <2>5. pass' = [pass EXCEPT ![p] = x]
    BY <2>3 DEF Leave
  <2> HIDE DEF x
  <2> QED
    BY <2>1, <2>2, <2>3, <2>4, <2>5, MoveIInv DEF Adjusting
<1> QED
  BY <1>1, <1>2

(* What went wrong is never forgotten.                                     *)
LEMMA LostGrows == ASSUME [Next]_vars PROVE lost \subseteq lost'
<1>1. CASE Submission \/ CrashSubmission
  BY <1>1 DEF Submission, Submit, Insert, Settle, CrashSubmission, history
<1>2. ASSUME NEW p \in Pollers, PassStep(p) \/ PassCancelled(p) \/ CrashPass(p)
      PROVE  lost \subseteq lost'
  BY <1>2 DEF PassStep, StartPass, SweepRead, SweepTimedOut, ReconcileRead, ClaimQuota,
     RestoreQuota, PollRead, PollTerminal, PollProgress, PollFailure, PollChannelLost,
     AdjustFunding, AdjustToken, WriteMarker, PassCancelled, CrashPass, history
<1>3. ASSUME NEW f \in Fetchers, FetchRead(f) \/ FetchWrite(f) PROVE lost \subseteq lost'
  BY <1>3 DEF FetchRead, FetchWrite, history
<1>4. CASE GraceElapses \/ TimeoutElapses \/ Rest \/ UNCHANGED vars
  BY <1>4 DEF GraceElapses, TimeoutElapses, Rest, vars, history
<1> QED
  BY <1>1, <1>2, <1>3, <1>4 DEF Next

LEMMA NextIInv == ASSUME IInv, Sound', [Next]_vars PROVE IInv'
<1>a. CASE Submission
  BY <1>a, SubmitIInv, InsertIInv, SettleIInv DEF Submission
<1>b. ASSUME NEW p \in Pollers, PassStep(p) \/ PassCancelled(p) PROVE IInv'
  <2>1. CASE PassStep(p)
    BY <2>1, ReadsIInv, SweepTimedOutIInv, ClaimQuotaIInv, RestoreQuotaIInv, PollTerminalIInv,
       PollProgressIInv, PollFailureIInv, PollChannelLostIInv, AdjustFundingIInv, AdjustTokenIInv,
       WriteMarkerIInv DEF PassStep
  <2>2. CASE PassCancelled(p)
    <3>1. Leave(p, "idle") /\ ~Adjuster(p) /\ row.status # "absent"
      BY <2>2 DEF PassCancelled, Adjuster, Adjusting, IInv, CopyShape
    <3>2. UNCHANGED <<kind, row, fresh, overdue, sub, due, pre, fetch, fetches, crashes,
                      fund, tok, bill, lost>>
      BY <2>2 DEF PassCancelled, subVars, fetchVars, history
    <3> QED
      BY <3>1, <3>2, LeaveIInv
  <2> QED
    BY <1>b, <2>1, <2>2
<1>c. CASE GraceElapses \/ TimeoutElapses
  BY <1>c, TimeIInv
<1>d. CASE Rest \/ UNCHANGED vars
  <2>1. UNCHANGED <<kind, row, fresh, overdue, sub, due, pre, pass, fetch, fetches, crashes,
                    fund, tok, bill, lost>>
    BY <1>d DEF Rest, vars
  <2>2. TypeOK'
    BY <2>1 DEF IInv, TypeOK
  <2>3. UNCHANGED <<kind, row, fresh, due, pre, pass, fund, tok, bill, lost>>
    BY <2>1
  <2>4. ~(sub' # sub)
    BY <2>1
  <2> QED
    BY <2>2, <2>3, <2>4, ElsewhereIInv, Zenon
<1> QED
  BY <1>a, <1>b, <1>c, <1>d, CrashIInv, FetchIInv DEF Next

(* IInv holds in every reachable state in which no fetch has overwritten   *)
(* the row and no adjustment was cut off by a crash or outlasted the grace *)
(* period: for any number of overlapping passes, any failing writes and    *)
(* vanishing channels.                                                     *)
THEOREM TaskInvariance == Spec => [](Sound => IInv)
<1>1. Init => (Sound => IInv)
  BY InitIInv
<1>2. (Sound => IInv) /\ [Next]_vars => (Sound => IInv)'
  <2> SUFFICES ASSUME Sound => IInv, [Next]_vars, Sound' PROVE IInv'
    OBVIOUS
  <2>1. Sound
    BY LostGrows DEF Sound
  <2> QED
    BY <2>1, NextIInv
<1> QED
  BY <1>1, <1>2, PTL DEF Spec

(* Between adjustments the quota marker of the row is exactly what the     *)
(* task holds (RefundTaskQuota and RecalculateTaskQuota), also when the    *)
(* channel of a task is deleted and TaskBulkUpdateByID overrides a status. *)
THEOREM MarkerIsTruthful == Spec => []MarkerTruthful
<1>1. (Sound => IInv) => MarkerTruthful
  BY DEF IInv, ExactLedger, TokenLedger, MarkerTruthful
<1> QED
  BY <1>1, TaskInvariance, PTL

(* No interleaving of sweeps, reconciliations, poll results and the        *)
(* submission's settlement refunds more than the task holds.               *)
THEOREM NeverOverRefunded == Spec => []NoOverRefund
<1>1. ASSUME IInv PROVE NoOverRefund
  <2>1. row.quota \in Nat /\ fund + Pending \in Int
    BY <1>1 DEF IInv, TypeOK, RowType, Pending
  <2>2. \A p \in Pollers : pass[p].copy.quota \in Nat /\ pass[p].target \in Nat
    BY <1>1 DEF IInv, TypeOK, PassType, RowType
  <2> QED
    BY <1>1, <2>1, <2>2 DEF IInv, FundLedger, NoOverRefund, Quiet, Adjuster, Adjusting
<1>2. (Sound => IInv) => NoOverRefund
  BY <1>1 DEF NoOverRefund
<1> QED
  BY <1>2, TaskInvariance, PTL

(* The winner of the status CAS finalizes exactly once: a finished task    *)
(* has paid what it owes, if upstream reports usage of successes only.     *)
THEOREM FinishedTasksPaidRight == ASSUME Calm PROVE Spec => []FinalCharge
<1>1. (Sound => IInv) => FinalCharge
  BY DEF Sound, IInv, ExactLedger, BillShape, FinalCharge
<1> QED
  BY <1>1, TaskInvariance, PTL

-----------------------------------------------------------------------------
(* What holds in every deployment: with crashes, realtime fetches, deleted *)
(* channels and refunds slower than the grace period.                      *)

LEMMA AdjustToType ==
  ASSUME TypeOK, NEW p \in Pollers, NEW r \in RowType, NEW ph \in {"sweep", "recon", "poll"},
         NEW t \in Nat, AdjustTo(p, r, ph, t)
  PROVE  pass' \in [Pollers -> PassType]
<1>1. CASE r.quota = t
  <2>1. Leave(p, After(ph)) /\ After(ph) \in {"idle", "recon", "poll"}
    BY <1>1, AfterType DEF AdjustTo
  <2> QED
    BY <2>1, LeaveForm
<1>2. CASE r.quota # t
  <2>1. [pc |-> "funding", phase |-> ph, copy |-> r, target |-> t] \in PassType
    BY DEF PassType, Adjusting
  <2> QED
    BY <1>2, <2>1 DEF AdjustTo, TypeOK
<1> QED
  BY <1>1, <1>2

LEMMA FinalQuotaType ==
  ASSUME NEW r \in RowType, NEW st, NEW u \in Usages(st), TypeOK
  PROVE  FinalQuota(r, st, u) \in Nat /\ Owed(st, u) \in Nat
<1>1. u \in Int /\ (u >= 0 => u \in Nat) /\ r.quota \in Nat /\ due \in Nat
  BY DEF Usages, RowType, TypeOK
<1>2. FinalQuota(r, st, u) \in Nat
  BY <1>1 DEF FinalQuota
<1>3. Owed(st, u) \in Nat
  BY <1>1 DEF Owed
<1> QED
  BY <1>2, <1>3

LEMMA RowTypes ==
  ASSUME NEW r \in RowType
  PROVE  /\ \A st \in Active \cup Terminal : Finished(r, st) \in RowType
         /\ TimedOut(r) \in RowType
         /\ [r EXCEPT !.fails = @ + 1] \in RowType
         /\ \A q \in Nat : [r EXCEPT !.quota = q] \in RowType
         /\ \A st \in Active \cup Terminal, full \in BOOLEAN :
              /\ [r EXCEPT !.status = st, !.fails = 0, !.full = full] \in RowType
              /\ [r EXCEPT !.status = st, !.full = full] \in RowType
<1>1. /\ r.quota \in Nat /\ r.fails \in Nat /\ r.fails + 1 \in Nat
      /\ "FAILURE" \in {"absent"} \cup Active \cup Terminal
  BY DEF RowType, Terminal
<1>2. \A st \in Active \cup Terminal : Finished(r, st) \in RowType
  BY DEF RowType, Finished
<1>3. TimedOut(r) \in RowType
  <2>1. (IF kind.legacy THEN 0 ELSE r.quota) \in Nat
    BY <1>1
  <2> QED
    BY <1>1, <2>1 DEF RowType, TimedOut
<1>4. [r EXCEPT !.fails = @ + 1] \in RowType
  BY <1>1 DEF RowType
<1>5. \A q \in Nat : [r EXCEPT !.quota = q] \in RowType
  BY DEF RowType
<1>6. \A st \in Active \cup Terminal, full \in BOOLEAN :
        /\ [r EXCEPT !.status = st, !.fails = 0, !.full = full] \in RowType
        /\ [r EXCEPT !.status = st, !.full = full] \in RowType
  BY DEF RowType
<1> QED
  BY <1>2, <1>3, <1>4, <1>5, <1>6

LEMMA SubmissionTypes ==
  ASSUME TypeOK, Submission \/ CrashSubmission
  PROVE  TypeOK'
<1>1. CASE Submit
  BY <1>1 DEF Submit, TypeOK, SubStates, fetchVars
<1>2. CASE Insert
  <2>1. \A st \in Active \cup Terminal : \A full \in Progress(st) :
          [status |-> st, quota |-> due, fails |-> 0, full |-> full] \in RowType
    BY DEF RowType, TypeOK, Progress
  <2>2. row' \in RowType /\ fresh' \in BOOLEAN /\ bill' \in Nat
    BY <1>2, <2>1 DEF Insert, TypeOK
  <2>3. sub' \in SubStates /\ fund' \in Int /\ tok' \in Int
    BY <1>2 DEF Insert, TypeOK, SubStates
  <2> QED
    BY <1>2, <2>2, <2>3 DEF Insert, TypeOK, fetchVars
<1>3. CASE Settle
  <2>1. lost' \subseteq OpNames \cup Accidents
    BY <1>3 DEF Settle, TypeOK, OpNames
  <2>2. sub' \in SubStates /\ fund' \in Int /\ tok' \in Int
    BY <1>3 DEF Settle, TypeOK, SubStates
  <2> QED
    BY <1>3, <2>1, <2>2 DEF Settle, TypeOK, fetchVars
<1>4. CASE CrashSubmission
  BY <1>4 DEF CrashSubmission, TypeOK, SubStates, fetchVars, history
<1> QED
  BY <1>1, <1>2, <1>3, <1>4 DEF Submission

(* A step of a pass leaves the row, the pass, the marker of lost writes    *)
(* and the history in their types.                                         *)
LEMMA PassStepTypes ==
  ASSUME TypeOK, NEW p \in Pollers, PassStep(p) \/ PassCancelled(p) \/ CrashPass(p)
  PROVE  TypeOK'
<1> DEFINE c == pass[p].copy
<1>0. /\ pass[p] \in PassType /\ c \in RowType /\ row \in RowType /\ c.quota \in Nat /\ row.quota \in Nat
      /\ pass[p].phase \in {"sweep", "recon", "poll"} /\ pass[p].target \in Nat
      /\ fund \in Int /\ tok \in Int /\ bill \in Nat /\ lost \subseteq OpNames \cup Accidents /\ fresh \in BOOLEAN
      /\ pass \in [Pollers -> PassType]
  BY DEF TypeOK, PassType, RowType
<1>k. kind' = kind /\ overdue' = overdue /\ sub' = sub /\ due' = due /\ pre' = pre
      /\ fetch' = fetch /\ fetches' = fetches /\ crashes' \in 0..MaxCrashes
  <2>1. CASE PassStep(p) \/ PassCancelled(p)
    <3>1. UNCHANGED <<overdue, subVars, fetchVars, crashes>>
      BY <2>1 DEF PassStep, StartPass, SweepRead, SweepTimedOut, ReconcileRead, ClaimQuota,
         RestoreQuota, PollRead, PollTerminal, PollProgress, PollFailure, PollChannelLost,
         AdjustFunding, AdjustToken, WriteMarker, PassCancelled
    <3> QED
      BY <3>1 DEF TypeOK, subVars, fetchVars
  <2>2. CASE CrashPass(p)
    BY <2>2 DEF TypeOK, CrashPass, subVars, fetchVars
  <2> QED
    BY <2>1, <2>2
<1> SUFFICES /\ row' \in RowType /\ fresh' \in BOOLEAN /\ pass' \in [Pollers -> PassType]
             /\ fund' \in Int /\ tok' \in Int /\ bill' \in Nat /\ lost' \subseteq OpNames \cup Accidents
  BY <1>k DEF TypeOK
<1>l. \A l \in {"idle", "recon", "poll"} : Leave(p, l) => pass' \in [Pollers -> PassType]
  BY LeaveForm
<1>s. \A l \in {"sweep", "restore", "token", "marker"} : Step(p, l) => pass' \in [Pollers -> PassType]
  BY <1>0 DEF Step, PassType, Adjusting
<1>1. CASE StartPass(p)
  BY <1>0, <1>1, <1>s DEF StartPass, history
<1>2. CASE SweepRead(p)
  <2>1. pass' \in [Pollers -> PassType]
    BY <1>0, <1>2 DEF SweepRead, PassType
  <2> QED
    BY <1>0, <1>2, <2>1 DEF SweepRead, history
<1>3. CASE SweepTimedOut(p)
  <2>1. CASE Leave(p, "recon") /\ UNCHANGED <<row, fresh, bill>>
    BY <1>0, <1>3, <1>l, <2>1 DEF SweepTimedOut
  <2>2. CASE /\ Write(TimedOut(c)) /\ AdjustTo(p, TimedOut(c), "sweep", 0)
             /\ bill' = IF kind.legacy THEN bill ELSE 0
    <3>1. TimedOut(c) \in RowType
      BY <1>0, RowTypes
    <3>2. pass' \in [Pollers -> PassType]
      BY <2>2, <3>1, AdjustToType
    <3> QED
      BY <1>0, <1>3, <2>2, <3>1, <3>2 DEF SweepTimedOut, Write
  <2> QED
    BY <1>3, <2>1, <2>2 DEF SweepTimedOut
<1>4. CASE ReconcileRead(p)
  <2>1. pass' \in [Pollers -> PassType]
    BY <1>0, <1>4 DEF ReconcileRead, PassType
  <2> QED
    BY <1>0, <1>4, <2>1 DEF ReconcileRead, history
<1>5. CASE ClaimQuota(p)
  <2>1. CASE Leave(p, "poll") /\ UNCHANGED <<row, fresh>>
    BY <1>0, <1>5, <1>l, <2>1 DEF ClaimQuota, history
  <2>2. CASE Write([row EXCEPT !.quota = 0]) /\ AdjustTo(p, c, "recon", 0)
    <3>1. [row EXCEPT !.quota = 0] \in RowType
      BY <1>0, RowTypes
    <3>2. pass' \in [Pollers -> PassType]
      BY <1>0, <2>2, AdjustToType
    <3> QED
      BY <1>0, <1>5, <2>2, <3>1, <3>2 DEF ClaimQuota, Write, history
  <2> QED
    BY <1>5, <2>1, <2>2 DEF ClaimQuota
<1>6. CASE RestoreQuota(p)
  <2>1. [row EXCEPT !.quota = c.quota] \in RowType
    BY <1>0, RowTypes
  <2>2. lost \cup {"restore"} \subseteq OpNames \cup Accidents
    BY <1>0 DEF OpNames
  <2> QED
    BY <1>0, <1>6, <1>l, <2>1, <2>2 DEF RestoreQuota, Write
<1>7. CASE PollRead(p)
  <2>1. pass' \in [Pollers -> PassType]
    BY <1>0, <1>7 DEF PollRead, PassType
  <2> QED
    BY <1>0, <1>7, <2>1 DEF PollRead, history
<1>8. CASE PollTerminal(p)
  <2>1. CASE Leave(p, "idle") /\ UNCHANGED <<row, fresh, bill>>
    BY <1>0, <1>8, <1>l, <2>1 DEF PollTerminal
  <2>2. ASSUME NEW st \in Terminal, NEW u \in Usages(st), Write(Finished(c, st)),
               AdjustTo(p, Finished(c, st), "poll", FinalQuota(c, st, u)), bill' = Owed(st, u)
        PROVE  row' \in RowType /\ fresh' \in BOOLEAN /\ pass' \in [Pollers -> PassType] /\ bill' \in Nat
    <3>1. Finished(c, st) \in RowType
      BY <1>0, RowTypes
    <3>2. FinalQuota(c, st, u) \in Nat /\ Owed(st, u) \in Nat
      BY <1>0, FinalQuotaType
    <3>3. pass' \in [Pollers -> PassType]
      BY <2>2, <3>1, <3>2, AdjustToType
    <3> QED
      BY <2>2, <3>1, <3>2, <3>3 DEF Write
  <2> QED
    BY <1>0, <1>8, <2>1, <2>2 DEF PollTerminal
<1>9. CASE PollProgress(p)
  <2>1. \A st \in Active : \A full \in Progress(st) :
          [c EXCEPT !.status = st, !.fails = 0, !.full = full] \in RowType
    BY <1>0, RowTypes DEF Progress
  <2>2. row' \in RowType /\ fresh' \in BOOLEAN
    BY <1>0, <1>9, <2>1 DEF PollProgress, Write
  <2> QED
    BY <1>0, <1>9, <1>l, <2>2 DEF PollProgress, history
<1>10. CASE PollFailure(p)
  <2> DEFINE r == [c EXCEPT !.fails = @ + 1]
  <2>1. r \in RowType
    BY <1>0, RowTypes
  <2>2. Finished(r, "FAILURE") \in RowType
    BY <2>1, RowTypes DEF Terminal
  <2>3. \/ Write(Finished(r, "FAILURE")) /\ AdjustTo(p, Finished(r, "FAILURE"), "poll", 0) /\ bill' = 0
        \/ Write(r) /\ Leave(p, "idle") /\ UNCHANGED bill
        \/ Leave(p, "idle") /\ UNCHANGED <<row, fresh, bill>>
    BY <1>10 DEF PollFailure
  <2>4. fund' = fund /\ tok' = tok /\ lost' = lost
    BY <1>10 DEF PollFailure
  <2> HIDE DEF r
  <2>5. pass' \in [Pollers -> PassType]
    BY <1>l, <2>2, <2>3, AdjustToType
  <2>6. row' \in RowType /\ fresh' \in BOOLEAN
    BY <1>0, <2>1, <2>2, <2>3 DEF Write
  <2>7. bill' \in Nat
    BY <1>0, <2>3
  <2> QED
    BY <1>0, <2>4, <2>5, <2>6, <2>7
<1>11. CASE PollChannelLost(p)
  <2>1. Finished(row, "FAILURE") \in RowType
    BY <1>0, RowTypes DEF Terminal
  <2>2. lost' \subseteq OpNames \cup Accidents
    BY <1>0, <1>11 DEF PollChannelLost, Accidents
  <2> QED
    BY <1>0, <1>11, <1>l, <2>1, <2>2 DEF PollChannelLost, Write
<1>12. CASE AdjustFunding(p)
  <2>1. Delta(p) \in Int /\ fund + Delta(p) \in Int
    BY <1>0 DEF Delta
  <2>2. pass' \in [Pollers -> PassType]
    BY <1>0, <1>12, <1>l, <1>s, AfterType DEF AdjustFunding
  <2>3. lost \cup {"funding"} \subseteq OpNames \cup Accidents
    BY <1>0 DEF OpNames
  <2> QED
    BY <1>0, <1>12, <2>1, <2>2, <2>3 DEF AdjustFunding
<1>13. CASE AdjustToken(p)
  <2>1. Delta(p) \in Int /\ tok + Delta(p) \in Int
    BY <1>0 DEF Delta
  <2>2. lost \cup {"token"} \subseteq OpNames \cup Accidents
    BY <1>0 DEF OpNames
  <2> QED
    BY <1>0, <1>13, <1>s, <2>1, <2>2 DEF AdjustToken
<1>14. CASE WriteMarker(p)
  <2>1. [row EXCEPT !.quota = NewMarker(p)] \in RowType
    BY <1>0, RowTypes DEF NewMarker
  <2>2. lost \cup {"marker"} \subseteq OpNames \cup Accidents
    BY <1>0 DEF OpNames
  <2>3. pass' \in [Pollers -> PassType]
    BY <1>0, <1>14, <1>l, AfterType DEF WriteMarker
  <2> QED
    BY <1>0, <1>14, <2>1, <2>2, <2>3 DEF WriteMarker, Write
<1>15. CASE PassCancelled(p)
  BY <1>0, <1>15, <1>l DEF PassCancelled, history
<1>16. CASE CrashPass(p)
  <2>1. lost' \subseteq OpNames \cup Accidents
    BY <1>0, <1>16 DEF CrashPass, Accidents
  <2> QED
    BY <1>0, <1>16, <1>l, <2>1 DEF CrashPass
<1> QED
  BY <1>1, <1>2, <1>3, <1>4, <1>5, <1>6, <1>7, <1>8, <1>9, <1>10, <1>11, <1>12, <1>13, <1>14,
     <1>15, <1>16 DEF PassStep

LEMMA FetchTypes ==
  ASSUME TypeOK, NEW f \in Fetchers, FetchRead(f) \/ FetchWrite(f)
  PROVE  TypeOK'
<1>0. /\ fetch \in [Fetchers -> RowType] /\ fetch[f] \in RowType /\ row \in RowType /\ NoRow \in RowType
      /\ fetches \in 0..MaxFetches
  BY DEF TypeOK, NoRow, RowType
<1>1. CASE FetchRead(f)
  <2>1. fetch' \in [Fetchers -> RowType] /\ fetches' \in 0..MaxFetches
    BY <1>0, <1>1 DEF FetchRead
  <2> QED
    BY <1>1, <2>1 DEF FetchRead, TypeOK, subVars, history
<1>2. CASE FetchWrite(f)
  <2>1. fetch' \in [Fetchers -> RowType]
    BY <1>0, <1>2 DEF FetchWrite
  <2>2. row' \in RowType /\ fresh' \in BOOLEAN /\ bill' \in Nat
    <3>1. CASE UNCHANGED <<row, fresh, bill>>
      BY <3>1 DEF TypeOK
    <3>2. ASSUME NEW st \in Active \cup Terminal, NEW u \in Usages(st),
                 NEW full \in Progress(st) \cup {fetch[f].full},
                 Write([fetch[f] EXCEPT !.status = st, !.full = full]),
                 bill' = IF st \in Terminal \ {row.status} THEN Owed(st, u) ELSE bill
          PROVE  row' \in RowType /\ fresh' \in BOOLEAN /\ bill' \in Nat
      <4>1. [fetch[f] EXCEPT !.status = st, !.full = full] \in RowType
        <5>1. full \in BOOLEAN
          BY <1>0 DEF Progress, RowType
        <5> QED
          BY <1>0, <3>2, <5>1, RowTypes
      <4>2. Owed(st, u) \in Nat /\ bill \in Nat
        BY <1>0, FinalQuotaType DEF TypeOK
      <4> QED
        BY <3>2, <4>1, <4>2 DEF Write
    <3> QED
      BY <1>2, <3>1, <3>2 DEF FetchWrite
  <2>3. lost' \subseteq OpNames \cup Accidents
    BY <1>2 DEF FetchWrite, TypeOK, Accidents
  <2> QED
    BY <1>2, <2>1, <2>2, <2>3 DEF FetchWrite, TypeOK, subVars
<1> QED
  BY <1>1, <1>2

LEMMA NextTypes == ASSUME TypeOK, [Next]_vars PROVE TypeOK'
<1>1. CASE Submission \/ CrashSubmission
  BY <1>1, SubmissionTypes
<1>2. CASE \E p \in Pollers : PassStep(p) \/ PassCancelled(p) \/ CrashPass(p)
  BY <1>2, PassStepTypes
<1>3. CASE \E f \in Fetchers : FetchRead(f) \/ FetchWrite(f)
  BY <1>3, FetchTypes
<1>4. CASE GraceElapses \/ TimeoutElapses
  <2>1. lost' \subseteq OpNames \cup Accidents
    BY <1>4 DEF GraceElapses, TimeoutElapses, TypeOK, Accidents, history
  <2> QED
    BY <1>4, <2>1 DEF GraceElapses, TimeoutElapses, TypeOK, subVars, fetchVars, history
<1>5. CASE Rest \/ UNCHANGED vars
  BY <1>5 DEF Rest, vars, TypeOK
<1> QED
  BY <1>1, <1>2, <1>3, <1>4, <1>5 DEF Next

(* The variables keep their types, whatever crashes, fetches and deleted   *)
(* channels do: quotas in a row, in a copy of it and in an adjustment's    *)
(* target never go negative.                                               *)
THEOREM TaskTypeCorrect == Spec => []TypeOK
<1>1. Init => TypeOK
  BY InitIInv DEF IInv
<1>2. TypeOK /\ [Next]_vars => TypeOK'
  BY NextTypes
<1> QED
  BY <1>1, <1>2, PTL DEF Spec

(* A submission that has yet to insert its row finds none, and a copy that *)
(* may be written back was taken of an active task.                        *)
StaleInv ==
    /\ TypeOK
    /\ row.status # "absent" => sub \notin {"start", "insert"}
    /\ \A f \in Fetchers : fetch[f].status # "absent" => row.status # "absent"
    /\ \A p \in Pollers : pass[p].pc \in {"timeout", "fetched"} => row.status # "absent"
    /\ \A p \in Pollers : pass[p].pc \in {"timeout", "fetched"} => pass[p].copy.status \in Active

(* A pass that works on a stale copy loses the CAS.                        *)
LEMMA PassKeepsStatus ==
  ASSUME StaleInv, row.status \notin Active, NEW p \in Pollers, ~PollChannelLost(p),
         PassStep(p) \/ PassCancelled(p) \/ CrashPass(p)
  PROVE  row'.status = row.status
<1>0. row \in RowType
  BY DEF StaleInv, TypeOK
<1>1. pass[p].pc \in {"timeout", "fetched"} => pass[p].copy.status # row.status
  BY DEF StaleInv
<1>a. CASE \/ StartPass(p) \/ SweepRead(p) \/ ReconcileRead(p) \/ PollRead(p)
           \/ AdjustFunding(p) \/ AdjustToken(p) \/ PassCancelled(p) \/ CrashPass(p)
  BY <1>a DEF StartPass, SweepRead, ReconcileRead, PollRead, AdjustFunding, AdjustToken,
              PassCancelled, CrashPass
<1>b. CASE SweepTimedOut(p)
  BY <1>1, <1>b DEF SweepTimedOut, StatusIs
<1>c. CASE PollTerminal(p)
  BY <1>1, <1>c DEF PollTerminal, StatusIs
<1>d. CASE PollProgress(p)
  BY <1>1, <1>d DEF PollProgress, StatusIs
<1>e. CASE PollFailure(p)
  <2>1. pass[p].pc = "fetched" /\ pass[p].copy \in RowType
    BY <1>e DEF PollFailure, StaleInv, TypeOK, PassType
  <2>2. [pass[p].copy EXCEPT !.fails = @ + 1].status = pass[p].copy.status
    BY <2>1 DEF RowType
  <2> QED
    BY <1>1, <1>e, <2>1, <2>2 DEF PollFailure, StatusIs
<1>f. CASE ClaimQuota(p)
  BY <1>0, <1>f DEF ClaimQuota, Write, RowType
<1>g. CASE RestoreQuota(p)
  BY <1>0, <1>g DEF RestoreQuota, Write, RowType
<1>h. CASE WriteMarker(p)
  BY <1>0, <1>h DEF WriteMarker, Write, RowType
<1> QED
  BY <1>a, <1>b, <1>c, <1>d, <1>e, <1>f, <1>g, <1>h DEF PassStep

(* Only the reads of sweepTimedOutTasks and GetAllUnFinishSyncTasks make a *)
(* copy that may be written back.                                          *)
LEMMA PassCopies ==
  ASSUME TypeOK, NEW p \in Pollers, PassStep(p) \/ PassCancelled(p) \/ CrashPass(p)
  PROVE  /\ \A q \in Pollers : q # p => pass'[q] = pass[q]
         /\ pass'[p].pc \in {"timeout", "fetched"} =>
              pass'[p].copy.status \in Active /\ row.status # "absent"
<1>0. pass \in [Pollers -> PassType] /\ pass[p] \in PassType /\ pass[p].phase \in {"sweep", "recon", "poll"}
  BY DEF TypeOK, PassType
<1> DEFINE Goal == /\ \A q \in Pollers : q # p => pass'[q] = pass[q]
                   /\ pass'[p].pc \in {"timeout", "fetched"} =>
                        pass'[p].copy.status \in Active /\ row.status # "absent"
<1> SUFFICES Goal
  OBVIOUS
<1>l. ASSUME NEW l \in {"idle", "recon", "poll"}, Leave(p, l) PROVE Goal
  BY <1>l, LeaveForm
<1>s. ASSUME NEW l \in {"sweep", "restore", "token", "marker"}, Step(p, l) PROVE Goal
  BY <1>s, StepForm
<1>t. ASSUME NEW r, NEW ph \in {"sweep", "recon", "poll"}, NEW t, AdjustTo(p, r, ph, t) PROVE Goal
  <2>1. CASE r.quota = t
    <3>1. Leave(p, After(ph)) /\ After(ph) \in {"idle", "recon", "poll"}
      BY <1>t, <2>1, AfterType DEF AdjustTo
    <3> HIDE DEF Goal
    <3> QED
      BY <3>1, <1>l
  <2>2. CASE r.quota # t
    BY <1>0, <1>t, <2>2 DEF AdjustTo
  <2> QED
    BY <2>1, <2>2
<1>a. CASE SweepRead(p)
  <2>1. CASE TimeoutSweep /\ Unfinished(row) /\ overdue
    BY <1>0, <1>a, <2>1 DEF SweepRead, Unfinished, Active, PassType
  <2>2. CASE ~(TimeoutSweep /\ Unfinished(row) /\ overdue)
    BY <1>0, <1>a, <2>2 DEF SweepRead, PassType
  <2> QED
    BY <2>1, <2>2
<1>b. CASE PollRead(p)
  <2>1. CASE Unfinished(row)
    BY <1>0, <1>b, <2>1 DEF PollRead, Unfinished, Active, PassType
  <2>2. CASE ~Unfinished(row)
    BY <1>0, <1>b, <2>2 DEF PollRead, PassType
  <2> QED
    BY <2>1, <2>2
<1>c. CASE ReconcileRead(p)
  BY <1>0, <1>c DEF ReconcileRead, PassType
<1> HIDE DEF Goal
<1>d. CASE StartPass(p) \/ AdjustToken(p)
  BY <1>d, <1>s DEF StartPass, AdjustToken
<1>e. CASE AdjustFunding(p)
  BY <1>0, <1>e, <1>l, <1>s, AfterType DEF AdjustFunding
<1>f. CASE RestoreQuota(p) \/ PollProgress(p) \/ PollChannelLost(p) \/ PassCancelled(p) \/ CrashPass(p)
  BY <1>f, <1>l DEF RestoreQuota, PollProgress, PollChannelLost, PassCancelled, CrashPass
<1>g. CASE WriteMarker(p)
  BY <1>0, <1>g, <1>l, AfterType DEF WriteMarker
<1>h. CASE SweepTimedOut(p) \/ ClaimQuota(p)
  BY <1>h, <1>l, <1>t DEF SweepTimedOut, ClaimQuota
<1>i. CASE PollTerminal(p)
  BY <1>i, <1>l, <1>t DEF PollTerminal
<1>j. CASE PollFailure(p)
  BY <1>j, <1>l, <1>t DEF PollFailure
<1> QED
  BY <1>a, <1>b, <1>c, <1>d, <1>e, <1>f, <1>g, <1>h, <1>i, <1>j DEF PassStep

(* No pass deletes the row.                                                *)
LEMMA PassKeepsRow ==
  ASSUME TypeOK, row.status \in Active, NEW p \in Pollers,
         PassStep(p) \/ PassCancelled(p) \/ CrashPass(p), ~PollChannelLost(p)
  PROVE  row'.status # "absent"
<1>0. row \in RowType /\ pass[p].copy \in RowType /\ row.status # "absent"
  BY DEF TypeOK, PassType, Active
<1>a. CASE \/ StartPass(p) \/ SweepRead(p) \/ ReconcileRead(p) \/ PollRead(p)
           \/ AdjustFunding(p) \/ AdjustToken(p) \/ PassCancelled(p) \/ CrashPass(p)
  BY <1>0, <1>a DEF StartPass, SweepRead, ReconcileRead, PollRead, AdjustFunding, AdjustToken,
                    PassCancelled, CrashPass
<1>b. CASE SweepTimedOut(p)
  BY <1>0, <1>b DEF SweepTimedOut, Write, TimedOut, RowType
<1>c. CASE PollTerminal(p)
  BY <1>0, <1>c DEF PollTerminal, Write, Finished, RowType, Terminal
<1>d. CASE PollProgress(p)
  BY <1>0, <1>d DEF PollProgress, Write, RowType, Active
<1>e. CASE PollFailure(p)
  <2> DEFINE r == [pass[p].copy EXCEPT !.fails = @ + 1]
  <2>1. r \in RowType /\ r.status = pass[p].copy.status
    BY <1>0 DEF RowType
  <2>2. Finished(r, "FAILURE").status = "FAILURE"
    BY <2>1 DEF Finished, RowType
  <2>3. \/ Write(Finished(r, "FAILURE"))
        \/ StatusIs(r.status) /\ Write(r)
        \/ UNCHANGED <<row, fresh, bill>>
    BY <1>e DEF PollFailure
  <2> HIDE DEF r
  <2> QED
    BY <1>0, <2>1, <2>2, <2>3 DEF Write, StatusIs
<1>f. CASE ClaimQuota(p)
  BY <1>0, <1>f DEF ClaimQuota, Write, RowType
<1>g. CASE RestoreQuota(p)
  BY <1>0, <1>g DEF RestoreQuota, Write, RowType
<1>h. CASE WriteMarker(p)
  BY <1>0, <1>h DEF WriteMarker, Write, RowType
<1> QED
  BY <1>a, <1>b, <1>c, <1>d, <1>e, <1>f, <1>g, <1>h DEF PassStep

LEMMA NextStale ==
  ASSUME StaleInv, [Next]_vars
  PROVE  StaleInv' /\ TerminalStep
<1>0. TypeOK /\ TypeOK'
  BY NextTypes DEF StaleInv
<1>n. row.status \in Terminal => row.status # "absent" /\ row.status \notin Active
  BY DEF Terminal, Active
<1>1. CASE Submission \/ CrashSubmission
  <2>1. pass' = pass /\ fetch' = fetch
    BY <1>1 DEF Submission, Submit, Insert, Settle, CrashSubmission, fetchVars
  <2>2. CASE Insert
    <3>1. row.status = "absent"
      BY <2>2 DEF Insert, StaleInv
    <3>2. \A f \in Fetchers : fetch'[f].status = "absent"
      BY <2>1, <3>1 DEF StaleInv
    <3>3. \A p \in Pollers : pass'[p].pc \notin {"timeout", "fetched"}
      BY <2>1, <3>1 DEF StaleInv
    <3>4. sub' \notin {"start", "insert"}
      BY <2>2 DEF Insert
    <3> QED
      BY <1>0, <3>1, <3>2, <3>3, <3>4 DEF StaleInv, TerminalStep, Terminal
  <2>3. CASE Submit \/ Settle \/ CrashSubmission
    <3>1. row' = row
      BY <2>3 DEF Submit, Settle, CrashSubmission
    <3>2. row.status # "absent" => sub' \notin {"start", "insert"}
      BY <2>3 DEF Submit, Settle, CrashSubmission, StaleInv
    <3> QED
      BY <1>0, <2>1, <3>1, <3>2 DEF StaleInv, TerminalStep
  <2> QED
    BY <1>1, <2>2, <2>3 DEF Submission
<1>2. ASSUME NEW p \in Pollers, PassStep(p) \/ PassCancelled(p) \/ CrashPass(p)
      PROVE  StaleInv' /\ TerminalStep
  <2>1. sub' = sub /\ fetch' = fetch
    BY <1>2 DEF PassStep, StartPass, SweepRead, SweepTimedOut, ReconcileRead, ClaimQuota,
         RestoreQuota, PollRead, PollTerminal, PollProgress, PollFailure, PollChannelLost,
         AdjustFunding, AdjustToken, WriteMarker, PassCancelled, CrashPass, subVars, fetchVars
  <2>2. /\ row.status \notin Active /\ ~PollChannelLost(p) => row'.status = row.status
        /\ PollChannelLost(p) => row'.status = "FAILURE" /\ row.status # "absent"
    <3>1. row.status \notin Active /\ ~PollChannelLost(p) => row'.status = row.status
      BY <1>2, PassKeepsStatus
    <3>2. PollChannelLost(p) => row'.status = "FAILURE" /\ row.status # "absent"
      BY <1>0 DEF PollChannelLost, Write, Finished, TypeOK, RowType, StaleInv
    <3> QED
      BY <3>1, <3>2
  <2>3. row'.status # "absent" => row.status # "absent"
    BY <2>2 DEF Active
  <2>4. row.status # "absent" => row'.status # "absent"
    <3>1. CASE PollChannelLost(p) \/ row.status \notin Active
      BY <2>2, <3>1
    <3>2. CASE row.status \in Active /\ ~PollChannelLost(p)
      BY <1>0, <1>2, <3>2, PassKeepsRow
    <3> QED
      BY <3>1, <3>2
  <2>5. /\ \A q \in Pollers : q # p => pass'[q] = pass[q]
        /\ pass'[p].pc \in {"timeout", "fetched"} =>
             pass'[p].copy.status \in Active /\ row.status # "absent"
    BY <1>0, <1>2, PassCopies
  <2>6. StaleInv'
    BY <1>0, <2>1, <2>3, <2>4, <2>5 DEF StaleInv
  <2>7. PollChannelLost(p) => ByBulkUpdate
    <3>1. PollChannelLost(p) => pass'[p].pc = "idle" /\ pass[p].pc = "fetched"
      BY <1>0, LeaveForm DEF PollChannelLost
    <3> QED
      BY <2>2, <3>1 DEF ByBulkUpdate
  <2> QED
    BY <1>n, <2>2, <2>6, <2>7 DEF TerminalStep
<1>3. ASSUME NEW f \in Fetchers, FetchRead(f) \/ FetchWrite(f)
      PROVE  StaleInv' /\ TerminalStep
  <2>1. sub' = sub /\ pass' = pass
    BY <1>3 DEF FetchRead, FetchWrite, subVars
  <2>2. CASE FetchRead(f)
    <3>1. row' = row /\ row.status # "absent"
      BY <2>2 DEF FetchRead
    <3> QED
      BY <1>0, <2>1, <3>1 DEF StaleInv, TerminalStep
  <2>3. CASE FetchWrite(f)
    <3>1. row.status # "absent" /\ fetch[f] \in RowType /\ fetch' = [fetch EXCEPT ![f] = NoRow]
      BY <1>0, <2>3 DEF FetchWrite, StaleInv, TypeOK
    <3>2. fetch'[f].status = "absent"
      BY <1>0, <3>1 DEF TypeOK, NoRow
    <3>3. CASE UNCHANGED <<row, fresh, bill, lost>>
      BY <1>0, <2>1, <3>1, <3>3 DEF StaleInv, TerminalStep
    <3>4. ASSUME NEW st \in Active \cup Terminal, NEW full, row.status = fetch[f].status,
                 Write([fetch[f] EXCEPT !.status = st, !.full = full])
          PROVE  StaleInv' /\ TerminalStep
      <4>1. row'.status = st /\ st # "absent"
        BY <3>1, <3>4 DEF Write, RowType, Active, Terminal
      <4>2. ByLateFetch
        BY <3>2, <3>4 DEF ByLateFetch
      <4> QED
        BY <1>0, <2>1, <3>1, <4>1, <4>2 DEF StaleInv, TerminalStep
    <3> QED
      BY <2>3, <3>3, <3>4 DEF FetchWrite, StatusIs
  <2> QED
    BY <1>3, <2>2, <2>3
<1>4. CASE GraceElapses \/ TimeoutElapses \/ Rest \/ UNCHANGED vars
  <2>1. row' = row /\ pass' = pass /\ sub' = sub /\ fetch' = fetch
    BY <1>4 DEF GraceElapses, TimeoutElapses, Rest, vars, subVars, fetchVars
  <2> QED
    BY <1>0, <2>1 DEF StaleInv, TerminalStep
<1> QED
  BY <1>1, <1>2, <1>3, <1>4 DEF Next

(* The guard of UpdateWithStatus is enough for every write but two: with   *)
(* any number of passes and fetches, however stale their copies, wherever  *)
(* they crash and however slow a refund is, a task that has ended keeps    *)
(* its status unless TaskBulkUpdateByID fails it for its vanished channel  *)
(* or a realtime fetch had read the row after the end.                     *)
THEOREM EndedTasksStayEnded == Spec => TerminalIsFinal
<1>1. Init => StaleInv
  <2> SUFFICES ASSUME Init PROVE StaleInv
    OBVIOUS
  <2>1. TypeOK /\ RowShape /\ \A p \in Pollers : CopyShape(p)
    BY InitIInv DEF IInv
  <2>2. \A f \in Fetchers : fetch[f].status = "absent"
    BY DEF Init, NoRow
  <2> QED
    BY <2>1, <2>2 DEF StaleInv, RowShape, CopyShape
<1>2. StaleInv /\ [Next]_vars => StaleInv'
  BY NextStale
<1>3. StaleInv /\ [Next]_vars => [TerminalStep]_vars
  BY NextStale
<1>4. Spec => [][TerminalStep]_vars
  BY <1>1, <1>2, <1>3, PTL DEF Spec
<1> QED
  BY <1>4 DEF TerminalIsFinal
=============================================================================
