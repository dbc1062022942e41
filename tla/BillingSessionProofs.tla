------------------------- MODULE BillingSessionProofs -------------------------
(***************************************************************************)
(* TLAPS proofs about BillingSession, for every set of requests, every     *)
(* price, every balance, every number of retries and every set of failing  *)
(* writes.                                                                 *)
(***************************************************************************)
EXTENDS BillingSession, TLAPS

-----------------------------------------------------------------------------
(* The inductive invariant: what session and ledger look like at every     *)
(* point of the handler and of the goroutine.                              *)

BeforeFunding == {"idle", "tryWallet", "preToken", "preFunding",
                  "rollbackNext", "rollbackReject", "rejected"}
TokenPending == {"preFunding", "rollbackNext", "rollbackReject"}
Holding == {"ready", "upstream", "settleFunding", "panicked"}
Reserving == {"reserveToken", "reserveRollback"}
Failing == {"fail", "fee", "feeToken", "failed"}

TokenPart(r, q) == IF prof[r].playground THEN 0 ELSE q

(* The session's fields agree with each other and with the control points. *)
SessionShape(r) ==
    /\ pc[r] \in BeforeFunding =>
         /\ sess[r].consumed = 0 /\ sess[r].subPre = 0 /\ sess[r].pre = 0 /\ sess[r].extra = 0
         /\ sess[r].tokenConsumed = IF pc[r] \in TokenPending THEN Effective(r) ELSE 0
    /\ pc[r] \notin BeforeFunding =>
         /\ sess[r].tokenConsumed = sess[r].pre
         /\ sess[r].source = "subscription" => sess[r].pre = sess[r].subPre + sess[r].extra
    /\ pc[r] \in {"idle", "rejected"} => sess[r].source = "none"
    /\ pc[r] = "tryWallet" => sess[r].source = "wallet"
    /\ pc[r] \in TokenPending \cup {"preToken"} \cup Reserving => sess[r].source # "none"
    /\ sess[r].source = "none" => sess[r].pre = 0
    /\ sess[r].source # "wallet" => sess[r].consumed = 0
    /\ sess[r].source # "subscription" => sess[r].subPre = 0
    /\ sess[r].settled => pc[r] = "succeeded" /\ sess[r].source # "none"
    /\ sess[r].fundingSettled => pc[r] \in {"settleToken", "succeeded"}

(* The goroutine runs for failed requests only, and only if needed.        *)
GoroutineShape(r) ==
    /\ rpc[r] # "none" => pc[r] \in Failing \ {"fail"} /\ sess[r].source # "none"
    /\ rpc[r] # "none" <=> sess[r].refunded
    /\ rpc[r] \in {"mark", "extra"} => sess[r].source = "subscription"
    /\ rpc[r] \in {"funding", "mark"} => rtries[r] < MaxRefundAttempts
    /\ rpc[r] = "none" => rtries[r] = 0
    /\ rpc[r] = "none" /\ pc[r] \in Failing \ {"fail"} => sess[r].pre = 0

(* What WalletFunding.consumed remembers                                   *)
ConsumedShape(r) ==
    /\ sess[r].consumed >= 0
    /\ pc[r] \in Holding => sess[r].consumed <= sess[r].pre
    /\ pc[r] \in Reserving /\ sess[r].source = "wallet" => sess[r].consumed >= arg[r]
    /\ pc[r] \in Reserving => sess[r].consumed <= sess[r].pre + arg[r]
    /\ sess[r].source = "wallet" /\ ~prof[r].image =>
         /\ pc[r] \in Holding => sess[r].consumed = sess[r].pre
         /\ pc[r] \in Reserving => sess[r].consumed = sess[r].pre + arg[r]
         /\ pc[r] \in Failing /\ ~scar[r] => sess[r].consumed = sess[r].pre

(* Once a subscription refund is under way this needs the save of the      *)
(* record's status to be reliable, see MarkRefunded.                       *)
MarkReliable == "mark" \notin FaultyOps

(* What has been taken from the funding source                             *)
FundingLedger(r) ==
    /\ pc[r] \in BeforeFunding => fundTaken[r] = 0
    /\ pc[r] \in Holding => fundTaken[r] = sess[r].pre
    /\ pc[r] \in Reserving => fundTaken[r] = sess[r].pre + arg[r]
    /\ pc[r] = "settleToken" => fundTaken[r] = arg[r]
    /\ pc[r] = "succeeded" =>
         /\ fundTaken[r] >= 0
         /\ sess[r].source # "none" =>
              fundTaken[r] = IF sess[r].settled THEN arg[r] ELSE sess[r].pre
    /\ pc[r] \in Failing /\ (rpc[r] = "none" \/ (rpc[r] = "funding" /\ MarkReliable)) =>
         /\ fundTaken[r] >= sess[r].pre /\ fundTaken[r] >= sess[r].consumed
         /\ ~scar[r] => fundTaken[r] = sess[r].pre
    /\ rpc[r] \in {"mark", "extra"} /\ MarkReliable =>
         /\ fundTaken[r] >= sess[r].extra
         /\ ~scar[r] => fundTaken[r] = sess[r].extra
    /\ rpc[r] \in {"token", "done"} /\ MarkReliable =>
         /\ fundTaken[r] >= 0
         /\ ~scar[r] /\ ~(prof[r].image /\ sess[r].source = "wallet") => fundTaken[r] = 0

(* What has been taken from the token: at least what the session accounts  *)
(* for, and exactly that unless a compensating write was lost.             *)
TokenDue(r) ==
    IF pc[r] \in TokenPending THEN TokenPart(r, sess[r].tokenConsumed)
    ELSE IF pc[r] \in BeforeFunding \/ rpc[r] = "done" THEN 0
    ELSE TokenPart(r, sess[r].pre)

TokenLedger(r) ==
    /\ tokTaken[r] >= 0
    /\ pc[r] # "succeeded" =>
         /\ tokTaken[r] >= TokenDue(r)
         /\ ~scar[r] => tokTaken[r] = TokenDue(r)
    /\ pc[r] = "succeeded" /\ sess[r].source # "none" /\ ~scar[r] =>
         tokTaken[r] = TokenPart(r, IF sess[r].settled THEN arg[r] ELSE sess[r].pre)

Ledger(r) ==
    SessionShape(r) /\ GoroutineShape(r) /\ ConsumedShape(r) /\ FundingLedger(r) /\ TokenLedger(r)

IInv == TypeOK /\ \A r \in Requests : Ledger(r)

-----------------------------------------------------------------------------
USE DEF MaxRefundAttempts

LEMMA LargerNat == \A a \in Int : \A b \in Nat : Larger(a, b) \in Nat
  BY DEF Larger

LEMMA FreshSessionType ==
  ASSUME NEW source \in {"none", "wallet", "subscription"}
  PROVE  FreshSession(source) \in SessionType
  BY DEF FreshSession, SessionType

LEMMA FundedBySubType ==
  ASSUME NEW s \in SessionType, NEW q \in Nat, NEW sub \in Subs
  PROVE  FundedBySub(s, sub, q) \in SessionType
  BY DEF SessionType, FundedBySub

LEMMA FundedByWalletType ==
  ASSUME NEW s \in SessionType, NEW q \in Nat
  PROVE  FundedByWallet(s, q) \in SessionType
  <1>1. q \in Int
    OBVIOUS
  <1> QED
    BY <1>1 DEF SessionType, FundedByWallet

LEMMA ReservedType ==
  ASSUME NEW s \in SessionType, NEW q \in Nat, NEW b
  PROVE  Reserved(s, q, b) \in SessionType
  <1>1. s.pre + q \in Nat /\ s.tokenConsumed + q \in Nat /\ s.extra + q \in Nat
    BY DEF SessionType
  <1>2. (s.trusted /\ ~b) \in BOOLEAN
    OBVIOUS
  <1> QED
    BY <1>1, <1>2 DEF SessionType, Reserved

LEMMA InitTypeOK == Init => TypeOK
  <1> SUFFICES ASSUME Init PROVE TypeOK
    OBVIOUS
  <1>1. NoSession \in SessionType
    BY FreshSessionType DEF NoSession
  <1> QED
    BY <1>1, ConstantsAssumption DEF Init, TypeOK, PCs

-----------------------------------------------------------------------------
(* Type correctness, one lemma per group of actions                        *)

LEMMA StartSessionType ==
  ASSUME TypeOK, NEW r \in Requests, NEW source \in {"wallet", "subscription"},
         StartSession(r, source)
  PROVE  sess' \in [Requests -> SessionType] /\ pc' \in [Requests -> PCs]
  <1>1. FreshSession(source) \in SessionType
    BY FreshSessionType
  <1> QED
    BY <1>1 DEF StartSession, Goto, TypeOK, PCs

LEMMA NewSessionType ==
  ASSUME TypeOK, NEW r \in Requests, NEW q \in Amounts, NewBillingSession(r, q)
  PROVE  /\ sess' \in [Requests -> SessionType] /\ pc' \in [Requests -> PCs]
         /\ arg' \in [Requests -> Nat]
  <1>1. FirstSource(prof[r]) \in {"wallet", "subscription"}
    BY DEF FirstSource
  <1>2. StartSession(r, FirstSource(prof[r]))
    BY DEF NewBillingSession
  <1>3. arg' \in [Requests -> Nat]
    BY ConstantsAssumption DEF NewBillingSession, TypeOK
  <1> QED
    BY <1>1, <1>2, <1>3, StartSessionType

LEMMA NoBillingType ==
  ASSUME TypeOK, NEW r \in Requests, NoBilling(r)
  PROVE  sess' \in [Requests -> SessionType] /\ pc' \in [Requests -> PCs]
  <1>1. NoSession \in SessionType
    BY FreshSessionType DEF NoSession
  <1> QED
    BY <1>1 DEF NoBilling, Goto, TypeOK, PCs

LEMMA InsufficientType ==
  ASSUME TypeOK, NEW r \in Requests, Insufficient(r)
  PROVE  sess' \in [Requests -> SessionType] /\ pc' \in [Requests -> PCs]
  <1>1. Untried(r) # "none" => Untried(r) \in {"wallet", "subscription"}
    BY DEF Untried, FallbackSource
  <1> QED
    BY <1>1, StartSessionType, NoBillingType DEF Insufficient

(* Every account operation keeps the accounts in their types.              *)
LEMMA TakeTokenType ==
  ASSUME TypeOK, NEW r \in Requests, NEW q \in Int, TakeToken(r, q)
  PROVE  token' \in Int /\ tokTaken' \in [Requests -> Int]
  BY DEF TakeToken, TypeOK

LEMMA TakeWalletType ==
  ASSUME TypeOK, NEW r \in Requests, NEW q \in Int, TakeWallet(r, q)
  PROVE  wallet' \in Int /\ used' \in [Subs -> Nat] /\ fundTaken' \in [Requests -> Int]
  BY DEF TakeWallet, TypeOK

LEMMA NewUsedType ==
  ASSUME TypeOK, NEW s \in Subs, NEW q \in Int
  PROVE  NewUsed(s, q) \in Nat
  BY DEF NewUsed, Larger, TypeOK

LEMMA TakeSubType ==
  ASSUME TypeOK, NEW r \in Requests, NEW s \in Subs \cup {-1}, NEW q \in Int, TakeSub(r, s, q)
  PROVE  wallet' \in Int /\ used' \in [Subs -> Nat] /\ fundTaken' \in [Requests -> Int]
  <1>1. used' \in [Subs -> Nat]
    BY NewUsedType DEF TakeSub, TypeOK
  <1> QED
    BY <1>1 DEF TakeSub, TypeOK

LEMMA AfterResetType ==
  ASSUME TypeOK, NEW due
  PROVE  AfterReset(due) \in [Subs -> Nat]
  BY DEF AfterReset, TypeOK

LEMMA PreConsumeSubType ==
  ASSUME TypeOK, NEW r \in Requests, NEW s \in Subs, NEW q \in Nat, PreConsumeSub(r, s, q)
  PROVE  wallet' \in Int /\ used' \in [Subs -> Nat] /\ fundTaken' \in [Requests -> Int]
  <1>1. PICK due : used' = [AfterReset(due) EXCEPT ![s] = @ + q]
    BY DEF PreConsumeSub
  <1>2. used' \in [Subs -> Nat]
    BY <1>1, AfterResetType
  <1> QED
    BY <1>2 DEF PreConsumeSub, TypeOK

LEMMA TakeFundingType ==
  ASSUME TypeOK, NEW r \in Requests, NEW q \in Int, TakeFunding(r, q)
  PROVE  wallet' \in Int /\ used' \in [Subs -> Nat] /\ fundTaken' \in [Requests -> Int]
  <1>1. sess[r].sub \in Subs \cup {-1}
    BY DEF TypeOK, SessionType
  <1> QED
    BY <1>1, TakeSubType, TakeWalletType DEF TakeFunding

LEMMA EffectiveType ==
  ASSUME TypeOK, NEW r \in Requests
  PROVE  Effective(r) \in Nat
  BY DEF Effective, Larger, TypeOK

-----------------------------------------------------------------------------
(* Each action keeps the types.  IInv supplies the bound of rtries.       *)

USE DEF Goto

LEMMA OpenTypes ==
  ASSUME IInv, NEW r \in Requests,
         PrepareRequestBilling(r) \/ TryWallet(r) \/ PreConsumeToken(r)
            \/ PreConsumeFunding(r) \/ RollbackToken(r)
  PROVE  TypeOK'
  <1> TypeOK
    BY DEF IInv
  <1>s. sess \in [Requests -> SessionType]
    BY DEF TypeOK
  <1>1. CASE PrepareRequestBilling(r)
    <2>1. /\ sess' \in [Requests -> SessionType] /\ pc' \in [Requests -> PCs]
          /\ arg' \in [Requests -> Nat]
      BY <1>1, NewSessionType DEF PrepareRequestBilling, TypeOK, PCs
    <2> QED
      BY <1>1, <2>1 DEF PrepareRequestBilling, TypeOK, accounts, refundVars, history
  <1>2. CASE TryWallet(r)
    <2>1. sess' \in [Requests -> SessionType] /\ pc' \in [Requests -> PCs]
      <3>1. CASE Insufficient(r)
        BY <3>1, InsufficientType
      <3>2. CASE ~(wallet <= 0 \/ wallet < arg[r])
        <4>1. ShouldTrust(r) \in BOOLEAN
          BY DEF ShouldTrust
        <4>2. sess' = [sess EXCEPT ![r].trusted = ShouldTrust(r)]
          BY <1>2, <3>2 DEF TryWallet
        <4>3. sess' \in [Requests -> SessionType]
          BY <1>s, <4>1, <4>2 DEF SessionType
        <4> QED
          BY <1>2, <3>2, <4>3 DEF TryWallet, TypeOK, PCs
      <3> QED
        BY <1>2, <3>1, <3>2 DEF TryWallet
    <2> QED
      BY <1>2, <2>1 DEF TryWallet, TypeOK, accounts, refundVars, history
  <1>3. CASE PreConsumeToken(r)
    <2>1. Effective(r) \in Nat
      BY EffectiveType
    <2>2. token' \in Int /\ tokTaken' \in [Requests -> Int]
      BY <1>3, <2>1, TakeTokenType DEF PreConsumeToken, TypeOK
    <2>3. sess' \in [Requests -> SessionType] /\ pc' \in [Requests -> PCs]
      <3>1. CASE NoBilling(r)
        BY <3>1, NoBillingType
      <3>2. CASE sess' = [sess EXCEPT ![r].tokenConsumed = Effective(r)] /\ Goto(r, "preFunding")
        <4>2. sess' \in [Requests -> SessionType]
          BY <1>s, <2>1, <3>2 DEF SessionType
        <4> QED
          BY <1>3, <3>2, <4>2 DEF PreConsumeToken, TypeOK, PCs
      <3> QED
        BY <1>3, <3>1, <3>2 DEF PreConsumeToken
    <2> QED
      BY <1>3, <2>2, <2>3 DEF PreConsumeToken, TypeOK, refundVars
  <1>4. CASE PreConsumeFunding(r)
    <2>1. Effective(r) \in Nat
      BY EffectiveType
    <2> DEFINE q == Effective(r)
               Typed == /\ wallet' \in Int /\ used' \in [Subs -> Nat]
                        /\ fundTaken' \in [Requests -> Int]
                        /\ sess' \in [Requests -> SessionType]
    <2>2. q \in Int
      BY <2>1
    <2>3. Typed
      <3>w. CASE TakeWallet(r, q) /\ sess' = [sess EXCEPT ![r] = FundedByWallet(@, q)]
        <4>0. FundedByWallet(sess[r], q) \in SessionType
          BY <1>s, <2>1, FundedByWalletType
        <4>1. sess' \in [Requests -> SessionType]
          BY <1>s, <3>w, <4>0
        <4> QED
          BY <2>2, <3>w, <4>1, TakeWalletType
      <3>s. CASE \E s \in Subs : PreConsumeSub(r, s, q)
                   /\ sess' = [sess EXCEPT ![r] = FundedBySub(@, s, q)]
        <4>1. PICK s \in Subs : PreConsumeSub(r, s, q)
                   /\ sess' = [sess EXCEPT ![r] = FundedBySub(@, s, q)]
          BY <3>s
        <4>2. sess' \in [Requests -> SessionType]
          <5>1. FundedBySub(sess[r], s, q) \in SessionType
            BY <1>s, <2>1, FundedBySubType
          <5> QED
            BY <1>s, <4>1, <5>1
        <4> QED
          BY <2>1, <4>1, <4>2, PreConsumeSubType
      <3>u. CASE UNCHANGED <<wallet, used, record, sess, fundTaken>>
        BY <3>u DEF TypeOK
      <3> QED
        BY <1>4, <3>w, <3>s, <3>u DEF PreConsumeFunding
    <2>4. /\ pc' \in [Requests -> PCs]
          /\ record' \in [Requests -> {"none", "consumed", "refunded"}]
      BY <1>4 DEF PreConsumeFunding, TypeOK, PCs
    <2> QED
      BY <1>4, <2>3, <2>4 DEF PreConsumeFunding, TypeOK, refundVars
  <1>5. CASE RollbackToken(r)
    <2>1. -sess[r].tokenConsumed \in Int
      BY DEF TypeOK, SessionType
    <2>2. token' \in Int /\ tokTaken' \in [Requests -> Int]
      BY <1>5, <2>1, TakeTokenType DEF RollbackToken, TypeOK
    <2>3. sess' \in [Requests -> SessionType] /\ pc' \in [Requests -> PCs]
      BY <1>5, InsufficientType, NoBillingType DEF RollbackToken
    <2>4. scar' \in [Requests -> BOOLEAN]
      BY <1>5 DEF RollbackToken, TypeOK
    <2> QED
      BY <1>5, <2>2, <2>3, <2>4 DEF RollbackToken, TypeOK, refundVars
  <1> QED
    BY <1>1, <1>2, <1>3, <1>4, <1>5

LEMMA AttemptTypes ==
  ASSUME IInv, NEW r \in Requests,
         PrepareAttempt(r) \/ AttemptAborted(r) \/ ReserveToken(r)
            \/ RollbackFundingReserve(r) \/ Upstream(r)
  PROVE  TypeOK'
  <1> TypeOK
    BY DEF IInv
  <1>s. sess \in [Requests -> SessionType]
    BY DEF TypeOK
  <1>a. arg[r] \in Nat
    BY DEF TypeOK
  <1>1. CASE PrepareAttempt(r)
    <2>1. PICK target \in Amounts :
            \/ NewBillingSession(r, target) /\ UNCHANGED <<wallet, used, fundTaken>>
            \/ Goto(r, "upstream") /\ UNCHANGED <<wallet, used, fundTaken, sess, arg>>
            \/ /\ ~ReserveSkips(r, target)
               /\ TakeFunding(r, target - sess[r].pre)
               /\ sess' = IF sess[r].source # "wallet" THEN sess
                          ELSE [sess EXCEPT ![r].consumed =
                                    ConsumedAfterReserve(r, target - sess[r].pre)]
               /\ arg' = [arg EXCEPT ![r] = target - sess[r].pre]
               /\ Goto(r, "reserveToken")
            \/ /\ arg' = [arg EXCEPT ![r] = 0]
               /\ Goto(r, "fail") /\ UNCHANGED <<wallet, used, fundTaken, sess>>
      BY <1>1 DEF PrepareAttempt
    <2>t. target \in Nat
      BY ConstantsAssumption
    <2>2. /\ wallet' \in Int /\ used' \in [Subs -> Nat] /\ fundTaken' \in [Requests -> Int]
          /\ sess' \in [Requests -> SessionType]
          /\ pc' \in [Requests -> PCs] /\ arg' \in [Requests -> Nat]
      <3>1. CASE NewBillingSession(r, target) /\ UNCHANGED <<wallet, used, fundTaken>>
        BY <3>1, NewSessionType DEF TypeOK
      <3>2. CASE Goto(r, "upstream") /\ UNCHANGED <<wallet, used, fundTaken, sess, arg>>
        BY <3>2 DEF TypeOK, PCs
      <3>3. CASE /\ ~ReserveSkips(r, target)
                 /\ TakeFunding(r, target - sess[r].pre)
                 /\ sess' = IF sess[r].source # "wallet" THEN sess
                            ELSE [sess EXCEPT ![r].consumed =
                                      ConsumedAfterReserve(r, target - sess[r].pre)]
                 /\ arg' = [arg EXCEPT ![r] = target - sess[r].pre]
                 /\ Goto(r, "reserveToken")
        <4>1. sess[r].pre \in Nat /\ sess[r].consumed \in Int
          BY <1>s DEF SessionType
        <4>2. target - sess[r].pre \in Nat
          BY <2>t, <3>3, <4>1 DEF ReserveSkips
        <4>3. ConsumedAfterReserve(r, target - sess[r].pre) \in Int
          BY <4>1, <4>2 DEF ConsumedAfterReserve
        <4>4. sess' \in [Requests -> SessionType]
          BY <1>s, <3>3, <4>3 DEF SessionType
        <4>5. target - sess[r].pre \in Int
          BY <4>2
        <4>6. wallet' \in Int /\ used' \in [Subs -> Nat] /\ fundTaken' \in [Requests -> Int]
          BY <3>3, <4>5, TakeFundingType
        <4> QED
          BY <3>3, <4>2, <4>4, <4>6 DEF TypeOK, PCs
      <3>4. CASE /\ arg' = [arg EXCEPT ![r] = 0]
                 /\ Goto(r, "fail") /\ UNCHANGED <<wallet, used, fundTaken, sess>>
        BY <3>4 DEF TypeOK, PCs
      <3> QED
        BY <2>1, <3>1, <3>2, <3>3, <3>4
    <2> QED
      BY <1>1, <2>2 DEF PrepareAttempt, TypeOK, refundVars
  <1>2. CASE ReserveToken(r)
    <2>1. token' \in Int /\ tokTaken' \in [Requests -> Int]
      BY <1>2, <1>a, TakeTokenType DEF ReserveToken, TypeOK
    <2>2. Reserved(sess[r], arg[r], prof[r].image) \in SessionType
      BY <1>s, <1>a, ReservedType
    <2>3. sess' \in [Requests -> SessionType]
      <3>1. CASE sess' = [sess EXCEPT ![r] = Reserved(@, arg[r], prof[r].image)]
        BY <1>s, <2>2, <3>1
      <3>2. CASE UNCHANGED sess
        BY <1>s, <3>2
      <3> QED
        BY <1>2, <3>1, <3>2 DEF ReserveToken
    <2>4. pc' \in [Requests -> PCs]
      <3>1. \E l \in {"upstream", "reserveRollback"} : pc' = [pc EXCEPT ![r] = l]
        BY <1>2 DEF ReserveToken
      <3> QED
        BY <3>1 DEF TypeOK, PCs
    <2> QED
      BY <1>2, <2>1, <2>3, <2>4 DEF ReserveToken, TypeOK, refundVars
  <1>3. CASE RollbackFundingReserve(r)
    <2>1. -arg[r] \in Int
      BY <1>a
    <2>2. wallet' \in Int /\ used' \in [Subs -> Nat] /\ fundTaken' \in [Requests -> Int]
      BY <1>3, <2>1, TakeFundingType DEF RollbackFundingReserve, TypeOK
    <2>3. ConsumedAfterRollback(r) \in Int
      BY <1>s, <1>a DEF ConsumedAfterRollback, SessionType
    <2>4. [sess EXCEPT ![r].consumed = ConsumedAfterRollback(r)] \in [Requests -> SessionType]
      BY <1>s, <2>3 DEF SessionType
    <2>5. sess' \in [Requests -> SessionType]
      BY <1>3, <1>s, <2>4 DEF RollbackFundingReserve
    <2>6. /\ pc' \in [Requests -> PCs] /\ arg' \in [Requests -> Nat]
          /\ scar' \in [Requests -> BOOLEAN]
      BY <1>3 DEF RollbackFundingReserve, TypeOK, PCs
    <2> QED
      BY <1>3, <2>2, <2>5, <2>6 DEF RollbackFundingReserve, TypeOK, refundVars
  <1>4. CASE Upstream(r)
    <2>0. arg' \in [Requests -> Nat]
      BY <1>4, ConstantsAssumption DEF Upstream, TypeOK
    <2>1. pc' \in [Requests -> PCs]
      <3>1. \E l \in {"settleFunding", "ready", "fail", "panicked"} : pc' = [pc EXCEPT ![r] = l]
        BY <1>4 DEF Upstream
      <3> QED
        BY <3>1 DEF TypeOK, PCs
    <2>2. attempt' \in [Requests -> 0..RetryTimes]
      BY <1>4, ConstantsAssumption DEF Upstream, MayRetry, TypeOK
    <2> QED
      BY <1>4, <2>0, <2>1, <2>2 DEF Upstream, TypeOK, accounts, refundVars, history
  <1>5. CASE AttemptAborted(r)
    BY <1>5 DEF AttemptAborted, TypeOK, PCs, accounts, refundVars, history
  <1> QED
    BY <1>1, <1>2, <1>3, <1>4, <1>5

LEMMA EndTypes ==
  ASSUME IInv, NEW r \in Requests,
         SettleFunding(r) \/ SettleToken(r) \/ Refund(r) \/ ChargeFee(r) \/ ChargeFeeToken(r)
  PROVE  TypeOK'
  <1> TypeOK
    BY DEF IInv
  <1>s. sess \in [Requests -> SessionType]
    BY DEF TypeOK
  <1>h. HasSession(r) \in BOOLEAN
    BY DEF HasSession
  <1>a. arg[r] \in Nat
    BY DEF TypeOK
  <1>d. SettleDelta(r) \in Int
    BY <1>s, <1>a DEF SettleDelta, SessionType
  <1>1. CASE SettleFunding(r)
    <2>1. wallet' \in Int /\ used' \in [Subs -> Nat] /\ fundTaken' \in [Requests -> Int]
      BY <1>1, <1>d, TakeFundingType DEF SettleFunding, TypeOK
    <2>2. sess' \in [Requests -> SessionType]
      BY <1>1, <1>s, <1>h DEF SettleFunding, SessionType
    <2>3. pc' \in [Requests -> PCs]
      BY <1>1, ZenonT(60) DEF SettleFunding, TypeOK, PCs
    <2> QED
      BY <1>1, <2>1, <2>2, <2>3 DEF SettleFunding, TypeOK, refundVars
  <1>2. CASE SettleToken(r)
    <2>1. token' \in Int /\ tokTaken' \in [Requests -> Int]
      BY <1>2, <1>d, TakeTokenType DEF SettleToken, TypeOK
    <2>2. sess' \in [Requests -> SessionType]
      BY <1>2, <1>s, <1>h DEF SettleToken, SessionType
    <2>3. pc' \in [Requests -> PCs] /\ scar' \in [Requests -> BOOLEAN]
      BY <1>2 DEF SettleToken, TypeOK, PCs
    <2> QED
      BY <1>2, <2>1, <2>2, <2>3 DEF SettleToken, TypeOK, refundVars
  <1>3. CASE Refund(r)
    <2>1. sess' \in [Requests -> SessionType]
      <3>1. [sess EXCEPT ![r].refunded = TRUE] \in [Requests -> SessionType]
        BY <1>s DEF SessionType
      <3> QED
        BY <1>3, <1>s, <3>1 DEF Refund
    <2>2. /\ pc' \in [Requests -> PCs]
          /\ rpc' \in [Requests -> {"none", "funding", "mark", "extra", "token", "done"}]
      BY <1>3 DEF Refund, TypeOK, PCs
    <2> QED
      BY <1>3, <2>1, <2>2 DEF Refund, TypeOK, accounts, history
  <1>4. CASE ChargeFee(r)
    <2>1. wallet' \in Int /\ used' \in [Subs -> Nat]
      BY <1>4, <1>a, NewUsedType, SMTT(30) DEF ChargeFee, TypeOK
    <2>2. fee' \in [Requests -> [fund: Nat, tok: Nat]]
      <3>1. fee \in [Requests -> [fund: Nat, tok: Nat]]
        BY DEF TypeOK
      <3>2. fee' = [fee EXCEPT ![r].fund = arg[r]] \/ fee' = fee
        BY <1>4 DEF ChargeFee
      <3> QED
        BY <1>a, <3>1, <3>2
    <2>3. pc' \in [Requests -> PCs]
      BY <1>4 DEF ChargeFee, TypeOK, PCs
    <2> QED
      BY <1>4, <2>1, <2>2, <2>3 DEF ChargeFee, TypeOK, refundVars
  <1>5. CASE ChargeFeeToken(r)
    <2>1. token' \in Int /\ pc' \in [Requests -> PCs]
      BY <1>5, <1>a DEF ChargeFeeToken, TypeOK, PCs
    <2>2. fee' \in [Requests -> [fund: Nat, tok: Nat]]
      <3>1. fee \in [Requests -> [fund: Nat, tok: Nat]]
        BY DEF TypeOK
      <3>2. fee' = [fee EXCEPT ![r].tok = TokenPart(r, arg[r])] \/ fee' = fee
        BY <1>5 DEF ChargeFeeToken, TokenPart
      <3> QED
        BY <1>a, <3>1, <3>2 DEF TokenPart
    <2> QED
      BY <1>5, <2>1, <2>2 DEF ChargeFeeToken, TypeOK, refundVars
  <1> QED
    BY <1>1, <1>2, <1>3, <1>4, <1>5

LEMMA GoroutineTypes ==
  ASSUME IInv, NEW r \in Requests, RefundGoroutine(r)
  PROVE  TypeOK'
  <1> TypeOK
    BY DEF IInv
  <1>s. sess \in [Requests -> SessionType]
    BY DEF TypeOK
  <1>n. /\ Larger(sess[r].consumed, 0) \in Nat
        /\ sess[r].subPre \in Nat /\ sess[r].extra \in Nat /\ sess[r].tokenConsumed \in Nat
        /\ sess[r].sub \in Subs \cup {-1}
    BY <1>s DEF SessionType, Larger
  <1>t. rpc[r] \in {"funding", "mark"} => rtries[r] + 1 \in 0..MaxRefundAttempts
    BY SMTT(30) DEF IInv, Ledger, GoroutineShape, TypeOK
  <1> DEFINE RPCs == {"none", "funding", "mark", "extra", "token", "done"}
  <1>1. CASE RefundFunding(r)
    <2>1. wallet' \in Int /\ used' \in [Subs -> Nat] /\ fundTaken' \in [Requests -> Int]
      <3>1. -Larger(sess[r].consumed, 0) \in Int /\ -sess[r].subPre \in Int
        BY <1>n
      <3> QED
        BY <1>1, <1>n, <3>1, TakeWalletType, TakeSubType DEF RefundFunding, TypeOK
    <2>2. rpc' \in [Requests -> RPCs] /\ rtries' \in [Requests -> 0..MaxRefundAttempts]
      <3>1. CASE RetryRefund(r)
        BY <1>1, <1>t, <3>1 DEF RefundFunding, RetryRefund, TypeOK
      <3>2. CASE UNCHANGED rtries
        BY <1>1, <3>2, <3>1 DEF RefundFunding, TypeOK
      <3> QED
        BY <1>1, <3>1, <3>2 DEF RefundFunding
    <2>3. scar' \in [Requests -> BOOLEAN]
      BY <1>1 DEF RefundFunding, TypeOK
    <2> QED
      BY <1>1, <2>1, <2>2, <2>3 DEF RefundFunding, TypeOK, control
  <1>2. CASE MarkRefunded(r)
    <2>1. rpc' \in [Requests -> RPCs] /\ rtries' \in [Requests -> 0..MaxRefundAttempts]
      <3>1. CASE RetryRefund(r)
        BY <1>2, <1>t, <3>1 DEF MarkRefunded, RetryRefund, TypeOK
      <3>2. CASE UNCHANGED rtries
        BY <1>2, <3>2, <3>1 DEF MarkRefunded, TypeOK
      <3> QED
        BY <1>2, <3>1, <3>2 DEF MarkRefunded
    <2>2. record' \in [Requests -> {"none", "consumed", "refunded"}]
      BY <1>2 DEF MarkRefunded, TypeOK
    <2> QED
      BY <1>2, <2>1, <2>2 DEF MarkRefunded, TypeOK, control, history
  <1>3. CASE RefundExtra(r)
    <2>1. wallet' \in Int /\ used' \in [Subs -> Nat] /\ fundTaken' \in [Requests -> Int]
      <3>1. -ExtraReserved(r) \in Int
        BY <1>n DEF ExtraReserved
      <3> QED
        BY <1>3, <1>n, <3>1, TakeSubType DEF RefundExtra, TypeOK
    <2>2. rpc' \in [Requests -> RPCs] /\ scar' \in [Requests -> BOOLEAN]
      BY <1>3 DEF RefundExtra, TypeOK
    <2> QED
      BY <1>3, <2>1, <2>2 DEF RefundExtra, TypeOK, control
  <1>4. CASE RefundToken(r)
    <2>1. token' \in Int /\ tokTaken' \in [Requests -> Int]
      <3>1. -sess[r].tokenConsumed \in Int
        BY <1>n
      <3> QED
        BY <1>4, <3>1, TakeTokenType DEF RefundToken, TypeOK
    <2>2. rpc' \in [Requests -> RPCs] /\ scar' \in [Requests -> BOOLEAN]
      BY <1>4 DEF RefundToken, TypeOK
    <2> QED
      BY <1>4, <2>1, <2>2 DEF RefundToken, TypeOK, control
  <1> QED
    BY <1>1, <1>2, <1>3, <1>4 DEF RefundGoroutine

-----------------------------------------------------------------------------
(* A step of one request changes nothing the ledger of another looks at.   *)

Same(q) ==
    /\ pc'[q] = pc[q] /\ arg'[q] = arg[q] /\ sess'[q] = sess[q] /\ prof'[q] = prof[q]
    /\ rpc'[q] = rpc[q] /\ rtries'[q] = rtries[q]
    /\ fundTaken'[q] = fundTaken[q] /\ tokTaken'[q] = tokTaken[q] /\ scar'[q] = scar[q]

LEMMA Frame ==
  ASSUME TypeOK, NEW r \in Requests, Handler(r) \/ RefundGoroutine(r),
         NEW q \in Requests, q # r
  PROVE  Same(q)
  <1>t. /\ sess \in [Requests -> SessionType] /\ pc \in [Requests -> PCs]
        /\ arg \in [Requests -> Nat]
        /\ fundTaken \in [Requests -> Int] /\ tokTaken \in [Requests -> Int]
        /\ scar \in [Requests -> BOOLEAN] /\ rtries \in [Requests -> 0..MaxRefundAttempts]
        /\ rpc \in [Requests -> {"none", "funding", "mark", "extra", "token", "done"}]
    BY DEF TypeOK
  <1> USE DEF Same, accounts, control, refundVars, history
  <1>1. CASE PrepareRequestBilling(r)
    BY <1>t, <1>1 DEF PrepareRequestBilling, NewBillingSession, StartSession
  <1>2. CASE TryWallet(r)
    BY <1>t, <1>2 DEF TryWallet, Insufficient, NoBilling, StartSession
  <1>3. CASE PreConsumeToken(r)
    BY <1>t, <1>3 DEF PreConsumeToken, TakeToken, NoBilling
  <1>4. CASE PreConsumeFunding(r)
    BY <1>t, <1>4 DEF PreConsumeFunding, TakeWallet, PreConsumeSub
  <1>5. CASE RollbackToken(r)
    BY <1>t, <1>5 DEF RollbackToken, TakeToken, Insufficient, NoBilling, StartSession
  <1>6. CASE PrepareAttempt(r)
    BY <1>t, <1>6 DEF PrepareAttempt, NewBillingSession, StartSession, TakeFunding, TakeWallet, TakeSub
  <1>7. CASE ReserveToken(r)
    BY <1>t, <1>7 DEF ReserveToken, TakeToken
  <1>8. CASE RollbackFundingReserve(r)
    BY <1>t, <1>8 DEF RollbackFundingReserve, TakeFunding, TakeWallet, TakeSub
  <1>9. CASE Upstream(r)
    BY <1>t, <1>9 DEF Upstream
  <1>10. CASE SettleFunding(r)
    BY <1>t, <1>10 DEF SettleFunding, TakeFunding, TakeWallet, TakeSub
  <1>11. CASE SettleToken(r)
    BY <1>t, <1>11 DEF SettleToken, TakeToken
  <1>12. CASE Refund(r)
    BY <1>t, <1>12 DEF Refund
  <1>13. CASE ChargeFee(r)
    BY <1>t, <1>13 DEF ChargeFee
  <1>14. CASE ChargeFeeToken(r)
    BY <1>t, <1>14 DEF ChargeFeeToken
  <1>15. CASE RefundFunding(r)
    BY <1>t, <1>15 DEF RefundFunding, TakeWallet, TakeSub, RetryRefund
  <1>16. CASE MarkRefunded(r)
    BY <1>t, <1>16 DEF MarkRefunded, RetryRefund
  <1>17. CASE RefundExtra(r)
    BY <1>t, <1>17 DEF RefundExtra, TakeSub
  <1>18. CASE RefundToken(r)
    BY <1>t, <1>18 DEF RefundToken, TakeToken
  <1>19. CASE AttemptAborted(r)
    BY <1>t, <1>19 DEF AttemptAborted
  <1> QED
    BY <1>1, <1>2, <1>3, <1>4, <1>5, <1>6, <1>7, <1>8, <1>9, <1>19,
       <1>10, <1>11, <1>12, <1>13, <1>14, <1>15, <1>16, <1>17, <1>18 DEF Handler, RefundGoroutine

LEMMA SameLedger ==
  ASSUME NEW q \in Requests, Ledger(q), Same(q)
  PROVE  Ledger(q)'
  BY DEF Same, Ledger, SessionShape, GoroutineShape, ConsumedShape, FundingLedger,
         TokenLedger, TokenDue, TokenPart, Effective




-----------------------------------------------------------------------------
(* The ledger of the request that takes the step, one lemma per action.    *)
(* Each first says what the step does to the fields the ledger mentions.   *)

Typed(r) ==
    /\ sess \in [Requests -> SessionType] /\ pc \in [Requests -> PCs]
    /\ arg \in [Requests -> Nat] /\ fundTaken \in [Requests -> Int]
    /\ tokTaken \in [Requests -> Int] /\ scar \in [Requests -> BOOLEAN]
    /\ rpc \in [Requests -> {"none", "funding", "mark", "extra", "token", "done"}]
    /\ rtries \in [Requests -> 0..MaxRefundAttempts]
    /\ Effective(r) \in Nat
    /\ sess[r].consumed \in Int /\ sess[r].subPre \in Nat /\ sess[r].pre \in Nat
    /\ sess[r].tokenConsumed \in Nat /\ sess[r].extra \in Nat
    /\ sess[r].source \in {"none", "wallet", "subscription"}
    /\ sess[r].settled \in BOOLEAN /\ sess[r].refunded \in BOOLEAN
    /\ sess[r].fundingSettled \in BOOLEAN

LEMMA TypedFields ==
  ASSUME TypeOK, NEW r \in Requests
  PROVE  Typed(r)
  <1>1. sess[r] \in SessionType
    BY DEF TypeOK
  <1>2. /\ sess[r].consumed \in Int /\ sess[r].subPre \in Nat /\ sess[r].pre \in Nat
        /\ sess[r].tokenConsumed \in Nat /\ sess[r].extra \in Nat
        /\ sess[r].source \in {"none", "wallet", "subscription"}
        /\ sess[r].settled \in BOOLEAN /\ sess[r].refunded \in BOOLEAN
        /\ sess[r].fundingSettled \in BOOLEAN
    BY <1>1 DEF SessionType
  <1> QED
    BY <1>2, EffectiveType DEF Typed, TypeOK

USE DEF Ledger, SessionShape, GoroutineShape, ConsumedShape, FundingLedger, TokenLedger,
        TokenDue, TokenPart, BeforeFunding, TokenPending, Holding, Reserving, Failing

LEMMA InsufficientPost ==
  ASSUME TypeOK, NEW r \in Requests, Insufficient(r)
  PROVE  \/ pc'[r] = "preToken" /\ sess'[r] = FreshSession("subscription")
         \/ pc'[r] = "tryWallet" /\ sess'[r] = FreshSession("wallet")
         \/ pc'[r] = "rejected" /\ sess'[r] = FreshSession("none")
  BY DEF TypeOK, Insufficient, Untried, FallbackSource, FirstSource, NoBilling, NoSession,
         StartSession

LEMMA LedgerPrepareRequestBilling ==
  ASSUME TypeOK, NEW r \in Requests, Ledger(r), PrepareRequestBilling(r)
  PROVE  Ledger(r)'
  <1>t. Typed(r)
    BY TypedFields
  <1>a. /\ rpc'[r] = rpc[r] /\ rtries'[r] = rtries[r] /\ fundTaken'[r] = fundTaken[r] /\ tokTaken'[r] = tokTaken[r]
        /\ scar'[r] = scar[r] /\ prof'[r] = prof[r]
        /\ pc[r] = "idle"
    BY DEF PrepareRequestBilling, refundVars, history
  <1>b. \/ pc'[r] = "preToken" /\ sess'[r] = FreshSession("subscription")
        \/ pc'[r] = "tryWallet" /\ sess'[r] = FreshSession("wallet")
        \/ pc'[r] \in {"ready", "rejected"} /\ sess'[r] = sess[r]
    BY <1>t DEF Typed, PrepareRequestBilling, NewBillingSession, StartSession, FirstSource
  <1> QED
    BY <1>t, <1>a, <1>b DEF Typed, FreshSession

LEMMA LedgerTryWallet ==
  ASSUME TypeOK, NEW r \in Requests, Ledger(r), TryWallet(r)
  PROVE  Ledger(r)'
  <1>t. Typed(r)
    BY TypedFields
  <1>a. /\ arg'[r] = arg[r] /\ rpc'[r] = rpc[r] /\ rtries'[r] = rtries[r] /\ fundTaken'[r] = fundTaken[r]
        /\ tokTaken'[r] = tokTaken[r] /\ scar'[r] = scar[r] /\ prof'[r] = prof[r]
        /\ pc[r] = "tryWallet"
    BY DEF TryWallet, refundVars, history
  <1>b. CASE Insufficient(r)
    BY <1>a, <1>b, InsufficientPost DEF FreshSession
  <1>c. CASE ~(wallet <= 0 \/ wallet < arg[r])
    <2>1. /\ pc'[r] \in {"ready", "preToken"}
          /\ sess'[r] = [sess[r] EXCEPT !.trusted = ShouldTrust(r)]
      BY <1>t, <1>c DEF TryWallet, Typed
    <2>2. /\ sess'[r].source = sess[r].source /\ sess'[r].consumed = sess[r].consumed /\ sess'[r].subPre = sess[r].subPre
          /\ sess'[r].pre = sess[r].pre /\ sess'[r].tokenConsumed = sess[r].tokenConsumed /\ sess'[r].extra = sess[r].extra
          /\ sess'[r].fundingSettled = sess[r].fundingSettled /\ sess'[r].settled = sess[r].settled /\ sess'[r].refunded = sess[r].refunded
      BY <1>t, <2>1 DEF Typed, SessionType
    <2> QED
      BY <1>a, <2>1, <2>2
  <1> QED
    BY <1>b, <1>c DEF TryWallet

LEMMA LedgerPreConsumeToken ==
  ASSUME TypeOK, NEW r \in Requests, Ledger(r), PreConsumeToken(r)
  PROVE  Ledger(r)'
  <1>t. Typed(r)
    BY TypedFields
  <1>a. /\ arg'[r] = arg[r] /\ rpc'[r] = rpc[r] /\ rtries'[r] = rtries[r] /\ fundTaken'[r] = fundTaken[r]
        /\ scar'[r] = scar[r] /\ prof'[r] = prof[r]
        /\ pc[r] = "preToken"
    BY DEF PreConsumeToken, refundVars
  <1>b. CASE NoBilling(r) /\ UNCHANGED <<token, tokTaken>>
    BY <1>t, <1>a, <1>b DEF Typed, NoBilling, NoSession, FreshSession
  <1>c. CASE /\ TakeToken(r, Effective(r)) /\ Goto(r, "preFunding")
             /\ sess' = [sess EXCEPT ![r].tokenConsumed = Effective(r)]
    <2>1. /\ pc'[r] = "preFunding"
          /\ tokTaken'[r] = tokTaken[r] + TokenPart(r, Effective(r))
          /\ sess'[r] = [sess[r] EXCEPT !.tokenConsumed = Effective(r)]
      BY <1>t, <1>c DEF Typed, TakeToken
    <2>2. /\ sess'[r].source = sess[r].source /\ sess'[r].consumed = sess[r].consumed /\ sess'[r].subPre = sess[r].subPre
          /\ sess'[r].pre = sess[r].pre /\ sess'[r].tokenConsumed = Effective(r) /\ sess'[r].extra = sess[r].extra
          /\ sess'[r].fundingSettled = sess[r].fundingSettled /\ sess'[r].settled = sess[r].settled /\ sess'[r].refunded = sess[r].refunded
      BY <1>t, <2>1 DEF Typed, SessionType
    <2> QED
      BY <1>t, <1>a, <2>1, <2>2 DEF Typed, Effective
  <1> QED
    BY <1>b, <1>c DEF PreConsumeToken

LEMMA LedgerPreConsumeFunding ==
  ASSUME TypeOK, NEW r \in Requests, Ledger(r), PreConsumeFunding(r)
  PROVE  Ledger(r)'
  <1>t. Typed(r)
    BY TypedFields
  <1>a. /\ arg'[r] = arg[r] /\ rpc'[r] = rpc[r] /\ rtries'[r] = rtries[r] /\ tokTaken'[r] = tokTaken[r]
        /\ scar'[r] = scar[r] /\ prof'[r] = prof[r]
        /\ pc[r] = "preFunding"
    BY DEF PreConsumeFunding, refundVars
  <1>b. CASE /\ sess[r].source = "wallet" /\ TakeWallet(r, Effective(r)) /\ Goto(r, "ready")
             /\ sess' = [sess EXCEPT ![r] = FundedByWallet(@, Effective(r))]
    <2>1. /\ pc'[r] = "ready" /\ fundTaken'[r] = fundTaken[r] + Effective(r)
          /\ sess'[r] = FundedByWallet(sess[r], Effective(r))
      BY <1>t, <1>b DEF Typed, TakeWallet
    <2>2. /\ sess'[r].source = sess[r].source /\ sess'[r].consumed = Effective(r) /\ sess'[r].subPre = sess[r].subPre
          /\ sess'[r].pre = Effective(r) /\ sess'[r].tokenConsumed = sess[r].tokenConsumed /\ sess'[r].extra = sess[r].extra
          /\ sess'[r].fundingSettled = sess[r].fundingSettled /\ sess'[r].settled = sess[r].settled /\ sess'[r].refunded = sess[r].refunded
      BY <1>t, <2>1 DEF Typed, SessionType, FundedByWallet
    <2> QED
      BY <1>t, <1>a, <1>b, <2>1, <2>2 DEF Typed
  <1>c. CASE \E s \in Subs :
               /\ sess[r].source = "subscription" /\ PreConsumeSub(r, s, Effective(r))
               /\ sess' = [sess EXCEPT ![r] = FundedBySub(@, s, Effective(r))]
               /\ Goto(r, "ready")
    <2>1. PICK s \in Subs :
            /\ sess[r].source = "subscription" /\ pc'[r] = "ready"
            /\ fundTaken'[r] = fundTaken[r] + Effective(r)
            /\ sess'[r] = FundedBySub(sess[r], s, Effective(r))
      BY <1>t, <1>c DEF Typed, PreConsumeSub
    <2>2. /\ sess'[r].source = sess[r].source /\ sess'[r].consumed = sess[r].consumed /\ sess'[r].subPre = Effective(r)
          /\ sess'[r].pre = Effective(r) /\ sess'[r].tokenConsumed = sess[r].tokenConsumed /\ sess'[r].extra = sess[r].extra
          /\ sess'[r].fundingSettled = sess[r].fundingSettled /\ sess'[r].settled = sess[r].settled /\ sess'[r].refunded = sess[r].refunded
      BY <1>t, <2>1 DEF Typed, SessionType, FundedBySub
    <2> QED
      BY <1>t, <1>a, <2>1, <2>2 DEF Typed
  <1>d. CASE /\ \E l \in {"rollbackNext", "rollbackReject"} : Goto(r, l)
             /\ UNCHANGED <<wallet, used, record, sess, fundTaken>>
    BY <1>t, <1>a, <1>d DEF Typed, Effective
  <1> QED
    BY <1>b, <1>c, <1>d DEF PreConsumeFunding

LEMMA LedgerRollbackToken ==
  ASSUME TypeOK, NEW r \in Requests, Ledger(r), RollbackToken(r)
  PROVE  Ledger(r)'
  <1>t. Typed(r)
    BY TypedFields
  <1>a. /\ arg'[r] = arg[r] /\ rpc'[r] = rpc[r] /\ rtries'[r] = rtries[r] /\ fundTaken'[r] = fundTaken[r]
        /\ prof'[r] = prof[r]
        /\ pc[r] \in {"rollbackNext", "rollbackReject"}
    BY DEF RollbackToken, refundVars
  <1>b. \/ tokTaken'[r] = tokTaken[r] - TokenPart(r, sess[r].tokenConsumed) /\ scar'[r] = scar[r]
        \/ tokTaken'[r] = tokTaken[r] /\ scar'[r] = TRUE
    BY <1>t DEF Typed, RollbackToken, TakeToken
  <1>c. \/ pc'[r] = "preToken" /\ sess'[r] = FreshSession("subscription")
        \/ pc'[r] = "tryWallet" /\ sess'[r] = FreshSession("wallet")
        \/ pc'[r] = "rejected" /\ sess'[r] = FreshSession("none")
    BY <1>t, InsufficientPost DEF Typed, RollbackToken, NoBilling, NoSession
  <1> QED
    BY <1>t, <1>a, <1>b, <1>c DEF Typed, FreshSession

LEMMA LedgerPrepareAttempt ==
  ASSUME TypeOK, NEW r \in Requests, Ledger(r), PrepareAttempt(r)
  PROVE  Ledger(r)'
  <1>t. Typed(r)
    BY TypedFields
  <1>a. /\ rpc'[r] = rpc[r] /\ rtries'[r] = rtries[r] /\ tokTaken'[r] = tokTaken[r] /\ scar'[r] = scar[r]
        /\ prof'[r] = prof[r]
        /\ pc[r] = "ready"
    BY DEF PrepareAttempt, refundVars
  <1>1. PICK target \in Amounts :
          \/ /\ ~HasSession(r) /\ NewBillingSession(r, target)
             /\ UNCHANGED <<wallet, used, fundTaken>>
          \/ Goto(r, "upstream") /\ UNCHANGED <<wallet, used, fundTaken, sess, arg>>
          \/ /\ HasSession(r) /\ ~ReserveSkips(r, target)
             /\ TakeFunding(r, target - sess[r].pre)
             /\ sess' = IF sess[r].source # "wallet" THEN sess
                        ELSE [sess EXCEPT ![r].consumed =
                                  ConsumedAfterReserve(r, target - sess[r].pre)]
             /\ arg' = [arg EXCEPT ![r] = target - sess[r].pre]
             /\ Goto(r, "reserveToken")
          \/ /\ arg' = [arg EXCEPT ![r] = 0]
             /\ Goto(r, "fail") /\ UNCHANGED <<wallet, used, fundTaken, sess>>
    BY DEF PrepareAttempt
  <1>n. target \in Nat
    BY ConstantsAssumption
  <1>b. CASE /\ ~HasSession(r) /\ NewBillingSession(r, target)
             /\ UNCHANGED <<wallet, used, fundTaken>>
    <2>1. \/ pc'[r] = "preToken" /\ sess'[r] = FreshSession("subscription")
          \/ pc'[r] = "tryWallet" /\ sess'[r] = FreshSession("wallet")
      BY <1>t, <1>b DEF Typed, NewBillingSession, StartSession, FirstSource
    <2> QED
      BY <1>t, <1>a, <1>b, <2>1 DEF Typed, FreshSession, HasSession
  <1>c. CASE Goto(r, "upstream") /\ UNCHANGED <<wallet, used, fundTaken, sess, arg>>
    BY <1>t, <1>a, <1>c DEF Typed
  <1>d. CASE /\ HasSession(r) /\ ~ReserveSkips(r, target)
             /\ TakeFunding(r, target - sess[r].pre)
             /\ sess' = IF sess[r].source # "wallet" THEN sess
                        ELSE [sess EXCEPT ![r].consumed =
                                  ConsumedAfterReserve(r, target - sess[r].pre)]
             /\ arg' = [arg EXCEPT ![r] = target - sess[r].pre]
             /\ Goto(r, "reserveToken")
    <2> DEFINE delta == target - sess[r].pre
    <2>0. sess[r].source # "none" /\ delta \in Nat /\ delta > 0
      BY <1>t, <1>n, <1>d DEF Typed, HasSession, ReserveSkips
    <2>1. pc'[r] = "reserveToken" /\ arg'[r] = delta /\ fundTaken'[r] = fundTaken[r] + delta
      BY <1>t, <1>d DEF Typed, TakeFunding, TakeWallet, TakeSub
    <2>2. CASE sess[r].source # "wallet"
      BY <1>t, <1>a, <1>d, <2>0, <2>1, <2>2 DEF Typed
    <2>3. CASE sess[r].source = "wallet"
      <3>1. sess'[r] = [sess[r] EXCEPT !.consumed = ConsumedAfterReserve(r, delta)]
        BY <1>t, <1>d, <2>3 DEF Typed
      <3>2. /\ sess'[r].source = sess[r].source /\ sess'[r].consumed = ConsumedAfterReserve(r, delta) /\ sess'[r].subPre = sess[r].subPre
            /\ sess'[r].pre = sess[r].pre /\ sess'[r].tokenConsumed = sess[r].tokenConsumed /\ sess'[r].extra = sess[r].extra
            /\ sess'[r].fundingSettled = sess[r].fundingSettled /\ sess'[r].settled = sess[r].settled /\ sess'[r].refunded = sess[r].refunded
        BY <1>t, <3>1 DEF Typed, SessionType
      <3> QED
        BY <1>t, <1>a, <2>0, <2>1, <2>3, <3>2 DEF Typed, ConsumedAfterReserve
    <2> QED
      BY <2>2, <2>3
  <1>e. CASE /\ arg' = [arg EXCEPT ![r] = 0]
             /\ Goto(r, "fail") /\ UNCHANGED <<wallet, used, fundTaken, sess>>
    BY <1>t, <1>a, <1>e DEF Typed
  <1> QED
    BY <1>1, <1>b, <1>c, <1>d, <1>e

LEMMA LedgerReserveToken ==
  ASSUME TypeOK, NEW r \in Requests, Ledger(r), ReserveToken(r)
  PROVE  Ledger(r)'
  <1>t. Typed(r)
    BY TypedFields
  <1>a. /\ arg'[r] = arg[r] /\ rpc'[r] = rpc[r] /\ rtries'[r] = rtries[r] /\ fundTaken'[r] = fundTaken[r]
        /\ scar'[r] = scar[r] /\ prof'[r] = prof[r]
        /\ pc[r] = "reserveToken"
    BY DEF ReserveToken, refundVars
  <1>b. CASE /\ TakeToken(r, arg[r]) /\ Goto(r, "upstream")
             /\ sess' = [sess EXCEPT ![r] = Reserved(@, arg[r], prof[r].image)]
    <2>1. /\ pc'[r] = "upstream" /\ tokTaken'[r] = tokTaken[r] + TokenPart(r, arg[r])
          /\ sess'[r] = Reserved(sess[r], arg[r], prof[r].image)
      BY <1>t, <1>b DEF Typed, TakeToken
    <2>2. /\ sess'[r].source = sess[r].source /\ sess'[r].consumed = sess[r].consumed /\ sess'[r].subPre = sess[r].subPre
          /\ sess'[r].pre = sess[r].pre + arg[r] /\ sess'[r].tokenConsumed = sess[r].tokenConsumed + arg[r] /\ sess'[r].extra = sess[r].extra + arg[r]
          /\ sess'[r].fundingSettled = sess[r].fundingSettled /\ sess'[r].settled = sess[r].settled /\ sess'[r].refunded = sess[r].refunded
      BY <1>t, <2>1 DEF Typed, SessionType, Reserved
    <2> QED
      BY <1>t, <1>a, <2>1, <2>2 DEF Typed
  <1>c. CASE Goto(r, "reserveRollback") /\ UNCHANGED <<token, tokTaken, sess>>
    BY <1>t, <1>a, <1>c DEF Typed
  <1> QED
    BY <1>b, <1>c DEF ReserveToken

LEMMA LedgerRollbackFundingReserve ==
  ASSUME TypeOK, NEW r \in Requests, Ledger(r), RollbackFundingReserve(r)
  PROVE  Ledger(r)'
  <1>t. Typed(r)
    BY TypedFields
  <1>a. /\ rpc'[r] = rpc[r] /\ rtries'[r] = rtries[r] /\ tokTaken'[r] = tokTaken[r] /\ prof'[r] = prof[r]
        /\ pc[r] = "reserveRollback"
    BY DEF RollbackFundingReserve, refundVars
  <1>p. pc'[r] = "fail"
    BY <1>t DEF Typed, RollbackFundingReserve
  <1>b. CASE scar'[r] = TRUE /\ UNCHANGED <<wallet, used, fundTaken, sess>>
    BY <1>t, <1>a, <1>p, <1>b DEF Typed
  <1>c. CASE /\ TakeFunding(r, -arg[r]) /\ UNCHANGED scar
             /\ sess' = IF sess[r].source # "wallet" THEN sess
                        ELSE [sess EXCEPT ![r].consumed = ConsumedAfterRollback(r)]
    <2>1. fundTaken'[r] = fundTaken[r] - arg[r] /\ scar'[r] = scar[r]
      BY <1>t, <1>c DEF Typed, TakeFunding, TakeWallet, TakeSub
    <2>2. CASE sess[r].source # "wallet"
      BY <1>t, <1>a, <1>p, <1>c, <2>1, <2>2 DEF Typed
    <2>3. CASE sess[r].source = "wallet"
      <3>1. sess'[r] = [sess[r] EXCEPT !.consumed = ConsumedAfterRollback(r)]
        BY <1>t, <1>c, <2>3 DEF Typed
      <3>2. /\ sess'[r].source = sess[r].source /\ sess'[r].consumed = ConsumedAfterRollback(r) /\ sess'[r].subPre = sess[r].subPre
            /\ sess'[r].pre = sess[r].pre /\ sess'[r].tokenConsumed = sess[r].tokenConsumed /\ sess'[r].extra = sess[r].extra
            /\ sess'[r].fundingSettled = sess[r].fundingSettled /\ sess'[r].settled = sess[r].settled /\ sess'[r].refunded = sess[r].refunded
        BY <1>t, <3>1 DEF Typed, SessionType
      <3> QED
        BY <1>t, <1>a, <1>p, <2>1, <2>3, <3>2 DEF Typed, ConsumedAfterRollback
    <2> QED
      BY <2>2, <2>3
  <1> QED
    BY <1>t, <1>b, <1>c DEF Typed, RollbackFundingReserve

LEMMA LedgerAttemptAborted ==
  ASSUME TypeOK, NEW r \in Requests, Ledger(r), AttemptAborted(r)
  PROVE  Ledger(r)'
  <1>t. Typed(r)
    BY TypedFields
  <1>a. /\ rpc'[r] = rpc[r] /\ rtries'[r] = rtries[r] /\ fundTaken'[r] = fundTaken[r] /\ tokTaken'[r] = tokTaken[r]
        /\ scar'[r] = scar[r] /\ prof'[r] = prof[r]
        /\ sess'[r] = sess[r] /\ pc[r] = "ready"
    BY DEF AttemptAborted, refundVars, history
  <1>b. pc'[r] = "fail"
    BY <1>t DEF Typed, AttemptAborted
  <1> QED
    BY <1>t, <1>a, <1>b DEF Typed

LEMMA LedgerUpstream ==
  ASSUME TypeOK, NEW r \in Requests, Ledger(r), Upstream(r)
  PROVE  Ledger(r)'
  <1>t. Typed(r)
    BY TypedFields
  <1>a. /\ rpc'[r] = rpc[r] /\ rtries'[r] = rtries[r] /\ fundTaken'[r] = fundTaken[r] /\ tokTaken'[r] = tokTaken[r]
        /\ scar'[r] = scar[r] /\ prof'[r] = prof[r]
        /\ sess'[r] = sess[r] /\ pc[r] = "upstream"
    BY DEF Upstream, refundVars, history
  <1>b. pc'[r] \in {"settleFunding", "ready", "fail", "panicked"}
    BY <1>t DEF Typed, Upstream
  <1> QED
    BY <1>t, <1>a, <1>b DEF Typed

LEMMA LedgerSettleFunding ==
  ASSUME TypeOK, NEW r \in Requests, Ledger(r), SettleFunding(r)
  PROVE  Ledger(r)'
  <1>t. Typed(r)
    BY TypedFields
  <1>a. /\ arg'[r] = arg[r] /\ rpc'[r] = rpc[r] /\ rtries'[r] = rtries[r] /\ tokTaken'[r] = tokTaken[r]
        /\ scar'[r] = scar[r] /\ prof'[r] = prof[r]
        /\ pc[r] = "settleFunding"
    BY DEF SettleFunding, refundVars
  <1>b. CASE /\ SettleDelta(r) = 0 /\ Goto(r, "succeeded")
             /\ sess' = [sess EXCEPT ![r].settled = HasSession(r)]
             /\ UNCHANGED <<wallet, used, fundTaken>>
    <2>1. sess'[r] = [sess[r] EXCEPT !.settled = HasSession(r)]
      BY <1>t, <1>b DEF Typed
    <2>2. /\ sess'[r].source = sess[r].source /\ sess'[r].consumed = sess[r].consumed /\ sess'[r].subPre = sess[r].subPre
          /\ sess'[r].pre = sess[r].pre /\ sess'[r].tokenConsumed = sess[r].tokenConsumed /\ sess'[r].extra = sess[r].extra
          /\ sess'[r].fundingSettled = sess[r].fundingSettled /\ sess'[r].settled = HasSession(r) /\ sess'[r].refunded = sess[r].refunded
      BY <1>t, <2>1 DEF Typed, SessionType
    <2>3. pc'[r] = "succeeded" /\ fundTaken'[r] = fundTaken[r] /\ arg[r] = sess[r].pre
      BY <1>t, <1>b DEF Typed, SettleDelta
    <2> QED
      BY <1>t, <1>a, <2>2, <2>3 DEF Typed, HasSession
  <1>c. CASE /\ TakeFunding(r, SettleDelta(r)) /\ Goto(r, "settleToken")
             /\ sess' = [sess EXCEPT ![r].fundingSettled = HasSession(r)]
    <2>1. sess'[r] = [sess[r] EXCEPT !.fundingSettled = HasSession(r)]
      BY <1>t, <1>c DEF Typed
    <2>2. /\ sess'[r].source = sess[r].source /\ sess'[r].consumed = sess[r].consumed /\ sess'[r].subPre = sess[r].subPre
          /\ sess'[r].pre = sess[r].pre /\ sess'[r].tokenConsumed = sess[r].tokenConsumed /\ sess'[r].extra = sess[r].extra
          /\ sess'[r].fundingSettled = HasSession(r) /\ sess'[r].settled = sess[r].settled /\ sess'[r].refunded = sess[r].refunded
      BY <1>t, <2>1 DEF Typed, SessionType
    <2>3. pc'[r] = "settleToken" /\ fundTaken'[r] = fundTaken[r] + (arg[r] - sess[r].pre)
      BY <1>t, <1>c DEF Typed, SettleDelta, TakeFunding, TakeWallet, TakeSub
    <2> QED
      BY <1>t, <1>a, <2>2, <2>3 DEF Typed, HasSession
  <1>d. CASE Goto(r, "succeeded") /\ UNCHANGED <<wallet, used, fundTaken, sess>>
    BY <1>t, <1>a, <1>d DEF Typed
  <1> QED
    BY <1>b, <1>c, <1>d DEF SettleFunding

LEMMA LedgerSettleToken ==
  ASSUME TypeOK, NEW r \in Requests, Ledger(r), SettleToken(r)
  PROVE  Ledger(r)'
  <1>t. Typed(r)
    BY TypedFields
  <1>a. /\ arg'[r] = arg[r] /\ rpc'[r] = rpc[r] /\ rtries'[r] = rtries[r] /\ fundTaken'[r] = fundTaken[r]
        /\ prof'[r] = prof[r]
        /\ pc[r] = "settleToken"
    BY DEF SettleToken, refundVars
  <1>1. sess'[r] = [sess[r] EXCEPT !.settled = HasSession(r)] /\ pc'[r] = "succeeded"
    BY <1>t DEF Typed, SettleToken
  <1>2. /\ sess'[r].source = sess[r].source /\ sess'[r].consumed = sess[r].consumed /\ sess'[r].subPre = sess[r].subPre
        /\ sess'[r].pre = sess[r].pre /\ sess'[r].tokenConsumed = sess[r].tokenConsumed /\ sess'[r].extra = sess[r].extra
        /\ sess'[r].fundingSettled = sess[r].fundingSettled /\ sess'[r].settled = HasSession(r) /\ sess'[r].refunded = sess[r].refunded
    BY <1>t, <1>1 DEF Typed, SessionType
  <1>3. \/ /\ tokTaken'[r] = tokTaken[r] + TokenPart(r, arg[r] - sess[r].pre)
           /\ scar'[r] = scar[r]
        \/ tokTaken'[r] = tokTaken[r] /\ scar'[r] = TRUE
    BY <1>t DEF Typed, SettleToken, SettleDelta, TakeToken
  <1>h. HasSession(r) <=> sess[r].source # "none"
    BY DEF HasSession
  <1>p. fundTaken[r] = arg[r] /\ fundTaken'[r] = arg[r] /\ arg'[r] = arg[r]
    BY <1>a
  <1>4. FundingLedger(r)'
    BY <1>t, <1>a, <1>1, <1>2, <1>h, <1>p DEF Typed
  <1>5. SessionShape(r)' /\ GoroutineShape(r)' /\ ConsumedShape(r)'
    BY <1>t, <1>a, <1>1, <1>2 DEF Typed, HasSession
  <1>6. TokenLedger(r)'
    <2>1. /\ tokTaken[r] >= TokenPart(r, sess[r].pre)
          /\ ~scar[r] => tokTaken[r] = TokenPart(r, sess[r].pre)
      BY <1>t, <1>a DEF Typed
    <2>2. /\ tokTaken'[r] >= 0
          /\ ~scar'[r] => tokTaken'[r] = TokenPart(r, arg[r])
      BY <1>t, <1>3, <2>1 DEF Typed
    <2>3. sess[r].source # "none" => sess'[r].settled
      BY <1>2, <1>h
    <2> QED
      BY <1>a, <1>1, <1>2, <2>2, <2>3
  <1> QED
    BY <1>4, <1>5, <1>6

LEMMA LedgerRefund ==
  ASSUME TypeOK, NEW r \in Requests, Ledger(r), Refund(r)
  PROVE  Ledger(r)'
  <1>t. Typed(r)
    BY TypedFields
  <1>a. /\ arg'[r] = arg[r] /\ rtries'[r] = rtries[r] /\ fundTaken'[r] = fundTaken[r] /\ tokTaken'[r] = tokTaken[r]
        /\ scar'[r] = scar[r] /\ prof'[r] = prof[r]
        /\ pc[r] = "fail"
    BY DEF Refund, history
  <1>p. pc'[r] \in {"fee", "failed"}
    BY <1>t DEF Typed, Refund
  <1>b. CASE NeedsRefund(r)
    <2>1. sess'[r] = [sess[r] EXCEPT !.refunded = TRUE] /\ rpc'[r] = "funding"
      BY <1>t, <1>b DEF Typed, Refund
    <2>2. /\ sess'[r].source = sess[r].source /\ sess'[r].consumed = sess[r].consumed /\ sess'[r].subPre = sess[r].subPre
          /\ sess'[r].pre = sess[r].pre /\ sess'[r].tokenConsumed = sess[r].tokenConsumed /\ sess'[r].extra = sess[r].extra
          /\ sess'[r].fundingSettled = sess[r].fundingSettled /\ sess'[r].settled = sess[r].settled /\ sess'[r].refunded = TRUE
      BY <1>t, <2>1 DEF Typed, SessionType
    <2>3. sess[r].source # "none"
      BY <1>t, <1>a, <1>b DEF Typed, NeedsRefund
    <2> QED
      BY <1>t, <1>a, <1>p, <2>1, <2>2, <2>3 DEF Typed
  <1>c. CASE ~NeedsRefund(r)
    <2>1. sess'[r] = sess[r] /\ rpc'[r] = rpc[r]
      BY <1>c DEF Refund
    <2>2. sess[r].pre = 0
      BY <1>t, <1>a, <1>c DEF Typed, NeedsRefund
    <2> QED
      BY <1>t, <1>a, <1>p, <2>1, <2>2 DEF Typed
  <1> QED
    BY <1>b, <1>c

LEMMA LedgerChargeFee ==
  ASSUME TypeOK, NEW r \in Requests, Ledger(r), ChargeFee(r)
  PROVE  Ledger(r)'
  <1>t. Typed(r)
    BY TypedFields
  <1>a. /\ arg'[r] = arg[r] /\ rpc'[r] = rpc[r] /\ rtries'[r] = rtries[r] /\ fundTaken'[r] = fundTaken[r]
        /\ tokTaken'[r] = tokTaken[r] /\ scar'[r] = scar[r] /\ prof'[r] = prof[r]
        /\ sess'[r] = sess[r] /\ pc[r] = "fee"
    BY DEF ChargeFee, refundVars
  <1>b. pc'[r] \in {"feeToken", "failed"}
    BY <1>t DEF Typed, ChargeFee
  <1> QED
    BY <1>t, <1>a, <1>b DEF Typed

LEMMA LedgerChargeFeeToken ==
  ASSUME TypeOK, NEW r \in Requests, Ledger(r), ChargeFeeToken(r)
  PROVE  Ledger(r)'
  <1>t. Typed(r)
    BY TypedFields
  <1>a. /\ arg'[r] = arg[r] /\ rpc'[r] = rpc[r] /\ rtries'[r] = rtries[r] /\ fundTaken'[r] = fundTaken[r]
        /\ tokTaken'[r] = tokTaken[r] /\ scar'[r] = scar[r] /\ prof'[r] = prof[r]
        /\ sess'[r] = sess[r] /\ pc[r] = "feeToken"
    BY DEF ChargeFeeToken, refundVars
  <1>b. pc'[r] \in {"failed"}
    BY <1>t DEF Typed, ChargeFeeToken
  <1> QED
    BY <1>t, <1>a, <1>b DEF Typed

LEMMA LedgerRefundFunding ==
  ASSUME TypeOK, NEW r \in Requests, Ledger(r), RefundFunding(r)
  PROVE  Ledger(r)'
  <1>t. Typed(r)
    BY TypedFields
  <1>a. /\ pc'[r] = pc[r] /\ arg'[r] = arg[r] /\ tokTaken'[r] = tokTaken[r] /\ prof'[r] = prof[r]
        /\ sess'[r] = sess[r] /\ rpc[r] = "funding"
    BY DEF RefundFunding, control
  <1>b. CASE /\ sess[r].source = "wallet" /\ TakeWallet(r, -Larger(sess[r].consumed, 0))
             /\ rpc' = [rpc EXCEPT ![r] = "token"] /\ UNCHANGED <<rtries, scar>>
    <2>1. /\ rpc'[r] = "token" /\ rtries'[r] = rtries[r] /\ scar'[r] = scar[r]
          /\ fundTaken'[r] = fundTaken[r] - sess[r].consumed
      BY <1>t, <1>b DEF Typed, TakeWallet, Larger
    <2> QED
      BY <1>t, <1>a, <1>b, <2>1 DEF Typed
  <1>c. CASE /\ sess[r].source = "subscription" /\ TakeSub(r, sess[r].sub, -sess[r].subPre)
             /\ rpc' = [rpc EXCEPT ![r] = "mark"] /\ UNCHANGED <<rtries, scar>>
    <2>1. /\ rpc'[r] = "mark" /\ rtries'[r] = rtries[r] /\ scar'[r] = scar[r]
          /\ fundTaken'[r] = fundTaken[r] - sess[r].subPre
      BY <1>t, <1>c DEF Typed, TakeSub
    <2>p. pc[r] \in {"fee", "feeToken", "failed"} /\ sess[r].pre = sess[r].subPre + sess[r].extra
      BY <1>t, <1>a, <1>c DEF Typed
    <2>2. MarkReliable => /\ fundTaken'[r] >= sess[r].extra
                          /\ ~scar[r] => fundTaken'[r] = sess[r].extra
      BY <1>t, <1>a, <2>1, <2>p DEF Typed
    <2>3. FundingLedger(r)'
      BY <1>a, <2>1, <2>2, <2>p DEF MarkReliable
    <2>c. ConsumedShape(r)'
      BY <1>t, <1>a, <2>1, <2>p DEF Typed
    <2>4. SessionShape(r)' /\ GoroutineShape(r)' /\ TokenLedger(r)'
      BY <1>t, <1>a, <1>c, <2>1 DEF Typed
    <2> QED
      BY <2>3, <2>c, <2>4
  <1>d. CASE /\ sess[r].source = "wallet" /\ rpc' = [rpc EXCEPT ![r] = "token"]
             /\ scar' = [scar EXCEPT ![r] = TRUE]
             /\ UNCHANGED <<wallet, used, fundTaken, rtries>>
    BY <1>t, <1>a, <1>d DEF Typed
  <1>e. CASE /\ sess[r].source = "subscription" /\ RetryRefund(r)
             /\ scar' = [scar EXCEPT ![r] = @ \/ rtries[r] + 1 = MaxRefundAttempts]
             /\ UNCHANGED <<wallet, used, fundTaken>>
    <2>1. /\ rtries'[r] = rtries[r] + 1 /\ fundTaken'[r] = fundTaken[r]
          /\ scar'[r] = (scar[r] \/ rtries[r] + 1 = 3)
          /\ rpc'[r] = IF rtries[r] + 1 < 3 THEN "funding" ELSE "extra"
      BY <1>t, <1>e DEF Typed, RetryRefund
    <2> QED
      BY <1>t, <1>a, <1>e, <2>1 DEF Typed
  <1> QED
    BY <1>b, <1>c, <1>d, <1>e DEF RefundFunding

LEMMA LedgerMarkRefunded ==
  ASSUME TypeOK, NEW r \in Requests, Ledger(r), MarkRefunded(r)
  PROVE  Ledger(r)'
  <1>t. Typed(r)
    BY TypedFields
  <1>a. /\ pc'[r] = pc[r] /\ arg'[r] = arg[r] /\ fundTaken'[r] = fundTaken[r] /\ tokTaken'[r] = tokTaken[r]
        /\ scar'[r] = scar[r] /\ prof'[r] = prof[r]
        /\ sess'[r] = sess[r] /\ rpc[r] = "mark"
    BY DEF MarkRefunded, control, history
  <1>b. CASE rpc' = [rpc EXCEPT ![r] = "extra"] /\ UNCHANGED rtries
    BY <1>t, <1>a, <1>b DEF Typed
  <1>c. CASE "mark" \in FaultyOps /\ RetryRefund(r)
    <2>1. /\ rtries'[r] = rtries[r] + 1
          /\ rpc'[r] = IF rtries[r] + 1 < 3 THEN "funding" ELSE "extra"
      BY <1>t, <1>c DEF Typed, RetryRefund
    <2> QED
      BY <1>t, <1>a, <1>c, <2>1 DEF Typed, MarkReliable
  <1> QED
    BY <1>b, <1>c DEF MarkRefunded

LEMMA LedgerRefundExtra ==
  ASSUME TypeOK, NEW r \in Requests, Ledger(r), RefundExtra(r)
  PROVE  Ledger(r)'
  <1>t. Typed(r)
    BY TypedFields
  <1>a. /\ pc'[r] = pc[r] /\ arg'[r] = arg[r] /\ rtries'[r] = rtries[r] /\ tokTaken'[r] = tokTaken[r]
        /\ prof'[r] = prof[r]
        /\ sess'[r] = sess[r] /\ rpc[r] = "extra"
    BY DEF RefundExtra, control
  <1>b. /\ rpc'[r] = "token"
        /\ \/ fundTaken'[r] = fundTaken[r] - sess[r].extra /\ scar'[r] = scar[r]
           \/ fundTaken'[r] = fundTaken[r] /\ scar'[r] = TRUE
    BY <1>t DEF Typed, RefundExtra, TakeSub, ExtraReserved
  <1> QED
    BY <1>t, <1>a, <1>b DEF Typed

LEMMA LedgerRefundToken ==
  ASSUME TypeOK, NEW r \in Requests, Ledger(r), RefundToken(r)
  PROVE  Ledger(r)'
  <1>t. Typed(r)
    BY TypedFields
  <1>a. /\ pc'[r] = pc[r] /\ arg'[r] = arg[r] /\ rtries'[r] = rtries[r] /\ fundTaken'[r] = fundTaken[r]
        /\ prof'[r] = prof[r]
        /\ sess'[r] = sess[r] /\ rpc[r] = "token"
    BY DEF RefundToken, control
  <1>b. /\ rpc'[r] = "done"
        /\ \/ tokTaken'[r] = tokTaken[r] - TokenPart(r, sess[r].tokenConsumed) /\ scar'[r] = scar[r]
           \/ tokTaken'[r] = tokTaken[r] /\ scar'[r] = TRUE
    BY <1>t DEF Typed, RefundToken, TakeToken
  <1> QED
    BY <1>t, <1>a, <1>b DEF Typed

-----------------------------------------------------------------------------
(* The theorems                                                            *)

LEMMA InitLedger == Init => \A r \in Requests : Ledger(r)
  <1> SUFFICES ASSUME Init, NEW r \in Requests PROVE Ledger(r)
    OBVIOUS
  <1>1. /\ pc[r] = "idle" /\ rpc[r] = "none" /\ rtries[r] = 0 /\ arg[r] = 0
        /\ fundTaken[r] = 0 /\ tokTaken[r] = 0 /\ scar[r] = FALSE
        /\ sess[r] = FreshSession("none")
    BY DEF Init, NoSession
  <1> QED
    BY <1>1 DEF FreshSession

LEMMA StepLedger ==
  ASSUME TypeOK, NEW r \in Requests, Ledger(r), Handler(r) \/ RefundGoroutine(r)
  PROVE  Ledger(r)'
  <1> USE DEF Handler, RefundGoroutine
  <1> HIDE DEF Ledger
  <1>1. CASE PrepareRequestBilling(r) \/ TryWallet(r) \/ PreConsumeToken(r)
               \/ PreConsumeFunding(r) \/ RollbackToken(r)
    BY <1>1, LedgerPrepareRequestBilling, LedgerTryWallet, LedgerPreConsumeToken,
       LedgerPreConsumeFunding, LedgerRollbackToken
  <1>2. CASE PrepareAttempt(r) \/ AttemptAborted(r) \/ ReserveToken(r)
               \/ RollbackFundingReserve(r) \/ Upstream(r)
    BY <1>2, LedgerPrepareAttempt, LedgerReserveToken, LedgerRollbackFundingReserve,
       LedgerUpstream, LedgerAttemptAborted
  <1>3. CASE SettleFunding(r) \/ SettleToken(r) \/ Refund(r) \/ ChargeFee(r) \/ ChargeFeeToken(r)
    BY <1>3, LedgerSettleFunding, LedgerSettleToken, LedgerRefund, LedgerChargeFee,
       LedgerChargeFeeToken
  <1>4. CASE RefundGoroutine(r)
    BY <1>4, LedgerRefundFunding, LedgerMarkRefunded, LedgerRefundExtra, LedgerRefundToken
  <1> QED
    BY <1>1, <1>2, <1>3, <1>4

LEMMA Stutter == IInv /\ UNCHANGED vars => IInv'
  <1> SUFFICES ASSUME IInv, UNCHANGED vars PROVE IInv'
    OBVIOUS
  <1>1. TypeOK'
    BY DEF IInv, TypeOK, vars
  <1>2. ASSUME NEW q \in Requests PROVE Ledger(q)'
    <2>1. Ledger(q)
      BY DEF IInv
    <2>2. Same(q)
      BY DEF vars, Same
    <2> QED
      BY <2>1, <2>2, SameLedger
  <1> QED
    BY <1>1, <1>2 DEF IInv

(* A reset touches nothing a session or a ledger mentions.                 *)
LEMMA ResetKeeps == IInv /\ (\E s \in Periodic : ResetDue(s)) => IInv'
  <1> SUFFICES ASSUME IInv, NEW s \in Periodic, ResetDue(s) PROVE IInv'
    OBVIOUS
  <1>0. used' \in [Subs -> Nat]
    BY AfterResetType DEF ResetDue, IInv
  <1>1. TypeOK'
    BY <1>0 DEF IInv, TypeOK, ResetDue, control, refundVars, history
  <1>2. ASSUME NEW q \in Requests PROVE Ledger(q)'
    <2>1. Ledger(q)
      BY DEF IInv
    <2>2. Same(q)
      BY DEF ResetDue, control, refundVars, history, Same
    <2> QED
      BY <2>1, <2>2, SameLedger
  <1> QED
    BY <1>1, <1>2 DEF IInv

LEMMA Inductive == IInv /\ [Next]_vars => IInv'
  <1> SUFFICES ASSUME IInv, [Next]_vars PROVE IInv'
    OBVIOUS
  <1> HIDE DEF Ledger
  <1>1. CASE \E r \in Requests : Handler(r) \/ RefundGoroutine(r)
    <2>1. PICK r \in Requests : Handler(r) \/ RefundGoroutine(r)
      BY <1>1
    <2>t. TypeOK /\ \A q \in Requests : Ledger(q)
      BY DEF IInv
    <2>2. TypeOK'
      BY <2>1, OpenTypes, AttemptTypes, EndTypes, GoroutineTypes DEF Handler
    <2>3. ASSUME NEW q \in Requests PROVE Ledger(q)'
      <3>1. CASE q = r
        BY <2>1, <2>t, <3>1, StepLedger
      <3>2. CASE q # r
        BY <2>1, <2>t, <3>2, Frame, SameLedger
      <3> QED
        BY <3>1, <3>2
    <2> QED
      BY <2>2, <2>3 DEF IInv
  <1>2. CASE UNCHANGED vars
    BY <1>2, Stutter
  <1>3. CASE \E s \in Periodic : ResetDue(s)
    BY <1>3, ResetKeeps
  <1> QED
    BY <1>1, <1>2, <1>3 DEF Next, AllDone

(* IInv, the agreement of every session with what was really taken on its  *)
(* behalf, holds throughout.                                               *)
THEOREM LedgerInvariance == Spec => []IInv
  <1>1. Init => IInv
    BY InitTypeOK, InitLedger DEF IInv
  <1> QED
    BY <1>1, Inductive, PTL DEF Spec

(* TypeOK: no session field, account or history variable of                *)
(* billing_session.go leaves its domain; in particular quotas recorded in  *)
(* a session never go negative and the retry counters stay in bounds.      *)
THEOREM TypeCorrect == Spec => []TypeOK
  <1>1. IInv => TypeOK
    BY DEF IInv
  <1> QED
    BY <1>1, LedgerInvariance, PTL

(* SuccessChargesOnce: Settle charges exactly the actual quota once,       *)
(* whatever was pre-consumed, reserved, retried or trusted before, for any *)
(* number of concurrent requests and any failing writes.                   *)
THEOREM SuccessChargedOnce == Spec => []SuccessChargesOnce
  <1>1. IInv => SuccessChargesOnce
    <2> SUFFICES ASSUME IInv, NEW r \in Requests, pc[r] = "succeeded", HasSession(r)
                 PROVE  LET due == IF sess[r].settled THEN arg[r] ELSE sess[r].pre IN
                        /\ fundTaken[r] = due
                        /\ ~scar[r] => tokTaken[r] = IF prof[r].playground THEN 0 ELSE due
      BY DEF SuccessChargesOnce
    <2>1. FundingLedger(r) /\ TokenLedger(r)
      BY DEF IInv
    <2> QED
      BY <2>1 DEF HasSession
  <1> QED
    BY <1>1, LedgerInvariance, PTL

(* TextRefundReturnsAll: a failed request none of whose compensating       *)
(* writes was lost leaves nothing taken (image requests on the wallet      *)
(* excepted), provided saving the pre-consume record's status never fails. *)
THEOREM FailureReturnsAll ==
  ASSUME MarkReliable
  PROVE  Spec => []TextRefundReturnsAll
  <1>1. IInv => TextRefundReturnsAll
    <2> SUFFICES ASSUME IInv, NEW r \in Requests, FailedCleanly(r),
                        ~(prof[r].image /\ sess[r].source = "wallet")
                 PROVE  fundTaken[r] = 0 /\ tokTaken[r] = 0
      BY DEF TextRefundReturnsAll
    <2>1. Ledger(r)
      BY DEF IInv
    <2>2. /\ rpc[r] \in {"none", "done"} /\ pc[r] \in {"failed", "rejected"} /\ ~scar[r]
          /\ pc[r] # "succeeded"
      BY DEF FailedCleanly, Done
    <2>t. Typed(r)
      BY TypedFields DEF IInv
    <2>3. CASE pc[r] = "rejected"
      BY <2>1, <2>2, <2>3, <2>t DEF Typed
    <2>4. CASE pc[r] = "failed" /\ rpc[r] = "none"
      BY <2>1, <2>2, <2>4, <2>t DEF Typed
    <2>5. CASE pc[r] = "failed" /\ rpc[r] = "done"
      BY <2>1, <2>2, <2>5, <2>t DEF Typed
    <2> QED
      BY <2>2, <2>3, <2>4, <2>5
  <1> QED
    BY <1>1, LedgerInvariance, PTL

(* Under the invariant, what was returned never exceeds what was taken.    *)
LEMMA NothingOverRefunded ==
  ASSUME MarkReliable, IInv
  PROVE  NeverOverRefunded
  <1> SUFFICES ASSUME NEW r \in Requests
               PROVE  fundTaken[r] >= 0 /\ tokTaken[r] >= 0
    BY DEF NeverOverRefunded
  <1>1. Ledger(r)
    BY DEF IInv
  <1>t. Typed(r) /\ arg[r] \in Nat /\ fundTaken[r] \in Int
    BY TypedFields DEF IInv, TypeOK
  <1>2. tokTaken[r] >= 0
    BY <1>1
  <1>3. fundTaken[r] >= 0
    <2>1. CASE pc[r] \in Failing
      BY <1>1, <1>t, <2>1 DEF Typed
    <2>2. CASE pc[r] \notin Failing
      <3>1. pc[r] \in PCs
        BY DEF IInv, TypeOK
      <3> QED
        BY <1>1, <1>t, <2>2, <3>1 DEF Typed, PCs
    <2> QED
      BY <2>1, <2>2
  <1> QED
    BY <1>2, <1>3

(* NeverOverRefunded: no rollback and no refund returns more than the      *)
(* request took, at any moment, provided saving the pre-consume record's   *)
(* status never fails.                                                     *)
THEOREM NoOverRefund ==
  ASSUME MarkReliable
  PROVE  Spec => []NeverOverRefunded
  <1>1. IInv => NeverOverRefunded
    BY NothingOverRefunded
  <1> QED
    BY <1>1, LedgerInvariance, PTL

-----------------------------------------------------------------------------
(* The cap of a subscription: every charge checks it, every return lowers  *)
(* amount_used.                                                            *)

LEMMA ChargeKeepsCap ==
  ASSUME TypeOK, SubscriptionCap, NEW s \in Subs \cup {-1}, NEW q \in Int,
         used' = [used EXCEPT ![s] = NewUsed(s, q)],
         s \in Subs => (q <= 0 \/ SubFits(s, q))
  PROVE  SubscriptionCap'
  <1> SUFFICES ASSUME NEW t \in Subs, SubTotal[t] > 0 PROVE used'[t] <= SubTotal[t]
    BY DEF SubscriptionCap
  <1>1. /\ used \in [Subs -> Nat] /\ used[t] \in Nat /\ SubTotal[t] \in Nat
        /\ used[t] <= SubTotal[t]
    BY ConstantsAssumption DEF TypeOK, SubscriptionCap
  <1>2. CASE t = s
    <2>1. used'[t] = NewUsed(t, q)
      BY <1>1, <1>2
    <2> QED
      BY <1>1, <1>2, <2>1 DEF NewUsed, Larger, SubFits
  <1>3. CASE t # s
    BY <1>1, <1>3
  <1> QED
    BY <1>2, <1>3

LEMMA FundingKeepsCap ==
  ASSUME TypeOK, SubscriptionCap, NEW r \in Requests, NEW q \in Int,
         TakeFunding(r, q), q <= 0 \/ FundingFits(r, q)
  PROVE  SubscriptionCap'
  <1>1. CASE sess[r].source = "subscription"
    <2>1. sess[r].sub \in Subs \cup {-1}
      BY DEF TypeOK, SessionType
    <2> QED
      BY <1>1, <2>1, ChargeKeepsCap DEF TakeFunding, TakeSub, FundingFits
  <1>2. CASE sess[r].source # "subscription"
    BY <1>2 DEF TakeFunding, TakeWallet, SubscriptionCap
  <1> QED
    BY <1>1, <1>2

LEMMA UsedUnchanged ==
  ASSUME SubscriptionCap, UNCHANGED used
  PROVE  SubscriptionCap'
  BY DEF SubscriptionCap

LEMMA StepCap ==
  ASSUME IInv, SubscriptionCap, NEW r \in Requests, Handler(r) \/ RefundGoroutine(r)
  PROVE  SubscriptionCap'
  <1> TypeOK
    BY DEF IInv
  <1>t. Typed(r) /\ arg[r] \in Nat /\ sess[r].sub \in Subs \cup {-1}
    BY TypedFields DEF TypeOK, SessionType
  <1>1. CASE UNCHANGED used
    BY <1>1, UsedUnchanged
  <1>2. CASE PreConsumeFunding(r)
    <2>1. CASE \E s \in Subs : PreConsumeSub(r, s, Effective(r))
      <3> DEFINE q == Effective(r)
      <3>1. PICK s \in Subs, due \in SUBSET Periodic :
              /\ s \in Candidates(q, AfterReset(due))
              /\ used' = [AfterReset(due) EXCEPT ![s] = @ + q]
        BY <2>1 DEF PreConsumeSub, IsFirst
      <3> DEFINE u == AfterReset(due)
      <3>2. u \in [Subs -> Nat] /\ q \in Nat /\ used \in [Subs -> Nat]
        BY <1>t, AfterResetType DEF Typed, TypeOK
      <3>3. SubTotal[s] = 0 \/ SubTotal[s] - u[s] >= q
        BY <3>1 DEF Candidates
      <3>4. \A t \in Subs : u[t] <= used[t]
        BY <3>2 DEF AfterReset
      <3>5. used' = [u EXCEPT ![s] = @ + q]
        BY <3>1
      <3> HIDE DEF u, q
      <3> SUFFICES ASSUME NEW t \in Subs, SubTotal[t] > 0 PROVE used'[t] <= SubTotal[t]
        BY DEF SubscriptionCap
      <3>6. SubTotal[t] \in Nat /\ used[t] \in Nat /\ u[t] \in Nat /\ used[t] <= SubTotal[t]
        BY <3>2, ConstantsAssumption DEF SubscriptionCap
      <3> QED
        BY <3>2, <3>3, <3>4, <3>5, <3>6
    <2>2. CASE UNCHANGED used
      BY <2>2, UsedUnchanged
    <2> QED
      BY <1>2, <2>1, <2>2 DEF PreConsumeFunding, TakeWallet
  <1>3. CASE PrepareAttempt(r)
    <2>1. CASE \E target \in Amounts : TakeFunding(r, target - sess[r].pre)
                                       /\ FundingFits(r, target - sess[r].pre)
      <3>1. PICK target \in Amounts : TakeFunding(r, target - sess[r].pre)
                                       /\ FundingFits(r, target - sess[r].pre)
        BY <2>1
      <3>2. target - sess[r].pre \in Int
        BY <1>t, ConstantsAssumption DEF Typed
      <3> QED
        BY <3>1, <3>2, FundingKeepsCap
    <2>2. CASE UNCHANGED used
      BY <2>2, UsedUnchanged
    <2> QED
      BY <1>3, <2>1, <2>2 DEF PrepareAttempt
  <1>4. CASE RollbackFundingReserve(r)
    <2>1. -arg[r] \in Int /\ -arg[r] <= 0
      BY <1>t
    <2>2. CASE TakeFunding(r, -arg[r])
      BY <2>1, <2>2, FundingKeepsCap
    <2>3. CASE UNCHANGED used
      BY <2>3, UsedUnchanged
    <2> QED
      BY <1>4, <2>2, <2>3 DEF RollbackFundingReserve
  <1>5. CASE SettleFunding(r)
    <2>1. SettleDelta(r) \in Int
      BY <1>t DEF SettleDelta, Typed
    <2>2. CASE TakeFunding(r, SettleDelta(r)) /\ FundingFits(r, SettleDelta(r))
      BY <2>1, <2>2, FundingKeepsCap
    <2>3. CASE UNCHANGED used
      BY <2>3, UsedUnchanged
    <2> QED
      BY <1>5, <2>2, <2>3 DEF SettleFunding
  <1>6. CASE ChargeFee(r)
    <2>1. CASE /\ FundingFits(r, arg[r]) /\ sess[r].source = "subscription"
               /\ used' = [used EXCEPT ![sess[r].sub] = NewUsed(sess[r].sub, arg[r])]
      <3>1. arg[r] \in Int
        BY <1>t
      <3> QED
        BY <1>t, <2>1, <3>1, ChargeKeepsCap DEF FundingFits
    <2>2. CASE UNCHANGED used
      BY <2>2, UsedUnchanged
    <2> QED
      BY <1>6, <2>1, <2>2 DEF ChargeFee
  <1>7. CASE RefundFunding(r)
    <2>1. -sess[r].subPre \in Int /\ -sess[r].subPre <= 0
      BY <1>t DEF Typed
    <2>2. CASE TakeSub(r, sess[r].sub, -sess[r].subPre)
      BY <1>t, <2>1, <2>2, ChargeKeepsCap DEF TakeSub
    <2>3. CASE UNCHANGED used
      BY <2>3, UsedUnchanged
    <2> QED
      BY <1>7, <2>2, <2>3 DEF RefundFunding, TakeWallet
  <1>8. CASE RefundExtra(r)
    <2>1. -ExtraReserved(r) \in Int /\ -ExtraReserved(r) <= 0
      BY <1>t DEF Typed, ExtraReserved
    <2>2. CASE TakeSub(r, sess[r].sub, -ExtraReserved(r))
      BY <1>t, <2>1, <2>2, ChargeKeepsCap DEF TakeSub
    <2>3. CASE UNCHANGED used
      BY <2>3, UsedUnchanged
    <2> QED
      BY <1>8, <2>2, <2>3 DEF RefundExtra
  <1> QED
    BY <1>1, <1>2, <1>3, <1>4, <1>5, <1>6, <1>7, <1>8
    DEF Handler, RefundGoroutine, PrepareRequestBilling, TryWallet, PreConsumeToken,
        RollbackToken, ReserveToken, AttemptAborted, Upstream, SettleToken, Refund, ChargeFeeToken,
        MarkRefunded, RefundToken, accounts

(* SubscriptionCap: PreConsumeUserSubscription and                         *)
(* PostConsumeUserSubscriptionDelta together never let amount_used exceed  *)
(* a limited subscription's amount_total.                                  *)
THEOREM CapRespected == Spec => []SubscriptionCap
  <1>1. Init => SubscriptionCap
    BY ConstantsAssumption DEF Init, SubscriptionCap
  <1>2. IInv /\ SubscriptionCap /\ [Next]_vars => SubscriptionCap'
    <2> SUFFICES ASSUME IInv, SubscriptionCap, [Next]_vars PROVE SubscriptionCap'
      OBVIOUS
    <2>1. CASE \E r \in Requests : Handler(r) \/ RefundGoroutine(r)
      BY <2>1, StepCap
    <2>2. CASE UNCHANGED vars
      BY <2>2, UsedUnchanged DEF vars
    <2>3. CASE \E s \in Periodic : ResetDue(s)
      <3>1. used \in [Subs -> Nat] /\ \A t \in Subs : used'[t] = 0 \/ used'[t] = used[t]
        BY <2>3 DEF ResetDue, AfterReset, IInv, TypeOK
      <3> QED
        BY <3>1, ConstantsAssumption DEF SubscriptionCap
    <2> QED
      BY <2>1, <2>2, <2>3 DEF Next, AllDone
  <1> QED
    BY <1>1, <1>2, LedgerInvariance, PTL DEF Spec

-----------------------------------------------------------------------------
(* Which steps may leave a debt                                            *)

LEMMA StepAdmission ==
  ASSUME IInv, NEW r \in Requests, Handler(r) \/ RefundGoroutine(r)
  PROVE  AdmissionStep
  <1> TypeOK
    BY DEF IInv
  <1>t. /\ Typed(r) /\ arg[r] \in Nat /\ wallet \in Int /\ token \in Int
        /\ pc \in [Requests -> PCs]
    BY TypedFields DEF TypeOK
  <1> DEFINE WalletOK == (wallet' < wallet /\ wallet' < 0) =>
                             MayOwe(r) \/ (pc[r] = "ready" /\ pc'[r] # pc[r] /\ ~prof[r].image)
             TokenOK == (token' < token /\ token' < 0) =>
                             MayOwe(r) \/ (pc'[r] # pc[r] /\ prof[r].unlimited)
  <1> SUFFICES WalletOK /\ TokenOK
    BY DEF AdmissionStep
  <1>1. CASE UNCHANGED <<wallet, token>>
    BY <1>1, <1>t
  <1>2. CASE PreConsumeToken(r)
    BY <1>2, <1>t DEF PreConsumeToken, TokenCovers, TakeToken, Typed
  <1>3. CASE PreConsumeFunding(r)
    BY <1>3, <1>t DEF PreConsumeFunding, WalletCovers, TakeWallet, PreConsumeSub, Typed
  <1>4. CASE RollbackToken(r)
    BY <1>4, <1>t DEF RollbackToken, TakeToken, Typed
  <1>5. CASE PrepareAttempt(r)
    <2>1. PICK target \in Amounts :
            \/ UNCHANGED wallet
            \/ /\ (sess[r].source = "wallet" /\ prof[r].image) => WalletCovers(target - sess[r].pre)
               /\ TakeFunding(r, target - sess[r].pre)
               /\ Goto(r, "reserveToken")
      BY <1>5 DEF PrepareAttempt
    <2>2. target \in Nat /\ target - sess[r].pre \in Int
      BY <1>t, ConstantsAssumption DEF Typed
    <2>3. HasSession(r) \/ UNCHANGED wallet
      BY <1>5 DEF PrepareAttempt
    <2>4. UNCHANGED token /\ pc[r] = "ready"
      BY <1>5 DEF PrepareAttempt
    <2>5. TokenOK
      BY <1>t, <2>4
    <2>6. WalletOK
      <3>1. CASE UNCHANGED wallet
        BY <1>t, <3>1
      <3>2. CASE ~ UNCHANGED wallet
        <4>1. sess[r].source = "wallet"
          BY <1>t, <2>1, <2>3, <3>2 DEF TakeFunding, TakeSub, HasSession, Typed
        <4>2. wallet' = wallet - (target - sess[r].pre) /\ pc'[r] = "reserveToken"
          BY <1>t, <2>1, <3>2, <4>1 DEF TakeFunding, TakeWallet
        <4>3. prof[r].image => wallet >= target - sess[r].pre
          BY <2>1, <3>2, <4>1 DEF WalletCovers
        <4> QED
          BY <1>t, <2>2, <2>4, <4>2, <4>3
      <3> QED
        BY <3>1, <3>2
    <2> QED
      BY <2>5, <2>6
  <1>6. CASE ReserveToken(r)
    BY <1>6, <1>t DEF ReserveToken, TokenCovers, TakeToken
  <1>7. CASE RollbackFundingReserve(r)
    BY <1>7, <1>t DEF RollbackFundingReserve, TakeFunding, TakeWallet, TakeSub
  <1>8. CASE SettleFunding(r)
    BY <1>8, <1>t DEF SettleFunding, MayOwe
  <1>9. CASE SettleToken(r)
    BY <1>9, <1>t DEF SettleToken, MayOwe
  <1>10. CASE ChargeFee(r)
    BY <1>10, <1>t DEF ChargeFee, MayOwe
  <1>11. CASE ChargeFeeToken(r)
    BY <1>11, <1>t DEF ChargeFeeToken, MayOwe
  <1>12. CASE RefundFunding(r)
    BY <1>12, <1>t DEF RefundFunding, TakeWallet, TakeSub, Larger, Typed
  <1>13. CASE RefundExtra(r)
    BY <1>13, <1>t DEF RefundExtra, TakeSub
  <1>14. CASE RefundToken(r)
    BY <1>14, <1>t DEF RefundToken, TakeToken, Typed
  <1> HIDE DEF WalletOK, TokenOK
  <1> QED
    BY <1>1, <1>2, <1>3, <1>4, <1>5, <1>6, <1>7, <1>8, <1>9, <1>10, <1>11, <1>12, <1>13, <1>14
    DEF Handler, RefundGoroutine, PrepareRequestBilling, TryWallet, AttemptAborted, Upstream, Refund,
        MarkRefunded, accounts

(* AdmissionNeverOverdraws: TryReserveUserQuota and TryReserveTokenQuota   *)
(* make pre-consumption safe against every stale balance; a debt comes     *)
(* from settlement, a non-image Reserve, a fee or an unlimited token only. *)
THEOREM AdmissionSafe == Spec => AdmissionNeverOverdraws
  <1>1. IInv /\ [Next]_vars => [AdmissionStep]_vars
    <2> SUFFICES ASSUME IInv, Next PROVE AdmissionStep \/ UNCHANGED vars
      BY DEF vars
    <2>1. CASE \E s \in Periodic : ResetDue(s)
      <3>1. wallet' = wallet /\ token' = token /\ wallet \in Int /\ token \in Int
        BY <2>1 DEF ResetDue, IInv, TypeOK
      <3> QED
        BY <3>1 DEF AdmissionStep
    <2> QED
      BY <2>1, StepAdmission DEF Next, AllDone
  <1> QED
    BY <1>1, LedgerInvariance, PTL DEF Spec, AdmissionNeverOverdraws

-----------------------------------------------------------------------------
(* Progress.  Rank bounds the steps a request and its goroutine can still  *)
(* take: a handler moves forward through NewBillingSession, Reserve and    *)
(* Settle or Refund, going back only to try the other funding source and   *)
(* to make another attempt, and each of the two is possible a bounded      *)
(* number of times.                                                        *)

LastSource(r) == Untried(r) = "none"

Trial(r, first, last) == IF LastSource(r) THEN last ELSE first

HandlerRank(r) ==
    IF pc[r] = "idle" THEN 24
    ELSE IF pc[r] = "ready" THEN IF HasSession(r) THEN 15 ELSE 23
    ELSE IF pc[r] = "tryWallet" THEN Trial(r, 22, 18)
    ELSE IF pc[r] = "preToken" THEN Trial(r, 21, 17)
    ELSE IF pc[r] = "preFunding" THEN Trial(r, 20, 16)
    ELSE IF pc[r] = "rollbackNext" THEN Trial(r, 19, 1)
    ELSE IF pc[r] = "reserveToken" THEN 14
    ELSE IF pc[r] \in {"reserveRollback", "upstream"} THEN 13
    ELSE IF pc[r] = "fail" THEN 12
    ELSE IF pc[r] \in {"fee", "settleFunding"} THEN 2
    ELSE IF pc[r] \in {"feeToken", "settleToken", "rollbackReject"} THEN 1
    ELSE 0

GoroutineRank(r) ==
    IF rpc[r] = "funding" THEN 3 + 2 * (MaxRefundAttempts - rtries[r])
    ELSE IF rpc[r] = "mark" THEN 2 + 2 * (MaxRefundAttempts - rtries[r])
    ELSE IF rpc[r] = "extra" THEN 2
    ELSE IF rpc[r] = "token" THEN 1
    ELSE 0

Rank(r) == 11 * (RetryTimes - attempt[r]) + HandlerRank(r) + GoroutineRank(r)

RankBound == 24 + 11 * RetryTimes

RanksBounded == \A r \in Requests : Rank(r) \in 0..RankBound

(* Some request comes closer to its end and no other request is set back.  *)
RankStep ==
    \E r \in Requests : Rank(r)' < Rank(r) /\ \A q \in Requests \ {r} : Rank(q)' = Rank(q)

LEMMA HandlerRankType ==
  ASSUME TypeOK, NEW r \in Requests
  PROVE  /\ HandlerRank(r) \in 0..24
         /\ pc[r] \in Failing \ {"fail"} => HandlerRank(r) <= 2
  <1>1. pc[r] \in PCs
    BY DEF TypeOK
  <1> QED
    BY <1>1 DEF HandlerRank, PCs, Trial, Ended

LEMMA GoroutineRankType ==
  ASSUME TypeOK, NEW r \in Requests
  PROVE  GoroutineRank(r) \in 0..9 /\ (rpc[r] = "none" => GoroutineRank(r) = 0)
  <1>1. /\ rpc[r] \in {"none", "funding", "mark", "extra", "token", "done"}
        /\ rtries[r] \in 0..MaxRefundAttempts
    BY DEF TypeOK
  <1> QED
    BY <1>1 DEF GoroutineRank

LEMMA RankType == IInv => RanksBounded
  <1> SUFFICES ASSUME IInv, NEW r \in Requests PROVE Rank(r) \in 0..RankBound
    BY DEF RanksBounded
  <1>1. TypeOK /\ Ledger(r)
    BY DEF IInv
  <1>2. attempt[r] \in 0..RetryTimes /\ RetryTimes \in Nat
    BY <1>1, ConstantsAssumption DEF TypeOK
  <1>3. GoroutineRank(r) = 0 \/ HandlerRank(r) <= 2
    BY <1>1, HandlerRankType, GoroutineRankType
  <1>4. HandlerRank(r) \in 0..24 /\ GoroutineRank(r) \in 0..9
    BY <1>1, HandlerRankType, GoroutineRankType
  <1> HIDE DEF Ledger
  <1> QED
    BY <1>2, <1>3, <1>4 DEF Rank, RankBound

(* The rank of a request depends on its own control state only.            *)
LEMMA FrameAttempt ==
  ASSUME TypeOK, NEW r \in Requests, Handler(r) \/ RefundGoroutine(r)
  PROVE  /\ \A q \in Requests : q # r => attempt'[q] = attempt[q]
         /\ Upstream(r) \/ attempt'[r] = attempt[r]
  BY DEF TypeOK, Handler, RefundGoroutine, PrepareRequestBilling, TryWallet, PreConsumeToken,
         PreConsumeFunding, RollbackToken, PrepareAttempt, AttemptAborted, ReserveToken,
         RollbackFundingReserve, Upstream, SettleFunding, SettleToken, Refund, ChargeFee,
         ChargeFeeToken, RefundFunding, MarkRefunded, RefundExtra, RefundToken, control

LEMMA FrameRank ==
  ASSUME TypeOK, NEW r \in Requests, Handler(r) \/ RefundGoroutine(r),
         NEW q \in Requests, q # r
  PROVE  Rank(q)' = Rank(q)
  <1>1. Same(q)
    BY Frame
  <1>2. attempt'[q] = attempt[q]
    BY FrameAttempt
  <1>3. HandlerRank(q)' = HandlerRank(q)
    BY <1>1 DEF Same, HandlerRank, HasSession, Trial, LastSource, Untried
  <1>4. GoroutineRank(q)' = GoroutineRank(q)
    BY <1>1 DEF Same, GoroutineRank
  <1> QED
    BY <1>2, <1>3, <1>4 DEF Rank

(* Opening a session, falling back and giving up                           *)
LEMMA OpenRank ==
  ASSUME TypeOK, NEW r \in Requests, StartSession(r, FirstSource(prof[r])), prof' = prof
  PROVE  HandlerRank(r)' \in 0..22
  <1>1. pc'[r] \in {"tryWallet", "preToken"}
    BY DEF StartSession, TypeOK
  <1> QED
    BY <1>1 DEF HandlerRank, Trial

LEMMA FallbackRank ==
  ASSUME TypeOK, NEW r \in Requests, Insufficient(r), prof' = prof,
         sess[r].source # "none", pc[r] \in {"tryWallet", "rollbackNext"}
  PROVE  HandlerRank(r)' < HandlerRank(r)
  <1>1. CASE LastSource(r)
    <2>1. pc'[r] = "rejected"
      BY <1>1 DEF Insufficient, LastSource, NoBilling, TypeOK
    <2> QED
      BY <1>1, <2>1 DEF HandlerRank, Trial, Ended
  <1>2. CASE ~LastSource(r)
    <2>1. /\ pc'[r] \in {"tryWallet", "preToken"}
          /\ sess'[r] = FreshSession(FallbackSource(prof[r]))
          /\ FallbackSource(prof[r]) # "none"
      BY <1>2 DEF Insufficient, LastSource, Untried, StartSession, TypeOK
    <2>2. sess'[r].source = FallbackSource(prof[r])
      BY <2>1 DEF FreshSession
    <2>3. FallbackSource(prof[r]) # FirstSource(prof[r])
      BY <2>1 DEF FallbackSource, FirstSource
    <2>4. LastSource(r)'
      BY <2>2, <2>3 DEF LastSource, Untried
    <2> QED
      BY <1>2, <2>1, <2>4 DEF HandlerRank, Trial
  <1> QED
    BY <1>1, <1>2

(* A handler step other than Refund and Upstream lowers HandlerRank.       *)
LEMMA OpeningRank ==
  ASSUME TypeOK, NEW r \in Requests, Ledger(r),
         PrepareRequestBilling(r) \/ TryWallet(r) \/ PreConsumeToken(r)
            \/ PreConsumeFunding(r) \/ RollbackToken(r)
  PROVE  HandlerRank(r)' < HandlerRank(r)
  <1>t. Typed(r)
    BY TypedFields
  <1>1. CASE PrepareRequestBilling(r)
    <2>1. HandlerRank(r)' < 24
      <3>1. CASE \E q \in Amounts : NewBillingSession(r, q)
        BY <1>1, <3>1, OpenRank DEF NewBillingSession, PrepareRequestBilling
      <3>2. CASE pc'[r] \in {"ready", "rejected"}
        BY <3>2 DEF HandlerRank, Ended
      <3> QED
        BY <1>1, <1>t, <3>1, <3>2 DEF PrepareRequestBilling, Typed
    <2> QED
      BY <1>1, <2>1 DEF HandlerRank, PrepareRequestBilling
  <1>2. CASE TryWallet(r)
    <2>1. CASE Insufficient(r)
      BY <1>2, <2>1, FallbackRank DEF TryWallet
    <2>2. CASE ~Insufficient(r)
      <3>1. /\ sess'[r].source = sess[r].source
            /\ pc'[r] \in {"ready", "preToken"} /\ pc[r] = "tryWallet"
        BY <1>2, <1>t, <2>2 DEF TryWallet, Typed, SessionType
      <3> QED
        BY <1>2, <3>1 DEF HandlerRank, HasSession, Trial, LastSource, Untried, TryWallet
    <2> QED
      BY <2>1, <2>2
  <1>3. CASE PreConsumeToken(r)
    <2>1. CASE pc'[r] = "rejected"
      BY <1>3, <2>1 DEF HandlerRank, Ended, PreConsumeToken, Trial
    <2>2. CASE pc'[r] = "preFunding" /\ sess'[r].source = sess[r].source
      BY <1>3, <2>2 DEF HandlerRank, Trial, LastSource, Untried, PreConsumeToken
    <2> QED
      BY <1>3, <1>t, <2>1, <2>2 DEF PreConsumeToken, NoBilling, Typed, SessionType
  <1>4. CASE PreConsumeFunding(r)
    <2>1. pc[r] = "preFunding" /\ pc'[r] \in {"ready", "rollbackNext", "rollbackReject"}
      BY <1>4, <1>t DEF PreConsumeFunding, Typed
    <2>2. sess'[r].source = sess[r].source
      <3>1. CASE sess' = sess
        BY <3>1
      <3>2. CASE sess' = [sess EXCEPT ![r] = FundedByWallet(@, Effective(r))]
        BY <1>t, <3>2 DEF Typed, FundedByWallet, SessionType
      <3>3. CASE \E s \in Subs : sess' = [sess EXCEPT ![r] = FundedBySub(@, s, Effective(r))]
        BY <1>t, <3>3 DEF Typed, FundedBySub, SessionType
      <3> QED
        BY <1>4, <3>1, <3>2, <3>3 DEF PreConsumeFunding
    <2> QED
      BY <1>4, <2>1, <2>2 DEF HandlerRank, HasSession, Trial, LastSource, Untried, PreConsumeFunding
  <1>5. CASE RollbackToken(r)
    <2>1. CASE pc[r] = "rollbackNext"
      BY <1>5, <2>1, FallbackRank DEF RollbackToken
    <2>2. CASE pc[r] = "rollbackReject"
      BY <1>5, <1>t, <2>2 DEF RollbackToken, NoBilling, HandlerRank, Ended, Typed
    <2> QED
      BY <1>5, <2>1, <2>2 DEF RollbackToken
  <1> QED
    BY <1>1, <1>2, <1>3, <1>4, <1>5

LEMMA AttemptRank ==
  ASSUME TypeOK, NEW r \in Requests, Ledger(r),
         PrepareAttempt(r) \/ AttemptAborted(r) \/ ReserveToken(r)
            \/ RollbackFundingReserve(r) \/ SettleFunding(r) \/ SettleToken(r)
            \/ ChargeFee(r) \/ ChargeFeeToken(r)
  PROVE  HandlerRank(r)' < HandlerRank(r)
  <1>t. Typed(r)
    BY TypedFields
  <1>1. CASE PrepareAttempt(r)
    <2>1. CASE \E q \in Amounts : ~HasSession(r) /\ NewBillingSession(r, q)
      <3>1. HandlerRank(r)' \in 0..22
        BY <1>1, <2>1, OpenRank DEF NewBillingSession, PrepareAttempt
      <3> QED
        BY <1>1, <2>1, <3>1 DEF HandlerRank, PrepareAttempt
    <2>2. CASE pc'[r] \in {"upstream", "reserveToken", "fail"}
      BY <1>1, <2>2 DEF HandlerRank, PrepareAttempt
    <2> QED
      BY <1>1, <1>t, <2>1, <2>2 DEF PrepareAttempt, Typed
  <1>2. CASE AttemptAborted(r)
    BY <1>2, <1>t DEF AttemptAborted, HandlerRank, Typed
  <1>3. CASE ReserveToken(r)
    BY <1>3, <1>t DEF ReserveToken, HandlerRank, Typed
  <1>4. CASE RollbackFundingReserve(r)
    BY <1>4, <1>t DEF RollbackFundingReserve, HandlerRank, Typed
  <1>5. CASE SettleFunding(r)
    BY <1>5, <1>t DEF SettleFunding, HandlerRank, Ended, Typed
  <1>6. CASE SettleToken(r)
    BY <1>6, <1>t DEF SettleToken, HandlerRank, Ended, Typed
  <1>7. CASE ChargeFee(r)
    BY <1>7, <1>t DEF ChargeFee, HandlerRank, Ended, Typed
  <1>8. CASE ChargeFeeToken(r)
    BY <1>8, <1>t DEF ChargeFeeToken, HandlerRank, Ended, Typed
  <1> QED
    BY <1>1, <1>2, <1>3, <1>4, <1>5, <1>6, <1>7, <1>8

LEMMA UpstreamRank ==
  ASSUME TypeOK, NEW r \in Requests, Upstream(r)
  PROVE  \/ attempt'[r] = attempt[r] /\ HandlerRank(r)' < HandlerRank(r)
         \/ attempt'[r] = attempt[r] + 1 /\ HandlerRank(r)' <= HandlerRank(r) + 10
  <1>t. Typed(r) /\ attempt \in [Requests -> 0..RetryTimes]
    BY TypedFields DEF TypeOK
  <1>1. HandlerRank(r) = 13
    BY DEF Upstream, HandlerRank
  <1>2. CASE pc'[r] = "ready"
    <2>1. HandlerRank(r)' \in {15, 23}
      BY <1>2 DEF HandlerRank
    <2>2. attempt'[r] = attempt[r] + 1
      BY <1>t, <1>2 DEF Upstream, Typed
    <2> QED
      BY <1>1, <2>1, <2>2
  <1>3. CASE pc'[r] \in {"settleFunding", "fail", "panicked"}
    <2>1. HandlerRank(r)' \in {2, 12, 0}
      BY <1>3 DEF HandlerRank
    <2>2. attempt'[r] = attempt[r]
      BY <1>t, <1>3 DEF Upstream, Typed
    <2> QED
      BY <1>1, <2>1, <2>2
  <1> QED
    BY <1>t, <1>2, <1>3 DEF Upstream, Typed

(* Refund starts at most nine steps of the goroutine.                      *)
LEMMA RefundRank ==
  ASSUME TypeOK, NEW r \in Requests, Ledger(r), Refund(r)
  PROVE  HandlerRank(r)' + GoroutineRank(r)' < HandlerRank(r) + GoroutineRank(r)
  <1>t. Typed(r)
    BY TypedFields
  <1>1. rpc[r] = "none" /\ HandlerRank(r) = 12 /\ GoroutineRank(r) = 0
    BY <1>t DEF Refund, HandlerRank, GoroutineRank, Typed
  <1>2. HandlerRank(r)' \in {0, 2}
    BY <1>t DEF Refund, HandlerRank, Typed
  <1>3. rpc'[r] \in {"none", "funding"} /\ rtries'[r] \in 0..MaxRefundAttempts
    BY <1>t, <1>1 DEF Refund, Typed
  <1>4. GoroutineRank(r)' \in 0..9
    BY <1>3 DEF GoroutineRank
  <1> QED
    BY <1>1, <1>2, <1>4

LEMMA RetryRank ==
  ASSUME TypeOK, NEW r \in Requests, RetryRefund(r), rtries[r] < MaxRefundAttempts,
         rpc[r] \in {"funding", "mark"}
  PROVE  GoroutineRank(r)' < GoroutineRank(r)
  <1>t. Typed(r)
    BY TypedFields
  <1>1. rtries[r] \in {0, 1, 2} /\ rtries'[r] = rtries[r] + 1
    BY <1>t DEF RetryRefund, Typed
  <1>2. rpc'[r] = IF rtries[r] + 1 < MaxRefundAttempts THEN "funding" ELSE "extra"
    BY <1>t DEF RetryRefund, Typed
  <1> QED
    BY <1>1, <1>2 DEF GoroutineRank

LEMMA GoroutineStepRank ==
  ASSUME TypeOK, NEW r \in Requests, Ledger(r), RefundGoroutine(r)
  PROVE  GoroutineRank(r)' < GoroutineRank(r)
  <1>t. Typed(r)
    BY TypedFields
  <1>1. CASE RefundFunding(r)
    <2>1. CASE RetryRefund(r)
      BY <1>1, <2>1, RetryRank DEF RefundFunding
    <2>2. CASE ~RetryRefund(r)
      <3>1. rpc[r] = "funding" /\ rpc'[r] \in {"token", "mark"} /\ rtries'[r] = rtries[r]
        BY <1>1, <1>t, <2>2 DEF RefundFunding, Typed
      <3>2. rtries[r] \in 0..2
        BY <3>1, <1>t DEF Typed
      <3> QED
        BY <3>1, <3>2 DEF GoroutineRank
    <2> QED
      BY <2>1, <2>2
  <1>2. CASE MarkRefunded(r)
    <2>1. CASE RetryRefund(r)
      BY <1>2, <2>1, RetryRank DEF MarkRefunded
    <2>2. CASE ~RetryRefund(r)
      <3>1. rpc[r] = "mark" /\ rpc'[r] = "extra" /\ rtries[r] \in 0..2
        BY <1>2, <1>t, <2>2 DEF MarkRefunded, Typed
      <3> QED
        BY <3>1 DEF GoroutineRank
    <2> QED
      BY <2>1, <2>2
  <1>3. CASE RefundExtra(r)
    BY <1>3, <1>t DEF RefundExtra, GoroutineRank, Typed
  <1>4. CASE RefundToken(r)
    BY <1>4, <1>t DEF RefundToken, GoroutineRank, Typed
  <1> QED
    BY <1>1, <1>2, <1>3, <1>4 DEF RefundGoroutine

(* Steps of the handler leave the goroutine where it is and vice versa.    *)
LEMMA RanksApart ==
  ASSUME TypeOK, NEW r \in Requests
  PROVE  /\ Handler(r) /\ ~Refund(r) => GoroutineRank(r)' = GoroutineRank(r)
         /\ RefundGoroutine(r) => HandlerRank(r)' = HandlerRank(r)
  <1>1. ASSUME Handler(r), ~Refund(r) PROVE GoroutineRank(r)' = GoroutineRank(r)
    <2>1. rpc' = rpc /\ rtries' = rtries
      BY <1>1 DEF Handler, PrepareRequestBilling, TryWallet, PreConsumeToken, PreConsumeFunding,
         RollbackToken, PrepareAttempt, AttemptAborted, ReserveToken, RollbackFundingReserve,
         Upstream, SettleFunding, SettleToken, ChargeFee, ChargeFeeToken, refundVars
    <2> QED
      BY <2>1 DEF GoroutineRank
  <1>2. ASSUME RefundGoroutine(r) PROVE HandlerRank(r)' = HandlerRank(r)
    <2>1. pc' = pc /\ sess' = sess /\ prof' = prof
      BY <1>2 DEF RefundGoroutine, RefundFunding, MarkRefunded, RefundExtra, RefundToken, control
    <2> QED
      BY <2>1 DEF HandlerRank, HasSession, Trial, LastSource, Untried
  <1> QED
    BY <1>1, <1>2

LEMMA RankArithmetic ==
  ASSUME NEW n \in Int, NEW a \in Int, NEW a2 \in Int, NEW h \in Int, NEW h2 \in Int,
         NEW g \in Int, NEW g2 \in Int,
         \/ a2 = a /\ h2 + g2 < h + g
         \/ a2 = a /\ h2 < h /\ g2 = g
         \/ a2 = a + 1 /\ h2 <= h + 10 /\ g2 = g
  PROVE  11 * (n - a2) + h2 + g2 < 11 * (n - a) + h + g
  OBVIOUS

LEMMA StepRank ==
  ASSUME IInv, IInv', NEW r \in Requests, Handler(r) \/ RefundGoroutine(r)
  PROVE  Rank(r)' < Rank(r)
  <1>1. TypeOK /\ Ledger(r) /\ TypeOK'
    BY DEF IInv
  <1> HIDE DEF Ledger
  <1>2. /\ HandlerRank(r) \in 0..24 /\ HandlerRank(r)' \in 0..24
        /\ GoroutineRank(r) \in 0..9 /\ GoroutineRank(r)' \in 0..9
    <2>1. HandlerRank(r)' \in 0..24
      BY DEF HandlerRank, Trial
    <2>2. rtries'[r] \in 0..MaxRefundAttempts
      BY <1>1 DEF TypeOK
    <2>3. GoroutineRank(r)' \in 0..9
      BY <2>2 DEF GoroutineRank
    <2> QED
      BY <1>1, <2>1, <2>3, HandlerRankType, GoroutineRankType
  <1>3. attempt[r] \in Nat /\ attempt'[r] \in Nat /\ RetryTimes \in Nat
    BY <1>1, ConstantsAssumption DEF TypeOK
  <1>i. /\ HandlerRank(r) \in Int /\ HandlerRank(r)' \in Int
        /\ GoroutineRank(r) \in Int /\ GoroutineRank(r)' \in Int
        /\ attempt[r] \in Int /\ attempt'[r] \in Int /\ RetryTimes \in Int
    BY <1>2, <1>3
  <1>4. CASE Refund(r)
    <2>1. attempt'[r] = attempt[r]
      BY <1>4 DEF Refund
    <2>2. HandlerRank(r)' + GoroutineRank(r)' < HandlerRank(r) + GoroutineRank(r)
      BY <1>1, <1>4, RefundRank
    <2>3. 11 * (RetryTimes - attempt'[r]) + HandlerRank(r)' + GoroutineRank(r)'
          < 11 * (RetryTimes - attempt[r]) + HandlerRank(r) + GoroutineRank(r)
      BY <1>i, <2>1, <2>2, RankArithmetic, Zenon
    <2> QED
      BY <2>3 DEF Rank
  <1>5. CASE RefundGoroutine(r)
    <2>1. attempt'[r] = attempt[r]
      BY <1>5 DEF RefundGoroutine, RefundFunding, MarkRefunded, RefundExtra, RefundToken, control
    <2> QED
      BY <1>1, <1>2, <1>3, <1>5, <2>1, GoroutineStepRank, RanksApart DEF Rank
  <1>6. CASE Handler(r) /\ ~Refund(r)
    <2>1. GoroutineRank(r)' = GoroutineRank(r)
      BY <1>1, <1>6, RanksApart
    <2>2. CASE Upstream(r)
      <3>1. \/ attempt'[r] = attempt[r] /\ HandlerRank(r)' < HandlerRank(r)
            \/ attempt'[r] = attempt[r] + 1 /\ HandlerRank(r)' <= HandlerRank(r) + 10
        BY <1>1, <2>2, UpstreamRank
      <3>2. 11 * (RetryTimes - attempt'[r]) + HandlerRank(r)' + GoroutineRank(r)'
            < 11 * (RetryTimes - attempt[r]) + HandlerRank(r) + GoroutineRank(r)
        BY <1>i, <2>1, <3>1, RankArithmetic, Zenon
      <3> QED
        BY <3>2 DEF Rank
    <2>3. CASE ~Upstream(r)
      <3>1. attempt'[r] = attempt[r]
        BY <1>1, <1>6, <2>3, FrameAttempt
      <3>2. HandlerRank(r)' < HandlerRank(r)
        BY <1>1, <1>6, <2>3, OpeningRank, AttemptRank DEF Handler
      <3> QED
        BY <1>2, <1>3, <2>1, <3>1, <3>2 DEF Rank
    <2> QED
      BY <2>2, <2>3
  <1> QED
    BY <1>4, <1>5, <1>6

(* The loop of Relay (controller/relay.go), the fallback between funding   *)
(* sources in NewBillingSession and refundWithRetry terminate: every step  *)
(* but a reset of a subscription, which no request notices in its control, *)
(* brings one request strictly closer to its end and sets no other back,   *)
(* so a request and its goroutine together take at most 24 + 11 RetryTimes *)
(* steps, whatever fails and however the others interleave.                *)
THEOREM StepsAreBounded == Spec => []RanksBounded /\ [][RankStep]_<<control, refundVars>>
  <1>1. IInv /\ IInv' /\ [Next]_vars => [RankStep]_<<control, refundVars>>
    <2> SUFFICES ASSUME IInv, IInv', Next PROVE RankStep \/ UNCHANGED <<control, refundVars>>
      BY DEF vars, control, refundVars
    <2>1. CASE AllDone \/ \E s \in Periodic : ResetDue(s)
      BY <2>1 DEF AllDone, ResetDue, vars, control, refundVars
    <2>2. CASE \E r \in Requests : Handler(r) \/ RefundGoroutine(r)
      <3>1. PICK r \in Requests : Handler(r) \/ RefundGoroutine(r)
        BY <2>2
      <3>2. Rank(r)' < Rank(r)
        BY <3>1, StepRank
      <3>3. \A q \in Requests \ {r} : Rank(q)' = Rank(q)
        BY <3>1, FrameRank DEF IInv
      <3> QED
        BY <3>2, <3>3 DEF RankStep
    <2> QED
      BY <2>1, <2>2 DEF Next
  <1> QED
    BY <1>1, RankType, LedgerInvariance, PTL DEF Spec
===============================================================================
