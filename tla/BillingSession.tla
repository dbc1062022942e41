---------------------------- MODULE BillingSession ----------------------------
(***************************************************************************)
(* The billing lifecycle of relay requests (service/billing_session.go,    *)
(* service/funding_source.go, the billing calls of controller/relay.go).   *)
(*                                                                         *)
(* Several requests of ONE user, sent with ONE token, run concurrently.    *)
(* Each opens a BillingSession (pre-consume of the token, then of the      *)
(* funding source), may reserve more before an upstream attempt, and ends  *)
(* in Settle (success) or in Refund (final failure), which continues in a  *)
(* goroutine of its own.  Every access to the wallet row, the token row or *)
(* a subscription row is one atomic step; between two of them any other    *)
(* request may move.                                                       *)
(*                                                                         *)
(* fundTaken, tokTaken, fee and scar are history variables: what was       *)
(* really taken from the accounts on behalf of a request, the violation    *)
(* fee charged to it, and whether a compensating write of it failed.       *)
(***************************************************************************)
EXTENDS Integers, Functions

CONSTANTS
    Requests,        \* concurrent relay requests of the user
    Subs,            \* the user's active subscriptions, numbered by end_time
    SubTotal,        \* amount_total of each subscription, 0 = unlimited
    Periodic,        \* the subscriptions whose plan resets amount_used
    AllowOverflow,   \* UserActiveSubscriptionsAllowWalletOverflow
    InitWallet,      \* users.quota before the first request
    InitToken,       \* tokens.remain_quota before the first request
    TrustQuota,      \* TrustQuotaUSD * QuotaPerUnit
    RetryTimes,      \* common.RetryTimes
    Amounts,         \* quotas a price computation may yield
    Fees,            \* violation fees a failed request may incur (0 = none)
    Profiles,        \* kinds of request, see ProfileType
    FaultyOps        \* database writes that may fail, see OpNames

ProfileType == [image: BOOLEAN, playground: BOOLEAN, force: BOOLEAN, unlimited: BOOLEAN,
                pref: {"wallet_only", "subscription_only", "wallet_first", "subscription_first"}]

OpNames == {"preConsume", "rollback", "reserve", "settle", "refund", "mark", "fee"}

ASSUME ConstantsAssumption ==
    /\ Subs \subseteq Nat
    /\ SubTotal \in [Subs -> Nat]
    /\ Periodic \subseteq Subs
    /\ AllowOverflow \in BOOLEAN
    /\ InitWallet \in Int /\ InitToken \in Int /\ TrustQuota \in Nat
    /\ RetryTimes \in Nat
    /\ Amounts \subseteq Nat /\ Fees \subseteq Nat /\ 0 \in Fees
    /\ Profiles \subseteq ProfileType
    /\ FaultyOps \subseteq OpNames

VARIABLES
    wallet,      \* users.quota
    token,       \* tokens.remain_quota
    used,        \* user_subscriptions.amount_used
    record,      \* status of the request's subscription pre-consume record
    prof,        \* the request's profile (never changes)
    pc,          \* where the request's handler is
    arg,         \* quota argument of the billing call under way
    seen,        \* remain_quota the auth middleware put into the context
    attempt,     \* retryParam.GetRetry()
    sess,        \* the BillingSession and its FundingSource
    rpc,         \* where the refund goroutine is
    rtries,      \* failed attempts of refundWithRetry
    fundTaken,   \* history: net amount taken from the request's funding source
    tokTaken,    \* history: net amount taken from the token
    fee,         \* history: violation fee taken, from funding and from token
    scar         \* history: some compensating write failed

accounts == <<wallet, token, used, record>>
control  == <<prof, pc, arg, seen, attempt, sess>>
refundVars == <<rpc, rtries>>
history  == <<fundTaken, tokTaken, fee, scar>>
vars == <<wallet, token, used, record, prof, pc, arg, seen, attempt, sess,
          rpc, rtries, fundTaken, tokTaken, fee, scar>>

SessionType == [source: {"none", "wallet", "subscription"},
                sub: Subs \cup {-1},       \* SubscriptionFunding.subscriptionId
                consumed: Int,             \* WalletFunding.consumed
                subPre: Nat,               \* SubscriptionFunding.preConsumed
                pre: Nat,                  \* preConsumedQuota
                tokenConsumed: Nat,
                extra: Nat,                \* extraReserved
                trusted: BOOLEAN, fundingSettled: BOOLEAN,
                settled: BOOLEAN, refunded: BOOLEAN]

FreshSession(source) ==
    [source |-> source, sub |-> -1, consumed |-> 0, subPre |-> 0, pre |-> 0,
     tokenConsumed |-> 0, extra |-> 0, trusted |-> FALSE,
     fundingSettled |-> FALSE, settled |-> FALSE, refunded |-> FALSE]

NoSession == FreshSession("none")

PCs == {"idle", "tryWallet", "preToken", "preFunding", "rollbackNext", "rollbackReject",
        "ready", "reserveToken", "reserveRollback", "upstream", "settleFunding",
        "settleToken", "fail", "fee", "feeToken",
        "rejected", "failed", "succeeded", "panicked"}

Ended == {"rejected", "failed", "succeeded", "panicked"}

MaxRefundAttempts == 3

(* One type invariant: every account, session field and history variable   *)
(* stays in its domain (quotas recorded in the session never go negative). *)
TypeOK ==
    /\ wallet \in Int /\ token \in Int
    /\ used \in [Subs -> Nat]
    /\ record \in [Requests -> {"none", "consumed", "refunded"}]
    /\ prof \in [Requests -> Profiles]
    /\ pc \in [Requests -> PCs]
    /\ arg \in [Requests -> Nat]
    /\ seen \in [Requests -> Int]
    /\ attempt \in [Requests -> 0..RetryTimes]
    /\ sess \in [Requests -> SessionType]
    /\ rpc \in [Requests -> {"none", "funding", "mark", "extra", "token", "done"}]
    /\ rtries \in [Requests -> 0..MaxRefundAttempts]
    /\ fundTaken \in [Requests -> Int] /\ tokTaken \in [Requests -> Int]
    /\ fee \in [Requests -> [fund: Nat, tok: Nat]]
    /\ scar \in [Requests -> BOOLEAN]

Init ==
    /\ wallet = InitWallet /\ token = InitToken
    /\ used = [s \in Subs |-> 0]
    /\ record = [r \in Requests |-> "none"]
    /\ prof \in [Requests -> Profiles]
    /\ pc = [r \in Requests |-> "idle"]
    /\ arg = [r \in Requests |-> 0]
    /\ seen = [r \in Requests |-> 0]
    /\ attempt = [r \in Requests |-> 0]
    /\ sess = [r \in Requests |-> NoSession]
    /\ rpc = [r \in Requests |-> "none"]
    /\ rtries = [r \in Requests |-> 0]
    /\ fundTaken = [r \in Requests |-> 0]
    /\ tokTaken = [r \in Requests |-> 0]
    /\ fee = [r \in Requests |-> [fund |-> 0, tok |-> 0]]
    /\ scar = [r \in Requests |-> FALSE]

-----------------------------------------------------------------------------
(* The account operations of model/, each one database or Lua step.        *)

Larger(a, b) == IF a > b THEN a ELSE b

(* (mutant) the token is decremented without the check *)
TokenUnchecked(r, q) == TRUE

(* TryReserveTokenQuota: the check and the decrement are one step; an      *)
(* unlimited token skips the check and is decremented all the same.        *)
TokenCovers(r, q) == prof[r].playground \/ prof[r].unlimited \/ token >= q

(* ... and the reservation fails on a short token or on a database error.  *)
TokenRefused(r, q, op) == ~TokenCovers(r, q) \/ (op \in FaultyOps /\ ~prof[r].playground)

(* Every token adjustment of a playground request is skipped.              *)
TakeToken(r, q) ==
    IF prof[r].playground
    THEN UNCHANGED <<token, tokTaken>>
    ELSE /\ token' = token - q
         /\ tokTaken' = [tokTaken EXCEPT ![r] = @ + q]

(* DecreaseUserQuota / IncreaseUserQuota: unconditional, may go negative.  *)
TakeWallet(r, q) ==
    /\ wallet' = wallet - q
    /\ fundTaken' = [fundTaken EXCEPT ![r] = @ + q]
    /\ UNCHANGED used

(* TryReserveUserQuota *)
WalletCovers(q) == wallet >= q

(* PostConsumeUserSubscriptionDelta: newUsed = max(used + delta, 0), an    *)
(* error when it exceeds a limited total.                                  *)
NewUsed(s, q) == Larger(used[s] + q, 0)

(* (mutant) the total is compared with the amount used before the charge *)
SubFitsBefore(s, q) == SubTotal[s] = 0 \/ used[s] <= SubTotal[s]

SubFits(s, q) == SubTotal[s] = 0 \/ NewUsed(s, q) <= SubTotal[s]

TakeSub(r, s, q) ==
    /\ used' = [used EXCEPT ![s] = NewUsed(s, q)]
    /\ fundTaken' = [fundTaken EXCEPT ![r] = @ + q]
    /\ UNCHANGED wallet

(* maybeResetUserSubscriptionWithPlanTx: the subscriptions of due have     *)
(* reached their next_reset_time, amount_used starts again at 0.           *)
AfterReset(due) == [s \in Subs |-> IF s \in due THEN 0 ELSE used[s]]

(* The candidates of PreConsumeUserSubscription, tried by end_time, when   *)
(* the amounts used are u.                                                 *)
Candidates(q, u) == {s \in Subs : SubTotal[s] = 0 \/ SubTotal[s] - u[s] >= q}

IsFirst(s, C) == s \in C /\ \A t \in C : s <= t

(* FundingSource.Settle(delta) and the funding half of PostConsumeQuota    *)
FundingFits(r, q) == sess[r].source = "subscription" => SubFits(sess[r].sub, q)

TakeFunding(r, q) ==
    IF sess[r].source = "subscription" THEN TakeSub(r, sess[r].sub, q) ELSE TakeWallet(r, q)

Goto(r, l) == pc' = [pc EXCEPT ![r] = l]

-----------------------------------------------------------------------------
(* PreConsumeBilling / NewBillingSession                                   *)

(* The first source to try and the one left to fall back to.  A fallback   *)
(* is taken only on ErrorCodeInsufficientUserQuota.                        *)
FirstSource(p) ==
    IF p.pref = "subscription_only" \/ (p.pref = "subscription_first" /\ Subs # {})
    THEN "subscription" ELSE "wallet"

FallbackSource(p) ==
    CASE p.pref = "wallet_first" -> "subscription"
      [] p.pref = "subscription_first" /\ Subs # {} /\ AllowOverflow -> "wallet"
      [] OTHER -> "none"

Untried(r) ==
    IF sess[r].source = FirstSource(prof[r]) THEN FallbackSource(prof[r]) ELSE "none"

(* tryWallet looks at the balance first; trySubscription goes straight to  *)
(* preConsume.                                                             *)
StartSession(r, source) ==
    /\ sess' = [sess EXCEPT ![r] = FreshSession(source)]
    /\ Goto(r, IF source = "wallet" THEN "tryWallet" ELSE "preToken")

NewBillingSession(r, q) ==
    /\ arg' = [arg EXCEPT ![r] = q]
    /\ StartSession(r, FirstSource(prof[r]))

(* PrepareRequestBilling: the auth middleware has cached the token's quota *)
(* in the context; a price is estimated and a session opened, or the model *)
(* is free and there is no session, or the request is refused.             *)
PrepareRequestBilling(r) ==
    /\ pc[r] = "idle"
    /\ seen' = [seen EXCEPT ![r] = token]
    /\ \/ \E q \in Amounts : NewBillingSession(r, q)
       \/ Goto(r, "ready") /\ UNCHANGED <<arg, sess>>
       \/ Goto(r, "rejected") /\ UNCHANGED <<arg, sess>>
    /\ UNCHANGED <<accounts, prof, attempt, refundVars, history>>

NoBilling(r) ==
    /\ sess' = [sess EXCEPT ![r] = NoSession]
    /\ Goto(r, "rejected")

(* ErrorCodeInsufficientUserQuota: on to the other source, if one is left. *)
Insufficient(r) ==
    IF Untried(r) # "none" THEN StartSession(r, Untried(r)) ELSE NoBilling(r)

(* shouldTrust for the wallet source, on the quotas read so far            *)
ShouldTrust(r) ==
    /\ ~prof[r].force
    /\ TrustQuota > 0
    /\ prof[r].unlimited \/ seen[r] > TrustQuota
    /\ wallet > TrustQuota

(* tryWallet up to the trust decision: GetUserQuota, two early returns,    *)
(* then preConsume with the quota or, for a trusted user, with 0, which    *)
(* touches no account.                                                     *)
TryWallet(r) ==
    /\ pc[r] = "tryWallet"
    /\ IF wallet <= 0 \/ wallet < arg[r]
       THEN Insufficient(r)
       ELSE /\ sess' = [sess EXCEPT ![r].trusted = ShouldTrust(r)]
            /\ Goto(r, IF ShouldTrust(r) \/ arg[r] = 0 THEN "ready" ELSE "preToken")
    /\ UNCHANGED <<accounts, prof, arg, seen, attempt, refundVars, history>>

(* The quota preConsume works with: trySubscription asks for at least 1.   *)
Effective(r) ==
    IF sess[r].source = "subscription" THEN Larger(arg[r], 1) ELSE arg[r]

(* preConsume 1): PreConsumeTokenQuota; its failure is never a fallback.   *)
PreConsumeToken(r) ==
    /\ pc[r] = "preToken"
    /\ \/ /\ TokenCovers(r, Effective(r))
          /\ TakeToken(r, Effective(r))
          /\ sess' = [sess EXCEPT ![r].tokenConsumed = Effective(r)]
          /\ Goto(r, "preFunding")
       \/ /\ TokenRefused(r, Effective(r), "preConsume")
          /\ NoBilling(r)
          /\ UNCHANGED <<token, tokTaken>>
    /\ UNCHANGED <<wallet, used, record, prof, arg, seen, attempt, refundVars,
                   fundTaken, fee, scar>>

FundedByWallet(s, q) == [s EXCEPT !.consumed = q, !.pre = q]

FundedBySub(s, sub, q) == [s EXCEPT !.sub = sub, !.subPre = q, !.pre = q]

(* PreConsumeUserSubscription: one transaction goes through the active     *)
(* subscriptions by end_time, resets each one that is due and charges the  *)
(* first that has q left.                                                  *)
PreConsumeSub(r, s, q) ==
    \E due \in SUBSET {t \in Periodic : t <= s} :
        /\ IsFirst(s, Candidates(q, AfterReset(due)))
        /\ used' = [AfterReset(due) EXCEPT ![s] = @ + q]
        /\ fundTaken' = [fundTaken EXCEPT ![r] = @ + q]
        /\ UNCHANGED wallet

(* preConsume 2): the funding source.  Insufficient quota leads to the     *)
(* fallback, a database error does not; both roll the token back first.    *)
(* When no subscription has room the transaction's resets are rolled back. *)
PreConsumeFunding(r) ==
    /\ pc[r] = "preFunding"
    /\ \/ /\ sess[r].source = "wallet"
          /\ WalletCovers(Effective(r))
          /\ TakeWallet(r, Effective(r))
          /\ UNCHANGED record
          /\ sess' = [sess EXCEPT ![r] = FundedByWallet(@, Effective(r))]
          /\ Goto(r, "ready")
       \/ /\ sess[r].source = "subscription"
          /\ \E s \in Subs :
               /\ PreConsumeSub(r, s, Effective(r))
               /\ sess' = [sess EXCEPT ![r] = FundedBySub(@, s, Effective(r))]
          /\ record' = [record EXCEPT ![r] = "consumed"]
          /\ Goto(r, "ready")
       \/ /\ IF sess[r].source = "wallet"
             THEN ~WalletCovers(Effective(r)) ELSE Candidates(Effective(r), used) = {}
          /\ Goto(r, "rollbackNext")
          /\ UNCHANGED <<wallet, used, record, sess, fundTaken>>
       \/ /\ "preConsume" \in FaultyOps
          /\ Goto(r, "rollbackReject")
          /\ UNCHANGED <<wallet, used, record, sess, fundTaken>>
    /\ UNCHANGED <<token, prof, arg, seen, attempt, refundVars, tokTaken, fee, scar>>

(* preConsume: IncreaseTokenQuota(tokenConsumed), whose failure is logged  *)
(* only, then the fallback or the error.                                   *)
RollbackToken(r) ==
    /\ pc[r] \in {"rollbackNext", "rollbackReject"}
    /\ \/ TakeToken(r, -sess[r].tokenConsumed) /\ UNCHANGED scar
       \/ /\ "rollback" \in FaultyOps
          /\ scar' = [scar EXCEPT ![r] = TRUE]
          /\ UNCHANGED <<token, tokTaken>>
    /\ IF pc[r] = "rollbackNext" THEN Insufficient(r) ELSE NoBilling(r)
    /\ UNCHANGED <<wallet, used, record, prof, arg, seen, attempt, refundVars,
                   fundTaken, fee>>

-----------------------------------------------------------------------------
(* The attempts of Relay: Reserve before each one, then the upstream call  *)

HasSession(r) == sess[r].source # "none"

(* Reserve returns at once: nothing above the reservation, or trusted.     *)
ReserveSkips(r, target) ==
    \/ sess[r].settled \/ sess[r].refunded
    \/ (sess[r].trusted /\ ~prof[r].image)
    \/ target <= sess[r].pre

(* (mutant) every reservation assigns consumed *)
ConsumedReplaced(r, delta) == delta

(* WalletFunding.consumed after a reservation: reserveFunding adds to it,  *)
(* except for image requests, where WalletFunding.PreConsume assigns it.   *)
ConsumedAfterReserve(r, delta) ==
    IF prof[r].image THEN delta ELSE sess[r].consumed + delta

(* PrepareTieredBillingForSelectedGroup / PrepareImageBillingForRequest:   *)
(* the selected group or the image count yields a new estimate.  Without a *)
(* session one is opened now; with one, Reserve starts with reserveFunding.*)
(* Wallet reservations of image requests are atomic and fail on a short    *)
(* balance, other wallet reservations may leave a debt.                    *)
PrepareAttempt(r) ==
    /\ pc[r] = "ready"
    /\ \E target \in Amounts :
         LET delta == target - sess[r].pre IN
         \/ /\ ~HasSession(r)
            /\ target > 0
            /\ NewBillingSession(r, target)
            /\ UNCHANGED <<wallet, used, fundTaken>>
         \/ /\ IF HasSession(r) THEN ReserveSkips(r, target) ELSE target = 0
            /\ Goto(r, "upstream")
            /\ UNCHANGED <<wallet, used, fundTaken, sess, arg>>
         \/ /\ HasSession(r) /\ ~ReserveSkips(r, target)
            /\ (sess[r].source = "wallet" /\ prof[r].image) => WalletCovers(delta)
            /\ FundingFits(r, delta)
            /\ TakeFunding(r, delta)
            /\ sess' = IF sess[r].source # "wallet" THEN sess
                       ELSE [sess EXCEPT ![r].consumed = ConsumedAfterReserve(r, delta)]
            /\ arg' = [arg EXCEPT ![r] = delta]
            /\ Goto(r, "reserveToken")
         \/ /\ HasSession(r) /\ ~ReserveSkips(r, target)
            /\ \/ (sess[r].source = "wallet" /\ prof[r].image /\ ~WalletCovers(delta))
               \/ ~FundingFits(r, delta)
               \/ "reserve" \in FaultyOps
            /\ arg' = [arg EXCEPT ![r] = 0]
            /\ Goto(r, "fail")
            /\ UNCHANGED <<wallet, used, fundTaken, sess>>
    /\ UNCHANGED <<token, record, prof, seen, attempt, refundVars, tokTaken, fee, scar>>

(* getChannel finds no channel, or the request body cannot be read again:  *)
(* the loop ends with that error.                                          *)
AttemptAborted(r) ==
    /\ pc[r] = "ready"
    /\ arg' = [arg EXCEPT ![r] = 0]
    /\ Goto(r, "fail")
    /\ UNCHANGED <<accounts, prof, seen, attempt, sess, refundVars, history>>

Reserved(s, q, image) ==
    [s EXCEPT !.pre = @ + q, !.tokenConsumed = @ + q, !.extra = @ + q,
              !.trusted = @ /\ ~image]

(* Reserve, second half: reserveToken, then the session's counters.        *)
ReserveToken(r) ==
    /\ pc[r] = "reserveToken"
    /\ \/ /\ TokenCovers(r, arg[r])
          /\ TakeToken(r, arg[r])
          /\ sess' = [sess EXCEPT ![r] = Reserved(@, arg[r], prof[r].image)]
          /\ Goto(r, "upstream")
       \/ /\ TokenRefused(r, arg[r], "reserve")
          /\ Goto(r, "reserveRollback")
          /\ UNCHANGED <<token, tokTaken, sess>>
    /\ UNCHANGED <<wallet, used, record, prof, arg, seen, attempt, refundVars,
                   fundTaken, fee, scar>>

(* (mutant) the rolled-back reservation stays in consumed *)
ConsumedKept(r) == sess[r].consumed

ConsumedAfterRollback(r) == sess[r].consumed - arg[r]

(* rollbackFundingReserve; the reservation error ends the request.         *)
RollbackFundingReserve(r) ==
    /\ pc[r] = "reserveRollback"
    /\ \/ /\ TakeFunding(r, -arg[r])
          /\ sess' = IF sess[r].source # "wallet" THEN sess
                     ELSE [sess EXCEPT ![r].consumed = ConsumedAfterRollback(r)]
          /\ UNCHANGED scar
       \/ /\ "rollback" \in FaultyOps
          /\ scar' = [scar EXCEPT ![r] = TRUE]
          /\ UNCHANGED <<wallet, used, fundTaken, sess>>
    /\ arg' = [arg EXCEPT ![r] = 0]
    /\ Goto(r, "fail")
    /\ UNCHANGED <<token, record, prof, seen, attempt, refundVars, tokTaken, fee>>

(* (mutant) one attempt too many *)
MayRetryOnceMore(r) == attempt[r] <= RetryTimes

(* the bound of Relay's loop, retryParam.GetRetry() <= common.RetryTimes   *)
MayRetry(r) == attempt[r] < RetryTimes

(* The upstream call: it succeeds with an actual quota, fails and is       *)
(* retried, fails for good (perhaps with a violation fee), or panics.  On  *)
(* the first attempt the deferred RefundFailedRequestBilling then sees no  *)
(* error and does nothing; on a retry newAPIError still holds the error of *)
(* the attempt before, and the panic ends like any other failure.          *)
Upstream(r) ==
    /\ pc[r] = "upstream"
    /\ \/ /\ \E actual \in Amounts : arg' = [arg EXCEPT ![r] = actual]
          /\ Goto(r, "settleFunding")
          /\ UNCHANGED attempt
       \/ /\ MayRetry(r)
          /\ attempt' = [attempt EXCEPT ![r] = @ + 1]
          /\ Goto(r, "ready")
          /\ UNCHANGED arg
       \/ /\ \E f \in Fees : arg' = [arg EXCEPT ![r] = f]
          /\ Goto(r, "fail")
          /\ UNCHANGED attempt
       \/ /\ attempt[r] = 0
          /\ Goto(r, "panicked")
          /\ UNCHANGED <<arg, attempt>>
    /\ UNCHANGED <<accounts, prof, seen, sess, refundVars, history>>

-----------------------------------------------------------------------------
(* SettleBilling / BillingSession.Settle                                   *)

(* (mutant) a trusted session is taken to need no settlement *)
SettleDeltaUnlessTrusted(r) == IF sess[r].trusted THEN 0 ELSE arg[r] - sess[r].pre

SettleDelta(r) == arg[r] - sess[r].pre

(* 1) the funding source.  An error leaves the session unsettled: callers  *)
(* only log it, the pre-consumed quota stays charged.  Without a session   *)
(* PostConsumeQuota charges the whole amount to the wallet.                *)
SettleFunding(r) ==
    /\ pc[r] = "settleFunding"
    /\ \/ /\ SettleDelta(r) = 0
          /\ sess' = [sess EXCEPT ![r].settled = HasSession(r)]
          /\ Goto(r, "succeeded")
          /\ UNCHANGED <<wallet, used, fundTaken>>
       \/ /\ SettleDelta(r) # 0 /\ FundingFits(r, SettleDelta(r))
          /\ TakeFunding(r, SettleDelta(r))
          /\ sess' = [sess EXCEPT ![r].fundingSettled = HasSession(r)]
          /\ Goto(r, "settleToken")
       \/ /\ SettleDelta(r) # 0
          /\ ~FundingFits(r, SettleDelta(r)) \/ "settle" \in FaultyOps
          /\ Goto(r, "succeeded")
          /\ UNCHANGED <<wallet, used, fundTaken, sess>>
    /\ UNCHANGED <<token, record, prof, arg, seen, attempt, refundVars, tokTaken, fee, scar>>

(* 2) the token; a failure is logged and the session is settled anyway.    *)
SettleToken(r) ==
    /\ pc[r] = "settleToken"
    /\ \/ TakeToken(r, SettleDelta(r)) /\ UNCHANGED scar
       \/ /\ "settle" \in FaultyOps
          /\ scar' = [scar EXCEPT ![r] = TRUE]
          /\ UNCHANGED <<token, tokTaken>>
    /\ sess' = [sess EXCEPT ![r].settled = HasSession(r)]
    /\ Goto(r, "succeeded")
    /\ UNCHANGED <<wallet, used, record, prof, arg, seen, attempt, refundVars,
                   fundTaken, fee>>

-----------------------------------------------------------------------------
(* RefundFailedRequestBilling                                              *)

NeedsRefund(r) ==
    /\ ~sess[r].settled /\ ~sess[r].refunded /\ ~sess[r].fundingSettled
    /\ sess[r].tokenConsumed > 0 \/ sess[r].subPre > 0

(* Refund: marks the session and starts the goroutine; the handler goes on *)
(* to ChargeViolationFeeIfNeeded without waiting for it.                   *)
Refund(r) ==
    /\ pc[r] = "fail"
    /\ IF NeedsRefund(r)
       THEN /\ sess' = [sess EXCEPT ![r].refunded = TRUE]
            /\ rpc' = [rpc EXCEPT ![r] = "funding"]
       ELSE UNCHANGED <<sess, rpc>>
    /\ Goto(r, IF arg[r] > 0 THEN "fee" ELSE "failed")
    /\ UNCHANGED <<accounts, prof, arg, seen, attempt, rtries, history>>

(* (mutant) the attempts are counted but never run out *)
RetryForever(r) ==
    /\ rtries' = [rtries EXCEPT ![r] = (@ + 1) % MaxRefundAttempts]
    /\ rpc' = [rpc EXCEPT ![r] = "funding"]

(* refundWithRetry: at most MaxRefundAttempts calls                        *)
RetryRefund(r) ==
    /\ rtries' = [rtries EXCEPT ![r] = @ + 1]
    /\ rpc' = [rpc EXCEPT ![r] =
                  IF rtries[r] + 1 < MaxRefundAttempts THEN "funding" ELSE "extra"]

(* The goroutine, 1): funding.Refund().  The wallet is credited once and   *)
(* never retried.  RefundSubscriptionPreConsume gives the quota back in a  *)
(* transaction of its own and then marks the record (next step).           *)
RefundFunding(r) ==
    /\ rpc[r] = "funding"
    /\ \/ /\ sess[r].source = "wallet"
          /\ TakeWallet(r, -Larger(sess[r].consumed, 0))
          /\ rpc' = [rpc EXCEPT ![r] = "token"]
          /\ UNCHANGED <<rtries, scar>>
       \/ /\ sess[r].source = "subscription"
          /\ TakeSub(r, sess[r].sub, -sess[r].subPre)
          /\ rpc' = [rpc EXCEPT ![r] = "mark"]
          /\ UNCHANGED <<rtries, scar>>
       \/ /\ "refund" \in FaultyOps
          /\ sess[r].source = "wallet"
          /\ rpc' = [rpc EXCEPT ![r] = "token"]
          /\ scar' = [scar EXCEPT ![r] = TRUE]
          /\ UNCHANGED <<wallet, used, fundTaken, rtries>>
       \/ /\ "refund" \in FaultyOps
          /\ sess[r].source = "subscription"
          /\ RetryRefund(r)
          /\ scar' = [scar EXCEPT ![r] = @ \/ rtries[r] + 1 = MaxRefundAttempts]
          /\ UNCHANGED <<wallet, used, fundTaken>>
    /\ UNCHANGED <<token, record, control, tokTaken, fee>>

(* RefundSubscriptionPreConsume: saving status "refunded"; when that fails *)
(* the quota is back but the record is not marked, and the call is retried.*)
MarkRefunded(r) ==
    /\ rpc[r] = "mark"
    /\ \/ /\ record' = [record EXCEPT ![r] = "refunded"]
          /\ rpc' = [rpc EXCEPT ![r] = "extra"]
          /\ UNCHANGED rtries
       \/ /\ "mark" \in FaultyOps
          /\ RetryRefund(r)
          /\ UNCHANGED record
    /\ UNCHANGED <<wallet, token, used, control, history>>

(* (mutant) the whole reservation is returned once more *)
ExtraWhole(r) == sess[r].pre

ExtraReserved(r) == sess[r].extra

(* The goroutine: the extra reservation of a subscription                  *)
RefundExtra(r) ==
    /\ rpc[r] = "extra"
    /\ rpc' = [rpc EXCEPT ![r] = "token"]
    /\ \/ /\ TakeSub(r, sess[r].sub, -ExtraReserved(r))
          /\ UNCHANGED scar
       \/ /\ "refund" \in FaultyOps /\ sess[r].extra > 0
          /\ scar' = [scar EXCEPT ![r] = TRUE]
          /\ UNCHANGED <<wallet, used, fundTaken>>
    /\ UNCHANGED <<token, record, control, rtries, tokTaken, fee>>

(* The goroutine, 2): IncreaseTokenQuota(tokenConsumed)                    *)
RefundToken(r) ==
    /\ rpc[r] = "token"
    /\ rpc' = [rpc EXCEPT ![r] = "done"]
    /\ \/ TakeToken(r, -sess[r].tokenConsumed) /\ UNCHANGED scar
       \/ /\ "refund" \in FaultyOps
          /\ scar' = [scar EXCEPT ![r] = TRUE]
          /\ UNCHANGED <<token, tokTaken>>
    /\ UNCHANGED <<wallet, used, record, control, rtries, fundTaken, fee>>

(* ChargeViolationFeeIfNeeded / PostConsumeQuota: funding, then the token; *)
(* a funding error (a subscription at its total) ends it.                  *)
ChargeFee(r) ==
    /\ pc[r] = "fee"
    /\ \/ /\ FundingFits(r, arg[r])
          /\ IF sess[r].source = "subscription"
             THEN used' = [used EXCEPT ![sess[r].sub] = NewUsed(sess[r].sub, arg[r])] /\ UNCHANGED wallet
             ELSE wallet' = wallet - arg[r] /\ UNCHANGED used
          /\ fee' = [fee EXCEPT ![r].fund = arg[r]]
          /\ Goto(r, "feeToken")
       \/ /\ ~FundingFits(r, arg[r]) \/ "fee" \in FaultyOps
          /\ Goto(r, "failed")
          /\ UNCHANGED <<wallet, used, fee>>
    /\ UNCHANGED <<token, record, prof, arg, seen, attempt, sess, refundVars,
                   fundTaken, tokTaken, scar>>

ChargeFeeToken(r) ==
    /\ pc[r] = "feeToken"
    /\ \/ /\ token' = IF prof[r].playground THEN token ELSE token - arg[r]
          /\ fee' = [fee EXCEPT ![r].tok = IF prof[r].playground THEN 0 ELSE arg[r]]
       \/ "fee" \in FaultyOps /\ UNCHANGED <<token, fee>>
    /\ Goto(r, "failed")
    /\ UNCHANGED <<wallet, used, record, prof, arg, seen, attempt, sess, refundVars,
                   fundTaken, tokTaken, scar>>

-----------------------------------------------------------------------------
Handler(r) ==
    \/ PrepareRequestBilling(r) \/ TryWallet(r)
    \/ PreConsumeToken(r) \/ PreConsumeFunding(r) \/ RollbackToken(r)
    \/ PrepareAttempt(r) \/ AttemptAborted(r) \/ ReserveToken(r)
    \/ RollbackFundingReserve(r) \/ Upstream(r)
    \/ SettleFunding(r) \/ SettleToken(r)
    \/ Refund(r) \/ ChargeFee(r) \/ ChargeFeeToken(r)

RefundGoroutine(r) ==
    RefundFunding(r) \/ MarkRefunded(r) \/ RefundExtra(r) \/ RefundToken(r)

(* ResetDueSubscriptions: the background task resets a subscription that   *)
(* is due, whatever the requests that hold quota of it are doing.          *)
ResetDue(s) ==
    /\ used' = AfterReset({s})
    /\ UNCHANGED <<wallet, token, record, control, refundVars, history>>

Done(r) == pc[r] \in Ended /\ rpc[r] \in {"none", "done"}

(* Every request over and every refund goroutine finished.                 *)
AllDone == (\A r \in Requests : Done(r)) /\ UNCHANGED vars

Next ==
    \/ \E r \in Requests : Handler(r) \/ RefundGoroutine(r)
    \/ \E s \in Periodic : ResetDue(s)
    \/ AllDone

Spec == Init /\ [][Next]_vars

(* The Go runtime keeps running every handler and every goroutine, and     *)
(* upstream calls are bounded by timeouts.                                 *)
FairSpec == Spec /\ \A r \in Requests : WF_vars(Handler(r)) /\ WF_vars(RefundGoroutine(r))

-----------------------------------------------------------------------------
(* Correctness                                                             *)

(* A failed or refused request, its goroutine finished, none of whose      *)
(* compensating writes was lost.                                           *)
FailedCleanly(r) == Done(r) /\ pc[r] \in {"failed", "rejected"} /\ ~scar[r]

(* "Refund gives back all pre-consumed quota" (Refund,                     *)
(* billing_session.go:89; FundingSource.Refund, funding_source.go:22): a   *)
(* failed request leaves nothing taken from its funding source or token,   *)
(* whichever steps of preConsume, Reserve, the fallback between sources    *)
(* and the retries it went through.                                        *)
RefundReturnsAll ==
    \A r \in Requests : FailedCleanly(r) => fundTaken[r] = 0 /\ tokTaken[r] = 0

(* RefundReturnsAll for every request but wallet-funded image requests,    *)
(* whose WalletFunding.consumed forgets earlier reservations.              *)
TextRefundReturnsAll ==
    \A r \in Requests :
        FailedCleanly(r) /\ ~(prof[r].image /\ sess[r].source = "wallet")
            => fundTaken[r] = 0 /\ tokTaken[r] = 0

(* No sequence of rollbacks and refunds ever returns more than the request *)
(* took, at any moment (Refund is idempotent, the wallet refund is never   *)
(* retried, RefundSubscriptionPreConsume is idempotent per requestId).     *)
NeverOverRefunded ==
    \A r \in Requests : fundTaken[r] >= 0 /\ tokTaken[r] >= 0

(* Settle: a settled success has paid exactly the actual quota, from the   *)
(* funding source and from the token (unless the token write failed, which *)
(* is only logged); a success whose funding settlement failed still holds  *)
(* exactly the pre-consumed quota on both.                                 *)
SuccessChargesOnce ==
    \A r \in Requests : pc[r] = "succeeded" =>
        LET due == IF sess[r].settled THEN arg[r] ELSE sess[r].pre IN
        HasSession(r) =>
            /\ fundTaken[r] = due
            /\ ~scar[r] => tokTaken[r] = IF prof[r].playground THEN 0 ELSE due

(* PostConsumeUserSubscriptionDelta and PreConsumeUserSubscription: no     *)
(* interleaving of pre-consumes, reservations, settlements and fees uses   *)
(* more than a limited subscription's total.                               *)
SubscriptionCap == \A s \in Subs : SubTotal[s] > 0 => used[s] <= SubTotal[s]

(* What a request holds of the wallet, of subscription s and of the token, *)
(* its violation fee included.                                             *)
OfWallet(r) == IF sess[r].source = "subscription" THEN 0 ELSE fundTaken[r] + fee[r].fund
OfSub(s, r) == IF sess[r].source = "subscription" /\ sess[r].sub = s
               THEN fundTaken[r] + fee[r].fund ELSE 0
OfToken(r) == tokTaken[r] + fee[r].tok

WalletAgrees == wallet = InitWallet - SumFunction([r \in Requests |-> OfWallet(r)])
SubsAgree ==
    \A s \in Subs : LET held == SumFunction([r \in Requests |-> OfSub(s, r)]) IN
        used[s] <= held /\ (s \notin Periodic => used[s] = held)
TokenAgrees == token = InitToken - SumFunction([r \in Requests |-> OfToken(r)])

(* The rows agree with the history: the wallet is what it was minus what   *)
(* wallet-funded requests hold, and so for the token; the amount_used of a *)
(* subscription whose plan never resets is exactly what its requests hold, *)
(* so PostConsumeUserSubscriptionDelta's max(.., 0) never forgives usage   *)
(* of another request there.  Where the plan resets, amount_used is at     *)
(* most what the requests hold and may be less: the reset drops what they  *)
(* took before it, and a late refund of such quota then pays, down to      *)
(* max(.., 0), for what other requests use in the new period.              *)
RowsAgree == WalletAgrees /\ SubsAgree /\ TokenAgrees

(* Admission (the balance check of tryWallet, the atomic reservations)     *)
(* never drives the wallet or a limited token below zero, however stale    *)
(* the balance it looked at: a step that leaves a debt is the settlement   *)
(* of an under-estimated request, a Reserve of a non-image request, a      *)
(* violation fee, or (token only) a request with an unlimited token.       *)
MayOwe(r) == pc'[r] # pc[r] /\ pc[r] \in {"settleFunding", "settleToken", "fee", "feeToken"}

AdmissionStep ==
    /\ (wallet' < wallet /\ wallet' < 0) =>
         \E r \in Requests : MayOwe(r) \/ (pc[r] = "ready" /\ pc'[r] # pc[r] /\ ~prof[r].image)
    /\ (token' < token /\ token' < 0) =>
         \E r \in Requests : MayOwe(r) \/ (pc'[r] # pc[r] /\ prof[r].unlimited)

AdmissionNeverOverdraws == [][AdmissionStep]_vars

(* Every request ends and its refund goroutine finishes: the retry loop of *)
(* Relay and refundWithRetry are bounded and no step waits for another     *)
(* request.                                                                *)
EveryRequestEnds == \A r \in Requests : <>[]Done(r)
=============================================================================
