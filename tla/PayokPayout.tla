---------------------------- MODULE PayokPayout ----------------------------
(***************************************************************************)
(* Payouts over PayOK in Bangladesh and Brazil: the request handler that   *)
(* debits the wallet, calls the provider and refunds on failure; the       *)
(* provider; and the webhook that settles the payout.  The process may die *)
(* or a query fail between any two steps, and calls and callbacks arrive   *)
(* in any order.                                                           *)
(*                                                                         *)
(* A database transaction is one step here: WalletLedger shows that the    *)
(* transactions of these flows, which lock every row they change, amount   *)
(* to atomic postings.                                                     *)
(***************************************************************************)
EXTENDS Integers, FiniteSets, Sums

CONSTANTS Payout,        \* payouts, one per createPayoutOrder call
          Wallet,        \* wallets of the merchant, one per currency
          Home,          \* the wallet in the currency of the rail
          RefundWallet,  \* wallets refundPendingPayout may select
          Amount,        \* amount of a payout
          Fee,           \* fee of a payout
          Opening,       \* opening balance of each wallet
          Lossy,         \* whether a call to the provider may go unanswered
          Staff,         \* whether staff patch the status of transactions
          MaxCrash,      \* bound: handlers that die
          MaxError       \* bound: webhook handlers whose query fails

ASSUME PayoutAssumption ==
    /\ Home \in RefundWallet /\ RefundWallet \subseteq Wallet
    /\ Amount \in Nat \ {0} /\ Fee \in Nat /\ Opening \in Nat
    /\ Lossy \in BOOLEAN /\ Staff \in BOOLEAN
    /\ MaxCrash \in Nat /\ MaxError \in Nat

VARIABLES status,   \* transactions.status, "none" before the row exists
          entries,  \* entries[p][type]: ledger entries that refer to p
          funds,    \* balance of each of the merchant's wallets
          request,  \* where the createPayoutOrder call is
          order,    \* the order as PayOK knows it
          event,    \* webhook_events.status of PayOK's callback
          hook,     \* where the handler of the callback is
          acked,    \* whether PayOK got "SUCCESS" for the callback
          replayed, \* whether it got it from the duplicate branch
          told,     \* payouts whose outcome is queued for the merchant
          review,   \* a status patch by staff between its read and its write
          crashes, errors

money == <<status, entries, funds>>
webhook == <<event, hook, acked, replayed, told>>
limits == <<crashes, errors>>
vars == <<money, request, order, webhook, review, limits>>

NoEntries == [payout |-> 0, payout_refund |-> 0, platform_fee |-> 0]

Set(f, p, v) == [f EXCEPT ![p] = v]

\* The request handler of p goes from one step to the next.
Proceed(p, from, to) == request[p] = from /\ request' = Set(request, p, to)

Post(p, type) == entries' = [entries EXCEPT ![p][type] = @ + 1]

-----------------------------------------------------------------------------
(* createPayoutOrder *)

\* Fraud policy, a paused rail or a low balance: no row is written.
RefusePayout(p) ==
    /\ Proceed(p, "new", "refused")
    /\ UNCHANGED <<money, order, webhook, review, limits>>

\* tx1: the balance must cover amount and fee; the amount alone is debited.
CreatePayoutOrder(p) ==
    /\ Proceed(p, "new", "inquiry")
    /\ funds[Home] >= Amount + Fee
    /\ status' = Set(status, p, "pending")
    /\ funds' = [funds EXCEPT ![Home] = @ - Amount]
    /\ Post(p, "payout")
    /\ UNCHANGED <<order, webhook, review, limits>>

\* Variant: a failed inquiry ends the call without a refund.
InquiryWithoutRefund(p) ==
    /\ Proceed(p, "inquiry", "create") \/ Proceed(p, "inquiry", "done")
    /\ UNCHANGED <<money, order, webhook, review, limits>>

\* The account inquiry throws, is refused or answers without a token.
AccountInquiry(p) ==
    /\ \/ Proceed(p, "inquiry", "create")
       \/ Proceed(p, "inquiry", "refund")
    /\ UNCHANGED <<money, order, webhook, review, limits>>

SendCreate(p) ==
    /\ Proceed(p, "create", "await")
    /\ order' = Set(order, p, "sent")
    /\ UNCHANGED <<money, webhook, review, limits>>

\* Variant: an answer that announces no final state is taken for a refusal.
OpenTakenForRefused(p) ==
    /\ \/ order[p] \in {"paid", "declined"} /\ Proceed(p, "await", "done")
       \/ order[p] \in {"open", "refused"} /\ Proceed(p, "await", "refund")
    /\ UNCHANGED <<money, order, webhook, review, limits>>

\* The answer to the create call; "refused" is code FAIL.
CreateAnswered(p) ==
    /\ \/ order[p] \in {"open", "paid", "declined"} /\ Proceed(p, "await", "done")
       \/ order[p] = "refused" /\ Proceed(p, "await", "refund")
    /\ UNCHANGED <<money, order, webhook, review, limits>>

\* Timeout, broken connection or unreadable answer: outboundFetch throws; or
\* the answer is an error of the transport, or FAIL to a repeated order.
CreateUnanswered(p) ==
    /\ Lossy
    /\ Proceed(p, "await", "refund")
    /\ UNCHANGED <<money, order, webhook, review, limits>>

\* Variant: the refund does not look at the status of the row.
RefundUnconditionally(p) ==
    /\ Proceed(p, "refund", "done")
    /\ status' = Set(status, p, "failed")
    /\ Post(p, "payout_refund")
    /\ \E w \in RefundWallet : funds' = [funds EXCEPT ![w] = @ + Amount]
    /\ UNCHANGED <<order, webhook, review, limits>>

\* Variant: the status changes, the credit is forgotten.
RefundNothing(p) ==
    /\ Proceed(p, "refund", "done")
    /\ status' = [status EXCEPT ![p] = IF @ = "pending" THEN "failed" ELSE @]
    /\ UNCHANGED <<entries, funds, order, webhook, review, limits>>

\* One transaction: pending -> failed, and the amount goes back to a wallet of
\* the merchant; nothing happens if a callback came first.
RefundPendingPayout(p) ==
    /\ Proceed(p, "refund", "done")
    /\ \/ /\ status[p] = "pending"
          /\ status' = Set(status, p, "failed")
          /\ Post(p, "payout_refund")
          /\ \E w \in RefundWallet : funds' = [funds EXCEPT ![w] = @ + Amount]
       \/ status[p] # "pending" /\ UNCHANGED money
    /\ UNCHANGED <<order, webhook, review, limits>>

-----------------------------------------------------------------------------
(* PayOK *)

\* A create call may reach PayOK after the caller gave up on it.
PayokReceives(p) ==
    /\ order[p] = "sent"
    /\ order' \in {Set(order, p, "open"), Set(order, p, "refused")}
    /\ UNCHANGED <<money, request, webhook, review, limits>>

PayokSettles(p) ==
    /\ order[p] = "open"
    /\ order' \in {Set(order, p, "paid"), Set(order, p, "declined")}
    /\ UNCHANGED <<money, request, webhook, review, limits>>

-----------------------------------------------------------------------------
(* The callback *)

\* The handler of the callback goes from one step to the next.
HookStep(p, from, to) == hook[p] = from /\ hook' = Set(hook, p, to)

\* The first delivery of a body inserts its row and is handled.
ClaimWebhook(p) ==
    /\ order[p] \in {"paid", "declined"}
    /\ event[p] = "absent"
    /\ event' = Set(event, p, "received")
    /\ HookStep(p, "none", "claimed")
    /\ UNCHANGED <<money, request, order, acked, replayed, told, review, limits>>

\* Any later delivery is answered at once, whatever became of the first.
AbsorbDuplicate(p) ==
    /\ event[p] # "absent"
    /\ ~acked[p]
    /\ acked' = Set(acked, p, TRUE)
    /\ replayed' = Set(replayed, p, TRUE)
    /\ UNCHANGED <<money, request, order, event, hook, told, review, limits>>

\* The row is read outside the transaction; a settled payout is left alone.
LookUpPayout(p) ==
    /\ \/ status[p] = "pending" /\ HookStep(p, "claimed", "read")
       \/ status[p] # "pending" /\ HookStep(p, "claimed", "ignored")
    /\ UNCHANGED <<money, request, order, event, acked, replayed, told, review,
                   limits>>

\* Variant: a failed payout also gives the fee back, which nobody took.
ApplyCallbackReversingFee(p) ==
    /\ status[p] = "pending"
    /\ HookStep(p, "read", "applied")
    /\ \/ /\ order[p] = "paid"
          /\ status' = Set(status, p, "success")
          /\ UNCHANGED <<entries, funds>>
       \/ /\ order[p] = "declined"
          /\ status' = Set(status, p, "failed")
          /\ entries' = [entries EXCEPT ![p].payout_refund = 1,
                                        ![p].platform_fee = @ - 1]
          /\ funds' = [funds EXCEPT ![Home] = @ + Amount + Fee]
    /\ UNCHANGED <<request, order, event, acked, replayed, told, review, limits>>

\* The fee is taken once, if there is one and the balance covers it.
CollectFee(p) ==
    IF Fee > 0 /\ entries[p].platform_fee = 0 /\ funds[Home] >= Fee
    THEN /\ Post(p, "platform_fee")
         /\ funds' = [funds EXCEPT ![Home] = @ - Fee]
    ELSE UNCHANGED <<entries, funds>>

\* One transaction: the conditional UPDATE decides again whether the payout is
\* pending; then the fee is taken or the amount refunded.
ApplyCallback(p) ==
    /\ \/ /\ status[p] = "pending"
          /\ HookStep(p, "read", "applied")
          /\ \/ /\ order[p] = "paid"
                /\ status' = Set(status, p, "success")
                /\ CollectFee(p)
             \/ /\ order[p] = "declined"
                /\ status' = Set(status, p, "failed")
                /\ Post(p, "payout_refund")
                /\ funds' = [funds EXCEPT ![Home] = @ + Amount]
       \/ /\ status[p] # "pending"
          /\ HookStep(p, "read", "ignored")
          /\ UNCHANGED money
    /\ UNCHANGED <<request, order, event, acked, replayed, told, review, limits>>

MarkProcessed(p) ==
    /\ HookStep(p, "applied", "notify") \/ HookStep(p, "ignored", "reply")
    /\ event' = Set(event, p, "processed")
    /\ UNCHANGED <<money, request, order, acked, replayed, told, review, limits>>

\* Variant: the merchant is told of every callback, applied or not.
QueueAlways(p) ==
    /\ HookStep(p, "notify", "reply") \/ HookStep(p, "ignored", "reply")
    /\ told' = told \cup {p}
    /\ UNCHANGED <<money, request, order, event, acked, replayed, review, limits>>

\* queueMerchantWebhook; a failure to queue is logged and forgotten.
QueueMerchantWebhook(p) ==
    /\ HookStep(p, "notify", "reply")
    /\ told' \in {told, told \cup {p}}
    /\ UNCHANGED <<money, request, order, event, acked, replayed, review, limits>>

\* The answer reaches PayOK, or is lost and PayOK delivers again.
ReplySuccess(p) ==
    /\ HookStep(p, "reply", "done")
    /\ acked' \in {acked, Set(acked, p, TRUE)}
    /\ UNCHANGED <<money, request, order, event, replayed, told, review, limits>>

\* A query of the handler fails: the event is marked failed, PayOK gets 500.
WebhookFails(p) ==
    /\ errors < MaxError
    /\ errors' = errors + 1
    /\ \E step \in {"claimed", "read", "applied", "ignored"} :
           HookStep(p, step, "done")
    /\ event' = Set(event, p, "failed")
    /\ UNCHANGED <<money, request, order, acked, replayed, told, review, crashes>>

-----------------------------------------------------------------------------
(* Crashes and staff *)

\* The process dies under a handler, or its refund fails: nobody resumes it.
HandlerDies(p) ==
    /\ crashes < MaxCrash
    /\ crashes' = crashes + 1
    /\ \/ /\ request[p] \in {"inquiry", "create", "await", "refund"}
          /\ request' = Set(request, p, "gone")
          /\ UNCHANGED hook
       \/ /\ hook[p] \in {"claimed", "read", "applied", "ignored", "notify",
                          "reply"}
          /\ hook' = Set(hook, p, "gone")
          /\ UNCHANGED request
    /\ UNCHANGED <<money, order, event, acked, replayed, told, review, errors>>

\* PATCH /provider/transactions/:id/status without force admits pending ->
\* failed, judged on a read that precedes the write.
StaffReadStatus(p) ==
    /\ Staff
    /\ review[p] = FALSE
    /\ status[p] = "pending"
    /\ review' = Set(review, p, TRUE)
    /\ UNCHANGED <<money, request, order, webhook, limits>>

StaffMarkFailed(p) ==
    /\ review[p]
    /\ review' = Set(review, p, FALSE)
    /\ status' = Set(status, p, "failed")
    /\ UNCHANGED <<entries, funds, request, order, webhook, limits>>

-----------------------------------------------------------------------------
Init ==
    /\ status = [p \in Payout |-> "none"]
    /\ entries = [p \in Payout |-> NoEntries]
    /\ funds = [w \in Wallet |-> Opening]
    /\ request = [p \in Payout |-> "new"]
    /\ order = [p \in Payout |-> "none"]
    /\ event = [p \in Payout |-> "absent"]
    /\ hook = [p \in Payout |-> "none"]
    /\ acked = [p \in Payout |-> FALSE]
    /\ replayed = [p \in Payout |-> FALSE]
    /\ told = {}
    /\ review = [p \in Payout |-> FALSE]
    /\ crashes = 0 /\ errors = 0

\* A createPayoutOrder call, once it has debited the wallet.
RequestStep(p) ==
    \/ AccountInquiry(p) \/ SendCreate(p) \/ CreateAnswered(p)
    \/ CreateUnanswered(p) \/ RefundPendingPayout(p)

Payok(p) == PayokReceives(p) \/ PayokSettles(p)

\* PayOK delivers its callback, and the handler runs.
WebhookStep(p) ==
    \/ ClaimWebhook(p) \/ AbsorbDuplicate(p) \/ LookUpPayout(p)
    \/ ApplyCallback(p) \/ MarkProcessed(p) \/ QueueMerchantWebhook(p)
    \/ ReplySuccess(p)

Trouble(p) == WebhookFails(p) \/ HandlerDies(p)

Next == \E p \in Payout :
    \/ RefusePayout(p) \/ CreatePayoutOrder(p) \/ RequestStep(p)
    \/ Payok(p) \/ WebhookStep(p) \/ Trouble(p)
    \/ StaffReadStatus(p) \/ StaffMarkFailed(p)

Spec == Init /\ [][Next]_vars

\* A running handler goes on, PayOK answers and settles every order, and
\* delivers its callback until it is acknowledged.
FairSpec == /\ Spec
            /\ \A p \in Payout : /\ WF_vars(RequestStep(p))
                                 /\ WF_vars(Payok(p))
                                 /\ WF_vars(WebhookStep(p))

-----------------------------------------------------------------------------
(* Properties *)

\* Every variable has its type.
TypeOK ==
    /\ status \in [Payout -> {"none", "pending", "success", "failed"}]
    /\ entries \in [Payout -> [{"payout", "payout_refund", "platform_fee"} -> Nat]]
    /\ funds \in [Wallet -> Int]
    /\ request \in [Payout -> {"new", "refused", "inquiry", "create", "await",
                               "refund", "done", "gone"}]
    /\ order \in [Payout -> {"none", "sent", "open", "refused", "paid",
                             "declined"}]
    /\ event \in [Payout -> {"absent", "received", "processed", "failed"}]
    /\ hook \in [Payout -> {"none", "claimed", "read", "applied", "ignored",
                            "notify", "reply", "done", "gone"}]
    /\ acked \in [Payout -> BOOLEAN] /\ replayed \in [Payout -> BOOLEAN]
    /\ told \subseteq Payout
    /\ review \in [Payout -> BOOLEAN]
    /\ crashes \in 0 .. MaxCrash /\ errors \in 0 .. MaxError

\* The ledger of a payout agrees with its status: one debit once it exists,
\* one refund if and only if it failed, at most one fee and only on success.
EntriesMatchStatus ==
    \A p \in Payout :
        /\ entries[p].payout = IF status[p] = "none" THEN 0 ELSE 1
        /\ entries[p].payout_refund = IF status[p] = "failed" THEN 1 ELSE 0
        /\ entries[p].platform_fee <= IF status[p] = "success" THEN 1 ELSE 0

Due(p) == Amount * (entries[p].payout - entries[p].payout_refund)
              + Fee * entries[p].platform_fee

\* Each wallet holds what its own payouts leave: a refund balances the debit
\* in the wallet the debit was posted to.
FundsExplained ==
    \A w \in Wallet :
        funds[w] = Opening
                     - (IF w = Home THEN SumOf([p \in Payout |-> Due(p)]) ELSE 0)

\* A payout is final once it succeeded or failed: refund, callback and patch,
\* in whatever order they come, change its status at most once.
TerminalIsFinal ==
    [][\A p \in Payout : status[p] \in {"success", "failed"}
                             => status'[p] = status[p]]_vars

\* The beneficiary is not paid with money the merchant got back.
PaidNeverReturned ==
    \A p \in Payout : ~(order[p] = "paid" /\ entries[p].payout_refund > 0)

\* What the merchant is told is what happened, at PayOK and in the ledger.
ToldTheTruth ==
    \A p \in told : \/ order[p] = "paid" /\ status[p] = "success"
                    \/ order[p] = "declined" /\ status[p] = "failed"

\* A successful payout has paid its fee.  The code does not keep this (README):
\* the fee is not set aside, and is skipped when the balance is gone.
FeeCollected ==
    \A p \in Payout :
        status[p] = "success" => Fee = 0 \/ entries[p].platform_fee = 1

\* A delivery answered as a duplicate was processed earlier.  The code does not
\* keep this (README): a failed or running first delivery counts as well.
DuplicateWasProcessed ==
    [][\A p \in Payout : ~replayed[p] /\ replayed'[p] => event[p] = "processed"]_vars

\* A payout does not stay pending forever, unless a handler died or a query of
\* one failed: nothing in the code takes such a payout up again.
PendingResolves ==
    \A p \in Payout : status[p] = "pending"
                          ~> \/ status[p] \in {"success", "failed"}
                             \/ crashes + errors > 0

\* The promise to the merchant, seen from his wallet in the rail's currency.
AsPayoutOrder == INSTANCE PayoutOrder WITH
    stage <- [p \in Payout |-> [none |-> "none", pending |-> "held",
                                success |-> "settled",
                                failed |-> "returned"][status[p]]],
    purse <- funds[Home]

ImplementsPayoutOrder == AsPayoutOrder!Spec
=============================================================================
