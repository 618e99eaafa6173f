----------------------------- MODULE PayokPayin -----------------------------
(***************************************************************************)
(* Pay-ins over PayOK in Bangladesh and Brazil: the request handler that   *)
(* opens the order, the provider, and the two ways its outcome comes back: *)
(* the webhook, and a reconcile call by staff that asks the provider.      *)
(* Both end in handlePayinCallback and may run at once on one pay-in.      *)
(*                                                                         *)
(* All pay-ins are of one merchant, in one currency.  A transaction that   *)
(* finds a wallet locks it and is one step (see WalletLedger); one that    *)
(* finds none has nothing to lock, and takes two.                          *)
(***************************************************************************)
EXTENDS Integers, Sequences, FiniteSets, Sums

CONSTANTS Payin,     \* pay-ins, one per createPayinOrder call
          Paid,      \* what the customer pays
          Fee,       \* the fee on it
          Prompt,    \* whether PayOK may settle before its answer is handled
          MaxCrash,  \* bound: handlers that die
          MaxError   \* bound: queries and inquiries that fail

VARIABLES status,   \* transactions.status, "none" before the row exists
          credits,  \* credits[p]: ledger entries of type payin that refer to p
          fees,     \* fees[p]: ledger entries of type platform_fee
          purses,   \* balances of the merchant's active wallets
          request,  \* where the createPayinOrder call is
          order,    \* the order as PayOK knows it
          event,    \* webhook_events.status of PayOK's callback
          at,       \* at[p][a]: where the webhook or the staff call is
          told,     \* told[p]: notifications queued for the merchant
          crashes, errors

money == <<status, credits, fees, purses>>
limits == <<crashes, errors>>
vars == <<money, request, order, event, at, told, limits>>

Actor == {"hook", "staff"}

Set(f, p, v) == [f EXCEPT ![p] = v]

Proceed(p, from, to) == request[p] = from /\ request' = Set(request, p, to)

Step(p, a, from, to) == at[p][a] = from /\ at' = [at EXCEPT ![p][a] = to]

\* An open transaction holds the lock on the row of p.
Locked(p) == \E a \in Actor : at[p][a] = "opening"

-----------------------------------------------------------------------------
(* createPayinOrder *)

\* Fraud policy or a paused rail: no row is written.
RefusePayin(p) ==
    /\ Proceed(p, "new", "refused")
    /\ UNCHANGED <<money, order, event, at, told, limits>>

\* The row is written and PayOK is called.
CreatePayinOrder(p) ==
    /\ Proceed(p, "new", "await")
    /\ status' = Set(status, p, "pending")
    /\ order' = Set(order, p, "sent")
    /\ UNCHANGED <<credits, fees, purses, event, at, told, limits>>

\* An answer that is not 200, is FAIL or echoes another amount fails the row,
\* by an UPDATE that does not look at its status.
CreateAnswered(p) ==
    /\ order[p] # "sent"
    /\ Proceed(p, "await", "done")
    /\ \/ order[p] # "refused" /\ UNCHANGED status
       \/ ~Locked(p) /\ status' = Set(status, p, "failed")
    /\ UNCHANGED <<credits, fees, purses, order, event, at, told, limits>>

\* No answer: the call throws and the row stays pending.
CreateUnanswered(p) ==
    /\ Proceed(p, "await", "gone")
    /\ UNCHANGED <<money, order, event, at, told, limits>>

-----------------------------------------------------------------------------
(* PayOK *)

PayokReceives(p) ==
    /\ order[p] = "sent"
    /\ order' \in {Set(order, p, "open"), Set(order, p, "refused")}
    /\ UNCHANGED <<money, request, event, at, told, limits>>

\* The customer pays, or the order expires.
PayokSettles(p) ==
    /\ order[p] = "open"
    /\ Prompt \/ request[p] # "await"
    /\ order' \in {Set(order, p, "paid"), Set(order, p, "declined")}
    /\ UNCHANGED <<money, request, event, at, told, limits>>

-----------------------------------------------------------------------------
(* The webhook and the reconcile call *)

\* The first delivery of the callback; a repeated one is answered at once and
\* changes nothing, whatever became of the first (see PayokPayout).
ClaimWebhook(p) ==
    /\ order[p] \in {"paid", "declined"}
    /\ event[p] = "absent"
    /\ event' = Set(event, p, "received")
    /\ Step(p, "hook", "idle", "claimed")
    /\ UNCHANGED <<money, request, order, told, limits>>

\* Variant: a pay-in whose callback arrived is left to the webhook.
ReconcileUnclaimed(p) ==
    /\ event[p] = "absent"
    /\ status[p] = "pending"
    /\ Step(p, "staff", "idle", "asking")
    /\ UNCHANGED <<money, request, order, event, told, limits>>

\* reconcile...ByTransactionId leaves a settled pay-in alone.
Reconcile(p) ==
    /\ status[p] = "pending"
    /\ Step(p, "staff", "idle", "asking")
    /\ UNCHANGED <<money, request, order, event, told, limits>>

\* Only a final answer of the inquiry goes on to handlePayinCallback; but a FAIL
\* of the inquiry itself counts as one, whatever became of the order.
Inquire(p) ==
    /\ \/ IF order[p] \in {"paid", "declined"}
          THEN Step(p, "staff", "asking", "claimed")
          ELSE Step(p, "staff", "asking", "idle")
       \/ Step(p, "staff", "asking", "denied")
    /\ UNCHANGED <<money, request, order, event, told, limits>>

-----------------------------------------------------------------------------
(* handlePayinCallback *)

\* The row is read outside the transaction.
LookUpPayin(p, a) ==
    /\ \/ status[p] = "pending" /\ Step(p, a, "claimed", "read")
       \/ status[p] # "pending" /\ Step(p, a, "claimed", "ignored")
    /\ UNCHANGED <<money, request, order, event, told, limits>>

\* What the wallets hold once w got the payment.
Credited(ws, w) == [ws EXCEPT ![w] = @ + Paid]

\* The fee selects a wallet anew, and is left out if that one does not cover it.
TakeFee(p, ws) ==
    \E w \in DOMAIN ws :
        IF Fee > 0 /\ ws[w] >= Fee
        THEN /\ purses' = [ws EXCEPT ![w] = @ - Fee]
             /\ fees' = [fees EXCEPT ![p] = @ + 1]
        ELSE purses' = ws /\ UNCHANGED fees

Credit(p) == credits' = [credits EXCEPT ![p] = @ + 1]

\* Variant: the early read is trusted, the UPDATE has no status condition.
ApplyTrustingRead(p, a) ==
    /\ ~Locked(p)
    /\ Step(p, a, "read", "applied")
    /\ \/ /\ order[p] = "declined"
          /\ status' = Set(status, p, "failed")
          /\ UNCHANGED <<credits, fees, purses>>
       \/ /\ order[p] = "paid"
          /\ status' = Set(status, p, "success")
          /\ Credit(p)
          /\ \E w \in DOMAIN purses : TakeFee(p, Credited(purses, w))
    /\ UNCHANGED <<request, order, event, told, limits>>

\* The conditional UPDATE finds the pay-in pending: it fails, or is credited
\* to a wallet of the merchant.
ApplyCallback(p, a) ==
    /\ ~Locked(p) /\ status[p] = "pending"
    /\ Step(p, a, "read", "applied")
    /\ \/ /\ order[p] = "declined"
          /\ status' = Set(status, p, "failed")
          /\ UNCHANGED <<credits, fees, purses>>
       \/ /\ order[p] = "paid"
          /\ status' = Set(status, p, "success")
          /\ Credit(p)
          /\ \E w \in DOMAIN purses : TakeFee(p, Credited(purses, w))
    /\ UNCHANGED <<request, order, event, told, limits>>

\* The conditional UPDATE finds the pay-in settled.
IgnoreCallback(p, a) ==
    /\ ~Locked(p) /\ status[p] # "pending"
    /\ Step(p, a, "read", "ignored")
    /\ UNCHANGED <<money, request, order, event, told, limits>>

\* No active wallet yet: the SELECT ... FOR UPDATE locks nothing, and the
\* transaction goes on to insert one.
FindNoWallet(p, a) ==
    /\ ~Locked(p) /\ status[p] = "pending" /\ order[p] = "paid"
    /\ purses = <<>>
    /\ Step(p, a, "read", "opening")
    /\ UNCHANGED <<money, request, order, event, told, limits>>

OpenWallet(p, a) ==
    /\ Step(p, a, "opening", "applied")
    /\ status' = Set(status, p, "success")
    /\ Credit(p)
    /\ TakeFee(p, Append(purses, Paid))
    /\ UNCHANGED <<request, order, event, told, limits>>

\* The same calls with the FAIL of an inquiry.
LookUpDenied(p) ==
    /\ \/ status[p] = "pending" /\ Step(p, "staff", "denied", "deny")
       \/ status[p] # "pending" /\ Step(p, "staff", "denied", "ignored")
    /\ UNCHANGED <<money, request, order, event, told, limits>>

ApplyDenial(p) ==
    /\ ~Locked(p)
    /\ \/ /\ status[p] = "pending"
          /\ Step(p, "staff", "deny", "dropped")
          /\ status' = Set(status, p, "failed")
       \/ /\ status[p] # "pending"
          /\ Step(p, "staff", "deny", "ignored")
          /\ UNCHANGED status
    /\ UNCHANGED <<credits, fees, purses, request, order, event, told, limits>>

-----------------------------------------------------------------------------
(* The end of either call *)

\* The webhook records that it is done; the reconcile call has no event row.
MarkProcessed(p) ==
    /\ Step(p, "hook", "applied", "notify") \/ Step(p, "hook", "ignored", "done")
    /\ event' = Set(event, p, "processed")
    /\ UNCHANGED <<money, request, order, told, limits>>

\* queueMerchantWebhook; a failure to queue is logged and forgotten.  The
\* event carries the outcome this call applied.
Tell(p, a) ==
    /\ \/ Step(p, "hook", "notify", "done") /\ a = "hook"
       \/ Step(p, "staff", "applied", "idle") /\ a = "staff"
    /\ \/ UNCHANGED told
       \/ told' = [told EXCEPT ![p] =
                      Append(@, IF order[p] = "paid" THEN "success" ELSE "failed")]
    /\ UNCHANGED <<money, request, order, event, limits>>

TellDenial(p) ==
    /\ Step(p, "staff", "dropped", "idle")
    /\ \/ UNCHANGED told
       \/ told' = [told EXCEPT ![p] = Append(@, "failed")]
    /\ UNCHANGED <<money, request, order, event, limits>>

\* The reconcile call applied nothing and tells nobody.
StaffIgnored(p) ==
    /\ Step(p, "staff", "ignored", "idle")
    /\ UNCHANGED <<money, request, order, event, told, limits>>

\* A query or the inquiry fails; an open transaction is rolled back.
CallFails(p) ==
    /\ errors < MaxError
    /\ errors' = errors + 1
    /\ \/ /\ \E step \in {"claimed", "read", "opening", "applied", "ignored"} :
                 Step(p, "hook", step, "done")
          /\ event' = Set(event, p, "failed")
       \/ /\ \E step \in {"asking", "claimed", "read", "opening", "denied", "deny"} :
                 Step(p, "staff", step, "idle")
          /\ UNCHANGED event
    /\ UNCHANGED <<money, request, order, told, crashes>>

\* The process dies; staff may call again.
HandlerDies(p) ==
    /\ crashes < MaxCrash
    /\ crashes' = crashes + 1
    /\ \/ Proceed(p, "await", "gone") /\ UNCHANGED at
       \/ /\ \E step \in {"claimed", "read", "opening", "applied", "ignored",
                          "notify"} : Step(p, "hook", step, "done")
          /\ UNCHANGED request
       \/ /\ \E step \in {"asking", "claimed", "read", "opening", "applied",
                          "ignored", "denied", "deny", "dropped"} :
                 Step(p, "staff", step, "idle")
          /\ UNCHANGED request
    /\ UNCHANGED <<money, order, event, told, errors>>

-----------------------------------------------------------------------------
Init ==
    /\ status = [p \in Payin |-> "none"]
    /\ credits = [p \in Payin |-> 0] /\ fees = [p \in Payin |-> 0]
    /\ purses \in {<<>>, <<0>>}
    /\ request = [p \in Payin |-> "new"]
    /\ order = [p \in Payin |-> "none"]
    /\ event = [p \in Payin |-> "absent"]
    /\ at = [p \in Payin |-> [a \in Actor |-> "idle"]]
    /\ told = [p \in Payin |-> <<>>]
    /\ crashes = 0 /\ errors = 0

RequestStep(p) == CreateAnswered(p) \/ CreateUnanswered(p)

Payok(p) == PayokReceives(p) \/ PayokSettles(p)

HandleCallback(p, a) ==
    \/ LookUpPayin(p, a) \/ ApplyCallback(p, a) \/ IgnoreCallback(p, a)
    \/ FindNoWallet(p, a) \/ OpenWallet(p, a) \/ Tell(p, a)

WebhookStep(p) ==
    \/ ClaimWebhook(p) \/ HandleCallback(p, "hook")
    \/ MarkProcessed(p)

StaffStep(p) ==
    \/ Reconcile(p) \/ Inquire(p) \/ HandleCallback(p, "staff")
    \/ LookUpDenied(p) \/ ApplyDenial(p) \/ TellDenial(p)
    \/ StaffIgnored(p)

Next == \E p \in Payin :
    \/ RefusePayin(p) \/ CreatePayinOrder(p) \/ RequestStep(p) \/ Payok(p)
    \/ WebhookStep(p) \/ StaffStep(p) \/ CallFails(p) \/ HandlerDies(p)

Spec == Init /\ [][Next]_vars

\* Running handlers go on, PayOK answers and settles, and staff reconcile
\* what stays pending.
FairSpec == /\ Spec
            /\ \A p \in Payin : /\ WF_vars(RequestStep(p))
                                /\ WF_vars(Payok(p))
                                /\ WF_vars(WebhookStep(p))
                                /\ WF_vars(StaffStep(p))

-----------------------------------------------------------------------------
(* Properties *)

\* Every variable has its type; balances are never negative.
TypeOK ==
    /\ status \in [Payin -> {"none", "pending", "success", "failed"}]
    /\ credits \in [Payin -> Nat] /\ fees \in [Payin -> Nat]
    /\ purses \in Seq(Nat)
    /\ request \in [Payin -> {"new", "refused", "await", "done", "gone"}]
    /\ order \in [Payin -> {"none", "sent", "open", "refused", "paid",
                            "declined"}]
    /\ event \in [Payin -> {"absent", "received", "processed", "failed"}]
    /\ at \in [Payin -> [Actor -> {"idle", "asking", "claimed", "read",
                   "opening", "applied", "ignored", "notify", "done",
                   "denied", "deny", "dropped"}]]
    /\ told \in [Payin -> Seq({"success", "failed"})]
    /\ crashes \in 0 .. MaxCrash /\ errors \in 0 .. MaxError

\* Webhook and reconcile, in any order and however often, credit a pay-in once,
\* and only what the customer paid; a pay-in that succeeded is credited.
CreditedOnce ==
    \A p \in Payin :
        /\ credits[p] <= IF order[p] = "paid" THEN 1 ELSE 0
        /\ status[p] = "success" => credits[p] = 1
        /\ fees[p] <= credits[p]

\* The wallets together hold what was credited for the pay-ins, less the fees.
PursesExplained == SumOf(purses) = Paid * SumOf(credits) - Fee * SumOf(fees)

\* Of webhook and reconcile only one tells the merchant, and a success it tells
\* of is one that was credited.
ToldOnce ==
    \A p \in Payin : /\ Len(told[p]) <= 1
                     /\ told[p] = <<"success">> => credits[p] = 1
                     /\ told[p] = <<"failed">> => credits[p] = 0

\* A pay-in is final once it succeeded or failed.  The code does not keep this
\* (README): CreateAnswered overwrites the status.
TerminalIsFinal ==
    [][\A p \in Payin : status[p] \in {"success", "failed"}
                            => status'[p] = status[p]]_vars

\* The merchant has one active wallet in a currency.  The code does not keep
\* this (README): two first pay-ins each open one.
OneWallet == Len(purses) <= 1

\* What PayOK settled does not stay pending, though a lost callback is never
\* handled again: reconcile finds it.
OutcomeApplied ==
    \A p \in Payin : order[p] \in {"paid", "declined"}
                         ~> status[p] \in {"success", "failed"}

\* The promise of a pay-in, seen from what the merchant holds.
AsPayinOrder == INSTANCE PayinOrder WITH
    stage <- [p \in Payin |-> CASE status[p] = "none" -> "none"
                                [] status[p] = "pending" -> "awaited"
                                [] status[p] = "success" -> "credited"
                                [] status[p] = "failed" -> "failed"],
    takings <- SumOf(purses)

ImplementsPayinOrder == AsPayinOrder!Spec
=============================================================================
