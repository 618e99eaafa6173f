----------------------------- MODULE TekkoPayin -----------------------------
(***************************************************************************)
(* One pay-in over Tekko: an NGN collection, a PYUSD payment intent, or a  *)
(* deposit to the merchant's permanent NGN account (VA), which has no row  *)
(* until it is credited.  Tekko repeats a callback until it is answered    *)
(* with 200; the merchant's status call and the staff reconcile ask Tekko  *)
(* and settle by themselves.  A handler may die or throw at any step.      *)
(* A database transaction is one step (WalletLedger).                      *)
(***************************************************************************)
EXTENDS Integers

CONSTANTS Product,     \* the products to look at: "collect", "pyusd", "va"
          Handler,     \* webhook deliveries that may be under way at once
          Late,        \* Tekko may credit what it has declared expired
          MaxStumbles  \* bound: handlers that die or throw

VARIABLES product,     \* the product
          status,      \* transactions.status, "none" before the row exists
          credits,     \* "payin" credits of it
          fees,        \* fees taken for it
          request,     \* where the create call is
          order,       \* the payment as Tekko knows it
          mapped,      \* the merchant of the VA can be found
          event,       \* callbacks: "none", "owed" (not answered), "processed"
          hook,        \* where each handler is
          note,        \* what its callback says, and the status it has read
          stumbles     \* handlers that died or threw so far

books == <<credits, fees>>
row == <<status, books>>
handlers == <<hook, note>>
vars == <<product, row, request, order, mapped, event, handlers, stumbles>>

Body == {"paid", "credited", "expired"}

\* The callbacks, the status call and the staff reconcile.
Actor == Handler \cup {"poll", "staff"}

NoNote == [says |-> "nothing", read |-> "none"]

HookStep(h, from, to) == hook[h] = from /\ hook' = [hook EXCEPT ![h] = to]

GoOn(h, from, to) == HookStep(h, from, to) /\ UNCHANGED note

\* The handler is done; a callback is answered, and not sent again.
Done(h, from) ==
    /\ HookStep(h, from, "idle")
    /\ note' = [note EXCEPT ![h] = NoNote]
    /\ event' = IF h \in Handler
                THEN [event EXCEPT ![note[h].says] = "processed"] ELSE event

\* Where the handler goes with what Tekko told it.
Outcome(says) == CASE says = "credited" -> "settle"
                   [] says = "expired" -> "fail"
                   [] OTHER -> "idle"

-----------------------------------------------------------------------------
(* createTekkoNgnCollection, createTekkoPyusdPaymentIntent *)

Proceed(from, to) == request = from /\ request' = to

Insert ==
    /\ product # "va"
    /\ Proceed("new", "await")
    /\ status' = "pending"
    /\ order' = "sent"
    /\ UNCHANGED <<product, books, mapped, event, handlers, stumbles>>

\* The reference and the instructions to pay are recorded and returned; or
\* the answer is none to act on, and the pay-in fails by an UPDATE without a
\* status condition; or the call throws, which leaves it pending.
CreateAnswered ==
    /\ order \in {"open", "refused", "expired"}
    /\ \/ order # "refused" /\ Proceed("await", "done") /\ UNCHANGED status
       \/ Proceed("await", "lost") /\ status' = "failed"
       \/ Proceed("await", "gone") /\ UNCHANGED status
    /\ UNCHANGED <<product, books, order, mapped, event, handlers, stumbles>>

-----------------------------------------------------------------------------
(* Tekko.  Nobody can pay before the create call has returned where to. *)

TekkoReceives ==
    /\ order = "sent"
    /\ order' \in {"open", "refused"}
    /\ UNCHANGED <<product, row, request, mapped, event, handlers, stumbles>>

Owe(body) == event' = [event EXCEPT ![body] = "owed"]

TekkoExpires ==
    /\ order = "open" /\ product # "va"
    /\ order' = "expired" /\ Owe("expired")
    /\ UNCHANGED <<product, row, request, mapped, handlers, stumbles>>

\* PYUSD is paid first and settled later.
TekkoPaid ==
    /\ product = "pyusd" /\ request = "done" /\ order = "open"
    /\ order' = "paid" /\ Owe("paid")
    /\ UNCHANGED <<product, row, request, mapped, handlers, stumbles>>

TekkoCredits ==
    /\ \/ product = "va" /\ order = "open"
       \/ product = "collect" /\ request = "done" /\ order = "open"
       \/ product = "pyusd" /\ order = "paid"
       \/ Late /\ order = "expired" /\ request = "done"
    /\ order' = "credited" /\ Owe("credited")
    /\ UNCHANGED <<product, row, request, mapped, handlers, stumbles>>

\* Operations enter the missing customer or account number of the merchant.
FixMapping ==
    /\ ~mapped /\ mapped' = TRUE
    /\ UNCHANGED <<product, row, request, order, event, handlers, stumbles>>

-----------------------------------------------------------------------------
(* The webhook route and applyTekkoWebhookPayload *)

\* Only a body that has been processed is answered as a duplicate; one that
\* failed, or is being handled by another delivery, is applied again.
ClaimWebhook(h) ==
    /\ HookStep(h, "idle", "look")
    /\ \E body \in Body : /\ event[body] = "owed"
                          /\ note' = [note EXCEPT ![h].says = body]
    /\ UNCHANGED <<product, row, request, order, mapped, event, stumbles>>

\* A payment is found by the reference the create call records.  One that is
\* not found is answered all the same; a callback that changes nothing too.
Found == request = "done"

LookUp(h) ==
    /\ product # "va"
    /\ \/ /\ Found /\ Outcome(note[h].says) # "idle"
          /\ HookStep(h, "look", Outcome(note[h].says))
          /\ note' = [note EXCEPT ![h].read = status]
          /\ UNCHANGED event
       \/ ~(Found /\ Outcome(note[h].says) # "idle") /\ Done(h, "look")
    /\ UNCHANGED <<product, row, request, order, mapped, stumbles>>

\* A deposit must have a merchant: without one the handler throws (Stumble).
LookUpVa(h) ==
    /\ product = "va" /\ mapped
    /\ GoOn(h, "look", "settle")
    /\ UNCHANGED <<product, row, request, order, mapped, event, stumbles>>

\* The status that was read decides whether a failure is recorded.
ApplyExpired(h) ==
    /\ IF note[h].read = "pending" /\ status = "pending"
       THEN status' = "failed" ELSE UNCHANGED status
    /\ Done(h, "fail")
    /\ UNCHANGED <<product, books, request, order, mapped, stumbles>>

-----------------------------------------------------------------------------
(* The status call of the merchant; staff reconcile through it *)

\* It asks while the pay-in is pending.
Poll(h) ==
    /\ product # "va" /\ h \in {"poll", "staff"}
    /\ status = "pending" /\ Found
    /\ HookStep(h, "idle", "ask")
    /\ note' = [note EXCEPT ![h].read = "pending"]
    /\ UNCHANGED <<product, row, request, order, mapped, event, stumbles>>

AskTekko(h) ==
    /\ \/ Outcome(order) # "idle" /\ GoOn(h, "ask", Outcome(order))
          /\ UNCHANGED event
       \/ Outcome(order) = "idle" /\ Done(h, "ask")
    /\ UNCHANGED <<product, row, request, order, mapped, stumbles>>

\* Staff enter a deposit by hand, for a merchant they can name.
EnterVaCredit ==
    /\ product = "va" /\ order = "credited"
    /\ HookStep("staff", "idle", "settle")
    /\ UNCHANGED <<product, row, request, order, mapped, event, note, stumbles>>

-----------------------------------------------------------------------------
(* settleTekkoNgnCollection, settleTekkoPyusdTransaction *)

Credit == status' = "success" /\ credits' = credits + 1

\* Variant: the UPDATE does not ask for a pending pay-in.
SettleUnconditionally(h) ==
    /\ product # "va"
    /\ Credit /\ GoOn(h, "settle", "fee")
    /\ UNCHANGED <<product, fees, request, order, mapped, event, stumbles>>

\* A pay-in that is still pending is credited, any other left alone.
SettlePending(h) ==
    /\ product # "va"
    /\ \/ /\ status = "pending"
          /\ Credit
          /\ GoOn(h, "settle", "fee") /\ UNCHANGED event
       \/ /\ status # "pending"
          /\ Done(h, "settle") /\ UNCHANGED <<status, credits>>
    /\ UNCHANGED <<product, fees, request, order, mapped, stumbles>>

\* settleTekkoNgnVaCredit: the row is inserted with its credit.  Of two that
\* insert it at once the unique index lets one through; the other throws
\* (Stumble) or, being later, finds the row.
SettleVa(h) ==
    /\ product = "va"
    /\ \/ /\ status = "none"
          /\ Credit
          /\ GoOn(h, "settle", "fee") /\ UNCHANGED event
       \/ /\ status = "success"
          /\ Done(h, "settle") /\ UNCHANGED <<status, credits>>
    /\ UNCHANGED <<product, fees, request, order, mapped, stumbles>>

\* The fee is taken after the credit has committed, or not at all.
ChargeFee(h) ==
    /\ fees' \in {fees, fees + 1}
    /\ Done(h, "fee")
    /\ UNCHANGED <<product, status, credits, request, order, mapped, stumbles>>

\* A handler dies or throws: the event is failed, and Tekko sends it again.
Stumble(h) ==
    /\ hook[h] # "idle" /\ stumbles < MaxStumbles
    /\ HookStep(h, hook[h], "idle")
    /\ note' = [note EXCEPT ![h] = NoNote]
    /\ stumbles' = stumbles + 1
    /\ UNCHANGED <<product, row, request, order, mapped, event>>

\* Variant: a deposit without a merchant is answered like any other callback.
AnswerUnmapped(h) ==
    /\ product = "va" /\ ~mapped
    /\ Done(h, "look")
    /\ UNCHANGED <<product, row, request, order, mapped, stumbles>>

\* Without a merchant the callback always throws.
ThrowUnmapped(h) ==
    /\ product = "va" /\ ~mapped
    /\ HookStep(h, "look", "idle")
    /\ note' = [note EXCEPT ![h] = NoNote]
    /\ UNCHANGED <<product, row, request, order, mapped, event, stumbles>>

-----------------------------------------------------------------------------
\* The account of a VA exists, whether or not its merchant can be found.
Init ==
    /\ product \in Product
    /\ status = "none" /\ credits = 0 /\ fees = 0
    /\ request = IF product = "va" THEN "done" ELSE "new"
    /\ order = IF product = "va" THEN "open" ELSE "none"
    /\ mapped \in IF product = "va" THEN BOOLEAN ELSE {TRUE}
    /\ event = [b \in Body |-> "none"]
    /\ hook = [h \in Actor |-> "idle"]
    /\ note = [h \in Actor |-> NoNote]
    /\ stumbles = 0

Apply(h) ==
    \/ LookUp(h) \/ LookUpVa(h) \/ ThrowUnmapped(h) \/ ApplyExpired(h)
    \/ AskTekko(h) \/ SettlePending(h) \/ SettleVa(h) \/ ChargeFee(h)

Next ==
    \/ Insert \/ CreateAnswered \/ EnterVaCredit \/ FixMapping
    \/ TekkoReceives \/ TekkoExpires \/ TekkoPaid \/ TekkoCredits
    \/ \E h \in Handler : ClaimWebhook(h)
    \/ \E h \in Actor : Poll(h) \/ Apply(h) \/ Stumble(h)

Spec == Init /\ [][Next]_vars

\* A handler that does not die runs on, Tekko repeats what is not answered,
\* and operations repair a mapping that callbacks fail on.
FairSpec ==
    /\ Spec
    /\ \A h \in Actor : WF_vars(Apply(h))
    /\ WF_vars(\E h \in Handler : ClaimWebhook(h))
    /\ WF_vars(FixMapping)

-----------------------------------------------------------------------------
(* Properties *)

\* Every variable has its type.
TypeOK ==
    /\ product \in Product
    /\ status \in {"none", "pending", "success", "failed"}
    /\ credits \in Nat /\ fees \in Nat
    /\ request \in {"new", "await", "done", "lost", "gone"}
    /\ order \in {"none", "sent", "open", "refused", "paid", "credited",
                  "expired"}
    /\ mapped \in BOOLEAN
    /\ event \in [Body -> {"none", "owed", "processed"}]
    /\ hook \in [Actor -> {"idle", "look", "ask", "settle", "fail", "fee"}]
    /\ note \in [Actor -> [says : {"nothing"} \cup Body,
                           read : {"none", "pending", "success", "failed"}]]
    /\ stumbles \in 0 .. MaxStumbles

\* ngn-collect.ts: "Credit merchant NGN once.  Safe under concurrent
\* webhooks/polls": one credit and at most one fee, only for money Tekko holds,
\* however callbacks, repeats, status calls and staff overlap and die.
CreditedOnce ==
    /\ credits <= 1 /\ fees <= credits
    /\ credits = 1 <=> status = "success"
    /\ credits = 1 => order = "credited"

\* What Tekko has credited reaches the merchant's wallet, although handlers
\* die, callbacks are repeated and a deposit's merchant was not found at first.
PaidIsCredited == order = "credited" ~> credits = 1
=============================================================================
