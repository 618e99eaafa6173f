------------------------------ MODULE TyltPayin ------------------------------
(***************************************************************************)
(* One pay-in over Tylt: UPI (CrossRamp, hosted or host to host), crypto   *)
(* (CPG) or EUR open banking.  The request inserts the pay-in and calls    *)
(* Tylt; callbacks of different bodies report the outcome, each handled    *)
(* once, except that a manual settlement is handled every time it comes.   *)
(* UPI and CPG ask Tylt's record before they believe a callback.           *)
(* A database transaction is one step (WalletLedger).  A handler that dies  *)
(* is one that never moves on: its body is not handled again.              *)
(***************************************************************************)
EXTENDS Integers

CONSTANTS Rail,       \* the products to look at: Upi, "cpg", "eur"
          Handler,    \* webhook deliveries that may be under way at once
          Legacy,     \* the pay-in was credited in another currency before
          MaxManual   \* bound: deliveries of the manual settlement

VARIABLES rail,       \* the product
          status,     \* transactions.status, "none" before the row exists
          credits,    \* "payin" credits of it, by wallet: "usdt" or "old"
          reversals,  \* "payin" debits of it in the old wallet
          fees,       \* fees taken for it
          request,    \* where the create call is
          order,      \* the instance as Tylt knows it
          taken,      \* callback bodies that webhook_events has seen
          manuals,    \* deliveries of the manual settlement so far
          hook,       \* where each handler is
          note        \* what its callback says and what it has read

books == <<credits, reversals, fees>>
row == <<status, books>>
handlers == <<taken, manuals, hook, note>>
vars == <<rail, row, request, order, handlers>>

Upi == {"crossramp", "h2h"}

Actor == Handler \cup {"staff"}

Body == {"success", "settled", "failed"}

NoNote == [says |-> "nothing", read |-> "none", seen |-> "none"]

Proceed(from, to) == request = from /\ request' = to

HookStep(h, from, to) == hook[h] = from /\ hook' = [hook EXCEPT ![h] = to]

GoOn(h, from, to) == HookStep(h, from, to) /\ UNCHANGED note

\* The handler is done, and what it has read is of no use any more.
Leave(h, from) == HookStep(h, from, "idle") /\ note' = [note EXCEPT ![h] = NoNote]

-----------------------------------------------------------------------------
(* The create calls *)

Insert ==
    /\ Proceed("new", "await")
    /\ status' = "pending"
    /\ order' = "sent"
    /\ UNCHANGED <<rail, books, handlers>>

\* Tylt took the order: its identifier is recorded.
Accepted == order \in {"open", "completed", "expired"}
                /\ Proceed("await", "done") /\ UNCHANGED status

\* Any other answer fails the pay-in by an UPDATE without a status condition,
\* even when Tylt has the order and the answer only got lost on the way.
Refused == /\ IF order = "refused" THEN Proceed("await", "done")
                                   ELSE Proceed("await", "lost")
           /\ status' = "failed"

Unhandled == Proceed("await", "gone") /\ UNCHANGED status

CreateCrossRamp ==
    /\ rail = "crossramp"
    /\ Accepted \/ Refused \/ Unhandled
    /\ UNCHANGED <<rail, books, order, handlers>>

CreateH2h ==
    /\ rail = "h2h"
    /\ Accepted \/ Refused \/ Unhandled
    /\ UNCHANGED <<rail, books, order, handlers>>

CreateCpg ==
    /\ rail = "cpg"
    /\ Accepted \/ Refused \/ Unhandled
    /\ UNCHANGED <<rail, books, order, handlers>>

\* Only here is a call that throws handled, and only for a pending pay-in.
CreateEur ==
    /\ rail = "eur"
    /\ \/ Accepted \/ Refused
       \/ /\ Proceed("await", "lost")
          /\ status' = IF status = "pending" THEN "failed" ELSE status
    /\ UNCHANGED <<rail, books, order, handlers>>

-----------------------------------------------------------------------------
(* Tylt *)

TyltReceives ==
    /\ order = "sent"
    /\ order' \in {"open", "refused"}
    /\ UNCHANGED <<rail, row, request, handlers>>

\* An operator at Tylt may complete a UPI trade that has expired.
TyltSettles ==
    /\ \/ order = "open" /\ order' \in {"completed", "expired"}
       \/ order = "expired" /\ rail \in Upi /\ order' = "manual"
    /\ UNCHANGED <<rail, row, request, handlers>>

\* What Tylt's record says when it is asked.
Decision == CASE order \in {"completed", "manual"} -> "success"
              [] order = "expired" -> "failed"
              [] OTHER -> "unknown"

-----------------------------------------------------------------------------
(* The webhook route, and the reconcile that staff run for CrossRamp *)

SaysSuccess(h) == note[h].says \in {"success", "settled", "manual"}

\* A UPI or CPG callback may run ahead of Tylt's own record.
MaySay(body) ==
    \/ order = "open" /\ rail # "eur"
    \/ body = "failed" /\ order \in {"expired", "manual"}
    \/ body # "failed" /\ order = "completed"

\* A body is claimed once, the manual settlement again and again.
ClaimWebhook(h) ==
    /\ HookStep(h, "idle", "look")
    /\ \E body \in Body \cup {"manual"} :
          /\ note' = [note EXCEPT ![h] = [NoNote EXCEPT !.says = body]]
          /\ IF body = "manual"
             THEN /\ order = "manual" /\ manuals < MaxManual
                  /\ manuals' = manuals + 1 /\ UNCHANGED taken
             ELSE /\ MaySay(body) /\ body \notin taken
                  /\ taken' = taken \cup {body} /\ UNCHANGED manuals
    /\ UNCHANGED <<rail, row, request, order>>

\* Tylt's record becomes a callback of its own.
Reconcile ==
    /\ rail = "crossramp" /\ status = "pending" /\ Decision # "unknown"
    /\ HookStep("staff", "idle", "look")
    /\ note' = [note EXCEPT !["staff"] = [NoNote EXCEPT !.says = Decision]]
    /\ UNCHANGED <<rail, row, request, order, taken, manuals>>

-----------------------------------------------------------------------------
(* applyTyltCrossRampWebhookPayload *)

\* The row is read, and then, for a success, a credit of it.
LookUpUpi(h) ==
    /\ rail \in Upi
    /\ \/ /\ SaysSuccess(h) /\ HookStep(h, "look", "credit")
          /\ note' = [note EXCEPT ![h].read = status]
       \/ /\ ~SaysSuccess(h) /\ status = "pending" /\ HookStep(h, "look", "ask")
          /\ note' = [note EXCEPT ![h].read = status]
       \/ /\ ~SaysSuccess(h) /\ status # "pending"
          /\ Leave(h, "look")
    /\ UNCHANGED <<rail, row, request, order, taken, manuals>>

\* A manual settlement revives a failed pay-in, and moves a credit that went
\* to the wallet of another currency.
RevivesFailed(n) == n.says = "manual" /\ n.read = "failed"

MovesCredit(n) == n.says = "manual" /\ n.read = "success" /\ n.seen = "old"

\* One of the credits, in no particular order.
SomeCredit == IF credits["usdt"] + credits["old"] = 0 THEN {"none"}
              ELSE {w \in {"usdt", "old"} : credits[w] > 0}

\* A pay-in that is not pending is left alone but for a manual settlement.
FindExistingCredit(h) ==
    /\ \E w \in SomeCredit :
          LET n == [note[h] EXCEPT !.seen = w] IN
          IF n.read = "pending" \/ RevivesFailed(n) \/ MovesCredit(n)
          THEN /\ HookStep(h, "credit", "ask")
               /\ note' = [note EXCEPT ![h] = n]
          ELSE Leave(h, "credit")
    /\ UNCHANGED <<rail, row, request, order, taken, manuals>>

Recovers(h) == RevivesFailed(note[h]) \/ MovesCredit(note[h])

Confirmed(h) == Decision = IF SaysSuccess(h) THEN "success" ELSE "failed"

\* A callback that Tylt's record does not confirm, or that is not answered,
\* is dropped, with a mark for review in the metadata; a manual one is not.  A
\* success event that carries another status than "Completed" is a failure.
AskUpi(h) ==
    /\ rail \in Upi
    /\ \/ /\ Recovers(h) \/ Confirmed(h)
          /\ GoOn(h, "ask", IF SaysSuccess(h) THEN "settle" ELSE "fail")
       \/ /\ SaysSuccess(h) /\ (Recovers(h) \/ Decision = "failed")
          /\ GoOn(h, "ask", "fail")
       \/ ~Recovers(h) /\ Leave(h, "ask")
    /\ UNCHANGED <<rail, row, request, order, taken, manuals>>

FromStatus(h) == IF RevivesFailed(note[h]) THEN {"pending", "failed"}
                 ELSE IF MovesCredit(note[h]) THEN {"success"} ELSE {"pending"}

TakeFee == fees' \in {fees, fees + 1}

CreditWallet == /\ credits' = [credits EXCEPT !["usdt"] = @ + 1]
                /\ TakeFee

\* Variant: that the pay-in was credited already is not looked at.
SettleAgainUpi(h) ==
    /\ rail \in Upi
    /\ Leave(h, "settle")
    /\ IF status \in FromStatus(h)
       THEN status' = "success" /\ CreditWallet /\ UNCHANGED reversals
       ELSE UNCHANGED row
    /\ UNCHANGED <<rail, request, order, taken, manuals>>

\* The conditional UPDATE, then the credit, unless one is found; one that went
\* to the old wallet may be moved.
SettleUpi(h) ==
    /\ rail \in Upi
    /\ Leave(h, "settle")
    /\ \/ /\ status \in FromStatus(h)
          /\ status' = "success"
          /\ \E w \in SomeCredit :
                \/ w = "none" /\ CreditWallet /\ UNCHANGED reversals
                \/ /\ w = "old" /\ MovesCredit(note[h])
                   /\ reversals' = reversals + 1
                   /\ CreditWallet
                \/ /\ w # "none" /\ (w = "usdt" \/ ~MovesCredit(note[h]))
                   /\ UNCHANGED books
       \/ status \notin FromStatus(h) /\ UNCHANGED row
    /\ UNCHANGED <<rail, request, order, taken, manuals>>

-----------------------------------------------------------------------------
(* applyTyltCpgPayinWebhookPayload, applyTyltEurPayinWebhookPayload *)

\* A pay-in that is not pending is left alone; for one that is, Tylt's record
\* is asked.
LookUpCpg(h) ==
    /\ rail = "cpg"
    /\ IF status = "pending" THEN GoOn(h, "look", "ask") ELSE Leave(h, "look")
    /\ UNCHANGED <<rail, row, request, order, taken, manuals>>

AskCpg(h) ==
    /\ rail = "cpg"
    /\ \/ /\ Confirmed(h)
          /\ GoOn(h, "ask", IF SaysSuccess(h) THEN "settle" ELSE "fail")
       \/ Leave(h, "ask")
    /\ UNCHANGED <<rail, row, request, order, taken, manuals>>

LookUpEur(h) ==
    /\ rail = "eur"
    /\ IF status = "pending"
       THEN GoOn(h, "look", IF SaysSuccess(h) THEN "settle" ELSE "fail")
       ELSE Leave(h, "look")
    /\ UNCHANGED <<rail, row, request, order, taken, manuals>>

\* A success is applied by whoever finds the pay-in pending.
CreditPending(h) ==
    /\ Leave(h, "settle")
    /\ IF status = "pending"
       THEN status' = "success" /\ CreditWallet /\ UNCHANGED reversals
       ELSE UNCHANGED row
    /\ UNCHANGED <<rail, request, order, taken, manuals>>

SettleCpg(h) == rail = "cpg" /\ CreditPending(h)

SettleEur(h) == rail = "eur" /\ CreditPending(h)

\* So is a failure, on every product.
Fail(h) ==
    /\ Leave(h, "fail")
    /\ status' = IF status = "pending" THEN "failed" ELSE status
    /\ UNCHANGED <<rail, books, request, order, taken, manuals>>

-----------------------------------------------------------------------------
\* A legacy pay-in was credited in the customer's currency.
Init ==
    /\ rail \in Rail
    /\ status = IF Legacy THEN "success" ELSE "none"
    /\ credits = [usdt |-> 0, old |-> IF Legacy THEN 1 ELSE 0]
    /\ reversals = 0
    /\ fees = 0
    /\ request = IF Legacy THEN "done" ELSE "new"
    /\ order = IF Legacy THEN "manual" ELSE "none"
    /\ taken = {} /\ manuals = 0
    /\ hook = [h \in Actor |-> "idle"]
    /\ note = [h \in Actor |-> NoNote]

Request == Insert \/ CreateCrossRamp \/ CreateH2h \/ CreateCpg \/ CreateEur

Apply(h) ==
    \/ LookUpUpi(h) \/ FindExistingCredit(h) \/ AskUpi(h)
    \/ LookUpCpg(h) \/ AskCpg(h) \/ LookUpEur(h)
    \/ SettleUpi(h) \/ SettleCpg(h) \/ SettleEur(h) \/ Fail(h)

Next == \/ Request \/ TyltReceives \/ TyltSettles \/ Reconcile
        \/ \E h \in Handler : ClaimWebhook(h)
        \/ \E h \in Actor : Apply(h)

Spec == Init /\ [][Next]_vars

-----------------------------------------------------------------------------
(* Properties *)

\* Every variable has its type.
TypeOK ==
    /\ rail \in Rail
    /\ status \in {"none", "pending", "success", "failed"}
    /\ credits \in [{"usdt", "old"} -> Nat] /\ reversals \in Nat /\ fees \in Nat
    /\ request \in {"new", "await", "done", "lost", "gone"}
    /\ order \in {"none", "sent", "open", "refused", "completed", "expired",
                  "manual"}
    /\ taken \subseteq Body /\ manuals \in 0 .. MaxManual
    /\ hook \in [Actor -> {"idle", "look", "credit", "ask", "settle",
                           "fail"}]
    /\ note \in [Actor -> [says : {"nothing", "manual"} \cup Body,
                           read : {"none", "pending", "success", "failed"},
                           seen : {"none", "usdt", "old"}]]

\* What stands to the merchant's credit, in either wallet.
Credit == credits["usdt"] + credits["old"] - reversals

\* docs/MONEY_INVARIANTS.md: provider callbacks credit the wallet exactly once,
\* however callbacks, replays of a manual settlement and reconciles overlap.  A
\* credited pay-in shows as failed only if the request got no clear answer.
CreditedOnce ==
    /\ Credit <= 1 /\ credits["usdt"] <= 1 /\ fees <= credits["usdt"]
    /\ status = "success" => Credit = 1
    /\ status = "failed" /\ Credit = 1 => request = "lost"

\* Nothing is credited that Tylt's customer has not paid, although callbacks
\* may run ahead of Tylt's record.
CreditedIsPaid == Credit = 1 => order \in {"completed", "manual"}
=============================================================================
