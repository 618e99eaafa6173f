------------------------------ MODULE EurPayout ------------------------------
(***************************************************************************)
(* One EUR payout over Tylt open banking.  Unlike the other rails it calls *)
(* the provider first and debits the wallet afterwards, when the quote is  *)
(* known; the callback looks at the payout's row only, not at the debit.   *)
(***************************************************************************)
EXTENDS Integers

CONSTANTS Fiat,     \* transactions.amount until the quote is recorded
          Quote,    \* what is debited
          Fee,      \* the platform's fee
          Opening,  \* opening balances of the merchant's USDC wallet
          MaxError  \* bound: queries that fail and handlers that die

VARIABLES status,   \* transactions.status, "none" before the row exists
          amount,   \* transactions.amount: "fiat", then "quote"
          debited,  \* sum of its payout debits
          refunded, \* sum of its payout_refund credits
          fees,     \* number of its platform_fee debits
          balance,  \* the wallet
          request,  \* where createTyltEurPayoutInstance is
          order,    \* the instance as Tylt knows it
          hook,     \* where the handler of the final callback is
          read,     \* which amount the handler has read
          told,     \* the status queued for the merchant
          errors

row == <<status, amount>>
ledger == <<debited, refunded, fees, balance>>
callback == <<hook, read, told>>
vars == <<row, ledger, request, order, callback, errors>>

Proceed(from, to) == request = from /\ request' = to

HookStep(from, to) == hook = from /\ hook' = to

Final == {"completed", "failed"}

Worth(a) == CASE a = "nothing" -> 0 [] a = "fiat" -> Fiat [] a = "quote" -> Quote

-----------------------------------------------------------------------------
(* createTyltEurPayoutInstance *)

CreateInstance ==
    /\ Proceed("new", "await")
    /\ status' = "pending"
    /\ order' = "sent"
    /\ UNCHANGED <<amount, ledger, callback, errors>>

\* Every failure marks the row by an UPDATE without a status condition.
MarkFailed == status' = "failed"

\* A refusal ends the call; so does a product that is switched off, but then
\* Tylt keeps the instance.
Answered ==
    /\ \/ order = "refused" /\ Proceed("await", "done") /\ MarkFailed
       \/ /\ order \in {"open"} \cup Final
          /\ \/ Proceed("await", "debit") /\ UNCHANGED status
             \/ Proceed("await", "done") /\ MarkFailed
    /\ UNCHANGED <<amount, ledger, order, callback, errors>>

\* The call throws: nothing handles that, and the row stays pending.
Unanswered ==
    /\ Proceed("await", "gone")
    /\ UNCHANGED <<row, ledger, order, callback, errors>>

\* The wallet pays the quote; the status of the row is not looked at.
DebitQuote ==
    /\ balance >= Quote + Fee
    /\ Proceed("debit", "record")
    /\ debited' = debited + Quote
    /\ balance' = balance - Quote
    /\ UNCHANGED <<row, refunded, fees, order, callback, errors>>

RefuseDebit ==
    /\ balance < Quote + Fee
    /\ Proceed("debit", "done")
    /\ MarkFailed
    /\ UNCHANGED <<amount, ledger, order, callback, errors>>

RecordQuote ==
    /\ Proceed("record", "done")
    /\ amount' = "quote"
    /\ UNCHANGED <<status, ledger, order, callback, errors>>

\* The process dies, or a query fails.
RequestDies ==
    /\ errors < MaxError
    /\ errors' = errors + 1
    /\ \E step \in {"await", "debit", "record"} : Proceed(step, "gone")
    /\ UNCHANGED <<row, ledger, order, callback>>

-----------------------------------------------------------------------------
(* Tylt *)

TyltReceives ==
    /\ order = "sent"
    /\ order' \in {"open", "refused"}
    /\ UNCHANGED <<row, ledger, request, callback, errors>>

\* The request may not have debited or recorded anything yet, or be dead.
TyltSettles ==
    /\ order = "open"
    /\ order' \in Final
    /\ UNCHANGED <<row, ledger, request, callback, errors>>

-----------------------------------------------------------------------------
(* applyTyltEurPayoutWebhookPayload *)

LookUp ==
    /\ order \in Final
    /\ \/ status = "pending" /\ HookStep("idle", "apply") /\ read' = amount
       \/ status # "pending" /\ HookStep("idle", "done") /\ UNCHANGED read
    /\ UNCHANGED <<row, ledger, request, order, told, errors>>

\* Variant: the amount the merchant asked for is refunded.
RefundFiat ==
    /\ order = "failed"
    /\ HookStep("apply", "tell")
    /\ status' = "failed"
    /\ refunded' = refunded + Fiat
    /\ balance' = balance + Fiat
    /\ UNCHANGED <<amount, debited, fees, request, order, read, told, errors>>

\* refundEurPayoutDebit credits the amount that was read, debited or not.
Refund ==
    /\ order = "failed"
    /\ HookStep("apply", "tell")
    /\ IF status = "pending"
       THEN /\ status' = "failed"
            /\ refunded' = refunded + Worth(read)
            /\ balance' = balance + Worth(read)
       ELSE UNCHANGED <<status, refunded, balance>>
    /\ UNCHANGED <<amount, debited, fees, request, order, read, told, errors>>

Settle ==
    /\ order = "completed"
    /\ \/ /\ status = "pending" /\ HookStep("apply", "tell")
          /\ status' = "success"
          /\ IF Fee > 0 /\ balance >= Fee
             THEN fees' = fees + 1 /\ balance' = balance - Fee
             ELSE UNCHANGED <<fees, balance>>
       \/ /\ status # "pending" /\ HookStep("apply", "done")
          /\ UNCHANGED <<status, fees, balance>>
    /\ UNCHANGED <<amount, debited, refunded, request, order, read, told, errors>>

Tell ==
    /\ HookStep("tell", "done")
    /\ told' \in {told, IF order = "failed" THEN "failed" ELSE "success"}
    /\ UNCHANGED <<row, ledger, request, order, read, errors>>

\* A second delivery of the same body is answered as a duplicate.
CallbackFails ==
    /\ errors < MaxError
    /\ errors' = errors + 1
    /\ HookStep("apply", "done")
    /\ UNCHANGED <<row, ledger, request, order, read, told>>

-----------------------------------------------------------------------------
Init ==
    /\ status = "none" /\ amount = "fiat"
    /\ debited = 0 /\ refunded = 0 /\ fees = 0
    /\ balance \in Opening
    /\ request = "new" /\ order = "none"
    /\ hook = "idle" /\ read = "nothing" /\ told = "nothing"
    /\ errors = 0

RequestStep == \/ Answered \/ Unanswered \/ DebitQuote \/ RefuseDebit
               \/ RecordQuote \/ RequestDies

CallbackStep == LookUp \/ Refund \/ Settle \/ Tell \/ CallbackFails

Next == \/ CreateInstance \/ RequestStep \/ CallbackStep
        \/ TyltReceives \/ TyltSettles

Spec == Init /\ [][Next]_vars

-----------------------------------------------------------------------------
(* Properties *)

\* Every variable has its type, and the wallet is never overdrawn.
TypeOK ==
    /\ status \in {"none", "pending", "success", "failed"}
    /\ amount \in {"fiat", "quote"} /\ read \in {"nothing", "fiat", "quote"}
    /\ debited \in Nat /\ refunded \in Nat /\ fees \in 0 .. 1
    /\ balance \in Nat
    /\ request \in {"new", "await", "debit", "record", "done", "gone"}
    /\ order \in {"none", "sent", "open", "refused"} \cup Final
    /\ hook \in {"idle", "apply", "tell", "done"}
    /\ told \in {"nothing", "success", "failed"}
    /\ errors \in 0 .. MaxError

\* A failed payout returns once, if at all, the amount its row held when the
\* callback found it pending: what was taken if the quote was recorded by then,
\* and otherwise what was asked for.  One that Tylt completed returns nothing.
RefundsWhatItRead ==
    /\ refunded \in {0, Worth(read)}
    /\ refunded > 0 => status = "failed" /\ order = "failed"
    /\ read = "quote" => debited = Quote

\* docs/MONEY_INVARIANTS.md: the request and the callback are safe against
\* arriving in either order.  What a failed payout returns is what it took.
\* The code does not keep this (README): the callback may come before the debit,
\* or before the record of the quote.
ReturnsWhatItTook == refunded \in {0, debited}
=============================================================================
