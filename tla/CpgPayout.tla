------------------------------ MODULE CpgPayout ------------------------------
(***************************************************************************)
(* One crypto payout over Tylt CPG: the request that debits the wallet and *)
(* calls Tylt, and callbacks of different bodies, each handled once.  What *)
(* a callback says counts only if Tylt's own record, asked for in return,  *)
(* says the same; otherwise the payout is marked for review and stays as   *)
(* it is.  A database transaction is one step (WalletLedger).              *)
(***************************************************************************)
EXTENDS Integers

CONSTANTS Amount,    \* what is debited: the amount sent and the FX spread
          Fee,       \* the platform's fee
          Opening,   \* opening balance of the wallet
          Callback,  \* callbacks of different bodies
          MaxError   \* bound: queries that fail and handlers that die

VARIABLES status,    \* transactions.status, "none" before the row exists
          entries,   \* ledger entries of the payout, by type
          balance,   \* the merchant's wallet in the settled currency
          review,    \* metadata.reviewRequired
          request,   \* where createTyltCpgPayoutRequest is
          order,     \* the payout as Tylt knows it
          says,      \* what each callback says
          hook,      \* where the handler of each callback is
          event,     \* webhook_events.status of each callback
          told,      \* told[c]: the status queued for the merchant after c
          errors

money == <<status, entries, balance>>
webhook == <<says, hook, event, told>>
vars == <<money, review, request, order, webhook, errors>>

Proceed(from, to) == request = from /\ request' = to

HookStep(c, from, to) == hook[c] = from /\ hook' = [hook EXCEPT ![c] = to]

Final == {"completed", "failed"}

-----------------------------------------------------------------------------
(* createTyltCpgPayoutRequest *)

Debit ==
    /\ Proceed("new", "await")
    /\ balance >= Amount + Fee
    /\ status' = "pending"
    /\ entries' = [entries EXCEPT !.payout = 1]
    /\ balance' = balance - Amount
    /\ order' = "sent"
    /\ UNCHANGED <<review, webhook, errors>>

\* A refusal is refunded; an accepted order gets its externalId, which the
\* callbacks do not need.
Answered ==
    /\ \/ order = "refused" /\ Proceed("await", "refund")
       \/ order \in {"open"} \cup Final /\ Proceed("await", "done")
    /\ UNCHANGED <<money, review, order, webhook, errors>>

\* The call throws, or the answer is an error or names no order.
Unanswered ==
    /\ Proceed("await", "unsure")
    /\ UNCHANGED <<money, review, order, webhook, errors>>

\* Variant: the UPDATE has no status condition.
RefundAgain ==
    /\ status' = "failed"
    /\ entries' = [entries EXCEPT !.payout_refund = @ + 1]
    /\ balance' = balance + Amount

\* refundPayoutDebit: nothing unless the payout is pending.
RefundPayoutDebit ==
    IF status = "pending"
    THEN /\ status' = "failed"
         /\ entries' = [entries EXCEPT !.payout_refund = @ + 1]
         /\ balance' = balance + Amount
    ELSE UNCHANGED money

RefundRequest ==
    /\ Proceed("refund", "done") \/ Proceed("unsure", "lost")
    /\ RefundPayoutDebit
    /\ UNCHANGED <<review, order, webhook, errors>>

-----------------------------------------------------------------------------
(* Tylt *)

TyltReceives ==
    /\ order = "sent"
    /\ order' \in {"open", "refused"}
    /\ UNCHANGED <<money, review, request, webhook, errors>>

TyltSettles ==
    /\ order = "open"
    /\ order' \in Final
    /\ UNCHANGED <<money, review, request, webhook, errors>>

-----------------------------------------------------------------------------
(* POST /webhooks/tylt/cpg-payout: each body is handled once *)

\* A callback may run ahead of what Tylt's record says.
Claim(c) ==
    /\ order \in {"open"} \cup Final
    /\ HookStep(c, "idle", "look")
    /\ says' \in {[says EXCEPT ![c] = s] :
                     s \in IF order = "open" THEN Final ELSE {order}}
    /\ event' = [event EXCEPT ![c] = "received"]
    /\ UNCHANGED <<money, review, request, order, told, errors>>

LookUp(c) ==
    /\ \/ status = "pending" /\ HookStep(c, "look", "ask")
       \/ status # "pending" /\ HookStep(c, "look", "mark")
    /\ UNCHANGED <<money, review, request, order, says, event, told, errors>>

\* Variant: the callback is believed.
AskNobody(c) ==
    /\ HookStep(c, "ask", IF says[c] = "failed" THEN "check" ELSE "settle")
    /\ UNCHANGED <<money, review, request, order, says, event, told, errors>>

\* fetchRemoteCpgPayoutDecision: Tylt may answer 4xx or 5xx instead.
AskTylt(c) ==
    /\ \/ /\ order = says[c]
          /\ HookStep(c, "ask", IF order = "failed" THEN "check" ELSE "settle")
          /\ UNCHANGED review
       \/ HookStep(c, "ask", "mark") /\ review' = TRUE
    /\ UNCHANGED <<money, request, order, says, event, told, errors>>

StillPending(c) ==
    /\ HookStep(c, "check", IF status = "pending" THEN "refund" ELSE "mark")
    /\ UNCHANGED <<money, review, request, order, says, event, told, errors>>

\* The merchant is told of the failure whether or not this call applied it.
RefundCallback(c) ==
    /\ HookStep(c, "refund", "markTell")
    /\ RefundPayoutDebit
    /\ UNCHANGED <<review, request, order, says, event, told, errors>>

Settle(c) ==
    /\ \/ /\ status = "pending" /\ HookStep(c, "settle", "markTell")
          /\ status' = "success"
          /\ IF Fee > 0 /\ balance >= Fee
             THEN /\ entries' = [entries EXCEPT !.platform_fee = @ + 1]
                  /\ balance' = balance - Fee
             ELSE UNCHANGED <<entries, balance>>
       \/ /\ status # "pending" /\ HookStep(c, "settle", "mark")
          /\ UNCHANGED money
    /\ UNCHANGED <<review, request, order, says, event, told, errors>>

\* The event carries the outcome this callback announced.
Outcome(c) == IF says[c] = "failed" THEN "failed" ELSE "success"

MarkProcessed(c) ==
    /\ \/ HookStep(c, "mark", "done") /\ UNCHANGED told
       \/ /\ HookStep(c, "markTell", "done")
          /\ told' \in {told, [told EXCEPT ![c] = Outcome(c)]}
    /\ event' = [event EXCEPT ![c] = "processed"]
    /\ UNCHANGED <<money, review, request, order, says, errors>>

\* A query fails or the process dies; the same body is not handled again.
HandlerFails ==
    /\ errors < MaxError
    /\ errors' = errors + 1
    /\ \/ /\ request \in {"await", "refund", "unsure"}
          /\ request' = "gone"
          /\ UNCHANGED <<hook, event>>
       \/ \E c \in Callback :
              /\ hook[c] \notin {"idle", "done"}
              /\ hook' = [hook EXCEPT ![c] = "done"]
              /\ event' \in {event, [event EXCEPT ![c] = "failed"]}
              /\ UNCHANGED request
    /\ UNCHANGED <<money, review, order, says, told>>

-----------------------------------------------------------------------------
Init ==
    /\ status = "none"
    /\ entries = [payout |-> 0, payout_refund |-> 0, platform_fee |-> 0]
    /\ balance = Opening
    /\ review = FALSE
    /\ request = "new" /\ order = "none"
    /\ says = [c \in Callback |-> "nothing"]
    /\ hook = [c \in Callback |-> "idle"]
    /\ event = [c \in Callback |-> "absent"]
    /\ told = [c \in Callback |-> "nothing"]
    /\ errors = 0

HandleCallback(c) ==
    \/ Claim(c) \/ LookUp(c) \/ AskTylt(c) \/ StillPending(c)
    \/ RefundCallback(c) \/ Settle(c) \/ MarkProcessed(c)

Next == \/ Debit \/ Answered \/ Unanswered \/ RefundRequest
        \/ TyltReceives \/ TyltSettles
        \/ \E c \in Callback : HandleCallback(c)
        \/ HandlerFails

Spec == Init /\ [][Next]_vars

-----------------------------------------------------------------------------
(* Properties *)

\* Every variable has its type, and the wallet is never overdrawn.
TypeOK ==
    /\ status \in {"none", "pending", "success", "failed"}
    /\ entries \in [{"payout", "payout_refund", "platform_fee"} -> Nat]
    /\ balance \in Nat /\ review \in BOOLEAN
    /\ request \in {"new", "await", "refund", "unsure", "done", "lost", "gone"}
    /\ order \in {"none", "sent", "open", "refused"} \cup Final
    /\ says \in [Callback -> {"nothing"} \cup Final]
    /\ hook \in [Callback -> {"idle", "look", "ask", "check", "refund",
                              "settle", "mark", "markTell", "done"}]
    /\ event \in [Callback -> {"absent", "received", "processed", "failed"}]
    /\ told \in [Callback -> {"nothing", "success", "failed"}]
    /\ errors \in 0 .. MaxError

\* Whatever callbacks say and in whatever order they come, the ledger follows
\* Tylt's record: a payout Tylt made is given back only if the request was
\* left without an answer, and no other counts as made.
FollowsTheRecord ==
    /\ entries.payout_refund = IF status = "failed" THEN 1 ELSE 0
    /\ order \in {"open", "completed"} /\ status = "failed" => request = "lost"
    /\ status = "success" => order = "completed"

\* No callback makes the merchant believe what did not happen to his money,
\* though a failure is reported by calls that did not apply it.
ToldTheTruth == \A c \in Callback : told[c] \in {"nothing", status}
=============================================================================
