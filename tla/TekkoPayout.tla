----------------------------- MODULE TekkoPayout -----------------------------
(***************************************************************************)
(* One NGN payout over Tekko: the request that debits the wallet and asks  *)
(* Tekko to pay, the webhook deliveries that report the outcome, and the   *)
(* status call (by the merchant, or by staff as a reconcile) that asks for *)
(* it.  All of them first charge the merchant what Tekko took for the      *)
(* transfer, in a transaction that sums earlier charges before it locks    *)
(* the wallet; every other transaction here is one step (WalletLedger).    *)
(*                                                                         *)
(* Another payout of the merchant uses the balance, and may lend this one  *)
(* its reference: a create answer without one is completed from the newest *)
(* entry of Tekko's list.                                                  *)
(***************************************************************************)
EXTENDS Integers

CONSTANTS Amount,    \* amount of the payout
          Fee,       \* the platform's fee on it
          RailFee,   \* what Tekko may report as its fee; 0 is "not reported"
          Opening,   \* opening balance of the merchant's NGN wallet
          Spending,  \* what the merchant's other payout takes meanwhile
          Delivery,  \* webhook deliveries that may be under way at once
          MaxError   \* bound: queries that fail, handlers that die, errors misread

ASSUME TekkoAssumption ==
    /\ Amount \in Nat \ {0} /\ Fee \in Nat /\ Opening \in Nat
    /\ RailFee \subseteq Nat /\ 0 \in RailFee
    /\ Spending \in Nat /\ MaxError \in Nat
    /\ {"create", "poll"} \cap Delivery = {}

VARIABLES status,     \* transactions.status, "none" before the row exists
          entries,    \* ledger entries of the payout, by type
          charged,    \* sum of its provider_fee debits
          toppedUp,   \* a debit under the top-up reference exists
          returned,   \* its provider_fee_refund credit, 0 if there is none
          balance,    \* the wallet
          storedFee,  \* metadata.tekkoFee, 0 if absent
          reference,  \* externalId: "none", "interim", "tekko" or "other"
          order,      \* the withdrawal as Tekko knows it
          quoted,     \* the fee Tekko reports for it
          other,      \* the withdrawal of the other payout, "none" before it
          event,      \* webhook_events.status of Tekko's callback
          acked,      \* Tekko got 200 for the callback
          told,       \* statuses queued for the merchant
          at,         \* where each actor is
          note,       \* what each actor has read
          misread,    \* history: an error was taken for the outcome
          errors

row == <<status, entries>>
rail == <<charged, toppedUp, returned>>
money == <<row, rail, balance>>
tekko == <<order, quoted, other>>
webhook == <<event, acked, told>>
limits == <<misread, errors>>
vars == <<money, storedFee, reference, tekko, webhook, at, note, limits>>

Actor == {"create", "poll"} \cup Delivery

\* fee: the fee to charge; sum: charges read; meta: the stored fee read;
\* next: where to go on once the fee is charged.
NoNote == [fee |-> 0, sum |-> 0, meta |-> 0, next |-> "idle"]

Move(a, from, to) == at[a] = from /\ at' = [at EXCEPT ![a] = to]

\* What a has read is of no use any more.
Forget(a) == note' = [note EXCEPT ![a] = NoNote]

Final == {"completed", "failed"}

\* The withdrawal that the payout's reference names, and the fees Tekko may
\* report for it.
Watched == IF reference = "other" THEN other ELSE order
Reported == IF reference = "other" THEN RailFee ELSE {quoted}

-----------------------------------------------------------------------------
(* createTekkoNgnPayout *)

\* The balance must cover amount and platform fee; the amount is debited.
Debit ==
    /\ balance >= Amount + Fee
    /\ Move("create", "new", "await")
    /\ status' = "pending"
    /\ entries' = [entries EXCEPT !.payout = 1]
    /\ balance' = balance - Amount
    /\ order' = "sent"
    /\ UNCHANGED <<rail, storedFee, reference, quoted, other, webhook, note, limits>>

\* 4xx is a refusal; a 2xx that says "initiated" is accepted however sparse.
Answered ==
    /\ \/ order = "refused" /\ Move("create", "await", "refund")
       \/ order \in {"processing"} \cup Final /\ Move("create", "await", "locate")
    /\ UNCHANGED <<money, storedFee, reference, tekko, webhook, note, limits>>

\* The call throws, or answers 5xx, whatever became of the withdrawal.
Unanswered ==
    /\ Move("create", "await", "unsure")
    /\ UNCHANGED <<money, storedFee, reference, tekko, webhook, note, limits>>

\* The wallet gets the amount back, and the charge for the transfer too.
RailRefund(meta) == IF charged = 0 \/ returned > 0 THEN 0
                    ELSE IF meta > charged THEN meta ELSE charged

FailWithRefund(meta) ==
    /\ status' = "failed"
    /\ entries' = [entries EXCEPT !.payout_refund = @ + 1]
    /\ returned' = returned + RailRefund(meta)
    /\ balance' = balance + Amount + RailRefund(meta)
    /\ UNCHANGED <<charged, toppedUp>>

RefundPending ==
    /\ Move("create", "refund", "done") \/ Move("create", "unsure", "lost")
    /\ \/ status = "pending" /\ FailWithRefund(storedFee)
       \/ status # "pending" /\ UNCHANGED money
    /\ UNCHANGED <<storedFee, reference, tekko, webhook, note, limits>>

\* The reference is in the answer, or that of the newest withdrawal in the
\* list, which is another payout's if that one has not recorded it yet, or
\* unknown: then the idempotency key takes its place.  So with the fee.
Record ==
    /\ at["create"] = "locate"
    /\ reference' \in {"tekko", "interim"} \cup IF other = "none" THEN {} ELSE {"other"}
    /\ \E fee \in {0, quoted} \cup IF reference' = "other" THEN RailFee ELSE {} :
          /\ storedFee' = fee
          /\ IF fee = 0
             THEN Move("create", "locate", "done") /\ UNCHANGED note
             ELSE /\ Move("create", "locate", "fee")
                  /\ note' = [note EXCEPT !["create"] =
                                 [NoNote EXCEPT !.fee = fee, !.next = "done"]]
    /\ UNCHANGED <<money, tekko, webhook, limits>>

\* Another payout has recorded the reference: the unique index refuses the
\* UPDATE, the call throws, and the row stays pending.
RecordRefused ==
    /\ Move("create", "locate", "gone")
    /\ UNCHANGED <<money, storedFee, reference, tekko, webhook, note, limits>>

-----------------------------------------------------------------------------
(* ensureTekkoNgnProviderFeeDebited *)

\* The charges so far are summed before the wallet is locked; the status of
\* the payout is not looked at.
SumCharges(a) ==
    /\ Move(a, "fee", "charge")
    /\ note' = [note EXCEPT ![a].sum = charged]
    /\ UNCHANGED <<money, storedFee, reference, tekko, webhook, limits>>

\* Only the judgement still to come needs the fee.
ForgetCharge(a) ==
    note' = [note EXCEPT ![a] =
                IF @.next = "judge" THEN [NoNote EXCEPT !.fee = note[a].fee]
                ELSE IF @.next = "ask" THEN [@ EXCEPT !.sum = 0, !.fee = 0]
                ELSE NoNote]

\* Variant: the shortfall is charged to a wallet that does not cover it.
ChargeUncovered(a) ==
    LET due == note[a].fee - note[a].sum IN
    /\ Move(a, "charge", note[a].next)
    /\ storedFee' = note[a].fee
    /\ charged' = charged + due
    /\ balance' = balance - due
    /\ ForgetCharge(a)
    /\ UNCHANGED <<row, toppedUp, returned, reference, tekko, webhook, limits>>

\* What is missing is charged if the wallet covers it, the second time under
\* the top-up reference, and never a third time.
ChargeFee(a) ==
    LET due == note[a].fee - note[a].sum
        topup == note[a].sum > 0
    IN  /\ Move(a, "charge", note[a].next)
        /\ IF due > 0 /\ balance >= due /\ ~(topup /\ toppedUp)
           THEN /\ charged' = charged + due
                /\ balance' = balance - due
                /\ toppedUp' = (toppedUp \/ topup)
           ELSE UNCHANGED <<charged, balance, toppedUp>>
        /\ storedFee' = IF due > 0 /\ balance >= due /\ topup /\ toppedUp
                        THEN storedFee ELSE note[a].fee
        /\ ForgetCharge(a)
        /\ UNCHANGED <<row, returned, reference, tekko, webhook, limits>>

-----------------------------------------------------------------------------
(* Tekko *)

TekkoReceives ==
    /\ order = "sent"
    /\ \/ order' = "refused" /\ UNCHANGED quoted
       \/ order' = "processing" /\ quoted' \in RailFee
    /\ UNCHANGED <<money, storedFee, reference, other, webhook, at, note, limits>>

\* The fee it first reported may have been a part of it.
TekkoSettles ==
    /\ order = "processing"
    /\ order' \in Final
    /\ quoted' \in {fee \in RailFee : fee >= quoted}
    /\ UNCHANGED <<money, storedFee, reference, other, webhook, at, note, limits>>

\* The other payout's withdrawal; it matters only if it is watched.
OtherSettles ==
    /\ reference = "other" /\ other = "processing"
    /\ other' \in Final
    /\ UNCHANGED <<money, storedFee, reference, order, quoted, webhook, at, note, limits>>

-----------------------------------------------------------------------------
(* POST /webhooks/tekko: the callback, delivered until it is acknowledged *)

\* Only a delivery that was processed answers for a later one.
Claim(d) ==
    /\ order \in Final /\ ~acked
    /\ \/ /\ event # "processed"
          /\ event' = IF event = "absent" THEN "received" ELSE event
          /\ Move(d, "idle", "look") /\ UNCHANGED acked
       \/ /\ event = "processed" /\ at[d] = "idle"
          /\ acked' = TRUE /\ UNCHANGED <<at, event>>
    /\ UNCHANGED <<money, storedFee, reference, tekko, told, note, limits>>

\* The payout is found by Tekko's reference only; an unknown one, or one that
\* another payout recorded, changes nothing here.
LookUp(d) ==
    /\ \/ /\ reference = "tekko" /\ Move(d, "look", "annotate")
          /\ note' = [note EXCEPT ![d] = [NoNote EXCEPT !.meta = storedFee]]
       \/ reference # "tekko" /\ Move(d, "look", "mark") /\ UNCHANGED note
    /\ UNCHANGED <<money, storedFee, reference, tekko, webhook, limits>>

\* The callback of the withdrawal that lent its reference finds this payout.
\* It has an event and an acknowledgement of its own, and may be repeated; the
\* bound is that it comes while no other delivery is under way.
ClaimOther(d) ==
    /\ reference = "other" /\ other \in Final
    /\ \A e \in Delivery : at[e] = "idle"
    /\ Move(d, "idle", "annotate")
    /\ note' = [note EXCEPT ![d] = [NoNote EXCEPT !.meta = storedFee]]
    /\ UNCHANGED <<money, storedFee, reference, tekko, webhook, limits>>

\* Metadata is written from what was read before, with the fee if reported.
StoreReport(a, fee) == storedFee' = IF fee > 0 THEN fee ELSE note[a].meta

Annotate(d) ==
    /\ Move(d, "annotate", "judge")
    /\ \E fee \in Reported :
          /\ StoreReport(d, fee)
          /\ note' = [note EXCEPT ![d] = [NoNote EXCEPT !.fee = fee]]
    /\ UNCHANGED <<money, reference, tekko, webhook, limits>>

-----------------------------------------------------------------------------
(* finalizeTekkoNgnPayoutSuccess, finalizeTekkoNgnPayoutFailure *)

\* Where a caller goes on; a delivery that got here reports what is watched.
Ignored(a) == IF a = "poll" THEN "answer"
              ELSE IF reference = "other" THEN "idle" ELSE "mark"
Applied(a) == IF a = "poll" THEN "answer"
              ELSE IF reference = "other" THEN "tell" ELSE "markTell"

\* The row is read; a payout that is not pending any more is left alone.
Judge(a) ==
    /\ \/ /\ status # "pending"
          /\ Move(a, "judge", Ignored(a)) \/ Move(a, "denied", Ignored(a))
          /\ Forget(a)
       \/ /\ status = "pending"
          /\ \/ Watched = "failed" /\ Move(a, "judge", "fail")
             \/ Move(a, "denied", "fail")
          /\ note' = [note EXCEPT ![a] = [NoNote EXCEPT !.meta = storedFee]]
       \/ LET fee == IF note[a].fee > 0 THEN note[a].fee ELSE storedFee IN
          /\ status = "pending" /\ Watched = "completed"
          /\ Move(a, "judge", IF fee > 0 THEN "fee" ELSE "settle")
          /\ note' = [note EXCEPT ![a] = IF fee = 0 THEN NoNote ELSE
                         [NoNote EXCEPT !.fee = fee, !.next = "settle"]]
    /\ UNCHANGED <<money, storedFee, reference, tekko, webhook, limits>>

CollectFee == IF Fee > 0 /\ balance >= Fee
              THEN /\ entries' = [entries EXCEPT !.platform_fee = @ + 1]
                   /\ balance' = balance - Fee
              ELSE UNCHANGED <<entries, balance>>

\* Variant: the UPDATE has no status condition.
SettleAgain(a) ==
    /\ Move(a, "settle", Applied(a))
    /\ status' = "success"
    /\ CollectFee
    /\ UNCHANGED <<rail, storedFee, reference, tekko, webhook, note, limits>>

\* The conditional UPDATE and the platform's fee.
Settle(a) ==
    /\ \/ /\ status = "pending" /\ Move(a, "settle", Applied(a))
          /\ status' = "success"
          /\ CollectFee
       \/ /\ status # "pending" /\ Move(a, "settle", Ignored(a))
          /\ UNCHANGED <<row, balance>>
    /\ UNCHANGED <<rail, storedFee, reference, tekko, webhook, note, limits>>

\* The conditional UPDATE and the refund, with the fee as it was read.
Fail(a) ==
    /\ \/ /\ status = "pending" /\ Move(a, "fail", Applied(a))
          /\ FailWithRefund(note[a].meta)
       \/ /\ status # "pending" /\ Move(a, "fail", Ignored(a))
          /\ UNCHANGED money
    /\ Forget(a)
    /\ UNCHANGED <<storedFee, reference, tekko, webhook, limits>>

\* The event is done with, the merchant's notification is queued, or not, and
\* the answer reaches Tekko, or not.
MarkProcessed(d) ==
    /\ \/ Move(d, "mark", "idle") /\ UNCHANGED told
       \/ Move(d, "markTell", "idle") /\ told' \in {told, told \cup {status}}
    /\ event' = "processed"
    /\ acked' \in BOOLEAN
    /\ UNCHANGED <<money, storedFee, reference, tekko, note, limits>>

\* The same after a callback of the withdrawal that lent its reference.
TellOther(d) ==
    /\ Move(d, "tell", "idle")
    /\ told' \in {told, told \cup {status}}
    /\ UNCHANGED <<money, storedFee, reference, tekko, event, acked, note, limits>>

-----------------------------------------------------------------------------
(* getTekkoNgnPayoutStatus, and the reconcile around it *)

\* A fee known from before is topped up first.
Poll ==
    /\ status # "none"
    /\ IF storedFee > 0 /\ status # "failed"
       THEN Move("poll", "idle", "fee") ELSE Move("poll", "idle", "ask")
    /\ note' = [note EXCEPT !["poll"] =
          [NoNote EXCEPT !.fee = storedFee, !.meta = storedFee,
              !.next = IF status = "pending" /\ reference # "none"
                       THEN "ask" ELSE "answer"]]
    /\ UNCHANGED <<money, storedFee, reference, tekko, webhook, limits>>

\* Tekko knows its own references only.  It answers with what it knows; or
\* with an error whose body says "failed", for the HTTP status is not looked
\* at; any other error counts as no answer.
Ask ==
    /\ \/ /\ note["poll"].next = "ask" /\ reference \in {"tekko", "other"}
          /\ Watched \in {"processing"} \cup Final
          /\ \E fee \in Reported :
             LET then == IF Watched \in Final THEN "judge" ELSE "answer" IN
             /\ StoreReport("poll", fee)
             /\ Move("poll", "ask", IF fee > 0 THEN "fee" ELSE then)
             /\ note' = [note EXCEPT !["poll"] =
                            [NoNote EXCEPT !.fee = fee, !.next = then]]
          /\ UNCHANGED limits
       \/ /\ note["poll"].next = "ask"
          /\ Move("poll", "ask", "denied")
          /\ StoreReport("poll", 0) /\ Forget("poll")
          /\ errors < MaxError
          /\ errors' = errors + 1 /\ misread' = TRUE
       \/ /\ note["poll"].next # "ask" \/ reference \notin {"tekko", "other"}
          /\ Move("poll", "ask", "answer")
          /\ Forget("poll") /\ UNCHANGED <<storedFee, limits>>
    /\ UNCHANGED <<money, reference, tekko, webhook>>

\* A reconcile tells the merchant what status it then finds, whoever set it;
\* a status call drops the outcome it may have applied.
Answer ==
    /\ Move("poll", "answer", "idle")
    /\ told' \in {told} \cup {told \cup {s} : s \in {status} \ {"pending"}}
    /\ UNCHANGED <<money, storedFee, reference, tekko, event, acked, note, limits>>

-----------------------------------------------------------------------------
(* Trouble, and the merchant's other payout *)

\* The delivery is one of this payout's callback.
OfThis(d) == reference # "other" \/ at[d] \in {"look", "mark"}

\* A query fails or the process dies: the webhook is delivered again, the
\* status call may be repeated, the request is not taken up again.
ActorFails(a) ==
    /\ errors < MaxError
    /\ errors' = errors + 1
    /\ at[a] \notin {"new", "idle", "done", "lost", "gone"}
    /\ at' = [at EXCEPT ![a] = IF a = "create" THEN "gone" ELSE "idle"]
    /\ event' \in IF a \in Delivery /\ OfThis(a) THEN {event, "failed"} ELSE {event}
    /\ Forget(a)
    /\ UNCHANGED <<money, storedFee, reference, tekko, acked, told, misread>>

\* It is debited and sent to Tekko.
Spend ==
    /\ other = "none" /\ balance >= Spending
    /\ other' = "processing"
    /\ balance' = balance - Spending
    /\ UNCHANGED <<row, rail, storedFee, reference, order, quoted, webhook, at,
                   note, limits>>

-----------------------------------------------------------------------------
Init ==
    /\ status = "none"
    /\ entries = [payout |-> 0, payout_refund |-> 0, platform_fee |-> 0]
    /\ charged = 0 /\ toppedUp = FALSE /\ returned = 0
    /\ balance = Opening
    /\ storedFee = 0 /\ reference = "none"
    /\ order = "none" /\ quoted = 0 /\ other = "none"
    /\ event = "absent" /\ acked = FALSE /\ told = {}
    /\ at = [a \in Actor |-> IF a = "create" THEN "new" ELSE "idle"]
    /\ note = [a \in Actor |-> NoNote]
    /\ misread = FALSE /\ errors = 0

RequestStep == \/ Answered \/ Unanswered \/ RefundPending
               \/ Record \/ RecordRefused
               \/ SumCharges("create") \/ ChargeFee("create")

Tekko == TekkoReceives \/ TekkoSettles \/ OtherSettles

Finalize(a) == \/ SumCharges(a) \/ ChargeFee(a)
               \/ Judge(a) \/ Settle(a) \/ Fail(a)

DeliveryStep(d) == \/ Claim(d) \/ LookUp(d) \/ ClaimOther(d) \/ Annotate(d)
                   \/ Finalize(d) \/ MarkProcessed(d) \/ TellOther(d)

PollStep == Poll \/ Ask \/ Finalize("poll") \/ Answer

Next == \/ Debit \/ RequestStep \/ Tekko
        \/ \E d \in Delivery : DeliveryStep(d)
        \/ PollStep \/ Spend
        \/ \E a \in Actor : ActorFails(a)

Spec == Init /\ [][Next]_vars

\* Staff reconcile what stays pending, and a running reconcile goes on.  No
\* more is assumed: requests and deliveries may hang where they are.
FairSpec == Spec /\ WF_vars(PollStep)

-----------------------------------------------------------------------------
(* Properties *)

Steps == {"new", "await", "locate", "refund", "unsure", "done", "lost", "gone",
          "idle", "look", "annotate", "judge", "denied", "fee", "charge",
          "settle", "fail", "mark", "markTell", "tell", "ask", "answer"}

\* Every variable has its type, and the wallet is never overdrawn.
TypeOK ==
    /\ status \in {"none", "pending", "success", "failed"}
    /\ entries \in [{"payout", "payout_refund", "platform_fee"} -> Nat]
    /\ charged \in Nat /\ toppedUp \in BOOLEAN /\ returned \in Nat
    /\ balance \in Nat
    /\ storedFee \in RailFee /\ quoted \in RailFee
    /\ reference \in {"none", "interim", "tekko", "other"}
    /\ order \in {"none", "sent", "refused", "processing"} \cup Final
    /\ other \in {"none", "processing"} \cup Final
    /\ event \in {"absent", "received", "processed", "failed"}
    /\ acked \in BOOLEAN /\ told \subseteq {"success", "failed"}
    /\ at \in [Actor -> Steps]
    /\ note \in [Actor -> [fee : RailFee, sum : Nat, meta : RailFee, next : Steps]]
    /\ misread \in BOOLEAN /\ errors \in 0 .. MaxError

\* Request, deliveries and status calls, in any order, leave one debit, one
\* refund if and only if the payout failed, and a fee only if it succeeded.
EntriesMatchStatus ==
    /\ entries.payout = IF status = "none" THEN 0 ELSE 1
    /\ entries.payout_refund = IF status = "failed" THEN 1 ELSE 0
    /\ entries.platform_fee <= IF status = "success" THEN 1 ELSE 0

\* A payout counts as paid only if the withdrawal its reference names was
\* paid, and is given back only if that one failed or this one was refused,
\* however request, deliveries and status calls overlap; and that is what the
\* merchant is told.  Two things aside: a request that got no answer, and a
\* status call that took an error for the outcome.
SettledAsReported ==
    /\ status = "success" => Watched = "completed"
    /\ status = "failed" => \/ Watched \in {"refused", "failed"}
                           \/ at["create"] = "lost" \/ misread
    /\ told \subseteq {status}

\* docs/MONEY_INVARIANTS.md: what is returned was not paid.  The code does not
\* keep this (README): the reference, or the outcome, may be another's.
ReturnedOnlyIfUnpaid ==
    /\ order = "completed" /\ entries.payout_refund > 0 => at["create"] = "lost"
    /\ status = "success" => order = "completed"

\* Once Tekko settled a payout whose reference is known, it does not stay
\* pending, although a callback that came too early was acknowledged.
SettledIsApplied ==
    order \in Final /\ reference = "tekko" ~> status \in {"success", "failed"}

\* The comment on ensureTekkoNgnProviderFeeDebited: it is idempotent.  The
\* code does not keep this (README): two callers may both find nothing charged.
RailFeeChargedOnce == \E fee \in RailFee : charged <= fee

\* What the merchant gets back of Tekko's fee is what he was charged.  The code
\* does not keep this (README): the stored fee counts if it is the larger one.
RailFeeReturnedAsCharged == returned <= charged

\* The promise of a payout, Tekko's fee and other payouts aside.
AsPayoutOrder == INSTANCE PayoutOrder WITH
    Payout <- {1},
    stage <- [p \in {1} |-> CASE status = "none" -> "none"
                              [] status = "pending" -> "held"
                              [] status = "success" -> "settled"
                              [] status = "failed" -> "returned"],
    purse <- balance - returned

ImplementsPayoutOrder ==
    /\ AsPayoutOrder!Init
    /\ [][AsPayoutOrder!Next \/ UNCHANGED status]_<<status, balance, returned>>
=============================================================================
