----------------------------- MODULE PayokProofs -----------------------------
(***************************************************************************)
(* Proofs about MCPayok, for any payouts, pay-ins, wallets, amounts and    *)
(* fees.  Payouts: answers that are lost, crashes and failing queries, and  *)
(* no patches of the status by staff (with them a terminal status is not   *)
(* final).  Refund and callback race for the pending row: the invariant    *)
(* says of each payout what its row, its ledger entries, PayOK's order and *)
(* the handler of the callback know of one another.  A payout with staff:  *)
(* what request, order and refund know.  Pay-ins: see PayokPayinProofs.    *)
(***************************************************************************)
EXTENDS MCPayok, FiniteSetTheorems, TLAPS

-----------------------------------------------------------------------------
(* Payouts.                                                                   *)

EntryType == {"payout", "payout_refund", "platform_fee"}

\* Row and order agree on the outcome.
Agreed(p) == \/ order[p] = "paid" /\ status[p] = "success"
             \/ order[p] = "declined" /\ status[p] = "failed"

\* The ledger of one payout agrees with its status (EntriesMatchStatus).
EntriesFit(p) ==
    /\ entries[p].payout = IF status[p] = "none" THEN 0 ELSE 1
    /\ entries[p].payout_refund = IF status[p] = "failed" THEN 1 ELSE 0
    /\ entries[p].platform_fee <= IF status[p] = "success" THEN 1 ELSE 0

\* There is no row before the request, no order before it is sent, and no
\* callback before the order is settled.
InOrder(p) ==
    /\ request[p] = "new" => status[p] = "none"
    /\ request[p] \in {"new", "refused", "inquiry", "create"} => order[p] = "none"
    /\ hook[p] # "none" => order[p] \in {"paid", "declined"}

\* A handler past its UPDATE, and what it told the merchant, are right.
Reported(p) == hook[p] \in {"applied", "notify"} \/ p \in told => Agreed(p)

Own(p) == EntriesFit(p) /\ InOrder(p) /\ Reported(p) /\ ~review[p]

IInv == TypeOK /\ \A p \in Payout : Own(p)

-----------------------------------------------------------------------------
\* A payout starts without entries, in a state of the invariant.
LEMMA NoEntriesType == NoEntries \in [EntryType -> Nat]
  BY DEF NoEntries, EntryType

LEMMA InitIInv == Init => IInv
<1> SUFFICES ASSUME Init PROVE IInv
  OBVIOUS
<1>1. TypeOK
  <2>1. entries \in [Payout -> [EntryType -> Nat]]
    BY NoEntriesType DEF Init
  <2>2. /\ funds \in [Wallet -> Int]
        /\ crashes \in 0 .. MaxCrash /\ errors \in 0 .. MaxError
    BY PayoutAssumption DEF Init
  <2>3. QED
    BY <2>1, <2>2 DEF Init, TypeOK, EntryType
<1>2. ASSUME NEW p \in Payout PROVE Own(p)
  BY DEF Init, Own, EntriesFit, InOrder, Reported, NoEntries
<1>3. QED
  BY <1>1, <1>2 DEF IInv

\* One entry is added, and none is changed.
LEMMA PostAdds ==
  ASSUME TypeOK, NEW p \in Payout, NEW type \in EntryType, Post(p, type)
  PROVE  /\ entries' \in [Payout -> [EntryType -> Nat]]
         /\ \A q \in Payout, t \in EntryType :
               entries'[q][t] = IF q = p /\ t = type THEN entries[q][t] + 1
                                                     ELSE entries[q][t]
  BY DEF Post, TypeOK, EntryType

\* What a payout's own state is made of; a step that leaves it alone keeps Own.
LEMMA OwnKept ==
  ASSUME NEW q \in Payout, Own(q),
         status'[q] = status[q], entries'[q] = entries[q],
         request'[q] = request[q], order'[q] = order[q], hook'[q] = hook[q],
         q \in told' <=> q \in told, review'[q] = review[q]
  PROVE  Own(q)'
  BY DEF Own, EntriesFit, InOrder, Reported, Agreed

Requests == {"new", "refused", "inquiry", "create", "await", "refund", "done",
             "gone"}
Hooks == {"none", "claimed", "read", "applied", "ignored", "notify", "reply",
          "done", "gone"}

\* The request of one payout moves, and no other.
LEMMA RequestMoves ==
  ASSUME TypeOK, NEW p \in Payout, NEW from, NEW to \in Requests,
         Proceed(p, from, to)
  PROVE  /\ request' \in [Payout -> Requests] /\ request[p] = from
         /\ \A q \in Payout : request'[q] = IF q = p THEN to ELSE request[q]
  BY DEF TypeOK, Proceed, Set, Requests

\* The handler of one callback moves, and no other.
LEMMA HookMoves ==
  ASSUME TypeOK, NEW p \in Payout, NEW from, NEW to \in Hooks,
         HookStep(p, from, to)
  PROVE  /\ hook' \in [Payout -> Hooks] /\ hook[p] = from
         /\ \A q \in Payout : hook'[q] = IF q = p THEN to ELSE hook[q]
  BY DEF TypeOK, HookStep, Set, Hooks

\* Steps of the request that change nothing else.
LEMMA RequestOnly ==
  ASSUME IInv, NEW p \in Payout,
         NEW from \in Requests, NEW to \in Requests \ {"new"},
         Proceed(p, from, to),
         to \in {"refused", "inquiry", "create"} => from \in {"new", "inquiry"},
         UNCHANGED <<money, order, webhook, review, limits>>
  PROVE  IInv'
<1>1. TypeOK /\ \A q \in Payout : Own(q)
  BY DEF IInv
<1>2. UNCHANGED <<status, entries, funds, order, event, hook, acked, replayed,
                  told, review, crashes, errors>>
  BY DEF money, webhook, limits
<1>3. /\ request' \in [Payout -> Requests] /\ request[p] = from
      /\ \A q \in Payout : request'[q] = IF q = p THEN to ELSE request[q]
  BY <1>1, RequestMoves
<1>4. TypeOK'
  BY <1>1, <1>2, <1>3 DEF TypeOK, Requests
<1>5. ASSUME NEW q \in Payout PROVE Own(q)'
  BY <1>1, <1>2, <1>3, <1>5 DEF Own, EntriesFit, InOrder, Reported, Agreed
<1>6. QED
  BY <1>4, <1>5 DEF IInv

Events == {"absent", "received", "processed", "failed"}

\* Steps of the callback's handler that leave row, ledger and order alone: the
\* merchant is told only past the handler's own UPDATE.
LEMMA HookOnly ==
  ASSUME IInv, NEW p \in Payout,
         NEW from \in Hooks, NEW to \in Hooks \ {"none"},
         HookStep(p, from, to),
         to \in {"applied", "notify"} => from \in {"applied", "notify"},
         from = "none" => order[p] \in {"paid", "declined"},
         \/ told' = told
         \/ told' = told \cup {p} /\ from = "notify",
         event' \in [Payout -> Events], acked' \in [Payout -> BOOLEAN],
         crashes' \in 0 .. MaxCrash, errors' \in 0 .. MaxError,
         UNCHANGED <<money, request, order, replayed, review>>
  PROVE  IInv'
<1>1. TypeOK /\ \A q \in Payout : Own(q)
  BY DEF IInv
<1>2. UNCHANGED <<status, entries, funds, request, order, replayed, review>>
  BY DEF money
<1>3. /\ hook' \in [Payout -> Hooks] /\ hook[p] = from
      /\ \A q \in Payout : hook'[q] = IF q = p THEN to ELSE hook[q]
  BY <1>1, HookMoves
<1>4. told' \subseteq Payout
  BY <1>1 DEF TypeOK
<1>5. TypeOK'
  BY <1>1, <1>2, <1>3, <1>4 DEF TypeOK, Hooks, Events
<1>6. ASSUME NEW q \in Payout PROVE Own(q)'
  <2>1. Own(q) /\ Own(p)
    BY <1>1
  <2>2. EntriesFit(q)' /\ ~review'[q]
    BY <2>1, <1>2 DEF Own, EntriesFit
  <2>3. InOrder(q)'
    BY <2>1, <1>2, <1>3 DEF Own, InOrder
  <2>4. Reported(q)'
    BY <2>1, <1>2, <1>3 DEF Own, Reported, Agreed
  <2>5. QED
    BY <2>2, <2>3, <2>4 DEF Own
<1>7. QED
  BY <1>5, <1>6 DEF IInv

-----------------------------------------------------------------------------
(* The steps *)

\* The steps of createPayoutOrder that write nothing.
LEMMA KeptByRequest ==
  ASSUME IInv, NEW p \in Payout,
         \/ RefusePayout(p) \/ AccountInquiry(p)
         \/ CreateAnswered(p) \/ CreateUnanswered(p)
  PROVE  IInv'
<1>1. CASE RefusePayout(p)
  BY <1>1, RequestOnly DEF RefusePayout, Requests
<1>2. CASE AccountInquiry(p)
  BY <1>2, RequestOnly DEF AccountInquiry, Requests
<1>3. CASE CreateAnswered(p)
  BY <1>3, RequestOnly DEF CreateAnswered, Requests
<1>4. CASE CreateUnanswered(p)
  BY <1>4, RequestOnly DEF CreateUnanswered, Requests
<1>5. QED
  BY <1>1, <1>2, <1>3, <1>4

\* The row and its debit appear together; there is no order yet.
LEMMA KeptByCreatePayoutOrder ==
  ASSUME IInv, NEW p \in Payout, CreatePayoutOrder(p)
  PROVE  IInv'
<1>1. TypeOK /\ \A q \in Payout : Own(q)
  BY DEF IInv
<1>2. UNCHANGED <<order, event, hook, acked, replayed, told, review, crashes,
                  errors>>
  BY DEF CreatePayoutOrder, webhook, limits
<1>3. /\ request' \in [Payout -> Requests] /\ request[p] = "new"
      /\ \A q \in Payout : request'[q] = IF q = p THEN "inquiry" ELSE request[q]
  <2>1. Proceed(p, "new", "inquiry")
    BY DEF CreatePayoutOrder
  <2>2. "inquiry" \in Requests
    BY DEF Requests
  <2>3. QED
    BY <1>1, <2>1, <2>2, RequestMoves
<1>4. /\ entries' \in [Payout -> [EntryType -> Nat]]
      /\ \A q \in Payout, t \in EntryType :
            entries'[q][t] = IF q = p /\ t = "payout" THEN entries[q][t] + 1
                                                      ELSE entries[q][t]
  <2>1. Post(p, "payout")
    BY DEF CreatePayoutOrder
  <2>2. "payout" \in EntryType
    BY DEF EntryType
  <2>3. QED
    BY <1>1, <2>1, <2>2, PostAdds
<1>5. /\ status' = [status EXCEPT ![p] = "pending"]
      /\ funds' = [funds EXCEPT ![Home] = @ - Amount]
  BY DEF CreatePayoutOrder, Set
<1>6. funds' \in [Wallet -> Int]
  BY <1>1, <1>5, PayoutAssumption DEF TypeOK
<1>7. TypeOK'
  BY <1>1, <1>2, <1>3, <1>4, <1>5, <1>6 DEF TypeOK, Requests, EntryType
<1>8. ASSUME NEW q \in Payout PROVE Own(q)'
  <2>1. Own(q) /\ status[p] = "none" /\ order[p] = "none"
    BY <1>1, <1>3 DEF Own, InOrder
  <2>2. status'[q] = IF q = p THEN "pending" ELSE status[q]
    BY <1>1, <1>5 DEF TypeOK
  <2>3. EntriesFit(q)'
    BY <1>1, <1>4, <2>1, <2>2 DEF Own, EntriesFit, EntryType, TypeOK
  <2>4. InOrder(q)'
    BY <1>2, <1>3, <2>1, <2>2 DEF Own, InOrder
  <2>5. Reported(q)'
    BY <1>2, <2>1, <2>2 DEF Own, Reported, Agreed
  <2>6. QED
    BY <1>2, <2>1, <2>3, <2>4, <2>5 DEF Own
<1>9. QED
  BY <1>7, <1>8 DEF IInv

\* The order is sent once: no callback can have come before.
LEMMA KeptBySendCreate ==
  ASSUME IInv, NEW p \in Payout, SendCreate(p)
  PROVE  IInv'
<1>1. TypeOK /\ \A q \in Payout : Own(q)
  BY DEF IInv
<1>2. UNCHANGED <<status, entries, funds, event, hook, acked, replayed, told,
                  review, crashes, errors>>
  BY DEF SendCreate, money, webhook, limits
<1>3. /\ request' \in [Payout -> Requests] /\ request[p] = "create"
      /\ \A q \in Payout : request'[q] = IF q = p THEN "await" ELSE request[q]
  <2>1. Proceed(p, "create", "await")
    BY DEF SendCreate
  <2>2. "await" \in Requests
    BY DEF Requests
  <2>3. QED
    BY <1>1, <2>1, <2>2, RequestMoves
<1>4. order' = [order EXCEPT ![p] = "sent"]
  BY DEF SendCreate, Set
<1>5. TypeOK'
  BY <1>1, <1>2, <1>3, <1>4 DEF TypeOK, Requests
<1>6. ASSUME NEW q \in Payout PROVE Own(q)'
  <2>1. Own(q) /\ Own(p)
    BY <1>1
  <2>2. order[p] = "none" /\ hook[p] = "none" /\ p \notin told
    BY <1>3, <2>1 DEF Own, InOrder, Reported, Agreed
  <2>3. order'[q] = IF q = p THEN "sent" ELSE order[q]
    BY <1>1, <1>4 DEF TypeOK
  <2>4. EntriesFit(q)' /\ ~review'[q]
    BY <2>1, <1>2 DEF Own, EntriesFit
  <2>5. InOrder(q)' /\ Reported(q)'
    BY <1>2, <1>3, <2>1, <2>2, <2>3 DEF Own, InOrder, Reported, Agreed
  <2>6. QED
    BY <2>4, <2>5 DEF Own
<1>7. QED
  BY <1>5, <1>6 DEF IInv

\* Nobody relies on the outcome of an order that is not settled yet.
LEMMA KeptByPayok ==
  ASSUME IInv, NEW p \in Payout, Payok(p)
  PROVE  IInv'
<1>1. TypeOK /\ \A q \in Payout : Own(q)
  BY DEF IInv
<1>2. UNCHANGED <<status, entries, funds, request, event, hook, acked, replayed,
                  told, review, crashes, errors>>
  BY DEF Payok, PayokReceives, PayokSettles, money, webhook, limits
<1>3. PICK v \in {"open", "refused", "paid", "declined"} :
         order' = [order EXCEPT ![p] = v]
  BY DEF Payok, PayokReceives, PayokSettles, Set
<1>4. order[p] \in {"sent", "open"}
  BY DEF Payok, PayokReceives, PayokSettles
<1>5. TypeOK'
  BY <1>1, <1>2, <1>3 DEF TypeOK
<1>6. ASSUME NEW q \in Payout PROVE Own(q)'
  <2>1. Own(q) /\ Own(p)
    BY <1>1
  <2>2. /\ hook[p] = "none" /\ p \notin told
        /\ request[p] \notin {"new", "refused", "inquiry", "create"}
    BY <1>4, <2>1 DEF Own, InOrder, Reported, Agreed
  <2>3. order'[q] = IF q = p THEN v ELSE order[q]
    BY <1>1, <1>3 DEF TypeOK
  <2>4. EntriesFit(q)' /\ ~review'[q]
    BY <2>1, <1>2 DEF Own, EntriesFit
  <2>5. InOrder(q)'
    BY <1>2, <2>1, <2>2, <2>3 DEF Own, InOrder
  <2>6. Reported(q)'
    BY <1>2, <2>1, <2>2, <2>3 DEF Own, Reported, Agreed
  <2>7. QED
    BY <2>4, <2>5, <2>6 DEF Own
<1>7. QED
  BY <1>5, <1>6 DEF IInv

\* The row leaves "pending" together with the entry the outcome calls for.
LEMMA EntriesOfOutcome ==
  ASSUME TypeOK, NEW p \in Payout, EntriesFit(p), status[p] = "pending",
         NEW v \in {"success", "failed"}, status' = Set(status, p, v),
         \/ v = "failed" /\ Post(p, "payout_refund")
         \/ v = "success" /\ entries[p].platform_fee = 0 /\ Post(p, "platform_fee")
         \/ v = "success" /\ UNCHANGED entries
  PROVE  /\ status' \in [Payout -> {"none", "pending", "success", "failed"}]
         /\ entries' \in [Payout -> [EntryType -> Nat]]
         /\ EntriesFit(p)'
         /\ \A q \in Payout \ {p} : status'[q] = status[q] /\ entries'[q] = entries[q]
         /\ status'[p] = v
<1>1. /\ status' \in [Payout -> {"none", "pending", "success", "failed"}]
      /\ status'[p] = v /\ \A q \in Payout \ {p} : status'[q] = status[q]
  BY DEF TypeOK, Set
<1>2. /\ entries \in [Payout -> [EntryType -> Nat]]
      /\ entries[p].payout = 1 /\ entries[p].payout_refund = 0
      /\ entries[p].platform_fee <= 0
  BY DEF TypeOK, EntriesFit, EntryType
<1>3. CASE v = "failed" /\ Post(p, "payout_refund")
  <2>1. "payout_refund" \in EntryType
    BY DEF EntryType
  <2>2. /\ entries' \in [Payout -> [EntryType -> Nat]]
        /\ \A q \in Payout, t \in EntryType :
              entries'[q][t] = IF q = p /\ t = "payout_refund"
                               THEN entries[q][t] + 1 ELSE entries[q][t]
    BY <1>3, <2>1, PostAdds
  <2>3. \A q \in Payout \ {p} : entries'[q] = entries[q]
    BY <1>2, <1>3 DEF Post
  <2>4. EntriesFit(p)'
    BY <1>1, <1>2, <1>3, <2>2 DEF EntriesFit, EntryType
  <2>5. QED
    BY <1>1, <2>2, <2>3, <2>4
<1>4. CASE v = "success" /\ entries[p].platform_fee = 0 /\ Post(p, "platform_fee")
  <2>1. "platform_fee" \in EntryType
    BY DEF EntryType
  <2>2. /\ entries' \in [Payout -> [EntryType -> Nat]]
        /\ \A q \in Payout, t \in EntryType :
              entries'[q][t] = IF q = p /\ t = "platform_fee"
                               THEN entries[q][t] + 1 ELSE entries[q][t]
    BY <1>4, <2>1, PostAdds
  <2>3. \A q \in Payout \ {p} : entries'[q] = entries[q]
    BY <1>2, <1>4 DEF Post
  <2>4. EntriesFit(p)'
    BY <1>1, <1>2, <1>4, <2>2 DEF EntriesFit, EntryType
  <2>5. QED
    BY <1>1, <2>2, <2>3, <2>4
<1>5. CASE v = "success" /\ UNCHANGED entries
  <2>1. entries[p].platform_fee \in Nat
    BY <1>2 DEF EntryType
  <2>2. EntriesFit(p)'
    BY <1>1, <1>2, <1>5, <2>1 DEF EntriesFit
  <2>3. QED
    BY <1>1, <1>2, <1>5, <2>2
<1>6. QED
  BY <1>3, <1>4, <1>5

\* Refund and callback race for the row: the second one finds it settled.
LEMMA KeptByRefund ==
  ASSUME IInv, NEW p \in Payout, RefundPendingPayout(p)
  PROVE  IInv'
<1>1. TypeOK /\ \A q \in Payout : Own(q)
  BY DEF IInv
<1>2. Proceed(p, "refund", "done")
  BY DEF RefundPendingPayout
<1>3. CASE status[p] # "pending"
  <2>1. UNCHANGED <<money, order, webhook, review, limits>>
    BY <1>3 DEF RefundPendingPayout
  <2>2. "refund" \in Requests /\ "done" \in Requests \ {"new"}
    BY DEF Requests
  <2>3. QED
    BY <1>2, <2>1, <2>2, RequestOnly
<1>4. CASE status[p] = "pending"
  <2>1. UNCHANGED <<order, event, hook, acked, replayed, told, review, crashes,
                    errors>>
    BY DEF RefundPendingPayout, webhook, limits
  <2>2. PICK w \in RefundWallet : funds' = [funds EXCEPT ![w] = @ + Amount]
    BY <1>4 DEF RefundPendingPayout
  <2>3. status' = Set(status, p, "failed") /\ Post(p, "payout_refund")
    BY <1>4 DEF RefundPendingPayout
  <2>4. EntriesFit(p)
    BY <1>1 DEF Own
  <2>5. /\ status' \in [Payout -> {"none", "pending", "success", "failed"}]
        /\ entries' \in [Payout -> [EntryType -> Nat]]
        /\ EntriesFit(p)'
        /\ \A q \in Payout \ {p} : status'[q] = status[q] /\ entries'[q] = entries[q]
        /\ status'[p] = "failed"
    BY <1>1, <1>4, <2>3, <2>4, EntriesOfOutcome
  <2>6. /\ request' \in [Payout -> Requests] /\ request[p] = "refund"
        /\ \A q \in Payout : request'[q] = IF q = p THEN "done" ELSE request[q]
    <3>1. "done" \in Requests
      BY DEF Requests
    <3>2. QED
      BY <1>1, <1>2, <3>1, RequestMoves
  <2>7. funds' \in [Wallet -> Int]
    BY <1>1, <2>2, PayoutAssumption DEF TypeOK
  <2>8. TypeOK'
    BY <1>1, <2>1, <2>5, <2>6, <2>7 DEF TypeOK, Requests, EntryType
  <2>9. ASSUME NEW q \in Payout PROVE Own(q)'
    <3>1. Own(q) /\ Own(p)
      BY <1>1
    <3>2. EntriesFit(q)' /\ ~review'[q]
      BY <2>1, <2>5, <3>1 DEF Own, EntriesFit
    <3>3. InOrder(q)'
      BY <2>1, <2>5, <2>6, <3>1 DEF Own, InOrder
    <3>4. Reported(q)'
      BY <1>4, <2>1, <2>5, <3>1 DEF Own, Reported, Agreed
    <3>5. QED
      BY <3>2, <3>3, <3>4 DEF Own
  <2>10. QED
    BY <2>8, <2>9 DEF IInv
<1>5. QED
  BY <1>3, <1>4

\* The callback's UPDATE decides again whether the row is pending.
LEMMA KeptByApplyCallback ==
  ASSUME IInv, NEW p \in Payout, ApplyCallback(p)
  PROVE  IInv'
<1>1. TypeOK /\ \A q \in Payout : Own(q)
  BY DEF IInv
<1>2. UNCHANGED <<request, order, event, acked, replayed, told, review, limits>>
  BY DEF ApplyCallback
<1>3. CASE status[p] # "pending"
  <2>1. HookStep(p, "read", "ignored") /\ UNCHANGED money
    BY <1>3 DEF ApplyCallback
  <2>2. "read" \in Hooks /\ "ignored" \in Hooks \ {"none"}
    BY DEF Hooks
  <2>3. /\ event' \in [Payout -> Events] /\ acked' \in [Payout -> BOOLEAN]
        /\ crashes' \in 0 .. MaxCrash /\ errors' \in 0 .. MaxError
    BY <1>1, <1>2 DEF TypeOK, limits, Events
  <2>4. UNCHANGED <<money, request, order, replayed, review>> /\ told' = told
    BY <1>2, <2>1
  <2>5. QED
    BY <2>1, <2>2, <2>3, <2>4, HookOnly
<1>4. CASE status[p] = "pending"
  <2>1. HookStep(p, "read", "applied")
    BY <1>4 DEF ApplyCallback
  <2>2. /\ hook' \in [Payout -> Hooks] /\ hook[p] = "read"
        /\ \A q \in Payout : hook'[q] = IF q = p THEN "applied" ELSE hook[q]
    <3>1. "applied" \in Hooks
      BY DEF Hooks
    <3>2. QED
      BY <1>1, <2>1, <3>1, HookMoves
  <2>3. PICK v \in {"success", "failed"} :
          /\ status' = Set(status, p, v)
          /\ order[p] = (IF v = "success" THEN "paid" ELSE "declined")
          /\ \/ v = "failed" /\ Post(p, "payout_refund")
             \/ v = "success" /\ entries[p].platform_fee = 0 /\ Post(p, "platform_fee")
             \/ v = "success" /\ UNCHANGED entries
    BY <1>4 DEF ApplyCallback, CollectFee
  <2>4. EntriesFit(p)
    BY <1>1 DEF Own
  <2>5. /\ status' \in [Payout -> {"none", "pending", "success", "failed"}]
        /\ entries' \in [Payout -> [EntryType -> Nat]]
        /\ EntriesFit(p)'
        /\ \A q \in Payout \ {p} : status'[q] = status[q] /\ entries'[q] = entries[q]
        /\ status'[p] = v
    BY <1>1, <1>4, <2>3, <2>4, EntriesOfOutcome
  <2>6. funds' \in [Wallet -> Int]
    BY <1>1, <1>4, PayoutAssumption DEF ApplyCallback, CollectFee, TypeOK
  <2>7. TypeOK'
    BY <1>1, <1>2, <2>2, <2>5, <2>6 DEF TypeOK, Hooks, EntryType, limits
  <2>8. ASSUME NEW q \in Payout PROVE Own(q)'
    <3>1. Own(q) /\ Own(p)
      BY <1>1
    <3>2. EntriesFit(q)' /\ ~review'[q]
      BY <1>2, <2>5, <3>1 DEF Own, EntriesFit
    <3>3. InOrder(q)'
      BY <1>2, <2>2, <2>3, <2>5, <3>1 DEF Own, InOrder
    <3>4. Reported(q)'
      BY <1>2, <1>4, <2>2, <2>3, <2>5, <3>1 DEF Own, Reported, Agreed
    <3>5. QED
      BY <3>2, <3>3, <3>4 DEF Own
  <2>9. QED
    BY <2>7, <2>8 DEF IInv
<1>5. QED
  BY <1>3, <1>4

\* The callback's other steps.
LEMMA KeptByHandler ==
  ASSUME IInv, NEW p \in Payout,
         \/ ClaimWebhook(p) \/ LookUpPayout(p) \/ MarkProcessed(p)
         \/ QueueMerchantWebhook(p) \/ ReplySuccess(p) \/ WebhookFails(p)
  PROVE  IInv'
<1> DEFINE From == {"none", "claimed", "read", "applied", "ignored", "notify",
                    "reply"}
<1>1. TypeOK
  BY DEF IInv
<1>2. PICK from \in From, to \in Hooks \ {"none"} :
        /\ HookStep(p, from, to)
        /\ to \in {"applied", "notify"} => from \in {"applied", "notify"}
        /\ from = "none" => order[p] \in {"paid", "declined"}
        /\ \/ told' = told
           \/ told' = told \cup {p} /\ from = "notify"
  BY DEF Hooks, ClaimWebhook, LookUpPayout, MarkProcessed, QueueMerchantWebhook,
         ReplySuccess, WebhookFails
<1>3. event' \in [Payout -> Events]
  BY <1>1, SMTT(30) DEF TypeOK, Events, Set, ClaimWebhook, LookUpPayout, MarkProcessed,
              QueueMerchantWebhook, ReplySuccess, WebhookFails
<1>4. acked' \in [Payout -> BOOLEAN]
  BY <1>1 DEF TypeOK, Set, ClaimWebhook, LookUpPayout, MarkProcessed,
              QueueMerchantWebhook, ReplySuccess, WebhookFails
<1>5. crashes' \in 0 .. MaxCrash /\ errors' \in 0 .. MaxError
  <2>1. \/ UNCHANGED <<crashes, errors>>
        \/ crashes' = crashes /\ errors < MaxError /\ errors' = errors + 1
    BY DEF limits, ClaimWebhook, LookUpPayout, MarkProcessed,
           QueueMerchantWebhook, ReplySuccess, WebhookFails
  <2>2. crashes \in 0 .. MaxCrash /\ errors \in 0 .. MaxError
    BY <1>1 DEF TypeOK
  <2>3. QED
    BY <2>1, <2>2, PayoutAssumption
<1>6. UNCHANGED <<money, request, order, replayed, review>>
  BY DEF ClaimWebhook, LookUpPayout, MarkProcessed, QueueMerchantWebhook,
         ReplySuccess, WebhookFails
<1>7. from \in Hooks
  BY DEF Hooks
<1>8. QED
  BY <1>2, <1>3, <1>4, <1>5, <1>6, <1>7, HookOnly

\* A repeated delivery, and a handler that dies.
LEMMA KeptByOthers ==
  ASSUME IInv, NEW p \in Payout,
         AbsorbDuplicate(p) \/ HandlerDies(p)
  PROVE  IInv'
<1>1. TypeOK /\ \A q \in Payout : Own(q)
  BY DEF IInv
<1>2. UNCHANGED <<status, entries, funds, order, event, told, review, errors>>
  BY DEF AbsorbDuplicate, HandlerDies, money, limits
<1>3. CASE AbsorbDuplicate(p)
  <2>1. /\ acked' \in [Payout -> BOOLEAN] /\ replayed' \in [Payout -> BOOLEAN]
        /\ UNCHANGED <<request, hook, crashes>>
    BY <1>1, <1>3 DEF AbsorbDuplicate, TypeOK, Set, limits
  <2>2. TypeOK'
    BY <1>1, <1>2, <2>1 DEF TypeOK
  <2>3. \A q \in Payout : Own(q)'
    BY <1>1, <1>2, <2>1, OwnKept
  <2>4. QED
    BY <2>2, <2>3 DEF IInv
<1>4. CASE HandlerDies(p)
  <2>1. crashes' \in 0 .. MaxCrash /\ UNCHANGED <<acked, replayed>>
    BY <1>1, <1>4, PayoutAssumption DEF HandlerDies, TypeOK
  <2>2. \/ /\ request[p] \in {"inquiry", "create", "await", "refund"}
           /\ request' = Set(request, p, "gone") /\ UNCHANGED hook
        \/ /\ hook[p] # "none"
           /\ hook' = Set(hook, p, "gone") /\ UNCHANGED request
    BY <1>4 DEF HandlerDies
  <2>3. TypeOK'
    BY <1>1, <1>2, <2>1, <2>2 DEF TypeOK, Set
  <2>4. ASSUME NEW q \in Payout PROVE Own(q)'
    <3>1. Own(q)
      BY <1>1
    <3>2. /\ request'[q] \in {request[q], "gone"}
          /\ \/ hook'[q] = hook[q]
             \/ hook[q] # "none" /\ hook'[q] = "gone"
      BY <1>1, <2>2 DEF TypeOK, Set
    <3>3. EntriesFit(q)' /\ ~review'[q]
      BY <1>2, <3>1 DEF Own, EntriesFit
    <3>4. InOrder(q)' /\ Reported(q)'
      BY <1>2, <3>1, <3>2 DEF Own, InOrder, Reported, Agreed
    <3>5. QED
      BY <3>3, <3>4 DEF Own
  <2>5. QED
    BY <2>3, <2>4 DEF IInv
<1>5. QED
  BY <1>3, <1>4

-----------------------------------------------------------------------------
\* Without patches by staff every step keeps the invariant.
LEMMA NextIInv == Staff = FALSE /\ IInv /\ [Next]_vars => IInv'
<1> SUFFICES ASSUME Staff = FALSE, IInv, [Next]_vars PROVE IInv'
  OBVIOUS
<1>1. TypeOK /\ \A q \in Payout : Own(q)
  BY DEF IInv
<1>2. CASE UNCHANGED vars
  <2>1. UNCHANGED <<status, entries, funds, request, order, event, hook, acked,
                    replayed, told, review, crashes, errors>>
    BY <1>2 DEF vars, money, webhook, limits
  <2>2. TypeOK'
    BY <1>1, <2>1 DEF TypeOK
  <2>3. \A q \in Payout : Own(q)'
    BY <1>1, <2>1, OwnKept
  <2>4. QED
    BY <2>2, <2>3 DEF IInv
<1>3. CASE Next
  <2>1. PICK p \in Payout :
          \/ RefusePayout(p) \/ CreatePayoutOrder(p) \/ RequestStep(p)
          \/ Payok(p) \/ WebhookStep(p) \/ Trouble(p)
          \/ StaffReadStatus(p) \/ StaffMarkFailed(p)
    BY <1>3 DEF Next
  <2>2. CASE RefusePayout(p)
    BY <2>2, KeptByRequest
  <2>3. CASE CreatePayoutOrder(p)
    BY <2>3, KeptByCreatePayoutOrder
  <2>4. CASE RequestStep(p)
    BY <2>4, KeptByRequest, KeptBySendCreate, KeptByRefund DEF RequestStep
  <2>5. CASE Payok(p)
    BY <2>5, KeptByPayok
  <2>6. CASE WebhookStep(p)
    BY <2>6, KeptByHandler, KeptByApplyCallback, KeptByOthers DEF WebhookStep
  <2>7. CASE Trouble(p)
    BY <2>7, KeptByHandler, KeptByOthers DEF Trouble
  <2>8. CASE StaffReadStatus(p)
    BY <2>8 DEF StaffReadStatus
  <2>9. CASE StaffMarkFailed(p)
    BY <1>1, <2>9 DEF StaffMarkFailed, Own
  <2>10. QED
    BY <2>1, <2>2, <2>3, <2>4, <2>5, <2>6, <2>7, <2>8, <2>9
<1>4. QED
  BY <1>2, <1>3

\* Row, ledger, order and handler stay in step, however request, refund, order
\* and callback interleave and wherever a handler stops (the invariant above).
THEOREM InvariantAlways ==
  ASSUME Staff = FALSE PROVE Spec => []IInv
<1>1. IInv /\ [Next]_vars => IInv'
  BY NextIInv
<1>2. QED
  BY <1>1, InitIInv, PTL DEF Spec

\* A payout has one debit, one refund if and only if it failed, and at most one
\* fee, only on success: createPayoutOrder's refund and the callback's UPDATE
\* both claim the pending row, and one of them gets it.
THEOREM EntriesMatchStatusAlways ==
  ASSUME Staff = FALSE PROVE Spec => []EntriesMatchStatus
<1>1. IInv => EntriesMatchStatus
  BY DEF IInv, Own, EntriesFit, EntriesMatchStatus
<1>2. QED
  BY <1>1, InvariantAlways, PTL

\* The merchant is told the outcome PayOK reported, and only when the ledger
\* says the same: the handler notifies after its own UPDATE and never after
\* one that lost to the refund.
THEOREM ToldTheTruthAlways ==
  ASSUME Staff = FALSE PROVE Spec => []ToldTheTruth
<1>1. IInv => ToldTheTruth
  BY DEF IInv, TypeOK, Own, Reported, Agreed, ToldTheTruth
<1>2. QED
  BY <1>1, InvariantAlways, PTL

-----------------------------------------------------------------------------
(* The promise to the merchant *)

Outcome == [none |-> "none", pending |-> "held", success |-> "settled",
            failed |-> "returned"]

Stage == [p \in Payout |-> Outcome[status[p]]]

\* What a payout that changes its status does to the promise.
LEMMA StageMoves ==
  ASSUME TypeOK, NEW p \in Payout,
         NEW v \in {"pending", "success", "failed"}, status' = Set(status, p, v)
  PROVE  Stage' = [Stage EXCEPT ![p] = Outcome[v]]
<1>1. \A q \in Payout : status'[q] = IF q = p THEN v ELSE status[q]
  BY DEF TypeOK, Set
<1>2. QED
  BY <1>1 DEF Stage

\* Steps that change row or wallet are steps of the promise.
LEMMA HoldIsDone ==
  ASSUME IInv, NEW p \in Payout, CreatePayoutOrder(p)
  PROVE  AsPayoutOrder!Hold(p)
<1>1. TypeOK /\ Own(p)
  BY DEF IInv
<1>2. /\ status' = Set(status, p, "pending") /\ funds[Home] >= Amount + Fee
      /\ funds' = [funds EXCEPT ![Home] = @ - Amount] /\ request[p] = "new"
  BY DEF CreatePayoutOrder, Proceed
<1>3. Stage[p] = "none" /\ Stage' = [Stage EXCEPT ![p] = "held"]
  <2>1. Stage[p] = "none"
    BY <1>1, <1>2 DEF Own, InOrder, Stage, Outcome
  <2>2. Stage' = [Stage EXCEPT ![p] = Outcome["pending"]]
    BY <1>1, <1>2, StageMoves
  <2>3. QED
    BY <2>1, <2>2 DEF Outcome
<1>4. funds'[Home] = funds[Home] - Amount
  BY <1>1, <1>2, PayoutAssumption DEF TypeOK
<1>5. QED
  BY <1>2, <1>3, <1>4 DEF AsPayoutOrder!Hold, Stage, Outcome

LEMMA ReturnIsDone ==
  ASSUME IInv, NEW p \in Payout, RefundWallet = {Home},
         status[p] = "pending", status' = Set(status, p, "failed"),
         \E w \in RefundWallet : funds' = [funds EXCEPT ![w] = @ + Amount]
  PROVE  AsPayoutOrder!Return(p)
<1>1. TypeOK
  BY DEF IInv
<1>2. Stage[p] = "held" /\ Stage' = [Stage EXCEPT ![p] = "returned"]
  <2>1. Stage[p] = "held"
    BY DEF Stage, Outcome
  <2>2. Stage' = [Stage EXCEPT ![p] = Outcome["failed"]]
    BY <1>1, StageMoves
  <2>3. QED
    BY <2>1, <2>2 DEF Outcome
<1>3. funds'[Home] = funds[Home] + Amount
  BY <1>1, PayoutAssumption DEF TypeOK
<1>4. QED
  BY <1>2, <1>3 DEF AsPayoutOrder!Return, Stage, Outcome

LEMMA SettleIsDone ==
  ASSUME IInv, NEW p \in Payout,
         status[p] = "pending", status' = Set(status, p, "success"), CollectFee(p)
  PROVE  AsPayoutOrder!Settle(p)
<1>1. TypeOK /\ EntriesFit(p)
  BY DEF IInv, Own
<1>2. Stage[p] = "held" /\ Stage' = [Stage EXCEPT ![p] = "settled"]
  <2>1. Stage[p] = "held"
    BY DEF Stage, Outcome
  <2>2. Stage' = [Stage EXCEPT ![p] = Outcome["success"]]
    BY <1>1, StageMoves
  <2>3. QED
    BY <2>1, <2>2 DEF Outcome
<1>3. funds \in [Wallet -> Int] /\ Home \in Wallet /\ Fee \in Nat
  BY <1>1, PayoutAssumption DEF TypeOK
<1>4. entries[p].platform_fee = 0
  <2>1. entries[p].platform_fee \in Nat
    BY <1>1 DEF TypeOK
  <2>2. entries[p].platform_fee <= 0
    BY <1>1 DEF EntriesFit
  <2>3. QED
    BY <2>1, <2>2
<1>5. funds'[Home] = IF funds[Home] >= Fee THEN funds[Home] - Fee ELSE funds[Home]
  BY <1>3, <1>4 DEF CollectFee
<1>6. QED
  BY <1>2, <1>5 DEF AsPayoutOrder!Settle, Stage, Outcome

\* Every step keeps the promise or leaves row and wallet alone.
LEMMA NextIsPromised ==
  ASSUME IInv, Staff = FALSE, RefundWallet = {Home}, [Next]_vars
  PROVE  [AsPayoutOrder!Next]_(AsPayoutOrder!orderVars)
<1>1. CASE UNCHANGED money
  BY <1>1 DEF money, AsPayoutOrder!orderVars
<1>2. ASSUME NEW p \in Payout,
             \/ CreatePayoutOrder(p)
             \/ ~UNCHANGED money /\ RefundPendingPayout(p)
             \/ ~UNCHANGED money /\ ApplyCallback(p)
      PROVE  AsPayoutOrder!Next
  <2>1. CASE CreatePayoutOrder(p)
    BY <2>1, HoldIsDone DEF AsPayoutOrder!Next
  <2>2. CASE ~UNCHANGED money /\ RefundPendingPayout(p)
    <3>1. /\ status[p] = "pending" /\ status' = Set(status, p, "failed")
          /\ \E w \in RefundWallet : funds' = [funds EXCEPT ![w] = @ + Amount]
      BY <2>2 DEF RefundPendingPayout
    <3>2. QED
      BY <3>1, ReturnIsDone DEF AsPayoutOrder!Next
  <2>3. CASE ~UNCHANGED money /\ ApplyCallback(p)
    <3>1. status[p] = "pending"
      BY <2>3 DEF ApplyCallback
    <3>2. CASE status' = Set(status, p, "success") /\ CollectFee(p)
      BY <3>1, <3>2, SettleIsDone DEF AsPayoutOrder!Next
    <3>3. CASE /\ status' = Set(status, p, "failed")
               /\ funds' = [funds EXCEPT ![Home] = @ + Amount]
      BY <3>1, <3>3, ReturnIsDone DEF AsPayoutOrder!Next
    <3>4. QED
      BY <2>3, <3>1, <3>2, <3>3 DEF ApplyCallback
  <2>4. QED
    BY <1>2, <2>1, <2>2, <2>3
<1>3. CASE Next /\ ~UNCHANGED money
  <2>1. PICK p \in Payout :
          \/ CreatePayoutOrder(p) \/ RefundPendingPayout(p) \/ ApplyCallback(p)
          \/ StaffMarkFailed(p)
    BY <1>3 DEF Next, RefusePayout, RequestStep, AccountInquiry, SendCreate,
                CreateAnswered, CreateUnanswered, Payok, PayokReceives,
                PayokSettles, WebhookStep, ClaimWebhook, AbsorbDuplicate,
                LookUpPayout, MarkProcessed, QueueMerchantWebhook, ReplySuccess,
                Trouble, WebhookFails, HandlerDies, StaffReadStatus
  <2>2. ~StaffMarkFailed(p)
    BY DEF IInv, Own, StaffMarkFailed
  <2>3. QED
    BY <1>2, <1>3, <2>1, <2>2
<1>4. QED
  BY <1>1, <1>3 DEF vars

\* With one wallet to return to, request, refund and callback together do what
\* was promised: money is set aside once, and stays spent or comes back once.
THEOREM ImplementsPayoutOrderAlways ==
  ASSUME Staff = FALSE, RefundWallet = {Home}
  PROVE  Spec => ImplementsPayoutOrder
<1>1. Init => AsPayoutOrder!Init
  BY PayoutAssumption DEF Init, AsPayoutOrder!Init
<1>2. IInv /\ [Next]_vars => [AsPayoutOrder!Next]_(AsPayoutOrder!orderVars)
  BY NextIsPromised
<1>3. QED
  BY <1>1, <1>2, InvariantAlways, PTL
  DEF Spec, ImplementsPayoutOrder, AsPayoutOrder!Spec

-----------------------------------------------------------------------------
(* What becomes of row and wallets *)

\* Row and wallets move in three ways, each of one payout.
LEMMA MoneyMoves ==
  ASSUME IInv, [Next]_vars
  PROVE  \/ UNCHANGED money
         \/ \E p \in Payout :
               \/ CreatePayoutOrder(p)
               \/ /\ status[p] = "pending" /\ status' = Set(status, p, "failed")
                  /\ Post(p, "payout_refund")
                  /\ \E w \in RefundWallet : funds' = [funds EXCEPT ![w] = @ + Amount]
               \/ /\ status[p] = "pending" /\ status' = Set(status, p, "success")
                  /\ CollectFee(p)
<1>1. CASE UNCHANGED vars
  BY <1>1 DEF vars
<1>2. CASE Next /\ ~UNCHANGED money
  <2>1. PICK p \in Payout :
          \/ CreatePayoutOrder(p) \/ RefundPendingPayout(p) \/ ApplyCallback(p)
          \/ StaffMarkFailed(p)
    BY <1>2 DEF Next, RefusePayout, RequestStep, AccountInquiry, SendCreate,
                CreateAnswered, CreateUnanswered, Payok, PayokReceives,
                PayokSettles, WebhookStep, ClaimWebhook, AbsorbDuplicate,
                LookUpPayout, MarkProcessed, QueueMerchantWebhook, ReplySuccess,
                Trouble, WebhookFails, HandlerDies, StaffReadStatus
  <2>2. ~StaffMarkFailed(p)
    BY DEF IInv, Own, StaffMarkFailed
  <2>3. CASE RefundPendingPayout(p)
    BY <1>2, <2>3 DEF RefundPendingPayout
  <2>4. CASE ApplyCallback(p)
    BY <1>2, <2>4, PayoutAssumption DEF ApplyCallback
  <2> QED  BY <2>1, <2>2, <2>3, <2>4
<1> QED  BY <1>1, <1>2

\* Without patches by staff no step changes the status of a payout that
\* succeeded or failed: each UPDATE of payout.ts says `status = 'pending'`.
THEOREM TerminalIsFinalAlways ==
  ASSUME Staff = FALSE PROVE Spec => TerminalIsFinal
<1>1. ASSUME IInv, [Next]_vars, NEW p \in Payout, status[p] \in {"success", "failed"}
      PROVE  status'[p] = status[p]
  <2>1. status \in [Payout -> {"none", "pending", "success", "failed"}]
    BY <1>1 DEF IInv, TypeOK
  <2>2. \A q \in Payout : request[q] = "new" => status[q] = "none"
    BY <1>1 DEF IInv, Own, InOrder
  <2>3. \/ UNCHANGED status
        \/ \E q \in Payout, v \in {"pending", "success", "failed"} :
              status[q] \in {"none", "pending"} /\ status' = Set(status, q, v)
    BY <1>1, <2>2, MoneyMoves DEF CreatePayoutOrder, Proceed, money
  <2> QED  BY <1>1, <2>1, <2>3 DEF Set
<1>2. IInv /\ [Next]_vars
      => [\A p \in Payout : status[p] \in {"success", "failed"}
                             => status'[p] = status[p]]_vars
  BY <1>1
<1>3. QED
  BY <1>2, InvariantAlways, PTL DEF Spec, TerminalIsFinal

-----------------------------------------------------------------------------
(* A payout with staff, beside a PayOK that answers.  The request gives the   *)
(* money back only when there is no order, or a refused one, and the callback *)
(* only when PayOK declined: what is given back can no longer be paid.        *)

StaffedEntry == {"payout", "payout_refund", "platform_fee"}

\* What request, order, callback and refunds of the payout know of one another.
Returnable(req, ord, hk, refunds) ==
    /\ req \in {"new", "refused", "inquiry", "create"} => ord = "none"
    /\ hk # "none" => ord \in {"paid", "declined"}
    /\ req = "refund" => ord \in {"none", "refused"}
    /\ refunds > 0 => /\ ord \in {"none", "refused", "declined"}
                      /\ ord = "none" => req \in {"done", "gone"}

StaffedInv ==
    /\ Staffed!TypeOK
    /\ Returnable(sRequest[p1], sOrder[p1], sHook[p1], sEntries[p1].payout_refund)

LEMMA StaffedInit == Staffed!Init => StaffedInv
<1> SUFFICES ASSUME Staffed!Init PROVE StaffedInv
  OBVIOUS
<1>1. Staffed!NoEntries \in [StaffedEntry -> Nat] /\ Staffed!NoEntries.payout_refund = 0
  BY DEF Staffed!NoEntries, StaffedEntry
<1>2. sEntries \in [{p1} -> [StaffedEntry -> Nat]] /\ sEntries[p1].payout_refund = 0
  BY <1>1 DEF Staffed!Init
<1>3. /\ sFunds \in [Wallet -> Int] /\ sCrashes \in 0 .. MaxCrash /\ sErrors \in 0 .. MaxError
  BY PayoutAssumption DEF Staffed!Init
<1>4. Staffed!TypeOK
  BY <1>2, <1>3 DEF Staffed!Init, Staffed!TypeOK, StaffedEntry
<1> QED  BY <1>2, <1>4 DEF Staffed!Init, StaffedInv, Returnable

\* One entry is added, and none is changed.
LEMMA StaffedPosts ==
  ASSUME Staffed!TypeOK, NEW type \in StaffedEntry, Staffed!Post(p1, type)
  PROVE  /\ sEntries' \in [{p1} -> [StaffedEntry -> Nat]]
         /\ type # "payout_refund" =>
               sEntries'[p1].payout_refund = sEntries[p1].payout_refund
BY DEF Staffed!Post, Staffed!TypeOK, StaffedEntry

\* The request goes on, and nothing else moves.
LEMMA StaffedRequest ==
  ASSUME StaffedInv,
         \/ Staffed!RefusePayout(p1) \/ Staffed!AccountInquiry(p1)
         \/ Staffed!CreateAnswered(p1) \/ Staffed!CreateUnanswered(p1)
  PROVE  StaffedInv'
<1>1. /\ UNCHANGED <<sStatus, sEntries, sFunds, sOrder, sEvent, sHook, sAcked, sReplayed,
                     sTold, sReview, sCrashes, sErrors>>
      /\ \E from, to \in {"new", "refused", "inquiry", "create", "await", "refund", "done"} :
            /\ sRequest[p1] = from /\ sRequest' = [sRequest EXCEPT ![p1] = to]
            /\ \/ from = "new" /\ to = "refused"
               \/ from = "inquiry" /\ to \in {"create", "refund"}
               \/ from = "await" /\ to = "done"
               \/ from = "await" /\ to = "refund" /\ sOrder[p1] = "refused"
  BY DEF Staffed!RefusePayout, Staffed!AccountInquiry, Staffed!CreateAnswered,
         Staffed!CreateUnanswered, Staffed!Proceed, Staffed!Set, Staffed!money,
         Staffed!webhook, Staffed!limits
<1>2. Staffed!TypeOK'
  BY <1>1 DEF StaffedInv, Staffed!TypeOK
<1> QED  BY <1>1, <1>2 DEF StaffedInv, Staffed!TypeOK, Returnable

LEMMA StaffedCreate ==
  ASSUME StaffedInv, Staffed!CreatePayoutOrder(p1) \/ Staffed!SendCreate(p1)
  PROVE  StaffedInv'
<1>1. CASE Staffed!CreatePayoutOrder(p1)
  <2>1. /\ sEntries' \in [{p1} -> [StaffedEntry -> Nat]]
        /\ sEntries'[p1].payout_refund = sEntries[p1].payout_refund
    BY <1>1, StaffedPosts DEF Staffed!CreatePayoutOrder, StaffedInv, StaffedEntry
  <2>2. sFunds' \in [Wallet -> Int]
    BY <1>1, PayoutAssumption DEF Staffed!CreatePayoutOrder, StaffedInv, Staffed!TypeOK
  <2>3. /\ sRequest[p1] = "new" /\ sRequest' = [sRequest EXCEPT ![p1] = "inquiry"]
        /\ sStatus' = [sStatus EXCEPT ![p1] = "pending"]
        /\ UNCHANGED <<sOrder, sEvent, sHook, sAcked, sReplayed, sTold, sReview, sCrashes,
                       sErrors>>
    BY <1>1 DEF Staffed!CreatePayoutOrder, Staffed!Proceed, Staffed!Set, Staffed!webhook,
                Staffed!limits
  <2>4. Staffed!TypeOK'
    BY <2>1, <2>2, <2>3 DEF StaffedInv, Staffed!TypeOK, StaffedEntry
  <2> QED  BY <2>1, <2>3, <2>4 DEF StaffedInv, Staffed!TypeOK, Returnable
<1>2. CASE Staffed!SendCreate(p1)
  <2>1. /\ sRequest[p1] = "create" /\ sRequest' = [sRequest EXCEPT ![p1] = "await"]
        /\ sOrder' = [sOrder EXCEPT ![p1] = "sent"]
        /\ UNCHANGED <<sStatus, sEntries, sFunds, sEvent, sHook, sAcked, sReplayed, sTold,
                       sReview, sCrashes, sErrors>>
    BY <1>2 DEF Staffed!SendCreate, Staffed!Proceed, Staffed!Set, Staffed!webhook,
                Staffed!limits, Staffed!money
  <2>2. Staffed!TypeOK'
    BY <2>1 DEF StaffedInv, Staffed!TypeOK
  <2> QED  BY <2>1, <2>2 DEF StaffedInv, Staffed!TypeOK, Returnable
<1> QED  BY <1>1, <1>2

LEMMA StaffedRefund ==
  ASSUME StaffedInv, Staffed!RefundPendingPayout(p1)
  PROVE  StaffedInv'
<1>1. /\ sRequest[p1] = "refund" /\ sRequest' = [sRequest EXCEPT ![p1] = "done"]
      /\ UNCHANGED <<sOrder, sEvent, sHook, sAcked, sReplayed, sTold, sReview, sCrashes, sErrors>>
  BY DEF Staffed!RefundPendingPayout, Staffed!Proceed, Staffed!Set, Staffed!webhook,
         Staffed!limits
<1>2. sEntries' \in [{p1} -> [StaffedEntry -> Nat]]
  BY StaffedPosts DEF Staffed!RefundPendingPayout, StaffedInv, StaffedEntry, Staffed!TypeOK,
                      Staffed!money
<1>3. sFunds' \in [Wallet -> Int]
  BY PayoutAssumption DEF Staffed!RefundPendingPayout, StaffedInv, Staffed!TypeOK, Staffed!money
<1>4. sStatus' \in [{p1} -> {"none", "pending", "success", "failed"}]
  BY DEF Staffed!RefundPendingPayout, StaffedInv, Staffed!TypeOK, Staffed!money, Staffed!Set
<1>5. Staffed!TypeOK'
  BY <1>1, <1>2, <1>3, <1>4 DEF StaffedInv, Staffed!TypeOK, StaffedEntry
<1> QED  BY <1>1, <1>5 DEF StaffedInv, Staffed!TypeOK, Returnable

LEMMA StaffedPayok ==
  ASSUME StaffedInv, Staffed!Payok(p1)
  PROVE  StaffedInv'
<1>1. /\ \E from, to \in {"sent", "open", "refused", "paid", "declined"} :
            /\ sOrder[p1] = from /\ sOrder' = [sOrder EXCEPT ![p1] = to]
            /\ from \in {"sent", "open"}
      /\ UNCHANGED <<sStatus, sEntries, sFunds, sRequest, sEvent, sHook, sAcked, sReplayed,
                     sTold, sReview, sCrashes, sErrors>>
  BY DEF Staffed!Payok, Staffed!PayokReceives, Staffed!PayokSettles, Staffed!Set,
         Staffed!webhook, Staffed!limits, Staffed!money
<1>2. Staffed!TypeOK'
  BY <1>1 DEF StaffedInv, Staffed!TypeOK
<1> QED  BY <1>1, <1>2 DEF StaffedInv, Staffed!TypeOK, Returnable

\* The callback's handler goes on, and the books stay.
LEMMA StaffedHook ==
  ASSUME StaffedInv,
         \/ Staffed!ClaimWebhook(p1) \/ Staffed!AbsorbDuplicate(p1) \/ Staffed!LookUpPayout(p1)
         \/ Staffed!MarkProcessed(p1) \/ Staffed!QueueMerchantWebhook(p1)
         \/ Staffed!ReplySuccess(p1) \/ Staffed!WebhookFails(p1)
  PROVE  StaffedInv'
<1> USE DEF StaffedInv, Staffed!TypeOK, Returnable, Staffed!HookStep, Staffed!Set,
            Staffed!money, Staffed!limits
<1>1. CASE Staffed!ClaimWebhook(p1)
  BY <1>1 DEF Staffed!ClaimWebhook
<1>2. CASE Staffed!AbsorbDuplicate(p1)
  BY <1>2 DEF Staffed!AbsorbDuplicate
<1>3. CASE Staffed!LookUpPayout(p1)
  BY <1>3 DEF Staffed!LookUpPayout
<1>4. CASE Staffed!MarkProcessed(p1)
  BY <1>4 DEF Staffed!MarkProcessed
<1>5. CASE Staffed!QueueMerchantWebhook(p1)
  BY <1>5 DEF Staffed!QueueMerchantWebhook
<1>6. CASE Staffed!ReplySuccess(p1)
  BY <1>6 DEF Staffed!ReplySuccess
<1>7. CASE Staffed!WebhookFails(p1)
  BY <1>7, PayoutAssumption DEF Staffed!WebhookFails
<1> QED  BY <1>1, <1>2, <1>3, <1>4, <1>5, <1>6, <1>7

LEMMA StaffedApply ==
  ASSUME StaffedInv, Staffed!ApplyCallback(p1)
  PROVE  StaffedInv'
<1>1. /\ UNCHANGED <<sRequest, sOrder, sEvent, sAcked, sReplayed, sTold, sReview, sCrashes,
                     sErrors>>
      /\ sHook[p1] = "read"
      /\ \E to \in {"applied", "ignored"} : sHook' = [sHook EXCEPT ![p1] = to]
  BY DEF Staffed!ApplyCallback, Staffed!HookStep, Staffed!Set, Staffed!limits
<1>2. sStatus' \in [{p1} -> {"none", "pending", "success", "failed"}]
  BY DEF Staffed!ApplyCallback, StaffedInv, Staffed!TypeOK, Staffed!money, Staffed!Set
<1>3. \/ UNCHANGED <<sEntries, sFunds>>
      \/ sOrder[p1] = "paid" /\ Staffed!CollectFee(p1)
      \/ /\ sOrder[p1] = "declined" /\ Staffed!Post(p1, "payout_refund")
         /\ sFunds' = [sFunds EXCEPT ![Home] = @ + Amount]
  BY DEF Staffed!ApplyCallback, Staffed!money
<1>4. /\ sEntries' \in [{p1} -> [StaffedEntry -> Nat]]
      /\ sOrder[p1] # "declined" =>
            sEntries'[p1].payout_refund = sEntries[p1].payout_refund
  <2>1. CASE UNCHANGED <<sEntries, sFunds>>
    BY <2>1 DEF StaffedInv, Staffed!TypeOK, StaffedEntry
  <2>2. CASE sOrder[p1] = "paid" /\ Staffed!CollectFee(p1)
    <3>1. Staffed!Post(p1, "platform_fee") \/ UNCHANGED sEntries
      BY <2>2 DEF Staffed!CollectFee
    <3>2. CASE UNCHANGED sEntries
      BY <3>2 DEF StaffedInv, Staffed!TypeOK, StaffedEntry
    <3>3. CASE Staffed!Post(p1, "platform_fee")
      BY <3>3, StaffedPosts DEF StaffedInv, StaffedEntry
    <3> QED  BY <3>1, <3>2, <3>3
  <2>3. CASE sOrder[p1] = "declined" /\ Staffed!Post(p1, "payout_refund")
    BY <2>3, StaffedPosts DEF StaffedInv, StaffedEntry
  <2> QED  BY <1>3, <2>1, <2>2, <2>3
<1>5. sFunds' \in [Wallet -> Int]
  BY <1>3, PayoutAssumption DEF Staffed!CollectFee, StaffedInv, Staffed!TypeOK
<1>6. Staffed!TypeOK'
  BY <1>1, <1>2, <1>4, <1>5 DEF StaffedInv, Staffed!TypeOK, StaffedEntry
<1> QED  BY <1>1, <1>4, <1>6 DEF StaffedInv, Staffed!TypeOK, Returnable

LEMMA StaffedOthers ==
  ASSUME StaffedInv,
         Staffed!HandlerDies(p1) \/ Staffed!StaffReadStatus(p1) \/ Staffed!StaffMarkFailed(p1)
  PROVE  StaffedInv'
<1> USE DEF StaffedInv, Staffed!TypeOK, Returnable, Staffed!Set, Staffed!money,
            Staffed!webhook, Staffed!limits
<1>1. CASE Staffed!HandlerDies(p1)
  BY <1>1, PayoutAssumption DEF Staffed!HandlerDies
<1>2. CASE Staffed!StaffReadStatus(p1)
  BY <1>2 DEF Staffed!StaffReadStatus
<1>3. CASE Staffed!StaffMarkFailed(p1)
  BY <1>3 DEF Staffed!StaffMarkFailed
<1> QED  BY <1>1, <1>2, <1>3

LEMMA StaffedNext == StaffedInv /\ Staffed!Next => StaffedInv'
<1> SUFFICES ASSUME StaffedInv, Staffed!Next PROVE StaffedInv'
  OBVIOUS
<1> QED  BY StaffedRequest, StaffedCreate, StaffedRefund, StaffedPayok, StaffedHook,
            StaffedApply, StaffedOthers
         DEF Staffed!Next, Staffed!RequestStep, Staffed!WebhookStep, Staffed!Trouble

LEMMA StaffedStay == StaffedInv /\ UNCHANGED StaffedVars => StaffedInv'
BY DEF StaffedInv, StaffedVars, Staffed!TypeOK

LEMMA StaffedMean == StaffedInv => Staffed!TypeOK /\ Staffed!PaidNeverReturned
<1> SUFFICES ASSUME StaffedInv PROVE Staffed!PaidNeverReturned
  BY DEF StaffedInv
<1> QED  BY DEF StaffedInv, Staffed!TypeOK, Returnable, Staffed!PaidNeverReturned

-----------------------------------------------------------------------------
(* Pay-ins.                                                                   *)

PayinsFacts == INSTANCE PayokPayinProofs WITH
    Payin <- {p1}, Prompt <- FALSE, status <- iStatus, credits <- iCredits,
    fees <- iFees, purses <- iPurses, request <- iRequest, order <- iOrder,
    event <- iEvent, at <- iAt, told <- iTold, crashes <- iCrashes, errors <-
    iErrors

PromptedFacts == INSTANCE PayokPayinProofs WITH
    Prompt <- TRUE, MaxCrash <- 0, MaxError <- 0, status <- eStatus, credits
    <- eCredits, fees <- eFees, purses <- ePurses, request <- eRequest, order
    <- eOrder, event <- eEvent, at <- eAt, told <- eTold, crashes <- eCrashes,
    errors <- eErrors

LEMMA PayinAmounts == PayinsFacts!Amounts /\ PromptedFacts!Amounts
<1>1. IsFiniteSet({p1})
  BY FS_Singleton
<1> QED
  BY <1>1, PayokAssumption, PayoutAssumption
  DEF PayinsFacts!Amounts, PromptedFacts!Amounts, IsFiniteSet,
      PayinsFacts!IsFiniteSet, PromptedFacts!IsFiniteSet

\* What is proved of PayokPayin is about these pay-ins.
LEMMA PayinsSame ==
    /\ Payins!Init <=> PayinsFacts!Init
    /\ Payins!Next <=> PayinsFacts!Next
    /\ PayinsFacts!IInv => Payins!TypeOK /\ Payins!CreditedOnce /\ Payins!ToldOnce
<1>1. Payins!Init <=> PayinsFacts!Init
  BY DEF Payins!Init, PayinsFacts!Init, Payins!Actor, PayinsFacts!Actor
<1>2. Payins!Next <=> PayinsFacts!Next
  BY DEF Payins!money, PayinsFacts!money, Payins!limits, PayinsFacts!limits,
         Payins!Actor, PayinsFacts!Actor, Payins!Set, PayinsFacts!Set,
         Payins!Proceed, PayinsFacts!Proceed, Payins!Step, PayinsFacts!Step,
         Payins!Locked, PayinsFacts!Locked, Payins!RefusePayin,
         PayinsFacts!RefusePayin, Payins!CreatePayinOrder,
         PayinsFacts!CreatePayinOrder, Payins!CreateAnswered,
         PayinsFacts!CreateAnswered, Payins!CreateUnanswered,
         PayinsFacts!CreateUnanswered, Payins!PayokReceives,
         PayinsFacts!PayokReceives, Payins!PayokSettles,
         PayinsFacts!PayokSettles, Payins!ClaimWebhook,
         PayinsFacts!ClaimWebhook, Payins!Reconcile, PayinsFacts!Reconcile,
         Payins!Inquire, PayinsFacts!Inquire, Payins!LookUpPayin,
         PayinsFacts!LookUpPayin, Payins!TakeFee, PayinsFacts!TakeFee,
         Payins!Credit, PayinsFacts!Credit, Payins!ApplyCallback,
         PayinsFacts!ApplyCallback, Payins!IgnoreCallback,
         PayinsFacts!IgnoreCallback, Payins!FindNoWallet,
         PayinsFacts!FindNoWallet, Payins!OpenWallet, PayinsFacts!OpenWallet,
         Payins!MarkProcessed, PayinsFacts!MarkProcessed, Payins!Tell,
         PayinsFacts!Tell, Payins!StaffIgnored, PayinsFacts!StaffIgnored,
         Payins!CallFails, PayinsFacts!CallFails, Payins!HandlerDies,
         PayinsFacts!HandlerDies, Payins!Credited, PayinsFacts!Credited,
         Payins!RequestStep, PayinsFacts!RequestStep, Payins!Payok,
         PayinsFacts!Payok, Payins!HandleCallback, PayinsFacts!HandleCallback,
         Payins!WebhookStep, PayinsFacts!WebhookStep, Payins!StaffStep,
         PayinsFacts!StaffStep, Payins!Next, PayinsFacts!Next,
         Payins!LookUpDenied, PayinsFacts!LookUpDenied,
         Payins!ApplyDenial, PayinsFacts!ApplyDenial,
         Payins!TellDenial, PayinsFacts!TellDenial
<1>3. PayinsFacts!IInv => Payins!TypeOK /\ Payins!CreditedOnce /\ Payins!ToldOnce
  BY PayinsFacts!InvariantMeans
  DEF Payins!TypeOK, PayinsFacts!TypeOK, Payins!Actor, PayinsFacts!Actor, Payins!CreditedOnce, PayinsFacts!CreditedOnce,
      Payins!ToldOnce, PayinsFacts!ToldOnce
<1> QED  BY <1>1, <1>2, <1>3

\* What is proved of PayokPayin is about these pay-ins.
LEMMA PromptedSame ==
    /\ Prompted!Init <=> PromptedFacts!Init
    /\ Prompted!Next <=> PromptedFacts!Next
    /\ PromptedFacts!IInv => Prompted!TypeOK /\ Prompted!CreditedOnce /\ Prompted!ToldOnce
<1>1. Prompted!Init <=> PromptedFacts!Init
  BY DEF Prompted!Init, PromptedFacts!Init, Prompted!Actor, PromptedFacts!Actor
<1>2. Prompted!Next <=> PromptedFacts!Next
  BY DEF Prompted!money, PromptedFacts!money, Prompted!limits,
         PromptedFacts!limits, Prompted!Actor, PromptedFacts!Actor,
         Prompted!Set, PromptedFacts!Set, Prompted!Proceed,
         PromptedFacts!Proceed, Prompted!Step, PromptedFacts!Step,
         Prompted!Locked, PromptedFacts!Locked, Prompted!RefusePayin,
         PromptedFacts!RefusePayin, Prompted!CreatePayinOrder,
         PromptedFacts!CreatePayinOrder, Prompted!CreateAnswered,
         PromptedFacts!CreateAnswered, Prompted!CreateUnanswered,
         PromptedFacts!CreateUnanswered, Prompted!PayokReceives,
         PromptedFacts!PayokReceives, Prompted!PayokSettles,
         PromptedFacts!PayokSettles, Prompted!ClaimWebhook,
         PromptedFacts!ClaimWebhook, Prompted!Reconcile,
         PromptedFacts!Reconcile, Prompted!Inquire, PromptedFacts!Inquire,
         Prompted!LookUpPayin, PromptedFacts!LookUpPayin, Prompted!TakeFee,
         PromptedFacts!TakeFee, Prompted!Credit, PromptedFacts!Credit,
         Prompted!ApplyCallback, PromptedFacts!ApplyCallback,
         Prompted!IgnoreCallback, PromptedFacts!IgnoreCallback,
         Prompted!FindNoWallet, PromptedFacts!FindNoWallet,
         Prompted!OpenWallet, PromptedFacts!OpenWallet,
         Prompted!MarkProcessed, PromptedFacts!MarkProcessed, Prompted!Tell,
         PromptedFacts!Tell, Prompted!StaffIgnored,
         PromptedFacts!StaffIgnored, Prompted!CallFails,
         PromptedFacts!CallFails, Prompted!HandlerDies,
         PromptedFacts!HandlerDies, Prompted!Credited, PromptedFacts!Credited,
         Prompted!RequestStep, PromptedFacts!RequestStep, Prompted!Payok,
         PromptedFacts!Payok, Prompted!HandleCallback,
         PromptedFacts!HandleCallback, Prompted!WebhookStep,
         PromptedFacts!WebhookStep, Prompted!StaffStep,
         PromptedFacts!StaffStep, Prompted!Next, PromptedFacts!Next,
         Prompted!LookUpDenied, PromptedFacts!LookUpDenied,
         Prompted!ApplyDenial, PromptedFacts!ApplyDenial,
         Prompted!TellDenial, PromptedFacts!TellDenial
<1>3. PromptedFacts!IInv => Prompted!TypeOK /\ Prompted!CreditedOnce /\ Prompted!ToldOnce
  BY PromptedFacts!InvariantMeans
  DEF Prompted!TypeOK, PromptedFacts!TypeOK, Prompted!Actor, PromptedFacts!Actor, Prompted!CreditedOnce, PromptedFacts!CreditedOnce,
      Prompted!ToldOnce, PromptedFacts!ToldOnce
<1> QED  BY <1>1, <1>2, <1>3

-----------------------------------------------------------------------------
(* What the merchant's wallets hold, whatever number of payouts he makes.     *)

\* What is known of sums (PayokPayinProofs).
LEMMA SumsKnown ==
  ASSUME NEW D, IsFiniteSet(D), NEW f \in [D -> Nat]
  PROVE  /\ SumOf(f) \in Nat
         /\ (\A x \in D : f[x] = 0) => SumOf(f) = 0
         /\ \A x \in D, g \in [D -> Nat] :
               (\A y \in D \ {x} : g[y] = f[y])
                   => SumOf(g) + f[x] = SumOf(f) + g[x]
<1>1. ASSUME NEW h PROVE PayinsFacts!SumOf(h) = SumOf(h)
  BY DEF PayinsFacts!SumOf, SumOf, PayinsFacts!Units, Units,
         PayinsFacts!Cardinality, Cardinality
<1>2. PayinsFacts!IsFiniteSet(D)
  BY DEF IsFiniteSet, PayinsFacts!IsFiniteSet
<1>3. SumOf(f) \in Nat
  BY <1>1, <1>2, PayinsFacts!SumNat
<1>4. ASSUME \A x \in D : f[x] = 0 PROVE SumOf(f) = 0
  <2>1. Units(f) = {}
    BY <1>4 DEF Units
  <2> QED  BY <2>1, FS_EmptySet DEF SumOf
<1>5. ASSUME NEW x \in D, NEW g \in [D -> Nat], \A y \in D \ {x} : g[y] = f[y]
      PROVE  SumOf(g) + f[x] = SumOf(f) + g[x]
  <2>1. g[x] \in Nat
    OBVIOUS
  <2>2. PayinsFacts!SumOf(g) + f[x] = PayinsFacts!SumOf(f) + g[x]
    BY <1>2, <1>5, <2>1, PayinsFacts!SumOfExcept
  <2> QED  BY <1>1, <2>2
<1> QED  BY <1>3, <1>4, <1>5

\* What a payout costs the merchant, by its status.
LEMMA CostIs ==
  ASSUME NEW s \in {"none", "pending", "success", "failed"},
         NEW n \in [EntryType -> Nat],
         n.payout = IF s = "none" THEN 0 ELSE 1,
         n.payout_refund = IF s = "failed" THEN 1 ELSE 0,
         n.platform_fee <= IF s = "success" THEN 1 ELSE 0,
         NEW cost, cost = Amount * (n.payout - n.payout_refund) + Fee * n.platform_fee
  PROVE  /\ cost \in Nat
         /\ s \in {"none", "failed"} => cost = 0
         /\ s = "pending" => cost = Amount /\ n.platform_fee = 0
         /\ s = "success" /\ n.platform_fee = 1 => cost = Amount + Fee
<1>1. Amount \in Nat /\ Fee \in Nat
  BY PayoutAssumption
<1>2. Amount * 0 = 0 /\ Amount * 1 = Amount /\ Fee * 0 = 0 /\ Fee * 1 = Fee
  BY <1>1
<1>3. /\ n.platform_fee \in {0, 1}
      /\ s # "success" => n.platform_fee = 0
  BY DEF EntryType
<1>4. CASE s \in {"none", "failed"}
  <2>1. cost = Amount * 0 + Fee * 0
    BY <1>3, <1>4
  <2> QED  BY <1>2, <1>4, <2>1
<1>5. CASE s = "pending"
  <2>1. cost = Amount * 1 + Fee * 0
    BY <1>3, <1>5
  <2> QED  BY <1>1, <1>2, <1>3, <1>5, <2>1
<1>6. CASE s = "success"
  <2>1. cost = Amount * 1 + Fee * n.platform_fee
    BY <1>6
  <2> QED  BY <1>1, <1>2, <1>3, <1>6, <2>1
<1> QED  BY <1>4, <1>5, <1>6

\* Before and after a step.
LEMMA DueIs ==
  ASSUME IInv, NEW p \in Payout
  PROVE  /\ Due(p) \in Nat
         /\ status[p] \in {"none", "failed"} => Due(p) = 0
         /\ status[p] = "pending" => Due(p) = Amount /\ entries[p].platform_fee = 0
  BY CostIs DEF IInv, TypeOK, Own, EntriesFit, Due, EntryType

LEMMA DueBecomes ==
  ASSUME IInv', NEW p \in Payout
  PROVE  /\ Due(p)' \in Nat
         /\ status'[p] = "failed" => Due(p)' = 0
         /\ status'[p] = "pending" => Due(p)' = Amount
         /\ status'[p] = "success" /\ entries'[p].platform_fee = 1
               => Due(p)' = Amount + Fee
  BY CostIs DEF IInv, TypeOK, Own, EntriesFit, Due, EntryType

Dues == [p \in Payout |-> Due(p)]

\* The sum of what payouts cost changes with the one that moves.
LEMMA DuesMove ==
  ASSUME IInv, IInv', IsFiniteSet(Payout), NEW p \in Payout,
         \A q \in Payout \ {p} : entries'[q] = entries[q]
  PROVE  /\ SumOf(Dues) \in Nat /\ SumOf(Dues') \in Nat
         /\ SumOf(Dues') + Due(p) = SumOf(Dues) + Due(p)'
<1>1. Dues \in [Payout -> Nat] /\ Dues[p] = Due(p)
  BY DueIs DEF Dues
<1>2. Dues' \in [Payout -> Nat] /\ Dues'[p] = Due(p)' /\ Due(p)' \in Nat
  <2>1. \A q \in Payout : Due(q)' \in Nat
    BY DueBecomes
  <2> QED  BY <2>1 DEF Dues
<1>3. \A q \in Payout \ {p} : Dues'[q] = Dues[q]
  BY DEF Dues, Due
<1>4. /\ SumOf(Dues) \in Nat /\ SumOf(Dues') \in Nat
      /\ SumOf(Dues') + Dues[p] = SumOf(Dues) + Due(p)'
  BY <1>1, <1>2, <1>3, SumsKnown
<1> QED  BY <1>1, <1>4

LEMMA ExplainedMoves ==
  ASSUME IInv, IInv', FundsExplained, IsFiniteSet(Payout), RefundWallet = {Home},
         [Next]_vars
  PROVE  FundsExplained'
<1>1. /\ funds \in [Wallet -> Int] /\ Home \in Wallet
      /\ Amount \in Nat /\ Fee \in Nat /\ Opening \in Nat
      /\ status \in [Payout -> {"none", "pending", "success", "failed"}]
      /\ entries \in [Payout -> [EntryType -> Nat]]
  BY PayoutAssumption DEF IInv, TypeOK, EntryType
<1>2. /\ \A w \in Wallet \ {Home} : funds[w] = Opening
      /\ funds[Home] = Opening - SumOf(Dues)
  BY <1>1 DEF FundsExplained, Dues
<1>3. CASE UNCHANGED money
  <2>1. Dues' = Dues
    BY <1>3 DEF Dues, Due, money
  <2> QED  BY <1>1, <1>2, <1>3, <2>1 DEF FundsExplained, Dues, money
<1>4. ASSUME NEW p \in Payout, NEW paid \in Int,
             \A q \in Payout \ {p} : entries'[q] = entries[q],
             Due(p)' = Due(p) + paid, funds' = [funds EXCEPT ![Home] = @ - paid]
      PROVE  FundsExplained'
  <2>1. /\ SumOf(Dues) \in Nat /\ SumOf(Dues') \in Nat /\ Due(p) \in Nat
        /\ SumOf(Dues') + Due(p) = SumOf(Dues) + Due(p)'
    BY <1>4, DuesMove, DueIs
  <2>2. SumOf(Dues') = SumOf(Dues) + paid
    BY <1>4, <2>1
  <2>3. /\ funds'[Home] = funds[Home] - paid
        /\ \A w \in Wallet \ {Home} : funds'[w] = funds[w]
    BY <1>1, <1>4
  <2>4. funds'[Home] = Opening - SumOf(Dues')
    BY <1>1, <1>2, <1>4, <2>1, <2>2, <2>3
  <2> QED  BY <1>2, <2>3, <2>4 DEF FundsExplained, Dues
<1>5. ASSUME NEW p \in Payout, CreatePayoutOrder(p) PROVE FundsExplained'
  <2>1. /\ status[p] = "none" /\ status'[p] = "pending"
        /\ \A q \in Payout \ {p} : entries'[q] = entries[q]
        /\ funds' = [funds EXCEPT ![Home] = @ - Amount]
    BY <1>1, <1>5 DEF CreatePayoutOrder, Proceed, Set, Post, IInv, Own, InOrder
  <2>2. Due(p) = 0 /\ Due(p)' = Amount
    BY <2>1, DueIs, DueBecomes
  <2>3. Amount \in Int /\ Due(p)' = Due(p) + Amount
    BY <1>1, <2>2
  <2> QED  BY <1>4, <2>1, <2>3
<1>6. ASSUME NEW p \in Payout, status[p] = "pending",
             status' = Set(status, p, "failed"), Post(p, "payout_refund"),
             \E w \in RefundWallet : funds' = [funds EXCEPT ![w] = @ + Amount]
      PROVE  FundsExplained'
  <2>1. /\ status'[p] = "failed"
        /\ \A q \in Payout \ {p} : entries'[q] = entries[q]
        /\ funds' = [funds EXCEPT ![Home] = @ - (-Amount)]
    <3>1. funds[Home] + Amount = funds[Home] - (-Amount)
      BY <1>1
    <3>2. funds' = [funds EXCEPT ![Home] = funds[Home] - (-Amount)]
      BY <1>1, <1>6, <3>1
    <3> QED  BY <1>1, <1>6, <3>2 DEF Set, Post
  <2>2. Due(p) = Amount /\ Due(p)' = 0
    BY <1>6, <2>1, DueIs, DueBecomes
  <2>3. -Amount \in Int /\ Due(p)' = Due(p) + (-Amount)
    BY <1>1, <2>2
  <2> QED  BY <1>4, <2>1, <2>3
<1>7. ASSUME NEW p \in Payout, status[p] = "pending",
             status' = Set(status, p, "success"), CollectFee(p)
      PROVE  FundsExplained'
  <2>1. status'[p] = "success"
    BY <1>1, <1>7 DEF Set
  <2>2. Due(p) = Amount /\ entries[p].platform_fee = 0
    BY <1>7, DueIs
  <2>3. CASE UNCHANGED <<entries, funds>>
    <3>1. Due(p)' = Due(p) /\ funds' = [funds EXCEPT ![Home] = @ - 0]
      BY <1>1, <2>3 DEF Due
    <3>2. Due(p)' = Due(p) + 0
      BY <1>1, <2>2, <3>1
    <3>3. \A q \in Payout \ {p} : entries'[q] = entries[q]
      BY <2>3
    <3>4. 0 \in Int
      OBVIOUS
    <3> QED  BY ONLY <1>4, <3>1, <3>2, <3>3, <3>4
  <2>4. CASE Post(p, "platform_fee") /\ funds' = [funds EXCEPT ![Home] = @ - Fee]
    <3>1. /\ entries'[p].platform_fee = 1
          /\ \A q \in Payout \ {p} : entries'[q] = entries[q]
      BY <1>1, <2>2, <2>4 DEF Post, EntryType
    <3>2. Due(p)' = Amount + Fee
      BY <2>1, <3>1, DueBecomes
    <3>3. Fee \in Int /\ Due(p)' = Due(p) + Fee
      BY <1>1, <2>2, <3>2
    <3> QED  BY <1>4, <2>4, <3>1, <3>3
  <2> QED  BY <1>7, <2>3, <2>4 DEF CollectFee
<1> QED  BY <1>3, <1>5, <1>6, <1>7, MoneyMoves

\* If refunds find the wallet that was debited, each wallet holds its opening
\* balance less what its payouts cost; so what refundPendingPayout can do wrong
\* is to find another (payout.ts selects it without its currency).
THEOREM FundsExplainedAlways ==
  ASSUME Staff = FALSE, RefundWallet = {Home}, IsFiniteSet(Payout)
  PROVE  Spec => []FundsExplained
<1>1. Init => FundsExplained
  <2> SUFFICES ASSUME Init PROVE FundsExplained
    OBVIOUS
  <2>1. IInv
    BY InitIInv
  <2>2. Dues \in [Payout -> Nat] /\ \A p \in Payout : Dues[p] = 0
    BY <2>1, DueIs DEF Init, Dues
  <2>3. SumOf(Dues) = 0
    BY <2>2, SumsKnown
  <2> QED  BY <2>3, PayoutAssumption DEF Init, FundsExplained, Dues
<1>2. IInv /\ IInv' /\ FundsExplained /\ [Next]_vars => FundsExplained'
  BY ExplainedMoves
<1>3. QED
  BY <1>1, <1>2, InvariantAlways, PTL DEF Spec

-----------------------------------------------------------------------------
(* What is kept of pay-ins, beside the invariant of PayokPayinProofs: while a *)
(* request waits nobody settled its pay-in, unless PayOK may settle first;    *)
(* and then what the wallets hold is explained all the same.                  *)

PayinsInv == PayinsFacts!IInv /\ PayinsFacts!Awaiting

PromptedInv == PromptedFacts!IInv /\ PromptedFacts!PursesExplained

\* Sums are the same sums.
LEMMA SameSums ==
  ASSUME NEW f
  PROVE  /\ Payins!SumOf(f) = PayinsFacts!SumOf(f)
         /\ Prompted!SumOf(f) = PromptedFacts!SumOf(f)
  BY DEF Payins!SumOf, PayinsFacts!SumOf, Prompted!SumOf, PromptedFacts!SumOf,
         Payins!Units, PayinsFacts!Units, Prompted!Units, PromptedFacts!Units,
         Payins!Cardinality, PayinsFacts!Cardinality, Prompted!Cardinality,
         PromptedFacts!Cardinality

\* The abstract pay-in is the same one.
LEMMA SamePayinOrder ==
    /\ Payins!AsPayinOrder!Init <=> PayinsFacts!AsPayinOrder!Init
    /\ Payins!AsPayinOrder!Next <=> PayinsFacts!AsPayinOrder!Next
    /\ UNCHANGED Payins!AsPayinOrder!vars <=> UNCHANGED PayinsFacts!AsPayinOrder!vars
    /\ PromptedFacts!PursesExplained <=> Prompted!PursesExplained
<1>1. /\ Payins!SumOf(iPurses) = PayinsFacts!SumOf(iPurses)
      /\ Payins!SumOf(iPurses)' = PayinsFacts!SumOf(iPurses)'
      /\ Prompted!SumOf(ePurses) = PromptedFacts!SumOf(ePurses)
      /\ Prompted!SumOf(eCredits) = PromptedFacts!SumOf(eCredits)
      /\ Prompted!SumOf(eFees) = PromptedFacts!SumOf(eFees)
  BY SameSums
<1>2. Payins!AsPayinOrder!Init <=> PayinsFacts!AsPayinOrder!Init
  BY <1>1 DEF Payins!AsPayinOrder!Init, PayinsFacts!AsPayinOrder!Init
<1>3. \A p, from, to : Payins!AsPayinOrder!Become(p, from, to)
                         <=> PayinsFacts!AsPayinOrder!Become(p, from, to)
  BY DEF Payins!AsPayinOrder!Become, PayinsFacts!AsPayinOrder!Become
<1>4. Payins!AsPayinOrder!Next <=> PayinsFacts!AsPayinOrder!Next
  BY <1>1, <1>3
  DEF Payins!AsPayinOrder!Next, PayinsFacts!AsPayinOrder!Next,
      Payins!AsPayinOrder!Await, PayinsFacts!AsPayinOrder!Await,
      Payins!AsPayinOrder!Credit, PayinsFacts!AsPayinOrder!Credit,
      Payins!AsPayinOrder!Fail, PayinsFacts!AsPayinOrder!Fail
<1>5. UNCHANGED Payins!AsPayinOrder!vars <=> UNCHANGED PayinsFacts!AsPayinOrder!vars
  BY <1>1 DEF Payins!AsPayinOrder!vars, PayinsFacts!AsPayinOrder!vars
<1>6. PromptedFacts!PursesExplained <=> Prompted!PursesExplained
  BY <1>1 DEF Prompted!PursesExplained, PromptedFacts!PursesExplained
<1> QED  BY <1>2, <1>4, <1>5, <1>6

LEMMA PayinsInit ==
    /\ Payins!Init => PayinsInv /\ Payins!AsPayinOrder!Init
    /\ Prompted!Init => PromptedInv
<1>1. ASSUME Payins!Init PROVE PayinsInv /\ Payins!AsPayinOrder!Init
  <2>1. PayinsFacts!Init
    BY <1>1, PayinsSame
  <2>2. PayinsFacts!IInv /\ PayinsFacts!AsPayinOrder!Init
    BY <2>1, PayinAmounts, PayinsFacts!InitIInv, PayinsFacts!RefinesInit
  <2>3. PayinsFacts!Awaiting
    BY <2>1 DEF PayinsFacts!Init, PayinsFacts!Awaiting
  <2> QED  BY <2>2, <2>3, SamePayinOrder DEF PayinsInv
<1>2. ASSUME Prompted!Init PROVE PromptedInv
  BY <1>2, PayinAmounts, PromptedSame, PromptedFacts!InitIInv, PromptedFacts!PursesInit
  DEF PromptedInv
<1> QED  BY <1>1, <1>2

\* A step of a pay-in is one of the abstract pay-in, or changes nothing there.
LEMMA PayinsNext ==
    /\ PayinsInv /\ (Payins!Next \/ UNCHANGED PayinsVars)
          => /\ PayinsInv'
             /\ Payins!AsPayinOrder!Next \/ UNCHANGED Payins!AsPayinOrder!vars
    /\ PromptedInv /\ (Prompted!Next \/ UNCHANGED PromptedVars) => PromptedInv'
<1>1. ASSUME PayinsInv, Payins!Next \/ UNCHANGED PayinsVars
      PROVE  /\ PayinsInv'
             /\ Payins!AsPayinOrder!Next \/ UNCHANGED Payins!AsPayinOrder!vars
  <2>1. PayinsFacts!Next \/ UNCHANGED PayinsFacts!vars
    BY <1>1, PayinsSame DEF PayinsVars, PayinsFacts!vars, PayinsFacts!money, PayinsFacts!limits
  <2>2. PayinsFacts!IInv' /\ PayinsFacts!Awaiting'
    BY <1>1, <2>1, PayinAmounts, PayinsFacts!NextIInv, PayinsFacts!NextAwaiting DEF PayinsInv
  <2>3. PayinsFacts!AsPayinOrder!Next \/ UNCHANGED PayinsFacts!AsPayinOrder!vars
    BY <1>1, <2>1, PayinAmounts, PayinsFacts!RefinesNext DEF PayinsInv
  <2> QED  BY <2>2, <2>3, SamePayinOrder DEF PayinsInv
<1>2. ASSUME PromptedInv, Prompted!Next \/ UNCHANGED PromptedVars PROVE PromptedInv'
  <2>1. PromptedFacts!Next \/ UNCHANGED PromptedFacts!vars
    BY <1>2, PromptedSame
    DEF PromptedVars, PromptedFacts!vars, PromptedFacts!money, PromptedFacts!limits
  <2> QED
    BY <1>2, <2>1, PayinAmounts, PromptedFacts!NextIInv, PromptedFacts!PursesNext
    DEF PromptedInv
<1> QED  BY <1>1, <1>2

-----------------------------------------------------------------------------
(* The worlds together: a behaviour is one of them, and the others stay where *)
(* they are.                                                                  *)

AllInv ==
    /\ world = "staffed" => StaffedInv
    /\ world = "payin" => PayinsInv
    /\ world = "prompted" => PromptedInv

LEMMA AllInitInv == AllInit => AllInv
  BY StaffedInit, PayinsInit DEF AllInit, AllInv

\* Every step keeps the invariant of its world.
LEMMA AllNextInv == AllInv /\ [AllNext]_allVars => AllInv'
<1> SUFFICES ASSUME AllInv, [AllNext]_allVars PROVE AllInv'
  OBVIOUS
<1>1. CASE AllNext
  <2>1. world' = world
    BY <1>1 DEF AllNext
  <2>2. CASE world = "payout"
    BY <2>1, <2>2 DEF AllInv
  <2>3. CASE world = "staffed" /\ Staffed!Next
    BY <2>1, <2>3, StaffedNext DEF AllInv
  <2>4. CASE world = "payin" /\ Payins!Next
    BY <2>1, <2>4, PayinsNext DEF AllInv
  <2>5. CASE world = "prompted" /\ Prompted!Next
    BY <2>1, <2>5, PayinsNext DEF AllInv
  <2> QED  BY <1>1, <2>2, <2>3, <2>4, <2>5 DEF AllNext
<1>2. CASE UNCHANGED allVars
  BY <1>2, StaffedStay, PayinsNext DEF AllInv, allVars
<1> QED  BY <1>1, <1>2

\* The code of each world keeps, in every interleaving, what its steps rely on.
THEOREM PayokInvariant == AllSpec => []AllInv
  BY AllInitInv, AllNextInv, PTL DEF AllSpec

\* Every variable of every world has its type, for any constants.
THEOREM PayokTypes == ASSUME Staff = FALSE PROVE AllSpec => []TypesOK
<1>1. AllInit => IInv
  BY InitIInv DEF AllInit
<1>2. IInv /\ [AllNext]_allVars => IInv'
  BY NextIInv DEF AllNext, allVars
<1>3. IInv /\ AllInv => TypesOK
  BY StaffedMean, PayinsSame, PromptedSame
  DEF IInv, AllInv, PayinsInv, PromptedInv, TypesOK
<1> QED  BY <1>1, <1>2, <1>3, PayokInvariant, PTL DEF AllSpec

\* payout.ts, and PATCH /provider/transactions/:id/status: for any amount, fee
\* and order of the steps, while PayOK answers nobody is paid with money that
\* the merchant got back.
THEOREM StaffAlwaysReturnNothingPaid == AllSpec => []StaffReturnNothingPaid
<1>1. AllInv => StaffReturnNothingPaid
  BY StaffedMean DEF AllInv, StaffReturnNothingPaid
<1> QED  BY <1>1, PayokInvariant, PTL

\* payin.ts, payin-reconcile.ts: for any pay-ins, amounts, fees and failures, and
\* also when PayOK settles first, a pay-in is credited once and told of once.
THEOREM PayinsAreCreditedOnce == AllSpec => []CreditedOnce
<1>1. AllInv => CreditedOnce
  BY PayinsSame, PromptedSame DEF AllInv, PayinsInv, PromptedInv, CreditedOnce
<1> QED  BY <1>1, PayokInvariant, PTL

\* payin.ts, payin-reconcile.ts: a pay-in is the abstract PayinOrder: awaited,
\* then failed or credited once, with its fee or without; and when PayOK settles
\* first, any pay-ins and wallets together hold what was credited less the fees.
THEOREM PayinsImplementPayinOrder == AllSpec => ImplementsPayinOrder
<1> DEFINE Step == world = "payin" =>
                     Payins!AsPayinOrder!Next \/ UNCHANGED Payins!AsPayinOrder!vars
<1>1. AllInv => (world = "prompted" => Prompted!PursesExplained)
  BY SamePayinOrder DEF AllInv, PromptedInv
<1>2. AllInit => (world = "payin" => Payins!AsPayinOrder!Init)
  BY PayinsInit DEF AllInit
<1>3. AllInv /\ [AllNext]_allVars => [Step]_allVars
  BY PayinsNext DEF AllInv, AllNext
<1> HIDE DEF Step
<1>4. AllSpec => [][Step]_allVars
  BY <1>3, PayokInvariant, PTL DEF AllSpec
<1>5. AllSpec => [](world = "prompted" => Prompted!PursesExplained)
  BY <1>1, PayokInvariant, PTL
<1>6. AllSpec => (world = "payin" => Payins!AsPayinOrder!Init)
  BY <1>2 DEF AllSpec
<1> QED  BY <1>4, <1>5, <1>6 DEF ImplementsPayinOrder, Step
=============================================================================
