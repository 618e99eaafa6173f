--------------------------- MODULE PayokPayinProofs ---------------------------
(***************************************************************************)
(* Proofs about PayokPayin for any pay-ins, any amounts and fees, whatever  *)
(* fails or dies, and also when PayOK settles before its answer is handled. *)
(*                                                                         *)
(* Webhook and reconcile race for the pending row.  The invariant says of  *)
(* each pay-in what its row, its ledger entries, PayOK's order and the two  *)
(* actors know of one another: of two that read the row as pending only    *)
(* one gets to settle it, and the other is never past its UPDATE.  It does *)
(* not say that a pay-in that failed was not paid: an inquiry that fails   *)
(* counts as a decline (payin-reconcile.ts).                               *)
(***************************************************************************)
EXTENDS PayokPayin, SequenceTheorems, FunctionTheorems, FiniteSetTheorems, TLAPS

\* The constants are what payin.ts computes with, amounts and counts, and the
\* pay-ins are finitely many.
Amounts ==
    /\ Paid \in Nat /\ Fee \in Nat /\ MaxCrash \in Nat /\ MaxError \in Nat
    /\ IsFiniteSet(Payin)

Requests == {"new", "refused", "await", "done", "gone"}
Events == {"absent", "received", "processed", "failed"}
Steps == {"idle", "asking", "claimed", "read", "opening", "applied", "ignored",
          "notify", "done", "denied", "deny", "dropped"}

\* An actor at one of these knows what PayOK decided.
Informed == {"claimed", "read", "opening", "applied", "notify"}

\* An actor at one of these settled the row by that decision.
Past == {"applied", "notify"}

\* An actor at one of these settled the row, perhaps for an inquiry that failed.
Ended == Past \cup {"dropped"}

Settled(p) == status[p] \in {"success", "failed"}

\* The ledger says what the customer did.
Right(p) == credits[p] = IF order[p] = "paid" THEN 1 ELSE 0

\* There is no row before the request, no order without a row, and nobody
\* handles an outcome before there is one.
InOrder(p) ==
    /\ request[p] = "new" => status[p] = "none"
    /\ status[p] = "none" => order[p] = "none"
    /\ \A a \in Actor : at[p][a] \in Informed => order[p] \in {"paid", "declined"}

\* The ledger of a pay-in agrees with its status and with PayOK's order.
Booked(p) ==
    /\ ~Settled(p) => credits[p] = 0
    /\ status[p] = "success" => credits[p] = 1
    /\ credits[p] <= IF order[p] = "paid" THEN 1 ELSE 0
    /\ fees[p] <= credits[p]

\* An open transaction holds a row that is still pending, and holds it alone.
Opens(p) ==
    \A a \in Actor : at[p][a] = "opening" =>
        /\ status[p] = "pending" /\ order[p] = "paid"
        /\ \A b \in Actor \ {a} : at[p][b] # "opening"

\* Only one actor settles the row; until it reports, nobody told the merchant.
Reports(p) ==
    /\ \A a \in Actor : at[p][a] \in Ended =>
        /\ Settled(p) /\ told[p] = <<>>
        /\ \A b \in Actor \ {a} : at[p][b] \notin Ended
        /\ IF at[p][a] = "dropped" THEN credits[p] = 0 ELSE Right(p)
    /\ told[p] # <<>> =>
        /\ Settled(p)
        /\ told[p] = <<IF credits[p] = 1 THEN "success" ELSE "failed">>

Own(p) == InOrder(p) /\ Booked(p) /\ Opens(p) /\ Reports(p)

IInv == TypeOK /\ \A p \in Payin : Own(p)

-----------------------------------------------------------------------------
LEMMA InitIInv == Amounts /\ Init => IInv
<1> SUFFICES ASSUME Amounts, Init PROVE IInv
  OBVIOUS
<1>1. TypeOK
  <2>1. purses \in Seq(Nat)
    <3>1. <<>> \in Seq(Nat)
      OBVIOUS
    <3>2. <<0>> \in Seq(Nat)
      OBVIOUS
    <3>3. QED
      BY <3>1, <3>2 DEF Init
  <2>2. told \in [Payin -> Seq({"success", "failed"})]
    BY DEF Init
  <2>3. QED
    BY <2>1, <2>2 DEF Init, TypeOK, Amounts
<1>2. ASSUME NEW p \in Payin PROVE Own(p)
  BY DEF Init, Own, InOrder, Booked, Opens, Reports, Settled, Informed, Past, Ended
<1>3. QED
  BY <1>1, <1>2 DEF IInv

\* One actor at one pay-in moves, and no other.
LEMMA StepMoves ==
  ASSUME TypeOK, NEW p \in Payin, NEW a \in Actor, NEW from, NEW to \in Steps,
         Step(p, a, from, to)
  PROVE  /\ at' \in [Payin -> [Actor -> Steps]] /\ at[p][a] = from
         /\ \A q \in Payin, b \in Actor :
               at'[q][b] = IF q = p /\ b = a THEN to ELSE at[q][b]
  BY DEF TypeOK, Step, Steps

\* The request of one pay-in moves, and no other.
LEMMA RequestMoves ==
  ASSUME TypeOK, NEW p \in Payin, NEW from, NEW to \in Requests,
         Proceed(p, from, to)
  PROVE  /\ request' \in [Payin -> Requests] /\ request[p] = from
         /\ \A q \in Payin : request'[q] = IF q = p THEN to ELSE request[q]
  BY DEF TypeOK, Proceed, Set, Requests

\* A step that leaves a pay-in's own state alone keeps what is said of it.
LEMMA OwnKept ==
  ASSUME NEW q \in Payin, Own(q),
         status'[q] = status[q], credits'[q] = credits[q], fees'[q] = fees[q],
         order'[q] = order[q], told'[q] = told[q],
         request'[q] = "new" => request[q] = "new",
         \A b \in Actor : at'[q][b] = at[q][b]
  PROVE  Own(q)'
<1>1. InOrder(q)'
  BY DEF Own, InOrder
<1>2. Booked(q)'
  BY DEF Own, Booked, Settled
<1>3. Opens(q)'
  BY DEF Own, Opens
<1>4. Reports(q)'
  BY DEF Own, Reports, Settled, Right
<1>5. QED
  BY <1>1, <1>2, <1>3, <1>4 DEF Own

\* Steps of an actor that leave row, ledger, order and merchant alone: nobody
\* gets past the UPDATE, or opens a transaction on a row that is held.
LEMMA ActorOnly ==
  ASSUME IInv, NEW p \in Payin, NEW a \in Actor, NEW from, NEW to \in Steps,
         Step(p, a, from, to),
         \/ to \notin Informed \/ from \in Informed
         \/ order[p] \in {"paid", "declined"},
         to = "opening" =>
             status[p] = "pending" /\ order[p] = "paid" /\ ~Locked(p),
         to # "dropped", to \in Past => from \in Past,
         event' \in [Payin -> Events],
         crashes' \in 0 .. MaxCrash, errors' \in 0 .. MaxError,
         UNCHANGED <<money, request, order, told>>
  PROVE  IInv'
<1>1. TypeOK /\ \A q \in Payin : Own(q)
  BY DEF IInv
<1>2. UNCHANGED <<status, credits, fees, purses, request, order, told>>
  BY DEF money
<1>3. /\ at' \in [Payin -> [Actor -> Steps]] /\ at[p][a] = from
      /\ \A q \in Payin, b \in Actor :
            at'[q][b] = IF q = p /\ b = a THEN to ELSE at[q][b]
  BY <1>1, StepMoves
<1>4. TypeOK'
  BY <1>1, <1>2, <1>3 DEF TypeOK, Steps, Events
<1>5. ASSUME NEW q \in Payin PROVE Own(q)'
  <2>1. Own(q) /\ Own(p)
    BY <1>1
  <2>2. InOrder(q)'
    BY <1>2, <1>3, <2>1 DEF Own, InOrder
  <2>3. Booked(q)'
    BY <1>2, <2>1 DEF Own, Booked, Settled
  <2>4. Opens(q)'
    BY <1>2, <1>3, <2>1 DEF Own, Opens, Locked
  <2>5. Reports(q)'
    BY <1>2, <1>3, <2>1 DEF Own, Reports, Settled, Right, Past, Ended
  <2>6. QED
    BY <2>2, <2>3, <2>4, <2>5 DEF Own
<1>6. QED
  BY <1>4, <1>5 DEF IInv

-----------------------------------------------------------------------------
(* The steps of the request and of PayOK *)

LEMMA KeptByRequest ==
  ASSUME IInv, NEW p \in Payin, RefusePayin(p) \/ CreateUnanswered(p)
  PROVE  IInv'
<1>1. TypeOK /\ \A q \in Payin : Own(q)
  BY DEF IInv
<1>2. UNCHANGED <<status, credits, fees, purses, order, event, at, told, crashes,
                  errors>>
  BY DEF RefusePayin, CreateUnanswered, money, limits
<1>3. PICK to \in {"refused", "gone"} : request' = Set(request, p, to)
  BY DEF RefusePayin, CreateUnanswered, Proceed
<1>4. TypeOK'
  BY <1>1, <1>2, <1>3 DEF TypeOK, Set
<1>5. ASSUME NEW q \in Payin PROVE Own(q)'
  <2>1. request'[q] = "new" => request[q] = "new"
    BY <1>1, <1>3 DEF TypeOK, Set
  <2>2. QED
    BY <1>1, <1>2, <2>1, OwnKept
<1>6. QED
  BY <1>4, <1>5 DEF IInv

\* The row appears together with the order; nobody can have handled it yet.
LEMMA KeptByCreatePayinOrder ==
  ASSUME IInv, NEW p \in Payin, CreatePayinOrder(p)
  PROVE  IInv'
<1>1. TypeOK /\ \A q \in Payin : Own(q)
  BY DEF IInv
<1>2. UNCHANGED <<credits, fees, purses, event, at, told, crashes, errors>>
  BY DEF CreatePayinOrder, limits
<1>3. /\ request' \in [Payin -> Requests] /\ request[p] = "new"
      /\ \A q \in Payin : request'[q] = IF q = p THEN "await" ELSE request[q]
  <2>1. Proceed(p, "new", "await") /\ "await" \in Requests
    BY DEF CreatePayinOrder, Requests
  <2>2. QED
    BY <1>1, <2>1, RequestMoves
<1>4. /\ status' = [status EXCEPT ![p] = "pending"]
      /\ order' = [order EXCEPT ![p] = "sent"]
  BY DEF CreatePayinOrder, Set
<1>5. TypeOK'
  BY <1>1, <1>2, <1>3, <1>4 DEF TypeOK, Requests
<1>6. ASSUME NEW q \in Payin PROVE Own(q)'
  <2>1. Own(q) /\ Own(p)
    BY <1>1
  <2>2. CASE q # p
    <3>1. /\ status'[q] = status[q] /\ order'[q] = order[q]
          /\ request'[q] = request[q]
      BY <1>1, <1>3, <1>4, <2>2 DEF TypeOK
    <3>2. QED
      BY <1>2, <2>1, <3>1, OwnKept
  <2>3. CASE q = p
    <3>1. /\ status[p] = "none" /\ order[p] = "none"
          /\ \A b \in Actor : at[p][b] \notin Informed
      BY <1>3, <2>1 DEF Own, InOrder
    <3>2. /\ told[p] = <<>> /\ credits[p] = 0 /\ fees[p] <= 0
          /\ \A b \in Actor : at[p][b] \notin Ended
      BY <2>1, <3>1 DEF Own, Reports, Booked, Settled
    <3>3. status'[p] = "pending" /\ order'[p] = "sent" /\ request'[p] = "await"
      BY <1>1, <1>3, <1>4 DEF TypeOK
    <3>4. InOrder(p)'
      BY <1>2, <3>1, <3>3 DEF InOrder
    <3>5. Booked(p)'
      BY <1>2, <3>2, <3>3 DEF Booked, Settled
    <3>6. Opens(p)' /\ Reports(p)'
      BY <1>2, <3>1, <3>2 DEF Opens, Reports, Informed
    <3>7. QED
      BY <2>3, <3>4, <3>5, <3>6 DEF Own
  <2>4. QED
    BY <2>2, <2>3
<1>7. QED
  BY <1>5, <1>6 DEF IInv

\* The UPDATE that fails the row overwrites what it finds, even a success;
\* the entries stay, and nobody finds the row pending again.
LEMMA KeptByCreateAnswered ==
  ASSUME IInv, NEW p \in Payin, CreateAnswered(p)
  PROVE  IInv'
<1>1. TypeOK /\ \A q \in Payin : Own(q)
  BY DEF IInv
<1>2. UNCHANGED <<credits, fees, purses, order, event, at, told, crashes, errors>>
  BY DEF CreateAnswered, limits
<1>3. /\ request' \in [Payin -> Requests]
      /\ \A q \in Payin : request'[q] = IF q = p THEN "done" ELSE request[q]
  <2>1. Proceed(p, "await", "done") /\ "done" \in Requests
    BY DEF CreateAnswered, Requests
  <2>2. QED
    BY <1>1, <2>1, RequestMoves
<1>4. CASE UNCHANGED status
  <2>1. TypeOK'
    BY <1>1, <1>2, <1>3, <1>4 DEF TypeOK, Requests
  <2>2. \A q \in Payin : Own(q)'
    BY <1>1, <1>2, <1>3, <1>4, OwnKept
  <2>3. QED
    BY <2>1, <2>2 DEF IInv
<1>5. CASE ~Locked(p) /\ status' = Set(status, p, "failed")
  <2>1. TypeOK'
    BY <1>1, <1>2, <1>3, <1>5 DEF TypeOK, Requests, Set
  <2>2. ASSUME NEW q \in Payin PROVE Own(q)'
    <3>1. Own(q)
      BY <1>1
    <3>2. status'[q] = IF q = p THEN "failed" ELSE status[q]
      BY <1>1, <1>5 DEF TypeOK, Set
    <3>3. InOrder(q)'
      BY <1>2, <1>3, <3>1, <3>2 DEF Own, InOrder
    <3>4. Booked(q)'
      BY <1>2, <3>1, <3>2 DEF Own, Booked, Settled
    <3>5. Opens(q)'
      BY <1>2, <1>5, <3>1, <3>2 DEF Own, Opens, Locked
    <3>6. Reports(q)'
      BY <1>2, <3>1, <3>2 DEF Own, Reports, Settled, Right
    <3>7. QED
      BY <3>3, <3>4, <3>5, <3>6 DEF Own
  <2>3. QED
    BY <2>1, <2>2 DEF IInv
<1>6. QED
  BY <1>4, <1>5 DEF CreateAnswered

\* Nobody relies on the outcome of an order that is not settled yet.
LEMMA KeptByPayok ==
  ASSUME IInv, NEW p \in Payin, Payok(p)
  PROVE  IInv'
<1>1. TypeOK /\ \A q \in Payin : Own(q)
  BY DEF IInv
<1>2. UNCHANGED <<status, credits, fees, purses, request, event, at, told,
                  crashes, errors>>
  BY DEF Payok, PayokReceives, PayokSettles, money, limits
<1>3. PICK v \in {"open", "refused", "paid", "declined"} :
         order' = [order EXCEPT ![p] = v]
  BY DEF Payok, PayokReceives, PayokSettles, Set
<1>4. order[p] \in {"sent", "open"}
  BY DEF Payok, PayokReceives, PayokSettles
<1>5. TypeOK'
  BY <1>1, <1>2, <1>3 DEF TypeOK
<1>6. ASSUME NEW q \in Payin PROVE Own(q)'
  <2>1. Own(q) /\ Own(p)
    BY <1>1
  <2>2. order'[q] = IF q = p THEN v ELSE order[q]
    BY <1>1, <1>3 DEF TypeOK
  <2>3. CASE q # p
    BY <1>2, <2>1, <2>2, <2>3, OwnKept
  <2>4. CASE q = p
    <3>1. status[p] # "none" /\ \A b \in Actor : at[p][b] \notin Informed
      BY <1>4, <2>1 DEF Own, InOrder
    <3>2. credits[p] \in Nat /\ fees[p] \in Nat
      BY <1>1 DEF TypeOK
    <3>3. credits[p] = 0 /\ status[p] # "success" /\ fees[p] = 0
      BY <1>4, <2>1, <3>2 DEF Own, Booked
    <3>4. Reports(p) /\ \A b \in Actor : at[p][b] \notin Past
      BY <2>1, <3>1 DEF Own, Informed, Past
    <3>5. InOrder(p)' /\ Opens(p)'
      BY <1>2, <2>1, <3>1 DEF Own, InOrder, Opens, Informed
    <3>6. Booked(p)'
      BY <1>2, <3>3 DEF Booked, Settled
    <3>7. Reports(p)'
      BY <1>2, <3>4 DEF Reports, Settled, Right, Ended
    <3>8. QED
      BY <2>4, <3>5, <3>6, <3>7 DEF Own
  <2>5. QED
    BY <2>3, <2>4
<1>7. QED
  BY <1>5, <1>6 DEF IInv

-----------------------------------------------------------------------------
(* The steps of webhook and reconcile *)

LEMMA KeptByHook ==
  ASSUME IInv, NEW p \in Payin, ClaimWebhook(p) \/ MarkProcessed(p)
  PROVE  IInv'
<1>1. TypeOK
  BY DEF IInv
<1>2. /\ crashes' \in 0 .. MaxCrash /\ errors' \in 0 .. MaxError
      /\ UNCHANGED <<money, request, order, told>>
  BY <1>1 DEF TypeOK, ClaimWebhook, MarkProcessed, limits
<1>3. event' \in [Payin -> Events]
  BY <1>1, ZenonT(30) DEF TypeOK, Events, Set, ClaimWebhook, MarkProcessed
<1>4. PICK from \in {"idle", "applied", "ignored"}, to \in Steps :
        /\ Step(p, "hook", from, to)
        /\ \/ to \notin Informed \/ from \in Informed
           \/ order[p] \in {"paid", "declined"}
        /\ to # "opening" /\ to # "dropped"
        /\ to \in Past => from \in Past
  BY DEF ClaimWebhook, MarkProcessed, Steps, Informed, Past
<1>5. "hook" \in Actor
  BY DEF Actor
<1>6. QED
  BY <1>2, <1>3, <1>4, <1>5, ActorOnly

LEMMA KeptByStaff ==
  ASSUME IInv, NEW p \in Payin,
         Reconcile(p) \/ Inquire(p) \/ LookUpDenied(p) \/ StaffIgnored(p)
  PROVE  IInv'
<1>1. TypeOK
  BY DEF IInv
<1>2. /\ crashes' \in 0 .. MaxCrash /\ errors' \in 0 .. MaxError
      /\ event' \in [Payin -> Events]
      /\ UNCHANGED <<money, request, order, told>>
  BY <1>1 DEF TypeOK, Events, Reconcile, Inquire, LookUpDenied, StaffIgnored, limits
<1>3. PICK from \in Steps,
           to \in {"asking", "claimed", "idle", "denied", "deny", "ignored"} :
        /\ Step(p, "staff", from, to)
        /\ to = "claimed" => order[p] \in {"paid", "declined"}
  BY DEF Reconcile, Inquire, LookUpDenied, StaffIgnored, Steps
<1>4. /\ to \in Steps /\ to # "opening" /\ to # "dropped" /\ to \notin Past
      /\ to \in Informed => order[p] \in {"paid", "declined"}
  BY <1>3 DEF Steps, Informed, Past
<1>5. "staff" \in Actor
  BY DEF Actor
<1>6. QED
  BY <1>2, <1>3, <1>4, <1>5, ActorOnly

\* The early read, and the transactions that change nothing yet.
LEMMA KeptByReading ==
  ASSUME IInv, NEW p \in Payin, NEW a \in Actor,
         LookUpPayin(p, a) \/ IgnoreCallback(p, a) \/ FindNoWallet(p, a)
  PROVE  IInv'
<1>1. TypeOK
  BY DEF IInv
<1>2. /\ crashes' \in 0 .. MaxCrash /\ errors' \in 0 .. MaxError
      /\ event' \in [Payin -> Events]
      /\ UNCHANGED <<money, request, order, told>>
  BY <1>1 DEF TypeOK, Events, LookUpPayin, IgnoreCallback, FindNoWallet, limits
<1>3. PICK from \in {"claimed", "read"}, to \in {"read", "ignored", "opening"} :
        /\ Step(p, a, from, to)
        /\ to = "opening" =>
               status[p] = "pending" /\ order[p] = "paid" /\ ~Locked(p)
  BY DEF LookUpPayin, IgnoreCallback, FindNoWallet
<1>4. to \in Steps /\ to # "dropped" /\ to \notin Past /\ from \in Informed
  BY DEF Steps, Informed, Past
<1>5. QED
  BY <1>2, <1>3, <1>4, ActorOnly

\* The fee is taken from a wallet that covers it, or left out.
LEMMA TakeFeeTakes ==
  ASSUME Amounts, NEW p \in Payin, NEW ws \in Seq(Nat), TakeFee(p, ws)
  PROVE  /\ purses' \in Seq(Nat)
         /\ \/ UNCHANGED fees
            \/ fees' = [fees EXCEPT ![p] = @ + 1]
<1>1. PICK w \in 1 .. Len(ws) :
        IF Fee > 0 /\ ws[w] >= Fee
        THEN /\ purses' = [ws EXCEPT ![w] = @ - Fee]
             /\ fees' = [fees EXCEPT ![p] = @ + 1]
        ELSE purses' = ws /\ UNCHANGED fees
  BY DEF TakeFee
<1>2. CASE Fee > 0 /\ ws[w] >= Fee
  <2>1. ws[w] - Fee \in Nat
    BY <1>2 DEF Amounts
  <2>2. QED
    BY <1>1, <1>2, <2>1, ExceptSeq
<1>3. CASE ~(Fee > 0 /\ ws[w] >= Fee)
  <2>1. purses' = ws /\ UNCHANGED fees
    BY <1>1, <1>3, SMTT(30)
  <2>2. QED
    BY <2>1
<1>4. QED
  BY <1>2, <1>3

\* One actor finds the row pending and settles it, with the entries that
\* belong to the outcome; it is the first, and the last.
LEMMA KeptBySettling ==
  ASSUME IInv, NEW p \in Payin, NEW a \in Actor, NEW from \in {"read", "opening"},
         Step(p, a, from, "applied"), status[p] = "pending",
         \A b \in Actor \ {a} : at[p][b] # "opening",
         \/ /\ order[p] = "declined" /\ status' = Set(status, p, "failed")
            /\ UNCHANGED <<credits, fees>>
         \/ /\ order[p] = "paid" /\ status' = Set(status, p, "success")
            /\ Credit(p)
            /\ UNCHANGED fees \/ fees' = [fees EXCEPT ![p] = @ + 1],
         purses' \in Seq(Nat),
         UNCHANGED <<request, order, event, told, limits>>
  PROVE  IInv'
<1>1. TypeOK /\ \A q \in Payin : Own(q)
  BY DEF IInv
<1>2. UNCHANGED <<request, order, event, told, crashes, errors>>
  BY DEF limits
<1>3. /\ at' \in [Payin -> [Actor -> Steps]] /\ at[p][a] = from
      /\ \A q \in Payin, b \in Actor :
            at'[q][b] = IF q = p /\ b = a THEN "applied" ELSE at[q][b]
  <2>1. "applied" \in Steps
    BY DEF Steps
  <2>2. QED
    BY <1>1, <2>1, StepMoves
<1>4. /\ status' \in [Payin -> {"none", "pending", "success", "failed"}]
      /\ \A q \in Payin \ {p} : status'[q] = status[q]
      /\ status'[p] = IF order[p] = "paid" THEN "success" ELSE "failed"
      /\ order[p] \in {"paid", "declined"}
  BY <1>1 DEF TypeOK, Set
<1>5. /\ credits[p] = 0 /\ fees[p] = 0
  <2>1. credits[p] \in Nat /\ fees[p] \in Nat /\ Booked(p)
    BY <1>1 DEF TypeOK, Own
  <2>2. QED
    BY <2>1 DEF Booked, Settled
<1>6. /\ credits' \in [Payin -> Nat]
      /\ \A q \in Payin \ {p} : credits'[q] = credits[q]
      /\ credits'[p] = IF order[p] = "paid" THEN 1 ELSE 0
  <2>1. credits \in [Payin -> Nat]
    BY <1>1 DEF TypeOK
  <2>2. CASE order[p] = "declined" /\ UNCHANGED credits
    BY <1>5, <2>1, <2>2
  <2>3. CASE order[p] = "paid" /\ Credit(p)
    BY <1>5, <2>1, <2>3 DEF Credit
  <2>4. QED
    BY <2>2, <2>3
<1>7. /\ fees' \in [Payin -> Nat]
      /\ \A q \in Payin \ {p} : fees'[q] = fees[q]
      /\ fees'[p] <= IF order[p] = "paid" THEN 1 ELSE 0
  <2>1. fees \in [Payin -> Nat]
    BY <1>1 DEF TypeOK
  <2>2. CASE UNCHANGED fees
    BY <1>5, <2>1, <2>2
  <2>3. CASE order[p] = "paid" /\ fees' = [fees EXCEPT ![p] = @ + 1]
    BY <1>5, <2>1, <2>3
  <2>4. QED
    BY <2>2, <2>3
<1>8. TypeOK'
  BY <1>1, <1>2, <1>3, <1>4, <1>6, <1>7 DEF TypeOK, Steps
<1>9. ASSUME NEW q \in Payin PROVE Own(q)'
  <2>1. Own(q)
    BY <1>1
  <2>2. CASE q # p
    BY <1>2, <1>3, <1>4, <1>6, <1>7, <2>1, <2>2, OwnKept
  <2>3. CASE q = p
    <3>1. InOrder(p)'
      BY <1>2, <1>3, <1>4, <2>1, <2>3 DEF Own, InOrder
    <3>2. Booked(p)'
      BY <1>2, <1>4, <1>6, <1>7 DEF Booked, Settled
    <3>3. Opens(p)'
      BY <1>3 DEF Opens
    <3>4. /\ told[p] = <<>>
          /\ \A b \in Actor : at[p][b] \notin Ended
      BY <2>1, <2>3 DEF Own, Reports, Settled
    <3>5. Settled(p)' /\ Right(p)' /\ told'[p] = <<>>
      BY <1>2, <1>4, <1>6, <3>4 DEF Settled, Right
    <3>6. /\ \A b \in Actor \ {a} : at'[p][b] \notin Ended
          /\ at'[p][a] = "applied"
      BY <1>3, <3>4
    <3>7. Reports(p)'
      BY <3>5, <3>6 DEF Reports
    <3>8. QED
      BY <2>3, <3>1, <3>2, <3>3, <3>7 DEF Own
  <2>4. QED
    BY <2>2, <2>3
<1>10. QED
  BY <1>8, <1>9 DEF IInv

\* The conditional UPDATE of the row: the transaction that finds it pending,
\* with a wallet to lock or with none.
LEMMA KeptByApplying ==
  ASSUME Amounts, IInv, NEW p \in Payin, NEW a \in Actor,
         ApplyCallback(p, a) \/ OpenWallet(p, a)
  PROVE  IInv'
<1>1. TypeOK /\ Own(p)
  BY DEF IInv
<1>2. CASE ApplyCallback(p, a)
  <2>1. /\ Step(p, a, "read", "applied") /\ status[p] = "pending"
        /\ \A b \in Actor : at[p][b] # "opening"
        /\ UNCHANGED <<request, order, event, told, limits>>
    BY <1>2 DEF ApplyCallback, Locked
  <2>2. CASE /\ order[p] = "declined"
             /\ status' = Set(status, p, "failed")
             /\ UNCHANGED <<credits, fees, purses>>
    <3>1. purses' \in Seq(Nat)
      BY <1>1, <2>2 DEF TypeOK
    <3>2. QED
      BY <2>1, <2>2, <3>1, KeptBySettling
  <2>3. CASE /\ order[p] = "paid"
             /\ status' = Set(status, p, "success")
             /\ Credit(p)
             /\ \E w \in DOMAIN purses : TakeFee(p, Credited(purses, w))
    <3>1. purses \in Seq(Nat) /\ Paid \in Nat
      BY <1>1 DEF TypeOK, Amounts
    <3>2. PICK w \in 1 .. Len(purses) : TakeFee(p, Credited(purses, w))
      BY <2>3, <3>1
    <3>3. purses[w] + Paid \in Nat
      BY <3>1
    <3>4. Credited(purses, w) \in Seq(Nat)
      BY <3>1, <3>3, ExceptSeq DEF Credited
    <3>5. /\ purses' \in Seq(Nat)
          /\ UNCHANGED fees \/ fees' = [fees EXCEPT ![p] = @ + 1]
      BY <3>2, <3>4, TakeFeeTakes
    <3>6. QED
      BY <2>1, <2>3, <3>5, KeptBySettling
  <2>4. QED
    BY <1>2, <2>2, <2>3 DEF ApplyCallback
<1>3. CASE OpenWallet(p, a)
  <2>1. /\ Step(p, a, "opening", "applied") /\ Credit(p)
        /\ status' = Set(status, p, "success")
        /\ TakeFee(p, Append(purses, Paid))
        /\ UNCHANGED <<request, order, event, told, limits>>
    BY <1>3 DEF OpenWallet
  <2>2. at[p][a] = "opening"
    BY <2>1 DEF Step
  <2>3. /\ status[p] = "pending" /\ order[p] = "paid"
        /\ \A b \in Actor \ {a} : at[p][b] # "opening"
    BY <1>1, <2>2 DEF Own, Opens
  <2>4. Append(purses, Paid) \in Seq(Nat)
    BY <1>1 DEF TypeOK, Amounts
  <2>5. /\ purses' \in Seq(Nat)
        /\ UNCHANGED fees \/ fees' = [fees EXCEPT ![p] = @ + 1]
    BY <2>1, <2>4, TakeFeeTakes
  <2>6. QED
    BY <2>1, <2>3, <2>5, KeptBySettling
<1>4. QED
  BY <1>2, <1>3

\* The FAIL of an inquiry settles a row that is still pending; nothing was
\* credited to it, and nothing will be.
LEMMA KeptByDenying ==
  ASSUME IInv, NEW p \in Payin, ApplyDenial(p)
  PROVE  IInv'
<1>1. TypeOK /\ \A q \in Payin : Own(q)
  BY DEF IInv
<1>2. UNCHANGED <<credits, fees, purses, request, order, event, told, crashes,
                  errors>>
  BY DEF ApplyDenial, limits
<1>3. "staff" \in Actor
  BY DEF Actor
<1>4. CASE Step(p, "staff", "deny", "ignored") /\ UNCHANGED status
  <2>1. "ignored" \in Steps /\ "ignored" \notin Informed /\ "ignored" \notin Past
    BY DEF Steps, Informed, Past
  <2>2. /\ crashes' \in 0 .. MaxCrash /\ errors' \in 0 .. MaxError
        /\ event' \in [Payin -> Events]
        /\ UNCHANGED <<money, request, order, told>>
    BY <1>1, <1>2, <1>4 DEF TypeOK, Events, money
  <2>3. QED
    BY <1>3, <1>4, <2>1, <2>2, ActorOnly
<1>5. CASE /\ status[p] = "pending" /\ Step(p, "staff", "deny", "dropped")
           /\ status' = Set(status, p, "failed")
  <2>1. /\ at' \in [Payin -> [Actor -> Steps]] /\ at[p]["staff"] = "deny"
        /\ \A q \in Payin, b \in Actor :
              at'[q][b] = IF q = p /\ b = "staff" THEN "dropped" ELSE at[q][b]
    <3>1. "dropped" \in Steps
      BY DEF Steps
    <3>2. QED
      BY <1>1, <1>3, <1>5, <3>1, StepMoves
  <2>2. /\ status' \in [Payin -> {"none", "pending", "success", "failed"}]
        /\ \A q \in Payin : status'[q] = IF q = p THEN "failed" ELSE status[q]
    BY <1>1, <1>5 DEF TypeOK, Set
  <2>3. TypeOK'
    BY <1>1, <1>2, <2>1, <2>2 DEF TypeOK, Steps
  <2>4. \A a \in Actor : at[p][a] # "opening"
    BY DEF ApplyDenial, Locked
  <2>5. ASSUME NEW q \in Payin PROVE Own(q)'
    <3>1. Own(q)
      BY <1>1
    <3>2. CASE q # p
      BY <1>2, <2>1, <2>2, <3>1, <3>2, OwnKept
    <3>3. CASE q = p
      <4>1. InOrder(p)'
        BY <1>2, <1>5, <2>1, <2>2, <3>1, <3>3 DEF Own, InOrder, Informed
      <4>2. credits[p] = 0 /\ Booked(p)'
        BY <1>2, <1>5, <2>2, <3>1, <3>3 DEF Own, Booked, Settled
      <4>3. Opens(p)'
        BY <2>1, <2>4 DEF Opens
      <4>4. told[p] = <<>> /\ \A b \in Actor : at[p][b] \notin Ended
        BY <1>5, <3>1, <3>3 DEF Own, Reports, Settled
      <4>5. Reports(p)'
        BY <1>2, <2>1, <2>2, <4>2, <4>4 DEF Reports, Settled
      <4>6. QED
        BY <3>3, <4>1, <4>2, <4>3, <4>5 DEF Own
    <3>4. QED
      BY <3>2, <3>3
  <2>6. QED
    BY <2>3, <2>5 DEF IInv
<1>6. QED
  BY <1>4, <1>5 DEF ApplyDenial

\* The actor that settled the row reports it, and is then done with it.
LEMMA KeptByTell ==
  ASSUME IInv, NEW p \in Payin, NEW a \in Actor,
         Tell(p, a) \/ (a = "staff" /\ TellDenial(p))
  PROVE  IInv'
<1> DEFINE Verdict == IF credits[p] = 1 THEN "success" ELSE "failed"
<1>1. TypeOK /\ \A q \in Payin : Own(q)
  BY DEF IInv
<1>2. UNCHANGED <<status, credits, fees, purses, request, order, event, crashes,
                  errors>>
  BY DEF Tell, TellDenial, money, limits
<1>3. PICK from \in Ended, to \in {"idle", "done"} :
        /\ Step(p, a, from, to)
        /\ \/ from = "dropped" /\ TellDenial(p)
           \/ from \in Past /\ Tell(p, a)
  BY DEF Tell, TellDenial, Past, Ended
<1>4. /\ at' \in [Payin -> [Actor -> Steps]] /\ at[p][a] = from
      /\ \A q \in Payin, b \in Actor :
            at'[q][b] = IF q = p /\ b = a THEN to ELSE at[q][b]
  <2>1. to \in Steps
    BY DEF Steps
  <2>2. QED
    BY <1>1, <1>3, <2>1, StepMoves
<1>5. /\ told[p] = <<>> /\ Settled(p)
      /\ IF from = "dropped" THEN credits[p] = 0 ELSE Right(p)
      /\ \A b \in Actor \ {a} : at[p][b] \notin Ended
  BY <1>1, <1>4 DEF Own, Reports
<1>6. \/ UNCHANGED told
      \/ told' = [told EXCEPT ![p] = Append(@, Verdict)]
  <2>1. CASE from = "dropped" /\ TellDenial(p)
    BY <1>5, <2>1 DEF TellDenial
  <2>2. CASE from \in Past /\ Tell(p, a)
    <3>1. Verdict = IF order[p] = "paid" THEN "success" ELSE "failed"
      BY <1>5, <2>2 DEF Right, Past
    <3>2. QED
      BY <2>2, <3>1 DEF Tell
  <2>3. QED
    BY <1>3, <2>1, <2>2
<1>7. /\ told' \in [Payin -> Seq({"success", "failed"})]
      /\ \A q \in Payin \ {p} : told'[q] = told[q]
      /\ told'[p] \in {<<>>, <<Verdict>>}
  <2>1. CASE UNCHANGED told
    BY <1>1, <1>5, <2>1 DEF TypeOK
  <2>2. CASE told' = [told EXCEPT ![p] = Append(@, Verdict)]
    <3>1. Append(told[p], Verdict) = <<Verdict>>
      BY <1>5
    <3>2. <<Verdict>> \in Seq({"success", "failed"})
      OBVIOUS
    <3>3. QED
      BY <1>1, <2>2, <3>1, <3>2 DEF TypeOK
  <2>3. QED
    BY <1>6, <2>1, <2>2
<1>8. TypeOK'
  BY <1>1, <1>2, <1>4, <1>7 DEF TypeOK, Steps
<1>9. ASSUME NEW q \in Payin PROVE Own(q)'
  <2>1. Own(q)
    BY <1>1
  <2>2. CASE q # p
    BY <1>2, <1>4, <1>7, <2>1, <2>2, OwnKept
  <2>3. CASE q = p
    <3>1. InOrder(p)'
      BY <1>2, <1>4, <2>1, <2>3 DEF Own, InOrder, Informed
    <3>2. Booked(p)'
      BY <1>2, <2>1, <2>3 DEF Own, Booked, Settled
    <3>3. Opens(p)'
      BY <1>2, <1>4, <2>1, <2>3 DEF Own, Opens
    <3>4. Reports(p)'
      BY <1>2, <1>4, <1>5, <1>7 DEF Reports, Settled, Past, Ended
    <3>5. QED
      BY <2>3, <3>1, <3>2, <3>3, <3>4 DEF Own
  <2>4. QED
    BY <2>2, <2>3
<1>10. QED
  BY <1>8, <1>9 DEF IInv

\* A call that fails or dies gives up its place, and what it had not written.
LEMMA KeptByTrouble ==
  ASSUME Amounts, IInv, NEW p \in Payin, CallFails(p) \/ HandlerDies(p)
  PROVE  IInv'
<1>1. TypeOK /\ \A q \in Payin : Own(q)
  BY DEF IInv
<1>2. /\ UNCHANGED <<status, credits, fees, purses, order, told>>
      /\ UNCHANGED money
  BY DEF CallFails, HandlerDies, money
<1>3. crashes' \in 0 .. MaxCrash /\ errors' \in 0 .. MaxError
  <2>1. crashes \in 0 .. MaxCrash /\ errors \in 0 .. MaxError
    BY <1>1 DEF TypeOK
  <2>2. \/ crashes' = crashes /\ errors < MaxError /\ errors' = errors + 1
        \/ crashes < MaxCrash /\ crashes' = crashes + 1 /\ errors' = errors
    BY DEF CallFails, HandlerDies
  <2>3. QED
    BY <2>1, <2>2 DEF Amounts
<1>4. event' \in [Payin -> Events]
  BY <1>1 DEF CallFails, HandlerDies, TypeOK, Events, Set
<1>5. CASE /\ UNCHANGED request
           /\ \E a \in Actor, from \in Steps, to \in {"idle", "done"} :
                 Step(p, a, from, to)
  <2>1. PICK a \in Actor, from \in Steps, to \in {"idle", "done"} :
           Step(p, a, from, to)
    BY <1>5
  <2>2. /\ to \in Steps /\ to \notin Informed /\ to \notin Past
        /\ to # "opening" /\ to # "dropped"
    BY DEF Steps, Informed, Past
  <2>3. QED
    BY <1>2, <1>3, <1>4, <1>5, <2>1, <2>2, ActorOnly
<1>6. CASE Proceed(p, "await", "gone") /\ UNCHANGED at
  <2>1. "gone" \in Requests
    BY DEF Requests
  <2>2. /\ request' \in [Payin -> Requests]
        /\ \A q \in Payin : request'[q] = IF q = p THEN "gone" ELSE request[q]
    BY <1>1, <1>6, <2>1, RequestMoves
  <2>3. TypeOK'
    BY <1>1, <1>2, <1>3, <1>4, <1>6, <2>2 DEF TypeOK, Requests, Events
  <2>4. \A q \in Payin : Own(q)'
    BY <1>1, <1>2, <1>6, <2>2, OwnKept
  <2>5. QED
    BY <2>3, <2>4 DEF IInv
<1>7. QED
  BY <1>5, <1>6 DEF CallFails, HandlerDies, Actor, Steps

-----------------------------------------------------------------------------
LEMMA NextIInv == Amounts /\ IInv /\ [Next]_vars => IInv'
<1> SUFFICES ASSUME Amounts, IInv, [Next]_vars PROVE IInv'
  OBVIOUS
<1>1. TypeOK /\ \A q \in Payin : Own(q)
  BY DEF IInv
<1>2. CASE UNCHANGED vars
  <2>1. UNCHANGED <<status, credits, fees, purses, request, order, event, at,
                    told, crashes, errors>>
    BY <1>2 DEF vars, money, limits
  <2>2. TypeOK'
    BY <1>1, <2>1 DEF TypeOK
  <2>3. \A q \in Payin : Own(q)'
    BY <1>1, <2>1, OwnKept
  <2>4. QED
    BY <2>2, <2>3 DEF IInv
<1>3. CASE Next
  <2>1. PICK p \in Payin :
          \/ RefusePayin(p) \/ CreatePayinOrder(p) \/ RequestStep(p) \/ Payok(p)
          \/ WebhookStep(p) \/ StaffStep(p) \/ CallFails(p) \/ HandlerDies(p)
    BY <1>3 DEF Next
  <2>2. ASSUME NEW a \in Actor, HandleCallback(p, a) PROVE IInv'
    BY <2>2, KeptByReading, KeptByApplying, KeptByTell DEF HandleCallback
  <2>3. CASE RefusePayin(p) \/ CreatePayinOrder(p) \/ RequestStep(p)
    BY <2>3, KeptByRequest, KeptByCreatePayinOrder, KeptByCreateAnswered
    DEF RequestStep
  <2>4. CASE Payok(p)
    BY <2>4, KeptByPayok
  <2>5. CASE WebhookStep(p)
    BY <2>2, <2>5, KeptByHook DEF WebhookStep, Actor
  <2>6. CASE StaffStep(p)
    BY <2>2, <2>6, KeptByStaff, KeptByDenying, KeptByTell DEF StaffStep, Actor
  <2>7. CASE CallFails(p) \/ HandlerDies(p)
    BY <2>7, KeptByTrouble
  <2>8. QED
    BY <2>1, <2>3, <2>4, <2>5, <2>6, <2>7
<1>4. QED
  BY <1>2, <1>3

\* Row, ledger, order and both actors stay in step, however webhook, reconcile,
\* the answer of the request and failures interleave (the invariant above).
THEOREM InvariantAlways ==
  ASSUME Amounts PROVE Spec => []IInv
<1>1. Init => IInv
  BY InitIInv
<1>2. IInv /\ [Next]_vars => IInv'
  BY NextIInv
<1>3. QED
  BY <1>1, <1>2, PTL DEF Spec

\* What the invariant says of credits and of what the merchant is told.
LEMMA InvariantMeans == IInv => TypeOK /\ CreditedOnce /\ ToldOnce
<1>1. IInv => CreditedOnce
  BY DEF IInv, Own, Booked, CreditedOnce
<1>2. ASSUME IInv, NEW p \in Payin
      PROVE  /\ Len(told[p]) <= 1
             /\ told[p] = <<"success">> => credits[p] = 1
             /\ told[p] = <<"failed">> => credits[p] = 0
  <2>1. Reports(p)
    BY <1>2 DEF IInv, Own
  <2>2. CASE told[p] = <<>>
    BY <2>2
  <2>3. CASE told[p] # <<>>
    <3>1. /\ credits[p] <= 1 /\ credits[p] \in Nat
          /\ told[p] = <<IF credits[p] = 1 THEN "success" ELSE "failed">>
      BY <1>2, <2>1, <2>3 DEF Reports, IInv, Own, Booked, TypeOK
    <3>2. QED
      BY <3>1
  <2>4. QED
    BY <2>2, <2>3
<1>3. IInv => ToldOnce
  BY <1>2 DEF ToldOnce
<1>4. QED
  BY <1>1, <1>3 DEF IInv

\* handlePayinCallback credits a pay-in once, and only what was paid, whether
\* the webhook or the reconcile call comes first, both at once, or again.
THEOREM CreditedOnceAlways ==
  ASSUME Amounts PROVE Spec => []CreditedOnce
  BY InvariantMeans, InvariantAlways, PTL

\* Of webhook and reconcile at most one queues an event for the merchant, and
\* the event says what the ledger says.
THEOREM ToldOnceAlways ==
  ASSUME Amounts PROVE Spec => []ToldOnce
  BY InvariantMeans, InvariantAlways, PTL

-----------------------------------------------------------------------------
(* Terminal statuses *)

\* While the request waits for PayOK's answer nobody can have credited the row,
\* though an inquiry that failed may have failed it.
Awaiting == \A p \in Payin : request[p] = "await" =>
                /\ status[p] \in {"pending", "failed"}
                /\ order[p] \notin {"paid", "declined"}

\* An actor that credits the row was told of an outcome, so the request of that
\* pay-in no longer waits.
LEMMA NextAwaiting ==
  Prompt = FALSE /\ IInv /\ Awaiting /\ [Next]_vars => Awaiting'
<1> SUFFICES ASSUME Prompt = FALSE, IInv, Awaiting, [Next]_vars,
                    NEW q \in Payin, request'[q] = "await"
             PROVE  /\ status'[q] \in {"pending", "failed"}
                    /\ order'[q] \notin {"paid", "declined"}
  BY DEF Awaiting
<1>1. TypeOK /\ Own(q)
  BY DEF IInv
<1>2. CASE UNCHANGED <<status, request, order>>
  BY <1>2 DEF Awaiting
<1>3. ASSUME NEW p \in Payin,
             RefusePayin(p) \/ CreateUnanswered(p) \/ CreateAnswered(p)
      PROVE  request[q] = "await" /\ UNCHANGED <<status[q], order>>
  BY <1>1, <1>3 DEF RefusePayin, CreateUnanswered, CreateAnswered, Proceed, Set,
                    TypeOK, money
<1>4. ASSUME NEW p \in Payin, CreatePayinOrder(p)
      PROVE  \/ q = p /\ status'[q] = "pending" /\ order'[q] = "sent"
             \/ request[q] = "await" /\ UNCHANGED <<status[q], order[q]>>
  BY <1>1, <1>4 DEF CreatePayinOrder, Proceed, Set, TypeOK
<1>5. ASSUME NEW p \in Payin, Payok(p)
      PROVE  /\ UNCHANGED <<status, request>>
             /\ order'[q] = order[q] \/ order'[q] \in {"open", "refused"}
  <2>1. UNCHANGED <<status, request>>
    BY <1>5 DEF Payok, PayokReceives, PayokSettles, money
  <2>2. CASE PayokReceives(p)
    BY <1>1, <2>1, <2>2 DEF PayokReceives, Set, TypeOK
  <2>3. CASE PayokSettles(p)
    <3>1. q # p
      BY <2>1, <2>3 DEF PayokSettles
    <3>2. QED
      BY <1>1, <2>1, <2>3, <3>1 DEF PayokSettles, Set, TypeOK
  <2>4. QED
    BY <1>5, <2>2, <2>3 DEF Payok
<1>6. ASSUME NEW p \in Payin, NEW a \in Actor,
             ApplyCallback(p, a) \/ OpenWallet(p, a)
      PROVE  UNCHANGED <<status[q], request, order>>
  <2>1. UNCHANGED <<request, order>>
    BY <1>6 DEF ApplyCallback, OpenWallet
  <2>2. at[p][a] \in Informed
    BY <1>6 DEF ApplyCallback, OpenWallet, Step, Informed
  <2>3. order[p] \in {"paid", "declined"}
    BY <2>2 DEF IInv, Own, InOrder
  <2>4. q # p
    BY <2>1, <2>3 DEF Awaiting
  <2>5. QED
    BY <1>1, <1>6, <2>1, <2>4 DEF ApplyCallback, OpenWallet, Set, TypeOK
<1>7. ASSUME NEW p \in Payin, CallFails(p) \/ HandlerDies(p)
      PROVE  request[q] = "await" /\ UNCHANGED <<status, order>>
  BY <1>1, <1>7 DEF CallFails, HandlerDies, Proceed, Set, TypeOK, money
<1>8. CASE Next
  <2>1. PICK p \in Payin :
          \/ RefusePayin(p) \/ CreatePayinOrder(p) \/ RequestStep(p) \/ Payok(p)
          \/ WebhookStep(p) \/ StaffStep(p) \/ CallFails(p) \/ HandlerDies(p)
    BY <1>8 DEF Next
  <2>2. CASE RefusePayin(p) \/ RequestStep(p)
    BY <1>3, <2>2 DEF RequestStep, Awaiting
  <2>3. CASE CreatePayinOrder(p)
    BY <1>4, <2>3 DEF Awaiting
  <2>4. CASE Payok(p)
    BY <1>5, <2>4 DEF Awaiting
  <2>5. CASE WebhookStep(p) \/ StaffStep(p)
    <3>1. \/ UNCHANGED <<status, request, order>> \/ ApplyDenial(p)
          \/ \E a \in Actor : ApplyCallback(p, a) \/ OpenWallet(p, a)
      BY <2>5 DEF WebhookStep, StaffStep, HandleCallback, ClaimWebhook,
                  MarkProcessed, Reconcile, Inquire, StaffIgnored, LookUpPayin,
                  IgnoreCallback, FindNoWallet, Tell, LookUpDenied, ApplyDenial,
                  TellDenial, Actor, money
    <3>2. ApplyDenial(p) => \/ UNCHANGED <<status, request, order>>
                            \/ /\ status'[q] = IF q = p THEN "failed" ELSE status[q]
                               /\ UNCHANGED <<request, order>>
      BY <1>1 DEF ApplyDenial, Set, TypeOK
    <3>3. QED
      BY <1>2, <1>6, <3>1, <3>2 DEF Awaiting
  <2>6. CASE CallFails(p) \/ HandlerDies(p)
    BY <1>7, <2>6 DEF Awaiting
  <2>7. QED
    BY <2>1, <2>2, <2>3, <2>4, <2>5, <2>6
<1>9. QED
  BY <1>2, <1>8 DEF vars, money

\* Of all that writes a status only the handler of the answer does not look.
LEMMA NextIsFinal ==
  IInv /\ Awaiting /\ [Next]_vars =>
      [\A p \in Payin : status[p] \in {"success", "failed"}
                            => status'[p] = status[p]]_vars
<1> SUFFICES ASSUME IInv, Awaiting, Next, NEW q \in Payin,
                    status[q] \in {"success", "failed"}
             PROVE  status'[q] = status[q]
  OBVIOUS
<1>1. TypeOK
  BY DEF IInv
<1>2. PICK p \in Payin :
        \/ UNCHANGED status
        \/ CreatePayinOrder(p) \/ CreateAnswered(p) \/ ApplyDenial(p)
        \/ \E a \in Actor : ApplyCallback(p, a) \/ OpenWallet(p, a)
  BY DEF Next, RefusePayin, RequestStep, CreateUnanswered, Payok, PayokReceives,
         PayokSettles, WebhookStep, StaffStep, HandleCallback, ClaimWebhook,
         MarkProcessed, Reconcile, Inquire, StaffIgnored, LookUpPayin,
         IgnoreCallback, FindNoWallet, Tell, LookUpDenied, TellDenial, CallFails,
         HandlerDies, Actor, money
<1>3. CASE UNCHANGED status
  BY <1>3
<1>4. CASE CreatePayinOrder(p)
  <2>1. status[p] = "none"
    BY <1>4 DEF CreatePayinOrder, Proceed, IInv, Own, InOrder
  <2>2. QED
    BY <1>1, <1>4, <2>1 DEF CreatePayinOrder, Set, TypeOK
<1>5. CASE CreateAnswered(p)
  <2>1. status[p] \in {"pending", "failed"}
    BY <1>5 DEF CreateAnswered, Proceed, Awaiting
  <2>2. QED
    BY <1>1, <1>5, <2>1 DEF CreateAnswered, Set, TypeOK
<1>6. ASSUME NEW a \in Actor, ApplyCallback(p, a) \/ OpenWallet(p, a)
      PROVE  status'[q] = status[q]
  <2>1. status[p] = "pending"
    BY <1>6 DEF ApplyCallback, OpenWallet, Step, IInv, Own, Opens
  <2>2. QED
    BY <1>1, <1>6, <2>1 DEF ApplyCallback, OpenWallet, Set, TypeOK
<1>7. CASE ApplyDenial(p)
  BY <1>1, <1>7 DEF ApplyDenial, Set, TypeOK
<1>8. QED
  BY <1>2, <1>3, <1>4, <1>5, <1>6, <1>7

\* A pay-in that succeeded or failed stays so, provided PayOK settles none
\* before createPayinOrder has handled its answer: that handler is the only one
\* whose UPDATE does not ask for a pending row.
THEOREM TerminalIsFinalAlways ==
  ASSUME Amounts, Prompt = FALSE PROVE Spec => TerminalIsFinal
<1>1. Init => Awaiting
  BY DEF Init, Awaiting
<1>2. IInv /\ Awaiting /\ [Next]_vars => Awaiting'
  BY NextAwaiting
<1>3. Spec => []Awaiting
  BY <1>1, <1>2, InvariantAlways, PTL DEF Spec
<1>4. QED
  BY <1>3, NextIsFinal, InvariantAlways, PTL DEF Spec, TerminalIsFinal
-----------------------------------------------------------------------------
(* Sums over finitely many arguments, as AccountsProofs has them too.         *)

\* An interval from one has as many elements as its end says.
LEMMA UpTo ==
  ASSUME NEW n \in Nat
  PROVE  IsFiniteSet(1 .. n) /\ Cardinality(1 .. n) = n
<1>1. 1 \in Int /\ n \in Int
  OBVIOUS
<1>2. IsFiniteSet(1 .. n) /\ Cardinality(1 .. n) = IF 1 > n THEN 0 ELSE n - 1 + 1
  BY <1>1, FS_Interval
<1> QED  BY <1>2

\* A value has as many units as it says.
LEMMA UnitsOfOne ==
  ASSUME NEW x, NEW n \in Nat
  PROVE  IsFiniteSet({x} \X (1 .. n)) /\ Cardinality({x} \X (1 .. n)) = n
<1>1. IsFiniteSet(1 .. n) /\ Cardinality(1 .. n) = n
  BY UpTo
<1>2. IsFiniteSet({x}) /\ Cardinality({x}) = 1
  BY FS_Singleton
<1>3. /\ IsFiniteSet({x} \X (1 .. n))
      /\ Cardinality({x} \X (1 .. n)) = Cardinality({x}) * Cardinality(1 .. n)
  BY <1>1, <1>2, FS_Product
<1> QED  BY <1>1, <1>2, <1>3

\* The sum over a finite set is a natural number.
LEMMA SumNat ==
  ASSUME NEW D, IsFiniteSet(D), NEW f \in [D -> Nat]
  PROVE  IsFiniteSet(Units(f)) /\ SumOf(f) \in Nat
<1> DEFINE h == [x \in D |-> {x} \X (1 .. f[x])]
           T == {h[x] : x \in D}
<1>1. h \in Surjection(D, T)
  BY DEF Surjection
<1>2. IsFiniteSet(T)
  BY <1>1, FS_Surjection
<1>3. \A t \in T : IsFiniteSet(t)
  <2> SUFFICES ASSUME NEW x \in D PROVE IsFiniteSet({x} \X (1 .. f[x]))
    OBVIOUS
  <2>1. f[x] \in Nat
    OBVIOUS
  <2> QED  BY <2>1, UnitsOfOne
<1>4. UNION T = Units(f)
  BY DEF Units
<1> HIDE DEF T
<1>5. IsFiniteSet(Units(f))
  BY <1>2, <1>3, <1>4, FS_UNION
<1> QED  BY <1>5, FS_CardinalityType DEF SumOf

\* With one more argument it grows by its value.
LEMMA SumOfMore ==
  ASSUME NEW D, IsFiniteSet(D), NEW x, x \notin D, NEW E, E = D \cup {x},
         NEW f \in [E -> Nat], NEW g \in [D -> Nat], \A y \in D : g[y] = f[y]
  PROVE  SumOf(f) = SumOf(g) + f[x]
<1> DEFINE n == f[x]
           own == {x} \X (1 .. n)
<1>1. Units(f) = Units(g) \cup own
  BY DEF Units
<1>2. Units(g) \cap own = {}
  BY DEF Units
<1>n. n \in Nat
  OBVIOUS
<1>3. IsFiniteSet(own) /\ Cardinality(own) = n
  <2> HIDE DEF n
  <2> QED  BY <1>n, UnitsOfOne
<1>4. IsFiniteSet(Units(g)) /\ Cardinality(Units(g)) \in Nat
  BY SumNat DEF SumOf
<1> HIDE DEF own, n
<1>5. Cardinality(Units(g) \cup own)
        = Cardinality(Units(g)) + Cardinality(own) - Cardinality(Units(g) \cap own)
  BY <1>3, <1>4, FS_Union
<1>6. Cardinality(Units(g) \cap own) = 0
  BY <1>2, FS_EmptySet
<1>7. Cardinality(Units(f)) = Cardinality(Units(g)) + n
  BY <1>n, <1>1, <1>3, <1>4, <1>5, <1>6
<1> QED  BY <1>7 DEF SumOf, n

\* With another value for one argument it changes by as much.
LEMMA SumOfExcept ==
  ASSUME NEW D, IsFiniteSet(D), NEW f \in [D -> Nat], NEW x \in D, NEW v \in Nat,
         NEW g \in [D -> Nat], g[x] = v, \A y \in D \ {x} : g[y] = f[y]
  PROVE  SumOf(g) + f[x] = SumOf(f) + v
<1> DEFINE E == D \ {x}
           h == [y \in E |-> f[y]]
<1>1. /\ IsFiniteSet(E) /\ x \notin E /\ D = E \cup {x} /\ h \in [E -> Nat]
      /\ (\A y \in E : h[y] = f[y]) /\ (\A y \in E : h[y] = g[y])
  BY FS_Subset
<1> HIDE DEF E, h
<1>2. SumOf(f) = SumOf(h) + f[x]
  BY <1>1, SumOfMore
<1>3. SumOf(g) = SumOf(h) + v
  BY <1>1, SumOfMore
<1>4. SumOf(h) \in Nat /\ f[x] \in Nat
  BY <1>1, SumNat
<1> QED  BY <1>2, <1>3, <1>4

\* The sum of a sequence, with another value at one place, and with one more.
LEMMA SumOfSeq ==
  ASSUME NEW s \in Seq(Nat)
  PROVE  /\ SumOf(s) \in Nat
         /\ \A i \in 1 .. Len(s), v \in Nat :
               /\ [s EXCEPT ![i] = v] \in Seq(Nat)
               /\ SumOf([s EXCEPT ![i] = v]) + s[i] = SumOf(s) + v
         /\ \A v \in Nat : SumOf(Append(s, v)) = SumOf(s) + v
<1>1. IsFiniteSet(1 .. Len(s)) /\ s \in [1 .. Len(s) -> Nat]
  BY LenProperties, UpTo
<1>2. SumOf(s) \in Nat
  BY <1>1, SumNat
<1>3. ASSUME NEW i \in 1 .. Len(s), NEW v \in Nat
      PROVE  /\ [s EXCEPT ![i] = v] \in Seq(Nat)
             /\ SumOf([s EXCEPT ![i] = v]) + s[i] = SumOf(s) + v
  <2> DEFINE t == [s EXCEPT ![i] = v]
             D == 1 .. Len(s)
  <2>1. t \in Seq(Nat)
    BY ExceptSeq
  <2>2. /\ IsFiniteSet(D) /\ s \in [D -> Nat] /\ i \in D /\ v \in Nat
        /\ t \in [D -> Nat] /\ t[i] = v /\ \A y \in D \ {i} : t[y] = s[y]
    BY <1>1
  <2> HIDE DEF t, D
  <2>3. SumOf(t) + s[i] = SumOf(s) + v
    BY ONLY <2>2, SumOfExcept
  <2> QED  BY <2>1, <2>3 DEF t
<1>4. ASSUME NEW v \in Nat PROVE SumOf(Append(s, v)) = SumOf(s) + v
  <2> DEFINE t == Append(s, v)
             n == Len(s) + 1
             D == 1 .. Len(s)
             E == 1 .. Len(t)
  <2>1. /\ t \in Seq(Nat) /\ Len(t) = n /\ t[n] = v
        /\ \A i \in D : t[i] = s[i]
    BY AppendProperties
  <2>2. t \in [E -> Nat] /\ E = D \cup {n} /\ n \notin D
    <3>1. t \in [E -> Nat]
      BY <2>1, LenProperties
    <3> DEFINE k == Len(s)
    <3>2. k \in Nat /\ Len(t) = k + 1
      BY <2>1, LenProperties
    <3> HIDE DEF k, t
    <3>3. 1 .. k + 1 = 1 .. k \cup {k + 1} /\ k + 1 \notin 1 .. k
      BY <3>2
    <3> QED  BY <3>1, <3>2, <3>3 DEF k
  <2>3. IsFiniteSet(D) /\ s \in [D -> Nat]
    BY <1>1
  <2> HIDE DEF t, D, E, n
  <2>4. SumOf(t) = SumOf(s) + t[n]
    <3>1. \A i \in D : s[i] = t[i]
      BY <2>1
    <3> QED  BY ONLY <3>1, <2>2, <2>3, SumOfMore
  <2> QED  BY <2>1, <2>4 DEF t
<1> QED  BY <1>2, <1>3, <1>4

-----------------------------------------------------------------------------
(* What the merchant holds.  The wallets, however many, together hold what     *)
(* was credited less the fees, also where PayOK settled first.                *)

\* What a settled pay-in does to the sums.
Takes(c, f, m) ==
    /\ SumOf(credits') = SumOf(credits) + c /\ SumOf(fees') = SumOf(fees) + f
    /\ SumOf(purses') = SumOf(purses) + m

\* The fee takes from the wallets what it adds to the ledger.
LEMMA FeeTaken ==
  ASSUME Amounts, TypeOK, NEW p \in Payin, NEW ws \in Seq(Nat), TakeFee(p, ws)
  PROVE  \/ SumOf(fees') = SumOf(fees) /\ SumOf(purses') = SumOf(ws)
         \/ SumOf(fees') = SumOf(fees) + 1 /\ SumOf(purses') = SumOf(ws) - Fee
<1>1. PICK w \in 1 .. Len(ws) :
        IF Fee > 0 /\ ws[w] >= Fee
        THEN /\ purses' = [ws EXCEPT ![w] = @ - Fee]
             /\ fees' = [fees EXCEPT ![p] = @ + 1]
        ELSE purses' = ws /\ UNCHANGED fees
  BY DEF TakeFee
<1>2. CASE Fee > 0 /\ ws[w] >= Fee
  <2> DEFINE left == ws[w] - Fee
             more == fees[p] + 1
  <2>1. left \in Nat /\ left + Fee = ws[w] /\ ws[w] \in Nat
    BY <1>2 DEF Amounts
  <2>2. fees \in [Payin -> Nat] /\ more \in Nat
    BY DEF TypeOK
  <2>3. purses' = [ws EXCEPT ![w] = left] /\ fees' = [fees EXCEPT ![p] = more]
    BY <1>1, <1>2
  <2>4. fees' \in [Payin -> Nat] /\ fees'[p] = more /\ \A q \in Payin \ {p} : fees'[q] = fees[q]
    BY <2>2, <2>3
  <2> HIDE DEF left, more
  <2>5. SumOf(purses') + ws[w] = SumOf(ws) + left
    BY <2>1, <2>3, SumOfSeq
  <2>6. purses' \in Seq(Nat)
    BY <2>1, <2>3, SumOfSeq
  <2>7. SumOf(fees') + fees[p] = SumOf(fees) + more
    <3>1. /\ IsFiniteSet(Payin) /\ fees \in [Payin -> Nat] /\ p \in Payin /\ more \in Nat
          /\ fees' \in [Payin -> Nat] /\ fees'[p] = more
          /\ \A q \in Payin \ {p} : fees'[q] = fees[q]
      BY <2>2, <2>4 DEF Amounts
    <3> QED  BY ONLY <3>1, SumOfExcept, SMTT(30)
  <2>8. /\ SumOf(ws) \in Nat /\ SumOf(purses') \in Nat
        /\ SumOf(fees) \in Nat /\ SumOf(fees') \in Nat
    BY <2>2, <2>4, <2>6, SumOfSeq, SumNat DEF Amounts
  <2>9. SumOf(purses') = SumOf(ws) - Fee
    BY <2>1, <2>5, <2>8, SMTT(30) DEF Amounts
  <2>10. SumOf(fees') = SumOf(fees) + 1
    BY <2>2, <2>7, <2>8 DEF more
  <2> QED  BY <2>9, <2>10
<1>3. CASE ~(Fee > 0 /\ ws[w] >= Fee)
  <2>1. purses' = ws /\ fees' = fees
    BY <1>1, <1>3, SMTT(30)
  <2> QED  BY <2>1
<1> QED  BY <1>2, <1>3

\* A pay-in that settles fails and moves nothing, or is credited.
LEMMA SettlingTakes ==
  ASSUME Amounts, IInv, NEW p \in Payin, NEW a \in Actor,
         ApplyCallback(p, a) \/ OpenWallet(p, a)
  PROVE  \/ status' = Set(status, p, "failed") /\ UNCHANGED <<credits, fees, purses>>
         \/ /\ status' = Set(status, p, "success")
            /\ Takes(1, 0, Paid) \/ Takes(1, 1, Paid - Fee)
<1>1. TypeOK /\ purses \in Seq(Nat) /\ credits \in [Payin -> Nat] /\ Paid \in Nat
      /\ IsFiniteSet(Payin) /\ Fee \in Nat
  BY DEF IInv, TypeOK, Amounts
<1>2. ASSUME Credit(p) PROVE SumOf(credits') = SumOf(credits) + 1
  <2> DEFINE more == credits[p] + 1
  <2>1. /\ more \in Nat /\ credits' \in [Payin -> Nat] /\ credits'[p] = more
        /\ \A q \in Payin \ {p} : credits'[q] = credits[q]
    BY <1>1, <1>2 DEF Credit
  <2> HIDE DEF more
  <2>2. SumOf(credits') + credits[p] = SumOf(credits) + more
    BY <1>1, <2>1, SumOfExcept
  <2>3. SumOf(credits) \in Nat /\ SumOf(credits') \in Nat
    BY <1>1, <2>1, SumNat
  <2> QED  BY <1>1, <2>2, <2>3 DEF more
<1>3. ASSUME NEW ws \in Seq(Nat), TakeFee(p, ws), Credit(p),
             SumOf(ws) = SumOf(purses) + Paid
      PROVE  Takes(1, 0, Paid) \/ Takes(1, 1, Paid - Fee)
  <2>1. SumOf(credits') = SumOf(credits) + 1
    BY <1>2, <1>3
  <2>2. \/ SumOf(fees') = SumOf(fees) /\ SumOf(purses') = SumOf(ws)
        \/ SumOf(fees') = SumOf(fees) + 1 /\ SumOf(purses') = SumOf(ws) - Fee
    BY <1>1, <1>3, FeeTaken
  <2>3. SumOf(purses) \in Nat /\ SumOf(fees) \in Nat
    BY <1>1, SumOfSeq, SumNat DEF TypeOK
  <2>4. SumOf(ws) - Fee = SumOf(purses) + (Paid - Fee) /\ SumOf(fees) + 0 = SumOf(fees)
    BY <1>1, <1>3, <2>3
  <2> QED  BY <1>3, <2>1, <2>2, <2>4 DEF Takes
<1>4. ASSUME NEW w \in DOMAIN purses
      PROVE  /\ Credited(purses, w) \in Seq(Nat)
             /\ SumOf(Credited(purses, w)) = SumOf(purses) + Paid
  <2> DEFINE more == purses[w] + Paid
  <2>1. w \in 1 .. Len(purses) /\ purses[w] \in Nat /\ more \in Nat
    BY <1>1, <1>4, LenProperties, ElementOfSeq
  <2>2. Credited(purses, w) = [purses EXCEPT ![w] = more]
    BY DEF Credited
  <2> HIDE DEF more
  <2>3. /\ Credited(purses, w) \in Seq(Nat)
        /\ SumOf(Credited(purses, w)) + purses[w] = SumOf(purses) + more
    <3>1. purses \in Seq(Nat) /\ w \in 1 .. Len(purses) /\ more \in Nat
      BY <1>1, <2>1
    <3>2. /\ [purses EXCEPT ![w] = more] \in Seq(Nat)
          /\ SumOf([purses EXCEPT ![w] = more]) + purses[w] = SumOf(purses) + more
      BY ONLY <3>1, SumOfSeq
    <3> QED  BY <2>2, <3>2
  <2>4. SumOf(purses) \in Nat /\ SumOf(Credited(purses, w)) \in Nat
    BY <1>1, <2>3, SumOfSeq
  <2> QED  BY <1>1, <2>1, <2>3, <2>4, SMTT(30) DEF more
<1>5. CASE ApplyCallback(p, a)
  <2>1. CASE status' = Set(status, p, "failed") /\ UNCHANGED <<credits, fees, purses>>
    BY <2>1
  <2>2. CASE /\ status' = Set(status, p, "success") /\ Credit(p)
             /\ \E w \in DOMAIN purses : TakeFee(p, Credited(purses, w))
    BY <1>3, <1>4, <2>2
  <2> QED  BY <1>5, <2>1, <2>2 DEF ApplyCallback
<1>6. CASE OpenWallet(p, a)
  <2>1. Append(purses, Paid) \in Seq(Nat) /\ SumOf(Append(purses, Paid)) = SumOf(purses) + Paid
    BY <1>1, SumOfSeq
  <2> QED  BY <1>3, <1>6, <2>1 DEF OpenWallet
<1> QED  BY <1>5, <1>6

\* Nothing else moves money, and no other step settles a pay-in that is awaited
\* but the answer of the request and an inquiry that failed.
LEMMA OthersMoveNothing ==
  ASSUME IInv, NEW p \in Payin,
         \/ RefusePayin(p) \/ CreatePayinOrder(p) \/ RequestStep(p) \/ Payok(p)
         \/ WebhookStep(p) \/ StaffStep(p) \/ CallFails(p) \/ HandlerDies(p),
         \A a \in Actor : ~ApplyCallback(p, a) /\ ~OpenWallet(p, a)
  PROVE  /\ UNCHANGED <<credits, fees, purses>>
         /\ \/ UNCHANGED status \/ CreatePayinOrder(p) \/ CreateAnswered(p)
            \/ ApplyDenial(p)
  BY DEF RefusePayin, CreatePayinOrder, RequestStep, CreateAnswered, CreateUnanswered,
         Payok, PayokReceives, PayokSettles, WebhookStep, StaffStep, HandleCallback,
         ClaimWebhook, MarkProcessed, Reconcile, Inquire, StaffIgnored, LookUpPayin,
         IgnoreCallback, FindNoWallet, Tell, LookUpDenied, ApplyDenial, TellDenial,
         CallFails, HandlerDies, Actor, money

\* In the beginning there is nothing, in at most one wallet.
LEMMA SumsInit ==
  ASSUME Amounts, Init
  PROVE  SumOf(purses) = 0 /\ SumOf(credits) = 0 /\ SumOf(fees) = 0
<1>1. ASSUME NEW f, \A x \in DOMAIN f : f[x] = 0 PROVE SumOf(f) = 0
  <2>1. Units(f) = {}
    BY <1>1 DEF Units
  <2> QED  BY <2>1, FS_EmptySet DEF SumOf
<1>2. \A x \in DOMAIN purses : purses[x] = 0
  <2>1. CASE purses = <<>>
    BY <2>1
  <2>2. CASE purses = <<0>>
    BY <2>2
  <2> QED  BY <2>1, <2>2 DEF Init
<1>3. (\A x \in DOMAIN credits : credits[x] = 0) /\ (\A x \in DOMAIN fees : fees[x] = 0)
  BY DEF Init
<1> QED  BY <1>1, <1>2, <1>3

LEMMA PursesInit == Amounts /\ Init => PursesExplained
<1> SUFFICES ASSUME Amounts, Init PROVE PursesExplained
  OBVIOUS
<1>1. Paid * 0 - Fee * 0 = 0
  BY DEF Amounts
<1> QED  BY <1>1, SumsInit DEF PursesExplained

LEMMA PursesNext == Amounts /\ IInv /\ PursesExplained /\ [Next]_vars => PursesExplained'
<1> SUFFICES ASSUME Amounts, IInv, PursesExplained, [Next]_vars PROVE PursesExplained'
  OBVIOUS
<1> DEFINE c == SumOf(credits)
           f == SumOf(fees)
           m == SumOf(purses)
<1>1. c \in Nat /\ f \in Nat /\ m \in Nat /\ Paid \in Nat /\ Fee \in Nat
  BY SumNat, SumOfSeq DEF IInv, TypeOK, Amounts
<1>2. CASE UNCHANGED <<credits, fees, purses>>
  BY <1>2 DEF PursesExplained
<1>3. CASE Takes(1, 0, Paid) \/ Takes(1, 1, Paid - Fee)
  <2>1. m = Paid * c - Fee * f
    BY DEF PursesExplained
  <2>2. \/ c' = c + 1 /\ f' = f + 0 /\ m' = m + Paid
        \/ c' = c + 1 /\ f' = f + 1 /\ m' = m + (Paid - Fee)
    BY <1>3 DEF Takes
  <2> HIDE DEF c, f, m
  <2>3. /\ Paid * (c + 1) = Paid * c + Paid /\ Fee * (f + 1) = Fee * f + Fee
        /\ Paid * c \in Nat /\ Fee * f \in Nat
    BY <1>1
  <2>4. m' = Paid * c' - Fee * f'
    BY <1>1, <2>1, <2>2, <2>3
  <2> QED  BY <2>4 DEF PursesExplained, c, f, m
<1>4. CASE Next
  <2>1. PICK p \in Payin :
          \/ RefusePayin(p) \/ CreatePayinOrder(p) \/ RequestStep(p) \/ Payok(p)
          \/ WebhookStep(p) \/ StaffStep(p) \/ CallFails(p) \/ HandlerDies(p)
    BY <1>4 DEF Next
  <2> QED  BY <1>2, <1>3, <2>1, OthersMoveNothing, SettlingTakes
<1>5. CASE UNCHANGED vars
  BY <1>2, <1>5 DEF vars, money
<1> QED  BY <1>4, <1>5

\* payin.ts: for any number of pay-ins, amounts and fees, and though two first
\* pay-ins each open a wallet, the wallets hold what was credited less the fees.
THEOREM PursesAlwaysExplained ==
  ASSUME Amounts PROVE Spec => []PursesExplained
<1>1. Init => PursesExplained
  BY PursesInit
<1>2. IInv /\ PursesExplained /\ [Next]_vars => PursesExplained'
  BY PursesNext
<1> QED  BY <1>1, <1>2, InvariantAlways, PTL DEF Spec

-----------------------------------------------------------------------------
(* The abstract pay-in *)

\* A status as the abstract pay-in sees it.
Stage(s) == CASE s = "none" -> "none"
              [] s = "pending" -> "awaited"
              [] s = "success" -> "credited"
              [] s = "failed" -> "failed"

\* The status of one pay-in moves as its stage does.
LEMMA StageMoves ==
  ASSUME TypeOK, NEW p \in Payin, NEW from, status[p] = from,
         NEW to \in {"pending", "success", "failed"}, status' = Set(status, p, to)
  PROVE  AsPayinOrder!Become(p, Stage(from), Stage(to))
<1> DEFINE stage == [q \in Payin |-> Stage(status[q])]
<1>1. stage' = [stage EXCEPT ![p] = Stage(to)]
  BY DEF TypeOK, Set
<1>2. stage[p] = Stage(from)
  OBVIOUS
<1> QED  BY <1>1, <1>2 DEF AsPayinOrder!Become, Stage

LEMMA RefinesInit == Amounts /\ Init => AsPayinOrder!Init
<1> SUFFICES ASSUME Amounts, Init PROVE AsPayinOrder!Init
  OBVIOUS
<1>1. SumOf(purses) = 0
  BY SumsInit
<1> QED  BY <1>1 DEF Init, AsPayinOrder!Init

\* Only the UPDATE of handlePayinCallback credits; what fails a pay-in finds it
\* awaited.
LEMMA RefinesNext ==
  Amounts /\ IInv /\ Awaiting /\ [Next]_vars
      => [AsPayinOrder!Next]_(AsPayinOrder!vars)
<1> SUFFICES ASSUME Amounts, IInv, Awaiting, [Next]_vars
             PROVE  AsPayinOrder!Next \/ UNCHANGED AsPayinOrder!vars
  OBVIOUS
<1>1. TypeOK /\ \A q \in Payin : Own(q)
  BY DEF IInv
<1>2. CASE UNCHANGED <<status, purses>>
  BY <1>2 DEF AsPayinOrder!vars
<1>3. ASSUME NEW p \in Payin, NEW a \in Actor, ApplyCallback(p, a) \/ OpenWallet(p, a)
      PROVE  AsPayinOrder!Next
  <2>1. status[p] = "pending"
    BY <1>1, <1>3 DEF ApplyCallback, OpenWallet, Step, Own, Opens
  <2>2. CASE status' = Set(status, p, "failed") /\ UNCHANGED <<credits, fees, purses>>
    <3>1. AsPayinOrder!Become(p, "awaited", "failed")
      BY <1>1, <2>1, <2>2, StageMoves DEF Stage
    <3> QED  BY <2>2, <3>1 DEF AsPayinOrder!Next, AsPayinOrder!Fail
  <2>3. CASE /\ status' = Set(status, p, "success")
             /\ Takes(1, 0, Paid) \/ Takes(1, 1, Paid - Fee)
    <3>1. AsPayinOrder!Become(p, "awaited", "credited")
      BY <1>1, <2>1, <2>3, StageMoves DEF Stage
    <3>2. SumOf(purses) + (Paid - Fee) = SumOf(purses) + Paid - Fee
      BY <1>1, SumOfSeq DEF TypeOK, Amounts
    <3>3. SumOf(purses)' \in {SumOf(purses) + Paid, SumOf(purses) + Paid - Fee}
      BY <2>3, <3>2 DEF Takes
    <3> QED  BY <3>1, <3>3 DEF AsPayinOrder!Next, AsPayinOrder!Credit
  <2> QED  BY <1>3, <2>2, <2>3, SettlingTakes
<1>4. ASSUME NEW p \in Payin, CreatePayinOrder(p), UNCHANGED purses PROVE AsPayinOrder!Next
  <2>1. status[p] = "none" /\ status' = Set(status, p, "pending")
    BY <1>1, <1>4 DEF CreatePayinOrder, Proceed, Own, InOrder
  <2>2. AsPayinOrder!Become(p, "none", "awaited")
    BY <1>1, <2>1, StageMoves DEF Stage
  <2> QED  BY <1>4, <2>2 DEF AsPayinOrder!Next, AsPayinOrder!Await
<1>5. ASSUME NEW p \in Payin, status[p] \in {"pending", "failed"},
             status' = Set(status, p, "failed"), UNCHANGED purses
      PROVE  AsPayinOrder!Next \/ UNCHANGED AsPayinOrder!vars
  <2>1. CASE status[p] = "failed"
    BY <1>1, <1>2, <1>5, <2>1 DEF Set, TypeOK
  <2>2. CASE status[p] = "pending"
    <3>1. AsPayinOrder!Become(p, "awaited", "failed")
      BY <1>1, <1>5, <2>2, StageMoves DEF Stage
    <3> QED  BY <1>5, <3>1 DEF AsPayinOrder!Next, AsPayinOrder!Fail
  <2> QED  BY <1>5, <2>1, <2>2
<1>6. CASE Next
  <2>1. PICK p \in Payin :
          \/ RefusePayin(p) \/ CreatePayinOrder(p) \/ RequestStep(p) \/ Payok(p)
          \/ WebhookStep(p) \/ StaffStep(p) \/ CallFails(p) \/ HandlerDies(p)
    BY <1>6 DEF Next
  <2>2. CASE \E a \in Actor : ApplyCallback(p, a) \/ OpenWallet(p, a)
    BY <1>3, <2>2
  <2>3. CASE \A a \in Actor : ~ApplyCallback(p, a) /\ ~OpenWallet(p, a)
    <3>1. /\ UNCHANGED purses
          /\ \/ UNCHANGED status \/ CreatePayinOrder(p) \/ CreateAnswered(p)
             \/ ApplyDenial(p)
      BY <2>1, <2>3, OthersMoveNothing
    <3>2. CreateAnswered(p) \/ ApplyDenial(p) =>
             \/ UNCHANGED status
             \/ /\ status[p] \in {"pending", "failed"}
                /\ status' = Set(status, p, "failed")
      BY DEF CreateAnswered, Proceed, Awaiting, ApplyDenial
    <3> QED  BY <1>2, <1>4, <1>5, <3>1, <3>2
  <2> QED  BY <2>2, <2>3
<1>7. CASE UNCHANGED vars
  BY <1>2, <1>7 DEF vars, money
<1> QED  BY <1>6, <1>7

\* payin.ts: provided PayOK settles nothing before createPayinOrder has handled
\* its answer, what the merchant holds follows the abstract pay-in: each is
\* awaited, then fails or is credited once, with its fee or without.
THEOREM ImplementsPayinOrderAlways ==
  ASSUME Amounts, Prompt = FALSE PROVE Spec => ImplementsPayinOrder
<1>1. Init => Awaiting
  BY DEF Init, Awaiting
<1>2. IInv /\ Awaiting /\ [Next]_vars => Awaiting'
  BY NextAwaiting
<1>3. Spec => []Awaiting
  BY <1>1, <1>2, InvariantAlways, PTL DEF Spec
<1>4. Init => AsPayinOrder!Init
  BY RefinesInit
<1>5. IInv /\ Awaiting /\ [Next]_vars => [AsPayinOrder!Next]_(AsPayinOrder!vars)
  BY RefinesNext
<1> QED
  BY <1>3, <1>4, <1>5, InvariantAlways, PTL
  DEF Spec, ImplementsPayinOrder, AsPayinOrder!Spec
=============================================================================
