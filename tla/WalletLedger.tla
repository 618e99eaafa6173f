---------------------------- MODULE WalletLedger ----------------------------
(***************************************************************************)
(* The database transactions that move money, at the granularity at which  *)
(* they interleave: one step per wallet row locked, read or written, and   *)
(* one for COMMIT.  PostgreSQL runs them under READ COMMITTED; a row read  *)
(* with SELECT ... FOR UPDATE stays locked until the transaction ends, a   *)
(* row read without it may change before it is written.                    *)
(*                                                                         *)
(* An operation pays from the wallet payer and, when it has two legs, to   *)
(* the wallet payee.  The provider, the transactions row and the HTTP call *)
(* around it are the subject of PayokPayout.                               *)
(***************************************************************************)
EXTENDS Integers

CONSTANTS Session,          \* pooled database connections
          Merchant,         \* wallet ids of type "merchant"
          Customer,         \* wallet ids of type "customer"
          Platform,         \* the platform's wallet id in this currency
          Amount,           \* amounts of operations, in cents
          Fee,              \* fees a schedule may yield; 0 is "no fee"
          Opening,          \* opening balances
          Flow,             \* the kinds of operation that run
          MaxTransactions,  \* bound: transactions begun in a behaviour
          None              \* no session: the row is not locked

Wallet == Merchant \cup Customer \cup {Platform}

ASSUME WalletAssumption ==
    /\ Wallet \subseteq Nat
    /\ Merchant # {}
    /\ Merchant \cap Customer = {}
    /\ Platform \notin Merchant \cup Customer
    /\ Amount \subseteq Nat \ {0}
    /\ Fee \subseteq Nat
    /\ Opening \subseteq Nat
    /\ MaxTransactions \in Nat
    /\ None \notin Session

VARIABLES balance,    \* committed wallets.balance
          posted,     \* committed sum of the wallet's ledger_entries
          lockOwner,  \* session that holds the wallet's row lock
          pc,         \* where each session is in its transaction
          op,         \* the operation each session runs
          draft,      \* balances a session has read or written, uncommitted
          delta,      \* ledger entries a session has inserted, uncommitted
          started     \* transactions begun so far

vars == <<balance, posted, lockOwner, pc, op, draft, delta, started>>

-----------------------------------------------------------------------------
(* Operations *)

\* Flows that read every wallet row they write with FOR UPDATE and check the
\* balance of a wallet before they debit it.
LockedFlow == {"payin", "payout", "refund", "collectFee", "monthly",
               "transfer", "adjust"}

\* Flows that read the wallet row without FOR UPDATE and write it later.
UnlockedFlow == {"tekkoSettle", "approveAdjust"}

Signed == Amount \cup {-a : a \in Amount}

\* A one-wallet operation, or one whose second leg is the platform's fee.
MerchantOperation ==
    [flow : Flow \cap {"payin", "payout", "refund", "collectFee", "monthly",
                       "tekkoSettle"},
     payer : Merchant, payee : {Platform}, amt : Amount, fee : Fee]

\* transferToCustomer and refundToCustomer both pay customer from merchant.
TransferOperation ==
    [flow : Flow \cap {"transfer"},
     payer : Merchant, payee : Customer, amt : Amount, fee : {0}]

\* An administrator credits or debits any wallet.
AdjustOperation ==
    [flow : Flow \cap {"adjust", "approveAdjust"},
     payer : Wallet, payee : {Platform}, amt : Signed, fee : {0}]

\* A pay-in credited to the wrong wallet (payer) is moved to the right one.
CorrectOperation ==
    {o \in [flow : Flow \cap {"correct"},
            payer : Merchant, payee : Merchant, amt : Amount, fee : {0}] :
        o.payer # o.payee}

Operation == MerchantOperation \cup TransferOperation
                \cup AdjustOperation \cup CorrectOperation

NoOperation == [flow |-> "none", payer |-> Platform, payee |-> Platform,
                amt |-> 0, fee |-> 0]

\* transfers.ts sorts the two wallet ids before it locks them.
FirstOf(o) == IF o.payer <= o.payee THEN o.payer ELSE o.payee

-----------------------------------------------------------------------------
(* Steps of a database transaction *)

Zero == [w \in Wallet |-> 0]

At(s, step, flow) == pc[s] = step /\ op[s].flow = flow

Goto(s, step) == pc' = [pc EXCEPT ![s] = step]

\* SELECT ... FOR UPDATE, or the row lock an UPDATE takes.
Lock(s, w) == /\ lockOwner[w] = None
              /\ lockOwner' = [lockOwner EXCEPT ![w] = s]

\* The session reads w's balance, writes it back changed by x and inserts the
\* ledger entry of x; nothing is visible to others before it commits.
Stage(s, w, x) == /\ draft' = [draft EXCEPT ![s][w] = balance[w] + x]
                  /\ delta' = [delta EXCEPT ![s][w] = x]

\* The session has p staged, reads q, and moves x from p to q.
Move(s, p, q, x) ==
    /\ draft' = [draft EXCEPT ![s][p] = draft[s][p] - x,
                              ![s][q] = balance[q] + x]
    /\ delta' = [delta EXCEPT ![s][p] = delta[s][p] - x, ![s][q] = x]

Release(s) == lockOwner' = [w \in Wallet |-> IF lockOwner[w] = s
                                             THEN None ELSE lockOwner[w]]

\* Variant: the transaction's locks and entries are gone, its end is not noted.
EndUnnoticed(s) == /\ Release(s)
                   /\ op' = [op EXCEPT ![s] = NoOperation]
                   /\ draft' = [draft EXCEPT ![s] = Zero]
                   /\ delta' = [delta EXCEPT ![s] = Zero]
                   /\ UNCHANGED <<pc, started>>

\* The transaction is over; the connection returns to the pool.
End(s) == /\ Release(s)
          /\ Goto(s, "idle")
          /\ op' = [op EXCEPT ![s] = NoOperation]
          /\ draft' = [draft EXCEPT ![s] = Zero]
          /\ delta' = [delta EXCEPT ![s] = Zero]
          /\ UNCHANGED started

Rollback(s) == End(s) /\ UNCHANGED <<balance, posted>>

unseen == <<balance, posted, op, started>>

Begin(s) ==
    /\ pc[s] = "idle"
    /\ started < MaxTransactions
    /\ \E o \in Operation : op' = [op EXCEPT ![s] = o]
    /\ Goto(s, "begin")
    /\ started' = started + 1
    /\ UNCHANGED <<balance, posted, lockOwner, draft, delta>>

Commit(s) ==
    /\ pc[s] = "commit"
    /\ balance' = [w \in Wallet |-> IF lockOwner[w] = s
                                    THEN draft[s][w] ELSE balance[w]]
    /\ posted' = [w \in Wallet |-> IF lockOwner[w] = s
                                   THEN posted[w] + delta[s][w] ELSE posted[w]]
    /\ End(s)

\* The process dies, the statement times out, deadlock detection picks this
\* session, or a later check in the transaction throws.
Abort(s) == pc[s] # "idle" /\ Rollback(s)

-----------------------------------------------------------------------------
(* Pay-in, payout and fees *)

\* applyFeeWithTx skips the fee, without an error, when there is none to take
\* or the wallet cannot pay it; otherwise it goes on to lock the platform.
FeeStep(s, available) ==
    IF 0 < op[s].fee /\ op[s].fee <= available THEN "fee" ELSE "commit"

\* Variant: the wallet is read without FOR UPDATE.
CreditPayinUnlocked(s) ==
    /\ At(s, "begin", "payin")
    /\ Stage(s, op[s].payer, op[s].amt)
    /\ Goto(s, "write")
    /\ UNCHANGED <<unseen, lockOwner>>

\* A successful pay-in credits the merchant, then takes its fee.
CreditPayin(s) ==
    LET w == op[s].payer IN
    /\ At(s, "begin", "payin")
    /\ Lock(s, w)
    /\ Stage(s, w, op[s].amt)
    /\ Goto(s, FeeStep(s, balance[w] + op[s].amt))
    /\ UNCHANGED unseen

\* Variant: no comparison with the balance.
DebitPayoutUnchecked(s) ==
    /\ At(s, "begin", "payout")
    /\ Lock(s, op[s].payer)
    /\ Stage(s, op[s].payer, -op[s].amt)
    /\ Goto(s, "commit")
    /\ UNCHANGED unseen

\* The balance must cover amount and fee, but only the amount is debited.
DebitPayout(s) ==
    LET w == op[s].payer IN
    /\ At(s, "begin", "payout")
    /\ \/ /\ balance[w] >= op[s].amt + op[s].fee
          /\ Lock(s, w)
          /\ Stage(s, w, -op[s].amt)
          /\ Goto(s, "commit")
          /\ UNCHANGED unseen
       \/ /\ balance[w] < op[s].amt + op[s].fee
          /\ lockOwner[w] = None
          /\ Rollback(s)

RefundPayout(s) ==
    /\ At(s, "begin", "refund")
    /\ Lock(s, op[s].payer)
    /\ Stage(s, op[s].payer, op[s].amt)
    /\ Goto(s, "commit")
    /\ UNCHANGED unseen

\* Payout success: the fee is taken when the provider confirms.
CollectPayoutFee(s) ==
    LET w == op[s].payer IN
    /\ At(s, "begin", "collectFee")
    /\ Lock(s, w)
    /\ Stage(s, w, 0)
    /\ Goto(s, FeeStep(s, balance[w]))
    /\ UNCHANGED unseen

\* Variant: the platform's leg of the fee is left out.
ApplyFeeDebitOnly(s) ==
    /\ pc[s] = "fee"
    /\ Lock(s, Platform)
    /\ draft' = [draft EXCEPT ![s][op[s].payer] = @ - op[s].fee]
    /\ delta' = [delta EXCEPT ![s][op[s].payer] = @ - op[s].fee]
    /\ Goto(s, "commit")
    /\ UNCHANGED unseen

\* The second half of applyFeeWithTx: the platform row is locked after the
\* merchant's, whatever their ids, and both legs are posted.
ApplyFee(s) ==
    /\ pc[s] = "fee"
    /\ Lock(s, Platform)
    /\ Move(s, op[s].payer, Platform, op[s].fee)
    /\ Goto(s, "commit")
    /\ UNCHANGED unseen

-----------------------------------------------------------------------------
(* Monthly billing *)

LockBilledMerchant(s) ==
    LET w == op[s].payer IN
    /\ At(s, "begin", "monthly")
    /\ \/ /\ balance[w] >= op[s].amt
          /\ Lock(s, w)
          /\ Stage(s, w, 0)
          /\ Goto(s, "bill")
          /\ UNCHANGED unseen
       \/ /\ balance[w] < op[s].amt
          /\ lockOwner[w] = None
          /\ Rollback(s)

PostMonthlyFee(s) ==
    /\ pc[s] = "bill"
    /\ Lock(s, Platform)
    /\ Move(s, op[s].payer, Platform, op[s].amt)
    /\ Goto(s, "commit")
    /\ UNCHANGED unseen

-----------------------------------------------------------------------------
(* Transfers between a merchant and a customer of his *)

\* Variant: the rows are locked in the order the query happens to return them.
LockEitherWallet(s) ==
    \E w \in {op[s].payer, op[s].payee} :
        /\ At(s, "begin", "transfer")
        /\ Lock(s, w)
        /\ Stage(s, w, 0)
        /\ Goto(s, "second")
        /\ UNCHANGED unseen

LockFirstWallet(s) ==
    /\ At(s, "begin", "transfer")
    /\ Lock(s, FirstOf(op[s]))
    /\ Stage(s, FirstOf(op[s]), 0)
    /\ Goto(s, "second")
    /\ UNCHANGED unseen

\* The wallet of a two-wallet operation that s has not locked yet.
SecondWallet(s) == IF lockOwner[op[s].payer] = s THEN op[s].payee
                                                 ELSE op[s].payer

\* With both rows locked the merchant's balance is checked and both legs are
\* posted; the customer's leg is the second one when the merchant's id is lower.
PostTransfer(s) ==
    LET from == op[s].payer
        to   == op[s].payee
        second == SecondWallet(s)
        available == IF second = to THEN draft[s][from] ELSE balance[from]
    IN  /\ pc[s] = "second"
        /\ \/ /\ available >= op[s].amt
              /\ Lock(s, second)
              /\ IF second = to THEN Move(s, from, to, op[s].amt)
                                ELSE Move(s, to, from, -op[s].amt)
              /\ Goto(s, "commit")
              /\ UNCHANGED unseen
           \/ /\ available < op[s].amt
              /\ lockOwner[second] = None
              /\ Rollback(s)

-----------------------------------------------------------------------------
(* Administrator adjustments, Tekko settlement, pay-in correction *)

\* A direct adjustment by an administrator locks the row it adjusts.
AdjustWallet(s) ==
    LET w == op[s].payer IN
    /\ At(s, "begin", "adjust")
    /\ \/ /\ balance[w] + op[s].amt >= 0
          /\ Lock(s, w)
          /\ Stage(s, w, op[s].amt)
          /\ Goto(s, "commit")
          /\ UNCHANGED unseen
       \/ /\ balance[w] + op[s].amt < 0
          /\ lockOwner[w] = None
          /\ Rollback(s)

\* An approved adjustment reads the row without FOR UPDATE.
ApproveAdjustment(s) ==
    LET w == op[s].payer IN
    /\ At(s, "begin", "approveAdjust")
    /\ \/ /\ balance[w] + op[s].amt >= 0
          /\ Stage(s, w, op[s].amt)
          /\ Goto(s, "write")
          /\ UNCHANGED <<unseen, lockOwner>>
       \/ /\ balance[w] + op[s].amt < 0
          /\ Rollback(s)

\* So do the settlements of the Tekko rails.
SettleTekkoPayin(s) ==
    /\ At(s, "begin", "tekkoSettle")
    /\ Stage(s, op[s].payer, op[s].amt)
    /\ Goto(s, "write")
    /\ UNCHANGED <<unseen, lockOwner>>

\* The UPDATE that follows waits for the row and writes the balance computed
\* from the earlier read.
WriteUnlockedRead(s) ==
    /\ pc[s] = "write"
    /\ Lock(s, op[s].payer)
    /\ Goto(s, "commit")
    /\ UNCHANGED <<unseen, draft, delta>>

LockCreditedWallet(s) ==
    /\ At(s, "begin", "correct")
    /\ Lock(s, op[s].payer)
    /\ Stage(s, op[s].payer, 0)
    /\ Goto(s, "target")
    /\ UNCHANGED unseen

\* Variant: the wrong credit is taken back without a ledger entry.
PostCorrectionUnrecorded(s) ==
    LET from == op[s].payer
        to   == op[s].payee
    IN  /\ pc[s] = "target"
        /\ Lock(s, to)
        /\ draft' = [draft EXCEPT ![s][from] = draft[s][from] - op[s].amt,
                                  ![s][to] = balance[to] + op[s].amt]
        /\ delta' = [delta EXCEPT ![s][to] = op[s].amt]
        /\ Goto(s, "commit")
        /\ UNCHANGED unseen

\* repairMisCreditedPayinWallet checks no balance.
PostCorrection(s) ==
    /\ pc[s] = "target"
    /\ Lock(s, op[s].payee)
    /\ Move(s, op[s].payer, op[s].payee, op[s].amt)
    /\ Goto(s, "commit")
    /\ UNCHANGED unseen

-----------------------------------------------------------------------------
Init ==
    /\ balance \in [Wallet -> Opening]
    /\ posted = balance
    /\ lockOwner = [w \in Wallet |-> None]
    /\ pc = [s \in Session |-> "idle"]
    /\ op = [s \in Session |-> NoOperation]
    /\ draft = [s \in Session |-> Zero]
    /\ delta = [s \in Session |-> Zero]
    /\ started = 0

\* What a session does inside its transaction, of its own accord.
Step(s) ==
    \/ CreditPayin(s) \/ DebitPayout(s) \/ RefundPayout(s)
    \/ CollectPayoutFee(s) \/ ApplyFee(s)
    \/ LockBilledMerchant(s) \/ PostMonthlyFee(s)
    \/ LockFirstWallet(s) \/ PostTransfer(s)
    \/ AdjustWallet(s) \/ ApproveAdjustment(s) \/ SettleTekkoPayin(s)
    \/ WriteUnlockedRead(s)
    \/ LockCreditedWallet(s) \/ PostCorrection(s)
    \/ Commit(s)

Next == \E s \in Session : Begin(s) \/ Step(s) \/ Abort(s)

Spec == Init /\ [][Next]_vars

-----------------------------------------------------------------------------
(* Properties *)

Steps == {"idle", "begin", "fee", "bill", "second", "write", "target",
          "commit"}

\* Every variable has its type, and a running session runs an operation.
TypeOK ==
    /\ balance \in [Wallet -> Int]
    /\ posted \in [Wallet -> Int]
    /\ lockOwner \in [Wallet -> Session \cup {None}]
    /\ pc \in [Session -> Steps]
    /\ op \in [Session -> Operation \cup {NoOperation}]
    /\ draft \in [Session -> [Wallet -> Int]]
    /\ delta \in [Session -> [Wallet -> Int]]
    /\ started \in 0 .. MaxTransactions
    /\ \A s \in Session : pc[s] # "idle" => op[s] \in Operation

\* The stored balance of a wallet is the sum of its ledger entries: no
\* concurrent operation ever overwrites another's balance update.
BalanceMatchesLedger == \A w \in Wallet : balance[w] = posted[w]

\* No sequence of concurrent debits, fees and charges overdraws a wallet.
NoOverdraft == \A w \in Wallet : balance[w] >= 0

\* Until it ends, a transaction computes with the balances that are stored:
\* what it will write to a row it holds is the row's balance now plus the
\* ledger entries it has inserted for it.
LockedRowsCurrent ==
    \A s \in Session, w \in Wallet :
        lockOwner[w] = s => draft[s][w] = balance[w] + delta[s][w]

\* The row each session is to lock next, as a set of at most one row.
Wanted(s) ==
    LET o == op[s] IN
    {w \in Wallet :
        \/ /\ pc[s] = "begin"
           /\ o.flow \notin UnlockedFlow
           /\ w = IF o.flow = "transfer" THEN FirstOf(o) ELSE o.payer
        \/ pc[s] \in {"fee", "bill"} /\ w = Platform
        \/ pc[s] = "second" /\ w = SecondWallet(s)
        \/ pc[s] = "target" /\ w = o.payee
        \/ pc[s] = "write" /\ w = o.payer}

WaitsFor(s, t) == \E w \in Wanted(s) : lockOwner[w] = t

\* No group of sessions waits for each other: the order in which the flows
\* lock wallet rows never needs PostgreSQL's deadlock detection.
NoWaitCycle ==
    \A group \in (SUBSET Session) \ {{}} :
        \E s \in group : \A t \in group : ~WaitsFor(s, t)

\* docs/MONEY_INVARIANTS.md: a flow that touches two wallets locks the one with
\* the lowest id first.  The code does not keep this rule: a fee locks the
\* platform's wallet last whatever its id is, and no run checks it.  NoWaitCycle
\* says what the rule is for.
LowestIdFirst ==
    \A s \in Session : \A held \in Wallet :
        lockOwner[held] = s => \A w \in Wanted(s) : held < w

\* What every concurrent execution of these transactions amounts to.
AsLedger == INSTANCE Ledger WITH
    External <- Signed \cup {0},
    Internal <- Amount \cup Fee \cup {0},
    book <- balance,
    journal <- posted

\* Each step is one atomic posting of the abstract ledger, or changes nothing.
ImplementsLedger == AsLedger!Spec
=============================================================================
