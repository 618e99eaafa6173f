------------------------- MODULE WalletLedgerProofs -------------------------
(***************************************************************************)
(* What the money transactions guarantee for every set of sessions,        *)
(* wallets, amounts and fees, when all flows lock the rows they read.      *)
(***************************************************************************)
EXTENDS MCWalletLedger, FiniteSetTheorems, TLAPS

\* Wallets are numbers, amounts and fees natural numbers, None no session.
LEMMA ConstantTypes ==
    /\ \A w \in Wallet : w \in Nat
    /\ \A w \in Merchant : w \in Wallet /\ w \notin Customer /\ w # Platform
    /\ \A w \in Customer : w \in Wallet
    /\ Platform \in Wallet
    /\ \A a \in Amount : a \in Nat
    /\ \A f \in Fee : f \in Nat
    /\ \A b \in Opening : b \in Nat
    /\ None \notin Session
    /\ MaxTransactions \in Nat
BY Zenon, WalletAssumption DEF Wallet

\* What an operation is made of, whatever flow it belongs to.
LEMMA OperationFields ==
    ASSUME NEW o \in Operation
    PROVE  /\ o.flow \in Flow
           /\ o.payer \in Wallet /\ o.payee \in Wallet
           /\ o.amt \in Int /\ o.fee \in Nat
<1>1. CASE o \in MerchantOperation
  <2>1. /\ o.flow \in Flow /\ o.payer \in Merchant /\ o.payee = Platform
        /\ o.amt \in Amount /\ o.fee \in Fee
    BY <1>1 DEF MerchantOperation
  <2> QED  BY <2>1, ConstantTypes
<1>2. CASE o \in TransferOperation
  <2>1. /\ o.flow \in Flow /\ o.payer \in Merchant /\ o.payee \in Customer
        /\ o.amt \in Amount /\ o.fee = 0
    BY <1>2 DEF TransferOperation
  <2> QED  BY <2>1, ConstantTypes
<1>3. CASE o \in AdjustOperation
  <2>1. /\ o.flow \in Flow /\ o.payer \in Wallet /\ o.payee = Platform
        /\ o.amt \in Signed /\ o.fee = 0
    BY <1>3 DEF AdjustOperation
  <2>2. ASSUME NEW x \in Signed PROVE x \in Int
    BY ConstantTypes DEF Signed
  <2> QED  BY <2>1, <2>2, ConstantTypes
<1>4. CASE o \in CorrectOperation
  <2>1. /\ o.flow \in Flow /\ o.payer \in Merchant /\ o.payee \in Merchant
        /\ o.amt \in Amount /\ o.fee = 0
    BY <1>4 DEF CorrectOperation
  <2> QED  BY <2>1, ConstantTypes
<1> QED  BY <1>1, <1>2, <1>3, <1>4 DEF Operation

\* The fee and charge flows pay the platform from a merchant's wallet.
LEMMA MerchantFields ==
    ASSUME NEW o \in Operation,
           o.flow \in {"payin", "payout", "refund", "collectFee", "monthly"}
    PROVE  /\ o.payer \in Merchant /\ o.payee = Platform
           /\ o.amt \in Amount /\ o.fee \in Fee
BY DEF Operation, MerchantOperation, TransferOperation, AdjustOperation,
       CorrectOperation

\* A transfer pays a customer's wallet from a merchant's.
LEMMA TransferFields ==
    ASSUME NEW o \in Operation, o.flow = "transfer"
    PROVE  o.payer \in Merchant /\ o.payee \in Customer /\ o.amt \in Amount
BY DEF Operation, MerchantOperation, TransferOperation, AdjustOperation,
       CorrectOperation

-----------------------------------------------------------------------------
(* Type correctness *)

\* The running operation of a session and its fields.
LEMMA RunningOperation ==
    ASSUME TypeOK, NEW s \in Session, pc[s] # "idle"
    PROVE  /\ op[s] \in Operation
           /\ op[s].payer \in Wallet /\ op[s].payee \in Wallet
           /\ op[s].amt \in Int /\ op[s].fee \in Int
           /\ FirstOf(op[s]) \in Wallet /\ SecondWallet(s) \in Wallet
<1>1. op[s] \in Operation
  BY DEF TypeOK
<1> QED  BY <1>1, OperationFields DEF FirstOf, SecondWallet

\* The steps that move a session on keep its place, its operation and its
\* locks well typed.
LEMMA GotoType ==
    ASSUME TypeOK, NEW s \in Session, NEW step \in Steps, Goto(s, step)
    PROVE  pc' \in [Session -> Steps]
BY DEF TypeOK, Goto

\* Taking a row lock keeps the locks well typed.
LEMMA LockType ==
    ASSUME TypeOK, NEW s \in Session, NEW w \in Wallet, Lock(s, w)
    PROVE  lockOwner' \in [Wallet -> Session \cup {None}]
BY DEF TypeOK, Lock

\* Staging a balance and its ledger entry keeps the staged rows well typed.
LEMMA StageType ==
    ASSUME TypeOK, NEW s \in Session, NEW w \in Wallet, NEW x \in Int,
           Stage(s, w, x)
    PROVE  /\ draft' \in [Session -> [Wallet -> Int]]
           /\ delta' \in [Session -> [Wallet -> Int]]
BY DEF TypeOK, Stage

\* Staging both sides of a transfer keeps the staged rows well typed.
LEMMA MoveType ==
    ASSUME TypeOK, NEW s \in Session, NEW p \in Wallet, NEW q \in Wallet,
           NEW x \in Int, Move(s, p, q, x)
    PROVE  /\ draft' \in [Session -> [Wallet -> Int]]
           /\ delta' \in [Session -> [Wallet -> Int]]
BY DEF TypeOK, Move

\* A session that keeps its operation and goes on stays well typed.
LEMMA StepType ==
    ASSUME TypeOK, NEW s \in Session, NEW step \in Steps,
           pc[s] # "idle", Goto(s, step), UNCHANGED unseen,
           lockOwner' \in [Wallet -> Session \cup {None}],
           draft' \in [Session -> [Wallet -> Int]],
           delta' \in [Session -> [Wallet -> Int]]
    PROVE  TypeOK'
<1>1. \A t \in Session : pc'[t] # "idle" => op'[t] \in Operation
  BY DEF TypeOK, Goto, unseen
<1> QED  BY <1>1, GotoType DEF TypeOK, unseen

\* The end of a transaction leaves everything but the balances well typed.
LEMMA EndType ==
    ASSUME TypeOK, NEW s \in Session, End(s),
           balance' \in [Wallet -> Int], posted' \in [Wallet -> Int]
    PROVE  TypeOK'
<1>1. pc' \in [Session -> Steps]
  BY GotoType DEF End, Steps
<1>2. lockOwner' \in [Wallet -> Session \cup {None}]
  BY DEF TypeOK, End, Release
<1>3. /\ draft' \in [Session -> [Wallet -> Int]]
      /\ delta' \in [Session -> [Wallet -> Int]]
  BY DEF TypeOK, End, Zero
<1>4. op' \in [Session -> Operation \cup {NoOperation}]
  BY DEF TypeOK, End
<1>5. \A t \in Session : pc'[t] # "idle" => op'[t] \in Operation
  BY DEF TypeOK, End, Goto
<1> QED  BY <1>1, <1>2, <1>3, <1>4, <1>5 DEF TypeOK, End

\* A rollback leaves every variable well typed.
LEMMA RollbackType ==
    ASSUME TypeOK, NEW s \in Session, Rollback(s)
    PROVE  TypeOK'
BY EndType DEF Rollback, TypeOK

\* One step of a session leaves every variable well typed.
LEMMA TypeStep ==
    ASSUME TypeOK, NEW s \in Session, Begin(s) \/ Step(s) \/ Abort(s)
    PROVE  TypeOK'
<1> USE RunningOperation, ConstantTypes
<1> USE DEF At
<1>a. /\ lockOwner \in [Wallet -> Session \cup {None}]
      /\ balance \in [Wallet -> Int] /\ posted \in [Wallet -> Int]
      /\ draft \in [Session -> [Wallet -> Int]]
      /\ delta \in [Session -> [Wallet -> Int]]
  BY DEF TypeOK
<1>1. CASE Begin(s)
  <2>1. pc' \in [Session -> Steps]
    BY <1>1, GotoType DEF Begin, Steps
  <2>2. op' \in [Session -> Operation \cup {NoOperation}]
    BY <1>1 DEF Begin, TypeOK
  <2>3. \A t \in Session : pc'[t] # "idle" => op'[t] \in Operation
    BY <1>1 DEF Begin, Goto, TypeOK
  <2>4. started' \in 0 .. MaxTransactions
    BY <1>1 DEF Begin, TypeOK
  <2> QED  BY <1>1, <2>1, <2>2, <2>3, <2>4 DEF Begin, TypeOK
<1>2. CASE CreditPayin(s)
  <2>1. Goto(s, "fee") \/ Goto(s, "commit")
    BY <1>2 DEF CreditPayin, FeeStep
  <2> QED  BY <1>2, <2>1, LockType, StageType, StepType DEF CreditPayin, Steps
<1>3. CASE DebitPayout(s)
  <2>1. -op[s].amt \in Int
    BY <1>3 DEF DebitPayout
  <2> QED  BY <1>3, <2>1, LockType, StageType, StepType, RollbackType
           DEF DebitPayout, Steps
<1>4. CASE RefundPayout(s)
  BY <1>4, LockType, StageType, StepType DEF RefundPayout, Steps
<1>5. CASE CollectPayoutFee(s)
  <2>1. Goto(s, "fee") \/ Goto(s, "commit")
    BY <1>5 DEF CollectPayoutFee, FeeStep
  <2> QED  BY <1>5, <2>1, LockType, StageType, StepType
           DEF CollectPayoutFee, Steps
<1>6. CASE ApplyFee(s)
  BY <1>6, LockType, MoveType, StepType DEF ApplyFee, Steps
<1>7. CASE LockBilledMerchant(s)
  BY <1>7, LockType, StageType, StepType, RollbackType
  DEF LockBilledMerchant, Steps
<1>8. CASE PostMonthlyFee(s)
  BY <1>8, LockType, MoveType, StepType DEF PostMonthlyFee, Steps
<1>9. CASE LockFirstWallet(s)
  BY <1>9, LockType, StageType, StepType DEF LockFirstWallet, Steps
<1>10. CASE PostTransfer(s)
  <2>1. /\ op[s].payer \in Wallet /\ op[s].payee \in Wallet
        /\ op[s].amt \in Int /\ -op[s].amt \in Int
        /\ SecondWallet(s) \in Wallet
    BY <1>10 DEF PostTransfer
  <2> QED  BY <1>10, <2>1, LockType, MoveType, StepType, RollbackType
           DEF PostTransfer, Steps
<1>11. CASE AdjustWallet(s)
  BY <1>11, LockType, StageType, StepType, RollbackType
  DEF AdjustWallet, Steps
<1>12. CASE ApproveAdjustment(s)
  BY <1>12, <1>a, StageType, StepType, RollbackType
  DEF ApproveAdjustment, Steps
<1>13. CASE SettleTekkoPayin(s)
  BY <1>13, <1>a, StageType, StepType DEF SettleTekkoPayin, Steps
<1>14. CASE WriteUnlockedRead(s)
  BY <1>14, <1>a, LockType, StepType DEF WriteUnlockedRead, Steps
<1>15. CASE LockCreditedWallet(s)
  BY <1>15, LockType, StageType, StepType DEF LockCreditedWallet, Steps
<1>16. CASE PostCorrection(s)
  BY <1>16, LockType, MoveType, StepType DEF PostCorrection, Steps
<1>17. CASE Commit(s)
  <2>1. balance' \in [Wallet -> Int] /\ posted' \in [Wallet -> Int]
    BY <1>17, <1>a DEF Commit
  <2> QED  BY <1>17, <2>1, EndType DEF Commit
<1>18. CASE Abort(s)
  BY <1>18, RollbackType DEF Abort
<1> QED  BY <1>1, <1>2, <1>3, <1>4, <1>5, <1>6, <1>7, <1>8, <1>9, <1>10,
            <1>11, <1>12, <1>13, <1>14, <1>15, <1>16, <1>17, <1>18 DEF Step

\* In every behaviour of any mix of flows the variables keep their types and a
\* session inside a transaction has an operation to run.
THEOREM TypeCorrect == Spec => []TypeOK
<1>1. Init => TypeOK
  BY ConstantTypes DEF Init, TypeOK, Steps, Zero
<1>2. TypeOK /\ [Next]_vars => TypeOK'
  <2>1. TypeOK /\ Next => TypeOK'
    BY TypeStep DEF Next
  <2>2. TypeOK /\ UNCHANGED vars => TypeOK'
    BY DEF TypeOK, vars
  <2> QED  BY <2>1, <2>2
<1> QED  BY <1>1, <1>2, PTL DEF Spec

-----------------------------------------------------------------------------
(* The inductive invariant *)

\* What session s adds to the ledger of wallet w when it commits.
Due(s, w) == IF lockOwner[w] = s THEN delta[s][w] ELSE 0

\* The commit of s is one posting of the abstract ledger: x from outside on w,
\* and m moved from w to v.
OnePosting(s) ==
    \E w, v \in Wallet, x \in Signed \cup {0}, m \in Amount \cup Fee \cup {0} :
        /\ w # v
        /\ \A u \in Wallet : Due(s, u) = IF u = w THEN x - m
                                         ELSE IF u = v THEN m ELSE 0

HoldsOnly(s, w) == \A u \in Wallet : lockOwner[u] = s <=> u = w

\* A session holds rows only between its first lock and its end; a row it
\* holds is still as it read it, and what it will write there is no overdraft.
RowsHeld(s) ==
    \A w \in Wallet :
        lockOwner[w] = s => /\ pc[s] \notin {"idle", "begin"}
                            /\ draft[s][w] = balance[w] + delta[s][w]
                            /\ draft[s][w] >= 0

\* What a session has established when it goes on to lock its second row.
PartWay(s) ==
    LET o == op[s] IN
    /\ pc[s] \notin {"write", "target"}
    /\ pc[s] = "fee" => /\ o.flow \in {"payin", "collectFee"}
                        /\ HoldsOnly(s, o.payer)
                        /\ draft[s][o.payer] >= o.fee
                        /\ delta[s][o.payer] \in Signed \cup {0}
    /\ pc[s] = "bill" => /\ o.flow = "monthly"
                         /\ HoldsOnly(s, o.payer)
                         /\ draft[s][o.payer] >= o.amt
                         /\ delta[s][o.payer] = 0
    /\ pc[s] = "second" => /\ o.flow = "transfer"
                           /\ HoldsOnly(s, FirstOf(o))
                           /\ delta[s][FirstOf(o)] = 0
    /\ pc[s] = "commit" => OnePosting(s)

SessionSafe(s) == RowsHeld(s) /\ PartWay(s)

Safe == /\ BalanceMatchesLedger
        /\ NoOverdraft
        /\ \A s \in Session : SessionSafe(s)

\* The first row a transaction locks and stages is its only one, read fresh.
LEMMA FirstRow ==
    ASSUME TypeOK, NEW s \in Session, NEW w \in Wallet, NEW x \in Int,
           RowsHeld(s), pc[s] = "begin", Lock(s, w), Stage(s, w, x),
           balance[w] + x >= 0, UNCHANGED unseen,
           pc'[s] \notin {"idle", "begin"}
    PROVE  /\ RowsHeld(s)' /\ HoldsOnly(s, w)'
           /\ draft'[s][w] = balance[w] + x /\ delta'[s][w] = x
<1>1. draft'[s][w] = balance[w] + x /\ delta'[s][w] = x
  BY DEF Stage, TypeOK
<1>2. HoldsOnly(s, w)'
  BY DEF HoldsOnly, RowsHeld, Lock, TypeOK
<1>3. RowsHeld(s)'
  BY <1>1, <1>2 DEF HoldsOnly, RowsHeld, TypeOK, unseen
<1> QED  BY <1>1, <1>2, <1>3

\* With a second row q the transaction moves x there from its first row p.
LEMMA SecondRow ==
    ASSUME TypeOK, NEW s \in Session, NEW p \in Wallet, NEW q \in Wallet,
           NEW x \in Int, RowsHeld(s), HoldsOnly(s, p), Lock(s, q),
           Move(s, p, q, x), draft[s][p] >= x, balance[q] + x >= 0,
           UNCHANGED balance, pc'[s] = "commit"
    PROVE  /\ RowsHeld(s)' /\ p # q
           /\ \A u \in Wallet : Due(s, u)' = IF u = p THEN delta[s][p] - x
                                             ELSE IF u = q THEN x ELSE 0
<1>1. p # q /\ None # s
  BY ConstantTypes DEF HoldsOnly, Lock
<1>2. /\ draft'[s][p] = draft[s][p] - x /\ draft'[s][q] = balance[q] + x
      /\ delta'[s][p] = delta[s][p] - x /\ delta'[s][q] = x
  BY <1>1 DEF Move, TypeOK
<1>3. \A u \in Wallet : lockOwner'[u] = s <=> u = p \/ u = q
  BY DEF HoldsOnly, Lock, TypeOK
<1>4. draft[s][p] = balance[p] + delta[s][p]
  BY DEF HoldsOnly, RowsHeld
<1>5. /\ balance[p] \in Int /\ balance[q] \in Int
      /\ draft[s][p] \in Int /\ delta[s][p] \in Int
  BY DEF TypeOK
<1>6. RowsHeld(s)'
  BY <1>2, <1>3, <1>4, <1>5 DEF RowsHeld
<1>7. \A u \in Wallet : Due(s, u)' = IF u = p THEN delta[s][p] - x
                                     ELSE IF u = q THEN x ELSE 0
  BY <1>1, <1>2, <1>3 DEF Due
<1> QED  BY <1>1, <1>6, <1>7

\* A transaction that holds two rows commits one amount from outside and one
\* moved from the one row to the other.
LEMMA PairPosting ==
    ASSUME NEW s \in Session, NEW p \in Wallet, NEW q \in Wallet, p # q,
           NEW y \in Signed \cup {0}, NEW x \in Amount \cup Fee \cup {0},
           \A u \in Wallet : Due(s, u)' = IF u = p THEN y - x
                                          ELSE IF u = q THEN x ELSE 0
    PROVE  OnePosting(s)'
<1> SUFFICES \E w, v \in Wallet, d \in Signed \cup {0},
                m \in Amount \cup Fee \cup {0} :
                 /\ w # v
                 /\ \A u \in Wallet : Due(s, u)' = IF u = w THEN d - m
                                                  ELSE IF u = v THEN m ELSE 0
  BY Zenon DEF OnePosting
<1> WITNESS p \in Wallet, q \in Wallet, y \in Signed \cup {0},
            x \in Amount \cup Fee \cup {0}
<1> QED  OBVIOUS

\* A transaction that holds one row commits one amount from outside.
LEMMA SinglePosting ==
    ASSUME NEW s \in Session, NEW w \in Wallet, HoldsOnly(s, w)',
           NEW x \in Signed \cup {0}, delta'[s][w] = x
    PROVE  OnePosting(s)'
<1>1. PICK v \in Wallet : v # w
  BY WalletAssumption, ConstantTypes
<1>2. x \in Int
  BY ConstantTypes DEF Signed
<1>3. \A u \in Wallet : Due(s, u)' = IF u = w THEN x - 0
                                     ELSE IF u = v THEN 0 ELSE 0
  BY <1>2 DEF Due, HoldsOnly
<1> QED  BY <1>1, <1>3 DEF OnePosting

\* A step of s leaves what t has established alone: t's rows stay t's, and the
\* balances of the rows t holds do not change.
LEMMA Undisturbed ==
    ASSUME TypeOK, NEW t \in Session, SessionSafe(t),
           pc'[t] = pc[t], op'[t] = op[t],
           draft'[t] = draft[t], delta'[t] = delta[t],
           \A w \in Wallet : lockOwner'[w] = t <=> lockOwner[w] = t,
           \A w \in Wallet : lockOwner[w] = t => balance'[w] = balance[w]
    PROVE  SessionSafe(t)'
<1>1. RowsHeld(t)'
  BY DEF SessionSafe, RowsHeld
<1>2. \A w \in Wallet : HoldsOnly(t, w)' <=> HoldsOnly(t, w)
  BY DEF HoldsOnly
<1>3. \A w \in Wallet : Due(t, w)' = Due(t, w)
  BY DEF Due
<1>4. OnePosting(t) => OnePosting(t)'
  BY <1>3 DEF OnePosting
<1>5. pc[t] # "idle" => op[t].payer \in Wallet /\ FirstOf(op[t]) \in Wallet
  BY RunningOperation
<1>6. PartWay(t)'
  BY <1>2, <1>4, <1>5 DEF SessionSafe, PartWay
<1> QED  BY <1>1, <1>6 DEF SessionSafe

\* A transaction that has ended holds nothing.
LEMMA EndSafe ==
    ASSUME TypeOK, NEW s \in Session, End(s)
    PROVE  SessionSafe(s)'
<1>1. \A w \in Wallet : lockOwner'[w] # s
  BY ConstantTypes DEF End, Release
<1>2. pc'[s] = "idle"
  BY DEF End, Goto, TypeOK
<1> QED  BY <1>1, <1>2 DEF SessionSafe, RowsHeld, PartWay

\* What a step of s may touch of another session's: nothing of its own, and
\* no row it holds.
LEMMA OthersKept ==
    ASSUME TypeOK, NEW s \in Session, Begin(s) \/ Step(s) \/ Abort(s),
           NEW t \in Session, t # s
    PROVE  /\ pc'[t] = pc[t] /\ op'[t] = op[t]
           /\ draft'[t] = draft[t] /\ delta'[t] = delta[t]
           /\ \A w \in Wallet : lockOwner'[w] = t <=> lockOwner[w] = t
           /\ \A w \in Wallet : lockOwner[w] = t => balance'[w] = balance[w]
<1>t. /\ pc \in [Session -> Steps] /\ lockOwner \in [Wallet -> Session \cup {None}]
      /\ op \in [Session -> Operation \cup {NoOperation}]
      /\ draft \in [Session -> [Wallet -> Int]]
      /\ delta \in [Session -> [Wallet -> Int]]
      /\ t # None
  BY ConstantTypes DEF TypeOK
<1>g. ASSUME NEW step, Goto(s, step) PROVE pc'[t] = pc[t]
  BY <1>t, <1>g DEF Goto
<1>l. ASSUME NEW w, Lock(s, w)
      PROVE  \A v \in Wallet : lockOwner'[v] = t <=> lockOwner[v] = t
  BY <1>t, <1>l DEF Lock
<1>s. ASSUME NEW w, NEW x, Stage(s, w, x)
      PROVE  draft'[t] = draft[t] /\ delta'[t] = delta[t]
  BY <1>t, <1>s DEF Stage
<1>m. ASSUME NEW p, NEW q, NEW x, Move(s, p, q, x)
      PROVE  draft'[t] = draft[t] /\ delta'[t] = delta[t]
  BY <1>t, <1>m DEF Move
<1>e. ASSUME End(s)
      PROVE  /\ pc'[t] = pc[t] /\ op'[t] = op[t]
             /\ draft'[t] = draft[t] /\ delta'[t] = delta[t]
             /\ \A w \in Wallet : lockOwner'[w] = t <=> lockOwner[w] = t
  BY <1>t, <1>e, <1>g DEF End, Release
<1>1. CASE Begin(s)
  BY <1>1, <1>t, <1>g DEF Begin
<1>2. CASE CreditPayin(s)
  BY <1>2, <1>g, <1>l, <1>s DEF CreditPayin, unseen
<1>3. CASE DebitPayout(s)
  BY <1>3, <1>g, <1>l, <1>s, <1>e DEF DebitPayout, Rollback, unseen
<1>4. CASE RefundPayout(s)
  BY <1>4, <1>g, <1>l, <1>s DEF RefundPayout, unseen
<1>5. CASE CollectPayoutFee(s)
  BY <1>5, <1>g, <1>l, <1>s DEF CollectPayoutFee, unseen
<1>6. CASE ApplyFee(s)
  BY <1>6, <1>g, <1>l, <1>m DEF ApplyFee, unseen
<1>7. CASE LockBilledMerchant(s)
  BY <1>7, <1>g, <1>l, <1>s, <1>e DEF LockBilledMerchant, Rollback, unseen
<1>8. CASE PostMonthlyFee(s)
  BY <1>8, <1>g, <1>l, <1>m DEF PostMonthlyFee, unseen
<1>9. CASE LockFirstWallet(s)
  BY <1>9, <1>g, <1>l, <1>s DEF LockFirstWallet, unseen
<1>10. CASE PostTransfer(s)
  BY <1>10, <1>g, <1>l, <1>m, <1>e DEF PostTransfer, Rollback, unseen
<1>11. CASE AdjustWallet(s)
  BY <1>11, <1>g, <1>l, <1>s, <1>e DEF AdjustWallet, Rollback, unseen
<1>12. CASE ApproveAdjustment(s)
  BY <1>12, <1>g, <1>s, <1>e DEF ApproveAdjustment, Rollback, unseen
<1>13. CASE SettleTekkoPayin(s)
  BY <1>13, <1>g, <1>s DEF SettleTekkoPayin, unseen
<1>14. CASE WriteUnlockedRead(s)
  BY <1>14, <1>g, <1>l DEF WriteUnlockedRead, unseen
<1>15. CASE LockCreditedWallet(s)
  BY <1>15, <1>g, <1>l, <1>s DEF LockCreditedWallet, unseen
<1>16. CASE PostCorrection(s)
  BY <1>16, <1>g, <1>l, <1>m DEF PostCorrection, unseen
<1>17. CASE Commit(s)
  BY <1>17, <1>e DEF Commit, TypeOK
<1>18. CASE Abort(s)
  BY <1>18, <1>e DEF Abort, Rollback
<1> QED  BY <1>1, <1>2, <1>3, <1>4, <1>5, <1>6, <1>7, <1>8, <1>9, <1>10,
            <1>11, <1>12, <1>13, <1>14, <1>15, <1>16, <1>17, <1>18 DEF Step

\* A transaction that has staged one ledger entry on the only row it holds may
\* commit it.
LEMMA CommitSafe ==
    ASSUME TypeOK, NEW s \in Session, NEW w \in Wallet,
           RowsHeld(s)', HoldsOnly(s, w)', delta'[s][w] \in Signed \cup {0},
           pc'[s] = "commit"
    PROVE  SessionSafe(s)'
<1>1. OnePosting(s)'
  BY SinglePosting
<1> QED  BY <1>1 DEF SessionSafe, PartWay

\* With its second row posted, a transaction moves x from p to q, after it
\* brought y to p from outside.
LEMMA MoveSafe ==
    ASSUME TypeOK, NEW s \in Session, NEW p \in Wallet, NEW q \in Wallet,
           NEW y \in Signed \cup {0}, NEW x \in Amount \cup Fee \cup {0},
           RowsHeld(s), HoldsOnly(s, p), delta[s][p] = y,
           Lock(s, q), Move(s, p, q, x), draft[s][p] >= x,
           UNCHANGED balance, pc'[s] = "commit",
           balance[q] >= 0
    PROVE  SessionSafe(s)'
<1>1. x \in Nat /\ balance[q] \in Int
  BY ConstantTypes DEF TypeOK
<1>2. /\ RowsHeld(s)' /\ p # q
      /\ \A u \in Wallet : Due(s, u)' = IF u = p THEN delta[s][p] - x
                                        ELSE IF u = q THEN x ELSE 0
  BY <1>1, SecondRow
<1>3. OnePosting(s)'
  <2>1. \A u \in Wallet : Due(s, u)' = IF u = p THEN y - x
                                       ELSE IF u = q THEN x ELSE 0
    BY <1>2
  <2> QED  BY <1>2, <2>1, PairPosting
<1> QED  BY <1>2, <1>3 DEF SessionSafe, PartWay

\* When every flow locks the rows it reads, a session's own step keeps its
\* part of the invariant.
LEMMA OwnSafe ==
    ASSUME Flow \subseteq LockedFlow, TypeOK, NoOverdraft,
           NEW s \in Session, SessionSafe(s),
           Begin(s) \/ Step(s) \/ Abort(s)
    PROVE  SessionSafe(s)'
<1> DEFINE o == op[s]
<1> USE DEF At
<1>h. RowsHeld(s) /\ PartWay(s)
  BY DEF SessionSafe
<1>b. /\ \A w \in Wallet : balance[w] \in Int /\ balance[w] >= 0
      /\ draft \in [Session -> [Wallet -> Int]]
      /\ delta \in [Session -> [Wallet -> Int]]
  BY DEF TypeOK, NoOverdraft
<1>c. /\ \A a \in Amount : a \in Nat /\ a \in Signed /\ -a \in Signed
      /\ \A f \in Fee : f \in Nat
      /\ \A w \in Merchant : w \in Wallet
      /\ \A w \in Customer : w \in Wallet
      /\ Platform \in Wallet
  BY ConstantTypes DEF Signed
<1>o. ASSUME pc[s] # "idle"
      PROVE  /\ o \in Operation
             /\ o.flow \in LockedFlow
             /\ o.payer \in Wallet /\ o.payee \in Wallet
             /\ o.amt \in Int /\ o.fee \in Int
             /\ FirstOf(o) \in Wallet
  BY <1>o, RunningOperation, OperationFields
<1>m. ASSUME pc[s] # "idle", o.flow \in {"payin", "payout", "refund",
                                         "collectFee", "monthly"}
      PROVE  /\ o.payee = Platform /\ o.amt \in Amount /\ o.fee \in Fee
             /\ o.amt \in Nat /\ o.fee \in Nat
  BY <1>m, <1>o, <1>c, MerchantFields
<1>g. ASSUME NEW step \in Steps, Goto(s, step) PROVE pc'[s] = step
  BY <1>g DEF Goto, TypeOK
<1>r. Rollback(s) => SessionSafe(s)'
  BY EndSafe DEF Rollback
<1>p. PICK p \in Wallet, q \in Wallet, f \in Wallet, a \in Int, e \in Int :
           pc[s] # "idle" => /\ p = o.payer /\ q = o.payee /\ f = FirstOf(o)
                             /\ a = o.amt /\ e = o.fee
  <2>1. CASE pc[s] = "idle"
    BY <2>1, <1>c
  <2>2. CASE pc[s] # "idle"
    BY <2>2, <1>o
  <2> QED  BY <2>1, <2>2
<1>1. CASE Begin(s)
  <2>1. pc'[s] = "begin" /\ pc[s] = "idle"
    BY <1>1, <1>g DEF Begin, Steps
  <2>2. \A w \in Wallet : lockOwner'[w] # s
    BY <1>1, <1>h, <2>1 DEF Begin, RowsHeld
  <2> QED  BY <2>1, <2>2 DEF SessionSafe, RowsHeld, PartWay
<1>2. CASE CreditPayin(s)
  <2>1. /\ pc[s] = "begin" /\ o.flow = "payin" /\ Lock(s, p)
        /\ Stage(s, p, a) /\ UNCHANGED unseen
        /\ Goto(s, FeeStep(s, balance[p] + a))
    BY <1>2, <1>p DEF CreditPayin
  <2>2. a \in Nat /\ a \in Signed /\ e \in Nat
    BY <2>1, <1>p, <1>m, <1>c
  <2>3. pc'[s] = FeeStep(s, balance[p] + a)
    BY <2>1, <1>g DEF FeeStep, Steps
  <2>4. /\ RowsHeld(s)' /\ HoldsOnly(s, p)'
        /\ draft'[s][p] = balance[p] + a
        /\ delta'[s][p] = a
    <3>1. pc'[s] \notin {"idle", "begin"}
      BY <2>3 DEF FeeStep
    <3>2. a \in Int /\ balance[p] + a >= 0
      BY <2>2, <1>b
    <3> QED  BY <2>1, <3>1, <3>2, <1>h, FirstRow
  <2>5. CASE pc'[s] = "commit"
    BY <2>2, <2>4, <2>5, CommitSafe
  <2>6. CASE pc'[s] = "fee"
    <3>1. e <= balance[p] + a
      BY <2>1, <2>3, <2>6, <1>p DEF FeeStep
    <3> QED  BY <2>1, <2>2, <2>4, <2>6, <3>1, <1>p
           DEF SessionSafe, PartWay, unseen
  <2> QED  BY <2>3, <2>5, <2>6 DEF FeeStep
<1>3. CASE DebitPayout(s)
  <2>1. CASE Rollback(s)
    BY <2>1, <1>r
  <2>2. CASE ~Rollback(s)
    <3>1. /\ pc[s] = "begin" /\ o.flow = "payout" /\ Lock(s, p)
          /\ Stage(s, p, -a) /\ UNCHANGED unseen
          /\ Goto(s, "commit") /\ balance[p] >= a + e
      BY <1>3, <2>2, <1>p DEF DebitPayout
    <3>2. /\ a \in Nat /\ -a \in Signed
          /\ -a \in Int /\ e \in Nat
      BY <3>1, <1>p, <1>m, <1>c
    <3>3. pc'[s] = "commit"
      BY <3>1, <1>g DEF Steps
    <3>4. balance[p] + (-a) >= 0
      BY <3>1, <3>2, <1>b
    <3>5. /\ RowsHeld(s)' /\ HoldsOnly(s, p)'
          /\ delta'[s][p] = -a
      <4>1. pc'[s] \notin {"idle", "begin"}
        BY <3>3
      <4> QED  BY <3>1, <3>2, <3>4, <4>1, <1>h, FirstRow
    <3> QED  BY <3>2, <3>3, <3>5, CommitSafe
  <2> QED  BY <2>1, <2>2
<1>4. CASE RefundPayout(s)
  <2>1. /\ pc[s] = "begin" /\ o.flow = "refund" /\ Lock(s, p)
        /\ Stage(s, p, a) /\ UNCHANGED unseen
        /\ Goto(s, "commit")
    BY <1>4, <1>p DEF RefundPayout
  <2>2. a \in Nat /\ a \in Signed
    BY <2>1, <1>p, <1>m, <1>c
  <2>3. pc'[s] = "commit"
    BY <2>1, <1>g DEF Steps
  <2>4. /\ RowsHeld(s)' /\ HoldsOnly(s, p)'
        /\ delta'[s][p] = a
    <3>1. pc'[s] \notin {"idle", "begin"}
      BY <2>3
    <3>2. a \in Int /\ balance[p] + a >= 0
      BY <2>2, <1>b
    <3> QED  BY <2>1, <3>1, <3>2, <1>h, FirstRow
  <2> QED  BY <2>2, <2>3, <2>4, CommitSafe
<1>5. CASE CollectPayoutFee(s)
  <2>1. /\ pc[s] = "begin" /\ o.flow = "collectFee" /\ Lock(s, p)
        /\ Stage(s, p, 0) /\ UNCHANGED unseen
        /\ Goto(s, FeeStep(s, balance[p]))
    BY <1>5, <1>p DEF CollectPayoutFee
  <2>2. e \in Nat
    BY <2>1, <1>p, <1>m
  <2>3. pc'[s] = FeeStep(s, balance[p])
    BY <2>1, <1>g DEF FeeStep, Steps
  <2>4. /\ RowsHeld(s)' /\ HoldsOnly(s, p)'
        /\ draft'[s][p] = balance[p] + 0
        /\ delta'[s][p] = 0
    <3>1. pc'[s] \notin {"idle", "begin"}
      BY <2>3 DEF FeeStep
    <3>2. 0 \in Int /\ balance[p] + 0 >= 0
      BY <1>b
    <3> QED  BY <2>1, <3>1, <3>2, <1>h, FirstRow
  <2>5. CASE pc'[s] = "commit"
    BY <2>2, <2>4, <2>5, CommitSafe
  <2>6. CASE pc'[s] = "fee"
    <3>1. e <= balance[p] /\ balance[p] \in Int
      BY <2>1, <2>2, <2>3, <2>6, <1>b, <1>p DEF FeeStep
    <3> QED  BY <2>1, <2>2, <2>4, <2>6, <3>1, <1>p
           DEF SessionSafe, PartWay, unseen
  <2> QED  BY <2>3, <2>5, <2>6 DEF FeeStep
<1>6. CASE ApplyFee(s)
  <2>1. /\ pc[s] = "fee" /\ Lock(s, Platform)
        /\ Move(s, p, Platform, e) /\ UNCHANGED unseen
        /\ Goto(s, "commit")
    BY <1>6, <1>p DEF ApplyFee
  <2>2. /\ o.flow \in {"payin", "collectFee"} /\ HoldsOnly(s, p)
        /\ draft[s][p] >= e /\ delta[s][p] \in Signed \cup {0}
    BY <2>1, <1>h, <1>p DEF PartWay
  <2>3. e \in Fee
    BY <2>1, <2>2, <1>p, <1>m
  <2>4. pc'[s] = "commit"
    BY <2>1, <1>g DEF Steps
  <2> QED  BY <2>1, <2>2, <2>3, <2>4, <1>b, <1>c, <1>h, MoveSafe DEF unseen
<1>7. CASE LockBilledMerchant(s)
  <2>1. CASE Rollback(s)
    BY <2>1, <1>r
  <2>2. CASE ~Rollback(s)
    <3>1. /\ pc[s] = "begin" /\ o.flow = "monthly" /\ Lock(s, p)
          /\ Stage(s, p, 0) /\ UNCHANGED unseen
          /\ Goto(s, "bill") /\ balance[p] >= a
      BY <1>7, <2>2, <1>p DEF LockBilledMerchant
    <3>2. a \in Nat /\ balance[p] \in Int
      BY <3>1, <1>p, <1>m, <1>b
    <3>3. pc'[s] = "bill"
      BY <3>1, <1>g DEF Steps
    <3>4. /\ RowsHeld(s)' /\ HoldsOnly(s, p)'
          /\ draft'[s][p] = balance[p] + 0
          /\ delta'[s][p] = 0
      <4>1. pc'[s] \notin {"idle", "begin"}
        BY <3>3
      <4>2. 0 \in Int /\ balance[p] + 0 >= 0
        BY <1>b
      <4> QED  BY <3>1, <4>1, <4>2, <1>h, FirstRow
    <3> QED  BY <3>1, <3>2, <3>3, <3>4, <1>p
           DEF SessionSafe, PartWay, unseen
  <2> QED  BY <2>1, <2>2
<1>8. CASE PostMonthlyFee(s)
  <2>1. /\ pc[s] = "bill" /\ Lock(s, Platform)
        /\ Move(s, p, Platform, a) /\ UNCHANGED unseen
        /\ Goto(s, "commit")
    BY <1>8, <1>p DEF PostMonthlyFee
  <2>2. /\ o.flow = "monthly" /\ HoldsOnly(s, p)
        /\ draft[s][p] >= a /\ delta[s][p] = 0
    BY <2>1, <1>h, <1>p DEF PartWay
  <2>3. a \in Amount
    BY <2>1, <2>2, <1>p, <1>m
  <2>4. pc'[s] = "commit"
    BY <2>1, <1>g DEF Steps
  <2> QED  BY <2>1, <2>2, <2>3, <2>4, <1>b, <1>c, <1>h, MoveSafe DEF unseen
<1>9. CASE LockFirstWallet(s)
  <2>1. /\ pc[s] = "begin" /\ o.flow = "transfer" /\ Lock(s, f)
        /\ Stage(s, f, 0) /\ UNCHANGED unseen /\ Goto(s, "second")
    BY <1>9, <1>p DEF LockFirstWallet
  <2>3. pc'[s] = "second"
    BY <2>1, <1>g DEF Steps
  <2>4. RowsHeld(s)' /\ HoldsOnly(s, f)' /\ delta'[s][f] = 0
    <3>1. pc'[s] \notin {"idle", "begin"}
      BY <2>3
    <3>2. 0 \in Int /\ balance[f] + 0 >= 0
      BY <1>b
    <3> QED  BY <2>1, <3>1, <3>2, <1>h, FirstRow
  <2> QED  BY <2>1, <2>3, <2>4, <1>p
           DEF SessionSafe, PartWay, unseen
<1>10. CASE PostTransfer(s)
  <2>1. CASE Rollback(s)
    BY <2>1, <1>r
  <2>2. CASE ~Rollback(s)
    <3> DEFINE second == SecondWallet(s)
    <3>1. /\ pc[s] = "second" /\ Lock(s, second) /\ UNCHANGED unseen
          /\ Goto(s, "commit")
          /\ IF second = q
               THEN /\ draft[s][p] >= a
                    /\ Move(s, p, q, a)
               ELSE /\ balance[p] >= a
                    /\ Move(s, q, p, -a)
      BY <1>10, <2>2, <1>p DEF PostTransfer
    <3>2. /\ o.flow = "transfer" /\ HoldsOnly(s, f)
          /\ delta[s][f] = 0
      BY <3>1, <1>h, <1>p DEF PartWay
    <3>3. /\ p # q
          /\ a \in Amount /\ a \in Nat
      BY <3>1, <3>2, <1>o, <1>p, <1>c, TransferFields, ConstantTypes
    <3>4. pc'[s] = "commit" /\ UNCHANGED balance
      BY <3>1, <1>g DEF Steps, unseen
    <3>5. CASE second = q
      <4>1. f = p
        BY <3>2, <3>3, <3>5, <1>p, <3>1
        DEF HoldsOnly, SecondWallet, FirstOf
      <4> QED  BY <3>1, <3>2, <3>3, <3>4, <3>5, <4>1, <1>b, <1>h, MoveSafe
    <3>6. CASE second = p /\ second # q
      <4>1. f = q
        BY <3>2, <3>3, <3>6, <1>p, <3>1
        DEF HoldsOnly, SecondWallet, FirstOf
      <4>2. /\ Move(s, q, p, -a) /\ balance[p] >= a
            /\ Lock(s, p) /\ HoldsOnly(s, q)
            /\ delta[s][q] = 0
        BY <3>1, <3>2, <3>6, <4>1
      <4>3. draft[s][q] >= -a /\ balance[p] + (-a) >= 0
            /\ -a \in Int
        BY <3>3, <4>2, <1>b, <1>h DEF HoldsOnly, RowsHeld
      <4>4. /\ RowsHeld(s)'
            /\ \A u \in Wallet :
                   Due(s, u)' = IF u = q THEN 0 - (-a)
                                ELSE IF u = p THEN -a ELSE 0
        BY <3>1, <3>3, <3>4, <4>2, <4>3, <1>h, SecondRow
      <4>5. \A u \in Wallet : Due(s, u)' = IF u = p THEN 0 - a
                                           ELSE IF u = q THEN a
                                           ELSE 0
        BY <3>3, <4>4
      <4>6. OnePosting(s)'
        <5>1. 0 \in Signed \cup {0} /\ a \in Amount \cup Fee \cup {0}
          BY <3>3
        <5> QED  BY <3>3, <4>5, <5>1, PairPosting
      <4> QED  BY <3>4, <4>4, <4>6 DEF SessionSafe, PartWay
    <3> QED  BY <3>1, <3>5, <3>6, <1>p DEF SecondWallet
  <2> QED  BY <2>1, <2>2
<1>11. CASE AdjustWallet(s)
  <2>1. CASE Rollback(s)
    BY <2>1, <1>r
  <2>2. CASE ~Rollback(s)
    <3>1. /\ pc[s] = "begin" /\ o.flow = "adjust" /\ Lock(s, p)
          /\ Stage(s, p, a) /\ UNCHANGED unseen
          /\ Goto(s, "commit") /\ balance[p] + a >= 0
      BY <1>11, <2>2, <1>p DEF AdjustWallet
    <3>2. a \in Int /\ a \in Signed
      BY <3>1, <1>o, <1>p DEF Operation, MerchantOperation, TransferOperation,
                        AdjustOperation, CorrectOperation
    <3>3. pc'[s] = "commit"
      BY <3>1, <1>g DEF Steps
    <3>4. RowsHeld(s)' /\ HoldsOnly(s, p)' /\ delta'[s][p] = a
      <4>1. pc'[s] \notin {"idle", "begin"}
        BY <3>3
      <4> QED  BY <3>1, <3>2, <4>1, <1>h, FirstRow
    <3> QED  BY <3>2, <3>3, <3>4, CommitSafe
  <2> QED  BY <2>1, <2>2
<1>12. CASE ApproveAdjustment(s) \/ SettleTekkoPayin(s) \/ LockCreditedWallet(s)
  BY <1>12, <1>o DEF ApproveAdjustment, SettleTekkoPayin, LockCreditedWallet,
                     LockedFlow
<1>13. CASE WriteUnlockedRead(s) \/ PostCorrection(s)
  BY <1>13, <1>h DEF WriteUnlockedRead, PostCorrection, PartWay
<1>14. CASE Commit(s)
  BY <1>14, EndSafe DEF Commit
<1>15. CASE Abort(s)
  BY <1>15, <1>r DEF Abort
<1> QED  BY <1>1, <1>2, <1>3, <1>4, <1>5, <1>6, <1>7, <1>8, <1>9, <1>10,
            <1>11, <1>12, <1>13, <1>14, <1>15 DEF Step

\* A commit adds to every wallet, and to its ledger, what was due from s.
LEMMA CommitPosts ==
    ASSUME TypeOK, NEW s \in Session, SessionSafe(s), Commit(s)
    PROVE  /\ balance' = [w \in Wallet |-> balance[w] + Due(s, w)]
           /\ posted' = [w \in Wallet |-> posted[w] + Due(s, w)]
           /\ \A w \in Wallet : Due(s, w) \in Int
<1>1. \A w \in Wallet : /\ balance[w] \in Int /\ posted[w] \in Int
                        /\ delta[s][w] \in Int
  BY DEF TypeOK
<1>2. \A w \in Wallet : lockOwner[w] = s => draft[s][w] = balance[w] + delta[s][w]
  BY DEF SessionSafe, RowsHeld
<1> QED  BY <1>1, <1>2 DEF Commit, Due

\* Balances change in no other step.
LEMMA BalancesKept ==
    ASSUME NEW s \in Session, Begin(s) \/ Step(s) \/ Abort(s), ~Commit(s)
    PROVE  UNCHANGED <<balance, posted>>
BY DEF Step, Begin, Abort, Rollback, unseen, CreditPayin, DebitPayout,
       RefundPayout, CollectPayoutFee, ApplyFee, LockBilledMerchant,
       PostMonthlyFee, LockFirstWallet, PostTransfer, AdjustWallet,
       ApproveAdjustment, SettleTekkoPayin, WriteUnlockedRead,
       LockCreditedWallet, PostCorrection

\* The invariant is inductive when every flow locks the rows it reads.
LEMMA SafeStep ==
    ASSUME Flow \subseteq LockedFlow, TypeOK, Safe, [Next]_vars
    PROVE  Safe'
<1>1. CASE UNCHANGED vars
  BY <1>1 DEF vars, Safe, BalanceMatchesLedger, NoOverdraft, SessionSafe,
              RowsHeld, PartWay, HoldsOnly, OnePosting, Due
<1>2. ASSUME NEW s \in Session, Begin(s) \/ Step(s) \/ Abort(s)
      PROVE  Safe'
  <2>1. SessionSafe(s)'
    BY <1>2, OwnSafe DEF Safe
  <2>2. ASSUME NEW t \in Session, t # s PROVE SessionSafe(t)'
    BY <1>2, <2>2, OthersKept, Undisturbed DEF Safe
  <2>3. (BalanceMatchesLedger /\ NoOverdraft)'
    <3>1. CASE Commit(s)
      <4>1. \A w \in Wallet : /\ balance'[w] = balance[w] + Due(s, w)
                              /\ posted'[w] = posted[w] + Due(s, w)
        BY <3>1, CommitPosts DEF Safe
      <4>2. \A w \in Wallet : balance'[w] >= 0
        BY <3>1 DEF Commit, Safe, SessionSafe, RowsHeld, NoOverdraft
      <4> QED  BY <4>1, <4>2 DEF Safe, BalanceMatchesLedger, NoOverdraft
    <3>2. CASE ~Commit(s)
      BY <1>2, <3>2, BalancesKept DEF Safe, BalanceMatchesLedger, NoOverdraft
    <3> QED  BY <3>1, <3>2
  <2> QED  BY <2>1, <2>2, <2>3 DEF Safe
<1> QED  BY <1>1, <1>2 DEF Next

\* No session has begun at first, so the invariant holds.
LEMMA SafeInit == Init => Safe
<1> SUFFICES ASSUME Init PROVE Safe
  OBVIOUS
<1>1. \A w \in Wallet : lockOwner[w] = None /\ balance[w] >= 0
  BY ConstantTypes DEF Init
<1>2. \A s \in Session : s # None /\ pc[s] = "idle"
  BY ConstantTypes DEF Init
<1> QED  BY <1>1, <1>2 DEF Safe, BalanceMatchesLedger, NoOverdraft,
            SessionSafe, RowsHeld, PartWay, Init

\* The invariant holds in every state that flows which lock reach.
LEMMA SafeAlways == ASSUME Flow \subseteq LockedFlow PROVE Spec => []Safe
<1>1. TypeOK /\ Safe /\ [Next]_vars => Safe'
  BY SafeStep
<1> QED  BY <1>1, SafeInit, TypeCorrect, PTL DEF Spec

\* Whatever the sessions, wallets, amounts and fees: as long as every flow
\* locks the wallet rows it reads, the stored balance of each wallet is the sum
\* of its ledger entries.
THEOREM BalancesMatch ==
    ASSUME Flow \subseteq LockedFlow PROVE Spec => []BalanceMatchesLedger
<1>1. Safe => BalanceMatchesLedger
  BY DEF Safe
<1> QED  BY <1>1, SafeAlways, PTL

\* Under the same condition no wallet is ever overdrawn: each check made under
\* a row lock still holds when the transaction commits, fees included.
THEOREM NeverOverdrawn ==
    ASSUME Flow \subseteq LockedFlow PROVE Spec => []NoOverdraft
<1>1. Safe => NoOverdraft
  BY DEF Safe
<1> QED  BY <1>1, SafeAlways, PTL

\* Under the same condition a transaction never writes a balance computed from
\* a row that has changed since it was read.
THEOREM LockedRowsStayCurrent ==
    ASSUME Flow \subseteq LockedFlow PROVE Spec => []LockedRowsCurrent
<1>1. Safe => LockedRowsCurrent
  BY DEF Safe, SessionSafe, RowsHeld, LockedRowsCurrent
<1> QED  BY <1>1, SafeAlways, PTL

-----------------------------------------------------------------------------
(* Implementation of the abstract ledger *)

\* A commit is one posting of the abstract ledger.
LEMMA CommitIsPost ==
    ASSUME TypeOK, Safe, NEW s \in Session, Commit(s), Safe'
    PROVE  AsLedger!Next
<1>1. PICK w \in Wallet, v \in Wallet, x \in Signed \cup {0},
           m \in Amount \cup Fee \cup {0} :
               /\ w # v
               /\ \A u \in Wallet : Due(s, u) = IF u = w THEN x - m
                                                ELSE IF u = v THEN m ELSE 0
  BY DEF Commit, Safe, SessionSafe, PartWay, OnePosting
<1>2. /\ balance' = [u \in Wallet |-> balance[u] + Due(s, u)]
      /\ posted' = [u \in Wallet |-> posted[u] + Due(s, u)]
  BY CommitPosts DEF Safe
<1>3. x \in Int /\ m \in Int
  BY ConstantTypes DEF Signed
<1>4. /\ balance \in [Wallet -> Int] /\ posted \in [Wallet -> Int]
  BY DEF TypeOK
<1>5. ASSUME NEW b \in [Wallet -> Int]
      PROVE  [u \in Wallet |-> b[u] + Due(s, u)] = AsLedger!Posted(b, w, v, x, m)
  <2> DEFINE f == [b EXCEPT ![w] = b[w] + x - m, ![v] = b[v] + m]
             g == [u \in Wallet |-> b[u] + Due(s, u)]
  <2>1. AsLedger!Posted(b, w, v, x, m) = f
    BY <1>1 DEF AsLedger!Posted
  <2>2. f \in [Wallet -> Int] /\ DOMAIN f = Wallet
    BY <1>3
  <2>3. ASSUME NEW u \in Wallet PROVE g[u] = f[u]
    <3>1. /\ f[w] = b[w] + x - m /\ f[v] = b[v] + m
          /\ (u # w /\ u # v => f[u] = b[u])
      BY <1>1
    <3>2. b[u] \in Int /\ g[u] = b[u] + Due(s, u)
      OBVIOUS
    <3> QED  BY <1>1, <1>3, <3>1, <3>2
  <2> HIDE DEF f
  <2>4. g = f
    BY <2>2, <2>3
  <2> QED  BY <2>1, <2>4
<1>6. /\ balance' = AsLedger!Posted(balance, w, v, x, m)
      /\ posted' = AsLedger!Posted(posted, w, v, x, m)
  BY <1>2, <1>4, <1>5
<1>7. balance[w] + x - m >= 0
  <2>1. balance'[w] >= 0
    BY DEF Safe, NoOverdraft
  <2> QED  BY <1>1, <1>2, <1>3, <1>4, <2>1
<1> QED  BY <1>1, <1>6, <1>7 DEF AsLedger!Next, AsLedger!Post

\* Under locking, any concurrent execution of the money transactions is, seen
\* from the stored balances and the ledger, a sequence of atomic postings that
\* overdraw nobody: each step is one posting or changes neither.
THEOREM ImplementsLedgerAlways ==
    ASSUME Flow \subseteq LockedFlow PROVE Spec => ImplementsLedger
<1>1. Init => AsLedger!Init
  BY ConstantTypes DEF Init, AsLedger!Init
<1>2. TypeOK /\ Safe /\ Safe' /\ [Next]_vars => [AsLedger!Next]_(AsLedger!ledgerVars)
  <2> SUFFICES ASSUME TypeOK, Safe, Safe', [Next]_vars
               PROVE  [AsLedger!Next]_(AsLedger!ledgerVars)
    OBVIOUS
  <2>1. CASE UNCHANGED vars
    BY <2>1 DEF vars, AsLedger!ledgerVars
  <2>2. ASSUME NEW s \in Session, Begin(s) \/ Step(s) \/ Abort(s)
        PROVE  [AsLedger!Next]_(AsLedger!ledgerVars)
    <3>1. CASE Commit(s)
      BY <3>1, CommitIsPost
    <3>2. CASE ~Commit(s)
      BY <2>2, <3>2, BalancesKept DEF AsLedger!ledgerVars
    <3> QED  BY <3>1, <3>2
  <2> QED  BY <2>1, <2>2 DEF Next
<1> QED  BY <1>1, <1>2, SafeAlways, TypeCorrect, PTL
         DEF Spec, ImplementsLedger, AsLedger!Spec

-----------------------------------------------------------------------------
(* The order of the locks *)

\* A session inside a transaction.
Active == {s \in Session : pc[s] # "idle"}

\* Which rows a session holds, by how far it is.
Standing(s) ==
    LET o == op[s] IN
    /\ pc[s] # "target"
    /\ pc[s] \in {"idle", "begin", "write"} => \A w \in Wallet : lockOwner[w] # s
    /\ pc[s] \in {"fee", "bill"} =>
           /\ o.flow \in {"payin", "collectFee", "monthly"}
           /\ HoldsOnly(s, o.payer)
    /\ pc[s] = "second" => o.flow = "transfer" /\ HoldsOnly(s, FirstOf(o))

\* Only finitely many transactions are under way, and each holds what it should.
Orderly == IsFiniteSet(Active) /\ \A s \in Session : Standing(s)

\* The first row s locks is the only one it holds.
LEMMA FirstLock ==
    ASSUME TypeOK, NEW s \in Session, NEW w \in Wallet,
           Standing(s), pc[s] \in {"begin", "write"}, Lock(s, w)
    PROVE  HoldsOnly(s, w)'
BY DEF Standing, HoldsOnly, Lock, TypeOK

\* A step of s leaves what t holds, and what it is doing, alone.
LEMMA StandingKept ==
    ASSUME TypeOK, NEW t \in Session, Standing(t),
           pc'[t] = pc[t], op'[t] = op[t],
           \A w \in Wallet : lockOwner'[w] = t <=> lockOwner[w] = t
    PROVE  Standing(t)'
<1>1. \A w \in Wallet : HoldsOnly(t, w)' <=> HoldsOnly(t, w)
  BY DEF HoldsOnly
<1>2. pc[t] # "idle" => op[t].payer \in Wallet /\ FirstOf(op[t]) \in Wallet
  BY RunningOperation
<1> QED  BY <1>1, <1>2 DEF Standing

\* A session's own step leaves it holding what it should.
LEMMA OwnStanding ==
    ASSUME "correct" \notin Flow, TypeOK, NEW s \in Session, Standing(s),
           Begin(s) \/ Step(s) \/ Abort(s)
    PROVE  Standing(s)'
<1> USE DEF At
<1>o. ASSUME pc[s] # "idle"
      PROVE  /\ op[s].payer \in Wallet /\ FirstOf(op[s]) \in Wallet
             /\ op[s].flow # "correct"
  BY <1>o, RunningOperation, OperationFields
<1>g. ASSUME NEW step \in Steps, Goto(s, step) PROVE pc'[s] = step
  BY <1>g DEF Goto, TypeOK
<1>e. End(s) => Standing(s)'
  <2> SUFFICES ASSUME End(s) PROVE Standing(s)'
    OBVIOUS
  <2>1. pc'[s] = "idle"
    BY <1>g DEF End, Steps
  <2>2. \A w \in Wallet : lockOwner'[w] # s
    BY ConstantTypes DEF End, Release
  <2> QED  BY <2>1, <2>2 DEF Standing
<1>c. pc'[s] = "commit" => Standing(s)'
  BY DEF Standing
<1>1. CASE Begin(s)
  <2>1. pc'[s] = "begin" /\ pc[s] = "idle"
    BY <1>1, <1>g DEF Begin, Steps
  <2> QED  BY <1>1, <2>1 DEF Begin, Standing
<1>2. CASE CreditPayin(s) \/ CollectPayoutFee(s)
  <2>1. /\ pc[s] = "begin" /\ op[s].flow \in {"payin", "collectFee"}
        /\ Lock(s, op[s].payer) /\ op' = op
        /\ Goto(s, "fee") \/ Goto(s, "commit")
    BY <1>2 DEF CreditPayin, CollectPayoutFee, FeeStep, unseen
  <2>2. HoldsOnly(s, op[s].payer)'
    BY <2>1, <1>o, FirstLock
  <2>3. pc'[s] \in {"fee", "commit"}
    BY <2>1, <1>g DEF Steps
  <2> QED  BY <2>1, <2>2, <2>3 DEF Standing, HoldsOnly
<1>3. CASE DebitPayout(s)
  BY <1>3, <1>g, <1>e, <1>c DEF DebitPayout, Rollback, Steps
<1>4. CASE RefundPayout(s)
  BY <1>4, <1>g, <1>c DEF RefundPayout, Steps
<1>6. CASE ApplyFee(s)
  BY <1>6, <1>g, <1>c DEF ApplyFee, Steps
<1>7. CASE LockBilledMerchant(s)
  <2>1. CASE Rollback(s)
    BY <2>1, <1>e DEF Rollback
  <2>2. CASE ~Rollback(s)
    <3>1. /\ pc[s] = "begin" /\ op[s].flow = "monthly"
          /\ Lock(s, op[s].payer) /\ op' = op /\ Goto(s, "bill")
      BY <1>7, <2>2 DEF LockBilledMerchant, unseen
    <3>2. HoldsOnly(s, op[s].payer)'
      BY <3>1, <1>o, FirstLock
    <3>3. pc'[s] = "bill"
      BY <3>1, <1>g DEF Steps
    <3> QED  BY <3>1, <3>2, <3>3 DEF Standing, HoldsOnly
  <2> QED  BY <2>1, <2>2
<1>8. CASE PostMonthlyFee(s)
  BY <1>8, <1>g, <1>c DEF PostMonthlyFee, Steps
<1>9. CASE LockFirstWallet(s)
  <2>1. /\ pc[s] = "begin" /\ op[s].flow = "transfer"
        /\ Lock(s, FirstOf(op[s])) /\ op' = op /\ Goto(s, "second")
    BY <1>9 DEF LockFirstWallet, unseen
  <2>2. HoldsOnly(s, FirstOf(op[s]))'
    BY <2>1, <1>o, FirstLock
  <2>3. pc'[s] = "second"
    BY <2>1, <1>g DEF Steps
  <2> QED  BY <2>1, <2>2, <2>3 DEF Standing, HoldsOnly, FirstOf
<1>10. CASE PostTransfer(s)
  BY <1>10, <1>g, <1>e, <1>c DEF PostTransfer, Rollback, Steps
<1>11. CASE AdjustWallet(s)
  BY <1>11, <1>g, <1>e, <1>c DEF AdjustWallet, Rollback, Steps
<1>12. CASE ApproveAdjustment(s) \/ SettleTekkoPayin(s)
  <2>1. CASE Rollback(s)
    BY <2>1, <1>e DEF Rollback
  <2>2. CASE ~Rollback(s)
    <3>1. pc[s] = "begin" /\ Goto(s, "write") /\ lockOwner' = lockOwner
      BY <1>12, <2>2 DEF ApproveAdjustment, SettleTekkoPayin
    <3>2. pc'[s] = "write"
      BY <3>1, <1>g DEF Steps
    <3> QED  BY <3>1, <3>2 DEF Standing
  <2> QED  BY <2>1, <2>2
<1>14. CASE WriteUnlockedRead(s)
  BY <1>14, <1>g, <1>c DEF WriteUnlockedRead, Steps
<1>15. CASE LockCreditedWallet(s)
  BY <1>15, <1>o DEF LockCreditedWallet
<1>16. CASE PostCorrection(s)
  BY <1>16 DEF PostCorrection, Standing
<1>17. CASE Commit(s) \/ Abort(s)
  BY <1>17, <1>e DEF Commit, Abort, Rollback
<1> QED  BY <1>1, <1>2, <1>3, <1>4, <1>6, <1>7, <1>8, <1>9, <1>10, <1>11,
            <1>12, <1>14, <1>15, <1>16, <1>17 DEF Step

\* A step makes at most one more session active.
LEMMA ActiveFinite ==
    ASSUME TypeOK, NEW s \in Session, Begin(s) \/ Step(s) \/ Abort(s),
           IsFiniteSet(Active)
    PROVE  IsFiniteSet(Active')
<1>1. Active' \subseteq Active \cup {s}
  BY OthersKept DEF Active
<1>2. IsFiniteSet(Active \cup {s})
  BY FS_AddElement
<1> QED  BY <1>1, <1>2, FS_Subset

\* Orderly is inductive as long as no pay-in is corrected.
LEMMA OrderlyStep ==
    ASSUME "correct" \notin Flow, TypeOK, Orderly, [Next]_vars
    PROVE  Orderly'
<1>1. CASE UNCHANGED vars
  BY <1>1 DEF vars, Orderly, Active, Standing, HoldsOnly
<1>2. ASSUME NEW s \in Session, Begin(s) \/ Step(s) \/ Abort(s)
      PROVE  Orderly'
  <2>1. Standing(s)'
    BY <1>2, OwnStanding DEF Orderly
  <2>2. ASSUME NEW t \in Session, t # s PROVE Standing(t)'
    BY <1>2, <2>2, OthersKept, StandingKept DEF Orderly
  <2>3. IsFiniteSet(Active')
    BY <1>2, ActiveFinite DEF Orderly
  <2> QED  BY <2>1, <2>2, <2>3 DEF Orderly
<1> QED  BY <1>1, <1>2 DEF Next

\* A finite set ordered by a number has no member for each of which another is
\* above it.
LEMMA HasMaximal ==
    ASSUME NEW G, IsFiniteSet(G), G # {}, NEW rank \in [G -> Int]
    PROVE  \E s \in G : \A t \in G : ~(rank[s] < rank[t])
<1> DEFINE Above(s) == {t \in G : rank[s] < rank[t]}
           Sets == {Above(s) : s \in G}
<1>1. IsWellFoundedOn(StrictSubsetOrdering(G), FiniteSubsetsOf(G))
  BY FS_StrictSubsetOrderingWellFounded
<1>2. Sets \subseteq FiniteSubsetsOf(G) /\ Sets # {}
  <2>1. \A s \in G : IsFiniteSet(Above(s)) /\ Above(s) \subseteq G
    BY FS_Subset
  <2>2. ASSUME NEW A \in Sets PROVE A \in FiniteSubsetsOf(G)
    <3>1. PICK s \in G : A = Above(s)
      BY <2>2
    <3> QED  BY ONLY <2>1, <3>1 DEF FiniteSubsetsOf
  <2>3. Sets # {}
    <3>1. PICK s \in G : TRUE
      OBVIOUS
    <3>2. Above(s) \in Sets
      BY <3>1
    <3> QED  BY ONLY <3>2
  <2> QED  BY ONLY <2>2, <2>3
<1>3. PICK A \in Sets : \A B \in Sets : <<B, A>> \notin StrictSubsetOrdering(G)
  BY <1>1, <1>2, WFMin
<1>4. PICK s \in G : A = Above(s)
  BY <1>3
<1>5. ASSUME NEW t \in G, rank[s] < rank[t] PROVE FALSE
  <2>1. Above(t) \subseteq Above(s) /\ t \in Above(s) /\ t \notin Above(t)
    BY <1>5
  <2>2. <<Above(t), Above(s)>> \in StrictSubsetOrdering(G)
    BY <2>1 DEF StrictSubsetOrdering
  <2> QED  BY <1>3, <1>4, <2>2
<1> QED  BY <1>5

\* A session that keeps another waiting, and waits itself, is about to post the
\* second row of a transfer or a fee.
LEMMA WaitersThatHold ==
    ASSUME TypeOK, Orderly, NEW s \in Session, NEW t \in Session,
           WaitsFor(s, t), Wanted(t) # {}
    PROVE  /\ pc[t] \in {"fee", "bill", "second"}
           /\ \E w \in Wanted(s) : HoldsOnly(t, w)
           /\ op[t].flow = "transfer" <=> pc[t] = "second"
           /\ op[t] \in Operation
<1>1. PICK w \in Wanted(s) : lockOwner[w] = t
  BY DEF WaitsFor
<1>2. w \in Wallet
  BY DEF Wanted
<1>3. Standing(t) /\ pc[t] \in Steps
  BY DEF Orderly, TypeOK
<1>4. pc[t] \in {"fee", "bill", "second"}
  BY <1>1, <1>2, <1>3 DEF Standing, Wanted, Steps
<1>5. op[t] \in Operation /\ (op[t].flow = "transfer" <=> pc[t] = "second")
  BY <1>3, <1>4 DEF Standing, TypeOK
<1>6. HoldsOnly(t, w)
  BY <1>1, <1>2, <1>3, <1>4 DEF Standing, HoldsOnly
<1> QED  BY <1>1, <1>4, <1>5, <1>6

\* A session that keeps one waiting, and itself waits for one that waits, has
\* locked the first wallet of a transfer: nobody who waits holds the platform's
\* wallet, which is what a fee or a charge waits for.
LEMMA WaitsAtSecond ==
    ASSUME TypeOK, Orderly, NEW r \in Session, NEW s \in Session,
           NEW t \in Session, WaitsFor(r, s), WaitsFor(s, t), Wanted(t) # {}
    PROVE  /\ pc[s] = "second"
           /\ op[s].payer \in Merchant /\ op[s].payee \in Customer
           /\ HoldsOnly(s, FirstOf(op[s]))
           /\ HoldsOnly(t, SecondWallet(s))
<1>1. Wanted(s) # {}
  BY DEF WaitsFor
<1>2. /\ pc[s] \in {"fee", "bill", "second"} /\ op[s] \in Operation
      /\ op[s].flow = "transfer" <=> pc[s] = "second"
  BY <1>1, WaitersThatHold
<1>3. /\ pc[t] \in {"fee", "bill", "second"} /\ op[t] \in Operation
      /\ op[t].flow = "transfer" <=> pc[t] = "second"
  BY WaitersThatHold
<1>4. PICK w \in Wanted(s) : HoldsOnly(t, w)
  BY WaitersThatHold
<1>5. w \in Wallet /\ lockOwner[w] = t
  BY <1>4 DEF Wanted, HoldsOnly
<1>6. Standing(s) /\ Standing(t)
  BY DEF Orderly
<1>7. w # Platform
  <2>1. CASE pc[t] = "second"
    <3>1. w = FirstOf(op[t])
      BY <2>1, <1>4, <1>5, <1>6, <1>3, OperationFields DEF Standing, HoldsOnly
    <3>2. op[t].payer \in Merchant /\ op[t].payee \in Customer
      BY <2>1, <1>3, TransferFields
    <3> QED  BY <3>1, <3>2, WalletAssumption DEF FirstOf
  <2>2. CASE pc[t] \in {"fee", "bill"}
    <3>1. w = op[t].payer
      BY <2>2, <1>4, <1>5, <1>6 DEF Standing, HoldsOnly
    <3>2. op[t].payer \in Merchant
      BY <2>2, <1>3, <1>6, MerchantFields DEF Standing
    <3> QED  BY <3>1, <3>2, ConstantTypes
  <2> QED  BY <2>1, <2>2, <1>3
<1>8. pc[s] = "second" /\ w = SecondWallet(s)
  BY <1>2, <1>4, <1>7 DEF Wanted
<1>9. op[s].payer \in Merchant /\ op[s].payee \in Customer
  BY <1>2, <1>8, TransferFields
<1> QED  BY <1>4, <1>6, <1>8, <1>9 DEF Standing

\* Along a chain of sessions that wait, the rows they hold have growing ids.
LEMMA WaitsUpwards ==
    ASSUME TypeOK, Orderly, NEW r \in Session, NEW s \in Session,
           NEW t \in Session, NEW u \in Session, WaitsFor(r, s),
           WaitsFor(s, t), WaitsFor(t, u), Wanted(u) # {}
    PROVE  FirstOf(op[s]) < FirstOf(op[t])
<1>1. Wanted(t) # {}
  BY DEF WaitsFor
<1>2. /\ op[s].payer \in Merchant /\ op[s].payee \in Customer
      /\ HoldsOnly(s, FirstOf(op[s])) /\ HoldsOnly(t, SecondWallet(s))
  BY <1>1, WaitsAtSecond
<1>3. /\ op[t].payer \in Merchant /\ op[t].payee \in Customer
      /\ HoldsOnly(t, FirstOf(op[t]))
  BY WaitsAtSecond
<1>4. SecondWallet(s) = FirstOf(op[t])
  BY <1>2, <1>3, ConstantTypes DEF HoldsOnly, SecondWallet, FirstOf
<1>5. FirstOf(op[s]) < SecondWallet(s)
  <2>1. /\ op[s].payer \in Wallet /\ op[s].payee \in Wallet
        /\ op[s].payer \in Nat /\ op[s].payee \in Nat
        /\ op[s].payer # op[s].payee
    BY <1>2, ConstantTypes
  <2>2. CASE op[s].payer <= op[s].payee
    BY <1>2, <2>1, <2>2 DEF HoldsOnly, SecondWallet, FirstOf
  <2>3. CASE ~(op[s].payer <= op[s].payee)
    BY <1>2, <2>1, <2>3 DEF HoldsOnly, SecondWallet, FirstOf
  <2> QED  BY <2>2, <2>3
<1> QED  BY <1>4, <1>5

\* Where the sessions hold what they should, no group waits for each other.
LEMMA NobodyWaitsInACircle ==
    ASSUME TypeOK, Orderly
    PROVE  NoWaitCycle
<1> SUFFICES ASSUME NEW group \in SUBSET Session, group # {},
                    \A s \in group : \E t \in group : WaitsFor(s, t)
             PROVE  FALSE
  BY DEF NoWaitCycle
<1> DEFINE Held == {t \in group : \E s \in group : WaitsFor(s, t)}
           rank == [s \in Held |-> FirstOf(op[s])]
<1>1. \A s \in group : Wanted(s) # {}
  BY DEF WaitsFor
<1>2. \A s \in group : \E t \in Held : WaitsFor(s, t)
  OBVIOUS
<1>3. Held # {}
  BY <1>2
<1>4. \A t \in Held : t \in Active
  BY <1>1, WaitersThatHold DEF Active
<1>5. IsFiniteSet(Held)
  BY <1>4, FS_Subset DEF Orderly
<1>6. rank \in [Held -> Int]
  <2>1. \A t \in Held : FirstOf(op[t]) \in Int
    BY <1>4, RunningOperation, ConstantTypes DEF Active
  <2> QED  BY <2>1
<1>7. PICK s \in Held : \A t \in Held : ~(rank[s] < rank[t])
  BY <1>3, <1>5, <1>6, HasMaximal
<1>8. PICK r \in group : WaitsFor(r, s)
  OBVIOUS
<1>9. PICK t \in Held : WaitsFor(s, t)
  BY <1>2
<1>10. PICK u \in Held : WaitsFor(t, u)
  BY <1>2
<1>11. FirstOf(op[s]) < FirstOf(op[t])
  BY <1>1, <1>8, <1>9, <1>10, WaitsUpwards
<1> QED  BY <1>7, <1>9, <1>11

\* The order in which the flows lock wallet rows - merchant's before platform's,
\* the lower id of a transfer first - keeps any number of concurrent operations
\* from waiting for each other, settlements that read unlocked included.  Only
\* the correction of a pay-in, which locks two merchants as they come, is
\* excepted.
THEOREM NeverDeadlocked ==
    ASSUME "correct" \notin Flow PROVE Spec => []NoWaitCycle
<1>1. Init => Orderly
  <2> SUFFICES ASSUME Init PROVE Orderly
    OBVIOUS
  <2>1. Active = {}
    BY DEF Init, Active
  <2>2. \A s \in Session : Standing(s)
    BY ConstantTypes DEF Init, Standing
  <2> QED  BY <2>1, <2>2, FS_EmptySet DEF Orderly
<1>2. TypeOK /\ Orderly /\ [Next]_vars => Orderly'
  BY OrderlyStep
<1>3. TypeOK /\ Orderly => NoWaitCycle
  BY NobodyWaitsInACircle
<1> QED  BY <1>1, <1>2, <1>3, TypeCorrect, PTL DEF Spec
-----------------------------------------------------------------------------
(* The session that runs alone (Serial), whatever it runs *)

\* A wallet whose new balance the session has computed from the stored one.
Computed(w) ==
    sLockOwner[w] = s1 \/ (sPc[s1] = "write" /\ w = sOp[s1].payer)

\* The variables of the lone session have their types.
LoneTypes ==
    /\ sBalance \in [Serial!Wallet -> Int] /\ sPosted \in [Serial!Wallet -> Int]
    /\ sLockOwner \in [Serial!Wallet -> {s1, None}]
    /\ sPc \in [{s1} -> Steps]
    /\ sOp \in [{s1} -> Serial!Operation \cup {Serial!NoOperation}]
    /\ sDraft \in [{s1} -> [Serial!Wallet -> Int]]
    /\ sDelta \in [{s1} -> [Serial!Wallet -> Int]]
    /\ sPc[s1] # "idle" => sOp[s1] \in Serial!Operation

\* Nobody changes a balance under it: what it has computed is the stored
\* balance plus its own entries, also where it has not locked the row, and the
\* row it takes from last is one it holds.
Lone ==
    /\ LoneTypes
    /\ \A w \in Serial!Wallet : sBalance[w] = sPosted[w]
    /\ \A w \in Serial!Wallet :
           Computed(w) => sDraft[s1][w] = sBalance[w] + sDelta[s1][w]
    /\ sPc[s1] \in {"idle", "begin", "write"} =>
           \A w \in Serial!Wallet : sLockOwner[w] # s1
    /\ sPc[s1] \in {"fee", "bill", "target"} => sLockOwner[sOp[s1].payer] = s1
    /\ sPc[s1] = "second" => sLockOwner[Serial!FirstOf(sOp[s1])] = s1

\* What an operation of the lone session is made of.
LEMMA LoneOperation ==
    ASSUME NEW o \in Serial!Operation
    PROVE  /\ o.payer \in Serial!Wallet /\ o.payee \in Serial!Wallet
           /\ o.amt \in Int /\ -o.amt \in Int /\ o.fee \in Int
           /\ Serial!FirstOf(o) \in Serial!Wallet
<1>1. /\ o.payer \in Serial!Wallet /\ o.payee \in Serial!Wallet
      /\ o.amt \in Int /\ o.fee \in Int
  <2>1. CASE o \in Serial!MerchantOperation
    BY <2>1 DEF Serial!MerchantOperation, Serial!Wallet
  <2>2. CASE o \in Serial!TransferOperation
    BY <2>2 DEF Serial!TransferOperation, Serial!Wallet
  <2>3. CASE o \in Serial!AdjustOperation
    BY <2>3 DEF Serial!AdjustOperation, Serial!Wallet, Serial!Signed
  <2>4. CASE o \in Serial!CorrectOperation
    BY <2>4 DEF Serial!CorrectOperation, Serial!Wallet
  <2> QED  BY <2>1, <2>2, <2>3, <2>4 DEF Serial!Operation
<1> QED  BY <1>1 DEF Serial!FirstOf

\* The first row it locks and stages.
LEMMA LoneFirst ==
    ASSUME Lone, sPc[s1] = "begin", NEW w \in Serial!Wallet, NEW x \in Int,
           NEW step \in {"fee", "bill", "second", "target", "commit"},
           Serial!Lock(s1, w), Serial!Stage(s1, w, x), Serial!Goto(s1, step),
           UNCHANGED Serial!unseen,
           step \in {"fee", "bill", "target"} => w = sOp[s1].payer,
           step = "second" => w = Serial!FirstOf(sOp[s1])
    PROVE  Lone'
<1> USE DEF LoneTypes
<1>1. sPc' = [sPc EXCEPT ![s1] = step] /\ sPc'[s1] = step /\ step \in Steps
  BY DEF Lone, Serial!Goto, Steps
<1>2. /\ sLockOwner' = [sLockOwner EXCEPT ![w] = s1]
      /\ \A v \in Serial!Wallet : sLockOwner'[v] = s1 <=> v = w
  BY DEF Lone, Serial!Lock
<1>3. /\ sDraft'[s1][w] = sBalance[w] + x /\ sDelta'[s1][w] = x
      /\ sDraft' \in [{s1} -> [Serial!Wallet -> Int]]
      /\ sDelta' \in [{s1} -> [Serial!Wallet -> Int]]
  BY DEF Lone, Serial!Stage
<1>4. /\ sBalance' = sBalance /\ sPosted' = sPosted /\ sOp' = sOp
  BY DEF Serial!unseen
<1>5. LoneTypes'
  BY <1>1, <1>2, <1>3, <1>4 DEF Lone
<1> QED  BY <1>1, <1>2, <1>3, <1>4, <1>5 DEF Lone, Computed

\* A row it stages without locking it.
LEMMA LoneUnlocked ==
    ASSUME Lone, sPc[s1] = "begin", NEW x \in Int,
           Serial!Stage(s1, sOp[s1].payer, x), Serial!Goto(s1, "write"),
           UNCHANGED <<Serial!unseen, sLockOwner>>
    PROVE  Lone'
<1> USE DEF LoneTypes
<1>0. sOp[s1].payer \in Serial!Wallet
  BY LoneOperation DEF Lone
<1>1. sPc' = [sPc EXCEPT ![s1] = "write"] /\ sPc'[s1] = "write"
  BY DEF Lone, Serial!Goto
<1>3. /\ sDraft'[s1][sOp[s1].payer] = sBalance[sOp[s1].payer] + x
      /\ sDelta'[s1][sOp[s1].payer] = x
      /\ sDraft' \in [{s1} -> [Serial!Wallet -> Int]]
      /\ sDelta' \in [{s1} -> [Serial!Wallet -> Int]]
  BY <1>0 DEF Lone, Serial!Stage
<1>4. /\ sBalance' = sBalance /\ sPosted' = sPosted /\ sOp' = sOp
      /\ sLockOwner' = sLockOwner
  BY DEF Serial!unseen
<1>5. LoneTypes'
  BY <1>1, <1>3, <1>4 DEF Lone, Steps
<1> QED  BY <1>1, <1>3, <1>4, <1>5 DEF Lone, Computed

\* The second row, to which it moves x from the one it holds.
LEMMA LoneMove ==
    ASSUME Lone, sPc[s1] # "idle", sPc[s1] # "write",
           NEW p \in Serial!Wallet, NEW q \in Serial!Wallet, NEW x \in Int,
           sLockOwner[p] = s1, Serial!Lock(s1, q), Serial!Move(s1, p, q, x),
           Serial!Goto(s1, "commit"), UNCHANGED Serial!unseen
    PROVE  Lone'
<1> USE DEF LoneTypes
<1>0. p # q
  BY LoneAssumption DEF Serial!Lock
<1>1. sPc' = [sPc EXCEPT ![s1] = "commit"] /\ sPc'[s1] = "commit"
  BY DEF Lone, Serial!Goto
<1>2. sLockOwner' = [sLockOwner EXCEPT ![q] = s1]
  BY DEF Serial!Lock
<1>3. /\ sDraft'[s1][p] = sDraft[s1][p] - x /\ sDraft'[s1][q] = sBalance[q] + x
      /\ sDelta'[s1][p] = sDelta[s1][p] - x /\ sDelta'[s1][q] = x
      /\ \A v \in Serial!Wallet \ {p, q} :
             sDraft'[s1][v] = sDraft[s1][v] /\ sDelta'[s1][v] = sDelta[s1][v]
      /\ sDraft' \in [{s1} -> [Serial!Wallet -> Int]]
      /\ sDelta' \in [{s1} -> [Serial!Wallet -> Int]]
  BY <1>0 DEF Lone, Serial!Move
<1>4. /\ sBalance' = sBalance /\ sPosted' = sPosted /\ sOp' = sOp
  BY DEF Serial!unseen
<1>5. LoneTypes'
  BY <1>1, <1>2, <1>3, <1>4 DEF Lone, Steps
<1>6. \A v \in Serial!Wallet :
          Computed(v)' => sDraft'[s1][v] = sBalance'[v] + sDelta'[s1][v]
  <2> SUFFICES ASSUME NEW v \in Serial!Wallet, Computed(v)'
               PROVE  sDraft'[s1][v] = sBalance'[v] + sDelta'[s1][v]
    OBVIOUS
  <2>1. CASE v = q
    BY <1>3, <1>4, <2>1
  <2>2. CASE v # q
    <3>1. sLockOwner[v] = s1
      BY <1>1, <1>2, <2>2 DEF Lone, Computed
    <3>2. sDraft[s1][v] = sBalance[v] + sDelta[s1][v]
      BY <3>1 DEF Lone, Computed
    <3>3. /\ sDraft[s1][v] \in Int /\ sDelta[s1][v] \in Int
          /\ sBalance[v] \in Int
      BY DEF Lone
    <3> QED  BY <1>3, <1>4, <2>2, <3>2, <3>3
  <2> QED  BY <2>1, <2>2
<1> QED  BY <1>1, <1>4, <1>5, <1>6 DEF Lone

\* The end of its transaction, with what it leaves in the books.
LEMMA LoneEnd ==
    ASSUME Lone, Serial!End(s1),
           sBalance' \in [Serial!Wallet -> Int],
           sPosted' \in [Serial!Wallet -> Int],
           \A w \in Serial!Wallet : sBalance'[w] = sPosted'[w]
    PROVE  Lone'
<1> USE DEF LoneTypes
<1>1. sPc' = [sPc EXCEPT ![s1] = "idle"] /\ sPc'[s1] = "idle"
  BY DEF Lone, Serial!End, Serial!Goto
<1>2. /\ sLockOwner' \in [Serial!Wallet -> {s1, None}]
      /\ \A w \in Serial!Wallet : sLockOwner'[w] # s1
  BY LoneAssumption DEF Lone, Serial!End, Serial!Release
<1>3. /\ sDraft' \in [{s1} -> [Serial!Wallet -> Int]]
      /\ sDelta' \in [{s1} -> [Serial!Wallet -> Int]]
      /\ sOp' \in [{s1} -> Serial!Operation \cup {Serial!NoOperation}]
  BY DEF Lone, Serial!End, Serial!Zero
<1>5. LoneTypes'
  BY <1>1, <1>2, <1>3 DEF Lone, Steps
<1> QED  BY <1>1, <1>2, <1>5 DEF Lone, Computed

\* A rollback changes no book.
LEMMA LoneRollback ==
    ASSUME Lone, Serial!Rollback(s1)
    PROVE  Lone'
BY LoneEnd DEF Lone, LoneTypes, Serial!Rollback

\* It may begin any operation when it runs none.
LEMMA LoneBegin ==
    ASSUME Lone, Serial!Begin(s1)
    PROVE  Lone'
<1> USE DEF LoneTypes
<1>1. sPc' = [sPc EXCEPT ![s1] = "begin"] /\ sPc'[s1] = "begin"
  BY DEF Lone, Serial!Begin, Serial!Goto
<1>2. /\ sOp' \in [{s1} -> Serial!Operation \cup {Serial!NoOperation}]
      /\ sOp'[s1] \in Serial!Operation
  BY DEF Lone, Serial!Begin
<1>3. /\ sBalance' = sBalance /\ sPosted' = sPosted
      /\ sLockOwner' = sLockOwner /\ sDraft' = sDraft /\ sDelta' = sDelta
      /\ sPc[s1] = "idle"
  BY DEF Serial!Begin
<1>5. LoneTypes'
  BY <1>1, <1>2, <1>3 DEF Lone, Steps
<1> QED  BY <1>1, <1>2, <1>3, <1>5 DEF Lone, Computed

\* It posts as much as it writes.
LEMMA LoneCommit ==
    ASSUME Lone, Serial!Commit(s1)
    PROVE  Lone'
<1>1. /\ \A w \in Serial!Wallet : sBalance[w] = sPosted[w]
      /\ \A w \in Serial!Wallet :
             sLockOwner[w] = s1 => sDraft[s1][w] = sBalance[w] + sDelta[s1][w]
      /\ \A w \in Serial!Wallet :
             /\ sBalance[w] \in Int /\ sPosted[w] \in Int
             /\ sDraft[s1][w] \in Int /\ sDelta[s1][w] \in Int
  BY DEF Lone, LoneTypes, Computed
<1>2. /\ sBalance' \in [Serial!Wallet -> Int]
      /\ sPosted' \in [Serial!Wallet -> Int]
      /\ \A w \in Serial!Wallet : sBalance'[w] = sPosted'[w]
  BY <1>1 DEF Serial!Commit
<1>3. Serial!End(s1)
  BY DEF Serial!Commit
<1> QED  BY <1>2, <1>3, LoneEnd

\* What it does by itself keeps its books as it computed them.
LEMMA LoneStep ==
    ASSUME Lone, Serial!Step(s1)
    PROVE  Lone'
<1> USE DEF Serial!At
<1>o. ASSUME sPc[s1] # "idle"
      PROVE  /\ sOp[s1].payer \in Serial!Wallet
             /\ sOp[s1].payee \in Serial!Wallet
             /\ sOp[s1].amt \in Int /\ -sOp[s1].amt \in Int
             /\ sOp[s1].fee \in Int
             /\ Serial!FirstOf(sOp[s1]) \in Serial!Wallet
  BY <1>o, LoneOperation DEF Lone, LoneTypes
<1>p. Platform \in Serial!Wallet
  BY DEF Serial!Wallet
<1>f. ASSUME NEW n PROVE Serial!FeeStep(s1, n) \in {"fee", "commit"}
  BY DEF Serial!FeeStep
<1>1. CASE Serial!CreditPayin(s1)
  BY <1>1, <1>o, <1>f, LoneFirst DEF Serial!CreditPayin
<1>2. CASE Serial!DebitPayout(s1)
  BY <1>2, <1>o, LoneFirst, LoneRollback DEF Serial!DebitPayout
<1>3. CASE Serial!RefundPayout(s1)
  BY <1>3, <1>o, LoneFirst DEF Serial!RefundPayout
<1>4. CASE Serial!CollectPayoutFee(s1)
  BY <1>4, <1>o, <1>f, LoneFirst DEF Serial!CollectPayoutFee
<1>5. CASE Serial!ApplyFee(s1)
  BY <1>5, <1>o, <1>p, LoneMove DEF Serial!ApplyFee, Lone
<1>6. CASE Serial!LockBilledMerchant(s1)
  BY <1>6, <1>o, LoneFirst, LoneRollback DEF Serial!LockBilledMerchant
<1>7. CASE Serial!PostMonthlyFee(s1)
  BY <1>7, <1>o, <1>p, LoneMove DEF Serial!PostMonthlyFee, Lone
<1>8. CASE Serial!LockFirstWallet(s1)
  BY <1>8, <1>o, LoneFirst DEF Serial!LockFirstWallet
<1>9. CASE Serial!PostTransfer(s1)
  <2>1. /\ sPc[s1] = "second" /\ sLockOwner[Serial!FirstOf(sOp[s1])] = s1
    BY <1>9 DEF Serial!PostTransfer, Lone
  <2>2. CASE Serial!Rollback(s1)
    BY <2>2, LoneRollback
  <2>3. CASE /\ Serial!Lock(s1, Serial!SecondWallet(s1))
             /\ Serial!Goto(s1, "commit") /\ UNCHANGED Serial!unseen
             /\ IF Serial!SecondWallet(s1) = sOp[s1].payee
                THEN Serial!Move(s1, sOp[s1].payer, sOp[s1].payee, sOp[s1].amt)
                ELSE Serial!Move(s1, sOp[s1].payee, sOp[s1].payer, -sOp[s1].amt)
    <3>1. CASE sLockOwner[sOp[s1].payer] = s1
      BY <2>1, <2>3, <3>1, <1>o, LoneMove DEF Serial!SecondWallet
    <3>2. CASE sLockOwner[sOp[s1].payer] # s1
      <4>1. /\ Serial!FirstOf(sOp[s1]) = sOp[s1].payee
            /\ Serial!SecondWallet(s1) = sOp[s1].payer
            /\ sOp[s1].payer # sOp[s1].payee
        BY <2>1, <3>2 DEF Serial!FirstOf, Serial!SecondWallet
      <4> QED  BY <2>1, <2>3, <4>1, <1>o, LoneMove
    <3> QED  BY <3>1, <3>2
  <2> QED  BY <1>9, <2>2, <2>3 DEF Serial!PostTransfer
<1>10. CASE Serial!AdjustWallet(s1)
  BY <1>10, <1>o, LoneFirst, LoneRollback DEF Serial!AdjustWallet
<1>11. CASE Serial!ApproveAdjustment(s1)
  BY <1>11, <1>o, LoneUnlocked, LoneRollback DEF Serial!ApproveAdjustment
<1>12. CASE Serial!SettleTekkoPayin(s1)
  BY <1>12, <1>o, LoneUnlocked DEF Serial!SettleTekkoPayin
<1>13. CASE Serial!WriteUnlockedRead(s1)
  <2> USE DEF LoneTypes
  <2>1. /\ sPc[s1] = "write" /\ sPc' = [sPc EXCEPT ![s1] = "commit"]
        /\ sPc'[s1] = "commit"
        /\ sLockOwner' = [sLockOwner EXCEPT ![sOp[s1].payer] = s1]
        /\ sBalance' = sBalance /\ sPosted' = sPosted /\ sOp' = sOp
        /\ sDraft' = sDraft /\ sDelta' = sDelta
    BY <1>13 DEF Serial!WriteUnlockedRead, Serial!Lock, Serial!Goto,
                 Serial!unseen, Lone
  <2>2. LoneTypes'
    BY <2>1 DEF Lone, Steps
  <2> QED  BY <1>o, <2>1, <2>2 DEF Lone, Computed
<1>14. CASE Serial!LockCreditedWallet(s1)
  BY <1>14, <1>o, LoneFirst DEF Serial!LockCreditedWallet
<1>15. CASE Serial!PostCorrection(s1)
  BY <1>15, <1>o, LoneMove DEF Serial!PostCorrection, Lone
<1>16. CASE Serial!Commit(s1)
  BY <1>16, LoneCommit
<1> QED  BY <1>1, <1>2, <1>3, <1>4, <1>5, <1>6, <1>7, <1>8, <1>9, <1>10,
            <1>11, <1>12, <1>13, <1>14, <1>15, <1>16 DEF Serial!Step

\* A session that runs alone posts in the ledger what it writes to the wallets,
\* whatever it runs, locked or not.
THEOREM SerialAlwaysMatches == AllSpec => []SerialMatchesLedger
<1> DEFINE Inv == world = "serial" => Lone
<1>1. AllInit => Inv
  <2> SUFFICES ASSUME Serial!Init PROVE Lone
    BY DEF AllInit
  <2> QED  BY LoneAssumption
           DEF Serial!Init, Lone, LoneTypes, Computed, Serial!Zero, Steps
<1>2. Inv /\ [AllNext]_<<world, vars, SerialVars>> => Inv'
  <2> SUFFICES ASSUME Lone, world = "serial",
                      [AllNext]_<<world, vars, SerialVars>>
               PROVE  Lone'
    BY DEF AllNext
  <2>1. CASE Serial!Next
    BY <2>1, LoneBegin, LoneStep, LoneRollback DEF Serial!Next, Serial!Abort
  <2>2. CASE UNCHANGED SerialVars
    BY <2>2 DEF SerialVars, Lone, LoneTypes, Computed
  <2> QED  BY <2>1, <2>2 DEF AllNext
<1>3. Inv => SerialMatchesLedger
  BY DEF SerialMatchesLedger, Serial!BalanceMatchesLedger, Lone
<1> QED  BY <1>1, <1>2, <1>3, PTL DEF AllSpec
=============================================================================
