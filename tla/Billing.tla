------------------------------- MODULE Billing -------------------------------
(***************************************************************************)
(* The monthly fee.  A cron job runs over the merchants that pay by the    *)
(* month; a run reads whether the month is billed before it opens the      *)
(* money transaction, and two runs may overlap: the job of a process that  *)
(* was taken for dead, or a month that begins while the last is billed.    *)
(***************************************************************************)
EXTENDS Integers, FiniteSets

CONSTANTS Run,      \* runs of the job that may overlap
          Merchant, \* merchants with a monthly fee
          Fee,      \* monthlyAmount
          Opening,  \* balance of each merchant at first
          MaxMonth, \* bound: months that go by
          MaxFaults \* bound: crashes, and payments of the merchants themselves

VARIABLES month,    \* the calendar
          balance,  \* merchant wallets
          platform, \* platform wallet
          entries,  \* monthly_fee debits of each merchant and month
          records,  \* monthly_billing_records
          held,     \* merchant wallets locked, by run
          run,      \* where each run is
          plan,     \* its month, the merchants left, the balance it has read
          faults    \* bound

money == <<balance, platform, entries, records>>
vars == <<month, money, held, run, plan, faults>>

Month == 0..MaxMonth

Idle == [of |-> 0, left |-> {}, who |-> "none", read |-> 0]

Step(r, from, to) == run[r] = from /\ run' = [run EXCEPT ![r] = to]

Fault == faults < MaxFaults /\ faults' = faults + 1

-----------------------------------------------------------------------------
(* runMonthlyBilling *)

\* The month is the one the clock shows when the run begins.
Start(r) ==
    /\ Step(r, "idle", "next")
    /\ plan' = [plan EXCEPT ![r] = [Idle EXCEPT !.of = month, !.left = Merchant]]
    /\ UNCHANGED <<month, money, held, faults>>

\* The merchants are taken one by one; a record of the month is looked for
\* outside any transaction.
CheckRecord(r) ==
    /\ run[r] = "next"
    /\ \E m \in plan[r].left :
          /\ Step(r, "next", IF <<m, plan[r].of>> \in records THEN "next" ELSE "lock")
          /\ plan' = [plan EXCEPT ![r].left = @ \ {m}, ![r].who = m]
    /\ UNCHANGED <<month, money, held, faults>>

\* SELECT ... FOR UPDATE waits for the row; too small a balance is an error
\* of this merchant and the month is not tried again by this run.
LockWallet(r) ==
    LET m == plan[r].who
    IN  /\ run[r] = "lock" /\ \A q \in Run : m \notin held[q]
        /\ IF balance[m] < Fee
           THEN Step(r, "lock", "next") /\ UNCHANGED <<held, plan>>
           ELSE /\ Step(r, "lock", "locked")
                /\ held' = [held EXCEPT ![r] = {m}]
                /\ plan' = [plan EXCEPT ![r].read = balance[m]]
        /\ UNCHANGED <<month, money, faults>>

Write(r) ==
    LET m == plan[r].who
    IN  /\ balance' = [balance EXCEPT ![m] = plan[r].read - Fee]
        /\ platform' = platform + Fee
        /\ entries' = [entries EXCEPT ![m][plan[r].of] = @ + 1]
        /\ records' = records \cup {<<m, plan[r].of>>}

\* Variant: nothing keeps a second record of a month out.
BillTwice(r) ==
    /\ Step(r, "locked", "next") /\ Write(r)
    /\ held' = [held EXCEPT ![r] = {}]
    /\ UNCHANGED <<month, plan, faults>>

\* The platform wallet is locked and all is written and committed; a second
\* record of the month violates its unique constraint and undoes it all.
Bill(r) ==
    /\ Step(r, "locked", "next")
    /\ IF <<plan[r].who, plan[r].of>> \in records THEN UNCHANGED money ELSE Write(r)
    /\ held' = [held EXCEPT ![r] = {}]
    /\ UNCHANGED <<month, plan, faults>>

Finish(r) ==
    /\ plan[r].left = {} /\ Step(r, "next", "idle")
    /\ plan' = [plan EXCEPT ![r] = Idle]
    /\ UNCHANGED <<month, money, held, faults>>

\* The process dies: its transaction is rolled back.
Crash(r) ==
    /\ Fault /\ run[r] # "idle"
    /\ run' = [run EXCEPT ![r] = "idle"]
    /\ plan' = [plan EXCEPT ![r] = Idle]
    /\ held' = [held EXCEPT ![r] = {}]
    /\ UNCHANGED <<month, money>>

\* The merchant pays out of its wallet, under the lock of the row.
Spend ==
    \E m \in Merchant :
        /\ Fault /\ balance[m] > 0 /\ \A q \in Run : m \notin held[q]
        /\ balance' = [balance EXCEPT ![m] = @ - 1]
        /\ UNCHANGED <<month, platform, entries, records, held, run, plan>>

NewMonth ==
    /\ month < MaxMonth /\ month' = month + 1
    /\ UNCHANGED <<money, held, run, plan, faults>>

-----------------------------------------------------------------------------

Init ==
    /\ month = 0
    /\ balance = [m \in Merchant |-> Opening] /\ platform = 0
    /\ entries = [m \in Merchant |-> [k \in Month |-> 0]]
    /\ records = {}
    /\ held = [r \in Run |-> {}]
    /\ run = [r \in Run |-> "idle"]
    /\ plan = [r \in Run |-> Idle]
    /\ faults = 0

Progress(r) ==
    Start(r) \/ CheckRecord(r) \/ LockWallet(r) \/ Bill(r) \/ Finish(r)

Next ==
    \/ \E r \in Run : Progress(r) \/ Crash(r)
    \/ Spend \/ NewMonth

Spec == Init /\ [][Next]_vars

-----------------------------------------------------------------------------
(* Properties *)

TypeOK ==
    /\ month \in Month
    /\ balance \in [Merchant -> 0..Opening] /\ platform \in Nat
    /\ entries \in [Merchant -> [Month -> Nat]]
    /\ records \subseteq Merchant \X Month
    /\ held \in [Run -> SUBSET Merchant]
    /\ run \in [Run -> {"idle", "next", "lock", "locked"}]

(* Overlapping and repeated runs charge a merchant once a month: the debits  *)
(* of a month are its record, and the platform has received each of them.    *)
(* The record is read before the lock; the unique constraint decides.        *)
BilledOnce ==
    /\ \A m \in Merchant, k \in Month :
          entries[m][k] = IF <<m, k>> \in records THEN 1 ELSE 0
    /\ platform = Fee * Cardinality(records)

=============================================================================
