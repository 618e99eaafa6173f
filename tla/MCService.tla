------------------------------ MODULE MCService ------------------------------
(* Around the payments: provider approvals, the circuit breaker of outbound  *)
(* calls, the markets of a merchant and the monthly fees.  They share no     *)
(* state: a behaviour is one of them, as world says, and the others stay     *)
(* where they are.                                                           *)
EXTENDS ProviderApproval, TLC

CONSTANTS i1, i2, c1, c2, u3,  \* the requests, processes and calls of the worlds
          Instance, Call, Retries, Threshold, Cooldown, MaxTime, MaxLost,
          Market, TekkoMarket, KycRequired, SetsEntitlement, SetsKyb,
          MaxWallets, MaxCrashes,
          Run, Merchant, Fee, Float, MaxMonth, MaxFaults

ASSUME ServiceAssumption ==
    /\ {Threshold, Cooldown, MaxTime, MaxLost, Retries} \subseteq Nat
    /\ SetsEntitlement \subseteq {"none", "disabled", "requested",
                                 "kyb_in_review", "approved", "suspended"}
    /\ SetsKyb \subseteq {"none", "not_started", "pending", "verified", "rejected"}
    /\ {MaxWallets, Fee, Float, MaxMonth} \subseteq Nat

VARIABLES world,  \* which of them the behaviour is about
          cNow, cLocal, cShared, cCall, cNote, cOpened, cLost,
          mRow, mKyc, mWallets, mAt, mNote, mCrashes,
          bMonth, bBalance, bPlatform, bEntries, bRecords, bHeld, bRun, bPlan,
          bFaults

Circuits == INSTANCE CircuitBreaker WITH
    now <- cNow, local <- cLocal, shared <- cShared, call <- cCall, note <-
    cNote, opened <- cOpened, lost <- cLost
Boards == INSTANCE Markets WITH
    Caller <- Call, row <- mRow, kyc <- mKyc, wallets <- mWallets, at <- mAt,
    note <- mNote, crashes <- mCrashes
Bills == INSTANCE Billing WITH
    Opening <- Float, month <- bMonth, balance <- bBalance, platform <-
    bPlatform, entries <- bEntries, records <- bRecords, held <- bHeld, run <-
    bRun, plan <- bPlan, faults <- bFaults

CircuitsVars == <<cNow, cLocal, cShared, cCall, cNote, cOpened, cLost>>
BoardsVars == <<mRow, mKyc, mWallets, mAt, mNote, mCrashes>>
BillsVars == <<bMonth, bBalance, bPlatform, bEntries, bRecords, bHeld, bRun,
               bPlan, bFaults>>

\* What the worlds that are not looked at hold.
CircuitsOff ==
    cNow = 0 /\ cLocal = 0 /\ cShared = 0 /\ cCall = 0 /\ cNote = 0 /\ cOpened
    = 0 /\ cLost = 0
BoardsOff ==
    mRow = 0 /\ mKyc = 0 /\ mWallets = 0 /\ mAt = 0 /\ mNote = 0 /\ mCrashes =
    0
BillsOff ==
    bMonth = 0 /\ bBalance = 0 /\ bPlatform = 0 /\ bEntries = 0 /\ bRecords =
    0 /\ bHeld = 0 /\ bRun = 0 /\ bPlan = 0 /\ bFaults = 0

AllInit ==
    /\ Init
    /\ world \in {"approval", "circuit", "market", "billing"}
    /\ IF world = "circuit" THEN Circuits!Init ELSE CircuitsOff
    /\ IF world = "market" THEN Boards!Init ELSE BoardsOff
    /\ IF world = "billing" THEN Bills!Init ELSE BillsOff

AllNext ==
    /\ \/ world = "approval" /\ Next /\ UNCHANGED <<CircuitsVars, BoardsVars, BillsVars>>
       \/ world = "circuit" /\ Circuits!Next /\ UNCHANGED <<vars, BoardsVars, BillsVars>>
       \/ world = "market" /\ Boards!Next /\ UNCHANGED <<vars, CircuitsVars, BillsVars>>
       \/ world = "billing" /\ Bills!Next /\ UNCHANGED <<vars, CircuitsVars, BoardsVars>>
    /\ UNCHANGED world

AllSpec == AllInit /\ [][AllNext]_<<world, vars, CircuitsVars, BoardsVars, BillsVars>>

\* Any two requests, processes, calls and members of staff may do the same.
Symmetry == Permutations({i1, i2}) \cup Permutations({c1, c2})

-----------------------------------------------------------------------------
(* The properties of each world, explained in its module; MakerChecker is    *)
(* ProviderApproval's.                                                       *)

\* Every variable of every world has its type.
TypesOK ==
    /\ TypeOK
    /\ world = "circuit" => Circuits!TypeOK
    /\ world = "market" => Boards!TypeOK
    /\ world = "billing" => Bills!TypeOK

\* provider-circuit-breaker.ts: "A circuit opened on one app instance is honored
\* by all peers", whatever the calls under way on them succeed or fail at.
PeersHonour == world = "circuit" => Circuits!PeersHonour

\* merchant-markets.ts: once an approval is answered, the merchant has a wallet for
\* every currency it pays in, whatever was decided meanwhile.
ApprovedHasWallets == world = "market" => Boards!ApprovedHasWallets

\* monthly-billing.ts: runs that overlap, repeat or die charge a month once.
BilledOnce == world = "billing" => Bills!BilledOnce
==============================================================================
