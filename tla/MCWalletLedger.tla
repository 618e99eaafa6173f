--------------------------- MODULE MCWalletLedger ---------------------------
(* The run of WalletLedger: either three sessions race with the flows that   *)
(* lock, or (Serial) one session runs any three operations, among them those *)
(* that do not lock and the correction that debits a wallet unseen.  Which,  *)
(* is chosen at the start; the other stays where it is.                      *)
EXTENDS WalletLedger

CONSTANT s1  \* the session that runs alone

ASSUME LoneAssumption == s1 # None

AllFlow == LockedFlow \cup UnlockedFlow \cup {"correct"}

VARIABLES world,  \* which of them the behaviour is about
          sBalance, sPosted, sLockOwner, sPc, sOp, sDraft, sDelta, sStarted

Serial == INSTANCE WalletLedger WITH
    Session <- {s1}, Customer <- {1}, Merchant <- {2, 3}, Amount <- {1, 2},
    Fee <- {0, 1}, Opening <- {0, 2}, Flow <- AllFlow, balance <- sBalance,
    posted <- sPosted, lockOwner <- sLockOwner, pc <- sPc, op <- sOp, draft <-
    sDraft, delta <- sDelta, started <- sStarted

SerialVars == <<sBalance, sPosted, sLockOwner, sPc, sOp, sDraft, sDelta,
                sStarted>>

\* What the worlds that are not looked at hold.
SerialOff ==
    sBalance = 0 /\ sPosted = 0 /\ sLockOwner = 0 /\ sPc = 0 /\ sOp = 0 /\
    sDraft = 0 /\ sDelta = 0 /\ sStarted = 0

AllInit ==
    /\ Init
    /\ world \in {"race", "serial"}
    /\ IF world = "serial" THEN Serial!Init ELSE SerialOff

AllNext ==
    /\ \/ world = "race" /\ Next /\ UNCHANGED SerialVars
       \/ world = "serial" /\ Serial!Next /\ UNCHANGED vars
    /\ UNCHANGED world

AllSpec == AllInit /\ [][AllNext]_<<world, vars, SerialVars>>

-----------------------------------------------------------------------------
(* The other properties are WalletLedger's.                                  *)

\* docs/MONEY_INVARIANTS.md: every balance is the sum of its ledger entries, for
\* the flows too that lock no row or overdraw a wallet, when nothing runs beside
\* them: each stages as much as it posts.
SerialMatchesLedger == world = "serial" => Serial!BalanceMatchesLedger
==============================================================================
