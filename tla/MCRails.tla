------------------------------- MODULE MCRails -------------------------------
(* The rails of Tylt and Tekko.  They share no state but the wallets, which  *)
(* WalletLedger is about: a behaviour is one payment on one of them, as      *)
(* world says from the start, and the others stay where they are.            *)
EXTENDS TekkoPayout

CONSTANTS Rail, Handler, Legacy, MaxManual,  \* of the other worlds
          Callback, Fiat, Quote,
          Product, Late, MaxStumbles,
          Caller, MaxSubmits, MaxBlocks

ASSUME RailsAssumption ==
    /\ {Fiat, Quote, MaxManual, MaxStumbles, MaxSubmits, MaxBlocks} \subseteq Nat
    /\ Rail \subseteq {"crossramp", "h2h", "cpg", "eur"}
    /\ Product \subseteq {"collect", "pyusd", "va"}
    /\ {"poll", "staff"} \cap Handler = {}
    /\ {Legacy, Late} \subseteq BOOLEAN

VARIABLES world,  \* which of them the behaviour is about
          tRail, tStatus, tCredits, tReversals, tFees, tRequest, tOrder,
          tTaken, tManuals, tHook, tNote,
          cStatus, cEntries, cBalance, cReview, cRequest, cOrder, cSays,
          cHook, cEvent, cTold, cErrors,
          eStatus, eAmount, eDebited, eRefunded, eFees, eBalance, eRequest,
          eOrder, eHook, eRead, eTold, eErrors,
          kProduct, kStatus, kCredits, kFees, kRequest, kOrder, kMapped,
          kEvent, kHook, kNote, kStumbles,
          vLocal, vLegacyVa, vLinked, vRemote, vRemoteVa, vCall, vNote,
          vSubmits, vBlocks, vBlocked, vAccepted

TyltPayins == INSTANCE TyltPayin WITH
    rail <- tRail, status <- tStatus, credits <- tCredits, reversals <-
    tReversals, fees <- tFees, request <- tRequest, order <- tOrder, taken <-
    tTaken, manuals <- tManuals, hook <- tHook, note <- tNote
CpgPayouts == INSTANCE CpgPayout WITH
    status <- cStatus, entries <- cEntries, balance <- cBalance, review <-
    cReview, request <- cRequest, order <- cOrder, says <- cSays, hook <-
    cHook, event <- cEvent, told <- cTold, errors <- cErrors
EurPayouts == INSTANCE EurPayout WITH
    Opening <- {0, Opening}, status <- eStatus, amount <- eAmount, debited <-
    eDebited, refunded <- eRefunded, fees <- eFees, balance <- eBalance,
    request <- eRequest, order <- eOrder, hook <- eHook, read <- eRead, told
    <- eTold, errors <- eErrors
TekkoPayins == INSTANCE TekkoPayin WITH
    product <- kProduct, status <- kStatus, credits <- kCredits, fees <-
    kFees, request <- kRequest, order <- kOrder, mapped <- kMapped, event <-
    kEvent, hook <- kHook, note <- kNote, stumbles <- kStumbles
Accounts == INSTANCE TekkoVa WITH
    local <- vLocal, legacyVa <- vLegacyVa, linked <- vLinked, remote <-
    vRemote, remoteVa <- vRemoteVa, call <- vCall, note <- vNote, submits <-
    vSubmits, blocks <- vBlocks, blocked <- vBlocked, accepted <- vAccepted

TyltPayinsVars == <<tRail, tStatus, tCredits, tReversals, tFees, tRequest,
                    tOrder, tTaken, tManuals, tHook, tNote>>
CpgPayoutsVars == <<cStatus, cEntries, cBalance, cReview, cRequest, cOrder,
                    cSays, cHook, cEvent, cTold, cErrors>>
EurPayoutsVars == <<eStatus, eAmount, eDebited, eRefunded, eFees, eBalance,
                    eRequest, eOrder, eHook, eRead, eTold, eErrors>>
TekkoPayinsVars == <<kProduct, kStatus, kCredits, kFees, kRequest, kOrder,
                     kMapped, kEvent, kHook, kNote, kStumbles>>
AccountsVars == <<vLocal, vLegacyVa, vLinked, vRemote, vRemoteVa, vCall,
                  vNote, vSubmits, vBlocks, vBlocked, vAccepted>>

\* What the worlds that are not looked at hold.
TyltPayinsOff ==
    tRail = 0 /\ tStatus = 0 /\ tCredits = 0 /\ tReversals = 0 /\ tFees = 0 /\
    tRequest = 0 /\ tOrder = 0 /\ tTaken = 0 /\ tManuals = 0 /\ tHook = 0 /\
    tNote = 0
CpgPayoutsOff ==
    cStatus = 0 /\ cEntries = 0 /\ cBalance = 0 /\ cReview = 0 /\ cRequest = 0
    /\ cOrder = 0 /\ cSays = 0 /\ cHook = 0 /\ cEvent = 0 /\ cTold = 0 /\
    cErrors = 0
EurPayoutsOff ==
    eStatus = 0 /\ eAmount = 0 /\ eDebited = 0 /\ eRefunded = 0 /\ eFees = 0
    /\ eBalance = 0 /\ eRequest = 0 /\ eOrder = 0 /\ eHook = 0 /\ eRead = 0 /\
    eTold = 0 /\ eErrors = 0
TekkoPayinsOff ==
    kProduct = 0 /\ kStatus = 0 /\ kCredits = 0 /\ kFees = 0 /\ kRequest = 0
    /\ kOrder = 0 /\ kMapped = 0 /\ kEvent = 0 /\ kHook = 0 /\ kNote = 0 /\
    kStumbles = 0
AccountsOff ==
    vLocal = 0 /\ vLegacyVa = 0 /\ vLinked = 0 /\ vRemote = 0 /\ vRemoteVa = 0
    /\ vCall = 0 /\ vNote = 0 /\ vSubmits = 0 /\ vBlocks = 0 /\ vBlocked = 0
    /\ vAccepted = 0

AllInit ==
    /\ Init
    /\ world \in {"payout", "tylt", "cpg", "eur", "tekko", "va"}
    /\ IF world = "tylt" THEN TyltPayins!Init ELSE TyltPayinsOff
    /\ IF world = "cpg" THEN CpgPayouts!Init ELSE CpgPayoutsOff
    /\ IF world = "eur" THEN EurPayouts!Init ELSE EurPayoutsOff
    /\ IF world = "tekko" THEN TekkoPayins!Init ELSE TekkoPayinsOff
    /\ IF world = "va" THEN Accounts!Init ELSE AccountsOff

AllNext ==
    /\ \/ /\ world = "payout" /\ Next
          /\ UNCHANGED <<TyltPayinsVars, CpgPayoutsVars, EurPayoutsVars, TekkoPayinsVars, AccountsVars>>
       \/ /\ world = "tylt" /\ TyltPayins!Next
          /\ UNCHANGED <<vars, CpgPayoutsVars, EurPayoutsVars, TekkoPayinsVars, AccountsVars>>
       \/ /\ world = "cpg" /\ CpgPayouts!Next
          /\ UNCHANGED <<vars, TyltPayinsVars, EurPayoutsVars, TekkoPayinsVars, AccountsVars>>
       \/ /\ world = "eur" /\ EurPayouts!Next
          /\ UNCHANGED <<vars, TyltPayinsVars, CpgPayoutsVars, TekkoPayinsVars, AccountsVars>>
       \/ /\ world = "tekko" /\ TekkoPayins!Next
          /\ UNCHANGED <<vars, TyltPayinsVars, CpgPayoutsVars, EurPayoutsVars, AccountsVars>>
       \/ /\ world = "va" /\ Accounts!Next
          /\ UNCHANGED <<vars, TyltPayinsVars, CpgPayoutsVars, EurPayoutsVars, TekkoPayinsVars>>
    /\ UNCHANGED world

allVars == <<world, vars, TyltPayinsVars, CpgPayoutsVars,
             EurPayoutsVars, TekkoPayinsVars, AccountsVars>>

AllSpec == AllInit /\ [][AllNext]_allVars

\* The fairness of TekkoPayout and of TekkoPayin, each in its world.
AllFairSpec ==
    /\ AllSpec
    /\ WF_vars(world = "payout" /\ PollStep)
    /\ \A h \in TekkoPayins!Actor : WF_TekkoPayinsVars(world = "tekko" /\ TekkoPayins!Apply(h))
    /\ WF_TekkoPayinsVars(world = "tekko" /\ \E h \in Handler : TekkoPayins!ClaimWebhook(h))
    /\ WF_TekkoPayinsVars(world = "tekko" /\ TekkoPayins!FixMapping)

-----------------------------------------------------------------------------
(* The properties of each world, explained in its module; EntriesMatchStatus *)
(* is TekkoPayout's.                                                         *)

\* Every variable of every world has its type.
TypesOK ==
    /\ TypeOK
    /\ world = "tylt" => TyltPayins!TypeOK
    /\ world = "cpg" => CpgPayouts!TypeOK
    /\ world = "eur" => EurPayouts!TypeOK
    /\ world = "tekko" => TekkoPayins!TypeOK
    /\ world = "va" => Accounts!TypeOK

\* cpg-payout.ts, eur-payout.ts, ngn-payout.ts: however callbacks, status calls
\* and the request overlap, a payout is settled as the provider reported the
\* withdrawal that the row names, and a failed one returns, once, the amount
\* that the row held when the callback found it.
PayoutsFollowReports ==
    /\ world = "payout" => SettledAsReported
    /\ world = "cpg" => CpgPayouts!FollowsTheRecord
    /\ world = "eur" => EurPayouts!RefundsWhatItRead

\* docs/MONEY_INVARIANTS.md: callbacks credit the wallet exactly once, however
\* they, their repeats, status calls and reconciles overlap.
CreditedOnce ==
    /\ world = "tylt" => TyltPayins!CreditedOnce /\ TyltPayins!CreditedIsPaid
    /\ world = "tekko" => TekkoPayins!CreditedOnce

\* What Tekko has settled is applied: a pay-in reaches the wallet and a payout
\* does not stay pending, though handlers die and callbacks come too early.
TekkoIsFollowed ==
    /\ SettledIsApplied
    /\ world = "tekko" /\ kOrder = "credited" ~> world = "tekko" /\ kCredits = 1

\* ngn-va.ts: a payout is only tried for a merchant that Tekko has accepted, and
\* the account that is shown is one that Tekko has opened.
VerifiedByTekko ==
    world = "va" => Accounts!VerifiedByTekko /\ Accounts!AccountIsReal
==============================================================================
