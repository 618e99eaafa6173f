------------------------------- MODULE MCPayok -------------------------------
(* PayOK: payouts, a payout with staff beside a PayOK that answers           *)
(* (Staffed), a pay-in from its request to its end (Payins), and pay-ins     *)
(* that PayOK may settle before its answer is handled (Prompted).  A         *)
(* behaviour is one of these, as world says, and the others stay as they are.*)
EXTENDS PayokPayout

CONSTANTS p1,           \* the payment of Staffed and Payins
          Payin, Paid   \* of Prompted, of all pay-ins

\* What customers pay is an amount, and finitely many of them do.
ASSUME PayokAssumption == Paid \in Nat /\ IsFiniteSet(Payin)

VARIABLES world,  \* which of them the behaviour is about
          sStatus, sEntries, sFunds, sRequest, sOrder, sEvent, sHook, sAcked,
          sReplayed, sTold, sReview, sCrashes, sErrors,
          iStatus, iCredits, iFees, iPurses, iRequest, iOrder, iEvent, iAt,
          iTold, iCrashes, iErrors,
          eStatus, eCredits, eFees, ePurses, eRequest, eOrder, eEvent, eAt,
          eTold, eCrashes, eErrors

Staffed == INSTANCE PayokPayout WITH
    Payout <- {p1}, Lossy <- FALSE, Staff <- TRUE, status <- sStatus, entries
    <- sEntries, funds <- sFunds, request <- sRequest, order <- sOrder, event
    <- sEvent, hook <- sHook, acked <- sAcked, replayed <- sReplayed, told <-
    sTold, review <- sReview, crashes <- sCrashes, errors <- sErrors
Payins == INSTANCE PayokPayin WITH
    Payin <- {p1}, Prompt <- FALSE, status <- iStatus, credits <- iCredits,
    fees <- iFees, purses <- iPurses, request <- iRequest, order <- iOrder,
    event <- iEvent, at <- iAt, told <- iTold, crashes <- iCrashes, errors <-
    iErrors
Prompted == INSTANCE PayokPayin WITH
    Prompt <- TRUE, MaxCrash <- 0, MaxError <- 0, status <- eStatus, credits
    <- eCredits, fees <- eFees, purses <- ePurses, request <- eRequest, order
    <- eOrder, event <- eEvent, at <- eAt, told <- eTold, crashes <- eCrashes,
    errors <- eErrors

StaffedVars == <<sStatus, sEntries, sFunds, sRequest, sOrder, sEvent, sHook,
                 sAcked, sReplayed, sTold, sReview, sCrashes, sErrors>>
PayinsVars == <<iStatus, iCredits, iFees, iPurses, iRequest, iOrder, iEvent,
                iAt, iTold, iCrashes, iErrors>>
PromptedVars == <<eStatus, eCredits, eFees, ePurses, eRequest, eOrder, eEvent,
                  eAt, eTold, eCrashes, eErrors>>

\* What the worlds that are not looked at hold.
StaffedOff ==
    sStatus = 0 /\ sEntries = 0 /\ sFunds = 0 /\ sRequest = 0 /\ sOrder = 0 /\
    sEvent = 0 /\ sHook = 0 /\ sAcked = 0 /\ sReplayed = 0 /\ sTold = 0 /\
    sReview = 0 /\ sCrashes = 0 /\ sErrors = 0
PayinsOff ==
    iStatus = 0 /\ iCredits = 0 /\ iFees = 0 /\ iPurses = 0 /\ iRequest = 0 /\
    iOrder = 0 /\ iEvent = 0 /\ iAt = 0 /\ iTold = 0 /\ iCrashes = 0 /\
    iErrors = 0
PromptedOff ==
    eStatus = 0 /\ eCredits = 0 /\ eFees = 0 /\ ePurses = 0 /\ eRequest = 0 /\
    eOrder = 0 /\ eEvent = 0 /\ eAt = 0 /\ eTold = 0 /\ eCrashes = 0 /\
    eErrors = 0

AllInit ==
    /\ Init
    /\ world \in {"payout", "staffed", "payin", "prompted"}
    /\ IF world = "staffed" THEN Staffed!Init ELSE StaffedOff
    /\ IF world = "payin" THEN Payins!Init ELSE PayinsOff
    /\ IF world = "prompted" THEN Prompted!Init ELSE PromptedOff

AllNext ==
    /\ \/ world = "payout" /\ Next /\ UNCHANGED <<StaffedVars, PayinsVars, PromptedVars>>
       \/ world = "staffed" /\ Staffed!Next /\ UNCHANGED <<vars, PayinsVars, PromptedVars>>
       \/ world = "payin" /\ Payins!Next /\ UNCHANGED <<vars, StaffedVars, PromptedVars>>
       \/ world = "prompted" /\ Prompted!Next /\ UNCHANGED <<vars, StaffedVars, PayinsVars>>
    /\ UNCHANGED world

allVars == <<world, vars, StaffedVars, PayinsVars, PromptedVars>>

AllSpec == AllInit /\ [][AllNext]_allVars

\* The fairness of PayokPayout and of PayokPayin, each in its world.
AllFairSpec ==
    /\ AllSpec
    /\ \A p \in Payout : /\ WF_vars(world = "payout" /\ RequestStep(p))
                        /\ WF_vars(world = "payout" /\ Payok(p))
                        /\ WF_vars(world = "payout" /\ WebhookStep(p))
    /\ WF_PayinsVars(world = "payin" /\ Payins!RequestStep(p1))
    /\ WF_PayinsVars(world = "payin" /\ Payins!Payok(p1))
    /\ WF_PayinsVars(world = "payin" /\ Payins!WebhookStep(p1))
    /\ WF_PayinsVars(world = "payin" /\ Payins!StaffStep(p1))

-----------------------------------------------------------------------------
(* The properties of each world, explained in its module; EntriesMatchStatus, *)
(* ToldTheTruth, ImplementsPayoutOrder and PendingResolves are PayokPayout's. *)

\* Every variable of every world has its type.
TypesOK ==
    /\ TypeOK
    /\ world = "staffed" => Staffed!TypeOK
    /\ world = "payin" => Payins!TypeOK
    /\ world = "prompted" => Prompted!TypeOK

\* payout.ts: as long as PayOK answers, no beneficiary is paid with money that
\* the merchant got back, even if staff mark the payout failed meanwhile.
StaffReturnNothingPaid == world = "staffed" => Staffed!PaidNeverReturned

\* payin.ts, payin-reconcile.ts: webhook and reconcile credit a pay-in once, and
\* tell the merchant once what they did, also if the answer to the request comes
\* last of all.
CreditedOnce ==
    /\ world = "payin" => Payins!CreditedOnce /\ Payins!ToldOnce
    /\ world = "prompted" => Prompted!CreditedOnce /\ Prompted!ToldOnce

\* What PayOK settled does not stay pending, though a callback is lost.
OutcomeApplied ==
    world = "payin" /\ iOrder[p1] \in {"paid", "declined"}
        ~> world = "payin" /\ iStatus[p1] \in {"success", "failed"}

\* payin.ts: the pay-ins of a merchant are the abstract PayinOrder; and when the
\* answer to the request comes last, and two pay-ins each open a wallet, the
\* wallets together still hold what was credited.
ImplementsPayinOrder ==
    /\ [](world = "prompted" => Prompted!PursesExplained)
    /\ world = "payin" => Payins!AsPayinOrder!Init
    /\ [][world = "payin" => Payins!AsPayinOrder!Next \/ UNCHANGED Payins!AsPayinOrder!vars]_allVars
==============================================================================
