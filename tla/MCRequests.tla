----------------------------- MODULE MCRequests -----------------------------
(* What surrounds a payment request: its Idempotency-Key, the payout PIN and *)
(* the events it leaves for the merchant.  They share no state: a behaviour  *)
(* is one of them, as world says, and the others stay where they are.        *)
EXTENDS Idempotency

CONSTANTS Call, MaxFailed, LockTime,  \* of the other worlds
          Event, Mail, Down, BatchSize, RetryLimit, MaxReplays, MaxFaults

\* Two kinds of jobs, a batch of one at least, and bounds.
ASSUME RequestsAssumption ==
    /\ {MaxFailed, LockTime, RetryLimit} \subseteq Nat /\ BatchSize \in Nat \ {0}
    /\ Event \cap Mail = {}

VARIABLES world,  \* which of them the behaviour is about
          pConfigured, pFailed, pLocked, pLink, pCall, pRead,
          dJob, dBatch, dAt, dRows, dAddress, dAccepted, dPosted, dSkipped,
          dFaults

Pins == INSTANCE PayoutPin WITH
    configured <- pConfigured, failed <- pFailed, locked <- pLocked, link <-
    pLink, call <- pCall, read <- pRead
Deliveries == INSTANCE Delivery WITH
    job <- dJob, batch <- dBatch, at <- dAt, rows <- dRows, address <-
    dAddress, accepted <- dAccepted, posted <- dPosted, skipped <- dSkipped,
    faults <- dFaults

PinsVars == <<pConfigured, pFailed, pLocked, pLink, pCall, pRead>>
DeliveriesVars == <<dJob, dBatch, dAt, dRows, dAddress, dAccepted, dPosted,
                    dSkipped, dFaults>>

\* What the worlds that are not looked at hold.
PinsOff ==
    pConfigured = 0 /\ pFailed = 0 /\ pLocked = 0 /\ pLink = 0 /\ pCall = 0 /\
    pRead = 0
DeliveriesOff ==
    dJob = 0 /\ dBatch = 0 /\ dAt = 0 /\ dRows = 0 /\ dAddress = 0 /\
    dAccepted = 0 /\ dPosted = 0 /\ dSkipped = 0 /\ dFaults = 0

AllInit ==
    /\ Init
    /\ world \in {"key", "pin", "delivery"}
    /\ world # "key" => slot = Absent /\ body = [r \in Request |-> CHOOSE b \in Body : TRUE]
    /\ IF world = "pin" THEN Pins!Init ELSE PinsOff
    /\ IF world = "delivery" THEN Deliveries!Init ELSE DeliveriesOff

AllNext ==
    /\ \/ world = "key" /\ Next /\ UNCHANGED <<PinsVars, DeliveriesVars>>
       \/ world = "pin" /\ Pins!Next /\ UNCHANGED <<vars, DeliveriesVars>>
       \/ world = "delivery" /\ Deliveries!Next /\ UNCHANGED <<vars, PinsVars>>
    /\ UNCHANGED world

AllSpec == AllInit /\ [][AllNext]_<<world, vars, PinsVars, DeliveriesVars>>

\* The fairness of Idempotency and of PayoutPin, each in its world.
AllFairSpec ==
    /\ AllSpec
    /\ \A r \in Request : WF_vars(world = "key" /\ Proceed(r))
    /\ WF_PinsVars(world = "pin" /\ Pins!Tick)
    /\ \A c \in Call : WF_PinsVars(world = "pin" /\ Pins!Finish(c))

-----------------------------------------------------------------------------
(* The properties of each world, explained in its module; FreshOnce,         *)
(* ReplayIsFaithful and SlotSettles are Idempotency's.                       *)

\* Every variable of every world has its type.
TypesOK ==
    /\ TypeOK
    /\ world = "pin" => Pins!TypeOK
    /\ world = "delivery" => Deliveries!TypeOK

\* merchant-payout-pin.ts: a locked PIN is free again after LOCK_MINUTES, however
\* many wrong PINs race.
LockEnds == []<>(pLocked = 0)

\* server.ts, merchant-webhook.ts: what the queue calls completed and what the
\* portal shows as a success was taken by its receiver, whatever failed in its
\* batch.
ShownIsTold ==
    world = "delivery" => Deliveries!CompletedIsTold /\ Deliveries!SuccessWasTaken
==============================================================================
