---------------------------- MODULE PayoutApproval ----------------------------
(***************************************************************************)
(* payout-approvals: a payout over the dual-control threshold is queued    *)
(* for 15 minutes, until another user of the merchant approves it; the     *)
(* approval claims the row first and then runs the rail, outside any       *)
(* database transaction.  What the rail does is in PayokPayout.            *)
(***************************************************************************)
EXTENDS Naturals

CONSTANTS Proposal,  \* payouts that need a second user
          User,      \* users of the merchant who may submit and approve
          None,      \* nobody
          MaxCrash,  \* bound: calls whose process dies
          MaxError   \* bound: queries that fail

ASSUME PayoutApprovalAssumption ==
    None \notin User /\ MaxCrash \in Nat /\ MaxError \in Nat

VARIABLES state,   \* status of each row, "absent" before it is queued
          maker,   \* requested_by
          decider, \* approved_by
          lapsed,  \* whether expires_at has passed
          call,    \* call[p][u]: where the approve call of u is
          paid,    \* paid[p]: payouts the rail created for p
          crashes, errors

row == <<state, maker, decider>>
limits == <<crashes, errors>>
vars == <<row, lapsed, call, paid, limits>>

Final == {"executed", "execution_failed", "rejected", "expired"}

Step(p, u, from, to) ==
    call[p][u] = from /\ call' = [call EXCEPT ![p][u] = to]

Become(p, s) == state' = [state EXCEPT ![p] = s]

Fail == errors < MaxError /\ errors' = errors + 1

-----------------------------------------------------------------------------
\* evaluatePortalPayoutGate: amount or velocity asks for a second user.
QueueApprovalRequest(p, u) ==
    /\ state[p] = "absent"
    /\ Become(p, "pending")
    /\ maker' = [maker EXCEPT ![p] = u]
    /\ UNCHANGED <<decider, lapsed, call, paid, limits>>

Lapse(p) ==
    /\ state[p] # "absent" /\ ~lapsed[p]
    /\ lapsed' = [lapsed EXCEPT ![p] = TRUE]
    /\ UNCHANGED <<row, call, paid, limits>>

\* The row is read; the maker is turned away.
ReadProposal(p, u) ==
    /\ state[p] # "absent" /\ maker[p] # u
    /\ IF state[p] = "pending" /\ lapsed[p]
       THEN Step(p, u, "idle", "expiring")
       ELSE Step(p, u, "idle", "claiming")
    /\ UNCHANGED <<row, lapsed, paid, limits>>

\* Variant: the row gets the status of one its maker took back.
ExpireAsCancelled(p, u) ==
    /\ Step(p, u, "expiring", "idle")
    /\ state' = [state EXCEPT ![p] = IF @ = "pending" THEN "cancelled" ELSE @]
    /\ UNCHANGED <<maker, decider, lapsed, paid, limits>>

\* What is still pending expires.
Expire(p, u) ==
    /\ Step(p, u, "expiring", "idle")
    /\ state' = [state EXCEPT ![p] = IF @ = "pending" THEN "expired" ELSE @]
    /\ UNCHANGED <<maker, decider, lapsed, paid, limits>>

\* Variant: the claim does not look at the row again.
ClaimUnconditionally(p, u) ==
    /\ Step(p, u, "claiming", "revalidating")
    /\ Become(p, "approved")
    /\ decider' = [decider EXCEPT ![p] = u]
    /\ UNCHANGED <<maker, lapsed, paid, limits>>

\* One conditional UPDATE decides who approves.
Claim(p, u) ==
    /\ \/ /\ state[p] = "pending" /\ ~lapsed[p]
          /\ Step(p, u, "claiming", "revalidating")
          /\ Become(p, "approved")
          /\ decider' = [decider EXCEPT ![p] = u]
       \/ /\ state[p] # "pending" \/ lapsed[p]
          /\ Step(p, u, "claiming", "idle")
          /\ UNCHANGED <<state, decider>>
    /\ UNCHANGED <<maker, lapsed, paid, limits>>

\* Variant: a payout that no longer passes leaves its row as it is.
RevalidateSilently(p, u) ==
    /\ \/ Step(p, u, "revalidating", "executing")
       \/ Step(p, u, "revalidating", "idle")
    /\ UNCHANGED <<row, lapsed, paid, limits>>

\* Market access, limits and velocity are checked again.
Revalidate(p, u) ==
    /\ \/ Step(p, u, "revalidating", "executing") /\ UNCHANGED state
       \/ Step(p, u, "revalidating", "idle") /\ Become(p, "execution_failed")
    /\ UNCHANGED <<maker, decider, lapsed, paid, limits>>

\* The rail returns, or throws before or after its provider took the payout.
ExecuteRail(p, u) ==
    /\ \/ /\ Step(p, u, "executing", "recording")
          /\ paid' = [paid EXCEPT ![p] = @ + 1]
       \/ /\ Step(p, u, "executing", "failing")
          /\ paid' \in {paid, [paid EXCEPT ![p] = @ + 1]}
    /\ UNCHANGED <<row, lapsed, limits>>

\* The UPDATE shares its try block with the rail: its failure is the rail's.
RecordExecuted(p, u) ==
    /\ \/ Step(p, u, "recording", "idle") /\ Become(p, "executed")
          /\ UNCHANGED errors
       \/ Step(p, u, "recording", "failing") /\ Fail /\ UNCHANGED state
    /\ UNCHANGED <<maker, decider, lapsed, paid, crashes>>

RecordFailed(p, u) ==
    /\ Step(p, u, "failing", "idle")
    /\ \/ Become(p, "execution_failed") /\ UNCHANGED errors
       \/ Fail /\ UNCHANGED state
    /\ UNCHANGED <<maker, decider, lapsed, paid, crashes>>

\* The maker too may reject, and a lapsed row may be rejected.
Reject(p, u) ==
    /\ state[p] = "pending"
    /\ Become(p, "rejected")
    /\ decider' = [decider EXCEPT ![p] = u]
    /\ UNCHANGED <<maker, lapsed, call, paid, limits>>

\* A query outside the try block fails: the call ends where it is.
CallThrows(p, u) ==
    /\ Fail
    /\ \E step \in {"expiring", "claiming", "revalidating"} :
           Step(p, u, step, "idle")
    /\ UNCHANGED <<row, lapsed, paid, crashes>>

\* The process dies under the call; under the rail, its effect may stand.
CallDies(p, u) ==
    /\ crashes < MaxCrash
    /\ crashes' = crashes + 1
    /\ call[p][u] # "idle"
    /\ call' = [call EXCEPT ![p][u] = "idle"]
    /\ paid' \in {paid, [paid EXCEPT ![p] = @ + (IF call[p][u] = "executing"
                                                 THEN 1 ELSE 0)]}
    /\ UNCHANGED <<row, lapsed, errors>>

-----------------------------------------------------------------------------
Init ==
    /\ state = [p \in Proposal |-> "absent"]
    /\ maker = [p \in Proposal |-> None]
    /\ decider = [p \in Proposal |-> None]
    /\ lapsed = [p \in Proposal |-> FALSE]
    /\ call = [p \in Proposal |-> [u \in User |-> "idle"]]
    /\ paid = [p \in Proposal |-> 0]
    /\ crashes = 0 /\ errors = 0

Approve(p, u) ==
    \/ Expire(p, u) \/ Claim(p, u) \/ Revalidate(p, u)
    \/ ExecuteRail(p, u) \/ RecordExecuted(p, u) \/ RecordFailed(p, u)

Next == \E p \in Proposal :
    \/ Lapse(p)
    \/ \E u \in User :
           \/ QueueApprovalRequest(p, u) \/ ReadProposal(p, u) \/ Approve(p, u)
           \/ Reject(p, u) \/ CallThrows(p, u) \/ CallDies(p, u)

Spec == Init /\ [][Next]_vars

\* An approve call that runs goes on, unless its process dies.
FairSpec == Spec /\ \A p \in Proposal, u \in User : WF_vars(Approve(p, u))

-----------------------------------------------------------------------------
(* Properties *)

\* Every variable has its type.
TypeOK ==
    /\ state \in [Proposal -> {"absent", "pending", "approved"} \cup Final]
    /\ maker \in [Proposal -> User \cup {None}]
    /\ decider \in [Proposal -> User \cup {None}]
    /\ lapsed \in [Proposal -> BOOLEAN]
    /\ call \in [Proposal -> [User -> {"idle", "expiring", "claiming",
                     "revalidating", "executing", "recording", "failing"}]]
    /\ paid \in [Proposal -> Nat]
    /\ crashes \in 0 .. MaxCrash /\ errors \in 0 .. MaxError

\* However many users approve, reject and retry, a payout goes out at most
\* once, and only if somebody other than its maker claimed it.
PaidOnceIfApproved ==
    \A p \in Proposal : paid[p] > 0 =>
        /\ paid[p] = 1
        /\ state[p] \in {"approved", "executed", "execution_failed"}
        /\ decider[p] # maker[p]

\* A row recorded as executed has its payout: success is never guessed.
ExecutedWasPaid == \A p \in Proposal : state[p] = "executed" => paid[p] = 1

\* A decision is final: rejection, expiry and execution race for one row, and
\* only the first counts.
DecisionIsFinal ==
    [][\A p \in Proposal : state[p] \in Final => state'[p] = state[p]]_vars

\* An approved payout is executed or fails, unless a call died or a query of one
\* failed: nothing in the code takes such a row up again.
ApprovedSettles ==
    \A p \in Proposal : state[p] = "approved"
                            ~> \/ state[p] \in {"executed", "execution_failed"}
                               \/ crashes + errors > 0
=============================================================================
