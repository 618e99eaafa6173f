--------------------------- MODULE ProviderApproval ---------------------------
(***************************************************************************)
(* provider_action_requests: high-risk wallet adjustments and status       *)
(* changes that one member of the provider's staff queues and another      *)
(* approves or rejects.  Approve runs in a database transaction, but reads *)
(* the request and the wallet without a lock; reject reads and writes      *)
(* apart.  Requests concern one wallet.                                    *)
(***************************************************************************)
EXTENDS Integers

CONSTANTS Request,   \* requests staff may queue
          Staff,     \* members with the approval.review permission
          Amount,    \* amount of an adjustment
          Opening,   \* opening balance of the wallet
          None       \* nobody, nothing

ASSUME ApprovalAssumption == Amount \in Nat \ {0} /\ Opening \in Nat /\ None \notin Staff

VARIABLES state,    \* status of each request, "absent" before it is queued
          kind,     \* what it asks for
          maker,    \* who queued it
          decider,  \* approved_by: who approved or rejected it last
          entries,  \* ledger entries posted for it
          balance,  \* balance of the wallet
          call,     \* call[r][u]: where the call of u about r is
          draft     \* draft[r][u]: the balance that call has read

request == <<state, kind, maker, decider>>
money == <<entries, balance>>
vars == <<request, money, call, draft>>

Kind == {"credit", "debit", "status"}

Step(r, u, from, to) ==
    call[r][u] = from /\ call' = [call EXCEPT ![r][u] = to]

\* The adjustment or status change needs a second pair of eyes.
Queue(r, u, k) ==
    /\ state[r] = "absent"
    /\ state' = [state EXCEPT ![r] = "pending"]
    /\ kind' = [kind EXCEPT ![r] = k]
    /\ maker' = [maker EXCEPT ![r] = u]
    /\ UNCHANGED <<decider, money, call, draft>>

\* Variant: anyone may approve.
ReadForApprovalByAnyone(r, u) ==
    /\ state[r] = "pending"
    /\ Step(r, u, "idle", "approving")
    /\ UNCHANGED <<request, money, draft>>

\* Approve begins: the request is pending and somebody else's.
ReadForApproval(r, u) ==
    /\ state[r] = "pending" /\ maker[r] # u
    /\ Step(r, u, "idle", "approving")
    /\ UNCHANGED <<request, money, draft>>

\* The wallet is read; a debit it does not cover ends the call.
ReadWallet(r, u) ==
    /\ \/ /\ kind[r] = "debit" /\ balance < Amount
          /\ Step(r, u, "approving", "idle")
          /\ UNCHANGED draft
       \/ /\ kind[r] = "debit" => balance >= Amount
          /\ Step(r, u, "approving", "executing")
          /\ draft' = [draft EXCEPT ![r][u] = balance]
    /\ UNCHANGED <<request, money>>

\* Variant: the balance is changed where it stands, unchecked.
ExecuteRelative(r, u) ==
    /\ Step(r, u, "executing", "idle")
    /\ entries' = [entries EXCEPT ![r] = @ + 1]
    /\ balance' = IF kind[r] = "debit" THEN balance - Amount
                                       ELSE balance + Amount
    /\ state' = [state EXCEPT ![r] = "executed"]
    /\ decider' = [decider EXCEPT ![r] = u]
    /\ UNCHANGED <<kind, maker, draft>>

\* The writes, which wait for those of another call, and the commit.
Execute(r, u) ==
    /\ Step(r, u, "executing", "idle")
    /\ \/ kind[r] = "status" /\ UNCHANGED money
       \/ /\ kind[r] # "status"
          /\ entries' = [entries EXCEPT ![r] = @ + 1]
          /\ balance' = IF kind[r] = "debit" THEN draft[r][u] - Amount
                                             ELSE draft[r][u] + Amount
    /\ state' = [state EXCEPT ![r] = "executed"]
    /\ decider' = [decider EXCEPT ![r] = u]
    /\ UNCHANGED <<kind, maker, draft>>

\* Reject begins; the maker may withdraw a request this way.
ReadForRejection(r, u) ==
    /\ state[r] = "pending"
    /\ Step(r, u, "idle", "rejecting")
    /\ UNCHANGED <<request, money, draft>>

Reject(r, u) ==
    /\ Step(r, u, "rejecting", "idle")
    /\ state' = [state EXCEPT ![r] = "rejected"]
    /\ decider' = [decider EXCEPT ![r] = u]
    /\ UNCHANGED <<kind, maker, money, draft>>

\* The process dies or a query fails: the transaction is rolled back.
CallDies(r, u) ==
    /\ call[r][u] # "idle"
    /\ call' = [call EXCEPT ![r][u] = "idle"]
    /\ UNCHANGED <<request, money, draft>>

Init ==
    /\ state = [r \in Request |-> "absent"]
    /\ kind = [r \in Request |-> None]
    /\ maker = [r \in Request |-> None]
    /\ decider = [r \in Request |-> None]
    /\ entries = [r \in Request |-> 0]
    /\ balance = Opening
    /\ call = [r \in Request |-> [u \in Staff |-> "idle"]]
    /\ draft = [r \in Request |-> [u \in Staff |-> 0]]

Next == \E r \in Request, u \in Staff :
    \/ \E k \in Kind : Queue(r, u, k)
    \/ ReadForApproval(r, u) \/ ReadWallet(r, u) \/ Execute(r, u)
    \/ ReadForRejection(r, u) \/ Reject(r, u)
    \/ CallDies(r, u)

Spec == Init /\ [][Next]_vars

-----------------------------------------------------------------------------
(* Properties *)

\* Every variable has its type; the balance is never negative.
TypeOK ==
    /\ state \in [Request -> {"absent", "pending", "executed", "rejected"}]
    /\ kind \in [Request -> Kind \cup {None}]
    /\ maker \in [Request -> Staff \cup {None}]
    /\ decider \in [Request -> Staff \cup {None}]
    /\ entries \in [Request -> Nat]
    /\ balance \in Nat
    /\ call \in [Request -> [Staff ->
                     {"idle", "approving", "executing", "rejecting"}]]
    /\ draft \in [Request -> [Staff -> Nat]]

\* What is executed was approved by somebody other than who asked for it.
MakerChecker ==
    \A r \in Request : state[r] = "executed" => decider[r] # maker[r]

\* A request that moved money is no longer open for a decision.
AppliedIsDecided ==
    \A r \in Request : entries[r] > 0 => state[r] # "pending"

\* Only pending requests are approved: no approval moves money for a request
\* that another call executed or rejected after this one read it.
ExecutedFromPending ==
    [][\A r \in Request : entries'[r] > entries[r] => state[r] = "pending"]_vars

\* Only pending requests are rejected.  The code does not keep this (README):
\* an executed request may still become rejected.
RejectedFromPending ==
    [][\A r \in Request : state'[r] = "rejected" /\ state[r] # "rejected"
                              => state[r] = "pending"]_vars
=============================================================================
