------------------------- MODULE PayoutApprovalProofs -------------------------
(***************************************************************************)
(* Proofs about PayoutApproval for any users, proposals, crashes and       *)
(* failing queries.  A call that is past its claim owns an approved row,   *)
(* and where it stands tells whether the rail has paid.                    *)
(***************************************************************************)
EXTENDS PayoutApproval, TLAPS

\* Steps of a call that claimed its row.
Claimed == {"revalidating", "executing", "recording", "failing"}

\* A call that is past its claim owns the row; no call is the maker's.
ClaimOwned ==
    \A p \in Proposal, u \in User :
        /\ call[p][u] # "idle" => maker[p] # u /\ state[p] # "absent"
        /\ call[p][u] \in Claimed => state[p] = "approved" /\ decider[p] = u

\* Where the call stands tells whether there is a payout.
PaidSoFar ==
    \A p \in Proposal, u \in User :
        /\ call[p][u] \in {"revalidating", "executing"} => paid[p] = 0
        /\ call[p][u] = "recording" => paid[p] = 1

IInv == TypeOK /\ PaidOnceIfApproved /\ ExecutedWasPaid /\ ClaimOwned /\ PaidSoFar

-----------------------------------------------------------------------------
\* Nothing is queued, claimed or paid at first.
LEMMA InitIInv == Init => IInv
<1> SUFFICES ASSUME Init PROVE IInv
  OBVIOUS
<1> USE PayoutApprovalAssumption DEF Init, Claimed, Final
<1>1. TypeOK
  BY DEF TypeOK
<1>2. PaidOnceIfApproved /\ ExecutedWasPaid /\ ClaimOwned /\ PaidSoFar
  BY DEF PaidOnceIfApproved, ExecutedWasPaid, ClaimOwned, PaidSoFar
<1>3. QED
  BY <1>1, <1>2 DEF IInv

\* A row lapses: nothing else changes.
LEMMA LapseStep == ASSUME IInv, NEW p \in Proposal, Lapse(p) PROVE IInv'
  BY DEF IInv, Lapse, TypeOK, PaidOnceIfApproved, ExecutedWasPaid, ClaimOwned,
         PaidSoFar, row, limits

\* Every other step concerns one row and one user.
UserStep(p, u) ==
    \/ QueueApprovalRequest(p, u) \/ ReadProposal(p, u) \/ Approve(p, u)
    \/ Reject(p, u) \/ CallThrows(p, u) \/ CallDies(p, u)

Steps == Claimed \cup {"idle", "expiring", "claiming"}

\* A step moves one call, and leaves the others where they are.
LEMMA CallMoves ==
  ASSUME call \in [Proposal -> [User -> Steps]], NEW p \in Proposal,
         NEW u \in User, NEW from, NEW to \in Steps, Step(p, u, from, to)
  PROVE  /\ call' \in [Proposal -> [User -> Steps]]
         /\ call[p][u] = from
         /\ \A q \in Proposal, v \in User :
                call'[q][v] = IF q = p /\ v = u THEN to ELSE call[q][v]
  BY DEF Step

\* What an UPDATE of one row sets.
LEMMA RowBecomes ==
  ASSUME TypeOK, NEW p \in Proposal, NEW s, Become(p, s)
  PROVE  \A q \in Proposal : state'[q] = IF q = p THEN s ELSE state[q]
  BY DEF Become, TypeOK

\* What the invariant says of one call and its row.
Own(p, u) ==
    /\ paid[p] > 0 =>
           /\ paid[p] = 1
           /\ state[p] \in {"approved", "executed", "execution_failed"}
           /\ decider[p] # maker[p]
    /\ state[p] = "executed" => paid[p] = 1
    /\ call[p][u] # "idle" => maker[p] # u /\ state[p] # "absent"
    /\ call[p][u] \in Claimed => state[p] = "approved" /\ decider[p] = u
    /\ call[p][u] \in {"revalidating", "executing"} => paid[p] = 0
    /\ call[p][u] = "recording" => paid[p] = 1

\* A user's step keeps what the invariant says of any call and row.
LEMMA OwnStep ==
  ASSUME IInv, NEW p \in Proposal, NEW u \in User, UserStep(p, u),
         NEW q \in Proposal, NEW v \in User
  PROVE  Own(q, v)'
<1> USE DEF Claimed
<1>1. Own(q, v) /\ Own(p, u) /\ Own(p, v)
  BY DEF Own, IInv, PaidOnceIfApproved, ExecutedWasPaid, ClaimOwned, PaidSoFar
<1>2. /\ call \in [Proposal -> [User -> Steps]]
      /\ decider \in [Proposal -> User \cup {None}]
      /\ maker \in [Proposal -> User \cup {None}]
      /\ paid \in [Proposal -> Nat] /\ TypeOK
  BY DEF IInv, TypeOK, Steps
<1> DEFINE Moved(from, to) ==
             /\ call[p][u] = from
             /\ call'[q][v] = IF q = p /\ v = u THEN to ELSE call[q][v]
           Became(s) == state'[q] = IF q = p THEN s ELSE state[q]
<1>3. ASSUME NEW from, NEW to \in Steps, Step(p, u, from, to)
      PROVE  Moved(from, to)
  BY <1>2, <1>3, CallMoves
<1>4. ASSUME NEW s, Become(p, s) PROVE Became(s)
  BY <1>2, <1>4, RowBecomes
<1>5. CASE QueueApprovalRequest(p, u)
  <2>1. Became("pending") /\ state[p] = "absent"
    BY <1>4, <1>5 DEF QueueApprovalRequest
  <2>2. /\ maker'[q] = IF q = p THEN u ELSE maker[q]
        /\ UNCHANGED <<decider, call, paid>>
    BY <1>2, <1>5 DEF QueueApprovalRequest
  <2>3. QED
    BY <1>1, <1>2, <2>1, <2>2 DEF Own
<1>6. CASE ReadProposal(p, u)
  <2>1. Moved("idle", "expiring") \/ Moved("idle", "claiming")
    BY <1>3, <1>6 DEF ReadProposal, Steps
  <2>2. UNCHANGED <<row, paid>> /\ maker[p] # u /\ state[p] # "absent"
    BY <1>6 DEF ReadProposal
  <2>3. QED
    BY <1>1, <2>1, <2>2 DEF Own, row
<1>7. CASE Expire(p, u)
  <2>1. Moved("expiring", "idle")
    BY <1>3, <1>7 DEF Expire, Steps
  <2>2. /\ state'[q] = IF q = p /\ state[p] = "pending" THEN "expired" ELSE state[q]
        /\ UNCHANGED <<maker, decider, paid>>
    BY <1>2, <1>7 DEF Expire, TypeOK
  <2>3. QED
    BY <1>1, <2>1, <2>2 DEF Own
<1>8. CASE Claim(p, u)
  <2>1. CASE /\ Step(p, u, "claiming", "revalidating") /\ state[p] = "pending"
             /\ Become(p, "approved")
             /\ decider' = [decider EXCEPT ![p] = u]
    <3>1. Moved("claiming", "revalidating")
      BY <1>3, <2>1 DEF Steps
    <3>2. Became("approved")
      BY <1>4, <2>1
    <3>3. /\ decider'[q] = IF q = p THEN u ELSE decider[q]
          /\ UNCHANGED <<maker, paid>>
      BY <1>2, <1>8, <2>1 DEF Claim
    <3>4. paid[p] = 0
      BY <1>1, <1>2, <2>1 DEF Own
    <3>5. QED
      BY <1>1, <2>1, <3>1, <3>2, <3>3, <3>4 DEF Own
  <2>2. CASE Step(p, u, "claiming", "idle") /\ UNCHANGED <<state, decider>>
    <3>1. Moved("claiming", "idle")
      BY <1>3, <2>2 DEF Steps
    <3>2. UNCHANGED <<maker, paid>>
      BY <1>8 DEF Claim
    <3>3. QED
      BY <1>1, <2>2, <3>1, <3>2 DEF Own
  <2>3. QED
    BY <1>8, <2>1, <2>2 DEF Claim
<1>9. CASE Revalidate(p, u)
  <2>1. UNCHANGED <<maker, decider, paid>>
    BY <1>9 DEF Revalidate
  <2>2. CASE Step(p, u, "revalidating", "executing") /\ UNCHANGED state
    <3>1. Moved("revalidating", "executing")
      BY <1>3, <2>2 DEF Steps
    <3>2. QED
      BY <1>1, <2>1, <2>2, <3>1 DEF Own
  <2>3. CASE Step(p, u, "revalidating", "idle") /\ Become(p, "execution_failed")
    <3>1. Moved("revalidating", "idle") /\ Became("execution_failed")
      BY <1>3, <1>4, <2>3 DEF Steps
    <3>2. QED
      BY <1>1, <2>1, <3>1 DEF Own
  <2>4. QED
    BY <1>9, <2>2, <2>3 DEF Revalidate
<1>10. CASE ExecuteRail(p, u)
  <2>1. Moved("executing", "recording") \/ Moved("executing", "failing")
    BY <1>3, <1>10 DEF ExecuteRail, Steps
  <2>2. /\ paid'[q] = paid[q] \/ (q = p /\ paid'[q] = paid[q] + 1)
        /\ call'[p][u] = "recording" => paid'[p] = paid[p] + 1
    BY <1>2, <1>10 DEF ExecuteRail, Step
  <2>3. UNCHANGED row
    BY <1>10 DEF ExecuteRail
  <2>4. paid[p] = 0 /\ decider[p] = u /\ maker[p] # u /\ state[p] = "approved"
    BY <1>1, <2>1 DEF Own
  <2>5. v # u => call[p][v] \notin Claimed
    BY <1>1, <2>4 DEF Own
  <2>6. QED
    BY <1>1, <2>1, <2>2, <2>3, <2>4, <2>5 DEF Own, row
<1>11. CASE RecordExecuted(p, u)
  <2>1. UNCHANGED <<maker, decider, paid>>
    BY <1>11 DEF RecordExecuted
  <2>2. CASE Step(p, u, "recording", "idle") /\ Become(p, "executed")
    <3>1. Moved("recording", "idle") /\ Became("executed")
      BY <1>3, <1>4, <2>2 DEF Steps
    <3>2. QED
      BY <1>1, <2>1, <3>1 DEF Own
  <2>3. CASE Step(p, u, "recording", "failing") /\ UNCHANGED state
    <3>1. Moved("recording", "failing")
      BY <1>3, <2>3 DEF Steps
    <3>2. QED
      BY <1>1, <2>1, <2>3, <3>1 DEF Own
  <2>4. QED
    BY <1>11, <2>2, <2>3 DEF RecordExecuted
<1>12. CASE RecordFailed(p, u)
  <2>1. Moved("failing", "idle") /\ UNCHANGED <<maker, decider, paid>>
    BY <1>3, <1>12 DEF RecordFailed, Steps
  <2>2. Became("execution_failed") \/ UNCHANGED state
    BY <1>4, <1>12 DEF RecordFailed
  <2>3. QED
    BY <1>1, <2>1, <2>2 DEF Own
<1>13. CASE Reject(p, u)
  <2>1. /\ state[p] = "pending" /\ Became("rejected")
        /\ decider'[q] = IF q = p THEN u ELSE decider[q]
        /\ UNCHANGED <<maker, call, paid>>
    BY <1>2, <1>4, <1>13 DEF Reject
  <2>2. paid[p] = 0
    BY <1>1, <1>2, <2>1 DEF Own
  <2>3. QED
    BY <1>1, <2>1, <2>2 DEF Own
<1>14. CASE CallThrows(p, u)
  <2>1. UNCHANGED <<row, paid>> /\ \E step \in Steps : Moved(step, "idle")
    BY <1>3, <1>14 DEF CallThrows, Steps
  <2>2. QED
    BY <1>1, <2>1 DEF Own, row
<1>15. CASE CallDies(p, u)
  <2>1. Moved(call[p][u], "idle") /\ UNCHANGED row
    BY <1>3, <1>15 DEF CallDies, Step, Steps
  <2>2. \/ paid'[q] = paid[q]
        \/ q = p /\ call[p][u] = "executing" /\ paid'[q] = paid[q] + 1
    BY <1>2, <1>15 DEF CallDies
  <2>3. CASE call[p][u] = "executing"
    <3>1. paid[p] = 0 /\ decider[p] = u /\ maker[p] # u /\ state[p] = "approved"
      BY <1>1, <2>3 DEF Own
    <3>2. v # u => call[p][v] \notin Claimed
      BY <1>1, <3>1 DEF Own
    <3>3. QED
      BY <1>1, <2>1, <2>2, <3>1, <3>2 DEF Own, row
  <2>4. CASE call[p][u] # "executing"
    BY <1>1, <2>1, <2>2, <2>4 DEF Own, row
  <2>5. QED
    BY <2>3, <2>4
<1>16. QED
  BY <1>5, <1>6, <1>7, <1>8, <1>9, <1>10, <1>11, <1>12, <1>13, <1>14, <1>15
  DEF UserStep, Approve

\* A user's step keeps the types.
LEMMA TypeStep ==
  ASSUME TypeOK, NEW p \in Proposal, NEW u \in User, UserStep(p, u)
  PROVE  TypeOK'
<1> USE DEF Claimed
<1>1. call \in [Proposal -> [User -> Steps]]
  BY DEF TypeOK, Steps
<1>2. call' \in [Proposal -> [User -> Steps]]
  <2>1. CASE call' = call
    BY <1>1, <2>1
  <2>2. CASE \E from, to \in Steps : Step(p, u, from, to)
    BY <1>1, <2>2, CallMoves
  <2>3. CASE CallDies(p, u)
    BY <1>1, <2>3 DEF CallDies, Steps
  <2>4. QED
    BY <2>1, <2>2, <2>3
    DEF UserStep, Approve, QueueApprovalRequest, ReadProposal, Expire, Claim,
        Revalidate, ExecuteRail, RecordExecuted, RecordFailed, Reject,
        CallThrows, Steps
<1>3. state' \in [Proposal -> {"absent", "pending", "approved"} \cup Final]
  BY DEF TypeOK, Final, UserStep, Approve, QueueApprovalRequest, ReadProposal,
         Expire, Claim, Revalidate, ExecuteRail, RecordExecuted, RecordFailed,
         Reject, CallThrows, CallDies, Become, row
<1>4. /\ maker' \in [Proposal -> User \cup {None}]
      /\ decider' \in [Proposal -> User \cup {None}]
      /\ lapsed' \in [Proposal -> BOOLEAN]
  BY DEF TypeOK, UserStep, Approve, QueueApprovalRequest, ReadProposal, Expire,
         Claim, Revalidate, ExecuteRail, RecordExecuted, RecordFailed, Reject,
         CallThrows, CallDies, row
<1>5. paid' \in [Proposal -> Nat]
  BY DEF TypeOK, UserStep, Approve, QueueApprovalRequest, ReadProposal, Expire,
         Claim, Revalidate, ExecuteRail, RecordExecuted, RecordFailed, Reject,
         CallThrows, CallDies
<1>6. crashes' \in 0 .. MaxCrash /\ errors' \in 0 .. MaxError
  BY PayoutApprovalAssumption
  DEF TypeOK, UserStep, Approve, QueueApprovalRequest, ReadProposal, Expire,
      Claim, Revalidate, ExecuteRail, RecordExecuted, RecordFailed, Reject,
      CallThrows, CallDies, Fail, limits
<1>7. QED
  BY <1>2, <1>3, <1>4, <1>5, <1>6 DEF TypeOK, Steps

\* Every step keeps the invariant.
LEMMA StepIInv == ASSUME IInv, [Next]_vars PROVE IInv'
<1>1. CASE UNCHANGED vars
  BY <1>1 DEF vars, row, limits, IInv, TypeOK, PaidOnceIfApproved,
              ExecutedWasPaid, ClaimOwned, PaidSoFar
<1>2. ASSUME NEW p \in Proposal, Lapse(p)
      PROVE  IInv'
  BY <1>2, LapseStep
<1>3. ASSUME NEW p \in Proposal, NEW u \in User, UserStep(p, u)
      PROVE  IInv'
  <2>1. TypeOK'
    BY <1>3, TypeStep DEF IInv
  <2>2. \A q \in Proposal, v \in User : Own(q, v)'
    BY <1>3, OwnStep
  <2>3. (PaidOnceIfApproved /\ ExecutedWasPaid /\ ClaimOwned /\ PaidSoFar)'
    BY <2>2, <1>3
    DEF Own, PaidOnceIfApproved, ExecutedWasPaid, ClaimOwned, PaidSoFar
  <2>4. QED
    BY <2>1, <2>3 DEF IInv
<1>4. QED
  BY <1>1, <1>2, <1>3 DEF Next, UserStep

\* The invariant holds in every reachable state.
THEOREM InvariantAlways == Spec => []IInv
<1>1. Init => IInv
  BY InitIInv
<1>2. IInv /\ [Next]_vars => IInv'
  BY StepIInv
<1>3. QED
  BY <1>1, <1>2, PTL DEF Spec

\* Every variable keeps its type, for any users and proposals.
THEOREM TypeCorrect == Spec => []TypeOK
<1>1. IInv => TypeOK
  BY DEF IInv
<1>2. QED
  BY <1>1, InvariantAlways, PTL

\* However users, crashes and errors interleave, a proposal is paid at most
\* once, and on the word of somebody other than its maker.
THEOREM PaidAtMostOnce == Spec => []PaidOnceIfApproved
<1>1. IInv => PaidOnceIfApproved
  BY DEF IInv
<1>2. QED
  BY <1>1, InvariantAlways, PTL

\* A row that says executed has its payout.
THEOREM SuccessIsNeverGuessed == Spec => []ExecutedWasPaid
<1>1. IInv => ExecutedWasPaid
  BY DEF IInv
<1>2. QED
  BY <1>1, InvariantAlways, PTL

\* Once rejected, expired, executed or failed, a row keeps its status.
THEOREM DecisionsAreFinal == Spec => DecisionIsFinal
<1>1. ASSUME IInv, [Next]_vars, NEW p \in Proposal, state[p] \in Final
      PROVE  state'[p] = state[p]
  <2>1. CASE UNCHANGED vars
    BY <2>1 DEF vars, row
  <2>2. ASSUME NEW q \in Proposal, Lapse(q)
        PROVE  state'[p] = state[p]
    BY <2>2 DEF Lapse, row
  <2>3. ASSUME NEW q \in Proposal, NEW u \in User, UserStep(q, u)
        PROVE  state'[p] = state[p]
    BY <1>1, <2>3
    DEF IInv, TypeOK, ClaimOwned, Final, Claimed, UserStep, Approve, Step,
        Become, QueueApprovalRequest, ReadProposal, Expire, Claim, Revalidate,
        ExecuteRail, RecordExecuted, RecordFailed, Reject, CallThrows,
        CallDies, row
  <2>4. QED
    BY <1>1, <2>1, <2>2, <2>3 DEF Next, UserStep
<1>2. IInv /\ [Next]_vars
      => [\A p \in Proposal : state[p] \in Final => state'[p] = state[p]]_vars
  BY <1>1
<1>3. QED
  BY <1>2, InvariantAlways, PTL DEF Spec, DecisionIsFinal
=============================================================================
