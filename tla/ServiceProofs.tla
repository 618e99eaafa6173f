---------------------------- MODULE ServiceProofs ----------------------------
(***************************************************************************)
(* Proofs about the worlds around the payments, for any staff, requests,   *)
(* processes, calls, markets, merchants and amounts: the provider's        *)
(* approvals, the circuit breaker, the markets and the monthly fees.  Each *)
(* has its inductive invariant; together they make the one of MCService.   *)
(***************************************************************************)
EXTENDS MCService, FiniteSetTheorems, TLAPS

(* Provider approvals.  Approve and reject read without a lock, so what they *)
(* read of the status may be old when they write; what a call that approves  *)
(* may rely on is that the maker of a queued request never changes.          *)

\* A call is about a queued request, one that approves is not its maker's,
\* and one about to debit has read a balance that covers the amount.
CallsAreEntitled ==
    \A r \in Request, u \in Staff :
        /\ call[r][u] # "idle" => state[r] # "absent"
        /\ call[r][u] \in {"approving", "executing"} => maker[r] # u
        /\ call[r][u] = "executing" /\ kind[r] = "debit" => draft[r][u] >= Amount

\* Nothing is posted before a decision, nor undone by a later one.
PostedIsDecided ==
    \A r \in Request : entries[r] > 0 => state[r] \in {"executed", "rejected"}

IInv == TypeOK /\ MakerChecker /\ PostedIsDecided /\ CallsAreEntitled

-----------------------------------------------------------------------------
\* Nothing is queued at first.
LEMMA InitIInv == Init => IInv
<1> SUFFICES ASSUME Init PROVE IInv
  OBVIOUS
<1> USE ApprovalAssumption DEF Init
<1>1. TypeOK
  BY DEF TypeOK
<1>2. MakerChecker /\ PostedIsDecided /\ CallsAreEntitled
  BY DEF MakerChecker, PostedIsDecided, CallsAreEntitled
<1>3. QED
  BY <1>1, <1>2 DEF IInv

Places == {"idle", "approving", "executing", "rejecting"}

\* A step moves one call, and leaves the others where they are.
LEMMA CallMoves ==
  ASSUME TypeOK, NEW r \in Request, NEW u \in Staff,
         NEW from, NEW to \in Places, Step(r, u, from, to)
  PROVE  /\ call' \in [Request -> [Staff -> Places]]
         /\ call[r][u] = from
         /\ \A q \in Request, v \in Staff :
                call'[q][v] = IF q = r /\ v = u THEN to ELSE call[q][v]
  BY DEF TypeOK, Step, Places

\* A request is queued: no call is about it yet.
LEMMA QueueStep ==
  ASSUME IInv, NEW r \in Request, NEW u \in Staff, NEW k \in Kind, Queue(r, u, k)
  PROVE  IInv'
<1> USE DEF IInv, Queue, request, money
<1>1. TypeOK'
  BY DEF TypeOK
<1>2. MakerChecker' /\ PostedIsDecided'
  BY DEF TypeOK, MakerChecker, PostedIsDecided
<1>3. CallsAreEntitled'
  BY DEF TypeOK, CallsAreEntitled
<1>4. QED
  BY <1>1, <1>2, <1>3

\* A call begins: its request is queued, and to approve it takes another user.
LEMMA ReadStep ==
  ASSUME IInv, NEW r \in Request, NEW u \in Staff,
         ReadForApproval(r, u) \/ ReadForRejection(r, u)
  PROVE  IInv'
<1>0. TypeOK /\ MakerChecker /\ PostedIsDecided /\ CallsAreEntitled
  BY DEF IInv
<1>1. \/ Step(r, u, "idle", "approving") /\ maker[r] # u
      \/ Step(r, u, "idle", "rejecting")
  BY DEF ReadForApproval, ReadForRejection
<1>2. /\ state[r] = "pending"
      /\ UNCHANGED <<state, kind, maker, decider, entries, balance, draft>>
  BY DEF ReadForApproval, ReadForRejection, request, money
<1>3. /\ call' \in [Request -> [Staff -> Places]]
      /\ \A q \in Request, v \in Staff :
            \/ call'[q][v] = call[q][v]
            \/ q = r /\ v = u /\ call'[q][v] = "approving" /\ maker[r] # u
            \/ q = r /\ v = u /\ call'[q][v] = "rejecting"
  BY <1>0, <1>1, CallMoves DEF Places
<1>4. TypeOK'
  BY <1>0, <1>2, <1>3 DEF TypeOK, Places
<1>5. MakerChecker' /\ PostedIsDecided'
  BY <1>0, <1>2 DEF MakerChecker, PostedIsDecided
<1>6. CallsAreEntitled'
  BY <1>0, <1>2, <1>3 DEF CallsAreEntitled
<1>7. QED
  BY <1>4, <1>5, <1>6 DEF IInv

\* The wallet is read: a debit goes on with a balance that covers it.
LEMMA ReadWalletStep ==
  ASSUME IInv, NEW r \in Request, NEW u \in Staff, ReadWallet(r, u)
  PROVE  IInv'
<1>0. TypeOK /\ MakerChecker /\ PostedIsDecided /\ CallsAreEntitled
  BY DEF IInv
<1>1. UNCHANGED <<state, kind, maker, decider, entries, balance>>
  BY DEF ReadWallet, request, money
<1>2. MakerChecker' /\ PostedIsDecided'
  BY <1>0, <1>1 DEF MakerChecker, PostedIsDecided
<1>3. CASE Step(r, u, "approving", "idle") /\ UNCHANGED draft
  <2>1. /\ call' \in [Request -> [Staff -> Places]]
        /\ \A q \in Request, v \in Staff :
              call'[q][v] = IF q = r /\ v = u THEN "idle" ELSE call[q][v]
    BY <1>0, <1>3, CallMoves DEF Places
  <2>2. TypeOK'
    BY <1>0, <1>1, <1>3, <2>1 DEF TypeOK, Places
  <2>3. CallsAreEntitled'
    BY <1>0, <1>1, <1>3, <2>1 DEF CallsAreEntitled
  <2>4. QED
    BY <1>2, <2>2, <2>3 DEF IInv
<1>4. CASE /\ kind[r] = "debit" => balance >= Amount
           /\ Step(r, u, "approving", "executing")
           /\ draft' = [draft EXCEPT ![r][u] = balance]
  <2>1. /\ call' \in [Request -> [Staff -> Places]]
        /\ call[r][u] = "approving"
        /\ \A q \in Request, v \in Staff :
              call'[q][v] = IF q = r /\ v = u THEN "executing" ELSE call[q][v]
    BY <1>0, <1>4, CallMoves DEF Places
  <2>2. /\ draft' \in [Request -> [Staff -> Nat]]
        /\ \A q \in Request, v \in Staff :
              draft'[q][v] = IF q = r /\ v = u THEN balance ELSE draft[q][v]
    BY <1>0, <1>4 DEF TypeOK
  <2>3. TypeOK'
    BY <1>0, <1>1, <2>1, <2>2 DEF TypeOK, Places
  <2>4. CallsAreEntitled'
    BY <1>0, <1>1, <1>4, <2>1, <2>2 DEF CallsAreEntitled
  <2>5. QED
    BY <1>2, <2>3, <2>4 DEF IInv
<1>5. QED
  BY <1>3, <1>4 DEF ReadWallet

\* The writes of an approval: the approver is not the maker, and a debit takes
\* no more than was read.
LEMMA ExecuteStep ==
  ASSUME IInv, NEW r \in Request, NEW u \in Staff, Execute(r, u)
  PROVE  IInv'
<1>0. TypeOK /\ MakerChecker /\ PostedIsDecided /\ CallsAreEntitled
  BY DEF IInv
<1>1. /\ Step(r, u, "executing", "idle")
      /\ state' = [state EXCEPT ![r] = "executed"]
      /\ decider' = [decider EXCEPT ![r] = u]
      /\ UNCHANGED <<kind, maker, draft>>
  BY DEF Execute
<1>2. /\ call' \in [Request -> [Staff -> Places]]
      /\ call[r][u] = "executing"
      /\ \A q \in Request, v \in Staff :
            call'[q][v] = IF q = r /\ v = u THEN "idle" ELSE call[q][v]
  BY <1>0, <1>1, CallMoves DEF Places
<1>3. /\ maker[r] # u
      /\ kind[r] = "debit" => draft[r][u] >= Amount
  BY <1>0, <1>2 DEF CallsAreEntitled
<1>4. entries' \in [Request -> Nat] /\ balance' \in Nat
  <2>1. draft[r][u] \in Nat /\ entries[r] \in Nat /\ Amount \in Nat
    BY <1>0, ApprovalAssumption DEF TypeOK
  <2>2. kind[r] = "debit" => draft[r][u] - Amount \in Nat
    BY <1>3, <2>1
  <2>3. QED
    BY <1>0, <2>1, <2>2 DEF Execute, TypeOK, money
<1>5. \A q \in Request : q # r => entries'[q] = entries[q]
  BY <1>0 DEF Execute, TypeOK, money
<1>6. TypeOK'
  BY <1>0, <1>1, <1>2, <1>4 DEF TypeOK, Places
<1>7. MakerChecker'
  BY <1>0, <1>1, <1>3 DEF MakerChecker, TypeOK
<1>8. PostedIsDecided'
  BY <1>0, <1>1, <1>5 DEF PostedIsDecided, TypeOK
<1>9. CallsAreEntitled'
  BY <1>0, <1>1, <1>2 DEF CallsAreEntitled, TypeOK
<1>10. QED
  BY <1>6, <1>7, <1>8, <1>9 DEF IInv

\* A rejection may come after an execution; what was posted stays decided.
LEMMA RejectStep ==
  ASSUME IInv, NEW r \in Request, NEW u \in Staff, Reject(r, u)
  PROVE  IInv'
<1>0. TypeOK /\ MakerChecker /\ PostedIsDecided /\ CallsAreEntitled
  BY DEF IInv
<1>1. /\ Step(r, u, "rejecting", "idle")
      /\ state' = [state EXCEPT ![r] = "rejected"]
      /\ decider' = [decider EXCEPT ![r] = u]
      /\ UNCHANGED <<kind, maker, entries, balance, draft>>
  BY DEF Reject, money
<1>2. /\ call' \in [Request -> [Staff -> Places]]
      /\ \A q \in Request, v \in Staff :
            call'[q][v] = IF q = r /\ v = u THEN "idle" ELSE call[q][v]
  BY <1>0, <1>1, CallMoves DEF Places
<1>3. TypeOK'
  BY <1>0, <1>1, <1>2 DEF TypeOK, Places
<1>4. MakerChecker' /\ PostedIsDecided'
  BY <1>0, <1>1 DEF MakerChecker, PostedIsDecided, TypeOK
<1>5. CallsAreEntitled'
  BY <1>0, <1>1, <1>2 DEF CallsAreEntitled, TypeOK
<1>6. QED
  BY <1>3, <1>4, <1>5 DEF IInv

\* A call that dies leaves everything else as it is.
LEMMA DieStep ==
  ASSUME IInv, NEW r \in Request, NEW u \in Staff, CallDies(r, u)
  PROVE  IInv'
<1>0. TypeOK /\ MakerChecker /\ PostedIsDecided /\ CallsAreEntitled
  BY DEF IInv
<1>1. /\ call' = [call EXCEPT ![r][u] = "idle"]
      /\ UNCHANGED <<state, kind, maker, decider, entries, balance, draft>>
  BY DEF CallDies, request, money
<1>2. /\ call' \in [Request -> [Staff -> Places]]
      /\ \A q \in Request, v \in Staff :
            call'[q][v] = IF q = r /\ v = u THEN "idle" ELSE call[q][v]
  BY <1>0, <1>1 DEF TypeOK, Places
<1>3. TypeOK'
  BY <1>0, <1>1, <1>2 DEF TypeOK, Places
<1>4. MakerChecker' /\ PostedIsDecided' /\ CallsAreEntitled'
  BY <1>0, <1>1, <1>2 DEF MakerChecker, PostedIsDecided, CallsAreEntitled
<1>5. QED
  BY <1>3, <1>4 DEF IInv

\* Every step keeps the invariant.
LEMMA NextIInv == IInv /\ [Next]_vars => IInv'
<1> SUFFICES ASSUME IInv, [Next]_vars PROVE IInv'
  OBVIOUS
<1>1. CASE Next
  <2>1. PICK r \in Request, u \in Staff :
            \/ \E k \in Kind : Queue(r, u, k)
            \/ ReadForApproval(r, u) \/ ReadWallet(r, u) \/ Execute(r, u)
            \/ ReadForRejection(r, u) \/ Reject(r, u)
            \/ CallDies(r, u)
    BY <1>1 DEF Next
  <2>2. CASE \E k \in Kind : Queue(r, u, k)
    BY <2>2, QueueStep
  <2>3. CASE ReadForApproval(r, u) \/ ReadForRejection(r, u)
    BY <2>3, ReadStep
  <2>4. CASE ReadWallet(r, u)
    BY <2>4, ReadWalletStep
  <2>5. CASE Execute(r, u)
    BY <2>5, ExecuteStep
  <2>6. CASE Reject(r, u)
    BY <2>6, RejectStep
  <2>7. CASE CallDies(r, u)
    BY <2>7, DieStep
  <2>8. QED
    BY <2>1, <2>2, <2>3, <2>4, <2>5, <2>6, <2>7
<1>2. CASE UNCHANGED vars
  BY <1>2 DEF IInv, TypeOK, MakerChecker, PostedIsDecided, CallsAreEntitled,
              vars, request, money
<1>3. QED
  BY <1>1, <1>2

-----------------------------------------------------------------------------
\* The calls of provider/index.ts that approve and reject keep, however they
\* overlap, what each of them may rely on.
THEOREM InvariantAlways == Spec => []IInv
  BY InitIInv, NextIInv, PTL DEF Spec

\* "Maker-checker": for any staff and requests, whoever executes a request is
\* not who asked for it, although approvals and rejections race.
THEOREM ExecutedByAnother == Spec => []MakerChecker
<1>1. IInv => MakerChecker
  BY DEF IInv
<1>2. QED
  BY <1>1, InvariantAlways, PTL

\* What has moved money is never pending again, whatever is written over it.
THEOREM PostedIsNeverOpen == Spec => []AppliedIsDecided
<1>1. IInv => AppliedIsDecided
  BY DEF IInv, PostedIsDecided, AppliedIsDecided
<1>2. QED
  BY <1>1, InvariantAlways, PTL

-----------------------------------------------------------------------------
(* The circuit breaker: the window Redis has been told of only moves on, so  *)
(* a call that began inside it and then asked Redis is refused.              *)

\* Failures counted, and the end of an open window.
Window == [fails : 0..Threshold, until : 0..MaxTime + Cooldown]

\* What a call keeps; it has a process from its first step on.
Note == [at : Instance \cup {"none"}, begun : 0..MaxTime, attempt : 0..Retries + 1,
         count : 0..Threshold, until : 0..MaxTime + Cooldown,
         window : 0..MaxTime + Cooldown]

CircuitSteps == {"idle", "refused", "ask", "try", "counted", "publish", "clear",
                 "failed"}

CircuitTypes ==
    /\ cNow \in 0..MaxTime /\ cLost \in 0..MaxLost
    /\ cLocal \in [Instance -> Window] /\ cShared \in Window
    /\ cCall \in [Call -> CircuitSteps] /\ cNote \in [Call -> Note]
    /\ cOpened = cShared.until

\* A call keeps no window that ends later than Redis knows; past the question
\* to Redis it began outside the window it keeps; one that publishes ends the
\* window no sooner than the one in Redis.
CallOK(c) ==
    LET n == cNote[c] IN
    /\ cCall[c] # "idle" => n.at \in Instance
    /\ n.window <= cShared.until
    /\ cCall[c] \notin {"idle", "ask", "refused"} => n.begun >= n.window
    /\ cCall[c] = "publish" => n.until = cNow + Cooldown

CircuitsInv ==
    /\ CircuitTypes
    /\ cShared.until <= cNow + Cooldown
    /\ \A c \in Call : CallOK(c)

\* The invariant holds at first.
LEMMA CircuitsInit == Circuits!Init => CircuitsInv
<1> SUFFICES ASSUME Circuits!Init PROVE CircuitsInv
  OBVIOUS
<1> USE ServiceAssumption DEF Circuits!Init
<1>1. Circuits!Free \in Note
  BY DEF Circuits!Free, Note
<1>2. [fails |-> 0, until |-> 0] \in Window
  BY DEF Window
<1>3. CircuitTypes
  BY <1>1, <1>2 DEF CircuitTypes, CircuitSteps
<1>4. cShared.until <= cNow + Cooldown
  OBVIOUS
<1>5. \A c \in Call : CallOK(c)
  BY DEF CallOK, Circuits!Free
<1> QED  BY <1>3, <1>4, <1>5 DEF CircuitsInv

\* Call c goes on to a step with a note that agree with the invariant, and the
\* end of the window in Redis only moves on.
CircuitMoves(c, to, n) ==
    /\ to \in CircuitSteps /\ n \in Note
    /\ cCall' = [cCall EXCEPT ![c] = to] /\ cNote' = [cNote EXCEPT ![c] = n]
    /\ cLocal' \in [Instance -> Window] /\ cShared' \in Window
    /\ cShared'.until >= cShared.until /\ cOpened' = cShared'.until
    /\ cShared'.until <= cNow + Cooldown
    /\ cLost' \in 0..MaxLost /\ cNow' = cNow
    /\ to # "idle" => n.at \in Instance
    /\ n.window <= cShared.until
    /\ to \notin {"idle", "ask", "refused"} => n.begun >= n.window
    /\ to = "publish" => n.until = cNow + Cooldown

\* Such a step keeps the invariant.
LEMMA CircuitOwn ==
    ASSUME CircuitsInv, NEW c \in Call, NEW to, NEW n, CircuitMoves(c, to, n)
    PROVE  CircuitsInv'
<1> USE DEF CircuitMoves
<1>t. /\ cCall \in [Call -> CircuitSteps] /\ cNote \in [Call -> Note]
      /\ cShared.until \in Int /\ cShared'.until \in Int
      /\ cNow \in Int /\ Cooldown \in Int
  BY ServiceAssumption DEF CircuitsInv, CircuitTypes, Window
<1>1. CircuitTypes'
  BY DEF CircuitsInv, CircuitTypes
<1>3. ASSUME NEW d \in Call PROVE CallOK(d)'
  <2>1. CASE d = c
    <3>1. cCall'[d] = to /\ cNote'[d] = n /\ n.window \in Int
      BY <1>t, <2>1, ServiceAssumption DEF Note
    <3> QED  BY <1>t, <3>1 DEF CallOK
  <2>2. CASE d # c
    <3>1. cCall'[d] = cCall[d] /\ cNote'[d] = cNote[d]
      BY <1>t, <2>2
    <3>2. CallOK(d) /\ cNote[d].window \in Int
      BY <1>t, ServiceAssumption DEF CircuitsInv, Note
    <3> QED  BY <1>t, <3>1, <3>2 DEF CallOK
  <2> QED  BY <2>1, <2>2
<1> QED  BY <1>1, <1>3 DEF CircuitsInv

\* Losing a command or not keeps the number of those lost in its bound.
LEMMA CircuitLost ==
    ASSUME CircuitsInv, NEW reached \in BOOLEAN, Circuits!RedisSays(reached)
    PROVE  cLost' \in 0..MaxLost
BY ServiceAssumption DEF Circuits!RedisSays, CircuitsInv, CircuitTypes

\* A note stays a note when one number of it changes.
LEMMA NoteParts ==
    ASSUME NEW n \in Note
    PROVE  /\ \A k \in 0..Threshold :
                 LET m == [n EXCEPT !.count = k]
                 IN  m \in Note /\ m.at = n.at /\ m.begun = n.begun
                                 /\ m.window = n.window
           /\ \A k \in 0..MaxTime + Cooldown :
                 LET m == [n EXCEPT !.until = k]
                 IN  m \in Note /\ m.at = n.at /\ m.begun = n.begun
                                 /\ m.window = n.window /\ m.until = k
           /\ \A reached \in BOOLEAN :
                 LET m == Circuits!Asked(n, reached)
                 IN  m \in Note /\ m.at = n.at /\ m.begun = n.begun
                                 /\ m.window = IF reached THEN n.window ELSE 0
           /\ n.attempt <= Retries =>
                 LET m == Circuits!Again(n)
                 IN  m \in Note /\ m.at = n.at /\ m.begun = n.begun
                                 /\ m.window = n.window
<1>1. ASSUME NEW k \in 0..Threshold
      PROVE  LET m == [n EXCEPT !.count = k]
             IN  m \in Note /\ m.at = n.at /\ m.begun = n.begun
                             /\ m.window = n.window
  BY <1>1 DEF Note
<1>2. ASSUME NEW k \in 0..MaxTime + Cooldown
      PROVE  LET m == [n EXCEPT !.until = k]
             IN  m \in Note /\ m.at = n.at /\ m.begun = n.begun
                             /\ m.window = n.window /\ m.until = k
  BY <1>2 DEF Note
<1>3. ASSUME NEW reached \in BOOLEAN
      PROVE  LET m == Circuits!Asked(n, reached)
             IN  m \in Note /\ m.at = n.at /\ m.begun = n.begun
                             /\ m.window = IF reached THEN n.window ELSE 0
  <2>1. PICK w \in 0..MaxTime + Cooldown :
            w = IF reached THEN n.window ELSE 0
    BY ServiceAssumption DEF Note
  <2>2. Circuits!Asked(n, reached) = [n EXCEPT !.attempt = 1, !.window = w]
    BY <2>1 DEF Circuits!Asked
  <2>3. 1 \in 0..Retries + 1
    BY ServiceAssumption
  <2>4. [n EXCEPT !.attempt = 1, !.window = w] \in Note
    BY <2>3 DEF Note
  <2> QED  BY <2>1, <2>2, <2>4 DEF Note
<1>4. ASSUME n.attempt <= Retries
      PROVE  LET m == Circuits!Again(n)
             IN  m \in Note /\ m.at = n.at /\ m.begun = n.begun
                             /\ m.window = n.window
  <2>1. /\ n.attempt + 1 \in 0..Retries + 1
        /\ 0 \in 0..Threshold /\ 0 \in 0..MaxTime + Cooldown
    BY <1>4, ServiceAssumption DEF Note
  <2> QED  BY <2>1 DEF Note, Circuits!Again
<1> QED  BY <1>1, <1>2, <1>3, <1>4

\* What a step of a call finds.
LEMMA CircuitFacts ==
    ASSUME CircuitsInv, NEW c \in Call
    PROVE  /\ cNote \in [Call -> Note] /\ cNote[c] \in Note
           /\ cLocal \in [Instance -> Window] /\ cShared \in Window
           /\ cNow \in 0..MaxTime /\ cLost \in 0..MaxLost
           /\ cOpened = cShared.until /\ cShared.until <= cNow + Cooldown
           /\ CallOK(c)
           /\ \A k \in 0..Threshold : Circuits!More(k) \in 0..Threshold
           /\ {Threshold, Cooldown, MaxTime, MaxLost, Retries} \subseteq Nat
           /\ cCall[c] # "idle" => cNote[c].at \in Instance
           /\ \A from, to : Circuits!Step(c, from, to) =>
                  cCall[c] = from /\ cCall' = [cCall EXCEPT ![c] = to]
           /\ Circuits!Free \in Note /\ Circuits!Free.window = 0
<1>1. Circuits!Free \in Note /\ Circuits!Free.window = 0
  BY ServiceAssumption DEF Circuits!Free, Note
<1>2. \A k \in 0..Threshold : Circuits!More(k) \in 0..Threshold
  BY ServiceAssumption DEF Circuits!More
<1>3. \A from, to : Circuits!Step(c, from, to) =>
          cCall[c] = from /\ cCall' = [cCall EXCEPT ![c] = to]
  BY DEF Circuits!Step
<1>4. /\ cNote \in [Call -> Note] /\ cLocal \in [Instance -> Window]
      /\ cShared \in Window
      /\ cNow \in 0..MaxTime /\ cLost \in 0..MaxLost
      /\ cOpened = cShared.until /\ cShared.until <= cNow + Cooldown
      /\ CallOK(c)
  BY DEF CircuitsInv, CircuitTypes
<1>5. cCall[c] # "idle" => cNote[c].at \in Instance
  BY <1>4 DEF CallOK
<1> QED  BY <1>1, <1>2, <1>3, <1>4, <1>5, ServiceAssumption

\* A call begins, refused by its process or about to ask Redis.
LEMMA CircuitBegin ==
    ASSUME CircuitsInv, NEW c \in Call, Circuits!Begin(c)
    PROVE  CircuitsInv'
<1>f. /\ cLocal \in [Instance -> Window] /\ cShared \in Window
      /\ cNow \in 0..MaxTime /\ cLost \in 0..MaxLost
      /\ cOpened = cShared.until /\ cShared.until <= cNow + Cooldown
      /\ Circuits!Free \in Note
  BY CircuitFacts
<1>1. PICK i \in Instance :
          /\ Circuits!Step(c, "idle", IF cNow < cLocal[i].until THEN "refused"
                                                               ELSE "ask")
          /\ cNote' = [cNote EXCEPT ![c] = Circuits!Begun(i)]
          /\ UNCHANGED <<cNow, cLocal, cShared, cOpened, cLost>>
  BY DEF Circuits!Begin
<1>2. PICK to \in {"refused", "ask"} : Circuits!Step(c, "idle", to)
  BY <1>1
<1>3. PICK n \in Note : n = Circuits!Begun(i) /\ n.at = i /\ n.window = cOpened
  <2>1. cOpened \in 0..MaxTime + Cooldown
    BY <1>f DEF Window
  <2>2. /\ Circuits!Begun(i) \in Note
        /\ Circuits!Begun(i).at = i /\ Circuits!Begun(i).window = cOpened
    BY <1>f, <2>1 DEF Circuits!Begun, Note
  <2> QED  BY <2>2
<1>4. cCall' = [cCall EXCEPT ![c] = to] /\ to \in CircuitSteps
  BY <1>2, CircuitFacts DEF CircuitSteps
<1>5. cShared.until \in Int
  BY <1>f, ServiceAssumption DEF Window
<1>z. CircuitMoves(c, to, n)
  BY <1>f, <1>1, <1>3, <1>4, <1>5 DEF CircuitMoves
<1> QED  BY <1>z, CircuitOwn

\* Redis is asked, and refuses a call that began inside the window.
LEMMA CircuitAsk ==
    ASSUME CircuitsInv, NEW c \in Call, Circuits!Ask(c)
    PROVE  CircuitsInv'
<1>f. /\ cNote \in [Call -> Note] /\ cNote[c] \in Note
      /\ cLocal \in [Instance -> Window] /\ cShared \in Window
      /\ cLost \in 0..MaxLost
      /\ cOpened = cShared.until /\ cShared.until <= cNow + Cooldown
      /\ CallOK(c)
      /\ {Threshold, Cooldown, MaxTime, MaxLost, Retries} \subseteq Nat
  BY CircuitFacts
<1>a. /\ cNote[c].window \in Int /\ cShared.until \in Int
      /\ cNote[c].begun \in Int /\ cNote[c].window <= cShared.until
  BY <1>f DEF Note, Window, CallOK
<1>1. CASE /\ cNote[c].begun < cShared.until
           /\ Circuits!Step(c, "ask", "refused")
           /\ cLocal' = [cLocal EXCEPT ![cNote[c].at].until = cShared.until]
           /\ UNCHANGED <<cNow, cShared, cNote, cOpened, cLost>>
  <2>1. /\ cCall[c] = "ask" /\ cCall' = [cCall EXCEPT ![c] = "refused"]
        /\ cNote[c].at \in Instance
    BY <1>1, CircuitFacts
  <2>2. cNote' = [cNote EXCEPT ![c] = cNote[c]]
    BY <1>1, <1>f
  <2>3. cLocal' \in [Instance -> Window]
    BY <1>1, <1>f, <2>1 DEF Window
  <2>4. "refused" \in CircuitSteps
    BY DEF CircuitSteps
  <2>5. /\ cShared' = cShared /\ cOpened' = cOpened /\ cLost' = cLost
        /\ cNow' = cNow /\ cLost \in 0..MaxLost
    BY <1>1, <1>f
  <2>z. CircuitMoves(c, "refused", cNote[c])
    BY <1>f, <1>a, <2>1, <2>2, <2>3, <2>4, <2>5 DEF CircuitMoves
  <2> QED  BY <2>z, CircuitOwn
<1>2. ASSUME NEW reached \in BOOLEAN,
             reached => cNote[c].begun >= cShared.until,
             Circuits!Step(c, "ask", "try"), Circuits!RedisSays(reached),
             cNote' = [cNote EXCEPT ![c] = Circuits!Asked(@, reached)],
             UNCHANGED <<cNow, cLocal, cShared, cOpened>>
      PROVE  CircuitsInv'
  <2>1. /\ cCall[c] = "ask" /\ cCall' = [cCall EXCEPT ![c] = "try"]
        /\ cNote[c].at \in Instance
    BY <1>2, CircuitFacts
  <2> DEFINE n == Circuits!Asked(cNote[c], reached)
  <2>2. /\ cNote' = [cNote EXCEPT ![c] = n] /\ n \in Note
        /\ n.at = cNote[c].at /\ n.begun = cNote[c].begun
        /\ n.window = IF reached THEN cNote[c].window ELSE 0
    <3>1. cNote' = [cNote EXCEPT ![c] = n]
      BY <1>2, <1>f
    <3> QED  BY <3>1, <1>f, NoteParts
  <2> HIDE DEF n
  <2>3. n.begun >= n.window /\ n.window <= cShared.until
    BY <1>2, <1>f, <1>a, <2>2 DEF Note, Window
  <2>4. cLost' \in 0..MaxLost
    BY <1>2, CircuitLost
  <2>5. "try" \in CircuitSteps /\ cLocal' \in [Instance -> Window]
    BY <1>2, <1>f DEF CircuitSteps
  <2>6. cShared' = cShared /\ cOpened' = cOpened /\ cNow' = cNow
    BY <1>2
  <2>z. CircuitMoves(c, "try", n)
    BY <1>f, <1>a, <2>1, <2>2, <2>3, <2>4, <2>5, <2>6 DEF CircuitMoves
  <2> QED  BY <2>z, CircuitOwn
<1> QED  BY <1>1, <1>2 DEF Circuits!Ask

\* An attempt succeeds: the counts end, the window stays.
LEMMA CircuitSucceed ==
    ASSUME CircuitsInv, NEW c \in Call, Circuits!Succeed(c)
    PROVE  CircuitsInv'
<1>f. /\ cLocal \in [Instance -> Window] /\ cShared \in Window
      /\ cOpened = cShared.until /\ cShared.until <= cNow + Cooldown
      /\ {Threshold, Cooldown, MaxTime, MaxLost, Retries} \subseteq Nat
      /\ Circuits!Free \in Note /\ Circuits!Free.window = 0
  BY CircuitFacts
<1>1. PICK reached \in BOOLEAN :
        /\ Circuits!Step(c, "try", "idle") /\ Circuits!RedisSays(reached)
        /\ cLocal' = [cLocal EXCEPT ![cNote[c].at].fails = 0]
        /\ cShared' = IF reached THEN [cShared EXCEPT !.fails = 0] ELSE cShared
        /\ cNote' = [cNote EXCEPT ![c] = Circuits!Free]
        /\ UNCHANGED <<cNow, cOpened>>
  BY DEF Circuits!Succeed
<1>2. cCall' = [cCall EXCEPT ![c] = "idle"] /\ cNote[c].at \in Instance
  BY <1>1, CircuitFacts
<1>3. cLocal' \in [Instance -> Window]
  BY <1>1, <1>2, <1>f DEF Window
<1>4. /\ cShared' \in Window /\ cShared'.until = cShared.until
      /\ cShared.until \in Int /\ cShared.until >= 0
  BY <1>1, <1>f DEF Window
<1>5. cLost' \in 0..MaxLost
  BY <1>1, CircuitLost
<1>6. "idle" \in CircuitSteps
  BY DEF CircuitSteps
<1>z. CircuitMoves(c, "idle", Circuits!Free)
  BY <1>1, <1>f, <1>2, <1>3, <1>4, <1>5, <1>6 DEF CircuitMoves
<1> QED  BY <1>z, CircuitOwn

\* A failure is counted, here and in Redis.
LEMMA CircuitCount ==
    ASSUME CircuitsInv, NEW c \in Call, Circuits!Count(c)
    PROVE  CircuitsInv'
<1>f. /\ cNote \in [Call -> Note] /\ cNote[c] \in Note
      /\ cLocal \in [Instance -> Window] /\ cShared \in Window
      /\ cOpened = cShared.until /\ cShared.until <= cNow + Cooldown
      /\ {Threshold, Cooldown, MaxTime, MaxLost, Retries} \subseteq Nat
      /\ CallOK(c)
  BY CircuitFacts
<1> DEFINE i == cNote[c].at
           own == Circuits!More(cLocal[i].fails)
<1>1. PICK reached \in BOOLEAN :
        /\ Circuits!Step(c, "try", "counted") /\ Circuits!RedisSays(reached)
        /\ cLocal' = [cLocal EXCEPT ![i].fails = own]
        /\ cShared' = IF reached
                      THEN [cShared EXCEPT !.fails = Circuits!More(@)]
                      ELSE cShared
        /\ cNote' = [cNote EXCEPT ![c].count =
                       IF reached THEN Circuits!More(cShared.fails) ELSE own]
        /\ UNCHANGED <<cNow, cOpened>>
  BY DEF Circuits!Count
<1>2. /\ cCall[c] = "try" /\ cCall' = [cCall EXCEPT ![c] = "counted"]
      /\ i \in Instance
  BY <1>1, CircuitFacts
<1>3. PICK k \in 0..Threshold, j \in 0..Threshold, h \in 0..Threshold :
          /\ k = own /\ j = Circuits!More(cShared.fails)
          /\ h = IF reached THEN j ELSE k
  <2>1. own \in 0..Threshold
    BY <1>2, <1>f, CircuitFacts DEF Window
  <2>2. Circuits!More(cShared.fails) \in 0..Threshold
    BY <1>f, CircuitFacts DEF Window
  <2> QED  BY <2>1, <2>2
<1>4. cLocal' \in [Instance -> Window]
  BY <1>1, <1>2, <1>3, <1>f DEF Window
<1>5. /\ cShared' \in Window /\ cShared'.until = cShared.until
      /\ cShared.until \in Int
  BY <1>1, <1>3, <1>f DEF Window
<1> DEFINE n == [cNote[c] EXCEPT !.count = h]
<1>6. /\ cNote' = [cNote EXCEPT ![c] = n] /\ n \in Note
      /\ n.at = i /\ n.begun = cNote[c].begun
      /\ n.window = cNote[c].window
  <2>1. cNote' = [cNote EXCEPT ![c].count = h]
    BY <1>1, <1>3
  <2>2. cNote' = [cNote EXCEPT ![c] = n]
    BY <2>1, <1>f
  <2> QED  BY <2>2, <1>3, <1>f, NoteParts
<1> HIDE DEF n
<1>7. n.begun >= n.window /\ n.window <= cShared.until
  BY <1>2, <1>6, <1>f DEF CallOK
<1>8. cLost' \in 0..MaxLost
  BY <1>1, CircuitLost
<1>9. "counted" \in CircuitSteps
  BY DEF CircuitSteps
<1>10. cOpened' = cOpened /\ cNow' = cNow
  BY <1>1
<1>z. CircuitMoves(c, "counted", n)
  BY <1>10, <1>f, <1>2, <1>4, <1>5, <1>6, <1>7, <1>8, <1>9 DEF CircuitMoves
<1> QED  BY <1>z, CircuitOwn

\* At the threshold the process opens its own circuit.
LEMMA CircuitTrip ==
    ASSUME CircuitsInv, NEW c \in Call, Circuits!Trip(c)
    PROVE  CircuitsInv'
<1>f. /\ cNote \in [Call -> Note] /\ cNote[c] \in Note
      /\ cLocal \in [Instance -> Window] /\ cShared \in Window
      /\ cNow \in 0..MaxTime /\ cLost \in 0..MaxLost
      /\ cOpened = cShared.until /\ cShared.until <= cNow + Cooldown
      /\ {Threshold, Cooldown, MaxTime, MaxLost, Retries} \subseteq Nat
      /\ CallOK(c)
  BY CircuitFacts
<1>1. PICK to \in {"publish", "failed"}, k \in 0..MaxTime + Cooldown :
          /\ Circuits!Step(c, "counted", to)
          /\ to = "publish" => k = cNow + Cooldown
          /\ cNote' = [cNote EXCEPT ![c].until = k]
  <2>1. cNow + Cooldown \in 0..MaxTime + Cooldown /\ 0 \in 0..MaxTime + Cooldown
    BY <1>f
  <2>2. CASE cNote[c].count >= Threshold
    BY <2>1, <2>2 DEF Circuits!Trip
  <2>3. CASE ~(cNote[c].count >= Threshold)
    BY <2>1, <2>3 DEF Circuits!Trip
  <2> QED  BY <2>2, <2>3
<1>2. /\ cCall[c] = "counted" /\ cCall' = [cCall EXCEPT ![c] = to]
      /\ cNote[c].at \in Instance
  BY <1>1, CircuitFacts
<1>3. UNCHANGED <<cNow, cShared, cOpened, cLost>>
  BY DEF Circuits!Trip
<1>4. cLocal' \in [Instance -> Window]
  <2>1. [fails |-> 0, until |-> cNow + Cooldown] \in Window
    BY <1>f DEF Window
  <2>2. \/ cLocal' = cLocal
        \/ cLocal' = [cLocal EXCEPT ![cNote[c].at] =
                        [fails |-> 0, until |-> cNow + Cooldown]]
    BY DEF Circuits!Trip
  <2> QED  BY <1>f, <2>1, <2>2
<1> DEFINE n == [cNote[c] EXCEPT !.until = k]
<1>5. /\ cNote' = [cNote EXCEPT ![c] = n] /\ n \in Note /\ n.until = k
      /\ n.at = cNote[c].at /\ n.begun = cNote[c].begun
      /\ n.window = cNote[c].window
  <2>1. cNote' = [cNote EXCEPT ![c] = n]
    BY <1>1, <1>f
  <2> QED  BY <2>1, <1>f, NoteParts
<1> HIDE DEF n
<1>6. n.begun >= n.window /\ n.window <= cShared.until
  BY <1>2, <1>5, <1>f DEF CallOK
<1>7. to \in CircuitSteps /\ cShared.until \in Int
  BY <1>f DEF CircuitSteps, Window
<1>8. /\ cShared' = cShared /\ cOpened' = cOpened /\ cLost' = cLost
      /\ cNow' = cNow
      /\ to = "publish" => k = cNow + Cooldown
  BY <1>1, <1>3
<1>z. CircuitMoves(c, to, n)
  BY <1>8, <1>f, <1>2, <1>4, <1>5, <1>6, <1>7 DEF CircuitMoves
<1> QED  BY <1>z, CircuitOwn

\* Redis is told: the window it knows moves on.
LEMMA CircuitPublish ==
    ASSUME CircuitsInv, NEW c \in Call, Circuits!Publish(c)
    PROVE  CircuitsInv'
<1>f. /\ cNote \in [Call -> Note] /\ cNote[c] \in Note
      /\ cLocal \in [Instance -> Window] /\ cShared \in Window
      /\ cNow \in 0..MaxTime
      /\ cOpened = cShared.until /\ cShared.until <= cNow + Cooldown
      /\ {Threshold, Cooldown, MaxTime, MaxLost, Retries} \subseteq Nat
      /\ CallOK(c)
  BY CircuitFacts
<1>1. PICK reached \in BOOLEAN :
        /\ Circuits!Step(c, "publish", IF reached THEN "clear" ELSE "failed")
        /\ Circuits!RedisSays(reached)
        /\ cShared' = IF reached THEN [cShared EXCEPT !.until = cNote[c].until]
                                 ELSE cShared
        /\ cOpened' = IF reached THEN cNote[c].until ELSE cOpened
        /\ UNCHANGED <<cNow, cLocal, cNote>>
  BY DEF Circuits!Publish
<1>2. PICK to \in {"clear", "failed"} : Circuits!Step(c, "publish", to)
  BY <1>1
<1>3. /\ cCall[c] = "publish" /\ cCall' = [cCall EXCEPT ![c] = to]
      /\ cNote[c].at \in Instance
  BY <1>2, CircuitFacts
<1>4. cNote[c].until = cNow + Cooldown /\ cNote[c].until \in 0..MaxTime + Cooldown
  BY <1>3, <1>f DEF CallOK, Note
<1>5. /\ cShared' \in Window /\ cShared'.until >= cShared.until
      /\ cShared'.until <= cNow + Cooldown /\ cOpened' = cShared'.until
      /\ cShared.until \in Int
  BY <1>1, <1>4, <1>f DEF Window
<1>6. cNote' = [cNote EXCEPT ![c] = cNote[c]]
  BY <1>1, <1>f
<1>7. cNote[c].begun >= cNote[c].window /\ cNote[c].window <= cShared.until
  BY <1>3, <1>f DEF CallOK
<1>8. cLost' \in 0..MaxLost
  BY <1>1, CircuitLost
<1>9. to \in CircuitSteps /\ to # "publish"
  BY DEF CircuitSteps
<1>z. CircuitMoves(c, to, cNote[c])
  BY <1>1, <1>f, <1>3, <1>5, <1>6, <1>7, <1>8, <1>9 DEF CircuitMoves
<1> QED  BY <1>z, CircuitOwn

\* The count in Redis is cleared after the window was opened there.
LEMMA CircuitClear ==
    ASSUME CircuitsInv, NEW c \in Call, Circuits!ClearCount(c)
    PROVE  CircuitsInv'
<1>f. /\ cNote \in [Call -> Note] /\ cNote[c] \in Note
      /\ cLocal \in [Instance -> Window] /\ cShared \in Window
      /\ cOpened = cShared.until /\ cShared.until <= cNow + Cooldown
      /\ {Threshold, Cooldown, MaxTime, MaxLost, Retries} \subseteq Nat
      /\ CallOK(c)
  BY CircuitFacts
<1>1. PICK reached \in BOOLEAN :
        /\ Circuits!Step(c, "clear", "failed") /\ Circuits!RedisSays(reached)
        /\ cShared' = IF reached THEN [cShared EXCEPT !.fails = 0] ELSE cShared
        /\ UNCHANGED <<cNow, cLocal, cNote, cOpened>>
  BY DEF Circuits!ClearCount
<1>2. /\ cCall[c] = "clear" /\ cCall' = [cCall EXCEPT ![c] = "failed"]
      /\ cNote[c].at \in Instance
  BY <1>1, CircuitFacts
<1>3. /\ cShared' \in Window /\ cShared'.until = cShared.until
      /\ cShared.until \in Int
  BY <1>1, <1>f DEF Window
<1>4. cNote' = [cNote EXCEPT ![c] = cNote[c]]
  BY <1>1, <1>f
<1>5. cNote[c].begun >= cNote[c].window /\ cNote[c].window <= cShared.until
  BY <1>2, <1>f DEF CallOK
<1>6. cLost' \in 0..MaxLost
  BY <1>1, CircuitLost
<1>7. "failed" \in CircuitSteps
  BY DEF CircuitSteps
<1>8. cOpened' = cOpened /\ cNow' = cNow /\ cLocal' = cLocal
  BY <1>1
<1>z. CircuitMoves(c, "failed", cNote[c])
  BY <1>8, <1>f, <1>2, <1>3, <1>4, <1>5, <1>6, <1>7 DEF CircuitMoves
<1> QED  BY <1>z, CircuitOwn

\* A failed attempt is repeated, or the call gives up.
LEMMA CircuitRetry ==
    ASSUME CircuitsInv, NEW c \in Call, Circuits!Retry(c) \/ Circuits!GiveUp(c)
    PROVE  CircuitsInv'
<1>f. /\ cNote \in [Call -> Note] /\ cNote[c] \in Note
      /\ cLocal \in [Instance -> Window] /\ cShared \in Window
      /\ cLost \in 0..MaxLost
      /\ cOpened = cShared.until /\ cShared.until <= cNow + Cooldown
      /\ {Threshold, Cooldown, MaxTime, MaxLost, Retries} \subseteq Nat
      /\ CallOK(c)
      /\ Circuits!Free \in Note /\ Circuits!Free.window = 0
  BY CircuitFacts
<1>a. /\ cShared.until \in Int /\ cShared.until >= 0
      /\ {"try", "idle"} \subseteq CircuitSteps
      /\ UNCHANGED <<cNow, cLocal, cShared, cOpened, cLost>>
  BY <1>f DEF CircuitSteps, Window, Circuits!Retry, Circuits!GiveUp
<1>1. CASE Circuits!Retry(c)
  <2>1. /\ cCall[c] = "failed" /\ cCall' = [cCall EXCEPT ![c] = "try"]
        /\ cNote[c].at \in Instance /\ cNote[c].attempt <= Retries
    BY <1>1, CircuitFacts DEF Circuits!Retry
  <2> DEFINE n == Circuits!Again(cNote[c])
  <2>2. /\ cNote' = [cNote EXCEPT ![c] = n] /\ n \in Note
        /\ n.at = cNote[c].at /\ n.begun = cNote[c].begun
        /\ n.window = cNote[c].window
    <3>1. cNote' = [cNote EXCEPT ![c] = n]
      BY <1>1, <1>f DEF Circuits!Retry
    <3> QED  BY <1>f, <2>1, <3>1, NoteParts
  <2> HIDE DEF n
  <2>3. n.begun >= n.window /\ n.window <= cShared.until
    BY <2>1, <2>2, <1>f DEF CallOK
  <2>z. CircuitMoves(c, "try", n)
    BY <1>f, <1>a, <2>1, <2>2, <2>3 DEF CircuitMoves
  <2> QED  BY <2>z, CircuitOwn
<1>2. CASE Circuits!GiveUp(c)
  <2>1. /\ cCall' = [cCall EXCEPT ![c] = "idle"]
        /\ cNote' = [cNote EXCEPT ![c] = Circuits!Free]
    BY <1>2, CircuitFacts DEF Circuits!GiveUp
  <2>z. CircuitMoves(c, "idle", Circuits!Free)
    BY <1>f, <1>a, <2>1 DEF CircuitMoves
  <2> QED  BY <2>z, CircuitOwn
<1> QED  BY <1>1, <1>2

\* Every step of the circuit breaker keeps the invariant.
LEMMA CircuitsNext ==
    ASSUME CircuitsInv, Circuits!Next
    PROVE  CircuitsInv'
<1>1. CASE Circuits!Tick
  <2>1. /\ cNow' = cNow + 1 /\ cNow < MaxTime
        /\ \A c \in Call : cCall[c] # "publish"
        /\ UNCHANGED <<cLocal, cShared, cCall, cNote, cOpened, cLost>>
    BY <1>1 DEF Circuits!Tick
  <2>2. /\ cNow \in 0..MaxTime /\ MaxTime \in Nat /\ Cooldown \in Nat
        /\ cShared.until \in Int
    BY ServiceAssumption DEF CircuitsInv, CircuitTypes, Window
  <2>3. CircuitTypes'
    BY <2>1, <2>2 DEF CircuitsInv, CircuitTypes
  <2>4. (cShared.until <= cNow + Cooldown)'
    BY <2>1, <2>2 DEF CircuitsInv
  <2>5. \A c \in Call : CallOK(c)'
    BY <2>1 DEF CircuitsInv, CallOK
  <2> QED  BY <2>3, <2>4, <2>5 DEF CircuitsInv
<1> QED  BY <1>1, CircuitBegin, CircuitAsk, CircuitSucceed, CircuitCount,
            CircuitTrip, CircuitPublish, CircuitClear, CircuitRetry
         DEF Circuits!Next, Circuits!Attempt

\* What the invariant says of the run's properties.
LEMMA CircuitsMean ==
    ASSUME CircuitsInv
    PROVE  Circuits!TypeOK /\ Circuits!PeersHonour
<1>1. \A c \in Call : cNote[c].attempt <= Retries + 1
  BY ServiceAssumption DEF CircuitsInv, CircuitTypes, Note
<1>2. Circuits!TypeOK
  BY <1>1 DEF CircuitsInv, CircuitTypes, Window, Circuits!TypeOK
<1>3. Circuits!PeersHonour
  BY DEF CircuitsInv, CallOK, Circuits!PeersHonour
<1> QED  BY <1>2, <1>3

-----------------------------------------------------------------------------
(* The markets of a merchant.  A row once made stays, so what asked for it   *)
(* finds it; an approval is noted by a request that still has the pockets    *)
(* without a wallet before it, until it dies or all of them have one.        *)

MarketRow == [ent : Boards!Entitlement, kyb : Boards!Kyb]

MarketNote ==
    [for : {"none", "request", "set", "catalog", "credit"},
     market : Market \cup {"none"}, ent : Boards!Entitlement \cup {"none"},
     kyb : Boards!Kyb \cup {"none"}, kyc : Boards!Kyc,
     left : SUBSET Boards!Pocket]

MarketSteps == {"idle", "ensure", "insert", "request", "set", "catalog",
                "update", "provision", "create"}

MarketTypes ==
    /\ mRow \in [Market -> MarketRow \cup {Boards!NoRow}]
    /\ mKyc \in Boards!Kyc
    /\ mWallets \in [Boards!Pocket -> 0..MaxWallets]
    /\ mAt \in [Call -> MarketSteps]
    /\ mNote \in [Call -> MarketNote]
    /\ mCrashes \in Nat

\* The pockets of a market that are the merchant's.
Theirs(m) == {p \in Boards!Pockets(m) : p[1] = "merchant"}

\* What a request at a step keeps, with the rows and the wallets as they are.
Fits(n, step, rows, purses) ==
    /\ n.for \in {"request", "set"} => n.market \in Market
    /\ n.ent = "approved" => n.for = "set"
    /\ step \in {"ensure", "insert"} => n.for \in {"request", "set", "catalog"}
    /\ step \in {"request", "set", "catalog"} => n.for = step
    /\ step = "update" => n.for \in {"request", "set"}
    /\ step = "create" => n.left # {}
    /\ step \in {"request", "set", "catalog", "update"} =>
           \A m \in Market : rows[m] \in MarketRow
    /\ n.ent = "approved" /\ step \in {"provision", "create"} =>
           \A p \in Theirs(n.market) : p \in n.left \/ purses[p] > 0

\* A request at a step is making the wallets of an approved market.
Making(n, step, m) ==
    n.market = m /\ n.ent = "approved" /\ step \in {"provision", "create"}

\* The merchant of an approved market has its wallets, or a request that makes them.
Served(m) ==
    mRow[m].ent = "approved" /\ mCrashes = 0 =>
        \/ \A p \in Theirs(m) : mWallets[p] > 0
        \/ \E c \in Call : Making(mNote[c], mAt[c], m)

BoardsInv ==
    /\ MarketTypes
    /\ \A c \in Call : Fits(mNote[c], mAt[c], mRow, mWallets)
    /\ \A m \in Market : Served(m)

\* Request c goes on to a step with a note; rows stay rows and wallets stay; a
\* market is approved by the request that makes its wallets, and one that
\* stops making them has made them all or died.
RequestMoves(c, to, n) ==
    /\ to \in MarketSteps /\ n \in MarketNote
    /\ mAt' = [mAt EXCEPT ![c] = to] /\ mNote' = [mNote EXCEPT ![c] = n]
    /\ mRow' \in [Market -> MarketRow \cup {Boards!NoRow}]
    /\ mKyc' \in Boards!Kyc
    /\ mWallets' \in [Boards!Pocket -> 0..MaxWallets]
    /\ \A m \in Market : mRow[m] \in MarketRow => mRow'[m] \in MarketRow
    /\ \A p \in Boards!Pocket : mWallets[p] > 0 => mWallets'[p] > 0
    /\ mCrashes' \in Nat /\ (mCrashes' = 0 => mCrashes = 0)
    /\ Fits(n, to, mRow', mWallets')
    /\ \A m \in Market :
           mRow'[m].ent = "approved" =>
               mRow[m].ent = "approved" \/ Making(n, to, m)
    /\ \A m \in Market :
           Making(mNote[c], mAt[c], m) /\ mCrashes' = 0 =>
               \/ Making(n, to, m)
               \/ \A p \in Theirs(m) : mWallets'[p] > 0

LEMMA BoardOwn ==
    ASSUME BoardsInv, NEW c \in Call, NEW to, NEW n, RequestMoves(c, to, n)
    PROVE  BoardsInv'
<1>t. /\ mAt \in [Call -> MarketSteps] /\ mNote \in [Call -> MarketNote]
      /\ mAt' = [mAt EXCEPT ![c] = to] /\ mNote' = [mNote EXCEPT ![c] = n]
      /\ to \in MarketSteps /\ n \in MarketNote
  BY DEF BoardsInv, MarketTypes, RequestMoves
<1>p. /\ mAt'[c] = to /\ mNote'[c] = n
      /\ \A d \in Call : d # c => mAt'[d] = mAt[d] /\ mNote'[d] = mNote[d]
  BY <1>t
<1>r. /\ \A m \in Market : mRow[m] \in MarketRow => mRow'[m] \in MarketRow
      /\ \A p \in Boards!Pocket : mWallets[p] > 0 => mWallets'[p] > 0
      /\ mCrashes' = 0 => mCrashes = 0
      /\ Fits(n, to, mRow', mWallets')
  BY DEF RequestMoves
<1>w. ASSUME NEW m \in Market, NEW p \in Theirs(m), mWallets[p] > 0
      PROVE  mWallets'[p] > 0
  <2>1. p \in Boards!Pocket
    BY DEF Theirs, Boards!Pocket
  <2> QED  BY <1>w, <2>1 DEF RequestMoves
<1>1. MarketTypes'
  BY <1>t DEF MarketTypes, RequestMoves
<1>2. ASSUME NEW d \in Call PROVE Fits(mNote[d], mAt[d], mRow, mWallets)'
  <2>1. CASE d = c
    BY <2>1, <1>p, <1>r
  <2>2. CASE d # c
    <3>1. Fits(mNote[d], mAt[d], mRow, mWallets)
      BY DEF BoardsInv
    <3>2. Fits(mNote[d], mAt[d], mRow', mWallets')
      <4>1. ASSUME mNote[d].ent = "approved", mAt[d] \in {"provision", "create"},
                   NEW p \in Theirs(mNote[d].market)
            PROVE  p \in mNote[d].left \/ mWallets'[p] > 0
        <5>1. mNote[d].market \in Market
          BY <3>1, <4>1 DEF Fits
        <5>2. p \in mNote[d].left \/ mWallets[p] > 0
          BY <3>1, <4>1 DEF Fits
        <5> QED  BY <5>1, <5>2, <1>w
      <4> QED  BY <3>1, <1>r, <4>1 DEF Fits
    <3> QED  BY <2>2, <3>2, <1>p
  <2> QED  BY <2>1, <2>2
<1>3. ASSUME NEW m \in Market PROVE Served(m)'
  <2> SUFFICES ASSUME mRow'[m].ent = "approved", mCrashes' = 0
               PROVE  \/ \A p \in Theirs(m) : mWallets'[p] > 0
                      \/ \E d \in Call : Making(mNote'[d], mAt'[d], m)
    BY DEF Served, Theirs, Boards!Pockets, Making
  <2>1. mCrashes = 0
    BY <1>r
  <2>2. CASE Making(n, to, m)
    BY <2>2, <1>p
  <2>3. CASE mRow[m].ent = "approved"
    <3>1. \/ \A p \in Theirs(m) : mWallets[p] > 0
          \/ \E d \in Call : Making(mNote[d], mAt[d], m)
      BY <2>1, <2>3 DEF BoardsInv, Served
    <3>2. CASE \A p \in Theirs(m) : mWallets[p] > 0
      BY <3>2, <1>w
    <3>3. ASSUME NEW d \in Call, Making(mNote[d], mAt[d], m)
          PROVE  \/ \A p \in Theirs(m) : mWallets'[p] > 0
                 \/ \E e \in Call : Making(mNote'[e], mAt'[e], m)
      <4>1. CASE d = c
        <5>1. \/ Making(n, to, m)
              \/ \A p \in Theirs(m) : mWallets'[p] > 0
          BY <3>3, <4>1 DEF RequestMoves
        <5> QED  BY <5>1, <1>p
      <4>2. CASE d # c
        BY <3>3, <4>2, <1>p
      <4> QED  BY <4>1, <4>2
    <3> QED  BY <3>1, <3>2, <3>3
  <2>4. mRow[m].ent = "approved" \/ Making(n, to, m)
    BY DEF RequestMoves
  <2> QED  BY <2>2, <2>3, <2>4
<1> QED  BY <1>1, <1>2, <1>3 DEF BoardsInv

\* The places and the notes of the requests.
LEMMA BoardNotes ==
    /\ Boards!NoNote \in MarketNote
    /\ \A m \in Market :
          LET n == [Boards!NoNote EXCEPT !.for = "request", !.market = m]
          IN  n \in MarketNote /\ n.for = "request" /\ n.market = m
                               /\ n.ent = "none"
    /\ LET n == [Boards!NoNote EXCEPT !.for = "catalog"]
       IN  n \in MarketNote /\ n.for = "catalog" /\ n.ent = "none"
    /\ \A left \in SUBSET Boards!Pocket :
          LET n == [Boards!NoNote EXCEPT !.for = "credit", !.left = left]
          IN  n \in MarketNote /\ n.for = "credit" /\ n.ent = "none"
    /\ Boards!NoNote.for = "none" /\ Boards!NoNote.ent = "none"
<1>1. /\ Boards!NoNote \in MarketNote /\ Boards!NoNote.for = "none"
      /\ Boards!NoNote.ent = "none"
  BY DEF Boards!NoNote, MarketNote, Boards!Kyc
<1>3. ASSUME NEW m \in Market
      PROVE  LET n == [Boards!NoNote EXCEPT !.for = "request", !.market = m]
             IN  n \in MarketNote /\ n.for = "request" /\ n.market = m
                                  /\ n.ent = "none"
  BY <1>1, <1>3 DEF MarketNote
<1>4. LET n == [Boards!NoNote EXCEPT !.for = "catalog"]
      IN  n \in MarketNote /\ n.for = "catalog" /\ n.ent = "none"
  BY <1>1 DEF MarketNote
<1>5. ASSUME NEW left \in SUBSET Boards!Pocket
      PROVE  LET n == [Boards!NoNote EXCEPT !.for = "credit", !.left = left]
             IN  n \in MarketNote /\ n.for = "credit" /\ n.ent = "none"
  BY <1>1, <1>5 DEF MarketNote
<1> QED  BY <1>1, <1>3, <1>4, <1>5

\* A note with other pockets, or with the KYC status that was read.
LEMMA BoardNoteParts ==
    ASSUME NEW n \in MarketNote
    PROVE  /\ \A left \in SUBSET Boards!Pocket :
                 LET k == [n EXCEPT !.left = left]
                 IN  k \in MarketNote /\ k.for = n.for /\ k.market = n.market
                                      /\ k.ent = n.ent /\ k.left = left
           /\ \A kyc \in Boards!Kyc :
                 LET k == [n EXCEPT !.kyc = kyc]
                 IN  k \in MarketNote /\ k.for = n.for /\ k.market = n.market
                                      /\ k.ent = n.ent /\ k.left = n.left
<1>1. ASSUME NEW left \in SUBSET Boards!Pocket
      PROVE  LET k == [n EXCEPT !.left = left]
             IN  k \in MarketNote /\ k.for = n.for /\ k.market = n.market
                                  /\ k.ent = n.ent /\ k.left = left
  BY <1>1 DEF MarketNote
<1>2. ASSUME NEW kyc \in Boards!Kyc
      PROVE  LET k == [n EXCEPT !.kyc = kyc]
             IN  k \in MarketNote /\ k.for = n.for /\ k.market = n.market
                                  /\ k.ent = n.ent /\ k.left = n.left
  BY <1>2 DEF MarketNote
<1> QED  BY <1>1, <1>2

LEMMA BoardsInit == Boards!Init => BoardsInv
<1> SUFFICES ASSUME Boards!Init PROVE BoardsInv
  OBVIOUS
<1> USE ServiceAssumption DEF Boards!Init
<1>1. MarketTypes
  <2>1. Boards!NoNote \in MarketNote
    BY BoardNotes
  <2>2. "idle" \in MarketSteps /\ 0 \in 0..MaxWallets
    BY DEF MarketSteps
  <2>3. mKyc \in Boards!Kyc
    BY DEF Boards!Kyc
  <2> QED  BY <2>1, <2>2, <2>3 DEF MarketTypes
<1>2. \A c \in Call : Fits(mNote[c], mAt[c], mRow, mWallets)
  BY BoardNotes DEF Fits
<1>3. \A m \in Market : Served(m)
  BY DEF Served, Boards!NoRow
<1> QED  BY <1>1, <1>2, <1>3 DEF BoardsInv

\* What a step of a request finds.
LEMMA BoardFacts ==
    ASSUME BoardsInv, NEW c \in Call
    PROVE  /\ mNote \in [Call -> MarketNote] /\ mNote[c] \in MarketNote
           /\ mAt \in [Call -> MarketSteps] /\ mAt[c] \in MarketSteps
           /\ mRow \in [Market -> MarketRow \cup {Boards!NoRow}]
           /\ mKyc \in Boards!Kyc
           /\ mWallets \in [Boards!Pocket -> 0..MaxWallets]
           /\ MaxWallets \in Nat /\ mCrashes \in Nat
           /\ Fits(mNote[c], mAt[c], mRow, mWallets)
           /\ \A from, to : Boards!Step(c, from, to) =>
                  mAt[c] = from /\ mAt' = [mAt EXCEPT ![c] = to]
           /\ \A m \in Market : Boards!Pockets(m) \subseteq Boards!Pocket
           /\ Boards!NoRow \notin MarketRow
<1>1. \A m \in Market : Boards!Pockets(m) \subseteq Boards!Pocket
  BY DEF Boards!Pocket
<1>2. Boards!NoRow \notin MarketRow
  BY DEF Boards!NoRow, MarketRow, Boards!Entitlement
<1> QED  BY <1>1, <1>2, ServiceAssumption
         DEF BoardsInv, MarketTypes, Boards!Step

\* A step that leaves rows, wallets and crashes alone, and does not stop making
\* wallets, keeps the invariant.
RequestStays(c, to, n) ==
    /\ to \in MarketSteps /\ n \in MarketNote
    /\ mAt' = [mAt EXCEPT ![c] = to] /\ mNote' = [mNote EXCEPT ![c] = n]
    /\ UNCHANGED <<mRow, mKyc, mWallets, mCrashes>>
    /\ Fits(n, to, mRow, mWallets)
    /\ \A m \in Market : Making(mNote[c], mAt[c], m) =>
           \/ Making(n, to, m)
           \/ \A p \in Theirs(m) : mWallets[p] > 0

LEMMA BoardStays ==
    ASSUME BoardsInv, NEW c \in Call, NEW to, NEW n, RequestStays(c, to, n)
    PROVE  BoardsInv'
<1>1. RequestMoves(c, to, n)
  BY BoardFacts DEF RequestMoves, RequestStays
<1> QED  BY <1>1, BoardOwn

\* A request begins: it has nothing to make yet.
LEMMA BoardBegin ==
    ASSUME BoardsInv, NEW c \in Call,
           \/ Boards!AskForMarket(c) \/ Boards!SetMarket(c)
           \/ Boards!OpenCatalog(c) \/ Boards!Credit(c)
    PROVE  BoardsInv'
<1>1. PICK to \in {"ensure", "provision"}, n \in MarketNote :
          /\ Boards!Step(c, "idle", to) /\ mNote' = [mNote EXCEPT ![c] = n]
          /\ n.for \in {"request", "set"} => n.market \in Market
          /\ n.ent = "approved" => n.for = "set"
          /\ to = "ensure" => n.for \in {"request", "set", "catalog"}
          /\ to = "provision" => n.ent = "none"
  <2>1. CASE Boards!AskForMarket(c)
    <3>1. PICK m \in Market :
              Boards!Begin(c, [Boards!NoNote EXCEPT !.for = "request",
                                                    !.market = m])
      BY <2>1 DEF Boards!AskForMarket
    <3> DEFINE n == [Boards!NoNote EXCEPT !.for = "request", !.market = m]
    <3>2. n \in MarketNote /\ n.for = "request" /\ n.market = m /\ n.ent = "none"
      BY BoardNotes
    <3>3. /\ Boards!Step(c, "idle", "ensure")
          /\ mNote' = [mNote EXCEPT ![c] = n]
      BY <3>1 DEF Boards!Begin
    <3> HIDE DEF n
    <3> QED  BY <3>2, <3>3
  <2>2. CASE Boards!SetMarket(c)
    <3>1. PICK m \in Market, ent \in SetsEntitlement, kyb \in SetsKyb :
              Boards!Begin(c, [Boards!NoNote EXCEPT !.for = "set",
                                 !.market = m, !.ent = ent, !.kyb = kyb])
      BY <2>2 DEF Boards!SetMarket
    <3> DEFINE n == [Boards!NoNote EXCEPT !.for = "set", !.market = m,
                                          !.ent = ent, !.kyb = kyb]
    <3>2. /\ ent \in Boards!Entitlement \cup {"none"}
          /\ kyb \in Boards!Kyb \cup {"none"}
      BY ServiceAssumption DEF Boards!Entitlement, Boards!Kyb
    <3>3. n \in MarketNote /\ n.for = "set" /\ n.market = m
      <4>1. Boards!NoNote \in MarketNote
        BY BoardNotes
      <4> QED  BY <3>2, <4>1 DEF MarketNote
    <3>4. /\ Boards!Step(c, "idle", "ensure")
          /\ mNote' = [mNote EXCEPT ![c] = n]
      BY <3>1 DEF Boards!Begin
    <3> HIDE DEF n
    <3> QED  BY <3>3, <3>4
  <2>3. CASE Boards!OpenCatalog(c)
    <3> DEFINE n == [Boards!NoNote EXCEPT !.for = "catalog"]
    <3>1. n \in MarketNote /\ n.for = "catalog" /\ n.ent = "none"
      BY BoardNotes
    <3>2. /\ Boards!Step(c, "idle", "ensure")
          /\ mNote' = [mNote EXCEPT ![c] = n]
      BY <2>3 DEF Boards!OpenCatalog, Boards!Begin
    <3> HIDE DEF n
    <3> QED  BY <3>1, <3>2
  <2>4. CASE Boards!Credit(c)
    <3>1. PICK p \in Boards!Pocket :
              mNote' = [mNote EXCEPT ![c] = [Boards!NoNote EXCEPT
                                               !.for = "credit", !.left = {p}]]
      BY <2>4 DEF Boards!Credit
    <3> DEFINE n == [Boards!NoNote EXCEPT !.for = "credit", !.left = {p}]
    <3>2. n \in MarketNote /\ n.for = "credit" /\ n.ent = "none"
      <4>1. {p} \in SUBSET Boards!Pocket
        OBVIOUS
      <4> QED  BY <4>1, BoardNotes
    <3>3. Boards!Step(c, "idle", "provision")
      BY <2>4 DEF Boards!Credit
    <3>4. mNote' = [mNote EXCEPT ![c] = n]
      BY <3>1
    <3> HIDE DEF n
    <3> QED  BY <3>2, <3>3, <3>4
  <2> QED  BY <2>1, <2>2, <2>3, <2>4
<1>2. mAt[c] = "idle" /\ mAt' = [mAt EXCEPT ![c] = to]
  BY <1>1, BoardFacts
<1>3. UNCHANGED <<mRow, mKyc, mWallets, mCrashes>>
  BY DEF Boards!AskForMarket, Boards!SetMarket, Boards!OpenCatalog, Boards!Credit
<1>4. Fits(n, to, mRow, mWallets)
  BY <1>1 DEF Fits
<1>5. RequestStays(c, to, n)
  BY <1>1, <1>2, <1>3, <1>4 DEF RequestStays, MarketSteps, Making
<1> QED  BY <1>5, BoardStays

\* The rows are counted, or the KYC status is read.
LEMMA BoardReads ==
    ASSUME BoardsInv, NEW c \in Call,
           Boards!Ensure(c) \/ Boards!ReadKyc(c)
    PROVE  BoardsInv'
<1> DEFINE n == mNote[c]
<1>f. /\ mNote \in [Call -> MarketNote] /\ n \in MarketNote
      /\ mAt \in [Call -> MarketSteps]
      /\ mRow \in [Market -> MarketRow \cup {Boards!NoRow}]
      /\ mKyc \in Boards!Kyc
      /\ Fits(n, mAt[c], mRow, mWallets)
  BY BoardFacts
<1>1. CASE Boards!Ensure(c)
  <2>1. PICK to : /\ Boards!Step(c, "ensure", to)
                  /\ to = IF Boards!Missing # {} THEN "insert" ELSE n.for
    BY <1>1 DEF Boards!Ensure, Boards!GoOn
  <2>2. mAt[c] = "ensure" /\ mAt' = [mAt EXCEPT ![c] = to]
    BY <2>1, BoardFacts
  <2>3. n.for \in {"request", "set", "catalog"}
    BY <1>f, <2>2 DEF Fits
  <2>4. to # "insert" => \A m \in Market : mRow[m] \in MarketRow
    BY <2>1, <1>f DEF Boards!Missing
  <2>5. to \in {"insert", n.for}
    BY <2>1
  <2>6. Fits(n, to, mRow, mWallets)
    BY <1>f, <2>2, <2>3, <2>4, <2>5 DEF Fits
  <2>7. /\ mNote' = [mNote EXCEPT ![c] = n]
        /\ UNCHANGED <<mRow, mKyc, mWallets, mCrashes>>
    BY <1>1, <1>f DEF Boards!Ensure, Boards!GoOn
  <2>8. RequestStays(c, to, n)
    BY <1>f, <2>2, <2>3, <2>5, <2>6, <2>7 DEF RequestStays, MarketSteps, Making
  <2> QED  BY <2>8, BoardStays
<1>2. CASE Boards!ReadKyc(c)
  <2>1. /\ mAt[c] \in {"request", "set"}
        /\ mAt' = [mAt EXCEPT ![c] = "update"]
    BY <1>2, BoardFacts DEF Boards!ReadKyc
  <2> DEFINE k == [n EXCEPT !.kyc = mKyc]
  <2>2. /\ k \in MarketNote /\ k.for = n.for /\ k.market = n.market
        /\ k.ent = n.ent /\ k.left = n.left
    BY <1>f, BoardNoteParts
  <2>3. /\ mNote' = [mNote EXCEPT ![c] = k]
        /\ UNCHANGED <<mRow, mKyc, mWallets, mCrashes>>
    BY <1>2, <1>f DEF Boards!ReadKyc
  <2> HIDE DEF k
  <2>4. Fits(k, "update", mRow, mWallets)
    BY <1>f, <2>1, <2>2 DEF Fits
  <2>5. RequestStays(c, "update", k)
    BY <1>f, <2>1, <2>2, <2>3, <2>4 DEF RequestStays, MarketSteps, Making
  <2> QED  BY <2>5, BoardStays
<1> QED  BY <1>1, <1>2

\* The missing rows are inserted, unless another request was faster.
LEMMA BoardInsert ==
    ASSUME BoardsInv, NEW c \in Call, Boards!InsertRows(c)
    PROVE  BoardsInv'
<1> DEFINE n == mNote[c]
<1>f. /\ mNote \in [Call -> MarketNote] /\ n \in MarketNote
      /\ mAt \in [Call -> MarketSteps]
      /\ mRow \in [Market -> MarketRow \cup {Boards!NoRow}]
      /\ mKyc \in Boards!Kyc /\ mCrashes \in Nat
      /\ mWallets \in [Boards!Pocket -> 0..MaxWallets]
      /\ Fits(n, mAt[c], mRow, mWallets)
  BY BoardFacts
<1>u. UNCHANGED <<mKyc, mWallets, mCrashes>>
  BY DEF Boards!InsertRows
<1>1. CASE /\ Boards!GoOn(c, "insert", n.for)
           /\ mRow' = [m \in Market |-> IF m \in Boards!Missing
                                        THEN Boards!NewRow ELSE mRow[m]]
  <2>1. /\ mAt[c] = "insert" /\ mAt' = [mAt EXCEPT ![c] = n.for]
        /\ mNote' = [mNote EXCEPT ![c] = n]
    BY <1>1, <1>f, BoardFacts DEF Boards!GoOn
  <2>2. n.for \in {"request", "set", "catalog"}
    BY <1>f, <2>1 DEF Fits
  <2>3. Boards!NewRow \in MarketRow /\ Boards!NewRow.ent = "disabled"
    BY DEF Boards!NewRow, MarketRow, Boards!Entitlement, Boards!Kyb
  <2>4. \A m \in Market :
            /\ mRow'[m] \in MarketRow
            /\ mRow'[m] = mRow[m] \/ mRow'[m] = Boards!NewRow
    BY <1>1, <1>f, <2>3 DEF Boards!Missing
  <2>5. mRow' \in [Market -> MarketRow]
    BY <1>1, <2>4
  <2>6. Fits(n, n.for, mRow', mWallets')
    BY <1>f, <2>1, <2>2, <2>4 DEF Fits
  <2>7. /\ \A m \in Market : mRow[m] \in MarketRow => mRow'[m] \in MarketRow
        /\ \A m \in Market :
               mRow'[m].ent = "approved" => mRow[m].ent = "approved"
        /\ mRow' \in [Market -> MarketRow \cup {Boards!NoRow}]
    BY <2>3, <2>4, <2>5
  <2>8. \A m \in Market : ~Making(n, mAt[c], m)
    BY <2>1 DEF Making
  <2>9. n.for \in MarketSteps
    BY <2>2 DEF MarketSteps
  <2>10. RequestMoves(c, n.for, n)
    BY <1>f, <1>u, <2>1, <2>6, <2>7, <2>8, <2>9 DEF RequestMoves
  <2> QED  BY <2>10, BoardOwn
<1>2. CASE Boards!Done(c, "insert") /\ UNCHANGED mRow
  <2>1. /\ mAt[c] = "insert" /\ mAt' = [mAt EXCEPT ![c] = "idle"]
        /\ mNote' = [mNote EXCEPT ![c] = Boards!NoNote]
    BY <1>2, BoardFacts DEF Boards!Done
  <2>2. Fits(Boards!NoNote, "idle", mRow, mWallets)
    BY BoardNotes DEF Fits
  <2>3. RequestStays(c, "idle", Boards!NoNote)
    BY <1>2, <1>u, <2>1, <2>2, BoardNotes DEF RequestStays, MarketSteps, Making
  <2> QED  BY <2>3, BoardStays
<1> QED  BY <1>1, <1>2 DEF Boards!InsertRows

\* The decision is written; an approval goes on to the wallets.
LEMMA BoardUpdate ==
    ASSUME BoardsInv, NEW c \in Call, Boards!UpdateRow(c)
    PROVE  BoardsInv'
<1> DEFINE n == mNote[c]
<1>f. /\ mNote \in [Call -> MarketNote] /\ n \in MarketNote
      /\ mAt \in [Call -> MarketSteps]
      /\ mRow \in [Market -> MarketRow \cup {Boards!NoRow}]
      /\ mKyc \in Boards!Kyc /\ mCrashes \in Nat
      /\ mWallets \in [Boards!Pocket -> 0..MaxWallets]
      /\ Fits(n, mAt[c], mRow, mWallets)
      /\ \A m \in Market : Boards!Pockets(m) \subseteq Boards!Pocket
  BY BoardFacts
<1>u. UNCHANGED <<mKyc, mWallets, mCrashes>> /\ mAt[c] = "update"
  BY DEF Boards!UpdateRow
<1>m. /\ n.market \in Market /\ n.for \in {"request", "set"}
      /\ \A m \in Market : mRow[m] \in MarketRow
      /\ n.ent = "approved" => n.for = "set"
  BY <1>f, <1>u DEF Fits
<1>1. PICK r \in MarketRow :
          /\ mRow' = [mRow EXCEPT ![n.market] = r]
          /\ r.ent = "approved" =>
                 mRow[n.market].ent = "approved" \/ n.ent = "approved"
  <2>1. CASE n.for = "request"
    <3>1. /\ Boards!Requested(n) \in MarketRow
          /\ Boards!Requested(n).ent = "requested"
      BY DEF Boards!Requested, MarketRow, Boards!Entitlement, Boards!Kyb
    <3>2. mRow' = [mRow EXCEPT ![n.market] = Boards!Requested(n)]
      BY <2>1 DEF Boards!UpdateRow
    <3> QED  BY <3>1, <3>2
  <2>2. CASE n.for # "request"
    <3> DEFINE r == Boards!Patched(mRow[n.market], n)
    <3>1. r.ent = IF n.ent = "none" THEN mRow[n.market].ent ELSE n.ent
      BY DEF Boards!Patched
    <3>2. r \in MarketRow
      <4>1. PICK ent \in Boards!Entitlement :
                ent = IF n.ent = "none" THEN mRow[n.market].ent ELSE n.ent
        BY <1>f, <1>m DEF MarketNote, MarketRow
      <4>2. PICK kyb \in Boards!Kyb :
                kyb = IF n.kyb # "none" THEN n.kyb
                      ELSE IF n.ent = "approved" /\ n.kyc = "verified"
                           THEN "verified" ELSE mRow[n.market].kyb
        BY <1>f, <1>m DEF MarketNote, MarketRow, Boards!Kyb
      <4>3. r = [ent |-> ent, kyb |-> kyb]
        BY <4>1, <4>2 DEF Boards!Patched
      <4> QED  BY <4>3 DEF MarketRow
    <3>3. mRow' = [mRow EXCEPT ![n.market] = r]
      BY <2>2, <1>f, <1>m DEF Boards!UpdateRow
    <3> HIDE DEF r
    <3> QED  BY <3>1, <3>2, <3>3
  <2> QED  BY <2>1, <2>2
<1>2. /\ mRow' \in [Market -> MarketRow \cup {Boards!NoRow}]
      /\ \A m \in Market : mRow'[m] \in MarketRow
      /\ \A m \in Market :
             mRow'[m].ent = "approved" =>
                 \/ mRow[m].ent = "approved"
                 \/ m = n.market /\ n.ent = "approved"
  BY <1>1, <1>f, <1>m
<1>3. \A m \in Market : ~Making(n, mAt[c], m)
  BY <1>u DEF Making
<1>4. CASE n.ent = "approved"
  <2> DEFINE k == [n EXCEPT !.left = Boards!Pockets(n.market)]
  <2>1. Boards!Pockets(n.market) \in SUBSET Boards!Pocket
    BY <1>f, <1>m
  <2>2. /\ k \in MarketNote /\ k.for = n.for /\ k.market = n.market
        /\ k.ent = n.ent /\ k.left = Boards!Pockets(n.market)
    BY <1>f, <2>1, BoardNoteParts
  <2>3. mAt' = [mAt EXCEPT ![c] = "provision"]
    BY <1>4, BoardFacts DEF Boards!UpdateRow
  <2>4. mNote' = [mNote EXCEPT ![c] = k]
    BY <1>4, <1>f DEF Boards!UpdateRow
  <2> HIDE DEF k
  <2>5. Fits(k, "provision", mRow', mWallets')
    BY <1>m, <2>2 DEF Fits, Theirs
  <2>6. Making(k, "provision", n.market)
    BY <1>4, <2>2 DEF Making
  <2>7. "provision" \in MarketSteps
    BY DEF MarketSteps
  <2>8. RequestMoves(c, "provision", k)
    BY <1>f, <1>u, <1>2, <1>3, <2>2, <2>3, <2>4, <2>5, <2>6, <2>7
    DEF RequestMoves
  <2> QED  BY <2>8, BoardOwn
<1>5. CASE n.ent # "approved"
  <2>1. /\ mAt' = [mAt EXCEPT ![c] = "idle"]
        /\ mNote' = [mNote EXCEPT ![c] = Boards!NoNote]
    BY <1>5, BoardFacts DEF Boards!UpdateRow, Boards!Done
  <2>2. Fits(Boards!NoNote, "idle", mRow', mWallets')
    BY BoardNotes DEF Fits
  <2>3. "idle" \in MarketSteps /\ Boards!NoNote \in MarketNote
    BY BoardNotes DEF MarketSteps
  <2>4. RequestMoves(c, "idle", Boards!NoNote)
    BY <1>f, <1>u, <1>2, <1>3, <1>5, <2>1, <2>2, <2>3 DEF RequestMoves
  <2> QED  BY <2>4, BoardOwn
<1> QED  BY <1>4, <1>5

\* The pockets that remain are those of the market, or those approved before;
\* one after the other is found to have its wallet.
LEMMA BoardFind ==
    ASSUME BoardsInv, NEW c \in Call,
           Boards!ReadCatalog(c) \/ Boards!FindWallet(c)
    PROVE  BoardsInv'
<1> DEFINE n == mNote[c]
<1>f. /\ mNote \in [Call -> MarketNote] /\ n \in MarketNote
      /\ mAt \in [Call -> MarketSteps]
      /\ Fits(n, mAt[c], mRow, mWallets)
      /\ \A m \in Market : Boards!Pockets(m) \subseteq Boards!Pocket
  BY BoardFacts
<1>u. UNCHANGED <<mRow, mKyc, mWallets, mCrashes>>
  BY DEF Boards!ReadCatalog, Boards!FindWallet
<1>1. CASE Boards!ReadCatalog(c)
  <2>1. PICK left \in SUBSET Boards!Pocket :
            mNote' = [mNote EXCEPT ![c].left = left]
    BY <1>1, <1>f DEF Boards!ReadCatalog
  <2>2. /\ mAt[c] = "catalog" /\ mAt' = [mAt EXCEPT ![c] = "provision"]
    BY <1>1, BoardFacts DEF Boards!ReadCatalog
  <2> DEFINE k == [n EXCEPT !.left = left]
  <2>3. /\ k \in MarketNote /\ k.for = n.for /\ k.market = n.market
        /\ k.ent = n.ent
    BY <1>f, BoardNoteParts
  <2>4. mNote' = [mNote EXCEPT ![c] = k]
    BY <2>1, <1>f
  <2> HIDE DEF k
  <2>5. n.for = "catalog" /\ n.ent # "approved"
    BY <1>f, <2>2 DEF Fits
  <2>6. Fits(k, "provision", mRow, mWallets)
    BY <2>3, <2>5 DEF Fits
  <2>7. RequestStays(c, "provision", k)
    BY <1>u, <2>2, <2>3, <2>4, <2>5, <2>6 DEF RequestStays, MarketSteps, Making
  <2> QED  BY <2>7, BoardStays
<1>2. CASE Boards!FindWallet(c)
  <2> DEFINE p == Boards!First(n.left)
  <2>1. p \in n.left /\ n.left # {} /\ n.left \in SUBSET Boards!Pocket
    BY <1>2, <1>f DEF Boards!FindWallet, Boards!First, MarketNote
  <2>2. CASE mWallets[p] > 0
    <3> DEFINE k == [n EXCEPT !.left = n.left \ {p}]
    <3>1. n.left \ {p} \in SUBSET Boards!Pocket
      BY <2>1
    <3>2. /\ k \in MarketNote /\ k.for = n.for /\ k.market = n.market
          /\ k.ent = n.ent /\ k.left = n.left \ {p}
      BY <1>f, <3>1, BoardNoteParts
    <3>3. Boards!Step(c, "provision", "provision")
      BY <1>2, <2>2 DEF Boards!FindWallet
    <3>4. mNote' = [mNote EXCEPT ![c] = k]
      BY <1>2, <2>2, <1>f DEF Boards!FindWallet
    <3>5. /\ mAt[c] = "provision" /\ mAt' = [mAt EXCEPT ![c] = "provision"]
      BY <3>3, BoardFacts
    <3> HIDE DEF k, p
    <3>6. Fits(k, "provision", mRow, mWallets)
      BY <1>f, <2>2, <3>2, <3>5 DEF Fits
    <3>7. RequestStays(c, "provision", k)
      BY <1>u, <3>2, <3>4, <3>5, <3>6 DEF RequestStays, MarketSteps, Making
    <3> QED  BY <3>7, BoardStays
  <2>3. CASE ~(mWallets[p] > 0)
    <3>1. Boards!GoOn(c, "provision", "create")
      BY <1>2, <2>3 DEF Boards!FindWallet
    <3>2. /\ mAt[c] = "provision" /\ mAt' = [mAt EXCEPT ![c] = "create"]
          /\ mNote' = [mNote EXCEPT ![c] = n]
      BY <3>1, <1>f, BoardFacts DEF Boards!GoOn
    <3> HIDE DEF p
    <3>3. Fits(n, "create", mRow, mWallets)
      BY <1>f, <2>1, <3>2 DEF Fits
    <3>4. RequestStays(c, "create", n)
      BY <1>f, <1>u, <3>2, <3>3 DEF RequestStays, MarketSteps, Making
    <3> QED  BY <3>4, BoardStays
  <2> QED  BY <2>2, <2>3
<1> QED  BY <1>1, <1>2

\* A wallet is made for a pocket that had none.
LEMMA BoardCreate ==
    ASSUME BoardsInv, NEW c \in Call, Boards!CreateWallet(c)
    PROVE  BoardsInv'
<1> DEFINE n == mNote[c]
           p == Boards!First(n.left)
           k == [n EXCEPT !.left = n.left \ {p}]
<1>f. /\ mNote \in [Call -> MarketNote] /\ n \in MarketNote
      /\ mAt \in [Call -> MarketSteps]
      /\ mRow \in [Market -> MarketRow \cup {Boards!NoRow}]
      /\ mKyc \in Boards!Kyc /\ mCrashes \in Nat /\ MaxWallets \in Nat
      /\ mWallets \in [Boards!Pocket -> 0..MaxWallets]
      /\ Fits(n, mAt[c], mRow, mWallets)
      /\ \A m \in Market : Boards!Pockets(m) \subseteq Boards!Pocket
  BY BoardFacts
<1>u. UNCHANGED <<mRow, mKyc, mCrashes>>
  BY DEF Boards!CreateWallet
<1>1. mAt[c] = "create" /\ mAt' = [mAt EXCEPT ![c] = "provision"]
  BY BoardFacts DEF Boards!CreateWallet
<1>2. p \in n.left /\ n.left \in SUBSET Boards!Pocket
  BY <1>f, <1>1 DEF Fits, Boards!First, MarketNote
<1>3. /\ k \in MarketNote /\ k.for = n.for /\ k.market = n.market
      /\ k.ent = n.ent /\ k.left = n.left \ {p}
  <2>1. n.left \ {p} \in SUBSET Boards!Pocket
    BY <1>2
  <2> QED  BY <1>f, <2>1, BoardNoteParts
<1>4. mNote' = [mNote EXCEPT ![c] = k]
  BY <1>f DEF Boards!CreateWallet
<1>5. mWallets[p] < MaxWallets /\ mWallets' = [mWallets EXCEPT ![p] = @ + 1]
  BY DEF Boards!CreateWallet
<1> HIDE DEF k, p
<1>6. /\ mWallets' \in [Boards!Pocket -> 0..MaxWallets]
      /\ mWallets'[p] > 0
      /\ \A q \in Boards!Pocket : mWallets[q] > 0 => mWallets'[q] > 0
  BY <1>f, <1>2, <1>5
<1>7. Fits(k, "provision", mRow', mWallets')
  <2>1. k.for \in {"request", "set"} => k.market \in Market
    BY <1>f, <1>3 DEF Fits
  <2>2. k.ent = "approved" => k.for = "set"
    BY <1>f, <1>3 DEF Fits
  <2>3. ASSUME k.ent = "approved", NEW q \in Theirs(k.market)
        PROVE  q \in k.left \/ mWallets'[q] > 0
    <3>1. k.market \in Market /\ q \in Boards!Pocket
      BY <2>1, <2>2, <2>3, <1>f DEF Theirs
    <3>2. q \in n.left \/ mWallets[q] > 0
      BY <2>3, <1>f, <1>1, <1>3 DEF Fits
    <3> QED  BY <3>1, <3>2, <1>3, <1>6
  <2> QED  BY <2>1, <2>2, <2>3 DEF Fits
<1>8. \A m \in Market : Making(n, mAt[c], m) => Making(k, "provision", m)
  BY <1>3 DEF Making
<1>9. "provision" \in MarketSteps
  BY DEF MarketSteps
<1>10. RequestMoves(c, "provision", k)
  BY <1>f, <1>u, <1>1, <1>3, <1>4, <1>6, <1>7, <1>8, <1>9 DEF RequestMoves
<1> QED  BY <1>10, BoardOwn

\* The platform's pocket is passed over: the merchant's are still to be made.
LEMMA BoardSkip ==
    ASSUME BoardsInv, NEW c \in Call, Boards!SkipPlatform(c)
    PROVE  BoardsInv'
<1> DEFINE n == mNote[c]
           p == Boards!First(n.left)
           k == [n EXCEPT !.left = n.left \ {p}]
<1>f. /\ mNote \in [Call -> MarketNote] /\ n \in MarketNote
      /\ mAt \in [Call -> MarketSteps]
      /\ Fits(n, mAt[c], mRow, mWallets)
  BY BoardFacts
<1>1. /\ mAt[c] \in {"provision", "create"}
      /\ mAt' = [mAt EXCEPT ![c] = "provision"]
  BY BoardFacts DEF Boards!SkipPlatform
<1>2. /\ p[1] = "platform"
      /\ UNCHANGED <<mRow, mKyc, mWallets, mCrashes>>
  BY DEF Boards!SkipPlatform
<1>3. /\ k \in MarketNote /\ k.for = n.for /\ k.market = n.market
      /\ k.ent = n.ent /\ k.left = n.left \ {p}
  <2>1. n.left \ {p} \in SUBSET Boards!Pocket
    BY <1>f DEF MarketNote
  <2> QED  BY <1>f, <2>1, BoardNoteParts
<1>4. mNote' = [mNote EXCEPT ![c] = k]
  BY <1>f DEF Boards!SkipPlatform
<1>5. \A q \in Theirs(n.market) : q # p
  BY <1>2 DEF Theirs
<1> HIDE DEF k, p
<1>6. Fits(k, "provision", mRow, mWallets)
  BY <1>f, <1>1, <1>3, <1>5 DEF Fits
<1>7. RequestStays(c, "provision", k)
  BY <1>1, <1>2, <1>3, <1>4, <1>6 DEF RequestStays, MarketSteps, Making
<1> QED  BY <1>7, BoardStays

\* A request ends: with its pockets done, or half-way.
LEMMA BoardEnd ==
    ASSUME BoardsInv, NEW c \in Call, Boards!Finish(c) \/ Boards!Crash(c)
    PROVE  BoardsInv'
<1>f. /\ mNote \in [Call -> MarketNote] /\ mNote[c] \in MarketNote
      /\ mAt \in [Call -> MarketSteps]
      /\ mRow \in [Market -> MarketRow \cup {Boards!NoRow}]
      /\ mKyc \in Boards!Kyc /\ mCrashes \in Nat
      /\ mWallets \in [Boards!Pocket -> 0..MaxWallets]
      /\ Fits(mNote[c], mAt[c], mRow, mWallets)
  BY BoardFacts
<1>1. /\ mAt' = [mAt EXCEPT ![c] = "idle"]
      /\ mNote' = [mNote EXCEPT ![c] = Boards!NoNote]
      /\ UNCHANGED <<mRow, mKyc, mWallets>>
  BY BoardFacts DEF Boards!Finish, Boards!Crash, Boards!Done
<1>2. Fits(Boards!NoNote, "idle", mRow', mWallets')
  BY BoardNotes DEF Fits
<1>3. "idle" \in MarketSteps /\ Boards!NoNote \in MarketNote
  BY BoardNotes DEF MarketSteps
<1>4. /\ mCrashes' \in Nat /\ (mCrashes' = 0 => mCrashes = 0)
      /\ \A m \in Market :
             Making(mNote[c], mAt[c], m) /\ mCrashes' = 0 =>
                 \A p \in Theirs(m) : mWallets'[p] > 0
  <2>1. CASE Boards!Finish(c)
    <3>1. mNote[c].left = {} /\ mCrashes' = mCrashes
      BY <2>1 DEF Boards!Finish
    <3> QED  BY <1>f, <1>1, <3>1 DEF Fits, Making
  <2>2. CASE Boards!Crash(c)
    <3>1. mCrashes' = mCrashes + 1
      BY <2>2 DEF Boards!Crash
    <3> QED  BY <1>f, <3>1
  <2> QED  BY <2>1, <2>2
<1>5. RequestMoves(c, "idle", Boards!NoNote)
  BY <1>f, <1>1, <1>2, <1>3, <1>4 DEF RequestMoves
<1> QED  BY <1>5, BoardOwn

\* Every step of the markets keeps the invariant.
LEMMA BoardsNext ==
    ASSUME BoardsInv, Boards!Next
    PROVE  BoardsInv'
<1>1. CASE Boards!SetKyc
  <2>1. mKyc' \in Boards!Kyc /\ UNCHANGED <<mRow, mWallets, mAt, mNote, mCrashes>>
    BY <1>1 DEF Boards!SetKyc, Boards!requests
  <2> QED  BY <2>1 DEF BoardsInv, MarketTypes, Served
<1> QED  BY <1>1, BoardBegin, BoardReads, BoardInsert, BoardUpdate, BoardFind,
            BoardCreate, BoardSkip, BoardEnd
         DEF Boards!Next, Boards!Serve

\* What the invariant says of the run's properties.
LEMMA BoardsMean ==
    ASSUME BoardsInv
    PROVE  Boards!TypeOK /\ Boards!ApprovedHasWallets
<1>1. \A c \in Call : mNote[c].left \subseteq Boards!Pocket
  BY DEF BoardsInv, MarketTypes, MarketNote
<1>2. Boards!TypeOK
  BY <1>1 DEF BoardsInv, MarketTypes, MarketRow, MarketSteps, Boards!TypeOK
<1>3. Boards!ApprovedHasWallets
  BY DEF BoardsInv, Served, Making, Theirs, Boards!Provisioned,
         Boards!ApprovedHasWallets
<1> QED  BY <1>2, <1>3

-----------------------------------------------------------------------------
(* Billing: a run that has locked a wallet alone knows its balance; what is  *)
(* recorded of a month is what was debited and what the platform received.   *)

\* Where a run is in its merchants, and which row it holds.
BillsRunOK(r) ==
    /\ bPlan[r].of \in Bills!Month /\ bPlan[r].left \subseteq Merchant
    /\ bPlan[r].read \in Int
    /\ bRun[r] \in {"lock", "locked"} => bPlan[r].who \in Merchant
    /\ bRun[r] # "locked" => bHeld[r] = {}
    /\ bRun[r] = "locked" => /\ bHeld[r] = {bPlan[r].who}
                             /\ bPlan[r].read = bBalance[bPlan[r].who]
                             /\ bPlan[r].read >= Fee

BillsExclusive ==
    \A r, q \in Run : r # q => bHeld[r] \cap bHeld[q] = {}

Plan == [of : Bills!Month, left : SUBSET Merchant, who : Merchant \cup {"none"},
         read : Int]

BillsInv ==
    /\ Bills!TypeOK /\ Bills!BilledOnce
    /\ IsFiniteSet(bRecords)
    /\ bPlan \in [Run -> Plan]
    /\ \A r \in Run : BillsRunOK(r)
    /\ BillsExclusive

\* Counting is counting, inside the instance too.
LEMMA BillsCardinality == \A S : Bills!Cardinality(S) = Cardinality(S)
BY DEF Bills!Cardinality, Cardinality

LEMMA BillsInit == Bills!Init => BillsInv
<1> SUFFICES ASSUME Bills!Init PROVE BillsInv
  OBVIOUS
<1> USE ServiceAssumption DEF Bills!Init, Bills!Idle, Bills!Month
<1>1. Bills!TypeOK
  BY DEF Bills!TypeOK
<1>2. IsFiniteSet(bRecords) /\ Cardinality(bRecords) = 0
  BY FS_EmptySet
<1>3. Bills!BilledOnce
  BY <1>2, BillsCardinality DEF Bills!BilledOnce
<1>4. bPlan \in [Run -> Plan] /\ \A r \in Run : BillsRunOK(r)
  BY DEF Plan, BillsRunOK
<1>5. BillsExclusive
  BY DEF BillsExclusive
<1> QED  BY <1>1, <1>2, <1>3, <1>4, <1>5 DEF BillsInv

\* A step of a run moves that run alone.
LEMMA BillsMoves ==
    ASSUME BillsInv, NEW r \in Run, NEW from, NEW to, Bills!Step(r, from, to)
    PROVE  /\ bRun[r] = from
           /\ bRun' = [q \in Run |-> IF q = r THEN to ELSE bRun[q]]
BY DEF BillsInv, Bills!TypeOK, Bills!Step

\* A run goes from one merchant to the next, or begins or ends: no money moves.
LEMMA BillsWalk ==
    ASSUME BillsInv, NEW r \in Run, NEW to \in {"idle", "next", "lock"},
           bRun' = [q \in Run |-> IF q = r THEN to ELSE bRun[q]],
           bHeld' = [q \in Run |-> IF q = r THEN {} ELSE bHeld[q]],
           NEW p \in Plan, to = "lock" => p.who \in Merchant,
           bPlan' = [q \in Run |-> IF q = r THEN p ELSE bPlan[q]],
           UNCHANGED <<bMonth, bBalance, bPlatform, bEntries, bRecords>>
    PROVE  BillsInv'
<1>1. Bills!TypeOK'
  BY DEF BillsInv, Bills!TypeOK
<1>2. Bills!BilledOnce' /\ IsFiniteSet(bRecords')
  BY DEF BillsInv, Bills!BilledOnce
<1>3. bPlan' \in [Run -> Plan]
  BY DEF BillsInv
<1>4. ASSUME NEW q \in Run PROVE BillsRunOK(q)'
  <2>1. CASE q = r
    BY <2>1 DEF Plan, BillsRunOK
  <2>2. CASE q # r
    BY <2>2 DEF BillsInv, BillsRunOK
  <2> QED  BY <2>1, <2>2
<1>5. BillsExclusive'
  BY DEF BillsInv, BillsExclusive
<1> QED  BY <1>1, <1>2, <1>3, <1>4, <1>5 DEF BillsInv

\* The wallet of a merchant is locked and its balance read.
LEMMA BillsLock ==
    ASSUME BillsInv, NEW r \in Run, Bills!LockWallet(r)
    PROVE  BillsInv'
<1> DEFINE m == bPlan[r].who
<1>1. /\ bRun[r] = "lock" /\ \A q \in Run : m \notin bHeld[q]
      /\ UNCHANGED <<bMonth, bBalance, bPlatform, bEntries, bRecords, bFaults>>
  BY DEF Bills!LockWallet, Bills!money
<1>2. m \in Merchant /\ bPlan[r] \in Plan /\ bHeld[r] = {}
  BY <1>1 DEF BillsInv, BillsRunOK
<1>3. /\ bBalance[m] \in Int /\ bPlan \in [Run -> Plan]
      /\ bHeld \in [Run -> SUBSET Merchant]
  BY <1>2, ServiceAssumption DEF BillsInv, Bills!TypeOK
<1>4. CASE bBalance[m] < Fee
  <2>1. bRun' = [q \in Run |-> IF q = r THEN "next" ELSE bRun[q]]
    BY <1>4, BillsMoves DEF Bills!LockWallet
  <2>2. /\ bHeld' = [q \in Run |-> IF q = r THEN {} ELSE bHeld[q]]
        /\ bPlan' = [q \in Run |-> IF q = r THEN bPlan[r] ELSE bPlan[q]]
    BY <1>2, <1>3, <1>4 DEF Bills!LockWallet
  <2> QED  BY <1>1, <1>2, <2>1, <2>2, BillsWalk
<1>5. CASE ~(bBalance[m] < Fee)
  <2>1. bRun' = [q \in Run |-> IF q = r THEN "locked" ELSE bRun[q]]
    BY <1>5, BillsMoves DEF Bills!LockWallet
  <2>2. bHeld' = [q \in Run |-> IF q = r THEN {m} ELSE bHeld[q]]
    BY <1>3, <1>5 DEF Bills!LockWallet
  <2>3. /\ bPlan' \in [Run -> Plan]
        /\ \A q \in Run : q # r => bPlan'[q] = bPlan[q]
        /\ bPlan'[r] = [bPlan[r] EXCEPT !.read = bBalance[m]]
    BY <1>2, <1>3, <1>5 DEF Bills!LockWallet, Plan
  <2>4. Bills!TypeOK'
    BY <1>1, <1>2, <2>1, <2>2 DEF BillsInv, Bills!TypeOK
  <2>5. Bills!BilledOnce' /\ IsFiniteSet(bRecords')
    BY <1>1 DEF BillsInv, Bills!BilledOnce
  <2>6. ASSUME NEW q \in Run PROVE BillsRunOK(q)'
    <3>1. CASE q = r
      BY <1>1, <1>2, <1>3, <1>5, <2>1, <2>2, <2>3, <3>1, ServiceAssumption
      DEF Plan, BillsRunOK
    <3>2. CASE q # r
      BY <1>1, <2>1, <2>2, <2>3, <3>2 DEF BillsInv, BillsRunOK
    <3> QED  BY <3>1, <3>2
  <2>7. BillsExclusive'
    BY <1>1, <2>2 DEF BillsInv, BillsExclusive
  <2> QED  BY <2>3, <2>4, <2>5, <2>6, <2>7 DEF BillsInv
<1> QED  BY <1>4, <1>5

\* The fee is debited, received and recorded, or, if the month has a record,
\* nothing is written.
LEMMA BillsBill ==
    ASSUME BillsInv, NEW r \in Run, Bills!Bill(r)
    PROVE  BillsInv'
<1> DEFINE m == bPlan[r].who
           k == bPlan[r].of
<1>1. /\ bRun[r] = "locked" /\ UNCHANGED <<bMonth, bPlan>>
      /\ bRun' = [q \in Run |-> IF q = r THEN "next" ELSE bRun[q]]
  BY BillsMoves DEF Bills!Bill
<1>2. /\ m \in Merchant /\ k \in Bills!Month /\ bPlan[r] \in Plan
      /\ bHeld[r] = {m} /\ bPlan[r].read = bBalance[m] /\ bBalance[m] >= Fee
  BY <1>1 DEF BillsInv, BillsRunOK
<1>3. /\ bBalance[m] \in 0..Float /\ Float \in Nat /\ Fee \in Nat
      /\ bPlan \in [Run -> Plan] /\ bHeld \in [Run -> SUBSET Merchant]
      /\ bEntries \in [Merchant -> [Bills!Month -> Nat]] /\ bPlatform \in Nat
  BY <1>2, ServiceAssumption DEF BillsInv, Bills!TypeOK
<1>4. bHeld' = [q \in Run |-> IF q = r THEN {} ELSE bHeld[q]]
  BY <1>3 DEF Bills!Bill
<1>5. CASE <<m, k>> \in bRecords
  <2>1. UNCHANGED <<bBalance, bPlatform, bEntries, bRecords>>
    BY <1>5 DEF Bills!Bill, Bills!money
  <2>2. bPlan' = [q \in Run |-> IF q = r THEN bPlan[r] ELSE bPlan[q]]
    BY <1>1, <1>3
  <2> QED  BY <1>1, <1>2, <1>4, <2>1, <2>2, BillsWalk
<1>6. CASE <<m, k>> \notin bRecords
  <2>1. /\ bBalance' = [bBalance EXCEPT ![m] = bBalance[m] - Fee]
        /\ bPlatform' = bPlatform + Fee
        /\ bEntries' = [bEntries EXCEPT ![m][k] = @ + 1]
        /\ bRecords' = bRecords \cup {<<m, k>>}
    BY <1>2, <1>6 DEF Bills!Bill, Bills!Write
  <2>2. Bills!TypeOK'
    <3>1. bBalance' \in [Merchant -> 0..Float] /\ bPlatform' \in Nat
      BY <1>2, <1>3, <2>1 DEF BillsInv, Bills!TypeOK
    <3>2. bEntries' \in [Merchant -> [Bills!Month -> Nat]]
      BY <1>2, <1>3, <2>1
    <3>3. bRecords' \subseteq Merchant \X Bills!Month
      BY <1>2, <2>1 DEF BillsInv, Bills!TypeOK
    <3> QED  BY <1>1, <1>4, <3>1, <3>2, <3>3 DEF BillsInv, Bills!TypeOK
  <2>3. /\ IsFiniteSet(bRecords')
        /\ Cardinality(bRecords') = Cardinality(bRecords) + 1
        /\ Cardinality(bRecords) \in Nat
    BY <1>6, <2>1, FS_AddElement, FS_CardinalityType DEF BillsInv
  <2>4. Bills!BilledOnce'
    <3>1. \A c \in Merchant, d \in Bills!Month :
              bEntries'[c][d] = IF <<c, d>> \in bRecords' THEN 1 ELSE 0
      <4> TAKE c \in Merchant, d \in Bills!Month
      <4>1. bEntries[c][d] = IF <<c, d>> \in bRecords THEN 1 ELSE 0
        BY DEF BillsInv, Bills!BilledOnce
      <4>2. CASE c = m /\ d = k
        BY <1>2, <1>3, <1>6, <2>1, <4>1, <4>2
      <4>3. CASE ~(c = m /\ d = k)
        <5>1. bEntries'[c][d] = bEntries[c][d]
          BY <1>2, <1>3, <2>1, <4>3
        <5>2. <<c, d>> \in bRecords' <=> <<c, d>> \in bRecords
          BY <2>1, <4>3
        <5> QED  BY <4>1, <5>1, <5>2
      <4> QED  BY <4>2, <4>3
    <3>2. bPlatform' = Fee * Cardinality(bRecords')
      <4>1. bPlatform = Fee * Cardinality(bRecords)
        BY BillsCardinality DEF BillsInv, Bills!BilledOnce
      <4>2. ASSUME NEW n \in Nat PROVE Fee * (n + 1) = Fee * n + Fee
        BY <1>3
      <4> QED  BY <2>1, <2>3, <4>1, <4>2
    <3> QED  BY <3>1, <3>2, BillsCardinality DEF Bills!BilledOnce
  <2>5. ASSUME NEW q \in Run PROVE BillsRunOK(q)'
    <3>1. CASE q = r
      BY <1>1, <1>2, <1>4, <3>1 DEF Plan, BillsRunOK
    <3>2. CASE q # r
      <4>1. bRun[q] = "locked" => bPlan[q].who # m
        BY <1>2, <3>2 DEF BillsInv, BillsRunOK, BillsExclusive
      <4>2. BillsRunOK(q)
        BY DEF BillsInv
      <4>3. bRun'[q] = bRun[q] /\ bHeld'[q] = bHeld[q] /\ bPlan'[q] = bPlan[q]
        BY <1>1, <1>4, <3>2
      <4>4. bRun[q] = "locked" =>
                bBalance'[bPlan[q].who] = bBalance[bPlan[q].who]
        BY <2>1, <4>1, <4>2 DEF BillsRunOK, BillsInv, Bills!TypeOK
      <4> QED  BY <4>2, <4>3, <4>4 DEF BillsRunOK
    <3> QED  BY <3>1, <3>2
  <2>6. BillsExclusive'
    BY <1>4 DEF BillsInv, BillsExclusive
  <2> QED  BY <1>1, <2>2, <2>3, <2>4, <2>5, <2>6 DEF BillsInv
<1> QED  BY <1>5, <1>6

\* Every step of the job, a crash, a payment and a new month keep the invariant.
LEMMA BillsNext ==
    ASSUME BillsInv, Bills!Next
    PROVE  BillsInv'
<1>t. /\ bPlan \in [Run -> Plan] /\ bHeld \in [Run -> SUBSET Merchant]
      /\ \A r \in Run : BillsRunOK(r) /\ bPlan[r] \in Plan
      /\ bMonth \in Bills!Month
  BY DEF BillsInv, Bills!TypeOK
<1>1. ASSUME NEW r \in Run, Bills!Start(r) PROVE BillsInv'
  <2> DEFINE p == [Bills!Idle EXCEPT !.of = bMonth, !.left = Merchant]
  <2>0. Bills!Idle \in Plan
    BY ServiceAssumption DEF Plan, Bills!Idle, Bills!Month
  <2>1. p \in Plan
    BY <1>t, <2>0 DEF Plan
  <2>2. /\ bPlan' = [q \in Run |-> IF q = r THEN p ELSE bPlan[q]]
        /\ UNCHANGED <<bMonth, bBalance, bPlatform, bEntries, bRecords, bHeld>>
    BY <1>1, <1>t DEF Bills!Start, Bills!money
  <2>3. /\ bRun[r] = "idle"
        /\ bRun' = [q \in Run |-> IF q = r THEN "next" ELSE bRun[q]]
    BY <1>1, BillsMoves DEF Bills!Start
  <2>4. bHeld' = [q \in Run |-> IF q = r THEN {} ELSE bHeld[q]]
    BY <1>t, <2>2, <2>3 DEF BillsRunOK
  <2> HIDE DEF p
  <2> QED  BY <2>1, <2>2, <2>3, <2>4, BillsWalk
<1>2. ASSUME NEW r \in Run, Bills!CheckRecord(r) PROVE BillsInv'
  <2>1. PICK m \in bPlan[r].left :
            /\ Bills!Step(r, "next", IF <<m, bPlan[r].of>> \in bRecords
                                     THEN "next" ELSE "lock")
            /\ bPlan' = [bPlan EXCEPT ![r].left = @ \ {m}, ![r].who = m]
    BY <1>2 DEF Bills!CheckRecord
  <2> DEFINE p == [bPlan[r] EXCEPT !.left = @ \ {m}, !.who = m]
  <2>2. m \in Merchant
    BY <1>t DEF BillsRunOK
  <2>3. p \in Plan /\ p.who \in Merchant
    BY <1>t, <2>2 DEF Plan
  <2>4. bPlan' = [q \in Run |-> IF q = r THEN p ELSE bPlan[q]]
    BY <1>t, <2>1 DEF Plan
  <2>5. UNCHANGED <<bMonth, bBalance, bPlatform, bEntries, bRecords, bHeld>>
    BY <1>2 DEF Bills!CheckRecord, Bills!money
  <2>6. PICK to \in {"next", "lock"} :
            Bills!Step(r, "next", to)
    BY <2>1
  <2>7. /\ bRun[r] = "next"
        /\ bRun' = [q \in Run |-> IF q = r THEN to ELSE bRun[q]]
    BY <2>6, BillsMoves
  <2>8. bHeld' = [q \in Run |-> IF q = r THEN {} ELSE bHeld[q]]
    BY <1>t, <2>5, <2>7 DEF BillsRunOK
  <2> HIDE DEF p
  <2> QED  BY <2>3, <2>4, <2>5, <2>7, <2>8, BillsWalk
<1>3. ASSUME NEW r \in Run, Bills!Finish(r) \/ Bills!Crash(r) PROVE BillsInv'
  <2>1. Bills!Idle \in Plan
    BY ServiceAssumption DEF Plan, Bills!Idle, Bills!Month
  <2>2. /\ bPlan' = [q \in Run |-> IF q = r THEN Bills!Idle ELSE bPlan[q]]
        /\ UNCHANGED <<bMonth, bBalance, bPlatform, bEntries, bRecords>>
    BY <1>3, <1>t DEF Bills!Finish, Bills!Crash, Bills!money
  <2>3. bRun' = [q \in Run |-> IF q = r THEN "idle" ELSE bRun[q]]
    BY <1>3, BillsMoves DEF Bills!Finish, Bills!Crash, BillsInv, Bills!TypeOK
  <2>4. bHeld' = [q \in Run |-> IF q = r THEN {} ELSE bHeld[q]]
    <3>1. CASE Bills!Finish(r)
      <4>1. bRun[r] = "next" /\ bHeld' = bHeld
        BY <3>1, BillsMoves DEF Bills!Finish
      <4> QED  BY <4>1, <1>t DEF BillsRunOK
    <3>2. CASE Bills!Crash(r)
      BY <3>2, <1>t DEF Bills!Crash
    <3> QED  BY <1>3, <3>1, <3>2
  <2> QED  BY <2>1, <2>2, <2>3, <2>4, BillsWalk
<1>4. CASE Bills!Spend
  <2>1. PICK m \in Merchant :
            /\ bBalance[m] > 0 /\ \A q \in Run : m \notin bHeld[q]
            /\ bBalance' = [bBalance EXCEPT ![m] = bBalance[m] - 1]
            /\ UNCHANGED <<bMonth, bPlatform, bEntries, bRecords, bHeld, bRun, bPlan>>
    BY <1>4 DEF Bills!Spend
  <2>2. bBalance' \in [Merchant -> 0..Float]
    BY <2>1, ServiceAssumption DEF BillsInv, Bills!TypeOK
  <2>3. Bills!TypeOK'
    BY <2>1, <2>2 DEF BillsInv, Bills!TypeOK
  <2>4. Bills!BilledOnce' /\ IsFiniteSet(bRecords') /\ BillsExclusive'
    BY <2>1 DEF BillsInv, Bills!BilledOnce, BillsExclusive
  <2>5. ASSUME NEW q \in Run PROVE BillsRunOK(q)'
    <3>1. BillsRunOK(q)
      BY <1>t
    <3>2. bRun[q] = "locked" => bPlan[q].who # m
      BY <2>1, <3>1 DEF BillsRunOK
    <3>3. bRun[q] = "locked" =>
              bBalance'[bPlan[q].who] = bBalance[bPlan[q].who]
      BY <2>1, <3>1, <3>2 DEF BillsRunOK, BillsInv, Bills!TypeOK
    <3> QED  BY <2>1, <3>1, <3>3 DEF BillsRunOK
  <2> QED  BY <1>t, <2>1, <2>3, <2>4, <2>5 DEF BillsInv
<1>5. CASE Bills!NewMonth
  <2>1. UNCHANGED <<bBalance, bPlatform, bEntries, bRecords, bHeld, bRun, bPlan>>
    BY <1>5 DEF Bills!NewMonth, Bills!money
  <2>2. bMonth' \in Bills!Month
    BY <1>5, <1>t, ServiceAssumption DEF Bills!NewMonth, Bills!Month
  <2>3. Bills!TypeOK'
    BY <2>1, <2>2 DEF BillsInv, Bills!TypeOK
  <2>4. \A q \in Run : BillsRunOK(q)'
    BY <2>1, <1>t DEF BillsRunOK
  <2> QED  BY <2>1, <2>3, <2>4 DEF BillsInv, Bills!BilledOnce, BillsExclusive
<1> QED  BY <1>1, <1>2, <1>3, <1>4, <1>5, BillsLock, BillsBill
         DEF Bills!Next, Bills!Progress

-----------------------------------------------------------------------------
(* The worlds together: a behaviour is one of them, and the others stay where *)
(* they are.                                                                  *)

AllInv ==
    /\ IInv
    /\ world = "circuit" => CircuitsInv
    /\ world = "market" => BoardsInv
    /\ world = "billing" => BillsInv

LEMMA AllInitInv == AllInit => AllInv
<1> SUFFICES ASSUME AllInit PROVE AllInv
  OBVIOUS
<1>1. IInv
  BY InitIInv DEF AllInit
<1>2. /\ world = "circuit" => CircuitsInv
      /\ world = "market" => BoardsInv
      /\ world = "billing" => BillsInv
  BY CircuitsInit, BoardsInit, BillsInit DEF AllInit
<1> QED  BY <1>1, <1>2 DEF AllInv

\* A world that stays where it is keeps its invariant.
LEMMA ServiceStays ==
    /\ IInv /\ UNCHANGED vars => IInv'
    /\ CircuitsInv /\ UNCHANGED CircuitsVars => CircuitsInv'
    /\ BoardsInv /\ UNCHANGED BoardsVars => BoardsInv'
    /\ BillsInv /\ UNCHANGED BillsVars => BillsInv'
<1>1. IInv /\ UNCHANGED vars => IInv'
  BY NextIInv
<1>2. CircuitsInv /\ UNCHANGED CircuitsVars => CircuitsInv'
  BY DEF CircuitsVars, CircuitsInv, CircuitTypes, CallOK
<1>3. BoardsInv /\ UNCHANGED BoardsVars => BoardsInv'
  BY DEF BoardsVars, BoardsInv, MarketTypes, Served
<1>4. BillsInv /\ UNCHANGED BillsVars => BillsInv'
  <2> SUFFICES ASSUME BillsInv, UNCHANGED BillsVars PROVE BillsInv'
    OBVIOUS
  <2>1. Bills!TypeOK' /\ Bills!BilledOnce'
    BY DEF BillsVars, BillsInv, Bills!TypeOK, Bills!BilledOnce
  <2>2. \A r \in Run : BillsRunOK(r)'
    BY DEF BillsVars, BillsInv, BillsRunOK
  <2> QED  BY <2>1, <2>2 DEF BillsVars, BillsInv, BillsExclusive
<1> QED  BY <1>1, <1>2, <1>3, <1>4

\* Every step keeps the invariant of its world.
LEMMA AllNextInv ==
    AllInv /\ [AllNext]_<<world, vars, CircuitsVars, BoardsVars, BillsVars>>
        => AllInv'
<1> SUFFICES ASSUME AllInv,
                    [AllNext]_<<world, vars, CircuitsVars, BoardsVars, BillsVars>>
             PROVE  AllInv'
  OBVIOUS
<1>1. CASE AllNext
  <2>1. world' = world
    BY <1>1 DEF AllNext
  <2>2. CASE world = "approval" /\ Next
    BY <2>1, <2>2, NextIInv DEF AllInv
  <2>3. CASE /\ world = "circuit" /\ Circuits!Next /\ UNCHANGED vars
    BY <2>1, <2>3, CircuitsNext, ServiceStays DEF AllInv
  <2>4. CASE /\ world = "market" /\ Boards!Next /\ UNCHANGED vars
    BY <2>1, <2>4, BoardsNext, ServiceStays DEF AllInv
  <2>5. CASE /\ world = "billing" /\ Bills!Next /\ UNCHANGED vars
    BY <2>1, <2>5, BillsNext, ServiceStays DEF AllInv
  <2> QED  BY <1>1, <2>2, <2>3, <2>4, <2>5 DEF AllNext
<1>2. CASE UNCHANGED <<world, vars, CircuitsVars, BoardsVars, BillsVars>>
  BY <1>2, ServiceStays DEF AllInv
<1> QED  BY <1>1, <1>2

\* The code of each world keeps, in every interleaving, what its steps rely on.
THEOREM ServiceInvariant == AllSpec => []AllInv
  BY AllInitInv, AllNextInv, PTL DEF AllSpec

\* Every variable of every world has its type, for any constants.
THEOREM ServiceTypes == AllSpec => []TypesOK
<1>1. AllInv => TypesOK
  BY CircuitsMean, BoardsMean DEF AllInv, IInv, BillsInv, TypesOK
<1> QED  BY <1>1, ServiceInvariant, PTL

\* provider-circuit-breaker.ts: "A circuit opened on one app instance is honored
\* by all peers": for any processes and calls, none that Redis answered goes out
\* inside a window Redis had been told of when it began.
THEOREM PeersAlwaysHonour == AllSpec => []PeersHonour
<1>1. AllInv => PeersHonour
  BY CircuitsMean DEF AllInv, PeersHonour
<1> QED  BY <1>1, ServiceInvariant, PTL

\* merchant-markets.ts: for any markets and requests, an approval that has been
\* answered has left a wallet in each pocket of its market, whatever was asked
\* for, suspended or approved meanwhile.
THEOREM ApprovedAlwaysHasWallets == AllSpec => []ApprovedHasWallets
<1>1. AllInv => ApprovedHasWallets
  BY BoardsMean DEF AllInv, ApprovedHasWallets
<1> QED  BY <1>1, ServiceInvariant, PTL

\* monthly-billing.ts: for any runs, merchants and fee, runs that overlap, repeat
\* or die charge each merchant's month once, and what the platform received is
\* what was debited.
THEOREM MonthsAreBilledOnce == AllSpec => []BilledOnce
<1>1. AllInv => BilledOnce
  BY DEF AllInv, BillsInv, BilledOnce
<1> QED  BY <1>1, ServiceInvariant, PTL
=============================================================================
