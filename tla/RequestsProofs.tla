--------------------------- MODULE RequestsProofs ---------------------------
(***************************************************************************)
(* Proofs about MCRequests, for any requests, bodies, jobs, batches,       *)
(* crashes and failing writes.  One Idempotency-Key: the slot records      *)
(* enough to tell that no two requests work at once: whoever works finds   *)
(* its own claim in the slot, and whoever finished finds a completed slot, *)
(* which is never left.  Deliveries: what a queue has given out is still   *)
(* in the batch of its worker, or was told, or passed over.                *)
(***************************************************************************)
EXTENDS MCRequests, SequenceTheorems, TLAPS

-----------------------------------------------------------------------------
(* One Idempotency-Key.                                                       *)

\* A request that works holds the slot.
HolderClaimed ==
    \A r \in Request : at[r] \in Holding
        => slot.status = "in_progress" /\ slot.body = body[r]

\* A request that answered has completed the slot.
FreshCompleted ==
    \A r \in Request : at[r] = "fresh" => slot.status = "completed"

\* A response is stored, or about to be, only for work that took effect.
ResponseWorked ==
    /\ \A r \in Request : at[r] = "storing" => r \in effects
    /\ slot.status = "in_progress" => slot.response = None
    /\ slot.response \in Request
           => slot.body = body[slot.response] /\ slot.response \in effects

IInv == /\ TypeOK /\ OneAtWork /\ FreshOnce /\ ReplayIsFaithful
        /\ HolderClaimed /\ FreshCompleted /\ ResponseWorked

-----------------------------------------------------------------------------
\* The slot starts empty, or completed by nobody here.
LEMMA InitIInv == Init => IInv
<1> SUFFICES ASSUME Init PROVE IInv
  OBVIOUS
<1> USE IdempotencyAssumption DEF Init, Absent
<1>1. TypeOK
  BY DEF TypeOK, Running
<1>2. OneAtWork /\ FreshOnce /\ ReplayIsFaithful
  BY DEF OneAtWork, FreshOnce, ReplayIsFaithful, Holding
<1>3. HolderClaimed /\ FreshCompleted /\ ResponseWorked
  BY DEF HolderClaimed, FreshCompleted, ResponseWorked, Holding
<1>4. QED
  BY <1>1, <1>2, <1>3 DEF IInv

\* No step of any request takes a variable out of its type.
LEMMA TypeStep == ASSUME TypeOK, Next PROVE TypeOK'
<1> USE IdempotencyAssumption DEF TypeOK, limits, Step, Running, Outcome
<1> PICK r \in Request : Proceed(r) \/ ProcessDies(r)
  BY DEF Next
<1>1. CASE Claim(r)
  BY <1>1 DEF Claim
<1>2. CASE Inspect(r)
  BY <1>2 DEF Inspect
<1>3. CASE WorkReturns(r)
  BY <1>3 DEF WorkReturns
<1>4. CASE WorkThrows(r)
  BY <1>4 DEF WorkThrows
<1>5. CASE Release(r)
  BY <1>5 DEF Release, Absent
<1>6. CASE Store(r)
  <2>1. slot' \in [status : {"absent", "in_progress", "completed"},
                   body : Body \cup {None}, response : Request \cup {None}]
    <3>1. \/ slot' = slot
          \/ slot' = [slot EXCEPT !.status = "completed", !.response = r]
      BY <1>6 DEF Store
    <3>2. QED
      BY <3>1
  <2>2. at' \in [Request -> Running \cup Outcome]
    BY <1>6 DEF Store
  <2>3. UNCHANGED <<body, answer, effects>>
    BY <1>6 DEF Store
  <2>4. crashes' \in 0 .. MaxCrash /\ errors' \in 0 .. MaxError
    BY <1>6 DEF Store
  <2>5. QED
    BY <2>1, <2>2, <2>3, <2>4
<1>7. CASE ProcessDies(r)
  BY <1>7 DEF ProcessDies
<1>8. QED
  BY <1>1, <1>2, <1>3, <1>4, <1>5, <1>6, <1>7 DEF Proceed

\* Every step keeps the invariant.
LEMMA StepIInv == ASSUME IInv, [Next]_vars PROVE IInv'
<1> USE IdempotencyAssumption DEF IInv
<1>1. CASE UNCHANGED vars
  BY <1>1 DEF vars, limits, TypeOK, OneAtWork, FreshOnce, ReplayIsFaithful,
              HolderClaimed, FreshCompleted, ResponseWorked
<1>2. ASSUME NEW r \in Request, Proceed(r) \/ ProcessDies(r)
      PROVE  IInv'
  <2> DEFINE Rest == OneAtWork /\ FreshOnce /\ ReplayIsFaithful
                     /\ HolderClaimed /\ FreshCompleted /\ ResponseWorked
  <2>1. TypeOK'
    BY <1>2, TypeStep DEF Next
  <2>2. Rest'
    <3> USE DEF TypeOK, OneAtWork, FreshOnce, ReplayIsFaithful, HolderClaimed,
                FreshCompleted, ResponseWorked, limits, Step, Holding
    <3>1. CASE Claim(r)
      BY <3>1 DEF Claim
    <3>2. CASE Inspect(r)
      BY <3>2 DEF Inspect
    <3>3. CASE WorkReturns(r)
      BY <3>3 DEF WorkReturns
    <3>4. CASE WorkThrows(r)
      BY <3>4 DEF WorkThrows
    <3>5. CASE Release(r)
      BY <3>5 DEF Release, Absent
    <3>6. CASE Store(r)
      <4>1. CASE Step(r, "storing", "thrown") /\ UNCHANGED slot
        BY <3>6, <4>1 DEF Store
      <4>2. CASE Step(r, "storing", "fresh")
        <5>1. slot' = [slot EXCEPT !.status = "completed", !.response = r]
          BY <3>6, <4>2 DEF Store
        <5>2. slot'.status = "completed" /\ slot'.body = body[r]
              /\ slot'.response = r
          BY <4>2, <5>1
        <5>3. QED
          BY <3>6, <4>2, <5>2 DEF Store
      <4>3. QED
        BY <3>6, <4>1, <4>2 DEF Store
    <3>7. CASE ProcessDies(r)
      BY <3>7 DEF ProcessDies
    <3>8. QED
      BY <1>2, <3>1, <3>2, <3>3, <3>4, <3>5, <3>6, <3>7 DEF Proceed
  <2>3. QED
    BY <2>1, <2>2
<1>3. QED
  BY <1>1, <1>2 DEF Next

\* The invariant holds in every reachable state.
THEOREM InvariantAlways == Spec => []IInv
<1>1. Init => IInv
  BY InitIInv
<1>2. IInv /\ [Next]_vars => IInv'
  BY StepIInv
<1>3. QED
  BY <1>1, <1>2, PTL DEF Spec

\* Whatever crashes or fails, one key has one request at work.
THEOREM WorkIsExclusive == Spec => []OneAtWork
<1>1. IInv => OneAtWork
  BY DEF IInv
<1>2. QED
  BY <1>1, InvariantAlways, PTL

\* One key returns fresh work to one client at most.
THEOREM FreshAtMostOnce == Spec => []FreshOnce
<1>1. IInv => FreshOnce
  BY DEF IInv
<1>2. QED
  BY <1>1, InvariantAlways, PTL

\* A replay never hands out the response to another body, nor one without work.
THEOREM ReplaysAreFaithful == Spec => []ReplayIsFaithful
<1>1. IInv => ReplayIsFaithful
  BY DEF IInv
<1>2. QED
  BY <1>1, InvariantAlways, PTL

-----------------------------------------------------------------------------
(* Deliveries.  Whatever job of a queue is active was taken, passed over, or  *)
(* is still in the batch of its worker; and the row that a worker has under   *)
(* way is the last of its own, whatever another worker adds meanwhile.        *)

Senders == {"webhooks", "mails", "replay"}

SenderSteps == {"idle", "resolve", "insert", "post", "taken", "refused"}

JobState == [state : {"none", "waiting", "active", "completed", "failed"},
             retries : 0 .. RetryLimit]

Row == [status : {"pending", "success", "failed"}, by : {"webhooks", "replay"},
        told : BOOLEAN]

\* What worker w may hold.
Held(w) == IF w = "mails" THEN Mail ELSE Event

\* Row i is the last that w has made of these.
LastBy(list, w, i) ==
    /\ i \in DOMAIN list /\ list[i].by = w
    /\ \A k \in DOMAIN list : list[k].by = w => k <= i

\* Worker w has the message of its first job under way, and its row.
RowOK(list, w, step) ==
    \E i \in DOMAIN list : LastBy(list, w, i) /\ (step = "taken" => list[i].told)

\* Job j is left to do for the worker that holds these.
Left(held, j) == \E i \in 1 .. Len(held) : held[i] = j

WorkerOK(w, step, held, jobs, table, took, passed) ==
    /\ held \in Seq(Held(w)) /\ Len(held) <= BatchSize
    /\ step = "idle" <=> held = <<>>
    /\ w = "replay" => Len(held) <= 1 /\ step # "resolve"
    /\ w = "mails" => step \notin {"resolve", "insert"}
    /\ step = "taken" => Head(held) \in took
    /\ w # "mails" /\ step \in {"post", "taken", "refused"}
           => RowOK(table[Head(held)], w, step)
    /\ w # "replay" => \A j \in Held(w) : jobs[j].state = "active"
                           => j \in took \cup passed \/ Left(held, j)

DeliveryTypes(jobs, held, step, table, took, sent, passed) ==
    /\ jobs \in [Deliveries!Job -> JobState]
    /\ held \in [Senders -> Seq(Deliveries!Job)]
    /\ step \in [Senders -> SenderSteps]
    /\ table \in [Event -> Seq(Row)]
    /\ took \subseteq sent /\ sent \subseteq Deliveries!Job /\ passed \subseteq Event

JobsTold(jobs, took, passed) ==
    \A j \in Deliveries!Job : jobs[j].state = "completed" => j \in took \cup passed

RowsTold(table) ==
    \A e \in Event : \A i \in DOMAIN table[e] :
        table[e][i].status = "success" => table[e][i].told

DeliveriesInv ==
    /\ DeliveryTypes(dJob, dBatch, dAt, dRows, dAccepted, dPosted, dSkipped)
    /\ \A w \in Senders : WorkerOK(w, dAt[w], dBatch[w], dJob, dRows, dAccepted, dSkipped)
    /\ JobsTold(dJob, dAccepted, dSkipped) /\ RowsTold(dRows)

\* The last row of w stays the last, and told if it was.
LastRowsStay(w, table, table2) ==
    \A e \in Event : \A i \in DOMAIN table[e] :
        LastBy(table[e], w, i) => /\ LastBy(table2[e], w, i)
                                  /\ table[e][i].told => table2[e][i].told

\* What the others may see of a step: no job of theirs becomes active, nothing
\* that was taken is forgotten, and their rows stay the last.
GoesOn(w, jobs, table, took, passed, jobs2, table2, took2, passed2) ==
    /\ w # "replay" => \A j \in Held(w) : jobs2[j].state = "active" => jobs[j].state = "active"
    /\ took \subseteq took2 /\ passed \subseteq passed2
    /\ LastRowsStay(w, table, table2)

LEMMA WorkerStays ==
  ASSUME NEW w \in Senders, NEW step, NEW held, NEW jobs, NEW table, NEW took, NEW passed,
         NEW jobs2, NEW table2, NEW took2, NEW passed2,
         WorkerOK(w, step, held, jobs, table, took, passed),
         GoesOn(w, jobs, table, took, passed, jobs2, table2, took2, passed2)
  PROVE  WorkerOK(w, step, held, jobs2, table2, took2, passed2)
<1>1. ASSUME w # "mails", step \in {"post", "taken", "refused"}
      PROVE  RowOK(table2[Head(held)], w, step)
  <2>1. held \in Seq(Event) /\ held # <<>>
    BY <1>1 DEF WorkerOK, Held
  <2>2. Head(held) \in Event
    BY <2>1, HeadTailProperties
  <2>3. PICK i \in DOMAIN table[Head(held)] :
           LastBy(table[Head(held)], w, i) /\ (step = "taken" => table[Head(held)][i].told)
    BY <1>1 DEF WorkerOK, RowOK
  <2>4. LastBy(table2[Head(held)], w, i) /\ (step = "taken" => table2[Head(held)][i].told)
    BY <2>2, <2>3 DEF GoesOn, LastRowsStay
  <2> QED  BY <2>4 DEF RowOK, LastBy
<1>2. ASSUME w # "replay", NEW j \in Held(w), jobs2[j].state = "active"
      PROVE  j \in took2 \cup passed2 \/ Left(held, j)
  BY <1>2 DEF WorkerOK, GoesOn
<1>3. step = "taken" => Head(held) \in took2
  BY DEF WorkerOK, GoesOn
<1> QED  BY <1>1, <1>2, <1>3 DEF WorkerOK

\* One worker moves.
LEMMA DeliveryOwn ==
  ASSUME DeliveriesInv, NEW w \in Senders, NEW step, NEW held,
         dAt' = [dAt EXCEPT ![w] = step], dBatch' = [dBatch EXCEPT ![w] = held],
         DeliveryTypes(dJob', dBatch', dAt', dRows', dAccepted', dPosted', dSkipped'),
         WorkerOK(w, step, held, dJob', dRows', dAccepted', dSkipped'),
         \A v \in Senders \ {w} : GoesOn(v, dJob, dRows, dAccepted, dSkipped,
                                         dJob', dRows', dAccepted', dSkipped'),
         JobsTold(dJob', dAccepted', dSkipped'), RowsTold(dRows')
  PROVE  DeliveriesInv'
<1>1. ASSUME NEW v \in Senders
      PROVE  WorkerOK(v, dAt'[v], dBatch'[v], dJob', dRows', dAccepted', dSkipped')
  <2>1. CASE v = w
    <3>1. dAt'[w] = step /\ dBatch'[w] = held
      BY DEF DeliveriesInv, DeliveryTypes
    <3> QED  BY <2>1, <3>1
  <2>2. CASE v # w
    <3>1. dAt'[v] = dAt[v] /\ dBatch'[v] = dBatch[v]
      BY <2>2 DEF DeliveriesInv, DeliveryTypes
    <3>2. WorkerOK(v, dAt[v], dBatch[v], dJob, dRows, dAccepted, dSkipped)
      BY DEF DeliveriesInv
    <3>3. GoesOn(v, dJob, dRows, dAccepted, dSkipped, dJob', dRows', dAccepted', dSkipped')
      BY <2>2
    <3>4. WorkerOK(v, dAt[v], dBatch[v], dJob', dRows', dAccepted', dSkipped')
      BY <3>2, <3>3, WorkerStays
    <3> QED  BY <3>1, <3>4
  <2> QED  BY <2>1, <2>2
<1> QED  BY <1>1 DEF DeliveriesInv

\* Nothing that the others rely on changes.
LEMMA NothingChanged ==
  ASSUME NEW w, NEW jobs, NEW table, NEW took, NEW passed
  PROVE  GoesOn(w, jobs, table, took, passed, jobs, table, took, passed)
BY DEF GoesOn, LastRowsStay

-----------------------------------------------------------------------------
(* Rows *)

\* A row of one worker leaves the last row of another where it is.
LEMMA AppendRow ==
  ASSUME NEW list \in Seq(Row), NEW row \in Row
  PROVE  /\ Append(list, row) \in Seq(Row)
         /\ LastBy(Append(list, row), row.by, Len(list) + 1)
         /\ \A w, i : LastBy(list, w, i) /\ w # row.by
               => LastBy(Append(list, row), w, i) /\ Append(list, row)[i] = list[i]
         /\ \A i \in DOMAIN Append(list, row) :
               Append(list, row)[i] = row
               \/ (i \in DOMAIN list /\ Append(list, row)[i] = list[i])
<1> DEFINE long == Append(list, row)
<1>1. /\ long \in Seq(Row) /\ Len(list) \in Nat /\ Len(long) = Len(list) + 1
      /\ long[Len(list) + 1] = row
      /\ \A i \in 1 .. Len(list) : long[i] = list[i]
      /\ DOMAIN list = 1 .. Len(list) /\ DOMAIN long = 1 .. Len(long)
  BY AppendProperties, LenProperties
<1> DEFINE n == Len(list)
<1> HIDE DEF n, long
<1>2. LastBy(long, row.by, n + 1)
  BY <1>1 DEF LastBy, n
<1>3. \A w, i : LastBy(list, w, i) /\ w # row.by => LastBy(long, w, i) /\ long[i] = list[i]
  <2> SUFFICES ASSUME NEW w, NEW i, LastBy(list, w, i), w # row.by
               PROVE  LastBy(long, w, i) /\ long[i] = list[i]
    OBVIOUS
  <2>1. i \in 1 .. n /\ list[i].by = w /\ long[i] = list[i]
    BY <1>1 DEF LastBy, n
  <2>2. ASSUME NEW k \in DOMAIN long, long[k].by = w PROVE k <= i
    <3>1. k # n + 1
      BY <1>1, <2>2 DEF n
    <3>2. k \in 1 .. n
      BY <1>1, <2>2, <3>1 DEF n
    <3> QED  BY <1>1, <2>2, <3>2 DEF LastBy, n
  <2> QED  BY <1>1, <2>1, <2>2 DEF LastBy, n
<1>4. \A i \in DOMAIN long : long[i] = row \/ (i \in DOMAIN list /\ long[i] = list[i])
  BY <1>1 DEF n
<1> QED  BY <1>1, <1>2, <1>3, <1>4 DEF long, n

\* A change of a row that keeps its maker, and what was told, moves no last row.
LEMMA ChangeRow ==
  ASSUME NEW list \in Seq(Row), NEW m \in DOMAIN list, NEW row \in Row,
         row.by = list[m].by, list[m].told => row.told
  PROVE  /\ [list EXCEPT ![m] = row] \in Seq(Row)
         /\ \A w, i : LastBy(list, w, i)
               => /\ LastBy([list EXCEPT ![m] = row], w, i)
                  /\ list[i].told => [list EXCEPT ![m] = row][i].told
<1>1. DOMAIN list = 1 .. Len(list)
  BY LenProperties
<1>2. [list EXCEPT ![m] = row] \in Seq(Row)
  BY <1>1, ExceptSeq
<1> QED  BY <1>2 DEF LastBy

\* The row that a worker settles is the last of its own.
LEMMA MineIsLast ==
  ASSUME DeliveriesInv, NEW w \in Senders, dAt[w] \in {"post", "taken", "refused"},
         w # "mails"
  PROVE  /\ Head(dBatch[w]) \in Event
         /\ dRows[Head(dBatch[w])] \in Seq(Row)
         /\ Deliveries!Mine(w) \in DOMAIN dRows[Head(dBatch[w])]
         /\ LastBy(dRows[Head(dBatch[w])], w, Deliveries!Mine(w))
         /\ dAt[w] = "taken" => dRows[Head(dBatch[w])][Deliveries!Mine(w)].told
<1> DEFINE list == dRows[Head(dBatch[w])]
<1>1. WorkerOK(w, dAt[w], dBatch[w], dJob, dRows, dAccepted, dSkipped)
  BY DEF DeliveriesInv
<1>2. dBatch[w] \in Seq(Event) /\ dBatch[w] # <<>>
  BY <1>1 DEF WorkerOK, Held
<1>3. Head(dBatch[w]) \in Event
  BY <1>2, HeadTailProperties
<1>4. list \in Seq(Row)
  BY <1>3 DEF DeliveriesInv, DeliveryTypes
<1>5. PICK i \in DOMAIN list : LastBy(list, w, i) /\ (dAt[w] = "taken" => list[i].told)
  BY <1>1 DEF WorkerOK, RowOK
<1>6. DOMAIN list \subseteq Nat
  BY <1>4, LenProperties
<1> HIDE DEF list
<1>7. \A k \in DOMAIN list :
          list[k].by = w /\ (\A q \in DOMAIN list : list[q].by = w => q <= k) => k = i
  BY <1>5, <1>6 DEF LastBy
<1>8. i = CHOOSE k \in DOMAIN list :
             list[k].by = w /\ \A q \in DOMAIN list : list[q].by = w => q <= k
  BY <1>5, <1>7 DEF LastBy
<1>9. Deliveries!Mine(w) = i
  BY <1>8 DEF Deliveries!Mine, Deliveries!Current, list
<1> QED  BY <1>3, <1>4, <1>5, <1>9 DEF list
-----------------------------------------------------------------------------
(* The queue *)

LEMMA QueueHeld ==
  ASSUME NEW w \in Senders
  PROVE  /\ w # "replay" => Deliveries!Queue[w] = Held(w)
         /\ Held(w) \subseteq Deliveries!Job
BY DEF Senders, Held, Deliveries!Queue, Deliveries!Job

LEMMA TailLeft ==
  ASSUME NEW S, NEW held \in Seq(S), held # <<>>
  PROVE  /\ Head(held) \in S /\ Tail(held) \in Seq(S) /\ Len(held) \in Nat \ {0}
         /\ Len(Tail(held)) = Len(held) - 1
         /\ Len(held) > 1 => Tail(held) # <<>>
         /\ \A j : Left(held, j) => j = Head(held) \/ Left(Tail(held), j)
         /\ Len(held) <= 1 => \A j : Left(held, j) => j = Head(held)
<1>1. /\ Head(held) \in S /\ Tail(held) \in Seq(S) /\ Len(Tail(held)) = Len(held) - 1
      /\ \A i \in 1 .. Len(Tail(held)) : Tail(held)[i] = held[i + 1]
      /\ Len(held) \in Nat \ {0} /\ Head(held) = held[1]
  BY HeadTailProperties, EmptySeq, LenProperties
<1> DEFINE rest == Tail(held)
           n == Len(held)
           m == Len(rest)
<1>2. n \in Nat \ {0} /\ m = n - 1 /\ \A i \in 1 .. m : rest[i] = held[i + 1]
  BY <1>1
<1>3. n > 1 => rest # <<>>
  <2> SUFFICES ASSUME rest = <<>> PROVE n <= 1
    BY <1>2
  <2>1. m = 0
    BY EmptySeq
  <2> HIDE DEF m, n
  <2> QED  BY <1>2, <2>1
<1>4. ASSUME NEW j, Left(held, j)
      PROVE  j = held[1] \/ Left(rest, j)
  <2>1. PICK i \in 1 .. n : held[i] = j
    BY <1>4 DEF Left
  <2>2. ASSUME i # 1 PROVE \E k \in 1 .. m : rest[k] = j
    <3> HIDE DEF rest, n, m
    <3>1. i - 1 \in 1 .. m /\ (i - 1) + 1 = i
      BY <1>2, <2>1, <2>2
    <3>2. rest[i - 1] = held[(i - 1) + 1]
      BY <1>2, <3>1
    <3> QED  BY <2>1, <3>1, <3>2
  <2> QED  BY <2>1, <2>2 DEF Left
<1>5. ASSUME n <= 1, NEW j, Left(held, j)
      PROVE  j = held[1]
  <2>1. PICK i \in 1 .. n : held[i] = j
    BY <1>5 DEF Left
  <2>2. i = 1
    <3> HIDE DEF n
    <3> QED  BY <1>2, <1>5, <2>1
  <2> QED  BY <2>1, <2>2
<1> QED  BY <1>1, <1>3, <1>4, <1>5

\* Worker w moves, and no job becomes active.
Moved(w) ==
    \E step \in SenderSteps : \E held \in Seq(Held(w)) :
        /\ dAt' = [dAt EXCEPT ![w] = step] /\ dBatch' = [dBatch EXCEPT ![w] = held]
        /\ WorkerOK(w, step, held, dJob', dRows', dAccepted', dSkipped')
        /\ dJob' \in [Deliveries!Job -> JobState]
        /\ \A j \in Deliveries!Job :
              dJob'[j].state = "active" => dJob[j].state = "active"
        /\ JobsTold(dJob', dAccepted', dSkipped')

LEMMA MovedOK ==
  ASSUME DeliveriesInv, NEW w \in Senders, Moved(w),
         dRows' \in [Event -> Seq(Row)], RowsTold(dRows'),
         \A v \in Senders \ {w} : LastRowsStay(v, dRows, dRows'),
         dAccepted \subseteq dAccepted', dSkipped \subseteq dSkipped',
         dAccepted' \subseteq dPosted', dPosted' \subseteq Deliveries!Job,
         dSkipped' \subseteq Event
  PROVE  DeliveriesInv'
<1>1. PICK step \in SenderSteps : \E held \in Seq(Held(w)) :
        /\ dAt' = [dAt EXCEPT ![w] = step] /\ dBatch' = [dBatch EXCEPT ![w] = held]
        /\ WorkerOK(w, step, held, dJob', dRows', dAccepted', dSkipped')
        /\ dJob' \in [Deliveries!Job -> JobState]
        /\ \A j \in Deliveries!Job :
              dJob'[j].state = "active" => dJob[j].state = "active"
        /\ JobsTold(dJob', dAccepted', dSkipped')
  BY DEF Moved
<1>2. PICK held \in Seq(Held(w)) :
        /\ dAt' = [dAt EXCEPT ![w] = step] /\ dBatch' = [dBatch EXCEPT ![w] = held]
        /\ WorkerOK(w, step, held, dJob', dRows', dAccepted', dSkipped')
        /\ dJob' \in [Deliveries!Job -> JobState]
        /\ \A j \in Deliveries!Job :
              dJob'[j].state = "active" => dJob[j].state = "active"
        /\ JobsTold(dJob', dAccepted', dSkipped')
  BY <1>1
<1>3. held \in Seq(Deliveries!Job)
  BY QueueHeld, SeqMonotonic
<1>4. DeliveryTypes(dJob', dBatch', dAt', dRows', dAccepted', dPosted', dSkipped')
  BY <1>2, <1>3 DEF DeliveriesInv, DeliveryTypes
<1>5. \A v \in Senders \ {w} : GoesOn(v, dJob, dRows, dAccepted, dSkipped,
                                      dJob', dRows', dAccepted', dSkipped')
  BY <1>2, QueueHeld DEF GoesOn
<1> QED  BY <1>2, <1>4, <1>5, DeliveryOwn

\* The rows stay as they are.
LEMMA SameRows ==
  ASSUME DeliveriesInv, UNCHANGED dRows
  PROVE  /\ dRows' \in [Event -> Seq(Row)] /\ RowsTold(dRows')
         /\ \A w : LastRowsStay(w, dRows, dRows')
BY DEF DeliveriesInv, DeliveryTypes, RowsTold, LastRowsStay

\* The handler goes on to the next job of its batch, this one being done.
LEMMA NextJobOK ==
  ASSUME DeliveriesInv, NEW w \in Senders, NEW from, dAt[w] # "idle",
         Deliveries!NextJob(w, from),
         dAccepted \subseteq dAccepted', dSkipped \subseteq dSkipped',
         Head(dBatch[w]) \in dAccepted' \cup dSkipped'
  PROVE  Moved(w)
<1> DEFINE held == dBatch[w]
<1>1. WorkerOK(w, dAt[w], held, dJob, dRows, dAccepted, dSkipped)
  BY DEF DeliveriesInv
<1>2. held \in Seq(Held(w)) /\ held # <<>>
  BY <1>1 DEF WorkerOK
<1>3. JobsTold(dJob, dAccepted, dSkipped) /\ dJob \in [Deliveries!Job -> JobState]
  BY DEF DeliveriesInv, DeliveryTypes
<1>4. /\ Tail(held) \in Seq(Held(w)) /\ Len(held) \in Nat \ {0}
      /\ Len(Tail(held)) = Len(held) - 1 /\ Len(held) > 1 => Tail(held) # <<>>
      /\ \A j : Left(held, j) => j = Head(held) \/ Left(Tail(held), j)
      /\ Len(held) <= 1 => \A j : Left(held, j) => j = Head(held)
  BY <1>2, TailLeft
<1>5. ASSUME NEW j \in Held(w), w # "replay", dJob[j].state = "active", ~Left(Tail(held), j)
      PROVE  Len(held) > 1 => j \in dAccepted' \cup dSkipped'
  BY <1>1, <1>4, <1>5 DEF WorkerOK
<1>6. CASE Len(held) > 1
  <2> DEFINE step == IF w = "mails" THEN "post" ELSE "resolve"
  <2>1. /\ dAt' = [dAt EXCEPT ![w] = step] /\ dBatch' = [dBatch EXCEPT ![w] = Tail(held)]
        /\ UNCHANGED dJob
    BY <1>6 DEF Deliveries!NextJob
  <2>2. w # "replay"
    <3> DEFINE n == Len(held)
    <3>1. n > 1 /\ n \in Nat /\ (w = "replay" => n <= 1)
      BY <1>1, <1>4, <1>6 DEF WorkerOK
    <3> HIDE DEF n
    <3> QED  BY <3>1
  <2>3. Len(Tail(held)) <= BatchSize
    <3> DEFINE n == Len(held)
               m == Len(Tail(held))
    <3>1. n \in Nat \ {0} /\ n <= BatchSize /\ m = n - 1 /\ BatchSize \in Nat
      BY <1>1, <1>4, RequestsAssumption DEF WorkerOK
    <3> HIDE DEF n, m
    <3>2. m <= BatchSize
      BY <3>1
    <3> QED  BY <3>2 DEF m
  <2>4. WorkerOK(w, step, Tail(held), dJob', dRows', dAccepted', dSkipped')
    BY <1>4, <1>5, <1>6, <2>1, <2>2, <2>3 DEF WorkerOK
  <2>5. JobsTold(dJob', dAccepted', dSkipped')
    BY <1>3, <2>1 DEF JobsTold
  <2>6. step \in SenderSteps
    BY DEF SenderSteps
  <2> QED  BY <1>3, <1>4, <2>1, <2>4, <2>5, <2>6 DEF Moved
<1>7. CASE ~(Len(held) > 1)
  <2>1. /\ dAt' = [dAt EXCEPT ![w] = "idle"] /\ dBatch' = [dBatch EXCEPT ![w] = <<>>]
        /\ IF w = "replay" THEN UNCHANGED dJob ELSE Deliveries!Complete(w)
    BY <1>7 DEF Deliveries!NextJob
  <2>2. \A j : Left(held, j) => j = Head(held)
    <3> DEFINE n == Len(held)
    <3>1. n \in Nat /\ ~(n > 1)
      BY <1>4, <1>7
    <3> HIDE DEF n
    <3>2. n <= 1
      BY <3>1
    <3> QED  BY <1>4, <3>2 DEF n
  <2>3. /\ dJob' \in [Deliveries!Job -> JobState]
        /\ \A j \in Deliveries!Job : dJob'[j].state = "active" => dJob[j].state = "active"
        /\ \A j \in Held(w) : w # "replay" => dJob'[j].state # "active"
        /\ \A j \in Deliveries!Job : dJob'[j].state = "completed" =>
              \/ dJob[j].state = "completed"
              \/ dJob[j].state = "active" /\ j \in Held(w) /\ w # "replay"
    <3>1. CASE w = "replay"
      BY <1>3, <2>1, <3>1
    <3>2. CASE w # "replay"
      <4>1. dJob' = [j \in Deliveries!Job |->
                        IF j \in Held(w) /\ dJob[j].state = "active"
                        THEN [dJob[j] EXCEPT !.state = "completed"] ELSE dJob[j]]
        BY <2>1, <3>2, QueueHeld DEF Deliveries!Complete, Deliveries!Active
      <4>2. ASSUME NEW j \in Deliveries!Job
            PROVE  /\ dJob'[j] \in JobState
                   /\ dJob'[j].state = "active" =>
                         dJob[j].state = "active" /\ j \notin Held(w)
                   /\ dJob'[j].state = "completed" =>
                         \/ dJob[j].state = "completed"
                         \/ dJob[j].state = "active" /\ j \in Held(w)
        <5>1. dJob[j] \in JobState
          BY <1>3
        <5> QED  BY <4>1, <5>1 DEF JobState
      <4>3. dJob' \in [Deliveries!Job -> JobState]
        BY <4>1, <4>2
      <4> QED  BY <3>2, <4>2, <4>3, QueueHeld
    <3> QED  BY <3>1, <3>2
  <2>4. JobsTold(dJob', dAccepted', dSkipped')
    BY <1>1, <1>3, <2>2, <2>3 DEF JobsTold, WorkerOK
  <2>5. Len(<<>>) = 0 /\ <<>> \in Seq(Held(w)) /\ 0 <= BatchSize /\ 0 <= 1
    BY EmptySeq, RequestsAssumption
  <2>6. WorkerOK(w, "idle", <<>>, dJob', dRows', dAccepted', dSkipped')
    BY <2>3, <2>5 DEF WorkerOK
  <2>7. "idle" \in SenderSteps
    BY DEF SenderSteps
  <2> QED  BY <2>1, <2>3, <2>4, <2>5, <2>6, <2>7 DEF Moved
<1> QED  BY <1>6, <1>7

\* What is thrown, or dies, gives its jobs back.
LEMMA FailOK ==
  ASSUME DeliveriesInv, NEW jobs, Deliveries!Fail(jobs),
         dAccepted \subseteq dAccepted', dSkipped \subseteq dSkipped'
  PROVE  /\ dJob' \in [Deliveries!Job -> JobState]
         /\ \A j \in Deliveries!Job :
               dJob'[j].state = "active" => dJob[j].state = "active" /\ j \notin jobs
         /\ JobsTold(dJob', dAccepted', dSkipped')
<1>1. dJob \in [Deliveries!Job -> JobState] /\ JobsTold(dJob, dAccepted, dSkipped)
  BY DEF DeliveriesInv, DeliveryTypes
<1>2. ASSUME NEW j \in Deliveries!Job
      PROVE  /\ dJob'[j] \in JobState
             /\ dJob'[j].state = "active" => dJob[j].state = "active" /\ j \notin jobs
             /\ dJob'[j].state = "completed" => dJob[j].state = "completed"
  <2>1. dJob[j] \in JobState /\ RetryLimit \in Nat
    BY <1>1, RequestsAssumption
  <2>2. dJob'[j] = IF j \notin jobs THEN dJob[j]
                   ELSE IF dJob[j].retries < RetryLimit
                        THEN [state |-> "waiting", retries |-> dJob[j].retries + 1]
                        ELSE [dJob[j] EXCEPT !.state = "failed"]
    BY DEF Deliveries!Fail
  <2> QED  BY <2>1, <2>2 DEF JobState
<1>3. dJob' = [j \in Deliveries!Job |-> dJob'[j]]
  BY DEF Deliveries!Fail
<1>4. dJob' \in [Deliveries!Job -> JobState]
  BY <1>2, <1>3
<1> QED  BY <1>1, <1>2, <1>4 DEF JobsTold

LEMMA ThrowOK ==
  ASSUME DeliveriesInv, NEW w \in Senders, NEW from, Deliveries!Throw(w, from),
         dAccepted \subseteq dAccepted', dSkipped \subseteq dSkipped'
  PROVE  Moved(w)
<1>1. /\ dAt' = [dAt EXCEPT ![w] = "idle"] /\ dBatch' = [dBatch EXCEPT ![w] = <<>>]
      /\ IF w = "replay" THEN UNCHANGED dJob
         ELSE Deliveries!Fail(Deliveries!Active(w))
  BY DEF Deliveries!Throw, Deliveries!Step
<1>2. /\ dJob' \in [Deliveries!Job -> JobState]
      /\ \A j \in Deliveries!Job : dJob'[j].state = "active" =>
            dJob[j].state = "active" /\ (w # "replay" => j \notin Held(w))
      /\ JobsTold(dJob', dAccepted', dSkipped')
  <2>1. CASE w = "replay"
    BY <1>1, <2>1 DEF DeliveriesInv, DeliveryTypes, JobsTold
  <2>2. CASE w # "replay"
    BY <1>1, <2>2, FailOK, QueueHeld DEF Deliveries!Active
  <2> QED  BY <2>1, <2>2
<1>3. Len(<<>>) = 0 /\ <<>> \in Seq(Held(w)) /\ 0 <= BatchSize /\ 0 <= 1
  BY EmptySeq, RequestsAssumption
<1>4. WorkerOK(w, "idle", <<>>, dJob', dRows', dAccepted', dSkipped')
  BY <1>2, <1>3, QueueHeld DEF WorkerOK
<1>5. "idle" \in SenderSteps
  BY DEF SenderSteps
<1> QED  BY <1>1, <1>2, <1>3, <1>4, <1>5 DEF Moved
-----------------------------------------------------------------------------
(* Its steps *)

\* What a step of a worker starts from.
LEMMA DeliveryFacts ==
  ASSUME DeliveriesInv, NEW w \in Senders
  PROVE  /\ WorkerOK(w, dAt[w], dBatch[w], dJob, dRows, dAccepted, dSkipped)
         /\ dAt \in [Senders -> SenderSteps] /\ dBatch[w] \in Seq(Held(w))
         /\ dJob \in [Deliveries!Job -> JobState] /\ dRows \in [Event -> Seq(Row)]
         /\ dAccepted \subseteq dPosted /\ dPosted \subseteq Deliveries!Job
         /\ dSkipped \subseteq Event
         /\ JobsTold(dJob, dAccepted, dSkipped) /\ RowsTold(dRows)
         /\ dAt[w] # "idle" => /\ dBatch[w] # <<>> /\ Head(dBatch[w]) \in Held(w)
                              /\ Head(dBatch[w]) \in Deliveries!Job
<1>1. WorkerOK(w, dAt[w], dBatch[w], dJob, dRows, dAccepted, dSkipped)
  BY DEF DeliveriesInv
<1>2. ASSUME dAt[w] # "idle"
      PROVE  /\ dBatch[w] # <<>> /\ Head(dBatch[w]) \in Held(w)
             /\ Head(dBatch[w]) \in Deliveries!Job
  BY <1>1, <1>2, HeadTailProperties, QueueHeld DEF WorkerOK
<1> QED  BY <1>1, <1>2 DEF DeliveriesInv, DeliveryTypes, WorkerOK

\* The worker goes on with the same batch and only its step, and perhaps rows.
LEMMA SameBatch ==
  ASSUME DeliveriesInv, NEW w \in Senders, NEW step \in SenderSteps,
         dAt' = [dAt EXCEPT ![w] = step], UNCHANGED <<dJob, dBatch>>,
         dAt[w] # "idle", step \notin {"idle", "resolve"}, w # "mails" \/ step # "insert",
         dAccepted \subseteq dAccepted', dSkipped \subseteq dSkipped',
         step = "taken" => Head(dBatch[w]) \in dAccepted',
         w # "mails" /\ step \in {"post", "taken", "refused"}
             => RowOK(dRows'[Head(dBatch[w])], w, step)
  PROVE  Moved(w)
<1> DEFINE held == dBatch[w]
<1>1. WorkerOK(w, dAt[w], held, dJob, dRows, dAccepted, dSkipped) /\ held \in Seq(Held(w))
      /\ dJob \in [Deliveries!Job -> JobState] /\ JobsTold(dJob, dAccepted, dSkipped)
  BY DeliveryFacts
<1>2. dBatch' = [dBatch EXCEPT ![w] = held]
  BY DEF DeliveriesInv, DeliveryTypes
<1>3. WorkerOK(w, step, held, dJob', dRows', dAccepted', dSkipped')
  BY <1>1 DEF WorkerOK
<1>4. JobsTold(dJob', dAccepted', dSkipped')
  BY <1>1 DEF JobsTold
<1> QED  BY <1>1, <1>2, <1>3, <1>4 DEF Moved

LEMMA DeliveryResolve ==
  ASSUME DeliveriesInv, NEW w \in Senders, Deliveries!Resolve(w)
  PROVE  DeliveriesInv'
<1>1. UNCHANGED <<dRows, dAccepted, dPosted>> /\ dAt[w] = "resolve"
  BY DEF Deliveries!Resolve, Deliveries!NextJob, Deliveries!Step
<1>2. w = "webhooks" /\ Head(dBatch[w]) \in Event
  BY <1>1, DeliveryFacts DEF WorkerOK, Senders, Held
<1>3. /\ dAccepted \subseteq dPosted /\ dPosted \subseteq Deliveries!Job
      /\ dSkipped \subseteq Event
  BY DeliveryFacts
<1>4. CASE dAddress
  <2>1. dAt' = [dAt EXCEPT ![w] = "insert"] /\ UNCHANGED <<dJob, dBatch, dSkipped>>
    BY <1>4 DEF Deliveries!Resolve, Deliveries!Step
  <2>2. "insert" \in SenderSteps
    BY DEF SenderSteps
  <2>3. Moved(w)
    BY <1>1, <1>2, <2>1, <2>2, SameBatch
  <2> QED  BY <1>1, <1>3, <2>1, <2>3, SameRows, MovedOK
<1>5. CASE ~dAddress
  <2>1. /\ Deliveries!NextJob(w, "resolve")
        /\ dSkipped' = dSkipped \cup {Head(dBatch[w])}
    BY <1>5 DEF Deliveries!Resolve, Deliveries!Current
  <2>2. Moved(w)
    BY <1>1, <2>1, NextJobOK
  <2>3. dSkipped' \subseteq Event
    BY <1>2, <1>3, <2>1
  <2> QED  BY <1>1, <1>3, <2>1, <2>2, <2>3, SameRows, MovedOK
<1> QED  BY <1>4, <1>5

LEMMA DeliveryInsertRow ==
  ASSUME DeliveriesInv, NEW w \in Senders, Deliveries!InsertRow(w)
  PROVE  DeliveriesInv'
<1> DEFINE e == Head(dBatch[w])
           row == [status |-> "pending", by |-> w, told |-> FALSE]
<1>1. /\ dAt[w] = "insert" /\ dAt' = [dAt EXCEPT ![w] = "post"]
      /\ UNCHANGED <<dJob, dBatch, dAccepted, dPosted, dSkipped>>
      /\ dRows' = [dRows EXCEPT ![e] = Append(@, row)]
  BY DEF Deliveries!InsertRow, Deliveries!Step, Deliveries!Current, Deliveries!histories
<1>2. w \in {"webhooks", "replay"} /\ e \in Event /\ dRows \in [Event -> Seq(Row)]
      /\ RowsTold(dRows)
  BY <1>1, DeliveryFacts DEF WorkerOK, Senders, Held
<1>3. row \in Row /\ row.by = w /\ row.status = "pending"
  BY <1>2 DEF Row
<1> DEFINE long == Append(dRows[e], row)
<1> HIDE DEF row
<1>4. /\ long \in Seq(Row) /\ LastBy(long, w, Len(dRows[e]) + 1)
      /\ \A v, i : LastBy(dRows[e], v, i) /\ v # w => LastBy(long, v, i) /\ long[i] = dRows[e][i]
      /\ \A i \in DOMAIN long :
            long[i] = row \/ (i \in DOMAIN dRows[e] /\ long[i] = dRows[e][i])
  <2>1. dRows[e] \in Seq(Row)
    BY <1>2
  <2>2. /\ long \in Seq(Row) /\ LastBy(long, row.by, Len(dRows[e]) + 1)
        /\ \A v, i : LastBy(dRows[e], v, i) /\ v # row.by
              => LastBy(long, v, i) /\ long[i] = dRows[e][i]
        /\ \A i \in DOMAIN long :
              long[i] = row \/ (i \in DOMAIN dRows[e] /\ long[i] = dRows[e][i])
    BY <1>3, <2>1, AppendRow
  <2> QED  BY <1>3, <2>2
<1> HIDE DEF long
<1>5. dRows' = [dRows EXCEPT ![e] = long] /\ dRows'[e] = long
      /\ dRows' \in [Event -> Seq(Row)]
  BY <1>1, <1>2, <1>4 DEF long
<1> HIDE DEF e
<1>6. RowsTold(dRows')
  BY <1>2, <1>3, <1>4, <1>5 DEF RowsTold
<1>7. \A v \in Senders \ {w} : LastRowsStay(v, dRows, dRows')
  BY <1>2, <1>4, <1>5 DEF LastRowsStay
<1>8. RowOK(long, w, "post") /\ "post" \in SenderSteps
  BY <1>4 DEF RowOK, LastBy, SenderSteps
<1>9. Moved(w)
  BY <1>1, <1>2, <1>5, <1>8, SameBatch DEF e
<1> QED  BY <1>1, <1>5, <1>6, <1>7, <1>9, MovedOK, DeliveryFacts

\* The row of w that is under way changes.
LEMMA MineChanges ==
  ASSUME DeliveriesInv, NEW w \in Senders, w # "mails",
         dAt[w] \in {"post", "taken", "refused"}, NEW row \in Row,
         row.by = dRows[Head(dBatch[w])][Deliveries!Mine(w)].by,
         dRows[Head(dBatch[w])][Deliveries!Mine(w)].told => row.told,
         row.status = "success" => row.told,
         dRows' = [dRows EXCEPT ![Head(dBatch[w])][Deliveries!Mine(w)] = row]
  PROVE  /\ dRows' \in [Event -> Seq(Row)] /\ RowsTold(dRows')
         /\ \A v : LastRowsStay(v, dRows, dRows')
         /\ LastBy(dRows'[Head(dBatch[w])], w, Deliveries!Mine(w))
         /\ dRows'[Head(dBatch[w])][Deliveries!Mine(w)] = row
<1> DEFINE e == Head(dBatch[w])
           m == Deliveries!Mine(w)
           list == [dRows[e] EXCEPT ![m] = row]
<1>1. /\ e \in Event /\ dRows[e] \in Seq(Row) /\ m \in DOMAIN dRows[e]
      /\ LastBy(dRows[e], w, m)
  BY MineIsLast
<1>2. dRows \in [Event -> Seq(Row)] /\ RowsTold(dRows)
  BY DeliveryFacts
<1> HIDE DEF e, m
<1>3. /\ list \in Seq(Row)
      /\ \A v, i : LastBy(dRows[e], v, i) =>
            LastBy(list, v, i) /\ (dRows[e][i].told => list[i].told)
  BY <1>1, ChangeRow DEF e, m
<1>4. list[m] = row /\ DOMAIN list = DOMAIN dRows[e]
      /\ \A i \in DOMAIN list : i # m => list[i] = dRows[e][i]
  BY <1>1
<1>5. dRows' = [dRows EXCEPT ![e] = list]
  BY <1>1, <1>2 DEF e, m
<1> HIDE DEF list
<1>6. dRows' \in [Event -> Seq(Row)] /\ dRows'[e] = list
  BY <1>1, <1>2, <1>3, <1>5
<1>7. RowsTold(dRows')
  BY <1>1, <1>2, <1>4, <1>5, <1>6 DEF RowsTold
<1>8. \A v : LastRowsStay(v, dRows, dRows')
  BY <1>1, <1>2, <1>3, <1>5, <1>6 DEF LastRowsStay
<1>9. LastBy(dRows'[e], w, m) /\ dRows'[e][m] = row
  BY <1>1, <1>3, <1>4, <1>6
<1> QED  BY <1>6, <1>7, <1>8, <1>9 DEF e, m
LEMMA DeliveryPost ==
  ASSUME DeliveriesInv, NEW w \in Senders, Deliveries!Post(w)
  PROVE  DeliveriesInv'
<1> DEFINE j == Head(dBatch[w])
           m == Deliveries!Mine(w)
<1>1. PICK takes \in BOOLEAN, answered \in BOOLEAN :
         /\ takes => j \notin Down
         /\ ~answered => w # "mails" /\ takes
         /\ ~answered => dFaults < MaxFaults
         /\ Deliveries!Step(w, "post", IF takes /\ answered THEN "taken" ELSE "refused")
         /\ dFaults' = IF answered THEN dFaults ELSE dFaults + 1
         /\ dPosted' = dPosted \cup {j}
         /\ dAccepted' = IF takes THEN dAccepted \cup {j} ELSE dAccepted
         /\ dRows' = IF takes /\ w # "mails"
                    THEN [dRows EXCEPT ![j][m].told = TRUE] ELSE dRows
         /\ UNCHANGED <<dJob, dBatch, dAddress, dSkipped>>
  BY DEF Deliveries!Post, Deliveries!Current
<1> DEFINE step == IF takes /\ answered THEN "taken" ELSE "refused"
<1>2. /\ dAt[w] = "post" /\ dAt' = [dAt EXCEPT ![w] = step]
      /\ step \in SenderSteps /\ step \in {"taken", "refused"}
      /\ step = "taken" => takes
  BY <1>1 DEF Deliveries!Step, SenderSteps
<1>3. /\ dAccepted \subseteq dAccepted' /\ dAccepted' \subseteq dPosted'
      /\ dPosted' \subseteq Deliveries!Job /\ dSkipped' \subseteq Event
      /\ dSkipped \subseteq dSkipped'
  BY <1>1, <1>2, DeliveryFacts
<1>t. takes => j \in dAccepted'
  BY <1>1
<1> HIDE DEF step
<1>4. CASE takes /\ w # "mails"
  <2> DEFINE row == [dRows[j][m] EXCEPT !.told = TRUE]
  <2>1. /\ j \in Event /\ dRows[j] \in Seq(Row) /\ m \in DOMAIN dRows[j]
    BY <1>2, <1>4, MineIsLast
  <2>2. dRows[j][m] \in Row
    BY <2>1, LenProperties, ElementOfSeq
  <2>3. row \in Row /\ row.by = dRows[j][m].by /\ row.told
    BY <2>2 DEF Row
  <2>4. dRows' = [dRows EXCEPT ![j][m] = row]
    BY <1>1, <1>4
  <2> HIDE DEF row
  <2>5. /\ dRows' \in [Event -> Seq(Row)] /\ RowsTold(dRows')
        /\ \A v : LastRowsStay(v, dRows, dRows')
        /\ LastBy(dRows'[j], w, m) /\ dRows'[j][m] = row
    BY <1>2, <1>4, <2>3, <2>4, MineChanges
  <2>6. RowOK(dRows'[j], w, step)
    BY <2>3, <2>5 DEF RowOK, LastBy
  <2>7. Moved(w)
    BY <1>1, <1>2, <1>3, <1>t, <2>6, SameBatch
  <2> HIDE DEF j, m
  <2> QED  BY <1>3, <2>5, <2>7, MovedOK
<1>5. CASE ~(takes /\ w # "mails")
  <2>1. UNCHANGED dRows /\ (w # "mails" => ~takes)
    BY <1>1, <1>5
  <2>2. ASSUME w # "mails" PROVE RowOK(dRows'[j], w, step)
    <3>1. LastBy(dRows[j], w, m) /\ m \in DOMAIN dRows[j]
      BY <1>2, <2>2, MineIsLast
    <3> QED  BY <1>2, <2>1, <2>2, <3>1 DEF RowOK
  <2>3. Moved(w)
    BY <1>1, <1>2, <1>3, <1>t, <2>1, <2>2, SameBatch
  <2> HIDE DEF j, m
  <2> QED  BY <1>3, <2>1, <2>3, SameRows, MovedOK
<1> QED  BY <1>4, <1>5

\* The row of w is settled, as a success only if the receiver was told.
LEMMA SettleOK ==
  ASSUME DeliveriesInv, NEW w \in Senders, w # "mails", dAt[w] \in {"taken", "refused"},
         NEW status \in {"success", "failed"}, status = "success" => dAt[w] = "taken",
         Deliveries!Settle(w, status)
  PROVE  /\ dRows' \in [Event -> Seq(Row)] /\ RowsTold(dRows')
         /\ \A v : LastRowsStay(v, dRows, dRows')
<1> DEFINE j == Head(dBatch[w])
           m == Deliveries!Mine(w)
           row == [dRows[j][m] EXCEPT !.status = status]
<1>1. /\ j \in Event /\ dRows[j] \in Seq(Row) /\ m \in DOMAIN dRows[j]
      /\ dAt[w] = "taken" => dRows[j][m].told
  BY MineIsLast
<1>2. dRows[j][m] \in Row
  BY <1>1, LenProperties, ElementOfSeq
<1>3. row \in Row /\ row.by = dRows[j][m].by /\ row.status = status
      /\ row.told = dRows[j][m].told
  BY <1>2 DEF Row
<1>4. dRows' = [dRows EXCEPT ![j][m] = row]
  BY DEF Deliveries!Settle, Deliveries!Current
<1> HIDE DEF row
<1> QED  BY <1>1, <1>3, <1>4, MineChanges

LEMMA DeliveryTaken ==
  ASSUME DeliveriesInv, NEW w \in Senders, Deliveries!RecordTaken(w)
  PROVE  DeliveriesInv'
<1>1. UNCHANGED <<dAccepted, dPosted, dSkipped>> /\ dAt[w] = "taken"
  BY DEF Deliveries!RecordTaken, Deliveries!histories, Deliveries!NextJob, Deliveries!Throw,
         Deliveries!Step
<1>2. Head(dBatch[w]) \in dAccepted
  BY <1>1, DeliveryFacts DEF WorkerOK
<1>3. /\ dRows' \in [Event -> Seq(Row)] /\ RowsTold(dRows')
      /\ \A v : LastRowsStay(v, dRows, dRows')
  <2>1. \/ UNCHANGED dRows
        \/ w # "mails" /\ Deliveries!Settle(w, "success")
        \/ w # "mails" /\ Deliveries!Settle(w, "failed")
    BY DEF Deliveries!RecordTaken
  <2> QED  BY <1>1, <2>1, SameRows, SettleOK
<1>4. Moved(w)
  <2>1. Deliveries!NextJob(w, "taken") \/ Deliveries!Throw(w, "taken")
    BY DEF Deliveries!RecordTaken
  <2> QED  BY <1>1, <1>2, <2>1, NextJobOK, ThrowOK
<1> QED  BY <1>1, <1>3, <1>4, MovedOK, DeliveryFacts

LEMMA DeliveryRefused ==
  ASSUME DeliveriesInv, NEW w \in Senders, Deliveries!RecordRefused(w)
  PROVE  DeliveriesInv'
<1>1. UNCHANGED <<dAccepted, dPosted, dSkipped>> /\ dAt[w] = "refused"
  BY DEF Deliveries!RecordRefused, Deliveries!histories, Deliveries!Throw, Deliveries!Step
<1>2. /\ dRows' \in [Event -> Seq(Row)] /\ RowsTold(dRows')
      /\ \A v : LastRowsStay(v, dRows, dRows')
  <2>1. UNCHANGED dRows \/ (w # "mails" /\ Deliveries!Settle(w, "failed"))
    BY DEF Deliveries!RecordRefused
  <2> QED  BY <1>1, <2>1, SameRows, SettleOK
<1>3. Moved(w)
  BY <1>1, ThrowOK DEF Deliveries!RecordRefused
<1> QED  BY <1>1, <1>2, <1>3, MovedOK, DeliveryFacts

LEMMA DeliveryReplay ==
  ASSUME DeliveriesInv, Deliveries!Replay
  PROVE  DeliveriesInv'
<1>1. PICK e \in Event :
         /\ dAt["replay"] = "idle" /\ dAt' = [dAt EXCEPT !["replay"] = "insert"]
         /\ dBatch' = [dBatch EXCEPT !["replay"] = <<e>>]
         /\ UNCHANGED <<dJob, dRows, dAccepted, dPosted, dSkipped>>
  BY DEF Deliveries!Replay, Deliveries!Step, Deliveries!histories
<1> DEFINE w == "replay"
<1>2. w \in Senders /\ "insert" \in SenderSteps /\ Held(w) = Event
  BY DEF Senders, SenderSteps, Held
<1>3. /\ dJob \in [Deliveries!Job -> JobState] /\ JobsTold(dJob, dAccepted, dSkipped)
      /\ dAccepted \subseteq dPosted /\ dPosted \subseteq Deliveries!Job
      /\ dSkipped \subseteq Event
  BY <1>2, DeliveryFacts
<1>4. <<e>> \in Seq(Event) /\ Len(<<e>>) = 1 /\ <<e>> # <<>> /\ 1 <= BatchSize /\ 1 <= 1
  BY RequestsAssumption
<1>5. WorkerOK(w, "insert", <<e>>, dJob', dRows', dAccepted', dSkipped')
  BY <1>2, <1>4 DEF WorkerOK
<1>6. Moved(w)
  BY <1>1, <1>2, <1>3, <1>4, <1>5 DEF Moved, JobsTold
<1> QED  BY <1>1, <1>2, <1>3, <1>6, SameRows, MovedOK

LEMMA DeliveryFetch ==
  ASSUME DeliveriesInv, NEW w \in Senders, Deliveries!Fetch(w)
  PROVE  DeliveriesInv'
<1> DEFINE step == IF w = "mails" THEN "post" ELSE "resolve"
<1>1. PICK n \in 1 .. BatchSize :
         \E taken \in [1 .. n -> {j \in Deliveries!Queue[w] : dJob[j].state = "waiting"}] :
            /\ dBatch' = [dBatch EXCEPT ![w] = taken]
            /\ dJob' = [j \in Deliveries!Job |-> IF \E i \in 1 .. n : taken[i] = j
                          THEN [dJob[j] EXCEPT !.state = "active"] ELSE dJob[j]]
  BY DEF Deliveries!Fetch
<1>2. /\ w # "replay" /\ dAt[w] = "idle" /\ dAt' = [dAt EXCEPT ![w] = step]
      /\ UNCHANGED <<dRows, dAccepted, dPosted, dSkipped>>
  BY DEF Deliveries!Fetch, Deliveries!Step, Deliveries!histories
<1>3. PICK taken \in [1 .. n -> {j \in Deliveries!Queue[w] : dJob[j].state = "waiting"}] :
            /\ dBatch' = [dBatch EXCEPT ![w] = taken]
            /\ dJob' = [j \in Deliveries!Job |-> IF \E i \in 1 .. n : taken[i] = j
                          THEN [dJob[j] EXCEPT !.state = "active"] ELSE dJob[j]]
  BY <1>1
<1>q. taken \in [1 .. n -> Held(w)]
  BY <1>2, <1>3, QueueHeld
<1>4. /\ n \in Nat /\ n >= 1 /\ n <= BatchSize
  BY <1>1, RequestsAssumption
<1>5. taken \in Seq(Held(w)) /\ Len(taken) = n /\ taken # <<>> /\ Len(taken) <= BatchSize
  BY <1>q, <1>4
<1>6. /\ WorkerOK(w, "idle", dBatch[w], dJob, dRows, dAccepted, dSkipped)
      /\ dJob \in [Deliveries!Job -> JobState] /\ JobsTold(dJob, dAccepted, dSkipped)
      /\ dAccepted \subseteq dPosted /\ dPosted \subseteq Deliveries!Job
      /\ dSkipped \subseteq Event
  BY <1>2, DeliveryFacts
<1>7. ASSUME NEW j \in Deliveries!Job
      PROVE  /\ dJob'[j] \in JobState
             /\ dJob'[j].state = "active" => dJob[j].state = "active" \/ Left(taken, j)
             /\ Left(taken, j) => dJob'[j].state = "active"
             /\ dJob'[j].state = "completed" => dJob[j].state = "completed"
  <2>1. dJob[j] \in JobState
    BY <1>6
  <2> QED  BY <1>3, <1>5, <2>1 DEF JobState, Left
<1>8. dJob' \in [Deliveries!Job -> JobState]
  BY <1>3, <1>7
<1>9. \A j : Left(taken, j) => j \in Held(w)
  BY <1>q, <1>5 DEF Left
<1>10. ASSUME NEW j \in Held(w), dJob[j].state = "active"
       PROVE  j \in dAccepted \cup dSkipped
  <2>1. Len(<<>>) = 0
    OBVIOUS
  <2>2. ~Left(dBatch[w], j)
    BY <1>6, <2>1 DEF WorkerOK, Left
  <2> QED  BY <1>2, <1>6, <1>10, <2>2 DEF WorkerOK
<1>11. WorkerOK(w, step, taken, dJob', dRows', dAccepted', dSkipped')
  <2>1. \A j \in Held(w) : dJob'[j].state = "active"
            => j \in dAccepted' \cup dSkipped' \/ Left(taken, j)
    BY <1>2, <1>7, <1>10, QueueHeld
  <2>2. w = "mails" => step = "post"
    OBVIOUS
  <2>3. w # "mails" => step = "resolve"
    OBVIOUS
  <2> HIDE DEF step
  <2> QED  BY <1>2, <1>5, <2>1, <2>2, <2>3 DEF WorkerOK
<1>12. JobsTold(dJob', dAccepted', dSkipped')
  BY <1>2, <1>6, <1>7 DEF JobsTold
<1>13. ASSUME NEW v \in Senders \ {w}
       PROVE  GoesOn(v, dJob, dRows, dAccepted, dSkipped, dJob', dRows', dAccepted', dSkipped')
  <2>1. LastRowsStay(v, dRows, dRows')
    BY <1>2, SameRows
  <2>2. ASSUME v # "replay", NEW j \in Held(v), dJob'[j].state = "active"
        PROVE  dJob[j].state = "active"
    <3>1. j \notin Held(w)
      BY <1>2, <2>2, RequestsAssumption DEF Senders, Held
    <3> QED  BY <1>7, <1>9, <2>2, <3>1, QueueHeld
  <2> QED  BY <1>2, <2>1, <2>2 DEF GoesOn
<1>14. taken \in Seq(Deliveries!Job) /\ step \in SenderSteps
  BY <1>5, QueueHeld, SeqMonotonic DEF SenderSteps
<1>15. DeliveryTypes(dJob', dBatch', dAt', dRows', dAccepted', dPosted', dSkipped')
  BY <1>2, <1>3, <1>8, <1>14 DEF DeliveriesInv, DeliveryTypes
<1>16. RowsTold(dRows')
  BY <1>2, SameRows
<1> QED  BY <1>2, <1>3, <1>11, <1>12, <1>13, <1>15, <1>16, DeliveryOwn

LEMMA DeliveryCrash ==
  ASSUME DeliveriesInv, Deliveries!Crash
  PROVE  DeliveriesInv'
<1> DEFINE jobs == Deliveries!Active("webhooks") \cup Deliveries!Active("mails")
<1>1. /\ Deliveries!Fail(jobs)
      /\ dBatch' = [w \in Senders |-> <<>>] /\ dAt' = [w \in Senders |-> "idle"]
      /\ UNCHANGED <<dRows, dAccepted, dPosted, dSkipped>>
  BY DEF Deliveries!Crash, Deliveries!Worker, Senders, Deliveries!histories
<1> HIDE DEF jobs
<1>2. /\ dJob' \in [Deliveries!Job -> JobState]
      /\ \A j \in Deliveries!Job :
            dJob'[j].state = "active" => dJob[j].state = "active" /\ j \notin jobs
      /\ JobsTold(dJob', dAccepted', dSkipped')
  BY <1>1, FailOK
<1>3. /\ dRows' \in [Event -> Seq(Row)] /\ RowsTold(dRows')
  BY <1>1, SameRows
<1>4. ASSUME NEW w \in Senders
      PROVE  /\ WorkerOK(w, "idle", <<>>, dJob', dRows', dAccepted', dSkipped')
             /\ <<>> \in Seq(Deliveries!Job)
  <2>1. Len(<<>>) = 0 /\ <<>> \in Seq(Held(w)) /\ <<>> \in Seq(Deliveries!Job)
        /\ 0 <= BatchSize /\ 0 <= 1
    BY EmptySeq, RequestsAssumption
  <2>2. ASSUME w # "replay", NEW j \in Held(w)
        PROVE  dJob'[j].state # "active"
    <3>1. dJob[j].state = "active" => j \in jobs
      BY <2>2, QueueHeld DEF Deliveries!Active, Senders, jobs
    <3> QED  BY <1>2, <3>1, QueueHeld
  <2> QED  BY <2>1, <2>2 DEF WorkerOK
<1>5. "idle" \in SenderSteps
  BY DEF SenderSteps
<1>6. DeliveryTypes(dJob', dBatch', dAt', dRows', dAccepted', dPosted', dSkipped')
  BY <1>1, <1>2, <1>3, <1>4, <1>5 DEF DeliveriesInv, DeliveryTypes
<1> QED  BY <1>1, <1>2, <1>3, <1>4, <1>6 DEF DeliveriesInv

LEMMA DeliveriesInit == Deliveries!Init => DeliveriesInv
<1> SUFFICES ASSUME Deliveries!Init PROVE DeliveriesInv
  OBVIOUS
<1>1. /\ dBatch = [w \in Senders |-> <<>>] /\ dAt = [w \in Senders |-> "idle"]
      /\ dRows = [e \in Event |-> <<>>]
      /\ dAccepted = {} /\ dPosted = {} /\ dSkipped = {}
  BY DEF Deliveries!Init, Deliveries!Worker, Senders
<1>2. \A j \in Deliveries!Job : dJob[j] \in JobState
         /\ dJob[j].state \notin {"active", "completed"}
  BY RequestsAssumption DEF Deliveries!Init, JobState
<1>3. dJob \in [Deliveries!Job -> JobState]
  <2>1. dJob = [j \in Deliveries!Job |-> dJob[j]]
    BY DEF Deliveries!Init
  <2> QED  BY <1>2, <2>1
<1>4. \A S : Len(<<>>) = 0 /\ <<>> \in Seq(S) /\ 0 <= BatchSize /\ 0 <= 1
  BY EmptySeq, RequestsAssumption
<1>5. "idle" \in SenderSteps
  BY DEF SenderSteps
<1>6. DeliveryTypes(dJob, dBatch, dAt, dRows, dAccepted, dPosted, dSkipped)
  BY <1>1, <1>3, <1>4, <1>5 DEF DeliveryTypes
<1>7. \A w \in Senders : WorkerOK(w, dAt[w], dBatch[w], dJob, dRows, dAccepted, dSkipped)
  BY <1>1, <1>2, <1>4, QueueHeld DEF WorkerOK
<1>8. JobsTold(dJob, dAccepted, dSkipped) /\ RowsTold(dRows)
  BY <1>1, <1>2 DEF JobsTold, RowsTold
<1> QED  BY <1>6, <1>7, <1>8 DEF DeliveriesInv

LEMMA DeliveriesStay == DeliveriesInv /\ UNCHANGED DeliveriesVars => DeliveriesInv'
BY DEF DeliveriesInv, DeliveriesVars

LEMMA DeliveriesNext == DeliveriesInv /\ Deliveries!Next => DeliveriesInv'
<1> SUFFICES ASSUME DeliveriesInv, Deliveries!Next PROVE DeliveriesInv'
  OBVIOUS
<1>1. CASE Deliveries!EditAddress
  BY <1>1 DEF Deliveries!EditAddress, Deliveries!work, Deliveries!histories, DeliveriesInv
<1> QED  BY <1>1, DeliveryFetch, DeliveryResolve, DeliveryInsertRow, DeliveryPost,
            DeliveryTaken, DeliveryRefused, DeliveryReplay, DeliveryCrash
         DEF Deliveries!Next, Deliveries!Deliver, Deliveries!Worker, Senders

LEMMA DeliveriesMean ==
    DeliveriesInv => /\ Deliveries!TypeOK /\ Deliveries!CompletedIsTold
                     /\ Deliveries!SuccessWasTaken
<1> SUFFICES ASSUME DeliveriesInv
             PROVE  /\ Deliveries!TypeOK /\ Deliveries!CompletedIsTold
                    /\ Deliveries!SuccessWasTaken
  OBVIOUS
<1>1. Deliveries!CompletedIsTold /\ Deliveries!SuccessWasTaken
  BY DEF DeliveriesInv, JobsTold, RowsTold, Deliveries!CompletedIsTold,
         Deliveries!SuccessWasTaken
<1>2. \A w \in Senders : dBatch[w] \in Seq(Deliveries!Job) /\ Len(dBatch[w]) <= BatchSize
  BY DEF DeliveriesInv, DeliveryTypes, WorkerOK
<1> QED  BY <1>1, <1>2 DEF DeliveriesInv, DeliveryTypes, Deliveries!TypeOK, Senders,
            SenderSteps, JobState, Row, Deliveries!Worker

-----------------------------------------------------------------------------
(* The payout PIN.                                                            *)

PinSteps == {"idle", "clear", "change", "count", "record", "reset", "used"}

LEMMA PinsInit == Pins!Init => Pins!TypeOK
<1>1. MaxFailed \in Nat /\ LockTime \in Nat
  BY RequestsAssumption
<1>2. 0 \in 0 .. MaxFailed /\ 0 \in 0 .. LockTime
  BY <1>1
<1> QED  BY <1>2 DEF Pins!Init, Pins!TypeOK

\* A step of one request.
LEMMA PinMoves ==
  ASSUME Pins!TypeOK, NEW c \in Call, NEW from, NEW to \in PinSteps, Pins!Step(c, from, to)
  PROVE  pCall' \in [Call -> PinSteps]
BY DEF Pins!TypeOK, Pins!Step, PinSteps

LEMMA PinsNext == Pins!TypeOK /\ Pins!Next => Pins!TypeOK'
<1> SUFFICES ASSUME Pins!TypeOK, Pins!Next PROVE Pins!TypeOK'
  OBVIOUS
<1> USE RequestsAssumption
<1>1. CASE Pins!Tick
  BY <1>1 DEF Pins!Tick, Pins!TypeOK, Pins!calls
<1>2. CASE Pins!ForgotPin
  BY <1>2 DEF Pins!ForgotPin, Pins!TypeOK, Pins!pin, Pins!calls
<1>3. ASSUME NEW c \in Call, Pins!Begin(c)
      PROVE  Pins!TypeOK'
  <2>1. /\ UNCHANGED <<pConfigured, pFailed, pLocked, pLink, pRead>>
        /\ \E to \in {"clear", "change", "count", "reset"} : Pins!Step(c, "idle", to)
    BY <1>3 DEF Pins!Begin, Pins!CheckPin, Pins!SetPin, Pins!UseLink, Pins!GoOn, Pins!pin
  <2>2. pCall' \in [Call -> PinSteps]
    BY <2>1, PinMoves DEF PinSteps
  <2> QED  BY <2>1, <2>2 DEF Pins!TypeOK, PinSteps
<1>4. ASSUME NEW c \in Call, Pins!Finish(c)
      PROVE  Pins!TypeOK'
  <2>1. pCall' \in [Call -> PinSteps]
    <3>1. \E from \in PinSteps, to \in PinSteps : Pins!Step(c, from, to)
      BY <1>4 DEF Pins!Finish, Pins!Clear, Pins!ReadCount, Pins!RecordFailure, Pins!WritePin,
                  Pins!MarkUsed, Pins!GoOn, PinSteps
    <3> QED  BY <3>1, PinMoves
  <2>2. CASE Pins!Clear(c)
    BY <2>1, <2>2 DEF Pins!Clear, Pins!GoOn, Pins!TypeOK, PinSteps
  <2>3. CASE Pins!ReadCount(c)
    BY <2>1, <2>3 DEF Pins!ReadCount, Pins!TypeOK, Pins!pin, PinSteps
  <2>4. CASE Pins!RecordFailure(c)
    <3>1. pRead[c] \in 0 .. MaxFailed
      BY DEF Pins!TypeOK
    <3>2. pFailed' \in 0 .. MaxFailed
      BY <2>4, <3>1 DEF Pins!RecordFailure, Pins!Counted
    <3>3. pLocked' \in 0 .. LockTime
      BY <2>4 DEF Pins!RecordFailure
    <3>4. pRead' \in [Call -> 0 .. MaxFailed]
      BY <2>4 DEF Pins!RecordFailure, Pins!TypeOK
    <3>5. UNCHANGED <<pConfigured, pLink>>
      BY <2>4 DEF Pins!RecordFailure
    <3> QED  BY <2>1, <3>2, <3>3, <3>4, <3>5 DEF Pins!TypeOK, PinSteps
  <2>5. CASE Pins!WritePin(c)
    BY <2>1, <2>5 DEF Pins!WritePin, Pins!GoOn, Pins!TypeOK, PinSteps
  <2>6. CASE Pins!MarkUsed(c)
    BY <2>1, <2>6 DEF Pins!MarkUsed, Pins!GoOn, Pins!TypeOK, Pins!pin, PinSteps
  <2> QED  BY <1>4, <2>2, <2>3, <2>4, <2>5, <2>6 DEF Pins!Finish
<1> QED  BY <1>1, <1>2, <1>3, <1>4 DEF Pins!Next

-----------------------------------------------------------------------------
(* The worlds together: a behaviour is one of them, and the others stay where *)
(* they are.                                                                  *)

AllInv ==
    /\ IInv
    /\ world = "pin" => Pins!TypeOK
    /\ world = "delivery" => DeliveriesInv

LEMMA AllInitInv == AllInit => AllInv
<1> SUFFICES ASSUME AllInit PROVE AllInv
  OBVIOUS
<1>1. /\ world = "pin" => Pins!TypeOK
      /\ world = "delivery" => DeliveriesInv
  BY PinsInit, DeliveriesInit DEF AllInit
<1> QED  BY <1>1, InitIInv DEF AllInit, AllInv

\* Every step keeps the invariant of its world.
LEMMA AllNextInv ==
    AllInv /\ [AllNext]_<<world, vars, PinsVars, DeliveriesVars>> => AllInv'
<1> SUFFICES ASSUME AllInv, [AllNext]_<<world, vars, PinsVars, DeliveriesVars>>
             PROVE  AllInv'
  OBVIOUS
<1>0. UNCHANGED vars => IInv'
  BY StepIInv DEF AllInv
<1>1. CASE AllNext
  <2>1. world' = world
    BY <1>1 DEF AllNext
  <2>2. CASE world = "key" /\ Next
    BY <2>1, <2>2, StepIInv DEF AllInv
  <2>3. CASE world = "pin" /\ Pins!Next /\ UNCHANGED vars
    BY <1>0, <2>1, <2>3, PinsNext DEF AllInv
  <2>4. CASE world = "delivery" /\ Deliveries!Next /\ UNCHANGED vars
    BY <1>0, <2>1, <2>4, DeliveriesNext DEF AllInv
  <2> QED  BY <1>1, <2>2, <2>3, <2>4 DEF AllNext
<1>2. CASE UNCHANGED <<world, vars, PinsVars, DeliveriesVars>>
  <2>1. Pins!TypeOK /\ UNCHANGED PinsVars => Pins!TypeOK'
    BY DEF PinsVars, Pins!TypeOK
  <2> QED  BY <1>0, <1>2, <2>1, DeliveriesStay DEF AllInv
<1> QED  BY <1>1, <1>2

\* The code of each world keeps, in every interleaving, what its steps rely on.
THEOREM RequestsInvariant == AllSpec => []AllInv
  BY AllInitInv, AllNextInv, PTL DEF AllSpec

\* Every variable of every world has its type, for any constants.
THEOREM RequestsTypes == AllSpec => []TypesOK
<1>1. AllInv => TypesOK
  BY DeliveriesMean DEF AllInv, IInv, TypesOK
<1> QED  BY <1>1, RequestsInvariant, PTL

\* server.ts, merchant-webhook.ts: for any jobs, batches, retries, replays and
\* faults, a job that the queue calls completed was taken by its receiver or had
\* no address, and a row shown as a success was told.
THEOREM ShownIsAlwaysTold == AllSpec => []ShownIsTold
<1>1. AllInv => ShownIsTold
  BY DeliveriesMean DEF AllInv, ShownIsTold
<1> QED  BY <1>1, RequestsInvariant, PTL
=============================================================================
