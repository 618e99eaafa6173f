------------------------------ MODULE Delivery ------------------------------
(***************************************************************************)
(* Merchant webhooks and transactional e-mail.  An event is a job of a     *)
(* pg-boss queue.  A worker takes several jobs at a time, delivers them    *)
(* one after the other, and the queue judges them together: the first that *)
(* throws sends the whole batch back.  Each attempt of a webhook leaves a  *)
(* row that the portal shows and can replay.                               *)
(***************************************************************************)
EXTENDS Naturals, Sequences

CONSTANTS Event,      \* merchant events
          Mail,       \* transactional e-mails
          Down,       \* the jobs whose receiver never accepts anything
          BatchSize,  \* batchSize of the worker
          RetryLimit, \* retryLimit of the jobs
          MaxReplays, \* bound: replays of an event
          MaxFaults   \* bound: crashes of the process, failed writes, edits

VARIABLES job,      \* state of each job and its retries
          batch,    \* jobs each worker holds, the one under way first
          at,       \* where each worker is
          rows,     \* delivery rows of each event
          address,  \* whether the merchant has a URL and a secret
          accepted, \* history: jobs the receiver has accepted
          posted,   \* history: jobs that were sent at least once
          skipped,  \* history: jobs passed over for want of an address
          faults    \* bound

Job == Event \cup Mail

\* The two workers of the process, and the replay of the portal.
Worker == {"webhooks", "mails", "replay"}

Queue == [webhooks |-> Event, mails |-> Mail]

work == <<job, batch, at>>
histories == <<accepted, posted, skipped>>
vars == <<work, rows, address, histories, faults>>

Step(w, from, to) == at[w] = from /\ at' = [at EXCEPT ![w] = to]

Current(w) == Head(batch[w])

Fault == faults < MaxFaults /\ faults' = faults + 1

-----------------------------------------------------------------------------
(* pg-boss *)

\* Up to BatchSize jobs that wait, in the order of their making.
Fetch(w) ==
    /\ w # "replay" /\ Step(w, "idle", IF w = "mails" THEN "post" ELSE "resolve")
    /\ \E n \in 1 .. BatchSize :
          \E taken \in [1 .. n -> {j \in Queue[w] : job[j].state = "waiting"}] :
             /\ \A i, k \in 1 .. n : taken[i] = taken[k] => i = k
             /\ batch' = [batch EXCEPT ![w] = taken]
             /\ job' = [j \in Job |-> IF \E i \in 1 .. n : taken[i] = j
                                      THEN [job[j] EXCEPT !.state = "active"] ELSE job[j]]
    /\ UNCHANGED <<rows, address, histories, faults>>

Active(w) == {j \in Queue[w] : job[j].state = "active"}

\* The handler returned: every job of the batch is completed.
Complete(w) ==
    job' = [j \in Job |-> IF j \in Active(w) THEN [job[j] EXCEPT !.state = "completed"]
                          ELSE job[j]]

\* The handler threw, or the process died: every job of the batch is retried
\* or given up, the ones delivered and the ones never reached alike.
Fail(jobs) ==
    job' = [j \in Job |->
               IF j \notin jobs THEN job[j]
               ELSE IF job[j].retries < RetryLimit
                    THEN [state |-> "waiting", retries |-> job[j].retries + 1]
                    ELSE [job[j] EXCEPT !.state = "failed"]]

-----------------------------------------------------------------------------
(* The loop over the batch *)

\* Variant: a delivery that throws does not stop the loop.
SwallowError(w, from) ==
    /\ at[w] = from
    /\ IF w = "replay" \/ Len(batch[w]) = 1
       THEN /\ at' = [at EXCEPT ![w] = "idle"] /\ batch' = [batch EXCEPT ![w] = <<>>]
            /\ IF w = "replay" THEN UNCHANGED job ELSE Complete(w)
       ELSE /\ at' = [at EXCEPT ![w] = IF w = "mails" THEN "post" ELSE "resolve"]
            /\ batch' = [batch EXCEPT ![w] = Tail(@)] /\ UNCHANGED job

Throw(w, from) ==
    /\ Step(w, from, "idle")
    /\ batch' = [batch EXCEPT ![w] = <<>>]
    /\ IF w = "replay" THEN UNCHANGED job ELSE Fail(Active(w))

\* On to the next job of the batch; after the last one the handler returns.
NextJob(w, from) ==
    /\ at[w] = from
    /\ IF Len(batch[w]) > 1
       THEN /\ at' = [at EXCEPT ![w] = IF w = "mails" THEN "post" ELSE "resolve"]
            /\ batch' = [batch EXCEPT ![w] = Tail(@)] /\ UNCHANGED job
       ELSE /\ at' = [at EXCEPT ![w] = "idle"]
            /\ batch' = [batch EXCEPT ![w] = <<>>]
            /\ IF w = "replay" THEN UNCHANGED job ELSE Complete(w)

-----------------------------------------------------------------------------
(* sendMerchantWebhook, deliverTransactionalEmail *)

\* resolveMerchantWebhookAuth: without an address there is nothing to do.
Resolve(w) ==
    /\ IF address
       THEN Step(w, "resolve", "insert") /\ UNCHANGED <<job, batch, skipped>>
       ELSE NextJob(w, "resolve") /\ skipped' = skipped \cup {Current(w)}
    /\ UNCHANGED <<rows, address, accepted, posted, faults>>

InsertRow(w) ==
    /\ Step(w, "insert", "post")
    /\ rows' = [rows EXCEPT ![Current(w)] =
                   Append(@, [status |-> "pending", by |-> w, told |-> FALSE])]
    /\ UNCHANGED <<job, batch, address, histories, faults>>

\* The row a worker has inserted and not yet settled is the last of its own.
Mine(w) == CHOOSE i \in DOMAIN rows[Current(w)] :
              /\ rows[Current(w)][i].by = w
              /\ \A k \in DOMAIN rows[Current(w)] :
                    rows[Current(w)][k].by = w => k <= i

Settle(w, status) ==
    rows' = [rows EXCEPT ![Current(w)][Mine(w)].status = status]

\* The receiver takes the message or not, and its answer may be lost.
Post(w) ==
    /\ at[w] = "post"
    /\ \E takes \in BOOLEAN, answered \in BOOLEAN :
          /\ takes => Current(w) \notin Down
          /\ ~answered => w # "mails" /\ takes
          /\ ~answered => faults < MaxFaults
          /\ Step(w, "post", IF takes /\ answered THEN "taken" ELSE "refused")
          /\ faults' = IF answered THEN faults ELSE faults + 1
          /\ posted' = posted \cup {Current(w)}
          /\ accepted' = IF takes THEN accepted \cup {Current(w)} ELSE accepted
          /\ rows' = IF takes /\ w # "mails"
                     THEN [rows EXCEPT ![Current(w)][Mine(w)].told = TRUE] ELSE rows
          /\ UNCHANGED <<job, batch, address, skipped>>

\* A success is recorded.  If that write throws, the row is written again, as
\* a failure, and the delivery counts as failed.
RecordTaken(w) ==
    \/ /\ w = "mails" /\ NextJob(w, "taken")
       /\ UNCHANGED <<rows, address, histories, faults>>
    \/ /\ w # "mails" /\ NextJob(w, "taken") /\ Settle(w, "success")
       /\ UNCHANGED <<address, histories, faults>>
    \/ /\ w # "mails" /\ Throw(w, "taken") /\ Settle(w, "failed") /\ Fault
       /\ UNCHANGED <<address, histories>>

\* Variant: any answer settles the row as a success.
RecordAnyAnswer(w) ==
    /\ w # "mails" /\ NextJob(w, "refused") /\ Settle(w, "success")
    /\ UNCHANGED <<address, histories, faults>>

\* A refusal is recorded and thrown on.  If the write fails too, the row
\* stays pending.
RecordRefused(w) ==
    /\ Throw(w, "refused")
    /\ \/ (IF w = "mails" THEN UNCHANGED rows ELSE Settle(w, "failed")) /\ UNCHANGED faults
       \/ w # "mails" /\ Fault /\ UNCHANGED rows
    /\ UNCHANGED <<address, histories>>

-----------------------------------------------------------------------------
(* Around it *)

\* replayMerchantWebhookDelivery sends the payload of a row once more.
Replay ==
    \E e \in Event :
        /\ rows[e] # <<>> /\ address
        /\ Len(SelectSeq(rows[e], LAMBDA r : r.by = "replay")) < MaxReplays
        /\ Step("replay", "idle", "insert")
        /\ batch' = [batch EXCEPT !["replay"] = <<e>>]
        /\ UNCHANGED <<job, rows, address, histories, faults>>

\* The process dies with all it does; the jobs it held expire.
Crash ==
    /\ Fault /\ \E w \in Worker : at[w] # "idle"
    /\ Fail(Active("webhooks") \cup Active("mails"))
    /\ batch' = [w \in Worker |-> <<>>] /\ at' = [w \in Worker |-> "idle"]
    /\ UNCHANGED <<rows, address, histories>>

\* The merchant sets or clears its webhook address.
EditAddress ==
    /\ Fault /\ address' = ~address
    /\ UNCHANGED <<work, rows, histories>>

-----------------------------------------------------------------------------

\* The two queues share nothing: the jobs of one are looked at at a time.
Init ==
    /\ \E made \in {Event, Mail} :
          job = [j \in Job |-> [state |-> IF j \in made THEN "waiting" ELSE "none",
                               retries |-> 0]]
    /\ batch = [w \in Worker |-> <<>>]
    /\ at = [w \in Worker |-> "idle"]
    /\ rows = [e \in Event |-> <<>>]
    /\ address = TRUE
    /\ accepted = {} /\ posted = {} /\ skipped = {} /\ faults = 0

Deliver(w) ==
    Fetch(w) \/ Resolve(w) \/ InsertRow(w) \/ Post(w) \/ RecordTaken(w) \/ RecordRefused(w)

Next ==
    \/ \E w \in Worker : Deliver(w)
    \/ Replay \/ Crash \/ EditAddress

Spec == Init /\ [][Next]_vars

\* The workers poll their queue and every send ends by its timeout.
FairSpec == Spec /\ \A w \in {"webhooks", "mails"} : WF_vars(Deliver(w))

-----------------------------------------------------------------------------
(* Properties *)

TypeOK ==
    /\ job \in [Job -> [state : {"none", "waiting", "active", "completed", "failed"},
                        retries : 0..RetryLimit]]
    /\ \A w \in Worker : batch[w] \in Seq(Job) /\ Len(batch[w]) <= BatchSize
    /\ at \in [Worker -> {"idle", "resolve", "insert", "post", "taken", "refused"}]
    /\ \A e \in Event :
          rows[e] \in Seq([status : {"pending", "success", "failed"},
                          by : {"webhooks", "replay"}, told : BOOLEAN])
    /\ accepted \subseteq posted /\ posted \subseteq Job /\ skipped \subseteq Event

(* A job the queue calls completed was accepted by its receiver, unless the  *)
(* merchant had no address when its turn came: no failure inside a batch,    *)
(* crash or lost answer makes the queue forget an event (server.ts throws    *)
(* out of the loop for that).                                                *)
CompletedIsTold ==
    \A j \in Job : job[j].state = "completed" => j \in accepted \cup skipped

(* A row shown as success is a message the merchant answered; what the       *)
(* portal shows is never better than what happened, whoever sent it (the     *)
(* worker or a replay) and whichever write failed.                           *)
SuccessWasTaken ==
    \A e \in Event : \A i \in DOMAIN rows[e] : rows[e][i].status = "success" => rows[e][i].told

(* "Deliver outbound webhooks with retries": a job is given up only after    *)
(* attempts to send it.  A job behind one whose receiver is down is not sent *)
(* at all, and uses its retries up with it.                                  *)
GivenUpWasSent ==
    \A j \in Job : job[j].state = "failed" => j \in posted

=============================================================================
