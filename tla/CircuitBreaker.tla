--------------------------- MODULE CircuitBreaker ---------------------------
(***************************************************************************)
(* outboundFetch behind the circuit of a provider.  Each process counts    *)
(* the failures and knows until when the circuit is open; Redis holds both *)
(* for all of them, when it can be reached.                                *)
(***************************************************************************)
EXTENDS Integers

CONSTANTS Instance,  \* server processes
          Call,      \* outbound calls that may be under way at once
          Retries,   \* retries of a call
          Threshold, \* failures in a row that open the circuit
          Cooldown,  \* how long it stays open
          MaxTime,   \* bound: the clock
          MaxLost    \* bound: commands Redis does not answer

VARIABLES now,     \* the clock
          local,   \* failures counted and end of the open window, by process
          shared,  \* the same in Redis
          call,    \* where each call is
          note,    \* its process, when it began, its attempt, what it counted
          opened,  \* history: the last end of a window that reached Redis
          lost     \* bound

vars == <<now, local, shared, call, note, opened, lost>>

\* window is history: the end of the window Redis had been told of when the
\* call began, 0 if Redis did not answer the call.
Free == [at |-> "none", begun |-> 0, attempt |-> 0, count |-> 0, until |-> 0,
         window |-> 0]

\* Counts are only ever compared with the threshold: they stop there.
More(count) == IF count < Threshold THEN count + 1 ELSE count

Step(c, from, to) == call[c] = from /\ call' = [call EXCEPT ![c] = to]

\* A command is short beside the cooldown: none spans a tick.
Tick ==
    /\ now < MaxTime /\ \A c \in Call : call[c] # "publish"
    /\ now' = now + 1
    /\ UNCHANGED <<local, shared, call, note, opened, lost>>

\* Each Redis command may fail; its caller goes on with what it knows.
RedisSays(reached) ==
    /\ ~reached => lost < MaxLost
    /\ lost' = IF reached THEN lost ELSE lost + 1

-----------------------------------------------------------------------------
(* assertProviderCircuitClosed *)

\* What a call that begins now on i keeps.
Begun(i) == [Free EXCEPT !.at = i, !.begun = now, !.window = opened]

\* The window the process knows of refuses without asking.
Begin(c) ==
    \E i \in Instance :
        /\ Step(c, "idle", IF now < local[i].until THEN "refused" ELSE "ask")
        /\ note' = [note EXCEPT ![c] = Begun(i)]
        /\ UNCHANGED <<now, local, shared, opened, lost>>

\* Variant: only the process itself is asked.
AskNobody(c) ==
    /\ Step(c, "ask", "try") /\ note' = [note EXCEPT ![c].attempt = 1]
    /\ UNCHANGED <<now, local, shared, opened, lost>>

\* What a call that goes out keeps.
Asked(n, reached) ==
    [n EXCEPT !.attempt = 1, !.window = IF reached THEN @ ELSE 0]

\* The window of Redis, compared with the time the call began, is kept by the
\* process that meets it.
Ask(c) ==
    \/ /\ note[c].begun < shared.until
       /\ Step(c, "ask", "refused")
       /\ local' = [local EXCEPT ![note[c].at].until = shared.until]
       /\ UNCHANGED <<now, shared, note, opened, lost>>
    \/ \E reached \in BOOLEAN :
          /\ reached => note[c].begun >= shared.until
          /\ Step(c, "ask", "try") /\ RedisSays(reached)
          /\ note' = [note EXCEPT ![c] = Asked(@, reached)]
          /\ UNCHANGED <<now, local, shared, opened>>

-----------------------------------------------------------------------------
(* One attempt *)

\* Variant: a success closes the circuit for everyone.
CloseForAll(c) ==
    \E reached \in BOOLEAN :
        /\ Step(c, "try", "idle") /\ RedisSays(reached)
        /\ local' = [local EXCEPT ![note[c].at].fails = 0]
        /\ shared' = IF reached THEN [fails |-> 0, until |-> 0] ELSE shared
        /\ note' = [note EXCEPT ![c] = Free]
        /\ UNCHANGED <<now, opened>>

\* An answer below 500 ends the count of failures, here and in Redis.
Succeed(c) ==
    \E reached \in BOOLEAN :
        /\ Step(c, "try", "idle") /\ RedisSays(reached)
        /\ local' = [local EXCEPT ![note[c].at].fails = 0]
        /\ shared' = IF reached THEN [shared EXCEPT !.fails = 0] ELSE shared
        /\ note' = [note EXCEPT ![c] = Free]
        /\ UNCHANGED <<now, opened>>

\* A timeout, a network error or a 5xx counts; Redis has the count of all.
Count(c) ==
    \E reached \in BOOLEAN :
        LET i == note[c].at
            own == More(local[i].fails)
        IN  /\ Step(c, "try", "counted") /\ RedisSays(reached)
            /\ local' = [local EXCEPT ![i].fails = own]
            /\ shared' = IF reached THEN [shared EXCEPT !.fails = More(@)] ELSE shared
            /\ note' = [note EXCEPT ![c].count = IF reached THEN More(shared.fails) ELSE own]
            /\ UNCHANGED <<now, opened>>

\* At the threshold the process opens its circuit and goes on to tell Redis.
Trip(c) ==
    LET opens == note[c].count >= Threshold
    IN  /\ Step(c, "counted", IF opens THEN "publish" ELSE "failed")
        /\ local' = IF opens
                    THEN [local EXCEPT ![note[c].at] = [fails |-> 0, until |-> now + Cooldown]]
                    ELSE local
        /\ note' = [note EXCEPT ![c].until = IF opens THEN now + Cooldown ELSE 0]
        /\ UNCHANGED <<now, shared, opened, lost>>

Publish(c) ==
    \E reached \in BOOLEAN :
        /\ Step(c, "publish", IF reached THEN "clear" ELSE "failed") /\ RedisSays(reached)
        /\ shared' = IF reached THEN [shared EXCEPT !.until = note[c].until] ELSE shared
        /\ opened' = IF reached THEN note[c].until ELSE opened
        /\ UNCHANGED <<now, local, note>>

ClearCount(c) ==
    \E reached \in BOOLEAN :
        /\ Step(c, "clear", "failed") /\ RedisSays(reached)
        /\ shared' = IF reached THEN [shared EXCEPT !.fails = 0] ELSE shared
        /\ UNCHANGED <<now, local, note, opened>>

\* What a call keeps into its next attempt.
Again(n) == [n EXCEPT !.attempt = @ + 1, !.count = 0, !.until = 0]

\* The attempt is repeated, whether or not the circuit has opened meanwhile.
Retry(c) ==
    /\ note[c].attempt <= Retries /\ Step(c, "failed", "try")
    /\ note' = [note EXCEPT ![c] = Again(@)]
    /\ UNCHANGED <<now, local, shared, opened, lost>>

GiveUp(c) ==
    /\ \/ Step(c, "refused", "idle")
       \/ note[c].attempt > Retries /\ Step(c, "failed", "idle")
    /\ note' = [note EXCEPT ![c] = Free]
    /\ UNCHANGED <<now, local, shared, opened, lost>>

-----------------------------------------------------------------------------

Init ==
    /\ now = 0
    /\ local = [i \in Instance |-> [fails |-> 0, until |-> 0]]
    /\ shared = [fails |-> 0, until |-> 0]
    /\ call = [c \in Call |-> "idle"]
    /\ note = [c \in Call |-> Free]
    /\ opened = 0 /\ lost = 0

Attempt(c) ==
    Succeed(c) \/ Count(c) \/ Trip(c) \/ Publish(c) \/ ClearCount(c) \/ Retry(c) \/ GiveUp(c)

Next == Tick \/ \E c \in Call : Begin(c) \/ Ask(c) \/ Attempt(c)

Spec == Init /\ [][Next]_vars

-----------------------------------------------------------------------------
(* Properties *)

TypeOK ==
    /\ now \in 0..MaxTime /\ lost \in 0..MaxLost
    /\ local \in [Instance -> [fails : 0..Threshold, until : 0..MaxTime + Cooldown]]
    /\ shared \in [fails : 0..Threshold, until : 0..MaxTime + Cooldown]
    /\ \A c \in Call : note[c].attempt <= Retries + 1

(* "A circuit opened on one app instance is honored by all peers": once the  *)
(* window has reached Redis, no call that begins inside it goes out, on any  *)
(* process, whatever the calls under way succeed or fail at; only a call     *)
(* that Redis did not answer does.                                           *)
PeersHonour ==
    \A c \in Call :
        call[c] \notin {"idle", "ask", "refused"} => note[c].begun >= note[c].window

=============================================================================
