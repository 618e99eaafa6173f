------------------------------ MODULE Revocation ------------------------------
(***************************************************************************)
(* jwt_revocations: tokens that ended before they expired, and step-up     *)
(* tokens that have been used.  Each server process caches the answers of  *)
(* the table.  A session is looked up by every request and revoked by a    *)
(* logout; a step-up token is claimed by whoever inserts its row.          *)
(***************************************************************************)
EXTENDS Integers

CONSTANTS Instance,  \* server processes
          Call,      \* requests that may be under way at once
          Session,   \* session tokens
          StepUp,    \* step-up tokens
          Ttl,       \* how long "not revoked" is cached
          KeptTtl,   \* how long "revoked" is cached
          MaxTime    \* bound: the clock

VARIABLES now,       \* the clock
          revokedAt, \* when each token got its row
          cache,     \* cache of each process, by token
          call,      \* where each request is
          note,      \* what it is for, and what it has read
          marked,    \* history: the revocations each process has cached
          grants     \* history: what each step-up token was accepted for

Token == Session \cup StepUp

calls == <<call, note>>
vars == <<now, revokedAt, cache, calls, marked, grants>>

Never == MaxTime + 1

NoEntry == [revoked |-> FALSE, until |-> 0]

NoNote == [at |-> "none", token |-> "none", begun |-> 0, read |-> FALSE,
           after |-> FALSE]

Step(c, from, to) == call[c] = from /\ call' = [call EXCEPT ![c] = to]

GoOn(c, from, to) == Step(c, from, to) /\ UNCHANGED note

Return(c, from) == Step(c, from, "idle") /\ note' = [note EXCEPT ![c] = NoNote]

\* Entries that have expired are as good as none.
Fresh(entry, time) == IF entry.until > time THEN entry ELSE NoEntry

Tick ==
    /\ now < MaxTime /\ now' = now + 1
    /\ cache' = [i \in Instance |->
                    [t \in Token |-> Fresh(cache[i][t], now + 1)]]
    /\ UNCHANGED <<revokedAt, calls, marked, grants>>

-----------------------------------------------------------------------------
(* isJtiRevoked, first in verifyPortalToken and verifyProviderToken *)

\* A live entry is the verdict; else the table is asked.
LookUp(c) ==
    \E i \in Instance, t \in Session :
        /\ Step(c, "idle", IF cache[i][t].until <= now THEN "ask"
                           ELSE IF cache[i][t].revoked THEN "refused" ELSE "accepted")
        /\ note' = [note EXCEPT ![c] =
                       [at |-> i, token |-> t, begun |-> now, read |-> FALSE,
                        after |-> t \in marked[i]]]
        /\ UNCHANGED <<now, revokedAt, cache, marked, grants>>

\* The table is read at one moment ...
Ask(c) ==
    /\ Step(c, "ask", "answer")
    /\ note' = [note EXCEPT ![c].read = revokedAt[note[c].token] # Never]
    /\ UNCHANGED <<now, revokedAt, cache, marked, grants>>

Store(c, from) ==
    LET i == note[c].at
        t == note[c].token
        entry == [revoked |-> note[c].read,
                  until |-> from + IF note[c].read THEN KeptTtl ELSE Ttl]
    IN  cache' = [cache EXCEPT ![i][t] = Fresh(entry, now)]

\* Variant: the entry lives from the moment it is stored.
StoreFromNow(c) ==
    /\ GoOn(c, "answer", IF note[c].read THEN "refused" ELSE "accepted")
    /\ Store(c, now)
    /\ UNCHANGED <<now, revokedAt, marked, grants>>

\* ... and the answer is stored at another, over whatever is there; it lives
\* from the moment of the question.
StoreAnswer(c) ==
    /\ GoOn(c, "answer", IF note[c].read THEN "refused" ELSE "accepted")
    /\ Store(c, note[c].begun)
    /\ UNCHANGED <<now, revokedAt, marked, grants>>

\* The request is answered, or it is a logout or the end of all sessions.
Verdict(c) ==
    /\ \/ Return(c, "refused") \/ Return(c, "accepted")
       \/ GoOn(c, "accepted", "revoke")
    /\ UNCHANGED <<now, revokedAt, cache, marked, grants>>

\* A full cache drops its oldest entries.
Evict ==
    /\ \E i \in Instance, t \in Token :
          cache' = [cache EXCEPT ![i][t] = NoEntry]
    /\ UNCHANGED <<now, revokedAt, calls, marked, grants>>

-----------------------------------------------------------------------------
(* insertRevocationClaim: a logout (revokeJti) has been verified before, a    *)
(* step-up token (claimJtiOnce, in requirePortalStepUp) by its signature only *)

PresentStepUp(c) ==
    \E i \in Instance, t \in StepUp :
        /\ Step(c, "idle", "claim")
        /\ note' = [note EXCEPT ![c] = [NoNote EXCEPT !.at = i, !.token = t]]
        /\ UNCHANGED <<now, revokedAt, cache, marked, grants>>

InsertRow(t) == revokedAt' = [revokedAt EXCEPT ![t] = IF @ = Never THEN now ELSE @]

Grant(t) == grants' = [grants EXCEPT ![t] = @ + 1]

\* The primary key lets one insert through; only that one is a grant.
Insert(c) ==
    /\ \/ GoOn(c, "revoke", "mark") /\ UNCHANGED grants
       \/ /\ GoOn(c, "claim", "mark")
          /\ IF revokedAt[note[c].token] = Never
             THEN Grant(note[c].token) ELSE UNCHANGED grants
    /\ InsertRow(note[c].token)
    /\ UNCHANGED <<now, cache, marked>>

Mark(c) ==
    /\ LET i == note[c].at
           t == note[c].token
       IN  /\ Return(c, "mark")
           /\ cache' = [cache EXCEPT ![i][t] = [revoked |-> TRUE,
                                                until |-> now + KeptTtl]]
           /\ marked' = [marked EXCEPT ![i] = @ \cup {t}]
    /\ UNCHANGED <<now, revokedAt, grants>>

-----------------------------------------------------------------------------
Init ==
    /\ now = 0
    /\ revokedAt = [t \in Token |-> Never]
    /\ cache = [i \in Instance |-> [t \in Token |-> NoEntry]]
    /\ call = [c \in Call |-> "idle"]
    /\ note = [c \in Call |-> NoNote]
    /\ marked = [i \in Instance |-> {}]
    /\ grants = [t \in Token |-> 0]

Next == \/ Tick \/ Evict
        \/ \E c \in Call : \/ LookUp(c) \/ Ask(c) \/ StoreAnswer(c) \/ Verdict(c)
                           \/ PresentStepUp(c) \/ Insert(c) \/ Mark(c)

Spec == Init /\ [][Next]_vars

-----------------------------------------------------------------------------
(* Properties *)

\* Every variable has its type.
TypeOK ==
    /\ now \in 0 .. MaxTime
    /\ revokedAt \in [Token -> 0 .. Never]
    /\ cache \in [Instance -> [Token -> [revoked : BOOLEAN,
                                         until : 0 .. MaxTime + KeptTtl + Ttl]]]
    /\ call \in [Call -> {"idle", "ask", "answer", "accepted", "refused",
                          "revoke", "claim", "mark"}]
    /\ note \in [Call -> [at : Instance \cup {"none"}, token : Token \cup {"none"},
                          begun : 0 .. MaxTime, read : BOOLEAN, after : BOOLEAN]]
    /\ marked \in [Instance -> SUBSET Token]
    /\ grants \in [Token -> Nat]

\* jwt-revocation.ts: "a logout that hasn't propagated yet still has the
\* bounded window of negative TTL".  However slow lookups overlap with the
\* revocation and overwrite what it cached, on whatever process, a request
\* that begins Ttl after it is refused; and only revoked tokens are.
VerdictIsRecent ==
    \A c \in Call :
        /\ call[c] = "accepted" => note[c].begun < revokedAt[note[c].token] + Ttl
        /\ call[c] = "refused" => revokedAt[note[c].token] # Never

\* jwt-revocation.ts: claimJtiOnce "returns true only on the call that actually
\* performs the insert": a step-up token lets one request through.
StepUpOnce == \A t \in Token : grants[t] <= 1

\* jwt-revocation.ts: "Invalidate any negative cache entry so the next read
\* sees the revocation immediately on this instance".  A lookup that began
\* before stores its answer over it.
RevocationSeenAtOnce ==
    \A c \in Call : call[c] = "accepted" => ~note[c].after
=============================================================================
