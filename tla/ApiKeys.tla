------------------------------- MODULE ApiKeys -------------------------------
(***************************************************************************)
(* The live API keys of a merchant.  A key is a row of merchant_api_keys,  *)
(* active until it is revoked by the merchant, by the provider or by the   *)
(* creation of another.  Every signed request looks its key up, first in a *)
(* cache of the server process and then in the table; whoever revokes a    *)
(* key drops it from the cache of the process that serves the revocation.  *)
(***************************************************************************)
EXTENDS Integers

CONSTANTS Instance, \* server processes
          Call,     \* requests that may be under way at once
          Key,      \* keys that may be made
          Ttl,      \* POSITIVE_TTL_MS
          MissTtl,  \* NEGATIVE_TTL_MS
          MaxLoad,  \* the longest a lookup takes: a statement times out
          MaxTime   \* bound: the clock

VARIABLES now,       \* the clock
          status,    \* of each key
          revokedAt, \* when it was revoked
          cache,     \* cache of each process, by key
          call,      \* where each request is
          note       \* its process and key, when it began and what it has read

calls == <<call, note>>
vars == <<now, status, revokedAt, cache, calls>>

Never == MaxTime + 1

NoEntry == [hit |-> FALSE, until |-> 0]

NoNote == [at |-> "none", key |-> "none", begun |-> 0, read |-> FALSE,
           prior |-> {}]

Active == {k \in Key : status[k] = "active"}

Step(c, from, to) == call[c] = from /\ call' = [call EXCEPT ![c] = to]

GoOn(c, from, to) == Step(c, from, to) /\ UNCHANGED note

Return(c, from) == Step(c, from, "idle") /\ note' = [note EXCEPT ![c] = NoNote]

\* Variant: entries do not expire.
FreshForever(entry, time) == entry

\* Entries that have expired are as good as none.
Fresh(entry, time) == IF entry.until > time THEN entry ELSE NoEntry

Tick ==
    /\ now < MaxTime /\ now' = now + 1
    /\ \A c \in Call : call[c] \in {"read", "store"} => now < note[c].begun + MaxLoad
    /\ cache' = [i \in Instance |-> [k \in Key |-> Fresh(cache[i][k], now + 1)]]
    /\ UNCHANGED <<status, revokedAt, calls>>

Drop(i, keys) ==
    cache' = [cache EXCEPT ![i] = [k \in Key |-> IF k \in keys THEN NoEntry
                                                 ELSE cache[i][k]]]

\* A full cache drops its oldest entries.
Evict ==
    /\ \E i \in Instance, k \in Key : Drop(i, {k})
    /\ UNCHANGED <<now, status, revokedAt, calls>>

-----------------------------------------------------------------------------
(* merchantAuth: a request signed with a key that has been handed out *)

Entered(i, k) == [NoNote EXCEPT !.at = i, !.key = k, !.begun = now]

Verdict(hit) == IF hit THEN "accepted" ELSE "refused"

\* getMerchantKeyCache: a live entry, of either kind, is the verdict.
LookUp(c) ==
    \E i \in Instance, k \in Key :
        LET entry == cache[i][k]
        IN  /\ status[k] # "absent"
            /\ Step(c, "idle", IF entry = NoEntry THEN "read" ELSE Verdict(entry.hit))
            /\ note' = [note EXCEPT ![c] = Entered(i, k)]
            /\ UNCHANGED <<now, status, revokedAt, cache>>

ReadKey(c) ==
    /\ Step(c, "read", "store")
    /\ note' = [note EXCEPT ![c].read = note[c].key \in Active]
    /\ UNCHANGED <<now, status, revokedAt, cache>>

\* The secret is decrypted in between; the entry lives from now on, whatever
\* was dropped meanwhile.
StoreEntry(c) ==
    LET n == note[c]
        life == IF n.read THEN Ttl ELSE MissTtl
    IN  /\ GoOn(c, "store", Verdict(n.read))
        /\ cache' = [cache EXCEPT ![n.at][n.key] =
                        Fresh([hit |-> n.read, until |-> now + life], now)]
        /\ UNCHANGED <<now, status, revokedAt>>

Answer(c) ==
    /\ \/ Return(c, "accepted") \/ Return(c, "refused")
    /\ UNCHANGED <<now, status, revokedAt, cache>>

-----------------------------------------------------------------------------
(* Creating a live key revokes the active ones *)

RevokeAll(keys) ==
    /\ status' = [k \in Key |-> IF k \in keys THEN "revoked" ELSE status[k]]
    /\ revokedAt' = [k \in Key |-> IF k \in keys /\ status[k] = "active"
                                   THEN now ELSE revokedAt[k]]

ReadPrior(c) ==
    /\ Step(c, "idle", IF Active = {} THEN "insert" ELSE "revoke_prior")
    /\ \E i \in Instance :
          note' = [note EXCEPT ![c] = [NoNote EXCEPT !.at = i, !.prior = Active]]
    /\ UNCHANGED <<now, status, revokedAt, cache>>

\* The update names no key: it revokes whatever is active by now.
RevokePrior(c) ==
    /\ GoOn(c, "revoke_prior", "drop_prior")
    /\ RevokeAll(Active)
    /\ UNCHANGED <<now, cache>>

DropPrior(c) ==
    /\ Step(c, "drop_prior", "insert")
    /\ note' = [note EXCEPT ![c].prior = {}]
    /\ Drop(note[c].at, note[c].prior)
    /\ UNCHANGED <<now, status, revokedAt>>

InsertKey(c) ==
    /\ Return(c, "insert")
    /\ \E k \in Key : /\ status[k] = "absent"
                      /\ status' = [status EXCEPT ![k] = "active"]
    /\ UNCHANGED <<now, revokedAt, cache>>

-----------------------------------------------------------------------------
(* Revoking one key: DELETE in the portal, PATCH by the provider *)

\* Only the provider's handler looks at the status and stops at a revoked key.
FindKey(c) ==
    \E i \in Instance, k \in Key :
        /\ status[k] # "absent"
        /\ Step(c, "idle", "revoke")
        /\ note' = [note EXCEPT ![c] = [NoNote EXCEPT !.at = i, !.key = k]]
        /\ UNCHANGED <<now, status, revokedAt, cache>>

RevokeKey(c) ==
    /\ GoOn(c, "revoke", "drop")
    /\ RevokeAll({note[c].key})
    /\ UNCHANGED <<now, cache>>

DropKey(c) ==
    /\ Return(c, "drop")
    /\ Drop(note[c].at, {note[c].key})
    /\ UNCHANGED <<now, status, revokedAt>>

-----------------------------------------------------------------------------
Init ==
    /\ now = 0
    /\ status = [k \in Key |-> "absent"]
    /\ revokedAt = [k \in Key |-> Never]
    /\ cache = [i \in Instance |-> [k \in Key |-> NoEntry]]
    /\ call = [c \in Call |-> "idle"]
    /\ note = [c \in Call |-> NoNote]

Next == \/ Tick \/ Evict
        \/ \E c \in Call :
              \/ LookUp(c) \/ ReadKey(c) \/ StoreEntry(c) \/ Answer(c)
              \/ ReadPrior(c) \/ RevokePrior(c) \/ DropPrior(c) \/ InsertKey(c)
              \/ FindKey(c) \/ RevokeKey(c) \/ DropKey(c)

Spec == Init /\ [][Next]_vars

-----------------------------------------------------------------------------
(* Properties *)

\* Every variable has its type.
TypeOK ==
    /\ now \in 0 .. MaxTime
    /\ status \in [Key -> {"absent", "active", "revoked"}]
    /\ revokedAt \in [Key -> 0 .. Never]
    /\ cache \in [Instance -> [Key -> [hit : BOOLEAN,
                                       until : 0 .. MaxTime + Ttl + MissTtl]]]
    /\ call \in [Call -> {"idle", "read", "store", "accepted", "refused",
                          "revoke_prior", "drop_prior", "insert", "revoke", "drop"}]
    /\ note \in [Call -> [at : Instance \cup {"none"}, key : Key \cup {"none"},
                          begun : 0 .. MaxTime, read : BOOLEAN, prior : SUBSET Key]]

\* merchant-key-cache.ts: "multi-instance deployments accept eventual
\* consistency on key revocation within the positive TTL".  A request that
\* begins later than that after the revocation, and than the lookups that were
\* under way at the time, is refused on every process; only revoked keys are.
KeyVerdictIsRecent ==
    \A c \in Call :
        /\ call[c] = "accepted" =>
              note[c].begun < revokedAt[note[c].key] + Ttl + MaxLoad
        /\ call[c] = "refused" => status[note[c].key] = "revoked"

\* api/portal/api-keys.ts: "One active live key".  Two creations revoke first
\* and insert later.
OneActiveLiveKey == \A j, k \in Active : j = k
=============================================================================
