----------------------------- MODULE Idempotency -----------------------------
(***************************************************************************)
(* runIdempotent: the requests of one merchant that carry one              *)
(* Idempotency-Key, and the row of idempotency_keys they meet at.  A       *)
(* client that retries is one more request.  The work is whatever the      *)
(* route does: it may take effect at a provider and throw all the same.    *)
(***************************************************************************)
EXTENDS Naturals

CONSTANTS Request,   \* requests with the key
          Body,      \* bodies they may carry
          None,      \* no body, as in rows written before bodies were hashed
          MaxCrash,  \* bound: requests whose process dies
          MaxError   \* bound: queries that fail

ASSUME IdempotencyAssumption ==
    /\ None \notin Body /\ None \notin Request
    /\ MaxCrash \in Nat /\ MaxError \in Nat

VARIABLES slot,     \* the row: status, hash of the body, stored response
          body,     \* body[r]: the body of request r
          at,       \* where request r is, and in the end its outcome
          answer,   \* answer[r]: the request whose response r replays
          effects,  \* requests whose work took effect
          crashes, errors

limits == <<crashes, errors>>
vars == <<slot, body, at, answer, effects, limits>>

Running == {"new", "losing", "working", "storing", "releasing"}
Outcome == {"fresh", "replay", "body_mismatch", "in_progress", "thrown", "gone"}

\* Requests that run the work, or have run it and not said so yet.
Holding == {"working", "storing", "releasing"}

Absent == [status |-> "absent", body |-> None, response |-> None]

Step(r, from, to) == at[r] = from /\ at' = [at EXCEPT ![r] = to]

-----------------------------------------------------------------------------
\* Variant: INSERT ... ON CONFLICT DO UPDATE takes the slot over.
ClaimOver(r) ==
    /\ Step(r, "new", "working")
    /\ slot' = [status |-> "in_progress", body |-> body[r], response |-> None]
    /\ UNCHANGED <<body, answer, effects, limits>>

\* INSERT ... ON CONFLICT DO NOTHING.
Claim(r) ==
    /\ \/ /\ slot.status = "absent"
          /\ Step(r, "new", "working")
          /\ slot' = [status |-> "in_progress", body |-> body[r],
                      response |-> None]
       \/ /\ slot.status # "absent"
          /\ Step(r, "new", "losing")
          /\ UNCHANGED slot
    /\ UNCHANGED <<body, answer, effects, limits>>

\* Variant: a stored response is replayed whatever the body.
InspectStatusOnly(r) ==
    /\ \/ slot.status = "absent" /\ Step(r, "losing", "new") /\ UNCHANGED answer
       \/ /\ slot.status = "completed"
          /\ Step(r, "losing", "replay")
          /\ answer' = [answer EXCEPT ![r] = slot.response]
       \/ /\ slot.status = "in_progress"
          /\ Step(r, "losing", "in_progress")
          /\ UNCHANGED answer
    /\ UNCHANGED <<slot, body, effects, limits>>

\* Variant: the replay hands out the stored hash.
InspectReturnsHash(r) ==
    /\ slot.status = "completed" /\ slot.body \in {None, body[r]}
    /\ Step(r, "losing", "replay")
    /\ answer' = [answer EXCEPT ![r] = slot.body]
    /\ UNCHANGED <<slot, body, effects, limits>>

\* A request that lost the slot reads the row, which may be gone by now.
Inspect(r) ==
    /\ \/ slot.status = "absent" /\ Step(r, "losing", "new") /\ UNCHANGED answer
       \/ /\ slot.status # "absent" /\ slot.body \notin {None, body[r]}
          /\ Step(r, "losing", "body_mismatch")
          /\ UNCHANGED answer
       \/ /\ slot.status = "completed" /\ slot.body \in {None, body[r]}
          /\ Step(r, "losing", "replay")
          /\ answer' = [answer EXCEPT ![r] = slot.response]
       \/ /\ slot.status = "in_progress" /\ slot.body \in {None, body[r]}
          /\ Step(r, "losing", "in_progress")
          /\ UNCHANGED answer
    /\ UNCHANGED <<slot, body, effects, limits>>

WorkReturns(r) ==
    /\ Step(r, "working", "storing")
    /\ effects' = effects \cup {r}
    /\ UNCHANGED <<slot, body, answer, limits>>

\* A timeout, or an error after the provider was called.
WorkThrows(r) ==
    /\ Step(r, "working", "releasing")
    /\ effects' \in {effects, effects \cup {r}}
    /\ UNCHANGED <<slot, body, answer, limits>>

\* Variant: the error is passed on and the slot kept.
ReleaseNothing(r) ==
    /\ Step(r, "releasing", "thrown")
    /\ UNCHANGED <<slot, body, answer, effects, limits>>

\* The claim is deleted, if the row still is that claim; errors are swallowed.
Release(r) ==
    /\ Step(r, "releasing", "thrown")
    /\ \/ /\ slot' = IF slot.status = "in_progress" /\ slot.body = body[r]
                     THEN Absent ELSE slot
          /\ UNCHANGED errors
       \/ errors < MaxError /\ errors' = errors + 1 /\ UNCHANGED slot
    /\ UNCHANGED <<body, answer, effects, crashes>>

\* The response is stored by key alone; if that fails the request throws, and
\* the slot stays in progress.
Store(r) ==
    /\ \/ /\ Step(r, "storing", "fresh")
          /\ slot' = IF slot.status = "absent" THEN slot
                     ELSE [slot EXCEPT !.status = "completed", !.response = r]
          /\ UNCHANGED errors
       \/ /\ errors < MaxError /\ errors' = errors + 1
          /\ Step(r, "storing", "thrown")
          /\ UNCHANGED slot
    /\ UNCHANGED <<body, answer, effects, crashes>>

ProcessDies(r) ==
    /\ crashes < MaxCrash
    /\ crashes' = crashes + 1
    /\ at[r] \in Running \ {"new"}
    /\ at' = [at EXCEPT ![r] = "gone"]
    /\ effects' \in {effects, effects \cup (IF at[r] = "working" THEN {r} ELSE {})}
    /\ UNCHANGED <<slot, body, answer, errors>>

-----------------------------------------------------------------------------
\* The key is new, or has a completed row without a body hash.
Init ==
    /\ slot \in {Absent, [Absent EXCEPT !.status = "completed"]}
    /\ body \in [Request -> Body]
    /\ at = [r \in Request |-> "new"]
    /\ answer = [r \in Request |-> None]
    /\ effects = {}
    /\ crashes = 0 /\ errors = 0

Proceed(r) ==
    \/ Claim(r) \/ Inspect(r) \/ WorkReturns(r) \/ WorkThrows(r)
    \/ Release(r) \/ Store(r)

Next == \E r \in Request : Proceed(r) \/ ProcessDies(r)

Spec == Init /\ [][Next]_vars

\* A request that runs goes on, unless its process dies.
FairSpec == Spec /\ \A r \in Request : WF_vars(Proceed(r))

-----------------------------------------------------------------------------
(* Properties *)

\* Every variable has its type.
TypeOK ==
    /\ slot \in [status : {"absent", "in_progress", "completed"},
                 body : Body \cup {None}, response : Request \cup {None}]
    /\ body \in [Request -> Body]
    /\ at \in [Request -> Running \cup Outcome]
    /\ answer \in [Request -> Request \cup {None}]
    /\ effects \subseteq Request
    /\ crashes \in 0 .. MaxCrash /\ errors \in 0 .. MaxError

\* Two requests with one key never run the work at the same time, though a
\* third releases the slot between the claim of one and the look of another.
OneAtWork ==
    \A r, s \in Request : at[r] \in Holding /\ at[s] \in Holding => r = s

\* The work returns to at most one client: once it did, the key is used up.
FreshOnce ==
    \A r, s \in Request : at[r] = "fresh" /\ at[s] \in Holding \cup {"fresh"}
                              => r = s

\* A replayed response answers the same body, and its work took effect; a row
\* older than the hashes answers any body.
ReplayIsFaithful ==
    \A r, s \in Request : at[r] = "replay" /\ answer[r] = s
                              => body[s] = body[r] /\ s \in effects

\* Retries with one key take effect once.  The code does not keep this (README):
\* work may throw after its effect, which frees the key.
EffectOnce == \A r, s \in effects : r = s

\* A key in progress is completed or freed, unless the process died or a query
\* failed under it: nothing in the code frees such a key again.
SlotSettles ==
    slot.status = "in_progress"
        ~> slot.status # "in_progress" \/ crashes + errors > 0
=============================================================================
