------------------------------ MODULE PayoutPin ------------------------------
(***************************************************************************)
(* The payout PIN of one merchant.  A payout or a change of the PIN reads  *)
(* the merchant's row, compares the PIN, and then clears or raises the     *)
(* count of failures in queries of their own, so calls overlap.  The count *)
(* locks the PIN for a while.  A link sent by email sets it anew.          *)
(***************************************************************************)
EXTENDS Integers

CONSTANTS Call,       \* requests that may be under way at once
          MaxFailed,  \* MAX_FAILED_ATTEMPTS
          LockTime    \* LOCK_MINUTES

VARIABLES configured, \* payout_pin_hash is set
          failed,     \* payout_pin_failed_attempts, counted up to MaxFailed
          locked,     \* what is left of payout_pin_locked_until
          link,       \* there is a reset link that was not used
          call,       \* where each request is
          read        \* the count it has read

pin == <<configured, failed, locked>>
calls == <<call, read>>
vars == <<pin, link, calls>>

Step(c, from, to) == call[c] = from /\ call' = [call EXCEPT ![c] = to]

GoOn(c, from, to) == Step(c, from, to) /\ UNCHANGED read

Tick ==
    /\ locked > 0 /\ locked' = locked - 1
    /\ UNCHANGED <<configured, failed, link, calls>>

-----------------------------------------------------------------------------
(* requireMerchantPayoutPin, changeMerchantPayoutPin *)

\* Variant: the lock is looked at after the PIN was compared and counted.
CheckPinLate(c) ==
    /\ configured
    /\ \E right \in {"clear", "change", "count"} : GoOn(c, "idle", right)
    /\ UNCHANGED <<pin, link>>

\* A PIN that is not set, or locked, is not compared.  A right one lets the
\* payout through, or the change; a wrong one is counted.
CheckPin(c) ==
    /\ configured /\ locked = 0
    /\ \E right \in {"clear", "change", "count"} : GoOn(c, "idle", right)
    /\ UNCHANGED <<pin, link>>

Clear(c) ==
    /\ GoOn(c, "clear", "idle")
    /\ failed' = 0 /\ locked' = 0
    /\ UNCHANGED <<configured, link>>

\* recordPayoutPinFailure: the count is read ...
ReadCount(c) ==
    /\ Step(c, "count", "record")
    /\ read' = [read EXCEPT ![c] = failed]
    /\ UNCHANGED <<pin, link>>

Counted(n) == IF n < MaxFailed THEN n + 1 ELSE n

\* ... and its successor written, with or without a lock, over what is there.
RecordFailure(c) ==
    /\ Step(c, "record", "idle")
    /\ failed' = Counted(read[c])
    /\ locked' = IF failed' >= MaxFailed THEN LockTime ELSE 0
    /\ read' = [read EXCEPT ![c] = 0]
    /\ UNCHANGED <<configured, link>>

-----------------------------------------------------------------------------
(* setMerchantPayoutPin, by the first setup, a change or a reset *)

\* POST /portal/me/payout-pin, if there is no PIN yet.
SetPin(c) ==
    /\ ~configured /\ GoOn(c, "idle", "change")
    /\ UNCHANGED <<pin, link>>

\* createPortalPayoutPinResetToken: older links go.
ForgotPin ==
    /\ configured
    /\ link' = TRUE
    /\ UNCHANGED <<pin, calls>>

\* resetMerchantPayoutPinWithToken: the link is read, the PIN written, and then
\* the link marked as used.
UseLink(c) ==
    /\ link /\ GoOn(c, "idle", "reset")
    /\ UNCHANGED <<pin, link>>

WritePin(c) ==
    /\ GoOn(c, "change", "idle") \/ GoOn(c, "reset", "used")
    /\ configured' = TRUE /\ failed' = 0 /\ locked' = 0
    /\ UNCHANGED link

\* It marks its own link, not one issued meanwhile.
MarkUsed(c) ==
    /\ GoOn(c, "used", "idle")
    /\ link' \in {FALSE, link}
    /\ UNCHANGED pin

-----------------------------------------------------------------------------
Init ==
    /\ configured = FALSE /\ failed = 0 /\ locked = 0
    /\ link = FALSE
    /\ call = [c \in Call |-> "idle"]
    /\ read = [c \in Call |-> 0]

Begin(c) == CheckPin(c) \/ SetPin(c) \/ UseLink(c)

Finish(c) == \/ Clear(c) \/ ReadCount(c) \/ RecordFailure(c)
             \/ WritePin(c) \/ MarkUsed(c)

Next == Tick \/ ForgotPin \/ \E c \in Call : Begin(c) \/ Finish(c)

Spec == Init /\ [][Next]_vars

\* Time passes, and a request that was begun is finished.
FairSpec == /\ Spec /\ WF_vars(Tick)
            /\ \A c \in Call : WF_vars(Finish(c))

-----------------------------------------------------------------------------
(* Properties *)

\* Every variable has its type.
TypeOK ==
    /\ configured \in BOOLEAN /\ link \in BOOLEAN
    /\ failed \in 0 .. MaxFailed /\ locked \in 0 .. LockTime
    /\ call \in [Call -> {"idle", "clear", "change", "count", "record", "reset",
                          "used"}]
    /\ read \in [Call -> 0 .. MaxFailed]

\* A locked PIN is free again after LOCK_MINUTES, however many wrong PINs are
\* tried meanwhile: only failures that were under way can prolong the lock.
LockEnds == []<>(locked = 0)
=============================================================================
