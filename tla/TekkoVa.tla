------------------------------ MODULE TekkoVa -------------------------------
(***************************************************************************)
(* A merchant's standing with Tekko: the BVN check that payouts require,   *)
(* and the permanent NGN account.  Both have a truth at Tekko and a copy in *)
(* merchant_market_compliance, or, before the migration, in the merchant's  *)
(* own columns.  Every call reads the copy, asks Tekko, and writes the copy *)
(* by an upsert without a condition; calls overlap.                         *)
(***************************************************************************)
EXTENDS Integers

CONSTANTS Caller,      \* calls that may be under way at once
          MaxSubmits,  \* bound: BVN submissions
          MaxBlocks    \* bound: payouts that Tekko refuses for the BVN

VARIABLES local,       \* the compliance row; .there is FALSE before the first
          legacyVa,    \* the merchant's columns hold the account
          linked,      \* merchant_provider_links has the Tekko customer
          remote,      \* the BVN status at Tekko
          remoteVa,    \* Tekko has opened the account
          call,        \* where each call is
          note,        \* what it is for, has read and was answered
          submits,     \* BVN submissions so far
          blocks,      \* payouts refused for the BVN so far
          blocked,     \* history: refused, and neither submitted nor synced since
          accepted     \* history: Tekko has verified the merchant at some time

copy == <<local, legacyVa, linked>>
truth == <<remote, remoteVa>>
calls == <<call, note>>
vars == <<copy, truth, calls, submits, blocks, blocked, accepted>>

Bvn == {"not_submitted", "pending", "verified", "failed"}

\* What an error answer reads as: its HTTP status is not looked at, and a body
\* without a known status counts as "not_submitted".
Misheard == {"not_submitted", "failed"}

Purpose == {"account", "payout", "submit", "ops"}

NoNote == [for |-> "none", read |-> "not_submitted", answer |-> "not_submitted"]

CallStep(c, from, to) == call[c] = from /\ call' = [call EXCEPT ![c] = to]

GoOn(c, from, to) == CallStep(c, from, to) /\ UNCHANGED note

Return(c, from) == CallStep(c, from, "idle") /\ note' = [note EXCEPT ![c] = NoNote]

\* getNigeriaMarketCompliance: the row hides the legacy columns.
LocalVa == IF local.there THEN local.va ELSE legacyVa

\* The upserts of a status and of an account leave the other column alone; the
\* one that inserts the row leaves it empty.
WriteBvn(s) == local' = [local EXCEPT !.there = TRUE, !.bvn = s]

WriteVa == local' = [local EXCEPT !.there = TRUE, !.va = TRUE]

-----------------------------------------------------------------------------
(* submitMerchantNgnBvn *)

\* The submission is saved as pending before Tekko hears of it.
Submit(c) ==
    /\ submits < MaxSubmits /\ submits' = submits + 1
    /\ CallStep(c, "idle", "customer")
    /\ note' = [note EXCEPT ![c].for = "submit"]
    /\ WriteBvn("pending") /\ blocked' = FALSE
    /\ UNCHANGED <<legacyVa, linked, truth, blocks, accepted>>

\* ensureTekkoCustomerForMerchant: the key of the request is the merchant's, so
\* the customer is the same however often it is asked for.
EnsureCustomer(c) ==
    /\ \/ linked' = TRUE /\ GoOn(c, "customer", "verify")
       \/ UNCHANGED linked /\ ~linked /\ Return(c, "customer")
    /\ UNCHANGED <<local, legacyVa, truth, submits, blocks, blocked, accepted>>

\* Tekko verifies at once, later, or never; it may refuse to look at it (a
\* failure that is recorded), or the call throws.
VerifyAnswered(c) ==
    /\ \/ /\ remote' \in {"pending", "verified", "failed"}
          /\ CallStep(c, "verify", IF remote' = "pending" THEN "poll" ELSE "write")
          /\ note' = [note EXCEPT ![c].answer = remote']
          /\ UNCHANGED local
       \/ Return(c, "verify") /\ WriteBvn("failed") /\ UNCHANGED remote
       \/ Return(c, "verify") /\ UNCHANGED <<local, remote>>
    /\ accepted' = (accepted \/ remote' = "verified")
    /\ UNCHANGED <<legacyVa, linked, remoteVa, submits, blocks, blocked>>

\* The poll stops at an answer other than pending, or gives up; or the call
\* throws, and the copy stays pending.
PollBvn(c) ==
    /\ \/ /\ CallStep(c, "poll", "write")
          /\ \E a \in {remote} \cup Misheard : note' = [note EXCEPT ![c].answer = a]
       \/ Return(c, "poll")
    /\ UNCHANGED <<copy, truth, submits, blocks, blocked, accepted>>

\* Variant: a poll that gave up counts as a verification.
RecordAnyBvn(c) ==
    /\ WriteBvn(note[c].answer)
    /\ IF note[c].answer \in {"verified", "pending"} THEN GoOn(c, "write", "look")
                                                   ELSE Return(c, "write")
    /\ UNCHANGED <<legacyVa, linked, truth, submits, blocks, blocked, accepted>>

RecordBvn(c) ==
    /\ WriteBvn(note[c].answer)
    /\ IF note[c].answer = "verified" THEN GoOn(c, "write", "look")
                                      ELSE Return(c, "write")
    /\ UNCHANGED <<legacyVa, linked, truth, submits, blocks, blocked, accepted>>

\* Tekko makes up its mind.
TekkoDecides ==
    /\ remote = "pending"
    /\ remote' \in {"verified", "failed"}
    /\ accepted' = (accepted \/ remote' = "verified")
    /\ UNCHANGED <<copy, remoteVa, calls, submits, blocks, blocked>>

-----------------------------------------------------------------------------
(* The refresh of the copy: syncMerchantTekkoBvnStatusFromRemote and the       *)
(* forced sync of operations                                                   *)

\* The account page, the check before a payout, and operations read the copy.
ReadLocal(c) ==
    /\ \E p \in {"account", "payout", "ops"} :
          note' = [note EXCEPT ![c] = [NoNote EXCEPT !.for = p,
                                                     !.read = local.bvn]]
    /\ CallStep(c, "idle", "ask")
    /\ UNCHANGED <<copy, truth, submits, blocks, blocked, accepted>>

\* A merchant that Tekko does not know, or a call that throws, leaves the copy
\* as the answer; only operations notice an error answer, and do the same.
AskRemote(c) ==
    /\ CallStep(c, "ask", "apply")
    /\ \/ note' = [note EXCEPT ![c].answer = note[c].read]
       \/ /\ linked
          /\ \E a \in {remote} \cup IF note[c].for = "ops" THEN {} ELSE Misheard :
                note' = [note EXCEPT ![c].answer = a]
    /\ UNCHANGED <<copy, truth, submits, blocks, blocked, accepted>>

\* A failure that is recorded here stays although Tekko reads verified.
Kept(n) == n.for # "ops" /\ n.read = "failed" /\ n.answer = "verified"

Believed(n) == IF Kept(n) THEN n.read ELSE n.answer

\* Where each call goes with the status it believes.
AfterSync(n) ==
    CASE n.for = "account" -> "look"
      [] n.for = "payout" /\ Believed(n) = "verified" -> "payout"
      [] OTHER -> "idle"

\* The copy is written if the answer differs from what was read.
ApplySync(c) ==
    /\ IF note[c].answer = note[c].read \/ Kept(note[c])
       THEN UNCHANGED local ELSE WriteBvn(note[c].answer)
    /\ blocked' = (blocked /\ ~(note[c].for = "ops"))
    /\ IF AfterSync(note[c]) = "idle" THEN Return(c, "apply")
       ELSE GoOn(c, "apply", AfterSync(note[c]))
    /\ UNCHANGED <<legacyVa, linked, truth, submits, blocks, accepted>>

-----------------------------------------------------------------------------
(* What a verified merchant may do *)

\* The copy is read again: an account that is here is shown, whatever the
\* status; without one, a merchant who is not verified is turned away.
LookAtCopy(c) ==
    /\ IF ~LocalVa /\ (note[c].for = "submit" \/ Believed(note[c]) = "verified")
       THEN GoOn(c, "look", "account") ELSE Return(c, "look")
    /\ UNCHANGED <<copy, truth, submits, blocks, blocked, accepted>>

\* The account is fetched, or opened, and recorded; or that fails on the way.
ProvisionVa(c) ==
    /\ Return(c, "account")
    /\ \/ linked' = TRUE /\ remoteVa' = TRUE /\ WriteVa
       \/ linked' = TRUE /\ remoteVa' \in {remoteVa, TRUE} /\ UNCHANGED local
       \/ UNCHANGED <<local, linked, remoteVa>>
    /\ UNCHANGED <<legacyVa, remote, submits, blocks, blocked, accepted>>

\* The payout goes out; or Tekko refuses it for the BVN, and the copy says
\* failed until the BVN is submitted again.
SendPayout(c) ==
    /\ Return(c, "payout")
    /\ \/ UNCHANGED <<local, blocks, blocked, accepted>>
       \/ /\ blocks < MaxBlocks /\ blocks' = blocks + 1
          /\ WriteBvn("failed") /\ blocked' = TRUE
    /\ UNCHANGED <<legacyVa, linked, truth, submits, accepted>>

-----------------------------------------------------------------------------
\* A merchant from before the migration has its account in the old columns.
Init ==
    /\ legacyVa \in BOOLEAN
    /\ local = [there |-> FALSE, va |-> FALSE,
                bvn |-> IF legacyVa THEN "verified" ELSE "not_submitted"]
    /\ linked = legacyVa
    /\ remote = IF legacyVa THEN "verified" ELSE "not_submitted"
    /\ remoteVa = legacyVa
    /\ call = [c \in Caller |-> "idle"]
    /\ note = [c \in Caller |-> NoNote]
    /\ submits = 0 /\ blocks = 0 /\ blocked = FALSE /\ accepted = legacyVa

Work(c) ==
    \/ EnsureCustomer(c) \/ VerifyAnswered(c) \/ PollBvn(c) \/ RecordBvn(c)
    \/ AskRemote(c) \/ ApplySync(c) \/ LookAtCopy(c) \/ ProvisionVa(c)
    \/ SendPayout(c)

Next == \/ TekkoDecides
        \/ \E c \in Caller : Submit(c) \/ ReadLocal(c) \/ Work(c)

Spec == Init /\ [][Next]_vars

-----------------------------------------------------------------------------
(* Properties *)

\* Every variable has its type.
TypeOK ==
    /\ local \in [there : BOOLEAN, va : BOOLEAN, bvn : Bvn]
    /\ {legacyVa, linked, remoteVa, blocked, accepted} \subseteq BOOLEAN
    /\ remote \in Bvn
    /\ call \in [Caller -> {"idle", "customer", "verify", "poll", "write",
                            "ask", "apply", "look", "account", "payout"}]
    /\ note \in [Caller -> [for : Purpose \cup {"none"}, read : Bvn,
                            answer : Bvn]]
    /\ submits \in 0 .. MaxSubmits /\ blocks \in 0 .. MaxBlocks

\* ngn-va.ts: "Keep payout-blocked / failed until merchant POSTs BVN again":
\* after Tekko refused a payout for the BVN the copy does not say verified until
\* the merchant submits again or operations sync.
BlockHolds == blocked => local.bvn # "verified"

\* A payout is only tried, and an account only opened or held, for a merchant
\* that Tekko has verified at some time: no refresh, submission, stale answer,
\* error answer or query that throws makes up a verification.
VerifiedByTekko ==
    /\ \A c \in Caller : call[c] \in {"payout", "account"} => accepted
    /\ LocalVa => accepted

\* The account that is shown is one that Tekko has opened.
AccountIsReal == LocalVa => remoteVa
=============================================================================
