# Transacty in TLA+

Transacty is a payment platform: merchants take pay-ins and send payouts over several
provider rails (PayOK in Bangladesh and Brazil, Tekko in Nigeria and for PYUSD, Tylt for UPI,
crypto and EUR), hold balances in wallets, and pay fees.  It runs as one or more Node.js
processes over one PostgreSQL database, with Redis beside it.  This directory models the part
of it that moves money, decides who may move it and tells merchants about it, model-checks it
with TLC and proves its central invariants with TLAPS.

Paths below are relative to the repository root.  The library lives in `src/lib`, the schema
in `src/db/schema/index.ts`.

## 1. Inventory

| Component | State it keeps | Operations | What makes it correct |
|---|---|---|---|
| Wallet ledger (`src/lib/billing/fee-applier.ts`, `services/operations/transfers.ts`, `src/lib/billing/monthly-billing.ts`, the transactions of every rail) | `wallets.balance`, `ledger_entries`, row locks | credit, debit, refund, fee, transfer, monthly charge, adjustment, correction | balance = sum of entries; no overdraft; no deadlock; transactions are atomic |
| PayOK payouts (`services/domestic/{bangladesh,brazil}/payout.ts`) | `transactions` row, its entries, the order at PayOK | create, inquiry, provider call, refund, callback, staff patch | one debit, at most one refund, fee only on success, no refund of what was paid |
| PayOK pay-ins (`payin.ts`, `payin-reconcile.ts`) | `transactions` row, wallet opened on demand | create, callback, reconcile | one credit per payment, by whichever of webhook and reconcile comes first |
| Tekko rails (`services/integrations/tekko`) | `transactions`, provider fees, virtual accounts, `merchant_market_compliance` | create, poll, webhook, reconcile, BVN submission, account provisioning | as PayOK; no payout without an accepted BVN; what Tekko settled is applied in the end |
| Tylt rails (`services/integrations/tylt`) | `transactions`, review mark, Tylt's own record | create, callbacks of several bodies, remote decision, manual settlement, reconcile | a refund follows Tylt's record, once, and gives back what the row holds; one credit |
| Inbound webhooks (`src/lib/webhook-events.ts`, `app.ts`) | `webhook_events` | claim, duplicate, processed, failed | a delivery is applied once, and its outcome is not lost |
| Idempotency (`src/lib/idempotency.ts`) | `idempotency_keys` | claim, inspect, work, release, store | the work of a key runs once at a time and its result is replayed |
| Provider approvals (`api/provider/index.ts`) | `provider_action_requests` | queue, approve, reject | executed once, by another person than its maker |
| Portal payout approvals (`src/lib/payout-approvals.ts`) | `portal_payout_approval_requests` | queue, approve, expire, reject | paid at most once, decision final, success never guessed |
| Merchant webhooks and e-mail (`src/lib/merchant-webhook.ts`, `src/server.ts`) | pg-boss jobs, `merchant_webhook_deliveries` | queue, deliver in batches, retry, replay | what counts as delivered was taken by its receiver |
| Outbound calls (`src/lib/outbound-http.ts`, `provider-circuit-breaker.ts`) | failure counts and the open circuit, per process and in Redis | ask, attempt, success, failure | a circuit one process opened is honoured by the others |
| Sessions (`jwt-revocation.ts`, `api/portal/auth.ts`, `api/provider/auth.ts`, `password-reset.ts`) | `jwt_revocations`, session versions, reset tokens, a cache per process | log in, second factor, log out, reset, verify | no verdict is older than its cache allows; no session outlives its password |
| API keys (`merchant-key-cache.ts`, `api/portal/api-keys.ts`) | `merchant_api_keys`, a cache per process | look up, create, revoke | a revoked key is refused once its cache entry is old |
| Payout PIN (`merchant-payout-pin.ts`) | failure count, lock, reset link | check, change, lock, reset | a locked PIN becomes free again |
| Admission (`app.ts`, `api/portal`, `fraud-policy.ts`) | markets, KYC, the payments so far | the checks of every creating route, in their order | what was withdrawn before a request is refused; limits are not exceeded beyond the race |
| Merchant markets (`merchant-markets.ts`) | `merchant_markets`, KYB, wallets made on first use | request, decide, show, enter | an approved market has its wallets |
| Monthly billing (`monthly-billing.ts`) | the month's record and charge | cron run over all merchants | a month is charged once |
| Fees (`src/lib/billing`) | fee schedules | compute, collect | at most once per transaction |

They interact through the database alone, with Redis and the caches of each process as hints:
handlers of concurrent HTTP requests, webhook deliveries, cron jobs and staff calls interleave
at every `await`, under READ COMMITTED.  The hard behaviours are therefore: two transactions
over one wallet row; a row read before and acted upon after other handlers ran; a cache that
answers after the row changed; a provider that acts on a call whose answer is lost; callbacks
repeated, contradicted or overtaking the answer to the call that caused them; and a process
that dies, or a query that fails, between two steps.  `PROJECT.json` lists each at its line
(`hazards`).

## 2. Modules

| Module | What it models | State and actions in terms of the code |
|---|---|---|
| `WalletLedger` | the database transactions that move money | `balance`, `posted`: committed balances and sums of entries; `lockOwner`: row locks; `draft`, `delta`: what an open transaction has written. One action per row lock or unlocked read; `Commit` publishes; `Abort` is a rollback anywhere. |
| `Ledger` | the promise: atomic postings | refined by `WalletLedger!ImplementsLedger`. |
| `PayokPayout` | a PayOK payout from request to final status | `request` is the position in `createPayoutOrder`, `hook` in the webhook route and `handlePayoutCallback`, `order` what PayOK knows. |
| `PayoutOrder` | the promise to the merchant: held, then settled or returned | refined by `PayokPayout!ImplementsPayoutOrder`; `TekkoPayout!ImplementsPayoutOrder` says it of a Tekko payout (proved, in no run). |
| `PayokPayin` | a pay-in, with webhook and staff reconcile racing | `at[p][a]` is the position of either actor in `handlePayinCallback`; `purses` the wallets, in the order they were opened. The transaction that finds no wallet has nothing to lock and takes two actions. The reconcile may also be told FAIL by the inquiry, whatever became of the order (`LookUpDenied`, `ApplyDenial`). |
| `PayinOrder` | the promise: awaited, then credited or failed | refined by `PayokPayin!ImplementsPayinOrder`. |
| `TekkoPayout` | an NGN payout with Tekko's own fee | `at[a]` is the position of the request, the status call or a delivery; `note[a]` what it has read. Each of them charges the provider fee (`ensureTekkoNgnProviderFeeDebited`) before it judges the row. `order` is the payout's own withdrawal, `other` that of another payout of the merchant, and `reference` says which of them the row names: a create answer without a reference is completed from the newest entry of Tekko's list. |
| `TekkoPayin` | an NGN collection, a PYUSD intent or a deposit to a virtual account | `hook[h]` is the position of a delivery, a status call or a reconcile; `mapped` whether an account leads to a merchant. |
| `TekkoVa` | BVN check and account provisioning | `local` and `legacyVa` are the copies, `remote` and `remoteVa` the truth at Tekko; calls read, ask and write back by an upsert. An answer may be an error whose body reads as a status (`Misheard`). |
| `TyltPayin` | CrossRamp, H2H, CPG and EUR pay-ins | `hook[h]` is the position of a callback's handler, `manuals` the manual settlements, which are applied every time. |
| `CpgPayout` | a crypto payout | `says` is what a callback claims, `order` what Tylt's record says when asked; `review` the mark of a contradiction. |
| `EurPayout` | a EUR payout, sent before it is debited | `debited`, `refunded`: what left and what came back; `amount` is what the row holds, `read` what the callback read of it. The callback may come at any point of the request, or after its death. |
| `Idempotency` | `runIdempotent` over one key | `slot` is the row, `at[r]` the request. |
| `ProviderApproval` | staff requests, approve and reject | `call[r][u]` is the position of a call; reads and writes are separate, since neither handler locks the request. |
| `PayoutApproval` | dual control of portal payouts | `call[p][u]` is the position in `approvePortalPayoutRequest`. |
| `PayoutPin` | the PIN's count, lock and link | `call[c]`, `read[c]`: where a check is and the row it read. |
| `Delivery` | the queue of merchant webhooks and e-mails | `job`, `batch`: the queue and what each worker took; `rows`: attempts as the portal shows them; `accepted`: what receivers took. |
| `Revocation`, `Sessions`, `ApiKeys` | tokens, session versions, keys, and the caches over them | `cache[i]` is the cache of process `i`; a lookup reads, asks the table and stores in steps of their own; `now` is a clock. |
| `Admission` | what each creating route checks | `call[c].left` are the checks still to come; `made` the payments. A route is a record of its checks, in the handler's order. |
| `Markets` | entitlements, KYB and wallets | `row`, `kyc`, `wallets`; `note[c]` what a call has read. The platform's pocket may fail to be made, and the call goes on (`SkipPlatform`). |
| `CircuitBreaker` | the circuit in each process and in Redis | `local`, `shared`; `lost` counts failing Redis calls. |
| `Billing` | the monthly cron job | `plan[r]` is the merchant list a run works through, `records` the months billed. |
| `Sums` | `SUM(amount)` of the database | the sum of a function's values, used by `Admission` and `PayokPayin`. |
| `WalletLedgerProofs`, `PayokPayinProofs`, `PayokProofs`, `RequestsProofs`, `PayoutApprovalProofs`, `RailsProofs`, `ServiceProofs`, `AccountsProofs` | theorems and proofs | section 5. |
| `MCWalletLedger`, `MCPayok`, `MCRequests`, `MCRails`, `MCAccounts`, `MCService` | instances for TLC | below. |

Definitions that begin with the comment "Variant:" are no part of a specification.  Each is a
plausible bug in the action after it; replacing that action by it makes TLC violate the
property `PROJECT.json` pairs it with under `mutants`.

### Composition

Components that share state are composed by what they share.  Wallets are shared by all
rails; `WalletLedger` takes every flow of every rail apart into row locks and shows that they
amount to atomic postings, and the modules of the rails therefore take a database transaction
as one step.  Where a transaction does not lock what it reads (Tekko settlements,
approved adjustments, the PayOK pay-in that opens a wallet), the module takes it apart itself
or `WalletLedger` has it among the `UnlockedFlow`.

Modules that share no state are put side by side: an MC module extends one of them, instantiates
the others on variables of their own, and the variable `world` says from the start which one a
behaviour is about.  The others stay where they are, so the states add up and do not multiply.
A property about another world is `world = "..." => ...`; a fairness condition names the variables
of its own world (`WF_PayinsVars(...)`), so that it says the same as in the module.

### Abstractions

* Amounts are integers of cents, as after `toCents`.  Decimal parsing and the arithmetic of fee
  schedules are left out; a fee is a constant of the instance.
* A failure path of a transaction that checks after locking locks, finds the balance too low and
  rolls back in one action.
* A provider answers a create call or not, takes or refuses it, settles it and delivers its
  callback until it is acknowledged; a call that times out may still arrive.  It never changes a
  final outcome, with the exceptions the code leaves room for: Tylt's callbacks may contradict
  its record, an inquiry at PayOK may answer FAIL about any order, and an error of Tekko's status
  call may have a body that reads as a failure (`ngn-payout.ts:1249` and `ngn-va.ts:115` do not
  look at the HTTP status). Errors that read so are counted with the failures (`MaxError`) in
  `TekkoPayout`, which remembers them (`misread`).
* One other payout of the merchant stands for all in `TekkoPayout`. The callbacks of its
  withdrawal have an event row and an acknowledgement of their own; they are repeated at will,
  one at a time and while no other delivery is under way.
* Bangladesh and Brazil differ in the wallet the refund selects: `RefundWallet = {Home}` is
  Brazil, and a Bangladeshi merchant with one wallet.  The Brazilian handlers are mapped to the
  grouped steps (`RequestStep`, `WebhookStep`, `HandleCallback`) of the same modules.
* Caches expire by a clock of at most `MaxTime` ticks; time-to-live constants keep the code's
  order (a miss is kept no longer than a hit, a step-up mark longer than a verdict).
* One user makes one approve call at a time; the same user twice behaves as two users, since the
  calls meet only in the row.
* Audit, logging, response texts and signature checks change none of this state.

## 3. Runs

| Run | Checks | Instance, and why it is enough |
|---|---|---|
| `wallet_ledger` | types, balance = ledger, no overdraft, no circle of waiting sessions, refinement of `Ledger`; and, flow by flow, that each posts what it writes | 3 sessions, 2 customers on either side of the merchant's id (so both lock orders occur), 3 transactions: a lock circle needs at most one session per row of a two-row transaction, a lost update two. Amount 2 against 3 lets a first debit pass and a second fail. In the other world one session runs any three operations of all flows, 2 merchant wallets. |
| `payok` | types, entries match status, told the truth, nothing paid is returned by staff, credited once, both refinements (that of pay-ins with what the wallets hold when two were opened), pending resolves, outcomes applied | 2 payouts of 2 with fee 1 against 5: both pass the check, and the second fee may find the balance gone; unanswered calls, 1 crash and 1 failing query at any step. Beside it: 1 payout with staff and a PayOK that answers; 1 pay-in through crash and failure; 2 pay-ins whose outcome may come before the answer, so that both may open the wallet. |
| `requests` | one fresh answer, faithful replay, slot settles; lock ends; what is shown as delivered was | 4 requests with one key (holder, loser, third, fourth: the chain release - claim - look needs three) and 2 bodies; 3 calls on a PIN with 5 failures allowed, as in the code; 2 events and 2 mails in batches of 2, one receiver down, 1 retry, 1 replay. |
| `payout_approval` | paid once if approved, approved settles | 1 proposal, 4 users (maker and three who race), 2 crashes, 2 failing queries. Proposals do not share state. |
| `rails` | types, entries match status, payouts follow reports, credited once, verified by Tekko, Tekko is followed | one payment per rail, 2 deliveries or callbacks under way at once beside request and status call. Amount 3, provider fee reported as 0 or 2, so that it may be unknown, late or topped up; another payout may spend 2 of 6 meanwhile and lend its reference. EUR amounts 3 and 4 are what was asked and what was quoted. |
| `accounts` | verdicts are recent, sessions know the password, overshoot is bounded, suspension holds | 2 processes, 2 requests, 2 ticks with a cache of 1 and a marker of 2: an answer can be read, stored, expire and be read again. 2 keys, 2 session versions. Admission: 2 requests, one API route and one portal route (together all kinds of checks but the market of the latter), limits of 1, 1 decision of the provider. |
| `service` | maker-checker, peers honour an open circuit, approved has wallets, billed once | 2 requests on one wallet and 3 staff; 2 processes with a threshold of 2 failures and 1 lost Redis call; 1 market, 2 callers, 1 crash; 2 overlapping billing runs over 2 merchants, 2 months, 1 fault. |
| `wallet_tekko_unlocked`, `payok_payout_timeout`, `provider_approval_twice`, `euro_ceiling`, `upi_manual_twice` | expected violations | section 6. |

Bounds: every counter has a named constant (`MaxTransactions`, `MaxCrash`, `MaxError`,
`MaxStumbles`, `MaxFaults`, `MaxLost`, `MaxManual`, `MaxSubmits`, `MaxBlocks`, `MaxChanges`,
`MaxMade`, `MaxTime`, `MaxVersion`, `MaxLoad`, `MaxMonth`, `MaxWallets`, `MaxReplays`), and these
are the only bounds besides the sizes of the sets.  Faults are bounded by 1 or 2 because the
handlers keep nothing in memory from one fault to the next; what a fault leaves behind is in the
row, and any later handler meets it.  Symmetry is used in `accounts` and `service`, which check
no liveness.  Deadlock is not checked: a behaviour ends when all requests are done or the bounds
are used up.  `NoWaitCycle` and the liveness properties say what a deadlock check would.

### Fairness

* `PayokPayout`, `PayokPayin`: a running handler goes on, since Node runs continuations and
  PostgreSQL answers; PayOK answers, settles and delivers until it is acknowledged.
  `OutcomeApplied` also assumes that staff reconcile what stays pending, which the code offers as
  an endpoint and a script and does not schedule.
* `TekkoPayin`: running handlers go on, Tekko delivers until it is acknowledged, and operations
  repair an unmapped account, as the comment in `webhooks.ts` says.
* `TekkoPayout`: only that staff reconcile what stays pending and that a reconcile goes on
  (`PollStep`); the request and the deliveries may hang wherever they are.
* `Idempotency`, `PayoutApproval`: a running call goes on unless its process dies.
* `PayoutPin`: time passes and calls that began end; nobody has to make a call.

Apart from these reconciles and deliveries nobody is assumed to begin, and nothing is strongly
fair.  Liveness is stated only as far as the
code goes: `PendingResolves`, `SlotSettles` and `ApprovedSettles` except behaviours in which a
handler died or a query failed, because nothing resumes a pending PayOK payout, a key in progress
or an approved row after that.

## 4. What the checks show

* **Money.** With the flows that lock, all interleavings amount to atomic postings that never
  overdraw. The code does not lock in the order the docs state, but in one that still admits no
  circle: a fee locks the platform row last, and no flow holds the platform row and waits.
* **Payouts.** Whatever order refund, callbacks, polls and repeated deliveries come in, the
  conditional UPDATEs let exactly one settle the payout, and the wallet shows it. On the Tylt rail
  a callback alone settles nothing: refunds follow the record. A Tekko payout follows, once and
  whoever asks, the withdrawal its reference names, also when that is another payout's; that it is
  its own is not so, and section 6 says how. A failed EUR payout gives back, once, what its
  row held when the callback read it, which is what was debited only if the quote was recorded by
  then.
* **Pay-ins.** Webhook, repeated delivery, status call and reconcile credit a payment once
  between them on every rail, even when two of them open the wallet at once.
* **Tekko.** Whatever Tekko settled under its own reference is applied in the end, through
  failing handlers, because only a processed event is acknowledged and status calls settle too.
* **Idempotency.** The claim by INSERT is enough: the race of release, claim and look never
  gives the work to two requests.
* **Markets.** However approvals, suspensions and first payments overlap, an answered approval
  leaves the merchant all his wallets, although a failure to make the platform's is swallowed.
* **Approvals.** The conditional claim of the portal makes payment exclusive; the provider
  approvals keep maker and checker apart, but do not execute exactly once.
* **Sessions and keys.** The caches answer late by their time-to-live and no more, although a
  lookup may store an answer that is already wrong: the entry's age counts from the read.
* **Limits.** Daily volume, hourly count and platform ceiling are exceeded by at most one
  payment per request that runs at the same time.
* **Delivery.** What the queue calls completed, and the portal shows as a success, was taken by
  its receiver, although one failing delivery sends its whole batch back.

## 5. What is proved

TLAPS proves every invariant that a passing run checks, and all three refinements, for every
number of sessions, wallets, payments, deliveries, processes, requests, users and staff, and for
every amount, fee, time to live and bound. The theorems are about the same specifications the
runs check (`Spec`, or `AllSpec` of the MC module: fairness is not needed). One module holds the
proofs of one MC module; `PayokPayinProofs` is apart because its theorems are used for two sets
of pay-ins, with and without `Prompt`, by INSTANCE.

* `WalletLedgerProofs`: type correctness for all flows; and if `Flow \subseteq LockedFlow`,
  `BalanceMatchesLedger`, `NoOverdraft`, `LockedRowsCurrent` and the refinement
  `ImplementsLedger`. The inductive invariant `Safe` adds to the properties what an open
  transaction knows: it holds exactly the rows its position says, its drafts of them are the
  stored balances plus its own entries, and a draft about to be committed is not negative. Without
  that a commit could be anything. Each action is one lemma; a commit maps to one `Ledger!Post`,
  every other step to a stutter. `NoWaitCycle` holds for all flows but `correct`, those that read
  unlocked included: nobody who waits holds the platform's row, which is what a fee waits for, so
  that a circle could only be of transfers, and along it the ids of the first rows would grow
  forever. The correction of a mis-credited wallet locks the wallets of two merchants as they
  come, and two of them that cross can deadlock; no run has that flow with two merchants.
  `SerialMatchesLedger` holds for all flows, those that do not lock included: what the one session
  has computed is the stored balance plus its own entries, since nobody else commits.
* `PayokProofs`, payouts: if staff do not patch statuses, `EntriesMatchStatus` and
  `ToldTheTruth` and `TerminalIsFinal`; if also `RefundWallet = {Home}`, the refinement
  `ImplementsPayoutOrder`, and for finitely many payouts `FundsExplained`. These hypotheses are
  what section 6 breaks: a patch of the status by staff, a refund to another wallet.
  `EntriesMatchStatus` is inductive by itself, because every writer checks the row in its UPDATE;
  what needs strengthening is the truth told to the merchant: a handler past its own UPDATE
  agrees with PayOK's order, which needs that no callback precedes the order (`InOrder`) and that
  neither order nor row leaves its outcome. With staff, `StaffReturnNothingPaid` needs another
  invariant (`Returnable`): a request about to refund has an order that was refused or never made,
  and a refund entry means the same or that the order was declined.
* `PayokPayinProofs`: `CreditedOnce` and `ToldOnce`, also when PayOK settles before its answer is
  handled; and `TerminalIsFinal` when it does not (`Prompt = FALSE`). The invariant says that an
  open transaction that found no wallet holds a row that is pending and holds it alone (`Opens`),
  and that of two actors only one is past its UPDATE, with a ledger that says what the customer
  did and a merchant not told yet (`Reports`). A reconcile that was told FAIL is past its UPDATE
  too, and has failed the row. Finality rests on a second one (`Awaiting`): a request that waits
  has an order without an outcome and a row that nobody has credited, though such a FAIL may have
  failed it. `PursesExplained`, for any finite set of pay-ins and however many wallets they open,
  follows from what one settlement does to three sums (`Takes`). The refinement
  `ImplementsPayinOrder` takes both: the stage of a pay-in moves with its status, and what the
  merchant holds grows by the payment, less the fee or not. `PayokProofs` carries all this over to
  the pay-ins of `MCPayok`.
* `RailsProofs`: for the rails of Tylt and Tekko `EntriesMatchStatus`, `PayoutsFollowReports`,
  `CreditedOnce`, `VerifiedByTekko`. A Tekko payout implements `PayoutOrder` as far as its own
  row goes (`ImplementsPayoutOrder`: every change of the status is a step of the promise with the
  balance it promises, what Tekko's fee and other payouts take in between aside); and if Tekko
  reports one fee only, what is given back of it was charged (`RailFeeReturnedAsCharged`, which
  section 6 breaks with two). Each rail's invariant says what a handler knows of the provider's
  order at each step; it stays true while the others move, since an order never leaves its
  outcome. Of a Tekko payout `Justified` says it of the withdrawal that the row names (`Watched`):
  one about to settle has seen that one completed, one about to refund has seen it failed, or has
  misread an error; and `Followed` says the same of the row. The reference is what makes this
  inductive: only the request writes it, once, and until it does no delivery and no reconcile
  gets past its first steps. Of a EUR payout it is enough that the callback has read what the row
  held, and that a row with the quote has its debit; nothing orders the callback and the request.
  One hypothesis is needed, and the code owes it to nobody: a UPI pay-in is credited once unless
  it dates from before the change of the settlement currency (`~Legacy`, the run
  `upi_manual_twice`).
* `RequestsProofs`: of idempotency `OneAtWork`, `FreshOnce`, `ReplayIsFaithful`; the invariant
  relates the row to its holder: somebody at work means the row is in progress with his body,
  nobody else holds it, and a completed row names a request whose work took effect. Of
  deliveries `ShownIsTold`: what the queue has given out is told, passed over for want of a
  receiver, or still in the batch of its worker, and the row a worker writes to is the last of
  its own.
* `PayoutApprovalProofs`: type correctness, `PaidOnceIfApproved`, `ExecutedWasPaid`,
  `DecisionIsFinal`. The invariant says that the claim names the one user whose call may be past
  it, and how much was paid at each position.
* `ServiceProofs`: `MakerChecker`, and that a request that moved money is never pending again
  (reads may be stale there; the invariant keeps what staleness cannot break, since the maker of
  a queued request never changes); `PeersHonour` (the window in Redis only moves on, a call keeps
  none that ends later, and past its question to Redis it began outside the one it keeps);
  `ApprovedHasWallets` (the merchant of an approved market has his wallets in it, or a request
  that is making them and still has the missing pockets before it, unless it died; the platform's
  pocket is not promised, since its failure is swallowed); `BilledOnce` (a run that has locked a
  wallet has it alone and knows its balance, which covers the fee; what is recorded of a month
  is what was debited and what the platform received).
* `AccountsProofs`: `VerdictsAreRecent` (a cached "not revoked" is from a lookup that began before
  the row was there, and lives from the beginning of that lookup, which lasts at most `MaxLoad`),
  `SessionsKnowThePassword` (no token of the present version has an old password and none will be
  signed, except while a change of the password is under way), `SuspensionHolds` (what speaks
  against a request is among the checks still to come), `OvershootIsBounded`. The last needs the
  strongest invariant: what the table holds, together with what the requests that passed their
  check will add, is at most the limit and what all requests but one may ask for. A check that
  passes has read the table itself and restores the bound; an insertion moves an amount from the
  requests to the table.

Sums (`Sums`) are numbers of units, cardinalities of a union, and not folds: how a sum changes
with one value then follows from facts about finite sets and needs no induction, which the
prover could not do.

Each proof has the same shape: an inductive invariant, lemmas on what one update changes, one
lemma per action or per group of actions that change the same things, a lemma that splits `Next`,
and theorems that combine them with PTL. In the MC modules the invariant of each world is
conditional on `world`, and a world that is not looked at stays where it is. Assumptions are the
named ASSUMEs of the modules, which TLC evaluates in every run: ids, amounts, times and bounds are
naturals, `None` is no session, merchants and customers are distinct, deliveries are neither the
request nor the status call, a cached answer lives for a while, finitely many requests are under
way and pay-ins made, and one amount is the largest. Where a theorem needs more it says so.

Model-checked only: the liveness properties `PendingResolves`, `OutcomeApplied`, `SlotSettles`,
`LockEnds`, `ApprovedSettles` and `TekkoIsFollowed`, since fairness and ENABLED are outside the
prover. The expected violations of section 6 are TLC's counterexamples.

## 6. Where code and documents part

Checked as runs that must fail (`findings` quotes the lines):

* `wallet_tekko_unlocked`: `docs/MONEY_INVARIANTS.md:36` wants every wallet read locked; the
  Tekko settlements do not lock, and lose a concurrent posting.
* `payok_payout_timeout`: a create call that timed out is refunded, and PayOK pays it.
* `provider_approval_twice`: two approvals both execute a request.
* `euro_ceiling`: the EUR ceiling sums rows in EUR, and EUR payouts are stored in USDC.
* `upi_manual_twice`: a manual success applied twice moves one credit of the former settlement
  currency twice (a row from before the change of currency, `Legacy = TRUE`).

Not among the runs; the module keeps the property, and TLC finds these in seconds to a minute
with the constants named, the others as in the `.cfg` of the module's run:

| Rule | Stated in | Property and constants | What the code does |
|---|---|---|---|
| two wallets are locked lowest id first | `docs/MONEY_INVARIANTS.md:40` | `WalletLedger!LowestIdFirst`, `Flow = {"payin"}` | `fee-applier.ts:72` locks the platform last whatever its id |
| no overdraft | `.cursor/rules/10-money-invariants.mdc:11` | `WalletLedger!NoOverdraft`, `Flow = {"correct", "payout"}`, two merchant wallets | `payin-reconcile.ts:240` debits unchecked |
| approved adjustments lock | `docs/MONEY_INVARIANTS.md:36` | `WalletLedger!BalanceMatchesLedger`, `Flow = {"approveAdjust", "payin"}` | `api/provider/index.ts:2969` |
| no silent missing fee | `.cursor/rules/10-money-invariants.mdc:14` | `PayokPayout!FeeCollected`, 2 payouts | `fee-applier.ts:56` skips it |
| a duplicate was processed earlier | `src/lib/webhook-events.ts:34` | `PayokPayout!DuplicateWasProcessed`, `MaxError = 1` | `app.ts:1199` answers any duplicate |
| a failed payout balances its debit | `services/domestic/bangladesh/payout.ts:9` | `PayokPayout!FundsExplained`, `RefundWallet = {Home, Other}` | `payout.ts:95` selects a wallet of any currency |
| pending changes by a conditional UPDATE only | `docs/MONEY_INVARIANTS.md:20` | `PayokPayout!TerminalIsFinal`, `Staff = TRUE`; `PayokPayin!TerminalIsFinal`, `Prompt = TRUE` | `api/provider/index.ts:2725`, `payin.ts:85` |
| one wallet per currency | `docs/PORTAL_FRONTEND_SPEC.md:434` | `PayokPayin!OneWallet`, 2 pay-ins; `Markets!OneWalletEach` | wallets are inserted without a unique index |
| a create can be retried without charging twice | `docs/MERCHANT_BRAZIL_PIX_INTEGRATION.md:43` | `Idempotency!EffectOnce` | `idempotency.ts:236` frees the key of work that may have taken effect |
| a key lives 24 h | `docs/CTO_TECHNICAL_OVERVIEW.md:287` | `Idempotency!SlotSettles` without its exception, `MaxCrash = 1` | `expires_at` is written and never read |
| only pending requests are rejected | `api/provider/index.ts:3119` | `ProviderApproval!RejectedFromPending` | the UPDATE has no condition |
| the provider fee is debited once, whoever calls | `services/integrations/tekko/ngn-payout.ts` (`ensureTekkoNgnProviderFeeDebited`) | `TekkoPayout!RailFeeChargedOnce` | `ngn-payout.ts:586` sums before it locks |
| a refund returns the provider fee that was charged | the same file | `TekkoPayout!RailFeeReturnedAsCharged`, `RailFee = {0, 1, 2}` | the stored fee counts if it is larger |
| refund and callback are safe in either order; so a EUR refund returns what was debited | `docs/MONEY_INVARIANTS.md:77` | `EurPayout!ReturnsWhatItTook`, `MaxError = 0` | `eur-payout.ts:390` refunds what the row holds: before the debit, or before the quote is recorded (also if the request died there) |
| what Tekko pays is not given back, and what counts as paid was paid | `docs/MONEY_INVARIANTS.md:77` | `TekkoPayout!ReturnedOnlyIfUnpaid`, 1 delivery, `MaxError = 0` | `ngn-payout.ts:1086` takes the newest withdrawal's reference, which may be another payout's |
| an approved market has the platform's pocket as well, so that its fees are taken | `.cursor/rules/10-money-invariants.mdc:14` | `Markets!PlatformHasWallets`, `MaxCrashes = 0` | `merchant-markets.ts:474` swallows a failure to make it |
| a blocked BVN stays blocked until it is submitted again | `services/integrations/tekko/ngn-va.ts` | `TekkoVa!BlockHolds` | `ngn-va.ts:115` writes a late answer over it |
| every payment has an approved market | `docs/CTO_TECHNICAL_OVERVIEW.md` | `Admission!MarketIsApproved` | the portal's Bangladesh routes do not ask |
| a board shows as ready only what can be used | `src/lib/merchant-markets.ts` | `Markets!ReadyIsUsable` | the board and the API ask different rows |
| a merchant has one active live key | `api/portal/api-keys.ts` | `ApiKeys!OneActiveLiveKey` | `api-keys.ts:169` revokes and inserts in separate queries |
| a revoked session is refused at once | `src/lib/jwt-revocation.ts` | `Revocation!RevocationSeenAtOnce` | another process, or a lookup under way, still answers from its cache |
| a job given up was sent at least once | `src/server.ts` | `Delivery!GivenUpWasSent` | `server.ts:45` retries the batch, jobs behind a failing one are counted too |

Three more cases are allowed by the properties and worth knowing.

* When the create call's answer has no reference and the list of withdrawals yields none,
  `ngn-payout.ts:1100` stores the idempotency key in its place; Tekko's callback then finds no
  payout and is acknowledged as processed, and the payout stays pending with the money taken until
  somebody repairs the reference. `SettledIsApplied` therefore speaks of payouts whose own
  reference is known.
* When the list yields the reference of another payout that has not recorded its own yet, the
  two change places: this payout follows the other's withdrawal, and the other one is refused by
  the unique index when it records (`RecordRefused` shows that side) and stays pending.
* A FAIL of PayOK's inquiry fails a pay-in whose order is still open (`payin-reconcile.ts:55`); a
  payment that comes afterwards is acknowledged and not credited. `CreditedOnce` and
  `OutcomeApplied` allow that: the row has an outcome, and the merchant is told it failed.

## 7. Plan

Done: the modules of section 2. What would add most next:

1. More proofs of which properties of section 6 hold under which restriction (done for the
   locks and balances of `WalletLedger`, for `TerminalIsFinal`, `FundsExplained` and
   `RailFeeReturnedAsCharged`).
2. Fee arithmetic (`fee-calculator.ts`, `money.ts`) as functions over bounded inputs against a
   reference definition.
3. The approval of EUR payouts and `internal-transfer.ts`; disputes of CrossRamp pay-ins.
4. A composition of `Idempotency` with one rail, to state what a retried create charges.

## 8. Not modelled, and why

* Crypto, audit, e-mail texts, reports and presentation: pure functions and output, no state the
  money depends on. FX rates and spread: quotes, computed from what a provider reports.
* The portal and provider APIs outside the handlers above parse, authorise and read; user
  management, sign-up and enrolment of a second factor write rows that no payment reads between
  two of its steps.
* How a fee is computed (percentages, bounds, rounding) is a pure function of one schedule; the
  runs take fees as constants, and only when and how often they are taken is modelled.
* Limits on the amount of a single payment refuse before anything is written. A deposit to a
  virtual account that is outside them (`ngn-va.ts:691`) is refused at every delivery and never
  credited; the deposits of `TekkoPayin` are inside.
* A crash between the write of a new password and the bump of the session version
  (`password-reset.ts:142`) is not a step of `Sessions`.
* Rate limits per client address, IP rules, request signatures and headers refuse before anything
  is written. The pause of the Bangladesh rail is one setting and appears as a refusal.
* The size of the connection pool, of Redis and of the queue is out of TLC's reach except as a
  small bound; a fee lookup that takes a second connection inside a transaction
  (`fee-schedules.ts:59`) is therefore only noted here.
