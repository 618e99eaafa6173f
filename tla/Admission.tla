------------------------------ MODULE Admission ------------------------------
(***************************************************************************)
(* What a request must pass before it creates a payment: the merchant's    *)
(* KYC and status, the entitlement of the market, the platform's ceiling   *)
(* and the fraud policy.  Every check reads the tables at a moment of its  *)
(* own, the payment is inserted after the last, and meanwhile the provider *)
(* changes its mind and other requests pass the same checks.               *)
(*                                                                         *)
(* One merchant, live environment, KYC_REQUIRED, KYB of markets left out,  *)
(* all payments within one hour and to one recipient.                      *)
(***************************************************************************)
EXTENDS Integers, Sequences, FiniteSets, FiniteSetsExt, Sums

CONSTANTS Call,       \* requests that may be under way at once
          Used,       \* bound: paths that are called
          KeyScope,   \* scopes of the merchant's API key
          Amount,     \* amounts asked for
          Mode,       \* PAYOUT_VELOCITY_MODE: "monitor", "block" or "review"
          Ceiling,    \* PAYOUT_VELOCITY_CEILING, 0 for none
          DailyLimit, \* FRAUD_MAX_PAYOUT_AMOUNT_PER_DAY_BDT, 0 for none
          PerRecipient, \* FRAUD_MAX_PAYOUTS_PER_RECIPIENT_PER_DAY, 0 for none
          PayinsPerHour, \* FRAUD_MAX_PAYINS_PER_HOUR, 0 for none
          Cooling,    \* whether FRAUD_COOLING_PERIOD_HOURS is set
          MaxMade,    \* bound: payments
          MaxChanges  \* bound: decisions of the provider

VARIABLES market,  \* entitlement of each market
          account, \* status and KYC of the merchant
          made,    \* payments, in the order of their creation
          call,    \* the route, amount and remaining checks of each request
          changes  \* bound

vars == <<market, account, made, call, changes>>

-----------------------------------------------------------------------------
(* The routes: what each handler checks, in its order, and what it creates *)

Route(path, for, door, scope, place, currency, checks) ==
    [path |-> path, for |-> for, door |-> door, scope |-> scope, place |-> place,
     asked |-> currency, stored |-> currency, checks |-> checks]

\* requireKycAndMarket, after the key's scope.
Api(path, for, scope, place, currency) ==
    Route(path, for, "api", scope, place, currency, <<"kyc", "market", "market_kyc">>)

\* requirePortal...Access, after the guards on role, step-up, key and PIN.
Portal(path, for, place, currency) ==
    Route(path, for, "portal", "none", place, currency,
          <<"account", "market", "market_kyc">>)

\* Variant: only payouts are policed.
PolicePayouts(route) ==
    [route EXCEPT !.checks = IF route.for = "payout"
                             THEN @ \o <<"cooling", "recipient", "daily">> ELSE @]

\* Only the PayOK rails ask the fraud policy, first thing in their create.
Policed(route) ==
    [route EXCEPT !.checks = @ \o IF route.for = "payout"
                                  THEN <<"cooling", "recipient", "daily">>
                                  ELSE <<"hourly">>]

\* evaluatePortalPayoutGate
Gated(route) == [route EXCEPT !.checks = Append(@, "velocity")]

\* The entitlement of the market is not among the checks.
Unlisted(route, checks) == [route EXCEPT !.checks = checks]

V1Payins ==
    Policed(Api("/v1/payins", "payin", "payin:create", "bangladesh", "BDT"))
V1BrPayins ==
    Policed(Api("/v1/br/payins", "payin", "payin:create", "brazil", "BRL"))
V1H2hPayins ==
    Api("/v1/h2h/payin-instances", "payin", "payin:create", "india", "USDT")
V1H2hConfirm ==
    Api("/v1/h2h/buyer-confirms-payment", "confirm", "payin:create", "india", "USDT")
V1CpgPayins ==
    Api("/v1/cpg/payin-requests", "payin", "payin:create", "india", "USDT")
V1CpgPayouts ==
    Api("/v1/cpg/payout-requests", "payout", "payout:create", "india", "USDT")
V1EurPayins ==
    Api("/v1/eur/payin-instances", "payin", "payin:create", "europe", "USDC")
V1EurPayouts ==
    Api("/v1/eur/payout-instances", "payout", "payout:create", "europe", "USDC")
V1EurApprove ==
    Api("/v1/eur/payout-instances/approve", "confirm", "payout:create", "europe", "USDC")
V1PyusdIntents ==
    Api("/v1/pyusd/payment-intents", "payin", "payin:create", "pyusd", "PYUSD")
V1NgnAccount ==
    Api("/v1/ngn/virtual-account", "account", "payin:create", "nigeria", "NGN")
V1NgnPayouts ==
    Api("/v1/ngn/payouts", "payout", "payout:create", "nigeria", "NGN")
V1InternalTransfer ==
    Api("/v1/internal-transfer", "transfer", "internal_transfer:create", "india", "USDT")
V1Payouts ==
    Policed(Api("/v1/payouts", "payout", "payout:create", "bangladesh", "BDT"))
V1BrPayouts ==
    Policed(Api("/v1/br/payouts", "payout", "payout:create", "brazil", "BRL"))
V1Wallets ==
    Api("/v1/wallets", "wallet", "wallets:create", "bangladesh", "BDT")
V1Transfers ==
    Api("/v1/transfers", "transfer", "transfer:create", "bangladesh", "BDT")

PortalPayins ==
    Policed(Unlisted(Portal("/portal/me/payins", "payin", "bangladesh", "BDT"),
                     <<"kyc", "account">>))
PortalPayouts ==
    Policed(Gated(Unlisted(Portal("/portal/me/payouts", "payout", "bangladesh", "BDT"),
                           <<"account">>)))
PortalBrPayins ==
    Policed(Portal("/portal/me/br/payins", "payin", "brazil", "BRL"))
PortalBrPayouts ==
    Policed(Gated(Portal("/portal/me/br/payouts", "payout", "brazil", "BRL")))
PortalCpgPayouts ==
    Gated(Portal("/portal/me/cpg/payout-requests", "payout", "india", "USDT"))
\* The gate is asked in euros, the payout is stored in what it settles in.
PortalEurPayouts ==
    [Gated(Portal("/portal/me/eur/payout-instances", "payout", "europe", "EUR"))
        EXCEPT !.stored = "USDC"]
PortalEurApprove ==
    Portal("/portal/me/eur/payout-instances/approve", "confirm", "europe", "EUR")
PortalNgnAccount ==
    Portal("/portal/me/ngn/virtual-account", "account", "nigeria", "NGN")
PortalNgnPayouts ==
    Gated(Portal("/portal/me/ngn/payouts", "payout", "nigeria", "NGN"))
PortalH2hPayins ==
    Portal("/portal/me/h2h/payin-instances", "payin", "india", "USDT")
PortalH2hConfirm ==
    Portal("/portal/me/h2h/buyer-confirms-payment", "confirm", "india", "USDT")
PortalPyusdIntents ==
    Portal("/portal/me/pyusd/payment-intents", "payin", "pyusd", "PYUSD")

Routes ==
    {V1Payins, V1BrPayins, V1H2hPayins, V1H2hConfirm, V1CpgPayins, V1CpgPayouts,
     V1EurPayins, V1EurPayouts, V1EurApprove, V1PyusdIntents, V1NgnAccount,
     V1NgnPayouts, V1InternalTransfer, V1Payouts, V1BrPayouts, V1Wallets,
     V1Transfers, PortalPayins, PortalPayouts, PortalBrPayins, PortalBrPayouts,
     PortalCpgPayouts, PortalEurPayouts, PortalEurApprove, PortalNgnAccount,
     PortalNgnPayouts, PortalH2hPayins, PortalH2hConfirm, PortalPyusdIntents}

Market == {"bangladesh", "brazil", "india", "europe", "pyusd", "nigeria"}

-----------------------------------------------------------------------------
Idle == [path |-> "none", amount |-> 0, left |-> <<>>, barred |-> {}]

RouteOf(c) == CHOOSE r \in Routes : r.path = call[c].path

\* What speaks against a payment in a market.
Bars(entitlement, of) ==
    {b \in {"market", "kyc", "status"} :
        \/ b = "market" /\ entitlement # "approved"
        \/ b = "kyc" /\ of.kyc # "verified"
        \/ b = "status" /\ of.status # "active"}

\* The rows of a purpose, and those in some currencies.
Of(for) == {i \in DOMAIN made : made[i].for = for}
In(currencies) == {i \in DOMAIN made : made[i].currency \in currencies}

\* SUM(amount) over rows of the table.
Volume(rows) == SumOf([i \in rows |-> made[i].amount])

Counts(o) == o.for = "payout" /\ o.status \in {"pending", "success"}

Total(currency) == Volume({i \in In({currency}) : Counts(made[i])})

-----------------------------------------------------------------------------
(* A request *)

Begin(c) ==
    /\ call[c].path = "none"
    /\ \E r \in Routes, amount \in Amount :
          /\ r.path \in Used
          /\ r.door = "api" => {r.scope, "*"} \cap KeyScope # {}
          /\ call' = [call EXCEPT ![c] =
                [path |-> r.path, amount |-> amount, left |-> r.checks,
                 barred |-> Bars(market[r.place], account)]]
    /\ UNCHANGED <<market, account, made, changes>>

\* A check lets the request pass on its amount and what is in the tables.
Passes(check, route, amount) ==
    CASE check \in {"kyc", "market_kyc"} -> account.kyc = "verified"
      [] check = "account" -> account = [status |-> "active", kyc |-> "verified"]
      [] check = "market" -> market[route.place] = "approved"
      [] check = "velocity" ->
            \/ Ceiling = 0 \/ Mode = "monitor"
            \/ Total(route.asked) + amount <= Ceiling
      [] check = "cooling" ->
            Cooling => \A i \in Of("payin") \cap In({"BDT"}) : made[i].status # "success"
      [] check = "recipient" ->
            PerRecipient > 0 =>
                Cardinality(Of("payout") \cap In({"BDT", "BRL"})) < PerRecipient
      [] check = "daily" ->
            DailyLimit > 0 => Total("BDT") + amount <= DailyLimit
      [] check = "hourly" ->
            PayinsPerHour > 0 => Cardinality(Of("payin")) < PayinsPerHour

\* Variant: the market is not asked once the merchant's KYC is in order.
CheckBlindly(c) ==
    LET n == call[c]
    IN  /\ n.left # <<>>
        /\ IF Passes(Head(n.left), RouteOf(c), n.amount)
           THEN call' = [call EXCEPT ![c].left =
                            IF Head(n.left) = "kyc" THEN Tail(Tail(@)) ELSE Tail(@)]
           ELSE call' = [call EXCEPT ![c] = Idle]
        /\ UNCHANGED <<market, account, made, changes>>

Check(c) ==
    LET n == call[c]
    IN  /\ n.left # <<>>
        /\ IF Passes(Head(n.left), RouteOf(c), n.amount)
           THEN call' = [call EXCEPT ![c].left = Tail(@)]
           ELSE call' = [call EXCEPT ![c] = Idle]
        /\ UNCHANGED <<market, account, made, changes>>

\* The payment, if that is what the route is for, is inserted.
Create(c) ==
    LET n == call[c]
        r == RouteOf(c)
    IN  /\ n.path # "none" /\ n.left = <<>>
        /\ IF r.for \in {"payin", "payout"}
           THEN /\ Len(made) < MaxMade
                /\ made' = Append(made,
                      [for |-> r.for, door |-> r.door, asked |-> r.asked,
                       currency |-> r.stored, amount |-> n.amount,
                       status |-> "pending"])
           ELSE UNCHANGED made
        /\ call' = [call EXCEPT ![c] = Idle]
        /\ UNCHANGED <<market, account, changes>>

-----------------------------------------------------------------------------
(* Meanwhile *)

\* Variant: a payment that comes back has a status of its own.
SettleOrReturn ==
    /\ \E i \in DOMAIN made, status \in {"success", "failed", "returned"} :
          /\ made[i].status = "pending"
          /\ made' = [made EXCEPT ![i].status = status]
    /\ UNCHANGED <<market, account, call, changes>>

Settle ==
    /\ \E i \in DOMAIN made, status \in {"success", "failed"} :
          /\ made[i].status = "pending"
          /\ made' = [made EXCEPT ![i].status = status]
    /\ UNCHANGED <<market, account, call, changes>>

\* PATCH of a market, of the KYC status and of the status of the merchant.
\* History: what no longer speaks against a request that is under way.
Decide ==
    /\ changes < MaxChanges /\ changes' = changes + 1
    /\ \/ /\ \E m \in Market, e \in {"approved", "suspended"} :
                /\ e # market[m] /\ \E r \in Routes : r.place = m /\ r.path \in Used
                /\ market' = [market EXCEPT ![m] = e]
          /\ UNCHANGED account
       \/ /\ \E kyc \in {"verified", "rejected"} : account' = [account EXCEPT !.kyc = kyc]
          /\ UNCHANGED market
       \/ /\ \E status \in {"active", "suspended"} :
                account' = [account EXCEPT !.status = status]
          /\ UNCHANGED market
    /\ call' = [c \in Call |->
          IF call[c].path = "none" THEN Idle
          ELSE [call[c] EXCEPT !.barred =
                    @ \cap Bars(market'[RouteOf(c).place], account')]]
    /\ UNCHANGED made

-----------------------------------------------------------------------------
Init ==
    /\ market = [m \in Market |-> "approved"]
    /\ account = [status |-> "active", kyc |-> "verified"]
    /\ made = <<>>
    /\ call = [c \in Call |-> Idle]
    /\ changes = 0

Next == \/ Settle \/ Decide
        \/ \E c \in Call : Begin(c) \/ Check(c) \/ Create(c)

Spec == Init /\ [][Next]_vars

-----------------------------------------------------------------------------
(* Properties *)

\* Every variable has its type.
TypeOK ==
    /\ market \in [Market -> {"approved", "suspended"}]
    /\ account \in [status : {"active", "suspended"}, kyc : {"verified", "rejected"}]
    /\ \A i \in DOMAIN made :
          /\ made[i].for \in {"payin", "payout"} /\ made[i].door \in {"api", "portal"}
          /\ made[i].amount \in Amount
          /\ made[i].status \in {"pending", "success", "failed"}
    /\ \A c \in Call :
          /\ call[c].path \in {"none"} \cup Used
          /\ call[c].path # "none" => call[c].left \in {RouteOf(c).checks} \cup
                {SubSeq(RouteOf(c).checks, k, Len(RouteOf(c).checks)) : k \in 2 .. 9}
          /\ call[c].barred \subseteq {"market", "kyc", "status"}
    /\ changes \in 0 .. MaxChanges

\* What the other requests may add to a limit that each has been checked against.
Overshoot == (Cardinality(Call) - 1) * Max(Amount)

\* fraud-policy.ts: the daily volume and the hourly count are read before the
\* payment is inserted, so requests that run at once go past them together, and
\* the ceiling in the same way.  They never go further than each by one: what is
\* pending, paid or gone through counts.
OvershootIsBounded ==
    /\ DailyLimit > 0 => Total("BDT") <= DailyLimit + Overshoot
    /\ PayinsPerHour > 0 =>
          Cardinality(Of("payin") \cap In({"BDT", "BRL"}))
             <= PayinsPerHour + Cardinality(Call) - 1
    /\ Mode # "monitor" /\ Ceiling > 0 =>
          \A currency \in {"BDT", "BRL", "USDT", "NGN"} :
              Volume({i \in In({currency}) : Counts(made[i]) /\ made[i].door = "portal"})
                 <= Ceiling + Overshoot

\* app.ts, portal-payout-access.ts: each check reads a table on its own and the
\* provider may decide between any two.  A request that comes in after a market,
\* the KYC or, at the portal, the merchant was suspended creates nothing, unless
\* the suspension is lifted meanwhile.  The portal's Bangladesh routes, which
\* never look at the market, are left out.
SuspensionHolds ==
    \A c \in Call : call[c].path # "none" /\ call[c].left = <<>> =>
        /\ "kyc" \notin call[c].barred
        /\ "status" \in call[c].barred => RouteOf(c).door = "api"
        /\ "market" \in call[c].barred => RouteOf(c) \in {PortalPayins, PortalPayouts}

\* docs/CTO_TECHNICAL_OVERVIEW.md: "Pay-in/payout routes call requireKycAndMarket
\* - merchant must be KYC-verified and market-approved for the rail's region".
\* The portal's Bangladesh routes do not.
MarketIsApproved ==
    \A c \in Call : call[c].path # "none" /\ call[c].left = <<>> =>
        "market" \notin call[c].barred

\* fraud-policy.ts: "Platform-wide (all merchants) payout velocity check, scoped
\* by currency".  A euro payout is asked about in EUR and stored in USDC, so the
\* volume it is compared with stays zero.
EuroCeilingHolds ==
    Mode # "monitor" /\ Ceiling > 0 =>
        Volume({i \in DOMAIN made : Counts(made[i]) /\ made[i].asked = "EUR"})
            <= Ceiling + Overshoot
=============================================================================
