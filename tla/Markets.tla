------------------------------- MODULE Markets -------------------------------
(***************************************************************************)
(* What a merchant may use.  merchant_markets says for each market whether *)
(* it was asked for, approved or suspended and how its KYB stands; the     *)
(* merchant itself has a KYC status.  The merchant asks, the provider      *)
(* decides, the portal shows a board, the API refuses; each reads the rows *)
(* on its own, without a lock.  Wallets are made on first use, by whoever  *)
(* comes first.                                                            *)
(***************************************************************************)
EXTENDS Naturals

CONSTANTS Caller,      \* requests that may be under way at once
          Market,      \* markets of the instance
          TekkoMarket, \* those with live wallets only, and one for the platform
          KycRequired, \* KYC_REQUIRED
          SetsEntitlement, SetsKyb, \* bound: what the provider sets, "none" for not at all
          MaxWallets,  \* bound: wallets of a pocket
          MaxCrashes   \* bound: requests that end half-way

VARIABLES row,     \* entitlement and KYB of each market, once it has a row
          kyc,     \* KYC status of the merchant
          wallets, \* active wallets of each pocket
          at,      \* where each request is
          note,    \* its purpose, its market, what it has read and must provision
          crashes  \* bound

requests == <<at, note>>
vars == <<row, kyc, wallets, requests, crashes>>

Entitlement == {"disabled", "requested", "kyb_in_review", "approved", "suspended"}
Kyb == {"not_started", "pending", "verified", "rejected"}

\* Nothing here tells a rejected KYC from a pending one.
Kyc == {"pending", "verified"}

NoRow == [ent |-> "none", kyb |-> "none"]

NewRow == [ent |-> "disabled", kyb |-> "not_started"]

\* A pocket is an owner, a market and an environment.
Pockets(m) ==
    IF m \in TekkoMarket
    THEN {<<"merchant", m, "live">>, <<"platform", m, "live">>}
    ELSE {<<"merchant", m, "test">>, <<"merchant", m, "live">>}

Pocket == UNION {Pockets(m) : m \in Market}

NoNote == [for |-> "none", market |-> "none", ent |-> "none", kyb |-> "none",
           kyc |-> "pending", left |-> {}]

Step(c, from, to) == at[c] = from /\ at' = [at EXCEPT ![c] = to]

GoOn(c, from, to) == Step(c, from, to) /\ UNCHANGED note

Done(c, from) == Step(c, from, "idle") /\ note' = [note EXCEPT ![c] = NoNote]

-----------------------------------------------------------------------------
(* What the board shows and what the API lets through *)

Provisioned(m) == \A p \in Pockets(m) : p[1] = "merchant" => wallets[p] > 0

\* deriveMarketBoardFields, in the live environment: "ready".
Ready(m) ==
    /\ row[m].ent = "approved" /\ row[m].kyb # "rejected"
    /\ row[m].kyb = "verified" \/ kyc = "verified"
    /\ Provisioned(m)

\* requireKycVerified and assertMerchantMarketApiAccess on the same rows.
Open(m) ==
    /\ KycRequired => kyc = "verified"
    /\ row[m].ent = "approved"
    /\ KycRequired => kyc = "verified" \/ row[m].kyb = "verified"

-----------------------------------------------------------------------------
(* ensureMerchantMarkets, first in every request below *)

Begin(c, n) == Step(c, "idle", "ensure") /\ note' = [note EXCEPT ![c] = n]

AskForMarket(c) ==
    /\ \E m \in Market : Begin(c, [NoNote EXCEPT !.for = "request", !.market = m])
    /\ UNCHANGED <<row, kyc, wallets, crashes>>

\* The provider sets an entitlement, or the KYB, or both.
SetMarket(c) ==
    /\ \E m \in Market, ent \in SetsEntitlement, kyb \in SetsKyb :
          Begin(c, [NoNote EXCEPT !.for = "set", !.market = m, !.ent = ent, !.kyb = kyb])
    /\ UNCHANGED <<row, kyc, wallets, crashes>>

OpenCatalog(c) ==
    /\ Begin(c, [NoNote EXCEPT !.for = "catalog"])
    /\ UNCHANGED <<row, kyc, wallets, crashes>>

Missing == {m \in Market : row[m] = NoRow}

\* The rows are counted ...
Ensure(c) ==
    /\ GoOn(c, "ensure", IF Missing # {} THEN "insert" ELSE note[c].for)
    /\ UNCHANGED <<row, kyc, wallets, crashes>>

\* ... and the missing ones inserted; another request may have been faster,
\* and the unique constraint ends this one.
InsertRows(c) ==
    /\ \/ /\ Missing # {} /\ GoOn(c, "insert", note[c].for)
          /\ row' = [m \in Market |-> IF m \in Missing THEN NewRow ELSE row[m]]
       \/ Missing = {} /\ Done(c, "insert") /\ UNCHANGED row
    /\ UNCHANGED <<kyc, wallets, crashes>>

-----------------------------------------------------------------------------
(* requestMerchantMarket and setMerchantMarketByProvider *)

ReadKyc(c) ==
    /\ \/ Step(c, "request", "update")
       \/ Step(c, "set", "update")
    /\ note' = [note EXCEPT ![c].kyc = kyc]
    /\ UNCHANGED <<row, kyc, wallets, crashes>>

Requested(n) ==
    [ent |-> "requested", kyb |-> IF n.kyc = "verified" THEN "pending" ELSE "not_started"]

Patched(r, n) ==
    [ent |-> IF n.ent = "none" THEN r.ent ELSE n.ent,
     kyb |-> IF n.kyb # "none" THEN n.kyb
             ELSE IF n.ent = "approved" /\ n.kyc = "verified" THEN "verified" ELSE r.kyb]

\* Variant: an approval is written and the wallets are left to their first use.
ApproveOnly(c) ==
    LET n == note[c] IN
    /\ Done(c, "update")
    /\ row' = [row EXCEPT ![n.market] =
                  IF n.for = "request" THEN Requested(n) ELSE Patched(@, n)]
    /\ UNCHANGED <<kyc, wallets, crashes>>

\* The row is written whatever it was; an approval goes on to the wallets.
UpdateRow(c) ==
    LET n == note[c] IN
    /\ at[c] = "update"
    /\ row' = [row EXCEPT ![n.market] =
                  IF n.for = "request" THEN Requested(n) ELSE Patched(@, n)]
    /\ IF n.ent = "approved"
       THEN /\ Step(c, "update", "provision")
            /\ note' = [note EXCEPT ![c].left = Pockets(n.market)]
       ELSE Done(c, "update")
    /\ UNCHANGED <<kyc, wallets, crashes>>

-----------------------------------------------------------------------------
(* Wallets: provisionSettlementWalletsForMarket, getOrCreateMerchantWallet *)

\* buildPortalWalletCatalog provisions the approved Tekko markets again.
ReadCatalog(c) ==
    LET again == UNION {Pockets(m) : m \in {k \in Market \cap TekkoMarket :
                                               row[k].ent = "approved"}}
    IN  /\ Step(c, "catalog", "provision")
        /\ note' = [note EXCEPT ![c].left = again]
        /\ UNCHANGED <<row, kyc, wallets, crashes>>

\* A credit on a pocket's first payment.
Credit(c) ==
    /\ Step(c, "idle", "provision")
    /\ \E p \in Pocket : note' = [note EXCEPT ![c] = [NoNote EXCEPT !.for = "credit",
                                                                    !.left = {p}]]
    /\ UNCHANGED <<row, kyc, wallets, crashes>>

\* The pockets are taken in one order by everyone.
First(left) == CHOOSE p \in left : TRUE

\* One pocket after the other: a wallet is looked for ...
FindWallet(c) ==
    LET p == First(note[c].left) IN
    /\ note[c].left # {}
    /\ IF wallets[p] > 0
       THEN /\ Step(c, "provision", "provision")
            /\ note' = [note EXCEPT ![c].left = @ \ {p}]
       ELSE GoOn(c, "provision", "create")
    /\ UNCHANGED <<row, kyc, wallets, crashes>>

\* ... and made when there was none; no constraint knows of a second.
CreateWallet(c) ==
    LET p == First(note[c].left) IN
    /\ Step(c, "create", "provision")
    /\ note' = [note EXCEPT ![c].left = @ \ {p}]
    /\ wallets[p] < MaxWallets
    /\ wallets' = [wallets EXCEPT ![p] = @ + 1]
    /\ UNCHANGED <<row, kyc, crashes>>

\* Looking for the platform's pocket, or making it, may fail, and that is
\* swallowed: "fee apply skips if the platform row is missing".
SkipPlatform(c) ==
    LET p == First(note[c].left) IN
    /\ note[c].left # {} /\ note[c].for # "credit" /\ p[1] = "platform"
    /\ Step(c, "provision", "provision") \/ Step(c, "create", "provision")
    /\ note' = [note EXCEPT ![c].left = @ \ {p}]
    /\ UNCHANGED <<row, kyc, wallets, crashes>>

Finish(c) ==
    /\ note[c].left = {} /\ Done(c, "provision")
    /\ UNCHANGED <<row, kyc, wallets, crashes>>

-----------------------------------------------------------------------------
(* Around them *)

\* PATCH /provider/merchants/:id/kyc
SetKyc ==
    /\ \E k \in Kyc : kyc' = k
    /\ UNCHANGED <<row, wallets, requests, crashes>>

Crash(c) ==
    /\ crashes < MaxCrashes /\ crashes' = crashes + 1
    /\ at[c] # "idle" /\ Done(c, at[c])
    /\ UNCHANGED <<row, kyc, wallets>>

-----------------------------------------------------------------------------

Init ==
    /\ row = [m \in Market |-> NoRow]
    /\ kyc = "pending"
    /\ wallets = [p \in Pocket |-> 0]
    /\ at = [c \in Caller |-> "idle"]
    /\ note = [c \in Caller |-> NoNote]
    /\ crashes = 0

Serve(c) ==
    \/ AskForMarket(c) \/ SetMarket(c) \/ OpenCatalog(c) \/ Ensure(c) \/ InsertRows(c)
    \/ ReadKyc(c) \/ UpdateRow(c) \/ ReadCatalog(c) \/ Credit(c)
    \/ FindWallet(c) \/ CreateWallet(c) \/ SkipPlatform(c) \/ Finish(c)

Next == SetKyc \/ \E c \in Caller : Serve(c) \/ Crash(c)

Spec == Init /\ [][Next]_vars

-----------------------------------------------------------------------------
(* Properties *)

TypeOK ==
    /\ row \in [Market -> [ent : Entitlement, kyb : Kyb] \cup {NoRow}]
    /\ kyc \in Kyc
    /\ wallets \in [Pocket -> 0..MaxWallets]
    /\ at \in [Caller -> {"idle", "ensure", "insert", "request", "set", "catalog",
                          "update", "provision", "create"}]
    /\ \A c \in Caller : note[c].left \subseteq Pocket

(* The merchant of an approved market has its wallets: once the approval has *)
(* been answered, whatever asked for, suspended or approved it meanwhile, and *)
(* whether or not the platform's pocket could be made; an approval that died, *)
(* or whose query failed, is the exception, which the portal's catalog repairs *)
(* for the Tekko markets only.                                                *)
ApprovedHasWallets ==
    \A m \in Market :
        /\ row[m].ent = "approved" /\ crashes = 0
        /\ \A c \in Caller : ~(note[c].market = m /\ note[c].ent = "approved")
        => Provisioned(m)

(* So has the platform: a fee that finds no pocket is not charged.  The code   *)
(* does not keep this (README): that failure is swallowed.                    *)
PlatformHasWallets ==
    \A m \in Market :
        /\ row[m].ent = "approved" /\ crashes = 0
        /\ \A c \in Caller : ~(note[c].market = m /\ note[c].ent = "approved")
        => \A p \in Pockets(m) : wallets[p] > 0

(* "The platform wallet is a special merchant wallet, one per currency, per  *)
(* environment", and so is any other: every reader takes the first active    *)
(* wallet it finds.  Two that look at the same time each make one.           *)
OneWalletEach ==
    \A p \in Pocket : wallets[p] <= 1

(* "ready: usable for money flows".  With KYC_REQUIRED the board counts the  *)
(* KYB of the market in place of the merchant's KYC, and the API does not.   *)
ReadyIsUsable ==
    \A m \in Market : Ready(m) => Open(m)

=============================================================================
