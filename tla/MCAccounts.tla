----------------------------- MODULE MCAccounts -----------------------------
(* Who may do what: revoked tokens, session versions, API keys and the       *)
(* checks before a payment.  The four share no state, so a behaviour is one  *)
(* of them, as world says from the start, and the others stay where they are. *)
EXTENDS Admission, TLC

CONSTANTS i1, i2, c1, c2,  \* the processes and requests of every world
          Instance, Session, StepUp, Ttl, KeptTtl, MaxTime,
          Realm, MaxVersion, Key, MissTtl, MaxLoad

\* Times, amounts and bounds are numbers, an answer that may be cached lives,
\* finitely many requests are under way, and one asks for the most.
ASSUME AccountsAssumption ==
    /\ {KeptTtl, MissTtl, MaxLoad, MaxTime, MaxVersion, MaxChanges} \subseteq Nat
    /\ Ttl \in Nat \ {0}
    /\ Realm \subseteq {"portal", "provider"}
    /\ IsFiniteSet(Call) /\ Call # {}
    /\ Amount \subseteq Nat /\ \E most \in Amount : \A a \in Amount : a <= most
    /\ {DailyLimit, Ceiling, PayinsPerHour} \subseteq Nat

VARIABLES world,  \* which of them the behaviour is about
          tNow, tRevokedAt, tCache, tCall, tNote, tMarked, tGrants,
          lRealm, lNow, lUser, lLink, lIssued, lBumpedAt, lVersions, lCall,
          lNote,
          kNow, kStatus, kRevokedAt, kCache, kCall, kNote

Tokens == INSTANCE Revocation WITH
    now <- tNow, revokedAt <- tRevokedAt, cache <- tCache, call <- tCall, note
    <- tNote, marked <- tMarked, grants <- tGrants
Logins == INSTANCE Sessions WITH
    realm <- lRealm, now <- lNow, user <- lUser, link <- lLink, issued <-
    lIssued, bumpedAt <- lBumpedAt, versions <- lVersions, call <- lCall, note
    <- lNote
Keys == INSTANCE ApiKeys WITH
    now <- kNow, status <- kStatus, revokedAt <- kRevokedAt, cache <- kCache,
    call <- kCall, note <- kNote

TokensVars == <<tNow, tRevokedAt, tCache, tCall, tNote, tMarked, tGrants>>
LoginsVars == <<lRealm, lNow, lUser, lLink, lIssued, lBumpedAt, lVersions,
                lCall, lNote>>
KeysVars == <<kNow, kStatus, kRevokedAt, kCache, kCall, kNote>>

\* What the worlds that are not looked at hold.
TokensOff ==
    tNow = 0 /\ tRevokedAt = 0 /\ tCache = 0 /\ tCall = 0 /\ tNote = 0 /\
    tMarked = 0 /\ tGrants = 0
LoginsOff ==
    lRealm = 0 /\ lNow = 0 /\ lUser = 0 /\ lLink = 0 /\ lIssued = 0 /\
    lBumpedAt = 0 /\ lVersions = 0 /\ lCall = 0 /\ lNote = 0
KeysOff ==
    kNow = 0 /\ kStatus = 0 /\ kRevokedAt = 0 /\ kCache = 0 /\ kCall = 0 /\
    kNote = 0

AllInit ==
    /\ Init
    /\ world \in {"tokens", "logins", "keys", "doors"}
    /\ IF world = "tokens" THEN Tokens!Init ELSE TokensOff
    /\ IF world = "logins" THEN Logins!Init ELSE LoginsOff
    /\ IF world = "keys" THEN Keys!Init ELSE KeysOff

AllNext ==
    /\ \/ world = "doors" /\ Next /\ UNCHANGED <<TokensVars, LoginsVars, KeysVars>>
       \/ world = "tokens" /\ Tokens!Next /\ UNCHANGED <<vars, LoginsVars, KeysVars>>
       \/ world = "logins" /\ Logins!Next /\ UNCHANGED <<vars, TokensVars, KeysVars>>
       \/ world = "keys" /\ Keys!Next /\ UNCHANGED <<vars, TokensVars, LoginsVars>>
    /\ UNCHANGED world

AllSpec == AllInit /\ [][AllNext]_<<world, vars, TokensVars, LoginsVars, KeysVars>>

\* Every process keeps the same caches, every request may do the same things.
Symmetry == Permutations({i1, i2}) \cup Permutations({c1, c2})

-----------------------------------------------------------------------------
(* The properties of each world, explained in its module; OvershootIsBounded *)
(* and SuspensionHolds are Admission's.                                      *)

\* Every variable of every world has its type.
TypesOK ==
    /\ TypeOK
    /\ world = "tokens" => Tokens!TypeOK
    /\ world = "logins" => Logins!TypeOK
    /\ world = "keys" => Keys!TypeOK

\* jwt-revocation.ts, merchant-key-cache.ts, portal-auth.ts: a revoked token or
\* key, and a session of an earlier version, is refused once the time that an
\* answer may be cached is over, on every process; and a step-up token opens one
\* door.
VerdictsAreRecent ==
    /\ world = "tokens" => Tokens!VerdictIsRecent /\ Tokens!StepUpOnce
    /\ world = "keys" => Keys!KeyVerdictIsRecent
    /\ world = "logins" => Logins!VersionVerdictIsRecent

\* portal-auth.ts, provider-auth.ts: no session outlives the password it began
\* with, but for the time that a session version is cached.
SessionsKnowThePassword ==
    world = "logins" => Logins!SessionsKnowThePassword
==============================================================================
