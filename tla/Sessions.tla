------------------------------- MODULE Sessions -------------------------------
(***************************************************************************)
(* The sessions of one user, of the portal or of the provider console.     *)
(* A session token carries the session version that the user's row had at  *)
(* login; a request is let in while the two are the same (Revocation says   *)
(* which tokens end one by one).  Each server process caches the version    *)
(* for Ttl.  Logins, password resets, verifications and the end of all      *)
(* sessions overlap.                                                        *)
(***************************************************************************)
EXTENDS Integers

CONSTANTS Realm,      \* the realms to look at: "portal", "provider"
          Instance,   \* server processes
          Call,       \* requests that may be under way at once
          Ttl,        \* how long a session version is cached
          MaxTime,    \* bound: the clock
          MaxVersion  \* bound: increments of the session version

VARIABLES realm,
          now,        \* the clock
          user,       \* the row: password, session_version, mfa
          link,       \* there is a password reset link that was not used
          issued,     \* what the tokens issued so far carry
          bumpedAt,   \* when each session version was left
          versions,   \* cache of each process
          call,       \* where each request is
          note        \* what it has read

row == <<user, link>>
calls == <<call, note>>
vars == <<realm, now, row, issued, bumpedAt, versions, calls>>

Never == MaxTime + 1

NoEntry == [version |-> 0, until |-> 0]

NoNote == [at |-> "none", token |-> 0, begun |-> 0, asked |-> 0,
           version |-> 0, pw |-> 0]

Step(c, from, to) == call[c] = from /\ call' = [call EXCEPT ![c] = to]

GoOn(c, from, to) == Step(c, from, to) /\ UNCHANGED note

Note(c, n) == note' = [note EXCEPT ![c] = n]

Return(c, from) == Step(c, from, "idle") /\ Note(c, NoNote)

\* Entries that have expired are as good as none.
Fresh(entry, time) == IF entry.until > time THEN entry ELSE NoEntry

Tick ==
    /\ now < MaxTime /\ now' = now + 1
    /\ versions' = [i \in Instance |-> Fresh(versions[i], now + 1)]
    /\ UNCHANGED <<realm, row, issued, bumpedAt, calls>>

-----------------------------------------------------------------------------
(* Logging in *)

Issue(version, pw) == issued' = issued \cup {[version |-> version, pw |-> pw]}

\* The row is read once; the password is checked against what was read.
Login(c) ==
    /\ Step(c, "idle", IF user.mfa THEN "code" ELSE "sign")
    /\ Note(c, [NoNote EXCEPT !.version = user.version,
                              !.pw = user.pw])
    /\ UNCHANGED <<realm, now, row, issued, bumpedAt, versions>>

\* Variant: the session version is read again when the token is signed.
SignCurrent(c) ==
    /\ Return(c, "sign")
    /\ Issue(user.version, note[c].pw)
    /\ UNCHANGED <<realm, now, row, bumpedAt, versions>>

Sign(c) ==
    /\ Return(c, "sign")
    /\ Issue(note[c].version, note[c].pw)
    /\ UNCHANGED <<realm, now, row, bumpedAt, versions>>

\* POST mfa/verify brings the pending token and a code.  The session version
\* is the one of now; the portal reads it last of all.
VerifyCode(c) ==
    /\ \/ /\ realm = "portal" /\ Return(c, "code")
          /\ Issue(user.version, note[c].pw)
       \/ /\ realm = "provider" /\ Step(c, "code", "sign")
          /\ Note(c, [note[c] EXCEPT !.version = user.version])
          /\ UNCHANGED issued
    /\ UNCHANGED <<realm, now, row, bumpedAt, versions>>

-----------------------------------------------------------------------------
(* verifyPortalToken, verifyProviderToken: after the signature and the        *)
(* revocation comes the session version                                       *)

Judge(c, from, version) ==
    /\ Step(c, from, IF note[c].token = version THEN "accepted" ELSE "refused")
    /\ Note(c, [note[c] EXCEPT !.asked = 0, !.version = 0])

Present(c) ==
    /\ \E i \in Instance, t \in issued :
          Note(c, [NoNote EXCEPT !.at = i, !.token = t.version, !.begun = now])
    /\ Step(c, "idle", "cache")
    /\ UNCHANGED <<realm, now, row, issued, bumpedAt, versions>>

\* loadSessionVersion: a live entry, or a query; the entry that the query makes
\* lives from the moment of the question.
LookUp(c) ==
    /\ call[c] = "cache"
    /\ \/ /\ versions[note[c].at].until > now
          /\ Judge(c, "cache", versions[note[c].at].version)
       \/ /\ versions[note[c].at].until <= now
          /\ Step(c, "cache", "ask")
          /\ Note(c, [note[c] EXCEPT !.asked = now])
    /\ UNCHANGED <<realm, now, row, issued, bumpedAt, versions>>

Ask(c) ==
    /\ Step(c, "ask", "answer")
    /\ Note(c, [note[c] EXCEPT !.version = user.version])
    /\ UNCHANGED <<realm, now, row, issued, bumpedAt, versions>>

Store(c, from) ==
    versions' = [versions EXCEPT ![note[c].at] =
                    Fresh([version |-> note[c].version, until |-> from + Ttl], now)]

\* Variant: the entry lives from the moment it is stored.
StoreFromNow(c) ==
    /\ Judge(c, "answer", note[c].version)
    /\ Store(c, now)
    /\ UNCHANGED <<realm, now, row, issued, bumpedAt>>

StoreAnswer(c) ==
    /\ Judge(c, "answer", note[c].version)
    /\ Store(c, note[c].asked)
    /\ UNCHANGED <<realm, now, row, issued, bumpedAt>>

\* The request is answered; or it was one to end all sessions, which the portal
\* has, and the password is asked for once more.
Answer(c) ==
    /\ \/ Return(c, "refused") \/ Return(c, "accepted")
       \/ realm = "portal" /\ GoOn(c, "accepted", "bump")
    /\ UNCHANGED <<realm, now, row, issued, bumpedAt, versions>>

-----------------------------------------------------------------------------
(* Ending all sessions, and passwords *)

\* bumpPortalSessionVersion, bumpProviderSessionVersion: the row, and then
\* the cache of this process.
Bump(c) ==
    /\ GoOn(c, "bump", "drop")
    /\ user.version < MaxVersion
    /\ user' = [user EXCEPT !.version = @ + 1]
    /\ bumpedAt' = [bumpedAt EXCEPT ![user.version] = now]
    /\ UNCHANGED <<realm, now, link, issued, versions>>

DropVersion(c) ==
    /\ Return(c, "drop")
    /\ versions' = [versions EXCEPT ![note[c].at] = NoEntry]
    /\ UNCHANGED <<realm, now, row, issued, bumpedAt>>

\* Older links that were not used are deleted.
ForgotPassword ==
    /\ link' = TRUE
    /\ UNCHANGED <<realm, now, user, issued, bumpedAt, versions, calls>>

\* The link is read, the new password hashed, and both are written whatever
\* happened meanwhile; an administrator of the console needs no link.
ResetPassword(c) ==
    /\ \E i \in Instance : Note(c, [NoNote EXCEPT !.at = i])
    /\ \/ link /\ Step(c, "idle", "password")
       \/ realm = "provider" /\ Step(c, "idle", "patch")
    /\ UNCHANGED <<realm, now, row, issued, bumpedAt, versions>>

\* Variant: an administrator's change leaves the session version alone.
PatchOnly(c) ==
    /\ user.version < MaxVersion
    /\ \/ GoOn(c, "password", "bump") /\ link' = FALSE
       \/ Return(c, "patch") /\ UNCHANGED link
    /\ user' = [user EXCEPT !.pw = @ + 1]
    /\ UNCHANGED <<realm, now, issued, bumpedAt, versions>>

\* The link it ends is the one it read, not one issued meanwhile.
WritePassword(c) ==
    /\ user.version < MaxVersion
    /\ \/ GoOn(c, "password", "bump") /\ link' \in {FALSE, link}
       \/ GoOn(c, "patch", "bump") /\ UNCHANGED link
    /\ user' = [user EXCEPT !.pw = @ + 1]
    /\ UNCHANGED <<realm, now, issued, bumpedAt, versions>>

-----------------------------------------------------------------------------
Init ==
    /\ realm \in Realm
    /\ now = 0
    /\ user \in [pw : {0}, version : {0}, mfa : BOOLEAN]
    /\ link = FALSE
    /\ issued = {}
    /\ bumpedAt = [v \in 0 .. MaxVersion |-> Never]
    /\ versions = [i \in Instance |-> NoEntry]
    /\ call = [c \in Call |-> "idle"]
    /\ note = [c \in Call |-> NoNote]

Next == \/ Tick \/ ForgotPassword
        \/ \E c \in Call : \/ Login(c) \/ Sign(c) \/ VerifyCode(c)
                           \/ Present(c) \/ LookUp(c) \/ Ask(c) \/ StoreAnswer(c)
                           \/ Answer(c) \/ Bump(c) \/ DropVersion(c)
                           \/ ResetPassword(c) \/ WritePassword(c)

Spec == Init /\ [][Next]_vars

-----------------------------------------------------------------------------
(* Properties *)

\* Every variable has its type.
TypeOK ==
    /\ realm \in Realm /\ now \in 0 .. MaxTime
    /\ user \in [pw : Nat, version : 0 .. MaxVersion, mfa : BOOLEAN]
    /\ link \in BOOLEAN
    /\ issued \subseteq [version : 0 .. MaxVersion, pw : 0 .. user.pw]
    /\ bumpedAt \in [0 .. MaxVersion -> 0 .. Never]
    /\ versions \in [Instance -> [version : 0 .. MaxVersion,
                                  until : 0 .. MaxTime + Ttl]]
    /\ call \in [Call -> {"idle", "sign", "code", "cache", "ask", "answer",
                          "accepted", "refused", "bump", "drop", "password",
                          "patch"}]

\* SESSION_VERSION_CACHE_TTL_MS: a request that begins Ttl after the token's
\* version was left is refused, on every process and however slow the lookups
\* that overlap with the change; and a token of the current version is refused
\* only within Ttl of the change.
VersionVerdictIsRecent ==
    \A c \in Call :
        LET n == note[c]
            v == n.token
        IN  /\ call[c] = "accepted" => v = user.version \/ n.begun < bumpedAt[v] + Ttl
            /\ call[c] = "refused" =>
                  v # user.version \/ (v > 0 /\ n.begun < bumpedAt[v - 1] + Ttl)

\* FRONTEND_SECURITY_UPDATE.md: "Password reset also bumps sessionVersion (all
\* existing sessions die)": once the change is through, no session that was
\* opened with an old password has the user's session version, although
\* logins and other changes overlap with it.  A login with a second factor
\* takes the version when the code comes, and may span the change.
SessionsKnowThePassword ==
    ~user.mfa /\ (\A c \in Call : call[c] # "bump") =>
        \A t \in issued : t.version = user.version => t.pw = user.pw
=============================================================================
