--------------------------- MODULE AccountsProofs ---------------------------
(* Proofs about MCAccounts, for any processes, requests, keys, times to live  *)
(* and bounds: the inductive invariant of each of its worlds (revoked tokens, *)
(* API keys, session versions, the checks before a payment) and the           *)
(* properties that follow from it.                                            *)
EXTENDS MCAccounts, SequenceTheorems, FiniteSetTheorems, TLAPS
-----------------------------------------------------------------------------
(* Revoked tokens.  "Not revoked" is only cached by a lookup that began       *)
(* before the row was inserted, and lives from the lookup's beginning.        *)

TokenEntry == [revoked : BOOLEAN, until : 0 .. MaxTime + KeptTtl + Ttl]

TokenNote == [at : Instance \cup {"none"}, token : Tokens!Token \cup {"none"},
              begun : 0 .. MaxTime, read : BOOLEAN, after : BOOLEAN]

TokenSteps == {"idle", "ask", "answer", "accepted", "refused", "revoke", "claim",
               "mark"}

\* What a cached entry says of a token whose row is made at the time since.
TokenEntryOK(entry, since, time) ==
    /\ entry.revoked => since # Tokens!Never
    /\ ~entry.revoked => entry.until <= since + Ttl /\ entry.until <= time + Ttl

\* What a request knows of its token at each step.
TokenCallOK(step, n, since, time) ==
    /\ n.begun <= time
    /\ step # "idle" => n.at \in Instance /\ n.token \in Tokens!Token
    /\ step = "answer" =>
          IF n.read THEN since[n.token] # Tokens!Never ELSE n.begun <= since[n.token]
    /\ step = "accepted" => n.begun < since[n.token] + Ttl
    /\ step \in {"refused", "mark"} => since[n.token] # Tokens!Never

\* Rows are made now and stay.
RowsStay(before, after, time) ==
    \A t \in Tokens!Token :
        \/ after[t] = before[t]
        \/ before[t] = Tokens!Never /\ after[t] = time

EntriesOK(cache, since, time) ==
    \A i \in Instance, t \in Tokens!Token : TokenEntryOK(cache[i][t], since[t], time)

GrantsOK(grants, since) ==
    \A t \in Tokens!Token :
        /\ grants[t] <= 1
        /\ since[t] = Tokens!Never => grants[t] = 0

TokensInv ==
    /\ Tokens!TypeOK
    /\ EntriesOK(tCache, tRevokedAt, tNow)
    /\ \A c \in Call : TokenCallOK(tCall[c], tNote[c], tRevokedAt, tNow)
    /\ GrantsOK(tGrants, tRevokedAt)

LEMMA TokenTypes ==
    Tokens!TypeOK <=>
        /\ tNow \in 0 .. MaxTime
        /\ tRevokedAt \in [Tokens!Token -> 0 .. Tokens!Never]
        /\ tCache \in [Instance -> [Tokens!Token -> TokenEntry]]
        /\ tCall \in [Call -> TokenSteps]
        /\ tNote \in [Call -> TokenNote]
        /\ tMarked \in [Instance -> SUBSET Tokens!Token]
        /\ tGrants \in [Tokens!Token -> Nat]
  BY DEF Tokens!TypeOK, TokenEntry, TokenNote, TokenSteps

LEMMA TokenNoEntry ==
    /\ Tokens!NoEntry \in TokenEntry /\ ~Tokens!NoEntry.revoked
    /\ Tokens!NoEntry.until = 0
  BY AccountsAssumption DEF Tokens!NoEntry, TokenEntry

LEMMA TokenNoNote == Tokens!NoNote \in TokenNote /\ Tokens!NoNote.begun = 0
  BY AccountsAssumption DEF Tokens!NoNote, TokenNote

LEMMA TokensInit == Tokens!Init => TokensInv
<1> SUFFICES ASSUME Tokens!Init PROVE TokensInv
  OBVIOUS
<1>1. /\ tNow = 0 /\ tRevokedAt = [t \in Tokens!Token |-> Tokens!Never]
      /\ tCache = [i \in Instance |-> [t \in Tokens!Token |-> Tokens!NoEntry]]
      /\ tCall = [c \in Call |-> "idle"]
      /\ tNote = [c \in Call |-> Tokens!NoNote]
      /\ tMarked = [i \in Instance |-> {}]
      /\ tGrants = [t \in Tokens!Token |-> 0]
  BY DEF Tokens!Init
<1>2. tNow \in 0 .. MaxTime /\ tRevokedAt \in [Tokens!Token -> 0 .. Tokens!Never]
  BY <1>1, AccountsAssumption DEF Tokens!Never
<1>3. tCache \in [Instance -> [Tokens!Token -> TokenEntry]]
  BY <1>1, TokenNoEntry
<1>4. tCall \in [Call -> TokenSteps] /\ tNote \in [Call -> TokenNote]
  BY <1>1, TokenNoNote DEF TokenSteps
<1>5. Tokens!TypeOK
  BY <1>1, <1>2, <1>3, <1>4, TokenTypes
<1>6. EntriesOK(tCache, tRevokedAt, tNow)
  BY <1>1, TokenNoEntry, AccountsAssumption DEF EntriesOK, TokenEntryOK, Tokens!Never
<1>7. \A c \in Call : TokenCallOK(tCall[c], tNote[c], tRevokedAt, tNow)
  BY <1>1, TokenNoNote DEF TokenCallOK
<1> QED  BY <1>1, <1>5, <1>6, <1>7 DEF TokensInv, GrantsOK

\* What a request still knows when rows are made and time passes.
LEMMA TokenCallStays ==
  ASSUME NEW n \in TokenNote, NEW step, NEW before \in [Tokens!Token -> 0 .. Tokens!Never],
         NEW after \in [Tokens!Token -> 0 .. Tokens!Never],
         NEW time \in 0 .. MaxTime, RowsStay(before, after, time),
         TokenCallOK(step, n, before, time)
  PROVE  TokenCallOK(step, n, after, time)
<1>1. n.begun \in Nat /\ time \in Nat /\ time # Tokens!Never /\ Ttl \in Nat /\ Ttl > 0
  BY AccountsAssumption DEF TokenNote, Tokens!Never
<1>2. CASE step = "idle"
  BY <1>2 DEF TokenCallOK
<1>3. CASE step # "idle"
  <2>1. n.token \in Tokens!Token /\ n.at \in Instance
    BY <1>3 DEF TokenCallOK
  <2>2. before[n.token] \in Nat /\ after[n.token] \in Nat
    BY <2>1, AccountsAssumption DEF Tokens!Never
  <2>3. \/ after[n.token] = before[n.token]
        \/ before[n.token] = Tokens!Never /\ after[n.token] = time
    BY <2>1 DEF RowsStay
  <2>4. CASE after[n.token] = before[n.token]
    BY <2>4 DEF TokenCallOK
  <2>5. CASE before[n.token] = Tokens!Never /\ after[n.token] = time
    BY <1>1, <2>1, <2>2, <2>5 DEF TokenCallOK
  <2> QED  BY <2>3, <2>4, <2>5
<1> QED  BY <1>2, <1>3

\* One request moves: what it goes on with, and what it does to the tables.
LEMMA TokenOwn ==
  ASSUME TokensInv, NEW c \in Call, NEW to \in TokenSteps, NEW n \in TokenNote,
         tCall' = [tCall EXCEPT ![c] = to], tNote' = [tNote EXCEPT ![c] = n],
         tNow' = tNow, tRevokedAt' \in [Tokens!Token -> 0 .. Tokens!Never],
         RowsStay(tRevokedAt, tRevokedAt', tNow),
         TokenCallOK(to, n, tRevokedAt', tNow),
         tCache' \in [Instance -> [Tokens!Token -> TokenEntry]],
         EntriesOK(tCache', tRevokedAt', tNow),
         tMarked' \in [Instance -> SUBSET Tokens!Token],
         tGrants' \in [Tokens!Token -> Nat], GrantsOK(tGrants', tRevokedAt')
  PROVE  TokensInv'
<1>1. /\ tNow \in 0 .. MaxTime /\ tRevokedAt \in [Tokens!Token -> 0 .. Tokens!Never]
      /\ tCall \in [Call -> TokenSteps] /\ tNote \in [Call -> TokenNote]
  BY TokenTypes DEF TokensInv
<1>2. /\ tCall' \in [Call -> TokenSteps] /\ tNote' \in [Call -> TokenNote]
      /\ \A b \in Call : tCall'[b] = IF b = c THEN to ELSE tCall[b]
      /\ \A b \in Call : tNote'[b] = IF b = c THEN n ELSE tNote[b]
  BY <1>1
<1>3. Tokens!TypeOK'
  BY <1>1, <1>2 DEF Tokens!TypeOK, TokenSteps, TokenNote, TokenEntry
<1>4. ASSUME NEW b \in Call
      PROVE  TokenCallOK(tCall'[b], tNote'[b], tRevokedAt', tNow')
  <2>1. TokenCallOK(tCall[b], tNote[b], tRevokedAt, tNow) /\ tNote[b] \in TokenNote
    BY <1>1 DEF TokensInv
  <2>2. TokenCallOK(tCall[b], tNote[b], tRevokedAt', tNow)
    BY <1>1, <2>1, TokenCallStays
  <2> QED  BY <1>2, <2>2
<1> QED  BY <1>3, <1>4 DEF TokensInv

\* What a request starts from.
LEMMA TokenFacts ==
  ASSUME TokensInv, NEW c \in Call
  PROVE  /\ tNow \in Nat /\ tNow \in 0 .. MaxTime /\ tNow # Tokens!Never
         /\ Tokens!Never \in Nat /\ MaxTime \in Nat /\ tNow <= MaxTime
         /\ tRevokedAt \in [Tokens!Token -> 0 .. Tokens!Never]
         /\ tRevokedAt \in [Tokens!Token -> Nat]
         /\ tCache \in [Instance -> [Tokens!Token -> TokenEntry]]
         /\ tMarked \in [Instance -> SUBSET Tokens!Token]
         /\ tGrants \in [Tokens!Token -> Nat] /\ GrantsOK(tGrants, tRevokedAt)
         /\ tNote \in [Call -> TokenNote] /\ tNote[c] \in TokenNote
         /\ tCall \in [Call -> TokenSteps]
         /\ tNote[c].begun \in Nat /\ tNote[c].read \in BOOLEAN
         /\ EntriesOK(tCache, tRevokedAt, tNow)
         /\ TokenCallOK(tCall[c], tNote[c], tRevokedAt, tNow)
         /\ RowsStay(tRevokedAt, tRevokedAt, tNow)
         /\ Ttl \in Nat /\ Ttl > 0 /\ KeptTtl \in Nat
<1>1. /\ tNow \in 0 .. MaxTime /\ tRevokedAt \in [Tokens!Token -> 0 .. Tokens!Never]
      /\ tCache \in [Instance -> [Tokens!Token -> TokenEntry]]
      /\ tMarked \in [Instance -> SUBSET Tokens!Token]
      /\ tGrants \in [Tokens!Token -> Nat]
      /\ tNote \in [Call -> TokenNote] /\ tNote[c] \in TokenNote
      /\ tCall \in [Call -> TokenSteps]
  BY TokenTypes DEF TokensInv
<1>2. /\ Ttl \in Nat /\ Ttl > 0 /\ KeptTtl \in Nat /\ MaxTime \in Nat
      /\ Tokens!Never \in Nat /\ tNow # Tokens!Never
  BY <1>1, AccountsAssumption DEF Tokens!Never
<1>3. tRevokedAt \in [Tokens!Token -> Nat]
  BY <1>1, <1>2
<1>4. tNote[c].begun \in Nat /\ tNote[c].read \in BOOLEAN
  BY <1>1, <1>2 DEF TokenNote
<1>5. RowsStay(tRevokedAt, tRevokedAt, tNow)
  BY DEF RowsStay
<1> QED  BY <1>1, <1>2, <1>3, <1>4, <1>5 DEF TokensInv

\* A request that leaves the tables alone.
LEMMA TokenOnly ==
  ASSUME TokensInv, NEW c \in Call, NEW to \in TokenSteps, NEW n \in TokenNote,
         tCall' = [tCall EXCEPT ![c] = to], tNote' = [tNote EXCEPT ![c] = n],
         UNCHANGED <<tNow, tRevokedAt, tCache, tMarked, tGrants>>,
         TokenCallOK(to, n, tRevokedAt, tNow)
  PROVE  TokensInv'
  BY TokenFacts, TokenOwn

LEMMA TokenLookUp ==
  ASSUME TokensInv, NEW c \in Call, Tokens!LookUp(c)
  PROVE  TokensInv'
<1> PICK i \in Instance, t \in Tokens!Token :
        /\ tCall[c] = "idle"
        /\ tCall' = [tCall EXCEPT ![c] =
                        IF tCache[i][t].until <= tNow THEN "ask"
                        ELSE IF tCache[i][t].revoked THEN "refused" ELSE "accepted"]
        /\ tNote' = [tNote EXCEPT ![c] =
                        [at |-> i, token |-> t, begun |-> tNow, read |-> FALSE,
                         after |-> t \in tMarked[i]]]
  BY DEF Tokens!LookUp, Tokens!Step, Tokens!Token
<1> DEFINE n == [at |-> i, token |-> t, begun |-> tNow, read |-> FALSE,
                 after |-> t \in tMarked[i]]
           to == IF tCache[i][t].until <= tNow THEN "ask"
                 ELSE IF tCache[i][t].revoked THEN "refused" ELSE "accepted"
<1>1. UNCHANGED <<tNow, tRevokedAt, tCache, tMarked, tGrants>>
  BY DEF Tokens!LookUp
<1>2. n \in TokenNote
  <2>1. (t \in tMarked[i]) \in BOOLEAN
    OBVIOUS
  <2> QED  BY <2>1, TokenFacts DEF TokenNote
<1>3. n.begun = tNow /\ n.at = i /\ n.token = t
  OBVIOUS
<1>4. to \in TokenSteps
  BY DEF TokenSteps
<1>5. TokenEntryOK(tCache[i][t], tRevokedAt[t], tNow) /\ tCache[i][t] \in TokenEntry
  BY TokenFacts DEF EntriesOK
<1>6. tCache[i][t].until \in Nat /\ tCache[i][t].revoked \in BOOLEAN
      /\ tRevokedAt[t] \in Nat
  BY <1>5, TokenFacts, AccountsAssumption DEF TokenEntry
<1>7. TokenCallOK(to, n, tRevokedAt, tNow)
  <2> HIDE DEF n
  <2>1. CASE to = "ask"
    BY <1>3, <2>1, TokenFacts DEF TokenCallOK
  <2>2. CASE to = "refused"
    BY <1>3, <1>5, <2>2, TokenFacts DEF TokenCallOK, TokenEntryOK
  <2>3. CASE to = "accepted"
    <3>1. tCache[i][t].until > tNow /\ ~tCache[i][t].revoked
      BY <1>6, <2>3, TokenFacts
    <3>2. tNow < tRevokedAt[t] + Ttl
      BY <1>5, <1>6, <3>1, TokenFacts DEF TokenEntryOK
    <3> HIDE DEF to
    <3> QED  BY <1>3, <2>3, <3>2, TokenFacts DEF TokenCallOK
  <2> QED  BY <2>1, <2>2, <2>3
<1>8. tCall' = [tCall EXCEPT ![c] = to] /\ tNote' = [tNote EXCEPT ![c] = n]
  OBVIOUS
<1> HIDE DEF n, to
<1> QED  BY <1>1, <1>2, <1>4, <1>7, <1>8, TokenOnly

LEMMA TokenAsk ==
  ASSUME TokensInv, NEW c \in Call, Tokens!Ask(c)
  PROVE  TokensInv'
<1> DEFINE read == tRevokedAt[tNote[c].token] # Tokens!Never
           n == [tNote[c] EXCEPT !.read = read]
<1>1. /\ tCall[c] = "ask" /\ tCall' = [tCall EXCEPT ![c] = "answer"]
      /\ UNCHANGED <<tNow, tRevokedAt, tCache, tMarked, tGrants>>
  BY DEF Tokens!Ask, Tokens!Step
<1>2. tNote' = [tNote EXCEPT ![c] = n]
  BY TokenFacts DEF Tokens!Ask
<1>3. read \in BOOLEAN
  OBVIOUS
<1>4. /\ n \in TokenNote /\ n.read = read /\ n.begun = tNote[c].begun
      /\ n.at = tNote[c].at /\ n.token = tNote[c].token
  BY <1>3, TokenFacts DEF TokenNote
<1>5. /\ tNote[c].at \in Instance /\ tNote[c].token \in Tokens!Token
      /\ tNote[c].begun <= tNow
  BY <1>1, TokenFacts DEF TokenCallOK
<1>6. ~read => tRevokedAt[tNote[c].token] = Tokens!Never
  OBVIOUS
<1>7. tNote[c].begun <= Tokens!Never
  BY <1>5, TokenFacts DEF Tokens!Never
<1> HIDE DEF n
<1>8. TokenCallOK("answer", n, tRevokedAt, tNow)
  BY <1>4, <1>5, <1>6, <1>7 DEF TokenCallOK
<1>9. "answer" \in TokenSteps
  BY DEF TokenSteps
<1> QED  BY <1>1, <1>2, <1>4, <1>8, <1>9, TokenOnly

\* An entry is put in the place of another.
LEMMA TokenCached ==
  ASSUME TokensInv, NEW i \in Instance, NEW t \in Tokens!Token, NEW entry \in TokenEntry,
         TokenEntryOK(entry, tRevokedAt[t], tNow)
  PROVE  /\ [tCache EXCEPT ![i][t] = entry] \in [Instance -> [Tokens!Token -> TokenEntry]]
         /\ EntriesOK([tCache EXCEPT ![i][t] = entry], tRevokedAt, tNow)
<1>1. /\ tCache \in [Instance -> [Tokens!Token -> TokenEntry]]
      /\ EntriesOK(tCache, tRevokedAt, tNow)
  BY TokenTypes DEF TokensInv
<1> QED  BY <1>1 DEF EntriesOK

LEMMA TokenStore ==
  ASSUME TokensInv, NEW c \in Call, Tokens!StoreAnswer(c)
  PROVE  TokensInv'
<1> DEFINE n == tNote[c]
           until == n.begun + IF n.read THEN KeptTtl ELSE Ttl
           entry == Tokens!Fresh([revoked |-> n.read, until |-> until], tNow)
           to == IF n.read THEN "refused" ELSE "accepted"
<1>1. /\ tCall[c] = "answer" /\ tCall' = [tCall EXCEPT ![c] = to]
      /\ UNCHANGED <<tNow, tRevokedAt, tNote, tMarked, tGrants>>
      /\ tCache' = [tCache EXCEPT ![n.at][n.token] = entry]
  BY DEF Tokens!StoreAnswer, Tokens!GoOn, Tokens!Step, Tokens!Store
<1>2. /\ n.at \in Instance /\ n.token \in Tokens!Token /\ n.begun <= tNow
      /\ IF n.read THEN tRevokedAt[n.token] # Tokens!Never
                   ELSE n.begun <= tRevokedAt[n.token]
  BY <1>1, TokenFacts DEF TokenCallOK
<1>3. n \in TokenNote /\ n.begun \in 0 .. MaxTime /\ n.read \in BOOLEAN
      /\ tRevokedAt[n.token] \in Nat
  BY <1>2, TokenFacts DEF TokenNote
<1>4. until \in 0 .. MaxTime + KeptTtl + Ttl
  BY <1>3, TokenFacts
<1>5. entry \in TokenEntry /\ TokenEntryOK(entry, tRevokedAt[n.token], tNow)
  <2>1. CASE until > tNow
    <3>1. entry = [revoked |-> n.read, until |-> until]
      BY <2>1 DEF Tokens!Fresh
    <3>2. entry \in TokenEntry
      BY <1>3, <1>4, <3>1 DEF TokenEntry
    <3>3. entry.revoked = n.read /\ entry.until = until
      BY <3>1
    <3>4. ~n.read => until = n.begun + Ttl
      OBVIOUS
    <3> QED  BY <1>2, <1>3, <3>2, <3>3, <3>4, TokenFacts DEF TokenEntryOK
  <2>2. CASE ~(until > tNow)
    <3>1. entry = Tokens!NoEntry
      BY <2>2 DEF Tokens!Fresh
    <3> QED  BY <1>3, <3>1, TokenNoEntry, TokenFacts DEF TokenEntryOK
  <2> QED  BY <2>1, <2>2
<1>6. TokenCallOK(to, n, tRevokedAt, tNow)
  <2>1. CASE n.read
    BY <1>2, <2>1 DEF TokenCallOK
  <2>2. CASE ~n.read
    BY <1>2, <1>3, <2>2, TokenFacts DEF TokenCallOK
  <2> QED  BY <2>1, <2>2
<1>7. to \in TokenSteps
  BY DEF TokenSteps
<1>8. tNote' = [tNote EXCEPT ![c] = n]
  BY <1>1, TokenFacts
<1> HIDE DEF entry, to, until
<1>9. /\ tCache' \in [Instance -> [Tokens!Token -> TokenEntry]]
      /\ EntriesOK(tCache', tRevokedAt, tNow)
  BY <1>1, <1>2, <1>5, TokenCached
<1> HIDE DEF n
<1> QED  BY <1>1, <1>3, <1>6, <1>7, <1>8, <1>9, TokenFacts, TokenOwn

LEMMA TokenVerdict ==
  ASSUME TokensInv, NEW c \in Call, Tokens!Verdict(c) \/ Tokens!PresentStepUp(c)
  PROVE  TokensInv'
<1>1. UNCHANGED <<tNow, tRevokedAt, tCache, tMarked, tGrants>>
  BY DEF Tokens!Verdict, Tokens!PresentStepUp
<1>2. CASE /\ tCall' = [tCall EXCEPT ![c] = "idle"]
           /\ tNote' = [tNote EXCEPT ![c] = Tokens!NoNote]
  <2>1. TokenCallOK("idle", Tokens!NoNote, tRevokedAt, tNow)
    BY TokenNoNote, TokenFacts DEF TokenCallOK
  <2>2. "idle" \in TokenSteps
    BY DEF TokenSteps
  <2> QED  BY <1>1, <1>2, <2>1, <2>2, TokenNoNote, TokenOnly
<1>3. CASE /\ tCall[c] = "accepted" /\ tCall' = [tCall EXCEPT ![c] = "revoke"]
           /\ UNCHANGED tNote
  <2>1. tNote' = [tNote EXCEPT ![c] = tNote[c]]
    BY <1>3, TokenFacts
  <2>2. TokenCallOK("revoke", tNote[c], tRevokedAt, tNow)
    BY <1>3, TokenFacts DEF TokenCallOK
  <2>3. "revoke" \in TokenSteps
    BY DEF TokenSteps
  <2> QED  BY <1>1, <1>3, <2>1, <2>2, <2>3, TokenFacts, TokenOnly
<1>4. CASE Tokens!PresentStepUp(c)
  <2> PICK i \in Instance, t \in Tokens!Token :
        /\ tCall' = [tCall EXCEPT ![c] = "claim"]
        /\ tNote' = [tNote EXCEPT ![c] = [Tokens!NoNote EXCEPT !.at = i, !.token = t]]
    BY <1>4 DEF Tokens!PresentStepUp, Tokens!Step, Tokens!Token
  <2> DEFINE n == [Tokens!NoNote EXCEPT !.at = i, !.token = t]
  <2>1. n \in TokenNote /\ n.begun = 0 /\ n.at = i /\ n.token = t
    BY TokenNoNote DEF TokenNote
  <2>2. tNote' = [tNote EXCEPT ![c] = n]
    OBVIOUS
  <2> HIDE DEF n
  <2>3. TokenCallOK("claim", n, tRevokedAt, tNow)
    BY <2>1, TokenFacts DEF TokenCallOK
  <2>4. "claim" \in TokenSteps
    BY DEF TokenSteps
  <2> QED  BY <1>1, <2>1, <2>2, <2>3, <2>4, TokenOnly
<1> QED  BY <1>2, <1>3, <1>4 DEF Tokens!Verdict, Tokens!Return, Tokens!GoOn, Tokens!Step

LEMMA TokenInsert ==
  ASSUME TokensInv, NEW c \in Call, Tokens!Insert(c)
  PROVE  TokensInv'
<1> DEFINE t == tNote[c].token
<1>1. /\ tCall[c] \in {"revoke", "claim"} /\ tCall' = [tCall EXCEPT ![c] = "mark"]
      /\ UNCHANGED <<tNow, tCache, tMarked, tNote>>
      /\ tRevokedAt' = [tRevokedAt EXCEPT ![t] = IF @ = Tokens!Never THEN tNow ELSE @]
      /\ \/ UNCHANGED tGrants
         \/ /\ tRevokedAt[t] = Tokens!Never
            /\ tGrants' = [tGrants EXCEPT ![t] = @ + 1]
  BY DEF Tokens!Insert, Tokens!GoOn, Tokens!Step, Tokens!InsertRow, Tokens!Grant
<1>2. /\ t \in Tokens!Token /\ tNote[c].at \in Instance /\ tNote[c].begun <= tNow
  BY <1>1, TokenFacts DEF TokenCallOK
<1>3. \A u \in Tokens!Token : tRevokedAt'[u] =
          IF u = t /\ tRevokedAt[t] = Tokens!Never THEN tNow ELSE tRevokedAt[u]
  BY <1>1, <1>2, TokenFacts
<1>4. tRevokedAt' \in [Tokens!Token -> 0 .. Tokens!Never]
  <2>1. tNow \in 0 .. Tokens!Never
    BY TokenFacts DEF Tokens!Never
  <2> QED  BY <1>1, <1>2, <2>1, TokenFacts
<1>5. RowsStay(tRevokedAt, tRevokedAt', tNow)
  BY <1>3 DEF RowsStay
<1>6. TokenCallOK("mark", tNote[c], tRevokedAt', tNow)
  BY <1>2, <1>3, TokenFacts DEF TokenCallOK
<1>7. EntriesOK(tCache', tRevokedAt', tNow)
  <2>1. ASSUME NEW i \in Instance, NEW u \in Tokens!Token
        PROVE  TokenEntryOK(tCache[i][u], tRevokedAt'[u], tNow)
    <3>1. TokenEntryOK(tCache[i][u], tRevokedAt[u], tNow)
      BY TokenFacts DEF EntriesOK
    <3>2. tRevokedAt'[u] = tRevokedAt[u] \/ tRevokedAt'[u] = tNow
      BY <1>3
    <3> QED  BY <3>1, <3>2, TokenFacts DEF TokenEntryOK
  <2> QED  BY <1>1, <2>1 DEF EntriesOK
<1>8. tGrants' \in [Tokens!Token -> Nat] /\ GrantsOK(tGrants', tRevokedAt')
  BY <1>1, <1>2, <1>3, TokenFacts DEF GrantsOK
<1>9. tNote' = [tNote EXCEPT ![c] = tNote[c]] /\ "mark" \in TokenSteps
  BY <1>1, TokenFacts DEF TokenSteps
<1> QED  BY <1>1, <1>4, <1>5, <1>6, <1>7, <1>8, <1>9, TokenFacts, TokenOwn

LEMMA TokenMark ==
  ASSUME TokensInv, NEW c \in Call, Tokens!Mark(c)
  PROVE  TokensInv'
<1> DEFINE i == tNote[c].at
           t == tNote[c].token
           entry == [revoked |-> TRUE, until |-> tNow + KeptTtl]
<1>1. /\ tCall[c] = "mark" /\ tCall' = [tCall EXCEPT ![c] = "idle"]
      /\ tNote' = [tNote EXCEPT ![c] = Tokens!NoNote]
      /\ UNCHANGED <<tNow, tRevokedAt, tGrants>>
      /\ tCache' = [tCache EXCEPT ![i][t] = entry]
      /\ tMarked' = [tMarked EXCEPT ![i] = @ \cup {t}]
  BY DEF Tokens!Mark, Tokens!Return, Tokens!Step
<1>2. i \in Instance /\ t \in Tokens!Token /\ tRevokedAt[t] # Tokens!Never
  BY <1>1, TokenFacts DEF TokenCallOK
<1>3. entry \in TokenEntry /\ entry.revoked
  BY TokenFacts DEF TokenEntry
<1>4. TokenEntryOK(entry, tRevokedAt[t], tNow)
  BY <1>2, <1>3 DEF TokenEntryOK
<1> HIDE DEF entry
<1>5. /\ tCache' \in [Instance -> [Tokens!Token -> TokenEntry]]
      /\ EntriesOK(tCache', tRevokedAt, tNow)
  BY <1>1, <1>2, <1>3, <1>4, TokenCached
<1>6. tMarked' \in [Instance -> SUBSET Tokens!Token]
  BY <1>1, <1>2, TokenFacts
<1>7. TokenCallOK("idle", Tokens!NoNote, tRevokedAt, tNow) /\ "idle" \in TokenSteps
  BY TokenNoNote, TokenFacts DEF TokenCallOK, TokenSteps
<1> QED  BY <1>1, <1>5, <1>6, <1>7, TokenNoNote, TokenFacts, TokenOwn

\* Time passes, or an entry is dropped: entries may go, nothing else happens.
LEMMA TokenPasses ==
  ASSUME TokensInv, Tokens!Tick \/ Tokens!Evict
  PROVE  TokensInv'
<1>1. /\ tNow \in 0 .. MaxTime /\ tRevokedAt \in [Tokens!Token -> 0 .. Tokens!Never]
      /\ tCache \in [Instance -> [Tokens!Token -> TokenEntry]]
      /\ tNote \in [Call -> TokenNote]
      /\ Ttl \in Nat /\ MaxTime \in Nat /\ Tokens!Never \in Nat
  BY TokenTypes, AccountsAssumption DEF TokensInv, Tokens!Never
<1>2. /\ UNCHANGED <<tRevokedAt, tCall, tNote, tMarked, tGrants>>
      /\ tNow' \in 0 .. MaxTime /\ tNow' >= tNow
  BY <1>1 DEF Tokens!Tick, Tokens!Evict, Tokens!calls
<1>3. /\ tCache' \in [Instance -> [Tokens!Token -> TokenEntry]]
      /\ \A i \in Instance, t \in Tokens!Token :
            tCache'[i][t] \in {tCache[i][t], Tokens!NoEntry}
  <2>1. CASE Tokens!Tick
    <3>1. tCache' = [i \in Instance |-> [t \in Tokens!Token |->
                        Tokens!Fresh(tCache[i][t], tNow + 1)]]
      BY <2>1 DEF Tokens!Tick
    <3>2. \A i \in Instance, t \in Tokens!Token :
              /\ Tokens!Fresh(tCache[i][t], tNow + 1) \in {tCache[i][t], Tokens!NoEntry}
              /\ Tokens!Fresh(tCache[i][t], tNow + 1) \in TokenEntry
      BY <1>1, TokenNoEntry DEF Tokens!Fresh
    <3> QED  BY <3>1, <3>2
  <2>2. CASE Tokens!Evict
    <3>1. PICK i \in Instance, t \in Tokens!Token :
              tCache' = [tCache EXCEPT ![i][t] = Tokens!NoEntry]
      BY <2>2 DEF Tokens!Evict
    <3> QED  BY <1>1, <3>1, TokenNoEntry
  <2> QED  BY <2>1, <2>2
<1>4. EntriesOK(tCache', tRevokedAt', tNow')
  <2>1. ASSUME NEW i \in Instance, NEW t \in Tokens!Token
        PROVE  TokenEntryOK(tCache'[i][t], tRevokedAt[t], tNow')
    <3>1. TokenEntryOK(tCache[i][t], tRevokedAt[t], tNow) /\ tCache[i][t] \in TokenEntry
      BY <1>1 DEF TokensInv, EntriesOK
    <3>2. tCache[i][t].until \in Nat /\ tRevokedAt[t] \in Nat
      BY <1>1, <3>1, AccountsAssumption DEF TokenEntry
    <3>3. tCache'[i][t] = tCache[i][t] \/ tCache'[i][t] = Tokens!NoEntry
      BY <1>3
    <3> QED  BY <1>1, <1>2, <3>1, <3>2, <3>3, TokenNoEntry DEF TokenEntryOK
  <2> QED  BY <1>2, <2>1 DEF EntriesOK
<1>5. \A c \in Call : TokenCallOK(tCall'[c], tNote'[c], tRevokedAt', tNow')
  <2>1. ASSUME NEW c \in Call
        PROVE  TokenCallOK(tCall[c], tNote[c], tRevokedAt, tNow')
    <3>1. TokenCallOK(tCall[c], tNote[c], tRevokedAt, tNow) /\ tNote[c].begun \in Nat
      BY <1>1 DEF TokensInv, TokenNote
    <3> QED  BY <1>1, <1>2, <3>1 DEF TokenCallOK
  <2> QED  BY <1>2, <2>1
<1>6. Tokens!TypeOK'
  BY <1>2, <1>3 DEF TokensInv, Tokens!TypeOK, TokenEntry
<1> QED  BY <1>2, <1>4, <1>5, <1>6 DEF TokensInv

LEMMA TokensNext == TokensInv /\ Tokens!Next => TokensInv'
<1> SUFFICES ASSUME TokensInv, Tokens!Next PROVE TokensInv'
  OBVIOUS
<1> QED  BY TokenPasses, TokenLookUp, TokenAsk, TokenStore, TokenVerdict, TokenInsert,
            TokenMark DEF Tokens!Next

LEMMA TokensMean == TokensInv => Tokens!VerdictIsRecent /\ Tokens!StepUpOnce
  BY DEF TokensInv, TokenCallOK, GrantsOK, Tokens!VerdictIsRecent, Tokens!StepUpOnce

-----------------------------------------------------------------------------
(* API keys.  A lookup that found its key active began before the revocation  *)
(* and takes no longer than MaxLoad, so what it stores expires soon after.    *)

KeyEntry == [hit : BOOLEAN, until : 0 .. MaxTime + Ttl + MissTtl]

KeyNote == [at : Instance \cup {"none"}, key : Key \cup {"none"},
            begun : 0 .. MaxTime, read : BOOLEAN, prior : SUBSET Key]

KeySteps == {"idle", "read", "store", "accepted", "refused", "revoke_prior",
             "drop_prior", "insert", "revoke", "drop"}

KeyStatus == {"absent", "active", "revoked"}

\* What a cached entry says of a key of this status, revoked at the time since.
KeyEntryOK(entry, state, since, time) ==
    /\ entry.hit => /\ entry.until <= since + Ttl + MaxLoad
                    /\ entry.until <= time + Ttl
    /\ entry # Keys!NoEntry =>
          entry.until > time /\ (~entry.hit => state = "revoked")

\* What a request knows of its key at each step.
KeyCallOK(step, n, state, since, time) ==
    /\ n.begun <= time
    /\ step \notin {"idle", "insert"} => n.at \in Instance
    /\ step \in {"read", "store", "accepted", "refused", "revoke", "drop"} =>
          n.key \in Key
    /\ step \in {"read", "store"} =>
          time <= n.begun + MaxLoad /\ state[n.key] # "absent"
    /\ step = "store" => IF n.read THEN n.begun <= since[n.key]
                                   ELSE state[n.key] = "revoked"
    /\ step = "accepted" => n.begun < since[n.key] + Ttl + MaxLoad
    /\ step = "refused" => state[n.key] = "revoked"

\* A key that is not revoked has no time of revocation.
KeysDated(state, since) ==
    \A k \in Key : state[k] # "revoked" => since[k] = Keys!Never

\* Keys are made, and revoked now.
KeysGoOn(state, since, state2, since2, time) ==
    \A k \in Key :
        /\ state[k] # "absent" => state2[k] # "absent"
        /\ state[k] = "revoked" => state2[k] = "revoked"
        /\ \/ since2[k] = since[k]
           \/ since[k] = Keys!Never /\ since2[k] = time

KeyEntriesOK(cache, state, since, time) ==
    \A i \in Instance, k \in Key : KeyEntryOK(cache[i][k], state[k], since[k], time)

KeysInv ==
    /\ Keys!TypeOK
    /\ KeysDated(kStatus, kRevokedAt)
    /\ KeyEntriesOK(kCache, kStatus, kRevokedAt, kNow)
    /\ \A c \in Call : KeyCallOK(kCall[c], kNote[c], kStatus, kRevokedAt, kNow)

LEMMA KeyTypes ==
    Keys!TypeOK <=>
        /\ kNow \in 0 .. MaxTime
        /\ kStatus \in [Key -> KeyStatus]
        /\ kRevokedAt \in [Key -> 0 .. Keys!Never]
        /\ kCache \in [Instance -> [Key -> KeyEntry]]
        /\ kCall \in [Call -> KeySteps]
        /\ kNote \in [Call -> KeyNote]
  BY DEF Keys!TypeOK, KeyEntry, KeyNote, KeySteps, KeyStatus

LEMMA KeyNoEntry ==
    Keys!NoEntry \in KeyEntry /\ ~Keys!NoEntry.hit /\ Keys!NoEntry.until = 0
  BY AccountsAssumption DEF Keys!NoEntry, KeyEntry

LEMMA KeyNoNote ==
    /\ Keys!NoNote \in KeyNote /\ Keys!NoNote.begun = 0 /\ Keys!NoNote.read = FALSE
  BY AccountsAssumption DEF Keys!NoNote, KeyNote

LEMMA KeysInit == Keys!Init => KeysInv
<1> SUFFICES ASSUME Keys!Init PROVE KeysInv
  OBVIOUS
<1>1. /\ kNow = 0 /\ kStatus = [k \in Key |-> "absent"]
      /\ kRevokedAt = [k \in Key |-> Keys!Never]
      /\ kCache = [i \in Instance |-> [k \in Key |-> Keys!NoEntry]]
      /\ kCall = [c \in Call |-> "idle"]
      /\ kNote = [c \in Call |-> Keys!NoNote]
  BY DEF Keys!Init
<1>2. kNow \in 0 .. MaxTime /\ kRevokedAt \in [Key -> 0 .. Keys!Never]
  BY <1>1, AccountsAssumption DEF Keys!Never
<1>3. kCache \in [Instance -> [Key -> KeyEntry]]
  BY <1>1, KeyNoEntry
<1>4. kCall \in [Call -> KeySteps] /\ kNote \in [Call -> KeyNote]
      /\ kStatus \in [Key -> KeyStatus]
  BY <1>1, KeyNoNote DEF KeySteps, KeyStatus
<1>5. Keys!TypeOK
  BY <1>2, <1>3, <1>4, KeyTypes
<1>6. KeyEntriesOK(kCache, kStatus, kRevokedAt, kNow)
  BY <1>1, KeyNoEntry DEF KeyEntriesOK, KeyEntryOK
<1>7. \A c \in Call : KeyCallOK(kCall[c], kNote[c], kStatus, kRevokedAt, kNow)
  BY <1>1, KeyNoNote DEF KeyCallOK
<1> QED  BY <1>1, <1>5, <1>6, <1>7 DEF KeysInv, KeysDated

\* What a request starts from.
LEMMA KeyFacts ==
  ASSUME KeysInv, NEW c \in Call
  PROVE  /\ kNow \in Nat /\ kNow \in 0 .. MaxTime /\ kNow < Keys!Never
         /\ Keys!Never \in Nat /\ MaxTime \in Nat /\ kNow <= MaxTime
         /\ kStatus \in [Key -> KeyStatus]
         /\ kRevokedAt \in [Key -> 0 .. Keys!Never] /\ kRevokedAt \in [Key -> Nat]
         /\ kCache \in [Instance -> [Key -> KeyEntry]]
         /\ kNote \in [Call -> KeyNote] /\ kNote[c] \in KeyNote
         /\ kCall \in [Call -> KeySteps]
         /\ kNote[c].begun \in Nat /\ kNote[c].read \in BOOLEAN
         /\ kNote[c].prior \in SUBSET Key
         /\ KeysDated(kStatus, kRevokedAt)
         /\ KeyEntriesOK(kCache, kStatus, kRevokedAt, kNow)
         /\ KeyCallOK(kCall[c], kNote[c], kStatus, kRevokedAt, kNow)
         /\ KeysGoOn(kStatus, kRevokedAt, kStatus, kRevokedAt, kNow)
         /\ Ttl \in Nat /\ Ttl > 0 /\ MissTtl \in Nat /\ MaxLoad \in Nat
<1>1. /\ kNow \in 0 .. MaxTime /\ kStatus \in [Key -> KeyStatus]
      /\ kRevokedAt \in [Key -> 0 .. Keys!Never]
      /\ kCache \in [Instance -> [Key -> KeyEntry]]
      /\ kNote \in [Call -> KeyNote] /\ kNote[c] \in KeyNote
      /\ kCall \in [Call -> KeySteps]
  BY KeyTypes DEF KeysInv
<1>2. /\ Ttl \in Nat /\ Ttl > 0 /\ MissTtl \in Nat /\ MaxLoad \in Nat
      /\ MaxTime \in Nat /\ Keys!Never \in Nat /\ kNow < Keys!Never
  BY <1>1, AccountsAssumption DEF Keys!Never
<1>3. kRevokedAt \in [Key -> Nat]
  BY <1>1, <1>2
<1>4. kNote[c].begun \in Nat /\ kNote[c].read \in BOOLEAN /\ kNote[c].prior \in SUBSET Key
  BY <1>1, <1>2 DEF KeyNote
<1>5. KeysGoOn(kStatus, kRevokedAt, kStatus, kRevokedAt, kNow)
  BY DEF KeysGoOn
<1> QED  BY <1>1, <1>2, <1>3, <1>4, <1>5 DEF KeysInv

\* What a request still knows when keys are made and revoked.
LEMMA KeyCallStays ==
  ASSUME KeysInv, NEW c \in Call,
         kStatus' \in [Key -> KeyStatus], kRevokedAt' \in [Key -> 0 .. Keys!Never],
         KeysGoOn(kStatus, kRevokedAt, kStatus', kRevokedAt', kNow)
  PROVE  KeyCallOK(kCall[c], kNote[c], kStatus', kRevokedAt', kNow)
<1> DEFINE n == kNote[c]
           k == n.key
           step == kCall[c]
<1>1. KeyCallOK(step, n, kStatus, kRevokedAt, kNow) /\ n.begun \in Nat
  BY KeyFacts
<1>2. CASE step \notin {"read", "store", "accepted", "refused"}
  BY <1>1, <1>2 DEF KeyCallOK
<1>3. CASE step \in {"read", "store", "accepted", "refused"}
  <2>1. k \in Key
    BY <1>1, <1>3 DEF KeyCallOK
  <2>2. /\ kStatus[k] # "absent" => kStatus'[k] # "absent"
        /\ kStatus[k] = "revoked" => kStatus'[k] = "revoked"
        /\ kRevokedAt'[k] = kRevokedAt[k] \/ kRevokedAt'[k] = kNow
    BY <2>1 DEF KeysGoOn
  <2>3. n.begun <= kNow
    BY <1>1 DEF KeyCallOK
  <2>4. kRevokedAt[k] \in Nat /\ n.begun < kNow + Ttl + MaxLoad
    BY <1>1, <2>1, <2>3, KeyFacts
  <2>5. step = "store" => IF n.read THEN n.begun <= kRevokedAt'[k]
                                    ELSE kStatus'[k] = "revoked"
    BY <1>1, <2>2, <2>3 DEF KeyCallOK
  <2>6. step = "accepted" => n.begun < kRevokedAt'[k] + Ttl + MaxLoad
    BY <1>1, <2>2, <2>4 DEF KeyCallOK
  <2>7. KeyCallOK(step, n, kStatus', kRevokedAt', kNow)
    <3> HIDE DEF n, step
    <3> QED  BY <1>1, <1>3, <2>1, <2>2, <2>5, <2>6 DEF KeyCallOK
  <2> QED  BY <2>7
<1> QED  BY <1>2, <1>3

\* One request moves: what it goes on with, and what it does to the tables.
LEMMA KeyOwn ==
  ASSUME KeysInv, NEW c \in Call, NEW to \in KeySteps, NEW n \in KeyNote,
         kCall' = [kCall EXCEPT ![c] = to], kNote' = [kNote EXCEPT ![c] = n],
         kNow' = kNow, kStatus' \in [Key -> KeyStatus],
         kRevokedAt' \in [Key -> 0 .. Keys!Never],
         KeysGoOn(kStatus, kRevokedAt, kStatus', kRevokedAt', kNow),
         KeysDated(kStatus', kRevokedAt'),
         KeyCallOK(to, n, kStatus', kRevokedAt', kNow),
         kCache' \in [Instance -> [Key -> KeyEntry]],
         KeyEntriesOK(kCache', kStatus', kRevokedAt', kNow)
  PROVE  KeysInv'
<1>1. /\ kNow \in 0 .. MaxTime
      /\ kCall \in [Call -> KeySteps] /\ kNote \in [Call -> KeyNote]
  BY KeyTypes DEF KeysInv
<1>2. /\ kCall' \in [Call -> KeySteps] /\ kNote' \in [Call -> KeyNote]
      /\ \A b \in Call : kCall'[b] = IF b = c THEN to ELSE kCall[b]
      /\ \A b \in Call : kNote'[b] = IF b = c THEN n ELSE kNote[b]
  BY <1>1
<1>3. Keys!TypeOK'
  BY <1>1, <1>2 DEF Keys!TypeOK, KeySteps, KeyNote, KeyEntry, KeyStatus
<1>4. ASSUME NEW b \in Call
      PROVE  KeyCallOK(kCall'[b], kNote'[b], kStatus', kRevokedAt', kNow')
  <2>1. KeyCallOK(kCall[b], kNote[b], kStatus', kRevokedAt', kNow)
    BY KeyCallStays
  <2> QED  BY <1>2, <2>1
<1> QED  BY <1>3, <1>4 DEF KeysInv

\* A request that leaves the keys and the caches alone.
LEMMA KeyOnly ==
  ASSUME KeysInv, NEW c \in Call, NEW to \in KeySteps, NEW n \in KeyNote,
         kCall' = [kCall EXCEPT ![c] = to], kNote' = [kNote EXCEPT ![c] = n],
         UNCHANGED <<kNow, kStatus, kRevokedAt, kCache>>,
         KeyCallOK(to, n, kStatus, kRevokedAt, kNow)
  PROVE  KeysInv'
  BY KeyFacts, KeyOwn

LEMMA KeyVerdictCases ==
  ASSUME NEW hit \in BOOLEAN
  PROVE  /\ hit => Keys!Verdict(hit) = "accepted"
         /\ ~hit => Keys!Verdict(hit) = "refused"
         /\ Keys!Verdict(hit) \in KeySteps
  BY DEF Keys!Verdict, KeySteps

LEMMA KeyLookUp ==
  ASSUME KeysInv, NEW c \in Call, Keys!LookUp(c)
  PROVE  KeysInv'
<1> PICK i \in Instance, k \in Key :
        /\ kStatus[k] # "absent"
        /\ kCall' = [kCall EXCEPT ![c] =
                        IF kCache[i][k] = Keys!NoEntry THEN "read"
                        ELSE Keys!Verdict(kCache[i][k].hit)]
        /\ kNote' = [kNote EXCEPT ![c] = Keys!Entered(i, k)]
        /\ UNCHANGED <<kNow, kStatus, kRevokedAt, kCache>>
  BY DEF Keys!LookUp, Keys!Step
<1> DEFINE entry == kCache[i][k]
           n == Keys!Entered(i, k)
           to == IF entry = Keys!NoEntry THEN "read" ELSE Keys!Verdict(entry.hit)
<1>1. n \in KeyNote /\ n.begun = kNow /\ n.at = i /\ n.key = k
  BY KeyNoNote, KeyFacts DEF Keys!Entered, KeyNote
<1>2. entry \in KeyEntry /\ KeyEntryOK(entry, kStatus[k], kRevokedAt[k], kNow)
  BY KeyFacts DEF KeyEntriesOK
<1>3. entry.hit \in BOOLEAN /\ entry.until \in Nat /\ kRevokedAt[k] \in Nat
  BY <1>2, KeyFacts DEF KeyEntry
<1>4. to \in KeySteps
  BY <1>3, KeyVerdictCases DEF KeySteps
<1>5. KeyCallOK(to, n, kStatus, kRevokedAt, kNow)
  <2>1. CASE entry = Keys!NoEntry
    <3>1. to = "read"
      BY <2>1
    <3> HIDE DEF n, to
    <3> QED  BY <1>1, <3>1, KeyFacts DEF KeyCallOK
  <2>2. CASE entry # Keys!NoEntry /\ entry.hit
    <3>1. to = "accepted"
      BY <1>3, <2>2, KeyVerdictCases
    <3>2. kNow < kRevokedAt[k] + Ttl + MaxLoad
      BY <1>2, <1>3, <2>2, KeyFacts DEF KeyEntryOK
    <3> HIDE DEF n, to
    <3> QED  BY <1>1, <3>1, <3>2, KeyFacts DEF KeyCallOK
  <2>3. CASE entry # Keys!NoEntry /\ ~entry.hit
    <3>1. to = "refused"
      BY <1>3, <2>3, KeyVerdictCases
    <3>2. kStatus[k] = "revoked"
      BY <1>2, <2>3 DEF KeyEntryOK
    <3> HIDE DEF n, to
    <3> QED  BY <1>1, <3>1, <3>2, KeyFacts DEF KeyCallOK
  <2> QED  BY <2>1, <2>2, <2>3
<1>6. kCall' = [kCall EXCEPT ![c] = to] /\ kNote' = [kNote EXCEPT ![c] = n]
  OBVIOUS
<1> HIDE DEF n, to
<1> QED  BY <1>1, <1>4, <1>5, <1>6, KeyOnly

LEMMA KeyRead ==
  ASSUME KeysInv, NEW c \in Call, Keys!ReadKey(c)
  PROVE  KeysInv'
<1> DEFINE read == kNote[c].key \in Keys!Active
           n == [kNote[c] EXCEPT !.read = read]
<1>1. /\ kCall[c] = "read" /\ kCall' = [kCall EXCEPT ![c] = "store"]
      /\ UNCHANGED <<kNow, kStatus, kRevokedAt, kCache>>
  BY DEF Keys!ReadKey, Keys!Step
<1>2. kNote' = [kNote EXCEPT ![c] = n]
  BY KeyFacts DEF Keys!ReadKey
<1>3. read \in BOOLEAN
  OBVIOUS
<1>4. /\ n \in KeyNote /\ n.read = read /\ n.begun = kNote[c].begun
      /\ n.at = kNote[c].at /\ n.key = kNote[c].key
  BY <1>3, KeyFacts DEF KeyNote
<1>5. /\ kNote[c].at \in Instance /\ kNote[c].key \in Key
      /\ kNote[c].begun <= kNow /\ kNow <= kNote[c].begun + MaxLoad
      /\ kStatus[kNote[c].key] # "absent"
  BY <1>1, KeyFacts DEF KeyCallOK
<1>6. read => kNote[c].begun <= kRevokedAt[kNote[c].key]
  BY <1>5, KeyFacts DEF Keys!Active, KeysDated
<1>7. ~read => kStatus[kNote[c].key] = "revoked"
  BY <1>5, KeyFacts DEF Keys!Active, KeyStatus
<1> HIDE DEF n, read
<1>8. KeyCallOK("store", n, kStatus, kRevokedAt, kNow)
  BY <1>4, <1>5, <1>6, <1>7 DEF KeyCallOK
<1>9. "store" \in KeySteps
  BY DEF KeySteps
<1> QED  BY <1>1, <1>2, <1>4, <1>8, <1>9, KeyOnly

LEMMA KeyStore ==
  ASSUME KeysInv, NEW c \in Call, Keys!StoreEntry(c)
  PROVE  KeysInv'
<1> DEFINE n == kNote[c]
           until == kNow + IF n.read THEN Ttl ELSE MissTtl
           entry == Keys!Fresh([hit |-> n.read, until |-> until], kNow)
           to == Keys!Verdict(n.read)
<1>1. /\ kCall[c] = "store" /\ kCall' = [kCall EXCEPT ![c] = to]
      /\ UNCHANGED <<kNow, kStatus, kRevokedAt, kNote>>
      /\ kCache' = [kCache EXCEPT ![n.at][n.key] = entry]
  BY DEF Keys!StoreEntry, Keys!GoOn, Keys!Step
<1>2. /\ n.at \in Instance /\ n.key \in Key
      /\ n.begun <= kNow /\ kNow <= n.begun + MaxLoad
      /\ IF n.read THEN n.begun <= kRevokedAt[n.key]
                   ELSE kStatus[n.key] = "revoked"
  BY <1>1, KeyFacts DEF KeyCallOK
<1>3. n \in KeyNote /\ n.begun \in Nat /\ n.read \in BOOLEAN
      /\ kRevokedAt[n.key] \in Nat
  BY <1>2, KeyFacts
<1>4. until \in 0 .. MaxTime + Ttl + MissTtl /\ until \in Nat
  BY <1>3, KeyFacts
<1>5. entry \in KeyEntry /\ KeyEntryOK(entry, kStatus[n.key], kRevokedAt[n.key], kNow)
  <2>1. CASE until > kNow
    <3>1. entry = [hit |-> n.read, until |-> until]
      BY <2>1 DEF Keys!Fresh
    <3>2. entry \in KeyEntry
      BY <1>3, <1>4, <3>1 DEF KeyEntry
    <3>3. entry.hit = n.read /\ entry.until = until
      BY <3>1
    <3>4. n.read => until = kNow + Ttl
      OBVIOUS
    <3> QED  BY <1>2, <1>3, <1>4, <2>1, <3>2, <3>3, <3>4, KeyFacts DEF KeyEntryOK
  <2>2. CASE ~(until > kNow)
    <3>1. entry = Keys!NoEntry
      BY <2>2 DEF Keys!Fresh
    <3> QED  BY <1>3, <3>1, KeyNoEntry, KeyFacts DEF KeyEntryOK
  <2> QED  BY <2>1, <2>2
<1>6. /\ to \in KeySteps
      /\ KeyCallOK(to, n, kStatus, kRevokedAt, kNow)
  <2>1. CASE n.read
    <3>1. to = "accepted" /\ to \in KeySteps
      BY <1>3, <2>1, KeyVerdictCases
    <3>2. n.begun < kRevokedAt[n.key] + Ttl + MaxLoad
      BY <1>2, <1>3, <2>1, KeyFacts
    <3> HIDE DEF to, n
    <3> QED  BY <1>2, <3>1, <3>2 DEF KeyCallOK
  <2>2. CASE ~n.read
    <3>1. to = "refused" /\ to \in KeySteps
      BY <1>3, <2>2, KeyVerdictCases
    <3> HIDE DEF to, n
    <3> QED  BY <1>2, <2>2, <3>1 DEF KeyCallOK
  <2> QED  BY <1>3, <2>1, <2>2
<1>7. kNote' = [kNote EXCEPT ![c] = n]
  BY <1>1, KeyFacts
<1> HIDE DEF entry, to, until, n
<1>8. /\ kCache' \in [Instance -> [Key -> KeyEntry]]
      /\ KeyEntriesOK(kCache', kStatus, kRevokedAt, kNow)
  BY <1>1, <1>2, <1>5, KeyFacts DEF KeyEntriesOK
<1> QED  BY <1>1, <1>3, <1>6, <1>7, <1>8, KeyFacts, KeyOwn

\* A request ends.
LEMMA KeyEnds ==
  ASSUME KeysInv, NEW c \in Call,
         kCall' = [kCall EXCEPT ![c] = "idle"],
         kNote' = [kNote EXCEPT ![c] = Keys!NoNote],
         UNCHANGED <<kNow, kRevokedAt>>, kStatus' \in [Key -> KeyStatus],
         KeysGoOn(kStatus, kRevokedAt, kStatus', kRevokedAt', kNow),
         KeysDated(kStatus', kRevokedAt'),
         kCache' \in [Instance -> [Key -> KeyEntry]],
         KeyEntriesOK(kCache', kStatus', kRevokedAt', kNow)
  PROVE  KeysInv'
<1>1. "idle" \in KeySteps
  BY DEF KeySteps
<1>2. KeyCallOK("idle", Keys!NoNote, kStatus', kRevokedAt', kNow)
  BY KeyNoNote, KeyFacts DEF KeyCallOK
<1> QED  BY <1>1, <1>2, KeyNoNote, KeyFacts, KeyOwn

LEMMA KeyAnswer ==
  ASSUME KeysInv, NEW c \in Call, Keys!Answer(c)
  PROVE  KeysInv'
  BY KeyFacts, KeyEnds DEF Keys!Answer, Keys!Return, Keys!Step

\* Keys of a set are dropped from one cache.
LEMMA KeyDropped ==
  ASSUME KeysInv, NEW i, NEW keys, Keys!Drop(i, keys)
  PROVE  /\ kCache' \in [Instance -> [Key -> KeyEntry]]
         /\ \A j \in Instance, k \in Key : kCache'[j][k] \in {kCache[j][k], Keys!NoEntry}
         /\ KeyEntriesOK(kCache', kStatus, kRevokedAt, kNow)
<1> DEFINE new == [k \in Key |-> IF k \in keys THEN Keys!NoEntry ELSE kCache[i][k]]
<1>1. /\ kCache \in [Instance -> [Key -> KeyEntry]]
      /\ KeyEntriesOK(kCache, kStatus, kRevokedAt, kNow)
      /\ kRevokedAt \in [Key -> 0 .. Keys!Never] /\ kNow \in 0 .. MaxTime
  BY KeyTypes DEF KeysInv
<1>2. kCache' = [kCache EXCEPT ![i] = new]
  BY DEF Keys!Drop
<1>3. \A k \in Key : new[k] \in {kCache[i][k], Keys!NoEntry}
  OBVIOUS
<1>4. i \in Instance => new \in [Key -> KeyEntry]
  BY <1>1, KeyNoEntry
<1> HIDE DEF new
<1>5. kCache' \in [Instance -> [Key -> KeyEntry]]
  BY <1>1, <1>2, <1>4
<1>6. \A j \in Instance, k \in Key : kCache'[j][k] \in {kCache[j][k], Keys!NoEntry}
  BY <1>1, <1>2, <1>3
<1>7. ASSUME NEW j \in Instance, NEW k \in Key
      PROVE  KeyEntryOK(kCache'[j][k], kStatus[k], kRevokedAt[k], kNow)
  <2>1. KeyEntryOK(kCache[j][k], kStatus[k], kRevokedAt[k], kNow)
    BY <1>1 DEF KeyEntriesOK
  <2>2. kCache'[j][k] = kCache[j][k] \/ kCache'[j][k] = Keys!NoEntry
    BY <1>6
  <2> QED  BY <2>1, <2>2, KeyNoEntry DEF KeyEntryOK
<1> QED  BY <1>5, <1>6, <1>7 DEF KeyEntriesOK

LEMMA KeyReadPrior ==
  ASSUME KeysInv, NEW c \in Call, Keys!ReadPrior(c) \/ Keys!FindKey(c)
  PROVE  KeysInv'
<1>1. UNCHANGED <<kNow, kStatus, kRevokedAt, kCache>>
  BY DEF Keys!ReadPrior, Keys!FindKey
<1>2. PICK to \in {"insert", "revoke_prior", "revoke"}, i \in Instance, n \in KeyNote :
        /\ kCall' = [kCall EXCEPT ![c] = to]
        /\ kNote' = [kNote EXCEPT ![c] = n]
        /\ n.begun = 0 /\ n.at = i /\ (to = "revoke" => n.key \in Key)
  <2>1. CASE Keys!ReadPrior(c)
    <3>1. PICK i \in Instance : kNote' = [kNote EXCEPT ![c] =
              [Keys!NoNote EXCEPT !.at = i, !.prior = Keys!Active]]
      BY <2>1 DEF Keys!ReadPrior
    <3>2. Keys!Active \in SUBSET Key
      BY DEF Keys!Active
    <3> DEFINE n == [Keys!NoNote EXCEPT !.at = i, !.prior = Keys!Active]
    <3>3. n \in KeyNote /\ n.begun = 0 /\ n.at = i
      BY <3>2, KeyNoNote DEF KeyNote
    <3>4. kNote' = [kNote EXCEPT ![c] = n]
      BY <3>1
    <3>5. \/ kCall' = [kCall EXCEPT ![c] = "insert"]
          \/ kCall' = [kCall EXCEPT ![c] = "revoke_prior"]
      BY <2>1 DEF Keys!ReadPrior, Keys!Step
    <3> HIDE DEF n
    <3> QED  BY <3>3, <3>4, <3>5
  <2>2. CASE Keys!FindKey(c)
    <3>1. PICK i \in Instance, k \in Key :
              /\ kCall' = [kCall EXCEPT ![c] = "revoke"]
              /\ kNote' = [kNote EXCEPT ![c] =
                              [Keys!NoNote EXCEPT !.at = i, !.key = k]]
      BY <2>2 DEF Keys!FindKey, Keys!Step
    <3> DEFINE n == [Keys!NoNote EXCEPT !.at = i, !.key = k]
    <3>2. n \in KeyNote /\ n.begun = 0 /\ n.at = i /\ n.key = k
      BY KeyNoNote DEF KeyNote
    <3>3. kNote' = [kNote EXCEPT ![c] = n]
      BY <3>1
    <3> HIDE DEF n
    <3> QED  BY <3>1, <3>2, <3>3
  <2> QED  BY <2>1, <2>2
<1>3. to \in KeySteps
  BY DEF KeySteps
<1>4. KeyCallOK(to, n, kStatus, kRevokedAt, kNow)
  BY <1>2, KeyFacts DEF KeyCallOK
<1> QED  BY <1>1, <1>2, <1>3, <1>4, KeyOnly

\* What revoking a set of keys does.
LEMMA KeysRevoked ==
  ASSUME KeysInv, NEW keys, Keys!RevokeAll(keys)
  PROVE  /\ kStatus' \in [Key -> KeyStatus] /\ kRevokedAt' \in [Key -> 0 .. Keys!Never]
         /\ KeysGoOn(kStatus, kRevokedAt, kStatus', kRevokedAt', kNow)
         /\ KeysDated(kStatus', kRevokedAt')
         /\ KeyEntriesOK(kCache, kStatus', kRevokedAt', kNow)
<1>1. /\ kNow \in 0 .. MaxTime /\ kStatus \in [Key -> KeyStatus]
      /\ kRevokedAt \in [Key -> 0 .. Keys!Never] /\ KeysDated(kStatus, kRevokedAt)
      /\ KeyEntriesOK(kCache, kStatus, kRevokedAt, kNow)
      /\ kCache \in [Instance -> [Key -> KeyEntry]]
  BY KeyTypes DEF KeysInv
<1>2. /\ kNow \in Nat /\ kNow \in 0 .. Keys!Never /\ Ttl \in Nat /\ MaxLoad \in Nat
      /\ Keys!Never \in Nat
  BY <1>1, AccountsAssumption DEF Keys!Never
<1>3. \A k \in Key :
        /\ kStatus'[k] = IF k \in keys THEN "revoked" ELSE kStatus[k]
        /\ kRevokedAt'[k] = IF k \in keys /\ kStatus[k] = "active"
                            THEN kNow ELSE kRevokedAt[k]
  BY DEF Keys!RevokeAll
<1>4. kStatus' \in [Key -> KeyStatus]
  <2>1. "revoked" \in KeyStatus
    BY DEF KeyStatus
  <2> QED  BY <1>1, <2>1 DEF Keys!RevokeAll
<1>5. kRevokedAt' \in [Key -> 0 .. Keys!Never]
  BY <1>1, <1>2 DEF Keys!RevokeAll
<1>6. KeysGoOn(kStatus, kRevokedAt, kStatus', kRevokedAt', kNow)
  BY <1>1, <1>3 DEF KeysGoOn, KeysDated
<1>7. KeysDated(kStatus', kRevokedAt')
  BY <1>1, <1>3 DEF KeysDated
<1>8. ASSUME NEW i \in Instance, NEW k \in Key
      PROVE  KeyEntryOK(kCache[i][k], kStatus'[k], kRevokedAt'[k], kNow)
  <2>1. KeyEntryOK(kCache[i][k], kStatus[k], kRevokedAt[k], kNow)
        /\ kCache[i][k] \in KeyEntry
    BY <1>1 DEF KeyEntriesOK
  <2>2. /\ kStatus[k] = "revoked" => kStatus'[k] = "revoked"
        /\ kRevokedAt'[k] = kRevokedAt[k] \/ kRevokedAt'[k] = kNow
    BY <1>3
  <2>3. kCache[i][k].until \in Nat
    BY <2>1, AccountsAssumption DEF KeyEntry
  <2> QED  BY <1>2, <2>1, <2>2, <2>3 DEF KeyEntryOK
<1> QED  BY <1>4, <1>5, <1>6, <1>7, <1>8 DEF KeyEntriesOK

LEMMA KeyRevoke ==
  ASSUME KeysInv, NEW c \in Call, Keys!RevokePrior(c) \/ Keys!RevokeKey(c)
  PROVE  KeysInv'
<1>1. PICK to \in {"drop_prior", "drop"} :
        /\ kCall[c] = IF to = "drop" THEN "revoke" ELSE "revoke_prior"
        /\ kCall' = [kCall EXCEPT ![c] = to]
  BY DEF Keys!RevokePrior, Keys!RevokeKey, Keys!GoOn, Keys!Step
<1>2. UNCHANGED <<kNow, kCache, kNote>>
  BY DEF Keys!RevokePrior, Keys!RevokeKey, Keys!GoOn
<1>3. Keys!RevokeAll(Keys!Active) \/ Keys!RevokeAll({kNote[c].key})
  BY DEF Keys!RevokePrior, Keys!RevokeKey
<1>4. /\ kStatus' \in [Key -> KeyStatus] /\ kRevokedAt' \in [Key -> 0 .. Keys!Never]
      /\ KeysGoOn(kStatus, kRevokedAt, kStatus', kRevokedAt', kNow)
      /\ KeysDated(kStatus', kRevokedAt')
      /\ KeyEntriesOK(kCache, kStatus', kRevokedAt', kNow)
  BY <1>3, KeysRevoked
<1>5. KeyCallOK(to, kNote[c], kStatus', kRevokedAt', kNow)
  BY <1>1, KeyFacts DEF KeyCallOK
<1>6. to \in KeySteps /\ kNote' = [kNote EXCEPT ![c] = kNote[c]]
  BY <1>2, KeyFacts DEF KeySteps
<1> QED  BY <1>1, <1>2, <1>4, <1>5, <1>6, KeyFacts, KeyOwn

LEMMA KeyDrop ==
  ASSUME KeysInv, NEW c \in Call, Keys!DropPrior(c) \/ Keys!DropKey(c)
  PROVE  KeysInv'
<1>1. UNCHANGED <<kNow, kStatus, kRevokedAt>>
  BY DEF Keys!DropPrior, Keys!DropKey
<1>2. /\ kCache' \in [Instance -> [Key -> KeyEntry]]
      /\ KeyEntriesOK(kCache', kStatus, kRevokedAt, kNow)
  BY KeyDropped DEF Keys!DropPrior, Keys!DropKey
<1>3. CASE Keys!DropPrior(c)
  <2> DEFINE n == [kNote[c] EXCEPT !.prior = {}]
  <2>1. kCall[c] = "drop_prior" /\ kCall' = [kCall EXCEPT ![c] = "insert"]
    BY <1>3 DEF Keys!DropPrior, Keys!Step
  <2>2. kNote' = [kNote EXCEPT ![c] = n]
    BY <1>3, KeyFacts DEF Keys!DropPrior
  <2>3. n \in KeyNote /\ n.begun = kNote[c].begun
    BY KeyFacts DEF KeyNote
  <2> HIDE DEF n
  <2>4. KeyCallOK("insert", n, kStatus, kRevokedAt, kNow)
    BY <2>3, KeyFacts DEF KeyCallOK
  <2>5. "insert" \in KeySteps
    BY DEF KeySteps
  <2> QED  BY <1>1, <1>2, <2>1, <2>2, <2>3, <2>4, <2>5, KeyFacts, KeyOwn
<1>4. CASE Keys!DropKey(c)
  BY <1>1, <1>2, <1>4, KeyFacts, KeyEnds DEF Keys!DropKey, Keys!Return, Keys!Step
<1> QED  BY <1>3, <1>4

LEMMA KeyInsert ==
  ASSUME KeysInv, NEW c \in Call, Keys!InsertKey(c)
  PROVE  KeysInv'
<1>1. PICK k \in Key : /\ kStatus[k] = "absent"
                       /\ kStatus' = [kStatus EXCEPT ![k] = "active"]
  BY DEF Keys!InsertKey
<1>2. UNCHANGED <<kNow, kRevokedAt, kCache>>
  BY DEF Keys!InsertKey
<1>3. kStatus' \in [Key -> KeyStatus]
  BY <1>1, KeyFacts DEF KeyStatus
<1>4. \A j \in Key : kStatus'[j] = IF j = k THEN "active" ELSE kStatus[j]
  BY <1>1, KeyFacts
<1>5. KeysGoOn(kStatus, kRevokedAt, kStatus', kRevokedAt', kNow)
  BY <1>1, <1>2, <1>4 DEF KeysGoOn
<1>6. KeysDated(kStatus', kRevokedAt')
  BY <1>1, <1>2, <1>4, KeyFacts DEF KeysDated
<1>7. KeyEntriesOK(kCache', kStatus', kRevokedAt', kNow)
  BY <1>1, <1>2, <1>4, KeyFacts DEF KeyEntriesOK, KeyEntryOK
<1> QED  BY <1>2, <1>3, <1>5, <1>6, <1>7, KeyFacts, KeyEnds
         DEF Keys!InsertKey, Keys!Return, Keys!Step

\* Time passes, while no lookup is late, or entries are dropped.
LEMMA KeyPasses ==
  ASSUME KeysInv, Keys!Tick \/ Keys!Evict
  PROVE  KeysInv'
<1>1. /\ kNow \in 0 .. MaxTime /\ kRevokedAt \in [Key -> 0 .. Keys!Never]
      /\ kCache \in [Instance -> [Key -> KeyEntry]]
      /\ kNote \in [Call -> KeyNote]
      /\ Ttl \in Nat /\ MaxLoad \in Nat /\ MaxTime \in Nat /\ Keys!Never \in Nat
  BY KeyTypes, AccountsAssumption DEF KeysInv, Keys!Never
<1>2. UNCHANGED <<kStatus, kRevokedAt, kCall, kNote>>
  BY DEF Keys!Tick, Keys!Evict, Keys!calls
<1>3. CASE Keys!Evict
  <2>1. kNow' = kNow
    BY <1>3 DEF Keys!Evict
  <2>2. /\ kCache' \in [Instance -> [Key -> KeyEntry]]
        /\ KeyEntriesOK(kCache', kStatus, kRevokedAt, kNow)
    BY <1>3, KeyDropped DEF Keys!Evict
  <2>3. Keys!TypeOK'
    BY <1>2, <2>1, <2>2 DEF KeysInv, Keys!TypeOK, KeyEntry
  <2> QED  BY <1>2, <2>1, <2>2, <2>3 DEF KeysInv
<1>4. CASE Keys!Tick
  <2>1. /\ kNow' = kNow + 1 /\ kNow' \in 0 .. MaxTime
        /\ \A c \in Call : kCall[c] \in {"read", "store"} =>
                              kNow < kNote[c].begun + MaxLoad
        /\ kCache' = [i \in Instance |-> [k \in Key |->
                        Keys!Fresh(kCache[i][k], kNow + 1)]]
    BY <1>1, <1>4 DEF Keys!Tick
  <2>2. ASSUME NEW i \in Instance, NEW k \in Key
        PROVE  /\ Keys!Fresh(kCache[i][k], kNow + 1) \in KeyEntry
               /\ KeyEntryOK(Keys!Fresh(kCache[i][k], kNow + 1), kStatus[k],
                             kRevokedAt[k], kNow')
    <3>1. kCache[i][k] \in KeyEntry
          /\ KeyEntryOK(kCache[i][k], kStatus[k], kRevokedAt[k], kNow)
      BY <1>1 DEF KeysInv, KeyEntriesOK
    <3>2. kCache[i][k].until \in Nat /\ kRevokedAt[k] \in Nat
      BY <1>1, <3>1, AccountsAssumption DEF KeyEntry
    <3>3. CASE kCache[i][k].until > kNow + 1
      <4>1. Keys!Fresh(kCache[i][k], kNow + 1) = kCache[i][k]
        BY <3>3 DEF Keys!Fresh
      <4> QED  BY <1>1, <2>1, <3>1, <3>2, <3>3, <4>1 DEF KeyEntryOK
    <3>4. CASE ~(kCache[i][k].until > kNow + 1)
      <4>1. Keys!Fresh(kCache[i][k], kNow + 1) = Keys!NoEntry
        BY <3>4 DEF Keys!Fresh
      <4> QED  BY <4>1, KeyNoEntry DEF KeyEntryOK
    <3> QED  BY <3>3, <3>4
  <2>3. /\ kCache' \in [Instance -> [Key -> KeyEntry]]
        /\ KeyEntriesOK(kCache', kStatus, kRevokedAt, kNow')
    BY <2>1, <2>2 DEF KeyEntriesOK
  <2>4. ASSUME NEW c \in Call
        PROVE  KeyCallOK(kCall[c], kNote[c], kStatus, kRevokedAt, kNow')
    <3>1. KeyCallOK(kCall[c], kNote[c], kStatus, kRevokedAt, kNow)
          /\ kNote[c].begun \in Nat
      BY <1>1 DEF KeysInv, KeyNote
    <3>2. kCall[c] \in {"read", "store"} => kNow < kNote[c].begun + MaxLoad
      BY <2>1
    <3>3. kNow' = kNow + 1
      BY <2>1
    <3> QED  BY <1>1, <3>1, <3>2, <3>3 DEF KeyCallOK
  <2>5. Keys!TypeOK'
    BY <1>2, <2>1, <2>3 DEF KeysInv, Keys!TypeOK, KeyEntry
  <2> QED  BY <1>2, <2>3, <2>4, <2>5 DEF KeysInv
<1> QED  BY <1>3, <1>4

LEMMA KeysNext == KeysInv /\ Keys!Next => KeysInv'
<1> SUFFICES ASSUME KeysInv, Keys!Next PROVE KeysInv'
  OBVIOUS
<1> QED  BY KeyPasses, KeyLookUp, KeyRead, KeyStore, KeyAnswer, KeyReadPrior,
            KeyRevoke, KeyDrop, KeyInsert DEF Keys!Next

LEMMA KeysMean == KeysInv => Keys!KeyVerdictIsRecent
  BY DEF KeysInv, KeyCallOK, Keys!KeyVerdictIsRecent

-----------------------------------------------------------------------------
(* Sessions.  A version that is cached, or was answered, was the user's when  *)
(* the question was asked; a token carries a version that the user has had.   *)

Version == 0 .. MaxVersion

SessionUser == [pw : Nat, version : Version, mfa : BOOLEAN]

SessionEntry == [version : Version, until : 0 .. MaxTime + Ttl]

SessionNote == [at : Instance \cup {"none"}, token : Version, begun : 0 .. MaxTime,
                asked : 0 .. MaxTime, version : Version, pw : Nat]

SessionSteps == {"idle", "sign", "code", "cache", "ask", "answer", "accepted",
                 "refused", "bump", "drop", "password", "patch"}

\* Versions are left in their order, and the present one has not been left.
LeftInOrder(of, left, time) ==
    /\ \A v \in Version : IF v < of.version THEN left[v] <= time
                                            ELSE left[v] = Logins!Never
    /\ \A v, w \in Version : v <= w => left[v] <= left[w]

SessionEntryOK(entry, of, left, time) ==
    /\ entry.version <= of.version /\ entry.until <= time + Ttl
    /\ entry.version < of.version => entry.until <= left[entry.version] + Ttl

\* What a request knows of the user at each step.
SessionCallOK(step, n, of, left, time) ==
    /\ n.begun <= time /\ n.asked <= time
    /\ n.token <= of.version /\ n.version <= of.version /\ n.pw <= of.pw
    /\ step \notin {"idle", "sign", "code"} => n.at \in Instance
    /\ step = "code" => of.mfa
    /\ step \in {"ask", "answer"} => n.begun <= n.asked
    /\ step = "answer" /\ n.version < of.version => n.asked <= left[n.version]
    /\ step = "accepted" => n.token = of.version \/ n.begun < left[n.token] + Ttl
    /\ step = "refused" =>
          n.token # of.version \/ (n.token > 0 /\ n.begun < left[n.token - 1] + Ttl)

\* The user changes the password, or leaves a version now.
UserGoesOn(of, left, of2, left2, time) ==
    /\ of2.mfa = of.mfa /\ of2.pw >= of.pw
    /\ \/ of2.version = of.version /\ left2 = left
       \/ /\ of2.version = of.version + 1 /\ of2.pw = of.pw
          /\ left2 = [left EXCEPT ![of.version] = time]

VersionsOK(cache, of, left, time) ==
    \A i \in Instance : SessionEntryOK(cache[i], of, left, time)

IssuedOK(tokens, of) == tokens \subseteq [version : 0 .. of.version, pw : 0 .. of.pw]

\* No token of the present version has an old password, and none will be signed,
\* but while a change of the password is under way.
PasswordKnown ==
    ~lUser.mfa /\ (\A c \in Call : lCall[c] # "bump") =>
        /\ \A t \in lIssued : t.version = lUser.version => t.pw = lUser.pw
        /\ \A c \in Call : lCall[c] = "sign" /\ lNote[c].version = lUser.version =>
                              lNote[c].pw = lUser.pw

LoginsInv ==
    /\ Logins!TypeOK /\ lNote \in [Call -> SessionNote]
    /\ LeftInOrder(lUser, lBumpedAt, lNow)
    /\ VersionsOK(lVersions, lUser, lBumpedAt, lNow)
    /\ IssuedOK(lIssued, lUser)
    /\ \A c \in Call : SessionCallOK(lCall[c], lNote[c], lUser, lBumpedAt, lNow)
    /\ PasswordKnown

LEMMA LoginTypes ==
    Logins!TypeOK <=>
        /\ lRealm \in Realm /\ lNow \in 0 .. MaxTime
        /\ lUser \in SessionUser /\ lLink \in BOOLEAN
        /\ lIssued \subseteq [version : Version, pw : 0 .. lUser.pw]
        /\ lBumpedAt \in [Version -> 0 .. Logins!Never]
        /\ lVersions \in [Instance -> SessionEntry]
        /\ lCall \in [Call -> SessionSteps]
  BY DEF Logins!TypeOK, SessionUser, Version, SessionEntry, SessionSteps

LEMMA SessionNumbers ==
    /\ MaxVersion \in Nat /\ MaxTime \in Nat /\ Ttl \in Nat /\ Ttl > 0
    /\ Logins!Never \in Nat /\ Logins!Never = MaxTime + 1
    /\ 0 \in Version /\ Version \subseteq Nat
  BY AccountsAssumption DEF Logins!Never, Version

LEMMA SessionNoEntry ==
    Logins!NoEntry \in SessionEntry /\ Logins!NoEntry.version = 0
        /\ Logins!NoEntry.until = 0
  BY SessionNumbers DEF Logins!NoEntry, SessionEntry

LEMMA SessionNoNote ==
    /\ Logins!NoNote \in SessionNote /\ Logins!NoNote.begun = 0 /\ Logins!NoNote.asked = 0
    /\ Logins!NoNote.token = 0 /\ Logins!NoNote.version = 0 /\ Logins!NoNote.pw = 0
  BY SessionNumbers DEF Logins!NoNote, SessionNote

LEMMA LoginsInit == Logins!Init => LoginsInv
<1> SUFFICES ASSUME Logins!Init PROVE LoginsInv
  OBVIOUS
<1>1. /\ lRealm \in Realm /\ lNow = 0 /\ lLink = FALSE /\ lIssued = {}
      /\ lUser \in [pw : {0}, version : {0}, mfa : BOOLEAN]
      /\ lBumpedAt = [v \in Version |-> Logins!Never]
      /\ lVersions = [i \in Instance |-> Logins!NoEntry]
      /\ lCall = [c \in Call |-> "idle"]
      /\ lNote = [c \in Call |-> Logins!NoNote]
  BY DEF Logins!Init, Version
<1>2. lUser \in SessionUser /\ lUser.version = 0 /\ lUser.pw = 0
  BY <1>1, SessionNumbers DEF SessionUser
<1>3. lNow \in 0 .. MaxTime /\ lBumpedAt \in [Version -> 0 .. Logins!Never]
  BY <1>1, SessionNumbers
<1>4. /\ lVersions \in [Instance -> SessionEntry] /\ lCall \in [Call -> SessionSteps]
      /\ lNote \in [Call -> SessionNote]
  BY <1>1, SessionNoEntry, SessionNoNote DEF SessionSteps
<1>5. Logins!TypeOK
  BY <1>1, <1>2, <1>3, <1>4, LoginTypes
<1>6. LeftInOrder(lUser, lBumpedAt, lNow)
  BY <1>1, <1>2, SessionNumbers DEF LeftInOrder
<1>7. VersionsOK(lVersions, lUser, lBumpedAt, lNow)
  BY <1>1, <1>2, SessionNoEntry, SessionNumbers DEF VersionsOK, SessionEntryOK
<1>8. \A c \in Call : SessionCallOK(lCall[c], lNote[c], lUser, lBumpedAt, lNow)
  BY <1>1, <1>2, SessionNoNote DEF SessionCallOK
<1>9. IssuedOK(lIssued, lUser) /\ PasswordKnown
  BY <1>1 DEF IssuedOK, PasswordKnown
<1> QED  BY <1>4, <1>5, <1>6, <1>7, <1>8, <1>9 DEF LoginsInv

\* What a request starts from.
LEMMA SessionFacts ==
  ASSUME LoginsInv
  PROVE  /\ lRealm \in Realm /\ lNow \in Nat /\ lNow \in 0 .. MaxTime /\ lNow < Logins!Never
         /\ lUser \in SessionUser /\ lUser.version \in Version /\ lUser.version \in Nat
         /\ lUser.pw \in Nat /\ lUser.mfa \in BOOLEAN /\ lLink \in BOOLEAN
         /\ lBumpedAt \in [Version -> 0 .. Logins!Never] /\ lBumpedAt \in [Version -> Nat]
         /\ lVersions \in [Instance -> SessionEntry]
         /\ lCall \in [Call -> SessionSteps] /\ lNote \in [Call -> SessionNote]
         /\ LeftInOrder(lUser, lBumpedAt, lNow)
         /\ VersionsOK(lVersions, lUser, lBumpedAt, lNow)
         /\ IssuedOK(lIssued, lUser) /\ PasswordKnown
<1>1. /\ lRealm \in Realm /\ lNow \in 0 .. MaxTime
      /\ lUser \in SessionUser /\ lLink \in BOOLEAN
      /\ lBumpedAt \in [Version -> 0 .. Logins!Never]
      /\ lVersions \in [Instance -> SessionEntry]
      /\ lCall \in [Call -> SessionSteps] /\ lNote \in [Call -> SessionNote]
  BY LoginTypes DEF LoginsInv
<1>2. /\ lNow \in Nat /\ lNow < Logins!Never /\ lBumpedAt \in [Version -> Nat]
  BY <1>1, SessionNumbers
<1>3. /\ lUser.version \in Version /\ lUser.version \in Nat
      /\ lUser.pw \in Nat /\ lUser.mfa \in BOOLEAN
  BY <1>1, SessionNumbers DEF SessionUser
<1> QED  BY <1>1, <1>2, <1>3 DEF LoginsInv

LEMMA SessionNoteParts ==
  ASSUME NEW n \in SessionNote
  PROVE  /\ n.token \in Version /\ n.token \in Nat /\ n.begun \in Nat /\ n.asked \in Nat
         /\ n.begun \in 0 .. MaxTime /\ n.asked \in 0 .. MaxTime
         /\ n.version \in Version /\ n.version \in Nat /\ n.pw \in Nat
         /\ n.at \in Instance \cup {"none"}
<1>1. /\ n.token \in Version /\ n.begun \in 0 .. MaxTime /\ n.asked \in 0 .. MaxTime
      /\ n.version \in Version /\ n.pw \in Nat /\ n.at \in Instance \cup {"none"}
  BY DEF SessionNote
<1>2. n.token \in Nat /\ n.version \in Nat
  BY <1>1, SessionNumbers
<1>3. n.begun \in Nat /\ n.asked \in Nat
  BY <1>1, SessionNumbers
<1> QED  BY <1>1, <1>2, <1>3

LEMMA SessionEntryParts ==
  ASSUME NEW e \in SessionEntry
  PROVE  e.version \in Version /\ e.version \in Nat /\ e.until \in Nat
<1>1. e.version \in Version /\ e.until \in 0 .. MaxTime + Ttl
  BY DEF SessionEntry
<1>2. e.version \in Nat
  BY <1>1, SessionNumbers
<1>3. e.until \in Nat
  BY <1>1, SessionNumbers
<1> QED  BY <1>1, <1>2, <1>3

\* What a request still knows when the user goes on.
LEMMA SessionCallStays ==
  ASSUME LoginsInv, NEW c \in Call, lUser' \in SessionUser,
         lBumpedAt' \in [Version -> 0 .. Logins!Never],
         UserGoesOn(lUser, lBumpedAt, lUser', lBumpedAt', lNow)
  PROVE  SessionCallOK(lCall[c], lNote[c], lUser', lBumpedAt', lNow)
<1> DEFINE n == lNote[c]
           step == lCall[c]
<1>1. SessionCallOK(step, n, lUser, lBumpedAt, lNow) /\ n \in SessionNote
  BY SessionFacts DEF LoginsInv
<1>2. /\ n.token \in Version /\ n.token \in Nat /\ n.begun \in Nat /\ n.asked \in Nat
      /\ n.version \in Version /\ n.version \in Nat /\ n.pw \in Nat
  BY <1>1, SessionNoteParts
<1>3. lUser'.version \in Nat /\ lUser'.pw \in Nat
  BY SessionNumbers DEF SessionUser
<1>4. SessionCallOK(step, n, lUser', lBumpedAt', lNow)
  <2> HIDE DEF n, step
  <2>1. CASE lUser'.version = lUser.version /\ lBumpedAt' = lBumpedAt
    BY <1>1, <1>2, <1>3, <2>1, SessionFacts DEF SessionCallOK, UserGoesOn
  <2>2. CASE /\ lUser'.version = lUser.version + 1 /\ lUser'.pw = lUser.pw
             /\ lBumpedAt' = [lBumpedAt EXCEPT ![lUser.version] = lNow]
    <3>1. lUser'.mfa = lUser.mfa
      BY DEF UserGoesOn
    <3>2. \A v \in Version :
              lBumpedAt'[v] = IF v = lUser.version THEN lNow ELSE lBumpedAt[v]
      BY <2>2, SessionFacts
    <3>3. n.begun <= lNow /\ n.asked <= lNow /\ n.token <= lUser.version
          /\ n.version <= lUser.version /\ n.pw <= lUser.pw
      BY <1>1 DEF SessionCallOK
    <3>4. step = "answer" => n.asked <= lBumpedAt'[n.version]
      BY <1>1, <1>2, <3>2, <3>3, SessionFacts DEF SessionCallOK
    <3>5. step = "accepted" => n.begun < lBumpedAt'[n.token] + Ttl
      BY <1>1, <1>2, <3>2, <3>3, SessionFacts, SessionNumbers DEF SessionCallOK
    <3>6. n.token # lUser'.version
      BY <1>2, <2>2, <3>3, SessionFacts
    <3> QED  BY <1>1, <1>2, <2>2, <3>1, <3>3, <3>4, <3>5, <3>6, SessionFacts
             DEF SessionCallOK
  <2> QED  BY <2>1, <2>2 DEF UserGoesOn
<1> QED  BY <1>4

\* One request moves: what it goes on with, and what it does to the tables.
LEMMA SessionOwn ==
  ASSUME LoginsInv, NEW c \in Call, NEW to \in SessionSteps, NEW n \in SessionNote,
         lCall' = [lCall EXCEPT ![c] = to], lNote' = [lNote EXCEPT ![c] = n],
         lRealm' = lRealm, lNow' = lNow, lUser' \in SessionUser, lLink' \in BOOLEAN,
         lBumpedAt' \in [Version -> 0 .. Logins!Never],
         UserGoesOn(lUser, lBumpedAt, lUser', lBumpedAt', lNow),
         LeftInOrder(lUser', lBumpedAt', lNow),
         IssuedOK(lIssued', lUser'),
         SessionCallOK(to, n, lUser', lBumpedAt', lNow),
         lVersions' \in [Instance -> SessionEntry],
         VersionsOK(lVersions', lUser', lBumpedAt', lNow),
         PasswordKnown'
  PROVE  LoginsInv'
<1>1. /\ lCall' \in [Call -> SessionSteps] /\ lNote' \in [Call -> SessionNote]
      /\ \A b \in Call : lCall'[b] = IF b = c THEN to ELSE lCall[b]
      /\ \A b \in Call : lNote'[b] = IF b = c THEN n ELSE lNote[b]
  BY SessionFacts
<1>2. lIssued' \subseteq [version : Version, pw : 0 .. lUser'.pw]
  <2>1. 0 .. lUser'.version \subseteq Version
    BY SessionNumbers DEF SessionUser, Version
  <2> QED  BY <2>1 DEF IssuedOK
<1>3. Logins!TypeOK'
  BY <1>1, <1>2, SessionFacts DEF Logins!TypeOK, SessionUser, Version, SessionEntry,
     SessionSteps
<1>4. ASSUME NEW b \in Call
      PROVE  SessionCallOK(lCall'[b], lNote'[b], lUser', lBumpedAt', lNow')
  <2>1. SessionCallOK(lCall[b], lNote[b], lUser', lBumpedAt', lNow)
    BY SessionCallStays
  <2> QED  BY <1>1, <2>1
<1> QED  BY <1>1, <1>3, <1>4 DEF LoginsInv

\* A request that leaves the user alone, and may issue a token of its own.
LEMMA SessionOnly ==
  ASSUME LoginsInv, NEW c \in Call, NEW to \in SessionSteps, NEW n \in SessionNote,
         lCall' = [lCall EXCEPT ![c] = to], lNote' = [lNote EXCEPT ![c] = n],
         UNCHANGED <<lRealm, lNow, lUser, lLink, lBumpedAt>>,
         lCall[c] # "bump",
         IssuedOK(lIssued', lUser),
         SessionCallOK(to, n, lUser, lBumpedAt, lNow),
         lVersions' \in [Instance -> SessionEntry],
         VersionsOK(lVersions', lUser, lBumpedAt, lNow),
         to = "sign" => n.version # lUser.version \/ n.pw = lUser.pw \/ lUser.mfa,
         PasswordKnown => \A t \in lIssued' \ lIssued :
            \/ t.version # lUser.version \/ t.pw = lUser.pw \/ lUser.mfa
            \/ \E b \in Call : lCall[b] = "bump"
  PROVE  LoginsInv'
<1>1. UserGoesOn(lUser, lBumpedAt, lUser, lBumpedAt, lNow)
  BY SessionFacts DEF UserGoesOn
<1>2. PasswordKnown'
  <2>1. /\ \A b \in Call : lCall'[b] = IF b = c THEN to ELSE lCall[b]
        /\ \A b \in Call : lNote'[b] = IF b = c THEN n ELSE lNote[b]
    BY SessionFacts
  <2>2. (\A b \in Call : lCall'[b] # "bump") => (\A b \in Call : lCall[b] # "bump")
    BY <2>1
  <2>3. PasswordKnown
    BY SessionFacts
  <2> QED  BY <2>1, <2>2, <2>3 DEF PasswordKnown
<1> QED  BY <1>1, <1>2, SessionFacts, SessionOwn

\* A request that only moves.
LEMMA SessionMoves ==
  ASSUME LoginsInv, NEW c \in Call, NEW to \in SessionSteps, NEW n \in SessionNote,
         lCall' = [lCall EXCEPT ![c] = to], lNote' = [lNote EXCEPT ![c] = n],
         UNCHANGED <<lRealm, lNow, lUser, lLink, lIssued, lBumpedAt, lVersions>>,
         lCall[c] # "bump",
         SessionCallOK(to, n, lUser, lBumpedAt, lNow),
         to = "sign" => n.version # lUser.version \/ n.pw = lUser.pw \/ lUser.mfa
  PROVE  LoginsInv'
  BY SessionFacts, SessionOnly

\* An empty note is good for any step that asks for nothing.
LEMMA SessionIdle ==
  ASSUME LoginsInv
  PROVE  SessionCallOK("idle", Logins!NoNote, lUser, lBumpedAt, lNow)
  BY SessionNoNote, SessionFacts DEF SessionCallOK

LEMMA SessionLogin ==
  ASSUME LoginsInv, NEW c \in Call, Logins!Login(c)
  PROVE  LoginsInv'
<1> DEFINE n == [Logins!NoNote EXCEPT !.version = lUser.version, !.pw = lUser.pw]
           to == IF lUser.mfa THEN "code" ELSE "sign"
<1>1. /\ lCall[c] = "idle" /\ lCall' = [lCall EXCEPT ![c] = to]
      /\ lNote' = [lNote EXCEPT ![c] = n]
      /\ UNCHANGED <<lRealm, lNow, lUser, lLink, lIssued, lBumpedAt, lVersions>>
  BY DEF Logins!Login, Logins!Step, Logins!Note, Logins!row
<1>2. /\ n \in SessionNote /\ n.version = lUser.version /\ n.pw = lUser.pw
      /\ n.begun = 0 /\ n.asked = 0 /\ n.token = 0
  BY SessionNoNote, SessionFacts DEF SessionNote
<1>3. to \in SessionSteps
  BY DEF SessionSteps
<1>4. SessionCallOK(to, n, lUser, lBumpedAt, lNow)
  <2> HIDE DEF n
  <2> QED  BY <1>2, SessionFacts DEF SessionCallOK
<1> HIDE DEF n, to
<1> QED  BY <1>1, <1>2, <1>3, <1>4, SessionMoves

LEMMA SessionSign ==
  ASSUME LoginsInv, NEW c \in Call, Logins!Sign(c)
  PROVE  LoginsInv'
<1> DEFINE t == [version |-> lNote[c].version, pw |-> lNote[c].pw]
<1>1. /\ lCall[c] = "sign" /\ lCall' = [lCall EXCEPT ![c] = "idle"]
      /\ lNote' = [lNote EXCEPT ![c] = Logins!NoNote]
      /\ UNCHANGED <<lRealm, lNow, lUser, lLink, lBumpedAt, lVersions>>
      /\ lIssued' = lIssued \cup {t}
  BY DEF Logins!Sign, Logins!Return, Logins!Step, Logins!Note, Logins!row, Logins!Issue
<1>2. lNote[c] \in SessionNote /\ SessionCallOK("sign", lNote[c], lUser, lBumpedAt, lNow)
  BY <1>1, SessionFacts DEF LoginsInv
<1>3. lNote[c].version \in 0 .. lUser.version /\ lNote[c].pw \in 0 .. lUser.pw
  BY <1>2, SessionNoteParts, SessionFacts DEF SessionCallOK
<1>4. IssuedOK(lIssued', lUser)
  BY <1>1, <1>3, SessionFacts DEF IssuedOK
<1>5. PasswordKnown => \A u \in lIssued' \ lIssued :
          \/ u.version # lUser.version \/ u.pw = lUser.pw \/ lUser.mfa
          \/ \E b \in Call : lCall[b] = "bump"
  BY <1>1 DEF PasswordKnown
<1>6. "idle" \in SessionSteps
  BY DEF SessionSteps
<1> QED  BY <1>1, <1>4, <1>5, <1>6, SessionIdle, SessionNoNote, SessionFacts, SessionOnly

LEMMA SessionVerifyCode ==
  ASSUME LoginsInv, NEW c \in Call, Logins!VerifyCode(c)
  PROVE  LoginsInv'
<1>1. lCall[c] = "code" /\ UNCHANGED <<lRealm, lNow, lUser, lLink, lBumpedAt, lVersions>>
  BY DEF Logins!VerifyCode, Logins!Return, Logins!Step, Logins!row
<1>2. lNote[c] \in SessionNote /\ SessionCallOK("code", lNote[c], lUser, lBumpedAt, lNow)
  BY <1>1, SessionFacts DEF LoginsInv
<1>3. lUser.mfa /\ lNote[c].pw \in 0 .. lUser.pw
  BY <1>2, SessionNoteParts, SessionFacts DEF SessionCallOK
<1>4. CASE /\ lCall' = [lCall EXCEPT ![c] = "idle"]
           /\ lNote' = [lNote EXCEPT ![c] = Logins!NoNote]
           /\ lIssued' = lIssued \cup {[version |-> lUser.version, pw |-> lNote[c].pw]}
  <2>1. lUser.version \in 0 .. lUser.version
    BY SessionFacts
  <2>2. IssuedOK(lIssued', lUser)
    BY <1>3, <1>4, <2>1, SessionFacts DEF IssuedOK
  <2>3. "idle" \in SessionSteps
    BY DEF SessionSteps
  <2> QED  BY <1>1, <1>3, <1>4, <2>2, <2>3, SessionIdle, SessionNoNote, SessionFacts,
              SessionOnly
<1>5. CASE /\ lCall' = [lCall EXCEPT ![c] = "sign"] /\ UNCHANGED lIssued
           /\ lNote' = [lNote EXCEPT ![c] = [lNote[c] EXCEPT !.version = lUser.version]]
  <2> DEFINE n == [lNote[c] EXCEPT !.version = lUser.version]
  <2>1. /\ n \in SessionNote /\ n.version = lUser.version /\ n.pw = lNote[c].pw
        /\ n.begun = lNote[c].begun /\ n.asked = lNote[c].asked
        /\ n.token = lNote[c].token
    BY <1>2, SessionFacts DEF SessionNote
  <2>2. lNote' = [lNote EXCEPT ![c] = n]
    BY <1>5
  <2> HIDE DEF n
  <2>3. SessionCallOK("sign", n, lUser, lBumpedAt, lNow)
    BY <1>2, <2>1, SessionFacts DEF SessionCallOK
  <2>4. "sign" \in SessionSteps
    BY DEF SessionSteps
  <2> QED  BY <1>1, <1>3, <1>5, <2>1, <2>2, <2>3, <2>4, SessionMoves
<1> QED  BY <1>4, <1>5 DEF Logins!VerifyCode, Logins!Return, Logins!Step, Logins!Note,
            Logins!Issue

LEMMA SessionPresent ==
  ASSUME LoginsInv, NEW c \in Call, Logins!Present(c)
  PROVE  LoginsInv'
<1> PICK i \in Instance, t \in lIssued :
        lNote' = [lNote EXCEPT ![c] =
            [Logins!NoNote EXCEPT !.at = i, !.token = t.version, !.begun = lNow]]
  BY DEF Logins!Present, Logins!Note
<1> DEFINE n == [Logins!NoNote EXCEPT !.at = i, !.token = t.version, !.begun = lNow]
<1>1. /\ lCall[c] = "idle" /\ lCall' = [lCall EXCEPT ![c] = "cache"]
      /\ UNCHANGED <<lRealm, lNow, lUser, lLink, lIssued, lBumpedAt, lVersions>>
  BY DEF Logins!Present, Logins!Step, Logins!row
<1>2. t.version \in 0 .. lUser.version
  BY SessionFacts DEF IssuedOK
<1>3. t.version \in Version /\ t.version <= lUser.version
  BY <1>2, SessionFacts, SessionNumbers DEF Version
<1>4. /\ n \in SessionNote /\ n.token = t.version /\ n.begun = lNow /\ n.asked = 0
      /\ n.version = 0 /\ n.pw = 0 /\ n.at = i
  BY <1>3, SessionNoNote, SessionFacts DEF SessionNote
<1>5. lNote' = [lNote EXCEPT ![c] = n]
  OBVIOUS
<1> HIDE DEF n
<1>6. SessionCallOK("cache", n, lUser, lBumpedAt, lNow)
  BY <1>3, <1>4, SessionFacts DEF SessionCallOK
<1>7. "cache" \in SessionSteps
  BY DEF SessionSteps
<1> QED  BY <1>1, <1>4, <1>5, <1>6, <1>7, SessionMoves

\* A version is judged: what was known of it is what the verdict rests on.
LEMMA SessionJudged ==
  ASSUME LoginsInv, NEW n \in SessionNote, NEW version \in Version,
         n.begun <= lNow, n.token <= lUser.version, n.pw <= lUser.pw,
         n.at \in Instance, version <= lUser.version,
         version < lUser.version => n.begun < lBumpedAt[version] + Ttl
  PROVE  /\ [n EXCEPT !.asked = 0, !.version = 0] \in SessionNote
         /\ SessionCallOK(IF n.token = version THEN "accepted" ELSE "refused",
                          [n EXCEPT !.asked = 0, !.version = 0],
                          lUser, lBumpedAt, lNow)
<1> DEFINE m == [n EXCEPT !.asked = 0, !.version = 0]
<1>1. /\ m \in SessionNote /\ m.asked = 0 /\ m.version = 0 /\ m.token = n.token
      /\ m.begun = n.begun /\ m.pw = n.pw /\ m.at = n.at
  <2>1. 0 \in 0 .. MaxTime /\ 0 \in Version
    BY SessionNumbers
  <2> QED  BY <2>1 DEF SessionNote
<1>2. /\ n.token \in Version /\ n.token \in Nat /\ n.begun \in Nat /\ version \in Nat
  BY SessionNoteParts, SessionNumbers
<1> HIDE DEF m
<1>3. CASE n.token = version
  <2>1. SessionCallOK("accepted", m, lUser, lBumpedAt, lNow)
    BY <1>1, <1>2, <1>3, SessionFacts DEF SessionCallOK
  <2> QED  BY <1>1, <1>3, <2>1 DEF m
<1>4. CASE n.token # version
  <2>1. n.token = lUser.version =>
            n.token > 0 /\ n.begun < lBumpedAt[n.token - 1] + Ttl
    <3> SUFFICES ASSUME n.token = lUser.version
                 PROVE  n.token > 0 /\ n.begun < lBumpedAt[n.token - 1] + Ttl
      OBVIOUS
    <3>1. version < n.token /\ n.token > 0
      BY <1>2, <1>4, SessionFacts
    <3>2. n.token - 1 \in Version /\ version <= n.token - 1
      BY <1>2, <3>1, SessionNumbers DEF Version
    <3>3. lBumpedAt[version] <= lBumpedAt[n.token - 1]
      BY <3>2, SessionFacts DEF LeftInOrder
    <3>4. lBumpedAt[version] \in Nat /\ lBumpedAt[n.token - 1] \in Nat
      BY <3>2, SessionFacts
    <3> QED  BY <1>2, <3>1, <3>3, <3>4, SessionNumbers
  <2>2. SessionCallOK("refused", m, lUser, lBumpedAt, lNow)
    BY <1>1, <1>2, <2>1, SessionFacts DEF SessionCallOK
  <2> QED  BY <1>1, <1>4, <2>2 DEF m
<1> QED  BY <1>3, <1>4

LEMMA SessionLookUp ==
  ASSUME LoginsInv, NEW c \in Call, Logins!LookUp(c)
  PROVE  LoginsInv'
<1> DEFINE n == lNote[c]
           entry == lVersions[n.at]
<1>1. /\ lCall[c] = "cache"
      /\ UNCHANGED <<lRealm, lNow, lUser, lLink, lIssued, lBumpedAt, lVersions>>
  BY DEF Logins!LookUp, Logins!row
<1>2. n \in SessionNote /\ SessionCallOK("cache", n, lUser, lBumpedAt, lNow)
  BY <1>1, SessionFacts DEF LoginsInv
<1>3. /\ n.at \in Instance /\ n.begun <= lNow /\ n.token <= lUser.version
      /\ n.pw <= lUser.pw /\ n.version <= lUser.version
  BY <1>2 DEF SessionCallOK
<1>4. entry \in SessionEntry /\ SessionEntryOK(entry, lUser, lBumpedAt, lNow)
  BY <1>3, SessionFacts DEF VersionsOK
<1>5. /\ entry.version \in Version /\ entry.until \in Nat
      /\ lBumpedAt[entry.version] \in Nat /\ n.begun \in Nat
  BY <1>2, <1>4, SessionEntryParts, SessionNoteParts, SessionFacts
<1>6. CASE entry.until > lNow /\ Logins!Judge(c, "cache", entry.version)
  <2> DEFINE m == [n EXCEPT !.asked = 0, !.version = 0]
             to == IF n.token = entry.version THEN "accepted" ELSE "refused"
  <2>1. entry.version < lUser.version => n.begun < lBumpedAt[entry.version] + Ttl
    <3> HIDE DEF entry, n
    <3> QED  BY <1>3, <1>4, <1>5, <1>6, SessionFacts, SessionNumbers DEF SessionEntryOK
  <2>2. m \in SessionNote /\ SessionCallOK(to, m, lUser, lBumpedAt, lNow)
    BY <1>2, <1>3, <1>4, <1>5, <2>1, SessionJudged DEF SessionEntryOK
  <2>3. lCall' = [lCall EXCEPT ![c] = to] /\ lNote' = [lNote EXCEPT ![c] = m]
    BY <1>6 DEF Logins!Judge, Logins!Step, Logins!Note
  <2>4. to \in SessionSteps /\ to # "sign"
    BY DEF SessionSteps
  <2> HIDE DEF m, to
  <2> QED  BY <1>1, <2>2, <2>3, <2>4, SessionMoves
<1>7. CASE /\ lCall' = [lCall EXCEPT ![c] = "ask"]
           /\ lNote' = [lNote EXCEPT ![c] = [n EXCEPT !.asked = lNow]]
  <2> DEFINE m == [n EXCEPT !.asked = lNow]
  <2>1. /\ m \in SessionNote /\ m.asked = lNow /\ m.version = n.version
        /\ m.token = n.token /\ m.begun = n.begun /\ m.pw = n.pw /\ m.at = n.at
    BY <1>2, SessionFacts DEF SessionNote
  <2>2. lNote' = [lNote EXCEPT ![c] = m] /\ "ask" \in SessionSteps
    BY <1>7 DEF SessionSteps
  <2>3. SessionCallOK("ask", m, lUser, lBumpedAt, lNow)
    <3> HIDE DEF m, n
    <3> QED  BY <1>3, <2>1, SessionFacts DEF SessionCallOK
  <2> HIDE DEF m
  <2> QED  BY <1>1, <1>7, <2>1, <2>2, <2>3, SessionMoves
<1> QED  BY <1>6, <1>7 DEF Logins!LookUp, Logins!Step, Logins!Note

LEMMA SessionAsk ==
  ASSUME LoginsInv, NEW c \in Call, Logins!Ask(c)
  PROVE  LoginsInv'
<1> DEFINE n == lNote[c]
           m == [n EXCEPT !.version = lUser.version]
<1>1. /\ lCall[c] = "ask" /\ lCall' = [lCall EXCEPT ![c] = "answer"]
      /\ lNote' = [lNote EXCEPT ![c] = m]
      /\ UNCHANGED <<lRealm, lNow, lUser, lLink, lIssued, lBumpedAt, lVersions>>
  BY DEF Logins!Ask, Logins!Step, Logins!Note, Logins!row
<1>2. n \in SessionNote /\ SessionCallOK("ask", n, lUser, lBumpedAt, lNow)
  BY <1>1, SessionFacts DEF LoginsInv
<1>3. /\ m \in SessionNote /\ m.version = lUser.version /\ m.asked = n.asked
      /\ m.token = n.token /\ m.begun = n.begun /\ m.pw = n.pw /\ m.at = n.at
  BY <1>2, SessionFacts DEF SessionNote
<1>4. SessionCallOK("answer", m, lUser, lBumpedAt, lNow)
  <2> HIDE DEF m, n
  <2> QED  BY <1>2, <1>3, SessionFacts DEF SessionCallOK
<1>5. "answer" \in SessionSteps
  BY DEF SessionSteps
<1> HIDE DEF m
<1> QED  BY <1>1, <1>3, <1>4, <1>5, SessionMoves

\* An entry is put in the place of another.
LEMMA SessionCached ==
  ASSUME LoginsInv, NEW i \in Instance, NEW entry \in SessionEntry,
         SessionEntryOK(entry, lUser, lBumpedAt, lNow)
  PROVE  /\ [lVersions EXCEPT ![i] = entry] \in [Instance -> SessionEntry]
         /\ VersionsOK([lVersions EXCEPT ![i] = entry], lUser, lBumpedAt, lNow)
  BY SessionFacts DEF VersionsOK

LEMMA SessionStore ==
  ASSUME LoginsInv, NEW c \in Call, Logins!StoreAnswer(c)
  PROVE  LoginsInv'
<1> DEFINE n == lNote[c]
           m == [n EXCEPT !.asked = 0, !.version = 0]
           to == IF n.token = n.version THEN "accepted" ELSE "refused"
           entry == Logins!Fresh([version |-> n.version, until |-> n.asked + Ttl], lNow)
<1>1. /\ lCall[c] = "answer" /\ lCall' = [lCall EXCEPT ![c] = to]
      /\ lNote' = [lNote EXCEPT ![c] = m]
      /\ UNCHANGED <<lRealm, lNow, lUser, lLink, lIssued, lBumpedAt>>
      /\ lVersions' = [lVersions EXCEPT ![n.at] = entry]
  BY DEF Logins!StoreAnswer, Logins!Judge, Logins!Store, Logins!Step, Logins!Note,
         Logins!row
<1>2. n \in SessionNote /\ SessionCallOK("answer", n, lUser, lBumpedAt, lNow)
  BY <1>1, SessionFacts DEF LoginsInv
<1>3. /\ n.at \in Instance /\ n.begun <= lNow /\ n.token <= lUser.version
      /\ n.pw <= lUser.pw /\ n.version <= lUser.version
      /\ n.begun <= n.asked /\ n.asked <= lNow
      /\ n.version < lUser.version => n.asked <= lBumpedAt[n.version]
  BY <1>2 DEF SessionCallOK
<1>4. /\ n.version \in Version /\ n.asked \in 0 .. MaxTime /\ n.asked \in Nat
      /\ n.begun \in Nat /\ lBumpedAt[n.version] \in Nat
  BY <1>2, SessionNoteParts, SessionFacts
<1>5. n.version < lUser.version => n.begun < lBumpedAt[n.version] + Ttl
  BY <1>3, <1>4, SessionFacts, SessionNumbers
<1>6. m \in SessionNote /\ SessionCallOK(to, m, lUser, lBumpedAt, lNow)
  BY <1>2, <1>3, <1>4, <1>5, SessionJudged
<1>7. entry \in SessionEntry /\ SessionEntryOK(entry, lUser, lBumpedAt, lNow)
  <2>1. CASE n.asked + Ttl > lNow
    <3>1. entry = [version |-> n.version, until |-> n.asked + Ttl]
      BY <2>1 DEF Logins!Fresh
    <3>2. n.asked + Ttl \in 0 .. MaxTime + Ttl
      BY <1>4, SessionNumbers
    <3>3. /\ entry \in SessionEntry /\ entry.version = n.version
          /\ entry.until = n.asked + Ttl
      BY <1>4, <3>1, <3>2 DEF SessionEntry
    <3> HIDE DEF entry
    <3> QED  BY <1>3, <1>4, <3>3, SessionFacts, SessionNumbers DEF SessionEntryOK
  <2>2. CASE ~(n.asked + Ttl > lNow)
    <3>1. entry = Logins!NoEntry
      BY <2>2 DEF Logins!Fresh
    <3> HIDE DEF entry
    <3> QED  BY <3>1, SessionNoEntry, SessionFacts, SessionNumbers DEF SessionEntryOK
  <2> QED  BY <2>1, <2>2
<1>8. to \in SessionSteps /\ to # "sign"
  BY DEF SessionSteps
<1> HIDE DEF m, to, entry
<1>9. /\ lVersions' \in [Instance -> SessionEntry]
      /\ VersionsOK(lVersions', lUser, lBumpedAt, lNow)
  BY <1>1, <1>3, <1>7, SessionCached
<1> QED  BY <1>1, <1>6, <1>8, <1>9, SessionFacts, SessionOnly

LEMMA SessionAnswer ==
  ASSUME LoginsInv, NEW c \in Call, Logins!Answer(c)
  PROVE  LoginsInv'
<1>1. UNCHANGED <<lRealm, lNow, lUser, lLink, lIssued, lBumpedAt, lVersions>>
  BY DEF Logins!Answer, Logins!row
<1>2. CASE /\ lCall[c] \in {"refused", "accepted"}
           /\ lCall' = [lCall EXCEPT ![c] = "idle"]
           /\ lNote' = [lNote EXCEPT ![c] = Logins!NoNote]
  <2>1. "idle" \in SessionSteps
    BY DEF SessionSteps
  <2> QED  BY <1>1, <1>2, <2>1, SessionIdle, SessionNoNote, SessionMoves
<1>3. CASE /\ lCall[c] = "accepted" /\ lCall' = [lCall EXCEPT ![c] = "bump"]
           /\ UNCHANGED lNote
  <2>1. /\ lNote[c] \in SessionNote /\ lNote' = [lNote EXCEPT ![c] = lNote[c]]
        /\ SessionCallOK("accepted", lNote[c], lUser, lBumpedAt, lNow)
    BY <1>3, SessionFacts DEF LoginsInv
  <2>2. SessionCallOK("bump", lNote[c], lUser, lBumpedAt, lNow)
    BY <2>1 DEF SessionCallOK
  <2>3. "bump" \in SessionSteps
    BY DEF SessionSteps
  <2> QED  BY <1>1, <1>3, <2>1, <2>2, <2>3, SessionMoves
<1> QED  BY <1>2, <1>3 DEF Logins!Answer, Logins!Return, Logins!GoOn, Logins!Step,
            Logins!Note

\* The version is left: all tokens carry an earlier one.
LEMMA SessionBump ==
  ASSUME LoginsInv, NEW c \in Call, Logins!Bump(c)
  PROVE  LoginsInv'
<1> DEFINE v == lUser.version
<1>1. /\ lCall[c] = "bump" /\ lCall' = [lCall EXCEPT ![c] = "drop"]
      /\ UNCHANGED <<lRealm, lNow, lLink, lIssued, lVersions, lNote>>
      /\ v < MaxVersion
      /\ lUser' = [lUser EXCEPT !.version = v + 1]
      /\ lBumpedAt' = [lBumpedAt EXCEPT ![v] = lNow]
  BY DEF Logins!Bump, Logins!GoOn, Logins!Step
<1>2. v \in Version /\ v \in Nat /\ v + 1 \in Version
  BY <1>1, SessionFacts, SessionNumbers DEF Version
<1>3. /\ lUser' \in SessionUser /\ lUser'.version = v + 1 /\ lUser'.pw = lUser.pw
      /\ lUser'.mfa = lUser.mfa
  BY <1>1, <1>2, SessionFacts DEF SessionUser
<1> HIDE DEF v
<1>4. /\ lBumpedAt' \in [Version -> 0 .. Logins!Never]
      /\ \A w \in Version : lBumpedAt'[w] = IF w = v THEN lNow ELSE lBumpedAt[w]
  <2>1. lNow \in 0 .. Logins!Never
    BY SessionFacts, SessionNumbers
  <2> QED  BY <1>1, <1>2, <2>1, SessionFacts
<1>5. UserGoesOn(lUser, lBumpedAt, lUser', lBumpedAt', lNow)
  BY <1>1, <1>3, SessionFacts DEF UserGoesOn, v
<1>6. LeftInOrder(lUser', lBumpedAt', lNow)
  <2>1. \A w \in Version : IF w < v + 1 THEN lBumpedAt'[w] <= lNow
                                         ELSE lBumpedAt'[w] = Logins!Never
    <3> SUFFICES ASSUME NEW w \in Version
                 PROVE  IF w < v + 1 THEN lBumpedAt'[w] <= lNow
                                     ELSE lBumpedAt'[w] = Logins!Never
      OBVIOUS
    <3>1. w \in Nat
      BY SessionNumbers
    <3>2. IF w < v THEN lBumpedAt[w] <= lNow ELSE lBumpedAt[w] = Logins!Never
      BY SessionFacts DEF LeftInOrder, v
    <3> QED  BY <1>2, <1>4, <3>1, <3>2, SessionFacts
  <2>2. ASSUME NEW u \in Version, NEW w \in Version, u <= w
        PROVE  lBumpedAt'[u] <= lBumpedAt'[w]
    <3>1. u \in Nat /\ w \in Nat
      BY SessionNumbers
    <3>2. lBumpedAt[u] <= lBumpedAt[w] /\ lBumpedAt[w] \in Nat /\ lBumpedAt[u] \in Nat
      BY <2>2, SessionFacts DEF LeftInOrder
    <3>3. /\ u < v => lBumpedAt[u] <= lNow
          /\ w >= v => lBumpedAt[w] = Logins!Never
      BY <1>2, <3>1, SessionFacts DEF LeftInOrder, v
    <3> QED  BY <1>2, <1>4, <2>2, <3>1, <3>2, <3>3, SessionFacts
  <2> QED  BY <1>3, <2>1, <2>2 DEF LeftInOrder
<1>7. IssuedOK(lIssued', lUser')
  <2>1. 0 .. v \subseteq 0 .. v + 1
    BY <1>2
  <2> QED  BY <1>1, <1>3, <2>1, SessionFacts DEF IssuedOK, v
<1>8. lNote[c] \in SessionNote /\ lNote' = [lNote EXCEPT ![c] = lNote[c]]
  BY <1>1, SessionFacts
<1>9. SessionCallOK("drop", lNote[c], lUser', lBumpedAt', lNow)
  <2>1. SessionCallOK("bump", lNote[c], lUser, lBumpedAt, lNow)
    BY <1>1 DEF LoginsInv
  <2>2. SessionCallOK(lCall[c], lNote[c], lUser', lBumpedAt', lNow)
    BY <1>3, <1>4, <1>5, SessionCallStays
  <2> QED  BY <1>1, <2>1, <2>2 DEF SessionCallOK
<1>10. VersionsOK(lVersions', lUser', lBumpedAt', lNow)
  <2>1. ASSUME NEW i \in Instance
        PROVE  SessionEntryOK(lVersions[i], lUser', lBumpedAt', lNow)
    <3>1. SessionEntryOK(lVersions[i], lUser, lBumpedAt, lNow)
          /\ lVersions[i] \in SessionEntry
      BY SessionFacts DEF VersionsOK
    <3>2. lVersions[i].version \in Version /\ lVersions[i].version \in Nat
          /\ lVersions[i].until \in Nat
      BY <3>1, SessionEntryParts
    <3> QED  BY <1>2, <1>3, <1>4, <3>1, <3>2, SessionFacts, SessionNumbers
             DEF SessionEntryOK, v
  <2> QED  BY <1>1, <2>1 DEF VersionsOK
<1>11. PasswordKnown'
  <2>1. \A t \in lIssued' : t.version # lUser'.version
    <3> SUFFICES ASSUME NEW t \in lIssued PROVE t.version # v + 1
      BY <1>1, <1>3
    <3>1. t.version \in 0 .. v
      BY SessionFacts DEF IssuedOK, v
    <3> QED  BY <1>2, <3>1
  <2>2. ASSUME NEW b \in Call PROVE lNote'[b].version # lUser'.version
    <3>1. SessionCallOK(lCall[b], lNote[b], lUser, lBumpedAt, lNow)
          /\ lNote[b] \in SessionNote
      BY SessionFacts DEF LoginsInv
    <3>2. lNote[b].version <= v /\ lNote[b].version \in Nat
      BY <3>1, SessionNoteParts DEF SessionCallOK, v
    <3> QED  BY <1>1, <1>2, <1>3, <3>2
  <2> QED  BY <2>1, <2>2 DEF PasswordKnown
<1>12. "drop" \in SessionSteps
  BY DEF SessionSteps
<1> QED  BY <1>1, <1>3, <1>4, <1>5, <1>6, <1>7, <1>8, <1>9, <1>10, <1>11, <1>12,
            SessionFacts, SessionOwn

LEMMA SessionDrop ==
  ASSUME LoginsInv, NEW c \in Call, Logins!DropVersion(c)
  PROVE  LoginsInv'
<1>1. /\ lCall[c] = "drop" /\ lCall' = [lCall EXCEPT ![c] = "idle"]
      /\ lNote' = [lNote EXCEPT ![c] = Logins!NoNote]
      /\ UNCHANGED <<lRealm, lNow, lUser, lLink, lIssued, lBumpedAt>>
      /\ lVersions' = [lVersions EXCEPT ![lNote[c].at] = Logins!NoEntry]
  BY DEF Logins!DropVersion, Logins!Return, Logins!Step, Logins!Note, Logins!row
<1>2. lNote[c].at \in Instance
  BY <1>1 DEF LoginsInv, SessionCallOK
<1>3. SessionEntryOK(Logins!NoEntry, lUser, lBumpedAt, lNow)
  BY SessionNoEntry, SessionFacts, SessionNumbers DEF SessionEntryOK
<1>4. /\ lVersions' \in [Instance -> SessionEntry]
      /\ VersionsOK(lVersions', lUser, lBumpedAt, lNow)
  BY <1>1, <1>2, <1>3, SessionNoEntry, SessionCached
<1>5. "idle" \in SessionSteps
  BY DEF SessionSteps
<1> QED  BY <1>1, <1>4, <1>5, SessionIdle, SessionNoNote, SessionFacts, SessionOnly

LEMMA SessionReset ==
  ASSUME LoginsInv, NEW c \in Call, Logins!ResetPassword(c)
  PROVE  LoginsInv'
<1> PICK i \in Instance :
        lNote' = [lNote EXCEPT ![c] = [Logins!NoNote EXCEPT !.at = i]]
  BY DEF Logins!ResetPassword, Logins!Note
<1> DEFINE n == [Logins!NoNote EXCEPT !.at = i]
<1>1. PICK to \in {"password", "patch"} :
        lCall[c] = "idle" /\ lCall' = [lCall EXCEPT ![c] = to]
  BY DEF Logins!ResetPassword, Logins!Step
<1>2. UNCHANGED <<lRealm, lNow, lUser, lLink, lIssued, lBumpedAt, lVersions>>
  BY DEF Logins!ResetPassword, Logins!row
<1>3. /\ n \in SessionNote /\ n.at = i /\ n.token = 0 /\ n.begun = 0 /\ n.asked = 0
      /\ n.version = 0 /\ n.pw = 0
  BY SessionNoNote DEF SessionNote
<1>4. lNote' = [lNote EXCEPT ![c] = n]
  OBVIOUS
<1> HIDE DEF n
<1>5. SessionCallOK(to, n, lUser, lBumpedAt, lNow)
  BY <1>3, SessionFacts DEF SessionCallOK
<1>6. to \in SessionSteps /\ to # "sign"
  BY DEF SessionSteps
<1> QED  BY <1>1, <1>2, <1>3, <1>4, <1>5, <1>6, SessionMoves

\* The password is written, and the session version is about to be left.
LEMMA SessionWrite ==
  ASSUME LoginsInv, NEW c \in Call, Logins!WritePassword(c)
  PROVE  LoginsInv'
<1>1. /\ lCall[c] \in {"password", "patch"} /\ lCall' = [lCall EXCEPT ![c] = "bump"]
      /\ UNCHANGED <<lRealm, lNow, lIssued, lBumpedAt, lVersions, lNote>>
      /\ lUser' = [lUser EXCEPT !.pw = @ + 1] /\ lLink' \in {FALSE, lLink}
  BY DEF Logins!WritePassword, Logins!GoOn, Logins!Step
<1>2. lLink' \in BOOLEAN
  BY <1>1, SessionFacts
<1>3. /\ lUser' \in SessionUser /\ lUser'.version = lUser.version
      /\ lUser'.pw = lUser.pw + 1 /\ lUser'.mfa = lUser.mfa
  BY <1>1, SessionFacts DEF SessionUser
<1>4. UserGoesOn(lUser, lBumpedAt, lUser', lBumpedAt', lNow)
  BY <1>1, <1>3, SessionFacts DEF UserGoesOn
<1>5. LeftInOrder(lUser', lBumpedAt', lNow)
  BY <1>1, <1>3, SessionFacts DEF LeftInOrder
<1>6. IssuedOK(lIssued', lUser')
  <2>1. 0 .. lUser.pw \subseteq 0 .. lUser.pw + 1
    BY SessionFacts
  <2> QED  BY <1>1, <1>3, <2>1, SessionFacts DEF IssuedOK
<1>7. lNote[c] \in SessionNote /\ lNote' = [lNote EXCEPT ![c] = lNote[c]]
  BY <1>1, SessionFacts
<1>8. SessionCallOK("bump", lNote[c], lUser', lBumpedAt', lNow)
  <2>1. SessionCallOK(lCall[c], lNote[c], lUser', lBumpedAt', lNow)
    BY <1>1, <1>3, <1>4, SessionFacts, SessionCallStays
  <2> QED  BY <1>1, <2>1 DEF SessionCallOK
<1>9. VersionsOK(lVersions', lUser', lBumpedAt', lNow)
  BY <1>1, <1>3, SessionFacts DEF VersionsOK, SessionEntryOK
<1>10. PasswordKnown'
  <2>1. lCall'[c] = "bump"
    BY <1>1, SessionFacts
  <2> QED  BY <2>1 DEF PasswordKnown
<1>11. "bump" \in SessionSteps
  BY DEF SessionSteps
<1> QED  BY <1>1, <1>2, <1>3, <1>4, <1>5, <1>6, <1>7, <1>8, <1>9, <1>10, <1>11,
            SessionFacts, SessionOwn

\* Time passes, or a link is asked for.
LEMMA SessionPasses ==
  ASSUME LoginsInv, Logins!Tick \/ Logins!ForgotPassword
  PROVE  LoginsInv'
<1>1. CASE Logins!ForgotPassword
  <2>1. /\ lLink' \in BOOLEAN
        /\ UNCHANGED <<lRealm, lNow, lUser, lIssued, lBumpedAt, lVersions, lCall, lNote>>
    BY <1>1 DEF Logins!ForgotPassword, Logins!calls
  <2>2. Logins!TypeOK'
    BY <2>1 DEF LoginsInv, Logins!TypeOK
  <2>3. PasswordKnown'
    BY <2>1 DEF LoginsInv, PasswordKnown
  <2> QED  BY <2>1, <2>2, <2>3 DEF LoginsInv
<1>2. CASE Logins!Tick
  <2>1. /\ lNow' = lNow + 1 /\ lNow' \in 0 .. MaxTime
        /\ UNCHANGED <<lRealm, lUser, lLink, lIssued, lBumpedAt, lCall, lNote>>
        /\ lVersions' = [i \in Instance |-> Logins!Fresh(lVersions[i], lNow + 1)]
    BY <1>2, SessionFacts, SessionNumbers DEF Logins!Tick, Logins!row, Logins!calls
  <2>2. ASSUME NEW i \in Instance
        PROVE  /\ Logins!Fresh(lVersions[i], lNow + 1) \in SessionEntry
               /\ SessionEntryOK(Logins!Fresh(lVersions[i], lNow + 1), lUser, lBumpedAt,
                                 lNow')
    <3>1. SessionEntryOK(lVersions[i], lUser, lBumpedAt, lNow)
          /\ lVersions[i] \in SessionEntry
      BY SessionFacts DEF VersionsOK
    <3>2. lVersions[i].until \in Nat /\ lVersions[i].version \in Nat
      BY <3>1, SessionEntryParts
    <3>3. \/ Logins!Fresh(lVersions[i], lNow + 1) = lVersions[i]
          \/ Logins!Fresh(lVersions[i], lNow + 1) = Logins!NoEntry
      BY DEF Logins!Fresh
    <3> QED  BY <2>1, <3>1, <3>2, <3>3, SessionNoEntry, SessionFacts, SessionNumbers
             DEF SessionEntryOK
  <2>3. /\ lVersions' \in [Instance -> SessionEntry]
        /\ VersionsOK(lVersions', lUser, lBumpedAt, lNow')
    BY <2>1, <2>2 DEF VersionsOK
  <2>4. LeftInOrder(lUser, lBumpedAt, lNow')
    BY <2>1, SessionFacts DEF LeftInOrder
  <2>5. ASSUME NEW c \in Call
        PROVE  SessionCallOK(lCall[c], lNote[c], lUser, lBumpedAt, lNow')
    <3>1. SessionCallOK(lCall[c], lNote[c], lUser, lBumpedAt, lNow)
          /\ lNote[c] \in SessionNote
      BY SessionFacts DEF LoginsInv
    <3>2. lNote[c].begun \in Nat /\ lNote[c].asked \in Nat
      BY <3>1, SessionNoteParts
    <3> QED  BY <2>1, <3>1, <3>2, SessionFacts DEF SessionCallOK
  <2>6. Logins!TypeOK'
    BY <2>1, <2>3 DEF LoginsInv, Logins!TypeOK, SessionEntry, Version
  <2>7. PasswordKnown'
    BY <2>1 DEF LoginsInv, PasswordKnown
  <2> QED  BY <2>1, <2>3, <2>4, <2>5, <2>6, <2>7 DEF LoginsInv
<1> QED  BY <1>1, <1>2

LEMMA LoginsNext == LoginsInv /\ Logins!Next => LoginsInv'
<1> SUFFICES ASSUME LoginsInv, Logins!Next PROVE LoginsInv'
  OBVIOUS
<1> QED  BY SessionPasses, SessionLogin, SessionSign, SessionVerifyCode, SessionPresent,
            SessionLookUp, SessionAsk, SessionStore, SessionAnswer, SessionBump,
            SessionDrop, SessionReset, SessionWrite DEF Logins!Next

LEMMA LoginsMean ==
    LoginsInv => Logins!VersionVerdictIsRecent /\ Logins!SessionsKnowThePassword
  BY DEF LoginsInv, SessionCallOK, PasswordKnown, Logins!VersionVerdictIsRecent,
     Logins!SessionsKnowThePassword

-----------------------------------------------------------------------------
(* Admission.  What speaks against a request, since before it began, is asked *)
(* about by a check that is still to come.                                    *)

Asked == {"kyc", "market", "market_kyc", "account", "cooling", "recipient", "daily",
          "hourly", "velocity"}

\* The checks that ask for the merchant's KYC.
AsksKyc == {"kyc", "market_kyc", "account"}

Bar == {"market", "kyc", "status"}

\* A check of these is among those of a sequence.
Holds(checks, some) == \E i \in 1 .. Len(checks) : checks[i] \in some

Purpose == {"payin", "payout", "confirm", "account", "transfer", "wallet"}

Scope == {"none", "payin:create", "payout:create", "internal_transfer:create",
          "wallets:create", "transfer:create"}

Currency == {"BDT", "BRL", "USDT", "USDC", "EUR", "PYUSD", "NGN"}

RouteTypes(path) ==
    [path : {path}, for : Purpose, door : {"api", "portal"}, scope : Scope,
     place : Market, asked : Currency, stored : Currency, checks : Seq(Asked)]

\* What every route does: it asks for the KYC, for the account at the portal, and
\* for the market, but for two.
RouteOK(r, path) ==
    /\ r \in RouteTypes(path)
    /\ Len(r.checks) \in 1 .. 8
    /\ Holds(r.checks, AsksKyc)
    /\ r.door = "portal" => Holds(r.checks, {"account"})

\* The path under which a route that asks for its market is found.
Listed(r, path) == RouteOK(r, path) /\ Holds(r.checks, {"market"})

LEMMA ApiOK ==
  ASSUME NEW path, NEW for \in Purpose, NEW scope \in Scope,
         NEW place \in Market, NEW currency \in Currency
  PROVE  /\ Listed(Api(path, for, scope, place, currency), path)
         /\ Len(Api(path, for, scope, place, currency).checks) = 3
<1> DEFINE r == Api(path, for, scope, place, currency)
           checks == <<"kyc", "market", "market_kyc">>
<1>1. r = [path |-> path, for |-> for, door |-> "api", scope |-> scope, place |-> place,
           asked |-> currency, stored |-> currency, checks |-> checks]
  BY DEF Api, Route
<1>2. /\ checks \in Seq(Asked) /\ Len(checks) = 3
      /\ checks[1] = "kyc" /\ checks[2] = "market"
  BY DEF Asked
<1> HIDE DEF checks, r
<1>3. Holds(checks, AsksKyc) /\ Holds(checks, {"market"})
  <2>1. 1 \in 1 .. Len(checks) /\ 2 \in 1 .. Len(checks)
    BY <1>2
  <2> QED  BY <1>2, <2>1 DEF Holds, AsksKyc
<1>4. r.checks = checks /\ r.door = "api"
  BY <1>1
<1>5. r \in RouteTypes(path)
  BY <1>1, <1>2 DEF RouteTypes
<1>6. Listed(r, path) /\ Len(r.checks) = 3
  BY <1>2, <1>3, <1>4, <1>5 DEF Listed, RouteOK
<1> QED  BY <1>6 DEF r

LEMMA PortalOK ==
  ASSUME NEW path, NEW for \in Purpose, NEW place \in Market,
         NEW currency \in Currency
  PROVE  /\ Listed(Portal(path, for, place, currency), path)
         /\ Len(Portal(path, for, place, currency).checks) = 3
<1> DEFINE r == Portal(path, for, place, currency)
           checks == <<"account", "market", "market_kyc">>
<1>1. r = [path |-> path, for |-> for, door |-> "portal", scope |-> "none",
           place |-> place, asked |-> currency, stored |-> currency, checks |-> checks]
  BY DEF Portal, Route
<1>2. /\ checks \in Seq(Asked) /\ Len(checks) = 3
      /\ checks[1] = "account" /\ checks[2] = "market"
  BY DEF Asked
<1> HIDE DEF checks, r
<1>3. Holds(checks, AsksKyc) /\ Holds(checks, {"market"}) /\ Holds(checks, {"account"})
  <2>1. 1 \in 1 .. Len(checks) /\ 2 \in 1 .. Len(checks)
    BY <1>2
  <2> QED  BY <1>2, <2>1 DEF Holds, AsksKyc
<1>4. r.checks = checks /\ r.door = "portal"
  BY <1>1
<1>5. r \in RouteTypes(path)
  BY <1>1, <1>2 DEF RouteTypes, Scope
<1>6. Listed(r, path) /\ Len(r.checks) = 3
  BY <1>2, <1>3, <1>4, <1>5 DEF Listed, RouteOK
<1> QED  BY <1>6 DEF r

LEMMA HoldsMore ==
  ASSUME NEW s \in Seq(Asked), NEW t \in Seq(Asked), NEW some, Holds(s, some)
  PROVE  Holds(s \o t, some)
<1>1. PICK i \in 1 .. Len(s) : s[i] \in some
  BY DEF Holds
<1>2. i \in 1 .. Len(s \o t) /\ (s \o t)[i] = s[i]
  OBVIOUS
<1> QED  BY <1>1, <1>2 DEF Holds

\* A route with more checks at its end is a route.
LEMMA RouteWithMore ==
  ASSUME NEW path, NEW r, RouteOK(r, path), NEW more \in Seq(Asked),
         Len(r.checks) + Len(more) <= 8,
         NEW r2, r2 = [r EXCEPT !.checks = r.checks \o more]
  PROVE  /\ RouteOK(r2, path)
         /\ Len(r2.checks) = Len(r.checks) + Len(more)
         /\ Holds(r.checks, {"market"}) => Holds(r2.checks, {"market"})
<1>1. r \in RouteTypes(path) /\ Len(r.checks) \in 1 .. 8
  BY DEF RouteOK
<1>2. r.checks \in Seq(Asked)
  BY <1>1 DEF RouteTypes
<1>3. r.checks \o more \in Seq(Asked) /\ Len(r.checks \o more) = Len(r.checks) + Len(more)
  BY <1>2, ConcatProperties
<1>4. Len(r.checks) + Len(more) \in 1 .. 8
  <2> DEFINE a == Len(r.checks)
             b == Len(more)
  <2>1. a \in 1 .. 8 /\ b \in Nat /\ a + b <= 8
    BY <1>1, LenProperties
  <2> HIDE DEF a, b
  <2>2. a + b \in 1 .. 8
    BY <2>1
  <2> QED  BY <2>2 DEF a, b
<1>5. /\ r2 \in RouteTypes(path)
      /\ r2.checks = r.checks \o more /\ r2.door = r.door
  BY <1>1, <1>3 DEF RouteTypes
<1>6. \A some : Holds(r.checks, some) => Holds(r2.checks, some)
  BY <1>2, <1>5, HoldsMore
<1> QED  BY <1>3, <1>4, <1>5, <1>6 DEF RouteOK

LEMMA PolicedOK ==
  ASSUME NEW path, NEW r, RouteOK(r, path), Len(r.checks) <= 5
  PROVE  /\ RouteOK(Policed(r), path)
         /\ Holds(r.checks, {"market"}) => Holds(Policed(r).checks, {"market"})
<1>1. PICK more \in Seq(Asked) : /\ Len(more) \in {1, 3}
                                 /\ Policed(r) = [r EXCEPT !.checks = r.checks \o more]
  <2>1. CASE r.for = "payout"
    <3>1. Policed(r) = [r EXCEPT !.checks = r.checks \o <<"cooling", "recipient", "daily">>]
      BY <2>1 DEF Policed, RouteOK, RouteTypes
    <3>2. <<"cooling", "recipient", "daily">> \in Seq(Asked)
      BY DEF Asked
    <3>3. Len(<<"cooling", "recipient", "daily">>) = 3
      OBVIOUS
    <3> QED  BY <3>1, <3>2, <3>3
  <2>2. CASE r.for # "payout"
    <3>1. Policed(r) = [r EXCEPT !.checks = r.checks \o <<"hourly">>]
      BY <2>2 DEF Policed, RouteOK, RouteTypes
    <3>2. <<"hourly">> \in Seq(Asked)
      BY DEF Asked
    <3>3. Len(<<"hourly">>) = 1
      OBVIOUS
    <3> QED  BY <3>1, <3>2, <3>3
  <2> QED  BY <2>1, <2>2
<1>2. Len(r.checks) + Len(more) <= 8
  <2> DEFINE a == Len(r.checks)
             b == Len(more)
  <2>1. a \in 1 .. 8 /\ a <= 5 /\ b \in {1, 3}
    BY <1>1 DEF RouteOK
  <2> HIDE DEF a, b
  <2>2. a + b <= 8
    BY <2>1
  <2> QED  BY <2>2 DEF a, b
<1> QED  BY <1>1, <1>2, RouteWithMore

LEMMA GatedOK ==
  ASSUME NEW path, NEW r, RouteOK(r, path), Len(r.checks) <= 4
  PROVE  /\ RouteOK(Gated(r), path) /\ Len(Gated(r).checks) <= 5
         /\ Holds(r.checks, {"market"}) => Holds(Gated(r).checks, {"market"})
<1> DEFINE more == <<"velocity">>
<1>1. more \in Seq(Asked) /\ Len(more) = 1
  BY DEF Asked
<1>2. r.checks \in Seq(Asked) /\ Len(r.checks) \in Nat
  BY DEF RouteOK, RouteTypes
<1>3. Append(r.checks, "velocity") = r.checks \o more
  BY <1>2, AppendIsConcat DEF Asked
<1>4. Gated(r) = [r EXCEPT !.checks = r.checks \o more]
  BY <1>3 DEF Gated, RouteOK, RouteTypes
<1> HIDE DEF more
<1>5. Len(r.checks) + Len(more) <= 5 /\ Len(r.checks) + Len(more) <= 8
  BY <1>1, <1>2
<1>6. /\ RouteOK(Gated(r), path)
      /\ Len(Gated(r).checks) = Len(r.checks) + Len(more)
      /\ Holds(r.checks, {"market"}) => Holds(Gated(r).checks, {"market"})
  BY <1>1, <1>4, <1>5, RouteWithMore
<1> QED  BY <1>5, <1>6

\* The portal's Bangladesh routes have checks of their own.
LEMMA UnlistedOK ==
  ASSUME NEW path, NEW for \in Purpose, NEW place \in Market, NEW currency \in Currency,
         NEW checks \in {<<"kyc", "account">>, <<"account">>}
  PROVE  /\ RouteOK(Unlisted(Portal(path, for, place, currency), checks), path)
         /\ Len(Unlisted(Portal(path, for, place, currency), checks).checks) <= 2
<1> DEFINE r == Unlisted(Portal(path, for, place, currency), checks)
<1>1. r = [path |-> path, for |-> for, door |-> "portal", scope |-> "none",
           place |-> place, asked |-> currency, stored |-> currency, checks |-> checks]
  BY DEF Portal, Route, Unlisted
<1> HIDE DEF r
<1>2. checks \in Seq(Asked) /\ Len(checks) \in 1 .. 2 /\ Holds(checks, {"account"})
  <2>1. CASE checks = <<"account">>
    <3>1. checks \in Seq(Asked)
      BY <2>1 DEF Asked
    <3>2. Len(checks) = 1 /\ checks[1] = "account"
      BY <2>1
    <3> QED  BY <3>1, <3>2 DEF Holds
  <2>2. CASE checks = <<"kyc", "account">>
    <3>1. checks \in Seq(Asked)
      BY <2>2 DEF Asked
    <3>2. Len(checks) = 2 /\ checks[2] = "account"
      BY <2>2
    <3> QED  BY <3>1, <3>2 DEF Holds
  <2> QED  BY <2>1, <2>2
<1>3. Holds(checks, AsksKyc)
  BY <1>2 DEF Holds, AsksKyc
<1>4. r.checks = checks /\ r.door = "portal"
  BY <1>1
<1>5. r \in RouteTypes(path)
  BY <1>1, <1>2 DEF RouteTypes, Scope
<1>6. Len(r.checks) <= 2 /\ Len(r.checks) \in 1 .. 8
  <2> DEFINE a == Len(checks)
  <2>1. a \in 1 .. 2
    BY <1>2
  <2> HIDE DEF a
  <2>2. a <= 2 /\ a \in 1 .. 8
    BY <2>1
  <2> QED  BY <1>4, <2>2 DEF a
<1>7. RouteOK(r, path)
  BY <1>2, <1>3, <1>4, <1>5, <1>6 DEF RouteOK
<1> QED  BY <1>6, <1>7 DEF r

LEMMA ListedOK ==
  ASSUME NEW path, NEW r, Listed(r, path), Len(r.checks) = 3
  PROVE  /\ Listed(Policed(r), path) /\ Listed(Gated(r), path)
         /\ Listed(Policed(Gated(r)), path)
<1>1. RouteOK(r, path) /\ Holds(r.checks, {"market"})
  BY DEF Listed
<1>2. Len(r.checks) <= 4 /\ Len(r.checks) <= 5
  OBVIOUS
<1>3. Listed(Policed(r), path)
  BY <1>1, <1>2, PolicedOK DEF Listed
<1>4. Listed(Gated(r), path) /\ Len(Gated(r).checks) <= 5
  BY <1>1, <1>2, GatedOK DEF Listed
<1>5. Listed(Policed(Gated(r)), path)
  BY <1>4, PolicedOK DEF Listed
<1> QED  BY <1>3, <1>4, <1>5

\* A payout that settles in another currency.
LEMMA StoredOK ==
  ASSUME NEW path, NEW r, Listed(r, path), NEW currency \in Currency
  PROVE  Listed([r EXCEPT !.stored = currency], path)
<1> DEFINE r2 == [r EXCEPT !.stored = currency]
<1>1. r \in RouteTypes(path)
  BY DEF Listed, RouteOK
<1>2. r2 \in RouteTypes(path) /\ r2.checks = r.checks /\ r2.door = r.door
  BY <1>1 DEF RouteTypes
<1> HIDE DEF r2
<1>3. Listed(r2, path)
  BY <1>2 DEF Listed, RouteOK
<1> QED  BY <1>3 DEF r2

\* The checks of a route that asks for less, and those of one that is policed.
LEMMA UnlistedPoliced ==
  ASSUME NEW path, NEW r, RouteOK(r, path), Len(r.checks) <= 2
  PROVE  RouteOK(Policed(r), path) /\ RouteOK(Policed(Gated(r)), path)
<1>1. Len(r.checks) <= 4 /\ Len(r.checks) <= 5
  BY DEF RouteOK
<1>2. RouteOK(Gated(r), path) /\ Len(Gated(r).checks) <= 5
  BY <1>1, GatedOK
<1> QED  BY <1>1, <1>2, PolicedOK

\* The routes, by their paths.
LEMMA ApiRoutes ==
    /\ Listed(V1Payins, "/v1/payins")
    /\ Listed(V1BrPayins, "/v1/br/payins")
    /\ Listed(V1H2hPayins, "/v1/h2h/payin-instances")
    /\ Listed(V1H2hConfirm, "/v1/h2h/buyer-confirms-payment")
    /\ Listed(V1CpgPayins, "/v1/cpg/payin-requests")
    /\ Listed(V1CpgPayouts, "/v1/cpg/payout-requests")
    /\ Listed(V1EurPayins, "/v1/eur/payin-instances")
    /\ Listed(V1EurPayouts, "/v1/eur/payout-instances")
    /\ Listed(V1EurApprove, "/v1/eur/payout-instances/approve")
    /\ Listed(V1PyusdIntents, "/v1/pyusd/payment-intents")
    /\ Listed(V1NgnAccount, "/v1/ngn/virtual-account")
    /\ Listed(V1NgnPayouts, "/v1/ngn/payouts")
    /\ Listed(V1InternalTransfer, "/v1/internal-transfer")
    /\ Listed(V1Payouts, "/v1/payouts")
    /\ Listed(V1BrPayouts, "/v1/br/payouts")
    /\ Listed(V1Wallets, "/v1/wallets")
    /\ Listed(V1Transfers, "/v1/transfers")
<1>1. Listed(V1Payins, "/v1/payins")
  BY ApiOK, ListedOK DEF V1Payins, Purpose, Scope, Market, Currency
<1>2. Listed(V1BrPayins, "/v1/br/payins")
  BY ApiOK, ListedOK DEF V1BrPayins, Purpose, Scope, Market, Currency
<1>3. Listed(V1H2hPayins, "/v1/h2h/payin-instances")
  BY ApiOK, ListedOK DEF V1H2hPayins, Purpose, Scope, Market, Currency
<1>4. Listed(V1H2hConfirm, "/v1/h2h/buyer-confirms-payment")
  BY ApiOK, ListedOK DEF V1H2hConfirm, Purpose, Scope, Market, Currency
<1>5. Listed(V1CpgPayins, "/v1/cpg/payin-requests")
  BY ApiOK, ListedOK DEF V1CpgPayins, Purpose, Scope, Market, Currency
<1>6. Listed(V1CpgPayouts, "/v1/cpg/payout-requests")
  BY ApiOK, ListedOK DEF V1CpgPayouts, Purpose, Scope, Market, Currency
<1>7. Listed(V1EurPayins, "/v1/eur/payin-instances")
  BY ApiOK, ListedOK DEF V1EurPayins, Purpose, Scope, Market, Currency
<1>8. Listed(V1EurPayouts, "/v1/eur/payout-instances")
  BY ApiOK, ListedOK DEF V1EurPayouts, Purpose, Scope, Market, Currency
<1>9. Listed(V1EurApprove, "/v1/eur/payout-instances/approve")
  BY ApiOK, ListedOK DEF V1EurApprove, Purpose, Scope, Market, Currency
<1>10. Listed(V1PyusdIntents, "/v1/pyusd/payment-intents")
  BY ApiOK, ListedOK DEF V1PyusdIntents, Purpose, Scope, Market, Currency
<1>11. Listed(V1NgnAccount, "/v1/ngn/virtual-account")
  BY ApiOK, ListedOK DEF V1NgnAccount, Purpose, Scope, Market, Currency
<1>12. Listed(V1NgnPayouts, "/v1/ngn/payouts")
  BY ApiOK, ListedOK DEF V1NgnPayouts, Purpose, Scope, Market, Currency
<1>13. Listed(V1InternalTransfer, "/v1/internal-transfer")
  BY ApiOK, ListedOK DEF V1InternalTransfer, Purpose, Scope, Market, Currency
<1>14. Listed(V1Payouts, "/v1/payouts")
  BY ApiOK, ListedOK DEF V1Payouts, Purpose, Scope, Market, Currency
<1>15. Listed(V1BrPayouts, "/v1/br/payouts")
  BY ApiOK, ListedOK DEF V1BrPayouts, Purpose, Scope, Market, Currency
<1>16. Listed(V1Wallets, "/v1/wallets")
  BY ApiOK, ListedOK DEF V1Wallets, Purpose, Scope, Market, Currency
<1>17. Listed(V1Transfers, "/v1/transfers")
  BY ApiOK, ListedOK DEF V1Transfers, Purpose, Scope, Market, Currency
<1> QED  BY <1>1, <1>2, <1>3, <1>4, <1>5, <1>6, <1>7, <1>8, <1>9, <1>10, <1>11, <1>12, <1>13, <1>14, <1>15, <1>16, <1>17

LEMMA PortalRoutes ==
    /\ RouteOK(PortalPayins, "/portal/me/payins")
    /\ RouteOK(PortalPayouts, "/portal/me/payouts")
    /\ Listed(PortalBrPayins, "/portal/me/br/payins")
    /\ Listed(PortalBrPayouts, "/portal/me/br/payouts")
    /\ Listed(PortalCpgPayouts, "/portal/me/cpg/payout-requests")
    /\ Listed(PortalEurPayouts, "/portal/me/eur/payout-instances")
    /\ Listed(PortalEurApprove, "/portal/me/eur/payout-instances/approve")
    /\ Listed(PortalNgnAccount, "/portal/me/ngn/virtual-account")
    /\ Listed(PortalNgnPayouts, "/portal/me/ngn/payouts")
    /\ Listed(PortalH2hPayins, "/portal/me/h2h/payin-instances")
    /\ Listed(PortalH2hConfirm, "/portal/me/h2h/buyer-confirms-payment")
    /\ Listed(PortalPyusdIntents, "/portal/me/pyusd/payment-intents")
<1>18. RouteOK(PortalPayins, "/portal/me/payins")
  BY UnlistedOK, UnlistedPoliced DEF PortalPayins, Purpose, Scope, Market, Currency
<1>19. RouteOK(PortalPayouts, "/portal/me/payouts")
  BY UnlistedOK, UnlistedPoliced DEF PortalPayouts, Purpose, Scope, Market, Currency
<1>20. Listed(PortalBrPayins, "/portal/me/br/payins")
  BY PortalOK, ListedOK DEF PortalBrPayins, Purpose, Scope, Market, Currency
<1>21. Listed(PortalBrPayouts, "/portal/me/br/payouts")
  BY PortalOK, ListedOK DEF PortalBrPayouts, Purpose, Scope, Market, Currency
<1>22. Listed(PortalCpgPayouts, "/portal/me/cpg/payout-requests")
  BY PortalOK, ListedOK DEF PortalCpgPayouts, Purpose, Scope, Market, Currency
<1>23. Listed(PortalEurPayouts, "/portal/me/eur/payout-instances")
  BY PortalOK, ListedOK, StoredOK DEF PortalEurPayouts, Purpose, Scope, Market, Currency
<1>24. Listed(PortalEurApprove, "/portal/me/eur/payout-instances/approve")
  BY PortalOK, ListedOK DEF PortalEurApprove, Purpose, Scope, Market, Currency
<1>25. Listed(PortalNgnAccount, "/portal/me/ngn/virtual-account")
  BY PortalOK, ListedOK DEF PortalNgnAccount, Purpose, Scope, Market, Currency
<1>26. Listed(PortalNgnPayouts, "/portal/me/ngn/payouts")
  BY PortalOK, ListedOK DEF PortalNgnPayouts, Purpose, Scope, Market, Currency
<1>27. Listed(PortalH2hPayins, "/portal/me/h2h/payin-instances")
  BY PortalOK, ListedOK DEF PortalH2hPayins, Purpose, Scope, Market, Currency
<1>28. Listed(PortalH2hConfirm, "/portal/me/h2h/buyer-confirms-payment")
  BY PortalOK, ListedOK DEF PortalH2hConfirm, Purpose, Scope, Market, Currency
<1>29. Listed(PortalPyusdIntents, "/portal/me/pyusd/payment-intents")
  BY PortalOK, ListedOK DEF PortalPyusdIntents, Purpose, Scope, Market, Currency
<1> QED  BY <1>18, <1>19, <1>20, <1>21, <1>22, <1>23, <1>24, <1>25, <1>26, <1>27, <1>28, <1>29

\* A route is known by its path.
LEMMA RoutePaths ==
    /\ V1Payins.path = "/v1/payins"
    /\ V1BrPayins.path = "/v1/br/payins"
    /\ V1H2hPayins.path = "/v1/h2h/payin-instances"
    /\ V1H2hConfirm.path = "/v1/h2h/buyer-confirms-payment"
    /\ V1CpgPayins.path = "/v1/cpg/payin-requests"
    /\ V1CpgPayouts.path = "/v1/cpg/payout-requests"
    /\ V1EurPayins.path = "/v1/eur/payin-instances"
    /\ V1EurPayouts.path = "/v1/eur/payout-instances"
    /\ V1EurApprove.path = "/v1/eur/payout-instances/approve"
    /\ V1PyusdIntents.path = "/v1/pyusd/payment-intents"
    /\ V1NgnAccount.path = "/v1/ngn/virtual-account"
    /\ V1NgnPayouts.path = "/v1/ngn/payouts"
    /\ V1InternalTransfer.path = "/v1/internal-transfer"
    /\ V1Payouts.path = "/v1/payouts"
    /\ V1BrPayouts.path = "/v1/br/payouts"
    /\ V1Wallets.path = "/v1/wallets"
    /\ V1Transfers.path = "/v1/transfers"
    /\ PortalPayins.path = "/portal/me/payins"
    /\ PortalPayouts.path = "/portal/me/payouts"
    /\ PortalBrPayins.path = "/portal/me/br/payins"
    /\ PortalBrPayouts.path = "/portal/me/br/payouts"
    /\ PortalCpgPayouts.path = "/portal/me/cpg/payout-requests"
    /\ PortalEurPayouts.path = "/portal/me/eur/payout-instances"
    /\ PortalEurApprove.path = "/portal/me/eur/payout-instances/approve"
    /\ PortalNgnAccount.path = "/portal/me/ngn/virtual-account"
    /\ PortalNgnPayouts.path = "/portal/me/ngn/payouts"
    /\ PortalH2hPayins.path = "/portal/me/h2h/payin-instances"
    /\ PortalH2hConfirm.path = "/portal/me/h2h/buyer-confirms-payment"
    /\ PortalPyusdIntents.path = "/portal/me/pyusd/payment-intents"
  BY ApiRoutes, PortalRoutes DEF Listed, RouteOK, RouteTypes

LEMMA RoutesDiffer ==
  ASSUME NEW r \in Routes, NEW s \in Routes, r.path = s.path
  PROVE  r = s
  BY RoutePaths DEF Routes

LEMMA RoutesOK ==
  ASSUME NEW r \in Routes
  PROVE  /\ RouteOK(r, r.path) /\ r.path # "none"
         /\ Holds(r.checks, {"market"}) \/ r \in {PortalPayins, PortalPayouts}
  BY ApiRoutes, PortalRoutes, RoutePaths DEF Routes, Listed

-----------------------------------------------------------------------------

Payment == [for : {"payin", "payout"}, door : {"api", "portal"}, asked : Currency,
            currency : Currency, amount : Amount,
            status : {"pending", "success", "failed"}]

Request == [path : {"none"} \cup Used, amount : Amount \cup {0}, left : Seq(Asked),
            barred : SUBSET Bar]

Chosen(path) == CHOOSE r \in Routes : r.path = path

\* What is left of the checks is their end.
Rest(left, checks) == \E k \in 1 .. 9 : left = SubSeq(checks, k, Len(checks))

\* What speaks against a request still does, and is still to be asked about.
UnderWay(n, r, boards, of) ==
    /\ r \in Routes /\ r.path = n.path
    /\ n.amount \in Amount
    /\ Rest(n.left, r.checks)
    /\ n.barred \subseteq Bars(boards[r.place], of)
    /\ "kyc" \in n.barred => Holds(n.left, AsksKyc)
    /\ "status" \in n.barred => r.door = "api" \/ Holds(n.left, {"account"})
    /\ "market" \in n.barred =>
          Holds(n.left, {"market"}) \/ r \in {PortalPayins, PortalPayouts}

RequestOK(n, boards, of) ==
    IF n.path = "none" THEN n.left = <<>> ELSE UnderWay(n, Chosen(n.path), boards, of)

DoorsInv ==
    /\ market \in [Market -> {"approved", "suspended"}]
    /\ account \in [status : {"active", "suspended"}, kyc : {"verified", "rejected"}]
    /\ made \in Seq(Payment)
    /\ call \in [Call -> Request]
    /\ \A c \in Call : RequestOK(call[c], market, account)
    /\ changes \in 0 .. MaxChanges

LEMMA ChosenRoute ==
  ASSUME NEW r \in Routes
  PROVE  Chosen(r.path) = r
<1>1. Chosen(r.path) \in Routes /\ Chosen(r.path).path = r.path
  BY DEF Chosen
<1> QED  BY <1>1, RoutesDiffer

LEMMA IdleRequest ==
  /\ Idle \in Request
  /\ \A boards, of : RequestOK(Idle, boards, of)
<1>1. <<>> \in Seq(Asked)
  OBVIOUS
<1> QED  BY <1>1 DEF Idle, Request, RequestOK

LEMMA DoorsInit == Init => DoorsInv
<1> SUFFICES ASSUME Init PROVE DoorsInv
  OBVIOUS
<1>1. /\ market \in [Market -> {"approved", "suspended"}]
      /\ account \in [status : {"active", "suspended"}, kyc : {"verified", "rejected"}]
      /\ made \in Seq(Payment) /\ changes \in 0 .. MaxChanges
  BY AccountsAssumption DEF Init
<1>2. call \in [Call -> Request] /\ \A c \in Call : RequestOK(call[c], market, account)
  BY IdleRequest DEF Init
<1> QED  BY <1>1, <1>2 DEF DoorsInv

\* One request moves, the tables stay.
LEMMA DoorOwn ==
  ASSUME DoorsInv, NEW c \in Call, NEW n \in Request, call' = [call EXCEPT ![c] = n],
         UNCHANGED <<market, account, changes>>, made' \in Seq(Payment),
         RequestOK(n, market, account)
  PROVE  DoorsInv'
  BY DEF DoorsInv

LEMMA DoorBegin ==
  ASSUME DoorsInv, NEW c \in Call, Begin(c)
  PROVE  DoorsInv'
<1> PICK r \in Routes, amount \in Amount :
        /\ r.path \in Used
        /\ call' = [call EXCEPT ![c] =
              [path |-> r.path, amount |-> amount, left |-> r.checks,
               barred |-> Bars(market[r.place], account)]]
  BY DEF Begin
<1> DEFINE n == [path |-> r.path, amount |-> amount, left |-> r.checks,
                 barred |-> Bars(market[r.place], account)]
<1>1. RouteOK(r, r.path) /\ r.path # "none"
  BY RoutesOK
<1>2. r.checks \in Seq(Asked)
  BY <1>1 DEF RouteOK, RouteTypes
<1>3. Bars(market[r.place], account) \in SUBSET Bar
  BY DEF Bars, Bar
<1>4. n \in Request
  BY <1>2, <1>3 DEF Request
<1>5. Rest(r.checks, r.checks)
  BY <1>2, SubSeqFull DEF Rest
<1>6. UnderWay(n, r, market, account)
  BY <1>1, <1>5, RoutesOK DEF UnderWay, RouteOK, RouteTypes
<1>7. n.path = r.path /\ Chosen(r.path) = r
  BY ChosenRoute
<1>8. call' = [call EXCEPT ![c] = n]
  OBVIOUS
<1> HIDE DEF n
<1>9. RequestOK(n, market, account)
  BY <1>1, <1>6, <1>7 DEF RequestOK
<1> QED  BY <1>4, <1>8, <1>9, DoorOwn DEF Begin, DoorsInv

\* A check that is passed answers what it asks.
LEMMA PassesMeans ==
  ASSUME NEW check, NEW r, NEW amount, Passes(check, r, amount)
  PROVE  /\ check \in {"kyc", "market_kyc"} => account.kyc = "verified"
         /\ check = "account" => account = [status |-> "active", kyc |-> "verified"]
         /\ check = "market" => market[r.place] = "approved"
<1>1. check = "kyc" => account.kyc = "verified"
  BY DEF Passes
<1>2. check = "market_kyc" => account.kyc = "verified"
  BY DEF Passes
<1>3. check = "account" => account = [status |-> "active", kyc |-> "verified"]
  BY DEF Passes
<1>4. check = "market" => market[r.place] = "approved"
  BY DEF Passes
<1> QED  BY <1>1, <1>2, <1>3, <1>4

\* A check that is not the head is in the tail.
LEMMA HoldsTail ==
  ASSUME NEW s \in Seq(Asked), s # <<>>, NEW some, Holds(s, some), Head(s) \notin some
  PROVE  Holds(Tail(s), some)
<1>1. PICK i \in 1 .. Len(s) : s[i] \in some
  BY DEF Holds
<1>2. i # 1
  BY <1>1
<1>3. i - 1 \in 1 .. Len(Tail(s)) /\ Tail(s)[i - 1] = s[i]
  BY <1>2
<1> QED  BY <1>1, <1>3 DEF Holds

LEMMA RestTail ==
  ASSUME NEW checks \in Seq(Asked), Len(checks) \in 1 .. 8, NEW left, left # <<>>,
         Rest(left, checks)
  PROVE  Rest(Tail(left), checks)
<1>1. PICK k \in 1 .. 9 : left = SubSeq(checks, k, Len(checks))
  BY DEF Rest
<1>2. k \in 1 .. Len(checks)
  BY <1>1, SubSeqEmpty
<1>3. Len(checks) \in k .. Len(checks) /\ k + 1 \in 1 .. 9
  <2> DEFINE a == Len(checks)
  <2>1. a \in 1 .. 8 /\ k \in 1 .. a
    BY <1>2
  <2> HIDE DEF a
  <2>2. a \in k .. a /\ k + 1 \in 1 .. 9
    BY <2>1
  <2> QED  BY <2>2 DEF a
<1>4. Tail(left) = SubSeq(checks, k + 1, Len(checks))
  BY <1>1, <1>2, <1>3, HeadTailOfSubSeq
<1> QED  BY <1>3, <1>4 DEF Rest

LEMMA DoorCheck ==
  ASSUME DoorsInv, NEW c \in Call, Check(c)
  PROVE  DoorsInv'
<1> DEFINE n == call[c]
           r == Chosen(n.path)
           m == [n EXCEPT !.left = Tail(n.left)]
<1>1. /\ n \in Request /\ n.left # <<>> /\ call \in [Call -> Request]
      /\ RequestOK(n, market, account)
      /\ UNCHANGED <<market, account, changes>> /\ made' \in Seq(Payment)
  BY DEF DoorsInv, Check
<1>2. n.path # "none" /\ UnderWay(n, r, market, account)
  BY <1>1 DEF RequestOK
<1>3. CASE call' = [call EXCEPT ![c] = Idle]
  BY <1>1, <1>3, IdleRequest, DoorOwn
<1>4. CASE /\ Passes(Head(n.left), r, n.amount)
           /\ call' = [call EXCEPT ![c].left = Tail(@)]
  <2>1. n.left \in Seq(Asked) /\ n.barred \in SUBSET Bar
    BY <1>1 DEF Request
  <2>2. Tail(n.left) \in Seq(Asked)
    BY <1>1, <2>1
  <2>3. /\ m \in Request /\ m.left = Tail(n.left) /\ m.path = n.path
        /\ m.amount = n.amount /\ m.barred = n.barred
    BY <1>1, <2>2 DEF Request
  <2>4. call' = [call EXCEPT ![c] = m]
    BY <1>1, <1>4
  <2>5. r \in Routes /\ n.barred \subseteq Bars(market[r.place], account)
    BY <1>2 DEF UnderWay
  <2>6. r.checks \in Seq(Asked) /\ Len(r.checks) \in 1 .. 8
    BY <2>5, RoutesOK DEF RouteOK, RouteTypes
  <2>7. Rest(Tail(n.left), r.checks)
    BY <1>1, <1>2, <2>6, RestTail DEF UnderWay
  <2>8. "kyc" \in n.barred => Head(n.left) \notin AsksKyc
    BY <1>4, <2>5, PassesMeans DEF Bars, AsksKyc
  <2>9. "status" \in n.barred => Head(n.left) \notin {"account"}
    BY <1>4, <2>5, PassesMeans DEF Bars
  <2>10. "market" \in n.barred => Head(n.left) \notin {"market"}
    BY <1>4, <2>5, PassesMeans DEF Bars
  <2>11. UnderWay(m, r, market, account)
    <3> HIDE DEF m, n, r
    <3> QED  BY <1>1, <1>2, <2>1, <2>3, <2>7, <2>8, <2>9, <2>10, HoldsTail DEF UnderWay
  <2> HIDE DEF m
  <2>12. RequestOK(m, market, account)
    BY <1>2, <2>3, <2>11 DEF RequestOK
  <2> QED  BY <1>1, <2>3, <2>4, <2>12, DoorOwn
<1> QED  BY <1>3, <1>4 DEF Check, RouteOf, Chosen

LEMMA DoorCreate ==
  ASSUME DoorsInv, NEW c \in Call, Create(c)
  PROVE  DoorsInv'
<1> DEFINE n == call[c]
           r == Chosen(n.path)
           payment == [for |-> r.for, door |-> r.door, asked |-> r.asked,
                       currency |-> r.stored, amount |-> n.amount,
                       status |-> "pending"]
<1>1. /\ n.path # "none" /\ call' = [call EXCEPT ![c] = Idle]
      /\ UNCHANGED <<market, account, changes>>
      /\ \/ r.for \in {"payin", "payout"} /\ made' = Append(made, payment)
         \/ UNCHANGED made
  BY DEF Create, RouteOf, Chosen
<1>2. UnderWay(n, r, market, account)
  BY <1>1 DEF DoorsInv, RequestOK
<1>3. RouteOK(r, r.path) /\ n.amount \in Amount
  BY <1>2, RoutesOK DEF UnderWay
<1>4. r.for \in {"payin", "payout"} => payment \in Payment
  BY <1>3 DEF RouteOK, RouteTypes, Payment
<1> HIDE DEF payment
<1>5. made' \in Seq(Payment)
  BY <1>1, <1>4, AppendProperties, SMTT(30) DEF DoorsInv
<1> QED  BY <1>1, <1>5, IdleRequest, DoorOwn

LEMMA DoorSettle ==
  ASSUME DoorsInv, Settle
  PROVE  DoorsInv'
<1>1. PICK i \in DOMAIN made, status \in {"success", "failed"} :
          made' = [made EXCEPT ![i].status = status]
  BY DEF Settle
<1>2. made \in Seq(Payment) /\ UNCHANGED <<market, account, call, changes>>
  BY DEF DoorsInv, Settle
<1>3. i \in 1 .. Len(made) /\ made[i] \in Payment
  BY <1>2, LenProperties, ElementOfSeq
<1> DEFINE payment == [made[i] EXCEPT !.status = status]
<1>4. payment \in Payment
  BY <1>3 DEF Payment
<1>5. made' = [made EXCEPT ![i] = payment]
  BY <1>1
<1> HIDE DEF payment
<1>6. made' \in Seq(Payment)
  BY <1>2, <1>3, <1>4, <1>5, ExceptSeq
<1> QED  BY <1>2, <1>6 DEF DoorsInv

LEMMA DoorDecide ==
  ASSUME DoorsInv, Decide
  PROVE  DoorsInv'
<1>1. /\ changes < MaxChanges /\ changes' = changes + 1 /\ made' = made
      /\ call' = [c \in Call |->
            IF call[c].path = "none" THEN Idle
            ELSE [call[c] EXCEPT !.barred =
                     @ \cap Bars(market'[RouteOf(c).place], account')]]
  BY DEF Decide
<1>2. /\ market \in [Market -> {"approved", "suspended"}]
      /\ account \in [status : {"active", "suspended"}, kyc : {"verified", "rejected"}]
      /\ call \in [Call -> Request] /\ changes \in 0 .. MaxChanges /\ made \in Seq(Payment)
      /\ \A c \in Call : RequestOK(call[c], market, account)
  BY DEF DoorsInv
<1>3. /\ market' \in [Market -> {"approved", "suspended"}]
      /\ account' \in [status : {"active", "suspended"}, kyc : {"verified", "rejected"}]
  BY <1>2 DEF Decide
<1>4. changes' \in 0 .. MaxChanges
  BY <1>1, <1>2, AccountsAssumption
<1>5. ASSUME NEW c \in Call
      PROVE  call'[c] \in Request /\ RequestOK(call'[c], market', account')
  <2>1. CASE call[c].path = "none"
    <3>1. call'[c] = Idle
      BY <1>1, <2>1
    <3> QED  BY <3>1, IdleRequest
  <2>2. CASE call[c].path # "none"
    <3> DEFINE n == call[c]
               r == Chosen(n.path)
               bars == Bars(market'[r.place], account')
               m == [n EXCEPT !.barred = n.barred \cap bars]
    <3>1. call'[c] = m
      BY <1>1, <2>2 DEF RouteOf, Chosen
    <3>2. n \in Request /\ UnderWay(n, r, market, account)
      BY <1>2, <2>2 DEF RequestOK
    <3> HIDE DEF bars
    <3>3. /\ m \in Request /\ m.left = n.left /\ m.path = n.path
          /\ m.amount = n.amount /\ m.barred = n.barred \cap bars
      BY <3>2 DEF Request
    <3>4. UnderWay(m, r, market', account')
      <4> HIDE DEF m, n, r
      <4> QED  BY <3>2, <3>3 DEF UnderWay, bars
    <3> HIDE DEF m
    <3>5. RequestOK(m, market', account')
      BY <2>2, <3>3, <3>4 DEF RequestOK
    <3> QED  BY <3>1, <3>3, <3>5
  <2> QED  BY <2>1, <2>2
<1>6. call' \in [Call -> Request]
  <2>1. call' = [c \in Call |-> call'[c]]
    BY <1>1
  <2> QED  BY <1>5, <2>1
<1> QED  BY <1>1, <1>2, <1>3, <1>4, <1>5, <1>6 DEF DoorsInv

LEMMA DoorsNext == DoorsInv /\ Next => DoorsInv'
<1> SUFFICES ASSUME DoorsInv, Next PROVE DoorsInv'
  OBVIOUS
<1> QED  BY DoorBegin, DoorCheck, DoorCreate, DoorSettle, DoorDecide DEF Next

LEMMA DoorsStay == DoorsInv /\ UNCHANGED vars => DoorsInv'
  BY DEF DoorsInv, vars

LEMMA DoorsMean == DoorsInv => TypeOK /\ SuspensionHolds
<1> SUFFICES ASSUME DoorsInv PROVE TypeOK /\ SuspensionHolds
  OBVIOUS
<1>1. ASSUME NEW i \in DOMAIN made
      PROVE  /\ made[i].for \in {"payin", "payout"} /\ made[i].door \in {"api", "portal"}
             /\ made[i].amount \in Amount
             /\ made[i].status \in {"pending", "success", "failed"}
  <2>1. made[i] \in Payment
    BY LenProperties, ElementOfSeq DEF DoorsInv
  <2> QED  BY <2>1 DEF Payment
<1>2. ASSUME NEW c \in Call
      PROVE  /\ call[c].path \in {"none"} \cup Used
             /\ call[c].path # "none" => call[c].left \in {RouteOf(c).checks} \cup
                   {SubSeq(RouteOf(c).checks, k, Len(RouteOf(c).checks)) : k \in 2 .. 9}
             /\ call[c].barred \subseteq {"market", "kyc", "status"}
  <2>1. call[c] \in Request /\ RequestOK(call[c], market, account)
    BY DEF DoorsInv
  <2>2. call[c].path \in {"none"} \cup Used /\ call[c].barred \subseteq Bar
    BY <2>1 DEF Request
  <2>3. ASSUME call[c].path # "none"
        PROVE  call[c].left \in {RouteOf(c).checks} \cup
                   {SubSeq(RouteOf(c).checks, k, Len(RouteOf(c).checks)) : k \in 2 .. 9}
    <3> DEFINE checks == RouteOf(c).checks
    <3>1. RouteOf(c) \in Routes /\ Rest(call[c].left, checks)
      BY <2>1, <2>3 DEF RequestOK, UnderWay, RouteOf, Chosen
    <3>2. checks \in Seq(Asked)
      BY <3>1, RoutesOK DEF RouteOK, RouteTypes
    <3> HIDE DEF checks
    <3>3. PICK k \in 1 .. 9 : call[c].left = SubSeq(checks, k, Len(checks))
      BY <3>1 DEF Rest
    <3>4. CASE k = 1
      BY <3>2, <3>3, <3>4, SubSeqFull DEF checks
    <3>5. CASE k # 1
      <4>1. k \in 2 .. 9
        BY <3>5
      <4> QED  BY <3>3, <4>1 DEF checks
    <3> QED  BY <3>4, <3>5
  <2> QED  BY <2>2, <2>3 DEF Bar
<1>3. TypeOK
  BY <1>1, <1>2 DEF DoorsInv, TypeOK
<1>4. ASSUME NEW c \in Call, call[c].path # "none", call[c].left = <<>>
      PROVE  /\ "kyc" \notin call[c].barred
             /\ "status" \in call[c].barred => RouteOf(c).door = "api"
             /\ "market" \in call[c].barred => RouteOf(c) \in {PortalPayins, PortalPayouts}
  <2>1. UnderWay(call[c], RouteOf(c), market, account)
    BY <1>4 DEF DoorsInv, RequestOK, RouteOf, Chosen
  <2>2. \A some : ~Holds(call[c].left, some)
    <3>1. Len(call[c].left) = 0
      BY <1>4
    <3> QED  BY <3>1 DEF Holds
  <2> QED  BY <2>1, <2>2 DEF UnderWay
<1> QED  BY <1>3, <1>4 DEF SuspensionHolds

-----------------------------------------------------------------------------
(* Sums of natural numbers, and what changes them *)
\* An interval from one has as many elements as its end says.
LEMMA UpTo ==
  ASSUME NEW n \in Nat
  PROVE  IsFiniteSet(1 .. n) /\ Cardinality(1 .. n) = n
<1>1. 1 \in Int /\ n \in Int
  OBVIOUS
<1>2. IsFiniteSet(1 .. n) /\ Cardinality(1 .. n) = IF 1 > n THEN 0 ELSE n - 1 + 1
  BY <1>1, FS_Interval
<1> QED  BY <1>2

\* A value has as many units as it says.
LEMMA UnitsOfOne ==
  ASSUME NEW x, NEW n \in Nat
  PROVE  IsFiniteSet({x} \X (1 .. n)) /\ Cardinality({x} \X (1 .. n)) = n
<1>1. IsFiniteSet(1 .. n) /\ Cardinality(1 .. n) = n
  BY UpTo
<1>2. IsFiniteSet({x}) /\ Cardinality({x}) = 1
  BY FS_Singleton
<1>3. /\ IsFiniteSet({x} \X (1 .. n))
      /\ Cardinality({x} \X (1 .. n)) = Cardinality({x}) * Cardinality(1 .. n)
  BY <1>1, <1>2, FS_Product
<1> QED  BY <1>1, <1>2, <1>3

\* The sum over a finite set is a natural number.
LEMMA SumNat ==
  ASSUME NEW D, IsFiniteSet(D), NEW f \in [D -> Nat]
  PROVE  IsFiniteSet(Units(f)) /\ SumOf(f) \in Nat
<1> DEFINE h == [x \in D |-> {x} \X (1 .. f[x])]
           T == {h[x] : x \in D}
<1>1. h \in Surjection(D, T)
  BY DEF Surjection
<1>2. IsFiniteSet(T)
  BY <1>1, FS_Surjection
<1>3. \A t \in T : IsFiniteSet(t)
  <2> SUFFICES ASSUME NEW x \in D PROVE IsFiniteSet({x} \X (1 .. f[x]))
    OBVIOUS
  <2>1. f[x] \in Nat
    OBVIOUS
  <2> QED  BY <2>1, UnitsOfOne
<1>4. UNION T = Units(f)
  BY DEF Units
<1> HIDE DEF T
<1>5. IsFiniteSet(Units(f))
  BY <1>2, <1>3, <1>4, FS_UNION
<1> QED  BY <1>5, FS_CardinalityType DEF SumOf

\* Over a part of the set it is no larger.
LEMMA SumOfPart ==
  ASSUME NEW D, IsFiniteSet(D), NEW f \in [D -> Nat], NEW E \in SUBSET D,
         NEW g \in [E -> Nat], \A x \in E : g[x] = f[x]
  PROVE  SumOf(g) <= SumOf(f)
<1>1. Units(g) \subseteq Units(f)
  BY DEF Units
<1> QED  BY <1>1, SumNat, FS_Subset DEF SumOf

\* With one more argument it grows by its value.
LEMMA SumOfMore ==
  ASSUME NEW D, IsFiniteSet(D), NEW x, x \notin D, NEW E, E = D \cup {x},
         NEW f \in [E -> Nat], NEW g \in [D -> Nat], \A y \in D : g[y] = f[y]
  PROVE  SumOf(f) = SumOf(g) + f[x]
<1> DEFINE n == f[x]
           own == {x} \X (1 .. n)
<1>1. Units(f) = Units(g) \cup own
  BY DEF Units
<1>2. Units(g) \cap own = {}
  BY DEF Units
<1>n. n \in Nat
  OBVIOUS
<1>3. IsFiniteSet(own) /\ Cardinality(own) = n
  <2> HIDE DEF n
  <2> QED  BY <1>n, UnitsOfOne
<1>4. IsFiniteSet(Units(g)) /\ Cardinality(Units(g)) \in Nat
  BY SumNat DEF SumOf
<1> HIDE DEF own, n
<1>5. Cardinality(Units(g) \cup own)
        = Cardinality(Units(g)) + Cardinality(own) - Cardinality(Units(g) \cap own)
  BY <1>3, <1>4, FS_Union
<1>6. Cardinality(Units(g) \cap own) = 0
  BY <1>2, FS_EmptySet
<1>7. Cardinality(Units(f)) = Cardinality(Units(g)) + n
  BY <1>n, <1>1, <1>3, <1>4, <1>5, <1>6
<1> QED  BY <1>7 DEF SumOf, n

\* It is at most the number of arguments times the largest value.
LEMMA SumBound ==
  ASSUME NEW D, IsFiniteSet(D), NEW f \in [D -> Nat], NEW most \in Nat,
         \A x \in D : f[x] <= most
  PROVE  SumOf(f) <= Cardinality(D) * most
<1>1. Units(f) \subseteq D \X (1 .. most)
  BY DEF Units
<1>2. /\ IsFiniteSet(1 .. most) /\ Cardinality(1 .. most) = most
  BY UpTo
<1>3. /\ IsFiniteSet(D \X (1 .. most))
      /\ Cardinality(D \X (1 .. most)) = Cardinality(D) * most
  BY <1>2, FS_Product
<1> QED  BY <1>1, <1>3, FS_Subset DEF SumOf

\* Where every value is one, it counts.
LEMMA SumOfOnes ==
  ASSUME NEW D, IsFiniteSet(D), NEW f \in [D -> {1}]
  PROVE  SumOf(f) = Cardinality(D)
<1>1. Units(f) = D \X (1 .. 1)
  BY DEF Units
<1>2. 1 \in Nat
  OBVIOUS
<1>3. /\ IsFiniteSet(1 .. 1) /\ Cardinality(1 .. 1) = 1
  BY ONLY <1>2, UpTo
<1>4. Cardinality(D \X (1 .. 1)) = Cardinality(D) * 1
  BY <1>3, FS_Product
<1> QED  BY <1>1, <1>4, FS_CardinalityType DEF SumOf

-----------------------------------------------------------------------------
(* Limits.  What is in the table, and what the requests add that have passed  *)
(* the check of a limit, together exceed it by what all requests but one add: *)
(* the check resets the sum, whatever it was, and an insertion moves an       *)
(* amount from the requests to the table.                                     *)

\* What a limit is about: payments of these kinds, in these states.
Kind(o) == <<o.for, o.door, o.currency>>

KindOfRoute(r) == <<r.for, r.door, r.stored>>

Booked(kinds, states) ==
    {i \in DOMAIN made : Kind(made[i]) \in kinds /\ made[i].status \in states}

\* The requests that have passed the check and have not inserted their payment.
Cleared(kinds, check) ==
    {c \in Call : /\ call[c].path # "none" /\ ~Holds(call[c].left, {check})
                  /\ KindOfRoute(Chosen(call[c].path)) \in kinds}

InTable(kinds, states, weight) ==
    SumOf([i \in Booked(kinds, states) |-> weight[made[i].amount]])

OnTheWay(kinds, check, weight) ==
    SumOf([c \in Cleared(kinds, check) |-> weight[call[c].amount]])

\* What all requests but one may add.
Others(most) == (Cardinality(Call) - 1) * most

Kept(kinds, states, check, weight, most, limit) ==
    InTable(kinds, states, weight) + OnTheWay(kinds, check, weight)
        <= limit + Others(most)

\* A check that is passed leaves room for the payment, and a route that inserts
\* such a payment makes the check.
IsLimit(kinds, states, check, weight, most, limit) ==
    /\ weight \in [Amount -> Nat] /\ most \in Nat /\ limit \in Nat
    /\ \A a \in Amount : weight[a] <= most
    /\ "pending" \in states
    /\ \A r \in Routes : KindOfRoute(r) \in kinds => Holds(r.checks, {check})

LeavesRoom(kinds, states, check, weight, limit) ==
    \A r \in Routes, a \in Amount :
        KindOfRoute(r) \in kinds /\ Passes(check, r, a) =>
            InTable(kinds, states, weight) + weight[a] <= limit

LEMMA BookedRows ==
  ASSUME DoorsInv, NEW kinds, NEW states, NEW weight \in [Amount -> Nat]
  PROVE  /\ IsFiniteSet(Booked(kinds, states))
         /\ \A i \in Booked(kinds, states) : i \in 1 .. Len(made) /\ made[i] \in Payment
         /\ [i \in Booked(kinds, states) |-> weight[made[i].amount]]
               \in [Booked(kinds, states) -> Nat]
         /\ InTable(kinds, states, weight) \in Nat
<1>1. made \in Seq(Payment)
  BY DEF DoorsInv
<1>2. Booked(kinds, states) \subseteq 1 .. Len(made)
  BY <1>1 DEF Booked
<1>3. IsFiniteSet(Booked(kinds, states))
  BY <1>1, <1>2, FS_Interval, FS_Subset
<1>4. \A i \in Booked(kinds, states) : i \in 1 .. Len(made) /\ made[i] \in Payment
  BY <1>1, <1>2, ElementOfSeq
<1>5. \A i \in Booked(kinds, states) : weight[made[i].amount] \in Nat
  BY <1>4 DEF Payment
<1> DEFINE f == [i \in Booked(kinds, states) |-> weight[made[i].amount]]
<1>6. f \in [Booked(kinds, states) -> Nat]
  BY <1>5
<1>7. SumOf(f) \in Nat
  <2> HIDE DEF f
  <2> QED  BY <1>3, <1>6, SumNat
<1> QED  BY <1>3, <1>4, <1>6, <1>7 DEF InTable

LEMMA ClearedCalls ==
  ASSUME DoorsInv, NEW kinds, NEW check, NEW weight \in [Amount -> Nat]
  PROVE  /\ IsFiniteSet(Cleared(kinds, check)) /\ Cleared(kinds, check) \subseteq Call
         /\ \A c \in Cleared(kinds, check) : call[c].amount \in Amount
         /\ [c \in Cleared(kinds, check) |-> weight[call[c].amount]]
               \in [Cleared(kinds, check) -> Nat]
         /\ OnTheWay(kinds, check, weight) \in Nat
<1>1. Cleared(kinds, check) \subseteq Call
  BY DEF Cleared
<1>2. IsFiniteSet(Cleared(kinds, check))
  BY <1>1, AccountsAssumption, FS_Subset
<1>3. \A c \in Cleared(kinds, check) : call[c].amount \in Amount
  BY DEF DoorsInv, Cleared, RequestOK, UnderWay
<1>4. \A c \in Cleared(kinds, check) : weight[call[c].amount] \in Nat
  BY <1>3
<1> DEFINE f == [c \in Cleared(kinds, check) |-> weight[call[c].amount]]
<1>6. f \in [Cleared(kinds, check) -> Nat]
  BY <1>4
<1>7. SumOf(f) \in Nat
  <2> HIDE DEF f
  <2> QED  BY <1>2, <1>6, SumNat
<1> QED  BY <1>1, <1>2, <1>3, <1>6, <1>7 DEF OnTheWay

\* Rows that settle or stay leave the table no fuller.
LEMMA TableShrinks ==
  ASSUME DoorsInv, DoorsInv', NEW kinds, NEW states, NEW weight \in [Amount -> Nat],
         Booked(kinds, states)' \subseteq Booked(kinds, states),
         \A i \in Booked(kinds, states)' : made'[i].amount = made[i].amount
  PROVE  InTable(kinds, states, weight)' <= InTable(kinds, states, weight)
<1> DEFINE f == [i \in Booked(kinds, states) |-> weight[made[i].amount]]
           g == [i \in Booked(kinds, states)' |-> weight[made'[i].amount]]
<1>1. /\ IsFiniteSet(Booked(kinds, states)) /\ f \in [Booked(kinds, states) -> Nat]
  BY BookedRows
<1>2. \A i \in Booked(kinds, states)' : g[i] = f[i]
  OBVIOUS
<1>3. g \in [Booked(kinds, states)' -> Nat]
  BY <1>1, <1>2
<1>4. SumOf(g) <= SumOf(f)
  <2> HIDE DEF f, g
  <2> QED  BY <1>1, <1>2, <1>3, SumOfPart
<1> QED  BY <1>4 DEF InTable

\* Requests that end or stay add no more.
LEMMA WayShrinks ==
  ASSUME DoorsInv, DoorsInv', NEW kinds, NEW check, NEW weight \in [Amount -> Nat],
         Cleared(kinds, check)' \subseteq Cleared(kinds, check),
         \A c \in Cleared(kinds, check)' : call'[c].amount = call[c].amount
  PROVE  OnTheWay(kinds, check, weight)' <= OnTheWay(kinds, check, weight)
<1> DEFINE f == [c \in Cleared(kinds, check) |-> weight[call[c].amount]]
           g == [c \in Cleared(kinds, check)' |-> weight[call'[c].amount]]
<1>1. /\ IsFiniteSet(Cleared(kinds, check)) /\ f \in [Cleared(kinds, check) -> Nat]
  BY ClearedCalls
<1>2. \A c \in Cleared(kinds, check)' : g[c] = f[c]
  OBVIOUS
<1>3. g \in [Cleared(kinds, check)' -> Nat]
  BY <1>1, <1>2
<1>4. SumOf(g) <= SumOf(f)
  <2> HIDE DEF f, g
  <2> QED  BY <1>1, <1>2, <1>3, SumOfPart
<1> QED  BY <1>4 DEF OnTheWay

\* What all the requests but one that is cleared add.
\* Several that add up to the most each are more the more they are.
LEMMA MoreOfTheMost ==
  ASSUME NEW a \in Nat, NEW b \in Nat, NEW most \in Nat, a <= b
  PROVE  a * most <= b * most /\ a * most \in Nat /\ b * most \in Nat
  OBVIOUS

\* What all the requests but one add.
LEMMA OthersAdd ==
  ASSUME NEW D \in SUBSET Call, NEW f \in [D -> Nat], NEW most \in Nat,
         \A d \in D : f[d] <= most, NEW c \in D
  PROVE  SumOf(f) <= f[c] + Others(most)
<1> DEFINE E == D \ {c}
           g == [d \in E |-> f[d]]
<1>1. /\ IsFiniteSet(D) /\ IsFiniteSet(E) /\ c \notin E /\ D = E \cup {c}
      /\ g \in [E -> Nat] /\ \A d \in E : g[d] = f[d] /\ g[d] <= most
  BY AccountsAssumption, FS_Subset
<1>2. Cardinality(E) \in Nat /\ Cardinality(Call) - 1 \in Nat
      /\ Cardinality(E) <= Cardinality(Call) - 1
  <2>1. E \in SUBSET (Call \ {c}) /\ c \in Call
    OBVIOUS
  <2>2. /\ IsFiniteSet(Call \ {c})
        /\ Cardinality(Call \ {c}) = Cardinality(Call) - 1
        /\ Cardinality(Call \ {c}) \in Nat
    BY <2>1, AccountsAssumption, FS_RemoveElement, FS_CardinalityType
  <2> HIDE DEF E
  <2>3. Cardinality(E) <= Cardinality(Call \ {c}) /\ Cardinality(E) \in Nat
    BY <1>1, <2>1, <2>2, FS_Subset, FS_CardinalityType
  <2> QED  BY <2>2, <2>3
<1> HIDE DEF E, g
<1>3. SumOf(f) = SumOf(g) + f[c]
  BY <1>1, SumOfMore
<1>4. SumOf(g) \in Nat /\ SumOf(g) <= Cardinality(E) * most
  BY <1>1, SumNat, SumBound
<1>5. /\ Cardinality(E) * most <= Others(most)
      /\ Cardinality(E) * most \in Nat /\ Others(most) \in Nat
  <2> DEFINE a == Cardinality(E)
             b == Cardinality(Call) - 1
  <2>1. a \in Nat /\ b \in Nat /\ a <= b
    BY <1>2
  <2> HIDE DEF a, b
  <2>2. a * most <= b * most /\ a * most \in Nat /\ b * most \in Nat
    BY <2>1, MoreOfTheMost
  <2> QED  BY <2>2 DEF a, b, Others
<1>6. f[c] \in Nat
  OBVIOUS
<1> DEFINE n == SumOf(g)
           m == Cardinality(E) * most
           o == Others(most)
           w == f[c]
<1>7. n \in Nat /\ m \in Nat /\ o \in Nat /\ w \in Nat /\ n <= m /\ m <= o
  BY <1>4, <1>5, <1>6
<1> HIDE DEF n, m, o, w
<1>8. n + w <= w + o
  BY <1>7
<1> QED  BY <1>3, <1>8 DEF n, m, o, w

LEMMA OthersNat ==
  ASSUME NEW most \in Nat
  PROVE  Others(most) \in Nat
<1> DEFINE n == Cardinality(Call)
<1>1. n \in Nat /\ n # 0
  BY AccountsAssumption, FS_CardinalityType, FS_EmptySet
<1> HIDE DEF n
<1>2. n - 1 \in Nat
  BY <1>1
<1>3. (n - 1) * most \in Nat
  BY <1>2, MoreOfTheMost
<1> QED  BY <1>3 DEF Others, n

\* A limit that rows and requests leave, and that nobody joins, is kept.
LEMMA NobodyJoins ==
  ASSUME DoorsInv, DoorsInv', NEW kinds, NEW states, NEW check, NEW weight, NEW most,
         NEW limit, IsLimit(kinds, states, check, weight, most, limit),
         Kept(kinds, states, check, weight, most, limit),
         Booked(kinds, states)' \subseteq Booked(kinds, states),
         \A i \in Booked(kinds, states)' : made'[i].amount = made[i].amount,
         Cleared(kinds, check)' \subseteq Cleared(kinds, check),
         \A c \in Cleared(kinds, check)' : call'[c].amount = call[c].amount
  PROVE  Kept(kinds, states, check, weight, most, limit)'
<1>1. weight \in [Amount -> Nat] /\ most \in Nat /\ limit \in Nat
  BY DEF IsLimit
<1>2. /\ InTable(kinds, states, weight)' <= InTable(kinds, states, weight)
      /\ OnTheWay(kinds, check, weight)' <= OnTheWay(kinds, check, weight)
  BY <1>1, TableShrinks, WayShrinks
<1>3. /\ InTable(kinds, states, weight) \in Nat
      /\ OnTheWay(kinds, check, weight) \in Nat
  BY <1>1, BookedRows, ClearedCalls
<1>4. /\ InTable(kinds, states, weight)' \in Nat
      /\ OnTheWay(kinds, check, weight)' \in Nat
  <2> DEFINE f == [i \in Booked(kinds, states)' |-> weight[made'[i].amount]]
             g == [c \in Cleared(kinds, check)' |-> weight[call'[c].amount]]
  <2>1. /\ IsFiniteSet(Booked(kinds, states)) /\ IsFiniteSet(Cleared(kinds, check))
        /\ \A i \in Booked(kinds, states) : made[i].amount \in Amount
        /\ \A c \in Cleared(kinds, check) : call[c].amount \in Amount
    BY <1>1, BookedRows, ClearedCalls DEF Payment
  <2>2. /\ IsFiniteSet(Booked(kinds, states)') /\ IsFiniteSet(Cleared(kinds, check)')
        /\ f \in [Booked(kinds, states)' -> Nat] /\ g \in [Cleared(kinds, check)' -> Nat]
    BY <1>1, <2>1, FS_Subset
  <2> HIDE DEF f, g
  <2>3. SumOf(f) \in Nat /\ SumOf(g) \in Nat
    BY <2>2, SumNat
  <2> QED  BY <2>3 DEF f, g, InTable, OnTheWay
<1>5. Others(most) \in Nat
  BY <1>1, OthersNat
<1> DEFINE a == InTable(kinds, states, weight)
           b == OnTheWay(kinds, check, weight)
           a1 == InTable(kinds, states, weight)'
           b1 == OnTheWay(kinds, check, weight)'
           o == Others(most)
<1>6. /\ a \in Nat /\ b \in Nat /\ a1 \in Nat /\ b1 \in Nat /\ o \in Nat
      /\ a1 <= a /\ b1 <= b /\ a + b <= limit + o
  BY <1>2, <1>3, <1>4, <1>5 DEF Kept
<1> HIDE DEF a, b, a1, b1, o
<1>7. a1 + b1 <= limit + o
  BY <1>1, <1>6
<1> QED  BY <1>7 DEF a1, b1, o, Kept

LEMMA LimitSettle ==
  ASSUME DoorsInv, DoorsInv', NEW kinds, NEW states, NEW check, NEW weight, NEW most,
         NEW limit, IsLimit(kinds, states, check, weight, most, limit),
         Kept(kinds, states, check, weight, most, limit), Settle
  PROVE  Kept(kinds, states, check, weight, most, limit)'
<1>1. PICK i \in DOMAIN made, status \in {"success", "failed"} :
          made[i].status = "pending" /\ made' = [made EXCEPT ![i].status = status]
  BY DEF Settle
<1>2. made \in Seq(Payment) /\ call' = call
  BY DEF DoorsInv, Settle
<1>3. /\ DOMAIN made' = DOMAIN made
      /\ \A j \in DOMAIN made : /\ Kind(made'[j]) = Kind(made[j])
                                /\ made'[j].amount = made[j].amount
                                /\ j # i => made'[j].status = made[j].status
  <2>1. \A j \in DOMAIN made : made[j] \in Payment
    BY <1>2, LenProperties, ElementOfSeq
  <2> QED  BY <1>1, <2>1 DEF Kind, Payment
<1>4. /\ Booked(kinds, states)' \subseteq Booked(kinds, states)
      /\ \A j \in Booked(kinds, states)' : made'[j].amount = made[j].amount
  BY <1>1, <1>3 DEF Booked, IsLimit
<1>5. /\ Cleared(kinds, check)' \subseteq Cleared(kinds, check)
      /\ \A c \in Cleared(kinds, check)' : call'[c].amount = call[c].amount
  BY <1>2 DEF Cleared
<1> QED  BY <1>4, <1>5, NobodyJoins

LEMMA LimitDecide ==
  ASSUME DoorsInv, DoorsInv', NEW kinds, NEW states, NEW check, NEW weight, NEW most,
         NEW limit, IsLimit(kinds, states, check, weight, most, limit),
         Kept(kinds, states, check, weight, most, limit), Decide
  PROVE  Kept(kinds, states, check, weight, most, limit)'
<1>1. /\ made' = made
      /\ call' = [c \in Call |->
            IF call[c].path = "none" THEN Idle
            ELSE [call[c] EXCEPT !.barred =
                     @ \cap Bars(market'[RouteOf(c).place], account')]]
  BY DEF Decide
<1>2. ASSUME NEW c \in Call, call'[c].path # "none"
      PROVE  /\ call'[c].path = call[c].path /\ call'[c].left = call[c].left
             /\ call'[c].amount = call[c].amount
  <2>1. call[c].path # "none"
    BY <1>1, <1>2 DEF Idle
  <2>2. call[c] \in Request
    BY DEF DoorsInv
  <2> QED  BY <1>1, <2>1, <2>2 DEF Request
<1>3. /\ Booked(kinds, states)' \subseteq Booked(kinds, states)
      /\ \A j \in Booked(kinds, states)' : made'[j].amount = made[j].amount
  BY <1>1 DEF Booked
<1>4. ASSUME NEW c \in Cleared(kinds, check)'
      PROVE  c \in Cleared(kinds, check) /\ call'[c].amount = call[c].amount
  BY <1>2, <1>4 DEF Cleared
<1> QED  BY <1>3, <1>4, NobodyJoins

\* One request moves to where it has not passed the check, the table stays.
LEMMA LimitOwn ==
  ASSUME DoorsInv, DoorsInv', NEW kinds, NEW states, NEW check, NEW weight, NEW most,
         NEW limit, IsLimit(kinds, states, check, weight, most, limit),
         Kept(kinds, states, check, weight, most, limit),
         NEW c \in Call, NEW n, call' = [call EXCEPT ![c] = n], made' = made,
         c \in Cleared(kinds, check)' =>
            c \in Cleared(kinds, check) /\ n.amount = call[c].amount
  PROVE  Kept(kinds, states, check, weight, most, limit)'
<1>1. call \in [Call -> Request]
  BY DEF DoorsInv
<1>2. /\ Booked(kinds, states)' \subseteq Booked(kinds, states)
      /\ \A j \in Booked(kinds, states)' : made'[j].amount = made[j].amount
  BY DEF Booked
<1>3. ASSUME NEW d \in Cleared(kinds, check)'
      PROVE  d \in Cleared(kinds, check) /\ call'[d].amount = call[d].amount
  <2>1. CASE d = c
    BY <1>1, <1>3, <2>1
  <2>2. CASE d # c
    <3>1. d \in Call
      BY <1>3 DEF Cleared
    <3>2. call'[d] = call[d]
      BY <1>1, <2>2, <3>1
    <3> QED  BY <1>3, <3>1, <3>2 DEF Cleared
  <2> QED  BY <2>1, <2>2
<1> QED  BY <1>2, <1>3, NobodyJoins

LEMMA LimitBegin ==
  ASSUME DoorsInv, DoorsInv', NEW kinds, NEW states, NEW check, NEW weight, NEW most,
         NEW limit, IsLimit(kinds, states, check, weight, most, limit),
         Kept(kinds, states, check, weight, most, limit), NEW c \in Call, Begin(c)
  PROVE  Kept(kinds, states, check, weight, most, limit)'
<1>1. PICK r \in Routes, amount \in Amount :
        call' = [call EXCEPT ![c] =
              [path |-> r.path, amount |-> amount, left |-> r.checks,
               barred |-> Bars(market[r.place], account)]]
  BY DEF Begin
<1> DEFINE n == [path |-> r.path, amount |-> amount, left |-> r.checks,
                 barred |-> Bars(market[r.place], account)]
<1>2. call' = [call EXCEPT ![c] = n] /\ made' = made
  BY <1>1 DEF Begin
<1>3. n.path = r.path /\ n.left = r.checks /\ Chosen(r.path) = r
  BY ChosenRoute
<1>4. call'[c] = n
  BY <1>2 DEF DoorsInv
<1>5. c \notin Cleared(kinds, check)'
  <2> HIDE DEF n
  <2> QED  BY <1>3, <1>4 DEF Cleared, IsLimit
<1> HIDE DEF n
<1> QED  BY <1>2, <1>5, LimitOwn

\* The check of a limit resets it: whatever the sum was, it is now the table's,
\* the amount that was checked and what the others add.
LEMMA LimitPasses ==
  ASSUME DoorsInv, DoorsInv', NEW kinds, NEW states, NEW check, NEW weight, NEW most,
         NEW limit, IsLimit(kinds, states, check, weight, most, limit),
         LeavesRoom(kinds, states, check, weight, limit),
         NEW c \in Cleared(kinds, check)', NEW r \in Routes, r.path = call'[c].path,
         Passes(check, r, call'[c].amount), UNCHANGED <<made, market, account>>
  PROVE  Kept(kinds, states, check, weight, most, limit)'
<1> DEFINE D == Cleared(kinds, check)'
           f == [d \in D |-> weight[call'[d].amount]]
           w == weight[call'[c].amount]
<1>1. /\ weight \in [Amount -> Nat] /\ most \in Nat /\ limit \in Nat
      /\ \A a \in Amount : weight[a] <= most
  BY DEF IsLimit
<1>2. D \in SUBSET Call /\ c \in D /\ \A d \in D : call'[d].amount \in Amount
  BY DEF DoorsInv, Cleared, RequestOK, UnderWay
<1>3. f \in [D -> Nat] /\ \A d \in D : f[d] <= most
  BY <1>1, <1>2
<1>4. f[c] = w /\ w \in Nat
  BY <1>1, <1>2
<1>5. SumOf(f) <= w + Others(most)
  <2> HIDE DEF D, f, w
  <2> QED  BY <1>1, <1>2, <1>3, <1>4, OthersAdd
<1>6. IsFiniteSet(D)
  BY <1>2, AccountsAssumption, FS_Subset
<1>7. SumOf(f) \in Nat
  <2> HIDE DEF D, f
  <2> QED  BY <1>3, <1>6, SumNat
<1>8. OnTheWay(kinds, check, weight)' = SumOf(f)
  BY DEF OnTheWay
<1>9. KindOfRoute(r) \in kinds
  BY ChosenRoute DEF Cleared
<1>10. InTable(kinds, states, weight) + w <= limit
  BY <1>2, <1>9 DEF LeavesRoom
<1>11. InTable(kinds, states, weight) \in Nat
  BY <1>1, BookedRows
<1>12. InTable(kinds, states, weight)' = InTable(kinds, states, weight)
  BY DEF InTable, Booked
<1> DEFINE a == InTable(kinds, states, weight)
           b == SumOf(f)
           o == Others(most)
<1>13. a \in Nat /\ b \in Nat /\ o \in Nat /\ w \in Nat /\ b <= w + o /\ a + w <= limit
  BY <1>1, <1>4, <1>5, <1>7, <1>10, <1>11, OthersNat
<1> HIDE DEF a, b, o, w
<1>14. a + b <= limit + o
  BY <1>1, <1>13
<1>15. InTable(kinds, states, weight)' + OnTheWay(kinds, check, weight)'
           <= limit + Others(most)
  BY <1>8, <1>12, <1>14 DEF a, b, o
<1> QED  BY <1>15 DEF Kept

LEMMA LimitCheck ==
  ASSUME DoorsInv, DoorsInv', NEW kinds, NEW states, NEW check, NEW weight, NEW most,
         NEW limit, IsLimit(kinds, states, check, weight, most, limit),
         LeavesRoom(kinds, states, check, weight, limit),
         Kept(kinds, states, check, weight, most, limit), NEW c \in Call, Check(c)
  PROVE  Kept(kinds, states, check, weight, most, limit)'
<1> DEFINE n == call[c]
           r == Chosen(n.path)
           m == [n EXCEPT !.left = Tail(n.left)]
<1>1. /\ n \in Request /\ n.left # <<>> /\ call \in [Call -> Request]
      /\ UNCHANGED <<made, market, account>>
  BY DEF DoorsInv, Check
<1>2. n.path # "none" /\ r \in Routes /\ r.path = n.path
  BY <1>1 DEF DoorsInv, RequestOK, UnderWay
<1>3. CASE call' = [call EXCEPT ![c] = Idle]
  <2>1. call'[c].path = "none"
    BY <1>1, <1>3 DEF Idle
  <2>2. c \notin Cleared(kinds, check)'
    BY <2>1 DEF Cleared
  <2> QED  BY <1>1, <1>3, <2>2, LimitOwn
<1>4. CASE /\ Passes(Head(n.left), r, n.amount)
           /\ call' = [call EXCEPT ![c].left = Tail(@)]
  <2>1. call' = [call EXCEPT ![c] = m]
    BY <1>1, <1>4
  <2>2. /\ m.left = Tail(n.left) /\ m.path = n.path /\ m.amount = n.amount
        /\ n.left \in Seq(Asked)
    BY <1>1 DEF Request
  <2>3. call'[c] = m
    BY <1>1, <2>1
  <2>4. CASE c \in Cleared(kinds, check) \/ c \notin Cleared(kinds, check)'
    <3> HIDE DEF m
    <3> QED  BY <1>1, <2>1, <2>2, <2>4, LimitOwn
  <2>5. CASE c \notin Cleared(kinds, check) /\ c \in Cleared(kinds, check)'
    <3> HIDE DEF m, r
    <3>1. Holds(n.left, {check}) /\ ~Holds(Tail(n.left), {check})
      BY <1>2, <2>2, <2>3, <2>5 DEF Cleared
    <3>2. Head(n.left) = check
      BY <1>1, <2>2, <3>1, HoldsTail
    <3>3. Passes(check, r, call'[c].amount) /\ r.path = call'[c].path
      BY <1>2, <1>4, <2>2, <2>3, <3>2
    <3> QED  BY <1>1, <1>2, <2>5, <3>3, LimitPasses
  <2> QED  BY <2>4, <2>5
<1> QED  BY <1>3, <1>4 DEF Check, RouteOf, Chosen

\* A payment that is inserted was on the way before it was in the table.
LEMMA LimitInsert ==
  ASSUME DoorsInv, DoorsInv', NEW kinds, NEW states, NEW check, NEW weight, NEW most,
         NEW limit, IsLimit(kinds, states, check, weight, most, limit),
         Kept(kinds, states, check, weight, most, limit),
         NEW c \in Cleared(kinds, check), call' = [call EXCEPT ![c] = Idle],
         NEW payment \in Payment, made' = Append(made, payment),
         Kind(payment) \in kinds, payment.status = "pending",
         payment.amount = call[c].amount
  PROVE  Kept(kinds, states, check, weight, most, limit)'
<1> DEFINE D == Cleared(kinds, check)
           D1 == Cleared(kinds, check)'
           f == [d \in D |-> weight[call[d].amount]]
           f1 == [d \in D1 |-> weight[call'[d].amount]]
           B == Booked(kinds, states)
           B1 == Booked(kinds, states)'
           g == [i \in B |-> weight[made[i].amount]]
           g1 == [i \in B1 |-> weight[made'[i].amount]]
           k == Len(made) + 1
           w == weight[payment.amount]
<1>1. weight \in [Amount -> Nat] /\ most \in Nat /\ limit \in Nat /\ "pending" \in states
  BY DEF IsLimit
<1>2. made \in Seq(Payment) /\ call \in [Call -> Request]
  BY DEF DoorsInv
<1>3. payment.amount \in Amount /\ w \in Nat
  BY <1>1 DEF Payment
<1>4. IsFiniteSet(D) /\ D \subseteq Call /\ f \in [D -> Nat] /\ IsFiniteSet(B) /\ g \in [B -> Nat]
  BY <1>1, ClearedCalls, BookedRows
<1>5. \A d \in Call : d # c => call'[d] = call[d]
  BY <1>2
<1>6. call'[c].path = "none"
  BY <1>2, <1>4 DEF Idle
<1>7. D = D1 \cup {c} /\ c \notin D1
  BY <1>4, <1>5, <1>6 DEF Cleared
<1>8. /\ DOMAIN made' = DOMAIN made \cup {k} /\ k \notin DOMAIN made
      /\ made'[k] = payment /\ \A i \in DOMAIN made : made'[i] = made[i]
  BY <1>2, AppendProperties
<1>9. B1 = B \cup {k} /\ k \notin B
  BY <1>1, <1>8 DEF Booked
<1>10. /\ IsFiniteSet(D1) /\ f1 \in [D1 -> Nat] /\ \A d \in D1 : f1[d] = f[d]
       /\ f[c] = w
  <2>1. \A d \in D1 : d \in D /\ d \in Call /\ d # c
    BY <1>4, <1>7
  <2>2. \A d \in D1 : weight[call'[d].amount] = f[d]
    BY <1>5, <2>1
  <2>3. IsFiniteSet(D1)
    BY <1>4, <1>7, FS_Subset
  <2>4. f[c] = w
    OBVIOUS
  <2> HIDE DEF f, D, D1
  <2> QED  BY <1>4, <2>1, <2>2, <2>3, <2>4
<1>11. /\ g1 \in [B1 -> Nat] /\ (\A i \in B : g[i] = g1[i]) /\ g1[k] = w
  <2>1. \A i \in B : i \in DOMAIN made
    BY DEF Booked
  <2>2. \A i \in B : weight[made'[i].amount] = g[i]
    BY <1>8, <2>1
  <2>3. weight[made'[k].amount] = w
    BY <1>8
  <2> HIDE DEF g, B, B1, k, w
  <2> QED  BY <1>3, <1>4, <1>9, <2>2, <2>3
<1>12. SumOf(f) = SumOf(f1) + w /\ SumOf(f1) \in Nat
  <2> HIDE DEF f, f1, D, D1, w
  <2>1. /\ IsFiniteSet(D1) /\ c \notin D1 /\ D = D1 \cup {c} /\ f \in [D -> Nat]
        /\ f1 \in [D1 -> Nat] /\ \A d \in D1 : f1[d] = f[d]
    BY <1>4, <1>7, <1>10
  <2>2. SumOf(f) = SumOf(f1) + f[c]
    BY ONLY <2>1, SumOfMore
  <2>3. SumOf(f1) \in Nat
    BY ONLY <2>1, SumNat
  <2> QED  BY <1>10, <2>2, <2>3
<1>13. SumOf(g1) = SumOf(g) + w /\ SumOf(g) \in Nat
  <2> HIDE DEF g, g1, B, B1, k, w
  <2>1. /\ IsFiniteSet(B) /\ k \notin B /\ B1 = B \cup {k} /\ g1 \in [B1 -> Nat]
        /\ g \in [B -> Nat] /\ \A i \in B : g[i] = g1[i]
    BY <1>4, <1>9, <1>11
  <2>2. SumOf(g1) = SumOf(g) + g1[k]
    BY ONLY <2>1, SumOfMore
  <2>3. SumOf(g) \in Nat
    BY ONLY <2>1, SumNat
  <2> QED  BY <1>11, <2>2, <2>3
<1>14. /\ InTable(kinds, states, weight) = SumOf(g)
       /\ InTable(kinds, states, weight)' = SumOf(g1)
       /\ OnTheWay(kinds, check, weight) = SumOf(f)
       /\ OnTheWay(kinds, check, weight)' = SumOf(f1)
  BY DEF InTable, OnTheWay
<1>15. SumOf(g) + SumOf(f) <= limit + Others(most)
  BY <1>14 DEF Kept
<1>16. Others(most) \in Nat
  BY <1>1, OthersNat
<1> HIDE DEF f, f1, g, g1, w
<1>17. SumOf(g1) + SumOf(f1) <= limit + Others(most)
  <2> DEFINE x == SumOf(g)
             y == SumOf(f1)
             z == limit + Others(most)
  <2>1. x \in Nat /\ y \in Nat /\ w \in Nat /\ z \in Nat /\ x + (y + w) <= z
    BY <1>1, <1>3, <1>12, <1>13, <1>15, <1>16
  <2> HIDE DEF x, y, z
  <2>2. (x + w) + y <= z
    BY <2>1
  <2> QED  BY <1>13, <2>2 DEF x, y, z
<1> QED  BY <1>14, <1>17 DEF Kept

LEMMA LimitCreate ==
  ASSUME DoorsInv, DoorsInv', NEW kinds, NEW states, NEW check, NEW weight, NEW most,
         NEW limit, IsLimit(kinds, states, check, weight, most, limit),
         Kept(kinds, states, check, weight, most, limit), NEW c \in Call, Create(c)
  PROVE  Kept(kinds, states, check, weight, most, limit)'
<1> DEFINE n == call[c]
           r == Chosen(n.path)
           payment == [for |-> r.for, door |-> r.door, asked |-> r.asked,
                       currency |-> r.stored, amount |-> n.amount,
                       status |-> "pending"]
<1>1. /\ n.path # "none" /\ n.left = <<>> /\ call' = [call EXCEPT ![c] = Idle]
      /\ \/ r.for \in {"payin", "payout"} /\ made' = Append(made, payment)
         \/ UNCHANGED made
  BY DEF Create, RouteOf, Chosen
<1>2. UnderWay(n, r, market, account)
  BY <1>1 DEF DoorsInv, RequestOK
<1>3. RouteOK(r, r.path) /\ n.amount \in Amount
  BY <1>2, RoutesOK DEF UnderWay
<1>4. call'[c].path = "none"
  BY <1>1 DEF DoorsInv, Idle
<1>5. c \notin Cleared(kinds, check)'
  BY <1>4 DEF Cleared
<1>6. CASE UNCHANGED made
  BY <1>1, <1>5, <1>6, LimitOwn
<1>7. CASE r.for \in {"payin", "payout"} /\ made' = Append(made, payment)
  <2>1. payment \in Payment
    BY <1>3, <1>7 DEF RouteOK, RouteTypes, Payment
  <2>2. /\ Kind(payment) = KindOfRoute(r) /\ payment.status = "pending"
        /\ payment.amount = n.amount
    BY DEF Kind, KindOfRoute
  <2> HIDE DEF payment
  <2>3. CASE KindOfRoute(r) \in kinds
    <3>1. ~Holds(n.left, {check})
      <4>1. Len(n.left) = 0
        BY <1>1
      <4> QED  BY <4>1 DEF Holds
    <3>2. c \in Cleared(kinds, check)
      BY <1>1, <2>3, <3>1 DEF Cleared
    <3> HIDE DEF r
    <3> QED  BY <1>1, <1>7, <2>1, <2>2, <2>3, <3>2, LimitInsert
  <2>4. CASE KindOfRoute(r) \notin kinds
    <3>1. made \in Seq(Payment) /\ call \in [Call -> Request]
      BY DEF DoorsInv
    <3>2. \A i \in DOMAIN made' :
              \/ i \in DOMAIN made /\ made'[i] = made[i]
              \/ made'[i] = payment
      BY <1>7, <2>1, <3>1, AppendProperties
    <3>3. ASSUME NEW i \in Booked(kinds, states)'
          PROVE  i \in Booked(kinds, states) /\ made'[i].amount = made[i].amount
      BY <2>2, <2>4, <3>2, <3>3 DEF Booked
    <3>4. ASSUME NEW d \in Cleared(kinds, check)'
          PROVE  d \in Cleared(kinds, check) /\ call'[d].amount = call[d].amount
      <4>1. d \in Call /\ d # c
        BY <1>5, <3>4 DEF Cleared
      <4>2. call'[d] = call[d]
        BY <1>1, <3>1, <4>1
      <4> QED  BY <3>4, <4>1, <4>2 DEF Cleared
    <3> QED  BY <3>3, <3>4, NobodyJoins
  <2> QED  BY <2>3, <2>4
<1> QED  BY <1>1, <1>6, <1>7

\* Every step keeps a limit.
LEMMA LimitNext ==
  ASSUME DoorsInv, DoorsInv', NEW kinds, NEW states, NEW check, NEW weight, NEW most,
         NEW limit, IsLimit(kinds, states, check, weight, most, limit),
         LeavesRoom(kinds, states, check, weight, limit),
         Kept(kinds, states, check, weight, most, limit), Next
  PROVE  Kept(kinds, states, check, weight, most, limit)'
<1>1. ASSUME Settle
      PROVE  Kept(kinds, states, check, weight, most, limit)'
  BY <1>1, LimitSettle
<1>2. ASSUME Decide
      PROVE  Kept(kinds, states, check, weight, most, limit)'
  BY <1>2, LimitDecide
<1>3. ASSUME NEW c \in Call, Begin(c)
      PROVE  Kept(kinds, states, check, weight, most, limit)'
  BY <1>3, LimitBegin
<1>4. ASSUME NEW c \in Call, Check(c)
      PROVE  Kept(kinds, states, check, weight, most, limit)'
  BY <1>4, LimitCheck
<1>5. ASSUME NEW c \in Call, Create(c)
      PROVE  Kept(kinds, states, check, weight, most, limit)'
  BY <1>5, LimitCreate
<1> QED  BY <1>1, <1>2, <1>3, <1>4, <1>5 DEF Next

\* In the beginning there is nothing.
LEMMA LimitInit ==
  ASSUME Init, NEW kinds, NEW states, NEW check, NEW weight, NEW most \in Nat,
         NEW limit \in Nat
  PROVE  Kept(kinds, states, check, weight, most, limit)
<1>1. Booked(kinds, states) = {} /\ Cleared(kinds, check) = {}
  BY DEF Init, Booked, Cleared, Idle
<1>2. ASSUME NEW f, DOMAIN f = {} PROVE SumOf(f) = 0
  <2>1. Units(f) = {}
    BY <1>2 DEF Units
  <2> QED  BY <2>1, FS_EmptySet DEF SumOf
<1>3. InTable(kinds, states, weight) = 0 /\ OnTheWay(kinds, check, weight) = 0
  BY <1>1, <1>2 DEF InTable, OnTheWay
<1>4. Others(most) \in Nat
  BY OthersNat
<1> QED  BY <1>3, <1>4 DEF Kept

-----------------------------------------------------------------------------
(* Which routes ask for which limits *)

\* A route that creates what a limit is about asks for the limit, and the portal
\* asks in the currency that it stores, but for euros.
Policy(r) ==
    /\ r.for = "payout" /\ r.stored = "BDT" => Holds(r.checks, {"daily"})
    /\ r.for = "payin" /\ r.stored \in {"BDT", "BRL"} => Holds(r.checks, {"hourly"})
    /\ r.for = "payout" /\ r.door = "portal" /\ r.stored \in {"BDT", "BRL", "USDT", "NGN"} =>
          r.asked = r.stored /\ Holds(r.checks, {"velocity"})

Fields(r, for, door, currency) ==
    r.for = for /\ r.door = door /\ r.asked = currency /\ r.stored = currency

LEMMA PlainFields ==
  ASSUME NEW path, NEW for, NEW scope, NEW place, NEW currency, NEW checks
  PROVE  /\ Fields(Api(path, for, scope, place, currency), for, "api", currency)
         /\ Fields(Portal(path, for, place, currency), for, "portal", currency)
         /\ Fields(Unlisted(Portal(path, for, place, currency), checks), for, "portal",
                   currency)
  BY DEF Fields, Api, Portal, Route, Unlisted

\* A policed route asks for the daily volume or the hourly count.
LEMMA PolicedFields ==
  ASSUME NEW path, NEW r, RouteOK(r, path), NEW for, NEW door, NEW currency,
         Fields(r, for, door, currency)
  PROVE  /\ Fields(Policed(r), for, door, currency)
         /\ for = "payout" => Holds(Policed(r).checks, {"daily"})
         /\ for # "payout" => Holds(Policed(r).checks, {"hourly"})
         /\ \A some : Holds(r.checks, some) => Holds(Policed(r).checks, some)
<1>1. r \in RouteTypes(path) /\ r.checks \in Seq(Asked)
  BY DEF RouteOK, RouteTypes
<1> DEFINE more == IF r.for = "payout" THEN <<"cooling", "recipient", "daily">>
                   ELSE <<"hourly">>
<1>2. more \in Seq(Asked)
  <2>1. <<"cooling", "recipient", "daily">> \in Seq(Asked) /\ <<"hourly">> \in Seq(Asked)
    BY DEF Asked
  <2> QED  BY <2>1
<1>3. Policed(r) = [r EXCEPT !.checks = r.checks \o more]
  BY <1>1 DEF Policed
<1>4. Policed(r).checks = r.checks \o more /\ Fields(Policed(r), for, door, currency)
  BY <1>1, <1>3 DEF RouteTypes, Fields
<1>5. for = "payout" => Len(more) = 3 /\ more[3] = "daily"
  BY DEF Fields
<1>6. for # "payout" => Len(more) = 1 /\ more[1] = "hourly"
  BY DEF Fields
<1> HIDE DEF more
<1>7. ASSUME NEW i \in 1 .. Len(more)
      PROVE  Holds(r.checks \o more, {more[i]})
  <2>1. Len(r.checks) + i \in 1 .. Len(r.checks \o more)
        /\ (r.checks \o more)[Len(r.checks) + i] = more[i]
    BY <1>1, <1>2
  <2> QED  BY <2>1 DEF Holds
<1>8. for = "payout" => Holds(r.checks \o more, {"daily"})
  <2> SUFFICES ASSUME for = "payout" PROVE Holds(r.checks \o more, {"daily"})
    OBVIOUS
  <2>1. 3 \in 1 .. Len(more) /\ more[3] = "daily"
    BY <1>5
  <2> QED  BY <1>7, <2>1
<1>9. for # "payout" => Holds(r.checks \o more, {"hourly"})
  <2> SUFFICES ASSUME for # "payout" PROVE Holds(r.checks \o more, {"hourly"})
    OBVIOUS
  <2>1. 1 \in 1 .. Len(more) /\ more[1] = "hourly"
    BY <1>6
  <2> QED  BY <1>7, <2>1
<1>10. \A some : Holds(r.checks, some) => Holds(r.checks \o more, some)
  BY <1>1, <1>2, HoldsMore
<1> QED  BY <1>4, <1>8, <1>9, <1>10

\* A gated route asks for the ceiling.
LEMMA GatedFields ==
  ASSUME NEW path, NEW r, RouteOK(r, path), NEW for, NEW door, NEW currency,
         Fields(r, for, door, currency)
  PROVE  /\ Fields(Gated(r), for, door, currency)
         /\ Holds(Gated(r).checks, {"velocity"})
<1>1. r \in RouteTypes(path) /\ r.checks \in Seq(Asked)
  BY DEF RouteOK, RouteTypes
<1>2. Gated(r) = [r EXCEPT !.checks = Append(r.checks, "velocity")]
  BY <1>1 DEF Gated
<1>3. Gated(r).checks = Append(r.checks, "velocity") /\ Fields(Gated(r), for, door, currency)
  BY <1>1, <1>2 DEF RouteTypes, Fields
<1>4. /\ Len(r.checks) + 1 \in 1 .. Len(Append(r.checks, "velocity"))
      /\ Append(r.checks, "velocity")[Len(r.checks) + 1] = "velocity"
  BY <1>1
<1> QED  BY <1>3, <1>4 DEF Holds

LEMMA PlainPolicy ==
  ASSUME NEW r, NEW for, NEW door, NEW currency, Fields(r, for, door, currency),
         \/ for \notin {"payin", "payout"}
         \/ for = "payin" /\ currency \notin {"BDT", "BRL"}
         \/ for = "payout" /\ door = "api" /\ currency # "BDT"
  PROVE  Policy(r)
  BY DEF Policy, Fields

\* The Bangladesh and Brazil routes are policed, and the portal's payouts gated.
LEMMA PolicedPolicy ==
  ASSUME NEW path, NEW r, RouteOK(r, path), NEW for \in {"payin", "payout"}, NEW currency
  PROVE  /\ Fields(r, for, "api", currency) => Policy(Policed(r))
         /\ Fields(r, "payin", "portal", currency) => Policy(Policed(r))
<1>1. ASSUME Fields(r, for, "api", currency) PROVE Policy(Policed(r))
  <2>1. /\ Fields(Policed(r), for, "api", currency)
        /\ for = "payout" => Holds(Policed(r).checks, {"daily"})
        /\ for # "payout" => Holds(Policed(r).checks, {"hourly"})
    BY <1>1, PolicedFields
  <2> QED  BY <2>1 DEF Policy, Fields
<1>2. ASSUME Fields(r, "payin", "portal", currency) PROVE Policy(Policed(r))
  <2>1. /\ Fields(Policed(r), "payin", "portal", currency)
        /\ Holds(Policed(r).checks, {"hourly"})
    BY <1>2, PolicedFields
  <2> QED  BY <2>1 DEF Policy, Fields
<1> QED  BY <1>1, <1>2

LEMMA GatedPolicy ==
  ASSUME NEW path, NEW r, RouteOK(r, path), NEW currency, Len(r.checks) <= 3,
         Fields(r, "payout", "portal", currency)
  PROVE  /\ Policy(Policed(Gated(r)))
         /\ currency # "BDT" => Policy(Gated(r))
<1>1. /\ Fields(Gated(r), "payout", "portal", currency)
      /\ Holds(Gated(r).checks, {"velocity"})
  BY GatedFields
<1>2. RouteOK(Gated(r), path)
  <2>1. Len(r.checks) <= 4
    BY DEF RouteOK
  <2> QED  BY <2>1, GatedOK
<1>3. /\ Fields(Policed(Gated(r)), "payout", "portal", currency)
      /\ Holds(Policed(Gated(r)).checks, {"daily"})
      /\ Holds(Policed(Gated(r)).checks, {"velocity"})
  BY <1>1, <1>2, PolicedFields
<1> QED  BY <1>1, <1>3 DEF Policy, Fields

LEMMA ApiPolicy ==
    /\ Policy(V1Payins) /\ Policy(V1BrPayins) /\ Policy(V1H2hPayins)
    /\ Policy(V1H2hConfirm) /\ Policy(V1CpgPayins) /\ Policy(V1CpgPayouts)
    /\ Policy(V1EurPayins) /\ Policy(V1EurPayouts) /\ Policy(V1EurApprove)
    /\ Policy(V1PyusdIntents) /\ Policy(V1NgnAccount) /\ Policy(V1NgnPayouts)
    /\ Policy(V1InternalTransfer) /\ Policy(V1Payouts) /\ Policy(V1BrPayouts)
    /\ Policy(V1Wallets) /\ Policy(V1Transfers)
<1>1. Policy(V1Payins)
  BY ApiOK, PlainFields, PolicedPolicy DEF V1Payins, Listed, Purpose, Scope, Market, Currency
<1>2. Policy(V1BrPayins)
  BY ApiOK, PlainFields, PolicedPolicy DEF V1BrPayins, Listed, Purpose, Scope, Market, Currency
<1>3. Policy(V1Payouts)
  BY ApiOK, PlainFields, PolicedPolicy DEF V1Payouts, Listed, Purpose, Scope, Market, Currency
<1>4. Policy(V1BrPayouts)
  BY ApiOK, PlainFields, PolicedPolicy DEF V1BrPayouts, Listed, Purpose, Scope, Market, Currency
<1>5. /\ Policy(V1H2hPayins) /\ Policy(V1CpgPayins) /\ Policy(V1EurPayins)
      /\ Policy(V1PyusdIntents)
  BY PlainFields, PlainPolicy DEF V1H2hPayins, V1CpgPayins, V1EurPayins, V1PyusdIntents
<1>6. Policy(V1CpgPayouts) /\ Policy(V1EurPayouts) /\ Policy(V1NgnPayouts)
  BY PlainFields, PlainPolicy DEF V1CpgPayouts, V1EurPayouts, V1NgnPayouts
<1>7. Policy(V1H2hConfirm) /\ Policy(V1EurApprove) /\ Policy(V1NgnAccount)
  BY PlainFields, PlainPolicy DEF V1H2hConfirm, V1EurApprove, V1NgnAccount
<1>8. Policy(V1InternalTransfer) /\ Policy(V1Wallets) /\ Policy(V1Transfers)
  BY PlainFields, PlainPolicy DEF V1InternalTransfer, V1Wallets, V1Transfers
<1> QED  BY <1>1, <1>2, <1>3, <1>4, <1>5, <1>6, <1>7, <1>8

LEMMA PortalPolicy ==
    /\ Policy(PortalPayins) /\ Policy(PortalPayouts) /\ Policy(PortalBrPayins)
    /\ Policy(PortalBrPayouts) /\ Policy(PortalCpgPayouts) /\ Policy(PortalEurPayouts)
    /\ Policy(PortalEurApprove) /\ Policy(PortalNgnAccount) /\ Policy(PortalNgnPayouts)
    /\ Policy(PortalH2hPayins) /\ Policy(PortalH2hConfirm) /\ Policy(PortalPyusdIntents)
<1>1. Policy(PortalPayins)
  BY UnlistedOK, PlainFields, PolicedPolicy
     DEF PortalPayins, Purpose, Scope, Market, Currency
<1>2. Policy(PortalBrPayins)
  BY PortalOK, PlainFields, PolicedPolicy
     DEF PortalBrPayins, Listed, Purpose, Scope, Market, Currency
<1>3. Policy(PortalPayouts)
  <2> DEFINE r == Unlisted(Portal("/portal/me/payouts", "payout", "bangladesh", "BDT"),
                           <<"account">>)
  <2>1. /\ RouteOK(r, "/portal/me/payouts") /\ Len(r.checks) <= 2
        /\ Fields(r, "payout", "portal", "BDT")
    BY UnlistedOK, PlainFields DEF Purpose, Market, Currency
  <2> HIDE DEF r
  <2>2. Len(r.checks) <= 3
    BY <2>1 DEF RouteOK
  <2>3. Policy(Policed(Gated(r)))
    BY <2>1, <2>2, GatedPolicy
  <2> QED  BY <2>3 DEF PortalPayouts, r
<1>4. ASSUME NEW path, NEW place \in Market, NEW currency \in Currency
      PROVE  /\ Policy(Policed(Gated(Portal(path, "payout", place, currency))))
             /\ currency # "BDT" =>
                   /\ Policy(Gated(Portal(path, "payout", place, currency)))
                   /\ Gated(Portal(path, "payout", place, currency)) \in RouteTypes(path)
  <2> DEFINE r == Portal(path, "payout", place, currency)
  <2>1. /\ RouteOK(r, path) /\ Len(r.checks) = 3 /\ Fields(r, "payout", "portal", currency)
    BY PortalOK, PlainFields DEF Listed, Purpose
  <2> HIDE DEF r
  <2>2. Len(r.checks) <= 3 /\ Len(r.checks) <= 4
    BY <2>1
  <2>3. Policy(Policed(Gated(r))) /\ (currency # "BDT" => Policy(Gated(r)))
    BY <2>1, <2>2, GatedPolicy
  <2>4. Gated(r) \in RouteTypes(path)
    BY <2>1, <2>2, GatedOK DEF RouteOK
  <2> QED  BY <2>3, <2>4 DEF r
<1>5. Policy(PortalBrPayouts) /\ Policy(PortalCpgPayouts) /\ Policy(PortalNgnPayouts)
  BY <1>4 DEF PortalBrPayouts, PortalCpgPayouts, PortalNgnPayouts, Market, Currency
<1>6. Policy(PortalEurPayouts)
  <2> DEFINE r == Gated(Portal("/portal/me/eur/payout-instances", "payout", "europe", "EUR"))
  <2>1. r \in RouteTypes("/portal/me/eur/payout-instances")
    BY <1>4 DEF Market, Currency
  <2>2. r.for = "payout"
    BY DEF Gated, Portal, Route
  <2> HIDE DEF r
  <2>3. PortalEurPayouts.stored = "USDC" /\ PortalEurPayouts.for = "payout"
    BY <2>1, <2>2 DEF PortalEurPayouts, RouteTypes, r
  <2> QED  BY <2>3 DEF Policy
<1>7. Policy(PortalH2hPayins) /\ Policy(PortalPyusdIntents)
  BY PlainFields, PlainPolicy DEF PortalH2hPayins, PortalPyusdIntents
<1>8. Policy(PortalEurApprove) /\ Policy(PortalNgnAccount) /\ Policy(PortalH2hConfirm)
  BY PlainFields, PlainPolicy DEF PortalEurApprove, PortalNgnAccount, PortalH2hConfirm
<1> QED  BY <1>1, <1>2, <1>3, <1>5, <1>6, <1>7, <1>8

LEMMA RoutePolicy ==
  ASSUME NEW r \in Routes
  PROVE  Policy(r)
  BY ApiPolicy, PortalPolicy DEF Routes

-----------------------------------------------------------------------------
(* The limits of the fraud policy and the ceiling of the portal *)

\* Payments of a purpose, by the doors and in the currencies.
Kinds(for, doors, currencies) == {for} \X doors \X currencies

Doors == {"api", "portal"}

\* What the policy adds up: what is pending and what went through.
Alive == {"pending", "success"}

\* The currencies whose payouts at the portal the ceiling is about.
Capped == {"BDT", "BRL", "USDT", "NGN"}

Worth == [a \in Amount |-> a]

One == [a \in Amount |-> 1]

KeptDaily ==
    Kept(Kinds("payout", Doors, {"BDT"}), Alive, "daily", Worth, Max(Amount), DailyLimit)

KeptHourly ==
    Kept(Kinds("payin", Doors, {"BDT", "BRL"}), Alive \cup {"failed"}, "hourly", One, 1,
         PayinsPerHour)

KeptCeiling(currency) ==
    Kept(Kinds("payout", {"portal"}, {currency}), Alive, "velocity", Worth, Max(Amount),
         Ceiling)

LimitsInv ==
    /\ DailyLimit > 0 => KeptDaily
    /\ PayinsPerHour > 0 => KeptHourly
    /\ Mode # "monitor" /\ Ceiling > 0 =>
          \A currency \in Capped : KeptCeiling(currency)

\* One asks for the most.
LEMMA TheMost ==
  /\ Max(Amount) \in Amount /\ Max(Amount) \in Nat
  /\ \A a \in Amount : a <= Max(Amount)
<1>1. PICK most \in Amount : \A a \in Amount : a <= most
  BY AccountsAssumption
<1>2. \A a \in Amount : most >= a
  BY <1>1, AccountsAssumption
<1>3. Max(Amount) \in Amount /\ \A a \in Amount : Max(Amount) >= a
  BY <1>2 DEF Max
<1> QED  BY <1>3, AccountsAssumption

LEMMA AreLimits ==
  /\ IsLimit(Kinds("payout", Doors, {"BDT"}), Alive, "daily", Worth, Max(Amount),
             DailyLimit)
  /\ IsLimit(Kinds("payin", Doors, {"BDT", "BRL"}), Alive \cup {"failed"}, "hourly", One,
             1, PayinsPerHour)
  /\ \A currency \in Capped :
        IsLimit(Kinds("payout", {"portal"}, {currency}), Alive, "velocity", Worth,
                Max(Amount), Ceiling)
<1>1. /\ Worth \in [Amount -> Nat] /\ \A a \in Amount : Worth[a] <= Max(Amount)
      /\ One \in [Amount -> Nat] /\ \A a \in Amount : One[a] <= 1
      /\ Max(Amount) \in Nat /\ 1 \in Nat
      /\ DailyLimit \in Nat /\ PayinsPerHour \in Nat /\ Ceiling \in Nat
  BY TheMost, AccountsAssumption DEF Worth, One
<1>2. "pending" \in Alive /\ "pending" \in Alive \cup {"failed"}
  BY DEF Alive
<1>3. ASSUME NEW r \in Routes, KindOfRoute(r) \in Kinds("payout", Doors, {"BDT"})
      PROVE  Holds(r.checks, {"daily"})
  <2>1. r.for = "payout" /\ r.stored = "BDT"
    BY <1>3 DEF KindOfRoute, Kinds
  <2> QED  BY <2>1, RoutePolicy DEF Policy
<1>4. ASSUME NEW r \in Routes, KindOfRoute(r) \in Kinds("payin", Doors, {"BDT", "BRL"})
      PROVE  Holds(r.checks, {"hourly"})
  <2>1. r.for = "payin" /\ r.stored \in {"BDT", "BRL"}
    BY <1>4 DEF KindOfRoute, Kinds
  <2> QED  BY <2>1, RoutePolicy DEF Policy
<1>5. ASSUME NEW currency \in Capped, NEW r \in Routes,
             KindOfRoute(r) \in Kinds("payout", {"portal"}, {currency})
      PROVE  Holds(r.checks, {"velocity"})
  <2>1. r.for = "payout" /\ r.door = "portal" /\ r.stored \in {"BDT", "BRL", "USDT", "NGN"}
    BY <1>5 DEF KindOfRoute, Kinds, Capped
  <2> QED  BY <2>1, RoutePolicy DEF Policy
<1> QED  BY <1>1, <1>2, <1>3, <1>4, <1>5 DEF IsLimit

\* What the code adds up is what is in the table.
LEMMA DailyTable ==
  ASSUME DoorsInv
  PROVE  InTable(Kinds("payout", Doors, {"BDT"}), Alive, Worth) = Total("BDT")
<1> DEFINE B == Booked(Kinds("payout", Doors, {"BDT"}), Alive)
           T == {i \in In({"BDT"}) : Counts(made[i])}
<1>1. \A i \in DOMAIN made : made[i] \in Payment
  BY LenProperties, ElementOfSeq DEF DoorsInv
<1>2. B = T
  BY <1>1 DEF Booked, Kinds, Kind, Doors, In, Counts, Alive, Payment
<1>3. \A i \in B : Worth[made[i].amount] = made[i].amount
  BY <1>1 DEF Booked, Worth, Payment
<1>4. [i \in B |-> Worth[made[i].amount]] = [i \in T |-> made[i].amount]
  BY <1>2, <1>3
<1> QED  BY <1>4 DEF InTable, Total, Volume

LEMMA HourlyTable ==
  ASSUME DoorsInv
  PROVE  /\ InTable(Kinds("payin", Doors, {"BDT", "BRL"}), Alive \cup {"failed"}, One)
               = Cardinality(Of("payin") \cap In({"BDT", "BRL"}))
         /\ Cardinality(Of("payin") \cap In({"BDT", "BRL"})) <= Cardinality(Of("payin"))
         /\ Cardinality(Of("payin")) \in Nat
<1> DEFINE B == Booked(Kinds("payin", Doors, {"BDT", "BRL"}), Alive \cup {"failed"})
           T == Of("payin") \cap In({"BDT", "BRL"})
           f == [i \in B |-> One[made[i].amount]]
<1>1. \A i \in DOMAIN made : made[i] \in Payment
  BY LenProperties, ElementOfSeq DEF DoorsInv
<1>2. B = T
  BY <1>1 DEF Booked, Kinds, Kind, Doors, In, Of, Alive, Payment
<1>3. \A i \in B : One[made[i].amount] = 1
  BY <1>1 DEF Booked, One, Payment
<1>4. f \in [B -> {1}]
  BY <1>3
<1>5. IsFiniteSet(Of("payin")) /\ T \in SUBSET Of("payin")
  <2>1. IsFiniteSet(1 .. Len(made)) /\ Of("payin") \subseteq 1 .. Len(made)
    BY LenProperties, UpTo DEF DoorsInv, Of
  <2> QED  BY <2>1, FS_Subset
<1> HIDE DEF B, T, f
<1>6. IsFiniteSet(B) /\ Cardinality(T) <= Cardinality(Of("payin"))
      /\ Cardinality(Of("payin")) \in Nat
  BY <1>2, <1>5, FS_Subset, FS_CardinalityType
<1>7. SumOf(f) = Cardinality(B)
  BY <1>4, <1>6, SumOfOnes
<1> QED  BY <1>2, <1>6, <1>7 DEF InTable, B, T, f

LEMMA CeilingTable ==
  ASSUME DoorsInv, NEW currency \in Capped
  PROVE  /\ InTable(Kinds("payout", {"portal"}, {currency}), Alive, Worth)
               = Volume({i \in In({currency}) : Counts(made[i]) /\ made[i].door = "portal"})
         /\ InTable(Kinds("payout", {"portal"}, {currency}), Alive, Worth)
               <= Total(currency)
         /\ Total(currency) \in Nat
<1> DEFINE B == Booked(Kinds("payout", {"portal"}, {currency}), Alive)
           P == {i \in In({currency}) : Counts(made[i]) /\ made[i].door = "portal"}
           T == {i \in In({currency}) : Counts(made[i])}
           f == [i \in T |-> made[i].amount]
           g == [i \in P |-> made[i].amount]
<1>1. \A i \in DOMAIN made : made[i] \in Payment
  BY LenProperties, ElementOfSeq DEF DoorsInv
<1>2. B = P
  BY <1>1 DEF Booked, Kinds, Kind, In, Counts, Alive, Payment
<1>3. \A i \in B : Worth[made[i].amount] = made[i].amount
  BY <1>1 DEF Booked, Worth, Payment
<1>4. [i \in B |-> Worth[made[i].amount]] = g
  BY <1>2, <1>3
<1>5. P \subseteq T /\ T \subseteq DOMAIN made
  BY DEF In
<1>6. IsFiniteSet(T)
  <2>1. IsFiniteSet(1 .. Len(made)) /\ DOMAIN made = 1 .. Len(made)
    BY LenProperties, UpTo DEF DoorsInv
  <2> HIDE DEF T
  <2> QED  BY <1>5, <2>1, FS_Subset
<1>7. \A i \in T : made[i].amount \in Nat
  BY <1>1, <1>5, AccountsAssumption DEF Payment
<1>8. f \in [T -> Nat] /\ g \in [P -> Nat] /\ \A i \in P : g[i] = f[i]
  BY <1>5, <1>7
<1>9. SumOf(g) <= SumOf(f) /\ SumOf(f) \in Nat
  <2> HIDE DEF f, g, T, P
  <2> QED  BY <1>5, <1>6, <1>8, SumOfPart, SumNat
<1> QED  BY <1>4, <1>9 DEF InTable, Total, Volume

\* A check that is passed leaves room, where the limit is set.
LEMMA LeaveRoom ==
  ASSUME DoorsInv
  PROVE  /\ DailyLimit > 0 =>
               LeavesRoom(Kinds("payout", Doors, {"BDT"}), Alive, "daily", Worth, DailyLimit)
         /\ PayinsPerHour > 0 =>
               LeavesRoom(Kinds("payin", Doors, {"BDT", "BRL"}), Alive \cup {"failed"},
                          "hourly", One, PayinsPerHour)
         /\ Mode # "monitor" /\ Ceiling > 0 =>
               \A currency \in Capped :
                  LeavesRoom(Kinds("payout", {"portal"}, {currency}), Alive, "velocity",
                             Worth, Ceiling)
<1>1. ASSUME DailyLimit > 0, NEW r \in Routes, NEW a \in Amount, Passes("daily", r, a)
      PROVE  InTable(Kinds("payout", Doors, {"BDT"}), Alive, Worth) + Worth[a] <= DailyLimit
  <2>1. Total("BDT") + a <= DailyLimit
    BY <1>1 DEF Passes
  <2> QED  BY <2>1, DailyTable DEF Worth
<1>2. ASSUME PayinsPerHour > 0, NEW r \in Routes, NEW a \in Amount, Passes("hourly", r, a)
      PROVE  InTable(Kinds("payin", Doors, {"BDT", "BRL"}), Alive \cup {"failed"}, One)
                + One[a] <= PayinsPerHour
  <2> DEFINE all == Cardinality(Of("payin"))
             some == Cardinality(Of("payin") \cap In({"BDT", "BRL"}))
  <2>1. all < PayinsPerHour
    BY <1>2 DEF Passes
  <2>2. all \in Nat /\ some <= all /\ some \in Nat
    <3>1. some \in Nat
      <4>1. IsFiniteSet(1 .. Len(made)) /\ DOMAIN made = 1 .. Len(made)
        BY LenProperties, UpTo DEF DoorsInv
      <4> QED  BY <4>1, FS_Subset, FS_CardinalityType DEF Of
    <3> QED  BY <3>1, HourlyTable
  <2>3. InTable(Kinds("payin", Doors, {"BDT", "BRL"}), Alive \cup {"failed"}, One) = some
    BY HourlyTable
  <2>4. One[a] = 1 /\ PayinsPerHour \in Nat
    BY AccountsAssumption DEF One
  <2> HIDE DEF all, some
  <2>5. some + 1 <= PayinsPerHour
    BY <2>1, <2>2, <2>4
  <2> QED  BY <2>3, <2>4, <2>5
<1>3. ASSUME Mode # "monitor", Ceiling > 0, NEW currency \in Capped, NEW r \in Routes,
             NEW a \in Amount, Passes("velocity", r, a),
             KindOfRoute(r) \in Kinds("payout", {"portal"}, {currency})
      PROVE  InTable(Kinds("payout", {"portal"}, {currency}), Alive, Worth) + Worth[a]
                <= Ceiling
  <2>1. r.for = "payout" /\ r.door = "portal" /\ r.stored = currency
    BY <1>3 DEF KindOfRoute, Kinds
  <2>2. r.asked = currency
    BY <2>1, RoutePolicy DEF Policy, Capped
  <2>3. Ceiling \in Nat /\ a \in Nat
    BY AccountsAssumption
  <2>4. Total(currency) + a <= Ceiling
    BY <1>3, <2>2, <2>3 DEF Passes
  <2> DEFINE t == InTable(Kinds("payout", {"portal"}, {currency}), Alive, Worth)
             all == Total(currency)
  <2>5. t \in Nat /\ all \in Nat /\ t <= all /\ all + a <= Ceiling /\ Worth[a] = a
    BY <2>4, CeilingTable, BookedRows, AreLimits DEF IsLimit, Worth
  <2> HIDE DEF t, all
  <2>6. t + Worth[a] <= Ceiling
    BY <2>3, <2>5
  <2> QED  BY <2>6 DEF t
<1> QED  BY <1>1, <1>2, <1>3 DEF LeavesRoom

LEMMA LimitsInit == Init => LimitsInv
<1> SUFFICES ASSUME Init PROVE LimitsInv
  OBVIOUS
<1>1. /\ Max(Amount) \in Nat /\ 1 \in Nat
      /\ DailyLimit \in Nat /\ PayinsPerHour \in Nat /\ Ceiling \in Nat
  BY TheMost, AccountsAssumption
<1> QED  BY <1>1, LimitInit DEF LimitsInv, KeptDaily, KeptHourly, KeptCeiling

LEMMA LimitsNext == DoorsInv /\ LimitsInv /\ Next => LimitsInv'
<1> SUFFICES ASSUME DoorsInv, LimitsInv, Next PROVE LimitsInv'
  OBVIOUS
<1>1. DoorsInv'
  BY DoorsNext
<1>2. DailyLimit > 0 => KeptDaily'
  BY <1>1, AreLimits, LeaveRoom, LimitNext DEF LimitsInv, KeptDaily
<1>3. PayinsPerHour > 0 => KeptHourly'
  BY <1>1, AreLimits, LeaveRoom, LimitNext DEF LimitsInv, KeptHourly
<1>4. ASSUME Mode # "monitor", Ceiling > 0, NEW currency \in Capped
      PROVE  KeptCeiling(currency)'
  BY <1>1, <1>4, AreLimits, LeaveRoom, LimitNext DEF LimitsInv, KeptCeiling
<1> QED  BY <1>2, <1>3, <1>4 DEF LimitsInv

LEMMA LimitsStay == LimitsInv /\ UNCHANGED vars => LimitsInv'
  BY DEF vars, LimitsInv, KeptDaily, KeptHourly, KeptCeiling, Kept, InTable, OnTheWay,
         Booked, Cleared

\* A sum of which one part is bounded by a limit and what the others add.
LEMMA KeptBounds ==
  ASSUME DoorsInv, NEW kinds, NEW states, NEW check, NEW weight, NEW most, NEW limit,
         IsLimit(kinds, states, check, weight, most, limit),
         Kept(kinds, states, check, weight, most, limit)
  PROVE  InTable(kinds, states, weight) <= limit + Others(most)
<1>1. weight \in [Amount -> Nat] /\ most \in Nat /\ limit \in Nat
  BY DEF IsLimit
<1> DEFINE a == InTable(kinds, states, weight)
           b == OnTheWay(kinds, check, weight)
           o == Others(most)
<1>2. a \in Nat /\ b \in Nat /\ o \in Nat /\ a + b <= limit + o
  BY <1>1, BookedRows, ClearedCalls, OthersNat DEF Kept
<1> HIDE DEF a, b, o
<1>3. a <= limit + o
  BY <1>1, <1>2
<1> QED  BY <1>3 DEF a, o

LEMMA LimitsMean == DoorsInv /\ LimitsInv => OvershootIsBounded
<1> SUFFICES ASSUME DoorsInv, LimitsInv PROVE OvershootIsBounded
  OBVIOUS
<1>1. Others(Max(Amount)) = Overshoot
  BY DEF Others, Overshoot
<1>2. DailyLimit > 0 => Total("BDT") <= DailyLimit + Overshoot
  BY <1>1, KeptBounds, AreLimits, DailyTable DEF LimitsInv, KeptDaily
<1>3. PayinsPerHour > 0 =>
          Cardinality(Of("payin") \cap In({"BDT", "BRL"}))
             <= PayinsPerHour + Cardinality(Call) - 1
  <2> SUFFICES ASSUME PayinsPerHour > 0
               PROVE  Cardinality(Of("payin") \cap In({"BDT", "BRL"}))
                         <= PayinsPerHour + Cardinality(Call) - 1
    OBVIOUS
  <2>1. Cardinality(Of("payin") \cap In({"BDT", "BRL"})) <= PayinsPerHour + Others(1)
    BY KeptBounds, AreLimits, HourlyTable DEF LimitsInv, KeptHourly
  <2> DEFINE n == Cardinality(Call)
  <2>2. n \in Nat /\ PayinsPerHour \in Nat
    BY AccountsAssumption, FS_CardinalityType
  <2> HIDE DEF n
  <2>3. (n - 1) * 1 = n - 1 /\ PayinsPerHour + (n - 1) = PayinsPerHour + n - 1
    BY <2>2
  <2> QED  BY <2>1, <2>3 DEF Others, n
<1>4. ASSUME Mode # "monitor", Ceiling > 0, NEW currency \in {"BDT", "BRL", "USDT", "NGN"}
      PROVE  Volume({i \in In({currency}) : Counts(made[i]) /\ made[i].door = "portal"})
                <= Ceiling + Overshoot
  <2>1. currency \in Capped
    BY DEF Capped
  <2>2. InTable(Kinds("payout", {"portal"}, {currency}), Alive, Worth)
            <= Ceiling + Overshoot
    BY <1>1, <1>4, <2>1, KeptBounds, AreLimits DEF LimitsInv, KeptCeiling
  <2> QED  BY <2>1, <2>2, CeilingTable
<1> QED  BY <1>2, <1>3, <1>4 DEF OvershootIsBounded

-----------------------------------------------------------------------------
(* The worlds together: a behaviour is one of them, and the others stay where *)
(* they are.                                                                  *)

AllInv ==
    /\ DoorsInv /\ LimitsInv
    /\ world = "tokens" => TokensInv
    /\ world = "logins" => LoginsInv
    /\ world = "keys" => KeysInv

LEMMA AllInitInv == AllInit => AllInv
<1> SUFFICES ASSUME AllInit PROVE AllInv
  OBVIOUS
<1>1. /\ world = "tokens" => TokensInv
      /\ world = "logins" => LoginsInv
      /\ world = "keys" => KeysInv
  BY TokensInit, LoginsInit, KeysInit DEF AllInit
<1> QED  BY <1>1, DoorsInit, LimitsInit DEF AllInit, AllInv

\* A world that stays where it is keeps its invariant.
LEMMA AccountsStay ==
    /\ TokensInv /\ UNCHANGED TokensVars => TokensInv'
    /\ LoginsInv /\ UNCHANGED LoginsVars => LoginsInv'
    /\ KeysInv /\ UNCHANGED KeysVars => KeysInv'
<1>1. ASSUME TokensInv, UNCHANGED TokensVars PROVE TokensInv'
  <2>1. Tokens!TypeOK'
    BY <1>1 DEF TokensInv, TokensVars, Tokens!TypeOK
  <2> QED  BY <1>1, <2>1 DEF TokensInv, TokensVars
<1>2. ASSUME LoginsInv, UNCHANGED LoginsVars PROVE LoginsInv'
  <2>1. Logins!TypeOK' /\ PasswordKnown'
    BY <1>2 DEF LoginsInv, LoginsVars, Logins!TypeOK, PasswordKnown
  <2> QED  BY <1>2, <2>1 DEF LoginsInv, LoginsVars
<1>3. ASSUME KeysInv, UNCHANGED KeysVars PROVE KeysInv'
  <2>1. Keys!TypeOK'
    BY <1>3 DEF KeysInv, KeysVars, Keys!TypeOK
  <2> QED  BY <1>3, <2>1 DEF KeysInv, KeysVars
<1> QED  BY <1>1, <1>2, <1>3

\* Every step keeps the invariant of its world.
LEMMA AllNextInv ==
    AllInv /\ [AllNext]_<<world, vars, TokensVars, LoginsVars, KeysVars>> => AllInv'
<1> SUFFICES ASSUME AllInv,
                    [AllNext]_<<world, vars, TokensVars, LoginsVars, KeysVars>>
             PROVE  AllInv'
  OBVIOUS
<1>1. CASE AllNext
  <2>1. world' = world
    BY <1>1 DEF AllNext
  <2>2. CASE world = "doors" /\ Next
    BY <2>1, <2>2, DoorsNext, LimitsNext DEF AllInv
  <2>3. CASE world = "tokens" /\ Tokens!Next /\ UNCHANGED vars
    BY <2>1, <2>3, TokensNext, DoorsStay, LimitsStay DEF AllInv
  <2>4. CASE world = "logins" /\ Logins!Next /\ UNCHANGED vars
    BY <2>1, <2>4, LoginsNext, DoorsStay, LimitsStay DEF AllInv
  <2>5. CASE world = "keys" /\ Keys!Next /\ UNCHANGED vars
    BY <2>1, <2>5, KeysNext, DoorsStay, LimitsStay DEF AllInv
  <2> QED  BY <1>1, <2>2, <2>3, <2>4, <2>5 DEF AllNext
<1>2. CASE UNCHANGED <<world, vars, TokensVars, LoginsVars, KeysVars>>
  BY <1>2, AccountsStay, DoorsStay, LimitsStay DEF AllInv
<1> QED  BY <1>1, <1>2

\* The code of each world keeps, in every interleaving, what its steps rely on.
THEOREM AccountsInvariant == AllSpec => []AllInv
  BY AllInitInv, AllNextInv, PTL DEF AllSpec

\* Every variable of every world has its type, for any constants.
THEOREM AccountsTypes == AllSpec => []TypesOK
<1>1. AllInv => TypesOK
  BY DoorsMean DEF AllInv, TokensInv, LoginsInv, KeysInv, TypesOK
<1> QED  BY <1>1, AccountsInvariant, PTL

\* jwt-revocation.ts, merchant-key-cache.ts, portal-auth.ts: for any processes,
\* calls and times to live, nothing revoked is accepted once the time that an
\* answer may be cached is over, and a step-up token opens one door.
THEOREM VerdictsAreAlwaysRecent == AllSpec => []VerdictsAreRecent
<1>1. AllInv => VerdictsAreRecent
  BY TokensMean, KeysMean, LoginsMean DEF AllInv, VerdictsAreRecent
<1> QED  BY <1>1, AccountsInvariant, PTL

\* portal-auth.ts, provider-auth.ts: for any processes and calls, no session
\* outlives the password it began with by more than a version is cached.
THEOREM PasswordsAreAlwaysKnown == AllSpec => []SessionsKnowThePassword
<1>1. AllInv => SessionsKnowThePassword
  BY LoginsMean DEF AllInv, SessionsKnowThePassword
<1> QED  BY <1>1, AccountsInvariant, PTL

\* app.ts, portal-payout-access.ts: for any requests, amounts and order of the
\* provider's decisions, what a suspension bars when a request comes in, and is
\* not lifted meanwhile, keeps it from creating a payment.
THEOREM SuspensionAlwaysHolds == AllSpec => []SuspensionHolds
<1>1. AllInv => SuspensionHolds
  BY DoorsMean DEF AllInv
<1> QED  BY <1>1, AccountsInvariant, PTL

\* fraud-policy.ts, portal-payout-access.ts: for any number of requests, any
\* amounts, limits and routes, requests that pass the same check at once never go
\* further past a limit than all of them but one ask for.
THEOREM OvershootStaysBounded == AllSpec => []OvershootIsBounded
<1>1. AllInv => OvershootIsBounded
  BY LimitsMean DEF AllInv
<1> QED  BY <1>1, AccountsInvariant, PTL
=============================================================================
