---------------- MODULE TrustedPublishing ----------------
(* Exchange of a CI identity for an upload token: oidc.rs,
   trusted_publisher.rs and token.rs of peryx-identity behind the handler
   of peryx-http.

   An exchange reads the clock once, when its request arrives, and works
   with that time to its end.  In between it waits for the issuer's key
   cache, which one exchange at a time holds across two fetches, so its
   time can be old by then.  A client that hangs up drops the exchange at
   any of these waits.  The replay map lives as long as the process, and
   so does a behaviour. *)
EXTENDS Integers, Sequences, FiniteSets, FiniteSetsExt

CONSTANTS
    Exchanges,          \* requests in progress at the same time
    Identities,         \* the tokens CI jobs hold, see IsIdentity
    Publishers,         \* the rules, in configuration order, see IsPublisher
    Audience,           \* the audience all rules share
    SigningKeys,        \* the key ids issuers sign with
    TokenTtl,           \* token_ttl_secs
    ReplayCapacity,     \* replay_capacity
    MinFresh,           \* MIN_FRESH_SECS
    DefaultFresh,       \* DEFAULT_FRESH_SECS
    MaxFresh,           \* MAX_FRESH_SECS
    HardCache,          \* HARD_CACHE_SECS
    MaxLifetime,        \* MAX_IDENTITY_LIFETIME_SECS
    MaxAges,            \* the max-age directives issuers answer with, NoAge among them
    MaxOidcNow,         \* bound on the clock
    MaxExchanges        \* bound on the requests

NoAge == -1
NoKey == "none"

\* What an exchange can tell of an identity token.  "wellformed" stands for the size, the algorithm and the
\* claims that must not be empty; nbf is iat where the token has none.
IsIdentity(t) ==
    /\ DOMAIN t = {"jti", "iss", "aud", "sub", "claims", "kid", "iat", "nbf", "exp", "wellformed"}
    /\ t.kid \in SigningKeys
    /\ {t.iat, t.nbf, t.exp} \subseteq Int

IsPublisher(p) == DOMAIN p = {"id", "repository", "issuer", "audience", "subjects", "claims", "projects"}

Issuers == {Publishers[i].issuer : i \in DOMAIN Publishers}

\* What OidcRuntime::build refuses: no rule, two audiences, two rules of one id, a ttl or capacity of zero.
ASSUME TrustedPublishingAssumption ==
    /\ Publishers # <<>> /\ DOMAIN Publishers = 1..Len(Publishers) /\ Len(Publishers) \in Nat
    /\ \A i \in DOMAIN Publishers : IsPublisher(Publishers[i]) /\ Publishers[i].audience = Audience
    /\ \A i, j \in DOMAIN Publishers : Publishers[i].id = Publishers[j].id => i = j
    /\ \A t \in Identities : IsIdentity(t)
    /\ {TokenTtl, ReplayCapacity, MinFresh} \subseteq Nat \ {0}
    /\ {DefaultFresh, MaxFresh, HardCache} \subseteq Nat
    /\ MinFresh <= DefaultFresh /\ DefaultFresh <= MaxFresh /\ MaxFresh <= HardCache
    /\ MaxLifetime \in Nat /\ MaxOidcNow \in Nat /\ MaxExchanges \in Nat
    /\ MaxAges \subseteq Nat \cup {NoAge}

VARIABLES
    oidcNow,    \* the wall clock
    published,  \* issuer -> the keys in its JWKS
    withdrawn,  \* issuer -> key -> when the issuer withdrew it, or -1
    keyCache,   \* issuer -> KeyCache
    keyLock,    \* issuer -> the exchange holding its cache, or NoKey
    exchange,   \* per request [pc, token, now, age], the last status while idle
    replay,     \* (issuer, jti) -> expiry
    minted,     \* history: every upload token given out
    exchanges   \* requests so far

oidcVars == <<oidcNow, published, withdrawn, keyCache, keyLock, exchange, replay, minted, exchanges>>

OidcIdle == [pc |-> "idle", status |-> 200]

OidcInit ==
    /\ oidcNow = 0
    /\ published = [i \in Issuers |-> SigningKeys]
    /\ withdrawn = [i \in Issuers |-> [k \in SigningKeys |-> -1]]
    /\ keyCache = [i \in Issuers |-> [keys |-> {}, fresh_until |-> 0, hard_until |-> 0, refresh_after |-> 0]]
    /\ keyLock = [i \in Issuers |-> NoKey]
    /\ exchange = [x \in Exchanges |-> OidcIdle]
    /\ replay = <<>>
    /\ minted = {}
    /\ exchanges = 0

--------------------------------
(* The rules                                                               *)

\* TrustedPublisher::authorize: the reason against a token, "none" if it is accepted.
Denial(p, t, now) ==
    CASE p.issuer # t.iss -> "unknown issuer"
      [] p.audience # t.aud -> "wrong audience"
      [] now >= t.exp -> "expired"
      [] t.sub \notin p.subjects -> "wrong subject"
      [] ~(p.claims \subseteq t.claims) -> "claim mismatch"
      [] OTHER -> "none"

\* PublishDenial::rank
Rank(reason) ==
    CASE reason = "unknown issuer" -> 0
      [] reason = "wrong audience" -> 1
      [] reason = "expired" -> 2
      [] reason = "wrong subject" -> 3
      [] OTHER -> 4

Accepting(t, now) == {i \in DOMAIN Publishers : Denial(Publishers[i], t, now) = "none"}

\* authorize_publish_index: the first accepting rule, or the reason of the rule that came closest.
AuthorizePublishIndex(t, now) ==
    IF Accepting(t, now) # {}
    THEN [ok |-> TRUE, position |-> Min(Accepting(t, now))]
    ELSE [ok |-> FALSE,
          reason |-> LET reasons == {Denial(Publishers[i], t, now) : i \in DOMAIN Publishers}
                     IN  CHOOSE r \in reasons : \A s \in reasons : Rank(s) <= Rank(r)]

\* qualify_grants: a rule of a named repository grants its projects inside it.
QualifyGrants(p) == {<<p.repository, project>> : project \in p.projects}

--------------------------------
(* One exchange                                                            *)

\* ExchangeError::unavailable decides the status of oidc_mint_token.
Status(reason) ==
    IF reason \in {"issuer unavailable", "invalid issuer response", "unknown key", "replay capacity"} THEN 503 ELSE 422

Answer(x, reason) ==
    exchange' = [exchange EXCEPT ![x] = [pc |-> "idle", status |-> Status(reason)]]

Free(x) == [i \in Issuers |-> IF keyLock[i] = x THEN NoKey ELSE keyLock[i]]

\* oidc_mint_token and the part of verify before the key: the clock is read here.
Receive(x, t) ==
    /\ exchange[x].pc = "idle"
    /\ exchanges < MaxExchanges
    /\ exchanges' = exchanges + 1
    /\ IF t.wellformed /\ t.iss \in Issuers
       THEN /\ exchange' = [exchange EXCEPT ![x] = [pc |-> "key", token |-> t, now |-> oidcNow]]
       ELSE Answer(x, "invalid identity")
    /\ UNCHANGED <<oidcNow, published, withdrawn, keyCache, keyLock, replay, minted>>

\* What key() computes under the lock.
Cached(x) == exchange[x].token.kid \in keyCache[exchange[x].token.iss].keys
HardExpired(x) ==
    LET cache == keyCache[exchange[x].token.iss]
    IN  cache.keys # {} /\ exchange[x].now >= cache.hard_until
Refreshes(x) ==
    LET cache == keyCache[exchange[x].token.iss]
    IN  /\ ~Cached(x) \/ exchange[x].now >= cache.fresh_until
        /\ exchange[x].now >= cache.refresh_after \/ HardExpired(x)

\* key(): the lock is taken; either the cache answers at once or the exchange goes to the issuer with it.
Key(x) ==
    LET issuer == exchange[x].token.iss
    IN  /\ exchange[x].pc = "key"
        /\ keyLock[issuer] = NoKey
        /\ IF Refreshes(x)
           THEN /\ keyLock' = [keyLock EXCEPT ![issuer] = x]
                /\ exchange' = [exchange EXCEPT ![x].pc = "discovery"]
           ELSE /\ IF Cached(x)
                   THEN exchange' = [exchange EXCEPT ![x].pc = "claims"]
                   ELSE Answer(x, "unknown key")
                /\ UNCHANGED keyLock
        /\ UNCHANGED <<oidcNow, published, withdrawn, keyCache, replay, minted, exchanges>>

RefreshFailedLeniently(x, reason) ==
    LET issuer == exchange[x].token.iss
    IN  /\ keyCache' = [keyCache EXCEPT ![issuer].refresh_after = exchange[x].now + MinFresh]
        /\ keyLock' = Free(x)
        /\ IF Cached(x) THEN exchange' = [exchange EXCEPT ![x].pc = "claims"] ELSE Answer(x, reason)
        /\ UNCHANGED <<oidcNow, published, withdrawn, replay, minted, exchanges>>

\* The error arm of key(): asking again is put off, and a key still inside its hard limit is used as it is.
RefreshFailed(x, reason) ==
    LET issuer == exchange[x].token.iss
    IN  /\ keyCache' = [keyCache EXCEPT ![issuer].refresh_after = exchange[x].now + MinFresh]
        /\ keyLock' = Free(x)
        /\ IF Cached(x) /\ ~HardExpired(x)
           THEN exchange' = [exchange EXCEPT ![x].pc = "claims"]
           ELSE Answer(x, reason)
        /\ UNCHANGED <<oidcNow, published, withdrawn, replay, minted, exchanges>>

\* refresh, first fetch_json: the discovery document names the issuer, RS256 and a key set, or it is refused.
FetchDiscovery(x) ==
    /\ exchange[x].pc = "discovery"
    /\ \/ \E age \in MaxAges :
            /\ exchange' = [exchange EXCEPT ![x] = [pc |-> "jwks", token |-> @.token, now |-> @.now, age |-> age]]
            /\ UNCHANGED <<oidcNow, published, withdrawn, keyCache, keyLock, replay, minted, exchanges>>
       \/ RefreshFailed(x, "issuer unavailable")
       \/ RefreshFailed(x, "invalid issuer response")

Age(age) == IF age = NoAge THEN DefaultFresh ELSE age

\* refresh: the shorter of the two ages, between MIN_FRESH_SECS and MAX_FRESH_SECS.
FreshFor(discovery, jwks) == Max({MinFresh, Min({MaxFresh, Age(discovery), Age(jwks)})})

\* refresh, second fetch_json with usable_keys, and the rest of key(): the new cache is stamped with the
\* exchange's time.  A key set with no usable key is an error.
FetchKeys(x) ==
    LET issuer == exchange[x].token.iss
        now == exchange[x].now
    IN  /\ exchange[x].pc = "jwks"
        /\ \/ \E age \in MaxAges :
                /\ published[issuer] # {}
                /\ keyCache' = [keyCache EXCEPT ![issuer] =
                                    [keys |-> published[issuer], fresh_until |-> now + FreshFor(exchange[x].age, age),
                                     hard_until |-> now + HardCache, refresh_after |-> now + MinFresh]]
                /\ keyLock' = Free(x)
                /\ IF exchange[x].token.kid \in published[issuer]
                   THEN exchange' = [exchange EXCEPT ![x].pc = "claims"]
                   ELSE Answer(x, "unknown key")
                /\ UNCHANGED <<oidcNow, published, withdrawn, replay, minted, exchanges>>
           \/ RefreshFailed(x, "issuer unavailable")
           \/ RefreshFailed(x, "invalid issuer response")

\* The claims verify checks itself once the signature holds.
ClaimsHold(t, now) ==
    /\ t.aud = Audience
    /\ t.iat <= now
    /\ now >= t.nbf
    /\ t.exp - t.iat \in 1..MaxLifetime

\* consume_replay drops what has expired by the exchange's time.
Retained(now) == {k \in DOMAIN replay : replay[k] > now}

ConsumeReplay(t, now) ==
    LET kept == Retained(now)
        key == <<t.iss, t.jti>>
    IN  CASE key \in kept -> "replay"
          [] key \notin kept /\ Cardinality(kept) >= ReplayCapacity -> "replay capacity"
          [] OTHER -> "none"

\* mint_trusted: the token is signed before the replay entry is taken and dropped when that fails.
MintTrusted(t, now, position) ==
    [id |-> Cardinality(minted), identity |-> t, publisher |-> Publishers[position].id, grants |-> QualifyGrants(Publishers[position]),
     kid |-> t.kid, iat |-> now, exp |-> now + Min({TokenTtl, t.exp - now}), purpose |-> "trusted-publishing"]

\* The rest of verify and exchange, and the response.
Finish(x) ==
    LET t == exchange[x].token
        now == exchange[x].now
        rule == AuthorizePublishIndex(t, now)
        taken == ConsumeReplay(t, now)
        kept == [k \in Retained(now) |-> replay[k]]
    IN  /\ exchange[x].pc = "claims"
        /\ CASE ~ClaimsHold(t, now) ->
                  Answer(x, "invalid identity") /\ UNCHANGED <<replay, minted>>
             [] ClaimsHold(t, now) /\ ~rule.ok ->
                  Answer(x, rule.reason) /\ UNCHANGED <<replay, minted>>
             [] ClaimsHold(t, now) /\ rule.ok /\ taken # "none" ->
                  Answer(x, taken) /\ replay' = kept /\ UNCHANGED minted
             [] OTHER ->
                  /\ replay' = [k \in DOMAIN kept \cup {<<t.iss, t.jti>>} |->
                                    IF k = <<t.iss, t.jti>> THEN t.exp ELSE kept[k]]
                  /\ minted' = minted \cup {MintTrusted(t, now, rule.position)}
                  /\ exchange' = [exchange EXCEPT ![x] = OidcIdle]
        /\ UNCHANGED <<oidcNow, published, withdrawn, keyCache, keyLock, exchanges>>

\* The client goes away: the request's future is dropped at an await, with the lock it may hold.
HangUp(x) ==
    /\ exchange[x].pc \in {"key", "discovery", "jwks"}
    /\ exchange' = [exchange EXCEPT ![x] = OidcIdle]
    /\ keyLock' = Free(x)
    /\ UNCHANGED <<oidcNow, published, withdrawn, keyCache, replay, minted, exchanges>>

--------------------------------
(* Around it                                                               *)

\* The issuer withdraws a key for good.
Withdraw(i, k) ==
    /\ k \in published[i]
    /\ published' = [published EXCEPT ![i] = @ \ {k}]
    /\ withdrawn' = [withdrawn EXCEPT ![i][k] = oidcNow]
    /\ UNCHANGED <<oidcNow, keyCache, keyLock, exchange, replay, minted, exchanges>>

OidcTick ==
    /\ oidcNow < MaxOidcNow
    /\ oidcNow' = oidcNow + 1
    /\ UNCHANGED <<published, withdrawn, keyCache, keyLock, exchange, replay, minted, exchanges>>

OidcNext ==
    \/ \E x \in Exchanges :
          \/ \E t \in Identities : Receive(x, t)
          \/ Key(x)
          \/ FetchDiscovery(x)
          \/ FetchKeys(x)
          \/ Finish(x)
          \/ HangUp(x)
    \/ \E i \in Issuers, k \in SigningKeys : Withdraw(i, k)
    \/ OidcTick

OidcSpec == OidcInit /\ [][OidcNext]_oidcVars

--------------------------------
(* Properties                                                              *)

\* Signer::verify_for before the second in which a token expires, the only one the decoder decides.
Accepted(m, purpose) == m.purpose = purpose /\ oidcNow < m.exp

RuleNamed(id) == CHOOSE p \in {Publishers[i] : i \in DOMAIN Publishers} : p.id = id

\* In one process an identity buys at most one upload token that anyone still accepts, however many of its
\* exchanges run at once, are dropped or carry an old time; no upload token outlives the identity it was bought
\* with, or grants more than the rule it names; and a signing key that its issuer withdrew is good for
\* HARD_CACHE_SECS more, even while the issuer is down.
TrustIsBounded ==
    /\ \A m, n \in minted :
          (Accepted(m, "trusted-publishing") /\ Accepted(n, "trusted-publishing")
           /\ m.identity.iss = n.identity.iss /\ m.identity.jti = n.identity.jti) => m = n
    /\ \A m \in minted :
          /\ m.exp <= m.identity.exp
          /\ withdrawn[m.identity.iss][m.kid] >= 0 => m.iat < withdrawn[m.identity.iss][m.kid] + HardCache
          /\ m.grants = QualifyGrants(RuleNamed(m.publisher))
================================
