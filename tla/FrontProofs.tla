---------------- MODULE FrontProofs ----------------
(* Proofs about the front: RateLimit, TrustedPublishing, UserAccounts,
   Policy and Access.

   An identity of a CI run buys one upload token at a time, a token ends
   with its identity, and a key that its issuer withdrew is not used
   longer than HARD_CACHE_SECS.  The accounts of the server, their names,
   histories, passwords and roles agree with each other at all times, and
   password derivations stay within their permits.  Listings, downloads
   and uploads are decided alike, and the log of the decisions is sound.
   However requests overtake each other, no sender gains a window.  A glob
   matches what it means, and a token of the registry lets through no more
   than the password it was issued for. *)
EXTENDS RateLimit, TrustedPublishing, UserAccounts, Policy, Access, FiniteSetTheorems, SequenceTheorems, WellFoundedInduction, TLAPS

--------------------------------
(* Minima and maxima. *)

LEMMA MinOfTwo ==
    ASSUME NEW a \in Int, NEW b \in Int
    PROVE  Min({a, b}) \in {a, b} /\ Min({a, b}) <= a /\ Min({a, b}) <= b
<1>1. \E m \in {a, b} : \A n \in {a, b} : m <= n
  <2>1. CASE a <= b BY <2>1
  <2>2. CASE b <= a BY <2>2
  <2> QED BY <2>1, <2>2
<1> QED BY <1>1 DEF Min

LEMMA MinOfThree ==
    ASSUME NEW a \in Int, NEW b \in Int, NEW c \in Int
    PROVE  Min({a, b, c}) \in Int /\ Min({a, b, c}) <= a
<1>1. \E m \in {a, b, c} : \A n \in {a, b, c} : m <= n
  <2>1. PICK m \in {a, b} : m <= a /\ m <= b
    <3>1. CASE a <= b BY <3>1
    <3>2. CASE b <= a BY <3>2
    <3> QED BY <3>1, <3>2
  <2>2. CASE m <= c BY <2>1, <2>2
  <2>3. CASE c <= m BY <2>1, <2>3
  <2> QED BY <2>2, <2>3
<1> QED BY <1>1 DEF Min

LEMMA MaxOfTwo ==
    ASSUME NEW a \in Int, NEW b \in Int
    PROVE  Max({a, b}) \in {a, b}
<1>1. \E m \in {a, b} : \A n \in {a, b} : m >= n
  <2>1. CASE a <= b BY <2>1
  <2>2. CASE b <= a BY <2>2
  <2> QED BY <2>1, <2>2
<1> QED BY <1>1 DEF Max

(* A non-empty set of positions has a first one. *)
LEMMA FirstPosition ==
    ASSUME NEW S \in SUBSET Nat, S # {}
    PROVE  Min(S) \in S
<1> DEFINE R == {ss \in Nat \X Nat : ss[1] < ss[2]}
<1>1. IsWellFoundedOn(R, Nat) BY NatLessThanWellFounded, Zenon DEF OpToRel
<1>2. PICK x \in S : \A y \in S : ~(<<y, x>> \in R)
  <2> HIDE DEF R
  <2> QED BY <1>1, WFMin
<1>3. \A y \in S : ~(y < x) BY <1>2
<1>4. \A y \in S : x <= y BY <1>3
<1> QED BY <1>4 DEF Min

--------------------------------
(* The inductive invariant. *)

KeyCaches == [keys : SUBSET SigningKeys, fresh_until : Int, hard_until : Int, refresh_after : Int]

(* A request that waits for the key cache, for the issuer, or with a key in hand. *)
Waiting == [pc : {"key", "discovery", "claims"}, token : Identities, now : Nat]
           \cup [pc : {"jwks", "claims"}, token : Identities, now : Nat, age : MaxAges]

Answers == [pc : {"idle"}, status : {200, 422, 503}]

OidcTyped ==
    /\ oidcNow \in Nat
    /\ published \in [Issuers -> SUBSET SigningKeys]
    /\ withdrawn \in [Issuers -> [SigningKeys -> Int]]
    /\ keyCache \in [Issuers -> KeyCaches]
    /\ exchange \in [Exchanges -> Answers \cup Waiting]
    /\ \A k \in DOMAIN replay : replay[k] \in Int

(* A cached key is fresh for no longer than it is good, and good for HardCache after it was last published. *)
CacheIsBounded(i) ==
    /\ keyCache[i].fresh_until <= keyCache[i].hard_until
    /\ keyCache[i].hard_until <= oidcNow + HardCache
    /\ \A k \in SigningKeys :
          /\ withdrawn[i][k] <= oidcNow
          /\ k \in published[i] => withdrawn[i][k] < 0
          /\ withdrawn[i][k] >= 0 /\ k \in keyCache[i].keys => keyCache[i].hard_until <= withdrawn[i][k] + HardCache

(* A time at which a key may be relied on. *)
InTime(t, when) == withdrawn[t.iss][t.kid] >= 0 => when < withdrawn[t.iss][t.kid] + HardCache

(* A request was received in the past, and relies on no key that is out of time. *)
IsSound(r) ==
    r \in Waiting =>
       /\ r.now <= oidcNow /\ r.token.iss \in Issuers
       /\ r.pc = "claims" => InTime(r.token, r.now)

Bought(m) == <<m.identity.iss, m.identity.jti>>

(* The replay map remembers what a token was bought with for as long as the token is good. *)
MintedIsSound(m) ==
    /\ m.identity \in Identities /\ m.identity.iss \in Issuers /\ m.kid = m.identity.kid
    /\ m.exp \in Int /\ m.iat \in Nat
    /\ m.exp <= m.identity.exp /\ m.iat <= oidcNow /\ InTime(m.identity, m.iat)
    /\ m.grants = QualifyGrants(RuleNamed(m.publisher))
    /\ oidcNow < m.exp => Bought(m) \in DOMAIN replay /\ m.exp <= replay[Bought(m)]

OnePerIdentity ==
    \A m, n \in minted : oidcNow < m.exp /\ oidcNow < n.exp /\ Bought(m) = Bought(n) => m = n

OidcInv ==
    /\ OidcTyped
    /\ \A i \in Issuers : CacheIsBounded(i)
    /\ \A x \in Exchanges : IsSound(exchange[x])
    /\ \A m \in minted : MintedIsSound(m)
    /\ OnePerIdentity

LEMMA Constants ==
    /\ HardCache \in Nat /\ HardCache > 0 /\ TokenTtl \in Nat
    /\ \A t \in Identities : t.kid \in SigningKeys /\ t.exp \in Int /\ t.iat \in Int
<1>1. /\ {TokenTtl, MinFresh} \subseteq Nat \ {0} /\ {DefaultFresh, MaxFresh, HardCache} \subseteq Nat
      /\ MinFresh <= DefaultFresh /\ DefaultFresh <= MaxFresh /\ MaxFresh <= HardCache
  BY TrustedPublishingAssumption
<1>2. \A t \in Identities : IsIdentity(t) BY TrustedPublishingAssumption
<1> QED BY <1>1, <1>2 DEF IsIdentity

LEMMA OidcInvInit == OidcInit => OidcInv
<1> SUFFICES ASSUME OidcInit PROVE OidcInv OBVIOUS
<1> USE DEF OidcInit
<1>1. OidcTyped BY DEF OidcTyped, KeyCaches, OidcIdle, Answers
<1>2. ASSUME NEW i \in Issuers PROVE CacheIsBounded(i) BY Constants DEF CacheIsBounded
<1>3. ASSUME NEW x \in Exchanges PROVE IsSound(exchange[x])
  <2>1. exchange[x].pc = "idle" BY DEF OidcIdle
  <2> QED BY <2>1 DEF IsSound, Waiting
<1> QED BY <1>1, <1>2, <1>3 DEF OidcInv, OnePerIdentity

(* The property of the runs follows. *)
LEMMA OidcInvBounds == OidcInv => TrustIsBounded
<1> SUFFICES ASSUME OidcInv PROVE TrustIsBounded OBVIOUS
<1>1. ASSUME NEW m \in minted, NEW n \in minted, Accepted(m, "trusted-publishing"), Accepted(n, "trusted-publishing"),
             m.identity.iss = n.identity.iss, m.identity.jti = n.identity.jti
      PROVE  m = n
  BY <1>1 DEF OidcInv, OnePerIdentity, Accepted, Bought
<1>2. ASSUME NEW m \in minted PROVE MintedIsSound(m) BY DEF OidcInv
<1> QED BY <1>1, <1>2 DEF TrustIsBounded, MintedIsSound, InTime

--------------------------------
(* Steps of an exchange before its verdict. *)

(* A step that moves an exchange and perhaps fills a cache. *)
LEMMA ExchangeMoves ==
    ASSUME OidcInv, NEW x \in Exchanges, NEW r \in Answers \cup Waiting, IsSound(r),
           exchange' = [exchange EXCEPT ![x] = r],
           UNCHANGED <<oidcNow, published, withdrawn, replay, minted>>,
           keyCache' \in [Issuers -> KeyCaches], \A i \in Issuers : CacheIsBounded(i)'
    PROVE  OidcInv'
<1>1. OidcTyped' BY DEF OidcInv, OidcTyped
<1>2. ASSUME NEW y \in Exchanges PROVE IsSound(exchange[y])'
  <2>1. exchange'[y] = IF y = x THEN r ELSE exchange[y] BY DEF OidcInv, OidcTyped
  <2>2. IsSound(exchange[y]) BY DEF OidcInv
  <2> QED BY <2>1, <2>2 DEF IsSound, InTime
<1>3. ASSUME NEW m \in minted' PROVE MintedIsSound(m)'
  <2>1. MintedIsSound(m) BY DEF OidcInv
  <2> QED BY <2>1 DEF MintedIsSound, InTime
<1>4. OnePerIdentity' BY DEF OidcInv, OnePerIdentity
<1> QED BY <1>1, <1>2, <1>3, <1>4 DEF OidcInv

LEMMA AnswerIsSound ==
    ASSUME NEW reason
    PROVE  /\ [pc |-> "idle", status |-> Status(reason)] \in Answers
           /\ IsSound([pc |-> "idle", status |-> Status(reason)])
<1> PICK r : r = [pc |-> "idle", status |-> Status(reason)] OBVIOUS
<1>1. Status(reason) \in {422, 503}
  <2> PICK unavailable : unavailable = {"issuer unavailable", "invalid issuer response", "unknown key", "replay capacity"}
    OBVIOUS
  <2>1. Status(reason) = IF reason \in unavailable THEN 503 ELSE 422 BY Zenon DEF Status
  <2>2. CASE reason \in unavailable BY <2>1, <2>2
  <2>3. CASE reason \notin unavailable BY <2>1, <2>3
  <2> QED BY <2>2, <2>3
<1>2. r \in Answers /\ r.pc = "idle" BY <1>1 DEF Answers
<1> QED BY <1>2 DEF IsSound, Waiting

(* An exchange takes a key it may rely on. *)
LEMMA TakesKey ==
    ASSUME OidcInv, NEW r \in Waiting, r.now <= oidcNow, r.token.iss \in Issuers, InTime(r.token, r.now)
    PROVE  [r EXCEPT !.pc = "claims"] \in Waiting /\ IsSound([r EXCEPT !.pc = "claims"])
<1> PICK s : s = [r EXCEPT !.pc = "claims"] OBVIOUS
<1>1. s \in Waiting /\ s.token = r.token /\ s.now = r.now BY DEF Waiting
<1> QED BY <1>1 DEF IsSound

LEMMA CacheStays ==
    ASSUME OidcInv, UNCHANGED <<oidcNow, published, withdrawn, keyCache>>
    PROVE  keyCache' \in [Issuers -> KeyCaches] /\ \A i \in Issuers : CacheIsBounded(i)'
BY DEF OidcInv, OidcTyped, CacheIsBounded

LEMMA WaitingIsSound ==
    ASSUME OidcInv, NEW x \in Exchanges, exchange[x].pc # "idle"
    PROVE  /\ exchange[x] \in Waiting /\ exchange[x].now <= oidcNow /\ exchange[x].now \in Nat
           /\ exchange[x].token \in Identities /\ exchange[x].token.iss \in Issuers
           /\ exchange[x].token.kid \in SigningKeys
           /\ exchange[x].pc = "claims" => InTime(exchange[x].token, exchange[x].now)
<1>1. exchange[x] \in Waiting BY DEF OidcInv, OidcTyped, Answers
<1>2. IsSound(exchange[x]) BY DEF OidcInv
<1>3. exchange[x].token \in Identities /\ exchange[x].now \in Nat BY <1>1 DEF Waiting
<1> QED BY <1>1, <1>2, <1>3, Constants DEF IsSound

(* A cached key that is not past its hard limit may be relied on. *)
LEMMA CachedIsInTime ==
    ASSUME OidcInv, NEW x \in Exchanges, exchange[x].pc # "idle",
           Cached(x), ~HardExpired(x) \/ exchange[x].now < keyCache[exchange[x].token.iss].fresh_until
    PROVE  InTime(exchange[x].token, exchange[x].now)
<1> PICK t : t = exchange[x].token OBVIOUS
<1> PICK when : when = exchange[x].now OBVIOUS
<1> PICK cache : cache = keyCache[t.iss] OBVIOUS
<1>1. t \in Identities /\ t.iss \in Issuers /\ t.kid \in SigningKeys /\ when \in Nat BY WaitingIsSound
<1>2. CacheIsBounded(t.iss) BY <1>1 DEF OidcInv
<1>3. t.kid \in cache.keys BY DEF Cached
<1>4. cache.fresh_until \in Int /\ cache.hard_until \in Int /\ withdrawn[t.iss][t.kid] \in Int
  BY <1>1 DEF OidcInv, OidcTyped, KeyCaches
<1>5. when < cache.hard_until
  <2>1. CASE ~HardExpired(x) BY <1>3, <1>4, <1>1, <2>1 DEF HardExpired
  <2>2. CASE when < cache.fresh_until BY <1>1, <1>2, <1>4, <2>2 DEF CacheIsBounded
  <2> QED BY <2>1, <2>2
<1> QED BY <1>1, <1>2, <1>3, <1>4, <1>5, Constants DEF CacheIsBounded, InTime

LEMMA ReceiveStep ==
    ASSUME OidcInv, NEW x \in Exchanges, NEW t \in Identities, Receive(x, t)
    PROVE  OidcInv'
<1>1. UNCHANGED <<oidcNow, published, withdrawn, keyCache, replay, minted>> BY DEF Receive
<1>2. CASE t.wellformed /\ t.iss \in Issuers
  <2> PICK r : r = [pc |-> "key", token |-> t, now |-> oidcNow] OBVIOUS
  <2>1. r \in Waiting /\ r.pc = "key" /\ r.token = t /\ r.now = oidcNow BY DEF OidcInv, OidcTyped, Waiting
  <2>2. IsSound(r) /\ r \in Answers \cup Waiting BY <1>2, <2>1 DEF IsSound, OidcInv, OidcTyped
  <2>3. exchange' = [exchange EXCEPT ![x] = r] BY <1>2 DEF Receive
  <2> QED BY <1>1, <2>2, <2>3, CacheStays, ExchangeMoves
<1>3. CASE ~(t.wellformed /\ t.iss \in Issuers)
  BY <1>1, <1>3, AnswerIsSound, CacheStays, ExchangeMoves DEF Receive, Answer
<1> QED BY <1>2, <1>3

LEMMA KeyStep ==
    ASSUME OidcInv, NEW x \in Exchanges, Key(x)
    PROVE  OidcInv'
<1>1. UNCHANGED <<oidcNow, published, withdrawn, keyCache, replay, minted>> /\ exchange[x].pc = "key" BY DEF Key
<1>2. CASE Refreshes(x)
  <2> PICK r : r = [exchange[x] EXCEPT !.pc = "discovery"] OBVIOUS
  <2>1. r \in Waiting /\ r.pc = "discovery" /\ r.token = exchange[x].token /\ r.now = exchange[x].now
    BY <1>1, WaitingIsSound DEF Waiting
  <2>2. IsSound(r) /\ r \in Answers \cup Waiting BY <1>1, <2>1, WaitingIsSound DEF IsSound
  <2>3. exchange' = [exchange EXCEPT ![x] = r] BY <1>2 DEF Key
  <2> QED BY <1>1, <2>2, <2>3, CacheStays, ExchangeMoves
<1>3. CASE ~Refreshes(x) /\ Cached(x)
  <2>1. ~HardExpired(x) \/ exchange[x].now < keyCache[exchange[x].token.iss].fresh_until
    <3>1. keyCache[exchange[x].token.iss].fresh_until \in Int /\ exchange[x].now \in Nat
      BY <1>1, WaitingIsSound DEF OidcInv, OidcTyped, KeyCaches
    <3> QED BY <1>3, <3>1 DEF Refreshes
  <2>2. InTime(exchange[x].token, exchange[x].now) BY <1>1, <1>3, <2>1, CachedIsInTime
  <2> PICK r : r = [exchange[x] EXCEPT !.pc = "claims"] OBVIOUS
  <2>3. IsSound(r) /\ r \in Answers \cup Waiting BY <1>1, <2>2, WaitingIsSound, TakesKey
  <2>4. exchange' = [exchange EXCEPT ![x] = r] BY <1>3 DEF Key
  <2> QED BY <1>1, <2>3, <2>4, CacheStays, ExchangeMoves
<1>4. CASE ~Refreshes(x) /\ ~Cached(x) BY <1>1, <1>4, AnswerIsSound, CacheStays, ExchangeMoves DEF Key, Answer
<1> QED BY <1>2, <1>3, <1>4

(* The issuer does not answer: only the next attempt is put off. *)
LEMMA RefreshFailedStep ==
    ASSUME OidcInv, NEW x \in Exchanges, NEW reason, exchange[x].pc # "idle", RefreshFailed(x, reason)
    PROVE  OidcInv'
<1> PICK issuer : issuer = exchange[x].token.iss OBVIOUS
<1> PICK later : later = exchange[x].now + MinFresh OBVIOUS
<1>1. issuer \in Issuers /\ exchange[x].now \in Nat BY WaitingIsSound
<1>2. later \in Int BY <1>1, TrustedPublishingAssumption
<1>3. UNCHANGED <<oidcNow, published, withdrawn, replay, minted>> BY DEF RefreshFailed
<1>4. keyCache' = [keyCache EXCEPT ![issuer] = [keyCache[issuer] EXCEPT !.refresh_after = later]] BY DEF RefreshFailed
<1>5. keyCache' \in [Issuers -> KeyCaches] BY <1>1, <1>2, <1>4 DEF OidcInv, OidcTyped, KeyCaches
<1>6. ASSUME NEW i \in Issuers PROVE CacheIsBounded(i)'
  <2>1. /\ keyCache'[i].keys = keyCache[i].keys /\ keyCache'[i].fresh_until = keyCache[i].fresh_until
        /\ keyCache'[i].hard_until = keyCache[i].hard_until
    BY <1>1, <1>4 DEF OidcInv, OidcTyped, KeyCaches
  <2>2. CacheIsBounded(i) BY DEF OidcInv
  <2> QED BY <1>3, <2>1, <2>2 DEF CacheIsBounded
<1>7. CASE Cached(x) /\ ~HardExpired(x)
  <2> PICK r : r = [exchange[x] EXCEPT !.pc = "claims"] OBVIOUS
  <2>1. IsSound(r) /\ r \in Answers \cup Waiting BY <1>7, WaitingIsSound, TakesKey, CachedIsInTime
  <2>2. exchange' = [exchange EXCEPT ![x] = r] BY <1>7 DEF RefreshFailed
  <2> QED BY <1>3, <1>5, <1>6, <2>1, <2>2, ExchangeMoves
<1>8. CASE ~(Cached(x) /\ ~HardExpired(x))
  BY <1>3, <1>5, <1>6, <1>8, AnswerIsSound, ExchangeMoves DEF RefreshFailed, Answer
<1> QED BY <1>7, <1>8

LEMMA FetchDiscoveryStep ==
    ASSUME OidcInv, NEW x \in Exchanges, FetchDiscovery(x)
    PROVE  OidcInv'
<1>1. exchange[x].pc = "discovery" BY DEF FetchDiscovery
<1>2. CASE RefreshFailed(x, "issuer unavailable") \/ RefreshFailed(x, "invalid issuer response")
  BY <1>1, <1>2, RefreshFailedStep
<1>3. ASSUME NEW age \in MaxAges,
             exchange' = [exchange EXCEPT ![x] = [pc |-> "jwks", token |-> @.token, now |-> @.now, age |-> age]],
             UNCHANGED <<oidcNow, published, withdrawn, keyCache, keyLock, replay, minted, exchanges>>
      PROVE  OidcInv'
  <2> PICK r : r = [pc |-> "jwks", token |-> exchange[x].token, now |-> exchange[x].now, age |-> age] OBVIOUS
  <2>1. r \in Waiting /\ r.pc = "jwks" /\ r.token = exchange[x].token /\ r.now = exchange[x].now
    BY <1>1, WaitingIsSound DEF Waiting
  <2>2. IsSound(r) /\ r \in Answers \cup Waiting BY <1>1, <2>1, WaitingIsSound DEF IsSound
  <2>3. exchange' = [exchange EXCEPT ![x] = r] BY <1>3
  <2> QED BY <1>3, <2>2, <2>3, CacheStays, ExchangeMoves
<1> QED BY <1>2, <1>3 DEF FetchDiscovery

LEMMA HangUpStep ==
    ASSUME OidcInv, NEW x \in Exchanges, HangUp(x)
    PROVE  OidcInv'
<1>1. OidcIdle \in Answers /\ IsSound(OidcIdle) BY DEF OidcIdle, Answers, IsSound, Waiting
<1> QED BY <1>1, CacheStays, ExchangeMoves DEF HangUp

LEMMA FreshForIsBounded ==
    ASSUME NEW discovery \in MaxAges, NEW jwks \in MaxAges
    PROVE  FreshFor(discovery, jwks) \in Int /\ FreshFor(discovery, jwks) <= HardCache
<1>1. /\ MinFresh \in Nat /\ DefaultFresh \in Nat /\ MaxFresh \in Nat /\ HardCache \in Nat
      /\ MinFresh <= HardCache /\ MaxFresh <= HardCache
  BY TrustedPublishingAssumption
<1>2. Age(discovery) \in Int /\ Age(jwks) \in Int BY <1>1, TrustedPublishingAssumption DEF Age, NoAge
<1> PICK shorter : shorter = Min({MaxFresh, Age(discovery), Age(jwks)}) OBVIOUS
<1>3. shorter \in Int /\ shorter <= MaxFresh BY <1>1, <1>2, MinOfThree
<1>4. Max({MinFresh, shorter}) \in {MinFresh, shorter} BY <1>1, <1>3, MaxOfTwo
<1> QED BY <1>1, <1>3, <1>4 DEF FreshFor

LEMMA FetchKeysStep ==
    ASSUME OidcInv, NEW x \in Exchanges, FetchKeys(x)
    PROVE  OidcInv'
<1> PICK issuer : issuer = exchange[x].token.iss OBVIOUS
<1> PICK when : when = exchange[x].now OBVIOUS
<1>1. exchange[x].pc = "jwks" BY DEF FetchKeys
<1>2. issuer \in Issuers /\ when \in Nat /\ when <= oidcNow BY <1>1, WaitingIsSound
<1>3. CASE RefreshFailed(x, "issuer unavailable") \/ RefreshFailed(x, "invalid issuer response")
  BY <1>1, <1>3, RefreshFailedStep
<1>4. ASSUME NEW age \in MaxAges,
             keyCache' = [keyCache EXCEPT ![issuer] =
                             [keys |-> published[issuer], fresh_until |-> when + FreshFor(exchange[x].age, age),
                              hard_until |-> when + HardCache, refresh_after |-> when + MinFresh]],
             IF exchange[x].token.kid \in published[issuer]
             THEN exchange' = [exchange EXCEPT ![x].pc = "claims"]
             ELSE Answer(x, "unknown key"),
             UNCHANGED <<oidcNow, published, withdrawn, replay, minted, exchanges>>
      PROVE  OidcInv'
  <2> PICK fresh : fresh = FreshFor(exchange[x].age, age) OBVIOUS
  <2>1. fresh \in Int /\ fresh <= HardCache
    <3>1. exchange[x].age \in MaxAges BY <1>1, WaitingIsSound DEF Waiting
    <3> QED BY <3>1, FreshForIsBounded
  <2>2. HardCache \in Nat /\ MinFresh \in Nat BY TrustedPublishingAssumption
  <2> PICK cache : cache = [keys |-> published[issuer], fresh_until |-> when + fresh,
                            hard_until |-> when + HardCache, refresh_after |-> when + MinFresh]
    OBVIOUS
  <2>3. /\ cache \in KeyCaches /\ cache.keys = published[issuer] /\ cache.fresh_until <= cache.hard_until
        /\ cache.hard_until = when + HardCache
    BY <1>2, <2>1, <2>2 DEF KeyCaches, OidcInv, OidcTyped
  <2>4. keyCache' = [keyCache EXCEPT ![issuer] = cache] BY <1>4
  <2>5. keyCache' \in [Issuers -> KeyCaches] BY <2>3, <2>4 DEF OidcInv, OidcTyped
  <2>6. ASSUME NEW i \in Issuers PROVE CacheIsBounded(i)'
    <3>1. CacheIsBounded(i) /\ oidcNow \in Nat BY DEF OidcInv, OidcTyped
    <3>2. CASE i # issuer
      <4>1. keyCache'[i] = keyCache[i] BY <2>4, <3>2 DEF OidcInv, OidcTyped
      <4> QED BY <1>4, <3>1, <4>1 DEF CacheIsBounded
    <3>3. CASE i = issuer
      <4>1. keyCache'[i] = cache BY <1>2, <2>4, <3>3 DEF OidcInv, OidcTyped
      <4>2. \A k \in SigningKeys : withdrawn[i][k] \in Int BY DEF OidcInv, OidcTyped
      <4> QED
        <5>1. /\ cache.hard_until <= oidcNow + HardCache
              /\ \A k \in cache.keys : withdrawn[i][k] < 0
          BY <1>2, <2>2, <2>3, <3>1, <3>3 DEF CacheIsBounded, OidcInv, OidcTyped
        <5>2. /\ oidcNow' = oidcNow /\ published' = published /\ withdrawn' = withdrawn BY <1>4
        <5> QED BY <2>3, <3>1, <4>1, <4>2, <5>1, <5>2 DEF CacheIsBounded
    <3> QED BY <3>2, <3>3
  <2>7. CASE exchange[x].token.kid \in published[issuer]
    <3>1. InTime(exchange[x].token, exchange[x].now)
      <4>1. CacheIsBounded(issuer) /\ exchange[x].token.kid \in SigningKeys BY <1>1, <1>2, WaitingIsSound DEF OidcInv
      <4>2. withdrawn[issuer][exchange[x].token.kid] \in Int BY <1>2, <4>1 DEF OidcInv, OidcTyped
      <4> QED BY <2>7, <4>1, <4>2 DEF CacheIsBounded, InTime
    <3> PICK r : r = [exchange[x] EXCEPT !.pc = "claims"] OBVIOUS
    <3>2. IsSound(r) /\ r \in Answers \cup Waiting BY <1>1, <3>1, WaitingIsSound, TakesKey
    <3>3. exchange' = [exchange EXCEPT ![x] = r] BY <1>4, <2>7
    <3> QED BY <1>4, <2>5, <2>6, <3>2, <3>3, ExchangeMoves
  <2>8. CASE exchange[x].token.kid \notin published[issuer]
    BY <1>4, <2>5, <2>6, <2>8, AnswerIsSound, ExchangeMoves DEF Answer
  <2> QED BY <2>7, <2>8
<1> QED BY <1>3, <1>4 DEF FetchKeys

--------------------------------
(* The verdict. *)

(* A step that ends an exchange with its verdict. *)
LEMMA VerdictMoves ==
    ASSUME OidcInv, NEW x \in Exchanges, NEW r \in Answers, exchange' = [exchange EXCEPT ![x] = r],
           UNCHANGED <<oidcNow, published, withdrawn, keyCache>>,
           \A k \in DOMAIN replay' : replay'[k] \in Int,
           \A m \in minted' : MintedIsSound(m)', OnePerIdentity'
    PROVE  OidcInv'
<1>1. OidcTyped' BY DEF OidcInv, OidcTyped
<1>2. ASSUME NEW y \in Exchanges PROVE IsSound(exchange[y])'
  <2>1. exchange'[y] = IF y = x THEN r ELSE exchange[y] BY DEF OidcInv, OidcTyped
  <2>2. IsSound(exchange[y]) /\ IsSound(r) BY DEF OidcInv, IsSound, Answers, Waiting
  <2> QED BY <2>1, <2>2 DEF IsSound, InTime
<1> QED BY <1>1, <1>2, CacheStays DEF OidcInv

(* What still counts is retained, even by an exchange whose time is old. *)
LEMMA RetainedCounts ==
    ASSUME OidcInv, NEW when \in Nat, when <= oidcNow, NEW m \in minted, oidcNow < m.exp
    PROVE  Bought(m) \in Retained(when) /\ m.exp <= replay[Bought(m)]
<1>1. MintedIsSound(m) /\ oidcNow \in Nat BY DEF OidcInv, OidcTyped
<1>2. Bought(m) \in DOMAIN replay /\ m.exp <= replay[Bought(m)] /\ m.exp \in Int BY <1>1 DEF MintedIsSound
<1> PICK expiry : expiry = replay[Bought(m)] OBVIOUS
<1>3. expiry \in Int BY <1>2 DEF OidcInv, OidcTyped
<1>4. expiry > when BY <1>1, <1>2, <1>3
<1> QED BY <1>2, <1>4 DEF Retained

(* The rule that accepted an identity is the one its grants come from. *)
LEMMA GrantsComeFromRule ==
    ASSUME NEW t, NEW when, NEW rule, rule = AuthorizePublishIndex(t, when), rule.ok,
           NEW id, id = Publishers[rule.position].id
    PROVE  RuleNamed(id) = Publishers[rule.position]
<1>1. Accepting(t, when) # {}
  <2> SUFFICES ASSUME Accepting(t, when) = {} PROVE rule.ok = FALSE OBVIOUS
  <2> QED BY Zenon DEF AuthorizePublishIndex
<1>2. rule.position = Min(Accepting(t, when)) BY <1>1 DEF AuthorizePublishIndex
<1>3. rule.position \in DOMAIN Publishers
  <2>1. Accepting(t, when) \in SUBSET Nat /\ Accepting(t, when) \subseteq DOMAIN Publishers
    BY TrustedPublishingAssumption DEF Accepting
  <2> QED BY <1>1, <1>2, <2>1, FirstPosition
<1>4. \A i, j \in DOMAIN Publishers : Publishers[i].id = Publishers[j].id => i = j BY TrustedPublishingAssumption
<1> QED BY <1>3, <1>4 DEF RuleNamed

LEMMA FinishStep ==
    ASSUME OidcInv, NEW x \in Exchanges, Finish(x)
    PROVE  OidcInv'
<1> PICK t : t = exchange[x].token OBVIOUS
<1> PICK when : when = exchange[x].now OBVIOUS
<1> PICK rule : rule = AuthorizePublishIndex(t, when) OBVIOUS
<1> PICK taken : taken = ConsumeReplay(t, when) OBVIOUS
<1> PICK kept : kept = [k \in Retained(when) |-> replay[k]] OBVIOUS
<1> PICK key : key = <<t.iss, t.jti>> OBVIOUS
<1>1. exchange[x].pc = "claims" /\ UNCHANGED <<oidcNow, published, withdrawn, keyCache, keyLock, exchanges>>
  BY DEF Finish
<1>2. /\ t \in Identities /\ t.iss \in Issuers /\ when \in Nat /\ when <= oidcNow /\ InTime(t, when)
      /\ t.exp \in Int
  BY <1>1, WaitingIsSound, Constants
<1>3. DOMAIN kept = Retained(when) /\ \A k \in Retained(when) : kept[k] = replay[k] /\ replay[k] \in Int
  BY DEF OidcInv, OidcTyped, Retained
<1>4. ASSUME NEW reason, Answer(x, reason), UNCHANGED <<replay, minted>>
      PROVE  OidcInv'
  BY <1>1, <1>4, AnswerIsSound, CacheStays, ExchangeMoves DEF Answer
<1>5. ASSUME NEW reason, Answer(x, reason), replay' = kept, UNCHANGED minted
      PROVE  OidcInv'
  <2>1. ASSUME NEW m \in minted PROVE MintedIsSound(m)'
    <3>1. MintedIsSound(m) BY DEF OidcInv
    <3>2. oidcNow < m.exp => Bought(m) \in DOMAIN replay' /\ m.exp <= replay'[Bought(m)]
      BY <1>2, <1>3, <1>5, RetainedCounts
    <3> QED BY <1>1, <3>1, <3>2 DEF MintedIsSound, InTime, Bought
  <2>2. OnePerIdentity' BY <1>1, <1>5 DEF OidcInv, OnePerIdentity
  <2> QED BY <1>1, <1>3, <1>5, <2>1, <2>2, AnswerIsSound, VerdictMoves DEF Answer
<1>6. ASSUME rule.ok, taken = "none",
             replay' = [k \in DOMAIN kept \cup {key} |-> IF k = key THEN t.exp ELSE kept[k]],
             minted' = minted \cup {MintTrusted(t, when, rule.position)},
             exchange' = [exchange EXCEPT ![x] = OidcIdle]
      PROVE  OidcInv'
  <2> PICK new : new = MintTrusted(t, when, rule.position) OBVIOUS
  <2>1. /\ new.identity = t /\ new.kid = t.kid /\ new.iat = when /\ new.exp = when + Min({TokenTtl, t.exp - when})
        /\ new.publisher = Publishers[rule.position].id /\ new.grants = QualifyGrants(Publishers[rule.position])
    BY DEF MintTrusted
  <2>2. new.exp \in Int /\ new.exp <= t.exp
    <3> PICK left : left = t.exp - when OBVIOUS
    <3>1. left \in Int /\ TokenTtl \in Int BY <1>2, Constants
    <3> PICK least : least = Min({TokenTtl, left}) OBVIOUS
    <3>2. least \in Int /\ least <= left BY <3>1, MinOfTwo
    <3> QED BY <1>2, <2>1, <3>2
  <2>3. key \notin Retained(when) BY <1>6 DEF ConsumeReplay
  <2>4. /\ key \in DOMAIN replay' /\ replay'[key] = t.exp
        /\ \A k \in Retained(when) : k \in DOMAIN replay' /\ replay'[k] = replay[k]
        /\ \A k \in DOMAIN replay' : replay'[k] \in Int
    BY <1>2, <1>3, <1>6, <2>3
  <2>5. ASSUME NEW m \in minted, oidcNow < m.exp PROVE Bought(m) # key BY <1>2, <2>3, <2>5, RetainedCounts
  <2>6. ASSUME NEW m \in minted PROVE MintedIsSound(m)'
    <3>1. MintedIsSound(m) BY DEF OidcInv
    <3>2. oidcNow < m.exp => Bought(m) \in DOMAIN replay' /\ m.exp <= replay'[Bought(m)] BY <1>2, <2>4, RetainedCounts
    <3> QED BY <1>1, <3>1, <3>2 DEF MintedIsSound, InTime, Bought
  <2>7. Bought(new) = key BY <2>1 DEF Bought
  <2>8. MintedIsSound(new)'
    <3>1. new.grants = QualifyGrants(RuleNamed(new.publisher))
      <4> PICK id : id = new.publisher OBVIOUS
      <4>1. rule.ok BY <1>6
      <4>2. id = Publishers[rule.position].id BY <2>1
      <4>3. RuleNamed(id) = Publishers[rule.position] BY <4>1, <4>2, GrantsComeFromRule
      <4> QED BY <2>1, <4>3
    <3>2. InTime(new.identity, new.iat)' BY <1>1, <1>2, <2>1 DEF InTime
    <3> QED BY <1>1, <1>2, <2>1, <2>2, <2>4, <2>7, <3>1, <3>2 DEF MintedIsSound, Bought
  <2>9. OnePerIdentity'
    <3>1. minted' = minted \cup {new} BY <1>6
    <3>2. \A m, n \in minted : oidcNow < m.exp /\ oidcNow < n.exp /\ Bought(m) = Bought(n) => m = n
      BY DEF OidcInv, OnePerIdentity
    <3>3. \A m \in minted : oidcNow < m.exp => Bought(m) # Bought(new) BY <2>5, <2>7
    <3>4. oidcNow' = oidcNow BY <1>1
    <3> QED BY <3>1, <3>2, <3>3, <3>4 DEF OnePerIdentity, Bought
  <2>10. OidcIdle \in Answers BY DEF OidcIdle, Answers
  <2> QED BY <1>1, <1>6, <2>4, <2>6, <2>8, <2>9, <2>10, VerdictMoves
<1>7. \/ ~ClaimsHold(t, when) /\ Answer(x, "invalid identity") /\ UNCHANGED <<replay, minted>>
      \/ ~rule.ok /\ Answer(x, rule.reason) /\ UNCHANGED <<replay, minted>>
      \/ Answer(x, taken) /\ replay' = kept /\ UNCHANGED minted
      \/ /\ rule.ok /\ taken = "none"
         /\ replay' = [k \in DOMAIN kept \cup {key} |-> IF k = key THEN t.exp ELSE kept[k]]
         /\ minted' = minted \cup {MintTrusted(t, when, rule.position)}
         /\ exchange' = [exchange EXCEPT ![x] = OidcIdle]
  BY DEF Finish
<1> QED BY <1>4, <1>5, <1>6, <1>7

--------------------------------
(* Around the exchanges. *)

LEMMA WithdrawStep ==
    ASSUME OidcInv, NEW i \in Issuers, NEW k \in SigningKeys, Withdraw(i, k)
    PROVE  OidcInv'
<1>1. /\ k \in published[i] /\ published' = [published EXCEPT ![i] = published[i] \ {k}]
      /\ withdrawn' = [withdrawn EXCEPT ![i][k] = oidcNow]
      /\ UNCHANGED <<oidcNow, keyCache, keyLock, exchange, replay, minted, exchanges>>
  BY DEF Withdraw
<1>2. OidcTyped BY DEF OidcInv
<1>3. \A j \in Issuers, l \in SigningKeys :
         withdrawn'[j][l] = IF j = i /\ l = k THEN oidcNow ELSE withdrawn[j][l]
  BY <1>1, <1>2 DEF OidcTyped
<1>4. oidcNow \in Nat /\ \A j \in Issuers, l \in SigningKeys : withdrawn[j][l] \in Int BY <1>2 DEF OidcTyped
<1>5. OidcTyped' BY <1>1, <1>2 DEF OidcTyped
<1>6. ASSUME NEW j \in Issuers PROVE CacheIsBounded(j)'
  <2>1. CacheIsBounded(j) /\ keyCache[j].hard_until \in Int BY <1>2 DEF OidcInv, OidcTyped, KeyCaches
  <2>2. \A l \in SigningKeys : l \in published'[j] <=> l \in published[j] /\ ~(j = i /\ l = k)
    BY <1>1, <1>2 DEF OidcTyped
  <2> QED BY <1>1, <1>3, <1>4, <2>1, <2>2, Constants DEF CacheIsBounded
<1>7. ASSUME NEW t \in Identities, t.iss \in Issuers, NEW when \in Nat, when <= oidcNow, InTime(t, when)
      PROVE  InTime(t, when)'
  BY <1>3, <1>4, <1>7, Constants DEF InTime
<1>8. ASSUME NEW x \in Exchanges PROVE IsSound(exchange[x])'
  <2>1. IsSound(exchange[x]) BY DEF OidcInv
  <2>2. exchange[x] \in Waiting => exchange[x].token \in Identities /\ exchange[x].now \in Nat BY DEF Waiting
  <2> QED BY <1>1, <1>7, <2>1, <2>2 DEF IsSound
<1>9. ASSUME NEW m \in minted PROVE MintedIsSound(m)'
  <2>1. MintedIsSound(m) BY DEF OidcInv
  <2> QED BY <1>1, <1>7, <2>1 DEF MintedIsSound, Bought
<1> QED BY <1>1, <1>5, <1>6, <1>8, <1>9 DEF OidcInv, OnePerIdentity

LEMMA TickStep ==
    ASSUME OidcInv, OidcTick
    PROVE  OidcInv'
<1>1. oidcNow' = oidcNow + 1 /\ UNCHANGED <<published, withdrawn, keyCache, keyLock, exchange, replay, minted, exchanges>>
  BY DEF OidcTick
<1>2. OidcTyped /\ oidcNow \in Nat BY DEF OidcInv, OidcTyped
<1>3. OidcTyped' BY <1>1, <1>2 DEF OidcTyped
<1>4. ASSUME NEW i \in Issuers PROVE CacheIsBounded(i)'
  <2>1. CacheIsBounded(i) /\ keyCache[i].hard_until \in Int /\ \A k \in SigningKeys : withdrawn[i][k] \in Int
    BY <1>2 DEF OidcInv, OidcTyped, KeyCaches
  <2> QED BY <1>1, <1>2, <2>1, Constants DEF CacheIsBounded
<1>5. ASSUME NEW x \in Exchanges PROVE IsSound(exchange[x])'
  <2>1. IsSound(exchange[x]) BY DEF OidcInv
  <2>2. exchange[x] \in Waiting => exchange[x].now \in Nat BY DEF Waiting
  <2> QED BY <1>1, <1>2, <2>1, <2>2 DEF IsSound, InTime
<1>6. ASSUME NEW m \in minted PROVE MintedIsSound(m)'
  <2>1. MintedIsSound(m) BY DEF OidcInv
  <2> QED BY <1>1, <1>2, <2>1 DEF MintedIsSound, InTime, Bought
<1>7. OnePerIdentity'
  <2>1. \A m \in minted : m.exp \in Int BY DEF OidcInv, MintedIsSound
  <2> QED BY <1>1, <1>2, <2>1 DEF OidcInv, OnePerIdentity
<1> QED BY <1>1, <1>3, <1>4, <1>5, <1>6, <1>7 DEF OidcInv

--------------------------------
(* The theorem. *)

LEMMA OidcInvStep == OidcInv /\ [OidcNext]_oidcVars => OidcInv'
<1> SUFFICES ASSUME OidcInv, [OidcNext]_oidcVars PROVE OidcInv' OBVIOUS
<1>1. CASE UNCHANGED oidcVars
  BY <1>1 DEF oidcVars, OidcInv, OidcTyped, CacheIsBounded, IsSound, InTime, MintedIsSound, OnePerIdentity, Bought
<1>2. CASE OidcNext
  BY <1>2, ReceiveStep, KeyStep, FetchDiscoveryStep, FetchKeysStep, FinishStep, HangUpStep, WithdrawStep, TickStep
     DEF OidcNext
<1> QED BY <1>1, <1>2

(* oidc.rs exchange: whatever the exchanges, the issuers and the clients do, in one process an identity buys one *)
(* upload token at a time that anyone accepts, the token ends with the identity, and a withdrawn key is good for *)
(* HARD_CACHE_SECS at most, although an exchange works with the time it was received at.                         *)
THEOREM TrustStaysBounded == OidcSpec => []TrustIsBounded
<1>1. OidcInit => OidcInv BY OidcInvInit
<1>2. OidcInv /\ [OidcNext]_oidcVars => OidcInv' BY OidcInvStep
<1>3. OidcInv => TrustIsBounded BY OidcInvBounds
<1> QED BY <1>1, <1>2, <1>3, PTL DEF OidcSpec

--------------------------------
(* The inductive invariant of UserAccounts. *)

UserStates == {"active", "disabled"}
User == [name : DisplayNames, state : UserStates, revision : Nat]
AccountEvent ==
    ([kind : {"created"}, display : DisplayNames]
     \cup [kind : {"renamed"}, previous : DisplayNames, display : DisplayNames])
    \cup [kind : {"disabled", "reactivated"}]
Verifier == [password : Passwords, cost : Costs]
LoginState ==
    ([pc : {"idle", "unknown", "decoy", "orphan", "accepted", "rejected"}]
     \cup [pc : {"verifier", "stale", "rehashing"}, password : Passwords, user : Nat])
    \cup [pc : {"waiting", "checking"}, password : Passwords, user : Nat, verifier : Verifier]
EnrolState == {LoggedOut} \cup [pc : {"waiting", "hashing"}, user : Nat, password : Passwords]

(* The sequences of accounts and events are typed and as long as each other. *)
UsersTyped ==
    /\ users \in Seq(User) /\ userEvents \in Seq(Seq(AccountEvent))
    /\ Len(userEvents) = Len(users)

(* The name index is a bijection onto the accounts. *)
NamesIndexed ==
    /\ DOMAIN names = {Canonical[users[i].name] : i \in DOMAIN users}
    /\ \A i \in DOMAIN users : names[Canonical[users[i].name]] = i

HistoryRetold == \A i \in DOMAIN users : Retold(users[i], userEvents[i])

(* Passwords and roles are of accounts that exist. *)
CredentialsOwned ==
    /\ DOMAIN verifiers \subseteq DOMAIN users
    /\ \A i \in DOMAIN verifiers : verifiers[i] \in Verifier
    /\ roleGrants \subseteq [user : DOMAIN users, role : Roles, scope : GrantScopes]
    /\ policy \in Costs

(* Calls that carry an account carry one that exists. *)
LoginsTyped ==
    /\ login \in [Logins -> LoginState]
    /\ \A l \in Logins : login[l].pc \in {"verifier", "stale", "rehashing", "waiting", "checking"}
                           => login[l].user \in DOMAIN users
EnrolmentsTyped ==
    /\ enroll \in [Operators -> EnrolState]
    /\ \A o \in Operators : enroll[o].pc \in {"waiting", "hashing"} => enroll[o].user \in DOMAIN users

PermitsHeld == Cardinality(Deriving) <= MaxPasswordChecks

UserInv ==
    /\ UsersTyped /\ NamesIndexed /\ HistoryRetold
    /\ CredentialsOwned /\ LoginsTyped /\ EnrolmentsTyped /\ PermitsHeld

--------------------------------
(* What the events of an account tell. *)

LEMMA RetoldByName ==
    ASSUME NEW user \in User, NEW events \in Seq(AccountEvent), Retold(user, events),
           NEW name \in DisplayNames, NEW e \in AccountEvent, e.kind = "renamed", e.display = name
    PROVE  Retold([name |-> name, state |-> user.state, revision |-> user.revision + 1], Append(events, e))
<1> DEFINE more == Append(events, e)  new == [name |-> name, state |-> user.state, revision |-> user.revision + 1]
<1>1. /\ more \in Seq(AccountEvent) /\ Len(more) = Len(events) + 1
      /\ more[Len(events) + 1] = e /\ \A i \in 1..Len(events) : more[i] = events[i]
      /\ Len(events) \in Nat
  BY AppendProperties, LenProperties
<1>2. DOMAIN more = 1..(Len(events) + 1) /\ DOMAIN events = 1..Len(events) BY <1>1, LenProperties
<1>3. new.name = name /\ new.revision = user.revision + 1 /\ new.state = user.state BY DEF User
<1>4. new.revision = Len(more) BY <1>1, <1>3 DEF Retold
<1>5. \E i \in DOMAIN more : /\ more[i].kind \in Naming /\ more[i].display = new.name
                             /\ \A j \in (i + 1)..Len(more) : more[j].kind \notin Naming
  <2>1. Len(events) + 1 \in DOMAIN more /\ (Len(events) + 1 + 1)..Len(more) = {} BY <1>1, <1>2
  <2> QED BY <2>1, <1>1, <1>3 DEF Naming
<1>6. (\E i \in DOMAIN more : more[i].kind = "disabled" /\ \A j \in (i + 1)..Len(more) : more[j].kind # "reactivated")
      <=> (\E i \in DOMAIN events : events[i].kind = "disabled" /\ \A j \in (i + 1)..Len(events) : events[j].kind # "reactivated")
  <2>1. ASSUME NEW i \in DOMAIN more, more[i].kind = "disabled", \A j \in (i + 1)..Len(more) : more[j].kind # "reactivated"
        PROVE  i \in DOMAIN events /\ events[i].kind = "disabled" /\ \A j \in (i + 1)..Len(events) : events[j].kind # "reactivated"
    BY <2>1, <1>1, <1>2
  <2>2. ASSUME NEW i \in DOMAIN events, events[i].kind = "disabled", \A j \in (i + 1)..Len(events) : events[j].kind # "reactivated"
        PROVE  i \in DOMAIN more /\ more[i].kind = "disabled" /\ \A j \in (i + 1)..Len(more) : more[j].kind # "reactivated"
    <3>1. \A j \in (i + 1)..Len(more) : j \in (i + 1)..Len(events) \/ j = Len(events) + 1 BY <1>1, <1>2
    <3>2. \A j \in (i + 1)..Len(events) : more[j] = events[j] BY <1>1, <1>2
    <3> QED BY <2>2, <1>1, <1>2, <3>1, <3>2
  <2> QED BY <2>1, <2>2
<1> QED BY <1>3, <1>4, <1>5, <1>6 DEF Retold

LEMMA RetoldByState ==
    ASSUME NEW user \in User, NEW events \in Seq(AccountEvent), Retold(user, events),
           NEW state \in UserStates, NEW e \in AccountEvent,
           e.kind = IF state = "active" THEN "reactivated" ELSE "disabled"
    PROVE  Retold([name |-> user.name, state |-> state, revision |-> user.revision + 1], Append(events, e))
<1> DEFINE more == Append(events, e)  new == [name |-> user.name, state |-> state, revision |-> user.revision + 1]
<1>1. /\ more \in Seq(AccountEvent) /\ Len(more) = Len(events) + 1
      /\ more[Len(events) + 1] = e /\ \A i \in 1..Len(events) : more[i] = events[i]
      /\ Len(events) \in Nat
  BY AppendProperties, LenProperties
<1>2. DOMAIN more = 1..(Len(events) + 1) /\ DOMAIN events = 1..Len(events) BY <1>1, LenProperties
<1>3. new.name = user.name /\ new.revision = user.revision + 1 /\ new.state = state BY DEF User
<1>4. new.revision = Len(more) BY <1>1, <1>3 DEF Retold
<1>5. \E i \in DOMAIN more : /\ more[i].kind \in Naming /\ more[i].display = new.name
                             /\ \A j \in (i + 1)..Len(more) : more[j].kind \notin Naming
  <2>1. PICK i \in DOMAIN events : /\ events[i].kind \in Naming /\ events[i].display = user.name
                                   /\ \A j \in (i + 1)..Len(events) : events[j].kind \notin Naming
    BY DEF Retold
  <2>2. \A j \in (i + 1)..Len(more) : j \in (i + 1)..Len(events) \/ j = Len(events) + 1 BY <1>1, <1>2
  <2>3. \A j \in (i + 1)..Len(events) : more[j] = events[j] BY <1>1, <1>2
  <2>4. more[Len(events) + 1].kind \notin Naming BY <1>1 DEF Naming
  <2>5. \A j \in (i + 1)..Len(more) : more[j].kind \notin Naming BY <2>1, <2>2, <2>3, <2>4
  <2>6. i \in DOMAIN more /\ more[i] = events[i] BY <1>1, <1>2
  <2> QED BY <2>1, <2>5, <2>6, <1>3
<1>6. new.state = "disabled" <=>
        \E i \in DOMAIN more : more[i].kind = "disabled" /\ \A j \in (i + 1)..Len(more) : more[j].kind # "reactivated"
  <2>1. CASE state = "disabled"
    <3>1. Len(events) + 1 \in DOMAIN more /\ (Len(events) + 1 + 1)..Len(more) = {} BY <1>1, <1>2
    <3> QED BY <2>1, <3>1, <1>1, <1>3
  <2>2. CASE state = "active"
    <3>1. ASSUME NEW i \in DOMAIN more, more[i].kind = "disabled",
                 \A j \in (i + 1)..Len(more) : more[j].kind # "reactivated"
          PROVE  FALSE
      <4>1. i # Len(events) + 1 BY <3>1, <2>2, <1>1
      <4>2. Len(events) + 1 \in (i + 1)..Len(more) BY <4>1, <1>1, <1>2
      <4> QED BY <3>1, <4>2, <2>2, <1>1
    <3> QED BY <3>1, <2>2, <1>3
  <2> QED BY <2>1, <2>2 DEF UserStates
<1> QED BY <1>4, <1>5, <1>6 DEF Retold

LEMMA RetoldAtFirst ==
    ASSUME NEW user \in User, user.state = "active", user.revision = 1,
           NEW e \in AccountEvent, e.kind = "created", e.display = user.name
    PROVE  Retold(user, <<e>>)
<1>1. Len(<<e>>) = 1 /\ DOMAIN <<e>> = 1..1 /\ <<e>>[1] = e /\ (1 + 1)..1 = {} OBVIOUS
<1>2. \A i \in DOMAIN <<e>> : i = 1 BY <1>1
<1> QED BY <1>1, <1>2 DEF Retold, Naming

--------------------------------
(* The account store. *)

LEMMA AccountsOf ==
    ASSUME UsersTyped
    PROVE  /\ Len(users) \in Nat /\ DOMAIN users = 1..Len(users) /\ DOMAIN userEvents = DOMAIN users
           /\ \A i \in DOMAIN users : users[i] \in User /\ userEvents[i] \in Seq(AccountEvent)
BY LenProperties, ElementOfSeq DEF UsersTyped

(* A change of one account with the event that tells it. *)
LEMMA ChangeKeeps ==
    ASSUME UsersTyped, HistoryRetold, NEW id \in DOMAIN users, NEW user \in User, NEW change \in AccountEvent,
           Change(id, user, change), Retold(user, Append(userEvents[id], change))
    PROVE  /\ UsersTyped' /\ HistoryRetold' /\ DOMAIN users' = DOMAIN users
           /\ \A i \in DOMAIN users : users'[i] = IF i = id THEN user ELSE users[i]
<1> DEFINE more == Append(userEvents[id], change)
<1>1. /\ Len(users) \in Nat /\ DOMAIN users = 1..Len(users) /\ DOMAIN userEvents = DOMAIN users
      /\ userEvents[id] \in Seq(AccountEvent)
  BY AccountsOf
<1>2. more \in Seq(AccountEvent) BY <1>1, AppendProperties
<1>3. users' = [users EXCEPT ![id] = user] /\ userEvents' = [userEvents EXCEPT ![id] = more] BY DEF Change
<1>4. users' \in Seq(User) /\ Len(users') = Len(users) /\ userEvents' \in Seq(Seq(AccountEvent))
      /\ Len(userEvents') = Len(userEvents)
  BY <1>1, <1>2, <1>3, ExceptSeq DEF UsersTyped
<1>5. UsersTyped' BY <1>4 DEF UsersTyped
<1>6. DOMAIN users' = DOMAIN users /\ \A i \in DOMAIN users : users'[i] = IF i = id THEN user ELSE users[i] BY <1>3
<1>7. \A i \in DOMAIN users : userEvents'[i] = IF i = id THEN more ELSE userEvents[i] BY <1>3, <1>1
<1>8. HistoryRetold' BY <1>6, <1>7 DEF HistoryRetold
<1> QED BY <1>5, <1>6, <1>8

(* What refers to accounts keeps referring to them as long as none goes away. *)
LEMMA ReferencesKept ==
    ASSUME CredentialsOwned, LoginsTyped, EnrolmentsTyped, PermitsHeld, DOMAIN users \subseteq DOMAIN users',
           UNCHANGED <<verifiers, roleGrants, policy, login, enroll>>
    PROVE  CredentialsOwned' /\ LoginsTyped' /\ EnrolmentsTyped' /\ PermitsHeld'
<1>1. CredentialsOwned'
  <2>1. [user : DOMAIN users, role : Roles, scope : GrantScopes]
          \subseteq [user : DOMAIN users', role : Roles, scope : GrantScopes]
    OBVIOUS
  <2> QED BY <2>1 DEF CredentialsOwned
<1>2. LoginsTyped' /\ EnrolmentsTyped' BY DEF LoginsTyped, EnrolmentsTyped
<1>3. PermitsHeld' BY DEF PermitsHeld, Deriving
<1> QED BY <1>1, <1>2, <1>3

LEMMA CreateUserStep ==
    ASSUME UserInv, NEW display \in DisplayNames, CreateUser(display)
    PROVE  UserInv'
<1> DEFINE id == Len(users) + 1
           user == [name |-> display, state |-> "active", revision |-> 1]
           created == [kind |-> "created", display |-> display]
<1>1. /\ Canonical[display] \notin DOMAIN names
      /\ users' = Append(users, user) /\ userEvents' = Append(userEvents, <<created>>)
      /\ names' = With(names, Canonical[display], id)
      /\ UNCHANGED <<verifiers, roleGrants, policy, login, enroll>>
  BY DEF CreateUser
<1>2. user \in User /\ created \in AccountEvent /\ <<created>> \in Seq(AccountEvent)
  BY DEF User, UserStates, AccountEvent
<1>3. /\ Len(users) \in Nat /\ DOMAIN users = 1..Len(users) /\ DOMAIN userEvents = DOMAIN users
      /\ \A i \in DOMAIN users : users[i] \in User /\ userEvents[i] \in Seq(AccountEvent)
  BY AccountsOf DEF UserInv
<1>4. /\ users' \in Seq(User) /\ Len(users') = id /\ users'[id] = user
      /\ \A i \in DOMAIN users : users'[i] = users[i]
  BY <1>1, <1>2, <1>3, AppendProperties DEF UserInv, UsersTyped
<1>5. /\ userEvents' \in Seq(Seq(AccountEvent)) /\ Len(userEvents') = id /\ userEvents'[id] = <<created>>
      /\ \A i \in DOMAIN users : userEvents'[i] = userEvents[i]
  BY <1>1, <1>2, <1>3, AppendProperties DEF UserInv, UsersTyped
<1>6. DOMAIN users' = DOMAIN users \cup {id} /\ id \notin DOMAIN users BY <1>3, <1>4, LenProperties
<1>7. UsersTyped' BY <1>4, <1>5 DEF UsersTyped
<1>8. NamesIndexed'
  <2>1. DOMAIN names' = DOMAIN names \cup {Canonical[display]} /\ names'[Canonical[display]] = id
        /\ \A n \in DOMAIN names : n # Canonical[display] => names'[n] = names[n]
    BY <1>1 DEF With
  <2>2. \A i \in DOMAIN users : Canonical[users[i].name] \in DOMAIN names BY DEF UserInv, NamesIndexed
  <2>3. \A i \in DOMAIN users' : names'[Canonical[users'[i].name]] = i
    <3>1. \A i \in DOMAIN users : names'[Canonical[users'[i].name]] = i
      BY <1>1, <1>4, <2>1, <2>2 DEF UserInv, NamesIndexed
    <3>2. Canonical[users'[id].name] = Canonical[display] BY <1>4
    <3> QED BY <1>6, <2>1, <3>1, <3>2
  <2>4. DOMAIN names' = {Canonical[users'[i].name] : i \in DOMAIN users'}
    <3>1. DOMAIN names = {Canonical[users'[i].name] : i \in DOMAIN users} BY <1>4 DEF UserInv, NamesIndexed
    <3>2. Canonical[users'[id].name] = Canonical[display] BY <1>4
    <3> QED BY <1>6, <2>1, <3>1, <3>2
  <2> QED BY <2>3, <2>4 DEF NamesIndexed
<1>9. HistoryRetold'
  <2>1. Retold(user, <<created>>) BY <1>2, RetoldAtFirst
  <2>2. \A i \in DOMAIN users : Retold(users'[i], userEvents'[i]) BY <1>4, <1>5 DEF UserInv, HistoryRetold
  <2> QED BY <1>4, <1>5, <1>6, <2>1, <2>2 DEF HistoryRetold
<1>10. CredentialsOwned' /\ LoginsTyped' /\ EnrolmentsTyped' /\ PermitsHeld' BY <1>1, <1>6, ReferencesKept DEF UserInv
<1> QED BY <1>7, <1>8, <1>9, <1>10 DEF UserInv

LEMMA RenameUserStep ==
    ASSUME UserInv, UserAccountsAssumption, NEW id \in DOMAIN users, NEW display \in DisplayNames,
           RenameUser(id, display)
    PROVE  UserInv'
<1> DEFINE user == [name |-> display, state |-> users[id].state, revision |-> users[id].revision + 1]
           change == [kind |-> "renamed", previous |-> users[id].name, display |-> display]
           old == Canonical[users[id].name]
           new == Canonical[display]
<1>1. users[id] \in User /\ userEvents[id] \in Seq(AccountEvent) BY AccountsOf DEF UserInv
<1>2. user \in User /\ change \in AccountEvent /\ user.name = display
  <2>1. user \in User /\ user.name = display BY <1>1 DEF User
  <2>2. users[id].name \in DisplayNames BY <1>1 DEF User
  <2> QED BY <2>1, <2>2 DEF AccountEvent
<1>3. Change(id, user, change) /\ UNCHANGED <<verifiers, roleGrants, policy, login, enroll>> BY DEF RenameUser
<1>4. Retold(user, Append(userEvents[id], change)) BY <1>1, <1>2, RetoldByName DEF UserInv, HistoryRetold
<1>5. /\ UsersTyped' /\ HistoryRetold' /\ DOMAIN users' = DOMAIN users
      /\ \A i \in DOMAIN users : users'[i] = IF i = id THEN user ELSE users[i]
  BY <1>2, <1>3, <1>4, ChangeKeeps DEF UserInv
<1>6. \A i \in DOMAIN users : Canonical[users'[i].name] = IF i = id THEN new ELSE Canonical[users[i].name] BY <1>2, <1>5
<1>7. \A i \in DOMAIN users : i # id => Canonical[users[i].name] # old BY DEF UserInv, NamesIndexed
<1>8. NamesIndexed'
  <2>1. CASE old = new
    <3>1. names' = names BY <2>1 DEF RenameUser
    <3>2. \A i \in DOMAIN users : Canonical[users'[i].name] = Canonical[users[i].name] BY <1>6, <2>1
    <3> QED BY <3>1, <3>2, <1>5 DEF UserInv, NamesIndexed
  <2>2. CASE old # new
    <3>1. new \notin DOMAIN names /\ names' = With(Without(names, old), new, id) BY <2>2 DEF RenameUser
    <3>2. /\ DOMAIN names' = (DOMAIN names \ {old}) \cup {new} /\ names'[new] = id
          /\ \A n \in DOMAIN names \ {old} : n # new => names'[n] = names[n]
      BY <3>1 DEF With, Without
    <3>3. \A i \in DOMAIN users : Canonical[users[i].name] \in DOMAIN names /\ Canonical[users[i].name] # new
      BY <3>1 DEF UserInv, NamesIndexed
    <3>4. \A i \in DOMAIN users' : names'[Canonical[users'[i].name]] = i
      BY <1>5, <1>6, <1>7, <3>2, <3>3 DEF UserInv, NamesIndexed
    <3>5. ASSUME NEW n \in DOMAIN names'
          PROVE  \E i \in DOMAIN users' : n = Canonical[users'[i].name]
      <4>1. CASE n = new BY <4>1, <1>5, <1>6
      <4>2. CASE n # new
        <5>1. n \in DOMAIN names /\ n # old BY <4>2, <3>2
        <5>2. PICK i \in DOMAIN users : n = Canonical[users[i].name] BY <5>1 DEF UserInv, NamesIndexed
        <5> QED BY <5>1, <5>2, <1>5, <1>6
      <4> QED BY <4>1, <4>2
    <3>6. ASSUME NEW i \in DOMAIN users'
          PROVE  Canonical[users'[i].name] \in DOMAIN names'
      BY <1>5, <1>6, <1>7, <3>2, <3>3
    <3>7. DOMAIN names' = {Canonical[users'[i].name] : i \in DOMAIN users'} BY <3>5, <3>6
    <3> QED BY <3>4, <3>7 DEF NamesIndexed
  <2> QED BY <2>1, <2>2
<1>9. CredentialsOwned' /\ LoginsTyped' /\ EnrolmentsTyped' /\ PermitsHeld' BY <1>3, <1>5, ReferencesKept DEF UserInv
<1> QED BY <1>5, <1>8, <1>9 DEF UserInv

LEMMA SetUserStateStep ==
    ASSUME UserInv, NEW id \in DOMAIN users, NEW state \in UserStates, SetUserState(id, state)
    PROVE  UserInv'
<1> DEFINE user == [name |-> users[id].name, state |-> state, revision |-> users[id].revision + 1]
           change == [kind |-> IF state = "active" THEN "reactivated" ELSE "disabled"]
<1>1. users[id] \in User /\ userEvents[id] \in Seq(AccountEvent) BY AccountsOf DEF UserInv
<1>2. user \in User /\ change \in AccountEvent /\ user.name = users[id].name
  <2>1. user \in User /\ user.name = users[id].name
    <3>1. users[id].name \in DisplayNames BY <1>1 DEF User
    <3> QED BY <1>1, <3>1 DEF User
  <2>2. change \in [kind : {"disabled", "reactivated"}] OBVIOUS
  <2> QED BY <2>1, <2>2 DEF AccountEvent
<1>3. Change(id, user, change) /\ UNCHANGED <<names, verifiers, roleGrants, policy, login, enroll>> BY DEF SetUserState
<1>4. Retold(user, Append(userEvents[id], change)) BY <1>1, <1>2, RetoldByState DEF UserInv, HistoryRetold
<1>5. /\ UsersTyped' /\ HistoryRetold' /\ DOMAIN users' = DOMAIN users
      /\ \A i \in DOMAIN users : users'[i] = IF i = id THEN user ELSE users[i]
  BY <1>2, <1>3, <1>4, ChangeKeeps DEF UserInv
<1>6. \A i \in DOMAIN users : users'[i].name = users[i].name BY <1>2, <1>5
<1>7. NamesIndexed' BY <1>3, <1>5, <1>6 DEF UserInv, NamesIndexed
<1>8. CredentialsOwned' /\ LoginsTyped' /\ EnrolmentsTyped' /\ PermitsHeld' BY <1>3, <1>5, ReferencesKept DEF UserInv
<1> QED BY <1>5, <1>7, <1>8 DEF UserInv

--------------------------------
(* Permits. *)

DerivingCalls == {"checking", "decoy", "rehashing", "orphan"}
CarryingCalls == {"verifier", "stale", "rehashing", "waiting", "checking"}

LEMMA PermitsAreFinite ==
    ASSUME UserAccountsAssumption
    PROVE  IsFiniteSet(Deriving) /\ Cardinality(Deriving) \in Nat
<1>1. IsFiniteSet(Logins \cup Operators) BY FS_Union DEF UserAccountsAssumption
<1>2. Deriving \subseteq Logins \cup Operators BY DEF Deriving
<1> QED BY <1>1, <1>2, FS_Subset, FS_CardinalityType

LEMMA PermitsReleased ==
    ASSUME UserAccountsAssumption, PermitsHeld, Deriving' \subseteq Deriving
    PROVE  PermitsHeld'
<1>1. IsFiniteSet(Deriving) /\ Cardinality(Deriving) \in Nat BY PermitsAreFinite
<1>2. IsFiniteSet(Deriving') /\ Cardinality(Deriving') <= Cardinality(Deriving) /\ Cardinality(Deriving') \in Nat
  BY <1>1, FS_Subset, FS_CardinalityType
<1> QED BY <1>1, <1>2 DEF PermitsHeld, UserAccountsAssumption

LEMMA PermitTaken ==
    ASSUME UserAccountsAssumption, Permit, NEW x, Deriving' \subseteq Deriving \cup {x}
    PROVE  PermitsHeld'
<1>1. IsFiniteSet(Deriving) /\ Cardinality(Deriving) \in Nat BY PermitsAreFinite
<1>2. IsFiniteSet(Deriving \cup {x}) /\ Cardinality(Deriving \cup {x}) <= Cardinality(Deriving) + 1
      /\ Cardinality(Deriving \cup {x}) \in Nat
  <2>1. IsFiniteSet(Deriving \cup {x})
        /\ Cardinality(Deriving \cup {x}) = IF x \in Deriving THEN Cardinality(Deriving) ELSE Cardinality(Deriving) + 1
    BY <1>1, FS_AddElement
  <2> QED BY <1>1, <2>1
<1>3. Cardinality(Deriving') <= Cardinality(Deriving \cup {x}) /\ Cardinality(Deriving') \in Nat
  BY <1>2, FS_Subset, FS_CardinalityType
<1> QED BY <1>1, <1>2, <1>3 DEF Permit, PermitsHeld, UserAccountsAssumption

--------------------------------
(* Logins. *)

LEMMA LoginToKeeps ==
    ASSUME UserInv, UserAccountsAssumption, NEW l \in Logins, NEW next \in LoginState, LoginTo(l, next),
           next.pc \in CarryingCalls => next.user \in DOMAIN users,
           next.pc \in DerivingCalls => login[l].pc \in DerivingCalls \/ Permit
    PROVE  UserInv'
<1>1. /\ login' = [login EXCEPT ![l] = next]
      /\ UNCHANGED <<users, names, userEvents, verifiers, roleGrants, policy, enroll>>
  BY DEF LoginTo
<1>2. \A k \in Logins : login'[k] = IF k = l THEN next ELSE login[k] BY <1>1 DEF UserInv, LoginsTyped
<1>3. UsersTyped' /\ NamesIndexed' /\ HistoryRetold' /\ CredentialsOwned' /\ EnrolmentsTyped'
  BY <1>1 DEF UserInv, UsersTyped, NamesIndexed, HistoryRetold, CredentialsOwned, EnrolmentsTyped
<1>4. LoginsTyped'
  <2>1. login' \in [Logins -> LoginState] BY <1>1 DEF UserInv, LoginsTyped
  <2>2. \A k \in Logins : login'[k].pc \in CarryingCalls => login'[k].user \in DOMAIN users'
    BY <1>1, <1>2 DEF UserInv, LoginsTyped, CarryingCalls
  <2> QED BY <2>1, <2>2 DEF LoginsTyped, CarryingCalls
<1>5. PermitsHeld'
  <2>1. CASE next.pc \in DerivingCalls /\ login[l].pc \notin DerivingCalls
    <3>1. Deriving' \subseteq Deriving \cup {l} BY <1>1, <1>2 DEF Deriving
    <3> QED BY <2>1, <3>1, PermitTaken
  <2>2. CASE ~(next.pc \in DerivingCalls /\ login[l].pc \notin DerivingCalls)
    <3>1. Deriving' \subseteq Deriving BY <1>1, <1>2, <2>2 DEF Deriving, DerivingCalls
    <3> QED BY <3>1, PermitsReleased DEF UserInv
  <2> QED BY <2>1, <2>2
<1> QED BY <1>3, <1>4, <1>5 DEF UserInv

LEMMA PlainLogins ==
    ASSUME NEW pc \in {"idle", "unknown", "decoy", "orphan", "accepted", "rejected"}
    PROVE  [pc |-> pc] \in LoginState /\ [pc |-> pc].pc \notin CarryingCalls
BY DEF LoginState, CarryingCalls

(* What a call that carries an account knows. *)
LEMMA CarriedAccount ==
    ASSUME UserInv, NEW l \in Logins
    PROVE  /\ login[l] \in LoginState
           /\ login[l].pc \in {"verifier", "stale", "rehashing"} =>
                 login[l] \in [pc : {"verifier", "stale", "rehashing"}, password : Passwords, user : Nat]
                 /\ login[l].user \in DOMAIN users
           /\ login[l].pc \in {"waiting", "checking"} =>
                 login[l] \in [pc : {"waiting", "checking"}, password : Passwords, user : Nat, verifier : Verifier]
                 /\ login[l].user \in DOMAIN users
<1>1. login[l] \in LoginState BY DEF UserInv, LoginsTyped
<1>2. login[l].pc \in CarryingCalls => login[l].user \in DOMAIN users BY DEF UserInv, LoginsTyped, CarryingCalls
<1>3. CASE login[l] \in [pc : {"idle", "unknown", "decoy", "orphan", "accepted", "rejected"}] BY <1>1, <1>3
<1>4. CASE login[l] \in [pc : {"verifier", "stale", "rehashing"}, password : Passwords, user : Nat]
  BY <1>1, <1>2, <1>4 DEF CarryingCalls
<1>5. CASE login[l] \in [pc : {"waiting", "checking"}, password : Passwords, user : Nat, verifier : Verifier]
  BY <1>1, <1>2, <1>5 DEF CarryingCalls
<1> QED BY <1>1, <1>3, <1>4, <1>5 DEF LoginState

LEMMA LookUpUserStep ==
    ASSUME UserInv, UserAccountsAssumption, NEW l \in Logins, NEW name \in DisplayNames,
           NEW password \in Passwords, LookUpUser(l, name, password)
    PROVE  UserInv'
<1>1. CASE Active(name)
  <2> DEFINE id == names[Canonical[name]]
             next == [pc |-> "verifier", password |-> password, user |-> id]
  <2>1. id \in DOMAIN users /\ DOMAIN users \subseteq Nat
    <3>1. PICK i \in DOMAIN users : Canonical[name] = Canonical[users[i].name] BY <1>1 DEF UserInv, NamesIndexed, Active
    <3> QED BY <3>1, AccountsOf DEF UserInv, NamesIndexed
  <2>2. next \in LoginState /\ next.user = id /\ next.pc \notin DerivingCalls BY <2>1 DEF LoginState, DerivingCalls
  <2>3. LoginTo(l, next) BY <1>1 DEF LookUpUser
  <2> QED BY <2>1, <2>2, <2>3, LoginToKeeps
<1>2. CASE ~Active(name)
  <2>1. LoginTo(l, [pc |-> "unknown"]) BY <1>2 DEF LookUpUser
  <2>2. [pc |-> "unknown"].pc \notin DerivingCalls BY DEF DerivingCalls
  <2> QED BY <2>1, <2>2, PlainLogins, LoginToKeeps
<1> QED BY <1>1, <1>2

LEMMA LookUpVerifierStep ==
    ASSUME UserInv, UserAccountsAssumption, NEW l \in Logins, LookUpVerifier(l)
    PROVE  UserInv'
<1> DEFINE at == login[l]
<1>1. /\ at \in [pc : {"verifier", "stale", "rehashing"}, password : Passwords, user : Nat]
      /\ at.user \in DOMAIN users
  BY CarriedAccount DEF LookUpVerifier
<1>2. CASE at.user \in DOMAIN verifiers
  <2> DEFINE next == [pc |-> "waiting", password |-> at.password, user |-> at.user, verifier |-> verifiers[at.user]]
  <2>1. verifiers[at.user] \in Verifier BY <1>2 DEF UserInv, CredentialsOwned
  <2>2. next \in LoginState /\ next.user = at.user /\ next.pc \notin DerivingCalls
    <3>1. at.password \in Passwords /\ at.user \in Nat BY <1>1
    <3>2. next \in [pc : {"waiting", "checking"}, password : Passwords, user : Nat, verifier : Verifier] BY <2>1, <3>1
    <3>3. next.user = at.user /\ next.pc = "waiting" OBVIOUS
    <3> QED BY <3>2, <3>3 DEF LoginState, DerivingCalls
  <2>3. LoginTo(l, next) BY <1>2 DEF LookUpVerifier
  <2> QED BY <1>1, <2>2, <2>3, LoginToKeeps
<1>3. CASE at.user \notin DOMAIN verifiers
  <2>1. LoginTo(l, [pc |-> "unknown"]) BY <1>3 DEF LookUpVerifier
  <2>2. [pc |-> "unknown"].pc \notin DerivingCalls BY DEF DerivingCalls
  <2> QED BY <2>1, <2>2, PlainLogins, LoginToKeeps
<1> QED BY <1>2, <1>3

LEMMA SpendDecoyStep ==
    ASSUME UserInv, UserAccountsAssumption, NEW l \in Logins, SpendDecoy(l)
    PROVE  UserInv'
<1>1. CASE Permit /\ LoginTo(l, [pc |-> "decoy"]) BY <1>1, PlainLogins, LoginToKeeps
<1>2. CASE LoginTo(l, [pc |-> "rejected"])
  <2>1. [pc |-> "rejected"].pc \notin DerivingCalls BY DEF DerivingCalls
  <2> QED BY <1>2, <2>1, PlainLogins, LoginToKeeps
<1> QED BY <1>1, <1>2 DEF SpendDecoy

LEMMA CheckPasswordStep ==
    ASSUME UserInv, UserAccountsAssumption, NEW l \in Logins, CheckPassword(l)
    PROVE  UserInv'
<1>1. /\ login[l] \in [pc : {"waiting", "checking"}, password : Passwords, user : Nat, verifier : Verifier]
      /\ login[l].user \in DOMAIN users
  BY CarriedAccount DEF CheckPassword
<1>2. CASE Permit /\ LoginTo(l, [login[l] EXCEPT !.pc = "checking"])
  <2>1. PICK next : next = [login[l] EXCEPT !.pc = "checking"] OBVIOUS
  <2>2. next \in [pc : {"waiting", "checking"}, password : Passwords, user : Nat, verifier : Verifier]
        /\ next.user = login[l].user
    BY <1>1, <2>1
  <2>3. next \in LoginState BY <2>2 DEF LoginState
  <2> QED BY <1>1, <1>2, <2>1, <2>2, <2>3, LoginToKeeps
<1>3. ASSUME LoginTo(l, IF login[l].verifier.password # login[l].password THEN [pc |-> "rejected"]
                        ELSE IF login[l].verifier.cost = policy THEN [pc |-> "accepted"]
                        ELSE [pc |-> "stale", password |-> login[l].password, user |-> login[l].user])
      PROVE  UserInv'
  <2>1. PICK next : /\ LoginTo(l, next)
                    /\ \/ next = [pc |-> "rejected"] \/ next = [pc |-> "accepted"]
                       \/ next = [pc |-> "stale", password |-> login[l].password, user |-> login[l].user]
    BY <1>3
  <2>2. CASE next = [pc |-> "rejected"] \/ next = [pc |-> "accepted"]
    <3>1. next.pc \notin DerivingCalls /\ next.pc \notin CarryingCalls /\ next \in LoginState
      BY <2>2 DEF DerivingCalls, CarryingCalls, LoginState
    <3> QED BY <2>1, <3>1, LoginToKeeps
  <2>3. CASE next = [pc |-> "stale", password |-> login[l].password, user |-> login[l].user]
    <3>1. login[l].password \in Passwords /\ login[l].user \in Nat BY <1>1
    <3>2. next \in LoginState /\ next.user = login[l].user /\ next.pc \notin DerivingCalls
      BY <2>3, <3>1 DEF LoginState, DerivingCalls
    <3> QED BY <1>1, <2>1, <3>2, LoginToKeeps
  <2> QED BY <2>1, <2>2, <2>3
<1> QED BY <1>2, <1>3 DEF CheckPassword

LEMMA DropLoginStep ==
    ASSUME UserInv, UserAccountsAssumption, NEW l \in Logins, DropLogin(l)
    PROVE  UserInv'
<1>1. CASE LoginTo(l, LoggedOut)
  <2>1. LoggedOut \in LoginState /\ LoggedOut.pc \notin CarryingCalls /\ LoggedOut.pc \notin DerivingCalls
    BY DEF LoggedOut, LoginState, CarryingCalls, DerivingCalls
  <2> QED BY <1>1, <2>1, LoginToKeeps
<1>2. CASE login[l].pc \in {"checking", "decoy", "rehashing"} /\ LoginTo(l, [pc |-> "orphan"])
  <2>1. login[l].pc \in DerivingCalls BY <1>2 DEF DerivingCalls
  <2> QED BY <1>2, <2>1, PlainLogins, LoginToKeeps
<1> QED BY <1>1, <1>2 DEF DropLogin

LEMMA EndOrphanStep ==
    ASSUME UserInv, UserAccountsAssumption, NEW l \in Logins, EndOrphan(l)
    PROVE  UserInv'
<1>1. LoggedOut \in LoginState /\ LoggedOut.pc \notin CarryingCalls /\ LoggedOut.pc \notin DerivingCalls
  BY DEF LoggedOut, LoginState, CarryingCalls, DerivingCalls
<1> QED BY <1>1, LoginToKeeps DEF EndOrphan

--------------------------------
(* Passwords and roles. *)

LEMMA VerifierStored ==
    ASSUME UserInv, NEW id \in DOMAIN users, NEW verifier \in Verifier,
           verifiers' = With(verifiers, id, verifier), UNCHANGED <<users, roleGrants, policy>>
    PROVE  CredentialsOwned'
<1>1. /\ DOMAIN verifiers' = DOMAIN verifiers \cup {id}
      /\ \A i \in DOMAIN verifiers' : verifiers'[i] = IF i = id THEN verifier ELSE verifiers[i]
  BY DEF With
<1>2. \A i \in DOMAIN verifiers' : verifiers'[i] \in Verifier BY <1>1 DEF UserInv, CredentialsOwned
<1>3. DOMAIN verifiers' \subseteq DOMAIN users BY <1>1 DEF UserInv, CredentialsOwned
<1> QED BY <1>2, <1>3 DEF UserInv, CredentialsOwned

LEMMA RehashStep ==
    ASSUME UserInv, UserAccountsAssumption, NEW l \in Logins, Rehash(l)
    PROVE  UserInv'
<1>1. /\ login[l] \in [pc : {"verifier", "stale", "rehashing"}, password : Passwords, user : Nat]
      /\ login[l].user \in DOMAIN users
  BY CarriedAccount DEF Rehash
<1>2. CASE Permit /\ LoginTo(l, [login[l] EXCEPT !.pc = "rehashing"])
  <2>1. PICK next : next = [login[l] EXCEPT !.pc = "rehashing"] OBVIOUS
  <2>2. next \in [pc : {"verifier", "stale", "rehashing"}, password : Passwords, user : Nat]
        /\ next.user = login[l].user
    BY <1>1, <2>1
  <2>3. next \in LoginState BY <2>2 DEF LoginState
  <2> QED BY <1>1, <1>2, <2>1, <2>2, <2>3, LoginToKeeps
<1>3. ASSUME verifiers' = With(verifiers, login[l].user, [password |-> login[l].password, cost |-> policy]),
             login' = [login EXCEPT ![l] = [pc |-> "accepted"]],
             UNCHANGED <<users, names, userEvents, roleGrants, policy, enroll, intended, userSteps>>
      PROVE  UserInv'
  <2>1. [password |-> login[l].password, cost |-> policy] \in Verifier
    <3>1. login[l].password \in Passwords BY <1>1
    <3> QED BY <3>1 DEF Verifier, UserInv, CredentialsOwned
  <2>2. CredentialsOwned' BY <1>1, <1>3, <2>1, VerifierStored
  <2>3. UsersTyped' /\ NamesIndexed' /\ HistoryRetold' /\ EnrolmentsTyped'
    BY <1>3 DEF UserInv, UsersTyped, NamesIndexed, HistoryRetold, EnrolmentsTyped
  <2>4. \A k \in Logins : login'[k] = IF k = l THEN [pc |-> "accepted"] ELSE login[k] BY <1>3 DEF UserInv, LoginsTyped
  <2>5. [pc |-> "accepted"] \in LoginState /\ [pc |-> "accepted"].pc \notin CarryingCalls BY PlainLogins
  <2>6. LoginsTyped'
    <3>1. login' \in [Logins -> LoginState] BY <1>3, <2>5 DEF UserInv, LoginsTyped
    <3>2. \A k \in Logins : login'[k].pc \in CarryingCalls => login'[k].user \in DOMAIN users'
      BY <1>3, <2>4, <2>5 DEF UserInv, LoginsTyped, CarryingCalls
    <3> QED BY <3>1, <3>2 DEF LoginsTyped, CarryingCalls
  <2>7. PermitsHeld'
    <3>1. Deriving' \subseteq Deriving BY <1>3, <2>4 DEF Deriving
    <3> QED BY <3>1, PermitsReleased DEF UserInv
  <2> QED BY <2>2, <2>3, <2>6, <2>7 DEF UserInv
<1> QED BY <1>2, <1>3 DEF Rehash

LEMMA ClearPasswordStep ==
    ASSUME UserInv, NEW id \in DOMAIN users, ClearPassword(id)
    PROVE  UserInv'
<1>1. /\ verifiers' = Without(verifiers, id)
      /\ UNCHANGED <<users, names, userEvents, roleGrants, policy, login, enroll>>
  BY DEF ClearPassword
<1>2. DOMAIN verifiers' \subseteq DOMAIN verifiers /\ \A i \in DOMAIN verifiers' : verifiers'[i] = verifiers[i]
  BY <1>1 DEF Without
<1>3. CredentialsOwned' BY <1>1, <1>2 DEF UserInv, CredentialsOwned
<1>4. UsersTyped' /\ NamesIndexed' /\ HistoryRetold' /\ LoginsTyped' /\ EnrolmentsTyped' /\ PermitsHeld'
  BY <1>1 DEF UserInv, UsersTyped, NamesIndexed, HistoryRetold, LoginsTyped, EnrolmentsTyped, PermitsHeld, Deriving
<1> QED BY <1>3, <1>4 DEF UserInv

LEMMA RolesStep ==
    ASSUME UserInv,
           \/ \E id \in DOMAIN users, r \in Roles, s \in GrantScopes : GrantRole(id, r, s)
           \/ \E g \in roleGrants : RevokeRole(g)
    PROVE  UserInv'
<1>1. UNCHANGED <<users, names, userEvents, verifiers, policy, login, enroll>> BY DEF GrantRole, RevokeRole
<1>2. roleGrants' \subseteq [user : DOMAIN users, role : Roles, scope : GrantScopes]
  <2>1. ASSUME NEW id \in DOMAIN users, NEW r \in Roles, NEW s \in GrantScopes, GrantRole(id, r, s)
        PROVE  roleGrants' \subseteq [user : DOMAIN users, role : Roles, scope : GrantScopes]
    <3>1. roleGrants' = roleGrants \cup {[user |-> id, role |-> r, scope |-> s]} BY <2>1 DEF GrantRole
    <3>2. [user |-> id, role |-> r, scope |-> s] \in [user : DOMAIN users, role : Roles, scope : GrantScopes] OBVIOUS
    <3> QED BY <3>1, <3>2 DEF UserInv, CredentialsOwned
  <2>2. ASSUME NEW g \in roleGrants, RevokeRole(g)
        PROVE  roleGrants' \subseteq [user : DOMAIN users, role : Roles, scope : GrantScopes]
    BY <2>2 DEF RevokeRole, UserInv, CredentialsOwned
  <2> QED BY <2>1, <2>2
<1>3. CredentialsOwned' BY <1>1, <1>2 DEF UserInv, CredentialsOwned
<1>4. UsersTyped' /\ NamesIndexed' /\ HistoryRetold' /\ LoginsTyped' /\ EnrolmentsTyped' /\ PermitsHeld'
  BY <1>1 DEF UserInv, UsersTyped, NamesIndexed, HistoryRetold, LoginsTyped, EnrolmentsTyped, PermitsHeld, Deriving
<1> QED BY <1>3, <1>4 DEF UserInv

--------------------------------
(* Enrolments and restarts. *)

LEMMA SetPasswordStep ==
    ASSUME UserInv, UserAccountsAssumption, NEW o \in Operators, NEW id \in DOMAIN users, NEW password \in Passwords,
           SetPassword(o, id, password)
    PROVE  UserInv'
<1> DEFINE next == [pc |-> "waiting", user |-> id, password |-> password]
<1>1. /\ enroll' = [enroll EXCEPT ![o] = next]
      /\ UNCHANGED <<users, names, userEvents, verifiers, roleGrants, policy, login>>
  BY DEF SetPassword
<1>2. id \in Nat BY AccountsOf DEF UserInv
<1>3. next \in EnrolState /\ next.user = id /\ next.pc = "waiting" BY <1>2 DEF EnrolState
<1>4. \A p \in Operators : enroll'[p] = IF p = o THEN next ELSE enroll[p] BY <1>1 DEF UserInv, EnrolmentsTyped
<1>5. EnrolmentsTyped'
  <2>1. enroll' \in [Operators -> EnrolState] BY <1>1, <1>3 DEF UserInv, EnrolmentsTyped
  <2>2. \A p \in Operators : enroll'[p].pc \in {"waiting", "hashing"} => enroll'[p].user \in DOMAIN users'
    BY <1>1, <1>3, <1>4 DEF UserInv, EnrolmentsTyped
  <2> QED BY <2>1, <2>2 DEF EnrolmentsTyped
<1>6. PermitsHeld'
  <2>1. Deriving' \subseteq Deriving BY <1>1, <1>3, <1>4 DEF Deriving
  <2> QED BY <2>1, PermitsReleased DEF UserInv
<1>7. UsersTyped' /\ NamesIndexed' /\ HistoryRetold' /\ LoginsTyped' /\ CredentialsOwned'
  BY <1>1 DEF UserInv, UsersTyped, NamesIndexed, HistoryRetold, LoginsTyped, CredentialsOwned
<1> QED BY <1>5, <1>6, <1>7 DEF UserInv

LEMMA EnrolledAccount ==
    ASSUME UserInv, NEW o \in Operators, enroll[o].pc \in {"waiting", "hashing"}
    PROVE  /\ enroll[o] \in [pc : {"waiting", "hashing"}, user : Nat, password : Passwords]
           /\ enroll[o].user \in DOMAIN users
BY DEF UserInv, EnrolmentsTyped, EnrolState, LoggedOut

LEMMA HashStep ==
    ASSUME UserInv, UserAccountsAssumption, NEW o \in Operators, Hash(o)
    PROVE  UserInv'
<1>1. /\ enroll' = [enroll EXCEPT ![o] = [enroll[o] EXCEPT !.pc = "hashing"]] /\ Permit
      /\ UNCHANGED <<users, names, userEvents, verifiers, roleGrants, policy, login>>
  BY DEF Hash
<1>2. /\ enroll[o] \in [pc : {"waiting", "hashing"}, user : Nat, password : Passwords]
      /\ enroll[o].user \in DOMAIN users
  BY EnrolledAccount DEF Hash
<1>3. PICK next : next = [enroll[o] EXCEPT !.pc = "hashing"] OBVIOUS
<1>4. next \in EnrolState /\ next.user = enroll[o].user BY <1>2, <1>3 DEF EnrolState
<1>5. enroll' = [enroll EXCEPT ![o] = next] BY <1>1, <1>3
<1>6. \A p \in Operators : enroll'[p] = IF p = o THEN next ELSE enroll[p] BY <1>5 DEF UserInv, EnrolmentsTyped
<1>7. EnrolmentsTyped'
  <2>1. enroll' \in [Operators -> EnrolState] BY <1>5, <1>4 DEF UserInv, EnrolmentsTyped
  <2>2. \A p \in Operators : enroll'[p].pc \in {"waiting", "hashing"} => enroll'[p].user \in DOMAIN users'
    BY <1>1, <1>2, <1>4, <1>6 DEF UserInv, EnrolmentsTyped
  <2> QED BY <2>1, <2>2 DEF EnrolmentsTyped
<1>8. PermitsHeld'
  <2>1. Deriving' \subseteq Deriving \cup {o} BY <1>1, <1>6 DEF Deriving
  <2> QED BY <1>1, <2>1, PermitTaken
<1>9. UsersTyped' /\ NamesIndexed' /\ HistoryRetold' /\ LoginsTyped' /\ CredentialsOwned'
  BY <1>1 DEF UserInv, UsersTyped, NamesIndexed, HistoryRetold, LoginsTyped, CredentialsOwned
<1> QED BY <1>7, <1>8, <1>9 DEF UserInv

LEMMA StorePasswordStep ==
    ASSUME UserInv, UserAccountsAssumption, NEW o \in Operators, StorePassword(o)
    PROVE  UserInv'
<1>1. /\ verifiers' = With(verifiers, enroll[o].user, [password |-> enroll[o].password, cost |-> policy])
      /\ enroll' = [enroll EXCEPT ![o] = LoggedOut]
      /\ UNCHANGED <<users, names, userEvents, roleGrants, policy, login>>
  BY DEF StorePassword
<1>2. /\ enroll[o] \in [pc : {"waiting", "hashing"}, user : Nat, password : Passwords]
      /\ enroll[o].user \in DOMAIN users
  BY EnrolledAccount DEF StorePassword
<1>3. CredentialsOwned'
  <2>1. [password |-> enroll[o].password, cost |-> policy] \in Verifier
    <3>1. enroll[o].password \in Passwords BY <1>2
    <3> QED BY <3>1 DEF Verifier, UserInv, CredentialsOwned
  <2> QED BY <1>1, <1>2, <2>1, VerifierStored
<1>4. \A p \in Operators : enroll'[p] = IF p = o THEN LoggedOut ELSE enroll[p] BY <1>1 DEF UserInv, EnrolmentsTyped
<1>5. EnrolmentsTyped'
  <2>1. enroll' \in [Operators -> EnrolState] BY <1>1 DEF UserInv, EnrolmentsTyped, EnrolState
  <2>2. \A p \in Operators : enroll'[p].pc \in {"waiting", "hashing"} => enroll'[p].user \in DOMAIN users'
    BY <1>1, <1>4 DEF UserInv, EnrolmentsTyped, LoggedOut
  <2> QED BY <2>1, <2>2 DEF EnrolmentsTyped
<1>6. PermitsHeld'
  <2>1. Deriving' \subseteq Deriving BY <1>1, <1>4 DEF Deriving, LoggedOut
  <2> QED BY <2>1, PermitsReleased DEF UserInv
<1>7. UsersTyped' /\ NamesIndexed' /\ HistoryRetold' /\ LoginsTyped'
  BY <1>1 DEF UserInv, UsersTyped, NamesIndexed, HistoryRetold, LoginsTyped
<1> QED BY <1>3, <1>5, <1>6, <1>7 DEF UserInv

LEMMA RestartUsersStep ==
    ASSUME UserInv, UserAccountsAssumption, NEW cost \in Costs, RestartUsers(cost)
    PROVE  UserInv'
<1>1. /\ policy' = cost /\ login' = [l \in Logins |-> LoggedOut] /\ enroll' = [o \in Operators |-> LoggedOut]
      /\ UNCHANGED <<users, names, userEvents, verifiers, roleGrants>>
  BY DEF RestartUsers
<1>2. LoggedOut \in LoginState /\ LoggedOut \in EnrolState /\ LoggedOut.pc = "idle"
  BY DEF LoggedOut, LoginState, EnrolState
<1>3. LoginsTyped' /\ EnrolmentsTyped' BY <1>1, <1>2 DEF LoginsTyped, EnrolmentsTyped
<1>4. PermitsHeld'
  <2>1. Deriving' \subseteq Deriving BY <1>1, <1>2 DEF Deriving
  <2> QED BY <2>1, PermitsReleased DEF UserInv
<1>5. UsersTyped' /\ NamesIndexed' /\ HistoryRetold' /\ CredentialsOwned'
  BY <1>1 DEF UserInv, UsersTyped, NamesIndexed, HistoryRetold, CredentialsOwned
<1> QED BY <1>3, <1>4, <1>5 DEF UserInv

--------------------------------
(* The invariant holds. *)

LEMMA UserInvInit == UserAccountsAssumption /\ UserInit => UserInv
<1> SUFFICES ASSUME UserAccountsAssumption, UserInit PROVE UserInv OBVIOUS
<1>1. users = <<>> /\ userEvents = <<>> /\ names = <<>> /\ verifiers = <<>> /\ roleGrants = {}
      /\ login = [l \in Logins |-> LoggedOut] /\ enroll = [o \in Operators |-> LoggedOut]
  BY DEF UserInit
<1>2. DOMAIN users = {} /\ DOMAIN names = {} /\ DOMAIN verifiers = {} BY <1>1
<1>3. UsersTyped BY <1>1, EmptySeq DEF UsersTyped
<1>4. NamesIndexed /\ HistoryRetold BY <1>2 DEF NamesIndexed, HistoryRetold
<1>5. policy \in Costs BY DEF UserInit, UserAccountsAssumption
<1>6. CredentialsOwned BY <1>1, <1>2, <1>5 DEF CredentialsOwned
<1>7. LoggedOut \in LoginState /\ LoggedOut \in EnrolState /\ LoggedOut.pc = "idle"
  BY DEF LoggedOut, LoginState, EnrolState
<1>8. LoginsTyped /\ EnrolmentsTyped BY <1>1, <1>7 DEF LoginsTyped, EnrolmentsTyped
<1>9. PermitsHeld
  <2>1. Deriving = {} BY <1>1, <1>7 DEF Deriving
  <2>2. Cardinality({}) = 0 BY FS_EmptySet
  <2> QED BY <2>1, <2>2 DEF PermitsHeld, UserAccountsAssumption
<1> QED BY <1>3, <1>4, <1>6, <1>8, <1>9 DEF UserInv

LEMMA UserInvStep == UserAccountsAssumption /\ UserInv /\ [UserNext]_userVars => UserInv'
<1> SUFFICES ASSUME UserAccountsAssumption, UserInv, [UserNext]_userVars PROVE UserInv' OBVIOUS
<1>1. ASSUME NEW d \in DisplayNames, CreateUser(d) PROVE UserInv' BY <1>1, CreateUserStep
<1>2. ASSUME NEW id \in DOMAIN users, NEW d \in DisplayNames, RenameUser(id, d) PROVE UserInv' BY <1>2, RenameUserStep
<1>3. ASSUME NEW id \in DOMAIN users, NEW s \in {"active", "disabled"}, SetUserState(id, s) PROVE UserInv'
  BY <1>3, SetUserStateStep DEF UserStates
<1>4. ASSUME NEW id \in DOMAIN users, ClearPassword(id) PROVE UserInv' BY <1>4, ClearPasswordStep
<1>5. ASSUME NEW id \in DOMAIN users, NEW r \in Roles, NEW s \in GrantScopes, GrantRole(id, r, s) PROVE UserInv'
  BY <1>5, RolesStep
<1>6. ASSUME NEW id \in DOMAIN users, NEW o \in Operators, NEW p \in Passwords, SetPassword(o, id, p) PROVE UserInv'
  BY <1>6, SetPasswordStep
<1>7. ASSUME NEW g \in roleGrants, RevokeRole(g) PROVE UserInv' BY <1>7, RolesStep
<1>8. ASSUME NEW o \in Operators, Hash(o) \/ StorePassword(o) PROVE UserInv' BY <1>8, HashStep, StorePasswordStep
<1>9. ASSUME NEW l \in Logins, NEW d \in DisplayNames, NEW p \in Passwords, LookUpUser(l, d, p) PROVE UserInv'
  BY <1>9, LookUpUserStep
<1>10. ASSUME NEW l \in Logins,
              \/ LookUpVerifier(l) \/ SpendDecoy(l) \/ CheckPassword(l) \/ Rehash(l)
              \/ DropLogin(l) \/ EndOrphan(l)
       PROVE  UserInv'
  BY <1>10, LookUpVerifierStep, SpendDecoyStep, CheckPasswordStep, RehashStep, DropLoginStep, EndOrphanStep
<1>11. ASSUME NEW c \in Costs, RestartUsers(c) PROVE UserInv' BY <1>11, RestartUsersStep
<1>12. CASE UNCHANGED userVars
  BY <1>12 DEF userVars, UserInv, UsersTyped, NamesIndexed, HistoryRetold, CredentialsOwned, LoginsTyped,
               EnrolmentsTyped, PermitsHeld, Deriving
<1> QED BY <1>1, <1>2, <1>3, <1>4, <1>5, <1>6, <1>7, <1>8, <1>9, <1>10, <1>11, <1>12 DEF UserNext

(* A role over repositories covers no operator data. *)
LEMMA NoOperatorData ==
    ASSUME UserInv, NEW i, \A g \in roleGrants : g.user = i => g.scope # Server
    PROVE  ~Decision(i, "operator:read", <<"operator">>, TRUE)
<1> SUFFICES ASSUME NEW g \in roleGrants, g.user = i, Covers(g.scope, <<"operator">>) PROVE FALSE BY DEF Decision
<1>1. g.scope \in GrantScopes /\ g.scope # Server BY DEF UserInv, CredentialsOwned
<1>2. PICK r \in Repositories : g.scope = <<"repository", r>> BY <1>1 DEF GrantScopes
<1>3. <<"repository", r>> # <<"operator">> OBVIOUS
<1> QED BY <1>1, <1>2, <1>3 DEF Covers

LEMMA UserInvConsistent == UserInv => UsersAreConsistent
<1> SUFFICES ASSUME UserInv PROVE UsersAreConsistent OBVIOUS
<1>1. \A g \in roleGrants : g.user \in DOMAIN users BY DEF UserInv, CredentialsOwned
<1>2. (DOMAIN verifiers) \cup {g.user : g \in roleGrants} \subseteq DOMAIN users BY <1>1 DEF UserInv, CredentialsOwned
<1>3. /\ DOMAIN names = {Canonical[users[i].name] : i \in DOMAIN users}
      /\ \A i \in DOMAIN users : names[Canonical[users[i].name]] = i /\ Retold(users[i], userEvents[i])
      /\ Cardinality(Deriving) <= MaxPasswordChecks
  BY DEF UserInv, NamesIndexed, HistoryRetold, PermitsHeld
<1>4. \A i \in DOMAIN users :
        (\A g \in roleGrants : g.user = i => g.scope # Server) => ~Decision(i, "operator:read", <<"operator">>, TRUE)
  BY NoOperatorData
<1> QED BY <1>2, <1>3, <1>4 DEF UsersAreConsistent

(* The accounts of a server stay consistent through any sequence of
   creations, renames, state changes, password and role changes, logins
   and restarts: users.rs and role_grant.rs of peryx-storage, users.rs and
   authz.rs of peryx-driver. *)
THEOREM UsersStayConsistent == UserSpec => []UsersAreConsistent
<1>1. UserInit => UserInv BY UserInvInit, UserAccountsAssumption
<1>2. UserInv /\ [UserNext]_userVars => UserInv' BY UserInvStep, UserAccountsAssumption
<1>3. UserInv => UsersAreConsistent BY UserInvConsistent
<1> QED BY <1>1, <1>2, <1>3, PTL DEF UserSpec

--------------------------------
(* Policy: a page is coherent with the other surfaces, from the check that     *)
(* made it.                                                                    *)

LEMMA MinOfRules ==
    ASSUME NEW S \in SUBSET (1..8), S # {}
    PROVE  Min(S) \in S
<1> \A n \in S : n \in 1..8 /\ n \in Int OBVIOUS
<1>1. \E m \in S : \A n \in S : m <= n
  <2>1. \A n \in S : n = 1 \/ n = 2 \/ n = 3 \/ n = 4 \/ n = 5 \/ n = 6 \/ n = 7 \/ n = 8 OBVIOUS
  <2>2. 1 \in S \/ 2 \in S \/ 3 \in S \/ 4 \in S \/ 5 \in S \/ 6 \in S \/ 7 \in S \/ 8 \in S BY <2>1
  <2> QED BY <2>1, <2>2
<1> QED BY <1>1 DEF Min

Rules == {"none", "protected-name", "project-allow-list", "project-block-list", "max-file-size", "version-specifier",
          "package-type-allow-list", "package-type-block-list", "wheel-python-allow-list", "wheel-python-block-list",
          "wheel-platform-allow-list", "wheel-platform-block-list", "release-delay", "required-attestation", "required-attestation-audit"}

(* The answer is "none" when no rule refuses. *)
LEMMA FactsPass ==
    ASSUME NEW c, NEW action, NEW project, NEW f, NEW sz, NEW at, NEW predicates
    PROVE  /\ EvaluateFacts(c, action, project, f, sz, at, predicates) = "none"
                <=> /\ EvaluateProject(c, action, project) = "none" /\ FileSizeRule(c, sz) = "none"
                    /\ VersionRule(c, f) = "none" /\ PackageTypeRule(c, f) = "none" /\ PythonTagRule(c, f) = "none"
                    /\ PlatformTagRule(c, f) = "none" /\ ReleaseDelayRule(c, f, at) = "none" /\ AttestationRule(c, action, predicates) = "none"
           /\ EvaluateFacts(c, action, project, f, sz, at, predicates) \in Rules
           /\ EvaluateProject(c, action, project) \in Rules
<1> DEFINE a == <<EvaluateProject(c, action, project), FileSizeRule(c, sz), VersionRule(c, f),
                  PackageTypeRule(c, f), PythonTagRule(c, f), PlatformTagRule(c, f), ReleaseDelayRule(c, f, at),
                  AttestationRule(c, action, predicates)>>
           R == {i \in 1..8 : a[i] # "none"}
<1>1. EvaluateFacts(c, action, project, f, sz, at, predicates) = IF R = {} THEN "none" ELSE a[Min(R)] BY DEF EvaluateFacts
<1>2. /\ a[1] = EvaluateProject(c, action, project) /\ a[2] = FileSizeRule(c, sz) /\ a[3] = VersionRule(c, f)
      /\ a[4] = PackageTypeRule(c, f) /\ a[5] = PythonTagRule(c, f) /\ a[6] = PlatformTagRule(c, f)
      /\ a[7] = ReleaseDelayRule(c, f, at) /\ a[8] = AttestationRule(c, action, predicates)
  OBVIOUS
<1>3. /\ EvaluateProject(c, action, project) \in Rules /\ FileSizeRule(c, sz) \in Rules
      /\ VersionRule(c, f) \in Rules /\ PackageTypeRule(c, f) \in Rules /\ PythonTagRule(c, f) \in Rules /\ PlatformTagRule(c, f) \in Rules
      /\ ReleaseDelayRule(c, f, at) \in Rules /\ AttestationRule(c, action, predicates) \in Rules
  <2>1. EvaluateProject(c, action, project) \in Rules BY DEF EvaluateProject, Rules
  <2>2. FileSizeRule(c, sz) \in Rules /\ VersionRule(c, f) \in Rules BY DEF FileSizeRule, VersionRule, Rules
  <2>3. PackageTypeRule(c, f) \in Rules BY DEF PackageTypeRule, Rules
  <2>4. PythonTagRule(c, f) \in Rules /\ PlatformTagRule(c, f) \in Rules
    BY DEF PythonTagRule, PlatformTagRule, WheelTagRule, Rules
  <2>5. ReleaseDelayRule(c, f, at) \in Rules /\ AttestationRule(c, action, predicates) \in Rules
    BY DEF ReleaseDelayRule, AttestationRule, Rules
  <2> QED BY <2>1, <2>2, <2>3, <2>4, <2>5
<1> HIDE DEF a
<1>4. \A i \in 1..8 : i = 1 \/ i = 2 \/ i = 3 \/ i = 4 \/ i = 5 \/ i = 6 \/ i = 7 \/ i = 8 OBVIOUS
<1>5. R # {} => Min(R) \in R BY MinOfRules
<1>6. \A i \in 1..8 : a[i] \in Rules BY <1>2, <1>3, <1>4
<1>7. R = {} <=> a[1] = "none" /\ a[2] = "none" /\ a[3] = "none" /\ a[4] = "none" /\ a[5] = "none" /\ a[6] = "none" /\ a[7] = "none"
            /\ a[8] = "none"
  BY <1>4
<1>8. EvaluateFacts(c, action, project, f, sz, at, predicates) = "none" <=> R = {} BY <1>1, <1>5
<1>9. EvaluateFacts(c, action, project, f, sz, at, predicates) \in Rules
  <2>1. "none" \in Rules BY DEF Rules
  <2> QED BY <1>1, <1>5, <1>6, <2>1
<1> QED BY <1>2, <1>3, <1>7, <1>8, <1>9

LEMMA PassesWithoutClock ==
    ASSUME NEW c, NEW action, NEW project, NEW f, NEW sz, NEW at, NEW predicates,
           EvaluateFacts(c, action, project, f, sz, at, predicates) = "none"
    PROVE  EvaluateFacts(c, action, project, f, sz, None, predicates) = "none"
<1>1. ReleaseDelayRule(c, f, None) = "none" BY DEF ReleaseDelayRule
<1> QED BY <1>1, FactsPass

\* What may be cached may be served: the protected names concern the upstream only.
LEMMA ServesWhatItCaches ==
    ASSUME NEW a \in ReadActions, NEW c, NEW project, NEW f, NEW sz, NEW at,
           EvaluateFacts(c, a, project, f, sz, at, {}) = "none"
    PROVE  EvaluateFacts(c, "serve", project, f, sz, at, {}) = "none"
<1>1. EvaluateProject(c, a, project) = "none" BY FactsPass
<1>2. EvaluateProject(c, "serve", project) = "none" BY <1>1 DEF EvaluateProject
<1>3. AttestationRule(c, "serve", {}) = "none" BY DEF AttestationRule
<1> QED BY <1>2, <1>3, FactsPass

LEMMA PageIsCoherent ==
    ASSUME NEW a \in ReadActions, NEW p, NEW files, NEW at,
           \A f \in files : f.project = p, ApplyDetail(a, p, files, at)
    PROVE  PolicyIsCoherent'
<1> DEFINE rule == EvaluateProject(config, a, p)
           judged == [f \in files |-> EvaluateFacts(config, a, p, f, f.size, at, {})]
           kept == {f \in files : judged[f] = "none"}
           size == ProjectSizeRule(config, kept)
           page == [kind |-> "page", action |-> a, project |-> p, files |-> files, now |-> at,
                    denied |-> IF rule # "none" THEN rule ELSE size, kept |-> kept, versions |-> {f.version : f \in kept}]
<1>1. applied' = page /\ config' = config BY DEF ApplyDetail, Check
<1>2. kept = {f \in files : EvaluateFacts(config, a, p, f, f.size, at, {}) = "none"} OBVIOUS
<1> DEFINE kept0 == kept
           versions0 == {f.version : f \in kept}
           denied0 == IF rule # "none" THEN rule ELSE size
<1>3. /\ applied'.kind = "page" /\ applied'.action = a /\ applied'.project = p /\ applied'.files = files
      /\ applied'.kept = kept0 /\ applied'.versions = versions0 /\ applied'.denied = denied0
  BY <1>1
<1>4. \A f \in kept0 : f \in files /\ f.project = p /\ EvaluateFacts(config, a, p, f, f.size, at, {}) = "none" BY <1>2
<1>5. \A f \in kept0 : EvaluateFacts(config, a, p, f, f.size, None, {}) = "none" BY <1>4, PassesWithoutClock
<1>6. denied0 = "none" => rule = "none" /\ size = "none" OBVIOUS
<1>7. versions0 = {f.version : f \in kept0} OBVIOUS
<1>8. size = ProjectSizeRule(config, kept0) OBVIOUS
<1>9. rule = EvaluateProject(config, a, p) OBVIOUS
<1> HIDE DEF kept0, versions0, denied0, rule, size, page, judged
<1>10. ASSUME denied0 = "none"
       PROVE  /\ \A f \in kept0 : f.named = f.project => DownloadRule(config, f, f.size) = "none"
              /\ config.max_project_size # None =>
                    /\ \A f \in kept0 : f.size # None
                    /\ ~ (TotalSize(kept0) > config.max_project_size)
              /\ \A f \in kept0 : EvaluateSize(config, a, f.project, f.size) = "none"
              /\ a = "cached" => ~Protected(config, p)
  <2>1. rule = "none" /\ size = "none" BY <1>6, <1>10
  <2>2. ASSUME NEW f \in kept0, f.named = f.project PROVE DownloadRule(config, f, f.size) = "none"
    <3>1. EvaluateFacts(config, a, f.named, f, f.size, None, {}) = "none" BY <1>4, <1>5, <2>2
    <3>2. EvaluateFacts(config, "serve", f.named, f, f.size, None, {}) = "none" BY <3>1, ServesWhatItCaches
    <3> QED BY <3>2 DEF DownloadRule
  <2>3. \A f \in kept0 : EvaluateSize(config, a, f.project, f.size) = "none" BY <1>4, <1>5, FactsPass DEF EvaluateSize
  <2>4. a = "cached" => ~Protected(config, p) BY <1>9, <2>1 DEF EvaluateProject
  <2>5. config.max_project_size # None =>
           /\ \A f \in kept0 : f.size # None
           /\ ~ (TotalSize(kept0) > config.max_project_size)
    BY <1>8, <2>1 DEF ProjectSizeRule
  <2> QED BY <2>2, <2>3, <2>4, <2>5
<1>11. kept0 \subseteq {f \in files : EvaluateFacts(config, a, p, f, f.size, None, {}) = "none"} BY <1>4, <1>5
<1> QED BY <1>1, <1>3, <1>7, <1>10, <1>11 DEF PolicyIsCoherent

LEMMA LeastNatural ==
    ASSUME NEW T \in SUBSET Nat, T # {}
    PROVE  \E m \in T : \A n \in T : m <= n
<1> DEFINE R == {ss \in Nat \X Nat : ss[1] < ss[2]}
<1>1. IsWellFoundedOn(R, Nat) BY NatLessThanWellFounded, Zenon DEF OpToRel
<1>2. \E x \in T : \A y \in T : ~(<<y, x>> \in R)
  <2> HIDE DEF R
  <2> QED BY <1>1, WFMin
<1>3. PICK x \in T : \A y \in T : ~(<<y, x>> \in R) BY <1>2
<1>4. \A y \in T : ~(y < x) BY <1>3
<1> QED BY <1>4

LEMMA MinOfNaturals ==
    ASSUME NEW T \in SUBSET Nat, T # {}
    PROVE  Min(T) \in T /\ \A n \in T : Min(T) <= n
BY LeastNatural DEF Min

--------------------------------
(* The pointers of the log. *)

\* Each subject points at the newest record it has left, each record's subject points, the tables mirror each other.
Pointed(h, c, ids) ==
    /\ \A s \in DOMAIN c : c[s] \in DOMAIN h /\ h[c[s]].decision.subject = s /\ c[s] \in DOMAIN ids /\ ids[c[s]] = s
    /\ \A i \in DOMAIN h : h[i].decision.subject \in DOMAIN c /\ i <= c[h[i].decision.subject]
    /\ \A i \in DOMAIN ids : ids[i] \in DOMAIN c /\ c[ids[i]] = i
    /\ ids = [i \in DOMAIN ids |-> ids[i]]

\* What a table holds after a key was put and after keys were dropped.
IsPut(g, f, k, v) ==
    /\ DOMAIN g = DOMAIN f \cup {k} /\ g[k] = v
    /\ \A x \in DOMAIN f : x # k => g[x] = f[x]
    /\ g = [x \in DOMAIN g |-> g[x]]

IsDrop(g, f, ks) ==
    /\ DOMAIN g = DOMAIN f \ ks
    /\ \A x \in DOMAIN f \ ks : g[x] = f[x]
    /\ g = [x \in DOMAIN g |-> g[x]]

LEMMA AtPut == ASSUME NEW f, NEW k, NEW v PROVE IsPut(PutAt(f, k, v), f, k, v)
BY DEF PutAt, IsPut

LEMMA AtDrop == ASSUME NEW f, NEW ks PROVE IsDrop(DropAt(f, ks), f, ks)
BY DEF DropAt, IsDrop

\* A record with a new identifier takes the pointer of its subject.
LEMMA RecordPoints ==
    ASSUME NEW h, NEW c, NEW ids, NEW n \in Nat, NEW r,
           Pointed(h, c, ids), DOMAIN h \subseteq 1..n
    PROVE  LET s == r.decision.subject
               previous == IF s \in DOMAIN c THEN {c[s]} ELSE {}
           IN  Pointed(PutAt(h, n + 1, r), PutAt(c, s, n + 1), PutAt(DropAt(ids, previous), n + 1, s))
<1> DEFINE s == r.decision.subject
           previous == IF s \in DOMAIN c THEN {c[s]} ELSE {}
<1>1. PICK h1 : h1 = PutAt(h, n + 1, r) OBVIOUS
<1>2. PICK c1 : c1 = PutAt(c, s, n + 1) OBVIOUS
<1>3. PICK i0 : i0 = DropAt(ids, previous) OBVIOUS
<1>4. PICK i1 : i1 = PutAt(i0, n + 1, s) OBVIOUS
<1>5. /\ DOMAIN h1 = DOMAIN h \cup {n + 1} /\ h1[n + 1] = r
      /\ \A i \in DOMAIN h : i # n + 1 => h1[i] = h[i]
  <2>1. IsPut(h1, h, n + 1, r) BY <1>1, AtPut
  <2> QED BY <2>1 DEF IsPut
<1>6. /\ DOMAIN c1 = DOMAIN c \cup {s} /\ c1[s] = n + 1
      /\ \A t \in DOMAIN c : t # s => c1[t] = c[t]
  <2>1. IsPut(c1, c, s, n + 1) BY <1>2, AtPut
  <2> QED BY <2>1 DEF IsPut
<1>7. DOMAIN i0 = DOMAIN ids \ previous /\ \A i \in DOMAIN ids \ previous : i0[i] = ids[i]
  <2>1. IsDrop(i0, ids, previous) BY <1>3, AtDrop
  <2> QED BY <2>1 DEF IsDrop
<1>8. /\ DOMAIN i1 = DOMAIN i0 \cup {n + 1} /\ i1[n + 1] = s
      /\ \A i \in DOMAIN i0 : i # n + 1 => i1[i] = i0[i]
      /\ i1 = [i \in DOMAIN i1 |-> i1[i]]
  <2>1. IsPut(i1, i0, n + 1, s) BY <1>4, AtPut
  <2> QED BY <2>1 DEF IsPut
<1>9. \A i \in DOMAIN h : i \in Nat /\ i <= n /\ i # n + 1 OBVIOUS
<1>10. /\ \A t \in DOMAIN c : c[t] \in DOMAIN h /\ h[c[t]].decision.subject = t /\ c[t] \in DOMAIN ids /\ ids[c[t]] = t
       /\ \A i \in DOMAIN h : h[i].decision.subject \in DOMAIN c /\ i <= c[h[i].decision.subject]
       /\ \A i \in DOMAIN ids : ids[i] \in DOMAIN c /\ c[ids[i]] = i
  BY DEF Pointed
<1>11. \A i \in previous : s \in DOMAIN c /\ i = c[s] OBVIOUS
<1>12. s \in DOMAIN c => c[s] \in previous OBVIOUS
<1> HIDE DEF previous
<1>13. PICK s0 : s0 = s OBVIOUS
<1>14. ASSUME NEW t \in DOMAIN c1
       PROVE  c1[t] \in DOMAIN h1 /\ h1[c1[t]].decision.subject = t /\ c1[t] \in DOMAIN i1 /\ i1[c1[t]] = t
  <2>1. CASE t = s BY <1>5, <1>6, <1>8, <2>1
  <2>2. CASE t # s
    <3>1. t \in DOMAIN c /\ c1[t] = c[t] /\ c[t] \in DOMAIN h /\ c[t] # n + 1 /\ c[t] \in DOMAIN ids /\ ids[c[t]] = t
          /\ h[c[t]].decision.subject = t
      BY <1>6, <1>9, <1>10, <2>2
    <3>2. c[t] \notin previous BY <1>10, <1>11, <2>2, <3>1
    <3> QED BY <1>5, <1>7, <1>8, <3>1, <3>2
  <2> QED BY <2>1, <2>2
<1>15. ASSUME NEW i \in DOMAIN h1
       PROVE  h1[i].decision.subject \in DOMAIN c1 /\ i <= c1[h1[i].decision.subject]
  <2>1. CASE i = n + 1 BY <1>5, <1>6, <2>1
  <2>2. CASE i # n + 1
    <3>1. i \in DOMAIN h /\ h1[i] = h[i] /\ i \in Nat /\ i <= n BY <1>5, <1>9, <2>2
    <3>2. PICK t : t = h[i].decision.subject OBVIOUS
    <3>3. t \in DOMAIN c /\ i <= c[t] BY <1>10, <3>1, <3>2
    <3>4. t \in DOMAIN c1 /\ i <= c1[t] BY <1>6, <3>1, <3>3
    <3> QED BY <3>1, <3>2, <3>4
  <2> QED BY <2>1, <2>2
<1>16. ASSUME NEW i \in DOMAIN i1
       PROVE  i1[i] \in DOMAIN c1 /\ c1[i1[i]] = i
  <2>1. CASE i = n + 1 BY <1>6, <1>8, <2>1
  <2>2. CASE i # n + 1
    <3>1. i \in DOMAIN ids /\ i \notin previous /\ i1[i] = ids[i] BY <1>7, <1>8, <2>2
    <3>2. ids[i] \in DOMAIN c /\ c[ids[i]] = i BY <1>10, <3>1
    <3>3. ids[i] # s BY <1>12, <3>1, <3>2
    <3> QED BY <1>6, <3>1, <3>2, <3>3
  <2> QED BY <2>1, <2>2
<1>17. Pointed(h1, c1, i1) BY <1>8, <1>14, <1>15, <1>16 DEF Pointed
<1> QED BY <1>1, <1>2, <1>3, <1>4, <1>17 DEF previous

\* Pruning takes the oldest record, and the pointer only when it is the last record of its subject.
LEMMA PruningPoints ==
    ASSUME NEW h, NEW c, NEW ids, Pointed(h, c, ids), DOMAIN h \subseteq Nat, IsFiniteSet(DOMAIN h), MaxHistory \in Nat,
           Cardinality(DOMAIN h) <= MaxHistory + 1
    PROVE  LET pruned == PruneHistory(h, c, ids)
           IN  /\ Pointed(pruned[1], pruned[2], pruned[3])
               /\ DOMAIN pruned[1] \subseteq DOMAIN h /\ \A i \in DOMAIN pruned[1] : pruned[1][i] = h[i]
               /\ Cardinality(DOMAIN pruned[1]) <= MaxHistory
<1>1. CASE Cardinality(DOMAIN h) <= MaxHistory BY <1>1 DEF PruneHistory
<1>2. CASE ~(Cardinality(DOMAIN h) <= MaxHistory)
  <2> DEFINE stale == Min(DOMAIN h)
  <2>1. Cardinality(DOMAIN h) \in Nat BY FS_CardinalityType
  <2>2. DOMAIN h # {} BY <1>2, FS_EmptySet
  <2>3. stale \in DOMAIN h /\ \A i \in DOMAIN h : stale <= i BY <2>2, MinOfNaturals
  <2> HIDE DEF stale
  <2>4. PICK h1 : h1 = DropAt(h, {stale}) OBVIOUS
  <2>5. PICK c1 : c1 = IF stale \in DOMAIN ids THEN DropAt(c, {ids[stale]}) ELSE c OBVIOUS
  <2>6. PICK i1 : i1 = DropAt(ids, {stale}) OBVIOUS
  <2>7. PruneHistory(h, c, ids) = <<h1, c1, i1>> BY <1>2, <2>4, <2>5, <2>6 DEF PruneHistory, stale
  <2>8. DOMAIN h1 = DOMAIN h \ {stale} /\ \A i \in DOMAIN h \ {stale} : h1[i] = h[i]
    <3>1. IsDrop(h1, h, {stale}) BY <2>4, AtDrop
    <3> QED BY <3>1 DEF IsDrop
  <2>9. /\ DOMAIN i1 = DOMAIN ids \ {stale} /\ \A i \in DOMAIN ids \ {stale} : i1[i] = ids[i]
        /\ i1 = [i \in DOMAIN i1 |-> i1[i]]
    <3>1. IsDrop(i1, ids, {stale}) BY <2>6, AtDrop
    <3> QED BY <3>1 DEF IsDrop
  <2>10. /\ \A t \in DOMAIN c : c[t] \in DOMAIN h /\ h[c[t]].decision.subject = t /\ c[t] \in DOMAIN ids /\ ids[c[t]] = t
         /\ \A i \in DOMAIN h : h[i].decision.subject \in DOMAIN c /\ i <= c[h[i].decision.subject]
         /\ \A i \in DOMAIN ids : ids[i] \in DOMAIN c /\ c[ids[i]] = i
    BY DEF Pointed
  <2>11. \A t \in DOMAIN c1 : t \in DOMAIN c /\ c1[t] = c[t] /\ c[t] # stale
    <3>1. CASE stale \in DOMAIN ids
      <4>1. c1 = DropAt(c, {ids[stale]}) BY <2>5, <3>1
      <4>2. DOMAIN c1 = DOMAIN c \ {ids[stale]} /\ \A t \in DOMAIN c \ {ids[stale]} : c1[t] = c[t]
        <5>1. IsDrop(c1, c, {ids[stale]}) BY <4>1, AtDrop
        <5> QED BY <5>1 DEF IsDrop
      <4> QED BY <2>10, <4>2
    <3>2. CASE stale \notin DOMAIN ids BY <2>5, <2>10, <3>2
    <3> QED BY <3>1, <3>2
  <2>12. \A t \in DOMAIN c : t \in DOMAIN c1 \/ (stale \in DOMAIN ids /\ t = ids[stale])
    <3>1. CASE stale \in DOMAIN ids
      <4>1. c1 = DropAt(c, {ids[stale]}) BY <2>5, <3>1
      <4>2. DOMAIN c1 = DOMAIN c \ {ids[stale]}
        <5>1. IsDrop(c1, c, {ids[stale]}) BY <4>1, AtDrop
        <5> QED BY <5>1 DEF IsDrop
      <4> QED BY <3>1, <4>2
    <3>2. CASE stale \notin DOMAIN ids BY <2>5, <3>2
    <3> QED BY <3>1, <3>2
  <2>13. ASSUME NEW t \in DOMAIN c1
         PROVE  c1[t] \in DOMAIN h1 /\ h1[c1[t]].decision.subject = t /\ c1[t] \in DOMAIN i1 /\ i1[c1[t]] = t
    BY <2>8, <2>9, <2>10, <2>11
  <2>14. ASSUME NEW i \in DOMAIN h1
         PROVE  h1[i].decision.subject \in DOMAIN c1 /\ i <= c1[h1[i].decision.subject]
    <3>1. i \in DOMAIN h /\ i # stale /\ h1[i] = h[i] BY <2>8
    <3>2. PICK t : t = h[i].decision.subject OBVIOUS
    <3>3. t \in DOMAIN c /\ i <= c[t] BY <2>10, <3>1, <3>2
    <3>4. c[t] # stale
      <4>1. stale <= i /\ stale \in Nat /\ i \in Nat BY <2>3, <3>1
      <4> QED BY <3>1, <3>3, <4>1
    <3>5. t \in DOMAIN c1 BY <2>10, <2>12, <3>3, <3>4
    <3> QED BY <2>11, <3>1, <3>2, <3>3, <3>5
  <2>15. ASSUME NEW i \in DOMAIN i1
         PROVE  i1[i] \in DOMAIN c1 /\ c1[i1[i]] = i
    <3>1. i \in DOMAIN ids /\ i # stale /\ i1[i] = ids[i] BY <2>9
    <3>2. ids[i] \in DOMAIN c /\ c[ids[i]] = i BY <2>10, <3>1
    <3>3. ids[i] \in DOMAIN c1 BY <2>10, <2>12, <3>1, <3>2
    <3> QED BY <2>11, <3>1, <3>2, <3>3
  <2>16. Pointed(h1, c1, i1) BY <2>9, <2>13, <2>14, <2>15 DEF Pointed
  <2>17. Cardinality(DOMAIN h1) = Cardinality(DOMAIN h) - 1 BY <2>3, <2>8, FS_RemoveElement
  <2>18. Cardinality(DOMAIN h1) <= MaxHistory BY <2>1, <2>17
  <2>19. PICK pruned : pruned = PruneHistory(h, c, ids) OBVIOUS
  <2>20. pruned[1] = h1 /\ pruned[2] = c1 /\ pruned[3] = i1 BY <2>7, <2>19
  <2> QED BY <2>8, <2>16, <2>18, <2>19, <2>20
<1> QED BY <1>1, <1>2

--------------------------------
(* The invariant of the log. *)

Named == (Projects \cup {f.project : f \in PolicyFiles} \cup {f.named : f \in PolicyFiles}) \X ({Unset} \cup {f.filename : f \in PolicyFiles})
         \X (ReadActions \cup {"upload"})

\* The decisions policy c can come to: a decision about a project is what c says of the project.
Faithful(c) ==
    {d \in [subject : Named, rule : Rules] :
        d.subject[2] = Unset => d.rule = EvaluateProject(c, d.subject[3], d.subject[1])}

\* No record is from the future, and those of the generation in force are of the policy in force.
Judged(h, c, g) ==
    \A i \in DOMAIN h :
        /\ h[i].generation.policy \in Nat /\ h[i].generation.policy <= g
        /\ h[i].generation.policy = g => h[i].decision \in Faithful(c)

\* A reader under way saw each record at or above its cursor that was there when it began and still is.
ReaderIsSound(r, h, n) ==
    /\ r.pc = "reading" =>
          /\ r.cursor \in Int /\ r.cursor <= n + 1
          /\ r.start \subseteq 1..n /\ r.seen \subseteq Int
          /\ \A i \in r.seen : i >= r.cursor
          /\ \A i \in r.start : i \in DOMAIN h => (r.denied => h[i].decision.rule # "none")
          /\ \A i \in r.start : i \in DOMAIN h /\ i >= r.cursor => i \in r.seen
    /\ r.pc = "done" => r.missed = {} /\ r.twice = {}

LogInv ==
    /\ recorded \in Nat /\ DOMAIN history \subseteq 1..recorded
    /\ Cardinality(DOMAIN history) <= MaxHistory
    /\ Pointed(history, current, currentIds)
    /\ generation \in [repository : Nat, policy : Nat]
    /\ Judged(history, config, generation.policy)
    /\ unrecorded \in Seq(Faithful(config))
    /\ ReaderIsSound(reader, history, recorded)

PolicyInv == LogInv /\ PolicyIsCoherent

LEMMA FiniteNaturals ==
    ASSUME NEW n \in Nat, NEW S \in SUBSET (1..n)
    PROVE  IsFiniteSet(S) /\ Cardinality(S) \in Nat /\ S \subseteq Nat /\ \A i \in S : i \in Nat /\ i <= n
<1>1. \A i \in 1..n : i \in Nat /\ i <= n OBVIOUS
<1>2. IsFiniteSet(1..n) BY FS_Interval
<1>3. IsFiniteSet(S) BY <1>2, FS_Subset
<1> QED BY <1>1, <1>3, FS_CardinalityType

LEMMA MaxOfNaturals ==
    ASSUME NEW S, NEW m \in S, \A i \in S : i \in Nat /\ i <= m
    PROVE  Max(S) = m
<1>1. m \in Nat /\ \A i \in S : m >= i OBVIOUS
<1>2. Max(S) \in S /\ \A i \in S : Max(S) >= i BY <1>1, Zenon DEF Max
<1>3. PICK x : x = Max(S) OBVIOUS
<1>4. x \in Nat /\ x <= m /\ x >= m BY <1>2, <1>3
<1> QED BY <1>1, <1>3, <1>4

LEMMA LogInvSound == LogInv => DecisionLogIsSound
<1> SUFFICES ASSUME LogInv PROVE DecisionLogIsSound OBVIOUS
<1>1. \A i \in DOMAIN history : i \in Nat BY FiniteNaturals DEF LogInv
<1>2. /\ \A s \in DOMAIN current : /\ current[s] \in DOMAIN history /\ history[current[s]].decision.subject = s
                                   /\ current[s] \in DOMAIN currentIds /\ currentIds[current[s]] = s
      /\ \A i \in DOMAIN history : history[i].decision.subject \in DOMAIN current /\ i <= current[history[i].decision.subject]
      /\ \A i \in DOMAIN currentIds : currentIds[i] \in DOMAIN current /\ current[currentIds[i]] = i
      /\ currentIds = [i \in DOMAIN currentIds |-> currentIds[i]]
  BY DEF LogInv, Pointed
<1>3. ASSUME NEW s \in DOMAIN current
      PROVE  current[s] = Max({id \in DOMAIN history : history[id].decision.subject = s})
  <2>1. PICK S : S = {id \in DOMAIN history : history[id].decision.subject = s} OBVIOUS
  <2>2. PICK m : m = current[s] OBVIOUS
  <2>3. m \in S /\ \A i \in S : i \in Nat /\ i <= m BY <1>1, <1>2, <2>1, <2>2
  <2>4. Max(S) = m BY <2>3, MaxOfNaturals
  <2> QED BY <2>1, <2>2, <2>4
<1>4. currentIds = [id \in {current[s] : s \in DOMAIN current} |-> history[id].decision.subject]
  <2>1. DOMAIN currentIds = {current[s] : s \in DOMAIN current} BY <1>2
  <2>2. \A i \in DOMAIN currentIds : currentIds[i] = history[i].decision.subject BY <1>2
  <2>3. PICK D : D = DOMAIN currentIds OBVIOUS
  <2>4. currentIds = [i \in D |-> currentIds[i]] BY <1>2, <2>3
  <2>5. currentIds = [i \in D |-> history[i].decision.subject] BY <2>2, <2>3, <2>4
  <2> QED BY <2>1, <2>3, <2>5
<1>5. ASSUME NEW id \in DOMAIN history, Fresh(history[id]), history[id].decision.subject[2] = Unset
      PROVE  history[id].decision.rule
                = EvaluateProject(config, history[id].decision.subject[3], history[id].decision.subject[1])
  <2>1. history[id].decision \in Faithful(config) BY <1>5 DEF LogInv, Judged, Fresh
  <2> QED BY <1>5, <2>1 DEF Faithful
<1>6. reader.pc = "done" => reader.missed = {} /\ reader.twice = {} BY DEF LogInv, ReaderIsSound
<1> QED BY <1>2, <1>3, <1>4, <1>5, <1>6 DEF LogInv, DecisionLogIsSound

LEMMA LogInvInit == PolicyAssumption /\ PolicyInit => LogInv
<1> SUFFICES ASSUME PolicyAssumption, PolicyInit PROVE LogInv OBVIOUS
<1>1. history = <<>> /\ current = <<>> /\ currentIds = <<>> /\ recorded = 0 /\ unrecorded = <<>>
      /\ generation = [repository |-> 0, policy |-> 1] /\ reader = [pc |-> "idle"]
  BY DEF PolicyInit
<1>2. DOMAIN history = {} /\ DOMAIN current = {} /\ DOMAIN currentIds = {} BY <1>1
<1>3. Cardinality(DOMAIN history) <= MaxHistory BY <1>2, FS_EmptySet DEF PolicyAssumption
<1>4. currentIds = [i \in DOMAIN currentIds |-> currentIds[i]] BY <1>1
<1>5. Pointed(history, current, currentIds) BY <1>2, <1>4 DEF Pointed
<1>6. Judged(history, config, generation.policy) BY <1>2 DEF Judged
<1>7. unrecorded \in Seq(Faithful(config)) BY <1>1
<1>8. ReaderIsSound(reader, history, recorded) BY <1>1 DEF ReaderIsSound
<1> QED BY <1>1, <1>2, <1>3, <1>5, <1>6, <1>7, <1>8 DEF LogInv

--------------------------------
(* The steps. *)

\* What the steps that neither record nor start leave of the invariant.
LEMMA LogUntouched ==
    ASSUME LogInv, UNCHANGED <<config, history, current, currentIds, recorded, generation, reader>>,
           unrecorded' \in Seq(Faithful(config))
    PROVE  LogInv'
<1>1. /\ config' = config /\ history' = history /\ current' = current /\ currentIds' = currentIds
      /\ recorded' = recorded /\ generation' = generation /\ reader' = reader
  OBVIOUS
<1> QED BY <1>1 DEF LogInv

LEMMA FaithfulFile ==
    ASSUME PolicyAssumption, NEW c, NEW f \in PolicyFiles, NEW a \in ReadActions \cup {"upload"}, NEW sz, NEW at,
           NEW predicates, NEW q, q = f.project \/ q = f.named
    PROVE  Decided(q, f.filename, a, EvaluateFacts(c, a, q, f, sz, at, predicates)) \in Faithful(c)
<1>1. PICK r : r = EvaluateFacts(c, a, q, f, sz, at, predicates) OBVIOUS
<1>2. r \in Rules BY <1>1, FactsPass
<1>3. PICK n : n = f.filename OBVIOUS
<1>4. n # Unset BY <1>3 DEF PolicyAssumption
<1>5. <<q, n, a>> \in Named BY <1>3 DEF Named
<1>6. Decided(q, n, a, r) \in Faithful(c) BY <1>2, <1>4, <1>5 DEF Decided, Subject, Faithful
<1> QED BY <1>1, <1>3, <1>6

LEMMA FaithfulProject ==
    ASSUME NEW c, NEW p \in Projects, NEW a \in ReadActions
    PROVE  Decided(p, Unset, a, EvaluateProject(c, a, p)) \in Faithful(c)
<1>1. PICK r : r = EvaluateProject(c, a, p) OBVIOUS
<1>2. r \in Rules BY <1>1, FactsPass
<1>3. <<p, Unset, a>> \in Named BY DEF Named
<1>4. Decided(p, Unset, a, r) \in Faithful(c) BY <1>1, <1>2, <1>3 DEF Decided, Subject, Faithful
<1> QED BY <1>1, <1>4

LEMMA SetInOrder ==
    ASSUME NEW S, IsFiniteSet(S)
    PROVE  Cardinality(S) \in Nat /\ SetToSeq(S) \in [1..Cardinality(S) -> S]
<1>1. Cardinality(S) \in Nat /\ ExistsBijection(1..Cardinality(S), S) BY FS_CardinalityType
<1>2. PICK n : n = Cardinality(S) OBVIOUS
<1>3. \E f \in [1..n -> S] : IsInjective(f) BY <1>1, <1>2 DEF ExistsBijection, Bijection, Injection, IsInjective
<1>4. SetToSeq(S) \in [1..n -> S] BY <1>2, <1>3, Zenon DEF SetToSeq
<1> QED BY <1>1, <1>2, <1>4

LEMMA ApplyDetailLogs ==
    ASSUME PolicyAssumption, LogInv, NEW a \in ReadActions, NEW p \in Projects, NEW files \in SUBSET PolicyFiles, NEW at,
           \A f \in files : f.project = p, ApplyDetail(a, p, files, at)
    PROVE  LogInv'
<1> DEFINE rule == EvaluateProject(config, a, p)
           judged == [f \in files |-> EvaluateFacts(config, a, p, f, f.size, at, {})]
           first == Decided(p, Unset, a, rule)
           rest == [i \in 1..Cardinality(files) |->
                      LET f == SetToSeq(files)[i] IN Decided(p, f.filename, a, judged[f])]
<1>1. UNCHANGED <<config, history, current, currentIds, recorded, generation, reader>> BY DEF ApplyDetail, Check
<1>2. unrecorded' = IF rule # "none" THEN <<first>> ELSE <<first>> \o rest BY DEF ApplyDetail, Check
<1>3. first \in Faithful(config) BY FaithfulProject
<1>4. IsFiniteSet(files) BY FS_Subset DEF PolicyAssumption
<1>5. Cardinality(files) \in Nat /\ SetToSeq(files) \in [1..Cardinality(files) -> files] BY <1>4, SetInOrder
<1>6. \A i \in 1..Cardinality(files) :
         LET f == SetToSeq(files)[i] IN Decided(p, f.filename, a, judged[f]) \in Faithful(config)
  <2>1. ASSUME NEW f \in files
        PROVE  Decided(p, f.filename, a, judged[f]) \in Faithful(config)
    <3>1. judged[f] = EvaluateFacts(config, a, p, f, f.size, at, {}) OBVIOUS
    <3>2. f \in PolicyFiles /\ p = f.project OBVIOUS
    <3> HIDE DEF judged
    <3> QED BY <3>1, <3>2, FaithfulFile
  <2> HIDE DEF judged
  <2> QED BY <1>5, <2>1
<1>7. rest \in Seq(Faithful(config))
  <2> HIDE DEF judged
  <2>1. PICK n : n = Cardinality(files) OBVIOUS
  <2>2. rest \in [1..n -> Faithful(config)] BY <1>6, <2>1
  <2> HIDE DEF rest
  <2> QED BY <1>5, <2>1, <2>2
<1>8. unrecorded' \in Seq(Faithful(config))
  <2> HIDE DEF first, rest, rule
  <2>1. <<first>> \in Seq(Faithful(config)) BY <1>3
  <2>2. <<first>> \o rest \in Seq(Faithful(config)) BY <1>7, <2>1
  <2> QED BY <1>2, <2>1, <2>2
<1> QED BY <1>1, <1>8, LogUntouched

LEMMA ChecksLog ==
    ASSUME PolicyAssumption, LogInv, NEW f \in PolicyFiles,
           \/ \E size : CheckDownload(f, size)
           \/ \E predicates : CheckUpload(f, predicates)
    PROVE  LogInv' /\ PolicyIsCoherent'
<1>1. ASSUME NEW size, CheckDownload(f, size)
      PROVE  LogInv' /\ PolicyIsCoherent'
  <2>1. UNCHANGED <<config, history, current, currentIds, recorded, generation, reader>> /\ applied'.kind = "download"
    BY <1>1 DEF CheckDownload, Check
  <2>2. unrecorded' = <<Decided(f.named, f.filename, "serve", EvaluateFacts(config, "serve", f.named, f, size, None, {}))>>
    BY <1>1 DEF CheckDownload, Check, DownloadRule
  <2>3. Decided(f.named, f.filename, "serve", EvaluateFacts(config, "serve", f.named, f, size, None, {})) \in Faithful(config)
    BY FaithfulFile DEF ReadActions
  <2>4. unrecorded' \in Seq(Faithful(config)) BY <2>2, <2>3
  <2> QED BY <2>1, <2>4, LogUntouched DEF PolicyIsCoherent
<1>2. ASSUME NEW predicates, CheckUpload(f, predicates)
      PROVE  LogInv' /\ PolicyIsCoherent'
  <2>1. UNCHANGED <<config, history, current, currentIds, recorded, generation, reader>> /\ applied'.kind = "upload"
    BY <1>2 DEF CheckUpload, Check
  <2>2. unrecorded' = <<Decided(f.project, f.filename, "upload", EvaluateFacts(config, "upload", f.project, f, f.size, None, predicates))>>
    BY <1>2 DEF CheckUpload, Check
  <2>3. Decided(f.project, f.filename, "upload", EvaluateFacts(config, "upload", f.project, f, f.size, None, predicates)) \in Faithful(config)
    BY FaithfulFile
  <2>4. unrecorded' \in Seq(Faithful(config)) BY <2>2, <2>3
  <2> QED BY <2>1, <2>4, LogUntouched DEF PolicyIsCoherent
<1> QED BY <1>1, <1>2

LEMMA LoseDecisionLogs ==
    ASSUME LogInv, LoseDecision
    PROVE  LogInv'
<1>1. UNCHANGED <<config, history, current, currentIds, recorded, generation, reader>>
      /\ unrecorded # <<>> /\ unrecorded' = Tail(unrecorded)
  BY DEF LoseDecision
<1>2. unrecorded \in Seq(Faithful(config)) BY DEF LogInv
<1>3. Tail(unrecorded) \in Seq(Faithful(config)) BY <1>1, <1>2, HeadTailProperties
<1> QED BY <1>1, <1>3, LogUntouched

\* A reader loses nothing to a record above its cursor nor to a pruned one.
LEMMA ReaderStays ==
    ASSUME NEW r, NEW h, NEW n \in Nat, NEW k, ReaderIsSound(r, h, n),
           \A i \in DOMAIN k : i = n + 1 \/ (i \in DOMAIN h /\ k[i] = h[i])
    PROVE  ReaderIsSound(r, k, n + 1)
<1>1. CASE r.pc = "reading"
  <2>1. /\ r.cursor \in Int /\ r.cursor <= n + 1
        /\ r.start \subseteq 1..n /\ r.seen \subseteq Int
        /\ \A i \in r.seen : i >= r.cursor
        /\ \A i \in r.start : i \in DOMAIN h => (r.denied => h[i].decision.rule # "none")
        /\ \A i \in r.start : i \in DOMAIN h /\ i >= r.cursor => i \in r.seen
    BY <1>1 DEF ReaderIsSound
  <2>2. r.cursor <= n + 1 + 1 /\ r.start \subseteq 1..n + 1 BY <2>1
  <2>3. \A i \in r.start : i # n + 1 BY <2>1
  <2>4. \A i \in r.start : i \in DOMAIN k => i \in DOMAIN h /\ k[i] = h[i] BY <2>3
  <2> QED BY <1>1, <2>1, <2>2, <2>4 DEF ReaderIsSound
<1> QED BY <1>1 DEF ReaderIsSound

LEMMA RecordDecisionLogs ==
    ASSUME PolicyAssumption, LogInv, RecordDecision
    PROVE  LogInv'
<1>1. PICK d : d = unrecorded[1] OBVIOUS
<1>2. PICK s : s = d.subject OBVIOUS
<1>3. PICK r : r = [decision |-> d, generation |-> generation] OBVIOUS
<1>4. PICK n : n = recorded OBVIOUS
<1>5. PICK previous : previous = IF s \in DOMAIN current THEN {current[s]} ELSE {} OBVIOUS
<1>6. PICK h : h = PutAt(history, n + 1, r) OBVIOUS
<1>7. PICK c : c = PutAt(current, s, n + 1) OBVIOUS
<1>8. PICK ids : ids = PutAt(DropAt(currentIds, previous), n + 1, s) OBVIOUS
<1>9. PICK pruned : pruned = PruneHistory(h, c, ids) OBVIOUS
<1>10. /\ unrecorded # <<>> /\ recorded' = n + 1 /\ unrecorded' = Tail(unrecorded)
       /\ history' = pruned[1] /\ current' = pruned[2] /\ currentIds' = pruned[3]
       /\ config' = config /\ generation' = generation /\ reader' = reader
  BY <1>1, <1>2, <1>3, <1>4, <1>5, <1>6, <1>7, <1>8, <1>9 DEF RecordDecision
<1>11. n \in Nat /\ DOMAIN history \subseteq 1..n /\ Cardinality(DOMAIN history) <= MaxHistory BY <1>4 DEF LogInv
<1>12. MaxHistory \in Nat BY DEF PolicyAssumption
<1>13. unrecorded \in Seq(Faithful(config)) /\ generation \in [repository : Nat, policy : Nat] BY DEF LogInv
<1>14. d \in Faithful(config) /\ Tail(unrecorded) \in Seq(Faithful(config)) BY <1>1, <1>10, <1>13, HeadTailProperties
<1>15. r.decision = d /\ r.generation = generation /\ r.decision.subject = s BY <1>2, <1>3
<1>16. Pointed(h, c, ids)
  <2>1. Pointed(history, current, currentIds) BY DEF LogInv
  <2> QED BY <1>5, <1>6, <1>7, <1>8, <1>11, <1>15, <2>1, RecordPoints
<1>17. IsPut(h, history, n + 1, r) BY <1>6, AtPut
<1>18. DOMAIN h = DOMAIN history \cup {n + 1} /\ h[n + 1] = r /\ \A i \in DOMAIN history : i # n + 1 => h[i] = history[i]
  BY <1>17 DEF IsPut
<1>19. IsFiniteSet(DOMAIN history) /\ n + 1 \notin DOMAIN history /\ Cardinality(DOMAIN history) \in Nat
       /\ \A i \in DOMAIN history : i # n + 1
  BY <1>11, FiniteNaturals
<1>20. IsFiniteSet(DOMAIN h) /\ Cardinality(DOMAIN h) <= MaxHistory + 1
  <2>1. IsFiniteSet(DOMAIN h) /\ Cardinality(DOMAIN h) = Cardinality(DOMAIN history) + 1 BY <1>18, <1>19, FS_AddElement
  <2> QED BY <1>11, <1>12, <1>19, <2>1
<1>21. DOMAIN h \subseteq Nat /\ DOMAIN h \subseteq 1..n + 1 BY <1>11, <1>18
<1>22. /\ Pointed(pruned[1], pruned[2], pruned[3])
       /\ DOMAIN pruned[1] \subseteq DOMAIN h /\ \A i \in DOMAIN pruned[1] : pruned[1][i] = h[i]
       /\ Cardinality(DOMAIN pruned[1]) <= MaxHistory
  BY <1>9, <1>12, <1>16, <1>20, <1>21, PruningPoints
<1>23. PICK k : k = pruned[1] OBVIOUS
<1>24. \A i \in DOMAIN k : (i = n + 1 /\ k[i] = r) \/ (i \in DOMAIN history /\ k[i] = history[i])
  BY <1>18, <1>19, <1>22, <1>23
<1>25. Judged(k, config, generation.policy)
  <2>1. Judged(history, config, generation.policy) BY DEF LogInv
  <2>2. PICK g : g = generation.policy OBVIOUS
  <2>3. g \in Nat BY <1>13, <2>2
  <2>4. ASSUME NEW i \in DOMAIN k
        PROVE  /\ k[i].generation.policy \in Nat /\ k[i].generation.policy <= g
               /\ k[i].generation.policy = g => k[i].decision \in Faithful(config)
    <3>1. CASE i = n + 1 /\ k[i] = r BY <1>14, <1>15, <2>2, <2>3, <3>1
    <3>2. CASE i \in DOMAIN history /\ k[i] = history[i] BY <2>1, <2>2, <3>2 DEF Judged
    <3> QED BY <1>24, <3>1, <3>2
  <2> QED BY <2>2, <2>4 DEF Judged
<1>26. ReaderIsSound(reader, k, n + 1)
  <2>1. ReaderIsSound(reader, history, n) BY <1>4 DEF LogInv
  <2> QED BY <1>11, <1>24, <2>1, ReaderStays
<1>27. history' = k /\ DOMAIN k \subseteq 1..n + 1 /\ n + 1 \in Nat /\ Cardinality(DOMAIN k) <= MaxHistory
  BY <1>10, <1>11, <1>21, <1>22, <1>23
<1>28. Pointed(k, current', currentIds') BY <1>10, <1>22, <1>23
<1> QED BY <1>10, <1>13, <1>14, <1>25, <1>26, <1>27, <1>28 DEF LogInv

LEMMA StartWithLogs ==
    ASSUME LogInv, NEW c, StartWith(c)
    PROVE  LogInv'
<1>1. PICK g : g = generation.policy OBVIOUS
<1>2. PICK q : q = generation.repository OBVIOUS
<1>3. g \in Nat /\ q \in Nat /\ generation = [repository |-> q, policy |-> g] BY <1>1, <1>2 DEF LogInv
<1>4. /\ config' = c /\ generation' = [generation EXCEPT !.policy = @ + 1] /\ unrecorded' = <<>>
      /\ history' = history /\ current' = current /\ currentIds' = currentIds /\ recorded' = recorded /\ reader' = reader
  BY DEF StartWith
<1>5. generation' = [repository |-> q, policy |-> g + 1] BY <1>3, <1>4
<1>6. generation' \in [repository : Nat, policy : Nat] /\ generation'.policy = g + 1 BY <1>3, <1>5
<1>7. Judged(history, c, g + 1)
  <2>1. Judged(history, config, g) BY <1>1 DEF LogInv
  <2> QED BY <1>3, <2>1 DEF Judged
<1>8. unrecorded' \in Seq(Faithful(c)) BY <1>4
<1> QED BY <1>4, <1>6, <1>7, <1>8 DEF LogInv

LEMMA RepositoryChangesLogs ==
    ASSUME LogInv, RepositoryChanges
    PROVE  LogInv'
<1>1. PICK g : g = generation.policy OBVIOUS
<1>2. PICK q : q = generation.repository OBVIOUS
<1>3. g \in Nat /\ q \in Nat /\ generation = [repository |-> q, policy |-> g] BY <1>1, <1>2 DEF LogInv
<1>4. /\ config' = config /\ generation' = [generation EXCEPT !.repository = @ + 1] /\ unrecorded' = unrecorded
      /\ history' = history /\ current' = current /\ currentIds' = currentIds /\ recorded' = recorded /\ reader' = reader
  BY DEF RepositoryChanges
<1>5. generation' = [repository |-> q + 1, policy |-> g] BY <1>3, <1>4
<1>6. generation' \in [repository : Nat, policy : Nat] /\ generation'.policy = generation.policy BY <1>1, <1>3, <1>5
<1> QED BY <1>4, <1>6 DEF LogInv

--------------------------------
(* A page of the log. *)

\* The newest of a set of records, as many as a page takes.
Newest(S) == {id \in S : Cardinality({j \in S : j > id}) < QueryLimit}

LEMMA LargestNatural ==
    ASSUME NEW n \in Nat, NEW S \in SUBSET (1..n), S # {}
    PROVE  \E m \in S : \A i \in S : i <= m
<1>1. \A i \in S : i \in Nat /\ i <= n BY FiniteNaturals
<1>2. PICK B : B = {b \in Nat : \A i \in S : i <= b} OBVIOUS
<1>3. B \in SUBSET Nat /\ n \in B BY <1>1, <1>2
<1>4. PICK m \in B : \A b \in B : m <= b BY <1>3, LeastNatural
<1>5. m \in Nat /\ \A i \in S : i <= m BY <1>2, <1>4
<1>6. m \in S
  <2>1. SUFFICES ASSUME m \notin S PROVE FALSE OBVIOUS
  <2>2. PICK x \in S : TRUE OBVIOUS
  <2>3. m \in Nat /\ x \in Nat /\ x <= m /\ 0 < x BY <1>1, <1>5
  <2>4. m - 1 \in Nat BY <2>3
  <2>5. \A i \in S : i <= m - 1 BY <1>1, <1>5, <2>1
  <2>6. m - 1 \in B BY <1>2, <2>4, <2>5
  <2> QED BY <1>4, <1>5, <2>6
<1> QED BY <1>5, <1>6

LEMMA NewestIsAnEnd ==
    ASSUME NEW n \in Nat, NEW S \in SUBSET (1..n), QueryLimit \in Nat \ {0}
    PROVE  /\ Newest(S) \subseteq S
           /\ S # {} => Newest(S) # {}
           /\ \A i \in Newest(S), j \in S : j > i => j \in Newest(S)
<1>1. \A i \in S : i \in Nat /\ i <= n BY FiniteNaturals
<1>2. ASSUME S # {}
      PROVE  Newest(S) # {}
  <2>1. PICK m \in S : \A i \in S : i <= m BY <1>2, LargestNatural
  <2>2. {j \in S : j > m} = {}
    <3>1. \A j \in S : ~(j > m) BY <1>1, <2>1
    <3> QED BY <3>1
  <2>3. Cardinality({j \in S : j > m}) = 0 BY <2>2, FS_EmptySet
  <2>4. Cardinality({j \in S : j > m}) < QueryLimit BY <2>3
  <2> QED BY <2>4 DEF Newest
<1>3. ASSUME NEW i \in Newest(S), NEW j \in S, j > i
      PROVE  j \in Newest(S)
  <2>1. PICK A : A = {x \in S : x > i} OBVIOUS
  <2>2. PICK B : B = {x \in S : x > j} OBVIOUS
  <2>3. i \in S /\ Cardinality(A) < QueryLimit BY <2>1 DEF Newest
  <2>4. B \subseteq A
    <3>1. \A x \in S : x > j => x > i BY <1>1, <1>3, <2>3
    <3> QED BY <2>1, <2>2, <3>1
  <2>5. IsFiniteSet(A) BY <2>1, FiniteNaturals, FS_Subset
  <2>6. Cardinality(B) <= Cardinality(A) /\ Cardinality(A) \in Nat /\ Cardinality(B) \in Nat
    BY <2>4, <2>5, FS_Subset, FS_CardinalityType
  <2>7. Cardinality(B) < QueryLimit BY <2>3, <2>6
  <2> QED BY <2>2, <2>7 DEF Newest
<1> QED BY <1>2, <1>3 DEF Newest

LEMMA QueryDecisionsLogs ==
    ASSUME PolicyAssumption, LogInv, NEW denied \in BOOLEAN, QueryDecisions(denied)
    PROVE  LogInv'
<1> DEFINE cursor == IF reader.pc = "reading" THEN reader.cursor ELSE recorded + 1
           wanted == IF reader.pc = "reading" THEN reader.denied ELSE denied
           matching == {id \in DOMAIN history : id < cursor /\ (wanted => history[id].decision.rule # "none")}
           page == Newest(matching)
           start == IF reader.pc = "reading" THEN reader.start ELSE matching
           seen == IF reader.pc = "reading" THEN reader.seen ELSE {}
<1>1. reader' = IF matching # page
                THEN [pc |-> "reading", denied |-> wanted, start |-> start, seen |-> seen \cup page, cursor |-> Min(page)]
                ELSE [pc |-> "done", missed |-> (start \cap DOMAIN history) \ (seen \cup page), twice |-> seen \cap page]
  BY DEF QueryDecisions, Newest
<1>2. /\ config' = config /\ generation' = generation /\ unrecorded' = unrecorded
      /\ history' = history /\ current' = current /\ currentIds' = currentIds /\ recorded' = recorded
  BY DEF QueryDecisions
<1>3. PICK n : n = recorded OBVIOUS
<1>4. n \in Nat /\ DOMAIN history \subseteq 1..n /\ ReaderIsSound(reader, history, n) BY <1>3 DEF LogInv
<1>5. \A i \in DOMAIN history : i \in Nat /\ i <= n BY <1>4, FiniteNaturals
<1>6. /\ cursor \in Int /\ cursor <= n + 1
      /\ start \subseteq 1..n /\ seen \subseteq Int
      /\ \A i \in seen : i >= cursor
      /\ \A i \in start : i \in DOMAIN history => (wanted => history[i].decision.rule # "none")
      /\ \A i \in start : i \in DOMAIN history /\ i >= cursor => i \in seen
  <2>1. CASE reader.pc = "reading"
    <3>1. /\ reader.cursor \in Int /\ reader.cursor <= n + 1
          /\ reader.start \subseteq 1..n /\ reader.seen \subseteq Int
          /\ \A i \in reader.seen : i >= reader.cursor
          /\ \A i \in reader.start : i \in DOMAIN history => (reader.denied => history[i].decision.rule # "none")
          /\ \A i \in reader.start : i \in DOMAIN history /\ i >= reader.cursor => i \in reader.seen
      BY <1>4, <2>1 DEF ReaderIsSound
    <3>2. cursor = reader.cursor /\ start = reader.start /\ seen = reader.seen /\ wanted = reader.denied BY <2>1
    <3> HIDE DEF cursor, start, seen, wanted
    <3> QED BY <3>1, <3>2
  <2>2. CASE reader.pc # "reading"
    <3>1. cursor = n + 1 /\ start = matching /\ seen = {} /\ wanted = denied BY <1>3, <2>2
    <3>2. \A i \in matching : i \in DOMAIN history /\ i < cursor /\ (wanted => history[i].decision.rule # "none")
      OBVIOUS
    <3> HIDE DEF cursor, start, seen, wanted, matching
    <3> QED BY <1>4, <1>5, <3>1, <3>2
  <2> QED BY <2>1, <2>2
<1>7. \A i \in DOMAIN history : i \in matching <=> i < cursor /\ (wanted => history[i].decision.rule # "none") OBVIOUS
<1>8. matching \in SUBSET (1..n) /\ matching \subseteq DOMAIN history BY <1>4
<1> HIDE DEF cursor, start, seen, wanted, matching
<1>9. QueryLimit \in Nat \ {0} BY DEF PolicyAssumption
<1>10. /\ page \subseteq matching
       /\ matching # {} => page # {}
       /\ \A i \in page, j \in matching : j > i => j \in page
  <2>1. PICK newest : newest = Newest(matching) OBVIOUS
  <2>2. /\ newest \subseteq matching
        /\ matching # {} => newest # {}
        /\ \A i \in newest, j \in matching : j > i => j \in newest
    BY <1>4, <1>8, <1>9, <2>1, NewestIsAnEnd
  <2>3. page = newest BY <2>1
  <2> HIDE DEF page
  <2> QED BY <2>2, <2>3
<1> HIDE DEF page
<1>11. ReaderIsSound(reader', history, n)
  <2>1. CASE matching = page
    <3>1. reader' = [pc |-> "done", missed |-> (start \cap DOMAIN history) \ (seen \cup page), twice |-> seen \cap page]
      BY <1>1, <2>1
    <3>2. (start \cap DOMAIN history) \ (seen \cup page) = {}
      <4>1. ASSUME NEW i \in start, i \in DOMAIN history
            PROVE  i \in seen \/ i \in page
        <5>1. i \in Nat BY <1>5, <4>1
        <5>2. CASE i >= cursor BY <1>6, <4>1, <5>2
        <5>3. CASE i < cursor BY <1>6, <1>7, <2>1, <4>1, <5>3
        <5> QED BY <1>6, <5>1, <5>2, <5>3
      <4> QED BY <4>1
    <3>3. seen \cap page = {}
      <4>1. \A i \in page : i \in DOMAIN history /\ i \in Nat /\ i < cursor BY <1>5, <1>7, <1>8, <1>10
      <4> QED BY <1>6, <4>1
    <3>4. reader'.pc = "done" /\ reader'.missed = {} /\ reader'.twice = {} BY <3>1, <3>2, <3>3
    <3> QED BY <3>4 DEF ReaderIsSound
  <2>2. CASE matching # page
    <3>1. reader' = [pc |-> "reading", denied |-> wanted, start |-> start, seen |-> seen \cup page, cursor |-> Min(page)]
      BY <1>1, <2>2
    <3>2. PICK m : m = Min(page) OBVIOUS
    <3>3. page \in SUBSET Nat /\ page # {} /\ \A i \in page : i \in DOMAIN history /\ i \in Nat /\ i <= n /\ i < cursor
      BY <1>5, <1>7, <1>8, <1>10, <2>2
    <3>4. m \in page /\ \A i \in page : m <= i BY <3>2, <3>3, MinOfNaturals
    <3>5. m \in Nat /\ m < cursor /\ m <= n + 1 BY <1>4, <3>3, <3>4
    <3>6. PICK met : met = seen \cup page OBVIOUS
    <3>7. met \subseteq Int /\ \A i \in met : i >= m BY <1>6, <3>3, <3>4, <3>5, <3>6
    <3>8. ASSUME NEW i \in start, i \in DOMAIN history, i >= m
          PROVE  i \in met
      <4>1. i \in Nat BY <1>5, <3>8
      <4>2. CASE i >= cursor BY <1>6, <3>6, <3>8, <4>2
      <4>3. CASE i < cursor
        <5>1. i \in matching BY <1>6, <1>7, <3>8, <4>3
        <5>2. i = m \/ i > m BY <3>5, <3>8, <4>1
        <5> QED BY <1>10, <3>4, <3>6, <5>1, <5>2
      <4> QED BY <1>6, <4>1, <4>2, <4>3
    <3>9. /\ reader'.pc = "reading" /\ reader'.denied = wanted /\ reader'.start = start /\ reader'.seen = met
          /\ reader'.cursor = m
      BY <3>1, <3>2, <3>6
    <3>10. PICK r : r = reader' OBVIOUS
    <3>11. /\ r.pc = "reading" /\ r.denied = wanted /\ r.start = start /\ r.seen = met /\ r.cursor = m BY <3>9, <3>10
    <3>12. m \in Int /\ m <= n + 1 /\ start \subseteq 1..n BY <1>6, <3>5
    <3>13. ReaderIsSound(r, history, n) BY <1>6, <3>7, <3>8, <3>11, <3>12 DEF ReaderIsSound
    <3> QED BY <3>10, <3>13
  <2> QED BY <2>1, <2>2
<1> QED BY <1>2, <1>3, <1>4, <1>11 DEF LogInv

--------------------------------

LEMMA PolicyInvInit == PolicyAssumption /\ PolicyInit => PolicyInv
<1>1. PolicyInit => PolicyIsCoherent BY DEF PolicyInit, PolicyIsCoherent
<1> QED BY <1>1, LogInvInit DEF PolicyInv

LEMMA PolicyInvStep == PolicyAssumption /\ PolicyInv /\ [PolicyNext]_policyVars => PolicyInv'
<1> SUFFICES ASSUME PolicyAssumption, LogInv, PolicyIsCoherent, [PolicyNext]_policyVars
             PROVE  LogInv' /\ PolicyIsCoherent'
  BY DEF PolicyInv
<1>1. ASSUME NEW a \in ReadActions, NEW p \in Projects, NEW files \in SUBSET PolicyFiles,
             NEW at \in {None} \cup 0..MaxPolicyNow, ApplyDetail(a, p, {f \in files : f.project = p}, at)
      PROVE  LogInv' /\ PolicyIsCoherent'
  <2>1. PICK listed : listed = {f \in files : f.project = p} OBVIOUS
  <2>2. listed \in SUBSET PolicyFiles /\ (\A f \in listed : f.project = p) /\ ApplyDetail(a, p, listed, at)
    BY <1>1, <2>1
  <2> QED BY <2>2, ApplyDetailLogs, PageIsCoherent
<1>2. ASSUME NEW f \in PolicyFiles,
             (\E size : CheckDownload(f, size)) \/ (\E predicates : CheckUpload(f, predicates))
      PROVE  LogInv' /\ PolicyIsCoherent'
  BY <1>2, ChecksLog
<1>3. CASE RecordDecision
  <2>1. applied'.kind = "none" BY <1>3 DEF RecordDecision
  <2> QED BY <1>3, <2>1, RecordDecisionLogs DEF PolicyIsCoherent
<1>4. CASE LoseDecision
  <2>1. applied'.kind = "none" BY <1>4 DEF LoseDecision
  <2> QED BY <1>4, <2>1, LoseDecisionLogs DEF PolicyIsCoherent
<1>5. ASSUME NEW c \in Policies, StartWith(c)
      PROVE  LogInv' /\ PolicyIsCoherent'
  <2>1. applied'.kind = "none" BY <1>5 DEF StartWith
  <2> QED BY <1>5, <2>1, StartWithLogs DEF PolicyIsCoherent
<1>6. CASE RepositoryChanges
  <2>1. applied'.kind = "none" BY <1>6 DEF RepositoryChanges
  <2> QED BY <1>6, <2>1, RepositoryChangesLogs DEF PolicyIsCoherent
<1>7. ASSUME NEW denied \in BOOLEAN, QueryDecisions(denied)
      PROVE  LogInv' /\ PolicyIsCoherent'
  <2>1. applied'.kind = "none" BY <1>7 DEF QueryDecisions
  <2> QED BY <1>7, <2>1, QueryDecisionsLogs DEF PolicyIsCoherent
<1>8. CASE UNCHANGED policyVars
  <2>1. /\ config' = config /\ history' = history /\ current' = current /\ currentIds' = currentIds
        /\ recorded' = recorded /\ generation' = generation /\ reader' = reader /\ unrecorded' = unrecorded
        /\ applied' = applied
    BY <1>8 DEF policyVars
  <2> QED BY <2>1 DEF LogInv, PolicyIsCoherent
<1>9. CASE PolicyNext
  <2>1. \/ \E a \in ReadActions, p \in Projects, files \in SUBSET PolicyFiles, at \in {None} \cup 0..MaxPolicyNow :
              ApplyDetail(a, p, {f \in files : f.project = p}, at)
        \/ \E f \in PolicyFiles : \E size \in {f.stored, f.size, None} : CheckDownload(f, size)
        \/ \E f \in PolicyFiles, predicates \in SUBSET UNION {c.attestations : c \in Policies} : CheckUpload(f, predicates)
        \/ RecordDecision
        \/ LoseDecision
        \/ \E c \in Policies : StartWith(c)
        \/ RepositoryChanges
        \/ \E denied \in BOOLEAN : QueryDecisions(denied)
    BY <1>9 DEF PolicyNext
  <2> QED BY <1>1, <1>2, <1>3, <1>4, <1>5, <1>6, <1>7, <2>1, Zenon
<1> QED BY <1>8, <1>9

\* A page keeps no file named for its project that a download would refuse at the size it declares (apply_detail,
\* check_download), and the log of decisions is sound however records, prunings, restarts and lost writes follow one
\* another (record_policy_decision, prune_history, query_policy_decisions).
THEOREM PoliciesStaySound == PolicySpec => []PoliciesAreSound
<1>1. PolicyInit => PolicyInv BY PolicyAssumption, PolicyInvInit
<1>2. PolicyInv /\ [PolicyNext]_policyVars => PolicyInv' BY PolicyAssumption, PolicyInvStep
<1>3. PolicyInv => PoliciesAreSound BY LogInvSound DEF PolicyInv, PoliciesAreSound
<1> QED BY <1>1, <1>2, <1>3, PTL DEF PolicySpec

--------------------------------
(* Rate limits: products and quotients.                                        *)

LEMMA Products ==
    ASSUME NEW a \in Nat, NEW b \in Nat
    PROVE  a * b \in Nat
OBVIOUS

LEMMA Divided ==
    ASSUME NEW x \in Nat, NEW w \in Nat \ {0}
    PROVE  /\ x \div w \in Int /\ w * (x \div w) <= x /\ x < w * (x \div w) + w
OBVIOUS

LEMMA ProductsGrow ==
    ASSUME NEW w \in Nat, NEW a \in Int, NEW b \in Int, a <= b
    PROVE  w * a <= w * b
<1>1. b - a \in Nat OBVIOUS
<1>2. w * (b - a) \in Nat BY <1>1, Products
<1>3. w * (b - a) = w * b - w * a OBVIOUS
<1>4. w * a \in Int /\ w * b \in Int OBVIOUS
<1> QED BY <1>2, <1>3, <1>4

LEMMA DivGrows ==
    ASSUME NEW x \in Nat, NEW y \in Nat, NEW w \in Nat \ {0}
    PROVE  /\ x \div w \in Nat
           /\ x <= y => x \div w <= y \div w
           /\ x + w <= y => x \div w < y \div w
<1>1. PICK p \in Int : p = x \div w BY Divided
<1>2. PICK q \in Int : q = y \div w BY Divided
<1>3. w * p <= x /\ x < w * p + w BY <1>1, Divided
<1>4. w * q <= y /\ y < w * q + w BY <1>2, Divided
<1>5. w * p \in Int /\ w * q \in Int OBVIOUS
<1>6. ASSUME x <= y
      PROVE  p <= q
  <2>1. SUFFICES ASSUME q + 1 <= p PROVE FALSE OBVIOUS
  <2>2. w * (q + 1) <= w * p BY <2>1, ProductsGrow
  <2>3. w * (q + 1) = w * q + w OBVIOUS
  <2> QED BY <1>3, <1>4, <1>5, <1>6, <2>2, <2>3
<1>7. ASSUME x + w <= y
      PROVE  p < q
  <2>1. SUFFICES ASSUME q <= p PROVE FALSE OBVIOUS
  <2>2. w * q <= w * p BY <2>1, ProductsGrow
  <2> QED BY <1>3, <1>4, <1>5, <1>7, <2>2
<1>8. p \in Nat
  <2>1. SUFFICES ASSUME p <= 0 - 1 PROVE FALSE OBVIOUS
  <2>2. w * p <= w * (0 - 1) BY <2>1, ProductsGrow
  <2>3. w * (0 - 1) = 0 - w OBVIOUS
  <2> QED BY <1>3, <1>5, <2>2, <2>3
<1> QED BY <1>1, <1>2, <1>6, <1>7, <1>8

(* The scan of the forwarding entries, by its result. *)

\* The entries up to i that proxies did not write; the scan stops at the last of them.
Foreign(e, i) == {j \in 1..i : ~TrustsProxy(e[j])}

Found(e, i, s) ==
    \/ Foreign(e, i) = {} /\ s = <<NoAddress, FALSE>>
    \/ \E j \in Foreign(e, i) :
          /\ \A l \in Foreign(e, i) : l <= j
          /\ s = IF e[j] = Malformed THEN <<NoAddress, TRUE>> ELSE <<e[j], FALSE>>

ScanStep(e, f) ==
    [i \in 0..Len(e) |->
        IF i = 0 THEN <<NoAddress, FALSE>>
        ELSE IF e[i] = Malformed THEN <<NoAddress, TRUE>>
        ELSE IF TrustsProxy(e[i]) THEN f[i - 1]
        ELSE <<e[i], FALSE>>]

LEMMA FoundNext ==
    ASSUME NEW e, NEW i \in Nat, NEW s
    PROVE  /\ TrustsProxy(e[i + 1]) => (Found(e, i + 1, s) <=> Found(e, i, s))
           /\ ~TrustsProxy(e[i + 1]) =>
                 (Found(e, i + 1, s) <=> s = IF e[i + 1] = Malformed THEN <<NoAddress, TRUE>> ELSE <<e[i + 1], FALSE>>)
<1>1. CASE TrustsProxy(e[i + 1])
  <2>1. Foreign(e, i + 1) = Foreign(e, i) BY <1>1 DEF Foreign
  <2> QED BY <1>1, <2>1 DEF Found
<1>2. CASE ~TrustsProxy(e[i + 1])
  <2>1. i + 1 \in Foreign(e, i + 1) /\ \A l \in Foreign(e, i + 1) : l \in Nat /\ l <= i + 1 BY <1>2 DEF Foreign
  <2>2. \A j \in Foreign(e, i + 1) : (\A l \in Foreign(e, i + 1) : l <= j) <=> j = i + 1 BY <2>1
  <2>3. PICK F : F = Foreign(e, i + 1) OBVIOUS
  <2>4. F # {} /\ i + 1 \in F /\ \A j \in F : (\A l \in F : l <= j) <=> j = i + 1 BY <2>1, <2>2, <2>3
  <2> QED BY <1>2, <2>3, <2>4 DEF Found
<1> QED BY <1>1, <1>2

Nobody == <<NoAddress, FALSE>>

LEMMA FoundFirst ==
    ASSUME NEW e, NEW s
    PROVE  Found(e, 0, s) <=> s = Nobody
<1>1. Foreign(e, 0) = {} BY DEF Foreign
<1> QED BY <1>1 DEF Found, Nobody

One(e, i) == \E s : \A t : Found(e, i, t) <=> t = s

\* There is one answer for each prefix.
LEMMA FoundOnce ==
    ASSUME NEW e, NEW n \in Nat
    PROVE  \A i \in 0..n : One(e, i)
<1> DEFINE bad == {i \in 0..n : ~One(e, i)}
<1>1. SUFFICES ASSUME bad # {} PROVE FALSE OBVIOUS
<1>2. bad \in SUBSET Nat OBVIOUS
<1>3. PICK m \in bad : \A i \in bad : m <= i BY <1>1, <1>2, LeastNatural
<1>4. m # 0
  <2>1. \A t : Found(e, 0, t) <=> t = Nobody BY FoundFirst
  <2>2. One(e, 0)
    <3>1. PICK z : z = 0 OBVIOUS
    <3>2. PICK s : s = Nobody OBVIOUS
    <3>3. \A t : Found(e, z, t) <=> t = s BY <2>1, <3>1, <3>2
    <3>4. One(e, z) BY <3>3 DEF One
    <3> QED BY <3>1, <3>4
  <2> QED BY <1>3, <2>2
<1>5. PICK i \in Nat : m = i + 1 /\ i \in 0..n
  <2>1. m \in Nat /\ m <= n OBVIOUS
  <2>2. m - 1 \in Nat /\ m = (m - 1) + 1 /\ m - 1 \in 0..n BY <1>4, <2>1
  <2> QED BY <2>2
<1>6. i \notin bad BY <1>3, <1>5
<1>7. PICK s : \A t : Found(e, i, t) <=> t = s
  <2>1. One(e, i) BY <1>5, <1>6
  <2> QED BY <2>1 DEF One
<1>8. One(e, i + 1)
  <2>1. CASE TrustsProxy(e[i + 1])
    <3>1. \A t : Found(e, i + 1, t) <=> t = s BY <1>7, <2>1, FoundNext
    <3> QED BY <3>1 DEF One
  <2>2. CASE ~TrustsProxy(e[i + 1])
    <3>1. PICK r : r = IF e[i + 1] = Malformed THEN <<NoAddress, TRUE>> ELSE <<e[i + 1], FALSE>> OBVIOUS
    <3>2. \A t : Found(e, i + 1, t) <=> t = r BY <2>2, <3>1, FoundNext
    <3> QED BY <3>2 DEF One
  <2> QED BY <2>1, <2>2
<1> QED BY <1>3, <1>5, <1>8

LEMMA ScanIsFound ==
    ASSUME NEW A, NEW e \in Seq(A), Malformed \notin Trusted
    PROVE  Found(e, Len(e), Scanned(e))
<1> DEFINE g == [i \in 0..Len(e) |-> CHOOSE s : Found(e, i, s)]
<1>1. PICK n \in Nat : n = Len(e) OBVIOUS
<1>2. \A i \in 0..n : Found(e, i, g[i]) /\ \A t : Found(e, i, t) => t = g[i]
  <2>1. TAKE i \in 0..n
  <2>2. PICK s : \A t : Found(e, i, t) <=> t = s
    <3>1. One(e, i) BY FoundOnce
    <3> QED BY <3>1 DEF One
  <2>3. Found(e, i, CHOOSE t : Found(e, i, t)) BY <2>2, Zenon
  <2>4. g[i] = CHOOSE t : Found(e, i, t) BY <1>1
  <2> HIDE DEF g
  <2> QED BY <2>2, <2>3, <2>4
<1>3. g = [i \in 0..n |-> g[i]] BY <1>1
<1>10. g[0] = <<NoAddress, FALSE>>
  <2> HIDE DEF g
  <2>1. PICK s : s = g[0] OBVIOUS
  <2>2. Found(e, 0, s) BY <1>2, <2>1
  <2>3. s = Nobody BY <2>2, FoundFirst
  <2> QED BY <2>1, <2>3 DEF Nobody
<1> HIDE DEF g
<1>4. ASSUME NEW f, f = ScanStep(e, f)
      PROVE  \A i \in 0..n : f[i] = g[i]
  <2>1. /\ f[0] = <<NoAddress, FALSE>>
        /\ \A i \in 0..n : i # 0 => f[i] = IF e[i] = Malformed THEN <<NoAddress, TRUE>>
                                           ELSE IF TrustsProxy(e[i]) THEN f[i - 1] ELSE <<e[i], FALSE>>
    <3>1. f = [i \in 0..n |-> IF i = 0 THEN <<NoAddress, FALSE>>
                               ELSE IF e[i] = Malformed THEN <<NoAddress, TRUE>>
                               ELSE IF TrustsProxy(e[i]) THEN f[i - 1]
                               ELSE <<e[i], FALSE>>]
      BY <1>1, <1>4, Zenon DEF ScanStep
    <3>2. 0 \in 0..n OBVIOUS
    <3>3. \A i \in 0..n : f[i] = IF i = 0 THEN <<NoAddress, FALSE>>
                               ELSE IF e[i] = Malformed THEN <<NoAddress, TRUE>>
                               ELSE IF TrustsProxy(e[i]) THEN f[i - 1]
                               ELSE <<e[i], FALSE>>
      BY <3>1
    <3> QED BY <3>2, <3>3
  <2> DEFINE bad == {i \in 0..n : f[i] # g[i]}
  <2>2. SUFFICES ASSUME bad # {} PROVE FALSE OBVIOUS
  <2>3. bad \in SUBSET Nat OBVIOUS
  <2>4. PICK m \in bad : \A i \in bad : m <= i BY <2>2, <2>3, LeastNatural
  <2>5. m \in Nat /\ m <= n OBVIOUS
  <2>6. m # 0 BY <1>10, <2>1, <2>4
  <2>7. PICK i \in Nat : i = m - 1 BY <2>5, <2>6
  <2>8. i \in 0..n /\ m = i + 1 /\ i \notin bad BY <2>4, <2>5, <2>7
  <2>9. f[i] = g[i] BY <2>8
  <2>10. f[m] = IF e[m] = Malformed THEN <<NoAddress, TRUE>> ELSE IF TrustsProxy(e[m]) THEN g[i] ELSE <<e[m], FALSE>>
    BY <2>1, <2>6, <2>7, <2>9
  <2>11. Found(e, m, f[m])
    <3>1. Found(e, i, g[i]) BY <1>2, <2>8
    <3>2. CASE TrustsProxy(e[m])
      <4>1. e[m] # Malformed BY <3>2 DEF TrustsProxy
      <4>2. f[m] = g[i] BY <2>10, <3>2, <4>1
      <4>3. Found(e, i + 1, g[i]) BY <2>8, <3>1, <3>2, FoundNext
      <4> QED BY <2>8, <4>2, <4>3
    <3>3. CASE ~TrustsProxy(e[m])
      <4>1. f[m] = IF e[m] = Malformed THEN <<NoAddress, TRUE>> ELSE <<e[m], FALSE>> BY <2>10, <3>3
      <4>2. Found(e, i + 1, f[m]) BY <2>8, <3>3, <4>1, FoundNext
      <4> QED BY <2>8, <4>2
    <3> QED BY <3>2, <3>3
  <2>12. f[m] = g[m] BY <1>2, <2>5, <2>11
  <2> QED BY <2>4, <2>12
<1>5. g = ScanStep(e, g)
  <2>2. ASSUME NEW m \in 0..n, m # 0
        PROVE  g[m] = IF e[m] = Malformed THEN <<NoAddress, TRUE>> ELSE IF TrustsProxy(e[m]) THEN g[m - 1] ELSE <<e[m], FALSE>>
    <3>1. PICK i \in Nat : i = m - 1 BY <2>2
    <3>2. i \in 0..n /\ m = i + 1 BY <2>2, <3>1
    <3>3. Found(e, i, g[i]) /\ \A t : Found(e, m, t) => t = g[m] BY <1>2, <3>2
    <3>4. CASE TrustsProxy(e[m])
      <4>1. e[m] # Malformed BY <3>4 DEF TrustsProxy
      <4>2. Found(e, m, g[i]) BY <3>2, <3>3, <3>4, FoundNext
      <4> QED BY <3>1, <3>3, <3>4, <4>1, <4>2
    <3>5. CASE ~TrustsProxy(e[m])
      <4>1. PICK s : s = IF e[m] = Malformed THEN <<NoAddress, TRUE>> ELSE <<e[m], FALSE>> OBVIOUS
      <4>2. Found(e, m, s) BY <3>2, <3>5, <4>1, FoundNext
      <4> QED BY <3>3, <3>5, <4>1, <4>2
    <3> QED BY <3>4, <3>5
  <2>3. [i \in 0..n |-> g[i]] = [i \in 0..n |->
            IF i = 0 THEN <<NoAddress, FALSE>>
            ELSE IF e[i] = Malformed THEN <<NoAddress, TRUE>>
            ELSE IF TrustsProxy(e[i]) THEN g[i - 1]
            ELSE <<e[i], FALSE>>]
    BY <1>10, <2>2
  <2> QED BY <1>1, <1>3, <2>3 DEF ScanStep
<1>6. PICK f : f = CHOOSE x : x = ScanStep(e, x) OBVIOUS
<1>7. f = ScanStep(e, f) BY <1>5, <1>6, Zenon
<1>8. Scanned(e) = f[Len(e)] BY <1>6 DEF Scanned, ScanStep
<1>9. n \in 0..n OBVIOUS
<1> QED BY <1>1, <1>2, <1>4, <1>7, <1>8, <1>9

\* The window of a request is its sender's.
LEMMA SenderIsBucket ==
    ASSUME RateLimitAssumption, NEW q \in Shapes
    PROVE  Sender(q) = BucketKey(q)
<1>1. /\ Malformed \notin Trusted /\ NoAddress \notin Trusted
      /\ q.forwarded \in Seq({q.forwarded[i] : i \in DOMAIN q.forwarded})
      /\ \A i \in DOMAIN q.forwarded : q.forwarded[i] # NoAddress
  BY DEF RateLimitAssumption, HasAddresses
<1>2. PICK e : e = q.forwarded OBVIOUS
<1>3. PICK n \in Nat : n = Len(e) BY <1>1, <1>2
<1>4. DOMAIN e = 1..n /\ \A i \in 1..n : e[i] # NoAddress BY <1>1, <1>2, <1>3
<1>5. CASE q.peer = NoAddress
  <2>1. ClientIp(q) = NoAddress /\ ~TrustsProxy(q.peer) BY <1>1, <1>5 DEF ClientIp, TrustsProxy
  <2> QED BY <1>5, <2>1 DEF Sender, BucketKey, ActorKey
<1>6. CASE q.peer # NoAddress /\ ~TrustsProxy(q.peer)
  <2>1. ClientIp(q) = q.peer BY <1>6 DEF ClientIp
  <2> QED BY <1>6, <2>1 DEF Sender, BucketKey, ActorKey
<1>7. CASE q.peer # NoAddress /\ TrustsProxy(q.peer) /\ q.forwarded = <<>>
  <2>1. ClientIp(q) # NoAddress BY <1>7 DEF ClientIp
  <2> QED BY <1>7, <2>1 DEF Sender, BucketKey, ActorKey
<1>8. CASE q.peer # NoAddress /\ TrustsProxy(q.peer) /\ q.forwarded # <<>>
  <2>1. Found(e, n, Scanned(e))
    <3>1. e \in Seq({e[i] : i \in DOMAIN e}) BY <1>1, <1>2
    <3> QED BY <1>1, <1>3, <3>1, ScanIsFound
  <2>2. PICK s : s = Scanned(e) OBVIOUS
  <2>3. ForwardedClientIp(q) = IF s[2] THEN NoAddress ELSE s[1] BY <1>2, <1>8, <2>2 DEF ForwardedClientIp
  <2>4. PICK F : F = Foreign(e, n) OBVIOUS
  <2>5. F = {i \in DOMAIN e : ~TrustsProxy(e[i])} BY <1>4, <2>4 DEF Foreign
  <2>6. NearestUntrusted(q) = LET nearest == CHOOSE i \in F : \A j \in F : j <= i
                              IN IF F = {} \/ e[nearest] = Malformed THEN q.peer ELSE e[nearest]
    BY <1>2, <2>5 DEF NearestUntrusted
  <2>7. ClientIp(q) = NearestUntrusted(q)
    <3>1. CASE F = {}
      <4>1. s = Nobody BY <2>1, <2>2, <2>4, <3>1 DEF Found, Nobody
      <4>2. ForwardedClientIp(q) = NoAddress BY <2>3, <4>1 DEF Nobody
      <4> QED BY <1>8, <2>6, <3>1, <4>2 DEF ClientIp
    <3>2. CASE F # {}
      <4>1. PICK j \in F : /\ \A l \in F : l <= j
                           /\ s = IF e[j] = Malformed THEN <<NoAddress, TRUE>> ELSE <<e[j], FALSE>>
        BY <2>1, <2>2, <2>4, <3>2 DEF Found
      <4>2. \A i \in F : i \in Nat /\ e[i] # NoAddress BY <1>4, <2>4 DEF Foreign
      <4>3. (CHOOSE i \in F : \A l \in F : l <= i) = j
        <5>1. PICK x : x = CHOOSE i \in F : \A l \in F : l <= i OBVIOUS
        <5>2. x \in F /\ \A l \in F : l <= x BY <4>1, <5>1, Zenon
        <5>3. x <= j /\ j <= x /\ x \in Nat /\ j \in Nat BY <4>1, <4>2, <5>2
        <5>4. x = j BY <5>3
        <5> QED BY <5>1, <5>4
      <4>4. NearestUntrusted(q) = IF e[j] = Malformed THEN q.peer ELSE e[j] BY <2>6, <3>2, <4>3
      <4>5. ForwardedClientIp(q) = IF e[j] = Malformed THEN NoAddress ELSE e[j] BY <2>3, <4>1
      <4> QED BY <1>8, <4>2, <4>4, <4>5 DEF ClientIp
    <3> QED BY <3>1, <3>2
  <2>8. NearestUntrusted(q) # NoAddress
    <3>1. \A i \in F : e[i] # NoAddress BY <1>4, <2>4 DEF Foreign
    <3>2. CASE F = {} BY <1>8, <2>6, <3>2
    <3>3. CASE F # {}
      <4>1. ClientIp(q) # NoAddress BY <1>8 DEF ClientIp
      <4> QED BY <2>7, <4>1
    <3> QED BY <3>2, <3>3
  <2> QED BY <1>8, <2>7, <2>8 DEF Sender, BucketKey, ActorKey
<1> QED BY <1>5, <1>6, <1>7, <1>8

(* What a sender is let through, told apart by window, period and place. *)

\* The period a window was last opened in.
Period(k, w) == (w.reset_at - Limit(k).window_secs) \div Limit(k).window_secs

Limited(k) == Limit(k).requests * Limit(k).window_secs > 0

IsHandler(r, clock, made) ==
    /\ r = [pc |-> r.pc, key |-> r.key, now |-> r.now, window |-> r.window, from |-> r.from]
    /\ r.pc \in {"idle", "lookup", "lock"}
    /\ r.pc # "idle" => r.key \in Senders /\ r.from = r.key /\ r.now \in 0..clock
    /\ r.pc = "lock" => r.window \in 1..made

RateTyped ==
    /\ now \in Nat /\ evictions \in Nat
    /\ windows \in Seq([reset_at : Int, used : Nat])
    /\ DOMAIN handler = Handlers /\ handler = [h \in Handlers |-> handler[h]]
    /\ \A h \in Handlers : IsHandler(handler[h], now, Len(windows))
    /\ \A k \in DOMAIN buckets : buckets[k] \in 1..Len(windows)
    /\ granted \in [Senders -> Nat]

\* O are the windows made for k; T has a member for every request of k that was let through.
Owned(k, O) ==
    /\ O \subseteq 1..Len(windows)
    /\ Cardinality(O) <= evictions + (IF k \in DOMAIN buckets THEN 1 ELSE 0)
    /\ \A j \in DOMAIN buckets : buckets[j] \in O <=> j = k
    /\ \A h \in Handlers : handler[h].pc = "lock" => (handler[h].window \in O <=> handler[h].key = k)
    /\ \A i \in O : windows[i].reset_at - Limit(k).window_secs \in 0..now

Placed(k, w, p, u) ==
    /\ p \in Nat /\ p <= Period(k, w) /\ u \in 1..Limit(k).requests
    /\ p = Period(k, w) => u <= w.used

Granted(k, O, T) ==
    /\ T \subseteq O \X (Nat \X (1..Limit(k).requests))
    /\ IsFiniteSet(T) /\ Cardinality(T) = granted[k]
    /\ \A i \in O, p \in Nat, u \in 1..Limit(k).requests : <<i, <<p, u>>>> \in T => Placed(k, windows[i], p, u)

Accounted(k) == \E O, T : Owned(k, O) /\ Granted(k, O, T)

RateInv == RateTyped /\ \A k \in Senders : Limited(k) => Accounted(k)

LEMMA Limits ==
    ASSUME RateLimitAssumption, NEW k \in Senders
    PROVE  /\ Limit(k).requests \in Nat /\ Limit(k).window_secs \in Nat
           /\ Limited(k) => Limit(k).requests > 0 /\ Limit(k).window_secs > 0
           /\ ~Limited(k) => Limit(k).requests = 0 \/ Limit(k).window_secs = 0
<1>1. PICK q \in Shapes : k = Sender(q) BY DEF Senders
<1>2. k[1] = Class(q) BY <1>1 DEF Sender
<1>3. Class(q) \in Classes BY DEF Class, ServiceRouteClass, ClassifyRoute, Classes
<1>4. PICK r : r = Limit(k).requests OBVIOUS
<1>5. PICK w : w = Limit(k).window_secs OBVIOUS
<1>6. r \in Nat /\ w \in Nat BY <1>2, <1>3, <1>4, <1>5 DEF RateLimitAssumption, Limit
<1>7. Limited(k) <=> r * w > 0 BY <1>4, <1>5 DEF Limited
<1>8. r = 0 => r * w = 0 BY <1>6
<1>9. w = 0 => r * w = 0 BY <1>6
<1>10. r > 0 /\ w > 0 => r * w > 0
  <2>1. SUFFICES ASSUME r > 0, w > 0 PROVE r * w > 0 OBVIOUS
  <2>2. r * 1 <= r * w BY <1>6, <2>1, ProductsGrow
  <2>3. r * 1 = r /\ r * w \in Int BY <1>6
  <2> QED BY <1>6, <2>1, <2>2, <2>3
<1> QED BY <1>4, <1>5, <1>6, <1>7, <1>8, <1>9, <1>10

\* A window that was opened no later than `now' is of no later period.
LEMMA PeriodsPassed ==
    ASSUME RateLimitAssumption, RateTyped, NEW k \in Senders, Limited(k), NEW w,
           w.reset_at \in Int, w.reset_at - Limit(k).window_secs \in 0..now
    PROVE  Period(k, w) \in Nat /\ Period(k, w) <= now \div Limit(k).window_secs
<1>1. PICK s : s = w.reset_at - Limit(k).window_secs OBVIOUS
<1>2. s \in Nat /\ s <= now /\ now \in Nat BY <1>1 DEF RateTyped
<1>3. PICK v : v = Limit(k).window_secs OBVIOUS
<1>4. v \in Nat \ {0} BY <1>3, Limits
<1>5. s \div v \in Nat /\ s \div v <= now \div v BY <1>2, <1>4, DivGrows
<1>6. Period(k, w) = s \div v BY <1>1, <1>3 DEF Period
<1> QED BY <1>3, <1>5, <1>6

LEMMA Intervals ==
    ASSUME NEW n \in Nat
    PROVE  /\ IsFiniteSet(1..n) /\ Cardinality(1..n) = n
           /\ IsFiniteSet(0..n) /\ Cardinality(0..n) = n + 1
<1>1. IsFiniteSet(1..n) /\ Cardinality(1..n) = IF 1 > n THEN 0 ELSE n - 1 + 1 BY FS_Interval
<1>2. IsFiniteSet(0..n) /\ Cardinality(0..n) = IF 0 > n THEN 0 ELSE n - 0 + 1 BY FS_Interval
<1> QED BY <1>1, <1>2

LEMMA WindowsAre ==
    ASSUME RateTyped
    PROVE  /\ Len(windows) \in Nat
           /\ \A i \in 1..Len(windows) : windows[i] \in [reset_at : Int, used : Nat]
<1>1. PICK W : W = [reset_at : Int, used : Nat] OBVIOUS
<1>2. windows \in Seq(W) BY <1>1 DEF RateTyped
<1>3. Len(windows) \in Nat /\ \A i \in 1..Len(windows) : windows[i] \in W BY <1>2
<1> QED BY <1>1, <1>3

LEMMA RateInvBounds == RateLimitAssumption /\ RateInv => RateBounded
<1> SUFFICES ASSUME RateLimitAssumption, RateTyped, NEW k \in Senders, Limited(k), Accounted(k)
             PROVE  granted[k] <= Limit(k).requests * (now \div Limit(k).window_secs + 1) * (evictions + 1)
  BY DEF RateInv, RateBounded, Limited
<1>1. PICK O, T : Owned(k, O) /\ Granted(k, O, T) BY DEF Accounted
<1>2. PICK r : r = Limit(k).requests OBVIOUS
<1>3. PICK v : v = Limit(k).window_secs OBVIOUS
<1>4. r \in Nat /\ v \in Nat \ {0} BY <1>2, <1>3, Limits
<1>5. now \in Nat /\ evictions \in Nat BY DEF RateTyped
<1>6. PICK d : d = now \div v OBVIOUS
<1>7. d \in Nat BY <1>4, <1>5, <1>6, DivGrows
<1>8. Len(windows) \in Nat /\ \A i \in 1..Len(windows) : windows[i].reset_at \in Int BY WindowsAre
<1>9. O \subseteq 1..Len(windows) /\ Cardinality(O) <= evictions + 1 /\ IsFiniteSet(O) /\ Cardinality(O) \in Nat
  <2>1. O \subseteq 1..Len(windows) /\ Cardinality(O) <= evictions + (IF k \in DOMAIN buckets THEN 1 ELSE 0)
    BY <1>1 DEF Owned
  <2>2. IsFiniteSet(O) BY <1>8, <2>1, Intervals, FS_Subset
  <2>3. Cardinality(O) \in Nat BY <2>2, FS_CardinalityType
  <2> QED BY <1>5, <2>1, <2>2, <2>3
<1>10. PICK B : B = (0..d) \X (1..r) OBVIOUS
<1>11. T \subseteq O \X B
  <2>1. SUFFICES ASSUME NEW t \in T PROVE t \in O \X B OBVIOUS
  <2>2. t \in O \X (Nat \X (1..r)) BY <1>1, <1>2 DEF Granted
  <2>3. PICK i \in O, p \in Nat, u \in 1..r : t = <<i, <<p, u>>>> BY <2>2
  <2>4. Placed(k, windows[i], p, u) BY <1>1, <1>2, <2>3 DEF Granted
  <2>5. Period(k, windows[i]) \in Nat /\ Period(k, windows[i]) <= d
    <3>1. windows[i].reset_at - Limit(k).window_secs \in 0..now BY <1>1 DEF Owned
    <3>2. windows[i].reset_at \in Int BY <1>8, <1>9
    <3> QED BY <1>3, <1>6, <3>1, <3>2, PeriodsPassed
  <2>6. p \in 0..d BY <1>7, <2>4, <2>5 DEF Placed
  <2> QED BY <1>10, <2>3, <2>6
<1>12. IsFiniteSet(0..d) /\ Cardinality(0..d) = d + 1 /\ IsFiniteSet(1..r) /\ Cardinality(1..r) = r
  BY <1>4, <1>7, Intervals
<1>13. IsFiniteSet(B) /\ Cardinality(B) = (d + 1) * r
  <2>1. PICK D : D = 0..d OBVIOUS
  <2>2. PICK R : R = 1..r OBVIOUS
  <2>3. IsFiniteSet(D \X R) /\ Cardinality(D \X R) = Cardinality(D) * Cardinality(R) BY <1>12, <2>1, <2>2, FS_Product
  <2>4. B = D \X R BY <1>10, <2>1, <2>2
  <2>5. Cardinality(D) = d + 1 /\ Cardinality(R) = r BY <1>12, <2>1, <2>2
  <2> QED BY <2>3, <2>4, <2>5
<1>14. IsFiniteSet(O \X B) /\ Cardinality(O \X B) = Cardinality(O) * ((d + 1) * r) BY <1>9, <1>13, FS_Product
<1>15. Cardinality(T) <= Cardinality(O \X B) BY <1>11, <1>14, FS_Subset
<1>16. PICK c : c = Cardinality(O) OBVIOUS
<1>17. c \in Nat /\ c <= evictions + 1 /\ granted[k] <= c * ((d + 1) * r) /\ granted[k] \in Nat
  BY <1>1, <1>9, <1>14, <1>15, <1>16 DEF Granted, RateTyped
<1>18. PICK m : m = (d + 1) * r OBVIOUS
<1>19. m \in Nat BY <1>4, <1>7, <1>18, Products
<1>20. m * c <= m * (evictions + 1) BY <1>5, <1>17, <1>19, ProductsGrow
<1>21. c * m = m * c /\ c * m \in Int /\ m * (evictions + 1) \in Int BY <1>5, <1>17, <1>19
<1>22. granted[k] <= m * (evictions + 1) BY <1>17, <1>18, <1>20, <1>21
<1>23. m = r * (d + 1) BY <1>4, <1>7, <1>18
<1> QED BY <1>2, <1>3, <1>6, <1>22, <1>23

LEMMA RateInvInit == RateLimitAssumption /\ RateInit => RateInv
<1> SUFFICES ASSUME RateLimitAssumption, RateInit PROVE RateInv OBVIOUS
<1>1. now = 0 /\ evictions = 0 /\ buckets = <<>> /\ windows = <<>> /\ handler = [h \in Handlers |-> Idle]
      /\ granted = [k \in Senders |-> 0]
  BY DEF RateInit
<1>2. Idle.pc = "idle" /\ Idle = [pc |-> Idle.pc, key |-> Idle.key, now |-> Idle.now, window |-> Idle.window, from |-> Idle.from]
  BY DEF Idle
<1>3. RateTyped
  <2>1. \A h \in Handlers : IsHandler(handler[h], now, Len(windows)) BY <1>1, <1>2 DEF IsHandler
  <2>2. windows \in Seq([reset_at : Int, used : Nat]) /\ DOMAIN buckets = {} BY <1>1
  <2> QED BY <1>1, <2>1, <2>2 DEF RateTyped
<1>4. ASSUME NEW k \in Senders
      PROVE  Accounted(k)
  <2>1. IsFiniteSet({}) /\ Cardinality({}) = 0 BY FS_EmptySet
  <2>2. DOMAIN buckets = {} /\ \A h \in Handlers : handler[h].pc # "lock" BY <1>1, <1>2
  <2>3. Owned(k, {}) BY <1>1, <2>1, <2>2 DEF Owned
  <2>4. Granted(k, {}, {}) BY <1>1, <2>1 DEF Granted
  <2> QED BY <2>3, <2>4 DEF Accounted
<1> QED BY <1>3, <1>4 DEF RateInv

LEMMA HandlerIs ==
    ASSUME RateTyped, NEW h \in Handlers
    PROVE  /\ IsHandler(handler[h], now, Len(windows))
           /\ \A r : handler' = [handler EXCEPT ![h] = r] =>
                        DOMAIN handler' = Handlers /\ handler' = [x \in Handlers |-> handler'[x]] /\ handler'[h] = r
                        /\ \A x \in Handlers : x # h => handler'[x] = handler[x]
<1>1. DOMAIN handler = Handlers /\ handler = [x \in Handlers |-> handler[x]] /\ \A x \in Handlers : IsHandler(handler[x], now, Len(windows))
  BY DEF RateTyped
<1> QED BY <1>1

\* Requests in progress keep their type while the clock goes on and windows are added.
LEMMA HandlerStays ==
    ASSUME NEW r, NEW t \in Nat, NEW t2 \in Nat, NEW l \in Nat, NEW l2 \in Nat, IsHandler(r, t, l), t <= t2, l <= l2
    PROVE  IsHandler(r, t2, l2)
<1>1. \A i \in 0..t : i \in 0..t2 OBVIOUS
<1>2. \A i \in 1..l : i \in 1..l2 OBVIOUS
<1> QED BY <1>1, <1>2 DEF IsHandler

\* The account of k is kept by a step that neither changes windows nor lets k through.
LEMMA AccountStays ==
    ASSUME RateTyped, NEW k \in Senders, Accounted(k),
           now' \in Nat, now <= now', windows' = windows, granted'[k] = granted[k],
           evictions' \in Nat,
           evictions + (IF k \in DOMAIN buckets THEN 1 ELSE 0) <= evictions' + (IF k \in DOMAIN buckets' THEN 1 ELSE 0),
           \A j \in DOMAIN buckets' : j \in DOMAIN buckets /\ buckets'[j] = buckets[j],
           \A h \in Handlers : handler'[h].pc = "lock" =>
              \/ handler[h].pc = "lock" /\ handler'[h].window = handler[h].window /\ handler'[h].key = handler[h].key
              \/ handler'[h].key \in DOMAIN buckets /\ handler'[h].window = buckets[handler'[h].key]
    PROVE  Accounted(k)'
<1>1. PICK O, T : Owned(k, O) /\ Granted(k, O, T) BY DEF Accounted
<1>2. Granted(k, O, T)' BY <1>1 DEF Granted, Placed, Period
<1>3. Owned(k, O)'
  <2>1. /\ O \subseteq 1..Len(windows)
        /\ Cardinality(O) <= evictions + (IF k \in DOMAIN buckets THEN 1 ELSE 0)
        /\ \A j \in DOMAIN buckets : buckets[j] \in O <=> j = k
        /\ \A h \in Handlers : handler[h].pc = "lock" => (handler[h].window \in O <=> handler[h].key = k)
        /\ \A i \in O : windows[i].reset_at - Limit(k).window_secs \in 0..now
    BY <1>1 DEF Owned
  <2>2. now \in Nat /\ evictions \in Nat /\ Len(windows) \in Nat BY WindowsAre DEF RateTyped
  <2>3. IsFiniteSet(O) /\ Cardinality(O) \in Nat BY <2>1, <2>2, Intervals, FS_Subset, FS_CardinalityType
  <2>4. Cardinality(O) <= evictions' + (IF k \in DOMAIN buckets' THEN 1 ELSE 0)
    <3>1. PICK a \in Nat : a = evictions + (IF k \in DOMAIN buckets THEN 1 ELSE 0) BY <2>2
    <3>2. PICK b \in Nat : b = evictions' + (IF k \in DOMAIN buckets' THEN 1 ELSE 0)
      <4>1. \A n \in Nat : n + 1 \in Nat /\ n + 0 \in Nat OBVIOUS
      <4>2. evictions' + (IF k \in DOMAIN buckets' THEN 1 ELSE 0) \in Nat BY <4>1
      <4> QED BY <4>2
    <3>3. a <= b /\ Cardinality(O) <= a BY <2>1, <3>1, <3>2
    <3>4. Cardinality(O) <= b BY <2>3, <3>3
    <3> QED BY <3>2, <3>4
  <2>5. \A j \in DOMAIN buckets' : buckets'[j] \in O <=> j = k BY <2>1
  <2>6. ASSUME NEW h \in Handlers, handler'[h].pc = "lock"
        PROVE  handler'[h].window \in O <=> handler'[h].key = k
    <3>1. CASE handler[h].pc = "lock" /\ handler'[h].window = handler[h].window /\ handler'[h].key = handler[h].key
      BY <2>1, <3>1
    <3>2. CASE handler'[h].key \in DOMAIN buckets /\ handler'[h].window = buckets[handler'[h].key] BY <2>1, <3>2
    <3> QED BY <2>6, <3>1, <3>2
  <2>7. \A i \in 0..now : i \in 0..now' BY <2>2
  <2>8. \A i \in O : windows'[i].reset_at - Limit(k).window_secs \in 0..now' BY <2>1, <2>7
  <2>9. O \subseteq 1..Len(windows') BY <2>1
  <2> QED BY <2>4, <2>5, <2>6, <2>8, <2>9 DEF Owned
<1> QED BY <1>2, <1>3 DEF Accounted

LEMMA EnforceStep ==
    ASSUME RateLimitAssumption, RateInv, NEW h \in Handlers, NEW q \in Shapes, Enforce(h, q)
    PROVE  RateInv'
<1>1. PICK k : k = BucketKey(q) OBVIOUS
<1>2. k = Sender(q) /\ k \in Senders BY <1>1, SenderIsBucket DEF Senders
<1>3. RateTyped BY DEF RateInv
<1>4. now' = now /\ buckets' = buckets /\ windows' = windows /\ evictions' = evictions /\ handler[h].pc = "idle"
  BY DEF Enforce
<1>5. now \in Nat /\ evictions \in Nat /\ Len(windows) \in Nat /\ granted \in [Senders -> Nat]
      /\ windows \in Seq([reset_at : Int, used : Nat]) /\ \A j \in DOMAIN buckets : buckets[j] \in 1..Len(windows)
  BY <1>3, WindowsAre DEF RateTyped
<1>6. \A x \in Handlers : IsHandler(handler[x], now, Len(windows)) BY <1>3, HandlerIs
<1>7. CASE Limit(k).requests = 0 \/ Limit(k).window_secs = 0
  <2>1. handler' = handler /\ granted' = [granted EXCEPT ![k] = @ + 1] BY <1>1, <1>2, <1>7 DEF Enforce, Allow
  <2>2. granted' \in [Senders -> Nat] /\ \A j \in Senders : j # k => granted'[j] = granted[j] BY <1>2, <1>5, <2>1
  <2>3. RateTyped' BY <1>3, <1>4, <2>1, <2>2 DEF RateTyped
  <2>4. ~Limited(k) BY <1>2, <1>7, Limits
  <2>5. ASSUME NEW j \in Senders, Limited(j)
        PROVE  Accounted(j)'
    <3>1. Accounted(j) /\ granted'[j] = granted[j] BY <2>2, <2>4, <2>5 DEF RateInv
    <3> QED BY <1>3, <1>4, <1>5, <2>1, <3>1, AccountStays
  <2> QED BY <2>3, <2>5 DEF RateInv, Limited
<1>8. CASE ~(Limit(k).requests = 0 \/ Limit(k).window_secs = 0)
  <2>1. PICK r : r = [pc |-> "lookup", key |-> k, now |-> now, window |-> 0, from |-> k] OBVIOUS
  <2>2. handler' = [handler EXCEPT ![h] = r] /\ granted' = granted BY <1>1, <1>2, <1>8, <2>1 DEF Enforce
  <2>3. /\ DOMAIN handler' = Handlers /\ handler' = [x \in Handlers |-> handler'[x]] /\ handler'[h] = r
        /\ \A x \in Handlers : x # h => handler'[x] = handler[x]
    BY <1>3, <2>2, HandlerIs
  <2>4. IsHandler(r, now, Len(windows)) /\ r.pc = "lookup" BY <1>2, <1>5, <2>1 DEF IsHandler
  <2>5. \A x \in Handlers : IsHandler(handler'[x], now, Len(windows)) BY <1>6, <2>3, <2>4
  <2>6. RateTyped' BY <1>4, <1>5, <2>2, <2>3, <2>5 DEF RateTyped
  <2>7. \A x \in Handlers : handler'[x].pc = "lock" => handler[x].pc = "lock" /\ handler'[x] = handler[x] BY <2>3, <2>4
  <2>8. ASSUME NEW j \in Senders, Limited(j)
        PROVE  Accounted(j)'
    <3>1. Accounted(j) BY <2>8 DEF RateInv
    <3> QED BY <1>3, <1>4, <1>5, <2>2, <2>7, <3>1, AccountStays
  <2> QED BY <2>6, <2>8 DEF RateInv, Limited
<1> QED BY <1>7, <1>8

LEMMA EvictStep ==
    ASSUME RateLimitAssumption, RateInv, NEW k, Evict(k)
    PROVE  RateInv'
<1>1. RateTyped BY DEF RateInv
<1>2. /\ now' = now /\ windows' = windows /\ handler' = handler /\ granted' = granted /\ evictions' = evictions + 1
      /\ buckets' = [x \in DOMAIN buckets \ {k} |-> buckets[x]] /\ k \in DOMAIN buckets
  BY DEF Evict
<1>3. now \in Nat /\ evictions \in Nat BY <1>1 DEF RateTyped
<1>4. /\ DOMAIN buckets' = DOMAIN buckets \ {k}
      /\ \A j \in DOMAIN buckets' : j \in DOMAIN buckets /\ buckets'[j] = buckets[j]
  BY <1>2
<1>5. evictions' \in Nat BY <1>2, <1>3
<1>6. RateTyped' BY <1>1, <1>2, <1>4, <1>5 DEF RateTyped, IsHandler
<1>7. ASSUME NEW j \in Senders, Limited(j)
      PROVE  Accounted(j)'
  <2>1. Accounted(j) BY <1>7 DEF RateInv
  <2>2. evictions + (IF j \in DOMAIN buckets THEN 1 ELSE 0) <= evictions' + (IF j \in DOMAIN buckets' THEN 1 ELSE 0)
    <3>1. CASE j = k BY <1>2, <1>3, <1>4, <3>1
    <3>2. CASE j # k BY <1>2, <1>3, <1>4, <3>2
    <3> QED BY <3>1, <3>2
  <2> QED BY <1>1, <1>2, <1>3, <1>4, <1>5, <2>1, <2>2, AccountStays
<1> QED BY <1>6, <1>7 DEF RateInv, Limited

LEMMA TickRateStep ==
    ASSUME RateLimitAssumption, RateInv, Tick
    PROVE  RateInv'
<1>1. RateTyped BY DEF RateInv
<1>2. /\ now' = now + 1 /\ windows' = windows /\ handler' = handler /\ granted' = granted /\ evictions' = evictions
      /\ buckets' = buckets
  BY DEF Tick
<1>3. now \in Nat /\ evictions \in Nat /\ Len(windows) \in Nat BY <1>1, WindowsAre DEF RateTyped
<1>4. now' \in Nat /\ now <= now' BY <1>2, <1>3
<1>5. \A h \in Handlers : IsHandler(handler[h], now', Len(windows))
  <2>1. TAKE h \in Handlers
  <2>2. IsHandler(handler[h], now, Len(windows)) BY <1>1, HandlerIs
  <2> QED BY <1>3, <1>4, <2>2, HandlerStays
<1>6. RateTyped' BY <1>1, <1>2, <1>4, <1>5 DEF RateTyped
<1>7. ASSUME NEW j \in Senders, Limited(j)
      PROVE  Accounted(j)'
  <2>1. Accounted(j) BY <1>7 DEF RateInv
  <2> QED BY <1>1, <1>2, <1>3, <1>4, <2>1, AccountStays
<1> QED BY <1>6, <1>7 DEF RateInv, Limited

LEMMA GetWindowStep ==
    ASSUME RateLimitAssumption, RateInv, NEW h \in Handlers, GetWindow(h)
    PROVE  RateInv'
<1>1. RateTyped BY DEF RateInv
<1>2. PICK k : k = handler[h].key OBVIOUS
<1>3. PICK t : t = handler[h].now OBVIOUS
<1>4. PICK n : n = Len(windows) OBVIOUS
<1>5. /\ handler[h].pc = "lookup"
      /\ IsHandler(handler[h], now, n)
      /\ DOMAIN handler = Handlers /\ handler = [x \in Handlers |-> handler[x]]
  BY <1>1, <1>4, HandlerIs DEF GetWindow, RateTyped
<1>6. k \in Senders /\ handler[h].from = k /\ t \in 0..now BY <1>2, <1>3, <1>5 DEF IsHandler
<1>7. now' = now /\ evictions' = evictions /\ granted' = granted BY DEF GetWindow
<1>8. now \in Nat /\ evictions \in Nat /\ n \in Nat /\ granted \in [Senders -> Nat] /\ t \in Nat
      /\ windows \in Seq([reset_at : Int, used : Nat]) /\ \A j \in DOMAIN buckets : buckets[j] \in 1..n
  BY <1>1, <1>4, <1>6, WindowsAre DEF RateTyped
<1>9. ASSUME NEW i, handler' = Holding(h, i), NEW l \in Nat, n <= l, i \in 1..l
      PROVE  /\ DOMAIN handler' = Handlers /\ handler' = [x \in Handlers |-> handler'[x]]
             /\ handler'[h].pc = "lock" /\ handler'[h].window = i /\ handler'[h].key = k
             /\ \A x \in Handlers : x # h => handler'[x] = handler[x]
             /\ \A x \in Handlers : IsHandler(handler'[x], now, l)
  <2>1. PICK r : r = [pc |-> "lock", key |-> k, now |-> t, window |-> i, from |-> k] OBVIOUS
  <2>4. handler' = [handler EXCEPT ![h] = r] BY <1>2, <1>3, <1>6, <1>9, <2>1 DEF Holding
  <2>5. /\ DOMAIN handler' = Handlers /\ handler' = [x \in Handlers |-> handler'[x]] /\ handler'[h] = r
        /\ \A x \in Handlers : x # h => handler'[x] = handler[x]
    BY <1>1, <2>4, HandlerIs
  <2>6. IsHandler(r, now, l) BY <1>6, <1>9, <2>1 DEF IsHandler
  <2>7. \A x \in Handlers : IsHandler(handler[x], now, l)
    <3>1. TAKE x \in Handlers
    <3>2. IsHandler(handler[x], now, n) BY <1>1, <1>4, HandlerIs
    <3>3. now <= now BY <1>8
    <3> QED BY <1>8, <1>9, <3>2, <3>3, HandlerStays
  <2> QED BY <2>1, <2>5, <2>6, <2>7
<1>10. CASE k \in DOMAIN buckets
  <2>1. PICK i : i = buckets[k] OBVIOUS
  <2>2. handler' = Holding(h, i) /\ buckets' = buckets /\ windows' = windows BY <1>2, <1>10, <2>1 DEF GetWindow
  <2>3. i \in 1..n /\ n <= n BY <1>8, <1>10, <2>1
  <2>4. /\ DOMAIN handler' = Handlers /\ handler' = [x \in Handlers |-> handler'[x]]
        /\ handler'[h].pc = "lock" /\ handler'[h].window = i /\ handler'[h].key = k
        /\ \A x \in Handlers : x # h => handler'[x] = handler[x]
        /\ \A x \in Handlers : IsHandler(handler'[x], now, n)
    BY <1>8, <1>9, <2>2, <2>3
  <2>5. RateTyped' BY <1>4, <1>7, <1>8, <2>2, <2>4 DEF RateTyped
  <2>6. ASSUME NEW j \in Senders, Limited(j)
        PROVE  Accounted(j)'
    <3>1. Accounted(j) BY <2>6 DEF RateInv
    <3>2. \A x \in Handlers : handler'[x].pc = "lock" =>
              \/ handler[x].pc = "lock" /\ handler'[x].window = handler[x].window /\ handler'[x].key = handler[x].key
              \/ handler'[x].key \in DOMAIN buckets /\ handler'[x].window = buckets[handler'[x].key]
      BY <1>10, <2>1, <2>4
    <3>3. /\ now' \in Nat /\ now <= now' /\ evictions' \in Nat /\ granted'[j] = granted[j]
          /\ evictions + (IF j \in DOMAIN buckets THEN 1 ELSE 0) <= evictions' + (IF j \in DOMAIN buckets' THEN 1 ELSE 0)
          /\ \A l \in DOMAIN buckets' : l \in DOMAIN buckets /\ buckets'[l] = buckets[l]
      BY <1>7, <1>8, <2>2
    <3> QED BY <1>1, <2>2, <3>1, <3>2, <3>3, AccountStays
  <2> QED BY <2>5, <2>6 DEF RateInv, Limited
<1>11. CASE k \notin DOMAIN buckets
  <2>1. PICK v : v = Limit(k).window_secs OBVIOUS
  <2>2. v \in Nat BY <1>6, <2>1, Limits
  <2>3. PICK w : w = [reset_at |-> t + v, used |-> 0] OBVIOUS
  <2>4. /\ windows' = Append(windows, w)
        /\ buckets' = [x \in DOMAIN buckets \cup {k} |-> IF x = k THEN n + 1 ELSE buckets[x]]
        /\ handler' = Holding(h, n + 1)
    BY <1>2, <1>3, <1>4, <1>11, <2>1, <2>3 DEF GetWindow
  <2>5. w \in [reset_at : Int, used : Nat] /\ w.reset_at - v = t BY <1>8, <2>2, <2>3
  <2>6. /\ windows' \in Seq([reset_at : Int, used : Nat]) /\ Len(windows') = n + 1 /\ windows'[n + 1] = w
        /\ \A i \in 1..n : windows'[i] = windows[i]
    <3>1. PICK W : W = [reset_at : Int, used : Nat] OBVIOUS
    <3>2. windows \in Seq(W) /\ w \in W BY <1>8, <2>5, <3>1
    <3>3. /\ Append(windows, w) \in Seq(W) /\ Len(Append(windows, w)) = n + 1 /\ Append(windows, w)[n + 1] = w
          /\ \A i \in 1..n : Append(windows, w)[i] = windows[i]
      BY <1>4, <3>2, AppendProperties
    <3> QED BY <2>4, <3>1, <3>3
  <2>7. n + 1 \in Nat /\ n <= n + 1 /\ n + 1 \in 1..n + 1 BY <1>8
  <2>8. /\ DOMAIN handler' = Handlers /\ handler' = [x \in Handlers |-> handler'[x]]
        /\ handler'[h].pc = "lock" /\ handler'[h].window = n + 1 /\ handler'[h].key = k
        /\ \A x \in Handlers : x # h => handler'[x] = handler[x]
        /\ \A x \in Handlers : IsHandler(handler'[x], now, n + 1)
    BY <1>9, <2>4, <2>7
  <2>9. /\ DOMAIN buckets' = DOMAIN buckets \cup {k} /\ buckets'[k] = n + 1
        /\ \A j \in DOMAIN buckets : j # k /\ buckets'[j] = buckets[j] /\ buckets[j] \in 1..n
    BY <1>8, <1>11, <2>4
  <2>10. RateTyped'
    <3>1. \A j \in DOMAIN buckets' : buckets'[j] \in 1..n + 1 BY <1>8, <2>7, <2>9
    <3> QED BY <1>7, <1>8, <2>6, <2>8, <3>1 DEF RateTyped
  <2>11. ASSUME NEW j \in Senders, Limited(j)
         PROVE  Accounted(j)'
    <3>1. PICK O, T : Owned(j, O) /\ Granted(j, O, T) BY <2>11 DEF RateInv, Accounted
    <3>2. /\ O \subseteq 1..n
          /\ Cardinality(O) <= evictions + (IF j \in DOMAIN buckets THEN 1 ELSE 0)
          /\ \A l \in DOMAIN buckets : buckets[l] \in O <=> l = j
          /\ \A x \in Handlers : handler[x].pc = "lock" => (handler[x].window \in O <=> handler[x].key = j)
          /\ \A i \in O : windows[i].reset_at - Limit(j).window_secs \in 0..now
      BY <1>4, <3>1 DEF Owned
    <3>3. /\ T \subseteq O \X (Nat \X (1..Limit(j).requests))
          /\ IsFiniteSet(T) /\ Cardinality(T) = granted[j]
          /\ \A i \in O, p \in Nat, u \in 1..Limit(j).requests : <<i, <<p, u>>>> \in T => Placed(j, windows[i], p, u)
      BY <3>1 DEF Granted
    <3>4. n + 1 \notin O /\ IsFiniteSet(O) /\ Cardinality(O) \in Nat
      <4>1. \A i \in 1..n : i # n + 1 BY <1>8
      <4>2. IsFiniteSet(1..n) BY <1>8, Intervals
      <4>3. IsFiniteSet(O) BY <3>2, <4>2, FS_Subset
      <4> QED BY <3>2, <4>1, <4>3, FS_CardinalityType
    <3>5. \A x \in Handlers : handler[x].pc = "lock" => handler[x].window # n + 1
      <4>1. TAKE x \in Handlers
      <4>2. IsHandler(handler[x], now, n) BY <1>1, <1>4, HandlerIs
      <4> QED BY <1>8, <4>2 DEF IsHandler
    <3>6. PICK M : M = IF j = k THEN O \cup {n + 1} ELSE O OBVIOUS
    <3>7. /\ O \subseteq M /\ (n + 1 \in M <=> j = k) /\ \A i \in M : i \in O \/ (i = n + 1 /\ j = k) BY <3>4, <3>6
    <3>8. \A i \in O : windows'[i] = windows[i] /\ i # n + 1 BY <2>6, <3>2, <3>4
    <3>9. Granted(j, M, T)'
      <4>1. T \subseteq M \X (Nat \X (1..Limit(j).requests)) BY <3>3, <3>7
      <4>2. ASSUME NEW i \in M, NEW p \in Nat, NEW u \in 1..Limit(j).requests, <<i, <<p, u>>>> \in T
            PROVE  Placed(j, windows'[i], p, u)
        <5>1. i \in O BY <3>3, <4>2
        <5> QED BY <3>3, <3>8, <4>2, <5>1
      <4> QED BY <1>7, <3>3, <4>1, <4>2 DEF Granted, Limit
    <3>10. Cardinality(M) <= evictions + (IF j \in DOMAIN buckets' THEN 1 ELSE 0)
      <4>1. CASE j = k
        <5>1. Cardinality(M) = Cardinality(O) + 1 BY <3>4, <3>6, <4>1, FS_AddElement
        <5>2. Cardinality(O) <= evictions + 0 /\ j \in DOMAIN buckets' BY <1>11, <2>9, <3>2, <4>1
        <5> QED BY <1>8, <3>4, <5>1, <5>2
      <4>2. CASE j # k BY <2>9, <3>2, <3>6, <4>2
      <4> QED BY <4>1, <4>2
    <3>11. \A l \in DOMAIN buckets' : buckets'[l] \in M <=> l = j
      <4>1. TAKE l \in DOMAIN buckets'
      <4>2. CASE l = k BY <2>9, <3>7, <4>2
      <4>3. CASE l # k
        <5>1. l \in DOMAIN buckets /\ buckets'[l] = buckets[l] /\ buckets[l] # n + 1 BY <1>8, <2>9, <4>3
        <5> QED BY <3>2, <3>7, <5>1
      <4> QED BY <4>2, <4>3
    <3>12. \A x \in Handlers : handler'[x].pc = "lock" => (handler'[x].window \in M <=> handler'[x].key = j)
      <4>1. TAKE x \in Handlers
      <4>2. CASE x = h BY <2>8, <3>7, <4>2
      <4>3. CASE x # h BY <2>8, <3>2, <3>5, <3>7, <4>3
      <4> QED BY <4>2, <4>3
    <3>13. \A i \in M : windows'[i].reset_at - Limit(j).window_secs \in 0..now
      <4>1. ASSUME n + 1 \in M
            PROVE  windows'[n + 1].reset_at - Limit(j).window_secs \in 0..now
        BY <1>6, <2>1, <2>5, <2>6, <3>7, <4>1
      <4> QED BY <3>2, <3>7, <3>8, <4>1
    <3>14. M \subseteq 1..n + 1
      <4>1. \A i \in 1..n : i \in 1..n + 1 BY <1>8
      <4> QED BY <2>7, <3>2, <3>7, <4>1
    <3>15. Owned(j, M)' BY <1>7, <2>6, <3>10, <3>11, <3>12, <3>13, <3>14 DEF Owned, Limit
    <3> QED BY <3>9, <3>15 DEF Accounted
  <2> QED BY <2>10, <2>11 DEF RateInv, Limited
<1> QED BY <1>10, <1>11

\* One more of k is let through: its place is the next of its window's period.
LEMMA OneMore ==
    ASSUME RateLimitAssumption, RateTyped, NEW k \in Senders, Limited(k), NEW O, NEW T, Granted(k, O, T),
           O \subseteq 1..Len(windows),
           NEW i \in O, NEW w \in [reset_at : Int, used : Nat], NEW w2 \in [reset_at : Int, used : Nat],
           w.used < Limit(k).requests, w2 = [reset_at |-> w.reset_at, used |-> w.used + 1],
           Period(k, w) \in Nat,
           \A p \in Nat, u \in 1..Limit(k).requests : Placed(k, windows[i], p, u) => Placed(k, w, p, u)
    PROVE  \E U : /\ U \subseteq O \X (Nat \X (1..Limit(k).requests))
                  /\ IsFiniteSet(U) /\ Cardinality(U) = granted[k] + 1
                  /\ \A j \in O, p \in Nat, u \in 1..Limit(k).requests : <<j, <<p, u>>>> \in U =>
                        IF j = i THEN Placed(k, w2, p, u) ELSE Placed(k, windows[j], p, u)
<1>1. PICK R : R = 1..Limit(k).requests OBVIOUS
<1>2. PICK p0 : p0 = Period(k, w) OBVIOUS
<1>3. PICK u0 : u0 = w.used + 1 OBVIOUS
<1>4. Limit(k).requests \in Nat BY Limits
<1>5. p0 \in Nat /\ u0 \in R /\ u0 \in Nat /\ u0 = w.used + 1 /\ w.used \in Nat BY <1>1, <1>2, <1>3, <1>4
<1>6. w2.reset_at = w.reset_at /\ w2.used = u0 BY <1>3
<1>7. Period(k, w2) = p0 BY <1>2, <1>6 DEF Period
<1>8. PICK t : t = <<i, <<p0, u0>>>> OBVIOUS
<1>9. /\ T \subseteq O \X (Nat \X R) /\ IsFiniteSet(T) /\ Cardinality(T) = granted[k]
      /\ \A j \in O, p \in Nat, u \in R : <<j, <<p, u>>>> \in T => Placed(k, windows[j], p, u)
  BY <1>1 DEF Granted
<1>10. t \notin T
  <2>1. SUFFICES ASSUME t \in T PROVE FALSE OBVIOUS
  <2>2. Placed(k, windows[i], p0, u0) BY <1>5, <1>8, <1>9, <2>1
  <2>3. Placed(k, w, p0, u0) BY <1>1, <1>5, <2>2
  <2>4. u0 <= w.used BY <1>2, <2>3 DEF Placed
  <2> QED BY <1>5, <2>4
<1>11. PICK U : U = T \cup {t} OBVIOUS
<1>12. IsFiniteSet(U) /\ Cardinality(U) = granted[k] + 1 BY <1>9, <1>10, <1>11, FS_AddElement
<1>13. U \subseteq O \X (Nat \X R) BY <1>5, <1>8, <1>9, <1>11
<1>14. ASSUME NEW p \in Nat, NEW u \in R, Placed(k, w, p, u)
       PROVE  Placed(k, w2, p, u)
  <2>1. u <= w.used => u <= u0 BY <1>1, <1>4, <1>5
  <2> QED BY <1>2, <1>6, <1>7, <1>14, <2>1 DEF Placed
<1>15. Placed(k, w2, p0, u0)
  <2>1. p0 <= p0 /\ u0 <= u0 BY <1>5
  <2> QED BY <1>1, <1>5, <1>6, <1>7, <2>1 DEF Placed
<1>16. ASSUME NEW j \in O, NEW p \in Nat, NEW u \in R, <<j, <<p, u>>>> \in U
       PROVE  IF j = i THEN Placed(k, w2, p, u) ELSE Placed(k, windows[j], p, u)
  <2>1. CASE <<j, <<p, u>>>> = t
    <3>1. j = i /\ p = p0 /\ u = u0 BY <1>8, <2>1
    <3> QED BY <1>15, <3>1
  <2>2. CASE <<j, <<p, u>>>> \in T
    <3>1. Placed(k, windows[j], p, u) BY <1>9, <2>2
    <3>2. ASSUME j = i PROVE Placed(k, w2, p, u) BY <1>1, <1>14, <3>1, <3>2
    <3> QED BY <3>1, <3>2
  <2> QED BY <1>11, <1>16, <2>1, <2>2
<1> QED BY <1>1, <1>12, <1>13, <1>16

\* A window that is opened again starts a later period.
LEMMA OpenedAgain ==
    ASSUME RateLimitAssumption, NEW k \in Senders, Limited(k), NEW w \in [reset_at : Int, used : Nat], NEW t \in Nat,
           w.reset_at - Limit(k).window_secs \in Nat, w.reset_at <= t
    PROVE  LET w2 == [reset_at |-> t + Limit(k).window_secs, used |-> 0]
           IN  /\ Period(k, w2) \in Nat
               /\ \A p \in Nat, u \in 1..Limit(k).requests : Placed(k, w, p, u) => Placed(k, w2, p, u)
<1>1. PICK v : v = Limit(k).window_secs OBVIOUS
<1>2. v \in Nat \ {0} BY <1>1, Limits
<1>3. PICK s : s = w.reset_at - v OBVIOUS
<1>4. s \in Nat /\ s + v <= t BY <1>1, <1>2, <1>3
<1>5. PICK w2 : w2 = [reset_at |-> t + v, used |-> 0] OBVIOUS
<1>6. w2.reset_at - v = t BY <1>2, <1>5
<1>7. Period(k, w) = s \div v /\ Period(k, w2) = t \div v BY <1>1, <1>3, <1>6 DEF Period
<1>8. s \div v \in Nat /\ t \div v \in Nat /\ s \div v < t \div v BY <1>2, <1>4, DivGrows
<1>9. ASSUME NEW p \in Nat, NEW u \in 1..Limit(k).requests, Placed(k, w, p, u)
      PROVE  Placed(k, w2, p, u)
  <2>1. p <= Period(k, w2) /\ p # Period(k, w2) BY <1>7, <1>8, <1>9 DEF Placed
  <2> QED BY <1>9, <2>1 DEF Placed
<1> QED BY <1>1, <1>5, <1>7, <1>8, <1>9

LEMMA CountStep ==
    ASSUME RateLimitAssumption, RateInv, NEW h \in Handlers, Count(h)
    PROVE  RateInv'
<1>1. RateTyped BY DEF RateInv
<1>2. PICK k : k = handler[h].key OBVIOUS
<1>3. PICK t : t = handler[h].now OBVIOUS
<1>4. PICK n : n = Len(windows) OBVIOUS
<1>5. PICK i : i = handler[h].window OBVIOUS
<1>6. PICK W : W = [reset_at : Int, used : Nat] OBVIOUS
<1>7. /\ handler[h].pc = "lock" /\ IsHandler(handler[h], now, n) BY <1>1, <1>4, HandlerIs DEF Count
<1>8. k \in Senders /\ handler[h].from = k /\ t \in 0..now /\ i \in 1..n BY <1>2, <1>3, <1>5, <1>7 DEF IsHandler
<1>9. now' = now /\ evictions' = evictions /\ buckets' = buckets /\ handler' = [handler EXCEPT ![h] = Idle] BY DEF Count
<1>10. now \in Nat /\ evictions \in Nat /\ n \in Nat /\ granted \in [Senders -> Nat] /\ t \in Nat
       /\ windows \in Seq(W) /\ \A j \in DOMAIN buckets : buckets[j] \in 1..n
  BY <1>1, <1>4, <1>6, <1>8, WindowsAre DEF RateTyped
<1>11. windows[i] \in W BY <1>1, <1>4, <1>6, <1>8, WindowsAre
<1>12. Limit(k).requests \in Nat /\ Limit(k).window_secs \in Nat BY <1>8, Limits
<1>13. PICK w : w = Opened(windows[i], h) OBVIOUS
<1>14. w = IF t >= windows[i].reset_at THEN [reset_at |-> t + Limit(k).window_secs, used |-> 0] ELSE windows[i]
  BY <1>2, <1>3, <1>13 DEF Opened
<1>15. w \in W BY <1>6, <1>10, <1>11, <1>12, <1>14
<1>16. PICK w2 : w2 = IF w.used < Limit(k).requests THEN [reset_at |-> w.reset_at, used |-> w.used + 1] ELSE w OBVIOUS
<1>17. w2 \in W BY <1>6, <1>15, <1>16
<1>18. /\ windows' = [windows EXCEPT ![i] = w2]
       /\ w.used < Limit(k).requests => granted' = [granted EXCEPT ![k] = @ + 1]
       /\ ~(w.used < Limit(k).requests) => granted' = granted
  <2>1. [w EXCEPT !.used = w.used + 1] = [reset_at |-> w.reset_at, used |-> w.used + 1]
    <3>1. PICK a : a = w.reset_at OBVIOUS
    <3>2. PICK b : b = w.used OBVIOUS
    <3>3. w = [reset_at |-> a, used |-> b] BY <1>6, <1>15, <3>1, <3>2
    <3> QED BY <3>1, <3>2, <3>3
  <2>2. CASE w.used < Limit(k).requests
    <3>1. /\ windows' = [windows EXCEPT ![i] = [w EXCEPT !.used = w.used + 1]]
          /\ granted' = [granted EXCEPT ![k] = @ + 1]
      BY <1>2, <1>5, <1>8, <1>13, <2>2 DEF Count, Allow
    <3> QED BY <1>16, <2>1, <2>2, <3>1
  <2>3. CASE ~(w.used < Limit(k).requests) BY <1>2, <1>5, <1>13, <1>16, <2>3 DEF Count
  <2> QED BY <2>2, <2>3
<1>19. /\ windows' \in Seq(W) /\ Len(windows') = n /\ windows'[i] = w2
       /\ \A j \in 1..n : j # i => windows'[j] = windows[j]
  BY <1>4, <1>8, <1>10, <1>17, <1>18
<1>20. /\ DOMAIN handler' = Handlers /\ handler' = [x \in Handlers |-> handler'[x]] /\ handler'[h] = Idle
       /\ \A x \in Handlers : x # h => handler'[x] = handler[x]
  BY <1>1, <1>9, HandlerIs
<1>21. granted' \in [Senders -> Nat] /\ \A j \in Senders : j # k => granted'[j] = granted[j] BY <1>8, <1>10, <1>18
<1>22. RateTyped'
  <2>1. IsHandler(Idle, now, n) /\ Idle.pc = "idle" BY DEF IsHandler, Idle
  <2>2. \A x \in Handlers : IsHandler(handler'[x], now, n)
    <3>1. \A x \in Handlers : IsHandler(handler[x], now, n) BY <1>1, <1>4, HandlerIs
    <3> QED BY <1>20, <2>1, <3>1
  <2> QED BY <1>6, <1>9, <1>10, <1>19, <1>20, <1>21, <2>2 DEF RateTyped
<1>23. \A x \in Handlers : handler'[x].pc = "lock" => handler'[x] = handler[x] /\ handler[x].pc = "lock"
  BY <1>20 DEF Idle
<1>24. ASSUME NEW j \in Senders, Limited(j)
       PROVE  Accounted(j)'
  <2>1. PICK O, T : Owned(j, O) /\ Granted(j, O, T) BY <1>24 DEF RateInv, Accounted
  <2>2. /\ O \subseteq 1..n
        /\ Cardinality(O) <= evictions + (IF j \in DOMAIN buckets THEN 1 ELSE 0)
        /\ \A l \in DOMAIN buckets : buckets[l] \in O <=> l = j
        /\ \A x \in Handlers : handler[x].pc = "lock" => (handler[x].window \in O <=> handler[x].key = j)
        /\ \A l \in O : windows[l].reset_at - Limit(j).window_secs \in 0..now
    BY <1>4, <2>1 DEF Owned
  <2>3. i \in O <=> j = k BY <1>2, <1>5, <1>7, <2>2
  <2>4. PICK v : v = Limit(j).window_secs OBVIOUS
  <2>5. v \in Nat \ {0} /\ Limit(j).requests > 0 /\ Limit(j).requests \in Nat BY <1>24, <2>4, Limits
  <2>6. i \in O => w2.reset_at - v \in 0..now /\ w.reset_at - v \in Nat
    <3>1. SUFFICES ASSUME j = k, i \in O PROVE w2.reset_at - v \in 0..now /\ w.reset_at - v \in Nat BY <2>3
    <3>2. windows[i].reset_at - v \in 0..now BY <2>2, <2>4, <3>1
    <3>3. w.reset_at - v \in 0..now
      <4>1. CASE t >= windows[i].reset_at BY <1>8, <1>10, <1>14, <2>4, <2>5, <3>1, <4>1
      <4>2. CASE ~(t >= windows[i].reset_at) BY <1>14, <3>2, <4>2
      <4> QED BY <4>1, <4>2
    <3>4. w2.reset_at = w.reset_at BY <1>16
    <3> QED BY <1>10, <3>3, <3>4
  <2>7. Owned(j, O)'
    <3>1. \A x \in Handlers : handler'[x].pc = "lock" => (handler'[x].window \in O <=> handler'[x].key = j)
      BY <1>23, <2>2
    <3>2. \A l \in O : windows'[l].reset_at - Limit(j).window_secs \in 0..now
      <4>1. TAKE l \in O
      <4>2. CASE l = i BY <1>19, <2>4, <2>6, <4>2
      <4>3. CASE l # i BY <1>19, <2>2, <4>3
      <4> QED BY <4>2, <4>3
    <3> QED BY <1>9, <1>19, <2>2, <3>1, <3>2 DEF Owned, Limit
  <2>8. CASE j # k
    <3>1. \A l \in O : windows'[l] = windows[l] BY <1>19, <2>2, <2>3, <2>8
    <3>2. granted'[j] = granted[j] BY <1>21, <2>8
    <3>3. /\ T \subseteq O \X (Nat \X (1..Limit(j).requests))
          /\ IsFiniteSet(T) /\ Cardinality(T) = granted[j]
          /\ \A l \in O, p \in Nat, u \in 1..Limit(j).requests : <<l, <<p, u>>>> \in T => Placed(j, windows[l], p, u)
      BY <2>1 DEF Granted
    <3>4. \A l \in O, p \in Nat, u \in 1..Limit(j).requests : <<l, <<p, u>>>> \in T => Placed(j, windows'[l], p, u)
      BY <3>1, <3>3
    <3>5. Granted(j, O, T)' BY <3>2, <3>3, <3>4 DEF Granted, Limit
    <3> QED BY <2>7, <3>5 DEF Accounted
  <2>9. CASE j = k
    <3>1. i \in O /\ O \subseteq 1..Len(windows) BY <1>4, <2>2, <2>3, <2>9
    <3>2. \A p \in Nat, u \in 1..Limit(j).requests : Placed(j, windows[i], p, u) => Placed(j, w, p, u)
      <4>1. CASE t >= windows[i].reset_at
        <5>1. PICK w0 : w0 = windows[i] OBVIOUS
        <5>2. w0 \in [reset_at : Int, used : Nat] /\ w0.reset_at - Limit(j).window_secs \in Nat /\ w0.reset_at <= t
          <6>1. w0.reset_at - Limit(j).window_secs \in 0..now BY <2>2, <3>1, <5>1
          <6>2. w0 \in [reset_at : Int, used : Nat] BY <1>6, <1>11, <5>1
          <6>3. w0.reset_at <= t BY <1>10, <4>1, <5>1, <6>2
          <6> QED BY <6>1, <6>2, <6>3
        <5>3. w = [reset_at |-> t + Limit(j).window_secs, used |-> 0] BY <1>14, <2>9, <4>1
        <5> QED BY <1>10, <1>24, <5>1, <5>2, <5>3, OpenedAgain
      <4>2. CASE ~(t >= windows[i].reset_at) BY <1>14, <4>2
      <4> QED BY <4>1, <4>2
    <3>3. CASE w.used < Limit(j).requests
      <4>1. Period(j, w) \in Nat
        <5>1. PICK s \in Nat : s = w.reset_at - v BY <2>6, <3>1
        <5>2. s \div v \in Nat BY <2>5, DivGrows
        <5> QED BY <2>4, <5>1, <5>2 DEF Period
      <4>2. w2 = [reset_at |-> w.reset_at, used |-> w.used + 1] BY <1>16, <2>9, <3>3
      <4>3. w \in [reset_at : Int, used : Nat] /\ w2 \in [reset_at : Int, used : Nat] BY <1>6, <1>15, <1>17
      <4>4. PICK U : /\ U \subseteq O \X (Nat \X (1..Limit(j).requests))
                     /\ IsFiniteSet(U) /\ Cardinality(U) = granted[j] + 1
                     /\ \A l \in O, p \in Nat, u \in 1..Limit(j).requests : <<l, <<p, u>>>> \in U =>
                           IF l = i THEN Placed(j, w2, p, u) ELSE Placed(j, windows[l], p, u)
        BY <1>1, <1>24, <2>1, <3>1, <3>2, <3>3, <4>1, <4>2, <4>3, OneMore
      <4>5. granted'[j] = granted[j] + 1 BY <1>8, <1>10, <1>18, <2>9, <3>3
      <4>6. \A l \in O, p \in Nat, u \in 1..Limit(j).requests : <<l, <<p, u>>>> \in U => Placed(j, windows'[l], p, u)
        <5>1. \A l \in O : (l = i => windows'[l] = w2) /\ (l # i => windows'[l] = windows[l]) BY <1>19, <2>2
        <5> QED BY <4>4, <5>1
      <4>7. Granted(j, O, U)' BY <4>4, <4>5, <4>6 DEF Granted, Limit
      <4> QED BY <2>7, <4>7 DEF Accounted
    <3>4. CASE ~(w.used < Limit(j).requests)
      <4>1. w2 = w /\ granted'[j] = granted[j] BY <1>16, <1>18, <2>9, <3>4
      <4>2. /\ T \subseteq O \X (Nat \X (1..Limit(j).requests))
            /\ IsFiniteSet(T) /\ Cardinality(T) = granted[j]
            /\ \A l \in O, p \in Nat, u \in 1..Limit(j).requests : <<l, <<p, u>>>> \in T => Placed(j, windows[l], p, u)
        BY <2>1 DEF Granted
      <4>3. \A l \in O, p \in Nat, u \in 1..Limit(j).requests : <<l, <<p, u>>>> \in T => Placed(j, windows'[l], p, u)
        <5>1. \A l \in O : (l = i => windows'[l] = w) /\ (l # i => windows'[l] = windows[l]) BY <1>19, <2>2, <4>1
        <5> QED BY <3>2, <4>2, <5>1
      <4>4. Granted(j, O, T)' BY <4>1, <4>2, <4>3 DEF Granted, Limit
      <4> QED BY <2>7, <4>4 DEF Accounted
    <3> QED BY <3>3, <3>4
  <2> QED BY <2>8, <2>9
<1> QED BY <1>22, <1>24 DEF RateInv, Limited

LEMMA RateInvStep == RateLimitAssumption /\ RateInv /\ [RateNext]_rateVars => RateInv'
<1> SUFFICES ASSUME RateLimitAssumption, RateInv, [RateNext]_rateVars
             PROVE  RateInv'
  OBVIOUS
<1>1. ASSUME NEW h \in Handlers, (\E q \in Shapes : Enforce(h, q)) \/ GetWindow(h) \/ Count(h)
      PROVE  RateInv'
  BY <1>1, EnforceStep, GetWindowStep, CountStep
<1>2. ASSUME NEW k \in Keys, Evict(k)
      PROVE  RateInv'
  BY <1>2, EvictStep
<1>3. CASE Tick BY <1>3, TickRateStep
<1>4. CASE UNCHANGED rateVars
  <2>1. /\ now' = now /\ buckets' = buckets /\ windows' = windows /\ handler' = handler /\ evictions' = evictions
        /\ granted' = granted
    BY <1>4 DEF rateVars
  <2>2. RateTyped /\ RateTyped' BY <2>1 DEF RateInv, RateTyped
  <2>3. ASSUME NEW k \in Senders, Limited(k)
        PROVE  Accounted(k)'
    <3>1. Accounted(k) BY <2>3 DEF RateInv
    <3>2. now \in Nat /\ evictions \in Nat BY <2>2 DEF RateTyped
    <3> QED BY <2>1, <2>2, <3>1, <3>2, AccountStays
  <2> QED BY <2>2, <2>3 DEF RateInv, Limited
<1> QED BY <1>1, <1>2, <1>3, <1>4 DEF RateNext

\* However requests overtake each other, a sender is let through at most `requests' times for each window that has begun
\* and each window evicted.
THEOREM RatesStayBounded == RateSpec => []RateBounded
<1>1. RateInit => RateInv BY RateLimitAssumption, RateInvInit
<1>2. RateInv /\ [RateNext]_rateVars => RateInv' BY RateLimitAssumption, RateInvStep
<1>3. RateInv => RateBounded BY RateLimitAssumption, RateInvBounds
<1> QED BY <1>1, <1>2, <1>3, PTL DEF RateSpec

--------------------------------
(* What a pattern means, from a position on. *)

\* A name, a pattern or the grant of the catalog.
Text == Seq(Characters \cup {"catalog"})

\* The character of p at i takes the text from n to x.
Takes(p, s, i, n, x) == IF p[i] = Star THEN n <= x ELSE x = n + 1 /\ s[x] = p[i]

\* The pattern from i on means the text after n.
Cuts(p, s, i, n, c) ==
    /\ c[i - 1] = n /\ c[Len(p)] = Len(s)
    /\ \A k \in (i - 1)..Len(p) : c[k] \in 0..Len(s)
    /\ \A k \in i..Len(p) : Takes(p, s, k, c[k - 1], c[k])
Fits(p, s, i, n) == \E c : Cuts(p, s, i, n, c)

LEMMA Lengths == \A s \in Text : Len(s) \in Nat
  BY DEF Text

LEMMA FitsWhole ==
    ASSUME NEW p \in Text, NEW s \in Text
    PROVE  Means(p, s) <=> Fits(p, s, 1, 0)
<1>0. Len(p) \in Nat /\ Len(s) \in Nat BY Lengths
<1>1. ASSUME Means(p, s) PROVE Fits(p, s, 1, 0) BY <1>0, <1>1 DEF Means, Fits, Cuts, Takes
<1>2. ASSUME NEW c, Cuts(p, s, 1, 0, c) PROVE Means(p, s)
  <2> DEFINE d == [k \in 0..Len(p) |-> c[k]]
  <2>1. d \in [0..Len(p) -> 0..Len(s)] BY <1>0, <1>2 DEF Cuts
  <2>2. d[0] = 0 /\ d[Len(p)] = Len(s) /\ \A k \in 1..Len(p) : Takes(p, s, k, d[k - 1], d[k]) BY <1>0, <1>2 DEF Cuts
  <2> QED BY <2>1, <2>2 DEF Means, Takes
<1> QED BY <1>1, <1>2 DEF Fits

LEMMA FitsEnd ==
    ASSUME NEW p \in Text, NEW s \in Text, NEW n \in 0..Len(s)
    PROVE  Fits(p, s, Len(p) + 1, n) <=> n = Len(s)
<1> DEFINE c == [k \in {Len(p)} |-> n]
<1>0. Len(p) \in Nat /\ Len(p) + 1 - 1 = Len(p) /\ c[Len(p)] = n BY Lengths
<1>1. n = Len(s) => Cuts(p, s, Len(p) + 1, n, c)
  <2> HIDE DEF c
  <2> QED BY <1>0 DEF Cuts
<1>2. ASSUME NEW d, Cuts(p, s, Len(p) + 1, n, d) PROVE n = Len(s)
  <2>1. d[Len(p) + 1 - 1] = n /\ d[Len(p)] = Len(s) BY <1>2 DEF Cuts
  <2> QED BY <1>0, <2>1
<1> HIDE DEF c
<1> QED BY <1>1, <1>2 DEF Fits

LEMMA FitsUnfold ==
    ASSUME NEW p \in Text, NEW s \in Text, NEW i \in 1..Len(p), NEW n \in 0..Len(s)
    PROVE  Fits(p, s, i, n) <=> \E x \in 0..Len(s) : Takes(p, s, i, n, x) /\ Fits(p, s, i + 1, x)
<1>0. Len(p) \in Nat /\ Len(s) \in Nat /\ i + 1 - 1 = i BY Lengths
<1>1. ASSUME NEW c, Cuts(p, s, i, n, c)
      PROVE  \E x \in 0..Len(s) : Takes(p, s, i, n, x) /\ Fits(p, s, i + 1, x)
  <2>1. Cuts(p, s, i + 1, c[i], c) /\ Takes(p, s, i, n, c[i]) /\ c[i] \in 0..Len(s) BY <1>0, <1>1 DEF Cuts
  <2> QED BY <2>1 DEF Fits
<1>2. ASSUME NEW x \in 0..Len(s), Takes(p, s, i, n, x), NEW c, Cuts(p, s, i + 1, x, c)
      PROVE  Fits(p, s, i, n)
  <2> DEFINE d == [k \in (i - 1)..Len(p) |-> IF k = i - 1 THEN n ELSE c[k]]
  <2>1. d[i - 1] = n /\ \A k \in i..Len(p) : d[k] = c[k] BY <1>0
  <2> HIDE DEF d
  <2>2. c[i] = x /\ c[Len(p)] = Len(s) /\ \A k \in i..Len(p) : c[k] \in 0..Len(s) BY <1>0, <1>2 DEF Cuts
  <2>3. ASSUME NEW k \in i..Len(p) PROVE Takes(p, s, k, d[k - 1], d[k])
    <3>1. CASE k = i BY <1>0, <1>2, <2>1, <2>2, <3>1
    <3>2. CASE k # i BY <1>0, <1>2, <2>1, <3>2 DEF Cuts
    <3> QED BY <3>1, <3>2
  <2>4. d[Len(p)] = Len(s) /\ \A k \in (i - 1)..Len(p) : d[k] \in 0..Len(s) BY <1>0, <2>1, <2>2
  <2> QED BY <2>1, <2>3, <2>4 DEF Fits, Cuts
<1> QED BY <1>1, <1>2 DEF Fits

LEMMA CutsRise ==
    ASSUME NEW p \in Text, NEW s \in Text, NEW i \in 1..(Len(p) + 1), NEW n \in 0..Len(s), NEW c, Cuts(p, s, i, n, c),
           NEW a \in (i - 1)..Len(p), NEW b \in a..Len(p)
    PROVE  c[a] <= c[b]
<1> DEFINE T == {k \in a..Len(p) : ~(c[a] <= c[k])}
<1>0. Len(p) \in Nat /\ Len(s) \in Nat /\ \A k \in (i - 1)..Len(p) : c[k] \in 0..Len(s) BY Lengths DEF Cuts
<1>1. SUFFICES ASSUME T # {} PROVE FALSE BY <1>0
<1>2. T \in SUBSET Nat BY <1>0
<1>3. PICK m \in T : \A k \in T : m <= k
  <2> HIDE DEF T
  <2> QED BY <1>1, <1>2, LeastNatural
<1>4. m # a /\ m \in i..Len(p) /\ m - 1 \in a..Len(p) BY <1>0, <1>3
<1>5. c[a] <= c[m - 1] BY <1>0, <1>3, <1>4
<1>6. c[m - 1] <= c[m] BY <1>0, <1>4 DEF Cuts, Takes
<1> QED BY <1>0, <1>3, <1>4, <1>5, <1>6

LEMMA SuffixOf ==
    ASSUME NEW p \in Text, NEW i \in 1..(Len(p) + 1)
    PROVE  /\ SubSeq(p, i, Len(p)) \in Text /\ Len(SubSeq(p, i, Len(p))) = Len(p) - i + 1
           /\ \A k \in 1..(Len(p) - i + 1) : SubSeq(p, i, Len(p))[k] = p[k + i - 1]
  BY SubSeqProperties DEF Text

\* The rest of a pattern means the rest of a text.
LEMMA FitsRest ==
    ASSUME NEW p \in Text, NEW s \in Text, NEW i \in 1..(Len(p) + 1), NEW n \in 0..Len(s)
    PROVE  Means(SubSeq(p, i, Len(p)), SubSeq(s, n + 1, Len(s))) <=> Fits(p, s, i, n)
<1>0. Len(p) \in Nat /\ Len(s) \in Nat BY Lengths
<1>1. PICK q : q = SubSeq(p, i, Len(p)) OBVIOUS
<1>2. PICK t : t = SubSeq(s, n + 1, Len(s)) OBVIOUS
<1>3. q \in Text /\ Len(q) = Len(p) - i + 1 /\ \A k \in 1..Len(q) : q[k] = p[k + i - 1] BY <1>1, SuffixOf
<1>4. t \in Text /\ Len(t) = Len(s) - n /\ \A k \in 1..Len(t) : t[k] = s[k + n]
  <2> PICK m : m = n + 1 OBVIOUS
  <2>1. m \in 1..(Len(s) + 1) /\ t = SubSeq(s, m, Len(s)) BY <1>0, <1>2
  <2>2. t \in Text /\ Len(t) = Len(s) - m + 1 /\ \A k \in 1..(Len(s) - m + 1) : t[k] = s[k + m - 1]
    BY <2>1, SuffixOf
  <2> QED BY <1>0, <2>2
<1>8. n \in Nat /\ Len(t) \in Nat /\ Len(t) = Len(s) - n BY <1>0, <1>4
<1>9. ASSUME NEW j, NEW k, q[j] = p[k], NEW y \in 0..Len(t), NEW x \in 0..Len(t)
      PROVE  Takes(q, t, j, y, x) <=> Takes(p, s, k, y + n, x + n)
  <2>1. (x = y + 1 <=> x + n = y + n + 1) /\ (y <= x <=> y + n <= x + n) BY <1>8
  <2>2. x = y + 1 => t[x] = s[x + n] BY <1>4, <1>8
  <2> QED BY <1>9, <2>1, <2>2 DEF Takes
<1>5. ASSUME NEW c, Cuts(q, t, 1, 0, c) PROVE Fits(p, s, i, n)
  <2> DEFINE d == [k \in (i - 1)..Len(p) |-> c[k - i + 1] + n]
  <2>1. /\ \A k \in 0..Len(q) : c[k] \in 0..Len(t)
        /\ c[0] = 0 /\ c[Len(q)] = Len(t) /\ \A k \in 1..Len(q) : Takes(q, t, k, c[k - 1], c[k])
    BY <1>5 DEF Cuts
  <2>2. d[i - 1] = n /\ d[Len(p)] = Len(s) /\ \A k \in (i - 1)..Len(p) : d[k] \in 0..Len(s)
    <3>1. \A k \in (i - 1)..Len(p) : k - i + 1 \in 0..Len(q) /\ d[k] = c[k - i + 1] + n BY <1>0, <1>3
    <3>2. \A k \in (i - 1)..Len(p) : c[k - i + 1] \in 0..Len(t) BY <2>1, <3>1
    <3>3. d[i - 1] = c[0] + n /\ d[Len(p)] = c[Len(q)] + n BY <1>0, <1>3
    <3> HIDE DEF d
    <3>4. d[i - 1] = n /\ d[Len(p)] = Len(s) BY <1>0, <1>4, <2>1, <3>3
    <3>5. \A x \in 0..Len(t) : x + n \in 0..Len(s) BY <1>0, <1>4
    <3> QED BY <3>1, <3>2, <3>4, <3>5
  <2>3. ASSUME NEW k \in i..Len(p) PROVE Takes(p, s, k, d[k - 1], d[k])
    <3>1. PICK j \in 1..Len(q) : j = k - i + 1 BY <1>0, <1>3
    <3>2. q[j] = p[k] /\ d[k] = c[j] + n /\ d[k - 1] = c[j - 1] + n /\ j - 1 \in 0..Len(q) /\ j \in 0..Len(q)
      BY <1>0, <1>3, <3>1
    <3>3. c[j - 1] \in 0..Len(t) /\ c[j] \in 0..Len(t) /\ Takes(q, t, j, c[j - 1], c[j]) BY <2>1, <3>2
    <3> HIDE DEF d
    <3>4. Takes(p, s, k, c[j - 1] + n, c[j] + n) BY <1>9, <3>2, <3>3
    <3> QED BY <3>2, <3>4
  <2> HIDE DEF d
  <2> QED BY <2>2, <2>3 DEF Fits, Cuts
<1>6. ASSUME NEW c, Cuts(p, s, i, n, c) PROVE Fits(q, t, 1, 0)
  <2> DEFINE d == [k \in 0..Len(q) |-> c[k + i - 1] - n]
  <2>1. \A k \in (i - 1)..Len(p) : c[k] \in 0..Len(s) /\ c[k] >= n
    <3>1. i - 1 \in (i - 1)..Len(p) /\ c[i - 1] = n BY <1>0, <1>6 DEF Cuts
    <3>2. \A k \in (i - 1)..Len(p) : c[i - 1] <= c[k] BY <1>6, <3>1, CutsRise
    <3> QED BY <1>6, <3>1, <3>2 DEF Cuts
  <2>2. \A k \in 0..Len(q) : d[k] \in 0..Len(t) BY <1>0, <1>3, <1>4, <2>1
  <2>4. d[0] = 0 /\ d[Len(q)] = Len(t)
    <3>1. c[i - 1] = n /\ c[Len(p)] = Len(s) BY <1>6 DEF Cuts
    <3> QED BY <1>0, <1>3, <1>4, <3>1
  <2>3. ASSUME NEW j \in 1..Len(q) PROVE Takes(q, t, j, d[j - 1], d[j])
    <3>1. PICK k \in i..Len(p) : k = j + i - 1 BY <1>0, <1>3
    <3>2. q[j] = p[k] /\ j - 1 \in 0..Len(q) /\ j \in 0..Len(q) /\ d[j] = c[k] - n /\ d[j - 1] = c[k - 1] - n
      BY <1>0, <1>3, <3>1
    <3> HIDE DEF d
    <3>3. c[k] \in Nat /\ c[k - 1] \in Nat /\ Takes(p, s, k, c[k - 1], c[k])
      <4>1. k \in (i - 1)..Len(p) /\ k - 1 \in (i - 1)..Len(p) BY <1>0
      <4>2. c[k] \in 0..Len(s) /\ c[k - 1] \in 0..Len(s) BY <2>1, <4>1
      <4>3. Takes(p, s, k, c[k - 1], c[k]) BY <1>6 DEF Cuts
      <4> QED BY <4>2, <4>3
    <3>4. c[k] = d[j] + n /\ c[k - 1] = d[j - 1] + n BY <1>8, <3>2, <3>3
    <3>5. d[j - 1] \in 0..Len(t) /\ d[j] \in 0..Len(t) BY <2>2, <3>2
    <3>6. Takes(p, s, k, d[j - 1] + n, d[j] + n) BY <3>3, <3>4
    <3> QED BY <1>9, <3>2, <3>5, <3>6
  <2> HIDE DEF d
  <2>5. Cuts(q, t, 1, 0, d) BY <2>2, <2>3, <2>4 DEF Cuts
  <2> QED BY <2>5 DEF Fits
<1>7. Means(q, t) <=> Fits(q, t, 1, 0) BY <1>3, <1>4, FitsWhole
<1> QED BY <1>1, <1>2, <1>5, <1>6, <1>7 DEF Fits

\* A pattern that means a pattern means what that one means.
LEMMA MeansComposes ==
    ASSUME NEW p \in Text, NEW q \in Text, NEW t \in Text, Means(p, q), Means(q, t)
    PROVE  Means(p, t)
<1>0. Len(p) \in Nat /\ Len(q) \in Nat /\ Len(t) \in Nat BY Lengths
<1>1. PICK c : Cuts(p, q, 1, 0, c) BY FitsWhole DEF Fits
<1>2. PICK d : Cuts(q, t, 1, 0, d) BY FitsWhole DEF Fits
<1> DEFINE e == [k \in 0..Len(p) |-> d[c[k]]]
<1>3. /\ (\A k \in 0..Len(p) : c[k] \in 0..Len(q)) /\ c[0] = 0 /\ c[Len(p)] = Len(q)
      /\ \A k \in 1..Len(p) : Takes(p, q, k, c[k - 1], c[k])
  BY <1>1 DEF Cuts
<1>4. /\ (\A k \in 0..Len(q) : d[k] \in 0..Len(t)) /\ d[0] = 0 /\ d[Len(q)] = Len(t)
      /\ \A k \in 1..Len(q) : Takes(q, t, k, d[k - 1], d[k])
  BY <1>2 DEF Cuts
<1>5. (\A k \in 0..Len(p) : e[k] \in 0..Len(t)) /\ e[0] = 0 /\ e[Len(p)] = Len(t) BY <1>0, <1>3, <1>4
<1>6. ASSUME NEW k \in 1..Len(p) PROVE Takes(p, t, k, e[k - 1], e[k])
  <2>1. /\ c[k] \in 0..Len(q) /\ c[k - 1] \in 0..Len(q) /\ Takes(p, q, k, c[k - 1], c[k])
        /\ e[k] = d[c[k]] /\ e[k - 1] = d[c[k - 1]]
    BY <1>0, <1>3, <1>6
  <2>2. CASE p[k] = Star
    <3>1. c[k - 1] <= c[k] BY <2>1, <2>2 DEF Takes
    <3>2. d[c[k - 1]] <= d[c[k]]
      <4>1. c[k - 1] \in (1 - 1)..Len(q) /\ c[k] \in c[k - 1]..Len(q) BY <1>0, <2>1, <3>1
      <4> QED BY <1>0, <1>2, <4>1, CutsRise
    <3> QED BY <2>1, <2>2, <3>2 DEF Takes
  <2>3. CASE p[k] # Star
    <3>1. c[k] = c[k - 1] + 1 /\ q[c[k]] = p[k] /\ c[k] \in 1..Len(q) /\ c[k] - 1 = c[k - 1]
      BY <1>0, <2>1, <2>3 DEF Takes
    <3>2. Takes(q, t, c[k], d[c[k] - 1], d[c[k]]) BY <1>4, <3>1
    <3> QED BY <2>1, <2>3, <3>1, <3>2 DEF Takes
  <2> QED BY <2>2, <2>3
<1> HIDE DEF e
<1>7. Cuts(p, t, 1, 0, e) BY <1>5, <1>6 DEF Cuts
<1> QED BY <1>7, FitsWhole DEF Fits

\* Stars may take nothing.
LEMMA StarsSkip ==
    ASSUME NEW p \in Text, NEW s \in Text, NEW n \in 0..Len(s), NEW i \in 1..(Len(p) + 1), Fits(p, s, i, n),
           NEW j \in 1..i, \A k \in j..(i - 1) : p[k] = Star
    PROVE  Fits(p, s, j, n)
<1> DEFINE T == {d \in 0..(i - j) : ~Fits(p, s, i - d, n)}
<1>0. Len(p) \in Nat /\ Len(s) \in Nat BY Lengths
<1>1. SUFFICES ASSUME T # {} PROVE FALSE
  <2>1. i - j \in 0..(i - j) /\ i - (i - j) = j BY <1>0
  <2> QED BY <2>1
<1>2. PICK d \in T : \A e \in T : d <= e
  <2>1. T \in SUBSET Nat OBVIOUS
  <2> HIDE DEF T
  <2> QED BY <1>1, <2>1, LeastNatural
<1>3. d \in 1..(i - j) /\ ~Fits(p, s, i - d, n) BY <1>0, <1>2
<1>4. Fits(p, s, i - (d - 1), n) BY <1>0, <1>2, <1>3
<1>5. i - d \in 1..Len(p) /\ i - d \in j..(i - 1) /\ i - d + 1 = i - (d - 1) BY <1>0, <1>3
<1>6. Takes(p, s, i - d, n, n) BY <1>5 DEF Takes
<1>7. Fits(p, s, i - d + 1, n) BY <1>4, <1>5
<1> QED BY <1>3, <1>5, <1>6, <1>7, FitsUnfold

\* Only stars fit at the end of the text.
LEMMA StarsAtEnd ==
    ASSUME NEW p \in Text, NEW s \in Text, NEW i \in 1..(Len(p) + 1)
    PROVE  Fits(p, s, i, Len(s)) <=> \A k \in i..Len(p) : p[k] = Star
<1>0. Len(p) \in Nat /\ Len(s) \in Nat BY Lengths
<1>1. ASSUME \A k \in i..Len(p) : p[k] = Star PROVE Fits(p, s, i, Len(s))
  <2>1. Fits(p, s, Len(p) + 1, Len(s)) BY <1>0, FitsEnd
  <2> QED BY <1>0, <1>1, <2>1, StarsSkip
<1>2. ASSUME NEW c, Cuts(p, s, i, Len(s), c), NEW k \in i..Len(p) PROVE p[k] = Star
  <2>1. c[i - 1] = Len(s) /\ c[k] \in 0..Len(s) /\ c[k - 1] \in 0..Len(s) /\ Takes(p, s, k, c[k - 1], c[k])
    BY <1>0, <1>2 DEF Cuts
  <2>2. c[i - 1] <= c[k - 1]
    <3>1. Len(s) \in 0..Len(s) /\ i - 1 \in (i - 1)..Len(p) /\ k - 1 \in (i - 1)..Len(p) BY <1>0
    <3> QED BY <1>2, <3>1, CutsRise
  <2>3. c[k - 1] = Len(s) /\ ~(c[k] = c[k - 1] + 1) BY <1>0, <2>1, <2>2
  <2> QED BY <2>1, <2>3 DEF Takes
<1> QED BY <1>1, <1>2 DEF Fits

--------------------------------
(* The positions that are reachable after a prefix. *)

Reaches(p, R, s, n) == \E i \in R : Fits(p, s, i, n)
Closed(p, R) == R \in SUBSET (1..(Len(p) + 1)) /\ \A i \in R : i <= Len(p) /\ p[i] = Star => i + 1 \in R

LEMMA ClosingKeeps ==
    ASSUME NEW p \in Text, NEW s \in Text, NEW n \in 0..Len(s), NEW R \in SUBSET (1..(Len(p) + 1))
    PROVE  Closed(p, CloseStars(p, R)) /\ (Reaches(p, CloseStars(p, R), s, n) <=> Reaches(p, R, s, n))
<1>0. Len(p) \in Nat /\ Len(s) \in Nat BY Lengths
<1>1. Closed(p, CloseStars(p, R))
  <2> SUFFICES ASSUME NEW i \in CloseStars(p, R), i <= Len(p), p[i] = Star PROVE i + 1 \in CloseStars(p, R)
    BY DEF Closed, CloseStars
  <2>1. PICK j \in R : j <= i /\ \A k \in j..(i - 1) : p[k] = Star BY DEF CloseStars
  <2>2. i \in 1..(Len(p) + 1) /\ i + 1 \in 1..(Len(p) + 1) /\ j <= i + 1 BY <1>0, <2>1 DEF CloseStars
  <2>3. \A k \in j..(i + 1 - 1) : p[k] = Star
    <3> SUFFICES ASSUME NEW k \in j..(i + 1 - 1) PROVE p[k] = Star OBVIOUS
    <3>1. k = i \/ k \in j..(i - 1) BY <1>0, <2>2
    <3> QED BY <2>1, <3>1
  <2> QED BY <2>1, <2>2, <2>3 DEF CloseStars
<1>2. ASSUME NEW i \in CloseStars(p, R), Fits(p, s, i, n) PROVE Reaches(p, R, s, n)
  <2>1. PICK j \in R : j <= i /\ \A k \in j..(i - 1) : p[k] = Star BY DEF CloseStars
  <2>2. i \in 1..(Len(p) + 1) /\ j \in 1..i BY <1>0, <2>1 DEF CloseStars
  <2>3. Fits(p, s, j, n) BY <1>2, <2>1, <2>2, StarsSkip
  <2> QED BY <2>1, <2>3 DEF Reaches
<1>3. \A i \in R : i \in CloseStars(p, R)
  <2> SUFFICES ASSUME NEW i \in R PROVE i \in CloseStars(p, R) OBVIOUS
  <2>1. i \in 1..(Len(p) + 1) /\ i <= i /\ \A k \in i..(i - 1) : p[k] = Star BY <1>0
  <2> QED BY <2>1 DEF CloseStars
<1> QED BY <1>1, <1>2, <1>3 DEF Reaches

LEMMA AdvancingKeeps ==
    ASSUME NEW p \in Text, NEW s \in Text, NEW n \in 0..Len(s), n < Len(s), NEW R, Closed(p, R)
    PROVE  /\ Closed(p, Advance(p, R, s[n + 1]))
           /\ Reaches(p, Advance(p, R, s[n + 1]), s, n + 1) <=> Reaches(p, R, s, n)
<1>0. Len(p) \in Nat /\ Len(s) \in Nat /\ R \in SUBSET (1..(Len(p) + 1)) /\ n + 1 \in 0..Len(s) BY Lengths DEF Closed
<1> DEFINE c == s[n + 1]
           next == {i \in R : i <= Len(p) /\ p[i] = Star}
                      \cup {i + 1 : i \in {j \in R : j <= Len(p) /\ p[j] # Star /\ p[j] = c}}
<1>1. next \in SUBSET (1..(Len(p) + 1)) /\ Advance(p, R, c) = CloseStars(p, next)
  <2>1. ASSUME NEW j \in next PROVE j \in 1..(Len(p) + 1) BY <1>0
  <2>2. Advance(p, R, c) = CloseStars(p, next) BY DEF Advance
  <2> QED BY <2>1, <2>2
<1>2. Closed(p, CloseStars(p, next)) /\ (Reaches(p, CloseStars(p, next), s, n + 1) <=> Reaches(p, next, s, n + 1))
  <2> HIDE DEF next
  <2> QED BY <1>0, <1>1, ClosingKeeps
<1>3. ASSUME NEW j \in next, Fits(p, s, j, n + 1) PROVE Reaches(p, R, s, n)
  <2>1. CASE j \in R /\ j <= Len(p) /\ p[j] = Star
    <3>1. j \in 1..Len(p) BY <1>0, <2>1
    <3>2. PICK x \in 0..Len(s) : Takes(p, s, j, n + 1, x) /\ Fits(p, s, j + 1, x) BY <1>0, <1>3, <3>1, FitsUnfold
    <3>3. Takes(p, s, j, n, x) BY <1>0, <2>1, <3>2 DEF Takes
    <3> QED BY <2>1, <3>1, <3>2, <3>3, FitsUnfold DEF Reaches
  <2>2. CASE \E i \in R : i <= Len(p) /\ p[i] # Star /\ p[i] = c /\ j = i + 1
    <3>1. PICK i \in R : i <= Len(p) /\ p[i] # Star /\ p[i] = c /\ j = i + 1 BY <2>2
    <3>2. i \in 1..Len(p) /\ Takes(p, s, i, n, n + 1) BY <1>0, <3>1 DEF Takes
    <3>3. Fits(p, s, i, n) BY <1>0, <1>3, <3>1, <3>2, FitsUnfold
    <3> QED BY <3>1, <3>3 DEF Reaches
  <2> QED BY <2>1, <2>2
<1>4. ASSUME Reaches(p, R, s, n) PROVE Reaches(p, next, s, n + 1)
  <2> DEFINE T == {d \in 0..(Len(p) + 1) : Len(p) + 1 - d \in R /\ Fits(p, s, Len(p) + 1 - d, n)}
  <2>1. T # {}
    <3>1. PICK i \in R : Fits(p, s, i, n) BY <1>4 DEF Reaches
    <3>2. Len(p) + 1 - (Len(p) + 1 - i) = i /\ Len(p) + 1 - i \in 0..(Len(p) + 1) BY <1>0
    <3> QED BY <3>1, <3>2
  <2>2. PICK d \in T : \A e \in T : d <= e
    <3>1. T \in SUBSET Nat OBVIOUS
    <3> HIDE DEF T
    <3> QED BY <2>1, <3>1, LeastNatural
  <2>3. PICK i \in R : i = Len(p) + 1 - d /\ Fits(p, s, i, n) /\ i \in 1..(Len(p) + 1) /\ d \in 0..(Len(p) + 1)
    BY <1>0, <2>2
  <2>4. i \in 1..Len(p) BY <1>0, <2>3, FitsEnd
  <2>5. PICK x \in 0..Len(s) : Takes(p, s, i, n, x) /\ Fits(p, s, i + 1, x) BY <2>3, <2>4, FitsUnfold
  <2>6. CASE p[i] # Star
    <3>1. x = n + 1 /\ p[i] = c BY <2>5, <2>6 DEF Takes
    <3>2. i + 1 \in next BY <2>4, <2>6, <3>1
    <3> QED BY <2>5, <3>1, <3>2 DEF Reaches
  <2>7. CASE p[i] = Star
    <3>1. n <= x /\ i \in next BY <2>4, <2>5, <2>7 DEF Takes
    <3>2. x # n
      <4> SUFFICES ASSUME x = n PROVE FALSE OBVIOUS
      <4>1. i + 1 \in R /\ i + 1 = Len(p) + 1 - (d - 1) /\ d - 1 \in 0..(Len(p) + 1)
        BY <1>0, <2>3, <2>4, <2>7 DEF Closed
      <4>2. d - 1 \in T BY <2>5, <4>1
      <4> QED BY <2>2, <2>3, <4>2
    <3>3. Takes(p, s, i, n + 1, x) BY <2>7, <3>1, <3>2 DEF Takes
    <3>4. Fits(p, s, i, n + 1) BY <1>0, <2>4, <2>5, <3>3, FitsUnfold
    <3> HIDE DEF next
    <3> QED BY <3>1, <3>4 DEF Reaches
  <2> QED BY <2>6, <2>7
<1> HIDE DEF next
<1>5. Reaches(p, next, s, n + 1) <=> Reaches(p, R, s, n) BY <1>3, <1>4 DEF Reaches
<1>6. Advance(p, R, s[n + 1]) = CloseStars(p, next) BY <1>1
<1> HIDE DEF c
<1> QED BY <1>2, <1>5, <1>6

\* The rows of remainders_after, up to a length.
Rows(p, t, m, f) == f = [n \in 0..m |-> IF n = 0 THEN CloseStars(p, {1}) ELSE Advance(p, f[n - 1], t[n])]

LEMMA RowsExist ==
    ASSUME NEW p, NEW t, NEW m \in Nat
    PROVE  \E f : Rows(p, t, m, f)
<1> DEFINE T == {k \in Nat : ~\E f : Rows(p, t, k, f)}
<1>1. SUFFICES ASSUME T # {} PROVE FALSE OBVIOUS
<1>2. PICK k \in T : \A e \in T : k <= e
  <2>1. T \in SUBSET Nat OBVIOUS
  <2> HIDE DEF T
  <2> QED BY <1>1, <2>1, LeastNatural
<1>3. k # 0
  <2> SUFFICES ASSUME k = 0 PROVE FALSE OBVIOUS
  <2> DEFINE f == [n \in 0..0 |-> CloseStars(p, {1})]
  <2>1. \A n \in 0..0 : n = 0 OBVIOUS
  <2>2. Rows(p, t, 0, f) BY <2>1 DEF Rows
  <2> QED BY <1>2, <2>2
<1>4. k - 1 \in Nat /\ ~(k - 1 \in T) BY <1>2, <1>3
<1>5. PICK g : Rows(p, t, k - 1, g) BY <1>4
<1> DEFINE f == [n \in 0..k |-> IF n = k THEN Advance(p, g[k - 1], t[k]) ELSE g[n]]
<1>6. \A n \in 0..(k - 1) : g[n] = IF n = 0 THEN CloseStars(p, {1}) ELSE Advance(p, g[n - 1], t[n]) BY <1>5 DEF Rows
<1>7. ASSUME NEW n \in 0..k PROVE f[n] = IF n = 0 THEN CloseStars(p, {1}) ELSE Advance(p, f[n - 1], t[n])
  <2>1. CASE n = k BY <1>3, <1>4, <2>1
  <2>2. CASE n # k
    <3>1. n \in 0..(k - 1) /\ n - 1 # k /\ (n # 0 => n - 1 \in 0..k) BY <1>4, <2>2
    <3> QED BY <1>6, <2>2, <3>1
  <2> QED BY <2>1, <2>2
<1>8. f = [n \in 0..k |-> f[n]] OBVIOUS
<1> HIDE DEF f
<1>9. Rows(p, t, k, f) BY <1>7, <1>8 DEF Rows
<1> QED BY <1>2, <1>9

\* The positions reachable after a prefix of a text fit the rest of it when the pattern means the text.
LEMMA ReachableFits ==
    ASSUME NEW p \in Text, NEW s \in Text, NEW t \in Text, Len(t) <= Len(s), \A k \in 1..Len(t) : t[k] = s[k]
    PROVE  Closed(p, Reachable(p, t)) /\ (Reaches(p, Reachable(p, t), s, Len(t)) <=> Means(p, s))
<1>0. Len(p) \in Nat /\ Len(s) \in Nat /\ Len(t) \in Nat BY Lengths
<1>1. PICK f : Rows(p, t, Len(t), f) /\ Reachable(p, t) = f[Len(t)]
  <2> DEFINE g == CHOOSE f : f = [n \in 0..Len(t) |-> IF n = 0 THEN CloseStars(p, {1}) ELSE Advance(p, f[n - 1], t[n])]
  <2>1. Reachable(p, t) = g[Len(t)] BY DEF Reachable
  <2>2. \E f : f = [n \in 0..Len(t) |-> IF n = 0 THEN CloseStars(p, {1}) ELSE Advance(p, f[n - 1], t[n])]
    <3>1. \E f : Rows(p, t, Len(t), f) BY <1>0, RowsExist
    <3> QED BY <3>1 DEF Rows
  <2>3. g = [n \in 0..Len(t) |-> IF n = 0 THEN CloseStars(p, {1}) ELSE Advance(p, g[n - 1], t[n])] BY <2>2
  <2> QED BY <2>1, <2>3 DEF Rows
<1>2. \A n \in 0..Len(t) : f[n] = IF n = 0 THEN CloseStars(p, {1}) ELSE Advance(p, f[n - 1], t[n]) BY <1>1 DEF Rows
<1> DEFINE Good(n) == Closed(p, f[n]) /\ (Reaches(p, f[n], s, n) <=> Means(p, s))
           T == {n \in 0..Len(t) : ~Good(n)}
<1>3. SUFFICES ASSUME T # {} PROVE FALSE BY <1>0, <1>1
<1>4. PICK n \in T : \A e \in T : n <= e
  <2>1. T \in SUBSET Nat OBVIOUS
  <2> HIDE DEF T
  <2> QED BY <1>3, <2>1, LeastNatural
<1>5. n \in 0..Len(t) /\ ~Good(n) BY <1>4
<1>6. CASE n = 0
  <2>1. {1} \in SUBSET (1..(Len(p) + 1)) /\ 0 \in 0..Len(s) BY <1>0
  <2>2. Closed(p, f[0]) /\ (Reaches(p, f[0], s, 0) <=> Reaches(p, {1}, s, 0))
    <3>1. f[0] = CloseStars(p, {1}) BY <1>2, <1>5, <1>6
    <3> QED BY <2>1, <3>1, ClosingKeeps
  <2>3. Reaches(p, {1}, s, 0) <=> Means(p, s) BY FitsWhole DEF Reaches
  <2> QED BY <1>5, <1>6, <2>2, <2>3
<1>7. CASE n # 0
  <2>1. n - 1 \in 0..Len(s) /\ n - 1 < Len(s) /\ n - 1 + 1 = n /\ t[n] = s[n] /\ n - 1 \in 0..Len(t) /\ n - 1 < n
    BY <1>0, <1>5, <1>7
  <2>2. Good(n - 1) BY <1>4, <2>1
  <2>3. f[n] = Advance(p, f[n - 1], s[n - 1 + 1]) BY <1>2, <1>5, <1>7, <2>1
  <2>4. Closed(p, f[n]) /\ (Reaches(p, f[n], s, n - 1 + 1) <=> Reaches(p, f[n - 1], s, n - 1))
    <3>1. PICK R : R = f[n - 1] OBVIOUS
    <3>2. Closed(p, R) BY <2>2, <3>1
    <3>3. PICK m \in 0..Len(s) : m = n - 1 /\ m < Len(s) BY <2>1
    <3>4. /\ Closed(p, Advance(p, R, s[m + 1]))
          /\ Reaches(p, Advance(p, R, s[m + 1]), s, m + 1) <=> Reaches(p, R, s, m)
      BY <3>2, <3>3, AdvancingKeeps
    <3> QED BY <2>3, <3>1, <3>3, <3>4
  <2> QED BY <1>5, <2>1, <2>2, <2>4
<1> QED BY <1>6, <1>7

LEMMA MatchesMeans ==
    ASSUME NEW p \in Text, NEW s \in Text
    PROVE  Matches(p, s) <=> Means(p, s)
<1>0. Len(p) \in Nat /\ Len(s) \in Nat BY Lengths
<1>1. Closed(p, Reachable(p, s)) /\ (Reaches(p, Reachable(p, s), s, Len(s)) <=> Means(p, s)) BY <1>0, ReachableFits
<1>2. Fits(p, s, Len(p) + 1, Len(s)) BY <1>0, FitsEnd
<1>3. ASSUME NEW i \in Reachable(p, s), Fits(p, s, i, Len(s)) PROVE Len(p) + 1 \in Reachable(p, s)
  <2> DEFINE T == {k \in i..(Len(p) + 1) : ~(k \in Reachable(p, s))}
  <2>1. i \in 1..(Len(p) + 1) /\ \A k \in i..Len(p) : p[k] = Star BY <1>1, <1>3, StarsAtEnd DEF Closed
  <2>2. SUFFICES ASSUME T # {} PROVE FALSE BY <1>0, <2>1
  <2>3. PICK k \in T : \A e \in T : k <= e
    <3>1. T \in SUBSET Nat BY <2>1
    <3> HIDE DEF T
    <3> QED BY <2>2, <3>1, LeastNatural
  <2>4. k # i /\ k \in i..(Len(p) + 1) /\ ~(k \in Reachable(p, s)) BY <1>3, <2>3
  <2>5. k - 1 \in i..Len(p) /\ k - 1 \in i..(Len(p) + 1) /\ k - 1 < k /\ k - 1 + 1 = k /\ k - 1 <= Len(p)
    BY <1>0, <2>1, <2>4
  <2>6. k - 1 \in Reachable(p, s) BY <2>3, <2>4, <2>5
  <2> QED BY <1>1, <2>1, <2>4, <2>5, <2>6 DEF Closed
<1> QED BY <1>1, <1>2, <1>3 DEF Matches, Reaches

\* The remainders after a prefix match exactly the rests that complete it.
LEMMA RemaindersComplete ==
    ASSUME NEW p \in Text, NEW s \in Text, NEW n \in 0..Len(s)
    PROVE  /\ \A q \in RemaindersAfter(p, SubSeq(s, 1, n)) : q \in Text
           /\ (\E q \in RemaindersAfter(p, SubSeq(s, 1, n)) : Means(q, SubSeq(s, n + 1, Len(s)))) <=> Means(p, s)
<1>0. Len(p) \in Nat /\ Len(s) \in Nat BY Lengths
<1>1. PICK t : t = SubSeq(s, 1, n) OBVIOUS
<1>2. t \in Text /\ Len(t) = n /\ \A k \in 1..n : t[k] = s[k] BY <1>0, <1>1, SubSeqProperties DEF Text
<1>3. Closed(p, Reachable(p, t)) /\ (Reaches(p, Reachable(p, t), s, n) <=> Means(p, s)) BY <1>0, <1>2, ReachableFits
<1>4. \A i \in Reachable(p, t) : /\ i \in 1..(Len(p) + 1) /\ SubSeq(p, i, Len(p)) \in Text
                                 /\ Means(SubSeq(p, i, Len(p)), SubSeq(s, n + 1, Len(s))) <=> Fits(p, s, i, n)
  BY <1>3, SuffixOf, FitsRest DEF Closed
<1> QED BY <1>1, <1>3, <1>4 DEF RemaindersAfter, Reaches

--------------------------------
(* The backtracking walk. *)

\* Characters other than a star take one character each.
LEMMA RunsForward ==
    ASSUME NEW p \in Text, NEW s \in Text, NEW n \in 0..Len(s), NEW a \in 1..(Len(p) + 1), NEW b \in a..(Len(p) + 1),
           \A k \in a..(b - 1) : p[k] # Star, Fits(p, s, a, n)
    PROVE  n + (b - a) \in 0..Len(s) /\ Fits(p, s, b, n + (b - a))
<1> DEFINE T == {k \in a..b : ~(n + (k - a) \in 0..Len(s) /\ Fits(p, s, k, n + (k - a)))}
<1>0. Len(p) \in Nat /\ Len(s) \in Nat BY Lengths
<1>1. SUFFICES ASSUME T # {} PROVE FALSE
  <2>1. b \in a..b BY <1>0
  <2> QED BY <2>1
<1>2. PICK k \in T : \A e \in T : k <= e
  <2>1. T \in SUBSET Nat BY <1>0
  <2> HIDE DEF T
  <2> QED BY <1>1, <2>1, LeastNatural
<1>3. k # a
  <2>1. n + (a - a) = n BY <1>0
  <2> QED BY <1>2, <2>1
<1>4. k - 1 \in a..(b - 1) /\ k - 1 \in a..b /\ k - 1 < k /\ k - 1 \in 1..Len(p) /\ k - 1 + 1 = k /\ k \in Nat
  BY <1>0, <1>2, <1>3
<1>5. PICK m \in 0..Len(s) : m = n + (k - 1 - a) /\ Fits(p, s, k - 1, m)
  <2>1. ~(k - 1 \in T)
    <3> HIDE DEF T
    <3> QED BY <1>2, <1>4
  <2> QED BY <1>4, <2>1
<1>6. PICK x \in 0..Len(s) : Takes(p, s, k - 1, m, x) /\ Fits(p, s, k, x)
  <2>1. k - 1 \in 1..Len(p) /\ Fits(p, s, k - 1, m) BY <1>4, <1>5
  <2>2. \E x \in 0..Len(s) : Takes(p, s, k - 1, m, x) /\ Fits(p, s, k - 1 + 1, x) BY <2>1, FitsUnfold
  <2> QED BY <1>4, <2>2
<1>7. x = n + (k - a) BY <1>0, <1>4, <1>5, <1>6 DEF Takes
<1> QED BY <1>2, <1>6, <1>7

LEMMA RunsBack ==
    ASSUME NEW p \in Text, NEW s \in Text, NEW n \in 0..Len(s), NEW a \in 1..(Len(p) + 1), NEW b \in a..(Len(p) + 1),
           n + (b - a) \in 0..Len(s), Fits(p, s, b, n + (b - a)),
           \A k \in a..(b - 1) : p[k] # Star /\ s[n + 1 + (k - a)] = p[k]
    PROVE  Fits(p, s, a, n)
<1> DEFINE T == {d \in 0..(b - a) : ~Fits(p, s, b - d, n + (b - a) - d)}
<1>0. Len(p) \in Nat /\ Len(s) \in Nat BY Lengths
<1>1. SUFFICES ASSUME T # {} PROVE FALSE
  <2>1. b - a \in 0..(b - a) /\ b - (b - a) = a /\ n + (b - a) - (b - a) = n BY <1>0
  <2> QED BY <2>1
<1>2. PICK d \in T : \A e \in T : d <= e
  <2>1. T \in SUBSET Nat OBVIOUS
  <2> HIDE DEF T
  <2> QED BY <1>1, <2>1, LeastNatural
<1>3. d # 0
  <2>1. b - 0 = b /\ n + (b - a) - 0 = n + (b - a) BY <1>0
  <2> QED BY <1>2, <2>1
<1>4. /\ d \in Nat /\ d - 1 \in 0..(b - a) /\ d - 1 < d /\ b - d \in a..(b - 1) /\ b - d \in 1..Len(p)
      /\ b - (d - 1) = b - d + 1 /\ n + (b - a) - (d - 1) = n + (b - a) - d + 1
      /\ n + (b - a) - d \in 0..Len(s) /\ n + (b - a) - d + 1 \in 0..Len(s)
      /\ n + 1 + (b - d - a) = n + (b - a) - d + 1
  BY <1>0, <1>2, <1>3
<1>5. Fits(p, s, b - (d - 1), n + (b - a) - (d - 1))
  <2>1. ~(d - 1 \in T)
    <3> HIDE DEF T
    <3> QED BY <1>2, <1>4
  <2> QED BY <1>4, <2>1
<1>6. Takes(p, s, b - d, n + (b - a) - d, n + (b - a) - d + 1) BY <1>4 DEF Takes
<1>7. Fits(p, s, b - d, n + (b - a) - d) BY <1>4, <1>5, <1>6, FitsUnfold
<1> QED BY <1>2, <1>7

\* What the walk has found at position at of the pattern and cursor of the text: without a star, the rests
\* decide; with one, its text may still grow, and what follows it so far fits the text from resume on.
Swallows(p, s, at, cursor, star, resume) ==
    /\ at \in 1..(Len(p) + 1) /\ cursor \in 1..(Len(s) + 1) /\ star \in 0..(at - 1) /\ resume \in 1..cursor
    /\ star = 0 => (Means(p, s) <=> Fits(p, s, at, cursor - 1))
    /\ star # 0 => /\ p[star] = Star /\ cursor = resume + (at - (star + 1))
                   /\ \A k \in (star + 1)..(at - 1) : p[k] # Star /\ s[resume + (k - (star + 1))] = p[k]
                   /\ Means(p, s) <=> \E x \in (resume - 1)..Len(s) : Fits(p, s, star + 1, x)

Misfit(p, s, at, cursor) ==
    cursor <= Len(s) /\ (at <= Len(p) => p[at] # Star /\ p[at] # s[cursor])

LEMMA MisfitFits ==
    ASSUME NEW p \in Text, NEW s \in Text, NEW at \in 1..(Len(p) + 1), NEW cursor \in 1..(Len(s) + 1), Misfit(p, s, at, cursor)
    PROVE  ~Fits(p, s, at, cursor - 1)
<1>0. Len(p) \in Nat /\ Len(s) \in Nat /\ cursor - 1 \in 0..Len(s) /\ cursor - 1 + 1 = cursor /\ cursor - 1 # Len(s)
  BY Lengths DEF Misfit
<1>1. CASE at = Len(p) + 1 BY <1>0, <1>1, FitsEnd
<1>2. CASE at <= Len(p)
  <2>1. at \in 1..Len(p) BY <1>0, <1>2
  <2>2. ~\E x \in 0..Len(s) : Takes(p, s, at, cursor - 1, x) BY <1>0, <1>2 DEF Takes, Misfit
  <2> QED BY <1>0, <2>1, <2>2, FitsUnfold
<1> QED BY <1>0, <1>1, <1>2

LEMMA SwallowsTight ==
    ASSUME NEW p \in Text, NEW s \in Text, NEW at, NEW cursor, NEW star, NEW resume,
           Swallows(p, s, at, cursor, star, resume), star # 0
    PROVE  /\ resume - 1 \in 0..Len(s) /\ cursor - 1 \in 0..Len(s) /\ star + 1 \in 1..(Len(p) + 1)
           /\ Fits(p, s, at, cursor - 1) => Fits(p, s, star + 1, resume - 1)
           /\ \A x \in (resume - 1)..Len(s) :
                 Fits(p, s, star + 1, x) =>
                    LET y == x + (at - (star + 1)) IN y \in (cursor - 1)..Len(s) /\ Fits(p, s, at, y) /\ y = cursor - 1 + (x - (resume - 1))
<1>0. /\ Len(p) \in Nat /\ Len(s) \in Nat /\ at \in star + 1..(Len(p) + 1) /\ star + 1 \in 1..(Len(p) + 1)
      /\ resume - 1 \in 0..Len(s) /\ cursor - 1 \in 0..Len(s) /\ cursor - 1 = resume - 1 + (at - (star + 1))
      /\ resume - 1 + 1 = resume
  BY Lengths DEF Swallows
<1>1. \A k \in (star + 1)..(at - 1) : p[k] # Star /\ s[resume - 1 + 1 + (k - (star + 1))] = p[k] BY <1>0 DEF Swallows
<1>2. Fits(p, s, at, cursor - 1) => Fits(p, s, star + 1, resume - 1) BY <1>0, <1>1, RunsBack
<1>3. ASSUME NEW x \in (resume - 1)..Len(s), Fits(p, s, star + 1, x)
      PROVE  x + (at - (star + 1)) \in 0..Len(s) /\ Fits(p, s, at, x + (at - (star + 1)))
  <2>1. x \in 0..Len(s) BY <1>0
  <2> QED BY <1>0, <1>1, <1>3, <2>1, RunsForward
<1>4. ASSUME NEW x \in (resume - 1)..Len(s)
      PROVE  x + (at - (star + 1)) = cursor - 1 + (x - (resume - 1)) /\ cursor - 1 <= x + (at - (star + 1))
  BY <1>0
<1>5. ASSUME NEW x \in (resume - 1)..Len(s), Fits(p, s, star + 1, x)
      PROVE  x + (at - (star + 1)) \in (cursor - 1)..Len(s)
  BY <1>0, <1>3, <1>4, <1>5
<1> QED BY <1>0, <1>2, <1>3, <1>4, <1>5

LEMMA SwallowsStar ==
    ASSUME NEW p \in Text, NEW s \in Text, NEW at, NEW cursor, NEW star, NEW resume,
           Swallows(p, s, at, cursor, star, resume), at <= Len(p), p[at] = Star
    PROVE  Swallows(p, s, at + 1, cursor, at, cursor)
<1>0. /\ Len(p) \in Nat /\ Len(s) \in Nat /\ at \in 1..Len(p) /\ cursor \in 1..(Len(s) + 1) /\ cursor - 1 \in 0..Len(s)
      /\ at + 1 \in 1..(Len(p) + 1) /\ at \in 0..(at + 1 - 1) /\ cursor = cursor + (at + 1 - (at + 1)) /\ at # 0
      /\ \A k \in (at + 1)..(at + 1 - 1) : FALSE
  BY Lengths DEF Swallows
<1>1. \A y \in 0..Len(s) : Fits(p, s, at, y) <=> \E x \in y..Len(s) : Fits(p, s, at + 1, x)
  <2> SUFFICES ASSUME NEW y \in 0..Len(s) PROVE Fits(p, s, at, y) <=> \E x \in y..Len(s) : Fits(p, s, at + 1, x) OBVIOUS
  <2>1. \A x \in 0..Len(s) : Takes(p, s, at, y, x) <=> x \in y..Len(s) BY <1>0 DEF Takes
  <2>2. \A x \in y..Len(s) : x \in 0..Len(s) BY <1>0
  <2> QED BY <1>0, <2>1, <2>2, FitsUnfold
<1>2. Means(p, s) <=> \E x \in (cursor - 1)..Len(s) : Fits(p, s, at + 1, x)
  <2>1. CASE star = 0 BY <1>0, <1>1, <2>1 DEF Swallows
  <2>2. CASE star # 0
    <3>1. Means(p, s) <=> \E x \in (resume - 1)..Len(s) : Fits(p, s, star + 1, x) BY <2>2 DEF Swallows
    <3>2. ASSUME NEW x \in (cursor - 1)..Len(s), Fits(p, s, at + 1, x) PROVE Means(p, s)
      <4>1. Fits(p, s, star + 1, resume - 1) /\ resume - 1 \in (resume - 1)..Len(s)
        BY <1>0, <1>1, <2>2, <3>2, SwallowsTight
      <4> QED BY <3>1, <4>1
    <3>3. ASSUME NEW x \in (resume - 1)..Len(s), Fits(p, s, star + 1, x)
          PROVE  \E z \in (cursor - 1)..Len(s) : Fits(p, s, at + 1, z)
      <4>1. PICK y \in (cursor - 1)..Len(s) : Fits(p, s, at, y) BY <2>2, <3>3, SwallowsTight
      <4>2. y \in 0..Len(s) BY <1>0
      <4>3. PICK z \in y..Len(s) : Fits(p, s, at + 1, z) BY <1>1, <4>1, <4>2
      <4>4. z \in (cursor - 1)..Len(s) BY <1>0
      <4> QED BY <4>3, <4>4
    <3> QED BY <3>1, <3>2, <3>3
  <2> QED BY <2>1, <2>2
<1> QED BY <1>0, <1>2 DEF Swallows

LEMMA SwallowsChar ==
    ASSUME NEW p \in Text, NEW s \in Text, NEW at, NEW cursor, NEW star, NEW resume,
           Swallows(p, s, at, cursor, star, resume), at <= Len(p), cursor <= Len(s), p[at] # Star, p[at] = s[cursor]
    PROVE  Swallows(p, s, at + 1, cursor + 1, star, resume)
<1>0. /\ Len(p) \in Nat /\ Len(s) \in Nat /\ at \in 1..Len(p) /\ cursor \in 1..Len(s) /\ cursor - 1 \in 0..Len(s)
      /\ cursor - 1 + 1 = cursor /\ cursor + 1 - 1 = cursor /\ cursor \in 0..Len(s)
      /\ at + 1 \in 1..(Len(p) + 1) /\ cursor + 1 \in 1..(Len(s) + 1) /\ star \in 0..(at + 1 - 1) /\ resume \in 1..(cursor + 1)
  BY Lengths DEF Swallows
<1>1. Fits(p, s, at, cursor - 1) <=> Fits(p, s, at + 1, cursor + 1 - 1)
  <2>1. \A x \in 0..Len(s) : Takes(p, s, at, cursor - 1, x) <=> x = cursor BY <1>0 DEF Takes
  <2> QED BY <1>0, <2>1, FitsUnfold
<1>2. ASSUME star # 0
      PROVE  /\ cursor + 1 = resume + (at + 1 - (star + 1))
             /\ \A k \in (star + 1)..(at + 1 - 1) : p[k] # Star /\ s[resume + (k - (star + 1))] = p[k]
  <2>1. cursor = resume + (at - (star + 1)) /\ \A k \in (star + 1)..(at - 1) : p[k] # Star /\ s[resume + (k - (star + 1))] = p[k]
    BY <1>2 DEF Swallows
  <2>2. \A k \in (star + 1)..(at + 1 - 1) : k = at \/ k \in (star + 1)..(at - 1) BY <1>0
  <2>3. cursor + 1 = resume + (at + 1 - (star + 1)) BY <1>0, <2>1
  <2> QED BY <2>1, <2>2, <2>3
<1> QED BY <1>0, <1>1, <1>2 DEF Swallows

LEMMA SwallowsBack ==
    ASSUME NEW p \in Text, NEW s \in Text, NEW at, NEW cursor, NEW star, NEW resume,
           Swallows(p, s, at, cursor, star, resume), star # 0, Misfit(p, s, at, cursor)
    PROVE  Swallows(p, s, star + 1, resume + 1, star, resume + 1)
<1>0. /\ Len(p) \in Nat /\ Len(s) \in Nat /\ at \in 1..(Len(p) + 1) /\ cursor \in 1..(Len(s) + 1)
      /\ star + 1 \in 1..(Len(p) + 1) /\ resume + 1 \in 1..(Len(s) + 1) /\ star \in 0..(star + 1 - 1)
      /\ resume + 1 \in 1..(resume + 1) /\ p[star] = Star /\ resume + 1 = resume + 1 + (star + 1 - (star + 1))
      /\ (\A k \in (star + 1)..(star + 1 - 1) : FALSE) /\ resume + 1 - 1 = resume /\ resume \in Nat
  BY Lengths DEF Swallows, Misfit
<1>1. Means(p, s) <=> \E x \in (resume - 1)..Len(s) : Fits(p, s, star + 1, x) BY DEF Swallows
<1>2. ~Fits(p, s, star + 1, resume - 1)
  <2> SUFFICES ASSUME Fits(p, s, star + 1, resume - 1) PROVE FALSE OBVIOUS
  <2>1. resume - 1 \in (resume - 1)..Len(s) BY <1>0, SwallowsTight
  <2>2. Fits(p, s, at, cursor - 1)
    <3>1. PICK y : y = cursor - 1 + (resume - 1 - (resume - 1)) /\ Fits(p, s, at, y) BY <2>1, SwallowsTight
    <3>2. y = cursor - 1 BY <1>0, <3>1
    <3> QED BY <3>1, <3>2
  <2> QED BY <1>0, <2>2, MisfitFits
<1>3. \A x \in (resume - 1)..Len(s) : x = resume - 1 \/ x \in resume..Len(s) BY <1>0
<1>4. \A x \in resume..Len(s) : x \in (resume - 1)..Len(s) BY <1>0
<1>5. Means(p, s) <=> \E x \in (resume + 1 - 1)..Len(s) : Fits(p, s, star + 1, x) BY <1>0, <1>1, <1>2, <1>3, <1>4
<1> QED BY <1>0, <1>5 DEF Swallows

\* The text is used up: only stars may be left.
LEMMA SwallowsEnd ==
    ASSUME NEW p \in Text, NEW s \in Text, NEW at, NEW cursor, NEW star, NEW resume,
           Swallows(p, s, at, cursor, star, resume), ~(cursor <= Len(s))
    PROVE  Means(p, s) <=> \A k \in at..Len(p) : p[k] = Star
<1>0. Len(p) \in Nat /\ Len(s) \in Nat /\ at \in 1..(Len(p) + 1) /\ cursor - 1 = Len(s) BY Lengths DEF Swallows
<1>1. Fits(p, s, at, Len(s)) <=> \A k \in at..Len(p) : p[k] = Star BY <1>0, StarsAtEnd
<1>2. CASE star = 0 BY <1>0, <1>1, <1>2 DEF Swallows
<1>3. CASE star # 0
  <2>1. Means(p, s) <=> \E x \in (resume - 1)..Len(s) : Fits(p, s, star + 1, x) BY <1>3 DEF Swallows
  <2>2. Fits(p, s, at, Len(s)) => Fits(p, s, star + 1, resume - 1) /\ resume - 1 \in (resume - 1)..Len(s)
    BY <1>0, <1>3, SwallowsTight
  <2>3. ASSUME NEW x \in (resume - 1)..Len(s), Fits(p, s, star + 1, x) PROVE Fits(p, s, at, Len(s))
    <3>1. PICK y \in (cursor - 1)..Len(s) : Fits(p, s, at, y) BY <1>3, <2>3, SwallowsTight
    <3>2. y = Len(s) BY <1>0
    <3> QED BY <3>1, <3>2
  <2> QED BY <1>1, <2>1, <2>2, <2>3
<1> QED BY <1>2, <1>3

LEMMA TextsOf ==
    ASSUME NEW s, IsText(s)
    PROVE  s \in Text /\ s # NoProject /\ ~Means(CatalogGrant, s) /\ \A k \in 1..Len(s) : s[k] # "end"
<1>0. s \in Text /\ s \in Seq(Characters) BY DEF IsText, Text
<1>1. Len(s) \in Nat /\ \A k \in 1..Len(s) : s[k] # "noproject" /\ s[k] # "catalog" /\ s[k] # "end"
  BY <1>0, AccessAssumption
<1>2. s # NoProject
  <2> SUFFICES ASSUME s = NoProject PROVE FALSE OBVIOUS
  <2>1. Len(s) = 1 /\ s[1] = "noproject" BY DEF NoProject
  <2> QED BY <1>1, <2>1
<1>3. ASSUME Means(CatalogGrant, s) PROVE FALSE
  <2>1. Len(CatalogGrant) = 1 /\ CatalogGrant[1] = "catalog" /\ CatalogGrant[1] # Star
    BY AccessAssumption DEF CatalogGrant
  <2>2. PICK cut : /\ cut[0] = 0 /\ cut[Len(CatalogGrant)] = Len(s)
                   /\ \A i \in 1..Len(CatalogGrant) :
                         CatalogGrant[i] # Star => cut[i] = cut[i - 1] + 1 /\ s[cut[i]] = CatalogGrant[i]
    BY <1>3 DEF Means
  <2>3. cut[1] = 1 /\ Len(s) = 1 /\ s[1] = "catalog"
    <3>1. 1 \in 1..Len(CatalogGrant) /\ 1 - 1 = 0 /\ 0 + 1 = 1 BY <2>1
    <3>2. cut[1] = cut[1 - 1] + 1 /\ s[cut[1]] = CatalogGrant[1] /\ cut[1] = Len(s) BY <2>1, <2>2, <3>1
    <3> QED BY <2>1, <2>2, <3>1, <3>2
  <2> QED BY <1>1, <2>3
<1> QED BY <1>0, <1>1, <1>2, <1>3

WalkState(p, s, at, cursor, star, resume, result) ==
    [pattern |-> p, text |-> s, at |-> at, cursor |-> cursor, star |-> star, resume |-> resume, result |-> result]

\* A walk that ended answers what the pattern means; one that goes on has kept what it means.
Walking(p, s, at, cursor, star, resume, result) ==
    /\ IsText(p) /\ IsText(s) /\ walk = WalkState(p, s, at, cursor, star, resume, result)
    /\ \/ result = "walking" /\ Swallows(p, s, at, cursor, star, resume)
       \/ result = "yes" /\ Means(p, s)
       \/ result = "no" /\ ~Means(p, s)
WalkInv ==
    \/ walk = [result |-> "none"]
    \/ \E p, s, at, cursor, star, resume, result : Walking(p, s, at, cursor, star, resume, result)

LEMMA WalkInvExact == WalkInv => GlobsAreExact
<1> SUFFICES ASSUME WalkInv, walk.result \in {"yes", "no"}
             PROVE  /\ walk.result = "yes" <=> Means(walk.pattern, walk.text)
                    /\ Matches(walk.pattern, walk.text) <=> Means(walk.pattern, walk.text)
                    /\ \A n \in 0..Len(walk.text) :
                          (\E q \in RemaindersAfter(walk.pattern, SubSeq(walk.text, 1, n)) :
                               Means(q, SubSeq(walk.text, n + 1, Len(walk.text))))
                          <=> Means(walk.pattern, walk.text)
  BY DEF GlobsAreExact
<1>1. PICK p, s, at, cursor, star, resume, result : Walking(p, s, at, cursor, star, resume, result) BY DEF WalkInv
<1>2. walk.pattern = p /\ walk.text = s /\ walk.result = result /\ p \in Text /\ s \in Text
  BY <1>1, TextsOf DEF Walking, WalkState
<1>3. result = "yes" <=> Means(p, s) BY <1>1, <1>2 DEF Walking
<1>4. Matches(p, s) <=> Means(p, s) BY <1>2, MatchesMeans
<1>5. \A n \in 0..Len(s) :
         (\E q \in RemaindersAfter(p, SubSeq(s, 1, n)) : Means(q, SubSeq(s, n + 1, Len(s)))) <=> Means(p, s)
  BY <1>2, RemaindersComplete
<1> QED BY <1>2, <1>3, <1>4, <1>5

LEMMA WalkOnStep == WalkInv /\ WalkOn => WalkInv'
<1> SUFFICES ASSUME WalkInv, WalkOn PROVE WalkInv' OBVIOUS
<1>1. PICK p, s, a, u, st, r : walk = WalkState(p, s, a, u, st, r, "walking") /\ Swallows(p, s, a, u, st, r) /\ IsText(p) /\ IsText(s)
  BY DEF WalkInv, WalkOn, Walking, WalkState
<1>2. /\ walk.pattern = p /\ walk.text = s /\ walk.at = a /\ walk.cursor = u /\ walk.star = st /\ walk.resume = r
      /\ walk.result = "walking"
  BY <1>1 DEF WalkState
<1>3. /\ p \in Text /\ s \in Text /\ Len(p) \in Nat /\ Len(s) \in Nat /\ a \in 1..(Len(p) + 1) /\ u \in 1..(Len(s) + 1)
      /\ \A k \in 1..Len(s) : s[k] # "end"
  BY <1>1, TextsOf, Lengths DEF Swallows, IsText
<1> DEFINE Next(a2, u2, st2, r2, res) == walk' = WalkState(p, s, a2, u2, st2, r2, res)
<1>4. ASSUME NEW a2, NEW u2, NEW st2, NEW r2, Next(a2, u2, st2, r2, "walking"), Swallows(p, s, a2, u2, st2, r2) PROVE WalkInv'
  BY <1>1, <1>4 DEF WalkInv, Walking
<1>5. ASSUME NEW res \in {"yes", "no"}, Next(a, u, st, r, res), res = "yes" <=> Means(p, s) PROVE WalkInv'
  BY <1>1, <1>5 DEF WalkInv, Walking
<1>6. CASE ~(u <= Len(s))
  <2>1. PICK res \in {"yes", "no"} : walk' = [walk EXCEPT !.result = res] /\ (res = "yes" <=> \A i \in a..Len(p) : p[i] = Star)
    BY <1>2, <1>6 DEF WalkOn
  <2>2. Next(a, u, st, r, res) BY <1>1, <2>1 DEF WalkState
  <2>3. Means(p, s) <=> \A k \in a..Len(p) : p[k] = Star BY <1>1, <1>3, <1>6, SwallowsEnd
  <2> QED BY <1>5, <2>1, <2>2, <2>3
<1>7. CASE u <= Len(s)
  <2>1. walk' = Iteration(walk) /\ At(walk) = (IF a <= Len(p) THEN p[a] ELSE "end") /\ u \in 1..Len(s)
    BY <1>2, <1>3, <1>7 DEF WalkOn, At
  <2>2. CASE At(walk) = Star
    <3>1. walk' = [walk EXCEPT !.star = walk.at, !.resume = walk.cursor, !.at = @ + 1] /\ a <= Len(p) /\ p[a] = Star
      BY <2>1, <2>2 DEF Iteration, Star
    <3>2. Next(a + 1, u, a, u, "walking") BY <1>1, <1>2, <3>1 DEF WalkState
    <3> QED BY <1>1, <1>3, <1>4, <3>1, <3>2, SwallowsStar
  <2>3. CASE At(walk) # Star /\ At(walk) = s[u]
    <3>1. walk' = [walk EXCEPT !.at = @ + 1, !.cursor = @ + 1] /\ a <= Len(p) /\ p[a] # Star /\ p[a] = s[u]
      BY <1>2, <1>3, <2>1, <2>3 DEF Iteration
    <3>2. Next(a + 1, u + 1, st, r, "walking") BY <1>1, <3>1 DEF WalkState
    <3> QED BY <1>1, <1>3, <1>4, <1>7, <3>1, <3>2, SwallowsChar
  <2>4. ASSUME At(walk) # Star, At(walk) # s[u] PROVE Misfit(p, s, a, u) BY <1>7, <2>1, <2>4 DEF Misfit
  <2>5. CASE At(walk) # Star /\ At(walk) # s[u] /\ st # 0
    <3>1. walk' = [walk EXCEPT !.at = walk.star + 1, !.resume = @ + 1, !.cursor = walk.resume + 1]
      BY <1>2, <2>1, <2>5 DEF Iteration
    <3>2. Next(st + 1, r + 1, st, r + 1, "walking") BY <1>1, <1>2, <3>1 DEF WalkState
    <3> QED BY <1>1, <1>3, <1>4, <2>4, <2>5, <3>2, SwallowsBack
  <2>6. CASE At(walk) # Star /\ At(walk) # s[u] /\ st = 0
    <3>1. walk' = [walk EXCEPT !.result = "no"] BY <1>2, <2>1, <2>6 DEF Iteration
    <3>2. Next(a, u, st, r, "no") BY <1>1, <3>1 DEF WalkState
    <3>3. ~Means(p, s) BY <1>1, <1>3, <2>4, <2>6, MisfitFits DEF Swallows
    <3> QED BY <1>5, <3>2, <3>3
  <2> QED BY <2>2, <2>3, <2>5, <2>6
<1> QED BY <1>6, <1>7

LEMMA WalkInvStep == WalkInv /\ [GlobNext]_walk => WalkInv'
<1> SUFFICES ASSUME WalkInv, [GlobNext]_walk PROVE WalkInv' OBVIOUS
<1>1. ASSUME NEW p \in Patterns, NEW s \in Texts, BeginWalk(p, s) PROVE WalkInv'
  <2>1. IsText(p) /\ IsText(s) BY AccessAssumption
  <2>2. p \in Text /\ s \in Text /\ Len(p) \in Nat /\ Len(s) \in Nat BY <2>1, TextsOf, Lengths
  <2>3. Swallows(p, s, 1, 1, 0, 1) BY <2>2, FitsWhole DEF Swallows
  <2>4. walk' = WalkState(p, s, 1, 1, 0, 1, "walking") BY <1>1 DEF BeginWalk, WalkState
  <2> QED BY <2>1, <2>3, <2>4 DEF WalkInv, Walking
<1>2. ASSUME UNCHANGED walk PROVE WalkInv' BY <1>2 DEF WalkInv, Walking
<1> QED BY <1>1, <1>2, WalkOnStep DEF GlobNext

--------------------------------
(* Names and routes. *)

LEMMA PrefixOf ==
    ASSUME NEW s \in Text, NEW t \in Text
    PROVE  IsPrefix(s, t) <=> Len(s) <= Len(t) /\ \A k \in 1..Len(s) : s[k] = t[k]
<1>0. Len(s) \in Nat /\ Len(t) \in Nat BY Lengths
<1>1. SubSeq(s, 1, Len(s)) = s BY SubSeqFull DEF Text
<1>2. ASSUME Len(s) <= Len(t)
      PROVE  SubSeq(t, 1, Len(s)) \in Text /\ Len(SubSeq(t, 1, Len(s))) = Len(s) /\ \A k \in 1..Len(s) : SubSeq(t, 1, Len(s))[k] = t[k]
  BY <1>0, <1>2, SubSeqProperties DEF Text
<1>3. ASSUME Len(s) <= Len(t) PROVE s = SubSeq(t, 1, Len(s)) <=> \A k \in 1..Len(s) : s[k] = t[k]
  <2>1. PICK u : u = SubSeq(t, 1, Len(s)) /\ u \in Text /\ Len(u) = Len(s) /\ \A k \in 1..Len(s) : u[k] = t[k]
    BY <1>2, <1>3
  <2>2. ASSUME \A k \in 1..Len(s) : s[k] = u[k] PROVE s = u BY <2>1, <2>2, SeqEqual DEF Text
  <2> QED BY <2>1, <2>2
<1> QED BY <1>0, <1>1, <1>3 DEF IsPrefix

LEMMA PrefixIsText ==
    ASSUME NEW i \in Indexes
    PROVE  /\ Prefix(i) \in Text /\ Len(Prefix(i)) \in Nat /\ \A k \in 1..Len(Prefix(i)) : Prefix(i)[k] # Star
           /\ \A n \in Text : i \in Candidates(n) => IsPrefix(Prefix(i), n) /\ Repo(i, n) = SubSeq(n, Len(Prefix(i)) + 1, Len(n))
<1>0. IsText(i.route) /\ i.route \in Text /\ Len(i.route) \in Nat /\ \A k \in 1..Len(i.route) : i.route[k] # Star
  BY AccessAssumption, TextsOf, Lengths
<1>1. CASE i.route = <<>>
  <2>1. Prefix(i) = <<>> /\ <<>> \in Text /\ Len(<<>>) = 0 BY <1>1 DEF Prefix, Text
  <2>2. ASSUME NEW n \in Text PROVE IsPrefix(<<>>, n) /\ Repo(i, n) = SubSeq(n, 0 + 1, Len(n))
    <3>1. Len(n) \in Nat BY Lengths
    <3>2. IsPrefix(<<>>, n) BY <2>1, <3>1, PrefixOf
    <3>3. n = SubSeq(n, 1, Len(n)) BY SubSeqFull DEF Text
    <3> QED BY <1>1, <3>2, <3>3 DEF Repo
  <2> QED BY <2>1, <2>2
<1>2. CASE i.route # <<>>
  <2>1. Prefix(i) = i.route \o <<Slash>> BY <1>2 DEF Prefix
  <2>2. PICK q : q = i.route \o <<Slash>> OBVIOUS
  <2>7. Slash \in Characters /\ Slash # Star BY AccessAssumption DEF Slash, Star
  <2>3. q \in Text /\ Len(q) = Len(i.route) + 1 /\ \A k \in 1..Len(q) : q[k] = IF k <= Len(i.route) THEN i.route[k] ELSE Slash
    <3>1. <<Slash>> \in Text /\ Len(<<Slash>>) = 1 /\ <<Slash>>[1] = Slash BY <2>7 DEF Text
    <3> QED BY <1>0, <2>2, <3>1, ConcatProperties DEF Text
  <2>4. \A k \in 1..Len(q) : q[k] # Star BY <1>0, <2>3, <2>7
  <2>5. ASSUME NEW n \in Text, i \in Candidates(n) PROVE IsPrefix(q, n) /\ Repo(i, n) = SubSeq(n, Len(q) + 1, Len(n))
    <3>1. IsPrefix(q, n) BY <1>2, <2>2, <2>5 DEF Candidates
    <3>2. Len(i.route) + 2 = Len(q) + 1 BY <1>0, <2>3
    <3> QED BY <1>2, <3>1, <3>2 DEF Repo
  <2>6. Prefix(i) = q /\ Len(q) \in Nat BY <2>1, <2>2, <2>3, Lengths
  <2> QED BY <2>3, <2>4, <2>5, <2>6
<1> QED BY <1>1, <1>2

\* A name resolves to one of the longest routes it follows.
LEMMA ResolvesSome ==
    ASSUME NEW n \in Text, Candidates(n) # {}
    PROVE  /\ Resolve(n) \in Candidates(n) /\ Resolve(n) \in Indexes /\ IsPrefix(Prefix(Resolve(n)), n)
           /\ Repo(Resolve(n), n) = SubSeq(n, Len(Prefix(Resolve(n))) + 1, Len(n))
<1>0. Len(n) \in Nat BY Lengths
<1>1. ASSUME NEW i \in Candidates(n) PROVE i \in Indexes /\ Len(i.route) \in Nat /\ Len(i.route) <= Len(n)
  <2>1. i \in Indexes /\ i.route \in Text /\ Len(i.route) \in Nat BY AccessAssumption, TextsOf, Lengths DEF Candidates
  <2>2. CASE i.route = <<>> BY <1>0, <2>1, <2>2
  <2>3. CASE i.route # <<>> BY <1>0, <2>1, <2>3, <1>1 DEF Candidates
  <2> QED BY <2>1, <2>2, <2>3
<1>2. PICK B : B = {b \in Nat : \E i \in Candidates(n) : b = Len(n) - Len(i.route)} OBVIOUS
<1>3. \A i \in Candidates(n) : Len(n) - Len(i.route) \in B BY <1>0, <1>1, <1>2
<1>4. PICK m \in B : \A b \in B : m <= b BY <1>2, <1>3, LeastNatural
<1>5. PICK i \in Candidates(n) : m = Len(n) - Len(i.route) BY <1>2, <1>4
<1>6. \A j \in Candidates(n) : Len(j.route) <= Len(i.route) BY <1>0, <1>1, <1>3, <1>4, <1>5
<1>7. Resolve(n) \in Candidates(n) BY <1>6 DEF Resolve
<1> QED BY <1>1, <1>7, PrefixIsText

LEMMA RepoIsText ==
    ASSUME NEW n, IsText(n), Candidates(n) # {}
    PROVE  IsText(Repo(Resolve(n), n))
<1> DEFINE P == Prefix(Resolve(n))
<1>1. n \in Text /\ Len(n) \in Nat /\ Len(P) \in Nat /\ P \in Text /\ Repo(Resolve(n), n) = SubSeq(n, Len(P) + 1, Len(n)) /\ IsPrefix(P, n)
  BY TextsOf, Lengths, ResolvesSome, PrefixIsText
<1> HIDE DEF P
<1>2. Len(P) + 1 \in 1..(Len(n) + 1) BY <1>1, PrefixOf
<1>3. PICK t : t = SubSeq(n, Len(P) + 1, Len(n)) /\ t \in Text /\ \A k \in 1..Len(t) : t[k] = n[k + (Len(P) + 1) - 1] /\ Len(t) = Len(n) - (Len(P) + 1) + 1
  BY <1>1, <1>2, SuffixOf
<1>4. \A k \in 1..Len(t) : k + (Len(P) + 1) - 1 \in 1..Len(n) BY <1>1, <1>2, <1>3
<1> QED BY <1>1, <1>3, <1>4 DEF IsText, Text

\* A name that a requested name means, in the index of that name: the rest means its rest.
LEMMA PatternsStayInIndex ==
    ASSUME NEW q \in Text, NEW n \in Text, Candidates(q) # {}, Candidates(n) # {}, Means(q, n), Resolve(q) = Resolve(n)
    PROVE  Means(Repo(Resolve(q), q), Repo(Resolve(n), n))
<1> DEFINE i == Resolve(q)
           P == Prefix(i)
<1>1. /\ i \in Indexes /\ IsPrefix(P, q) /\ Repo(i, q) = SubSeq(q, Len(P) + 1, Len(q)) /\ P \in Text /\ Len(P) \in Nat
      /\ \A k \in 1..Len(P) : P[k] # Star
  BY ResolvesSome, PrefixIsText
<1>2. Len(q) \in Nat /\ Len(n) \in Nat /\ Fits(q, n, 1, 0) BY Lengths, FitsWhole
<1> HIDE DEF i, P
<1>3. Len(P) <= Len(q) /\ \A k \in 1..Len(P) : P[k] = q[k] /\ q[k] # Star BY <1>1, PrefixOf
<1>4. ASSUME NEW b \in 1..(Len(P) + 1) PROVE b - 1 \in 0..Len(n) /\ Fits(q, n, b, b - 1)
  <2>1. 0 + (b - 1) = b - 1 /\ b \in 1..(Len(q) + 1) /\ 1 \in 1..(Len(q) + 1) /\ 0 \in 0..Len(n) /\ \A k \in 1..(b - 1) : q[k] # Star
    BY <1>1, <1>2, <1>3
  <2>2. 0 + (b - 1) \in 0..Len(n) /\ Fits(q, n, b, 0 + (b - 1)) BY <1>2, <2>1, RunsForward
  <2> QED BY <2>1, <2>2
<1>5. Len(P) + 1 \in 1..(Len(P) + 1) /\ Len(P) + 1 - 1 = Len(P) BY <1>1
<1>6. Len(P) \in 0..Len(n) /\ Fits(q, n, Len(P) + 1, Len(P)) BY <1>4, <1>5
<1>7. Repo(i, n) = SubSeq(n, Len(P) + 1, Len(n)) BY ResolvesSome DEF i, P
<1>8. Means(SubSeq(q, Len(P) + 1, Len(q)), SubSeq(n, Len(P) + 1, Len(n)))
  <2>1. Len(P) + 1 \in 1..(Len(q) + 1) BY <1>1, <1>2, <1>3
  <2> QED BY <1>6, <2>1, FitsRest
<1> QED BY <1>1, <1>7, <1>8 DEF i

--------------------------------
(* Grants and tokens. *)

LEMMA EverythingMatches ==
    ASSUME NEW s \in Text
    PROVE  Everything \in Text /\ Matches(Everything, s)
<1>1. Everything \in Text /\ Len(Everything) = 1 /\ Everything[1] = Star BY AccessAssumption DEF Everything, Text
<1>2. Len(s) \in Nat /\ 0 \in 0..Len(s) /\ Len(s) \in 0..Len(s) BY Lengths
<1>3. Fits(Everything, s, 1 + 1, Len(s)) BY <1>1, <1>2, FitsEnd
<1>4. Takes(Everything, s, 1, 0, Len(s)) /\ 1 \in 1..Len(Everything) BY <1>1, <1>2 DEF Takes
<1>5. Fits(Everything, s, 1, 0) BY <1>1, <1>2, <1>3, <1>4, FitsUnfold
<1> QED BY <1>1, <1>5, FitsWhole, MatchesMeans

LEMMA GrantsOfIndex ==
    ASSUME NEW i \in Indexes
    PROVE  /\ GrantsOf(i, Anybody) = {}
           /\ \A who : \A g \in GrantsOf(i, who) : \A p \in g.projects : p \in Text
           /\ \A time : Identify(i, NoHeader, time) = Anybody
<1>1. \A k \in DOMAIN i.tokens : /\ i.tokens[k].name # Anybody /\ i.tokens[k].secret # NoHeader
                               /\ \A g \in i.tokens[k].grants : \A p \in g.projects : p \in Text
  BY AccessAssumption, TextsOf
<1>2. GrantsOf(i, Anybody) = {} BY <1>1 DEF GrantsOf
<1>3. \A who : \A g \in GrantsOf(i, who) : \A p \in g.projects : p \in Text BY <1>1 DEF GrantsOf
<1>4. \A time : Identify(i, NoHeader, time) = Anybody BY <1>1 DEF Identify
<1> QED BY <1>2, <1>3, <1>4

\* authorize, for a name of characters.
LEMMA Authorized ==
    ASSUME NEW i \in Indexes, NEW who, NEW x, NEW a
    PROVE  Authorize(who, i, x, a) = "ok" <=>
              \/ a = "read" /\ i.anonymous_read
              \/ AuthorizeGrants(GrantsOf(i, who), x, a)
<1>1. CASE a = "read" /\ i.anonymous_read BY <1>1 DEF Authorize
<1>2. CASE ~(a = "read" /\ i.anonymous_read) /\ who = Anybody
  <2>1. Authorize(who, i, x, a) # "ok" BY <1>2 DEF Authorize
  <2>2. ~AuthorizeGrants(GrantsOf(i, who), x, a) BY <1>2, GrantsOfIndex DEF AuthorizeGrants
  <2> QED BY <1>2, <2>1, <2>2
<1>3. CASE ~(a = "read" /\ i.anonymous_read) /\ who # Anybody BY <1>3 DEF Authorize
<1> QED BY <1>1, <1>2, <1>3

LEMMA AuthorizedFurther ==
    ASSUME NEW i \in Indexes, NEW who, NEW x, IsText(x), NEW y, IsText(y), Means(x, y), NEW a, Authorize(who, i, x, a) = "ok"
    PROVE  Authorize(who, i, y, a) = "ok"
<1>1. ASSUME NEW p \in Text, Matches(p, x) PROVE Matches(p, y) BY <1>1, TextsOf, MatchesMeans, MeansComposes
<1>2. x # NoProject BY TextsOf
<1>3. AuthorizeGrants(GrantsOf(i, who), x, a) => AuthorizeGrants(GrantsOf(i, who), y, a)
  BY <1>1, <1>2, GrantsOfIndex DEF AuthorizeGrants
<1> QED BY <1>3, Authorized

\* What the realm has issued: the grants approved for one credential, in the name of one subject.
Issued(h, who, scope, at, grants) ==
    /\ h = NoHeader => who = Anybody
    /\ scope.name \in Names \cup {CatalogGrant}
    /\ grants = ApprovedGrants(h, who, {scope}, at)
HeldInv ==
    held.kind = "realm" => \E who, scope : Issued(held.header, who, scope, held.at, held.grants)

LEMMA HeldInvStep == HeldInv /\ [AccessNext]_accessVars => HeldInv'
<1> SUFFICES ASSUME HeldInv, [AccessNext]_accessVars PROVE HeldInv' OBVIOUS
<1>1. ASSUME NEW h \in Secrets \cup {NoHeader}, NEW s \in Scopes, IssueToken(h, {s}) PROVE HeldInv'
  <2>1. PICK who \in IF h = NoHeader THEN {Anybody} ELSE NamedRequesters(h, aclNow) :
               held' = [kind |-> "realm", header |-> h, at |-> aclNow, exp |-> aclNow + RealmTtl,
                        grants |-> ApprovedGrants(h, who, {s}, aclNow)]
    BY <1>1 DEF IssueToken
  <2>2. s.name \in Names \cup {CatalogGrant} BY DEF Scopes
  <2>3. Issued(h, who, s, aclNow, ApprovedGrants(h, who, {s}, aclNow)) BY <2>1, <2>2 DEF Issued
  <2>4. held'.header = h /\ held'.at = aclNow /\ held'.grants = ApprovedGrants(h, who, {s}, aclNow) BY <2>1
  <2> QED BY <2>3, <2>4 DEF HeldInv
<1>2. ASSUME UNCHANGED held PROVE HeldInv' BY <1>2 DEF HeldInv
<1> QED BY <1>1, <1>2 DEF AccessNext, AclTick, accessVars

\* What a bearer may do with a name.
LEMMA BearerMay ==
    ASSUME NEW h, NEW who, NEW scope, NEW at, NEW grants, Issued(h, who, scope, at, grants), NEW g \in grants
    PROVE  /\ g.projects = {scope.name} /\ scope.name \in Text
           /\ scope.name = CatalogGrant \/ IsText(scope.name)
           /\ \A a \in g.actions :
                 IF scope.name = CatalogGrant THEN a = "read" /\ CatalogAllowed(h, who, at)
                 ELSE LET index == Resolve(scope.name) IN
                      /\ Candidates(scope.name) # {} /\ (h = NoHeader \/ Identify(index, h, at) = who)
                      /\ Authorize(who, index, Repo(index, scope.name), a) = "ok"
<1>1. /\ g.projects = {scope.name}
      /\ \A a \in g.actions :
                 IF scope.name = CatalogGrant THEN a = "read" /\ CatalogAllowed(h, who, at)
                 ELSE LET index == Resolve(scope.name) IN
                      /\ Candidates(scope.name) # {} /\ (h = NoHeader \/ Identify(index, h, at) = who)
                      /\ Authorize(who, index, Repo(index, scope.name), a) = "ok"
  BY DEF Issued, ApprovedGrants
<1>2. ASSUME scope.name = CatalogGrant PROVE scope.name \in Text BY <1>2 DEF CatalogGrant, Text
<1>3. ASSUME scope.name # CatalogGrant PROVE IsText(scope.name) /\ scope.name \in Text
  BY <1>3, AccessAssumption, TextsOf DEF Issued
<1> QED BY <1>1, <1>2, <1>3

\* What the token names is what the credential may do by the ACL of the index that was asked.
LEMMA BearersStayWithin ==
    ASSUME NEW h, NEW who, NEW scope, NEW at, NEW grants, Issued(h, who, scope, at, grants), NEW n \in Names, NEW a,
           Candidates(n) # {}, NEW g \in grants, a \in g.actions, NEW s \in g.projects, Matches(s, n), Resolve(s) = Resolve(n)
    PROVE  MayAt(Resolve(n), h, Repo(Resolve(n), n), a, at)
<1>1. IsText(n) /\ n \in Text BY AccessAssumption, TextsOf
<1>2. s = scope.name /\ Means(s, n) /\ s \in Text BY <1>1, BearerMay, MatchesMeans
<1>3. IsText(s) /\ s # CatalogGrant
  <2>1. s # CatalogGrant BY <1>1, <1>2, TextsOf
  <2> QED BY <1>2, <2>1, BearerMay
<1> DEFINE i == Resolve(n)
<1>4. Candidates(s) # {} /\ (h = NoHeader \/ Identify(i, h, at) = who) /\ Authorize(who, i, Repo(i, s), a) = "ok"
  BY <1>2, <1>3, BearerMay
<1>5. Means(Repo(i, s), Repo(i, n)) BY <1>1, <1>2, <1>4, PatternsStayInIndex
<1>6. i \in Indexes /\ IsText(Repo(i, s)) /\ IsText(Repo(i, n)) BY <1>1, <1>2, <1>3, <1>4, ResolvesSome, RepoIsText
<1>7. Identify(i, h, at) = who BY <1>4, <1>6, GrantsOfIndex DEF Issued
<1>8. Authorize(who, i, Repo(i, n), a) = "ok" BY <1>4, <1>5, <1>6, AuthorizedFurther
<1> QED BY <1>7, <1>8 DEF MayAt

LEMMA CatalogsStayWithin ==
    ASSUME NEW h, NEW who, NEW scope, NEW at, NEW grants, Issued(h, who, scope, at, grants), NEW n \in Names,
           Candidates(n) # {}, NEW g \in grants, "read" \in g.actions, CatalogGrant \in g.projects
    PROVE  MayAt(Resolve(n), h, Repo(Resolve(n), n), "read", at)
<1>1. IsText(n) /\ n \in Text BY AccessAssumption, TextsOf
<1> DEFINE i == Resolve(n)
<1>2. i \in Indexes /\ IsText(Repo(i, n)) /\ Repo(i, n) \in Text BY <1>1, ResolvesSome, RepoIsText, TextsOf
<1>3. CatalogAllowed(h, who, at) BY BearerMay
<1> HIDE DEF i
<1>4. CASE i.anonymous_read BY <1>2, <1>4, Authorized DEF MayAt, i
<1>5. CASE ~i.anonymous_read
  <2>1. Identify(i, h, at) = who /\ AuthorizeAll(who, i)
    <3>1. h = NoHeader => who = Anybody /\ Identify(i, h, at) = Anybody BY <1>2, GrantsOfIndex DEF Issued
    <3> QED BY <1>2, <1>3, <1>5, <3>1 DEF CatalogAllowed
  <2>2. PICK e \in GrantsOf(i, who) : "read" \in e.actions /\ Everything \in e.projects BY <1>5, <2>1 DEF AuthorizeAll
  <2>3. AuthorizeGrants(GrantsOf(i, who), Repo(i, n), "read") BY <1>2, <2>2, EverythingMatches DEF AuthorizeGrants
  <2> QED BY <1>2, <2>1, <2>3, Authorized DEF MayAt, i
<1> QED BY <1>4, <1>5

LEMMA SearchesAgree ==
    ASSUME NEW h, NEW who, NEW scope, NEW at, NEW grants, Issued(h, who, scope, at, grants), NEW n \in Names, Candidates(n) # {}
    PROVE  LET index == Resolve(n)
               found == \E q \in SearchPatterns(grants, Prefix(index)) : Matches(q, Repo(index, n))
           IN  /\ found <=> AuthorizeGrants(grants, n, "read")
               /\ found => AnyProject(grants, Prefix(index))
<1> DEFINE i == Resolve(n)
           P == Prefix(i)
           read == {g \in grants : "read" \in g.actions}
<1>1. IsText(n) /\ n \in Text /\ Len(n) \in Nat /\ n # NoProject BY AccessAssumption, TextsOf, Lengths
<1>2. i \in Indexes /\ IsPrefix(P, n) /\ Repo(i, n) = SubSeq(n, Len(P) + 1, Len(n)) /\ P \in Text /\ Len(P) \in Nat
  BY <1>1, ResolvesSome, PrefixIsText
<1>3. Repo(i, n) \in Text BY <1>1, RepoIsText, TextsOf
<1> HIDE DEF i, P
<1>4. P = SubSeq(n, 1, Len(P)) /\ Len(P) \in 0..Len(n) BY <1>1, <1>2, SubSeqFull DEF IsPrefix, Text
<1>5. ASSUME NEW p \in Text PROVE (\E q \in RemaindersAfter(p, P) : Matches(q, Repo(i, n))) <=> Matches(p, n)
  <2>1. (\E q \in RemaindersAfter(p, P) : Means(q, Repo(i, n))) <=> Means(p, n)
    <3>1. PICK m \in 0..Len(n) : m = Len(P) BY <1>4
    <3>2. (\E q \in RemaindersAfter(p, SubSeq(n, 1, m)) : Means(q, SubSeq(n, m + 1, Len(n)))) <=> Means(p, n)
      BY <1>1, RemaindersComplete
    <3> QED BY <1>2, <1>4, <3>1, <3>2
  <2>2. \A q \in RemaindersAfter(p, P) : q \in Text BY <1>1, <1>4, RemaindersComplete
  <2> QED BY <1>1, <1>3, <2>1, <2>2, MatchesMeans
<1>6. \A g \in grants : \A p \in g.projects : p \in Text BY BearerMay
<1>7. (\E q \in SearchPatterns(grants, P) : Matches(q, Repo(i, n)))
         <=> \E g \in read : \E p \in g.projects : \E q \in RemaindersAfter(p, P) : Matches(q, Repo(i, n))
  BY DEF SearchPatterns
<1>8. AuthorizeGrants(grants, n, "read") <=> \E g \in read : \E p \in g.projects : Matches(p, n)
  BY <1>1 DEF AuthorizeGrants
<1>9. (\E q \in SearchPatterns(grants, P) : TRUE) => AnyProject(grants, P)
  BY DEF SearchPatterns, AnyProject, MatchesPrefix
<1> QED BY <1>5, <1>6, <1>7, <1>8, <1>9 DEF i, P

LEMMA PrincipalsAgree ==
    ASSUME NEW i \in Indexes, NEW n \in Names, NEW a, NEW who
    PROVE  /\ Authorize(who, i, n, a) = "ok" => Authorize(who, i, NoProject, a) = "ok"
           /\ (Authorize(who, i, n, "read") = "ok") <=> \E p \in ReadGlobs(i, who) : Matches(p, n)
<1>1. n \in Text /\ n # NoProject BY AccessAssumption, TextsOf
<1>2. AuthorizeGrants(GrantsOf(i, who), n, a) => AuthorizeGrants(GrantsOf(i, who), NoProject, a) BY DEF AuthorizeGrants
<1>3. AuthorizeGrants(GrantsOf(i, who), n, "read")
         <=> \E p \in UNION {g.projects : g \in {e \in GrantsOf(i, who) : "read" \in e.actions}} : Matches(p, n)
  BY <1>1 DEF AuthorizeGrants
<1>4. (Authorize(who, i, n, "read") = "ok") <=> \E p \in ReadGlobs(i, who) : Matches(p, n)
  <2>1. CASE i.anonymous_read BY <1>1, <2>1, Authorized, EverythingMatches DEF ReadGlobs
  <2>2. CASE ~i.anonymous_read BY <1>3, <2>2, Authorized DEF ReadGlobs
  <2> QED BY <2>1, <2>2
<1> QED BY <1>2, <1>4, Authorized

LEMMA HeldInvNarrow == HeldInv => TokensNeverWiden
<1> SUFFICES ASSUME HeldInv, held.kind = "realm" PROVE TokensNeverWiden BY DEF TokensNeverWiden
<1>1. PICK who, scope : Issued(held.header, who, scope, held.at, held.grants) BY DEF HeldInv
<1>2. ASSUME NEW n \in Names, NEW a \in Actions, BearerAllows(held, n, a), GrantedHere(held, n, a)
      PROVE  /\ MayAt(Resolve(n), held.header, Repo(Resolve(n), n), a, held.at)
             /\ Resolve(n) \in Judges(Resolve(n), a) => BasicAllows(held.header, n, a, held.at)
  <2>1. Candidates(n) # {} BY <1>2 DEF BearerAllows
  <2>2. PICK g \in held.grants : a \in g.actions /\ \E s \in g.projects : Matches(s, n) /\ Resolve(s) = Resolve(n)
    BY <1>2 DEF GrantedHere
  <2>3. MayAt(Resolve(n), held.header, Repo(Resolve(n), n), a, held.at) BY <1>1, <2>1, <2>2, BearersStayWithin
  <2> QED BY <2>1, <2>3 DEF BasicAllows
<1>3. ASSUME CatalogByBearer(held), NEW n \in Names, Candidates(n) # {}
      PROVE  BasicAllows(held.header, n, "read", held.at)
  <2>1. MayAt(Resolve(n), held.header, Repo(Resolve(n), n), "read", held.at)
    BY <1>1, <1>3, CatalogsStayWithin DEF CatalogByBearer
  <2>2. Resolve(n) \in Judges(Resolve(n), "read") BY DEF Judges
  <2> QED BY <1>3, <2>1, <2>2 DEF BasicAllows
<1>4. ASSUME NEW n \in Names, Candidates(n) # {}
      PROVE  LET index == Resolve(n)
                 prefix == Prefix(index)
                 found == \E q \in SearchPatterns(held.grants, prefix) : Matches(q, Repo(index, n))
             IN  /\ found <=> BearerAllows(held, n, "read")
                 /\ found => AnyProject(held.grants, prefix)
  BY <1>1, <1>4, SearchesAgree DEF BearerAllows, Judges
<1>5. \A i \in Indexes, n \in Names, a \in Actions, h \in Secrets :
         LET who2 == Identify(i, h, aclNow)
         IN  /\ Authorize(who2, i, n, a) = "ok" => Authorize(who2, i, NoProject, a) = "ok"
             /\ (Authorize(who2, i, n, "read") = "ok") <=> \E p \in ReadGlobs(i, who2) : Matches(p, n)
  BY PrincipalsAgree
<1> QED BY <1>2, <1>3, <1>4, <1>5 DEF TokensNeverWiden

(* acl.rs and registry/auth.rs: the backtracking walk of a glob answers    *)
(* what the pattern means, whatever the pattern and the text, the suffixes *)
(* that restrict a search match exactly the rests of the names it covers,  *)
(* and a token of the realm names nothing at an index that the ACL of this *)
(* index did not give the password it was issued for, so that a read or a  *)
(* write to a hosted index goes through only where the password would.     *)
THEOREM AccessStaysExact == GlobSpec /\ AccessSpec => []AccessIsExact
<1>1. GlobInit => WalkInv BY DEF GlobInit, WalkInv
<1>2. AccessInit => HeldInv BY DEF AccessInit, HeldInv
<1>3. WalkInv /\ HeldInv => AccessIsExact BY WalkInvExact, HeldInvNarrow DEF AccessIsExact
<1> QED BY <1>1, <1>2, <1>3, WalkInvStep, HeldInvStep, PTL DEF GlobSpec, AccessSpec

================================
