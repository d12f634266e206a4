---------------- MODULE OciDiscovery ----------------
(* The parts of the OCI registry that talk to an upstream for more than
   one answer: the bearer tokens of the upstream client (upstream.rs), tag
   lists page by page (registry/discovery.rs) and the mirror that copies
   images for later use without an upstream (mirror.rs).  Four machines. *)
EXTENDS Integers, Sequences, FiniteSets, SequencesExt

CONSTANTS
    Sends,          \* requests through the shared upstream client
    Proxies,        \* [base, repo, identity]: an index and the repository asked for
    MaxTokens,      \* bound on tokens minted
    TagNames,       \* tags, numbered in the order of their names
    PageSizes,      \* n of a request, NoSize where it is absent
    MaxTagChanges,  \* bound on changes of the tag set
    ListedTags,     \* tags of the proxied repository, numbered likewise
    MaxTagPages,    \* MAX_TAG_PAGES
    PageTtl,        \* ttl_secs
    PageStale,      \* max_stale_secs; 0 would be no bound at all
    MaxPageNow,     \* bound on the clock
    MirrorRefs,     \* sequence of [digest, byDigest]: the images asked for
    ChildrenOf,     \* manifest -> the manifests an index names
    LayersOf        \* manifest -> its blobs

NoSize == -1

ASSUME DiscoveryAssumption ==
    /\ {MaxTokens, PageTtl, MaxPageNow, MaxTagChanges} \subseteq Nat
    /\ {MaxTagPages, PageStale} \cup TagNames \cup ListedTags \subseteq Nat \ {0}
    /\ IsFiniteSet(TagNames) /\ PageSizes \subseteq Nat \cup {NoSize}
    /\ MirrorRefs \in Seq([digest : DOMAIN ChildrenOf, byDigest : BOOLEAN])
    /\ DOMAIN LayersOf = DOMAIN ChildrenOf
    /\ \A m \in DOMAIN ChildrenOf : ChildrenOf[m] \subseteq DOMAIN ChildrenOf

--------------------------------
(* Bearer tokens                                                           *)

VARIABLES
    tokenCache,  \* <<base, scope, identity>> -> token
    mintedTokens,      \* history: tokens minted, [id, identity, base, scope]
    valid,       \* external: ids the registry still accepts
    send         \* per request [at, proxy, token, bore]; bore: the tokens it attached, in order

tokenVars == <<tokenCache, mintedTokens, valid, send>>

NoToken == [id |-> 0, identity |-> "none", base |-> "none", scope |-> "none"]
NoProxy == [base |-> "none", repo |-> "none", identity |-> "none"]
Unsent == [at |-> "idle", proxy |-> NoProxy, token |-> NoToken, bore |-> <<>>]

\* The key of the token cache: the host, the scope, and whose credentials mint it (auth_identity).
CacheKey(p) == <<p.base, p.repo, p.identity>>

TokenInit ==
    /\ tokenCache = [k \in {CacheKey(p) : p \in Proxies} |-> NoToken]
    /\ mintedTokens = {}
    /\ valid = {}
    /\ send = [s \in Sends |-> Unsent]

\* send: attach the cached token, if there is one.
BeginSend(s, p) ==
    /\ send[s].at = "idle"
    /\ LET token == tokenCache[CacheKey(p)]
       IN send' = [send EXCEPT ![s] = [at |-> "attempt", proxy |-> p, token |-> token, bore |-> <<token>>]]
    /\ UNCHANGED <<tokenCache, mintedTokens, valid>>

\* parse_bearer: a 401 whose challenge names a realm that mints bearer tokens.
Challenged(s) == send[s].token.id \notin valid

\* attempt: the registry answers anything but 401, or 401 with or without a bearer challenge.
Attempt(s) ==
    /\ send[s].at \in {"attempt", "replay"}
    /\ \/ send[s].token.id \in valid /\ send' = [send EXCEPT ![s].at = "done"]
       \/ send' = [send EXCEPT ![s].at = "failed"]
       \/ /\ send[s].at = "attempt" /\ Challenged(s)
          /\ send' = [send EXCEPT ![s].at = "challenged"]
       \/ /\ send[s].at = "replay" /\ Challenged(s)
          /\ send' = [send EXCEPT ![s].at = "failed"]
    /\ UNCHANGED <<tokenCache, mintedTokens, valid>>

\* fetch_token: the realm mints a token for the configured credentials, or fails.
FetchToken(s) ==
    LET p == send[s].proxy
        token == [id |-> Cardinality(mintedTokens) + 1, identity |-> p.identity, base |-> p.base, scope |-> p.repo]
    IN  /\ send[s].at = "challenged"
        /\ \/ /\ token.id <= MaxTokens
              /\ mintedTokens' = mintedTokens \cup {token}
              /\ valid' = valid \cup {token.id}
              /\ send' = [send EXCEPT ![s].at = "mint", ![s].token = token]
           \/ send' = [send EXCEPT ![s].at = "failed"] /\ UNCHANGED <<mintedTokens, valid>>
        /\ UNCHANGED tokenCache

\* send: cache the token, then replay once.
CacheToken(s) ==
    /\ send[s].at = "mint"
    /\ tokenCache' = [tokenCache EXCEPT ![CacheKey(send[s].proxy)] = send[s].token]
    /\ send' = [send EXCEPT ![s].at = "replay", ![s].bore = Append(@, send[s].token)]
    /\ UNCHANGED <<mintedTokens, valid>>

EndSend(s) ==
    /\ send[s].at \in {"done", "failed"}
    /\ send' = [send EXCEPT ![s] = Unsent]
    /\ UNCHANGED <<tokenCache, mintedTokens, valid>>

\* external: a token expires.
ExpireToken(id) ==
    /\ id \in valid
    /\ valid' = valid \ {id}
    /\ UNCHANGED <<tokenCache, mintedTokens, send>>

TokenNext ==
    \/ \E s \in Sends : Attempt(s) \/ FetchToken(s) \/ CacheToken(s) \/ EndSend(s) \/ \E p \in Proxies : BeginSend(s, p)
    \/ \E id \in 1..MaxTokens : ExpireToken(id)

\* One client serves every proxied index, and yet a request bears only a token that its own credentials
\* minted for its own host and repository; it is sent at most twice, and the second time with a token minted
\* for it alone.
TokensStayWithTheirOwner ==
    \A s \in Sends : LET p == send[s].proxy
                         bore == send[s].bore
                     IN /\ \A i \in DOMAIN bore : bore[i] = NoToken \/
                               (bore[i].identity = p.identity /\ bore[i].base = p.base /\ bore[i].scope = p.repo)
                        /\ Len(bore) <= 2
                        /\ Len(bore) = 2 => bore[1] # bore[2]

--------------------------------
(* A tag list in pages                                                     *)

VARIABLES
    tagSet,      \* the tags of the members, or the repositories of the catalog
    tagChanges,  \* changes made so far
    pageWalk     \* the client that follows Link headers: [at, size, last, listed, stayed]

pageVars == <<tagSet, tagChanges, pageWalk>>

\* stayed, a history: the tags that were there whenever a page was cut.
NewWalk(size) == [at |-> "next", size |-> size, last |-> 0, listed |-> <<>>, stayed |-> TagNames]

PageInit ==
    /\ tagSet = {}
    /\ tagChanges = 0
    /\ pageWalk = [NewWalk(NoSize) EXCEPT !.at = "idle"]

\* The items as a sequence, smallest first.
InOrder(items) == CHOOSE page \in [1..Cardinality(items) -> items] :
                      \A i, j \in 1..Cardinality(items) : i < j => page[i] < page[j]

\* paginate: the items after `last`, at most n of them, and the marker of the next page; n = 0 is an empty
\* page without one.
Paginate(items, last, n) ==
    LET page == InOrder({i \in items : i > last})
    IN  IF n = 0 THEN [page |-> <<>>, next |-> 0]
        ELSE IF n # NoSize /\ Len(page) > n THEN [page |-> SubSeq(page, 1, n), next |-> page[n]]
        ELSE [page |-> page, next |-> 0]

BeginPages(size) ==
    /\ pageWalk.at = "idle"
    /\ pageWalk' = NewWalk(size)
    /\ UNCHANGED <<tagSet, tagChanges>>

\* serve_tags over hosted members and serve_catalog: one page of the set as it is now, and its Link.
ServePage ==
    /\ pageWalk.at = "next"
    /\ LET cut == Paginate(tagSet, pageWalk.last, pageWalk.size)
       IN  pageWalk' = [pageWalk EXCEPT !.listed = @ \o cut.page, !.stayed = @ \cap tagSet, !.last = cut.next,
                                        !.at = IF cut.next = 0 THEN "done" ELSE "next"]
    /\ UNCHANGED <<tagSet, tagChanges>>

EndPages ==
    /\ pageWalk.at = "done"
    /\ pageWalk' = [NewWalk(NoSize) EXCEPT !.at = "idle"]
    /\ UNCHANGED <<tagSet, tagChanges>>

ChangeTags(t) ==
    /\ tagChanges < MaxTagChanges
    /\ tagSet' = IF t \in tagSet THEN tagSet \ {t} ELSE tagSet \cup {t}
    /\ tagChanges' = tagChanges + 1
    /\ UNCHANGED pageWalk

PageNext ==
    \/ \E size \in PageSizes : BeginPages(size)
    \/ ServePage \/ EndPages
    \/ \E t \in TagNames : ChangeTags(t)

\* A client that follows the links of a tag list or a catalog sees every tag that stayed, each tag once and in
\* order, and comes to an end, whatever is pushed and deleted between its pages.
PagesCoverTheList ==
    LET listed == pageWalk.listed IN
    /\ \A i \in 1..Len(listed) - 1 : listed[i] < listed[i + 1]
    /\ pageWalk.at = "done" /\ pageWalk.size # 0 => pageWalk.stayed \subseteq Range(listed)

--------------------------------
(* The tag list of a proxied index, page by page                           *)

VARIABLES
    listNow,
    upList,    \* the upstream's tags
    saidAt,    \* history: per tag the last time the upstream listed it, NotSaid if never
    pageRows,  \* per query (a marker) [at, tags, next], NoPage
    gather     \* fetch_tag_names [at, query, pages, names, from]

listVars == <<listNow, upList, saidAt, pageRows, gather>>

NotSaid == -1
NoPage == [at |-> NotSaid, tags |-> {}, next |-> 0]
NoGather == [at |-> "idle", query |-> 0, pages |-> 0, names |-> {}, from |-> 0]
Markers == ListedTags \cup {0}

ListInit ==
    /\ listNow = 0
    /\ upList = {}
    /\ saidAt = [t \in ListedTags |-> NotSaid]
    /\ pageRows = [k \in Markers |-> NoPage]
    /\ gather = NoGather

\* A page of tags joins the result; the Link decides whether another is asked for, up to MAX_TAG_PAGES.
Gathered(page) ==
    gather' = [gather EXCEPT !.names = @ \cup page.tags, !.pages = @ + 1, !.query = page.next,
                             !.at = IF page.next # 0 /\ gather.pages + 1 < MaxTagPages THEN "page" ELSE "done"]

BeginGather ==
    /\ gather.at = "idle"
    /\ gather' = [NoGather EXCEPT !.at = "page", !.from = listNow]
    /\ UNCHANGED <<listNow, upList, saidAt, pageRows>>

PageIsWithin(row, age) == row.at # NotSaid /\ listNow - row.at < age
PageIsFresh(row) == PageIsWithin(row, PageTtl)

\* proxy_tags: a fresh row answers; otherwise the upstream does, one tag a page here and with a link that
\* may lead anywhere; a row within the stale bound answers for an upstream that does not.
ProxyTags ==
    LET row == pageRows[gather.query] IN
    /\ gather.at = "page"
    /\ \/ /\ PageIsFresh(row)
          /\ Gathered(row)
          /\ UNCHANGED <<saidAt, pageRows>>
       \/ /\ ~PageIsFresh(row)
          /\ \E next \in Markers :
                LET after == {t \in upList : t > gather.query}
                    page == [at |-> listNow, next |-> next,
                             tags |-> IF after = {} THEN {} ELSE {CHOOSE t \in after : \A u \in after : t <= u}]
                IN  /\ pageRows' = [pageRows EXCEPT ![gather.query] = page]
                    /\ saidAt' = [t \in ListedTags |-> IF t \in page.tags THEN listNow ELSE saidAt[t]]
                    /\ Gathered(page)
       \/ /\ ~PageIsFresh(row)
          /\ IF PageIsWithin(row, PageTtl + PageStale)
             THEN Gathered(row)
             ELSE gather' = [gather EXCEPT !.at = "failed"]
          /\ UNCHANGED <<saidAt, pageRows>>
    /\ UNCHANGED <<listNow, upList>>

EndGather ==
    /\ gather.at \in {"done", "failed"}
    /\ gather' = NoGather
    /\ UNCHANGED <<listNow, upList, saidAt, pageRows>>

ListTick ==
    /\ listNow < MaxPageNow
    /\ listNow' = listNow + 1
    /\ UNCHANGED <<upList, saidAt, pageRows, gather>>

\* external
ChangeUpstream(t) ==
    /\ upList' = IF t \in upList THEN upList \ {t} ELSE upList \cup {t}
    /\ UNCHANGED <<listNow, saidAt, pageRows, gather>>

ListNext == BeginGather \/ ProxyTags \/ EndGather \/ ListTick \/ \E t \in ListedTags : ChangeUpstream(t)

\* A list gathered from pages cached at different times names only tags that the upstream listed within the
\* ttl and the stale bound before the gathering began, and a chain of links ends after MAX_TAG_PAGES pages
\* even when the upstream's links lead in a circle.
ListsAreRecent ==
    /\ gather.pages <= MaxTagPages
    /\ gather.at = "page" => gather.pages < MaxTagPages
    /\ \A t \in gather.names : saidAt[t] # NotSaid /\ gather.from - saidAt[t] < PageTtl + PageStale

--------------------------------
(* The mirror                                                              *)

VARIABLES
    mirror,      \* [at, mode, left, pending, manifests, layers, errors]
    mirrorStore, \* manifests stored
    mirrorBlobs, \* blobs stored
    mirrorTags   \* tag rows of the references

mirrorVars == <<mirror, mirrorStore, mirrorBlobs, mirrorTags>>

\* left: references to go; pending: manifests to walk; children and layers: what the walked manifest names
\* and is still to be looked at; errors: whether any row is an error.
NoMirror == [at |-> "idle", mode |-> "none", left |-> <<>>, pending |-> <<>>, children |-> {}, layers |-> {},
             errors |-> FALSE]
AllManifests == DOMAIN ChildrenOf

MirrorInit ==
    /\ mirror = NoMirror
    /\ mirrorStore = {}
    /\ mirrorBlobs = {}
    /\ mirrorTags = {}

BeginMirror(mode) ==
    /\ mirror.at \in {"idle", "synced", "error", "aborted"}
    /\ mirror' = [NoMirror EXCEPT !.at = "refs", !.mode = mode, !.left = MirrorRefs]
    /\ UNCHANGED <<mirrorStore, mirrorBlobs, mirrorTags>>

\* manifest_of: verify reads the store; sync fetches, and a digest reference must hash to itself.  A failed
\* fetch or a wrong digest is an error row, a body that breaks off ends the run.
ManifestOf(m, tagged, found, missed) ==
    \/ /\ mirror.mode = "verify"
       /\ IF m \in mirrorStore /\ (tagged => m \in mirrorTags) THEN mirror' = found ELSE mirror' = missed
       /\ UNCHANGED <<mirrorStore, mirrorTags>>
    \/ /\ mirror.mode = "sync"
       /\ \/ /\ mirrorStore' = mirrorStore \cup {m}
             /\ mirrorTags' = IF tagged THEN mirrorTags \cup {m} ELSE mirrorTags
             /\ mirror' = found
          \/ mirror' = missed /\ UNCHANGED <<mirrorStore, mirrorTags>>
          \/ mirror' = [NoMirror EXCEPT !.at = "aborted"] /\ UNCHANGED <<mirrorStore, mirrorTags>>

OneRefQuietly ==
    /\ mirror.at = "refs" /\ mirror.left # <<>>
    /\ LET ref == Head(mirror.left)
           rest == [mirror EXCEPT !.left = Tail(@)]
       IN  ManifestOf(ref.digest, ~ref.byDigest, [rest EXCEPT !.at = "walk", !.pending = <<ref.digest>>], rest)
    /\ UNCHANGED mirrorBlobs

\* one_ref: the manifest of the reference, to be walked if it was found.
OneRef ==
    /\ mirror.at = "refs" /\ mirror.left # <<>>
    /\ LET ref == Head(mirror.left)
           rest == [mirror EXCEPT !.left = Tail(@)]
       IN  ManifestOf(ref.digest, ~ref.byDigest, [rest EXCEPT !.at = "walk", !.pending = <<ref.digest>>],
                      [rest EXCEPT !.errors = TRUE])
    /\ UNCHANGED mirrorBlobs

\* walk_manifest: the last pending manifest, first its children and then its blobs.
WalkManifest ==
    /\ mirror.at = "walk" /\ mirror.children = {} /\ mirror.layers = {}
    /\ mirror' = IF mirror.pending = <<>> THEN [mirror EXCEPT !.at = "refs"]
                 ELSE LET m == Last(mirror.pending)
                      IN [mirror EXCEPT !.pending = Front(@), !.children = ChildrenOf[m], !.layers = LayersOf[m]]
    /\ UNCHANGED <<mirrorStore, mirrorBlobs, mirrorTags>>

WalkChild(m) ==
    /\ mirror.at = "walk" /\ m \in mirror.children
    /\ LET rest == [mirror EXCEPT !.children = @ \ {m}]
       IN  ManifestOf(m, FALSE, [rest EXCEPT !.pending = Append(@, m)], [rest EXCEPT !.errors = TRUE])
    /\ UNCHANGED mirrorBlobs

\* blob: stored already, fetched, or an error row; verify fetches nothing.
MirrorBlob(b) ==
    LET rest == [mirror EXCEPT !.layers = @ \ {b}] IN
    /\ mirror.at = "walk" /\ mirror.children = {} /\ b \in mirror.layers
    /\ \/ b \in mirrorBlobs /\ mirror' = rest /\ UNCHANGED mirrorBlobs
       \/ /\ b \notin mirrorBlobs /\ mirror.mode = "sync"
          /\ mirrorBlobs' = mirrorBlobs \cup {b}
          /\ mirror' = rest
       \/ b \notin mirrorBlobs /\ mirror' = [rest EXCEPT !.errors = TRUE] /\ UNCHANGED mirrorBlobs
    /\ UNCHANGED <<mirrorStore, mirrorTags>>

\* mirror: the trailing summary.
Summary ==
    /\ mirror.at = "refs" /\ mirror.left = <<>>
    /\ mirror' = [mirror EXCEPT !.at = IF mirror.errors THEN "error" ELSE "synced"]
    /\ UNCHANGED <<mirrorStore, mirrorBlobs, mirrorTags>>

\* Between runs the registry may unlink what a later push left unreferenced, or purge may collect a blob.
LoseContent(x) ==
    /\ mirror.at = "error" /\ mirror.mode = "sync"
    /\ mirrorStore' = mirrorStore \ {x} /\ mirrorBlobs' = mirrorBlobs \ {x}
    /\ mirror' = NoMirror
    /\ UNCHANGED mirrorTags

MirrorNext ==
    \/ \E mode \in {"sync", "verify"} : BeginMirror(mode)
    \/ OneRef \/ WalkManifest \/ Summary
    \/ \E m \in AllManifests : WalkChild(m)
    \/ \E b \in UNION Range(LayersOf) : MirrorBlob(b)
    \/ \E x \in AllManifests \cup UNION Range(LayersOf) : LoseContent(x)

\* The manifests that one reaches from m: m, its children, and theirs (indexes nest twice at most here).
Closure(m) == LET near == {m} \cup ChildrenOf[m] IN near \cup UNION {ChildrenOf[c] : c \in near}

\* A run that reports success has the whole image: every manifest that the reference leads to through the
\* indexes, every blob any of them names, and the tag; for a sync that fetched some and found the rest as
\* well as for a verify that fetched nothing.
MirrorIsComplete ==
    mirror.at = "synced" => \A i \in DOMAIN MirrorRefs : LET ref == MirrorRefs[i] IN
        /\ \A m \in Closure(ref.digest) : m \in mirrorStore /\ LayersOf[m] \subseteq mirrorBlobs
        /\ ~ref.byDigest => ref.digest \in mirrorTags

\* One bad reference never aborts a run (mirror): a run ends with a summary.
RunsEndWithASummary == mirror.at # "aborted"

--------------------------------
(* The four machines share nothing.                                        *)

TokenSpec == TokenInit /\ [][TokenNext]_tokenVars
PageSpec == PageInit /\ [][PageNext]_pageVars
ListSpec == ListInit /\ [][ListNext]_listVars
MirrorSpec == MirrorInit /\ [][MirrorNext]_mirrorVars

\* What the registry asks of an upstream in several answers: tokens that stay with their owner, pages that
\* cover a list, lists no older than the bounds, and a mirror that reports success only for whole images.
DiscoveryIsSound == TokensStayWithTheirOwner /\ PagesCoverTheList /\ ListsAreRecent /\ MirrorIsComplete

================================
