---------------- MODULE Access ----------------
(* The access model: acl.rs of peryx-identity, the Bearer realm of the OCI
   registry (registry/auth.rs) and what its routes check (authorize_read
   and resolve_writable of registry/mod.rs, as identify and authorize of
   the PyPI driver do), and the read access that search and the web pages
   share (access.rs of peryx-driver).

   A read is judged by the ACL of the index the name resolves to, a write
   or delete by that of the hosted index its uploads go to.

   A name is a sequence of characters; in a pattern `*` stands for any run
   of characters and every other character for itself.  Glob::matches is a
   loop with a backtracking point; it runs here one iteration at a time,
   so that its answer can be compared with what a pattern means. *)
EXTENDS Integers, FiniteSets, SequencesExt

CONSTANTS
    Characters,     \* what names and patterns are made of
    Patterns,       \* the patterns whose walk is checked
    Texts,          \* the names they are matched with
    Indexes,        \* the OCI indexes: set of [route, anonymous_read, tokens]
    UploadTargets,  \* of each, where uploads go: itself if hosted, its upload member if virtual, or nowhere
    Secrets,        \* what a Basic header may carry
    Names,          \* the repository names clients ask for
    RealmTtl,       \* token_ttl_secs
    MaxAclNow       \* bound on the clock

Star == "*"
Slash == "/"
Actions == {"read", "write", "delete"}
Anybody == "anonymous"
NoHeader == "no credentials"
NoProject == <<"noproject">>
Everything == <<Star>>

IsToken(t) == DOMAIN t = {"name", "secret", "grants", "expires_at"}

\* What a name of an index starts with.
Prefix(index) == IF index.route = <<>> THEN <<>> ELSE index.route \o <<Slash>>

IsText(s) == s \in Seq(Characters)

\* What the configuration enforces: tokens of one index have different names, though they may share a secret;
\* routes differ, though one may be inside another, and have no stars; uploads go to a hosted index.
ASSUME AccessAssumption ==
    /\ {Star, Slash} \subseteq Characters /\ Characters \cap {"end", "noproject", "catalog"} = {}
    /\ \A i \in Indexes : /\ DOMAIN i = {"route", "anonymous_read", "tokens"}
                          /\ IsText(i.route) /\ \A k \in 1..Len(i.route) : i.route[k] # Star
                          /\ \A k \in DOMAIN i.tokens :
                                LET t == i.tokens[k]
                                IN  /\ IsToken(t) /\ t.name # Anybody /\ t.secret \in Secrets
                                    /\ \A g \in t.grants : \A p \in g.projects : IsText(p)
                          /\ \A k, l \in DOMAIN i.tokens : i.tokens[k].name = i.tokens[l].name => k = l
    /\ \A i, j \in Indexes : i.route = j.route => i = j
    /\ \A i \in Indexes : /\ UploadTargets[i] \in {{}} \cup {{j} : j \in Indexes}
                          /\ \A j \in UploadTargets[i] : UploadTargets[j] = {j}
    /\ \A s \in Patterns \cup Texts \cup Names : IsText(s)
    /\ NoHeader \notin Secrets /\ RealmTtl \in Nat /\ MaxAclNow \in Nat

VARIABLES
    walk,       \* the walk in progress: [pattern, text, at, cursor, star, resume, result]
    aclNow,     \* the clock
    held        \* the last bearer token the realm issued, with the credential it was issued for

accessVars == <<aclNow, held>>

AccessInit ==
    /\ aclNow = 0
    /\ held = [kind |-> "none"]

--------------------------------
(* Patterns                                                                *)

GlobInit == walk = [result |-> "none"]

\* matches, up to the loop: at is the position in the pattern, cursor in the text, star the last star seen
\* (0 for none) and resume where it started to swallow.
BeginWalk(p, s) ==
    /\ walk.result = "none"
    /\ walk' = [pattern |-> p, text |-> s, at |-> 1, cursor |-> 1, star |-> 0, resume |-> 1, result |-> "walking"]

At(w) == IF w.at <= Len(w.pattern) THEN w.pattern[w.at] ELSE "end"

\* One iteration of the loop of matches.
Iteration(w) ==
    CASE At(w) = Star -> [w EXCEPT !.star = w.at, !.resume = w.cursor, !.at = @ + 1]
      [] At(w) # Star /\ At(w) = w.text[w.cursor] -> [w EXCEPT !.at = @ + 1, !.cursor = @ + 1]
      [] At(w) \notin {Star, w.text[w.cursor]} /\ w.star # 0 ->
            [w EXCEPT !.at = w.star + 1, !.resume = @ + 1, !.cursor = w.resume + 1]
      [] OTHER -> [w EXCEPT !.result = "no"]

\* matches: the loop ends with the text; what is left of the pattern must be stars.
WalkOn ==
    /\ walk.result = "walking"
    /\ walk' = IF walk.cursor <= Len(walk.text) THEN Iteration(walk)
               ELSE [walk EXCEPT !.result = IF \A i \in walk.at..Len(walk.pattern) : walk.pattern[i] = Star
                                            THEN "yes" ELSE "no"]

GlobNext == (\E p \in Patterns, s \in Texts : BeginWalk(p, s)) \/ WalkOn

GlobSpec == GlobInit /\ [][GlobNext]_walk

\* close_stars
CloseStars(p, reachable) ==
    {i \in 1..(Len(p) + 1) : \E j \in reachable : j <= i /\ \A k \in j..(i - 1) : p[k] = Star}

Advance(p, reachable, c) ==
    CloseStars(p, {i \in reachable : i <= Len(p) /\ p[i] = Star}
                  \cup {i + 1 : i \in {j \in reachable : j <= Len(p) /\ p[j] # Star /\ p[j] = c}})

\* The positions remainders_after keeps after a prefix.
Reachable(p, prefix) ==
    LET after[n \in 0..Len(prefix)] == IF n = 0 THEN CloseStars(p, {1}) ELSE Advance(p, after[n - 1], prefix[n])
    IN  after[Len(prefix)]

\* remainders_after
RemaindersAfter(p, prefix) == {SubSeq(p, i, Len(p)) : i \in Reachable(p, prefix)}

MatchesPrefix(p, prefix) == RemaindersAfter(p, prefix) # {}

\* What a pattern means: the text is cut into one piece per character of the pattern, of any length for a
\* star and the character itself otherwise.
Means(p, s) ==
    \E cut \in [0..Len(p) -> 0..Len(s)] :
       /\ cut[0] = 0 /\ cut[Len(p)] = Len(s)
       /\ \A i \in 1..Len(p) : IF p[i] = Star THEN cut[i - 1] <= cut[i]
                               ELSE cut[i] = cut[i - 1] + 1 /\ s[cut[i]] = p[i]

\* matches, where only its answer matters.
Matches(p, s) == (Len(p) + 1) \in Reachable(p, s)

--------------------------------
(* The ACL of an index                                                     *)

\* IndexAcl::identify with NamedToken::live: the first live token with the password.
Identify(index, header, now) ==
    LET live == {k \in DOMAIN index.tokens :
                   LET t == index.tokens[k] IN t.secret = header /\ (t.expires_at = -1 \/ now < t.expires_at)}
    IN  IF live = {} THEN Anybody ELSE index.tokens[Min(live)].name

GrantsOf(index, principal) ==
    UNION {index.tokens[k].grants : k \in {l \in DOMAIN index.tokens : index.tokens[l].name = principal}}

GrantsToAnyone(index, action) ==
    \E k \in DOMAIN index.tokens : \E g \in index.tokens[k].grants : action \in g.actions

\* authorize_grants, with Grant::allows
AuthorizeGrants(grants, project, action) ==
    \E g \in grants : action \in g.actions /\ (project = NoProject \/ \E p \in g.projects : Matches(p, project))

\* authorize: "ok" or the denial.
Authorize(principal, index, project, action) ==
    CASE action = "read" /\ index.anonymous_read -> "ok"
      [] ~(action = "read" /\ index.anonymous_read) /\ principal = Anybody ->
            IF GrantsToAnyone(index, action) THEN "unauthenticated" ELSE "unavailable"
      [] OTHER -> IF AuthorizeGrants(GrantsOf(index, principal), project, action) THEN "ok" ELSE "forbidden"

\* authorize_all: a catalog needs the grant of everything.
AuthorizeAll(principal, index) ==
    \/ index.anonymous_read
    \/ \E g \in GrantsOf(index, principal) : "read" \in g.actions /\ Everything \in g.projects

--------------------------------
(* The token realm of the registry                                         *)

\* resolve: the index of the longest route that a non-empty repository name follows.
Candidates(name) ==
    {i \in Indexes : i.route = <<>> \/ (IsPrefix(i.route \o <<Slash>>, name) /\ Len(name) > Len(i.route) + 1)}

Resolve(name) == CHOOSE i \in Candidates(name) : \A j \in Candidates(name) : Len(j.route) <= Len(i.route)

Repo(index, name) == IF index.route = <<>> THEN name ELSE SubSeq(name, Len(index.route) + 2, Len(name))

\* named_requester: the principals a password can speak as, over the OCI indexes.
NamedRequesters(header, now) == {Identify(i, header, now) : i \in Indexes} \ {Anybody}

CatalogGrant == <<"catalog">>

\* authorize_catalog_requester
CatalogAllowed(header, principal, now) ==
    \A i \in {j \in Indexes : ~j.anonymous_read} :
       IF header = NoHeader THEN AuthorizeAll(Anybody, i)
       ELSE Identify(i, header, now) = principal /\ AuthorizeAll(principal, i)

ApprovedByName(header, principal, scopes, now) ==
    {g \in {[projects |-> {s.name},
             actions |-> {a \in s.actions :
                            /\ Candidates(s.name) # {}
                            /\ LET index == Resolve(s.name)
                               IN  Authorize(principal, index, Repo(index, s.name), a) = "ok"}]
            : s \in scopes} : g.actions # {}}

\* approved_grants: of each scope, what the requester may do there, as the same subject it was named by.
ApprovedGrants(header, principal, scopes, now) ==
    {g \in {[projects |-> {s.name},
             actions |-> IF s.name = CatalogGrant
                         THEN {a \in {"read"} : CatalogAllowed(header, principal, now)}
                         ELSE {a \in s.actions :
                                 /\ Candidates(s.name) # {}
                                 /\ LET index == Resolve(s.name)
                                    IN  /\ header = NoHeader \/ Identify(index, header, now) = principal
                                        /\ Authorize(principal, index, Repo(index, s.name), a) = "ok"}]
            : s \in scopes} : g.actions # {}}

\* issue_token, for this service's audience: a password that names nobody is refused.
IssueToken(header, scopes) ==
    \E principal \in IF header = NoHeader THEN {Anybody} ELSE NamedRequesters(header, aclNow) :
       /\ held' = [kind |-> "realm", header |-> header, at |-> aclNow, exp |-> aclNow + RealmTtl,
                   grants |-> ApprovedGrants(header, principal, scopes, aclNow)]
       /\ UNCHANGED aclNow

AclTick == aclNow < MaxAclNow /\ aclNow' = aclNow + 1 /\ UNCHANGED held

Scopes == [name : Names \cup {CatalogGrant}, actions : {{"read"}, {"write"}, Actions}]

AccessNext ==
    \/ \E h \in Secrets \cup {NoHeader}, s \in Scopes : IssueToken(h, {s})
    \/ AclTick

AccessSpec == AccessInit /\ [][AccessNext]_accessVars

--------------------------------
(* What a credential lets through                                          *)

\* resolve_writable: the index whose ACL judges an action, if any.
Judges(index, action) == IF action = "read" THEN {index} ELSE UploadTargets[index]

\* What a Basic header may do by the ACL of one index.
MayAt(judge, header, repo, action, now) == Authorize(Identify(judge, header, now), judge, repo, action) = "ok"

\* PresentedIdentity::authorize for a verified bearer, and authorize_exact_grants for the catalog: the grants
\* alone decide.
BearerAllows(token, name, action) ==
    Candidates(name) # {} /\ Judges(Resolve(name), action) # {} /\ AuthorizeGrants(token.grants, name, action)

CatalogByBearer(token) == \E g \in token.grants : "read" \in g.actions /\ CatalogGrant \in g.projects

\* The same for a Basic header: authorize_read and resolve_writable.
BasicAllows(header, name, action, now) ==
    /\ Candidates(name) # {}
    /\ \E judge \in Judges(Resolve(name), action) : MayAt(judge, header, Repo(Resolve(name), name), action, now)

\* A grant of the token covers the name, and was requested for the index the name is in: a requested name with
\* a star may also cover names of an index whose route lies inside.
GrantedHere(token, name, action) ==
    \E g \in token.grants : action \in g.actions /\ \E s \in g.projects : Matches(s, name) /\ Resolve(s) = Resolve(name)

\* search_access: the patterns a search is restricted to in one index, for a bearer and for a principal.
SearchPatterns(grants, prefix) ==
    UNION {RemaindersAfter(p, prefix) : p \in UNION {g.projects : g \in {h \in grants : "read" \in h.actions}}}

ReadGlobs(index, principal) ==
    IF index.anonymous_read THEN {Everything}
    ELSE UNION {g.projects : g \in {h \in GrantsOf(index, principal) : "read" \in h.actions}}

\* authorize_any_project of a bearer
AnyProject(grants, prefix) == \E g \in grants : "read" \in g.actions /\ \E p \in g.projects : MatchesPrefix(p, prefix)

--------------------------------
(* Properties                                                              *)

\* The backtracking walk of Glob::matches answers what the pattern means, for stars anywhere and in a row; and
\* the suffixes of remainders_after match exactly the rests that complete a prefix.
GlobsAreExact ==
    walk.result \in {"yes", "no"} =>
       LET p == walk.pattern
           s == walk.text
       IN  /\ walk.result = "yes" <=> Means(p, s)
           /\ Matches(p, s) <=> Means(p, s)
           /\ \A n \in 0..Len(s) :
                 (\E q \in RemaindersAfter(p, SubSeq(s, 1, n)) : Means(q, SubSeq(s, n + 1, Len(s)))) <=> Means(p, s)

\* A token of the realm is no more than the credential it was issued for: whatever name and action a bearer gets
\* through by a grant requested for that index, the index's own ACL gave the password when the token was issued,
\* though the requested name becomes a pattern and one password may speak as different subjects on different
\* indexes.  So the password itself would have got through, for a read and for a write to a hosted index (a
\* write by password through a virtual index asks the ACL of its upload member instead).  The catalog needs a
\* grant of its own.  Search and the project pages agree on what a bearer or a principal may read, and the check
\* before a name is known never refuses what the check of the name allows.
TokensNeverWiden ==
    held.kind = "realm" =>
          /\ \A n \in Names, a \in Actions :
                BearerAllows(held, n, a) /\ GrantedHere(held, n, a) =>
                   LET index == Resolve(n)
                   IN  /\ MayAt(index, held.header, Repo(index, n), a, held.at)
                       /\ index \in Judges(index, a) => BasicAllows(held.header, n, a, held.at)
          /\ CatalogByBearer(held) =>
                \A n \in Names : Candidates(n) # {} => BasicAllows(held.header, n, "read", held.at)
          /\ \A n \in Names :
                Candidates(n) # {} =>
                   LET index == Resolve(n)
                       prefix == Prefix(index)
                       found == \E q \in SearchPatterns(held.grants, prefix) : Matches(q, Repo(index, n))
                   IN  /\ found <=> BearerAllows(held, n, "read")
                       /\ found => AnyProject(held.grants, prefix)
          /\ \A i \in Indexes, n \in Names, a \in Actions, h \in Secrets :
                LET who == Identify(i, h, aclNow)
                IN  /\ Authorize(who, i, n, a) = "ok" => Authorize(who, i, NoProject, a) = "ok"
                    /\ (Authorize(who, i, n, "read") = "ok") <=> \E p \in ReadGlobs(i, who) : Matches(p, n)

\* The walk of a glob decides what the pattern means, and no credential opens more than it was given.
AccessIsExact == GlobsAreExact /\ TokensNeverWiden

================================
