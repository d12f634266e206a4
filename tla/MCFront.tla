---------------- MODULE MCFront ----------------
(* An instance of what stands in front of every index: rate limits, the
   exchange of CI identities, user accounts, globs and grants, the policy
   with its decision log; and of what the OCI registry asks of and says
   about an upstream: tokens, tag pages, tag lists, the mirror; and of
   what passes through the server as data: distributions and the forms
   they are uploaded with, configuration files, upstream project pages and
   mirror commands.  They share no state here, and a behaviour runs one of
   them. *)
EXTENDS PublishForm, Configuration, PageTransform, Prefetch, OciDiscovery, RateLimit, TrustedPublishing, UserAccounts,
        Access, Policy, TLC

CONSTANTS c1, c2

VARIABLE part

\* The callers of each part are alike.
Symmetry == Permutations({c1, c2})

discoveryVars == <<tokenVars, pageVars, listVars, mirrorVars>>
admissionVars == <<rateVars, oidcVars, userVars, walk, accessVars, policyVars>>
packageVars == <<archiveVars, publish, setup, pageStreamVars, prefetch>>
frontVars == <<part, admissionVars, discoveryVars, packageVars>>

--------------------------------
(* Distributions and upload forms. *)

ProjectNames == ("Proj" :> "proj") @@ ("proj" :> "proj") @@ ("other" :> "other")
VersionTexts == ("1.0" :> "1") @@ ("1" :> "1") @@ ("2.0" :> "2")
ParsedName(kind, root) == [name |-> "proj", version |-> "1", kind |-> kind, root |-> root]
DistributionNames ==
    ("proj-1.0.whl" :> ParsedName("wheel", Missing)) @@ ("proj-1.0.tar.gz" :> ParsedName("tar", "r"))
    @@ ("proj-2.0.whl" :> [ParsedName("wheel", Missing) EXCEPT !.version = "2"])
Line(k, v) == [key |-> k, value |-> v]
Entry(path, type) == [path |-> path, type |-> type, target |-> <<"b">>, size |-> 1, lines |-> <<>>]
PkgInfo(lines) == [Entry(<<"r", "PKG-INFO">>, "file") EXCEPT !.lines = lines]
Lines(v) == <<Line("metadata-version", v), Line("name", "Proj"), Line("version", "1"), Line("license-file", "L")>>
PyProject == Entry(<<"r", "pyproject.toml">>, "file")
License == Entry(<<"r", "L">>, "file")
WalkedEntries ==
    {PyProject, PkgInfo(Lines("2.4")), Entry(<<"..", "x">>, "file"),
     Entry(<<"r", "a">>, "symlink"), [Entry(<<"r", "b">>, "symlink") EXCEPT !.target = <<"..", "..">>],
     [Entry(<<"r", "b">>, "symlink") EXCEPT !.target = <<"d">>],
     [Entry(<<"r", "h">>, "hardlink") EXCEPT !.target = <<"o", "a">>],
     Entry(<<"r", "a", "c">>, "file"), Entry(<<"r", "dev">>, "other")}
Member(n, size, inner) == [name |-> <<n>>, type |-> "file", size |-> size, inner |-> inner]
Inner == [kind |-> "zip", members |-> <<Member("x", 1, NoArchive)>>]
Inspected ==
    {[kind |-> k, members |-> s] : k \in {"zip", "tar"}, s \in
        UNION {[1 .. n -> {Member("i", 1, Inner), Member("x", 1, NoArchive), Member("i", 9, Inner), Member("..", 1, NoArchive)}] : n \in 0 .. 3}}
MemberTexts == {<<"a", "2", "c", "3", "c", "c", "a">>, <<"3", "c", "c", "3", "c", "c">>, <<"a", "a">>, <<>>}

Part(f, v) == [field |-> f, value |-> v, size |-> 1, attested |-> NoAttestations]
SentParts ==
    [kind \in {"wheel", "tar"} |->
        <<Part("action", "file_upload"), Part("name", "Proj"), Part("version", "1.0"),
          Part("filetype", IF kind = "wheel" THEN "bdist_wheel" ELSE "sdist"), Part("md5_digest", "right"),
          Part("content", IF kind = "wheel" THEN "proj-1.0.whl" ELSE "proj-1.0.tar.gz")>>]
StatementSubject(n, d) == [name |-> n, digest |-> d]
Attested(subjects) ==
    [Part("attestations", "json") EXCEPT
        !.attested = [sent |-> TRUE, json |-> TRUE, list |-> <<[readable |-> TRUE, subjects |-> subjects]>>]]
UrlTexts == ("Docs, http" :> <<"Docs", "http">>) @@ (", http" :> <<"", "http">>) @@ ("Homepage, http" :> <<"Homepage", "http">>)
StrayParts ==
    {Part("content", "proj-2.0.whl"), [Part("content", "proj-1.0.whl") EXCEPT !.size = 2], Part("action", "other"), Part("name", "other"), Part("name", "bad"), Part("version", "2.0"),
     Part("filetype", "sdist"), Part("md5_digest", "wrong"), Part("sha256_digest", "wrong"), Part("sha256_digest", "right"),
     Part("blake2_256_digest", "bad"), Part("requires_python", ">=3"), Part("requires_python", "bad"), Part("license", "MIT"), Part("license", "long"),
     Part("license_expression", "MIT"), Part("license_files", "L"), Part("license_files", "M"), Part("provides_extra", "proj"),
     Part("project_urls", "Docs, http"), Part("home_page", "http"), Part("metadata_version", "2.4"), Part("comment", ""),
     Attested(<<StatementSubject(Missing, "right")>>), Attested(<<StatementSubject("other.whl", "right")>>), Attested(<<StatementSubject("proj-1.0.whl", "wrong")>>),
     Attested(<<>>)}
ExtraLines ==
    <<Line("requires-python", ">=3"), Line("requires-python", "bad"), Line("license", "MIT"), Line("license-expression", "MIT"),
      Line("license-expression", "bad"), Line("classifier", "bad"), Line("requires-dist", "bad"), Line("home-page", "http"),
      Line("home-page", "bad"), Line("author-email", "bad"), Line("provides-extra", "Proj"), Line("provides-extra", "proj"),
      Line("license-file", "M"), Line("license-file", "bad"), Line("dynamic", "name"), Line("import-name", "pkg"),
      Line("import-namespace", ""), Line("project-url", "Docs, http"), Line("project-url", ", http"), Line("name", "other"),
      Line("folded", ""), Line("summary", "x")>>
HonestWheel(lines) ==
    LET files == {"METADATA", "WHEEL", "RECORD", "L"}
        row(f) == [file |-> f, hash |-> IF f = "RECORD" THEN "" ELSE "right", size |-> ""]
    IN  [dirs |-> {[name |-> "Proj", version |-> "1.0"]}, unsafe |-> FALSE, files |-> files,
         rows |-> <<row("METADATA"), row("WHEEL"), row("RECORD"), row("L")>>,
         wheelFile |-> TRUE, entryPoints |-> TRUE, lines |-> lines, flaws |-> 0]
Distribution(kind, lines, honest) ==
    [kind |-> kind, lines |-> lines, wheel |-> HonestWheel(lines), entries |-> <<PyProject, PkgInfo(lines), License>>,
     utf8 |-> TRUE, honest |-> honest, carried |-> {"L"}]
Uploaded ==
    <<Distribution("wheel", Lines("2.4"), TRUE), Distribution("tar", Lines("2.4"), TRUE),
      Distribution("wheel", Append(Lines("2.2"), Line("import-name", "pkg")), FALSE),
      Distribution("tar", Lines("1.0"), FALSE), Distribution("wheel", Lines("bad"), FALSE),
      Distribution("wheel", Lines("2.4") \o <<Line("summary", "x"), Line("summary", "x")>>, FALSE),
      [Distribution("wheel", Lines("2.4"), FALSE) EXCEPT !.utf8 = FALSE]>>
    \o [i \in DOMAIN ExtraLines |-> Distribution("wheel", Append(Lines("2.6"), ExtraLines[i]), FALSE)]

--------------------------------
(* Configuration layers. *)

SecretFile(key) == ("file" :> key)
SecretEnv(key) == ("env" :> key)
SecretText(key) == ("literal" :> key)
HostedIndex(name) == [name |-> name, hosted |-> "yes"]
AccessToken(name, secret, actions) == [name |-> name, secret |-> secret, actions |-> actions]
Publisher(repository) == [id |-> "p", issuer |-> "ci", repository |-> repository, subject |-> "main", projects |-> <<"*">>]
Private ==
    [name |-> "private", cached |-> "https://u", username |-> "bob", password |-> SecretEnv("PW"), tls |-> [ca_file |-> "ca"],
     policy |-> [block_projects |-> <<"evil">>, max_file_size_bytes |-> "9", min_release_age |-> "7"],
     prefetch |-> [mode |-> "metadata-only"], anonymous_read |-> "no"]
Routed ==
    [name |-> "routed", offline |-> "no",
     upstream |-> <<[name |-> "a", url |-> "https://u", token |-> SecretFile("tok")], [name |-> "b", url |-> "http://v:8080", artifact_url |-> "https://u"]>>,
     pins |-> ("x" :> "b"), protected |-> <<"x">>, fallback |-> "no"]
Store ==
    [name |-> "store", upload_token |-> SecretFile("tok"), volatile |-> "no",
     access_token |-> <<AccessToken("ci", SecretText("s"), {"read", "write"}), AccessToken("del", SecretFile("tok"), {"delete"})>>,
     webhook |-> <<[name |-> "w", url |-> "u", secret |-> SecretEnv("HOOK"), events |-> <<"upload">>]>>]
MergedIndex(layers) == [name |-> "all", route |-> "root/all", layers |-> layers]
ImagesIndex == [name |-> "images", ecosystem |-> "oci", cached |-> "https://u", settings |-> [library_prefix |-> "no"]]
Topology == <<Private, Routed, Store, MergedIndex(<<"private", "store">>), ImagesIndex>>
Node(role) == [mode |-> "dc", replication |-> role]
TriedFiles ==
    <<  <<>>,
        [index |-> Topology, netrc |-> "netrc", auth |-> [signing_key |-> SecretFile("tok"), trusted_publisher |-> <<Publisher("store")>>],
         jobs |-> [mode |-> "none"], log |-> [sink |-> "file", file |-> "f"], rate_limit |-> [enabled |-> "no", upload |-> [requests |-> "5"]]],
        [index |-> Topology, writer_identity |-> "w1", blob |-> [backend |-> "s3", bucket |-> "b", region |-> "r", endpoint |-> "e", prefix |-> "/p/"],
         availability |-> Node([role |-> "replica", upstream |-> "https://u", token |-> SecretFile("tok"), page_size |-> 5])],
        [writer_identity |-> "w1", acme |-> [domains |-> <<"d">>, contact |-> "c"],
         availability |-> Node([role |-> "primary", source |-> "s", token |-> SecretText("t")])],
        [writer_identity |-> "w2", tls |-> [cert |-> "c", key |-> "k"], jobs |-> [schedules |-> <<[job |-> "gc", interval |-> 5]>>]],
        [writer_identity |-> "w2", read_only |-> "yes", jobs |-> [schedules |-> <<>>]],
        [index |-> <<MergedIndex(<<"store">>), Store, HostedIndex("all")>>],
        [index |-> <<HostedIndex("a"), [name |-> "b", route |-> "a", hosted |-> "yes"]>>],
        [index |-> <<[MergedIndex(<<"images">>) EXCEPT !.route = "admin"], ImagesIndex>>],
        [index |-> <<MergedIndex(<<"images">>) @@ ("upload" :> "images"), ImagesIndex>>],
        [index |-> <<MergedIndex(<<"gone">>)>>], [index |-> <<[Routed EXCEPT !.pins = ("x" :> "c")]>>],
        [index |-> <<[HostedIndex("a") EXCEPT !.name = "h"] @@ ("upload_token" :> SecretFile("gone"))>>],
        [index |-> <<[Private EXCEPT !.password = SecretEnv("PW") @@ SecretFile("tok")]>>], [index |-> <<HostedIndex("h") @@ ("settings" :> [x |-> "y"])>>],
        [index |-> <<[Store EXCEPT !.webhook[1].secret = SecretEnv("NONE")]>>], [auth |-> [signing_key |-> SecretText("blank")]],
        [auth |-> [trusted_publisher |-> <<Publisher("pypi")>>, signing_key |-> SecretText("k")]], [auth |-> [oidc_audience |-> "blank"]],
        [availability |-> [mode |-> "ha"]], [jobs |-> [schedules |-> <<[job |-> "gc", interval |-> 0]>>]],
        [tls |-> [cert |-> "c"]], [blob |-> [backend |-> "s3", bucket |-> "", region |-> "r", endpoint |-> "e"]],
        [index |-> <<[name |-> "n", ecosystem |-> "npm"], HostedIndex("h")>>],
        [index |-> <<HostedIndex("h") @@ ("access_token" :> <<AccessToken("ci", SecretText(""), {"read"})>>)>>] >>
TriedEnvs == << <<>>, [port |-> "1", offline |-> "yes"], [host |-> "env", writer_identity |-> "w2"] >>
TriedClis == << <<>>, [port |-> "2", read_only |-> "yes"], [writer_identity |-> "blank"] >>
TriedTogether == {<<f, 1, 1>> : f \in DOMAIN TriedFiles} \cup {<<f, e, c>> : f \in {2, 4}, e \in 1 .. 3, c \in 1 .. 3}
KeptFiles == ("tok" :> "t0k") @@ ("big" :> "oversize")
KeptEnvs == ("PW" :> "pw") @@ ("HOOK" :> "")
KnownUrls == ("https://u" :> [scheme |-> "https", host |-> "u", port |-> 0]) @@ ("http://v:8080" :> [scheme |-> "http", host |-> "v", port |-> 8080])
             @@ ("https://pypi" :> [scheme |-> "https", host |-> "pypi", port |-> 0]) @@ ("https://docker" :> [scheme |-> "https", host |-> "docker", port |-> 443])
KnownEntries == (<<"u">> :> "ann") @@ (<<"https", "u", 443>> :> "eve")

--------------------------------
(* Project pages. *)

Ranks == ("1.0" :> 1) @@ ("1" :> 1) @@ ("2.0" :> 2) @@ ("dev" :> 0)
Info(ext, segment, parses, encoded) == [ext |-> ext, segment |-> segment, valid |-> parses, encoded |-> encoded]
FileNames ==
    ("p-1.0.whl" :> Info("whl", "1.0", TRUE, "p-1.0.whl")) @@ ("p-1.tar.gz" :> Info("tar.gz", "1", TRUE, "p-1.tar.gz"))
    @@ ("p-2.0+x.zip" :> Info("zip", "2.0", TRUE, "p-2.0%2Bx.zip")) @@ ("p-dev.egg" :> Info("egg", "dev", FALSE, "p-dev.egg"))
Sha(d) == "sha256" :> d
PageFile(name, url, hashes) ==
    [filename |-> name, url |-> url, hashes |-> hashes, python |-> NoText, size |-> <<"9">>, time |-> <<"t">>,
     yanked |-> NotYanked, core |-> Absent, dist |-> Absent, gpg |-> "none", provenance |-> NoText]
JsonObject(id, rest) == <<"{", Quote, id, Quote, ":">> \o rest \o <<"}">>
PageFilePool ==
    ("f1" :> [text |-> JsonObject("f1", <<Quote, "]", Backslash, Quote, "}", Backslash, Backslash, Quote>>),
              file |-> [PageFile("p-1.0.whl", <<"https:", "h", "/", "p-1.0.whl", "?", "token">>, Sha("a1")) EXCEPT
                          !.python = <<">", "=", "3", "&", "lt;">>, !.core = Hashes(Sha("m1")), !.gpg = "true"]])
    @@ ("f2" :> [text |-> JsonObject("f2", <<"{", Space, "[", "]", ",", "1", "}">>),
                 file |-> [PageFile("p-1.tar.gz", <<"/", "x", "/", "p-1.tar.gz">>, Sha("a2")) EXCEPT
                             !.yanked = YankedBecause(<<"\"", "&", "amp;", "quot;">>), !.dist = Available]])
    @@ ("f3" :> [text |-> JsonObject("f3", <<"[", "{", "}", "]">>),
                 file |-> [PageFile("p-2.0+x.zip", <<"p-2.0%2Bx.zip">>, ("sha256" :> "a3") @@ ("md5" :> "b3")) EXCEPT
                             !.dist = Hashes(Sha("m3")), !.provenance = <<"null">>]])
    @@ ("f4" :> [text |-> JsonObject("f4", <<"null">>),
                 file |-> [PageFile("p-dev.egg", <<"p-dev.egg">>, "md5" :> "b4") EXCEPT !.core = Hashes(Sha("m4")), !.gpg = "true",
                             !.provenance = <<"https:", "p", "&">>]])
    @@ ("f5" :> [text |-> JsonObject("f5", <<"5">>), file |-> [PageFile("p-1.0.whl", <<"/", "r", "/files/", "a1", "/", "p-1.0.whl">>, Sha("a1")) EXCEPT !.gpg = "true"]])
MetaObject(version, status) == [version |-> version, status |-> status, reason |-> NoText]
ListedMetas ==
    ("active" :> [text |-> JsonObject("active", <<Quote, "{", Backslash, Quote, Quote>>), meta |-> [MetaObject(<<1, 3>>, "deprecated") EXCEPT !.reason = <<"<", "&", "gt;", "\"">>]])
    @@ ("quarantined" :> [text |-> JsonObject("quarantined", <<"{", "}">>), meta |-> MetaObject(<<1, 0>>, "quarantined")])
    @@ ("newer" :> [text |-> JsonObject("newer", <<"2">>), meta |-> MetaObject(<<2, 0>>, "none")])
    @@ ("default" :> [text |-> <<"none">>, meta |-> DefaultMeta])
MetaMember(m) == [key |-> <<"meta">>, kind |-> "meta", value |-> m]
FilesMember(fs) == [key |-> <<"files">>, kind |-> "files", value |-> fs]
VersionsMember == [key |-> <<"versions">>, kind |-> "versions", value |-> <<"2.0", "dev">>]
NameMember == [key |-> <<"name">>, kind |-> "text", value |-> <<"p", Backslash, Quote>>]
NoiseMembers == <<[key |-> <<"a", Backslash, Quote, "files">>, kind |-> "raw", value |-> <<"[", "{", "}", "]">>],
           [key |-> <<"other">>, kind |-> "raw", value |-> <<"{", Quote, "files", Quote, ":", "[", Quote, "]", Quote, "]", "}">>],
           [key |-> <<"note">>, kind |-> "text", value |-> <<"files">>],
           [key |-> <<"meta">>, kind |-> "raw", value |-> <<"null">>]>>
SentPage(members, tail) == [members |-> members, tail |-> tail]
OrdersOf(m, fs) ==
    LET orders == <<<<1, 2, 3, 4>>, <<2, 1, 3, 4>>, <<4, 3, 2, 1>>, <<3, 4, 1, 2>>, <<4, 1, 3, 2>>, <<3, 2, 4, 1>>>>
        base == <<MetaMember(m), FilesMember(fs), VersionsMember, NameMember>>
    IN  [o \in DOMAIN orders |-> SentPage([i \in 1 .. 4 |-> base[orders[o][i]]], <<>>)]
SentPages ==
    OrdersOf("active", <<"f1", "f2", "f3", "f4">>) \o OrdersOf("quarantined", <<"f1", "f5">>)
    \o [n \in 1 .. 4 |-> SentPage(<<NoiseMembers[n], MetaMember("active"), FilesMember(<<"f1", "f5">>), NameMember>>, <<" ">>)]
    \o [n \in 1 .. 3 |-> SentPage(<<FilesMember(<<"f5", "f2">>), NoiseMembers[n], NameMember, MetaMember("active")>>, <<>>)]
    \o <<SentPage(<<MetaMember("newer"), FilesMember(<<"f1">>), NameMember>>, <<>>), SentPage(<<NameMember, FilesMember(<<"f1">>)>>, <<>>),
         SentPage(<<MetaMember("active"), NameMember>>, <<"{", "}">>), SentPage(<<MetaMember("active"), NameMember, FilesMember(<<"f1", "f2", "f3", "f4", "f2">>)>>, <<>>),
         SentPage(<<MetaMember("active"), FilesMember(<<"f1">>)>>, <<>>), SentPage(<<MetaMember("active"), MetaMember("active"), NameMember>>, <<>>),
         SentPage(<<NameMember, VersionsMember, FilesMember(<<"f1">>), MetaMember("quarantined")>>, <<>>)>>
LocalFile == [PageFile("p-1.0.whl", <<"/", "r", "/files/", "c1", "/", "p-1.0.whl">>, Sha("c1")) EXCEPT !.core = Hashes(Sha("m9"))]
NoOverrides == [f \in {} |-> <<>>]
Override(kind, reason) == [kind |-> kind, reason |-> reason]
Bare == [local |-> <<>>, versions |-> <<>>, overrides |-> NoOverrides, denied |-> {}, generated |-> ("a2" :> "g2")]
Served ==
    <<Bare,
      [Bare EXCEPT !.local = <<LocalFile>>, !.versions = <<"1.0">>,
                   !.overrides = ("p-1.0.whl" :> Override("yanked", <<"r">>)) @@ ("p-1.tar.gz" :> Override("hidden", NoText))],
      [Bare EXCEPT !.local = <<LocalFile>>, !.denied = {"p-2.0+x.zip"}, !.generated = NoHashes,
                   !.overrides = ("p-1.0.whl" :> Override("hidden", NoText)) @@ ("p-dev.egg" :> Override("yanked", NoText)) @@ ("p-1.tar.gz" :> Override("other", NoText))]>>
Address == <<"https:", "u", "/", "simple", "/">>

--------------------------------
(* Mirror commands. *)

Artifact(digest, kind, tags, version, size, metadata) ==
    [digest |-> digest, kind |-> kind, tags |-> tags, version |-> version, size |-> size, metadata |-> metadata]
AnyTags == [python |-> {}, abi |-> {}, platform |-> {}]
Py3 == [python |-> {"py3", "py2"}, abi |-> {"none"}, platform |-> {"any"}]
Cp3 == [python |-> {"cp3"}, abi |-> {"abi3"}, platform |-> {"any"}]
MirrorPages ==
    [one |-> <<Artifact("w1", "wheel", Py3, 1, 1, "m1"), Artifact(NoDigest, "sdist", AnyTags, 1, 1, NoDigest)>>,
     two |-> <<Artifact(BadDigest, "sdist", AnyTags, 1, 1, "m1"), Artifact("w2", "wheel", Cp3, 2, 1, NoDigest), Artifact("s2", "sdist", AnyTags, 2, 2, NoDigest),
               Artifact("e2", "other", AnyTags, 2, 1, NoDigest)>>]
MirrorAnswers == [a |-> {"one", "two", Unlisted, Down}, b |-> {"one", Down}]
MirrorMembers ==
    [root |-> [kind |-> "virtual", layers |-> {"pypi", "own"}, ecosystem |-> "pypi"],
     pypi |-> [kind |-> "cached", layers |-> {}, ecosystem |-> "pypi"],
     own |-> [kind |-> "hosted", layers |-> {}, ecosystem |-> "pypi"],
     hub |-> [kind |-> "cached", layers |-> {}, ecosystem |-> "oci"]]
MirrorSettings ==
    [mode |-> "selected", packages |-> <<>>, requirements |-> <<>>, metadata_only |-> FALSE,
     include_wheels |-> TRUE, include_sdists |-> TRUE, tags |-> AnyTags, max_size |-> 0]
\* A circle that closes after each file was read twice, one through ".." that does not, and files above.
MirrorLines ==
    (<<"home", "base">> :> << <<"-r", "./more">>, <<"A", ">=1", "#", "why">>, <<"--index-url", "x">> >>)
      @@ (<<"home", "more">> :> << <<"#", "note">>, <<"-c", "base">>, <<"b", "[", "x", "]", ">=2", ";", "m", "--hash">> >>)
      @@ (<<"home", "up">> :> << <<"-r", "/shared">> >>)
      @@ (<<"shared">> :> << <<"-r", "home/base">> >>)
      @@ (<<"notes">> :> << <<"-r", "/notes">>, <<"#", "note">> >>)
      @@ (<<"home", "loop">> :> << <<"a">>, <<"-r", "../home/loop">> >>)
MirrorPaths ==
    ("base" :> <<"base">>) @@ ("./more" :> <<".", "more">>) @@ ("up" :> <<"up">>) @@ ("loop" :> <<"loop">>)
      @@ ("/shared" :> <<"/", "shared">>) @@ ("home/base" :> <<"home", "base">>)
      @@ ("../notes" :> <<"..", "notes">>) @@ ("/notes" :> <<"/", "notes">>)
      @@ ("../home/loop" :> <<"..", "home", "loop">>)
MirrorHome == <<"home">>
NoOptions == [index |-> "pypi", mode |-> "", packages |-> <<>>, requirements |-> <<>>, images |-> <<>>, metadata_only |-> FALSE,
            no_wheels |-> FALSE, no_sdists |-> FALSE, tags |-> AnyTags, max_size |-> 0]
MirrorRequests ==
    {[NoOptions EXCEPT !.packages = << <<"a">> >>],
     [NoOptions EXCEPT !.index = "root", !.packages = << <<"a">>, <<"b", ">=2">> >>, !.metadata_only = TRUE],
     [NoOptions EXCEPT !.index = "root", !.requirements = <<"up", "base">>, !.no_sdists = TRUE],
     [NoOptions EXCEPT !.requirements = <<"loop">>],
     [NoOptions EXCEPT !.mode = "all", !.requirements = <<"../notes">>, !.tags.python = {"py3"}, !.max_size = 1],
     [NoOptions EXCEPT !.index = "own", !.packages = << <<"a">> >>],
     [NoOptions EXCEPT !.index = "hub", !.images = <<"alpine">>],
     [NoOptions EXCEPT !.index = "hub"],
     [NoOptions EXCEPT !.packages = << <<"a", "@", "url">> >>]}
MirrorNames == ("A" :> "a") @@ ("a" :> "a") @@ ("b" :> "b")
MirrorSpecs == (">=1" :> {1, 2}) @@ (">=2" :> {2})
MirrorOrder == <<"a", "b">>

--------------------------------
(* Admission, accounts, policy and OCI discovery. *)

\* Requests: a project page straight from "a" and through the proxy, a PUT with a header nobody vouches for, a
\* changelog read behind the proxy's X-Real-IP.
Request(method, path, who, peer, forwarded, real) ==
    [method |-> method, path |-> path, principal |-> who, peer |-> peer, forwarded |-> forwarded, real |-> real]
SentShapes == {Request("GET", "page", Anonymous, "a", <<>>, <<>>),
               Request("GET", "page", Anonymous, "proxy", <<"b", "a">>, <<>>),
               Request("PUT", "page", Anonymous, "a", <<"b">>, <<>>),
               Request("GET", "service", Anonymous, "proxy", <<>>, <<"a">>)}
Limits == [class \in Classes |-> [requests |-> IF class = "admin" THEN 0 ELSE 1, window_secs |-> 2]]

\* Identities: two jobs of one moment and one that starts later.
Identity(jti, iat, exp) ==
    [jti |-> jti, iss |-> "ci", aud |-> "peryx", sub |-> "main", claims |-> {"env"}, kid |-> "k1",
     iat |-> iat, nbf |-> iat, exp |-> exp, wellformed |-> TRUE]
HeldIdentities == {Identity(1, 0, 2), Identity(2, 1, 4), Identity(3, 0, 2)}
PublishRules == <<[id |-> "p1", repository |-> "r", issuer |-> "ci", audience |-> "peryx", subjects |-> {"main"},
            claims |-> {"env"}, projects |-> {"a"}]>>
Ages == {2, NoAge}

CanonicalNames == [n \in {"Ann", "ann", "bob"} |-> IF n = "Ann" THEN "ann" ELSE n]

CheckedPatterns == BoundedSeq({"a", Star}, 3)
CheckedTexts == BoundedSeq({"a", "b"}, 4)

GrantOf(projects, actions) == [projects |-> projects, actions |-> actions]
Token(name, secret, grants, expires_at) ==
    [name |-> name, secret |-> secret, grants |-> grants, expires_at |-> expires_at]
PrivateIndex ==
    [route |-> <<"a">>, anonymous_read |-> FALSE,
     tokens |-> <<Token("alice", "s1", {GrantOf({<<"b", "*">>}, {"read", "write"})}, 1),
                  Token("carol", "s2", {GrantOf({<<"*">>}, {"read"})}, -1)>>]
PublicIndex ==
    [route |-> <<"b">>, anonymous_read |-> TRUE,
     tokens |-> <<Token("alice", "s2", {GrantOf({<<"*", "a">>, <<"b", "b">>}, {"write", "delete"})}, -1),
                  Token("carol", "s1", {GrantOf({<<"*">>}, {"read", "write"})}, -1)>>]
\* Inside the private one, its uploads disabled: a cache.
InnerIndex ==
    [route |-> <<"a", "/", "c">>, anonymous_read |-> FALSE,
     tokens |-> <<Token("alice", "s1", {GrantOf({<<"b">>}, {"read", "delete"})}, -1)>>]
\* A virtual index that uploads to the public one, with tokens of its own that share a password.
VirtualIndex ==
    [route |-> <<"c">>, anonymous_read |-> FALSE,
     tokens |-> <<Token("carol", "s2", {GrantOf({<<"*">>}, {"read"}), GrantOf({<<"b">>}, {"delete"})}, 1),
                  Token("dave", "s2", {GrantOf({<<"a">>}, {"read", "write"})}, -1)>>]
GuardedIndexes == {PrivateIndex, PublicIndex, InnerIndex, VirtualIndex}
GuardedTargets == (PrivateIndex :> {PrivateIndex}) @@ (PublicIndex :> {PublicIndex}) @@ (InnerIndex :> {})
                     @@ (VirtualIndex :> {PublicIndex})
AskedNames == {<<"a", "/", "b">>, <<"a", "/", "b", "a">>, <<"a", "/", "a">>, <<"a", "/", "*">>, <<"a", "/", "b", "*">>,
               <<"b", "/", "b">>, <<"b", "/", "*", "a">>, <<"c", "/", "b">>, <<"c", "/", "a">>, <<"c", "/", "*">>,
               <<"a", "/", "*", "b">>, <<"a", "/", "c", "/", "b">>, <<"b">>, <<"b", "a">>, <<"*">>, <<"d", "/", "a">>}

File(name, named, version, type, size, stored, at) ==
    [filename |-> name, project |-> "p", named |-> named, version |-> version, type |-> type,
     pythons |-> IF type = "wheel" THEN {"py2", "py3"} ELSE {}, platforms |-> IF type = "wheel" THEN {"any"} ELSE {},
     size |-> size, stored |-> stored, uploaded |-> at]
\* A wheel, and a file of unknown age whose name gives no project.
ListedFiles == {File("w", "p", "1", "wheel", 2, 2, 0), File("o", Unknown, Unset, Unset, 1, 1, None)}
Rule(allow, prefixes, file, project, versions, platforms, age, mode) ==
    [allow_projects |-> allow, block_projects |-> {}, protected |-> {}, protected_prefixes |-> prefixes,
     max_file_size |-> file, max_project_size |-> project, versions |-> versions, allow_types |-> {}, block_types |-> {},
     allow_pythons |-> {"py3"}, block_pythons |-> {}, allow_platforms |-> {}, block_platforms |-> platforms,
     min_release_age |-> age, attestations |-> {"slsa"}, mode |-> mode]
KnownPolicies ==
    {Rule({"p"}, {}, None, 2, {}, {}, 1, "audit"), Rule({}, {"p-"}, 2, None, {"1"}, {"any"}, 0, "enforce")}
ReservedNames == [x \in {"p-"} |-> {"p"}]

AskedProxies == {[base |-> "hub", repo |-> r, identity |-> i] : r \in {"r", "s"}, i \in {"none", "alice"}}
                  \ {[base |-> "hub", repo |-> "s", identity |-> "none"]}
AskedSizes == {-1, 0, 1, 2}
MirroredRefs == <<[digest |-> "i", byDigest |-> FALSE], [digest |-> "m2", byDigest |-> TRUE]>>
MirroredChildren == ("i" :> {"m1", "m2"}) @@ ("m1" :> {}) @@ ("m2" :> {})
MirroredLayers == ("i" :> {}) @@ ("m1" :> {"x", "y"}) @@ ("m2" :> {"y"})

FrontInit ==
    /\ part \in {"rate", "oidc", "users", "glob", "access", "policy", "tokens", "pages", "lists", "mirror",
                "sdist", "wheel", "pager", "publish", "setup", "stream", "prefetch"}
    /\ RateInit /\ OidcInit /\ UserInit /\ GlobInit /\ AccessInit /\ PolicyInit
    /\ TokenInit /\ PageInit /\ ListInit /\ MirrorInit
    /\ ArchiveInit /\ PublishInit /\ SetupInit /\ StreamInit /\ PrefetchInit
    /\ part = "stream" \/ (feed.doc = 1 /\ feed.ctx = 1)

AdmissionNext ==
    /\ UNCHANGED <<discoveryVars, packageVars>>
    /\ \/ part = "rate" /\ RateNext /\ UNCHANGED <<oidcVars, userVars, walk, accessVars, policyVars>>
       \/ part = "oidc" /\ OidcNext /\ UNCHANGED <<rateVars, userVars, walk, accessVars, policyVars>>
       \/ part = "users" /\ UserNext /\ UNCHANGED <<rateVars, oidcVars, walk, accessVars, policyVars>>
       \/ part = "glob" /\ GlobNext /\ UNCHANGED <<rateVars, oidcVars, userVars, accessVars, policyVars>>
       \/ part = "access" /\ AccessNext /\ UNCHANGED <<rateVars, oidcVars, userVars, walk, policyVars>>
       \/ part = "policy" /\ PolicyNext /\ UNCHANGED <<rateVars, oidcVars, userVars, walk, accessVars>>

DiscoveryNext ==
    /\ UNCHANGED <<admissionVars, packageVars>>
    /\ \/ part = "tokens" /\ TokenNext /\ UNCHANGED <<pageVars, listVars, mirrorVars>>
       \/ part = "pages" /\ PageNext /\ UNCHANGED <<tokenVars, listVars, mirrorVars>>
       \/ part = "lists" /\ ListNext /\ UNCHANGED <<tokenVars, pageVars, mirrorVars>>
       \/ part = "mirror" /\ MirrorNext /\ UNCHANGED <<tokenVars, pageVars, listVars>>

UploadNext ==
    /\ UNCHANGED <<setup, pageStreamVars, prefetch>>
    /\ \/ part = "sdist" /\ SdistNext /\ UNCHANGED <<wheel, pager, publish>>
       \/ part = "wheel" /\ WheelNext /\ UNCHANGED <<sdist, pager, publish>>
       \/ part = "pager" /\ PagerNext /\ UNCHANGED <<sdist, wheel, publish>>
       \/ part = "publish" /\ PublishNext /\ UNCHANGED archiveVars

PackageNext ==
    /\ UNCHANGED <<admissionVars, discoveryVars>>
    /\ \/ UploadNext
       \/ /\ UNCHANGED <<archiveVars, publish>>
          /\ \/ part = "setup" /\ SetupNext /\ UNCHANGED <<pageStreamVars, prefetch>>
             \/ part = "stream" /\ StreamNext /\ UNCHANGED <<setup, prefetch>>
             \/ part = "prefetch" /\ PrefetchNext /\ UNCHANGED <<setup, pageStreamVars>>

FrontNext == UNCHANGED part /\ (AdmissionNext \/ DiscoveryNext \/ PackageNext)

FrontSpec == FrontInit /\ [][FrontNext]_frontVars
================================
