---------------- MODULE Configuration ----------------
(* How a node gets its configuration and starts from it: defaults, file,
   environment and command line in layers (peryx/src/config), the snapshot
   of it that a backup keeps (peryx/src/operator/snapshot.rs), and
   build_state, which turns it into indexes (peryx/src/server.rs).

   A table is a record that has the keys that are set.  A secret is one
   key: the record of the siblings `literal`, `file` and `env` that are set. *)
EXTENDS Sequences, FiniteSets, Functions, Checks, TLC

CONSTANTS
    FileLayers, EnvLayers, CliLayers, \* the layers that are tried, as sequences of tables
    LayerChoices,                          \* the triples of their positions that are tried together
    SecretFiles,                      \* what secret files hold
    EnvSecrets,                       \* what environment variables hold
    MaxChangePage,                    \* largest page a replica may ask for
    BadRoutes,                        \* routes that are malformed or reserved
    UrlParts,                         \* upstream URL |-> [scheme, host, port], port 0 when it names none
    NetrcEntries,                     \* netrc name, a tuple of its parts |-> login, "" for an empty entry
    Replacements,                     \* writers an operator promotes
    MaxStarts                         \* bound: how often one store is opened

VARIABLE setup

Get(table, key, default) == IF key \in DOMAIN table THEN table[key] ELSE default
Only(table, keys) == Restrict(table, keys \cap DOMAIN table)

MapSeq(s, Op(_)) == [i \in DOMAIN s |-> Op(s[i])]
Some(s, Test(_)) == \E i \in DOMAIN s : Test(s[i])
Repeats(s, key) == \E i, j \in DOMAIN s : i < j /\ s[i][key] = s[j][key]
Blank == {"", "blank"}

--------------------------------
(* Defaults. *)

Scalars ==
    {"host", "port", "data_dir", "writer_identity", "offline", "read_only", "max_stale_secs",
     "usage_retention_days", "hot_cache_bytes", "netrc", "cache_ttl_secs"}

LogKeys == {"level", "format", "sink", "file"}
RouteClasses == {"listing", "metadata", "artifact", "upload", "admin"}
RateKeys == {"enabled", "max_clients", "trusted_proxies"}

DefaultPrefetch ==
    [mode |-> "selected", packages |-> <<>>, requirements |-> <<>>, include_wheels |-> "yes", include_sdists |-> "yes",
     python_tags |-> <<>>, abi_tags |-> <<>>, platform_tags |-> <<>>, metadata_only |-> "no"]

NoPolicy == [allow_projects |-> <<>>, block_projects |-> <<>>, protected_names |-> <<>>]
PolicyKeys == DOMAIN NoPolicy \cup {"max_file_size_bytes", "max_project_size_bytes"}

DefaultIndex(name, ecosystem, kind) ==
    [name |-> name, route |-> name, ecosystem |-> ecosystem, kind |-> kind, access_token |-> <<>>,
     policy |-> NoPolicy, ecosystem_policy |-> <<>>, settings |-> <<>>, webhook |-> <<>>]

CachedKind(url) ==
    [kind |-> "cached", upstream |-> url, tls |-> <<>>, upstream_concurrency |-> "8", offline |-> "no",
     prefetch |-> DefaultPrefetch]
HostedKind == [kind |-> "hosted", volatile |-> "yes"]
VirtualKind(hosted, cached) == [kind |-> "virtual", layers |-> <<hosted, cached>>, upload |-> hosted]

DefaultSchedules == <<[job |-> "cache-maintenance", interval |-> 60]>>

DefaultConfig ==
    [scalars |-> [host |-> "127.0.0.1", port |-> "4433", data_dir |-> "peryx-data", offline |-> "no", read_only |-> "no",
                  cache_ttl_secs |-> "300", hot_cache_bytes |-> "default", max_stale_secs |-> "default"],
     indexes |-> <<DefaultIndex("pypi", "pypi", CachedKind("https://pypi")), DefaultIndex("hosted", "pypi", HostedKind),
                   DefaultIndex("root/pypi", "pypi", VirtualKind("hosted", "pypi")),
                   DefaultIndex("dockerhub", "oci", CachedKind("https://docker")), DefaultIndex("images", "oci", HostedKind),
                   DefaultIndex("root/oci", "oci", VirtualKind("images", "dockerhub"))>>,
     tls |-> [mode |-> "none"],
     log |-> [level |-> "info", format |-> "pretty", sink |-> "stdout"],
     rate_limit |-> [top |-> [enabled |-> "yes", max_clients |-> "many", trusted_proxies |-> "none"],
                     routes |-> [c \in RouteClasses |-> [requests |-> "default", window_secs |-> "60"]]],
     auth |-> [token_ttl_secs |-> 300, default_anonymous_read |-> "yes", oidc_audience |-> "peryx", trusted_publisher |-> <<>>],
     availability |-> [mode |-> "none"],
     jobs |-> [mode |-> "local", schedules |-> DefaultSchedules],
     blob |-> [backend |-> "filesystem"]]

--------------------------------
(* Secrets. *)

(* At most one sibling, and a variable that has a name. *)
SecretError(table, key) ==
    /\ key \in DOMAIN table
    /\ Cardinality(DOMAIN table[key]) > 1 \/ Get(table[key], "env", "var") \in Blank

IsBlankLiteral(table, key) == key \in DOMAIN table /\ Get(table[key], "literal", "set") \in Blank
IsEmptyLiteral(table, key) == key \in DOMAIN table /\ Get(table[key], "literal", "set") = ""

(* What a secret's location holds, trimmed; "error" when nothing can be read. *)
ReadSecret(source) ==
    IF "literal" \in DOMAIN source THEN source.literal
    ELSE LET held == IF "file" \in DOMAIN source THEN Get(SecretFiles, source.file, "")
                     ELSE Get(EnvSecrets, source.env, "")
         IN  IF held \in Blank \cup {"oversize"} THEN "error" ELSE held

--------------------------------
(* classify_index *)

CredentialKeys == {"username", "password", "token"}
RoutingKeys == {"fallback", "protected", "pins"}

Upstreams(raw) == Get(raw, "upstream", <<>>)
LoneIdentity(tls) == ("client_cert_file" \in DOMAIN tls) # ("client_key_file" \in DOMAIN tls)

SourceError(raw) == LoneIdentity(Get(raw, "tls", <<>>)) \/ SecretError(raw, "password") \/ SecretError(raw, "token")

IsHosted(raw) == Get(raw, "hosted", "no") = "yes" \/ "upload_token" \in DOMAIN raw

KindError(raw) ==
    LET routed == Upstreams(raw) # <<>>
        cached == "cached" \in DOMAIN raw
        tls == Get(raw, "tls", <<>>) # <<>>
    IN  FirstError(<<
            <<"empty upload token", IsEmptyLiteral(raw, "upload_token")>>,
            <<"cached and upstream", cached /\ routed>>,
            <<"tls without upstream", ~cached /\ ~routed /\ tls>>,
            <<"routing without upstream", ~routed /\ RoutingKeys \cap DOMAIN raw # {}>>,
            <<"credentials beside upstream", routed /\ CredentialKeys \cap DOMAIN raw # {}>>,
            <<"tls beside upstream", routed /\ tls>>,
            <<"source", "layers" \notin DOMAIN raw /\ (IF cached THEN SourceError(raw) ELSE Some(Upstreams(raw), SourceError))>>,
            <<"upload token", "layers" \notin DOMAIN raw /\ ~cached /\ ~routed /\ SecretError(raw, "upload_token")>>,
            <<"no kind", "layers" \notin DOMAIN raw /\ ~cached /\ ~routed /\ ~IsHosted(raw)>> >>)

TokenError(raw) ==
    \/ raw.name \in {"", "upload-token"}
    \/ "secret" \notin DOMAIN raw \/ SecretError(raw, "secret") \/ IsEmptyLiteral(raw, "secret")
    \/ raw.actions = {}
    \/ Get(raw, "expires_at", "never") = "bad"

WebhookError(raw) ==
    raw.name = "" \/ raw.url = "" \/ "secret" \notin DOMAIN raw \/ SecretError(raw, "secret") \/ IsEmptyLiteral(raw, "secret")

IndexError(raw) ==
    FirstError(<<
        <<"ecosystem", Get(raw, "ecosystem", "pypi") \notin {"pypi", "oci"}>>,
        <<KindError(raw), KindError(raw) # "ok">>,
        <<"token", Some(Get(raw, "access_token", <<>>), TokenError)>>,
        <<"token name", Repeats(Get(raw, "access_token", <<>>), "name")>>,
        <<"webhook", Some(Get(raw, "webhook", <<>>), WebhookError)>> >>)

ResolvePrefetch(raw) ==
    raw @@ (IF Get(raw, "mode", "selected") = "metadata-only" THEN ("metadata_only" :> "yes") ELSE <<>>) @@ DefaultPrefetch

ClassifySource(raw) ==
    Only(raw, {"name", "url", "artifact_url"} \cup CredentialKeys) @@ ("tls" :> Get(raw, "tls", <<>>))

CachedCommon(raw) ==
    [kind |-> "cached", upstream_concurrency |-> Get(raw, "upstream_concurrency", "8"),
     offline |-> Get(raw, "offline", "no"), prefetch |-> ResolvePrefetch(Get(raw, "prefetch", <<>>))]

(* The first source of a routed index stands in for its upstream. *)
RoutedKind(raw) ==
    LET sources == MapSeq(Upstreams(raw), ClassifySource) IN
    CachedCommon(raw) @@ ("upstream" :> sources[1].url) @@ Only(sources[1], CredentialKeys \cup {"tls"})
    @@ ("routing" :> [upstreams |-> sources, fallback |-> Get(raw, "fallback", "yes"),
                      protected |-> Get(raw, "protected", <<>>), pins |-> Get(raw, "pins", <<>>)])

ClassifyIndexKind(raw) ==
    CASE "layers" \in DOMAIN raw -> ("kind" :> "virtual") @@ Only(raw, {"layers", "upload"})
      [] "layers" \notin DOMAIN raw /\ "cached" \in DOMAIN raw ->
             CachedCommon(raw) @@ ("upstream" :> raw.cached) @@ Only(raw, CredentialKeys) @@ ("tls" :> Get(raw, "tls", <<>>))
      [] "layers" \notin DOMAIN raw /\ Upstreams(raw) # <<>> -> RoutedKind(raw)
      [] OTHER -> [kind |-> "hosted", volatile |-> Get(raw, "volatile", "yes")] @@ Only(raw, {"upload_token"})

ClassifyToken(raw) ==
    Only(raw, {"name", "secret", "actions", "expires_at"})
    @@ ("projects" :> IF Get(raw, "projects", <<>>) = <<>> THEN <<"*">> ELSE raw.projects)

ClassifyIndex(raw) ==
    Only(raw, {"name", "anonymous_read"})
    @@ [route |-> Get(raw, "route", raw.name), ecosystem |-> Get(raw, "ecosystem", "pypi"), kind |-> ClassifyIndexKind(raw),
        access_token |-> MapSeq(Get(raw, "access_token", <<>>), ClassifyToken),
        policy |-> Only(Get(raw, "policy", <<>>), PolicyKeys) @@ NoPolicy,
        ecosystem_policy |-> Only(Get(raw, "policy", <<>>), DOMAIN Get(raw, "policy", <<>>) \ PolicyKeys),
        settings |-> Get(raw, "settings", <<>>), webhook |-> Get(raw, "webhook", <<>>)]

--------------------------------
(* The other tables. *)

TlsError(layer) ==
    LET tls == Get(layer, "tls", <<>>)
        acme == Get(layer, "acme", <<>>)
    IN  FirstError(<<
            <<"tls and acme", {"tls", "acme"} \subseteq DOMAIN layer>>,
            <<"half a certificate", "tls" \in DOMAIN layer /\ ~{"cert", "key"} \subseteq DOMAIN tls>>,
            <<"no domain", "acme" \in DOMAIN layer /\ Get(acme, "domains", <<>>) = <<>> >>,
            <<"no contact", "acme" \in DOMAIN layer /\ Get(acme, "contact", "") = "">> >>)

ClassifyTls(layer) ==
    IF "tls" \in DOMAIN layer THEN ("mode" :> "manual") @@ layer.tls
    ELSE ("mode" :> "acme") @@ layer.acme @@ [cache_dir |-> "acme-cache", staging |-> "no"]

ReplicationError(role) ==
    FirstError(<<
        <<"peer", Get(role, IF role.role = "primary" THEN "source" ELSE "upstream", "") \in Blank>>,
        <<"poll interval", Get(role, "poll_interval_secs", 1) = 0>>,
        <<"page size", Get(role, "page_size", 1) \notin 1 .. MaxChangePage>>,
        <<"token", "token" \notin DOMAIN role \/ SecretError(role, "token") \/ IsBlankLiteral(role, "token")>> >>)

AvailabilityError(raw) ==
    LET mode == Get(raw, "mode", "none") IN
    FirstError(<<
        <<"role without mode", mode = "none" /\ "replication" \in DOMAIN raw>>,
        <<"mode without role", mode # "none" /\ "replication" \notin DOMAIN raw>>,
        <<"replication", "replication" \in DOMAIN raw /\ ReplicationError(raw.replication) # "ok">> >>)

ClassifyReplication(role) ==
    IF role.role = "primary" THEN role ELSE role @@ [poll_interval_secs |-> 1, page_size |-> 100]

ClassifyAvailability(raw) ==
    IF "replication" \in DOMAIN raw THEN [mode |-> raw.mode, replication |-> ClassifyReplication(raw.replication)]
    ELSE [mode |-> "none"]

BlobError(raw) ==
    raw.backend = "s3" /\ ( raw.bucket = "" \/ raw.region = "" \/ raw.endpoint = "bad"
                          \/ \E key \in {"timeout_secs", "part_size_bytes", "upload_concurrency"} : Get(raw, key, "1") = "0" )

(* Prefixes lose their outer slashes. *)
ClassifyBlob(raw) ==
    IF raw.backend = "filesystem" THEN raw
    ELSE ("prefix" :> IF Get(raw, "prefix", "") = "/p/" THEN "p" ELSE Get(raw, "prefix", "")) @@ raw
         @@ [path_style |-> "no", timeout_secs |-> "30", max_retries |-> "3", multipart_threshold_bytes |-> "16M",
             part_size_bytes |-> "16M", upload_concurrency |-> "4"]

JobsError(raw) == Some(Get(raw, "schedules", <<>>), LAMBDA s : s.interval = 0)

PublisherError(p) ==
    \/ \E key \in {"id", "issuer", "repository", "subject"} : p[key] \in Blank
    \/ p.projects = <<>> \/ Some(p.projects, LAMBDA project : project \in Blank)

AuthError(auth, raw) ==
    FirstError(<<
        <<"signing key", SecretError(raw, "signing_key")>>,
        <<"ttl", Get(raw, "token_ttl_secs", auth.token_ttl_secs) <= 0>>,
        <<"audience", Get(raw, "oidc_audience", auth.oidc_audience) \in Blank>>,
        <<"publisher", Some(Get(raw, "trusted_publisher", auth.trusted_publisher), PublisherError)>> >>)

--------------------------------
(* Config::apply *)

LayerError(config, layer) ==
    FirstError(<<
        <<"index", Some(Get(layer, "index", <<>>), LAMBDA raw : IndexError(raw) # "ok")>>,
        <<"tls", TlsError(layer) # "ok">>,
        <<"auth", AuthError(config.auth, Get(layer, "auth", <<>>)) # "ok">>,
        <<"availability", "availability" \in DOMAIN layer /\ AvailabilityError(layer.availability) # "ok">>,
        <<"blob", "blob" \in DOMAIN layer /\ BlobError(layer.blob)>>,
        <<"jobs", JobsError(Get(layer, "jobs", <<>>))>> >>)

Applied(config, layer) ==
    LET rates == Get(layer, "rate_limit", <<>>) IN
    [scalars |-> Only(layer, Scalars) @@ config.scalars,
     indexes |-> IF "index" \in DOMAIN layer THEN MapSeq(layer.index, ClassifyIndex) ELSE config.indexes,
     tls |-> IF {"tls", "acme"} \cap DOMAIN layer # {} THEN ClassifyTls(layer) ELSE config.tls,
     log |-> Only(Get(layer, "log", <<>>), LogKeys) @@ config.log,
     rate_limit |-> [top |-> Only(rates, RateKeys) @@ config.rate_limit.top,
                     routes |-> [c \in RouteClasses |-> Get(rates, c, <<>>) @@ config.rate_limit.routes[c]]],
     auth |-> Get(layer, "auth", <<>>) @@ config.auth,
     availability |-> IF "availability" \in DOMAIN layer THEN ClassifyAvailability(layer.availability) ELSE config.availability,
     jobs |-> Get(layer, "jobs", <<>>) @@ config.jobs,
     blob |-> IF "blob" \in DOMAIN layer THEN ClassifyBlob(layer.blob) ELSE config.blob]

IsReplica(config) == "replication" \in DOMAIN config.availability /\ config.availability.replication.role = "replica"

AcceptsUploads(index) == index.kind.kind = "hosted" \/ (index.kind.kind = "virtual" /\ "upload" \in DOMAIN index.kind)

Named(indexes, name) == {i \in DOMAIN indexes : indexes[i].name = name}
FirstNamed(indexes, name) == CHOOSE i \in Named(indexes, name) : \A j \in Named(indexes, name) : i <= j

(* Config::validate *)
ConfigError(config) ==
    LET publishers == config.auth.trusted_publisher
        writable(p) == Named(config.indexes, p.repository) # {}
                       /\ LET index == config.indexes[FirstNamed(config.indexes, p.repository)]
                          IN  index.ecosystem = "pypi" /\ AcceptsUploads(index)
        identity == Get(config.scalars, "writer_identity", "none")
    IN  FirstError(<<
            <<"signing key", publishers # <<>> /\ "signing_key" \notin DOMAIN config.auth>>,
            <<"publisher twice", Repeats(publishers, "id")>>,
            <<"publisher repository", Some(publishers, LAMBDA p : ~writable(p))>>,
            <<"writer identity", identity \in Blank>>,
            <<"replica identity", identity = "none" /\ (config.scalars.read_only = "yes" \/ IsReplica(config))>> >>)

--------------------------------
(* config_snapshot: the layer a backup keeps. *)

(* The snapshot as it was before a secret could live in the environment. *)
SecretPartsOnDisk(source) == Only(source, {"literal", "file"})

(* A snapshot keeps a secret's location, never what is there. *)
SecretParts(source) == Only(source, {"literal", "file", "env"})

SnapshotTable(table, secrets) == [key \in DOMAIN table |-> IF key \in secrets THEN SecretParts(table[key]) ELSE table[key]]

SnapshotKind(kind) ==
    CASE kind.kind = "virtual" -> Only(kind, {"layers", "upload"})
      [] kind.kind = "hosted" -> ("hosted" :> "yes") @@ Only(SnapshotTable(kind, {"upload_token"}), {"upload_token", "volatile"})
      [] kind.kind = "cached" /\ "routing" \notin DOMAIN kind ->
             ("cached" :> kind.upstream) @@ Only(SnapshotTable(kind, {"password", "token"}),
                                                 CredentialKeys \cup {"tls", "upstream_concurrency", "offline", "prefetch"})
      [] OTHER -> ("upstream" :> MapSeq(kind.routing.upstreams, LAMBDA u : SnapshotTable(u, {"password", "token"})))
                  @@ Only(kind.routing, RoutingKeys) @@ Only(kind, {"upstream_concurrency", "offline", "prefetch"})

SnapshotIndex(index) ==
    SnapshotKind(index.kind)
    @@ Only(index, {"name", "route", "ecosystem", "anonymous_read"} \cup (IF index.settings = <<>> THEN {} ELSE {"settings"}))
    @@ [policy |-> index.policy @@ index.ecosystem_policy,
        access_token |-> MapSeq(index.access_token, LAMBDA t : SnapshotTable(t, {"secret"})),
        webhook |-> index.webhook]

(* Present only when it departs from the default. *)
SnapshotJobs(jobs) ==
    (IF jobs.mode = "local" THEN <<>> ELSE ("mode" :> jobs.mode))
    @@ (IF jobs.schedules \in {DefaultSchedules, <<>>} THEN <<>> ELSE ("schedules" :> jobs.schedules))

Snapshot(config) ==
    config.scalars
    @@ ("index" :> MapSeq(config.indexes, SnapshotIndex))
    @@ (CASE config.tls.mode = "manual" -> ("tls" :> Only(config.tls, {"cert", "key"}))
          [] config.tls.mode = "acme" -> ("acme" :> Only(config.tls, {"domains", "contact", "cache_dir", "staging"}))
          [] OTHER -> <<>>)
    @@ ("log" :> config.log) @@ ("rate_limit" :> (config.rate_limit.top @@ config.rate_limit.routes))
    @@ ("auth" :> SnapshotTable(config.auth, {"signing_key"}))
    @@ (IF config.availability.mode = "none" THEN <<>> ELSE ("availability" :> config.availability))
    @@ (IF SnapshotJobs(config.jobs) = <<>> THEN <<>> ELSE ("jobs" :> SnapshotJobs(config.jobs)))
    @@ (IF config.blob.backend = "filesystem" THEN <<>> ELSE ("blob" :> config.blob))

--------------------------------
(* build_state *)

(* A replica keeps what it needs to serve reads. *)
ReplicaKind(kind) ==
    CASE kind.kind = "cached" -> [Only(kind, DOMAIN kind \ {"password", "token", "routing"}) EXCEPT !.tls = <<>>, !.offline = "yes"]
      [] kind.kind = "hosted" -> Only(kind, DOMAIN kind \ {"upload_token"})
      [] OTHER -> kind

MakeReplica(index) ==
    [index EXCEPT !.kind = ReplicaKind(@), !.webhook = <<>>,
                  !.access_token = SelectSeq(MapSeq(@, LAMBDA t : [t EXCEPT !.actions = @ \cap {"read"}]),
                                             LAMBDA t : t.actions # {})]

Configs(config) == IF IsReplica(config) THEN MapSeq(config.indexes, MakeReplica) ELSE config.indexes
ReadOnly(config) == config.scalars.read_only = "yes" \/ IsReplica(config)

DefaultPort(scheme) == IF scheme = "https" THEN 443 ELSE 80
EffectivePort(url) == IF url.port = 0 THEN DefaultPort(url.scheme) ELSE url.port

(* From the most to the least specific name. *)
NetrcNames(url) ==
    <<<<url.scheme, url.host, EffectivePort(url)>>>>
    \o (IF EffectivePort(url) = DefaultPort(url.scheme) THEN <<<<url.scheme, url.host>>>> ELSE <<>>)
    \o <<<<url.host, EffectivePort(url)>>>> \o (IF EffectivePort(url) = DefaultPort(url.scheme) THEN <<<<url.host>>>> ELSE <<>>) \o <<<<"default">>>>

NetrcAuth(url) ==
    LET found == SelectSeq(NetrcNames(url), LAMBDA name : name \in DOMAIN NetrcEntries) IN
    IF found = <<>> \/ NetrcEntries[found[1]] = "" THEN "none" ELSE NetrcEntries[found[1]]

(* A token before a username and password, both before the netrc entry. *)
UpstreamAuth(config, source, url) ==
    CASE "token" \in DOMAIN source -> ReadSecret(source.token)
      [] "token" \notin DOMAIN source /\ {"username", "password"} \subseteq DOMAIN source -> ReadSecret(source.password)
      [] OTHER -> IF "netrc" \in DOMAIN config.scalars THEN NetrcAuth(UrlParts[url]) ELSE "none"

CredentialsUnreadable(source) == \E key \in {"password", "token"} \cap DOMAIN source : ReadSecret(source[key]) = "error"

RouterError(routing) ==
    LET names == {routing.upstreams[i].name : i \in DOMAIN routing.upstreams} IN
    \/ Some(routing.upstreams, CredentialsUnreadable)
    \/ "" \in names \/ Repeats(routing.upstreams, "name")
    \/ Some(routing.protected, LAMBDA project : project = "")
    \/ \E project \in DOMAIN routing.pins : project = "" \/ routing.pins[project] \notin names

KindStartError(configs, index) ==
    CASE index.kind.kind = "cached" -> CredentialsUnreadable(index.kind)
      [] index.kind.kind = "hosted" -> FALSE
      [] OTHER -> \/ Some(index.kind.layers, LAMBDA layer : Named(configs, layer) = {})
                  \/ /\ "upload" \in DOMAIN index.kind
                     /\ \/ Named(configs, index.kind.upload) = {}
                        \/ configs[FirstNamed(configs, index.kind.upload)].kind.kind # "hosted"

(* IndexConfig::acl *)
AclError(index) ==
    \/ "upload_token" \in DOMAIN index.kind /\ ReadSecret(index.kind.upload_token) = "error"
    \/ Some(index.access_token, LAMBDA t : ReadSecret(t.secret) = "error")

SettingsError(index) ==
    \/ DOMAIN index.settings \ (IF index.ecosystem = "oci" THEN {"library_prefix"} ELSE {}) # {}
    \/ Get(index.settings, "library_prefix", "auto") \notin {"yes", "no", "auto"}

(* Only an unset variable is refused. *)
WebhookUnset(webhook) == "env" \in DOMAIN webhook.secret /\ webhook.secret.env \notin DOMAIN EnvSecrets

(* A blank key is refused here, and nowhere before. *)
SigningKeyError(auth) == "signing_key" \in DOMAIN auth /\ ReadSecret(auth.signing_key) \in Blank \cup {"error"}

(* A node that must not write starts only under the writer its store names; one that may claims a free store. *)
WriterError(config, stored) ==
    LET identity == Get(config.scalars, "writer_identity", "none") IN
    IF ReadOnly(config) THEN stored # identity ELSE identity # "none" /\ stored \notin {"none", identity}

ClaimedWriter(config, stored) ==
    IF ReadOnly(config) \/ stored # "none" THEN stored ELSE Get(config.scalars, "writer_identity", "none")

StartError(config) ==
    LET configs == Configs(config) IN
    FirstError(<<
        <<"upstream routes", Some(configs, LAMBDA x : "routing" \in DOMAIN x.kind /\ RouterError(x.kind.routing))>>,
        <<"route", Some(configs, LAMBDA x : x.route \in BadRoutes)>>,
        <<"duplicate name", Repeats(configs, "name")>>,
        <<"duplicate route", Repeats(configs, "route")>>,
        <<"kind", Some(configs, LAMBDA x : KindStartError(configs, x))>>,
        <<"access rules", Some(configs, AclError)>>,
        <<"settings", Some(configs, SettingsError)>>,
        <<"webhook", Some(configs, LAMBDA x : Some(x.webhook, WebhookUnset))>>,
        <<"signing key", SigningKeyError(config.auth)>> >>)

HostedLayer(configs, layers) == SelectSeq(layers, LAMBDA i : configs[i].kind.kind = "hosted")

BuiltKind(config, configs, index, offline) ==
    LET kind == index.kind IN
    CASE kind.kind = "cached" ->
             [kind |-> "cached", auth |-> UpstreamAuth(config, kind, kind.upstream), offline |-> offline \/ kind.offline = "yes"]
      [] kind.kind = "hosted" -> [kind |-> "hosted", volatile |-> kind.volatile]
      [] OTHER ->
             LET layers == MapSeq(kind.layers, LAMBDA name : FirstNamed(configs, name))
                 target == IF "upload" \in DOMAIN kind THEN <<FirstNamed(configs, kind.upload)>> ELSE HostedLayer(configs, layers)
             IN  [kind |-> "virtual", layers |-> layers, upload |-> IF target = <<>> THEN 0 ELSE target[1]]

(* build_indexes; position 0 is no upload target. *)
BuildIndexes(config, configs, offline) ==
    MapSeq(configs, LAMBDA x :
        [name |-> x.name, route |-> x.route, kind |-> BuiltKind(config, configs, x, offline),
         anonymous_read |-> Get(x, "anonymous_read", config.auth.default_anonymous_read),
         tokens |-> (IF "upload_token" \in DOMAIN x.kind
                     THEN <<[secret |-> ReadSecret(x.kind.upload_token), actions |-> {"read", "write", "delete"}]>> ELSE <<>>)
                    \o MapSeq(x.access_token, LAMBDA t : [secret |-> ReadSecret(t.secret), actions |-> t.actions])])

(* The indexes a started node serves: a replica's take no uploads. *)
Built(config) ==
    MapSeq(BuildIndexes(config, Configs(config), config.scalars.offline = "yes" \/ ReadOnly(config)),
           LAMBDA x : IF IsReplica(config) /\ x.kind.kind = "virtual" THEN [x EXCEPT !.kind.upload = 0] ELSE x)

(* Where `import-dir` puts files, or why not.  It asks neither for the role of the node nor for its writer. *)
ImportTarget(indexes, selector) ==
    LET byName == {i \in DOMAIN indexes : indexes[i].name = selector}
        byRoute == {i \in DOMAIN indexes : indexes[i].route = selector}
        found == IF byName # {} THEN byName ELSE byRoute
    IN  IF found = {} THEN "unknown"
        ELSE LET at == CHOOSE i \in found : \A j \in found : i <= j
                 kind == indexes[at].kind
             IN  CASE kind.kind = "hosted" -> indexes[at].name
                   [] kind.kind = "virtual" /\ kind.upload # 0 -> indexes[kind.upload].name
                   [] OTHER -> "refused"

--------------------------------
(* The configurations the layers give, and the starts of a node over one store. *)

Layers(choice) == <<FileLayers[choice[1]], EnvLayers[choice[2]], CliLayers[choice[3]]>>

ResolvedAfter(choice, n) ==
    LET layers == Layers(choice)
        after[i \in 0 .. n] ==
            IF i = 0 THEN [error |-> "ok", config |-> DefaultConfig]
            ELSE IF after[i - 1].error # "ok" THEN after[i - 1]
            ELSE IF LayerError(after[i - 1].config, layers[i]) # "ok"
                 THEN [after[i - 1] EXCEPT !.error = LayerError(after[i - 1].config, layers[i])]
            ELSE [after[i - 1] EXCEPT !.config = Applied(@, layers[i])]
    IN  after[n]

(* resolve_config *)
ResolveLayers(choice) ==
    LET all == ResolvedAfter(choice, 3) IN
    IF all.error = "ok" /\ ConfigError(all.config) # "ok" THEN [all EXCEPT !.error = ConfigError(all.config)] ELSE all

Resolutions == [choice \in LayerChoices |-> ResolveLayers(choice)]
Resolved(choice) == Resolutions[choice]

SetupInit ==
    setup = [choice |-> <<1, 1, 1>>, stage |-> "stopped", writer |-> "none", starts |-> 0, config |-> DefaultConfig]

ResolveConfig(choice) ==
    /\ setup.stage = "stopped" /\ setup.starts < MaxStarts
    /\ \E resolved \in {Resolved(choice)} :
         setup' = [setup EXCEPT !.choice = choice, !.starts = @ + 1, !.config = resolved.config,
                                !.stage = IF resolved.error = "ok" THEN "resolved" ELSE "refused"]

(* A start that fails after the claim leaves the claim. *)
BuildState ==
    /\ setup.stage = "resolved"
    /\ IF WriterError(setup.config, setup.writer) THEN setup' = [setup EXCEPT !.stage = "refused"]
       ELSE setup' = [setup EXCEPT !.writer = ClaimedWriter(setup.config, @),
                                   !.stage = IF StartError(setup.config) = "ok" THEN "running" ELSE "refused"]

(* promote_writer runs beside whatever has resolved, offline. *)
PromoteWriter(replacement) ==
    /\ setup.stage = "resolved"
    /\ LET expected == Get(setup.config.scalars, "writer_identity", "none") IN
       /\ expected # "none" /\ replacement # "" /\ setup.writer = expected
       /\ setup' = [setup EXCEPT !.writer = replacement, !.stage = "stopped"]

StopNode ==
    /\ setup.stage \in {"running", "refused"}
    /\ setup' = [setup EXCEPT !.stage = "stopped"]

SetupNext ==
    \/ \E choice \in LayerChoices : ResolveConfig(choice)
    \/ BuildState \/ StopNode
    \/ \E replacement \in Replacements : PromoteWriter(replacement)

--------------------------------
(* Properties. *)

(* Every key a later layer sets is the one in force. *)
LaterLayersWin(choice, config) ==
    \A key \in Scalars : \A i \in 1 .. 3 :
        LET layers == Layers(choice) IN
        (key \in DOMAIN layers[i] /\ \A j \in i + 1 .. 3 : key \notin DOMAIN layers[j]) => config.scalars[key] = layers[i][key]

(* A configuration comes back from its backup as it was; an empty schedule list does not. *)
SurvivesBackup(config) ==
    \A snapshot \in {Snapshot(config)} :
        config.jobs.schedules # <<>> => LayerError(DefaultConfig, snapshot) = "ok" /\ Applied(DefaultConfig, snapshot) = config

(* A replica has no way to write: no credential for it, no target, no upstream, no webhook. *)
ReplicaIsPassive(indexes) ==
    \A i \in DOMAIN indexes :
        /\ ~Some(indexes[i].tokens, LAMBDA t : t.actions \ {"read"} # {})
        /\ indexes[i].kind.kind = "virtual" => indexes[i].kind.upload = 0
        /\ indexes[i].kind.kind = "cached" => indexes[i].kind.offline /\ indexes[i].kind.auth \notin Range(SecretFiles)

(* What a running node serves is well formed: unambiguous names and routes, uploads that end in a hosted index,
   no credential that anyone could present by sending nothing. *)
ServesWhatItShould(indexes) ==
    /\ ~Repeats(indexes, "name") /\ ~Repeats(indexes, "route")
    /\ \A i \in DOMAIN indexes :
        LET kind == indexes[i].kind IN
        /\ ~Some(indexes[i].tokens, LAMBDA t : t.secret \in {"", "error"})
        /\ kind.kind = "virtual" =>
               (\A j \in DOMAIN kind.layers : kind.layers[j] \in DOMAIN indexes)
               /\ (kind.upload # 0 => indexes[kind.upload].kind.kind = "hosted")

(* A directory is imported into a hosted index or not at all. *)
ImportsIntoHosted(config) ==
    \A indexes \in {BuildIndexes(config, config.indexes, config.scalars.offline = "yes")}, i \in DOMAIN config.indexes :
        LET target == ImportTarget(indexes, config.indexes[i].route) IN
        target # "refused" => \E j \in Named(config.indexes, target) : config.indexes[j].kind.kind = "hosted"

(* What starts from a configuration (config/merge.rs, operator/snapshot.rs, server.rs).  The layers win in
   order; a backup's snapshot restores to the same configuration; a running node serves well-formed indexes,
   imports only into a hosted one, runs under the writer its store names, and as a replica cannot write. *)
ConfigIsSound ==
    /\ setup.stage = "resolved" => LaterLayersWin(setup.choice, setup.config) /\ SurvivesBackup(setup.config)
    /\ setup.stage = "running" =>
           /\ \A indexes \in {Built(setup.config)} :
                ServesWhatItShould(indexes) /\ (IsReplica(setup.config) => ReplicaIsPassive(indexes))
           /\ ImportsIntoHosted(setup.config)
           /\ "writer_identity" \in DOMAIN setup.config.scalars => setup.writer = setup.config.scalars.writer_identity
================================
