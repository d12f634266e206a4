---------------- MODULE MCContent ----------------
(* An instance of where content comes from and where it is kept: blob
   writes and leases on the filesystem, the S3 backend, upstream routes
   and retries, the files of a hosted PyPI index, the upload sessions of
   the OCI registry, the tags and the content of its proxied indexes, and
   the backup and restore of a data directory, and the usage counters.
   They share no state here, and a behaviour runs one of them. *)
EXTENDS S3Store, Upstream, HostedFiles, OciProxy, Operator, Metrics

CONSTANTS c1, c2

VARIABLE part

blobVars == <<writeVars, leaseVars>>
contentPartVars == <<part, blobVars, s3Vars, upVars, hostedVars, uploadVars, tagVars, contentVars, operatorVars, usage>>

Symmetry == Permutations({c1, c2})

Versions == ("a" :> "1") @@ ("b" :> "2")
Sizes == ("x" :> 1) @@ ("y" :> 1)

Right(S) == [d \in S |-> "right"]
BackedUp == {[refs |-> {"a", "b"}, blobs |-> Right({"a", "b", "c"})], [refs |-> {"a", "b"}, blobs |-> Right({"a"})],
             [refs |-> {"a"}, blobs |-> [d \in {"a"} |-> "wrong"]]}

\* A download through a virtual index, one of an image layer, and one event of
\* every other kind; the documents of an earlier schema are on disk.
BlankEvent == [kind |-> "", route |-> "", project |-> "", file |-> "", version |-> "", source |-> "",
          bytes |-> 0, family |-> "", changed |-> FALSE, outcome |-> "", projects |-> Forever]
UsageEvents ==
    {[BlankEvent EXCEPT !.kind = "download", !.route = "root", !.project = "a", !.file = "a-1",
                   !.version = "1", !.source = "main", !.bytes = 2],
     [BlankEvent EXCEPT !.kind = "download", !.route = "oci", !.project = "b", !.file = "layer", !.bytes = 1],
     [BlankEvent EXCEPT !.kind = "ecosystem", !.route = "root", !.project = "a", !.file = "a-1",
                   !.family = "metadata"],
     [BlankEvent EXCEPT !.kind = "page", !.route = "root", !.project = "a"],
     [BlankEvent EXCEPT !.kind = "upload", !.route = "root", !.project = "a"],
     [BlankEvent EXCEPT !.kind = "catalog", !.route = "pypi", !.outcome = "published", !.projects = 3],
     [BlankEvent EXCEPT !.kind = "catalog", !.route = "pypi", !.outcome = "sync_error"]}
        \cup {[BlankEvent EXCEPT !.kind = k, !.route = "pypi", !.project = "a", !.changed = TRUE] :
                  k \in {"refresh", "stale", "error", "rejected"}}
UsageIndexes ==
    {[route |-> "root", ecosystem |-> "pypi", role |-> "virtual"],
     [route |-> "pypi", ecosystem |-> "pypi", role |-> "cached"],
     [route |-> "oci", ecosystem |-> "oci", role |-> "cached"]}
UsageFamilies == {[ecosystem |-> "pypi", key |-> "metadata", roles |-> {"cached", "hosted", "virtual"}]}
OldDocuments == {[form |-> "other schema"]}

ContentPartInit ==
    /\ part \in {"write", "lease", "s3", "upstream", "hosted", "uploads", "tags", "content", "operator", "usage"}
    /\ WriteInit /\ LeaseInit /\ S3Init /\ UpInit /\ HostedInit /\ UploadInit
    /\ TagInit /\ ContentInit /\ OperatorInit /\ MetricsInit
    /\ part = "upstream" \/ route = [pin |-> 1, fallback |-> FALSE, mirrorFallback |-> FALSE]
    /\ part = "operator" \/ (source.refs = {"a"} /\ target = EmptyDir)

StoreNext ==
    /\ UNCHANGED <<upVars, hostedVars, uploadVars, tagVars, contentVars, operatorVars, usage>>
    /\ \/ part = "write" /\ WriteNext /\ UNCHANGED <<leaseVars, s3Vars>>
       \/ part = "lease" /\ LeaseNext /\ UNCHANGED <<writeVars, s3Vars>>
       \/ part = "s3" /\ S3Next /\ UNCHANGED blobVars

IndexNext ==
    /\ UNCHANGED <<blobVars, s3Vars, tagVars, contentVars, operatorVars, usage>>
    /\ \/ part = "upstream" /\ UpNext /\ UNCHANGED <<hostedVars, uploadVars>>
       \/ part = "hosted" /\ HostedNext /\ UNCHANGED <<upVars, uploadVars>>
       \/ part = "uploads" /\ UploadNext /\ UNCHANGED <<upVars, hostedVars>>

ProxyNext ==
    /\ UNCHANGED <<blobVars, s3Vars, upVars, hostedVars, uploadVars, operatorVars, usage>>
    /\ \/ part = "tags" /\ TagNext /\ UNCHANGED contentVars
       \/ part = "content" /\ ContentNext /\ UNCHANGED tagVars

OperateNext ==
    /\ UNCHANGED <<blobVars, s3Vars, upVars, hostedVars, uploadVars, tagVars, contentVars>>
    /\ \/ part = "operator" /\ OperatorNext /\ UNCHANGED usage
       \/ part = "usage" /\ MetricsNext /\ UNCHANGED operatorVars

ContentPartNext == UNCHANGED part /\ (StoreNext \/ IndexNext \/ ProxyNext \/ OperateNext)

ContentSpec == ContentPartInit /\ [][ContentPartNext]_contentPartVars

================================
