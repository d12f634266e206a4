---------------- MODULE OciRegistry ----------------
(* The content of the hosted OCI repositories.

   Blobs and manifests are stored once for the whole process, under their
   digests.  What a repository may serve is a set of rows of its own: the
   manifests and the blobs it is a member of, its tags, and the referrers
   (a manifest that declares another one as its subject).  Every row is
   written by a transaction of its own, so a push is a sequence of writes,
   a delete by digest is a sequence of reads and writes, and requests
   interleave between any two of them.

   A place is one repository of one hosted index.  A digest is the content
   itself: Layers, Platforms and Subject say what a manifest names.  A
   digest that is not sha256, a blocked name and a refused credential end
   a request before it touches this state and are left out; so are the
   upload sessions in front of PushBlob, the cache in front of the blob
   membership rows that reads and mounts ask, the proxied indexes, and the
   webhooks, counters and search epochs that requests also set off. *)
EXTENDS Integers, Sequences, FiniteSets, SequencesExt

CONSTANTS
    Clients,     \* requests in progress
    Places,      \* repositories of hosted indexes
    Blobs,       \* blob digests
    Manifests,   \* manifest digests
    Layers,      \* the blobs an image manifest names
    Platforms,   \* the children an image index names
    Subject,     \* the subject a manifest declares, or None
    Tags,        \* tag names
    None,        \* no tag, no subject
    Faults,      \* whether a store write may fail
    MaxTorn      \* bound on the manifests whose delete overlaps such a push

ASSUME OciRegistryAssumption ==
    /\ Layers \in [Manifests -> SUBSET Blobs]
    /\ Platforms \in [Manifests -> SUBSET Manifests]
    /\ Subject \in [Manifests -> Manifests \cup {None}]
    /\ None \notin Manifests /\ None \notin Tags
    \* A manifest is a document of finite size, and a digest in both roles counts as two.
    /\ \A m \in Manifests : IsFiniteSet(Layers[m]) /\ IsFiniteSet(Platforms[m])
    /\ Blobs \cap Manifests = {}
    /\ Faults \in BOOLEAN /\ MaxTorn \in Nat

VARIABLES
    blobs,       \* the blob store
    manifests,   \* the manifest rows
    member,      \* manifest membership rows of each place
    linked,      \* blob membership rows of each place
    tags,        \* tag rows of each place: a digest or None
    referrers,   \* referrer rows of each place: <<subject, referrer>>
    job,         \* what each client's request is doing
    \* history
    torn         \* manifests whose delete overlapped a push that needs them

store == <<blobs, manifests, member, linked, tags, referrers>>
registryVars == <<store, job, torn>>

Idle == [at |-> "idle"]

RegistryTypeOK ==
    /\ blobs \subseteq Blobs /\ manifests \subseteq Manifests
    /\ member \in [Places -> SUBSET Manifests]
    /\ linked \in [Places -> SUBSET Blobs]
    /\ tags \in [Places -> [Tags -> Manifests \cup {None}]]
    /\ referrers \in [Places -> SUBSET (Manifests \X Manifests)]
    /\ DOMAIN job = Clients
    /\ torn \subseteq Manifests

(* An empty manifest store.  The layers of earlier pushes may be there.     *)
RegistryInit ==
    /\ blobs \in SUBSET Blobs
    /\ linked = [p \in Places |-> blobs]
    /\ manifests = {}
    /\ member = [p \in Places |-> {}]
    /\ tags = [p \in Places |-> [t \in Tags |-> None]]
    /\ referrers = [p \in Places |-> {}]
    /\ job = [c \in Clients |-> Idle]
    /\ torn = {}

Goto(c, next) == job' = [job EXCEPT ![c] = next]
Done(c) == Goto(c, Idle)
At(c, step) == job[c].at = step

--------------------------------
(* Writes.  A push leaves a sequence of them; each is one transaction.      *)

Write(kind, p, x, y) == [kind |-> kind, place |-> p, x |-> x, y |-> y]
Each(kind, p, xs) == [i \in 1 .. Cardinality(xs) |-> Write(kind, p, SetToSeq(xs)[i], None)]

(* store::record_manifest: the bytes, the membership, then what it names.   *)
RecordManifest(p, m) ==
    <<Write("manifest", p, m, None), Write("member", p, m, None)>>
        \o Each("member", p, Platforms[m]) \o Each("link", p, Layers[m])

(* put_manifest after its checks: record, then the tag, then the referrer.  *)
PutWrites(p, m, t) ==
    RecordManifest(p, m)
        \o (IF t = None THEN <<>> ELSE <<Write("tag", p, t, m)>>)
        \o (IF Subject[m] = None THEN <<>> ELSE <<Write("referrer", p, Subject[m], m)>>)

(* commit_blob: the blob is committed before its membership is recorded.    *)
BlobWrites(p, b) == <<Write("blob", p, b, None), Write("link", p, b, None)>>

Apply(w) ==
    LET on(kind, f, new) == IF w.kind = kind THEN new ELSE f IN
    /\ blobs' = on("blob", blobs, blobs \cup {w.x})
    /\ manifests' = on("manifest", manifests, manifests \cup {w.x})
    /\ member' = on("member", member, [member EXCEPT ![w.place] = @ \cup {w.x}])
    /\ linked' = on("link", linked, [linked EXCEPT ![w.place] = @ \cup {w.x}])
    /\ tags' = on("tag", tags, [tags EXCEPT ![w.place][w.x] = w.y])
    /\ referrers' = on("referrer", referrers, [referrers EXCEPT ![w.place] = @ \cup {<<w.x, w.y>>}])
    /\ UNCHANGED torn

(* The next write of a push.  The last one answers the request.             *)
NextWrite(c) ==
    /\ At(c, "write")
    /\ Apply(Head(job[c].todo))
    /\ IF Len(job[c].todo) = 1 THEN Done(c) ELSE Goto(c, [job[c] EXCEPT !.todo = Tail(@)])

(* A push needs a manifest that it stores or that its image index names.    *)
Needs(m) == {m} \cup Platforms[m]
Deleting(m) == \E c \in Clients : job[c].at \in {"untag", "scan", "unlink", "reach", "prune"} /\ job[c].digest = m
Pushing(m) == \E c \in Clients : job[c].at \in {"check", "write"} /\ m \in job[c].needs

--------------------------------
(* Pushes. *)

(* missing_manifest_reference reads every blob and child the manifest       *)
(* names, one at a time; a push whose references are all present writes.    *)
Present(p, x) == IF x \in Blobs THEN x \in blobs /\ x \in linked[p] ELSE x \in manifests

Checking(p, m, t, rest) ==
    [at |-> "check", place |-> p, digest |-> m, tag |-> t, needs |-> Needs(m), todo |-> rest]
Writes(needs, writes) == [at |-> "write", needs |-> needs, todo |-> writes]

AfterCheck(p, m, t, rest) ==
    IF rest = <<>> THEN Writes(Needs(m), PutWrites(p, m, t)) ELSE Checking(p, m, t, rest)

(* PUT manifest, by tag or by digest (t = None).                            *)
PutManifest(c, p, m, t) ==
    /\ At(c, "idle")
    /\ torn' = torn \cup {x \in Needs(m) : Deleting(x)}
    /\ Cardinality(torn') <= MaxTorn
    /\ Goto(c, AfterCheck(p, m, t, SetToSeq(Layers[m]) \o SetToSeq(Platforms[m])))
    /\ UNCHANGED store

CheckReference(c) ==
    LET j == job[c] IN
    /\ At(c, "check")
    /\ IF Present(j.place, Head(j.todo)) THEN Goto(c, AfterCheck(j.place, j.digest, j.tag, Tail(j.todo))) ELSE Done(c)
    /\ UNCHANGED <<store, torn>>

(* The end of a blob upload whose bytes match the digest.                   *)
PushBlob(c, p, b) ==
    /\ At(c, "idle")
    /\ Goto(c, Writes({}, BlobWrites(p, b)))
    /\ UNCHANGED <<store, torn>>

(* POST upload with mount and from: one membership row, of a stored blob    *)
(* that the source place links.                                             *)
MountBlob(c, p, from, b) ==
    /\ At(c, "idle")
    /\ b \in blobs /\ b \in linked[from]
    /\ Goto(c, Writes({}, <<Write("link", p, b, None)>>))
    /\ UNCHANGED <<store, torn>>

--------------------------------
(* Deletes. *)

(* DELETE blob: the row goes, the bytes stay for a purge.                   *)
DeleteBlob(c, p, b) ==
    /\ At(c, "idle")
    /\ b \in linked[p]
    /\ linked' = [linked EXCEPT ![p] = @ \ {b}]
    /\ UNCHANGED <<blobs, manifests, member, tags, referrers, job, torn>>

(* DELETE manifest by tag: one transaction.                                 *)
DeleteTag(c, p, t) ==
    /\ At(c, "idle")
    /\ tags[p][t] # None
    /\ tags' = [tags EXCEPT ![p][t] = None]
    /\ UNCHANGED <<blobs, manifests, member, linked, referrers, job, torn>>

(* DELETE manifest by digest (delete_manifest_by_digest) first reads        *)
(* whether the manifest is stored.                                          *)
DeleteManifest(c, p, m) ==
    /\ At(c, "idle")
    /\ torn' = IF Pushing(m) THEN torn \cup {m} ELSE torn
    /\ Cardinality(torn') <= MaxTorn
    /\ Goto(c, [at |-> "untag", place |-> p, digest |-> m, present |-> m \in manifests])
    /\ UNCHANGED store

(* delete_repo_tags_to: this place's tags and referrer rows, in one         *)
(* transaction.                                                             *)
Untag(c) ==
    LET j == job[c] IN
    /\ At(c, "untag")
    /\ tags' = [tags EXCEPT ![j.place] = [t \in Tags |-> IF @[t] = j.digest THEN None ELSE @[t]]]
    /\ referrers' = [referrers EXCEPT ![j.place] = {r \in @ : j.digest \notin {r[1], r[2]}}]
    /\ Goto(c, [at |-> IF j.present THEN "scan" ELSE "reach", place |-> j.place, digest |-> j.digest, over |-> "tags"])
    /\ UNCHANGED <<blobs, manifests, member, linked, torn>>

(* Mutant of ReferencedBy: the children of stored image indexes are missed. *)
ReferencedByNoChild(over, m) ==
    \/ over = "tags" /\ \E p \in Places, t \in Tags : tags[p][t] = m
    \/ over = "referrers" /\ \E p \in Places : \E r \in referrers[p] : m \in {r[1], r[2]}

(* referenced_manifest_digests: three scans, of every place.                *)
ReferencedBy(over, m) ==
    \/ over = "tags" /\ \E p \in Places, t \in Tags : tags[p][t] = m
    \/ over = "manifests" /\ \E x \in manifests : m \in Platforms[x]
    \/ over = "referrers" /\ \E p \in Places : \E r \in referrers[p] : m \in {r[1], r[2]}

Scan(c) ==
    LET j == job[c] IN
    /\ At(c, "scan")
    /\ Goto(c, IF ReferencedBy(j.over, j.digest) THEN [j EXCEPT !.at = "reach", !.over = "tags"]
               ELSE IF j.over = "tags" THEN [j EXCEPT !.over = "manifests"]
               ELSE IF j.over = "manifests" THEN [j EXCEPT !.over = "referrers"]
               ELSE [j EXCEPT !.at = "unlink", !.over = "tags"])
    /\ UNCHANGED <<store, torn>>

Unlink(c) ==
    /\ At(c, "unlink")
    /\ manifests' = manifests \ {job[c].digest}
    /\ Goto(c, [job[c] EXCEPT !.at = "reach"])
    /\ UNCHANGED <<blobs, member, linked, tags, referrers, torn>>

(* prune_manifest_membership: the row stays while another manifest of the   *)
(* place names the digest.                                                  *)
ReachableAsChild(p, m) == \E x \in member[p] \ {m} : x \in manifests /\ m \in Platforms[x]

Reach(c) ==
    LET j == job[c] IN
    /\ At(c, "reach")
    /\ IF ReachableAsChild(j.place, j.digest) THEN Done(c) ELSE Goto(c, [j EXCEPT !.at = "prune"])
    /\ UNCHANGED <<store, torn>>

Prune(c) ==
    LET j == job[c] IN
    /\ At(c, "prune")
    /\ member' = [member EXCEPT ![j.place] = @ \ {j.digest}]
    /\ Done(c)
    /\ UNCHANGED <<blobs, manifests, linked, tags, referrers, torn>>

--------------------------------
(* Failures. *)

Writing == {"write", "untag", "unlink", "prune"}

(* A store write fails: the handler returns, what it wrote stays.           *)
WriteFails(c) ==
    /\ Faults /\ job[c].at \in Writing
    /\ Done(c)
    /\ UNCHANGED <<store, torn>>

(* The blobs a membership row or a stored manifest names.                   *)
ReferencedBlobs == (UNION {linked[p] : p \in Places}) \cup (UNION {Layers[m] : m \in manifests})

(* The server stops and starts again: requests in progress are lost.  While *)
(* it is down `cache purge orphaned-blobs` may have removed what nothing    *)
(* references (the command opens the store, which admits one process).      *)
Restart(purged) ==
    /\ blobs' = IF purged THEN blobs \cap ReferencedBlobs ELSE blobs
    /\ job' = [c \in Clients |-> Idle]
    /\ UNCHANGED <<manifests, member, linked, tags, referrers, torn>>

Request(c) ==
    \/ \E p \in Places, m \in Manifests, t \in Tags \cup {None} : PutManifest(c, p, m, t)
    \/ \E p \in Places, b \in Blobs : PushBlob(c, p, b) \/ DeleteBlob(c, p, b)
    \/ \E p, from \in Places, b \in Blobs : MountBlob(c, p, from, b)
    \/ \E p \in Places, t \in Tags : DeleteTag(c, p, t)
    \/ \E p \in Places, m \in Manifests : DeleteManifest(c, p, m)

Step(c) ==
    \/ CheckReference(c) \/ NextWrite(c)
    \/ Untag(c) \/ Scan(c) \/ Unlink(c) \/ Reach(c) \/ Prune(c)

RegistryNext ==
    \/ \E c \in Clients : Request(c) \/ Step(c) \/ WriteFails(c)
    \/ \E purged \in BOOLEAN : Restart(purged)

RegistrySpec == RegistryInit /\ [][RegistryNext]_registryVars

--------------------------------
(* Properties. *)

(* What a place links is stored, and so is every layer of a stored          *)
(* manifest: a push checks before it records, and a purge keeps both.       *)
LayersStored ==
    /\ RegistryTypeOK
    /\ \A p \in Places : linked[p] \subseteq blobs
    /\ \A m \in manifests : Layers[m] \subseteq blobs

(* A tag, a referrer row and an image index name stored manifests, whatever *)
(* was deleted at whichever place: the shared record is unlinked only when  *)
(* nothing references it.  The exception is a manifest whose delete by      *)
(* digest overlapped a push that needs it.                                  *)
ReferencesResolve ==
    LET resolves(m) == m \in manifests \cup torn IN
    /\ \A p \in Places, t \in Tags : tags[p][t] # None => resolves(tags[p][t])
    /\ \A p \in Places : \A r \in referrers[p] : resolves(r[2])
    /\ \A m \in manifests : \A x \in Platforms[m] : resolves(x)

(* Not met by the code when a delete by digest overlaps a push: "unlink the *)
(* global record only when nothing else still references it" (write.rs).    *)
(* The delete scans for references and unlinks in separate transactions.    *)
TagsResolve == \A p \in Places, t \in Tags : tags[p][t] \in manifests \cup {None}

(* Who pulls a tag can go on by digest: the tag's target and the children   *)
(* it names are members of the place, also after a push that failed half    *)
(* way and after deletes of the target or of a child, with the same         *)
(* exception.                                                               *)
TagsArePullable ==
    \A p \in Places, t \in Tags :
        tags[p][t] \notin torn \cup {None} => Needs(tags[p][t]) \subseteq member[p] \cup torn

\* Whatever is pushed, mounted, deleted and purged by others: what a repository names is stored, and what a tag
\* leads to can be pulled.
ImagesAreWhole == LayersStored /\ ReferencesResolve /\ TagsArePullable

================================
