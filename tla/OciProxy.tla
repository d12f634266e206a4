---------------- MODULE OciProxy ----------------
(* Reading proxied and hosted content from the OCI registry: the tag of a
   proxied repository and its freshness record (registry/manifests/mod.rs)
   and content by digest (manifests and registry/blobs/mod.rs), where the
   bytes lie in one store shared by every repository and a membership row
   says which repository may answer with them.

   Two machines.  The first pulls one tag of one proxied repository while
   the upstream moves and removes it and may fail to answer; an answer of
   the upstream is an instant, and the request goes on some time later.
   The second reads content by digest in proxied and hosted repositories.
   Neither shares state with the upload sessions beside them. *)
EXTENDS OciUploads

CONSTANTS
    Pullers,         \* requests for the tag
    TagDigests,      \* manifests the tag may point at
    TagTtl,          \* ttl_secs
    MaxStale,        \* max_stale_secs, 0 for no bound
    MaxTransit,      \* how long an answer of the upstream is under way, at most
    MaxTagNow,       \* bound on the clock
    DigestReaders,   \* requests by digest
    ProxiedRepos,    \* repositories of proxied indexes
    HostedRepos,     \* repositories of hosted indexes
    ManifestDigests, \* contents that are manifests
    BlobDigests,     \* contents that are blobs
    MembershipLimit  \* entries the membership cache holds

NoTag == "none"

\* A digest is read as a manifest or as a blob: the code keeps the two in stores of their own.
ASSUME ProxyAssumption ==
    /\ {TagTtl, MaxStale, MaxTransit, MaxTagNow, MembershipLimit} \subseteq Nat
    /\ NoTag \notin TagDigests
    /\ ManifestDigests \cap BlobDigests = {}

VARIABLES
    tagNow,
    upTag,      \* what the upstream's tag points at, NoTag where it is gone
    heldAt,     \* history: per digest the last time the upstream's tag pointed at it, Never if it never did
    fresh,      \* the freshness record [at, digest], NoFresh
    tagRow,     \* the tag row
    tagStore,   \* manifests in the store
    puller      \* per request [at, cached, reply, since, answer]

tagVars == <<tagNow, upTag, heldAt, fresh, tagRow, tagStore, puller>>

Never == -100
NoFresh == [at |-> Never, digest |-> NoTag]
\* An answer: the digest served, by which path, and how long ago the upstream's tag last pointed at it.
NoAnswer == [digest |-> NoTag, via |-> "none", lag |-> 0]
NewPull == [at |-> "idle", cached |-> NoTag, reply |-> NoTag, since |-> 0, answer |-> NoAnswer]

TagInit ==
    /\ tagNow = 0
    /\ upTag = NoTag
    /\ heldAt = [d \in TagDigests |-> Never]
    /\ fresh = NoFresh
    /\ tagRow = NoTag
    /\ tagStore = {}
    /\ puller = [q \in Pullers |-> NewPull]

Go(q, at) == puller' = [puller EXCEPT ![q].at = at]
Answers(q, digest, via) ==
    puller' = [puller EXCEPT ![q] = [NewPull EXCEPT !.answer =
        [digest |-> digest, via |-> via, lag |-> tagNow - heldAt[digest]]]]
Refuses(q) == puller' = [puller EXCEPT ![q] = NewPull]

--------------------------------
(* The tag                                                                 *)

\* fresh_tag: the record is younger than the ttl and its manifest is still stored.
FreshTag == tagNow - fresh.at < TagTtl /\ fresh.digest \in tagStore

\* within_stale_bound, and the manifest of the record.
StaleTag == /\ fresh # NoFresh
            /\ MaxStale = 0 \/ tagNow - fresh.at < TagTtl + MaxStale
            /\ fresh.digest \in tagStore

\* member_tag, before the gate.
PullTag(q) ==
    /\ puller[q].at = "idle"
    /\ IF FreshTag THEN Answers(q, fresh.digest, "fresh") ELSE Go(q, "gate")
    /\ UNCHANGED <<tagNow, upTag, heldAt, fresh, tagRow, tagStore>>

\* The gate of the tag (peryx-index single flight): one request revalidates.
Revalidating == {"head", "headed", "get", "got", "recorded", "tagged"}

\* member_tag, under the gate: look again, then unchanged_tag reads what to compare with.
LockTag(q) ==
    /\ puller[q].at = "gate"
    /\ \A p \in Pullers : puller[p].at \notin Revalidating
    /\ IF FreshTag
       THEN Answers(q, fresh.digest, "fresh")
       ELSE puller' = [puller EXCEPT ![q].at = IF fresh = NoFresh THEN "get" ELSE "head", ![q].cached = fresh.digest]
    /\ UNCHANGED <<tagNow, upTag, heldAt, fresh, tagRow, tagStore>>

\* manifest_digest: a HEAD names the digest, names none, or fails.
HeadTag(q) ==
    /\ puller[q].at = "head"
    /\ \/ /\ upTag # NoTag
          /\ puller' = [puller EXCEPT ![q].at = "headed", ![q].reply = upTag, ![q].since = tagNow]
       \/ Go(q, "get")
    /\ UNCHANGED <<tagNow, upTag, heldAt, fresh, tagRow, tagStore>>

RefreshUncompared(q) ==
    /\ puller[q].at = "headed"
    /\ IF puller[q].cached \in tagStore
       THEN /\ fresh' = [at |-> tagNow, digest |-> puller[q].cached]
            /\ Answers(q, puller[q].cached, "revalidated")
       ELSE Go(q, "get") /\ UNCHANGED fresh
    /\ UNCHANGED <<tagNow, upTag, heldAt, tagRow, tagStore>>

\* unchanged_tag, once the HEAD answered: the same digest, still stored, makes the record fresh again.
UnchangedTag(q) ==
    /\ puller[q].at = "headed"
    /\ IF puller[q].reply = puller[q].cached /\ puller[q].cached \in tagStore
       THEN /\ fresh' = [at |-> tagNow, digest |-> puller[q].cached]
            /\ Answers(q, puller[q].cached, "revalidated")
       ELSE Go(q, "get") /\ UNCHANGED fresh
    /\ UNCHANGED <<tagNow, upTag, heldAt, tagRow, tagStore>>

\* revalidate_tag, the GET: a manifest, 404, 403, or no answer at all.
FetchTag(q) ==
    /\ puller[q].at = "get"
    /\ \/ /\ upTag # NoTag
          /\ puller' = [puller EXCEPT ![q].at = "got", ![q].reply = upTag, ![q].since = tagNow]
          /\ UNCHANGED <<fresh, tagRow>>
       \/ /\ upTag = NoTag
          /\ fresh' = NoFresh /\ tagRow' = NoTag
          /\ Refuses(q)
       \/ /\ IF StaleTag THEN Answers(q, fresh.digest, "stale") ELSE Refuses(q)
          /\ UNCHANGED <<fresh, tagRow>>
    /\ UNCHANGED <<tagNow, upTag, heldAt, tagStore>>

\* store_manifest: record_manifest, or a body over the limit or not of the digest it advertises.
KeepManifest(q) ==
    /\ puller[q].at = "got"
    /\ \/ tagStore' = tagStore \cup {puller[q].reply} /\ Go(q, "recorded")
       \/ UNCHANGED tagStore /\ Refuses(q)
    /\ UNCHANGED <<tagNow, upTag, heldAt, fresh, tagRow>>

\* store_manifest: put_tag, a transaction of its own.
PutTag(q) ==
    /\ puller[q].at = "recorded"
    /\ tagRow' = puller[q].reply
    /\ Go(q, "tagged")
    /\ UNCHANGED <<tagNow, upTag, heldAt, fresh, tagStore>>

\* store_manifest: set_tag_freshness, with the clock of this moment.
SetFreshness(q) ==
    /\ puller[q].at = "tagged"
    /\ fresh' = [at |-> tagNow, digest |-> puller[q].reply]
    /\ Answers(q, puller[q].reply, "fetched")
    /\ UNCHANGED <<tagNow, upTag, heldAt, tagRow, tagStore>>

\* external: the upstream moves, removes or restores its tag.
MoveUpstream(d) ==
    /\ upTag' = d
    /\ heldAt' = IF d = NoTag THEN heldAt ELSE [heldAt EXCEPT ![d] = tagNow]
    /\ UNCHANGED <<tagNow, fresh, tagRow, tagStore, puller>>

\* A DELETE in a hosted repository unlinks a manifest that no tag row names (referenced_manifest_digests).
UnlinkManifest(d) ==
    /\ d \in tagStore /\ d # tagRow
    /\ tagStore' = tagStore \ {d}
    /\ UNCHANGED <<tagNow, upTag, heldAt, fresh, tagRow, puller>>

\* Time passes, but no answer of the upstream is under way longer than MaxTransit.
TagTick ==
    /\ tagNow < MaxTagNow
    /\ \A q \in Pullers : puller[q].at \in {"headed", "got", "recorded", "tagged"} => tagNow - puller[q].since < MaxTransit
    /\ tagNow' = tagNow + 1
    /\ heldAt' = IF upTag = NoTag THEN heldAt ELSE [heldAt EXCEPT ![upTag] = tagNow + 1]
    /\ UNCHANGED <<upTag, fresh, tagRow, tagStore, puller>>

TagNext ==
    \/ \E q \in Pullers : \/ PullTag(q) \/ LockTag(q) \/ HeadTag(q) \/ UnchangedTag(q) \/ FetchTag(q)
                          \/ KeepManifest(q) \/ PutTag(q) \/ SetFreshness(q)
    \/ \E d \in TagDigests \cup {NoTag} : MoveUpstream(d)
    \/ \E d \in TagDigests : UnlinkManifest(d)
    \/ TagTick

TagSpec == TagInit /\ [][TagNext]_tagVars

\* A served tag is what the upstream last said: an answer from the record trails the upstream by less than
\* the ttl, one the upstream just confirmed by no more than its own transit, and one served because the
\* upstream could not be asked by less than the ttl and the stale bound, each plus the transit of the answer
\* the record was made from.  Revalidation never makes a record of something the upstream no longer has.
TagsFollowUpstream ==
    \A q \in Pullers : LET answer == puller[q].answer IN
        /\ answer.via \in {"revalidated", "fetched"} => answer.lag <= MaxTransit
        /\ answer.via = "fresh" => answer.lag < TagTtl + MaxTransit
        /\ answer.via = "stale" /\ MaxStale # 0 => answer.lag < TagTtl + MaxStale + MaxTransit

--------------------------------
(* Content by digest                                                       *)

VARIABLES
    content,     \* digests in the store
    membership,      \* <<repository, digest>>: membership rows
    upHas,       \* <<repository, digest>>: what the upstreams of the proxied repositories have
    remembered,  \* the in-memory cache of blob membership rows, in insertion order
    reader,      \* per request [at, repo, digest, entitled]
    gate         \* per digest the request that holds its gate, NoReader

contentVars == <<content, membership, upHas, remembered, reader, gate>>

Repos == ProxiedRepos \cup HostedRepos
Digests == ManifestDigests \cup BlobDigests
NoReader == "none"
\* entitled, a history: this repository had a row for the digest at some moment of the request, or its
\* upstream said in the request that it has it.
NewReader == [at |-> "idle", repo |-> "none", digest |-> "none", entitled |-> FALSE]

ContentInit ==
    /\ content = {}
    /\ membership = {}
    /\ upHas = {}
    /\ remembered = <<>>
    /\ reader = [q \in DigestReaders |-> NewReader]
    /\ gate = [d \in Digests |-> NoReader]

\* A membership row is written; the requests under way for it are entitled from now on.
Records(rows, q, at) ==
    /\ membership' = membership \cup rows
    /\ reader' = [p \in DigestReaders |->
          [reader[p] EXCEPT !.at = IF p = q THEN at ELSE @, !.entitled = @ \/ <<reader[p].repo, reader[p].digest>> \in rows]]

ReaderGoes(q, at) == reader' = [reader EXCEPT ![q].at = at]

\* BlobMembershipCache.insert: the oldest entries make room.
Remember(cache, key) ==
    LET grown == Append(cache, key)
    IN  SubSeq(grown, IF Len(grown) > MembershipLimit THEN Len(grown) - MembershipLimit + 1 ELSE 1, Len(grown))

\* blob_is_member: the cache, else the row, remembered under the write lock.
IsMember(key) == key \in Range(remembered) \/ key \in membership
Looked(key) == remembered' = IF key \in membership /\ key \notin Range(remembered) THEN Remember(remembered, key) ELSE remembered

\* blob_authorized and manifest_authorized: the bytes are in the store and the repository has a row for them.
BlobAuthorized(key) == key[2] \in content /\ IsMember(key)
ManifestAuthorized(key) == key[2] \in content /\ key \in membership

Asks(q, key, at) ==
    /\ reader[q].at \in {"idle", "served", "refused"}
    /\ reader' = [reader EXCEPT ![q] = [at |-> at, repo |-> key[1], digest |-> key[2], entitled |-> key \in membership]]

\* serve_blob: what the repository may answer with is served, everything else is left to ensure_blob.
ServeBlob(q, key) ==
    /\ key[2] \in BlobDigests
    /\ Asks(q, key, IF BlobAuthorized(key) THEN "served" ELSE "gate")
    /\ IF key[2] \in content THEN Looked(key) ELSE UNCHANGED remembered
    /\ UNCHANGED <<content, membership, upHas, gate>>

\* serve_manifest by digest: a hosted repository has nobody else to ask.
ServeManifest(q, key) ==
    /\ key[2] \in ManifestDigests
    /\ Asks(q, key, IF ManifestAuthorized(key) THEN "served" ELSE IF key[1] \in ProxiedRepos THEN "gate" ELSE "refused")
    /\ UNCHANGED <<content, membership, upHas, remembered, gate>>

\* ensure_blob, under the gate of the digest: look again.
EnsureBlob(q) ==
    LET d == reader[q].digest
        key == <<reader[q].repo, d>>
    IN  /\ reader[q].at = "gate" /\ d \in BlobDigests
        /\ gate[d] = NoReader
        /\ IF d \in content THEN Looked(key) ELSE UNCHANGED remembered
        /\ IF BlobAuthorized(key)
           THEN ReaderGoes(q, "served") /\ UNCHANGED gate
           ELSE ReaderGoes(q, IF d \in content THEN "probe" ELSE "fetch") /\ gate' = [gate EXCEPT ![d] = q]
        /\ UNCHANGED <<content, membership, upHas>>

\* pull_manifest_by_digest, under the gate: a manifest that is in the store by now is answered without asking
\* whose it is.
PullManifest(q) ==
    LET d == reader[q].digest IN
    /\ reader[q].at = "gate" /\ d \in ManifestDigests
    /\ gate[d] = NoReader
    /\ IF d \in content
       THEN ReaderGoes(q, "served") /\ UNCHANGED gate
       ELSE ReaderGoes(q, "fetch") /\ gate' = [gate EXCEPT ![d] = q]
    /\ UNCHANGED <<content, membership, upHas, remembered>>

\* fetch_blob, when the bytes are stored for another repository: the upstream says whether this one has it.
\* A hosted index has no upstream to ask.
ProbeBlob(q) ==
    LET key == <<reader[q].repo, reader[q].digest>> IN
    /\ reader[q].at = "probe"
    /\ IF key \in upHas
       THEN Records({key}, q, "served") \/ (ReaderGoes(q, "refused") /\ UNCHANGED membership)
       ELSE ReaderGoes(q, "refused") /\ UNCHANGED membership
    /\ gate' = [gate EXCEPT ![reader[q].digest] = NoReader]
    /\ UNCHANGED <<content, upHas, remembered>>

\* fetch_blob: the bytes of the upstream are stored, the row comes after; bytes that do not hash to the digest
\* are refused, and the download may fail.
FetchBlob(q) ==
    LET d == reader[q].digest IN
    /\ reader[q].at = "fetch" /\ d \in BlobDigests
    /\ \/ /\ <<reader[q].repo, d>> \in upHas
          /\ content' = content \cup {d}
          /\ ReaderGoes(q, "store")
          /\ UNCHANGED gate
       \/ /\ ReaderGoes(q, "refused")
          /\ gate' = [gate EXCEPT ![d] = NoReader]
          /\ UNCHANGED content
    /\ UNCHANGED <<membership, upHas, remembered>>

\* fetch_manifest_by_digest: record_manifest writes the manifest first and its rows in transactions after it.
FetchManifest(q) ==
    LET d == reader[q].digest IN
    /\ reader[q].at = "fetch" /\ d \in ManifestDigests
    /\ \/ /\ <<reader[q].repo, d>> \in upHas
          /\ content' = content \cup {d}
          /\ ReaderGoes(q, "store")
          /\ UNCHANGED gate
       \/ /\ ReaderGoes(q, "refused")
          /\ gate' = [gate EXCEPT ![d] = NoReader]
          /\ UNCHANGED content
    /\ UNCHANGED <<membership, upHas, remembered>>

\* The row that entitles the repository.
StoreRow(q) ==
    LET d == reader[q].digest IN
    /\ reader[q].at = "store"
    /\ Records({<<reader[q].repo, d>>}, q, "served")
    /\ gate' = [gate EXCEPT ![d] = NoReader]
    /\ UNCHANGED <<content, upHas, remembered>>

\* head_blob, where the store may not answer: the upstream does, and the row is recorded without bytes.
HeadBlob(q, r, d) ==
    /\ reader[q].at \in {"idle", "served", "refused"}
    /\ d \in BlobDigests /\ <<r, d>> \in upHas
    /\ ~(d \in content /\ IsMember(<<r, d>>))
    /\ membership' = membership \cup {<<r, d>>}
    /\ reader' = [p \in DigestReaders |->
          IF p = q THEN NewReader ELSE [reader[p] EXCEPT !.entitled = @ \/ <<reader[p].repo, reader[p].digest>> = <<r, d>>]]
    /\ UNCHANGED <<content, upHas, remembered, gate>>

\* commit_blob and a manifest push to a hosted repository: the content, then its row.
PushContent(r, d) ==
    /\ r \in HostedRepos /\ <<r, d>> \notin membership
    /\ content' = content \cup {d}
    /\ membership' = membership \cup {<<r, d>>}
    /\ reader' = [p \in DigestReaders |-> [reader[p] EXCEPT !.entitled = @ \/ <<reader[p].repo, reader[p].digest>> = <<r, d>>]]
    /\ UNCHANGED <<upHas, remembered, gate>>

\* delete_blob: the cache entry, of which there is one, and the row, under the write lock of the cache.
DeleteBlobRow(r, d) ==
    /\ r \in HostedRepos /\ d \in BlobDigests /\ <<r, d>> \in membership
    /\ membership' = membership \ {<<r, d>>}
    /\ IF <<r, d>> \in Range(remembered)
       THEN \E i \in DOMAIN remembered : remembered[i] = <<r, d>> /\ remembered' = RemoveAt(remembered, i)
       ELSE UNCHANGED remembered
    /\ UNCHANGED <<content, upHas, reader, gate>>

\* external: an upstream gains or loses content.
UpstreamChanges(key) ==
    /\ upHas' = IF key \in upHas THEN upHas \ {key} ELSE upHas \cup {key}
    /\ UNCHANGED <<content, membership, remembered, reader, gate>>

ContentNext ==
    \/ \E q \in DigestReaders :
          \/ EnsureBlob(q) \/ PullManifest(q) \/ ProbeBlob(q) \/ FetchBlob(q) \/ FetchManifest(q) \/ StoreRow(q)
          \/ \E r \in Repos, d \in Digests : ServeBlob(q, <<r, d>>) \/ ServeManifest(q, <<r, d>>) \/ HeadBlob(q, r, d)
    \/ \E r \in Repos, d \in Digests : PushContent(r, d) \/ DeleteBlobRow(r, d)
    \/ \E r \in ProxiedRepos, d \in Digests : UpstreamChanges(<<r, d>>)

DigestSpec == ContentInit /\ [][ContentNext]_contentVars

\* A blob is served only under a repository that had it while the request ran: the bytes in the shared store
\* entitle no one, a deletion that was answered is seen by every later read, whatever the cache remembers,
\* and the cache never remembers a row that is gone.
BlobsStayInTheirRepository ==
    /\ \A q \in DigestReaders : reader[q].at = "served" /\ reader[q].digest \in BlobDigests => reader[q].entitled
    /\ \A key \in Range(remembered) : key \in membership
    /\ IsInjective(remembered)

\* The same for manifests, as manifest_authorized has it: a member's upstream is the authority for what the
\* repository itself does not record.
ManifestsStayInTheirRepository ==
    \A q \in DigestReaders : reader[q].at = "served" /\ reader[q].digest \in ManifestDigests => reader[q].entitled

\* A tag follows its upstream within the stale bound, and a blob is served only where it is a member.
ProxyIsSound == TagsFollowUpstream /\ BlobsStayInTheirRepository

\* The OCI registry's two long conversations: an upload session resumes where its client was told
\* (registry/uploads.rs), a proxied tag follows its upstream within the stale bound and a blob stays in its
\* repository (registry/manifests, registry/blobs).
ConversationsHold == UploadsResume /\ ProxyIsSound

================================
