---------------- MODULE HostedFiles ----------------
(* The writes to a hosted PyPI index that sits in a virtual index in front
   of a cached one: upload, promotion from another hosted index, yank and
   un-yank, delete and restore (serving/post.rs, serving/mutate.rs,
   cache/mutate.rs, store/uploads.rs).

   A request runs several transactions and awaits in between.  An uploaded
   file has a record that a mutation rewrites; a file of the cached index
   has an override on the hosted one.  One project; a content is its
   digest, and a file name belongs to one version. *)
EXTENDS Integers, Sequences, FiniteSets, FiniteSetsExt

CONSTANTS
    Writers,        \* requests
    FileNames,
    VersionOf,      \* file name -> version
    FileContents,   \* digests
    SizeOf,         \* digest -> bytes
    UpstreamFiles,  \* the files of the cached index
    Volatile,       \* whether the hosted index lets go of uploads
    MaxProjectSize, \* max_project_size of its policy, NoLimit
    MaxWrites       \* bound on requests

NoLimit == -1
NoContent == "none"
ASSUME HostedAssumption ==
    /\ MaxProjectSize \in Nat \cup {NoLimit} /\ MaxWrites \in Nat /\ Volatile \in BOOLEAN
    /\ NoContent \notin FileContents /\ UpstreamFiles \subseteq FileNames

VARIABLES
    uploaded,   \* per hosted index and file name [digest, yanked, trashed], NoRecord
    override,   \* per file name "none", "yanked" or "hidden"
    artifacts,  \* contents in the blob store
    siblings,   \* contents whose metadata document is in the blob store
    writer,     \* per request [at, op, index, file, digest, version, names, mine, alone, heard]
    acked,      \* history: <<index, file, digest>> of the uploads that were answered 200
    writes      \* requests so far

hostedVars == <<uploaded, override, artifacts, siblings, writer, acked, writes>>

\* The index that serves, and the one that releases are promoted from.
Hosted == {"prod", "staging"}
NoRecord == [digest |-> NoContent, yanked |-> FALSE, trashed |-> FALSE]
AnyVersion == "any"
\* Histories: alone, no other request ran at any moment of this one; heard, the cached layer was on the page it listed.
AtRest == [at |-> "idle", op |-> "none", index |-> "prod", file |-> "none", digest |-> NoContent, version |-> AnyVersion,
           names |-> {}, mine |-> {}, alone |-> FALSE, heard |-> TRUE]

HostedInit ==
    /\ uploaded = [i \in Hosted |-> [f \in FileNames |-> NoRecord]]
    /\ override = [f \in FileNames |-> "none"]
    /\ artifacts = {}
    /\ siblings = {}
    /\ writer = [w \in Writers |-> AtRest]
    /\ acked = {}
    /\ writes = 0

Matches(f, version) == version = AnyVersion \/ VersionOf[f] = version
Uploads(i) == {f \in FileNames : uploaded[i][f] # NoRecord}

\* hosted_detail and virtual_detail: live uploads shadow the files of the cached index, then apply_overrides.
Shown == {f \in FileNames : uploaded["prod"][f] # NoRecord /\ ~uploaded["prod"][f].trashed} \cup UpstreamFiles
Served == {f \in Shown : override[f] # "hidden"}
ServedYanked(f) == override[f] = "yanked" \/ (f \in Uploads("prod") /\ ~uploaded["prod"][f].trashed /\ uploaded["prod"][f].yanked)

\* A request begins; it and every request under way are no longer alone if there is one.
Begins(w, op, i, f, d, version, at) ==
    /\ writer[w].at \in {"idle", "done", "refused"} /\ writes < MaxWrites
    /\ writes' = writes + 1
    /\ LET busy == \E v \in Writers \ {w} : writer[v].at \notin {"idle", "done", "refused"}
       IN  writer' = [v \in Writers |->
             IF v = w THEN [AtRest EXCEPT !.at = at, !.op = op, !.index = i, !.file = f, !.digest = d,
                                          !.version = version, !.alone = ~busy]
             ELSE IF writer[v].at \in {"done", "refused"} THEN AtRest ELSE [writer[v] EXCEPT !.alone = FALSE]]

WriterAt(w, op, at) == writer[w].op = op /\ writer[w].at = at
WriterGoes(w, at) == writer' = [writer EXCEPT ![w].at = at]

--------------------------------
(* Upload                                                                  *)

\* pypi_dispatch_post: the form was collected, the file prepared (module PublishForm), the policy passed.
BeginUpload(w, i, f, d) ==
    /\ Begins(w, "upload", i, f, d, AnyVersion, "size")
    /\ UNCHANGED <<uploaded, override, artifacts, siblings, acked>>

\* project_upload_bytes: every other record of the project, trashed ones too.
ProjectBytes(i, f) == MapThenSumSet(LAMBDA g : SizeOf[uploaded[i][g].digest], Uploads(i) \ {f})

\* upload_quota_response, from a read of its own.
CheckProjectSize(w) ==
    /\ WriterAt(w, "upload", "size")
    /\ WriterGoes(w, IF MaxProjectSize # NoLimit
                        /\ ProjectBytes(writer[w].index, writer[w].file) + SizeOf[writer[w].digest] > MaxProjectSize
                     THEN "refused" ELSE "status")
    /\ UNCHANGED <<uploaded, override, artifacts, siblings, acked, writes>>

\* project_status: asks the upstream of the virtual index; a quarantined or archived project takes no uploads.
CheckStatus(w) ==
    /\ WriterAt(w, "upload", "status")
    /\ WriterGoes(w, "content") \/ WriterGoes(w, "refused")
    /\ UNCHANGED <<uploaded, override, artifacts, siblings, acked, writes>>

\* store_prepared: the blobs are committed first, one after the other.
CommitContent(w) ==
    /\ WriterAt(w, "upload", "content")
    /\ artifacts' = artifacts \cup {writer[w].digest}
    /\ WriterGoes(w, "metadata")
    /\ UNCHANGED <<uploaded, override, siblings, acked, writes>>

CommitMetadata(w) ==
    /\ WriterAt(w, "upload", "metadata")
    /\ siblings' = siblings \cup {writer[w].digest}
    /\ WriterGoes(w, "publish")
    /\ UNCHANGED <<uploaded, override, artifacts, acked, writes>>

\* upload_conflict, promote_conflict: what the transaction does about the record that is there.
GuardOverwriting(existing, digest) == IF existing.digest = digest THEN "skip" ELSE "commit"

Guard(existing, digest) ==
    IF existing = NoRecord THEN "commit" ELSE IF existing.digest = digest THEN "skip" ELSE "conflict"

\* publish_file_if: the record, unless the guard says otherwise, in the transaction that read what is there.
PublishFileIf(verdict, i, f, d) ==
    uploaded' = IF verdict = "commit" THEN [uploaded EXCEPT ![i][f] = [NoRecord EXCEPT !.digest = d]] ELSE uploaded

\* store_record
PublishFile(w) ==
    LET i == writer[w].index
        f == writer[w].file
        d == writer[w].digest
        verdict == Guard(uploaded[i][f], d)
    IN  /\ WriterAt(w, "upload", "publish")
        /\ PublishFileIf(verdict, i, f, d)
        /\ acked' = IF verdict = "conflict" THEN acked ELSE acked \cup {<<i, f, d>>}
        /\ WriterGoes(w, IF verdict = "conflict" THEN "refused" ELSE "done")
        /\ UNCHANGED <<override, artifacts, siblings, writes>>

--------------------------------
(* Promotion                                                               *)

\* promote_release, the read: the records of the version in the source, whatever their marks.
BeginPromote(w, version) ==
    /\ Begins(w, "promote", "prod", "none", NoContent, version, "read")
    /\ UNCHANGED <<uploaded, override, artifacts, siblings, acked>>

ReadRelease(w) ==
    /\ WriterAt(w, "promote", "read")
    /\ LET found == {f \in Uploads("staging") : Matches(f, writer[w].version)}
       IN  writer' = [writer EXCEPT ![w].at = IF found = {} THEN "refused" ELSE "promote",
                                    ![w].mine = {<<f, uploaded["staging"][f]>> : f \in found}]
    /\ UNCHANGED <<uploaded, override, artifacts, siblings, acked, writes>>

\* promote_files_checked: one conflict, and nothing is copied.
PromoteFiles(w) ==
    LET release == writer[w].mine
        verdict(e) == Guard(uploaded["prod"][e[1]], e[2].digest)
    IN  /\ WriterAt(w, "promote", "promote")
        /\ IF \E e \in release : verdict(e) = "conflict"
           THEN WriterGoes(w, "refused") /\ UNCHANGED uploaded
           ELSE /\ uploaded' = [uploaded EXCEPT !["prod"] = [f \in FileNames |->
                      IF \E e \in release : e[1] = f /\ verdict(e) = "commit"
                      THEN (CHOOSE e \in release : e[1] = f)[2] ELSE @[f]]]
                /\ WriterGoes(w, "done")
        /\ UNCHANGED <<override, artifacts, siblings, acked, writes>>

--------------------------------
(* Yank, delete, restore                                                   *)

\* mutate_uploads: every record of the version, in one transaction.
Yanked(record, value) == [digest |-> record.digest, yanked |-> value, trashed |-> record.trashed]
Trashed(record, value) == [digest |-> record.digest, yanked |-> record.yanked, trashed |-> value]
Marked(record, mark, value) == IF mark = "yanked" THEN Yanked(record, value) ELSE Trashed(record, value)
MutateUploads(version, mark, value) ==
    uploaded' = [uploaded EXCEPT !["prod"] = [f \in FileNames |->
        IF f \in Uploads("prod") /\ Matches(f, version) THEN Marked(@[f], mark, value) ELSE @[f]]]

BeginYank(w, op, version) ==
    /\ Begins(w, op, "prod", "none", NoContent, version, "list")
    /\ UNCHANGED <<uploaded, override, artifacts, siblings, acked>>

\* set_yanked: upload_filenames.
ListUploads(w) ==
    /\ writer[w].op \in {"yank", "unyank"} /\ writer[w].at = "list"
    /\ writer' = [writer EXCEPT ![w].at = "records", ![w].mine = {<<f, NoRecord>> : f \in Uploads("prod")}]
    /\ UNCHANGED <<uploaded, override, artifacts, siblings, acked, writes>>

\* set_yanked: yank_uploads.
YankUploads(w) ==
    /\ writer[w].op \in {"yank", "unyank"} /\ writer[w].at = "records"
    /\ MutateUploads(writer[w].version, "yanked", writer[w].op = "yank")
    /\ WriterGoes(w, "served")
    /\ UNCHANGED <<override, artifacts, siblings, acked, writes>>

\* The page as virtual_detail builds it when a cached layer fails: the failure is logged and the layer left out.
ServedByHosted == {f \in Served : f \in Uploads("prod") /\ ~uploaded["prod"][f].trashed}

Lists(w, page, heard) ==
    writer' = [writer EXCEPT ![w].at = IF writer[w].op = "delete" THEN "uploads" ELSE "overrides", ![w].heard = heard,
                             ![w].names = {f \in page : Matches(f, writer[w].version)}]

\* served_filenames: the page of the virtual index, hidden files left out; a cached layer that fails is missing from
\* it, and the request ends when no layer answered and one was refused by a limit, a policy or being offline, or when
\* the store fails.
ListServed(w) ==
    /\ writer[w].at = "served"
    /\ Lists(w, Served, TRUE) \/ Lists(w, ServedByHosted, FALSE) \/ WriterGoes(w, "refused")
    /\ UNCHANGED <<uploaded, override, artifacts, siblings, acked, writes>>

Mine(w) == {e[1] : e \in writer[w].mine}

\* set_yanked and remove_files: put_override or delete_override of one file after the other.
OverrideFile(w, f) ==
    /\ writer[w].at = "overrides" /\ f \in writer[w].names \ Mine(w)
    /\ override' = [override EXCEPT ![f] = CASE writer[w].op = "yank" -> "yanked"
                                             [] writer[w].op = "unyank" -> "none"
                                             [] writer[w].op = "delete" -> "hidden"]
    /\ writer' = [writer EXCEPT ![w].names = @ \ {f}]
    /\ UNCHANGED <<uploaded, artifacts, siblings, acked, writes>>

EndOverrides(w) ==
    /\ writer[w].at = "overrides" /\ writer[w].names \subseteq Mine(w)
    /\ WriterGoes(w, "done")
    /\ UNCHANGED <<uploaded, override, artifacts, siblings, acked, writes>>

BeginDelete(w, version) ==
    /\ Begins(w, "delete", "prod", "none", NoContent, version, "served")
    /\ UNCHANGED <<uploaded, override, artifacts, siblings, acked>>

\* remove_files: upload_filenames.
DeleteListUploads(w) ==
    /\ WriterAt(w, "delete", "uploads")
    /\ writer' = [writer EXCEPT ![w].at = "trash", ![w].mine = {<<f, NoRecord>> : f \in Uploads("prod")}]
    /\ UNCHANGED <<uploaded, override, artifacts, siblings, acked, writes>>

\* trash_uploads: an index that is not volatile refuses when a live record matches, and nothing is touched.
TrashUploads(w) ==
    /\ WriterAt(w, "delete", "trash")
    /\ IF ~Volatile /\ \E f \in Uploads("prod") : Matches(f, writer[w].version) /\ ~uploaded["prod"][f].trashed
       THEN WriterGoes(w, "refused") /\ UNCHANGED uploaded
       ELSE /\ MutateUploads(writer[w].version, "trashed", TRUE)
            /\ WriterGoes(w, "overrides")
    /\ UNCHANGED <<override, artifacts, siblings, acked, writes>>

BeginRestore(w, version) ==
    /\ Begins(w, "restore", "prod", "none", NoContent, version, "records")
    /\ UNCHANGED <<uploaded, override, artifacts, siblings, acked>>

\* restore_files: untrash_uploads, then list_overrides.
UntrashUploads(w) ==
    /\ WriterAt(w, "restore", "records")
    /\ MutateUploads(writer[w].version, "trashed", FALSE)
    /\ writer' = [writer EXCEPT ![w].at = "hidden",
                                ![w].names = {f \in FileNames : override[f] = "hidden" /\ Matches(f, writer[w].version)}]
    /\ UNCHANGED <<override, artifacts, siblings, acked, writes>>

\* restore_files: delete_override takes whatever override is there by now.
RestoreFile(w) ==
    /\ WriterAt(w, "restore", "hidden")
    /\ IF writer[w].names = {} THEN WriterGoes(w, "done") /\ UNCHANGED override
       ELSE \E f \in writer[w].names :
              /\ override' = [override EXCEPT ![f] = "none"]
              /\ writer' = [writer EXCEPT ![w].names = @ \ {f}]
    /\ UNCHANGED <<uploaded, artifacts, siblings, acked, writes>>

\* The process stops: requests are gone, what they committed stays.
HostedCrash ==
    /\ \E w \in Writers : writer[w].at \notin {"idle", "done", "refused"}
    /\ writer' = [w \in Writers |-> AtRest]
    /\ UNCHANGED <<uploaded, override, artifacts, siblings, acked, writes>>

VersionsAsked == {VersionOf[f] : f \in FileNames} \cup {AnyVersion}

HostedNext ==
    \/ \E w \in Writers :
          \/ CheckProjectSize(w) \/ CheckStatus(w) \/ CommitContent(w) \/ CommitMetadata(w) \/ PublishFile(w)
          \/ ReadRelease(w) \/ PromoteFiles(w)
          \/ ListUploads(w) \/ YankUploads(w) \/ ListServed(w) \/ EndOverrides(w)
          \/ DeleteListUploads(w) \/ TrashUploads(w) \/ UntrashUploads(w) \/ RestoreFile(w)
          \/ \E f \in FileNames : OverrideFile(w, f)
          \/ \E i \in Hosted, f \in FileNames, d \in FileContents : BeginUpload(w, i, f, d)
          \/ \E v \in VersionsAsked :
                \/ BeginDelete(w, v) \/ BeginRestore(w, v)
                \/ BeginYank(w, "yank", v) \/ BeginYank(w, "unyank", v)
                \/ v # AnyVersion /\ BeginPromote(w, v)
    \/ HostedCrash

HostedSpec == HostedInit /\ [][HostedNext]_hostedVars

--------------------------------
(* Properties                                                              *)

\* What an upload was acknowledged for is what the index holds under that name for ever: no concurrent
\* upload, promotion, mutation or crash gives the name other content, and the content and its metadata are
\* in the blob store for every record.
ReleasesAreImmutable ==
    /\ \A a \in acked : uploaded[a[1]][a[2]].digest = a[3]
    /\ \A i \in Hosted : \A f \in Uploads(i) : uploaded[i][f].digest \in artifacts \cap siblings

\* A mutation that ran alone and was answered did what it could see to: after a delete the page shows no file of the
\* version but an upstream one - one that a trashed upload shadowed, or any when the cached layer was left out of the
\* page the delete listed; after a yank every other file it shows is yanked, an upstream one only if its layer was on
\* the page; after a restore nothing of the version is trashed or hidden.
MutationsReachEveryFile ==
    \A w \in Writers : LET q == writer[w]
                           asked == {f \in FileNames : Matches(f, q.version)}
                       IN q.at = "done" /\ q.alone =>
        /\ q.op = "delete" =>
              Served \cap asked \subseteq {f \in UpstreamFiles : q.heard => uploaded["prod"][f].trashed}
        /\ q.op = "yank" => \A f \in Served \cap asked :
              ServedYanked(f) \/ uploaded["prod"][f].trashed \/ (~q.heard /\ f \notin Uploads("prod"))
        /\ q.op = "restore" => \A f \in asked : override[f] # "hidden" /\ ~uploaded["prod"][f].trashed

\* set_yanked: it sets or clears the yank state of the files as the index serves them.
YankSetsOrClears ==
    \A w \in Writers : writer[w].op \in {"yank", "unyank"} /\ writer[w].at = "done" /\ writer[w].alone =>
        \A f \in Served : Matches(f, writer[w].version) => (ServedYanked(f) <=> writer[w].op = "yank")

\* upload_quota_response: an upload that would push the project past max_project_size is rejected.
ProjectSizeHolds ==
    MaxProjectSize # NoLimit => \A i \in Hosted : ProjectBytes(i, "none") <= MaxProjectSize

\* A file name keeps its bytes under racing writers, and a change of a release reaches each of its files.
HostingIsSound == ReleasesAreImmutable /\ MutationsReachEveryFile

================================
