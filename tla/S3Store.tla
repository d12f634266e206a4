---------------- MODULE S3Store ----------------
(* The S3 backend of the blob store: a finished local stage is uploaded
   under its digest, whole or in parts, and read back whole or by range
   (peryx-storage, blob/s3).  The object store and the network are
   external: a request may be refused, may fail before or after it took
   effect, and a body may end early.  It stands beside the filesystem's
   backend, with which it shares what a blob store promises. *)
EXTENDS BlobStore

CONSTANTS
    Putters,            \* commits in progress
    Getters,            \* reads in progress
    Lengths,            \* lengths of the blobs, in units; a blob is named by its length
    MultipartThreshold,
    PartSize,
    UploadConcurrency,
    S3Retries,          \* max_retries
    MaxUploads          \* bound on multipart uploads created

ASSUME S3Assumption ==
    /\ Lengths \subseteq Nat /\ Lengths # {}
    /\ {PartSize, UploadConcurrency} \subseteq Nat \ {0}
    /\ {MultipartThreshold, S3Retries, MaxUploads} \subseteq Nat

VARIABLES
    objects,    \* key -> content, the set of its units; Absent where there is none
    uploads,    \* multipart uploads ever created: [key, state, parts: number -> content]
    putter,     \* per commit [at, len, upload, offset, number, batch, attempt, answer]
    getter,     \* per read [at, key, range, declared, got]
    s3Stage,    \* commits whose local stage exists
    confirmed   \* history: keys whose commit was answered with success, since they were last deleted

s3Vars == <<objects, uploads, putter, getter, s3Stage, confirmed>>

Absent == {-1}
Units(from, to) == from .. (to - 1)

FreshPut == [at |-> "idle", len |-> 0, upload |-> 0, offset |-> 0, number |-> 1, batch |-> {},
             attempt |-> 0, answer |-> "none"]
FreshGet == [at |-> "idle", key |-> 0, range |-> <<0, 0>>, declared |-> 0, got |-> {}]

S3Init ==
    /\ objects = [k \in Lengths |-> Absent]
    /\ uploads = <<>>
    /\ putter = [p \in Putters |-> FreshPut]
    /\ getter = [g \in Getters |-> FreshGet]
    /\ s3Stage = {}
    /\ confirmed = {}

--------------------------------
(* Requests                                                                *)

\* send: a failure that is_retryable (transport, 429, 5xx) is tried again while attempts are left.  Retry
\* and Exhausted are the two ways a failed attempt goes on.
Retry(p) ==
    /\ putter[p].attempt < S3Retries
    /\ putter' = [putter EXCEPT ![p].attempt = @ + 1]

Exhausted(p) == putter[p].attempt = S3Retries

\* What a request of the commit leaves: the putter as it is now, and its key confirmed when it ended well.
Confirms(p) == confirmed' = IF putter'[p].answer = "ok" THEN confirmed \cup {putter[p].len} ELSE confirmed

Ends(p, answer) ==
    putter' = [putter EXCEPT ![p].at = "discard", ![p].answer = answer, ![p].attempt = 0]

\* upload: below the threshold one PUT, above it a multipart upload.
StartPut(p, len) ==
    /\ putter[p].at = "idle" /\ putter[p].answer = "none"
    /\ s3Stage' = s3Stage \cup {p}
    /\ putter' = [putter EXCEPT ![p].len = len, ![p].at = IF len <= MultipartThreshold THEN "put" ELSE "create"]
    /\ UNCHANGED <<objects, uploads, getter, confirmed>>

\* put_whole carries the digest as a checksum, so the store refuses a body that is not the content.
PutWhole(p) ==
    /\ putter[p].at = "put"
    /\ \/ /\ objects' = [objects EXCEPT ![putter[p].len] = Units(0, putter[p].len)]
          /\ Ends(p, "ok") \/ Retry(p) \/ (Exhausted(p) /\ Ends(p, "failed"))
       \/ /\ Retry(p) \/ Ends(p, "failed")
          /\ UNCHANGED objects
    /\ Confirms(p)
    /\ UNCHANGED <<uploads, getter, s3Stage>>

\* create_multipart is not idempotent: an answer that is lost leaves an upload behind that nobody knows.
CreateMultipart(p) ==
    /\ putter[p].at = "create"
    /\ \/ /\ Len(uploads) < MaxUploads
          /\ uploads' = Append(uploads, [key |-> putter[p].len, state |-> "open", parts |-> <<>>])
          /\ \/ putter' = [putter EXCEPT ![p].at = "parts", ![p].upload = Len(uploads) + 1, ![p].attempt = 0]
             \/ Retry(p)
             \/ Exhausted(p) /\ Ends(p, "failed")
       \/ /\ Retry(p) \/ Ends(p, "failed")
          /\ UNCHANGED uploads
    /\ UNCHANGED <<objects, getter, s3Stage, confirmed>>

\* upload_parts: the next batch, at most UploadConcurrency parts cut from the stage one after the other.
Parts(q) ==
    {[number |-> q.number + i, from |-> q.offset + i * PartSize,
      to |-> IF q.offset + (i + 1) * PartSize < q.len THEN q.offset + (i + 1) * PartSize ELSE q.len] :
        i \in {j \in 0..(UploadConcurrency - 1) : q.offset + j * PartSize < q.len}}

NextBatch(p) ==
    /\ putter[p].at = "parts" /\ putter[p].batch = {} /\ putter[p].offset < putter[p].len
    /\ LET batch == Parts(putter[p])
           end == putter[p].offset + UploadConcurrency * PartSize
       IN putter' = [putter EXCEPT ![p].batch = batch, ![p].number = @ + Cardinality(batch),
                                   ![p].offset = IF end < putter[p].len THEN end ELSE putter[p].len,
                                   ![p].attempt = 0]
    /\ UNCHANGED <<objects, uploads, getter, s3Stage, confirmed>>

\* upload_one: the parts of a batch are answered in any order; the first failure ends the batch (retries of
\* one part are counted against the batch).
UploadPart(p, part) ==
    /\ putter[p].at = "parts" /\ part \in putter[p].batch
    /\ \/ /\ uploads' = [uploads EXCEPT ![putter[p].upload].parts =
                           [n \in DOMAIN @ \cup {part.number} |->
                              IF n = part.number THEN Units(part.from, part.to) ELSE @[n]]]
          /\ \/ putter' = [putter EXCEPT ![p].batch = @ \ {part}]
             \/ Retry(p)
             \/ Exhausted(p) /\ putter' = [putter EXCEPT ![p].at = "abort", ![p].batch = {}, ![p].attempt = 0]
       \/ /\ \/ Retry(p)
             \/ putter' = [putter EXCEPT ![p].at = "abort", ![p].batch = {}, ![p].attempt = 0]
          /\ UNCHANGED uploads
    /\ UNCHANGED <<objects, getter, s3Stage, confirmed>>

Sent(p) == putter[p].at = "parts" /\ putter[p].batch = {} /\ putter[p].offset >= putter[p].len

\* What the store does when it completes an upload from the parts it is given, all of them its own.
Assembled(p) == UNION {uploads[putter[p].upload].parts[n] : n \in 1..(putter[p].number - 1)}

Completes(p) ==
    /\ uploads[putter[p].upload].state = "open"
    /\ objects' = [objects EXCEPT ![putter[p].len] = Assembled(p)]
    /\ uploads' = [uploads EXCEPT ![putter[p].upload].state = "done"]

\* complete_multipart, were the body of a 200 not looked at.
CompleteByStatus(p) ==
    /\ Sent(p)
    /\ \/ Completes(p) /\ (Ends(p, "ok") \/ Retry(p) \/ (Exhausted(p) /\ Ends(p, "failed")))
       \/ /\ Retry(p) \/ Ends(p, "failed") \/ Ends(p, "ok")
          /\ UNCHANGED <<objects, uploads>>
    /\ Confirms(p)
    /\ UNCHANGED <<getter, s3Stage>>

\* complete_multipart: an upload that an earlier attempt completed is not found, and a 200 may carry an
\* error; both are final.  The upload is not aborted then.
CompleteMultipart(p) ==
    /\ Sent(p)
    /\ \/ Completes(p) /\ (Ends(p, "ok") \/ Retry(p) \/ (Exhausted(p) /\ Ends(p, "failed")))
       \/ /\ Retry(p) \/ Ends(p, "failed")
          /\ UNCHANGED <<objects, uploads>>
    /\ Confirms(p)
    /\ UNCHANGED <<getter, s3Stage>>

\* abort_multipart, its own failure ignored.
AbortMultipart(p) ==
    /\ putter[p].at = "abort"
    /\ \/ /\ uploads' = [uploads EXCEPT ![putter[p].upload].state = "aborted"]
          /\ Ends(p, "failed")
       \/ /\ Retry(p) \/ Ends(p, "abort failed")
          /\ UNCHANGED uploads
    /\ UNCHANGED <<objects, getter, s3Stage, confirmed>>

\* S3Staged::commit ends by dropping the local stage, after success and after failure.
DiscardLocal(p) ==
    /\ putter[p].at = "discard"
    /\ s3Stage' = s3Stage \ {p}
    /\ putter' = [putter EXCEPT ![p].at = "idle"]
    /\ UNCHANGED <<objects, uploads, getter, confirmed>>

\* delete: HEAD for the answer, then an idempotent DELETE.
DeleteObject(k) ==
    /\ objects[k] # Absent
    /\ objects' = [objects EXCEPT ![k] = Absent]
    /\ confirmed' = confirmed \ {k}
    /\ UNCHANGED <<uploads, putter, getter, s3Stage>>

--------------------------------
(* Reads                                                                   *)

\* open of a range asks for the length first and refuses a range that lies outside.
HeadObject(g, k, from, to) ==
    /\ getter[g].at = "idle"
    /\ objects[k] # Absent
    /\ from <= to /\ to <= Cardinality(objects[k])
    /\ getter' = [getter EXCEPT ![g] = [FreshGet EXCEPT !.at = "headed", !.key = k, !.range = <<from, to>>,
                                                        !.declared = to - from]]
    /\ UNCHANGED <<objects, uploads, putter, s3Stage, confirmed>>

\* The inclusive HTTP range: an empty one is answered with the whole object, or with its first unit.
S3Served(k, from, to) ==
    IF from < to THEN Units(from, to)
    ELSE IF from = 0 /\ objects[k] # {} THEN {0} ELSE objects[k]

\* get: an object deleted meanwhile is not found; the body starts.
GetObject(g) ==
    /\ getter[g].at = "headed"
    /\ getter' = [getter EXCEPT ![g].at = IF objects[getter[g].key] = Absent THEN "failed" ELSE "streaming",
                                ![g].got = {}]
    /\ UNCHANGED <<objects, uploads, putter, s3Stage, confirmed>>

\* checked_stream: more than was declared is an error when it arrives, less is one at the end.  The body is
\* any prefix of what the store serves.
StreamBody(g) ==
    /\ getter[g].at = "streaming" /\ objects[getter[g].key] # Absent
    /\ LET body == S3Served(getter[g].key, getter[g].range[1], getter[g].range[2])
       IN \E got \in {u \in SUBSET body : \A i \in u, j \in body : j < i => j \in u} :
            getter' = [getter EXCEPT ![g].got = got,
                                     ![g].at = IF Cardinality(got) = getter[g].declared THEN "done" ELSE "failed"]
    /\ UNCHANGED <<objects, uploads, putter, s3Stage, confirmed>>

EndGet(g) ==
    /\ getter[g].at \in {"done", "failed"}
    /\ getter' = [getter EXCEPT ![g] = FreshGet]
    /\ UNCHANGED <<objects, uploads, putter, s3Stage, confirmed>>

S3Next ==
    \/ \E p \in Putters :
         \/ \E len \in Lengths : StartPut(p, len)
         \/ PutWhole(p) \/ CreateMultipart(p) \/ NextBatch(p) \/ CompleteMultipart(p) \/ AbortMultipart(p)
         \/ DiscardLocal(p)
         \/ \E part \in putter[p].batch : UploadPart(p, part)
    \/ \E k \in Lengths : DeleteObject(k)
    \/ \E g \in Getters :
         \/ \E k \in Lengths : \E from, to \in 0..k : HeadObject(g, k, from, to)
         \/ GetObject(g) \/ StreamBody(g) \/ EndGet(g)

S3Spec == S3Init /\ [][S3Next]_s3Vars

--------------------------------
(* Properties                                                              *)

\* An object is the whole content of its key, however its parts were cut, retried and answered; a commit that
\* reported success left it there unless it was deleted since; a read that ended well delivered its range and
\* nothing else; and a finished commit keeps no local stage (upload_parts, complete_multipart, checked_stream).
S3IsWhole ==
    /\ \A k \in Lengths : objects[k] \in {Absent, Units(0, k)}
    /\ \A k \in confirmed : objects[k] # Absent
    /\ \A g \in Getters : getter[g].at = "done" => getter[g].got = Units(getter[g].range[1], getter[g].range[2])
    /\ \A p \in Putters : putter[p].at = "idle" => p \notin s3Stage

\* A blob under its digest is whole in either backend: on the filesystem (blob/store.rs), through crashes,
\* leases and collections; in S3 (blob/s3), through parts, retries and lost answers.
BlobsAreWhole == StoreIsSound /\ S3IsWhole

\* What the module comment of s3/mod.rs says: a multipart upload that failed is aborted, unless the abort
\* itself failed.
FailedMultipartAborts ==
    \A p \in Putters : putter[p].at = "idle" /\ putter[p].answer = "failed" /\ putter[p].upload # 0 =>
        uploads[putter[p].upload].state # "open"

================================
