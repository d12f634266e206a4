---------------- MODULE OciUploads ----------------
(* The blob upload sessions of the OCI registry: POST, PATCH, PUT, GET and
   DELETE of /blobs/uploads (registry/uploads.rs).

   A session lives in a map.  A request that works on it takes it out and
   puts it back when the client may go on, so that two requests never
   write to one stage, and a request that ends in between takes the
   session with it.  Content is a sequence of units; a unit is its place
   in the blob that the client means to upload. *)
EXTENDS Integers, Sequences, FiniteSets, SequencesExt

CONSTANTS
    UploadClients,  \* requests in progress
    Sessions,       \* session ids
    UploadNames,    \* repository names, an index each
    UploadLimit,    \* max_file_size of the policy, in units
    UploadTtl,      \* UPLOAD_SESSION_TTL_SECS
    MaxBody,        \* bound on the units of a blob
    MaxUploadNow    \* bound on the clock

ASSUME UploadAssumption == {UploadLimit, UploadTtl, MaxBody, MaxUploadNow} \subseteq Nat

VARIABLES
    uploadNow,
    uploadMap,  \* session id -> entry, NoEntry where there is none
    request,    \* per client [at, kind, session, name, entry, next]; next: the unit its client sends next
    committed,  \* content committed to the blob store
    belongs,    \* <<name, content>>: blob membership rows
    promised    \* history: session id -> the largest offset a client was told since it was opened

uploadVars == <<uploadNow, uploadMap, request, committed, belongs, promised>>

\* An entry: the staged units and whether the writer still has its stage, the recorded offset, its owner,
\* the time of its last activity.
NoEntry == [units |-> <<>>, live |-> FALSE, offset |-> -1, name |-> "", active |-> 0]
Opened(name) == [units |-> <<>>, live |-> TRUE, offset |-> 0, name |-> name, active |-> uploadNow]
NoSession == "none"

ASSUME SessionAssumption == NoSession \notin Sessions

Resting == [at |-> "idle", kind |-> "none", session |-> NoSession, name |-> "", entry |-> NoEntry, next |-> 0]

UploadInit ==
    /\ uploadNow = 0
    /\ uploadMap = [s \in Sessions |-> NoEntry]
    /\ request = [c \in UploadClients |-> Resting]
    /\ committed = {}
    /\ belongs = {}
    /\ promised = [s \in Sessions |-> 0]

Open == {s \in Sessions : uploadMap[s] # NoEntry}
Held == {request[c].session : c \in UploadClients} \ {NoSession}

RequestEnded(c) == request' = [request EXCEPT ![c] = Resting]
PutBack(s, entry) == uploadMap' = [uploadMap EXCEPT ![s] = entry]
Told(s, offset) == promised' = [promised EXCEPT ![s] = IF offset > @ THEN offset ELSE @]

--------------------------------
(* Opening                                                                 *)

Expired == {s \in Open : uploadNow - uploadMap[s].active >= UploadTtl}

\* start_upload without a digest: a fresh id, expired sessions leave the map under the same lock.
StartSession(c, s, name) ==
    /\ request[c] = Resting
    /\ s \notin Held /\ s \notin Open \ Expired
    /\ uploadMap' = [k \in Sessions |-> IF k = s THEN Opened(name) ELSE IF k \in Expired THEN NoEntry ELSE uploadMap[k]]
    /\ promised' = [promised EXCEPT ![s] = 0]
    /\ UNCHANGED <<uploadNow, request, committed, belongs>>

\* reclaim_idle, the background task.
ReclaimIdle ==
    /\ Expired # {}
    /\ uploadMap' = [k \in Sessions |-> IF k \in Expired THEN NoEntry ELSE uploadMap[k]]
    /\ UNCHANGED <<uploadNow, request, committed, belongs, promised>>

\* start_upload with a digest: one body, a stage of its own and no session.
StartMonolithic(c, name) ==
    /\ request[c] = Resting
    /\ request' = [request EXCEPT ![c] = [at |-> "body", kind |-> "post", session |-> NoSession, name |-> name,
                                          entry |-> Opened(name), next |-> 0]]
    /\ UNCHANGED <<uploadNow, uploadMap, committed, belongs, promised>>

--------------------------------
(* Working on a session                                                    *)

\* upload_status: the offset, and a sign of life.
UploadStatus(s, name) ==
    /\ s \in Open /\ uploadMap[s].name = name
    /\ PutBack(s, [uploadMap[s] EXCEPT !.active = uploadNow])
    /\ Told(s, uploadMap[s].offset)
    /\ UNCHANGED <<uploadNow, request, committed, belongs>>

\* cancel_upload: the session and its stage go.
CancelUpload(s, name) ==
    /\ s \in Open /\ uploadMap[s].name = name
    /\ PutBack(s, NoEntry)
    /\ UNCHANGED <<uploadNow, request, committed, belongs, promised>>

\* ChunkStart::continues_at for the claim of a chunk: an offset, none at all, or one that cannot be read.
NoClaim == -1
MalformedClaim == -2

ContinuesLeniently(claim, offset) == claim \in {NoClaim, MalformedClaim, offset}

ContinuesAt(claim, offset) == claim \in {NoClaim, offset}

\* patch_upload and finish_upload: take_session, then the contiguity check; a chunk out of order puts the
\* session back and is answered 416 with the offset.  PATCH also counts as activity.  The client sends the
\* units from `next` on: those it claimed or tried to claim; one that claims nothing is where it left off.
TakeSession(c, kind, s, name, claim, next) ==
    /\ request[c] = Resting
    /\ s \in Open /\ uploadMap[s].name = name
    /\ claim # MalformedClaim => next = IF claim = NoClaim THEN uploadMap[s].offset ELSE claim
    /\ LET entry == [uploadMap[s] EXCEPT !.active = IF kind = "patch" THEN uploadNow ELSE @]
       IN IF ContinuesAt(claim, entry.offset)
          THEN /\ request' = [request EXCEPT ![c] =
                     [at |-> "body", kind |-> kind, session |-> s, name |-> name,
                      entry |-> entry, next |-> next]]
               /\ PutBack(s, NoEntry)
               /\ UNCHANGED promised
          ELSE PutBack(s, entry) /\ Told(s, entry.offset) /\ UNCHANGED request
    /\ UNCHANGED <<uploadNow, committed, belongs>>

\* append_body, one chunk of the stream.
AppendChunk(c) ==
    /\ request[c].at = "body"
    /\ LET entry == request[c].entry
       IN /\ entry.offset < MaxBody
          /\ entry.offset + 1 <= UploadLimit
          /\ request' = [request EXCEPT
               ![c].entry = [entry EXCEPT !.units = IF entry.live THEN Append(@, request[c].next) ELSE @,
                                          !.offset = @ + 1],
               ![c].next = @ + 1]
    /\ UNCHANGED <<uploadNow, uploadMap, committed, belongs, promised>>

\* A chunk that passes the size limit is denied, and the session goes with it.
DenyChunk(c) ==
    /\ request[c].at = "body"
    /\ request[c].entry.offset + 1 > UploadLimit
    /\ RequestEnded(c)
    /\ UNCHANGED <<uploadNow, uploadMap, committed, belongs, promised>>

\* append_or_restore: the body breaks off, or the write of an accepted batch failed.  Either way the entry
\* goes back; after a failed write its writer has lost the stage.
Restore(c, entry) ==
    /\ request[c].at = "body"
    /\ IF request[c].session = NoSession THEN UNCHANGED uploadMap ELSE PutBack(request[c].session, entry)
    /\ RequestEnded(c)
    /\ UNCHANGED <<uploadNow, committed, belongs, promised>>

BodyBreaksOff(c) == Restore(c, request[c].entry)

AppendFails(c) == Restore(c, [request[c].entry EXCEPT !.units = <<>>, !.live = FALSE])

\* The end of a PATCH: back into the map, 202 with the offset.
FinishPatch(c) ==
    /\ request[c].at = "body" /\ request[c].kind = "patch"
    /\ PutBack(request[c].session, request[c].entry)
    /\ Told(request[c].session, request[c].entry.offset)
    /\ RequestEnded(c)
    /\ UNCHANGED <<uploadNow, committed, belongs>>

\* A PUT without a digest keeps the session.
FinishWithoutDigest(c) ==
    /\ request[c].at = "body" /\ request[c].kind = "put"
    /\ PutBack(request[c].session, request[c].entry)
    /\ RequestEnded(c)
    /\ UNCHANGED <<uploadNow, committed, belongs, promised>>

\* commit_blob: the stage is committed under the digest asked for or dropped; a writer without its stage
\* panics.  The session is gone in every case.
CommitUpload(c, digest) ==
    /\ request[c].at = "body" /\ request[c].kind \in {"put", "post"}
    /\ IF request[c].entry.live /\ digest = request[c].entry.units
       THEN /\ committed' = committed \cup {digest}
            /\ request' = [request EXCEPT ![c].at = "member"]
       ELSE RequestEnded(c) /\ UNCHANGED committed
    /\ UNCHANGED <<uploadNow, uploadMap, belongs, promised>>

\* record_blob_membership, a transaction of its own, after the commit.
RecordMembership(c) ==
    /\ request[c].at = "member"
    /\ \E ok \in BOOLEAN : belongs' = IF ok THEN belongs \cup {<<request[c].name, request[c].entry.units>>} ELSE belongs
    /\ RequestEnded(c)
    /\ UNCHANGED <<uploadNow, uploadMap, committed, promised>>

\* The client goes away and its request is dropped: a session it held goes with it.
Disconnect(c) ==
    /\ request[c].at = "body"
    /\ RequestEnded(c)
    /\ UNCHANGED <<uploadNow, uploadMap, committed, belongs, promised>>

UploadTick ==
    /\ uploadNow < MaxUploadNow
    /\ uploadNow' = uploadNow + 1
    /\ UNCHANGED <<uploadMap, request, committed, belongs, promised>>

Claims == {NoClaim, MalformedClaim} \cup (0..MaxBody)

UploadNext ==
    \/ UploadTick \/ ReclaimIdle
    \/ \E s \in Sessions, name \in UploadNames : UploadStatus(s, name) \/ CancelUpload(s, name)
    \/ \E c \in UploadClients :
         \/ BodyBreaksOff(c) \/ AppendFails(c) \/ DenyChunk(c) \/ FinishPatch(c) \/ FinishWithoutDigest(c)
         \/ RecordMembership(c) \/ Disconnect(c)
         \/ AppendChunk(c)
         \/ \E name \in UploadNames :
              \/ StartMonolithic(c, name)
              \/ \E s \in Sessions :
                   \/ StartSession(c, s, name)
                   \/ \E kind \in {"patch", "put"}, claim \in Claims, next \in 0..MaxBody :
                        TakeSession(c, kind, s, name, claim, next)
         \/ \E digest \in {request[c].entry.units, <<-1>>} : CommitUpload(c, digest)

UploadSpec == UploadInit /\ [][UploadNext]_uploadVars

--------------------------------
(* Properties                                                              *)

Entries == {uploadMap[s] : s \in Open} \cup {request[c].entry : c \in {k \in UploadClients : request[k].at = "body"}}

\* An offset a client was told is never taken back while its session is there; a stage holds as many units
\* as its offset says, in the order their chunks claimed; a session is in the map or with one request; and a
\* repository only has blobs that were committed (take_session, chunk_start, append_or_restore, commit_blob).
UploadsResume ==
    /\ \A s \in Open : uploadMap[s].offset >= promised[s]
    /\ \A e \in Entries : e.live =>
         /\ Len(e.units) = e.offset
         /\ \A i \in 1..Len(e.units) : e.units[i] = i - 1
    /\ Open \cap Held = {}
    /\ \A c, k \in UploadClients : c # k /\ request[c].session # NoSession => request[c].session # request[k].session
    /\ \A row \in belongs : row[2] \in committed

\* What the comment on append_or_restore says: a session put back after a fault can be resumed at its
\* recorded offset, so the units up to it are there.
RestoredIsWhole == \A s \in Open : Len(uploadMap[s].units) = uploadMap[s].offset

================================
