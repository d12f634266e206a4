---------------- MODULE FileDownload ----------------
(* Downloads of one file that is not in the blob store yet.

   The first request connects to the upstream under the single-flight gate
   of the digest, registers a transfer and spawns its pump, which runs by
   itself: it writes the body to a stage file, announces what has been
   flushed, and at the end verifies the digest and moves the stage into
   the store.  Requests that come meanwhile attach to the transfer and
   follow the stage file (streamers), or wait for the verdict (inspectors,
   and every request when the store has no local stage to follow).

   Sources: cache/download.rs of peryx-ecosystem-pypi, download.rs of
   peryx-driver, blob/store.rs and blob/backend.rs of peryx-storage.  A
   body is counted in chunks; the right one has BodyLen of them, any other
   fails the digest check. *)
EXTENDS Integers

CONSTANTS
    Streamers, Inspectors,  \* requests: stream_file, file_path
    BodyLen,                    \* chunks of the file
    FlushEvery,             \* FLUSH_EVERY, in chunks
    LocalTail,              \* whether readers can follow the stage (not on S3)
    Faults,                 \* whether the upstream, the disk and the pump may fail
    Disconnects,            \* whether a client may go away
    MaxTransfers            \* bound on the transfers of the file

Clients == Streamers \cup Inspectors
Transfers == 1..MaxTransfers
Unregistered == 0
Free == "free"
NoTransfer == [pc |-> "unused", good |-> FALSE, size |-> 0, written |-> 0, flushed |-> 0,
               shown |-> 0, stage |-> "none", result |-> "none", done |-> "none"]

ASSUME FileDownloadAssumption ==
    /\ Free \notin Clients
    /\ {BodyLen, FlushEvery} \subseteq Nat \ {0} /\ MaxTransfers \in Nat
    /\ {LocalTail, Faults, Disconnects} \subseteq BOOLEAN

VARIABLES
    blob,      \* the file is in the store
    gate,      \* holder of the digest's gate
    registry,  \* the transfer registered for the digest
    begun,     \* transfers begun so far
    xfer,      \* the transfers
    clientPc, handle, sent, file, outcome

client == <<clientPc, handle, sent, file, outcome>>
downloadVars == <<blob, gate, registry, begun, xfer, client>>

DownloadInit ==
    /\ blob = FALSE /\ gate = Free /\ registry = Unregistered /\ begun = 0
    /\ xfer = [t \in Transfers |-> NoTransfer]
    /\ clientPc = [c \in Clients |-> "idle"]
    /\ handle = [c \in Clients |-> Unregistered]
    /\ sent = [c \in Clients |-> 0]
    /\ file = [c \in Clients |-> "none"]
    /\ outcome = [c \in Clients |-> "none"]

--------------------------------
(* A request up to its transfer                                            *)

ClientGoes(c, label) == clientPc' = [clientPc EXCEPT ![c] = label]

End(c, how) ==
    /\ ClientGoes(c, "ended")
    /\ outcome' = [outcome EXCEPT ![c] = how]
    /\ UNCHANGED <<handle, sent, file>>

Release(c) == gate' = IF gate = c THEN Free ELSE gate

\* stream_file and file_path: a stored blob answers at once.
HeadRequest(c) ==
    /\ clientPc[c] = "idle"
    /\ IF blob THEN End(c, "cached") ELSE ClientGoes(c, "gate") /\ UNCHANGED <<handle, sent, file, outcome>>
    /\ UNCHANGED <<blob, gate, registry, begun, xfer>>

LockGate(c) ==
    /\ clientPc[c] = "gate" /\ gate = Free
    /\ gate' = c
    /\ ClientGoes(c, "head")
    /\ UNCHANGED <<blob, registry, begun, xfer, handle, sent, file, outcome>>

\* The store is asked again under the gate ...
HeadAgain(c) ==
    /\ clientPc[c] = "head"
    /\ IF blob THEN End(c, "cached") /\ Release(c)
       ELSE ClientGoes(c, "lookup") /\ UNCHANGED <<gate, handle, sent, file, outcome>>
    /\ UNCHANGED <<blob, registry, begun, xfer>>

\* Followers of the stage, and those who wait for the verdict.
Follow(c) == IF c \in Streamers /\ LocalTail THEN "tail" ELSE "wait"

Attach(c, t) ==
    /\ handle' = [handle EXCEPT ![c] = t]
    /\ ClientGoes(c, Follow(c))
    /\ Release(c)
    /\ UNCHANGED <<sent, file, outcome>>

\* Mutant: the gate is given back before the connection is made.
LookupReleases(c) ==
    /\ clientPc[c] = "lookup"
    /\ IF registry # Unregistered THEN Attach(c, registry)
       ELSE ClientGoes(c, "connect") /\ Release(c) /\ UNCHANGED <<handle, sent, file, outcome>>
    /\ UNCHANGED <<blob, registry, begun, xfer>>

\* ... and then the registry (existing_download), in a step of its own.
Lookup(c) ==
    /\ clientPc[c] = "lookup"
    /\ IF registry # Unregistered THEN Attach(c, registry)
       ELSE ClientGoes(c, "connect") /\ UNCHANGED <<gate, handle, sent, file, outcome>>
    /\ UNCHANGED <<blob, registry, begun, xfer>>

(* start_download: connect, open a stage, register, spawn the pump.  The   *)
(* upstream serves the right body, a longer or shorter one, or other bytes.*)
StartDownload(c) ==
    /\ clientPc[c] = "connect" /\ begun < MaxTransfers
    /\ begun' = begun + 1
    /\ registry' = begun + 1
    /\ \E size \in (IF Faults THEN 0..BodyLen + 1 ELSE {BodyLen}), good \in (IF Faults THEN BOOLEAN ELSE {TRUE}) :
         /\ good => size = BodyLen
         /\ xfer' = [xfer EXCEPT ![begun + 1] = [NoTransfer EXCEPT
                       !.pc = "drain", !.good = good, !.size = size, !.stage = "open"]]
    /\ Attach(c, begun + 1)
    /\ UNCHANGED blob

\* No source, an offline index, a refused connection, no stage; or the bound is reached.
StartFails(c) ==
    /\ clientPc[c] = "connect" /\ (Faults \/ begun = MaxTransfers)
    /\ Release(c)
    /\ End(c, "error")
    /\ UNCHANGED <<blob, registry, begun, xfer>>

--------------------------------
(* A request and its transfer                                              *)

\* wait_for_download, then the blob in the store.
Wait(c) ==
    /\ clientPc[c] = "wait"
    /\ LET done == xfer[handle[c]].done IN
         \/ /\ done = "ok" /\ blob
            /\ ClientGoes(c, "ended")
            /\ outcome' = [outcome EXCEPT ![c] = "complete"]
            /\ sent' = [sent EXCEPT ![c] = BodyLen]
            /\ UNCHANGED <<handle, file>>
         \/ /\ done = "err" \/ (done = "ok" /\ ~blob)
            /\ End(c, "error")
    /\ UNCHANGED <<blob, gate, registry, begun, xfer>>

\* tail_file: the stage while it has its name, the blob once the verdict is in.
TailOpen(c) ==
    LET t == xfer[handle[c]] IN
    /\ clientPc[c] = "tail" /\ sent[c] < t.shown /\ file[c] = "none"
    /\ \/ /\ t.stage = "open"
          /\ file' = [file EXCEPT ![c] = "stage"]
          /\ UNCHANGED <<clientPc, handle, sent, outcome>>
       \/ /\ t.stage # "open" /\ t.done = "ok" /\ blob
          /\ file' = [file EXCEPT ![c] = "blob"]
          /\ UNCHANGED <<clientPc, handle, sent, outcome>>
       \/ /\ t.stage # "open" /\ (t.done = "err" \/ (t.done = "ok" /\ ~blob))
          /\ End(c, "error")
    /\ UNCHANGED <<blob, gate, registry, begun, xfer>>

Available(c) == IF file[c] = "stage" THEN xfer[handle[c]].flushed ELSE BodyLen

\* Read on, up to what was announced; a file that is shorter breaks the stream off.
TailRead(c) ==
    LET announced == xfer[handle[c]].shown
        readable == IF Available(c) < announced THEN Available(c) ELSE announced
    IN /\ clientPc[c] = "tail" /\ sent[c] < announced /\ file[c] # "none"
       /\ \/ /\ Available(c) > sent[c]
             /\ \E upto \in sent[c] + 1..readable : sent' = [sent EXCEPT ![c] = upto]
             /\ UNCHANGED <<clientPc, handle, file, outcome>>
          \/ /\ Available(c) <= sent[c]
             /\ End(c, "truncated")
       /\ UNCHANGED <<blob, gate, registry, begun, xfer>>

\* Everything announced is sent: the verdict ends the stream.
TailEnd(c) ==
    LET t == xfer[handle[c]] IN
    /\ clientPc[c] = "tail" /\ sent[c] >= t.shown /\ t.done # "none"
    /\ End(c, IF t.done = "ok" THEN "complete" ELSE "error")
    /\ UNCHANGED <<blob, gate, registry, begun, xfer>>

Disconnect(c) ==
    /\ Disconnects /\ clientPc[c] \notin {"idle", "ended"}
    /\ Release(c)
    /\ End(c, "gone")
    /\ UNCHANGED <<blob, registry, begun, xfer>>

--------------------------------
(* The pump                                                                *)

Set(t, new) == xfer' = [xfer EXCEPT ![t] = new]

\* drain_to_blob: one chunk; the stage is flushed after every FlushEvery of them.
Write(t) ==
    /\ xfer[t].pc = "drain" /\ xfer[t].written < xfer[t].size
    /\ LET written == xfer[t].written + 1
       IN Set(t, [xfer[t] EXCEPT !.written = written,
                    !.pc = IF written - xfer[t].flushed >= FlushEvery THEN "flush" ELSE "drain"])
    /\ UNCHANGED <<blob, gate, registry, begun, client>>

\* The body ends: one more flush.
Eof(t) ==
    /\ xfer[t].pc = "drain" /\ xfer[t].written = xfer[t].size
    /\ Set(t, [xfer[t] EXCEPT !.pc = "flush_last"])
    /\ UNCHANGED <<blob, gate, registry, begun, client>>

Flush(t) ==
    /\ xfer[t].pc \in {"flush", "flush_last"}
    /\ Set(t, [xfer[t] EXCEPT !.flushed = xfer[t].written,
                 !.pc = IF xfer[t].pc = "flush" THEN "announce" ELSE "announce_last"])
    /\ UNCHANGED <<blob, gate, registry, begun, client>>

\* publish_flushed.
Announce(t) ==
    /\ xfer[t].pc \in {"announce", "announce_last"}
    /\ Set(t, [xfer[t] EXCEPT !.shown = xfer[t].flushed,
                 !.pc = IF xfer[t].pc = "announce" THEN "drain" ELSE "commit"])
    /\ UNCHANGED <<blob, gate, registry, begun, client>>

\* The upstream breaks off or a write fails: the stage is discarded.
Abort(t) ==
    /\ Faults /\ xfer[t].pc \in {"drain", "flush", "flush_last"}
    /\ Set(t, [xfer[t] EXCEPT !.stage = "gone", !.result = "err", !.pc = "remove"])
    /\ UNCHANGED <<blob, gate, registry, begun, client>>

(* commit: the digest of what was written decides; the stage moves to its  *)
(* place, or goes away when the blob is there already.                     *)
CommitTransfer(t) ==
    /\ xfer[t].pc = "commit"
    /\ \/ /\ xfer[t].good
          /\ Set(t, [xfer[t] EXCEPT !.result = "ok", !.pc = "remove", !.stage = IF blob THEN "gone" ELSE "moved"])
          /\ blob' = TRUE
       \/ /\ ~xfer[t].good \/ Faults
          /\ Set(t, [xfer[t] EXCEPT !.result = "err", !.pc = "remove", !.stage = "gone"])
          /\ UNCHANGED blob
    /\ UNCHANGED <<gate, registry, begun, client>>

\* finish, and the drop of a producer: out of the registry, if it is this transfer ...
Unregister(t) ==
    /\ xfer[t].pc = "remove"
    /\ registry' = IF registry = t THEN Unregistered ELSE registry
    /\ Set(t, [xfer[t] EXCEPT !.pc = "report"])
    /\ UNCHANGED <<blob, gate, begun, client>>

\* Mutant: nobody is told.
ReportNot(t) ==
    /\ xfer[t].pc = "report"
    /\ Set(t, [xfer[t] EXCEPT !.pc = "finished"])
    /\ UNCHANGED <<blob, gate, registry, begun, client>>

\* ... then the verdict, which wakes every follower.
Report(t) ==
    /\ xfer[t].pc = "report"
    /\ Set(t, [xfer[t] EXCEPT !.pc = "finished", !.done = xfer[t].result])
    /\ UNCHANGED <<blob, gate, registry, begun, client>>

ActiveTransfers == {"drain", "flush", "flush_last", "announce", "announce_last", "commit"}

\* The pump is dropped: its stage is discarded and its producer cleans up.
PumpDropped(t) ==
    /\ Faults /\ xfer[t].pc \in ActiveTransfers
    /\ Set(t, [xfer[t] EXCEPT !.stage = "gone", !.result = "err", !.pc = "remove"])
    /\ UNCHANGED <<blob, gate, registry, begun, client>>

--------------------------------
ClientStep(c) ==
    \/ HeadAgain(c) \/ Lookup(c) \/ StartDownload(c) \/ StartFails(c)
    \/ Wait(c) \/ TailOpen(c) \/ TailRead(c) \/ TailEnd(c)

Pump(t) ==
    \/ Write(t) \/ Eof(t) \/ Flush(t) \/ Announce(t) \/ Abort(t) \/ CommitTransfer(t)
    \/ Unregister(t) \/ Report(t)

Finished ==
    /\ \A c \in Clients : clientPc[c] \in {"idle", "ended"}
    /\ \A t \in Transfers : xfer[t].pc \in {"unused", "finished"}
    /\ UNCHANGED downloadVars

DownloadNext ==
    \/ \E c \in Clients : HeadRequest(c) \/ LockGate(c) \/ ClientStep(c) \/ Disconnect(c)
    \/ \E t \in Transfers : Pump(t) \/ PumpDropped(t)
    \/ Finished

DownloadSpec == DownloadInit /\ [][DownloadNext]_downloadVars

(* Requests are polled until they end, the gate is first-in first-out, and *)
(* the pump is a task of its own whose upstream calls time out.            *)
DownloadFairSpec ==
    /\ DownloadSpec
    /\ \A c \in Clients : WF_downloadVars(ClientStep(c)) /\ SF_downloadVars(LockGate(c))
    /\ \A t \in Transfers : WF_downloadVars(Pump(t))

--------------------------------
(* Properties                                                              *)

(* The variables have their types; what is announced has been flushed, and *)
(* what is flushed has been written.                                       *)
DownloadTypeOK ==
    /\ blob \in BOOLEAN /\ gate \in Clients \cup {Free}
    /\ registry \in 0..begun /\ begun \in 0..MaxTransfers
    /\ \A t \in Transfers :
         /\ xfer[t].written \in 0..xfer[t].size
         /\ xfer[t].flushed \in 0..xfer[t].written /\ xfer[t].shown \in 0..xfer[t].flushed
         /\ xfer[t].done \in {"none", "ok", "err"} /\ xfer[t].stage \in {"none", "open", "moved", "gone"}
    /\ \A c \in Clients :
         /\ clientPc[c] \in {"idle", "gate", "head", "lookup", "connect", "wait", "tail", "ended"}
         /\ handle[c] \in 0..begun /\ sent[c] \in 0..BodyLen + 1 /\ file[c] \in {"none", "stage", "blob"}

(* A response that ends normally is the whole file, verified: whatever was *)
(* streamed before the verdict, a body that fails the digest check breaks  *)
(* the response off.  And nobody who follows the stage finds it shorter    *)
(* than announced, although it is moved or discarded while they read.      *)
EndedIsComplete ==
    /\ DownloadTypeOK
    /\ \A c \in Clients :
         /\ outcome[c] = "complete" => sent[c] = BodyLen /\ xfer[handle[c]].good
         /\ outcome[c] # "truncated"

(* "connect gate serializes download registration": the registration never *)
(* finds another transfer, two transfers are never fetched at once, and a  *)
(* request attaches only to a transfer whose verdict is still to come, so  *)
(* that a retry after a failure is a new attempt.                          *)
OneTransfer ==
    /\ \A c \in Clients : clientPc[c] = "connect" => registry = Unregistered
    /\ \A t, u \in Transfers : xfer[t].pc \in ActiveTransfers /\ xfer[u].pc \in ActiveTransfers => t = u
    /\ registry # Unregistered => xfer[registry].done = "none"

(* Not met by the code, which asks the store before the registry: "racing  *)
(* clients attach instead of double-fetching" (cache/download.rs), that is *)
(* no transfer starts for a blob that is in the store.                     *)
FetchedOnce == [][begun' > begun => ~blob]_downloadVars

(* Every request ends, whether the transfer succeeds, fails or is dropped. *)
RequestsEnd == \A c \in Clients : clientPc[c] # "idle" ~> clientPc[c] = "ended"

\* Clients that share a transfer get the whole verified file or a broken response, and share one transfer.
TransfersAreSound == EndedIsComplete /\ OneTransfer

================================
