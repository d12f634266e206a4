---------------- MODULE ContentProofs ----------------
(* Proofs about the files an index serves, takes in and asks for:
   FileDownload, HostedFiles, Upstream, BlobStore and S3Store.

   A response that ends normally is the whole verified file, nobody finds
   the stage shorter than announced, and the gate keeps the transfers of a
   file apart.  A hosted file answers with what it was stored with and is
   never lost by its writers.  Requests to the sources of an index keep to
   their route, their retries and their permits.  A stored blob is the
   content of its digest, on the filesystem and in S3. *)
EXTENDS FileDownload, HostedFiles, Upstream, S3Store, FiniteSetTheorems, SequenceTheorems,
        WellFoundedInduction, TLAPS

--------------------------------
(* The inductive invariant.                                                 *)

Registered == ActiveTransfers \cup {"remove"}
PumpPlaces == Registered \cup {"unused", "report", "finished"}
Verdicts == {"none", "ok", "err"}
Xfers == [pc : PumpPlaces, good : BOOLEAN, size : 0..BodyLen + 1, written : Nat, flushed : Nat, shown : Nat,
          stage : {"none", "open", "moved", "gone"}, result : Verdicts, done : Verdicts]

ClientPlaces == {"idle", "gate", "head", "lookup", "connect", "wait", "tail", "ended"}
BodySources == {"none", "stage", "blob"}
Outcomes == {"none", "cached", "complete", "error", "truncated", "gone"}

DownloadTyped ==
    /\ blob \in BOOLEAN /\ gate \in Clients \cup {Free}
    /\ begun \in 0..MaxTransfers /\ registry \in 0..begun
    /\ xfer \in [Transfers -> Xfers]
    /\ clientPc \in [Clients -> ClientPlaces]
    /\ handle \in [Clients -> 0..begun]
    /\ sent \in [Clients -> 0..BodyLen + 1]
    /\ file \in [Clients -> BodySources]
    /\ outcome \in [Clients -> Outcomes]

(* What a transfer has announced is on disk, its last announcement is the whole body, and its verdict, once *)
(* given, is about that body.                                                                               *)
AnnouncedIsWritten(x) ==
    /\ x.shown <= x.flushed /\ x.flushed <= x.written /\ x.written <= x.size
    /\ x.good => x.size = BodyLen
    /\ x.pc \in {"flush_last", "announce_last", "commit"} => x.written = x.size
    /\ x.pc \in {"announce_last", "commit"} => x.flushed = x.written
    /\ x.pc = "commit" => x.shown = x.flushed
    /\ x.done = IF x.pc = "finished" THEN x.result ELSE "none"
    /\ x.result = "ok" => x.good /\ x.shown = BodyLen /\ x.pc \notin ActiveTransfers

TransferIsSound(t) ==
    /\ AnnouncedIsWritten(xfer[t])
    /\ xfer[t].pc = "unused" <=> t > begun
    /\ xfer[t].pc \in Registered <=> registry = t

(* A client in front of its transfer holds the gate; one that follows a transfer has sent no more than was *)
(* announced.                                                                                              *)
ClientIsSound(c) ==
    /\ clientPc[c] \in {"head", "lookup", "connect"} => gate = c
    /\ clientPc[c] = "connect" => registry = Unregistered
    /\ clientPc[c] \in {"wait", "tail"} => handle[c] # Unregistered
    /\ clientPc[c] \notin {"tail", "ended"} => sent[c] = 0 /\ file[c] = "none"
    /\ clientPc[c] # "ended" => outcome[c] = "none"
    /\ clientPc[c] = "tail" => sent[c] <= xfer[handle[c]].shown
    /\ file[c] = "blob" => handle[c] # Unregistered /\ xfer[handle[c]].result = "ok"
    /\ outcome[c] = "complete" => handle[c] # Unregistered /\ sent[c] = BodyLen /\ xfer[handle[c]].good
    /\ outcome[c] # "truncated"

DownloadInv ==
    /\ DownloadTyped
    /\ \A t \in Transfers : TransferIsSound(t)
    /\ \A c \in Clients : ClientIsSound(c)

LEMMA Bounds ==
    ASSUME DownloadTyped
    PROVE  /\ BodyLen \in Nat \ {0} /\ FlushEvery \in Nat \ {0} /\ MaxTransfers \in Nat
           /\ begun \in Nat /\ begun <= MaxTransfers
           /\ \A n \in 0..begun : n # Unregistered => n \in Transfers
BY FileDownloadAssumption DEF DownloadTyped, Transfers, Unregistered

LEMMA DownloadInvInit == DownloadInit => DownloadInv
<1> SUFFICES ASSUME DownloadInit PROVE DownloadInv OBVIOUS
<1> USE DEF DownloadInit
<1>1. BodyLen \in Nat \ {0} /\ MaxTransfers \in Nat BY FileDownloadAssumption
<1>2. NoTransfer \in Xfers BY <1>1 DEF NoTransfer, Xfers, PumpPlaces, Registered, ActiveTransfers, Verdicts
<1>3. DownloadTyped
  <2>1. 0 \in 0..begun /\ begun \in 0..MaxTransfers /\ 0 \in 0..BodyLen + 1 BY <1>1
  <2> QED BY <1>2, <2>1 DEF DownloadTyped, Unregistered, ClientPlaces, BodySources, Outcomes
<1>4. AnnouncedIsWritten(NoTransfer) BY DEF AnnouncedIsWritten, NoTransfer
<1>5. ASSUME NEW t \in Transfers PROVE TransferIsSound(t)
  BY <1>1, <1>4 DEF TransferIsSound, NoTransfer, Transfers, Unregistered, Registered, ActiveTransfers
<1>6. ASSUME NEW c \in Clients PROVE ClientIsSound(c) BY DEF ClientIsSound
<1> QED BY <1>3, <1>5, <1>6 DEF DownloadInv

(* The property of the runs follows. *)
LEMMA DownloadInvSound == DownloadInv => TransfersAreSound
<1> SUFFICES ASSUME DownloadInv PROVE TransfersAreSound OBVIOUS
<1>1. DownloadTyped BY DEF DownloadInv
<1>2. ASSUME NEW t \in Transfers
      PROVE  /\ xfer[t].written \in 0..xfer[t].size
             /\ xfer[t].flushed \in 0..xfer[t].written /\ xfer[t].shown \in 0..xfer[t].flushed
             /\ xfer[t].done \in {"none", "ok", "err"} /\ xfer[t].stage \in {"none", "open", "moved", "gone"}
  <2>1. xfer[t] \in Xfers BY <1>1 DEF DownloadTyped
  <2>2. AnnouncedIsWritten(xfer[t]) BY DEF DownloadInv, TransferIsSound
  <2>3. xfer[t].size \in Nat BY <1>1, <2>1, Bounds DEF Xfers
  <2> QED BY <2>1, <2>2, <2>3 DEF Xfers, AnnouncedIsWritten, Verdicts
<1>3. DownloadTypeOK BY <1>1, <1>2 DEF DownloadTyped, DownloadTypeOK, ClientPlaces, BodySources
<1>4. EndedIsComplete BY <1>3 DEF EndedIsComplete, DownloadInv, ClientIsSound
<1>5. OneTransfer
  <2>1. \A t, u \in Transfers : xfer[t].pc \in ActiveTransfers /\ xfer[u].pc \in ActiveTransfers => t = u
    BY DEF DownloadInv, TransferIsSound, Registered
  <2>2. registry # Unregistered => xfer[registry].done = "none"
    <3> SUFFICES ASSUME registry # Unregistered PROVE xfer[registry].done = "none" OBVIOUS
    <3>1. registry \in Transfers BY <1>1, Bounds DEF DownloadTyped
    <3>2. TransferIsSound(registry) BY <3>1 DEF DownloadInv
    <3>3. xfer[registry].pc \in Registered BY <3>2 DEF TransferIsSound
    <3> QED BY <3>2, <3>3 DEF TransferIsSound, AnnouncedIsWritten, Registered, ActiveTransfers
  <2> QED BY <2>1, <2>2 DEF OneTransfer, DownloadInv, ClientIsSound
<1> QED BY <1>4, <1>5 DEF TransfersAreSound

--------------------------------
(* Steps of a client. *)

(* Where a step leaves the variables of its client. *)
Becomes(c, pc, h, s, f, o) ==
    /\ clientPc' = [clientPc EXCEPT ![c] = pc] /\ handle' = [handle EXCEPT ![c] = h]
    /\ sent' = [sent EXCEPT ![c] = s] /\ file' = [file EXCEPT ![c] = f]
    /\ outcome' = [outcome EXCEPT ![c] = o]

LEMMA BecomesEffect ==
    ASSUME DownloadTyped, NEW c \in Clients, NEW n \in Nat, begun <= n,
           NEW pc \in ClientPlaces, NEW h \in 0..n, NEW s \in 0..BodyLen + 1, NEW f \in BodySources, NEW o \in Outcomes,
           Becomes(c, pc, h, s, f, o)
    PROVE  /\ clientPc' \in [Clients -> ClientPlaces] /\ handle' \in [Clients -> 0..n]
           /\ sent' \in [Clients -> 0..BodyLen + 1] /\ file' \in [Clients -> BodySources]
           /\ outcome' \in [Clients -> Outcomes]
           /\ clientPc'[c] = pc /\ handle'[c] = h /\ sent'[c] = s /\ file'[c] = f /\ outcome'[c] = o
           /\ \A x \in Clients : x # c =>
                 /\ clientPc'[x] = clientPc[x] /\ handle'[x] = handle[x] /\ sent'[x] = sent[x]
                 /\ file'[x] = file[x] /\ outcome'[x] = outcome[x]
<1>1. handle \in [Clients -> 0..n]
  <2>1. begun \in Nat BY Bounds
  <2>2. \A x \in Clients : handle[x] \in 0..n BY <2>1 DEF DownloadTyped
  <2> QED BY <2>2 DEF DownloadTyped
<1> QED BY <1>1 DEF DownloadTyped, Becomes

(* A client moves; the transfers, the registry and the store stay. *)
LEMMA ClientMoves ==
    ASSUME DownloadInv, NEW c \in Clients,
           NEW pc \in ClientPlaces, NEW h \in 0..begun, NEW s \in 0..BodyLen + 1, NEW f \in BodySources, NEW o \in Outcomes,
           Becomes(c, pc, h, s, f, o), UNCHANGED <<blob, registry, begun, xfer>>,
           gate' \in Clients \cup {Free}, gate' = gate \/ gate \in {c, Free},
           pc \in {"head", "lookup", "connect"} => gate' = c,
           pc = "connect" => registry = Unregistered,
           pc \in {"wait", "tail"} => h # Unregistered,
           pc \notin {"tail", "ended"} => s = 0 /\ f = "none",
           pc # "ended" => o = "none",
           pc = "tail" => s <= xfer[h].shown,
           f = "blob" => h # Unregistered /\ xfer[h].result = "ok",
           o = "complete" => h # Unregistered /\ s = BodyLen /\ xfer[h].good,
           o # "truncated"
    PROVE  DownloadInv'
<1>1. DownloadTyped /\ begun \in Nat BY Bounds DEF DownloadInv
<1>2. /\ clientPc' \in [Clients -> ClientPlaces] /\ handle' \in [Clients -> 0..begun]
      /\ sent' \in [Clients -> 0..BodyLen + 1] /\ file' \in [Clients -> BodySources]
      /\ outcome' \in [Clients -> Outcomes]
      /\ clientPc'[c] = pc /\ handle'[c] = h /\ sent'[c] = s /\ file'[c] = f /\ outcome'[c] = o
      /\ \A x \in Clients : x # c =>
            /\ clientPc'[x] = clientPc[x] /\ handle'[x] = handle[x] /\ sent'[x] = sent[x]
            /\ file'[x] = file[x] /\ outcome'[x] = outcome[x]
  BY <1>1, BecomesEffect
<1>3. DownloadTyped' BY <1>1, <1>2 DEF DownloadTyped
<1>4. \A t \in Transfers : TransferIsSound(t)' BY DEF DownloadInv, TransferIsSound
<1>5. ASSUME NEW x \in Clients PROVE ClientIsSound(x)'
  <2>1. CASE x = c BY <1>2, <2>1 DEF ClientIsSound
  <2>2. CASE x # c
    <3>1. ClientIsSound(x) BY DEF DownloadInv
    <3>2. c # Free /\ x # Free BY FileDownloadAssumption
    <3> QED BY <1>2, <2>2, <3>1, <3>2 DEF ClientIsSound
  <2> QED BY <2>1, <2>2
<1> QED BY <1>3, <1>4, <1>5 DEF DownloadInv

(* What a client knows of its transfer. *)
LEMMA FollowedTransfer ==
    ASSUME DownloadInv, NEW c \in Clients, clientPc[c] \in {"wait", "tail"}
    PROVE  /\ handle[c] \in Transfers /\ xfer[handle[c]] \in Xfers
           /\ AnnouncedIsWritten(xfer[handle[c]])
           /\ xfer[handle[c]].shown <= xfer[handle[c]].size
<1>1. DownloadTyped BY DEF DownloadInv
<1>2. ClientIsSound(c) BY DEF DownloadInv
<1>3. handle[c] \in 0..begun /\ handle[c] # Unregistered BY <1>1, <1>2 DEF DownloadTyped, ClientIsSound
<1>4. handle[c] \in Transfers BY <1>1, <1>3, Bounds
<1>5. xfer[handle[c]] \in Xfers BY <1>1, <1>4 DEF DownloadTyped
<1>6. AnnouncedIsWritten(xfer[handle[c]]) BY <1>4 DEF DownloadInv, TransferIsSound
<1>7. xfer[handle[c]].size \in Nat BY <1>1, <1>5, Bounds DEF Xfers
<1> QED BY <1>4, <1>5, <1>6, <1>7 DEF AnnouncedIsWritten, Xfers

LEMMA ClientTypes ==
    ASSUME DownloadInv, NEW c \in Clients
    PROVE  /\ clientPc[c] \in ClientPlaces /\ handle[c] \in 0..begun /\ sent[c] \in 0..BodyLen + 1
           /\ file[c] \in BodySources /\ outcome[c] \in Outcomes /\ gate \in Clients \cup {Free}
           /\ sent[c] \in Nat /\ ClientIsSound(c)
<1>1. DownloadTyped BY DEF DownloadInv
<1> QED BY <1>1, Bounds DEF DownloadInv, DownloadTyped

(* Moving on without a word about the transfer. *)
LEMMA OnlyPlace ==
    ASSUME DownloadInv, NEW c \in Clients, NEW pc, ClientGoes(c, pc), UNCHANGED <<handle, sent, file, outcome>>
    PROVE  Becomes(c, pc, handle[c], sent[c], file[c], outcome[c])
<1>1. DownloadTyped BY DEF DownloadInv
<1> QED BY <1>1 DEF DownloadTyped, ClientGoes, Becomes

LEMMA EndsThus ==
    ASSUME DownloadInv, NEW c \in Clients, NEW how, End(c, how)
    PROVE  Becomes(c, "ended", handle[c], sent[c], file[c], how)
<1>1. DownloadTyped BY DEF DownloadInv
<1> QED BY <1>1 DEF DownloadTyped, ClientGoes, End, Becomes

(* A request that ends without a body. *)
LEMMA EndStep ==
    ASSUME DownloadInv, NEW c \in Clients, NEW how \in {"cached", "error", "gone"}, End(c, how),
           UNCHANGED <<blob, registry, begun, xfer>>, gate' = gate \/ Release(c)
    PROVE  DownloadInv'
<1>1. Becomes(c, "ended", handle[c], sent[c], file[c], how) BY EndsThus
<1>2. /\ handle[c] \in 0..begun /\ sent[c] \in 0..BodyLen + 1 /\ file[c] \in BodySources /\ ClientIsSound(c)
      /\ gate \in Clients \cup {Free}
  BY ClientTypes
<1>3. gate' \in Clients \cup {Free} /\ (gate' = gate \/ gate \in {c, Free}) BY <1>2 DEF Release
<1>4. "ended" \in ClientPlaces /\ how \in Outcomes BY DEF ClientPlaces, Outcomes
<1>5. file[c] = "blob" => handle[c] # Unregistered /\ xfer[handle[c]].result = "ok" BY <1>2 DEF ClientIsSound
<1> QED BY <1>1, <1>2, <1>3, <1>4, <1>5, ClientMoves

(* A request on its way to a transfer, with or without the gate. *)
LEMMA ApproachStep ==
    ASSUME DownloadInv, NEW c \in Clients, clientPc[c] \in {"idle", "gate", "head", "lookup"},
           NEW pc \in {"gate", "head", "lookup", "connect"},
           ClientGoes(c, pc), UNCHANGED <<handle, sent, file, outcome, blob, registry, begun, xfer>>,
           gate' \in {gate, c}, gate' = gate \/ gate = Free,
           pc \in {"head", "lookup", "connect"} => gate' = c,
           pc = "connect" => registry = Unregistered
    PROVE  DownloadInv'
<1>1. Becomes(c, pc, handle[c], sent[c], file[c], outcome[c]) BY OnlyPlace
<1>2. /\ handle[c] \in 0..begun /\ sent[c] \in 0..BodyLen + 1 /\ file[c] \in BodySources /\ ClientIsSound(c)
      /\ outcome[c] \in Outcomes /\ gate \in Clients \cup {Free}
  BY ClientTypes
<1>3. pc \in ClientPlaces BY DEF ClientPlaces
<1>4. sent[c] = 0 /\ file[c] = "none" /\ outcome[c] = "none" BY <1>2 DEF ClientIsSound
<1>5. pc \notin {"wait", "tail"} /\ gate' \in Clients \cup {Free} /\ (gate' = gate \/ gate \in {c, Free}) BY <1>2
<1> QED BY <1>1, <1>2, <1>3, <1>4, <1>5, ClientMoves

LEMMA HeadRequestStep ==
    ASSUME DownloadInv, NEW c \in Clients, HeadRequest(c)
    PROVE  DownloadInv'
<1>1. CASE End(c, "cached") BY <1>1, EndStep DEF HeadRequest
<1>2. CASE ClientGoes(c, "gate") /\ UNCHANGED <<handle, sent, file, outcome>> BY <1>2, ApproachStep DEF HeadRequest
<1> QED BY <1>1, <1>2 DEF HeadRequest

LEMMA LockGateStep ==
    ASSUME DownloadInv, NEW c \in Clients, LockGate(c)
    PROVE  DownloadInv'
BY ApproachStep DEF LockGate

LEMMA HeadAgainStep ==
    ASSUME DownloadInv, NEW c \in Clients, HeadAgain(c)
    PROVE  DownloadInv'
<1>1. CASE End(c, "cached") /\ Release(c) BY <1>1, EndStep DEF HeadAgain
<1>2. CASE ClientGoes(c, "lookup") /\ UNCHANGED <<gate, handle, sent, file, outcome>>
  <2>1. gate = c BY ClientTypes DEF HeadAgain, ClientIsSound
  <2> QED BY <1>2, <2>1, ApproachStep DEF HeadAgain
<1> QED BY <1>1, <1>2 DEF HeadAgain

(* A client attaches to a transfer: its stage from the start, or its verdict. *)
LEMMA AttachThus ==
    ASSUME DownloadInv, NEW c \in Clients, NEW t, Attach(c, t)
    PROVE  /\ Becomes(c, Follow(c), t, sent[c], file[c], outcome[c])
           /\ Follow(c) \in {"tail", "wait"}
<1>1. DownloadTyped BY DEF DownloadInv
<1> QED BY <1>1 DEF DownloadTyped, ClientGoes, Attach, Becomes, Follow

LEMMA LookupStep ==
    ASSUME DownloadInv, NEW c \in Clients, Lookup(c)
    PROVE  DownloadInv'
<1>1. /\ clientPc[c] = "lookup" /\ UNCHANGED <<blob, registry, begun, xfer>> BY DEF Lookup
<1>2. DownloadTyped /\ ClientIsSound(c) BY DEF DownloadInv
<1>3. CASE registry # Unregistered /\ Attach(c, registry)
  <2>1. registry \in Transfers /\ registry \in 0..begun BY <1>2, <1>3, Bounds DEF DownloadTyped
  <2>2. TransferIsSound(registry) /\ xfer[registry] \in Xfers BY <1>2, <2>1 DEF DownloadInv, DownloadTyped
  <2>3. sent[c] = 0 /\ file[c] = "none" /\ outcome[c] = "none" /\ 0 <= xfer[registry].shown
    BY <1>1, <1>2, <2>2 DEF ClientIsSound, Xfers
  <2>4. /\ sent[c] \in 0..BodyLen + 1 /\ file[c] \in BodySources /\ outcome[c] \in Outcomes /\ gate = c
        /\ gate' \in Clients \cup {Free}
    BY <1>1, <1>2, <1>3, ClientTypes DEF ClientIsSound, Attach, Release
  <2>5. Becomes(c, Follow(c), registry, sent[c], file[c], outcome[c]) /\ Follow(c) \in {"tail", "wait"}
    BY <1>3, AttachThus
  <2>6. Follow(c) \in ClientPlaces BY <2>5 DEF ClientPlaces
  <2> QED BY <1>1, <1>3, <2>1, <2>3, <2>4, <2>5, <2>6, ClientMoves
<1>4. CASE ClientGoes(c, "connect") /\ registry = Unregistered /\ UNCHANGED <<gate, handle, sent, file, outcome>>
  <2>1. gate = c BY <1>1, <1>2 DEF ClientIsSound
  <2> QED BY <1>1, <1>4, <2>1, ApproachStep
<1> QED BY <1>3, <1>4 DEF Lookup

(* The gate holder connects: the only transfer of the file begins. *)
LEMMA StartDownloadStep ==
    ASSUME DownloadInv, NEW c \in Clients, StartDownload(c)
    PROVE  DownloadInv'
<1>1. /\ clientPc[c] = "connect" /\ begun < MaxTransfers /\ begun' = begun + 1 /\ registry' = begun + 1
      /\ UNCHANGED blob /\ Attach(c, begun + 1)
  BY DEF StartDownload
<1>2. DownloadTyped /\ ClientIsSound(c) /\ begun \in Nat /\ MaxTransfers \in Nat /\ BodyLen \in Nat \ {0}
  BY Bounds DEF DownloadInv
<1> PICK n \in Nat : n = begun + 1 BY <1>2
<1>3. n \in Transfers /\ n \in 0..n /\ n # Unregistered BY <1>1, <1>2 DEF Transfers, Unregistered
<1>4. gate = c /\ registry = Unregistered /\ sent[c] = 0 /\ file[c] = "none" /\ outcome[c] = "none"
  BY <1>1, <1>2 DEF ClientIsSound
<1> PICK new : /\ new \in Xfers /\ new.pc = "drain" /\ new.shown = 0 /\ AnnouncedIsWritten(new)
               /\ xfer' = [xfer EXCEPT ![n] = new]
  <2>1. PICK size \in 0..BodyLen + 1, good \in BOOLEAN :
          /\ good => size = BodyLen
          /\ xfer' = [xfer EXCEPT ![n] = [NoTransfer EXCEPT
                        !.pc = "drain", !.good = good, !.size = size, !.stage = "open"]]
    <3>1. PICK size \in (IF Faults THEN 0..BodyLen + 1 ELSE {BodyLen}), good \in (IF Faults THEN BOOLEAN ELSE {TRUE}) :
            /\ good => size = BodyLen
            /\ xfer' = [xfer EXCEPT ![begun + 1] = [NoTransfer EXCEPT
                          !.pc = "drain", !.good = good, !.size = size, !.stage = "open"]]
      BY DEF StartDownload
    <3>2. size \in 0..BodyLen + 1 /\ good \in BOOLEAN
      <4>1. CASE Faults BY <4>1
      <4>2. CASE ~Faults BY <1>2, <4>2
      <4> QED BY <4>1, <4>2
    <3> QED BY <3>1, <3>2
  <2>5. PICK new : new = [NoTransfer EXCEPT !.pc = "drain", !.good = good, !.size = size, !.stage = "open"] OBVIOUS
  <2>2. new = [pc |-> "drain", good |-> good, size |-> size, written |-> 0, flushed |-> 0,
               shown |-> 0, stage |-> "open", result |-> "none", done |-> "none"]
    BY <2>5 DEF NoTransfer
  <2>3. new \in Xfers BY <1>2, <2>2 DEF Xfers, PumpPlaces, Registered, ActiveTransfers, Verdicts
  <2>4. AnnouncedIsWritten(new)
    <3>1. /\ new.pc = "drain" /\ new.size = size /\ new.written = 0 /\ new.flushed = 0
          /\ new.shown = 0 /\ new.result = "none" /\ new.done = "none"
      BY <2>2
    <3>2. size \in Nat BY <1>2
    <3>3. new.good => new.size = BodyLen BY <2>1, <2>2, Zenon
    <3> QED BY <3>1, <3>2, <3>3 DEF AnnouncedIsWritten
  <2>6. xfer' = [xfer EXCEPT ![n] = new] BY <2>1, <2>5, Zenon
  <2>7. new.pc = "drain" /\ new.shown = 0 BY <2>2
  <2> QED BY <2>3, <2>4, <2>6, <2>7, Zenon
<1>5. /\ xfer' \in [Transfers -> Xfers] /\ xfer'[n] = new
      /\ \A t \in Transfers : t # n => xfer'[t] = xfer[t]
  BY <1>2, <1>3 DEF DownloadTyped
<1>6. Becomes(c, Follow(c), n, sent[c], file[c], outcome[c]) /\ Follow(c) \in {"tail", "wait"} BY <1>1, AttachThus
<1>7. /\ sent[c] \in 0..BodyLen + 1 /\ file[c] \in BodySources /\ outcome[c] \in Outcomes
      /\ Follow(c) \in ClientPlaces
  BY <1>6, ClientTypes DEF ClientPlaces
<1>8. /\ clientPc' \in [Clients -> ClientPlaces] /\ handle' \in [Clients -> 0..n]
      /\ sent' \in [Clients -> 0..BodyLen + 1] /\ file' \in [Clients -> BodySources]
      /\ outcome' \in [Clients -> Outcomes]
      /\ clientPc'[c] \in {"tail", "wait"} /\ handle'[c] = n /\ sent'[c] = 0 /\ file'[c] = "none"
      /\ outcome'[c] = "none"
      /\ \A x \in Clients : x # c =>
            /\ clientPc'[x] = clientPc[x] /\ handle'[x] = handle[x] /\ sent'[x] = sent[x]
            /\ file'[x] = file[x] /\ outcome'[x] = outcome[x]
  BY <1>2, <1>3, <1>4, <1>6, <1>7, BecomesEffect
<1>9. gate' = Free BY <1>1, <1>4 DEF Attach, Release
<1>10. DownloadTyped'
  <2>1. begun' \in 0..MaxTransfers /\ registry' \in 0..begun' BY <1>1, <1>2
  <2> QED BY <1>1, <1>2, <1>5, <1>8, <1>9, <2>1 DEF DownloadTyped
<1>11. ASSUME NEW t \in Transfers PROVE TransferIsSound(t)'
  <2>1. CASE t = n BY <1>1, <1>2, <1>5, <2>1 DEF TransferIsSound, Registered, ActiveTransfers
  <2>2. CASE t # n
    <3>1. TransferIsSound(t) /\ t \in Nat /\ t # Unregistered BY DEF DownloadInv, Transfers, Unregistered
    <3>2. xfer[t].pc \notin Registered BY <1>4, <3>1 DEF TransferIsSound
    <3> QED BY <1>1, <1>2, <1>5, <2>2, <3>1, <3>2 DEF TransferIsSound
  <2> QED BY <2>1, <2>2
<1>12. ASSUME NEW x \in Clients PROVE ClientIsSound(x)'
  <2>1. CASE x = c BY <1>3, <1>5, <1>8, <2>1 DEF ClientIsSound
  <2>2. CASE x # c
    <3>1. ClientIsSound(x) /\ handle[x] \in 0..begun BY <1>2 DEF DownloadInv, DownloadTyped
    <3>2. handle[x] # Unregistered => handle[x] \in Transfers /\ handle[x] # n BY <1>2, <3>1, Bounds
    <3>3. clientPc[x] \notin {"head", "lookup", "connect"} BY <1>4, <2>2, <3>1 DEF ClientIsSound
    <3> QED BY <1>5, <1>8, <2>2, <3>1, <3>2, <3>3 DEF ClientIsSound
  <2> QED BY <2>1, <2>2
<1> QED BY <1>10, <1>11, <1>12 DEF DownloadInv

LEMMA EndingSteps ==
    ASSUME DownloadInv, NEW c \in Clients, StartFails(c) \/ Disconnect(c)
    PROVE  DownloadInv'
BY EndStep DEF StartFails, Disconnect

(* The verdict is in: the blob, or an error. *)
LEMMA WaitStep ==
    ASSUME DownloadInv, NEW c \in Clients, Wait(c)
    PROVE  DownloadInv'
<1>1. clientPc[c] = "wait" /\ UNCHANGED <<blob, gate, registry, begun, xfer>> BY DEF Wait
<1>2. CASE End(c, "error") BY <1>1, <1>2, EndStep
<1>3. CASE /\ xfer[handle[c]].done = "ok" /\ ClientGoes(c, "ended")
           /\ outcome' = [outcome EXCEPT ![c] = "complete"] /\ sent' = [sent EXCEPT ![c] = BodyLen]
           /\ UNCHANGED <<handle, file>>
  <2>1. /\ handle[c] \in 0..begun /\ file[c] \in BodySources /\ gate \in Clients \cup {Free} /\ ClientIsSound(c)
        /\ DownloadTyped /\ BodyLen \in Nat
    BY ClientTypes, Bounds DEF DownloadInv
  <2>2. Becomes(c, "ended", handle[c], BodyLen, file[c], "complete")
    BY <1>3, <2>1 DEF Becomes, ClientGoes, DownloadTyped
  <2>3. handle[c] # Unregistered /\ file[c] = "none" BY <1>1, <2>1 DEF ClientIsSound
  <2>4. AnnouncedIsWritten(xfer[handle[c]]) BY <1>1, FollowedTransfer
  <2>5. xfer[handle[c]].good BY <1>3, <2>4 DEF AnnouncedIsWritten
  <2>6. "ended" \in ClientPlaces /\ "complete" \in Outcomes /\ BodyLen \in 0..BodyLen + 1
    BY <2>1 DEF ClientPlaces, Outcomes
  <2> QED BY <1>1, <2>1, <2>2, <2>3, <2>5, <2>6, ClientMoves
<1> QED BY <1>2, <1>3 DEF Wait

(* A client that follows the stage moves on without ending. *)
LEMMA TailMoves ==
    ASSUME DownloadInv, NEW c \in Clients, clientPc[c] = "tail", NEW s \in Nat, NEW f \in BodySources,
           s <= xfer[handle[c]].shown, f = "blob" => xfer[handle[c]].result = "ok",
           sent' = [sent EXCEPT ![c] = s], file' = [file EXCEPT ![c] = f],
           UNCHANGED <<clientPc, handle, outcome, blob, gate, registry, begun, xfer>>
    PROVE  DownloadInv'
<1>1. /\ handle[c] \in 0..begun /\ outcome[c] \in Outcomes /\ gate \in Clients \cup {Free} /\ ClientIsSound(c)
      /\ DownloadTyped /\ BodyLen \in Nat
  BY ClientTypes, Bounds DEF DownloadInv
<1>2. Becomes(c, "tail", handle[c], s, f, outcome[c]) BY <1>1 DEF Becomes, DownloadTyped
<1>3. s \in 0..BodyLen + 1
  <2>1. xfer[handle[c]].shown <= xfer[handle[c]].size /\ xfer[handle[c]] \in Xfers BY FollowedTransfer
  <2> QED BY <1>1, <2>1 DEF Xfers
<1>4. handle[c] # Unregistered BY <1>1 DEF ClientIsSound
<1>5. outcome[c] = "none" BY <1>1 DEF ClientIsSound
<1>6. "tail" \in ClientPlaces BY DEF ClientPlaces
<1> QED BY <1>1, <1>2, <1>3, <1>4, <1>5, <1>6, ClientMoves

LEMMA TailOpenStep ==
    ASSUME DownloadInv, NEW c \in Clients, TailOpen(c)
    PROVE  DownloadInv'
<1>1. clientPc[c] = "tail" /\ sent[c] < xfer[handle[c]].shown /\ UNCHANGED <<blob, gate, registry, begun, xfer>>
  BY DEF TailOpen
<1>2. DownloadTyped /\ sent[c] \in Nat /\ xfer[handle[c]] \in Xfers /\ AnnouncedIsWritten(xfer[handle[c]])
  BY <1>1, ClientTypes, FollowedTransfer DEF DownloadInv
<1>3. ASSUME NEW f \in {"stage", "blob"}, f = "blob" => xfer[handle[c]].done = "ok",
             file' = [file EXCEPT ![c] = f], UNCHANGED <<clientPc, handle, sent, outcome>>
      PROVE  DownloadInv'
  <2>1. sent' = [sent EXCEPT ![c] = sent[c]] BY <1>2, <1>3 DEF DownloadTyped
  <2>2. f = "blob" => xfer[handle[c]].result = "ok" BY <1>2, <1>3 DEF AnnouncedIsWritten
  <2>3. f \in BodySources /\ sent[c] <= xfer[handle[c]].shown BY <1>1, <1>2 DEF BodySources, Xfers
  <2> QED BY <1>1, <1>2, <1>3, <2>1, <2>2, <2>3, TailMoves
<1>4. CASE End(c, "error") BY <1>1, <1>4, EndStep
<1> QED BY <1>3, <1>4 DEF TailOpen

(* No reader finds the file shorter than announced. *)
LEMMA NoTruncation ==
    ASSUME DownloadInv, NEW c \in Clients, clientPc[c] = "tail", sent[c] < xfer[handle[c]].shown, file[c] # "none"
    PROVE  sent[c] < Available(c) /\ Available(c) \in Nat /\ xfer[handle[c]].shown \in Nat
<1>1. /\ DownloadTyped /\ sent[c] \in Nat /\ xfer[handle[c]] \in Xfers /\ AnnouncedIsWritten(xfer[handle[c]])
      /\ file[c] \in BodySources /\ ClientIsSound(c) /\ BodyLen \in Nat
  BY ClientTypes, FollowedTransfer, Bounds DEF DownloadInv
<1>2. xfer[handle[c]].shown \in Nat /\ xfer[handle[c]].flushed \in Nat BY <1>1 DEF Xfers
<1>3. CASE file[c] = "stage" BY <1>1, <1>2, <1>3 DEF Available, AnnouncedIsWritten
<1>4. CASE file[c] = "blob"
  <2>1. xfer[handle[c]].shown = BodyLen BY <1>1, <1>4 DEF ClientIsSound, AnnouncedIsWritten
  <2> QED BY <1>1, <1>2, <1>4, <2>1 DEF Available
<1> QED BY <1>1, <1>3, <1>4 DEF BodySources

LEMMA TailReadStep ==
    ASSUME DownloadInv, NEW c \in Clients, TailRead(c)
    PROVE  DownloadInv'
<1>1. /\ clientPc[c] = "tail" /\ sent[c] < xfer[handle[c]].shown /\ file[c] # "none"
      /\ UNCHANGED <<blob, gate, registry, begun, xfer>>
  BY DEF TailRead
<1>2. /\ DownloadTyped /\ sent[c] \in Nat /\ file[c] \in BodySources /\ ClientIsSound(c) BY ClientTypes DEF DownloadInv
<1>3. sent[c] < Available(c) /\ Available(c) \in Nat /\ xfer[handle[c]].shown \in Nat BY <1>1, NoTruncation
<1>4. /\ UNCHANGED <<clientPc, handle, file, outcome>>
      /\ \E upto \in sent[c] + 1..(IF Available(c) < xfer[handle[c]].shown THEN Available(c) ELSE xfer[handle[c]].shown) :
           sent' = [sent EXCEPT ![c] = upto]
  <2>1. ~(Available(c) <= sent[c]) BY <1>2, <1>3
  <2> QED BY <2>1 DEF TailRead
<1>5. PICK upto \in Nat : upto <= xfer[handle[c]].shown /\ sent' = [sent EXCEPT ![c] = upto]
  <2> PICK a \in Nat, b \in Nat : a = Available(c) /\ b = xfer[handle[c]].shown BY <1>3
  <2>1. PICK upto \in sent[c] + 1..(IF a < b THEN a ELSE b) : sent' = [sent EXCEPT ![c] = upto] BY <1>4
  <2>2. upto \in Nat /\ upto <= b BY <1>2, <2>1
  <2> QED BY <2>1, <2>2
<1>6. file' = [file EXCEPT ![c] = file[c]] BY <1>2, <1>4 DEF DownloadTyped
<1>7. file[c] = "blob" => xfer[handle[c]].result = "ok" BY <1>2 DEF ClientIsSound
<1> QED BY <1>1, <1>2, <1>4, <1>5, <1>6, <1>7, TailMoves

LEMMA TailEndStep ==
    ASSUME DownloadInv, NEW c \in Clients, TailEnd(c)
    PROVE  DownloadInv'
<1>1. /\ clientPc[c] = "tail" /\ sent[c] >= xfer[handle[c]].shown
      /\ UNCHANGED <<blob, gate, registry, begun, xfer>>
  BY DEF TailEnd
<1>2. CASE End(c, "error") BY <1>1, <1>2, EndStep
<1>3. CASE End(c, "complete") /\ xfer[handle[c]].done = "ok"
  <2>1. /\ handle[c] \in 0..begun /\ sent[c] \in 0..BodyLen + 1 /\ file[c] \in BodySources /\ ClientIsSound(c)
        /\ gate \in Clients \cup {Free} /\ sent[c] \in Nat
    BY ClientTypes
  <2>2. Becomes(c, "ended", handle[c], sent[c], file[c], "complete") BY <1>3, EndsThus
  <2>3. AnnouncedIsWritten(xfer[handle[c]]) /\ xfer[handle[c]] \in Xfers BY <1>1, FollowedTransfer
  <2>4. xfer[handle[c]].good /\ xfer[handle[c]].shown = BodyLen BY <1>3, <2>3 DEF AnnouncedIsWritten
  <2>5. sent[c] <= xfer[handle[c]].shown /\ handle[c] # Unregistered BY <1>1, <2>1 DEF ClientIsSound
  <2>6. sent[c] = BodyLen BY <1>1, <2>1, <2>3, <2>4, <2>5 DEF Xfers
  <2>7. file[c] = "blob" => xfer[handle[c]].result = "ok" BY <2>1 DEF ClientIsSound
  <2>8. "ended" \in ClientPlaces /\ "complete" \in Outcomes BY DEF ClientPlaces, Outcomes
  <2> QED BY <1>1, <2>1, <2>2, <2>4, <2>5, <2>6, <2>7, <2>8, ClientMoves
<1> QED BY <1>2, <1>3 DEF TailEnd

--------------------------------
(* Steps of a pump. *)

(* A transfer moves; what it announced, it announced for good. *)
LEMMA PumpMoves ==
    ASSUME DownloadInv, NEW t \in Transfers, xfer[t].pc # "unused", NEW new \in Xfers, Set(t, new),
           UNCHANGED <<gate, begun, client>>, blob' \in BOOLEAN,
           registry' = (IF new.pc \notin Registered /\ registry = t THEN Unregistered ELSE registry),
           AnnouncedIsWritten(new), new.pc # "unused", new.pc \in Registered => xfer[t].pc \in Registered,
           xfer[t].shown <= new.shown, new.good = xfer[t].good, xfer[t].result = "ok" => new.result = "ok"
    PROVE  DownloadInv'
<1>1. DownloadTyped /\ begun \in Nat /\ t \in Nat /\ t # Unregistered BY Bounds DEF DownloadInv, Transfers, Unregistered
<1>2. /\ xfer' \in [Transfers -> Xfers] /\ xfer'[t] = new
      /\ \A u \in Transfers : u # t => xfer'[u] = xfer[u]
  BY <1>1 DEF Set, DownloadTyped
<1>3. registry' \in 0..begun BY <1>1 DEF DownloadTyped, Unregistered
<1>4. DownloadTyped' BY <1>1, <1>2, <1>3 DEF DownloadTyped, client
<1>5. ASSUME NEW u \in Transfers PROVE TransferIsSound(u)'
  <2>1. TransferIsSound(u) /\ TransferIsSound(t) /\ u # Unregistered BY DEF DownloadInv, Transfers, Unregistered
  <2>2. CASE u = t
    <3>1. new.pc \in Registered <=> registry' = t BY <1>1, <2>1, <2>2 DEF TransferIsSound
    <3>2. ~(t > begun) BY <2>1, <2>2 DEF TransferIsSound
    <3> QED BY <1>2, <2>2, <3>1, <3>2 DEF TransferIsSound
  <2>3. CASE u # t
    <3>1. registry' = u <=> registry = u BY <2>1, <2>3
    <3> QED BY <1>2, <2>1, <2>3, <3>1 DEF TransferIsSound
  <2> QED BY <2>2, <2>3
<1>6. ASSUME NEW c \in Clients PROVE ClientIsSound(c)'
  <2>1. ClientIsSound(c) /\ handle[c] \in 0..begun /\ sent[c] \in Nat BY ClientTypes
  <2>2. handle[c] # Unregistered => handle[c] \in Transfers BY <1>1, <2>1, Bounds
  <2>3. registry = Unregistered => registry' = Unregistered OBVIOUS
  <2>4. handle[c] # Unregistered =>
          /\ xfer'[handle[c]].good = xfer[handle[c]].good
          /\ xfer[handle[c]].result = "ok" => xfer'[handle[c]].result = "ok"
          /\ xfer[handle[c]].shown <= xfer'[handle[c]].shown
          /\ xfer[handle[c]].shown \in Nat /\ xfer'[handle[c]].shown \in Nat
    <3>1. CASE handle[c] = t
      <4>1. xfer[t] \in Xfers BY <1>1 DEF DownloadTyped
      <4> QED BY <1>2, <3>1, <4>1 DEF Xfers
    <3>2. CASE handle[c] # t
      <4> SUFFICES ASSUME handle[c] # Unregistered
                   PROVE  xfer'[handle[c]] = xfer[handle[c]] /\ xfer[handle[c]].shown \in Nat
        OBVIOUS
      <4>1. xfer[handle[c]] \in Xfers /\ xfer'[handle[c]] = xfer[handle[c]] BY <1>1, <1>2, <2>2, <3>2 DEF DownloadTyped
      <4> QED BY <4>1 DEF Xfers
    <3> QED BY <3>1, <3>2
  <2>5. UNCHANGED <<clientPc, handle, sent, file, outcome, gate>> BY DEF client
  <2>6. clientPc[c] = "tail" => sent[c] <= xfer'[handle[c]].shown BY <2>1, <2>4 DEF ClientIsSound
  <2> QED BY <2>1, <2>3, <2>4, <2>5, <2>6 DEF ClientIsSound
<1> QED BY <1>4, <1>5, <1>6 DEF DownloadInv

LEMMA PumpTypes ==
    ASSUME DownloadInv, NEW t \in Transfers
    PROVE  xfer[t] \in Xfers /\ TransferIsSound(t) /\ AnnouncedIsWritten(xfer[t]) /\ blob \in BOOLEAN
BY DEF DownloadInv, DownloadTyped, TransferIsSound

(* Writing, flushing and announcing keep their order. *)
LEMMA DrainStep ==
    ASSUME DownloadInv, NEW t \in Transfers, Write(t) \/ Eof(t) \/ Flush(t) \/ Announce(t)
    PROVE  DownloadInv'
<1>1. UNCHANGED <<blob, gate, registry, begun, client>> BY DEF Write, Eof, Flush, Announce
<1>2. xfer[t] \in Xfers /\ TransferIsSound(t) /\ AnnouncedIsWritten(xfer[t]) /\ blob \in BOOLEAN BY PumpTypes
<1>3. /\ xfer[t].written \in Nat /\ xfer[t].flushed \in Nat /\ xfer[t].shown \in Nat /\ xfer[t].size \in Nat
      /\ BodyLen \in Nat \ {0} /\ FlushEvery \in Nat \ {0}
  BY <1>2, Bounds DEF Xfers, DownloadInv
<1> DEFINE Follows(new) ==
             /\ new \in Xfers /\ AnnouncedIsWritten(new)
             /\ new.pc \in ActiveTransfers /\ xfer[t].pc \in ActiveTransfers
             /\ xfer[t].shown <= new.shown /\ new.good = xfer[t].good
<1>4. \E new : Set(t, new) /\ Follows(new)
  <2>1. CASE Write(t)
    <3> PICK written \in Nat : written = xfer[t].written + 1 BY <1>3
    <3> PICK pc \in {"flush", "drain"} : Set(t, [xfer[t] EXCEPT !.written = written, !.pc = pc]) BY <2>1 DEF Write
    <3> PICK new : new = [xfer[t] EXCEPT !.written = written, !.pc = pc] OBVIOUS
    <3>1. /\ new \in Xfers /\ new.written = written /\ new.pc = pc /\ new.good = xfer[t].good /\ new.size = xfer[t].size
          /\ new.flushed = xfer[t].flushed /\ new.shown = xfer[t].shown /\ new.result = xfer[t].result
          /\ new.done = xfer[t].done
      BY <1>2 DEF Xfers, PumpPlaces, Registered, ActiveTransfers
    <3>2. xfer[t].pc = "drain" /\ written <= xfer[t].size /\ Set(t, new) BY <1>3, <2>1 DEF Write
    <3>3. AnnouncedIsWritten(new) BY <1>2, <1>3, <3>1, <3>2 DEF AnnouncedIsWritten, ActiveTransfers
    <3>5. Follows(new) BY <1>3, <3>1, <3>2, <3>3 DEF ActiveTransfers
    <3> HIDE DEF Follows
    <3> QED BY <3>2, <3>5
  <2>2. CASE Eof(t)
    <3> PICK new : new = [xfer[t] EXCEPT !.pc = "flush_last"] OBVIOUS
    <3>1. /\ new \in Xfers /\ new.written = xfer[t].written /\ new.pc = "flush_last" /\ new.good = xfer[t].good
          /\ new.size = xfer[t].size /\ new.flushed = xfer[t].flushed /\ new.shown = xfer[t].shown
          /\ new.result = xfer[t].result /\ new.done = xfer[t].done
      BY <1>2 DEF Xfers, PumpPlaces, Registered, ActiveTransfers
    <3>2. xfer[t].pc = "drain" /\ xfer[t].written = xfer[t].size /\ Set(t, new) BY <2>2 DEF Eof
    <3>3. AnnouncedIsWritten(new) BY <1>2, <1>3, <3>1, <3>2 DEF AnnouncedIsWritten, ActiveTransfers
    <3>5. Follows(new) BY <1>3, <3>1, <3>2, <3>3 DEF ActiveTransfers
    <3> HIDE DEF Follows
    <3> QED BY <3>2, <3>5
  <2>3. CASE Flush(t)
    <3> PICK pc : pc = IF xfer[t].pc = "flush" THEN "announce" ELSE "announce_last" OBVIOUS
    <3> PICK new : new = [xfer[t] EXCEPT !.flushed = xfer[t].written, !.pc = pc] OBVIOUS
    <3>1. xfer[t].pc \in {"flush", "flush_last"} /\ Set(t, new) /\ pc \in {"announce", "announce_last"}
      BY <2>3 DEF Flush
    <3>2. /\ new \in Xfers /\ new.written = xfer[t].written /\ new.pc = pc /\ new.good = xfer[t].good
          /\ new.size = xfer[t].size /\ new.flushed = xfer[t].written /\ new.shown = xfer[t].shown
          /\ new.result = xfer[t].result /\ new.done = xfer[t].done
      BY <1>2, <1>3, <3>1 DEF Xfers, PumpPlaces, Registered, ActiveTransfers
    <3>3. AnnouncedIsWritten(new) BY <1>2, <1>3, <3>1, <3>2 DEF AnnouncedIsWritten, ActiveTransfers
    <3>5. Follows(new) BY <1>3, <3>1, <3>2, <3>3 DEF ActiveTransfers
    <3> HIDE DEF Follows
    <3> QED BY <3>1, <3>5
  <2>4. CASE Announce(t)
    <3> PICK pc : pc = IF xfer[t].pc = "announce" THEN "drain" ELSE "commit" OBVIOUS
    <3> PICK new : new = [xfer[t] EXCEPT !.shown = xfer[t].flushed, !.pc = pc] OBVIOUS
    <3>1. xfer[t].pc \in {"announce", "announce_last"} /\ Set(t, new) /\ pc \in {"drain", "commit"} BY <2>4 DEF Announce
    <3>2. /\ new \in Xfers /\ new.written = xfer[t].written /\ new.pc = pc /\ new.good = xfer[t].good
          /\ new.size = xfer[t].size /\ new.flushed = xfer[t].flushed /\ new.shown = xfer[t].flushed
          /\ new.result = xfer[t].result /\ new.done = xfer[t].done
      BY <1>2, <1>3, <3>1 DEF Xfers, PumpPlaces, Registered, ActiveTransfers
    <3>3. AnnouncedIsWritten(new) BY <1>2, <1>3, <3>1, <3>2 DEF AnnouncedIsWritten, ActiveTransfers
    <3>4. xfer[t].shown <= xfer[t].flushed BY <1>2 DEF AnnouncedIsWritten
    <3>5. Follows(new) BY <1>3, <3>1, <3>2, <3>3, <3>4 DEF ActiveTransfers
    <3> HIDE DEF Follows
    <3> QED BY <3>1, <3>5
  <2> QED BY <2>1, <2>2, <2>3, <2>4
<1> HIDE DEF Follows
<1>5. PICK new : Set(t, new) /\ Follows(new) BY <1>4
<1>6. /\ new \in Xfers /\ AnnouncedIsWritten(new) /\ new.pc \in Registered /\ xfer[t].pc \in Registered
      /\ xfer[t].shown <= new.shown /\ new.good = xfer[t].good /\ xfer[t].result # "ok"
  BY <1>2, <1>5 DEF Follows, Registered, AnnouncedIsWritten
<1>7. new.pc # "unused" /\ xfer[t].pc # "unused" BY <1>6 DEF Registered, ActiveTransfers
<1> QED BY <1>1, <1>2, <1>5, <1>6, <1>7, PumpMoves

(* The end of a transfer: a verdict about the whole body, or an error. *)
LEMMA VerdictStep ==
    ASSUME DownloadInv, NEW t \in Transfers, Abort(t) \/ CommitTransfer(t) \/ PumpDropped(t)
    PROVE  DownloadInv'
<1>1. UNCHANGED <<gate, registry, begun, client>> /\ xfer[t].pc \in ActiveTransfers
  BY DEF Abort, CommitTransfer, PumpDropped, ActiveTransfers
<1>2. xfer[t] \in Xfers /\ TransferIsSound(t) /\ AnnouncedIsWritten(xfer[t]) /\ blob \in BOOLEAN BY PumpTypes
<1>3. /\ xfer[t].written \in Nat /\ xfer[t].flushed \in Nat /\ xfer[t].shown \in Nat /\ xfer[t].size \in Nat
  BY <1>2, Bounds DEF Xfers, DownloadInv
<1>4. PICK result \in {"ok", "err"}, left \in {"moved", "gone"} :
        /\ Set(t, [xfer[t] EXCEPT !.stage = left, !.result = result, !.pc = "remove"])
        /\ result = "ok" => xfer[t].good /\ xfer[t].pc = "commit"
  <2>1. CASE Abort(t) \/ PumpDropped(t) BY <2>1 DEF Abort, PumpDropped
  <2>2. CASE CommitTransfer(t)
    <3>1. xfer[t].pc = "commit" BY <2>2 DEF CommitTransfer
    <3>2. CASE xfer[t].good /\ Set(t, [xfer[t] EXCEPT !.result = "ok", !.pc = "remove", !.stage = IF blob THEN "gone" ELSE "moved"])
      <4> PICK left \in {"moved", "gone"} : left = IF blob THEN "gone" ELSE "moved" OBVIOUS
      <4>1. [xfer[t] EXCEPT !.result = "ok", !.pc = "remove", !.stage = left]
              = [xfer[t] EXCEPT !.stage = left, !.result = "ok", !.pc = "remove"]
        BY <1>2 DEF Xfers
      <4>2. Set(t, [xfer[t] EXCEPT !.stage = left, !.result = "ok", !.pc = "remove"]) BY <3>2, <4>1
      <4> QED BY <3>1, <3>2, <4>2
    <3>3. CASE Set(t, [xfer[t] EXCEPT !.result = "err", !.pc = "remove", !.stage = "gone"])
      <4>1. [xfer[t] EXCEPT !.result = "err", !.pc = "remove", !.stage = "gone"]
              = [xfer[t] EXCEPT !.stage = "gone", !.result = "err", !.pc = "remove"]
        BY <1>2 DEF Xfers
      <4>2. Set(t, [xfer[t] EXCEPT !.stage = "gone", !.result = "err", !.pc = "remove"]) BY <3>3, <4>1
      <4> QED BY <4>2
    <3> QED BY <2>2, <3>2, <3>3 DEF CommitTransfer
  <2> QED BY <2>1, <2>2
<1> PICK new : new = [xfer[t] EXCEPT !.stage = left, !.result = result, !.pc = "remove"] OBVIOUS
<1>5. /\ new \in Xfers /\ new.written = xfer[t].written /\ new.pc = "remove" /\ new.good = xfer[t].good
      /\ new.size = xfer[t].size /\ new.flushed = xfer[t].flushed /\ new.shown = xfer[t].shown
      /\ new.result = result /\ new.done = xfer[t].done
  BY <1>2 DEF Xfers, PumpPlaces, Registered, ActiveTransfers, Verdicts
<1>6. AnnouncedIsWritten(new)
  <2>1. result = "ok" => xfer[t].shown = BodyLen /\ xfer[t].good BY <1>2, <1>4 DEF AnnouncedIsWritten
  <2> QED BY <1>1, <1>2, <1>5, <2>1 DEF AnnouncedIsWritten, ActiveTransfers
<1>7. new.pc \in Registered /\ new.pc # "unused" /\ xfer[t].pc \in Registered /\ xfer[t].pc # "unused"
  BY <1>1, <1>5 DEF Registered, ActiveTransfers
<1>8. xfer[t].result # "ok" /\ xfer[t].shown <= new.shown /\ blob' \in BOOLEAN
  <2>1. blob' \in BOOLEAN BY <1>2 DEF Abort, CommitTransfer, PumpDropped
  <2> QED BY <1>1, <1>2, <1>3, <1>5, <2>1 DEF AnnouncedIsWritten
<1> QED BY <1>1, <1>4, <1>5, <1>6, <1>7, <1>8, PumpMoves

(* Out of the registry, and then the verdict. *)
LEMMA FinishStep ==
    ASSUME DownloadInv, NEW t \in Transfers, Unregister(t) \/ Report(t)
    PROVE  DownloadInv'
<1>1. xfer[t] \in Xfers /\ TransferIsSound(t) /\ AnnouncedIsWritten(xfer[t]) /\ blob \in BOOLEAN BY PumpTypes
<1>2. xfer[t].shown \in Nat BY <1>1 DEF Xfers
<1>3. CASE Unregister(t)
  <2> PICK new : new = [xfer[t] EXCEPT !.pc = "report"] OBVIOUS
  <2>1. /\ new \in Xfers /\ new.written = xfer[t].written /\ new.pc = "report" /\ new.good = xfer[t].good
        /\ new.size = xfer[t].size /\ new.flushed = xfer[t].flushed /\ new.shown = xfer[t].shown
        /\ new.result = xfer[t].result /\ new.done = xfer[t].done
    BY <1>1 DEF Xfers, PumpPlaces
  <2>2. xfer[t].pc = "remove" /\ Set(t, new) /\ registry' = (IF registry = t THEN Unregistered ELSE registry)
    BY <1>3 DEF Unregister
  <2>3. UNCHANGED <<blob, gate, begun, client>> BY <1>3 DEF Unregister
  <2>4. AnnouncedIsWritten(new) BY <1>1, <2>1, <2>2 DEF AnnouncedIsWritten, ActiveTransfers
  <2>5. new.pc \notin Registered /\ new.pc # "unused" /\ xfer[t].pc # "unused"
    BY <2>1, <2>2 DEF Registered, ActiveTransfers
  <2>6. registry' = (IF new.pc \notin Registered /\ registry = t THEN Unregistered ELSE registry) BY <2>2, <2>5
  <2>7. xfer[t].shown <= new.shown /\ (xfer[t].result = "ok" => new.result = "ok") /\ blob' \in BOOLEAN
    BY <1>1, <1>2, <2>1, <2>3
  <2> QED BY <2>1, <2>2, <2>3, <2>4, <2>5, <2>6, <2>7, PumpMoves
<1>4. CASE Report(t)
  <2> PICK new : new = [xfer[t] EXCEPT !.pc = "finished", !.done = xfer[t].result] OBVIOUS
  <2>1. /\ new \in Xfers /\ new.written = xfer[t].written /\ new.pc = "finished" /\ new.good = xfer[t].good
        /\ new.size = xfer[t].size /\ new.flushed = xfer[t].flushed /\ new.shown = xfer[t].shown
        /\ new.result = xfer[t].result /\ new.done = xfer[t].result
    BY <1>1 DEF Xfers, PumpPlaces
  <2>2. xfer[t].pc = "report" /\ Set(t, new) /\ UNCHANGED <<blob, gate, registry, begun, client>> BY <1>4 DEF Report
  <2>3. AnnouncedIsWritten(new) BY <1>1, <2>1, <2>2 DEF AnnouncedIsWritten, ActiveTransfers
  <2>4. new.pc \notin Registered /\ xfer[t].pc \notin Registered BY <2>1, <2>2 DEF Registered, ActiveTransfers
  <2>5. registry # t BY <1>1, <2>4 DEF TransferIsSound
  <2>6. registry' = (IF new.pc \notin Registered /\ registry = t THEN Unregistered ELSE registry) BY <2>2, <2>5
  <2>7. xfer[t].shown <= new.shown /\ (xfer[t].result = "ok" => new.result = "ok") /\ blob' \in BOOLEAN
    BY <1>1, <1>2, <2>1, <2>2
  <2>8. new.pc # "unused" /\ xfer[t].pc # "unused" BY <2>1, <2>2
  <2> QED BY <2>1, <2>2, <2>3, <2>4, <2>6, <2>7, <2>8, PumpMoves
<1> QED BY <1>3, <1>4

--------------------------------
(* The theorem. *)

LEMMA DownloadInvStep == DownloadInv /\ [DownloadNext]_downloadVars => DownloadInv'
<1> SUFFICES ASSUME DownloadInv, [DownloadNext]_downloadVars PROVE DownloadInv' OBVIOUS
<1>1. CASE UNCHANGED downloadVars
  BY <1>1 DEF downloadVars, client, DownloadInv, DownloadTyped, TransferIsSound, ClientIsSound
<1>2. ASSUME NEW c \in Clients, HeadRequest(c) \/ LockGate(c) \/ ClientStep(c) \/ Disconnect(c)
      PROVE  DownloadInv'
  <2>1. CASE ClientStep(c)
    BY <2>1, HeadAgainStep, LookupStep, StartDownloadStep, EndingSteps, WaitStep, TailOpenStep, TailReadStep, TailEndStep
       DEF ClientStep
  <2> QED BY <1>2, <2>1, HeadRequestStep, LockGateStep, EndingSteps
<1>3. ASSUME NEW t \in Transfers, Pump(t) \/ PumpDropped(t)
      PROVE  DownloadInv'
  BY <1>3, DrainStep, VerdictStep, FinishStep DEF Pump
<1> QED BY <1>1, <1>2, <1>3 DEF DownloadNext, Finished

(* cache/download.rs: whoever shares a transfer gets the whole verified file or a broken response, although   *)
(* it is streamed before the verdict and its stage moves while it is read; and the connect gate, which is     *)
(* given back at once, is enough to keep the transfers of a file apart.                                       *)
THEOREM DownloadsAreSound == DownloadSpec => []TransfersAreSound
<1>1. DownloadInit => DownloadInv BY DownloadInvInit
<1>2. DownloadInv /\ [DownloadNext]_downloadVars => DownloadInv' BY DownloadInvStep
<1>3. DownloadInv => TransfersAreSound BY DownloadInvSound
<1> QED BY <1>1, <1>2, <1>3, PTL DEF DownloadSpec

--------------------------------
(* A hosted index: the inductive invariant.                                 *)

HostedRecord == [digest : FileContents \cup {NoContent}, yanked : BOOLEAN, trashed : BOOLEAN]
WriterPlaces == {"idle", "size", "status", "content", "metadata", "publish", "read", "promote", "list", "records",
                 "served", "overrides", "uploads", "trash", "hidden", "done", "refused"}
WriterOps == {"none", "upload", "promote", "yank", "unyank", "delete", "restore"}
WriterEnds == {"idle", "done", "refused"}
HostedWriter ==
    [at : WriterPlaces, op : WriterOps, index : Hosted, file : FileNames \cup {"none"},
     digest : FileContents \cup {NoContent}, version : VersionsAsked, names : SUBSET FileNames,
     mine : SUBSET (FileNames \X HostedRecord), alone : BOOLEAN, heard : BOOLEAN]

HostedTyped ==
    /\ uploaded \in [Hosted -> [FileNames -> HostedRecord]]
    /\ override \in [FileNames -> {"none", "yanked", "hidden"}]
    /\ artifacts \subseteq FileContents /\ siblings \subseteq FileContents
    /\ writer \in [Writers -> HostedWriter]
    /\ acked \subseteq Hosted \X FileNames \X FileContents

(* Records. *)
Kept(record) == record = NoRecord \/ record.digest \in artifacts \cap siblings
RecordsKept == \A i \in Hosted, f \in FileNames : Kept(uploaded[i][f])
AcksKept == \A i \in Hosted, f \in FileNames, d \in FileContents : <<i, f, d>> \in acked => uploaded[i][f].digest = d

(* What a request has prepared before it writes. *)
Prepared(w) ==
    /\ writer[w].at \in {"served", "overrides"} => writer[w].op \in {"yank", "unyank", "delete"}
    /\ writer[w].op = "upload" => writer[w].file \in FileNames /\ writer[w].digest \in FileContents
    /\ WriterAt(w, "upload", "metadata") => writer[w].digest \in artifacts
    /\ WriterAt(w, "upload", "publish") => writer[w].digest \in artifacts \cap siblings
    /\ WriterAt(w, "promote", "promote") => /\ \A e \in writer[w].mine : Kept(e[2])
                                            /\ \A e, o \in writer[w].mine : e[1] = o[1] => e = o

(* A mutation that is alone: what it has done and what it still has to do. *)
Asked(w) == {f \in FileNames : Matches(f, writer[w].version)}
Listed(w) == Served \cap Asked(w) \subseteq writer[w].names
Deleting(w) ==
    LET at == writer[w].at IN
    /\ at \in {"uploads", "trash", "overrides"} /\ writer[w].heard => Listed(w)
    /\ at \in {"trash", "overrides"} => Mine(w) = Uploads("prod")
    /\ at = "overrides" => \A f \in Uploads("prod") \cap Asked(w) : uploaded["prod"][f].trashed
    /\ at = "done" => Served \cap Asked(w) \subseteq {f \in UpstreamFiles : writer[w].heard => uploaded["prod"][f].trashed}
Yanking(w) ==
    LET at == writer[w].at IN
    /\ at \in {"records", "served", "overrides"} => Mine(w) = Uploads("prod")
    /\ at \in {"served", "overrides"} => \A f \in Uploads("prod") \cap Asked(w) : uploaded["prod"][f].yanked
    /\ at = "overrides" /\ writer[w].heard =>
          \A f \in Served \cap Asked(w) : f \in writer[w].names \/ override[f] = "yanked"
    /\ at = "done" => \A f \in Served \cap Asked(w) :
          ServedYanked(f) \/ uploaded["prod"][f].trashed \/ (~writer[w].heard /\ f \notin Uploads("prod"))
Restoring(w) ==
    LET at == writer[w].at IN
    /\ at \in {"hidden", "done"} => \A f \in Asked(w) : ~uploaded["prod"][f].trashed
    /\ at = "hidden" => \A f \in Asked(w) : override[f] = "hidden" => f \in writer[w].names
    /\ at = "done" => \A f \in Asked(w) : override[f] # "hidden"

OthersEnded(w) == \A v \in Writers \ {w} : writer[v].at \in WriterEnds
Mutates(w) ==
    /\ writer[w].op = "delete" => Deleting(w)
    /\ writer[w].op = "yank" => Yanking(w)
    /\ writer[w].op = "restore" => Restoring(w)
Reaches(w) == writer[w].alone => OthersEnded(w) /\ Mutates(w)

HostedInv ==
    /\ HostedTyped /\ RecordsKept /\ AcksKept
    /\ \A w \in Writers : Prepared(w) /\ Reaches(w)

--------------------------------
(* Steps of one request. *)

\* The request w, which is under way, goes on; the others stay.
Moved(w, at, names, mine) ==
    /\ writer[w].at \notin WriterEnds
    /\ writer' \in [Writers -> HostedWriter]
    /\ \A v \in Writers \ {w} : writer'[v] = writer[v]
    /\ writer'[w].at = at /\ writer'[w].names = names /\ writer'[w].mine = mine
    /\ writer'[w].op = writer[w].op /\ writer'[w].index = writer[w].index /\ writer'[w].file = writer[w].file
    /\ writer'[w].digest = writer[w].digest /\ writer'[w].version = writer[w].version
    /\ writer'[w].alone = writer[w].alone /\ (writer[w].at = "served" \/ writer'[w].heard = writer[w].heard)

LEMMA GoesMoves ==
    ASSUME HostedTyped, NEW w \in Writers, writer[w].at \notin WriterEnds, NEW at \in WriterPlaces, WriterGoes(w, at)
    PROVE  Moved(w, at, writer[w].names, writer[w].mine)
<1>1. writer[w] \in HostedWriter /\ writer' = [writer EXCEPT ![w].at = at] BY DEF HostedTyped, WriterGoes
<1>2. [writer[w] EXCEPT !.at = at] \in HostedWriter BY <1>1 DEF HostedWriter
<1> QED BY <1>1, <1>2 DEF HostedTyped, Moved, HostedWriter

LEMMA TakesMoves ==
    ASSUME HostedTyped, NEW w \in Writers, writer[w].at \notin WriterEnds, NEW at \in WriterPlaces,
           NEW mine \in SUBSET (FileNames \X HostedRecord),
           writer' = [writer EXCEPT ![w].at = at, ![w].mine = mine]
    PROVE  Moved(w, at, writer[w].names, mine)
<1>1. writer[w] \in HostedWriter BY DEF HostedTyped
<1>2. [writer[w] EXCEPT !.at = at, !.mine = mine] \in HostedWriter BY <1>1 DEF HostedWriter
<1> QED BY <1>1, <1>2 DEF HostedTyped, Moved, HostedWriter

LEMMA ListsMoves ==
    ASSUME HostedTyped, NEW w \in Writers, writer[w].at \notin WriterEnds, NEW at \in WriterPlaces,
           NEW names \in SUBSET FileNames,
           writer' = [writer EXCEPT ![w].at = at, ![w].names = names]
    PROVE  Moved(w, at, names, writer[w].mine)
<1>1. writer[w] \in HostedWriter BY DEF HostedTyped
<1>2. [writer[w] EXCEPT !.at = at, !.names = names] \in HostedWriter BY <1>1 DEF HostedWriter
<1> QED BY <1>1, <1>2 DEF HostedTyped, Moved, HostedWriter

LEMMA HearsMoves ==
    ASSUME HostedTyped, NEW w \in Writers, writer[w].at = "served", NEW at \in WriterPlaces,
           NEW names \in SUBSET FileNames, NEW heard \in BOOLEAN,
           writer' = [writer EXCEPT ![w].at = at, ![w].heard = heard, ![w].names = names]
    PROVE  Moved(w, at, names, writer[w].mine) /\ writer'[w].heard = heard
<1>1. writer[w] \in HostedWriter BY DEF HostedTyped
<1>2. [writer[w] EXCEPT !.at = at, !.heard = heard, !.names = names] \in HostedWriter BY <1>1 DEF HostedWriter
<1> QED BY <1>1, <1>2 DEF HostedTyped, Moved, HostedWriter, WriterEnds

LEMMA DropsMoves ==
    ASSUME HostedTyped, NEW w \in Writers, writer[w].at \notin WriterEnds, NEW f \in FileNames,
           writer' = [writer EXCEPT ![w].names = @ \ {f}]
    PROVE  Moved(w, writer[w].at, writer[w].names \ {f}, writer[w].mine)
<1>1. writer[w] \in HostedWriter BY DEF HostedTyped
<1>2. [writer[w] EXCEPT !.names = @ \ {f}] \in HostedWriter BY <1>1 DEF HostedWriter
<1> QED BY <1>1, <1>2 DEF HostedTyped, Moved, HostedWriter

\* Contents and their metadata stay in the blob store.
StoreGrows == artifacts \subseteq artifacts' /\ siblings \subseteq siblings'

LEMMA RecordsStay ==
    ASSUME HostedInv, StoreGrows, UNCHANGED <<uploaded, acked>>
    PROVE  RecordsKept' /\ AcksKept'
  BY DEF HostedInv, RecordsKept, AcksKept, StoreGrows, Kept

(* The rest of the invariant follows from what the step does to its own request. *)
LEMMA OthersStayPrepared ==
    ASSUME HostedInv, NEW w \in Writers, NEW at, NEW names, NEW mine, Moved(w, at, names, mine), StoreGrows,
           NEW v \in Writers \ {w}
    PROVE  Prepared(v)' /\ Reaches(v)'
<1>1. writer'[v] = writer[v] /\ Prepared(v) /\ Reaches(v) /\ writer[w].at \notin WriterEnds BY DEF HostedInv, Moved
<1>2. Prepared(v)' BY <1>1 DEF Prepared, WriterAt, Kept, StoreGrows
<1>3. ~writer[v].alone BY <1>1 DEF Reaches, OthersEnded
<1> QED BY <1>1, <1>2, <1>3 DEF Reaches

LEMMA StepSettles ==
    ASSUME HostedInv, NEW w \in Writers, NEW at, NEW names, NEW mine, Moved(w, at, names, mine), StoreGrows,
           HostedTyped', RecordsKept', AcksKept', Prepared(w)',
           Mutates(w) => Mutates(w)'
    PROVE  HostedInv'
<1>1. Reaches(w)'
  <2> SUFFICES ASSUME writer'[w].alone PROVE OthersEnded(w)' /\ Mutates(w)' BY DEF Reaches
  <2>1. writer[w].alone BY DEF Moved
  <2>2. OthersEnded(w) /\ Mutates(w) BY <2>1 DEF HostedInv, Reaches
  <2>3. OthersEnded(w)' BY <2>2 DEF OthersEnded, Moved
  <2> QED BY <2>2, <2>3
<1>2. \A v \in Writers \ {w} : Prepared(v)' /\ Reaches(v)' BY OthersStayPrepared
<1> QED BY <1>1, <1>2 DEF HostedInv

--------------------------------
(* Upload. *)

LEMMA HostedInitInv == HostedInit => HostedInv
<1> SUFFICES ASSUME HostedInit PROVE HostedInv OBVIOUS
<1>1. AtRest \in HostedWriter /\ NoRecord \in HostedRecord
  BY DEF AtRest, HostedWriter, HostedRecord, NoRecord, WriterPlaces, WriterOps, Hosted, VersionsAsked
<1>2. HostedTyped
  <2>1. uploaded \in [Hosted -> [FileNames -> HostedRecord]] /\ writer \in [Writers -> HostedWriter]
    BY <1>1 DEF HostedInit
  <2>2. override \in [FileNames -> {"none", "yanked", "hidden"}] BY DEF HostedInit
  <2> QED BY <2>1, <2>2 DEF HostedInit, HostedTyped
<1>3. RecordsKept /\ AcksKept BY DEF HostedInit, RecordsKept, AcksKept, Kept
<1>4. ASSUME NEW w \in Writers PROVE Prepared(w) /\ Reaches(w)
  <2>1. writer[w] = AtRest BY DEF HostedInit
  <2>2. writer[w].at = "idle" /\ writer[w].op = "none" /\ writer[w].alone = FALSE BY <2>1 DEF AtRest
  <2> QED BY <2>2 DEF Prepared, Reaches, WriterAt
<1> QED BY <1>2, <1>3, <1>4 DEF HostedInv

LEMMA BeginsInv ==
    ASSUME HostedInv, NEW w \in Writers, NEW op \in WriterOps, NEW i \in Hosted,
           NEW f \in FileNames \cup {"none"}, NEW d \in FileContents \cup {NoContent}, NEW v \in VersionsAsked,
           NEW at \in {"size", "read", "list", "served", "records"},
           op = "upload" => f \in FileNames /\ d \in FileContents,
           at = "served" => op = "delete", op = "yank" => at = "list",
           Begins(w, op, i, f, d, v, at), UNCHANGED <<uploaded, override, artifacts, siblings, acked>>
    PROVE  HostedInv'
<1> DEFINE busy == \E o \in Writers \ {w} : writer[o].at \notin WriterEnds
           new == [AtRest EXCEPT !.at = at, !.op = op, !.index = i, !.file = f, !.digest = d,
                                 !.version = v, !.alone = ~busy]
<1>1. writer' = [o \in Writers |-> IF o = w THEN new
                                   ELSE IF writer[o].at \in {"done", "refused"} THEN AtRest
                                   ELSE [writer[o] EXCEPT !.alone = FALSE]]
  BY DEF Begins, WriterEnds
<1>2. /\ new.at = at /\ new.op = op /\ new.index = i /\ new.file = f /\ new.digest = d /\ new.version = v
      /\ new.names = {} /\ new.mine = {} /\ new.alone = ~busy
  BY DEF AtRest
<1>3. new \in HostedWriter /\ AtRest \in HostedWriter
  <2>1. AnyVersion \in VersionsAsked /\ "prod" \in Hosted /\ "idle" \in WriterPlaces /\ "none" \in WriterOps
        /\ at \in WriterPlaces /\ (~busy) \in BOOLEAN
    BY DEF VersionsAsked, Hosted, WriterPlaces, WriterOps
  <2>2. AtRest \in HostedWriter BY <2>1 DEF AtRest, HostedWriter
  <2>3. PICK quiet \in BOOLEAN : quiet = ~busy BY <2>1
  <2> HIDE DEF busy
  <2>4. [AtRest EXCEPT !.at = at, !.op = op, !.index = i, !.file = f, !.digest = d, !.version = v, !.alone = quiet]
          \in HostedWriter
    BY <2>1, <2>2 DEF HostedWriter
  <2> QED BY <2>2, <2>3, <2>4
<1>4. ASSUME NEW o \in Writers \ {w}
      PROVE  /\ writer'[o] \in HostedWriter /\ Prepared(o)' /\ writer'[o].alone = FALSE
             /\ writer[o].at \in WriterEnds => writer'[o].at \in WriterEnds
  <2>1. writer[o] \in HostedWriter /\ Prepared(o) BY DEF HostedInv, HostedTyped
  <2>2. CASE writer[o].at \in {"done", "refused"}
    <3>1. writer'[o] = AtRest BY <1>1, <2>2
    <3>2. writer'[o].at = "idle" /\ writer'[o].op = "none" /\ writer'[o].alone = FALSE BY <3>1 DEF AtRest
    <3> QED BY <1>3, <3>1, <3>2 DEF Prepared, WriterAt, WriterEnds
  <2>3. CASE writer[o].at \notin {"done", "refused"}
    <3>1. writer'[o] = [writer[o] EXCEPT !.alone = FALSE] BY <1>1, <2>3
    <3>2. /\ writer'[o] \in HostedWriter /\ writer'[o].alone = FALSE
          /\ writer'[o].at = writer[o].at /\ writer'[o].op = writer[o].op /\ writer'[o].file = writer[o].file
          /\ writer'[o].digest = writer[o].digest /\ writer'[o].mine = writer[o].mine
      BY <2>1, <3>1 DEF HostedWriter
    <3> QED BY <2>1, <3>2 DEF Prepared, WriterAt, Kept
  <2> QED BY <2>2, <2>3
<1>5. writer'[w] = new BY <1>1
<1> HIDE DEF new
<1>6. HostedTyped'
  <2>1. writer' \in [Writers -> HostedWriter] BY <1>1, <1>3, <1>4, <1>5
  <2> QED BY <2>1 DEF HostedInv, HostedTyped
<1>7. RecordsKept' /\ AcksKept' BY RecordsStay DEF StoreGrows
<1>8. Prepared(w)' BY <1>2, <1>5 DEF Prepared, WriterAt
<1>9. Reaches(w)'
  <2>1. writer'[w].alone => OthersEnded(w)' BY <1>2, <1>4, <1>5 DEF OthersEnded
  <2>2. Mutates(w)' BY <1>2, <1>5 DEF Mutates, Deleting, Yanking, Restoring
  <2> QED BY <2>1, <2>2 DEF Reaches
<1>10. \A o \in Writers \ {w} : Reaches(o)' BY <1>4 DEF Reaches
<1> QED BY <1>4, <1>6, <1>7, <1>8, <1>9, <1>10 DEF HostedInv

(* A step that only goes to a place where nothing is claimed yet. *)
LEMMA GoingInv ==
    ASSUME HostedInv, NEW w \in Writers, NEW at \in WriterPlaces, WriterGoes(w, at), writer[w].at \notin WriterEnds,
           StoreGrows, artifacts' \subseteq FileContents, siblings' \subseteq FileContents,
           UNCHANGED <<uploaded, override, acked>>,
           at \notin {"served", "overrides", "promote"},
           WriterAt(w, "upload", writer[w].at) \/ at = "refused",
           at = "metadata" => writer[w].digest \in artifacts',
           at = "publish" => writer[w].digest \in artifacts' \cap siblings'
    PROVE  HostedInv'
<1>1. Moved(w, at, writer[w].names, writer[w].mine) BY GoesMoves DEF HostedInv
<1>2. HostedTyped' BY <1>1 DEF HostedInv, HostedTyped, Moved
<1>3. RecordsKept' /\ AcksKept' BY RecordsStay
<1>4. Prepared(w) /\ writer'[w].at = at /\ writer'[w].op = writer[w].op /\ writer'[w].digest = writer[w].digest
      /\ writer'[w].file = writer[w].file
  BY <1>1 DEF Moved, HostedInv
<1>5. Prepared(w)' BY <1>4 DEF Prepared, WriterAt
<1>6. Mutates(w)' BY <1>4 DEF Mutates, Deleting, Yanking, Restoring, WriterAt
<1> QED BY <1>1, <1>2, <1>3, <1>5, <1>6, StepSettles

LEMMA UploadStepsInv ==
    ASSUME HostedInv, NEW w \in Writers,
           CheckProjectSize(w) \/ CheckStatus(w) \/ CommitContent(w) \/ CommitMetadata(w)
    PROVE  HostedInv'
<1>1. /\ writer[w].op = "upload" => writer[w].digest \in FileContents
      /\ WriterAt(w, "upload", "metadata") => writer[w].digest \in artifacts
      /\ artifacts \subseteq FileContents /\ siblings \subseteq FileContents
  BY DEF HostedInv, Prepared, HostedTyped
<1>2. CASE CheckProjectSize(w)
  <2>1. PICK at \in {"refused", "status"} : WriterGoes(w, at) BY <1>2 DEF CheckProjectSize
  <2> QED BY <1>1, <1>2, <2>1, GoingInv DEF CheckProjectSize, WriterAt, StoreGrows, WriterEnds, WriterPlaces
<1>3. CASE CheckStatus(w)
  <2>1. PICK at \in {"refused", "content"} : WriterGoes(w, at) BY <1>3 DEF CheckStatus
  <2> QED BY <1>1, <1>3, <2>1, GoingInv DEF CheckStatus, WriterAt, StoreGrows, WriterEnds, WriterPlaces
<1>4. CASE CommitContent(w)
  <2>1. WriterGoes(w, "metadata") /\ writer[w].at = "content" /\ writer[w].op = "upload"
    BY <1>4 DEF CommitContent, WriterAt
  <2>2. /\ artifacts' = artifacts \cup {writer[w].digest} /\ siblings' = siblings
        /\ UNCHANGED <<uploaded, override, acked>>
    BY <1>4 DEF CommitContent
  <2> QED BY <1>1, <2>1, <2>2, GoingInv DEF WriterAt, StoreGrows, WriterEnds, WriterPlaces
<1>5. CASE CommitMetadata(w)
  <2>1. WriterGoes(w, "publish") /\ writer[w].at = "metadata" /\ writer[w].op = "upload"
    BY <1>5 DEF CommitMetadata, WriterAt
  <2>2. /\ siblings' = siblings \cup {writer[w].digest} /\ artifacts' = artifacts
        /\ UNCHANGED <<uploaded, override, acked>>
    BY <1>5 DEF CommitMetadata
  <2> QED BY <1>1, <2>1, <2>2, GoingInv DEF WriterAt, StoreGrows, WriterEnds, WriterPlaces
<1> QED BY <1>2, <1>3, <1>4, <1>5

--------------------------------
(* Records that are written. *)

LEMMA PublishInv ==
    ASSUME HostedInv, NEW w \in Writers, PublishFile(w)
    PROVE  HostedInv'
<1> DEFINE i == writer[w].index  f == writer[w].file  d == writer[w].digest
           verdict == Guard(uploaded[i][f], d)
           at == IF verdict = "conflict" THEN "refused" ELSE "done"
           new == [NoRecord EXCEPT !.digest = d]
<1>1. /\ WriterAt(w, "upload", "publish") /\ WriterGoes(w, at) /\ writer[w].at = "publish"
      /\ PublishFileIf(verdict, i, f, d) /\ UNCHANGED <<override, artifacts, siblings>>
      /\ acked' = IF verdict = "conflict" THEN acked ELSE acked \cup {<<i, f, d>>}
  BY DEF PublishFile, WriterAt
<1>2. /\ f \in FileNames /\ d \in FileContents /\ i \in Hosted /\ d \in artifacts \cap siblings
      /\ writer[w].op = "upload"
  BY <1>1 DEF HostedInv, Prepared, WriterAt, HostedTyped, HostedWriter
<1>3. at \in WriterPlaces /\ at \in {"refused", "done"} BY DEF WriterPlaces
<1>4. Moved(w, at, writer[w].names, writer[w].mine) BY <1>1, <1>3, GoesMoves DEF HostedInv, WriterEnds
<1>5. new \in HostedRecord /\ new.digest = d BY <1>2 DEF NoRecord, HostedRecord
<1>6. uploaded \in [Hosted -> [FileNames -> HostedRecord]] BY DEF HostedInv, HostedTyped
<1>7. ASSUME NEW j \in Hosted, NEW g \in FileNames
      PROVE  uploaded'[j][g] = IF verdict = "commit" /\ j = i /\ g = f THEN new ELSE uploaded[j][g]
  BY <1>1, <1>2, <1>6 DEF PublishFileIf
<1>8. HostedTyped'
  <2>1. uploaded' \in [Hosted -> [FileNames -> HostedRecord]] BY <1>1, <1>2, <1>5, <1>6 DEF PublishFileIf
  <2>2. acked' \subseteq Hosted \X FileNames \X FileContents BY <1>1, <1>2 DEF HostedInv, HostedTyped
  <2> QED BY <1>1, <1>4, <2>1, <2>2 DEF HostedInv, HostedTyped, Moved
<1> HIDE DEF new
<1>9. RecordsKept' BY <1>1, <1>2, <1>5, <1>7 DEF HostedInv, RecordsKept, Kept
<1>10. AcksKept'
  <2> SUFFICES ASSUME NEW j \in Hosted, NEW g \in FileNames, NEW c \in FileContents, <<j, g, c>> \in acked'
               PROVE  uploaded'[j][g].digest = c
    BY DEF AcksKept
  <2>1. CASE <<j, g, c>> \in acked
    <3>1. uploaded[j][g].digest = c /\ c # NoContent BY <2>1, HostedAssumption DEF HostedInv, AcksKept
    <3>2. verdict = "commit" => uploaded[i][f] = NoRecord BY DEF Guard
    <3>3. NoRecord.digest = NoContent BY DEF NoRecord
    <3> QED BY <1>7, <3>1, <3>2, <3>3
  <2>2. CASE <<j, g, c>> \notin acked
    <3>1. verdict # "conflict" /\ j = i /\ g = f /\ c = d BY <1>1, <2>2
    <3>2. verdict # "commit" => uploaded[i][f].digest = d BY <3>1 DEF Guard
    <3> QED BY <1>5, <1>7, <3>1, <3>2
  <2> QED BY <2>1, <2>2
<1>11. Prepared(w)' BY <1>2, <1>3, <1>4 DEF Prepared, Moved, WriterAt
<1>12. Mutates(w)' BY <1>2, <1>4 DEF Mutates, Moved
<1>13. StoreGrows BY <1>1 DEF StoreGrows
<1> QED BY <1>4, <1>8, <1>9, <1>10, <1>11, <1>12, <1>13, StepSettles

LEMMA ReadReleaseInv ==
    ASSUME HostedInv, NEW w \in Writers, ReadRelease(w)
    PROVE  HostedInv'
<1> DEFINE found == {f \in Uploads("staging") : Matches(f, writer[w].version)}
           mine == {<<f, uploaded["staging"][f]>> : f \in found}
           at == IF found = {} THEN "refused" ELSE "promote"
<1>1. /\ writer[w].op = "promote" /\ writer[w].at = "read"
      /\ writer' = [writer EXCEPT ![w].at = at, ![w].mine = mine]
      /\ UNCHANGED <<uploaded, override, artifacts, siblings, acked>>
  BY DEF ReadRelease, WriterAt
<1>2. at \in WriterPlaces /\ at \in {"refused", "promote"} BY DEF WriterPlaces
<1>3. found \subseteq FileNames /\ "staging" \in Hosted BY DEF Uploads, Hosted
<1>4. \A f \in found : uploaded["staging"][f] \in HostedRecord /\ Kept(uploaded["staging"][f])
  BY <1>3 DEF HostedInv, HostedTyped, RecordsKept
<1>5. mine \in SUBSET (FileNames \X HostedRecord) BY <1>3, <1>4
<1>6. (\A e \in mine : Kept(e[2])) /\ (\A e, o \in mine : e[1] = o[1] => e = o) BY <1>4
<1> HIDE DEF mine, at
<1>7. Moved(w, at, writer[w].names, mine) BY <1>1, <1>2, <1>5, TakesMoves DEF HostedInv, WriterEnds
<1>8. StoreGrows /\ RecordsKept' /\ AcksKept' BY <1>1, RecordsStay DEF StoreGrows
<1>9. HostedTyped' BY <1>1, <1>7 DEF HostedInv, HostedTyped, Moved
<1>10. Prepared(w)'
  <2>1. writer'[w].at = at /\ writer'[w].op = "promote" /\ writer'[w].mine = mine BY <1>1, <1>7 DEF Moved
  <2>2. (\A e \in writer'[w].mine : Kept(e[2])') /\ (\A e, o \in writer'[w].mine : e[1] = o[1] => e = o)
    BY <1>1, <1>6, <2>1 DEF Kept
  <2> QED BY <1>2, <2>1, <2>2 DEF Prepared, WriterAt
<1>11. Mutates(w)' BY <1>1, <1>7 DEF Mutates, Moved
<1> QED BY <1>7, <1>8, <1>9, <1>10, <1>11, StepSettles

LEMMA PromoteInv ==
    ASSUME HostedInv, NEW w \in Writers, PromoteFiles(w)
    PROVE  HostedInv'
<1> DEFINE release == writer[w].mine
           conflict == \E e \in release : Guard(uploaded["prod"][e[1]], e[2].digest) = "conflict"
           copied(f) == \E e \in release : e[1] = f /\ Guard(uploaded["prod"][e[1]], e[2].digest) = "commit"
           chosen(f) == (CHOOSE e \in release : e[1] = f)[2]
           at == IF conflict THEN "refused" ELSE "done"
<1>1. /\ writer[w].op = "promote" /\ writer[w].at = "promote" /\ WriterAt(w, "promote", "promote") /\ WriterGoes(w, at)
      /\ UNCHANGED <<override, artifacts, siblings, acked>>
  BY DEF PromoteFiles, WriterAt
<1>2. uploaded' = IF conflict THEN uploaded
                  ELSE [uploaded EXCEPT !["prod"] = [f \in FileNames |-> IF copied(f) THEN chosen(f) ELSE @[f]]]
  BY DEF PromoteFiles
<1>3. at \in WriterPlaces /\ at \in {"refused", "done"} BY DEF WriterPlaces
<1>4. Moved(w, at, writer[w].names, writer[w].mine) BY <1>1, <1>3, GoesMoves DEF HostedInv, WriterEnds
<1>5. uploaded \in [Hosted -> [FileNames -> HostedRecord]] /\ release \subseteq FileNames \X HostedRecord /\ "prod" \in Hosted
  BY DEF HostedInv, HostedTyped, HostedWriter, Hosted
<1>6. (\A e \in release : Kept(e[2])) /\ (\A e, o \in release : e[1] = o[1] => e = o) BY <1>1 DEF HostedInv, Prepared
<1>7. ASSUME NEW f \in FileNames, copied(f)
      PROVE  chosen(f) \in HostedRecord /\ Kept(chosen(f)) /\ uploaded["prod"][f] = NoRecord
  <2>1. PICK e \in release : e[1] = f /\ Guard(uploaded["prod"][e[1]], e[2].digest) = "commit" BY <1>7
  <2>2. (CHOOSE o \in release : o[1] = f) \in release BY <2>1
  <2>3. uploaded["prod"][f] = NoRecord BY <2>1 DEF Guard
  <2> QED BY <1>5, <1>6, <2>2, <2>3
<1> HIDE DEF copied, chosen, conflict
<1>8. ASSUME NEW j \in Hosted, NEW g \in FileNames
      PROVE  /\ uploaded'[j][g] \in HostedRecord /\ Kept(uploaded'[j][g])
             /\ uploaded[j][g] # NoRecord => uploaded'[j][g] = uploaded[j][g]
  <2>1. uploaded[j][g] \in HostedRecord /\ Kept(uploaded[j][g]) BY <1>5 DEF HostedInv, RecordsKept
  <2>2. uploaded'[j][g] = IF ~conflict /\ j = "prod" /\ copied(g) THEN chosen(g) ELSE uploaded[j][g] BY <1>2, <1>5
  <2> QED BY <1>7, <2>1, <2>2
<1>9. uploaded' \in [Hosted -> [FileNames -> HostedRecord]]
  <2>1. [f \in FileNames |-> IF copied(f) THEN chosen(f) ELSE uploaded["prod"][f]] \in [FileNames -> HostedRecord]
    BY <1>5, <1>7
  <2> QED BY <1>2, <1>5, <2>1
<1>10. HostedTyped' BY <1>1, <1>4, <1>9 DEF HostedInv, HostedTyped, Moved
<1>11. RecordsKept' BY <1>1, <1>8 DEF RecordsKept, Kept
<1>12. AcksKept'
  <2> SUFFICES ASSUME NEW j \in Hosted, NEW g \in FileNames, NEW c \in FileContents, <<j, g, c>> \in acked'
               PROVE  uploaded'[j][g].digest = c
    BY DEF AcksKept
  <2>1. uploaded[j][g].digest = c /\ c # NoContent BY <1>1, HostedAssumption DEF HostedInv, AcksKept
  <2>2. uploaded[j][g] # NoRecord BY <2>1 DEF NoRecord
  <2> QED BY <1>8, <2>1, <2>2
<1>13. Prepared(w)' BY <1>1, <1>3, <1>4 DEF Prepared, Moved, WriterAt
<1>14. Mutates(w)' BY <1>1, <1>4 DEF Mutates, Moved
<1>15. StoreGrows BY <1>1 DEF StoreGrows
<1> QED BY <1>4, <1>10, <1>11, <1>12, <1>13, <1>14, <1>15, StepSettles

--------------------------------
(* Mutations. *)

\* Records are rewritten and keep their content.
Rewritten(w) ==
    \A i \in Hosted, f \in FileNames :
      /\ uploaded'[i][f] \in HostedRecord /\ uploaded'[i][f].digest = uploaded[i][f].digest
      /\ uploaded'[i][f] = NoRecord <=> uploaded[i][f] = NoRecord

LEMMA RewritingKeeps ==
    ASSUME HostedInv, NEW w \in Writers, Rewritten(w), StoreGrows, UNCHANGED acked
    PROVE  /\ RecordsKept' /\ AcksKept'
           /\ \A i \in Hosted : Uploads(i)' = Uploads(i)
  BY DEF HostedInv, RecordsKept, AcksKept, Rewritten, StoreGrows, Kept, Uploads

LEMMA RecordsHaveContent ==
    ASSUME HostedInv, NEW i \in Hosted, NEW f \in FileNames, uploaded[i][f] # NoRecord
    PROVE  uploaded[i][f].digest # NoContent
  BY HostedAssumption DEF HostedInv, HostedTyped, RecordsKept, Kept

LEMMA YankedRewrites ==
    ASSUME HostedInv, NEW w \in Writers, NEW value \in BOOLEAN, NEW version,
           MutateUploads(version, "yanked", value)
    PROVE  /\ Rewritten(w) /\ uploaded' \in [Hosted -> [FileNames -> HostedRecord]]
           /\ \A f \in FileNames : uploaded'["prod"][f].trashed = uploaded["prod"][f].trashed
           /\ \A f \in Uploads("prod") : Matches(f, version) => uploaded'["prod"][f].yanked = value
<1>1. uploaded \in [Hosted -> [FileNames -> HostedRecord]] /\ "prod" \in Hosted BY DEF HostedInv, HostedTyped, Hosted
<1>2. uploaded' = [uploaded EXCEPT !["prod"] = [f \in FileNames |->
                      IF f \in Uploads("prod") /\ Matches(f, version) THEN Yanked(uploaded["prod"][f], value)
                      ELSE uploaded["prod"][f]]]
  BY DEF MutateUploads, Marked
<1>3. ASSUME NEW f \in FileNames
      PROVE  LET record == uploaded["prod"][f] IN
             /\ Yanked(record, value) \in HostedRecord /\ Yanked(record, value).digest = record.digest
             /\ Yanked(record, value).yanked = value /\ Yanked(record, value).trashed = record.trashed
  <2>1. uploaded["prod"][f] \in HostedRecord BY <1>1
  <2> QED BY <2>1 DEF Yanked, HostedRecord
<1>4. ASSUME NEW f \in Uploads("prod")
      PROVE  Yanked(uploaded["prod"][f], value) # NoRecord /\ uploaded["prod"][f] # NoRecord /\ f \in FileNames
  <2>1. f \in FileNames /\ uploaded["prod"][f] # NoRecord BY DEF Uploads
  <2>2. Yanked(uploaded["prod"][f], value).digest # NoContent BY <1>1, <1>3, <2>1, RecordsHaveContent
  <2> QED BY <2>1, <2>2 DEF NoRecord
<1>5. ASSUME NEW f \in FileNames
      PROVE  uploaded'["prod"][f] = IF f \in Uploads("prod") /\ Matches(f, version) THEN Yanked(uploaded["prod"][f], value)
                                    ELSE uploaded["prod"][f]
  BY <1>1, <1>2
<1>6. \A i \in Hosted \ {"prod"} : uploaded'[i] = uploaded[i] BY <1>1, <1>2
<1>7. uploaded' \in [Hosted -> [FileNames -> HostedRecord]] BY <1>1, <1>2, <1>3
<1>8. Rewritten(w) BY <1>1, <1>3, <1>4, <1>5, <1>6, <1>7 DEF Rewritten
<1> QED BY <1>3, <1>4, <1>5, <1>7, <1>8

LEMMA TrashedRewrites ==
    ASSUME HostedInv, NEW w \in Writers, NEW value \in BOOLEAN, NEW version,
           MutateUploads(version, "trashed", value)
    PROVE  /\ Rewritten(w) /\ uploaded' \in [Hosted -> [FileNames -> HostedRecord]]
           /\ \A f \in Uploads("prod") : Matches(f, version) => uploaded'["prod"][f].trashed = value
           /\ \A f \in FileNames : \/ uploaded'["prod"][f] = uploaded["prod"][f]
                                   \/ uploaded'["prod"][f].trashed = value
<1>1. uploaded \in [Hosted -> [FileNames -> HostedRecord]] /\ "prod" \in Hosted BY DEF HostedInv, HostedTyped, Hosted
<1>2. uploaded' = [uploaded EXCEPT !["prod"] = [f \in FileNames |->
                      IF f \in Uploads("prod") /\ Matches(f, version) THEN Trashed(uploaded["prod"][f], value)
                      ELSE uploaded["prod"][f]]]
  BY DEF MutateUploads, Marked
<1>3. ASSUME NEW f \in FileNames
      PROVE  LET record == uploaded["prod"][f] IN
             /\ Trashed(record, value) \in HostedRecord /\ Trashed(record, value).digest = record.digest
             /\ Trashed(record, value).trashed = value
  <2>1. uploaded["prod"][f] \in HostedRecord BY <1>1
  <2> QED BY <2>1 DEF Trashed, HostedRecord
<1>4. ASSUME NEW f \in Uploads("prod")
      PROVE  Trashed(uploaded["prod"][f], value) # NoRecord /\ uploaded["prod"][f] # NoRecord /\ f \in FileNames
  <2>1. f \in FileNames /\ uploaded["prod"][f] # NoRecord BY DEF Uploads
  <2>2. Trashed(uploaded["prod"][f], value).digest # NoContent BY <1>1, <1>3, <2>1, RecordsHaveContent
  <2> QED BY <2>1, <2>2 DEF NoRecord
<1>5. ASSUME NEW f \in FileNames
      PROVE  uploaded'["prod"][f] = IF f \in Uploads("prod") /\ Matches(f, version) THEN Trashed(uploaded["prod"][f], value)
                                    ELSE uploaded["prod"][f]
  BY <1>1, <1>2
<1>6. \A i \in Hosted \ {"prod"} : uploaded'[i] = uploaded[i] BY <1>1, <1>2
<1>7. uploaded' \in [Hosted -> [FileNames -> HostedRecord]] BY <1>1, <1>2, <1>3
<1>8. Rewritten(w) BY <1>1, <1>3, <1>4, <1>5, <1>6, <1>7 DEF Rewritten
<1> QED BY <1>3, <1>4, <1>5, <1>7, <1>8

(* What is left to show of a step of a mutation. *)
LEMMA MutationSettles ==
    ASSUME HostedInv, NEW w \in Writers, NEW at \in WriterPlaces, NEW names, NEW mine,
           Moved(w, at, names, mine), UNCHANGED <<artifacts, siblings, acked>>,
           writer[w].op \in {"yank", "unyank", "delete", "restore"},
           at \in {"served", "overrides"} => writer[w].op # "restore",
           Rewritten(w) \/ UNCHANGED uploaded, uploaded' \in [Hosted -> [FileNames -> HostedRecord]],
           override' \in [FileNames -> {"none", "yanked", "hidden"}],
           Mutates(w) => Mutates(w)'
    PROVE  HostedInv'
<1>1. StoreGrows BY DEF StoreGrows
<1>2. RecordsKept' /\ AcksKept' BY <1>1, RecordsStay, RewritingKeeps
<1>3. HostedTyped' BY DEF HostedInv, HostedTyped, Moved
<1>4. Prepared(w)' BY DEF Prepared, Moved, WriterAt
<1> QED BY <1>1, <1>2, <1>3, <1>4, StepSettles

LEMMA ListUploadsInv ==
    ASSUME HostedInv, NEW w \in Writers, ListUploads(w) \/ DeleteListUploads(w)
    PROVE  HostedInv'
<1> DEFINE mine == {<<f, NoRecord>> : f \in Uploads("prod")}
<1>1. PICK at \in {"records", "trash"} :
        /\ writer' = [writer EXCEPT ![w].at = at, ![w].mine = mine]
        /\ IF at = "records" THEN writer[w].op \in {"yank", "unyank"} /\ writer[w].at = "list"
           ELSE writer[w].op = "delete" /\ writer[w].at = "uploads"
        /\ UNCHANGED <<uploaded, override, artifacts, siblings, acked>>
  BY DEF ListUploads, DeleteListUploads, WriterAt
<1>2. mine \in SUBSET (FileNames \X HostedRecord) /\ {e[1] : e \in mine} = Uploads("prod")
  <2>1. Uploads("prod") \subseteq FileNames /\ NoRecord \in HostedRecord BY DEF Uploads, NoRecord, HostedRecord
  <2>2. mine \in SUBSET (FileNames \X HostedRecord) BY <2>1
  <2>3. ASSUME NEW f \in Uploads("prod") PROVE f \in {e[1] : e \in mine}
    <3>1. <<f, NoRecord>> \in mine /\ <<f, NoRecord>>[1] = f OBVIOUS
    <3> QED BY <3>1
  <2>4. ASSUME NEW e \in mine PROVE e[1] \in Uploads("prod") OBVIOUS
  <2> QED BY <2>2, <2>3, <2>4
<1> HIDE DEF mine
<1>3. Moved(w, at, writer[w].names, mine) BY <1>1, <1>2, TakesMoves DEF HostedInv, WriterEnds, WriterPlaces
<1>4. /\ writer'[w].at = at /\ writer'[w].op = writer[w].op /\ writer'[w].mine = mine
      /\ writer'[w].names = writer[w].names /\ writer'[w].version = writer[w].version /\ writer'[w].heard = writer[w].heard
  BY <1>1, <1>3 DEF Moved
<1>5. /\ Mine(w)' = Uploads("prod")' /\ Listed(w)' = Listed(w)
  <2>1. Mine(w)' = {e[1] : e \in mine} BY <1>4 DEF Mine
  <2>2. Uploads("prod")' = Uploads("prod") BY <1>1 DEF Uploads
  <2>3. Served' = Served BY <1>1 DEF Served, Shown
  <2>4. Asked(w)' = Asked(w) BY <1>4 DEF Asked
  <2> QED BY <1>2, <1>4, <2>1, <2>2, <2>3, <2>4 DEF Listed
<1>6. Mutates(w) => Mutates(w)'
  <2>1. CASE at = "records" BY <1>1, <1>4, <1>5, <2>1 DEF Mutates, Yanking
  <2>2. CASE at = "trash" BY <1>1, <1>4, <1>5, <2>2 DEF Mutates, Deleting
  <2> QED BY <2>1, <2>2
<1> QED BY <1>1, <1>3, <1>6, MutationSettles DEF HostedInv, HostedTyped, WriterPlaces

LEMMA YankUploadsInv ==
    ASSUME HostedInv, NEW w \in Writers, YankUploads(w)
    PROVE  HostedInv'
<1>1. /\ writer[w].op \in {"yank", "unyank"} /\ writer[w].at = "records" /\ WriterGoes(w, "served")
      /\ UNCHANGED <<override, artifacts, siblings, acked>>
  BY DEF YankUploads
<1>2. PICK value \in BOOLEAN : value = (writer[w].op = "yank") OBVIOUS
<1>3. MutateUploads(writer[w].version, "yanked", value) BY <1>2 DEF YankUploads
<1>4. Moved(w, "served", writer[w].names, writer[w].mine) BY <1>1, GoesMoves DEF HostedInv, WriterEnds, WriterPlaces
<1>5. /\ Rewritten(w) /\ uploaded' \in [Hosted -> [FileNames -> HostedRecord]]
      /\ \A f \in Uploads("prod") : Matches(f, writer[w].version) => uploaded'["prod"][f].yanked = value
  BY <1>3, YankedRewrites
<1>6. /\ writer'[w].at = "served" /\ writer'[w].op = writer[w].op /\ writer'[w].mine = writer[w].mine
      /\ writer'[w].version = writer[w].version
  BY <1>4 DEF Moved
<1>7. Uploads("prod")' = Uploads("prod") /\ Mine(w)' = Mine(w) /\ Asked(w)' = Asked(w)
  <2>1. "prod" \in Hosted /\ StoreGrows BY <1>1 DEF Hosted, StoreGrows
  <2> QED BY <1>1, <1>5, <1>6, <2>1, RewritingKeeps DEF Mine, Asked
<1>8. writer[w].op = "yank" => \A f \in Uploads("prod")' \cap Asked(w)' : uploaded'["prod"][f].yanked
  BY <1>2, <1>5, <1>7 DEF Asked
<1>9. Mutates(w) => Mutates(w)' BY <1>1, <1>6, <1>7, <1>8 DEF Mutates, Yanking
<1> QED BY <1>1, <1>4, <1>5, <1>9, MutationSettles DEF HostedInv, HostedTyped, WriterPlaces

LEMMA ListServedInv ==
    ASSUME HostedInv, NEW w \in Writers, ListServed(w)
    PROVE  HostedInv'
<1>1. writer[w].at = "served" /\ UNCHANGED <<uploaded, override, artifacts, siblings, acked>> BY DEF ListServed
<1>2. writer[w].op \in {"yank", "unyank", "delete"} BY <1>1 DEF HostedInv, Prepared
<1>3. CASE WriterGoes(w, "refused")
  <2>1. Moved(w, "refused", writer[w].names, writer[w].mine)
    BY <1>1, <1>3, GoesMoves DEF HostedInv, WriterEnds, WriterPlaces
  <2>2. Mutates(w)' BY <2>1 DEF Mutates, Moved, Deleting, Yanking, Restoring
  <2> QED BY <1>1, <1>2, <2>1, <2>2, MutationSettles DEF HostedInv, HostedTyped, WriterPlaces
<1>4. ASSUME NEW heard \in BOOLEAN, NEW page \in SUBSET Served, heard => page = Served, Lists(w, page, heard)
      PROVE  HostedInv'
  <2> DEFINE at == IF writer[w].op = "delete" THEN "uploads" ELSE "overrides"
             names == {f \in page : Matches(f, writer[w].version)}
  <2>1. writer' = [writer EXCEPT ![w].at = at, ![w].heard = heard, ![w].names = names] BY <1>4 DEF Lists
  <2>2. names \in SUBSET FileNames /\ (heard => names = Served \cap Asked(w)) /\ at \in WriterPlaces
    BY <1>4, HostedAssumption DEF Served, Shown, Asked, WriterPlaces
  <2> HIDE DEF names
  <2>3. Moved(w, at, names, writer[w].mine) /\ writer'[w].heard = heard
    BY <1>1, <2>1, <2>2, HearsMoves DEF HostedInv
  <2>4. /\ writer'[w].at = at /\ writer'[w].op = writer[w].op /\ writer'[w].mine = writer[w].mine
        /\ writer'[w].names = names /\ writer'[w].version = writer[w].version
    BY <2>3 DEF Moved
  <2>5. Served' = Served /\ Asked(w)' = Asked(w) /\ Mine(w)' = Mine(w) /\ Uploads("prod")' = Uploads("prod")
    BY <1>1, <2>4 DEF Served, Shown, Asked, Mine, Uploads
  <2>6. Mutates(w) => Mutates(w)'
    <3>1. CASE writer[w].op = "delete" BY <2>2, <2>3, <2>4, <2>5, <3>1 DEF Mutates, Deleting, Listed
    <3>2. CASE writer[w].op = "yank" BY <1>1, <2>2, <2>3, <2>4, <2>5, <3>2 DEF Mutates, Yanking
    <3> QED BY <1>2, <2>4, <3>1, <3>2 DEF Mutates
  <2> QED BY <1>1, <1>2, <2>2, <2>3, <2>6, MutationSettles DEF HostedInv, HostedTyped
<1>5. ServedByHosted \subseteq Served BY DEF ServedByHosted
<1> QED BY <1>3, <1>4, <1>5 DEF ListServed

LEMMA OverrideInv ==
    ASSUME HostedInv, NEW w \in Writers, NEW f \in FileNames, OverrideFile(w, f)
    PROVE  HostedInv'
<1>1. /\ writer[w].at = "overrides" /\ f \in writer[w].names \ Mine(w)
      /\ writer' = [writer EXCEPT ![w].names = @ \ {f}]
      /\ UNCHANGED <<uploaded, artifacts, siblings, acked>>
  BY DEF OverrideFile
<1>2. writer[w].op \in {"yank", "unyank", "delete"} BY <1>1 DEF HostedInv, Prepared
<1>3. PICK kind \in {"yanked", "none", "hidden"} :
        /\ override' = [override EXCEPT ![f] = kind]
        /\ writer[w].op = "yank" => kind = "yanked"
        /\ writer[w].op = "delete" => kind = "hidden"
  <2>1. CASE writer[w].op = "yank" BY <2>1 DEF OverrideFile
  <2>2. CASE writer[w].op = "unyank" BY <2>2 DEF OverrideFile
  <2>3. CASE writer[w].op = "delete" BY <2>3 DEF OverrideFile
  <2> QED BY <1>2, <2>1, <2>2, <2>3
<1>4. /\ override' \in [FileNames -> {"none", "yanked", "hidden"}] /\ override'[f] = kind
      /\ \A g \in FileNames \ {f} : override'[g] = override[g]
  BY <1>3 DEF HostedInv, HostedTyped
<1>5. Moved(w, "overrides", writer[w].names \ {f}, writer[w].mine) BY <1>1, DropsMoves DEF HostedInv, WriterEnds
<1>6. /\ writer'[w].at = "overrides" /\ writer'[w].op = writer[w].op /\ writer'[w].mine = writer[w].mine
      /\ writer'[w].names = writer[w].names \ {f} /\ writer'[w].version = writer[w].version
      /\ writer'[w].heard = writer[w].heard
  BY <1>1, <1>5 DEF Moved
<1>7. Asked(w)' = Asked(w) /\ Mine(w)' = Mine(w) /\ Uploads("prod")' = Uploads("prod") /\ Asked(w) \subseteq FileNames
  BY <1>1, <1>6 DEF Asked, Mine, Uploads
<1>8. \A g \in FileNames \ {f} : g \in Served' => g \in Served BY <1>1, <1>4 DEF Served, Shown
<1>9. Mutates(w) => Mutates(w)'
  <2>1. CASE writer[w].op = "delete"
    <3>1. f \notin Served' BY <1>3, <1>4, <2>1 DEF Served
    <3>2. Listed(w) => Listed(w)' BY <1>6, <1>7, <1>8, <3>1 DEF Listed
    <3> QED BY <1>1, <1>6, <1>7, <2>1, <3>2 DEF Mutates, Deleting
  <2>2. CASE writer[w].op = "yank"
    <3>1. (\A g \in Served \cap Asked(w) : g \in writer[w].names \/ override[g] = "yanked")
          => \A g \in Served' \cap Asked(w)' : g \in writer'[w].names \/ override'[g] = "yanked"
      BY <1>3, <1>4, <1>6, <1>7, <1>8, <2>2
    <3> QED BY <1>1, <1>6, <1>7, <2>2, <3>1 DEF Mutates, Yanking
  <2> QED BY <1>2, <1>6, <2>1, <2>2 DEF Mutates
<1> QED BY <1>1, <1>2, <1>4, <1>5, <1>9, MutationSettles DEF HostedInv, HostedTyped, WriterPlaces

LEMMA EndOverridesInv ==
    ASSUME HostedInv, NEW w \in Writers, EndOverrides(w)
    PROVE  HostedInv'
<1>1. /\ writer[w].at = "overrides" /\ writer[w].names \subseteq Mine(w) /\ WriterGoes(w, "done")
      /\ UNCHANGED <<uploaded, override, artifacts, siblings, acked>>
  BY DEF EndOverrides
<1>2. writer[w].op \in {"yank", "unyank", "delete"} BY <1>1 DEF HostedInv, Prepared
<1>3. Moved(w, "done", writer[w].names, writer[w].mine) BY <1>1, GoesMoves DEF HostedInv, WriterEnds, WriterPlaces
<1>4. writer'[w].at = "done" /\ writer'[w].op = writer[w].op /\ writer'[w].version = writer[w].version
      /\ writer'[w].heard = writer[w].heard
  BY <1>1, <1>3 DEF Moved
<1>5. Asked(w)' = Asked(w) /\ Served' = Served /\ \A f : ServedYanked(f)' = ServedYanked(f)
  BY <1>1, <1>4 DEF Asked, Served, Shown, ServedYanked, Uploads
<1>6. Mutates(w) => Mutates(w)'
  <2>1. ASSUME writer[w].op = "delete", Deleting(w)
        PROVE  Deleting(w)'
    <3>1. ASSUME NEW f \in Served \cap Asked(w) PROVE f \in UpstreamFiles /\ (writer[w].heard => uploaded["prod"][f].trashed)
      <4>1. f \in Uploads("prod") => uploaded["prod"][f].trashed BY <1>1, <2>1 DEF Deleting
      <4>2. writer[w].heard => f \in Uploads("prod") BY <1>1, <2>1 DEF Deleting, Listed
      <4>3. f \in UpstreamFiles BY <4>1 DEF Served, Shown, Uploads
      <4> QED BY <4>1, <4>2, <4>3
    <3>2. Served' \cap Asked(w)' \subseteq {f \in UpstreamFiles : writer'[w].heard => uploaded'["prod"][f].trashed}
      BY <1>1, <1>4, <1>5, <3>1
    <3> QED BY <1>4, <3>2 DEF Deleting
  <2>2. ASSUME writer[w].op = "yank", Yanking(w)
        PROVE  Yanking(w)'
    <3>1. ASSUME NEW f \in Served \cap Asked(w)
          PROVE  ServedYanked(f) \/ uploaded["prod"][f].trashed \/ (~writer[w].heard /\ f \notin Uploads("prod"))
      <4>1. f \in Uploads("prod") => uploaded["prod"][f].yanked BY <1>1, <2>2 DEF Yanking
      <4>2. writer[w].heard => f \in Uploads("prod") \/ override[f] = "yanked" BY <1>1, <2>2 DEF Yanking
      <4> QED BY <4>1, <4>2 DEF ServedYanked
    <3>2. Uploads("prod")' = Uploads("prod") BY <1>1 DEF Uploads
    <3>3. \A f \in Served' \cap Asked(w)' :
             ServedYanked(f)' \/ uploaded'["prod"][f].trashed \/ (~writer'[w].heard /\ f \notin Uploads("prod")')
      BY <1>1, <1>4, <1>5, <3>1, <3>2
    <3> QED BY <1>4, <3>3 DEF Yanking
  <2> QED BY <1>2, <1>4, <2>1, <2>2 DEF Mutates
<1> QED BY <1>1, <1>2, <1>3, <1>6, MutationSettles DEF HostedInv, HostedTyped, WriterPlaces

LEMMA TrashUploadsInv ==
    ASSUME HostedInv, NEW w \in Writers, TrashUploads(w)
    PROVE  HostedInv'
<1>1. /\ writer[w].op = "delete" /\ writer[w].at = "trash" /\ UNCHANGED <<override, artifacts, siblings, acked>>
  BY DEF TrashUploads, WriterAt
<1>2. CASE WriterGoes(w, "refused") /\ UNCHANGED uploaded
  <2>1. Moved(w, "refused", writer[w].names, writer[w].mine)
    BY <1>1, <1>2, GoesMoves DEF HostedInv, WriterEnds, WriterPlaces
  <2>2. Mutates(w)' BY <2>1 DEF Mutates, Moved, Deleting, Yanking, Restoring
  <2> QED BY <1>1, <1>2, <2>1, <2>2, MutationSettles DEF HostedInv, HostedTyped, WriterPlaces
<1>3. CASE MutateUploads(writer[w].version, "trashed", TRUE) /\ WriterGoes(w, "overrides")
  <2>1. Moved(w, "overrides", writer[w].names, writer[w].mine)
    BY <1>1, <1>3, GoesMoves DEF HostedInv, WriterEnds, WriterPlaces
  <2>2. /\ Rewritten(w) /\ uploaded' \in [Hosted -> [FileNames -> HostedRecord]]
        /\ \A f \in Uploads("prod") : Matches(f, writer[w].version) => uploaded'["prod"][f].trashed = TRUE
        /\ \A f \in FileNames : uploaded'["prod"][f] = uploaded["prod"][f] \/ uploaded'["prod"][f].trashed = TRUE
    BY <1>3, TrashedRewrites
  <2>3. /\ writer'[w].at = "overrides" /\ writer'[w].op = writer[w].op /\ writer'[w].mine = writer[w].mine
        /\ writer'[w].names = writer[w].names /\ writer'[w].version = writer[w].version /\ writer'[w].heard = writer[w].heard
    BY <1>1, <2>1 DEF Moved
  <2>4. Uploads("prod")' = Uploads("prod") /\ Mine(w)' = Mine(w) /\ Asked(w)' = Asked(w)
    <3>1. "prod" \in Hosted /\ StoreGrows BY <1>1 DEF Hosted, StoreGrows
    <3> QED BY <1>1, <2>2, <2>3, <3>1, RewritingKeeps DEF Mine, Asked
  <2>5. Served' \subseteq Served BY <1>1, <2>2, <2>4 DEF Served, Shown, Uploads
  <2>6. Deleting(w) => Deleting(w)' BY <1>1, <2>2, <2>3, <2>4, <2>5 DEF Deleting, Listed, Asked
  <2> QED BY <1>1, <2>1, <2>2, <2>3, <2>6, MutationSettles DEF HostedInv, HostedTyped, WriterPlaces, Mutates
<1> QED BY <1>2, <1>3 DEF TrashUploads

LEMMA UntrashUploadsInv ==
    ASSUME HostedInv, NEW w \in Writers, UntrashUploads(w)
    PROVE  HostedInv'
<1> DEFINE names == {f \in FileNames : override[f] = "hidden" /\ Matches(f, writer[w].version)}
<1>1. /\ writer[w].op = "restore" /\ writer[w].at = "records" /\ UNCHANGED <<override, artifacts, siblings, acked>>
      /\ writer' = [writer EXCEPT ![w].at = "hidden", ![w].names = names]
      /\ MutateUploads(writer[w].version, "trashed", FALSE)
  BY DEF UntrashUploads, WriterAt
<1>2. names \in SUBSET FileNames OBVIOUS
<1>3. /\ Rewritten(w) /\ uploaded' \in [Hosted -> [FileNames -> HostedRecord]]
      /\ \A f \in Uploads("prod") : Matches(f, writer[w].version) => uploaded'["prod"][f].trashed = FALSE
  BY <1>1, TrashedRewrites
<1>4. Moved(w, "hidden", names, writer[w].mine) BY <1>1, <1>2, ListsMoves DEF HostedInv, WriterEnds, WriterPlaces
<1>5. /\ writer'[w].at = "hidden" /\ writer'[w].op = writer[w].op
      /\ writer'[w].names = names /\ writer'[w].version = writer[w].version
  BY <1>4 DEF Moved
<1>6. \A f \in FileNames : f \notin Uploads("prod") => uploaded'["prod"][f].trashed = FALSE
  BY <1>3 DEF Rewritten, Uploads, NoRecord, Hosted
<1>7. Restoring(w)' BY <1>1, <1>3, <1>5, <1>6 DEF Restoring, Asked
<1> QED BY <1>1, <1>3, <1>4, <1>5, <1>7, MutationSettles DEF HostedInv, HostedTyped, WriterPlaces, Mutates

LEMMA RestoreFileInv ==
    ASSUME HostedInv, NEW w \in Writers, RestoreFile(w)
    PROVE  HostedInv'
<1>1. /\ writer[w].op = "restore" /\ writer[w].at = "hidden" /\ UNCHANGED <<uploaded, artifacts, siblings, acked>>
  BY DEF RestoreFile, WriterAt
<1>2. CASE writer[w].names = {}
  <2>1. WriterGoes(w, "done") /\ UNCHANGED override BY <1>2 DEF RestoreFile
  <2>2. Moved(w, "done", writer[w].names, writer[w].mine)
    BY <1>1, <2>1, GoesMoves DEF HostedInv, WriterEnds, WriterPlaces
  <2>3. writer'[w].at = "done" /\ writer'[w].op = writer[w].op /\ writer'[w].version = writer[w].version
    BY <2>2 DEF Moved
  <2>4. Restoring(w) => Restoring(w)' BY <1>1, <1>2, <2>1, <2>3 DEF Restoring, Asked
  <2> QED BY <1>1, <2>1, <2>2, <2>3, <2>4, MutationSettles DEF HostedInv, HostedTyped, WriterPlaces, Mutates
<1>3. CASE writer[w].names # {}
  <2>1. PICK f \in writer[w].names : /\ override' = [override EXCEPT ![f] = "none"]
                                    /\ writer' = [writer EXCEPT ![w].names = @ \ {f}]
    BY <1>3 DEF RestoreFile
  <2>2. f \in FileNames BY DEF HostedInv, HostedTyped, HostedWriter
  <2>3. Moved(w, "hidden", writer[w].names \ {f}, writer[w].mine)
    BY <1>1, <2>1, <2>2, DropsMoves DEF HostedInv, WriterEnds
  <2>4. /\ writer'[w].at = "hidden" /\ writer'[w].op = writer[w].op /\ writer'[w].names = writer[w].names \ {f}
        /\ writer'[w].version = writer[w].version
    BY <2>3 DEF Moved
  <2>5. /\ override' \in [FileNames -> {"none", "yanked", "hidden"}] /\ override'[f] = "none"
        /\ \A g \in FileNames \ {f} : override'[g] = override[g]
    BY <2>1, <2>2 DEF HostedInv, HostedTyped
  <2>6. Restoring(w) => Restoring(w)' BY <1>1, <2>4, <2>5 DEF Restoring, Asked
  <2> QED BY <1>1, <2>3, <2>4, <2>5, <2>6, MutationSettles DEF HostedInv, HostedTyped, WriterPlaces, Mutates
<1> QED BY <1>2, <1>3

LEMMA HostedCrashInv == HostedInv /\ HostedCrash => HostedInv'
<1> SUFFICES ASSUME HostedInv, HostedCrash PROVE HostedInv' OBVIOUS
<1>1. writer' = [w \in Writers |-> AtRest] /\ UNCHANGED <<uploaded, override, artifacts, siblings, acked>>
  BY DEF HostedCrash
<1>2. AtRest \in HostedWriter BY DEF AtRest, HostedWriter, WriterPlaces, WriterOps, Hosted, VersionsAsked
<1>3. HostedTyped' /\ RecordsKept' /\ AcksKept' BY <1>1, <1>2, RecordsStay DEF HostedInv, HostedTyped, StoreGrows
<1>4. ASSUME NEW w \in Writers PROVE Prepared(w)' /\ Reaches(w)'
  <2>1. writer'[w].at = "idle" /\ writer'[w].op = "none" /\ writer'[w].alone = FALSE BY <1>1 DEF AtRest
  <2> QED BY <2>1 DEF Prepared, Reaches, WriterAt
<1> QED BY <1>3, <1>4 DEF HostedInv

--------------------------------
(* Every step. *)

LEMMA BeginningsInv ==
    ASSUME HostedInv, NEW w \in Writers,
           \/ \E i \in Hosted, f \in FileNames, d \in FileContents : BeginUpload(w, i, f, d)
           \/ \E v \in VersionsAsked :
                \/ BeginDelete(w, v) \/ BeginRestore(w, v)
                \/ BeginYank(w, "yank", v) \/ BeginYank(w, "unyank", v)
                \/ v # AnyVersion /\ BeginPromote(w, v)
    PROVE  HostedInv'
<1>1. ASSUME NEW i \in Hosted, NEW f \in FileNames, NEW d \in FileContents, BeginUpload(w, i, f, d)
      PROVE  HostedInv'
  <2>1. AnyVersion \in VersionsAsked /\ "upload" \in WriterOps BY DEF VersionsAsked, WriterOps
  <2>2. Begins(w, "upload", i, f, d, AnyVersion, "size") /\ UNCHANGED <<uploaded, override, artifacts, siblings, acked>>
    BY <1>1 DEF BeginUpload
  <2> QED BY <2>1, <2>2, BeginsInv
<1>2. ASSUME NEW v \in VersionsAsked, BeginDelete(w, v) \/ BeginRestore(w, v) \/ BeginYank(w, "yank", v)
                                      \/ BeginYank(w, "unyank", v) \/ BeginPromote(w, v)
      PROVE  HostedInv'
  <2>1. PICK op \in {"delete", "restore", "yank", "unyank", "promote"}, at \in {"read", "list", "served", "records"} :
          /\ Begins(w, op, "prod", "none", NoContent, v, at)
          /\ at = "served" => op = "delete"
          /\ op = "yank" => at = "list"
    BY <1>2 DEF BeginDelete, BeginRestore, BeginYank, BeginPromote
  <2>2. UNCHANGED <<uploaded, override, artifacts, siblings, acked>>
    BY <1>2 DEF BeginDelete, BeginRestore, BeginYank, BeginPromote
  <2>3. op \in WriterOps /\ "prod" \in Hosted BY DEF WriterOps, Hosted
  <2> QED BY <2>1, <2>2, <2>3, BeginsInv
<1> QED BY <1>1, <1>2

LEMMA HostedNextInv == HostedInv /\ [HostedNext]_hostedVars => HostedInv'
<1> SUFFICES ASSUME HostedInv, [HostedNext]_hostedVars PROVE HostedInv' OBVIOUS
<1>1. CASE UNCHANGED hostedVars
  BY <1>1 DEF hostedVars, HostedInv, HostedTyped, RecordsKept, AcksKept, Kept, Prepared, WriterAt, Reaches, OthersEnded,
              Mutates, Deleting, Yanking, Restoring, Listed, Served, Shown, Asked, Mine, Uploads, ServedYanked
<1>2. CASE HostedCrash BY <1>2, HostedCrashInv
<1>3. ASSUME NEW w \in Writers,
             \/ CheckProjectSize(w) \/ CheckStatus(w) \/ CommitContent(w) \/ CommitMetadata(w) \/ PublishFile(w)
             \/ ReadRelease(w) \/ PromoteFiles(w)
      PROVE  HostedInv'
  BY <1>3, UploadStepsInv, PublishInv, ReadReleaseInv, PromoteInv
<1>4. ASSUME NEW w \in Writers,
             \/ ListUploads(w) \/ YankUploads(w) \/ ListServed(w) \/ EndOverrides(w)
             \/ DeleteListUploads(w) \/ TrashUploads(w) \/ UntrashUploads(w) \/ RestoreFile(w)
             \/ \E f \in FileNames : OverrideFile(w, f)
      PROVE  HostedInv'
  BY <1>4, ListUploadsInv, YankUploadsInv, ListServedInv, EndOverridesInv, TrashUploadsInv, UntrashUploadsInv,
     RestoreFileInv, OverrideInv
<1> QED BY <1>1, <1>2, <1>3, <1>4, BeginningsInv DEF HostedNext

LEMMA HostedInvSound == HostedInv => HostingIsSound
<1> SUFFICES ASSUME HostedInv PROVE HostingIsSound OBVIOUS
<1>1. ReleasesAreImmutable
  <2>1. ASSUME NEW a \in acked PROVE uploaded[a[1]][a[2]].digest = a[3]
    <3>1. a \in Hosted \X FileNames \X FileContents BY DEF HostedInv, HostedTyped
    <3>2. a = <<a[1], a[2], a[3]>> /\ a[1] \in Hosted /\ a[2] \in FileNames /\ a[3] \in FileContents BY <3>1
    <3> QED BY <3>2 DEF HostedInv, AcksKept
  <2>2. \A i \in Hosted : \A f \in Uploads(i) : uploaded[i][f].digest \in artifacts \cap siblings
    BY DEF HostedInv, RecordsKept, Kept, Uploads
  <2> QED BY <2>1, <2>2 DEF ReleasesAreImmutable
<1>2. MutationsReachEveryFile
  <2> SUFFICES ASSUME NEW w \in Writers, writer[w].at = "done", writer[w].alone
               PROVE  LET q == writer[w]
                          asked == {f \in FileNames : Matches(f, q.version)}
                      IN  /\ q.op = "delete" =>
                                Served \cap asked \subseteq {f \in UpstreamFiles : q.heard => uploaded["prod"][f].trashed}
                          /\ q.op = "yank" => \A f \in Served \cap asked :
                                ServedYanked(f) \/ uploaded["prod"][f].trashed \/ (~q.heard /\ f \notin Uploads("prod"))
                          /\ q.op = "restore" => \A f \in asked : override[f] # "hidden" /\ ~uploaded["prod"][f].trashed
    BY DEF MutationsReachEveryFile
  <2>1. Mutates(w) BY DEF HostedInv, Reaches
  <2>2. Asked(w) = {f \in FileNames : Matches(f, writer[w].version)} BY DEF Asked
  <2> QED BY <2>1, <2>2 DEF Mutates, Deleting, Yanking, Restoring
<1> QED BY <1>1, <1>2 DEF HostingIsSound

\* For every number of requests, files and contents: a released file keeps its bytes and its place in the blob store
\* under racing uploads, promotions, mutations and crashes, and a mutation that ran alone reached every file of its
\* version - of the hosted index only, when the page it listed came without the cached layer (upload_conflict,
\* promote_conflict and publish_file_if; set_yanked, remove_files and restore_files).
THEOREM HostingStaysSound == HostedSpec => []HostingIsSound
<1>1. HostedInit => HostedInv BY HostedInitInv
<1>2. HostedInv /\ [HostedNext]_hostedVars => HostedInv' BY HostedNextInv
<1>3. HostedInv => HostingIsSound BY HostedInvSound
<1> QED BY <1>1, <1>2, <1>3, PTL DEF HostedSpec

--------------------------------
(* Requests to upstream sources: the inductive invariant.                   *)

Asking == {"send", "body", "settle"}
Attempts == MaxRetries + 1
FetchRequest ==
    [pc : {"idle", "permit", "done"} \cup Asking, kind : Kinds \cup {"none"}, project : RoutedProjects,
     left : SUBSET Positions, asked : Seq(Positions), attempt : Nat, body : Nat, sends : Nat,
     status : Statuses \cup {"none"}, result : Statuses \cup {"none", "limited"}, source : Positions \cup {NoSource}]
RangedRead == [pc : {"idle", "permit", "read", "found", "failed", "download"}, step : Nat, at : {"mirror", "origin"}]

UpTyped ==
    /\ route \in [pin : Positions, fallback : BOOLEAN, mirrorFallback : BOOLEAN]
    /\ fetch \in [Fetchers -> FetchRequest]
    /\ ranger \in [Rangers -> RangedRead]
    /\ IsFiniteSet(holders)

(* What has been asked and what is left are the candidates, and what is left comes later. *)
InOrder(x) ==
    /\ \A i, j \in DOMAIN x.asked : i < j => x.asked[i] < x.asked[j]
    /\ \A i \in DOMAIN x.asked, p \in x.left : x.asked[i] < p
OnRoute(x) ==
    /\ Len(x.asked) > 0 /\ x.source = x.asked[Len(x.asked)]
    /\ {x.asked[i] : i \in DOMAIN x.asked} \cup x.left = Candidates(x.project)
Told(x) ==
    /\ x.pc \in {"body", "settle"} => x.status \in Statuses /\ (x.status = "304" => x.source = 1)
    /\ x.pc = "done" /\ x.result # "limited" =>
         /\ x.result = "304" => x.source = 1
         /\ FallbackResult(x.result) => x.left = {}
Routed(x) ==
    /\ InOrder(x) /\ Told(x)
    /\ IF x.pc \in Asking \/ (x.pc = "done" /\ x.result # "limited") THEN OnRoute(x) ELSE x.asked = <<>>

(* A round of the body loop has paid for its attempts. *)
Paid(n) == n * Attempts
Counting(x) ==
    /\ x.attempt <= MaxRetries /\ x.body <= MaxRetries
    /\ x.sends <= Paid(x.body) + x.attempt + (IF x.pc \in {"body", "settle", "done"} THEN 1 ELSE 0)

Busy == {f \in Fetchers : fetch[f].pc \in Asking} \cup {r \in Rangers : ranger[r].pc = "read"}
Permitted == MaxConcurrent > 0 => holders = Busy /\ Cardinality(holders) <= MaxConcurrent

UpInv ==
    /\ UpTyped /\ Permitted
    /\ \A f \in Fetchers : Routed(fetch[f]) /\ Counting(fetch[f])

--------------------------------
(* The first of some sources. *)

LEMMA LeastNatural ==
    ASSUME NEW T \in SUBSET Nat, T # {}
    PROVE  \E m \in T : \A n \in T : m <= n
<1> DEFINE R == {ss \in Nat \X Nat : ss[1] < ss[2]}
<1>1. IsWellFoundedOn(R, Nat) BY NatLessThanWellFounded, Zenon DEF OpToRel
<1>2. \E x \in T : \A y \in T : ~(<<y, x>> \in R)
  <2> HIDE DEF R
  <2> QED BY <1>1, WFMin
<1>3. PICK x \in T : \A y \in T : ~(<<y, x>> \in R) BY <1>2
<1>4. \A y \in T : ~(y < x) BY <1>3
<1> QED BY <1>4

LEMMA FirstSource ==
    ASSUME NEW S \in SUBSET Positions, S # {}
    PROVE  Min(S) \in S /\ \A p \in S : Min(S) <= p
<1>1. Positions \subseteq Nat BY UpstreamAssumption DEF Positions
<1>2. \E m \in S : \A n \in S : m <= n BY <1>1, LeastNatural
<1> QED BY <1>2 DEF Min

LEMMA CandidatesExist ==
    ASSUME UpTyped, NEW project
    PROVE  Candidates(project) \in SUBSET Positions /\ Candidates(project) # {}
<1>1. route.pin \in Positions /\ 1 \in Positions BY UpstreamAssumption DEF UpTyped, Positions
<1> QED BY <1>1 DEF Candidates

LEMMA Paying ==
    ASSUME NEW n \in Nat
    PROVE  /\ Paid(n) \in Nat /\ Paid(0) = 0 /\ Paid(n + 1) = Paid(n) + MaxRetries + 1
           /\ n <= MaxRetries => Paid(n) <= Paid(MaxRetries)
<1>1. MaxRetries \in Nat BY UpstreamAssumption
<1>2. Attempts \in Nat BY <1>1 DEF Attempts
<1>3. Paid(n) \in Nat /\ Paid(0) = 0 BY <1>2 DEF Paid
<1>4. Paid(n + 1) = Paid(n) + MaxRetries + 1 BY <1>1 DEF Paid, Attempts
<1>5. ASSUME n <= MaxRetries PROVE Paid(n) <= Paid(MaxRetries) BY <1>1, <1>2, <1>5 DEF Paid
<1> QED BY <1>3, <1>4, <1>5

--------------------------------
(* Permits. *)

LEMMA PermitTaken ==
    ASSUME UpInv, NEW r, Take(r), Busy' = Busy \cup {r}
    PROVE  Permitted' /\ IsFiniteSet(holders')
<1>1. IsFiniteSet(holders) /\ Permitted /\ MaxConcurrent \in Nat BY UpstreamAssumption DEF UpInv, UpTyped
<1>2. CASE MaxConcurrent = 0 BY <1>1, <1>2 DEF Take, Permitted
<1>3. CASE MaxConcurrent > 0
  <2>1. holders' = holders \cup {r} /\ Cardinality(holders) < MaxConcurrent BY <1>3 DEF Take, PermitFree
  <2>a. IsFiniteSet(holders \cup {r})
        /\ Cardinality(holders \cup {r}) = IF r \in holders THEN Cardinality(holders) ELSE Cardinality(holders) + 1
    BY <1>1, FS_AddElement
  <2>b. Cardinality(holders) \in Nat BY <1>1, FS_CardinalityType
  <2>2. IsFiniteSet(holders') /\ Cardinality(holders') <= Cardinality(holders) + 1 /\ Cardinality(holders) \in Nat
        /\ Cardinality(holders') \in Nat
    BY <2>1, <2>a, <2>b
  <2>3. Cardinality(holders') <= MaxConcurrent BY <1>1, <2>1, <2>2
  <2>4. holders' = Busy' BY <1>1, <1>3, <2>1 DEF Permitted
  <2> QED BY <2>2, <2>3, <2>4 DEF Permitted
<1> QED BY <1>1, <1>2, <1>3

LEMMA PermitDropped ==
    ASSUME UpInv, NEW r, Drop(r), Busy' = Busy \ {r}
    PROVE  Permitted' /\ IsFiniteSet(holders')
<1>1. IsFiniteSet(holders) /\ Permitted /\ MaxConcurrent \in Nat BY UpstreamAssumption DEF UpInv, UpTyped
<1>2. holders' = holders \ {r} BY DEF Drop
<1>3. IsFiniteSet(holders') /\ Cardinality(holders') <= Cardinality(holders) /\ Cardinality(holders) \in Nat
      /\ Cardinality(holders') \in Nat
  BY <1>1, <1>2, FS_Subset, FS_CardinalityType
<1>4. ASSUME MaxConcurrent > 0 PROVE holders' = Busy' /\ Cardinality(holders') <= MaxConcurrent
  <2>1. holders = Busy /\ Cardinality(holders) <= MaxConcurrent BY <1>1, <1>4 DEF Permitted
  <2> QED BY <1>1, <1>2, <1>3, <2>1
<1> QED BY <1>3, <1>4 DEF Permitted

LEMMA PermitKept ==
    ASSUME UpInv, holders' = holders, Busy' = Busy
    PROVE  Permitted' /\ IsFiniteSet(holders')
  BY DEF UpInv, UpTyped, Permitted

--------------------------------
(* One fetch moves. *)

LEMMA FetchSettles ==
    ASSUME UpInv, NEW f \in Fetchers, NEW x \in FetchRequest, fetch' = [fetch EXCEPT ![f] = x],
           UNCHANGED <<route, ranger>>, Routed(x), Counting(x), Permitted', IsFiniteSet(holders')
    PROVE  UpInv'
<1>1. fetch' \in [Fetchers -> FetchRequest] /\ fetch'[f] = x /\ \A g \in Fetchers \ {f} : fetch'[g] = fetch[g]
  BY DEF UpInv, UpTyped
<1>2. UpTyped' BY <1>1 DEF UpInv, UpTyped
<1>3. \A g \in Fetchers : Routed(fetch'[g]) /\ Counting(fetch'[g]) BY <1>1 DEF UpInv
<1>4. \A g \in Fetchers : Routed(fetch[g])' BY <1>3 DEF Routed, InOrder, Told, OnRoute, Candidates, FallbackResult
<1>5. \A g \in Fetchers : Counting(fetch[g])' BY <1>3 DEF Counting, Paid, Attempts
<1> QED BY <1>2, <1>4, <1>5 DEF UpInv

\* Whether a fetch is busy is all that permits depend on.
LEMMA FetchIsBusy ==
    ASSUME UpInv, NEW f \in Fetchers, NEW x \in FetchRequest, fetch' = [fetch EXCEPT ![f] = x], UNCHANGED ranger
    PROVE  Busy' = IF x.pc \in Asking THEN Busy \cup {f} ELSE Busy \ {f}
<1>1. fetch'[f] = x /\ \A g \in Fetchers \ {f} : fetch'[g] = fetch[g] BY DEF UpInv, UpTyped
<1>2. f \notin Rangers BY UpstreamAssumption
<1>3. {g \in Fetchers : fetch'[g].pc \in Asking} =
        IF x.pc \in Asking THEN {g \in Fetchers : fetch[g].pc \in Asking} \cup {f}
        ELSE {g \in Fetchers : fetch[g].pc \in Asking} \ {f}
  BY <1>1
<1>4. Busy' = {g \in Fetchers : fetch'[g].pc \in Asking} \cup {r \in Rangers : ranger[r].pc = "read"} BY DEF Busy
<1> HIDE DEF Asking
<1> QED BY <1>2, <1>3, <1>4 DEF Busy

LEMMA AtWorkIsBusy ==
    ASSUME NEW f \in Fetchers
    PROVE  /\ fetch[f].pc \in Asking => f \in Busy
           /\ fetch[f].pc \notin Asking => f \notin Busy
  BY UpstreamAssumption DEF Busy

LEMMA BeginInv ==
    ASSUME UpInv, NEW f \in Fetchers, NEW kind \in Kinds, NEW project \in RoutedProjects, Begin(f, kind, project)
    PROVE  UpInv'
<1> DEFINE x == [NoFetch EXCEPT !.pc = "permit", !.kind = kind, !.project = project]
<1>1. /\ fetch[f].pc = "idle" /\ fetch' = [fetch EXCEPT ![f] = x] /\ UNCHANGED <<route, holders, ranger>> BY DEF Begin
<1>2. /\ x.pc = "permit" /\ x.asked = <<>> /\ x.left = {} /\ x.attempt = 0 /\ x.body = 0 /\ x.sends = 0
      /\ x.status = "none" /\ x.result = "none"
  BY DEF NoFetch
<1>3. x \in FetchRequest BY EmptySeq DEF NoFetch, FetchRequest, NoSource, Asking
<1> HIDE DEF x
<1>4. Routed(x) BY <1>2 DEF Routed, InOrder, Told, Asking
<1>5. Counting(x) BY <1>2, Paying, UpstreamAssumption DEF Counting
<1>6. Busy' = Busy BY <1>1, <1>2, <1>3, FetchIsBusy, AtWorkIsBusy DEF Asking
<1> QED BY <1>1, <1>3, <1>4, <1>5, <1>6, PermitKept, FetchSettles

LEMMA UpstreamPermitInv ==
    ASSUME UpInv, NEW f \in Fetchers, UpstreamPermit(f)
    PROVE  UpInv'
<1> DEFINE c == Candidates(fetch[f].project)
           x == [fetch[f] EXCEPT !.pc = "send", !.source = Min(c), !.left = c \ {Min(c)}, !.asked = <<Min(c)>>]
<1>1. /\ fetch[f].pc = "permit" /\ Take(f) /\ fetch' = [fetch EXCEPT ![f] = x] /\ UNCHANGED <<route, ranger>>
  BY DEF UpstreamPermit
<1>2. fetch[f] \in FetchRequest /\ Counting(fetch[f]) /\ Routed(fetch[f]) BY DEF UpInv, UpTyped
<1>3. c \in SUBSET Positions /\ Min(c) \in c /\ \A p \in c : Min(c) <= p BY CandidatesExist, FirstSource DEF UpInv
<1>4. PICK first \in Positions : first = Min(c) BY <1>3
<1>5. <<first>> \in Seq(Positions) /\ Len(<<first>>) = 1 /\ <<first>>[1] = first /\ DOMAIN <<first>> = {1} OBVIOUS
<1>6. /\ x.pc = "send" /\ x.asked = <<first>> /\ x.left = c \ {first} /\ x.attempt = fetch[f].attempt
      /\ x.body = fetch[f].body /\ x.sends = fetch[f].sends /\ x.source = first /\ x.project = fetch[f].project
  BY <1>2, <1>4 DEF FetchRequest
<1>7. x \in FetchRequest
  <2>1. Min(c) \in Positions /\ c \ {Min(c)} \in SUBSET Positions /\ <<Min(c)>> \in Seq(Positions) BY <1>3, <1>4, <1>5
  <2> HIDE DEF c
  <2> QED BY <1>2, <2>1 DEF FetchRequest, Asking
<1> HIDE DEF x
<1>8. InOrder(x)
  <2>1. Positions \subseteq Int BY UpstreamAssumption DEF Positions
  <2>2. ASSUME NEW p \in x.left PROVE first < p
    <3>1. p \in c /\ p # first BY <1>6, <2>2
    <3> HIDE DEF c
    <3>2. first <= p /\ p \in Int /\ first \in Int BY <1>3, <1>4, <2>1, <3>1
    <3> QED BY <3>1, <3>2
  <2> QED BY <1>5, <1>6, <2>2 DEF InOrder
<1>9. OnRoute(x)
  <2>1. {x.asked[i] : i \in DOMAIN x.asked} = {first} BY <1>5, <1>6
  <2>2. {first} \cup (c \ {first}) = c BY <1>3, <1>4
  <2> QED BY <1>5, <1>6, <2>1, <2>2 DEF OnRoute
<1>10. Routed(x) BY <1>6, <1>8, <1>9 DEF Routed, Told, Asking
<1>11. Counting(x) BY <1>1, <1>2, <1>6 DEF Counting
<1>12. Busy' = Busy \cup {f} BY <1>1, <1>6, <1>7, FetchIsBusy DEF Asking
<1> QED BY <1>1, <1>7, <1>10, <1>11, <1>12, PermitTaken, FetchSettles

LEMMA PermitTimesOutInv ==
    ASSUME UpInv, NEW f \in Fetchers, PermitTimesOut(f)
    PROVE  UpInv'
<1> DEFINE x == [fetch[f] EXCEPT !.pc = "done", !.result = "limited"]
<1>1. /\ fetch[f].pc = "permit" /\ fetch' = [fetch EXCEPT ![f] = x] /\ UNCHANGED <<route, holders, ranger>>
  BY DEF PermitTimesOut
<1>2. fetch[f] \in FetchRequest /\ Counting(fetch[f]) /\ Routed(fetch[f]) BY DEF UpInv, UpTyped
<1>3. /\ x.pc = "done" /\ x.result = "limited" /\ x.asked = fetch[f].asked /\ x.left = fetch[f].left
      /\ x.attempt = fetch[f].attempt /\ x.body = fetch[f].body /\ x.sends = fetch[f].sends /\ x \in FetchRequest
  BY <1>2 DEF FetchRequest, Asking
<1> HIDE DEF x
<1>4. Routed(x) BY <1>1, <1>2, <1>3 DEF Routed, InOrder, Told, Asking
<1>5. Counting(x)
  <2>1. Paid(x.body) \in Nat /\ x.attempt \in Nat /\ x.sends \in Nat BY <1>3, Paying DEF FetchRequest
  <2> QED BY <1>1, <1>2, <1>3, <2>1 DEF Counting
<1>6. Busy' = Busy BY <1>1, <1>3, FetchIsBusy, AtWorkIsBusy DEF Asking
<1> QED BY <1>1, <1>3, <1>4, <1>5, <1>6, PermitKept, FetchSettles

LEMMA SendInv ==
    ASSUME UpInv, NEW f \in Fetchers, NEW status \in Statuses, Send(f, status)
    PROVE  UpInv'
<1>1. /\ fetch[f].pc = "send" /\ (status = "304" => fetch[f].source = 1) /\ UNCHANGED <<route, holders, ranger>>
  BY DEF Send, Conditional
<1>2. fetch[f] \in FetchRequest /\ Counting(fetch[f]) /\ Routed(fetch[f]) BY DEF UpInv, UpTyped
<1>3. Paid(fetch[f].body) \in Nat /\ fetch[f].attempt \in Nat /\ fetch[f].sends \in Nat /\ fetch[f].body \in Nat /\ MaxRetries \in Nat
  BY <1>2, Paying, UpstreamAssumption DEF FetchRequest
<1>4. CASE status \in Retried /\ fetch[f].attempt < MaxRetries
  <2> DEFINE x == [fetch[f] EXCEPT !.attempt = @ + 1, !.sends = @ + 1]
  <2>1. fetch' = [fetch EXCEPT ![f] = x] BY <1>4 DEF Send
  <2>2. /\ x.pc = "send" /\ x.attempt = fetch[f].attempt + 1 /\ x.sends = fetch[f].sends + 1 /\ x.body = fetch[f].body
        /\ x.asked = fetch[f].asked /\ x.left = fetch[f].left /\ x.source = fetch[f].source
        /\ x.project = fetch[f].project
    BY <1>1, <1>2 DEF FetchRequest
  <2>m. x \in FetchRequest
    <3>1. fetch[f].attempt + 1 \in Nat /\ fetch[f].sends + 1 \in Nat BY <1>3
    <3> QED BY <1>2, <3>1 DEF FetchRequest
  <2> HIDE DEF x
  <2>3. Routed(x) BY <1>1, <1>2, <2>2 DEF Routed, InOrder, OnRoute, Told, Asking
  <2>4. Counting(x) BY <1>1, <1>2, <1>3, <1>4, <2>2 DEF Counting
  <2>5. Busy' = Busy BY <1>1, <2>1, <2>2, <2>m, FetchIsBusy, AtWorkIsBusy DEF Asking
  <2> QED BY <1>1, <2>1, <2>m, <2>3, <2>4, <2>5, PermitKept, FetchSettles
<1>5. CASE ~(status \in Retried /\ fetch[f].attempt < MaxRetries)
  <2> DEFINE pc == IF Body(fetch[f].kind) /\ status \notin {"transient", "fatal", "badtype"} THEN "body" ELSE "settle"
             x == [fetch[f] EXCEPT !.pc = pc, !.status = status, !.sends = @ + 1]
  <2>1. fetch' = [fetch EXCEPT ![f] = x] /\ pc \in {"body", "settle"} BY <1>5 DEF Send
  <2> HIDE DEF pc
  <2>2. /\ x.pc = pc /\ x.attempt = fetch[f].attempt /\ x.sends = fetch[f].sends + 1 /\ x.body = fetch[f].body
        /\ x.asked = fetch[f].asked /\ x.left = fetch[f].left /\ x.source = fetch[f].source /\ x.status = status
        /\ x.project = fetch[f].project
    BY <1>2 DEF FetchRequest
  <2>3. x \in FetchRequest
    <3>1. pc \in {"idle", "permit", "done"} \cup Asking /\ fetch[f].sends + 1 \in Nat /\ status \in Statuses \cup {"none"}
      BY <1>3, <2>1 DEF Asking
    <3> QED BY <1>2, <3>1 DEF FetchRequest
  <2> HIDE DEF x
  <2>4. Routed(x) BY <1>1, <1>2, <2>1, <2>2 DEF Routed, InOrder, OnRoute, Told, Asking
  <2>5. Counting(x) BY <1>1, <1>2, <1>3, <2>1, <2>2 DEF Counting
  <2>6. Busy' = Busy BY <1>1, <2>1, <2>2, <2>3, FetchIsBusy, AtWorkIsBusy DEF Asking
  <2> QED BY <1>1, <2>1, <2>3, <2>4, <2>5, <2>6, PermitKept, FetchSettles
<1> QED BY <1>4, <1>5

LEMMA ReadBodyInv ==
    ASSUME UpInv, NEW f \in Fetchers, NEW how \in {"whole", "transient", "fatal"}, ReadBody(f, how)
    PROVE  UpInv'
<1>1. fetch[f].pc = "body" /\ UNCHANGED <<route, holders, ranger>> BY DEF ReadBody
<1>2. fetch[f] \in FetchRequest /\ Counting(fetch[f]) /\ Routed(fetch[f]) BY DEF UpInv, UpTyped
<1>3. /\ Paid(fetch[f].body) \in Nat /\ fetch[f].attempt \in Nat /\ fetch[f].sends \in Nat
      /\ fetch[f].body \in Nat /\ MaxRetries \in Nat
  BY <1>2, Paying, UpstreamAssumption DEF FetchRequest
<1>4. CASE how = "whole"
  <2> DEFINE x == [fetch[f] EXCEPT !.pc = "settle"]
  <2>1. fetch' = [fetch EXCEPT ![f] = x] BY <1>1, <1>2, <1>4 DEF ReadBody
  <2>2. /\ x.pc = "settle" /\ x.attempt = fetch[f].attempt /\ x.sends = fetch[f].sends /\ x.body = fetch[f].body
        /\ x.asked = fetch[f].asked /\ x.left = fetch[f].left /\ x.source = fetch[f].source
        /\ x.status = fetch[f].status /\ x.project = fetch[f].project
    BY <1>2 DEF FetchRequest
  <2>3. x \in FetchRequest BY <1>2 DEF FetchRequest, Asking
  <2> HIDE DEF x
  <2>4. Routed(x) BY <1>1, <1>2, <2>2 DEF Routed, InOrder, OnRoute, Told, Asking
  <2>5. Counting(x) BY <1>1, <1>2, <2>2 DEF Counting
  <2>6. Busy' = Busy BY <1>1, <2>1, <2>2, <2>3, FetchIsBusy, AtWorkIsBusy DEF Asking
  <2> QED BY <1>1, <2>1, <2>3, <2>4, <2>5, <2>6, PermitKept, FetchSettles
<1>5. CASE how = "transient" /\ fetch[f].body < MaxRetries
  <2> DEFINE x == [fetch[f] EXCEPT !.pc = "send", !.body = @ + 1, !.attempt = 0]
  <2>1. fetch' = [fetch EXCEPT ![f] = x] BY <1>5 DEF ReadBody
  <2>2. /\ x.pc = "send" /\ x.attempt = 0 /\ x.sends = fetch[f].sends /\ x.body = fetch[f].body + 1
        /\ x.asked = fetch[f].asked /\ x.left = fetch[f].left /\ x.source = fetch[f].source
        /\ x.project = fetch[f].project
    BY <1>2 DEF FetchRequest
  <2>3. x \in FetchRequest
    <3>1. fetch[f].body + 1 \in Nat BY <1>3
    <3> QED BY <1>2, <3>1 DEF FetchRequest, Asking
  <2> HIDE DEF x
  <2>4. Routed(x) BY <1>1, <1>2, <2>2 DEF Routed, InOrder, OnRoute, Told, Asking
  <2>5. Counting(x)
    <3>1. Paid(fetch[f].body + 1) = Paid(fetch[f].body) + MaxRetries + 1 BY <1>3, Paying
    <3>2. fetch[f].attempt <= MaxRetries /\ fetch[f].sends <= Paid(fetch[f].body) + fetch[f].attempt + 1
      BY <1>1, <1>2 DEF Counting
    <3>3. fetch[f].sends <= Paid(fetch[f].body + 1) /\ fetch[f].body + 1 <= MaxRetries /\ 0 <= MaxRetries
          /\ Paid(fetch[f].body + 1) \in Nat
      BY <1>3, <1>5, <3>1, <3>2
    <3> QED BY <2>2, <3>3 DEF Counting
  <2>6. Busy' = Busy BY <1>1, <2>1, <2>2, <2>3, FetchIsBusy, AtWorkIsBusy DEF Asking
  <2> QED BY <1>1, <2>1, <2>3, <2>4, <2>5, <2>6, PermitKept, FetchSettles
<1>6. CASE how # "whole" /\ ~(how = "transient" /\ fetch[f].body < MaxRetries)
  <2> DEFINE x == [fetch[f] EXCEPT !.pc = "settle", !.status = how]
  <2>1. fetch' = [fetch EXCEPT ![f] = x] BY <1>6 DEF ReadBody
  <2>2. /\ x.pc = "settle" /\ x.attempt = fetch[f].attempt /\ x.sends = fetch[f].sends /\ x.body = fetch[f].body
        /\ x.asked = fetch[f].asked /\ x.left = fetch[f].left /\ x.source = fetch[f].source
        /\ x.status = how /\ x.project = fetch[f].project
    BY <1>2 DEF FetchRequest
  <2>3. how \in Statuses /\ how # "304" BY <1>6 DEF Statuses
  <2>4. x \in FetchRequest BY <1>2, <2>3 DEF FetchRequest, Asking
  <2> HIDE DEF x
  <2>5. Routed(x) BY <1>1, <1>2, <2>2, <2>3 DEF Routed, InOrder, OnRoute, Told, Asking
  <2>6. Counting(x) BY <1>1, <1>2, <2>2 DEF Counting
  <2>7. Busy' = Busy BY <1>1, <2>1, <2>2, <2>4, FetchIsBusy, AtWorkIsBusy DEF Asking
  <2> QED BY <1>1, <2>1, <2>4, <2>5, <2>6, <2>7, PermitKept, FetchSettles
<1> QED BY <1>4, <1>5, <1>6

(* The next source comes after those asked, and is the first of those left. *)
LEMMA NextSource ==
    ASSUME NEW x \in FetchRequest, NEW y, InOrder(x), OnRoute(x), x.left # {}, NEW n, n = Min(x.left),
           y.asked = Append(x.asked, n), y.left = x.left \ {n}, y.source = n, y.project = x.project
    PROVE  /\ n \in Positions /\ Append(x.asked, n) \in Seq(Positions)
           /\ InOrder(y) /\ OnRoute(y)
<1>1. x.left \in SUBSET Positions /\ x.asked \in Seq(Positions) /\ Positions \subseteq Int
  BY UpstreamAssumption DEF FetchRequest, Positions
<1>2. n \in x.left /\ \A p \in x.left : n <= p BY <1>1, FirstSource
<1>3. /\ Len(y.asked) = Len(x.asked) + 1 /\ y.asked[Len(x.asked) + 1] = n /\ y.asked \in Seq(Positions)
      /\ \A i \in 1..Len(x.asked) : y.asked[i] = x.asked[i]
      /\ DOMAIN x.asked = 1..Len(x.asked) /\ DOMAIN y.asked = 1..(Len(x.asked) + 1) /\ Len(x.asked) \in Nat
  BY <1>1, <1>2
<1>4. InOrder(y)
  <2>1. ASSUME NEW i \in DOMAIN y.asked, NEW j \in DOMAIN y.asked, i < j
        PROVE  y.asked[i] < y.asked[j]
    <3>1. i \in DOMAIN x.asked /\ y.asked[i] = x.asked[i] BY <1>3, <2>1
    <3>2. CASE j \in DOMAIN x.asked BY <1>3, <2>1, <3>1, <3>2 DEF InOrder
    <3>3. CASE j = Len(x.asked) + 1 BY <1>2, <1>3, <3>1, <3>3 DEF InOrder
    <3> QED BY <1>3, <3>2, <3>3
  <2>2. ASSUME NEW i \in DOMAIN y.asked, NEW p \in y.left
        PROVE  y.asked[i] < p
    <3>a. p \in x.left /\ p # n OBVIOUS
    <3>b. p \in Int /\ n \in Int /\ n <= p BY <1>1, <1>2, <3>a
    <3>1. p \in x.left /\ n < p BY <3>a, <3>b
    <3>2. CASE i \in DOMAIN x.asked BY <1>3, <3>1, <3>2 DEF InOrder
    <3>3. CASE i = Len(x.asked) + 1 BY <1>3, <3>1, <3>3
    <3> QED BY <1>3, <3>2, <3>3
  <2> QED BY <2>1, <2>2 DEF InOrder
<1>5. OnRoute(y)
  <2>1. {y.asked[i] : i \in DOMAIN y.asked} = {x.asked[i] : i \in DOMAIN x.asked} \cup {n}
    <3>1. ASSUME NEW q \in {x.asked[i] : i \in DOMAIN x.asked} PROVE q \in {y.asked[i] : i \in DOMAIN y.asked} BY <1>3
    <3>2. n \in {y.asked[i] : i \in DOMAIN y.asked} BY <1>3
    <3>3. ASSUME NEW i \in DOMAIN y.asked PROVE y.asked[i] \in {x.asked[k] : k \in DOMAIN x.asked} \cup {n} BY <1>3
    <3> QED BY <3>1, <3>2, <3>3
  <2>2. {x.asked[i] : i \in DOMAIN x.asked} \cup x.left = Candidates(x.project) BY DEF OnRoute
  <2>3. {y.asked[i] : i \in DOMAIN y.asked} \cup y.left = Candidates(y.project) BY <1>2, <2>1, <2>2
  <2> QED BY <1>3, <2>3 DEF OnRoute
<1> QED BY <1>1, <1>2, <1>3, <1>4, <1>5

LEMMA SettleInv ==
    ASSUME UpInv, NEW f \in Fetchers, Settle(f)
    PROVE  UpInv'
<1>1. fetch[f].pc = "settle" /\ UNCHANGED <<route, ranger>> BY DEF Settle
<1>2. fetch[f] \in FetchRequest /\ Counting(fetch[f]) /\ Routed(fetch[f]) BY DEF UpInv, UpTyped
<1>3. InOrder(fetch[f]) /\ OnRoute(fetch[f]) /\ Told(fetch[f]) BY <1>1, <1>2 DEF Routed, Asking
<1>4. CASE FallbackResult(fetch[f].status) /\ fetch[f].left # {}
  <2> DEFINE n == Min(fetch[f].left)
             x == [fetch[f] EXCEPT !.pc = "send", !.source = n, !.left = @ \ {n}, !.asked = Append(@, n),
                                   !.attempt = 0, !.body = 0, !.sends = 0]
  <2>1. fetch' = [fetch EXCEPT ![f] = x] /\ holders' = holders BY <1>4 DEF Settle
  <2>2. /\ x.pc = "send" /\ x.attempt = 0 /\ x.sends = 0 /\ x.body = 0 /\ x.asked = Append(fetch[f].asked, n)
        /\ x.left = fetch[f].left \ {n} /\ x.source = n /\ x.project = fetch[f].project
    BY <1>2 DEF FetchRequest
  <2>3. /\ n \in Positions /\ Append(fetch[f].asked, n) \in Seq(Positions)
        /\ InOrder(x) /\ OnRoute(x)
    <3> HIDE DEF x
    <3> QED BY <1>2, <1>3, <1>4, <2>2, NextSource
  <2>4. x \in FetchRequest
    <3>1. fetch[f].left \ {n} \in SUBSET Positions BY <1>2 DEF FetchRequest
    <3> HIDE DEF n
    <3> QED BY <1>2, <2>3, <3>1 DEF FetchRequest, Asking
  <2> HIDE DEF x
  <2>5. Routed(x) BY <2>2, <2>3 DEF Routed, Told, Asking
  <2>6. Counting(x) BY <2>2, Paying, UpstreamAssumption DEF Counting
  <2>7. Busy' = Busy BY <1>1, <2>1, <2>2, <2>4, FetchIsBusy, AtWorkIsBusy DEF Asking
  <2> QED BY <1>1, <2>1, <2>4, <2>5, <2>6, <2>7, PermitKept, FetchSettles
<1>5. CASE ~(FallbackResult(fetch[f].status) /\ fetch[f].left # {})
  <2> DEFINE x == [fetch[f] EXCEPT !.pc = "done", !.result = fetch[f].status]
  <2>1. fetch' = [fetch EXCEPT ![f] = x] /\ Drop(f) BY <1>5 DEF Settle
  <2>2. /\ x.pc = "done" /\ x.attempt = fetch[f].attempt /\ x.sends = fetch[f].sends /\ x.body = fetch[f].body
        /\ x.asked = fetch[f].asked /\ x.left = fetch[f].left /\ x.source = fetch[f].source
        /\ x.result = fetch[f].status /\ x.project = fetch[f].project
    BY <1>2 DEF FetchRequest
  <2>3. fetch[f].status \in Statuses /\ (fetch[f].status = "304" => fetch[f].source = 1) BY <1>1, <1>3 DEF Told
  <2>4. x \in FetchRequest
    <3>1. fetch[f].status \in Statuses \cup {"none", "limited"} BY <2>3
    <3> QED BY <1>2, <3>1 DEF FetchRequest, Asking
  <2> HIDE DEF x
  <2>5. InOrder(x) /\ OnRoute(x) BY <1>3, <2>2 DEF InOrder, OnRoute
  <2>6. Told(x) BY <1>5, <2>2, <2>3 DEF Told
  <2>7. Routed(x) BY <2>2, <2>3, <2>5, <2>6 DEF Routed, Statuses
  <2>8. Counting(x) BY <1>1, <1>2, <2>2 DEF Counting
  <2>9. Busy' = Busy \ {f} BY <1>1, <2>1, <2>2, <2>4, FetchIsBusy DEF Asking
  <2> QED BY <1>1, <2>1, <2>4, <2>7, <2>8, <2>9, PermitDropped, FetchSettles
<1> QED BY <1>4, <1>5

--------------------------------
(* One ranged read moves. *)

LEMMA RangerSettles ==
    ASSUME UpInv, NEW r \in Rangers, NEW x \in RangedRead, ranger' = [ranger EXCEPT ![r] = x],
           UNCHANGED <<route, fetch>>, Permitted', IsFiniteSet(holders')
    PROVE  UpInv'
<1>1. UpTyped' BY DEF UpInv, UpTyped
<1>2. \A g \in Fetchers : Routed(fetch[g])' BY DEF UpInv, Routed, InOrder, Told, OnRoute, Candidates, FallbackResult
<1>3. \A g \in Fetchers : Counting(fetch[g])' BY DEF UpInv, Counting, Paid, Attempts
<1> QED BY <1>1, <1>2, <1>3 DEF UpInv

LEMMA RangerIsBusy ==
    ASSUME UpInv, NEW r \in Rangers, NEW x \in RangedRead, ranger' = [ranger EXCEPT ![r] = x], UNCHANGED fetch
    PROVE  /\ Busy' = IF x.pc = "read" THEN Busy \cup {r} ELSE Busy \ {r}
           /\ r \in Busy <=> ranger[r].pc = "read"
<1>1. ranger'[r] = x /\ \A q \in Rangers \ {r} : ranger'[q] = ranger[q] BY DEF UpInv, UpTyped
<1>2. r \notin Fetchers BY UpstreamAssumption
<1>3. {q \in Rangers : ranger'[q].pc = "read"} =
        IF x.pc = "read" THEN {q \in Rangers : ranger[q].pc = "read"} \cup {r}
        ELSE {q \in Rangers : ranger[q].pc = "read"} \ {r}
  BY <1>1
<1>4. Busy' = {g \in Fetchers : fetch[g].pc \in Asking} \cup {q \in Rangers : ranger'[q].pc = "read"} BY DEF Busy
<1> HIDE DEF Asking
<1> QED BY <1>2, <1>3, <1>4 DEF Busy

LEMMA RangeBeginInv ==
    ASSUME UpInv, NEW r \in Rangers, RangeBegin(r)
    PROVE  UpInv'
<1> DEFINE pc == IF MaySupportRanges THEN "permit" ELSE "download"
           x == [ranger[r] EXCEPT !.pc = pc]
<1>1. ranger[r].pc = "idle" /\ ranger' = [ranger EXCEPT ![r] = x] /\ UNCHANGED <<route, fetch, holders>>
  BY DEF RangeBegin
<1>2. ranger[r] \in RangedRead BY DEF UpInv, UpTyped
<1>3. pc \in {"permit", "download"} OBVIOUS
<1> HIDE DEF pc
<1>4. x \in RangedRead /\ x.pc = pc BY <1>2, <1>3 DEF RangedRead
<1> HIDE DEF x
<1>5. Busy' = Busy BY <1>1, <1>3, <1>4, RangerIsBusy
<1> QED BY <1>1, <1>4, <1>5, PermitKept, RangerSettles

LEMMA RangePermitInv ==
    ASSUME UpInv, NEW r \in Rangers, RangePermit(r)
    PROVE  UpInv'
<1> DEFINE x == [ranger[r] EXCEPT !.pc = "read"]
<1>1. Take(r) /\ ranger' = [ranger EXCEPT ![r] = x] /\ UNCHANGED <<route, fetch>> BY DEF RangePermit
<1>2. ranger[r] \in RangedRead BY DEF UpInv, UpTyped
<1>3. x \in RangedRead /\ x.pc = "read" BY <1>2 DEF RangedRead
<1> HIDE DEF x
<1>4. Busy' = Busy \cup {r} BY <1>1, <1>3, RangerIsBusy
<1> QED BY <1>1, <1>3, <1>4, PermitTaken, RangerSettles

LEMMA RangePermitTimesOutInv ==
    ASSUME UpInv, NEW r \in Rangers, RangePermitTimesOut(r)
    PROVE  UpInv'
<1> DEFINE x == [ranger[r] EXCEPT !.pc = "failed"]
<1>1. ranger[r].pc = "permit" /\ ranger' = [ranger EXCEPT ![r] = x] /\ UNCHANGED <<route, fetch, holders>>
  BY DEF RangePermitTimesOut
<1>2. ranger[r] \in RangedRead BY DEF UpInv, UpTyped
<1>3. x \in RangedRead /\ x.pc = "failed" BY <1>2 DEF RangedRead
<1> HIDE DEF x
<1>4. Busy' = Busy BY <1>1, <1>3, RangerIsBusy
<1> QED BY <1>1, <1>3, <1>4, PermitKept, RangerSettles

\* A read goes on with its permit, or ends and gives it back.
LEMMA RangeReadMoves ==
    ASSUME UpInv, NEW r \in Rangers, NEW answer \in {"ok", "unsupported", "error"}, RangeRead(r, answer)
    PROVE  \E x \in RangedRead :
             /\ ranger' = [ranger EXCEPT ![r] = x]
             /\ (x.pc = "read" /\ holders' = holders) \/ (x.pc # "read" /\ Drop(r))
<1>1. ranger[r].pc = "read" BY DEF RangeRead
<1>2. ranger[r] \in RangedRead /\ ranger[r].step \in Nat /\ ranger[r].step + 1 \in Nat /\ RangedReads \in Nat
  BY UpstreamAssumption DEF UpInv, UpTyped, RangedRead
<1>3. CASE answer = "ok" /\ ranger[r].step + 1 = RangedReads
  <2> DEFINE x == [ranger[r] EXCEPT !.pc = "found", !.step = RangedReads]
  <2>1. ranger' = [ranger EXCEPT ![r] = x] /\ Drop(r) BY <1>3 DEF RangeRead
  <2>2. x \in RangedRead /\ x.pc = "found" BY <1>2 DEF RangedRead
  <2> QED BY <2>1, <2>2
<1>4. CASE answer = "ok" /\ ranger[r].step + 1 # RangedReads
  <2> DEFINE x == [ranger[r] EXCEPT !.step = @ + 1, !.at = "mirror"]
  <2>1. ranger' = [ranger EXCEPT ![r] = x] /\ holders' = holders BY <1>4 DEF RangeRead
  <2>2. x \in RangedRead /\ x.pc = "read" BY <1>1, <1>2 DEF RangedRead
  <2> QED BY <2>1, <2>2
<1>5. CASE answer # "ok" /\ ranger[r].at = "mirror" /\ route.mirrorFallback
  <2> DEFINE x == [ranger[r] EXCEPT !.at = "origin"]
  <2>1. ranger' = [ranger EXCEPT ![r] = x] /\ holders' = holders BY <1>5 DEF RangeRead
  <2>2. x \in RangedRead /\ x.pc = "read" BY <1>1, <1>2 DEF RangedRead
  <2> QED BY <2>1, <2>2
<1>6. CASE answer = "unsupported" /\ ~(ranger[r].at = "mirror" /\ route.mirrorFallback)
  <2> DEFINE x == [ranger[r] EXCEPT !.pc = "download"]
  <2>1. ranger' = [ranger EXCEPT ![r] = x] /\ Drop(r) BY <1>6 DEF RangeRead
  <2>2. x \in RangedRead /\ x.pc = "download" BY <1>2 DEF RangedRead
  <2> QED BY <2>1, <2>2
<1>7. CASE answer = "error" /\ ~(ranger[r].at = "mirror" /\ route.mirrorFallback)
  <2> DEFINE x == [ranger[r] EXCEPT !.pc = "failed"]
  <2>1. ranger' = [ranger EXCEPT ![r] = x] /\ Drop(r) BY <1>7 DEF RangeRead
  <2>2. x \in RangedRead /\ x.pc = "failed" BY <1>2 DEF RangedRead
  <2> QED BY <2>1, <2>2
<1> QED BY <1>3, <1>4, <1>5, <1>6, <1>7

LEMMA RangeReadInv ==
    ASSUME UpInv, NEW r \in Rangers, NEW answer \in {"ok", "unsupported", "error"}, RangeRead(r, answer)
    PROVE  UpInv'
<1>1. ranger[r].pc = "read" /\ UNCHANGED <<route, fetch>> BY DEF RangeRead
<1>2. PICK x \in RangedRead :
        /\ ranger' = [ranger EXCEPT ![r] = x]
        /\ (x.pc = "read" /\ holders' = holders) \/ (x.pc # "read" /\ Drop(r))
  BY RangeReadMoves
<1>3. CASE x.pc = "read" /\ holders' = holders
  <2>1. Busy' = Busy BY <1>1, <1>2, <1>3, RangerIsBusy
  <2> QED BY <1>1, <1>2, <1>3, <2>1, PermitKept, RangerSettles
<1>4. CASE x.pc # "read" /\ Drop(r)
  <2>1. Busy' = Busy \ {r} BY <1>1, <1>2, <1>4, RangerIsBusy
  <2> QED BY <1>1, <1>2, <1>4, <2>1, PermitDropped, RangerSettles
<1> QED BY <1>2, <1>3, <1>4

--------------------------------
(* The invariant and what it implies. *)

LEMMA UpInitInv == UpInit => UpInv
<1> SUFFICES ASSUME UpInit PROVE UpInv OBVIOUS
<1>1. NoFetch \in FetchRequest BY EmptySeq DEF NoFetch, FetchRequest, NoSource, Asking, RoutedProjects, List
<1>2. UpTyped BY <1>1, FS_EmptySet DEF UpInit, UpTyped, RangedRead
<1>3. Busy = {} BY DEF UpInit, Busy, NoFetch, Asking
<1>4. Permitted BY <1>3, FS_EmptySet, UpstreamAssumption DEF UpInit, Permitted
<1>5. Routed(NoFetch) BY DEF NoFetch, Routed, InOrder, Told, Asking
<1>6. Counting(NoFetch) BY Paying, UpstreamAssumption DEF NoFetch, Counting
<1> QED BY <1>2, <1>4, <1>5, <1>6 DEF UpInv, UpInit

LEMMA UpNextInv == UpInv /\ [UpNext]_upVars => UpInv'
<1> SUFFICES ASSUME UpInv, [UpNext]_upVars PROVE UpInv' OBVIOUS
<1>1. ASSUME NEW f \in Fetchers, NEW kind \in Kinds, NEW project \in RoutedProjects, Begin(f, kind, project)
      PROVE  UpInv'
  BY <1>1, BeginInv
<1>2. ASSUME NEW f \in Fetchers, FetchStep(f) PROVE UpInv'
  BY <1>2, UpstreamPermitInv, PermitTimesOutInv, SendInv, ReadBodyInv, SettleInv DEF FetchStep
<1>3. ASSUME NEW r \in Rangers, RangeBegin(r) \/ RangeStep(r) PROVE UpInv'
  BY <1>3, RangeBeginInv, RangePermitInv, RangePermitTimesOutInv, RangeReadInv DEF RangeStep
<1>4. CASE UNCHANGED upVars
  <2>1. UNCHANGED <<route, fetch, ranger, holders>> /\ Busy' = Busy BY <1>4 DEF upVars, Busy
  <2>2. Permitted' /\ IsFiniteSet(holders') BY <2>1, PermitKept
  <2>3. UpTyped' BY <2>1 DEF UpInv, UpTyped
  <2>4. \A g \in Fetchers : Routed(fetch[g])'
    BY <2>1 DEF UpInv, Routed, InOrder, Told, OnRoute, Candidates, FallbackResult
  <2>5. \A g \in Fetchers : Counting(fetch[g])' BY <2>1 DEF UpInv, Counting, Paid, Attempts
  <2> QED BY <2>2, <2>3, <2>4, <2>5 DEF UpInv
<1> QED BY <1>1, <1>2, <1>3, <1>4 DEF UpNext

LEMMA RoutesFollow == UpInv => RoutesHold
<1> SUFFICES ASSUME UpInv, NEW f \in Fetchers
             PROVE  LET asked == {fetch[f].asked[i] : i \in DOMAIN fetch[f].asked} IN
                    /\ \A i, j \in DOMAIN fetch[f].asked : i < j => fetch[f].asked[i] < fetch[f].asked[j]
                    /\ fetch[f].project = "pinned" => asked \subseteq {route.pin}
                    /\ fetch[f].project = "protected" \/ (~route.fallback /\ fetch[f].project # "pinned")
                         => asked \subseteq {1}
                    /\ Ended(f) => /\ fetch[f].source = fetch[f].asked[Len(fetch[f].asked)]
                                   /\ fetch[f].result = "304" => fetch[f].source = 1
                                   /\ FallbackResult(fetch[f].result) =>
                                        asked = IF fetch[f].project = "pinned" THEN {route.pin}
                                                  ELSE IF fetch[f].project = "protected" \/ ~route.fallback THEN {1}
                                                  ELSE Positions
  BY DEF RoutesHold
<1> DEFINE asked == {fetch[f].asked[i] : i \in DOMAIN fetch[f].asked}
<1>1. fetch[f] \in FetchRequest /\ Routed(fetch[f]) /\ route.pin \in Positions /\ 1 \in Positions
  BY UpstreamAssumption DEF UpInv, UpTyped, Positions
<1>2. \A i, j \in DOMAIN fetch[f].asked : i < j => fetch[f].asked[i] < fetch[f].asked[j] BY <1>1 DEF Routed, InOrder
<1>3. asked \subseteq Candidates(fetch[f].project)
  <2>1. CASE fetch[f].asked = <<>> BY <2>1
  <2>2. CASE OnRoute(fetch[f]) BY <2>2 DEF OnRoute
  <2> QED BY <1>1, <2>1, <2>2 DEF Routed
<1>4. /\ fetch[f].project = "pinned" => Candidates(fetch[f].project) = {route.pin}
      /\ fetch[f].project = "protected" \/ (~route.fallback /\ fetch[f].project # "pinned")
           => Candidates(fetch[f].project) = {1}
      /\ fetch[f].project \notin {"pinned", "protected"} /\ route.fallback => Candidates(fetch[f].project) = Positions
  BY <1>1 DEF Candidates
<1>5. ASSUME Ended(f)
      PROVE  /\ fetch[f].source = fetch[f].asked[Len(fetch[f].asked)]
             /\ fetch[f].result = "304" => fetch[f].source = 1
             /\ FallbackResult(fetch[f].result) => asked = Candidates(fetch[f].project)
  BY <1>1, <1>5 DEF Ended, Routed, OnRoute, Told
<1> HIDE DEF asked
<1>6. ASSUME Ended(f), FallbackResult(fetch[f].result)
      PROVE  asked = IF fetch[f].project = "pinned" THEN {route.pin}
                       ELSE IF fetch[f].project = "protected" \/ ~route.fallback THEN {1}
                       ELSE Positions
  <2>1. CASE fetch[f].project = "pinned" BY <1>4, <1>5, <1>6, <2>1
  <2>2. CASE fetch[f].project # "pinned" /\ (fetch[f].project = "protected" \/ ~route.fallback)
    <3>1. asked = {1} BY <1>4, <1>5, <1>6, <2>2
    <3> QED BY <2>2, <3>1
  <2>3. CASE fetch[f].project \notin {"pinned", "protected"} /\ route.fallback BY <1>4, <1>5, <1>6, <2>3
  <2> QED BY <2>1, <2>2, <2>3
<1>7. /\ fetch[f].project = "pinned" => asked \subseteq {route.pin}
      /\ fetch[f].project = "protected" \/ (~route.fallback /\ fetch[f].project # "pinned") => asked \subseteq {1}
  BY <1>3, <1>4
<1> QED BY <1>2, <1>5, <1>6, <1>7 DEF asked

LEMMA RequestsFollow == UpInv => RequestsBounded
<1> SUFFICES ASSUME UpInv PROVE RequestsBounded OBVIOUS
<1>1. ASSUME NEW f \in Fetchers PROVE fetch[f].sends <= (MaxRetries + 1) * (MaxRetries + 1)
  <2>1. /\ fetch[f].attempt \in Nat /\ fetch[f].body \in Nat /\ fetch[f].sends \in Nat /\ MaxRetries \in Nat
        /\ Counting(fetch[f])
    BY UpstreamAssumption DEF UpInv, UpTyped, FetchRequest
  <2>2. fetch[f].body <= MaxRetries /\ fetch[f].attempt <= MaxRetries
        /\ fetch[f].sends <= Paid(fetch[f].body) + fetch[f].attempt + 1
    <3>1. Paid(fetch[f].body) \in Nat BY <2>1, Paying
    <3> QED BY <2>1, <3>1 DEF Counting
  <2>3. /\ Paid(fetch[f].body) \in Nat /\ Paid(MaxRetries) \in Nat /\ Paid(fetch[f].body) <= Paid(MaxRetries)
        /\ Paid(MaxRetries + 1) = Paid(MaxRetries) + MaxRetries + 1
    BY <2>1, <2>2, Paying
  <2>4. fetch[f].sends <= Paid(MaxRetries + 1) BY <2>1, <2>2, <2>3
  <2> QED BY <2>4 DEF Paid, Attempts
<1>2. MaxConcurrent > 0 =>
        /\ Cardinality(holders) <= MaxConcurrent
        /\ holders = {f \in Fetchers : fetch[f].pc \in {"send", "body", "settle"}}
                       \cup {r \in Rangers : ranger[r].pc = "read"}
  BY DEF UpInv, Permitted, Busy, Asking
<1> QED BY <1>1, <1>2 DEF RequestsBounded

\* The requests of an index to its sources: the route is kept to and in order, what is told is the answer of the
\* source it names, retries are bounded, and permits are those of the requests in progress.
THEOREM UpstreamStaysBounded == UpSpec => []UpstreamIsBounded
<1>1. UpInv => UpstreamIsBounded BY RoutesFollow, RequestsFollow DEF UpstreamIsBounded
<1> QED BY UpInitInv, UpNextInv, <1>1, PTL DEF UpSpec

--------------------------------
(* Streamed writes: the inductive invariant.                                *)

BlobFile == [bytes : Seq(Chunks), synced : Int]
WriterTasks == {"none", "batch", "finish", "check", "place", "link", "abort", "failed"}
BlobWrite == [at : {"idle", "open", "finishing", "staged"}, task : WriterTasks, queued : Seq(Chunks),
              hashed : Seq(Chunks), expect : StoredDigests \cup {NoDigest}, attached : BOOLEAN]

WriteTyped ==
    /\ blobs \in [StoredDigests -> BlobFile]
    /\ stage \in [BlobWriters -> BlobFile]
    /\ blobWriter \in [BlobWriters -> BlobWrite]
    /\ stored \subseteq StoredDigests

(* What the tree holds was synced whole. *)
Whole(d, b) == b # NoFile => DigestOf(b.bytes) = d /\ b.synced = Len(b.bytes)

(* The stage of a writer is what it has hashed, and synced once it was finished. *)
Staged(q, s) ==
    /\ q.at = "idle" => q = Idle /\ s = NoFile
    /\ q.at = "open" => q.task \in {"none", "batch", "failed"} /\ (IF q.task = "failed" THEN s = NoFile ELSE s.bytes = q.hashed)
    /\ q.at = "finishing" => q.task = "finish" /\ s.bytes = q.hashed
    /\ q.at = "staged" => /\ q.task \in {"none", "check", "place", "link", "abort"}
                          /\ IF q.task = "link" THEN s = NoFile
                             ELSE s.bytes = q.hashed /\ s.synced = Len(q.hashed)
                          /\ q.task \in {"check", "place", "link"} =>
                               q.expect \in StoredDigests /\ DigestOf(q.hashed) = q.expect
Placed(q) == q.task = "link" => blobs[q.expect] # NoFile

WriteInv ==
    /\ WriteTyped
    /\ \A d \in StoredDigests : Whole(d, blobs[d])
    /\ \A d \in stored : blobs[d] # NoFile
    /\ \A w \in BlobWriters : Staged(blobWriter[w], stage[w]) /\ Placed(blobWriter[w])

--------------------------------
(* One writer moves; the tree stays. *)

LEMMA BlanksTyped == NoFile \in BlobFile /\ EmptyStage \in BlobFile /\ Idle \in BlobWrite /\ Staged(Idle, NoFile)
<1>1. <<>> \in Seq(Chunks) BY EmptySeq
<1>2. NoFile \in BlobFile /\ EmptyStage \in BlobFile BY <1>1 DEF NoFile, EmptyStage, BlobFile
<1>3. Idle \in BlobWrite /\ Idle.at = "idle" /\ Idle.task = "none" BY <1>1 DEF Idle, BlobWrite, WriterTasks
<1> QED BY <1>2, <1>3 DEF Staged

LEMMA WriterMoves ==
    ASSUME WriteInv, NEW w \in BlobWriters, NEW q \in BlobWrite, NEW s \in BlobFile,
           blobWriter' = [blobWriter EXCEPT ![w] = q], stage' = [stage EXCEPT ![w] = s], blobs' = blobs,
           Staged(q, s), Placed(q), stored' \subseteq StoredDigests, \A d \in stored' : blobs[d] # NoFile
    PROVE  WriteInv'
<1>1. /\ blobWriter' \in [BlobWriters -> BlobWrite] /\ stage' \in [BlobWriters -> BlobFile]
      /\ blobWriter'[w] = q /\ stage'[w] = s
      /\ \A v \in BlobWriters \ {w} : blobWriter'[v] = blobWriter[v] /\ stage'[v] = stage[v]
  BY DEF WriteInv, WriteTyped
<1>2. WriteTyped' BY <1>1 DEF WriteInv, WriteTyped
<1>3. \A v \in BlobWriters : Staged(blobWriter'[v], stage'[v]) /\ Placed(blobWriter'[v]) BY <1>1 DEF WriteInv
<1>4. \A v \in BlobWriters : Placed(blobWriter[v])' BY <1>3 DEF Placed
<1>5. \A v \in BlobWriters : Staged(blobWriter[v], stage[v])' BY <1>3 DEF Staged
<1>6. \A d \in StoredDigests : Whole(d, blobs[d])' BY DEF WriteInv, Whole
<1>7. (\A d \in stored : blobs[d] # NoFile)' OBVIOUS
<1> QED BY <1>2, <1>4, <1>5, <1>6, <1>7 DEF WriteInv

\* A writer gives up, or is answered.
LEMMA WriterEndsInv ==
    ASSUME WriteInv, NEW w \in BlobWriters, blobWriter' = [blobWriter EXCEPT ![w] = Idle],
           stage' = [stage EXCEPT ![w] = NoFile], blobs' = blobs,
           stored' = stored \/ \E d \in StoredDigests : blobs[d] # NoFile /\ stored' = stored \cup {d}
    PROVE  WriteInv'
<1>1. stored' \subseteq StoredDigests /\ \A d \in stored' : blobs[d] # NoFile BY DEF WriteInv, WriteTyped
<1>2. Placed(Idle) BY DEF Placed, Idle
<1> QED BY <1>1, <1>2, BlanksTyped, WriterMoves

LEMMA WriterTyped ==
    ASSUME WriteInv, NEW w \in BlobWriters
    PROVE  /\ blobWriter[w] \in BlobWrite /\ stage[w] \in BlobFile /\ Staged(blobWriter[w], stage[w])
           /\ Placed(blobWriter[w])
           /\ stored \subseteq StoredDigests /\ \A d \in stored : blobs[d] # NoFile
  BY DEF WriteInv, WriteTyped

\* Only the place, the task, what is queued or attached of the writer change.
LEMMA SameStage ==
    ASSUME WriteInv, NEW w \in BlobWriters, NEW q \in BlobWrite,
           blobWriter' = [blobWriter EXCEPT ![w] = q], Staged(q, stage[w]), Placed(q), UNCHANGED <<blobs, stage, stored>>
    PROVE  WriteInv'
<1>1. stage' = [stage EXCEPT ![w] = stage[w]] /\ stage[w] \in BlobFile BY DEF WriteInv, WriteTyped
<1> QED BY <1>1, WriterMoves, WriterTyped

LEMMA OpeningSteps ==
    ASSUME WriteInv, NEW w \in BlobWriters, BeginWrite(w) \/ \E bytes \in Contents : StageBytes(w, bytes)
    PROVE  WriteInv'
<1>1. CASE BeginWrite(w)
  <2> DEFINE q == [blobWriter[w] EXCEPT !.at = "open"]
  <2>1. blobWriter[w] = Idle /\ blobWriter' = [blobWriter EXCEPT ![w] = q]
        /\ stage' = [stage EXCEPT ![w] = EmptyStage] /\ UNCHANGED <<blobs, stored>>
    BY <1>1 DEF BeginWrite
  <2>a. blobWriter[w] \in BlobWrite /\ blobWriter[w].task = "none" /\ blobWriter[w].hashed = <<>>
    BY <2>1, BlanksTyped DEF Idle
  <2>2. q \in BlobWrite /\ q.at = "open" /\ q.task = "none" /\ q.hashed = <<>> BY <2>a DEF BlobWrite
  <2> HIDE DEF q
  <2>3. Staged(q, EmptyStage) /\ Placed(q) BY <2>2 DEF Staged, EmptyStage, Placed
  <2> QED BY <2>1, <2>2, <2>3, BlanksTyped, WriterMoves, WriterTyped
<1>2. ASSUME NEW bytes \in Contents, StageBytes(w, bytes) PROVE WriteInv'
  <2> DEFINE q == [blobWriter[w] EXCEPT !.at = "staged", !.hashed = bytes]
             s == [bytes |-> bytes, synced |-> Len(bytes)]
  <2>1. blobWriter[w] = Idle /\ blobWriter' = [blobWriter EXCEPT ![w] = q]
        /\ stage' = [stage EXCEPT ![w] = s] /\ UNCHANGED <<blobs, stored>>
    BY <1>2 DEF StageBytes
  <2>2. bytes \in Seq(Chunks)
    <3>1. PICK n \in 0..MaxChunks : bytes \in [1..n -> Chunks] BY DEF Contents
    <3>2. n \in Nat BY <3>1, BlobAssumption
    <3> QED BY <3>1, <3>2
  <2>3. s \in BlobFile /\ s.bytes = bytes /\ s.synced = Len(bytes)
    <3>1. Len(bytes) \in Int BY <2>2
    <3> QED BY <2>2, <3>1 DEF BlobFile
  <2>a. blobWriter[w] \in BlobWrite /\ blobWriter[w].task = "none" BY <2>1, BlanksTyped DEF Idle
  <2>4. q \in BlobWrite /\ q.at = "staged" /\ q.task = "none" /\ q.hashed = bytes BY <2>2, <2>a DEF BlobWrite
  <2> HIDE DEF q, s
  <2>5. Staged(q, s) /\ Placed(q) BY <2>3, <2>4 DEF Staged, Placed
  <2> QED BY <2>1, <2>3, <2>4, <2>5, WriterMoves, WriterTyped
<1> QED BY <1>1, <1>2

LEMMA QueueSteps ==
    ASSUME WriteInv, NEW w \in BlobWriters,
           (\E c \in Chunks : WriteChunk(w, c)) \/ FlushWrite(w) \/ BatchDone(w) \/ FinishWrite(w)
    PROVE  WriteInv'
<1> USE WriterTyped
<1>1. ASSUME NEW c \in Chunks, WriteChunk(w, c) PROVE WriteInv'
  <2> DEFINE task == IF Len(blobWriter[w].queued) + 1 >= WriteBatch THEN "batch" ELSE "none"
             q == [blobWriter[w] EXCEPT !.queued = Append(@, c), !.task = task]
  <2>1. blobWriter[w].at = "open" /\ blobWriter[w].task = "none"
        /\ blobWriter' = [blobWriter EXCEPT ![w] = q] /\ UNCHANGED <<blobs, stage, stored>>
    BY <1>1 DEF WriteChunk
  <2>2. task \in {"batch", "none"} OBVIOUS
  <2> HIDE DEF task
  <2>3. Append(blobWriter[w].queued, c) \in Seq(Chunks) BY DEF BlobWrite
  <2>4. q \in BlobWrite
    <3>1. task \in WriterTasks BY <2>2 DEF WriterTasks
    <3> QED BY <2>3, <3>1 DEF BlobWrite
  <2>5. q.at = "open" /\ q.task = task /\ q.hashed = blobWriter[w].hashed BY <2>1 DEF BlobWrite
  <2> HIDE DEF q
  <2>6. Staged(q, stage[w]) /\ Placed(q) BY <2>1, <2>2, <2>5 DEF Staged, Placed
  <2> QED BY <2>1, <2>4, <2>6, SameStage
<1>2. ASSUME FlushWrite(w) \/ BatchDone(w) PROVE WriteInv'
  <2>1. PICK task \in {"batch", "none"} : blobWriter' = [blobWriter EXCEPT ![w].task = task]
    BY <1>2 DEF FlushWrite, BatchDone
  <2> DEFINE q == [blobWriter[w] EXCEPT !.task = task]
  <2>a. blobWriter[w].task \in {"batch", "none"} /\ UNCHANGED <<blobs, stage, stored>>
        /\ (blobWriter[w].task = "none" => blobWriter[w].at = "open")
    BY <1>2 DEF FlushWrite, BatchDone
  <2>b. blobWriter[w].at = "open" BY <2>a DEF Staged, BlobWrite, Idle
  <2>2. blobWriter[w].at = "open" /\ blobWriter[w].task \in {"batch", "none"} /\ UNCHANGED <<blobs, stage, stored>>
    BY <2>a, <2>b
  <2>3. q \in BlobWrite /\ q.at = "open" /\ q.task = task /\ q.hashed = blobWriter[w].hashed
    BY <2>2 DEF BlobWrite, WriterTasks
  <2>4. blobWriter' = [blobWriter EXCEPT ![w] = q] BY <2>1
  <2> HIDE DEF q
  <2>5. Staged(q, stage[w]) /\ Placed(q) BY <2>2, <2>3 DEF Staged, Placed
  <2> QED BY <2>2, <2>3, <2>4, <2>5, SameStage
<1>3. ASSUME FinishWrite(w) PROVE WriteInv'
  <2> DEFINE q == [blobWriter[w] EXCEPT !.at = "finishing", !.task = "finish"]
  <2>1. blobWriter[w].at = "open" /\ blobWriter[w].task = "none"
        /\ blobWriter' = [blobWriter EXCEPT ![w] = q] /\ UNCHANGED <<blobs, stage, stored>>
    BY <1>3 DEF FinishWrite
  <2>2. q \in BlobWrite /\ q.at = "finishing" /\ q.task = "finish" /\ q.hashed = blobWriter[w].hashed
    BY DEF BlobWrite, WriterTasks
  <2> HIDE DEF q
  <2>3. Staged(q, stage[w]) /\ Placed(q) BY <2>1, <2>2 DEF Staged, Placed
  <2> QED BY <2>1, <2>2, <2>3, SameStage
<1> QED BY <1>1, <1>2, <1>3

LEMMA TaskWritesInv ==
    ASSUME WriteInv, NEW w \in BlobWriters, TaskWrites(w)
    PROVE  WriteInv'
<1> USE WriterTyped
<1> DEFINE c == Head(blobWriter[w].queued)
           q == [blobWriter[w] EXCEPT !.hashed = Append(@, c), !.queued = Tail(@)]
           s == [stage[w] EXCEPT !.bytes = Append(@, c)]
<1>1. /\ blobWriter[w].task \in {"batch", "finish"} /\ blobWriter[w].queued # <<>>
      /\ blobWriter' = [blobWriter EXCEPT ![w] = q] /\ stage' = [stage EXCEPT ![w] = s] /\ UNCHANGED <<blobs, stored>>
  BY DEF TaskWrites
<1>2. blobWriter[w].queued \in Seq(Chunks) /\ blobWriter[w].hashed \in Seq(Chunks) /\ stage[w].bytes \in Seq(Chunks)
  BY DEF BlobWrite, BlobFile
<1>3. c \in Chunks /\ Tail(blobWriter[w].queued) \in Seq(Chunks) BY <1>1, <1>2, HeadTailProperties
<1> HIDE DEF c
<1>4. Append(blobWriter[w].hashed, c) \in Seq(Chunks) /\ Append(stage[w].bytes, c) \in Seq(Chunks) BY <1>2, <1>3
<1>5. q \in BlobWrite /\ q.at = blobWriter[w].at /\ q.task = blobWriter[w].task /\ q.hashed = Append(blobWriter[w].hashed, c)
  BY <1>3, <1>4 DEF BlobWrite
<1>6. s \in BlobFile /\ s.bytes = Append(stage[w].bytes, c) BY <1>4 DEF BlobFile
<1> HIDE DEF q, s
<1>7. blobWriter[w].at \in {"open", "finishing"} /\ stage[w].bytes = blobWriter[w].hashed
  BY <1>1 DEF Staged, BlobWrite, Idle
<1>8. Staged(q, s) /\ Placed(q) BY <1>1, <1>5, <1>6, <1>7 DEF Staged, Placed
<1> QED BY <1>1, <1>5, <1>6, <1>8, WriterMoves

LEMMA TaskFailsInv ==
    ASSUME WriteInv, NEW w \in BlobWriters, TaskFails(w)
    PROVE  WriteInv'
<1> USE WriterTyped
<1>1. CASE blobWriter[w].at = "open"
  <2> DEFINE q == [blobWriter[w] EXCEPT !.task = "failed"]
  <2>1. blobWriter' = [blobWriter EXCEPT ![w] = q] /\ stage' = [stage EXCEPT ![w] = NoFile] /\ UNCHANGED <<blobs, stored>>
    BY <1>1 DEF TaskFails
  <2>2. q \in BlobWrite /\ q.at = "open" /\ q.task = "failed" BY <1>1 DEF BlobWrite, WriterTasks
  <2> HIDE DEF q
  <2>3. Staged(q, NoFile) /\ Placed(q) BY <2>2 DEF Staged, Placed
  <2> QED BY <2>1, <2>2, <2>3, BlanksTyped, WriterMoves
<1>2. CASE blobWriter[w].at # "open"
  <2>1. blobWriter' = [blobWriter EXCEPT ![w] = Idle] /\ stage' = [stage EXCEPT ![w] = NoFile] /\ UNCHANGED <<blobs, stored>>
    BY <1>2 DEF TaskFails
  <2> QED BY <2>1, WriterEndsInv
<1> QED BY <1>1, <1>2

LEMMA FinishDoneInv ==
    ASSUME WriteInv, NEW w \in BlobWriters, FinishDone(w)
    PROVE  WriteInv'
<1> USE WriterTyped
<1>1. blobWriter[w].task = "finish" /\ UNCHANGED <<blobs, stored>> BY DEF FinishDone
<1>2. CASE blobWriter[w].attached
  <2> DEFINE q == [blobWriter[w] EXCEPT !.at = "staged", !.task = "none"]
             s == [stage[w] EXCEPT !.synced = Len(stage[w].bytes)]
  <2>1. blobWriter' = [blobWriter EXCEPT ![w] = q] /\ stage' = [stage EXCEPT ![w] = s] BY <1>2 DEF FinishDone
  <2>2. q \in BlobWrite /\ q.at = "staged" /\ q.task = "none" /\ q.hashed = blobWriter[w].hashed
    BY DEF BlobWrite, WriterTasks
  <2>3. s \in BlobFile /\ s.bytes = stage[w].bytes /\ s.synced = Len(stage[w].bytes)
    <3>1. Len(stage[w].bytes) \in Int BY DEF BlobFile
    <3> QED BY <3>1 DEF BlobFile
  <2> HIDE DEF q, s
  <2>4. stage[w].bytes = blobWriter[w].hashed BY <1>1 DEF Staged, BlobWrite, Idle
  <2>5. Staged(q, s) /\ Placed(q) BY <2>2, <2>3, <2>4 DEF Staged, Placed
  <2> QED BY <1>1, <2>1, <2>2, <2>3, <2>5, WriterMoves
<1>3. CASE ~blobWriter[w].attached
  <2>1. blobWriter' = [blobWriter EXCEPT ![w] = Idle] /\ stage' = [stage EXCEPT ![w] = NoFile] BY <1>3 DEF FinishDone
  <2> QED BY <1>1, <2>1, WriterEndsInv
<1> QED BY <1>2, <1>3

LEMMA CommitAsInv ==
    ASSUME WriteInv, NEW w \in BlobWriters, NEW expected \in StoredDigests, CommitAs(w, expected)
    PROVE  WriteInv'
<1> USE WriterTyped
<1> DEFINE task == IF DigestOf(blobWriter[w].hashed) = expected THEN "check" ELSE "abort"
           q == [blobWriter[w] EXCEPT !.expect = expected, !.task = task]
<1>1. blobWriter[w].at = "staged" /\ blobWriter[w].task = "none"
      /\ blobWriter' = [blobWriter EXCEPT ![w] = q] /\ UNCHANGED <<blobs, stage, stored>>
  BY DEF CommitAs
<1>2. task \in {"check", "abort"} /\ (task = "check" => DigestOf(blobWriter[w].hashed) = expected) OBVIOUS
<1> HIDE DEF task
<1>3. q \in BlobWrite
  <2>1. task \in WriterTasks BY <1>2 DEF WriterTasks
  <2> QED BY <2>1 DEF BlobWrite
<1>4. q.at = "staged" /\ q.task = task /\ q.hashed = blobWriter[w].hashed /\ q.expect = expected BY <1>1 DEF BlobWrite
<1> HIDE DEF q
<1>5. Staged(q, stage[w]) /\ Placed(q) BY <1>1, <1>2, <1>4 DEF Staged, Placed
<1> QED BY <1>1, <1>3, <1>5, SameStage

\* A commit that was answered has its blob in the tree.
LEMMA AnsweredEnds ==
    ASSUME WriteInv, NEW w \in BlobWriters, NEW ok \in BOOLEAN, Answered(w, ok),
           ok => blobWriter[w].expect \in StoredDigests /\ blobs[blobWriter[w].expect] # NoFile
    PROVE  /\ blobWriter' = [blobWriter EXCEPT ![w] = Idle]
           /\ stored' = stored \/ \E d \in StoredDigests : blobs[d] # NoFile /\ stored' = stored \cup {d}
  BY DEF Answered

LEMMA CommitCheckInv ==
    ASSUME WriteInv, NEW w \in BlobWriters, CommitCheck(w)
    PROVE  WriteInv'
<1> USE WriterTyped
<1>1. blobWriter[w].task = "check" /\ UNCHANGED blobs BY DEF CommitCheck
<1>2. blobWriter[w].at = "staged" /\ blobWriter[w].expect \in StoredDigests
      /\ DigestOf(blobWriter[w].hashed) = blobWriter[w].expect
  BY <1>1 DEF Staged, BlobWrite, Idle
<1>3. CASE blobs[blobWriter[w].expect] # NoFile
  <2>1. Answered(w, TRUE) /\ stage' = [stage EXCEPT ![w] = NoFile] BY <1>3 DEF CommitCheck
  <2> QED BY <1>1, <1>2, <1>3, <2>1, AnsweredEnds, WriterEndsInv
<1>4. CASE blobs[blobWriter[w].expect] = NoFile
  <2> DEFINE q == [blobWriter[w] EXCEPT !.task = "place"]
  <2>1. blobWriter' = [blobWriter EXCEPT ![w] = q] /\ UNCHANGED <<stage, stored>> BY <1>4 DEF CommitCheck
  <2>2. q \in BlobWrite /\ q.at = "staged" /\ q.task = "place" /\ q.hashed = blobWriter[w].hashed
        /\ q.expect = blobWriter[w].expect
    BY <1>2 DEF BlobWrite, WriterTasks
  <2> HIDE DEF q
  <2>3. Staged(q, stage[w]) /\ Placed(q) BY <1>1, <1>2, <2>2 DEF Staged, Placed
  <2> QED BY <1>1, <2>1, <2>2, <2>3, SameStage
<1> QED BY <1>3, <1>4

LEMMA CommitPlaceInv ==
    ASSUME WriteInv, NEW w \in BlobWriters, CommitPlace(w)
    PROVE  WriteInv'
<1> USE WriterTyped
<1> DEFINE d == blobWriter[w].expect
<1>1. blobWriter[w].task = "place" /\ stage' = [stage EXCEPT ![w] = NoFile] BY DEF CommitPlace
<1>2. /\ blobWriter[w].at = "staged" /\ d \in StoredDigests /\ DigestOf(blobWriter[w].hashed) = d
      /\ stage[w].bytes = blobWriter[w].hashed /\ stage[w].synced = Len(blobWriter[w].hashed)
  <2>1. blobWriter[w].at = "staged" BY <1>1 DEF Staged, BlobWrite, Idle
  <2> QED BY <1>1, <2>1 DEF Staged
<1>3. CASE blobs[d] # NoFile
  <2>1. Answered(w, TRUE) /\ UNCHANGED blobs BY <1>3 DEF CommitPlace
  <2> QED BY <1>1, <1>2, <1>3, <2>1, AnsweredEnds, WriterEndsInv
<1>4. CASE Answered(w, FALSE) /\ UNCHANGED blobs BY <1>1, <1>4, AnsweredEnds, WriterEndsInv
<1>5. CASE /\ blobs' = [blobs EXCEPT ![d] = stage[w]]
           /\ blobWriter' = [blobWriter EXCEPT ![w].task = "link"]
           /\ UNCHANGED stored
  <2> DEFINE q == [blobWriter[w] EXCEPT !.task = "link"]
  <2>1. q \in BlobWrite /\ q.at = "staged" /\ q.task = "link" /\ q.hashed = blobWriter[w].hashed /\ q.expect = d
    BY <1>2 DEF BlobWrite, WriterTasks
  <2>2. blobWriter' = [blobWriter EXCEPT ![w] = q] BY <1>5
  <2> HIDE DEF q
  <2>3. stage[w] # NoFile
    <3>1. Len(blobWriter[w].hashed) \in Nat BY DEF BlobWrite
    <3> QED BY <1>2, <3>1 DEF NoFile
  <2>4. /\ blobs' \in [StoredDigests -> BlobFile] /\ blobs'[d] = stage[w]
        /\ \A e \in StoredDigests \ {d} : blobs'[e] = blobs[e]
    BY <1>2, <1>5 DEF WriteInv, WriteTyped
  <2>5. /\ blobWriter' \in [BlobWriters -> BlobWrite] /\ stage' \in [BlobWriters -> BlobFile]
        /\ blobWriter'[w] = q /\ stage'[w] = NoFile
        /\ \A v \in BlobWriters \ {w} : blobWriter'[v] = blobWriter[v] /\ stage'[v] = stage[v]
    BY <1>1, <2>1, <2>2, BlanksTyped DEF WriteInv, WriteTyped
  <2>6. WriteTyped' BY <1>5, <2>4, <2>5 DEF WriteInv, WriteTyped
  <2>7. \A e \in StoredDigests : Whole(e, blobs'[e])
    <3>1. Whole(d, stage[w]) BY <1>2 DEF Whole
    <3> QED BY <2>4, <3>1 DEF WriteInv
  <2>8. \A e \in StoredDigests : blobs[e] # NoFile => blobs'[e] # NoFile BY <2>3, <2>4
  <2>9. \A v \in BlobWriters : Staged(blobWriter'[v], stage'[v])
    <3>1. Staged(q, NoFile) BY <1>2, <2>1 DEF Staged
    <3> QED BY <2>5, <3>1 DEF WriteInv
  <2>10. \A v \in BlobWriters : Placed(blobWriter[v])'
    <3>1. ASSUME NEW v \in BlobWriters \ {w}, blobWriter[v].task = "link" PROVE blobs'[blobWriter[v].expect] # NoFile
      <4>1. Staged(blobWriter[v], stage[v]) /\ blobWriter[v] \in BlobWrite /\ Placed(blobWriter[v]) OBVIOUS
      <4>2. blobWriter[v].expect \in StoredDigests /\ blobs[blobWriter[v].expect] # NoFile
        BY <3>1, <4>1 DEF Staged, Placed, BlobWrite, Idle
      <4> QED BY <2>8, <4>2
    <3>2. blobs'[q.expect] # NoFile BY <2>1, <2>3, <2>4
    <3> QED BY <2>5, <3>1, <3>2 DEF Placed
  <2>11. \A e \in stored' : blobs'[e] # NoFile BY <1>5, <2>8
  <2>12. \A v \in BlobWriters : Staged(blobWriter[v], stage[v])' BY <2>9 DEF Staged
  <2>13. \A e \in StoredDigests : Whole(e, blobs[e])' BY <2>7 DEF Whole
  <2> QED BY <2>6, <2>10, <2>11, <2>12, <2>13 DEF WriteInv
<1> QED BY <1>3, <1>4, <1>5 DEF CommitPlace

LEMMA CommitLinkInv ==
    ASSUME WriteInv, NEW w \in BlobWriters, CommitLink(w)
    PROVE  WriteInv'
<1> USE WriterTyped
<1>1. blobWriter[w].task = "link" /\ Answered(w, TRUE) /\ UNCHANGED <<blobs, stage>> BY DEF CommitLink
<1>2. blobWriter[w].expect \in StoredDigests /\ blobs[blobWriter[w].expect] # NoFile
  BY <1>1 DEF Staged, Placed, BlobWrite, Idle
<1>3. /\ blobWriter' = [blobWriter EXCEPT ![w] = Idle]
      /\ stored' = stored \/ \E d \in StoredDigests : blobs[d] # NoFile /\ stored' = stored \cup {d}
  BY <1>1, <1>2, AnsweredEnds
<1>4. stage[w] = NoFile BY <1>1 DEF Staged, BlobWrite, Idle
<1>5. stage' = [stage EXCEPT ![w] = NoFile] BY <1>1, <1>4 DEF WriteInv, WriteTyped
<1> QED BY <1>1, <1>3, <1>5, WriterEndsInv

LEMMA GivingUpSteps ==
    ASSUME WriteInv, NEW w \in BlobWriters, SettleFailed(w) \/ DiscardStage(w) \/ DropWrite(w)
    PROVE  WriteInv'
<1> USE WriterTyped
<1>1. CASE SettleFailed(w)
  <2>1. blobWriter' = [blobWriter EXCEPT ![w] = Idle] /\ UNCHANGED <<blobs, stage, stored>> BY <1>1 DEF SettleFailed
  <2>2. stage[w] = NoFile BY <1>1 DEF SettleFailed, Staged
  <2>3. stage' = [stage EXCEPT ![w] = NoFile] BY <2>1, <2>2 DEF WriteInv, WriteTyped
  <2> QED BY <2>1, <2>3, WriterEndsInv
<1>2. CASE DiscardStage(w) BY <1>2, WriterEndsInv DEF DiscardStage
<1>3. CASE DropWrite(w)
  <2> DEFINE task == IF blobWriter[w].at = "staged" /\ blobWriter[w].task = "none" THEN "abort" ELSE blobWriter[w].task
             q == [blobWriter[w] EXCEPT !.attached = FALSE, !.task = task]
  <2>1. blobWriter[w].at \in {"open", "finishing", "staged"}
        /\ blobWriter' = [blobWriter EXCEPT ![w] = q] /\ UNCHANGED <<blobs, stage, stored>>
    BY <1>3 DEF DropWrite
  <2>2. task \in WriterTasks BY DEF BlobWrite, WriterTasks
  <2>3. task = blobWriter[w].task \/ (blobWriter[w].at = "staged" /\ blobWriter[w].task = "none" /\ task = "abort")
    OBVIOUS
  <2> HIDE DEF task
  <2>4. q \in BlobWrite /\ q.at = blobWriter[w].at /\ q.task = task /\ q.hashed = blobWriter[w].hashed
        /\ q.expect = blobWriter[w].expect
    BY <2>2 DEF BlobWrite
  <2> HIDE DEF q
  <2>5. Staged(q, stage[w]) /\ Placed(q) BY <2>1, <2>3, <2>4 DEF Staged, Placed
  <2> QED BY <2>1, <2>4, <2>5, SameStage
<1> QED BY <1>1, <1>2, <1>3

\* A crash takes names that were not synced, and no bytes: what is under a digest was synced whole.
LEMMA CrashInv ==
    ASSUME WriteInv, Crash
    PROVE  WriteInv'
<1>1. PICK lost \in SUBSET StoredDigests, cut \in BOOLEAN :
        /\ blobs' = [d \in StoredDigests |->
                      IF blobs[d] = NoFile \/ d \in lost THEN NoFile
                      ELSE IF cut THEN [blobs[d] EXCEPT !.bytes = SubSeq(@, 1, blobs[d].synced)]
                      ELSE blobs[d]]
        /\ stored' = stored \ lost
  BY DEF Crash
<1>2. /\ blobWriter' = [w \in BlobWriters |-> Idle] /\ stage' = [w \in BlobWriters |-> NoFile] BY DEF Crash
<1>3. ASSUME NEW d \in StoredDigests, blobs[d] # NoFile
      PROVE  [blobs[d] EXCEPT !.bytes = SubSeq(@, 1, blobs[d].synced)] = blobs[d]
  <2>1. blobs[d] \in BlobFile /\ blobs[d].synced = Len(blobs[d].bytes) BY <1>3 DEF WriteInv, WriteTyped, Whole
  <2>2. SubSeq(blobs[d].bytes, 1, Len(blobs[d].bytes)) = blobs[d].bytes BY <2>1, SubSeqFull DEF BlobFile
  <2>3. [blobs[d] EXCEPT !.bytes = SubSeq(@, 1, blobs[d].synced)] = [blobs[d] EXCEPT !.bytes = blobs[d].bytes]
    BY <2>1, <2>2
  <2> QED BY <2>1, <2>3 DEF BlobFile
<1>4. \A d \in StoredDigests : blobs'[d] = NoFile \/ (blobs[d] # NoFile /\ d \notin lost /\ blobs'[d] = blobs[d])
  BY <1>1, <1>3
<1>5. \A d \in StoredDigests : blobs[d] # NoFile /\ d \notin lost => blobs'[d] = blobs[d] BY <1>1, <1>3
<1>6. blobs' \in [StoredDigests -> BlobFile]
  <2>1. \A d \in StoredDigests : blobs'[d] \in BlobFile BY <1>4, BlanksTyped DEF WriteInv, WriteTyped
  <2> QED BY <1>1, <2>1
<1>7. WriteTyped' BY <1>1, <1>2, <1>6, BlanksTyped DEF WriteInv, WriteTyped
<1>8. \A d \in StoredDigests : Whole(d, blobs[d])' BY <1>4 DEF WriteInv, Whole
<1>9. (\A d \in stored : blobs[d] # NoFile)' BY <1>1, <1>5 DEF WriteInv, WriteTyped
<1>10. \A w \in BlobWriters : Staged(blobWriter[w], stage[w])' /\ Placed(blobWriter[w])'
  BY <1>2, BlanksTyped DEF Staged, Placed, Idle
<1> QED BY <1>7, <1>8, <1>9, <1>10 DEF WriteInv

LEMMA WriteInitInv == WriteInit => WriteInv
<1> SUFFICES ASSUME WriteInit PROVE WriteInv OBVIOUS
<1>1. WriteTyped BY BlanksTyped DEF WriteInit, WriteTyped
<1> QED BY <1>1, BlanksTyped DEF WriteInit, WriteInv, Whole, Placed, Idle

LEMMA WriteNextInv == WriteInv /\ [WriteNext]_writeVars => WriteInv'
<1> SUFFICES ASSUME WriteInv, [WriteNext]_writeVars PROVE WriteInv' OBVIOUS
<1>1. ASSUME NEW w \in BlobWriters, WriteStep(w) PROVE WriteInv'
  <2>1. CASE BeginWrite(w) \/ \E bytes \in Contents : StageBytes(w, bytes) BY <2>1, OpeningSteps
  <2>2. CASE (\E c \in Chunks : WriteChunk(w, c)) \/ FlushWrite(w) \/ BatchDone(w) \/ FinishWrite(w) BY <2>2, QueueSteps
  <2>3. CASE TaskWrites(w) \/ TaskFails(w) \/ FinishDone(w) BY <2>3, TaskWritesInv, TaskFailsInv, FinishDoneInv
  <2>4. CASE SettleFailed(w) \/ DiscardStage(w) \/ DropWrite(w) BY <2>4, GivingUpSteps
  <2>5. CASE CommitCheck(w) \/ CommitPlace(w) \/ CommitLink(w) \/ \E d \in StoredDigests : CommitAs(w, d)
    BY <2>5, CommitCheckInv, CommitPlaceInv, CommitLinkInv, CommitAsInv
  <2> QED BY <1>1, <2>1, <2>2, <2>3, <2>4, <2>5 DEF WriteStep
<1>2. CASE UNCHANGED writeVars BY <1>2 DEF writeVars, WriteInv, WriteTyped, Whole, Placed, Staged
<1> QED BY <1>1, <1>2, CrashInv DEF WriteNext

LEMMA BlobsAreTheirDigestFollows == WriteInv => BlobsAreTheirDigest
<1> SUFFICES ASSUME WriteInv PROVE BlobsAreTheirDigest OBVIOUS
<1>1. \A w \in BlobWriters : stage[w] # NoFile => blobWriter[w].at # "idle" BY WriterTyped DEF Staged
<1> QED BY <1>1 DEF WriteInv, Whole, BlobsAreTheirDigest

--------------------------------
(* Leases.  Whoever is between making a lease and locking it, or between     *)
(* unlocking and removing it, holds the coordination lock against cleaners.  *)

LeaserPlaces == {"idle", "opening", "linked", "held", "releasing", "unlocked", "dead"}
LeaseInv ==
    /\ leaser \in [Leasers -> [at : LeaserPlaces, link : BOOLEAN]]
    /\ leaseFile \subseteq Leasers
    /\ \A l \in Leasers : leaser[l].at \in {"linked", "held", "releasing", "unlocked"} => l \in leaseFile
    /\ Cleaning # {} => Coordinating = {}

LEMMA LeaseNextInv == LeaseInv /\ [LeaseNext]_leaseVars => LeaseInv'
<1> SUFFICES ASSUME LeaseInv, [LeaseNext]_leaseVars PROVE LeaseInv' OBVIOUS
<1> USE DEF LeaseInv
<1>1. ASSUME NEW l \in Leasers, PinStart(l) \/ ReleaseStart(l)
      PROVE  LeaseInv'
  <2>1. Cleaning = {} /\ Cleaning' = {} BY <1>1 DEF PinStart, ReleaseStart, Cleaning
  <2>2. leaser' \in [Leasers -> [at : LeaserPlaces, link : BOOLEAN]]
        /\ leaseFile' = leaseFile
        /\ \A k \in Leasers : leaser'[k].at \in {"linked", "held", "releasing", "unlocked"} => k \in leaseFile
    BY <1>1 DEF PinStart, ReleaseStart, LeaserPlaces
  <2> QED BY <2>1, <2>2
<1>2. ASSUME NEW l \in Leasers,
             PinLink(l) \/ PinLock(l) \/ ReleaseUnlock(l) \/ ReleaseRemove(l) \/ LeaserDies(l)
      PROVE  LeaseInv'
  <2>1. PICK x \in [at : LeaserPlaces, link : BOOLEAN] :
          /\ leaser' = [leaser EXCEPT ![l] = x]
          /\ leaseFile' \in {leaseFile, leaseFile \cup {l}, leaseFile \ {l}}
          /\ x.at \in {"linked", "held", "releasing", "unlocked"} => l \in leaseFile'
          /\ x.at \in {"opening", "linked", "releasing", "unlocked"} =>
               leaser[l].at \in {"opening", "linked", "releasing", "unlocked"}
    <3>1. CASE PinLink(l)
      <4>1. PICK link \in BOOLEAN : leaser' = [leaser EXCEPT ![l] = [at |-> "linked", link |-> link]]
        BY <3>1 DEF PinLink
      <4> QED BY <3>1, <4>1 DEF PinLink, LeaserPlaces
    <3>2. CASE PinLock(l) \/ ReleaseUnlock(l) \/ LeaserDies(l)
      <4>1. PICK at \in {"held", "unlocked", "dead"} :
              /\ leaser' = [leaser EXCEPT ![l].at = at] /\ leaseFile' = leaseFile
              /\ at = "held" => leaser[l].at = "linked"
              /\ at = "unlocked" => leaser[l].at = "releasing"
        BY <3>2 DEF PinLock, ReleaseUnlock, LeaserDies
      <4>2. leaser' = [leaser EXCEPT ![l] = [leaser[l] EXCEPT !.at = at]] BY <4>1
      <4>3. [leaser[l] EXCEPT !.at = at] \in [at : LeaserPlaces, link : BOOLEAN] /\ [leaser[l] EXCEPT !.at = at].at = at
        BY DEF LeaserPlaces
      <4> QED BY <4>1, <4>2, <4>3
    <3>3. CASE ReleaseRemove(l) BY <3>3 DEF ReleaseRemove, LeaserPlaces
    <3> QED BY <1>2, <3>1, <3>2, <3>3
  <2>2. Cleaning' = Cleaning BY <1>2 DEF PinLink, PinLock, ReleaseUnlock, ReleaseRemove, LeaserDies, Cleaning
  <2>3. leaser'[l] = x /\ \A k \in Leasers \ {l} : leaser'[k] = leaser[k] BY <2>1
  <2>4. Coordinating' \subseteq Coordinating BY <2>1, <2>3 DEF Coordinating
  <2> QED BY <2>1, <2>2, <2>3, <2>4
<1>3. ASSUME NEW l \in Leasers, NEW c \in Cleaners, CleanupEntry(c, l)
      PROVE  LeaseInv'
  <2>1. Cleaning # {} /\ Coordinating = {} BY <1>3 DEF CleanupEntry, Cleaning
  <2>2. CASE UNCHANGED <<leaseFile, leaser>> BY <2>1, <2>2 DEF Coordinating
  <2>3. CASE LockedBy(l) = {} /\ leaseFile' = leaseFile \ {l}
             /\ leaser' = [leaser EXCEPT ![l] = IF @.at = "dead" THEN [at |-> "idle", link |-> FALSE] ELSE @]
    <3>1. leaser[l].at \notin {"linked", "held", "releasing", "unlocked"} BY <2>1, <2>3 DEF LockedBy, Coordinating
    <3>2. PICK x \in [at : LeaserPlaces, link : BOOLEAN] :
            leaser' = [leaser EXCEPT ![l] = x] /\ (x = leaser[l] \/ x.at = "idle")
      <4>1. CASE leaser[l].at = "dead"
        <5>1. leaser' = [leaser EXCEPT ![l] = [at |-> "idle", link |-> FALSE]] BY <2>3, <4>1
        <5>2. [at |-> "idle", link |-> FALSE] \in [at : LeaserPlaces, link : BOOLEAN] BY DEF LeaserPlaces
        <5> QED BY <5>1, <5>2
      <4>2. CASE leaser[l].at # "dead"
        <5>1. leaser' = [leaser EXCEPT ![l] = leaser[l]] /\ leaser[l] \in [at : LeaserPlaces, link : BOOLEAN]
          BY <2>3, <4>2
        <5> QED BY <5>1
      <4> QED BY <4>1, <4>2
    <3>3. leaser'[l] = x /\ \A k \in Leasers \ {l} : leaser'[k] = leaser[k] BY <3>2
    <3>4. Coordinating' \subseteq Coordinating BY <3>2, <3>3 DEF Coordinating
    <3> QED BY <2>1, <2>3, <3>1, <3>2, <3>3, <3>4
  <2> QED BY <1>3, <2>2, <2>3 DEF CleanupEntry
<1>4. ASSUME NEW c \in Cleaners, CleanupStart(c) \/ CleanupDone(c)
      PROVE  LeaseInv'
  <2>1. UNCHANGED <<leaser, leaseFile>> /\ Coordinating' = Coordinating
    BY <1>4 DEF CleanupStart, CleanupDone, Coordinating
  <2>2. Cleaning' # {} => Coordinating = {} BY <1>4 DEF CleanupStart, CleanupDone, Cleaning
  <2> QED BY <2>1, <2>2
<1>5. CASE RemoveBlob \/ UNCHANGED leaseVars BY <1>5 DEF RemoveBlob, leaseVars, Cleaning, Coordinating
<1> QED BY <1>1, <1>2, <1>3, <1>4, <1>5 DEF LeaseNext, LeaseStep

LEMMA LeaseInitInv == LeaseInit => LeaseInv
  BY DEF LeaseInit, LeaseInv, LeaserPlaces, Cleaning, Coordinating

--------------------------------
(* The S3 backend: the inductive invariant.  The parts of an upload are      *)
(* the cuts of its content, whoever sent them and however often.             *)

PartMaps == UNION {[numbers -> SUBSET Int] : numbers \in SUBSET Nat}
S3Upload == [key : Lengths, state : {"open", "done", "aborted"}, parts : PartMaps]
S3Part == [number : Nat, from : Nat, to : Nat]
S3Answers == {"none", "ok", "failed", "abort failed"}
S3Put == [at : {"idle", "put", "create", "parts", "abort", "discard"}, len : Lengths \cup {0}, upload : Nat,
          offset : Nat, number : Nat, batch : SUBSET S3Part, attempt : Nat, answer : S3Answers]
S3Get == [at : {"idle", "headed", "streaming", "done", "failed"}, key : Lengths \cup {0}, range : Nat \X Nat,
          declared : Nat, got : SUBSET Int]

LesserOf(a, b) == IF a < b THEN a ELSE b
Cut(n, len) == Units((n - 1) * PartSize, LesserOf(n * PartSize, len))

ObjectsWhole(objs) == objs \in [Lengths -> SUBSET Int] /\ \A k \in Lengths : objs[k] \in {Absent, Units(0, k)}
Confirmed(conf, objs) == conf \subseteq Lengths /\ \A k \in conf : objs[k] # Absent
CutsSound(ups) ==
    /\ ups \in Seq(S3Upload)
    /\ \A u \in DOMAIN ups : \A n \in DOMAIN ups[u].parts : n > 0 /\ ups[u].parts[n] = Cut(n, ups[u].key)

(* A commit under way: every part before its number was received or is in the batch. *)
Batched(q, ups) ==
    /\ q.upload \in DOMAIN ups /\ ups[q.upload].key = q.len
    /\ q.number > 0 /\ q.offset = LesserOf((q.number - 1) * PartSize, q.len)
    /\ \A part \in q.batch : part.number > 0 /\ Units(part.from, part.to) = Cut(part.number, q.len)
    /\ \A n \in 1..(q.number - 1) : n \in DOMAIN ups[q.upload].parts \/ \E part \in q.batch : part.number = n
Putting(q, ups) ==
    /\ q.at = "idle" /\ q.answer = "none" => q = FreshPut
    /\ q.at \in {"put", "create", "parts", "abort"} => q.len \in Lengths /\ q.answer = "none"
    /\ q.at = "create" => q.offset = 0 /\ q.number = 1 /\ q.batch = {}
    /\ q.at = "parts" => Batched(q, ups)
    /\ q.at = "abort" => q.upload \in DOMAIN ups
    /\ q.at = "discard" => q.answer # "none"

Reading(r) ==
    /\ r.at \in {"headed", "streaming"} =>
         r.key \in Lengths /\ r.range[1] <= r.range[2] /\ r.range[2] <= r.key /\ r.declared = r.range[2] - r.range[1]
    /\ r.at = "done" => r.got = Units(r.range[1], r.range[2])

S3Inv ==
    /\ ObjectsWhole(objects) /\ Confirmed(confirmed, objects) /\ CutsSound(uploads)
    /\ putter \in [Putters -> S3Put] /\ getter \in [Getters -> S3Get]
    /\ \A p \in Putters : Putting(putter[p], uploads) /\ (putter[p].at = "idle" => p \notin s3Stage)
    /\ \A g \in Getters : Reading(getter[g])

--------------------------------
(* Cuts. *)

LEMMA PartSizePositive == PartSize \in Nat /\ PartSize > 0 /\ UploadConcurrency \in Nat /\ UploadConcurrency > 0
                          /\ Lengths \subseteq Nat
  BY S3Assumption

LEMMA Multiples ==
    ASSUME NEW a \in Nat, NEW b \in Nat
    PROVE  a * PartSize \in Nat /\ b * PartSize \in Nat /\ (a + b) * PartSize = a * PartSize + b * PartSize
  BY PartSizePositive

LEMMA FewerMultiples ==
    ASSUME NEW a \in Nat, NEW b \in Nat, a <= b
    PROVE  a * PartSize <= b * PartSize
<1>1. PICK c \in Nat : b = a + c BY b - a \in Nat
<1>2. b * PartSize = a * PartSize + c * PartSize /\ a * PartSize \in Nat /\ c * PartSize \in Nat BY <1>1, Multiples
<1> QED BY <1>2

\* Enough cuts are the whole content.
LEMMA CutsCover ==
    ASSUME NEW len \in Nat, NEW m \in Nat, len <= m * PartSize
    PROVE  UNION {Cut(n, len) : n \in 1..m} = Units(0, len)
<1>1. ASSUME NEW n \in 1..m, NEW x \in Cut(n, len) PROVE x \in Units(0, len)
  <2>1. n \in Nat /\ n - 1 \in Nat OBVIOUS
  <2>2. (n - 1) * PartSize \in Nat /\ n * PartSize \in Nat BY <2>1, Multiples
  <2> QED BY <1>1, <2>2 DEF Cut, Units, LesserOf
<1>2. ASSUME NEW x \in Units(0, len) PROVE \E n \in 1..m : x \in Cut(n, len)
  <2> DEFINE T == {n \in Nat : x < n * PartSize}
  <2>1. x \in Nat /\ x < len BY DEF Units
  <2>2. m \in T
    <3>1. m * PartSize \in Nat BY Multiples
    <3> QED BY <2>1, <3>1
  <2>3. PICK n \in T : \A k \in T : n <= k
    <3>1. T \in SUBSET Nat /\ T # {} BY <2>2
    <3> HIDE DEF T
    <3> QED BY <3>1, LeastNatural
  <2>4. n \in Nat /\ n <= m /\ x < n * PartSize BY <2>2, <2>3
  <2>5. n # 0
    <3>1. 0 * PartSize = 0 BY PartSizePositive
    <3> QED BY <2>1, <2>4, <3>1
  <2>6. n - 1 \in Nat /\ n - 1 \notin T BY <2>3, <2>4, <2>5
  <2>7. (n - 1) * PartSize <= x
    <3>1. (n - 1) * PartSize \in Nat BY <2>6, Multiples
    <3> QED BY <2>1, <2>6, <3>1
  <2>8. (n - 1) * PartSize \in Nat /\ n * PartSize \in Nat BY <2>4, <2>6, Multiples
  <2>9. x \in Cut(n, len) BY <2>1, <2>4, <2>7, <2>8 DEF Cut, Units, LesserOf
  <2> QED BY <2>4, <2>5, <2>9
<1> QED BY <1>1, <1>2

\* How many parts a batch is cut into: all it may have, or as many as are left.
LEMMA BatchIsCut ==
    ASSUME NEW offset \in Nat, NEW len \in Nat, offset < len
    PROVE  \E m \in 1..UploadConcurrency :
             /\ {j \in 0..(UploadConcurrency - 1) : offset + j * PartSize < len} = 0..(m - 1)
             /\ m = UploadConcurrency \/ len <= offset + m * PartSize
<1> DEFINE T == {n \in Nat : n = UploadConcurrency \/ len <= offset + n * PartSize}
<1>1. UploadConcurrency \in T BY PartSizePositive
<1>2. PICK m \in T : \A k \in T : m <= k
  <2>1. T \in SUBSET Nat /\ T # {} BY <1>1
  <2> HIDE DEF T
  <2> QED BY <2>1, LeastNatural
<1>3. m \in Nat /\ m <= UploadConcurrency /\ (m = UploadConcurrency \/ len <= offset + m * PartSize) BY <1>1, <1>2
<1>4. m # 0
  <2>1. 0 * PartSize = 0 BY PartSizePositive
  <2> QED BY <1>3, <2>1, PartSizePositive
<1>5. ASSUME NEW j \in 0..(UploadConcurrency - 1)
      PROVE  offset + j * PartSize < len <=> j < m
  <2>1. j \in Nat /\ j # UploadConcurrency /\ j * PartSize \in Nat /\ m * PartSize \in Nat
    BY <1>3, Multiples, PartSizePositive
  <2>2. CASE j < m
    <3>1. j \notin T BY <1>2, <1>3, <2>1, <2>2
    <3> QED BY <2>1, <2>2, <3>1
  <2>3. CASE ~(j < m)
    <3>1. m * PartSize <= j * PartSize BY <1>3, <2>1, <2>3, FewerMultiples
    <3>2. m # UploadConcurrency BY <1>3, <2>1, <2>3, PartSizePositive
    <3> QED BY <1>3, <2>1, <2>3, <3>1, <3>2
  <2> QED BY <2>2, <2>3
<1>6. {j \in 0..(UploadConcurrency - 1) : offset + j * PartSize < len} = 0..(m - 1)
  <2>1. \A j \in 0..(m - 1) : j \in 0..(UploadConcurrency - 1) /\ j < m BY <1>3, PartSizePositive
  <2>2. \A j \in 0..(UploadConcurrency - 1) : j < m => j \in 0..(m - 1) BY <1>3
  <2> QED BY <1>5, <2>1, <2>2
<1> QED BY <1>3, <1>4, <1>6

\* The parts of the next batch, by how many they are.
LEMMA PartsAreCuts ==
    ASSUME NEW q, q.offset \in Nat, q.len \in Nat, q.number \in Nat, q.number > 0,
           q.offset = (q.number - 1) * PartSize, q.offset < q.len
    PROVE  \E m \in 1..UploadConcurrency :
             /\ Cardinality(Parts(q)) = m
             /\ m = UploadConcurrency \/ q.len <= q.offset + m * PartSize
             /\ \A part \in Parts(q) : /\ part \in S3Part /\ part.number > 0
                                      /\ Units(part.from, part.to) = Cut(part.number, q.len)
             /\ \A n \in q.number..(q.number + m - 1) : \E part \in Parts(q) : part.number = n
<1> DEFINE J == {j \in 0..(UploadConcurrency - 1) : q.offset + j * PartSize < q.len}
           P(i) == [number |-> q.number + i, from |-> q.offset + i * PartSize,
                    to |-> IF q.offset + (i + 1) * PartSize < q.len THEN q.offset + (i + 1) * PartSize ELSE q.len]
<1>1. PICK m \in 1..UploadConcurrency : J = 0..(m - 1) /\ (m = UploadConcurrency \/ q.len <= q.offset + m * PartSize)
  BY BatchIsCut
<1>2. m \in Nat /\ m > 0 BY <1>1, PartSizePositive
<1>3. Parts(q) = {P(i) : i \in J} BY DEF Parts
<1>4. ASSUME NEW i \in J
      PROVE  /\ P(i) \in S3Part /\ P(i).number = q.number + i /\ P(i).number > 0
             /\ Units(P(i).from, P(i).to) = Cut(P(i).number, q.len)
  <2>1. i \in Nat /\ i + 1 \in Nat BY <1>1, <1>2
  <2>2. /\ i * PartSize \in Nat /\ (i + 1) * PartSize \in Nat /\ q.number - 1 \in Nat
        /\ ((q.number - 1) + i) * PartSize = q.offset + i * PartSize
        /\ ((q.number - 1) + (i + 1)) * PartSize = q.offset + (i + 1) * PartSize
    <3>1. q.number - 1 \in Nat OBVIOUS
    <3>2. i * PartSize \in Nat /\ ((q.number - 1) + i) * PartSize = (q.number - 1) * PartSize + i * PartSize
      BY <2>1, <3>1, Multiples
    <3>3. (i + 1) * PartSize \in Nat
          /\ ((q.number - 1) + (i + 1)) * PartSize = (q.number - 1) * PartSize + (i + 1) * PartSize
      BY <2>1, <3>1, Multiples
    <3> QED BY <3>1, <3>2, <3>3
  <2>3. (q.number + i) - 1 = (q.number - 1) + i /\ q.number + i = (q.number - 1) + (i + 1) BY <2>1
  <2>4. /\ ((q.number + i) - 1) * PartSize = q.offset + i * PartSize
        /\ (q.number + i) * PartSize = q.offset + (i + 1) * PartSize
    BY <2>2, <2>3
  <2>5. P(i) = [number |-> q.number + i, from |-> q.offset + i * PartSize,
                to |-> LesserOf(q.offset + (i + 1) * PartSize, q.len)]
    BY DEF LesserOf
  <2>6. /\ q.offset + i * PartSize \in Nat /\ LesserOf(q.offset + (i + 1) * PartSize, q.len) \in Nat
        /\ q.number + i \in Nat /\ q.number + i > 0
    BY <2>1, <2>2 DEF LesserOf
  <2> HIDE DEF P
  <2>7. P(i).from = q.offset + i * PartSize /\ P(i).to = LesserOf(q.offset + (i + 1) * PartSize, q.len)
        /\ P(i).number = q.number + i
    BY <2>5
  <2>8. P(i) \in S3Part BY <2>5, <2>6 DEF S3Part
  <2>9. Units(P(i).from, P(i).to) = Cut(P(i).number, q.len) BY <2>4, <2>7 DEF Cut
  <2> QED BY <2>6, <2>7, <2>8, <2>9
<1>5. Cardinality(Parts(q)) = m
  <2> DEFINE F == [i \in J |-> P(i)]
  <2>1. IsFiniteSet(J) /\ Cardinality(J) = m
    <3>1. 0 \in Int /\ m - 1 \in Int BY <1>2
    <3>2. IsFiniteSet(0..(m - 1)) /\ Cardinality(0..(m - 1)) = IF 0 > m - 1 THEN 0 ELSE (m - 1) - 0 + 1
      BY <3>1, FS_Interval
    <3>3. (IF 0 > m - 1 THEN 0 ELSE (m - 1) - 0 + 1) = m BY <1>2
    <3> HIDE DEF J
    <3> QED BY <1>1, <3>2, <3>3
  <2>2. F \in Bijection(J, Parts(q))
    <3>1. \A i, k \in J : F[i] = F[k] => i = k
      <4>1. ASSUME NEW i \in J, NEW k \in J, P(i) = P(k) PROVE i = k
        <5>1. q.number + i = q.number + k BY <1>4, <4>1
        <5>2. i \in Int /\ k \in Int BY <1>1, <1>2
        <5> QED BY <5>1, <5>2
      <4> HIDE DEF P
      <4> QED BY <4>1
    <3> HIDE DEF P
    <3>2. F \in [J -> Parts(q)] BY <1>3
    <3>3. \A part \in Parts(q) : \E i \in J : F[i] = part BY <1>3
    <3> HIDE DEF F, J
    <3>4. F \in Injection(J, Parts(q)) BY <3>1, <3>2 DEF Injection, IsInjective
    <3>5. F \in Surjection(J, Parts(q)) BY <3>2, <3>3 DEF Surjection
    <3> QED BY <3>4, <3>5 DEF Bijection
  <2> HIDE DEF F
  <2>3. ExistsBijection(J, Parts(q)) BY <2>2 DEF ExistsBijection
  <2> QED BY <2>1, <2>3, FS_Bijection
<1>6. \A n \in q.number..(q.number + m - 1) : \E part \in Parts(q) : part.number = n
  <2>1. ASSUME NEW n \in q.number..(q.number + m - 1) PROVE \E part \in Parts(q) : part.number = n
    <3>1. n - q.number \in J /\ q.number + (n - q.number) = n BY <1>1, <1>2
    <3> HIDE DEF P, J
    <3>2. P(n - q.number) \in Parts(q) /\ P(n - q.number).number = n BY <1>3, <1>4, <3>1
    <3> QED BY <3>2
  <2> QED BY <2>1
<1> HIDE DEF P, J
<1>7. \A part \in Parts(q) : /\ part \in S3Part /\ part.number > 0
                            /\ Units(part.from, part.to) = Cut(part.number, q.len)
  BY <1>3, <1>4
<1> QED BY <1>1, <1>5, <1>6, <1>7

--------------------------------
(* Steps of one commit. *)

\* Uploads only gain: a new one, or parts of one.
Gains(ups, more) ==
    /\ DOMAIN ups \subseteq DOMAIN more
    /\ \A u \in DOMAIN ups : more[u].key = ups[u].key /\ DOMAIN ups[u].parts \subseteq DOMAIN more[u].parts

LEMMA PuttingKept ==
    ASSUME NEW q, NEW ups, NEW more, Gains(ups, more), Putting(q, ups)
    PROVE  Putting(q, more)
  BY DEF Putting, Batched, Gains

LEMMA NothingGained ==
    ASSUME NEW ups
    PROVE  Gains(ups, ups)
  BY DEF Gains

LEMMA PutterMoves ==
    ASSUME S3Inv, NEW p \in Putters, NEW q \in S3Put, putter' = [putter EXCEPT ![p] = q],
           ObjectsWhole(objects'), Confirmed(confirmed', objects'), CutsSound(uploads'), Gains(uploads, uploads'),
           Putting(q, uploads'), UNCHANGED getter,
           s3Stage' \in {s3Stage, s3Stage \cup {p}, s3Stage \ {p}}, q.at = "idle" => p \notin s3Stage'
    PROVE  S3Inv'
<1>1. putter' \in [Putters -> S3Put] /\ putter'[p] = q /\ \A v \in Putters \ {p} : putter'[v] = putter[v] BY DEF S3Inv
<1>2. ASSUME NEW v \in Putters
      PROVE  Putting(putter'[v], uploads') /\ (putter'[v].at = "idle" => v \notin s3Stage')
  <2>1. CASE v = p BY <1>1, <2>1
  <2>2. CASE v # p BY <1>1, <2>2, PuttingKept DEF S3Inv
  <2> QED BY <2>1, <2>2
<1>3. \A v \in Putters : Putting(putter[v], uploads)' BY <1>2 DEF Putting, Batched
<1>4. ObjectsWhole(objects)' /\ Confirmed(confirmed, objects)' /\ CutsSound(uploads)'
  BY DEF ObjectsWhole, Confirmed, CutsSound
<1>5. \A g \in Getters : Reading(getter[g])' BY DEF S3Inv, Reading
<1> QED BY <1>1, <1>2, <1>3, <1>4, <1>5 DEF S3Inv

LEMMA PutterTyped ==
    ASSUME S3Inv, NEW p \in Putters
    PROVE  /\ putter[p] \in S3Put /\ Putting(putter[p], uploads) /\ CutsSound(uploads)
           /\ ObjectsWhole(objects) /\ Confirmed(confirmed, objects) /\ Gains(uploads, uploads)
  BY NothingGained DEF S3Inv

\* The three ways a request leaves its commit; each keeps what the commit has learned.
LEMMA RetriedPut ==
    ASSUME S3Inv, NEW p \in Putters, Retry(p), putter[p].at # "idle"
    PROVE  \E q \in S3Put : /\ putter' = [putter EXCEPT ![p] = q] /\ q.at = putter[p].at /\ q.answer = putter[p].answer
                            /\ \A ups : Putting(putter[p], ups) => Putting(q, ups)
<1> DEFINE q == [putter[p] EXCEPT !.attempt = @ + 1]
<1>1. putter' = [putter EXCEPT ![p] = q] BY DEF Retry
<1>2. putter[p] \in S3Put BY PutterTyped
<1>3. q \in S3Put
  <2>1. putter[p].attempt + 1 \in Nat BY <1>2 DEF S3Put
  <2> QED BY <1>2, <2>1 DEF S3Put
<1>4. /\ q.at = putter[p].at /\ q.answer = putter[p].answer /\ q.len = putter[p].len /\ q.upload = putter[p].upload
      /\ q.offset = putter[p].offset /\ q.number = putter[p].number /\ q.batch = putter[p].batch
  BY <1>2 DEF S3Put
<1> HIDE DEF q
<1>5. \A ups : Putting(putter[p], ups) => Putting(q, ups) BY <1>4 DEF Putting, Batched
<1> QED BY <1>1, <1>3, <1>4, <1>5

LEMMA EndedPut ==
    ASSUME S3Inv, NEW p \in Putters, NEW answer \in S3Answers \ {"none"}, Ends(p, answer)
    PROVE  \E q \in S3Put : /\ putter' = [putter EXCEPT ![p] = q] /\ q.at = "discard" /\ q.answer = answer
                            /\ \A ups : Putting(q, ups)
<1> DEFINE q == [putter[p] EXCEPT !.at = "discard", !.answer = answer, !.attempt = 0]
<1>1. putter' = [putter EXCEPT ![p] = q] BY DEF Ends
<1>2. q \in S3Put /\ q.at = "discard" /\ q.answer = answer BY PutterTyped DEF S3Put
<1> HIDE DEF q
<1>3. \A ups : Putting(q, ups) BY <1>2 DEF Putting
<1> QED BY <1>1, <1>2, <1>3

LEMMA StartPutInv ==
    ASSUME S3Inv, NEW p \in Putters, NEW len \in Lengths, StartPut(p, len)
    PROVE  S3Inv'
<1> DEFINE at == IF len <= MultipartThreshold THEN "put" ELSE "create"
           q == [putter[p] EXCEPT !.len = len, !.at = at]
<1>1. /\ putter[p].at = "idle" /\ putter[p].answer = "none" /\ putter' = [putter EXCEPT ![p] = q]
      /\ s3Stage' = s3Stage \cup {p} /\ UNCHANGED <<objects, uploads, getter, confirmed>>
  BY DEF StartPut
<1>2. at \in {"put", "create"} OBVIOUS
<1> HIDE DEF at
<1>3. putter[p] \in S3Put /\ putter[p] = FreshPut BY <1>1, PutterTyped DEF Putting
<1>4. putter[p].offset = 0 /\ putter[p].number = 1 /\ putter[p].batch = {} /\ putter[p].answer = "none"
  BY <1>3 DEF FreshPut
<1>5. q \in S3Put /\ q.at = at /\ q.len = len /\ q.offset = putter[p].offset /\ q.number = putter[p].number
      /\ q.batch = putter[p].batch /\ q.answer = putter[p].answer
  BY <1>2, <1>3 DEF S3Put
<1> HIDE DEF q
<1>6. Putting(q, uploads) BY <1>2, <1>4, <1>5 DEF Putting
<1>7. ObjectsWhole(objects') /\ Confirmed(confirmed', objects') /\ CutsSound(uploads') /\ Gains(uploads, uploads')
      /\ Putting(q, uploads')
  BY <1>1, <1>6, PutterTyped
<1> QED BY <1>1, <1>2, <1>5, <1>7, PutterMoves

\* A request that failed or was refused: it is sent again, or the commit fails.
LEMMA FailedRequest ==
    ASSUME S3Inv, NEW p \in Putters, putter[p].at # "idle", putter[p].answer = "none",
           Retry(p) \/ Ends(p, "failed") \/ Ends(p, "abort failed"),
           ObjectsWhole(objects'), \A k \in Lengths : objects[k] # Absent => objects'[k] # Absent, Confirms(p),
           CutsSound(uploads'), Gains(uploads, uploads'), UNCHANGED <<getter, s3Stage>>
    PROVE  S3Inv'
<1>1. PICK q \in S3Put : /\ putter' = [putter EXCEPT ![p] = q] /\ q.at # "idle" /\ q.answer # "ok"
                          /\ \A ups : Putting(putter[p], ups) => Putting(q, ups)
  <2>1. CASE Retry(p) BY <2>1, RetriedPut
  <2>2. ASSUME NEW answer \in {"failed", "abort failed"}, Ends(p, answer)
        PROVE  \E q \in S3Put : /\ putter' = [putter EXCEPT ![p] = q] /\ q.at # "idle" /\ q.answer # "ok"
                                /\ \A ups : Putting(putter[p], ups) => Putting(q, ups)
    <3>1. answer \in S3Answers \ {"none"} BY DEF S3Answers
    <3>2. PICK q \in S3Put : /\ putter' = [putter EXCEPT ![p] = q] /\ q.at = "discard" /\ q.answer = answer
                              /\ \A ups : Putting(q, ups)
      BY <2>2, <3>1, EndedPut
    <3>3. q.at # "idle" /\ q.answer # "ok" BY <3>2
    <3> QED BY <3>2, <3>3
  <2> QED BY <2>1, <2>2
<1>2. Putting(q, uploads') BY <1>1, PutterTyped, PuttingKept
<1>3. putter'[p] = q BY <1>1 DEF S3Inv
<1>4. Confirmed(confirmed', objects') BY <1>1, <1>3, PutterTyped DEF Confirms, Confirmed
<1> QED BY <1>1, <1>2, <1>4, PutterMoves

\* A commit that ends well has its object whole.
LEMMA AnsweredWell ==
    ASSUME S3Inv, NEW p \in Putters, putter[p].len \in Lengths, Ends(p, "ok"), Confirms(p),
           ObjectsWhole(objects'), \A k \in Lengths : objects[k] # Absent => objects'[k] # Absent,
           objects'[putter[p].len] # Absent,
           CutsSound(uploads'), Gains(uploads, uploads'), UNCHANGED <<getter, s3Stage>>
    PROVE  S3Inv'
<1>1. "ok" \in S3Answers \ {"none"} BY DEF S3Answers
<1>2. PICK q \in S3Put : /\ putter' = [putter EXCEPT ![p] = q] /\ q.at = "discard" /\ \A ups : Putting(q, ups)
  BY <1>1, EndedPut
<1>3. Confirmed(confirmed', objects') BY PutterTyped DEF Confirms, Confirmed
<1> QED BY <1>2, <1>3, PutterMoves

LEMMA ObjectPut ==
    ASSUME S3Inv, NEW k \in Lengths, objects' = [objects EXCEPT ![k] = Units(0, k)]
    PROVE  /\ ObjectsWhole(objects') /\ \A l \in Lengths : objects[l] # Absent => objects'[l] # Absent
           /\ objects'[k] # Absent
<1>1. Units(0, k) # Absent /\ Units(0, k) \in SUBSET Int BY PartSizePositive DEF Units, Absent
<1>2. objects' \in [Lengths -> SUBSET Int] /\ \A l \in Lengths : objects'[l] = IF l = k THEN Units(0, k) ELSE objects[l]
  BY <1>1 DEF S3Inv, ObjectsWhole
<1> QED BY <1>1, <1>2 DEF S3Inv, ObjectsWhole

LEMMA PutWholeInv ==
    ASSUME S3Inv, NEW p \in Putters, PutWhole(p)
    PROVE  S3Inv'
<1>1. putter[p].at = "put" /\ Confirms(p) /\ UNCHANGED <<uploads, getter, s3Stage>> BY DEF PutWhole
<1>2. putter[p].len \in Lengths /\ putter[p].answer = "none" /\ putter[p].at # "idle" BY <1>1, PutterTyped DEF Putting
<1>3. CutsSound(uploads') /\ Gains(uploads, uploads') BY <1>1, PutterTyped
<1>4. CASE /\ objects' = [objects EXCEPT ![putter[p].len] = Units(0, putter[p].len)]
           /\ Ends(p, "ok") \/ Retry(p) \/ (Exhausted(p) /\ Ends(p, "failed"))
  <2>1. /\ ObjectsWhole(objects') /\ \A l \in Lengths : objects[l] # Absent => objects'[l] # Absent
        /\ objects'[putter[p].len] # Absent
    BY <1>2, <1>4, ObjectPut
  <2> QED BY <1>1, <1>2, <1>3, <1>4, <2>1, AnsweredWell, FailedRequest
<1>5. CASE (Retry(p) \/ Ends(p, "failed")) /\ UNCHANGED objects
  <2>1. ObjectsWhole(objects') /\ \A l \in Lengths : objects[l] # Absent => objects'[l] # Absent BY <1>5, PutterTyped
  <2> QED BY <1>1, <1>2, <1>3, <1>5, <2>1, FailedRequest
<1> QED BY <1>4, <1>5 DEF PutWhole

\* A request that leaves the objects alone confirms nothing.
LEMMA FailedPart ==
    ASSUME S3Inv, NEW p \in Putters, putter[p].at # "idle", putter[p].answer = "none",
           Retry(p) \/ Ends(p, "failed") \/ Ends(p, "abort failed"),
           CutsSound(uploads'), Gains(uploads, uploads'), UNCHANGED <<objects, confirmed, getter, s3Stage>>
    PROVE  S3Inv'
<1>1. putter'[p].answer # "ok"
  <2>1. CASE Retry(p)
    <3>1. PICK q \in S3Put : putter' = [putter EXCEPT ![p] = q] /\ q.answer = putter[p].answer BY <2>1, RetriedPut
    <3> QED BY <3>1 DEF S3Inv
  <2>2. ASSUME NEW answer \in {"failed", "abort failed"}, Ends(p, answer) PROVE putter'[p].answer # "ok"
    <3>1. answer \in S3Answers \ {"none"} BY DEF S3Answers
    <3>2. PICK q \in S3Put : /\ putter' = [putter EXCEPT ![p] = q] /\ q.at = "discard" /\ q.answer = answer
                              /\ \A ups : Putting(q, ups)
      BY <2>2, <3>1, EndedPut
    <3> QED BY <3>2 DEF S3Inv
  <2> QED BY <2>1, <2>2
<1>2. Confirms(p) BY <1>1 DEF Confirms
<1>3. ObjectsWhole(objects') /\ \A k \in Lengths : objects[k] # Absent => objects'[k] # Absent BY PutterTyped
<1> QED BY <1>2, <1>3, FailedRequest

LEMMA CreateMultipartInv ==
    ASSUME S3Inv, NEW p \in Putters, CreateMultipart(p)
    PROVE  S3Inv'
<1>1. putter[p].at = "create" /\ UNCHANGED <<objects, getter, s3Stage, confirmed>> BY DEF CreateMultipart
<1>2. /\ putter[p].len \in Lengths /\ putter[p].answer = "none" /\ putter[p].at # "idle"
      /\ putter[p].offset = 0 /\ putter[p].number = 1 /\ putter[p].batch = {}
  BY <1>1, PutterTyped DEF Putting
<1> DEFINE new == [key |-> putter[p].len, state |-> "open", parts |-> <<>>]
<1>3. CASE uploads' = Append(uploads, new)
           /\ \/ putter' = [putter EXCEPT ![p].at = "parts", ![p].upload = Len(uploads) + 1, ![p].attempt = 0]
              \/ Retry(p)
              \/ Exhausted(p) /\ Ends(p, "failed")
  <2>1. new \in S3Upload /\ new.key = putter[p].len /\ DOMAIN new.parts = {}
    <3>1. <<>> \in [{} -> SUBSET Int] /\ DOMAIN <<>> = {} OBVIOUS
    <3>2. <<>> \in PartMaps BY <3>1 DEF PartMaps
    <3> QED BY <1>2, <3>1, <3>2 DEF S3Upload
  <2> HIDE DEF new
  <2>2. /\ uploads \in Seq(S3Upload) /\ uploads' \in Seq(S3Upload) /\ Len(uploads) \in Nat
        /\ DOMAIN uploads = 1..Len(uploads) /\ DOMAIN uploads' = 1..(Len(uploads) + 1)
        /\ uploads'[Len(uploads) + 1] = new /\ \A u \in DOMAIN uploads : uploads'[u] = uploads[u]
    BY <1>3, <2>1, PutterTyped DEF CutsSound
  <2>3. CutsSound(uploads')
    <3>1. ASSUME NEW u \in DOMAIN uploads', NEW n \in DOMAIN uploads'[u].parts
          PROVE  n > 0 /\ uploads'[u].parts[n] = Cut(n, uploads'[u].key)
      <4>1. u \in DOMAIN uploads /\ uploads'[u] = uploads[u] BY <2>1, <2>2
      <4> QED BY <4>1, PutterTyped DEF CutsSound
    <3> QED BY <2>2, <3>1 DEF CutsSound
  <2>4. Gains(uploads, uploads') BY <2>2 DEF Gains
  <2>5. CASE putter' = [putter EXCEPT ![p].at = "parts", ![p].upload = Len(uploads) + 1, ![p].attempt = 0]
    <3> DEFINE q == [putter[p] EXCEPT !.at = "parts", !.upload = Len(uploads) + 1, !.attempt = 0]
    <3>1. putter' = [putter EXCEPT ![p] = q] BY <2>5
    <3>2. /\ q \in S3Put /\ q.at = "parts" /\ q.upload = Len(uploads) + 1 /\ q.len = putter[p].len
          /\ q.answer = putter[p].answer /\ q.offset = putter[p].offset /\ q.number = putter[p].number
          /\ q.batch = putter[p].batch
      <4>1. putter[p] \in S3Put /\ Len(uploads) + 1 \in Nat BY <2>2, PutterTyped
      <4> QED BY <4>1 DEF S3Put
    <3> HIDE DEF q
    <3>3. Batched(q, uploads')
      <4>1. q.upload \in DOMAIN uploads' /\ uploads'[q.upload].key = q.len BY <2>1, <2>2, <3>2
      <4>2. LesserOf((1 - 1) * PartSize, q.len) = 0
        <5>a. 1 - 1 = 0 /\ 0 * PartSize = 0 BY PartSizePositive
        <5>b. q.len \in Nat BY <1>2, <3>2, PartSizePositive
        <5>1. (1 - 1) * PartSize = 0 /\ q.len \in Nat BY <5>a, <5>b
        <5> QED BY <5>1 DEF LesserOf
      <4>3. 1..(q.number - 1) = {} BY <1>2, <3>2
      <4> QED BY <1>2, <3>2, <4>1, <4>2, <4>3 DEF Batched
    <3>4. Putting(q, uploads') BY <1>2, <3>2, <3>3 DEF Putting
    <3>5. ObjectsWhole(objects') /\ Confirmed(confirmed', objects') BY <1>1, PutterTyped
    <3> QED BY <1>1, <2>3, <2>4, <3>1, <3>2, <3>4, <3>5, PutterMoves
  <2> QED BY <1>1, <1>2, <1>3, <2>3, <2>4, <2>5, FailedPart
<1>4. CASE (Retry(p) \/ Ends(p, "failed")) /\ UNCHANGED uploads
  <2>1. CutsSound(uploads') /\ Gains(uploads, uploads') BY <1>4, PutterTyped
  <2> QED BY <1>1, <1>2, <1>4, <2>1, FailedPart
<1> QED BY <1>3, <1>4 DEF CreateMultipart

LEMMA NextBatchInv ==
    ASSUME S3Inv, NEW p \in Putters, NextBatch(p)
    PROVE  S3Inv'
<1> DEFINE old == putter[p]
           batch == Parts(old)
           end == old.offset + UploadConcurrency * PartSize
           offset == IF end < old.len THEN end ELSE old.len
           q == [old EXCEPT !.batch = batch, !.number = @ + Cardinality(batch), !.offset = offset, !.attempt = 0]
<1>1. /\ old.at = "parts" /\ old.batch = {} /\ old.offset < old.len /\ putter' = [putter EXCEPT ![p] = q]
      /\ UNCHANGED <<objects, uploads, getter, s3Stage, confirmed>>
  BY DEF NextBatch
<1>2. old \in S3Put /\ Batched(old, uploads) /\ old.len \in Lengths /\ old.answer = "none"
  BY <1>1, PutterTyped DEF Putting
<1>3. old.offset \in Nat /\ old.number \in Nat /\ old.number > 0 /\ old.len \in Nat /\ old.number - 1 \in Nat
  <2> HIDE DEF old
  <2>1. old.offset \in Nat /\ old.number \in Nat BY <1>2 DEF S3Put
  <2>2. old.number > 0 /\ old.len \in Nat BY <1>2, PartSizePositive DEF Batched
  <2> QED BY <2>1, <2>2
<1>4. old.offset = (old.number - 1) * PartSize
  <2>1. (old.number - 1) * PartSize \in Nat BY <1>3, Multiples
  <2> QED BY <1>1, <1>2, <1>3, <2>1 DEF Batched, LesserOf
<1>5. PICK m \in 1..UploadConcurrency :
        /\ Cardinality(batch) = m
        /\ m = UploadConcurrency \/ old.len <= old.offset + m * PartSize
        /\ \A part \in batch : /\ part \in S3Part /\ part.number > 0
                              /\ Units(part.from, part.to) = Cut(part.number, old.len)
        /\ \A n \in old.number..(old.number + m - 1) : \E part \in batch : part.number = n
  <2> HIDE DEF old
  <2> QED BY <1>1, <1>3, <1>4, PartsAreCuts
<1>6. m \in Nat /\ m > 0 /\ m <= UploadConcurrency /\ UploadConcurrency \in Nat BY <1>5, PartSizePositive
<1> HIDE DEF batch
<1>7. /\ ((old.number - 1) + m) * PartSize = old.offset + m * PartSize /\ m * PartSize \in Nat
      /\ ((old.number - 1) + UploadConcurrency) * PartSize = end /\ UploadConcurrency * PartSize \in Nat
      /\ (old.number - 1) + m = (old.number + m) - 1
  <2> DEFINE b == old.number - 1
  <2> HIDE DEF old
  <2>1. b \in Nat /\ b * PartSize = old.offset BY <1>3, <1>4
  <2>2. (old.number - 1) + m = (old.number + m) - 1 BY <1>3, <1>6
  <2> HIDE DEF b
  <2>3. m * PartSize \in Nat /\ (b + m) * PartSize = b * PartSize + m * PartSize BY <1>6, <2>1, Multiples
  <2>4. UploadConcurrency * PartSize \in Nat
        /\ (b + UploadConcurrency) * PartSize = b * PartSize + UploadConcurrency * PartSize
    BY <1>6, <2>1, Multiples
  <2> QED BY <2>1, <2>2, <2>3, <2>4 DEF b
<1>8. offset = LesserOf(((old.number + m) - 1) * PartSize, old.len) /\ offset \in Nat
  <2>1. CASE end < old.len
    <3>1. m * PartSize <= UploadConcurrency * PartSize BY <1>6, FewerMultiples
    <3>2. m = UploadConcurrency BY <1>3, <1>5, <1>6, <1>7, <2>1, <3>1
    <3> HIDE DEF old
    <3> QED BY <1>3, <1>7, <2>1, <3>2 DEF LesserOf
  <2>2. CASE ~(end < old.len)
    <3>1. old.len <= old.offset + m * PartSize BY <1>3, <1>5, <1>7, <2>2
    <3> HIDE DEF old, end
    <3> QED BY <1>3, <1>7, <2>2, <3>1 DEF LesserOf
  <2> QED BY <2>1, <2>2
<1> HIDE DEF offset, end
<1>9. batch \in SUBSET S3Part /\ old.number + m \in Nat BY <1>3, <1>5, <1>6
<1>10. /\ q \in S3Put /\ q.at = "parts" /\ q.answer = old.answer /\ q.len = old.len /\ q.upload = old.upload
       /\ q.offset = offset /\ q.number = old.number + m /\ q.batch = batch
  <2> HIDE DEF old
  <2>1. q = [old EXCEPT !.batch = batch, !.number = old.number + m, !.offset = offset, !.attempt = 0]
    BY <1>2, <1>5 DEF S3Put
  <2> HIDE DEF q
  <2> QED BY <1>1, <1>2, <1>8, <1>9, <2>1 DEF S3Put
<1> HIDE DEF q
<1>11. Batched(q, uploads)
  <2>1. ASSUME NEW n \in 1..(q.number - 1)
        PROVE  n \in DOMAIN uploads[q.upload].parts \/ \E part \in q.batch : part.number = n
    <3>1. CASE n \in 1..(old.number - 1) BY <1>1, <1>2, <1>10, <3>1 DEF Batched
    <3>2. CASE n \in old.number..(old.number + m - 1) BY <1>5, <1>10, <3>2
    <3> QED BY <1>3, <1>6, <1>10, <3>1, <3>2
  <2>2. q.number > 0 /\ q.offset = LesserOf((q.number - 1) * PartSize, q.len) BY <1>3, <1>6, <1>8, <1>10
  <2>3. \A part \in q.batch : part.number > 0 /\ Units(part.from, part.to) = Cut(part.number, q.len) BY <1>5, <1>10
  <2> QED BY <1>2, <1>10, <2>1, <2>2, <2>3 DEF Batched
<1>12. Putting(q, uploads) BY <1>2, <1>10, <1>11 DEF Putting
<1>13. ObjectsWhole(objects') /\ Confirmed(confirmed', objects') /\ CutsSound(uploads') /\ Gains(uploads, uploads')
       /\ Putting(q, uploads')
  BY <1>1, <1>12, PutterTyped
<1> QED BY <1>1, <1>10, <1>13, PutterMoves

LEMMA UploadPartInv ==
    ASSUME S3Inv, NEW p \in Putters, NEW part \in putter[p].batch, UploadPart(p, part)
    PROVE  S3Inv'
<1> DEFINE u == putter[p].upload
           parts == uploads[u].parts
           more == [n \in DOMAIN parts \cup {part.number} |->
                      IF n = part.number THEN Units(part.from, part.to) ELSE parts[n]]
<1>1. putter[p].at = "parts" /\ UNCHANGED <<objects, getter, s3Stage, confirmed>> BY DEF UploadPart
<1>2. /\ putter[p] \in S3Put /\ Batched(putter[p], uploads) /\ putter[p].len \in Lengths
      /\ putter[p].answer = "none" /\ putter[p].at # "idle"
  BY <1>1, PutterTyped DEF Putting
<1>3. u \in DOMAIN uploads /\ uploads[u].key = putter[p].len /\ uploads \in Seq(S3Upload) /\ uploads[u] \in S3Upload
  BY <1>2, PutterTyped DEF Batched, CutsSound
<1>4. part \in S3Part /\ part.number > 0 /\ Units(part.from, part.to) = Cut(part.number, putter[p].len)
  BY <1>2 DEF Batched, S3Put
<1> DEFINE Stored == uploads' = [uploads EXCEPT ![u].parts = more]
<1>5. ASSUME Stored
      PROVE  /\ CutsSound(uploads') /\ Gains(uploads, uploads') /\ DOMAIN uploads' = DOMAIN uploads
             /\ uploads'[u].key = uploads[u].key /\ DOMAIN uploads'[u].parts = DOMAIN parts \cup {part.number}
  <2> DEFINE up == [uploads[u] EXCEPT !.parts = more]
  <2>1. uploads' = [uploads EXCEPT ![u] = up] BY <1>5
  <2>2. parts \in PartMaps /\ DOMAIN parts \in SUBSET Nat /\ parts \in [DOMAIN parts -> SUBSET Int]
    BY <1>3 DEF S3Upload, PartMaps
  <2>3. part.number \in Nat /\ part.from \in Nat /\ part.to \in Nat BY <1>4 DEF S3Part
  <2> HIDE DEF parts
  <2>4. /\ DOMAIN more = DOMAIN parts \cup {part.number}
        /\ \A n \in DOMAIN more : more[n] = IF n = part.number THEN Units(part.from, part.to) ELSE parts[n]
    OBVIOUS
  <2>5. more \in PartMaps
    <3>1. Units(part.from, part.to) \in SUBSET Int BY <2>3 DEF Units
    <3>2. more \in [DOMAIN parts \cup {part.number} -> SUBSET Int] BY <2>2, <3>1
    <3>3. DOMAIN parts \cup {part.number} \in SUBSET Nat BY <2>2, <2>3
    <3> HIDE DEF more
    <3> QED BY <3>2, <3>3 DEF PartMaps
  <2> HIDE DEF more
  <2>6. up \in S3Upload /\ up.key = uploads[u].key /\ up.parts = more BY <1>3, <2>5 DEF S3Upload
  <2> HIDE DEF up, u
  <2>7. /\ uploads' \in Seq(S3Upload) /\ DOMAIN uploads' = DOMAIN uploads /\ uploads'[u] = up
        /\ \A v \in DOMAIN uploads : v # u => uploads'[v] = uploads[v]
    BY <1>3, <2>1, <2>6, ExceptSeq
  <2>8. ASSUME NEW v \in DOMAIN uploads', NEW n \in DOMAIN uploads'[v].parts
        PROVE  n > 0 /\ uploads'[v].parts[n] = Cut(n, uploads'[v].key)
    <3>1. CASE v # u BY <2>7, <3>1, PutterTyped DEF CutsSound
    <3>2. CASE v = u /\ n = part.number BY <1>3, <1>4, <2>3, <2>4, <2>6, <2>7, <3>2
    <3>3. CASE v = u /\ n # part.number
      <4>1. n \in DOMAIN parts /\ uploads'[v].parts[n] = parts[n] /\ uploads'[v].key = uploads[u].key
        BY <2>4, <2>6, <2>7, <3>3
      <4>2. n > 0 /\ uploads[u].parts[n] = Cut(n, uploads[u].key) BY <1>3, <4>1, PutterTyped DEF CutsSound, parts
      <4> QED BY <4>1, <4>2 DEF parts
    <3> QED BY <3>1, <3>2, <3>3
  <2>9. CutsSound(uploads') BY <2>7, <2>8 DEF CutsSound
  <2>10. DOMAIN uploads'[u].parts = DOMAIN parts \cup {part.number} BY <2>4, <2>6, <2>7
  <2>11. Gains(uploads, uploads') BY <2>6, <2>7, <2>10 DEF Gains, parts
  <2> QED BY <2>6, <2>7, <2>9, <2>10, <2>11
<1>6. ObjectsWhole(objects') /\ Confirmed(confirmed', objects') BY <1>1, PutterTyped
<1>7. ASSUME Stored, putter' = [putter EXCEPT ![p].batch = @ \ {part}]
      PROVE  S3Inv'
  <2> DEFINE q == [putter[p] EXCEPT !.batch = @ \ {part}]
  <2>1. putter' = [putter EXCEPT ![p] = q] BY <1>7
  <2>2. /\ q \in S3Put /\ q.at = "parts" /\ q.answer = "none" /\ q.len = putter[p].len /\ q.upload = u
        /\ q.offset = putter[p].offset /\ q.number = putter[p].number /\ q.batch = putter[p].batch \ {part}
    <3>1. putter[p].batch \ {part} \in SUBSET S3Part BY <1>2 DEF S3Put
    <3> QED BY <1>1, <1>2, <3>1 DEF S3Put
  <2>3. /\ CutsSound(uploads') /\ Gains(uploads, uploads') /\ DOMAIN uploads' = DOMAIN uploads
        /\ uploads'[u].key = uploads[u].key /\ DOMAIN uploads'[u].parts = DOMAIN uploads[u].parts \cup {part.number}
    BY <1>5, <1>7
  <2> HIDE DEF q, Stored
  <2>4. Batched(q, uploads')
    <3>1. ASSUME NEW n \in 1..(q.number - 1)
          PROVE  n \in DOMAIN uploads'[q.upload].parts \/ \E o \in q.batch : o.number = n
      <4>1. n \in DOMAIN uploads[u].parts \/ \E o \in putter[p].batch : o.number = n BY <1>2, <2>2 DEF Batched
      <4> QED BY <2>2, <2>3, <4>1
    <3> QED BY <1>2, <1>3, <2>2, <2>3, <3>1 DEF Batched
  <2>5. Putting(q, uploads') BY <1>2, <2>2, <2>4 DEF Putting
  <2> QED BY <1>1, <1>6, <2>1, <2>2, <2>3, <2>5, PutterMoves
<1>8. ASSUME CutsSound(uploads'), Gains(uploads, uploads'), DOMAIN uploads \subseteq DOMAIN uploads',
             putter' = [putter EXCEPT ![p].at = "abort", ![p].batch = {}, ![p].attempt = 0]
      PROVE  S3Inv'
  <2> DEFINE q == [putter[p] EXCEPT !.at = "abort", !.batch = {}, !.attempt = 0]
  <2>1. putter' = [putter EXCEPT ![p] = q] BY <1>8
  <2>2. q \in S3Put /\ q.at = "abort" /\ q.answer = "none" /\ q.len = putter[p].len /\ q.upload = u BY <1>2 DEF S3Put
  <2> HIDE DEF q
  <2>3. Putting(q, uploads') BY <1>2, <1>3, <1>8, <2>2 DEF Putting
  <2> QED BY <1>1, <1>6, <1>8, <2>1, <2>2, <2>3, PutterMoves
<1>9. CASE Stored
  <2>1. CutsSound(uploads') /\ Gains(uploads, uploads') /\ DOMAIN uploads' = DOMAIN uploads BY <1>5, <1>9
  <2>2. CASE Retry(p) BY <1>1, <1>2, <2>1, <2>2, FailedPart
  <2> HIDE DEF Stored
  <2>3. CASE putter' = [putter EXCEPT ![p].at = "abort", ![p].batch = {}, ![p].attempt = 0] BY <1>8, <2>1, <2>3
  <2>4. Retry(p) \/ putter' = [putter EXCEPT ![p].batch = @ \ {part}]
        \/ putter' = [putter EXCEPT ![p].at = "abort", ![p].batch = {}, ![p].attempt = 0]
    BY DEF UploadPart
  <2> QED BY <1>7, <1>9, <2>2, <2>3, <2>4
<1>10. CASE UNCHANGED uploads /\ (Retry(p)
             \/ putter' = [putter EXCEPT ![p].at = "abort", ![p].batch = {}, ![p].attempt = 0])
  <2>1. CutsSound(uploads') /\ Gains(uploads, uploads') /\ DOMAIN uploads' = DOMAIN uploads BY <1>10, PutterTyped
  <2>2. CASE Retry(p) BY <1>1, <1>2, <2>1, <2>2, FailedPart
  <2> QED BY <1>8, <1>10, <2>1, <2>2
<1> QED BY <1>9, <1>10 DEF UploadPart

LEMMA SoundUploads ==
    ASSUME S3Inv
    PROVE  /\ uploads \in Seq(S3Upload) /\ \A u \in DOMAIN uploads : uploads[u] \in S3Upload
           /\ \A u \in DOMAIN uploads : \A n \in DOMAIN uploads[u].parts :
                n > 0 /\ uploads[u].parts[n] = Cut(n, uploads[u].key)
<1>1. CutsSound(uploads) BY DEF S3Inv
<1>2. uploads \in Seq(S3Upload) BY <1>1 DEF CutsSound
<1>3. \A u \in DOMAIN uploads : uploads[u] \in S3Upload BY <1>2
<1> QED BY <1>1, <1>2, <1>3 DEF CutsSound

\* An upload is marked; its parts are left.
LEMMA MarkedUpload ==
    ASSUME S3Inv, NEW u \in DOMAIN uploads, NEW state \in {"open", "done", "aborted"},
           uploads' = [uploads EXCEPT ![u].state = state]
    PROVE  CutsSound(uploads') /\ Gains(uploads, uploads')
<1> DEFINE up == [uploads[u] EXCEPT !.state = state]
<1>1. uploads \in Seq(S3Upload) /\ uploads[u] \in S3Upload BY SoundUploads
<1>2. up \in S3Upload /\ up.key = uploads[u].key /\ up.parts = uploads[u].parts BY <1>1 DEF S3Upload
<1>3. uploads' = [uploads EXCEPT ![u] = up] OBVIOUS
<1> HIDE DEF up
<1>4. /\ uploads' \in Seq(S3Upload) /\ DOMAIN uploads' = DOMAIN uploads /\ uploads'[u] = up
      /\ \A v \in DOMAIN uploads : v # u => uploads'[v] = uploads[v]
  BY <1>1, <1>2, <1>3, ExceptSeq
<1>5. \A v \in DOMAIN uploads' : uploads'[v].key = uploads[v].key /\ uploads'[v].parts = uploads[v].parts BY <1>2, <1>4
<1>6. CutsSound(uploads')
  <2>1. ASSUME NEW v \in DOMAIN uploads', NEW n \in DOMAIN uploads'[v].parts
        PROVE  n > 0 /\ uploads'[v].parts[n] = Cut(n, uploads'[v].key)
    BY <1>4, <1>5, SoundUploads
  <2> QED BY <1>4, <2>1 DEF CutsSound
<1> QED BY <1>4, <1>5, <1>6 DEF Gains

LEMMA CompleteMultipartInv ==
    ASSUME S3Inv, NEW p \in Putters, CompleteMultipart(p)
    PROVE  S3Inv'
<1>1. /\ putter[p].at = "parts" /\ putter[p].batch = {} /\ putter[p].offset >= putter[p].len /\ Confirms(p)
      /\ UNCHANGED <<getter, s3Stage>>
  BY DEF CompleteMultipart, Sent
<1>2. /\ putter[p] \in S3Put /\ Batched(putter[p], uploads) /\ putter[p].len \in Lengths
      /\ putter[p].answer = "none" /\ putter[p].at # "idle"
  BY <1>1, PutterTyped DEF Putting
<1>3. CASE Completes(p) /\ (Ends(p, "ok") \/ Retry(p) \/ (Exhausted(p) /\ Ends(p, "failed")))
  <2> DEFINE u == putter[p].upload
             m == putter[p].number - 1
             len == putter[p].len
  <2>1. u \in DOMAIN uploads /\ uploads[u].key = len /\ m \in Nat /\ len \in Nat
    <3>1. u \in DOMAIN uploads /\ uploads[u].key = len /\ putter[p].number > 0 BY <1>2 DEF Batched
    <3>2. putter[p].number \in Nat BY <1>2 DEF S3Put
    <3>3. m \in Nat BY <3>1, <3>2
    <3>4. len \in Nat BY <1>2, PartSizePositive
    <3> QED BY <3>1, <3>3, <3>4
  <2>2. \A n \in 1..m : n \in DOMAIN uploads[u].parts BY <1>1, <1>2 DEF Batched
  <2>3. \A n \in 1..m : uploads[u].parts[n] = Cut(n, len) BY <2>1, <2>2, PutterTyped DEF CutsSound
  <2>4. len <= m * PartSize
    <3>1. m * PartSize \in Nat /\ putter[p].offset = LesserOf(m * PartSize, len) BY <1>2, <2>1, Multiples DEF Batched
    <3> HIDE DEF m, len
    <3>2. LesserOf(m * PartSize, len) >= len BY <1>1, <3>1 DEF len
    <3> QED BY <2>1, <3>1, <3>2 DEF LesserOf
  <2>5. UNION {Cut(n, len) : n \in 1..m} = Units(0, len)
    <3> HIDE DEF m, len
    <3> QED BY <2>1, <2>4, CutsCover
  <2>6. Assembled(p) = Units(0, len)
    <3>1. {uploads[u].parts[n] : n \in 1..m} = {Cut(n, len) : n \in 1..m} BY <2>3
    <3> QED BY <2>5, <3>1 DEF Assembled
  <2>7. objects' = [objects EXCEPT ![len] = Units(0, len)] /\ uploads' = [uploads EXCEPT ![u].state = "done"]
    BY <1>3, <2>6 DEF Completes
  <2>8. /\ ObjectsWhole(objects') /\ \A k \in Lengths : objects[k] # Absent => objects'[k] # Absent
        /\ objects'[len] # Absent
    <3> HIDE DEF len
    <3>1. len \in Lengths BY <1>2 DEF len
    <3> QED BY <2>7, <3>1, ObjectPut
  <2>9. CutsSound(uploads') /\ Gains(uploads, uploads')
    <3> HIDE DEF u
    <3> QED BY <2>1, <2>7, MarkedUpload
  <2> QED BY <1>1, <1>2, <1>3, <2>8, <2>9, AnsweredWell, FailedRequest
<1>4. CASE (Retry(p) \/ Ends(p, "failed")) /\ UNCHANGED <<objects, uploads>>
  <2>1. /\ ObjectsWhole(objects') /\ \A k \in Lengths : objects[k] # Absent => objects'[k] # Absent
        /\ CutsSound(uploads') /\ Gains(uploads, uploads')
    BY <1>4, PutterTyped
  <2> QED BY <1>1, <1>2, <1>4, <2>1, FailedRequest
<1> QED BY <1>3, <1>4 DEF CompleteMultipart

LEMMA AbortMultipartInv ==
    ASSUME S3Inv, NEW p \in Putters, AbortMultipart(p)
    PROVE  S3Inv'
<1>1. putter[p].at = "abort" /\ UNCHANGED <<objects, getter, s3Stage, confirmed>> BY DEF AbortMultipart
<1>2. putter[p].upload \in DOMAIN uploads /\ putter[p].answer = "none" /\ putter[p].at # "idle"
  BY <1>1, PutterTyped DEF Putting
<1>3. Retry(p) \/ Ends(p, "failed") \/ Ends(p, "abort failed") BY DEF AbortMultipart
<1>4. CutsSound(uploads') /\ Gains(uploads, uploads')
  <2>1. CASE uploads' = [uploads EXCEPT ![putter[p].upload].state = "aborted"] BY <1>2, <2>1, MarkedUpload
  <2>2. CASE UNCHANGED uploads BY <2>2, PutterTyped
  <2> QED BY <2>1, <2>2 DEF AbortMultipart
<1> QED BY <1>1, <1>2, <1>3, <1>4, FailedPart

LEMMA DiscardLocalInv ==
    ASSUME S3Inv, NEW p \in Putters, DiscardLocal(p)
    PROVE  S3Inv'
<1>a. putter[p].answer # "none" BY PutterTyped DEF Putting, DiscardLocal
<1> DEFINE q == [putter[p] EXCEPT !.at = "idle"]
<1>1. /\ putter' = [putter EXCEPT ![p] = q] /\ s3Stage' = s3Stage \ {p}
      /\ UNCHANGED <<objects, uploads, getter, confirmed>>
  BY DEF DiscardLocal
<1>2. q \in S3Put /\ q.at = "idle" /\ q.answer = putter[p].answer BY PutterTyped DEF S3Put
<1> HIDE DEF q
<1>3. Putting(q, uploads) BY <1>a, <1>2 DEF Putting
<1>4. ObjectsWhole(objects') /\ Confirmed(confirmed', objects') /\ CutsSound(uploads') /\ Gains(uploads, uploads')
      /\ Putting(q, uploads')
  BY <1>1, <1>3, PutterTyped
<1> QED BY <1>1, <1>2, <1>4, PutterMoves

LEMMA DeleteObjectInv ==
    ASSUME S3Inv, NEW k \in Lengths, DeleteObject(k)
    PROVE  S3Inv'
<1>1. objects' = [objects EXCEPT ![k] = Absent] /\ confirmed' = confirmed \ {k}
      /\ UNCHANGED <<uploads, putter, getter, s3Stage>>
  BY DEF DeleteObject
<1>2. ObjectsWhole(objects) /\ Confirmed(confirmed, objects) BY DEF S3Inv
<1>3. Absent \in SUBSET Int BY DEF Absent
<1>4. objects' \in [Lengths -> SUBSET Int] /\ \A l \in Lengths : objects'[l] = IF l = k THEN Absent ELSE objects[l]
  BY <1>1, <1>2, <1>3 DEF ObjectsWhole
<1>5. ObjectsWhole(objects)' /\ Confirmed(confirmed, objects)' BY <1>1, <1>2, <1>4 DEF ObjectsWhole, Confirmed
<1>6. \A p \in Putters : (Putting(putter[p], uploads) /\ (putter[p].at = "idle" => p \notin s3Stage))'
  BY <1>1 DEF S3Inv, Putting, Batched
<1>7. CutsSound(uploads)' /\ \A g \in Getters : Reading(getter[g])' BY <1>1 DEF S3Inv, CutsSound, Reading
<1> QED BY <1>1, <1>5, <1>6, <1>7 DEF S3Inv

--------------------------------
(* Reads: they change nothing but themselves. *)

LEMMA GetterMoves ==
    ASSUME S3Inv, NEW g \in Getters, NEW r \in S3Get, getter' = [getter EXCEPT ![g] = r], Reading(r),
           UNCHANGED <<objects, uploads, putter, s3Stage, confirmed>>
    PROVE  S3Inv'
<1>1. getter' \in [Getters -> S3Get] /\ \A f \in Getters : getter'[f] = IF f = g THEN r ELSE getter[f] BY DEF S3Inv
<1>2. \A f \in Getters : Reading(getter[f])' BY <1>1 DEF S3Inv, Reading
<1>3. ObjectsWhole(objects)' /\ Confirmed(confirmed, objects)' /\ CutsSound(uploads)'
  BY DEF S3Inv, ObjectsWhole, Confirmed, CutsSound
<1>4. \A p \in Putters : (Putting(putter[p], uploads) /\ (putter[p].at = "idle" => p \notin s3Stage))'
  BY DEF S3Inv, Putting, Batched
<1> QED BY <1>1, <1>2, <1>3, <1>4 DEF S3Inv

LEMMA FreshGetTyped == FreshGet \in S3Get /\ Reading(FreshGet)
<1>1. <<0, 0>> \in Nat \X Nat /\ {} \in SUBSET Int OBVIOUS
<1> QED BY <1>1 DEF FreshGet, S3Get, Reading

LEMMA HeadObjectInv ==
    ASSUME S3Inv, NEW g \in Getters, NEW k \in Lengths, NEW from \in 0..k, NEW to \in 0..k, HeadObject(g, k, from, to)
    PROVE  S3Inv'
<1> DEFINE r == [FreshGet EXCEPT !.at = "headed", !.key = k, !.range = <<from, to>>, !.declared = to - from]
<1>1. k \in Nat /\ from <= to /\ to <= k /\ from \in Nat /\ to \in Nat /\ to - from \in Nat
  BY PartSizePositive DEF HeadObject
<1>2. <<from, to>> \in Nat \X Nat BY <1>1
<1>3. /\ r \in S3Get /\ r.at = "headed" /\ r.key = k /\ r.range = <<from, to>> /\ r.declared = to - from
  BY <1>1, <1>2, FreshGetTyped DEF S3Get
<1>4. getter' = [getter EXCEPT ![g] = r] /\ UNCHANGED <<objects, uploads, putter, s3Stage, confirmed>> BY DEF HeadObject
<1> HIDE DEF r
<1>5. Reading(r) BY <1>1, <1>3 DEF Reading
<1> QED BY <1>3, <1>4, <1>5, GetterMoves

LEMMA GetObjectInv ==
    ASSUME S3Inv, NEW g \in Getters, GetObject(g)
    PROVE  S3Inv'
<1> DEFINE at == IF objects[getter[g].key] = Absent THEN "failed" ELSE "streaming"
           r == [getter[g] EXCEPT !.at = at, !.got = {}]
<1>1. getter[g].at = "headed" /\ getter' = [getter EXCEPT ![g] = r]
      /\ UNCHANGED <<objects, uploads, putter, s3Stage, confirmed>>
  BY DEF GetObject
<1>2. getter[g] \in S3Get /\ Reading(getter[g]) BY DEF S3Inv
<1>3. at \in {"failed", "streaming"} OBVIOUS
<1> HIDE DEF at
<1>4. r \in S3Get /\ r.at = at /\ r.key = getter[g].key /\ r.range = getter[g].range /\ r.declared = getter[g].declared
  BY <1>2, <1>3 DEF S3Get
<1> HIDE DEF r
<1>5. Reading(r) BY <1>1, <1>2, <1>3, <1>4 DEF Reading
<1> QED BY <1>1, <1>4, <1>5, GetterMoves

\* The units of a range are as many as it is long.
LEMMA RangeCounted ==
    ASSUME NEW from \in Nat, NEW to \in Nat, from <= to
    PROVE  IsFiniteSet(Units(from, to)) /\ Cardinality(Units(from, to)) = to - from
<1>1. from \in Int /\ to - 1 \in Int OBVIOUS
<1>2. IsFiniteSet(from..(to - 1)) /\ Cardinality(from..(to - 1)) = IF from > to - 1 THEN 0 ELSE (to - 1) - from + 1
  BY <1>1, FS_Interval
<1>3. (IF from > to - 1 THEN 0 ELSE (to - 1) - from + 1) = to - from OBVIOUS
<1> QED BY <1>2, <1>3 DEF Units

\* What was served, as far as it came, is the range when it is as long as the range.
LEMMA ServedInFull ==
    ASSUME S3Inv, NEW k \in Lengths, objects[k] # Absent, NEW from \in Nat, NEW to \in Nat, from <= to,
           NEW got \in SUBSET S3Served(k, from, to), Cardinality(got) = to - from
    PROVE  got = Units(from, to)
<1>1. CASE from < to
  <2>1. S3Served(k, from, to) = Units(from, to) BY <1>1 DEF S3Served
  <2>2. IsFiniteSet(Units(from, to)) /\ Cardinality(Units(from, to)) = to - from BY RangeCounted
  <2> QED BY <2>1, <2>2, FS_Subset
<1>2. CASE from = to
  <2>1. objects[k] = Units(0, k) /\ k \in Nat BY PartSizePositive DEF S3Inv, ObjectsWhole
  <2>2. IsFiniteSet(S3Served(k, from, to))
    <3>1. IsFiniteSet(Units(0, k)) BY <2>1, RangeCounted
    <3>2. IsFiniteSet({0}) BY FS_Singleton
    <3> QED BY <1>2, <2>1, <3>1, <3>2 DEF S3Served
  <2>3. IsFiniteSet(got) BY <2>2, FS_Subset
  <2>4. Cardinality(got) = 0 BY <1>2
  <2>5. got = {} BY <2>3, <2>4, FS_EmptySet
  <2>6. Units(from, to) = {} BY <1>2 DEF Units
  <2> QED BY <2>5, <2>6
<1> QED BY <1>1, <1>2

LEMMA StreamBodyInv ==
    ASSUME S3Inv, NEW g \in Getters, StreamBody(g)
    PROVE  S3Inv'
<1> DEFINE old == getter[g]
           body == S3Served(old.key, old.range[1], old.range[2])
<1>1. old.at = "streaming" /\ objects[old.key] # Absent /\ UNCHANGED <<objects, uploads, putter, s3Stage, confirmed>>
  BY DEF StreamBody
<1>2. old \in S3Get /\ Reading(old) BY DEF S3Inv
<1>3. PICK got \in SUBSET body :
        getter' = [getter EXCEPT ![g].got = got,
                                 ![g].at = IF Cardinality(got) = old.declared THEN "done" ELSE "failed"]
  BY DEF StreamBody
<1> HIDE DEF body
<1> DEFINE at == IF Cardinality(got) = old.declared THEN "done" ELSE "failed"
           r == [old EXCEPT !.got = got, !.at = at]
<1>4. getter' = [getter EXCEPT ![g] = r] BY <1>3
<1>5. /\ old.key \in Lengths /\ old.range[1] <= old.range[2] /\ old.range[2] <= old.key
      /\ old.declared = old.range[2] - old.range[1]
  BY <1>1, <1>2 DEF Reading
<1>6. old.range[1] \in Nat /\ old.range[2] \in Nat
  <2>1. old.range \in Nat \X Nat BY <1>2 DEF S3Get
  <2> QED BY <2>1
<1>7. got \in SUBSET Int
  <2>1. objects[old.key] \in SUBSET Int BY <1>5 DEF S3Inv, ObjectsWhole
  <2>2. Units(old.range[1], old.range[2]) \in SUBSET Int BY <1>6 DEF Units
  <2> HIDE DEF old
  <2> QED BY <1>3, <2>1, <2>2 DEF S3Served, body
<1>8. at \in {"done", "failed"} /\ (at = "done" => Cardinality(got) = old.declared) OBVIOUS
<1> HIDE DEF at
<1>9. r \in S3Get /\ r.at = at /\ r.range = old.range /\ r.got = got BY <1>2, <1>7, <1>8 DEF S3Get
<1> HIDE DEF r
<1>10. ASSUME at = "done" PROVE got = Units(old.range[1], old.range[2])
  <2> HIDE DEF old
  <2>1. Cardinality(got) = old.range[2] - old.range[1] BY <1>5, <1>8, <1>10
  <2> QED BY <1>1, <1>3, <1>5, <1>6, <2>1, ServedInFull DEF body
<1>11. Reading(r) BY <1>8, <1>9, <1>10 DEF Reading
<1> QED BY <1>1, <1>4, <1>9, <1>11, GetterMoves

LEMMA EndGetInv ==
    ASSUME S3Inv, NEW g \in Getters, EndGet(g)
    PROVE  S3Inv'
  BY FreshGetTyped, GetterMoves DEF EndGet

LEMMA S3InitInv ==
    ASSUME S3Init
    PROVE  S3Inv
<1>1. FreshPut \in S3Put /\ \A ups : Putting(FreshPut, ups)
  <2>1. {} \in SUBSET S3Part OBVIOUS
  <2> QED BY <2>1 DEF FreshPut, S3Put, S3Answers, Putting
<1>2. ObjectsWhole(objects) /\ Confirmed(confirmed, objects)
  <2>1. Absent \in SUBSET Int BY DEF Absent
  <2> QED BY <2>1 DEF S3Init, ObjectsWhole, Confirmed
<1>3. CutsSound(uploads) BY DEF S3Init, CutsSound
<1>4. putter \in [Putters -> S3Put] /\ \A p \in Putters : putter[p] = FreshPut /\ p \notin s3Stage BY <1>1 DEF S3Init
<1>5. getter \in [Getters -> S3Get] /\ \A g \in Getters : getter[g] = FreshGet BY FreshGetTyped DEF S3Init
<1> QED BY <1>1, <1>2, <1>3, <1>4, <1>5, FreshGetTyped DEF S3Inv

LEMMA S3NextInv ==
    ASSUME S3Inv, [S3Next]_s3Vars
    PROVE  S3Inv'
<1>1. ASSUME NEW p \in Putters,
             \/ \E len \in Lengths : StartPut(p, len)
             \/ PutWhole(p) \/ CreateMultipart(p) \/ NextBatch(p) \/ CompleteMultipart(p) \/ AbortMultipart(p)
             \/ DiscardLocal(p)
             \/ \E part \in putter[p].batch : UploadPart(p, part)
      PROVE  S3Inv'
  BY <1>1, StartPutInv, PutWholeInv, CreateMultipartInv, NextBatchInv, CompleteMultipartInv, AbortMultipartInv,
     DiscardLocalInv, UploadPartInv
<1>2. ASSUME NEW g \in Getters,
             \/ \E k \in Lengths : \E from, to \in 0..k : HeadObject(g, k, from, to)
             \/ GetObject(g) \/ StreamBody(g) \/ EndGet(g)
      PROVE  S3Inv'
  BY <1>2, HeadObjectInv, GetObjectInv, StreamBodyInv, EndGetInv
<1>3. CASE UNCHANGED s3Vars BY <1>3 DEF s3Vars, S3Inv, ObjectsWhole, Confirmed, CutsSound, Putting, Batched, Reading
<1> QED BY <1>1, <1>2, <1>3, DeleteObjectInv DEF S3Next

LEMMA S3IsWholeFollows ==
    ASSUME S3Inv
    PROVE  S3IsWhole
  BY DEF S3Inv, S3IsWhole, ObjectsWhole, Confirmed, Reading

\* Both backends: what is under a digest is its content, whole, whatever failed, was retried or crashed; a commit
\* that reported success left it there; a lease that was handed out keeps its file; a read that ended well
\* delivered its range (blob/store.rs, blob/s3).
THEOREM BlobsStayWhole == WriteSpec /\ LeaseSpec /\ S3Spec => []BlobsAreWhole
<1>1. WriteSpec => []WriteInv BY WriteInitInv, WriteNextInv, PTL DEF WriteSpec
<1>2. LeaseSpec => []LeaseInv BY LeaseInitInv, LeaseNextInv, PTL DEF LeaseSpec
<1>3. S3Spec => []S3Inv BY S3InitInv, S3NextInv, PTL DEF S3Spec
<1>4. WriteInv /\ LeaseInv /\ S3Inv => BlobsAreWhole
  BY BlobsAreTheirDigestFollows, S3IsWholeFollows DEF LeaseInv, LeasesHold, StoreIsSound, BlobsAreWhole
<1> QED BY <1>1, <1>2, <1>3, <1>4, PTL

================================
