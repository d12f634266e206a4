---------------- MODULE OciRegistryProofs ----------------
(* Proofs about OciRegistry, OciUploads, OciProxy and OciDiscovery, for
   any number of requests, repositories, digests and upload sessions.

   ImagesAreWhole speaks of the rows only; what keeps it is what every
   request in progress knows.  A push knows that what it has checked is
   stored and that each write it has left is prepared by the rows or by an
   earlier write of its own.  A delete by digest knows what its scans have
   ruled out.  Neither knowledge is lost to another request, because a
   push and a delete that meet on a digest have made it torn. *)
EXTENDS OciRegistry, OciProxy, OciDiscovery, FiniteSetTheorems, SequenceTheorems, WellFoundedInduction, TLAPS

Stored(m) == m \in manifests \cup torn
Listed(p, m) == m \in member[p] \cup torn

Kinds == {"blob", "manifest", "member", "link", "tag", "referrer"}
AnyWrite == [kind : Kinds, place : Places, x : Blobs \cup Manifests \cup Tags, y : Manifests \cup {None}]

DeleteSteps == {"scan", "unlink", "reach", "prune"}

IsCheck(j) ==
    /\ j.at = "check" /\ j = Checking(j.place, j.digest, j.tag, j.todo)
    /\ j.place \in Places /\ j.digest \in Manifests /\ j.tag \in Tags \cup {None}
    /\ j.todo \in Seq(Blobs \cup Manifests) /\ j.todo # <<>>
IsWrite(j) ==
    /\ j.at = "write" /\ j = Writes(j.needs, j.todo)
    /\ j.todo \in Seq(AnyWrite) /\ j.todo # <<>>
IsUntag(j) ==
    /\ j.at = "untag"
    /\ j = [at |-> "untag", place |-> j.place, digest |-> j.digest, present |-> j.present]
    /\ j.place \in Places /\ j.digest \in Manifests
IsDelete(j) ==
    /\ j.at \in DeleteSteps
    /\ j = [at |-> j.at, place |-> j.place, digest |-> j.digest, over |-> j.over]
    /\ j.over \in {"tags", "manifests", "referrers"} /\ j.place \in Places /\ j.digest \in Manifests

JobShape(c) == job[c] = Idle \/ IsCheck(job[c]) \/ IsWrite(job[c]) \/ IsUntag(job[c]) \/ IsDelete(job[c])

\* A reference that was checked, and is not checked again, is stored.
CheckSound(c) ==
    LET ahead == {job[c].todo[i] : i \in 1 .. Len(job[c].todo)} IN
    At(c, "check") =>
        /\ Layers[job[c].digest] \subseteq blobs \cup ahead
        /\ \A x \in Platforms[job[c].digest] \ ahead : Stored(x)

\* Write i of a push is prepared by the rows or by an earlier write of the same push.
Before(todo, i, kind, x) ==
    \E k \in 1 .. Len(todo) : k < i /\ todo[k].kind = kind /\ todo[k].x = x /\ todo[k].place = todo[i].place

Prepared(needs, todo, i) ==
    LET w == todo[i] IN
    /\ w.kind = "blob" => w.x \in Blobs
    /\ w.kind = "manifest" =>
         /\ w.x \in Manifests /\ Layers[w.x] \subseteq blobs
         /\ Platforms[w.x] \subseteq needs /\ \A x \in Platforms[w.x] : Stored(x)
    /\ w.kind = "member" => w.x \in Manifests
    /\ w.kind = "link" => w.x \in Blobs /\ (w.x \in blobs \/ Before(todo, i, "blob", w.x))
    /\ w.kind = "tag" =>
         /\ w.x \in Tags /\ w.y \in Manifests /\ Needs(w.y) \subseteq needs
         /\ Stored(w.y) \/ Before(todo, i, "manifest", w.y)
         /\ \A x \in Needs(w.y) : Listed(w.place, x) \/ Before(todo, i, "member", x)
    /\ w.kind = "referrer" =>
         /\ w.x \in Manifests /\ w.y \in needs \cap Manifests
         /\ Stored(w.y) \/ Before(todo, i, "manifest", w.y)

WriteSound(c) ==
    At(c, "write") => \A i \in 1 .. Len(job[c].todo) : Prepared(job[c].needs, job[c].todo, i)

\* What a delete by digest has ruled out so far.
NoTagHere(p, d) == \A t \in Tags : tags[p][t] # d
NoParent(d) == \A x \in manifests : d \notin Platforms[x]
NoReferrer(d) == \A p \in Places : \A r \in referrers[p] : r[2] # d
NoTagLeadsTo(p, d) == \A t \in Tags : tags[p][t] \notin torn \cup {None} => d \notin Needs(tags[p][t])

DeleteSound(c) ==
    LET j == job[c] IN
    j.at \in DeleteSteps /\ j.digest \notin torn =>
        /\ j.at # "prune" => NoTagHere(j.place, j.digest)
        /\ j.at = "unlink" \/ (j.at = "scan" /\ j.over # "tags") => \A p \in Places : NoTagHere(p, j.digest)
        /\ j.at = "unlink" \/ (j.at = "scan" /\ j.over \notin {"tags", "manifests"}) => NoParent(j.digest)
        /\ j.at = "unlink" => NoReferrer(j.digest)
        /\ j.at = "prune" => NoTagLeadsTo(j.place, j.digest)

\* A delete and a push that needs its digest have met: the digest is torn.
MeetingsAreTorn ==
    \A c, e \in Clients :
        /\ job[c].at \in DeleteSteps \cup {"untag"} /\ job[e].at \in {"check", "write"}
        /\ job[c].digest \in job[e].needs
        => job[c].digest \in torn

JobSound(c) == JobShape(c) /\ CheckSound(c) /\ WriteSound(c) /\ DeleteSound(c)

JobsSound ==
    /\ job = [c \in Clients |-> job[c]]
    /\ \A c \in Clients : JobSound(c)
    /\ MeetingsAreTorn

RegistryInv == ImagesAreWhole /\ JobsSound

--------------------------------
(* The writes of a push. *)

\* A finite set and its sequence have the same members.
LEMMA SetAsSequence ==
  ASSUME NEW S, IsFiniteSet(S)
  PROVE  /\ SetToSeq(S) \in Seq(S)
         /\ Len(SetToSeq(S)) = Cardinality(S) /\ Cardinality(S) \in Nat
         /\ \A x \in S : \E i \in 1 .. Cardinality(S) : SetToSeq(S)[i] = x
  <1>1. Cardinality(S) \in Nat /\ ExistsBijection(1 .. Cardinality(S), S) BY FS_CardinalityType
  <1>2. PICK n \in Nat : n = Cardinality(S) BY <1>1
  <1>3. \E f \in [1 .. n -> S] : IsInjective(f) BY <1>1, <1>2 DEF ExistsBijection, Bijection, Injection
  <1>4. PICK f : f = SetToSeq(S) OBVIOUS
  <1>5. f \in [1 .. n -> S] /\ IsInjective(f) BY <1>2, <1>3, <1>4 DEF SetToSeq
  <1>6. f \in Injection(1 .. n, S) BY <1>5 DEF Injection
  <1>7. IsFiniteSet(1 .. n) /\ Cardinality(1 .. n) = n BY FS_Interval
  <1>8. f \in Surjection(1 .. n, S) BY <1>2, <1>6, <1>7, FS_Injection
  <1>9. f \in Seq(S) /\ Len(f) = n BY <1>5
  <1> QED BY <1>1, <1>2, <1>4, <1>8, <1>9 DEF Surjection

\* A sequence of length n over S, and two of them one after the other.
OfLength(S, s, n) == n \in Nat /\ s \in Seq(S) /\ Len(s) = n

Follows(S, w, s, n, u, k) ==
    /\ OfLength(S, w, n + k)
    /\ \A i \in 1 .. n : w[i] = s[i]
    /\ \A i \in 1 .. k : w[n + i] = u[i]

LEMMA Joined ==
  ASSUME NEW S, NEW s, NEW u, NEW n, NEW k, OfLength(S, s, n), OfLength(S, u, k), NEW w, w = s \o u
  PROVE  Follows(S, w, s, n, u, k)
  <1>1. n \in Nat /\ s \in Seq(S) /\ Len(s) = n /\ k \in Nat /\ u \in Seq(S) /\ Len(u) = k BY DEF OfLength
  <1>2. /\ w \in Seq(S) /\ Len(w) = n + k
        /\ \A i \in 1 .. n + k : w[i] = IF i <= n THEN s[i] ELSE u[i - n]
    BY <1>1, ConcatProperties
  <1>3. \A i \in 1 .. n : w[i] = s[i] BY <1>1, <1>2
  <1>4. \A i \in 1 .. k : w[n + i] = u[i] BY <1>1, <1>2
  <1> QED BY <1>1, <1>2, <1>3, <1>4 DEF OfLength, Follows

LEMMA EachIsWritten ==
  ASSUME NEW kind \in Kinds, NEW p \in Places, NEW S, IsFiniteSet(S), S \subseteq Blobs \cup Manifests
  PROVE  /\ Each(kind, p, S) \in Seq(AnyWrite)
         /\ Len(Each(kind, p, S)) = Cardinality(S)
         /\ \A i \in 1 .. Cardinality(S) : Each(kind, p, S)[i] \in {Write(kind, p, x, None) : x \in S}
         /\ \A x \in S : \E i \in 1 .. Cardinality(S) : Each(kind, p, S)[i] = Write(kind, p, x, None)
  <1>1. PICK n \in Nat, s \in Seq(S) :
           /\ n = Cardinality(S) /\ s = SetToSeq(S) /\ Len(s) = n
           /\ \A x \in S : \E i \in 1 .. n : s[i] = x
    BY SetAsSequence
  <1>2. PICK e : e = Each(kind, p, S) OBVIOUS
  <1>3. e = [i \in 1 .. n |-> Write(kind, p, s[i], None)] BY <1>1, <1>2 DEF Each
  <1>4. \A i \in 1 .. n : s[i] \in S BY <1>1, ElementOfSeq
  <1>5. \A i \in 1 .. n : e[i] = Write(kind, p, s[i], None) /\ e[i] \in AnyWrite BY <1>3, <1>4 DEF Write, AnyWrite
  <1>6. e \in Seq(AnyWrite) /\ Len(e) = n BY <1>3, <1>5
  <1>7. \A x \in S : \E i \in 1 .. n : e[i] = Write(kind, p, x, None) BY <1>1, <1>5
  <1> QED BY <1>1, <1>2, <1>4, <1>5, <1>6, <1>7

\* The writes that record a manifest: every one is of these kinds, and the manifest and what it needs are written.
Recorded(p, m) ==
    {Write("manifest", p, m, None)} \cup {Write("member", p, x, None) : x \in Needs(m)}
        \cup {Write("link", p, x, None) : x \in Layers[m]}

LEMMA RecordedIsWritten ==
  ASSUME NEW p \in Places, NEW m \in Manifests
  PROVE  /\ RecordManifest(p, m) \in Seq(AnyWrite) /\ Len(RecordManifest(p, m)) \in Nat
         /\ RecordManifest(p, m) # <<>>
         /\ \A i \in 1 .. Len(RecordManifest(p, m)) : RecordManifest(p, m)[i] \in Recorded(p, m)
         /\ \E i \in 1 .. Len(RecordManifest(p, m)) : RecordManifest(p, m)[i] = Write("manifest", p, m, None)
         /\ \A x \in Needs(m) : \E i \in 1 .. Len(RecordManifest(p, m)) :
                RecordManifest(p, m)[i] = Write("member", p, x, None)
  <1>0. PICK a : a = <<Write("manifest", p, m, None), Write("member", p, m, None)>> OBVIOUS
  <1>1. a \in Seq(AnyWrite) /\ Len(a) = 2 /\ a[1] = Write("manifest", p, m, None) /\ a[2] = Write("member", p, m, None)
    <2>1. Write("manifest", p, m, None) \in AnyWrite /\ Write("member", p, m, None) \in AnyWrite
      BY DEF Write, AnyWrite, Kinds
    <2> QED BY <1>0, <2>1
  <1>2. IsFiniteSet(Platforms[m]) /\ Platforms[m] \subseteq Manifests BY OciRegistryAssumption
  <1>3. IsFiniteSet(Layers[m]) /\ Layers[m] \subseteq Blobs BY OciRegistryAssumption
  <1>3a. PICK b, l : b = Each("member", p, Platforms[m]) /\ l = Each("link", p, Layers[m]) OBVIOUS
  <1>3b. PICK k \in Nat, n \in Nat : k = Cardinality(Platforms[m]) /\ n = Cardinality(Layers[m])
    BY <1>2, <1>3, FS_CardinalityType
  <1>3c. "member" \in Kinds /\ "link" \in Kinds BY DEF Kinds
  <1>3d. Platforms[m] \subseteq Blobs \cup Manifests /\ Layers[m] \subseteq Blobs \cup Manifests BY <1>2, <1>3
  <1>4. /\ b \in Seq(AnyWrite) /\ Len(b) = k
        /\ \A i \in 1 .. k : b[i] \in {Write("member", p, x, None) : x \in Platforms[m]}
        /\ \A x \in Platforms[m] : \E i \in 1 .. k : b[i] = Write("member", p, x, None)
    BY <1>2, <1>3a, <1>3b, <1>3c, <1>3d, EachIsWritten
  <1>5. /\ l \in Seq(AnyWrite) /\ Len(l) = n
        /\ \A i \in 1 .. n : l[i] \in {Write("link", p, x, None) : x \in Layers[m]}
    BY <1>3, <1>3a, <1>3b, <1>3c, <1>3d, EachIsWritten
  <1>6. PICK ab : ab = a \o b OBVIOUS
  <1>6a. PICK r : r = ab \o l OBVIOUS
  <1>7. /\ ab \in Seq(AnyWrite) /\ Len(ab) = 2 + k
        /\ \A i \in 1 .. 2 : ab[i] = a[i]
        /\ \A i \in 1 .. k : ab[2 + i] = b[i]
    <2>1. PICK q \in Nat : q = 2 OBVIOUS
    <2>2. OfLength(AnyWrite, a, q) /\ OfLength(AnyWrite, b, k) BY <1>1, <1>4, <2>1 DEF OfLength
    <2>3. Follows(AnyWrite, ab, a, q, b, k) BY <2>2, <1>6, Joined
    <2> QED BY <2>1, <2>3 DEF OfLength, Follows
  <1>8. /\ r \in Seq(AnyWrite) /\ Len(r) = 2 + k + n
        /\ \A i \in 1 .. 2 + k : r[i] = ab[i]
        /\ \A i \in 1 .. n : r[2 + k + i] = l[i]
    <2>1. PICK q \in Nat : q = 2 + k OBVIOUS
    <2>2. OfLength(AnyWrite, ab, q) /\ OfLength(AnyWrite, l, n) BY <1>5, <1>7, <2>1 DEF OfLength
    <2>3. Follows(AnyWrite, r, ab, q, l, n) BY <2>2, <1>6a, Joined
    <2> QED BY <2>1, <2>3 DEF OfLength, Follows
  <1>9. r[1] = Write("manifest", p, m, None) /\ r[2] = Write("member", p, m, None) BY <1>1, <1>7, <1>8
  <1>10. \A i \in 1 .. k : r[2 + i] = b[i] BY <1>7, <1>8
  <1>11. r = RecordManifest(p, m) BY <1>0, <1>3a, <1>6, <1>6a DEF RecordManifest
  <1>12. ASSUME NEW i \in 1 .. 2 + k + n PROVE r[i] \in Recorded(p, m)
    <2>1. CASE i <= 2 BY <2>1, <1>9 DEF Recorded, Needs
    <2>2. CASE i > 2 /\ i <= 2 + k
      <3>1. i - 2 \in 1 .. k /\ r[i] = b[i - 2] BY <2>2, <1>10
      <3> QED BY <3>1, <1>4 DEF Recorded, Needs
    <2>3. CASE i > 2 + k
      <3>1. i - 2 - k \in 1 .. n /\ r[i] = l[i - 2 - k] BY <2>3, <1>8
      <3> QED BY <3>1, <1>5 DEF Recorded
    <2> QED BY <2>1, <2>2, <2>3
  <1>13. ASSUME NEW x \in Needs(m) PROVE \E i \in 1 .. 2 + k + n : r[i] = Write("member", p, x, None)
    <2>1. CASE x = m BY <2>1, <1>9
    <2>2. CASE x \in Platforms[m]
      <3>1. PICK i \in 1 .. k : b[i] = Write("member", p, x, None) BY <2>2, <1>4
      <3> QED BY <3>1, <1>10
    <2> QED BY <2>1, <2>2 DEF Needs
  <1>14. r # <<>> BY <1>8
  <1> QED BY <1>8, <1>9, <1>11, <1>12, <1>13, <1>14

\* Then the tag and the referrer, if there are any.
Announced(p, m) ==
    {Write("tag", p, t, m) : t \in Tags} \cup {Write("referrer", p, x, m) : x \in Manifests}

LEMMA PushIsWritten ==
  ASSUME NEW p \in Places, NEW m \in Manifests, NEW t \in Tags \cup {None}
  PROVE  \E n, k \in Nat :
           /\ PutWrites(p, m, t) \in Seq(AnyWrite) /\ PutWrites(p, m, t) # <<>>
           /\ Len(PutWrites(p, m, t)) = n + k
           /\ \A i \in 1 .. n : PutWrites(p, m, t)[i] \in Recorded(p, m)
           /\ \A i \in 1 .. n + k : i > n => PutWrites(p, m, t)[i] \in Announced(p, m)
           /\ \E i \in 1 .. n : PutWrites(p, m, t)[i] = Write("manifest", p, m, None)
           /\ \A x \in Needs(m) : \E i \in 1 .. n : PutWrites(p, m, t)[i] = Write("member", p, x, None)
  <1>1. PICK n \in Nat, r \in Seq(AnyWrite) :
           /\ r = RecordManifest(p, m) /\ n = Len(r) /\ r # <<>>
           /\ \A i \in 1 .. n : r[i] \in Recorded(p, m)
           /\ \E i \in 1 .. n : r[i] = Write("manifest", p, m, None)
           /\ \A x \in Needs(m) : \E i \in 1 .. n : r[i] = Write("member", p, x, None)
    BY RecordedIsWritten
  <1>2. PICK a : a = IF t = None THEN <<>> ELSE <<Write("tag", p, t, m)>> OBVIOUS
  <1>3. a \in Seq(AnyWrite) /\ Len(a) \in Nat /\ \A i \in 1 .. Len(a) : a[i] \in Announced(p, m)
    <2>1. CASE t = None BY <2>1, <1>2
    <2>2. CASE t # None BY <2>2, <1>2 DEF Announced, Write, AnyWrite, Kinds
    <2> QED BY <2>1, <2>2
  <1>4. PICK b : b = IF Subject[m] = None THEN <<>> ELSE <<Write("referrer", p, Subject[m], m)>> OBVIOUS
  <1>5. b \in Seq(AnyWrite) /\ Len(b) \in Nat /\ \A i \in 1 .. Len(b) : b[i] \in Announced(p, m)
    <2>1. CASE Subject[m] = None BY <2>1, <1>4
    <2>2. CASE Subject[m] # None
      <3>1. Subject[m] \in Manifests BY <2>2, OciRegistryAssumption
      <3> QED BY <3>1, <2>2, <1>4 DEF Announced, Write, AnyWrite, Kinds
    <2> QED BY <2>1, <2>2
  <1>6. PICK ra : ra = r \o a OBVIOUS
  <1>6a. PICK w : w = ra \o b OBVIOUS
  <1>7. PICK l \in Nat, h \in Nat : l = Len(a) /\ h = Len(b) BY <1>3, <1>5
  <1>8. /\ ra \in Seq(AnyWrite) /\ Len(ra) = n + l
        /\ \A i \in 1 .. n : ra[i] = r[i]
        /\ \A i \in 1 .. l : ra[n + i] = a[i]
    <2>1. OfLength(AnyWrite, r, n) /\ OfLength(AnyWrite, a, l) BY <1>1, <1>3, <1>7 DEF OfLength
    <2>2. Follows(AnyWrite, ra, r, n, a, l) BY <2>1, <1>6, Joined
    <2> QED BY <2>2 DEF OfLength, Follows
  <1>9. /\ w \in Seq(AnyWrite) /\ Len(w) = n + l + h
        /\ \A i \in 1 .. n + l : w[i] = ra[i]
        /\ \A i \in 1 .. h : w[n + l + i] = b[i]
    <2>1. PICK q \in Nat : q = n + l OBVIOUS
    <2>2. OfLength(AnyWrite, ra, q) /\ OfLength(AnyWrite, b, h) BY <1>5, <1>7, <1>8, <2>1 DEF OfLength
    <2>3. Follows(AnyWrite, w, ra, q, b, h) BY <2>2, <1>6a, Joined
    <2> QED BY <2>1, <2>3 DEF OfLength, Follows
  <1>10. \A i \in 1 .. n : w[i] = r[i] BY <1>8, <1>9
  <1>11. ASSUME NEW i \in 1 .. n + (l + h), i > n PROVE w[i] \in Announced(p, m)
    <2>1. CASE i <= n + l
      <3>1. i - n \in 1 .. l /\ w[i] = a[i - n] BY <2>1, <1>8, <1>9, <1>11
      <3> QED BY <3>1, <1>3, <1>7
    <2>2. CASE i > n + l
      <3>1. i - (n + l) \in 1 .. h /\ w[i] = b[i - (n + l)] BY <2>2, <1>9
      <3> QED BY <3>1, <1>5, <1>7
    <2> QED BY <2>1, <2>2
  <1>12. n # 0 BY <1>1
  <1>13. PICK k \in Nat : k = l + h OBVIOUS
  <1>13a. w # <<>> /\ Len(w) = n + k BY <1>9, <1>12, <1>13
  <1>13b. \A i \in 1 .. n + k : i > n => w[i] \in Announced(p, m) BY <1>11, <1>13
  <1>13c. \A i \in 1 .. n : w[i] \in Recorded(p, m) BY <1>1, <1>10
  <1>13d. \E i \in 1 .. n : w[i] = Write("manifest", p, m, None) BY <1>1, <1>10
  <1>13e. \A x \in Needs(m) : \E i \in 1 .. n : w[i] = Write("member", p, x, None) BY <1>1, <1>10
  <1>14. w = PutWrites(p, m, t) BY <1>1, <1>2, <1>4, <1>6, <1>6a DEF PutWrites
  <1> QED BY <1>9, <1>13, <1>13a, <1>13b, <1>13c, <1>13d, <1>13e, <1>14

--------------------------------
(* What a request knows outlives the steps of the others. *)

Moves(c) == job' = [e \in Clients |-> job'[e]] /\ \A e \in Clients : e # c => job'[e] = job[e]

LEMMA GotoMoves ==
  ASSUME job = [e \in Clients |-> job[e]], NEW c \in Clients, NEW next, Goto(c, next)
  PROVE  Moves(c) /\ job'[c] = next
  BY DEF Goto, Moves

\* What a push relies on stays.
StoreKept(needs) ==
    /\ blobs \subseteq blobs'
    /\ \A x \in needs : (Stored(x) => Stored(x)') /\ \A p \in Places : Listed(p, x) => Listed(p, x)'

\* Nothing that names a digest is added.
NothingNew(d) ==
    /\ \A p \in Places, t \in Tags : tags'[p][t] \in {tags[p][t], None} \/ d \notin Needs(tags'[p][t])
    /\ \A x \in manifests' \ manifests : d \notin Platforms[x]
    /\ \A p \in Places : \A r \in referrers'[p] : r \in referrers[p] \/ r[2] # d

LEMMA PreparedKept ==
  ASSUME NEW needs, NEW todo, NEW i, todo[i].place \in Places, StoreKept(needs), Prepared(needs, todo, i)
  PROVE  Prepared(needs, todo, i)'
  <1>1. PICK w : w = todo[i] OBVIOUS
  <1>2. (w.kind = "blob" => w.x \in Blobs) /\ (w.kind = "member" => w.x \in Manifests) BY <1>1 DEF Prepared
  <1>3. w.kind = "manifest" =>
          /\ w.x \in Manifests /\ Layers[w.x] \subseteq blobs'
          /\ Platforms[w.x] \subseteq needs /\ \A x \in Platforms[w.x] : Stored(x)'
    BY <1>1 DEF Prepared, StoreKept
  <1>4. w.kind = "link" => w.x \in Blobs /\ (w.x \in blobs' \/ Before(todo, i, "blob", w.x))
    BY <1>1 DEF Prepared, StoreKept
  <1>5. w.kind = "tag" =>
          /\ w.x \in Tags /\ w.y \in Manifests /\ Needs(w.y) \subseteq needs
          /\ Stored(w.y)' \/ Before(todo, i, "manifest", w.y)
          /\ \A x \in Needs(w.y) : Listed(w.place, x)' \/ Before(todo, i, "member", x)
    <2> SUFFICES ASSUME w.kind = "tag"
                 PROVE  /\ w.x \in Tags /\ w.y \in Manifests /\ Needs(w.y) \subseteq needs
                        /\ Stored(w.y)' \/ Before(todo, i, "manifest", w.y)
                        /\ \A x \in Needs(w.y) : Listed(w.place, x)' \/ Before(todo, i, "member", x)
      OBVIOUS
    <2>1. /\ w.x \in Tags /\ w.y \in Manifests /\ Needs(w.y) \subseteq needs
          /\ Stored(w.y) \/ Before(todo, i, "manifest", w.y)
          /\ \A x \in Needs(w.y) : Listed(w.place, x) \/ Before(todo, i, "member", x)
      BY <1>1 DEF Prepared
    <2>2. w.y \in needs BY <2>1 DEF Needs
    <2>3. Stored(w.y) => Stored(w.y)' BY <2>2 DEF StoreKept
    <2>4. \A x \in Needs(w.y) : Listed(w.place, x) => Listed(w.place, x)' BY <2>1, <1>1 DEF StoreKept
    <2> QED BY <2>1, <2>3, <2>4
  <1>6. w.kind = "referrer" =>
          /\ w.x \in Manifests /\ w.y \in needs \cap Manifests
          /\ Stored(w.y)' \/ Before(todo, i, "manifest", w.y)
    BY <1>1 DEF Prepared, StoreKept
  <1> QED BY <1>1, <1>2, <1>3, <1>4, <1>5, <1>6 DEF Prepared

LEMMA WriteTyped ==
  ASSUME NEW j, IsWrite(j)
  PROVE  \A i \in 1 .. Len(j.todo) : j.todo[i] \in AnyWrite
  BY ElementOfSeq DEF IsWrite

LEMMA OtherKeeps ==
  ASSUME NEW e \in Clients, JobSound(e), job'[e] = job[e], torn \subseteq torn',
         job[e].at \in {"check", "write"} => StoreKept(job[e].needs),
         job[e].at \in DeleteSteps /\ job[e].digest \notin torn' => NothingNew(job[e].digest)
  PROVE  JobSound(e)'
  <1>1. PICK j : j = job[e] /\ j = job'[e] OBVIOUS
  <1>2. JobShape(e)' BY DEF JobSound, JobShape
  <1>3. CheckSound(e)'
    <2> SUFFICES ASSUME j.at = "check" PROVE CheckSound(e)' BY <1>1 DEF CheckSound, At
    <2>1. IsCheck(j) BY <1>1 DEF JobSound, JobShape, Idle, IsWrite, IsUntag, IsDelete, DeleteSteps
    <2>2. j.needs = Needs(j.digest) BY <2>1 DEF IsCheck, Checking
    <2>3. StoreKept(j.needs) BY <1>1
    <2>4. PICK ahead : ahead = {j.todo[i] : i \in 1 .. Len(j.todo)} OBVIOUS
    <2>5. Layers[j.digest] \subseteq blobs \cup ahead /\ \A x \in Platforms[j.digest] \ ahead : Stored(x)
      BY <1>1, <2>4 DEF JobSound, CheckSound, At
    <2>6. Layers[j.digest] \subseteq blobs' \cup ahead BY <2>3, <2>5 DEF StoreKept
    <2>7. \A x \in Platforms[j.digest] \ ahead : Stored(x)' BY <2>2, <2>3, <2>5 DEF StoreKept, Needs
    <2> QED BY <1>1, <2>4, <2>6, <2>7 DEF CheckSound, At
  <1>4. WriteSound(e)'
    <2> SUFFICES ASSUME j.at = "write", NEW i \in 1 .. Len(j.todo) PROVE Prepared(j.needs, j.todo, i)'
      BY <1>1 DEF WriteSound, At
    <2>1. IsWrite(j) BY <1>1 DEF JobSound, JobShape, Idle, IsCheck, IsUntag, IsDelete, DeleteSteps
    <2>2. j.todo[i].place \in Places BY <2>1, WriteTyped DEF AnyWrite
    <2>3. Prepared(j.needs, j.todo, i) /\ StoreKept(j.needs) BY <1>1 DEF JobSound, WriteSound, At
    <2> QED BY <2>2, <2>3, PreparedKept
  <1>5. DeleteSound(e)'
    <2> SUFFICES ASSUME j.at \in DeleteSteps, j.digest \notin torn' PROVE DeleteSound(e)' BY <1>1 DEF DeleteSound
    <2>1. IsDelete(j) BY <1>1 DEF JobSound, JobShape, Idle, IsCheck, IsUntag, IsWrite, DeleteSteps
    <2>2. PICK d, p : d = j.digest /\ p = j.place /\ d \in Manifests /\ p \in Places /\ d # None
      BY <2>1, OciRegistryAssumption DEF IsDelete
    <2>3. NothingNew(d) BY <1>1, <2>2
    <2>4. /\ j.at # "prune" => NoTagHere(p, d)
          /\ j.at = "unlink" \/ (j.at = "scan" /\ j.over # "tags") => \A q \in Places : NoTagHere(q, d)
          /\ j.at = "unlink" \/ (j.at = "scan" /\ j.over \notin {"tags", "manifests"}) => NoParent(d)
          /\ j.at = "unlink" => NoReferrer(d)
          /\ j.at = "prune" => NoTagLeadsTo(p, d)
      BY <1>1, <2>2 DEF JobSound, DeleteSound
    <2>5. \A q \in Places : NoTagHere(q, d) => NoTagHere(q, d)' BY <2>2, <2>3 DEF NothingNew, NoTagHere, Needs
    <2>6. NoParent(d) => NoParent(d)' BY <2>3 DEF NothingNew, NoParent
    <2>7. NoReferrer(d) => NoReferrer(d)' BY <2>3 DEF NothingNew, NoReferrer
    <2>8. NoTagLeadsTo(p, d) => NoTagLeadsTo(p, d)' BY <2>2, <2>3 DEF NothingNew, NoTagLeadsTo
    <2> QED BY <1>1, <2>2, <2>4, <2>5, <2>6, <2>7, <2>8 DEF DeleteSound
  <1> QED BY <1>2, <1>3, <1>4, <1>5 DEF JobSound

LEMMA MeetingsKept ==
  ASSUME MeetingsAreTorn, NEW c \in Clients, Moves(c), torn \subseteq torn',
         job'[c].at \in DeleteSteps \cup {"untag"} =>
             job[c].at \in DeleteSteps \cup {"untag"} /\ job'[c].digest = job[c].digest,
         job'[c].at \in {"check", "write"} =>
             job[c].at \in {"check", "write"} /\ job'[c].needs = job[c].needs
  PROVE  MeetingsAreTorn'
  BY DEF MeetingsAreTorn, Moves

\* A request that the invariant says nothing about, and one that goes on.
LEMMA IdleIsSound ==
  ASSUME NEW c \in Clients, job'[c] = Idle
  PROVE  JobSound(c)'
  BY DEF JobSound, JobShape, CheckSound, WriteSound, DeleteSound, Idle, At, DeleteSteps

LEMMA RequestMoves ==
  ASSUME RegistryInv, NEW c \in Clients, Moves(c), torn \subseteq torn', JobSound(c)', MeetingsAreTorn', ImagesAreWhole',
         \A e \in Clients : e # c /\ job[e].at \in {"check", "write"} => StoreKept(job[e].needs),
         \A e \in Clients : e # c /\ job[e].at \in DeleteSteps /\ job[e].digest \notin torn' => NothingNew(job[e].digest)
  PROVE  RegistryInv'
  <1>1. ASSUME NEW e \in Clients, e # c PROVE JobSound(e)'
    <2>1. JobSound(e) /\ job'[e] = job[e] BY <1>1 DEF RegistryInv, JobsSound, Moves
    <2> QED BY <1>1, <2>1, OtherKeeps
  <1>2. job' = [e \in Clients |-> job'[e]] BY DEF Moves
  <1> QED BY <1>1, <1>2 DEF RegistryInv, JobsSound

--------------------------------
(* Steps that write no row. *)

\* The rows stay and torn grows: what the rows promise holds, and every request keeps what it knows.
LEMMA ImagesKept ==
  ASSUME ImagesAreWhole, UNCHANGED store, torn \subseteq torn', torn' \subseteq Manifests, DOMAIN job' = Clients
  PROVE  ImagesAreWhole'
  <1>1. LayersStored' BY DEF ImagesAreWhole, LayersStored, RegistryTypeOK, store
  <1>2. ReferencesResolve' BY DEF ImagesAreWhole, ReferencesResolve, store
  <1>3. TagsArePullable' BY DEF ImagesAreWhole, TagsArePullable, store
  <1> QED BY <1>1, <1>2, <1>3 DEF ImagesAreWhole

LEMMA RowsStay ==
  ASSUME RegistryInv, NEW c \in Clients, Moves(c), UNCHANGED store, torn \subseteq torn', torn' \subseteq Manifests,
         JobSound(c)', MeetingsAreTorn'
  PROVE  RegistryInv'
  <1>1. DOMAIN job' = Clients BY DEF Moves
  <1>2. ImagesAreWhole' BY <1>1, ImagesKept DEF RegistryInv
  <1>3. \A needs : StoreKept(needs) BY DEF StoreKept, Stored, Listed, store
  <1>4. \A d : NothingNew(d) BY DEF NothingNew, store
  <1> QED BY <1>2, <1>3, <1>4, RequestMoves

\* A request that ends, or goes on with the digest or the needs it has.
LEMMA GoesOn ==
  ASSUME RegistryInv, NEW c \in Clients, NEW next, Goto(c, next), UNCHANGED <<store, torn>>, JobSound(c)',
         next.at \in DeleteSteps \cup {"untag"} =>
             job[c].at \in DeleteSteps \cup {"untag"} /\ next.digest = job[c].digest,
         next.at \in {"check", "write"} =>
             \/ job[c].at \in {"check", "write"} /\ next.needs = job[c].needs
             \/ next.needs = {}
  PROVE  RegistryInv'
  <1>1. Moves(c) /\ job'[c] = next BY GotoMoves DEF RegistryInv, JobsSound
  <1>2. MeetingsAreTorn' BY <1>1 DEF RegistryInv, JobsSound, MeetingsAreTorn, Moves
  <1>3. UNCHANGED store /\ torn \subseteq torn' /\ torn' \subseteq Manifests
    BY DEF RegistryInv, ImagesAreWhole, LayersStored, RegistryTypeOK
  <1> QED BY <1>1, <1>2, <1>3, RowsStay

LEMMA RequestEnds ==
  ASSUME RegistryInv, NEW c \in Clients, Done(c), UNCHANGED <<store, torn>>
  PROVE  RegistryInv'
  <1>1. Goto(c, Idle) /\ Idle.at = "idle" BY DEF Done, Idle
  <1>2. job'[c] = Idle BY <1>1, GotoMoves DEF RegistryInv, JobsSound
  <1>3. JobSound(c)' BY <1>2, IdleIsSound
  <1> QED BY <1>1, <1>3, GoesOn DEF DeleteSteps

\* Writes that are prepared make a request that knows enough.
LEMMA WritesAreSound ==
  ASSUME NEW c \in Clients, NEW needs, NEW todo \in Seq(AnyWrite), todo # <<>>, job'[c] = Writes(needs, todo),
         \A i \in 1 .. Len(todo) : Prepared(needs, todo, i)'
  PROVE  JobSound(c)'
  <1>1. PICK j : j = job'[c] OBVIOUS
  <1>2. j.at = "write" /\ j.needs = needs /\ j.todo = todo /\ j = Writes(needs, todo) BY <1>1 DEF Writes
  <1>3. IsWrite(j) BY <1>2 DEF IsWrite
  <1>4. WriteSound(c)' BY <1>1, <1>2 DEF WriteSound, At
  <1> QED BY <1>1, <1>2, <1>3, <1>4 DEF JobSound, JobShape, CheckSound, DeleteSound, DeleteSteps, At

\* A push whose references are stored has its writes prepared: the manifest and the members come first.
LEMMA PushIsPrepared ==
  ASSUME NEW p \in Places, NEW m \in Manifests, NEW t \in Tags \cup {None},
         Layers[m] \subseteq blobs, \A x \in Platforms[m] : Stored(x)
  PROVE  /\ PutWrites(p, m, t) \in Seq(AnyWrite) /\ PutWrites(p, m, t) # <<>>
         /\ \A i \in 1 .. Len(PutWrites(p, m, t)) : Prepared(Needs(m), PutWrites(p, m, t), i)
  <1>1. PICK w : w = PutWrites(p, m, t) OBVIOUS
  <1>2. PICK n \in Nat, k \in Nat :
           /\ w \in Seq(AnyWrite) /\ w # <<>> /\ Len(w) = n + k
           /\ \A i \in 1 .. n : w[i] \in Recorded(p, m)
           /\ \A i \in 1 .. n + k : i > n => w[i] \in Announced(p, m)
           /\ \E i \in 1 .. n : w[i] = Write("manifest", p, m, None)
           /\ \A x \in Needs(m) : \E i \in 1 .. n : w[i] = Write("member", p, x, None)
    BY <1>1, PushIsWritten
  <1>3. /\ Layers[m] \subseteq Blobs /\ Platforms[m] \subseteq Manifests /\ Needs(m) \subseteq Manifests
        /\ Platforms[m] \subseteq Needs(m) /\ m \in Needs(m)
    BY OciRegistryAssumption DEF Needs
  <1>4. ASSUME NEW i \in 1 .. n + k PROVE Prepared(Needs(m), w, i)
    <2>1. CASE i <= n
      <3>1. w[i] \in Recorded(p, m) BY <2>1, <1>2
      <3>2. CASE w[i] = Write("manifest", p, m, None) BY <3>2, <1>3 DEF Prepared, Write
      <3>3. CASE w[i] \in {Write("member", p, x, None) : x \in Needs(m)} BY <3>3, <1>3 DEF Prepared, Write
      <3>4. CASE w[i] \in {Write("link", p, x, None) : x \in Layers[m]} BY <3>4, <1>3 DEF Prepared, Write
      <3> QED BY <3>1, <3>2, <3>3, <3>4 DEF Recorded
    <2>2. CASE i > n
      <3>1. w[i] \in Announced(p, m) BY <2>2, <1>2
      <3>2. w[i].place = p /\ w[i].y = m BY <3>1 DEF Announced, Write
      <3>3. Before(w, i, "manifest", m)
        <4>1. PICK h \in 1 .. n : w[h] = Write("manifest", p, m, None) BY <1>2
        <4>2. h \in 1 .. Len(w) /\ h < i BY <1>2, <2>2
        <4> QED BY <3>2, <4>1, <4>2 DEF Before, Write
      <3>4. ASSUME NEW x \in Needs(m) PROVE Before(w, i, "member", x)
        <4>1. PICK h \in 1 .. n : w[h] = Write("member", p, x, None) BY <1>2
        <4>2. h \in 1 .. Len(w) /\ h < i BY <1>2, <2>2
        <4> QED BY <3>2, <4>1, <4>2 DEF Before, Write
      <3>5. CASE w[i] \in {Write("tag", p, s, m) : s \in Tags} BY <3>2, <3>3, <3>4, <3>5 DEF Prepared, Write
      <3>6. CASE w[i] \in {Write("referrer", p, x, m) : x \in Manifests} BY <3>2, <3>3, <3>6, <1>3 DEF Prepared, Write
      <3> QED BY <3>1, <3>5, <3>6 DEF Announced
    <2> QED BY <2>1, <2>2
  <1> QED BY <1>1, <1>2, <1>4

--------------------------------
(* Pushes. *)

Ahead(todo) == {todo[i] : i \in 1 .. Len(todo)}

\* What is not ahead has been found: a push may go on checking, or write.
LEMMA CheckGoesOn ==
  ASSUME NEW c \in Clients, NEW p \in Places, NEW m \in Manifests, NEW t \in Tags \cup {None},
         NEW rest \in Seq(Blobs \cup Manifests), UNCHANGED store, torn \subseteq torn',
         Layers[m] \subseteq blobs \cup Ahead(rest), \A x \in Platforms[m] \ Ahead(rest) : Stored(x),
         job'[c] = AfterCheck(p, m, t, rest)
  PROVE  JobSound(c)' /\ job'[c].at \in {"check", "write"} /\ job'[c].needs = Needs(m)
  <1>1. StoreKept(Needs(m)) BY DEF StoreKept, Stored, Listed, store
  <1>2. CASE rest = <<>>
    <2>1. Ahead(rest) = {} BY <1>2 DEF Ahead
    <2>2. PICK w : w = PutWrites(p, m, t) OBVIOUS
    <2>3. w \in Seq(AnyWrite) /\ w # <<>> /\ \A i \in 1 .. Len(w) : Prepared(Needs(m), w, i)
      BY <2>1, <2>2, PushIsPrepared
    <2>4. ASSUME NEW i \in 1 .. Len(w) PROVE Prepared(Needs(m), w, i)'
      <3>0. w[i] \in AnyWrite BY <2>3, ElementOfSeq
      <3>1. w[i].place \in Places BY <3>0 DEF AnyWrite
      <3> QED BY <3>1, <1>1, <2>3, PreparedKept
    <2>5. job'[c] = Writes(Needs(m), w) BY <1>2, <2>2 DEF AfterCheck
    <2>6. JobSound(c)' BY <2>3, <2>4, <2>5, WritesAreSound
    <2> QED BY <2>5, <2>6 DEF Writes
  <1>3. CASE rest # <<>>
    <2>1. PICK j : j = job'[c] OBVIOUS
    <2>2. j = Checking(p, m, t, rest) BY <1>3, <2>1 DEF AfterCheck
    <2>3. /\ j.at = "check" /\ j.place = p /\ j.digest = m /\ j.tag = t /\ j.todo = rest /\ j.needs = Needs(m)
      BY <2>2 DEF Checking
    <2>4. IsCheck(j) BY <1>3, <2>2, <2>3 DEF IsCheck
    <2>5. Layers[m] \subseteq blobs' \cup Ahead(rest) /\ \A x \in Platforms[m] \ Ahead(rest) : Stored(x)'
      BY DEF Stored, store
    <2>6. CheckSound(c)' BY <2>1, <2>3, <2>5 DEF CheckSound, Ahead, At
    <2> QED BY <2>1, <2>3, <2>4, <2>6 DEF JobSound, JobShape, WriteSound, DeleteSound, DeleteSteps, At
  <1> QED BY <1>2, <1>3

LEMMA CheckShape ==
  ASSUME RegistryInv, NEW c \in Clients, At(c, "check")
  PROVE  /\ IsCheck(job[c]) /\ job[c].needs = Needs(job[c].digest)
         /\ Layers[job[c].digest] \subseteq blobs \cup Ahead(job[c].todo)
         /\ \A x \in Platforms[job[c].digest] \ Ahead(job[c].todo) : Stored(x)
  <1>1. IsCheck(job[c])
    BY DEF RegistryInv, JobsSound, JobSound, JobShape, At, Idle, IsWrite, IsUntag, IsDelete, DeleteSteps
  <1>2. job[c].needs = Needs(job[c].digest) BY <1>1 DEF IsCheck, Checking
  <1> QED BY <1>1, <1>2 DEF RegistryInv, JobsSound, JobSound, CheckSound, Ahead

LEMMA CheckReferenceKeeps ==
  ASSUME RegistryInv, NEW c \in Clients, CheckReference(c)
  PROVE  RegistryInv'
  <1>1. PICK j : j = job[c] OBVIOUS
  <1>2. At(c, "check") /\ UNCHANGED <<store, torn>> BY DEF CheckReference
  <1>3. PICK p, m, t, todo : p = j.place /\ m = j.digest /\ t = j.tag /\ todo = j.todo OBVIOUS
  <1>4. /\ p \in Places /\ m \in Manifests /\ t \in Tags \cup {None}
        /\ todo \in Seq(Blobs \cup Manifests) /\ todo # <<>> /\ j.needs = Needs(m) /\ j.at = "check"
        /\ Layers[m] \subseteq blobs \cup Ahead(todo)
        /\ \A x \in Platforms[m] \ Ahead(todo) : Stored(x)
    BY <1>1, <1>2, <1>3, CheckShape DEF IsCheck
  <1>5. CASE Present(p, Head(todo))
    <2>1. PICK rest, h : rest = Tail(todo) /\ h = Head(todo) OBVIOUS
    <2>2. rest \in Seq(Blobs \cup Manifests) /\ \A i \in 1 .. Len(todo) : todo[i] = h \/ todo[i] \in Ahead(rest)
      <3>1. PICK n \in Nat : n = Len(todo) /\ rest \in Seq(Blobs \cup Manifests) /\ Len(rest) = n - 1
                /\ \A i \in 1 .. n - 1 : rest[i] = todo[i + 1]
        BY <1>4, <2>1, HeadTailProperties
      <3>2. todo[1] = h BY <1>4, <2>1
      <3>3. ASSUME NEW i \in 1 .. n PROVE todo[i] = h \/ todo[i] \in Ahead(rest)
        <4>1. CASE i = 1 BY <3>2, <4>1
        <4>2. CASE i # 1
          <5>1. i - 1 \in 1 .. n - 1 /\ rest[i - 1] = todo[i] BY <3>1, <4>2
          <5> QED BY <3>1, <5>1 DEF Ahead
        <4> QED BY <4>1, <4>2
      <3> QED BY <3>1, <3>3
    <2>3. Ahead(todo) \subseteq {h} \cup Ahead(rest) BY <2>2 DEF Ahead
    <2>4. Layers[m] \subseteq Blobs /\ Platforms[m] \subseteq Manifests /\ Platforms[m] \cap Blobs = {}
      BY <1>4, OciRegistryAssumption
    <2>5. h \in Layers[m] => h \in blobs BY <1>5, <2>1, <2>4 DEF Present
    <2>6. h \in Platforms[m] => Stored(h) BY <1>5, <2>1, <2>4 DEF Present, Stored
    <2>7. Layers[m] \subseteq blobs \cup Ahead(rest) BY <1>4, <2>3, <2>5
    <2>8. \A x \in Platforms[m] \ Ahead(rest) : Stored(x) BY <1>4, <2>3, <2>6
    <2>9. PICK next : next = AfterCheck(p, m, t, rest) OBVIOUS
    <2>10. Goto(c, next) BY <1>1, <1>3, <1>5, <2>1, <2>9 DEF CheckReference
    <2>11. job'[c] = next BY <2>10, GotoMoves DEF RegistryInv, JobsSound
    <2>12. JobSound(c)' /\ next.at \in {"check", "write"} /\ next.needs = Needs(m)
      BY <1>2, <1>4, <2>2, <2>7, <2>8, <2>9, <2>11, CheckGoesOn
    <2> QED BY <1>1, <1>2, <1>4, <2>10, <2>12, GoesOn DEF DeleteSteps
  <1>6. CASE ~Present(p, Head(todo))
    <2>1. Done(c) BY <1>1, <1>3, <1>6 DEF CheckReference
    <2> QED BY <1>2, <2>1, RequestEnds
  <1> QED BY <1>5, <1>6

\* The check of a push starts with every reference ahead.
LEMMA ReferencesAhead ==
  ASSUME NEW m \in Manifests
  PROVE  /\ SetToSeq(Layers[m]) \o SetToSeq(Platforms[m]) \in Seq(Blobs \cup Manifests)
         /\ Layers[m] \cup Platforms[m] \subseteq Ahead(SetToSeq(Layers[m]) \o SetToSeq(Platforms[m]))
  <1>1. /\ IsFiniteSet(Layers[m]) /\ Layers[m] \subseteq Blobs
        /\ IsFiniteSet(Platforms[m]) /\ Platforms[m] \subseteq Manifests
    BY OciRegistryAssumption
  <1>2. PICK l, n : l = SetToSeq(Layers[m]) /\ n = Cardinality(Layers[m]) OBVIOUS
  <1>3. PICK q, k : q = SetToSeq(Platforms[m]) /\ k = Cardinality(Platforms[m]) OBVIOUS
  <1>4. l \in Seq(Layers[m]) /\ Len(l) = n /\ n \in Nat /\ \A x \in Layers[m] : \E i \in 1 .. n : l[i] = x
    BY <1>1, <1>2, SetAsSequence
  <1>5. q \in Seq(Platforms[m]) /\ Len(q) = k /\ k \in Nat /\ \A x \in Platforms[m] : \E i \in 1 .. k : q[i] = x
    BY <1>1, <1>3, SetAsSequence
  <1>6. l \in Seq(Blobs \cup Manifests) /\ q \in Seq(Blobs \cup Manifests) BY <1>1, <1>4, <1>5
  <1>7. PICK s : s = l \o q OBVIOUS
  <1>8. /\ s \in Seq(Blobs \cup Manifests) /\ Len(s) = n + k
        /\ \A i \in 1 .. n : s[i] = l[i]
        /\ \A i \in 1 .. k : s[n + i] = q[i]
    <2>1. OfLength(Blobs \cup Manifests, l, n) /\ OfLength(Blobs \cup Manifests, q, k) BY <1>4, <1>5, <1>6 DEF OfLength
    <2>2. Follows(Blobs \cup Manifests, s, l, n, q, k) BY <1>7, <2>1, Joined
    <2> QED BY <2>2 DEF Follows, OfLength
  <1>9. \A i \in 1 .. n : s[i] = l[i] /\ i \in 1 .. Len(s) BY <1>4, <1>5, <1>8
  <1>10. \A i \in 1 .. k : s[n + i] = q[i] /\ n + i \in 1 .. Len(s) BY <1>4, <1>5, <1>8
  <1>11. \A x \in Layers[m] : x \in Ahead(s) BY <1>4, <1>9 DEF Ahead
  <1>12. \A x \in Platforms[m] : x \in Ahead(s) BY <1>5, <1>10 DEF Ahead
  <1> QED BY <1>2, <1>3, <1>7, <1>8, <1>11, <1>12

\* Deleting sees every delete by digest: one that the push meets makes the digest torn.
LEMMA PutManifestKeeps ==
  ASSUME RegistryInv, NEW c \in Clients, NEW p \in Places, NEW m \in Manifests, NEW t \in Tags \cup {None},
         PutManifest(c, p, m, t)
  PROVE  RegistryInv'
  <1>1. PICK rest : rest = SetToSeq(Layers[m]) \o SetToSeq(Platforms[m]) OBVIOUS
  <1>2. rest \in Seq(Blobs \cup Manifests) /\ Layers[m] \cup Platforms[m] \subseteq Ahead(rest) BY <1>1, ReferencesAhead
  <1>3. PICK next : next = AfterCheck(p, m, t, rest) OBVIOUS
  <1>4. Goto(c, next) /\ UNCHANGED store /\ torn' = torn \cup {x \in Needs(m) : Deleting(x)}
    BY <1>1, <1>3 DEF PutManifest
  <1>5. Moves(c) /\ job'[c] = next BY <1>4, GotoMoves DEF RegistryInv, JobsSound
  <1>6. torn \subseteq torn' /\ torn' \subseteq Manifests
    <2>1. torn \subseteq Manifests BY DEF RegistryInv, ImagesAreWhole, LayersStored, RegistryTypeOK
    <2>2. Needs(m) \subseteq Manifests BY OciRegistryAssumption DEF Needs
    <2> QED BY <1>4, <2>1, <2>2
  <1>7. JobSound(c)' /\ job'[c].at \in {"check", "write"} /\ job'[c].needs = Needs(m)
    BY <1>2, <1>3, <1>4, <1>5, <1>6, CheckGoesOn
  <1>8. MeetingsAreTorn'
    <2> SUFFICES ASSUME NEW e \in Clients, NEW f \in Clients,
                        job'[e].at \in DeleteSteps \cup {"untag"}, job'[f].at \in {"check", "write"},
                        job'[e].digest \in job'[f].needs
                 PROVE  job'[e].digest \in torn'
      BY DEF MeetingsAreTorn
    <2>1. e # c /\ job'[e] = job[e] BY <1>5, <1>7 DEF Moves, DeleteSteps
    <2>2. CASE f # c
      <3>1. job'[f] = job[f] BY <1>5, <2>2 DEF Moves
      <3> QED BY <1>6, <2>1, <3>1 DEF RegistryInv, JobsSound, MeetingsAreTorn
    <2>3. CASE f = c
      <3>1. job[e].digest \in Needs(m) BY <1>7, <2>1, <2>3
      <3>2. Deleting(job[e].digest) BY <2>1 DEF Deleting, DeleteSteps
      <3> QED BY <1>4, <2>1, <3>1, <3>2
    <2> QED BY <2>2, <2>3
  <1> QED BY <1>4, <1>5, <1>6, <1>7, <1>8, RowsStay

LEMMA PushBlobKeeps ==
  ASSUME RegistryInv, NEW c \in Clients, NEW p \in Places, NEW b \in Blobs, PushBlob(c, p, b)
  PROVE  RegistryInv'
  <1>1. PICK w : w = BlobWrites(p, b) OBVIOUS
  <1>2. w[1] = Write("blob", p, b, None) /\ w[2] = Write("link", p, b, None) /\ Len(w) = 2 /\ w # <<>>
    BY <1>1 DEF BlobWrites
  <1>3. w \in Seq(AnyWrite)
    <2>1. Write("blob", p, b, None) \in AnyWrite /\ Write("link", p, b, None) \in AnyWrite BY DEF Write, AnyWrite, Kinds
    <2> QED BY <1>1, <2>1 DEF BlobWrites
  <1>4. Before(w, 2, "blob", b) BY <1>2 DEF Before, Write
  <1>5. ASSUME NEW i \in 1 .. Len(w) PROVE Prepared({}, w, i)'
    <2>1. CASE i = 1 BY <1>2, <2>1 DEF Prepared, Write
    <2>2. CASE i = 2 BY <1>2, <1>4, <2>2 DEF Prepared, Write
    <2> QED BY <1>2, <2>1, <2>2
  <1>6. Goto(c, Writes({}, w)) /\ UNCHANGED <<store, torn>> BY <1>1 DEF PushBlob
  <1>7. job'[c] = Writes({}, w) BY <1>6, GotoMoves DEF RegistryInv, JobsSound
  <1>8. JobSound(c)' BY <1>2, <1>3, <1>5, <1>7, WritesAreSound
  <1> QED BY <1>6, <1>8, GoesOn DEF Writes, DeleteSteps

LEMMA MountBlobKeeps ==
  ASSUME RegistryInv, NEW c \in Clients, NEW p \in Places, NEW from \in Places, NEW b \in Blobs, MountBlob(c, p, from, b)
  PROVE  RegistryInv'
  <1>1. PICK w : w = <<Write("link", p, b, None)>> OBVIOUS
  <1>2. w[1] = Write("link", p, b, None) /\ Len(w) = 1 /\ w # <<>> BY <1>1
  <1>3. w \in Seq(AnyWrite)
    <2>1. Write("link", p, b, None) \in AnyWrite BY DEF Write, AnyWrite, Kinds
    <2> QED BY <1>1, <2>1
  <1>4. Goto(c, Writes({}, w)) /\ UNCHANGED <<store, torn>> /\ b \in blobs' BY <1>1 DEF MountBlob, store
  <1>5. ASSUME NEW i \in 1 .. Len(w) PROVE Prepared({}, w, i)' BY <1>2, <1>4 DEF Prepared, Write
  <1>6. job'[c] = Writes({}, w) BY <1>4, GotoMoves DEF RegistryInv, JobsSound
  <1>7. JobSound(c)' BY <1>2, <1>3, <1>5, <1>6, WritesAreSound
  <1> QED BY <1>4, <1>7, GoesOn DEF Writes, DeleteSteps

--------------------------------
(* The next write of a push. *)

\* What Prepared says of the write that comes first.
Ready(needs, w) ==
    /\ w.kind = "manifest" =>
         /\ w.x \in Manifests /\ Layers[w.x] \subseteq blobs
         /\ Platforms[w.x] \subseteq needs /\ \A x \in Platforms[w.x] : Stored(x)
    /\ w.kind = "blob" => w.x \in Blobs
    /\ w.kind = "member" => w.x \in Manifests
    /\ w.kind = "link" => w.x \in Blobs /\ w.x \in blobs
    /\ w.kind = "tag" =>
         /\ w.x \in Tags /\ w.y \in Manifests /\ Needs(w.y) \subseteq needs /\ Stored(w.y)
         /\ \A x \in Needs(w.y) : Listed(w.place, x)
    /\ w.kind = "referrer" => w.x \in Manifests /\ w.y \in needs \cap Manifests /\ Stored(w.y)

\* The rows after a write: one is added, or one tag is set.
RowsWritten(w) ==
    /\ torn' = torn
    /\ blobs' = IF w.kind = "blob" THEN blobs \cup {w.x} ELSE blobs
    /\ manifests' = IF w.kind = "manifest" THEN manifests \cup {w.x} ELSE manifests
    /\ \A p \in Places : member'[p] = IF w.kind = "member" /\ p = w.place THEN member[p] \cup {w.x} ELSE member[p]
    /\ \A p \in Places : linked'[p] = IF w.kind = "link" /\ p = w.place THEN linked[p] \cup {w.x} ELSE linked[p]
    /\ \A p \in Places, t \in Tags :
         tags'[p][t] = IF w.kind = "tag" /\ p = w.place /\ t = w.x THEN w.y ELSE tags[p][t]
    /\ \A p \in Places :
         referrers'[p] = IF w.kind = "referrer" /\ p = w.place THEN referrers[p] \cup {<<w.x, w.y>>} ELSE referrers[p]

LEMMA ApplyWrites ==
  ASSUME RegistryTypeOK, NEW needs, NEW w \in AnyWrite, Ready(needs, w), Apply(w), DOMAIN job' = Clients
  PROVE  RowsWritten(w) /\ RegistryTypeOK'
  <1>1. /\ blobs \subseteq Blobs /\ manifests \subseteq Manifests /\ torn \subseteq Manifests
        /\ member \in [Places -> SUBSET Manifests] /\ linked \in [Places -> SUBSET Blobs]
        /\ tags \in [Places -> [Tags -> Manifests \cup {None}]]
        /\ referrers \in [Places -> SUBSET (Manifests \X Manifests)]
    BY DEF RegistryTypeOK
  <1>2. w.place \in Places /\ w.kind \in Kinds BY DEF AnyWrite
  <1>3. torn' = torn BY DEF Apply
  <1>4. /\ blobs' = IF w.kind = "blob" THEN blobs \cup {w.x} ELSE blobs
        /\ blobs' \subseteq Blobs
    BY <1>1 DEF Apply, Ready
  <1>5. /\ manifests' = IF w.kind = "manifest" THEN manifests \cup {w.x} ELSE manifests
        /\ manifests' \subseteq Manifests
    BY <1>1 DEF Apply, Ready
  <1>6. /\ \A p \in Places : member'[p] = IF w.kind = "member" /\ p = w.place THEN member[p] \cup {w.x} ELSE member[p]
        /\ member' \in [Places -> SUBSET Manifests]
    <2>1. member' = IF w.kind = "member" THEN [member EXCEPT ![w.place] = member[w.place] \cup {w.x}] ELSE member
      BY DEF Apply
    <2>2. w.kind = "member" => w.x \in Manifests BY DEF Ready
    <2>3. CASE w.kind = "member" BY <1>1, <1>2, <2>1, <2>2, <2>3
    <2>4. CASE w.kind # "member" BY <1>1, <2>1, <2>4
    <2> QED BY <2>3, <2>4
  <1>7. /\ \A p \in Places : linked'[p] = IF w.kind = "link" /\ p = w.place THEN linked[p] \cup {w.x} ELSE linked[p]
        /\ linked' \in [Places -> SUBSET Blobs]
    <2>1. linked' = IF w.kind = "link" THEN [linked EXCEPT ![w.place] = linked[w.place] \cup {w.x}] ELSE linked
      BY DEF Apply
    <2>2. w.kind = "link" => w.x \in Blobs BY DEF Ready
    <2>3. CASE w.kind = "link" BY <1>1, <1>2, <2>1, <2>2, <2>3
    <2>4. CASE w.kind # "link" BY <1>1, <2>1, <2>4
    <2> QED BY <2>3, <2>4
  <1>8. /\ \A p \in Places, t \in Tags :
             tags'[p][t] = IF w.kind = "tag" /\ p = w.place /\ t = w.x THEN w.y ELSE tags[p][t]
        /\ tags' \in [Places -> [Tags -> Manifests \cup {None}]]
    <2>1. PICK row : row = [tags[w.place] EXCEPT ![w.x] = w.y] OBVIOUS
    <2>2. tags' = IF w.kind = "tag" THEN [tags EXCEPT ![w.place] = row] ELSE tags BY <2>1 DEF Apply
    <2>3. w.kind = "tag" => w.x \in Tags /\ w.y \in Manifests BY DEF Ready
    <2>4. CASE w.kind = "tag"
      <3>1. row \in [Tags -> Manifests \cup {None}] /\ \A t \in Tags : row[t] = IF t = w.x THEN w.y ELSE tags[w.place][t]
        BY <1>1, <1>2, <2>1, <2>3, <2>4
      <3> QED BY <1>1, <1>2, <2>2, <2>4, <3>1
    <2>5. CASE w.kind # "tag" BY <1>1, <2>2, <2>5
    <2> QED BY <2>4, <2>5
  <1>9. /\ \A p \in Places :
             referrers'[p] = IF w.kind = "referrer" /\ p = w.place THEN referrers[p] \cup {<<w.x, w.y>>} ELSE referrers[p]
        /\ referrers' \in [Places -> SUBSET (Manifests \X Manifests)]
    <2>1. referrers' = IF w.kind = "referrer" THEN [referrers EXCEPT ![w.place] = referrers[w.place] \cup {<<w.x, w.y>>}]
                       ELSE referrers
      BY DEF Apply
    <2>2. w.kind = "referrer" => <<w.x, w.y>> \in Manifests \X Manifests BY DEF Ready
    <2>3. CASE w.kind = "referrer" BY <1>1, <1>2, <2>1, <2>2, <2>3
    <2>4. CASE w.kind # "referrer" BY <1>1, <2>1, <2>4
    <2> QED BY <2>3, <2>4
  <1> QED BY <1>1, <1>3, <1>4, <1>5, <1>6, <1>7, <1>8, <1>9 DEF RowsWritten, RegistryTypeOK

LEMMA WriteKeepsImages ==
  ASSUME ImagesAreWhole, NEW needs, NEW w \in AnyWrite, Ready(needs, w), RowsWritten(w), RegistryTypeOK'
  PROVE  ImagesAreWhole'
  <1>1. blobs \subseteq blobs' /\ torn' = torn /\ manifests \subseteq manifests' /\ w.place \in Places
    BY DEF RowsWritten, AnyWrite
  <1>2. ASSUME NEW p \in Places PROVE linked'[p] \subseteq blobs'
    <2>1. linked[p] \subseteq blobs BY DEF ImagesAreWhole, LayersStored
    <2>2. linked'[p] = IF w.kind = "link" /\ p = w.place THEN linked[p] \cup {w.x} ELSE linked[p] BY DEF RowsWritten
    <2>3. w.kind = "link" => w.x \in blobs BY DEF Ready
    <2> QED BY <1>1, <2>1, <2>2, <2>3
  <1>3. ASSUME NEW m \in manifests' PROVE Layers[m] \subseteq blobs' /\ \A x \in Platforms[m] : Stored(x)'
    <2>1. CASE m \in manifests BY <1>1, <2>1 DEF ImagesAreWhole, LayersStored, ReferencesResolve, Stored
    <2>2. CASE m \notin manifests
      <3>1. w.kind = "manifest" /\ m = w.x BY <1>3, <2>2 DEF RowsWritten
      <3> QED BY <1>1, <3>1 DEF Ready, Stored
    <2> QED BY <2>1, <2>2
  <1>4. ASSUME NEW p \in Places, NEW t \in Tags, NEW y, y = tags'[p][t], y # None
        PROVE  Stored(y)' /\ (y \notin torn' => \A x \in Needs(y) : Listed(p, x)')
    <2>1. \A x : Listed(p, x) => Listed(p, x)' BY <1>1 DEF RowsWritten, Listed
    <2>2. CASE w.kind = "tag" /\ p = w.place /\ t = w.x
      <3>1. y = w.y BY <1>4, <2>2 DEF RowsWritten
      <3>2. Stored(w.y) /\ \A x \in Needs(w.y) : Listed(p, x) BY <2>2 DEF Ready
      <3>3. Stored(w.y)' /\ \A x \in Needs(w.y) : Listed(p, x)' BY <1>1, <2>1, <3>2 DEF Stored
      <3> QED BY <3>1, <3>3 DEF Stored, Listed
    <2>3. CASE ~(w.kind = "tag" /\ p = w.place /\ t = w.x)
      <3>1. y = tags[p][t] BY <1>4, <2>3 DEF RowsWritten
      <3>2. Stored(y) /\ (y \notin torn => \A x \in Needs(y) : Listed(p, x))
        BY <1>4, <3>1 DEF ImagesAreWhole, ReferencesResolve, TagsArePullable, Stored, Listed
      <3>3. Stored(y)' /\ (y \notin torn' => \A x \in Needs(y) : Listed(p, x)') BY <1>1, <2>1, <3>2 DEF Stored
      <3> QED BY <3>1, <3>3 DEF Stored, Listed
    <2> QED BY <2>2, <2>3
  <1>5. ASSUME NEW p \in Places, NEW r \in referrers'[p] PROVE Stored(r[2])'
    <2>1. CASE r \in referrers[p] BY <1>1, <2>1 DEF ImagesAreWhole, ReferencesResolve, Stored
    <2>2. CASE r \notin referrers[p]
      <3>1. referrers'[p] = IF w.kind = "referrer" /\ p = w.place THEN referrers[p] \cup {<<w.x, w.y>>} ELSE referrers[p]
        BY DEF RowsWritten
      <3>2. w.kind = "referrer" /\ r = <<w.x, w.y>> BY <1>5, <2>2, <3>1
      <3>3. r[2] = w.y /\ Stored(w.y) BY <3>2 DEF Ready
      <3> QED BY <1>1, <3>3 DEF Stored
    <2> QED BY <2>1, <2>2
  <1>6. LayersStored' BY <1>2, <1>3 DEF LayersStored
  <1>7. ReferencesResolve'
    <2>1. \A p \in Places, t \in Tags : tags'[p][t] # None => tags'[p][t] \in manifests' \cup torn' BY <1>4 DEF Stored
    <2>2. \A p \in Places : \A r \in referrers'[p] : r[2] \in manifests' \cup torn' BY <1>5 DEF Stored
    <2>3. \A m \in manifests' : \A x \in Platforms[m] : x \in manifests' \cup torn' BY <1>3 DEF Stored
    <2> QED BY <2>1, <2>2, <2>3 DEF ReferencesResolve
  <1>8. TagsArePullable' BY <1>4 DEF TagsArePullable, Listed
  <1> QED BY <1>6, <1>7, <1>8 DEF ImagesAreWhole

LEMMA WriteShape ==
  ASSUME RegistryInv, NEW c \in Clients, At(c, "write")
  PROVE  /\ IsWrite(job[c])
         /\ \A i \in 1 .. Len(job[c].todo) : job[c].todo[i] \in AnyWrite /\ Prepared(job[c].needs, job[c].todo, i)
  <1>1. IsWrite(job[c])
    BY DEF RegistryInv, JobsSound, JobSound, JobShape, At, Idle, IsCheck, IsUntag, IsDelete, DeleteSteps
  <1> QED BY <1>1, WriteTyped DEF RegistryInv, JobsSound, JobSound, WriteSound

LEMMA FirstIsReady ==
  ASSUME NEW needs, NEW todo, Prepared(needs, todo, 1)
  PROVE  Ready(needs, todo[1])
  <1>1. \A kind, x : ~Before(todo, 1, kind, x) BY DEF Before
  <1> QED BY <1>1 DEF Prepared, Ready

\* A write that a later one waits for has been made.
LEMMA TailIsPrepared ==
  ASSUME NEW needs, NEW todo \in Seq(AnyWrite), todo # <<>>, RowsWritten(todo[1]), NEW rest, rest = Tail(todo),
         NEW i \in 1 .. Len(rest), Prepared(needs, todo, i + 1)'
  PROVE  Prepared(needs, rest, i)'
  <1>1. PICK n \in Nat : /\ n = Len(todo) /\ Len(rest) = n - 1 /\ rest \in Seq(AnyWrite)
                         /\ \A k \in 1 .. n - 1 : rest[k] = todo[k + 1]
    BY HeadTailProperties
  <1>2. PICK w, v : w = todo[1] /\ v = rest[i] /\ v = todo[i + 1] /\ i \in 1 .. n - 1 BY <1>1
  <1>3. w \in AnyWrite /\ v \in AnyWrite
    <2>1. 1 \in 1 .. Len(todo) /\ i + 1 \in 1 .. Len(todo) BY <1>1, <1>2
    <2> QED BY <1>2, <2>1, ElementOfSeq
  <1>4. ASSUME NEW kind, NEW x, Before(todo, i + 1, kind, x)
        PROVE  Before(rest, i, kind, x) \/ (w.kind = kind /\ w.x = x /\ w.place = v.place)
    <2>1. PICK k \in 1 .. n : k < i + 1 /\ todo[k].kind = kind /\ todo[k].x = x /\ todo[k].place = v.place
      BY <1>1, <1>2, <1>4 DEF Before
    <2>2. CASE k = 1 BY <1>2, <2>1, <2>2
    <2>3. CASE k # 1
      <3>1. PICK h \in 1 .. n - 1 : h = k - 1 /\ rest[h] = todo[k] /\ h < i
        <4>1. k - 1 \in 1 .. n - 1 /\ (k - 1) + 1 = k /\ k - 1 < i BY <1>2, <2>1, <2>3
        <4> QED BY <1>1, <4>1
      <3> QED BY <1>1, <1>2, <2>1, <3>1 DEF Before
    <2> QED BY <2>2, <2>3
  <1>5. /\ w.kind = "blob" => w.x \in blobs'
        /\ w.kind = "manifest" => Stored(w.x)'
        /\ w.kind = "member" => Listed(w.place, w.x)'
    BY <1>2, <1>3 DEF RowsWritten, Stored, Listed, AnyWrite
  <1>6. v.kind = "link" => v.x \in Blobs /\ (v.x \in blobs' \/ Before(rest, i, "blob", v.x))
    BY <1>2, <1>4, <1>5 DEF Prepared
  <1>7. v.kind \in {"blob", "manifest", "member"} =>
          /\ v.kind = "blob" => v.x \in Blobs
          /\ v.kind = "member" => v.x \in Manifests
          /\ v.kind = "manifest" =>
               /\ v.x \in Manifests /\ Layers[v.x] \subseteq blobs'
               /\ Platforms[v.x] \subseteq needs /\ \A x \in Platforms[v.x] : Stored(x)'
    BY <1>2 DEF Prepared
  <1>8. v.kind = "tag" =>
          /\ v.x \in Tags /\ v.y \in Manifests /\ Needs(v.y) \subseteq needs
          /\ Stored(v.y)' \/ Before(rest, i, "manifest", v.y)
          /\ \A x \in Needs(v.y) : Listed(v.place, x)' \/ Before(rest, i, "member", x)
    <2> SUFFICES ASSUME v.kind = "tag"
                 PROVE  /\ v.x \in Tags /\ v.y \in Manifests /\ Needs(v.y) \subseteq needs
                        /\ Stored(v.y)' \/ Before(rest, i, "manifest", v.y)
                        /\ \A x \in Needs(v.y) : Listed(v.place, x)' \/ Before(rest, i, "member", x)
      OBVIOUS
    <2>1. /\ v.x \in Tags /\ v.y \in Manifests /\ Needs(v.y) \subseteq needs
          /\ Stored(v.y)' \/ Before(todo, i + 1, "manifest", v.y)
          /\ \A x \in Needs(v.y) : Listed(v.place, x)' \/ Before(todo, i + 1, "member", x)
      BY <1>2 DEF Prepared
    <2>2. Stored(v.y)' \/ Before(rest, i, "manifest", v.y) BY <2>1, <1>4, <1>5
    <2>3. \A x \in Needs(v.y) : Listed(v.place, x)' \/ Before(rest, i, "member", x) BY <2>1, <1>4, <1>5
    <2> QED BY <2>1, <2>2, <2>3
  <1>9. v.kind = "referrer" =>
          /\ v.x \in Manifests /\ v.y \in needs \cap Manifests
          /\ Stored(v.y)' \/ Before(rest, i, "manifest", v.y)
    <2>1. v.kind = "referrer" =>
            /\ v.x \in Manifests /\ v.y \in needs \cap Manifests
            /\ Stored(v.y)' \/ Before(todo, i + 1, "manifest", v.y)
      BY <1>2 DEF Prepared
    <2> QED BY <2>1, <1>4, <1>5
  <1> QED BY <1>2, <1>6, <1>7, <1>8, <1>9 DEF Prepared

\* A push names nothing that a delete works on, or the two have met.
LEMMA NextWriteKeeps ==
  ASSUME RegistryInv, NEW c \in Clients, NextWrite(c)
  PROVE  RegistryInv'
  <1>1. PICK needs, todo : needs = job[c].needs /\ todo = job[c].todo OBVIOUS
  <1>2. At(c, "write") BY DEF NextWrite
  <1>3. /\ todo \in Seq(AnyWrite) /\ todo # <<>> /\ job[c] = Writes(needs, todo) /\ job[c].at = "write"
        /\ \A i \in 1 .. Len(todo) : todo[i] \in AnyWrite /\ Prepared(needs, todo, i)
    BY <1>1, <1>2, WriteShape DEF IsWrite
  <1>4. PICK w : w = todo[1] /\ w = Head(todo) BY <1>3
  <1>5. w \in AnyWrite /\ Ready(needs, w)
    <2>1. 1 \in 1 .. Len(todo) BY <1>3
    <2> QED BY <1>3, <1>4, <2>1, FirstIsReady
  <1>6. Apply(w) BY <1>1, <1>4 DEF NextWrite
  <1>7. Moves(c) /\ job'[c] = IF Len(todo) = 1 THEN Idle ELSE Writes(needs, Tail(todo))
    <2>1. CASE Len(todo) = 1
      <3>1. Goto(c, Idle) BY <1>1, <2>1 DEF NextWrite, Done
      <3> QED BY <2>1, <3>1, GotoMoves DEF RegistryInv, JobsSound
    <2>2. CASE Len(todo) # 1
      <3>1. Goto(c, [job[c] EXCEPT !.todo = Tail(todo)]) BY <1>1, <2>2 DEF NextWrite
      <3>2. [job[c] EXCEPT !.todo = Tail(todo)] = Writes(needs, Tail(todo))
        <4>1. PICK j, rest : j = job[c] /\ rest = Tail(todo) OBVIOUS
        <4>2. j = [at |-> "write", needs |-> needs, todo |-> todo] BY <1>3, <4>1 DEF Writes
        <4>3. [j EXCEPT !.todo = rest] = [at |-> "write", needs |-> needs, todo |-> rest] BY <4>2
        <4> QED BY <4>1, <4>3 DEF Writes
      <3>3. Goto(c, Writes(needs, Tail(todo))) BY <3>1, <3>2
      <3> QED BY <2>2, <3>3, GotoMoves DEF RegistryInv, JobsSound
    <2> QED BY <2>1, <2>2
  <1>8. RegistryTypeOK BY DEF RegistryInv, ImagesAreWhole, LayersStored
  <1>9. RowsWritten(w) /\ RegistryTypeOK'
    <2>1. DOMAIN job' = Clients BY <1>7 DEF Moves
    <2> QED BY <1>5, <1>6, <1>8, <2>1, ApplyWrites
  <1>10. ImagesAreWhole' BY <1>5, <1>9, WriteKeepsImages DEF RegistryInv
  <1>11. \A n : StoreKept(n) BY <1>9 DEF RowsWritten, StoreKept, Stored, Listed
  <1>12. ASSUME NEW e \in Clients, e # c, job[e].at \in DeleteSteps, job[e].digest \notin torn'
         PROVE  NothingNew(job[e].digest)
    <2>1. PICK d : d = job[e].digest OBVIOUS
    <2>2. d \notin needs BY <1>1, <1>3, <1>9, <1>12, <2>1 DEF RegistryInv, JobsSound, MeetingsAreTorn, RowsWritten
    <2>3. ASSUME NEW p \in Places, NEW t \in Tags PROVE tags'[p][t] = tags[p][t] \/ d \notin Needs(tags'[p][t])
      <3>1. CASE w.kind = "tag" /\ p = w.place /\ t = w.x
        <4>1. tags'[p][t] = w.y /\ Needs(w.y) \subseteq needs BY <1>5, <1>9, <3>1 DEF RowsWritten, Ready
        <4> QED BY <2>2, <4>1
      <3>2. CASE ~(w.kind = "tag" /\ p = w.place /\ t = w.x) BY <1>9, <3>2 DEF RowsWritten
      <3> QED BY <3>1, <3>2
    <2>4. ASSUME NEW x \in manifests' \ manifests PROVE d \notin Platforms[x]
      <3>1. w.kind = "manifest" /\ x = w.x BY <1>9, <2>4 DEF RowsWritten
      <3> QED BY <1>5, <2>2, <3>1 DEF Ready
    <2>5. ASSUME NEW p \in Places, NEW r \in referrers'[p] PROVE r \in referrers[p] \/ r[2] # d
      <3>1. referrers'[p] = IF w.kind = "referrer" /\ p = w.place THEN referrers[p] \cup {<<w.x, w.y>>} ELSE referrers[p]
        BY <1>9 DEF RowsWritten
      <3>2. w.kind = "referrer" => w.y \in needs BY <1>5 DEF Ready
      <3>3. r \in referrers[p] \/ (w.kind = "referrer" /\ r = <<w.x, w.y>>) BY <2>5, <3>1
      <3> QED BY <2>2, <3>2, <3>3
    <2> QED BY <2>1, <2>3, <2>4, <2>5 DEF NothingNew
  <1>13. JobSound(c)'
    <2>1. CASE Len(todo) = 1 BY <1>7, <2>1, IdleIsSound
    <2>2. CASE Len(todo) # 1
      <3>1. PICK rest : rest = Tail(todo) OBVIOUS
      <3>2. /\ rest \in Seq(AnyWrite) /\ rest # <<>>
            /\ \A i \in 1 .. Len(rest) : i + 1 \in 1 .. Len(todo)
        <4>0. todo \in Seq(AnyWrite) /\ todo # <<>> BY <1>3
        <4>1. PICK n \in Nat : n = Len(todo) /\ n # 0 /\ n # 1
          <5>1. Len(todo) \in Nat BY <4>0, LenProperties
          <5>2. Len(todo) # 0 BY <4>0, EmptySeq
          <5> QED BY <5>1, <5>2, <2>2
        <4>2. rest \in Seq(AnyWrite) /\ Len(rest) = n - 1 BY <1>3, <3>1, <4>1, HeadTailProperties
        <4> QED BY <4>1, <4>2
      <3>3. ASSUME NEW i \in 1 .. Len(rest) PROVE Prepared(needs, rest, i)'
        <4>1. PICK k : k = i + 1 /\ k \in 1 .. Len(todo) BY <3>2
        <4>2. todo[k].place \in Places BY <1>3, <4>1 DEF AnyWrite
        <4>3. Prepared(needs, todo, k)' BY <1>3, <1>11, <4>1, <4>2, PreparedKept
        <4>4. Prepared(needs, todo, i + 1)' BY <4>1, <4>3
        <4> QED BY <1>3, <1>4, <1>9, <3>1, <4>4, TailIsPrepared
      <3>4. job'[c] = Writes(needs, rest) BY <1>7, <2>2, <3>1
      <3> QED BY <3>2, <3>3, <3>4, WritesAreSound
    <2> QED BY <2>1, <2>2
  <1>14. MeetingsAreTorn'
    <2>1. torn \subseteq torn' BY <1>9 DEF RowsWritten
    <2>2. CASE Len(todo) = 1 BY <1>7, <2>1, <2>2, MeetingsKept DEF RegistryInv, JobsSound, Idle, DeleteSteps
    <2>3. CASE Len(todo) # 1
      <3>1. job'[c].at = "write" /\ job'[c].needs = needs BY <1>7, <2>3 DEF Writes
      <3> QED BY <1>1, <1>3, <1>7, <2>1, <3>1, MeetingsKept DEF RegistryInv, JobsSound, DeleteSteps
    <2> QED BY <2>2, <2>3
  <1>15. torn \subseteq torn' BY <1>9 DEF RowsWritten
  <1> QED BY <1>7, <1>10, <1>11, <1>12, <1>13, <1>14, <1>15, RequestMoves

--------------------------------
(* Deletes. *)

\* Rows that go, of tags, of blob memberships and of referrers, break no reference.
LEMMA RowsGo ==
  ASSUME RegistryInv, NEW c \in Clients, Moves(c), UNCHANGED <<blobs, manifests, member, torn>>, RegistryTypeOK',
         \A p \in Places : linked'[p] \subseteq linked[p],
         \A p \in Places : referrers'[p] \subseteq referrers[p],
         \A p \in Places, t \in Tags : tags'[p][t] \in {tags[p][t], None},
         JobSound(c)', MeetingsAreTorn'
  PROVE  RegistryInv'
  <1>1. LayersStored' BY DEF RegistryInv, ImagesAreWhole, LayersStored
  <1>2. ReferencesResolve' BY DEF RegistryInv, ImagesAreWhole, ReferencesResolve
  <1>3. TagsArePullable' BY DEF RegistryInv, ImagesAreWhole, TagsArePullable
  <1>4. ImagesAreWhole' BY <1>1, <1>2, <1>3 DEF ImagesAreWhole
  <1>5. \A n : StoreKept(n) BY DEF StoreKept, Stored, Listed
  <1>6. \A d : NothingNew(d) BY DEF NothingNew
  <1> QED BY <1>4, <1>5, <1>6, RequestMoves

LEMMA NoRequest ==
  ASSUME RegistryInv, NEW c \in Clients, At(c, "idle"), UNCHANGED <<job, torn>>
  PROVE  Moves(c) /\ JobSound(c)' /\ MeetingsAreTorn' /\ DOMAIN job' = Clients
  <1>1. job[c] = Idle
    BY DEF RegistryInv, JobsSound, JobSound, JobShape, At, IsCheck, IsWrite, IsUntag, IsDelete, DeleteSteps
  <1>2. job'[c] = Idle BY <1>1
  <1>3. JobSound(c)' BY <1>2, IdleIsSound
  <1>4. Moves(c) /\ DOMAIN job' = Clients BY DEF Moves, RegistryInv, JobsSound
  <1>5. MeetingsAreTorn' BY DEF RegistryInv, JobsSound, MeetingsAreTorn
  <1> QED BY <1>3, <1>4, <1>5

LEMMA DeleteBlobKeeps ==
  ASSUME RegistryInv, NEW c \in Clients, NEW p \in Places, NEW b \in Blobs, DeleteBlob(c, p, b)
  PROVE  RegistryInv'
  <1>1. At(c, "idle") /\ UNCHANGED <<blobs, manifests, member, tags, referrers, job, torn>> BY DEF DeleteBlob
  <1>2. Moves(c) /\ JobSound(c)' /\ MeetingsAreTorn' /\ DOMAIN job' = Clients BY <1>1, NoRequest
  <1>3. RegistryTypeOK BY DEF RegistryInv, ImagesAreWhole, LayersStored
  <1>4. linked' = [linked EXCEPT ![p] = linked[p] \ {b}] /\ linked \in [Places -> SUBSET Blobs]
    BY <1>3 DEF DeleteBlob, RegistryTypeOK
  <1>5. RegistryTypeOK' BY <1>1, <1>2, <1>3, <1>4 DEF RegistryTypeOK
  <1>6. \A q \in Places : linked'[q] \subseteq linked[q] BY <1>4
  <1> QED BY <1>1, <1>2, <1>5, <1>6, RowsGo

LEMMA DeleteTagKeeps ==
  ASSUME RegistryInv, NEW c \in Clients, NEW p \in Places, NEW t \in Tags, DeleteTag(c, p, t)
  PROVE  RegistryInv'
  <1>1. At(c, "idle") /\ UNCHANGED <<blobs, manifests, member, linked, referrers, job, torn>> BY DEF DeleteTag
  <1>2. Moves(c) /\ JobSound(c)' /\ MeetingsAreTorn' /\ DOMAIN job' = Clients BY <1>1, NoRequest
  <1>3. RegistryTypeOK BY DEF RegistryInv, ImagesAreWhole, LayersStored
  <1>4. PICK row : row = [tags[p] EXCEPT ![t] = None] OBVIOUS
  <1>5. tags' = [tags EXCEPT ![p] = row] /\ tags \in [Places -> [Tags -> Manifests \cup {None}]]
    BY <1>3, <1>4 DEF DeleteTag, RegistryTypeOK
  <1>6. row \in [Tags -> Manifests \cup {None}] /\ \A s \in Tags : row[s] \in {tags[p][s], None} BY <1>4, <1>5
  <1>7. tags' \in [Places -> [Tags -> Manifests \cup {None}]] BY <1>5, <1>6
  <1>8. \A q \in Places, s \in Tags : tags'[q][s] \in {tags[q][s], None} BY <1>5, <1>6
  <1>9. RegistryTypeOK' BY <1>1, <1>2, <1>3, <1>7 DEF RegistryTypeOK
  <1> QED BY <1>1, <1>2, <1>8, <1>9, RowsGo

\* Pushing sees every push: one that the delete meets makes the digest torn.
LEMMA DeleteManifestKeeps ==
  ASSUME RegistryInv, NEW c \in Clients, NEW p \in Places, NEW m \in Manifests, DeleteManifest(c, p, m)
  PROVE  RegistryInv'
  <1>1. PICK next : next = [at |-> "untag", place |-> p, digest |-> m, present |-> m \in manifests] OBVIOUS
  <1>2. Goto(c, next) /\ UNCHANGED store /\ torn' = IF Pushing(m) THEN torn \cup {m} ELSE torn
    BY <1>1 DEF DeleteManifest
  <1>3. Moves(c) /\ job'[c] = next BY <1>2, GotoMoves DEF RegistryInv, JobsSound
  <1>4. torn \subseteq torn' /\ torn' \subseteq Manifests
    BY <1>2 DEF RegistryInv, ImagesAreWhole, LayersStored, RegistryTypeOK
  <1>5. next.at = "untag" /\ next.digest = m /\ IsUntag(next) BY <1>1 DEF IsUntag
  <1>6. JobSound(c)' BY <1>3, <1>5 DEF JobSound, JobShape, CheckSound, WriteSound, DeleteSound, DeleteSteps, At
  <1>7. MeetingsAreTorn'
    <2> SUFFICES ASSUME NEW e \in Clients, NEW f \in Clients,
                        job'[e].at \in DeleteSteps \cup {"untag"}, job'[f].at \in {"check", "write"},
                        job'[e].digest \in job'[f].needs
                 PROVE  job'[e].digest \in torn'
      BY DEF MeetingsAreTorn
    <2>1. f # c /\ job'[f] = job[f] BY <1>3, <1>5 DEF Moves
    <2>2. CASE e # c
      <3>1. job'[e] = job[e] BY <1>3, <2>2 DEF Moves
      <3> QED BY <1>4, <2>1, <3>1 DEF RegistryInv, JobsSound, MeetingsAreTorn
    <2>3. CASE e = c
      <3>1. job'[e].digest = m /\ m \in job[f].needs BY <1>3, <1>5, <2>1, <2>3
      <3>2. Pushing(m) BY <2>1, <3>1 DEF Pushing
      <3> QED BY <1>2, <3>1, <3>2
    <2> QED BY <2>2, <2>3
  <1> QED BY <1>2, <1>3, <1>4, <1>6, <1>7, RowsStay

LEMMA DeleteShape ==
  ASSUME RegistryInv, NEW c \in Clients, job[c].at \in DeleteSteps
  PROVE  IsDelete(job[c])
  BY DEF RegistryInv, JobsSound, JobSound, JobShape, Idle, IsCheck, IsWrite, IsUntag, DeleteSteps

\* What a delete by digest knows after its next step.
Ruled(at, p, d, over) ==
    d \notin torn =>
        /\ at # "prune" => NoTagHere(p, d)
        /\ at = "unlink" \/ (at = "scan" /\ over # "tags") => \A q \in Places : NoTagHere(q, d)
        /\ at = "unlink" \/ (at = "scan" /\ over \notin {"tags", "manifests"}) => NoParent(d)
        /\ at = "unlink" => NoReferrer(d)
        /\ at = "prune" => NoTagLeadsTo(p, d)

LEMMA DeleteGoesOn ==
  ASSUME NEW c \in Clients, NEW at \in DeleteSteps, NEW p \in Places, NEW d \in Manifests,
         NEW over \in {"tags", "manifests", "referrers"},
         job'[c] = [at |-> at, place |-> p, digest |-> d, over |-> over], Ruled(at, p, d, over)'
  PROVE  JobSound(c)'
  <1>1. PICK j : j = job'[c] OBVIOUS
  <1>2. j.at = at /\ j.place = p /\ j.digest = d /\ j.over = over BY <1>1
  <1>3. IsDelete(j) BY <1>1, <1>2 DEF IsDelete
  <1>4. DeleteSound(c)' BY <1>1, <1>2 DEF DeleteSound, Ruled
  <1>5. j.at \notin {"check", "write"} BY <1>2 DEF DeleteSteps
  <1> QED BY <1>1, <1>3, <1>4, <1>5 DEF JobSound, JobShape, CheckSound, WriteSound, At

LEMMA DeleteKnows ==
  ASSUME RegistryInv, NEW c \in Clients, NEW at \in DeleteSteps, At(c, at)
  PROVE  /\ job[c].place \in Places /\ job[c].digest \in Manifests
         /\ job[c].over \in {"tags", "manifests", "referrers"}
         /\ job[c] = [at |-> at, place |-> job[c].place, digest |-> job[c].digest, over |-> job[c].over]
         /\ Ruled(at, job[c].place, job[c].digest, job[c].over)
  <1>1. job[c].at = at BY DEF At
  <1>2. IsDelete(job[c]) BY <1>1, DeleteShape
  <1>3. DeleteSound(c) BY DEF RegistryInv, JobsSound, JobSound
  <1> QED BY <1>1, <1>2, <1>3 DEF IsDelete, DeleteSound, Ruled

LEMMA UntagKeeps ==
  ASSUME RegistryInv, NEW c \in Clients, Untag(c)
  PROVE  RegistryInv'
  <1>1. PICK p, d : p = job[c].place /\ d = job[c].digest OBVIOUS
  <1>2. job[c].at = "untag" BY DEF Untag, At
  <1>3. p \in Places /\ d \in Manifests /\ d # None
    <2>1. IsUntag(job[c])
      BY <1>2 DEF RegistryInv, JobsSound, JobSound, JobShape, Idle, IsCheck, IsWrite, IsDelete, DeleteSteps
    <2> QED BY <1>1, <2>1, OciRegistryAssumption DEF IsUntag
  <1>4. PICK at \in {"scan", "reach"} : at = IF job[c].present THEN "scan" ELSE "reach" OBVIOUS
  <1>5. PICK next : next = [at |-> at, place |-> p, digest |-> d, over |-> "tags"] OBVIOUS
  <1>6. Goto(c, next) /\ UNCHANGED <<blobs, manifests, member, linked, torn>> BY <1>1, <1>4, <1>5 DEF Untag
  <1>7. Moves(c) /\ job'[c] = next BY <1>6, GotoMoves DEF RegistryInv, JobsSound
  <1>8. RegistryTypeOK BY DEF RegistryInv, ImagesAreWhole, LayersStored
  <1>9. PICK row : row = [t \in Tags |-> IF tags[p][t] = d THEN None ELSE tags[p][t]] OBVIOUS
  <1>10. tags \in [Places -> [Tags -> Manifests \cup {None}]] /\ referrers \in [Places -> SUBSET (Manifests \X Manifests)]
    BY <1>8 DEF RegistryTypeOK
  <1>11. tags' = [tags EXCEPT ![p] = row] BY <1>1, <1>9 DEF Untag
  <1>12. referrers' = [referrers EXCEPT ![p] = {r \in referrers[p] : d \notin {r[1], r[2]}}] BY <1>1 DEF Untag
  <1>13. row \in [Tags -> Manifests \cup {None}] /\ \A t \in Tags : row[t] \in {tags[p][t], None} /\ row[t] # d
    BY <1>3, <1>9, <1>10
  <1>14. /\ tags' \in [Places -> [Tags -> Manifests \cup {None}]]
         /\ \A q \in Places, t \in Tags : tags'[q][t] \in {tags[q][t], None}
         /\ \A t \in Tags : tags'[p][t] # d
    BY <1>3, <1>10, <1>11, <1>13
  <1>15. /\ referrers' \in [Places -> SUBSET (Manifests \X Manifests)]
         /\ \A q \in Places : referrers'[q] \subseteq referrers[q]
    BY <1>3, <1>10, <1>12
  <1>16. RegistryTypeOK' BY <1>6, <1>7, <1>8, <1>14, <1>15 DEF RegistryTypeOK, Moves
  <1>17. JobSound(c)'
    <2>1. at \in DeleteSteps /\ "tags" \in {"tags", "manifests", "referrers"} BY DEF DeleteSteps
    <2>2. Ruled(at, p, d, "tags")' BY <1>14 DEF Ruled, NoTagHere
    <2> QED BY <1>3, <1>5, <1>7, <2>1, <2>2, DeleteGoesOn
  <1>18. MeetingsAreTorn'
    <2>1. next.at \in DeleteSteps /\ next.at \notin {"check", "write"} /\ next.digest = d BY <1>5 DEF DeleteSteps
    <2> QED BY <1>1, <1>2, <1>6, <1>7, <2>1, MeetingsKept DEF RegistryInv, JobsSound
  <1>19. \A q \in Places : linked'[q] \subseteq linked[q] BY <1>6
  <1> QED BY <1>6, <1>7, <1>14, <1>15, <1>16, <1>17, <1>18, <1>19, RowsGo

\* A scan that finds nothing adds to what is ruled out; one that finds a reference ends the scans.
LEMMA ScanKeeps ==
  ASSUME RegistryInv, NEW c \in Clients, Scan(c)
  PROVE  RegistryInv'
  <1>1. PICK p, d, over : p = job[c].place /\ d = job[c].digest /\ over = job[c].over OBVIOUS
  <1>2. At(c, "scan") /\ "scan" \in DeleteSteps /\ UNCHANGED <<store, torn>> BY DEF Scan, DeleteSteps
  <1>3. /\ p \in Places /\ d \in Manifests /\ over \in {"tags", "manifests", "referrers"}
        /\ job[c] = [at |-> "scan", place |-> p, digest |-> d, over |-> over] /\ Ruled("scan", p, d, over)
    BY <1>1, <1>2, DeleteKnows
  <1>4. PICK at, left :
          /\ at = IF ReferencedBy(over, d) THEN "reach" ELSE IF over = "referrers" THEN "unlink" ELSE "scan"
          /\ left = IF ~ReferencedBy(over, d) /\ over = "tags" THEN "manifests"
                    ELSE IF ~ReferencedBy(over, d) /\ over = "manifests" THEN "referrers" ELSE "tags"
    OBVIOUS
  <1>5. PICK next : next = [at |-> at, place |-> p, digest |-> d, over |-> left] OBVIOUS
  <1>6. Goto(c, next)
    <2>1. PICK j : j = [at |-> "scan", place |-> p, digest |-> d, over |-> over] OBVIOUS
    <2>2. Goto(c, IF ReferencedBy(over, d) THEN [j EXCEPT !.at = "reach", !.over = "tags"]
                  ELSE IF over = "tags" THEN [j EXCEPT !.over = "manifests"]
                  ELSE IF over = "manifests" THEN [j EXCEPT !.over = "referrers"]
                  ELSE [j EXCEPT !.at = "unlink", !.over = "tags"])
      BY <1>1, <1>3, <2>1 DEF Scan
    <2>3. \A a \in {"reach", "unlink"} :
            [j EXCEPT !.at = a, !.over = "tags"] = [at |-> a, place |-> p, digest |-> d, over |-> "tags"]
      <3> TAKE a \in {"reach", "unlink"}
      <3>1. PICK k : k = [j EXCEPT !.at = a, !.over = "tags"] OBVIOUS
      <3>2. k \in [at : {a}, place : {p}, digest : {d}, over : {"tags"}] BY <2>1, <3>1
      <3> QED BY <3>1, <3>2
    <2>4. /\ [j EXCEPT !.over = "manifests"] = [at |-> "scan", place |-> p, digest |-> d, over |-> "manifests"]
          /\ [j EXCEPT !.over = "referrers"] = [at |-> "scan", place |-> p, digest |-> d, over |-> "referrers"]
      BY <2>1
    <2> QED BY <1>3, <1>4, <1>5, <2>2, <2>3, <2>4
  <1>7. job'[c] = next BY <1>6, GotoMoves DEF RegistryInv, JobsSound
  <1>8. at \in DeleteSteps /\ left \in {"tags", "manifests", "referrers"} BY <1>4 DEF DeleteSteps
  <1>9. Ruled(at, p, d, left)
    <2> SUFFICES ASSUME d \notin torn PROVE Ruled(at, p, d, left) BY DEF Ruled
    <2>1. /\ NoTagHere(p, d)
          /\ over # "tags" => \A q \in Places : NoTagHere(q, d)
          /\ over \notin {"tags", "manifests"} => NoParent(d)
      BY <1>3 DEF Ruled
    <2>2. CASE ReferencedBy(over, d) BY <1>4, <2>1, <2>2 DEF Ruled
    <2>3. CASE ~ReferencedBy(over, d) /\ over = "tags"
      <3>1. \A q \in Places : NoTagHere(q, d) BY <2>3 DEF ReferencedBy, NoTagHere
      <3> QED BY <1>4, <2>1, <2>3, <3>1 DEF Ruled
    <2>4. CASE ~ReferencedBy(over, d) /\ over = "manifests"
      <3>1. NoParent(d) BY <2>4 DEF ReferencedBy, NoParent
      <3> QED BY <1>4, <2>1, <2>4, <3>1 DEF Ruled
    <2>5. CASE ~ReferencedBy(over, d) /\ over = "referrers"
      <3>1. NoReferrer(d) BY <2>5 DEF ReferencedBy, NoReferrer
      <3> QED BY <1>4, <2>1, <2>5, <3>1 DEF Ruled
    <2> QED BY <1>3, <2>2, <2>3, <2>4, <2>5
  <1>10. Ruled(at, p, d, left)' BY <1>2, <1>9 DEF Ruled, NoTagHere, NoParent, NoReferrer, NoTagLeadsTo, store
  <1>11. JobSound(c)' BY <1>3, <1>5, <1>7, <1>8, <1>10, DeleteGoesOn
  <1>12. /\ next.at \notin {"check", "write"} /\ next.digest = job[c].digest
         /\ job[c].at \in DeleteSteps
    BY <1>1, <1>2, <1>5, <1>8 DEF DeleteSteps, At
  <1> QED BY <1>2, <1>6, <1>11, <1>12, GoesOn

\* The record goes when nothing references it, whatever else the requests in progress do.
LEMMA UnlinkKeeps ==
  ASSUME RegistryInv, NEW c \in Clients, Unlink(c)
  PROVE  RegistryInv'
  <1>1. PICK p, d, over : p = job[c].place /\ d = job[c].digest /\ over = job[c].over OBVIOUS
  <1>2. /\ At(c, "unlink") /\ "unlink" \in DeleteSteps
        /\ UNCHANGED <<blobs, member, linked, tags, referrers, torn>> /\ manifests' = manifests \ {d}
    BY <1>1 DEF Unlink, DeleteSteps
  <1>3. /\ p \in Places /\ d \in Manifests /\ over \in {"tags", "manifests", "referrers"}
        /\ job[c] = [at |-> "unlink", place |-> p, digest |-> d, over |-> over] /\ Ruled("unlink", p, d, over)
    BY <1>1, <1>2, DeleteKnows
  <1>4. PICK next : next = [at |-> "reach", place |-> p, digest |-> d, over |-> over] OBVIOUS
  <1>5. Goto(c, next)
    <2>1. PICK j : j = [at |-> "unlink", place |-> p, digest |-> d, over |-> over] OBVIOUS
    <2>2. Goto(c, [j EXCEPT !.at = "reach"]) BY <1>3, <2>1 DEF Unlink
    <2>3. [j EXCEPT !.at = "reach"] = next BY <1>4, <2>1
    <2> QED BY <2>2, <2>3
  <1>6. Moves(c) /\ job'[c] = next BY <1>5, GotoMoves DEF RegistryInv, JobsSound
  <1>7. d \notin torn =>
          /\ \A q \in Places : NoTagHere(q, d)
          /\ NoParent(d) /\ NoReferrer(d)
    BY <1>3 DEF Ruled
  <1>8. ImagesAreWhole /\ LayersStored /\ ReferencesResolve /\ TagsArePullable BY DEF RegistryInv, ImagesAreWhole
  <1>9. LayersStored'
    <2>1. DOMAIN job' = Clients BY <1>6 DEF Moves
    <2> QED BY <1>2, <1>8, <2>1 DEF LayersStored, RegistryTypeOK
  <1>10. ReferencesResolve'
    <2>1. ASSUME NEW q \in Places, NEW t \in Tags, tags[q][t] # None PROVE tags[q][t] \in manifests' \cup torn
      BY <1>2, <1>7, <1>8, <2>1 DEF ReferencesResolve, NoTagHere
    <2>2. ASSUME NEW q \in Places, NEW r \in referrers[q] PROVE r[2] \in manifests' \cup torn
      BY <1>2, <1>7, <1>8 DEF ReferencesResolve, NoReferrer
    <2>3. ASSUME NEW m \in manifests', NEW x \in Platforms[m] PROVE x \in manifests' \cup torn
      BY <1>2, <1>7, <1>8 DEF ReferencesResolve, NoParent
    <2> QED BY <1>2, <2>1, <2>2, <2>3 DEF ReferencesResolve
  <1>11. TagsArePullable' BY <1>2, <1>8 DEF TagsArePullable
  <1>12. ASSUME NEW e \in Clients, e # c, job[e].at \in {"check", "write"} PROVE StoreKept(job[e].needs)
    <2>1. d \in job[e].needs => d \in torn BY <1>1, <1>2, <1>12 DEF RegistryInv, JobsSound, MeetingsAreTorn, At
    <2> QED BY <1>2, <2>1 DEF StoreKept, Stored, Listed
  <1>13. \A x : NothingNew(x) BY <1>2 DEF NothingNew
  <1>14. JobSound(c)'
    <2>1. Ruled("reach", p, d, over)' BY <1>2, <1>3, <1>7 DEF Ruled, NoTagHere
    <2>2. "reach" \in DeleteSteps BY DEF DeleteSteps
    <2> QED BY <1>3, <1>4, <1>6, <2>1, <2>2, DeleteGoesOn
  <1>15. MeetingsAreTorn'
    <2>1. next.at \in DeleteSteps /\ next.at \notin {"check", "write"} /\ next.digest = d BY <1>4 DEF DeleteSteps
    <2>2. job[c].at \in DeleteSteps BY <1>2 DEF At
    <2> QED BY <1>1, <1>2, <1>6, <2>1, <2>2, MeetingsKept DEF RegistryInv, JobsSound
  <1>16. ImagesAreWhole' BY <1>9, <1>10, <1>11 DEF ImagesAreWhole
  <1> QED BY <1>2, <1>6, <1>12, <1>13, <1>14, <1>15, <1>16, RequestMoves

\* A tag's target is stored and a member: the tag leads to the digest only through it.
LEMMA ReachKeeps ==
  ASSUME RegistryInv, NEW c \in Clients, Reach(c)
  PROVE  RegistryInv'
  <1>1. PICK p, d, over : p = job[c].place /\ d = job[c].digest /\ over = job[c].over OBVIOUS
  <1>2. At(c, "reach") /\ "reach" \in DeleteSteps /\ UNCHANGED <<store, torn>> BY DEF Reach, DeleteSteps
  <1>3. /\ p \in Places /\ d \in Manifests /\ over \in {"tags", "manifests", "referrers"}
        /\ job[c] = [at |-> "reach", place |-> p, digest |-> d, over |-> over] /\ Ruled("reach", p, d, over)
    BY <1>1, <1>2, DeleteKnows
  <1>4. CASE ReachableAsChild(p, d)
    <2>1. Done(c) BY <1>1, <1>4 DEF Reach
    <2> QED BY <1>2, <2>1, RequestEnds
  <1>5. CASE ~ReachableAsChild(p, d)
    <2>1. PICK next : next = [at |-> "prune", place |-> p, digest |-> d, over |-> over] OBVIOUS
    <2>2. Goto(c, next)
      <3>1. PICK j : j = [at |-> "reach", place |-> p, digest |-> d, over |-> over] OBVIOUS
      <3>2. Goto(c, [j EXCEPT !.at = "prune"]) BY <1>1, <1>3, <1>5, <3>1 DEF Reach
      <3>3. [j EXCEPT !.at = "prune"] = next BY <2>1, <3>1
      <3> QED BY <3>2, <3>3
    <2>3. job'[c] = next BY <2>2, GotoMoves DEF RegistryInv, JobsSound
    <2>4. ASSUME d \notin torn PROVE NoTagLeadsTo(p, d)
      <3> SUFFICES ASSUME NEW t \in Tags, NEW y, y = tags[p][t], y \notin torn \cup {None}, d \in Needs(y)
                   PROVE  FALSE
        BY DEF NoTagLeadsTo
      <3>1. y # d BY <1>3, <2>4 DEF Ruled, NoTagHere
      <3>2. y \in manifests BY <1>3 DEF RegistryInv, ImagesAreWhole, ReferencesResolve
      <3>3. y \in member[p] BY <1>3 DEF RegistryInv, ImagesAreWhole, TagsArePullable, Needs
      <3>4. d \in Platforms[y] BY <3>1 DEF Needs
      <3> QED BY <1>5, <3>1, <3>2, <3>3, <3>4 DEF ReachableAsChild
    <2>5. Ruled("prune", p, d, over)' BY <1>2, <2>4 DEF Ruled, NoTagLeadsTo, store
    <2>6. "prune" \in DeleteSteps BY DEF DeleteSteps
    <2>7. JobSound(c)' BY <1>3, <2>1, <2>3, <2>5, <2>6, DeleteGoesOn
    <2>8. /\ next.at \notin {"check", "write"} /\ next.digest = job[c].digest
          /\ job[c].at \in DeleteSteps
      BY <1>1, <1>2, <2>1 DEF At
    <2> QED BY <1>2, <2>2, <2>7, <2>8, GoesOn
  <1> QED BY <1>4, <1>5

\* No tag of the place leads to the digest, and no push that is going to set one needs it.
LEMMA PruneKeeps ==
  ASSUME RegistryInv, NEW c \in Clients, Prune(c)
  PROVE  RegistryInv'
  <1>1. PICK p, d, over : p = job[c].place /\ d = job[c].digest /\ over = job[c].over OBVIOUS
  <1>2. /\ At(c, "prune") /\ "prune" \in DeleteSteps /\ Done(c)
        /\ UNCHANGED <<blobs, manifests, linked, tags, referrers, torn>>
    BY DEF Prune, DeleteSteps
  <1>3. p \in Places /\ d \in Manifests /\ Ruled("prune", p, d, over) BY <1>1, <1>2, DeleteKnows
  <1>4. Moves(c) /\ job'[c] = Idle BY <1>2, GotoMoves DEF RegistryInv, JobsSound, Done
  <1>5. ImagesAreWhole /\ LayersStored /\ ReferencesResolve /\ TagsArePullable /\ RegistryTypeOK
    BY DEF RegistryInv, ImagesAreWhole, LayersStored
  <1>6. member' = [member EXCEPT ![p] = member[p] \ {d}] /\ member \in [Places -> SUBSET Manifests]
    BY <1>1, <1>5 DEF Prune, RegistryTypeOK
  <1>7. /\ member' \in [Places -> SUBSET Manifests]
        /\ \A q \in Places : member'[q] = IF q = p THEN member[q] \ {d} ELSE member[q]
    BY <1>3, <1>6
  <1>8. LayersStored'
    <2>1. DOMAIN job' = Clients BY <1>4 DEF Moves
    <2> QED BY <1>2, <1>5, <1>7, <2>1 DEF LayersStored, RegistryTypeOK
  <1>9. ReferencesResolve' BY <1>2, <1>5 DEF ReferencesResolve
  <1>10. TagsArePullable'
    <2>1. ASSUME NEW q \in Places, NEW t \in Tags, NEW y, y = tags[q][t], y \notin torn \cup {None}
          PROVE  Needs(y) \subseteq member'[q] \cup torn
      <3>1. Needs(y) \subseteq member[q] \cup torn BY <1>5, <2>1 DEF TagsArePullable
      <3>2. q = p /\ d \notin torn => d \notin Needs(y) BY <1>3, <2>1 DEF Ruled, NoTagLeadsTo
      <3> QED BY <1>7, <3>1, <3>2
    <2> QED BY <1>2, <2>1 DEF TagsArePullable
  <1>11. ASSUME NEW e \in Clients, e # c, job[e].at \in {"check", "write"} PROVE StoreKept(job[e].needs)
    <2>1. d \in job[e].needs => d \in torn BY <1>1, <1>2, <1>11 DEF RegistryInv, JobsSound, MeetingsAreTorn, At
    <2> QED BY <1>2, <1>7, <2>1 DEF StoreKept, Stored, Listed
  <1>12. \A x : NothingNew(x) BY <1>2 DEF NothingNew
  <1>13. JobSound(c)' BY <1>4, IdleIsSound
  <1>14. MeetingsAreTorn' BY <1>2, <1>4, MeetingsKept DEF RegistryInv, JobsSound, Idle, DeleteSteps
  <1>15. ImagesAreWhole' BY <1>8, <1>9, <1>10 DEF ImagesAreWhole
  <1> QED BY <1>2, <1>4, <1>11, <1>12, <1>13, <1>14, <1>15, RequestMoves

--------------------------------
\* After a restart no request knows anything; a purge keeps the blobs that something names.
LEMMA RestartKeeps ==
  ASSUME RegistryInv, NEW purged \in BOOLEAN, Restart(purged)
  PROVE  RegistryInv'
  <1>1. /\ job' = [c \in Clients |-> Idle] /\ UNCHANGED <<manifests, member, linked, tags, referrers, torn>>
        /\ blobs' = IF purged THEN blobs \cap ReferencedBlobs ELSE blobs
    BY DEF Restart
  <1>2. /\ \A c \in Clients : job'[c] = Idle
        /\ job' = [c \in Clients |-> job'[c]] /\ DOMAIN job' = Clients
    BY <1>1
  <1>3. \A c \in Clients : JobSound(c)' BY <1>2, IdleIsSound
  <1>4. MeetingsAreTorn' BY <1>2 DEF MeetingsAreTorn, Idle, DeleteSteps
  <1>5. LayersStored /\ ReferencesResolve /\ TagsArePullable BY DEF RegistryInv, ImagesAreWhole
  <1>6. /\ \A p \in Places : linked[p] \subseteq blobs'
        /\ \A m \in manifests : Layers[m] \subseteq blobs'
    <2>1. ASSUME NEW p \in Places PROVE linked[p] \subseteq blobs \cap ReferencedBlobs
      BY <1>5 DEF LayersStored, ReferencedBlobs
    <2>2. ASSUME NEW m \in manifests PROVE Layers[m] \subseteq blobs \cap ReferencedBlobs
      BY <1>5 DEF LayersStored, ReferencedBlobs
    <2> QED BY <1>1, <2>1, <2>2
  <1>7. LayersStored' BY <1>1, <1>2, <1>5, <1>6 DEF LayersStored, RegistryTypeOK
  <1>8. ReferencesResolve' /\ TagsArePullable' BY <1>1, <1>5 DEF ReferencesResolve, TagsArePullable
  <1> QED BY <1>2, <1>3, <1>4, <1>7, <1>8 DEF RegistryInv, JobsSound, ImagesAreWhole

LEMMA InitHolds == RegistryInit => RegistryInv
  <1> SUFFICES ASSUME RegistryInit PROVE RegistryInv OBVIOUS
  <1>1. \A c \in Clients : job[c] = Idle BY DEF RegistryInit
  <1>2. \A c \in Clients : JobSound(c)
    BY <1>1 DEF JobSound, JobShape, CheckSound, WriteSound, DeleteSound, Idle, At, DeleteSteps
  <1>3. MeetingsAreTorn BY <1>1 DEF MeetingsAreTorn, Idle, DeleteSteps
  <1>4. job = [c \in Clients |-> job[c]] BY DEF RegistryInit
  <1>5. LayersStored BY DEF RegistryInit, LayersStored, RegistryTypeOK
  <1>6. ReferencesResolve /\ TagsArePullable BY DEF RegistryInit, ReferencesResolve, TagsArePullable
  <1> QED BY <1>2, <1>3, <1>4, <1>5, <1>6 DEF RegistryInv, JobsSound, ImagesAreWhole

LEMMA StepKeeps == RegistryInv /\ [RegistryNext]_registryVars => RegistryInv'
  <1> SUFFICES ASSUME RegistryInv, [RegistryNext]_registryVars PROVE RegistryInv' OBVIOUS
  <1>1. ASSUME NEW c \in Clients, Request(c) PROVE RegistryInv'
    BY <1>1, PutManifestKeeps, PushBlobKeeps, DeleteBlobKeeps, MountBlobKeeps, DeleteTagKeeps, DeleteManifestKeeps
       DEF Request
  <1>2. ASSUME NEW c \in Clients, Step(c) PROVE RegistryInv'
    BY <1>2, CheckReferenceKeeps, NextWriteKeeps, UntagKeeps, ScanKeeps, UnlinkKeeps, ReachKeeps, PruneKeeps DEF Step
  <1>3. ASSUME NEW c \in Clients, WriteFails(c) PROVE RegistryInv' BY <1>3, RequestEnds DEF WriteFails
  <1>4. ASSUME NEW purged \in BOOLEAN, Restart(purged) PROVE RegistryInv' BY <1>4, RestartKeeps
  <1>5. CASE UNCHANGED registryVars
    BY <1>5 DEF registryVars, store, RegistryInv, JobsSound, JobSound, JobShape, CheckSound, WriteSound, DeleteSound,
                MeetingsAreTorn, ImagesAreWhole, LayersStored, RegistryTypeOK, ReferencesResolve, TagsArePullable,
                At, Prepared, Stored, Listed, NoTagHere, NoParent, NoReferrer, NoTagLeadsTo
  <1> QED BY <1>1, <1>2, <1>3, <1>4, <1>5 DEF RegistryNext

\* Whatever is pushed, mounted, deleted and purged by others, and wherever a request stops: what a repository names
\* is stored, and what a tag leads to can be pulled, except where a delete by digest met a push of the digest
\* (put_manifest and delete_manifest_by_digest of write.rs, over the transactions of store.rs).
THEOREM ImagesStayWhole == RegistrySpec => []ImagesAreWhole
  <1>1. RegistryInv => ImagesAreWhole BY DEF RegistryInv
  <1> QED BY InitHolds, StepKeeps, <1>1, PTL DEF RegistrySpec
--------------------------------
(* Upload sessions.  A session is in the map or with one request, and what   *)
(* holds of it in the map holds of it in the request's hands.                *)

UploadOwners == UploadNames \cup {""}
UploadEntry == [units : Seq(Int), live : BOOLEAN, offset : Int, name : UploadOwners, active : Int]
UploadRequest == [at : {"idle", "body", "member"}, kind : {"none", "patch", "put", "post"},
                  session : Sessions \cup {NoSession}, name : UploadOwners, entry : UploadEntry, next : Int]

(* The stage is the units up to the offset. *)
StagedInOrder(e) == e.live => Len(e.units) = e.offset /\ \A i \in 1..Len(e.units) : e.units[i] = i - 1

(* A request: its stage, where its client sends from, and what it was promised. *)
Uploading(r, told, kept) ==
    /\ r.at = "body" => StagedInOrder(r.entry) /\ (r.entry.live => r.next = r.entry.offset)
    /\ r.session # NoSession => r.entry.offset >= told[r.session]
    /\ r.at = "body" /\ r.kind \in {"patch", "put"} => r.session # NoSession
    /\ r.at = "member" => r.entry.units \in kept
    /\ r.at = "idle" => r = Resting

SessionFree(s) == uploadMap[s] = NoEntry
Alone(s, c) == \A k \in UploadClients \ {c} : request[k].session # s

UploadTyped ==
    /\ uploadNow \in Int
    /\ uploadMap \in [Sessions -> UploadEntry]
    /\ request \in [UploadClients -> UploadRequest]
    /\ promised \in [Sessions -> Nat]
SessionsSound ==
    /\ \A s \in Open : StagedInOrder(uploadMap[s]) /\ uploadMap[s].offset >= promised[s]
    /\ \A c \in UploadClients : Uploading(request[c], promised, committed)
    /\ \A c \in UploadClients : request[c].session # NoSession =>
          SessionFree(request[c].session) /\ Alone(request[c].session, c)
    /\ \A row \in belongs : row[2] \in committed
UploadInv == UploadTyped /\ SessionsSound

--------------------------------
(* Steps. *)

LEMMA RestingTyped == NoEntry \in UploadEntry /\ Resting \in UploadRequest /\ Resting.session = NoSession
                      /\ Resting.at = "idle" /\ \A told, kept : Uploading(Resting, told, kept)
<1>1. <<>> \in Seq(Int) BY EmptySeq
<1>2. NoEntry \in UploadEntry BY <1>1 DEF NoEntry, UploadEntry, UploadOwners
<1>3. Resting \in UploadRequest /\ Resting.session = NoSession /\ Resting.at = "idle"
  BY <1>2 DEF Resting, UploadRequest, UploadOwners
<1> QED BY <1>2, <1>3 DEF Uploading

LEMMA UploadFacts ==
    ASSUME UploadInv, NEW c \in UploadClients
    PROVE  /\ request[c] \in UploadRequest /\ Uploading(request[c], promised, committed)
           /\ request[c].entry \in UploadEntry /\ request[c].session \in Sessions \cup {NoSession}
           /\ request[c].session # NoSession => SessionFree(request[c].session) /\ Alone(request[c].session, c)
<1>1. request[c] \in UploadRequest BY DEF UploadInv, UploadTyped
<1>2. Uploading(request[c], promised, committed)
      /\ (request[c].session # NoSession => SessionFree(request[c].session) /\ Alone(request[c].session, c))
  BY DEF UploadInv, SessionsSound
<1> QED BY <1>1, <1>2 DEF UploadRequest

LEMMA OpenFacts ==
    ASSUME UploadInv, NEW s \in Open
    PROVE  /\ s \in Sessions /\ uploadMap[s] \in UploadEntry /\ StagedInOrder(uploadMap[s])
           /\ uploadMap[s].offset >= promised[s] /\ uploadMap[s].offset \in Int /\ promised[s] \in Nat
           /\ \A c \in UploadClients : request[c].session # s
<1>1. s \in Sessions /\ uploadMap[s] # NoEntry BY DEF Open
<1>2. uploadMap[s] \in UploadEntry /\ promised[s] \in Nat BY <1>1 DEF UploadInv, UploadTyped
<1>3. StagedInOrder(uploadMap[s]) /\ uploadMap[s].offset >= promised[s] BY DEF UploadInv, SessionsSound
<1>4. \A c \in UploadClients : request[c].session # s
  BY <1>1, SessionAssumption DEF UploadInv, SessionsSound, SessionFree
<1> QED BY <1>1, <1>2, <1>3, <1>4 DEF UploadEntry

\* What is written for a session, and that the requests afterwards hold what they held, but for that session, which
\* one of them has if it is not in the map.
Written(s, e, told) == e # NoEntry => StagedInOrder(e) /\ e.offset >= told[s]
Holding(old, new, s, e) ==
    \A c \in UploadClients : new[c].session # NoSession =>
        /\ new[c].session # s => new[c].session = old[c].session
        /\ new[c].session = s => e = NoEntry /\ \A k \in UploadClients \ {c} : new[k].session # s
AllUploading(new, told, kept) == \A c \in UploadClients : Uploading(new[c], told, kept)
Members(rows, kept) == \A row \in rows : row[2] \in kept

\* What is written into the map of a session that nobody holds.
LEMMA MapWritten ==
    ASSUME UploadInv, NEW s \in Sessions, NEW e \in UploadEntry, uploadMap' = [uploadMap EXCEPT ![s] = e],
           Written(s, e, promised'), Holding(request, request', s, e), AllUploading(request', promised', committed'),
           promised' \in [Sessions -> Nat], \A k \in Sessions \ {s} : promised'[k] = promised[k],
           uploadNow' \in Int, request' \in [UploadClients -> UploadRequest], Members(belongs', committed')
    PROVE  UploadInv'
<1>1. uploadMap' \in [Sessions -> UploadEntry] /\ uploadMap'[s] = e /\ \A k \in Sessions \ {s} : uploadMap'[k] = uploadMap[k]
  BY DEF UploadInv, UploadTyped
<1>2. ASSUME NEW k \in Sessions, uploadMap'[k] # NoEntry
      PROVE  StagedInOrder(uploadMap'[k]) /\ uploadMap'[k].offset >= promised'[k]
  <2>1. CASE k = s BY <1>1, <1>2, <2>1 DEF Written
  <2>2. CASE k # s
    <3>1. k \in Open /\ uploadMap'[k] = uploadMap[k] /\ promised'[k] = promised[k] BY <1>1, <1>2, <2>2 DEF Open
    <3> QED BY <3>1, OpenFacts
  <2> QED BY <2>1, <2>2
<1>3. ASSUME NEW c \in UploadClients, request'[c].session # NoSession
      PROVE  uploadMap'[request'[c].session] = NoEntry
             /\ \A k \in UploadClients \ {c} : request'[k].session # request'[c].session
  <2> DEFINE t == request'[c].session
  <2>1. CASE t = s BY <1>1, <1>3, <2>1 DEF Holding
  <2>2. CASE t # s
    <3>1. t = request[c].session BY <1>3, <2>2 DEF Holding
    <3>2. t \in Sessions /\ uploadMap[t] = NoEntry /\ \A k \in UploadClients \ {c} : request[k].session # t
      BY <1>3, <3>1, UploadFacts DEF SessionFree, Alone
    <3>3. ASSUME NEW k \in UploadClients \ {c} PROVE request'[k].session # t BY <1>3, <2>2, <3>2 DEF Holding
    <3> QED BY <1>1, <2>2, <3>2, <3>3
  <2> QED BY <2>1, <2>2
<1>4. UploadTyped' BY <1>1 DEF UploadTyped
<1>5. (\A k \in Open : StagedInOrder(uploadMap[k]) /\ uploadMap[k].offset >= promised[k])'
  BY <1>2 DEF Open, StagedInOrder
<1>6. (\A c \in UploadClients : request[c].session # NoSession =>
          SessionFree(request[c].session) /\ Alone(request[c].session, c))'
  BY <1>3 DEF SessionFree, Alone
<1>7. (\A c \in UploadClients : Uploading(request[c], promised, committed))'
  BY DEF AllUploading, Uploading, StagedInOrder
<1>8. (\A row \in belongs : row[2] \in committed)' BY DEF Members
<1> QED BY <1>4, <1>5, <1>6, <1>7, <1>8 DEF UploadInv, SessionsSound

\* One request moves; the map stays.
LEMMA UploaderMoves ==
    ASSUME UploadInv, NEW c \in UploadClients, NEW r \in UploadRequest, request' = [request EXCEPT ![c] = r],
           r.session \in {request[c].session, NoSession}, Uploading(r, promised, committed'),
           committed \subseteq committed', \A row \in belongs' : row[2] \in committed',
           UNCHANGED <<uploadNow, uploadMap, promised>>
    PROVE  UploadInv'
<1>1. request' \in [UploadClients -> UploadRequest] /\ request'[c] = r
      /\ \A k \in UploadClients \ {c} : request'[k] = request[k]
  BY DEF UploadInv, UploadTyped
<1>2. ASSUME NEW k \in UploadClients PROVE Uploading(request'[k], promised, committed')
  <2>1. CASE k = c BY <1>1, <2>1
  <2>2. CASE k # c
    <3>1. Uploading(request[k], promised, committed) /\ request'[k] = request[k] BY <1>1, <2>2, UploadFacts
    <3> QED BY <3>1 DEF Uploading
  <2> QED BY <2>1, <2>2
<1>3. ASSUME NEW k \in UploadClients, request'[k].session # NoSession
      PROVE  SessionFree(request'[k].session) /\ \A l \in UploadClients \ {k} : request'[l].session # request'[k].session
  <2>1. request'[k].session = request[k].session BY <1>1, <1>3
  <2>2. SessionFree(request[k].session) /\ \A l \in UploadClients \ {k} : request[l].session # request[k].session
    BY <1>3, <2>1, UploadFacts DEF Alone
  <2>3. ASSUME NEW l \in UploadClients \ {k} PROVE request'[l].session # request'[k].session BY <1>1, <1>3, <2>1, <2>2
  <2> QED BY <2>1, <2>2, <2>3
<1>4. UploadTyped' BY <1>1 DEF UploadInv, UploadTyped
<1>5. (\A s \in Open : StagedInOrder(uploadMap[s]) /\ uploadMap[s].offset >= promised[s])'
  BY DEF UploadInv, SessionsSound, Open, StagedInOrder
<1>6. (\A k \in UploadClients : request[k].session # NoSession =>
          SessionFree(request[k].session) /\ Alone(request[k].session, k))'
  BY <1>3 DEF SessionFree, Alone
<1>7. (\A k \in UploadClients : Uploading(request[k], promised, committed))' BY <1>2 DEF Uploading, StagedInOrder
<1> QED BY <1>4, <1>5, <1>6, <1>7 DEF UploadInv, SessionsSound

\* The request ends; what it held is gone.
LEMMA UploaderRests ==
    ASSUME UploadInv, NEW c \in UploadClients, RequestEnded(c), \A row \in belongs' : row[2] \in committed',
           UNCHANGED <<uploadNow, uploadMap, promised, committed>>
    PROVE  UploadInv'
  BY RestingTyped, UploaderMoves DEF RequestEnded

\* The request ends and gives its session back.
LEMMA SessionReturns ==
    ASSUME UploadInv, NEW c \in UploadClients, NEW s \in Sessions, request[c].session = s, NEW e \in UploadEntry,
           PutBack(s, e), RequestEnded(c), StagedInOrder(e), e.offset = request[c].entry.offset,
           promised' = promised \/ Told(s, e.offset), UNCHANGED <<uploadNow, committed, belongs>>
    PROVE  UploadInv'
<1>1. /\ e.offset >= promised[s] /\ promised[s] \in Nat /\ e.offset \in Int
  <2>1. e.offset \in Int BY DEF UploadEntry
  <2>2. s # NoSession BY SessionAssumption
  <2> QED BY <2>1, <2>2, UploadFacts DEF Uploading, UploadInv, UploadTyped
<1>2. promised' \in [Sessions -> Nat] /\ e.offset >= promised'[s] /\ \A k \in Sessions \ {s} : promised'[k] = promised[k]
  BY <1>1 DEF Told, UploadInv, UploadTyped
<1>3. request' \in [UploadClients -> UploadRequest] /\ request'[c] = Resting
      /\ \A k \in UploadClients \ {c} : request'[k] = request[k]
  BY RestingTyped DEF RequestEnded, UploadInv, UploadTyped
<1>4. \A k \in UploadClients \ {c} : request[k].session # s BY SessionAssumption, UploadFacts DEF Alone
<1>5. ASSUME NEW k \in UploadClients PROVE Uploading(request'[k], promised', committed')
  <2>1. CASE k = c BY <1>3, <2>1, RestingTyped
  <2>2. CASE k # c
    <3>1. Uploading(request[k], promised, committed) /\ request[k].session # s
          /\ request[k].session \in Sessions \cup {NoSession} /\ request'[k] = request[k]
      BY <1>3, <1>4, <2>2, UploadFacts
    <3> QED BY <1>2, <3>1 DEF Uploading
  <2> QED BY <2>1, <2>2
<1>6. Holding(request, request', s, e)
  <2>1. \A k \in UploadClients : request'[k].session # NoSession =>
          request'[k].session = request[k].session /\ request'[k].session # s
    BY <1>3, <1>4, RestingTyped
  <2> QED BY <2>1 DEF Holding
<1>7. Written(s, e, promised') /\ AllUploading(request', promised', committed') BY <1>2, <1>5 DEF Written, AllUploading
<1>8. uploadMap' = [uploadMap EXCEPT ![s] = e] /\ uploadNow' \in Int /\ Members(belongs', committed')
  BY DEF PutBack, UploadInv, UploadTyped, SessionsSound, Members
<1> QED BY <1>2, <1>3, <1>6, <1>7, <1>8, MapWritten

\* The map is written by somebody who holds no session.
LEMMA SessionTouched ==
    ASSUME UploadInv, NEW s \in Open, NEW e \in UploadEntry, PutBack(s, e),
           e # NoEntry => StagedInOrder(e) /\ e.offset = uploadMap[s].offset,
           promised' = promised \/ Told(s, uploadMap[s].offset), UNCHANGED <<uploadNow, request, committed, belongs>>
    PROVE  UploadInv'
<1>1. s \in Sessions /\ uploadMap[s].offset >= promised[s] /\ uploadMap[s].offset \in Int /\ promised[s] \in Nat
      /\ \A k \in UploadClients : request[k].session # s
  BY OpenFacts
<1>2. promised' \in [Sessions -> Nat] /\ (e # NoEntry => e.offset >= promised'[s])
      /\ \A k \in Sessions \ {s} : promised'[k] = promised[k]
  BY <1>1 DEF Told, UploadInv, UploadTyped
<1>3. ASSUME NEW k \in UploadClients PROVE Uploading(request'[k], promised', committed')
  <2>1. Uploading(request[k], promised, committed) /\ request[k].session # s
        /\ request[k].session \in Sessions \cup {NoSession} /\ request'[k] = request[k]
    BY <1>1, UploadFacts
  <2> QED BY <1>2, <2>1 DEF Uploading
<1>4. uploadMap' = [uploadMap EXCEPT ![s] = e] /\ uploadNow' \in Int /\ Members(belongs', committed')
      /\ request' \in [UploadClients -> UploadRequest]
  BY DEF PutBack, UploadInv, UploadTyped, SessionsSound, Members
<1>5. Holding(request, request', s, e) BY <1>1 DEF Holding
<1>6. Written(s, e, promised') /\ AllUploading(request', promised', committed') BY <1>2, <1>3 DEF Written, AllUploading
<1> QED BY <1>1, <1>2, <1>4, <1>5, <1>6, MapWritten

\* Expired sessions leave the map.
LEMMA SessionsReclaimed ==
    ASSUME UploadInv, NEW T \in SUBSET Sessions,
           uploadMap' = [k \in Sessions |-> IF k \in T THEN NoEntry ELSE uploadMap[k]],
           UNCHANGED <<uploadNow, request, committed, belongs, promised>>
    PROVE  UploadInv'
<1>1. uploadMap' \in [Sessions -> UploadEntry] BY RestingTyped DEF UploadInv, UploadTyped
<1>2. UploadTyped' BY <1>1 DEF UploadInv, UploadTyped
<1>3. ASSUME NEW s \in Sessions, uploadMap'[s] # NoEntry
      PROVE  StagedInOrder(uploadMap'[s]) /\ uploadMap'[s].offset >= promised[s]
  <2>1. s \in Open /\ uploadMap'[s] = uploadMap[s] BY <1>3 DEF Open
  <2> QED BY <2>1, OpenFacts
<1>4. (\A s \in Open : StagedInOrder(uploadMap[s]) /\ uploadMap[s].offset >= promised[s])'
  BY <1>3 DEF Open, StagedInOrder
<1>5. ASSUME NEW c \in UploadClients, request[c].session # NoSession
      PROVE  uploadMap'[request[c].session] = NoEntry /\ \A k \in UploadClients \ {c} : request[k].session # request[c].session
  BY <1>5, UploadFacts DEF SessionFree, Alone
<1>6. (\A c \in UploadClients : request[c].session # NoSession =>
          SessionFree(request[c].session) /\ Alone(request[c].session, c))'
  BY <1>5 DEF SessionFree, Alone
<1>7. (\A c \in UploadClients : Uploading(request[c], promised, committed))' /\ (\A row \in belongs : row[2] \in committed)'
  BY DEF UploadInv, SessionsSound, Uploading, StagedInOrder
<1> QED BY <1>2, <1>4, <1>6, <1>7 DEF UploadInv, SessionsSound

LEMMA OpenedTyped ==
    ASSUME UploadInv, NEW name \in UploadNames
    PROVE  Opened(name) \in UploadEntry /\ Opened(name) # NoEntry /\ Opened(name).offset = 0
           /\ StagedInOrder(Opened(name)) /\ Opened(name).live
<1>1. <<>> \in Seq(Int) /\ uploadNow \in Int BY EmptySeq DEF UploadInv, UploadTyped
<1>2. Opened(name) \in UploadEntry
  <2>1. name \in UploadOwners BY DEF UploadOwners
  <2> QED BY <1>1, <2>1 DEF Opened, UploadEntry
<1>3. Opened(name).offset = 0 /\ NoEntry.offset = -1 /\ Opened(name).live /\ Opened(name).units = <<>>
  BY DEF Opened, NoEntry
<1> QED BY <1>2, <1>3 DEF StagedInOrder

\* What holds of a request that is not about a session holds whatever that session was told.
LEMMA StartSessionInv ==
    ASSUME UploadInv, NEW c \in UploadClients, NEW s \in Sessions, NEW name \in UploadNames, StartSession(c, s, name)
    PROVE  UploadInv'
<1> DEFINE e == Opened(name)
<1>1. /\ s \notin Held /\ promised' = [promised EXCEPT ![s] = 0] /\ UNCHANGED <<uploadNow, request, committed, belongs>>
      /\ uploadMap' = [k \in Sessions |-> IF k = s THEN e ELSE IF k \in Expired THEN NoEntry ELSE uploadMap[k]]
  BY DEF StartSession
<1>2. e \in UploadEntry /\ e.offset = 0 /\ StagedInOrder(e) BY OpenedTyped
<1> HIDE DEF e
<1>3. \A k \in UploadClients : request[k].session # s BY <1>1, SessionAssumption DEF Held
<1>4. uploadMap' \in [Sessions -> UploadEntry] /\ promised' \in [Sessions -> Nat] /\ promised'[s] = 0
      /\ \A k \in Sessions \ {s} : promised'[k] = promised[k]
  BY <1>1, <1>2, RestingTyped DEF UploadInv, UploadTyped
<1>5. UploadTyped' BY <1>1, <1>4 DEF UploadInv, UploadTyped
<1>6. ASSUME NEW k \in Sessions, uploadMap'[k] # NoEntry
      PROVE  StagedInOrder(uploadMap'[k]) /\ uploadMap'[k].offset >= promised'[k]
  <2>1. CASE k = s BY <1>1, <1>2, <1>4, <2>1
  <2>2. CASE k # s
    <3>1. k \in Open /\ uploadMap'[k] = uploadMap[k] /\ promised'[k] = promised[k] BY <1>1, <1>4, <1>6, <2>2 DEF Open
    <3> QED BY <3>1, OpenFacts
  <2> QED BY <2>1, <2>2
<1>7. (\A k \in Open : StagedInOrder(uploadMap[k]) /\ uploadMap[k].offset >= promised[k])'
  BY <1>6 DEF Open, StagedInOrder
<1>8. ASSUME NEW k \in UploadClients PROVE Uploading(request[k], promised', committed)
  <2>1. Uploading(request[k], promised, committed) /\ request[k].session # s
        /\ request[k].session \in Sessions \cup {NoSession}
    BY <1>3, UploadFacts
  <2> QED BY <1>4, <2>1 DEF Uploading
<1>9. ASSUME NEW k \in UploadClients, request[k].session # NoSession
      PROVE  uploadMap'[request[k].session] = NoEntry /\ \A l \in UploadClients \ {k} : request[l].session # request[k].session
  <2>1. request[k].session \in Sessions /\ request[k].session # s
        /\ uploadMap[request[k].session] = NoEntry /\ \A l \in UploadClients \ {k} : request[l].session # request[k].session
    BY <1>3, <1>9, UploadFacts DEF SessionFree, Alone
  <2> QED BY <1>1, <2>1
<1>10. (\A k \in UploadClients : request[k].session # NoSession =>
          SessionFree(request[k].session) /\ Alone(request[k].session, k))'
  BY <1>1, <1>9 DEF SessionFree, Alone
<1>11. (\A k \in UploadClients : Uploading(request[k], promised, committed))' /\ (\A row \in belongs : row[2] \in committed)'
  BY <1>1, <1>8 DEF UploadInv, SessionsSound, Uploading, StagedInOrder
<1> QED BY <1>5, <1>7, <1>10, <1>11 DEF UploadInv, SessionsSound

LEMMA StartMonolithicInv ==
    ASSUME UploadInv, NEW c \in UploadClients, NEW name \in UploadNames, StartMonolithic(c, name)
    PROVE  UploadInv'
<1> DEFINE r == [at |-> "body", kind |-> "post", session |-> NoSession, name |-> name, entry |-> Opened(name), next |-> 0]
<1>1. r \in UploadRequest /\ Uploading(r, promised, committed) /\ r.session = NoSession
  <2>1. Opened(name) \in UploadEntry /\ Opened(name).offset = 0 /\ StagedInOrder(Opened(name)) BY OpenedTyped
  <2>2. r \in UploadRequest
    <3>1. name \in UploadOwners BY DEF UploadOwners
    <3>2. NoSession \in Sessions \cup {NoSession} OBVIOUS
    <3> QED BY <2>1, <3>1, <3>2 DEF UploadRequest
  <2>3. r.at = "body" /\ r.kind = "post" /\ r.session = NoSession /\ r.entry = Opened(name) /\ r.next = 0 OBVIOUS
  <2> HIDE DEF r
  <2> QED BY <2>1, <2>2, <2>3 DEF Uploading
<1>2. request' = [request EXCEPT ![c] = r] /\ UNCHANGED <<uploadNow, uploadMap, committed, belongs, promised>>
  BY DEF StartMonolithic
<1>3. \A row \in belongs' : row[2] \in committed' BY <1>2 DEF UploadInv, SessionsSound
<1> HIDE DEF r
<1> QED BY <1>1, <1>2, <1>3, UploaderMoves

LEMMA StatusOrCancelInv ==
    ASSUME UploadInv, NEW s \in Sessions, NEW name \in UploadNames, UploadStatus(s, name) \/ CancelUpload(s, name)
    PROVE  UploadInv'
<1>1. CASE UploadStatus(s, name)
  <2> DEFINE e == [uploadMap[s] EXCEPT !.active = uploadNow]
  <2>1. s \in Open /\ PutBack(s, e) /\ Told(s, uploadMap[s].offset) /\ UNCHANGED <<uploadNow, request, committed, belongs>>
    BY <1>1 DEF UploadStatus
  <2>2. uploadMap[s] \in UploadEntry /\ StagedInOrder(uploadMap[s]) /\ uploadNow \in Int
    BY <2>1, OpenFacts DEF UploadInv, UploadTyped
  <2>3. e \in UploadEntry /\ e.offset = uploadMap[s].offset /\ e.units = uploadMap[s].units /\ e.live = uploadMap[s].live
    BY <2>2 DEF UploadEntry
  <2> HIDE DEF e
  <2>4. StagedInOrder(e) BY <2>2, <2>3 DEF StagedInOrder
  <2> QED BY <2>1, <2>3, <2>4, SessionTouched
<1>2. CASE CancelUpload(s, name) BY <1>2, RestingTyped, SessionTouched DEF CancelUpload
<1> QED BY <1>1, <1>2

LEMMA TakeSessionInv ==
    ASSUME UploadInv, NEW c \in UploadClients, NEW kind \in {"patch", "put"}, NEW s \in Sessions, NEW name \in UploadNames,
           NEW claim \in Claims, NEW next \in 0..MaxBody, TakeSession(c, kind, s, name, claim, next)
    PROVE  UploadInv'
<1> DEFINE active == IF kind = "patch" THEN uploadNow ELSE uploadMap[s].active
           e == [uploadMap[s] EXCEPT !.active = active]
           r == [at |-> "body", kind |-> kind, session |-> s, name |-> name, entry |-> e, next |-> next]
<1>1. request[c] = Resting /\ s \in Open /\ UNCHANGED <<uploadNow, committed, belongs>>
      /\ (claim # MalformedClaim => next = IF claim = NoClaim THEN uploadMap[s].offset ELSE claim)
      /\ IF ContinuesAt(claim, e.offset)
         THEN request' = [request EXCEPT ![c] = r] /\ PutBack(s, NoEntry) /\ UNCHANGED promised
         ELSE PutBack(s, e) /\ Told(s, e.offset) /\ UNCHANGED request
  BY DEF TakeSession
<1>2. uploadMap[s] \in UploadEntry /\ StagedInOrder(uploadMap[s]) /\ uploadMap[s].offset >= promised[s]
      /\ \A k \in UploadClients : request[k].session # s
  BY <1>1, OpenFacts
<1>3. active \in Int BY <1>2 DEF UploadInv, UploadTyped, UploadEntry
<1> HIDE DEF active
<1>4. e \in UploadEntry /\ e.offset = uploadMap[s].offset /\ e.units = uploadMap[s].units /\ e.live = uploadMap[s].live
  BY <1>2, <1>3 DEF UploadEntry
<1> HIDE DEF e
<1>5. StagedInOrder(e) BY <1>2, <1>4 DEF StagedInOrder
<1>6. CASE ContinuesAt(claim, e.offset)
  <2>1. next = e.offset /\ next \in Int
    <3>0. e.offset \in Int /\ e.offset >= 0
      <4>1. promised[s] \in Nat /\ uploadMap[s].offset \in Int /\ uploadMap[s].offset >= promised[s] BY <1>1, OpenFacts
      <4> QED BY <1>4, <4>1
    <3>1. NoClaim # MalformedClaim /\ e.offset # MalformedClaim BY <3>0 DEF NoClaim, MalformedClaim
    <3>2. e.offset = claim \/ claim = NoClaim BY <1>6 DEF ContinuesAt
    <3>3. next \in Int OBVIOUS
    <3>4. CASE claim = NoClaim BY <1>1, <1>4, <3>1, <3>3, <3>4
    <3>5. CASE claim # NoClaim /\ e.offset = claim
      <4>1. CASE claim = MalformedClaim BY <3>1, <3>5, <4>1
      <4>2. CASE claim # MalformedClaim BY <1>1, <3>3, <3>5, <4>2
      <4> QED BY <4>1, <4>2
    <3> QED BY <3>2, <3>4, <3>5
  <2>2. r \in UploadRequest /\ Uploading(r, promised, committed) /\ r.session = s
    <3>1. kind \in {"none", "patch", "put", "post"} /\ name \in UploadOwners /\ s \in Sessions \cup {NoSession}
      BY DEF UploadOwners
    <3>2. r \in UploadRequest BY <1>4, <2>1, <3>1 DEF UploadRequest
    <3>3. r.at = "body" /\ r.session = s /\ r.entry = e /\ r.next = next OBVIOUS
    <3>4. s # NoSession BY SessionAssumption
    <3> HIDE DEF r
    <3>5. Uploading(r, promised, committed) BY <1>2, <1>4, <1>5, <2>1, <3>3, <3>4 DEF Uploading
    <3> QED BY <3>2, <3>3, <3>5
  <2> HIDE DEF r
  <2>3. request' = [request EXCEPT ![c] = r] /\ PutBack(s, NoEntry) /\ UNCHANGED promised BY <1>1, <1>6
  <2>4. request' \in [UploadClients -> UploadRequest] /\ request'[c] = r /\ \A k \in UploadClients \ {c} : request'[k] = request[k]
    BY <2>2, <2>3 DEF UploadInv, UploadTyped
  <2>5. ASSUME NEW k \in UploadClients PROVE Uploading(request'[k], promised', committed')
    <3>1. CASE k = c BY <1>1, <2>2, <2>3, <2>4, <3>1
    <3>2. CASE k # c BY <1>1, <2>3, <2>4, <3>2, UploadFacts
    <3> QED BY <3>1, <3>2
  <2>6. Holding(request, request', s, NoEntry)
    <3>1. \A k \in UploadClients \ {c} : request'[k].session = request[k].session /\ request'[k].session # s
      BY <1>2, <2>4
    <3>2. request'[c].session = s BY <2>2, <2>4
    <3> QED BY <3>1, <3>2 DEF Holding
  <2>7. /\ uploadMap' = [uploadMap EXCEPT ![s] = NoEntry] /\ promised' \in [Sessions -> Nat] /\ uploadNow' \in Int
        /\ \A k \in Sessions \ {s} : promised'[k] = promised[k]
        /\ Members(belongs', committed')
    BY <1>1, <2>3 DEF PutBack, UploadInv, UploadTyped, SessionsSound, Members
  <2>8. Written(s, NoEntry, promised') /\ AllUploading(request', promised', committed')
    BY <2>5 DEF Written, AllUploading
  <2> QED BY <2>4, <2>6, <2>7, <2>8, RestingTyped, MapWritten
<1>7. CASE ~ContinuesAt(claim, e.offset)
  <2>1. PutBack(s, e) /\ Told(s, uploadMap[s].offset) /\ UNCHANGED request BY <1>1, <1>4, <1>7
  <2> QED BY <1>1, <1>4, <1>5, <2>1, SessionTouched
<1> QED BY <1>6, <1>7

\* The facts of a request that has a body coming.
LEMMA BodyFacts ==
    ASSUME UploadInv, NEW c \in UploadClients, request[c].at = "body"
    PROVE  /\ request[c] \in UploadRequest /\ request[c].entry \in UploadEntry /\ StagedInOrder(request[c].entry)
           /\ request[c].entry.live => request[c].next = request[c].entry.offset
           /\ request[c].session # NoSession =>
                request[c].session \in Sessions /\ request[c].entry.offset >= promised[request[c].session]
           /\ request[c].kind \in {"patch", "put"} => request[c].session # NoSession
  BY UploadFacts DEF Uploading

LEMMA MembersKept ==
    ASSUME UploadInv
    PROVE  \A row \in belongs : row[2] \in committed
  BY DEF UploadInv, SessionsSound

LEMMA AppendChunkInv ==
    ASSUME UploadInv, NEW c \in UploadClients, AppendChunk(c)
    PROVE  UploadInv'
<1> DEFINE old == request[c].entry
           units == IF old.live THEN Append(old.units, request[c].next) ELSE old.units
           e == [old EXCEPT !.units = units, !.offset = @ + 1]
           r == [request[c] EXCEPT !.entry = e, !.next = @ + 1]
<1>1. request[c].at = "body" /\ request' = [request EXCEPT ![c] = r]
      /\ UNCHANGED <<uploadNow, uploadMap, committed, belongs, promised>>
  BY DEF AppendChunk
<1>2. /\ request[c] \in UploadRequest /\ old \in UploadEntry /\ StagedInOrder(old)
      /\ old.live => request[c].next = old.offset
  BY <1>1, BodyFacts
<1>3. request[c].next \in Int /\ old.units \in Seq(Int) /\ old.offset \in Int BY <1>2 DEF UploadRequest, UploadEntry
<1>4. units \in Seq(Int) BY <1>3, AppendProperties
<1>5. ASSUME old.live
      PROVE  Len(units) = old.offset + 1 /\ \A i \in 1..Len(units) : units[i] = i - 1
  <2>1. /\ Len(units) = Len(old.units) + 1 /\ units[Len(old.units) + 1] = request[c].next
        /\ \A i \in 1..Len(old.units) : units[i] = old.units[i]
    BY <1>3, <1>5, AppendProperties
  <2>2. Len(old.units) = old.offset /\ \A i \in 1..Len(old.units) : old.units[i] = i - 1 BY <1>2, <1>5 DEF StagedInOrder
  <2>3. Len(old.units) \in Nat BY <1>3, LenProperties
  <2> HIDE DEF units, old
  <2> QED BY <1>2, <1>5, <2>1, <2>2, <2>3
<1> HIDE DEF units
<1>6. e \in UploadEntry /\ e.units = units /\ e.offset = old.offset + 1 /\ e.live = old.live
  <2>1. old.offset + 1 \in Int BY <1>3
  <2> HIDE DEF old
  <2>2. e = [old EXCEPT !.units = units, !.offset = old.offset + 1] BY <1>2 DEF UploadEntry
  <2> HIDE DEF e
  <2> QED BY <1>2, <1>4, <2>1, <2>2 DEF UploadEntry
<1> HIDE DEF e
<1>7. r \in UploadRequest /\ r.at = "body" /\ r.entry = e /\ r.next = request[c].next + 1
      /\ r.session = request[c].session /\ r.kind = request[c].kind
  <2>1. request[c].next + 1 \in Int BY <1>3
  <2>2. r = [request[c] EXCEPT !.entry = e, !.next = request[c].next + 1] BY <1>2 DEF UploadRequest
  <2> HIDE DEF r
  <2> QED BY <1>1, <1>2, <1>6, <2>1, <2>2 DEF UploadRequest
<1>8. StagedInOrder(e) BY <1>5, <1>6 DEF StagedInOrder
<1>9. request[c].session # NoSession => e.offset >= promised[request[c].session]
  <2>1. ASSUME request[c].session # NoSession PROVE e.offset >= promised[request[c].session]
    <3>1. request[c].session \in Sessions /\ old.offset >= promised[request[c].session] BY <1>1, <2>1, BodyFacts
    <3>2. promised[request[c].session] \in Nat BY <3>1 DEF UploadInv, UploadTyped
    <3> HIDE DEF old
    <3> QED BY <1>3, <1>6, <3>1, <3>2
  <2> QED BY <2>1
<1>10. request[c].kind \in {"patch", "put"} => request[c].session # NoSession BY <1>1, BodyFacts
<1> HIDE DEF r
<1>11. Uploading(r, promised, committed) BY <1>2, <1>6, <1>7, <1>8, <1>9, <1>10 DEF Uploading
<1> QED BY <1>1, <1>7, <1>11, MembersKept, UploaderMoves

LEMMA RestoreInv ==
    ASSUME UploadInv, NEW c \in UploadClients, BodyBreaksOff(c) \/ AppendFails(c)
    PROVE  UploadInv'
<1>1. PICK e \in UploadEntry : Restore(c, e) /\ StagedInOrder(e) /\ e.offset = request[c].entry.offset
  <2>1. request[c].at = "body" BY DEF BodyBreaksOff, AppendFails, Restore
  <2>2. request[c].entry \in UploadEntry /\ StagedInOrder(request[c].entry) BY <2>1, BodyFacts
  <2>3. CASE BodyBreaksOff(c) BY <2>2, <2>3 DEF BodyBreaksOff
  <2>4. CASE AppendFails(c)
    <3> DEFINE e == [request[c].entry EXCEPT !.units = <<>>, !.live = FALSE]
    <3>1. <<>> \in Seq(Int) BY EmptySeq
    <3>2. e \in UploadEntry /\ e.offset = request[c].entry.offset /\ ~e.live BY <2>2, <3>1 DEF UploadEntry
    <3>3. Restore(c, e) BY <2>4 DEF AppendFails
    <3> HIDE DEF e
    <3> QED BY <3>2, <3>3 DEF StagedInOrder
  <2> QED BY <2>3, <2>4
<1>2. RequestEnded(c) /\ UNCHANGED <<uploadNow, committed, belongs, promised>> /\ request[c].at = "body"
      /\ IF request[c].session = NoSession THEN UNCHANGED uploadMap ELSE PutBack(request[c].session, e)
  BY <1>1 DEF Restore
<1>3. CASE request[c].session = NoSession BY <1>2, <1>3, MembersKept, UploaderRests
<1>4. CASE request[c].session # NoSession
  <2>1. request[c].session \in Sessions BY <1>2, <1>4, BodyFacts
  <2> QED BY <1>1, <1>2, <1>4, <2>1, SessionReturns
<1> QED BY <1>3, <1>4

LEMMA FinishInv ==
    ASSUME UploadInv, NEW c \in UploadClients, FinishPatch(c) \/ FinishWithoutDigest(c)
    PROVE  UploadInv'
<1>1. request[c].at = "body" /\ request[c].kind \in {"patch", "put"}
      /\ PutBack(request[c].session, request[c].entry) /\ RequestEnded(c)
      /\ UNCHANGED <<uploadNow, committed, belongs>>
      /\ (promised' = promised \/ Told(request[c].session, request[c].entry.offset))
  BY DEF FinishPatch, FinishWithoutDigest
<1>2. request[c].session \in Sessions /\ request[c].entry \in UploadEntry /\ StagedInOrder(request[c].entry)
  BY <1>1, BodyFacts
<1> QED BY <1>1, <1>2, SessionReturns

LEMMA CommitUploadInv ==
    ASSUME UploadInv, NEW c \in UploadClients, NEW digest, CommitUpload(c, digest)
    PROVE  UploadInv'
<1>1. request[c].at = "body" /\ UNCHANGED <<uploadNow, uploadMap, belongs, promised>> BY DEF CommitUpload
<1>2. CASE committed' = committed \cup {digest} /\ request' = [request EXCEPT ![c].at = "member"]
           /\ digest = request[c].entry.units
  <2> DEFINE r == [request[c] EXCEPT !.at = "member"]
  <2>1. request' = [request EXCEPT ![c] = r] BY <1>2
  <2>2. r \in UploadRequest /\ r.at = "member" /\ r.session = request[c].session /\ r.entry = request[c].entry
    BY <1>1, BodyFacts DEF UploadRequest
  <2> HIDE DEF r
  <2>3. Uploading(r, promised, committed') BY <1>1, <1>2, <2>2, BodyFacts DEF Uploading
  <2>4. committed \subseteq committed' /\ \A row \in belongs' : row[2] \in committed' BY <1>1, <1>2, MembersKept
  <2> QED BY <1>1, <2>1, <2>2, <2>3, <2>4, UploaderMoves
<1>3. CASE RequestEnded(c) /\ UNCHANGED committed BY <1>1, <1>3, MembersKept, UploaderRests
<1> QED BY <1>2, <1>3 DEF CommitUpload

LEMMA RecordMembershipInv ==
    ASSUME UploadInv, NEW c \in UploadClients, RecordMembership(c)
    PROVE  UploadInv'
<1>1. request[c].entry.units \in committed BY UploadFacts DEF RecordMembership, Uploading
<1>2. \A row \in belongs' : row[2] \in committed' BY <1>1, MembersKept DEF RecordMembership
<1> QED BY <1>2, UploaderRests DEF RecordMembership

LEMMA UploadInitInv ==
    ASSUME UploadInit
    PROVE  UploadInv
<1>1. UploadTyped BY RestingTyped DEF UploadInit, UploadTyped
<1>2. \A s \in Sessions : uploadMap[s] = NoEntry BY DEF UploadInit
<1>3. \A c \in UploadClients : request[c] = Resting /\ request[c].session = NoSession BY RestingTyped DEF UploadInit
<1>4. \A c \in UploadClients : Uploading(request[c], promised, committed) BY <1>3, RestingTyped
<1>5. Open = {} /\ belongs = {} BY <1>2 DEF Open, UploadInit
<1> QED BY <1>1, <1>3, <1>4, <1>5 DEF UploadInv, SessionsSound

LEMMA UploadNextInv ==
    ASSUME UploadInv, [UploadNext]_uploadVars
    PROVE  UploadInv'
<1>1. CASE UploadTick
  BY <1>1 DEF UploadTick, UploadInv, UploadTyped, SessionsSound, Open, Uploading, StagedInOrder, SessionFree, Alone
<1>2. CASE ReclaimIdle
  <2>1. Expired \in SUBSET Sessions BY DEF Expired, Open
  <2> QED BY <1>2, <2>1, SessionsReclaimed DEF ReclaimIdle
<1>3. ASSUME NEW c \in UploadClients, DenyChunk(c) \/ Disconnect(c) PROVE UploadInv'
  BY <1>3, MembersKept, UploaderRests DEF DenyChunk, Disconnect
<1>4. ASSUME NEW c \in UploadClients,
             \/ BodyBreaksOff(c) \/ AppendFails(c) \/ DenyChunk(c) \/ FinishPatch(c) \/ FinishWithoutDigest(c)
             \/ RecordMembership(c) \/ Disconnect(c)
             \/ AppendChunk(c)
             \/ \E digest \in {request[c].entry.units, <<-1>>} : CommitUpload(c, digest)
      PROVE  UploadInv'
  BY <1>3, <1>4, RestoreInv, FinishInv, RecordMembershipInv, AppendChunkInv, CommitUploadInv
<1>5. ASSUME NEW c \in UploadClients, NEW name \in UploadNames,
             \/ StartMonolithic(c, name)
             \/ \E s \in Sessions :
                  \/ StartSession(c, s, name)
                  \/ \E kind \in {"patch", "put"}, claim \in Claims, next \in 0..MaxBody :
                       TakeSession(c, kind, s, name, claim, next)
      PROVE  UploadInv'
  BY <1>5, StartMonolithicInv, StartSessionInv, TakeSessionInv
<1>6. CASE UNCHANGED uploadVars
  BY <1>6 DEF uploadVars, UploadInv, UploadTyped, SessionsSound, Open, Uploading, StagedInOrder, SessionFree, Alone
<1> QED BY <1>1, <1>2, <1>4, <1>5, <1>6, StatusOrCancelInv DEF UploadNext

LEMMA UploadsResumeFollows ==
    ASSUME UploadInv
    PROVE  UploadsResume
<1>1. \A s \in Open : uploadMap[s].offset >= promised[s] /\ StagedInOrder(uploadMap[s]) BY OpenFacts
<1>2. \A e \in Entries : StagedInOrder(e) BY <1>1, BodyFacts DEF Entries
<1>3. Open \cap Held = {} BY OpenFacts DEF Held
<1>4. \A c, k \in UploadClients : c # k /\ request[c].session # NoSession => request[c].session # request[k].session
  BY UploadFacts DEF Alone
<1> QED BY <1>1, <1>2, <1>3, <1>4, MembersKept DEF UploadsResume, StagedInOrder

--------------------------------
(* Proxied tags.  What the record names was at the upstream not long before  *)
(* the record was made, and what a request has heard not long ago.           *)

TaggedNames == TagDigests \cup {NoTag}
TagVias == {"none", "fresh", "revalidated", "fetched", "stale"}
TagAnswer == [digest : TaggedNames, via : TagVias, lag : Int]
TagPlaces == {"idle", "gate", "head", "headed", "get", "got", "recorded", "tagged"}
Heard == {"headed", "got", "recorded", "tagged"}
TagPull == [at : TagPlaces, cached : TaggedNames, reply : TaggedNames, since : Int, answer : TagAnswer]

(* An answer follows the upstream, by the path it took. *)
AnswerFollows(answer) ==
    /\ answer.via \in {"revalidated", "fetched"} => answer.lag <= MaxTransit
    /\ answer.via = "fresh" => answer.lag < TagTtl + MaxTransit
    /\ answer.via = "stale" /\ MaxStale # 0 => answer.lag < TagTtl + MaxStale + MaxTransit

(* What was heard, and how long ago, at a time. *)
HeardLately(r, held, now) ==
    r.at \in Heard => r.reply \in TagDigests /\ r.since <= held[r.reply] /\ now - r.since <= MaxTransit

(* The record trails the upstream by the transit of the answer it was made from. *)
RecordTrails(record, held) == record.digest \in TagDigests => record.at <= held[record.digest] + MaxTransit

TagTyped ==
    /\ tagNow \in Nat /\ upTag \in TaggedNames
    /\ heldAt \in [TagDigests -> Int]
    /\ fresh \in [at : Int, digest : TaggedNames]
    /\ tagStore \subseteq TagDigests
    /\ puller \in [Pullers -> TagPull]
TagInv ==
    /\ TagTyped
    /\ \A d \in TagDigests : heldAt[d] <= tagNow
    /\ upTag # NoTag => heldAt[upTag] = tagNow
    /\ RecordTrails(fresh, heldAt)
    /\ \A q \in Pullers : AnswerFollows(puller[q].answer) /\ HeardLately(puller[q], heldAt, tagNow)

LEMMA Transit == MaxTransit \in Nat /\ TagTtl \in Nat /\ MaxStale \in Nat /\ NoTag \notin TagDigests
  BY ProxyAssumption

LEMMA PullFacts ==
    ASSUME TagInv, NEW q \in Pullers
    PROVE  /\ puller[q] \in TagPull /\ AnswerFollows(puller[q].answer) /\ HeardLately(puller[q], heldAt, tagNow)
           /\ puller[q].cached \in TaggedNames /\ puller[q].reply \in TaggedNames /\ puller[q].since \in Int
           /\ puller[q].answer \in TagAnswer
<1>1. puller[q] \in TagPull /\ AnswerFollows(puller[q].answer) /\ HeardLately(puller[q], heldAt, tagNow)
  BY DEF TagInv, TagTyped
<1> QED BY <1>1 DEF TagPull

LEMMA TagFacts ==
    ASSUME TagInv
    PROVE  /\ tagNow \in Nat /\ upTag \in TaggedNames /\ heldAt \in [TagDigests -> Int] /\ tagStore \subseteq TagDigests
           /\ fresh.at \in Int /\ fresh.digest \in TaggedNames /\ RecordTrails(fresh, heldAt)
           /\ \A d \in TagDigests : heldAt[d] <= tagNow /\ heldAt[d] \in Int
           /\ upTag # NoTag => upTag \in TagDigests /\ heldAt[upTag] = tagNow
  BY DEF TagInv, TagTyped, TaggedNames

\* One request moves; the clock and the upstream stand still.
LEMMA PullerMoves ==
    ASSUME TagInv, NEW q \in Pullers, NEW r \in TagPull, puller' = [puller EXCEPT ![q] = r],
           AnswerFollows(r.answer), HeardLately(r, heldAt, tagNow),
           UNCHANGED <<tagNow, upTag, heldAt>>, tagStore' \subseteq TagDigests,
           fresh' \in [at : Int, digest : TaggedNames], RecordTrails(fresh', heldAt)
    PROVE  TagInv'
<1>1. puller' \in [Pullers -> TagPull] /\ \A p \in Pullers : puller'[p] = IF p = q THEN r ELSE puller[p]
  BY DEF TagInv, TagTyped
<1>2. ASSUME NEW p \in Pullers PROVE AnswerFollows(puller'[p].answer) /\ HeardLately(puller'[p], heldAt, tagNow)
  BY <1>1, PullFacts
<1>3. TagTyped' BY <1>1 DEF TagInv, TagTyped
<1>4. (\A p \in Pullers : AnswerFollows(puller[p].answer) /\ HeardLately(puller[p], heldAt, tagNow))'
  BY <1>2 DEF AnswerFollows, HeardLately
<1>5. (\A d \in TagDigests : heldAt[d] <= tagNow)' /\ (upTag # NoTag => heldAt[upTag] = tagNow)' BY DEF TagInv
<1>6. RecordTrails(fresh, heldAt)' BY DEF RecordTrails
<1> QED BY <1>3, <1>4, <1>5, <1>6 DEF TagInv

LEMMA NewPullTyped == NewPull \in TagPull /\ NoAnswer \in TagAnswer /\ NewPull.at = "idle" /\ NewPull.answer = NoAnswer
                      /\ AnswerFollows(NoAnswer)
<1>1. NoTag \in TaggedNames BY DEF TaggedNames
<1>2. NoAnswer \in TagAnswer BY <1>1 DEF NoAnswer, TagAnswer, TagVias
<1>3. NewPull \in TagPull /\ NewPull.at = "idle" /\ NewPull.answer = NoAnswer
  BY <1>1, <1>2 DEF NewPull, TagPull, TagPlaces
<1>4. NoAnswer.via = "none" BY DEF NoAnswer
<1> QED BY <1>2, <1>3, <1>4 DEF AnswerFollows

\* The request goes on to a place where it relies on nothing it has heard, or refuses.
LEMMA PullerGoes ==
    ASSUME TagInv, NEW q \in Pullers, NEW at \in TagPlaces, Go(q, at), at \in Heard => puller[q].at \in Heard,
           UNCHANGED <<tagNow, upTag, heldAt, fresh>>, tagStore' \subseteq TagDigests
    PROVE  TagInv'
<1> DEFINE r == [puller[q] EXCEPT !.at = at]
<1>1. puller' = [puller EXCEPT ![q] = r] BY DEF Go
<1>2. /\ r \in TagPull /\ r.at = at /\ r.answer = puller[q].answer /\ r.reply = puller[q].reply
      /\ r.since = puller[q].since
  BY PullFacts DEF TagPull
<1> HIDE DEF r
<1>3. AnswerFollows(r.answer) BY <1>2, PullFacts
<1>4. HeardLately(r, heldAt, tagNow) BY <1>2, PullFacts DEF HeardLately
<1>5. fresh' \in [at : Int, digest : TaggedNames] /\ RecordTrails(fresh', heldAt) BY DEF TagInv, TagTyped
<1> QED BY <1>1, <1>2, <1>3, <1>4, <1>5, PullerMoves

LEMMA PullerRefuses ==
    ASSUME TagInv, NEW q \in Pullers, Refuses(q), UNCHANGED <<tagNow, upTag, heldAt, tagStore>>,
           fresh' \in {fresh, NoFresh}
    PROVE  TagInv'
<1>1. HeardLately(NewPull, heldAt, tagNow) BY NewPullTyped DEF HeardLately, Heard
<1>2. fresh' \in [at : Int, digest : TaggedNames] /\ RecordTrails(fresh', heldAt)
  BY Transit DEF TagInv, TagTyped, NoFresh, Never, TaggedNames, RecordTrails
<1> QED BY <1>1, <1>2, NewPullTyped, TagFacts, PullerMoves DEF Refuses

\* The request is answered: with a digest that was at the upstream not long ago.
LEMMA PullerAnswers ==
    ASSUME TagInv, NEW q \in Pullers, NEW d \in TagDigests, NEW via \in TagVias, Answers(q, d, via),
           \A lag \in Int : lag = tagNow - heldAt[d] => AnswerFollows([digest |-> d, via |-> via, lag |-> lag]),
           UNCHANGED <<tagNow, upTag, heldAt, tagStore>>,
           fresh' = fresh \/ (fresh' = [at |-> tagNow, digest |-> d] /\ tagNow - heldAt[d] <= MaxTransit)
    PROVE  TagInv'
<1>1. PICK lag \in Int : lag = tagNow - heldAt[d] BY TagFacts
<1> DEFINE a == [digest |-> d, via |-> via, lag |-> lag]
           r == [NewPull EXCEPT !.answer = a]
<1>2. puller' = [puller EXCEPT ![q] = r] BY <1>1 DEF Answers
<1>3. a \in TagAnswer /\ AnswerFollows(a) BY <1>1 DEF TagAnswer, TaggedNames
<1> HIDE DEF a
<1>4. r \in TagPull /\ r.at = "idle" /\ r.answer = a BY <1>3, NewPullTyped DEF TagPull
<1> HIDE DEF r
<1>5. HeardLately(r, heldAt, tagNow) BY <1>4 DEF HeardLately, Heard
<1>6. fresh' \in [at : Int, digest : TaggedNames] /\ RecordTrails(fresh', heldAt)
  <2>1. CASE fresh' = fresh BY <2>1 DEF TagInv, TagTyped
  <2>2. CASE fresh' = [at |-> tagNow, digest |-> d] /\ tagNow - heldAt[d] <= MaxTransit
    <3>1. d \in TaggedNames /\ tagNow \in Int /\ heldAt[d] \in Int BY TagFacts DEF TaggedNames
    <3>2. fresh' \in [at : Int, digest : TaggedNames] /\ fresh'.at = tagNow /\ fresh'.digest = d BY <2>2, <3>1
    <3> QED BY <2>2, <3>1, <3>2, Transit DEF RecordTrails
  <2> QED BY <2>1, <2>2
<1> QED BY <1>2, <1>3, <1>4, <1>5, <1>6, TagFacts, PullerMoves

LEMMA FreshAnswers ==
    ASSUME TagInv, NEW q \in Pullers, FreshTag, Answers(q, fresh.digest, "fresh"),
           UNCHANGED <<tagNow, upTag, heldAt, fresh, tagRow, tagStore>>
    PROVE  TagInv'
<1>1. fresh.digest \in TagDigests /\ tagNow - fresh.at < TagTtl BY TagFacts DEF FreshTag
<1>2. fresh.at <= heldAt[fresh.digest] + MaxTransit /\ heldAt[fresh.digest] \in Int /\ fresh.at \in Int /\ tagNow \in Int
  BY <1>1, TagFacts DEF RecordTrails
<1>3. tagNow - heldAt[fresh.digest] < TagTtl + MaxTransit BY <1>1, <1>2, Transit
<1>4. ASSUME NEW lag \in Int, lag = tagNow - heldAt[fresh.digest]
      PROVE  AnswerFollows([digest |-> fresh.digest, via |-> "fresh", lag |-> lag])
  BY <1>3, <1>4 DEF AnswerFollows
<1>5. "fresh" \in TagVias BY DEF TagVias
<1> QED BY <1>1, <1>4, <1>5, PullerAnswers

\* What was heard lately is confirmed.
LEMMA ConfirmedAnswers ==
    ASSUME TagInv, NEW q \in Pullers, puller[q].at \in Heard, NEW via \in {"revalidated", "fetched"},
           Answers(q, puller[q].reply, via), fresh' = [at |-> tagNow, digest |-> puller[q].reply],
           UNCHANGED <<tagNow, upTag, heldAt, tagStore>>
    PROVE  TagInv'
<1> DEFINE d == puller[q].reply
<1>1. d \in TagDigests /\ puller[q].since <= heldAt[d] /\ tagNow - puller[q].since <= MaxTransit /\ puller[q].since \in Int
  BY PullFacts DEF HeardLately
<1>2. tagNow - heldAt[d] <= MaxTransit BY <1>1, TagFacts, Transit
<1> HIDE DEF d
<1>3. ASSUME NEW lag \in Int, lag = tagNow - heldAt[d]
      PROVE  AnswerFollows([digest |-> d, via |-> via, lag |-> lag])
  BY <1>2, <1>3 DEF AnswerFollows
<1>4. via \in TagVias BY DEF TagVias
<1> QED BY <1>1, <1>2, <1>3, <1>4, PullerAnswers DEF d

\* The upstream answers: what it says is what it has now.
LEMMA UpstreamHeard ==
    ASSUME TagInv, NEW q \in Pullers, NEW at \in {"headed", "got"}, upTag # NoTag,
           puller' = [puller EXCEPT ![q].at = at, ![q].reply = upTag, ![q].since = tagNow],
           UNCHANGED <<tagNow, upTag, heldAt, fresh, tagStore>>
    PROVE  TagInv'
<1> DEFINE r == [puller[q] EXCEPT !.at = at, !.reply = upTag, !.since = tagNow]
<1>1. puller' = [puller EXCEPT ![q] = r] OBVIOUS
<1>2. at \in TagPlaces /\ upTag \in TaggedNames /\ tagNow \in Int BY TagFacts DEF TagPlaces
<1>3. r \in TagPull /\ r.answer = puller[q].answer /\ r.reply = upTag /\ r.since = tagNow BY <1>2, PullFacts DEF TagPull
<1> HIDE DEF r
<1>4. HeardLately(r, heldAt, tagNow) /\ AnswerFollows(r.answer) BY <1>3, PullFacts, TagFacts, Transit DEF HeardLately
<1>5. fresh' \in [at : Int, digest : TaggedNames] /\ RecordTrails(fresh', heldAt) BY DEF TagInv, TagTyped
<1> QED BY <1>1, <1>3, <1>4, <1>5, TagFacts, PullerMoves

LEMMA PullTagInv ==
    ASSUME TagInv, NEW q \in Pullers, PullTag(q)
    PROVE  TagInv'
<1>1. CASE FreshTag BY <1>1, FreshAnswers DEF PullTag
<1>2. CASE ~FreshTag
  <2>1. "gate" \in TagPlaces /\ "gate" \notin Heard BY DEF TagPlaces, Heard
  <2> QED BY <1>2, <2>1, TagFacts, PullerGoes DEF PullTag
<1> QED BY <1>1, <1>2

LEMMA LockTagInv ==
    ASSUME TagInv, NEW q \in Pullers, LockTag(q)
    PROVE  TagInv'
<1>1. CASE FreshTag BY <1>1, FreshAnswers DEF LockTag
<1>2. CASE ~FreshTag
  <2>1. PICK at \in {"get", "head"} : puller' = [puller EXCEPT ![q].at = at, ![q].cached = fresh.digest]
    BY <1>2 DEF LockTag
  <2> DEFINE r == [puller[q] EXCEPT !.at = at, !.cached = fresh.digest]
  <2>2. puller' = [puller EXCEPT ![q] = r] /\ UNCHANGED <<tagNow, upTag, heldAt, fresh, tagStore>> BY <2>1 DEF LockTag
  <2>3. at \in TagPlaces /\ at \notin Heard BY DEF TagPlaces, Heard
  <2>4. r \in TagPull /\ r.at = at /\ r.answer = puller[q].answer BY <2>3, PullFacts, TagFacts DEF TagPull
  <2> HIDE DEF r
  <2>5. HeardLately(r, heldAt, tagNow) /\ AnswerFollows(r.answer) BY <2>3, <2>4, PullFacts DEF HeardLately
  <2>6. fresh' \in [at : Int, digest : TaggedNames] /\ RecordTrails(fresh', heldAt) BY <2>2 DEF TagInv, TagTyped
  <2> QED BY <2>2, <2>4, <2>5, <2>6, TagFacts, PullerMoves
<1> QED BY <1>1, <1>2

LEMMA HeadTagInv ==
    ASSUME TagInv, NEW q \in Pullers, HeadTag(q)
    PROVE  TagInv'
<1>1. "get" \in TagPlaces /\ "get" \notin Heard BY DEF TagPlaces, Heard
<1> QED BY <1>1, TagFacts, UpstreamHeard, PullerGoes DEF HeadTag

LEMMA UnchangedTagInv ==
    ASSUME TagInv, NEW q \in Pullers, UnchangedTag(q)
    PROVE  TagInv'
<1>1. "get" \in TagPlaces /\ "get" \notin Heard /\ puller[q].at \in Heard BY DEF UnchangedTag, TagPlaces, Heard
<1>2. CASE puller[q].reply = puller[q].cached /\ puller[q].cached \in tagStore
  BY <1>1, <1>2, ConfirmedAnswers DEF UnchangedTag
<1>3. CASE ~(puller[q].reply = puller[q].cached /\ puller[q].cached \in tagStore)
  BY <1>1, <1>3, TagFacts, PullerGoes DEF UnchangedTag
<1> QED BY <1>2, <1>3

LEMMA FetchTagInv ==
    ASSUME TagInv, NEW q \in Pullers, FetchTag(q)
    PROVE  TagInv'
<1>1. UNCHANGED <<tagNow, upTag, heldAt, tagStore>> BY DEF FetchTag
<1>2. CASE upTag # NoTag /\ UNCHANGED fresh
           /\ puller' = [puller EXCEPT ![q].at = "got", ![q].reply = upTag, ![q].since = tagNow]
  BY <1>1, <1>2, UpstreamHeard
<1>3. CASE fresh' \in {fresh, NoFresh} /\ Refuses(q) BY <1>1, <1>3, PullerRefuses
<1>4. CASE StaleTag /\ Answers(q, fresh.digest, "stale") /\ UNCHANGED fresh
  <2>1. fresh.digest \in TagDigests /\ (MaxStale = 0 \/ tagNow - fresh.at < TagTtl + MaxStale)
    BY <1>4, TagFacts DEF StaleTag
  <2>2. fresh.at <= heldAt[fresh.digest] + MaxTransit /\ heldAt[fresh.digest] \in Int /\ fresh.at \in Int /\ tagNow \in Int
    BY <2>1, TagFacts DEF RecordTrails
  <2>3. MaxStale # 0 => tagNow - heldAt[fresh.digest] < TagTtl + MaxStale + MaxTransit BY <2>1, <2>2, Transit
  <2>4. ASSUME NEW lag \in Int, lag = tagNow - heldAt[fresh.digest]
        PROVE  AnswerFollows([digest |-> fresh.digest, via |-> "stale", lag |-> lag])
    BY <2>3, <2>4 DEF AnswerFollows
  <2>5. "stale" \in TagVias BY DEF TagVias
  <2> QED BY <1>1, <1>4, <2>1, <2>4, <2>5, PullerAnswers
<1> QED BY <1>2, <1>3, <1>4 DEF FetchTag

LEMMA StoreTagInv ==
    ASSUME TagInv, NEW q \in Pullers, KeepManifest(q) \/ PutTag(q) \/ SetFreshness(q)
    PROVE  TagInv'
<1>1. "recorded" \in TagPlaces /\ "tagged" \in TagPlaces /\ puller[q].at \in Heard
  BY DEF KeepManifest, PutTag, SetFreshness, TagPlaces, Heard
<1>2. CASE KeepManifest(q)
  <2>1. puller[q].reply \in TagDigests BY <1>1, PullFacts DEF HeardLately
  <2>2. CASE tagStore' = tagStore \cup {puller[q].reply} /\ Go(q, "recorded")
    <3>1. tagStore' \subseteq TagDigests BY <2>1, <2>2, TagFacts
    <3> QED BY <1>1, <1>2, <2>2, <3>1, PullerGoes DEF KeepManifest
  <2>3. CASE UNCHANGED tagStore /\ Refuses(q) BY <1>2, <2>3, PullerRefuses DEF KeepManifest
  <2> QED BY <1>2, <2>2, <2>3 DEF KeepManifest
<1>3. CASE PutTag(q) BY <1>1, <1>3, TagFacts, PullerGoes DEF PutTag
<1>4. CASE SetFreshness(q) BY <1>1, <1>4, ConfirmedAnswers DEF SetFreshness
<1> QED BY <1>2, <1>3, <1>4

\* The upstream's tag and the clock: what was held is held no less lately.
LEMMA HeldLater ==
    ASSUME TagInv, heldAt' \in [TagDigests -> Int], \A d \in TagDigests : heldAt[d] <= heldAt'[d],
           UNCHANGED <<fresh, tagStore, puller>>, tagNow' \in Nat, upTag' \in TaggedNames,
           \A d \in TagDigests : heldAt'[d] <= tagNow', upTag' # NoTag => heldAt'[upTag'] = tagNow',
           \A q \in Pullers : puller[q].at \in Heard => tagNow' - puller[q].since <= MaxTransit
    PROVE  TagInv'
<1>1. TagTyped' BY DEF TagInv, TagTyped
<1>2. RecordTrails(fresh, heldAt')
  <2>1. ASSUME fresh.digest \in TagDigests PROVE fresh.at <= heldAt'[fresh.digest] + MaxTransit
    <3>1. fresh.at <= heldAt[fresh.digest] + MaxTransit /\ heldAt[fresh.digest] \in Int /\ heldAt'[fresh.digest] \in Int
          /\ fresh.at \in Int /\ heldAt[fresh.digest] <= heldAt'[fresh.digest]
      BY <2>1, TagFacts DEF RecordTrails
    <3> QED BY <3>1, Transit
  <2> QED BY <2>1 DEF RecordTrails
<1>3. ASSUME NEW q \in Pullers PROVE HeardLately(puller[q], heldAt', tagNow')
  <2>1. ASSUME puller[q].at \in Heard PROVE puller[q].reply \in TagDigests /\ puller[q].since <= heldAt'[puller[q].reply]
    <3>1. puller[q].reply \in TagDigests /\ puller[q].since <= heldAt[puller[q].reply] /\ puller[q].since \in Int
      BY <2>1, PullFacts DEF HeardLately
    <3>2. heldAt[puller[q].reply] \in Int /\ heldAt'[puller[q].reply] \in Int
          /\ heldAt[puller[q].reply] <= heldAt'[puller[q].reply]
      BY <3>1, TagFacts
    <3> QED BY <3>1, <3>2
  <2> QED BY <2>1 DEF HeardLately
<1>4. RecordTrails(fresh, heldAt)' BY <1>2 DEF RecordTrails
<1>5. (\A q \in Pullers : AnswerFollows(puller[q].answer) /\ HeardLately(puller[q], heldAt, tagNow))'
  BY <1>3, PullFacts DEF HeardLately, AnswerFollows
<1>6. (\A d \in TagDigests : heldAt[d] <= tagNow)' /\ (upTag # NoTag => heldAt[upTag] = tagNow)' OBVIOUS
<1> QED BY <1>1, <1>4, <1>5, <1>6 DEF TagInv

LEMMA MoveUpstreamInv ==
    ASSUME TagInv, NEW d \in TagDigests \cup {NoTag}, MoveUpstream(d)
    PROVE  TagInv'
<1>1. upTag' = d /\ heldAt' = (IF d = NoTag THEN heldAt ELSE [heldAt EXCEPT ![d] = tagNow])
      /\ UNCHANGED <<tagNow, fresh, tagRow, tagStore, puller>>
  BY DEF MoveUpstream
<1>2. /\ heldAt' \in [TagDigests -> Int] /\ tagNow' \in Nat /\ upTag' \in TaggedNames
      /\ \A e \in TagDigests : heldAt[e] <= heldAt'[e] /\ heldAt'[e] <= tagNow'
      /\ upTag' # NoTag => heldAt'[upTag'] = tagNow'
  BY <1>1, TagFacts DEF TaggedNames
<1>3. \A q \in Pullers : puller[q].at \in Heard => tagNow' - puller[q].since <= MaxTransit
  BY <1>1, PullFacts DEF HeardLately
<1> QED BY <1>1, <1>2, <1>3, HeldLater

LEMMA TagTickInv ==
    ASSUME TagInv, TagTick
    PROVE  TagInv'
<1>1. /\ tagNow' = tagNow + 1 /\ UNCHANGED <<upTag, fresh, tagStore, puller>>
      /\ heldAt' = (IF upTag = NoTag THEN heldAt ELSE [heldAt EXCEPT ![upTag] = tagNow + 1])
  BY DEF TagTick
<1>2. /\ heldAt' \in [TagDigests -> Int] /\ tagNow' \in Nat /\ upTag' \in TaggedNames
      /\ \A e \in TagDigests : heldAt[e] <= heldAt'[e] /\ heldAt'[e] <= tagNow'
      /\ upTag' # NoTag => heldAt'[upTag'] = tagNow'
  BY <1>1, TagFacts
<1>3. ASSUME NEW q \in Pullers, puller[q].at \in Heard PROVE tagNow' - puller[q].since <= MaxTransit
  <2>1. tagNow - puller[q].since < MaxTransit BY <1>3 DEF TagTick, Heard
  <2>2. puller[q].since \in Int /\ tagNow \in Nat BY PullFacts, TagFacts
  <2> QED BY <1>1, <2>1, <2>2, Transit
<1> QED BY <1>1, <1>2, <1>3, HeldLater

LEMMA UnlinkManifestInv ==
    ASSUME TagInv, NEW d \in TagDigests, UnlinkManifest(d)
    PROVE  TagInv'
  BY TagFacts DEF UnlinkManifest, TagInv, TagTyped, RecordTrails, AnswerFollows, HeardLately

LEMMA TagInitInv ==
    ASSUME TagInit
    PROVE  TagInv
<1>1. NoTag \in TaggedNames /\ Never \in Int /\ Never <= 0 BY DEF TaggedNames, Never
<1>2. NoFresh \in [at : Int, digest : TaggedNames] /\ NoFresh.digest = NoTag BY <1>1 DEF NoFresh
<1>3. RecordTrails(NoFresh, heldAt) BY <1>2, Transit DEF RecordTrails
<1>4. TagTyped BY <1>1, <1>2, NewPullTyped DEF TagInit, TagTyped
<1>5. \A q \in Pullers : AnswerFollows(puller[q].answer) /\ HeardLately(puller[q], heldAt, tagNow)
  BY NewPullTyped DEF TagInit, HeardLately, Heard
<1> QED BY <1>1, <1>3, <1>4, <1>5 DEF TagInit, TagInv

LEMMA TagNextInv ==
    ASSUME TagInv, [TagNext]_tagVars
    PROVE  TagInv'
<1>1. CASE UNCHANGED tagVars BY <1>1 DEF tagVars, TagInv, TagTyped, RecordTrails, AnswerFollows, HeardLately
<1> QED BY <1>1, PullTagInv, LockTagInv, HeadTagInv, UnchangedTagInv, FetchTagInv, StoreTagInv, MoveUpstreamInv,
     UnlinkManifestInv, TagTickInv DEF TagNext

LEMMA TagsFollowUpstreamFollows ==
    ASSUME TagInv
    PROVE  TagsFollowUpstream
  BY DEF TagInv, AnswerFollows, TagsFollowUpstream

--------------------------------
(* Content by digest.  A request is entitled as soon as its repository has a *)
(* row, and the cache remembers rows that are there, each once.              *)

ReaderPlaces == {"idle", "gate", "probe", "fetch", "store", "served", "refused"}
ReadRequest == [at : ReaderPlaces, repo : Repos \cup {"none"}, digest : Digests \cup {"none"}, entitled : BOOLEAN]
KeyOf(r) == <<r.repo, r.digest>>
InWork == {"gate", "probe", "fetch", "store"}

Entitled(r, rows) ==
    /\ r.at = "served" /\ r.digest \in BlobDigests => r.entitled
    /\ r.at \in InWork /\ KeyOf(r) \in rows => r.entitled

Once(cache) == \A i, j \in DOMAIN cache : cache[i] = cache[j] => i = j

DigestInv ==
    /\ reader \in [DigestReaders -> ReadRequest]
    /\ \A q \in DigestReaders : Entitled(reader[q], membership)
    /\ remembered \in Seq(membership) /\ Once(remembered)

LEMMA ReaderFacts ==
    ASSUME DigestInv, NEW q \in DigestReaders
    PROVE  /\ reader[q] \in ReadRequest /\ Entitled(reader[q], membership)
  BY DEF DigestInv

--------------------------------
(* The cache. *)

LEMMA CacheTyped ==
    ASSUME DigestInv
    PROVE  /\ remembered \in Seq(membership) /\ Once(remembered) /\ Len(remembered) \in Nat
           /\ DOMAIN remembered = 1..Len(remembered)
           /\ \A i \in 1..Len(remembered) : remembered[i] \in membership
           /\ \A key \in Range(remembered) : key \in membership
<1>1. remembered \in Seq(membership) /\ Once(remembered) BY DEF DigestInv
<1>2. Len(remembered) \in Nat /\ DOMAIN remembered = 1..Len(remembered) BY <1>1, LenProperties
<1>3. \A i \in 1..Len(remembered) : remembered[i] \in membership BY <1>1, ElementOfSeq
<1> QED BY <1>1, <1>2, <1>3 DEF Range

\* A piece of a sequence without repetitions has none.
LEMMA PieceOnce ==
    ASSUME NEW S, NEW s \in Seq(S), Once(s), NEW m \in 1..(Len(s) + 1)
    PROVE  SubSeq(s, m, Len(s)) \in Seq(S) /\ Once(SubSeq(s, m, Len(s)))
<1>1. Len(s) \in Nat /\ DOMAIN s = 1..Len(s) /\ m \in Int /\ Len(s) \in Int BY LenProperties
<1>2. \A i \in m..Len(s) : s[i] \in S BY <1>1, ElementOfSeq
<1> DEFINE t == SubSeq(s, m, Len(s))
<1>3. t \in Seq(S) /\ Len(t) = (IF m <= Len(s) THEN Len(s) - m + 1 ELSE 0) /\ \A i \in 1..(Len(s) - m + 1) : t[i] = s[m + i - 1]
  BY <1>1, <1>2, SubSeqProperties
<1>4. DOMAIN t = 1..(Len(s) - m + 1)
  <2>1. DOMAIN t = 1..Len(t) BY <1>3, LenProperties
  <2> HIDE DEF t
  <2> QED BY <1>1, <1>3, <2>1
<1> HIDE DEF t
<1>5. ASSUME NEW i \in DOMAIN t, NEW j \in DOMAIN t, t[i] = t[j] PROVE i = j
  <2>1. m + i - 1 \in DOMAIN s /\ m + j - 1 \in DOMAIN s /\ i \in Int /\ j \in Int BY <1>1, <1>4
  <2>2. s[m + i - 1] = s[m + j - 1] BY <1>3, <1>4, <1>5
  <2>3. m + i - 1 = m + j - 1 BY <2>1, <2>2 DEF Once
  <2> QED BY <1>1, <2>1, <2>3
<1> QED BY <1>3, <1>5 DEF Once, t

LEMMA AppendOnce ==
    ASSUME NEW S, NEW s \in Seq(S), Once(s), NEW x \in S, x \notin Range(s)
    PROVE  Append(s, x) \in Seq(S) /\ Once(Append(s, x))
<1>1. Len(s) \in Nat /\ DOMAIN s = 1..Len(s) BY LenProperties
<1> DEFINE t == Append(s, x)
<1>2. t \in Seq(S) /\ Len(t) = Len(s) + 1 /\ (\A i \in 1..Len(s) : t[i] = s[i]) /\ t[Len(s) + 1] = x BY AppendProperties
<1>3. DOMAIN t = 1..(Len(s) + 1) BY <1>2, LenProperties
<1> HIDE DEF t
<1>4. \A i \in 1..Len(s) : s[i] # x BY <1>1 DEF Range
<1>5. ASSUME NEW i \in DOMAIN t, NEW j \in DOMAIN t, t[i] = t[j] PROVE i = j
  <2>1. CASE i \in 1..Len(s) /\ j \in 1..Len(s) BY <1>1, <1>2, <1>5, <2>1 DEF Once
  <2>2. CASE i = Len(s) + 1 /\ j \in 1..Len(s) BY <1>2, <1>4, <1>5, <2>2
  <2>3. CASE i \in 1..Len(s) /\ j = Len(s) + 1 BY <1>2, <1>4, <1>5, <2>3
  <2> QED BY <1>1, <1>3, <2>1, <2>2, <2>3
<1> QED BY <1>2, <1>5 DEF Once, t

LEMMA RememberOnce ==
    ASSUME NEW S, NEW s \in Seq(S), Once(s), NEW x \in S, x \notin Range(s)
    PROVE  Remember(s, x) \in Seq(S) /\ Once(Remember(s, x))
<1> DEFINE t == Append(s, x)
<1>1. t \in Seq(S) /\ Once(t) BY AppendOnce
<1> HIDE DEF t
<1>2. Len(t) \in Nat /\ MembershipLimit \in Nat BY <1>1, LenProperties, ProxyAssumption
<1> DEFINE m == IF Len(t) > MembershipLimit THEN Len(t) - MembershipLimit + 1 ELSE 1
<1>3. m \in 1..(Len(t) + 1) BY <1>2
<1>4. Remember(s, x) = SubSeq(t, m, Len(t)) BY DEF Remember, t
<1> HIDE DEF m
<1> QED BY <1>1, <1>3, <1>4, PieceOnce

LEMMA RemoveOnce ==
    ASSUME NEW S, NEW s \in Seq(S), Once(s), NEW i \in DOMAIN s
    PROVE  RemoveAt(s, i) \in Seq(S \ {s[i]}) /\ Once(RemoveAt(s, i))
<1>1. Len(s) \in Nat /\ DOMAIN s = 1..Len(s) /\ i \in 1..Len(s) /\ i - 1 \in Int /\ i + 1 \in Int BY LenProperties
<1>2. \A j \in 1..Len(s) : s[j] \in S /\ (j # i => s[j] \in S \ {s[i]}) BY <1>1, ElementOfSeq DEF Once
<1> DEFINE R == S \ {s[i]}
           a == SubSeq(s, 1, i - 1)
           b == SubSeq(s, i + 1, Len(s))
           t == a \o b
<1>3. a \in Seq(R) /\ Len(a) = i - 1 /\ \A j \in 1..(i - 1) : a[j] = s[j]
  <2>1. \A j \in 1..(i - 1) : s[j] \in R BY <1>1, <1>2
  <2> HIDE DEF R
  <2>2. SubSeq(s, 1, i - 1) \in Seq(R) /\ Len(SubSeq(s, 1, i - 1)) = (IF 1 <= i - 1 THEN i - 1 - 1 + 1 ELSE 0)
        /\ \A j \in 1..(i - 1 - 1 + 1) : SubSeq(s, 1, i - 1)[j] = s[1 + j - 1]
    BY <1>1, <2>1, SubSeqProperties
  <2> HIDE DEF a
  <2>3. a \in Seq(R) /\ Len(a) = (IF 1 <= i - 1 THEN i - 1 - 1 + 1 ELSE 0)
        /\ \A j \in 1..(i - 1 - 1 + 1) : a[j] = s[1 + j - 1]
    BY <2>2 DEF a
  <2>4. Len(a) = i - 1 BY <1>1, <2>3
  <2>5. ASSUME NEW j \in 1..(i - 1) PROVE a[j] = s[j]
    <3>1. j \in 1..(i - 1 - 1 + 1) /\ 1 + j - 1 = j BY <1>1
    <3> QED BY <2>3, <3>1
  <2> QED BY <2>3, <2>4, <2>5
<1>4. b \in Seq(R) /\ Len(b) = Len(s) - i /\ \A j \in 1..(Len(s) - i) : b[j] = s[i + j]
  <2>1. \A j \in (i + 1)..Len(s) : s[j] \in R BY <1>1, <1>2
  <2> HIDE DEF R
  <2>2. SubSeq(s, i + 1, Len(s)) \in Seq(R)
        /\ Len(SubSeq(s, i + 1, Len(s))) = (IF i + 1 <= Len(s) THEN Len(s) - (i + 1) + 1 ELSE 0)
        /\ \A j \in 1..(Len(s) - (i + 1) + 1) : SubSeq(s, i + 1, Len(s))[j] = s[(i + 1) + j - 1]
    BY <1>1, <2>1, SubSeqProperties
  <2> HIDE DEF b
  <2>3. b \in Seq(R) /\ Len(b) = (IF i + 1 <= Len(s) THEN Len(s) - (i + 1) + 1 ELSE 0)
        /\ \A j \in 1..(Len(s) - (i + 1) + 1) : b[j] = s[(i + 1) + j - 1]
    BY <2>2 DEF b
  <2>4. Len(b) = Len(s) - i BY <1>1, <2>3
  <2>5. ASSUME NEW j \in 1..(Len(s) - i) PROVE b[j] = s[i + j]
    <3>1. j \in 1..(Len(s) - (i + 1) + 1) /\ (i + 1) + j - 1 = i + j BY <1>1
    <3> QED BY <2>3, <3>1
  <2> QED BY <2>3, <2>4, <2>5
<1> HIDE DEF a, b, R
<1>5. t \in Seq(R) /\ Len(t) = Len(s) - 1 /\ DOMAIN t = 1..(Len(s) - 1)
      /\ \A j \in 1..(Len(s) - 1) : t[j] = IF j < i THEN s[j] ELSE s[j + 1]
  <2>1. t \in Seq(R) /\ Len(t) = Len(a) + Len(b) /\ \A j \in 1..(Len(a) + Len(b)) : t[j] = IF j <= Len(a) THEN a[j] ELSE b[j - Len(a)]
    BY <1>3, <1>4, ConcatProperties
  <2>2. DOMAIN t = 1..Len(t) BY <2>1, LenProperties
  <2> HIDE DEF t
  <2>3. Len(t) = Len(s) - 1 BY <1>1, <1>3, <1>4, <2>1
  <2>4. ASSUME NEW j \in 1..(Len(s) - 1) PROVE t[j] = IF j < i THEN s[j] ELSE s[j + 1]
    <3>1. t[j] = IF j <= i - 1 THEN a[j] ELSE b[j - (i - 1)] BY <1>1, <1>3, <1>4, <2>1
    <3>2. CASE j < i BY <1>1, <1>3, <3>1, <3>2
    <3>3. CASE ~(j < i)
      <4>1. j - (i - 1) \in 1..(Len(s) - i) /\ i + (j - (i - 1)) = j + 1 BY <1>1, <3>3
      <4> QED BY <1>1, <1>4, <3>1, <3>3, <4>1
    <3> QED BY <3>2, <3>3
  <2> QED BY <2>1, <2>2, <2>3, <2>4
<1> HIDE DEF t
<1>6. ASSUME NEW j \in DOMAIN t, NEW k \in DOMAIN t, t[j] = t[k] PROVE j = k
  <2> DEFINE at(n) == IF n < i THEN n ELSE n + 1
  <2>1. /\ at(j) \in DOMAIN s /\ at(k) \in DOMAIN s /\ s[at(j)] = t[j] /\ s[at(k)] = t[k] /\ j \in Int /\ k \in Int
    BY <1>1, <1>5
  <2>2. at(j) = at(k) BY <1>6, <2>1 DEF Once
  <2> QED BY <1>1, <2>1, <2>2
<1> QED BY <1>5, <1>6 DEF Once, RemoveAt, t, a, b, R

--------------------------------
(* Steps. *)

\* What the membership cache does when a key is looked up.
LEMMA LookedUp ==
    ASSUME DigestInv, NEW key, Looked(key) \/ UNCHANGED remembered
    PROVE  remembered' \in Seq(membership) /\ Once(remembered')
<1>1. remembered \in Seq(membership) /\ Once(remembered) BY CacheTyped
<1>2. CASE key \in membership /\ key \notin Range(remembered) /\ remembered' = Remember(remembered, key)
  BY <1>1, <1>2, RememberOnce
<1>3. CASE UNCHANGED remembered BY <1>1, <1>3
<1> QED BY <1>2, <1>3 DEF Looked

LEMMA MemberIsRow ==
    ASSUME DigestInv, NEW key, IsMember(key)
    PROVE  key \in membership
  BY CacheTyped DEF IsMember

\* One reader moves; the rows stay.
LEMMA ReaderMoves ==
    ASSUME DigestInv, NEW q \in DigestReaders, NEW r \in ReadRequest, reader' = [reader EXCEPT ![q] = r],
           Entitled(r, membership), UNCHANGED membership, remembered' \in Seq(membership), Once(remembered')
    PROVE  DigestInv'
<1>1. reader' \in [DigestReaders -> ReadRequest] /\ \A p \in DigestReaders : reader'[p] = IF p = q THEN r ELSE reader[p]
  BY DEF DigestInv
<1>2. \A p \in DigestReaders : Entitled(reader'[p], membership) BY <1>1, ReaderFacts
<1>3. (\A p \in DigestReaders : Entitled(reader[p], membership))' BY <1>2 DEF Entitled, KeyOf
<1> QED BY <1>1, <1>3 DEF DigestInv, Once

\* The reader goes to another place.
LEMMA ReaderGoesInv ==
    ASSUME DigestInv, NEW q \in DigestReaders, NEW at \in ReaderPlaces, ReaderGoes(q, at), reader[q].at \in InWork,
           at = "served" /\ reader[q].digest \in BlobDigests => KeyOf(reader[q]) \in membership,
           UNCHANGED membership, remembered' \in Seq(membership), Once(remembered')
    PROVE  DigestInv'
<1> DEFINE r == [reader[q] EXCEPT !.at = at]
<1>1. reader' = [reader EXCEPT ![q] = r] BY DEF ReaderGoes
<1>2. r \in ReadRequest /\ r.at = at /\ r.repo = reader[q].repo /\ r.digest = reader[q].digest
      /\ r.entitled = reader[q].entitled
  BY ReaderFacts DEF ReadRequest
<1> HIDE DEF r
<1>3. Entitled(r, membership) BY <1>2, ReaderFacts DEF Entitled, KeyOf
<1> QED BY <1>1, <1>2, <1>3, ReaderMoves

LEMMA AsksInv ==
    ASSUME DigestInv, NEW q \in DigestReaders, NEW repo \in Repos, NEW d \in Digests,
           NEW at \in {"served", "gate", "refused"}, Asks(q, <<repo, d>>, at),
           at = "served" /\ d \in BlobDigests => <<repo, d>> \in membership,
           UNCHANGED membership, remembered' \in Seq(membership), Once(remembered')
    PROVE  DigestInv'
<1>1. PICK e \in BOOLEAN : e = (<<repo, d>> \in membership)
  <2> DEFINE b == <<repo, d>> \in membership
  <2>1. b \in BOOLEAN OBVIOUS
  <2>2. b = (<<repo, d>> \in membership) OBVIOUS
  <2> HIDE DEF b
  <2> QED BY <2>1, <2>2
<1> DEFINE r == [at |-> at, repo |-> repo, digest |-> d, entitled |-> e]
<1>2. reader' = [reader EXCEPT ![q] = r] BY <1>1 DEF Asks
<1>3. r \in ReadRequest BY DEF ReadRequest, ReaderPlaces
<1>4. r.at = at /\ r.repo = repo /\ r.digest = d /\ r.entitled = e OBVIOUS
<1> HIDE DEF r
<1>5. Entitled(r, membership) BY <1>1, <1>4 DEF Entitled, KeyOf
<1> QED BY <1>2, <1>3, <1>5, ReaderMoves

LEMMA AskingInv ==
    ASSUME DigestInv, NEW q \in DigestReaders, NEW repo \in Repos, NEW d \in Digests,
           ServeBlob(q, <<repo, d>>) \/ ServeManifest(q, <<repo, d>>)
    PROVE  DigestInv'
<1> DEFINE key == <<repo, d>>
<1>1. key[1] = repo /\ key[2] = d OBVIOUS
<1> HIDE DEF key
<1>2. CASE ServeBlob(q, key)
  <2>1. UNCHANGED membership /\ (Looked(key) \/ UNCHANGED remembered) BY <1>2 DEF ServeBlob
  <2>2. PICK at \in {"served", "gate", "refused"} : Asks(q, key, at) /\ (at = "served" => BlobAuthorized(key))
    <3>1. CASE BlobAuthorized(key) BY <1>2, <3>1 DEF ServeBlob
    <3>2. CASE ~BlobAuthorized(key) BY <1>2, <3>2 DEF ServeBlob
    <3> QED BY <3>1, <3>2
  <2>3. at = "served" => key \in membership BY <2>2, MemberIsRow DEF BlobAuthorized
  <2> QED BY <2>1, <2>2, <2>3, LookedUp, AsksInv DEF key
<1>3. CASE ServeManifest(q, key)
  <2>1. UNCHANGED membership /\ UNCHANGED remembered /\ key[2] \in ManifestDigests BY <1>3 DEF ServeManifest
  <2>2. PICK at \in {"served", "gate", "refused"} : Asks(q, key, at)
    <3>1. CASE ManifestAuthorized(key) BY <1>3, <3>1 DEF ServeManifest
    <3>2. CASE ~ManifestAuthorized(key) BY <1>3, <3>2 DEF ServeManifest
    <3> QED BY <3>1, <3>2
  <2>3. d \notin BlobDigests BY <1>1, <2>1, ProxyAssumption
  <2> QED BY <2>1, <2>2, <2>3, LookedUp, AsksInv DEF key
<1> QED BY <1>2, <1>3 DEF key

\* Rows are recorded, and the requests under way for them are entitled; one of them may go on.
Enters(old, rows, at) ==
    [old EXCEPT !.at = at, !.entitled = old.entitled \/ KeyOf(old) \in rows]

LEMMA RowsRecorded ==
    ASSUME DigestInv, NEW rows, NEW q \in DigestReaders, NEW r \in ReadRequest, Entitled(r, membership \cup rows),
           membership' = membership \cup rows,
           reader' \in [DigestReaders -> ReadRequest],
           \A p \in DigestReaders : (reader'[p] = r /\ p = q) \/ reader'[p] = Enters(reader[p], rows, reader[p].at),
           UNCHANGED remembered
    PROVE  DigestInv'
<1>1. remembered' \in Seq(membership') /\ Once(remembered') BY CacheTyped, SeqMonotonic
<1>2. ASSUME NEW p \in DigestReaders PROVE Entitled(reader'[p], membership')
  <2>1. CASE reader'[p] = r BY <2>1
  <2>2. CASE reader'[p] = Enters(reader[p], rows, reader[p].at)
    <3> DEFINE n == Enters(reader[p], rows, reader[p].at)
    <3>1. reader[p] \in ReadRequest /\ Entitled(reader[p], membership) BY ReaderFacts
    <3>2. n.at = reader[p].at /\ n.repo = reader[p].repo /\ n.digest = reader[p].digest
          /\ n.entitled = (reader[p].entitled \/ KeyOf(reader[p]) \in rows)
      BY <3>1 DEF Enters, ReadRequest
    <3> HIDE DEF n
    <3>3. KeyOf(n) = KeyOf(reader[p]) BY <3>2 DEF KeyOf
    <3>4. Entitled(n, membership \cup rows) BY <3>1, <3>2, <3>3 DEF Entitled
    <3> QED BY <2>2, <3>4 DEF n
  <2> QED BY <2>1, <2>2
<1>3. (\A p \in DigestReaders : Entitled(reader[p], membership))' BY <1>2 DEF Entitled, KeyOf
<1> QED BY <1>1, <1>3 DEF DigestInv, Once

LEMMA EntersTyped ==
    ASSUME DigestInv, NEW p \in DigestReaders, NEW rows, NEW at \in ReaderPlaces
    PROVE  Enters(reader[p], rows, at) \in ReadRequest
           /\ Enters(reader[p], rows, at).at = at /\ KeyOf(Enters(reader[p], rows, at)) = KeyOf(reader[p])
           /\ (KeyOf(reader[p]) \in rows => Enters(reader[p], rows, at).entitled)
<1>1. reader[p] \in ReadRequest BY ReaderFacts
<1>2. PICK e \in BOOLEAN : e = (reader[p].entitled \/ KeyOf(reader[p]) \in rows) OBVIOUS
<1>3. Enters(reader[p], rows, at) = [reader[p] EXCEPT !.at = at, !.entitled = e] BY <1>2 DEF Enters
<1> DEFINE r == [reader[p] EXCEPT !.at = at, !.entitled = e]
<1>4. r \in ReadRequest /\ r.at = at /\ r.repo = reader[p].repo /\ r.digest = reader[p].digest /\ r.entitled = e
  BY <1>1 DEF ReadRequest
<1> HIDE DEF r
<1>5. KeyOf(r) = KeyOf(reader[p]) BY <1>4 DEF KeyOf
<1> QED BY <1>2, <1>3, <1>4, <1>5 DEF r

LEMMA RecordsInv ==
    ASSUME DigestInv, NEW q \in DigestReaders, Records({KeyOf(reader[q])}, q, "served"), UNCHANGED remembered
    PROVE  DigestInv'
<1> DEFINE rows == {KeyOf(reader[q])}
           r == Enters(reader[q], rows, "served")
<1>1. "served" \in ReaderPlaces /\ \A p \in DigestReaders : reader[p].at \in ReaderPlaces
  BY ReaderFacts DEF ReaderPlaces, ReadRequest
<1>2. membership' = membership \cup rows
      /\ reader' = [p \in DigestReaders |-> Enters(reader[p], rows, IF p = q THEN "served" ELSE reader[p].at)]
  BY DEF Records, Enters, KeyOf
<1>3. r \in ReadRequest /\ r.entitled BY <1>1, EntersTyped
<1>4. Entitled(r, membership \cup rows)
  <2> HIDE DEF r
  <2> QED BY <1>3 DEF Entitled
<1>5. \A p \in DigestReaders : Enters(reader[p], rows, IF p = q THEN "served" ELSE reader[p].at) \in ReadRequest
  BY <1>1, EntersTyped
<1> HIDE DEF rows
<1>6. reader' \in [DigestReaders -> ReadRequest]
      /\ \A p \in DigestReaders : (reader'[p] = r /\ p = q) \/ reader'[p] = Enters(reader[p], rows, reader[p].at)
  BY <1>2, <1>5
<1> HIDE DEF r
<1> QED BY <1>2, <1>3, <1>4, <1>6, RowsRecorded

LEMMA NewReaderTyped == NewReader \in ReadRequest /\ \A rows : Entitled(NewReader, rows)
  BY DEF NewReader, ReadRequest, ReaderPlaces, Entitled, InWork

LEMMA EnsureBlobInv ==
    ASSUME DigestInv, NEW q \in DigestReaders, EnsureBlob(q)
    PROVE  DigestInv'
<1> DEFINE key == KeyOf(reader[q])
<1>1. reader[q].at \in InWork /\ UNCHANGED membership /\ (Looked(key) \/ UNCHANGED remembered)
  BY DEF EnsureBlob, InWork, KeyOf
<1>2. remembered' \in Seq(membership) /\ Once(remembered') BY <1>1, LookedUp
<1>3. PICK at \in {"served", "probe", "fetch"} : ReaderGoes(q, at) /\ (at = "served" => BlobAuthorized(key))
  <2>1. CASE BlobAuthorized(key) BY <2>1 DEF EnsureBlob, KeyOf
  <2>2. CASE ~BlobAuthorized(key) BY <2>2 DEF EnsureBlob, KeyOf
  <2> QED BY <2>1, <2>2
<1>4. at = "served" => key \in membership BY <1>3, MemberIsRow DEF BlobAuthorized
<1>5. at \in ReaderPlaces BY DEF ReaderPlaces
<1> QED BY <1>1, <1>2, <1>3, <1>4, <1>5, ReaderGoesInv

\* What a reader does that neither finds a row nor records one.
LEMMA PullManifestInv ==
    ASSUME DigestInv, NEW q \in DigestReaders, PullManifest(q)
    PROVE  DigestInv'
<1>1. reader[q].at \in InWork /\ reader[q].digest \notin BlobDigests /\ UNCHANGED <<membership, remembered>>
  BY ProxyAssumption DEF PullManifest, InWork
<1>2. PICK at \in {"served", "fetch"} : ReaderGoes(q, at) BY DEF PullManifest
<1>3. at \in ReaderPlaces BY DEF ReaderPlaces
<1> QED BY <1>1, <1>2, <1>3, CacheTyped, ReaderGoesInv

LEMMA FetchInv ==
    ASSUME DigestInv, NEW q \in DigestReaders, FetchBlob(q) \/ FetchManifest(q)
    PROVE  DigestInv'
<1>1. reader[q].at \in InWork /\ UNCHANGED <<membership, remembered>> BY DEF FetchBlob, FetchManifest, InWork
<1>2. PICK at \in {"store", "refused"} : ReaderGoes(q, at) BY DEF FetchBlob, FetchManifest
<1>3. at \in ReaderPlaces /\ at # "served" BY DEF ReaderPlaces
<1> QED BY <1>1, <1>2, <1>3, CacheTyped, ReaderGoesInv

LEMMA ProbeOrStoreInv ==
    ASSUME DigestInv, NEW q \in DigestReaders, ProbeBlob(q) \/ StoreRow(q)
    PROVE  DigestInv'
<1>1. reader[q].at \in InWork /\ UNCHANGED remembered BY DEF ProbeBlob, StoreRow, InWork
<1>2. CASE Records({KeyOf(reader[q])}, q, "served") BY <1>1, <1>2, RecordsInv
<1>3. CASE ReaderGoes(q, "refused") /\ UNCHANGED membership
  <2>1. "refused" \in ReaderPlaces BY DEF ReaderPlaces
  <2> QED BY <1>1, <1>3, <2>1, CacheTyped, ReaderGoesInv
<1> QED BY <1>2, <1>3 DEF ProbeBlob, StoreRow, KeyOf

LEMMA HeadBlobInv ==
    ASSUME DigestInv, NEW q \in DigestReaders, NEW repo \in Repos, NEW d \in Digests, HeadBlob(q, repo, d)
    PROVE  DigestInv'
<1> DEFINE rows == {<<repo, d>>}
<1>1. /\ membership' = membership \cup rows /\ UNCHANGED remembered
      /\ reader' = [p \in DigestReaders |-> IF p = q THEN NewReader ELSE Enters(reader[p], rows, reader[p].at)]
  <2>1. \A p \in DigestReaders :
          [reader[p] EXCEPT !.entitled = @ \/ <<reader[p].repo, reader[p].digest>> = <<repo, d>>]
            = Enters(reader[p], rows, reader[p].at)
    BY ReaderFacts DEF Enters, KeyOf, ReadRequest
  <2> HIDE DEF rows
  <2> QED BY <2>1 DEF HeadBlob, rows
<1>2. \A p \in DigestReaders : Enters(reader[p], rows, reader[p].at) \in ReadRequest
  <2>1. \A p \in DigestReaders : reader[p].at \in ReaderPlaces BY ReaderFacts DEF ReadRequest
  <2> QED BY <2>1, EntersTyped
<1> HIDE DEF rows
<1>3. reader' \in [DigestReaders -> ReadRequest]
      /\ \A p \in DigestReaders : (reader'[p] = NewReader /\ p = q) \/ reader'[p] = Enters(reader[p], rows, reader[p].at)
  BY <1>1, <1>2, NewReaderTyped
<1> QED BY <1>1, <1>3, NewReaderTyped, RowsRecorded

LEMMA PushContentInv ==
    ASSUME DigestInv, NEW repo \in Repos, NEW d \in Digests, PushContent(repo, d)
    PROVE  DigestInv'
<1> DEFINE rows == {<<repo, d>>}
<1>1. /\ membership' = membership \cup rows /\ UNCHANGED remembered
      /\ reader' = [p \in DigestReaders |-> Enters(reader[p], rows, reader[p].at)]
  <2>1. \A p \in DigestReaders :
          [reader[p] EXCEPT !.entitled = @ \/ <<reader[p].repo, reader[p].digest>> = <<repo, d>>]
            = Enters(reader[p], rows, reader[p].at)
    BY ReaderFacts DEF Enters, KeyOf, ReadRequest
  <2> HIDE DEF rows
  <2> QED BY <2>1 DEF PushContent, rows
<1>2. \A p \in DigestReaders : Enters(reader[p], rows, reader[p].at) \in ReadRequest
  <2>1. \A p \in DigestReaders : reader[p].at \in ReaderPlaces BY ReaderFacts DEF ReadRequest
  <2> QED BY <2>1, EntersTyped
<1> HIDE DEF rows
<1>3. reader' \in [DigestReaders -> ReadRequest]
      /\ \A p \in DigestReaders : reader'[p] = Enters(reader[p], rows, reader[p].at)
  BY <1>1, <1>2
<1>4. CASE \E q : q \in DigestReaders
  <2>1. PICK q : q \in DigestReaders BY <1>4
  <2> QED BY <1>1, <1>3, <2>1, NewReaderTyped, RowsRecorded
<1>5. CASE DigestReaders = {}
  <2>1. remembered' \in Seq(membership') /\ Once(remembered') BY <1>1, CacheTyped, SeqMonotonic
  <2> QED BY <1>3, <1>5, <2>1 DEF DigestInv, Once
<1> QED BY <1>4, <1>5

LEMMA DeleteBlobRowInv ==
    ASSUME DigestInv, NEW repo \in Repos, NEW d \in Digests, DeleteBlobRow(repo, d)
    PROVE  DigestInv'
<1> DEFINE key == <<repo, d>>
<1>1. membership' = membership \ {key} /\ UNCHANGED reader BY DEF DeleteBlobRow
<1>2. IF key \in Range(remembered)
      THEN \E i \in DOMAIN remembered : remembered[i] = key /\ remembered' = RemoveAt(remembered, i)
      ELSE UNCHANGED remembered
  BY DEF DeleteBlobRow
<1> HIDE DEF key
<1>3. remembered' \in Seq(membership') /\ Once(remembered')
  <2>1. CASE key \in Range(remembered)
    <3>1. PICK i \in DOMAIN remembered : remembered[i] = key /\ remembered' = RemoveAt(remembered, i) BY <1>2, <2>1
    <3> QED BY <1>1, <3>1, CacheTyped, RemoveOnce
  <2>2. CASE key \notin Range(remembered)
    <3>1. \A i \in 1..Len(remembered) : remembered[i] \in membership \ {key} BY <2>2, CacheTyped DEF Range
    <3>2. remembered = [i \in 1..Len(remembered) |-> remembered[i]] BY CacheTyped
    <3>3. [i \in 1..Len(remembered) |-> remembered[i]] \in Seq(membership \ {key}) BY <3>1, CacheTyped, IsASeq
    <3> QED BY <1>1, <1>2, <2>2, <3>2, <3>3, CacheTyped
  <2> QED BY <2>1, <2>2
<1>4. \A p \in DigestReaders : Entitled(reader[p], membership') BY <1>1, ReaderFacts DEF Entitled
<1>5. (\A p \in DigestReaders : Entitled(reader[p], membership))' BY <1>1, <1>4 DEF Entitled, KeyOf
<1>6. (reader \in [DigestReaders -> ReadRequest])' BY <1>1 DEF DigestInv
<1> QED BY <1>3, <1>5, <1>6 DEF DigestInv, Once

LEMMA ContentInitInv ==
    ASSUME ContentInit
    PROVE  DigestInv
<1>1. remembered \in Seq(membership) /\ Once(remembered) BY EmptySeq DEF ContentInit, Once
<1> QED BY <1>1, NewReaderTyped DEF ContentInit, DigestInv

LEMMA ContentNextInv ==
    ASSUME DigestInv, [ContentNext]_contentVars
    PROVE  DigestInv'
<1>1. CASE UNCHANGED <<membership, remembered, reader>> BY <1>1 DEF DigestInv, Entitled, KeyOf, Once
<1>2. CASE UNCHANGED contentVars BY <1>1, <1>2 DEF contentVars
<1>3. ASSUME NEW key, UpstreamChanges(key) PROVE DigestInv' BY <1>1, <1>3 DEF UpstreamChanges
<1> QED
  BY <1>2, <1>3, AskingInv, EnsureBlobInv, PullManifestInv, ProbeOrStoreInv, FetchInv, HeadBlobInv, PushContentInv,
     DeleteBlobRowInv DEF ContentNext

LEMMA BlobsStayFollows ==
    ASSUME DigestInv
    PROVE  BlobsStayInTheirRepository
<1>1. \A q \in DigestReaders : reader[q].at = "served" /\ reader[q].digest \in BlobDigests => reader[q].entitled
  BY DEF DigestInv, Entitled
<1> QED BY <1>1, CacheTyped DEF BlobsStayInTheirRepository, IsInjective, Once

--------------------------------
(* A client that resumes a session finds there the units it was told were    *)
(* accepted and no others (PatchBody, UploadStore::write); a tag answered    *)
(* from the proxy names what the upstream held no longer ago than the path   *)
(* of the answer allows (TagFromCache, Revalidated); and a blob of a proxied *)
(* repository is served only to a request whose repository had a row for it  *)
(* (BlobAuthorized).  Each part has an inductive invariant of its own.       *)
THEOREM ConversationsStaySound == UploadSpec /\ TagSpec /\ DigestSpec => []ConversationsHold
<1>1. UploadSpec => []UploadInv BY UploadInitInv, UploadNextInv, PTL DEF UploadSpec
<1>2. TagSpec => []TagInv BY TagInitInv, TagNextInv, PTL DEF TagSpec
<1>3. DigestSpec => []DigestInv BY ContentInitInv, ContentNextInv, PTL DEF DigestSpec
<1>4. UploadInv /\ TagInv /\ DigestInv => ConversationsHold
  BY UploadsResumeFollows, TagsFollowUpstreamFollows, BlobsStayFollows DEF ConversationsHold, ProxyIsSound
<1> QED BY <1>1, <1>2, <1>3, <1>4, PTL

--------------------------------
(* Bearer tokens.  What a request attached and what it holds was minted for  *)
(* its own credentials, host and repository; the ids of the tokens grow, so  *)
(* the token of a replay is not the one that was refused.                    *)

Fits(token, p, n) ==
    \/ token = NoToken
    \/ token.id \in 1..n /\ token.identity = p.identity /\ token.base = p.base /\ token.scope = p.repo

Bore(q, n) ==
    \/ q.bore = <<>>
    \/ \E t : Fits(t, q.proxy, n) /\ q.bore = <<t>>
    \/ \E t, u : Fits(t, q.proxy, n) /\ Fits(u, q.proxy, n) /\ t.id < u.id /\ q.bore = <<t, u>>

SendIsSound(q, n) ==
    /\ q = [at |-> q.at, proxy |-> q.proxy, token |-> q.token, bore |-> q.bore]
    /\ q.at # "idle" => q.proxy \in Proxies
    /\ Fits(q.token, q.proxy, n)
    /\ Bore(q, n)
    /\ q.at \in {"attempt", "challenged"} => q.bore = <<q.token>>
    /\ q.at = "mint" => \E t : Fits(t, q.proxy, n) /\ t.id < q.token.id /\ q.bore = <<t>>

Minted == Cardinality(mintedTokens)

MintInv == IsFiniteSet(mintedTokens) /\ \A t \in mintedTokens : t.id \in 1..Minted
CacheInv == /\ DOMAIN tokenCache = {CacheKey(p) : p \in Proxies}
            /\ \A p \in Proxies : Fits(tokenCache[CacheKey(p)], p, Minted)
SendInv == DOMAIN send = Sends /\ \A s \in Sends : SendIsSound(send[s], Minted)

TokenInv == MintInv /\ CacheInv /\ SendInv

LEMMA FitsGrows ==
    ASSUME NEW token, NEW p, NEW n \in Nat, NEW m \in Nat, n <= m, Fits(token, p, n)
    PROVE  Fits(token, p, m)
BY DEF Fits

LEMMA AppendToOne ==
    ASSUME NEW t, NEW u
    PROVE  Append(<<t>>, u) = <<t, u>>
<1> DEFINE both == Append(<<t>>, u)
<1>1. <<t>> \in Seq({t, u}) /\ Len(<<t>>) = 1 OBVIOUS
<1>2. both \in Seq({t, u}) /\ Len(both) = 2 /\ both[1] = t /\ both[2] = u BY <1>1, AppendProperties
<1>3. <<t, u>> \in Seq({t, u}) /\ Len(<<t, u>>) = 2 /\ <<t, u>>[1] = t /\ <<t, u>>[2] = u OBVIOUS
<1> HIDE DEF both
<1>4. \A i \in 1..2 : both[i] = <<t, u>>[i] BY <1>2, <1>3
<1> QED BY <1>2, <1>3, <1>4, SeqEqual DEF both

LEMMA SendsGrow ==
    ASSUME NEW q, NEW n \in Nat, NEW m \in Nat, n <= m, SendIsSound(q, n)
    PROVE  SendIsSound(q, m)
<1>1. Bore(q, m)
  <2>1. CASE q.bore = <<>> BY <2>1 DEF Bore
  <2>2. CASE \E t : Fits(t, q.proxy, n) /\ q.bore = <<t>> BY <2>2, FitsGrows DEF Bore
  <2>3. CASE \E t, u : Fits(t, q.proxy, n) /\ Fits(u, q.proxy, n) /\ t.id < u.id /\ q.bore = <<t, u>>
    <3>1. PICK t, u : Fits(t, q.proxy, n) /\ Fits(u, q.proxy, n) /\ t.id < u.id /\ q.bore = <<t, u>> BY <2>3
    <3>2. Fits(t, q.proxy, m) /\ Fits(u, q.proxy, m) BY <3>1, FitsGrows
    <3> QED BY <3>1, <3>2 DEF Bore
  <2> QED BY <2>1, <2>2, <2>3 DEF SendIsSound, Bore
<1>2. Fits(q.token, q.proxy, m) BY FitsGrows DEF SendIsSound
<1>3. q.at = "mint" => \E t : Fits(t, q.proxy, m) /\ t.id < q.token.id /\ q.bore = <<t>> BY FitsGrows DEF SendIsSound
<1> QED BY <1>1, <1>2, <1>3 DEF SendIsSound

LEMMA OneMore ==
    ASSUME MintInv, NEW token, token.id = Minted + 1
    PROVE  /\ IsFiniteSet(mintedTokens \cup {token})
           /\ Cardinality(mintedTokens \cup {token}) = Minted + 1
           /\ Minted \in Nat
<1>1. Minted \in Nat BY FS_CardinalityType DEF MintInv, Minted
<1>2. token \notin mintedTokens BY <1>1 DEF MintInv
<1> QED BY <1>1, <1>2, FS_AddElement DEF MintInv, Minted

LEMMA TokenStarts == TokenInit => TokenInv
<1> SUFFICES ASSUME TokenInit PROVE TokenInv OBVIOUS
<1>1. Minted = 0 /\ MintInv BY FS_EmptySet DEF TokenInit, Minted, MintInv
<1>2. CacheInv BY DEF TokenInit, CacheInv, Fits
<1>3. SendIsSound(Unsent, Minted) BY DEF SendIsSound, Unsent, Fits, Bore
<1> QED BY <1>1, <1>2, <1>3 DEF TokenInit, TokenInv, SendInv

LEMMA OneSend ==
    ASSUME TokenInv, NEW s \in Sends, NEW q, SendIsSound(q, Minted), send' = [send EXCEPT ![s] = q],
           UNCHANGED <<tokenCache, mintedTokens>>
    PROVE  TokenInv'
<1>1. \A z \in Sends : SendIsSound(send'[z], Minted) BY DEF TokenInv, SendInv
<1>2. Minted' = Minted BY DEF Minted
<1>3. SendInv' BY <1>1, <1>2 DEF TokenInv, SendInv
<1> QED BY <1>2, <1>3 DEF TokenInv, MintInv, CacheInv

LEMMA TokenSteps == TokenInv /\ [TokenNext]_tokenVars => TokenInv'
<1> SUFFICES ASSUME TokenInv, [TokenNext]_tokenVars PROVE TokenInv' OBVIOUS
<1>n. Minted \in Nat BY FS_CardinalityType DEF TokenInv, MintInv, Minted
<1>1. ASSUME NEW s \in Sends, NEW p \in Proxies, BeginSend(s, p) PROVE TokenInv'
  <2> DEFINE token == tokenCache[CacheKey(p)]
             q == [at |-> "attempt", proxy |-> p, token |-> token, bore |-> <<token>>]
  <2>1. Fits(token, p, Minted) BY DEF TokenInv, CacheInv
  <2> HIDE DEF token
  <2>2. SendIsSound(q, Minted) BY <2>1 DEF SendIsSound, Bore
  <2>3. send' = [send EXCEPT ![s] = q] /\ UNCHANGED <<tokenCache, mintedTokens>> BY <1>1 DEF BeginSend, token
  <2> HIDE DEF q
  <2> QED BY <2>2, <2>3, OneSend
<1>2. ASSUME NEW s \in Sends, Attempt(s) PROVE TokenInv'
  <2>1. PICK at \in {"done", "failed", "challenged"} :
           /\ send' = [send EXCEPT ![s].at = at]
           /\ at = "challenged" => send[s].at = "attempt"
           /\ send[s].at \in {"attempt", "replay"}
           /\ UNCHANGED <<tokenCache, mintedTokens>>
    BY <1>2 DEF Attempt
  <2>2. SendIsSound(send[s], Minted) BY DEF TokenInv, SendInv
  <2> DEFINE q == [send[s] EXCEPT !.at = at]
  <2>3. /\ q = [at |-> q.at, proxy |-> q.proxy, token |-> q.token, bore |-> q.bore]
        /\ q.at = at /\ q.proxy = send[s].proxy /\ q.token = send[s].token /\ q.bore = send[s].bore
    BY <2>2 DEF SendIsSound
  <2>4. send' = [send EXCEPT ![s] = q] BY <2>1
  <2> HIDE DEF q
  <2>5. SendIsSound(q, Minted) BY <2>1, <2>2, <2>3 DEF SendIsSound, Bore
  <2> QED BY <2>1, <2>4, <2>5, OneSend
<1>3. ASSUME NEW s \in Sends, FetchToken(s) PROVE TokenInv'
  <2> DEFINE p == send[s].proxy
             token == [id |-> Minted + 1, identity |-> p.identity, base |-> p.base, scope |-> p.repo]
  <2>1. SendIsSound(send[s], Minted) /\ send[s].at = "challenged" BY <1>3 DEF TokenInv, SendInv, FetchToken
  <2>2. CASE send' = [send EXCEPT ![s].at = "failed"] /\ UNCHANGED <<mintedTokens, tokenCache>>
    <3> DEFINE q == [send[s] EXCEPT !.at = "failed"]
    <3>1. /\ q = [at |-> q.at, proxy |-> q.proxy, token |-> q.token, bore |-> q.bore]
          /\ q.at = "failed" /\ q.proxy = send[s].proxy /\ q.token = send[s].token /\ q.bore = send[s].bore
      BY <2>1 DEF SendIsSound
    <3>2. send' = [send EXCEPT ![s] = q] BY <2>2
    <3> HIDE DEF q
    <3>3. SendIsSound(q, Minted) BY <3>1, <2>1 DEF SendIsSound, Bore
    <3> QED BY <2>2, <3>2, <3>3, OneSend
  <2>3. CASE /\ mintedTokens' = mintedTokens \cup {token}
             /\ send' = [send EXCEPT ![s].at = "mint", ![s].token = token]
             /\ tokenCache' = tokenCache
    <3> DEFINE q == [at |-> "mint", proxy |-> send[s].proxy, token |-> token, bore |-> send[s].bore]
               mid == [send EXCEPT ![s].at = "mint"]
    <3>1. /\ send[s] = [at |-> send[s].at, proxy |-> send[s].proxy, token |-> send[s].token, bore |-> send[s].bore]
          /\ DOMAIN send = Sends
      BY <2>1 DEF SendIsSound, TokenInv, SendInv
    <3>2. send'[s] = q BY <3>1, <2>3
    <3>3. /\ Minted' = Minted + 1
          /\ \A t \in mintedTokens' : t.id \in 1..Minted'
          /\ IsFiniteSet(mintedTokens')
      <4>1. token.id = Minted + 1 OBVIOUS
      <4> HIDE DEF token
      <4>2. Cardinality(mintedTokens') = Minted + 1 /\ IsFiniteSet(mintedTokens') BY <4>1, <2>3, OneMore DEF TokenInv
      <4>3. Minted' = Minted + 1 BY <4>2 DEF Minted
      <4> QED BY <4>1, <4>2, <4>3, <2>3, <1>n DEF TokenInv, MintInv
    <3>4. SendIsSound(q, Minted + 1)
      <4>1. Fits(token, send[s].proxy, Minted + 1) /\ token.id = Minted + 1 BY <1>n DEF Fits
      <4>2. Fits(send[s].token, send[s].proxy, Minted) /\ send[s].bore = <<send[s].token>>
            /\ send[s].proxy \in Proxies
        BY <2>1 DEF SendIsSound
      <4>3. Fits(send[s].token, send[s].proxy, Minted + 1) /\ send[s].token.id < Minted + 1
        BY <4>2, <1>n DEF Fits, NoToken
      <4> HIDE DEF token
      <4>4. Bore(q, Minted + 1) BY <4>2, <4>3 DEF Bore
      <4> QED BY <4>1, <4>2, <4>3, <4>4 DEF SendIsSound
    <3>5. ASSUME NEW z \in Sends PROVE SendIsSound(send'[z], Minted + 1)
      <4>1. CASE z = s BY <4>1, <3>2, <3>4
      <4>2. CASE z # s
        <5>1. send'[z] = send[z] BY <4>2, <2>3, <3>1
        <5> QED BY <5>1, <1>n, SendsGrow DEF TokenInv, SendInv
      <4> QED BY <4>1, <4>2
    <3>6. DOMAIN send' = Sends BY <2>3, <3>1
    <3>7. ASSUME NEW z \in Proxies PROVE Fits(tokenCache'[CacheKey(z)], z, Minted + 1)
      BY <2>3, <1>n, FitsGrows DEF TokenInv, CacheInv
    <3> QED BY <2>3, <3>3, <3>5, <3>6, <3>7 DEF TokenInv, MintInv, CacheInv, SendInv
  <2> QED BY <1>3, <2>2, <2>3 DEF FetchToken, Minted
<1>4. ASSUME NEW s \in Sends, CacheToken(s) PROVE TokenInv'
  <2> DEFINE p == send[s].proxy
             token == send[s].token
             q == [at |-> "replay", proxy |-> p, token |-> token, bore |-> Append(send[s].bore, token)]
  <2>1. /\ SendIsSound(send[s], Minted) /\ send[s].at = "mint"
        /\ DOMAIN send = Sends
        /\ send[s] = [at |-> send[s].at, proxy |-> send[s].proxy, token |-> send[s].token, bore |-> send[s].bore]
    BY <1>4 DEF TokenInv, SendInv, CacheToken, SendIsSound
  <2>2. send'[s] = q BY <1>4, <2>1 DEF CacheToken
  <2>3. PICK t : Fits(t, p, Minted) /\ t.id < token.id /\ send[s].bore = <<t>> BY <2>1 DEF SendIsSound
  <2>4. p \in Proxies /\ Fits(token, p, Minted) BY <2>1 DEF SendIsSound
  <2>5. q.bore = <<t, token>>
    <3>1. Append(<<t>>, token) = <<t, token>> BY AppendToOne
    <3> QED BY <3>1, <2>3
  <2>6. Bore(q, Minted) BY <2>3, <2>4, <2>5 DEF Bore
  <2>7. SendIsSound(q, Minted) BY <2>4, <2>6 DEF SendIsSound
  <2>8. \A z \in Proxies : Fits(tokenCache'[CacheKey(z)], z, Minted)
    <3> SUFFICES ASSUME NEW z \in Proxies PROVE Fits(tokenCache'[CacheKey(z)], z, Minted) OBVIOUS
    <3>1. tokenCache' = [tokenCache EXCEPT ![CacheKey(p)] = token] BY <1>4 DEF CacheToken
    <3>2. CASE CacheKey(z) = CacheKey(p)
      <4>1. z.base = p.base /\ z.repo = p.repo /\ z.identity = p.identity BY <3>2 DEF CacheKey
      <4>2. tokenCache'[CacheKey(z)] = token BY <3>1, <3>2 DEF TokenInv, CacheInv
      <4> QED BY <4>1, <4>2, <2>4 DEF Fits
    <3>3. CASE CacheKey(z) # CacheKey(p) BY <3>1, <3>3 DEF TokenInv, CacheInv
    <3> QED BY <3>2, <3>3
  <2>9. DOMAIN tokenCache' = {CacheKey(z) : z \in Proxies} BY <1>4 DEF CacheToken, TokenInv, CacheInv
  <2>10. Minted' = Minted /\ mintedTokens' = mintedTokens BY <1>4 DEF CacheToken, Minted
  <2> HIDE DEF q
  <2>11. \A z \in Sends : SendIsSound(send'[z], Minted)
    <3> SUFFICES ASSUME NEW z \in Sends PROVE SendIsSound(send'[z], Minted) OBVIOUS
    <3>1. CASE z = s BY <3>1, <2>2, <2>7
    <3>2. CASE z # s
      <4>1. send'[z] = send[z] BY <3>2, <2>1, <1>4 DEF CacheToken
      <4> QED BY <4>1 DEF TokenInv, SendInv
    <3> QED BY <3>1, <3>2
  <2>12. DOMAIN send' = Sends BY <2>1, <1>4 DEF CacheToken
  <2> QED BY <2>8, <2>9, <2>10, <2>11, <2>12 DEF TokenInv, MintInv, CacheInv, SendInv
<1>5. ASSUME NEW s \in Sends, EndSend(s) PROVE TokenInv'
  <2>1. SendIsSound(Unsent, Minted) BY DEF SendIsSound, Unsent, Fits, Bore
  <2>2. send' = [send EXCEPT ![s] = Unsent] /\ UNCHANGED <<tokenCache, mintedTokens>> BY <1>5 DEF EndSend
  <2> QED BY <2>1, <2>2, OneSend
<1>6. ASSUME UNCHANGED <<tokenCache, mintedTokens, send>> PROVE TokenInv'
  BY <1>6 DEF TokenInv, MintInv, CacheInv, SendInv, Minted
<1> QED BY <1>1, <1>2, <1>3, <1>4, <1>5, <1>6 DEF TokenNext, tokenVars, ExpireToken

Owns(p, bore) ==
    \A i \in DOMAIN bore : bore[i] = NoToken \/
        (bore[i].identity = p.identity /\ bore[i].base = p.base /\ bore[i].scope = p.repo)

LEMMA BoreIsOwned ==
    ASSUME NEW q, NEW n \in Nat, Bore(q, n)
    PROVE  Owns(q.proxy, q.bore) /\ Len(q.bore) <= 2 /\ (Len(q.bore) = 2 => q.bore[1] # q.bore[2])
<1>1. CASE q.bore = <<>> BY <1>1 DEF Owns
<1>2. CASE \E t : Fits(t, q.proxy, n) /\ q.bore = <<t>> BY <1>2 DEF Owns, Fits
<1>3. CASE \E t, u : Fits(t, q.proxy, n) /\ Fits(u, q.proxy, n) /\ t.id < u.id /\ q.bore = <<t, u>>
  <2>1. PICK t, u : Fits(t, q.proxy, n) /\ Fits(u, q.proxy, n) /\ t.id < u.id /\ q.bore = <<t, u>> BY <1>3
  <2>2. t.id \in Int /\ u.id \in Int BY <2>1 DEF Fits, NoToken
  <2>3. t # u BY <2>1, <2>2
  <2> QED BY <2>1, <2>3 DEF Owns, Fits
<1> QED BY <1>1, <1>2, <1>3 DEF Bore

LEMMA TokensAreOwned == TokenInv => TokensStayWithTheirOwner
<1> SUFFICES ASSUME TokenInv PROVE TokensStayWithTheirOwner OBVIOUS
<1>1. Minted \in Nat BY FS_CardinalityType DEF TokenInv, MintInv, Minted
<1>2. ASSUME NEW s \in Sends
      PROVE  /\ Owns(send[s].proxy, send[s].bore)
             /\ Len(send[s].bore) <= 2 /\ (Len(send[s].bore) = 2 => send[s].bore[1] # send[s].bore[2])
  BY <1>1, BoreIsOwned DEF TokenInv, SendInv, SendIsSound
<1> QED BY <1>2 DEF TokensStayWithTheirOwner, Owns

--------------------------------
(* The pages of a tag list.  What was listed so far ends at the last tag of  *)
(* the page before and leaves out no tag up to there that stayed.            *)

Ascending(s) == \A i, j \in 1..Len(s) : i < j => s[i] < s[j]

LEMMA SetsHaveAnOrder ==
    ASSUME NEW S \in SUBSET Nat, IsFiniteSet(S)
    PROVE  \E page \in [1..Cardinality(S) -> S] :
              /\ \A i, j \in 1..Cardinality(S) : i < j => page[i] < page[j]
<1> DEFINE N == Cardinality(S)
           Below(x) == {y \in S : y <= x}
           rank == [x \in S |-> Cardinality(Below(x))]
<1>1. N \in Nat BY FS_CardinalityType
<1>2. ASSUME NEW x \in S PROVE IsFiniteSet(Below(x)) /\ rank[x] \in 1..N
  <2>1. IsFiniteSet(Below(x)) /\ Cardinality(Below(x)) <= N BY FS_Subset
  <2>2. Below(x) # {} OBVIOUS
  <2> HIDE DEF Below
  <2>3. Cardinality(Below(x)) \in Nat /\ Cardinality(Below(x)) # 0 BY <2>1, <2>2, FS_CardinalityType, FS_EmptySet
  <2> QED BY <2>1, <2>3, <1>1
<1>3. ASSUME NEW x \in S, NEW y \in S, x < y PROVE rank[x] < rank[y]
  <2>1. Below(x) \in SUBSET Below(y) /\ Below(x) # Below(y)
    <3>1. x \in Nat /\ y \in Nat OBVIOUS
    <3>2. y \in Below(y) /\ y \notin Below(x) BY <3>1, <1>3
    <3>3. ASSUME NEW z \in Below(x) PROVE z \in Below(y)
      <4>1. z \in S /\ z \in Nat /\ z <= x OBVIOUS
      <4> QED BY <4>1, <3>1, <1>3
    <3> QED BY <3>2, <3>3
  <2>2. IsFiniteSet(Below(y)) /\ rank[x] = Cardinality(Below(x)) /\ rank[y] = Cardinality(Below(y)) BY <1>2
  <2>3. rank[x] \in Int /\ rank[y] \in Int BY <1>2
  <2> HIDE DEF Below, rank
  <2>4. Cardinality(Below(x)) <= Cardinality(Below(y)) /\ Cardinality(Below(x)) # Cardinality(Below(y))
    BY <2>1, <2>2, FS_Subset
  <2> QED BY <2>2, <2>3, <2>4
<1>4. rank \in Injection(S, 1..N)
  <2>1. rank \in [S -> 1..N] BY <1>2
  <2>2. ASSUME NEW x \in S, NEW y \in S, rank[x] = rank[y] PROVE x = y
    <3>1. x \in Nat /\ y \in Nat /\ rank[x] \in Int /\ rank[y] \in Int BY <1>2
    <3> HIDE DEF rank
    <3>2. ~(x < y) /\ ~(y < x) BY <1>3, <2>2, <3>1
    <3> QED BY <3>1, <3>2
  <2> HIDE DEF rank
  <2> QED BY <2>1, <2>2 DEF Injection, IsInjective
<1>5. rank \in Surjection(S, 1..N)
  <2>1. IsFiniteSet(1..N) /\ Cardinality(1..N) = N BY FS_Interval, <1>1
  <2> HIDE DEF rank
  <2> QED BY <1>4, <2>1, FS_Injection
<1>6. \A i \in 1..N : \E x \in S : rank[x] = i BY <1>5 DEF Surjection
<1> DEFINE page == [i \in 1..N |-> CHOOSE x \in S : rank[x] = i]
<1>7. \A i \in 1..N : page[i] \in S /\ rank[page[i]] = i
  <2> HIDE DEF rank
  <2> QED BY <1>6
<1>8. page \in [1..N -> S] BY <1>7
<1>9. ASSUME NEW i \in 1..N, NEW j \in 1..N, i < j PROVE page[i] < page[j]
  <2> HIDE DEF rank, page
  <2>1. page[i] \in S /\ page[j] \in S /\ rank[page[i]] = i /\ rank[page[j]] = j BY <1>7
  <2> DEFINE a == page[i]
             b == page[j]
  <2>2. a \in S /\ b \in S /\ rank[a] = i /\ rank[b] = j BY <2>1
  <2> HIDE DEF a, b
  <2>3. a \in Nat /\ b \in Nat /\ i \in Int /\ j \in Int /\ N \in Nat BY <2>2, <1>1
  <2> HIDE DEF N
  <2>4. ~(b < a) /\ a # b BY <2>2, <2>3, <1>3, <1>9
  <2>5. a < b BY <2>3, <2>4
  <2> QED BY <2>5 DEF a, b
<1> HIDE DEF page
<1> QED BY <1>8, <1>9

LEMMA InOrderIsRight ==
    ASSUME NEW S \in SUBSET Nat, IsFiniteSet(S)
    PROVE  /\ InOrder(S) \in Seq(S)
           /\ Ascending(InOrder(S))
           /\ \A x \in S : \E i \in 1..Len(InOrder(S)) : InOrder(S)[i] = x
<1> DEFINE N == Cardinality(S)
           page == InOrder(S)
<1>1. N \in Nat BY FS_CardinalityType
<1>2. page \in [1..N -> S] /\ \A i, j \in 1..N : i < j => page[i] < page[j] BY SetsHaveAnOrder DEF InOrder
<1> HIDE DEF page
<1>3. page \in Seq(S) /\ Len(page) = N BY <1>1, <1>2
<1>4. page \in Injection(1..N, S)
  <2>1. ASSUME NEW i \in 1..N, NEW j \in 1..N, page[i] = page[j] PROVE i = j
    <3>1. page[i] \in Nat /\ page[j] \in Nat BY <1>2
    <3>2. ~(i < j) /\ ~(j < i) BY <1>2, <2>1, <3>1
    <3> QED BY <3>2, <1>1
  <2> QED BY <2>1, <1>2 DEF Injection, IsInjective
<1>5. page \in Surjection(1..N, S)
  <2>1. IsFiniteSet(1..N) /\ Cardinality(1..N) = N BY FS_Interval, <1>1
  <2> QED BY <2>1, <1>4, FS_Injection
<1>6. \A x \in S : \E i \in 1..N : page[i] = x BY <1>5 DEF Surjection
<1> QED BY <1>2, <1>3, <1>6 DEF page, Ascending

Shown(s) == {s[i] : i \in 1..Len(s)}

WalkIsSound(w) ==
    /\ w = [at |-> w.at, size |-> w.size, last |-> w.last, listed |-> w.listed, stayed |-> w.stayed]
    /\ w.size \in Nat \cup {NoSize}
    /\ w.last \in Nat
    /\ w.listed \in Seq(TagNames)
    /\ w.stayed \subseteq TagNames
    /\ Ascending(w.listed)
    /\ w.at = "next" => /\ \A i \in 1..Len(w.listed) : w.listed[i] <= w.last
                        /\ \A t \in w.stayed : t <= w.last => t \in Shown(w.listed)
    /\ w.at = "done" /\ w.size # 0 => w.stayed \subseteq Shown(w.listed)

WalkInv == tagSet \subseteq TagNames /\ WalkIsSound(pageWalk)

LEMMA TagsAreNumbers == TagNames \subseteq Nat \ {0} /\ IsFiniteSet(TagNames) /\ PageSizes \subseteq Nat \cup {NoSize}
BY DiscoveryAssumption

LEMMA FreshWalk ==
    ASSUME NEW size \in Nat \cup {NoSize}, NEW at \in {"next", "idle"}, NEW w,
           w = [at |-> at, size |-> size, last |-> 0, listed |-> <<>>, stayed |-> TagNames]
    PROVE  WalkIsSound(w)
BY TagsAreNumbers DEF WalkIsSound, Ascending, Shown

CutIsSound(cut, items, last, n) ==
    /\ cut.page \in Seq(TagNames) /\ cut.next \in Nat /\ Ascending(cut.page)
    /\ \A i \in 1..Len(cut.page) : last < cut.page[i]
    /\ cut.next # 0 => /\ \A i \in 1..Len(cut.page) : cut.page[i] <= cut.next
                       /\ cut.next \in Shown(cut.page)
    /\ n # 0 => \A t \in items : last < t /\ (cut.next = 0 \/ t <= cut.next) => t \in Shown(cut.page)

\* What the next page adds: it is in order, beyond the last one, and leaves out nothing up to its end.
LEMMA CutIsRight ==
    ASSUME NEW items \in SUBSET TagNames, NEW last \in Nat, NEW n \in Nat \cup {NoSize}
    PROVE  CutIsSound(Paginate(items, last, n), items, last, n)
<1> DEFINE after == {i \in items : i > last}
           page == InOrder(after)
           cut == Paginate(items, last, n)
<1>1. after \in SUBSET Nat /\ IsFiniteSet(after) /\ after \in SUBSET TagNames
  <2>1. after \in SUBSET TagNames OBVIOUS
  <2> HIDE DEF after
  <2> QED BY <2>1, TagsAreNumbers, FS_Subset
<1>a. \A t \in after : t > last OBVIOUS
<1>b. \A t \in items : last < t => t \in after BY TagsAreNumbers
<1>c. /\ n = 0 => cut = [page |-> <<>>, next |-> 0]
      /\ n # 0 /\ n # NoSize /\ Len(page) > n => cut = [page |-> SubSeq(page, 1, n), next |-> page[n]]
      /\ n # 0 /\ ~(n # NoSize /\ Len(page) > n) => cut = [page |-> page, next |-> 0]
  BY DEF Paginate
<1> HIDE DEF after, cut
<1>2. page \in Seq(after) /\ Ascending(page) /\ \A x \in after : \E i \in 1..Len(page) : page[i] = x
  BY <1>1, InOrderIsRight
<1>3. page \in Seq(TagNames) /\ Len(page) \in Nat /\ \A i \in 1..Len(page) : page[i] \in after /\ page[i] \in Nat
  <2>1. Len(page) \in Nat /\ page \in [1..Len(page) -> after] BY <1>2
  <2> HIDE DEF page
  <2>2. \A i \in 1..Len(page) : page[i] \in after /\ page[i] \in Nat BY <2>1, <1>1
  <2>3. page \in [1..Len(page) -> TagNames] BY <2>1, <1>1
  <2>4. page \in Seq(TagNames) BY <2>1, <2>3
  <2> QED BY <2>1, <2>2, <2>4
<1> HIDE DEF page
<1>4. ASSUME n = 0 PROVE CutIsSound(cut, items, last, n)
  <2>1. cut.page = <<>> /\ cut.next = 0 BY <1>4, <1>c
  <2>2. <<>> \in Seq(TagNames) /\ Len(<<>>) = 0 OBVIOUS
  <2>3. Ascending(<<>>) BY <2>2 DEF Ascending
  <2> QED BY <2>1, <2>2, <2>3, <1>4 DEF CutIsSound
<1>5. ASSUME n # 0 /\ n # NoSize /\ Len(page) > n PROVE CutIsSound(cut, items, last, n)
  <2>1. cut = [page |-> SubSeq(page, 1, n), next |-> page[n]] /\ n \in 1..Len(page) BY <1>5, <1>c, <1>3 DEF NoSize
  <2> DEFINE head == SubSeq(page, 1, n)
  <2>2. head \in Seq(TagNames) /\ Len(head) = n /\ \A i \in 1..n : head[i] = page[i] BY <2>1, <1>3, SubSeqProperties
  <2> HIDE DEF head
  <2>3. Ascending(head)
    <3> SUFFICES ASSUME NEW i \in 1..Len(head), NEW j \in 1..Len(head), i < j PROVE head[i] < head[j] BY DEF Ascending
    <3>1. i \in 1..Len(page) /\ j \in 1..Len(page) /\ head[i] = page[i] /\ head[j] = page[j] BY <2>1, <2>2, <1>3
    <3> QED BY <3>1, <1>2 DEF Ascending
  <2>4. \A i \in 1..n : last < head[i] /\ head[i] <= page[n]
    <3> SUFFICES ASSUME NEW i \in 1..n PROVE last < head[i] /\ head[i] <= page[n] OBVIOUS
    <3>1. i \in 1..Len(page) /\ head[i] = page[i] /\ page[i] \in Nat /\ page[n] \in Nat /\ page[i] > last
      BY <2>1, <2>2, <1>3, <1>a
    <3>2. i < n => page[i] < page[n] BY <3>1, <2>1, <1>2 DEF Ascending
    <3> QED BY <3>1, <3>2, <2>1
  <2>5. ASSUME NEW t \in items, last < t, t <= page[n] PROVE t \in Shown(head)
    <3>1. PICK i \in 1..Len(page) : page[i] = t BY <2>5, <1>b, <1>2
    <3>2. ~(n < i)
      <4>1. n < i => page[n] < page[i] BY <2>1, <1>2 DEF Ascending
      <4> QED BY <4>1, <3>1, <2>5, <2>1, <1>3
    <3>3. i \in 1..n BY <3>1, <3>2, <2>1
    <3> QED BY <3>1, <3>3, <2>2 DEF Shown
  <2>6. page[n] \in Nat /\ page[n] # 0 BY <2>1, <1>3, <1>1, TagsAreNumbers
  <2>7. page[n] \in Shown(head) BY <2>1, <2>2 DEF Shown
  <2>8. cut.page = head /\ cut.next = page[n] BY <2>1 DEF head
  <2> QED BY <2>2, <2>3, <2>4, <2>5, <2>6, <2>7, <2>8 DEF CutIsSound
<1>6. ASSUME n # 0 /\ ~(n # NoSize /\ Len(page) > n) PROVE CutIsSound(cut, items, last, n)
  <2>1. cut = [page |-> page, next |-> 0] BY <1>6, <1>c
  <2>2. \A t \in items : last < t => t \in Shown(page) BY <1>b, <1>2 DEF Shown
  <2>3. \A i \in 1..Len(page) : last < page[i] BY <1>a, <1>3
  <2>4. cut.page = page /\ cut.next = 0 BY <2>1
  <2>5. cut.page \in Seq(TagNames) /\ cut.next \in Nat /\ Ascending(cut.page) BY <2>4, <1>2, <1>3
  <2>6. \A i \in 1..Len(cut.page) : last < cut.page[i] BY <2>3, <2>4
  <2>7. \A t \in items : last < t => t \in Shown(cut.page) BY <2>2, <2>4
  <2> QED BY <2>4, <2>5, <2>6, <2>7 DEF CutIsSound
<1> QED BY <1>4, <1>5, <1>6 DEF cut

LEMMA JoinedInOrder ==
    ASSUME NEW s \in Seq(TagNames), NEW p \in Seq(TagNames), Ascending(s), Ascending(p), NEW last \in Nat,
           \A i \in 1..Len(s) : s[i] <= last, \A i \in 1..Len(p) : last < p[i]
    PROVE  /\ s \o p \in Seq(TagNames) /\ Ascending(s \o p)
           /\ Shown(s \o p) = Shown(s) \cup Shown(p)
<1> DEFINE j == s \o p
<1>1. /\ j \in Seq(TagNames) /\ Len(j) = Len(s) + Len(p) /\ Len(s) \in Nat /\ Len(p) \in Nat
      /\ \A i \in 1..Len(j) : j[i] = IF i <= Len(s) THEN s[i] ELSE p[i - Len(s)]
  BY ConcatProperties
<1> HIDE DEF j
<1>2. /\ \A i \in 1..Len(s) : s[i] \in Nat
      /\ \A i \in 1..Len(p) : p[i] \in Nat
  BY TagsAreNumbers, ElementOfSeq
<1>3. ASSUME NEW a \in 1..Len(j), NEW b \in 1..Len(j), a < b PROVE j[a] < j[b]
  <2>1. CASE b <= Len(s) BY <2>1, <1>1, <1>3 DEF Ascending
  <2>2. CASE a > Len(s)
    <3>1. a - Len(s) \in 1..Len(p) /\ b - Len(s) \in 1..Len(p) /\ a - Len(s) < b - Len(s) BY <2>2, <1>1, <1>3
    <3>2. p[a - Len(s)] < p[b - Len(s)] BY <3>1 DEF Ascending
    <3> QED BY <3>2, <2>2, <1>1, <1>3
  <2>3. CASE a <= Len(s) /\ b > Len(s)
    <3>1. b - Len(s) \in 1..Len(p) /\ a \in 1..Len(s) BY <2>3, <1>1, <1>3
    <3>2. j[a] = s[a] /\ j[b] = p[b - Len(s)] BY <2>3, <1>1
    <3>3. s[a] <= last /\ last < p[b - Len(s)] /\ s[a] \in Nat /\ p[b - Len(s)] \in Nat BY <3>1, <1>2
    <3> QED BY <3>2, <3>3
  <2> QED BY <2>1, <2>2, <2>3, <1>1
<1>4. ASSUME NEW t \in Shown(s) \cup Shown(p) PROVE t \in Shown(j)
  <2>1. CASE t \in Shown(s) BY <2>1, <1>1 DEF Shown
  <2>2. CASE t \in Shown(p)
    <3>1. PICK i \in 1..Len(p) : p[i] = t BY <2>2 DEF Shown
    <3>2. i + Len(s) \in 1..Len(j) /\ ~(i + Len(s) <= Len(s)) /\ (i + Len(s)) - Len(s) = i BY <1>1
    <3>3. j[i + Len(s)] = t BY <3>1, <3>2, <1>1
    <3> QED BY <3>2, <3>3 DEF Shown
  <2> QED BY <2>1, <2>2
<1>5. ASSUME NEW t \in Shown(j) PROVE t \in Shown(s) \cup Shown(p)
  <2>1. PICK i \in 1..Len(j) : j[i] = t BY <1>5 DEF Shown
  <2>2. CASE i <= Len(s) BY <2>1, <2>2, <1>1 DEF Shown
  <2>3. CASE i > Len(s)
    <3>1. i - Len(s) \in 1..Len(p) BY <2>3, <1>1
    <3> QED BY <3>1, <2>1, <2>3, <1>1 DEF Shown
  <2> QED BY <2>2, <2>3, <1>1
<1> QED BY <1>1, <1>3, <1>4, <1>5 DEF j, Ascending

LEMMA WalkStarts == PageInit => WalkInv
<1> SUFFICES ASSUME PageInit PROVE WalkInv OBVIOUS
<1>1. pageWalk = [at |-> "idle", size |-> NoSize, last |-> 0, listed |-> <<>>, stayed |-> TagNames]
  BY DEF PageInit, NewWalk
<1> QED BY <1>1, FreshWalk DEF WalkInv, PageInit

LEMMA WalkSteps == WalkInv /\ [PageNext]_pageVars => WalkInv'
<1> SUFFICES ASSUME WalkInv, [PageNext]_pageVars PROVE WalkInv' OBVIOUS
<1>s. ASSUME WalkIsSound(pageWalk'), tagSet' \subseteq TagNames PROVE WalkInv' BY <1>s DEF WalkInv, WalkIsSound
<1>1. ASSUME NEW size \in PageSizes, BeginPages(size) PROVE WalkInv'
  <2>1. pageWalk' = [at |-> "next", size |-> size, last |-> 0, listed |-> <<>>, stayed |-> TagNames]
    BY <1>1 DEF BeginPages, NewWalk
  <2>2. size \in Nat \cup {NoSize} BY TagsAreNumbers
  <2> QED BY <2>1, <2>2, <1>1, <1>s, FreshWalk DEF BeginPages, WalkInv
<1>2. ASSUME ServePage PROVE WalkInv'
  <2> DEFINE cut == Paginate(tagSet, pageWalk.last, pageWalk.size)
             at == IF cut.next = 0 THEN "done" ELSE "next"
             w == [at |-> at, size |-> pageWalk.size, last |-> cut.next, listed |-> pageWalk.listed \o cut.page,
                   stayed |-> pageWalk.stayed \cap tagSet]
  <2>1. /\ pageWalk.at = "next" /\ tagSet' = tagSet /\ WalkIsSound(pageWalk) /\ tagSet \subseteq TagNames
    BY <1>2 DEF ServePage, WalkInv
  <2>2. pageWalk' = w
    <3>1. pageWalk = [at |-> pageWalk.at, size |-> pageWalk.size, last |-> pageWalk.last,
                      listed |-> pageWalk.listed, stayed |-> pageWalk.stayed]
      BY <2>1 DEF WalkIsSound
    <3>2. pageWalk' = [pageWalk EXCEPT !.listed = @ \o cut.page, !.stayed = @ \cap tagSet, !.last = cut.next,
                                       !.at = at]
      BY <1>2 DEF ServePage
    <3> HIDE DEF cut, at
    <3> QED BY <3>1, <3>2, Zenon
  <2>c. CutIsSound(cut, tagSet, pageWalk.last, pageWalk.size) BY <2>1, CutIsRight DEF WalkIsSound
  <2>4. pageWalk.size = 0 => cut.next = 0 BY DEF Paginate
  <2> HIDE DEF cut
  <2>3. /\ cut.page \in Seq(TagNames) /\ cut.next \in Nat /\ Ascending(cut.page)
        /\ \A i \in 1..Len(cut.page) : pageWalk.last < cut.page[i]
        /\ cut.next # 0 => /\ \A i \in 1..Len(cut.page) : cut.page[i] <= cut.next
                           /\ cut.next \in Shown(cut.page)
        /\ pageWalk.size # 0 => \A t \in tagSet : pageWalk.last < t /\ (cut.next = 0 \/ t <= cut.next) => t \in Shown(cut.page)
    BY <2>c DEF CutIsSound
  <2>5. /\ pageWalk.listed \in Seq(TagNames) /\ Ascending(pageWalk.listed) /\ pageWalk.last \in Nat
        /\ \A i \in 1..Len(pageWalk.listed) : pageWalk.listed[i] <= pageWalk.last
        /\ \A t \in pageWalk.stayed : t <= pageWalk.last => t \in Shown(pageWalk.listed)
        /\ pageWalk.stayed \subseteq TagNames /\ pageWalk.size \in Nat \cup {NoSize}
    BY <2>1 DEF WalkIsSound
  <2>6. /\ w.listed \in Seq(TagNames) /\ Ascending(w.listed)
        /\ Shown(w.listed) = Shown(pageWalk.listed) \cup Shown(cut.page)
    BY <2>3, <2>5, JoinedInOrder
  <2>7. ASSUME NEW t \in w.stayed, pageWalk.size # 0, cut.next = 0 \/ t <= cut.next PROVE t \in Shown(w.listed)
    <3>1. t \in Nat /\ t \in pageWalk.stayed /\ t \in tagSet BY <2>5, TagsAreNumbers
    <3>2. CASE t <= pageWalk.last BY <3>1, <3>2, <2>5, <2>6
    <3>3. CASE pageWalk.last < t BY <3>1, <3>3, <2>7, <2>3, <2>6
    <3> QED BY <3>1, <3>2, <3>3, <2>5
  <2>8. cut.next # 0 => \A i \in 1..Len(w.listed) : w.listed[i] <= cut.next
    <3> SUFFICES ASSUME cut.next # 0, NEW i \in 1..Len(w.listed) PROVE w.listed[i] <= cut.next OBVIOUS
    <3>1. Len(pageWalk.listed) \in Nat /\ Len(cut.page) \in Nat BY <2>3, <2>5
    <3>2. PICK t \in Shown(pageWalk.listed) \cup Shown(cut.page) : w.listed[i] = t BY <2>6 DEF Shown
    <3>3. CASE t \in Shown(cut.page) BY <3>2, <3>3, <2>3 DEF Shown
    <3>4. CASE t \in Shown(pageWalk.listed)
      <4>1. PICK k \in 1..Len(pageWalk.listed) : t = pageWalk.listed[k] BY <3>4 DEF Shown
      <4>2. t \in TagNames /\ t <= pageWalk.last BY <4>1, <2>5, ElementOfSeq
      <4>3. t \in Nat BY <4>2, TagsAreNumbers
      <4>4. pageWalk.last < cut.next BY <2>3 DEF Shown
      <4> QED BY <4>2, <4>3, <4>4, <2>3, <2>5, <3>2
    <3> QED BY <3>2, <3>3, <3>4
  <2>9. /\ w = [at |-> w.at, size |-> w.size, last |-> w.last, listed |-> w.listed, stayed |-> w.stayed]
        /\ w.at = at /\ w.size = pageWalk.size /\ w.last = cut.next /\ w.stayed \subseteq pageWalk.stayed
    OBVIOUS
  <2> HIDE DEF w
  <2>10. WalkIsSound(w) BY <2>3, <2>4, <2>5, <2>6, <2>7, <2>8, <2>9 DEF WalkIsSound
  <2> QED BY <2>10, <2>2, <2>1, <1>s
<1>3. ASSUME EndPages PROVE WalkInv'
  <2>1. pageWalk' = [at |-> "idle", size |-> NoSize, last |-> 0, listed |-> <<>>, stayed |-> TagNames]
    BY <1>3 DEF EndPages, NewWalk
  <2> QED BY <2>1, <1>3, <1>s, FreshWalk DEF EndPages, WalkInv
<1>4. ASSUME NEW t \in TagNames, ChangeTags(t) PROVE WalkInv'
  <2>1. pageWalk' = pageWalk /\ tagSet' \subseteq TagNames BY <1>4 DEF ChangeTags, WalkInv
  <2> QED BY <2>1, <1>s DEF WalkInv
<1>5. ASSUME UNCHANGED pageVars PROVE WalkInv' BY <1>5, <1>s DEF pageVars, WalkInv
<1> QED BY <1>1, <1>2, <1>3, <1>4, <1>5 DEF PageNext

LEMMA PagesCover == WalkInv => PagesCoverTheList
<1> SUFFICES ASSUME WalkInv PROVE PagesCoverTheList OBVIOUS
<1> DEFINE listed == pageWalk.listed
<1>1. listed \in Seq(TagNames) /\ Len(listed) \in Nat /\ Ascending(listed) BY DEF WalkInv, WalkIsSound
<1>2. Shown(listed) \subseteq Range(listed) BY <1>1 DEF Shown, Range
<1>3. \A i \in 1..Len(listed) - 1 : listed[i] < listed[i + 1]
  <2> SUFFICES ASSUME NEW i \in 1..Len(listed) - 1 PROVE listed[i] < listed[i + 1] OBVIOUS
  <2>1. i \in 1..Len(listed) /\ i + 1 \in 1..Len(listed) /\ i < i + 1 BY <1>1
  <2> QED BY <2>1, <1>1 DEF Ascending
<1>4. pageWalk.at = "done" /\ pageWalk.size # 0 => pageWalk.stayed \subseteq Shown(listed) BY DEF WalkInv, WalkIsSound
<1> HIDE DEF listed
<1> QED BY <1>2, <1>3, <1>4 DEF PagesCoverTheList, listed

--------------------------------
(* The tag list of a proxied index.  A cached page names only tags that the  *)
(* upstream has listed since the page was fetched.                           *)

LEMMA LeastNatural ==
    ASSUME NEW T \in SUBSET Nat, T # {}
    PROVE  \E m \in T : \A n \in T : m <= n
<1> DEFINE R == {ss \in Nat \X Nat : ss[1] < ss[2]}
<1>1. IsWellFoundedOn(R, Nat) BY NatLessThanWellFounded, Zenon DEF OpToRel
<1>2. \E x \in T : \A y \in T : ~(<<y, x>> \in R)
  <2> HIDE DEF R
  <2> QED BY <1>1, WFMin
<1>3. PICK x \in T : \A y \in T : ~(<<y, x>> \in R) BY <1>2
<1>4. \A y \in T : ~(y < x) BY <1>3
<1> QED BY <1>4


\* A time the upstream listed tag t at is at least `at'.
SaidSince(said, t, at) == said[t] # NotSaid /\ said[t] >= at

RowIsSound(row, said, now) ==
    /\ row.at \in Int /\ row.at <= now
    /\ row.tags \subseteq ListedTags /\ row.next \in Markers
    /\ \A t \in row.tags : SaidSince(said, t, row.at)

GatherIsSound(g, said) ==
    /\ g = [at |-> g.at, query |-> g.query, pages |-> g.pages, names |-> g.names, from |-> g.from]
    /\ g.query \in Markers
    /\ g.pages \in 0..MaxTagPages
    /\ g.at = "page" => g.pages < MaxTagPages
    /\ g.from \in Nat
    /\ g.names \subseteq ListedTags
    /\ \A t \in g.names : said[t] # NotSaid /\ g.from - said[t] < PageTtl + PageStale

ListInv ==
    /\ listNow \in Nat
    /\ upList \subseteq ListedTags
    /\ DOMAIN saidAt = ListedTags
    /\ \A t \in ListedTags : saidAt[t] \in Int /\ saidAt[t] <= listNow
    /\ DOMAIN pageRows = Markers
    /\ \A k \in Markers : RowIsSound(pageRows[k], saidAt, listNow)
    /\ GatherIsSound(gather, saidAt) /\ gather.from <= listNow

LEMMA ListBounds ==
    /\ PageTtl \in Nat /\ PageStale \in Nat /\ PageStale # 0 /\ MaxTagPages \in Nat /\ MaxTagPages # 0
    /\ ListedTags \subseteq Nat
BY DiscoveryAssumption

\* What was listed stays listed, and a later word replaces an earlier one.
Later(said, after) == \A t \in ListedTags : said[t] # NotSaid => after[t] # NotSaid /\ after[t] >= said[t]

LEMMA RowsStaySound ==
    ASSUME NEW said, NEW after, NEW now \in Nat, NEW then \in Nat, now <= then, NEW row, RowIsSound(row, said, now),
           \A t \in ListedTags : said[t] \in Int /\ after[t] \in Int, Later(said, after)
    PROVE  RowIsSound(row, after, then)
<1>1. \A t \in row.tags : t \in ListedTags /\ SaidSince(said, t, row.at) BY DEF RowIsSound
<1>2. \A t \in row.tags : SaidSince(after, t, row.at) BY <1>1 DEF SaidSince, Later, RowIsSound
<1> QED BY <1>2 DEF RowIsSound

LEMMA GathersStaySound ==
    ASSUME NEW said, NEW after, NEW g, GatherIsSound(g, said),
           \A t \in ListedTags : said[t] \in Int /\ after[t] \in Int, Later(said, after)
    PROVE  GatherIsSound(g, after)
<1>1. \A t \in g.names : /\ t \in ListedTags /\ said[t] # NotSaid /\ g.from - said[t] < PageTtl + PageStale
                         /\ g.from \in Nat
  BY DEF GatherIsSound
<1>2. \A t \in g.names : after[t] # NotSaid /\ g.from - after[t] < PageTtl + PageStale
  <2> SUFFICES ASSUME NEW t \in g.names PROVE after[t] # NotSaid /\ g.from - after[t] < PageTtl + PageStale OBVIOUS
  <2>1. /\ said[t] \in Int /\ after[t] \in Int /\ g.from \in Nat /\ after[t] # NotSaid /\ after[t] >= said[t]
        /\ g.from - said[t] < PageTtl + PageStale
    BY <1>1 DEF Later
  <2>2. g.from - after[t] <= g.from - said[t] BY <2>1
  <2> QED BY <2>1, <2>2, ListBounds
<1> QED BY <1>2 DEF GatherIsSound

LEMMA OnePageMore ==
    ASSUME GatherIsSound(gather, saidAt), gather.at = "page", gather.from <= listNow, listNow \in Nat,
           NEW page, NEW said, RowIsSound(page, said, listNow), Later(saidAt, said),
           \A t \in ListedTags : saidAt[t] \in Int /\ said[t] \in Int,
           listNow - page.at < PageTtl + PageStale, Gathered(page)
    PROVE  GatherIsSound(gather', said) /\ gather'.from = gather.from
<1> DEFINE at == IF page.next # 0 /\ gather.pages + 1 < MaxTagPages THEN "page" ELSE "done"
           g == [at |-> at, query |-> page.next, pages |-> gather.pages + 1, names |-> gather.names \cup page.tags,
                 from |-> gather.from]
<1>1. gather' = g
  <2>1. gather = [at |-> gather.at, query |-> gather.query, pages |-> gather.pages, names |-> gather.names,
                  from |-> gather.from]
    BY DEF GatherIsSound
  <2>2. gather' = [gather EXCEPT !.names = @ \cup page.tags, !.pages = @ + 1, !.query = page.next, !.at = at]
    BY DEF Gathered
  <2> HIDE DEF at
  <2> QED BY <2>1, <2>2, Zenon
<1>2. GatherIsSound(gather, said) BY GathersStaySound
<1>3. ASSUME NEW t \in page.tags PROVE said[t] # NotSaid /\ gather.from - said[t] < PageTtl + PageStale
  <2>1. t \in ListedTags /\ said[t] \in Int /\ said[t] # NotSaid /\ said[t] >= page.at /\ page.at \in Int
    BY DEF RowIsSound, SaidSince
  <2> QED BY <2>1, ListBounds DEF GatherIsSound
<1>4. /\ gather.pages \in Nat /\ gather.pages + 1 <= MaxTagPages /\ gather.names \subseteq ListedTags /\ gather.from \in Nat
      /\ \A t \in gather.names : said[t] # NotSaid /\ gather.from - said[t] < PageTtl + PageStale
  BY <1>2, ListBounds DEF GatherIsSound
<1>5. page.tags \subseteq ListedTags /\ page.next \in Markers BY DEF RowIsSound
<1>6. /\ g = [at |-> g.at, query |-> g.query, pages |-> g.pages, names |-> g.names, from |-> g.from]
      /\ g.query = page.next /\ g.pages = gather.pages + 1 /\ g.names = gather.names \cup page.tags
      /\ g.from = gather.from /\ (g.at = "page" => gather.pages + 1 < MaxTagPages)
  OBVIOUS
<1> HIDE DEF g
<1>7. GatherIsSound(g, said) BY <1>3, <1>4, <1>5, <1>6, ListBounds DEF GatherIsSound
<1> QED BY <1>1, <1>6, <1>7

LEMMA ListStarts == ListInit => ListInv
<1> SUFFICES ASSUME ListInit PROVE ListInv OBVIOUS
<1>1. \A k \in Markers : RowIsSound(pageRows[k], saidAt, listNow) BY DEF ListInit, RowIsSound, NoPage, NotSaid, Markers
<1>2. GatherIsSound(gather, saidAt) /\ gather.from = 0 BY ListBounds DEF ListInit, GatherIsSound, NoGather, Markers
<1> QED BY <1>1, <1>2 DEF ListInit, ListInv, NotSaid

LEMMA ListSteps == ListInv /\ [ListNext]_listVars => ListInv'
<1> SUFFICES ASSUME ListInv, [ListNext]_listVars PROVE ListInv' OBVIOUS
<1>g. ASSUME UNCHANGED <<listNow, upList, saidAt, pageRows>>, GatherIsSound(gather', saidAt), gather'.from <= listNow
      PROVE  ListInv'
  <2>1. GatherIsSound(gather', saidAt') BY <1>g
  <2>2. \A k \in Markers : RowIsSound(pageRows'[k], saidAt', listNow') BY <1>g DEF ListInv
  <2>3. GatherIsSound(gather, saidAt)' BY <2>1 DEF GatherIsSound
  <2>4. \A k \in Markers : RowIsSound(pageRows[k], saidAt, listNow)' BY <2>2 DEF RowIsSound, SaidSince
  <2> QED BY <2>3, <2>4, <1>g DEF ListInv
<1>r. \A t \in ListedTags : saidAt[t] \in Int BY DEF ListInv
<1>1. ASSUME BeginGather PROVE ListInv'
  <2>1. gather' = [at |-> "page", query |-> 0, pages |-> 0, names |-> {}, from |-> listNow]
    BY <1>1 DEF BeginGather, NoGather
  <2>2. GatherIsSound(gather', saidAt) /\ gather'.from <= listNow
    BY <2>1, ListBounds DEF GatherIsSound, Markers, ListInv
  <2> QED BY <2>2, <1>1, <1>g DEF BeginGather
<1>2. ASSUME ProxyTags PROVE ListInv'
  <2> DEFINE row == pageRows[gather.query]
  <2>1. /\ gather.at = "page" /\ listNow' = listNow /\ upList' = upList
        /\ GatherIsSound(gather, saidAt) /\ gather.from <= listNow /\ listNow \in Nat
        /\ RowIsSound(row, saidAt, listNow)
    <3>1. gather.query \in Markers BY DEF ListInv, GatherIsSound
    <3> QED BY <3>1, <1>2 DEF ListInv, ProxyTags
  <2>2. Later(saidAt, saidAt) BY <1>r DEF Later
  <2>3. CASE PageIsWithin(row, PageTtl + PageStale) /\ Gathered(row) /\ UNCHANGED <<saidAt, pageRows>>
    <3>1. listNow - row.at < PageTtl + PageStale BY <2>3 DEF PageIsWithin
    <3>2. GatherIsSound(gather', saidAt) /\ gather'.from = gather.from BY <3>1, <2>1, <2>2, <2>3, <1>r, OnePageMore
    <3> QED BY <3>2, <2>1, <2>3, <1>g
  <2>4. CASE PageIsFresh(row) /\ Gathered(row) /\ UNCHANGED <<saidAt, pageRows>>
    <3>1. listNow - row.at < PageTtl + PageStale BY <2>4, <2>1, ListBounds DEF PageIsFresh, PageIsWithin, RowIsSound
    <3>2. GatherIsSound(gather', saidAt) /\ gather'.from = gather.from BY <3>1, <2>1, <2>2, <2>4, <1>r, OnePageMore
    <3> QED BY <3>2, <2>1, <2>4, <1>g
  <2>5. CASE gather' = [gather EXCEPT !.at = "failed"] /\ UNCHANGED <<saidAt, pageRows>>
    <3>1. /\ gather' = [at |-> "failed", query |-> gather.query, pages |-> gather.pages, names |-> gather.names,
                        from |-> gather.from]
      BY <2>5, <2>1 DEF GatherIsSound
    <3>2. GatherIsSound(gather', saidAt) /\ gather'.from = gather.from BY <3>1, <2>1 DEF GatherIsSound
    <3> QED BY <3>2, <2>1, <2>5, <1>g
  <2>6. ASSUME NEW next \in Markers, NEW page, page.at = listNow, page.next = next, page.tags \subseteq upList,
               pageRows' = [pageRows EXCEPT ![gather.query] = page],
               saidAt' = [t \in ListedTags |-> IF t \in page.tags THEN listNow ELSE saidAt[t]],
               Gathered(page)
        PROVE  ListInv'
    <3> DEFINE said == saidAt'
    <3>1. \A t \in ListedTags : said[t] = IF t \in page.tags THEN listNow ELSE saidAt[t] BY <2>6
    <3>2. DOMAIN said = ListedTags BY <2>6
    <3> HIDE DEF said
    <3>3. \A t \in ListedTags : said[t] \in Int /\ said[t] <= listNow BY <3>1, <2>1, <1>r DEF ListInv
    <3>4. Later(saidAt, said) BY <3>1, <2>1 DEF Later, NotSaid, ListInv
    <3>5. RowIsSound(page, said, listNow)
      <4>1. page.tags \subseteq ListedTags BY <2>6 DEF ListInv
      <4>2. \A t \in page.tags : SaidSince(said, t, listNow) BY <4>1, <3>1, <2>1 DEF SaidSince, NotSaid
      <4> QED BY <4>1, <4>2, <2>1, <2>6 DEF RowIsSound
    <3>6. listNow - page.at < PageTtl + PageStale BY <2>6, <2>1, ListBounds
    <3>7. GatherIsSound(gather', said) /\ gather'.from = gather.from
      BY <3>3, <3>4, <3>5, <3>6, <2>1, <2>6, <1>r, OnePageMore
    <3>8. ASSUME NEW k \in Markers PROVE RowIsSound(pageRows'[k], said, listNow)
      <4>1. CASE k = gather.query BY <4>1, <2>6, <3>5 DEF ListInv
      <4>2. CASE k # gather.query
        <5>1. pageRows'[k] = pageRows[k] /\ RowIsSound(pageRows[k], saidAt, listNow) BY <4>2, <2>6 DEF ListInv
        <5> QED BY <5>1, <3>3, <3>4, <2>1, <1>r, RowsStaySound
      <4> QED BY <4>1, <4>2
    <3>9. DOMAIN pageRows' = Markers BY <2>6 DEF ListInv
    <3>10. \A k \in Markers : RowIsSound(pageRows[k], saidAt, listNow)' BY <3>8, <2>1 DEF said, RowIsSound, SaidSince
    <3>11. GatherIsSound(gather, saidAt)' BY <3>7 DEF said, GatherIsSound
    <3> QED BY <2>1, <3>2, <3>3, <3>7, <3>9, <3>10, <3>11 DEF ListInv, said
  <2>7. CASE \E next \in Markers :
                LET after == {t \in upList : t > gather.query}
                    page == [at |-> listNow, next |-> next,
                             tags |-> IF after = {} THEN {} ELSE {CHOOSE t \in after : \A u \in after : t <= u}]
                IN  /\ pageRows' = [pageRows EXCEPT ![gather.query] = page]
                    /\ saidAt' = [t \in ListedTags |-> IF t \in page.tags THEN listNow ELSE saidAt[t]]
                    /\ Gathered(page)
    <3> DEFINE after == {t \in upList : t > gather.query}
               least == CHOOSE t \in after : \A u \in after : t <= u
               names == IF after = {} THEN {} ELSE {least}
    <3>1. names \subseteq upList
      <4>1. after # {} => least \in upList
        <5> SUFFICES ASSUME after # {} PROVE least \in upList OBVIOUS
        <5>1. after \subseteq Nat BY ListBounds DEF ListInv
        <5> HIDE DEF after
        <5>2. \E t \in after : \A u \in after : t <= u BY <5>1, LeastNatural
        <5>3. least \in after BY <5>2
        <5> QED BY <5>3 DEF after
      <4> QED BY <4>1
    <3> HIDE DEF names
    <3>2. PICK next \in Markers :
             LET page == [at |-> listNow, next |-> next, tags |-> names]
             IN  /\ pageRows' = [pageRows EXCEPT ![gather.query] = page]
                 /\ saidAt' = [t \in ListedTags |-> IF t \in page.tags THEN listNow ELSE saidAt[t]]
                 /\ Gathered(page)
      BY <2>7 DEF names
    <3> DEFINE page == [at |-> listNow, next |-> next, tags |-> names]
    <3>3. page.at = listNow /\ page.next = next /\ page.tags = names OBVIOUS
    <3> HIDE DEF page
    <3> QED BY <3>1, <3>2, <3>3, <2>6 DEF page
  <2> QED BY <1>2, <2>3, <2>4, <2>5, <2>7 DEF ProxyTags
<1>3. ASSUME EndGather PROVE ListInv'
  <2>1. gather' = [at |-> "idle", query |-> 0, pages |-> 0, names |-> {}, from |-> 0] BY <1>3 DEF EndGather, NoGather
  <2>2. GatherIsSound(gather', saidAt) /\ gather'.from <= listNow
    BY <2>1, ListBounds DEF GatherIsSound, Markers, ListInv
  <2> QED BY <2>2, <1>3, <1>g DEF EndGather
<1>4. ASSUME ListTick PROVE ListInv'
  <2>1. Later(saidAt, saidAt) /\ listNow \in Nat /\ listNow' = listNow + 1 /\ UNCHANGED <<upList, saidAt, pageRows, gather>>
    BY <1>4, <1>r DEF Later, ListTick, ListInv
  <2>2. \A k \in Markers : RowIsSound(pageRows[k], saidAt, listNow + 1) BY <2>1, <1>r, RowsStaySound DEF ListInv
  <2>3. \A k \in Markers : RowIsSound(pageRows[k], saidAt, listNow)' BY <2>1, <2>2 DEF RowIsSound, SaidSince
  <2>4. GatherIsSound(gather, saidAt)' /\ gather'.from <= listNow' BY <2>1 DEF ListInv, GatherIsSound
  <2> QED BY <2>1, <2>3, <2>4 DEF ListInv
<1>5. ASSUME NEW t \in ListedTags, ChangeUpstream(t) PROVE ListInv'
  <2>1. upList' \subseteq ListedTags /\ UNCHANGED <<listNow, saidAt, pageRows, gather>>
    BY <1>5 DEF ChangeUpstream, ListInv
  <2>3. \A k \in Markers : RowIsSound(pageRows[k], saidAt, listNow)' BY <2>1 DEF RowIsSound, SaidSince, ListInv
  <2>4. GatherIsSound(gather, saidAt)' /\ gather'.from <= listNow' BY <2>1 DEF ListInv, GatherIsSound
  <2> QED BY <2>1, <2>3, <2>4 DEF ListInv
<1>6. ASSUME UNCHANGED listVars PROVE ListInv'
  <2>1. UNCHANGED <<listNow, upList, saidAt, pageRows, gather>> BY <1>6 DEF listVars
  <2> QED BY <2>1, <1>g DEF ListInv
<1> QED BY <1>1, <1>2, <1>3, <1>4, <1>5, <1>6 DEF ListNext

LEMMA ListsStayRecent == ListInv => ListsAreRecent
BY ListBounds DEF ListInv, GatherIsSound, ListsAreRecent

--------------------------------
(* The mirror.  Some set of manifests contains the roots walked so far, is   *)
(* stored, and is closed except for what is still to be looked at; a         *)
(* summary finds nothing left to look at.                                    *)

References == [digest : AllManifests, byDigest : BOOLEAN]

\* left is what is left of the references.
IsLeft(left) ==
    /\ left \in Seq(References)
    /\ Len(left) <= Len(MirrorRefs)
    /\ \A i \in 1..Len(left) : left[i] = MirrorRefs[(Len(MirrorRefs) - Len(left)) + i]

MirrorIsTyped(r) ==
    /\ r = [at |-> r.at, mode |-> r.mode, left |-> r.left, pending |-> r.pending, children |-> r.children,
            layers |-> r.layers, errors |-> r.errors]
    /\ r.errors \in BOOLEAN
    /\ IsLeft(r.left)
    /\ r.pending \in Seq(AllManifests)
    /\ r.children \subseteq AllManifests
    /\ r.at \in {"refs", "synced"} => r.pending = <<>> /\ r.children = {} /\ r.layers = {}
    /\ r.at = "synced" => r.left = <<>> /\ ~r.errors

\* Whatever is reached is stored, and so is what it names unless it is still to be looked at.
IsReached(R, r, kept, layered) ==
    \A m \in R : /\ m \in kept
                 /\ \/ m \in Shown(r.pending)
                    \/ ChildrenOf[m] \subseteq R \cup r.children /\ LayersOf[m] \subseteq layered \cup r.layers

Roots(R, r, names) ==
    \A i \in 1..(Len(MirrorRefs) - Len(r.left)) :
        /\ MirrorRefs[i].digest \in R
        /\ ~MirrorRefs[i].byDigest => MirrorRefs[i].digest \in names

Reaches(r, kept, layered, names) == \E R : IsReached(R, r, kept, layered) /\ Roots(R, r, names)

MirrorInv ==
    /\ MirrorIsTyped(mirror)
    /\ mirror.at \in {"refs", "walk", "synced"} /\ ~mirror.errors =>
           Reaches(mirror, mirrorStore, mirrorBlobs, mirrorTags)

LEMMA MirrorBounds ==
    /\ MirrorRefs \in Seq(References)
    /\ DOMAIN LayersOf = AllManifests
    /\ \A m \in AllManifests : ChildrenOf[m] \subseteq AllManifests
BY DiscoveryAssumption DEF References, AllManifests

LEMMA TailIsLeft ==
    ASSUME NEW left, IsLeft(left), left # <<>>
    PROVE  /\ Head(left) \in References
           /\ IsLeft(Tail(left))
           /\ Len(MirrorRefs) - Len(Tail(left)) = (Len(MirrorRefs) - Len(left)) + 1
           /\ Head(left) = MirrorRefs[(Len(MirrorRefs) - Len(left)) + 1]
           /\ Len(left) \in Nat /\ Len(MirrorRefs) \in Nat /\ Len(left) <= Len(MirrorRefs)
<1> DEFINE rest == Tail(left)
<1>1. /\ left \in Seq(References) /\ Len(left) \in Nat /\ Len(left) # 0 /\ Len(MirrorRefs) \in Nat
      /\ Len(left) <= Len(MirrorRefs)
  BY MirrorBounds, EmptySeq DEF IsLeft
<1>2. rest \in Seq(References) /\ Len(rest) = Len(left) - 1 /\ \A i \in 1..Len(rest) : rest[i] = left[i + 1]
  BY <1>1, HeadTailProperties
<1>3. Head(left) = left[1] /\ Head(left) \in References BY <1>1, HeadTailProperties
<1> HIDE DEF rest
<1>4. \A i \in 1..Len(rest) : rest[i] = MirrorRefs[(Len(MirrorRefs) - Len(rest)) + i]
  <2> SUFFICES ASSUME NEW i \in 1..Len(rest) PROVE rest[i] = MirrorRefs[(Len(MirrorRefs) - Len(rest)) + i] OBVIOUS
  <2>1. i + 1 \in 1..Len(left) /\ rest[i] = left[i + 1] BY <1>1, <1>2
  <2>2. left[i + 1] = MirrorRefs[(Len(MirrorRefs) - Len(left)) + (i + 1)] BY <2>1 DEF IsLeft
  <2>3. (Len(MirrorRefs) - Len(left)) + (i + 1) = (Len(MirrorRefs) - Len(rest)) + i BY <1>1, <1>2, <2>1
  <2> QED BY <2>1, <2>2, <2>3
<1>5. IsLeft(rest) BY <1>1, <1>2, <1>4 DEF IsLeft
<1>6. left[1] = MirrorRefs[(Len(MirrorRefs) - Len(left)) + 1] BY <1>1 DEF IsLeft
<1> QED BY <1>1, <1>2, <1>3, <1>5, <1>6 DEF rest

LEMMA ManifestIsKnown ==
    ASSUME NEW m, NEW tagged \in BOOLEAN, NEW found, NEW missed, ManifestOf(m, tagged, found, missed)
    PROVE  /\ mirrorStore \subseteq mirrorStore' /\ mirrorTags \subseteq mirrorTags'
           /\ \/ mirror' = found /\ m \in mirrorStore' /\ (tagged => m \in mirrorTags')
              \/ mirror' = missed
              \/ mirror' = [NoMirror EXCEPT !.at = "aborted"]
BY DEF ManifestOf

LEMMA RestIsSound ==
    ASSUME NEW at, at \notin {"refs", "walk", "synced"}, NEW mode, NEW left, IsLeft(left), NEW r,
           r = [at |-> at, mode |-> mode, left |-> left, pending |-> <<>>, children |-> {}, layers |-> {}, errors |-> FALSE]
    PROVE  MirrorIsTyped(r) /\ r.at \notin {"refs", "walk", "synced"}
BY DEF MirrorIsTyped

LEMMA NothingLeft == IsLeft(<<>>) /\ IsLeft(MirrorRefs)
<1>1. MirrorRefs \in Seq(References) /\ Len(MirrorRefs) \in Nat BY MirrorBounds
<1>2. \A i \in 1..Len(MirrorRefs) : MirrorRefs[i] = MirrorRefs[(Len(MirrorRefs) - Len(MirrorRefs)) + i] BY <1>1
<1>3. <<>> \in Seq(References) /\ Len(<<>>) = 0 OBVIOUS
<1> QED BY <1>1, <1>2, <1>3 DEF IsLeft

LEMMA MirrorStarts == MirrorInit => MirrorInv
<1> SUFFICES ASSUME MirrorInit PROVE MirrorInv OBVIOUS
<1>1. mirror = [at |-> "idle", mode |-> "none", left |-> <<>>, pending |-> <<>>, children |-> {}, layers |-> {},
                errors |-> FALSE]
  BY DEF MirrorInit, NoMirror
<1> QED BY <1>1, NothingLeft, RestIsSound DEF MirrorInv

LEMMA MirrorSteps == MirrorInv /\ [MirrorNext]_mirrorVars => MirrorInv'
<1> SUFFICES ASSUME MirrorInv, [MirrorNext]_mirrorVars PROVE MirrorInv' OBVIOUS
<1>t. MirrorIsTyped(mirror) BY DEF MirrorInv
<1>e. mirror = [at |-> mirror.at, mode |-> mirror.mode, left |-> mirror.left, pending |-> mirror.pending,
                children |-> mirror.children, layers |-> mirror.layers, errors |-> mirror.errors]
  BY <1>t DEF MirrorIsTyped
<1>s. ASSUME MirrorIsTyped(mirror'),
             mirror'.at \in {"refs", "walk", "synced"} /\ ~mirror'.errors =>
                 Reaches(mirror', mirrorStore', mirrorBlobs', mirrorTags')
      PROVE  MirrorInv'
  <2>1. MirrorIsTyped(mirror)' BY <1>s DEF MirrorIsTyped, IsLeft
  <2>2. Reaches(mirror', mirrorStore', mirrorBlobs', mirrorTags') => Reaches(mirror, mirrorStore, mirrorBlobs, mirrorTags)'
    BY DEF Reaches, IsReached, Roots
  <2> QED BY <2>1, <2>2, <1>s DEF MirrorInv
<1>i. ASSUME NEW at, at \notin {"refs", "walk", "synced"}, mirror' = [NoMirror EXCEPT !.at = at] PROVE MirrorInv'
  <2>1. mirror' = [at |-> at, mode |-> "none", left |-> <<>>, pending |-> <<>>, children |-> {}, layers |-> {},
                   errors |-> FALSE]
    BY <1>i DEF NoMirror
  <2> QED BY <2>1, <1>i, <1>s, NothingLeft, RestIsSound
<1>1. ASSUME NEW mode \in {"sync", "verify"}, BeginMirror(mode) PROVE MirrorInv'
  <2> DEFINE r == [at |-> "refs", mode |-> mode, left |-> MirrorRefs, pending |-> <<>>, children |-> {}, layers |-> {},
                   errors |-> FALSE]
  <2>1. mirror' = r
    <3>1. NoMirror = [at |-> "idle", mode |-> "none", left |-> <<>>, pending |-> <<>>, children |-> {}, layers |-> {},
                      errors |-> FALSE]
      BY DEF NoMirror
    <3>2. mirror' = [NoMirror EXCEPT !.at = "refs", !.mode = mode, !.left = MirrorRefs] BY <1>1 DEF BeginMirror
    <3> QED BY <3>1, <3>2, Zenon
  <2>2. MirrorIsTyped(r) BY NothingLeft DEF MirrorIsTyped
  <2>3. Len(MirrorRefs) \in Nat BY MirrorBounds
  <2>4. IsReached({}, r, mirrorStore', mirrorBlobs') BY DEF IsReached
  <2>5. Roots({}, r, mirrorTags') BY <2>3 DEF Roots
  <2>6. Reaches(r, mirrorStore', mirrorBlobs', mirrorTags') BY <2>4, <2>5 DEF Reaches
  <2> QED BY <2>1, <2>2, <2>6, <1>s
<1>2. ASSUME OneRef PROVE MirrorInv'
  <2> DEFINE ref == Head(mirror.left)
  <2>a. PICK rest : rest = [mirror EXCEPT !.left = Tail(@)] OBVIOUS
  <2>b. PICK found : found = [rest EXCEPT !.at = "walk", !.pending = <<ref.digest>>] OBVIOUS
  <2>c. PICK missed : missed = [rest EXCEPT !.errors = TRUE] OBVIOUS
  <2> DEFINE f == [at |-> "walk", mode |-> mirror.mode, left |-> Tail(mirror.left), pending |-> <<ref.digest>>,
                   children |-> mirror.children, layers |-> mirror.layers, errors |-> mirror.errors]
             e == [at |-> mirror.at, mode |-> mirror.mode, left |-> Tail(mirror.left), pending |-> mirror.pending,
                   children |-> mirror.children, layers |-> mirror.layers, errors |-> TRUE]
  <2>1. /\ mirror.at = "refs" /\ mirror.left # <<>> /\ mirrorBlobs' = mirrorBlobs
        /\ ManifestOf(ref.digest, ~ref.byDigest, found, missed)
    BY <1>2, <2>a, <2>b, <2>c DEF OneRef
  <2>2. rest = [at |-> mirror.at, mode |-> mirror.mode, left |-> Tail(mirror.left), pending |-> mirror.pending,
                children |-> mirror.children, layers |-> mirror.layers, errors |-> mirror.errors]
    BY <1>e, <2>a, Zenon
  <2>3. found = f BY <2>2, <2>b, Zenon
  <2>4. missed = e BY <2>2, <2>c, Zenon
  <2>5. /\ IsLeft(mirror.left) /\ mirror.pending = <<>> /\ mirror.children = {} /\ mirror.layers = {}
        /\ mirror.errors \in BOOLEAN
    BY <1>t, <2>1 DEF MirrorIsTyped
  <2>6. /\ ref \in References /\ IsLeft(Tail(mirror.left))
        /\ Len(MirrorRefs) - Len(Tail(mirror.left)) = (Len(MirrorRefs) - Len(mirror.left)) + 1
        /\ ref = MirrorRefs[(Len(MirrorRefs) - Len(mirror.left)) + 1]
        /\ Len(mirror.left) \in Nat /\ Len(MirrorRefs) \in Nat /\ Len(mirror.left) <= Len(MirrorRefs)
    BY <2>1, <2>5, TailIsLeft
  <2> HIDE DEF ref
  <2>7. ref.digest \in AllManifests /\ ref.byDigest \in BOOLEAN BY <2>6 DEF References
  <2>8. /\ mirrorStore \subseteq mirrorStore' /\ mirrorTags \subseteq mirrorTags'
        /\ \/ mirror' = f /\ ref.digest \in mirrorStore' /\ (~ref.byDigest => ref.digest \in mirrorTags')
           \/ mirror' = e
           \/ mirror' = [NoMirror EXCEPT !.at = "aborted"]
    BY <2>1, <2>3, <2>4, <2>7, ManifestIsKnown
  <2>9. CASE mirror' = e
    <3>1. MirrorIsTyped(e) BY <2>1, <2>5, <2>6 DEF MirrorIsTyped
    <3> QED BY <3>1, <2>9, <1>s
  <2>10. CASE mirror' = f /\ ref.digest \in mirrorStore' /\ (~ref.byDigest => ref.digest \in mirrorTags')
    <3>1. <<ref.digest>> \in Seq(AllManifests) /\ Shown(<<ref.digest>>) = {ref.digest} BY <2>7 DEF Shown
    <3>2. MirrorIsTyped(f) BY <2>5, <2>6, <3>1 DEF MirrorIsTyped
    <3>3. ASSUME ~mirror.errors PROVE Reaches(f, mirrorStore', mirrorBlobs', mirrorTags')
      <4>1. PICK R : IsReached(R, mirror, mirrorStore, mirrorBlobs) /\ Roots(R, mirror, mirrorTags)
        BY <3>3, <2>1 DEF MirrorInv, Reaches
      <4>2. IsReached(R \cup {ref.digest}, f, mirrorStore', mirrorBlobs')
        <5> SUFFICES ASSUME NEW m \in R \cup {ref.digest}
                     PROVE  /\ m \in mirrorStore'
                            /\ \/ m \in Shown(f.pending)
                               \/ /\ ChildrenOf[m] \subseteq (R \cup {ref.digest}) \cup f.children
                                  /\ LayersOf[m] \subseteq mirrorBlobs' \cup f.layers
          BY DEF IsReached
        <5>1. CASE m = ref.digest BY <5>1, <2>10, <3>1
        <5>2. CASE m \in R
          <6>1. /\ m \in mirrorStore
                /\ ChildrenOf[m] \subseteq R /\ LayersOf[m] \subseteq mirrorBlobs
            BY <5>2, <4>1, <2>5 DEF IsReached, Shown
          <6> QED BY <6>1, <2>1, <2>8
        <5> QED BY <5>1, <5>2
      <4>3. Roots(R \cup {ref.digest}, f, mirrorTags')
        <5> SUFFICES ASSUME NEW i \in 1..(Len(MirrorRefs) - Len(Tail(mirror.left)))
                     PROVE  /\ MirrorRefs[i].digest \in R \cup {ref.digest}
                            /\ ~MirrorRefs[i].byDigest => MirrorRefs[i].digest \in mirrorTags'
          BY DEF Roots
        <5>1. CASE i \in 1..(Len(MirrorRefs) - Len(mirror.left)) BY <5>1, <4>1, <2>8 DEF Roots
        <5>2. CASE i = (Len(MirrorRefs) - Len(mirror.left)) + 1
          <6>1. MirrorRefs[i] = ref BY <5>2, <2>6
          <6> QED BY <6>1, <2>10
        <5>3. i \in 1..(Len(MirrorRefs) - Len(mirror.left)) \/ i = (Len(MirrorRefs) - Len(mirror.left)) + 1
          <6> DEFINE n == Len(MirrorRefs)
                     k == Len(mirror.left)
          <6>a. n \in Nat /\ k \in Nat /\ k <= n BY <2>6
          <6>b. n - k \in Nat
            <7> HIDE DEF n, k
            <7> QED BY <6>a
          <6>1. PICK d \in Nat : d = Len(MirrorRefs) - Len(mirror.left) BY <6>b
          <6>2. i \in 1..(d + 1) BY <6>1, <2>6
          <6>3. i \in 1..d \/ i = d + 1 BY <6>2
          <6> QED BY <6>1, <6>3
        <5> QED BY <5>1, <5>2, <5>3
      <4> QED BY <4>2, <4>3 DEF Reaches
    <3> QED BY <3>2, <3>3, <2>10, <1>s
  <2> QED BY <2>8, <2>9, <2>10, <1>i
<1>3. ASSUME WalkManifest PROVE MirrorInv'
  <2>1. /\ mirror.at = "walk" /\ mirror.children = {} /\ mirror.layers = {}
        /\ UNCHANGED <<mirrorStore, mirrorBlobs, mirrorTags>>
    BY <1>3 DEF WalkManifest
  <2>2. /\ IsLeft(mirror.left) /\ mirror.errors \in BOOLEAN /\ mirror.pending \in Seq(AllManifests)
    BY <1>t DEF MirrorIsTyped
  <2>3. CASE mirror.pending = <<>>
    <3> DEFINE f == [at |-> "refs", mode |-> mirror.mode, left |-> mirror.left, pending |-> mirror.pending,
                     children |-> mirror.children, layers |-> mirror.layers, errors |-> mirror.errors]
    <3>1. mirror' = f
      <4>1. mirror' = [mirror EXCEPT !.at = "refs"] BY <2>3, <1>3 DEF WalkManifest
      <4> QED BY <4>1, <1>e, Zenon
    <3>2. MirrorIsTyped(f) BY <2>1, <2>2, <2>3 DEF MirrorIsTyped
    <3>3. ASSUME ~mirror.errors PROVE Reaches(f, mirrorStore', mirrorBlobs', mirrorTags')
      <4>1. PICK R : IsReached(R, mirror, mirrorStore, mirrorBlobs) /\ Roots(R, mirror, mirrorTags)
        BY <3>3, <2>1 DEF MirrorInv, Reaches
      <4>2. IsReached(R, f, mirrorStore', mirrorBlobs') /\ Roots(R, f, mirrorTags') BY <4>1, <2>1 DEF IsReached, Roots
      <4> QED BY <4>2 DEF Reaches
    <3> QED BY <3>1, <3>2, <3>3, <1>s
  <2>4. CASE mirror.pending # <<>>
    <3> DEFINE m == Last(mirror.pending)
               front == Front(mirror.pending)
               f == [at |-> mirror.at, mode |-> mirror.mode, left |-> mirror.left, pending |-> front,
                     children |-> ChildrenOf[m], layers |-> LayersOf[m], errors |-> mirror.errors]
    <3>1. mirror' = f
      <4>1. mirror' = [mirror EXCEPT !.pending = front, !.children = ChildrenOf[m], !.layers = LayersOf[m]]
        BY <2>4, <1>3 DEF WalkManifest
      <4> HIDE DEF m, front
      <4> QED BY <4>1, <1>e, Zenon
    <3>2. /\ m \in AllManifests /\ front \in Seq(AllManifests)
          /\ Shown(mirror.pending) \subseteq Shown(front) \cup {m}
      <4> DEFINE n == Len(mirror.pending)
      <4>1. n \in Nat /\ n # 0 BY <2>2, <2>4, EmptySeq
      <4>2. m = mirror.pending[n] /\ front = SubSeq(mirror.pending, 1, n - 1) BY DEF Last, Front
      <4>3. front \in Seq(AllManifests) /\ Len(front) = n - 1 /\ \A i \in 1..(n - 1) : front[i] = mirror.pending[i]
        BY <4>1, <4>2, <2>2, SubSeqProperties
      <4>4. m \in AllManifests BY <4>1, <4>2, <2>2, ElementOfSeq
      <4> HIDE DEF front, m
      <4>5. ASSUME NEW i \in 1..n PROVE mirror.pending[i] \in Shown(front) \cup {m}
        <5>1. CASE i = n BY <5>1, <4>2
        <5>2. CASE i # n
          <6>1. i \in 1..(n - 1) BY <5>2, <4>1
          <6> QED BY <6>1, <4>3 DEF Shown
        <5> QED BY <5>1, <5>2
      <4> QED BY <4>3, <4>4, <4>5 DEF Shown
    <3> HIDE DEF m, front
    <3>3. MirrorIsTyped(f) BY <2>1, <2>2, <3>2, MirrorBounds DEF MirrorIsTyped
    <3>4. ASSUME ~mirror.errors PROVE Reaches(f, mirrorStore', mirrorBlobs', mirrorTags')
      <4>1. PICK R : IsReached(R, mirror, mirrorStore, mirrorBlobs) /\ Roots(R, mirror, mirrorTags)
        BY <3>4, <2>1 DEF MirrorInv, Reaches
      <4>2. IsReached(R, f, mirrorStore', mirrorBlobs')
        <5> SUFFICES ASSUME NEW x \in R
                     PROVE  /\ x \in mirrorStore'
                            /\ \/ x \in Shown(front)
                               \/ ChildrenOf[x] \subseteq R \cup ChildrenOf[m] /\ LayersOf[x] \subseteq mirrorBlobs' \cup LayersOf[m]
          BY DEF IsReached
        <5>1. /\ x \in mirrorStore
              /\ \/ x \in Shown(mirror.pending)
                 \/ ChildrenOf[x] \subseteq R /\ LayersOf[x] \subseteq mirrorBlobs
          BY <4>1, <2>1 DEF IsReached
        <5> QED BY <5>1, <2>1, <3>2
      <4>3. Roots(R, f, mirrorTags') BY <4>1, <2>1 DEF Roots
      <4> QED BY <4>2, <4>3 DEF Reaches
    <3> QED BY <3>1, <3>3, <3>4, <1>s
  <2> QED BY <2>3, <2>4
<1>4. ASSUME NEW m \in AllManifests, WalkChild(m) PROVE MirrorInv'
  <2>a. PICK rest : rest = [mirror EXCEPT !.children = @ \ {m}] OBVIOUS
  <2>b. PICK found : found = [rest EXCEPT !.pending = Append(@, m)] OBVIOUS
  <2>c. PICK missed : missed = [rest EXCEPT !.errors = TRUE] OBVIOUS
  <2> DEFINE others == mirror.children \ {m}
             f == [at |-> mirror.at, mode |-> mirror.mode, left |-> mirror.left, pending |-> Append(mirror.pending, m),
                   children |-> others, layers |-> mirror.layers, errors |-> mirror.errors]
             e == [at |-> mirror.at, mode |-> mirror.mode, left |-> mirror.left, pending |-> mirror.pending,
                   children |-> others, layers |-> mirror.layers, errors |-> TRUE]
  <2>1. /\ mirror.at = "walk" /\ m \in mirror.children /\ mirrorBlobs' = mirrorBlobs
        /\ ManifestOf(m, FALSE, found, missed)
    BY <1>4, <2>a, <2>b, <2>c DEF WalkChild
  <2>2. rest = [at |-> mirror.at, mode |-> mirror.mode, left |-> mirror.left, pending |-> mirror.pending,
                children |-> others, layers |-> mirror.layers, errors |-> mirror.errors]
    BY <1>e, <2>a, Zenon
  <2>3. found = f BY <2>2, <2>b, Zenon
  <2>4. missed = e BY <2>2, <2>c, Zenon
  <2>5. /\ IsLeft(mirror.left) /\ mirror.errors \in BOOLEAN /\ mirror.pending \in Seq(AllManifests)
        /\ mirror.children \subseteq AllManifests
    BY <1>t DEF MirrorIsTyped
  <2>6. /\ mirrorStore \subseteq mirrorStore' /\ mirrorTags \subseteq mirrorTags'
        /\ \/ mirror' = f /\ m \in mirrorStore'
           \/ mirror' = e
           \/ mirror' = [NoMirror EXCEPT !.at = "aborted"]
    BY <2>1, <2>3, <2>4, ManifestIsKnown
  <2>7. CASE mirror' = e
    <3>1. MirrorIsTyped(e) BY <2>1, <2>5 DEF MirrorIsTyped
    <3> QED BY <3>1, <2>7, <1>s
  <2>8. CASE mirror' = f /\ m \in mirrorStore'
    <3> DEFINE pending == Append(mirror.pending, m)
    <3>1. pending \in Seq(AllManifests) /\ Shown(mirror.pending) \cup {m} \subseteq Shown(pending)
      <4>1. /\ pending \in Seq(AllManifests) /\ Len(pending) = Len(mirror.pending) + 1 /\ Len(mirror.pending) \in Nat
            /\ pending[Len(mirror.pending) + 1] = m
            /\ \A i \in 1..Len(mirror.pending) : pending[i] = mirror.pending[i]
        BY <2>5, AppendProperties
      <4> HIDE DEF pending
      <4> QED BY <4>1 DEF Shown
    <3> HIDE DEF pending
    <3>2. /\ f.at = "walk" /\ f.left = mirror.left /\ f.pending = pending /\ f.children = others
          /\ f.layers = mirror.layers /\ f.errors = mirror.errors
          /\ f = [at |-> f.at, mode |-> f.mode, left |-> f.left, pending |-> f.pending, children |-> f.children,
                  layers |-> f.layers, errors |-> f.errors]
      BY <2>1 DEF pending
    <3> HIDE DEF f
    <3>3. MirrorIsTyped(f) BY <3>1, <3>2, <2>5 DEF MirrorIsTyped
    <3>4. ASSUME ~mirror.errors PROVE Reaches(f, mirrorStore', mirrorBlobs', mirrorTags')
      <4>1. PICK R : IsReached(R, mirror, mirrorStore, mirrorBlobs) /\ Roots(R, mirror, mirrorTags)
        BY <3>4, <2>1 DEF MirrorInv, Reaches
      <4>2. IsReached(R \cup {m}, f, mirrorStore', mirrorBlobs')
        <5> SUFFICES ASSUME NEW x \in R \cup {m}
                     PROVE  /\ x \in mirrorStore'
                            /\ \/ x \in Shown(pending)
                               \/ /\ ChildrenOf[x] \subseteq (R \cup {m}) \cup others
                                  /\ LayersOf[x] \subseteq mirrorBlobs' \cup mirror.layers
          BY <3>2 DEF IsReached
        <5>1. CASE x = m BY <5>1, <2>8, <3>1
        <5>2. CASE x \in R
          <6>1. /\ x \in mirrorStore
                /\ \/ x \in Shown(mirror.pending)
                   \/ ChildrenOf[x] \subseteq R \cup mirror.children /\ LayersOf[x] \subseteq mirrorBlobs \cup mirror.layers
            BY <5>2, <4>1 DEF IsReached
          <6> QED BY <6>1, <2>1, <2>6, <3>1
        <5> QED BY <5>1, <5>2
      <4>3. Roots(R \cup {m}, f, mirrorTags') BY <4>1, <3>2, <2>6 DEF Roots
      <4> QED BY <4>2, <4>3 DEF Reaches
    <3> QED BY <3>2, <3>3, <3>4, <2>8, <1>s
  <2> QED BY <2>6, <2>7, <2>8, <1>i
<1>5. ASSUME NEW b, MirrorBlob(b) PROVE MirrorInv'
  <2> DEFINE f == [at |-> mirror.at, mode |-> mirror.mode, left |-> mirror.left, pending |-> mirror.pending,
                   children |-> mirror.children, layers |-> mirror.layers \ {b}, errors |-> mirror.errors]
             e == [at |-> mirror.at, mode |-> mirror.mode, left |-> mirror.left, pending |-> mirror.pending,
                   children |-> mirror.children, layers |-> mirror.layers \ {b}, errors |-> TRUE]
  <2>a. PICK rest : rest = [mirror EXCEPT !.layers = @ \ {b}] OBVIOUS
  <2>b. PICK missed : missed = [rest EXCEPT !.errors = TRUE] OBVIOUS
  <2>1. rest = f BY <1>e, <2>a, Zenon
  <2>2. /\ mirror.at = "walk" /\ UNCHANGED <<mirrorStore, mirrorTags>>
        /\ \/ b \in mirrorBlobs /\ mirror' = rest /\ UNCHANGED mirrorBlobs
           \/ mirrorBlobs' = mirrorBlobs \cup {b} /\ mirror' = rest
           \/ mirror' = missed /\ UNCHANGED mirrorBlobs
    BY <1>5, <2>a, <2>b DEF MirrorBlob
  <2>3. missed = e BY <2>1, <2>b, Zenon
  <2>5. /\ IsLeft(mirror.left) /\ mirror.errors \in BOOLEAN /\ mirror.pending \in Seq(AllManifests)
        /\ mirror.children \subseteq AllManifests
    BY <1>t DEF MirrorIsTyped
  <2>6. CASE mirror' = e
    <3>1. MirrorIsTyped(e) BY <2>2, <2>5 DEF MirrorIsTyped
    <3> QED BY <3>1, <2>6, <1>s
  <2>7. CASE mirror' = f /\ mirrorBlobs' = mirrorBlobs \cup {b}
    <3>1. MirrorIsTyped(f) BY <2>2, <2>5 DEF MirrorIsTyped
    <3>2. ASSUME ~mirror.errors PROVE Reaches(f, mirrorStore', mirrorBlobs', mirrorTags')
      <4>1. PICK R : IsReached(R, mirror, mirrorStore, mirrorBlobs) /\ Roots(R, mirror, mirrorTags)
        BY <3>2, <2>2 DEF MirrorInv, Reaches
      <4>2. IsReached(R, f, mirrorStore', mirrorBlobs')
        <5> SUFFICES ASSUME NEW x \in R
                     PROVE  /\ x \in mirrorStore'
                            /\ \/ x \in Shown(mirror.pending)
                               \/ /\ ChildrenOf[x] \subseteq R \cup mirror.children
                                  /\ LayersOf[x] \subseteq mirrorBlobs' \cup (mirror.layers \ {b})
          BY DEF IsReached
        <5>1. /\ x \in mirrorStore
              /\ \/ x \in Shown(mirror.pending)
                 \/ ChildrenOf[x] \subseteq R \cup mirror.children /\ LayersOf[x] \subseteq mirrorBlobs \cup mirror.layers
          BY <4>1 DEF IsReached
        <5> QED BY <5>1, <2>2, <2>7
      <4>3. Roots(R, f, mirrorTags') BY <4>1, <2>2 DEF Roots
      <4> QED BY <4>2, <4>3 DEF Reaches
    <3> QED BY <3>1, <3>2, <2>7, <1>s
  <2>8. b \in mirrorBlobs => mirrorBlobs = mirrorBlobs \cup {b} OBVIOUS
  <2> QED BY <2>1, <2>2, <2>3, <2>6, <2>7, <2>8
<1>6. ASSUME Summary PROVE MirrorInv'
  <2> DEFINE at == IF mirror.errors THEN "error" ELSE "synced"
             f == [at |-> at, mode |-> mirror.mode, left |-> mirror.left, pending |-> mirror.pending,
                   children |-> mirror.children, layers |-> mirror.layers, errors |-> mirror.errors]
  <2>1. /\ mirror.at = "refs" /\ mirror.left = <<>> /\ mirror' = [mirror EXCEPT !.at = at]
        /\ UNCHANGED <<mirrorStore, mirrorBlobs, mirrorTags>>
    BY <1>6 DEF Summary
  <2>2. mirror' = f
    <3> HIDE DEF at
    <3> QED BY <2>1, <1>e, Zenon
  <2>3. MirrorIsTyped(f) BY <2>1, <1>t DEF MirrorIsTyped
  <2>4. ASSUME ~mirror.errors PROVE Reaches(f, mirrorStore', mirrorBlobs', mirrorTags')
    <3>1. PICK R : IsReached(R, mirror, mirrorStore, mirrorBlobs) /\ Roots(R, mirror, mirrorTags)
      BY <2>4, <2>1 DEF MirrorInv, Reaches
    <3>2. IsReached(R, f, mirrorStore', mirrorBlobs') /\ Roots(R, f, mirrorTags') BY <3>1, <2>1 DEF IsReached, Roots
    <3> QED BY <3>2 DEF Reaches
  <2> QED BY <2>2, <2>3, <2>4, <1>s
<1>7. ASSUME NEW x, LoseContent(x) PROVE MirrorInv'
  <2>1. mirror' = [NoMirror EXCEPT !.at = "idle"] BY <1>7 DEF LoseContent, NoMirror
  <2> QED BY <2>1, <1>i
<1>8. ASSUME UNCHANGED mirrorVars PROVE MirrorInv' BY <1>8, <1>s DEF mirrorVars, MirrorInv
<1> QED BY <1>1, <1>2, <1>3, <1>4, <1>5, <1>6, <1>7, <1>8 DEF MirrorNext

LEMMA MirrorsAreComplete == MirrorInv => MirrorIsComplete
<1> SUFFICES ASSUME MirrorInv, mirror.at = "synced", NEW i \in DOMAIN MirrorRefs
             PROVE  LET ref == MirrorRefs[i] IN
                    /\ \A m \in Closure(ref.digest) : m \in mirrorStore /\ LayersOf[m] \subseteq mirrorBlobs
                    /\ ~ref.byDigest => ref.digest \in mirrorTags
  BY DEF MirrorIsComplete
<1>1. mirror.pending = <<>> /\ mirror.children = {} /\ mirror.layers = {} /\ mirror.left = <<>> /\ ~mirror.errors
  BY DEF MirrorInv, MirrorIsTyped
<1>2. PICK R : IsReached(R, mirror, mirrorStore, mirrorBlobs) /\ Roots(R, mirror, mirrorTags)
  BY <1>1 DEF MirrorInv, Reaches
<1>3. \A m \in R : m \in mirrorStore /\ ChildrenOf[m] \subseteq R /\ LayersOf[m] \subseteq mirrorBlobs
  BY <1>1, <1>2 DEF IsReached, Shown
<1>4. i \in 1..(Len(MirrorRefs) - Len(mirror.left)) BY <1>1, MirrorBounds
<1>5. MirrorRefs[i].digest \in R /\ (~MirrorRefs[i].byDigest => MirrorRefs[i].digest \in mirrorTags)
  BY <1>2, <1>4 DEF Roots
<1>6. Closure(MirrorRefs[i].digest) \subseteq R BY <1>3, <1>5 DEF Closure
<1> QED BY <1>3, <1>5, <1>6

--------------------------------
(* One client serves every proxied index and attaches only tokens minted for *)
(* the very credentials, host and repository (Upstream::send); the pages of  *)
(* a list cover what stayed, in order (paginate); a list gathered from       *)
(* cached pages is no older than the ttl and the stale bound (proxy_tags,    *)
(* fetch_tag_names); and a mirror that reports success has every manifest    *)
(* and blob the references lead to, however deep indexes nest up to the two  *)
(* levels that the property looks at (walk_manifest).                        *)
THEOREM DiscoveryStaysSound == TokenSpec /\ PageSpec /\ ListSpec /\ MirrorSpec => []DiscoveryIsSound
<1>1. TokenSpec => []TokenInv BY TokenStarts, TokenSteps, PTL DEF TokenSpec
<1>2. PageSpec => []WalkInv BY WalkStarts, WalkSteps, PTL DEF PageSpec
<1>3. ListSpec => []ListInv BY ListStarts, ListSteps, PTL DEF ListSpec
<1>4. MirrorSpec => []MirrorInv BY MirrorStarts, MirrorSteps, PTL DEF MirrorSpec
<1>5. TokenInv /\ WalkInv /\ ListInv /\ MirrorInv => DiscoveryIsSound
  BY TokensAreOwned, PagesCover, ListsStayRecent, MirrorsAreComplete DEF DiscoveryIsSound
<1> QED BY <1>1, <1>2, <1>3, <1>4, <1>5, PTL
====
