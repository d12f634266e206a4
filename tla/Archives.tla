---------------- MODULE Archives ----------------
(* Distribution archives: what an upload's wheel or sdist must hold
   (peryx-ecosystem-pypi/src/archive) and how the inspector lists nested
   archives and pages through a text member (peryx-storage/src/archive).

   A path is the sequence of its segments, a metadata document the
   sequence of its headers with folded lines joined, a text member the
   sequence of its bytes: "a" is a character of its own, "2" and "3" lead
   characters of two and three bytes, "c" continues one. *)
EXTENDS Integers, Sequences, SequencesExt, Checks

CONSTANTS
    NormalName,        \* valid project names, each with its normal form
    ParsedVersion,     \* version texts that parse, each with what it parses to
    Filenames,         \* distribution filenames that parse, each with its parts
    MetadataBytes,     \* largest metadata document that is read
    MaxSdistEntries,   \* most entries of an sdist
    SdistEntries,      \* the entries the checked sdists are made of
    WheelFiles,        \* the files the checked wheels may hold
    MaxWheelFlaws,     \* most flaws of a checked wheel
    MaxListedEntries,  \* most files of a listing
    MaxContainerDepth, \* deepest stack of nested archives
    NestedBytes,       \* largest member that is opened as an archive
    MaxMemberChunk,    \* largest chunk of a member
    TextMembers,       \* the texts the pager reads
    InspectedArchives  \* the archives the inspector opens

VARIABLES sdist, wheel, pager

archiveVars == <<sdist, wheel, pager>>

Missing == "none"
UnknownVersion == "9.9"
NoDoc == <<"no document">>

--------------------------------
(* Core metadata: headers in order, a single-use field at most once. *)

SingleUse ==
    {"metadata-version", "name", "version", "summary", "description", "description-content-type", "keywords",
     "home-page", "download-url", "author", "author-email", "maintainer", "maintainer-email", "license",
     "license-expression", "requires-python"}

ValuesOf(lines, key) ==
    LET found == SelectSeq(lines, LAMBDA l : l.key = key)
        values == [i \in DOMAIN found |-> found[i].value]
    IN  IF key \in SingleUse THEN SelectSeq(values, LAMBDA v : v # "") ELSE values

ParseError(lines) ==
    FirstError(<<
        <<"malformed", \E i \in DOMAIN lines : lines[i].key \in {"folded", "no colon", "no name"}>>,
        <<"repeated", \E i, j \in DOMAIN lines :
              i # j /\ lines[i].key = lines[j].key /\ lines[i].key \in SingleUse>> >>)

Field(lines, key) == IF ValuesOf(lines, key) = <<>> THEN Missing ELSE ValuesOf(lines, key)[1]

(* Metadata versions rank as major * 10 + minor. *)
SupportedVersions ==
    [v \in {"1.0", "1.1", "1.2", "2.1", "2.2", "2.3", "2.4", "2.5", "2.6"} |->
        CASE v = "1.0" -> 10 [] v = "1.1" -> 11 [] v = "1.2" -> 12 [] v = "2.1" -> 21 [] v = "2.2" -> 22
          [] v = "2.3" -> 23 [] v = "2.4" -> 24 [] v = "2.5" -> 25 [] OTHER -> 26]

--------------------------------
(* Member names. *)

SafeMemberName(path) == path # <<>> /\ \A i \in DOMAIN path : path[i] \notin {"", ".", "..", "back\\slash"}

SafeSdistMemberName(path) == SafeMemberName(path) /\ path[1] # "C:"

--------------------------------
(* An sdist is walked once, entry by entry. *)

NewMembers == [error |-> "ok", pyproject |-> FALSE, metadata |-> NoDoc, entries |-> 0, paths |-> {}]

InRoot(root, e) ==
    \/ e.path = <<root>> /\ e.type = "dir"
    \/ Len(e.path) > 1 /\ e.path[1] = root

LinkResolves(e) == IF e.type = "symlink" THEN Front(e.path) \o e.target ELSE e.target

LinkInside(root, e) ==
    /\ e.target # Missing /\ SafeSdistMemberName(e.target)
    /\ LinkResolves(e)[1] = root

IsLink(e) == e.type \in {"symlink", "hardlink"}
IsPkgInfo(root, e) == e.type = "file" /\ e.path = <<root, "PKG-INFO">>

EntryError(root, kind, members, e) ==
    LET named == SafeSdistMemberName(e.path) IN
    FirstError(<<
        <<"unsafe", ~named>>,
        <<"outside", named /\ ~InRoot(root, e)>>,
        <<"type", kind = "tar" /\ e.type \notin {"file", "dir", "symlink", "hardlink"}>>,
        <<"link", kind = "tar" /\ IsLink(e) /\ named /\ Len(e.path) > 1 /\ ~LinkInside(root, e)>>,
        <<"large", IsPkgInfo(root, e) /\ e.size > MetadataBytes>>,
        <<"twice", IsPkgInfo(root, e) /\ members.metadata # NoDoc>>,
        <<"entries", members.entries = MaxSdistEntries>> >>)

RecordEntry(root, kind, members, e) ==
    LET error == EntryError(root, kind, members, e) IN
    IF members.error # "ok" THEN members
    ELSE IF error # "ok" THEN [members EXCEPT !.error = error]
    ELSE [error |-> "ok",
          pyproject |-> members.pyproject \/ (e.type = "file" /\ e.path = <<root, "pyproject.toml">>),
          metadata |-> IF IsPkgInfo(root, e) THEN e.lines ELSE members.metadata,
          entries |-> members.entries + 1,
          paths |-> IF e.type = "file" \/ IsLink(e) THEN members.paths \cup {e.path} ELSE members.paths]

SdistMembers(root, kind, entries) ==
    FoldLeft(LAMBDA members, e : RecordEntry(root, kind, members, e), NewMembers, entries)

\* The declared license files whose name is not among the members below the license root.
MissingFrom(lines, present) == SelectSeq(ValuesOf(lines, "license-file"), LAMBDA value : value \notin present)

FinishSdist(root, members) ==
    LET lines == IF members.metadata = NoDoc THEN <<>> ELSE members.metadata
        rank == Field(lines, "metadata-version")
    IN  [error |-> FirstError(<<
             <<members.error, members.error # "ok">>,
             <<"no pyproject", ~members.pyproject>>,
             <<"no metadata", members.metadata = NoDoc>>,
             <<"malformed metadata", ParseError(lines) # "ok">>,
             <<"metadata version", rank \notin DOMAIN SupportedVersions \cup {UnknownVersion}>>,
             <<"old metadata", rank \in DOMAIN SupportedVersions /\ SupportedVersions[rank] < 22>> >>),
         lines |-> lines,
         missing |-> MissingFrom(lines, {path[2] : path \in {p \in members.paths : Len(p) = 2 /\ p[1] = root}})]

ValidateSdist(root, kind, entries) == FinishSdist(root, SdistMembers(root, kind, entries))

--------------------------------
(* A wheel: the dist-info directory its name implies, the required members *)
(* and a RECORD that vouches for every other file.  A row's hash and size  *)
(* are "right", "wrong" or blank.                                          *)

Required == {"METADATA", "WHEEL", "RECORD"}
Signatures == {"RECORD.jws"}

RowsFor(w, file) == SelectSeq(w.rows, LAMBDA row : row.file = file)

DistInfoMatches(fn, dir) == dir.name \in DOMAIN NormalName /\ NormalName[dir.name] = fn.name
                            /\ dir.version \in DOMAIN ParsedVersion /\ ParsedVersion[dir.version] = fn.version

WheelMembersError(fn, w) ==
    FirstError(<<
        <<"unsafe", w.unsafe>>,
        <<"dist-info", w.dirs = {}>>,
        <<"dist-info", Cardinality(w.dirs) > 1>>,
        <<"dist-info", \E dir \in w.dirs : ~DistInfoMatches(fn, dir)>>,
        <<"required", ~Required \subseteq w.files>> >>)

RecordError(w) ==
    LET rows == w.rows
        checked == w.files \ (Signatures \cup {"RECORD"})
        own == RowsFor(w, "RECORD")
    IN  FirstError(<<
            <<"duplicate row", \E i, j \in DOMAIN rows : i # j /\ rows[i].file = rows[j].file>>,
            <<"empty", rows = <<>> >>,
            <<"signature row", \E i \in DOMAIN rows : rows[i].file \in Signatures>>,
            <<"absent file", \E i \in DOMAIN rows : rows[i].file \notin w.files>>,
            <<"own hash", \E i \in DOMAIN own : own[i].hash # "">>,
            <<"own size", \E i \in DOMAIN own : own[i].size = "wrong">>,
            <<"own row", own = <<>> >>,
            <<"unlisted", \E f \in checked : RowsFor(w, f) = <<>> >>,
            <<"size", \E f \in checked : \E i \in DOMAIN rows : rows[i].file = f /\ rows[i].size = "wrong">>,
            <<"hash", \E f \in checked : \E i \in DOMAIN rows : rows[i].file = f /\ rows[i].hash # "right">> >>)

ValidateWheel(fn, w) ==
    [error |-> FirstError(<<
         <<WheelMembersError(fn, w), WheelMembersError(fn, w) # "ok">>,
         <<"WHEEL", ~w.wheelFile>>,
         <<RecordError(w), RecordError(w) # "ok">>,
         <<"entry points", "entry_points.txt" \in w.files /\ ~w.entryPoints>> >>),
     lines |-> w.lines,
     missing |-> IF ParseError(w.lines) # "ok" THEN <<>> ELSE MissingFrom(w.lines, w.files)]

--------------------------------
(* The inspector. *)

ArchiveKinds == {"zip", "tar"}
NoArchive == [kind |-> "other", members |-> <<>>]
NoMember == [name |-> <<>>, type |-> "none", size |-> 0, inner |-> NoArchive]

(* A zip's directory keeps the last entry of a name, a tar all of them. *)
Files(a) ==
    LET kept(i) == a.kind = "tar" \/ \A j \in i + 1 .. Len(a.members) : a.members[j].name # a.members[i].name
        entries == [i \in DOMAIN a.members |-> [kept |-> kept(i), member |-> a.members[i]]]
        files == SelectSeq(entries, LAMBDA e : e.kept /\ e.member.type = "file")
    IN  [i \in DOMAIN files |-> files[i].member]

(* A tar is read up to the first entry of a name. *)
FindMember(a, name) ==
    LET found == SelectSeq(Files(a), LAMBDA m : m.name = name)
    IN  IF found = <<>> THEN NoMember ELSE found[1]

OpenError(a, name) ==
    LET m == FindMember(a, name) IN
    FirstError(<<
        <<"unsafe", ~SafeMemberName(name)>>,
        <<"unsupported", m # NoMember /\ m.inner.kind \notin ArchiveKinds>>,
        <<"not found", m = NoMember>>,
        <<"too large", m # NoMember /\ m.size > NestedBytes>> >>)

ResolveContainerStack(archive, containers) ==
    IF Len(containers) > MaxContainerDepth THEN [error |-> "too deep", archive |-> NoArchive]
    ELSE FoldLeft(LAMBDA at, name :
             IF at.error # "ok" THEN at
             ELSE IF OpenError(at.archive, name) # "ok"
                  THEN [error |-> OpenError(at.archive, name), archive |-> NoArchive]
                  ELSE [error |-> "ok", archive |-> FindMember(at.archive, name).inner],
             [error |-> "ok", archive |-> archive], containers)

ListMembers(a) ==
    LET files == Files(a)
        error == FirstError(<<
            <<"unsafe", \E i \in DOMAIN files : ~SafeMemberName(files[i].name)>>,
            <<"too many", Len(files) > MaxListedEntries>> >>)
    IN  [error |-> error, members |-> IF error = "ok" THEN {files[i] : i \in DOMAIN files} ELSE {}]

--------------------------------
(* Chunks of a text member never split a character. *)

CharacterLength(byte) == CASE byte = "2" -> 2 [] byte = "3" -> 3 [] OTHER -> 1

(* The ends of the whole characters that follow one another from the start. *)
IsCharacter(bytes, from, to) ==
    /\ to = from + CharacterLength(bytes[from]) - 1 /\ to <= Len(bytes) /\ bytes[from] # "c"
    /\ \A i \in from + 1 .. to : bytes[i] = "c"

ValidUpTo(bytes) ==
    LET valid[from \in 1 .. Len(bytes) + 1] ==
            IF from = Len(bytes) + 1 THEN Len(bytes)
            ELSE LET ends == {to \in from .. Len(bytes) : IsCharacter(bytes, from, to)}
                 IN  IF ends = {} THEN from - 1 ELSE valid[(CHOOSE to \in ends : TRUE) + 1]
    IN  valid[1]

(* What is left is the beginning of a character that the chunk cuts off. *)
CutsCharacter(bytes) ==
    LET n == ValidUpTo(bytes)
        rest == SubSeq(bytes, n + 1, Len(bytes))
    IN  rest # <<>> /\ rest[1] \in {"2", "3"} /\ Len(rest) < CharacterLength(rest[1])
        /\ \A i \in 2 .. Len(rest) : rest[i] = "c"

LeadingContinuations(bytes) ==
    LET leads == {i \in DOMAIN bytes : bytes[i] # "c"}
    IN  IF leads = {} THEN Len(bytes) ELSE (CHOOSE i \in leads : \A j \in leads : i <= j) - 1

Realigned(chunk) ==
    LET lead == LeadingContinuations(chunk.bytes)
    IN  IF chunk.offset > 0 /\ lead \in 1 .. 3
        THEN [chunk EXCEPT !.bytes = SubSeq(chunk.bytes, lead + 1, Len(chunk.bytes)), !.offset = @ + lead]
        ELSE chunk

ReadSlice(member, offset, limit) ==
    LET next == offset + (IF Len(member) - offset < limit THEN Len(member) - offset ELSE limit)
    IN  [bytes |-> SubSeq(member, offset + 1, next), offset |-> offset,
         next |-> IF next < Len(member) THEN next ELSE Len(member)]

(* Mutant of TextChunk: the cut-off character is dropped and skipped. *)
TextChunkSkipping(member, offset, limit) ==
    LET chunk == Realigned(ReadSlice(member, offset, limit))
        valid == ValidUpTo(chunk.bytes)
    IN  IF valid = Len(chunk.bytes) \/ CutsCharacter(chunk.bytes)
        THEN [chunk EXCEPT !.bytes = SubSeq(chunk.bytes, 1, valid)]
        ELSE [chunk EXCEPT !.bytes = <<"binary">>]

(* text_chunk: a chunk whose end cuts a character is shortened to the last *)
(* whole one, and the next chunk starts there.                             *)
TextChunk(member, offset, limit) ==
    LET chunk == Realigned(ReadSlice(member, offset, limit))
        valid == ValidUpTo(chunk.bytes)
    IN  IF valid = Len(chunk.bytes) THEN chunk
        ELSE IF CutsCharacter(chunk.bytes) /\ chunk.next < Len(member) /\ valid > 0
        THEN [bytes |-> SubSeq(chunk.bytes, 1, valid), offset |-> chunk.offset, next |-> chunk.offset + valid]
        ELSE [chunk EXCEPT !.bytes = <<"binary">>]

--------------------------------
(* An sdist is walked entry by entry, a publisher builds a wheel file by   *)
(* file, and a reader opens a chunk anywhere and follows the offset it gets.  *)

NewPager == [text |-> <<>>, limit |-> 1, start |-> 0, offset |-> 0, read |-> <<>>, state |-> "closed"]
NewSdist == [entries |-> <<>>, members |-> NewMembers]
NewWheel == [dirs |-> {}, unsafe |-> FALSE, files |-> {}, rows |-> <<>>, wheelFile |-> TRUE, entryPoints |-> TRUE,
             lines |-> <<>>, flaws |-> 0]

ArchiveInit == sdist = NewSdist /\ wheel = NewWheel /\ pager = NewPager

(* The walk returns at the first entry it refuses. *)
WalkEntry(root, e) ==
    /\ sdist.members.error = "ok"
    /\ sdist' = [entries |-> Append(sdist.entries, e), members |-> RecordEntry(root, "tar", sdist.members, e)]

AddFile(f, rows, flaws) ==
    /\ f \notin wheel.files /\ wheel.flaws + flaws <= MaxWheelFlaws
    /\ wheel' = [wheel EXCEPT !.files = @ \cup {f}, !.rows = @ \o rows, !.flaws = @ + flaws]

Row(f, hash, size) == [file |-> f, hash |-> hash, size |-> size]

AddHonestFile(f) == AddFile(f, <<IF f = "RECORD" THEN Row(f, "", "") ELSE Row(f, "right", "right")>>, 0)

AddFlawedFile(f) ==
    \/ AddFile(f, <<>>, 1)
    \/ \E hash \in {"right", "wrong", ""}, size \in {"right", "wrong", ""} : AddFile(f, <<Row(f, hash, size)>>, 1)
    \/ \E g \in WheelFiles : AddFile(f, <<Row(f, "right", ""), Row(g, "right", "")>>, 1)

OpenMember(text, start, limit) ==
    /\ pager.state = "closed"
    /\ pager' = [NewPager EXCEPT !.text = text, !.limit = limit, !.start = start, !.offset = start, !.state = "open"]

ReadChunk ==
    /\ pager.state = "open"
    /\ LET chunk == TextChunk(pager.text, pager.offset, pager.limit) IN
       pager' = IF chunk.bytes = <<"binary">> THEN [pager EXCEPT !.state = "binary"]
                ELSE [pager EXCEPT !.start = IF @ = pager.offset THEN chunk.offset ELSE @,
                                   !.offset = chunk.next, !.read = @ \o chunk.bytes,
                                   !.state = IF chunk.next = Len(pager.text) THEN "done" ELSE "open"]

SdistRoots == {Filenames[f].root : f \in {f \in DOMAIN Filenames : Filenames[f].kind = "tar"}}

SdistNext == \E root \in SdistRoots, e \in SdistEntries : WalkEntry(root, e)
WheelNext == \E f \in WheelFiles : AddHonestFile(f) \/ AddFlawedFile(f)
PagerNext ==
    \/ \E text \in TextMembers, limit \in 1 .. MaxMemberChunk : \E start \in 0 .. Len(text) : OpenMember(text, start, limit)
    \/ ReadChunk

--------------------------------
(* Where a path leads once the links of the sdist are followed. *)
Landing(path) ==
    LET links == SelectSeq(sdist.entries, LAMBDA e : e.type = "symlink")
        follow(p) ==
            LET met == {i \in DOMAIN links : IsPrefix(links[i].path, p)}
            IN  IF met = {} THEN p
                ELSE LET l == links[CHOOSE i \in met : TRUE]
                     IN  LinkResolves(l) \o SubSeq(p, Len(l.path) + 1, Len(p))
    IN  FoldLeft(LAMBDA p, l : follow(p), path, links)

StaysIn(root, path) ==
    LET depth(i) == Cardinality({j \in 1 .. i : path[j] # ".."}) - Cardinality({j \in 1 .. i : path[j] = ".."})
    IN  path[1] = root /\ \A i \in DOMAIN path : depth(i) >= 1

(* A name that a listing shows is found again, and can be opened as a       *)
(* container when it is one.                                               *)
ListedMembersAreFound ==
    \A a \in InspectedArchives :
        \A m \in ListMembers(a).members :
            /\ FindMember(a, m.name) # NoMember
            /\ FindMember(a, m.name) = m /\ m.inner.kind \in ArchiveKinds /\ m.size <= NestedBytes =>
                   ResolveContainerStack(a, <<m.name>>).error = "ok"

(* An sdist that validate_sdist_path accepts unpacks below its root,       *)
(* whatever links lead through other links; a wheel that validate_wheel_   *)
(* path accepts holds nothing its RECORD does not vouch for; a name that   *)
(* a listing shows is found again.                                         *)
ArchivesAreSafe ==
    /\ \A root \in SdistRoots :
          sdist # NewSdist /\ FinishSdist(root, sdist.members).error = "ok" =>
              \A i \in DOMAIN sdist.entries : StaysIn(root, Landing(sdist.entries[i].path))
    /\ wheel.rows # <<>> /\ RecordError(wheel) = "ok" =>
          \A f \in wheel.files \ (Signatures \cup {"RECORD"}) :
              \E i \in DOMAIN wheel.rows : wheel.rows[i].file = f /\ wheel.rows[i].hash = "right"
    /\ ListedMembersAreFound

(* Chunks that text_chunk returns join to the text between the first       *)
(* character at or after the offset asked for and the offset promised next; *)
(* a text is taken for binary only when the limit is shorter than a        *)
(* character and the bytes the start leaves over.                          *)
PagesJoin ==
    /\ pager.state \in {"open", "done"} => pager.read = SubSeq(pager.text, pager.start + 1, pager.offset)
    /\ pager.state = "done" => pager.offset = Len(pager.text)
    /\ pager.state = "binary" => pager.limit < IF pager.start = 0 THEN 3 ELSE 5

(* What the walks of an sdist and a wheel accept is safe, and the pages of  *)
(* a text member join to the text.                                         *)
ArchivesAreExact == ArchivesAreSafe /\ PagesJoin
================================
