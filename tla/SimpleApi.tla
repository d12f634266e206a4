---------------- MODULE SimpleApi ----------------
(* The files and pages of the Simple API (simple/, html.rs, legacy_json.rs
   of the PyPI driver): what a file says of itself, how it is presented on
   a route, and the two other forms a page is served and read in, HTML and
   the legacy JSON.  Texts and URLs are sequences of symbols. *)
EXTENDS Naturals, Sequences, FiniteSets, SequencesExt, Functions

CONSTANTS
    VersionRank,     \* version text |-> its place in the PEP 440 order; 0 for a text that is no version
    NameInfo         \* filename |-> [ext, segment, valid, encoded]: the version segment, whether it parses, its URL form

NoText == <<"no text">>
NoHashes == [a \in {} |-> ""]
Absent == [kind |-> "absent", hashes |-> NoHashes]
Available == [kind |-> "available", hashes |-> NoHashes]
Hashes(h) == [kind |-> "hashes", hashes |-> h]
NotYanked == [kind |-> "no", reason |-> <<>>]
Yanked == [kind |-> "yes", reason |-> <<>>]
YankedBecause(text) == [kind |-> "reason", reason |-> text]

--------------------------------
(* The meta object. *)

(* <<>> is no version, <<n>> one without a dot. *)
ServedVersion(version) ==
    CASE version = <<>> -> "1.0"
      [] Len(version) = 1 -> "invalid"
      [] version[1] # 1 -> "unsupported"
      [] OTHER -> IF version[2] >= 1 THEN "1.4" ELSE "1.0"

Statuses == {"active", "archived", "quarantined", "deprecated"}
MetaOk(m) == ServedVersion(m.version) \in {"1.4", "1.0"} /\ m.status \in Statuses \cup {"none"}
ServedMeta(m) == [m EXCEPT !.version = IF ServedVersion(m.version) = "1.4" THEN <<1, 4>> ELSE <<1, 0>>]
DefaultMeta == [version |-> <<>>, status |-> "none", reason |-> NoText]
OffersDownloads(m) == m.status # "quarantined"

--------------------------------
(* One file. *)

HasSha256(file) == "sha256" \in DOMAIN file.hashes
Metadata(file) == IF file.core.kind = "absent" THEN file.dist ELSE file.core
SetMetadata(file, metadata) == [file EXCEPT !.core = metadata, !.dist = metadata]
ClearMetadata(file) == SetMetadata(file, Absent)

(* Serializing writes the metadata that counts under both spellings. *)
Serialized(file) == SetMetadata(file, Metadata(file))

LocalFileUrl(route, file) == <<"/", route, "/files/", file.hashes["sha256"], "/", NameInfo[file.filename].encoded>>
IsLocalFileUrl(route, url) == Len(url) >= 3 /\ SubSeq(url, 1, 3) = <<"/", route, "/files/">>

IsAbsolute(url) == url # <<>> /\ url[1] = "https:"
Directory(url) == SubSeq(url, 1, Max({i \in DOMAIN url : url[i] = "/"}))
Join(base, url) ==
    CASE IsAbsolute(url) -> url
      [] url # <<>> /\ url[1] = "/" -> SubSeq(base, 1, 2) \o url
      [] OTHER -> Directory(base) \o url
Absolutize(base, file) == [file EXCEPT !.url = Join(base, @)]

Before(text, marks) == LET at == {i \in DOMAIN text : text[i] \in marks} IN IF at = {} THEN text ELSE SubSeq(text, 1, Min(at) - 1)
After(text, mark) == LET at == {i \in DOMAIN text : text[i] = mark} IN IF at = {} THEN <<>> ELSE SubSeq(text, Min(at) + 1, Len(text))

(* metadata_sibling: the suffix goes before a query or a fragment. *)
MetadataSibling(url) == LET cut == Before(url, {"?", "#"}) IN cut \o <<".metadata">> \o SubSeq(url, Len(cut) + 1, Len(url))

SupportsSibling(filename) == NameInfo[filename].ext \in {"whl", "tar.gz"}

(* present_file: the buffered path.  known is the digests of metadata that was generated, by artifact. *)
PresentFile(file, route, known) ==
    IF ~HasSha256(file) THEN ClearMetadata(file) ELSE
    LET claimed == Metadata(file)
        checked == IF claimed.kind = "hashes" /\ "sha256" \in DOMAIN claimed.hashes THEN file ELSE ClearMetadata(file)
        sha == file.hashes["sha256"]
        filled == IF Metadata(checked).kind = "absent" /\ SupportsSibling(file.filename) /\ sha \in DOMAIN known
                  THEN SetMetadata(checked, Hashes([a \in {"sha256"} |-> known[sha]])) ELSE checked
    IN  [filled EXCEPT !.url = IF IsLocalFileUrl(route, @) THEN @ ELSE LocalFileUrl(route, file), !.gpg = "none"]

(* known_metadata: asked for the files that make no claim. *)
KnownMetadata(files, generated) ==
    Restrict(generated, {d \in DOMAIN generated : \E i \in DOMAIN files :
        SupportsSibling(files[i].filename) /\ Metadata(files[i]).kind = "absent" /\ HasSha256(files[i])
        /\ files[i].hashes["sha256"] = d})

--------------------------------
(* The HTML form: an anchor is its attributes and its text. *)

Escaped(text, attribute) ==
    FlattenSeq([i \in DOMAIN text |->
        CASE text[i] = "&" -> <<"&", "amp;">>
          [] text[i] = "<" -> <<"&", "lt;">>
          [] text[i] = ">" -> <<"&", "gt;">>
          [] text[i] = "\"" /\ attribute -> <<"&", "quot;">>
          [] OTHER -> <<text[i]>>])

(* str::replace looks at the text as it was. *)
Replace(text, entity, symbol) ==
    FlattenSeq([i \in DOMAIN text |->
        CASE text[i] = "&" /\ i < Len(text) /\ text[i + 1] = entity -> <<symbol>>
          [] i > 1 /\ text[i] = entity /\ text[i - 1] = "&" -> <<>>
          [] OTHER -> <<text[i]>>])

DecodeEntities(text) ==
    FoldLeft(LAMBDA t, entity : Replace(t, entity[1], entity[2]), text,
             <<<<"lt;", "<">>, <<"gt;", ">">>, <<"quot;", "\"">>, <<"#39;", "'">>, <<"amp;", "&">>>>)

RenderedHash(hashes) ==
    IF "sha256" \in DOMAIN hashes THEN <<"#", "sha256", "=", hashes["sha256"]>>
    ELSE IF "md5" \in DOMAIN hashes THEN <<"#", "md5", "=", hashes["md5"]>> ELSE <<>>

MetadataAttr(metadata) ==
    CASE metadata.kind = "absent" -> NoText
      [] metadata.kind = "hashes" /\ "sha256" \in DOMAIN metadata.hashes -> <<"sha256", "=", metadata.hashes["sha256"]>>
      [] OTHER -> <<"true">>

(* An attribute that is not there is NoText. *)
RenderAnchor(file) ==
    LET text(t) == IF t = NoText THEN NoText ELSE Escaped(t, TRUE)
    IN  [href |-> Escaped(file.url, TRUE) \o RenderedHash(file.hashes), python |-> text(file.python),
         gpg |-> IF file.gpg = "none" THEN NoText ELSE <<file.gpg>>,
         yanked |-> CASE file.yanked.kind = "no" -> NoText [] file.yanked.kind = "yes" -> <<>> [] OTHER -> text(file.yanked.reason),
         provenance |-> IF file.provenance \in {NoText, <<"null">>} THEN NoText ELSE text(file.provenance),
         core |-> MetadataAttr(Metadata(file)), dist |-> MetadataAttr(Metadata(file)),
         size |-> NoText, time |-> NoText]

FragmentHash(fragment) ==
    IF Len(fragment) = 3 /\ fragment[2] = "=" /\ fragment[1] \in {"sha512", "sha384", "sha256", "sha224", "sha1", "md5"}
    THEN [a \in {fragment[1]} |-> fragment[3]] ELSE NoHashes

MetadataOf(attr) ==
    CASE attr \in {NoText, <<"false">>} -> Absent
      [] Len(attr) = 3 /\ attr[2] = "=" -> Hashes([a \in {attr[1]} |-> attr[3]])
      [] OTHER -> Available

(* anchor_to_file: the name is the last segment of the address, whatever the text of the anchor says. *)
AnchorToFile(anchor, base) ==
    LET url == Join(base, DecodeEntities(anchor.href))
        plain == Before(url, {"#"})
        path == Before(plain, {"?"})
        named == {f \in DOMAIN NameInfo : NameInfo[f].encoded = Last(path)}
        text(t) == IF t = NoText THEN NoText ELSE DecodeEntities(t)
    IN  IF named = {} THEN <<>> ELSE
        <<[filename |-> CHOOSE f \in named : TRUE, url |-> plain, hashes |-> FragmentHash(After(url, "#")),
           python |-> text(anchor.python), size |-> anchor.size, time |-> anchor.time,
           yanked |-> CASE anchor.yanked = NoText -> NotYanked [] anchor.yanked = <<>> -> Yanked
                        [] OTHER -> YankedBecause(text(anchor.yanked)),
           core |-> MetadataOf(anchor.core), dist |-> MetadataOf(anchor.dist),
           gpg |-> IF anchor.gpg = NoText THEN "none" ELSE anchor.gpg[1], provenance |-> text(anchor.provenance)]>>

(* Rendered and read again a file loses its size, its time, all hashes but one, and the difference between no
   provenance and an explicit null (render.rs, html.rs); nothing else, whatever characters its texts hold. *)
SurvivesHtml(file, base) ==
    AnchorToFile(RenderAnchor(file), base) =
        <<[Serialized(file) EXCEPT
             !.url = Join(base, @), !.size = NoText, !.time = NoText,
             !.hashes = IF "sha256" \in DOMAIN @ THEN Restrict(@, {"sha256"}) ELSE Restrict(@, DOMAIN @ \cap {"md5"}),
             !.yanked = IF @.kind = "reason" /\ @.reason = <<>> THEN Yanked ELSE @,
             !.provenance = IF @ = <<"null">> THEN NoText ELSE @]>>

(* The head of a page: the meta tags by name.  UpstreamMeta::read takes the three it knows. *)
RenderHead(m) ==
    [version |-> m.version, status |-> m.status, reason |-> IF m.reason = NoText THEN NoText ELSE Escaped(m.reason, TRUE)]
ReadHead(tags) ==
    [version |-> tags.version, status |-> tags.status, reason |-> IF tags.reason = NoText THEN NoText ELSE DecodeEntities(tags.reason)]

(* The list of projects: an entry is named by its text, or by its address where it has none. *)
RenderEntry(name, normalized) == [href |-> <<normalized, "/">>, text |-> Escaped(name, FALSE)]
EntryName(anchor) == IF anchor.text = <<>> THEN <<anchor.href[1]>> ELSE DecodeEntities(anchor.text)

--------------------------------
(* The legacy JSON form of a page: a detail is its versions and its files. *)

VersionKey(version) == [rank |-> VersionRank[version], raw |-> IF VersionRank[version] = 0 THEN version ELSE ""]
VersionsMatch(a, b) == a = b \/ (VersionRank[a] # 0 /\ VersionRank[a] = VersionRank[b])

Segment(file) == NameInfo[file.filename].segment
MatchesVersion(file, version) == Segment(file) # "none" /\ VersionsMatch(Segment(file), version)

GroupByVersion(detail, key) ==
    SelectSeq(detail.files, LAMBDA f : Segment(f) # "none" /\ VersionKey(Segment(f)) = key)

(* Newest first, what is no version last and in its order. *)
SortedDesc(versions) ==
    LET ranks == Reverse(SetToSortSeq({VersionRank[versions[i]] : i \in DOMAIN versions}, <))
    IN  FlattenSeq([r \in DOMAIN ranks |-> SelectSeq(versions, LAMBDA v : VersionRank[v] = ranks[r])])

ReleaseVersions(detail) ==
    LET add(known, f) == IF NameInfo[f.filename].valid /\ ~\E i \in DOMAIN known : VersionKey(known[i]) = VersionKey(Segment(f))
                         THEN Append(known, Segment(f)) ELSE known
    IN  SortedDesc(FoldLeft(add, detail.versions, detail.files))

ReleaseFiles(detail, version) == SelectSeq(detail.files, LAMBDA f : MatchesVersion(f, version))
IsYanked(file) == file.yanked.kind # "no"

ReleaseYanked(detail, version) ==
    LET files == ReleaseFiles(detail, version) IN files # <<>> /\ \A i \in DOMAIN files : IsYanked(files[i])

FirstOf(versions, P(_)) ==
    LET fit == {i \in DOMAIN versions : P(versions[i])} IN IF fit = {} THEN "none" ELSE versions[Min(fit)]

LatestRelease(detail) ==
    LET versions == ReleaseVersions(detail)
        filled == FirstOf(versions, LAMBDA v : ReleaseFiles(detail, v) # <<>>)
    IN  IF filled # "none" \/ versions = <<>> THEN filled ELSE Head(versions)

FindRelease(detail, requested) ==
    LET listed == FirstOf(detail.versions, LAMBDA v : VersionsMatch(v, requested))
    IN  IF listed # "none" THEN listed ELSE IF ReleaseFiles(detail, requested) # <<>> THEN requested ELSE "none"

(* The answer, for a version or for the project ("none"); a version nobody has is not found. *)
LegacyJson(detail, requested) ==
    LET selected == IF requested = "none" THEN LatestRelease(detail) ELSE FindRelease(detail, requested)
        versions == ReleaseVersions(detail)
    IN  [found |-> requested = "none" \/ selected # "none", version |-> selected,
         urls |-> IF selected = "none" THEN <<>> ELSE ReleaseFiles(detail, selected),
         yanked |-> selected # "none" /\ ReleaseYanked(detail, selected),
         releases |-> [v \in {versions[i] : i \in DOMAIN versions} |-> GroupByVersion(detail, VersionKey(v))]]

(* The releases hold every file whose name is understood, each under every spelling of its version and nowhere
   else; the files of the release shown are the ones listed under it; it is yanked only if all of it is; the newest
   release that has files is shown; and a version is found exactly if the page lists it or a file belongs to it
   (legacy_json.rs). *)
LegacyAgrees(detail, versions) ==
    \A whole \in {LegacyJson(detail, "none")} :
    LET files == detail.files
    IN  /\ \A i \in DOMAIN files : NameInfo[files[i].filename].valid =>
               LET under == {v \in DOMAIN whole.releases : Contains(whole.releases[v], files[i])}
               IN  under = {v \in DOMAIN whole.releases : VersionsMatch(v, Segment(files[i]))} /\ under # {}
        /\ whole.version # "none" =>
               /\ whole.urls = whole.releases[whole.version]
               /\ \A v \in DOMAIN whole.releases :
                      whole.releases[v] # <<>> => whole.urls # <<>> /\ VersionRank[v] <= VersionRank[whole.version]
        /\ \A v \in versions : \A answer \in {LegacyJson(detail, v)} :
               /\ answer.found <=> (\E i \in DOMAIN detail.versions : VersionsMatch(detail.versions[i], v))
                                         \/ (\E i \in DOMAIN files : MatchesVersion(files[i], v))
               /\ answer.found => ToSet(answer.urls) = {files[i] : i \in {j \in DOMAIN files : MatchesVersion(files[j], v)}}
               /\ answer.yanked => answer.urls # <<>> /\ \A i \in DOMAIN answer.urls : IsYanked(answer.urls[i])
================================
