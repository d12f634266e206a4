---------------- MODULE PublishForm ----------------
(* A publish request: collect_form drains the parts of the multipart body
   in the order they arrive, and prepare checks form, filename, digests,
   archive, metadata and attestations against one another
   (peryx-ecosystem-pypi/src/upload.rs, serving/upload_form.rs,
   attestation.rs).

   A value is a token: "bad" breaks the grammar of its field, "" is blank,
   "long" is over the field's size limit.  A declared digest is "right",
   "wrong" or "bad". *)
EXTENDS Archives

CONSTANTS
    BaseParts,      \* for each kind of file, the parts of an honest upload in the order a client sends them
    OddParts,       \* parts that may come in between
    Distributions,  \* the archives that are uploaded, as a sequence
    MaxOddParts,    \* most parts a request adds, omits or repeats
    OddPlaces,      \* where in the request they are added
    FileBytes,      \* largest file the index accepts
    SplitUrl,       \* for the Project-URL values with a comma, the label and the URL
    MaxAttestations \* most attestations of a request

VARIABLE publish

ListFields == {"license_files", "provides_extra", "project_urls"}
TextFields ==
    {"action", "metadata_version", "name", "version", "requires_python", "license", "license_expression",
     "home_page", "filetype", "sha256_digest", "blake2_256_digest", "md5_digest"}

NoAttestations == [sent |-> FALSE, json |-> TRUE, list |-> <<>>]

NewForm ==
    [f \in TextFields \cup ListFields \cup {"filename", "attestations", "staged", "error"} |->
        CASE f \in ListFields -> <<>>
          [] f = "attestations" -> NoAttestations
          [] f = "staged" -> FALSE
          [] f = "error" -> "ok"
          [] OTHER -> Missing]

--------------------------------
(* collect_form: a second content part is refused, a repeated text part    *)
(* replaces the first, list parts add up, unknown parts are drained.       *)

StageContent(form, part) ==
    IF form.staged THEN [form EXCEPT !.error = "duplicate content"]
    ELSE IF part.size > FileBytes THEN [form EXCEPT !.error = "max-file-size"]
    ELSE [form EXCEPT !.staged = TRUE, !.filename = part.value]

CollectPart(form, part) ==
    CASE form.error # "ok" -> form
      [] part.field = "content" -> StageContent(form, part)
      [] part.field = "attestations" -> [form EXCEPT !.attestations = part.attested]
      [] part.field \in TextFields ->
             IF part.value = "long" THEN [form EXCEPT !.error = "too long"] ELSE [form EXCEPT ![part.field] = part.value]
      [] part.field \in ListFields -> [form EXCEPT ![part.field] = Append(@, part.value)]
      [] OTHER -> form

--------------------------------
(* The checks of prepare, in its order. *)

Declared(value) == value \notin {Missing, ""}

VerifyDeclaredHash(value) == IF ~Declared(value) \/ value = "right" THEN "ok" ELSE value

(* md5_digest counts only when no stronger digest is declared. *)
DigestError(form) ==
    LET strong == Declared(form.sha256_digest) \/ Declared(form.blake2_256_digest) IN
    FirstError(<<
        <<"sha256_digest", VerifyDeclaredHash(form.sha256_digest) # "ok">>,
        <<"blake2_256_digest", VerifyDeclaredHash(form.blake2_256_digest) # "ok">>,
        <<"md5_digest", ~strong /\ VerifyDeclaredHash(form.md5_digest) # "ok">> >>)

UploadFiletype(kind) == IF kind = "wheel" THEN "bdist_wheel" ELSE "sdist"

ValidateArchive(parsed, dist) ==
    IF dist.kind # parsed.kind THEN [error |-> "not such an archive", lines |-> <<>>, missing |-> <<>>]
    ELSE IF parsed.kind = "wheel" THEN ValidateWheel(parsed, dist.wheel)
    ELSE ValidateSdist(parsed.root, parsed.kind, dist.entries)

(* The version that introduced a field. *)
Introductions ==
    << <<"classifier", 11>>, <<"maintainer", 12>>, <<"requires-python", 12>>, <<"requires-dist", 12>>,
       <<"provides-dist", 12>>, <<"obsoletes-dist", 12>>, <<"project-url", 12>>,
       <<"description-content-type", 21>>, <<"provides-extra", 21>>, <<"license-expression", 24>>,
       <<"license-file", 24>>, <<"dynamic", 22>>, <<"import-name", 25>>, <<"import-namespace", 25>> >>

TooNew(lines, declared) ==
    \E i \in DOMAIN Introductions :
        ValuesOf(lines, Introductions[i][1]) # <<>> /\ declared < Introductions[i][2]

Ungrammatical(lines, keys) == \E key \in keys : \E i \in DOMAIN ValuesOf(lines, key) : ValuesOf(lines, key)[i] = "bad"

ExtrasError(lines, declared) ==
    LET extras == ValuesOf(lines, "provides-extra") IN
    \/ \E i \in DOMAIN extras : extras[i] \notin DOMAIN NormalName
    \/ \E i \in DOMAIN extras : declared >= 23 /\ NormalName[extras[i]] # extras[i]
    \/ \E i, j \in DOMAIN extras : i < j /\ NormalName[extras[i]] = NormalName[extras[j]]

Reserved == {"name", "version", "metadata-version"}

ImportName(value) == IF value = "pkg;private" THEN "pkg" ELSE value

ImportsError(lines) ==
    LET names == ToSet(ValuesOf(lines, "import-name"))
        spaces == ToSet(ValuesOf(lines, "import-namespace"))
    IN  \/ \E v \in names \cup spaces : v \in {"bad", "pkg;odd"}
        \/ "" \in spaces
        \/ \E v \in spaces : ImportName(v) \in {ImportName(n) : n \in names}

LabelledUrl(value) == IF value \in DOMAIN SplitUrl THEN SplitUrl[value] ELSE <<"", value>>

UrlError(lines) ==
    \E value \in ToSet(ValuesOf(lines, "project-url")) :
        LabelledUrl(value)[1] \in {"", "long"} \/ LabelledUrl(value)[2] = "bad"

(* Mutant of Agrees: a field the metadata does not have is not compared. *)
AgreesIfPresent(value, lines, key) == ~Declared(value) \/ Field(lines, key) \in {Missing, value}

(* compare_metadata_field *)
Agrees(value, lines, key) == ~Declared(value) \/ Field(lines, key) = value

Occurrences(s, x) == Cardinality({i \in DOMAIN s : s[i] = x})
SameValues(s, t) == \A x \in ToSet(s) \cup ToSet(t) : Occurrences(s, x) = Occurrences(t, x)
NonBlank(s) == SelectSeq(s, LAMBDA v : v # "")

(* compare_metadata_list *)
AgreesAsList(values, lines, key) == NonBlank(values) = <<>> \/ SameValues(NonBlank(values), NonBlank(ValuesOf(lines, key)))

WithHomePage(values, page) ==
    [i \in DOMAIN values |-> LabelledUrl(values[i])] \o IF Declared(page) THEN << <<"Homepage", page>> >> ELSE <<>>

(* compare_project_urls *)
UrlsAgree(form, lines) ==
    LET sent == WithHomePage(NonBlank(form.project_urls), form.home_page)
    IN  sent = <<>> \/ SameValues(sent, WithHomePage(ValuesOf(lines, "project-url"), Field(lines, "home-page")))

IdentityError(form, lines, project, version) ==
    LET rank == Field(lines, "metadata-version")
        declared == IF rank \in DOMAIN SupportedVersions THEN SupportedVersions[rank] ELSE 0
        name == Field(lines, "name")
        v == Field(lines, "version")
    IN  FirstError(<<
            <<"metadata version", declared = 0>>,
            <<"introduced later", TooNew(lines, declared)>>,
            <<"metadata name", name \notin DOMAIN NormalName \/ NormalName[name] # project>>,
            <<"metadata version of the project", v \notin DOMAIN ParsedVersion \/ ParsedVersion[v] # version>>,
            <<"license twice", Field(lines, "license") # Missing /\ Field(lines, "license-expression") # Missing>>,
            <<"license expression", Ungrammatical(lines, {"license-expression"})>>,
            <<"extras", ExtrasError(lines, declared)>>,
            <<"classifiers and requirements",
              Ungrammatical(lines, {"classifier", "requires-dist", "provides-dist", "obsoletes-dist"})>>,
            <<"legacy urls", Ungrammatical(lines, {"home-page", "download-url"})>>,
            <<"dynamic", \E x \in ToSet(ValuesOf(lines, "dynamic")) : x \in Reserved \cup {"bad"}>>,
            <<"imports", ImportsError(lines)>>,
            <<"contacts", Ungrammatical(lines, {"author-email", "maintainer-email"})>>,
            <<"Metadata-Version", ~Agrees(form.metadata_version, lines, "metadata-version")>>,
            <<"Requires-Python", ~Agrees(form.requires_python, lines, "requires-python")>>,
            <<"License", ~Agrees(form.license, lines, "license")>>,
            <<"License-Expression", ~Agrees(form.license_expression, lines, "license-expression")>>,
            <<"license files", Ungrammatical(lines, {"license-file"})>>,
            <<"License-File", ~AgreesAsList(form.license_files, lines, "license-file")>>,
            <<"Provides-Extra", ~AgreesAsList(form.provides_extra, lines, "provides-extra")>>,
            <<"project urls", UrlError(lines)>>,
            <<"Project-URL", ~UrlsAgree(form, lines)>> >>)

(* The first subject with the file's digest must name the file or nothing. *)
BindsSubject(statement, filename) ==
    LET matching == SelectSeq(statement.subjects, LAMBDA s : s.digest = "right")
    IN  matching # <<>> /\ matching[1].name \in {Missing, filename}

ProvenanceError(attestations, filename) ==
    LET list == attestations.list IN
    FirstError(<<
        <<"malformed", ~attestations.json>>,
        <<"too many", Len(list) > MaxAttestations>>,
        <<"empty", list = <<>> >>,
        <<"unreadable", \E i \in DOMAIN list : ~list[i].readable>>,
        <<"subject", \E i \in DOMAIN list : list[i].readable /\ ~BindsSubject(list[i], filename)>> >>)

NoFilename == [name |-> Missing, version |-> Missing, kind |-> Missing, root |-> Missing]

Prepare(form, dist) ==
    LET filename == form.filename
        parsed == IF filename \in DOMAIN Filenames THEN Filenames[filename] ELSE NoFilename
        project == IF form.name \in DOMAIN NormalName THEN NormalName[form.name] ELSE Missing
        version == IF form.version \in DOMAIN ParsedVersion THEN ParsedVersion[form.version] ELSE Missing
        archive == ValidateArchive(parsed, dist)
        lines == archive.lines
        python == Field(lines, "requires-python")
        identity == IdentityError(form, lines, project, version)
    IN  [error |-> FirstError(<<
             <<form.error, form.error # "ok">>,
             <<"missing content", ~form.staged>>,
             <<"unsupported action", form.action # "file_upload">>,
             <<"name", project = Missing>>,
             <<"version", version = Missing>>,
             <<"filename", filename \notin DOMAIN Filenames>>,
             <<"filename project", parsed.name # project>>,
             <<"filename version", parsed.version # version>>,
             <<"filetype", form.filetype # UploadFiletype(parsed.kind)>>,
             <<DigestError(form), DigestError(form) # "ok">>,
             <<"content", archive.error # "ok">>,
             <<"metadata encoding", ~dist.utf8>>,
             <<"malformed metadata", ParseError(lines) # "ok">>,
             <<"requires python", form.requires_python = "bad">>,
             <<identity, identity # "ok">>,
             <<"license file missing", archive.missing # <<>> >>,
             <<"requires python", python = "bad">>,
             <<"attestations", form.attestations.sent /\ ProvenanceError(form.attestations, filename) # "ok">> >>),
         project |-> project,
         version |-> form.version,
         filename |-> filename,
         display |-> Field(lines, "name"),
         requiresPython |-> IF python # Missing THEN python
                            ELSE IF Declared(form.requires_python) THEN form.requires_python ELSE Missing,
         provenance |-> form.attestations.sent]

--------------------------------
NoResult == [error |-> "not prepared"]

PublishInit ==
    publish = [dist |-> 1, next |-> 0, odd |-> 0,
               sent |-> <<>>, form |-> NewForm, result |-> NoResult]

StartUpload(dist) ==
    /\ publish.next = 0
    /\ publish' = [publish EXCEPT !.dist = dist, !.next = 1]

Parts == BaseParts[Distributions[publish.dist].kind]

Received(part) == [publish EXCEPT !.sent = Append(@, part), !.form = CollectPart(@, part)]

SendPart ==
    /\ publish.next \in DOMAIN Parts
    /\ publish' = [Received(Parts[publish.next]) EXCEPT !.next = @ + 1]

OmitPart ==
    /\ publish.next \in DOMAIN Parts /\ publish.odd < MaxOddParts
    /\ publish' = [publish EXCEPT !.next = @ + 1, !.odd = @ + 1]

SendOddPart(part) ==
    /\ publish.next \in OddPlaces /\ publish.odd < MaxOddParts /\ publish.result = NoResult
    /\ publish' = [Received(part) EXCEPT !.odd = @ + 1]

PrepareUpload ==
    /\ publish.next = Len(Parts) + 1 /\ publish.result = NoResult
    /\ publish' = [publish EXCEPT !.result = Prepare(publish.form, Distributions[publish.dist])]

PublishNext ==
    \/ \E dist \in DOMAIN Distributions : StartUpload(dist)
    \/ SendPart \/ OmitPart \/ PrepareUpload
    \/ \E part \in OddParts : SendOddPart(part)

--------------------------------
(* What the client said about a field, read off the parts it sent. *)
LastSent(field) ==
    LET parts == SelectSeq(publish.sent, LAMBDA p : p.field = field)
    IN  IF parts = <<>> THEN Missing ELSE Last(parts).value

AllSent(field) ==
    LET parts == SelectSeq(publish.sent, LAMBDA p : p.field = field)
    IN  [i \in DOMAIN parts |-> parts[i].value]

(* An upload that prepare accepts has one identity: what the form says,     *)
(* what the filename says and what the archive's metadata says agree, no    *)
(* declared digest that counts is wrong, the page will show the archive's   *)
(* own Requires-Python, every attestation is for these bytes, and no field  *)
(* is newer than the metadata version; and an honest upload is accepted     *)
(* whatever order its parts came in.                                       *)
UploadsAgree ==
    publish.result # NoResult =>
    LET dist == Distributions[publish.dist]
        lines == dist.lines
        accepted == publish.result.error = "ok"
        fn == IF LastSent("content") \in DOMAIN Filenames THEN Filenames[LastSent("content")] ELSE NoFilename
    IN  /\ publish.odd = 0 /\ dist.honest => accepted
        /\ accepted =>
              /\ NormalName[LastSent("name")] = fn.name /\ NormalName[Field(lines, "name")] = fn.name
              /\ ParsedVersion[LastSent("version")] = fn.version /\ ParsedVersion[Field(lines, "version")] = fn.version
              /\ LastSent("md5_digest") \in {"wrong", "bad"} =>
                     \E digest \in {"sha256_digest", "blake2_256_digest"} : LastSent(digest) = "right"
              /\ {LastSent("sha256_digest"), LastSent("blake2_256_digest")} \cap {"wrong", "bad"} = {}
              /\ publish.result.requiresPython = Field(lines, "requires-python")
              /\ \A pair \in {<<"license", "license">>, <<"requires_python", "requires-python">>,
                              <<"license_expression", "license-expression">>, <<"metadata_version", "metadata-version">>} :
                     LastSent(pair[1]) \in {Missing, "", Field(lines, pair[2])}
              /\ ToSet(AllSent("license_files")) \ {""} \in {{}, ToSet(ValuesOf(lines, "license-file")) \ {""}}
              /\ ToSet(AllSent("license_files")) \ {""} \subseteq dist.carried
              /\ publish.result.provenance =>
                     \A i \in DOMAIN publish.form.attestations.list :
                         \E j \in DOMAIN publish.form.attestations.list[i].subjects :
                             publish.form.attestations.list[i].subjects[j].digest = "right"

(* An accepted upload is one distribution: its archive is safe to list and   *)
(* to read page by page (archive/, wheel.rs, sdist.rs), and its form, its    *)
(* filename and its metadata agree (upload.rs prepare).                      *)
UploadsAreSound == ArchivesAreExact /\ UploadsAgree
================================
