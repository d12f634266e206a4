---------------- MODULE PageTransform ----------------
(* The transformer that rewrites an upstream page while it arrives
   (stream/transformer.rs), and the three ways a page goes through it:
   live after a bounded preflight, buffered when `files` comes before
   `meta`, and whole when it is served from the cache
   (cache/page_stream).  The page is a sequence of symbols: punctuation,
   quotes, backslashes and words. *)
EXTENDS SimpleApi

CONSTANTS
    FilePool,        \* [text, file] of the files a page may list: the symbols of the object and what it says
    MetaPool,        \* [text, meta] of the meta objects
    Documents,       \* sequence of pages: [members, tail], a member [key, kind, value]
    Contexts,        \* sequence of what the index adds: [local, versions, overrides, denied, generated]
    Base,            \* the address the page was read from
    Route,           \* the route it is served on
    PreflightLimit,  \* JSON_META_PREFLIGHT_BYTES, in symbols
    MaxPageFiles,    \* MAX_PAGE_FILES
    MaxPageSymbols   \* MAX_PAGE_BYTES

VARIABLES
    feed,            \* which page, how far it was read, and by which path it is served
    lexer            \* the PageTransformer

pageStreamVars == <<feed, lexer>>

Quote == "\""
Backslash == "\\"
Space == " "

--------------------------------
(* Pages.  serde_json is external: what it reads in a text is what the text was written from. *)

Quoted(symbols) == <<Quote>> \o symbols \o <<Quote>>
Joined(parts, between) ==
    FlattenSeq([i \in DOMAIN parts |-> IF i = 1 THEN parts[i] ELSE between \o parts[i]])
Listed(parts) == <<"[">> \o Joined(parts, <<",", Space>>) \o <<"]">>

ValueText(member) ==
    CASE member.kind = "meta" -> MetaPool[member.value].text
      [] member.kind = "files" -> Listed([i \in DOMAIN member.value |-> FilePool[member.value[i]].text])
      [] member.kind = "versions" -> Listed([i \in DOMAIN member.value |-> Quoted(<<member.value[i]>>)])
      [] member.kind = "text" -> Quoted(member.value)
      [] OTHER -> member.value
MemberText(member) == Quoted(member.key) \o <<":", Space>> \o ValueText(member)
DocumentText(doc) == <<"{">> \o Joined([i \in DOMAIN doc.members |-> MemberText(doc.members[i])], <<",", Space>>) \o <<"}">> \o doc.tail

DocumentTexts == [d \in DOMAIN Documents |-> DocumentText(Documents[d])]

Members(doc, kind) == SelectSeq(doc.members, LAMBDA m : m.kind = kind)
NameOf(doc) == SelectSeq(doc.members, LAMBDA m : m.key = <<"name">> /\ m.kind = "text")
MetaOf(doc) == IF Members(doc, "meta") = <<>> THEN DefaultMeta ELSE MetaPool[Members(doc, "meta")[1].value].meta
FileIds(doc) == IF Members(doc, "files") = <<>> THEN <<>> ELSE Members(doc, "files")[1].value
FilesOf(doc) == [i \in DOMAIN FileIds(doc) |-> FilePool[FileIds(doc)[i]].file]
VersionsOf(doc) == IF Members(doc, "versions") = <<>> THEN <<>> ELSE Members(doc, "versions")[1].value

(* parse_detail: a name is required; a known key comes once and holds what its field takes (`null` is no meta). *)
DetailKinds == [key \in {<<"meta">>, <<"name">>, <<"versions">>, <<"files">>} |-> IF key = <<"name">> THEN "text" ELSE key[1]]
Parses(doc) ==
    /\ NameOf(doc) # <<>> /\ MetaOk(MetaOf(doc))
    /\ \A i, j \in DOMAIN doc.members : LET member == doc.members[i] IN
           member.key \in DOMAIN DetailKinds =>
               member.kind = DetailKinds[member.key] /\ (doc.members[j].key = member.key => j = i)

(* stream_detail_json: keys in any order, the last of a kind decides, files go out as they come. *)
StreamedDetail(doc) ==
    LET start == [meta |-> DefaultMeta, name |-> <<>>, versions |-> <<>>, sink |-> <<>>]
        visit(seen, m) ==
            CASE m.kind = "meta" -> [seen EXCEPT !.meta = MetaPool[m.value].meta]
              [] m.key = <<"name">> /\ m.kind = "text" -> [seen EXCEPT !.name = m.value]
              [] m.kind = "versions" -> [seen EXCEPT !.versions = m.value]
              [] m.kind = "files" -> [seen EXCEPT !.sink = @ \o [i \in DOMAIN m.value |-> Absolutize(Base, FilePool[m.value[i]].file)]]
              [] OTHER -> seen
    IN  FoldLeft(visit, start, doc.members)

--------------------------------
(* page_context *)

HiddenOverride(kind) == kind.kind = "hidden"
YankedOverride(kind) ==
    IF kind.kind = "yanked" /\ kind.reason # NoText /\ kind.reason # <<>> THEN YankedBecause(kind.reason) ELSE Yanked
Hidden(ctx) == {f \in DOMAIN ctx.overrides : HiddenOverride(ctx.overrides[f])}
YankedNames(ctx) == {f \in DOMAIN ctx.overrides : ctx.overrides[f].kind = "yanked"}
Skip(ctx) == {ctx.local[i].filename : i \in DOMAIN ctx.local} \cup Hidden(ctx)
Overridden(file, ctx) ==
    IF file.filename \in YankedNames(ctx) THEN [file EXCEPT !.yanked = YankedOverride(ctx.overrides[file.filename])] ELSE file

--------------------------------
(* PageTransformer *)

Raw(symbol) == <<"raw", symbol>>
NewTransformer(ctx, based, known, status) ==
    [mode |-> "pass", depth |-> 0, in_string |-> FALSE, escaped |-> FALSE, key |-> <<>>, capturing_key |-> FALSE,
     expect_name |-> FALSE, capturing_name |-> FALSE, name |-> <<>>, meta_seen |-> FALSE, files_before_meta |-> FALSE,
     closed |-> FALSE, trailing |-> FALSE, capture |-> <<>>, array_depth |-> 0, emitted |-> FALSE, registered |-> <<>>,
     consumed |-> 0, files_seen |-> 0, status |-> status, ctx |-> ctx, based |-> based, known |-> known, error |-> "none", out |-> <<>>]

Quarantined(l) == l.status = "quarantined"
Fail(l, error) == [l EXCEPT !.error = error]
Emit(l, item) == [l EXCEPT !.out = @ \o (IF l.emitted THEN <<Raw(","), item>> ELSE <<item>>), !.emitted = TRUE]

EmitLocalFiles(l) ==
    LET ctx == Contexts[l.ctx]
        shown == SelectSeq(ctx.local, LAMBDA f : f.filename \notin Hidden(ctx) \cup ctx.denied)
    IN  IF Quarantined(l) THEN l
        ELSE FoldLeft(LAMBDA m, f : Emit(m, <<"file", Serialized(Overridden(f, ctx))>>), l, shown)

(* What the canonical form of a page keeps of a file: its address made absolute. *)
CanonicalText(id) == <<"{", Quote, "canonical", Quote, ":", id, "}">>
CanonicalFile(id) == Serialized(Absolutize(Base, FilePool[id].file))
ParseFile(text) ==
    LET raw == {id \in DOMAIN FilePool : FilePool[id].text = text}
        canonical == {id \in DOMAIN FilePool : CanonicalText(id) = text}
    IN  CASE raw # {} -> <<FilePool[CHOOSE id \in raw : TRUE].file>>
          [] canonical # {} -> <<CanonicalFile(CHOOSE id \in canonical : TRUE)>>
          [] OTHER -> <<>>

Registration(file, metadata) ==
    [filename |-> file.filename, sha256 |-> file.hashes["sha256"], url |-> file.url, size |-> file.size,
     metadata |-> IF metadata THEN <<MetadataSibling(file.url), Metadata(file).hashes["sha256"]>> ELSE <<>>]

(* An upstream file past its checks: served at the local route if it can be addressed by content, and registered. *)
EmitRewritten(l, file) ==
    LET proven == SupportsSibling(file.filename) /\ Metadata(file).kind = "hashes" /\ "sha256" \in DOMAIN Metadata(file).hashes
        checked == IF proven THEN file ELSE ClearMetadata(file)
        sha == file.hashes["sha256"]
        filled == IF Metadata(checked).kind = "absent" /\ sha \in DOMAIN l.known
                  THEN SetMetadata(checked, Hashes([a \in {"sha256"} |-> l.known[sha]])) ELSE checked
    IN  IF ~HasSha256(file) THEN Emit(l, <<"file", Serialized(ClearMetadata(file))>>)
        ELSE Emit([l EXCEPT !.registered = Append(@, Registration(file, proven))],
                  <<"file", Serialized([filled EXCEPT !.url = LocalFileUrl(Route, file), !.gpg = "none"])>>)

EmitParsed(l, file) ==
    LET ctx == Contexts[l.ctx]
        marked == Overridden(file, ctx)
    IN  CASE Quarantined(l) \/ file.filename \in Skip(ctx) \/ file.filename \in ctx.denied -> l
          [] IsLocalFileUrl(Route, file.url) -> Emit(l, <<"file", Serialized([marked EXCEPT !.gpg = "none"])>>)
          [] OTHER -> EmitRewritten(l, IF l.based THEN Absolutize(Base, marked) ELSE marked)

EmitFile(l) ==
    LET parsed == ParseFile(l.capture)
        counted == [l EXCEPT !.files_seen = @ + 1, !.capture = <<>>]
    IN  CASE l.files_seen >= MaxPageFiles -> Fail(l, "too large")
          [] parsed = <<>> -> Fail(l, "parse")
          [] OTHER -> EmitParsed(counted, parsed[1])

ParseMeta(text) ==
    LET raw == {m \in DOMAIN MetaPool : MetaPool[m].text = text}
        canonical == {m \in DOMAIN MetaPool : CanonicalText(m) = text}
    IN  CASE raw # {} -> <<MetaPool[CHOOSE m \in raw : TRUE].meta>>
          [] canonical # {} -> <<ServedMeta(MetaPool[CHOOSE m \in canonical : TRUE].meta)>>
          [] OTHER -> <<>>

EmitMeta(l) ==
    LET parsed == ParseMeta(l.capture)
    IN  IF parsed = <<>> \/ ~MetaOk(parsed[1]) THEN Fail(l, "parse")
        ELSE [l EXCEPT !.out = Append(@, <<"meta", ServedMeta(parsed[1])>>), !.status = parsed[1].status,
                       !.meta_seen = TRUE, !.capture = <<>>, !.mode = "pass"]

(* The strings of a captured array. *)
StringsOf(text) == {text[i] : i \in {j \in DOMAIN text : j > 1 /\ text[j - 1] = Quote /\ text[j] \notin {",", "]"}}}
EmitVersions(l) ==
    [l EXCEPT !.out = Append(@, <<"versions", StringsOf(l.capture) \cup ToSet(Contexts[l.ctx].versions)>>),
              !.capture = <<>>, !.mode = "pass"]

(* Inside a string only the closing quote counts, and an escaped one does not close. *)
StringStep(l, s) == [l EXCEPT !.escaped = ~l.escaped /\ s = Backslash, !.in_string = l.escaped \/ s # Quote]

PassString(l, s) ==
    LET after == StringStep(l, s)
        keyed == [after EXCEPT !.out = Append(@, Raw(s)),
                               !.key = IF l.capturing_key /\ after.in_string THEN Append(@, s) ELSE @,
                               !.name = IF l.capturing_name /\ after.in_string THEN Append(@, s) ELSE @]
    IN  IF after.in_string THEN keyed ELSE [keyed EXCEPT !.capturing_key = FALSE, !.capturing_name = FALSE]

OpenString(l) ==
    LET at_name == l.depth = 1 /\ l.expect_name
        at_key == l.depth = 1 /\ ~l.expect_name
    IN  [l EXCEPT !.in_string = TRUE, !.expect_name = FALSE, !.out = Append(@, Raw(Quote)),
                  !.capturing_name = at_name, !.name = IF at_name THEN <<>> ELSE @,
                  !.capturing_key = at_key, !.key = IF at_key THEN <<>> ELSE @]

Open(l, s) ==
    LET deeper == [l EXCEPT !.expect_name = FALSE, !.depth = @ + 1]
        entered(mode) == [deeper EXCEPT !.mode = mode, !.array_depth = deeper.depth]
        top == deeper.depth = 2
    IN  CASE top /\ s = "{" /\ l.key = <<"meta">> -> [entered("meta") EXCEPT !.capture = <<s>>]
          [] top /\ s = "[" /\ l.key = <<"files">> ->
                 EmitLocalFiles([entered("files") EXCEPT !.out = Append(@, Raw(s)), !.emitted = FALSE])
          [] top /\ s = "[" /\ l.key = <<"versions">> -> [entered("versions") EXCEPT !.capture = <<s>>]
          [] OTHER -> [deeper EXCEPT !.out = Append(@, Raw(s))]

Less(depth) == IF depth = 0 THEN 0 ELSE depth - 1

StepPassthrough(l, s) ==
    LET seen == [l EXCEPT !.trailing = @ \/ (l.closed /\ s # Space)]
    IN  CASE l.in_string -> PassString(l, s)
          [] s = Quote -> OpenString(seen)
          [] s \in {"{", "["} -> Open(seen, s)
          [] s \in {"}", "]"} -> [seen EXCEPT !.depth = Less(@), !.closed = @ \/ Less(l.depth) = 0, !.out = Append(@, Raw(s))]
          [] s = ":" /\ l.depth = 1 ->
                 [seen EXCEPT !.expect_name = l.key = <<"name">>, !.out = Append(@, Raw(s)),
                              !.files_before_meta = @ \/ (~l.meta_seen /\ l.key = <<"files">>)]
          [] OTHER -> [seen EXCEPT !.expect_name = @ /\ s = Space, !.out = Append(@, Raw(s))]

(* The three capturing modes differ in what closes them. *)
StepCapture(l, s) ==
    LET kept == [l EXCEPT !.capture = Append(@, s)]
        closed == [kept EXCEPT !.depth = Less(@)]
        ends(depth) == Less(l.depth) = depth
    IN  CASE l.in_string -> StringStep(kept, s)
          [] s = Quote -> [kept EXCEPT !.in_string = TRUE]
          [] s \in {"{", "["} -> [kept EXCEPT !.depth = @ + 1]
          [] l.mode = "meta" /\ s = "}" -> IF ends(l.array_depth - 1) THEN EmitMeta(closed) ELSE closed
          [] l.mode = "files" /\ s = "}" -> IF ends(l.array_depth) THEN EmitFile(closed) ELSE closed
          [] l.mode = "files" /\ s = "]" ->
                 IF ends(l.array_depth - 1) THEN [l EXCEPT !.depth = Less(@), !.mode = "pass", !.out = Append(@, Raw(s))] ELSE closed
          [] l.mode = "versions" /\ s = "]" -> IF ends(l.array_depth - 1) THEN EmitVersions(closed) ELSE closed
          [] s \in {"}", "]"} -> closed
          [] l.mode = "files" /\ s = "," /\ l.depth = l.array_depth -> l
          [] l.mode = "files" /\ l.capture = <<>> /\ s = Space -> l
          [] OTHER -> kept

Push(l, s) ==
    LET counted == [l EXCEPT !.consumed = @ + 1]
    IN  CASE l.error # "none" -> l
          [] l.consumed >= MaxPageSymbols -> Fail(l, "too large")
          [] l.mode = "pass" -> StepPassthrough(counted, s)
          [] OTHER -> StepCapture(counted, s)

(* A plausible slip: a body that ends inside the document, between two values, passes for a whole one. *)
FinishErrorInValues(l) ==
    CASE l.error # "none" -> l.error
      [] l.in_string \/ l.mode # "pass" -> "truncated"
      [] l.trailing -> "trailing"
      [] OTHER -> "none"

FinishError(l) ==
    CASE l.error # "none" -> l.error
      [] l.depth # 0 \/ l.in_string \/ l.mode # "pass" -> "truncated"
      [] l.trailing -> "trailing"
      [] OTHER -> "none"

--------------------------------
(* The record that is kept: canonical_json, if the page parses. *)

CanonicalOrder(doc) ==
    LET id == IF Members(doc, "meta") = <<>> THEN "default" ELSE Members(doc, "meta")[1].value
    IN  <<"{">> \o Joined(<<Quoted(<<"meta">>) \o <<":">> \o CanonicalText(id),
                            Quoted(<<"name">>) \o <<":">> \o Quoted(NameOf(doc)[1].value),
                            Quoted(<<"versions">>) \o <<":">> \o ValueText([kind |-> "versions", value |-> VersionsOf(doc)]),
                            Quoted(<<"files">>) \o <<":">> \o Listed([i \in DOMAIN FileIds(doc) |-> CanonicalText(FileIds(doc)[i])])>>, <<",">>)
        \o <<"}">>

CanonicalTexts == [d \in DOMAIN Documents |-> IF Parses(Documents[d]) THEN CanonicalOrder(Documents[d]) ELSE <<>>]

Whole == feed.at = Len(DocumentTexts[feed.doc])
Document == Documents[feed.doc]

(* A page cut short does not parse, nor one that goes on after its document. *)
Clean(at) ==
    LET end == Len(DocumentTexts[feed.doc]) - Len(Document.tail)
    IN  at >= end /\ \A i \in 1 .. at - end : Document.tail[i] = Space
Parsed == Clean(feed.at) /\ Parses(Document)

Ends(phase) == feed' = [feed EXCEPT !.phase = phase]

(* preflight_json_stream: one symbol at a time until the status is known, or cannot be in time. *)
Preflight ==
    /\ feed.phase = "preflight" /\ ~Whole
    /\ \E next \in {Push(lexer, DocumentTexts[feed.doc][feed.at + 1])} :
       LET done == next.meta_seen \/ next.files_before_meta \/ feed.at + 1 >= PreflightLimit
       IN  /\ lexer' = next
           /\ feed' = [feed EXCEPT !.at = @ + 1, !.informed = next.meta_seen,
                                   !.phase = CASE next.error # "none" -> "failed"
                                               [] done /\ next.files_before_meta -> "buffer"
                                               [] done -> "live"
                                               [] OTHER -> "preflight"]

(* The body ends here, complete or not. *)
PreflightEnd ==
    /\ feed.phase = "preflight"
    /\ Ends(IF FinishError(lexer) = "none" THEN "kept" ELSE "failed") /\ UNCHANGED lexer

(* buffer_whole_page: the rest is read, the status seeded, and the page goes through a new transformer. *)
Seeded(based, known) == NewTransformer(feed.ctx, based, known, MetaOf(Document).status)

BufferWholePage ==
    /\ feed.phase = "buffer"
    /\ LET end == Len(DocumentTexts[feed.doc])
       IN  IF Clean(end) /\ Parses(Document)
           THEN lexer' = Seeded(TRUE, NoHashes) /\ feed' = [feed EXCEPT !.at = end, !.pass = 0, !.phase = "whole", !.informed = TRUE]
           ELSE Ends("failed") /\ UNCHANGED lexer

(* One pass over a page that is all there, symbol by symbol. *)
PassOver(text, phase, end) ==
    /\ feed.phase = phase
    /\ IF feed.pass < Len(text) /\ lexer.error = "none"
       THEN lexer' = Push(lexer, text[feed.pass + 1]) /\ feed' = [feed EXCEPT !.pass = @ + 1]
       ELSE Ends(IF FinishError(lexer) = "none" THEN end ELSE "failed") /\ UNCHANGED lexer

PassWhole == PassOver(DocumentTexts[feed.doc], "whole", "kept")

(* Cut short, it does not parse. *)
BufferEndsEarly == feed.phase = "buffer" /\ ~Whole /\ Ends("failed") /\ UNCHANGED lexer

(* live_stream *)
Live ==
    /\ feed.phase = "live" /\ ~Whole
    /\ \E next \in {Push(lexer, DocumentTexts[feed.doc][feed.at + 1])} :
         lexer' = next /\ feed' = [feed EXCEPT !.at = @ + 1, !.phase = IF next.error # "none" THEN "failed" ELSE "live"]

LiveEnd ==
    /\ feed.phase = "live"
    /\ Ends(IF FinishError(lexer) = "none" THEN "kept" ELSE "failed") /\ UNCHANGED lexer

(* The connection breaks. *)
BodyError == feed.phase \in {"preflight", "buffer", "live"} /\ Ends("failed") /\ UNCHANGED lexer

(* transform_whole, for the next request: the record, its status seeded, and the metadata generated since. *)
ServeWarm ==
    /\ feed.phase = "kept"
    /\ IF ~Parsed THEN Ends("failed") /\ UNCHANGED lexer
       ELSE LET files == [i \in DOMAIN FileIds(Document) |-> CanonicalFile(FileIds(Document)[i])]
                known == KnownMetadata(files, Contexts[feed.ctx].generated)
            IN  lexer' = Seeded(FALSE, known) /\ feed' = [feed EXCEPT !.pass = 0, !.phase = "rereading"]

PassWarm == PassOver(CanonicalTexts[feed.doc], "rereading", "warm")

StreamInit ==
    /\ feed \in [doc : DOMAIN Documents, ctx : DOMAIN Contexts, at : {0}, pass : {0}, phase : {"preflight"}, informed : {FALSE}]
    /\ lexer = NewTransformer(feed.ctx, TRUE, NoHashes, "none")

StreamNext ==
    Preflight \/ PreflightEnd \/ BufferWholePage \/ PassWhole \/ BufferEndsEarly \/ Live \/ LiveEnd \/ BodyError
    \/ ServeWarm \/ PassWarm

--------------------------------
(* Properties. *)

FilesIn(out) == LET files == SelectSeq(out, LAMBDA x : x[1] = "file") IN [i \in DOMAIN files |-> files[i][2]]
MetasIn(out) == LET metas == SelectSeq(out, LAMBDA x : x[1] = "meta") IN [i \in DOMAIN metas |-> metas[i][2]]
VersionsIn(out) == LET lists == SelectSeq(out, LAMBDA x : x[1] = "versions") IN [i \in DOMAIN lists |-> lists[i][2]]

(* virtual_detail over one hosted and one cached layer, the path that buffers: hosted files first, one of a name,
   overrides, the policy, and nothing of a project in quarantine. *)
BufferedFiles(doc, ctx, known) ==
    LET upstream == [i \in DOMAIN FilesOf(doc) |-> PresentFile(Absolutize(Base, FilesOf(doc)[i]), Route, known)]
        merged == ctx.local \o SelectSeq(upstream, LAMBDA f : \A i \in DOMAIN ctx.local : ctx.local[i].filename # f.filename)
        shown == SelectSeq(merged, LAMBDA f : f.filename \notin Hidden(ctx) /\ f.filename \notin ctx.denied)
    IN  IF OffersDownloads(MetaOf(doc)) /\ Len(FileIds(doc)) <= MaxPageFiles
        THEN [i \in DOMAIN shown |-> Serialized(Overridden(shown[i], ctx))] ELSE <<>>

(* The stream keeps a claim about metadata only where the file can have a sibling. *)
Comparable(files) == [i \in DOMAIN files |-> IF SupportsSibling(files[i].filename) THEN files[i] ELSE ClearMetadata(files[i])]

ListsFiles(doc) == Len(Members(doc, "files")) = 1
Registered == {[sha256 |-> r.sha256, url |-> r.url] : r \in ToSet(lexer.registered)}
Addressed(doc, ctx) ==
    {f \in ToSet(FilesOf(doc)) : HasSha256(f) /\ ~IsLocalFileUrl(Route, f.url) /\ f.filename \notin Skip(ctx) \cup ctx.denied}

(* A page that went through, in whatever order its keys came and whatever its strings and unknown members hold, was
   served as the buffered path serves it: the same files in the same order, meta and versions rewritten once, the
   name taken from the top level; every file served at the local route was registered with its address; and a page
   that was cut short or carries more than a document was never kept, unless nothing of it arrived (transformer.rs,
   live.rs, resolve.rs). *)
StreamedIsBuffered ==
    LET doc == Document
        ctx == Contexts[feed.ctx]
    IN  feed.phase \in {"kept", "warm"} =>
            /\ Clean(feed.at) \/ feed.at = 0
            /\ FinishError(lexer) = "none"
            /\ Parsed /\ (feed.informed \/ OffersDownloads(MetaOf(doc))) =>
                   LET known == IF feed.phase = "warm" THEN KnownMetadata(FilesOf(doc), ctx.generated) ELSE NoHashes
                   IN  /\ ListsFiles(doc) \/ feed.phase = "warm" => Comparable(FilesIn(lexer.out)) = Comparable(BufferedFiles(doc, ctx, known))
                       /\ ~ListsFiles(doc) /\ feed.phase = "kept" => FilesIn(lexer.out) = <<>>
                       /\ feed.phase = "kept" => Len(MetasIn(lexer.out)) = Len(Members(doc, "meta"))
                       /\ \A i \in DOMAIN MetasIn(lexer.out) : MetasIn(lexer.out)[i] = ServedMeta(MetaOf(doc))
                       /\ \A i \in DOMAIN VersionsIn(lexer.out) : VersionsIn(lexer.out)[i] = ToSet(VersionsOf(doc)) \cup ToSet(ctx.versions)
                       /\ lexer.name = NameOf(doc)[1].value
                       /\ feed.phase = "kept" => Registered = IF ~OffersDownloads(MetaOf(doc)) THEN {}
                                           ELSE {[sha256 |-> f.hashes["sha256"], url |-> Absolutize(Base, f).url] : f \in Addressed(doc, ctx)}

(* Whatever a client has of a page, a project in quarantine shows no file of it, if the transformer had the status
   when it went live (live.rs:57). *)
QuarantineHolds ==
    feed.informed /\ feed.phase # "preflight" /\ ~OffersDownloads(MetaOf(Document)) => FilesIn(lexer.out) = <<>>

(* Not met by the code: a `meta` that comes later than PreflightLimit, with `files` in between, is read after the
   files went out. *)
QuarantineAlwaysHolds ==
    ~OffersDownloads(MetaOf(Document)) /\ feed.phase \in {"live", "kept", "warm"} => FilesIn(lexer.out) = <<>>

(* The streaming parser of large pages reads what the other one does. *)
ParsersAgree ==
    feed.phase = "kept" /\ Parsed =>
        \A read \in {StreamedDetail(Document)} :
            /\ read.meta = MetaOf(Document) /\ read.name = NameOf(Document)[1].value /\ read.versions = VersionsOf(Document)
            /\ read.sink = [i \in DOMAIN FilesOf(Document) |-> Absolutize(Base, FilesOf(Document)[i])]

(* The other forms a page is served in carry the same files. *)
FormsAgree ==
    feed.phase = "warm" /\ FinishError(lexer) = "none" =>
        \A files \in {FilesIn(lexer.out)} :
        LET detail == [files |-> files, versions |-> SetToSeq(UNION ToSet(VersionsIn(lexer.out)))]
            name == NameOf(Document)[1].value
        IN  /\ \A i \in DOMAIN files : SurvivesHtml(files[i], Base)
            /\ ReadHead(RenderHead(ServedMeta(MetaOf(Document)))) = ServedMeta(MetaOf(Document))
            /\ EntryName(RenderEntry(name, "p")) = name
            /\ LegacyAgrees(detail, DOMAIN VersionRank)

(* A streamed page is the buffered page, quarantine holds on every path, and the forms agree. *)
PagesAreExact == StreamedIsBuffered /\ QuarantineHolds /\ ParsersAgree /\ FormsAgree
================================
