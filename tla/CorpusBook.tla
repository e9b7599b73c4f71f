----------------------------- MODULE CorpusBook -----------------------------
(***************************************************************************)
(* A book from the source archive to the reader's screen: zion-corpus      *)
(* reads the entries of a ZIP, parses each book's USFM marker by marker    *)
(* and packages the documents; one of them, or another document under the  *)
(* same media type, is sealed in a capsule; the bridge of zion-android     *)
(* validates what the capsule holds, and BookModel.kt lays it out in rows. *)
(*                                                                         *)
(* The text of a book is read as its environment writes it, one marker at  *)
(* a time. The text behind a marker is its position in the book, with what *)
(* the checks tell apart: "cr" holds a bare carriage return, "none" has no *)
(* space after the number, "control" holds a control character, "wrong" is *)
(* the identity of another book. Number 0 is also one that does not parse. *)
(***************************************************************************)
EXTENDS Integers, Sequences, FiniteSets, SequencesExt

CONSTANTS
    Books,             \* books.json: the canonical books, in their order
    Tokens,            \* the body markers a text may hold
    Headers,           \* the header sequences a text may begin with
    Usual,             \* the one most texts begin with
    Entries,           \* the entries an archive may hold
    MAX_ZIP_ENTRIES, MAX_ENTRY_BYTES, MAX_AGGREGATE_BYTES, MAX_MARKERS_PER_BOOK,
    MAX_CHAPTERS, MAX_JNI_PNG_BYTES, MAX_JNI_PASSPHRASE_BYTES,
    MaxOdd             \* bound on odd texts, edits and openings that fail

HeaderNames == {"id", "ide", "h", "toc1", "toc2", "toc3", "mt", "mt1"}
Openers == {"add", "f", "rq"}
Closer == [kind \in Openers |-> CASE kind = "add" -> "add*" [] kind = "f" -> "f*" [] kind = "rq" -> "rq*"]
FootnoteParts == {"fr", "fq", "ft"}
BodyNames == Openers \union {Closer[kind] : kind \in Openers} \union FootnoteParts \union {"p", "v", "d"}
NoNumber == -1

\* canonical.rs validates the embedded books.json before anything uses it; no
\* book there has more chapters than the bridge accepts. Numbers are u16s.
ASSUME ConstantsAssumption ==
    /\ \A j, k \in DOMAIN Books :
           j # k => Books[j].id # Books[k].id /\ Books[j].file # Books[k].file
    /\ Books \in Seq([id : STRING, file : STRING, chapters : 1 .. MAX_CHAPTERS,
                      verses : Nat \ {0}, size : Nat \ {0}])
    /\ Tokens \subseteq [name : STRING, number : Nat, text : STRING]
    /\ Headers \subseteq Seq([name : STRING, number : Nat, text : STRING])
    /\ {MAX_ZIP_ENTRIES, MAX_ENTRY_BYTES, MAX_AGGREGATE_BYTES, MAX_MARKERS_PER_BOOK,
        MAX_CHAPTERS, MAX_JNI_PNG_BYTES, MAX_JNI_PASSPHRASE_BYTES, MaxOdd} \subseteq Nat
    /\ Usual \in Headers

VARIABLES
    phase,       \* how far the import, the seal and the opening have come
    error,       \* the error that ended it, in a tuple
    read,        \* entries read so far
    aggregate,   \* their declared bytes together
    decoded,     \* per file name: the bytes read under it, named for their book
    text,        \* history: the markers of the current book so far
    parse,       \* what the parser has made of them
    artifacts,   \* the books parsed so far
    capsule,     \* what is sealed: a document, its media type, its book
    shown,       \* what the app made of the capsule
    faults       \* 1 after an edit or a failed opening, 2 after both

archiveVars == <<read, aggregate, decoded>>
bookVars == <<text, parse, artifacts>>
readerVars == <<capsule, shown, faults>>
vars == <<phase, error, archiveVars, bookVars, readerVars>>

Fail(code) == /\ phase' = "failed"
              /\ error' = code
Continue(p) == /\ phase' = p
               /\ UNCHANGED error

-----------------------------------------------------------------------------
(* Mutants.                                                                *)

\* A chapter opened with an inline marker still open.
OpensChapterAnywhere(t) == t.number = Len(parse.chapters) + 1

\* A verse number may repeat.
AscendsWeakly(number, last) == number # 0 /\ number >= last

-----------------------------------------------------------------------------
(* The archive (archive.rs).                                               *)

OpenArchive(len, plain) ==
    /\ phase = "archive"
    /\ IF len > MAX_ZIP_ENTRIES THEN Fail(<<"TooManyEntries">>)
       ELSE IF len # Len(Books) THEN Fail(<<"CorpusInvariant">>)
       ELSE IF ~plain THEN Fail(<<"InvalidEntryName">>)
       ELSE Continue("entries")
    /\ UNCHANGED <<archiveVars, bookVars, readerVars>>

Files == {Books[k].file : k \in DOMAIN Books}
BookOf(file) == CHOOSE b \in {Books[k] : k \in DOMAIN Books} : b.file = file

EntryError(e) ==
    IF ~e.enclosed THEN <<"InvalidEntryName">>
    ELSE IF e.name \notin Files THEN <<"UnexpectedEntry">>
    ELSE IF ~e.deflated THEN <<"UnsupportedEntry">>
    ELSE IF e.declared > MAX_ENTRY_BYTES THEN <<"EntryTooLarge">>
    ELSE IF aggregate + e.declared > MAX_AGGREGATE_BYTES THEN <<"AggregateTooLarge">>
    ELSE LET canonical == BookOf(e.name) IN
         IF e.len # e.declared \/ e.len # canonical.size THEN <<"EntrySizeMismatch">>
         ELSE IF e.bytes # canonical.file THEN <<"RawHashMismatch">>
         ELSE IF e.name \in DOMAIN decoded THEN <<"DuplicateEntry">>
         ELSE <<>>

ReadEntry(e) ==
    /\ phase = "entries"
    /\ read < Len(Books)
    /\ LET code == EntryError(e) IN
       IF code # <<>> THEN Fail(code) /\ UNCHANGED archiveVars
       ELSE /\ read' = read + 1
            /\ aggregate' = aggregate + e.declared
            /\ decoded' = [name \in DOMAIN decoded \union {e.name} |->
                               IF name = e.name THEN e.bytes ELSE decoded[name]]
            /\ UNCHANGED <<phase, error>>
    /\ UNCHANGED <<bookVars, readerVars>>

FinishEntries ==
    /\ phase = "entries"
    /\ read = Len(Books)
    /\ IF Files \subseteq DOMAIN decoded THEN Continue("book") ELSE Fail(<<"MissingEntry">>)
    /\ UNCHANGED <<archiveVars, bookVars, readerVars>>

-----------------------------------------------------------------------------
(* The parser (usfm.rs).                                                   *)

Current == Books[Len(artifacts) + 1]
Fresh == [bom |-> FALSE, headers |-> <<>>, chapters |-> <<>>, open |-> {}, markers |-> 0, verses |-> 0]

\* A text begins with a byte order mark or at once with a marker, or is refused.
BeginBook(front) ==
    /\ phase = "book"
    /\ Len(artifacts) < Len(Books)
    /\ text' = <<>>
    /\ parse' = [Fresh EXCEPT !.bom = front = "bom"]
    /\ CASE front = "long line" -> Fail(<<"LineTooLong">>)
         [] front = "not UTF-8" -> Fail(<<"InvalidUtf8">>)
         [] front \in {"no marker", "text first"} -> Fail(<<"MalformedUsfm">>)
         [] front \in {"bom", "marker"} -> Continue("text")
    /\ UNCHANGED <<archiveVars, artifacts, readerVars>>

CanonicalHeaders ==
    {<<"id", "ide", "h", "toc1", "toc2", "toc3", title>> : title \in {"mt", "mt1"}}
Names(records) == [i \in DOMAIN records |-> records[i].marker]

OpensChapter(t) ==
    /\ parse.open = {}
    /\ Names(parse.headers) \in CanonicalHeaders
    /\ t.number = Len(parse.chapters) + 1

\* update_inline_state: what may follow the inline markers that are open.
Nests(name, open) ==
    /\ name \in Openers => name \notin open
    /\ \A kind \in Openers : name = Closer[kind] => kind \in open
    /\ name \in FootnoteParts => "f" \in open
StillOpen(name, open) ==
    (open \union ({name} \intersect Openers)) \ {kind \in Openers : name = Closer[kind]}

MarkerError(t) ==
    IF parse.markers = MAX_MARKERS_PER_BOOK THEN <<"TooManyMarkers">>
    ELSE IF t.text = "cr" THEN <<"MalformedUsfm">>
    ELSE IF t.name = "c" THEN IF OpensChapter(t) THEN <<>> ELSE <<"MalformedUsfm">>
    ELSE IF t.name \notin HeaderNames \union BodyNames THEN <<"UnsupportedMarker">>
    ELSE IF (parse.chapters = <<>>) # (t.name \in HeaderNames) THEN <<"MalformedUsfm">>
    ELSE IF ~Nests(t.name, parse.open) THEN <<"MalformedUsfm">>
    ELSE IF t.name = "v" /\ (t.text = "none" \/ t.number = 0) THEN <<"MalformedUsfm">>
    ELSE <<>>

Record(t) == [marker |-> t.name, number |-> IF t.name = "v" THEN t.number ELSE NoNumber,
              at |-> parse.markers + 1, text |-> t.text]

AddMarker(chapters, record) == [chapters EXCEPT ![Len(chapters)].markers = Append(@, record)]

Parsed(t) ==
    [parse EXCEPT
        !.markers = @ + 1,
        !.verses = IF t.name = "v" THEN @ + 1 ELSE @,
        !.open = StillOpen(t.name, @),
        !.headers = IF t.name \in HeaderNames THEN Append(@, Record(t)) ELSE @,
        !.chapters =
            IF t.name = "c" THEN Append(@, [number |-> t.number, markers |-> <<>>])
            ELSE IF t.name \in HeaderNames THEN @
            ELSE AddMarker(@, Record(t))]

\* The bound on texts: c and v as often as the book has them, and MaxOdd other
\* body markers, unusual headers and missing marks in all texts together.
Odd(t, bom) ==
    LET extra == SelectSeq(t, LAMBDA u : u.name \notin HeaderNames \union {"c", "v"}) IN
    Len(extra) + (IF bom THEN 0 ELSE 1) + (IF IsPrefix(t, Usual) \/ IsPrefix(Usual, t) THEN 0 ELSE 1)
Oddities == FoldLeft(LAMBDA n, a : n + Odd(a.text, a.document.bom), faults, artifacts)
MayFollow(t) ==
    LET now == Append(text, t) IN
    /\ IF t.name \in HeaderNames /\ parse.chapters = <<>>
       THEN \E h \in Headers : IsPrefix(now, h)
       ELSE \E h \in Headers : IsPrefix(h, now)
    /\ Len(SelectSeq(now, LAMBDA u : u.name \in {"c", "v"})) <= Current.chapters + Current.verses
    /\ Oddities + Odd(now, parse.bom) <= MaxOdd

ReadMarker(t) ==
    /\ phase = "text"
    /\ MayFollow(t)
    /\ text' = Append(text, t)
    /\ LET code == MarkerError(t) IN
       IF code # <<>> THEN Fail(code) /\ UNCHANGED parse
       ELSE parse' = Parsed(t) /\ UNCHANGED <<phase, error>>
    /\ UNCHANGED <<archiveVars, artifacts, readerVars>>

CompleteBook ==
    /\ parse.open = {}
    /\ Names(parse.headers) \in CanonicalHeaders
    /\ parse.headers[1].text # "wrong"
    /\ parse.headers[5].text # "wrong"
    /\ Len(parse.chapters) = Current.chapters
    /\ parse.verses = Current.verses

Document == [json |-> TRUE, metadata |-> TRUE, bom |-> parse.bom, headers |-> parse.headers,
             chapters |-> parse.chapters]

\* The end of parse, and build_artifact: fits is what zstd made of the payload.
EndBook(fits) ==
    /\ phase = "text"
    /\ IF ~CompleteBook THEN Fail(<<"MalformedUsfm", "end">>) /\ UNCHANGED artifacts
       ELSE IF ~fits THEN Fail(<<"PayloadCapacityExceeded">>) /\ UNCHANGED artifacts
       ELSE /\ artifacts' = Append(artifacts, [raw |-> decoded[Current.file], text |-> text,
                                               document |-> Document])
            /\ Continue("book")
    /\ UNCHANGED <<archiveVars, text, parse, readerVars>>

\* build_package: the counts are those of books.json, the zstd sizes need not be.
Package(asPinned) ==
    /\ phase = "book"
    /\ Len(artifacts) = Len(Books)
    /\ IF asPinned THEN Continue("package") ELSE Fail(<<"CorpusInvariant">>)
    /\ UNCHANGED <<archiveVars, bookVars, readerVars>>

-----------------------------------------------------------------------------
(* A capsule: a book of the package, or a document edited before sealing.  *)

EditedMarkers(m) ==
    {<<>>} \union {RemoveAt(m, i) : i \in DOMAIN m}
    \union {[m EXCEPT ![i] = m[i + 1], ![i + 1] = m[i]] : i \in 1 .. Len(m) - 1}
    \union {[m EXCEPT ![i].number = n] : i \in DOMAIN m, n \in {NoNumber, 0, 1}}
    \union {[m EXCEPT ![i].marker = name] : i \in DOMAIN m, name \in {"id", "f", "f*", "ft"}}
    \union {m \o [i \in 1 .. MAX_MARKERS_PER_BOOK |->
                      [marker |-> "p", number |-> NoNumber, at |-> 0, text |-> "text"]]}

EditedDocuments(d) ==
    {[d EXCEPT !.json = FALSE], [d EXCEPT !.metadata = FALSE], [d EXCEPT !.bom = FALSE],
     [d EXCEPT !.chapters = <<>>], [d EXCEPT !.headers = Tail(@)],
     [d EXCEPT !.headers[1].number = 1], [d EXCEPT !.chapters[1].number = 2],
     [d EXCEPT !.chapters = Tail(@)],
     [d EXCEPT !.chapters = [i \in 1 .. MAX_CHAPTERS + 1 |-> [d.chapters[1] EXCEPT !.number = i]]]}
    \union {[d EXCEPT !.chapters[Len(d.chapters)].markers = m] :
                m \in EditedMarkers(Last(d.chapters).markers)}

Seal(k) ==
    /\ phase = "package"
    /\ capsule' = <<[book |-> k, media |-> TRUE, edited |-> FALSE, document |-> artifacts[k].document]>>
    /\ Continue("sealed")
    /\ UNCHANGED <<archiveVars, bookVars, shown, faults>>

SealOther(k) ==
    /\ phase = "package"
    /\ Oddities < MaxOdd
    /\ faults' = faults + 1
    /\ \/ capsule' = <<[book |-> k, media |-> FALSE, edited |-> TRUE, document |-> artifacts[k].document]>>
       \/ \E d \in EditedDocuments(artifacts[k].document) :
              capsule' = <<[book |-> k, media |-> TRUE, edited |-> TRUE, document |-> d]>>
    /\ Continue("sealed")
    /\ UNCHANGED <<archiveVars, bookVars, shown>>

-----------------------------------------------------------------------------
(* The bridge (zion-android).                                              *)

Controlled(record) == record.text = "control"

ValidHeaders(d) ==
    /\ Names(d.headers) \in CanonicalHeaders
    /\ \A i \in DOMAIN d.headers : d.headers[i].number = NoNumber /\ ~Controlled(d.headers[i])

Ascends(number, last) == number > last

\* validate_body_markers: one pass with the open inline markers and last verse.
BodyStep(s, r) ==
    [valid |-> /\ s.valid
               /\ ~Controlled(r)
               /\ r.marker \in BodyNames
               /\ r.marker = "v" => r.number # NoNumber /\ Ascends(r.number, s.last)
               /\ Nests(r.marker, s.open)
               /\ r.marker # "v" => r.number = NoNumber,
     open |-> StillOpen(r.marker, s.open),
     last |-> IF r.marker = "v" THEN r.number ELSE s.last]

ValidBody(markers) ==
    LET after[n \in 0 .. Len(markers)] ==
            IF n = 0 THEN [valid |-> TRUE, open |-> {}, last |-> 0]
            ELSE BodyStep(after[n - 1], markers[n])
        end == after[Len(markers)] IN
    end.valid /\ end.open = {} /\ end.last # 0

MarkersUpTo(d, c) ==
    LET total[k \in 0 .. Len(d.chapters)] ==
            IF k = 0 THEN Len(d.headers) ELSE total[k - 1] + Len(d.chapters[k].markers) IN
    total[c]

validate_document(d) ==
    /\ d.json /\ d.metadata /\ d.bom
    /\ Len(d.chapters) \in 1 .. MAX_CHAPTERS
    /\ ValidHeaders(d)
    /\ \A c \in DOMAIN d.chapters :
           /\ d.chapters[c].number = c
           /\ d.chapters[c].markers # <<>>
           /\ MarkersUpTo(d, c) <= MAX_MARKERS_PER_BOOK
           /\ ValidBody(d.chapters[c].markers)

\* BookModel.kt: a row per chapter and marker; a paragraph's own text has no row.
Row(kind, name, number, at) == [row |-> kind, name |-> name, number |-> number, at |-> at]
RowOf(r) ==
    CASE r.marker = "p" -> Row("Paragraph", "p", NoNumber, 0)
      [] r.marker = "v" -> Row("Verse", "v", r.number, r.at)
      [] OTHER -> Row("Marker", r.marker, NoNumber, r.at)
ChapterRows(chapter) ==
    <<Row("ChapterHeading", "c", chapter.number, 0)>>
        \o [i \in DOMAIN chapter.markers |-> RowOf(chapter.markers[i])]
BookRows(d) ==
    LET rows[c \in 0 .. Len(d.chapters)] ==
            IF c = 0 THEN <<>> ELSE rows[c - 1] \o ChapterRows(d.chapters[c]) IN
    rows[Len(d.chapters)]

Openings == {"ok", "InvalidPng", "InvalidPassphraseLength", "KdfFailed", "RecoveryFailed"}
map_open_error(opened) ==
    CASE opened = "InvalidPassphraseLength" -> "ZION_INVALID_PASSPHRASE"
      [] opened \in {"KdfFailed", "RecoveryFailed"} -> "ZION_RECOVERY_FAILED"
      [] opened = "InvalidPng" -> "ZION_INVALID_IMAGE"

decode_book_png(opened) ==
    IF opened # "ok" THEN map_open_error(opened)
    ELSE IF ~capsule[1].media \/ ~validate_document(capsule[1].document) THEN "ZION_RECOVERY_FAILED"
    ELSE "book"

\* decode_book_png_jni: the code of the exception it throws, or the book.
DecodeCode(call) ==
    IF call.png > MAX_JNI_PNG_BYTES THEN "ZION_INVALID_IMAGE"
    ELSE IF call.passphrase \notin 1 .. MAX_JNI_PASSPHRASE_BYTES THEN "ZION_INVALID_PASSPHRASE"
    ELSE IF ~call.jni THEN "ZION_NATIVE_FAILURE"
    ELSE decode_book_png(call.opened)

\* A call with at most one thing wrong.
Whole == [png |-> MAX_JNI_PNG_BYTES, passphrase |-> 1, jni |-> TRUE, opened |-> "ok"]
Calls == {Whole, [Whole EXCEPT !.png = @ + 1], [Whole EXCEPT !.jni = FALSE]}
         \union {[Whole EXCEPT !.passphrase = n] :
                     n \in {0, MAX_JNI_PASSPHRASE_BYTES, MAX_JNI_PASSPHRASE_BYTES + 1}}
         \union {[Whole EXCEPT !.opened = o] : o \in Openings}
Fine(call) == /\ call.png <= MAX_JNI_PNG_BYTES
              /\ call.passphrase \in 1 .. MAX_JNI_PASSPHRASE_BYTES
              /\ call.jni /\ call.opened = "ok"

Decode(call) ==
    /\ phase = "sealed"
    /\ ~Fine(call) => Oddities < MaxOdd
    /\ faults' = IF Fine(call) THEN faults ELSE faults + 1
    /\ LET code == DecodeCode(call) IN
       shown' = [code |-> code, fine |-> Fine(call),
                 rows |-> IF code = "book" THEN BookRows(capsule[1].document) ELSE <<>>]
    /\ Continue("shown")
    /\ UNCHANGED <<archiveVars, bookVars, capsule>>

-----------------------------------------------------------------------------
Init ==
    /\ phase = "archive" /\ error = <<>>
    /\ read = 0 /\ aggregate = 0 /\ decoded = <<>>
    /\ text = <<>> /\ parse = Fresh /\ artifacts = <<>>
    /\ capsule = <<>> /\ shown = [code |-> "", fine |-> FALSE, rows |-> <<>>] /\ faults = 0

HeaderTokens == UNION {ToSet(h) : h \in Headers}

Next ==
    \/ \E len \in 0 .. MAX_ZIP_ENTRIES + 1, plain \in BOOLEAN : OpenArchive(len, plain)
    \/ \E e \in Entries : ReadEntry(e)
    \/ FinishEntries
    \/ \E front \in {"bom", "marker", "no marker", "text first", "long line", "not UTF-8"} :
           BeginBook(front)
    \/ \E t \in Tokens \union HeaderTokens : ReadMarker(t)
    \/ \E fits \in BOOLEAN : EndBook(fits)
    \/ \E asPinned \in BOOLEAN : Package(asPinned)
    \/ \E k \in DOMAIN artifacts : Seal(k)
    \/ \E k \in DOMAIN artifacts : SealOther(k)
    \/ \E call \in Calls : Decode(call)

Spec == Init /\ [][Next]_vars

-----------------------------------------------------------------------------
(* The grammar of a book, over its whole text and without a parser.        *)

NamesOf(t) == [i \in DOMAIN t |-> t[i].name]
Positions(names, name) == {i \in DOMAIN names : names[i] = name}
OpenAt(names, kind, i) ==
    Cardinality({j \in Positions(names, kind) : j <= i})
        - Cardinality({j \in Positions(names, Closer[kind]) : j <= i})
WellNested(names) ==
    /\ \A kind \in Openers, i \in DOMAIN names : OpenAt(names, kind, i) \in {0, 1}
    /\ \A i \in DOMAIN names : names[i] \in FootnoteParts => OpenAt(names, "f", i) = 1
AllClosed(names, i) == \A kind \in Openers : OpenAt(names, kind, i) = 0

\* What no text read so far may break, whatever follows it.
Viable(t) ==
    LET names == NamesOf(t)
        chapters == Positions(names, "c") IN
    /\ Len(t) <= MAX_MARKERS_PER_BOOK
    /\ \A i \in DOMAIN t : t[i].text # "cr"
    /\ IF chapters = {} THEN \A i \in DOMAIN t : names[i] \in HeaderNames
       ELSE /\ Len(t) >= 8 /\ SubSeq(names, 1, 7) \in CanonicalHeaders /\ names[8] = "c"
            /\ \A i \in 9 .. Len(t) : names[i] \in BodyNames \union {"c"}
    /\ \A i \in chapters : /\ t[i].number = Cardinality({j \in chapters : j <= i})
                           /\ AllClosed(names, i)
    /\ \A i \in Positions(names, "v") : t[i].number # 0 /\ t[i].text # "none"
    /\ WellNested(names)

\* What only the end of the text can tell.
Complete(t, b) ==
    LET names == NamesOf(t) IN
    /\ Len(t) >= 7 /\ SubSeq(names, 1, 7) \in CanonicalHeaders
    /\ t[1].text # "wrong" /\ t[5].text # "wrong"
    /\ Cardinality(Positions(names, "c")) = b.chapters
    /\ Cardinality(Positions(names, "v")) = b.verses
    /\ AllClosed(names, Len(t))

(* parse accepts the texts of the grammar and no others: it reads on while *)
(* the text is viable, stops at the marker that makes it unviable, and at  *)
(* the end accepts exactly the complete ones, for markers that open and    *)
(* close across verses and each other, and at every limit.                 *)
ImportIsTheGrammar ==
    /\ phase = "text" => Viable(text)
    /\ phase = "book" =>
           \A k \in DOMAIN artifacts : Viable(artifacts[k].text) /\ Complete(artifacts[k].text, Books[k])
    /\ phase = "failed" /\ text # <<>> =>
           CASE error = <<"MalformedUsfm", "end">> -> Viable(text) /\ ~Complete(text, Current)
             [] error \in {<<"MalformedUsfm">>, <<"UnsupportedMarker">>, <<"TooManyMarkers">>} ->
                    ~Viable(text)
             [] OTHER -> Complete(text, Books[IF Len(artifacts) = Len(Books) THEN Len(Books)
                                              ELSE Len(artifacts) + 1])

\* A document the app may show, whoever sealed it.
Readable(d) ==
    /\ d.json /\ d.metadata /\ d.bom
    /\ Names(d.headers) \in CanonicalHeaders
    /\ \A i \in DOMAIN d.headers : d.headers[i].number = NoNumber /\ d.headers[i].text # "control"
    /\ Len(d.chapters) \in 1 .. MAX_CHAPTERS
    /\ MarkersUpTo(d, Len(d.chapters)) <= MAX_MARKERS_PER_BOOK
    /\ \A c \in DOMAIN d.chapters :
           LET m == d.chapters[c].markers
               verses == Positions(Names(m), "v") IN
           /\ d.chapters[c].number = c
           /\ verses # {}
           /\ \A i \in DOMAIN m : /\ m[i].marker \in BodyNames /\ m[i].text # "control"
                                  /\ i \in verses <=> m[i].number # NoNumber
           /\ \A i \in verses : m[i].number > 0 /\ \A j \in verses : i < j => m[i].number < m[j].number
           /\ WellNested(Names(m)) /\ AllClosed(Names(m), Len(m))

\* Of the texts the importer accepts, those whose book the app will show.
Legible(a) ==
    LET names == NamesOf(a.text)
        verses == Positions(names, "v")
        chapters == Positions(names, "c")
        Together(i, j) == i < j /\ chapters \intersect (i + 1 .. j) = {} IN
    /\ a.document.bom
    /\ \A i \in DOMAIN a.text \ chapters : a.text[i].text # "control"
    /\ \A i \in chapters : \E j \in verses : Together(i, j)
    /\ \A i, j \in verses : Together(i, j) => a.text[i].number < a.text[j].number

RowsOfText(t) ==
    [i \in 1 .. Len(t) - 7 |->
        LET u == t[i + 7] IN
        CASE u.name = "c" -> Row("ChapterHeading", "c", u.number, 0)
          [] u.name = "p" -> Row("Paragraph", "p", NoNumber, 0)
          [] u.name = "v" -> Row("Verse", "v", u.number, i + 7)
          [] OTHER -> Row("Marker", u.name, NoNumber, i + 7)]

(* From archive to screen: a book of the package is the text pinned for it *)
(* whatever the order of the entries; the app shows it, marker by marker   *)
(* in the order of the text, exactly when every chapter has verses that    *)
(* ascend and the text has its mark and no control characters, which the   *)
(* importer does not ask for; and of a document someone else sealed, it    *)
(* shows exactly the readable ones.                                        *)
ReaderShowsTheBook ==
    phase = "shown" =>
        LET a == artifacts[capsule[1].book] IN
        /\ shown.code = "book" <=>
               shown.fine /\ capsule[1].media /\ Readable(capsule[1].document)
        /\ ~capsule[1].edited =>
               /\ a.raw = Books[capsule[1].book].file
               /\ shown.fine => (shown.code = "book" <=> Legible(a))
               /\ shown.code = "book" => shown.rows = RowsOfText(a.text)
=============================================================================
