# ZionCode: a verification project

ZionCode turns a file into pictures and back. `zion-codec` splits a file into
compressed blocks, packs them into error-corrected symbols and puts the file
together again from whatever symbols come back. Around it stand carriers of
symbols (steganography, an optical square, printed sheets), an encrypted picture
format with its key collections (`zion-arc`), the import and publication of book
collections (`zion-corpus`, `zion-cli`), and an Android reader.

This directory holds TLA+ modules that model the parts of it that keep state or
make decisions, TLC configurations that check them on small instances, and TLAPS
proofs of what matters most for every value of the constants. The model was
written from the Rust and Kotlin sources; documentation is quoted only where the
code disagrees with it.

To check a module: `tlc -config MCReassembler.cfg MCReassembler`. To check its
proofs: `tlapm ReassemblerProofs.tla`.

## 1. The system

### Components, state and operations

| Component | State | Operations | What makes it hard |
|---|---|---|---|
| Codec encoder (`encode.rs`, `encode/packing.rs`, `encode/blocks.rs`, `zstd_layer.rs`) | the block being placed, the symbol being filled, the best K so far | split, compress, pack greedily under a byte and a count limit, search K in 1..254 | boundaries: a block that exactly fills a symbol, one that fits no symbol, K too small, ties |
| Codec reassembler (`reassemble.rs`) | pinned file metadata, blocks by index, symbols by index | `add_symbol`, `finalize` | a chain of checks interleaved with writes; refused symbols that leave something behind; duplicates, overlaps, damage |
| Codec transfer (`api.rs`, `decode.rs`) | none of its own: a loop over captures | `decode_file`, `decode_captures` | symbols lost, repeated, damaged, shuffled, mixed with another file's |
| Symbol ECC and format (`ecc.rs`, `format/`, `decode.rs`) | the profile being tried, what was corrected so far, the first error | encode, interleave, correct with erasures, parse header and blocks | each byte has a place on the wire, a codeword and a row; a wrong profile may "correct" into nonsense |
| Publication (`package.rs`, `cmd/arc.rs`) | a staging directory, the destination | write to a private directory, rename into place, abort, drop | races for a destination, failures halfway, kills, covers that change between two reads |
| ARC collection keys (`kdf.rs`) | the ids used under one key, behind a mutex | `derive`, `fresh_capsule_id` | threads; several key objects of one collection |
| ARC seal and open (`api.rs`, `carrier.rs`, `envelope.rs`, `bootstrap.rs`) | the picture; within a call, the lengths it is committed to | seal, open, open with a cached key, make a damaged test fixture | capacity computed twice, a keyed permutation of channels, the order of checks and of typed errors |
| Stego (`zion-stego`) | the photos written so far, in a directory that may hold older ones | embed, extract | hosts left over among the outputs, photos of several embeddings mixed, keys shared by several files |
| Optical (`zion-optical`) | the PNG | dimensions, render, extract, inspect | sides from a floating-point root, padding, headers of other writers |
| Corpus import (`archive.rs`, `usfm.rs`, `model.rs`, `canonical.rs`) | the entries read; the parser's chapter, verse and open markers | import, canonicalise, package | nesting of markers; every limit met exactly |
| Android app (`ZionArcApp.kt`, `ArcRepository.kt`) | what the composition remembers, what is saved | taps, dialog results, coroutines, recreation | everything may finish in any order, and the activity may be destroyed at any moment |
| Android JNI and book model (`zion-android`, `BookModel.kt`) | none | open, validate, lay out in rows | they repeat the importer's rules on documents somebody else may have sealed |

Art rendering, the screen laboratory, the other CLI commands, scripts and fuzz
targets are listed in `PROJECT.json` with the reason each is left out.

### How they interact

* The encoder hands symbols to a carrier (stego, optical, paper, ARC sheets); a
  decoder takes what comes back, one symbol at a time, through `add_symbol` and
  then `finalize`. Everything they share is in the symbol: the header repeats the
  file's metadata in every one. Nothing else connects the two, so the composition
  is exactly "any sequence of possibly damaged symbols".
* `run_blivre_seal_batch` opens one `CollectionKey` and seals each book with it,
  writing into a staging directory that it publishes with one rename.
  `run_blivre_import` does the same through `CorpusPackage::write_to_directory` and
  its `StagingDirectory`. The two, and any other program, share the file system.
* A book goes through four programs that agree only by convention: the importer
  accepts its text, the package and the capsule carry its document, the bridge
  validates that document again with rules of its own, and `BookModel.kt` lays it
  out. `CorpusBook` runs it through all four.
* The Android app calls the native library through one JNI function from a
  coroutine, and its result comes back to the composition that started it or to
  none.

### What should hold

* Codec: what comes back is what was sent or a report of exactly what is missing,
  for any order, repetition, damage and mixture; a refused symbol does no harm;
  the encoder wastes no symbol that its in-order rule lets it save, and always
  returns.
* Publication: the destination is absent or one finished output; the result a
  caller sees is true; nothing private is left behind in silence.
* Symbols on the wire: damage within the budget of each codeword is repaired
  wherever it is; what is returned is a prefix of what was sent.
* Keys: an id is given to one capsule only; no nonce is used twice under one key.
* Capsules, photos and optical squares: what was put in comes out, exactly when the
  picture still tells it, and never something else; capacity that was promised is
  there when it is used.
* Books: the importer accepts a grammar, the reader shows the text marker by
  marker, and of a foreign document nothing it cannot lay out.
* App: the screen, the book, the selection and the running work agree whatever
  order things happen in.

The hazards behind these, at their lines, are under `hazards` in `PROJECT.json`.

## 2. The modules

| Module | Models | Checked by | Proved in |
|---|---|---|---|
| `Reassembler` | `reassemble.rs` | `MCReassembler` | `ReassemblerProofs` |
| `FileAssembly` | abstract: what a reassembler promises | through `KeepsPromise` | `ReassemblerProofs` (`Promise`) |
| `Encoder` | `encode.rs`, `encode/packing.rs`, `encode/blocks.rs` | `MCEncoder` | `EncoderProofs` |
| `Transfer` | the encoder and the reassembler joined by lossy carriers | `MCTransfer` | `RoundTripProofs` |
| `Publication` | `package.rs` and the publishing commands of `cmd/arc.rs` | `MCPublication` | `BoundaryProofs` |
| `OneOutput` | abstract: what a destination promises | through `AppearsWhole` | `BoundaryProofs` (`Atomicity`) |
| `CollectionKeys` | the identifiers of `kdf.rs` | `MCCollectionKeys`, with two configurations | `BoundaryProofs` |
| `AndroidApp` | `ZionArcApp.kt`, with `ArcRepository.kt` | `MCAndroidApp` | `BoundaryProofs` |
| `SymbolWire` | `encode.rs` and `decode.rs` for one symbol, `ecc.rs`, `format/` | `MCSymbolWire` | `BoundaryProofs` |
| `ArcCapsule` | `api.rs`, `carrier.rs`, `envelope.rs`, `bootstrap.rs`, `types.rs` of `zion-arc` | `MCArcCapsule` | `ArcCapsuleProofs` |
| `Stego` | `zion-stego`, and the two commands over it | `MCStego` | `StegoProofs` |
| `Optical` | `zion-optical`, and the three commands over it | `MCOptical` | `RoundTripProofs` |
| `CorpusBook` | `zion-corpus` without its publication, `zion-android`, `BookModel.kt` | `MCCorpusBook` | `CorpusBookProofs` |
| `Induction` | nothing: lemmas of induction and recursion | | itself |

Each module that models code has a section marked *Mutants*: operators that are a
plausible slip of one definition. They are used by no specification; replacing
the definition by one of them must break the property paired with it in
`PROJECT.json`, which is how we know that the property depends on the code.

### Reassembler and FileAssembly

`metadata`, `blocks` and `symbols` are the three fields of the struct: the pinned
description of the file, the map from block index to a block or to `None` (lost
in its symbol), and the map from symbol index to what was stored for it.
`outcome` and `report` hold what the last call returned. `AddSymbol` is the whole
of `add_symbol`: the checks are made in the order of the code, since the order
decides which error is returned and what a refused symbol leaves behind. A stored
block is a record of its form, its length and the bytes it decompresses to;
`global_hash` is the file itself, which makes the hash collision-free. `finalize_report`
builds the runs of missing blocks as the code does, one run in hand (`scanned`),
and the bytes block after block (`out`).

`FileAssembly` knows only which blocks are known, and what was reported:
blocks are learned and never changed, and the answer is the file or what is
missing. `KeepsPromise` says every step of `Reassembler` is a step of it.

Two facts that the model makes plain and that a reader of the code would miss: a
symbol that is refused as a diverging duplicate may still have filled lost blocks
before the divergence was found (`FailureLeavesStore` says this and no more), and
the metadata is pinned only by a symbol that was stored (`PinnedByStoredSymbol`).

### Encoder

A block is its cost in bytes on the wire; the file is the table `offset` of the
sums of the costs. `TakeBlock` and `CloseSymbol` are the two things a turn of the
packing loop may do; `TryNextK` and `EndSearch` are the loop over K of
`choose_auto_k_for_blocks`; `EncodeEnds` and `EncodeFails` end the packing with the
K chosen. The errors are phases in which the encoder stops. The capacity of a symbol is computed from K as the code does. When no K
works, the error kept is that of the last K tried.

### Transfer

`Transfer` has an `INSTANCE` of `Encoder` (the sum table of the real blocks of
the file) and one of `Reassembler`, joined by `EncodedSymbol`. The file is encoded
twice, as happens when it is printed again: both sets of symbols are in the same
camera roll and carry different file ids. A capture is any symbol of either, with
any prefix of its blocks readable (`decode.rs` stops at the first block header it
cannot read), any number of times, in any order; or one that does not decode.
An error of `add_symbol` ends the call, as the `?` in the code does.

### Publication and OneOutput

Each process is one call of `run_blivre_import` or `run_blivre_seal_batch`, with
its program counter; one action is one call on the file system or one decision.
They share the destination and the staging names. The environment may change a
cover between the preflight and the sealing, create the destination itself, sweep
away what a process that is gone left behind, and kill a process anywhere; any
write, rename or removal may fail. `Rename` is the rename that never replaces: it
moves the directory to a free name or fails, and `atomic` says whether the platform
has one at all.

`OneOutput` has a variable and one step: absent, then one finished output for
good. `AppearsWhole` is the refinement.

### CollectionKeys

Threads share key objects; `fresh_capsule_id` draws an id outside the mutex,
retries on zero, then inserts under the mutex and draws again if the id is taken.
The seal that follows may fail. Ids are few, so that draws collide.

### AndroidApp

One variable per remembered piece of state, the coroutines that are out, the
dialogs that are out, and `frame`: what the user sees, which a tap is decided by.
The handler of a tap runs on the state of the moment. `Recreate` is the
destruction and recomposition of the activity: only `rememberSaveable` state and
the dialogs outlive it.

The "open" button is disabled by `loading`, but only from the next frame. What
keeps a second tap in the same frame from starting a second recovery is that the
handler has emptied the password field. How many events reach the app between two
frames is nothing the code states, so the theorems hold for any `MaxStale`. They
cannot say that two recoveries never overlap, since they can: a key typed into the
field that is about to be disabled, and a tap after it, start a second one.
`hasty`, a history variable, is what distinguishes that case: it is set by a key
that goes into the field of a frame drawn before a recovery began or ended, and
cleared when that text is gone and no recovery it let in still runs. `OneDecode` says
that without it recovery and busy state agree and no recovery runs behind an open
book, whatever else reaches a late frame, and that even with it the app is never busy
with nothing running. No document promises more.

### SymbolWire

A byte on the wire is a cell that tells where it comes from: a byte of the header,
of block *n*, of the parity of codeword *j*, padding, or junk. `Encode` serializes,
pads, cuts into codewords and interleaves; the channel damages single bytes or a
run, cuts the end off, or reports positions as unreadable, one of them twice and
possibly one past the end. Decoding is one action per step of the code:
`BeginDecode` with the erasure map, one `DecodeCodeword` per codeword, `ParseHeader`,
one `ParseBlock` per block, and for a profile that fails the next one, with the
first error kept. Reed-Solomon within its budget is exact; beyond it, it fails or
returns some other codeword (`Miscorrections`), which the header check must then
refuse. That a codeword of much parity also belongs to the code of less
(`CodewordsOf`) is true of these codes, and matters: the wrong profile can succeed.

### ArcCapsule

One capsule from seal to open, one action per stage of `seal_png_bytes`,
`open_png_bytes` and `make_bounded_corruption_fixture`, so that the order of the
typed errors is that of the code. The raster is a sequence of channel values: the
bootstrap in the low bits of the first channels, the codewords bit by bit at the
positions that `payload_positions` shuffles with a stream of words (`Word`, with the
rejection threshold), a channel moved one step away from the ends of its range.
Between the two, channels are flipped, the bottom row is cut off, or the raster is
read in another shape. The ciphertext and its parity are any of a few patterns;
opening with another key, shape or bootstrap than the sealed one is refused, as the
AEAD does.

### Stego

`embed_file` is one action per photo, the command that writes the photos one per
photo as well, since writing may stop between or inside them and the directory may
hold photos of an earlier embedding. Hosts may themselves be photos written before.
What is picked later is any list of photos of the directory, one channel damaged or
one photo cropped; the headers of all are read before any is opened, as in the code.
A damaged magic is refused; any other damaged field reads as any value, and a version
is refused only when it reads as a later one, so a photo with a damaged version may
still be read.

### Optical

The dimensions (`compute_dimensions` with its three shapes, Euclid's algorithm, the
rounded root, and the size as the unchecked 64-bit product it is: `checked` says
whether the build panics on overflow or wraps around; `Framed` is the allocation and
the checked product of `from_flat` that follow), the header, the padding, and the three readers. An image may be
damaged, cut by a row, grown by a row, recoloured so that it is no longer RGB, or
given a header of another writer with a correct CRC. `CodecError` and
`MissingSymbols` stand for what the codec makes of the symbols it finds.

### CorpusBook

The archive, entry by entry with its checks in order; the parser, marker by marker,
as `usfm.rs` reads a text; the package; then a capsule that holds one of its books
or a document edited before sealing (`EditedDocuments`: each thing the bridge checks,
wrong in one way); then `decode_book_png_jni` and the rows of `BookModel.kt`.
`Viable` and `Complete` say the grammar of a book over the whole text, with counts
of openings and closings instead of a parser, and `ImportIsTheGrammar` compares the
two at every marker. The text behind a marker is its position, so that the rows can
be compared with the text.

Three things a reader of the four programs may not expect, and which
`ReaderShowsTheBook` states: the importer does not ask that a chapter have verses,
that verse numbers ascend, that the text begin with a byte order mark or that it
be free of control characters, and the bridge does, so a book may be packaged and
then not shown; and the text behind a paragraph marker has no row.

## 3. The runs

| Run | Instance | What it shows |
|---|---|---|
| `reassembler` (866 states) | a file of 7 bytes in blocks of 2, in 3 symbols; intact and damaged copies of each, copies that diverge, symbols with other metadata, displaced, overlapping, of another file | every order of these: `PinnedByStoredSymbol`, `RangesPartitionBlocks`, `StoredBlocksDecode`, `MissingReportExact`, `AcceptedMeansStored`, `FailureLeavesStore`, and the refinement `KeepsPromise` |
| `encoder` (77 052) | every list of up to five blocks of cost 1 to 4; K given, from 1 to 4, or searched | `Tiling`, `SymbolsFit`; `GreedyIsOptimal`: no in-order packing needs fewer symbols; `SearchIsOptimal`: the K chosen is the cheapest, the smaller on a tie; `MinKIsTight`: the K an error asks for is the least that works |
| `transfer` (27 990) | files of 3, 5 and 6 bytes in blocks of 2, each block stored raw or compressed to any length, two encodings, four captures | `RoundTrip`, `AnyOrder`, `CapturesDecide`: a session is refused only when it mixes two encodings, and complete exactly when every block was seen; `Ends`, of the encoder's searches and of the decoder |
| `publication` (212 166) | an import and a batch racing, two staging names, two files, two books, a cover that fits and one that does not, two attempts | `ResultTruthful`, `SealedAsMeasured`, `ResidueReported`, the refinement `AppearsWhole`, `Ends` |
| `collection_keys` (108 608) | two threads, two key objects, two nonzero ids, three seals | `UniquePerKey` |
| `collection_keys_spec` | the same | **violated**: `UniqueInCollection`, see below |
| `android_app` (824 960) | two documents, two pickers, two events between frames, two recoveries at once | `InfoOfSelection`, `ScreenShowsBook`, `OneDecode`, `FlowDoesNotLoop`, `BusyEnds` |
| `symbol_wire` (874 489) | words of 7 bytes, two of them repaired in one profile and one in the other; symbols of up to two words, empty, full to the last byte and padded; any single byte, any burst of up to five, any cut, any run of up to three reported positions | `RepairsItsBudget`, `BurstsAreRepaired`, `BlocksArePrefix` |
| `arc_capsule` (1 120 545) | seven items of which two are refused for their length, two for their name; covers that hold one codeword, two, or none, and one with each defect; four keys; two edits | `Survives`: what disturbs no more than one codeword can lose is undone, and whatever opens is the item sealed; `SealFits`; `FixtureAtBound`, of every step that makes a fixture |
| `stego` (436 232, up to exchanging the passphrases) | three files, photos of 12 and 9 channels and an unreadable one, up to two hosts, two embeddings, two photos picked, one damage | `ReadsBack`, `NeverPanics`, `SealedOnce` |
| `optical` (145 185) | four files, K from 0 to 3, seventeen shapes, each in a build with overflow checks and one without, nine foreign headers, two changes | `SmallestOfItsShape`; `ExtractsWhatWasRendered`: the file comes back exactly when the image still tells it |
| `corpus_book` (871 361) | two books of one and two chapters, every body marker, seven header sequences, eleven archive entries, two oddities | `ImportIsTheGrammar`, `ReaderShowsTheBook` |

### Why the bounds are enough to be interesting

* `reassembler`: seven bytes in blocks of two give a short last block; three
  symbols give a first, a middle and a last, so runs of missing blocks touch
  either end, both or neither, and can be two with a gap. Each check of `add_symbol`
  has an input that only it refuses.
* `encoder`: the costs and capacities make some blocks fill a symbol exactly, some
  exceed every symbol, and some exceed one K and not the next; the count limit
  binds before the byte limit for cheap blocks. Five blocks suffice for a greedy
  mistake to cost a symbol.
* `transfer`: 3, 5 and 6 bytes are an odd file of two blocks, one of three, and an
  exact multiple. Four captures allow every block, a repetition and a stray.
* `publication`: one process of each kind is the race; two names make one taken
  and one free; `Attempts` is 16 in the code and 2 here, so that it runs out.
* `collection_keys`: with two nonzero ids and three seals an object runs out of
  fresh ids, so a draw that is taken is certain to be met.
* `android_app`: two documents tell a late description from a current one; two
  pickers let one answer while a recovery started after it runs. Two events between
  frames are a tap and a second tap, or a key and a tap; `MaxDecodes` is two, so that
  the recoveries of a key and a tap do overlap.
* `symbol_wire`: two words are the least that interleaving can confuse; a burst of
  five exceeds both budgets of two words, so repair both holds and fails. The
  contents include one that exactly fills its words and one that overflows them.
* `arc_capsule`: bytes of two bits and channels of two values beyond the ends keep the
  positions few; one profile corrects one byte, the other none, so an edit is on
  either side of the bound. `WordSize` is 64, so that rejected words occur.
* `stego`: two hosts of different capacity, where the smaller decides; a file that
  leaves a host over and one that needs both; `MCWord` gives two seeds different
  permutations. The header is one cell for each field that decides something, and a
  crop leaves less than it.
* `optical`: rendered streams of 15, 18 and 27 cells fit some of the shapes exactly,
  some with a pixel to spare and some not at all. `U32_MAX` is 15, `U64_MAX` 255 and
  `ISIZE_MAX` 127: some sides overflow, and of the sizes that overflow some wrap to
  less than the stream, some to more, and some to more than can be allocated.
* `corpus_book`: `MaxOdd` counts the unusual things in all texts, edits and openings
  together. With two of them any two markers that interact (open and close, an open
  note at a chapter, a missing mark and an edit) meet; the limit of 12 markers is
  reached by the second book, and both archive limits by a third entry's size.

### Fairness

* Encoder, and the decoder in `Transfer`: weak fairness of the next-state
  relation. Both are ordinary calls on one thread, which run until they return; the
  iterator of captures is finite.
* `Publication`: weak fairness of each process's own step. A process that is not
  killed is scheduled; a kill is an action without fairness. Nothing is assumed of
  the environment.
* `AndroidApp`: weak fairness of the end of a recovery. It reads a stream whose
  length is limited and calls a native function that terminates; a document
  provider that blocks for ever is thereby excluded. Nothing makes the user tap, a
  dialog answer, or a frame be drawn.
* The other modules have no liveness property and no fairness: `Reassembler`
  answers calls, and `SymbolWire`, `ArcCapsule`, `Stego`, `Optical` and `CorpusBook`
  are straight programs whose loops run over finite input; the encoder's and the
  decoder's loops are the ones whose end is not obvious.
  In particular a thread may draw taken ids for ever: the code's loop has no bound.

Deadlock is checked in `publication` and `android_app`, where something can always
happen. It is not where the program really stops: the encoder and the decoder when
they have returned, `CollectionKeys` when `MaxSeals` capsules have been sealed, the
modules of the paragraph above when the last call has returned.

### The disagreements found

`docs/specs/2026-08-29-zion-arc-v1.md:323-325` requires that a seal regenerate a
`capsule_id` already used with the same `collection_id`. The code
(`zion-arc/src/kdf.rs:57`) keeps the used ids in each `CollectionKey` object, and
`CollectionKey::derive` starts with none. `collection_keys_spec` shows two
capsules of one collection with one id, sealed through two objects derived for
that collection. The ids have 128 random bits, and the same document calls the
collision negligible while keeping the requirement; what the code does guarantee,
uniqueness per object, is `UniquePerKey`, and is proved.

`zion-optical/src/layout.rs:42` documents `InvalidDimensions` when "arithmetic
overflows". The size of the image is `width * height * 3` in a `u64`
(`layout.rs:29`), and two `u32` sides can pass it: 2^31 times 2863311531 times 3 is
2^64 + 2^31. A build with overflow checks panics there; another wraps, and the shape
is then refused as too small, or taken and refused later by the checked product of
`pixel_io.rs:149`, or the stream cannot be allocated at the wrapped size.
`--width` with `--height`, and `--aspect`, take such values. No run states the
document's sentence, which the line contradicts by itself; the model has all of these
outcomes, the shapes of `optical` that overflow reach each of them, and what the code
does guarantee under them is `SmallestOfItsShape`: no image of a wrapped size is ever rendered, and a
shape is refused, in whatever way, only when every image of it that would hold the
stream is larger than memory can be.

## 4. What is proved

Every theorem holds for all values of the constants that satisfy the `ASSUME`s of
the module: any inputs, limits, number of processes, files, threads, documents.

* **Reassembler.** The inductive invariant joins `TypeOK`,
  `PinnedByStoredSymbol`, `RangesPartitionBlocks` and `StoredBlocksDecode`. None is
  inductive alone: that stored ranges are disjoint needs every block of a stored
  symbol to be a key of `blocks`, and that stored blocks decode needs the pinned
  metadata to be the one they were checked against. `WellFormedRange` gives the
  arithmetic of a symbol's range once. From it follow the action properties
  `RecoveredKept`, `AcceptedStored` and `FailureLeaves`.
  The second half of the module is about `finalize_report`. `RunsExact` is the
  invariant of its first loop: the closed runs and the open one are the missing
  blocks so far, and no two touch; `ScanExact` shows a turn keeps it, and with it
  `MissingExact` is the theorem for a file of any length. `RebuiltSpells` is the
  same for the second loop: byte *p* of the result is the byte of block
  *(p - 1) div BlockSize*, and the last block has exactly the length that makes the
  final truncation remove nothing (`LastBlock`). `Promise` joins them: every step of
  `Reassembler` is a step of `FileAssembly` or a stutter. It needs one more
  invariant, that a pinned description passed the header checks (`MetadataValid`).
* **Encoder.** `Tiling` and `SymbolsFit` with the fact that the table of sums is
  one of `OffsetTables` and does not change. `PacksTheFewest` is the exchange
  argument over all ways to cut the list: the table of the fewest symbols from each
  block on is solved once (`Fewest`, by `Recursion`), and `Greedy`
  says at every step that the symbols cut so far and the fewest for what is left are
  the fewest for the whole. `SearchFindsTheBest` adds `Searched`: what is remembered
  is the best of the Ks tried, with the tie rule. `MinimumIsTight` is the rounding
  of the K an error asks for.
* **Transfer** (in `RoundTripProofs`). `RoundTrips`, `AnyOrderHolds` and `CapturesDecideAll`: a file that is
  reported whole is the file that was sent, whatever was captured, in any order and
  number, and a session ends complete exactly when every block was seen undamaged.
  The proof composes the two halves: `RoundTripProofs` has an instance of
  `EncoderProofs` and one of `ReassemblerProofs`, takes from the first that symbols
  tile the blocks (`Cut`: the tiles of two symbols are disjoint) and from the
  second that the answer spells what is stored (`RebuiltIsFile`). Its own invariant
  is that what is stored is what an honest symbol brought (`Storing`), that a block
  is stored undamaged when, and only when, a capture brought it so (`Knowing`), and
  which encodings the captures came from (`Sources`). `CaptureOutcome` is the one
  case analysis of `add_symbol`: an honest symbol is stored, stored already, or of
  another encoding.
* **Publication** (in `BoundaryProofs`, with three more parts that meet
  what the program does not control: threads, the user, the wire). The invariant says who owns each staging directory
  (`Ownership`), what a batch has measured (`Measured`) and written (`Filling`),
  what the destination holds (`Destination`), what each outcome implies
  (`Outcomes`) and where something may be left (`Residue`). `ResultTruthful`,
  `SealedAsMeasured` and `ResidueReported` follow, and `Atomicity` is the
  refinement of `OneOutput`: every step is its step or a stutter.
* **CollectionKeys** (in `BoundaryProofs`, with the prefix `Keys`). Uniqueness
  needs that an id inserted by a thread is its own until it seals
  (`TakenIsExclusive`) and that what was sealed is in the used set (`SealedIsUsed`).
* **AndroidApp** (in `BoundaryProofs`, with the prefix `App`). `OneDecode` needs that
  while a frame still offers the button of a recovery that has begun or ended, the
  password field is empty or `hasty` tells of the key that filled it (`NoSecondOpen`),
  and `EndOfDecode` gives what the end of a recovery leaves; there is no bound on the
  events between frames. `Asked` relates the counts of prompts and pickers to the saved
  flag.
* **SymbolWire** (in `BoundaryProofs`). Three invariants, one on the other. `Carried`: what was sent is
  what `Encode` made of accepted inputs, and each byte that arrives is the one sent
  or junk. `Prefixed`: the entries read so far are successes, but for the last. It
  gives `ReadsAPrefix`, whatever the decoder returned. `Repairing`, for a symbol
  within its budget: no profile tried so far is the right one, and once it is tried
  the bytes corrected so far are the first data sent and the blocks read so far the
  first blocks sent; it gives `WithinBudgetIsRead`. Under it are: that two codewords
  sent with different data differ in more rows than there is parity, so that a
  correction within the budget has one answer (`Distance`, `OneCorrection`); that a
  row of a codeword is one position of the wire, so that the damage the decoder
  counts over rows is the damage counted on the wire (`PositionFacts`, `RowsCount`,
  `WithinBudget`); and that a block starts where the blocks before it end
  (`ConcatPrefix`, `BlockPlace`). `BurstIsRepaired` then counts: two bytes of one
  codeword are at least as far apart as there are codewords (`SameWordApart`), so a
  window of all the budgets together takes no more than one budget of each
  (`BurstWithinBudget`).
* **ArcCapsule.** `SealedIsOpened`, `WhatFitsIsSealed` and `FixtureIsExact`, for every
  cover, item, key, profile, limit and sequence of edits. The invariant has one part
  for what a seal in progress has established (`Sealing`), one for an opening
  (`Opening`), and one for the capsule and the picture in hand (`Kept`): the capsule
  was sealed from an item that passed every check, in a cover that passed the
  capacity, and its raster holds the bits of the bootstrap and of each codeword, each
  at its place (`Holds`); the picture is one the decoder reads, whatever was edited.
  Under it are four arguments. The shuffle arranges the candidate channels whatever
  words it is given (`ShuffleArranged`), so every embedded bit has a channel of its
  own, after the bootstrap (`Positions`, `WhereIsSpread`), keeps its parity through
  both embeddings (`EmbeddedParity`, `BootstrapParity`) and is found by the
  deinterleaving (`BitPlace`, `BitIndexInjective`): `SealedHolds`. A byte read wrong has a
  disturbed channel of its own, so no codeword has more wrong bytes than channels
  were disturbed (`WrongBound`). `parse` of what `serialize` wrote is the item, for
  every padding (`ParsedIsSealed`). And the padding is the least that fills whole
  codewords (`PaddingFills`), while the codewords that fit in number also fit in bits,
  through both roundings (`Room`), so the capacity computed in `prepare` and the one in
  `seal_image` agree (`PreparedFits`, `RefusedIsTooLarge`). For the fixture, the
  flipped channels are counted by a bijection (`HitOnce`), and the bytes they touch
  are in the promised rows of each codeword (`HitRows`).
* **Stego.** `SealsOnce`: no two symbols are sealed under one key and nonce. The
  invariant ties what was sealed to the sessions that drew a fresh file id and to
  the number of photos the running one has made. `CapacityHolds`: the assertion of
  `embed_into_host` never fails, for all sizes and densities. `KFitsPhoto` is the
  arithmetic of one photo, with the two roundings down of `photo_k_per_photo`,
  `KFitsAll` carries it to the smallest K of a set, and the invariant carries that
  to each host of the running call. `ReadsWhatWasEmbedded` is `ReadsBack` for every
  generator: the shuffle is a permutation whatever words it is given, so the
  cells written at its positions are found there; that a photo
  embedded over another leaves the header of one and the ciphertext of one; and
  `ReadingInv`, that what is opened at each step was sealed under the key and nonce
  the reader derives, which `SealsOnce` makes one symbol.
* **Optical** (in `RoundTripProofs`, with the prefix `Optical`).
  `DimensionsAreSmallest`: whatever the shape and the length, and whether the build
  checks overflow or wraps, what comes of the dimensions is the least of that shape
  that holds the stream, or a refusal of a shape none of whose images both holds the
  stream and fits in memory. `SquareIsChosen`, `ExplicitIsChosen` and `AspectIsChosen`
  are about the sides, before their size is computed. For a ratio it is number theory: that `gcd_u32` computes the
  greatest common divisor with coefficients (`GcdIsGcd`, Euclid and Bezout), and that
  an image has the ratio only as a multiple of the reduced one (`RatioIsScaled`).
  `SidesAreSmallest` carries them through the 64-bit product: a size
  that did not overflow is its own remainder; one that did is larger than memory, as is
  every image beyond it, and is never framed.
  `RenderIsSmallest` is the invariant of every behaviour. `ExtractReturnsTheFile` is
  `ExtractsWhatWasRendered`: under `Container` the image is a raster, each of
  whose cells is the one rendered there or a damaged one, and the three readers
  are then followed check by check.
* **CorpusBook.** Two programs that read marker by marker are shown to decide what a
  definition over the whole says. `ImportTheorem`: the parser accepts the grammar and
  refuses at the first marker no text of it could continue with. Its invariant
  `ImportInv` has `Parsing` for the book in hand: the parser's open markers, verse
  count, marker count and header names are those counted over the text read so far, and
  the document is laid out from it (`LaidOut`: header *i* is marker *i*, and marker *j*
  of chapter *c* stands where the chapters before it end). `ViableStep` says when a
  viable text stays viable with one more marker, `MarkerErrorIsGrammar` that the parser
  refuses exactly the others, `CompleteIsGrammar` the same for the end; a book that was
  accepted keeps all this (`BookKept`). `ValidateIsReadable`: the one pass of
  `validate_body_markers` with its set of open markers and its last verse accepts
  exactly the readable documents, for every document (`PassStep`, `ValidBodyIsFine`).
  `ReaderTheorem` joins the two: for a document laid out from a text of the grammar,
  readable comes to legible (`LegibleIsReadable`; each chapter of the text is opened and
  closed by itself, `ChapterNests`, so its nesting can be judged from its own markers),
  and the rows of the chapters, one after the other, are the rows of the text
  (`BookRowsAreText`); a document edited by another program is still one of the type
  the bridge decodes (`EditedDocumentsAreDocuments`), so `ValidateIsReadable` decides it.
* **Induction.** The library's induction theorems take an operator and cannot be
  used with the installed provers. `Induction` states them about sets and functions
  instead: a set of naturals with 0 and closed under successor is all of them, and a
  first value with a function per step determines a function on the naturals. That
  is what makes the loops of `finalize_report`, Euclid's algorithm and the validator's
  pass provable.

Assumptions are typing and positivity of the limits, with these exceptions:
in `AndroidApp`, that `None` is no document; in `Reassembler`, that `None` is none of the values it
stands beside; in `Stego`, that the header has as many cells as fields, and that the
generator yields naturals (`u64`s in the code); in `ArcCapsule`, that the loop that
rejects words ends at every swap of the shuffle with a natural (a `u32` of the
code, whose generator refuses nothing for ever) and that the parts of an item and the
channels of a cover are what their types say, the frame of an item never being
empty, as zstd's is not; in `Optical`, that the header has as
many cells as fields, that fewer bytes of a codeword are corrected than it has, and that
a vector is at most `isize::MAX` long, which a `u64` holds; in
`Transfer`, that a file has at least one block and no more than the codec's limit,
which is what `split_file_into_blocks` refuses with `EmptyInput` and `TooManyBlocks`; in
`SymbolWire`, that a block's header has more than its flags byte (it has 7); in
`CorpusBook`, what `canonical.rs` validates of the embedded list of books (their
names differ, their counts are positive) and that none has more chapters than the
bridge accepts (150 against 1024).

`TypeOK` and `RecoveredBlockKept` are proved and are not properties of a run: the
first is part of each inductive invariant, the second of `KeepsPromise`.

### Only model-checked

* Liveness: `Ends` (of `Transfer` and of `Publication`) and `BusyEnds`; the prover
  has no way to fairness.

Every invariant and every step property the passing runs check is a theorem.

## 5. What the model leaves out

* Finite fields, CRCs, hashes, ciphers, key derivation and zstd are ideal: a
  codeword within its budget is restored, a checksum or a tag tells every change,
  a hash is its argument, a frame decompresses to what it was made of or fails.
  In `Transfer` a damaged symbol is a readable prefix or unreadable;
  `BlocksArePrefix` of `SymbolWire` is what justifies that.
* Floating point: `ceil_sqrt` of the layout takes the root of a quotient of two
  integers, both below 2^33 where it matters. A quotient that is not a square differs
  from one by at least one part in 2^33, far above the 2^-53 of a double, so the
  rounded root is exact and the model uses the integer root.
* `Optical` is that of a platform with a 64-bit `usize`: the conversion of the capacity
  (`render.rs:132`) never fails there. An allocation longer than `isize::MAX` panics;
  running out of memory below that is not modelled.
* `Publication`: the batch's `Drop` asks `path.exists()` (`arc.rs:1074`), which is
  false also when the path cannot be examined; the model's file system always
  answers. A kill leaves the staging directory, as the code intends.
* The single-file commands (`write_new`, `write_private_new`, and `encode`, which
  writes its symbols one by one) write at the final name: a failure leaves a part of
  an output there. That is visible in the source and no document promises otherwise.
* `AndroidApp`: the status line and the export of a book, which change nothing
  that is kept; wording and layout.
* `CorpusBook`: the lengths of the metadata fields are one flag; the totals of the
  pinned release are one outcome of `Package`; the JNI's wiping of memory.
* The art renderer (a deterministic drawing judged by eye), the screen laboratory
  (an experiment in numeric image processing), the remaining CLI commands (one call
  of a library that is modelled, between reading and writing files), scripts and
  fuzz targets.

## 6. The plan

Done, in this order: `Reassembler` and `FileAssembly`, `Encoder`, `Transfer`,
`Publication` and `OneOutput`, `CollectionKeys`, `AndroidApp`; then `ArcCapsule`,
`SymbolWire`, `Stego`, `Optical`, `CorpusBook`; and the proofs of section 4.

What would come next, the most useful first:

1. `SymbolWire` composed with `Transfer`, so that the readable prefix is derived and
   not assumed.
2. The single-file publication as a variant of `Publication`, once its intended
   guarantee is written down.
