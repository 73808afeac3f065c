# TLA+ models of neptools

neptools reads, edits and writes the archives and scripts of a family of games
(`.cl3` archives, STCM and STSC scripts, `.gbin`/`.gstr` tables of texts). A
command line, `stcm-editor`, works on files; a Windows server DLL and a Vita
plugin splice modified files into the running game. This directory holds models
of that code in TLA+, the TLC configurations that check them, and proofs.

Everything is read through `Source` and written through `Sink`. Between the two a
file is a tree of items with labels (scripts), a list of entries with links
(archives), or a table (texts). The program is sequential: no component has
threads. What is hard in it is not scheduling but *lengths that straddle
buffers*, *offsets into something that is being taken apart*, *exceptions in the
middle of a call*, and *stops in the middle of replacing a file*.

Paths below are relative to `src/src/`.

## Inventory

| component | state | operations | interacts with | hard behaviour | what makes it correct |
| --- | --- | --- | --- | --- | --- |
| Sink (`sink.hpp`, `sink.cpp`) | `offset`, `buf_put`, `buf_size`, buffer or window of the mapped file | `Write`, `Pad`, `Flush`, `Tell`, destructor | every format's `Dump_` writes to it | spills, last window, I/O errors half way | the file is the stream of what the client wrote |
| Source (`source.hpp`, `source.cpp`) | cache of four chunks, file, slice | `Pread`, `GetChunk`, `PreadCString`, `Dump` | every `Parse_`; slices share a provider | eviction under views, failing reads, short last chunk | answers are the file's bytes, chunks are owned once, calls end |
| CpkSource (`windows_server/cpk.cpp`) | cache of one chunk of 128 MB | `Pread` | the game's `OrigRead`, `Source` | the position an entry is stored under | as Source |
| Item tree (`format/item*`, `raw_item*`, `context*`) | children, positions, pointer map, labels | `Split`, `Slice`, `MoveNextToChild`, `Replace`, `Fixup`, labels, `GetPointer` | parsers of STCM and STSC | labels and the map while items are split and moved | no byte and no label moves, pointers find their item |
| STCM (`format/stcm/`) | items of a script | `Parse_`, `CreateAndInsert` of every item, `ReadTxt_`, `Gc`, `Dump_` | item tree, `Gbnl` | recursion along the file's pointers, heuristics that guess what bytes are | parse and dump give the same file; everything that is called or named is parsed |
| STSC (`format/stsc/`) | items of a script | `Parse_`, `PostInsert`, `ReadTxt_`, `WriteTxt_`, `Dump_` | item tree | jumps back and into things, strings of other lengths | as STCM, with the texts changed |
| Gbnl (`format/gbnl.*`, `gbnl_lua.hpp`) | type, messages, sizes | `Parse_`, `RecalcSize`, `Dump_`, `ReadTxt_`, `WriteTxt_` | `Sink`, Lua scripts | shared and null strings, ids, imports that throw | an import changes what it names; dump and parse are inverse |
| Cl3 (`format/cl3.*`) | entries with weak links, sizes | `Parse_`, `Fixup`, `Dump_`, `UpdateFromDir`, `ExtractTo`, `GetStcm` | `Sink`, directories, `Stcm::File` | layout computed three times; links that dangle | a dump is read back, with the same files and links |
| Dumpable (`dumpable.cpp`) | temporary files | `Dump(path)` | `Sink::ToFile`, the file system | stops between write and rename | one whole archive is always left |
| stcm-editor (`programs/stcm-editor.cpp`) | the open file | automatic modes, sessions of options | all of the above | failing half way | a command replaces the archive at once or not at all |
| CpkHandler (`windows_server/cpk.cpp`) | slots of open files | `OpenFile`, `Read`, `CloseFile` | the game, CpkSource, Gbnl, Cl3 | slots used again, text imports that fail | no slot is lost, a file is read from what it was opened as |
| Vita plugin (`vita_plugin/cpk.cpp`) | cache directory | `HookGetFileInfo`, `DoTxt`, `DoBin` | the game, OpenFactory | a stale or half-written cache | the game gets the player's file or the whole import, every time the same |
| OpenFactory (`open.cpp`) | – | `Open` | every format | – | the right parser, or none |
| Server and hooks, patterns, DynamicStruct, Lua bindings | – | – | – | – | not modelled, see below |

`libshit` (`LowIo`, smart pointers, `OrderedMap`, assertions) is a submodule
whose code is not part of the repository; it is modelled by how the code uses it.

## Modules

```
ByteStream <== SimpleSink, MmapSink --EXTENDS--> Sink        SimpleSink_proofs, MmapSink_proofs
ReadOnlyFile <== UnixLike --EXTENDS--> Source <--EXTENDS-- CpkSource <--EXTENDS-- CpkHandler
                        Source_proofs (of UnixLike, CpkSource and CpkHandler)
LabelledFile <== ItemTree <--EXTENDS-- ScriptFile <--EXTENDS-- Stsc (StscOpcodes), Stcm
ItemTree_proofs, ItemTreeLayout_proofs                         ^ EXTENDS both: Scripts
ArchiveStore <== Cl3Tool --EXTENDS--> Cl3                              Cl3Tool_proofs
GbnlText --EXTENDS--> Gbnl                                             GbnlText_proofs
Vita                                                                   Vita_proofs
```

`A <== B`: B implements the abstract specification A, which a run checks as a
property of B under a refinement mapping. `MC*` modules hold only values for TLC.

### Sinks: Sink, SimpleSink, MmapSink, ByteStream

`Sink` has the members all sinks share; `buf_put`, `buf_size`, `offset` have the
code's names. An action is a whole call of the client: `Write` either stays in
the buffer (`sink.hpp:38-49`) or spills (`Write_`), `Pad` likewise. A call may
throw in any `io.Write` it makes, and `SimpleSink!Tear` lets that `io.Write`
append a part first; the members then have the values of the line that threw.
`sent`, `told` are what the client handed over, `wpos` (SimpleSink) where the
next `io.Write` appends. `MmapSink` has one window of `MMAP_CHUNK` bytes, the
last one shorter, over a file longer than `MMAP_LIMIT`, or maps all of it;
`MemorySink` is the case of a file that is one window.

Assumption `SafePads`: the client makes no `Pad` its sink's `Pad_` miscounts
(`LosesChunk`, `MiscountsEnd`). Every `Pad` in the repository meets it: they pad
to 4, 16 or 64 bytes (`string_data.cpp:50`, `cl3.cpp:391,407,429,436`,
`gbnl.cpp:332,379,396`), less than any chunk. Without it the sinks do lose
bytes, see Findings.

### Sources: Source, UnixLike, CpkSource, ReadOnlyFile

A call is a loop in the code (`Source::Pread_`, `Dump`, `PreadCString`), and here
one action per iteration: `CopyCached` takes from the cache what is there,
`LoadChunk` (`UnixLike::EnsureChunk`; CpkSource's actions are called `Cpk...`) reads the chunk of the position and puts it
in front, `ReadDirect` reads what is longer than a chunk past the cache; each has
its `...Throws`. `lru` is the array of entries, `mem` the heap or the mappings by
address: an address that is freed holds nothing, so a dangling entry shows as
bytes no file has (`Huge`). The byte at position *p* is *p* itself, so two
positions cannot be taken for each other. A string may be read anywhere, whether
or not its slice has a zero byte, as `PreadCString` and its callers do not look for
one; where the loop leaves the slice, the assertion of `GetChunk` stops the program
(`AssertFails`). `UnixLike` starts as a mapped file, a
file read into the heap, a file mapped whole and closed, or memory. Slices are a
choice of range at every call.

### The game's files: CpkHandler

`CpkHandler` is the Windows hook around the game's own functions: `entry_vect` is
the game's vector of slots, `open` what the game believes it has open, `stage`
where in `OpenFile` the code is: `OpenTxtFile` (`GetSource`, the import, which
reads through a `CpkSource` on a slot of the same vector, `Imported`),
`OpenFsFile`, `OrigOpenFile`. The import's reads are CpkSource's actions, one per
iteration, and `EndImport(FALSE)` is an exception after any of them. A slot that
is closed keeps its handle, block and sizes, and `GetEntryVect` resets only what
the code resets.

Assumptions: the game calls from one thread (the code takes `crit_sec` only around
its own map; `GetEntryVect` runs without). Whether a file exists is a new choice at every
test. The game's functions are external: `OrigOpenFile` takes any free slot, a new
one only if there is none; `OrigCloseFile` keeps the rest of a slot. Names of files
are left out (`strncpy` to 260 characters with them), and so is `Init`.

### The Vita: Vita

`data` and `cache` are the two directories, `fi` where the game was sent, `request`
the step of `HookGetFileInfo`. The plugin ends the game with `abort()` on any
exception (`Abort`); `Crash` is that, or the power, anywhere. The cache is written
in place, so it can hold a part of a file then; `Init` erases it (`Erase`, a file
at a time, can be interrupted, too). `Sink::ToFile` is a `SimpleSink` on the Vita,
whose destructor swallows a last flush that fails: `FlushFails` leaves a shorter file
(`state` is "short") and goes on as `Dump` does. Assumptions: the player edits the directory
only while the game is off; a lookup that failed, or for which the FsBinder gives
no handle, changes nothing. `.orig` dumps for debugging are left out. No fairness:
nothing is promised but what is served.

### Scripts: ItemTree, LabelledFile

The unit of size is the four bytes that STCM data consists of; a unit's value is
where it was in the file, `Edited` is the text of a new string. `t` is the whole
tree: children, kinds, own bytes, positions, pointer map `pmap`, labels. Each
action is one call a parser makes: a label is created from a file offset
(`CreateLabelFallback`), an item from the raw bytes at a label
(`CreateLeaf`, `CreateData`, `CreateExpansions`, `ReplaceEof`, `StringReplaced`),
with every split, move of children and pointer map update this causes. Real
parsers make these calls in the order the file dictates; here any order is
allowed, which covers all of them. Then `ReadTxt` replaces strings, `Gc` collects
raw items nobody points to, `Fixup` assigns positions.

Assumptions: `LabelsFit` (no label points past the header of a typed item that
replaces raw bytes; `AsChecked0`, `item_base.hpp:53-72`, asserts it where the
parsers follow a pointer) and that no label points into a string when it is made
an item. Names of labels are symmetric. `CreateOrSetLabel` and dummy labels are
used by Lua scripts only and are left out. What kind of item the bytes become is a
free choice here; in the next modules it is the file's.

### Files of both formats: ScriptFile, StscOpcodes, Stsc, Stcm, Scripts

`ScriptFile` adds to the tree the file it is made from and `calls`, the recursion
of the parsers: what the C++ stack holds, the next call first. An action makes one
call of a `CreateAndInsert` (`CreateStscInstruction`, `CreateLink`, …) or finds
what is there (`Found`, `MaybeCreate`), and pushes the calls this makes.
`Throws` is an exception or a failed assertion, the end of the constructor.
`StscOpcodes` is the table of `InstructionMap`: how long each of the 256 opcodes of
either flavor is, which fields are offsets to strings, code or data, and whether
the next instruction is reached. `Stsc` has the header, the four classes of
instructions, and `ReadTxt_`; `Stcm` the header, collection links, expansions, exports,
instructions with their parameters (`Variant`, `DumpParam`), data, and the
heuristics for strings and `Gbnl`s. `DumpedStsc`, `DumpedStcm` are the files
`Dump_` writes: the offsets and lengths of the tree, and zero where an item keeps
nothing; all else as it was read. `Scripts` opens a file, imports texts, collects
garbage, fixes up, in any order, saves, and opens what was saved.

A byte is the unit in STSC, four bytes in STCM. A label is made once for a place
(the code makes more that move together). Failed assertions end the constructor,
as in a build with assertions; so do data that are to be a string and have no zero
byte, or into which a label points already (`Item::Dispose`). Files with items of no
bytes in the middle are not among those that are opened. The string heuristic comes
before the one for tables, the order in which they register; it counts the bytes of
the text (`WordBytes`), and so takes strings with a whole unit of padding, which the
dump does not write (`StringReplaces`). Other strings of STCM files end in the last
byte of a unit, a bound. A parameter may point to the padding that is lost.

### Archives: Cl3, Cl3Tool, ArchiveStore

`Cl3` has operators only: the real sizes of the structures, `Fixup`, `GetSize`,
the headers `Dump_` computes (`Sections`, `FileEntries`, `LinkEntries`), where
the sink really is when it writes (`Written`), and `Parse` with its `Validates`.
A dump is a record of both, so an offset in a header that is not where the data
went shows as data that cannot be read. Content of a file is its length. Links
are weak pointers: ids of entries, which may have been erased. Byte order: a
word written in one order and read in the other becomes too large (`Word`).

`Cl3Tool` is `stcm-editor` at work: one command at a time on one archive, each
step of it an action: `Pack` … `UpdateFile` (any order of the directory) …
`EraseMissing`, `FixupAll`, `DumpTemp`, on Windows `RenameAway`, `Rename`;
`Unpack`/`ExtractFile`; `ImportText`/`ReadTxt`; `Session` with its options and
`Save`. `Stop` ends a command anywhere: normally, by an exception, or by a crash.
`ArchiveStore` has no offsets, no temporary file and no crash: a command replaces
the whole list of files, or nothing. `EditFolder`, `TakeOut`, `Recover` are the
user.

Left out: entries without a source (`src` null, only Lua makes them), sizes of
4 GiB and more, `--save` onto the file that is open, failing dumps that leave a
temporary file (nobody reads it), the Vita, which writes in place.

### Texts: Gbnl, GbnlText

`Gbnl` has the table, `RecalcSize`, `GetSize`, `Dump` and `Parse`. Fields are
numbers of some size, strings elsewhere (`offset` −1 is null), strings in place,
padding; a text is a sequence over `Char`, in which `n` is LF and `r` CR. What a
file of the game has is `IsType` and `IsTable`. Byte order, the bits of floats and
flags do not interact with anything here and are left out. `Dump` keeps
what the header says beside where rows, descriptors and strings are written;
`saved` is the set of files there are, of at most one.
`GbnlText` edits a table: `SetString` and `RemoveMessage` are what a script does
through the Lua bindings; `OpenTxt` picks a text file as `WriteTxt_` writes it and
a translator leaves it (a block changed, deleted, moved, its id unknown, a line
before the first block, no `EOF`), and `ReadSeparator`, `ReadText`, `ReadEof`,
`ReadNothing` read a line each, throwing where the code throws; `Save` is `Fixup`
and `Dump_`, `Load` is `Parse_`.

Assumptions: types are as `Parse_` makes them, in particular strings in place have
at least five bytes; they end in a zero byte; no text has a line that looks like
a separator; simple ids name fields that exist. `STRTOOL_COMPAT` is false, as in
the source.

## Runs

| run | module | what it asks | bounds |
| --- | --- | --- | --- |
| simple_stream | MCSimpleSink | does a buffered sink keep the stream, whatever throws | 8 bytes, buffer of 3, two byte values |
| simple_pad | MCSimpleSink | *violation*: a pad loses a chunk | 7 bytes, buffer of 2 |
| mmap_stream | MCMmapSink | does the window stay in the file, and the stream in the window | 8 bytes, windows of 3 |
| source_cache | MCUnixLike | is a cached source a read-only file | 7 bytes, chunks of 2, cache of 2, three addresses |
| cpk_read | MCCpkSource | *violation*: bytes of another position | 6 bytes, chunks of 2 |
| cpk_handler | MCCpkHandler | do slots and chunks survive imports that fail, is a file read from what it was opened as | file of 5 bytes, chunks of 2, cache of 2, three addresses, two open files, reads of 3 |
| item_tree | MCItemTree | is a file that is taken apart the same file | 4 units, 6 items, 2 labels |
| scripts | MCScripts | do the parsers end, reach everything, keep every field; does an edited script open again | 651 files of 120 units, 12 labels, 24 items |
| cl3_pack | MCCl3Tool | does a command replace the archive at once or not at all | two names, lengths 0 and 65, two links per entry |
| cl3_order | MCCl3Tool | *violation*: archives of the other byte order | the same |
| gbnl_text | MCGbnlText | do imports change what they name, are saves read back | three tables, three texts, two edits |
| vita | MCVita | is the game sent to whole files, and to the same ones | two names, one file, two texts that fit and one that does not |

Why the bounds are enough. *Sinks*: a call meets a buffer that is empty, part
full or full, and its rest is shorter than, equal to or longer than a buffer, with
and without a remainder; 8 bytes with a buffer of 3 have all of these, twice in a
row. Two byte values tell zeros of a pad from data. *Sources*: four chunks, the
last of one byte, over two entries: hits, misses, evictions of a chunk in use,
the short chunk, and files of one chunk when mapped whole. *Slots*: two open files
and an import let a slot be new, the game's, the import's and the game's again, in
every order. *Items*: a file of four units can be split in raw, typed, nested and
raw again, six items leave room for a node with two children and raw pieces at
both sides; two labels are enough for one inside and one behind a piece.
*Scripts*: the files are chosen, not enumerated: every opcode of both flavors with
its offsets to a string and to code; every kind of branch, back, forth, into itself,
into the middle of an instruction and into a string; headers and ends of file that
are right and wrong by one; every kind of parameter with valid and invalid second
and third words; links, names and expansions in front of, behind and inside of
what refers to them; texts that grow, shrink, are too many or too few. Texts and
garbage are chosen so that files of the old length, with everything moved, are
saved and opened again. Strings of two and three units have padding of 0, 1,
3, 4, 5 or 8 bytes, of zeros and others, or no end at all. A switch is flagged by 4 and counted with
1 in place of 0x8000 and 0x7ff, which files of this size cannot reach; the bit 2 stands
for those between (no count has bits above the flag). *Archives*: a length of
0, and one that spills over a multiple of 64; every file present, absent, first or
second; links to itself, to the other, twice, and to an entry that is gone.
*Texts*: the three forms of `GetId`, a shared, an empty and a null string, a string
in place; two edits let an import that threw be followed by another change and a
save. *Vita*: two files keep their lookups apart; a text that fits, one that does
not; a last flush that fails leaves any shorter length.

Deadlock is checked except where the program stops: sinks, sources and providers
end destroyed, and source_cache and cpk_handler where the assertion of `GetChunk`
fails, for a string without its zero byte; in cl3_order an archive no command can open
stops everything.

**Fairness.** Only `source_cache` has a liveness property, `CallsEnd`: every call
ends, but for a string without its zero byte, whose loop has no end. It assumes
weak fairness of `Step`, one iteration of the loop of the call in progress: the
caller's thread runs the call to its end, nothing else can block it. That parsing
ends is `ParseEnds`, a measure that decreases at every step, which needs no
fairness.

### Properties worth a note

- `AcknowledgedInPlace`/`AcknowledgedInFile`: even after an exception in the
  middle of a call, bytes of earlier calls are, or will be flushed, at their place.
- `ImplementsReadOnlyFile`: whatever failed or was cached before, an answer is the
  file's bytes.
- `SlotsInUse`, `VectorBounded`: an import that fails anywhere gives its slot back.
- `ReadsWhatWasOpened`: a slot that still holds the handle and block of the last
  file never shows them to the next.
- `UnparsedFound`: an offset into bytes not parsed yet finds the raw item that
  has them; it is what `MaybeCreate` relies on.
- `ImplementsLabelledFile`: taking a file apart is no step at all for its content
  and its labels; replacing a string moves exactly the labels behind it; a
  collection takes no unit a label points to.
- `ReachedCodeParsed`: whatever is called, jumped to, fallen into or named by a
  parsed instruction is an item of the right class, in whatever order the parser
  met it.
- `ChunkInSlice`: a loop over `GetChunk` asks for a chunk behind its slice only for a
  string without a zero byte, and never for any other call or slice. The assertion can
  fail; the property says exactly when.
- `DumpKeepsFile`: a script that is opened and dumped is the same, field by field, but
  for the two losses of the code it names: a unit of zeros behind a string, with which
  the offsets behind move and the lengths of the string change, and the bits of a
  flagged switch that are neither counted nor its flag. It takes
  every number that equals an offset behind the padding for one, as it is in these files. `ParseKeepsFile`, `LabelsFollow` name the same lost units, and
  `DumpOpensAgain` that a string of one unit is no string when it is read again.
- `DumpOpensAgain`: a script whose texts were replaced and garbage collected opens
  again, with the same items and targets where they were dumped.
- `ArchiveSurvives`, `ImplementsArchiveStore`: whatever stops a command, a whole
  archive is left, old or new.
- `ImportComplete`: a text import that reaches its `EOF` changes the texts its file
  names, to what was written, and no others, in whatever order the blocks are.
  It is claimed only for tables whose ids are distinct (`DistinctIds`): two
  strings in place in a message, or numbers that repeat, have the same id, and
  `FindDst` then gives all texts to the first.
- `ServesPlayersFile`, `SameAnswer`: the game never gets a text that was changed
  since, or what an earlier run left in the cache, and always the same; a part of a
  file, or another size than before, only where this run's own import lost its last
  flush.

## Findings

1. `sink.cpp:170` (simple_pad): `SimpleSink::Pad_` writes one chunk too few when
   the rest of the pad is a positive multiple of `MEM_CHUNK`. `MmapSink::Pad_` is
   wrong too when a pad ends the file by whole chunks (`sink.cpp:92-115`: `buf_put`
   stays).
2. `windows_server/cpk.cpp:100` (cpk_read): a chunk read at `coffs` is pushed under
   `offs`. The code of the repository reads the beginning of a file first, which
   hides it for files of one chunk.
3. `format/cl3.cpp:405` (cl3_order): the second section header is written without
   conversion; `format/cl3.cpp:254` reads links without one. Archives of the other
   byte order cannot be read after they were saved.

## Known limits

Where the code is not right, or right only for the files that exist. The models leave
these cases out by an assumption unless they say otherwise:

- `format/item.cpp:118`, `format/stcm/expansion.cpp:58`: an item of no bytes in the
  middle of a file takes the place of what follows it in the pointer map. With
  `Odd = {"empty"}` item_tree violates `UnparsedFound`.
- `format/stcm/string_data.cpp:26`: a padding of four bytes is accepted and lost,
  although the comment at 28-30 wants no information lost and `doc/formats/stcm.md:79-81`
  knows padding of at most three. What is behind moves, and a string of one unit that is
  dumped so is read as plain data (`string_data.cpp:17`). `scripts` has such files, and
  its properties allow this loss and no other; item_tree has none, and violates
  `ImplementsLabelledFile` with `Odd = {"padded"}`.
- `source.cpp:169-182`: `PreadCString` of a string without a zero byte in its slice
  runs into the assertion of `GetChunk`, or, in a build without assertions, asks for the
  same empty view for ever. Its callers (`cstring_item.cpp:11`,
  `stsc/instruction.cpp:200`, `stcm/string_data.cpp:24`) do not look for one. The models
  stop there.
- `vita_plugin/cpk.cpp:127-129`, `sink.cpp:118-127`: when the last flush of the cached
  file fails, `~SimpleSink` logs it, `Dump` (`dumpable.cpp:48`) returns, and the game is
  sent to a part of a file in the size of the whole; a later lookup gives the size it
  has (`cpk.cpp:102`). `ServesPlayersFile` and `SameAnswer` allow this case and no other.
- `format/item.cpp:125`: a label that points into a string when it is made an item makes
  the assertion fail; a build without assertions leaves it pointing to a freed item.
- `format/stcm/string_data.cpp:36`: data that was made a string is no `DataItem`
  any more, and a second instruction that uses it makes the parser refuse the file
  (`MaybeCreate<DataItem>`). The model does the same. `doc/formats/stcm.md:138`
  knows no such limit.
- `format/stcm/header.cpp:22`: the check of the export table is strict, so that a
  table at the very end of a file is refused; if `Gc` takes what was behind it, the
  dump does not open again. The files of `scripts` have their link behind it, as
  `doc/formats/stcm.md` orders them.
- `format/stsc/instruction.cpp:505`: a switch with a default counts its flag as
  cases when it is checked against the rest of the file, which then has to be
  262144 bytes longer; and `format/stsc/instruction.cpp:543` counts with 0x7ff
  where the flag is 0x8000: bits in between are lost in a dump. The files of `scripts`
  have one, and `DumpKeepsFile` allows this loss.
- `format/stsc/instruction.cpp:319`: the recursion is as deep as a run of instructions
  is long.
- `format/stcm/header.cpp:22,26`: the difference wraps when a table cannot be in the
  file; its items then do not fit, and the file is refused all the same.
- `doc/formats/stcm.md` says of COLL_LINK that the third word must be 8; the code
  requires 0, and so does the model.
- `README.md:80` of the repository says that after an import error the game's own file
  is used; the code tries a file outside of the archive first, and shows a message.
- `vita_plugin/cpk.cpp:157`: `fs_binder_handle_create` is called twice when the
  first call failed. `compr_size` larger than `uncompr_size` is not checked.

## Proofs

All with TLAPS, for every value of the constants that the named assumptions allow.

`SimpleSink_proofs`, for every size, chunk, set of bytes and bound on the length of
calls (`SinkAssumption`, `SimpleSinkAssumption`):

| theorem | says | assumes |
| --- | --- | --- |
| `TypeCorrect` | `Spec => []TypeOK` | – |
| `OffsetKept` | `offset` never passes what was appended | – |
| `StreamKept` | file up to `offset`, then buffer, are what was sent | `SafePads` |
| `AcknowledgedKept` | the same for acknowledged bytes after exceptions | `SafePads` |
| `Implements` | `Spec => Stream!Spec`, every step is a step of ByteStream or none | `SafePads` |

`SafePads` must be assumed: finding 1 is its negation.

The argument. `TypeOK` is inductive by itself; its lemmas follow the calls
(`ToppedUpType`, `IoWriteType`, …, one per helper of the model). `StreamInFileAndBuffer`
speaks of the sink between calls that returned, and is inductive with `TypeOK`.
Its cases are the three ways a call can spill: into less than a buffer
(`ShortSpillStream`), into more (`LongSpillStream`), and a pad (`LongPadStream`,
which rests on `PadChunksExact`: the loop writes exactly the whole chunks of a
length that is no multiple of one; this uses the lemma `Division`, that quotient
and remainder are unique). `AcknowledgedInPlace` is not inductive alone: that a
call that throws leaves the earlier bytes in place depends on where they were
before it, which is `StreamInFileAndBuffer`, and with torn writes it claims
nothing (`torn`); so it is proved with both. `Implements` uses the two states'
invariants for every step, and the abstract `tell` is `Tell`.

`MmapSink_proofs`, for every size, window, limit, set of bytes and bound
(`SinkAssumption`, `MmapSinkAssumption`); all assume `SafePads`:

| theorem | says |
| --- | --- |
| `WindowKept` | `[]WindowInFile`: no `memcpy` or `memset` leaves the mapping |
| `AssertionsHold` | `[]SpillAsserts`: the assertions of `Write_`, `Pad_` and `MapNext` hold whenever a call overruns |
| `StreamThenZerosKept` | `[]StreamThenZeros` |
| `AcknowledgedKept` | `[]AcknowledgedInFile`, whatever threw later |
| `Implements` | `Spec => ImplementsByteStream` |

`WindowInFile` needs `Window`: where the window is between calls (all of a small
file; else at `offset`, as long as `MMAP_CHUNK` or what is left), from which a call
that overruns has room behind the window (`Overrun`). `StreamThenZeros` is part of
the inductive invariant `WindowInv`, since `Pad_` skips what it does not map and
`Implements` needs zeros there (`PadOverruns`). The three copies of a `Write_` (into
the old window, directly, into the next) put one piece behind the stream (`CopyCopy`).

`Source_proofs` begins with the lemmas on the cache and the loops that the providers
share. Of UnixLike, for every size of file, chunk, limit, cache and heap
(`SourceAssumption`, `UnixLikeAssumption`):

| theorem | says |
| --- | --- |
| `ChunksOwned` | `[]CacheOwnsChunks` |
| `EntriesKept` | `[]EntriesAreChunks`: distinct aligned chunks, of bounded size while the file is open |
| `OpenWhenRead` | `[]ReadsOpenFile`: a miss on a closed file is impossible |
| `ChunkAsked` | `[]ChunkInSlice`: only a string without a zero byte in its slice makes the assertion of `GetChunk` fail |
| `Implements` | `Spec => ImplementsReadOnlyFile`: what is cached, or failed before, never shows in an answer |

The inductive invariant `FileInv` says what each call has delivered (`SoFar`: the
file's bytes from its start), where control can be (`CallType`), that chunks are
owned (`Owned`) and in their place (`InPlace`), and that an open file is cached in
aligned chunks, none twice, a closed one as a whole (`Cached`). `LoadChunk` keeps
`Cached` because a position is in one aligned chunk only (`SameMultiple`) and a miss
means that no entry covers it (`NoneCovers`); `CpkSource` has no such argument.
`PreadCString` (`FirstZero`) uses that a set of numbers has a least one.

Of CpkSource alone, for every size of file, chunk, cache and heap (`SourceAssumption`):

| theorem | says |
| --- | --- |
| `CpkChunksOwned` | `CpkSpec => []CacheOwnsChunks`: the cache owns what is allocated, each chunk once |
| `ReadsInsideChunks` | a copy out of a cached chunk never leaves it, wherever the entry claims to be |

`CacheOwnsChunks` is not inductive: that the chunk an entry loses was not another's
needs that an entry in use is as long as its chunk and a free one empty, and that
nothing follows an empty entry; that the loop goes on needs where it is. The
inductive invariant is `CpkCacheInv`: types of the cache (`CacheType`) and of the loop
(`LoopType`), chunks that lie in the file (`ChunksInFile`), what has been delivered
(`Delivered`), ownership (`Owned`), and that all is free once destroyed. It says
nothing of the *position* of an entry, which finding 2 shows to be wrong; that is
why `InsideChunk` is worth a theorem: the wrong bytes are never bytes outside.

Of CpkHandler, for every number of files and slots in addition
(`CpkHandlerAssumption`):

| theorem | says |
| --- | --- |
| `NoSlotLost` | `[]SlotsInUse`: the slots that are valid are the open files and the import, no other |
| `NoSlotTooMany` | `[]VectorBounded`: the vector grows only as far as files are open at once |
| `ReadsOpened` | `[]ReadsWhatWasOpened` |
| `ImportChunksOwned` | `[]CacheOwnsChunks` through every import, also one that follows another |

`SlotsInv` adds to the three invariants the types (`SlotsType`) and what each stage
of `OpenFile` knows of its slot (`Opening`). `VectorBounded` is a counting argument:
a new slot is made only if all are in use, and those are at most `MaxOpen` - 1 then,
as `GetEntryVect` is called with room for one more file (`FiniteSetTheorems`). The
import's reads are CpkSource's steps, so that `CpkCacheInv` is taken over as it stands;
only the start of an import and its end are new steps.

`Vita_proofs`, for every set of names, files and texts (`VitaAssumption`):

| theorem | says |
| --- | --- |
| `PlayersFileServed` | `[]ServesPlayersFile`, flushes that fail included |
| `OneAnswer` | `Spec => SameAnswer`, an action property: only an import that lost its last flush changes its size |

`Inv` is `TypeOK`, `OnlyWhenOn` (nothing is open while the game is off),
`CacheOfThisRun` (a file in the cache is an import of what the player has there; if it
is not being written it is whole and as long as it should be, or lost its last flush),
`SoFar` (the one that is written is that of the lookup in progress)
and `ServesPlayersFile` itself. `CacheOfThisRun` is what an interrupted `Init` has to
establish again, and it holds only because nobody edits while the game is on.

`Cl3Tool_proofs`, for every set of names, lengths and archives (`Cl3ToolAssumption`:
the archives of the game are archives, no name is in one twice, and their links lead
to entries):

| theorem | says |
| --- | --- |
| `DumpTakesItsSize` | `Spec => SizeReserved`, an action property: a dump is as long as `GetSize` said |
| `DumpIsReadBack` | `Spec => DumpReadsBack`: a dump validates, and parses as the same files and links |
| `OneArchiveSurvives` | `[]ArchiveSurvives` |
| `Implements` | `Spec => ImplementsArchiveStore`: a command replaces the archive at once, by what it should, or not at all |

They assume `NativeOrder`, that the game's archives are in the byte order of the
machine (finding 3, run cl3_order, is what happens otherwise), and `FilesApart` (the
last one `ListingsApart`, too): no archive, and no list of its files, is one of the
values `Absent` and `Torn` that stand for no whole file.

The argument. The layout is computed three times, by recursive functions: from the
lengths in `Fixup`, from the headers' start in `Dump_`, and by where the sink is.
`Recursion` says that such a function has the values its definition says, and
`Induction` proves something of all of them; both rest on `Least`, that a set of
numbers has a least member, taken of the counterexamples. `Moved` and `WrittenAt` then
say that the three agree, because every start is a multiple of 64 and so is left out
of the rounding (`RoundedFrom`); `DataInOrder` that data do not overlap; `Flattened`
and `LinkList` that an entry's links are where its `link_start` says. From these,
`EntriesRead`, `LinksRead` and `SectionsRead` give `DumpParses`: what `Parse_` makes of
a dump is `ReadBack`, the archive with its entries numbered anew. The invariant of the
tool, `ToolInv`, says that every file is such a dump, or missing, or torn (`DiskInv`),
and that the archive in memory is one (no two entries have an id, which needs
`FreshIdIsFresh`, a counting argument, and `Erased`), with its counters up to date from
`FixupAll` on (`CommandInv`). That the temporary file is whole while the archive has
no name is part of it.

That the tool implements ArchiveStore needs to know where the archive in memory came
from. `StoreInv` says that no archive has a name twice, on the disk or in memory; that
the archive a command has read is still there while the command works; that while the
directory is listed, the entries that were read are where they were, with their ids and
links, and the new ones are behind them and have none (`Listed`; `ListingGoesOn` is one
file of the directory, in any order); and from then on that what is in memory, if no link
of it dangles, is what may replace the archive (`Replaces`). Between the two is
`ListedPacked`: `Erase` leaves the other entries in their order (`Erased`), and a link of
one that stays leads to the name it led to, because it does not dangle and ids are not
used twice (`LinksStay`). A step then is one of ArchiveStore's as follows: `RenameAway`
or `Rename`, whichever comes first, is `Pack` or `Import` (`StoreReplaced`), `Save` is
`Save`, a stop that leaves a torn file is a `Save` of it, `TakeOut` is `Install` or
`Discard`, and all others change no list: they are `Edit`.

`ItemTree_proofs`, for every size of file, number of items and finite set of names
(`ItemTreeAssumption`; a file needs at least two items, its RawItem and its EofItem):

| theorem | says | assumes |
| --- | --- | --- |
| `Owners` | `[]ItemsOwned`: one owner each, and nothing refers to what is freed | – |
| `Finding` | `[]UnparsedFound`: `GetPointer` finds the bytes that are not parsed yet | no `"empty"` |
| `Invariant` | `[]Inv`, the inductive invariant behind both | – |

Neither property is inductive. `ItemsOwned` counts places in lists; what the operations
keep is that an item is in a list exactly if it is alive and in one place at most
(`Owned`, with a set of items that may be `loose` while an operation is under way),
that lists, labels and map have items only, that a raw item has no children, and that
a key of the map is the position of its item (`Shaped`; `Removed` takes an entry out
only if it is the item's own, so that a wrong key would survive its item). `Whole` is
both; it holds in every phase. While the file is parsed, `Regular` says where things
are: raw items share no byte and no other item starts inside one, where one ends is a
key, as are 0 and `Size`, and a label of a raw item is inside it. `Keyed` says that a raw
item at the top of the file is in the map under its position. `UnparsedFound` follows:
the last key up to an offset into a raw item is the item's own, since any other lies
before or behind it (`KeyedFound`). `Keyed` is what an item without bytes breaks: it
takes the key of the raw item it is cut out of (`emplace` never overwrites), and TLC
shows the same once `Odd` has `"empty"`. It is the reason for the hypothesis, and for
the hazard at `item.cpp:118`.

The operations are nested definitions over a record, so each has a predicate that says
point by point what it does (`Replacing`, `Slicing`, `Cutting`, `Moving`), and lemmas
that it is so (`ReplacedFields`, `SlicedFields`, `SplitCuts`, `MovedFields`) and that
this keeps the invariant (`ReplacedGood`, `SplitGood`, `MovedGood`; `SplitKeyed` for
the keys). `Exchange` is the lemma on lists they share: if some items of a list are
put in place of one, every item is still in one place. What is under an item is a
recursive function (`UnderEquation`: it has the values its definition says, as there
are sets closed under children). `WithExpansions` and `Gc` recur along a list:
`ExpandedEquation` and `KeptEquation` say that their functions exist, `ExpandedKeeps`
and `KeptSifted` what they have done after each step.

`ItemTreeLayout_proofs`, under the same assumptions, and for `Odd = {}`: no item of no
bytes in the middle of the file, no string followed by a row of zeros. The
first hides an item from `GetPointer`, the second leaves a gap that the dump has not:

| theorem | says |
| --- | --- |
| `Inside` | `[]PointersInside`: every offset of the file finds the item that has a byte there |
| `Dumping` | `[]DumpedPointers`: what is written for a label is where the dump puts what it points to |
| `Implements` | `Spec => ImplementsLabelledFile`: taking the file apart and `Fixup` move no unit and no label, another text moves exactly the labels behind it, the collection drops no unit a label points to |

The invariant is `Placing`: `Inv`, and where items are. An item starts where the one
before it in its list ends, the first child where what its parent has itself ends, and a
parent ends where its last child does (`LaidOut`; `Row` is that of one list). No item is
under itself (`Layered`: some number grows from every item to its children). Every item
but a first child is in the map under its position (`Indexed`: a first child can have the
same position as a parent without bytes of its own, an ExpansionsItem, and then only one
of them can be in the map). Only where the file ends are there items of no bytes
(`Bulky`, `EofEmpty`). While a node is made, one item is not found yet and one has no
bytes yet: `Layout(s, lost, thin)` names them.

Every operation keeps the layout: `RowSpliced` is the lemma on rows they share, an item
of a row replaced by a row in its place. After an edit nothing is said of positions until
`Fixup`, which computes them anew: `FixedAt` unfolds its recursive function, `Fixing` are
the positions it gives, and they are in order whatever the tree is (`Ordered`).

What a dump of a subtree is, is a recursive function over the tree with another over its
list of children inside. `Layered` makes the first one exist: `Built` builds it up level
by level, `Gathered` is the inner one. `Measured` says that the dump of an item is as long
as the item in the layout, so that `SizeOf` in `Fixup` is the distance between
positions. For `DumpedPointers` the items in the order of a dump are such a function too
(`InOrder`, `OrderRow`); `Running` says that in this order each item starts where what
those before it have themselves ends, which is the offset `TargetsIn` computes.

`Implements` is the refinement of LabelledFile, step by step. While the file is parsed,
the invariant also has that the bytes of an item are those of the
file at its position (`Holding`), so that the dump is the file (`DumpedShows`); and a
label's target is the position it has in the layout (`OrderedDumped`). It
remains that no operation changes the position of a label that is there
(`PointingPointed`: what a split or a replacement moves into another item moves with its
offset), and that the labels of `CreateExpansions` are made for offsets one behind the other
(`LabelMade`, `RowPointed`).

From the first edit to `Fixup` the positions in the tree are the old ones, so they do
not say where a dump puts anything. `Settling` is `Placing`, and that there is a tree `v`
that differs from the model's in positions only and has every item where a dump puts it
(`Settled`): items lie one behind the other (`Ordered`), labels are inside their item
(`Held`), only at the end of the file are there items without bytes (`Closing`), and a
label that by the old positions is not behind a child of its item is not behind it in
`v` either (`Tracking`: `LabelsFit`, what an edit of a string relies on, is stated with
the positions of the tree, which may be old by then). `SettledTargets` says that the targets
LabelledFile sees are where `v`'s labels point. An edit then renumbers places:

- `ReadTxt` by a function `Bump(h, ..)` that leaves what is before the string alone
  and moves what is behind it. `WrittenExists` makes the new `v`, `WrittenSettled`
  keeps the invariant, `WrittenContent` and `PieceReplaced` make it a `Rewrite`.
- `Gc` by a function that counts the units that stay (`Sieving`, `Remaining`,
  `Counting`). A raw item no label points to is all that goes, so `SievedSettled` keeps
  the invariant and `SievedLabels` makes it a `Collect`.
- `Fixup` writes the positions of `v` into the tree (`OnePlace`: two trees with the same
  lists that lie in order have the same positions; `FixedSettled`), so it is no step.

`GbnlText_proofs`, for every set of tables, characters and texts
(`TablesAssumption`: the tables of the game are tables; `CharAssumption`: LF and CR are
characters; `WordsAssumption`: texts are made of characters):

| theorem | says |
| --- | --- |
| `Shape` | `[]TypeOK`: whatever is edited, imported, saved and loaded is a table |
| `Asserts` | `Spec => DumpAsserts`: the assertions of `Dump` hold |
| `RoundTrip` | `Spec => SavedReadsBack`: a file is read back as the table it was saved from |
| `Imported` | `Spec => ImportComplete`: an import writes all its texts where their ids say, and nothing else |
| `Invariant` | `[]IInv`, the inductive invariant behind them |

What is said of dumps needs no invariant beyond that the table is one: it is about
what `RecalcSize`, `Dump` and `Parse` compute. `RecalcSize` gives every text the place
of the first equal one, and places are sums of lengths (`Sums`, `Flattened`). `Dump_`
knows nothing of that: it writes a text when its offset is where the sink has got to.
`WalkIsPlaces` says that it so writes exactly the texts that were counted, each where it
was counted; `DumpAsserted` follows with the roundings of the layout. What is
read is found in three parts: the fields of the type in the descriptors, with the gaps
between them as padding or as strings in place (`TypeRead`); the cell at the offset of a
row and field, as cells of a file lie one behind the other (`CellFound`); the text
at a place, as the places of different texts differ (`StringFound`). `ReadsBack` puts
them together; `Leads` and `Validated` say that every offset leads to what was
written there, and that the file is accepted.

`ImportComplete` is about a loop over lines, and not inductive. `IInv` is that the table
is one and `saved` holds dumps of tables (`SavedOK`); that there are no lines while
nothing is imported; and, while a file is, that the table differs from the one before
only in what has been said so far (`JobOK`, `TextsSay`), and that the reader is before
the first block or inside one (`Within(b, m, r)`: block b, m of its lines read, the rest
as the lines that are left): then `pos` is a cell with the id of that block, and `msg`
is the block's text up to there. `BlockEnded` and `BlockSaid` carry it over a separator,
`LineAdded` over a line. Distinct ids are a hypothesis of `ImportComplete` as it is
stated, and needed: the reader stops at the first cell from where it is that has an id.

Liveness (`CallsEnd`) is out of the prover's reach. Only model-checked are the
properties of `Scripts`, whose parsers are recursive.

## Not modelled

- **`CpkHandler::Init`, `Init` of the Vita plugin, server, hooks, launcher**: patch
  the process they are loaded into; Windows and Vita API and machine code.
- **Patterns**: a pure search over machine code, used by these only.
- **DynamicStruct, Lua bindings**: memory layout and generated code; items,
  tables and archives made by Lua, dummy labels.
- `Sink::ToFile`'s fall back to a buffered sink and `ToStdOut`; `Source`'s stream
  adapters; `CheckSize`, which compares with the provider and not the slice
  (`source.hpp:83`; the read that follows asserts); inspection (`Inspect_`), which
  only formats.
- In `stcm-editor`: saving onto the file that is open, sessions on scripts, the
  options for inspection and Lua.

## Plan

Done, in this order: sinks with their proofs; sources and the game's; the item
tree; archives and the tool; tables of texts; the parsers and dumps of both script
formats over the tree; the hooks' slots and the Vita's cache, with proofs of both,
of the sources, of the archives, of the item tree with its layout and its refinement of
LabelledFile, and of the tables of texts.

Left, the most useful first:

1. Proofs about `Scripts`: its parsers would have to be recursive functions over a
   set of states, as those of `ItemTree` are over its items.
2. `OpenFactory`, once a file of another format than expected is of interest: each
   parser refuses it, which the models have as `Throws`.
