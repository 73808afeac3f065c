-------------------------------- MODULE Cl3 --------------------------------
(* The CL3 archive (format/cl3.hpp, format/cl3.cpp): its entries in memory,  *)
(* the layout of the file they are dumped to, and how a file is parsed.      *)
(* Offsets and sizes are the real ones, in bytes.  The content of a file is  *)
(* its length: files that differ have different lengths here.  An archive    *)
(* stays below 4 GiB, so the 32 bit fields hold what is assigned to them.    *)
EXTENDS Naturals, FiniteSets, Sequences, SequencesExt

CONSTANTS Native,  \* the byte order of the machine, "L" or "B"
          Unset    \* a member no constructor initialises

HeaderSize == 24       \* sizeof(Header)
SectionSize == 80      \* sizeof(Section)
FileEntrySize == 560   \* sizeof(FileEntry)
LinkEntrySize == 32    \* sizeof(LinkEntry)
PAD_BYTES == 64

(* (n + PAD) & ~PAD *)
RoundUp(n) == ((n + PAD_BYTES - 1) \div PAD_BYTES) * PAD_BYTES

(* (PAD_BYTES - (n & PAD)) & PAD: the zeros Dump_ asks the sink for. *)
SinkPad(n) == (PAD_BYTES - (n % PAD_BYTES)) % PAD_BYTES

-----------------------------------------------------------------------------
(* In memory: [endian, entries, data_size, link_count].  An entry is         *)
(* [id, name, src, links]; links are weak pointers, so the ids of entries,   *)
(* which may have been erased since.                                         *)
Ids(c) == {c.entries[i].id : i \in DOMAIN c.entries}

NamesIn(c) == {c.entries[i].name : i \in DOMAIN c.entries}

(* What the archive says, whoever holds it: files in order, links by name.   *)
NameOf(c, id) ==
    LET i == CHOOSE i \in DOMAIN c.entries : c.entries[i].id = id
    IN  c.entries[i].name

Linked(c) ==
    \A i \in DOMAIN c.entries : ToSet(c.entries[i].links) \subseteq Ids(c)

Describe(c) ==
    [i \in DOMAIN c.entries |->
        LET e == c.entries[i] IN
        [name |-> e.name, src |-> e.src,
         links |-> [j \in DOMAIN e.links |-> NameOf(c, e.links[j])]]]

(* The offset of every entry's data, and of the end, from `start` on. *)
Offsets(c, start) ==
    LET at[i \in 1 .. Len(c.entries) + 1] ==
          IF i = 1 THEN start ELSE RoundUp(at[i - 1] + c.entries[i - 1].src)
    IN  at

(* The index of every entry's first link, and the number of links. *)
LinkStarts(c) ==
    LET at[i \in 1 .. Len(c.entries) + 1] ==
          IF i = 1 THEN 0 ELSE at[i - 1] + Len(c.entries[i - 1].links)
    IN  at

End(c) == Len(c.entries) + 1

Fixup(c) ==
    [c EXCEPT !.data_size = Offsets(c, 0)[End(c)],
              !.link_count = LinkStarts(c)[End(c)]]

FilesOffset == RoundUp(RoundUp(HeaderSize) + 2 * SectionSize)

DataOffset(c) == RoundUp(FilesOffset + FileEntrySize * Len(c.entries))
(* Mutant: the links are forgotten. *)
GetSizeMutant(c) == DataOffset(c) + c.data_size

GetSize(c) == DataOffset(c) + c.data_size + LinkEntrySize * c.link_count

(* An id that no entry has and no link refers to. *)
FreshId(c) ==
    LET used == Ids(c) \cup UNION {ToSet(c.entries[i].links) :
                                      i \in DOMAIN c.entries}
    IN  CHOOSE id \in 1 .. Cardinality(used) + 1 : id \notin used

GetOrCreateFile(c, name) ==
    IF name \in NamesIn(c) THEN c
    ELSE [c EXCEPT !.entries =
            Append(@, [id |-> FreshId(c), name |-> name,
                       src |-> 0, links |-> <<>>])]

SetSource(c, name, src) ==
    [c EXCEPT !.entries =
        [i \in DOMAIN @ |->
            IF @[i].name = name THEN [@[i] EXCEPT !.src = src] ELSE @[i]]]

(* entries.erase: the entry goes away, links to it dangle. *)
Erase(c, names) ==
    LET kept[i \in 1 .. Len(c.entries) + 1] ==
          IF i = 1 THEN <<>>
          ELSE IF c.entries[i - 1].name \in names THEN kept[i - 1]
          ELSE Append(kept[i - 1], c.entries[i - 1])
    IN  [c EXCEPT !.entries = kept[Len(c.entries) + 1]]

(* Mutant: the index an entry had when it was made. *)
IndexOfMutant(c, id) == id - 1

IndexOf(c, id) == (CHOOSE i \in DOMAIN c.entries : c.entries[i].id = id) - 1

-----------------------------------------------------------------------------
(* A file: the fields of its headers, and the pieces at the offsets where    *)
(* the sink was when they were written.                                      *)

(* Where the sink is when it has written the headers, *)
WrittenStart(c) ==
    LET table == FileEntrySize * Len(c.entries) IN
    HeaderSize + SinkPad(HeaderSize) + 2 * SectionSize + SinkPad(2 * SectionSize)
      + table + SinkPad(table)

(* and when it writes the data of every entry, and the links. *)
Written(c) ==
    LET at[i \in 1 .. Len(c.entries) + 1] ==
          IF i = 1 THEN WrittenStart(c)
          ELSE at[i - 1] + c.entries[i - 1].src + SinkPad(c.entries[i - 1].src)
    IN  at

(* The second section header is not converted: FromNative is given `hdr`. *)
Sections(c) ==
    LET links == DataOffset(c) + c.data_size IN
    <<[count |-> Len(c.entries), data_size |-> links - FilesOffset,
       data_offset |-> FilesOffset, order |-> c.endian],
      [count |-> c.link_count, data_size |-> c.link_count * LinkEntrySize,
       data_offset |-> links, order |-> Native]>>

FileEntries(c) ==
    LET offset == Offsets(c, DataOffset(c) - FilesOffset)
        link_i == LinkStarts(c)
    IN  [i \in DOMAIN c.entries |->
          [name |-> c.entries[i].name,
           data_offset |-> offset[i], data_size |-> c.entries[i].src,
           link_start |-> link_i[i], link_count |-> Len(c.entries[i].links)]]

LinkEntries(c) ==
    FlattenSeq([i \in DOMAIN c.entries |->
        LET links == c.entries[i].links IN
        [j \in DOMAIN links |->
            [linked_file_id |-> IndexOf(c, links[j]), link_id |-> j - 1]]])

Dump(c) ==
    LET at == Written(c) IN
    [endian |-> c.endian,
     sections |-> Sections(c),
     files |-> FileEntries(c),
     data |-> [i \in DOMAIN c.entries |->
                 [at |-> at[i], src |-> c.entries[i].src]],
     links |-> LinkEntries(c),
     links_at |-> at[End(c)],
     size |-> at[End(c)] + Len(LinkEntries(c)) * LinkEntrySize]

-----------------------------------------------------------------------------
(* Parsing. *)

(* A word read in the wrong byte order: from 1 to 2^16 - 1 it comes out as   *)
(* at least 2^16, more than the length of any file of the model.             *)
Word(n, written, read) == IF written = read \/ n = 0 THEN n ELSE 65536

ReadSection(f, k) ==
    LET s == f.sections[k] IN
    [count |-> Word(s.count, s.order, f.endian),
     data_size |-> Word(s.data_size, s.order, f.endian),
     data_offset |-> Word(s.data_offset, s.order, f.endian)]

(* The data at [offset, offset + size) of a file; bytes that no one piece    *)
(* wrote are no content of the model.                                        *)
Data(f, offset, size) ==
    IF size = 0 THEN 0
    ELSE IF \E i \in DOMAIN f.data : f.data[i] = [at |-> offset, src |-> size]
         THEN size ELSE Unset

(* The k-th entry of the table of links, if it is where the header says; it  *)
(* is not converted.                                                         *)
LinkAt(f, k) ==
    IF ReadSection(f, 2).data_offset = f.links_at /\ k < Len(f.links)
    THEN [linked_file_id |->
             Word(f.links[k + 1].linked_file_id, f.endian, Native),
          link_id |-> Word(f.links[k + 1].link_id, f.endian, Native)]
    ELSE [linked_file_id |-> Unset, link_id |-> Unset]

(* Section::Validate, FileEntry::Validate, LinkEntry::Validate *)
Validates(f) ==
    /\ \A k \in 1..2 :
         ReadSection(f, k).data_offset + ReadSection(f, k).data_size <= f.size
    /\ ReadSection(f, 2).data_size = ReadSection(f, 2).count * LinkEntrySize
    /\ \A i \in DOMAIN f.files :
         LET e == f.files[i] IN
         /\ e.data_offset + e.data_size <= ReadSection(f, 1).data_size
         /\ \A j \in 0 .. e.link_count - 1 :
              LET le == LinkAt(f, e.link_start + j) IN
              /\ le.linked_file_id \in 0 .. ReadSection(f, 1).count - 1
              /\ le.link_id = j

Parse(f) ==
    [endian |-> f.endian,
     entries |->
        [i \in 1 .. ReadSection(f, 1).count |->
            LET e == f.files[i] IN
            [id |-> i, name |-> e.name,
             src |-> Data(f, ReadSection(f, 1).data_offset + e.data_offset,
                          e.data_size),
             links |-> [j \in 1 .. e.link_count |->
                LinkAt(f, e.link_start + j - 1).linked_file_id + 1]]],
     data_size |-> Unset, link_count |-> Unset]
=============================================================================
