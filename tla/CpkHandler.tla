------------------------------ MODULE CpkHandler ------------------------------
(***************************************************************************)
(* The hooks in the game's CpkHandler (windows_server/cpk.cpp), between    *)
(* the game, which opens, reads and closes files of its archives by the    *)
(* index of a slot of entry_vect, and the game's own functions, which do   *)
(* the same.  OpenFile tries three things in turn: a text to import into   *)
(* the file, a file of the same name outside the archive, and the game's   *)
(* own OpenFile.  The import reads the original through a CpkSource, that  *)
(* is through a slot of the same vector, and can fail anywhere.            *)
(*                                                                         *)
(* The game calls from one thread.  Which files exist is looked up again   *)
(* by every test, since the player may edit them while the game runs.      *)
(***************************************************************************)
EXTENDS CpkSource, Sequences, FiniteSets

CONSTANTS
  MaxOpen,      \* how many files the game has open at most
  ImportSize,   \* the size of a file with a text imported
  LooseSize,    \* the size of a file outside the archive
  Ops,          \* the calls the import makes on its source
  ReadSizes     \* how much the game asks Read for

ASSUME CpkHandlerAssumption ==
  /\ MaxOpen \in Nat \ {0}
  /\ ImportSize \in Nat
  /\ LooseSize \in Nat
  /\ Ops \subseteq {"pread", "chunk", "dump", "cstring"}
  /\ ReadSizes \subseteq Nat

VARIABLES
  entry_vect,   \* CpkHandler::entry_vect
  open,         \* the game: what it opened under which index, and how much
                \* of it it has read
  stage,        \* where OpenFile is; "game" outside of it
  index         \* the slot of the CpkSource; 0 if there is none

handlerVars == <<cpkVars, entry_vect, open, stage, index>>

Indices == 1 .. Len(entry_vect)

-------------------------------------------------------------------------------
(* The slots *)

\* What new leaves in an entry: nothing has set its handle.
NewEntry ==
  [valid |-> FALSE, handle |-> "unset", block |-> "null", size |-> 0, pos |-> 0]

\* Mutant: no slot is used again.
FreeSlotsMutant == {Len(entry_vect) + 1}

\* Slots that are free: a new one only if there is no other.
FreeSlots ==
  LET closed == {i \in Indices : ~entry_vect[i].valid} IN
  IF closed = {} THEN {Len(entry_vect) + 1} ELSE closed
FirstFree == {i \in FreeSlots : \A j \in FreeSlots : i <= j}

WithEntry(i, e) ==
  [j \in Indices \union {i} |-> IF j = i THEN e ELSE entry_vect[j]]
EntryAt(i) == IF i \in Indices THEN entry_vect[i] ELSE NewEntry

\* GetEntryVect for the slot i: handle, block and sizes stay as they were.
GetEntryVect(i) == [EntryAt(i) EXCEPT !.valid = TRUE, !.pos = 0]

\* Mutant: the slot keeps its handle.
ImportEntryMutant(i) ==
  [GetEntryVect(i) EXCEPT !.size = ImportSize, !.block = "import"]

\* The slot of an imported file is recognised by its handle.
ImportEntry(i) ==
  [GetEntryVect(i) EXCEPT !.handle = "invalid", !.size = ImportSize,
                          !.block = "import"]
LooseEntry(i) == [GetEntryVect(i) EXCEPT !.handle = "loose", !.size = LooseSize]

\* OrigOpenFile, OrigCloseFile: the game's.  A closed slot keeps the rest.
OrigEntry(i) ==
  [EntryAt(i) EXCEPT !.valid = TRUE, !.handle = "cpk", !.size = FileSize, !.pos = 0]
OrigClosed(i) == WithEntry(i, [entry_vect[i] EXCEPT !.valid = FALSE])

\* What Read(i) reads from.
Served(e) == IF e.handle = "invalid" THEN e.block ELSE e.handle

-------------------------------------------------------------------------------
(* OpenFile *)

\* OpenFile gives the game the slot i, which holds e.
Answer(i, e, what) ==
  /\ entry_vect' = WithEntry(i, e)
  /\ open' = [j \in DOMAIN open \union {i} |->
                IF j = i THEN [what |-> what, got |-> 0] ELSE open[j]]
  /\ stage' = "game"
  /\ UNCHANGED <<cpkVars, index>>

Goto(s) ==
  /\ stage' = s
  /\ UNCHANGED <<cpkVars, entry_vect, open, index>>

\* OpenTxtFile up to its source: there is no text; the original is a file; or
\* OrigOpenFile fails, which the import reports and ignores.
OpenTxtFile ==
  /\ stage = "game"
  /\ Cardinality(DOMAIN open) < MaxOpen
  /\ \/ Goto("loose")
     \/ Goto("import")

\* GetSource: OrigOpenFile has given a slot to the new CpkSource.
GetSource ==
  /\ stage = "game"
  /\ Cardinality(DOMAIN open) < MaxOpen
  /\ \E i \in FreeSlots :
       /\ entry_vect' = WithEntry(i, OrigEntry(i))
       /\ index' = i
  /\ stage' = "import"
  /\ phase' = "idle"
  /\ UNCHANGED <<lru, mem, call, at, buf, reply, opened, open>>

\* CpkSource::Pread sets the position before each OrigRead.
PosAfter(n) == IF TooLong THEN at + n ELSE ChunkOffset(at) + n

\* The parser and the text reader read, in any order, and OrigRead may fail.
SourceCall ==
  /\ index # 0
  /\ \E op \in Ops : CpkCall(op)
  /\ UNCHANGED <<entry_vect, open, stage, index>>
SourceRead ==
  /\ index # 0
  /\ CpkLoadChunk \/ CpkReadDirect
  /\ entry_vect' =
       [entry_vect EXCEPT ![index].pos =
          PosAfter(IF TooLong THEN call.upto - at ELSE ChunkSize(at))]
  /\ UNCHANGED <<open, stage, index>>
SourceFails ==
  /\ index # 0
  /\ OrigReadFails
  /\ entry_vect' = [entry_vect EXCEPT ![index].pos = PosAfter(0)]
  /\ UNCHANGED <<open, stage, index>>
SourceStep ==
  /\ index # 0
  /\ Copy \/ Return \/ AssertFails
  /\ UNCHANGED <<opened, entry_vect, open, stage, index>>

\* Mutant: the slot of the source is not given back when the import fails.
LeftMutant(ok) == IF ok THEN OrigClosed(index) ELSE entry_vect
Left(ok) == OrigClosed(index)

\* The end of the try block destroys the source, and so closes its slot, also
\* when an exception leaves it: from a read, the parser or the text.
EndImport(ok) ==
  /\ stage = "import"
  /\ IF index = 0
     THEN UNCHANGED <<cpkVars, entry_vect>>
     ELSE /\ ok => reply.ok /\ opened
          /\ CpkDestroy
          /\ entry_vect' = Left(ok)
  /\ index' = 0
  /\ stage' = IF ok THEN "imported" ELSE "loose"
  /\ UNCHANGED open

\* The rest of OpenTxtFile.
Imported ==
  /\ stage = "imported"
  /\ \E i \in FirstFree : Answer(i, ImportEntry(i), "import")

\* OpenFsFile, or CreateFileW or GetFileSize fails.
OpenFsFile ==
  /\ stage = "loose"
  /\ \/ \E i \in FirstFree : Answer(i, LooseEntry(i), "loose")
     \/ Goto("orig")

OrigOpenFile ==
  /\ stage = "orig"
  /\ \/ \E i \in FreeSlots : Answer(i, OrigEntry(i), "cpk")
     \/ Goto("game")

-------------------------------------------------------------------------------
(* The game's other calls *)

ReadSize(e, n) == Lower(n, e.size - e.pos)

\* Read, of a block or by OrigRead, which stops at the end of the file too.
Read ==
  /\ stage = "game"
  /\ \E i \in DOMAIN open, n \in ReadSizes :
       LET k == ReadSize(entry_vect[i], n) IN
       /\ entry_vect' = [entry_vect EXCEPT ![i].pos = @ + k]
       /\ open' = [open EXCEPT ![i].got = @ + k]
  /\ UNCHANGED <<cpkVars, stage, index>>

CloseFile ==
  /\ stage = "game"
  /\ \E i \in DOMAIN open :
       /\ entry_vect' = OrigClosed(i)
       /\ open' = [j \in DOMAIN open \ {i} |-> open[j]]
  /\ UNCHANGED <<cpkVars, stage, index>>

-------------------------------------------------------------------------------
HandlerInit ==
  /\ InitIn("destroyed")
  /\ entry_vect = <<>>
  /\ open = [i \in {} |-> 0]
  /\ stage = "game"
  /\ index = 0

HandlerNext ==
  \/ OpenTxtFile \/ GetSource
  \/ SourceCall \/ SourceRead \/ SourceFails \/ SourceStep
  \/ EndImport(TRUE) \/ EndImport(FALSE)
  \/ Imported \/ OpenFsFile \/ OrigOpenFile
  \/ Read \/ CloseFile

HandlerSpec == HandlerInit /\ [][HandlerNext]_handlerVars

-------------------------------------------------------------------------------
(* Properties *)

\* The slots in use are the game's open files and the source of an import:
\* none is lost by an import that fails, and none is given away twice.
SlotsInUse ==
  {i \in Indices : entry_vect[i].valid} = DOMAIN open \union ({index} \ {0})

\* entry_vect grows with the files that are open at a time, not with those
\* that were opened: an import costs no slot.
VectorBounded == Len(entry_vect) <= MaxOpen

\* A file the game has open is read from what OpenFile found for it, from its
\* beginning and never behind its end, whoever used its slot before.
ReadsWhatWasOpened ==
  \A i \in DOMAIN open :
    /\ Served(entry_vect[i]) = open[i].what
    /\ entry_vect[i].pos = open[i].got
    /\ entry_vect[i].pos <= entry_vect[i].size
===============================================================================
