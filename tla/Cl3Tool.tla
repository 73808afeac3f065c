------------------------------ MODULE Cl3Tool ------------------------------
(* stcm-editor (cl3-tool) at work on one archive (programs/stcm-editor.cpp): *)
(* packing a directory, extracting into it, importing text, and a manual     *)
(* session; with Dumpable::Dump (dumpable.cpp), which writes a file next to  *)
(* the archive and renames it, and with exceptions and crashes at any step.  *)
(* One command runs at a time, and the user changes files between commands.  *)
EXTENDS Cl3

CONSTANTS Names,     \* names of files
          Contents,  \* lengths of files
          Main,      \* "main.DAT"
          Absent,    \* no file
          Torn,      \* a file that was not written to its end
          Initial,   \* the archives the game comes with
          MaxLinks   \* bound: links of an entry

(* The archives in memory.  No two entries have the same id. *)
Entries == [id : Nat, name : Names, src : Nat, links : Seq(Nat)]

Archives ==
    {c \in [endian : {"L", "B"}, entries : Seq(Entries),
            data_size : {Unset} \cup Nat, link_count : {Unset} \cup Nat] :
       \A i, j \in DOMAIN c.entries :
         c.entries[i].id = c.entries[j].id => i = j}

(* `entries` is an ordered map with the names as keys. *)
Keyed(c) ==
    \A i, j \in DOMAIN c.entries :
        c.entries[i].name = c.entries[j].name => i = j

ASSUME Cl3ToolAssumption ==
    /\ Main \in Names
    /\ Contents \subseteq Nat
    /\ MaxLinks \in Nat
    /\ \A c \in Initial : c \in Archives /\ Linked(c) /\ Keyed(c)

VARIABLES archive,  \* the file the commands are given
          temp,     \* path2 of Dumpable::Dump
          folder,   \* the directory: name -> content
          out,      \* the file a session is saved to
          cl3,      \* the archive in memory
          pc,       \* what the command does next
          todo      \* what it has yet to visit: names, or indices of entries

vars == <<archive, temp, folder, out, cl3, pc, todo>>
disk == <<archive, temp, folder, out>>

Exists(file) == file \notin {Absent, Torn}

-----------------------------------------------------------------------------
(* The archive of a game: like ours, but with every header in its order. *)
GameFile(c) ==
    [Dump(Fixup(c)) EXCEPT !.sections[2].order = c.endian]

Init ==
    /\ archive \in {GameFile(c) : c \in Initial}
    /\ temp = Absent
    /\ folder = Absent
    /\ out = Absent
    /\ cl3 = Absent
    /\ pc = "idle"
    /\ todo = {}

(* The user adds, edits and deletes files of the directory, *)
EditFolder ==
    /\ pc = "idle"
    /\ folder # Absent
    /\ \E n \in Names : \E c \in Contents \cup {Absent} :
         folder' = [folder EXCEPT ![n] = c]
    /\ UNCHANGED <<archive, temp, out, cl3, pc, todo>>

(* and keeps or deletes what a session saved. *)
TakeOut ==
    /\ pc = "idle"
    /\ out # Absent
    /\ out' = Absent
    /\ \/ UNCHANGED archive
       \/ Exists(out) /\ archive' = out
    /\ UNCHANGED <<temp, folder, cl3, pc, todo>>

(* A user whose archive is gone gives the temporary file its name. *)
Recover ==
    /\ pc = "idle"
    /\ archive = Absent
    /\ archive' = temp
    /\ temp' = Absent
    /\ UNCHANGED <<folder, out, cl3, pc, todo>>

-----------------------------------------------------------------------------
(* The start of a command: Cl3{Source::FromFile(...)}, or SmartOpen.  Bound: *)
(* the user has looked at what the last session saved.                       *)
Open ==
    /\ pc = "idle"
    /\ out = Absent
    /\ archive # Absent
    /\ Validates(archive)
    /\ cl3' = Parse(archive)

Command(next, visit) ==
    Open /\ pc' = next /\ todo' = visit

DirNames == {n \in Names : folder[n] # Absent}

Pack ==
    /\ folder # Absent
    /\ Command("listing", DirNames)
    /\ UNCHANGED disk

Unpack ==
    /\ Command("unpacking", DOMAIN cl3'.entries)
    /\ folder' = IF folder = Absent THEN [n \in Names |-> Absent] ELSE folder
    /\ UNCHANGED <<archive, temp, out>>

ImportText == Command("importing", {}) /\ UNCHANGED disk

(* Bound: a session starts from an archive of the game. *)
Session ==
    /\ folder = Absent
    /\ archive \in {GameFile(c) : c \in Initial}
    /\ Command("session", {})
    /\ UNCHANGED disk

-----------------------------------------------------------------------------
(* UpdateFromDir: its first loop visits the directory in any order, *)
UpdateFile ==
    /\ pc = "listing"
    /\ \E n \in todo :
         /\ cl3' = SetSource(GetOrCreateFile(cl3, n), n, folder[n])
         /\ todo' = todo \ {n}
    /\ UNCHANGED <<disk, pc>>

(* Mutant: what is missing is erased while the directory is still listed. *)
EraseMissingMutant ==
    /\ pc = "listing"
    /\ cl3' = Erase(cl3, {n \in Names : folder[n] = Absent})
    /\ pc' = "edited"
    /\ todo' = {}
    /\ UNCHANGED disk

(* its second erases the entries that are not there. *)
EraseMissing ==
    /\ pc = "listing"
    /\ todo = {}
    /\ cl3' = Erase(cl3, {n \in Names : folder[n] = Absent})
    /\ pc' = "edited"
    /\ UNCHANGED <<disk, todo>>

(* GetStcm and ReadTxt: the script's content changes, and its size. *)
ReadTxt ==
    /\ pc = "importing"
    /\ Main \in NamesIn(cl3)
    /\ \E c \in Contents : cl3' = SetSource(cl3, Main, c)
    /\ pc' = "edited"
    /\ UNCHANGED <<disk, todo>>

FixupAll ==
    /\ pc = "edited"
    /\ cl3' = Fixup(cl3)
    /\ pc' = "fixed"
    /\ UNCHANGED <<disk, todo>>

(* Dumpable::Dump: into the temporary file; a link to an entry that is gone  *)
(* is found when everything before it is written.                            *)
DumpTemp ==
    /\ pc = "fixed"
    /\ Linked(cl3)
    /\ temp' = Dump(cl3)
    /\ pc' = "written"
    /\ UNCHANGED <<archive, folder, out, cl3, todo>>

(* Mutant: the old archive is moved away before the new one is written. *)
RenameAwayMutant ==
    /\ pc \in {"fixed", "written"}
    /\ archive # Absent
    /\ archive' = Absent
    /\ UNCHANGED <<temp, folder, out, cl3, pc, todo>>

(* On Windows the old archive gets another name and is deleted before the    *)
(* new one gets its name; elsewhere the rename replaces it.                  *)
RenameAway ==
    /\ pc = "written"
    /\ archive # Absent
    /\ archive' = Absent
    /\ UNCHANGED <<temp, folder, out, cl3, pc, todo>>

Rename ==
    /\ pc = "written"
    /\ archive' = temp
    /\ temp' = Absent
    /\ cl3' = Absent
    /\ pc' = "idle"
    /\ UNCHANGED <<folder, out, todo>>

-----------------------------------------------------------------------------
(* ExtractTo: one file after the other, each written in place. *)
ExtractFile ==
    /\ pc = "unpacking"
    /\ \E i \in todo :
         /\ \A j \in todo : i <= j
         /\ folder' = [folder EXCEPT ![cl3.entries[i].name] =
                                        cl3.entries[i].src]
         /\ todo' = todo \ {i}
    /\ UNCHANGED <<archive, temp, out, cl3, pc>>

-----------------------------------------------------------------------------
(* A session: --replace-file, --remove-file, --set-link, --remove-link,      *)
(* --save.  Bound: a session saves once, at its end.                         *)
InSession(c) ==
    /\ pc = "session"
    /\ out = Absent
    /\ cl3' = c
    /\ UNCHANGED <<disk, pc, todo>>

ReplaceFile ==
    \E n \in Names : \E src \in Contents :
        InSession(SetSource(GetOrCreateFile(cl3, n), n, src))

RemoveFile ==
    /\ pc = "session"
    /\ \E n \in NamesIn(cl3) : InSession(Erase(cl3, {n}))

SetLink ==
    /\ pc = "session"
    /\ \E k, dest \in DOMAIN cl3.entries :
         LET links == cl3.entries[k].links IN
         \E i \in 1 .. Len(links) + 1 :
            /\ i <= MaxLinks
            /\ InSession([cl3 EXCEPT !.entries[k].links =
                            [j \in DOMAIN links \cup {i} |->
                               IF j = i THEN cl3.entries[dest].id
                               ELSE links[j]]])

RemoveLink ==
    /\ pc = "session"
    /\ \E k \in DOMAIN cl3.entries : \E i \in DOMAIN cl3.entries[k].links :
         InSession([cl3 EXCEPT !.entries[k].links = RemoveAt(@, i)])

(* Fixup, and ShellDump to another file than the one that is open. *)
Save ==
    /\ pc = "session"
    /\ out = Absent
    /\ cl3' = Fixup(cl3)
    /\ Linked(cl3)
    /\ out' = Dump(cl3')
    /\ UNCHANGED <<archive, temp, folder, pc, todo>>

-----------------------------------------------------------------------------
(* The end of a command that does not rename: done, an exception, or a       *)
(* crash.  What is in memory is gone; a file that was being written stays as *)
(* it is.  A temporary file is never looked at again, except by a user who   *)
(* has lost the archive.                                                     *)
Stop ==
    /\ pc # "idle"
    /\ pc' = "idle"
    /\ cl3' = Absent
    /\ todo' = {}
    /\ temp' = IF archive = Absent THEN temp ELSE Absent
    /\ \/ UNCHANGED <<out, folder>>
       \/ pc = "session" /\ out' = Torn /\ UNCHANGED folder
       \/ /\ pc = "unpacking"
          /\ UNCHANGED out
          /\ \E i \in todo : \E c \in Contents :
               /\ \A j \in todo : i <= j
               /\ folder' = [folder EXCEPT ![cl3.entries[i].name] = c]
    /\ UNCHANGED archive

Next ==
    \/ EditFolder \/ TakeOut \/ Recover
    \/ Pack \/ Unpack \/ ImportText \/ Session
    \/ UpdateFile \/ EraseMissing \/ ReadTxt \/ FixupAll
    \/ DumpTemp \/ RenameAway \/ Rename
    \/ ExtractFile
    \/ ReplaceFile \/ RemoveFile \/ SetLink \/ RemoveLink \/ Save
    \/ Stop

Spec == Init /\ [][Next]_vars

-----------------------------------------------------------------------------
(* Properties. *)

(* The file a dump has just written, if it wrote one. *)
NewFiles == {temp', out'} \ {temp, out, Absent, Torn}

(* What Dump_ writes, Parse_ accepts and reads as the same files with the    *)
(* same links: the offsets in the headers (format/cl3.cpp:374-454) are those *)
(* the sink arrives at, whatever the lengths, the number of entries, and the *)
(* links to entries that moved when others were erased.  doc/formats/cl3.md  *)
(* says that the header's `endian` tells the order of the file's integers.   *)
DumpReadsBack ==
    [][\A file \in NewFiles :
          Validates(file) /\ Describe(Parse(file)) = Describe(cl3')]_vars

(* A dump writes as many bytes as GetSize told Sink::ToFile before           *)
(* (format/cl3.cpp:279-286 and 374-454; dumpable.cpp:52): with less the      *)
(* mapped file keeps a tail of zeros, and more is an assertion in the sink.  *)
SizeReserved ==
    [][\A file \in NewFiles : file.size = GetSize(cl3')]_vars

(* Whatever stops a command, one whole archive is left: under its name, or,  *)
(* between the two renames of Dumpable::Dump on Windows (dumpable.cpp:57-65),*)
(* in the temporary file.                                                    *)
ArchiveSurvives ==
    archive = Absent => Exists(temp) /\ Validates(temp)

(* The files of an archive and their links, or that there is no archive. *)
Listing(file) ==
    IF Exists(file)
    THEN CHOOSE list \in {Describe(c) : c \in {Parse(file)}} : TRUE
    ELSE file

Store == INSTANCE ArchiveStore WITH
    stored <- Listing(IF archive = Absent THEN temp ELSE archive),
    folder <- folder,
    draft <- Listing(out)

(* A command replaces the archive at once by what it was told to make of it, *)
(* or not at all: packing keeps the order and the links of the files that    *)
(* stay (UpdateFromDir, format/cl3.cpp:312-323), in whatever order the       *)
(* directory is listed.                                                      *)
ImplementsArchiveStore == Store!Spec
=============================================================================
