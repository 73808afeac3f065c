--------------------------------- MODULE Vita ---------------------------------
(***************************************************************************)
(* The Vita plugin (vita_plugin/cpk.cpp): a hook in the game's lookup of a *)
(* file of its archives, which sends the game to a file of the player's    *)
(* data directory instead, or to one of the plugin's cache directory, into *)
(* which it has imported the player's text.  The cache is written in       *)
(* place, since the Vita has no unique_path, and the plugin ends the game  *)
(* with abort() when anything throws, so that both a bad text and a loss   *)
(* of power can leave a part of a file there; the next start erases it.    *)
(* A last flush that fails throws nothing, and leaves a part of a file too.*)
(*                                                                         *)
(* The player edits the data directory while the game is off.              *)
(***************************************************************************)
EXTENDS Integers

CONSTANTS
  Names,      \* the files of the archives
  Files,      \* what the player can put in their place
  Texts,      \* the texts there are to import
  Good,       \* those that match the file they are for
  None,
  Size        \* of a file, and of the file a text is imported into

ASSUME VitaAssumption ==
  /\ Good \subseteq Texts
  /\ None \notin Files \union Texts
  /\ Size \in [Files \union Texts -> Nat]

VARIABLES
  data,       \* the data directory: for a name the file and the text
  cache,      \* the cache directory: for a name the text that was imported, whether
              \* its file is being written, all written or without its end, and how
              \* long it is once it was closed
  run,        \* "off", "boot" in Init, "on"
  my_han,     \* FsBinder has given the plugin a handle
  request,    \* the lookup in progress
  fi          \* where the lookups sent the game since it was started

vars == <<data, cache, run, my_han, request, fi>>

NoFile == [text |-> None, state |-> "none", len |-> 0]
Writing(t) == [text |-> t, state |-> "writing", len |-> 0]
Closed(t, state, len) == [text |-> t, state |-> state, len |-> len]
Idle == [name |-> None, at |-> "none"]
Original == [dir |-> "archive", size |-> 0]

-------------------------------------------------------------------------------
(* The player, and the power *)

Edit ==
  /\ run = "off"
  /\ \E n \in Names, f \in Files \union {None}, t \in Texts \union {None} :
       data' = [data EXCEPT ![n] = [file |-> f, text |-> t]]
  /\ UNCHANGED <<cache, run, my_han, request, fi>>

\* abort(), an exception that leaves Init, or the power: the files stay.
Off ==
  /\ run' = "off"
  /\ my_han' = FALSE
  /\ request' = Idle
  /\ fi' = [n \in Names |-> Original]
  /\ UNCHANGED data

Crash == run # "off" /\ Off /\ UNCHANGED cache

Start ==
  /\ run = "off"
  /\ run' = "boot"
  /\ UNCHANGED <<data, cache, my_han, request, fi>>

-------------------------------------------------------------------------------
(* Init *)

\* Mutant: the cache of the last run is used again.
ErasedMutant == TRUE
Erased == \A n \in Names : cache[n] = NoFile

\* remove_all deletes one file after the other.
Erase ==
  /\ run = "boot"
  /\ \E n \in Names :
       /\ cache[n] # NoFile
       /\ cache' = [cache EXCEPT ![n] = NoFile]
  /\ UNCHANGED <<data, run, my_han, request, fi>>

\* The hook is in place once the rest of Init has not thrown.
Hook ==
  /\ run = "boot" /\ Erased
  /\ run' = "on"
  /\ UNCHANGED <<data, cache, my_han, request, fi>>

-------------------------------------------------------------------------------
(* HookGetFileInfo *)

At(step) == run = "on" /\ request.at = step
Goto(step) ==
  /\ request' = [request EXCEPT !.at = step]
  /\ UNCHANGED <<data, cache, run, my_han, fi>>

\* The game's own lookup has found the file, and the plugin has its handle; a
\* lookup that failed, or a handle it does not get, changes nothing.
Lookup ==
  /\ At("none")
  /\ \E n \in Names : request' = [name |-> n, at |-> "bin"]
  /\ my_han' = TRUE
  /\ UNCHANGED <<data, cache, run, fi>>

\* What the game gets is left as it is, or refers to a file of the directory.
Return ==
  /\ request' = Idle
  /\ UNCHANGED <<data, cache, run, my_han, fi>>
Serve(dir, size) ==
  /\ fi' = [fi EXCEPT ![request.name] = [dir |-> dir, size |-> size]]
  /\ request' = Idle
  /\ UNCHANGED <<data, run, my_han>>

\* A file of the player's goes first.
DoBin ==
  LET file == data[request.name].file IN
  /\ At("bin")
  /\ IF file # None
     THEN Serve("data", Size[file]) /\ UNCHANGED cache
     ELSE Goto("txt")

\* file_size of what is in the cache.
CachedSize(c) == c.len

DoTxt ==
  LET n == request.name IN
  /\ At("txt")
  /\ CASE cache[n] # NoFile -> Serve("cache", CachedSize(cache[n])) /\ UNCHANGED cache
       [] cache[n] = NoFile /\ data[n].text = None -> Return
       [] OTHER -> Goto("import")

\* The original is opened, read and given the text; anything may throw.
Import ==
  LET t == data[request.name].text IN
  /\ At("import")
  /\ t \in Good
  /\ cache' = [cache EXCEPT ![request.name] = Writing(t)]
  /\ request' = [request EXCEPT !.at = "dump"]
  /\ UNCHANGED <<data, run, my_han, fi>>

\* Mutant: the size is that of the original.
DumpedSizeMutant(t) == 0
DumpedSize(t) == Size[t]

\* Dump returns, its SimpleSink is destroyed and the file closed.  The game is told
\* GetSize(), whatever the file has.
Dumped(state, len) ==
  LET t == data[request.name].text IN
  /\ cache' = [cache EXCEPT ![request.name] = Closed(t, state, len)]
  /\ Serve("cache", DumpedSize(t))

Dump == At("dump") /\ Dumped("whole", Size[data[request.name].text])

\* The last flush fails in ~SimpleSink, which only logs it.  An earlier one throws.
FlushFails ==
  /\ At("dump")
  /\ \E len \in 0 .. Size[data[request.name].text] - 1 : Dumped("short", len)

\* catch (...) { abort(); }, at any point of DoBin and DoTxt.
Abort ==
  /\ run = "on" /\ request # Idle
  /\ Off /\ UNCHANGED cache

-------------------------------------------------------------------------------
Init ==
  /\ data = [n \in Names |-> [file |-> None, text |-> None]]
  /\ cache = [n \in Names |-> NoFile]
  /\ run = "off"
  /\ my_han = FALSE
  /\ request = Idle
  /\ fi = [n \in Names |-> Original]

HookStep == DoBin \/ DoTxt \/ Import \/ Dump \/ FlushFails \/ Abort

Next == Edit \/ Crash \/ Start \/ Erase \/ Hook \/ Lookup \/ HookStep

Spec == Init /\ [][Next]_vars

-------------------------------------------------------------------------------
(* Properties *)

\* The game is never sent to a text the player has changed since, to what an
\* earlier run left in the cache, or past the player's own file: what it reads is
\* the player's file, or else the import of the player's text, all of it and in
\* the size it was told.  There is one exception, which is the code's: where the
\* last flush of this run's import failed, the game is sent to what there is of
\* it, in its size or that of the whole.
ServesPlayersFile ==
  \A n \in Names : fi[n] # Original =>
    \/ /\ fi[n].dir = "data" /\ data[n].file # None
       /\ fi[n].size = Size[data[n].file]
    \/ /\ fi[n].dir = "cache" /\ data[n].file = None
       /\ cache[n].text = data[n].text
       /\ \/ cache[n].state = "whole" /\ fi[n].size = Size[data[n].text]
          \/ cache[n].state = "short" /\ fi[n].size \in {Size[data[n].text], cache[n].len}

\* A later lookup of a file tells the game what the first one did, although the
\* first takes the size of the import and a later one that of the cached file.
\* Only where the last flush of the import failed does it change, to that of what
\* was written.
AnswerHolds(n) ==
  \/ fi'[n] = fi[n]
  \/ /\ cache[n].state = "short"
     /\ fi'[n] = [dir |-> "cache", size |-> cache[n].len]
SameAnswer ==
  [][run' = "on" => \A n \in Names : fi[n] # Original => AnswerHolds(n)]_vars
===============================================================================
