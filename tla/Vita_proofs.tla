------------------------------ MODULE Vita_proofs ------------------------------
(***************************************************************************)
(* Proofs about the Vita plugin, for every set of files and texts: what    *)
(* the game is sent to is the player's own, and whole unless the last      *)
(* flush of its import was lost.                                           *)
(***************************************************************************)
EXTENDS Vita, TLAPS

Cached == [text : Texts \union {None}, state : {"none", "writing", "short", "whole"},
           len : Nat]
Stages == {"none", "bin", "txt", "import", "dump"}

TypeOK ==
  /\ data \in [Names -> [file : Files \union {None}, text : Texts \union {None}]]
  /\ cache \in [Names -> Cached]
  /\ request \in [name : Names \union {None}, at : Stages]
  /\ fi \in [Names -> [dir : {"archive", "data", "cache"}, size : Nat]]

\* Before the hook is in place there was no lookup.
OnlyWhenOn == run # "on" => request = Idle /\ \A n \in Names : fi[n] = Original

\* An import that was written and closed: a whole one is as long as it should be.
Ended(c) == c.state = "short" \/ (c.state = "whole" /\ c.len = Size[c.text])

\* Since Init erased it, the cache holds imports of the player's texts that have
\* ended, but for the one that is being written, and none for which there is a
\* file.
CacheOfThisRun ==
  run = "on" =>
    \A n \in Names : cache[n] # NoFile =>
      /\ data[n].file = None
      /\ cache[n].text = data[n].text /\ data[n].text # None
      /\ Ended(cache[n]) \/ request = [name |-> n, at |-> "dump"]

\* What a lookup has found out so far.
SoFar ==
  /\ request.at # "none" => request.name \in Names
  /\ request.at \in {"txt", "import", "dump"} => data[request.name].file = None
  /\ request.at = "import" => cache[request.name] = NoFile
  /\ request.at = "dump" =>
       cache[request.name] = Writing(data[request.name].text)
  /\ request.at \in {"import", "dump"} => data[request.name].text # None

\* The inductive invariant.
Inv == TypeOK /\ OnlyWhenOn /\ CacheOfThisRun /\ SoFar /\ ServesPlayersFile

\* A lookup was sent to the cache only for a file that was closed.
LEMMA NotTorn ==
  ASSUME Inv, NEW n \in Names, fi[n] # Original, data[n].file = None
  PROVE  cache[n].state \in {"short", "whole"}
BY DEF Inv, ServesPlayersFile

LEMMA InitInv == Init => Inv
BY DEF Init, Inv, TypeOK, OnlyWhenOn, CacheOfThisRun, SoFar, ServesPlayersFile,
   NoFile, Idle, Original, Stages, Cached

\* However the game stops, nothing is left of its lookups.
LEMMA OffStep ==
  ASSUME Inv, Off, UNCHANGED cache
  PROVE  Inv'
BY DEF Off, Inv, TypeOK, OnlyWhenOn, CacheOfThisRun, SoFar, ServesPlayersFile,
   Idle, Original, Stages

\* The player edits, or the plugin starts and erases: no lookup has been.
LEMMA BeforeHook ==
  ASSUME Inv, Edit \/ Start \/ Erase
  PROVE  Inv'
<1>1. TypeOK'
  <2>1. CASE Edit
    BY <2>1 DEF Edit, Inv, TypeOK
  <2>2. CASE Start
    BY <2>2 DEF Start, Inv, TypeOK
  <2>3. CASE Erase
    <3>1. NoFile \in Cached
      BY DEF NoFile, Cached
    <3>2. QED
      BY <2>3, <3>1 DEF Erase, Inv, TypeOK
  <2>4. QED
    BY <2>1, <2>2, <2>3
<1>2. run' # "on" /\ run # "on" /\ UNCHANGED <<request, fi>>
  BY DEF Edit, Start, Erase
<1>3. OnlyWhenOn' /\ CacheOfThisRun'
  BY <1>2 DEF Inv, OnlyWhenOn, CacheOfThisRun
<1>4. SoFar' /\ ServesPlayersFile'
  BY <1>2 DEF Inv, OnlyWhenOn, SoFar, ServesPlayersFile, Idle
<1>5. QED
  BY <1>1, <1>3, <1>4 DEF Inv

LEMMA HookPlaced ==
  ASSUME Inv, Hook
  PROVE  Inv'
<1>1. run # "on" /\ run' = "on" /\ UNCHANGED <<data, cache, request, fi>>
  BY DEF Hook
<1>2. CacheOfThisRun'
  BY <1>1 DEF Hook, Erased, CacheOfThisRun
<1>3. QED
  BY <1>1, <1>2 DEF Inv, TypeOK, OnlyWhenOn, SoFar, ServesPlayersFile

\* A lookup begins.
LEMMA LookupStep ==
  ASSUME Inv, Lookup
  PROVE  Inv'
<1>1. PICK n \in Names : request' = [name |-> n, at |-> "bin"]
  BY DEF Lookup
<1>2. run = "on" /\ request.at = "none" /\ UNCHANGED <<data, cache, run, fi>>
  BY DEF Lookup, At
<1>3. TypeOK' /\ OnlyWhenOn' /\ SoFar' /\ ServesPlayersFile'
  BY <1>1, <1>2 DEF Inv, TypeOK, OnlyWhenOn, SoFar, ServesPlayersFile, Stages
<1>4. CacheOfThisRun'
  BY <1>1, <1>2 DEF Inv, CacheOfThisRun
<1>5. QED
  BY <1>3, <1>4 DEF Inv

\* A lookup that goes on or returns leaves the files and what was answered.
LEMMA WentOn ==
  ASSUME Inv, run = "on", request.at # "dump", UNCHANGED <<data, cache, run, fi>>,
         request' \in [name : Names \union {None}, at : Stages], SoFar'
  PROVE  Inv'
<1>1. TypeOK' /\ OnlyWhenOn' /\ ServesPlayersFile'
  BY DEF Inv, TypeOK, OnlyWhenOn, ServesPlayersFile
<1>2. CacheOfThisRun'
  BY DEF Inv, CacheOfThisRun
<1>3. QED
  BY <1>1, <1>2 DEF Inv

LEMMA SizeType == \A f \in Files \union Texts : Size[f] \in Nat
BY VitaAssumption

LEMMA DoBinStep ==
  ASSUME Inv, DoBin
  PROVE  Inv'
<1>1. run = "on" /\ request.at = "bin" /\ request.name \in Names
  BY DEF DoBin, At, Inv, SoFar
<1> DEFINE n == request.name
<1>2. CASE data[n].file = None
  <2>1. request' = [request EXCEPT !.at = "txt"] /\ UNCHANGED <<data, cache, run, fi>>
    BY <1>2 DEF DoBin, Goto
  <2>2. request' = [name |-> n, at |-> "txt"]
    BY <2>1 DEF Inv, TypeOK
  <2>3. SoFar' /\ request' \in [name : Names \union {None}, at : Stages]
    BY <1>1, <1>2, <2>1, <2>2 DEF SoFar, Stages
  <2>4. QED
    BY <1>1, <2>1, <2>3, WentOn
<1>3. CASE data[n].file # None
  <2>1. /\ fi' = [fi EXCEPT ![n] = [dir |-> "data", size |-> Size[data[n].file]]]
        /\ request' = Idle /\ UNCHANGED <<data, cache, run>>
    BY <1>3 DEF DoBin, Serve
  <2>2. Size[data[n].file] \in Nat
    BY <1>1, <1>3, SizeType DEF Inv, TypeOK
  <2>3. TypeOK'
    BY <1>1, <2>1, <2>2 DEF Inv, TypeOK, Idle, Stages
  <2>4. ServesPlayersFile'
    BY <1>1, <1>3, <2>1 DEF Inv, TypeOK, ServesPlayersFile
  <2>5. OnlyWhenOn' /\ SoFar' /\ CacheOfThisRun'
    BY <1>1, <2>1 DEF Inv, OnlyWhenOn, SoFar, CacheOfThisRun, Idle
  <2>6. QED
    BY <2>3, <2>4, <2>5 DEF Inv
<1>4. QED
  BY <1>2, <1>3

LEMMA DoTxtStep ==
  ASSUME Inv, DoTxt
  PROVE  Inv'
<1>1. /\ run = "on" /\ request.at = "txt" /\ request.name \in Names
      /\ data[request.name].file = None
  BY DEF DoTxt, At, Inv, SoFar
<1> DEFINE n == request.name
<1>2. CASE cache[n] # NoFile
  <2>1. cache[n].text = data[n].text /\ Ended(cache[n])
    BY <1>1, <1>2 DEF Inv, CacheOfThisRun
  <2>2. /\ fi' = [fi EXCEPT ![n] = [dir |-> "cache", size |-> cache[n].len]]
        /\ request' = Idle /\ UNCHANGED <<data, cache, run>>
    BY <1>2 DEF DoTxt, Serve, CachedSize
  <2>3. cache[n].len \in Nat
    BY <1>1 DEF Inv, TypeOK, Cached
  <2>4. TypeOK'
    BY <1>1, <2>2, <2>3 DEF Inv, TypeOK, Idle, Stages
  <2>5. ServesPlayersFile'
    BY <1>1, <2>1, <2>2 DEF Inv, TypeOK, ServesPlayersFile, Ended
  <2>6. OnlyWhenOn' /\ SoFar' /\ CacheOfThisRun'
    BY <1>1, <2>2 DEF Inv, OnlyWhenOn, SoFar, CacheOfThisRun, Idle
  <2>7. QED
    BY <2>4, <2>5, <2>6 DEF Inv
<1>3. CASE cache[n] = NoFile /\ data[n].text = None
  <2>1. request' = Idle /\ UNCHANGED <<data, cache, run, fi>>
    BY <1>3 DEF DoTxt, Return
  <2>2. SoFar' /\ request' \in [name : Names \union {None}, at : Stages]
    BY <2>1 DEF SoFar, Idle, Stages
  <2>3. QED
    BY <1>1, <2>1, <2>2, WentOn
<1>4. CASE cache[n] = NoFile /\ data[n].text # None
  <2>1. request' = [request EXCEPT !.at = "import"] /\ UNCHANGED <<data, cache, run, fi>>
    BY <1>4 DEF DoTxt, Goto
  <2>2. request' = [name |-> n, at |-> "import"]
    BY <2>1 DEF Inv, TypeOK
  <2>3. SoFar' /\ request' \in [name : Names \union {None}, at : Stages]
    BY <1>1, <1>4, <2>1, <2>2 DEF SoFar, Stages
  <2>4. QED
    BY <1>1, <2>1, <2>3, WentOn
<1>5. QED
  BY <1>2, <1>3, <1>4

\* The file of an import that is beginning was not in the cache, so that no
\* lookup was sent to it.
LEMMA ImportStep ==
  ASSUME Inv, Import
  PROVE  Inv'
<1> DEFINE n == request.name
           t == data[n].text
<1>1. /\ run = "on" /\ request.at = "import" /\ n \in Names
      /\ data[n].file = None /\ cache[n] = NoFile /\ t # None
  BY DEF Import, At, Inv, SoFar
<1>2. /\ cache' = [cache EXCEPT ![n] = Writing(t)]
      /\ UNCHANGED <<data, run, fi>>
  BY DEF Import
<1>3. request' = [name |-> n, at |-> "dump"]
  BY DEF Import, Inv, TypeOK
<1>4. cache'[n] = Writing(t) /\ \A m \in Names \ {n} : cache'[m] = cache[m]
  BY <1>1, <1>2 DEF Inv, TypeOK
<1>5. TypeOK'
  <2>1. Writing(t) \in Cached
    BY <1>1 DEF Inv, TypeOK, Cached, Writing
  <2>2. QED
    BY <1>1, <1>2, <1>3, <2>1 DEF Inv, TypeOK, Stages
<1>6. SoFar' /\ OnlyWhenOn'
  BY <1>1, <1>2, <1>3, <1>4 DEF SoFar, OnlyWhenOn
<1>7. CacheOfThisRun'
  <2>1. ASSUME NEW m \in Names, cache'[m] # NoFile
        PROVE  /\ data[m].file = None
               /\ cache'[m].text = data[m].text /\ data[m].text # None
               /\ Ended(cache'[m]) \/ request' = [name |-> m, at |-> "dump"]
    <3>1. CASE m = n
      BY <1>1, <1>3, <1>4, <3>1 DEF Writing
    <3>2. CASE m # n
      <4>1. cache'[m] = cache[m] /\ request # [name |-> m, at |-> "dump"]
        BY <1>1, <1>4, <3>2
      <4>2. QED
        BY <1>1, <2>1, <4>1 DEF Inv, CacheOfThisRun
    <3>3. QED
      BY <3>1, <3>2
  <2>2. QED
    BY <1>2, <2>1 DEF CacheOfThisRun
<1>8. ServesPlayersFile'
  <2>1. fi[n] = Original
    <3>1. cache[n].state = "none"
      BY <1>1 DEF NoFile
    <3>2. QED
      BY <1>1, <3>1, NotTorn
  <2>2. QED
    BY <1>1, <1>2, <1>4, <2>1 DEF Inv, ServesPlayersFile
<1>9. QED
  BY <1>5, <1>6, <1>7, <1>8 DEF Inv

\* The import is closed when the lookup is answered, and whole if it has the length
\* it should have.
LEMMA DumpedStep ==
  ASSUME Inv, At("dump"), NEW state \in {"short", "whole"}, NEW len \in Nat,
         state = "whole" => len = Size[data[request.name].text], Dumped(state, len)
  PROVE  Inv'
<1> DEFINE n == request.name
           t == data[n].text
<1>1. /\ run = "on" /\ request.at = "dump" /\ n \in Names /\ data[n].file = None
      /\ cache[n] = Writing(t) /\ t # None
  BY DEF At, Inv, SoFar
<1>2. /\ cache' = [cache EXCEPT ![n] = Closed(t, state, len)]
      /\ fi' = [fi EXCEPT ![n] = [dir |-> "cache", size |-> Size[t]]]
      /\ request' = Idle /\ UNCHANGED <<data, run>>
  BY DEF Dumped, Serve, DumpedSize
<1>3. cache'[n] = Closed(t, state, len) /\ \A m \in Names \ {n} : cache'[m] = cache[m]
  BY <1>1, <1>2 DEF Inv, TypeOK
<1>4. t \in Texts /\ Size[t] \in Nat
  BY <1>1, SizeType DEF Inv, TypeOK
<1>5. TypeOK'
  <2>1. Closed(t, state, len) \in Cached
    BY <1>4 DEF Closed, Cached
  <2>2. QED
    BY <1>1, <1>2, <1>4, <2>1 DEF Inv, TypeOK, Idle, Stages
<1>6. SoFar' /\ OnlyWhenOn'
  BY <1>1, <1>2 DEF SoFar, OnlyWhenOn, Idle
<1>7. CacheOfThisRun'
  <2>1. \A m \in Names \ {n} : request # [name |-> m, at |-> "dump"]
    BY <1>1
  <2>2. \A m \in Names : cache'[m] # NoFile =>
           /\ data[m].file = None
           /\ cache'[m].text = data[m].text /\ data[m].text # None /\ Ended(cache'[m])
    BY <1>1, <1>3, <2>1 DEF Inv, CacheOfThisRun, Ended, Closed
  <2>3. QED
    BY <1>2, <2>2 DEF CacheOfThisRun
<1>8. ServesPlayersFile'
  BY <1>1, <1>2, <1>3 DEF Inv, TypeOK, ServesPlayersFile, Closed
<1>9. QED
  BY <1>5, <1>6, <1>7, <1>8 DEF Inv

LEMMA DumpStep ==
  ASSUME Inv, Dump \/ FlushFails
  PROVE  Inv'
<1>1. At("dump") /\ data[request.name].text \in Texts
  BY DEF Dump, FlushFails, At, Inv, TypeOK, SoFar
<1>2. Size[data[request.name].text] \in Nat
  BY <1>1, SizeType
<1>3. CASE Dump
  BY <1>1, <1>2, <1>3, DumpedStep DEF Dump
<1>4. CASE FlushFails
  <2>1. PICK len \in 0 .. Size[data[request.name].text] - 1 : Dumped("short", len)
    BY <1>4 DEF FlushFails
  <2>2. len \in Nat
    BY <1>2
  <2>3. QED
    BY <1>1, <2>1, <2>2, DumpedStep
<1>5. QED
  BY <1>3, <1>4

LEMMA NextInv == Inv /\ [Next]_vars => Inv'
<1> SUFFICES ASSUME Inv, [Next]_vars PROVE Inv'
  OBVIOUS
<1>1. CASE Edit \/ Start \/ Erase
  BY <1>1, BeforeHook
<1>2. CASE Crash \/ Abort
  BY <1>2, OffStep DEF Crash, Abort
<1>3. CASE Hook
  BY <1>3, HookPlaced
<1>4. CASE Lookup
  BY <1>4, LookupStep
<1>5. CASE DoBin
  BY <1>5, DoBinStep
<1>6. CASE DoTxt
  BY <1>6, DoTxtStep
<1>7. CASE Import
  BY <1>7, ImportStep
<1>8. CASE Dump \/ FlushFails
  BY <1>8, DumpStep
<1>9. CASE UNCHANGED vars
  BY <1>9 DEF vars, Inv, TypeOK, OnlyWhenOn, CacheOfThisRun, SoFar, ServesPlayersFile
<1>10. QED
  BY <1>1, <1>2, <1>3, <1>4, <1>5, <1>6, <1>7, <1>8, <1>9 DEF Next, HookStep

\* Wherever the game was stopped before, what a lookup sends it to is the
\* player's file or the import of the player's text, and all of that unless its
\* last flush failed.
THEOREM PlayersFileServed == Spec => []ServesPlayersFile
<1>1. Inv => ServesPlayersFile
  BY DEF Inv
<1>2. QED
  BY <1>1, InitInv, NextInv, PTL DEF Spec

\* Lookups of a file have one answer until the game is off.
LEMMA AnswerStays ==
  ASSUME Inv, [Next]_vars, run' = "on", NEW n \in Names, fi[n] # Original
  PROVE  AnswerHolds(n)
<1>1. CASE fi'[n] = fi[n]
  BY <1>1 DEF AnswerHolds
<1>2. CASE DoBin
  <2>1. CASE data[request.name].file # None
    <3>1. fi' = [fi EXCEPT ![request.name] =
                   [dir |-> "data", size |-> Size[data[request.name].file]]]
      BY <1>2, <2>1 DEF DoBin, Serve
    <3>2. n = request.name => fi[n].dir = "data" /\ fi[n].size = Size[data[n].file]
      BY <2>1 DEF Inv, ServesPlayersFile
    <3>3. fi[n] \in [dir : {"archive", "data", "cache"}, size : Nat]
      BY DEF Inv, TypeOK
    <3>4. fi'[n] = fi[n]
      BY <3>1, <3>2, <3>3 DEF Inv, TypeOK
    <3>5. QED
      BY <1>1, <3>4
  <2>2. QED
    BY <1>1, <1>2, <2>1 DEF DoBin, Goto
<1>3. CASE DoTxt
  <2> DEFINE m == request.name
  <2>1. CASE cache[m] # NoFile
    <3>1. fi' = [fi EXCEPT ![m] = [dir |-> "cache", size |-> cache[m].len]]
      BY <1>3, <2>1 DEF DoTxt, Serve, CachedSize
    <3>2. m \in Names /\ data[m].file = None /\ run = "on" /\ request.at = "txt"
      BY <1>3 DEF DoTxt, At, Inv, SoFar
    <3>3. Ended(cache[m])
      BY <2>1, <3>2 DEF Inv, CacheOfThisRun
    <3>4. CASE n # m
      <4>1. fi'[n] = fi[n]
        BY <3>1, <3>4 DEF Inv, TypeOK
      <4>2. QED
        BY <1>1, <4>1
    <3>5. CASE n = m /\ cache[n].state = "whole"
      <4>1. fi[n].dir = "cache" /\ fi[n].size = Size[data[n].text]
            /\ cache[n].text = data[n].text
        BY <3>2, <3>5 DEF Inv, ServesPlayersFile
      <4>2. cache[n].len = Size[cache[n].text]
        BY <3>3, <3>5 DEF Ended
      <4>3. fi[n] \in [dir : {"archive", "data", "cache"}, size : Nat]
        BY DEF Inv, TypeOK
      <4>4. fi'[n] = fi[n]
        BY <3>1, <3>5, <4>1, <4>2, <4>3 DEF Inv, TypeOK
      <4>5. QED
        BY <1>1, <4>4
    <3>6. CASE n = m /\ cache[n].state = "short"
      <4>1. fi'[n] = [dir |-> "cache", size |-> cache[n].len]
        BY <3>1, <3>6 DEF Inv, TypeOK
      <4>2. QED
        BY <3>6, <4>1 DEF AnswerHolds
    <3>7. QED
      BY <3>3, <3>4, <3>5, <3>6 DEF Ended
  <2>2. QED
    BY <1>1, <1>3, <2>1 DEF DoTxt, Goto, Return
<1>4. CASE Dump \/ FlushFails
  <2>1. /\ data[request.name].file = None
        /\ cache[request.name].state = "writing"
    BY <1>4 DEF Dump, FlushFails, At, Inv, SoFar, Writing
  <2>2. n # request.name
    BY <2>1, NotTorn
  <2>3. fi'[n] = fi[n]
    BY <1>4, <2>2 DEF Dump, FlushFails, Dumped, Serve, Inv, TypeOK
  <2>4. QED
    BY <1>1, <2>3
<1>5. CASE Crash \/ Abort
  BY <1>5 DEF Crash, Abort, Off
<1>6. CASE Edit \/ Start \/ Erase \/ Hook \/ Lookup \/ Import
  BY <1>1, <1>6 DEF Edit, Start, Erase, Hook, Lookup, Import
<1>7. QED
  BY <1>1, <1>2, <1>3, <1>4, <1>5, <1>6 DEF Next, HookStep, vars

\* A later lookup tells the game what the first did, unless the last flush of its
\* import failed.
THEOREM OneAnswer == Spec => SameAnswer
<1>1. Inv /\ [Next]_vars =>
        [run' = "on" => \A n \in Names : fi[n] # Original => AnswerHolds(n)]_vars
  BY AnswerStays
<1>2. QED
  BY <1>1, InitInv, NextInv, PTL DEF Spec, SameAnswer
===============================================================================
