---------------------------- MODULE ArchiveStore ----------------------------
(* What cl3-tool and stcm-editor promise about an archive: it is a list of   *)
(* files with links between them, and a command replaces all of it or        *)
(* nothing.  There are no offsets, no temporary files and no crashes here.   *)
EXTENDS Naturals, Sequences

CONSTANTS Names, Contents, Main, Absent, Torn

VARIABLES stored,  \* the archive: a sequence of [name, src, links]
          folder,  \* the directory it is extracted to: name -> content
          draft    \* the file a session was saved to

vars == <<stored, folder, draft>>

NamesOf(list) == {list[i].name : i \in DOMAIN list}

Present == {n \in Names : folder[n] # Absent}

(* Every file has one entry, and every link leads to an entry. *)
Closed(list) ==
    /\ \A i, j \in DOMAIN list : list[i].name = list[j].name => i = j
    /\ \A i \in DOMAIN list : \A j \in DOMAIN list[i].links :
         list[i].links[j] \in NamesOf(list)

Init == Closed(stored) /\ draft = Absent

(* Files of the list, in its order. *)
InOrder(list, first, second) ==
    \E i, j \in DOMAIN list :
        i < j /\ list[i].name = first /\ list[j].name = second

(* The files of the folder replace the archive's: those that stay keep their *)
(* order and their links, those that are new follow them and have no links.  *)
Packed(new, old) ==
    /\ NamesOf(new) = Present
    /\ Closed(new)
    /\ \A i \in DOMAIN new :
         /\ new[i].src = folder[new[i].name]
         /\ new[i].name \notin NamesOf(old) => new[i].links = <<>>
         /\ \A j \in DOMAIN old :
              old[j].name = new[i].name => new[i].links = old[j].links
    /\ \A i, j \in DOMAIN new :
         i < j /\ new[j].name \in NamesOf(old) =>
            InOrder(old, new[i].name, new[j].name)

Pack ==
    /\ folder # Absent
    /\ \E new \in {stored'} : \E old \in {stored} : Packed(new, old)
    /\ UNCHANGED <<folder, draft>>

(* Text is imported into the script. *)
Import ==
    \E i \in DOMAIN stored : \E c \in Contents :
        /\ stored[i].name = Main
        /\ stored' = [stored EXCEPT ![i].src = c]
        /\ UNCHANGED <<folder, draft>>

Save ==
    /\ \E new \in {draft'} : new = Torn \/ Closed(new)
    /\ UNCHANGED <<stored, folder>>

Install ==
    /\ draft \notin {Absent, Torn}
    /\ stored' = draft
    /\ draft' = Absent
    /\ UNCHANGED folder

Discard == draft' = Absent /\ UNCHANGED <<stored, folder>>

Edit == UNCHANGED <<stored, draft>>

Next ==
    \/ Edit \/ Discard \/ Install
    \/ stored' # stored /\ (Pack \/ Import)
    \/ draft' # Absent /\ Save

Spec == Init /\ [][Next]_vars
=============================================================================
