------------------------------ MODULE ConfigFile ------------------------------
(***************************************************************************)
(* /etc/rtb.cnf write by write: SaveConfig and LoadConfig (monitorset.c),    *)
(* the file helpers under them (fileop.c), the reboot notifier (module.c)    *)
(* and the shutdown status of the netlink commands (rtbnetlink.c).           *)
(*                                                                         *)
(* SaveConfig runs in the writer thread after each log, in the netlink       *)
(* handler after each command and in the notifier, without a lock: saves     *)
(* overlap each other and the edits of the handler, any write may be short,  *)
(* and the machine may stop between two writes.                              *)
(*                                                                         *)
(* Backup sets and items are numbers in the order of their trees. The file   *)
(* is a header and a row of cells; an entry takes as many cells as its       *)
(* structure is long.                                                        *)
(***************************************************************************)
EXTENDS Integers, FiniteSets, FiniteSetsExt

CONSTANTS
  Sets,       \* keys of backup sets
  Items,      \* keys of items
  SetOf,      \* the backup set of an item
  SetLen,     \* cells of a MONITOR_SET_ENTRY
  ItemLen,    \* cells of a MONITOR_FILE_ENTRY
  MaxEdits,   \* bound: changes to the trees
  MaxSaves    \* bound: saves begun

Entries == Sets \cup Items
NoNode  == 0

ASSUME ConfigAssumption ==
  /\ Sets \subseteq Nat \ {NoNode} /\ Items \subseteq Nat \ {NoNode}
  /\ Sets \cap Items = {} /\ IsFiniteSet(Entries)
  /\ SetOf \in [Items -> Sets]
  /\ SetLen \in Nat \ {0} /\ ItemLen \in Nat \ {0}
  /\ MaxEdits \in Nat /\ MaxSaves \in Nat

(* dwLastNormalShutdown, from usrlink.h *)
Status == {"systeminit", "systemrunning", "systemshutdown", "systemexceptionreboot"}

Savers == {"writer", "handler", "reboot"}

LenOf(e) == IF e \in Sets THEN SetLen ELSE ItemLen
Capacity == SetLen * Cardinality(Sets) + ItemLen * Cardinality(Items)
Sizes    == 0..Capacity
Blank    == <<NoNode, 0>>
Cells    == {Blank} \cup {<<e, k>> : e \in Entries, k \in 0..(SetLen + ItemLen)}

(* CONFIG_FILE_HEADER without the offsets: the sets follow the header and    *)
(* the items follow the sets.                                                *)
Header == [status : Status, sizeSet : Sizes, sizeFiles : Sizes]

(* One run of SaveConfig: where it is, the entry it is about to write, the   *)
(* offset it has reached, and its own copy of the header. kept, seen: history,*)
(* what the trees have held all the time, or at some time, since it began.   *)
Pcs    == {"idle", "header", "sets", "items", "rewrite"}
Save   == [pc : Pcs, node : Entries \cup {NoNode}, at : Sizes, cfh : Header,
           kept : SUBSET Entries, seen : SUBSET Entries]

VARIABLES
  tree,      \* the entries of both trees
  status,    \* dwLastNormalShutdown
  header,    \* the header in the file
  data,      \* the cells after it
  save,      \* the run of SaveConfig of each caller
  edits,     \* changes made to the trees
  saves,     \* saves begun
  group,     \* history: of the saves that overlap the last one to begin
  last,      \* history: what the last completed save promises
  reboot     \* history: the notifier has run, and how

file    == <<header, data>>
memory  == <<tree, status>>
counts  == <<edits, saves>>
vars    == <<tree, status, header, data, save, edits, saves, group, last, reboot>>

NoHeader == [status |-> "systeminit", sizeSet |-> 0, sizeFiles |-> 0]
Idle     == [pc |-> "idle", node |-> NoNode, at |-> 0, cfh |-> NoHeader, kept |-> {}, seen |-> {}]
NoPromise == [valid |-> FALSE, kept |-> {}, seen |-> {}]
NoReboot == [begun |-> FALSE, wrote |-> FALSE, alone |-> FALSE, reset |-> FALSE]

Init ==
  /\ tree = {} /\ status = "systeminit"
  /\ header = NoHeader /\ data = [i \in 0..(Capacity - 1) |-> Blank]
  /\ save = [s \in Savers |-> Idle]
  /\ edits = 0 /\ saves = 0
  /\ group = [overlap |-> FALSE, edited |-> FALSE, strayed |-> FALSE]
  /\ last = NoPromise
  /\ reboot = NoReboot

Writing(s) == save[s].pc \in {"sets", "items", "rewrite"}
Others(s)  == Savers \ {s}

-----------------------------------------------------------------------------
(* Walking a tree *)

First(t)      == IF t = {} THEN NoNode ELSE Min(t)
Later(t, n)   == {e \in t : e > n}
TreeOf(pc)    == IF pc = "sets" THEN tree \cap Sets ELSE tree \cap Items

(* rb_next. From an entry that was erased and freed under the walk it goes   *)
(* to some later entry or ends. (It is not modelled that the walk may follow *)
(* a pointer that is none.)                                                  *)
RbNext(t, n) ==
  IF n \in t THEN {First(Later(t, n))} ELSE Later(t, n) \cup {NoNode}

-----------------------------------------------------------------------------
(* SaveConfig *)

(* The status is read before the file is opened. *)
SaveStarts(s, st) ==
  /\ save[s].pc = "idle" /\ saves < MaxSaves
  /\ saves' = saves + 1
  /\ save' = [save EXCEPT ![s] = [Idle EXCEPT
                !.pc = "header", !.cfh.status = st, !.kept = tree, !.seen = tree]]

SaveConfig(s) ==
  /\ s # "reboot" /\ SaveStarts(s, status)
  /\ UNCHANGED <<memory, file, edits, group, last, reboot>>

Stop(s) == save' = [save EXCEPT ![s] = Idle]

(* Deviation: the first header carries the sizes that are in the file. *)
WriteHeaderKeepingSizes(s) ==
  /\ save[s].pc = "header"
  /\ header' = [header EXCEPT !.status = save[s].cfh.status]
  /\ save' = [save EXCEPT ![s].pc = "sets", ![s].node = First(tree \cap Sets)]
  /\ group' = IF \E o \in Others(s) : Writing(o)
                THEN [group EXCEPT !.overlap = TRUE]
                ELSE [overlap |-> FALSE, edited |-> FALSE, strayed |-> FALSE]
  /\ last' = NoPromise
  /\ reboot' = [reboot EXCEPT !.wrote = @ \/ s = "reboot"]
  /\ UNCHANGED <<memory, data, counts>>

(* The first header: no entries. *)
WriteHeader(s) ==
  /\ save[s].pc = "header"
  /\ header' = save[s].cfh
  /\ save' = [save EXCEPT ![s].pc = "sets", ![s].node = First(tree \cap Sets)]
  /\ group' = IF \E o \in Others(s) : Writing(o)
                THEN [group EXCEPT !.overlap = TRUE]
                ELSE [overlap |-> FALSE, edited |-> FALSE, strayed |-> FALSE]
  /\ last' = NoPromise
  /\ reboot' = [reboot EXCEPT !.wrote = @ \/ s = "reboot"]
  /\ UNCHANGED <<memory, data, counts>>

(* file_write of an entry: n of its cells reach the file. *)
FileWrite(at, e, n) ==
  data' = [i \in DOMAIN data |-> IF i >= at /\ i < at + n THEN <<e, i - at>> ELSE data[i]]

(* Every entry has its place: a walk that strays may not revisit one. *)
WriteEntry(s) ==
  LET e == save[s].node
      t == TreeOf(save[s].pc) IN
  /\ save[s].pc \in {"sets", "items"} /\ e # NoNode
  /\ FileWrite(save[s].at, e, LenOf(e))
  /\ \E next \in RbNext(t, e) :
       save' = [save EXCEPT ![s].node = next, ![s].at = @ + LenOf(e)]
  /\ group' = [group EXCEPT !.strayed = @ \/ e \notin t]
  /\ UNCHANGED <<memory, header, counts, last, reboot>>

(* A short write: the rest of the save is skipped, and so is its error code. *)
WriteEntryShort(s) ==
  /\ save[s].pc \in {"sets", "items"} /\ save[s].node # NoNode
  /\ \E n \in 0..(LenOf(save[s].node) - 1) : FileWrite(save[s].at, save[s].node, n)
  /\ Stop(s)
  /\ UNCHANGED <<memory, header, counts, group, last, reboot>>

(* Deviation: the second walk goes over the tree of sets again. *)
SetsDoneSameTree(s) ==
  /\ save[s].pc = "sets" /\ save[s].node = NoNode
  /\ save' = [save EXCEPT ![s].pc = "items", ![s].node = First(tree \cap Sets),
                          ![s].cfh.sizeSet = save[s].at]
  /\ UNCHANGED <<memory, file, counts, group, last, reboot>>

SetsDone(s) ==
  /\ save[s].pc = "sets" /\ save[s].node = NoNode
  /\ save' = [save EXCEPT ![s].pc = "items", ![s].node = First(tree \cap Items),
                          ![s].cfh.sizeSet = save[s].at]
  /\ UNCHANGED <<memory, file, counts, group, last, reboot>>

(* Deviation: the items are written and not counted. *)
ItemsDoneUncounted(s) ==
  /\ save[s].pc = "items" /\ save[s].node = NoNode
  /\ save' = [save EXCEPT ![s].pc = "rewrite"]
  /\ UNCHANGED <<memory, file, counts, group, last, reboot>>

ItemsDone(s) ==
  /\ save[s].pc = "items" /\ save[s].node = NoNode
  /\ save' = [save EXCEPT ![s].pc = "rewrite",
                          ![s].cfh.sizeFiles = save[s].at - save[s].cfh.sizeSet]
  /\ UNCHANGED <<memory, file, counts, group, last, reboot>>

Rewrite(s) ==
  /\ save[s].pc = "rewrite"
  /\ header' = save[s].cfh
  /\ last' = [valid |-> TRUE, kept |-> save[s].kept, seen |-> save[s].seen]
  /\ Stop(s)
  /\ UNCHANGED <<memory, data, counts, group, reboot>>

(* The file cannot be opened, or a header is not written. *)
SaveFails(s) ==
  /\ save[s].pc \in {"header", "rewrite"}
  /\ Stop(s)
  /\ UNCHANGED <<memory, file, counts, group, last, reboot>>

-----------------------------------------------------------------------------
(* The netlink handler *)

(* ms_insert, mi_insert, rb_erase: one entry comes or goes, a set before its *)
(* items and after them.                                                     *)
Edit ==
  /\ save["handler"].pc = "idle" /\ edits < MaxEdits
  /\ \E e \in Entries :
       \/ e \notin tree /\ (e \in Items => SetOf[e] \in tree) /\ tree' = tree \cup {e}
       \/ e \in tree /\ (\A i \in Items \cap tree : SetOf[i] # e) /\ tree' = tree \ {e}
  /\ edits' = edits + 1
  /\ save' = [s \in Savers |-> IF save[s].pc = "idle" THEN save[s]
                ELSE [save[s] EXCEPT !.kept = @ \cap tree', !.seen = @ \cup tree']]
  /\ group' = [group EXCEPT !.edited = @ \/ \E s \in Savers : Writing(s)]
  /\ UNCHANGED <<status, file, saves, last, reboot>>

(* NOTIFY_TYPE_QUERY_LAST_SHUTDOWN_STATUS and RESET: the query sets the      *)
(* status it then answers with.                                              *)
ResetShutdownStatus ==
  /\ save["handler"].pc = "idle" /\ status # "systemrunning"
  /\ status' = "systemrunning"
  /\ reboot' = [reboot EXCEPT !.reset = reboot.begun]
  /\ UNCHANGED <<tree, file, save, counts, group, last>>

-----------------------------------------------------------------------------
(* Shutdown and start *)

RebootBegins ==
  /\ ~reboot.begun
  /\ status' = "systemshutdown"
  /\ reboot' = [begun |-> TRUE, wrote |-> FALSE, reset |-> FALSE,
                alone |-> \A o \in Others("reboot") : save[o].pc = "idle"]
  /\ UNCHANGED <<tree, file, edits, group, last>>

(* Deviation: the save takes the status before it is set. *)
MyRebootLate == RebootBegins /\ SaveStarts("reboot", status)

MyReboot == RebootBegins /\ SaveStarts("reboot", "systemshutdown")

Holds(d, at, e) ==
  \A k \in 0..(LenOf(e) - 1) : at + k \in DOMAIN d /\ d[at + k] = <<e, k>>

SetPlaces  == {i * SetLen : i \in 0..(header.sizeSet \div SetLen - 1)}
ItemPlaces == {header.sizeSet + i * ItemLen : i \in 0..(header.sizeFiles \div ItemLen - 1)}

(* What LoadConfig reads: an item whose set is not there is dropped. (What    *)
(* an entry that is no entry's bytes makes of the trees is left out.)         *)
LoadedSets  == {g \in Sets : \E at \in SetPlaces : Holds(data, at, g)}
LoadedItems ==
  {i \in Items : SetOf[i] \in LoadedSets /\ \E at \in ItemPlaces : Holds(data, at, i)}
Loaded      == LoadedSets \cup LoadedItems

(* Reading comes upon bytes that are not an entry. *)
Torn ==
  \/ \E at \in SetPlaces : \A g \in Sets : ~Holds(data, at, g)
  \/ \E at \in ItemPlaces : \A i \in Items : ~Holds(data, at, i)

(* The machine stops between any two writes; LoadConfig runs at the next     *)
(* start, before there is anyone to save.                                    *)
LoadConfig ==
  /\ tree' = Loaded
  /\ status' = header.status
  /\ save' = [s \in Savers |-> Idle]
  /\ reboot' = NoReboot
  /\ UNCHANGED <<file, counts, group, last>>

-----------------------------------------------------------------------------
Next ==
  \/ \E s \in Savers :
       \/ SaveConfig(s) \/ WriteHeader(s) \/ WriteEntry(s) \/ WriteEntryShort(s)
       \/ SetsDone(s) \/ ItemsDone(s) \/ Rewrite(s) \/ SaveFails(s)
  \/ Edit \/ ResetShutdownStatus \/ MyReboot \/ LoadConfig

Spec == Init /\ [][Next]_vars

-----------------------------------------------------------------------------
(* Properties *)

(* A walk stays in its own tree, and the offset of a save in the file        *)
(* (writeoffset, monitorset.c:953-994).                                      *)
TypeOK ==
  /\ tree \subseteq Entries /\ status \in Status
  /\ header \in Header
  /\ data \in [0..(Capacity - 1) -> Cells]
  /\ save \in [Savers -> Save]
  /\ \A s \in Savers :
       /\ save[s].pc = "sets" => save[s].node \in Sets \cup {NoNode}
       /\ save[s].pc = "items" => save[s].node \in Items \cup {NoNode}
  /\ edits \in 0..MaxEdits /\ saves \in 0..MaxSaves
  /\ group \in [overlap : BOOLEAN, edited : BOOLEAN, strayed : BOOLEAN]
  /\ last \in [valid : BOOLEAN, kept : SUBSET Entries, seen : SUBSET Entries]
  /\ reboot \in [begun : BOOLEAN, wrote : BOOLEAN, alone : BOOLEAN, reset : BOOLEAN]

(* The saves that made the file what it is did not overlap while the trees   *)
(* changed, and no walk lost the entry it stood on.                          *)
Sane == ~(group.overlap /\ group.edited) /\ ~group.strayed

(* Whatever writes were short and wherever the machine stopped, the file      *)
(* holds no half-written entry: either it is the work of a completed save or  *)
(* it loads as empty (the header with zero sizes of monitorset.c:958 stays    *)
(* until the last line of the save replaces it).                              *)
NeverPartlySaved == Sane => ~Torn /\ (last.valid \/ Loaded = {})

(* What a completed save leaves in the file, with the trees changing under    *)
(* its walks: every entry that was there all the time, none that never was    *)
(* (monitorset.c:968-998).                                                    *)
StayedEntriesSaved ==
  Sane /\ last.valid =>
    /\ last.kept \subseteq Loaded
    /\ Loaded \subseteq last.seen

(* Once the notifier has written a header, and unless a command resets the    *)
(* status or a save from before the notifier was still at work, the file says *)
(* that the system was shut down, whoever saves after it (module.c:53-54).    *)
CleanShutdownRecorded ==
  reboot.wrote /\ reboot.alone /\ ~reboot.reset => header.status = "systemshutdown"
=============================================================================
