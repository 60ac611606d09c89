--------------------------- MODULE MonitorRegistry ---------------------------
(***************************************************************************)
(* The registry of backup sets and monitored items: the netlink commands    *)
(* that edit it (rbtnetlink.c, monitorset.c), the two search trees behind it *)
(* (rb.c), the look-ups of the hooks, and its life across restarts through  *)
(* /etc/rtb.cnf (SaveConfig, LoadConfig, myreboot).                         *)
(*                                                                         *)
(* A command holds no lock (the calls of WaitWriteForMonitor are commented  *)
(* out), and neither does a hook or a save: each comes between the steps of *)
(* the others, and a crash between any two. One management application sends *)
(* one command at a time.                                                   *)
(*                                                                         *)
(* Paths are numbers in the order of strncmp, with the relation Prefix; the *)
(* tree of items is sorted by them whatever its shape, so only the results  *)
(* that depend on the shape are nondeterministic.                           *)
(***************************************************************************)
EXTENDS Naturals, FiniteSets

CONSTANTS
  Guids,     \* identities of backup sets (guidSetId), as positive numbers in memcmp's order
  NoGuid,    \* the owner of a path that is not an item
  Paths,     \* paths, as positive numbers in lexicographic order
  Filters,   \* bound: the paths commands name, among Paths
  Prefix,    \* <<p, q>> : p is a proper prefix of q
  Callers,   \* tasks inside a hook
  Savers,    \* tasks other than the handler that save: the writer thread, a reboot
  MaxItems   \* bound: items of one command

NoItem == 0

(* What strings in lexicographic order satisfy: a prefix comes first, and so *)
(* does every path between it and what it is a prefix of.                    *)
ASSUME RegistryAssumption ==
  /\ Guids \subseteq Nat \ {0}
  /\ NoGuid \notin Guids
  /\ Paths \subseteq Nat \ {0}
  /\ Filters \subseteq Paths
  /\ Prefix \subseteq Paths \X Paths
  /\ \A p, q \in Paths : <<p, q>> \in Prefix => p < q
  /\ \A p, q, r \in Paths : <<p, r>> \in Prefix /\ p < q /\ q < r => <<p, q>> \in Prefix
  /\ \A p, q, r \in Paths : <<p, q>> \in Prefix /\ <<q, r>> \in Prefix => <<p, r>> \in Prefix
  /\ MaxItems \in Nat

(* pSetEntry: not looked up yet, the entry of the item's set, or memory that *)
(* is not that entry, or no entry any longer.                                *)
Pointers == {"null", "live", "stale"}
Entry    == [set : Guids \cup {NoGuid}, ptr : Pointers]
NoEntry  == [set |-> NoGuid, ptr |-> "null"]

(* A hook with an item: the item (NoItem once it has been freed), and what   *)
(* the hook's search for the entry of the item's set has brought (set, got). *)
Held     == [path : Paths \cup {NoItem}, live : BOOLEAN,
             set : Guids \cup {NoGuid}, got : Pointers \cup {"unread"}]
Holding(p) == [path |-> p, live |-> TRUE, set |-> NoGuid, got |-> "unread"]
NotHeld  == Holding(NoItem)

(* The file: a header that gives the sizes, or zero sizes while a save has   *)
(* not ended, or whatever two saves at the same time have made of it; and    *)
(* the records written so far.                                               *)
Unowned  == [p \in Paths |-> NoGuid]
Config   == [state : {"whole", "zeroed", "mixed"},
             sets : SUBSET Guids, owner : [Paths -> Guids \cup {NoGuid}]]
Blank(state) == [state |-> state, sets |-> {}, owner |-> Unowned]

(* A save: the walk it is in, the entry it stands on, whether that has been freed. *)
Walker   == [pc : {"idle", "sets", "items"}, at : Guids \cup Paths \cup {0}, astray : BOOLEAN]
NoWalk   == [pc |-> "idle", at |-> 0, astray |-> FALSE]

VARIABLES
  sets,      \* the tree of sets
  items,     \* the tree of items, by path
  setCount,  \* MonitorSet.ulCounts
  cnf,       \* /etc/rtb.cnf
  hpc,       \* where the netlink handler is
  cmd,       \* the command it works on
  held,      \* the item each hook has found and not yet used
  saver,     \* where each save outside the handler is
  session,   \* history: how this session's registry came about
  lost,      \* history: a deletion has left something behind
  strayed    \* history: a hook has written pSetEntry into another item than its own

memory  == <<sets, items, setCount>>
disk    == <<cnf, saver>>
history == <<session, lost, strayed>>
vars    == <<sets, items, setCount, cnf, hpc, cmd, held, saver, session, lost, strayed>>

Owner     == [p \in Paths |-> items[p].set]
Present   == {p \in Paths : items[p].set # NoGuid}
ItemsOf(g) == {p \in Paths : items[p].set = g}
NoItems   == [p \in Paths |-> NoEntry]

(* A command with the items it has yet to do; broken: the walk over the tree *)
(* it is erasing from has lost its way.                                      *)
Command   == [guid : Guids \cup {NoGuid}, todo : SUBSET Paths, broken : BOOLEAN]
NoCommand == [guid |-> NoGuid, todo |-> {}, broken |-> FALSE]

Init ==
  /\ sets = {} /\ items = NoItems /\ setCount = 0
  /\ cnf = Blank("whole")
  /\ hpc = "idle" /\ cmd = NoCommand
  /\ held = [c \in Callers |-> NotHeld]
  /\ saver = [s \in Savers |-> NoWalk]
  /\ session = "first" /\ lost = FALSE /\ strayed = FALSE

-----------------------------------------------------------------------------
(* The trees *)

Covers(q, p) == q = p \/ <<q, p>> \in Prefix
Found(t, p)  == {q \in t : Covers(q, p)}

(* The walk passes every entry next to the place of p in the order, and any  *)
(* other by chance: it surely stops when the last entry not after p covers p; *)
(* an entry that covers p from further off is met or not.                    *)
SurelyFound(t, p) ==
  \E q \in Found(t, p) : \A r \in t : r <= p => r <= q
MiSearch(t, p) ==
  IF SurelyFound(t, p) THEN Found(t, p) ELSE Found(t, p) \cup {NoItem}

(* GetMonitorSetEntry does not look when ulCounts is zero. *)
GetMonitorSetEntryFinds(g) == setCount > 0 /\ g \in sets

(* Freed entries that hooks still hold are no longer items. *)
Release(gone) ==
  held' = [c \in Callers |-> IF held[c].path \in gone
                               THEN [held[c] EXCEPT !.path = NoItem, !.live = FALSE]
                               ELSE held[c]]

(* Neither are freed sets that hooks are about to store a pointer to, and    *)
(* saves may stand on a freed entry.                                         *)
ReleaseSet(g) ==
  held' = [c \in Callers |-> IF held[c].set = g /\ held[c].got = "live"
                               THEN [held[c] EXCEPT !.got = "stale"]
                               ELSE held[c]]
LeaveAstray(pc, gone) ==
  saver' = [s \in Savers |-> IF saver[s].pc = pc /\ saver[s].at \in gone
                               THEN [saver[s] EXCEPT !.astray = TRUE]
                               ELSE saver[s]]

Without(gone) == [p \in Paths |-> IF p \in gone THEN NoEntry ELSE items[p]]
With(p, e)    == [items EXCEPT ![p] = e]

(* The entry of set g is freed: pointers to it are left dangling. *)
Dangling(its, g) ==
  [p \in Paths |-> IF its[p].set = g /\ its[p].ptr = "live"
                     THEN [set |-> g, ptr |-> "stale"] ELSE its[p]]

-----------------------------------------------------------------------------
(* process_netlink_cmd *)

HandlerGoes(from, to) == hpc = from /\ hpc' = to

FilterItems == {ps \in SUBSET Filters : Cardinality(ps) <= MaxItems}

(* The handler returns without SaveConfig. *)
GiveUp == hpc' = "idle" /\ cmd' = NoCommand

Accept(g, ps, to) ==
  /\ HandlerGoes("idle", to)
  /\ cmd' = [guid |-> g, todo |-> ps, broken |-> FALSE]
  /\ UNCHANGED <<memory, disk, held, history>>

(* ConfigAddMonitorSet, up to the choice AddMonitorSet makes between a new   *)
(* set and the existing one, which ADDSET replaces and ADDITEM keeps.        *)
AddSet(g, ps)  == Accept(g, ps, IF GetMonitorSetEntryFinds(g) THEN "replace" ELSE "insert")
AddItem(g, ps) == Accept(g, ps, IF GetMonitorSetEntryFinds(g) THEN "items" ELSE "insert")
DelItem(ps)    == Accept(NoGuid, ps, "remove")

DelSet(g) == Accept(g, {}, "delete")
DelAll    == Accept(NoGuid, {}, "clear")

(* DelMonitorItemsBySetId and DelAllMonitorSet erase and free the entry they  *)
(* stand on, then take the next one from its links. The allocator may have   *)
(* overwritten them, and rb_erase may have moved the next entry to the place *)
(* of the erased one: after an erasure the walk may end early. (It is not    *)
(* modelled that it may also reach entries freed before, and free them again.) *)
Walking == cmd' \in {cmd, [cmd EXCEPT !.broken = TRUE]}
WalkEnds(left) ==
  /\ left # {} => cmd.broken
  /\ lost' = (lost \/ (cmd.broken /\ left # {}))
NextWalk == cmd' = [cmd EXCEPT !.broken = FALSE]

Erase(p) ==
  /\ items' = Without({p})
  /\ Release({p}) /\ LeaveAstray("items", {p})
  /\ Walking
  /\ UNCHANGED <<sets, setCount, cnf, hpc, history>>

(* DelMonitorSet: the items of the set, then the set. *)
Deleting == hpc \in {"replace", "delete"}

DelMonitorItem(p) == Deleting /\ ~cmd.broken /\ p \in ItemsOf(cmd.guid) /\ Erase(p)

(* Deviation: ulCounts is decremented whether it is zero or not. *)
UncountedUntested(g) == IF g \in sets THEN setCount - 1 ELSE setCount

Uncounted(g) == IF g \in sets /\ setCount > 0 THEN setCount - 1 ELSE setCount

EraseSet(count) ==
  /\ Deleting
  /\ IF hpc = "replace" THEN hpc' = "insert" /\ NextWalk
                        ELSE hpc' = "save" /\ cmd' = NoCommand
  /\ items' = Dangling(items, cmd.guid)
  /\ sets' = sets \ {cmd.guid}
  /\ setCount' = count
  /\ ReleaseSet(cmd.guid) /\ LeaveAstray("sets", {cmd.guid})
  /\ UNCHANGED <<cnf, session, strayed>>

(* Deviations: the set goes without its items; ulCounts is reset. *)
DelMonitorSetOnly      == EraseSet(Uncounted(cmd.guid)) /\ UNCHANGED lost
DelMonitorSetResetting == WalkEnds(ItemsOf(cmd.guid)) /\ EraseSet(0)

DelMonitorSet == WalkEnds(ItemsOf(cmd.guid)) /\ EraseSet(Uncounted(cmd.guid))

(* DelAllMonitorSet: every item, then every set, then the counters. *)
ClearItem(p) == hpc = "clear" /\ ~cmd.broken /\ p \in Present /\ Erase(p)

ItemsCleared ==
  /\ HandlerGoes("clear", "clearsets")
  /\ WalkEnds(Present)
  /\ NextWalk
  /\ UNCHANGED <<memory, disk, held, session, strayed>>

ClearSet(g) ==
  /\ hpc = "clearsets" /\ ~cmd.broken /\ g \in sets
  /\ sets' = sets \ {g}
  /\ items' = Dangling(items, g)
  /\ ReleaseSet(g) /\ LeaveAstray("sets", {g})
  /\ Walking
  /\ UNCHANGED <<setCount, cnf, hpc, history>>

ClearCounters ==
  /\ HandlerGoes("clearsets", "save")
  /\ WalkEnds(sets)
  /\ setCount' = 0
  /\ cmd' = NoCommand
  /\ UNCHANGED <<sets, items, disk, held, session, strayed>>

(* MonitorSetEntryAlloc and ms_insert: -3 without memory, -1 for a set that  *)
(* is in the tree although GetMonitorSetEntry did not find it.               *)
InsertMonitorSet ==
  /\ hpc = "insert"
  /\ cmd.guid \notin sets
  /\ hpc' = "items"
  /\ sets' = sets \cup {cmd.guid}
  /\ setCount' = setCount + 1
  /\ UNCHANGED <<items, disk, cmd, held, history>>

InsertMonitorSetFails ==
  /\ hpc = "insert"
  /\ GiveUp
  /\ UNCHANGED <<memory, disk, held, history>>

Remaining(p) == [cmd EXCEPT !.todo = @ \ {p}]

(* Deviation: the result of the search is not looked at. *)
AddMonitorItemAlways(p) ==
  /\ hpc = "items" /\ p \in cmd.todo
  /\ items' = With(p, [set |-> cmd.guid, ptr |-> "null"])
  /\ cmd' = Remaining(p)
  /\ UNCHANGED <<sets, setCount, disk, hpc, held, history>>

(* One item of the command: it is inserted unless one that covers it is met. *)
(* The caller's pSetEntry is not kept.                                       *)
AddMonitorItem(p) ==
  /\ hpc = "items" /\ p \in cmd.todo
  /\ \E r \in MiSearch(Present, p) :
       items' = IF r = NoItem THEN With(p, [set |-> cmd.guid, ptr |-> "null"]) ELSE items
  /\ cmd' = Remaining(p)
  /\ UNCHANGED <<sets, setCount, disk, hpc, held, history>>

(* An invalid path, or no memory for the entry: the rest is not added. *)
AddMonitorItemFails(p) ==
  /\ hpc = "items" /\ p \in cmd.todo
  /\ GiveUp
  /\ UNCHANGED <<memory, disk, held, history>>

(* ConfigDelMonitorItem removes whatever mi_search meets, a covering item of *)
(* another set included.                                                     *)
RemoveMonitorItem(p) ==
  /\ hpc = "remove" /\ p \in cmd.todo
  /\ \E r \in MiSearch(Present, p) :
       items' = Without({r}) /\ Release({r} \ {NoItem}) /\ LeaveAstray("items", {r})
  /\ cmd' = Remaining(p)
  /\ UNCHANGED <<sets, setCount, cnf, hpc, history>>

ItemsDone ==
  /\ hpc \in {"items", "remove"} /\ cmd.todo = {}
  /\ hpc' = "save" /\ cmd' = NoCommand
  /\ UNCHANGED <<memory, disk, held, history>>

-----------------------------------------------------------------------------
(* SaveConfig *)

(* The header with zero sizes comes first and hides the records; a second    *)
(* save at the same time writes over the records of the first.               *)
SavesOf(s)        == hpc = "saving" \/ \E t \in Savers \ {s} : saver[t].pc # "idle"
BeginSave(others) == cnf' = Blank(IF others THEN "mixed" ELSE "zeroed")

(* The handler's own save: nobody else edits the trees, so its walks find    *)
(* them as they are. The file may not open; a write may fail.                *)
BeginHandlerSave ==
  /\ HandlerGoes("save", "saving")
  /\ BeginSave(\E t \in Savers : saver[t].pc # "idle")
  /\ UNCHANGED <<memory, cmd, held, saver, history>>

Snapshot == [state |-> "whole", sets |-> sets, owner |-> Owner]

EndHandlerSave ==
  /\ hpc = "saving" /\ GiveUp
  /\ cnf' = IF cnf.state = "mixed" THEN cnf ELSE Snapshot
  /\ UNCHANGED <<memory, held, saver, history>>

HandlerSaveFails ==
  /\ hpc \in {"save", "saving"} /\ GiveUp
  /\ UNCHANGED <<memory, disk, held, history>>

(* createiolog saves after each log and myreboot before the machine stops,   *)
(* whatever the handler is doing: the walks go from entry to entry, first of *)
(* the sets, then of the items.                                              *)
SaverGoes(s, to) == saver' = [saver EXCEPT ![s] = to]
WalkTo(pc, at)   == [pc |-> pc, at |-> at, astray |-> FALSE]
Saving(s, pc)    == hpc # "down" /\ saver[s].pc = pc
SaveLeaves       == UNCHANGED <<memory, hpc, cmd, held, history>>

BeginLogSave(s) ==
  /\ Saving(s, "idle")
  /\ SaverGoes(s, WalkTo("sets", 0))
  /\ BeginSave(SavesOf(s))
  /\ SaveLeaves

NextEntry(t, at, e) == e \in t /\ e > at /\ \A x \in t : x > at => e <= x

SaveSet(s, g) ==
  /\ Saving(s, "sets") /\ NextEntry(sets, saver[s].at, g)
  /\ SaverGoes(s, WalkTo("sets", g))
  /\ cnf' = IF cnf.state = "mixed" THEN cnf ELSE [cnf EXCEPT !.sets = @ \cup {g}]
  /\ SaveLeaves

SaveItem(s, p) ==
  /\ Saving(s, "items") /\ NextEntry(Present, saver[s].at, p)
  /\ SaverGoes(s, WalkTo("items", p))
  /\ cnf' = IF cnf.state = "mixed" THEN cnf ELSE [cnf EXCEPT !.owner[p] = items[p].set]
  /\ SaveLeaves

(* A walk is over at the last entry; from an entry that has been freed it    *)
(* may go on (rb_next reads the freed links) or end there.                   *)
WalkOver(s, t) == saver[s].astray \/ \A x \in t : x <= saver[s].at

SetsSaved(s) ==
  /\ Saving(s, "sets") /\ WalkOver(s, sets)
  /\ SaverGoes(s, WalkTo("items", 0))
  /\ UNCHANGED cnf
  /\ SaveLeaves

(* The header with the sizes, unless another save has mixed up the records.  *)
EndLogSave(s) ==
  /\ Saving(s, "items") /\ WalkOver(s, Present)
  /\ SaverGoes(s, NoWalk)
  /\ cnf' = IF cnf.state = "mixed" THEN cnf ELSE [cnf EXCEPT !.state = "whole"]
  /\ SaveLeaves

(* A write fails: the header stays as it is. *)
LogSaveFails(s) ==
  /\ hpc # "down" /\ saver[s].pc # "idle"
  /\ SaverGoes(s, NoWalk)
  /\ UNCHANGED cnf
  /\ SaveLeaves

SaverStep ==
  \E s \in Savers :
    \/ BeginLogSave(s) \/ SetsSaved(s) \/ EndLogSave(s) \/ LogSaveFails(s)
    \/ \E g \in Guids : SaveSet(s, g)
    \/ \E p \in Paths : SaveItem(s, p)

-----------------------------------------------------------------------------
(* The handler *)

NetlinkCommand ==
  \/ \E g \in Guids, ps \in FilterItems : AddSet(g, ps) \/ AddItem(g, ps)
  \/ \E ps \in FilterItems : DelItem(ps)
  \/ \E g \in Guids : DelSet(g)
  \/ DelAll

HandlerStep ==
  \/ DelMonitorSet \/ InsertMonitorSet \/ InsertMonitorSetFails \/ ItemsDone
  \/ \E p \in Paths :
       \/ DelMonitorItem(p) \/ ClearItem(p)
       \/ AddMonitorItem(p) \/ AddMonitorItemFails(p) \/ RemoveMonitorItem(p)
  \/ ItemsCleared \/ ClearCounters
  \/ BeginHandlerSave \/ EndHandlerSave \/ HandlerSaveFails
  \/ \E g \in Guids : ClearSet(g)

-----------------------------------------------------------------------------
(* The hooks *)

(* GetMonitorFileEntryByabspath: the hook keeps a bare pointer to the item. *)
LookUp(c, p) ==
  /\ hpc # "down"
  /\ held[c] = NotHeld
  /\ \E r \in MiSearch(Present, p) \ {NoItem} :
       held' = [held EXCEPT ![c] = Holding(r)]
  /\ UNCHANGED <<memory, disk, hpc, cmd, history>>

InHook(c, got) == hpc # "down" /\ held[c] # NotHeld /\ held[c].got \in got

(* GetMonitorFileSeqNo takes pSetEntry from the item; when it is NULL, it    *)
(* searches the set of the item's guidSetId. The memory of an item that has  *)
(* been freed is intact or serves another item by now: it may hold any guid. *)
UseItem(c) ==
  /\ InHook(c, {"unread"})
  /\ held[c].live => items[held[c].path].ptr # "null"
  /\ held' = [held EXCEPT ![c] = NotHeld]
  /\ UNCHANGED <<memory, disk, hpc, cmd, history>>

SearchSet(c, g) ==
  /\ InHook(c, {"unread"})
  /\ held[c].live => items[held[c].path].ptr = "null" /\ items[held[c].path].set = g
  /\ held' = [held EXCEPT ![c].set = g,
                          ![c].got = IF GetMonitorSetEntryFinds(g) THEN "live" ELSE "null"]
  /\ UNCHANGED <<memory, disk, hpc, cmd, history>>

(* The pointer that item p gets: that of another set, if p is not the item   *)
(* the search was for.                                                       *)
Pointer(p, c) ==
  IF held[c].got = "live" /\ held[c].set # items[p].set THEN "stale" ELSE held[c].got

(* What it found is stored in the item, wherever the item's memory is now.   *)
StoreSet(c) ==
  /\ InHook(c, Pointers)
  /\ \/ /\ held[c].live
        /\ items' = [items EXCEPT ![held[c].path].ptr = Pointer(held[c].path, c)]
        /\ UNCHANGED strayed
     \/ /\ ~held[c].live
        /\ UNCHANGED <<items, strayed>>
     \/ /\ ~held[c].live
        /\ \E p \in Present : items' = [items EXCEPT ![p].ptr = Pointer(p, c)]
        /\ strayed' = TRUE
  /\ held' = [held EXCEPT ![c] = NotHeld]
  /\ UNCHANGED <<sets, setCount, disk, hpc, cmd, session, lost>>

HookStep ==
  \E c \in Callers :
    \/ UseItem(c) \/ StoreSet(c)
    \/ \E g \in Guids : SearchSet(c, g)
    \/ \E p \in Paths : LookUp(c, p)

-----------------------------------------------------------------------------
(* Restarts *)

(* Memory is lost without a word: UninitMonitorSet does not save either. A   *)
(* reboot is a save, in myreboot, and then this.                             *)
Crash ==
  /\ hpc # "down" /\ hpc' = "down"
  /\ sets' = {} /\ items' = NoItems /\ setCount' = 0
  /\ cmd' = NoCommand
  /\ held' = [c \in Callers |-> NotHeld]
  /\ saver' = [s \in Savers |-> NoWalk]
  /\ strayed' = FALSE
  /\ UNCHANGED <<cnf, session, lost>>

InitMonitorSet ==
  /\ HandlerGoes("down", "idle")
  /\ setCount' = 0
  /\ UNCHANGED <<disk, cmd, held, lost, strayed>>

(* What the header of the file gives access to.                              *)
FileSets == IF cnf.state = "whole" THEN cnf.sets ELSE {}

(* Items are inserted in the order of the file, each unless one before it    *)
(* covers it, and pSetEntry is filled in; an item whose set was not found is *)
(* dropped.                                                                  *)
Loadable(S) ==
  {p \in Paths : /\ cnf.owner[p] \in S
                 /\ \A q \in Paths : <<q, p>> \in Prefix => cnf.owner[q] \notin S}
LoadedItems(ps, pointer) ==
  [p \in Paths |-> IF p \in ps THEN [set |-> cnf.owner[p], ptr |-> pointer] ELSE NoEntry]

(* Deviations: pSetEntry is left as it was in the file; the items are        *)
(* inserted last first, so that none meets one that covers it.               *)
LoadConfigRaw ==
  /\ InitMonitorSet /\ cnf.state # "mixed"
  /\ sets' = FileSets
  /\ items' = LoadedItems(Loadable(FileSets), "stale")
  /\ session' = "loaded"

LoadConfigBackwards ==
  /\ InitMonitorSet /\ cnf.state # "mixed"
  /\ sets' = FileSets
  /\ items' = LoadedItems({p \in Paths : cnf.owner[p] \in FileSets}, "live")
  /\ session' = "loaded"

LoadConfig ==
  /\ InitMonitorSet /\ cnf.state # "mixed"
  /\ sets' = FileSets
  /\ items' = LoadedItems(Loadable(FileSets), "live")
  /\ session' = "loaded"

(* A read or an allocation fails: what comes after it is not loaded. *)
LoadConfigFails ==
  /\ InitMonitorSet
  /\ session' = "cut"
  /\ UNCHANGED <<sets, items>>

LoadConfigCutShort ==
  /\ InitMonitorSet
  /\ \E S \in SUBSET FileSets, last \in Paths \cup {NoItem} :
       /\ S # FileSets => last = NoItem
       /\ sets' = S
       /\ items' = LoadedItems({p \in Loadable(S) : p <= last}, "live")
  /\ session' = "cut"

(* Records that two saves have mixed up: any sets and, of them, any items    *)
(* that were ever added (module ConfigFile says what may be in the file).    *)
LoadConfigMixed ==
  /\ InitMonitorSet /\ cnf.state = "mixed"
  /\ sets' \in SUBSET Guids
  /\ \E ps \in SUBSET Filters : \E owner \in [ps -> sets'] :
       items' = [p \in Paths |-> IF p \in ps THEN [set |-> owner[p], ptr |-> "live"]
                                             ELSE NoEntry]
  /\ session' = "cut"

Next ==
  \/ NetlinkCommand \/ HandlerStep \/ SaverStep \/ HookStep
  \/ Crash \/ LoadConfig
  \/ LoadConfigFails \/ LoadConfigCutShort \/ LoadConfigMixed

Spec == Init /\ [][Next]_vars

-----------------------------------------------------------------------------
(* Properties *)

TypeOK ==
  /\ sets \subseteq Guids
  /\ items \in [Paths -> Entry]
  /\ setCount \in Nat
  /\ cnf \in Config
  /\ hpc \in {"idle", "replace", "delete", "clear", "clearsets", "insert", "items",
            "remove", "save", "saving", "down"}
  /\ cmd \in Command
  /\ hpc \in {"replace", "delete", "insert", "items"} => cmd.guid \in Guids
  /\ held \in [Callers -> Held]
  /\ saver \in [Savers -> Walker]
  /\ session \in {"first", "loaded", "cut"}
  /\ lost \in BOOLEAN /\ strayed \in BOOLEAN

(* Deleting a set takes its items with it, and a load drops the items whose  *)
(* set it did not find, which the file may hold when a save met a command    *)
(* half-way: unless a walk broke off, no item is without its set.            *)
ItemsHaveSets == ~lost => \A p \in Present : items[p].set \in sets

(* pSetEntry is a cache that hooks fill in, in steps that a command may come *)
(* between, and that LoadConfig must set afresh: it never outlives the entry *)
(* of the set, which goes after its items (fruk.h, pSetEntry), unless a walk *)
(* broke off or a hook wrote into an item that was freed under it.           *)
PointersValid == ~lost /\ ~strayed => \A p \in Present : items[p].ptr # "stale"

(* GetMonitorSetEntry trusts ulCounts. As long as no configuration has been  *)
(* loaded, no walk broke off and no hook wrote astray, the counter stays in  *)
(* step with the tree through every command and failure, and a hook that     *)
(* holds an item always gets its number.                                     *)
Numberable(p) ==
  \/ items[p].ptr = "live"
  \/ items[p].ptr = "null" /\ GetMonitorSetEntryFinds(items[p].set)
EveryItemFindsItsSet ==
  session = "first" /\ ~lost /\ ~strayed => \A p \in Present : Numberable(p)

(* A complete load may drop items nested in others, but no coverage: a path  *)
(* that some saved item of a saved set covers is found by the hooks, with    *)
(* its set, whatever the shape of the tree.                                  *)
RestartKeepsCoverage ==
  [][hpc = "down" /\ session' = "loaded" =>
       \A p \in Paths :
         (\E q \in Paths : Covers(q, p) /\ cnf.owner[q] \in FileSets) =>
           \A r \in MiSearch(Present, p)' : r # NoItem /\ Numberable(r)']_vars

(* usrlink.h: ADDSET deletes the existing set of the same GUID.              *)
ExistingSetDeletedFirst ==
  [][\A g \in Guids, ps \in FilterItems :
       AddSet(g, ps) /\ g \in sets => hpc' = "replace"]_vars

-----------------------------------------------------------------------------
(* Refinement: who owns each path, and the saved copy. *)
Abstract == INSTANCE BackupTable WITH
  known <- sets, owner <- Owner,
  stable <- [known |-> cnf.sets, owner |-> cnf.owner,
             state |-> IF cnf.state = "mixed" THEN "void" ELSE "good"]

(* Until a walk breaks off, every step of a command, a hook, a save or a     *)
(* restart is one step of the table: no item passes from one set to another, *)
(* no set goes before its items, and a save, whatever comes between its      *)
(* steps, notes only what is in the table at that moment.                    *)
ImplementsBackupTable ==
  Abstract!Init /\ [][~lost' => [Abstract!Next]_(Abstract!vars)]_vars
=============================================================================
