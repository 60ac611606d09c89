---------------------------- MODULE RegistryProofs ----------------------------
(***************************************************************************)
(* Proofs about the registry (MonitorRegistry): its types, that no item is  *)
(* ever without its set, and that it implements the table of BackupTable.   *)
(***************************************************************************)
EXTENDS MonitorRegistry, FiniteSetTheorems, WellFoundedInduction, TLAPS

(* What a handler between two of its steps, and a session that has ended,    *)
(* can rely on: nobody else edits the trees, and memory is empty.            *)
HandlerInv ==
  /\ hpc = "items" => cmd.guid \in sets
  /\ hpc = "clearsets" /\ ~lost => Present = {}
  /\ hpc = "down" => sets = {} /\ items = NoItems

(* A hook that has searched for its item's set holds an item, freed or not;  *)
(* one that is not freed is in the tree. No hook survives the session.       *)
HeldInv ==
  /\ hpc = "down" => held = [c \in Callers |-> NotHeld]
  /\ \A c \in Callers :
       held[c].live => \/ held[c].path \in Present
                       \/ held[c] = NotHeld

RegistryInv == TypeOK /\ ItemsHaveSets /\ HandlerInv /\ HeldInv

-----------------------------------------------------------------------------
(* The trees *)

(* A search that comes back empty-handed did not look for an item. *)
LEMMA EmptyHanded ==
  ASSUME NEW t \in SUBSET Paths, NEW p \in Paths, NoItem \in MiSearch(t, p)
  PROVE  p \notin t
<1>1. SUFFICES ASSUME p \in t PROVE FALSE
  OBVIOUS
<1>2. p \in Found(t, p)
  BY <1>1 DEF Found, Covers
<1>3. SurelyFound(t, p)
  BY <1>2 DEF SurelyFound
<1>4. MiSearch(t, p) \subseteq Paths
  BY <1>3 DEF MiSearch, Found
<1>. QED
  BY <1>4, RegistryAssumption DEF NoItem

(* A search finds entries of the tree, or nothing. *)
LEMMA SearchResult ==
  ASSUME NEW t \in SUBSET Paths, NEW p, NEW r \in MiSearch(t, p)
  PROVE  r \in t \cup {NoItem}
BY DEF MiSearch, Found

(* What the hooks hold, and where the saves are, when entries are freed. *)
LEMMA FreedHeld ==
  ASSUME held \in [Callers -> Held], NEW gone, Release(gone)
  PROVE  held' \in [Callers -> Held]
<1>1. FALSE \in BOOLEAN
  OBVIOUS
<1>. QED
  BY <1>1 DEF Release, Held

LEMMA FreedSetHeld ==
  ASSUME held \in [Callers -> Held], NEW g, ReleaseSet(g)
  PROVE  held' \in [Callers -> Held]
BY DEF ReleaseSet, Held, Pointers

LEMMA WalkersAstray ==
  ASSUME saver \in [Savers -> Walker], NEW pc, NEW gone, LeaveAstray(pc, gone)
  PROVE  saver' \in [Savers -> Walker]
<1>1. TRUE \in BOOLEAN
  OBVIOUS
<1>. QED
  BY <1>1 DEF LeaveAstray, Walker

(* What erasing one item leaves of each entry, and of what the hooks hold. *)
LEMMA AfterErase ==
  ASSUME TypeOK, NEW gone \in SUBSET (Paths \cup {NoItem}),
         items' = Without(gone), Release(gone \ {NoItem}), LeaveAstray("items", gone)
  PROVE  /\ items' \in [Paths -> Entry]
         /\ \A p \in Paths : items'[p].set = IF p \in gone THEN NoGuid ELSE items[p].set
         /\ held' \in [Callers -> Held]
         /\ saver' \in [Savers -> Walker]
<1>1. held' \in [Callers -> Held] /\ saver' \in [Savers -> Walker]
  BY FreedHeld, WalkersAstray DEF TypeOK
<1>2. items \in [Paths -> Entry]
  BY DEF TypeOK
<1>. QED
  BY <1>1, <1>2 DEF Without, Entry, NoEntry, Pointers

(* A pointer that is left dangling does not change what an entry belongs to. *)
LEMMA AfterDangling ==
  ASSUME items \in [Paths -> Entry], NEW g \in Guids, items' = Dangling(items, g)
  PROVE  items' \in [Paths -> Entry] /\ \A p \in Paths : items'[p].set = items[p].set
BY DEF Dangling, Entry, Pointers

(* Storing a pointer does not change what an entry belongs to. *)
LEMMA AfterStore ==
  ASSUME items \in [Paths -> Entry], NEW p \in Paths, NEW q \in Pointers,
         items' = [items EXCEPT ![p].ptr = q]
  PROVE  items' \in [Paths -> Entry] /\ \A x \in Paths : items'[x].set = items[x].set
BY DEF Entry

LEMMA PointerStored ==
  ASSUME NEW c \in Callers, held[c].got \in Pointers, NEW p
  PROVE  Pointer(p, c) \in Pointers
BY DEF Pointer, Pointers

LEMMA AfterUse ==
  ASSUME TypeOK, NEW c \in Callers, StoreSet(c),
         held[c].live => held[c].path \in Paths
  PROVE  items' \in [Paths -> Entry] /\ \A q \in Paths : items'[q].set = items[q].set
<1>1. items \in [Paths -> Entry] /\ held[c].got \in Pointers
  BY DEF TypeOK, StoreSet, InHook
<1>2. CASE held[c].live /\ items' = [items EXCEPT ![held[c].path].ptr = Pointer(held[c].path, c)]
  BY <1>1, <1>2, AfterStore, PointerStored
<1>3. CASE UNCHANGED items
  BY <1>1, <1>3
<1>4. ASSUME NEW p \in Present, items' = [items EXCEPT ![p].ptr = Pointer(p, c)]
      PROVE  items' \in [Paths -> Entry] /\ \A q \in Paths : items'[q].set = items[q].set
  BY <1>1, <1>4, AfterStore, PointerStored DEF Present
<1>. QED
  BY <1>2, <1>3, <1>4 DEF StoreSet

(* What a load puts in memory. *)
LEMMA AfterLoad ==
  ASSUME TypeOK, NEW S \in SUBSET FileSets, NEW ps \in SUBSET Loadable(S),
         items' = LoadedItems(ps, "live")
  PROVE  /\ items' \in [Paths -> Entry]
         /\ \A p \in Paths : \/ items'[p].set = NoGuid
                             \/ items'[p].set = cnf.owner[p] /\ cnf.owner[p] \in S
<1>1. FileSets \subseteq Guids /\ cnf.owner \in [Paths -> Guids \cup {NoGuid}]
  BY DEF TypeOK, Config, FileSets
<1>2. \A p \in ps : p \in Paths /\ cnf.owner[p] \in S
  BY DEF Loadable
<1>. QED
  BY <1>1, <1>2 DEF LoadedItems, Entry, NoEntry, Pointers

-----------------------------------------------------------------------------
(* The invariant, action by action *)

LEMMA RegistryInit == Init => RegistryInv
<1>. SUFFICES ASSUME Init PROVE RegistryInv
  OBVIOUS
<1>1. TypeOK
  <2>1. NotHeld \in Held /\ NoWalk \in Walker
    BY DEF Held, NotHeld, Holding, Walker, NoWalk, NoItem
  <2>2. cnf \in Config
    BY DEF Init, Blank, Unowned, Config
  <2>3. items \in [Paths -> Entry] /\ cmd \in Command
    BY DEF Init, NoItems, NoEntry, Entry, Pointers, Command, NoCommand
  <2>. QED
    BY <2>1, <2>2, <2>3 DEF Init, TypeOK
<1>2. ItemsHaveSets
  BY DEF Init, ItemsHaveSets, NoItems, NoEntry, Present
<1>3. HeldInv
  BY DEF Init, HeldInv, NotHeld, Holding
<1>. QED
  BY <1>1, <1>2, <1>3 DEF Init, RegistryInv, HandlerInv

(* The commands the handler works on are commands. *)
LEMMA NewCommand ==
  ASSUME NEW g \in Guids \cup {NoGuid}, NEW ps \in SUBSET Paths
  PROVE  [guid |-> g, todo |-> ps, broken |-> FALSE] \in Command
<1>1. FALSE \in BOOLEAN
  OBVIOUS
<1>. QED
  BY <1>1 DEF Command

LEMMA EndCommand == NoCommand \in Command
BY NewCommand DEF NoCommand

LEMMA NextWalkCommand ==
  ASSUME cmd \in Command, NextWalk
  PROVE  cmd' \in Command /\ cmd'.guid = cmd.guid
<1>1. FALSE \in BOOLEAN
  OBVIOUS
<1>. QED
  BY <1>1 DEF NextWalk, Command

LEMMA WalkingCommand ==
  ASSUME cmd \in Command, Walking
  PROVE  cmd' \in Command /\ cmd'.guid = cmd.guid
BY DEF Walking, Command

(* Steps that free nothing a hook holds, and steps that free items or a set. *)
LEMMA NothingFreed ==
  ASSUME HeldInv, UNCHANGED held, Present \subseteq Present', hpc' # "down" \/ hpc' = hpc
  PROVE  HeldInv'
BY DEF HeldInv

LEMMA ItemsFreed ==
  ASSUME HeldInv, held \in [Callers -> Held], NEW gone, Release(gone),
         Present \ gone \subseteq Present', hpc' # "down"
  PROVE  HeldInv'
<1>1. \A c \in Callers : held'[c].live => held'[c] = held[c] /\ held[c].path \notin gone
  BY DEF Release, Held
<1>. QED
  BY <1>1 DEF HeldInv

LEMMA SetFreed ==
  ASSUME HeldInv, held \in [Callers -> Held], NEW g, ReleaseSet(g), Present' = Present,
         hpc' # "down"
  PROVE  HeldInv'
<1>1. \A c \in Callers : /\ held'[c].live = held[c].live /\ held'[c].path = held[c].path
                         /\ held[c] = NotHeld => held'[c] = NotHeld
  <2>. SUFFICES ASSUME NEW c \in Callers
                PROVE  /\ held'[c].live = held[c].live /\ held'[c].path = held[c].path
                       /\ held[c] = NotHeld => held'[c] = NotHeld
    OBVIOUS
  <2>1. held[c] = NotHeld => held[c].got # "live"
    BY DEF NotHeld, Holding
  <2>2. \/ held'[c] = held[c]
        \/ held[c].got = "live" /\ held'[c] = [held[c] EXCEPT !.got = "stale"]
    BY DEF ReleaseSet
  <2>3. held[c] \in Held
    OBVIOUS
  <2>. QED
    BY <2>1, <2>2, <2>3 DEF Held
<1>. QED
  BY <1>1 DEF HeldInv

(* Steps of the handler that touch neither the trees nor the file: commands  *)
(* being accepted, handlers that end or go on to save.                       *)
LEMMA ControlStep ==
  ASSUME RegistryInv, UNCHANGED <<memory, disk, held, history>>, cmd' \in Command,
         hpc' \in {"idle", "replace", "delete", "clear", "insert", "items", "remove", "save"},
         hpc' \in {"replace", "delete", "insert", "items"} => cmd'.guid \in Guids,
         hpc' = "items" => cmd'.guid \in sets
  PROVE  RegistryInv'
<1>1. Present' = Present
  BY DEF Present, memory
<1>2. TypeOK'
  BY DEF RegistryInv, TypeOK, memory, disk, history
<1>3. ItemsHaveSets'
  BY <1>1 DEF RegistryInv, ItemsHaveSets, memory, history
<1>4. HandlerInv'
  BY DEF RegistryInv, HandlerInv, memory
<1>5. HeldInv'
  BY <1>1, NothingFreed DEF RegistryInv
<1>. QED
  BY <1>2, <1>3, <1>4, <1>5 DEF RegistryInv

LEMMA FiltersArePaths == FilterItems \subseteq SUBSET Paths
BY RegistryAssumption DEF FilterItems

LEMMA AcceptStep == ASSUME RegistryInv, NetlinkCommand PROVE RegistryInv'
<1>1. ASSUME NEW g \in Guids, NEW ps \in SUBSET Paths, NEW to,
             to \in {"replace", "delete", "insert", "items"},
             to = "items" => g \in sets, Accept(g, ps, to)
      PROVE  RegistryInv'
  <2>1. /\ cmd' = [guid |-> g, todo |-> ps, broken |-> FALSE] /\ hpc' = to
        /\ UNCHANGED <<memory, disk, held, history>>
    BY <1>1 DEF Accept, HandlerGoes
  <2>2. cmd' \in Command /\ cmd'.guid = g
    BY <2>1, NewCommand
  <2>. QED
    BY <1>1, <2>1, <2>2, ControlStep
<1>2. ASSUME NEW ps \in SUBSET Paths, NEW to, to \in {"clear", "remove"},
             Accept(NoGuid, ps, to)
      PROVE  RegistryInv'
  <2>1. /\ cmd' = [guid |-> NoGuid, todo |-> ps, broken |-> FALSE] /\ hpc' = to
        /\ UNCHANGED <<memory, disk, held, history>>
    BY <1>2 DEF Accept, HandlerGoes
  <2>2. cmd' \in Command
    BY <2>1, NewCommand
  <2>. QED
    BY <1>2, <2>1, <2>2, ControlStep
<1>3. ASSUME NEW g \in Guids, NEW ps \in FilterItems, AddSet(g, ps) \/ AddItem(g, ps)
      PROVE  RegistryInv'
  <2>1. PICK to \in {"replace", "insert", "items"} :
          Accept(g, ps, to) /\ (to = "items" => g \in sets)
    BY <1>3 DEF AddSet, AddItem, GetMonitorSetEntryFinds
  <2>. QED
    BY <1>1, <2>1, FiltersArePaths
<1>. QED
  BY <1>1, <1>2, <1>3, FiltersArePaths DEF NetlinkCommand, DelItem, DelSet, DelAll

LEMMA GivingUp ==
  ASSUME RegistryInv,
         \/ InsertMonitorSetFails \/ (\E p \in Paths : AddMonitorItemFails(p))
         \/ ItemsDone \/ HandlerSaveFails
  PROVE  RegistryInv'
<1>1. /\ UNCHANGED <<memory, disk, held, history>>
      /\ cmd' = NoCommand /\ hpc' \in {"idle", "save"}
  BY DEF InsertMonitorSetFails, AddMonitorItemFails, ItemsDone, HandlerSaveFails, GiveUp
<1>. QED
  BY <1>1, EndCommand, ControlStep

(* One item is erased, with its set or with all of them. *)
LEMMA EraseStep ==
  ASSUME RegistryInv, NEW p \in Paths, Erase(p), hpc # "items", hpc # "down"
  PROVE  RegistryInv'
<1>1. {p} \in SUBSET (Paths \cup {NoItem}) /\ {p} \ {NoItem} = {p}
  BY RegistryAssumption DEF NoItem
<1>2. /\ items' \in [Paths -> Entry]
      /\ held' \in [Callers -> Held] /\ saver' \in [Savers -> Walker]
      /\ \A q \in Paths : items'[q].set = IF q \in {p} THEN NoGuid ELSE items[q].set
  <2>1. TypeOK /\ items' = Without({p}) /\ Release({p} \ {NoItem}) /\ LeaveAstray("items", {p})
    BY <1>1 DEF Erase, RegistryInv
  <2>. QED
    BY <1>1, <2>1, AfterErase
<1>3. UNCHANGED <<sets, setCount, cnf, hpc, session, lost, strayed>>
  BY DEF Erase, history
<1>4. cmd' \in Command /\ cmd'.guid = cmd.guid
  BY WalkingCommand DEF Erase, RegistryInv, TypeOK
<1>5. TypeOK'
  BY <1>2, <1>3, <1>4 DEF RegistryInv, TypeOK
<1>6. ItemsHaveSets'
  BY <1>2, <1>3 DEF RegistryInv, ItemsHaveSets, Present
<1>7. HandlerInv'
  BY <1>2, <1>3, <1>4 DEF RegistryInv, HandlerInv, Present
<1>8. HeldInv'
  <2>1. Present \ {p} \subseteq Present'
    BY <1>2 DEF Present
  <2>. QED
    BY <1>3, <2>1, ItemsFreed DEF Erase, RegistryInv, TypeOK
<1>. QED
  BY <1>5, <1>6, <1>7, <1>8 DEF RegistryInv

(* A walk that ends has left nothing behind, or is broken and says so. *)
LEMMA WalkEnded ==
  ASSUME TypeOK, NEW left, WalkEnds(left)
  PROVE  lost' \in BOOLEAN /\ (~lost' => ~lost /\ left = {})
BY DEF WalkEnds, TypeOK, Command

(* The set is erased when none of its items is left, or the walk has broken. *)
LEMMA EraseSetStep ==
  ASSUME RegistryInv, DelMonitorSet
  PROVE  RegistryInv'
<1>1. cmd.guid \in Guids /\ hpc \in {"replace", "delete"}
  BY DEF DelMonitorSet, EraseSet, Deleting, RegistryInv, TypeOK
<1>2. items' \in [Paths -> Entry] /\ \A p \in Paths : items'[p].set = items[p].set
  BY <1>1, AfterDangling DEF DelMonitorSet, EraseSet, RegistryInv, TypeOK
<1>3. setCount' \in Nat
  BY DEF DelMonitorSet, EraseSet, Uncounted, RegistryInv, TypeOK
<1>4. /\ sets' = sets \ {cmd.guid} /\ UNCHANGED <<cnf, session, strayed>>
      /\ held' \in [Callers -> Held] /\ saver' \in [Savers -> Walker]
  BY FreedSetHeld, WalkersAstray DEF DelMonitorSet, EraseSet, RegistryInv, TypeOK
<1>5. /\ hpc' \in {"insert", "save"} /\ cmd' \in Command
      /\ hpc' = "insert" => cmd'.guid \in Guids
  <2>1. \/ hpc' = "insert" /\ NextWalk
        \/ hpc' = "save" /\ cmd' = NoCommand
    BY DEF DelMonitorSet, EraseSet
  <2>2. cmd \in Command
    BY DEF RegistryInv, TypeOK
  <2>. QED
    BY <1>1, <2>1, <2>2, NextWalkCommand, EndCommand
<1>6. lost' \in BOOLEAN /\ (~lost' => ~lost /\ ItemsOf(cmd.guid) = {})
  BY WalkEnded DEF DelMonitorSet, RegistryInv
<1>7. TypeOK'
  BY <1>2, <1>3, <1>4, <1>5, <1>6 DEF RegistryInv, TypeOK
<1>8. ~lost' => \A p \in Paths : items[p].set # cmd.guid
  BY <1>6 DEF ItemsOf
<1>9. ItemsHaveSets'
  BY <1>2, <1>4, <1>6, <1>8 DEF RegistryInv, ItemsHaveSets, Present
<1>10. Present' = Present
  BY <1>2 DEF Present
<1>11. HeldInv'
  BY <1>5, <1>10, SetFreed DEF DelMonitorSet, EraseSet, RegistryInv, TypeOK
<1>. QED
  BY <1>5, <1>7, <1>9, <1>11 DEF RegistryInv, HandlerInv

(* All items go, then all sets. *)
LEMMA ItemsClearedStep == ASSUME RegistryInv, ItemsCleared PROVE RegistryInv'
<1>1. lost' \in BOOLEAN /\ (~lost' => ~lost /\ Present = {})
  BY WalkEnded DEF ItemsCleared, RegistryInv
<1>2. /\ UNCHANGED <<memory, disk, held, session, strayed>>
      /\ cmd' \in Command /\ hpc' = "clearsets"
  BY NextWalkCommand DEF ItemsCleared, HandlerGoes, RegistryInv, TypeOK
<1>3. Present' = Present
  BY <1>2 DEF Present, memory
<1>4. HeldInv'
  BY <1>2, <1>3, NothingFreed DEF RegistryInv
<1>5. TypeOK'
  BY <1>1, <1>2 DEF RegistryInv, TypeOK, memory, disk
<1>. QED
  BY <1>1, <1>2, <1>3, <1>4, <1>5 DEF RegistryInv, ItemsHaveSets, HandlerInv, memory

LEMMA ClearSetStep ==
  ASSUME RegistryInv, NEW g \in Guids, ClearSet(g)
  PROVE  RegistryInv'
<1>1. items' \in [Paths -> Entry] /\ \A p \in Paths : items'[p].set = items[p].set
  BY AfterDangling DEF ClearSet, RegistryInv, TypeOK
<1>2. /\ hpc' = "clearsets" /\ hpc = "clearsets" /\ cmd' \in Command
      /\ sets' = sets \ {g} /\ UNCHANGED <<setCount, cnf, session, lost, strayed>>
  BY WalkingCommand DEF ClearSet, RegistryInv, TypeOK, history
<1>3. Present' = Present
  BY <1>1 DEF Present
<1>4. ~lost => Present = {}
  BY <1>2 DEF RegistryInv, HandlerInv
<1>5. ItemsHaveSets'
  BY <1>2, <1>3, <1>4 DEF RegistryInv, ItemsHaveSets
<1>6. held' \in [Callers -> Held] /\ saver' \in [Savers -> Walker]
  BY FreedSetHeld, WalkersAstray DEF ClearSet, RegistryInv, TypeOK
<1>7. HeldInv'
  BY <1>2, <1>3, SetFreed DEF ClearSet, RegistryInv, TypeOK
<1>8. TypeOK'
  BY <1>1, <1>2, <1>6 DEF RegistryInv, TypeOK
<1>. QED
  BY <1>2, <1>3, <1>5, <1>7, <1>8 DEF RegistryInv, HandlerInv

LEMMA ClearCountersStep == ASSUME RegistryInv, ClearCounters PROVE RegistryInv'
<1>1. lost' \in BOOLEAN /\ (~lost' => ~lost)
  BY WalkEnded DEF ClearCounters, RegistryInv
<1>2. /\ UNCHANGED <<sets, items, disk, held, session, strayed>>
      /\ setCount' = 0 /\ cmd' \in Command /\ hpc' = "save"
  BY EndCommand DEF ClearCounters, HandlerGoes
<1>3. Present' = Present
  BY <1>2 DEF Present
<1>4. HeldInv'
  BY <1>2, <1>3, NothingFreed DEF RegistryInv
<1>5. TypeOK'
  BY <1>1, <1>2 DEF RegistryInv, TypeOK, disk
<1>. QED
  BY <1>1, <1>2, <1>3, <1>4, <1>5 DEF RegistryInv, ItemsHaveSets, HandlerInv

LEMMA InsertStep == ASSUME RegistryInv, InsertMonitorSet PROVE RegistryInv'
<1>1. Present' = Present /\ HeldInv'
  BY NothingFreed DEF InsertMonitorSet, Present, RegistryInv
<1>2. TypeOK'
  BY DEF RegistryInv, TypeOK, InsertMonitorSet, disk, history
<1>. QED
  BY <1>1, <1>2 DEF RegistryInv, ItemsHaveSets, HandlerInv, InsertMonitorSet, history

LEMMA AddItemStep ==
  ASSUME RegistryInv, NEW p \in Paths, AddMonitorItem(p)
  PROVE  RegistryInv'
<1>1. cmd.guid \in Guids /\ cmd.guid \in sets /\ cmd.guid # NoGuid
  BY RegistryAssumption DEF RegistryInv, TypeOK, HandlerInv, AddMonitorItem
<1>2. \/ UNCHANGED items
      \/ items' = [items EXCEPT ![p] = [set |-> cmd.guid, ptr |-> "null"]]
  BY DEF AddMonitorItem, With
<1>3. items' \in [Paths -> Entry]
  BY <1>1, <1>2 DEF RegistryInv, TypeOK, Entry, Pointers
<1>4. cmd' \in Command /\ cmd'.guid = cmd.guid
  BY DEF RegistryInv, TypeOK, AddMonitorItem, Remaining, Command
<1>5. TypeOK'
  BY <1>3, <1>4 DEF RegistryInv, TypeOK, AddMonitorItem, disk, history
<1>6. \A q \in Paths : \/ items'[q].set = items[q].set
                       \/ items'[q].set = cmd.guid
  BY <1>2 DEF RegistryInv, TypeOK
<1>7. UNCHANGED <<sets, lost, hpc, held>>
  BY DEF AddMonitorItem, history
<1>8. ItemsHaveSets'
  BY <1>1, <1>6, <1>7 DEF RegistryInv, ItemsHaveSets, Present
<1>9. HeldInv'
  <2>1. Present \subseteq Present'
    BY <1>1, <1>6 DEF Present
  <2>. QED
    BY <1>7, <2>1, NothingFreed DEF RegistryInv
<1>. QED
  BY <1>1, <1>4, <1>5, <1>8, <1>9 DEF RegistryInv, HandlerInv, AddMonitorItem

LEMMA RemoveItemStep ==
  ASSUME RegistryInv, NEW p \in Paths, RemoveMonitorItem(p)
  PROVE  RegistryInv'
<1>1. PICK r \in MiSearch(Present, p) :
        items' = Without({r}) /\ Release({r} \ {NoItem}) /\ LeaveAstray("items", {r})
  BY DEF RemoveMonitorItem
<1>2. {r} \in SUBSET (Paths \cup {NoItem})
  BY SearchResult DEF Present
<1>3. /\ items' \in [Paths -> Entry]
      /\ held' \in [Callers -> Held] /\ saver' \in [Savers -> Walker]
      /\ \A q \in Paths : items'[q].set = IF q \in {r} THEN NoGuid ELSE items[q].set
  BY <1>1, <1>2, AfterErase DEF RegistryInv
<1>4. cmd' \in Command /\ hpc' = "remove"
  BY DEF RegistryInv, TypeOK, RemoveMonitorItem, Remaining, Command
<1>5. TypeOK'
  BY <1>3, <1>4 DEF RegistryInv, TypeOK, RemoveMonitorItem, history
<1>6. ItemsHaveSets'
  BY <1>3 DEF RegistryInv, ItemsHaveSets, Present, RemoveMonitorItem, history
<1>7. HeldInv'
  <2>1. Present \ ({r} \ {NoItem}) \subseteq Present'
    BY <1>3, RegistryAssumption DEF Present, NoItem
  <2>. QED
    BY <1>1, <1>4, <2>1, ItemsFreed DEF RegistryInv, TypeOK
<1>. QED
  BY <1>4, <1>5, <1>6, <1>7 DEF RegistryInv, HandlerInv

(* The session ends and memory with it. *)
LEMMA DownStep == ASSUME RegistryInv, Crash PROVE RegistryInv'
<1>1. /\ sets' = {} /\ items' = NoItems /\ setCount' = 0 /\ UNCHANGED <<cnf, session, lost>>
      /\ held' = [c \in Callers |-> NotHeld] /\ saver' = [s \in Savers |-> NoWalk]
      /\ cmd' = NoCommand /\ hpc' = "down" /\ strayed' = FALSE
  BY DEF Crash
<1>2. NotHeld \in Held /\ NoWalk \in Walker
  BY DEF NotHeld, Holding, Held, NoWalk, Walker
<1>3. cmd' \in Command /\ items' \in [Paths -> Entry]
  BY <1>1, EndCommand DEF NoItems, NoEntry, Entry, Pointers
<1>4. TypeOK'
  BY <1>1, <1>2, <1>3 DEF RegistryInv, TypeOK
<1>5. ItemsHaveSets'
  BY <1>1 DEF ItemsHaveSets, Present, NoItems, NoEntry
<1>6. HeldInv'
  BY <1>1 DEF HeldInv, NotHeld, Holding
<1>. QED
  BY <1>1, <1>4, <1>5, <1>6 DEF RegistryInv, HandlerInv

-----------------------------------------------------------------------------
(* Saves *)

LEMMA BlankConfig == ASSUME NEW state \in {"zeroed", "mixed"} PROVE Blank(state) \in Config
BY DEF Blank, Unowned, Config

LEMMA SnapshotConfig == ASSUME TypeOK PROVE Snapshot \in Config
BY DEF TypeOK, Snapshot, Owner, Entry, Config

(* A save changes nothing but the file, and goes from entry to entry. *)
LEMMA SaverMoves ==
  ASSUME TypeOK, NEW s \in Savers, NEW w \in Walker, SaverGoes(s, w)
  PROVE  saver' \in [Savers -> Walker]
BY DEF TypeOK, SaverGoes

LEMMA WalkersWalk ==
  ASSUME NEW pc \in {"sets", "items"}, NEW at \in Guids \cup Paths \cup {0}
  PROVE  WalkTo(pc, at) \in Walker
<1>1. FALSE \in BOOLEAN
  OBVIOUS
<1>. QED
  BY <1>1 DEF WalkTo, Walker

LEMMA NoWalkWalker == NoWalk \in Walker
BY DEF NoWalk, Walker

LEMMA RecordsConfig ==
  ASSUME cnf \in Config, NEW g \in Guids, NEW p \in Paths, NEW h \in Guids \cup {NoGuid}
  PROVE  /\ [cnf EXCEPT !.sets = @ \cup {g}] \in Config
         /\ [cnf EXCEPT !.owner[p] = h] \in Config
         /\ [cnf EXCEPT !.state = "whole"] \in Config
BY DEF Config

LEMMA FileStep ==
  ASSUME RegistryInv, UNCHANGED <<memory, held, history>>,
         cnf' \in Config, saver' \in [Savers -> Walker],
         \/ UNCHANGED <<hpc, cmd>>
         \/ hpc' = "saving" /\ UNCHANGED cmd
         \/ hpc' = "idle" /\ cmd' \in Command
  PROVE  RegistryInv'
<1>1. Present' = Present
  BY DEF Present, memory
<1>2. TypeOK'
  BY DEF RegistryInv, TypeOK, memory, history
<1>3. ItemsHaveSets'
  BY <1>1 DEF RegistryInv, ItemsHaveSets, memory, history
<1>4. HandlerInv'
  BY <1>1 DEF RegistryInv, HandlerInv, memory, history
<1>5. HeldInv'
  BY <1>1, NothingFreed DEF RegistryInv
<1>. QED
  BY <1>2, <1>3, <1>4, <1>5 DEF RegistryInv

LEMMA HandlerSaveStep ==
  ASSUME RegistryInv, BeginHandlerSave \/ EndHandlerSave
  PROVE  RegistryInv'
<1>1. saver \in [Savers -> Walker] /\ cnf \in Config
  BY DEF RegistryInv, TypeOK
<1>2. CASE BeginHandlerSave
  <2>1. cnf' \in Config
    BY <1>2, BlankConfig DEF BeginHandlerSave, BeginSave
  <2>2. UNCHANGED <<memory, held, history, saver, cmd>> /\ hpc' = "saving"
    BY <1>2 DEF BeginHandlerSave, HandlerGoes
  <2>. QED
    BY <1>1, <2>1, <2>2, FileStep
<1>3. CASE EndHandlerSave
  <2>1. cnf' \in Config
    BY <1>1, <1>3, SnapshotConfig DEF EndHandlerSave, RegistryInv
  <2>2. UNCHANGED <<memory, held, history, saver>> /\ hpc' = "idle" /\ cmd' \in Command
    BY <1>3, EndCommand DEF EndHandlerSave, GiveUp
  <2>. QED
    BY <1>1, <2>1, <2>2, FileStep
<1>. QED
  BY <1>2, <1>3

LEMMA LogSaveStep == ASSUME RegistryInv, SaverStep PROVE RegistryInv'
<1>1. TypeOK /\ cnf \in Config /\ items \in [Paths -> Entry]
  BY DEF RegistryInv, TypeOK
<1>2. PICK s \in Savers :
        \/ BeginLogSave(s) \/ SetsSaved(s) \/ EndLogSave(s) \/ LogSaveFails(s)
        \/ \E g \in Guids : SaveSet(s, g)
        \/ \E p \in Paths : SaveItem(s, p)
  BY DEF SaverStep
<1>3. SaveLeaves
  BY <1>2 DEF BeginLogSave, SetsSaved, EndLogSave, LogSaveFails, SaveSet, SaveItem
<1>4. cnf' \in Config
  <2>1. CASE BeginLogSave(s)
    BY <2>1, BlankConfig DEF BeginLogSave, BeginSave
  <2>2. CASE SetsSaved(s) \/ LogSaveFails(s)
    BY <1>1, <2>2 DEF SetsSaved, LogSaveFails
  <2>3. CASE EndLogSave(s)
    BY <1>1, <2>3 DEF EndLogSave, Config
  <2>4. ASSUME NEW g \in Guids, SaveSet(s, g) PROVE cnf' \in Config
    BY <1>1, <2>4 DEF SaveSet, Config
  <2>5. ASSUME NEW p \in Paths, SaveItem(s, p) PROVE cnf' \in Config
    <3>1. items[p].set \in Guids \cup {NoGuid}
      BY <1>1 DEF Entry
    <3>. QED
      BY <1>1, <2>5, <3>1 DEF SaveItem, Config
  <2>. QED
    BY <1>2, <2>1, <2>2, <2>3, <2>4, <2>5
<1>5. \E w \in Walker : SaverGoes(s, w)
  <2>1. CASE BeginLogSave(s) \/ SetsSaved(s)
    BY <2>1, WalkersWalk DEF BeginLogSave, SetsSaved
  <2>2. CASE EndLogSave(s) \/ LogSaveFails(s)
    BY <2>2, NoWalkWalker DEF EndLogSave, LogSaveFails
  <2>3. ASSUME NEW g \in Guids, SaveSet(s, g) PROVE \E w \in Walker : SaverGoes(s, w)
    BY <2>3, WalkersWalk DEF SaveSet
  <2>4. ASSUME NEW p \in Paths, SaveItem(s, p) PROVE \E w \in Walker : SaverGoes(s, w)
    BY <2>4, WalkersWalk DEF SaveItem
  <2>. QED
    BY <1>2, <2>1, <2>2, <2>3, <2>4
<1>6. saver' \in [Savers -> Walker]
  BY <1>1, <1>5, SaverMoves
<1>. QED
  BY <1>3, <1>4, <1>6, FileStep DEF SaveLeaves

-----------------------------------------------------------------------------
(* Hooks *)

(* A hook that has searched for its set holds an item, which is in the tree  *)
(* or has been freed.                                                        *)
LEMMA HoldsItem ==
  ASSUME RegistryInv, NEW c \in Callers, StoreSet(c)
  PROVE  held[c].live => held[c].path \in Present
BY DEF StoreSet, InHook, Pointers, RegistryInv, HeldInv

LEMMA SearchOrLookUp ==
  ASSUME RegistryInv, NEW c \in Callers,
         \/ UseItem(c) \/ (\E g \in Guids : SearchSet(c, g))
         \/ \E p \in Paths : LookUp(c, p)
  PROVE  RegistryInv'
<1>1. /\ UNCHANGED <<memory, disk, hpc, cmd, history>> /\ hpc # "down"
      /\ held \in [Callers -> Held]
  BY DEF UseItem, SearchSet, LookUp, InHook, RegistryInv, TypeOK
<1>2. \E h \in Held : /\ held' = [held EXCEPT ![c] = h]
                      /\ h.live => \/ h.path \in Present
                                   \/ h = NotHeld
  <2>1. CASE UseItem(c)
    <3>1. NotHeld \in Held
      BY DEF NotHeld, Holding, Held
    <3>. QED
      BY <2>1, <3>1 DEF UseItem
  <2>2. ASSUME NEW p \in Paths, LookUp(c, p)
        PROVE \E h \in Held : /\ held' = [held EXCEPT ![c] = h]
                              /\ h.live => h.path \in Present
    <3>1. PICK r \in MiSearch(Present, p) \ {NoItem} : held' = [held EXCEPT ![c] = Holding(r)]
      BY <2>2 DEF LookUp
    <3>2. r \in Present /\ r \in Paths
      BY <3>1, SearchResult DEF Present
    <3>3. Holding(r) \in Held
      BY <3>2 DEF Holding, Held
    <3>4. Holding(r).path = r
      BY DEF Holding
    <3>. QED
      BY <3>1, <3>2, <3>3, <3>4
  <2>3. ASSUME NEW g \in Guids, SearchSet(c, g)
        PROVE \E h \in Held : /\ held' = [held EXCEPT ![c] = h]
                              /\ h.live => h.path \in Present
    <3>1. PICK got \in {"live", "null"} :
            held' = [held EXCEPT ![c].set = g, ![c].got = got]
      BY <2>3 DEF SearchSet
    <3>. DEFINE h == [held[c] EXCEPT !.set = g, !.got = got]
    <3>2. held[c] \in Held
      BY <1>1
    <3>3. h \in Held /\ h.live = held[c].live /\ h.path = held[c].path
      BY <3>2 DEF Held, Pointers
    <3>4. held' = [held EXCEPT ![c] = h]
      BY <1>1, <3>1
    <3>5. held[c].live => held[c].path \in Present
      <4>1. held[c] # NotHeld
        BY <2>3 DEF SearchSet, InHook
      <4>. QED
        BY <4>1 DEF RegistryInv, HeldInv
    <3>. QED
      BY <3>3, <3>4, <3>5
  <2>. QED
    BY <2>1, <2>2, <2>3
<1>3. held' \in [Callers -> Held] /\ HeldInv'
  <2>1. Present' = Present
    BY <1>1 DEF Present, memory
  <2>. QED
    BY <1>1, <1>2, <2>1 DEF RegistryInv, HeldInv
<1>4. TypeOK'
  BY <1>1, <1>3 DEF RegistryInv, TypeOK, memory, disk, history
<1>. QED
  BY <1>1, <1>3, <1>4 DEF RegistryInv, ItemsHaveSets, HandlerInv, Present, memory, history

LEMMA StoreStep ==
  ASSUME RegistryInv, NEW c \in Callers, StoreSet(c)
  PROVE  RegistryInv'
<1>1. items' \in [Paths -> Entry] /\ \A q \in Paths : items'[q].set = items[q].set
  BY HoldsItem, AfterUse DEF RegistryInv, Present
<1>2. /\ UNCHANGED <<sets, setCount, disk, hpc, cmd, session, lost>> /\ hpc # "down"
      /\ strayed' \in BOOLEAN
      /\ held' = [held EXCEPT ![c] = NotHeld] /\ held \in [Callers -> Held]
  BY DEF StoreSet, InHook, RegistryInv, TypeOK
<1>3. NotHeld \in Held
  BY DEF NotHeld, Holding, Held
<1>4. Present' = Present
  BY <1>1 DEF Present
<1>5. HeldInv'
  BY <1>2, <1>4 DEF RegistryInv, HeldInv, NotHeld, Holding
<1>6. TypeOK'
  BY <1>1, <1>2, <1>3 DEF RegistryInv, TypeOK, disk
<1>7. ItemsHaveSets'
  BY <1>1, <1>2, <1>4 DEF RegistryInv, ItemsHaveSets, Present
<1>. QED
  BY <1>2, <1>4, <1>5, <1>6, <1>7 DEF RegistryInv, HandlerInv

-----------------------------------------------------------------------------
(* Restarts *)

Load == LoadConfig \/ LoadConfigFails \/ LoadConfigCutShort \/ LoadConfigMixed

(* The registry is built from the file, as far as it could be read, or from  *)
(* whatever two saves have left in it.                                       *)
LEMMA LoadResult ==
  ASSUME RegistryInv, Load
  PROVE  /\ sets' \in SUBSET Guids /\ (cnf.state # "mixed" => sets' \subseteq cnf.sets)
         /\ items' \in [Paths -> Entry]
         /\ \A p \in Paths :
              \/ items'[p].set = NoGuid
              \/ /\ items'[p].set \in sets'
                 /\ cnf.state # "mixed" => items'[p].set = cnf.owner[p]
<1>. USE DEF RegistryInv
<1>0. FileSets \in SUBSET Guids /\ FileSets \subseteq cnf.sets
  BY DEF TypeOK, Config, FileSets
<1>1. CASE LoadConfig
  <2>1. Loadable(FileSets) \in SUBSET Loadable(FileSets)
    OBVIOUS
  <2>2. sets' = FileSets /\ items' = LoadedItems(Loadable(FileSets), "live")
    BY <1>1 DEF LoadConfig
  <2>. QED
    BY <1>0, <2>1, <2>2, AfterLoad
<1>2. CASE LoadConfigFails
  <2>1. sets' = {} /\ items' = NoItems
    BY <1>2 DEF LoadConfigFails, InitMonitorSet, HandlerGoes, HandlerInv
  <2>. QED
    BY <2>1 DEF NoItems, NoEntry, Entry, Pointers
<1>3. CASE LoadConfigCutShort
  <2>1. PICK S \in SUBSET FileSets, last \in Paths \cup {NoItem} :
          sets' = S /\ items' = LoadedItems({p \in Loadable(S) : p <= last}, "live")
    BY <1>3 DEF LoadConfigCutShort
  <2>2. {p \in Loadable(S) : p <= last} \in SUBSET Loadable(S)
    OBVIOUS
  <2>. QED
    BY <1>0, <2>1, <2>2, AfterLoad
<1>4. CASE LoadConfigMixed
  <2>1. PICK ps \in SUBSET Filters : \E owner \in [ps -> sets'] :
          items' = [p \in Paths |-> IF p \in ps THEN [set |-> owner[p], ptr |-> "live"]
                                                ELSE NoEntry]
    BY <1>4 DEF LoadConfigMixed
  <2>6. PICK owner \in [ps -> sets'] :
          items' = [p \in Paths |-> IF p \in ps THEN [set |-> owner[p], ptr |-> "live"]
                                                ELSE NoEntry]
    BY <2>1
  <2>2. sets' \in SUBSET Guids /\ cnf.state = "mixed"
    BY <1>4 DEF LoadConfigMixed
  <2>3. \A p \in Paths : items'[p] = IF p \in ps THEN [set |-> owner[p], ptr |-> "live"]
                                                 ELSE NoEntry
    BY <2>6
  <2>4. \A p \in ps : owner[p] \in sets'
    BY <2>6
  <2>5. items' \in [Paths -> Entry]
    BY <2>6, <2>2, <2>4 DEF Entry, NoEntry, Pointers
  <2>. QED
    BY <2>2, <2>3, <2>4, <2>5 DEF NoEntry
<1>. QED
  BY <1>1, <1>2, <1>3, <1>4 DEF Load

LEMMA LoadStep == ASSUME RegistryInv, Load PROVE RegistryInv'
<1>1. /\ hpc' = "idle" /\ hpc = "down" /\ setCount' = 0
      /\ UNCHANGED <<disk, cmd, held, lost, strayed>>
      /\ session' \in {"loaded", "cut"}
  BY DEF Load, LoadConfig, LoadConfigFails, LoadConfigCutShort, LoadConfigMixed,
         InitMonitorSet, HandlerGoes
<1>2. /\ sets' \in SUBSET Guids
      /\ items' \in [Paths -> Entry]
      /\ \A p \in Paths : items'[p].set = NoGuid \/ items'[p].set \in sets'
  BY LoadResult
<1>3. TypeOK'
  BY <1>1, <1>2 DEF RegistryInv, TypeOK, disk
<1>4. ItemsHaveSets'
  BY <1>1, <1>2 DEF RegistryInv, ItemsHaveSets, Present
<1>5. HeldInv'
  BY <1>1 DEF RegistryInv, HeldInv, NotHeld, Holding
<1>. QED
  BY <1>1, <1>3, <1>4, <1>5 DEF RegistryInv, HandlerInv

LEMMA RegistryStep == RegistryInv /\ [Next]_vars => RegistryInv'
<1>. SUFFICES ASSUME RegistryInv, [Next]_vars PROVE RegistryInv'
  OBVIOUS
<1>1. CASE NetlinkCommand
  BY <1>1, AcceptStep
<1>2. CASE HandlerStep
  <2>1. CASE \E p \in Paths : DelMonitorItem(p) \/ ClearItem(p)
    BY <2>1, EraseStep DEF DelMonitorItem, Deleting, ClearItem
  <2>2. CASE InsertMonitorSet
    BY <2>2, InsertStep
  <2>3. CASE \E p \in Paths : AddMonitorItem(p) \/ RemoveMonitorItem(p)
    BY <2>3, AddItemStep, RemoveItemStep
  <2>4. CASE \/ InsertMonitorSetFails \/ (\E p \in Paths : AddMonitorItemFails(p))
             \/ ItemsDone \/ HandlerSaveFails
    BY <2>4, GivingUp
  <2>5. CASE BeginHandlerSave \/ EndHandlerSave
    BY <2>5, HandlerSaveStep
  <2>6. CASE DelMonitorSet
    BY <2>6, EraseSetStep
  <2>7. CASE ItemsCleared \/ ClearCounters \/ \E g \in Guids : ClearSet(g)
    BY <2>7, ItemsClearedStep, ClearSetStep, ClearCountersStep
  <2>. QED
    BY <1>2, <2>1, <2>2, <2>3, <2>4, <2>5, <2>6, <2>7 DEF HandlerStep
<1>3. CASE HookStep
  BY <1>3, SearchOrLookUp, StoreStep DEF HookStep
<1>4. CASE SaverStep
  BY <1>4, LogSaveStep
<1>5. CASE Crash
  BY <1>5, DownStep
<1>6. CASE Load
  BY <1>6, LoadStep
<1>7. CASE UNCHANGED vars
  BY <1>7 DEF vars, RegistryInv, TypeOK, ItemsHaveSets, HandlerInv, HeldInv, Present
<1>. QED
  BY <1>1, <1>2, <1>3, <1>4, <1>5, <1>6, <1>7 DEF Next, Load

LEMMA RegistryInvariant == Spec => []RegistryInv
BY RegistryInit, RegistryStep, PTL DEF Spec

(* For every number of sets, paths and tasks and whatever the shape of the   *)
(* trees, the registry keeps its types and no item is ever without its set:  *)
(* in the middle of a command or after a load of a file that a save has      *)
(* written while the trees changed, or that was cut short.                   *)
THEOREM RegistryConsistent == Spec => [](TypeOK /\ ItemsHaveSets)
<1>1. RegistryInv => TypeOK /\ ItemsHaveSets
  BY DEF RegistryInv
<1>. QED
  BY <1>1, RegistryInvariant, PTL

(* The types alone, as the runs check them. *)
THEOREM RegistryTypeCorrect == Spec => []TypeOK
<1>1. RegistryInv => TypeOK
  BY DEF RegistryInv
<1>. QED
  BY <1>1, RegistryInvariant, PTL

-----------------------------------------------------------------------------
(* Searching *)

Nested(t) == \E q, r \in t : <<q, r>> \in Prefix

(* A search over items of which none lies inside another is complete: it     *)
(* misses an item only because a second one lies between it and the path.    *)
LEMMA SearchComplete ==
  ASSUME NEW t \in SUBSET Paths, NEW p \in Paths, Found(t, p) # {}, NoItem \in MiSearch(t, p)
  PROVE  Nested(t)
<1>1. PICK q \in Found(t, p) : TRUE
  OBVIOUS
<1>2. q \in t /\ q \in Paths /\ Covers(q, p)
  BY <1>1 DEF Found
<1>3. ~SurelyFound(t, p)
  BY <1>2, RegistryAssumption DEF MiSearch, Found, NoItem
<1>4. PICK r \in t : r <= p /\ ~(r <= q)
  BY <1>1, <1>3 DEF SurelyFound
<1>5. p \in Nat /\ q \in Nat /\ r \in Nat /\ r \in Paths
  BY <1>2, <1>4, RegistryAssumption
<1>6. q # p /\ <<q, p>> \in Prefix
  BY <1>2, <1>4, <1>5 DEF Covers
<1>7. <<q, r>> \in Prefix
  BY <1>2, <1>4, <1>5, <1>6, RegistryAssumption
<1>. QED
  BY <1>2, <1>4, <1>7 DEF Nested

-----------------------------------------------------------------------------
(* Pointers *)

(* What a hook has found for an item that has not been freed is the entry of *)
(* that item's set.                                                          *)
GotInv ==
  ~lost => \A c \in Callers :
             held[c].live /\ held[c].got \in {"live", "stale"} =>
               held[c].got = "live" /\ held[c].set = items[held[c].path].set

(* A step that makes no pointer of an item stale. *)
LEMMA NoneGoesStale ==
  ASSUME PointersValid, lost => lost', strayed => strayed',
         \A p \in Paths : \/ items'[p] = items[p]
                          \/ items'[p].set = NoGuid
                          \/ items'[p].ptr # "stale"
  PROVE  PointersValid'
BY DEF PointersValid, Present

(* A step that leaves the hooks alone, but for those whose item it frees.    *)
LEMMA GotKept ==
  ASSUME RegistryInv, GotInv, lost => lost',
         \A c \in Callers : held'[c].live => held'[c] = held[c],
         \A p \in Present : items'[p].set = items[p].set \/ \A c \in Callers : held'[c].path # p
  PROVE  GotInv'
<1>. SUFFICES ASSUME ~lost', NEW c \in Callers, held'[c].live,
                     held'[c].got \in {"live", "stale"}
              PROVE  held'[c].got = "live" /\ held'[c].set = items'[held'[c].path].set
  BY DEF GotInv
<1>1. held'[c] = held[c] /\ held[c].path \in Present
  BY DEF RegistryInv, HeldInv, NotHeld, Holding
<1>2. items'[held[c].path].set = items[held[c].path].set
  BY <1>1
<1>. QED
  BY <1>1, <1>2 DEF GotInv

LEMMA GotSame ==
  ASSUME RegistryInv, GotInv, UNCHANGED <<items, held>>, lost => lost'
  PROVE  GotInv'
BY DEF GotInv

(* A step that frees items and changes no other. *)
LEMMA GotFreed ==
  ASSUME RegistryInv, GotInv, UNCHANGED lost, NEW gone, Release(gone \ {NoItem}),
         items' = Without(gone)
  PROVE  GotInv'
<1>1. held \in [Callers -> Held] /\ NoItem \notin Present
  BY RegistryAssumption DEF RegistryInv, TypeOK, Present, NoItem
<1>2. \A c \in Callers : held'[c].live => held'[c] = held[c] /\ held[c].path \notin gone \ {NoItem}
  BY <1>1 DEF Release, Held
<1>3. ASSUME NEW p \in Present, items'[p].set # items[p].set, NEW c \in Callers, held'[c].live
      PROVE  held'[c].path # p
  <2>1. p \in gone \ {NoItem}
    BY <1>1, <1>3 DEF Without, Present
  <2>. QED
    BY <1>2, <1>3, <2>1
<1>. SUFFICES ASSUME ~lost', NEW c \in Callers, held'[c].live,
                     held'[c].got \in {"live", "stale"}
              PROVE  held'[c].got = "live" /\ held'[c].set = items'[held'[c].path].set
  BY DEF GotInv
<1>4. held'[c] = held[c] /\ held[c].path \in Present
  BY <1>2 DEF RegistryInv, HeldInv, NotHeld, Holding
<1>5. items'[held[c].path].set = items[held[c].path].set
  BY <1>3, <1>4
<1>. QED
  BY <1>4, <1>5 DEF GotInv

LEMMA PointersStep ==
  ASSUME RegistryInv, PointersValid, GotInv, [Next]_vars
  PROVE  PointersValid' /\ GotInv'
<1>0. items \in [Paths -> Entry] /\ held \in [Callers -> Held]
      /\ lost \in BOOLEAN /\ strayed \in BOOLEAN
  BY DEF RegistryInv, TypeOK
<1>1. CASE UNCHANGED <<items, held, lost, strayed>>
  BY <1>1, NoneGoesStale, GotSame
<1>2. CASE NetlinkCommand \/ SaverStep \/ UNCHANGED vars
  BY <1>1, <1>2
     DEF NetlinkCommand, AddSet, AddItem, DelItem, DelSet, DelAll, Accept, SaverStep,
         BeginLogSave, SetsSaved, EndLogSave, LogSaveFails, SaveSet, SaveItem, SaveLeaves,
         vars, memory, history
<1>3. CASE HandlerStep
  <2>1. CASE \/ InsertMonitorSet \/ InsertMonitorSetFails \/ ItemsDone
             \/ BeginHandlerSave \/ EndHandlerSave \/ HandlerSaveFails
             \/ (\E p \in Paths : AddMonitorItemFails(p))
    BY <1>1, <2>1
       DEF InsertMonitorSet, InsertMonitorSetFails, ItemsDone, BeginHandlerSave,
           EndHandlerSave, HandlerSaveFails, AddMonitorItemFails, memory, history
  <2>2. ASSUME NEW p \in Paths, DelMonitorItem(p) \/ ClearItem(p) \/ RemoveMonitorItem(p)
        PROVE  PointersValid' /\ GotInv'
    <3>1. PICK gone : items' = Without(gone) /\ Release(gone \ {NoItem})
      <4>1. {p} \ {NoItem} = {p}
        BY RegistryAssumption DEF NoItem
      <4>2. CASE Erase(p)
        BY <4>1, <4>2 DEF Erase
      <4>3. CASE RemoveMonitorItem(p)
        BY <4>3 DEF RemoveMonitorItem
      <4>. QED
        BY <2>2, <4>2, <4>3 DEF DelMonitorItem, ClearItem
    <3>2. UNCHANGED <<lost, strayed>>
      BY <2>2 DEF DelMonitorItem, ClearItem, RemoveMonitorItem, Erase, history
    <3>3. PointersValid'
      BY <3>1, <3>2, NoneGoesStale DEF Without, NoEntry
    <3>. QED
      BY <3>1, <3>2, <3>3, GotFreed
  <2>3. ASSUME NEW p \in Paths, AddMonitorItem(p) PROVE PointersValid' /\ GotInv'
    <3>1. \/ items' = items
          \/ /\ items' = [items EXCEPT ![p] = [set |-> cmd.guid, ptr |-> "null"]]
             /\ p \notin Present
      BY <2>3, EmptyHanded DEF AddMonitorItem, With, Present
    <3>2. UNCHANGED <<lost, strayed, held>>
      BY <2>3 DEF AddMonitorItem, history
    <3>3. PointersValid'
      BY <1>0, <3>1, <3>2, NoneGoesStale
    <3>4. \A q \in Present : items'[q].set = items[q].set
      BY <1>0, <3>1 DEF Present
    <3>. QED
      BY <3>2, <3>3, <3>4, GotKept
  <2>4. CASE DelMonitorSet
    <3>1. lost' \in BOOLEAN /\ (~lost' => ~lost /\ ItemsOf(cmd.guid) = {})
      BY <2>4, WalkEnded DEF DelMonitorSet, RegistryInv
    <3>2. items' = Dangling(items, cmd.guid) /\ ReleaseSet(cmd.guid) /\ UNCHANGED strayed
      BY <2>4 DEF DelMonitorSet, EraseSet
    <3>3. SUFFICES ASSUME ~lost' PROVE PointersValid' /\ GotInv'
      BY DEF PointersValid, GotInv
    <3>4. \A p \in Paths : items'[p] = items[p]
      BY <3>1, <3>2, <3>3 DEF Dangling, ItemsOf
    <3>5. ASSUME NEW c \in Callers, held'[c].live PROVE held'[c] = held[c]
      <4>1. SUFFICES ASSUME held[c].set = cmd.guid, held[c].got = "live" PROVE FALSE
        BY <3>2 DEF ReleaseSet
      <4>2. held[c].live
        BY <1>0, <3>2, <3>5, <4>1 DEF ReleaseSet, Held
      <4>3. held[c].path \in Present /\ items[held[c].path].set = cmd.guid
        BY <3>1, <3>3, <4>1, <4>2 DEF RegistryInv, HeldInv, NotHeld, Holding, GotInv
      <4>. QED
        BY <3>1, <3>3, <4>3 DEF ItemsOf, Present
    <3>6. PointersValid'
      BY <3>1, <3>2, <3>3, <3>4, NoneGoesStale
    <3>. QED
      BY <3>1, <3>3, <3>4, <3>5, <3>6, GotKept DEF Present
  <2>5. CASE ItemsCleared \/ ClearCounters
    <3>1. UNCHANGED <<items, held, strayed>>
      BY <2>5 DEF ItemsCleared, ClearCounters, memory
    <3>2. ~lost' => ~lost
      BY <2>5, WalkEnded DEF ItemsCleared, ClearCounters, RegistryInv
    <3>. QED
      BY <1>0, <3>1, <3>2, NoneGoesStale, GotSame
  <2>6. ASSUME NEW g \in Guids, ClearSet(g) PROVE PointersValid' /\ GotInv'
    <3>1. /\ items' = Dangling(items, g) /\ UNCHANGED <<lost, strayed>> /\ ReleaseSet(g)
          /\ ~lost => Present = {}
      BY <2>6 DEF ClearSet, HandlerInv, RegistryInv, history
    <3>2. \A p \in Paths : items'[p].set = items[p].set
      BY <1>0, <3>1, AfterDangling
    <3>3. PointersValid'
      BY <3>1, <3>2 DEF PointersValid, Present
    <3>4. ASSUME ~lost, NEW c \in Callers, held[c].live PROVE held[c] = NotHeld
      BY <3>1, <3>4 DEF RegistryInv, HeldInv
    <3>5. NotHeld.got = "unread"
      BY DEF NotHeld, Holding
    <3>6. \A c \in Callers : /\ held'[c].live = held[c].live
                             /\ held[c].got = "unread" => held'[c] = held[c]
      BY <1>0, <3>1 DEF ReleaseSet, Held
    <3>. QED
      BY <3>1, <3>3, <3>4, <3>5, <3>6 DEF GotInv
  <2>. QED
    BY <1>3, <2>1, <2>2, <2>3, <2>4, <2>5, <2>6 DEF HandlerStep
<1>4. CASE HookStep
  <2>1. PICK c \in Callers :
          \/ UseItem(c) \/ StoreSet(c)
          \/ \E g \in Guids : SearchSet(c, g)
          \/ \E p \in Paths : LookUp(c, p)
    BY <1>4 DEF HookStep
  <2>2. CASE UseItem(c) \/ \E p \in Paths : LookUp(c, p)
    <3>1. UNCHANGED <<items, lost, strayed>> /\ \E p : held' = [held EXCEPT ![c] = Holding(p)]
      BY <2>2 DEF UseItem, LookUp, NotHeld, memory, history
    <3>2. PointersValid'
      BY <3>1, NoneGoesStale
    <3>. QED
      BY <1>0, <3>1, <3>2 DEF GotInv, Holding
  <2>3. ASSUME NEW g \in Guids, SearchSet(c, g) PROVE PointersValid' /\ GotInv'
    <3>1. UNCHANGED <<items, lost, strayed>>
      BY <2>3 DEF SearchSet, memory, history
    <3>2. PICK got \in {"live", "null"} : held' = [held EXCEPT ![c].set = g, ![c].got = got]
      BY <2>3 DEF SearchSet
    <3>3. held[c].live => items[held[c].path].set = g
      BY <2>3 DEF SearchSet
    <3>4. /\ held'[c].live = held[c].live /\ held'[c].path = held[c].path
          /\ held'[c].set = g /\ held'[c].got = got
      <4>1. held[c] \in Held
        BY <1>0
      <4>2. held'[c] = [held[c] EXCEPT !.set = g, !.got = got]
        BY <1>0, <3>2
      <4>. QED
        BY <4>1, <4>2 DEF Held
    <3>5. \A d \in Callers : d # c => held'[d] = held[d]
      BY <1>0, <3>2
    <3>6. PointersValid'
      BY <3>1, NoneGoesStale
    <3>. QED
      BY <3>1, <3>3, <3>4, <3>5, <3>6 DEF GotInv
  <2>4. CASE StoreSet(c)
    <3>1. UNCHANGED lost /\ held' = [held EXCEPT ![c] = NotHeld]
      BY <2>4 DEF StoreSet
    <3>7. (lost => lost') /\ (~lost' => ~lost)
      BY <3>1
    <3>2. \A q \in Paths : items'[q].set = items[q].set
      BY <2>4, HoldsItem, AfterUse DEF RegistryInv, Present
    <3>3. GotInv'
      <4>1. NotHeld.got = "unread"
        BY DEF NotHeld, Holding
      <4>2. \A d \in Callers : d # c => held'[d] = held[d]
        BY <1>0, <3>1
      <4>3. held'[c].got = "unread"
        BY <1>0, <3>1, <4>1
      <4>. SUFFICES ASSUME ~lost', NEW d \in Callers, held'[d].live,
                           held'[d].got \in {"live", "stale"}
                    PROVE  held'[d].got = "live" /\ held'[d].set = items'[held'[d].path].set
        BY DEF GotInv
      <4>4. held'[d] = held[d] /\ held[d].path \in Present
        BY <4>2, <4>3 DEF RegistryInv, HeldInv, NotHeld, Holding
      <4>. QED
        BY <3>1, <3>2, <4>4 DEF GotInv, Present
    <3>4. ASSUME held[c].live,
                 items' = [items EXCEPT ![held[c].path].ptr = Pointer(held[c].path, c)],
                 UNCHANGED strayed
          PROVE  PointersValid'
      <4>1. held[c].path \in Paths /\ held[c].got \in Pointers
        BY <2>4, <3>4, HoldsItem DEF Present, StoreSet, InHook
      <4>2. ~lost => Pointer(held[c].path, c) # "stale"
        BY <3>4, <4>1 DEF Pointer, GotInv, Pointers
      <4>3. SUFFICES ASSUME ~lost PROVE PointersValid'
        BY <3>7 DEF PointersValid
      <4>4. \A q \in Paths : items'[q] = items[q] \/ items'[q].ptr # "stale"
        <5>1. items'[held[c].path].ptr = Pointer(held[c].path, c)
          BY <1>0, <3>4, <4>1 DEF Entry
        <5>. QED
          BY <1>0, <3>4, <4>2, <4>3, <5>1
      <4>. QED
        BY <3>4, <3>7, <4>4, NoneGoesStale
    <3>5. ASSUME UNCHANGED <<items, strayed>> PROVE PointersValid'
      BY <3>5, <3>7, NoneGoesStale
    <3>6. ASSUME strayed' = TRUE PROVE PointersValid'
      BY <3>6 DEF PointersValid
    <3>. QED
      BY <2>4, <3>3, <3>4, <3>5, <3>6 DEF StoreSet
  <2>. QED
    BY <2>1, <2>2, <2>3, <2>4
<1>5. CASE Crash
  <2>1. held' = [c \in Callers |-> NotHeld] /\ items' = NoItems
    BY <1>5 DEF Crash
  <2>2. GotInv'
    BY <2>1 DEF GotInv, NotHeld, Holding
  <2>3. PointersValid'
    BY <2>1 DEF PointersValid, Present, NoItems, NoEntry
  <2>. QED
    BY <2>2, <2>3
<1>6. CASE Load
  <2>1. \A p \in Paths : \/ items'[p] = items[p]
                         \/ items'[p].set = NoGuid
                         \/ items'[p].ptr # "stale"
    <3>1. CASE LoadConfigMixed
      <4>1. PICK ps \in SUBSET Filters : \E owner \in [ps -> sets'] :
              items' = [p \in Paths |-> IF p \in ps THEN [set |-> owner[p], ptr |-> "live"]
                                                    ELSE NoEntry]
        BY <3>1 DEF LoadConfigMixed
      <4>. QED
        BY <4>1 DEF NoEntry
    <3>2. CASE LoadConfigFails
      BY <3>2 DEF LoadConfigFails
    <3>3. CASE LoadConfig \/ LoadConfigCutShort
      <4>1. \E ps : items' = LoadedItems(ps, "live")
        BY <3>3 DEF LoadConfig, LoadConfigCutShort
      <4>. QED
        BY <4>1 DEF LoadedItems, NoEntry
    <3>. QED
      BY <1>6, <3>1, <3>2, <3>3 DEF Load
  <2>2. hpc = "down" /\ UNCHANGED <<held, lost, strayed>>
    BY <1>6 DEF Load, LoadConfig, LoadConfigFails, LoadConfigCutShort, LoadConfigMixed,
                InitMonitorSet, HandlerGoes
  <2>3. \A c \in Callers : held'[c].got = "unread"
    BY <2>2 DEF RegistryInv, HeldInv, NotHeld, Holding
  <2>4. GotInv'
    BY <2>3 DEF GotInv
  <2>. QED
    BY <2>1, <2>2, <2>4, NoneGoesStale
<1>. QED
  BY <1>2, <1>3, <1>4, <1>5, <1>6 DEF Next, Load

(* pSetEntry never outlives the entry of the set it points to, for any       *)
(* number of sets, paths and tasks and with commands between any two steps   *)
(* of the hooks, unless a walk broke off or a hook wrote into freed memory   *)
(* that serves another item.                                                 *)
THEOREM PointersStayValid == Spec => []PointersValid
<1>1. Init => PointersValid /\ GotInv
  BY DEF Init, PointersValid, GotInv, Present, NoItems, NoEntry, NotHeld, Holding
<1>. QED
  BY <1>1, PointersStep, RegistryInvariant, PTL DEF Spec

-----------------------------------------------------------------------------
(* The counter ulCounts *)

(* Before anything was loaded the counter is no smaller than the tree. *)
CountInv ==
  session = "first" /\ ~lost => IsFiniteSet(sets) /\ Cardinality(sets) <= setCount

LEMMA CountStep ==
  ASSUME RegistryInv, CountInv, [Next]_vars
  PROVE  CountInv'
<1>. USE DEF RegistryInv
<1>0. SUFFICES ASSUME session' = "first", ~lost'
               PROVE  IsFiniteSet(sets') /\ Cardinality(sets') <= setCount'
  BY DEF CountInv
<1>1. setCount \in Nat /\ lost \in BOOLEAN
  BY DEF TypeOK
<1>2. CASE UNCHANGED <<sets, setCount, session, lost>>
  BY <1>0, <1>2 DEF CountInv
<1>3. CASE InsertMonitorSet
  <2>1. IsFiniteSet(sets) /\ Cardinality(sets) <= setCount /\ Cardinality(sets) \in Nat
    BY <1>0, <1>3, FS_CardinalityType DEF InsertMonitorSet, history, CountInv
  <2>2. IsFiniteSet(sets') /\ Cardinality(sets') = Cardinality(sets) + 1
    BY <1>3, <2>1, FS_AddElement DEF InsertMonitorSet
  <2>. QED
    BY <1>1, <1>3, <2>1, <2>2 DEF InsertMonitorSet
<1>4. CASE DelMonitorSet
  <2>1. ~lost /\ session = "first"
    BY <1>0, <1>4, WalkEnded DEF DelMonitorSet, EraseSet
  <2>2. IsFiniteSet(sets) /\ Cardinality(sets) <= setCount /\ Cardinality(sets) \in Nat
    BY <2>1, FS_CardinalityType DEF CountInv
  <2>3. sets' = sets \ {cmd.guid} /\ setCount' = Uncounted(cmd.guid)
    BY <1>4 DEF DelMonitorSet, EraseSet
  <2>4. /\ IsFiniteSet(sets')
        /\ Cardinality(sets') = IF cmd.guid \in sets THEN Cardinality(sets) - 1
                                                     ELSE Cardinality(sets)
    BY <2>2, <2>3, FS_RemoveElement
  <2>5. cmd.guid \in sets => Cardinality(sets) # 0
    BY <2>2, FS_EmptySet
  <2>. QED
    BY <1>1, <2>2, <2>3, <2>4, <2>5 DEF Uncounted
<1>5. ASSUME NEW g \in Guids, ClearSet(g)
      PROVE  IsFiniteSet(sets') /\ Cardinality(sets') <= setCount'
  <2>1. IsFiniteSet(sets) /\ Cardinality(sets) <= setCount /\ Cardinality(sets) \in Nat
    BY <1>0, <1>5, FS_CardinalityType DEF ClearSet, history, CountInv
  <2>2. IsFiniteSet(sets') /\ Cardinality(sets') = Cardinality(sets) - 1
    BY <1>5, <2>1, FS_RemoveElement DEF ClearSet
  <2>. QED
    BY <1>1, <1>5, <2>1, <2>2 DEF ClearSet
<1>6. CASE ClearCounters
  <2>1. sets' = {} /\ setCount' = 0
    BY <1>0, <1>6, WalkEnded DEF ClearCounters
  <2>. QED
    BY <2>1, FS_EmptySet
<1>7. CASE Crash
  <2>1. sets' = {} /\ setCount' = 0
    BY <1>7 DEF Crash
  <2>. QED
    BY <2>1, FS_EmptySet
<1>8. CASE ItemsCleared
  BY <1>0, <1>8, WalkEnded DEF ItemsCleared, CountInv, memory
<1>9. ~Load
  BY <1>0 DEF Load, LoadConfig, LoadConfigFails, LoadConfigCutShort, LoadConfigMixed
<1>10. CASE NetlinkCommand \/ SaverStep \/ UNCHANGED vars
  BY <1>2, <1>10
     DEF NetlinkCommand, AddSet, AddItem, DelItem, DelSet, DelAll, Accept, SaverStep,
         BeginLogSave, SetsSaved, EndLogSave, LogSaveFails, SaveSet, SaveItem, SaveLeaves,
         vars, memory, history
<1>11. CASE HookStep
  BY <1>2, <1>11 DEF HookStep, UseItem, SearchSet, StoreSet, LookUp, memory, history
<1>12. CASE HandlerStep
  <2>1. CASE \/ InsertMonitorSetFails \/ ItemsDone
             \/ BeginHandlerSave \/ EndHandlerSave \/ HandlerSaveFails
    BY <1>2, <2>1
       DEF InsertMonitorSetFails, ItemsDone, BeginHandlerSave, EndHandlerSave,
           HandlerSaveFails, memory, history
  <2>2. ASSUME NEW p \in Paths,
               \/ DelMonitorItem(p) \/ ClearItem(p) \/ AddMonitorItem(p)
               \/ AddMonitorItemFails(p) \/ RemoveMonitorItem(p)
        PROVE  UNCHANGED <<sets, setCount, session, lost>>
    BY <2>2 DEF DelMonitorItem, ClearItem, AddMonitorItem, AddMonitorItemFails,
                RemoveMonitorItem, Erase, memory, history
  <2>. QED
    BY <1>2, <1>3, <1>4, <1>5, <1>6, <1>8, <1>12, <2>1, <2>2 DEF HandlerStep
<1>. QED
  BY <1>7, <1>9, <1>10, <1>11, <1>12 DEF Next, Load

(* Until a configuration is loaded, ulCounts never makes a set invisible     *)
(* while one of its items is monitored: a hook that holds an item gets its   *)
(* number.                                                                   *)
THEOREM EveryItemNumbered == Spec => []EveryItemFindsItsSet
<1>1. Init => CountInv
  BY FS_EmptySet DEF Init, CountInv
<1>2. RegistryInv /\ CountInv /\ PointersValid => EveryItemFindsItsSet
  <2>. SUFFICES ASSUME RegistryInv, CountInv, PointersValid,
                       session = "first", ~lost, ~strayed, NEW p \in Present
                PROVE  Numberable(p)
    BY DEF EveryItemFindsItsSet
  <2>1. items[p].set \in sets
    BY DEF RegistryInv, ItemsHaveSets
  <2>2. Cardinality(sets) \in Nat /\ Cardinality(sets) # 0 /\ Cardinality(sets) <= setCount
    BY <2>1, FS_EmptySet, FS_CardinalityType DEF CountInv
  <2>3. setCount \in Nat /\ items[p].ptr \in {"null", "live"}
    BY DEF RegistryInv, TypeOK, Entry, Pointers, Present, PointersValid
  <2>. QED
    BY <2>1, <2>2, <2>3 DEF Numberable, GetMonitorSetEntryFinds
<1>. QED
  BY <1>1, <1>2, CountStep, RegistryInvariant, PointersStayValid, PTL DEF Spec

-----------------------------------------------------------------------------
(* The refinement *)

TableUnchanged ==
  UNCHANGED <<sets, Owner, [known |-> cnf.sets, owner |-> cnf.owner,
                            state |-> IF cnf.state = "mixed" THEN "void" ELSE "good"]>>

LEMMA OwnerOf ==
  ASSUME NEW p \in Paths
  PROVE  Owner[p] = items[p].set /\ Owner'[p] = items'[p].set
BY DEF Owner

(* Steps that leave the sets, the items and the file alone stutter. *)
LEMMA TableStutters ==
  ASSUME UNCHANGED <<memory, cnf>> \/ UNCHANGED <<memory, disk>> PROVE TableUnchanged
BY DEF TableUnchanged, memory, disk, Owner

LEMMA TableDrop ==
  ASSUME RegistryInv, DelMonitorSet, ~lost'
  PROVE  cmd.guid \in Guids /\ Abstract!Drop(cmd.guid)
<1>1. cmd.guid \in Guids
  BY DEF DelMonitorSet, EraseSet, Deleting, RegistryInv, TypeOK
<1>2. \A p \in Paths : items[p].set # cmd.guid
  BY WalkEnded DEF DelMonitorSet, ItemsOf, RegistryInv
<1>3. sets' = sets \ {cmd.guid} /\ UNCHANGED cnf
  BY DEF DelMonitorSet, EraseSet
<1>4. \A p \in Paths : items'[p].set = items[p].set
  BY <1>1, AfterDangling DEF DelMonitorSet, EraseSet, RegistryInv, TypeOK
<1>. QED
  BY <1>1, <1>2, <1>3, <1>4 DEF Abstract!Drop, Owner

LEMMA TableClearSet ==
  ASSUME RegistryInv, NEW g \in Guids, ClearSet(g), ~lost'
  PROVE  Abstract!Drop(g)
<1>1. sets' = sets \ {g} /\ UNCHANGED cnf
  BY DEF ClearSet
<1>2. \A p \in Paths : items'[p].set = items[p].set
  BY AfterDangling DEF ClearSet, RegistryInv, TypeOK
<1>3. Present = {}
  BY DEF ClearSet, RegistryInv, HandlerInv, history
<1>4. \A p \in Paths : items[p].set # g
  BY <1>3, RegistryAssumption DEF Present
<1>. QED
  BY <1>1, <1>2, <1>4 DEF Abstract!Drop, Owner

LEMMA TablePut ==
  ASSUME RegistryInv, NEW p \in Paths, AddMonitorItem(p)
  PROVE  Abstract!Put(p, cmd.guid) \/ TableUnchanged
<1>1. /\ cmd.guid \in sets /\ cmd.guid \in Guids
      /\ items \in [Paths -> Entry]
      /\ UNCHANGED <<sets, cnf>>
  BY DEF RegistryInv, TypeOK, HandlerInv, AddMonitorItem, disk
<1>2. PICK r \in MiSearch(Present, p) :
        items' = IF r = NoItem THEN With(p, [set |-> cmd.guid, ptr |-> "null"]) ELSE items
  BY DEF AddMonitorItem
<1>3. CASE r = NoItem
  <2>1. p \notin Present
    BY <1>2, <1>3, EmptyHanded DEF Present
  <2>2. Owner[p] = NoGuid
    BY <2>1 DEF Present, Owner
  <2>3. items' = [items EXCEPT ![p] = [set |-> cmd.guid, ptr |-> "null"]]
    BY <1>2, <1>3 DEF With
  <2>4. \A q \in Paths : items'[q].set = IF q = p THEN cmd.guid ELSE items[q].set
    BY <1>1, <2>3
  <2>5. Owner' = [Owner EXCEPT ![p] = cmd.guid]
    BY <2>4 DEF Owner
  <2>. QED
    BY <1>1, <2>2, <2>5 DEF Abstract!Put
<1>4. CASE r # NoItem
  BY <1>1, <1>2, <1>4 DEF TableUnchanged, Owner
<1>. QED
  BY <1>3, <1>4

LEMMA TableErase ==
  ASSUME RegistryInv, NEW r \in Paths, items' = Without({r}), UNCHANGED <<sets, cnf>>
  PROVE  Abstract!Take(r)
<1>1. \A q \in Paths : items'[q].set = IF q = r THEN NoGuid ELSE items[q].set
  BY DEF Without, NoEntry
<1>2. Owner' = [Owner EXCEPT ![r] = NoGuid]
  BY <1>1 DEF Owner
<1>. QED
  BY <1>2 DEF Abstract!Take

LEMMA TableTake ==
  ASSUME RegistryInv, NEW p \in Paths, RemoveMonitorItem(p)
  PROVE  (\E r \in Paths : Abstract!Take(r)) \/ TableUnchanged
<1>1. PICK r \in MiSearch(Present, p) : items' = Without({r})
  BY DEF RemoveMonitorItem
<1>2. UNCHANGED <<sets, cnf>>
  BY DEF RemoveMonitorItem
<1>3. CASE r \in Paths
  BY <1>1, <1>2, <1>3, TableErase
<1>4. CASE r \notin Paths
  <2>1. \A q \in Paths : items'[q].set = items[q].set
    BY <1>1, <1>4 DEF Without
  <2>. QED
    BY <1>2, <2>1 DEF TableUnchanged, Owner
<1>. QED
  BY <1>3, <1>4

LEMMA TableClose == ASSUME RegistryInv, Crash PROVE Abstract!Close
<1>1. sets' = {} /\ items' = NoItems /\ UNCHANGED cnf
  BY DEF Crash
<1>2. Owner' = Abstract!Nothing
  BY <1>1 DEF Owner, NoItems, NoEntry, Abstract!Nothing
<1>. QED
  BY <1>1, <1>2 DEF Abstract!Close

(* A save is begun, notes a set or an item, or ends. *)
LEMMA TableBegin ==
  ASSUME UNCHANGED memory, NEW others \in BOOLEAN, BeginSave(others)
  PROVE  Abstract!Begin
BY DEF BeginSave, Blank, Unowned, Abstract!Begin, Abstract!Blank, Abstract!Nothing, memory, Owner

LEMMA TableSave ==
  ASSUME RegistryInv, EndHandlerSave
  PROVE  Abstract!Save \/ TableUnchanged
<1>1. UNCHANGED memory
  BY DEF EndHandlerSave
<1>2. CASE cnf.state = "mixed"
  BY <1>1, <1>2, TableStutters DEF EndHandlerSave
<1>3. CASE cnf.state # "mixed"
  BY <1>1, <1>3 DEF EndHandlerSave, Snapshot, Abstract!Save, memory, Owner
<1>. QED
  BY <1>2, <1>3

LEMMA TableLogSave ==
  ASSUME RegistryInv, SaverStep
  PROVE  \/ Abstract!Begin \/ TableUnchanged
         \/ \E g \in Guids : Abstract!NoteSet(g)
         \/ \E p \in Paths : Abstract!Note(p)
<1>1. PICK s \in Savers :
        \/ BeginLogSave(s) \/ SetsSaved(s) \/ EndLogSave(s) \/ LogSaveFails(s)
        \/ \E g \in Guids : SaveSet(s, g)
        \/ \E p \in Paths : SaveItem(s, p)
  BY DEF SaverStep
<1>2. UNCHANGED memory /\ cnf \in Config /\ UNCHANGED <<sets, Owner>>
  BY <1>1 DEF BeginLogSave, SetsSaved, EndLogSave, LogSaveFails, SaveSet, SaveItem,
              SaveLeaves, RegistryInv, TypeOK, memory, Owner
<1>3. CASE BeginLogSave(s)
  <2>1. BeginSave(SavesOf(s)) /\ SavesOf(s) \in BOOLEAN
    BY <1>3 DEF BeginLogSave, SavesOf
  <2>. QED
    BY <1>2, <2>1, TableBegin
<1>4. CASE SetsSaved(s) \/ LogSaveFails(s) \/ UNCHANGED cnf
  BY <1>2, <1>4, TableStutters DEF SetsSaved, LogSaveFails
<1>5. CASE EndLogSave(s)
  <2>1. cnf.state = "mixed" => UNCHANGED cnf
    BY <1>5 DEF EndLogSave
  <2>2. cnf.state # "mixed" =>
          cnf'.sets = cnf.sets /\ cnf'.owner = cnf.owner /\ cnf'.state # "mixed"
    BY <1>2, <1>5 DEF EndLogSave, Config
  <2>. QED
    BY <1>2, <2>1, <2>2 DEF TableUnchanged
<1>6. ASSUME NEW g \in Guids, SaveSet(s, g), cnf.state # "mixed" PROVE Abstract!NoteSet(g)
  <2>1. cnf' = [cnf EXCEPT !.sets = @ \cup {g}] /\ g \in sets
    BY <1>6 DEF SaveSet, NextEntry
  <2>2. cnf'.sets = cnf.sets \cup {g} /\ cnf'.owner = cnf.owner /\ cnf'.state = cnf.state
    BY <1>2, <2>1 DEF Config
  <2>. QED
    BY <1>2, <1>6, <2>1, <2>2 DEF Abstract!NoteSet
<1>7. ASSUME NEW p \in Paths, SaveItem(s, p), cnf.state # "mixed" PROVE Abstract!Note(p)
  <2>1. cnf' = [cnf EXCEPT !.owner[p] = Owner[p]] /\ Owner[p] # NoGuid
    BY <1>7 DEF SaveItem, NextEntry, Present, Owner
  <2>2. /\ cnf'.sets = cnf.sets /\ cnf'.state = cnf.state
        /\ cnf'.owner = [cnf.owner EXCEPT ![p] = Owner[p]]
    BY <1>2, <2>1 DEF Config
  <2>. QED
    BY <1>2, <1>7, <2>1, <2>2 DEF Abstract!Note
<1>8. CASE cnf.state = "mixed" /\ ((\E g \in Guids : SaveSet(s, g)) \/ \E p \in Paths : SaveItem(s, p))
  BY <1>4, <1>8 DEF SaveSet, SaveItem
<1>. QED
  BY <1>1, <1>3, <1>4, <1>5, <1>6, <1>7, <1>8

LEMMA TableReload == ASSUME RegistryInv, Load PROVE Abstract!Reload
<1>1. /\ sets' \in SUBSET Guids /\ (cnf.state # "mixed" => sets' \subseteq cnf.sets)
      /\ \A p \in Paths :
           \/ items'[p].set = NoGuid
           \/ /\ items'[p].set \in sets'
              /\ cnf.state # "mixed" => items'[p].set = cnf.owner[p]
  BY LoadResult
<1>2. sets = {} /\ UNCHANGED cnf
  BY DEF Load, LoadConfig, LoadConfigFails, LoadConfigCutShort, LoadConfigMixed,
         InitMonitorSet, HandlerGoes, RegistryInv, HandlerInv, disk
<1>3. \A p \in Paths : Owner'[p] = items'[p].set
  BY OwnerOf
<1>4. DOMAIN Owner' = Paths
  BY DEF Owner
<1>. QED
  BY <1>1, <1>2, <1>3, <1>4 DEF Abstract!Reload

LEMMA TableInit == Init => Abstract!Init
BY DEF Init, NoItems, NoEntry, Owner, Blank, Unowned, Abstract!Init, Abstract!Blank, Abstract!Nothing

LEMMA TableStep ==
  RegistryInv /\ [Next]_vars => (~lost' => [Abstract!Next]_(Abstract!vars))
<1>. SUFFICES ASSUME RegistryInv, [Next]_vars, ~lost'
              PROVE  Abstract!Next \/ TableUnchanged
  BY DEF TableUnchanged, Abstract!vars
<1>. USE DEF Abstract!Next
<1>1. CASE NetlinkCommand
  <2>1. ASSUME NEW g \in Guids, NEW ps \in FilterItems, AddSet(g, ps) \/ AddItem(g, ps)
        PROVE  TableUnchanged
    BY <2>1, TableStutters DEF AddSet, AddItem, Accept
  <2>2. ASSUME NEW ps \in FilterItems, DelItem(ps) PROVE TableUnchanged
    BY <2>2, TableStutters DEF DelItem, Accept
  <2>3. CASE DelAll \/ \E g \in Guids : DelSet(g)
    BY <2>3, TableStutters DEF DelSet, DelAll, Accept
  <2>. QED
    BY <1>1, <2>1, <2>2, <2>3 DEF NetlinkCommand
<1>2. CASE HandlerStep
  <2>1. CASE DelMonitorSet
    BY <2>1, TableDrop
  <2>2. CASE InsertMonitorSet
    <3>1. cmd.guid \in Guids
      BY <2>2 DEF InsertMonitorSet, RegistryInv, TypeOK
    <3>2. Abstract!Open(cmd.guid)
      BY <2>2 DEF InsertMonitorSet, Abstract!Open, Owner, disk
    <3>. QED
      BY <3>1, <3>2
  <2>3. ASSUME NEW p \in Paths, AddMonitorItem(p) PROVE Abstract!Next \/ TableUnchanged
    <3>1. cmd.guid \in Guids
      BY <2>3 DEF AddMonitorItem, RegistryInv, TypeOK
    <3>. QED
      BY <2>3, <3>1, TablePut
  <2>4. ASSUME NEW p \in Paths, RemoveMonitorItem(p)
        PROVE  Abstract!Next \/ TableUnchanged
    BY <2>4, TableTake
  <2>5. CASE \/ InsertMonitorSetFails \/ (\E p \in Paths : AddMonitorItemFails(p))
             \/ ItemsDone \/ HandlerSaveFails
    BY <2>5, TableStutters
       DEF InsertMonitorSetFails, AddMonitorItemFails, ItemsDone, HandlerSaveFails
  <2>6. CASE BeginHandlerSave
    <3>1. (\E t \in Savers : saver[t].pc # "idle") \in BOOLEAN
      OBVIOUS
    <3>. QED
      BY <2>6, <3>1, TableBegin DEF BeginHandlerSave
  <2>10. CASE EndHandlerSave
    BY <2>10, TableSave
  <2>7. ASSUME NEW p \in Paths, DelMonitorItem(p) \/ ClearItem(p)
        PROVE  Abstract!Take(p)
    BY <2>7, TableErase DEF DelMonitorItem, ClearItem, Erase
  <2>8. ASSUME NEW g \in Guids, ClearSet(g) PROVE Abstract!Drop(g)
    BY <2>8, TableClearSet
  <2>9. CASE ItemsCleared \/ ClearCounters
    BY <2>9 DEF ItemsCleared, ClearCounters, TableUnchanged, Owner, memory, disk
  <2>. QED
    BY <1>2, <2>1, <2>2, <2>3, <2>4, <2>5, <2>6, <2>7, <2>8, <2>9, <2>10 DEF HandlerStep
<1>3. CASE HookStep
  <2>1. PICK c \in Callers :
          \/ UseItem(c) \/ StoreSet(c)
          \/ \E g \in Guids : SearchSet(c, g)
          \/ \E p \in Paths : LookUp(c, p)
    BY <1>3 DEF HookStep
  <2>2. CASE StoreSet(c)
    <3>1. \A q \in Paths : items'[q].set = items[q].set
      BY <2>2, HoldsItem, AfterUse DEF RegistryInv, Present
    <3>2. UNCHANGED <<sets, cnf>>
      BY <2>2 DEF StoreSet, disk
    <3>. QED
      BY <3>1, <3>2 DEF TableUnchanged, Owner
  <2>3. CASE \/ UseItem(c) \/ (\E g \in Guids : SearchSet(c, g))
             \/ \E p \in Paths : LookUp(c, p)
    BY <2>3, TableStutters DEF UseItem, SearchSet, LookUp
  <2>. QED
    BY <2>1, <2>2, <2>3
<1>5. CASE SaverStep
  BY <1>5, TableLogSave
<1>6. CASE Crash
  BY <1>6, TableClose
<1>7. CASE Load
  BY <1>7, TableReload
<1>8. CASE UNCHANGED vars
  BY <1>8, TableStutters DEF vars, memory
<1>. QED
  BY <1>1, <1>2, <1>3, <1>5, <1>6, <1>7, <1>8 DEF Next, Load

(* The registry implements the table for every number of sets, paths and     *)
(* tasks: through commands that stop half-way, saves that walk the trees     *)
(* while a command edits them, crashes and loads that are cut short, a path  *)
(* never passes from one set to another, no set goes before its paths, and a *)
(* restart brings back nothing that a save did not find in the trees (unless *)
(* two saves at the same time have mixed up the file), until a walk of a     *)
(* deletion breaks off.                                                      *)
THEOREM RegistryImplementsTable == Spec => ImplementsBackupTable
<1>1. RegistryInv /\ [Next]_vars => [~lost' => [Abstract!Next]_(Abstract!vars)]_vars
  BY TableStep
<1>. QED
  BY <1>1, TableInit, RegistryInvariant, PTL DEF Spec, ImplementsBackupTable

-----------------------------------------------------------------------------
(* Restarts *)

Smaller == {p \in Nat \X Nat : p[1] < p[2]}

LEMMA LeastOf ==
  ASSUME NEW S \in SUBSET Nat, S # {}
  PROVE  \E x \in S : \A y \in S : ~(y < x)
<1>1. IsWellFoundedOn(Smaller, Nat)
  BY NatLessThanWellFounded, Zenon DEF OpToRel, Smaller
<1>2. PICK x \in S : \A y \in S : ~(<<y, x>> \in Smaller)
  BY <1>1, WFMin
<1>. QED
  BY <1>2 DEF Smaller

(* A complete load: what it makes of the trees. *)
LEMMA LoadMakes ==
  ASSUME TypeOK, LoadConfig
  PROVE  /\ sets' = FileSets /\ cnf' = cnf
         /\ Present' = Loadable(FileSets)
         /\ \A p \in Loadable(FileSets) : items'[p].ptr = "live"
<1>1. /\ sets' = FileSets /\ cnf' = cnf
      /\ items' = LoadedItems(Loadable(FileSets), "live")
  BY DEF LoadConfig, InitMonitorSet, disk
<1>2. FileSets \subseteq Guids /\ NoGuid \notin Guids
  BY RegistryAssumption DEF TypeOK, Config, FileSets
<1>3. \A p \in Loadable(FileSets) : p \in Paths /\ cnf.owner[p] # NoGuid
  BY <1>2 DEF Loadable
<1>4. \A p \in Paths : items'[p] = IF p \in Loadable(FileSets)
                                     THEN [set |-> cnf.owner[p], ptr |-> "live"] ELSE NoEntry
  BY <1>1 DEF LoadedItems
<1>5. \A p \in Paths : /\ p \in Loadable(FileSets) => items'[p].set # NoGuid /\ items'[p].ptr = "live"
                       /\ p \notin Loadable(FileSets) => items'[p].set = NoGuid
  <2>. SUFFICES ASSUME NEW p \in Paths
                PROVE  /\ p \in Loadable(FileSets) => items'[p].set # NoGuid /\ items'[p].ptr = "live"
                       /\ p \notin Loadable(FileSets) => items'[p].set = NoGuid
    OBVIOUS
  <2>1. CASE p \in Loadable(FileSets)
    <3>1. items'[p] = [set |-> cnf.owner[p], ptr |-> "live"]
      BY <1>4, <2>1
    <3>. QED
      BY <1>3, <2>1, <3>1
  <2>2. CASE p \notin Loadable(FileSets)
    <3>1. items'[p] = NoEntry
      BY <1>4, <2>2
    <3>. QED
      BY <2>2, <3>1 DEF NoEntry
  <2>. QED
    BY <2>1, <2>2
<1>6. Present' = {p \in Paths : items'[p].set # NoGuid}
  BY DEF Present
<1>7. Loadable(FileSets) \subseteq Paths
  BY <1>3
<1>8. Present' = Loadable(FileSets)
  BY <1>5, <1>6, <1>7
<1>9. \A p \in Loadable(FileSets) : items'[p].ptr = "live"
  BY <1>5, <1>7
<1>. QED
  BY <1>1, <1>8, <1>9

(* The outermost saved item over a path is one the load inserts, since        *)
(* whatever lies over it lies over the path.                                 *)
LEMMA LoadKeepsCover ==
  ASSUME NEW p \in Paths, NEW S, \E q \in Paths : Covers(q, p) /\ cnf.owner[q] \in S
  PROVE  Found(Loadable(S), p) # {}
<1>. DEFINE Over == {q \in Paths : Covers(q, p) /\ cnf.owner[q] \in S}
<1>1. Over \in SUBSET Nat /\ Over # {}
  BY RegistryAssumption
<1>2. PICK q \in Over : \A r \in Over : ~(r < q)
  BY <1>1, LeastOf
<1>3. ASSUME NEW r \in Paths, <<r, q>> \in Prefix, cnf.owner[r] \in S PROVE FALSE
  <2>1. r < q
    BY <1>2, <1>3, RegistryAssumption
  <2>2. Covers(r, p)
    BY <1>2, <1>3, RegistryAssumption DEF Covers
  <2>. QED
    BY <1>2, <1>3, <2>1, <2>2
<1>4. q \in Loadable(S)
  BY <1>2, <1>3 DEF Loadable
<1>. QED
  BY <1>2, <1>4 DEF Found

LEMMA RestartStep ==
  ASSUME TypeOK, [Next]_vars, vars' # vars, hpc = "down", session' = "loaded",
         NEW p \in Paths, \E q \in Paths : Covers(q, p) /\ cnf.owner[q] \in FileSets,
         NEW r \in MiSearch(Present', p)
  PROVE  r # NoItem /\ items'[r].ptr = "live"
<1>1. LoadConfig
  <2>1. ~NetlinkCommand /\ ~SaverStep /\ ~HookStep /\ ~Crash
    BY DEF NetlinkCommand, AddSet, AddItem, DelItem, DelSet, DelAll, Accept, HandlerGoes,
           SaverStep, BeginLogSave, SetsSaved, EndLogSave, LogSaveFails, SaveSet, SaveItem, Saving,
           HookStep, UseItem, SearchSet, StoreSet, LookUp, InHook, Crash
  <2>2. ~HandlerStep
    BY DEF HandlerStep, DelMonitorSet, EraseSet, Deleting, InsertMonitorSet, InsertMonitorSetFails,
           ItemsDone, DelMonitorItem, ClearItem, AddMonitorItem, AddMonitorItemFails,
           RemoveMonitorItem, ItemsCleared, ClearCounters, ClearSet, HandlerGoes,
           BeginHandlerSave, EndHandlerSave, HandlerSaveFails
  <2>4. ~LoadConfigFails /\ ~LoadConfigCutShort /\ ~LoadConfigMixed
    BY DEF LoadConfigFails, LoadConfigCutShort, LoadConfigMixed
  <2>. QED
    BY <2>1, <2>2, <2>4 DEF Next
<1>. DEFINE t == Loadable(FileSets)
<1>2. t \in SUBSET Paths /\ Present' = t /\ \A x \in t : items'[x].ptr = "live"
  BY <1>1, LoadMakes DEF Loadable
<1>3. Found(t, p) # {}
  BY LoadKeepsCover
<1>4. ~Nested(t)
  BY DEF Nested, Loadable
<1>. HIDE DEF t
<1>5. r \in MiSearch(t, p) /\ r # NoItem
  BY <1>2, <1>3, <1>4, SearchComplete
<1>6. r \in t
  BY <1>2, <1>5, SearchResult
<1>. QED
  BY <1>2, <1>5, <1>6

(* RestartKeepsCoverage of MonitorRegistry: whatever lies inside what and      *)
(* whatever the shape of the tree, a complete load (LoadConfig) leaves every  *)
(* path that a saved item covers with an item that the hooks find, and with a *)
(* number: the items it drops lie inside others, and among those it keeps no  *)
(* search goes astray.                                                       *)
THEOREM RestartsKeepCoverage == Spec => RestartKeepsCoverage
<1>1. TypeOK /\ [Next]_vars =>
        [hpc = "down" /\ session' = "loaded" =>
           \A p \in Paths :
             (\E q \in Paths : Covers(q, p) /\ cnf.owner[q] \in FileSets) =>
               \A r \in MiSearch(Present, p)' : r # NoItem /\ Numberable(r)']_vars
  <2>. SUFFICES ASSUME TypeOK, [Next]_vars, vars' # vars, hpc = "down", session' = "loaded",
                       NEW p \in Paths, \E q \in Paths : Covers(q, p) /\ cnf.owner[q] \in FileSets,
                       NEW r \in MiSearch(Present, p)'
                PROVE  r # NoItem /\ Numberable(r)'
    OBVIOUS
  <2>1. MiSearch(Present, p)' = MiSearch(Present', p)
    BY DEF MiSearch, SurelyFound, Found, Covers, NoItem
  <2>2. r # NoItem /\ items'[r].ptr = "live"
    BY <2>1, RestartStep
  <2>. QED
    BY <2>2 DEF Numberable
<1>. QED
  BY <1>1, RegistryTypeCorrect, PTL DEF Spec, RestartKeepsCoverage
=============================================================================
