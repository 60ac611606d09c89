# rtbackup: a formal model

`rtbackup` (module version 1.0.0.4) is a Linux kernel module for real-time backup. It
replaces eight `vfs_*` functions with hooks; an operation on a monitored path draws a sequence
number, runs, and leaves a numbered *IO log* file in the log directory of its backup set. A
management application configures the sets over netlink; a restore tool replays the log files in
the order of their numbers.

This directory models the program in TLA+. TLC checks the models on small instances; TLAPS proves
every safety property the runs find to hold, but for the two of the search tree, and two refinements,
for every value of the constants.
`PROJECT.json` lists the runs, the lines each definition stands for, the deviations used to test
each property, the findings, the hazards and the theorems.

## 1. Inventory of the system

| Component | State | Operations | Modelled in |
|---|---|---|---|
| Logging hooks, `hookvfs.c` | locals of a call; `bNormalRunning` | `rtb_vfs_{write,create,mkdir,unlink,rmdir,rename,symlink,link}` | `IoLog` |
| Records and queue, `createiolog.c` | `iowritequeue`, the completion | `createiologfor*`, `createiolog` | `IoLog` |
| Writer thread, `iowritethread.c` | the record it holds | `thread_iowrite` | `IoLog` |
| Registry, `monitorset.c` | trees of sets and items, `ulCounts`, the sequence counters | ADDSET, ADDITEM, DELSET, DELITEM, DELALL, look-up, numbering | `MonitorRegistry`; the numbering in `IoLog` |
| Search trees, `rb.c` | two red-black trees | `ms_*`, `mi_*` | in part: the tree of items in `PathTree`, what a search returns in `MonitorRegistry` |
| Persistent configuration, `monitorset.c` | `/etc/rtb.cnf` | `SaveConfig`, `LoadConfig` | `ConfigFile`, `MonitorRegistry`, `IoLog` |
| Netlink commands, `rtbnetlink.c`, `usrlink.h` | last shutdown status | `process_netlink_cmd`, `notify_user_status` | `MonitorRegistry`, `ConfigFile`, `UserLibrary`, `Lifecycle`, `IoLog` |
| Life cycle, `module.c` | what is registered with the kernel | `init_rtbackup`, `exit_rtbackup`, `myreboot` | `Lifecycle`, `ConfigFile`, `IoLog` |
| Function hijacking, `hijacks.c`, `symbols.c`, `kernfunc.c` | patched kernel text, copies of functions | `find_symbol_address`, `symbol_hijack`, `symbol_restore` | `Lifecycle` |
| Path computation, `getpath.c` | none | dentry to path | no (its result and its failure are inputs) |
| File helpers, `fileop.c` | none | open, read, write, close | `ConfigFile`, `IoLog`, as steps and failures |
| User-space library, `communicate/` | `p_sock`, receiving thread | init, send, receive, uninit | `UserLibrary` |
| Restore tools, `test/` | the counter of the replay, the restored files | `RestoreIolog`, `AnalysisIolog` | `Restore` |
| Instruction decoder, `arch/` | none | kernel code, copied | no |

**How they interact.** A hook runs in the task that called the file operation. It looks the path
up in the tree of items, draws two numbers under `gseqnolock` (`ullSeqNo` of the item,
`ullSetSeqNo` of the set), runs the original function, builds a record, links it under
`iowritequeuelock` and signals a completion. The kernel thread waits for the completion with a
timeout, takes records from the head of the queue, writes each to a file named by its set's number
and saves the configuration, which holds the counters. Netlink commands run in the task that sends
them and edit the trees; the reboot notifier and the writer thread save the configuration while
they do. All calls of `WaitWriteForMonitor`, the lock that once separated commands from hooks, are
commented out.

**What is hard.** Four kinds of actors share memory with two spinlocks, each covering a few lines.
The number is drawn before the operation and the record queued after it. Every allocation, open
and write may fail, and most callers ignore the result. The configuration is rewritten in place,
while it changes. Deletions walk a tree while they erase from it. Unloading waits for a thread that
nobody signals, and for no hook. A function is patched while other processors execute it. The
library frees a socket under its own receiving thread. The restore tool reads logs that are still
being written.

**What makes each component correct.**

* Pipeline (hooks, queue, thread): a set's numbers have no gap and no duplicate; each gets one
  outcome, a whole file or a failure that the user is told of; a reader finds no effect before its
  causes;
  nothing is logged past a lost write; the thread never sleeps over a record; unloading ends.
* Registry: no item without its set, no dangling `pSetEntry`, a covered path is found, a path stays
  with its set until it is removed, a failed command leaves a state the next one can start from.
* Configuration: a restart loses no coverage that had been saved and issues no number twice.
* Life cycle: no command before the registry exists, no call inside a hook whose code is gone.
* Library and restore tool: no use of a socket that is gone; every log applied once and in order.

## 2. Modules

| Module | What it is |
|---|---|
| `NumberedLog` | abstract: one gapless sequence per set, one final outcome per number |
| `IoLog` | the pipeline; implements `NumberedLog` |
| `MCIoLog` | small instances of `IoLog` |
| `IoLogProofs`, `PipelineProofs` | theorems about `IoLog`: numbers and queue; order, files and the refinement |
| `BackupTable` | abstract: a table from paths to sets, and a saved copy |
| `MonitorRegistry` | commands, look-ups, saves and restarts; implements `BackupTable` |
| `MCMonitorRegistry` | small instances of `MonitorRegistry` |
| `PathTree`, `MCPathTree` | the tree of items entry by entry, a small instance |
| `RegistryProofs` | theorems about `MonitorRegistry` |
| `ConfigFile`, `MCConfigFile`, `ConfigProofs` | `/etc/rtb.cnf` write by write, a small instance, theorems |
| `Lifecycle`, `MCLifecycle`, `LifecycleProofs` | the module from insmod to rmmod, a small instance, theorems |
| `UserLibrary`, `MCUserLibrary`, `LibraryProofs` | the library of an application, a small instance, theorems |
| `Restore`, `MCRestore` | the tools that read a log directory, small instances |
| `RestoreProofs`, `ReplayProofs` | theorems about `Restore`: the reader's counters; what it restores |

### 2.1 `IoLog`

A call goes through `number` (the look-up is done), `run` (numbers drawn), `log` (the original has
returned), `link` (record built), `signal` (record queued), and back to `idle`. `plain` and
`badpath` are operations that run unlogged, `latch` is `rtb_vfs_write` after a failure. Between any
two of these the code holds no lock. The thread goes through `wait`, `check`, `take`, `open`,
`write`, `save` and `saving`, or `notify`, and `stopcheck`, again as the locks allow.

* *Hooks.* One action per hook enters it with the look-up each does: `RtbVfsRename` looks up the
  new name, then the old one; `RtbVfsCreate` does not log the opening of an existing inode;
  `RtbVfsWrite` lets `f_flags == 1` through and remembers an uncomputable path. The eight hooks
  continue alike, so the later steps are shared: `map` sends `BuildLog`, `LogOf` and `LinkLog` to
  three different builders, which have one structure.
* *Numbers.* A log name is the pair of directory and number. An item whose set is not found
  (`Orphans`) leaves the call with the empty directory and number 0 (`NoNum`): the -3 is ignored.
* *Records* keep number, item sequence number and type (`ERROR` when the operation failed); their
  data and paths are abstracted. `preds`, a history field, is the set of numbers whose hooks had
  returned when the call began.
* *Messages.* `notify_user_status` tells the user of a failure and may itself fail without a word,
  when it finds no memory or no room at the receiver's socket: `Notify` adds the message to
  `notified` or to `dropped`.
* *Counters on disk.* `SaveConfig` after a log is a step per write: `BeginSave` leaves a header that
  counts no record (`header` is `zeroed`), `SaveSet` writes the counter of one set as it is at that
  moment, while hooks draw numbers, and `EndSave` writes the header again. `SaveUnopened` and
  `SaveCutShort` are its failures, which nobody is told of; a crash leaves `header` and `saved` as
  they are. `unsaved` is history: the numbers logged since a save ended.
* *Failures* are named in the constant `Faults`: `alloc` (buffers of a hook), `path`, `record`,
  `open`, `short`, `save`, `message`, and `unload`, the administrator's choice.
* *Assumed:* log directories lie outside every monitored item, so the thread's own files are not
  logged; the writer thread is the only one that saves (`ConfigFile` and `MonitorRegistry` have the
  others); the registry does not change.

### 2.2 `MonitorRegistry`

`hpc` follows the handler of one command: `replace` and `delete` (`DelMonitorSet`), `clear` and
`clearsets` (`DelAllMonitorSet`), `insert` (`AddMonitorSet`), `items` and `remove` (the loops over
the items of a command), `save` and `saving`. Hooks, saves of others and a crash come between any
two steps. `down` is a machine that is not running.

* *Paths* are numbers in the order of `strncmp`, with a relation `Prefix`. `RegistryAssumption`
  states what holds of strings: a prefix comes first, and prefixes are contiguous and transitive.
* *Trees.* The tree of items is in lexicographic order whatever its shape. `mi_search` follows one
  branch and stops at the first entry that is a prefix of the path. The last entry not after the
  path is always on that branch; an entry that covers it from further off is met or not, depending
  on the shape: `MiSearch` returns any of them, or nothing unless `SurelyFound`.
* *Walks.* `DelMonitorItemsBySetId` and `DelAllMonitorSet` erase and free the node they stand on and
  take its successor afterwards. `rb_erase` may have moved the successor into the erased node's
  place, and the allocator may have overwritten its links (the node is the first member of the
  entry, where a slab allocator keeps its free pointer): after an erasure the walk may end early
  (`broken`). That it may also reach freed entries and free them again is not modelled. `lost`
  records that something was left behind.
* *Pointers.* `ptr` is `pSetEntry`: null, the entry of the set, or memory that is no longer one. A
  hook finds an item (`LookUp`), uses its pointer (`UseItem`) or searches the set by the item's guid
  (`SearchSet`) and stores what it found (`StoreSet`), in steps of their own, as the code holds no
  lock. Meanwhile the set may be freed, which makes what was found `stale`, and the item, whose
  memory is then intact or serves another item: a store into that one is recorded in `strayed`.
* *Saves.* The writer thread and the reboot notifier (`Savers`) save whatever the handler is doing:
  `BeginLogSave` writes the header with zero sizes, `SaveSet` and `SaveItem` are a step per entry of
  the two walks, `EndLogSave` writes the header again, and `LogSaveFails` stops anywhere. A walk whose
  entry has been freed (`astray`) may end early. The handler's own save has no edits against it, so
  that its walks find the trees as they are: `BeginHandlerSave`, `EndHandlerSave`. Two saves at the
  same time write over each other's records; the file is then `mixed`, and what is read from it may be
  anything `Config` allows (`ConfigFile` has such saves write by write).
* *Restarts.* A reboot is a save and then `Crash`. A load reads what the header gives access to and may
  fail or stop at any entry. An unlocked save that met a command half-way may have left an item in the
  file whose set it did not see; a load drops it.
* *Left out:* sequence numbers (in `IoLog`), `ulFileCount` and `MonitorFiles.ulCounts` (nothing
  reads them but their own updates), items of unknown type (skipped by the code), the shutdown
  status and the single writes of a save (in `ConfigFile`).
* *Assumed:* one management application, which sends one command at a time.

`BackupTable` has the table from paths to sets, which a step changes for one path or set at a time,
and a saved copy, into which entries are noted one by one, each as the table has it at that moment,
and which may be lost while a save is under way or two saves meet.

### 2.3 `PathTree`

The links of the tree of items, and hooks that descend it one entry per step (`Step`), without a
lock, while entries are inserted and erased. `mi_search` and `mi_insert` compare over the length of
the entry they stand on, so that one which covers the path ends the descent. The rebalancing is any
sequence of rotations; colours are left out, so that the tree takes every shape a search tree can
have. `disturbed` tells that the tree changed under a descent. What `MonitorRegistry` assumes of a
search (`MiSearch`, `SurelyFound`) is what `LookUpMissesOnlyNested` states here of the descents.

### 2.4 `ConfigFile`

`save[s].pc` follows a run of `SaveConfig` for each of its three callers, the writer thread, the
netlink handler and the reboot notifier: `header` (the file is open), `sets` and `items` (the two
walks, one entry after the other), `rewrite` (the header with the final sizes). They share the file
and the trees and no lock. The first header has zero sizes; a walk writes an entry at the offset it
has reached and goes on with `rb_next`, which from an entry erased under it may lead to any later
one (`strayed`) or to the end; a short write leaves the rest out, and the caller is told nothing.

* *The file* is a header and a row of cells, of which an entry takes as many as its structure is
  long (`SetLen`, `ItemLen`), so that an entry written over another's place, or half of one, shows.
* `Edit` is what a command does to the trees, one entry at a time. `ResetShutdownStatus` is the
  query and the reset, which both leave `systemrunning`. `MyReboot` sets the status and saves.
* `LoadConfig` may come at any moment: the machine has stopped there and is started again. `Loaded`
  is what it would read.
* `group`, `last`, `reboot` are history: whether the saves that made the file overlapped while the
  trees changed, what the last complete save was to hold, and how the notifier ran.

### 2.5 `Lifecycle`

`mod` follows `init_rtbackup` and then `exit_rtbackup`; a failure on the way ends in `failed`, with
what was registered left registered, as in the code. The loops over `security2hook` come to the
entry `next`.

* *Symbols.* `FindSymbolAddress` is the search of the two symbol files for the address of a function
  and that of the next, with the flag that outlives a search cut short.
* *Patching.* `text` is what the first five bytes of a function hold: the original, the jump, or
  `torn` between the two writes of the jump. `copy` and `image` are the copied function;
  `CopyAndFixupInsn` corrects the distance of one instruction, modulo `M`.
* *Tasks* enter a function, are interrupted in its first bytes (`prologue`), run through the hook
  (`hook`, `call`, `back`) and the copy, and are `lost` once what they would execute next has been
  overwritten or freed.
* *Loading.* `LoadConfig` may be cut short by a read or an allocation that fails
  (`LoadConfigCutShort`): the registry is `partial`, the code returns 0 and the module goes on.
* *Commands* take a step to edit and a step to save, at any moment the socket exists, before
  `InitMonitorSet` too. A reboot calls the notifier, if it is registered. `SaveConfig` writes what the
  registry holds over the file: `config` is `lessened` unless that was everything.
* *Unloading* frees the module's memory in a step of its own (`FreeModule`), in which tasks may still
  be.

### 2.6 `UserLibrary`

`app` is where the one thread of the application is in the library (as in `main.c`): `init`,
`discard`, `spawn` in `InitCommunicate`, `forget` in `UnInitCommunicate`, or `crashed`. `tpc` is where
each receiving thread is: `top`, `recv` (the argument `p_sock` has been evaluated), `blocked` in
`recvmsg`, `process`, `sleep`. Several run when the library was initialised again, because nothing
stops one.

* *Sockets* are entries of `heap`; `psock` is the global pointer. Closing a socket does not free its
  address while a thread is blocked on it, so that the next `bind` may fail.
* *Messages* are numbered as the kernel puts them on the socket, which holds `RcvBuf` of them.
* `trouble` is history: the library was uninitialised, or an initialisation failed.

### 2.7 `Restore`

One task performs operations on `source`; each logged one draws a number. A hook that finds no memory
for the path leaves the change without a number (`Unrecorded`), and so does every hook once
`rtb_vfs_write` has stopped the logging; one that finds none for the record leaves a number without a
record (`Recorded`, `lost`). The writer thread makes the file of each record, empty (`part`) and then
`whole`, or fails, tells the user and goes on. The tool runs the loop of `RestoreIolog.c` and
`AnalysisIolog.c` (`open`, `read`, `sleep`) with their two counters, the number to open next
(`iolognum`) and the one in the file name (`path`), which part when a read fails; a failed read leaks
a descriptor. `OpOf` is the system call `restore` makes for a record.

* *Trees* map names to nodes and nodes to contents, so that hard links share them.
* `past` is history: the monitored files as they were when each log was drawn. `missed` holds the names
  a change of which has no number. `tangled` tells that an operation with two names has touched
  monitored files, after which the replay goes its own way (see finding 3).

Definitions headed `Deviation` are not part of the specifications: each is an action with a
plausible mistake, which makes a property fail and so shows that the property depends on the code.

## 3. Runs

| Run | Instance | States | Shows |
|---|---|---|---|
| `iolog` | 2 tasks, 1 set, 1 item, 2 logged writes; allocations, opens, writes, saves and messages may fail; unloading; fair scheduling | 260,000 | numbering, queueing, order, reports, the counters on disk; every number settles; unloading ends; `IoLog` implements `NumberedLog` |
| `iolog_hooks` | 1 task, all 8 hooks, an ordinary item and an orphan, 2 logged calls, every failure but lost messages, unloading | 1,840,000 | every path through every hook implements `NumberedLog` |
| `iolog_number_order` | 2 tasks, 2 writes | | **violated**: number order is effect order |
| `registry` | 2 sets, paths /b, /b/x, /b/z (commands name two), one saver, no hook | 1,080,000 | consistency of sets and items, coverage across restarts; `MonitorRegistry` implements `BackupTable` |
| `registry_hooks` | 2 sets, the same paths (commands name one), 2 hooks, no saver | 2,300,000 | pointers to sets, numbering of items |
| `path_tree` | paths /b, /b/x, /b/x/y, /b/z, /c, one hook | 7,600 | the order of the tree, what a look-up may miss |
| `registry_addset` | as `registry`, no saver | | **violated**: ADDSET deletes an existing set first |
| `config_file` | 2 sets, 1 item twice as long, 3 edits, 3 saves, all three callers, short writes, the machine stopping anywhere | 3,900,000 | no half-written entry, complete saves, the shutdown on record |
| `lifecycle` | 2 functions, 2 tasks, 64 addresses, every failure | 1,120,000 | hooks find their services, nothing left after unloading, what a reboot saves |
| `user_library` | 3 initialisations, 2 messages, a buffer of 1, every failure | 160,000 | no crash before trouble, a usable socket, messages in order and all delivered |
| `restore` | 2 names, 1 monitored, 3 operations of all kinds, `restore`, `restore -loop` and `analysis -loopdel`, 2 descriptors, every failure | 780,000 | what is skipped, what is restored, that a complete replay shows the live files but for missed changes, that the replay catches up |
| `restore_rename` | 2 monitored names, 3 operations, no failures | | **violated**: the restored files follow the live ones |

**Bounds.** Two tasks suffice for the races of `IoLog`, which are between one task and the thread or
between two tasks; two calls overlap, or one begins after the other has returned, or after its write
was lost. `MaxCalls` bounds only calls that draw a number. One set is enough because sets share
nothing but the queue, `bNormalRunning` and the saved file, and a number may be drawn before or
after its set's record is written; that the records of several sets are written at different moments
is in the theorem `CountersCoverLogs`, which has any number of sets. The orphan has a run of its
own, where all eight hooks appear. In `registry`, two sets give replacement, deletion of another set
and items of both; two nested paths and a third below the same directory give a covering item that
is met by chance; one saver beside the handler's own save is enough for two saves to meet and for a
walk to stand on an entry that is erased. In `registry_hooks`, one item that comes and goes in
either set suffices to be freed, reused and searched for by two hooks at once. `Filters` bounds the
paths a command may name and `MaxItems` the length of a command. In `path_tree`, three paths inside
one another, one beside them and one apart give every relation two items can have, and all 42 shapes
of a tree of five. In `config_file`, two sets let an entry go while the walk stands on it and
another is left to come; the item is longer than a set, so that offsets mixed up show; three saves
(`MaxSaves`) are one per caller, all overlapping; three edits (`MaxEdits`) fill the trees. In
`lifecycle`, one function jumps out, to the byte behind its end and back to its start, the other has
a copy whose distances wrap around and data inside and outside; the second function makes the
failure of one entry followed by the success of another happen. In `user_library`, three
initialisations (`MaxInits`) let one fail while an older thread runs and a third succeed; two
messages (`MaxMsgs`) overflow a buffer of one (`RcvBuf`). In `restore`, three operations (`MaxOps`)
make, change and remove a file; two descriptors (`MaxFiles`) are soon leaked; the name that is not
monitored is the one a rename moves to or from. `analysis -loop` is `analysis -loopdel` without the
deletion. With one monitored name a missed change ends what `TargetIsPastSource` claims; that it
ends it for no other name is in the theorem `ReplayMeetsThePast`. No run uses symmetry.

**Deadlock** is checked in `config_file`, where a restart is always possible, and in `path_tree`,
where a hook can always look a path up. Elsewhere the system may stop: in `IoLog` calls are bounded
and an unloaded module stops for good; in `MonitorRegistry` nothing obliges a machine to do
anything; in `Lifecycle` the module is gone, or every task is lost; in `UserLibrary` the application
may have crashed, or wait for messages nobody sends; in `Restore` a tool without `-loop` exits. That
things go on where they must is what the liveness properties state.

**Fairness.**

* `IoLog`: weak fairness of the kernel thread, because the scheduler runs it and its wait has a
  timeout, and of each task inside a hook, because a hook has no loop and blocks on nothing that
  others must release. No task has to start an operation, and nobody has to unload the module.
  `EveryNumberSettles` excuses what is pending when the thread exits: a hook that links its record
  after the thread's last test loses it.
* `UserLibrary`: weak fairness of each step of a receiving thread, which the scheduler runs; strong
  fairness of the call of `netlink_recv`, which says that its allocation does not fail for ever. The
  application and the driver owe nothing.
* `Restore`: weak fairness of the writer thread and of the tool. The task owes no operation.

**Properties worth a word.**

* `NumbersAccounted`, `NumbersUnique`: every number issued is in exactly one place (a call, the
  queue, the thread, a file, the failures). A gap stops the replay; a duplicate overwrites a file.
* `NoLostWakeup`, `TakeFindsRecord`: the list is tested without its lock and the completion is
  counted separately, yet no record waits for the timeout and the thread never takes from an empty
  list.
* `LoggedAfterPredecessors`: a log on disk implies the outcome of every call that had returned
  before it began, and a larger number than theirs, so that only overlapping calls can be replayed in
  the wrong order (finding 1). `NothingLoggedPastLostWrite`: `bNormalRunning` is a latch in that same order.
* `FailuresReported`: no torn log and no lost write passes without an attempt to tell the user before
  the thread, or the task, goes on. The message may be dropped; of a lost write the latch remains, which
  the application can query (`rtbnetlink.c:129`). Of a torn log nothing does.
* `PersistedCoversLogs`: when a file has a header that counts its records, the counters in it are past
  every whole log but the one just written and those written since a save that failed. A header that
  counts nothing is there only in the middle of a save, or after one that failed: a crash then leaves
  no counters at all.
* `ItemsHaveSets`: unless a walk broke off, no item is without its set.
* `PointersValid`: unless a walk broke off or a hook wrote into an item freed under it, no cached pointer
  outlives the set's entry, although the search and the store have no lock: the set goes after its
  items, and the search returns an entry only while the set is there.
* `TreeSorted`, `LookUpMissesOnlyNested`: the comparison of `mi_insert` is no order once items are
  nested, yet the tree stays sorted by whole paths; an undisturbed descent misses a covering item only
  when items are nested, and never one that is the last item before the path.
* `EveryItemFindsItsSet`: until a configuration is loaded, `ulCounts` stays in step with the tree,
  so every item can be numbered, unless a hook stored a pointer astray. After a load it
  is zero, which `registry_addset` is about.
* `ImplementsBackupTable`: no item passes from one set to another, no set goes before its items, and
  a save notes only what is in the table at that moment. That the file as a whole need not be a table
  that ever was is `ConfigFile`'s matter (`StayedEntriesSaved`).
* `RestartKeepsCoverage`: a complete load drops items nested in others but no path that was covered.
* `NeverPartlySaved`, `StayedEntriesSaved`: unless saves overlap while the trees change, or a walk
  loses the entry it stands on, the file is a complete save or loads as empty, and a complete save
  holds what was there throughout and nothing that never was.
* `CleanShutdownRecorded`: once the notifier has written, no later save of anyone's, complete or cut
  short, takes the shutdown out of the file, unless a command reset the status or a save was already
  under way when the notifier ran.
* `HookFindsItsService`: until the module is unloaded a hook that runs finds the registry loaded, the
  thread running and a complete copy, although hooks are installed one by one.
* `OnlyPatchedBytesLoseTasks`, `UnloadLeavesNothing`: the only place to be lost before unloading is
  the five bytes that are rewritten; nothing in the kernel leads into the freed module.
* `RebootKeepsConfig`: the file comes to hold less than was configured only when the registry was never
  loaded whole, be it that a command or a reboot came before `LoadConfig` or that `LoadConfig` was cut
  short and did not say so, or when a command saves while unloading has emptied the registry; never by
  a reboot after a whole load, since the notifier is unregistered before the registry is emptied.
* `CopyMeansTheSame`: a corrected copy of a function has the effect of the function. A conditional
  jump out of the function is not corrected and excepted.
* `CrashOnlyAfterTrouble`, `SocketUsable`, `DeliveredInOrder`: the receiving thread dereferences
  `p_sock` without a check, which is safe as long as the application never uninitialises and
  no initialisation fails.
* `EverySkipIsAFailedRead`, `TargetIsPastSource`: a tool passes over no more logs than reads have
  failed; until then what it restores is a state the monitored files were in, and with every
  record applied the state they are in now, name by name, except the names a change of which passed
  the hooks without a number. A number without a record costs nothing more, as the tool does not get
  past it. All this ends where finding 3 begins.

## 4. What the runs found

Each has a run that shows it.

1. Two overlapping operations may take effect in the opposite order of their numbers, although
   `RestoreIolog.c` replays logs in that order (`hookvfs.c:661`).
2. After a restart `MonitorSet.ulCounts` is zero, so ADDSET and ADDITEM of a loaded set are refused
   (`monitorset.c:382`).
3. `RestoreIolog` carries a rename out from `Data` to `wszFilePath`
   (`test/RestoreIolog.c:196`), the new name to the old one: `createiologforrename`
   (`createiolog.c:400`) put the old name in `wszFilePath`, and the messages of both tools
   (`RestoreIolog.c:195`, `AnalysisIolog.c:76`) read it so. Links are swapped likewise.

Seen while reading and modelling, where no document says otherwise or no run is needed:

* All hooks but `rtb_vfs_write` ignore a record that could not be allocated: the number is gone and
  nobody is told (`hookvfs.c:576`), although the driver is to notify the application of error states
  (`usrlink.h:72`). In the models such a number is `lost`; the replay does not get past it.
* With nested items, whether a covered path is found depends on the shape of the tree (`rb.c:92`);
  `LookUpMissesOnlyNested` states what is left.
* `notify_user_status` drops its message without a word when it finds no memory, and does not look at
  the result of `netlink_unicast` (`rtbnetlink.c:42`, `:57`).
* A crash in the middle of a save leaves a file whose header counts nothing (`monitorset.c:957`): all
  counters and the whole registry are gone at the next start. Two saves at the same time may leave a
  mixture.
* `LoadConfig` returns 0 when a read or an allocation fails (`monitorset.c:864`); the next save or reboot
  makes the loss permanent.
* A hook that was searching for its set stores the pointer into whatever has taken the memory of its
  item (`monitorset.c:796`).
* DELSET may leave items of the set behind (`monitorset.c:244`). It needs no special allocator:
  with four items a < X < Y < d in a tree with X at the root and Y the left child of d, erasing X
  moves Y to the root, and the walk goes on from X's old right child d. It may also free items that
  hooks hold: the lock its comment speaks of is commented out (`monitorset.c:614`).
* The query of the last shutdown status first sets it, so it always answers `systemrunning`
  (`rtbnetlink.c:133`); nothing ever writes `systemexceptionreboot`. After a load the status in
  memory stays `systemshutdown` until a command resets it, and every save writes it again.
* `SaveConfig` returns 0 whatever happened; `LoadConfig` closes an error pointer when the file
  cannot be opened.
* A command that arrives between `netlink_kernel_create` and `LoadConfig` saves an empty registry
  over the file (`module.c:95`).
* A conditional jump out of a copied function is not corrected (`hijacks.c:28`).
* `comwrapper.h` takes results >= 0 for success, but `NET_MEM` and `NET_SOCK`, both errors, are 3
  and 4.
* With `-loop`, a read that fails leaks a descriptor and advances the counter but not the name, so
  one log is passed over per failed read (`RestoreIolog.c:260`).

## 5. Proofs

Assumptions: those on the constants (`ConstantsAssumption`, `NoLogAssumption`, `RegistryAssumption`,
`ConfigAssumption`, `LifecycleAssumption`, `LibraryAssumption`, `RestoreAssumption`), and nothing on
how many callers, sets, items, paths, functions, messages or calls there are.

**`IoLogProofs`.** `TypeCorrect` is inductive as it stands. `QueueNeverStalls` adds to it
`TakeFindsRecord` and `NoLostWakeup`, inductive together: only the thread removes records, and every
record linked is followed by a signal. `NumbersConserved` needs two more facts, in `NumbersInv`: the
file of the record the thread is writing exists (`FileCreated`), and a call about to draw its number
has none yet (`NotDrawnYet`); a step then moves a number from one place to the next or issues a new
one.

**`PipelineProofs`** builds on it. `NoNumberVanishes` and `TakeNeverEmpty` come with the invariants
above. For the order, `PipelineInv` says what each actor carries: which number a hook that returns
has left behind (`CallsInv`), and that what a record comes after is ahead of it, in a call
(`CallPredsInv`), on the list (`QueuePredsInv`) and on disk (`DiskPredsInv`), with no lost write among
it; `LatchHolds` is its last part. `CausesLoggedFirst` adds `RealTimeInv`: a number is above all that
had been issued when it was drawn (`DrawnIsAbove`), and call, list and file keep it so. `NoFailureUnreported` and
`CountersCoverLogs` need `DiskInv`: a file that is not whole is the thread's work or its message has
been attempted, one about to be written is still empty, and in the middle of a save the counters
already written are past every log on disk, because only the thread adds logs (`SavedInv`). `PipelineImplementsLog` maps each step to a
step of `NumberedLog` or to none; what it needs besides is that every number on disk was issued.

**`RegistryProofs`.** The invariant is `RegistryInv == TypeOK /\ ItemsHaveSets /\ HandlerInv /\ HeldInv`.
`HandlerInv` is what makes it inductive: while items are added the command's set is in the tree;
while all sets are deleted no item is left, unless a walk broke off; a machine that is down has no
registry. `HeldInv` says that an item a hook holds is in the tree until it is freed. `RegistryConsistent`
follows. `RegistryImplementsTable` shows with the same invariant that
initial states are initial and that, until a walk breaks off, each step is a step of `BackupTable`
or changes nothing there; each entry a save writes is in the table when it is written, whatever the
handler has done since the entry before it. The step that matters is `AddMonitorItem`: an item is
inserted only where `mi_search` came back empty, and `EmptyHanded` shows that it cannot have missed the
path itself, whatever else it misses. `PointersStayValid` adds `GotInv`: what a hook has found and not yet
stored is the entry of its item's set, for as long as the item is not freed, because the set goes
after its items. `EveryItemNumbered` adds `CountInv`, the counter against the number of sets.
`RestartsKeepCoverage` is about any order of loading: of the saved items that
cover a path the outermost is never refused, so the path stays covered (`LeastOf`, `LoadKeepsCover`).

**`ConfigProofs`.** Types alone are not inductive: an offset must stay within the file. `Room` adds
that what is written and what is ahead of a walk fit in the places of all entries, by the
cardinality of the entries from the walk's node on. `ShutdownStaysRecorded` needs `ShutdownInv`: once
the notifier has run alone, every header still to be written says shutdown.

`HalfSavesStayHidden` and `CompletedSaveReadsBack` need to know what lies where in the file.
`HistoryInv` says that the trees are closed (no item without its set) and what `kept` and `seen` of a
running save are to the trees; `ExclusiveInv` says when a save is the only one. The saves of a group
are sane for one of two reasons, and each has its invariant.

* They do not overlap, `AloneInv`: the one writer has laid its entries out without a gap (`Rows`),
  everything that has stayed is written or still ahead of its walk, and nothing is written that was
  never there (`Progress`). From the end of a complete save to the beginning of the next the file is
  such a layout in full (`FileSound`); before that its header has zero sizes (`HistoryInv`).
* They overlap and nothing is edited, `FixedInv`: each entry of an unchanged tree has one place
  (`SetsEnd`, `ItemsEnd`, `Place`), every walk writes it there (`Along`), and so a second walk changes
  no cell that the first has written (`Held`, `LeftOf`), wherever either is and whichever finishes first.

`SaneIsSound` brings the two together (`LayoutIsRows`). `SoundLoads` follows `LoadConfig` through a
sound file: it finds each entry at the sum of the lengths before it, and an item of a closed tree
always with its set. `EmptyLoads` is the other case, a header with zero sizes. `SaveInv` is the whole
invariant and `SaveInductive` the proof that it is one.

**`LifecycleProofs`.** `ServiceInv` ties what is registered and loaded to where `init_rtbackup` and
`exit_rtbackup` are; `PatchInv` ties text, copies and pointers to the loops' position; `TaskInv` says
where a task can be while each function is in which state; `ImageInv` says that a complete copy holds the
corrected instructions. `CopiesMeanTheSame` rests on lemmas about distances modulo `M`.

**`LibraryProofs`.** `SocketInv`: between calls the pointer leads to the socket that holds the address.
`NoTroubleInv`: until something goes wrong there is one socket and one thread, which started after
the pointer was set. `OrderInv`: delivered and pending messages add up to the numbers queued.

**`RestoreProofs`, `ReplayProofs`.** `ReaderInv`: the counter is ahead of the name by what was leaked,
and what was applied lies below the name. `SourceInv` and `TargetInv` relate trees to what they show
(`View`): a record determines how the view changes (`After`), whichever nodes carry it, so replaying
a record on a tree that shows what the source showed gives what the source showed next. A change
without a number breaks this for the names it touches and for no other (`Alike`), since a record of one
name changes the view of that name only. `ReplayMeetsThePast` reads this at the last record applied,
and at the last one drawn.

**Only model-checked:** liveness (`EveryNumberSettles`, `UnloadCompletes`, `EveryMessageDelivered`,
`ReplayCatchesUp`), which is beyond the prover, and the properties of `PathTree`, which need induction
over the tree.

## 6. Plan

Done: the pipeline, the registry, the configuration file, the life cycle with hijacking, the library
and the restore tools, each with its proofs.

1. Numbering across restarts: `IoLog` with the saved counters and a crash, so that the number
   `PersistedCoversLogs` leaves open meets its old file.
2. `Restore` with `NumberedLog` as its writer, so that logs which reach the disk in another order than
   that of their numbers reach the replay. (Lost records, and changes without one, it has.)
3. A second load of the module in `Lifecycle`, over what a failed first one left registered.

## 7. Not modelled

* `getpath.c` is sequential string work on kernel structures; its result and its failure are inputs
  of the hooks. The instruction decoder is copied from the kernel; `Lifecycle` takes decoded
  instructions as given. `rtcommunicate.c` hands calls from Java to the library.
* `rtb_do_truncate`, `rtb_sys_write` and `rtb_sys_mkdir` are compiled but not installed.
* `ConfigFile`: the order in which the kernel writes pages back; what an entry that is garbage makes
  of the trees; a walk that follows a pointer that is none.
* `Restore`: paths are flat names, so that moving a directory with its contents, the missing parents
  a restore creates, and the prefix of the target directory in symbolic links do not appear.
* `Lifecycle`: one load of the module; a command that is being handled when the socket is released.
* Results that are used unchecked: `kzalloc` in `createiologformkdir` (`createiolog.c:96`, `:102`) and
  in `notify_user_status` (`rtbnetlink.c:64`), and the buffer for the log directory in `rtb_vfs_rmdir`
  (`hookvfs.c:264`). Without memory the kernel faults there, which is the end of the machine's run.
* `MonitorRegistry`: the second read of `pSetEntry` after it was tested (`monitorset.c:810`); the single
  writes of a save, of which `ConfigFile` has all.
* Hazards without a property: records linked after the thread's last test are lost by the design of
  `exit_rtbackup` (`iowritethread.c:95`); a hook that holds a bare item (`hookvfs.c:657`) has no rule
  left in the code to be checked against; the copy of a write's data (`createiolog.c:574`) is a
  matter of contents, which `IoLog` abstracts; log directories inside a monitored item
  (`createiolog.c:46`) are assumed away; no document says what DELITEM of a path inside an item does
  (`monitorset.c:224`).
