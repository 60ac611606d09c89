------------------------------- MODULE Restore -------------------------------
(***************************************************************************)
(* A tool that reads a log directory while it grows: RestoreIolog replays   *)
(* the logs on a copy of the files, AnalysisIolog prints them and, with      *)
(* -loopdel, deletes them. All run the same loop; without -loop it is left   *)
(* at the first log that is not there.                                      *)
(*                                                                         *)
(* The files are changed by one task here, so that the logs are numbered in  *)
(* the order of the operations (IoLog has the other case).                   *)
(***************************************************************************)
EXTENDS Naturals, Sequences, FiniteSets

CONSTANTS
  Paths,     \* names of files and directories
  Monitored, \* those the backup set covers
  Values,    \* what a write leaves in a file
  Kinds,     \* the operations the task performs, a subset of AllKinds
  Tools,     \* the tools that may be started, a subset of AllTools
  Faults,    \* what may fail, a subset of AllFaults
  MaxOps,    \* bound: operations
  MaxFiles   \* the descriptors a process may have open

OneName    == {"create", "mkdir", "write", "unlink", "rmdir"}
TwoNames   == {"rename", "link", "symlink"}
AllKinds   == OneName \cup TwoNames
AllTools   == {"restore", "restore -loop", "analysis -loop", "analysis -loopdel"}
AllFaults  == {"path", "record", "open", "short", "malloc"}

ASSUME RestoreAssumption ==
  /\ Monitored \subseteq Paths
  /\ Kinds \subseteq AllKinds
  /\ Tools \subseteq AllTools
  /\ Faults \subseteq AllFaults
  /\ MaxOps \in Nat
  /\ MaxFiles \in Nat \ {0}

Nums == 1..MaxOps

VARIABLES
  source,   \* the live files
  ops,      \* how many operations have been performed
  running,  \* bNormalRunning
  logs,     \* the records, by number
  lost,     \* the numbers whose record was never built
  wnum,     \* the log the writer thread is at
  files,    \* the log files, by number
  deleted,  \* those the tool has unlinked
  tool,     \* the tool that runs
  rpc,      \* where it is in its loop
  iolognum, \* its counter
  path,     \* the number in its iologpath
  leaked,   \* the files it has opened and never closed
  applied,  \* history: the logs it has restored or dumped
  target,   \* the files RestoreIolog has made
  past,     \* history: what the monitored files were when each log was drawn
  missed,   \* history: the names a change of which has no number
  tangled   \* history: an operation with two names has touched a monitored one

sourceVars == <<source, ops, running, logs, lost, past, missed, tangled>>
writerVars == <<wnum, files>>
readerVars == <<tool, rpc, iolognum, path, leaked, applied, target, deleted>>
vars == <<source, ops, running, logs, lost, wnum, files, deleted, tool, rpc, iolognum, path,
          leaked, applied, target, past, missed, tangled>>

-----------------------------------------------------------------------------
(* Files. A tree maps names to nodes and nodes to contents; node 0 is none.   *)
(* Symbolic links are not followed.                                          *)
NoFile  == <<"none", "">>
Dir     == <<"dir", "">>
File(v) == <<"file", v>>
Link(p) == <<"link", p>>

EmptyTree == [node |-> [p \in Paths |-> 0], data |-> [n \in 0..MaxOps |-> NoFile]]

Contents(tree, p) == tree.data[tree.node[p]]
View(tree) == [p \in Monitored |-> Contents(tree, p)]

Exists(tree, p) == tree.node[p] # 0
IsDir(tree, p)  == Contents(tree, p) = Dir

Succeeds(tree, op) ==
  CASE op.kind \in {"create", "mkdir"} -> ~Exists(tree, op.path)
    [] op.kind = "write"   -> Exists(tree, op.path) /\ ~IsDir(tree, op.path)
    [] op.kind = "unlink"  -> Exists(tree, op.path) /\ ~IsDir(tree, op.path)
    [] op.kind = "rmdir"   -> IsDir(tree, op.path)
    [] op.kind = "rename"  -> /\ Exists(tree, op.path) /\ op.path # op.new
                              /\ Exists(tree, op.new) =>
                                   IsDir(tree, op.path) = IsDir(tree, op.new)
    [] op.kind = "link"    -> Exists(tree, op.path) /\ ~IsDir(tree, op.path) /\ ~Exists(tree, op.new)
    [] op.kind = "symlink" -> ~Exists(tree, op.new)
    [] op.kind = "error"   -> FALSE

(* What a successful operation does; a new node gets the number n. *)
Effect(tree, op, n) ==
  LET Make(p, v) == [node |-> [tree.node EXCEPT ![p] = n], data |-> [tree.data EXCEPT ![n] = v]]
  IN CASE op.kind = "create"  -> Make(op.path, File(""))
       [] op.kind = "mkdir"   -> Make(op.path, Dir)
       [] op.kind = "symlink" -> Make(op.new, Link(op.path))
       [] op.kind = "write"   -> [tree EXCEPT !.data[tree.node[op.path]] = File(op.value)]
       [] op.kind \in {"unlink", "rmdir"} -> [tree EXCEPT !.node[op.path] = 0]
       [] op.kind = "rename"  -> [tree EXCEPT !.node[op.path] = 0, !.node[op.new] = tree.node[op.path]]
       [] op.kind = "link"    -> [tree EXCEPT !.node[op.new] = tree.node[op.path]]

(* A system call whose result nobody looks at. *)
Try(tree, op, n) == IF Succeeds(tree, op) THEN Effect(tree, op, n) ELSE tree

-----------------------------------------------------------------------------
(* A record: the type with bIsDir, wszFilePath, and Data where it is used. *)

(* createiologfor*: with two names, wszFilePath is the old one and Data the    *)
(* new one.                                                                  *)
Record(type, op) == [type |-> type, dir |-> op.kind \in {"mkdir", "rmdir"},
                     path |-> op.path, data |-> op.path]

NewFileLog(op) == Record("NEWFILE", op)
DeleteLog(op)  == Record("DELETEFILE", op)
DataLog(op)    == [Record("WRITE", op) EXCEPT !.data = op.value]
ErrorLog(op)   == Record("ERROR", op)
RenameLog(op)  == [Record("RENAMEFILE", op) EXCEPT !.data = op.new]
HardLinkLog(op) == [Record("HARDLINK", op) EXCEPT !.data = op.new]
SoftLinkLog(op) == [Record("SOFTLINK", op) EXCEPT !.data = op.new]

LogOf(op) ==
  CASE op.kind \in {"create", "mkdir"} -> NewFileLog(op)
    [] op.kind \in {"unlink", "rmdir"} -> DeleteLog(op)
    [] op.kind = "write"   -> DataLog(op)
    [] op.kind = "rename"  -> RenameLog(op)
    [] op.kind = "link"    -> HardLinkLog(op)
    [] op.kind = "symlink" -> SoftLinkLog(op)
    [] op.kind = "error"   -> ErrorLog(op)

(* Deviation: bIsDir is not looked at when something is deleted. *)
OpOfUnlinking(log) ==
  [kind |-> CASE log.type = "NEWFILE" -> IF log.dir THEN "mkdir" ELSE "create"
              [] log.type = "DELETEFILE" -> "unlink"
              [] log.type = "WRITE" -> "write"
              [] log.type \notin {"NEWFILE", "DELETEFILE", "WRITE"} -> "error",
   path |-> log.path, new |-> log.path, value |-> log.data]

(* restore(): the system call made for a record, with Data as the old name.   *)
(* Parent directories are made as needed; an ERROR has no case.               *)
OpOf(log) ==
  LET Op(kind) == [kind |-> kind, path |-> log.path, new |-> log.path, value |-> ""]
      Two(kind) == [Op(kind) EXCEPT !.path = log.data, !.new = log.path]
  IN CASE log.type = "NEWFILE"    -> Op(IF log.dir THEN "mkdir" ELSE "create")
       [] log.type = "DELETEFILE" -> Op(IF log.dir THEN "rmdir" ELSE "unlink")
       [] log.type = "WRITE"      -> [Op("write") EXCEPT !.value = log.data]
       [] log.type = "RENAMEFILE" -> Two("rename")
       [] log.type = "HARDLINK"   -> Two("link")
       [] log.type = "SOFTLINK"   -> Two("symlink")
       [] log.type = "ERROR"      -> Op("error")

-----------------------------------------------------------------------------
Init ==
  /\ source = EmptyTree /\ ops = 0 /\ running = TRUE
  /\ logs = <<>> /\ lost = {} /\ past = <<>> /\ missed = {} /\ tangled = FALSE
  /\ wnum = 1 /\ files = [n \in Nums |-> "absent"] /\ deleted = {}
  /\ tool \in Tools
  /\ rpc = "open"
  /\ iolognum = 1
  /\ path = 1
  /\ leaked = 0
  /\ applied = <<>>
  /\ target = EmptyTree

(* Deviation: the hook of rmdir is not installed. *)
NamesLookedUpButRmdir(op) ==
  CASE op.kind = "rmdir" -> {}
    [] op.kind \in OneName \ {"rmdir"} -> {op.path}
    [] op.kind = "rename"  -> {op.path, op.new}
    [] op.kind \in {"link", "symlink"} -> {op.new}

(* The hooks log an operation by its name; a rename by either name, a link by *)
(* the new one.                                                              *)
NamesLookedUp(op) ==
  CASE op.kind \in OneName -> {op.path}
    [] op.kind = "rename"  -> {op.path, op.new}
    [] op.kind \in {"link", "symlink"} -> {op.new}

Concerned(op) == NamesLookedUp(op) \cap Monitored # {}

(* A hook draws a number. Its record may find no memory, which only            *)
(* rtb_vfs_write looks at.                                                    *)
Recorded(op, after) ==
  /\ running /\ Concerned(op)
  /\ logs' = Append(logs, LogOf(IF Succeeds(source, op) THEN op ELSE [op EXCEPT !.kind = "error"]))
  /\ past' = IF tangled' THEN past ELSE Append(past, View(after))
  /\ \/ UNCHANGED <<lost, running>>
     \/ /\ "record" \in Faults
        /\ lost' = lost \cup {Len(logs) + 1}
        /\ running' = (op.kind # "write")
  /\ UNCHANGED missed

(* No number: the hook is not concerned or does not log, has no memory for the *)
(* path, or finds no set. A write whose path is not known stops the logging.   *)
Unrecorded(op) ==
  /\ Concerned(op) /\ running => "path" \in Faults
  /\ missed' = IF Concerned(op) /\ Succeeds(source, op) THEN missed \cup {op.path, op.new}
                                                        ELSE missed
  /\ \/ UNCHANGED running
     \/ "path" \in Faults /\ op.kind = "write" /\ running' = FALSE
  /\ UNCHANGED <<logs, lost, past>>

Operation(kind, p, q, v) ==
  LET op == [kind |-> kind, path |-> p, new |-> q, value |-> v]
      after == Try(source, op, ops + 1)
      tangles == kind \in TwoNames /\ {p, q} \cap Monitored # {}
  IN /\ ops < MaxOps
     /\ ops' = ops + 1
     /\ source' = after
     /\ tangled' = (tangled \/ tangles)
     /\ Recorded(op, after) \/ Unrecorded(op)
     /\ UNCHANGED <<writerVars, readerVars>>

(* A name or a value an operation does not use is that of the first. *)
Perform ==
  \E kind \in Kinds, p \in Paths :
    \E q \in IF kind \in TwoNames THEN Paths \ {p} ELSE {p} :
      \E v \in IF kind = "write" THEN Values ELSE {""} :
        Operation(kind, p, q, v)

-----------------------------------------------------------------------------
(* The writer thread: a log file has its name before it has its contents.     *)

(* The queue holds the records that were built. *)
Due(n) == n \in (wnum .. Len(logs)) \ lost /\ wnum .. (n - 1) \subseteq lost

OpenLog ==
  /\ \E n \in Nums : /\ Due(n) /\ files[n] = "absent"
                     /\ files' = [files EXCEPT ![n] = "part"]
  /\ UNCHANGED <<sourceVars, wnum, readerVars>>

WriteLog ==
  /\ \E n \in Nums : /\ Due(n) /\ files[n] = "part"
                     /\ files' = [files EXCEPT ![n] = "whole"]
                     /\ wnum' = n + 1
  /\ UNCHANGED <<sourceVars, readerVars>>

(* The thread sends a message and goes on to the next record. *)
LogFails ==
  /\ \E n \in Nums : /\ Due(n)
                     /\ \/ "open" \in Faults /\ files[n] = "absent"
                        \/ "short" \in Faults /\ files[n] = "part"
                     /\ wnum' = n + 1
  /\ UNCHANGED <<sourceVars, files, readerVars>>

Writer == OpenLog \/ WriteLog \/ LogFails

-----------------------------------------------------------------------------
(* The loop of the tools *)

ReaderGoes(from, to) ==
  /\ rpc = from /\ rpc' = to
  /\ UNCHANGED <<tool, sourceVars, writerVars>>

Restoring == {"restore", "restore -loop"}

Openable ==
  path \in Nums /\ files[path] # "absent" /\ path \notin deleted /\ leaked < MaxFiles

(* Deviation: the counter is advanced whether the file is there or not. *)
OpenFailsCounting ==
  /\ ReaderGoes("open", "sleep")
  /\ ~Openable
  /\ iolognum' = iolognum + 1
  /\ path' = path + 1
  /\ path <= MaxOps
  /\ UNCHANGED <<leaked, applied, target, deleted>>

(* Deviation: a missing log ends the loop, with -loop too.                     *)
OpenFailsLeaving ==
  /\ ReaderGoes("open", "left")
  /\ ~Openable
  /\ UNCHANGED <<iolognum, path, leaked, applied, target, deleted>>

OpenFails ==
  /\ ReaderGoes("open", "sleep")
  /\ ~Openable
  /\ UNCHANGED <<iolognum, path, leaked, applied, target, deleted>>

(* fopen, and at once iolognum++. *)
Open ==
  /\ ReaderGoes("open", "read")
  /\ Openable
  /\ iolognum' = iolognum + 1
  /\ UNCHANGED <<path, leaked, applied, target, deleted>>

(* A header or a body that is not there yet, or no memory for it: the loop    *)
(* is left without fclose, and with the counter advanced.                     *)
ReadFails ==
  /\ ReaderGoes("read", "sleep")
  /\ files[path] = "part" \/ "malloc" \in Faults
  /\ leaked' = leaked + 1
  /\ UNCHANGED <<iolognum, path, applied, target, deleted>>

(* Deviation: the name is built from the counter of the log just read. *)
ReadSame ==
  /\ ReaderGoes("read", "open")
  /\ files[path] = "whole"
  /\ applied' = Append(applied, path)
  /\ target' = IF tool \in Restoring THEN Try(target, OpOf(logs[path]), path) ELSE target
  /\ deleted' = IF tool = "analysis -loopdel" THEN deleted \cup {path} ELSE deleted
  /\ path' = iolognum - 1
  /\ UNCHANGED <<iolognum, leaked>>

Read ==
  /\ ReaderGoes("read", "open")
  /\ files[path] = "whole"
  /\ applied' = Append(applied, path)
  /\ target' = IF tool \in Restoring THEN Try(target, OpOf(logs[path]), path) ELSE target
  /\ deleted' = IF tool = "analysis -loopdel" THEN deleted \cup {path} ELSE deleted
  /\ path' = iolognum
  /\ UNCHANGED <<iolognum, leaked>>

(* Without -loop the process ends here. *)
Sleep ==
  /\ tool # "restore"
  /\ ReaderGoes("sleep", "open")
  /\ UNCHANGED <<iolognum, path, leaked, applied, target, deleted>>

Reader == OpenFails \/ Open \/ ReadFails \/ Read \/ Sleep

Next == Perform \/ Writer \/ Reader

Spec == Init /\ [][Next]_vars

(* The tool and the writer thread are scheduled. Nothing obliges the task. *)
FairSpec ==
  /\ Spec
  /\ WF_vars(Writer)
  /\ WF_vars(Reader)

-----------------------------------------------------------------------------
(* Properties *)

Trees == [node : [Paths -> Nums \cup {0}],
          data : [0..MaxOps -> {NoFile, Dir, File("")} \cup {File(v) : v \in Values}
                                 \cup {Link(p) : p \in Paths}]]
Logs  == [type : {"NEWFILE", "DELETEFILE", "WRITE", "RENAMEFILE", "HARDLINK", "SOFTLINK", "ERROR"},
          dir : BOOLEAN, path : Paths, data : Paths \cup Values]
Applied == {applied[i] : i \in DOMAIN applied}

TypeOK ==
  /\ source \in Trees /\ target \in Trees
  /\ ops \in 0..MaxOps /\ Len(logs) <= ops
  /\ \A i \in DOMAIN logs : logs[i] \in Logs
  /\ lost \subseteq 1..Len(logs) /\ missed \subseteq Paths
  /\ running \in BOOLEAN /\ tangled \in BOOLEAN
  /\ wnum \in 1..(Len(logs) + 1)
  /\ files \in [Nums -> {"absent", "part", "whole"}]
  /\ \A n \in Nums : files[n] # "absent" => n <= Len(logs) /\ n \notin lost
  /\ tool \in Tools
  /\ rpc \in {"open", "read", "sleep"}
  /\ leaked \in 0..MaxFiles
  /\ rpc = "read" => files[path] # "absent"
  /\ Applied \subseteq {n \in Nums : files[n] = "whole"}
  /\ deleted \subseteq Applied
  /\ iolognum = 1 + Len(applied) + leaked + (IF rpc = "read" THEN 1 ELSE 0)

(* A read that fails leaves the counter ahead of the name (RestoreIolog.c:260 *)
(* to 263), so that later logs are passed over: never more of them than reads *)
(* have failed, and those that are applied are applied once and in order,     *)
(* whatever the writer does meanwhile.                                        *)
EverySkipIsAFailedRead ==
  /\ Cardinality((1..(path - 1)) \ Applied) <= leaked
  /\ \A i, j \in DOMAIN applied : i < j => applied[i] < applied[j]

(* What RestoreIolog has made is the monitored files as they were when the    *)
(* last log it applied was drawn, and with every log applied the files as they *)
(* are now, except the names a change of which passed the hooks without a      *)
(* number (hookvfs.c:525 and the like, and once the logging has stopped): what *)
(* is missed costs those names and no other. A number whose record was lost    *)
(* (hookvfs.c:576) costs none, for nothing behind it is applied. It holds as   *)
(* long as no read has failed and no operation with two names was performed    *)
(* on monitored names (those are TargetFollowsSource's).                      *)
TargetIsPastSource ==
  tool \in Restoring /\ leaked = 0 =>
    \A m \in Monitored \ missed :
      /\ Len(applied) \in 1..Len(past) => View(target)[m] = past[Len(applied)][m]
      /\ ~tangled /\ Len(applied) = Len(logs) => View(target)[m] = View(source)[m]

(* A tool that loops handles every whole log whose predecessors are whole,    *)
(* unless a read has failed.                                                  *)
ReplayCatchesUp ==
  \A n \in Nums :
    (\A m \in 1..n : files[m] = "whole") ~> n \in Applied \/ leaked > 0 \/ tool = "restore"

(* When every log has been replayed, the target shows the live files. Every   *)
(* message of the tools gives a rename as wszFilePath > Data                  *)
(* (RestoreIolog.c:195, AnalysisIolog.c:76), as createiologforrename wrote it. *)
TargetFollowsSource ==
  tool \in Restoring /\ running /\ leaked = 0 /\ Len(applied) = Len(logs) =>
    View(target) = View(source)
=============================================================================
