-------------------------------- MODULE IoLog --------------------------------
(***************************************************************************)
(* The logging pipeline of the rtbackup kernel module: the eight hooks that *)
(* replace the vfs_* operations (hookvfs.c), the numbering of a monitored   *)
(* operation (GetMonitorFileSeqNoByMonitorFileEntry, monitorset.c), the     *)
(* records put on the asynchronous queue (createiolog.c) and the kernel     *)
(* thread that writes each record to the log file named by its number       *)
(* (iowritethread.c).                                                       *)
(*                                                                         *)
(* A hook draws its number, runs the original operation and queues its      *)
(* record in three separate steps, with no lock held in between; the queue  *)
(* and the completion the thread sleeps on are also updated in two steps.   *)
(* The registry of monitored items is fixed here: paths are abstracted to   *)
(* the item that covers them (NoItem when none does).                       *)
(***************************************************************************)
EXTENDS Naturals, Sequences

CONSTANTS
  Callers,   \* tasks that run hooked operations
  Sets,      \* backup sets (MONITOR_SET_ENTRY)
  Items,     \* monitored items (MONITOR_FILE_ENTRY)
  SetOf,     \* the set each item was configured in (hdr.guidSetId)
  Orphans,   \* items whose set GetMonitorSetEntry does not find
  NoItem,    \* the path is not covered by any item
  NoSet,     \* the empty directory name a hook's iologdir starts with
  NoLog,     \* the writer holds no record
  Ops,       \* the hooks exercised, a subset of AllOps
  Faults,    \* the failures the environment may inject, a subset of AllFaults
  MaxCalls   \* bound: operations that draw a number

(* LOG_FILE_TYPE_* of the record each successful operation leaves. *)
LogType ==
  [write   |-> "WRITE",      create |-> "NEWFILE",    mkdir  |-> "NEWFILE",
   unlink  |-> "DELETEFILE", rmdir  |-> "DELETEFILE", rename |-> "RENAMEFILE",
   symlink |-> "SOFTLINK",   link   |-> "HARDLINK"]

AllOps    == DOMAIN LogType
LogTypes  == {LogType[o] : o \in AllOps} \cup {"ERROR"}
AllFaults == {"alloc", "path", "record", "open", "short", "save", "message", "unload"}

ASSUME ConstantsAssumption ==
  /\ SetOf \in [Items -> Sets]
  /\ Orphans \subseteq Items
  /\ NoItem \notin Items
  /\ NoSet \notin Sets
  /\ Ops \subseteq AllOps
  /\ Faults \subseteq AllFaults
  /\ MaxCalls \in Nat

(* A log name is the log directory and the global sequence number appended  *)
(* to it: snprintf("%s%lld", iologdir, ullGlobalSeqNo).                     *)
Nums    == Sets \X Nat
Names   == (Sets \cup {NoSet}) \X Nat
NoNum   == <<NoSet, 0>>
Log     == [num : Names, fseq : Nat, type : LogTypes, preds : SUBSET Names]
ASSUME NoLogAssumption == NoLog \notin Log

Call    == [op : AllOps, item : Items \cup {NoItem}, num : Names, fseq : Nat,
            ok : BOOLEAN, preds : SUBSET Names]

VARIABLES
  pc,        \* where each caller is in its hook
  call,      \* the hook's locals
  calls,     \* logged operations begun so far
  normal,    \* Config.bNormalRunning
  setSeq,    \* ullSetSeqNo of each set
  fileSeq,   \* ullSeqNo of each item
  queue,     \* Config.iowritequeue
  done,      \* comp.done, the count of the completion
  wpc,       \* where thread_iowrite is
  cur,       \* the record thread_iowrite took
  disk,      \* the log files, by name
  saved,     \* ullSetSeqNo of each set in its record in /etc/rtb.cnf
  header,    \* the header of that file: it counts the records, or none
  left,      \* sets whose record the save under way has yet to write
  module,    \* how far exit_rtbackup has gone
  notified,  \* history: CLIENT_ERROR messages sent, with the log they are about
  dropped,   \* history: those that found no memory or no room at the receiver
  unsaved,   \* history: numbers logged since the counters were last saved
  lost,      \* history: numbers whose record was given up before any file existed
  lostWrite, \* history: those given up by rtb_vfs_write
  returned   \* history: numbers whose hook has returned to its caller

hookVars   == <<pc, call, calls>>
seqVars    == <<setSeq, fileSeq>>
queueVars  == <<queue, done>>
cnfVars    == <<saved, header, left, unsaved>>
msgVars    == <<notified, dropped>>
writerVars == <<wpc, cur, disk, cnfVars>>
histVars   == <<msgVars, lost, lostWrite, returned>>
vars == <<pc, call, calls, normal, setSeq, fileSeq, queue, done, wpc, cur, disk,
          saved, header, left, unsaved, module, notified, dropped, lost, lostWrite, returned>>

CallerPc == {"idle", "number", "run", "log", "link", "signal", "plain", "badpath", "latch"}
WriterPc == {"wait", "check", "take", "open", "write", "save", "saving", "notify",
             "stopcheck", "exited"}

NoCall == [op |-> "write", item |-> NoItem, num |-> NoNum, fseq |-> 0,
           ok |-> FALSE, preds |-> {}]
File == [log : Log, whole : BOOLEAN]

Init ==
  /\ pc = [c \in Callers |-> "idle"]
  /\ call = [c \in Callers |-> NoCall]
  /\ calls = 0
  /\ normal = TRUE
  /\ setSeq = [s \in Sets |-> 0]
  /\ fileSeq = [i \in Items |-> 0]
  /\ queue = <<>>
  /\ done = 0
  /\ wpc = "wait"
  /\ cur = NoLog
  /\ disk = [m \in {} |-> NoLog]
  /\ saved = [s \in Sets |-> 0]
  /\ header = "whole"
  /\ left = {}
  /\ unsaved = {}
  /\ module = "loaded"
  /\ notified = {}
  /\ dropped = {}
  /\ lost = {}
  /\ lostWrite = {}
  /\ returned = {}

-----------------------------------------------------------------------------
(* Entering a hook *)

Enter(c, o, to) ==
  /\ module = "loaded"
  /\ o \in Ops
  /\ pc[c] = "idle"
  /\ pc' = [pc EXCEPT ![c] = to]
  /\ UNCHANGED <<normal, seqVars, queueVars, writerVars, module, histVars>>

(* The operation runs without being logged. *)
Bypass(c, o) == Enter(c, o, "plain") /\ UNCHANGED <<call, calls>>

Monitor(c, o, i) ==
  /\ calls < MaxCalls
  /\ Enter(c, o, "number")
  /\ calls' = calls + 1
  /\ call' = [call EXCEPT ![c] = [op |-> o, item |-> i, num |-> NoNum, fseq |-> 0,
                                  ok |-> FALSE, preds |-> returned]]

(* Deviation: the gate is not consulted. *)
HookUngated(c, o, i) == IF i # NoItem THEN Monitor(c, o, i) ELSE Bypass(c, o)

(* The part every hook shares: the gate on bNormalRunning, the path buffers, *)
(* the look-up of the item covering the path.                               *)
Hook(c, o, i) ==
  \/ normal /\ i # NoItem /\ Monitor(c, o, i)
  \/ (~normal \/ i = NoItem) /\ Bypass(c, o)
  \/ normal /\ i # NoItem /\ "alloc" \in Faults /\ Bypass(c, o)

Covered == Items \cup {NoItem}

(* rtb_vfs_write also lets the module's own writes through (f_flags == 1),  *)
(* and remembers that the path of the file could not be computed.           *)
RtbVfsWrite(c) ==
  \/ \E i \in Covered : Hook(c, "write", i)
  \/ normal /\ Bypass(c, "write")
  \/ normal /\ "path" \in Faults /\ Enter(c, "write", "badpath") /\ UNCHANGED <<call, calls>>

RtbVfsMkdir(c)   == \E i \in Covered : Hook(c, "mkdir", i)
RtbVfsRmdir(c)   == \E i \in Covered : Hook(c, "rmdir", i)
RtbVfsUnlink(c)  == \E i \in Covered : Hook(c, "unlink", i)
RtbVfsSymlink(c) == \E i \in Covered : Hook(c, "symlink", i)
RtbVfsLink(c)    == \E i \in Covered : Hook(c, "link", i)

(* The new name is looked up first, the old one only if that finds nothing. *)
RtbVfsRename(c) ==
  \E new, old \in Covered : Hook(c, "rename", IF new # NoItem THEN new ELSE old)

(* An existing inode is only being opened: nothing to log. *)
RtbVfsCreate(c) ==
  \/ \E i \in Covered : Hook(c, "create", i)
  \/ normal /\ Bypass(c, "create")

EnterHook(c) ==
  \/ RtbVfsWrite(c) \/ RtbVfsMkdir(c) \/ RtbVfsRmdir(c) \/ RtbVfsRename(c)
  \/ RtbVfsUnlink(c) \/ RtbVfsSymlink(c) \/ RtbVfsLink(c) \/ RtbVfsCreate(c)

-----------------------------------------------------------------------------
(* Inside a hook *)

WithNumber(r, m, f) ==
  [op |-> r.op, item |-> r.item, num |-> m, fseq |-> f, ok |-> r.ok, preds |-> r.preds]
WithResult(r, b) ==
  [op |-> r.op, item |-> r.item, num |-> r.num, fseq |-> r.fseq, ok |-> b, preds |-> r.preds]

(* Deviation: the counter of the set is read but not advanced. *)
NumberNotAdvanced(c) ==
  /\ pc[c] = "number"
  /\ pc' = [pc EXCEPT ![c] = "run"]
  /\ LET s == SetOf[call[c].item] IN
       call' = [call EXCEPT ![c] = WithNumber(call[c], <<s, setSeq[s]>>, 0)]
  /\ UNCHANGED <<calls, normal, seqVars, queueVars, writerVars, module, histVars>>

(* Both counters are read and incremented under gseqnolock. When the set is *)
(* not found the status is ignored and the locals keep their zeroes.        *)
GetMonitorFileSeqNo(c) ==
  LET i == call[c].item
      s == SetOf[i] IN
  /\ pc[c] = "number"
  /\ pc' = [pc EXCEPT ![c] = "run"]
  /\ \/ /\ i \notin Orphans
        /\ call' = [call EXCEPT ![c] = WithNumber(call[c], <<s, setSeq[s]>>, fileSeq[i])]
        /\ setSeq' = [setSeq EXCEPT ![s] = @ + 1]
        /\ fileSeq' = [fileSeq EXCEPT ![i] = @ + 1]
     \/ i \in Orphans /\ UNCHANGED <<call, seqVars>>
  /\ UNCHANGED <<calls, normal, queueVars, writerVars, module, histVars>>

(* Deviation: an operation that fails gives its number back. *)
RunOriginalGivingBack(c) ==
  /\ pc[c] = "run"
  /\ pc' = [pc EXCEPT ![c] = "log"]
  /\ \E ok \in BOOLEAN :
       /\ call' = [call EXCEPT ![c] = WithResult(call[c], ok)]
       /\ setSeq' = IF ok THEN setSeq ELSE [setSeq EXCEPT ![SetOf[call[c].item]] = @ - 1]
  /\ UNCHANGED <<calls, normal, fileSeq, queueVars, writerVars, module, histVars>>

(* run(...): the original operation, outside every lock of the module. *)
RunOriginal(c) ==
  /\ pc[c] = "run"
  /\ pc' = [pc EXCEPT ![c] = "log"]
  /\ \E ok \in BOOLEAN : call' = [call EXCEPT ![c] = WithResult(call[c], ok)]
  /\ UNCHANGED <<calls, normal, seqVars, queueVars, writerVars, module, histVars>>

RunUnlogged(c) ==
  /\ \/ pc[c] = "plain" /\ pc' = [pc EXCEPT ![c] = "idle"]
     \/ pc[c] = "badpath" /\ pc' = [pc EXCEPT ![c] = "latch"]
  /\ UNCHANGED <<call, calls, normal, seqVars, queueVars, writerVars, module, histVars>>

(* The hook returns to its caller. *)
Return(c) ==
  /\ pc' = [pc EXCEPT ![c] = "idle"]
  /\ call' = [call EXCEPT ![c] = NoCall]
  /\ returned' = returned \cup ({call[c].num} \ {NoNum})

(* createiologfor*: the record is built, or its allocation fails and -1 is  *)
(* returned. Only rtb_vfs_write looks at that result.                       *)
BuildLog(c) ==
  /\ pc[c] = "log"
  /\ pc' = [pc EXCEPT ![c] = "link"]
  /\ UNCHANGED <<call, calls, normal, seqVars, queueVars, writerVars, module, histVars>>

BuildLogFails(c) ==
  /\ pc[c] = "log"
  /\ "record" \in Faults
  /\ lost' = lost \cup {call[c].num}
  /\ \/ /\ call[c].op = "write"
        /\ pc' = [pc EXCEPT ![c] = "latch"]
        /\ lostWrite' = lostWrite \cup {call[c].num}
        /\ UNCHANGED <<call, returned>>
     \/ /\ call[c].op # "write"
        /\ Return(c)
        /\ UNCHANGED lostWrite
  /\ UNCHANGED <<calls, normal, seqVars, queueVars, writerVars, module, msgVars>>

LogOf(c) ==
  [num |-> call[c].num, fseq |-> call[c].fseq, preds |-> call[c].preds,
   type |-> IF call[c].ok THEN LogType[call[c].op] ELSE "ERROR"]

(* Deviations: list_add in place of list_add_tail; the list head overwritten. *)
LinkLogAtHead(c) ==
  /\ pc[c] = "link"
  /\ pc' = [pc EXCEPT ![c] = "signal"]
  /\ queue' = <<LogOf(c)>> \o queue
  /\ UNCHANGED <<call, calls, normal, seqVars, done, writerVars, module, histVars>>

LinkLogReplacing(c) ==
  /\ pc[c] = "link"
  /\ pc' = [pc EXCEPT ![c] = "signal"]
  /\ queue' = <<LogOf(c)>>
  /\ UNCHANGED <<call, calls, normal, seqVars, done, writerVars, module, histVars>>

(* list_add_tail under iowritequeuelock *)
LinkLog(c) ==
  /\ pc[c] = "link"
  /\ pc' = [pc EXCEPT ![c] = "signal"]
  /\ queue' = Append(queue, LogOf(c))
  /\ UNCHANGED <<call, calls, normal, seqVars, done, writerVars, module, histVars>>

(* Deviation: the completion is signalled only when the queue was empty. *)
SignalFirstOnly(c) ==
  /\ pc[c] = "signal"
  /\ done' = IF Len(queue) = 1 THEN done + 1 ELSE done
  /\ Return(c)
  /\ UNCHANGED <<calls, normal, seqVars, queue, writerVars, module, msgVars, lost, lostWrite>>

(* completecompletion() *)
Signal(c) ==
  /\ pc[c] = "signal"
  /\ done' = done + 1
  /\ Return(c)
  /\ UNCHANGED <<calls, normal, seqVars, queue, writerVars, module, msgVars, lost, lostWrite>>

(* notify_user_status: without memory for the packet, or without room at the *)
(* receiver's socket, the message is dropped and the sender does not know.   *)
Notify(msg) ==
  \/ notified' = notified \cup {msg} /\ UNCHANGED dropped
  \/ "message" \in Faults /\ dropped' = dropped \cup {msg} /\ UNCHANGED notified

(* Deviation: rtb_vfs_write tells the user but goes on as before.            *)
LatchNotTurned(c) ==
  /\ pc[c] = "latch"
  /\ Notify(<<"write", call[c].num>>)
  /\ Return(c)
  /\ UNCHANGED <<calls, normal, seqVars, queueVars, writerVars, module, lost, lostWrite>>

(* rtb_vfs_write after a failure: monitoring stops and the user is told -3. *)
Latch(c) ==
  /\ pc[c] = "latch"
  /\ normal' = FALSE
  /\ Notify(<<"write", call[c].num>>)
  /\ Return(c)
  /\ UNCHANGED <<calls, seqVars, queueVars, writerVars, module, lost, lostWrite>>

HookStep(c) ==
  \/ GetMonitorFileSeqNo(c) \/ RunOriginal(c) \/ RunUnlogged(c) \/ BuildLog(c)
  \/ BuildLogFails(c) \/ LinkLog(c) \/ Signal(c) \/ Latch(c)

-----------------------------------------------------------------------------
(* thread_iowrite *)

WriterGoes(from, to) == wpc = from /\ wpc' = to

OthersUnchanged == UNCHANGED <<hookVars, normal, seqVars, module, lostWrite, returned>>

(* Deviations: a count is taken that is not there; the wait has no timeout. *)
WaitCompletionUntested ==
  /\ WriterGoes("wait", "check")
  /\ done' = done - 1
  /\ OthersUnchanged /\ UNCHANGED <<queue, cur, disk, cnfVars, msgVars, lost>>

WaitCompletionForever ==
  /\ WriterGoes("wait", "check")
  /\ done > 0 /\ done' = done - 1
  /\ OthersUnchanged /\ UNCHANGED <<queue, cur, disk, cnfVars, msgVars, lost>>

(* wait_for_completion_timeout: one count is consumed, or the time is up. *)
WaitCompletion ==
  /\ WriterGoes("wait", "check")
  /\ \/ done > 0 /\ done' = done - 1
     \/ done = 0 /\ UNCHANGED done
  /\ OthersUnchanged /\ UNCHANGED <<queue, cur, disk, cnfVars, msgVars, lost>>

(* list_empty, read without the lock *)
CheckQueue ==
  /\ \/ queue # <<>> /\ WriterGoes("check", "take")
     \/ queue = <<>> /\ WriterGoes("check", "stopcheck")
  /\ OthersUnchanged /\ UNCHANGED <<queueVars, cur, disk, cnfVars, msgVars, lost>>

TakeLog ==
  /\ queue # <<>>
  /\ WriterGoes("take", "open")
  /\ cur' = Head(queue)
  /\ queue' = Tail(queue)
  /\ OthersUnchanged /\ UNCHANGED <<done, disk, cnfVars, msgVars, lost>>

PutFile(m, f) == [n \in DOMAIN disk \cup {m} |-> IF n = m THEN f ELSE disk[n]]

(* createiolog: the file comes into being empty (O_CREAT, no O_TRUNC). *)
OpenLog ==
  /\ WriterGoes("open", "write")
  /\ disk' = IF cur.num \in DOMAIN disk
               THEN disk
               ELSE PutFile(cur.num, [log |-> cur, whole |-> FALSE])
  /\ OthersUnchanged /\ UNCHANGED <<queueVars, cur, cnfVars, msgVars, lost>>

(* createiolog sends a message of its own here, beside the one of the thread. *)
OpenLogFails ==
  /\ "open" \in Faults
  /\ WriterGoes("open", "notify")
  /\ lost' = lost \cup {cur.num}
  /\ OthersUnchanged /\ UNCHANGED <<queueVars, cur, disk, cnfVars, msgVars>>

WriteLog ==
  /\ WriterGoes("write", "save")
  /\ disk' = PutFile(cur.num, [log |-> cur, whole |-> TRUE])
  /\ OthersUnchanged /\ UNCHANGED <<queueVars, cur, cnfVars, msgVars, lost>>

(* Deviation: a short write passes for a success. *)
WriteLogShortIgnored ==
  /\ "short" \in Faults
  /\ WriterGoes("write", "save")
  /\ disk' = PutFile(cur.num, [log |-> cur, whole |-> FALSE])
  /\ OthersUnchanged /\ UNCHANGED <<queueVars, cur, cnfVars, msgVars, lost>>

WriteLogShort ==
  /\ "short" \in Faults
  /\ WriterGoes("write", "notify")
  /\ disk' = PutFile(cur.num, [log |-> cur, whole |-> FALSE])
  /\ OthersUnchanged /\ UNCHANGED <<queueVars, cur, cnfVars, msgVars, lost>>

(* SaveConfig after each log. Its first write leaves a header that counts no *)
(* record; it opens the file before, and may fail to.                        *)
BeginSave ==
  /\ WriterGoes("save", "saving")
  /\ header' = "zeroed"
  /\ left' = Sets
  /\ OthersUnchanged /\ UNCHANGED <<queueVars, cur, disk, saved, unsaved, msgVars, lost>>

SaveUnopened ==
  /\ "save" \in Faults
  /\ WriterGoes("save", "check")
  /\ unsaved' = unsaved \cup {cur.num}
  /\ cur' = NoLog
  /\ OthersUnchanged /\ UNCHANGED <<queueVars, disk, saved, header, left, msgVars, lost>>

(* Deviation: the number of the log just written is saved, not the next one. *)
SaveSetLast(s) ==
  /\ wpc = "saving" /\ s \in left
  /\ saved' = [saved EXCEPT ![s] = IF cur.num[1] = s THEN cur.num[2] ELSE setSeq[s]]
  /\ left' = left \ {s}
  /\ OthersUnchanged /\ UNCHANGED <<queueVars, wpc, cur, disk, header, unsaved, msgVars, lost>>

(* The record of one set, with the counter as it is by then: no lock is held *)
(* and hooks draw numbers in between.                                        *)
SaveSet(s) ==
  /\ wpc = "saving" /\ s \in left
  /\ saved' = [saved EXCEPT ![s] = setSeq[s]]
  /\ left' = left \ {s}
  /\ OthersUnchanged /\ UNCHANGED <<queueVars, wpc, cur, disk, header, unsaved, msgVars, lost>>

SaveEnds(to) ==
  /\ WriterGoes("saving", to)
  /\ cur' = NoLog
  /\ left' = {}
  /\ OthersUnchanged /\ UNCHANGED <<queueVars, disk, saved, msgVars, lost>>

(* Deviations: the next record is taken without testing the list again; the  *)
(* header is not written a second time.                                      *)
SaveThenTake ==
  /\ left = {} /\ SaveEnds("take")
  /\ header' = "whole" /\ unsaved' = {}
EndSaveEarly ==
  /\ left = {} /\ SaveEnds("check")
  /\ unsaved' = {} /\ UNCHANGED header

(* The records of the items, and the header again, with what was written.    *)
EndSave ==
  /\ left = {} /\ SaveEnds("check")
  /\ header' = "whole" /\ unsaved' = {}

(* A write of SaveConfig fails: it leaves the header as it is and returns 0. *)
SaveCutShort ==
  /\ "save" \in Faults /\ SaveEnds("check")
  /\ unsaved' = unsaved \cup {cur.num} /\ UNCHANGED header

SaveAfterLog ==
  \/ BeginSave \/ SaveUnopened \/ EndSave \/ SaveCutShort
  \/ \E s \in Sets : SaveSet(s)

(* Deviation: a record that failed goes back to the queue. *)
NotifyAndRetry ==
  /\ WriterGoes("notify", "check")
  /\ Notify(<<"thread", cur.num>>)
  /\ queue' = <<cur>> \o queue
  /\ cur' = NoLog
  /\ OthersUnchanged /\ UNCHANGED <<done, disk, cnfVars, lost>>

NotifyFailure ==
  /\ WriterGoes("notify", "check")
  /\ Notify(<<"thread", cur.num>>)
  /\ cur' = NoLog
  /\ OthersUnchanged /\ UNCHANGED <<queueVars, disk, cnfVars, lost>>

(* kthread_should_stop *)
CheckStop ==
  /\ \/ module = "stopping" /\ WriterGoes("stopcheck", "exited")
     \/ module # "stopping" /\ WriterGoes("stopcheck", "wait")
  /\ OthersUnchanged /\ UNCHANGED <<queueVars, cur, disk, cnfVars, msgVars, lost>>

ThreadIoWrite ==
  \/ WaitCompletion \/ CheckQueue \/ TakeLog \/ OpenLog \/ OpenLogFails \/ WriteLog
  \/ WriteLogShort \/ SaveAfterLog \/ NotifyFailure \/ CheckStop

-----------------------------------------------------------------------------
(* exit_rtbackup, up to the return of kthread_stop: the hooks are taken out  *)
(* without waiting for the calls inside them, then the thread is told to stop. *)
ExitRtbackup ==
  /\ "unload" \in Faults
  /\ \/ module = "loaded" /\ module' = "unhooked"
     \/ module = "unhooked" /\ module' = "stopping"
  /\ UNCHANGED <<hookVars, normal, seqVars, queueVars, writerVars, histVars>>

Next ==
  \/ \E c \in Callers : EnterHook(c) \/ HookStep(c)
  \/ ThreadIoWrite
  \/ ExitRtbackup

(* A task inside a hook and the kernel thread keep being scheduled, and the  *)
(* timeout of the wait expires. Nothing obliges a task to start an operation *)
(* or the administrator to unload the module.                                *)
Fairness ==
  /\ WF_vars(ThreadIoWrite)
  /\ \A c \in Callers : WF_vars(HookStep(c))

Spec     == Init /\ [][Next]_vars
FairSpec == Spec /\ Fairness

-----------------------------------------------------------------------------
(* Properties *)

TypeOK ==
  /\ pc \in [Callers -> CallerPc]
  /\ call \in [Callers -> Call]
  /\ \A c \in Callers : pc[c] = "number" => call[c].item \in Items
  /\ calls \in Nat
  /\ normal \in BOOLEAN
  /\ setSeq \in [Sets -> Nat]
  /\ fileSeq \in [Items -> Nat]
  /\ queue \in Seq(Log)
  /\ done \in Nat
  /\ wpc \in WriterPc
  /\ cur \in IF wpc \in {"open", "write", "save", "saving", "notify"} THEN Log ELSE {NoLog}
  /\ DOMAIN disk \subseteq Names
  /\ disk \in [DOMAIN disk -> File]
  /\ saved \in [Sets -> Nat]
  /\ header \in {"whole", "zeroed"}
  /\ left \subseteq Sets
  /\ unsaved \subseteq Names
  /\ module \in {"loaded", "unhooked", "stopping"}
  /\ notified \cup dropped \subseteq {"write", "thread"} \X Names
  /\ lost \subseteq Names
  /\ lostWrite \subseteq Names
  /\ returned \subseteq Names

(* Where a number can be between its issue and its log file. *)
Holds(c) == pc[c] \in {"run", "log", "link"}
Held     == {call[c].num : c \in {d \in Callers : Holds(d)}}
Queued   == {queue[k].num : k \in DOMAIN queue}
InHand   == IF wpc = "open" THEN {cur.num} ELSE {}
Settled  == DOMAIN disk \cup lost
Issued   == UNION {{s} \X (0 .. (setSeq[s] - 1)) : s \in Sets}

(* The sequence of a set has no gap: every number its counter has passed is  *)
(* carried by a call between drawing it and linking its record, by a queued  *)
(* record, by the thread, or has a log file or a recorded failure; and no    *)
(* other number exists.                                                      *)
NumbersAccounted ==
  (Held \cup Queued \cup InHand \cup Settled) \ {NoNum} = Issued

(* A number is in one place only: gseqnolock and the queue lock never let    *)
(* two calls or two records share one, and a number with a log file is never *)
(* again on its way to the thread, which would overwrite the file.           *)
NumbersUnique ==
  /\ \A c, d \in Callers :
       Holds(c) /\ Holds(d) /\ c # d /\ call[c].num # NoNum => call[c].num # call[d].num
  /\ \A j, k \in DOMAIN queue :
       j # k /\ queue[j].num # NoNum => queue[j].num # queue[k].num
  /\ Held \cap (Queued \cup InHand \cup Settled) \subseteq {NoNum}
  /\ Queued \cap (InHand \cup Settled) \subseteq {NoNum}
  /\ InHand \cap Settled \subseteq {NoNum}
  /\ DOMAIN disk \cap lost \subseteq {NoNum}

(* The thread tests list_empty without the lock and takes the first record   *)
(* without testing again: the record it saw is still there.                  *)
TakeFindsRecord == wpc = "take" => queue # <<>>

(* No lost wakeup: when thread_iowrite is about to sleep, or sleeps, with a  *)
(* record queued, the completion is signalled or the caller that linked a    *)
(* record has yet to signal it, so the record does not wait for the timeout. *)
NoLostWakeup ==
  wpc \in {"stopcheck", "wait"} /\ queue # <<>> =>
    done > 0 \/ \E c \in Callers : pc[c] = "signal"

(* Real-time order survives the queue: when the log of a call is on disk,    *)
(* every call that had returned before that call began is on disk or was     *)
(* given up, so a reader never finds an effect before its possible causes;   *)
(* and in its set it has the smaller number, whichever item, task or outcome  *)
(* it had, so that replaying by number never swaps the two. Of calls that    *)
(* overlap NumberOrderIsEffectOrder says more.                               *)
Follows(m, p) == p \in Settled /\ (p[1] = m[1] => p[2] < m[2])
LoggedAfterPredecessors ==
  \A m \in DOMAIN disk : \A p \in disk[m].log.preds \ {NoNum} : Follows(m, p)

(* bNormalRunning works as a latch: no call that began after rtb_vfs_write   *)
(* returned with its record lost leaves a log, the sequence ends there.      *)
NothingLoggedPastLostWrite ==
  \A m \in DOMAIN disk : disk[m].log.preds \cap lostWrite \subseteq {NoNum}

(* No failure the thread or rtb_vfs_write notices passes without a message:  *)
(* for a log left empty or short before the thread goes on to another record, *)
(* for the lost record of a write before it returns. The message may be      *)
(* dropped; for a write the status that the application can query            *)
(* (rtbnetlink.c:129) then still says that logging has ended.                *)
Attempted == notified \cup dropped
FailuresReported ==
  /\ \A m \in DOMAIN disk \ {NoNum} :
       ~disk[m].whole => \/ <<"thread", m>> \in Attempted
                         \/ wpc \in {"write", "notify"} /\ cur.num = m
  /\ \A m \in (lostWrite \cap returned) \ {NoNum} :
       <<"write", m>> \in Attempted /\ ~normal

(* What a crash leaves of the counters: in a file whose header counts its    *)
(* records they are past every whole log but the one just written and those  *)
(* written since a SaveConfig that failed; and there is no such header only  *)
(* while a save is under way, or after one that failed. A restart issues no  *)
(* other number twice.                                                       *)
PersistedCoversLogs ==
  /\ header = "whole" =>
       \A m \in DOMAIN disk \ {NoNum} :
         disk[m].whole => \/ m[2] < saved[m[1]]
                          \/ m \in unsaved
                          \/ wpc = "save" /\ cur.num = m
  /\ header = "zeroed" => wpc = "saving" \/ unsaved # {}

(* Every number drawn is settled: its file is whole, or its failure has been *)
(* dealt with, unless the module is unloaded first.                          *)
Finished(m) ==
  \/ m \in lost
  \/ m \in DOMAIN disk /\ (disk[m].whole \/ <<"thread", m>> \in Attempted)

EveryNumberSettles ==
  \A s \in Sets : \A n \in 0 .. (MaxCalls - 1) :
    n < setSeq[s] ~> (Finished(<<s, n>>) \/ wpc = "exited")

(* kthread_stop returns: nothing signals the completion on unload, the       *)
(* thread must notice by itself, and it does so after draining the queue.    *)
UnloadCompletes == module = "stopping" ~> wpc = "exited"

(* Records carry the number drawn before the operation runs, and the test    *)
(* that replays them (RestoreIolog.c) takes them in the order of the         *)
(* numbers: operations should take effect in that order.                     *)
TookEffect(r) == r.type # "ERROR"
Applied ==
  {call[c].num : c \in {d \in Callers : pc[d] \in {"log", "link"} /\ call[d].ok}}
  \cup {queue[k].num : k \in {j \in DOMAIN queue : TookEffect(queue[j])}}
  \cup {m \in DOMAIN disk : TookEffect(disk[m].log)}
NumberOrderIsEffectOrder ==
  [][\A c \in Callers :
       pc[c] = "run" /\ pc'[c] = "log" /\ call'[c].ok =>
         \A m \in Applied : m[1] = call[c].num[1] => m[2] < call[c].num[2]]_vars

-----------------------------------------------------------------------------
(* Refinement: the numbers of the sets and their outcomes. A short file is a *)
(* failure once the thread has given it up; the thread's exit ends logging.  *)
InProgress(m) == wpc = "write" /\ cur.num = m
WholeNums == {m \in DOMAIN disk : disk[m].whole} \ {NoNum}
FailedNums ==
  (lost \cup {m \in DOMAIN disk : ~disk[m].whole /\ ~InProgress(m)}) \ {NoNum}

Abstract == INSTANCE NumberedLog WITH
  issued <- setSeq, written <- WholeNums, failed <- FailedNums, closed <- wpc = "exited"

(* The pipeline implements the numbered log: in every step at most one       *)
(* number is issued or gets its outcome, and no outcome is ever revised.     *)
ImplementsNumberedLog == Abstract!Spec
=============================================================================
