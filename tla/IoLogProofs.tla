----------------------------- MODULE IoLogProofs -----------------------------
(* Proofs about the logging pipeline, for any number of callers, sets and   *)
(* items, any set of failures and any bound on the calls.                    *)
EXTENDS IoLog, TLAPS

(* The value of the locals of an idle hook is a proper one. *)
LEMMA NoCallType == NoCall \in Call /\ NoNum \in Names
<1>1. NoNum \in Names
  BY DEF NoNum, Names
<1>2. "write" \in AllOps
  BY DEF AllOps, LogType
<1> QED
  BY <1>1, <1>2 DEF NoCall, Call

(* However a hook is entered, the call is either monitored, which happens    *)
(* only while the module runs normally, or runs unlogged.                    *)
LEMMA EnterCases ==
  ASSUME NEW c \in Callers, EnterHook(c)
  PROVE  \/ \E o \in AllOps, i \in Items : normal /\ Monitor(c, o, i)
         \/ \E o \in AllOps : Bypass(c, o)
         \/ Enter(c, "write", "badpath") /\ UNCHANGED <<call, calls>>
<1> DEFINE Goal ==
      \/ \E o \in AllOps, i \in Items : normal /\ Monitor(c, o, i)
      \/ \E o \in AllOps : Bypass(c, o)
<1>1. \A o, to : Enter(c, o, to) => o \in AllOps
  BY ConstantsAssumption DEF Enter
<1>2. ASSUME NEW o, NEW i \in Covered, Hook(c, o, i) PROVE Goal
  <2>1. CASE normal /\ i # NoItem /\ Monitor(c, o, i)
    <3>1. o \in AllOps
      BY <1>1, <2>1 DEF Monitor
    <3>2. i \in Items
      BY <2>1 DEF Covered
    <3> QED
      BY <2>1, <3>1, <3>2
  <2>2. CASE Bypass(c, o)
    BY <1>1, <2>2 DEF Bypass
  <2> QED
    BY <1>2, <2>1, <2>2 DEF Hook
<1>3. ASSUME NEW o, Bypass(c, o) PROVE Goal
  BY <1>1, <1>3 DEF Bypass
<1>4. CASE RtbVfsWrite(c)
  BY <1>2, <1>3, <1>4 DEF RtbVfsWrite
<1>5. CASE RtbVfsRename(c)
  <2>1. PICK new \in Covered, old \in Covered :
          Hook(c, "rename", IF new # NoItem THEN new ELSE old)
    BY <1>5 DEF RtbVfsRename
  <2> QED
    BY <2>1, <1>2
<1>6. CASE RtbVfsCreate(c)
  BY <1>2, <1>3, <1>6 DEF RtbVfsCreate
<1>7. CASE RtbVfsMkdir(c)
  BY <1>2, <1>7 DEF RtbVfsMkdir
<1>8. CASE RtbVfsRmdir(c)
  BY <1>2, <1>8 DEF RtbVfsRmdir
<1>9. CASE RtbVfsUnlink(c)
  BY <1>2, <1>9 DEF RtbVfsUnlink
<1>10. CASE RtbVfsSymlink(c)
  BY <1>2, <1>10 DEF RtbVfsSymlink
<1>11. CASE RtbVfsLink(c)
  BY <1>2, <1>11 DEF RtbVfsLink
<1> QED
  BY <1>4, <1>5, <1>6, <1>7, <1>8, <1>9, <1>10, <1>11 DEF EnterHook

-----------------------------------------------------------------------------
(* Type correctness *)

LEMMA LogOfType ==
  ASSUME TypeOK, NEW c \in Callers
  PROVE  LogOf(c) \in Log
<1>1. call[c] \in Call
  BY DEF TypeOK
<1>2. LogType[call[c].op] \in LogTypes /\ "ERROR" \in LogTypes
  BY <1>1 DEF Call, LogTypes
<1> QED
  BY <1>1, <1>2 DEF LogOf, Log, Call

LEMMA PutFileType ==
  ASSUME TypeOK, NEW m \in Names, NEW f \in File
  PROVE  /\ DOMAIN PutFile(m, f) = DOMAIN disk \cup {m}
         /\ PutFile(m, f) \in [DOMAIN PutFile(m, f) -> File]
         /\ \A n \in DOMAIN disk \cup {m} :
              PutFile(m, f)[n] = IF n = m THEN f ELSE disk[n]
BY DEF TypeOK, PutFile

LEMMA EnterType ==
  ASSUME TypeOK, NEW c \in Callers, EnterHook(c)
  PROVE  TypeOK'
<1>1. CASE \E o \in AllOps, i \in Items : normal /\ Monitor(c, o, i)
  <2>1. PICK o \in AllOps, i \in Items : Monitor(c, o, i)
    BY <1>1
  <2>2. [op |-> o, item |-> i, num |-> NoNum, fseq |-> 0, ok |-> FALSE,
         preds |-> returned] \in Call
    BY NoCallType DEF Call, TypeOK
  <2> QED
    BY <2>1, <2>2 DEF Monitor, Enter, TypeOK, CallerPc, seqVars, queueVars, writerVars, cnfVars, histVars, msgVars
<1>2. CASE \E o \in AllOps : Bypass(c, o)
  BY <1>2 DEF Bypass, Enter, TypeOK, CallerPc, seqVars, queueVars, writerVars, cnfVars, histVars, msgVars
<1>3. CASE Enter(c, "write", "badpath") /\ UNCHANGED <<call, calls>>
  BY <1>3 DEF Enter, TypeOK, CallerPc, seqVars, queueVars, writerVars, cnfVars, histVars, msgVars
<1> QED
  BY <1>1, <1>2, <1>3, EnterCases

(* What a hook leaves behind when it returns. *)
LEMMA ReturnType ==
  ASSUME TypeOK, NEW c \in Callers, Return(c)
  PROVE  /\ pc' \in [Callers -> CallerPc]
         /\ call' \in [Callers -> Call]
         /\ \A d \in Callers : pc'[d] = "number" => call'[d].item \in Items
         /\ returned' \subseteq Names
<1>1. NoCall \in Call /\ call[c].num \in Names
  BY NoCallType DEF TypeOK, Call
<1>2. /\ pc' = [pc EXCEPT ![c] = "idle"]
      /\ call' = [call EXCEPT ![c] = NoCall]
      /\ returned' = returned \cup ({call[c].num} \ {NoNum})
  BY DEF Return
<1> QED
  BY <1>1, <1>2 DEF TypeOK, CallerPc

LEMMA HookStepType ==
  ASSUME TypeOK, NEW c \in Callers, HookStep(c)
  PROVE  TypeOK'
<1> USE DEF seqVars, queueVars, writerVars, cnfVars, histVars, msgVars
<1>0. call[c] \in Call /\ pc[c] \in CallerPc /\ call[c].num \in Names
  BY DEF TypeOK, Call
<1>1. CASE GetMonitorFileSeqNo(c)
  <2> DEFINE i == call[c].item
             s == SetOf[i]
  <2>1. i \in Items
    BY <1>1 DEF GetMonitorFileSeqNo, TypeOK
  <2>2. s \in Sets /\ setSeq[s] \in Nat /\ fileSeq[i] \in Nat
    BY <2>1, ConstantsAssumption DEF TypeOK
  <2>3. CASE i \in Orphans /\ UNCHANGED <<call, seqVars>>
    BY <1>1, <2>3 DEF GetMonitorFileSeqNo, TypeOK, CallerPc
  <2>4. CASE i \notin Orphans
    <3>1. WithNumber(call[c], <<s, setSeq[s]>>, fileSeq[i]) \in Call
      BY <1>0, <2>2 DEF WithNumber, Call, Names
    <3>2. /\ call' = [call EXCEPT ![c] = WithNumber(call[c], <<s, setSeq[s]>>, fileSeq[i])]
          /\ setSeq' = [setSeq EXCEPT ![s] = setSeq[s] + 1]
          /\ fileSeq' = [fileSeq EXCEPT ![i] = fileSeq[i] + 1]
          /\ pc' = [pc EXCEPT ![c] = "run"]
          /\ UNCHANGED <<calls, normal, queueVars, writerVars, module, histVars>>
      BY <1>1, <2>4 DEF GetMonitorFileSeqNo
    <3> QED
      <4>1. call' \in [Callers -> Call] /\ pc' \in [Callers -> CallerPc]
        BY <3>1, <3>2 DEF TypeOK, CallerPc
      <4>2. setSeq' \in [Sets -> Nat] /\ fileSeq' \in [Items -> Nat]
        <5> HIDE DEF s, i
        <5> QED
          BY <2>1, <2>2, <3>2 DEF TypeOK
      <4>3. \A d \in Callers : pc'[d] = "number" => call'[d].item \in Items
        BY <3>2 DEF TypeOK
      <4> QED
        BY <3>2, <4>1, <4>2, <4>3 DEF TypeOK
  <2> QED
    BY <1>1, <2>3, <2>4 DEF GetMonitorFileSeqNo
<1>2. CASE RunOriginal(c)
  BY <1>0, <1>2 DEF RunOriginal, WithResult, TypeOK, Call, CallerPc
<1>3. CASE RunUnlogged(c)
  BY <1>3 DEF RunUnlogged, TypeOK, CallerPc
<1>4. CASE BuildLog(c)
  BY <1>4 DEF BuildLog, TypeOK, CallerPc
<1>5. CASE BuildLogFails(c)
  <2>1. CASE Return(c)
    BY <1>0, <1>5, <2>1, ReturnType DEF BuildLogFails, TypeOK
  <2>2. CASE pc' = [pc EXCEPT ![c] = "latch"] /\ UNCHANGED <<call, returned>>
    BY <1>0, <1>5, <2>2 DEF BuildLogFails, TypeOK, CallerPc
  <2> QED
    BY <1>5, <2>1, <2>2 DEF BuildLogFails
<1>6. CASE LinkLog(c)
  <2>1. LogOf(c) \in Log
    BY LogOfType
  <2>2. queue' \in Seq(Log)
    BY <1>6, <2>1 DEF LinkLog, TypeOK
  <2> QED
    BY <1>6, <2>2 DEF LinkLog, TypeOK, CallerPc
<1>7. CASE Signal(c)
  BY <1>7, ReturnType DEF Signal, TypeOK
<1>8. CASE Latch(c)
  <2>1. <<"write", call[c].num>> \in {"write", "thread"} \X Names
    BY <1>0
  <2> QED
    BY <1>8, <2>1, ReturnType DEF Latch, Notify, TypeOK
<1> QED
  BY <1>1, <1>2, <1>3, <1>4, <1>5, <1>6, <1>7, <1>8 DEF HookStep

(* What a step of SaveConfig leaves alone. *)
LEMMA SaveLeaves ==
  ASSUME SaveAfterLog
  PROVE  /\ UNCHANGED <<pc, call, calls, normal, setSeq, fileSeq, queue, done, disk, module,
                       notified, dropped, lost, lostWrite, returned>>
         /\ wpc \in {"save", "saving"}
         /\ \/ wpc' = "saving" /\ cur' = cur
            \/ wpc' = "check" /\ cur' = NoLog
<1> USE DEF OthersUnchanged, WriterGoes, hookVars, seqVars, queueVars, msgVars, SaveEnds
<1>1. CASE BeginSave
  BY <1>1 DEF BeginSave
<1>2. CASE SaveUnopened
  BY <1>2 DEF SaveUnopened
<1>3. CASE EndSave
  BY <1>3 DEF EndSave
<1>4. CASE SaveCutShort
  BY <1>4 DEF SaveCutShort
<1>5. CASE \E s \in Sets : SaveSet(s)
  BY <1>5 DEF SaveSet
<1> QED
  BY <1>1, <1>2, <1>3, <1>4, <1>5 DEF SaveAfterLog

LEMMA SaveType ==
  ASSUME TypeOK, SaveAfterLog
  PROVE  TypeOK'
<1>1. /\ saved' \in [Sets -> Nat] /\ header' \in {"whole", "zeroed"}
      /\ left' \subseteq Sets /\ unsaved' \subseteq Names
  <2> USE DEF OthersUnchanged, WriterGoes, SaveEnds, TypeOK
  <2>1. CASE BeginSave
    BY <2>1 DEF BeginSave
  <2>2. CASE SaveUnopened
    BY <2>2 DEF SaveUnopened, Log
  <2>3. CASE EndSave
    BY <2>3 DEF EndSave
  <2>4. CASE SaveCutShort
    BY <2>4 DEF SaveCutShort, Log
  <2>5. CASE \E s \in Sets : SaveSet(s)
    BY <2>5 DEF SaveSet
  <2> QED
    BY <2>1, <2>2, <2>3, <2>4, <2>5 DEF SaveAfterLog
<1> QED
  BY <1>1, SaveLeaves DEF TypeOK, WriterPc

LEMMA WriterType ==
  ASSUME TypeOK, ThreadIoWrite
  PROVE  TypeOK'
<1> USE DEF OthersUnchanged, WriterGoes, hookVars, seqVars, queueVars, cnfVars, msgVars, WriterPc
<1>1. CASE WaitCompletion
  BY <1>1 DEF WaitCompletion, TypeOK
<1>2. CASE CheckQueue
  BY <1>2 DEF CheckQueue, TypeOK
<1>3. CASE TakeLog
  BY <1>3 DEF TakeLog, TypeOK
<1>4. CASE OpenLog
  <2> DEFINE f == [log |-> cur, whole |-> FALSE]
  <2>1. cur \in Log /\ cur.num \in Names /\ f \in File
    BY <1>4 DEF OpenLog, TypeOK, Log, File
  <2>2. /\ DOMAIN PutFile(cur.num, f) \subseteq Names
        /\ PutFile(cur.num, f) \in [DOMAIN PutFile(cur.num, f) -> File]
    <3> HIDE DEF f
    <3>1. /\ DOMAIN PutFile(cur.num, f) = DOMAIN disk \cup {cur.num}
          /\ PutFile(cur.num, f) \in [DOMAIN PutFile(cur.num, f) -> File]
      BY <2>1, PutFileType
    <3> QED
      BY <2>1, <3>1 DEF TypeOK
  <2>3. disk' = IF cur.num \in DOMAIN disk THEN disk ELSE PutFile(cur.num, f)
    BY <1>4 DEF OpenLog
  <2>4. DOMAIN disk' \subseteq Names /\ disk' \in [DOMAIN disk' -> File]
    BY <2>2, <2>3 DEF TypeOK
  <2> QED
    BY <1>4, <2>1, <2>4 DEF OpenLog, TypeOK
<1>5. CASE OpenLogFails
  <2>1. cur \in Log /\ cur.num \in Names
    BY <1>5 DEF OpenLogFails, TypeOK, Log
  <2> QED
    BY <1>5, <2>1 DEF OpenLogFails, TypeOK
<1>6. ASSUME NEW b \in BOOLEAN, wpc = "write",
             disk' = PutFile(cur.num, [log |-> cur, whole |-> b])
      PROVE  cur \in Log /\ DOMAIN disk' \subseteq Names /\ disk' \in [DOMAIN disk' -> File]
  <2> DEFINE f == [log |-> cur, whole |-> b]
  <2>1. cur \in Log /\ cur.num \in Names /\ f \in File
    BY <1>6 DEF TypeOK, Log, File
  <2>2. /\ DOMAIN PutFile(cur.num, f) \subseteq Names
        /\ PutFile(cur.num, f) \in [DOMAIN PutFile(cur.num, f) -> File]
    <3> HIDE DEF f
    <3>1. /\ DOMAIN PutFile(cur.num, f) = DOMAIN disk \cup {cur.num}
          /\ PutFile(cur.num, f) \in [DOMAIN PutFile(cur.num, f) -> File]
      BY <2>1, PutFileType
    <3> QED
      BY <2>1, <3>1 DEF TypeOK
  <2> QED
    BY <1>6, <2>1, <2>2
<1>7. CASE WriteLog
  BY <1>6, <1>7 DEF WriteLog, TypeOK
<1>8. CASE WriteLogShort
  BY <1>6, <1>8 DEF WriteLogShort, TypeOK
<1>9. CASE SaveAfterLog
  BY <1>9, SaveType
<1>10. CASE NotifyFailure
  <2>1. <<"thread", cur.num>> \in {"write", "thread"} \X Names
    BY <1>10 DEF NotifyFailure, TypeOK, Log
  <2> QED
    BY <1>10, <2>1 DEF NotifyFailure, Notify, TypeOK
<1>11. CASE CheckStop
  BY <1>11 DEF CheckStop, TypeOK
<1> QED
  BY <1>1, <1>2, <1>3, <1>4, <1>5, <1>7, <1>8, <1>9, <1>10, <1>11 DEF ThreadIoWrite

LEMMA InitType == Init => TypeOK
<1>1. pc = [c \in Callers |-> "idle"] /\ call = [c \in Callers |-> NoCall] =>
        /\ pc \in [Callers -> CallerPc]
        /\ call \in [Callers -> Call]
        /\ \A c \in Callers : pc[c] # "number"
  BY NoCallType DEF CallerPc
<1>2. disk = [m \in {} |-> NoLog] =>
        DOMAIN disk \subseteq Names /\ disk \in [DOMAIN disk -> File]
  OBVIOUS
<1> QED
  BY <1>1, <1>2 DEF Init, TypeOK, WriterPc

LEMMA NextType == TypeOK /\ [Next]_vars => TypeOK'
<1> SUFFICES ASSUME TypeOK, [Next]_vars PROVE TypeOK'
  OBVIOUS
<1>1. CASE \E c \in Callers : EnterHook(c) \/ HookStep(c)
  BY <1>1, EnterType, HookStepType
<1>2. CASE ThreadIoWrite
  BY <1>2, WriterType
<1>3. CASE ExitRtbackup
  BY <1>3 DEF ExitRtbackup, TypeOK, hookVars, seqVars, queueVars, writerVars, cnfVars, histVars, msgVars
<1>4. CASE UNCHANGED vars
  BY <1>4 DEF vars, TypeOK
<1> QED
  BY <1>1, <1>2, <1>3, <1>4 DEF Next

(* Every variable keeps its type; above all the completion's count never     *)
(* goes below zero and the thread holds a record exactly while it handles    *)
(* one.                                                                      *)
THEOREM TypeCorrect == Spec => []TypeOK
BY InitType, NextType, PTL DEF Spec

-----------------------------------------------------------------------------
(* The queue and the completion *)

(* What the steps of a hook do to the queue: only LinkLog touches it, and it *)
(* leaves the caller in front of its signal; a caller leaves that place only *)
(* by signalling.                                                            *)
LEMMA HookQueue ==
  ASSUME TypeOK, NEW c \in Callers, EnterHook(c) \/ HookStep(c)
  PROVE  /\ wpc' = wpc
         /\ \/ queue' = queue /\ (\A d \in Callers : pc[d] = "signal" => pc'[d] = "signal")
               /\ done' = done
            \/ queue' = queue /\ done' = done + 1
            \/ queue' # <<>> /\ pc'[c] = "signal"
<1> DEFINE Goal ==
      /\ wpc' = wpc
      /\ \/ queue' = queue /\ (\A d \in Callers : pc[d] = "signal" => pc'[d] = "signal")
            /\ done' = done
         \/ queue' = queue /\ done' = done + 1
         \/ queue' # <<>> /\ pc'[c] = "signal"
<1> USE DEF seqVars, queueVars, writerVars, cnfVars
<1>0. pc \in [Callers -> CallerPc]
  BY DEF TypeOK
<1>1. ASSUME NEW o, NEW to, Enter(c, o, to) PROVE Goal
  BY <1>0, <1>1 DEF Enter
<1>2. CASE EnterHook(c)
  BY <1>1, <1>2, EnterCases DEF Monitor, Bypass
<1>3. CASE GetMonitorFileSeqNo(c)
  BY <1>0, <1>3 DEF GetMonitorFileSeqNo
<1>4. CASE RunOriginal(c)
  BY <1>0, <1>4 DEF RunOriginal
<1>5. CASE RunUnlogged(c)
  BY <1>0, <1>5 DEF RunUnlogged
<1>6. CASE BuildLog(c)
  BY <1>0, <1>6 DEF BuildLog
<1>7. CASE BuildLogFails(c)
  BY <1>0, <1>7 DEF BuildLogFails, Return
<1>8. CASE LinkLog(c)
  <2>1. queue \in Seq(Log) /\ LogOf(c) \in Log
    BY LogOfType DEF TypeOK
  <2>2. Append(queue, LogOf(c)) # <<>>
    <3>1. Len(Append(queue, LogOf(c))) = Len(queue) + 1 /\ Len(queue) \in Nat
      BY <2>1
    <3>2. Len(<<>>) = 0
      OBVIOUS
    <3> HIDE DEF Goal
    <3> QED
      BY <3>1, <3>2
  <2> QED
    BY <1>0, <1>8, <2>2 DEF LinkLog
<1>9. CASE Signal(c)
  BY <1>9 DEF Signal
<1>10. CASE Latch(c)
  BY <1>0, <1>10 DEF Latch, Return
<1> QED
  BY <1>2, <1>3, <1>4, <1>5, <1>6, <1>7, <1>8, <1>9, <1>10 DEF HookStep

LEMMA WakeupStep ==
  ASSUME TypeOK, TakeFindsRecord, NoLostWakeup, [Next]_vars
  PROVE  TakeFindsRecord' /\ NoLostWakeup'
<1> USE DEF TakeFindsRecord, NoLostWakeup
<1>0. done \in Nat
  BY DEF TypeOK
<1>1. ASSUME NEW c \in Callers, EnterHook(c) \/ HookStep(c)
      PROVE  TakeFindsRecord' /\ NoLostWakeup'
  BY <1>0, <1>1, HookQueue
<1>2. CASE ThreadIoWrite
  <2> USE DEF OthersUnchanged, WriterGoes, hookVars, queueVars, cnfVars, msgVars
  <2>1. CASE WaitCompletion
    BY <2>1 DEF WaitCompletion
  <2>2. CASE CheckQueue
    BY <2>2 DEF CheckQueue
  <2>3. CASE TakeLog
    BY <2>3 DEF TakeLog
  <2>4. CASE OpenLog \/ OpenLogFails \/ WriteLog \/ WriteLogShort \/ SaveAfterLog \/ NotifyFailure
    BY <2>4, SaveLeaves DEF OpenLog, OpenLogFails, WriteLog, WriteLogShort, NotifyFailure
  <2>5. CASE CheckStop
    BY <2>5 DEF CheckStop
  <2> QED
    BY <1>2, <2>1, <2>2, <2>3, <2>4, <2>5 DEF ThreadIoWrite
<1>3. CASE ExitRtbackup
  BY <1>3 DEF ExitRtbackup, hookVars, queueVars, writerVars, cnfVars
<1>4. CASE UNCHANGED vars
  BY <1>4 DEF vars
<1> QED
  BY <1>1, <1>2, <1>3, <1>4 DEF Next

(* The thread takes the head of the list without the lock and without a      *)
(* second test, and is right to: nobody else removes records. And it never   *)
(* falls asleep over a queued record that nobody will signal, although the   *)
(* list and the completion are updated in two steps.                         *)
THEOREM QueueNeverStalls == Spec => [](TakeFindsRecord /\ NoLostWakeup)
<1>1. Init => TakeFindsRecord /\ NoLostWakeup
  BY DEF Init, TakeFindsRecord, NoLostWakeup
<1> QED
  BY <1>1, WakeupStep, TypeCorrect, PTL DEF Spec

-----------------------------------------------------------------------------
(* The numbers. The parts of NumbersUnique, and what makes them inductive:   *)
(* the file the thread writes to has been created, and a hook that has not   *)
(* drawn a number carries the empty one.                                     *)
CallersDistinct ==
  \A c, d \in Callers :
    Holds(c) /\ Holds(d) /\ c # d /\ call[c].num # NoNum => call[c].num # call[d].num
QueueDistinct ==
  \A j, k \in DOMAIN queue :
    j # k /\ queue[j].num # NoNum => queue[j].num # queue[k].num
PlacesDisjoint ==
  /\ Held \cap (Queued \cup InHand \cup Settled) \subseteq {NoNum}
  /\ Queued \cap (InHand \cup Settled) \subseteq {NoNum}
  /\ InHand \cap Settled \subseteq {NoNum}
  /\ DOMAIN disk \cap lost \subseteq {NoNum}
FileCreated == wpc = "write" => cur.num \in DOMAIN disk
NotDrawnYet == \A c \in Callers : pc[c] = "number" => call[c].num = NoNum

NumbersInv ==
  /\ NumbersAccounted
  /\ CallersDistinct
  /\ QueueDistinct
  /\ PlacesDisjoint
  /\ FileCreated
  /\ NotDrawnYet

LEMMA UniqueParts == NumbersUnique <=> CallersDistinct /\ QueueDistinct /\ PlacesDisjoint
BY DEF NumbersUnique, CallersDistinct, QueueDistinct, PlacesDisjoint

(* A step in which every caller goes on holding what it held. *)
LEMMA HeldKept ==
  ASSUME \A d \in Callers : /\ Holds(d)' <=> Holds(d)
                            /\ Holds(d) => call'[d].num = call[d].num
  PROVE  Held' = Held /\ (CallersDistinct => CallersDistinct')
<1>1. Held' = Held
  BY DEF Held, Holds
<1>2. CallersDistinct => CallersDistinct'
  BY DEF CallersDistinct, Holds, NoNum
<1> QED
  BY <1>1, <1>2

(* One caller gives up its number. *)
LEMMA HeldLess ==
  ASSUME NEW c \in Callers, Holds(c), ~Holds(c)', CallersDistinct,
         \A d \in Callers \ {c} : /\ Holds(d)' <=> Holds(d)
                                  /\ Holds(d) => call'[d].num = call[d].num
  PROVE  /\ CallersDistinct'
         /\ call[c].num \in Held
         /\ Held' \subseteq Held
         /\ Held \subseteq Held' \cup {call[c].num}
         /\ call[c].num \in Held' => call[c].num = NoNum
<1>1. CallersDistinct'
  BY DEF CallersDistinct, Holds, NoNum
<1>2. call[c].num \in Held /\ Held' \subseteq Held
  BY DEF Held, Holds
<1>3. Held \subseteq Held' \cup {call[c].num}
  BY DEF Held, Holds
<1>4. call[c].num \in Held' => call[c].num = NoNum
  BY DEF Held, CallersDistinct, Holds
<1> QED
  BY <1>1, <1>2, <1>3, <1>4

(* One caller comes to hold a number. *)
LEMMA HeldMore ==
  ASSUME NEW c \in Callers, ~Holds(c), Holds(c)', CallersDistinct,
         \A d \in Callers \ {c} : /\ Holds(d)' <=> Holds(d)
                                  /\ Holds(d) => call'[d].num = call[d].num,
         call'[c].num = NoNum \/ call'[c].num \notin Held
  PROVE  CallersDistinct' /\ Held' = Held \cup {call'[c].num}
<1>1. Held' = Held \cup {call'[c].num}
  BY DEF Held, Holds
<1>2. \A d \in Callers \ {c} :
        Holds(d)' /\ call'[c].num # NoNum => call'[c].num # call'[d].num
  BY DEF Held, Holds
<1>3. NoNum' = NoNum
  BY DEF NoNum
<1>4. CallersDistinct'
  BY <1>2, <1>3 DEF CallersDistinct, Holds
<1> QED
  BY <1>1, <1>4

LEMMA QueuedAppended ==
  ASSUME queue \in Seq(Log), NEW r \in Log, queue' = Append(queue, r), QueueDistinct,
         r.num = NoNum \/ r.num \notin Queued
  PROVE  QueueDistinct' /\ Queued' = Queued \cup {r.num}
<1>1. /\ DOMAIN queue = 1 .. Len(queue) /\ DOMAIN queue' = 1 .. (Len(queue) + 1)
      /\ Len(queue) \in Nat
      /\ \A k \in DOMAIN queue : queue'[k] = queue[k]
      /\ queue'[Len(queue) + 1] = r
  OBVIOUS
<1>2. Queued' = Queued \cup {r.num}
  BY <1>1 DEF Queued
<1>3. QueueDistinct'
  BY <1>1 DEF QueueDistinct, Queued, NoNum
<1> QED
  BY <1>2, <1>3

LEMMA QueuedTaken ==
  ASSUME queue \in Seq(Log), queue # <<>>, queue' = Tail(queue), QueueDistinct
  PROVE  /\ QueueDistinct'
         /\ Head(queue).num \in Queued
         /\ Queued' \subseteq Queued
         /\ Queued \subseteq Queued' \cup {Head(queue).num}
         /\ Head(queue).num \in Queued' => Head(queue).num = NoNum
<1>1. /\ DOMAIN queue = 1 .. Len(queue) /\ DOMAIN queue' = 1 .. (Len(queue) - 1)
      /\ Len(queue) \in Nat \ {0}
      /\ \A k \in DOMAIN queue' : queue'[k] = queue[k + 1]
      /\ Head(queue) = queue[1]
  OBVIOUS
<1>2. QueueDistinct'
  BY <1>1 DEF QueueDistinct, NoNum
<1>3. Head(queue).num \in Queued /\ Queued' \subseteq Queued
  BY <1>1 DEF Queued
<1>4. Queued \subseteq Queued' \cup {Head(queue).num}
  <2> SUFFICES ASSUME NEW k \in DOMAIN queue PROVE queue[k].num \in Queued' \cup {Head(queue).num}
    BY DEF Queued
  <2>1. CASE k = 1
    BY <1>1, <2>1
  <2>2. CASE k # 1
    <3>1. k - 1 \in DOMAIN queue' /\ queue'[k - 1] = queue[k]
      BY <1>1, <2>2
    <3> QED
      BY <3>1 DEF Queued
  <2> QED
    BY <2>1, <2>2
<1>5. Head(queue).num \in Queued' => Head(queue).num = NoNum
  BY <1>1 DEF Queued, QueueDistinct
<1> QED
  BY <1>2, <1>3, <1>4, <1>5

(* The number a set issues next has never been issued. *)
LEMMA IssuedNext ==
  ASSUME setSeq \in [Sets -> Nat], NEW s \in Sets, setSeq' = [setSeq EXCEPT ![s] = @ + 1]
  PROVE  /\ <<s, setSeq[s]>> \notin Issued
         /\ <<s, setSeq[s]>> # NoNum
         /\ Issued' = Issued \cup {<<s, setSeq[s]>>}
<1>1. <<s, setSeq[s]>> # NoNum
  BY ConstantsAssumption DEF NoNum
<1>2. <<s, setSeq[s]>> \notin Issued
  BY DEF Issued
<1>3. \A t \in Sets : 0 .. (setSeq'[t] - 1) =
        IF t = s THEN (0 .. (setSeq[s] - 1)) \cup {setSeq[s]} ELSE 0 .. (setSeq[t] - 1)
  <2> TAKE t \in Sets
  <2>1. setSeq[t] \in Nat /\ setSeq'[t] = IF t = s THEN setSeq[t] + 1 ELSE setSeq[t]
    OBVIOUS
  <2>2. CASE t = s
    <3>1. 0 .. (setSeq[t] + 1 - 1) = (0 .. (setSeq[t] - 1)) \cup {setSeq[t]}
      BY <2>1
    <3> QED
      BY <2>1, <2>2, <3>1
  <2>3. CASE t # s
    BY <2>1, <2>3
  <2> QED
    BY <2>2, <2>3
<1>4. Issued' = Issued \cup {<<s, setSeq[s]>>}
  BY <1>3 DEF Issued
<1> QED
  BY <1>1, <1>2, <1>4

(* Steps that move no number: they keep what the callers hold, the queue,    *)
(* the outcomes and the counters.                                            *)
LEMMA NumbersKept ==
  ASSUME NumbersInv, Held' = Held, CallersDistinct', FileCreated', NotDrawnYet',
         queue' = queue, InHand' = InHand, DOMAIN disk' = DOMAIN disk, lost' = lost,
         setSeq' = setSeq
  PROVE  NumbersInv'
<1>1. /\ Queued' = Queued /\ Settled' = Settled /\ Issued' = Issued
      /\ QueueDistinct' /\ NoNum' = NoNum
  BY DEF Queued, Settled, Issued, QueueDistinct, NumbersInv, NoNum
<1>2. NumbersAccounted'
  BY <1>1 DEF NumbersInv, NumbersAccounted
<1>3. PlacesDisjoint'
  BY <1>1 DEF NumbersInv, PlacesDisjoint
<1> QED
  BY <1>1, <1>2, <1>3 DEF NumbersInv

LEMMA HookNumbers ==
  ASSUME TypeOK, NumbersInv, NEW c \in Callers, EnterHook(c) \/ HookStep(c)
  PROVE  NumbersInv'
<1> USE DEF seqVars, queueVars, writerVars, cnfVars, histVars, msgVars
<1> DEFINE HoldPc == {"run", "log", "link"}
           m == call[c].num
<1>0. /\ pc \in [Callers -> CallerPc] /\ call \in [Callers -> Call]
      /\ queue \in Seq(Log) /\ setSeq \in [Sets -> Nat]
  BY DEF TypeOK
<1>1. ASSUME pc[c] \notin HoldPc, pc'[c] \notin HoldPc,
             \A d \in Callers \ {c} : pc'[d] = pc[d] /\ call'[d] = call[d],
             pc'[c] = "number" => call'[c].num = NoNum,
             UNCHANGED <<queue, wpc, cur, disk, lost, setSeq>>
      PROVE  NumbersInv'
  <2>1. Held' = Held /\ CallersDistinct'
    BY <1>1, HeldKept DEF Holds, NumbersInv
  <2>2. FileCreated' /\ NotDrawnYet' /\ InHand' = InHand
    BY <1>1 DEF FileCreated, NotDrawnYet, NumbersInv, InHand, NoNum
  <2> QED
    BY <1>1, <2>1, <2>2, NumbersKept
<1>2. ASSUME NEW o, NEW to \in {"number", "plain", "badpath"}, Enter(c, o, to),
             \A d \in Callers \ {c} : call'[d] = call[d],
             to = "number" => call'[c].num = NoNum
      PROVE  NumbersInv'
  BY <1>0, <1>1, <1>2 DEF Enter
<1>3. CASE EnterHook(c)
  <2>1. CASE \E o \in AllOps, i \in Items : normal /\ Monitor(c, o, i)
    BY <1>0, <1>2, <2>1 DEF Monitor
  <2>2. CASE \E o \in AllOps : Bypass(c, o)
    BY <1>0, <1>2, <2>2 DEF Bypass
  <2>3. CASE Enter(c, "write", "badpath") /\ UNCHANGED <<call, calls>>
    BY <1>0, <1>2, <2>3
  <2> QED
    BY <1>3, <2>1, <2>2, <2>3, EnterCases
<1>4. CASE RunUnlogged(c) \/ Signal(c) \/ Latch(c)
  BY <1>0, <1>1, <1>4 DEF RunUnlogged, Signal, Latch, Return
<1>5. CASE RunOriginal(c) \/ BuildLog(c)
  <2>1. /\ \A d \in Callers \ {c} : pc'[d] = pc[d] /\ call'[d] = call[d]
        /\ pc[c] \in HoldPc /\ pc'[c] \in HoldPc /\ call'[c].num = call[c].num
        /\ UNCHANGED <<queue, wpc, cur, disk, lost, setSeq>>
    BY <1>0, <1>5 DEF RunOriginal, BuildLog, WithResult
  <2>2. Held' = Held /\ CallersDistinct'
    BY <2>1, HeldKept DEF Holds, NumbersInv
  <2>3. FileCreated' /\ NotDrawnYet' /\ InHand' = InHand
    BY <2>1 DEF FileCreated, NotDrawnYet, NumbersInv, InHand, NoNum
  <2> QED
    BY <2>1, <2>2, <2>3, NumbersKept
<1>6. CASE GetMonitorFileSeqNo(c)
  <2> DEFINE i == call[c].item
             s == SetOf[i]
             n == call'[c].num
  <2>1. i \in Items /\ s \in Sets
    BY <1>6, ConstantsAssumption DEF GetMonitorFileSeqNo, TypeOK
  <2>2. /\ \A d \in Callers \ {c} : pc'[d] = pc[d] /\ call'[d] = call[d]
        /\ pc[c] = "number" /\ pc'[c] = "run"
        /\ UNCHANGED <<queue, wpc, cur, disk, lost>>
    BY <1>0, <1>6 DEF GetMonitorFileSeqNo
  <2>3. FileCreated' /\ NotDrawnYet' /\ InHand' = InHand /\ Queued' = Queued
        /\ Settled' = Settled /\ NoNum' = NoNum /\ QueueDistinct'
    BY <2>2 DEF FileCreated, NotDrawnYet, NumbersInv, InHand, NoNum, Queued, Settled, QueueDistinct
  <2>4. CASE i \in Orphans /\ UNCHANGED <<call, seqVars>>
    <3>1. n = NoNum
      BY <2>2, <2>4 DEF NumbersInv, NotDrawnYet
    <3>2. CallersDistinct' /\ Held' = Held \cup {NoNum}
      BY <2>2, <3>1, HeldMore DEF Holds, NumbersInv
    <3>3. Issued' = Issued
      BY <2>4 DEF Issued
    <3>4. NumbersAccounted'
      BY <2>3, <3>2, <3>3 DEF NumbersInv, NumbersAccounted
    <3>5. PlacesDisjoint'
      BY <2>2, <2>3, <3>2 DEF NumbersInv, PlacesDisjoint
    <3> QED
      BY <2>3, <3>2, <3>4, <3>5 DEF NumbersInv
  <2>5. CASE /\ call' = [call EXCEPT ![c] = WithNumber(call[c], <<s, setSeq[s]>>, fileSeq[i])]
             /\ setSeq' = [setSeq EXCEPT ![s] = @ + 1]
    <3>1. n = <<s, setSeq[s]>>
      BY <1>0, <2>5 DEF WithNumber
    <3>2. n \notin Issued /\ n # NoNum /\ Issued' = Issued \cup {n}
      BY <1>0, <2>1, <2>5, <3>1, IssuedNext
    <3>3. n \notin Held \cup Queued \cup InHand \cup Settled
      BY <3>2 DEF NumbersInv, NumbersAccounted
    <3>4. CallersDistinct' /\ Held' = Held \cup {n}
      BY <2>2, <3>3, HeldMore DEF Holds, NumbersInv
    <3>5. NumbersAccounted'
      BY <2>3, <3>2, <3>4 DEF NumbersInv, NumbersAccounted
    <3>6. PlacesDisjoint'
      BY <2>2, <2>3, <3>3, <3>4 DEF NumbersInv, PlacesDisjoint
    <3> QED
      BY <2>3, <3>4, <3>5, <3>6 DEF NumbersInv
  <2> QED
    BY <1>6, <2>4, <2>5 DEF GetMonitorFileSeqNo
<1>7. CASE BuildLogFails(c)
  <2>1. /\ \A d \in Callers \ {c} : pc'[d] = pc[d] /\ call'[d] = call[d]
        /\ pc[c] = "log" /\ pc'[c] \in {"latch", "idle"}
        /\ lost' = lost \cup {m}
        /\ UNCHANGED <<queue, wpc, cur, disk, setSeq>>
    BY <1>0, <1>7 DEF BuildLogFails, Return
  <2>2. FileCreated' /\ NotDrawnYet' /\ InHand' = InHand /\ Queued' = Queued
        /\ Settled' = Settled \cup {m} /\ NoNum' = NoNum /\ QueueDistinct' /\ Issued' = Issued
    BY <2>1 DEF FileCreated, NotDrawnYet, NumbersInv, InHand, NoNum, Queued, Settled,
                QueueDistinct, Issued
  <2>3. /\ CallersDistinct' /\ m \in Held /\ Held' \subseteq Held
        /\ Held \subseteq Held' \cup {m} /\ (m \in Held' => m = NoNum)
    BY <2>1, HeldLess DEF Holds, NumbersInv
  <2>4. NumbersAccounted'
    BY <2>2, <2>3 DEF NumbersInv, NumbersAccounted
  <2>5. PlacesDisjoint'
    BY <2>1, <2>2, <2>3 DEF NumbersInv, PlacesDisjoint, Settled
  <2> QED
    BY <2>2, <2>3, <2>4, <2>5 DEF NumbersInv
<1>8. CASE LinkLog(c)
  <2>1. /\ \A d \in Callers \ {c} : pc'[d] = pc[d] /\ call'[d] = call[d]
        /\ pc[c] = "link" /\ pc'[c] = "signal"
        /\ queue' = Append(queue, LogOf(c))
        /\ UNCHANGED <<lost, wpc, cur, disk, setSeq>>
    BY <1>0, <1>8 DEF LinkLog
  <2>2. /\ CallersDistinct' /\ m \in Held /\ Held' \subseteq Held
        /\ Held \subseteq Held' \cup {m} /\ (m \in Held' => m = NoNum)
    BY <2>1, HeldLess DEF Holds, NumbersInv
  <2>3. LogOf(c) \in Log /\ LogOf(c).num = m
    BY LogOfType DEF LogOf
  <2>4. m = NoNum \/ m \notin Queued
    BY <2>2 DEF NumbersInv, PlacesDisjoint
  <2>5. QueueDistinct' /\ Queued' = Queued \cup {m}
    BY <1>0, <2>1, <2>3, <2>4, QueuedAppended DEF NumbersInv
  <2>6. FileCreated' /\ NotDrawnYet' /\ InHand' = InHand /\ Settled' = Settled
        /\ NoNum' = NoNum /\ Issued' = Issued
    BY <2>1 DEF FileCreated, NotDrawnYet, NumbersInv, InHand, NoNum, Settled, Issued
  <2>7. NumbersAccounted'
    BY <2>2, <2>5, <2>6 DEF NumbersInv, NumbersAccounted
  <2>8. PlacesDisjoint'
    BY <2>1, <2>2, <2>5, <2>6 DEF NumbersInv, PlacesDisjoint
  <2> QED
    BY <2>2, <2>5, <2>6, <2>7, <2>8 DEF NumbersInv
<1> QED
  BY <1>3, <1>4, <1>5, <1>6, <1>7, <1>8 DEF HookStep

LEMMA WriterNumbers ==
  ASSUME TypeOK, NumbersInv, ThreadIoWrite
  PROVE  NumbersInv'
<1> USE DEF OthersUnchanged, WriterGoes, hookVars, seqVars, queueVars, cnfVars, msgVars
<1>1. /\ Held' = Held /\ CallersDistinct' /\ NotDrawnYet' /\ Issued' = Issued
      /\ NoNum' = NoNum /\ setSeq' = setSeq
  <2>1. UNCHANGED <<pc, call, setSeq>>
    BY SaveLeaves DEF ThreadIoWrite, WaitCompletion, CheckQueue, TakeLog, OpenLog, OpenLogFails,
                      WriteLog, WriteLogShort, NotifyFailure, CheckStop
  <2>2. Held' = Held /\ CallersDistinct'
    BY <2>1, HeldKept DEF Holds, NumbersInv
  <2> QED
    BY <2>1, <2>2 DEF NotDrawnYet, NumbersInv, Issued, NoNum
<1>2. ASSUME wpc \notin {"open", "write"}, wpc' \notin {"open", "write"},
             UNCHANGED <<queue, disk, lost>>
      PROVE  NumbersInv'
  BY <1>1, <1>2, NumbersKept DEF InHand, FileCreated
<1>3. CASE WaitCompletion \/ CheckQueue \/ SaveAfterLog \/ NotifyFailure \/ CheckStop
  BY <1>2, <1>3, SaveLeaves DEF WaitCompletion, CheckQueue, NotifyFailure, CheckStop
<1>4. ASSUME wpc = "write", wpc' \in {"save", "notify"}, UNCHANGED <<queue, lost, cur>>,
             NEW f, disk' = PutFile(cur.num, f)
      PROVE  NumbersInv'
  <2>1. DOMAIN disk' = DOMAIN disk \cup {cur.num} /\ cur.num \in DOMAIN disk
    BY <1>4 DEF PutFile, NumbersInv, FileCreated
  <2> QED
    BY <1>1, <1>4, <2>1, NumbersKept DEF InHand, FileCreated
<1>5. CASE WriteLog
  BY <1>4, <1>5 DEF WriteLog
<1>6. CASE WriteLogShort
  BY <1>4, <1>6 DEF WriteLogShort
<1>7. CASE TakeLog
  <2> DEFINE m == Head(queue).num
  <2>1. /\ QueueDistinct' /\ m \in Queued /\ Queued' \subseteq Queued
        /\ Queued \subseteq Queued' \cup {m} /\ (m \in Queued' => m = NoNum)
    BY <1>7, QueuedTaken DEF TakeLog, TypeOK, NumbersInv
  <2>2. InHand = {} /\ InHand' = {m} /\ Settled' = Settled /\ FileCreated'
        /\ UNCHANGED <<disk, lost>>
    BY <1>7 DEF TakeLog, InHand, Settled, FileCreated
  <2>3. NumbersAccounted'
    BY <1>1, <2>1, <2>2 DEF NumbersInv, NumbersAccounted
  <2>4. PlacesDisjoint'
    BY <1>1, <2>1, <2>2 DEF NumbersInv, PlacesDisjoint
  <2> QED
    BY <1>1, <2>1, <2>2, <2>3, <2>4 DEF NumbersInv
<1>8. ASSUME wpc = "open", wpc' # "open", queue' = queue, FileCreated',
             \/ DOMAIN disk' = DOMAIN disk \cup {cur.num} /\ lost' = lost
             \/ DOMAIN disk' = DOMAIN disk /\ lost' = lost \cup {cur.num}
      PROVE  NumbersInv'
  <2> DEFINE m == cur.num
  <2>1. InHand = {m} /\ InHand' = {} /\ Settled' = Settled \cup {m}
    BY <1>8 DEF InHand, Settled
  <2>2. Queued' = Queued /\ QueueDistinct'
    BY <1>8 DEF Queued, QueueDistinct, NumbersInv, NoNum
  <2>3. NumbersAccounted'
    BY <1>1, <2>1, <2>2 DEF NumbersInv, NumbersAccounted
  <2>4. PlacesDisjoint'
    BY <1>1, <1>8, <2>1, <2>2 DEF NumbersInv, PlacesDisjoint, Settled
  <2> QED
    BY <1>1, <1>8, <2>2, <2>3, <2>4 DEF NumbersInv
<1>9. CASE OpenLog
  <2>1. DOMAIN disk' = DOMAIN disk \cup {cur.num} /\ FileCreated'
    BY <1>9 DEF OpenLog, PutFile, FileCreated
  <2> QED
    BY <1>8, <1>9, <2>1 DEF OpenLog
<1>10. CASE OpenLogFails
  BY <1>8, <1>10 DEF OpenLogFails, FileCreated
<1> QED
  BY <1>3, <1>5, <1>6, <1>7, <1>9, <1>10 DEF ThreadIoWrite

LEMMA NumbersInit == Init => NumbersInv
<1> SUFFICES ASSUME Init PROVE NumbersInv
  OBVIOUS
<1>1. Held = {} /\ CallersDistinct /\ NotDrawnYet
  BY DEF Init, Held, Holds, CallersDistinct, NotDrawnYet
<1>2. Queued = {} /\ QueueDistinct /\ InHand = {} /\ FileCreated
  BY DEF Init, Queued, QueueDistinct, InHand, FileCreated
<1>3. Settled = {} /\ Issued = {}
  BY DEF Init, Settled, Issued
<1> QED
  BY <1>1, <1>2, <1>3 DEF NumbersInv, NumbersAccounted, PlacesDisjoint, Init

LEMMA NumbersStep == TypeOK /\ NumbersInv /\ [Next]_vars => NumbersInv'
<1> SUFFICES ASSUME TypeOK, NumbersInv, [Next]_vars PROVE NumbersInv'
  OBVIOUS
<1>1. CASE ExitRtbackup \/ UNCHANGED vars
  <2>1. UNCHANGED <<pc, call, queue, wpc, cur, disk, lost, setSeq>>
    BY <1>1 DEF ExitRtbackup, vars, hookVars, seqVars, queueVars, writerVars, cnfVars, histVars, msgVars
  <2>2. Held' = Held /\ CallersDistinct'
    BY <2>1, HeldKept DEF Holds, NumbersInv
  <2>3. FileCreated' /\ NotDrawnYet' /\ InHand' = InHand
    BY <2>1 DEF FileCreated, NotDrawnYet, NumbersInv, InHand, NoNum
  <2> QED
    BY <2>1, <2>2, <2>3, NumbersKept
<1> QED
  BY <1>1, HookNumbers, WriterNumbers DEF Next

(* Every number a set has issued is in one place, with a call, in the queue, *)
(* with the thread, in a log file or among the failures, and in one only: no *)
(* operation loses its number to another, none is issued twice, and no log   *)
(* file is ever taken up again by a later record.                            *)
THEOREM NumbersConserved == Spec => [](NumbersAccounted /\ NumbersUnique)
<1>1. NumbersInv => NumbersAccounted /\ NumbersUnique
  BY UniqueParts DEF NumbersInv
<1> QED
  BY <1>1, NumbersInit, NumbersStep, TypeCorrect, PTL DEF Spec

=============================================================================
