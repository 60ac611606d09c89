---------------------------- MODULE PipelineProofs ----------------------------
(***************************************************************************)
(* What the logging pipeline promises about the order and the fate of the     *)
(* logs, proved from the numbers of IoLogProofs for any number of callers,    *)
(* sets and items, any set of failures and any bound on the calls.           *)
(***************************************************************************)
EXTENDS IoLogProofs

(* A number that has left its hook: its record is queued, with the thread, on *)
(* disk, or given up.                                                        *)
PastHook == Queued \cup InHand \cup Settled

(* Whose number is where when a hook returns. A number lost by rtb_vfs_write  *)
(* is still with its hook, which turns normal running off before it returns.  *)
CallsInv ==
  /\ \A c \in Callers :
       /\ pc[c] \in {"idle", "plain", "badpath", "number"} => call[c].num = NoNum
       /\ pc[c] = "signal" => call[c].num = NoNum \/ call[c].num \in PastHook \ lostWrite
       /\ pc[c] = "latch" => call[c].num = NoNum \/ call[c].num \in lostWrite
  /\ lostWrite \subseteq lost
  /\ returned \subseteq PastHook /\ NoNum \notin returned
  /\ normal => returned \cap lostWrite = {}
  /\ \A m \in returned \cap lostWrite : <<"write", m>> \in Attempted

(* The calls a record comes after are never later on the list than itself,    *)
(* and none of them is a write whose record was lost.                        *)
Clean(preds) == preds \cap lostWrite \subseteq {NoNum}

CallPredsInv == \A c \in Callers : call[c].preds \ {NoNum} \subseteq PastHook /\ Clean(call[c].preds)

Before(k) == {queue[j].num : j \in 1..(k - 1)}
QueuePredsInv ==
  \A k \in DOMAIN queue :
    /\ queue[k].preds \ {NoNum} \subseteq Settled \cup InHand \cup Before(k)
    /\ Clean(queue[k].preds)

HasLog == wpc \in {"open", "write", "save", "saving", "notify"}
DiskPredsInv ==
  /\ HasLog => cur.preds \ {NoNum} \subseteq Settled /\ Clean(cur.preds)
  /\ \A m \in DOMAIN disk :
       disk[m].log.preds \ {NoNum} \subseteq Settled /\ Clean(disk[m].log.preds)

PipelineInv == CallsInv /\ CallPredsInv /\ QueuePredsInv /\ DiskPredsInv

LEMMA PipelineInit == Init => PipelineInv
BY DEF Init, PipelineInv, CallsInv, CallPredsInv, QueuePredsInv, DiskPredsInv, NoCall, HasLog, Clean

-----------------------------------------------------------------------------
(* Steps of the hooks *)

LEMMA LostIsSettled ==
  ASSUME NumbersInv, CallsInv, NEW c \in Callers, Holds(c), call[c].num # NoNum
  PROVE  call[c].num \notin PastHook /\ call[c].num \notin returned /\ call[c].num \notin lostWrite
<1>1. call[c].num \in Held
  BY DEF Held
<1>2. call[c].num \notin PastHook
  BY <1>1 DEF NumbersInv, PlacesDisjoint, PastHook
<1>. QED
  BY <1>2 DEF CallsInv, PastHook, Settled

(* What every step of a hook leaves alone. *)
Around(c) ==
  /\ \A d \in Callers \ {c} : pc'[d] = pc[d] /\ call'[d] = call[d]
  /\ UNCHANGED <<wpc, cur, disk>>

(* A step in which no number changes its place. *)
LEMMA QuietStep ==
  ASSUME PipelineInv, NEW c \in Callers, Around(c),
         UNCHANGED <<queue, lost, lostWrite, returned, notified, dropped, normal>>,
         pc'[c] # "signal",
         pc'[c] \in {"idle", "plain", "badpath", "number", "latch"} => call'[c].num = NoNum,
         \/ call'[c].preds = call[c].preds
         \/ call'[c].preds = returned /\ normal
  PROVE  PipelineInv'
<1>1. /\ PastHook' = PastHook /\ Settled' = Settled /\ InHand' = InHand /\ NoNum' = NoNum
      /\ Attempted' = Attempted
      /\ \A k : Before(k)' = Before(k)
  BY DEF PastHook, Queued, InHand, Settled, NoNum, Around, Before, Attempted
<1>2. CallsInv'
  BY <1>1 DEF PipelineInv, CallsInv, Around
<1>3. CallPredsInv'
  BY <1>1 DEF PipelineInv, CallsInv, CallPredsInv, Clean, Around
<1>4. QueuePredsInv'
  BY <1>1 DEF PipelineInv, QueuePredsInv, Clean
<1>5. DiskPredsInv'
  BY <1>1 DEF PipelineInv, DiskPredsInv, Clean, HasLog, Around
<1>. QED
  BY <1>2, <1>3, <1>4, <1>5 DEF PipelineInv

(* A hook returns: its number, if it has one, has left it. *)
LEMMA ReturnStep ==
  ASSUME PipelineInv, NEW c \in Callers, Around(c), pc'[c] = "idle", call'[c] = NoCall,
         returned' = returned \cup ({call[c].num} \ {NoNum}),
         UNCHANGED <<queue, lostWrite>>, lost \subseteq lost',
         call[c].num # NoNum => call[c].num \in PastHook \/ call[c].num \in lost',
         Attempted \subseteq Attempted', normal' => normal,
         call[c].num \in lostWrite /\ call[c].num # NoNum =>
           ~normal' /\ <<"write", call[c].num>> \in Attempted'
  PROVE  PipelineInv'
<1>1. /\ InHand' = InHand /\ Queued' = Queued /\ NoNum' = NoNum
      /\ \A k : Before(k)' = Before(k)
  BY DEF Queued, InHand, NoNum, Around, Before
<1>2. PastHook \subseteq PastHook' /\ Settled \subseteq Settled' /\ lost' \subseteq PastHook'
  BY <1>1 DEF PastHook, Settled, Around
<1>3. CallsInv'
  <2>1. NoCall.num = NoNum
    BY DEF NoCall
  <2>2. lostWrite' \subseteq lost' /\ returned' \subseteq PastHook' /\ NoNum' \notin returned'
    BY <1>1, <1>2 DEF PipelineInv, CallsInv
  <2>3. /\ normal' => returned' \cap lostWrite' = {}
        /\ \A m \in returned' \cap lostWrite' : <<"write", m>> \in Attempted'
    BY DEF PipelineInv, CallsInv
  <2>4. \A d \in Callers :
       /\ pc'[d] \in {"idle", "plain", "badpath", "number"} => call'[d].num = NoNum
       /\ pc'[d] = "signal" => call'[d].num = NoNum \/ call'[d].num \in PastHook' \ lostWrite'
       /\ pc'[d] = "latch" => call'[d].num = NoNum \/ call'[d].num \in lostWrite'
    BY <1>2, <2>1 DEF PipelineInv, CallsInv, Around
  <2>. QED
    BY <1>1, <2>2, <2>3, <2>4 DEF CallsInv
<1>4. CallPredsInv'
  <2>1. NoCall.preds = {}
    BY DEF NoCall
  <2>. QED
    BY <1>1, <1>2, <2>1 DEF PipelineInv, CallPredsInv, Clean, Around
<1>5. QueuePredsInv'
  BY <1>1, <1>2 DEF PipelineInv, QueuePredsInv, Clean
<1>6. DiskPredsInv'
  BY <1>1, <1>2 DEF PipelineInv, DiskPredsInv, Clean, HasLog, Around
<1>. QED
  BY <1>3, <1>4, <1>5, <1>6 DEF PipelineInv

(* rtb_vfs_write gives its record up and is about to say so. *)
LEMMA LoseStep ==
  ASSUME TypeOK, NumbersInv, PipelineInv, NEW c \in Callers, Around(c), Holds(c), pc'[c] = "latch", call' = call,
         lost' = lost \cup {call[c].num}, lostWrite' = lostWrite \cup {call[c].num},
         UNCHANGED <<queue, returned, notified, dropped, normal>>
  PROVE  PipelineInv'
<1>1. /\ InHand' = InHand /\ Queued' = Queued /\ NoNum' = NoNum /\ Attempted' = Attempted
      /\ \A k : Before(k)' = Before(k)
  BY DEF Queued, InHand, NoNum, Around, Before, Attempted
<1>2. PastHook \subseteq PastHook' /\ Settled \subseteq Settled'
  BY <1>1 DEF PastHook, Settled, Around
<1>3. call[c].num # NoNum => call[c].num \notin PastHook /\ call[c].num \notin returned
  BY LostIsSettled DEF PipelineInv
<1>4. CallsInv'
  <2>1. \A d \in Callers :
       /\ pc'[d] \in {"idle", "plain", "badpath", "number"} => call'[d].num = NoNum
       /\ pc'[d] = "signal" => call'[d].num = NoNum \/ call'[d].num \in PastHook' \ lostWrite'
       /\ pc'[d] = "latch" => call'[d].num = NoNum \/ call'[d].num \in lostWrite'
    BY <1>2, <1>3 DEF PipelineInv, CallsInv, Around
  <2>2. returned' \cap lostWrite' = returned \cap lostWrite
    BY <1>3 DEF PipelineInv, CallsInv
  <2>. QED
    BY <1>1, <1>2, <2>1, <2>2 DEF PipelineInv, CallsInv
<1>5. ASSUME NEW P, Clean(P), P \ {NoNum} \subseteq PastHook PROVE P \cap lostWrite' \subseteq {NoNum}
  BY <1>3, <1>5 DEF Clean
<1>6. CallPredsInv'
  BY <1>1, <1>2, <1>5 DEF PipelineInv, CallPredsInv, Clean
<1>7. QueuePredsInv'
  <2>1. \A k \in DOMAIN queue : Settled \cup InHand \cup Before(k) \subseteq PastHook
    <3>1. \A k \in DOMAIN queue : 1..(k - 1) \subseteq DOMAIN queue
      BY DEF TypeOK
    <3>. QED
      BY <3>1 DEF PastHook, Before, Queued
  <2>. QED
    BY <1>1, <1>2, <1>5, <2>1 DEF PipelineInv, QueuePredsInv, Clean
<1>8. DiskPredsInv'
  BY <1>1, <1>2, <1>5 DEF PipelineInv, DiskPredsInv, Clean, HasLog, Around, PastHook
<1>. QED
  BY <1>4, <1>6, <1>7, <1>8 DEF PipelineInv

(* The record goes to the end of the list: whatever it comes after is on the  *)
(* list before it, or past the list.                                         *)
LEMMA LinkStep ==
  ASSUME TypeOK, NumbersInv, PipelineInv, NEW c \in Callers, Around(c), Holds(c), pc'[c] = "signal",
         call' = call, queue' = Append(queue, LogOf(c)),
         UNCHANGED <<lost, lostWrite, returned, notified, dropped, normal>>
  PROVE  PipelineInv'
<1>. DEFINE m == call[c].num
<1>0. PICK n \in Nat : n = Len(queue) + 1
  BY DEF TypeOK
<1>1. /\ queue \in Seq(Log) /\ LogOf(c) \in Log /\ LogOf(c).num = m /\ LogOf(c).preds = call[c].preds
  BY LogOfType DEF TypeOK, LogOf
<1>2. /\ DOMAIN queue = 1..Len(queue) /\ DOMAIN queue' = 1..n /\ Len(queue) \in Nat
      /\ queue'[n] = LogOf(c) /\ \A k \in 1..Len(queue) : queue'[k] = queue[k]
  BY <1>0, <1>1
<1>3. /\ \A k \in DOMAIN queue : Before(k)' = Before(k)
      /\ Before(n)' = Queued
  <2>1. \A k \in DOMAIN queue : \A j \in 1..(k - 1) : j \in 1..Len(queue)
    BY <1>2
  <2>2. n - 1 = Len(queue)
    BY <1>0, <1>2
  <2>. QED
    BY <1>2, <2>1, <2>2 DEF Before, Queued
<1>4. Queued' = Queued \cup {m}
  <2>1. \A k \in DOMAIN queue' : k \in DOMAIN queue \/ k = n
    BY <1>2
  <2>. QED
    BY <1>1, <1>2, <2>1 DEF Queued
<1>5. /\ InHand' = InHand /\ Settled' = Settled /\ NoNum' = NoNum /\ PastHook' = PastHook \cup {m}
      /\ Attempted' = Attempted
  BY <1>4 DEF InHand, Settled, NoNum, Around, PastHook, Attempted
<1>6. CallsInv'
  <2>1. m # NoNum => m \notin lostWrite
    BY LostIsSettled DEF PipelineInv
  <2>. QED
    BY <1>5, <2>1 DEF PipelineInv, CallsInv, Around
<1>7. CallPredsInv'
  BY <1>5 DEF PipelineInv, CallPredsInv, Clean
<1>8. QueuePredsInv'
  <2>. SUFFICES ASSUME NEW k \in DOMAIN queue'
                PROVE  /\ queue'[k].preds \ {NoNum} \subseteq Settled \cup InHand \cup Before(k)'
                       /\ queue'[k].preds \cap lostWrite \subseteq {NoNum}
    BY <1>5 DEF QueuePredsInv, Clean
  <2>1. CASE k \in DOMAIN queue
    BY <1>2, <1>3, <2>1 DEF PipelineInv, QueuePredsInv, Clean
  <2>2. CASE k = n
    <3>1. call[c].preds \ {NoNum} \subseteq PastHook /\ Clean(call[c].preds)
      BY DEF PipelineInv, CallPredsInv
    <3>. QED
      BY <1>1, <1>2, <1>3, <2>2, <3>1 DEF PastHook, Clean
  <2>. QED
    BY <1>2, <2>1, <2>2
<1>9. DiskPredsInv'
  BY <1>5 DEF PipelineInv, DiskPredsInv, Clean, HasLog, Around
<1>. QED
  BY <1>6, <1>7, <1>8, <1>9 DEF PipelineInv

LEMMA HookPipeline ==
  ASSUME TypeOK, NumbersInv, PipelineInv, NEW c \in Callers, EnterHook(c) \/ HookStep(c)
  PROVE  PipelineInv'
<1>. USE DEF seqVars, queueVars, writerVars, cnfVars, histVars, msgVars
<1>0. /\ pc \in [Callers -> CallerPc] /\ call \in [Callers -> Call] /\ pc[c] \in CallerPc
  BY DEF TypeOK
<1>a. /\ pc[c] \in {"idle", "plain", "badpath", "number"} => call[c].num = NoNum
      /\ pc[c] = "signal" => call[c].num = NoNum \/ call[c].num \in PastHook \ lostWrite
      /\ pc[c] = "latch" => call[c].num = NoNum \/ call[c].num \in lostWrite
      /\ lostWrite \subseteq lost
  BY DEF PipelineInv, CallsInv
<1>1. CASE EnterHook(c)
  <2>1. CASE \E o \in AllOps, i \in Items : normal /\ Monitor(c, o, i)
    <3>1. PICK o \in AllOps, i \in Items : normal /\ Monitor(c, o, i)
      BY <2>1
    <3>2. /\ Around(c) /\ pc'[c] = "number" /\ call'[c].num = NoNum /\ call'[c].preds = returned
          /\ UNCHANGED <<queue, lost, lostWrite, returned, notified, dropped, normal>>
      BY <1>0, <3>1 DEF Monitor, Enter, Around
    <3>. QED
      BY <3>1, <3>2, QuietStep
  <2>2. CASE \E o \in AllOps : Bypass(c, o)
    <3>1. PICK o \in AllOps : Bypass(c, o)
      BY <2>2
    <3>2. /\ Around(c) /\ pc'[c] = "plain" /\ call' = call /\ pc[c] = "idle"
          /\ UNCHANGED <<queue, lost, lostWrite, returned, notified, dropped, normal>>
      BY <1>0, <3>1 DEF Bypass, Enter, Around
    <3>. QED
      BY <1>a, <3>2, QuietStep
  <2>3. CASE Enter(c, "write", "badpath") /\ UNCHANGED <<call, calls>>
    <3>1. /\ Around(c) /\ pc'[c] = "badpath" /\ call' = call /\ pc[c] = "idle"
          /\ UNCHANGED <<queue, lost, lostWrite, returned, notified, dropped, normal>>
      BY <1>0, <2>3 DEF Enter, Around
    <3>. QED
      BY <1>a, <3>1, QuietStep
  <2>. QED
    BY <1>1, <2>1, <2>2, <2>3, EnterCases
<1>2. CASE GetMonitorFileSeqNo(c)
  <2>1. /\ Around(c) /\ pc'[c] = "run" /\ call'[c].preds = call[c].preds
        /\ UNCHANGED <<queue, lost, lostWrite, returned, notified, dropped, normal>>
    BY <1>0, <1>2 DEF GetMonitorFileSeqNo, Around, WithNumber
  <2>. QED
    BY <2>1, QuietStep
<1>3. CASE RunOriginal(c)
  <2>1. /\ Around(c) /\ pc'[c] = "log" /\ call'[c].preds = call[c].preds
        /\ UNCHANGED <<queue, lost, lostWrite, returned, notified, dropped, normal>>
    BY <1>0, <1>3 DEF RunOriginal, Around, WithResult
  <2>. QED
    BY <2>1, QuietStep
<1>4. CASE RunUnlogged(c)
  <2>1. /\ Around(c) /\ pc'[c] \in {"idle", "latch"} /\ call' = call /\ pc[c] \in {"plain", "badpath"}
        /\ UNCHANGED <<queue, lost, lostWrite, returned, notified, dropped, normal>>
    BY <1>0, <1>4 DEF RunUnlogged, Around
  <2>. QED
    BY <1>a, <2>1, QuietStep
<1>5. CASE BuildLog(c)
  <2>1. /\ Around(c) /\ pc'[c] = "link" /\ call' = call
        /\ UNCHANGED <<queue, lost, lostWrite, returned, notified, dropped, normal>>
    BY <1>0, <1>5 DEF BuildLog, Around
  <2>. QED
    BY <2>1, QuietStep
<1>6. CASE BuildLogFails(c)
  <2>1. /\ Holds(c) /\ Around(c) /\ UNCHANGED <<queue, normal, notified, dropped>>
        /\ lost' = lost \cup {call[c].num} /\ Attempted' = Attempted
    BY <1>0, <1>6 DEF BuildLogFails, Return, Around, Holds, Attempted
  <2>2. CASE pc'[c] = "latch"
    <3>1. /\ call' = call /\ lostWrite' = lostWrite \cup {call[c].num} /\ returned' = returned
      BY <1>0, <1>6, <2>2 DEF BuildLogFails, Return
    <3>. QED
      BY <2>1, <2>2, <3>1, LoseStep
  <2>3. CASE pc'[c] = "idle" /\ call'[c] = NoCall /\ lostWrite' = lostWrite
             /\ returned' = returned \cup ({call[c].num} \ {NoNum})
    <3>1. call[c].num # NoNum => call[c].num \notin lostWrite
      BY <2>1, LostIsSettled DEF PipelineInv
    <3>. QED
      BY <2>1, <2>3, <3>1, ReturnStep
  <2>. QED
    BY <1>0, <1>6, <2>2, <2>3 DEF BuildLogFails, Return
<1>7. CASE LinkLog(c)
  <2>1. /\ Holds(c) /\ Around(c) /\ pc'[c] = "signal" /\ call' = call
        /\ queue' = Append(queue, LogOf(c))
        /\ UNCHANGED <<lost, lostWrite, returned, notified, dropped, normal>>
    BY <1>0, <1>7 DEF LinkLog, Around, Holds
  <2>. QED
    BY <2>1, LinkStep
<1>8. CASE Signal(c)
  <2>1. /\ Around(c) /\ pc[c] = "signal" /\ pc'[c] = "idle" /\ call'[c] = NoCall
        /\ returned' = returned \cup ({call[c].num} \ {NoNum})
        /\ UNCHANGED <<queue, lost, lostWrite, normal>> /\ Attempted' = Attempted
    BY <1>0, <1>8 DEF Signal, Return, Around, Attempted
  <2>. QED
    BY <1>a, <2>1, ReturnStep
<1>9. CASE Latch(c)
  <2>1. /\ Around(c) /\ pc[c] = "latch" /\ pc'[c] = "idle" /\ call'[c] = NoCall
        /\ returned' = returned \cup ({call[c].num} \ {NoNum})
        /\ UNCHANGED <<queue, lost, lostWrite>>
        /\ normal' = FALSE /\ Attempted' = Attempted \cup {<<"write", call[c].num>>}
    BY <1>0, <1>9 DEF Latch, Notify, Return, Around, Attempted
  <2>. QED
    BY <1>a, <2>1, ReturnStep
<1>. QED
  BY <1>1, <1>2, <1>3, <1>4, <1>5, <1>6, <1>7, <1>8, <1>9 DEF HookStep

-----------------------------------------------------------------------------
(* Steps of the thread *)

(* A step of the thread that keeps the list and the records past it. *)
LEMMA ThreadKeeps ==
  ASSUME PipelineInv, UNCHANGED <<pc, call, queue, lostWrite, returned, normal>>,
         lost \subseteq lost', Attempted \subseteq Attempted',
         PastHook \subseteq PastHook', Settled \cup InHand \subseteq Settled' \cup InHand', DiskPredsInv'
  PROVE  PipelineInv'
<1>1. /\ Queued' = Queued /\ NoNum' = NoNum /\ \A k : Before(k)' = Before(k)
  BY DEF Queued, NoNum, Before
<1>2. CallsInv'
  BY <1>1 DEF PipelineInv, CallsInv
<1>3. CallPredsInv'
  BY <1>1 DEF PipelineInv, CallPredsInv, Clean
<1>4. QueuePredsInv'
  BY <1>1 DEF PipelineInv, QueuePredsInv, Clean
<1>. QED
  BY <1>2, <1>3, <1>4 DEF PipelineInv

LEMMA ThreadPipeline ==
  ASSUME TypeOK, NumbersInv, PipelineInv, ThreadIoWrite
  PROVE  PipelineInv'
<1>. USE DEF OthersUnchanged, WriterGoes, hookVars, seqVars, queueVars, cnfVars, msgVars
<1>1. UNCHANGED <<pc, call, lostWrite, returned, normal>> /\ lost \subseteq lost' /\ Attempted \subseteq Attempted'
  BY SaveLeaves DEF ThreadIoWrite, WaitCompletion, CheckQueue, TakeLog, OpenLog, OpenLogFails,
                    WriteLog, WriteLogShort, NotifyFailure, Notify, CheckStop, Attempted
<1>n. NoNum' = NoNum
  BY DEF NoNum
<1>2. CASE WaitCompletion \/ CheckQueue \/ SaveAfterLog \/ NotifyFailure \/ CheckStop
  <2>1. /\ UNCHANGED <<queue, disk, lost>> /\ wpc # "open"
        /\ wpc' \notin {"open", "write", "save", "notify"}
        /\ wpc' = "saving" => HasLog /\ cur' = cur
    BY <1>2, SaveLeaves DEF WaitCompletion, CheckQueue, NotifyFailure, CheckStop, HasLog
  <2>2. Settled' = Settled /\ InHand' = InHand /\ InHand = {} /\ Queued' = Queued
    BY <2>1 DEF Settled, InHand, Queued
  <2>3. DiskPredsInv'
    BY <1>1, <1>n, <2>1, <2>2 DEF PipelineInv, DiskPredsInv, HasLog, Clean
  <2>. QED
    BY <1>1, <2>1, <2>2, <2>3, ThreadKeeps DEF PastHook
<1>3. CASE OpenLog \/ OpenLogFails \/ WriteLog \/ WriteLogShort
  <2>1. /\ UNCHANGED <<queue, cur>> /\ HasLog /\ wpc' # "open"
        /\ wpc = "open" => cur.num \in DOMAIN disk' \cup lost'
        /\ DOMAIN disk \subseteq DOMAIN disk'
        /\ \A m \in DOMAIN disk' : disk'[m].log = cur \/ (m \in DOMAIN disk /\ disk'[m].log = disk[m].log)
    <3>1. \A f : /\ DOMAIN PutFile(cur.num, f) = DOMAIN disk \cup {cur.num}
                 /\ \A m \in DOMAIN disk \cup {cur.num} :
                      PutFile(cur.num, f)[m] = IF m = cur.num THEN f ELSE disk[m]
      BY DEF PutFile
    <3>2. CASE OpenLog
      BY <3>1, <3>2 DEF OpenLog, HasLog
    <3>3. CASE OpenLogFails
      BY <3>3 DEF OpenLogFails, HasLog
    <3>4. CASE WriteLog
      BY <3>1, <3>4 DEF WriteLog, HasLog
    <3>5. CASE WriteLogShort
      BY <3>1, <3>5 DEF WriteLogShort, HasLog
    <3>. QED
      BY <1>3, <3>2, <3>3, <3>4, <3>5
  <2>2. /\ Settled \subseteq Settled' /\ InHand \subseteq Settled' /\ InHand' = {} /\ Queued' = Queued
    BY <1>1, <2>1 DEF Settled, InHand, Queued
  <2>3. DiskPredsInv'
    BY <1>1, <1>n, <2>1, <2>2 DEF PipelineInv, DiskPredsInv, HasLog, Clean
  <2>. QED
    BY <1>1, <2>1, <2>2, <2>3, ThreadKeeps DEF PastHook
<1>4. CASE TakeLog
  <2>1. /\ queue # <<>> /\ wpc = "take" /\ wpc' = "open" /\ cur' = Head(queue) /\ queue' = Tail(queue)
        /\ UNCHANGED <<disk, notified, lost>> /\ queue \in Seq(Log)
    BY <1>4 DEF TakeLog, TypeOK
  <2>a. Attempted' = Attempted
    BY <1>4 DEF TakeLog, Attempted
  <2>2. /\ Len(queue) \in Nat \ {0} /\ DOMAIN queue = 1..Len(queue) /\ DOMAIN queue' = 1..(Len(queue) - 1)
        /\ cur' = queue[1] /\ \A k \in DOMAIN queue' : queue'[k] = queue[k + 1]
    BY <2>1
  <2>3. InHand = {} /\ InHand' = {queue[1].num} /\ Settled' = Settled
    BY <2>1, <2>2 DEF InHand, Settled
  <2>4. Queued \subseteq Queued' \cup InHand'
    <3>. SUFFICES ASSUME NEW k \in DOMAIN queue PROVE queue[k].num \in Queued' \cup InHand'
      BY DEF Queued
    <3>1. CASE k = 1
      BY <2>3, <3>1
    <3>2. CASE k # 1
      <4>1. k - 1 \in DOMAIN queue' /\ queue'[k - 1] = queue[k]
        BY <2>2, <3>2
      <4>. QED
        BY <4>1 DEF Queued
    <3>. QED
      BY <3>1, <3>2
  <2>5. PastHook \subseteq PastHook'
    BY <2>3, <2>4 DEF PastHook
  <2>6. CallsInv' /\ CallPredsInv'
    BY <1>1, <1>n, <2>1, <2>a, <2>5 DEF PipelineInv, CallsInv, CallPredsInv, Clean
  <2>7. QueuePredsInv'
    <3>. SUFFICES ASSUME NEW k \in DOMAIN queue'
                  PROVE  /\ queue'[k].preds \ {NoNum} \subseteq Settled' \cup InHand' \cup Before(k)'
                         /\ queue'[k].preds \cap lostWrite \subseteq {NoNum}
      BY <1>1, <1>n DEF QueuePredsInv, Clean
    <3>1. k + 1 \in DOMAIN queue /\ queue'[k] = queue[k + 1] /\ k \in Nat
      BY <2>2
    <3>2. Before(k + 1) \subseteq InHand' \cup Before(k)'
      <4>. SUFFICES ASSUME NEW j \in 1..((k + 1) - 1) PROVE queue[j].num \in InHand' \cup Before(k)'
        BY DEF Before
      <4>1. CASE j = 1
        BY <2>3, <4>1
      <4>2. CASE j # 1
        <5>1. j - 1 \in 1..(k - 1) /\ j - 1 \in DOMAIN queue' /\ (j - 1) + 1 = j
          BY <2>2, <3>1, <4>2
        <5>2. queue'[j - 1] = queue[j]
          BY <2>2, <5>1
        <5>. QED
          BY <5>1, <5>2 DEF Before
      <4>. QED
        BY <4>1, <4>2
    <3>. QED
      BY <2>3, <3>1, <3>2 DEF PipelineInv, QueuePredsInv, Clean
  <2>8. DiskPredsInv'
    <3>1. 1 \in DOMAIN queue /\ Before(1) = {}
      BY <2>2 DEF Before
    <3>2. queue[1].preds \ {NoNum} \subseteq Settled /\ Clean(queue[1].preds)
      BY <2>3, <3>1 DEF PipelineInv, QueuePredsInv
    <3>. QED
      BY <1>1, <1>n, <2>1, <2>2, <2>3, <3>2 DEF PipelineInv, DiskPredsInv, HasLog, Clean
  <2>. QED
    BY <2>6, <2>7, <2>8 DEF PipelineInv
<1>. QED
  BY <1>2, <1>3, <1>4 DEF ThreadIoWrite

LEMMA PipelineStep == TypeOK /\ NumbersInv /\ PipelineInv /\ [Next]_vars => PipelineInv'
<1>. SUFFICES ASSUME TypeOK, NumbersInv, PipelineInv, [Next]_vars PROVE PipelineInv'
  OBVIOUS
<1>1. CASE ExitRtbackup \/ UNCHANGED vars
  <2>1. UNCHANGED <<pc, call, normal, queue, wpc, cur, disk, lost, lostWrite, returned, notified, dropped>>
    BY <1>1 DEF ExitRtbackup, vars, hookVars, seqVars, queueVars, writerVars, cnfVars, histVars, msgVars
  <2>2. /\ Queued' = Queued /\ Settled' = Settled /\ InHand' = InHand /\ NoNum' = NoNum
        /\ Attempted' = Attempted
    BY <2>1 DEF Queued, Settled, InHand, NoNum, Attempted
  <2>3. DiskPredsInv'
    BY <2>1, <2>2 DEF PipelineInv, DiskPredsInv, HasLog, Clean
  <2>. QED
    BY <2>1, <2>2, <2>3, ThreadKeeps DEF PastHook
<1>. QED
  BY <1>1, HookPipeline, ThreadPipeline DEF Next

LEMMA PipelineAlways == Spec => [](TypeOK /\ NumbersInv /\ PipelineInv)
BY InitType, NextType, NumbersInit, NumbersStep, PipelineInit, PipelineStep, PTL DEF Spec

(* NothingLoggedPastLostWrite of IoLog: once rtb_vfs_write has returned with   *)
(* its record lost, normal running is off, and no call that begins after it   *)
(* gets a number.                                                            *)
THEOREM LatchHolds == Spec => []NothingLoggedPastLostWrite
<1>1. PipelineInv => NothingLoggedPastLostWrite
  BY DEF PipelineInv, DiskPredsInv, Clean, NothingLoggedPastLostWrite
<1>. QED
  BY <1>1, PipelineAlways, PTL

-----------------------------------------------------------------------------
(* The order of the numbers *)

(* What a record comes after has smaller numbers, in the set the record is in. *)
Above(preds, m) == \A p \in preds \ {NoNum} : p[1] = m[1] => p[2] < m[2]

(* From the drawing of its number on, a call has that order, and hands it down *)
(* with its record.                                                          *)
RealTimeInv ==
  /\ \A c \in Callers : Holds(c) => Above(call[c].preds, call[c].num)
  /\ \A k \in DOMAIN queue : Above(queue[k].preds, queue[k].num)
  /\ HasLog => Above(cur.preds, cur.num)
  /\ \A m \in DOMAIN disk : Above(disk[m].log.preds, m)

(* A number drawn is above all that were issued before, in its set; one that   *)
(* is not drawn, because the set was not found, is in no set.                 *)
LEMMA DrawnIsAbove ==
  ASSUME TypeOK, NumbersInv, PipelineInv, NEW c \in Callers, GetMonitorFileSeqNo(c)
  PROVE  Above(call'[c].preds, call'[c].num)
<1>1. call \in [Callers -> Call] /\ pc[c] = "number" /\ call[c].item \in Items /\ setSeq \in [Sets -> Nat]
  BY DEF TypeOK, GetMonitorFileSeqNo
<1>2. SetOf[call[c].item] \in Sets /\ NoSet \notin Sets
  BY <1>1, ConstantsAssumption
<1>3. call[c].preds \ {NoNum} \subseteq Issued
  <2>1. call[c].preds \ {NoNum} \subseteq PastHook
    BY DEF PipelineInv, CallPredsInv
  <2>2. PastHook \ {NoNum} \subseteq Issued
    BY DEF NumbersInv, NumbersAccounted, PastHook
  <2>. QED
    BY <2>1, <2>2
<1>4. \A p \in Issued : p[1] \in Sets /\ p[2] \in Nat /\ p[2] < setSeq[p[1]]
  BY <1>1 DEF Issued
<1>5. CASE call[c].item \notin Orphans
  <2>1. /\ call'[c].preds = call[c].preds
        /\ call'[c].num = <<SetOf[call[c].item], setSeq[SetOf[call[c].item]]>>
    BY <1>1, <1>5 DEF GetMonitorFileSeqNo, WithNumber
  <2>. QED
    BY <1>2, <1>3, <1>4, <2>1 DEF Above
<1>6. CASE call[c].item \in Orphans
  <2>1. call' = call /\ call[c].num = NoNum
    BY <1>6 DEF GetMonitorFileSeqNo, NumbersInv, NotDrawnYet
  <2>2. call[c].num[1] = NoSet
    BY <2>1 DEF NoNum
  <2>. QED
    BY <1>2, <1>3, <1>4, <2>1, <2>2 DEF Above
<1>. QED
  BY <1>5, <1>6

(* A step of a hook that links no record, and leaves a number it holds alone or *)
(* has just drawn it.                                                        *)
LEMMA RealTimeKept ==
  ASSUME RealTimeInv, NEW c \in Callers, Around(c), queue' = queue,
         Holds(c)' => Above(call'[c].preds, call'[c].num)
  PROVE  RealTimeInv'
<1>1. NoNum' = NoNum
  BY DEF NoNum
<1>2. \A preds, m : Above(preds, m)' <=> Above(preds, m)
  BY <1>1 DEF Above
<1>3. \A d \in Callers : Holds(d)' => Above(call'[d].preds, call'[d].num)
  BY DEF RealTimeInv, Around, Holds
<1>. QED
  BY <1>2, <1>3 DEF RealTimeInv, Around, HasLog, Above

LEMMA RealTimeHook ==
  ASSUME TypeOK, NumbersInv, PipelineInv, RealTimeInv, NEW c \in Callers, EnterHook(c) \/ HookStep(c)
  PROVE  RealTimeInv'
<1>. USE DEF seqVars, queueVars, writerVars, cnfVars, histVars, msgVars
<1>0. pc \in [Callers -> CallerPc] /\ call \in [Callers -> Call]
  BY DEF TypeOK
<1>1. CASE EnterHook(c)
  <2>1. Around(c) /\ queue' = queue /\ pc'[c] \in {"number", "plain", "badpath"}
    <3>1. CASE \E o \in AllOps, i \in Items : normal /\ Monitor(c, o, i)
      BY <1>0, <3>1 DEF Monitor, Enter, Around
    <3>2. CASE \E o \in AllOps : Bypass(c, o)
      BY <1>0, <3>2 DEF Bypass, Enter, Around
    <3>3. CASE Enter(c, "write", "badpath") /\ UNCHANGED <<call, calls>>
      BY <1>0, <3>3 DEF Enter, Around
    <3>. QED
      BY <1>1, <3>1, <3>2, <3>3, EnterCases
  <2>. QED
    BY <2>1, RealTimeKept DEF Holds
<1>2. CASE GetMonitorFileSeqNo(c)
  <2>1. Around(c) /\ queue' = queue
    BY <1>0, <1>2 DEF GetMonitorFileSeqNo, Around
  <2>. QED
    BY <1>2, <2>1, DrawnIsAbove, RealTimeKept
<1>3. CASE RunOriginal(c) \/ BuildLog(c)
  <2>1. /\ Around(c) /\ queue' = queue /\ Holds(c)
        /\ call'[c].preds = call[c].preds /\ call'[c].num = call[c].num
    BY <1>0, <1>3 DEF RunOriginal, BuildLog, Around, WithResult, Holds
  <2>2. Above(call[c].preds, call[c].num)
    BY <2>1 DEF RealTimeInv
  <2>. QED
    BY <2>1, <2>2, RealTimeKept
<1>4. CASE RunUnlogged(c) \/ BuildLogFails(c) \/ Signal(c) \/ Latch(c)
  <2>1. Around(c) /\ queue' = queue /\ pc'[c] \in {"idle", "latch"}
    BY <1>0, <1>4 DEF RunUnlogged, BuildLogFails, Signal, Latch, Return, Around
  <2>. QED
    BY <2>1, RealTimeKept DEF Holds
<1>5. CASE LinkLog(c)
  <2>1. /\ Around(c) /\ Holds(c) /\ pc'[c] = "signal" /\ call' = call
        /\ queue' = Append(queue, LogOf(c))
    BY <1>0, <1>5 DEF LinkLog, Around, Holds
  <2>2. Above(LogOf(c).preds, LogOf(c).num)
    <3>1. LogOf(c).preds = call[c].preds /\ LogOf(c).num = call[c].num
      BY DEF LogOf
    <3>. QED
      BY <2>1, <3>1 DEF RealTimeInv
  <2>3. \A k \in DOMAIN queue' : queue'[k] = LogOf(c) \/ (k \in DOMAIN queue /\ queue'[k] = queue[k])
    <3>1. queue \in Seq(Log) /\ LogOf(c) \in Log
      BY LogOfType DEF TypeOK
    <3>. QED
      BY <2>1, <3>1
  <2>4. \A k \in DOMAIN queue' : Above(queue'[k].preds, queue'[k].num)
    BY <2>2, <2>3 DEF RealTimeInv
  <2>5. \A d \in Callers : Holds(d)' => Holds(d) /\ call'[d] = call[d]
    BY <2>1 DEF Around, Holds
  <2>6. NoNum' = NoNum
    BY DEF NoNum
  <2>. QED
    BY <2>1, <2>4, <2>5, <2>6 DEF RealTimeInv, Around, HasLog, Above
<1>. QED
  BY <1>1, <1>2, <1>3, <1>4, <1>5 DEF HookStep

LEMMA RealTimeThread ==
  ASSUME TypeOK, RealTimeInv, ThreadIoWrite
  PROVE  RealTimeInv'
<1>. USE DEF OthersUnchanged, WriterGoes, hookVars, seqVars, queueVars, cnfVars, msgVars
<1>1. UNCHANGED <<pc, call>> /\ NoNum' = NoNum
  BY SaveLeaves DEF ThreadIoWrite, WaitCompletion, CheckQueue, TakeLog, OpenLog, OpenLogFails,
                    WriteLog, WriteLogShort, NotifyFailure, CheckStop, NoNum
<1>2. CASE WaitCompletion \/ CheckQueue \/ SaveAfterLog \/ NotifyFailure \/ CheckStop
  <2>1. /\ UNCHANGED <<queue, disk>> /\ wpc' \notin {"open", "write", "save", "notify"}
        /\ wpc' = "saving" => HasLog /\ cur' = cur
    BY <1>2, SaveLeaves DEF WaitCompletion, CheckQueue, NotifyFailure, CheckStop, HasLog
  <2>. QED
    BY <1>1, <2>1 DEF RealTimeInv, Holds, HasLog, Above
<1>3. CASE OpenLog \/ OpenLogFails \/ WriteLog \/ WriteLogShort
  <2>1. /\ UNCHANGED <<queue, cur>> /\ HasLog
        /\ \A m \in DOMAIN disk' : \/ m = cur.num /\ disk'[m].log = cur
                                   \/ m \in DOMAIN disk /\ disk'[m].log = disk[m].log
    <3>1. \A f : /\ DOMAIN PutFile(cur.num, f) = DOMAIN disk \cup {cur.num}
                 /\ \A m \in DOMAIN disk \cup {cur.num} :
                      PutFile(cur.num, f)[m] = IF m = cur.num THEN f ELSE disk[m]
      BY DEF PutFile
    <3>2. CASE OpenLog
      BY <3>1, <3>2 DEF OpenLog, HasLog
    <3>3. CASE OpenLogFails
      BY <3>3 DEF OpenLogFails, HasLog
    <3>4. CASE WriteLog
      BY <3>1, <3>4 DEF WriteLog, HasLog
    <3>5. CASE WriteLogShort
      BY <3>1, <3>5 DEF WriteLogShort, HasLog
    <3>. QED
      BY <1>3, <3>2, <3>3, <3>4, <3>5
  <2>2. \A m \in DOMAIN disk' : Above(disk'[m].log.preds, m)
    BY <2>1 DEF RealTimeInv
  <2>. QED
    BY <1>1, <2>1, <2>2 DEF RealTimeInv, Holds, HasLog, Above
<1>4. CASE TakeLog
  <2>1. /\ queue # <<>> /\ queue \in Seq(Log) /\ cur' = Head(queue) /\ queue' = Tail(queue) /\ disk' = disk
    BY <1>4 DEF TakeLog, TypeOK
  <2>2. 1 \in DOMAIN queue /\ cur' = queue[1] /\ \A k \in DOMAIN queue' : k + 1 \in DOMAIN queue /\ queue'[k] = queue[k + 1]
    BY <2>1
  <2>. QED
    BY <1>1, <2>1, <2>2 DEF RealTimeInv, Holds, Above
<1>. QED
  BY <1>2, <1>3, <1>4 DEF ThreadIoWrite

LEMMA RealTimeStep == TypeOK /\ NumbersInv /\ PipelineInv /\ RealTimeInv /\ [Next]_vars => RealTimeInv'
<1>. SUFFICES ASSUME TypeOK, NumbersInv, PipelineInv, RealTimeInv, [Next]_vars PROVE RealTimeInv'
  OBVIOUS
<1>1. CASE ExitRtbackup \/ UNCHANGED vars
  <2>1. UNCHANGED <<pc, call, queue, wpc, cur, disk>> /\ NoNum' = NoNum
    BY <1>1 DEF ExitRtbackup, vars, hookVars, seqVars, queueVars, writerVars, cnfVars, histVars, msgVars, NoNum
  <2>. QED
    BY <2>1 DEF RealTimeInv, Holds, HasLog, Above
<1>. QED
  BY <1>1, RealTimeHook, RealTimeThread DEF Next

(* LoggedAfterPredecessors of IoLog: the list keeps the order of the calls,   *)
(* because a number that has left its hook is on the list, or past it, by the *)
(* time a later call begins (list_add_tail, createiolog.c, and the head the   *)
(* thread takes); and it was drawn by then, so that the later call's number,  *)
(* drawn under gseqnolock, is larger.                                        *)
THEOREM CausesLoggedFirst == Spec => []LoggedAfterPredecessors
<1>1. PipelineInv /\ RealTimeInv => LoggedAfterPredecessors
  BY DEF PipelineInv, DiskPredsInv, RealTimeInv, Above, Follows, LoggedAfterPredecessors
<1>2. Init => RealTimeInv
  BY DEF Init, RealTimeInv, Holds, HasLog
<1>. QED
  BY <1>1, <1>2, InitType, NextType, NumbersInit, NumbersStep, PipelineInit, PipelineStep,
     RealTimeStep, PTL DEF Spec

-----------------------------------------------------------------------------
(* The log files *)

(* While SaveConfig is at the records the header counts none, and a record it  *)
(* has written is past every log on disk: only the thread writes logs.        *)
SavedInv ==
  wpc = "saving" =>
    /\ header = "zeroed"
    /\ \A m \in DOMAIN disk \ {NoNum} : m[1] \in left \/ m[2] < saved[m[1]]

(* A log that is not whole is the thread's work or has been reported; a file   *)
(* about to be written is still empty.                                       *)
DiskInv ==
  /\ \A m \in DOMAIN disk \ {NoNum} :
       ~disk[m].whole => \/ <<"thread", m>> \in Attempted
                         \/ wpc \in {"write", "notify"} /\ cur.num = m
  /\ PersistedCoversLogs
  /\ SavedInv
  /\ wpc = "write" /\ cur.num # NoNum => ~disk[cur.num].whole

LEMMA DiskInit == Init => DiskInv
BY DEF Init, DiskInv, SavedInv, PersistedCoversLogs

LEMMA DiskNumbersIssued ==
  ASSUME TypeOK, NumbersInv, NEW m \in Settled \ {NoNum}
  PROVE  m[1] \in Sets /\ m[2] \in Nat /\ m[2] < setSeq[m[1]] /\ m = <<m[1], m[2]>>
<1>1. m \in Issued
  BY DEF NumbersInv, NumbersAccounted
<1>2. PICK t \in Sets : m \in {t} \X (0..(setSeq[t] - 1))
  BY <1>1 DEF Issued
<1>3. m[1] = t /\ m[2] \in 0..(setSeq[t] - 1) /\ m = <<m[1], m[2]>> /\ setSeq[t] \in Nat
  BY <1>2 DEF TypeOK
<1>. QED
  BY <1>3

LEMMA DiskStep == TypeOK /\ NumbersInv /\ DiskInv /\ [Next]_vars => DiskInv'
<1>. SUFFICES ASSUME TypeOK, NumbersInv, DiskInv, [Next]_vars PROVE DiskInv'
  OBVIOUS
<1>. USE DEF OthersUnchanged, WriterGoes, hookVars, seqVars, queueVars, cnfVars, msgVars
<1>n. NoNum' = NoNum
  BY DEF NoNum
<1>f. \A f : /\ DOMAIN PutFile(cur.num, f) = DOMAIN disk \cup {cur.num}
             /\ \A m \in DOMAIN disk \cup {cur.num} :
                  PutFile(cur.num, f)[m] = IF m = cur.num THEN f ELSE disk[m]
  BY DEF PutFile
<1>1. ASSUME UNCHANGED <<wpc, cur, disk, saved, header, left, unsaved>>, Attempted \subseteq Attempted'
      PROVE  DiskInv'
  BY <1>1, <1>n DEF DiskInv, SavedInv, PersistedCoversLogs
<1>2. ASSUME NEW c \in Callers, EnterHook(c) \/ HookStep(c) PROVE DiskInv'
  <2>1. CASE EnterHook(c)
    BY <1>1, <2>1, EnterCases DEF Monitor, Bypass, Enter, writerVars, cnfVars, histVars, msgVars,
                                  Attempted
  <2>2. CASE HookStep(c)
    BY <1>1, <2>2 DEF HookStep, GetMonitorFileSeqNo, RunOriginal, RunUnlogged, BuildLog, BuildLogFails,
                      LinkLog, Signal, Latch, Notify, Return, writerVars, cnfVars, histVars, msgVars,
                      Attempted
  <2>. QED
    BY <1>2, <2>1, <2>2
<1>3. CASE ExitRtbackup \/ UNCHANGED vars
  BY <1>1, <1>3 DEF ExitRtbackup, vars, writerVars, cnfVars, histVars, msgVars, Attempted
<1>4. CASE WaitCompletion \/ CheckQueue \/ TakeLog \/ CheckStop \/ OpenLogFails
  <2>1. UNCHANGED <<disk, saved, header, unsaved, notified, dropped>>
        /\ wpc \notin {"write", "notify", "save", "saving"} /\ wpc' \notin {"write", "save", "saving"}
    BY <1>4 DEF WaitCompletion, CheckQueue, TakeLog, CheckStop, OpenLogFails
  <2>2. Attempted' = Attempted
    BY <2>1 DEF Attempted
  <2>. QED
    BY <1>n, <2>1, <2>2 DEF DiskInv, SavedInv, PersistedCoversLogs
<1>5. CASE OpenLog
  <2>1. /\ wpc = "open" /\ wpc' = "write"
        /\ UNCHANGED <<cur, saved, header, unsaved, notified, dropped>>
        /\ disk' = IF cur.num \in DOMAIN disk THEN disk
                     ELSE PutFile(cur.num, [log |-> cur, whole |-> FALSE])
    BY <1>5 DEF OpenLog
  <2>2. cur.num # NoNum => cur.num \notin DOMAIN disk
    BY <2>1 DEF NumbersInv, PlacesDisjoint, InHand, Settled
  <2>3. [log |-> cur, whole |-> FALSE].whole = FALSE
    OBVIOUS
  <2>4. \A m \in DOMAIN disk' \ {NoNum} :
          \/ m \in DOMAIN disk /\ disk'[m] = disk[m] /\ m # cur.num
          \/ m = cur.num /\ disk'[m].whole = FALSE
    BY <1>f, <2>1, <2>2, <2>3
  <2>5. cur.num # NoNum => cur.num \in DOMAIN disk'
    BY <1>f, <2>1
  <2>6. Attempted' = Attempted
    BY <2>1 DEF Attempted
  <2>. QED
    BY <1>n, <2>1, <2>4, <2>5, <2>6 DEF DiskInv, SavedInv, PersistedCoversLogs
<1>6. CASE WriteLog \/ WriteLogShort
  <2>1. /\ wpc = "write" /\ UNCHANGED <<cur, saved, header, unsaved, notified, dropped>>
        /\ \/ wpc' = "save" /\ disk' = PutFile(cur.num, [log |-> cur, whole |-> TRUE])
           \/ wpc' = "notify" /\ disk' = PutFile(cur.num, [log |-> cur, whole |-> FALSE])
    BY <1>6 DEF WriteLog, WriteLogShort
  <2>2. /\ [log |-> cur, whole |-> FALSE].whole = FALSE
        /\ [log |-> cur, whole |-> TRUE].whole = TRUE
    OBVIOUS
  <2>3. \A m \in DOMAIN disk' \ {NoNum} :
          \/ m \in DOMAIN disk /\ disk'[m] = disk[m] /\ m # cur.num
          \/ /\ m = cur.num
             /\ \/ wpc' = "save" /\ disk'[m].whole = TRUE
                \/ wpc' = "notify" /\ disk'[m].whole = FALSE
    BY <1>f, <2>1, <2>2
  <2>4. Attempted' = Attempted
    BY <2>1 DEF Attempted
  <2>. QED
    BY <1>n, <2>1, <2>3, <2>4 DEF DiskInv, SavedInv, PersistedCoversLogs
<1>7. CASE SaveAfterLog
  <2>1. UNCHANGED <<disk, notified, dropped, setSeq>> /\ wpc \in {"save", "saving"} /\ wpc' \in {"saving", "check"}
    BY <1>7, SaveLeaves
  <2>2. \A m \in DOMAIN disk \ {NoNum} : m[1] \in Sets /\ m[2] < setSeq[m[1]] /\ m[2] \in Nat
    BY DiskNumbersIssued DEF Settled
  <2>3. PersistedCoversLogs' /\ SavedInv'
    <3>1. CASE BeginSave
      BY <1>n, <2>1, <2>2, <3>1 DEF BeginSave, PersistedCoversLogs, SavedInv
    <3>2. CASE SaveUnopened
      BY <1>n, <2>1, <3>2 DEF SaveUnopened, DiskInv, PersistedCoversLogs, SavedInv
    <3>3. CASE EndSave
      BY <1>n, <2>1, <2>2, <3>3 DEF EndSave, SaveEnds, DiskInv, PersistedCoversLogs, SavedInv
    <3>4. CASE SaveCutShort
      BY <1>n, <2>1, <3>4 DEF SaveCutShort, SaveEnds, DiskInv, PersistedCoversLogs, SavedInv
    <3>5. ASSUME NEW s \in Sets, SaveSet(s) PROVE PersistedCoversLogs' /\ SavedInv'
      <4>1. /\ saved' = [saved EXCEPT ![s] = setSeq[s]] /\ saved \in [Sets -> Nat]
            /\ left' = left \ {s} /\ UNCHANGED <<wpc, header, unsaved, disk>> /\ wpc = "saving"
        BY <2>1, <3>5 DEF SaveSet, TypeOK
      <4>2. header = "zeroed"
        BY <4>1 DEF DiskInv, SavedInv
      <4>3. SavedInv'
        BY <1>n, <2>2, <4>1, <4>2 DEF DiskInv, SavedInv
      <4>4. PersistedCoversLogs'
        BY <4>1, <4>2 DEF PersistedCoversLogs
      <4>. QED
        BY <4>3, <4>4
    <3>. QED
      BY <1>7, <3>1, <3>2, <3>3, <3>4, <3>5 DEF SaveAfterLog
  <2>4. Attempted' = Attempted
    BY <2>1 DEF Attempted
  <2>. QED
    BY <1>n, <2>1, <2>3, <2>4 DEF DiskInv
<1>8. CASE NotifyFailure
  <2>1. /\ wpc = "notify" /\ wpc' = "check" /\ UNCHANGED <<disk, saved, header, unsaved>>
        /\ Attempted' = Attempted \cup {<<"thread", cur.num>>}
    BY <1>8 DEF NotifyFailure, Notify, Attempted
  <2>. QED
    BY <1>n, <2>1 DEF DiskInv, SavedInv, PersistedCoversLogs
<1>. QED
  BY <1>2, <1>3, <1>4, <1>5, <1>6, <1>7, <1>8 DEF Next, ThreadIoWrite

LEMMA DiskAlways == Spec => [](TypeOK /\ NumbersInv /\ PipelineInv /\ DiskInv)
<1>1. Spec => []DiskInv
  BY InitType, NextType, NumbersInit, NumbersStep, DiskInit, DiskStep, PTL DEF Spec
<1>. QED
  BY <1>1, PipelineAlways, PTL

(* FailuresReported of IoLog: no log stays empty or short, and no write       *)
(* returns with its record lost, before a message to the application has been *)
(* attempted (iowritethread.c, hookvfs.c); the message may be dropped         *)
(* (rtbnetlink.c), but after a write the status tells that logging has ended. *)
THEOREM NoFailureUnreported == Spec => []FailuresReported
<1>1. PipelineInv /\ DiskInv => FailuresReported
  BY DEF PipelineInv, CallsInv, DiskInv, FailuresReported
<1>. QED
  BY <1>1, DiskAlways, PTL

(* PersistedCoversLogs of IoLog: whenever the header of /etc/rtb.cnf counts    *)
(* its records, hooks drawing numbers during the save notwithstanding, they   *)
(* are past every whole log but the last and those since a failed save; and   *)
(* it counts none only during a save or after a failed one.                   *)
THEOREM CountersCoverLogs == Spec => []PersistedCoversLogs
<1>1. DiskInv => PersistedCoversLogs
  BY DEF DiskInv
<1>. QED
  BY <1>1, DiskAlways, PTL

(* TakeFindsRecord of IoLog, from QueueNeverStalls: the record that the thread *)
(* saw on the list without the lock is there when it takes it.                *)
THEOREM TakeNeverEmpty == Spec => []TakeFindsRecord
BY QueueNeverStalls, PTL

(* NumbersAccounted of IoLog, from NumbersConserved: the numbers of a set have *)
(* no gap, each is somewhere between the call that drew it and its outcome.    *)
THEOREM NoNumberVanishes == Spec => []NumbersAccounted
BY NumbersConserved, PTL

-----------------------------------------------------------------------------
(* Refinement *)

LEMMA NumberOf ==
  ASSUME TypeOK, NEW m \in Names
  PROVE  m = <<m[1], m[2]>>
BY DEF Names

(* What the thread does to the outcomes. *)
LEMMA ThreadRefines ==
  ASSUME TypeOK, NumbersInv, DiskInv, ThreadIoWrite
  PROVE  [Abstract!Next]_(Abstract!vars)
<1>. USE DEF OthersUnchanged, WriterGoes, hookVars, seqVars, queueVars, cnfVars, msgVars
<1>n. NoNum' = NoNum
  BY DEF NoNum
<1>. DEFINE Goal == [Abstract!Next]_(Abstract!vars)
            Closed == wpc = "exited"
<1>f. \A f : /\ DOMAIN PutFile(cur.num, f) = DOMAIN disk \cup {cur.num}
             /\ \A m \in DOMAIN disk \cup {cur.num} :
                  PutFile(cur.num, f)[m] = IF m = cur.num THEN f ELSE disk[m]
  BY DEF PutFile
<1>s. setSeq' = setSeq
  BY SaveLeaves DEF ThreadIoWrite, WaitCompletion, CheckQueue, TakeLog, OpenLog, OpenLogFails,
                    WriteLog, WriteLogShort, NotifyFailure, CheckStop
<1>a. ASSUME WholeNums' = WholeNums, FailedNums' = FailedNums, Closed' = Closed PROVE Goal
  BY <1>s, <1>a DEF Abstract!vars
<1>b. ASSUME WholeNums' = WholeNums, FailedNums' = FailedNums, Closed' PROVE Goal
  BY <1>s, <1>b DEF Abstract!Next, Abstract!Close
<1>p. ASSUME NEW m \in Names \ {NoNum}, m \in Settled \cup Settled', m \notin WholeNums, m \notin FailedNums,
             m \in Settled \/ InHand = {m},
             Closed' = Closed,
             \/ WholeNums' = WholeNums \cup {m} /\ FailedNums' = FailedNums
             \/ WholeNums' = WholeNums /\ FailedNums' = FailedNums \cup {m}
      PROVE  Goal
  <2>1. m \in Issued
    BY <1>p DEF NumbersInv, NumbersAccounted
  <2>2. PICK t \in Sets : m \in {t} \X (0..(setSeq[t] - 1))
    BY <2>1 DEF Issued
  <2>3. PICK n \in 0..(setSeq[t] - 1) : m = <<t, n>>
    BY <2>2
  <2>4. Abstract!Pending(m)
    BY <1>p, <2>3 DEF Abstract!Pending, TypeOK
  <2>5. Abstract!Write(m) \/ Abstract!Fail(m)
    BY <1>s, <1>p, <2>4 DEF Abstract!Write, Abstract!Fail
  <2>. QED
    BY <2>3, <2>5 DEF Abstract!Next, Abstract!Settle
<1>1. CASE WaitCompletion \/ CheckQueue \/ TakeLog \/ SaveAfterLog \/ NotifyFailure \/ CheckStop
  <2>1. UNCHANGED <<disk, lost>> /\ wpc # "write" /\ wpc' # "write"
    BY <1>1, SaveLeaves DEF WaitCompletion, CheckQueue, TakeLog, NotifyFailure, CheckStop
  <2>2. WholeNums' = WholeNums /\ FailedNums' = FailedNums
    BY <1>n, <2>1 DEF WholeNums, FailedNums, InProgress
  <2>3. Closed' = Closed \/ Closed'
    BY <1>1, SaveLeaves DEF WaitCompletion, CheckQueue, TakeLog, NotifyFailure, CheckStop
  <2>. QED
    BY <1>a, <1>b, <2>2, <2>3
<1>2. CASE OpenLog
  <2>1. /\ wpc = "open" /\ wpc' = "write" /\ UNCHANGED <<cur, lost>>
        /\ disk' = IF cur.num \in DOMAIN disk THEN disk
                     ELSE PutFile(cur.num, [log |-> cur, whole |-> FALSE])
    BY <1>2 DEF OpenLog
  <2>2. cur.num # NoNum => cur.num \notin DOMAIN disk
    BY <2>1 DEF NumbersInv, PlacesDisjoint, InHand, Settled
  <2>3. [log |-> cur, whole |-> FALSE].whole = FALSE
    OBVIOUS
  <2>4. /\ \A m \in DOMAIN disk' \ {NoNum} :
             \/ m \in DOMAIN disk /\ disk'[m] = disk[m] /\ m # cur.num
             \/ m = cur.num /\ disk'[m].whole = FALSE
        /\ \A m \in DOMAIN disk \ {NoNum} : m \in DOMAIN disk' /\ disk'[m] = disk[m] /\ m # cur.num
    BY <1>f, <2>1, <2>2, <2>3
  <2>5. WholeNums' = WholeNums
    BY <1>n, <2>4 DEF WholeNums
  <2>6. FailedNums' = FailedNums
    BY <1>n, <2>1, <2>4 DEF FailedNums, InProgress
  <2>. QED
    BY <1>a, <2>1, <2>5, <2>6
<1>3. CASE OpenLogFails
  <2>1. /\ wpc = "open" /\ wpc' = "notify" /\ UNCHANGED <<cur, disk>> /\ lost' = lost \cup {cur.num}
    BY <1>3 DEF OpenLogFails
  <2>2. InHand = {cur.num} /\ cur.num \in Names
    BY <2>1 DEF InHand, TypeOK, Log
  <2>3. WholeNums' = WholeNums /\ FailedNums' = (FailedNums \cup {cur.num}) \ {NoNum}
    BY <1>n, <2>1 DEF WholeNums, FailedNums, InProgress
  <2>4. cur.num # NoNum => cur.num \notin Settled
    BY <2>2 DEF NumbersInv, PlacesDisjoint
  <2>5. cur.num # NoNum => cur.num \notin WholeNums /\ cur.num \notin FailedNums
    BY <2>4 DEF WholeNums, FailedNums, Settled
  <2>6. NoNum \notin FailedNums
    BY DEF FailedNums
  <2>7. CASE cur.num = NoNum
    BY <1>a, <2>1, <2>3, <2>6, <2>7
  <2>8. CASE cur.num # NoNum
    <3>1. FailedNums' = FailedNums \cup {cur.num} /\ cur.num \in Settled'
      BY <2>1, <2>3, <2>6, <2>8 DEF Settled
    <3>. QED
      BY <1>p, <2>1, <2>2, <2>3, <2>5, <2>8, <3>1
  <2>. QED
    BY <2>7, <2>8
<1>4. CASE WriteLog \/ WriteLogShort
  <2>1. /\ wpc = "write" /\ UNCHANGED <<cur, lost>>
        /\ \/ wpc' = "save" /\ disk' = PutFile(cur.num, [log |-> cur, whole |-> TRUE])
           \/ wpc' = "notify" /\ disk' = PutFile(cur.num, [log |-> cur, whole |-> FALSE])
    BY <1>4 DEF WriteLog, WriteLogShort
  <2>2. /\ [log |-> cur, whole |-> FALSE].whole = FALSE
        /\ [log |-> cur, whole |-> TRUE].whole = TRUE
    OBVIOUS
  <2>3. /\ cur.num \in DOMAIN disk /\ DOMAIN disk' = DOMAIN disk /\ cur.num \in Names
        /\ \A m \in DOMAIN disk : m # cur.num => disk'[m] = disk[m]
        /\ \/ wpc' = "save" /\ disk'[cur.num].whole = TRUE
           \/ wpc' = "notify" /\ disk'[cur.num].whole = FALSE
    <3>1. cur.num \in DOMAIN disk
      BY <2>1 DEF NumbersInv, FileCreated
    <3>2. cur.num \in Names
      BY <3>1 DEF TypeOK
    <3>3. DOMAIN disk \cup {cur.num} = DOMAIN disk
      BY <3>1
    <3>4. PICK f : /\ disk' = PutFile(cur.num, f)
                   /\ \/ wpc' = "save" /\ f.whole = TRUE
                      \/ wpc' = "notify" /\ f.whole = FALSE
      BY <2>1, <2>2
    <3>5. DOMAIN disk' = DOMAIN disk /\ disk'[cur.num] = f
          /\ \A m \in DOMAIN disk : m # cur.num => disk'[m] = disk[m]
      BY <1>f, <3>1, <3>3, <3>4
    <3>. QED
      BY <3>1, <3>2, <3>4, <3>5
  <2>4. CASE cur.num = NoNum
    <3>1. WholeNums' = WholeNums
      BY <1>n, <2>3, <2>4 DEF WholeNums
    <3>2. FailedNums' = FailedNums
      BY <1>n, <2>1, <2>3, <2>4 DEF FailedNums, InProgress
    <3>. QED
      BY <1>a, <2>1, <3>1, <3>2
  <2>5. CASE cur.num # NoNum
    <3>1. ~disk[cur.num].whole /\ cur.num \notin lost
      BY <2>1, <2>3, <2>5 DEF DiskInv, NumbersInv, PlacesDisjoint
    <3>2. cur.num \notin WholeNums /\ cur.num \notin FailedNums /\ cur.num \in Settled
      BY <2>1, <2>3, <3>1 DEF WholeNums, FailedNums, InProgress, Settled
    <3>3. \/ WholeNums' = WholeNums \cup {cur.num} /\ FailedNums' = FailedNums
          \/ WholeNums' = WholeNums /\ FailedNums' = FailedNums \cup {cur.num}
      <4>1. CASE wpc' = "save" /\ disk'[cur.num].whole = TRUE
        <5>1. WholeNums' = WholeNums \cup {cur.num}
          BY <1>n, <2>3, <2>5, <4>1 DEF WholeNums
        <5>2. FailedNums' = FailedNums
          BY <1>n, <2>1, <2>3, <3>1, <4>1 DEF FailedNums, InProgress
        <5>. QED
          BY <5>1, <5>2
      <4>2. CASE wpc' = "notify" /\ disk'[cur.num].whole = FALSE
        <5>1. WholeNums' = WholeNums
          BY <1>n, <2>3, <3>1, <4>2 DEF WholeNums
        <5>2. FailedNums' = FailedNums \cup {cur.num}
          BY <1>n, <2>1, <2>3, <2>5, <4>2 DEF FailedNums, InProgress
        <5>. QED
          BY <5>1, <5>2
      <4>. QED
        BY <2>3, <4>1, <4>2
    <3>. QED
      BY <1>p, <2>1, <2>3, <2>5, <3>2, <3>3
  <2>. QED
    BY <2>4, <2>5
<1>. QED
  BY <1>1, <1>2, <1>3, <1>4 DEF ThreadIoWrite

LEMMA HookRefines ==
  ASSUME TypeOK, NumbersInv, NEW c \in Callers, EnterHook(c) \/ HookStep(c)
  PROVE  [Abstract!Next]_(Abstract!vars)
<1>. USE DEF seqVars, queueVars, writerVars, cnfVars, histVars, msgVars
<1>n. NoNum' = NoNum
  BY DEF NoNum
<1>. DEFINE Goal == [Abstract!Next]_(Abstract!vars)
<1>a. ASSUME UNCHANGED <<disk, wpc, cur>>, lost' \ {NoNum} = lost \ {NoNum} PROVE
        WholeNums' = WholeNums /\ FailedNums' = FailedNums
  BY <1>n, <1>a DEF WholeNums, FailedNums, InProgress
<1>1. ASSUME UNCHANGED <<disk, wpc, cur, lost, setSeq>> PROVE Goal
  BY <1>a, <1>1 DEF Abstract!vars
<1>2. CASE EnterHook(c)
  BY <1>1, <1>2, EnterCases DEF Monitor, Bypass, Enter
<1>3. CASE RunOriginal(c) \/ RunUnlogged(c) \/ BuildLog(c) \/ LinkLog(c) \/ Signal(c) \/ Latch(c)
  BY <1>1, <1>3 DEF RunOriginal, RunUnlogged, BuildLog, LinkLog, Signal, Latch, Return
<1>4. CASE GetMonitorFileSeqNo(c)
  <2>1. UNCHANGED <<disk, wpc, cur, lost>>
    BY <1>4 DEF GetMonitorFileSeqNo
  <2>2. CASE UNCHANGED setSeq
    BY <1>1, <2>1, <2>2
  <2>3. CASE setSeq' = [setSeq EXCEPT ![SetOf[call[c].item]] = @ + 1]
    <3>1. SetOf[call[c].item] \in Sets
      BY <1>4, ConstantsAssumption DEF GetMonitorFileSeqNo, TypeOK
    <3>2. WholeNums' = WholeNums /\ FailedNums' = FailedNums /\ wpc' = wpc
      BY <1>a, <2>1
    <3>3. Abstract!Issue(SetOf[call[c].item])
      BY <2>3, <3>2 DEF Abstract!Issue
    <3>. QED
      BY <3>1, <3>3 DEF Abstract!Next
  <2>. QED
    BY <1>4, <2>2, <2>3 DEF GetMonitorFileSeqNo
<1>5. CASE BuildLogFails(c)
  <2>. DEFINE m == call[c].num
  <2>1. /\ UNCHANGED <<disk, wpc, cur, setSeq>> /\ lost' = lost \cup {m} /\ Holds(c)
    BY <1>5 DEF BuildLogFails, Return, Holds
  <2>2. CASE m = NoNum
    <3>1. WholeNums' = WholeNums /\ FailedNums' = FailedNums
      BY <1>a, <2>1, <2>2
    <3>. QED
      BY <2>1, <3>1 DEF Abstract!vars
  <2>3. CASE m # NoNum
    <3>1. m \in Held
      BY <2>1 DEF Held
    <3>2. m \in Issued /\ m \notin Settled
      BY <2>3, <3>1 DEF NumbersInv, NumbersAccounted, PlacesDisjoint
    <3>3. m \notin WholeNums /\ m \notin FailedNums
      BY <3>2 DEF WholeNums, FailedNums, Settled
    <3>4. WholeNums' = WholeNums /\ FailedNums' = FailedNums \cup {m}
      BY <1>n, <2>1, <2>3 DEF WholeNums, FailedNums, InProgress
    <3>5. PICK t \in Sets : m \in {t} \X (0..(setSeq[t] - 1))
      BY <3>2 DEF Issued
    <3>6. PICK n \in 0..(setSeq[t] - 1) : m = <<t, n>>
      BY <3>5
    <3>7. Abstract!Pending(m)
      BY <3>3, <3>6 DEF Abstract!Pending, TypeOK
    <3>8. Abstract!Fail(m)
      BY <2>1, <3>4, <3>7 DEF Abstract!Fail
    <3>. QED
      BY <3>6, <3>8 DEF Abstract!Next, Abstract!Settle
  <2>. QED
    BY <2>2, <2>3
<1>. QED
  BY <1>2, <1>3, <1>4, <1>5 DEF HookStep

(* ImplementsNumberedLog of IoLog: seen through the counters, the whole logs   *)
(* and the failures, each step of the hooks and of the thread issues one      *)
(* number, gives one its outcome, closes the log, or changes nothing; an      *)
(* outcome is never revised.                                                 *)
THEOREM PipelineImplementsLog == Spec => ImplementsNumberedLog
<1>1. Init => Abstract!Init
  BY DEF Init, Abstract!Init, WholeNums, FailedNums, InProgress
<1>2. TypeOK /\ NumbersInv /\ DiskInv /\ [Next]_vars => [Abstract!Next]_(Abstract!vars)
  <2>. SUFFICES ASSUME TypeOK, NumbersInv, DiskInv, [Next]_vars PROVE [Abstract!Next]_(Abstract!vars)
    OBVIOUS
  <2>1. CASE ExitRtbackup \/ UNCHANGED vars
    <3>1. UNCHANGED <<setSeq, disk, wpc, cur, lost>>
      BY <2>1 DEF ExitRtbackup, vars, hookVars, seqVars, queueVars, writerVars, cnfVars, histVars, msgVars
    <3>2. WholeNums' = WholeNums /\ FailedNums' = FailedNums
      BY <3>1 DEF WholeNums, FailedNums, InProgress, NoNum
    <3>. QED
      BY <3>1, <3>2 DEF Abstract!vars
  <2>. QED
    BY <2>1, HookRefines, ThreadRefines DEF Next
<1>. QED
  BY <1>1, <1>2, DiskAlways, PTL DEF Spec, ImplementsNumberedLog, Abstract!Spec
=============================================================================
