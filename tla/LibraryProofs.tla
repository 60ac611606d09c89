---------------------------- MODULE LibraryProofs ----------------------------
(***************************************************************************)
(* Proofs about the library (UserLibrary): its types, that the socket it    *)
(* keeps is usable, that it brings its application down only after trouble, *)
(* and that the messages are delivered in order.                            *)
(***************************************************************************)
EXTENDS UserLibrary, SequenceTheorems, TLAPS

(* Whatever else has happened: between two calls, and while the thread is    *)
(* started, the pointer leads to the socket that holds the address.          *)
SocketInv ==
  app \in {"idle", "spawn"} /\ psock # Null => heap[psock] = "open" /\ port = psock

(* As long as nothing has gone wrong: there is at most one socket and one    *)
(* receiving thread, which started after p_sock was set.                     *)
OneSocket ==
  /\ app \in {"idle", "init", "spawn"}
  /\ psock = inits /\ inits <= 1
  /\ app # "idle" => inits = 1
  /\ inits = 0 \/ app = "init" =>
       accepted = 0 /\ delivered = <<>> /\ inbox = <<>> /\ port = Null
OneThread ==
  \A t \in Threads : tpc[t] # "none" =>
    /\ t = 1 /\ inits = 1 /\ app = "idle"
    /\ tpc[t] = "recv" => tsock[t] # Null
NoTroubleInv == ~trouble => OneSocket /\ OneThread

LibraryInv == TypeOK /\ SocketInv /\ NoTroubleInv

-----------------------------------------------------------------------------
(* Types *)

(* What the operations on the queue and on the delivered messages return. *)
LEMMA EmptyQueue == <<>> \in Seq(Nat)
OBVIOUS

LEMMA Appended ==
  ASSUME NEW q \in Seq(Nat), NEW m \in Nat
  PROVE  Append(q, m) \in Seq(Nat)
OBVIOUS

LEMMA Taken ==
  ASSUME NEW q \in Seq(Nat), q # <<>>
  PROVE  Head(q) \in Nat /\ Tail(q) \in Seq(Nat)
OBVIOUS

LEMMA LibraryInitInv == Init => LibraryInv
<1>. SUFFICES ASSUME Init PROVE LibraryInv
  OBVIOUS
<1>. USE DEF Init, Socks, Threads, Null
<1>1. inbox \in Seq(Nat) /\ delivered \in Seq(Nat)
  BY EmptyQueue
<1>2. FALSE \in BOOLEAN
  OBVIOUS
<1>3. TypeOK
  <2>1. inits \in 0..MaxInits /\ psock \in 0..inits /\ port \in 0..inits
    BY LibraryAssumption
  <2>2. heap \in [Socks -> {"none", "fresh", "open", "zeroed", "freed"}]
    OBVIOUS
  <2>3. tpc \in [Threads -> {"none", "top", "recv", "blocked", "process", "sleep"}]
    OBVIOUS
  <2>4. tsock \in [Threads -> 0..inits] /\ tmsg \in [Threads -> Nat]
    OBVIOUS
  <2>5. accepted \in Nat /\ trouble \in BOOLEAN /\ app = "idle"
    BY <1>2
  <2>. HIDE DEF Init
  <2>. QED
    BY <1>1, <2>1, <2>2, <2>3, <2>4, <2>5 DEF TypeOK
<1>4. SocketInv
  BY DEF SocketInv
<1>5. OneSocket /\ OneThread
  BY LibraryAssumption DEF OneSocket, OneThread
<1>. QED
  BY <1>3, <1>4, <1>5 DEF LibraryInv, NoTroubleInv

LEMMA ArrivesType ==
  ASSUME TypeOK, Arrives
  PROVE  inbox' \in Seq(Nat) /\ accepted' \in Nat /\ port' = port
BY DEF TypeOK, Arrives

LEMMA TypeStep ==
  ASSUME TypeOK, [Next]_vars
  PROVE  TypeOK'
<1> USE LibraryAssumption DEF TypeOK, Socks, Threads, Null, AppGoes, ThreadGoes
<1>1. CASE InitCommunicate
  BY <1>1 DEF InitCommunicate, socketVars, threadVars
<1>2. CASE InitCommunicateWithoutMemory
  BY <1>2 DEF InitCommunicateWithoutMemory, socketVars, threadVars
<1>3. CASE NetlinkSockInit
  BY <1>3 DEF NetlinkSockInit, threadVars
<1>4. CASE NetlinkSockInitFails
  BY <1>4 DEF NetlinkSockInitFails, socketVars, threadVars
<1>5. CASE DiscardSock
  BY <1>5 DEF DiscardSock, socketVars, threadVars
<1>6. CASE StartThread
  BY <1>6 DEF StartThread, socketVars
<1>7. CASE SendQuery
  BY <1>7, ArrivesType DEF SendQuery, appVars, threadVars
<1>8. CASE NetlinkSockDeinit
  <2>1. inbox' \in Seq(Nat) /\ port' \in 0..inits'
    <3>1. CASE BlockedOn(psock) = {}
      BY <1>8, <3>1, EmptyQueue DEF NetlinkSockDeinit
    <3>2. CASE BlockedOn(psock) # {}
      BY <1>8, <3>2 DEF NetlinkSockDeinit
    <3>. QED
      BY <3>1, <3>2
  <2>. QED
    BY <1>8, <2>1 DEF NetlinkSockDeinit, threadVars
<1>9. CASE UnInitCommunicate
  BY <1>9 DEF UnInitCommunicate, socketVars, threadVars
<1>10. CASE NotifyUserStatus
  BY <1>10, ArrivesType DEF NotifyUserStatus, appVars, threadVars
<1>11. ASSUME NEW t \in Threads, ThreadEntry(t) PROVE TypeOK'
  <2>1. CASE RecvNull(t)
    BY <2>1 DEF RecvNull, socketVars, threadVars
  <2>2. CASE RecvReturns(t)
    <3>1. Head(inbox) \in Nat /\ Tail(inbox) \in Seq(Nat)
      BY <2>2, Taken DEF RecvReturns
    <3>2. inbox' \in Seq(Nat) /\ port' \in 0..inits
      <4>1. CASE heap[port] # "open" /\ BlockedOn(port) = {t}
        BY <2>2, <4>1, EmptyQueue DEF RecvReturns
      <4>2. CASE ~(heap[port] # "open" /\ BlockedOn(port) = {t})
        BY <2>2, <4>2, <3>1 DEF RecvReturns
      <4>. QED
        BY <4>1, <4>2
    <3>. QED
      BY <2>2, <3>1, <3>2 DEF RecvReturns, appVars
  <2>3. CASE ProcessRecvMessage(t)
    <3>1. delivered' \in Seq(Nat)
      BY <2>3, Appended DEF ProcessRecvMessage
    <3>. QED
      BY <2>3, <3>1 DEF ProcessRecvMessage, appVars, socketVars
  <2>4. CASE CallNetlinkRecv(t)
    BY <2>4 DEF CallNetlinkRecv, appVars, socketVars
  <2>5. CASE CallNetlinkRecvWithoutMemory(t) \/ RecvBlocks(t) \/ RecvFails(t) \/ Sleep(t)
    BY <2>5 DEF CallNetlinkRecvWithoutMemory, RecvBlocks, RecvFails, Sleep, appVars, socketVars
  <2>. QED
    BY <1>11, <2>1, <2>2, <2>3, <2>4, <2>5 DEF ThreadEntry
<1>12. CASE UNCHANGED vars
  BY <1>12 DEF vars
<1>. QED
  BY <1>1, <1>2, <1>3, <1>4, <1>5, <1>6, <1>7, <1>8, <1>9, <1>10, <1>11, <1>12 DEF Next

-----------------------------------------------------------------------------
(* The socket *)

LEMMA SocketStep ==
  ASSUME TypeOK, SocketInv, [Next]_vars
  PROVE  SocketInv'
<1> USE LibraryAssumption DEF TypeOK, SocketInv, Socks, Threads, Null, AppGoes, ThreadGoes
<1>1. CASE InitCommunicate \/ InitCommunicateWithoutMemory \/ NetlinkSockInitFails
           \/ NetlinkSockDeinit \/ DiscardSock \/ UnInitCommunicate
  BY <1>1 DEF InitCommunicate, InitCommunicateWithoutMemory, NetlinkSockInitFails,
              NetlinkSockDeinit, DiscardSock, UnInitCommunicate
<1>2. CASE NetlinkSockInit
  BY <1>2 DEF NetlinkSockInit
<1>3. CASE StartThread
  BY <1>3 DEF StartThread, socketVars
<1>4. CASE SendQuery \/ NotifyUserStatus
  BY <1>4 DEF SendQuery, NotifyUserStatus, Arrives, appVars
<1>5. ASSUME NEW t \in Threads, ThreadEntry(t) PROVE SocketInv'
  <2>1. CASE RecvNull(t)
    BY <2>1 DEF RecvNull
  <2>2. CASE RecvReturns(t)
    BY <2>2 DEF RecvReturns, appVars
  <2>3. CASE UNCHANGED <<appVars, socketVars>>
    BY <2>3 DEF appVars, socketVars
  <2>. QED
    BY <1>5, <2>1, <2>2, <2>3
       DEF ThreadEntry, CallNetlinkRecv, CallNetlinkRecvWithoutMemory, RecvBlocks, RecvFails,
           ProcessRecvMessage, Sleep
<1>6. CASE UNCHANGED vars
  BY <1>6 DEF vars
<1>. QED
  BY <1>1, <1>2, <1>3, <1>4, <1>5, <1>6 DEF Next

-----------------------------------------------------------------------------
(* Before any trouble *)

LEMMA NoTroubleStep ==
  ASSUME TypeOK, SocketInv, NoTroubleInv, [Next]_vars
  PROVE  NoTroubleInv'
<1> SUFFICES ASSUME ~trouble' PROVE OneSocket' /\ OneThread'
  BY DEF NoTroubleInv
<1> USE LibraryAssumption DEF TypeOK, Socks, Threads, Null, AppGoes, ThreadGoes
<1>1. CASE InitCommunicate
  <2>1. ~trouble /\ OneSocket /\ OneThread
    BY <1>1 DEF InitCommunicate, NoTroubleInv
  <2>2. inits = 0 /\ \A t \in Threads : tpc[t] = "none"
    BY <1>1, <2>1 DEF InitCommunicate, OneSocket, OneThread
  <2>. QED
    BY <1>1, <2>1, <2>2 DEF InitCommunicate, OneSocket, OneThread, socketVars, threadVars
<1>2. CASE InitCommunicateWithoutMemory \/ NetlinkSockInitFails \/ NetlinkSockDeinit
  BY <1>2 DEF InitCommunicateWithoutMemory, NetlinkSockInitFails, NetlinkSockDeinit
<1>3. CASE DiscardSock \/ UnInitCommunicate
  BY <1>3 DEF DiscardSock, UnInitCommunicate, NoTroubleInv, OneSocket
<1>4. CASE NetlinkSockInit
  BY <1>4 DEF NetlinkSockInit, NoTroubleInv, OneSocket, OneThread, threadVars
<1>5. CASE StartThread
  BY <1>5 DEF StartThread, NoTroubleInv, OneSocket, OneThread, socketVars
<1>6. CASE SendQuery \/ NotifyUserStatus
  BY <1>6 DEF SendQuery, NotifyUserStatus, Arrives, NoTroubleInv, OneSocket, OneThread,
              appVars, threadVars
<1>7. ASSUME NEW t \in Threads, ThreadEntry(t) PROVE OneSocket' /\ OneThread'
  <2>1. ~trouble /\ tpc[t] # "none"
    BY <1>7 DEF ThreadEntry, CallNetlinkRecv, CallNetlinkRecvWithoutMemory, RecvNull, RecvBlocks,
                RecvFails, RecvReturns, ProcessRecvMessage, Sleep, appVars
  <2>2. OneSocket /\ OneThread
    BY <2>1 DEF NoTroubleInv
  <2>3. ~RecvNull(t)
    BY <2>2 DEF RecvNull, OneThread
  <2>4. UNCHANGED <<app, psock, inits>>
    BY <1>7, <2>3 DEF ThreadEntry, CallNetlinkRecv, CallNetlinkRecvWithoutMemory, RecvBlocks,
                RecvFails, RecvReturns, ProcessRecvMessage, Sleep, appVars
  <2>5. OneSocket'
    BY <2>1, <2>2, <2>4 DEF OneSocket, OneThread
  <2>6. /\ \A u \in Threads \ {t} : tpc'[u] = tpc[u]
        /\ tpc'[t] = "recv" => tsock'[t] = psock
    BY <1>7, <2>3 DEF ThreadEntry, CallNetlinkRecv, CallNetlinkRecvWithoutMemory, RecvBlocks,
                      RecvFails, RecvReturns, ProcessRecvMessage, Sleep
  <2>. QED
    BY <2>1, <2>2, <2>4, <2>5, <2>6 DEF OneSocket, OneThread
<1>8. CASE UNCHANGED vars
  BY <1>8 DEF vars, NoTroubleInv, OneSocket, OneThread
<1>. QED
  BY <1>1, <1>2, <1>3, <1>4, <1>5, <1>6, <1>7, <1>8 DEF Next

-----------------------------------------------------------------------------
(* Delivery. What has been delivered and what is still on its way add up to   *)
(* the messages the kernel has queued.                                        *)

Numbers(n) == [i \in 1..n |-> i]
Pending ==
  IF 1 \in Threads /\ tpc[1] = "process" THEN <<tmsg[1]>> \o inbox ELSE inbox
OrderInv == ~trouble => delivered \o Pending = Numbers(accepted)

LEMMA SingleSeq == ASSUME NEW m \in Nat PROVE <<m>> \in Seq(Nat) /\ Len(<<m>>) = 1
OBVIOUS

(* One more message at the end of the queue. *)
LEMMA QueuedLast ==
  ASSUME NEW s \in Seq(Nat), NEW n \in Nat, s = Numbers(n)
  PROVE  s \o <<n + 1>> = Numbers(n + 1)
<1>1. Len(s) = n
  <2>1. DOMAIN s = 1..n
    BY DEF Numbers
  <2>. QED
    BY <2>1, LenProperties
<1>2. /\ s \o <<n + 1>> \in Seq(Nat) /\ Len(s \o <<n + 1>>) = n + 1
      /\ \A i \in 1..(n + 1) : (s \o <<n + 1>>)[i] = IF i <= n THEN s[i] ELSE <<n + 1>>[i - n]
  BY <1>1, SingleSeq, ConcatProperties
<1>3. \A i \in 1..(n + 1) : (s \o <<n + 1>>)[i] = i
  BY <1>2 DEF Numbers
<1>4. s \o <<n + 1>> = [i \in 1..(n + 1) |-> (s \o <<n + 1>>)[i]]
  BY <1>2, LenProperties
<1>. QED
  BY <1>3, <1>4 DEF Numbers

LEMMA AppendOneIsConcat ==
  ASSUME NEW s \in Seq(Nat), NEW m \in Nat
  PROVE  Append(s, m) = s \o <<m>>
OBVIOUS

LEMMA HeadThenTail ==
  ASSUME NEW s \in Seq(Nat), s # <<>>
  PROVE  <<Head(s)>> \o Tail(s) = s
<1>1. Head(s) \in Nat /\ Tail(s) \in Seq(Nat) /\ Len(s) \in Nat \ {0} /\ Len(Tail(s)) = Len(s) - 1
  BY HeadTailProperties, EmptySeq
<1>. DEFINE u == <<Head(s)>> \o Tail(s)
<1>2. /\ u \in Seq(Nat) /\ Len(u) = Len(s)
      /\ \A i \in 1..Len(s) : u[i] = IF i <= 1 THEN <<Head(s)>>[i] ELSE Tail(s)[i - 1]
  BY <1>1, SingleSeq, ConcatProperties
<1>3. \A i \in 1..Len(s) : u[i] = s[i]
  BY <1>1, <1>2, HeadTailProperties
<1>. QED
  BY <1>2, <1>3, SeqEqual

LEMMA PendingType == ASSUME TypeOK PROVE Pending \in Seq(Nat)
BY SingleSeq, ConcatProperties DEF TypeOK, Pending, Threads

(* A step that takes nothing out of one place but into the next. *)
LEMMA NothingMoves ==
  ASSUME TypeOK, OrderInv, ~trouble' => ~trouble,
         UNCHANGED <<delivered, accepted>>, ~trouble' => Pending' = Pending
  PROVE  OrderInv'
BY DEF OrderInv, Numbers

LEMMA OrderStep ==
  ASSUME LibraryInv, LibraryInv', OrderInv, [Next]_vars
  PROVE  OrderInv'
<1>0. /\ TypeOK /\ TypeOK' /\ SocketInv
      /\ ~trouble' => ~trouble
      /\ ~trouble => OneSocket /\ OneThread
  <2>1. ~trouble' => ~trouble
    BY DEF Next, vars, InitCommunicate, InitCommunicateWithoutMemory, NetlinkSockInit,
           NetlinkSockInitFails, DiscardSock, StartThread, SendQuery, NetlinkSockDeinit,
           UnInitCommunicate, NotifyUserStatus, ThreadEntry, CallNetlinkRecv,
           CallNetlinkRecvWithoutMemory, RecvNull, RecvBlocks, RecvFails, RecvReturns,
           ProcessRecvMessage, Sleep, appVars
  <2>. QED
    BY <2>1 DEF LibraryInv, NoTroubleInv
<1>. SUFFICES ASSUME ~trouble' PROVE OrderInv'
  BY DEF OrderInv
<1>. USE DEF TypeOK, Threads, Null
<1>1. CASE \/ InitCommunicate \/ InitCommunicateWithoutMemory \/ NetlinkSockInitFails
           \/ DiscardSock \/ UnInitCommunicate \/ UNCHANGED vars
  <2>1. UNCHANGED <<tpc, tmsg, inbox, delivered, accepted>>
    BY <1>1 DEF InitCommunicate, InitCommunicateWithoutMemory, NetlinkSockInitFails,
                DiscardSock, UnInitCommunicate, vars, socketVars, threadVars
  <2>. QED
    BY <1>0, <2>1, NothingMoves DEF Pending
<1>2. CASE NetlinkSockDeinit
  BY <1>2 DEF NetlinkSockDeinit
<1>3. CASE NetlinkSockInit
  <2>1. inbox = <<>> /\ inbox' = <<>>
    BY <1>0, <1>3 DEF NetlinkSockInit, AppGoes, OneSocket
  <2>2. UNCHANGED <<tpc, tmsg, delivered, accepted>>
    BY <1>3 DEF NetlinkSockInit, threadVars
  <2>. QED
    BY <1>0, <2>1, <2>2, NothingMoves DEF Pending
<1>4. CASE StartThread
  <2>1. UNCHANGED <<tmsg, inbox, delivered, accepted>>
    BY <1>4 DEF StartThread, socketVars
  <2>2. 1 \in Threads => tpc[1] # "process" /\ tpc'[1] # "process"
    BY <1>0, <1>4 DEF StartThread, AppGoes, OneThread
  <2>. QED
    BY <1>0, <2>1, <2>2, NothingMoves DEF Pending
<1>5. CASE SendQuery \/ NotifyUserStatus
  <2>1. /\ accepted' = accepted + 1 /\ inbox' = Append(inbox, accepted + 1)
        /\ UNCHANGED <<tpc, tmsg, delivered>>
    BY <1>5 DEF SendQuery, NotifyUserStatus, Arrives, threadVars
  <2>2. inbox' = inbox \o <<accepted + 1>> /\ <<accepted + 1>> \in Seq(Nat)
    BY <1>0, <2>1, AppendOneIsConcat, SingleSeq
  <2>3. Pending' = Pending \o <<accepted + 1>>
    <3>1. CASE 1 \in Threads /\ tpc[1] = "process"
      <4>1. tmsg[1] \in Nat /\ inbox \in Seq(Nat)
        BY <1>0, <3>1
      <4>. HIDE DEF TypeOK
      <4>2. <<tmsg[1]>> \in Seq(Nat)
        BY <4>1, SingleSeq
      <4>3. (<<tmsg[1]>> \o inbox) \o <<accepted + 1>> = <<tmsg[1]>> \o (inbox \o <<accepted + 1>>)
        BY <2>2, <4>1, <4>2, ConcatAssociative
      <4>. QED
        BY <2>1, <2>2, <3>1, <4>3 DEF Pending
    <3>2. CASE ~(1 \in Threads /\ tpc[1] = "process")
      BY <2>1, <2>2, <3>2 DEF Pending
    <3>. QED
      BY <3>1, <3>2
  <2>4. Pending \in Seq(Nat) /\ delivered \in Seq(Nat) /\ accepted \in Nat
    BY <1>0, PendingType
  <2>. HIDE DEF TypeOK
  <2>5. delivered' \o Pending' = (delivered \o Pending) \o <<accepted + 1>>
    BY <2>1, <2>2, <2>3, <2>4, ConcatAssociative
  <2>6. delivered \o Pending \in Seq(Nat) /\ delivered \o Pending = Numbers(accepted)
    BY <1>0, <2>4, ConcatProperties DEF OrderInv
  <2>7. delivered' \o Pending' = Numbers(accepted + 1)
    BY <2>4, <2>5, <2>6, QueuedLast
  <2>. QED
    BY <2>1, <2>7 DEF OrderInv
<1>6. ASSUME NEW t \in Threads, ThreadEntry(t) PROVE OrderInv'
  <2>1. t = 1 /\ app = "idle" /\ psock = 1
    BY <1>0, <1>6 DEF ThreadEntry, CallNetlinkRecv, CallNetlinkRecvWithoutMemory, RecvNull, RecvBlocks,
                RecvFails, RecvReturns, ProcessRecvMessage, Sleep, ThreadGoes, OneSocket, OneThread
  <2>2. CASE RecvReturns(t)
    <3>1. heap[port] = "open" /\ inbox # <<>>
      BY <1>0, <2>1, <2>2 DEF RecvReturns, SocketInv
    <3>2. /\ inbox' = Tail(inbox) /\ tmsg'[1] = Head(inbox)
          /\ tpc[1] = "blocked" /\ tpc'[1] = "process"
          /\ UNCHANGED <<delivered, accepted>>
      BY <1>0, <2>1, <2>2, <3>1 DEF RecvReturns, ThreadGoes
    <3>3. Pending = inbox /\ Pending' = <<Head(inbox)>> \o Tail(inbox)
      BY <2>1, <3>2 DEF Pending
    <3>4. Pending' = Pending
      BY <1>0, <3>1, <3>3, HeadThenTail
    <3>. QED
      BY <1>0, <3>2, <3>4, NothingMoves
  <2>3. CASE ProcessRecvMessage(t)
    <3>1. /\ tpc[1] = "process" /\ tpc'[1] = "sleep"
          /\ delivered' = Append(delivered, tmsg[1])
          /\ UNCHANGED <<inbox, accepted>>
      BY <1>0, <2>1, <2>3 DEF ProcessRecvMessage, ThreadGoes, socketVars
    <3>2. tmsg[1] \in Nat /\ inbox \in Seq(Nat) /\ delivered \in Seq(Nat)
      BY <1>0, <2>1
    <3>. HIDE DEF TypeOK
    <3>3. delivered' = delivered \o <<tmsg[1]>> /\ <<tmsg[1]>> \in Seq(Nat)
      BY <3>1, <3>2, AppendOneIsConcat, SingleSeq
    <3>4. Pending = <<tmsg[1]>> \o inbox /\ Pending' = inbox
      BY <2>1, <3>1 DEF Pending
    <3>5. delivered' \o Pending' = delivered \o Pending
      <4>1. (delivered \o <<tmsg[1]>>) \o inbox = delivered \o (<<tmsg[1]>> \o inbox)
        BY <3>2, <3>3, ConcatAssociative
      <4>. QED
        BY <3>3, <3>4, <4>1
    <3>. QED
      BY <1>0, <3>1, <3>5 DEF OrderInv
  <2>4. CASE ~RecvReturns(t) /\ ~ProcessRecvMessage(t)
    <3>1. UNCHANGED <<tmsg, inbox, delivered, accepted>>
      BY <1>6, <2>4 DEF ThreadEntry, CallNetlinkRecv, CallNetlinkRecvWithoutMemory, RecvNull,
                        RecvBlocks, RecvFails, Sleep, socketVars, threadVars
    <3>2. \/ UNCHANGED tpc
          \/ tpc[1] # "process" /\ tpc'[1] # "process"
      BY <1>0, <1>6, <2>1, <2>4
         DEF ThreadEntry, CallNetlinkRecv, CallNetlinkRecvWithoutMemory, RecvNull,
             RecvBlocks, RecvFails, Sleep, ThreadGoes, threadVars
    <3>3. Pending' = Pending
      BY <3>1, <3>2 DEF Pending
    <3>. QED
      BY <1>0, <3>1, <3>3, NothingMoves
  <2>. QED
    BY <2>2, <2>3, <2>4
<1>. QED
  BY <1>1, <1>2, <1>3, <1>4, <1>5, <1>6 DEF Next

(* The message in the one thread's hands is the one Unread counts. *)
LEMMA UnreadIsPending ==
  ASSUME OneThread
  PROVE  Unread = Pending
<1>. DEFINE T == {u \in Threads : tpc[u] = "process"}
<1>1. CASE 1 \in Threads /\ tpc[1] = "process"
  <2>1. T = {1}
    BY <1>1 DEF OneThread
  <2>2. (CHOOSE u \in T : TRUE) = 1
    BY <2>1
  <2>. QED
    BY <1>1, <2>1, <2>2 DEF Unread, Pending
<1>2. CASE ~(1 \in Threads /\ tpc[1] = "process")
  <2>1. T = {}
    BY <1>2 DEF OneThread
  <2>. QED
    BY <1>2, <2>1 DEF Unread, Pending
<1>. QED
  BY <1>1, <1>2

-----------------------------------------------------------------------------
(* The theorems *)

LEMMA LibraryInvariant == Spec => []LibraryInv
<1>1. LibraryInv /\ [Next]_vars => LibraryInv'
  BY TypeStep, SocketStep, NoTroubleStep DEF LibraryInv
<1>. QED
  BY <1>1, LibraryInitInv, PTL DEF Spec

(* Every variable of the library keeps its type, for any number of           *)
(* initialisations, threads and messages and any set of failures.            *)
THEOREM LibraryTypeCorrect == Spec => []TypeOK
<1>1. LibraryInv => TypeOK
  BY DEF LibraryInv
<1>. QED
  BY <1>1, LibraryInvariant, PTL

(* The thread that reads p_sock in every round finds it null only after the  *)
(* application uninitialised the library or an initialisation failed.        *)
THEOREM NoCrashBeforeTrouble == Spec => []CrashOnlyAfterTrouble
<1>1. LibraryInv => CrashOnlyAfterTrouble
  BY DEF LibraryInv, NoTroubleInv, OneSocket, CrashOnlyAfterTrouble
<1>. QED
  BY <1>1, LibraryInvariant, PTL

(* Between two calls of the library p_sock is null or leads to the open      *)
(* socket that holds the address, whatever failed before.                    *)
THEOREM SocketStaysUsable == Spec => []SocketUsable
<1>1. LibraryInv => SocketUsable
  BY DEF LibraryInv, SocketInv, SocketUsable
<1>. QED
  BY <1>1, LibraryInvariant, PTL

(* Before any trouble nothing is lost between the socket and the callback,   *)
(* delivered twice or out of order, for any number of messages and any size  *)
(* of the receive buffer.                                                    *)
THEOREM MessagesKeepTheirOrder == Spec => []DeliveredInOrder
<1>1. Init => OrderInv
  <2>1. Init => Pending = <<>>
    BY DEF Init, Pending
  <2>2. <<>> \o <<>> = <<>> /\ Numbers(0) = <<>>
    BY DEF Numbers
  <2>. QED
    BY <2>1, <2>2 DEF Init, OrderInv
<1>2. LibraryInv /\ LibraryInv' /\ OrderInv /\ [Next]_vars => OrderInv'
  BY OrderStep
<1>3. LibraryInv /\ OrderInv => DeliveredInOrder
  BY UnreadIsPending DEF LibraryInv, NoTroubleInv, OrderInv, Numbers, DeliveredInOrder
<1>. QED
  BY <1>1, <1>2, <1>3, LibraryInvariant, PTL DEF Spec
=============================================================================
