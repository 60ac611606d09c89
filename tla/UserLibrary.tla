----------------------------- MODULE UserLibrary -----------------------------
(***************************************************************************)
(* The library a management application links with (communicate.c): one    *)
(* global pointer to a netlink socket, set and cleared by the thread that   *)
(* calls the library, and read in a loop by the receiving thread that       *)
(* InitCommunicate starts and that nothing ever stops.                      *)
(*                                                                         *)
(* The application calls the library from one thread, as main.c does, with  *)
(* its callback registered. Messages are numbered in the order in which the *)
(* kernel puts them on the socket.                                          *)
(***************************************************************************)
EXTENDS Naturals, Sequences

CONSTANTS
  MaxInits,   \* bound: calls of InitCommunicate that allocate a socket
  MaxMsgs,    \* bound: messages from the driver
  RcvBuf,     \* messages the socket holds; the kernel drops what comes after
  Faults      \* what may fail, a subset of AllFaults

AllFaults == {"malloc", "bind", "thread"}

ASSUME LibraryAssumption ==
  /\ MaxInits \in Nat
  /\ MaxMsgs \in Nat
  /\ RcvBuf \in Nat \ {0}
  /\ Faults \subseteq AllFaults

Socks   == 1..MaxInits
Threads == 1..MaxInits
Null    == 0

VARIABLES
  psock,     \* p_sock
  heap,      \* the netlink_sock structures
  inits,     \* how many of them have been allocated
  port,      \* the socket bound to the address RTB_CMD
  inbox,     \* the messages queued on it
  app,       \* where the application's thread is in the library
  tpc,       \* where each receiving thread is
  tsock,     \* the structure it was given
  tmsg,      \* the message it has read
  accepted,  \* history: how many messages the kernel has queued
  delivered, \* history: the messages the callback was called with
  trouble    \* history: UnInitCommunicate was called, or an initialisation failed

appVars    == <<psock, heap, inits, app, trouble>>
socketVars == <<port, inbox, accepted>>
threadVars == <<tpc, tsock, tmsg, delivered>>
vars == <<psock, heap, inits, port, inbox, app, tpc, tsock, tmsg, accepted,
          delivered, trouble>>

Init ==
  /\ psock = Null /\ inits = 0
  /\ heap = [s \in Socks |-> "none"]
  /\ port = Null /\ inbox = <<>>
  /\ app = "idle"
  /\ tpc = [t \in Threads |-> "none"]
  /\ tsock = [t \in Threads |-> Null]
  /\ tmsg = [t \in Threads |-> 0]
  /\ accepted = 0 /\ delivered = <<>>
  /\ trouble = FALSE

AppGoes(from, to)       == app = from /\ app' = to
ThreadGoes(t, from, to) == app # "crashed" /\ tpc[t] = from /\ tpc' = [tpc EXCEPT ![t] = to]

(* A socket lives as long as its descriptor is open or a thread is blocked   *)
(* in recvmsg on it, and keeps its address so long.                          *)
BlockedOn(s) == {t \in Threads : tpc[t] = "blocked" /\ tsock[t] = s}

-----------------------------------------------------------------------------
(* InitCommunicate. With p_sock set it returns at once. *)

(* Deviation: the receiving thread is started before p_sock is assigned. *)
InitCommunicateThreadFirst ==
  /\ AppGoes("idle", "init")
  /\ psock = Null /\ inits < MaxInits
  /\ inits' = inits + 1
  /\ heap' = [heap EXCEPT ![inits + 1] = "fresh"]
  /\ tpc' = [tpc EXCEPT ![inits + 1] = "top"]
  /\ UNCHANGED <<psock, socketVars, tsock, tmsg, delivered, trouble>>

InitCommunicate ==
  /\ AppGoes("idle", "init")
  /\ psock = Null /\ inits < MaxInits
  /\ inits' = inits + 1
  /\ psock' = inits + 1
  /\ heap' = [heap EXCEPT ![inits + 1] = "fresh"]
  /\ UNCHANGED <<socketVars, threadVars, trouble>>

(* A failed malloc is reported and then written through. *)
InitCommunicateWithoutMemory ==
  /\ "malloc" \in Faults
  /\ AppGoes("idle", "crashed")
  /\ psock = Null /\ inits < MaxInits
  /\ trouble' = TRUE
  /\ UNCHANGED <<psock, heap, inits, socketVars, threadVars>>

(* bind succeeds only for an address nobody holds. *)
NetlinkSockInit ==
  /\ AppGoes("init", "spawn")
  /\ port = Null
  /\ port' = psock /\ inbox' = <<>>
  /\ heap' = [heap EXCEPT ![psock] = "open"]
  /\ UNCHANGED <<psock, inits, accepted, threadVars, trouble>>

NetlinkSockInitFails ==
  /\ AppGoes("init", "discard")
  /\ port # Null \/ "bind" \in Faults
  /\ heap' = [heap EXCEPT ![psock] = "freed"]
  /\ trouble' = TRUE
  /\ UNCHANGED <<psock, inits, socketVars, threadVars>>

(* Deviation: the pointer to the freed structure is kept. *)
KeepSock ==
  /\ AppGoes("discard", "spawn")
  /\ UNCHANGED <<psock, heap, inits, socketVars, threadVars, trouble>>

DiscardSock ==
  /\ AppGoes("discard", "spawn")
  /\ psock' = Null
  /\ UNCHANGED <<heap, inits, socketVars, threadVars, trouble>>

(* pthread_create, whether the socket is there or not. *)
StartThread ==
  /\ AppGoes("spawn", "idle")
  /\ \/ tpc' = [tpc EXCEPT ![inits] = "top"]
     \/ "thread" \in Faults /\ UNCHANGED tpc
  /\ UNCHANGED <<psock, heap, inits, socketVars, tsock, tmsg, delivered, trouble>>

-----------------------------------------------------------------------------
(* The rest of the interface *)

Arrives ==
  /\ accepted < MaxMsgs
  /\ accepted' = accepted + 1
  /\ inbox' = Append(inbox, accepted + 1)
  /\ Len(inbox) < RcvBuf
  /\ UNCHANGED port

(* SendConfig with a query: the driver handles it inside sendmsg, and its    *)
(* answer is queued when the call returns. Without p_sock it returns -2; the *)
(* other commands leave nothing here.                                        *)
SendQuery ==
  /\ app = "idle" /\ psock # Null
  /\ port # Null
  /\ Arrives
  /\ UNCHANGED <<appVars, threadVars>>

(* netlink_sock_deinit closes the socket and zeroes the structure; neither   *)
(* the structure nor the thread is given up.                                 *)
NetlinkSockDeinit ==
  /\ AppGoes("idle", "forget")
  /\ psock # Null
  /\ heap' = [heap EXCEPT ![psock] = "zeroed"]
  /\ IF BlockedOn(psock) = {} THEN port' = Null /\ inbox' = <<>>
                              ELSE UNCHANGED <<port, inbox>>
  /\ trouble' = TRUE
  /\ UNCHANGED <<psock, inits, accepted, threadVars>>

UnInitCommunicate ==
  /\ AppGoes("forget", "idle")
  /\ psock' = Null
  /\ UNCHANGED <<heap, inits, socketVars, threadVars, trouble>>

(* The driver reports an error of its own accord (notify_user_status). *)
NotifyUserStatus ==
  /\ app # "crashed" /\ port # Null
  /\ Arrives
  /\ UNCHANGED <<appVars, threadVars>>

-----------------------------------------------------------------------------
(* thread_entry *)

(* The argument p_sock is evaluated; the megabyte netlink_recv allocates     *)
(* before it looks at the structure leaves time for the other thread.        *)
CallNetlinkRecv(t) ==
  /\ ThreadGoes(t, "top", "recv")
  /\ tsock' = [tsock EXCEPT ![t] = psock]
  /\ UNCHANGED <<appVars, socketVars, tmsg, delivered>>

CallNetlinkRecvWithoutMemory(t) ==
  /\ "malloc" \in Faults
  /\ ThreadGoes(t, "top", "sleep")
  /\ UNCHANGED <<appVars, socketVars, tsock, tmsg, delivered>>

(* src.nl_pid and sock are read: a null pointer is fatal, a zeroed or        *)
(* unfinished structure makes recvmsg fail, a freed one makes it fail or     *)
(* wait on a socket that has no address.                                     *)
RecvNull(t) ==
  /\ app # "crashed" /\ app' = "crashed"
  /\ tpc[t] = "recv" /\ tsock[t] = Null
  /\ UNCHANGED <<psock, heap, inits, socketVars, threadVars, trouble>>

RecvBlocks(t) ==
  /\ ThreadGoes(t, "recv", "blocked")
  /\ tsock[t] # Null
  /\ heap[tsock[t]] \in {"open", "freed"}
  /\ UNCHANGED <<appVars, socketVars, tsock, tmsg, delivered>>

RecvFails(t) ==
  /\ ThreadGoes(t, "recv", "sleep")
  /\ tsock[t] # Null
  /\ heap[tsock[t]] # "open"
  /\ UNCHANGED <<appVars, socketVars, tsock, tmsg, delivered>>

(* The last thread to leave a socket that was closed under it sets its       *)
(* address free.                                                             *)
RecvReturns(t) ==
  /\ ThreadGoes(t, "blocked", "process")
  /\ port = tsock[t] /\ inbox # <<>>
  /\ tmsg' = [tmsg EXCEPT ![t] = Head(inbox)]
  /\ IF heap[port] # "open" /\ BlockedOn(port) = {t}
       THEN port' = Null /\ inbox' = <<>>
       ELSE inbox' = Tail(inbox) /\ UNCHANGED port
  /\ UNCHANGED <<appVars, accepted, tsock, delivered>>

(* Deviation: the callback is called only when nothing else is waiting. *)
ProcessLastMessage(t) ==
  /\ ThreadGoes(t, "process", "sleep")
  /\ delivered' = IF inbox = <<>> THEN Append(delivered, tmsg[t]) ELSE delivered
  /\ tmsg' = [tmsg EXCEPT ![t] = 0]
  /\ UNCHANGED <<appVars, socketVars, tsock>>

(* ProcessRecvMessage and OnNotifyUserApp *)
ProcessRecvMessage(t) ==
  /\ ThreadGoes(t, "process", "sleep")
  /\ delivered' = Append(delivered, tmsg[t])
  /\ tmsg' = [tmsg EXCEPT ![t] = 0]
  /\ UNCHANGED <<appVars, socketVars, tsock>>

(* Deviation: the loop is left after an error. *)
SleepAfterMessageOnly(t) ==
  /\ delivered # <<>>
  /\ ThreadGoes(t, "sleep", "top")
  /\ UNCHANGED <<appVars, socketVars, tsock, tmsg, delivered>>

Sleep(t) ==
  /\ ThreadGoes(t, "sleep", "top")
  /\ UNCHANGED <<appVars, socketVars, tsock, tmsg, delivered>>

ThreadEntry(t) ==
  \/ CallNetlinkRecv(t) \/ CallNetlinkRecvWithoutMemory(t)
  \/ RecvNull(t) \/ RecvBlocks(t) \/ RecvFails(t) \/ RecvReturns(t)
  \/ ProcessRecvMessage(t) \/ Sleep(t)

Next ==
  \/ InitCommunicate \/ InitCommunicateWithoutMemory
  \/ NetlinkSockInit \/ NetlinkSockInitFails \/ DiscardSock \/ StartThread
  \/ SendQuery \/ NetlinkSockDeinit \/ UnInitCommunicate \/ NotifyUserStatus
  \/ \E t \in Threads : ThreadEntry(t)

Spec == Init /\ [][Next]_vars

(* The receiving threads are scheduled, and their allocation does not fail   *)
(* for ever. Nothing obliges the application or the driver.                  *)
FairSpec ==
  /\ Spec
  /\ \A t \in Threads :
       /\ SF_vars(CallNetlinkRecv(t))
       /\ WF_vars(RecvBlocks(t) \/ RecvFails(t) \/ RecvReturns(t))
       /\ WF_vars(ProcessRecvMessage(t))
       /\ WF_vars(Sleep(t))

-----------------------------------------------------------------------------
(* Properties *)

TypeOK ==
  /\ inits \in 0..MaxInits
  /\ psock \in 0..inits
  /\ heap \in [Socks -> {"none", "fresh", "open", "zeroed", "freed"}]
  /\ port \in 0..inits
  /\ inbox \in Seq(Nat)
  /\ app \in {"idle", "init", "discard", "spawn", "forget", "crashed"}
  /\ app \in {"init", "discard", "forget"} => psock # Null
  /\ app = "spawn" => inits > 0
  /\ tpc \in [Threads -> {"none", "top", "recv", "blocked", "process", "sleep"}]
  /\ tsock \in [Threads -> 0..inits]
  /\ tmsg \in [Threads -> Nat]
  /\ accepted \in Nat
  /\ delivered \in Seq(Nat)
  /\ trouble \in BOOLEAN

(* The receiving thread reads p_sock again in every round (communicate.c:363) *)
(* and never checks it: an application that initialises successfully and     *)
(* never uninitialises is not brought down by its own library, whatever the  *)
(* driver sends and whichever allocation of the thread fails.                *)
CrashOnlyAfterTrouble == app = "crashed" => trouble

(* SendConfig trusts p_sock (communicate.c:149): whenever a call of the      *)
(* library has returned, the pointer is null or leads to the open socket that *)
(* holds the address, however many initialisations failed before.            *)
SocketUsable ==
  app = "idle" /\ psock # Null => heap[psock] = "open" /\ port = psock

(* One receiving thread and one socket: what the kernel has queued reaches   *)
(* the callback once, in order, and nothing is in two places or in none.     *)
Unread == LET t == {u \in Threads : tpc[u] = "process"} IN
  IF t = {} THEN inbox ELSE <<tmsg[CHOOSE u \in t : TRUE]>> \o inbox
DeliveredInOrder ==
  ~trouble => delivered \o Unread = [i \in 1..accepted |-> i]

(* A message that was queued reaches the callback in the end, unless the     *)
(* library was uninitialised, failed to initialise or has no thread.         *)
EveryMessageDelivered ==
  \A m \in 1..MaxMsgs :
    accepted >= m ~>
      \/ trouble
      \/ \A t \in Threads : tpc[t] = "none"
      \/ \E i \in DOMAIN delivered : delivered[i] = m
=============================================================================
