------------------------------ MODULE Lifecycle ------------------------------
(***************************************************************************)
(* The module from insmod to rmmod: init_rtbackup and exit_rtbackup with    *)
(* every failure on the way, the patching of the vfs functions one write    *)
(* after the other, and the tasks that run through the patched functions,   *)
(* a management command and a reboot at any moment in between.              *)
(*                                                                         *)
(* The module is loaded once. What hooks and commands do with the registry  *)
(* is in MonitorRegistry and IoLog; here it is loaded or not.               *)
(***************************************************************************)
EXTENDS Integers, Sequences

CONSTANTS
  NFuncs,    \* security2hook has the entries 1..NFuncs
  Tasks,     \* tasks that call the vfs functions
  M,         \* addresses and offsets are numbers modulo M
  Base,      \* where each function lies
  CopyBase,  \* where module_alloc puts its copy
  Code       \* its instructions: [at, len, kind, to], `to` being the address meant

Funcs == 1..NFuncs
Kinds == {"plain", "jump", "rip", "branch"}

ASSUME LifecycleAssumption ==
  /\ NFuncs \in Nat
  /\ M \in Nat \ {0}
  /\ Base \in [Funcs -> 0..(M - 1)]
  /\ CopyBase \in [Funcs -> 0..(M - 1)]
  /\ \A f \in Funcs :
       Code[f] \in Seq([at : Nat, len : Nat \ {0}, kind : Kinds, to : 0..(M - 1)])

VARIABLES
  mod,      \* where init_rtbackup or exit_rtbackup is
  next,     \* the entry of security2hook its loop has come to
  text,     \* the first five bytes of each function
  copy,     \* sym->new_addr
  image,    \* the offsets of the copied instructions
  run,      \* sym->run
  hijacked, \* sym->hijacked
  registry, \* FileReplData: its caches made, its contents loaded or part of them, all gone
  notifier, socket, thread, \* what is registered with the kernel and points into the module
  at, fn, callee, \* where each task is, in which function, and its local variable run
  cmd,      \* where a management command is
  machine,  \* up, in a reboot, or stuck in one
  config    \* whether /etc/rtb.cnf has lost what it held

initVars   == <<mod, next>>
patchVars  == <<text, copy, image, run, hijacked>>
kernelVars == <<registry, notifier, socket, thread>>
taskVars   == <<at, fn, callee>>
outside    == <<cmd, machine, config>>
vars == <<mod, next, text, copy, image, run, hijacked, registry, notifier, socket,
          thread, at, fn, callee, cmd, machine, config>>

Init ==
  /\ mod = "symbols" /\ next = 1
  /\ text = [f \in Funcs |-> "orig"]
  /\ copy = [f \in Funcs |-> "none"]
  /\ image = [f \in Funcs |-> <<>>]
  /\ run = [f \in Funcs |-> "null"]
  /\ hijacked = [f \in Funcs |-> FALSE]
  /\ registry = "none"
  /\ notifier = FALSE /\ socket = FALSE /\ thread = FALSE
  /\ at = [t \in Tasks |-> "out"]
  /\ fn = [t \in Tasks |-> 0]
  /\ callee = [t \in Tasks |-> "null"]
  /\ cmd = "idle" /\ machine = "up" /\ config = "kept"

ModGoes(from, to) == mod = from /\ mod' = to

Gone     == mod \in {"out", "failed"}        \* the kernel has freed the module

-----------------------------------------------------------------------------
(* find_symbol_address, for the kernels without kallsyms_on_each_symbol. The  *)
(* address is on the line of the symbol, its end on the line after it. A file *)
(* is "absent", "without" the symbol, has it "last", or "listed" before       *)
(* another; nomem names the lines for which kmalloc fails. A search that ends *)
(* between the two lines leaves `found` set for the search of the second file. *)
Files == {"absent", "without", "last", "listed"}
Lines == {"address", "end"}

FindSymbolAddressFromFile(sym, file, nomem) ==
  LET starts == ~sym.found /\ file \in {"last", "listed"} /\ "address" \notin nomem
      ends   == /\ \/ sym.found /\ file # "absent"
                   \/ starts /\ file = "listed"
                /\ "end" \notin nomem
  IN [ret   |-> IF ends THEN "ok" ELSE "error",
      found |-> sym.found \/ starts,
      end   |-> IF ~ends THEN sym.end ELSE IF starts THEN "next" ELSE "elsewhere",
      run   |-> IF sym.found \/ starts THEN "text" ELSE "null"]

FindSymbolAddress(kallsyms, map, nomem) ==
  LET unknown == [ret |-> "error", found |-> FALSE, end |-> "unset", run |-> "null"]
      first   == FindSymbolAddressFromFile(unknown, kallsyms, nomem.kallsyms)
  IN CASE first.ret = "ok" -> first
       [] first.ret # "ok" /\ nomem.name  -> [first EXCEPT !.run = "null"]
       [] first.ret # "ok" /\ ~nomem.name -> FindSymbolAddressFromFile(first, map, nomem.map)

LookUps ==
  {FindSymbolAddress(kallsyms, map, nomem) :
     kallsyms \in Files, map \in Files,
     nomem \in [kallsyms : SUBSET Lines, name : BOOLEAN, map : SUBSET Lines]}

-----------------------------------------------------------------------------
(* The copy of a function. A relative instruction holds the distance from its *)
(* own end to the address meant, modulo M.                                    *)
CodeAddrFromOffset(base, insn, offset) == (base + insn.at + insn.len + offset) % M
CodeOffsetFromAddr(base, insn, addr)   == (addr - (base + insn.at + insn.len)) % M

Size(f)   == LET last == Code[f][Len(Code[f])] IN last.at + last.len
Inside(f) == Base[f]..(Base[f] + Size(f) - 1)

(* Deviation: the address behind the last byte counts as inside. *)
CopyAndFixupInsnOneOff(f, insn) ==
  LET offset == CodeOffsetFromAddr(Base[f], insn, insn.to)
      addr   == CodeAddrFromOffset(Base[f], insn, offset)
  IN IF insn.kind \in {"jump", "rip"} /\ addr \notin Inside(f) \cup {Base[f] + Size(f)}
       THEN CodeOffsetFromAddr(CopyBase[f], insn, addr)
       ELSE offset

(* Only a call, a jump and an address relative to the instruction pointer are *)
(* corrected, and only when they lead out of the function.                    *)
CopyAndFixupInsn(f, insn) ==
  LET offset == CodeOffsetFromAddr(Base[f], insn, insn.to)
      addr   == CodeAddrFromOffset(Base[f], insn, offset)
  IN IF insn.kind \in {"jump", "rip"} /\ addr \notin Inside(f)
       THEN CodeOffsetFromAddr(CopyBase[f], insn, addr)
       ELSE offset

-----------------------------------------------------------------------------
(* init_rtbackup. What was done before a failure is not undone. *)

KernfuncInit ==
  /\ ModGoes("symbols", "notifier")
  /\ \E sym \in LookUps : sym.ret = "ok"
  /\ UNCHANGED <<next, patchVars, kernelVars, taskVars, outside>>

KernfuncInitFails ==
  /\ ModGoes("symbols", "failed")
  /\ \E sym \in LookUps : sym.ret # "ok"
  /\ UNCHANGED <<next, patchVars, kernelVars, taskVars, outside>>

RegisterRebootNotifier ==
  /\ ModGoes("notifier", "netlink")
  /\ notifier' = TRUE
  /\ UNCHANGED <<next, patchVars, registry, socket, thread, taskVars, outside>>

NetlinkKernelCreate ==
  /\ ModGoes("netlink", "caches")
  /\ socket' = TRUE
  /\ UNCHANGED <<next, patchVars, registry, notifier, thread, taskVars, outside>>

(* InitMonitorSet, in two steps: the caches, and LoadConfig. *)
MakeCaches ==
  /\ ModGoes("caches", "load")
  /\ registry' = "made"
  /\ UNCHANGED <<next, patchVars, notifier, socket, thread, taskVars, outside>>

LoadConfig ==
  /\ ModGoes("load", "thread")
  /\ registry' = "loaded"
  /\ UNCHANGED <<next, patchVars, notifier, socket, thread, taskVars, outside>>

(* A read or an allocation fails: what was loaded stays, and the module goes  *)
(* on as if it were all.                                                     *)
LoadConfigCutShort ==
  /\ ModGoes("load", "thread")
  /\ registry' = "partial"
  /\ UNCHANGED <<next, patchVars, notifier, socket, thread, taskVars, outside>>

KthreadRun ==
  /\ ModGoes("thread", "hijack")
  /\ thread' = TRUE
  /\ UNCHANGED <<next, patchVars, registry, notifier, socket, taskVars, outside>>

InitFails ==
  /\ mod \in {"netlink", "caches", "thread"}
  /\ mod' = "failed"
  /\ UNCHANGED <<next, patchVars, kernelVars, taskVars, outside>>

-----------------------------------------------------------------------------
(* hijack_syscalls: symbol_hijack of one entry after the other. A failure of  *)
(* one is reported and the next is tried.                                     *)

(* Deviation: the loop goes one entry too far. *)
HijackFailsPastEnd ==
  /\ ModGoes("hijack", "hijack")
  /\ next <= NFuncs + 1
  /\ next' = next + 1
  /\ UNCHANGED <<patchVars, kernelVars, taskVars, outside>>

HijackFails ==
  /\ ModGoes("hijack", "hijack")
  /\ next \in Funcs
  /\ next' = next + 1
  /\ \E sym \in LookUps : run' = [run EXCEPT ![next] = sym.run]
  /\ \E left \in {"none", "freed"} : copy' = [copy EXCEPT ![next] = left]
  /\ UNCHANGED <<text, image, hijacked, kernelVars, taskVars, outside>>

(* Deviation: hooks are sent to the function itself, not to its copy. *)
BuildCopyRunningText ==
  /\ ModGoes("hijack", "opcode")
  /\ next \in Funcs
  /\ copy' = [copy EXCEPT ![next] = "ready"]
  /\ image' = [image EXCEPT ![next] =
                 [i \in DOMAIN Code[next] |-> CopyAndFixupInsn(next, Code[next][i])]]
  /\ run' = [run EXCEPT ![next] = "text"]
  /\ UNCHANGED <<next, text, hijacked, kernelVars, taskVars, outside>>

(* A size computed from a line elsewhere is refused by malloc. *)
BuildCopy ==
  /\ ModGoes("hijack", "opcode")
  /\ next \in Funcs
  /\ \E sym \in LookUps : sym.ret = "ok" /\ sym.end = "next"
  /\ copy' = [copy EXCEPT ![next] = "ready"]
  /\ image' = [image EXCEPT ![next] =
                 [i \in DOMAIN Code[next] |-> CopyAndFixupInsn(next, Code[next][i])]]
  /\ run' = [run EXCEPT ![next] = "copy"]
  /\ UNCHANGED <<next, text, hijacked, kernelVars, taskVars, outside>>

WriteOpcode ==
  /\ ModGoes("opcode", "offset")
  /\ text' = [text EXCEPT ![next] = "torn"]
  /\ UNCHANGED <<next, copy, image, run, hijacked, kernelVars, taskVars, outside>>

(* Deviation: without `return 0`, success runs into out_error. *)
WriteOffsetFallsThrough ==
  /\ ModGoes("offset", "hijack")
  /\ text' = [text EXCEPT ![next] = "jump"]
  /\ hijacked' = [hijacked EXCEPT ![next] = TRUE]
  /\ copy' = [copy EXCEPT ![next] = "freed"]
  /\ next' = next + 1
  /\ UNCHANGED <<image, run, kernelVars, taskVars, outside>>

WriteOffset ==
  /\ ModGoes("offset", "hijack")
  /\ text' = [text EXCEPT ![next] = "jump"]
  /\ hijacked' = [hijacked EXCEPT ![next] = TRUE]
  /\ next' = next + 1
  /\ UNCHANGED <<copy, image, run, kernelVars, taskVars, outside>>

AllHijacked ==
  /\ ModGoes("hijack", "live")
  /\ next \notin Funcs
  /\ UNCHANGED <<next, patchVars, kernelVars, taskVars, outside>>

-----------------------------------------------------------------------------
(* exit_rtbackup. symbol_restore of one entry after the other. *)

ExitRtbackup ==
  /\ ModGoes("live", "undo")
  /\ next' = 1
  /\ UNCHANGED <<patchVars, kernelVars, taskVars, outside>>

BeginRestore ==
  /\ ModGoes("undo", "rewrite")
  /\ next \in Funcs /\ hijacked[next]
  /\ text' = [text EXCEPT ![next] = "torn"]
  /\ UNCHANGED <<next, copy, image, run, hijacked, kernelVars, taskVars, outside>>

EndRestore ==
  /\ ModGoes("rewrite", "free")
  /\ text' = [text EXCEPT ![next] = "orig"]
  /\ hijacked' = [hijacked EXCEPT ![next] = FALSE]
  /\ UNCHANGED <<next, copy, image, run, kernelVars, taskVars, outside>>

FreeCopy ==
  /\ ModGoes("free", "undo")
  /\ copy' = [copy EXCEPT ![next] = "freed"]
  /\ next' = next + 1
  /\ UNCHANGED <<text, image, run, hijacked, kernelVars, taskVars, outside>>

(* Deviation: the loop ends at the first entry that was not hijacked. *)
SkipRest ==
  /\ ModGoes("undo", "undo")
  /\ next \in Funcs /\ ~hijacked[next]
  /\ next' = NFuncs + 1
  /\ UNCHANGED <<patchVars, kernelVars, taskVars, outside>>

SkipRestore ==
  /\ ModGoes("undo", "undo")
  /\ next \in Funcs /\ ~hijacked[next]
  /\ next' = next + 1
  /\ UNCHANGED <<patchVars, kernelVars, taskVars, outside>>

AllRestored ==
  /\ ModGoes("undo", "unregister")
  /\ next \notin Funcs
  /\ UNCHANGED <<next, patchVars, kernelVars, taskVars, outside>>

(* Deviation: the registry is emptied while the notifier is still registered. *)
UnregisterTooLate ==
  /\ ModGoes("unregister", "release")
  /\ registry' = "gone"
  /\ UNCHANGED <<next, patchVars, notifier, socket, thread, taskVars, outside>>

UnregisterRebootNotifier ==
  /\ ModGoes("unregister", "release")
  /\ notifier' = FALSE
  /\ UNCHANGED <<next, patchVars, registry, socket, thread, taskVars, outside>>

NetlinkKernelRelease ==
  /\ ModGoes("release", "stop")
  /\ socket' = FALSE
  /\ UNCHANGED <<next, patchVars, registry, notifier, thread, taskVars, outside>>

(* kthread_stop returns when the thread has ended; IoLog shows that it does. *)
KthreadStop ==
  /\ ModGoes("stop", "uninit")
  /\ thread' = FALSE
  /\ UNCHANGED <<next, patchVars, registry, notifier, socket, taskVars, outside>>

UninitMonitorSet ==
  /\ ModGoes("uninit", "exit")
  /\ registry' = "gone"
  /\ UNCHANGED <<next, patchVars, notifier, socket, thread, taskVars, outside>>

(* exit_rtbackup returns and the kernel frees the module. *)
FreeModule ==
  /\ ModGoes("exit", "out")
  /\ UNCHANGED <<next, patchVars, kernelVars, taskVars, outside>>

Module ==
  \/ KernfuncInit \/ KernfuncInitFails \/ RegisterRebootNotifier \/ NetlinkKernelCreate
  \/ MakeCaches \/ LoadConfig \/ LoadConfigCutShort \/ KthreadRun \/ InitFails
  \/ HijackFails \/ BuildCopy \/ WriteOpcode \/ WriteOffset \/ AllHijacked
  \/ ExitRtbackup \/ BeginRestore \/ EndRestore \/ FreeCopy \/ SkipRestore \/ AllRestored
  \/ UnregisterRebootNotifier \/ NetlinkKernelRelease \/ KthreadStop \/ UninitMonitorSet
  \/ FreeModule

-----------------------------------------------------------------------------
(* The tasks. "prologue" is a task that was interrupted between two           *)
(* instructions of the first five bytes; "hook" is inside rtb_vfs_*, before   *)
(* its local variable run is read, "call" after it, "copy" inside the copied  *)
(* function, "back" inside the hook again.                                    *)

Sound(t) ==
  CASE at[t] = "out"      -> TRUE
    [] at[t] = "prologue" -> text[fn[t]] = "orig"
    [] at[t] \in {"hook", "call", "back"} -> ~Gone
    [] at[t] = "copy"     -> copy[fn[t]] = "ready"
    [] at[t] = "lost"     -> FALSE

TaskGoes(t, from, to) ==
  /\ at[t] = from /\ Sound(t)
  /\ at' = [at EXCEPT ![t] = to]
  /\ UNCHANGED <<initVars, patchVars, kernelVars, outside>>

Entered(f) == CASE text[f] = "orig" -> "prologue"
                [] text[f] = "jump" -> "hook"
                [] text[f] = "torn" -> "lost"

CallFunction(t, f) ==
  /\ TaskGoes(t, "out", Entered(f))
  /\ fn' = [fn EXCEPT ![t] = f]
  /\ UNCHANGED callee

LeavePrologue(t) == TaskGoes(t, "prologue", "out") /\ UNCHANGED <<fn, callee>>

EnterHook(t) ==
  /\ TaskGoes(t, "hook", "call")
  /\ callee' = [callee EXCEPT ![t] = run[fn[t]]]
  /\ UNCHANGED fn

CallOriginal(t) ==
  /\ TaskGoes(t, "call", IF callee[t] = "copy" THEN "copy" ELSE Entered(fn[t]))
  /\ UNCHANGED <<fn, callee>>

LeaveCopy(t) == TaskGoes(t, "copy", "back") /\ UNCHANGED <<fn, callee>>

LeaveHook(t) == TaskGoes(t, "back", "out") /\ UNCHANGED <<fn, callee>>

(* What it would execute next has been overwritten or freed. *)
GoAstray(t) ==
  /\ at[t] # "lost" /\ ~Sound(t)
  /\ at' = [at EXCEPT ![t] = "lost"]
  /\ UNCHANGED <<initVars, patchVars, kernelVars, fn, callee, outside>>

Task(t) ==
  \/ \E f \in Funcs : CallFunction(t, f)
  \/ LeavePrologue(t) \/ EnterHook(t) \/ CallOriginal(t) \/ LeaveCopy(t) \/ LeaveHook(t)
  \/ GoAstray(t)

-----------------------------------------------------------------------------
(* A management command runs in the task that sends it, and ends with a save. *)

CommandGoes(from, to) ==
  /\ cmd = from /\ cmd' = to
  /\ UNCHANGED <<initVars, patchVars, kernelVars, taskVars, machine>>

AcceptCommand ==
  /\ socket
  /\ CommandGoes("idle", IF Gone THEN "lost" ELSE "edit")
  /\ UNCHANGED config

(* Only an insertion needs the caches. *)
EditRegistry ==
  \/ /\ ~Gone
     /\ CommandGoes("edit", "save")
     /\ UNCHANGED config
  \/ /\ Gone \/ registry \in {"none", "gone"}
     /\ CommandGoes("edit", "lost")
     /\ UNCHANGED config

(* The file is not opened, or holds what the registry holds; a save that ends *)
(* in between is in ConfigFile.                                              *)
SaveConfig == config' \in {config, IF registry = "loaded" THEN config ELSE "lessened"}

SaveAfterCommand ==
  \/ ~Gone /\ CommandGoes("save", "idle") /\ SaveConfig
  \/ Gone  /\ CommandGoes("save", "lost") /\ UNCHANGED config

(* myreboot; a notifier whose module was freed is called all the same. *)
MyReboot ==
  /\ notifier /\ machine = "up"
  /\ \/ ~Gone /\ machine' = "reboot" /\ SaveConfig
     \/ Gone  /\ machine' = "stuck"  /\ UNCHANGED config
  /\ UNCHANGED <<initVars, patchVars, kernelVars, taskVars, cmd>>

Outside == AcceptCommand \/ EditRegistry \/ SaveAfterCommand \/ MyReboot

Next == Module \/ (\E t \in Tasks : Task(t)) \/ Outside

Spec == Init /\ [][Next]_vars

-----------------------------------------------------------------------------
(* Properties *)

InitSteps == {"symbols", "notifier", "netlink", "caches", "load", "thread", "hijack",
              "opcode", "offset", "live"}
ExitSteps == {"undo", "rewrite", "free", "unregister", "release", "stop", "uninit",
              "exit"}

TypeOK ==
  /\ mod \in InitSteps \cup ExitSteps \cup {"out", "failed"}
  /\ next \in 1..(NFuncs + 1)
  /\ mod \in {"opcode", "offset", "rewrite", "free"} => next \in Funcs
  /\ text \in [Funcs -> {"orig", "torn", "jump"}]
  /\ copy \in [Funcs -> {"none", "ready", "freed"}]
  /\ DOMAIN image = Funcs
  /\ run \in [Funcs -> {"null", "text", "copy"}]
  /\ hijacked \in [Funcs -> BOOLEAN]
  /\ registry \in {"none", "made", "loaded", "partial", "gone"}
  /\ <<notifier, socket, thread>> \in BOOLEAN \X BOOLEAN \X BOOLEAN
  /\ at \in [Tasks -> {"out", "prologue", "hook", "call", "copy", "back", "lost"}]
  /\ fn \in [Tasks -> 0..NFuncs]
  /\ \A t \in Tasks : at[t] # "out" => fn[t] \in Funcs
  /\ callee \in [Tasks -> {"null", "text", "copy"}]
  /\ cmd \in {"idle", "edit", "save", "lost"}
  /\ machine \in {"up", "reboot", "stuck"}
  /\ config \in {"kept", "lessened"}

(* A hook may run from the moment the offset of the jump is written           *)
(* (hijacks.c:243), with the other functions still to be patched: until the   *)
(* module is unloaded it finds LoadConfig through, the thread running and    *)
(* the copy it will call complete, and never calls the patched function.      *)
HookFindsItsService ==
  \A t \in Tasks :
    at[t] \in {"hook", "call", "copy", "back"} /\ mod \in InitSteps =>
      /\ registry \in {"loaded", "partial"} /\ thread
      /\ copy[fn[t]] = "ready"
      /\ at[t] = "call" => callee[t] = "copy"

(* Patching is not synchronised with anybody (hijacks.c:241, 266). Yet before *)
(* the module is unloaded only those go astray who are in the first five      *)
(* bytes while they are rewritten: nobody inside a hook or a copy.            *)
OnlyPatchedBytesLoseTasks ==
  [][\A t \in Tasks :
       at[t] # "lost" /\ at'[t] = "lost" /\ mod \in InitSteps =>
         at[t] \in {"out", "prologue"}]_vars

(* A copy is not the function itself: each instruction that hijacks.c:28 and  *)
(* 48 know must mean the same address outside, and its counterpart inside.    *)
CopyMeansTheSame ==
  \A f \in Funcs : copy[f] = "ready" =>
    \A i \in DOMAIN Code[f] :
      LET insn == Code[f][i] IN
      insn.kind \in {"jump", "rip"} =>
        CodeAddrFromOffset(CopyBase[f], insn, image[f][i]) =
          IF insn.to \in Inside(f) THEN (CopyBase[f] + (insn.to - Base[f])) % M
                                   ELSE insn.to

(* After exit_rtbackup nothing in the kernel leads into the freed module,     *)
(* whichever hijacks had failed; only an initialisation that fails half-way   *)
(* leaves something behind (module.c:97-120), and only then may a reboot      *)
(* run into it.                                                               *)
UnloadLeavesNothing ==
  /\ mod = "out" => /\ \A f \in Funcs : text[f] = "orig" /\ copy[f] # "ready"
                    /\ ~notifier /\ ~socket /\ ~thread
  /\ mod = "failed" => \A f \in Funcs : text[f] = "orig"
  /\ machine = "stuck" => mod = "failed"

(* SaveConfig writes whatever the registry holds over the file, in a reboot   *)
(* (module.c:54) as after a command. The file comes to hold less than was     *)
(* configured only if the registry was never loaded whole (the notifier and    *)
(* the socket are there before InitMonitorSet, and it reports success when it  *)
(* was cut short, monitorset.c:864-915), or if the unloading emptied it under  *)
(* a command; never by a reboot after a whole load, whatever is unloaded then. *)
RebootKeepsConfig ==
  [][config' # config =>
       \/ registry \in {"none", "made", "partial"}
       \/ registry = "gone" /\ cmd = "save" /\ cmd' = "idle"]_vars
=============================================================================
