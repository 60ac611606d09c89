---------------------------- MODULE LifecycleProofs ----------------------------
(***************************************************************************)
(* Proofs about the module from insmod to rmmod (Lifecycle), for any number  *)
(* of functions to patch, of tasks that run through them, and for any code in *)
(* them: types, what a hook finds, who goes astray, what is left behind, what *)
(* a reboot saves, and what a copied function means.                         *)
(***************************************************************************)
EXTENDS Lifecycle, TLAPS

-----------------------------------------------------------------------------
(* What a look-up returns. *)

LEMMA LookUpsType == \A sym \in LookUps : sym.run \in {"null", "text"}
<1>1. \A sym, file, nomem : FindSymbolAddressFromFile(sym, file, nomem).run \in {"null", "text"}
  BY DEF FindSymbolAddressFromFile
<1>2. ASSUME NEW kallsyms, NEW map, NEW nomem, nomem.name \in BOOLEAN
      PROVE  FindSymbolAddress(kallsyms, map, nomem).run \in {"null", "text"}
  <2>. DEFINE unknown == [ret |-> "error", found |-> FALSE, end |-> "unset", run |-> "null"]
              first == FindSymbolAddressFromFile(unknown, kallsyms, nomem.kallsyms)
  <2>1. first.run \in {"null", "text"}
    BY <1>1
  <2>2. [first EXCEPT !.run = "null"].run = "null"
    <3>1. first = [ret |-> first.ret, found |-> first.found, end |-> first.end, run |-> first.run]
      BY DEF FindSymbolAddressFromFile
    <3>. HIDE DEF first
    <3>. QED
      BY <3>1
  <2>3. FindSymbolAddress(kallsyms, map, nomem) =
          CASE first.ret = "ok" -> first
            [] first.ret # "ok" /\ nomem.name  -> [first EXCEPT !.run = "null"]
            [] first.ret # "ok" /\ ~nomem.name -> FindSymbolAddressFromFile(first, map, nomem.map)
    BY DEF FindSymbolAddress
  <2>. HIDE DEF first
  <2>4. CASE first.ret = "ok"
    BY <2>1, <2>3, <2>4
  <2>5. CASE first.ret # "ok" /\ nomem.name
    BY <2>2, <2>3, <2>5
  <2>6. CASE first.ret # "ok" /\ ~nomem.name
    <3>1. FindSymbolAddress(kallsyms, map, nomem) = FindSymbolAddressFromFile(first, map, nomem.map)
      BY <2>3, <2>6
    <3>. QED
      BY <1>1, <3>1
  <2>. QED
    BY <1>2, <2>4, <2>5, <2>6
<1>. QED
  BY <1>2 DEF LookUps

-----------------------------------------------------------------------------
(* Types *)

Kernel == notifier \in BOOLEAN /\ socket \in BOOLEAN /\ thread \in BOOLEAN

LEMMA TypeParts ==
  TypeOK <=>
    /\ mod \in InitSteps \cup ExitSteps \cup {"out", "failed"}
    /\ next \in 1..(NFuncs + 1)
    /\ mod \in {"opcode", "offset", "rewrite", "free"} => next \in Funcs
    /\ text \in [Funcs -> {"orig", "torn", "jump"}]
    /\ copy \in [Funcs -> {"none", "ready", "freed"}]
    /\ DOMAIN image = Funcs
    /\ run \in [Funcs -> {"null", "text", "copy"}]
    /\ hijacked \in [Funcs -> BOOLEAN]
    /\ registry \in {"none", "made", "loaded", "partial", "gone"}
    /\ Kernel
    /\ at \in [Tasks -> {"out", "prologue", "hook", "call", "copy", "back", "lost"}]
    /\ fn \in [Tasks -> 0..NFuncs]
    /\ \A t \in Tasks : at[t] # "out" => fn[t] \in Funcs
    /\ callee \in [Tasks -> {"null", "text", "copy"}]
    /\ cmd \in {"idle", "edit", "save", "lost"}
    /\ machine \in {"up", "reboot", "stuck"}
    /\ config \in {"kept", "lessened"}
<1>1. <<notifier, socket, thread>> \in BOOLEAN \X BOOLEAN \X BOOLEAN <=> Kernel
  BY DEF Kernel
<1>. QED
  BY <1>1 DEF TypeOK

LEMMA TypeInit == Init => TypeOK
<1>. SUFFICES ASSUME Init PROVE TypeOK
  OBVIOUS
<1>1. Kernel
  BY DEF Init, Kernel
<1>2. next \in 1..(NFuncs + 1) /\ 0 \in 0..NFuncs
  BY LifecycleAssumption DEF Init
<1>. QED
  BY <1>1, <1>2, TypeParts DEF Init, InitSteps

(* The three groups of steps, each with what it leaves alone. *)
ModuleInitActs ==
  KernfuncInit \/ KernfuncInitFails \/ RegisterRebootNotifier \/ NetlinkKernelCreate
  \/ MakeCaches \/ LoadConfig \/ LoadConfigCutShort \/ KthreadRun \/ InitFails
PatchActs == HijackFails \/ BuildCopy \/ WriteOpcode \/ WriteOffset \/ AllHijacked
UnpatchActs == ExitRtbackup \/ BeginRestore \/ EndRestore \/ FreeCopy \/ SkipRestore \/ AllRestored
ModuleExitActs == UnregisterRebootNotifier \/ NetlinkKernelRelease \/ KthreadStop \/ UninitMonitorSet
                  \/ FreeModule

LEMMA ModuleActs == Module <=> ModuleInitActs \/ PatchActs \/ UnpatchActs \/ ModuleExitActs
BY DEF Module, ModuleInitActs, PatchActs, UnpatchActs, ModuleExitActs

LEMMA KernelActsType ==
  ASSUME TypeOK, ModuleInitActs \/ ModuleExitActs
  PROVE  TypeOK'
<1>1. UNCHANGED <<next, text, copy, image, run, hijacked, at, fn, callee, cmd, machine, config>>
  BY DEF ModuleInitActs, ModuleExitActs, KernfuncInit, KernfuncInitFails, RegisterRebootNotifier,
         NetlinkKernelCreate, MakeCaches, LoadConfig, LoadConfigCutShort, KthreadRun, InitFails, UnregisterRebootNotifier,
         NetlinkKernelRelease, KthreadStop, UninitMonitorSet, FreeModule, patchVars, taskVars, outside
<1>2. /\ mod' \in {"notifier", "failed", "netlink", "caches", "load", "thread", "hijack",
                   "release", "stop", "uninit", "exit", "out"}
      /\ registry' \in {registry, "made", "loaded", "partial", "gone"}
      /\ notifier' \in {notifier, TRUE, FALSE} /\ socket' \in {socket, TRUE, FALSE}
      /\ thread' \in {thread, TRUE, FALSE}
  BY DEF ModuleInitActs, ModuleExitActs, KernfuncInit, KernfuncInitFails, RegisterRebootNotifier,
         NetlinkKernelCreate, MakeCaches, LoadConfig, LoadConfigCutShort, KthreadRun, InitFails, UnregisterRebootNotifier,
         NetlinkKernelRelease, KthreadStop, UninitMonitorSet, FreeModule, ModGoes, kernelVars
<1>3. Kernel' /\ mod' \in InitSteps \cup ExitSteps \cup {"out", "failed"}
      /\ mod' \notin {"opcode", "offset", "rewrite", "free"}
  BY <1>2, TypeParts DEF Kernel, InitSteps, ExitSteps
<1>4. registry' \in {"none", "made", "loaded", "partial", "gone"}
  BY <1>2, TypeParts
<1>5. <<notifier', socket', thread'>> \in BOOLEAN \X BOOLEAN \X BOOLEAN
  BY <1>3 DEF Kernel
<1>. QED
  BY <1>1, <1>3, <1>4, <1>5 DEF TypeOK

LEMMA PatchActsType ==
  ASSUME TypeOK, PatchActs \/ UnpatchActs
  PROVE  TypeOK'
<1>0. /\ NFuncs \in Nat /\ next \in 1..(NFuncs + 1) /\ Funcs = 1..NFuncs
      /\ next \in Funcs => next + 1 \in 1..(NFuncs + 1)
  BY LifecycleAssumption, TypeParts DEF Funcs
<1>1. UNCHANGED <<registry, notifier, socket, thread, at, fn, callee, cmd, machine, config>>
  BY DEF PatchActs, UnpatchActs, HijackFails, BuildCopy, WriteOpcode, WriteOffset, AllHijacked,
         ExitRtbackup, BeginRestore, EndRestore, FreeCopy, SkipRestore, AllRestored,
         kernelVars, taskVars, outside
<1>2. /\ mod' \in {"hijack", "opcode", "offset", "live", "undo", "rewrite", "free", "unregister"}
      /\ mod' \in {"opcode", "offset", "rewrite", "free"} => UNCHANGED next /\ next \in Funcs
      /\ next' \in {next, 1} \/ (next \in Funcs /\ next' = next + 1)
  BY TypeParts DEF PatchActs, UnpatchActs, HijackFails, BuildCopy, WriteOpcode, WriteOffset, AllHijacked,
         ExitRtbackup, BeginRestore, EndRestore, FreeCopy, SkipRestore, AllRestored, ModGoes
<1>3. /\ text' \in [Funcs -> {"orig", "torn", "jump"}]
      /\ hijacked' \in [Funcs -> BOOLEAN]
  BY TypeParts DEF PatchActs, UnpatchActs, HijackFails, BuildCopy, WriteOpcode, WriteOffset, AllHijacked,
         ExitRtbackup, BeginRestore, EndRestore, FreeCopy, SkipRestore, AllRestored, patchVars
<1>7. copy' \in [Funcs -> {"none", "ready", "freed"}] /\ DOMAIN image' = Funcs
  BY TypeParts DEF PatchActs, UnpatchActs, HijackFails, BuildCopy, WriteOpcode, WriteOffset, AllHijacked,
         ExitRtbackup, BeginRestore, EndRestore, FreeCopy, SkipRestore, AllRestored, patchVars
<1>4. run' \in [Funcs -> {"null", "text", "copy"}]
  BY LookUpsType, TypeParts
     DEF PatchActs, UnpatchActs, HijackFails, BuildCopy, WriteOpcode, WriteOffset, AllHijacked,
         ExitRtbackup, BeginRestore, EndRestore, FreeCopy, SkipRestore, AllRestored, patchVars
<1>5. <<notifier', socket', thread'>> \in BOOLEAN \X BOOLEAN \X BOOLEAN
  BY <1>1 DEF TypeOK
<1>6. next' \in 1..(NFuncs + 1) /\ mod' \in InitSteps \cup ExitSteps
  BY <1>0, <1>2 DEF InitSteps, ExitSteps
<1>. QED
  BY <1>1, <1>2, <1>3, <1>4, <1>5, <1>6, <1>7 DEF TypeOK

LEMMA TaskActsType ==
  ASSUME TypeOK, NEW t \in Tasks, Task(t)
  PROVE  TypeOK'
<1>1. UNCHANGED <<mod, next, text, copy, image, run, hijacked, registry, notifier, socket, thread,
                  cmd, machine, config>>
  BY DEF Task, CallFunction, LeavePrologue, EnterHook, CallOriginal, LeaveCopy, LeaveHook, GoAstray,
         TaskGoes, initVars, patchVars, kernelVars, outside
<1>2. <<notifier', socket', thread'>> \in BOOLEAN \X BOOLEAN \X BOOLEAN
  BY <1>1 DEF TypeOK
<1>3. at[t] # "out" => fn[t] \in Funcs /\ text[fn[t]] \in {"orig", "torn", "jump"}
  BY DEF TypeOK
<1>4. \A f \in Funcs : Entered(f) \in {"prologue", "hook", "lost"}
  <2>. SUFFICES ASSUME NEW f \in Funcs PROVE Entered(f) \in {"prologue", "hook", "lost"}
    OBVIOUS
  <2>1. text[f] \in {"orig", "torn", "jump"}
    BY DEF TypeOK
  <2>. QED
    BY <2>1 DEF Entered
<1>5. Funcs \subseteq 0..NFuncs /\ fn \in [Tasks -> 0..NFuncs]
  BY LifecycleAssumption DEF Funcs, TypeOK
<1>6. ASSUME at' \in [Tasks -> {"out", "prologue", "hook", "call", "copy", "back", "lost"}],
             fn' \in [Tasks -> 0..NFuncs],
             \A u \in Tasks : at'[u] # "out" => fn'[u] \in Funcs,
             callee' \in [Tasks -> {"null", "text", "copy"}]
      PROVE  TypeOK'
  BY <1>1, <1>2, <1>6 DEF TypeOK
<1>7. CASE \E f \in Funcs : CallFunction(t, f)
  <2>1. PICK f \in Funcs : /\ at' = [at EXCEPT ![t] = Entered(f)] /\ fn' = [fn EXCEPT ![t] = f]
                           /\ UNCHANGED callee
    BY <1>7 DEF CallFunction, TaskGoes
  <2>. QED
    BY <1>4, <1>5, <1>6, <2>1 DEF TypeOK
<1>8. CASE EnterHook(t)
  <2>1. at' = [at EXCEPT ![t] = "call"] /\ callee' = [callee EXCEPT ![t] = run[fn[t]]] /\ UNCHANGED fn
        /\ at[t] = "hook"
    BY <1>8 DEF EnterHook, TaskGoes
  <2>2. run[fn[t]] \in {"null", "text", "copy"}
    BY <1>3, <2>1 DEF TypeOK
  <2>. QED
    BY <1>5, <1>6, <2>1, <2>2 DEF TypeOK
<1>9. ASSUME NEW to \in {"out", "prologue", "hook", "call", "copy", "back", "lost"},
             at' = [at EXCEPT ![t] = to], UNCHANGED <<fn, callee>>, at[t] # "out" \/ to = "out"
                                                                     \/ fn[t] \in Funcs
      PROVE  TypeOK'
  BY <1>3, <1>5, <1>6, <1>9 DEF TypeOK
<1>10. CASE CallOriginal(t)
  <2>1. at[t] = "call" /\ UNCHANGED <<fn, callee>>
        /\ at' = [at EXCEPT ![t] = IF callee[t] = "copy" THEN "copy" ELSE Entered(fn[t])]
    BY <1>10 DEF CallOriginal, TaskGoes
  <2>. QED
    BY <1>3, <1>4, <1>9, <2>1
<1>11. CASE LeavePrologue(t) \/ LeaveCopy(t) \/ LeaveHook(t)
  <2>1. at[t] # "out" /\ UNCHANGED <<fn, callee>>
        /\ at' \in {[at EXCEPT ![t] = "out"], [at EXCEPT ![t] = "back"]}
    BY <1>11 DEF LeavePrologue, LeaveCopy, LeaveHook, TaskGoes
  <2>. QED
    BY <1>9, <2>1
<1>12. CASE GoAstray(t)
  <2>1. at[t] # "out" /\ UNCHANGED <<fn, callee>> /\ at' = [at EXCEPT ![t] = "lost"]
    BY <1>12 DEF GoAstray, Sound
  <2>. QED
    BY <1>9, <2>1
<1>. QED
  BY <1>7, <1>8, <1>10, <1>11, <1>12 DEF Task

LEMMA OutsideActsType ==
  ASSUME TypeOK, Outside
  PROVE  TypeOK'
<1>1. UNCHANGED <<mod, next, text, copy, image, run, hijacked, registry, notifier, socket, thread,
                  at, fn, callee>>
  BY DEF Outside, AcceptCommand, EditRegistry, SaveAfterCommand, MyReboot, CommandGoes,
         initVars, patchVars, kernelVars, taskVars
<1>2. <<notifier', socket', thread'>> \in BOOLEAN \X BOOLEAN \X BOOLEAN
  BY <1>1 DEF TypeOK
<1>3. /\ cmd' \in {"idle", "edit", "save", "lost"}
      /\ machine' \in {"up", "reboot", "stuck"}
      /\ config' \in {"kept", "lessened"}
  BY DEF Outside, AcceptCommand, EditRegistry, SaveAfterCommand, MyReboot, CommandGoes, SaveConfig, TypeOK
<1>. QED
  BY <1>1, <1>2, <1>3 DEF TypeOK

LEMMA TypeStep == TypeOK /\ [Next]_vars => TypeOK'
<1>. SUFFICES ASSUME TypeOK, [Next]_vars PROVE TypeOK'
  OBVIOUS
<1>1. CASE UNCHANGED vars
  <2>1. <<notifier', socket', thread'>> \in BOOLEAN \X BOOLEAN \X BOOLEAN
    BY <1>1 DEF vars, TypeOK
  <2>. QED
    BY <1>1, <2>1 DEF vars, TypeOK
<1>2. CASE Module
  BY <1>2, ModuleActs, KernelActsType, PatchActsType
<1>3. CASE \E t \in Tasks : Task(t)
  BY <1>3, TaskActsType
<1>. QED
  BY <1>1, <1>2, <1>3, OutsideActsType DEF Next

(* Every piece of state keeps its type; in particular a step of the patching  *)
(* is always about one of the functions of security2hook (hijacks.c:241,     *)
(* 266), however many there are.                                             *)
THEOREM LifecycleTypeCorrect == Spec => []TypeOK
<1>. QED
  BY TypeInit, TypeStep, PTL DEF Spec

-----------------------------------------------------------------------------
(* The services of the module *)

Early    == {"symbols", "notifier", "netlink", "caches", "load", "thread"}
Patching == {"hijack", "opcode", "offset"}

ServiceInv ==
  /\ registry = "gone" => mod \in {"exit", "out"}
  /\ mod \in {"thread", "live"} \cup Patching \cup (ExitSteps \ {"exit"}) =>
       registry \in {"loaded", "partial"}
  /\ mod \in Patching \cup {"live", "undo", "rewrite", "free", "unregister", "release", "stop"} => thread
  /\ mod \in {"release", "stop", "uninit", "exit", "out"} => ~notifier
  /\ mod \in {"stop", "uninit", "exit", "out"} => ~socket
  /\ mod \in {"uninit", "exit", "out"} => ~thread
  /\ machine = "stuck" => mod = "failed"

LEMMA ServiceInit == Init => ServiceInv
BY DEF Init, ServiceInv, Patching, ExitSteps

LEMMA ServiceStep == TypeOK /\ ServiceInv /\ [Next]_vars => ServiceInv'
<1>. SUFFICES ASSUME TypeOK, ServiceInv, [Next]_vars PROVE ServiceInv'
  OBVIOUS
<1>. USE DEF ServiceInv, Patching, ExitSteps
<1>1. CASE UNCHANGED vars
  BY <1>1 DEF vars
<1>2. CASE ModuleInitActs
  BY <1>2 DEF ModuleInitActs, KernfuncInit, KernfuncInitFails, RegisterRebootNotifier,
     NetlinkKernelCreate, MakeCaches, LoadConfig, LoadConfigCutShort, KthreadRun, InitFails, ModGoes, kernelVars, outside
<1>3. CASE ModuleExitActs
  BY <1>3 DEF ModuleExitActs, UnregisterRebootNotifier, NetlinkKernelRelease, KthreadStop,
     UninitMonitorSet, FreeModule, ModGoes, kernelVars, outside
<1>4. CASE PatchActs
  BY <1>4 DEF PatchActs, HijackFails, BuildCopy, WriteOpcode, WriteOffset, AllHijacked,
     ModGoes, kernelVars, outside
<1>5. CASE UnpatchActs
  BY <1>5 DEF UnpatchActs, ExitRtbackup, BeginRestore, EndRestore, FreeCopy, SkipRestore, AllRestored,
     ModGoes, kernelVars, outside
<1>6. CASE \E t \in Tasks : Task(t)
  BY <1>6 DEF Task, CallFunction, LeavePrologue, EnterHook, CallOriginal, LeaveCopy, LeaveHook, GoAstray,
     TaskGoes, initVars, kernelVars, outside
<1>7. CASE Outside
  <2>1. UNCHANGED <<mod, registry, notifier, socket, thread>>
    BY <1>7 DEF Outside, AcceptCommand, EditRegistry, SaveAfterCommand, MyReboot, CommandGoes,
                initVars, kernelVars
  <2>2. machine' = "stuck" => machine = "stuck" \/ (notifier /\ Gone)
    BY <1>7 DEF Outside, AcceptCommand, EditRegistry, SaveAfterCommand, MyReboot, CommandGoes
  <2>. QED
    BY <2>1, <2>2 DEF Gone
<1>. QED
  BY <1>1, <1>2, <1>3, <1>4, <1>5, <1>6, <1>7, ModuleActs DEF Next

(* module.c:54: whenever the machine is rebooted after a whole load, before,   *)
(* during or after the unloading, the file keeps what was configured. What a   *)
(* save can cost, it costs after a load that was cut short or not yet through, *)
(* or in a command under which the unloading empties the registry.            *)
THEOREM RebootsKeepConfig == Spec => RebootKeepsConfig
<1>1. ASSUME TypeOK, ServiceInv, [Next]_vars
      PROVE  [config' # config =>
                \/ registry \in {"none", "made", "partial"}
                \/ registry = "gone" /\ cmd = "save" /\ cmd' = "idle"]_vars
  <2>. SUFFICES ASSUME Next, config' # config, registry \notin {"none", "made", "partial"}
                PROVE  registry = "gone" /\ cmd = "save" /\ cmd' = "idle"
    BY <1>1
  <2>1. CASE Module
    BY <2>1, ModuleActs
       DEF ModuleInitActs, KernfuncInit, KernfuncInitFails, RegisterRebootNotifier, NetlinkKernelCreate,
           MakeCaches, LoadConfig, LoadConfigCutShort, KthreadRun, InitFails, ModuleExitActs, UnregisterRebootNotifier,
           NetlinkKernelRelease, KthreadStop, UninitMonitorSet, FreeModule, PatchActs, HijackFails, BuildCopy,
           WriteOpcode, WriteOffset, AllHijacked, UnpatchActs, ExitRtbackup, BeginRestore, EndRestore,
           FreeCopy, SkipRestore, AllRestored, outside
  <2>2. CASE \E t \in Tasks : Task(t)
    BY <2>2 DEF Task, CallFunction, LeavePrologue, EnterHook, CallOriginal, LeaveCopy, LeaveHook,
                GoAstray, TaskGoes, outside
  <2>. DEFINE Saves == config' \in {config, IF registry = "loaded" THEN config ELSE "lessened"}
  <2>3. Saves => registry = "gone"
    BY <1>1 DEF TypeOK
  <2>4. CASE AcceptCommand \/ EditRegistry \/ SaveAfterCommand
    BY <2>3, <2>4 DEF AcceptCommand, EditRegistry, SaveAfterCommand, CommandGoes, SaveConfig
  <2>5. CASE MyReboot
    <3>1. notifier /\ ~Gone /\ Saves
      BY <2>5 DEF MyReboot, SaveConfig
    <3>. QED
      BY <1>1, <2>3, <3>1 DEF ServiceInv, Gone
  <2>. QED
    BY <2>1, <2>2, <2>4, <2>5 DEF Next, Outside
<1>. QED
  BY <1>1, TypeInit, TypeStep, ServiceInit, ServiceStep, PTL DEF Spec, RebootKeepsConfig

-----------------------------------------------------------------------------
(* What is patched *)

PatchInv ==
  /\ \A f \in Funcs : text[f] = "jump" => hijacked[f]
  /\ \A f \in Funcs : hijacked[f] => text[f] = "jump" \/ (text[f] = "torn" /\ mod = "rewrite")
  /\ \A f \in Funcs : text[f] = "torn" => f = next /\ mod \in {"offset", "rewrite"}
  /\ \A f \in Funcs : text[f] # "orig" => copy[f] = "ready" /\ run[f] = "copy"
  /\ \A f \in Funcs : copy[f] = "ready" =>
       text[f] # "orig" \/ (f = next /\ mod \in {"opcode", "free"})
  /\ mod \in Early \cup {"failed"} => next = 1 /\ \A f \in Funcs : text[f] = "orig"
  /\ mod \in {"hijack", "opcode"} => \A f \in Funcs : f >= next => text[f] = "orig"
  /\ mod = "offset" => text[next] = "torn" /\ \A f \in Funcs : f > next => text[f] = "orig"
  /\ mod = "opcode" => copy[next] = "ready" /\ run[next] = "copy"
  /\ mod = "free" => text[next] = "orig"
  /\ mod \in {"undo", "rewrite", "free"} => \A f \in Funcs : f < next => text[f] = "orig"
  /\ mod \in {"unregister", "release", "stop", "uninit", "exit", "out"} =>
       \A f \in Funcs : text[f] = "orig"

LEMMA PatchInit == Init => PatchInv
BY DEF Init, PatchInv, Early

LEMMA PatchStep == TypeOK /\ PatchInv /\ [Next]_vars => PatchInv'
<1>. SUFFICES ASSUME TypeOK, PatchInv, [Next]_vars PROVE PatchInv'
  OBVIOUS
<1>0. /\ NFuncs \in Nat /\ Funcs = 1..NFuncs /\ next \in 1..(NFuncs + 1)
      /\ mod \in {"opcode", "offset", "rewrite", "free"} => next \in Funcs
      /\ text \in [Funcs -> {"orig", "torn", "jump"}]
      /\ copy \in [Funcs -> {"none", "ready", "freed"}]
      /\ run \in [Funcs -> {"null", "text", "copy"}]
      /\ hijacked \in [Funcs -> BOOLEAN]
  BY LifecycleAssumption DEF Funcs, TypeOK
<1>1. ASSUME UNCHANGED <<mod, next, text, copy, run, hijacked>> PROVE PatchInv'
  BY <1>1 DEF PatchInv
<1>2. CASE UNCHANGED vars
  BY <1>1, <1>2 DEF vars
<1>3. CASE ModuleInitActs
  <2>1. /\ UNCHANGED <<next, text, copy, run, hijacked>>
        /\ mod \in Early /\ mod' \in (Early \cup {"failed", "hijack"})
    BY <1>3 DEF ModuleInitActs, KernfuncInit, KernfuncInitFails, RegisterRebootNotifier,
       NetlinkKernelCreate, MakeCaches, LoadConfig, LoadConfigCutShort, KthreadRun, InitFails, ModGoes, patchVars, Early
  <2>. QED
    BY <2>1 DEF PatchInv, Early
<1>4. CASE ModuleExitActs
  <2>1. /\ UNCHANGED <<next, text, copy, run, hijacked>>
        /\ mod \in {"unregister", "release", "stop", "uninit", "exit"}
        /\ mod' \in {"release", "stop", "uninit", "exit", "out"}
    BY <1>4 DEF ModuleExitActs, UnregisterRebootNotifier, NetlinkKernelRelease, KthreadStop,
       UninitMonitorSet, FreeModule, ModGoes, patchVars
  <2>. QED
    BY <2>1 DEF PatchInv, Early
<1>5. CASE HijackFails
  <2>1. /\ mod = "hijack" /\ mod' = "hijack" /\ next \in Funcs /\ next' = next + 1
        /\ \E r : run' = [run EXCEPT ![next] = r]
        /\ \E left \in {"none", "freed"} : copy' = [copy EXCEPT ![next] = left]
        /\ UNCHANGED <<text, hijacked>>
    BY <1>5 DEF HijackFails, ModGoes
  <2>. QED
    BY <1>0, <2>1 DEF PatchInv, Early
<1>6. CASE BuildCopy
  <2>1. /\ mod = "hijack" /\ mod' = "opcode" /\ next \in Funcs
        /\ copy' = [copy EXCEPT ![next] = "ready"] /\ run' = [run EXCEPT ![next] = "copy"]
        /\ UNCHANGED <<next, text, hijacked>>
    BY <1>6 DEF BuildCopy, ModGoes
  <2>. QED
    BY <1>0, <2>1 DEF PatchInv, Early
<1>7. CASE WriteOpcode
  <2>1. /\ mod = "opcode" /\ mod' = "offset" /\ text' = [text EXCEPT ![next] = "torn"]
        /\ UNCHANGED <<next, copy, run, hijacked>>
    BY <1>7 DEF WriteOpcode, ModGoes
  <2>. QED
    BY <1>0, <2>1 DEF PatchInv, Early
<1>8. CASE WriteOffset
  <2>1. /\ mod = "offset" /\ mod' = "hijack" /\ text' = [text EXCEPT ![next] = "jump"]
        /\ hijacked' = [hijacked EXCEPT ![next] = TRUE] /\ next' = next + 1
        /\ UNCHANGED <<copy, run>>
    BY <1>8 DEF WriteOffset, ModGoes
  <2>. QED
    BY <1>0, <2>1 DEF PatchInv, Early
<1>9. CASE AllHijacked
  <2>1. /\ mod = "hijack" /\ mod' = "live" /\ UNCHANGED <<next, text, copy, run, hijacked>>
    BY <1>9 DEF AllHijacked, ModGoes, patchVars
  <2>. QED
    BY <2>1 DEF PatchInv, Early
<1>10. CASE ExitRtbackup
  <2>1. mod = "live" /\ mod' = "undo" /\ next' = 1 /\ UNCHANGED <<text, copy, run, hijacked>>
    BY <1>10 DEF ExitRtbackup, ModGoes, patchVars
  <2>. QED
    BY <1>0, <2>1 DEF PatchInv, Early
<1>11. CASE BeginRestore
  <2>1. /\ mod = "undo" /\ mod' = "rewrite" /\ next \in Funcs /\ hijacked[next]
        /\ text' = [text EXCEPT ![next] = "torn"] /\ UNCHANGED <<next, copy, run, hijacked>>
    BY <1>11 DEF BeginRestore, ModGoes
  <2>. QED
    BY <1>0, <2>1 DEF PatchInv, Early
<1>12. CASE EndRestore
  <2>1. /\ mod = "rewrite" /\ mod' = "free" /\ text' = [text EXCEPT ![next] = "orig"]
        /\ hijacked' = [hijacked EXCEPT ![next] = FALSE] /\ UNCHANGED <<next, copy, run>>
    BY <1>12 DEF EndRestore, ModGoes
  <2>. QED
    BY <1>0, <2>1 DEF PatchInv, Early
<1>13. CASE FreeCopy
  <2>1. /\ mod = "free" /\ mod' = "undo" /\ copy' = [copy EXCEPT ![next] = "freed"]
        /\ next' = next + 1 /\ UNCHANGED <<text, run, hijacked>>
    BY <1>13 DEF FreeCopy, ModGoes
  <2>. QED
    BY <1>0, <2>1 DEF PatchInv, Early
<1>14. CASE SkipRestore
  <2>1. /\ mod = "undo" /\ mod' = "undo" /\ next \in Funcs /\ ~hijacked[next]
        /\ next' = next + 1 /\ UNCHANGED <<text, copy, run, hijacked>>
    BY <1>14 DEF SkipRestore, ModGoes, patchVars
  <2>. QED
    BY <1>0, <2>1 DEF PatchInv, Early
<1>15. CASE AllRestored
  <2>1. /\ mod = "undo" /\ mod' = "unregister" /\ next \notin Funcs
        /\ UNCHANGED <<next, text, copy, run, hijacked>>
    BY <1>15 DEF AllRestored, ModGoes, patchVars
  <2>. QED
    BY <1>0, <2>1 DEF PatchInv, Early
<1>16. CASE \E t \in Tasks : Task(t)
  BY <1>1, <1>16 DEF Task, CallFunction, LeavePrologue, EnterHook, CallOriginal, LeaveCopy, LeaveHook,
     GoAstray, TaskGoes, initVars, patchVars
<1>17. CASE Outside
  BY <1>1, <1>17 DEF Outside, AcceptCommand, EditRegistry, SaveAfterCommand, MyReboot, CommandGoes,
     initVars, patchVars
<1>. QED
  BY <1>2, <1>3, <1>4, <1>5, <1>6, <1>7, <1>8, <1>9, <1>10, <1>11, <1>12, <1>13, <1>14, <1>15, <1>16,
     <1>17, ModuleActs DEF Next, PatchActs, UnpatchActs

(* module.c:97-120: after exit_rtbackup nothing in the kernel leads into the  *)
(* freed module, for any number of functions and whichever of them could not  *)
(* be hijacked; a reboot runs into it only after a failed initialisation.     *)
THEOREM UnloadsClean == Spec => []UnloadLeavesNothing
<1>1. ASSUME PatchInv, ServiceInv PROVE UnloadLeavesNothing
  BY <1>1 DEF PatchInv, ServiceInv, UnloadLeavesNothing, Early
<1>. QED
  BY <1>1, TypeInit, TypeStep, ServiceInit, ServiceStep, PatchInit, PatchStep, PTL DEF Spec

-----------------------------------------------------------------------------
(* The tasks, until the module is unloaded *)

Within == {"hook", "call", "copy", "back"}

TaskInv ==
  mod \in InitSteps =>
    \A t \in Tasks : at[t] \in Within =>
      text[fn[t]] = "jump" /\ (at[t] = "call" => callee[t] = "copy")

LEMMA TaskInit == Init => TaskInv
BY DEF Init, TaskInv, Within

(* A jump that was written stays, and there are no steps back. *)
LEMMA JumpStays ==
  ASSUME TypeOK, PatchInv, Module, mod' \in InitSteps
  PROVE  /\ mod \in InitSteps /\ UNCHANGED <<at, fn, callee>>
         /\ \A f \in Funcs : text[f] = "jump" => text'[f] = "jump"
<1>0. /\ text \in [Funcs -> {"orig", "torn", "jump"}]
      /\ mod \in {"opcode", "offset"} => next \in Funcs /\ text[next] # "jump"
  <2>1. mod = "opcode" => next \in Funcs /\ text[next] = "orig"
    BY LifecycleAssumption DEF TypeOK, PatchInv, Funcs
  <2>. QED
    BY <2>1 DEF TypeOK, PatchInv
<1>1. CASE ModuleInitActs
  BY <1>1 DEF ModuleInitActs, KernfuncInit, KernfuncInitFails, RegisterRebootNotifier,
     NetlinkKernelCreate, MakeCaches, LoadConfig, LoadConfigCutShort, KthreadRun, InitFails, ModGoes, patchVars, taskVars,
     InitSteps
<1>2. CASE ModuleExitActs
  BY <1>2 DEF ModuleExitActs, UnregisterRebootNotifier, NetlinkKernelRelease, KthreadStop,
     UninitMonitorSet, FreeModule, ModGoes, InitSteps
<1>3. CASE PatchActs
  BY <1>0, <1>3 DEF PatchActs, HijackFails, BuildCopy, WriteOpcode, WriteOffset, AllHijacked,
     ModGoes, patchVars, taskVars, InitSteps
<1>4. CASE UnpatchActs
  BY <1>4 DEF UnpatchActs, ExitRtbackup, BeginRestore, EndRestore, FreeCopy, SkipRestore, AllRestored,
     ModGoes, InitSteps
<1>. QED
  BY <1>1, <1>2, <1>3, <1>4, ModuleActs

LEMMA TaskStep == TypeOK /\ PatchInv /\ TaskInv /\ [Next]_vars => TaskInv'
<1>. SUFFICES ASSUME TypeOK, PatchInv, TaskInv, [Next]_vars, mod' \in InitSteps,
                     NEW u \in Tasks, at'[u] \in Within
              PROVE  text'[fn'[u]] = "jump" /\ (at'[u] = "call" => callee'[u] = "copy")
  BY DEF TaskInv
<1>0. /\ text \in [Funcs -> {"orig", "torn", "jump"}]
      /\ at \in [Tasks -> {"out", "prologue", "hook", "call", "copy", "back", "lost"}]
      /\ fn \in [Tasks -> 0..NFuncs] /\ callee \in [Tasks -> {"null", "text", "copy"}]
      /\ \A t \in Tasks : at[t] # "out" => fn[t] \in Funcs
  BY DEF TypeOK
<1>1. CASE UNCHANGED <<mod, text, at, fn, callee>>
  BY <1>1 DEF TaskInv
<1>2. CASE Module
  BY <1>0, <1>2, JumpStays DEF TaskInv, Within
<1>3. CASE \E t \in Tasks : Task(t)
  <2>1. PICK t \in Tasks : Task(t)
    BY <1>3
  <2>2. UNCHANGED <<mod, text>>
    BY <2>1 DEF Task, CallFunction, LeavePrologue, EnterHook, CallOriginal, LeaveCopy, LeaveHook,
       GoAstray, TaskGoes, initVars, patchVars
  <2>3. \A v \in Tasks \ {t} : at'[v] = at[v] /\ fn'[v] = fn[v] /\ callee'[v] = callee[v]
    BY <1>0, <2>1 DEF Task, CallFunction, LeavePrologue, EnterHook, CallOriginal, LeaveCopy, LeaveHook,
       GoAstray, TaskGoes
  <2>4. CASE u # t
    BY <2>2, <2>3, <2>4 DEF TaskInv
  <2>5. CASE u = t
    <3>1. CASE \E f \in Funcs : CallFunction(t, f)
      <4>1. PICK f \in Funcs : /\ at' = [at EXCEPT ![t] = Entered(f)] /\ fn' = [fn EXCEPT ![t] = f]
        BY <3>1 DEF CallFunction, TaskGoes
      <4>2. text[f] \in {"orig", "torn", "jump"} /\ at'[t] = Entered(f) /\ fn'[t] = f
        BY <1>0, <4>1
      <4>. QED
        BY <2>2, <2>5, <4>2 DEF Entered, Within
    <3>2. CASE EnterHook(t)
      <4>1. at[t] = "hook" /\ at'[t] = "call" /\ callee'[t] = run[fn[t]] /\ fn' = fn
        BY <1>0, <3>2 DEF EnterHook, TaskGoes
      <4>2. text[fn[t]] = "jump" /\ fn[t] \in Funcs
        BY <1>0, <2>2, <4>1 DEF TaskInv, Within
      <4>. QED
        BY <2>2, <2>5, <4>1, <4>2 DEF PatchInv
    <3>3. CASE CallOriginal(t)
      <4>1. at[t] = "call" /\ at'[t] = (IF callee[t] = "copy" THEN "copy" ELSE Entered(fn[t])) /\ fn' = fn
        BY <1>0, <3>3 DEF CallOriginal, TaskGoes
      <4>. QED
        BY <2>2, <2>5, <4>1 DEF TaskInv, Within
    <3>4. CASE LeavePrologue(t) \/ LeaveCopy(t) \/ LeaveHook(t) \/ GoAstray(t)
      <4>1. /\ fn' = fn
            /\ at'[t] \in {"out", "lost"} \/ (at[t] = "copy" /\ at'[t] = "back")
        BY <1>0, <3>4 DEF LeavePrologue, LeaveCopy, LeaveHook, GoAstray, TaskGoes
      <4>. QED
        BY <2>2, <2>5, <4>1 DEF TaskInv, Within
    <3>. QED
      BY <2>1, <3>1, <3>2, <3>3, <3>4 DEF Task
  <2>. QED
    BY <2>4, <2>5
<1>4. CASE Outside
  BY <1>1, <1>4 DEF Outside, AcceptCommand, EditRegistry, SaveAfterCommand, MyReboot, CommandGoes,
     initVars, patchVars, taskVars
<1>5. CASE UNCHANGED vars
  BY <1>1, <1>5 DEF vars
<1>. QED
  BY <1>2, <1>3, <1>4, <1>5 DEF Next

(* hijacks.c:243: for any number of functions still to be patched, a hook     *)
(* that runs finds LoadConfig through, the thread running and its copy        *)
(* complete, and calls the copy.                                             *)
THEOREM HooksAreServed == Spec => []HookFindsItsService
<1>1. ASSUME TypeOK, ServiceInv, PatchInv, TaskInv PROVE HookFindsItsService
  <2>. SUFFICES ASSUME NEW t \in Tasks, at[t] \in Within, mod \in InitSteps
                PROVE  /\ registry \in {"loaded", "partial"} /\ thread /\ copy[fn[t]] = "ready"
                       /\ at[t] = "call" => callee[t] = "copy"
    BY DEF HookFindsItsService, Within
  <2>1. text[fn[t]] = "jump" /\ (at[t] = "call" => callee[t] = "copy")
    BY <1>1 DEF TaskInv
  <2>2. fn[t] \in Funcs
    BY <1>1 DEF TypeOK, Within
  <2>3. mod \notin Early
    BY <1>1, <2>1, <2>2 DEF PatchInv
  <2>4. registry \in {"loaded", "partial"} /\ thread
    BY <1>1, <2>3 DEF ServiceInv, InitSteps, Early, Patching
  <2>. QED
    BY <1>1, <2>1, <2>2, <2>4 DEF PatchInv
<1>. QED
  BY <1>1, TypeInit, TypeStep, ServiceInit, ServiceStep, PatchInit, PatchStep, TaskInit, TaskStep,
     PTL DEF Spec

(* hijacks.c:241, 266: until the module is unloaded nobody inside a hook or a *)
(* copy goes astray, only those who are in the five bytes.                   *)
THEOREM OnlyThePatchedGoAstray == Spec => OnlyPatchedBytesLoseTasks
<1>1. ASSUME TypeOK, PatchInv, TaskInv, [Next]_vars
      PROVE  [\A t \in Tasks :
                at[t] # "lost" /\ at'[t] = "lost" /\ mod \in InitSteps =>
                  at[t] \in {"out", "prologue"}]_vars
  <2>. SUFFICES ASSUME Next, NEW u \in Tasks, at[u] # "lost", at'[u] = "lost", mod \in InitSteps
                PROVE  at[u] \in {"out", "prologue"}
    BY <1>1
  <2>0. at \in [Tasks -> {"out", "prologue", "hook", "call", "copy", "back", "lost"}]
    BY <1>1 DEF TypeOK
  <2>1. CASE Module \/ Outside
    <3>1. UNCHANGED at
      BY <2>1, ModuleActs
         DEF ModuleInitActs, KernfuncInit, KernfuncInitFails, RegisterRebootNotifier, NetlinkKernelCreate,
             MakeCaches, LoadConfig, LoadConfigCutShort, KthreadRun, InitFails, ModuleExitActs, UnregisterRebootNotifier,
             NetlinkKernelRelease, KthreadStop, UninitMonitorSet, FreeModule, PatchActs, HijackFails, BuildCopy,
             WriteOpcode, WriteOffset, AllHijacked, UnpatchActs, ExitRtbackup, BeginRestore, EndRestore,
             FreeCopy, SkipRestore, AllRestored, Outside, AcceptCommand, EditRegistry,
             SaveAfterCommand, MyReboot, CommandGoes, taskVars
    <3>. QED
      BY <3>1
  <2>2. CASE \E t \in Tasks : Task(t)
    <3>1. PICK t \in Tasks : Task(t)
      BY <2>2
    <3>2. u = t
      BY <2>0, <3>1 DEF Task, CallFunction, LeavePrologue, EnterHook, CallOriginal, LeaveCopy, LeaveHook,
         GoAstray, TaskGoes
    <3>3. ASSUME at[t] \in Within PROVE FALSE
      <4>1. text[fn[t]] = "jump" /\ (at[t] = "call" => callee[t] = "copy") /\ fn[t] \in Funcs
        BY <1>1, <3>3 DEF TaskInv, TypeOK, Within
      <4>2. ~Gone /\ copy[fn[t]] = "ready"
        BY <1>1, <4>1 DEF PatchInv, Gone, InitSteps
      <4>3. Sound(t)
        BY <3>3, <4>2 DEF Sound, Within
      <4>. QED
        BY <2>0, <3>1, <3>2, <3>3, <4>1, <4>3
           DEF Task, CallFunction, LeavePrologue, EnterHook, CallOriginal, LeaveCopy, LeaveHook,
               GoAstray, TaskGoes, Within
    <3>. QED
      BY <2>0, <3>2, <3>3 DEF Within
  <2>. QED
    BY <2>1, <2>2 DEF Next
<1>. QED
  BY <1>1, TypeInit, TypeStep, PatchInit, PatchStep, TaskInit, TaskStep, PTL
     DEF Spec, OnlyPatchedBytesLoseTasks

-----------------------------------------------------------------------------
(* Addresses modulo M *)

LEMMA ModParts ==
  ASSUME NEW m \in Nat \ {0}, NEW x \in Int
  PROVE  \E q \in Int, r \in 0..(m - 1) : x = m * q + r /\ x % m = r
<1>1. m \in Int /\ m > 0
  OBVIOUS
<1>2. x = m * (x \div m) + (x % m)
  BY ONLY <1>1, x \in Int
<1>3. x \div m \in Int /\ x % m \in 0..(m - 1)
  BY Z3
<1>. QED
  BY <1>2, <1>3

LEMMA ModUnique ==
  ASSUME NEW m \in Nat \ {0}, NEW q \in Int, NEW r \in 0..(m - 1)
  PROVE  (m * q + r) % m = r
BY Z3

LEMMA Distributes ==
  ASSUME NEW m \in Int, NEW p \in Int, NEW q \in Int
  PROVE  m * (p + q) = m * p + m * q /\ p + q \in Int /\ m * p \in Int /\ m * q \in Int
BY Z3

LEMMA ModPlus ==
  ASSUME NEW m \in Nat \ {0}, NEW a \in Int, NEW b \in Int
  PROVE  (a + (b % m)) % m = (a + b) % m
<1>1. PICK q \in Int, r \in 0..(m - 1) : b = m * q + r /\ b % m = r
  BY ModParts
<1>2. a + r \in Int
  OBVIOUS
<1>3. PICK p \in Int, s \in 0..(m - 1) : a + r = m * p + s /\ (a + r) % m = s
  BY <1>2, ModParts
<1>4. a + b = m * (p + q) + s /\ p + q \in Int
  BY <1>1, <1>3, Distributes
<1>5. (a + b) % m = s
  BY ONLY m \in Nat \ {0}, <1>3, <1>4, ModUnique
<1>. QED
  BY <1>1, <1>3, <1>5

Insns == [at : Nat, len : Nat \ {0}, kind : Kinds, to : 0..(M - 1)]

(* A relative address, put at another place and read there. *)
LEMMA OffsetFound ==
  ASSUME NEW base \in 0..(M - 1), NEW other \in 0..(M - 1), NEW insn \in Insns,
         NEW addr \in 0..(M - 1)
  PROVE  /\ CodeOffsetFromAddr(base, insn, addr) \in Int
         /\ CodeAddrFromOffset(base, insn, CodeOffsetFromAddr(base, insn, addr)) = addr
         /\ CodeAddrFromOffset(other, insn, CodeOffsetFromAddr(base, insn, addr)) =
              (other + (addr - base)) % M
<1>0. M \in Nat \ {0} /\ insn.at \in Nat /\ insn.len \in Nat
  BY LifecycleAssumption DEF Insns
<1>. DEFINE e == insn.at + insn.len
            b == addr - (base + e)
<1>1. /\ b \in Int /\ base + e \in Int /\ other + e \in Int
      /\ (base + e) + b = addr /\ (other + e) + b = other + (addr - base)
      /\ \A x \in Int : base + insn.at + insn.len + x = (base + e) + x
      /\ \A x \in Int : other + insn.at + insn.len + x = (other + e) + x
      /\ base + insn.at + insn.len = base + e
  BY <1>0
<1>2. CodeOffsetFromAddr(base, insn, addr) = b % M
  BY <1>1 DEF CodeOffsetFromAddr
<1>. HIDE DEF e, b
<1>3. b % M \in Int
  BY <1>0, <1>1, ModParts
<1>4. /\ ((base + e) + (b % M)) % M = ((base + e) + b) % M
      /\ ((other + e) + (b % M)) % M = ((other + e) + b) % M
  BY <1>0, <1>1, ModPlus
<1>5. addr % M = addr
  BY <1>0
<1>6. CodeAddrFromOffset(base, insn, b % M) = ((base + e) + (b % M)) % M
  BY <1>1, <1>3 DEF CodeAddrFromOffset
<1>7. CodeAddrFromOffset(other, insn, b % M) = ((other + e) + (b % M)) % M
  BY <1>1, <1>3 DEF CodeAddrFromOffset
<1>. QED
  BY <1>1, <1>2, <1>3, <1>4, <1>5, <1>6, <1>7

LEMMA FixupMeansTheSame ==
  ASSUME NEW f \in Funcs, NEW i \in DOMAIN Code[f], Code[f][i].kind \in {"jump", "rip"}
  PROVE  CodeAddrFromOffset(CopyBase[f], Code[f][i], CopyAndFixupInsn(f, Code[f][i])) =
           IF Code[f][i].to \in Inside(f) THEN (CopyBase[f] + (Code[f][i].to - Base[f])) % M
                                          ELSE Code[f][i].to
<1>. DEFINE insn == Code[f][i]
<1>1. /\ Base[f] \in 0..(M - 1) /\ CopyBase[f] \in 0..(M - 1)
      /\ Code[f] \in Seq(Insns)
  BY LifecycleAssumption DEF Insns
<1>2. insn \in Insns /\ insn.kind \in {"jump", "rip"}
  BY <1>1
<1>. HIDE DEF insn
<1>3. insn.to \in 0..(M - 1)
  BY <1>2 DEF Insns
<1>4. \A base \in 0..(M - 1), other \in 0..(M - 1) :
        /\ CodeAddrFromOffset(base, insn, CodeOffsetFromAddr(base, insn, insn.to)) = insn.to
        /\ CodeAddrFromOffset(other, insn, CodeOffsetFromAddr(base, insn, insn.to)) =
             (other + (insn.to - base)) % M
  BY ONLY <1>2, <1>3, OffsetFound
<1>5. /\ CodeAddrFromOffset(Base[f], insn, CodeOffsetFromAddr(Base[f], insn, insn.to)) = insn.to
      /\ CodeAddrFromOffset(CopyBase[f], insn, CodeOffsetFromAddr(CopyBase[f], insn, insn.to)) = insn.to
  BY <1>1, <1>4
<1>6. CodeAddrFromOffset(CopyBase[f], insn, CodeOffsetFromAddr(Base[f], insn, insn.to)) =
        (CopyBase[f] + (insn.to - Base[f])) % M
  BY <1>1, <1>4
<1>8. CopyAndFixupInsn(f, insn) =
        IF insn.to \notin Inside(f) THEN CodeOffsetFromAddr(CopyBase[f], insn, insn.to)
                                    ELSE CodeOffsetFromAddr(Base[f], insn, insn.to)
  BY <1>2, <1>5 DEF CopyAndFixupInsn
<1>9. CodeAddrFromOffset(CopyBase[f], insn, CopyAndFixupInsn(f, insn)) =
        IF insn.to \in Inside(f) THEN (CopyBase[f] + (insn.to - Base[f])) % M ELSE insn.to
  BY <1>5, <1>6, <1>8
<1>. QED
  BY <1>9 DEF insn

ImageInv ==
  \A f \in Funcs : copy[f] = "ready" =>
    image[f] = [i \in DOMAIN Code[f] |-> CopyAndFixupInsn(f, Code[f][i])]

LEMMA ImageInit == Init => ImageInv
BY DEF Init, ImageInv

LEMMA ImageStep == TypeOK /\ ImageInv /\ [Next]_vars => ImageInv'
<1>. SUFFICES ASSUME TypeOK, ImageInv, [Next]_vars PROVE ImageInv'
  OBVIOUS
<1>0. DOMAIN image = Funcs /\ copy \in [Funcs -> {"none", "ready", "freed"}]
  BY DEF TypeOK
<1>1. CASE UNCHANGED <<copy, image>>
  BY <1>1 DEF ImageInv
<1>2. CASE BuildCopy
  <2>1. /\ next \in Funcs /\ copy' = [copy EXCEPT ![next] = "ready"]
        /\ image' = [image EXCEPT ![next] =
                       [i \in DOMAIN Code[next] |-> CopyAndFixupInsn(next, Code[next][i])]]
    BY <1>2 DEF BuildCopy
  <2>2. \A f \in Funcs \ {next} : copy'[f] = copy[f] /\ image'[f] = image[f]
    BY <1>0, <2>1
  <2>3. image'[next] = [i \in DOMAIN Code[next] |-> CopyAndFixupInsn(next, Code[next][i])]
    BY <1>0, <2>1
  <2>. QED
    BY <2>2, <2>3 DEF ImageInv
<1>3. CASE HijackFails \/ FreeCopy
  <2>1. UNCHANGED image /\ \E left \in {"none", "freed"} : copy' = [copy EXCEPT ![next] = left]
    BY <1>3 DEF HijackFails, FreeCopy
  <2>2. \A f \in Funcs : copy'[f] = "ready" => copy[f] = "ready"
    BY <1>0, <2>1
  <2>. QED
    BY <2>1, <2>2 DEF ImageInv
<1>4. CASE Module
  <2>1. \/ BuildCopy \/ HijackFails \/ FreeCopy \/ UNCHANGED <<copy, image>>
    BY <1>4, ModuleActs
       DEF ModuleInitActs, KernfuncInit, KernfuncInitFails, RegisterRebootNotifier, NetlinkKernelCreate,
           MakeCaches, LoadConfig, LoadConfigCutShort, KthreadRun, InitFails, ModuleExitActs, UnregisterRebootNotifier,
           NetlinkKernelRelease, KthreadStop, UninitMonitorSet, FreeModule, PatchActs,
           WriteOpcode, WriteOffset, AllHijacked, UnpatchActs, ExitRtbackup, BeginRestore, EndRestore,
           SkipRestore, AllRestored, patchVars
  <2>. QED
    BY <1>1, <1>2, <1>3, <2>1
<1>5. CASE \E t \in Tasks : Task(t)
  BY <1>1, <1>5 DEF Task, CallFunction, LeavePrologue, EnterHook, CallOriginal, LeaveCopy, LeaveHook,
     GoAstray, TaskGoes, patchVars
<1>6. CASE Outside
  BY <1>1, <1>6 DEF Outside, AcceptCommand, EditRegistry, SaveAfterCommand, MyReboot, CommandGoes,
     patchVars
<1>7. CASE UNCHANGED vars
  BY <1>1, <1>7 DEF vars
<1>. QED
  BY <1>4, <1>5, <1>6, <1>7 DEF Next

(* hijacks.c:28, 48: wherever a function and its copy lie and however the      *)
(* distances between them wrap around, a corrected instruction of the copy     *)
(* means the address the function meant.                                     *)
THEOREM CopiesMeanTheSame == Spec => []CopyMeansTheSame
<1>1. ASSUME ImageInv PROVE CopyMeansTheSame
  <2>. SUFFICES ASSUME NEW f \in Funcs, copy[f] = "ready", NEW i \in DOMAIN Code[f],
                       Code[f][i].kind \in {"jump", "rip"}
                PROVE  CodeAddrFromOffset(CopyBase[f], Code[f][i], image[f][i]) =
                         IF Code[f][i].to \in Inside(f)
                           THEN (CopyBase[f] + (Code[f][i].to - Base[f])) % M
                           ELSE Code[f][i].to
    BY DEF CopyMeansTheSame
  <2>1. image[f][i] = CopyAndFixupInsn(f, Code[f][i])
    BY <1>1 DEF ImageInv
  <2>. QED
    BY <2>1, FixupMeansTheSame
<1>. QED
  BY <1>1, TypeInit, TypeStep, ImageInit, ImageStep, PTL DEF Spec
=============================================================================
