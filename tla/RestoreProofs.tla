---------------------------- MODULE RestoreProofs ----------------------------
(***************************************************************************)
(* Proofs about the tools that read the logs (Restore): types, that a log is *)
(* passed over only after a failed read, and that a replay reproduces the    *)
(* monitored files as they were.                                            *)
(***************************************************************************)
EXTENDS Restore, FiniteSetTheorems, SequenceTheorems, TLAPS

-----------------------------------------------------------------------------
(* Operations and their records *)

Ops == [kind : AllKinds \cup {"error"}, path : Paths, new : Paths, value : Values \cup {""}]
Valued(op) == op.kind = "write" => op.value \in Values

(* What Data holds depends on the type of a record. *)
GoodLog(log) ==
  /\ log \in Logs
  /\ IF log.type = "WRITE" THEN log.data \in Values ELSE log.data \in Paths

LEMMA RecordFields ==
  ASSUME NEW type, NEW op
  PROVE  Record(type, op) = [type |-> type, dir |-> op.kind \in {"mkdir", "rmdir"},
                             path |-> op.path, data |-> op.path]
BY DEF Record

LEMMA LogOfGood ==
  ASSUME NEW op \in Ops, Valued(op)
  PROVE  GoodLog(LogOf(op))
<1>1. op.path \in Paths /\ op.new \in Paths /\ op.kind \in AllKinds \cup {"error"}
  BY DEF Ops
<1>2. (op.kind \in {"mkdir", "rmdir"}) \in BOOLEAN
  OBVIOUS
<1>3. \A type \in {"NEWFILE", "DELETEFILE", "ERROR"} : GoodLog(Record(type, op))
  BY <1>1, <1>2 DEF Record, GoodLog, Logs
<1>4. \A type \in {"RENAMEFILE", "HARDLINK", "SOFTLINK"} :
        GoodLog([Record(type, op) EXCEPT !.data = op.new])
  BY <1>1, <1>2 DEF Record, GoodLog, Logs
<1>5. op.kind = "write" => GoodLog([Record("WRITE", op) EXCEPT !.data = op.value])
  BY <1>1, <1>2 DEF Record, GoodLog, Logs, Valued
<1>6. CASE op.kind \in {"create", "mkdir"}
  BY <1>3, <1>6 DEF LogOf, NewFileLog
<1>7. CASE op.kind \in {"unlink", "rmdir"}
  BY <1>3, <1>7 DEF LogOf, DeleteLog
<1>8. CASE op.kind = "write"
  BY <1>5, <1>8 DEF LogOf, DataLog
<1>9. CASE op.kind = "rename"
  BY <1>4, <1>9 DEF LogOf, RenameLog
<1>10. CASE op.kind = "link"
  BY <1>4, <1>10 DEF LogOf, HardLinkLog
<1>11. CASE op.kind = "symlink"
  BY <1>4, <1>11 DEF LogOf, SoftLinkLog
<1>12. CASE op.kind = "error"
  BY <1>3, <1>12 DEF LogOf, ErrorLog
<1>. QED
  BY <1>1, <1>6, <1>7, <1>8, <1>9, <1>10, <1>11, <1>12 DEF AllKinds, OneName, TwoNames

LEMMA OpOfType ==
  ASSUME NEW log, GoodLog(log)
  PROVE  OpOf(log) \in Ops /\ Valued(OpOf(log))
<1>1. /\ log.path \in Paths /\ log.dir \in BOOLEAN
      /\ log.type \in {"NEWFILE", "DELETEFILE", "WRITE", "RENAMEFILE", "HARDLINK", "SOFTLINK", "ERROR"}
      /\ IF log.type = "WRITE" THEN log.data \in Values ELSE log.data \in Paths
  BY DEF GoodLog, Logs
<1>. USE DEF OpOf, Ops, Valued, AllKinds, OneName, TwoNames
<1>2. CASE log.type = "NEWFILE"
  BY <1>1, <1>2
<1>3. CASE log.type = "DELETEFILE"
  BY <1>1, <1>3
<1>4. CASE log.type = "WRITE"
  BY <1>1, <1>4
<1>5. CASE log.type = "RENAMEFILE"
  BY <1>1, <1>5
<1>6. CASE log.type = "HARDLINK"
  BY <1>1, <1>6
<1>7. CASE log.type = "SOFTLINK"
  BY <1>1, <1>7
<1>8. CASE log.type = "ERROR"
  BY <1>1, <1>8
<1>. QED
  BY <1>1, <1>2, <1>3, <1>4, <1>5, <1>6, <1>7, <1>8

-----------------------------------------------------------------------------
(* Trees *)

Kept == {NoFile, Dir, File("")} \cup {File(v) : v \in Values} \cup {Link(p) : p \in Paths}

LEMMA TreeFields ==
  ASSUME NEW tree \in Trees
  PROVE  /\ tree.node \in [Paths -> Nums \cup {0}]
         /\ tree.data \in [0..MaxOps -> Kept]
         /\ tree = [node |-> tree.node, data |-> tree.data]
BY DEF Trees, Kept

LEMMA TreeOfFields ==
  ASSUME NEW node \in [Paths -> Nums \cup {0}], NEW data \in [0..MaxOps -> Kept]
  PROVE  [node |-> node, data |-> data] \in Trees
BY DEF Trees, Kept

(* The fields of the tree a successful operation makes. *)
LEMMA EffectFields ==
  ASSUME NEW tree \in Trees, NEW op \in Ops, NEW n \in Nums
  PROVE  /\ op.kind \in {"create", "mkdir"} =>
              Effect(tree, op, n) =
                [node |-> [tree.node EXCEPT ![op.path] = n],
                 data |-> [tree.data EXCEPT ![n] = IF op.kind = "create" THEN File("") ELSE Dir]]
         /\ op.kind = "symlink" =>
              Effect(tree, op, n) =
                [node |-> [tree.node EXCEPT ![op.new] = n],
                 data |-> [tree.data EXCEPT ![n] = Link(op.path)]]
         /\ op.kind = "write" =>
              Effect(tree, op, n) =
                [node |-> tree.node,
                 data |-> [tree.data EXCEPT ![tree.node[op.path]] = File(op.value)]]
         /\ op.kind \in {"unlink", "rmdir"} =>
              Effect(tree, op, n) =
                [node |-> [tree.node EXCEPT ![op.path] = 0], data |-> tree.data]
         /\ op.kind = "rename" =>
              Effect(tree, op, n) =
                [node |-> [[tree.node EXCEPT ![op.path] = 0] EXCEPT ![op.new] = tree.node[op.path]],
                 data |-> tree.data]
         /\ op.kind = "link" =>
              Effect(tree, op, n) =
                [node |-> [tree.node EXCEPT ![op.new] = tree.node[op.path]], data |-> tree.data]
<1>1. tree = [node |-> tree.node, data |-> tree.data]
  BY TreeFields
<1>2. CASE op.kind \in {"create", "mkdir"}
  BY <1>2 DEF Effect
<1>3. CASE op.kind = "symlink"
  BY <1>3 DEF Effect
<1>4. CASE op.kind = "write"
  BY <1>1, <1>4 DEF Effect
<1>5. CASE op.kind \in {"unlink", "rmdir"}
  BY <1>1, <1>5 DEF Effect
<1>6. CASE op.kind = "rename"
  BY <1>1, <1>6 DEF Effect
<1>7. CASE op.kind = "link"
  BY <1>1, <1>7 DEF Effect
<1>. QED
  BY <1>2, <1>3, <1>4, <1>5, <1>6, <1>7

LEMMA TryType ==
  ASSUME NEW tree \in Trees, NEW op \in Ops, Valued(op), NEW n \in Nums
  PROVE  Try(tree, op, n) \in Trees
<1>. SUFFICES ASSUME Succeeds(tree, op) PROVE Effect(tree, op, n) \in Trees
  BY DEF Try
<1>1. /\ tree.node \in [Paths -> Nums \cup {0}] /\ tree.data \in [0..MaxOps -> Kept]
      /\ op.path \in Paths /\ op.new \in Paths /\ op.kind \in AllKinds \cup {"error"}
  BY TreeFields DEF Ops
<1>2. tree.node[op.path] \in 0..MaxOps /\ n \in 0..MaxOps
  BY <1>1, RestoreAssumption DEF Nums
<1>3. /\ File("") \in Kept /\ Dir \in Kept /\ Link(op.path) \in Kept
      /\ op.kind = "write" => File(op.value) \in Kept
  BY <1>1 DEF Kept, Valued
<1>4. op.kind # "error"
  BY DEF Succeeds
<1>5. \E node \in [Paths -> Nums \cup {0}], data \in [0..MaxOps -> Kept] :
         Effect(tree, op, n) = [node |-> node, data |-> data]
  <2>1. CASE op.kind \in {"create", "mkdir"}
    <3>1. [tree.node EXCEPT ![op.path] = n] \in [Paths -> Nums \cup {0}]
      BY <1>1
    <3>2. [tree.data EXCEPT ![n] = IF op.kind = "create" THEN File("") ELSE Dir] \in [0..MaxOps -> Kept]
      BY <1>1, <1>3
    <3>. QED
      BY <2>1, <3>1, <3>2, EffectFields
  <2>2. CASE op.kind = "symlink"
    <3>1. [tree.node EXCEPT ![op.new] = n] \in [Paths -> Nums \cup {0}]
      BY <1>1
    <3>2. [tree.data EXCEPT ![n] = Link(op.path)] \in [0..MaxOps -> Kept]
      BY <1>1, <1>3
    <3>3. Effect(tree, op, n) = [node |-> [tree.node EXCEPT ![op.new] = n],
                                 data |-> [tree.data EXCEPT ![n] = Link(op.path)]]
      BY <2>2, EffectFields
    <3>. QED
      BY <3>1, <3>2, <3>3
  <2>3. CASE op.kind = "write"
    <3>1. [tree.data EXCEPT ![tree.node[op.path]] = File(op.value)] \in [0..MaxOps -> Kept]
      BY <1>1, <1>3, <2>3
    <3>. QED
      BY <1>1, <2>3, <3>1, EffectFields
  <2>4. CASE op.kind \in {"unlink", "rmdir"}
    <3>1. [tree.node EXCEPT ![op.path] = 0] \in [Paths -> Nums \cup {0}]
      BY <1>1
    <3>. QED
      BY <1>1, <2>4, <3>1, EffectFields
  <2>5. CASE op.kind = "rename"
    <3>1. [[tree.node EXCEPT ![op.path] = 0] EXCEPT ![op.new] = tree.node[op.path]]
            \in [Paths -> Nums \cup {0}]
      BY <1>1
    <3>. QED
      BY <1>1, <2>5, <3>1, EffectFields
  <2>6. CASE op.kind = "link"
    <3>1. [tree.node EXCEPT ![op.new] = tree.node[op.path]] \in [Paths -> Nums \cup {0}]
      BY <1>1
    <3>. QED
      BY <1>1, <2>6, <3>1, EffectFields
  <2>. QED
    BY <1>1, <1>4, <2>1, <2>2, <2>3, <2>4, <2>5, <2>6 DEF AllKinds, OneName, TwoNames
<1>. QED
  BY <1>5, TreeOfFields

-----------------------------------------------------------------------------
(* Types *)

TypeInv ==
  /\ TypeOK
  /\ logs \in Seq(Logs) /\ \A i \in DOMAIN logs : GoodLog(logs[i])
  /\ applied \in Seq(Nums)
  /\ path \in Nat
  /\ rpc = "read" => path \in Nums /\ leaked < MaxFiles

LEMMA EmptyTreeType == EmptyTree \in Trees
<1>1. [p \in Paths |-> 0] \in [Paths -> Nums \cup {0}]
  OBVIOUS
<1>2. [n \in 0..MaxOps |-> NoFile] \in [0..MaxOps -> Kept]
  BY DEF Kept
<1>. QED
  BY <1>1, <1>2, TreeOfFields DEF EmptyTree

LEMMA TypeInit == Init => TypeInv
<1>. SUFFICES ASSUME Init PROVE TypeInv
  OBVIOUS
<1>1. logs = <<>> /\ applied = <<>>
  BY DEF Init
<1>2. /\ logs \in Seq(Logs) /\ applied \in Seq(Nums)
      /\ Len(logs) = 0 /\ Len(applied) = 0 /\ DOMAIN logs = {} /\ DOMAIN applied = {}
  BY <1>1, EmptySeq
<1>3. Applied = {}
  BY <1>2 DEF Applied
<1>4. source \in Trees /\ target \in Trees
  BY EmptyTreeType DEF Init
<1>5. FALSE \in BOOLEAN /\ TRUE \in BOOLEAN
  OBVIOUS
<1>6. /\ ops = 0 /\ running = TRUE /\ lost = {} /\ missed = {} /\ tangled = FALSE /\ wnum = 1 /\ leaked = 0
      /\ files = [n \in Nums |-> "absent"] /\ deleted = {} /\ tool \in Tools
      /\ rpc = "open" /\ iolognum = 1 /\ path = 1
  BY DEF Init
<1>7. ops \in 0..MaxOps /\ Len(logs) <= ops /\ leaked \in 0..MaxFiles /\ wnum \in 1..(Len(logs) + 1)
  BY <1>2, <1>6, RestoreAssumption
<1>8. /\ files \in [Nums -> {"absent", "part", "whole"}]
      /\ \A n \in Nums : files[n] = "absent"
  BY <1>6
<1>9. iolognum = 1 + Len(applied) + leaked + (IF rpc = "read" THEN 1 ELSE 0)
  BY <1>2, <1>6
<1>10. /\ \A i \in DOMAIN logs : logs[i] \in Logs
       /\ \A i \in DOMAIN logs : GoodLog(logs[i])
  BY <1>2
<1>11. TypeOK
  BY <1>3, <1>4, <1>5, <1>6, <1>7, <1>8, <1>9, <1>10 DEF TypeOK
<1>. QED
  BY <1>2, <1>6, <1>10, <1>11 DEF TypeInv

(* One more record. *)
LEMMA LogsAppended ==
  ASSUME TypeInv, NEW log, GoodLog(log)
  PROVE  /\ Append(logs, log) \in Seq(Logs)
         /\ Len(Append(logs, log)) = Len(logs) + 1
         /\ \A i \in DOMAIN Append(logs, log) : GoodLog(Append(logs, log)[i])
         /\ \A i \in DOMAIN logs : Append(logs, log)[i] = logs[i]
<1>1. logs \in Seq(Logs) /\ log \in Logs
  BY DEF TypeInv, GoodLog
<1>2. /\ Append(logs, log) \in Seq(Logs) /\ Len(Append(logs, log)) = Len(logs) + 1
      /\ DOMAIN logs = 1..Len(logs) /\ DOMAIN Append(logs, log) = 1..(Len(logs) + 1)
      /\ \A i \in 1..(Len(logs) + 1) :
           Append(logs, log)[i] = IF i <= Len(logs) THEN logs[i] ELSE log
      /\ Len(logs) \in Nat
  BY <1>1
<1>. QED
  BY <1>2 DEF TypeInv

(* What the task's operation is, and what it changes. *)
LEMMA OperationOf ==
  ASSUME TypeInv, Perform
  PROVE  \E op \in Ops :
           /\ Valued(op) /\ op.kind \in AllKinds
           /\ op.kind \notin TwoNames => op.new = op.path
           /\ ops < MaxOps /\ ops' = ops + 1
           /\ source' = Try(source, op, ops + 1)
           /\ Recorded(op, Try(source, op, ops + 1)) \/ Unrecorded(op)
           /\ tangled' = (tangled \/ (op.kind \in TwoNames /\ {op.path, op.new} \cap Monitored # {}))
           /\ UNCHANGED <<writerVars, readerVars>>
<1>1. PICK kind \in Kinds, p \in Paths, q \in Paths, v \in Values \cup {""} :
        /\ Operation(kind, p, q, v)
        /\ kind \notin TwoNames => q = p
        /\ kind = "write" => v \in Values
  <2>1. PICK kind \in Kinds, p \in Paths : \E q \in IF kind \in TwoNames THEN Paths \ {p} ELSE {p} :
               \E v \in IF kind = "write" THEN Values ELSE {""} : Operation(kind, p, q, v)
    BY DEF Perform
  <2>2. PICK q \in IF kind \in TwoNames THEN Paths \ {p} ELSE {p} :
               \E v \in IF kind = "write" THEN Values ELSE {""} : Operation(kind, p, q, v)
    BY <2>1
  <2>. QED
    BY <2>1, <2>2
<1>. DEFINE op == [kind |-> kind, path |-> p, new |-> q, value |-> v]
<1>2. op \in Ops /\ op.kind = kind /\ op.path = p /\ op.new = q /\ op.value = v /\ kind \in AllKinds
  BY RestoreAssumption DEF Ops
<1>3. Valued(op)
  BY <1>1, <1>2 DEF Valued
<1>4. /\ ops < MaxOps /\ ops' = ops + 1
      /\ source' = Try(source, op, ops + 1)
      /\ Recorded(op, Try(source, op, ops + 1)) \/ Unrecorded(op)
      /\ tangled' = (tangled \/ (kind \in TwoNames /\ {p, q} \cap Monitored # {}))
      /\ UNCHANGED <<writerVars, readerVars>>
  BY <1>1 DEF Operation
<1>. HIDE DEF op
<1>. QED
  BY <1>1, <1>2, <1>3, <1>4

LEMMA ErrorOp ==
  ASSUME NEW op \in Ops
  PROVE  /\ [op EXCEPT !.kind = "error"] \in Ops
         /\ [op EXCEPT !.kind = "error"].kind = "error"
         /\ [op EXCEPT !.kind = "error"].path = op.path
         /\ Valued([op EXCEPT !.kind = "error"])
BY DEF Ops, Valued

LEMMA PerformType ==
  ASSUME TypeInv, Perform
  PROVE  TypeInv'
<1>0. PICK op \in Ops :
           /\ Valued(op)
           /\ ops < MaxOps /\ ops' = ops + 1
           /\ source' = Try(source, op, ops + 1)
           /\ Recorded(op, Try(source, op, ops + 1)) \/ Unrecorded(op)
           /\ tangled' = (tangled \/ (op.kind \in TwoNames /\ {op.path, op.new} \cap Monitored # {}))
           /\ UNCHANGED <<writerVars, readerVars>>
  BY OperationOf
<1>1. /\ Valued(op)
      /\ ops < MaxOps /\ ops' = ops + 1
      /\ source' = Try(source, op, ops + 1)
      /\ \/ /\ logs' = Append(logs, LogOf(IF Succeeds(source, op) THEN op
                                            ELSE [op EXCEPT !.kind = "error"]))
            /\ lost' \subseteq lost \cup {Len(logs) + 1}
         \/ UNCHANGED <<logs, lost>>
      /\ missed' \subseteq missed \cup {op.path, op.new}
      /\ running' \in {running, TRUE, FALSE}
      /\ tangled' \in BOOLEAN
      /\ UNCHANGED <<writerVars, readerVars>>
  <2>1. CASE Recorded(op, Try(source, op, ops + 1))
    BY <1>0, <2>1 DEF Recorded, TypeInv, TypeOK
  <2>2. CASE Unrecorded(op)
    BY <1>0, <2>2 DEF Unrecorded, TypeInv, TypeOK
  <2>. QED
    BY <1>0, <2>1, <2>2
<1>2. ops \in 0..MaxOps /\ source \in Trees /\ MaxOps \in Nat
  BY RestoreAssumption DEF TypeInv, TypeOK
<1>3. source' \in Trees /\ ops' \in 0..MaxOps
  <2>1. ops + 1 \in Nums
    BY <1>1, <1>2 DEF Nums
  <2>. QED
    BY <1>1, <1>2, <2>1, TryType
<1>4. /\ logs' \in Seq(Logs) /\ (\A i \in DOMAIN logs' : GoodLog(logs'[i]))
      /\ Len(logs) <= Len(logs') /\ Len(logs') <= Len(logs) + 1 /\ Len(logs) \in Nat
  <2>0. logs \in Seq(Logs) /\ Len(logs) \in Nat
    BY DEF TypeInv
  <2>1. CASE logs' = Append(logs, LogOf(IF Succeeds(source, op) THEN op
                                         ELSE [op EXCEPT !.kind = "error"]))
    <3>1. GoodLog(LogOf(IF Succeeds(source, op) THEN op ELSE [op EXCEPT !.kind = "error"]))
      BY <1>1, LogOfGood, ErrorOp
    <3>. QED
      BY <2>0, <2>1, <3>1, LogsAppended
  <2>2. CASE UNCHANGED logs
    BY <2>0, <2>2 DEF TypeInv
  <2>. QED
    BY <1>1, <2>1, <2>2
<1>5. \A i \in DOMAIN logs' : logs'[i] \in Logs
  BY <1>4 DEF GoodLog
<1>6. /\ UNCHANGED <<wnum, files, tool, rpc, iolognum, path, leaked, applied, target, deleted>>
      /\ tangled' \in BOOLEAN /\ running' \in BOOLEAN
  BY <1>1 DEF writerVars, readerVars, TypeInv, TypeOK
<1>7. Applied' = Applied
  BY <1>6 DEF Applied
<1>11. \/ Len(logs') = Len(logs) + 1 /\ lost' \subseteq lost \cup {Len(logs) + 1}
       \/ UNCHANGED <<logs, lost>>
  <2>1. CASE UNCHANGED <<logs, lost>>
    BY <2>1
  <2>2. ASSUME NEW log, logs' = Append(logs, log) PROVE Len(logs') = Len(logs) + 1
    <3>1. logs \in Seq(Logs)
      BY DEF TypeInv
    <3>2. logs' \in Seq(Logs)
      BY <1>4
    <3>. QED
      BY <2>2, <3>1
  <2>. QED
    BY <1>1, <2>1, <2>2
<1>12. lost \subseteq 1..Len(logs) /\ Len(logs) <= ops /\ wnum \in 1..(Len(logs) + 1)
       /\ missed \subseteq Paths /\ op.path \in Paths /\ op.new \in Paths
       /\ \A n \in Nums : files[n] # "absent" => n <= Len(logs) /\ n \notin lost
  <2>1. op.path \in Paths /\ op.new \in Paths
    BY DEF Ops
  <2>. QED
    BY <2>1 DEF TypeInv, TypeOK
<1>13. lost' \subseteq 1..Len(logs') /\ missed' \subseteq Paths
  <2>1. missed' \subseteq Paths
    BY <1>1, <1>12
  <2>2. CASE UNCHANGED <<logs, lost>>
    BY <1>12, <2>1, <2>2
  <2>3. ASSUME Len(logs') = Len(logs) + 1, lost' \subseteq lost \cup {Len(logs) + 1}
        PROVE  lost' \subseteq 1..Len(logs')
    BY <1>4, <1>12, <2>3
  <2>. QED
    BY <1>11, <2>1, <2>2, <2>3
<1>8. /\ wnum' \in 1..(Len(logs') + 1) /\ Len(logs') <= ops'
      /\ \A n \in Nums : files'[n] # "absent" => n <= Len(logs') /\ n \notin lost'
  <2>1. wnum' \in 1..(Len(logs') + 1) /\ Len(logs') <= ops'
    BY <1>1, <1>2, <1>4, <1>6, <1>12
  <2>2. ASSUME NEW n \in Nums, files'[n] # "absent" PROVE n <= Len(logs') /\ n \notin lost'
    <3>1. n \in Nat /\ n <= Len(logs) /\ n \notin lost
      BY <1>6, <1>12, <2>2 DEF Nums
    <3>. QED
      BY <1>4, <1>11, <3>1
  <2>. QED
    BY <2>1, <2>2
<1>9. /\ target' \in Trees /\ running' \in BOOLEAN
      /\ files' \in [Nums -> {"absent", "part", "whole"}] /\ tool' \in Tools
      /\ rpc' \in {"open", "read", "sleep"} /\ leaked' \in 0..MaxFiles
      /\ rpc' = "read" => files'[path'] # "absent"
      /\ Applied' \subseteq {n \in Nums : files'[n] = "whole"}
      /\ deleted' \subseteq Applied'
      /\ iolognum' = 1 + Len(applied') + leaked' + (IF rpc' = "read" THEN 1 ELSE 0)
      /\ applied' \in Seq(Nums) /\ path' \in Nat
      /\ rpc' = "read" => path' \in Nums /\ leaked' < MaxFiles
  BY <1>6, <1>7 DEF TypeInv, TypeOK
<1>10. TypeOK'
  BY <1>3, <1>5, <1>6, <1>8, <1>9, <1>13 DEF TypeOK
<1>. QED
  BY <1>4, <1>9, <1>10 DEF TypeInv

LEMMA WriterType ==
  ASSUME TypeInv, Writer
  PROVE  TypeInv'
<1>1. PICK num \in Nums :
      /\ UNCHANGED <<source, ops, logs, lost, past, missed, tangled, readerVars>>
      /\ running' \in BOOLEAN
      /\ Due(num) /\ wnum' \in {wnum, num + 1}
      /\ \/ UNCHANGED files
         \/ files[num] = "absent" /\ files' = [files EXCEPT ![num] = "part"]
         \/ files[num] = "part" /\ files' = [files EXCEPT ![num] = "whole"]
  <2>1. running \in BOOLEAN
    BY DEF TypeInv, TypeOK
  <2>2. CASE OpenLog
    BY <2>1, <2>2 DEF OpenLog, sourceVars
  <2>3. CASE WriteLog
    BY <2>1, <2>3 DEF WriteLog, sourceVars
  <2>4. CASE LogFails
    BY <2>1, <2>4 DEF LogFails, sourceVars
  <2>. QED
    BY <2>2, <2>3, <2>4 DEF Writer
<1>5. num \in Nat /\ num >= wnum /\ num <= Len(logs) /\ num \notin lost
  BY <1>1 DEF Due, Nums, TypeInv, TypeOK
<1>2. Len(logs) \in Nat /\ wnum \in 1..(Len(logs) + 1) /\ files \in [Nums -> {"absent", "part", "whole"}]
  BY DEF TypeInv, TypeOK
<1>3. /\ files' \in [Nums -> {"absent", "part", "whole"}]
      /\ \A n \in Nums : files'[n] # "absent" => n <= Len(logs) /\ n \notin lost
      /\ \A n \in Nums : files[n] # "absent" => files'[n] # "absent"
      /\ \A n \in Nums : files[n] = "whole" => files'[n] = "whole"
  BY <1>1, <1>2, <1>5 DEF TypeInv, TypeOK
<1>4. UNCHANGED <<tool, rpc, iolognum, path, leaked, applied, target, deleted>> /\ Applied' = Applied
  BY <1>1 DEF readerVars, Applied
<1>6. wnum' \in 1..(Len(logs) + 1)
  BY <1>1, <1>2, <1>5
<1>. QED
  BY <1>1, <1>2, <1>3, <1>4, <1>6 DEF TypeInv, TypeOK

(* The reader's list of logs grows by the one it has read. *)
LEMMA AppliedAppended ==
  ASSUME applied \in Seq(Nums), NEW n \in Nums, applied' = Append(applied, n)
  PROVE  /\ applied' \in Seq(Nums) /\ Len(applied') = Len(applied) + 1 /\ Len(applied) \in Nat
         /\ Applied' = Applied \cup {n}
         /\ DOMAIN applied = 1..Len(applied) /\ DOMAIN applied' = 1..(Len(applied) + 1)
         /\ \A i \in 1..(Len(applied) + 1) :
              applied'[i] = IF i <= Len(applied) THEN applied[i] ELSE n
<1>1. /\ applied' \in Seq(Nums) /\ Len(applied') = Len(applied) + 1 /\ Len(applied) \in Nat
      /\ DOMAIN applied = 1..Len(applied) /\ DOMAIN applied' = 1..(Len(applied) + 1)
      /\ \A i \in 1..(Len(applied) + 1) :
           applied'[i] = IF i <= Len(applied) THEN applied[i] ELSE n
  OBVIOUS
<1>2. Applied' = Applied \cup {n}
  BY <1>1 DEF Applied
<1>. QED
  BY <1>1, <1>2

LEMMA ReaderType ==
  ASSUME TypeInv, Reader
  PROVE  TypeInv'
<1>0. /\ UNCHANGED <<tool, source, ops, running, logs, lost, past, missed, tangled, wnum, files>>
      /\ applied \in Seq(Nums) /\ Len(applied) \in Nat /\ leaked \in Nat /\ iolognum \in Nat
      /\ MaxFiles \in Nat
  <2>1. UNCHANGED <<tool, source, ops, running, logs, lost, past, missed, tangled, wnum, files>>
    BY DEF Reader, OpenFails, Open, ReadFails, Read, Sleep, ReaderGoes, sourceVars, writerVars
  <2>2. MaxFiles \in Nat /\ leaked \in Nat
    BY RestoreAssumption DEF TypeInv, TypeOK
  <2>3. applied \in Seq(Nums) /\ Len(applied) \in Nat
    BY DEF TypeInv
  <2>4. iolognum = 1 + Len(applied) + leaked + (IF rpc = "read" THEN 1 ELSE 0)
    BY DEF TypeInv, TypeOK
  <2>. QED
    BY <2>1, <2>2, <2>3, <2>4
<1>1. CASE OpenFails \/ Sleep \/ Open
  <2>1. UNCHANGED <<path, leaked, applied, target, deleted>> /\ Applied' = Applied
    BY <1>1 DEF OpenFails, Sleep, Open, Applied
  <2>2. \/ rpc # "read" /\ rpc' # "read" /\ rpc' \in {"open", "sleep"} /\ UNCHANGED iolognum
        \/ /\ rpc = "open" /\ rpc' = "read" /\ iolognum' = iolognum + 1
           /\ path \in Nums /\ files[path] # "absent" /\ leaked < MaxFiles
    BY <1>1 DEF OpenFails, Sleep, Open, Openable, ReaderGoes
  <2>3. /\ rpc' \in {"open", "read", "sleep"}
        /\ rpc' = "read" => files'[path'] # "absent" /\ path' \in Nums /\ leaked' < MaxFiles
    BY <1>0, <2>1, <2>2 DEF TypeInv, TypeOK
  <2>4. iolognum' = 1 + Len(applied') + leaked' + (IF rpc' = "read" THEN 1 ELSE 0)
    <3>1. iolognum = 1 + Len(applied) + leaked + (IF rpc = "read" THEN 1 ELSE 0)
      BY DEF TypeInv, TypeOK
    <3>. QED
      BY <1>0, <2>1, <2>2, <3>1
  <2>5. TypeOK'
    <3>1. TypeOK
      BY DEF TypeInv
    <3>. QED
      BY <1>0, <2>1, <2>3, <2>4, <3>1 DEF TypeOK
  <2>. QED
    BY <1>0, <2>1, <2>3, <2>5 DEF TypeInv
<1>2. CASE ReadFails
  <2>1. /\ UNCHANGED <<iolognum, path, applied, target, deleted>> /\ leaked' = leaked + 1
        /\ rpc = "read" /\ rpc' = "sleep" /\ Applied' = Applied
    BY <1>2 DEF ReadFails, ReaderGoes, Applied
  <2>. QED
    BY <1>0, <2>1 DEF TypeInv, TypeOK
<1>3. CASE Read
  <2>1. /\ rpc = "read" /\ rpc' = "open" /\ path \in Nums /\ files[path] = "whole"
        /\ applied' = Append(applied, path) /\ path' = iolognum
        /\ UNCHANGED <<iolognum, leaked>>
        /\ target' \in {target, Try(target, OpOf(logs[path]), path)}
        /\ deleted' \subseteq deleted \cup {path}
    BY <1>3 DEF Read, ReaderGoes, TypeInv
  <2>2. /\ applied' \in Seq(Nums) /\ Len(applied') = Len(applied) + 1
        /\ Applied' = Applied \cup {path}
    BY <1>0, <2>1, AppliedAppended
  <2>3. target' \in Trees
    <3>1. path \in DOMAIN logs
      BY <2>1 DEF TypeInv, TypeOK, Nums
    <3>2. OpOf(logs[path]) \in Ops /\ Valued(OpOf(logs[path]))
      BY <3>1, OpOfType DEF TypeInv
    <3>. QED
      BY <2>1, <3>2, TryType DEF TypeInv, TypeOK
  <2>4. /\ Applied' \subseteq {n \in Nums : files'[n] = "whole"}
        /\ deleted' \subseteq Applied'
    BY <1>0, <2>1, <2>2 DEF TypeInv, TypeOK
  <2>5. iolognum' = 1 + Len(applied') + leaked' + 0
    BY <1>0, <2>1, <2>2 DEF TypeInv, TypeOK
  <2>. QED
    BY <1>0, <2>1, <2>2, <2>3, <2>4, <2>5 DEF TypeInv, TypeOK
<1>. QED
  BY <1>1, <1>2, <1>3 DEF Reader

LEMMA TypeStep == TypeInv /\ [Next]_vars => TypeInv'
<1>. SUFFICES ASSUME TypeInv, [Next]_vars PROVE TypeInv'
  OBVIOUS
<1>1. CASE UNCHANGED vars
  <2>1. Applied' = Applied
    BY <1>1 DEF vars, Applied
  <2>. QED
    BY <1>1, <2>1 DEF vars, TypeInv, TypeOK
<1>. QED
  BY <1>1, PerformType, WriterType, ReaderType DEF Next

(* The state of the files, the logs and the tool keep their types, for any   *)
(* number of operations, paths and values and whatever fails; in particular  *)
(* only whole logs are applied, and only applied logs are deleted.           *)
THEOREM RestoreTypeCorrect == Spec => []TypeOK
<1>1. TypeInv => TypeOK
  BY DEF TypeInv
<1>. QED
  BY <1>1, TypeInit, TypeStep, PTL DEF Spec

-----------------------------------------------------------------------------
(* Logs passed over. The counter moves with every open, the name only with a *)
(* read that succeeds: what the counter is ahead by is what was leaked.      *)

Reading == IF rpc = "read" THEN 1 ELSE 0

ReaderInv ==
  /\ path >= 1 /\ path + Reading <= iolognum
  /\ \A i \in DOMAIN applied : applied[i] < path
  /\ \A i, j \in DOMAIN applied : i < j => applied[i] < applied[j]
  /\ IsFiniteSet(Applied) /\ Cardinality(Applied) = Len(applied)

LEMMA ReaderInit == Init => ReaderInv
<1>. SUFFICES ASSUME Init PROVE ReaderInv
  OBVIOUS
<1>1. applied = <<>> /\ path = 1 /\ iolognum = 1 /\ rpc = "open"
  BY DEF Init
<1>2. DOMAIN applied = {} /\ Len(applied) = 0
  BY <1>1, EmptySeq
<1>3. Applied = {}
  BY <1>2 DEF Applied
<1>4. IsFiniteSet(Applied) /\ Cardinality(Applied) = 0
  BY <1>3, FS_EmptySet
<1>5. path >= 1 /\ path + Reading <= iolognum
  BY <1>1 DEF Reading
<1>. QED
  BY <1>2, <1>4, <1>5 DEF ReaderInv

LEMMA ReaderStep == TypeInv /\ ReaderInv /\ [Next]_vars => ReaderInv'
<1>. SUFFICES ASSUME TypeInv, ReaderInv, [Next]_vars PROVE ReaderInv'
  OBVIOUS
<1>0. path \in Nat /\ applied \in Seq(Nums) /\ Len(applied) \in Nat /\ iolognum \in Nat
  <2>1. leaked \in Nat /\ iolognum = 1 + Len(applied) + leaked + (IF rpc = "read" THEN 1 ELSE 0)
    BY RestoreAssumption DEF TypeInv, TypeOK
  <2>2. path \in Nat /\ applied \in Seq(Nums) /\ Len(applied) \in Nat
    BY DEF TypeInv
  <2>. QED
    BY <2>1, <2>2
<1>1. ASSUME UNCHANGED <<rpc, path, iolognum, applied>> PROVE ReaderInv'
  <2>1. Applied' = Applied
    BY <1>1 DEF Applied
  <2>. QED
    BY <1>1, <2>1 DEF ReaderInv, Reading
<1>2. CASE UNCHANGED vars
  BY <1>1, <1>2 DEF vars
<1>3. CASE Perform
  <2>1. UNCHANGED readerVars
    BY <1>3, OperationOf
  <2>. QED
    BY <1>1, <2>1 DEF readerVars
<1>4. CASE Writer
  BY <1>1, <1>4 DEF Writer, OpenLog, WriteLog, LogFails, readerVars
<1>5. CASE OpenFails \/ Sleep \/ ReadFails \/ Open
  <2>1. UNCHANGED <<path, applied>> /\ Applied' = Applied
    BY <1>5 DEF OpenFails, Sleep, ReadFails, Open, Applied
  <2>2. \/ rpc # "read" /\ rpc' # "read" /\ UNCHANGED iolognum
        \/ rpc = "read" /\ rpc' = "sleep" /\ UNCHANGED iolognum
        \/ rpc = "open" /\ rpc' = "read" /\ iolognum' = iolognum + 1
    BY <1>5 DEF OpenFails, Sleep, ReadFails, Open, ReaderGoes
  <2>3. path' >= 1 /\ path' + Reading' <= iolognum'
    BY <1>0, <2>1, <2>2 DEF ReaderInv, Reading
  <2>. QED
    BY <2>1, <2>3 DEF ReaderInv
<1>6. CASE Read
  <2>1. /\ rpc = "read" /\ rpc' = "open" /\ path \in Nums
        /\ applied' = Append(applied, path) /\ path' = iolognum /\ UNCHANGED iolognum
    BY <1>6 DEF Read, ReaderGoes, TypeInv
  <2>2. /\ Len(applied') = Len(applied) + 1
        /\ Applied' = Applied \cup {path}
        /\ DOMAIN applied = 1..Len(applied) /\ DOMAIN applied' = 1..(Len(applied) + 1)
        /\ \A i \in 1..(Len(applied) + 1) :
             applied'[i] = IF i <= Len(applied) THEN applied[i] ELSE path
    BY <1>0, <2>1, AppliedAppended
  <2>3. path + 1 <= iolognum /\ path >= 1 /\ \A i \in 1..Len(applied) : applied[i] < path
    BY <2>1, <2>2 DEF ReaderInv, Reading
  <2>4. \A i \in 1..Len(applied) : applied[i] \in Nat
    <3>1. \A i \in 1..Len(applied) : applied[i] \in Nums
      BY <1>0, <2>2
    <3>. QED
      BY <3>1 DEF Nums
  <2>5. path' >= 1 /\ path' + Reading' <= iolognum'
    BY <1>0, <2>1, <2>3 DEF Reading
  <2>6. \A i \in DOMAIN applied' : applied'[i] < path'
    BY <1>0, <2>1, <2>2, <2>3, <2>4
  <2>7. \A i, j \in DOMAIN applied' : i < j => applied'[i] < applied'[j]
    <3>1. \A i, j \in 1..Len(applied) : i < j => applied[i] < applied[j]
      BY <2>2 DEF ReaderInv
    <3>2. SUFFICES ASSUME NEW i \in 1..(Len(applied) + 1), NEW j \in 1..(Len(applied) + 1), i < j
                   PROVE  applied'[i] < applied'[j]
      BY <2>2
    <3>3. i \in 1..Len(applied) /\ applied'[i] = applied[i]
      BY <1>0, <2>2, <3>2
    <3>4. CASE j \in 1..Len(applied)
      BY <1>0, <2>2, <3>1, <3>2, <3>3, <3>4
    <3>5. CASE j = Len(applied) + 1
      BY <1>0, <2>2, <2>3, <3>3, <3>5
    <3>. QED
      BY <1>0, <3>4, <3>5
  <2>8. path \notin Applied
    BY <1>0, <2>2, <2>3, <2>4 DEF Applied
  <2>9. IsFiniteSet(Applied') /\ Cardinality(Applied') = Len(applied')
    BY <2>2, <2>8, FS_AddElement DEF ReaderInv
  <2>. QED
    BY <2>5, <2>6, <2>7, <2>9 DEF ReaderInv
<1>. QED
  BY <1>2, <1>3, <1>4, <1>5, <1>6 DEF Next, Reader

LEMMA SkipsCounted == TypeInv /\ ReaderInv => EverySkipIsAFailedRead
<1>. SUFFICES ASSUME TypeInv, ReaderInv PROVE EverySkipIsAFailedRead
  OBVIOUS
<1>1. path \in Nat /\ applied \in Seq(Nums) /\ Len(applied) \in Nat /\ DOMAIN applied = 1..Len(applied)
  BY DEF TypeInv
<1>2. leaked \in Nat /\ iolognum = 1 + Len(applied) + leaked + Reading
  BY RestoreAssumption DEF TypeInv, TypeOK, Reading
<1>3. path - 1 <= Len(applied) + leaked /\ path >= 1
  BY <1>1, <1>2 DEF ReaderInv, Reading
<1>4. Applied \subseteq 1..(path - 1)
  <2>1. \A i \in 1..Len(applied) : applied[i] \in Nums /\ applied[i] < path
    BY <1>1 DEF ReaderInv
  <2>. QED
    BY <1>1, <2>1 DEF Applied, Nums
<1>5. IsFiniteSet(1..(path - 1)) /\ Cardinality(1..(path - 1)) = path - 1
  <2>1. path - 1 \in Int /\ 1 \in Int
    BY <1>1
  <2>2. /\ IsFiniteSet(1..(path - 1))
        /\ Cardinality(1..(path - 1)) = IF 1 > path - 1 THEN 0 ELSE (path - 1) - 1 + 1
    BY ONLY <2>1, FS_Interval
  <2>. QED
    BY <1>1, <1>3, <2>2
<1>6. Cardinality((1..(path - 1)) \ Applied) = (path - 1) - Cardinality((1..(path - 1)) \cap Applied)
  BY <1>5, FS_Difference
<1>7. (1..(path - 1)) \cap Applied = Applied
  BY <1>4
<1>8. Cardinality((1..(path - 1)) \ Applied) = (path - 1) - Len(applied)
  BY <1>6, <1>7 DEF ReaderInv
<1>9. Cardinality((1..(path - 1)) \ Applied) <= leaked
  BY <1>1, <1>2, <1>3, <1>8
<1>. QED
  BY <1>9 DEF EverySkipIsAFailedRead, ReaderInv

(* RestoreIolog.c:260 to 263: a log is passed over only after a read that     *)
(* failed, one log for each, and the logs that are applied are applied once   *)
(* and in order.                                                             *)
THEOREM SkipsAreFailedReads == Spec => []EverySkipIsAFailedRead
<1>. QED
  BY TypeInit, TypeStep, ReaderInit, ReaderStep, SkipsCounted, PTL DEF Spec
=============================================================================
