----------------------------- MODULE ReplayProofs -----------------------------
(***************************************************************************)
(* A replay reproduces the monitored files as they were (Restore). The source *)
(* and the target are different trees with different node numbers; what they  *)
(* have in common is the view of the monitored names, and an operation with    *)
(* one name changes the view in a way that depends on the view only. A change   *)
(* that passes the hooks without a number leaves two views alike but for its   *)
(* name, and operations on other names keep them so.                          *)
(***************************************************************************)
EXTENDS RestoreProofs

-----------------------------------------------------------------------------
(* Views *)

Views == [Monitored -> Kept]

(* What is under a name after an operation on it. *)
Changed(c, op) ==
  IF op.kind = "create" /\ c = NoFile THEN File("")
  ELSE IF op.kind = "mkdir" /\ c = NoFile THEN Dir
  ELSE IF op.kind = "write" /\ c \notin {NoFile, Dir} THEN File(op.value)
  ELSE IF op.kind = "unlink" /\ c \notin {NoFile, Dir} THEN NoFile
  ELSE IF op.kind = "rmdir" /\ c = Dir THEN NoFile
  ELSE c

After(view, op) == [m \in Monitored |-> IF m = op.path THEN Changed(view[m], op) ELSE view[m]]

(* A tree whose nodes are numbered up to k and where no name shares a node    *)
(* with a monitored one.                                                     *)
Good(tree, k) ==
  /\ \A p \in Paths : tree.node[p] \in 0..k
  /\ tree.data[0] = NoFile
  /\ \A p \in Paths : tree.node[p] # 0 => tree.data[tree.node[p]] # NoFile
  /\ \A p \in Monitored, q \in Paths : tree.node[p] # 0 /\ q # p => tree.node[q] # tree.node[p]

Simple(op) == op.kind \in OneName \cup {"error"}

LEMMA KeptDistinct ==
  /\ NoFile # Dir
  /\ \A v : File(v) # NoFile /\ File(v) # Dir
  /\ \A p : Link(p) # NoFile /\ Link(p) # Dir
BY DEF NoFile, Dir, File, Link

LEMMA ViewType ==
  ASSUME NEW tree \in Trees
  PROVE  View(tree) \in Views /\ \A m \in Monitored : View(tree)[m] = tree.data[tree.node[m]]
<1>1. /\ tree.node \in [Paths -> Nums \cup {0}] /\ tree.data \in [0..MaxOps -> Kept]
      /\ Monitored \subseteq Paths /\ MaxOps \in Nat
  BY TreeFields, RestoreAssumption
<1>2. \A m \in Monitored : tree.data[tree.node[m]] \in Kept
  BY <1>1 DEF Nums
<1>. QED
  BY <1>2 DEF View, Views, Contents

(* A node is free: nothing has its number yet. *)
LEMMA MadeNode ==
  ASSUME NEW tree \in Trees, NEW k \in Nat, Good(tree, k), NEW n \in Nums, n > k,
         NEW p \in Paths, NEW c \in Kept \ {NoFile}, tree.node[p] = 0,
         NEW made \in Trees,
         made.node = [tree.node EXCEPT ![p] = n], made.data = [tree.data EXCEPT ![n] = c]
  PROVE  /\ Good(made, n)
         /\ \A q \in Paths : made.data[made.node[q]] = IF q = p THEN c ELSE tree.data[tree.node[q]]
<1>1. /\ tree.node \in [Paths -> Nums \cup {0}] /\ tree.data \in [0..MaxOps -> Kept]
      /\ Monitored \subseteq Paths /\ MaxOps \in Nat /\ n \in Nat /\ n \in 0..MaxOps /\ n # 0
  BY TreeFields, RestoreAssumption DEF Nums
<1>2. \A q \in Paths : tree.node[q] \in 0..k /\ tree.node[q] # n /\ tree.node[q] \in 0..MaxOps
  BY <1>1 DEF Good, Nums
<1>3. \A q \in Paths : made.node[q] = IF q = p THEN n ELSE tree.node[q]
  BY <1>1
<1>4. \A q \in Paths : made.data[made.node[q]] = IF q = p THEN c ELSE tree.data[tree.node[q]]
  BY <1>1, <1>2, <1>3
<1>5. made.data[0] = NoFile
  BY <1>1 DEF Good
<1>6. \A q \in Paths : made.node[q] \in 0..n
  BY <1>1, <1>2, <1>3
<1>7. \A q \in Paths : made.node[q] # 0 => made.data[made.node[q]] # NoFile
  BY <1>3, <1>4 DEF Good
<1>8. \A m \in Monitored, q \in Paths : made.node[m] # 0 /\ q # m => made.node[q] # made.node[m]
  BY <1>1, <1>2, <1>3 DEF Good
<1>. QED
  BY <1>4, <1>5, <1>6, <1>7, <1>8 DEF Good

LEMMA WrittenNode ==
  ASSUME NEW tree \in Trees, NEW k \in Nat, Good(tree, k), NEW n \in Nums, n > k,
         NEW p \in Paths, NEW c \in Kept \ {NoFile}, tree.node[p] # 0,
         NEW made \in Trees,
         made.node = tree.node, made.data = [tree.data EXCEPT ![tree.node[p]] = c]
  PROVE  /\ Good(made, n)
         /\ \A m \in Monitored : made.data[made.node[m]] = IF m = p THEN c ELSE tree.data[tree.node[m]]
<1>1. /\ tree.node \in [Paths -> Nums \cup {0}] /\ tree.data \in [0..MaxOps -> Kept]
      /\ Monitored \subseteq Paths /\ MaxOps \in Nat /\ n \in Nat
  BY TreeFields, RestoreAssumption DEF Nums
<1>2. \A q \in Paths : tree.node[q] \in 0..n /\ tree.node[q] \in 0..MaxOps
  BY <1>1 DEF Good, Nums
<1>3. \A q \in Paths :
        made.data[tree.node[q]] = IF tree.node[q] = tree.node[p] THEN c ELSE tree.data[tree.node[q]]
  BY <1>1, <1>2
<1>4. \A m \in Monitored : made.data[made.node[m]] = IF m = p THEN c ELSE tree.data[tree.node[m]]
  BY <1>1, <1>3 DEF Good
<1>5. made.data[0] = NoFile
  BY <1>1 DEF Good
<1>6. \A q \in Paths : made.node[q] # 0 => made.data[made.node[q]] # NoFile
  BY <1>3 DEF Good
<1>. QED
  BY <1>2, <1>4, <1>5, <1>6 DEF Good

LEMMA RemovedNode ==
  ASSUME NEW tree \in Trees, NEW k \in Nat, Good(tree, k), NEW n \in Nums, n > k,
         NEW p \in Paths,
         NEW made \in Trees,
         made.node = [tree.node EXCEPT ![p] = 0], made.data = tree.data
  PROVE  /\ Good(made, n)
         /\ \A q \in Paths : made.data[made.node[q]] = IF q = p THEN NoFile ELSE tree.data[tree.node[q]]
<1>1. /\ tree.node \in [Paths -> Nums \cup {0}] /\ Monitored \subseteq Paths /\ n \in Nat
  BY TreeFields, RestoreAssumption DEF Nums
<1>2. \A q \in Paths : made.node[q] = IF q = p THEN 0 ELSE tree.node[q]
  BY <1>1
<1>3. \A q \in Paths : made.node[q] \in 0..n
  BY <1>1, <1>2 DEF Good
<1>. QED
  BY <1>1, <1>2, <1>3 DEF Good

(* Nothing but the numbers below which nodes are known changes. *)
LEMMA GoodLarger ==
  ASSUME NEW tree, NEW k \in Nat, NEW n \in Nat, n >= k, Good(tree, k)
  PROVE  Good(tree, n)
<1>1. \A p \in Paths : tree.node[p] \in 0..n
  BY DEF Good
<1>. QED
  BY <1>1 DEF Good

-----------------------------------------------------------------------------
(* Operations and views *)

LEMMA Fields ==
  ASSUME NEW a, NEW b, NEW made, made = [node |-> a, data |-> b]
  PROVE  made.node = a /\ made.data = b
OBVIOUS

LEMMA OneNameStep ==
  ASSUME NEW tree \in Trees, NEW k \in Nat, Good(tree, k), NEW n \in Nums, n > k,
         NEW op \in Ops, Valued(op), Simple(op)
  PROVE  /\ Good(Try(tree, op, n), n)
         /\ View(Try(tree, op, n)) = After(View(tree), op)
<1>. DEFINE made == Try(tree, op, n)
            at(q) == tree.data[tree.node[q]]
<1>1. /\ tree.node \in [Paths -> Nums \cup {0}] /\ tree.data \in [0..MaxOps -> Kept]
      /\ Monitored \subseteq Paths /\ op.path \in Paths /\ n \in Nat
      /\ op.kind \in OneName \cup {"error"}
  <2>1. n \in Nat
    BY DEF Nums
  <2>2. op.path \in Paths /\ op.kind \in OneName \cup {"error"}
    BY DEF Ops, Simple
  <2>. QED
    BY <2>1, <2>2, TreeFields, RestoreAssumption
<1>2. made \in Trees
  BY TryType
<1>3. Exists(tree, op.path) <=> at(op.path) # NoFile
  BY <1>1 DEF Good, Exists
<1>4. IsDir(tree, op.path) <=> at(op.path) = Dir
  BY DEF IsDir, Contents
<1>5. /\ File("") \in Kept \ {NoFile} /\ Dir \in Kept \ {NoFile}
      /\ op.kind = "write" => File(op.value) \in Kept \ {NoFile}
  BY <1>1, KeptDistinct DEF Kept, Valued
<1>6. ASSUME Good(made, n), \A m \in Monitored :
               made.data[made.node[m]] = IF m = op.path THEN Changed(at(m), op) ELSE at(m)
      PROVE  Good(made, n) /\ View(made) = After(View(tree), op)
  <2>1. \A m \in Monitored : View(tree)[m] = at(m)
    BY ViewType
  <2>2. View(made) = [m \in Monitored |-> made.data[made.node[m]]]
    BY DEF View, Contents
  <2>. HIDE DEF made, at
  <2>. QED
    BY <1>6, <2>1, <2>2 DEF After
<1>7. CASE ~Succeeds(tree, op)
  <2>1. made = tree
    BY <1>7 DEF Try
  <2>2. Good(made, n)
    BY <1>1, <2>1, GoodLarger
  <2>3. Changed(at(op.path), op) = at(op.path)
    BY <1>1, <1>3, <1>4, <1>7, KeptDistinct DEF Succeeds, Changed, OneName
  <2>. HIDE DEF made, at
  <2>4. \A m \in Monitored : made.data[made.node[m]] = IF m = op.path THEN Changed(at(m), op) ELSE at(m)
    BY <2>1, <2>3 DEF at
  <2>. QED
    BY <1>6, <2>2, <2>4 DEF made
<1>8. CASE Succeeds(tree, op) /\ op.kind \in {"create", "mkdir"}
  <2>. DEFINE c == IF op.kind = "create" THEN File("") ELSE Dir
  <2>1. tree.node[op.path] = 0 /\ at(op.path) = NoFile
    BY <1>3, <1>8 DEF Succeeds, Exists
  <2>2. c \in Kept \ {NoFile} /\ Changed(at(op.path), op) = c
    BY <1>5, <1>8, <2>1, KeptDistinct DEF Changed
  <2>3. made = [node |-> [tree.node EXCEPT ![op.path] = n], data |-> [tree.data EXCEPT ![n] = c]]
    BY <1>8, EffectFields DEF Try
  <2>. HIDE DEF made, c
  <2>4. made.node = [tree.node EXCEPT ![op.path] = n] /\ made.data = [tree.data EXCEPT ![n] = c]
    BY ONLY <2>3, Fields
  <2>5. /\ Good(made, n)
        /\ \A q \in Paths : made.data[made.node[q]] = IF q = op.path THEN c ELSE tree.data[tree.node[q]]
    BY <1>1, <1>2, <2>1, <2>2, <2>4, MadeNode
  <2>. QED
    BY <1>1, <1>6, <2>2, <2>5 DEF made
<1>9. CASE Succeeds(tree, op) /\ op.kind = "write"
  <2>. DEFINE c == File(op.value)
  <2>1. tree.node[op.path] # 0 /\ at(op.path) \notin {NoFile, Dir}
    BY <1>3, <1>4, <1>9 DEF Succeeds, Exists
  <2>2. c \in Kept \ {NoFile} /\ Changed(at(op.path), op) = c
    BY <1>5, <1>9, <2>1, KeptDistinct DEF Changed
  <2>3. made = [node |-> tree.node, data |-> [tree.data EXCEPT ![tree.node[op.path]] = c]]
    BY <1>9, EffectFields DEF Try
  <2>4. made.node = tree.node /\ made.data = [tree.data EXCEPT ![tree.node[op.path]] = c]
    BY ONLY <2>3, Fields
  <2>. HIDE DEF made, c
  <2>5. /\ Good(made, n)
        /\ \A m \in Monitored :
             made.data[made.node[m]] = IF m = op.path THEN c ELSE tree.data[tree.node[m]]
    BY <1>1, <1>2, <2>1, <2>2, <2>4, WrittenNode
  <2>. QED
    BY <1>1, <1>6, <2>2, <2>5 DEF made
<1>10. CASE Succeeds(tree, op) /\ op.kind \in {"unlink", "rmdir"}
  <2>1. Changed(at(op.path), op) = NoFile
    BY <1>3, <1>4, <1>10, KeptDistinct DEF Changed, Succeeds
  <2>2. made = [node |-> [tree.node EXCEPT ![op.path] = 0], data |-> tree.data]
    BY <1>10, EffectFields DEF Try
  <2>3. made.node = [tree.node EXCEPT ![op.path] = 0] /\ made.data = tree.data
    BY <2>2
  <2>. HIDE DEF made
  <2>4. /\ Good(made, n)
        /\ \A q \in Paths : made.data[made.node[q]] = IF q = op.path THEN NoFile ELSE tree.data[tree.node[q]]
    BY <1>1, <1>2, <2>3, RemovedNode
  <2>. QED
    BY <1>1, <1>6, <2>1, <2>4 DEF made
<1>11. op.kind = "error" => ~Succeeds(tree, op)
  BY DEF Succeeds
<1>12. op.kind \in {"create", "mkdir", "write", "unlink", "rmdir", "error"}
  BY <1>1 DEF OneName
<1>. QED
  BY <1>7, <1>8, <1>9, <1>10, <1>11, <1>12

(* An operation with two names, neither of them monitored. *)
LEMMA TwoNamesStep ==
  ASSUME NEW tree \in Trees, NEW k \in Nat, Good(tree, k), NEW n \in Nums, n > k,
         NEW op \in Ops, Valued(op), op.kind \in TwoNames,
         op.path \notin Monitored, op.new \notin Monitored
  PROVE  Good(Try(tree, op, n), n) /\ View(Try(tree, op, n)) = View(tree)
<1>. DEFINE made == Try(tree, op, n)
<1>1. /\ tree.node \in [Paths -> Nums \cup {0}] /\ tree.data \in [0..MaxOps -> Kept]
      /\ Monitored \subseteq Paths /\ op.path \in Paths /\ op.new \in Paths /\ n \in Nat
  <2>1. n \in Nat
    BY DEF Nums
  <2>2. op.path \in Paths /\ op.new \in Paths
    BY DEF Ops
  <2>. QED
    BY <2>1, <2>2, TreeFields, RestoreAssumption
<1>2. made \in Trees
  BY TryType
<1>3. Link(op.path) \in Kept \ {NoFile}
  BY <1>1, KeptDistinct DEF Kept
<1>4. ASSUME \A m \in Monitored : made.data[made.node[m]] = tree.data[tree.node[m]]
      PROVE  View(made) = View(tree)
  BY <1>4 DEF View, Contents
<1>5. CASE ~Succeeds(tree, op)
  BY <1>1, <1>5, GoodLarger DEF Try
<1>6. CASE Succeeds(tree, op) /\ op.kind = "symlink"
  <2>1. made = [node |-> [tree.node EXCEPT ![op.new] = n], data |-> [tree.data EXCEPT ![n] = Link(op.path)]]
    BY <1>6, EffectFields DEF Try
  <2>2. /\ made.node = [tree.node EXCEPT ![op.new] = n]
        /\ made.data = [tree.data EXCEPT ![n] = Link(op.path)] /\ tree.node[op.new] = 0
    BY <1>6, <2>1 DEF Succeeds, Exists
  <2>. HIDE DEF made
  <2>3. /\ Good(made, n)
        /\ \A q \in Paths :
             made.data[made.node[q]] = IF q = op.new THEN Link(op.path) ELSE tree.data[tree.node[q]]
    BY <1>1, <1>2, <1>3, <2>2, MadeNode
  <2>. QED
    BY <1>1, <1>4, <2>3 DEF made
<1>7. CASE Succeeds(tree, op) /\ op.kind \in {"rename", "link"}
  <2>1. /\ made.data = tree.data
        /\ \A q \in Paths : made.node[q] = IF q = op.new THEN tree.node[op.path]
                                           ELSE IF q = op.path /\ op.kind = "rename" THEN 0
                                           ELSE tree.node[q]
    <3>1. CASE op.kind = "rename"
      <4>1. made = [node |-> [[tree.node EXCEPT ![op.path] = 0] EXCEPT ![op.new] = tree.node[op.path]],
                    data |-> tree.data]
        BY <1>7, <3>1, EffectFields DEF Try
      <4>. HIDE DEF made
      <4>2. /\ made.node = [[tree.node EXCEPT ![op.path] = 0] EXCEPT ![op.new] = tree.node[op.path]]
            /\ made.data = tree.data
        BY <4>1, Fields
      <4>. QED
        BY <1>1, <3>1, <4>2
    <3>2. CASE op.kind = "link"
      <4>1. made = [node |-> [tree.node EXCEPT ![op.new] = tree.node[op.path]], data |-> tree.data]
        BY <1>7, <3>2, EffectFields DEF Try
      <4>. HIDE DEF made
      <4>2. /\ made.node = [tree.node EXCEPT ![op.new] = tree.node[op.path]]
            /\ made.data = tree.data
        BY <4>1, Fields
      <4>. QED
        BY <1>1, <3>2, <4>2
    <3>. QED
      BY <1>7, <3>1, <3>2
  <2>. HIDE DEF made
  <2>2. \A q \in Paths : made.node[q] \in 0..n
    BY <1>1, <2>1 DEF Good
  <2>3. \A q \in Paths : made.node[q] # 0 => made.data[made.node[q]] # NoFile
    BY <1>1, <2>1 DEF Good
  <2>4. \A m \in Monitored : made.node[m] = tree.node[m]
    BY <1>1, <2>1
  <2>5. \A m \in Monitored, q \in Paths : made.node[m] # 0 /\ q # m => made.node[q] # made.node[m]
    BY <1>1, <2>1, <2>4 DEF Good
  <2>6. Good(made, n)
    BY <2>1, <2>2, <2>3, <2>5 DEF Good
  <2>. QED
    BY <1>4, <2>1, <2>4, <2>6 DEF made
<1>. QED
  BY <1>5, <1>6, <1>7 DEF TwoNames

-----------------------------------------------------------------------------
(* The records *)

Seen(k) == IF k = 0 THEN View(EmptyTree) ELSE past[k]

(* A record that is replayed does what the operation did. *)
LEMMA LogThenOp ==
  ASSUME NEW op \in Ops, Valued(op), Simple(op)
  PROVE  /\ Simple(OpOf(LogOf(op)))
         /\ \A view : After(view, OpOf(LogOf(op))) = After(view, op)
<1>. DEFINE back == OpOf(LogOf(op))
<1>1. op.kind \in {"create", "mkdir", "write", "unlink", "rmdir", "error"}
  BY DEF Simple, OneName
<1>2. back.kind = op.kind /\ back.path = op.path /\ (op.kind = "write" => back.value = op.value)
  <2>. USE DEF LogOf, OpOf, NewFileLog, DeleteLog, DataLog, ErrorLog, Record
  <2>1. CASE op.kind \in {"create", "mkdir"}
    BY <2>1
  <2>2. CASE op.kind \in {"unlink", "rmdir"}
    BY <2>2
  <2>3. CASE op.kind = "write"
    BY <2>3
  <2>4. CASE op.kind = "error"
    BY <2>4
  <2>. QED
    BY <1>1, <2>1, <2>2, <2>3, <2>4
<1>. HIDE DEF back
<1>3. Simple(back)
  BY <1>2 DEF Simple
<1>4. \A c : Changed(c, back) = Changed(c, op)
  BY <1>2 DEF Changed
<1>5. \A view : After(view, back) = After(view, op)
  BY <1>2, <1>4 DEF After
<1>. QED
  BY <1>3, <1>5 DEF back

LEMMA NothingChanged ==
  ASSUME NEW view \in Views, NEW op, op.kind = "error" \/ op.path \notin Monitored
  PROVE  After(view, op) = view
<1>1. \A m \in Monitored : (IF m = op.path THEN Changed(view[m], op) ELSE view[m]) = view[m]
  BY DEF Changed
<1>2. view = [m \in Monitored |-> view[m]]
  BY DEF Views
<1>. QED
  BY <1>1, <1>2 DEF After

(* Two views that agree but on the names S. *)
Alike(S, v, w) == \A m \in Monitored \ S : v[m] = w[m]

LEMMA AlikeAfter ==
  ASSUME NEW S, NEW v, NEW w, Alike(S, v, w), NEW op
  PROVE  Alike(S, After(v, op), After(w, op))
BY DEF Alike, After

LEMMA AlikeMore ==
  ASSUME NEW S, NEW T, S \subseteq T, NEW v, NEW w, Alike(S, v, w)
  PROVE  Alike(T, v, w)
BY DEF Alike

SourceInv ==
  /\ past \in Seq(Views) /\ Len(past) <= Len(logs)
  /\ ~tangled => Len(past) = Len(logs) /\ Good(source, ops)
  /\ ~tangled => Alike(missed, View(source), Seen(Len(past)))
  /\ \A k \in 1..Len(past) : /\ Simple(OpOf(logs[k]))
                             /\ Alike(missed, past[k], After(Seen(k - 1), OpOf(logs[k])))

LEMMA EmptyGood == Good(EmptyTree, 0)
<1>1. /\ EmptyTree.node = [p \in Paths |-> 0]
      /\ EmptyTree.data = [n \in 0..MaxOps |-> NoFile]
  BY Fields DEF EmptyTree
<1>2. 0 \in 0..MaxOps /\ Monitored \subseteq Paths
  BY RestoreAssumption
<1>3. /\ \A p \in Paths : EmptyTree.node[p] = 0
      /\ EmptyTree.data[0] = NoFile
  BY <1>1, <1>2
<1>. QED
  BY <1>2, <1>3 DEF Good

LEMMA SourceInit == Init => SourceInv
<1>. SUFFICES ASSUME Init PROVE SourceInv
  OBVIOUS
<1>1. past = <<>> /\ logs = <<>> /\ source = EmptyTree /\ ops = 0
  BY DEF Init
<1>2. past \in Seq(Views) /\ Len(past) = 0 /\ Len(logs) = 0
  BY <1>1, EmptySeq
<1>3. Good(source, ops)
  BY <1>1, EmptyGood
<1>4. Alike(missed, View(source), Seen(Len(past)))
  BY <1>1, <1>2 DEF Seen, Alike
<1>5. \A k \in 1..Len(past) : FALSE
  BY <1>2
<1>. QED
  BY <1>2, <1>3, <1>4, <1>5 DEF SourceInv

(* The history of the views is never rewritten, and grows with the records. *)
LEMMA PastAppended ==
  ASSUME past \in Seq(Views), NEW view \in Views, past' = Append(past, view)
  PROVE  /\ past' \in Seq(Views) /\ Len(past) \in Nat /\ Len(past') = Len(past) + 1
         /\ past'[Len(past) + 1] = view
         /\ \A k \in 0..Len(past) : Seen(k)' = Seen(k)
<1>1. /\ past' \in Seq(Views) /\ Len(past) \in Nat /\ Len(past') = Len(past) + 1
      /\ past'[Len(past) + 1] = view
      /\ \A k \in 1..Len(past) : past'[k] = past[k]
  OBVIOUS
<1>2. \A k \in 0..Len(past) : Seen(k)' = Seen(k)
  BY <1>1 DEF Seen
<1>. QED
  BY <1>1, <1>2

(* Operations that leave the monitored names to the hooks. *)
LEMMA UntangledStep ==
  ASSUME TypeInv, SourceInv, ~tangled, NEW op \in Ops, Valued(op), op.kind \in AllKinds,
         ops < MaxOps,
         ~(op.kind \in TwoNames /\ {op.path, op.new} \cap Monitored # {})
  PROVE  /\ Good(Try(source, op, ops + 1), ops + 1)
         /\ NamesLookedUp(op) \cap Monitored # {} => Simple(op)
         /\ Simple(op) => View(Try(source, op, ops + 1)) = After(View(source), op)
         /\ NamesLookedUp(op) \cap Monitored = {} =>
              View(Try(source, op, ops + 1)) = View(source)
         /\ ~Succeeds(source, op) => View(Try(source, op, ops + 1)) = View(source)
<1>1. source \in Trees /\ ops \in Nat /\ ops + 1 \in Nums /\ ops + 1 > ops /\ Good(source, ops)
  BY RestoreAssumption DEF TypeInv, TypeOK, SourceInv, Nums
<1>2. ~Succeeds(source, op) => View(Try(source, op, ops + 1)) = View(source)
  BY DEF Try
<1>3. CASE op.kind \in OneName
  <2>1. Simple(op) /\ NamesLookedUp(op) = {op.path}
    BY <1>3 DEF Simple, NamesLookedUp, OneName
  <2>2. /\ Good(Try(source, op, ops + 1), ops + 1)
        /\ View(Try(source, op, ops + 1)) = After(View(source), op)
    BY <1>1, <2>1, OneNameStep
  <2>3. ASSUME NamesLookedUp(op) \cap Monitored = {} PROVE After(View(source), op) = View(source)
    <3>1. op.path \notin Monitored
      BY <2>1, <2>3
    <3>. QED
      BY <1>1, <3>1, NothingChanged, ViewType
  <2>. QED
    BY <1>2, <2>1, <2>2, <2>3
<1>4. CASE op.kind \in TwoNames
  <2>1. op.path \notin Monitored /\ op.new \notin Monitored
    BY <1>4
  <2>2. NamesLookedUp(op) \cap Monitored = {}
    <3>1. op.kind \notin OneName /\ op.kind \in {"rename", "link", "symlink"}
      BY <1>4 DEF OneName, TwoNames
    <3>2. NamesLookedUp(op) \in {{op.path, op.new}, {op.new}}
      BY <3>1 DEF NamesLookedUp
    <3>. QED
      BY <2>1, <3>2
  <2>3. ~Simple(op)
    BY <1>4 DEF Simple, OneName, TwoNames
  <2>. QED
    BY <1>1, <1>2, <1>4, <2>1, <2>2, <2>3, TwoNamesStep
<1>. QED
  BY <1>3, <1>4 DEF AllKinds

(* A step keeps what the invariant says of the records there are. *)
LEMMA KeptRecords ==
  ASSUME SourceInv, UNCHANGED past, missed \subseteq missed',
         \A k \in 1..Len(past) : logs'[k] = logs[k]
  PROVE  \A k \in 1..Len(past') : /\ Simple(OpOf(logs'[k]))
                                 /\ Alike(missed', past'[k], After(Seen(k - 1)', OpOf(logs'[k])))
<1>1. SUFFICES ASSUME NEW k \in 1..Len(past)
               PROVE  /\ Simple(OpOf(logs'[k]))
                      /\ Alike(missed', past'[k], After(Seen(k - 1)', OpOf(logs'[k])))
  OBVIOUS
<1>2. Seen(k - 1)' = Seen(k - 1) /\ past'[k] = past[k] /\ logs'[k] = logs[k]
  BY <1>1 DEF Seen
<1>3. Simple(OpOf(logs[k])) /\ Alike(missed, past[k], After(Seen(k - 1), OpOf(logs[k])))
  BY <1>1 DEF SourceInv
<1>. QED
  BY <1>2, <1>3, AlikeMore

LEMMA SourcePerform ==
  ASSUME TypeInv, SourceInv, Perform
  PROVE  /\ SourceInv'
         /\ missed \subseteq missed'
         /\ \/ UNCHANGED past
            \/ /\ Len(past) = Len(logs)
               /\ \E view \in Views : past' = Append(past, view)
<1>1. PICK op \in Ops :
           /\ Valued(op) /\ op.kind \in AllKinds
           /\ ops < MaxOps /\ ops' = ops + 1
           /\ source' = Try(source, op, ops + 1)
           /\ Recorded(op, Try(source, op, ops + 1)) \/ Unrecorded(op)
           /\ tangled' = (tangled \/ (op.kind \in TwoNames /\ {op.path, op.new} \cap Monitored # {}))
           /\ UNCHANGED <<writerVars, readerVars>>
  BY OperationOf
<1>. DEFINE done == IF Succeeds(source, op) THEN op ELSE [op EXCEPT !.kind = "error"]
<1>2. /\ past \in Seq(Views) /\ Len(past) \in Nat /\ Len(past) <= Len(logs)
      /\ logs \in Seq(Logs) /\ Len(logs) \in Nat
      /\ source \in Trees /\ source' \in Trees
  <2>1. ops + 1 \in Nums /\ source \in Trees
    BY <1>1, RestoreAssumption DEF TypeInv, TypeOK, Nums
  <2>. QED
    BY <1>1, <2>1, TryType DEF TypeInv, SourceInv
<1>3. /\ View(source) \in Views /\ View(source') \in Views
  BY <1>2, ViewType
<1>4. /\ done \in Ops /\ Valued(done) /\ GoodLog(LogOf(done))
  BY <1>1, ErrorOp, LogOfGood
<1>5. /\ missed \subseteq missed'
      /\ \/ UNCHANGED <<logs, past>>
         \/ logs' = Append(logs, LogOf(done)) /\ past' = IF tangled' THEN past ELSE Append(past, View(source'))
  <2>1. CASE Recorded(op, Try(source, op, ops + 1))
    BY <1>1, <2>1 DEF Recorded
  <2>2. CASE Unrecorded(op)
    BY <2>2 DEF Unrecorded
  <2>. QED
    BY <1>1, <2>1, <2>2
<1>6. /\ Len(logs') \in {Len(logs), Len(logs) + 1} /\ Len(logs') \in Nat
      /\ \A k \in 1..Len(logs) : logs'[k] = logs[k]
  <2>1. CASE UNCHANGED logs
    BY <1>2, <2>1
  <2>2. CASE logs' = Append(logs, LogOf(done))
    <3>1. DOMAIN logs = 1..Len(logs)
      BY <1>2
    <3>. HIDE DEF done
    <3>. QED
      BY <1>2, <1>4, <2>2, <3>1, LogsAppended
  <2>. QED
    BY <1>5, <2>1, <2>2
<1>7. \A k \in 1..Len(past) : k \in 1..Len(logs) /\ logs'[k] = logs[k]
  BY <1>2, <1>6
<1>8. CASE tangled'
  <2>1. UNCHANGED past
    BY <1>5, <1>8
  <2>2. \A k \in 1..Len(past') : /\ Simple(OpOf(logs'[k]))
                                 /\ Alike(missed', past'[k], After(Seen(k - 1)', OpOf(logs'[k])))
    BY <1>5, <1>7, <2>1, KeptRecords
  <2>. QED
    BY <1>2, <1>5, <1>6, <1>8, <2>1, <2>2 DEF SourceInv
<1>9. CASE ~tangled'
  <2>1. /\ ~tangled /\ ~(op.kind \in TwoNames /\ {op.path, op.new} \cap Monitored # {})
        /\ Len(past) = Len(logs) /\ Good(source, ops)
        /\ Alike(missed, View(source), Seen(Len(past)))
    BY <1>1, <1>9 DEF SourceInv
  <2>2. /\ Good(source', ops')
        /\ NamesLookedUp(op) \cap Monitored # {} => Simple(op)
        /\ Simple(op) => View(source') = After(View(source), op)
        /\ NamesLookedUp(op) \cap Monitored = {} => View(source') = View(source)
        /\ ~Succeeds(source, op) => View(source') = View(source)
    BY <1>1, <2>1, UntangledStep
  <2>3. CASE Unrecorded(op)
    <3>1. UNCHANGED <<logs, past>>
      BY <2>3 DEF Unrecorded
    <3>2. Seen(Len(past))' = Seen(Len(past))
      BY <1>2, <3>1 DEF Seen
    <3>3. Alike(missed', View(source'), View(source))
      <4>1. CASE Concerned(op) /\ Succeeds(source, op)
        <5>1. op.path \in missed' /\ View(source') = After(View(source), op)
          BY <2>2, <2>3, <4>1 DEF Unrecorded, Concerned
        <5>2. \A m \in Monitored \ missed' : After(View(source), op)[m] = View(source)[m]
          BY <5>1 DEF After
        <5>. QED
          BY <5>1, <5>2 DEF Alike
      <4>2. CASE ~(Concerned(op) /\ Succeeds(source, op))
        BY <2>2, <4>2 DEF Concerned, Alike
      <4>. QED
        BY <4>1, <4>2
    <3>4. Alike(missed', View(source), Seen(Len(past)))
      BY <1>5, <2>1, AlikeMore
    <3>5. Alike(missed', View(source)', Seen(Len(past))')
      <4>1. View(source)' = View(source')
        BY DEF View, Contents
      <4>2. Alike(missed', View(source'), Seen(Len(past)))
        BY <3>3, <3>4 DEF Alike
      <4>. QED
        BY <3>2, <4>1, <4>2
    <3>6. \A k \in 1..Len(past') : /\ Simple(OpOf(logs'[k]))
                                   /\ Alike(missed', past'[k], After(Seen(k - 1)', OpOf(logs'[k])))
      BY <1>5, <1>7, <3>1, KeptRecords
    <3>7. Alike(missed, View(source), Seen(Len(past)))'
      BY <3>5 DEF Alike
    <3>8. SourceInv'
      <4>1. past' \in Seq(Views) /\ Len(past') <= Len(logs') /\ Len(past') = Len(logs')
        BY <1>2, <2>1, <3>1
      <4>2. \A k \in 1..Len(past') : /\ Simple(OpOf(logs'[k]))
                                     /\ Alike(missed, past[k], After(Seen(k - 1), OpOf(logs[k])))'
        BY <3>6 DEF Alike, After, Seen
      <4>3. Good(source, ops)'
        BY <2>2 DEF Good
      <4>. QED
        BY <3>7, <4>1, <4>2, <4>3 DEF SourceInv
    <3>. QED
      BY <1>5, <3>1, <3>8
  <2>4. CASE Recorded(op, Try(source, op, ops + 1))
    <3>1. /\ logs' = Append(logs, LogOf(done)) /\ past' = Append(past, View(source'))
          /\ Simple(op) /\ missed' = missed
      BY <1>1, <1>9, <2>2, <2>4 DEF Recorded, Concerned
    <3>2. Simple(done) /\ View(source') = After(View(source), done)
      <4>1. CASE Succeeds(source, op)
        BY <2>2, <3>1, <4>1
      <4>2. CASE ~Succeeds(source, op)
        <5>1. done.kind = "error"
          BY <4>2, ErrorOp
        <5>. HIDE DEF done
        <5>2. After(View(source), done) = View(source)
          BY <1>3, <5>1, NothingChanged
        <5>. QED
          BY <2>2, <4>2, <5>1, <5>2 DEF Simple
      <4>. QED
        BY <4>1, <4>2
    <3>. HIDE DEF done
    <3>3. /\ Len(logs') = Len(logs) + 1 /\ logs'[Len(logs) + 1] = LogOf(done)
      BY <1>2, <1>4, <3>1
    <3>4. /\ past' \in Seq(Views) /\ Len(past') = Len(past) + 1
          /\ past'[Len(past) + 1] = View(source')
          /\ \A k \in 0..Len(past) : Seen(k)' = Seen(k)
      BY <1>2, <1>3, <3>1, PastAppended
    <3>5. \A k \in 1..Len(past) : past'[k] = past[k]
      BY <1>2, <1>3, <3>1
    <3>6. /\ Simple(OpOf(LogOf(done)))
          /\ After(View(source), OpOf(LogOf(done))) = After(View(source), done)
      BY <1>4, <3>2, LogThenOp
    <3>7. ASSUME NEW k \in 1..(Len(past) + 1)
          PROVE  /\ Simple(OpOf(logs'[k]))
                 /\ Alike(missed', past'[k], After(Seen(k - 1)', OpOf(logs'[k])))
      <4>2. k - 1 \in 0..Len(past)
        BY <1>2
      <4>3. CASE k \in 1..Len(past)
        <5>1. logs'[k] = logs[k] /\ past'[k] = past[k]
          BY <1>7, <3>5, <4>3
        <5>2. Seen(k - 1)' = Seen(k - 1)
          BY <3>4, <4>2
        <5>3. Simple(OpOf(logs[k])) /\ Alike(missed, past[k], After(Seen(k - 1), OpOf(logs[k])))
          BY <4>3 DEF SourceInv
        <5>. QED
          BY <3>1, <5>1, <5>2, <5>3
      <4>4. CASE k = Len(past) + 1
        <5>1. k - 1 = Len(past) /\ logs'[k] = LogOf(done) /\ past'[k] = View(source')
          BY <1>2, <2>1, <3>3, <3>4, <4>4
        <5>2. Seen(k - 1)' = Seen(Len(past))
          BY <1>2, <3>4, <5>1
        <5>3. past'[k] = After(View(source), OpOf(logs'[k]))
          BY <3>2, <3>6, <5>1
        <5>4. Alike(missed, After(View(source), OpOf(logs'[k])), After(Seen(Len(past)), OpOf(logs'[k])))
          BY <2>1, AlikeAfter
        <5>. QED
          BY <3>1, <3>6, <5>1, <5>2, <5>3, <5>4
      <4>. QED
        BY <1>2, <4>3, <4>4
    <3>8. Alike(missed, View(source), Seen(Len(past)))'
      <4>1. Seen(Len(past))' = past'[Len(past) + 1]
        BY <1>2, <3>4 DEF Seen
      <4>2. View(source)' = View(source')
        BY DEF View, Contents
      <4>3. View(source)' = Seen(Len(past))'
        BY <3>4, <4>1, <4>2
      <4>. QED
        BY <4>3 DEF Alike
    <3>9. SourceInv'
      <4>1. \A k \in 1..Len(past') : /\ Simple(OpOf(logs'[k]))
                                     /\ Alike(missed, past[k], After(Seen(k - 1), OpOf(logs[k])))'
        <5>1. SUFFICES ASSUME NEW k \in 1..(Len(past) + 1)
                       PROVE  /\ Simple(OpOf(logs'[k]))
                              /\ Alike(missed, past[k], After(Seen(k - 1), OpOf(logs[k])))'
          BY <3>4
        <5>. QED
          BY <3>7 DEF Alike, After, Seen
      <4>2. Good(source, ops)'
        BY <2>2 DEF Good
      <4>3. past' \in Seq(Views) /\ Len(past') <= Len(logs') /\ Len(past') = Len(logs')
        BY <1>2, <2>1, <3>3, <3>4
      <4>. QED
        BY <3>8, <4>1, <4>2, <4>3 DEF SourceInv
    <3>. QED
      BY <1>3, <1>5, <2>1, <3>1, <3>9
  <2>. QED
    BY <1>1, <2>3, <2>4
<1>. QED
  BY <1>8, <1>9

LEMMA SourceStep ==
  ASSUME TypeInv, SourceInv, [Next]_vars
  PROVE  /\ SourceInv'
         /\ missed \subseteq missed'
         /\ \/ UNCHANGED past
            \/ /\ Len(past) = Len(logs)
               /\ \E view \in Views : past' = Append(past, view)
<1>1. ASSUME UNCHANGED <<past, logs, missed, tangled, source, ops>>
      PROVE  SourceInv'
  <2>1. Seen(Len(past))' = Seen(Len(past)) /\ View(source)' = View(source)
    BY <1>1 DEF Seen, View, Contents
  <2>2. \A k \in 1..Len(past') : /\ Simple(OpOf(logs'[k]))
                                 /\ Alike(missed, past[k], After(Seen(k - 1), OpOf(logs[k])))'
    BY <1>1 DEF SourceInv, Seen, Alike, After
  <2>3. /\ past' \in Seq(Views) /\ Len(past') <= Len(logs')
        /\ ~tangled' => Len(past') = Len(logs') /\ Good(source, ops)'
    BY <1>1 DEF SourceInv, Good
  <2>4. ~tangled' => Alike(missed, View(source), Seen(Len(past)))'
    BY <1>1, <2>1 DEF SourceInv, Alike
  <2>. QED
    BY <2>2, <2>3, <2>4 DEF SourceInv
<1>2. CASE UNCHANGED vars
  BY <1>1, <1>2 DEF vars
<1>3. CASE Perform
  BY <1>3, SourcePerform
<1>4. CASE Writer
  <2>1. UNCHANGED <<past, logs, missed, tangled, source, ops>>
    BY <1>4 DEF Writer, OpenLog, WriteLog, LogFails, sourceVars
  <2>. QED
    BY <1>1, <2>1
<1>5. CASE Reader
  <2>1. UNCHANGED <<past, logs, missed, tangled, source, ops>>
    BY <1>5 DEF Reader, OpenFails, Open, ReadFails, Read, Sleep, ReaderGoes, sourceVars
  <2>. QED
    BY <1>1, <2>1
<1>. QED
  BY <1>2, <1>3, <1>4, <1>5 DEF Next

-----------------------------------------------------------------------------
(* The target *)

TargetInv ==
  leaked = 0 =>
    /\ path + Reading = iolognum
    /\ \A i \in DOMAIN applied : applied[i] = i
    /\ tool \in Restoring /\ Len(applied) <= Len(past) =>
         Good(target, Len(applied)) /\ Alike(missed, View(target), Seen(Len(applied)))

LEMMA TargetInit == Init => TargetInv
<1>. SUFFICES ASSUME Init PROVE TargetInv
  OBVIOUS
<1>1. applied = <<>> /\ path = 1 /\ iolognum = 1 /\ rpc = "open" /\ target = EmptyTree
  BY DEF Init
<1>2. Len(applied) = 0 /\ DOMAIN applied = {}
  BY <1>1, EmptySeq
<1>3. Good(target, Len(applied)) /\ Alike(missed, View(target), Seen(Len(applied)))
  BY <1>1, <1>2, EmptyGood DEF Seen, Alike
<1>. QED
  BY <1>1, <1>2, <1>3 DEF TargetInv, Reading

(* While no read has failed, the logs applied are the first ones. *)
LEMMA AppliedAreFirst ==
  ASSUME TypeInv, TargetInv, leaked = 0
  PROVE  /\ Len(applied) \in Nat /\ Len(applied) <= Len(logs)
         /\ path = Len(applied) + 1 /\ path \in Nat
<1>1. /\ applied \in Seq(Nums) /\ Len(applied) \in Nat /\ path \in Nat
      /\ Len(logs) \in Nat /\ DOMAIN applied = 1..Len(applied)
  BY DEF TypeInv
<1>2. iolognum = 1 + Len(applied) + Reading
  BY <1>1 DEF TypeInv, TypeOK, Reading
<1>3. path = Len(applied) + 1
  BY <1>1, <1>2 DEF TargetInv, Reading
<1>4. CASE Len(applied) > 0
  <2>1. Len(applied) \in DOMAIN applied /\ applied[Len(applied)] = Len(applied)
    BY <1>1, <1>4 DEF TargetInv
  <2>2. Len(applied) \in Applied
    BY <2>1 DEF Applied
  <2>3. Len(applied) \in Nums /\ files[Len(applied)] = "whole"
    BY <2>2 DEF TypeInv, TypeOK
  <2>. QED
    BY <1>1, <1>3, <2>3 DEF TypeInv, TypeOK
<1>. QED
  BY <1>1, <1>3, <1>4

LEMMA TargetStep ==
  ASSUME TypeInv, SourceInv, TargetInv, [Next]_vars
  PROVE  TargetInv'
<1>. SUFFICES ASSUME leaked' = 0
              PROVE  /\ path' + Reading' = iolognum'
                     /\ \A i \in DOMAIN applied' : applied'[i] = i
                     /\ tool' \in Restoring /\ Len(applied') <= Len(past') =>
                          /\ Good(target', Len(applied'))
                          /\ Alike(missed', View(target'), Seen(Len(applied))')
  <2>1. Good(target', Len(applied')) <=> Good(target, Len(applied))'
    BY DEF Good
  <2>2. View(target') = View(target)'
    BY DEF View, Contents
  <2>3. Alike(missed', View(target'), Seen(Len(applied))') <=>
          Alike(missed, View(target), Seen(Len(applied)))'
    BY <2>2 DEF Alike
  <2>. QED
    BY <2>1, <2>3 DEF TargetInv
<1>0. /\ leaked \in Nat /\ Len(past) \in Nat /\ Len(past) <= Len(logs) /\ Len(logs) \in Nat
      /\ \A k \in 0..Len(past) : Seen(k)' = Seen(k)
      /\ Len(past) = Len(logs) \/ UNCHANGED past
      /\ missed \subseteq missed'
  <2>1. leaked \in Nat /\ Len(logs) \in Nat /\ past \in Seq(Views) /\ Len(past) \in Nat
        /\ Len(past) <= Len(logs)
    BY RestoreAssumption DEF TypeInv, TypeOK, SourceInv
  <2>2. CASE UNCHANGED past
    BY <2>1, <2>2, SourceStep DEF Seen
  <2>3. ASSUME NEW view \in Views, past' = Append(past, view), Len(past) = Len(logs)
        PROVE  \A k \in 0..Len(past) : Seen(k)' = Seen(k)
    BY <2>1, <2>3, PastAppended
  <2>. QED
    BY <2>1, <2>2, <2>3, SourceStep
<1>1. ASSUME UNCHANGED <<tool, path, rpc, iolognum, leaked, applied, target>>
      PROVE  /\ path' + Reading' = iolognum'
             /\ \A i \in DOMAIN applied' : applied'[i] = i
             /\ tool' \in Restoring /\ Len(applied') <= Len(past') =>
                  /\ Good(target', Len(applied'))
                  /\ Alike(missed', View(target'), Seen(Len(applied))')
  <2>1. leaked = 0 /\ Len(applied) \in Nat /\ Len(applied) <= Len(logs)
    BY <1>1, AppliedAreFirst
  <2>2. path' + Reading' = iolognum' /\ \A i \in DOMAIN applied' : applied'[i] = i
    BY <1>1, <2>1 DEF TargetInv, Reading
  <2>3. ASSUME tool \in Restoring, Len(applied) <= Len(past')
        PROVE  Good(target, Len(applied)) /\ Alike(missed', View(target), Seen(Len(applied))')
    <3>1. Len(applied) <= Len(past)
      BY <1>0, <2>1, <2>3
    <3>2. Good(target, Len(applied)) /\ Alike(missed', View(target), Seen(Len(applied)))
      BY <1>0, <2>1, <2>3, <3>1, AlikeMore DEF TargetInv
    <3>3. Len(applied) \in 0..Len(past)
      BY <1>0, <2>1, <3>1
    <3>4. Seen(Len(applied))' = Seen(Len(applied))
      <4>1. \A k \in 0..Len(past) : (IF k = 0 THEN View(EmptyTree) ELSE past'[k]) = Seen(k)
        BY <1>0 DEF Seen
      <4>. QED
        BY <1>1, <3>3, <4>1 DEF Seen
    <3>. QED
      BY <3>2, <3>4
  <2>. QED
    BY <1>1, <2>2, <2>3
<1>2. CASE UNCHANGED vars
  BY <1>1, <1>2 DEF vars
<1>3. CASE Perform
  <2>1. UNCHANGED readerVars
    BY <1>3, OperationOf
  <2>. QED
    BY <1>1, <2>1 DEF readerVars
<1>4. CASE Writer
  BY <1>1, <1>4 DEF Writer, OpenLog, WriteLog, LogFails, readerVars
<1>5. CASE ReadFails
  <2>1. leaked' # 0
    BY <1>0, <1>5 DEF ReadFails
  <2>. QED
    BY <2>1
<1>6. CASE OpenFails \/ Sleep \/ Open
  <2>1. UNCHANGED <<tool, path, leaked, applied, target, past>>
    BY <1>6 DEF OpenFails, Sleep, Open, ReaderGoes, sourceVars
  <2>2. \/ rpc # "read" /\ rpc' # "read" /\ UNCHANGED iolognum
        \/ rpc = "open" /\ rpc' = "read" /\ iolognum' = iolognum + 1
    BY <1>6 DEF OpenFails, Sleep, Open, ReaderGoes
  <2>3. leaked = 0 /\ path \in Nat /\ Len(applied) \in Nat /\ Len(applied) <= Len(logs)
    BY <2>1, AppliedAreFirst
  <2>4. path' + Reading' = iolognum'
    BY <2>1, <2>2, <2>3 DEF TargetInv, Reading
  <2>5. Seen(Len(applied))' = Seen(Len(applied))
    BY <2>1 DEF Seen
  <2>6. tool \in Restoring /\ Len(applied) <= Len(past) =>
          Alike(missed', View(target), Seen(Len(applied)))
    BY <1>0, <2>3, AlikeMore DEF TargetInv
  <2>. QED
    BY <2>1, <2>3, <2>4, <2>5, <2>6 DEF TargetInv
<1>7. CASE Read
  <2>1. /\ rpc = "read" /\ rpc' = "open" /\ path \in Nums /\ files[path] = "whole"
        /\ applied' = Append(applied, path) /\ path' = iolognum
        /\ target' = IF tool \in Restoring THEN Try(target, OpOf(logs[path]), path) ELSE target
        /\ UNCHANGED <<tool, iolognum, leaked, past, logs, missed>>
    BY <1>7 DEF Read, ReaderGoes, sourceVars, TypeInv
  <2>2. leaked = 0 /\ Len(applied) \in Nat /\ path = Len(applied) + 1 /\ path \in Nat
    BY <2>1, AppliedAreFirst
  <2>3. /\ Len(applied') = Len(applied) + 1
        /\ DOMAIN applied = 1..Len(applied) /\ DOMAIN applied' = 1..(Len(applied) + 1)
        /\ \A i \in 1..(Len(applied) + 1) :
             applied'[i] = IF i <= Len(applied) THEN applied[i] ELSE path
    <3>1. applied \in Seq(Nums)
      BY DEF TypeInv
    <3>. QED
      BY <2>1, <3>1, AppliedAppended
  <2>4. path' + Reading' = iolognum'
    <3>1. iolognum \in Nat
      BY <2>2 DEF TypeInv, TypeOK
    <3>. QED
      BY <2>1, <3>1 DEF Reading
  <2>5. \A i \in DOMAIN applied' : applied'[i] = i
    BY <2>2, <2>3 DEF TargetInv
  <2>6. ASSUME tool \in Restoring, Len(applied') <= Len(past')
        PROVE  Good(target', Len(applied')) /\ Alike(missed', View(target'), Seen(Len(applied))')
    <3>1. path \in 1..Len(past) /\ Len(applied') = path /\ Len(applied) <= Len(past) /\ path \in DOMAIN logs
      <4>1. Len(applied') = path /\ past' = past /\ logs \in Seq(Logs) /\ DOMAIN logs = 1..Len(logs)
        BY <2>1, <2>2, <2>3 DEF TypeInv
      <4>. QED
        BY <1>0, <2>2, <2>6, <4>1
    <3>. DEFINE op == OpOf(logs[path])
    <3>2. op \in Ops /\ Valued(op)
      BY <3>1, OpOfType DEF TypeInv
    <3>3. Simple(op) /\ Alike(missed, past[path], After(Seen(path - 1), op))
      BY <3>1 DEF SourceInv
    <3>4. Good(target, Len(applied)) /\ Alike(missed, View(target), Seen(Len(applied)))
      BY <2>2, <2>6, <3>1 DEF TargetInv
    <3>5. target' = Try(target, op, path)
      BY <2>1, <2>6
    <3>6. target \in Trees
      BY DEF TypeInv, TypeOK
    <3>. HIDE DEF op
    <3>7. path > Len(applied) /\ path - 1 = Len(applied)
      BY <2>2
    <3>8. Good(target', path) /\ View(target') = After(View(target), op)
      BY <2>1, <2>2, <3>2, <3>3, <3>4, <3>5, <3>6, <3>7, OneNameStep
    <3>9. Alike(missed, View(target'), past[path])
      <4>1. Alike(missed, After(View(target), op), After(Seen(path - 1), op))
        BY <3>4, <3>7, AlikeAfter
      <4>. QED
        BY <3>3, <3>8, <4>1 DEF Alike
    <3>10. Seen(Len(applied))' = past[path]
      BY <2>1, <2>2, <3>1 DEF Seen
    <3>. QED
      BY <2>1, <3>1, <3>8, <3>9, <3>10
  <2>. QED
    BY <2>1, <2>4, <2>5, <2>6
<1>. QED
  BY <1>2, <1>3, <1>4, <1>5, <1>6, <1>7 DEF Next, Reader

(* TargetIsPastSource of Restore, for any number of files and operations and   *)
(* whatever the hooks, the writer thread and the task do meanwhile: as long as *)
(* no read has failed, the target shows what the source showed when the last   *)
(* record applied was drawn, and with every number applied what the source is, *)
(* in every name no change of which passed the hooks without a number.        *)
THEOREM ReplayMeetsThePast == Spec => []TargetIsPastSource
<1>1. ASSUME TypeInv, SourceInv, TargetInv PROVE TargetIsPastSource
  <2>. SUFFICES ASSUME tool \in Restoring, leaked = 0, NEW m \in Monitored \ missed
                PROVE  /\ Len(applied) \in 1..Len(past) => View(target)[m] = past[Len(applied)][m]
                       /\ ~tangled /\ Len(applied) = Len(logs) => View(target)[m] = View(source)[m]
    BY DEF TargetIsPastSource
  <2>1. Len(applied) <= Len(past) => View(target)[m] = Seen(Len(applied))[m]
    BY <1>1 DEF TargetInv, Alike
  <2>2. Len(applied) \in 1..Len(past) => Len(applied) <= Len(past) /\ Len(applied) # 0
    OBVIOUS
  <2>3. Len(applied) \in 1..Len(past) => View(target)[m] = past[Len(applied)][m]
    BY <2>1, <2>2 DEF Seen
  <2>4. ASSUME ~tangled, Len(applied) = Len(logs) PROVE View(target)[m] = View(source)[m]
    <3>1. Len(past) = Len(logs) /\ past \in Seq(Views) /\ View(source)[m] = Seen(Len(past))[m]
      BY <1>1, <2>4 DEF SourceInv, Alike
    <3>2. Len(applied) <= Len(past)
      BY <2>4, <3>1
    <3>. QED
      BY <2>1, <2>4, <3>1, <3>2
  <2>. QED
    BY <2>3, <2>4
<1>2. Init => TypeInv /\ SourceInv /\ TargetInv
  BY TypeInit, SourceInit, TargetInit
<1>3. (TypeInv /\ SourceInv /\ TargetInv) /\ [Next]_vars => (TypeInv /\ SourceInv /\ TargetInv)'
  BY TypeStep, SourceStep, TargetStep
<1>. QED
  BY <1>1, <1>2, <1>3, PTL DEF Spec
=============================================================================
