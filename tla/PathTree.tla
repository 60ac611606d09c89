------------------------------- MODULE PathTree -------------------------------
(***************************************************************************)
(* The search tree of monitored items (rb.c), node by node. mi_search and   *)
(* mi_insert compare a path with an entry over the entry's own length: an   *)
(* entry that is a prefix of the path counts as equal to it, and the descent *)
(* ends there. Hooks descend without a lock while the netlink handler       *)
(* inserts and erases, so a descent is one step per entry.                  *)
(*                                                                         *)
(* The rebalancing of the kernel's rbtree is any sequence of rotations; its *)
(* colours are left out, so every shape a search tree can take is met.      *)
(* MonitorRegistry takes from here what a search may miss (MiSearch).       *)
(***************************************************************************)
EXTENDS Naturals, FiniteSets

CONSTANTS
  Paths,    \* paths, as positive numbers in lexicographic order
  Prefix,   \* <<p, q>> : p is a proper prefix of q
  Callers   \* tasks inside a hook

Nil == 0

ASSUME PathTreeAssumption ==
  /\ IsFiniteSet(Paths) /\ Paths \subseteq Nat \ {0}
  /\ \A p, q, r \in Paths :
       /\ <<p, q>> \in Prefix => p < q
       /\ <<p, r>> \in Prefix /\ p < q /\ q < r => <<p, q>> \in Prefix
       /\ <<p, q>> \in Prefix /\ <<q, r>> \in Prefix => <<p, r>> \in Prefix

VARIABLES
  items,        \* the items added and not removed
  root,         \* MonitorFiles.RBTree.rb_node
  left, right,  \* rb_left and rb_right of each entry
  walk          \* the descent of each hook

tree == <<root, left, right>>
vars == <<items, root, left, right, walk>>

Links == Paths \cup {Nil}

(* What a hook looks for, the entry it is at, whether it still descends, and *)
(* whether the tree has changed since it began.                              *)
Walk    == [path : Links, at : Links, going : BOOLEAN, disturbed : BOOLEAN]
NoWalk  == [path |-> Nil, at |-> Nil, going |-> FALSE, disturbed |-> FALSE]

NoLinks == [p \in Paths |-> Nil]

Init ==
  /\ items = {} /\ root = Nil /\ left = NoLinks /\ right = NoLinks
  /\ walk = [c \in Callers |-> NoWalk]

-----------------------------------------------------------------------------
(* The descent *)

Covers(q, p) == q = p \/ <<q, p>> \in Prefix

(* Deviation: the whole paths are compared. *)
MeetsWhole(q, p) == q = p

(* strncmp over the length of the entry. *)
Meets(q, p) == Covers(q, p)

Ahead(q, p) == IF p < q THEN left[q] ELSE right[q]

(* Where a descent for p is after n entries, and where it ends. *)
Descent(p) ==
  LET at[n \in 0 .. Cardinality(Paths)] ==
        IF n = 0 THEN root
        ELSE IF at[n - 1] = Nil \/ Meets(at[n - 1], p) THEN at[n - 1]
        ELSE Ahead(at[n - 1], p)
  IN at
Met(p) == Descent(p)[Cardinality(Paths)]

(* The last entry a descent passes before it leaves the tree. *)
Parent(p) ==
  LET at == Descent(p)
      n  == CHOOSE n \in 0 .. Cardinality(Paths) : at[n] # Nil /\ at[n + 1] = Nil
  IN at[n]

(* The entries at and below x. *)
Under(x) ==
  LET reach[n \in 0 .. Cardinality(Paths)] ==
        IF n = 0 THEN {x} \ {Nil}
        ELSE reach[n - 1] \cup ({left[y] : y \in reach[n - 1]} \ {Nil})
                          \cup ({right[y] : y \in reach[n - 1]} \ {Nil})
  IN reach[Cardinality(Paths)]

-----------------------------------------------------------------------------
(* The handler *)

Disturb ==
  walk' = [c \in Callers |-> IF walk[c].going THEN [walk[c] EXCEPT !.disturbed = TRUE]
                                              ELSE walk[c]]

(* Every link to x leads to y. *)
Relinked(f, x, y) == [q \in Paths |-> IF f[q] = x THEN y ELSE f[q]]
RootRelinked(x, y) == root' = IF root = x THEN y ELSE root

(* mi_insert and rb_link_node: nothing is inserted below an entry it meets. *)
Insert(p) ==
  /\ Met(p) = Nil
  /\ IF root = Nil
       THEN root' = p /\ UNCHANGED <<left, right>>
       ELSE /\ UNCHANGED root
            /\ LET q == Parent(p) IN
                 IF p < q THEN left' = [left EXCEPT ![q] = p] /\ UNCHANGED right
                          ELSE right' = [right EXCEPT ![q] = p] /\ UNCHANGED left
  /\ items' = items \cup {p}
  /\ Disturb

(* rb_erase: an entry with two children is replaced by its successor. *)
EraseLeaf(x, child) ==
  /\ RootRelinked(x, child)
  /\ left'  = [Relinked(left, x, child) EXCEPT ![x] = Nil]
  /\ right' = [Relinked(right, x, child) EXCEPT ![x] = Nil]

Least(S) == CHOOSE x \in S : \A y \in S : x <= y

(* Deviation: the successor keeps its own right child and loses that of the  *)
(* erased entry.                                                             *)
EraseInnerShort(x) ==
  LET s == Least(Under(right[x])) IN
  /\ RootRelinked(x, s)
  /\ left'  = [Relinked(Relinked(left, s, right[s]), x, s) EXCEPT ![s] = left[x], ![x] = Nil]
  /\ right' = [Relinked(right, x, s) EXCEPT ![x] = Nil]

EraseInner(x) ==
  LET s == Least(Under(right[x]))
      t == IF s = right[x] THEN right[s] ELSE right[x]
  IN
  /\ RootRelinked(x, s)
  /\ left'  = [Relinked(Relinked(left, s, right[s]), x, s) EXCEPT ![s] = left[x], ![x] = Nil]
  /\ right' = [Relinked(right, x, s) EXCEPT ![s] = t, ![x] = Nil]

Erase(x) ==
  /\ IF left[x] # Nil /\ right[x] # Nil
       THEN EraseInner(x)
       ELSE EraseLeaf(x, IF left[x] = Nil THEN right[x] ELSE left[x])
  /\ items' = items \ {x}
  /\ Disturb

(* mi_remove erases the entry that the descent for p meets; the deletion of  *)
(* a set erases any.                                                         *)
Remove(p) == Met(p) # Nil /\ Erase(Met(p))

(* A step of the rebalancing that follows. *)
RotateLeft(x) ==
  LET y == right[x] IN
  /\ x \in items /\ y # Nil
  /\ RootRelinked(x, y)
  /\ right' = [Relinked(right, x, y) EXCEPT ![x] = left[y]]
  /\ left'  = [Relinked(left, x, y) EXCEPT ![y] = x]
  /\ Disturb
  /\ UNCHANGED items

RotateRight(x) ==
  LET y == left[x] IN
  /\ x \in items /\ y # Nil
  /\ RootRelinked(x, y)
  /\ left'  = [Relinked(left, x, y) EXCEPT ![x] = right[y]]
  /\ right' = [Relinked(right, x, y) EXCEPT ![y] = x]
  /\ Disturb
  /\ UNCHANGED items

-----------------------------------------------------------------------------
(* The hooks *)

LookUp(c, p) ==
  /\ ~walk[c].going
  /\ walk' = [walk EXCEPT ![c] = [path |-> p, at |-> root, going |-> TRUE, disturbed |-> FALSE]]
  /\ UNCHANGED <<items, tree>>

(* One turn of the loop of mi_search; the hook returns with the entry it met *)
(* or without one (MonitorRegistry has what it does with it). From an entry    *)
(* that was freed under it, it follows whatever is in that memory.           *)
Step(c) ==
  /\ walk[c].going
  /\ LET at == walk[c].at  p == walk[c].path IN
     \/ /\ at = Nil \/ Meets(at, p)
        /\ walk' = [walk EXCEPT ![c] = NoWalk]
     \/ /\ at # Nil /\ ~Meets(at, p)
        /\ \E next \in IF at \in items THEN {Ahead(at, p)} ELSE Links :
             walk' = [walk EXCEPT ![c].at = next]
  /\ UNCHANGED <<items, tree>>

Next ==
  \/ \E p \in Paths : Insert(p) \/ Remove(p) \/ RotateLeft(p) \/ RotateRight(p)
  \/ \E x \in items : Erase(x)
  \/ \E c \in Callers : Step(c) \/ \E p \in Paths : LookUp(c, p)

Spec == Init /\ [][Next]_vars

-----------------------------------------------------------------------------
(* Properties *)

(* Although mi_insert's comparison is no order once one item lies inside     *)
(* another, the tree stays sorted by whole paths and holds every item, once, *)
(* through insertions, erasures and rotations.                               *)
TreeSorted ==
  /\ walk \in [Callers -> Walk]
  /\ Under(root) = items
  /\ \A x \in items : /\ \A y \in Under(left[x]) : y < x
                      /\ \A y \in Under(right[x]) : x < y

(* A descent that leaves the tree without an answer, while nobody changed the *)
(* tree, misses an item that covers the path only if one item lies inside    *)
(* another; and even then not one that is the last item before the path,     *)
(* whatever the shape of the tree (rb.c:88).                                 *)
Found(p)  == {q \in items : Covers(q, p)}
Nested    == \E q, r \in items : <<q, r>> \in Prefix
Missed(c) == walk[c].going /\ walk[c].at = Nil /\ ~walk[c].disturbed
LookUpMissesOnlyNested ==
  \A c \in Callers : Missed(c) =>
    /\ Found(walk[c].path) = {} \/ Nested
    /\ \A q \in Found(walk[c].path) : \E r \in items : r <= walk[c].path /\ q < r
=============================================================================
