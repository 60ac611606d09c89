----------------------------- MODULE ConfigProofs -----------------------------
(***************************************************************************)
(* Proofs about /etc/rtb.cnf (ConfigFile), for any numbers of backup sets,    *)
(* items, changes and saves, whatever writes are short and whenever the       *)
(* machine stops.                                                            *)
(***************************************************************************)
EXTENDS ConfigFile, FiniteSetTheorems, WellFoundedInduction, TLAPS

-----------------------------------------------------------------------------
(* Numbers and walks *)

Below == {p \in Nat \X Nat : p[1] < p[2]}

LEMMA BelowWellFounded == IsWellFoundedOn(Below, Nat)
BY NatLessThanWellFounded, Zenon DEF OpToRel, Below

LEMMA MinIsLeast ==
  ASSUME NEW S \in SUBSET Nat, S # {}
  PROVE  Min(S) \in S /\ \A y \in S : Min(S) <= y
<1>1. PICK x \in S : \A y \in S : ~(<<y, x>> \in Below)
  BY BelowWellFounded, WFMin
<1>2. \A y \in S : x <= y
  <2>. SUFFICES ASSUME NEW y \in S PROVE x <= y
    OBVIOUS
  <2>1. x \in Nat /\ y \in Nat
    OBVIOUS
  <2>2. ~(y < x)
    BY <1>1, <2>1 DEF Below
  <2>. QED
    BY <2>1, <2>2
<1>. QED
  BY <1>1, <1>2 DEF Min

LEMMA FirstIsLeast ==
  ASSUME NEW t \in SUBSET (Nat \ {NoNode})
  PROVE  /\ t = {} => First(t) = NoNode
         /\ t # {} => First(t) \in t /\ First(t) # NoNode /\ \A y \in t : First(t) <= y
<1>1. ASSUME t # {} PROVE Min(t) \in t /\ \A y \in t : Min(t) <= y
  BY <1>1, MinIsLeast
<1>. QED
  BY <1>1 DEF First

(* A step of a walk goes to a later entry, or ends; from an entry that is     *)
(* still there it passes over none.                                          *)
LEMMA RbNextIsLater ==
  ASSUME NEW t \in SUBSET (Nat \ {NoNode}), NEW e \in Nat \ {NoNode}, NEW n \in RbNext(t, e)
  PROVE  /\ n # NoNode => n \in t /\ n > e
         /\ e \in t => \A y \in t : y > e => n # NoNode /\ n <= y
<1>1. Later(t, e) \in SUBSET (Nat \ {NoNode}) /\ \A y \in Later(t, e) : y \in t /\ y > e
  BY DEF Later
<1>2. \A y \in t : y > e => y \in Later(t, e)
  BY DEF Later
<1>3. CASE e \in t
  <2>1. n = First(Later(t, e))
    BY <1>3 DEF RbNext
  <2>. QED
    BY <1>1, <1>2, <2>1, FirstIsLeast
<1>4. CASE e \notin t
  BY <1>1, <1>4 DEF RbNext
<1>. QED
  BY <1>3, <1>4

LEMMA Times ==
  ASSUME NEW a \in Nat, NEW b \in Nat, NEW c \in Nat
  PROVE  /\ a * b \in Nat /\ a * (b + 1) = a * b + a
         /\ b <= c => a * b <= a * c
<1>1. b <= c => a * b <= a * c
  BY Z3
<1>2. a * b \in Nat /\ a * (b + 1) = a * b + a
  BY Z3
<1>. QED
  BY <1>1, <1>2

(* The entries a walk may still come to. *)
From(S, n) == IF n = NoNode THEN {} ELSE {e \in S : e >= n}

LEMMA Sizing ==
  /\ SetLen \in Nat \ {0} /\ ItemLen \in Nat \ {0}
  /\ Sets \subseteq Nat \ {NoNode} /\ Items \subseteq Nat \ {NoNode} /\ Entries \subseteq Nat \ {NoNode}
  /\ Sets \cap Items = {}
  /\ IsFiniteSet(Sets) /\ IsFiniteSet(Items)
  /\ Cardinality(Sets) \in Nat /\ Cardinality(Items) \in Nat
  /\ SetLen * Cardinality(Sets) \in Nat /\ ItemLen * Cardinality(Items) \in Nat
  /\ Capacity \in Nat /\ Capacity = SetLen * Cardinality(Sets) + ItemLen * Cardinality(Items)
<1>1. /\ SetLen \in Nat \ {0} /\ ItemLen \in Nat \ {0} /\ IsFiniteSet(Entries)
      /\ Sets \subseteq Nat \ {NoNode} /\ Items \subseteq Nat \ {NoNode} /\ Sets \cap Items = {}
  BY ConfigAssumption
<1>2. Sets \in SUBSET Entries /\ Items \in SUBSET Entries
  BY DEF Entries
<1>3. IsFiniteSet(Sets) /\ IsFiniteSet(Items)
  BY <1>1, <1>2, FS_Subset
<1>4. Cardinality(Sets) \in Nat /\ Cardinality(Items) \in Nat
  BY <1>3, FS_CardinalityType
<1>5. SetLen * Cardinality(Sets) \in Nat /\ ItemLen * Cardinality(Items) \in Nat
  BY <1>1, <1>4, Times
<1>. QED
  BY <1>1, <1>3, <1>4, <1>5 DEF Capacity, Entries

(* Writing an entry takes its cells from those that are left. *)
LEMMA RoomAhead ==
  ASSUME NEW S \in SUBSET (Nat \ {NoNode}), IsFiniteSet(S), NEW len \in Nat
  PROVE  /\ \A n : /\ Cardinality(From(S, n)) \in Nat /\ Cardinality(From(S, n)) <= Cardinality(S)
                   /\ len * Cardinality(From(S, n)) \in Nat
                   /\ len * Cardinality(From(S, n)) <= len * Cardinality(S)
         /\ \A e \in S, n \in Nat : n = NoNode \/ n > e =>
              len + len * Cardinality(From(S, n)) <= len * Cardinality(From(S, e))
<1>1. \A n : /\ IsFiniteSet(From(S, n)) /\ Cardinality(From(S, n)) \in Nat
             /\ Cardinality(From(S, n)) <= Cardinality(S)
  <2>1. \A n : From(S, n) \in SUBSET S
    BY DEF From
  <2>. QED
    BY <2>1, FS_Subset, FS_CardinalityType
<1>2. Cardinality(S) \in Nat
  BY FS_CardinalityType
<1>3. \A n : /\ len * Cardinality(From(S, n)) \in Nat
             /\ len * Cardinality(From(S, n)) <= len * Cardinality(S)
  BY <1>1, <1>2, Times
<1>4. ASSUME NEW e \in S, NEW n \in Nat, n = NoNode \/ n > e
      PROVE  len + len * Cardinality(From(S, n)) <= len * Cardinality(From(S, e))
  <2>1. e \in From(S, e) /\ From(S, n) \in SUBSET (From(S, e) \ {e})
    <3>1. e \in Nat /\ e # NoNode /\ From(S, e) = {x \in S : x >= e}
      BY DEF From
    <3>2. CASE n = NoNode
      BY <3>1, <3>2 DEF From
    <3>3. CASE n # NoNode /\ n > e
      <4>1. \A x \in S : x >= n => x >= e /\ x # e
        BY <3>1, <3>3
      <4>2. From(S, n) = {x \in S : x >= n}
        BY <3>3 DEF From
      <4>3. e \in {x \in S : x >= e}
        BY <3>1
      <4>. QED
        BY <3>1, <4>1, <4>2, <4>3
    <3>. QED
      BY <1>4, <3>2, <3>3
  <2>2. /\ IsFiniteSet(From(S, e) \ {e})
        /\ Cardinality(From(S, e) \ {e}) = Cardinality(From(S, e)) - 1
    BY <1>1, <2>1, FS_RemoveElement
  <2>3. Cardinality(From(S, n)) <= Cardinality(From(S, e) \ {e})
    BY <2>1, <2>2, FS_Subset
  <2>4. Cardinality(From(S, n)) + 1 <= Cardinality(From(S, e))
    BY <1>1, <2>2, <2>3
  <2>5. len * (Cardinality(From(S, n)) + 1) <= len * Cardinality(From(S, e))
    <3>1. Cardinality(From(S, n)) + 1 \in Nat /\ Cardinality(From(S, e)) \in Nat
      BY <1>1
    <3>. QED
      BY <2>4, <3>1, Times
  <2>6. len * (Cardinality(From(S, n)) + 1) = len * Cardinality(From(S, n)) + len
    BY <1>1, Times
  <2>. QED
    BY <1>3, <2>5, <2>6
<1>. QED
  BY <1>1, <1>3, <1>4

-----------------------------------------------------------------------------
(* Types *)

Room(v) ==
  /\ v.pc \in {"idle", "header"} => v.at = 0
  /\ v.pc = "sets" => v.at + SetLen * Cardinality(From(Sets, v.node)) <= SetLen * Cardinality(Sets)
  /\ v.pc = "items" => /\ v.at + ItemLen * Cardinality(From(Items, v.node)) <= Capacity
                       /\ v.cfh.sizeSet <= v.at

InOwnTree(v) ==
  /\ v.pc = "sets" => v.node \in Sets \cup {NoNode}
  /\ v.pc = "items" => v.node \in Items \cup {NoNode}

GoodSave(v) == v \in Save /\ InOwnTree(v) /\ Room(v)

TypeInv == TypeOK /\ \A s \in Savers : Room(save[s])

LEMMA SavesGood == TypeInv => save \in [Savers -> Save] /\ \A s \in Savers : GoodSave(save[s])
BY DEF TypeInv, TypeOK, GoodSave, InOwnTree

LEMMA SaveFields ==
  ASSUME NEW v \in Save
  PROVE  /\ v.pc \in Pcs /\ v.node \in Entries \cup {NoNode} /\ v.at \in Sizes /\ v.cfh \in Header
         /\ v.kept \subseteq Entries /\ v.seen \subseteq Entries
BY DEF Save

LEMMA HeaderFields ==
  ASSUME NEW h \in Header
  PROVE  /\ h.status \in Status /\ h.sizeSet \in Sizes /\ h.sizeFiles \in Sizes
         /\ h = [status |-> h.status, sizeSet |-> h.sizeSet, sizeFiles |-> h.sizeFiles]
BY DEF Header

(* A save made of its fields. *)
LEMMA SaveMade ==
  ASSUME NEW pc \in Pcs, NEW node \in Entries \cup {NoNode}, NEW at \in Sizes, NEW cfh \in Header,
         NEW kept \in SUBSET Entries, NEW seen \in SUBSET Entries,
         NEW v, v = [pc |-> pc, node |-> node, at |-> at, cfh |-> cfh, kept |-> kept, seen |-> seen]
  PROVE  /\ v \in Save
         /\ v.pc = pc /\ v.node = node /\ v.at = at /\ v.cfh = cfh /\ v.kept = kept /\ v.seen = seen
BY DEF Save

LEMMA IdleGood == GoodSave(Idle)
<1>1. 0 \in Sizes /\ NoHeader \in Header
  BY Sizing DEF Sizes, NoHeader, Header, Status
<1>2. "idle" \in Pcs /\ {} \in SUBSET Entries
  BY DEF Pcs
<1>3. Idle \in Save /\ Idle.pc = "idle" /\ Idle.at = 0
  BY <1>1, <1>2, SaveMade DEF Idle
<1>. QED
  BY <1>3 DEF GoodSave, InOwnTree, Room

LEMMA SavePut ==
  ASSUME TypeInv, NEW s \in Savers, NEW v, GoodSave(v), save' = [save EXCEPT ![s] = v]
  PROVE  /\ save' \in [Savers -> Save] /\ \A u \in Savers : GoodSave(save'[u])
         /\ save'[s] = v /\ \A u \in Savers \ {s} : save'[u] = save[u]
BY SavesGood DEF GoodSave

(* What is left to prove of a step when the saves are good. *)
LEMMA TypeFrom ==
  ASSUME TypeInv, save' \in [Savers -> Save], \A u \in Savers : GoodSave(save'[u]),
         tree' \in SUBSET Entries, status' \in Status, header' \in Header,
         data' \in [0..(Capacity - 1) -> Cells],
         edits' \in 0..MaxEdits, saves' \in 0..MaxSaves,
         group' \in [overlap : BOOLEAN, edited : BOOLEAN, strayed : BOOLEAN],
         last' \in [valid : BOOLEAN, kept : SUBSET Entries, seen : SUBSET Entries],
         reboot' \in [begun : BOOLEAN, wrote : BOOLEAN, alone : BOOLEAN, reset : BOOLEAN]
  PROVE  TypeInv'
BY DEF TypeInv, TypeOK, GoodSave, InOwnTree

LEMMA TypeInit == Init => TypeInv
<1>. SUFFICES ASSUME Init PROVE TypeInv
  OBVIOUS
<1>1. /\ save \in [Savers -> Save] /\ \A s \in Savers : GoodSave(save[s])
  BY IdleGood DEF Init, GoodSave
<1>2. header \in Header /\ data \in [0..(Capacity - 1) -> Cells]
  BY Sizing DEF Init, NoHeader, Header, Status, Sizes, Cells
<1>3. edits \in 0..MaxEdits /\ saves \in 0..MaxSaves
  BY ConfigAssumption DEF Init
<1>4. /\ group \in [overlap : BOOLEAN, edited : BOOLEAN, strayed : BOOLEAN]
      /\ last \in [valid : BOOLEAN, kept : SUBSET Entries, seen : SUBSET Entries]
      /\ reboot \in [begun : BOOLEAN, wrote : BOOLEAN, alone : BOOLEAN, reset : BOOLEAN]
  BY DEF Init, NoPromise, NoReboot
<1>5. tree \subseteq Entries /\ status \in Status
  BY DEF Init, Status
<1>. QED
  BY <1>1, <1>2, <1>3, <1>4, <1>5 DEF TypeInv, TypeOK, GoodSave, InOwnTree

LEMMA FileWritten ==
  ASSUME TypeInv, NEW at \in Nat, NEW e \in Entries, NEW n \in Nat, n <= LenOf(e), FileWrite(at, e, n)
  PROVE  data' \in [0..(Capacity - 1) -> Cells]
<1>1. data \in [0..(Capacity - 1) -> Cells] /\ DOMAIN data = 0..(Capacity - 1)
  BY DEF TypeInv, TypeOK
<1>2. \A i \in 0..(Capacity - 1) : i >= at /\ i < at + n => <<e, i - at>> \in Cells
  <2>. SUFFICES ASSUME NEW i \in 0..(Capacity - 1), i >= at, i < at + n PROVE <<e, i - at>> \in Cells
    OBVIOUS
  <2>1. i - at \in 0..(SetLen + ItemLen)
    BY Sizing DEF LenOf
  <2>. QED
    BY <2>1 DEF Cells
<1>. QED
  BY <1>1, <1>2 DEF FileWrite

-----------------------------------------------------------------------------
(* What each step makes of the run of SaveConfig it belongs to *)

LEMMA StartsMakes ==
  ASSUME TypeInv, NEW s \in Savers, NEW st \in Status, SaveStarts(s, st)
  PROVE  /\ saves' = saves + 1 /\ saves' \in 0..MaxSaves
         /\ \E v : /\ GoodSave(v) /\ save' = [save EXCEPT ![s] = v]
                   /\ v.pc = "header" /\ v.at = 0 /\ v.cfh = [NoHeader EXCEPT !.status = st]
                   /\ v.kept = tree /\ v.seen = tree
<1>. DEFINE cfh == [NoHeader EXCEPT !.status = st]
            v == [Idle EXCEPT !.pc = "header", !.cfh = cfh, !.kept = tree, !.seen = tree]
<1>1. cfh = [status |-> st, sizeSet |-> 0, sizeFiles |-> 0]
  BY DEF NoHeader
<1>2. 0 \in Sizes /\ tree \in SUBSET Entries /\ "header" \in Pcs /\ NoNode \in Entries \cup {NoNode}
  BY Sizing DEF Sizes, TypeInv, TypeOK, Pcs
<1>3. cfh \in Header
  BY <1>1, <1>2 DEF Header
<1>4. Idle \in Save /\ Idle.at = 0 /\ Idle.cfh = NoHeader
  BY IdleGood DEF GoodSave, Idle
<1>5. save' = [save EXCEPT ![s] = v]
  BY <1>4 DEF SaveStarts
<1>. HIDE DEF cfh
<1>6. /\ v \in Save /\ v.pc = "header" /\ v.at = 0 /\ v.cfh = cfh /\ v.kept = tree /\ v.seen = tree
  BY <1>2, <1>3, <1>4 DEF Save
<1>. HIDE DEF v
<1>7. GoodSave(v)
  BY <1>6 DEF GoodSave, InOwnTree, Room
<1>8. saves' = saves + 1 /\ saves' \in 0..MaxSaves
  BY ConfigAssumption DEF SaveStarts, TypeInv, TypeOK
<1>. QED
  BY <1>5, <1>6, <1>7, <1>8 DEF cfh, v

LEMMA WriteHeaderMakes ==
  ASSUME TypeInv, NEW s \in Savers, WriteHeader(s)
  PROVE  \E v : /\ GoodSave(v) /\ save' = [save EXCEPT ![s] = v]
                /\ v.pc = "sets" /\ v.node = First(tree \cap Sets) /\ v.at = 0
                /\ v.cfh = save[s].cfh /\ v.kept = save[s].kept /\ v.seen = save[s].seen
<1>. DEFINE old == save[s]
            node == First(tree \cap Sets)
            v == [old EXCEPT !.pc = "sets", !.node = node]
<1>1. old \in Save /\ GoodSave(old) /\ save \in [Savers -> Save]
  BY SavesGood
<1>2. old.pc = "header" /\ save' = [save EXCEPT ![s] = v]
  BY DEF WriteHeader
<1>. HIDE DEF old
<1>4. node \in Sets \cup {NoNode}
  <2>1. tree \cap Sets \in SUBSET (Nat \ {NoNode})
    BY Sizing
  <2>. QED
    BY <2>1, FirstIsLeast
<1>. HIDE DEF node
<1>5. node \in Entries \cup {NoNode}
  BY <1>4 DEF Entries
<1>6. /\ v \in Save /\ v.pc = "sets" /\ v.node = node /\ v.at = old.at
      /\ v.cfh = old.cfh /\ v.kept = old.kept /\ v.seen = old.seen
  BY <1>1, <1>5 DEF Save, Pcs
<1>. HIDE DEF v
<1>7. v.at = 0
  BY <1>1, <1>2, <1>6 DEF GoodSave, Room
<1>8. SetLen * Cardinality(From(Sets, node)) <= SetLen * Cardinality(Sets)
      /\ SetLen * Cardinality(From(Sets, node)) \in Nat
  BY Sizing, RoomAhead
<1>9. GoodSave(v)
  BY <1>4, <1>6, <1>7, <1>8 DEF GoodSave, InOwnTree, Room
<1>. QED
  BY <1>2, <1>6, <1>7, <1>9 DEF old, node, v

LEMMA WriteEntryMakes ==
  ASSUME TypeInv, NEW s \in Savers, WriteEntry(s)
  PROVE  \E v : /\ GoodSave(v) /\ save' = [save EXCEPT ![s] = v]
                /\ v.pc = save[s].pc /\ v.at = save[s].at + LenOf(save[s].node)
                /\ v.node \in RbNext(TreeOf(save[s].pc), save[s].node)
                /\ v.cfh = save[s].cfh /\ v.kept = save[s].kept /\ v.seen = save[s].seen
<1>. DEFINE old == save[s]
            t == TreeOf(old.pc)
<1>1. old \in Save /\ GoodSave(old) /\ save \in [Savers -> Save]
  BY SavesGood
<1>2. PICK next \in RbNext(t, old.node) :
        save' = [save EXCEPT ![s] = [old EXCEPT !.node = next, !.at = old.at + LenOf(old.node)]]
  BY DEF WriteEntry
<1>3. old.pc \in {"sets", "items"} /\ old.node # NoNode
  BY DEF WriteEntry
<1>. DEFINE v == [old EXCEPT !.node = next, !.at = old.at + LenOf(old.node)]
<1>. HIDE DEF old
<1>4. /\ old.pc \in Pcs /\ old.node \in Entries /\ old.at \in Sizes /\ old.at \in Nat
      /\ old.cfh \in Header /\ old.kept \in SUBSET Entries /\ old.seen \in SUBSET Entries
  <2>1. old.at \in Sizes
    BY <1>1, SaveFields
  <2>. QED
    BY <1>1, <1>3, <2>1, SaveFields, Sizing DEF Sizes
<1>. HIDE DEF v
<1>6. next \in Nat /\ next \in t \cup {NoNode} /\ (next = NoNode \/ next > old.node)
  <2>1. t \in SUBSET (Nat \ {NoNode}) /\ old.node \in Nat \ {NoNode}
    BY <1>3, <1>4, Sizing DEF TreeOf
  <2>2. next # NoNode => next \in t /\ next > old.node
    BY <2>1, RbNextIsLater
  <2>. QED
    BY <2>1, <2>2 DEF NoNode
<1>7. CASE old.pc = "sets"
  <2>1. old.node \in Sets /\ t = tree \cap Sets /\ LenOf(old.node) = SetLen
    BY <1>1, <1>3, <1>7 DEF GoodSave, InOwnTree, TreeOf, LenOf
  <2>2. /\ SetLen + SetLen * Cardinality(From(Sets, next)) <= SetLen * Cardinality(From(Sets, old.node))
        /\ SetLen * Cardinality(From(Sets, next)) \in Nat
        /\ SetLen * Cardinality(From(Sets, old.node)) \in Nat
    BY <1>6, <2>1, Sizing, RoomAhead
  <2>3. old.at + SetLen * Cardinality(From(Sets, old.node)) <= SetLen * Cardinality(Sets)
    BY <1>1, <1>7 DEF GoodSave, Room
  <2>4. /\ old.at + SetLen \in Sizes
        /\ old.at + SetLen + SetLen * Cardinality(From(Sets, next)) <= SetLen * Cardinality(Sets)
    BY <1>4, <2>2, <2>3, Sizing DEF Sizes
  <2>5. next \in Sets \cup {NoNode} /\ next \in Entries \cup {NoNode}
    BY <1>6, <2>1 DEF Entries
  <2>6. /\ v \in Save /\ v.pc = "sets" /\ v.node = next /\ v.at = old.at + SetLen
        /\ v.cfh = old.cfh /\ v.kept = old.kept /\ v.seen = old.seen
    <3>1. v = [old EXCEPT !.node = next, !.at = old.at + SetLen]
      BY <2>1 DEF v
    <3>2. /\ v \in Save /\ v.pc = old.pc /\ v.node = next /\ v.at = old.at + SetLen
          /\ v.cfh = old.cfh /\ v.kept = old.kept /\ v.seen = old.seen
      <4>1. old \in Save /\ next \in Entries \cup {NoNode} /\ old.at + SetLen \in Sizes
        BY <1>1, <2>4, <2>5
      <4>. HIDE DEF v
      <4>. QED
        BY <3>1, <4>1 DEF Save
    <3>. QED
      BY <1>7, <3>2
  <2>7. GoodSave(v)
    BY <2>4, <2>5, <2>6 DEF GoodSave, InOwnTree, Room
  <2>. QED
    BY <1>2, <1>7, <2>1, <2>6, <2>7 DEF old, v
<1>8. CASE old.pc = "items"
  <2>1. old.node \in Items /\ t = tree \cap Items /\ LenOf(old.node) = ItemLen
    BY <1>1, <1>3, <1>8, Sizing DEF GoodSave, InOwnTree, TreeOf, LenOf
  <2>2. /\ ItemLen + ItemLen * Cardinality(From(Items, next)) <= ItemLen * Cardinality(From(Items, old.node))
        /\ ItemLen * Cardinality(From(Items, next)) \in Nat
        /\ ItemLen * Cardinality(From(Items, old.node)) \in Nat
    BY <1>6, <2>1, Sizing, RoomAhead
  <2>3. /\ old.at + ItemLen * Cardinality(From(Items, old.node)) <= Capacity
        /\ old.cfh.sizeSet <= old.at /\ old.cfh.sizeSet \in Nat
    <3>1. old.cfh.sizeSet \in Sizes
      BY <1>4, HeaderFields
    <3>. QED
      BY <1>1, <1>8, <3>1, Sizing DEF GoodSave, Room, Sizes
  <2>4. /\ old.at + ItemLen \in Sizes
        /\ old.at + ItemLen + ItemLen * Cardinality(From(Items, next)) <= Capacity
        /\ old.cfh.sizeSet <= old.at + ItemLen
    BY <1>4, <2>2, <2>3, Sizing DEF Sizes
  <2>5. next \in Items \cup {NoNode} /\ next \in Entries \cup {NoNode}
    BY <1>6, <2>1 DEF Entries
  <2>6. /\ v \in Save /\ v.pc = "items" /\ v.node = next /\ v.at = old.at + ItemLen
        /\ v.cfh = old.cfh /\ v.kept = old.kept /\ v.seen = old.seen
    <3>1. v = [old EXCEPT !.node = next, !.at = old.at + ItemLen]
      BY <2>1 DEF v
    <3>2. /\ v \in Save /\ v.pc = old.pc /\ v.node = next /\ v.at = old.at + ItemLen
          /\ v.cfh = old.cfh /\ v.kept = old.kept /\ v.seen = old.seen
      <4>1. old \in Save /\ next \in Entries \cup {NoNode} /\ old.at + ItemLen \in Sizes
        BY <1>1, <2>4, <2>5
      <4>. HIDE DEF v
      <4>. QED
        BY <3>1, <4>1 DEF Save
    <3>. QED
      BY <1>8, <3>2
  <2>7. GoodSave(v)
    BY <2>4, <2>5, <2>6 DEF GoodSave, InOwnTree, Room
  <2>. QED
    BY <1>2, <1>8, <2>1, <2>6, <2>7 DEF old, v
<1>. QED
  BY <1>3, <1>7, <1>8

LEMMA SetsDoneMakes ==
  ASSUME TypeInv, NEW s \in Savers, SetsDone(s)
  PROVE  \E v : /\ GoodSave(v) /\ save' = [save EXCEPT ![s] = v]
                /\ v.pc = "items" /\ v.node = First(tree \cap Items) /\ v.at = save[s].at
                /\ v.cfh.sizeSet = save[s].at /\ v.cfh.status = save[s].cfh.status
                /\ v.kept = save[s].kept /\ v.seen = save[s].seen
<1>. DEFINE old == save[s]
            node == First(tree \cap Items)
            cfh == [old.cfh EXCEPT !.sizeSet = old.at]
            v == [old EXCEPT !.pc = "items", !.node = node, !.cfh = cfh]
<1>1. old \in Save /\ GoodSave(old) /\ save \in [Savers -> Save]
  BY SavesGood
<1>2. old.pc = "sets" /\ old.node = NoNode
  BY DEF SetsDone
<1>3. save' = [save EXCEPT ![s] = v]
  BY DEF SetsDone
<1>. HIDE DEF old
<1>4. old.at \in Sizes /\ old.at \in Nat /\ old.cfh \in Header
  BY <1>1, SaveFields, Sizing DEF Sizes
<1>5. cfh \in Header /\ cfh.sizeSet = old.at /\ cfh.status = old.cfh.status
  BY <1>4 DEF Header
<1>6. node \in Items \cup {NoNode} /\ node \in Entries \cup {NoNode}
  <2>1. tree \cap Items \in SUBSET (Nat \ {NoNode})
    BY Sizing
  <2>. QED
    BY <2>1, FirstIsLeast DEF Entries
<1>. HIDE DEF cfh, node
<1>7. /\ v \in Save /\ v.pc = "items" /\ v.node = node /\ v.at = old.at /\ v.cfh = cfh
      /\ v.kept = old.kept /\ v.seen = old.seen
  BY <1>1, <1>5, <1>6 DEF Save, Pcs
<1>. HIDE DEF v
<1>8. old.at + ItemLen * Cardinality(From(Items, node)) <= Capacity
  <2>1. old.at + SetLen * Cardinality(From(Sets, old.node)) <= SetLen * Cardinality(Sets)
    BY <1>1, <1>2 DEF GoodSave, Room
  <2>2. SetLen * Cardinality(From(Sets, old.node)) \in Nat
    BY Sizing, RoomAhead
  <2>3. /\ ItemLen * Cardinality(From(Items, node)) <= ItemLen * Cardinality(Items)
        /\ ItemLen * Cardinality(From(Items, node)) \in Nat
    BY Sizing, RoomAhead
  <2>. QED
    BY <1>4, <2>1, <2>2, <2>3, Sizing
<1>9. GoodSave(v)
  BY <1>4, <1>5, <1>6, <1>7, <1>8 DEF GoodSave, InOwnTree, Room
<1>. QED
  BY <1>3, <1>5, <1>7, <1>9 DEF old, node

LEMMA ItemsDoneMakes ==
  ASSUME TypeInv, NEW s \in Savers, ItemsDone(s)
  PROVE  \E v : /\ GoodSave(v) /\ save' = [save EXCEPT ![s] = v]
                /\ v.pc = "rewrite" /\ v.cfh.status = save[s].cfh.status
                /\ v.cfh.sizeSet = save[s].cfh.sizeSet
                /\ v.cfh.sizeFiles = save[s].at - save[s].cfh.sizeSet
                /\ v.kept = save[s].kept /\ v.seen = save[s].seen
<1>. DEFINE old == save[s]
            cfh == [old.cfh EXCEPT !.sizeFiles = old.at - old.cfh.sizeSet]
            v == [old EXCEPT !.pc = "rewrite", !.cfh = cfh]
<1>1. old \in Save /\ GoodSave(old) /\ save \in [Savers -> Save]
  BY SavesGood
<1>2. old.pc = "items" /\ save' = [save EXCEPT ![s] = v]
  BY DEF ItemsDone
<1>. HIDE DEF old
<1>3. old.at \in Sizes /\ old.cfh \in Header
  BY <1>1, SaveFields
<1>4. old.at - old.cfh.sizeSet \in Sizes
  <2>1. old.cfh.sizeSet \in Sizes /\ old.cfh.sizeSet <= old.at
    BY <1>1, <1>2, <1>3, HeaderFields DEF GoodSave, Room
  <2>. QED
    BY <1>3, <2>1, Sizing DEF Sizes
<1>5. /\ cfh \in Header /\ cfh.status = old.cfh.status
      /\ cfh.sizeSet = old.cfh.sizeSet /\ cfh.sizeFiles = old.at - old.cfh.sizeSet
  BY <1>3, <1>4 DEF Header
<1>. HIDE DEF cfh
<1>6. v \in Save /\ v.pc = "rewrite" /\ v.cfh = cfh /\ v.kept = old.kept /\ v.seen = old.seen
  BY <1>1, <1>5 DEF Save, Pcs
<1>. HIDE DEF v
<1>7. GoodSave(v)
  BY <1>6 DEF GoodSave, InOwnTree, Room
<1>. QED
  BY <1>2, <1>5, <1>6, <1>7 DEF old

(* An edit changes the history of the saves under way, and nothing they use. *)
LEMMA EditMakes ==
  ASSUME TypeInv, Edit
  PROVE  /\ tree' \in SUBSET Entries
         /\ save' \in [Savers -> Save]
         /\ \A u \in Savers :
              /\ GoodSave(save'[u])
              /\ save'[u].pc = save[u].pc /\ save'[u].cfh = save[u].cfh
              /\ save'[u].at = save[u].at /\ save'[u].node = save[u].node
              /\ save[u].pc # "idle" => /\ save'[u].kept = save[u].kept \cap tree'
                                        /\ save'[u].seen = save[u].seen \cup tree'
<1>1. tree' \in SUBSET Entries
  BY DEF Edit, TypeInv, TypeOK
<1>2. save' = [s \in Savers |-> IF save[s].pc = "idle" THEN save[s]
                ELSE [save[s] EXCEPT !.kept = @ \cap tree', !.seen = @ \cup tree']]
  BY DEF Edit
<1>3. ASSUME NEW u \in Savers
      PROVE  /\ GoodSave(save'[u])
             /\ save'[u].pc = save[u].pc /\ save'[u].cfh = save[u].cfh
             /\ save'[u].at = save[u].at /\ save'[u].node = save[u].node
             /\ save[u].pc # "idle" => /\ save'[u].kept = save[u].kept \cap tree'
                                       /\ save'[u].seen = save[u].seen \cup tree'
  <2>. DEFINE old == save[u]
              v == [old EXCEPT !.kept = @ \cap tree', !.seen = @ \cup tree']
  <2>1. GoodSave(old) /\ old \in Save
    BY SavesGood
  <2>2. save'[u] = IF old.pc = "idle" THEN old ELSE v
    BY <1>2
  <2>. HIDE DEF old
  <2>3. /\ v \in Save /\ v.pc = old.pc /\ v.cfh = old.cfh /\ v.at = old.at /\ v.node = old.node
        /\ v.kept = old.kept \cap tree' /\ v.seen = old.seen \cup tree'
    BY <1>1, <2>1 DEF Save
  <2>. HIDE DEF v
  <2>4. GoodSave(v)
    BY <2>1, <2>3 DEF GoodSave, InOwnTree, Room
  <2>. QED
    BY <2>1, <2>2, <2>3, <2>4 DEF old
<1>4. save' \in [Savers -> Save]
  BY <1>2, <1>3 DEF GoodSave
<1>. QED
  BY <1>1, <1>3, <1>4

LEMMA WalkerAt ==
  ASSUME TypeInv, NEW s \in Savers, save[s].node # NoNode
  PROVE  save[s].at \in Nat /\ save[s].node \in Entries /\ LenOf(save[s].node) \in Nat
<1>1. save[s] \in Save
  BY SavesGood
<1>2. save[s].at \in Sizes /\ save[s].node \in Entries
  BY <1>1, SaveFields
<1>3. save[s].at \in Nat
  BY <1>2, Sizing DEF Sizes
<1>4. LenOf(save[s].node) \in Nat
  BY Sizing DEF LenOf
<1>. QED
  BY <1>2, <1>3, <1>4

-----------------------------------------------------------------------------
LEMMA TypeStep == TypeInv /\ [Next]_vars => TypeInv'
<1>. SUFFICES ASSUME TypeInv, [Next]_vars PROVE TypeInv'
  OBVIOUS
<1>. USE DEF memory, file, counts
<1>0. /\ save \in [Savers -> Save] /\ \A u \in Savers : GoodSave(save[u])
      /\ tree \in SUBSET Entries /\ status \in Status /\ header \in Header
      /\ data \in [0..(Capacity - 1) -> Cells]
      /\ edits \in 0..MaxEdits /\ saves \in 0..MaxSaves
      /\ group \in [overlap : BOOLEAN, edited : BOOLEAN, strayed : BOOLEAN]
      /\ last \in [valid : BOOLEAN, kept : SUBSET Entries, seen : SUBSET Entries]
      /\ reboot \in [begun : BOOLEAN, wrote : BOOLEAN, alone : BOOLEAN, reset : BOOLEAN]
  BY SavesGood DEF TypeInv, TypeOK
<1>a. ASSUME NEW s \in Savers, Stop(s)
      PROVE  save' \in [Savers -> Save] /\ \A u \in Savers : GoodSave(save'[u])
  BY <1>a, IdleGood, SavePut DEF Stop
<1>b. NoPromise \in [valid : BOOLEAN, kept : SUBSET Entries, seen : SUBSET Entries]
  BY DEF NoPromise
<1>1. ASSUME NEW s \in Savers, SaveConfig(s) PROVE TypeInv'
  <2>1. SaveStarts(s, status) /\ UNCHANGED <<tree, status, header, data, edits, group, last, reboot>>
    BY <1>1 DEF SaveConfig
  <2>2. saves' \in 0..MaxSaves /\ save' \in [Savers -> Save] /\ \A u \in Savers : GoodSave(save'[u])
    BY <1>0, <2>1, StartsMakes, SavePut
  <2>. QED
    BY <1>0, <2>1, <2>2, TypeFrom
<1>2. ASSUME NEW s \in Savers, WriteHeader(s) PROVE TypeInv'
  <2>1. save' \in [Savers -> Save] /\ \A u \in Savers : GoodSave(save'[u])
    BY <1>2, WriteHeaderMakes, SavePut
  <2>2. /\ header' = save[s].cfh /\ last' = NoPromise /\ UNCHANGED <<tree, status, data, edits, saves>>
        /\ reboot' = [reboot EXCEPT !.wrote = @ \/ s = "reboot"]
    BY <1>2 DEF WriteHeader
  <2>3. group' \in [overlap : BOOLEAN, edited : BOOLEAN, strayed : BOOLEAN]
    BY <1>0, <1>2 DEF WriteHeader
  <2>4. header' \in Header
    BY <1>0, <2>2, SaveFields
  <2>5. reboot' \in [begun : BOOLEAN, wrote : BOOLEAN, alone : BOOLEAN, reset : BOOLEAN]
    BY <1>0, <2>2
  <2>. QED
    BY <1>0, <1>b, <2>1, <2>2, <2>3, <2>4, <2>5, TypeFrom
<1>3. ASSUME NEW s \in Savers, WriteEntry(s) PROVE TypeInv'
  <2>1. save' \in [Savers -> Save] /\ \A u \in Savers : GoodSave(save'[u])
    BY <1>3, WriteEntryMakes, SavePut
  <2>2. /\ FileWrite(save[s].at, save[s].node, LenOf(save[s].node)) /\ save[s].node # NoNode
        /\ UNCHANGED <<tree, status, header, edits, saves, last, reboot>>
    BY <1>3 DEF WriteEntry
  <2>3. group' \in [overlap : BOOLEAN, edited : BOOLEAN, strayed : BOOLEAN]
    BY <1>0, <1>3 DEF WriteEntry
  <2>4. save[s].at \in Nat /\ save[s].node \in Entries /\ LenOf(save[s].node) \in Nat
    BY <2>2, WalkerAt
  <2>5. data' \in [0..(Capacity - 1) -> Cells]
    BY <2>2, <2>4, FileWritten
  <2>. QED
    BY <1>0, <2>1, <2>2, <2>3, <2>5, TypeFrom
<1>4. ASSUME NEW s \in Savers, WriteEntryShort(s) PROVE TypeInv'
  <2>1. save' \in [Savers -> Save] /\ \A u \in Savers : GoodSave(save'[u])
    BY <1>4, <1>a DEF WriteEntryShort
  <2>2. /\ save[s].node # NoNode
        /\ UNCHANGED <<tree, status, header, edits, saves, group, last, reboot>>
    BY <1>4 DEF WriteEntryShort
  <2>3. PICK n \in 0..(LenOf(save[s].node) - 1) : FileWrite(save[s].at, save[s].node, n)
    BY <1>4 DEF WriteEntryShort
  <2>4. save[s].at \in Nat /\ save[s].node \in Entries /\ LenOf(save[s].node) \in Nat
    BY <2>2, WalkerAt
  <2>5. n \in Nat /\ n <= LenOf(save[s].node)
    BY <2>4
  <2>6. data' \in [0..(Capacity - 1) -> Cells]
    BY <2>3, <2>4, <2>5, FileWritten
  <2>. QED
    BY <1>0, <2>1, <2>2, <2>6, TypeFrom
<1>5. ASSUME NEW s \in Savers, SetsDone(s) PROVE TypeInv'
  <2>1. save' \in [Savers -> Save] /\ \A u \in Savers : GoodSave(save'[u])
    BY <1>5, SetsDoneMakes, SavePut
  <2>2. UNCHANGED <<tree, status, header, data, edits, saves, group, last, reboot>>
    BY <1>5 DEF SetsDone
  <2>. QED
    BY <1>0, <2>1, <2>2, TypeFrom
<1>6. ASSUME NEW s \in Savers, ItemsDone(s) PROVE TypeInv'
  <2>1. save' \in [Savers -> Save] /\ \A u \in Savers : GoodSave(save'[u])
    BY <1>6, ItemsDoneMakes, SavePut
  <2>2. UNCHANGED <<tree, status, header, data, edits, saves, group, last, reboot>>
    BY <1>6 DEF ItemsDone
  <2>. QED
    BY <1>0, <2>1, <2>2, TypeFrom
<1>7. ASSUME NEW s \in Savers, Rewrite(s) PROVE TypeInv'
  <2>1. save' \in [Savers -> Save] /\ \A u \in Savers : GoodSave(save'[u])
    BY <1>7, <1>a DEF Rewrite
  <2>2. /\ header' = save[s].cfh
        /\ last' = [valid |-> TRUE, kept |-> save[s].kept, seen |-> save[s].seen]
        /\ UNCHANGED <<tree, status, data, edits, saves, group, reboot>>
    BY <1>7 DEF Rewrite
  <2>3. /\ header' \in Header
        /\ last' \in [valid : BOOLEAN, kept : SUBSET Entries, seen : SUBSET Entries]
    BY <1>0, <2>2, SaveFields
  <2>. QED
    BY <1>0, <2>1, <2>2, <2>3, TypeFrom
<1>8. ASSUME NEW s \in Savers, SaveFails(s) PROVE TypeInv'
  <2>1. save' \in [Savers -> Save] /\ \A u \in Savers : GoodSave(save'[u])
    BY <1>8, <1>a DEF SaveFails
  <2>2. UNCHANGED <<tree, status, header, data, edits, saves, group, last, reboot>>
    BY <1>8 DEF SaveFails
  <2>. QED
    BY <1>0, <2>1, <2>2, TypeFrom
<1>9. ASSUME Edit PROVE TypeInv'
  <2>1. UNCHANGED <<status, header, data, saves, last, reboot>>
    BY <1>9 DEF Edit
  <2>2. edits' \in 0..MaxEdits
    <3>1. edits < MaxEdits /\ edits' = edits + 1
      BY <1>9 DEF Edit
    <3>. QED
      BY <1>0, <3>1, ConfigAssumption
  <2>3. group' \in [overlap : BOOLEAN, edited : BOOLEAN, strayed : BOOLEAN]
    BY <1>0, <1>9 DEF Edit
  <2>. QED
    BY <1>0, <1>9, <2>1, <2>2, <2>3, EditMakes, TypeFrom
<1>10. ASSUME ResetShutdownStatus PROVE TypeInv'
  <2>1. UNCHANGED <<tree, header, data, save, edits, saves, group, last>> /\ status' \in Status
    BY <1>10 DEF ResetShutdownStatus, Status
  <2>2. reboot' \in [begun : BOOLEAN, wrote : BOOLEAN, alone : BOOLEAN, reset : BOOLEAN]
    BY <1>0, <1>10 DEF ResetShutdownStatus
  <2>. QED
    BY <1>0, <2>1, <2>2, TypeFrom
<1>11. ASSUME MyReboot PROVE TypeInv'
  <2>1. /\ SaveStarts("reboot", "systemshutdown") /\ status' = "systemshutdown"
        /\ UNCHANGED <<tree, header, data, edits, group, last>>
    BY <1>11 DEF MyReboot, RebootBegins
  <2>2. "systemshutdown" \in Status /\ "reboot" \in Savers
    BY DEF Status, Savers
  <2>3. saves' \in 0..MaxSaves /\ save' \in [Savers -> Save] /\ \A u \in Savers : GoodSave(save'[u])
    BY <2>1, <2>2, StartsMakes, SavePut
  <2>4. reboot' \in [begun : BOOLEAN, wrote : BOOLEAN, alone : BOOLEAN, reset : BOOLEAN]
    BY <1>11 DEF MyReboot, RebootBegins
  <2>. QED
    BY <1>0, <2>1, <2>2, <2>3, <2>4, TypeFrom
<1>12. ASSUME LoadConfig PROVE TypeInv'
  <2>1. /\ tree' = Loaded /\ status' = header.status /\ save' = [s \in Savers |-> Idle]
        /\ reboot' = NoReboot /\ UNCHANGED <<header, data, edits, saves, group, last>>
    BY <1>12 DEF LoadConfig
  <2>2. save' \in [Savers -> Save] /\ \A u \in Savers : GoodSave(save'[u])
    BY <2>1, IdleGood DEF GoodSave
  <2>3. tree' \in SUBSET Entries
    BY <2>1 DEF Loaded, LoadedSets, LoadedItems, Entries
  <2>4. status' \in Status
    BY <1>0, <2>1, HeaderFields
  <2>5. reboot' \in [begun : BOOLEAN, wrote : BOOLEAN, alone : BOOLEAN, reset : BOOLEAN]
    BY <2>1 DEF NoReboot
  <2>. QED
    BY <1>0, <2>1, <2>2, <2>3, <2>4, <2>5, TypeFrom
<1>13. CASE UNCHANGED vars
  <2>1. UNCHANGED <<tree, status, header, data, save, edits, saves, group, last, reboot>>
    BY <1>13 DEF vars
  <2>. QED
    BY <1>0, <2>1, TypeFrom
<1>. QED
  BY <1>1, <1>2, <1>3, <1>4, <1>5, <1>6, <1>7, <1>8, <1>9, <1>10, <1>11, <1>12, <1>13 DEF Next

(* TypeOK of ConfigFile: the walk of a save stays in its own tree, and what it *)
(* writes ends within the room there is for all entries: the offset counts    *)
(* the entries behind it, and those still ahead have their room too.          *)
THEOREM ConfigTypeCorrect == Spec => []TypeOK
<1>1. Spec => []TypeInv
  BY TypeInit, TypeStep, PTL DEF Spec
<1>2. TypeInv => TypeOK
  BY DEF TypeInv
<1>. QED
  BY <1>1, <1>2, PTL

-----------------------------------------------------------------------------
(* The shutdown in the file *)

(* The notifier has run, no save from before it is still under way, and no     *)
(* command has reset the status.                                             *)
ShutDown == reboot.begun /\ reboot.alone /\ ~reboot.reset

(* Then every header still to be written, and the next to be made, says so.   *)
ShutdownInv ==
  /\ reboot.alone => reboot.begun
  /\ ShutDown =>
       /\ status = "systemshutdown"
       /\ \A s \in Savers : save[s].pc # "idle" => save[s].cfh.status = "systemshutdown"
       /\ reboot.wrote => header.status = "systemshutdown"

LEMMA ShutdownInit == Init => ShutdownInv
BY DEF Init, NoReboot, ShutdownInv, ShutDown

(* A step that stays within the saves under way, whose statuses do not change. *)
LEMMA ShutdownKept ==
  ASSUME TypeInv, ShutdownInv, UNCHANGED <<status, reboot>>, header'.status = header.status,
         \A u \in Savers : save'[u].pc # "idle" =>
           save[u].pc # "idle" /\ save'[u].cfh.status = save[u].cfh.status
  PROVE  ShutdownInv'
BY DEF ShutdownInv, ShutDown

LEMMA ShutdownStep == TypeInv /\ ShutdownInv /\ [Next]_vars => ShutdownInv'
<1>. SUFFICES ASSUME TypeInv, ShutdownInv, [Next]_vars PROVE ShutdownInv'
  OBVIOUS
<1>. USE DEF memory, file, counts
<1>0. save \in [Savers -> Save] /\ status \in Status /\ Idle.pc = "idle"
      /\ reboot \in [begun : BOOLEAN, wrote : BOOLEAN, alone : BOOLEAN, reset : BOOLEAN]
  BY DEF TypeInv, TypeOK, Idle
<1>a. ASSUME NEW s \in Savers, Stop(s)
      PROVE  \A u \in Savers : save'[u].pc # "idle" =>
               save[u].pc # "idle" /\ save'[u].cfh.status = save[u].cfh.status
  <2>1. save'[s] = Idle /\ \A u \in Savers \ {s} : save'[u] = save[u]
    BY <1>0, <1>a DEF Stop
  <2>. QED
    BY <1>0, <2>1
<1>1. ASSUME NEW s \in Savers, SaveConfig(s) PROVE ShutdownInv'
  <2>1. SaveStarts(s, status) /\ UNCHANGED <<status, header, reboot>>
    BY <1>1 DEF SaveConfig
  <2>2. PICK v : /\ GoodSave(v) /\ save' = [save EXCEPT ![s] = v]
                 /\ v.cfh = [NoHeader EXCEPT !.status = status]
    BY <1>0, <2>1, StartsMakes
  <2>3. v.cfh.status = status
    BY <2>2 DEF NoHeader
  <2>4. save'[s] = v /\ \A u \in Savers \ {s} : save'[u] = save[u]
    BY <2>2, SavePut
  <2>. QED
    BY <2>1, <2>3, <2>4 DEF ShutdownInv, ShutDown
<1>2. ASSUME NEW s \in Savers, WriteHeader(s) PROVE ShutdownInv'
  <2>1. PICK v : /\ GoodSave(v) /\ save' = [save EXCEPT ![s] = v] /\ v.cfh = save[s].cfh
    BY <1>2, WriteHeaderMakes
  <2>2. save'[s] = v /\ \A u \in Savers \ {s} : save'[u] = save[u]
    BY <2>1, SavePut
  <2>3. /\ header' = save[s].cfh /\ save[s].pc = "header" /\ UNCHANGED status
        /\ reboot' = [reboot EXCEPT !.wrote = @ \/ s = "reboot"]
    BY <1>2 DEF WriteHeader
  <2>4. /\ reboot'.begun = reboot.begun /\ reboot'.alone = reboot.alone /\ reboot'.reset = reboot.reset
        /\ reboot'.wrote = (reboot.wrote \/ s = "reboot")
    BY <1>0, <2>3
  <2>. QED
    BY <2>1, <2>2, <2>3, <2>4 DEF ShutdownInv, ShutDown
<1>3. ASSUME NEW s \in Savers, WriteEntry(s) PROVE ShutdownInv'
  <2>1. PICK v : /\ GoodSave(v) /\ save' = [save EXCEPT ![s] = v] /\ v.cfh = save[s].cfh
    BY <1>3, WriteEntryMakes
  <2>2. save'[s] = v /\ \A u \in Savers \ {s} : save'[u] = save[u]
    BY <2>1, SavePut
  <2>3. UNCHANGED <<status, header, reboot>> /\ save[s].pc # "idle"
    BY <1>3 DEF WriteEntry
  <2>. QED
    BY <2>1, <2>2, <2>3, ShutdownKept
<1>4. ASSUME NEW s \in Savers, WriteEntryShort(s) PROVE ShutdownInv'
  <2>1. Stop(s) /\ UNCHANGED <<status, header, reboot>>
    BY <1>4 DEF WriteEntryShort
  <2>. QED
    BY <1>a, <2>1, ShutdownKept
<1>5. ASSUME NEW s \in Savers, SetsDone(s) \/ ItemsDone(s) PROVE ShutdownInv'
  <2>1. PICK v : GoodSave(v) /\ save' = [save EXCEPT ![s] = v] /\ v.cfh.status = save[s].cfh.status
    BY <1>5, SetsDoneMakes, ItemsDoneMakes
  <2>2. save'[s] = v /\ \A u \in Savers \ {s} : save'[u] = save[u]
    BY <2>1, SavePut
  <2>3. UNCHANGED <<status, header, reboot>> /\ save[s].pc # "idle"
    BY <1>5 DEF SetsDone, ItemsDone
  <2>. QED
    BY <2>1, <2>2, <2>3, ShutdownKept
<1>6. ASSUME NEW s \in Savers, Rewrite(s) PROVE ShutdownInv'
  <2>1. Stop(s) /\ UNCHANGED <<status, reboot>> /\ header' = save[s].cfh /\ save[s].pc = "rewrite"
    BY <1>6 DEF Rewrite
  <2>. QED
    BY <1>a, <2>1 DEF ShutdownInv, ShutDown
<1>7. ASSUME NEW s \in Savers, SaveFails(s) PROVE ShutdownInv'
  <2>1. Stop(s) /\ UNCHANGED <<status, header, reboot>>
    BY <1>7 DEF SaveFails
  <2>. QED
    BY <1>a, <2>1, ShutdownKept
<1>8. ASSUME Edit PROVE ShutdownInv'
  <2>1. UNCHANGED <<status, header, reboot>>
    BY <1>8 DEF Edit
  <2>. QED
    BY <1>8, <2>1, EditMakes, ShutdownKept
<1>9. ASSUME ResetShutdownStatus PROVE ShutdownInv'
  <2>1. reboot' = [reboot EXCEPT !.reset = reboot.begun]
    BY <1>9 DEF ResetShutdownStatus
  <2>2. reboot'.begun = reboot.begun /\ reboot'.alone = reboot.alone /\ reboot'.reset = reboot.begun
    BY <1>0, <2>1
  <2>. QED
    BY <2>2 DEF ShutdownInv, ShutDown
<1>10. ASSUME MyReboot PROVE ShutdownInv'
  <2>1. /\ SaveStarts("reboot", "systemshutdown") /\ status' = "systemshutdown"
        /\ reboot' = [begun |-> TRUE, wrote |-> FALSE, reset |-> FALSE,
                      alone |-> \A o \in Others("reboot") : save[o].pc = "idle"]
    BY <1>10 DEF MyReboot, RebootBegins
  <2>2. "systemshutdown" \in Status /\ "reboot" \in Savers
    BY DEF Status, Savers
  <2>3. PICK v : /\ GoodSave(v) /\ save' = [save EXCEPT !["reboot"] = v]
                 /\ v.cfh = [NoHeader EXCEPT !.status = "systemshutdown"]
    BY <2>1, <2>2, StartsMakes
  <2>4. v.cfh.status = "systemshutdown"
    BY <2>3 DEF NoHeader
  <2>5. save'["reboot"] = v /\ \A u \in Savers \ {"reboot"} : save'[u] = save[u]
    BY <2>2, <2>3, SavePut
  <2>6. /\ reboot'.begun = TRUE /\ reboot'.wrote = FALSE
        /\ reboot'.alone = \A o \in Others("reboot") : save[o].pc = "idle"
    BY <2>1
  <2>. QED
    BY <2>1, <2>4, <2>5, <2>6 DEF ShutdownInv, ShutDown, Others
<1>11. ASSUME LoadConfig PROVE ShutdownInv'
  <2>1. reboot' = NoReboot
    BY <1>11 DEF LoadConfig
  <2>. QED
    BY <2>1 DEF NoReboot, ShutdownInv, ShutDown
<1>12. CASE UNCHANGED vars
  <2>1. UNCHANGED <<status, header, save, reboot>>
    BY <1>12 DEF vars
  <2>. QED
    BY <2>1, ShutdownKept
<1>. QED
  BY <1>1, <1>2, <1>3, <1>4, <1>5, <1>6, <1>7, <1>8, <1>9, <1>10, <1>11, <1>12 DEF Next

(* CleanShutdownRecorded of ConfigFile: once the notifier has written a       *)
(* header, each save after it, whichever caller makes it and wherever it      *)
(* fails, leaves the shutdown in the file (module.c:53-54): the header copies *)
(* of all saves under way were taken from a status that already said so.      *)
THEOREM ShutdownStaysRecorded == Spec => []CleanShutdownRecorded
<1>1. TypeInv /\ ShutdownInv => CleanShutdownRecorded
  BY DEF TypeInv, TypeOK, ShutdownInv, ShutDown, CleanShutdownRecorded
<1>. QED
  BY <1>1, TypeInit, TypeStep, ShutdownInit, ShutdownStep, PTL DEF Spec

-----------------------------------------------------------------------------
(* The cells of the file *)

(* The file after n cells of e were written at an offset. *)
Written(d, at, e, n) == [i \in DOMAIN d |-> IF i >= at /\ i < at + n THEN <<e, i - at>> ELSE d[i]]

Data == [0..(Capacity - 1) -> Cells]

LEMMA EntryLen ==
  /\ \A e \in Sets : LenOf(e) = SetLen /\ e \in Entries
  /\ \A e \in Items : LenOf(e) = ItemLen /\ e \in Entries /\ e \notin Sets
  /\ \A e \in Entries : LenOf(e) \in Nat \ {0}
BY Sizing DEF LenOf, Entries

LEMMA WrittenCells ==
  ASSUME NEW d \in Data, NEW at \in Nat, NEW e \in Entries, NEW n \in Nat
  PROVE  /\ DOMAIN d = 0..(Capacity - 1) /\ DOMAIN Written(d, at, e, n) = 0..(Capacity - 1)
         /\ \A i \in 0..(Capacity - 1) : i < at \/ i >= at + n => Written(d, at, e, n)[i] = d[i]
         /\ \A i \in 0..(Capacity - 1) : i >= at /\ i < at + n => Written(d, at, e, n)[i] = <<e, i - at>>
<1>1. DOMAIN d = 0..(Capacity - 1)
  BY DEF Data
<1>2. \A i \in 0..(Capacity - 1) : i < at \/ i >= at + n => ~(i >= at /\ i < at + n)
  BY Sizing
<1>. QED
  BY <1>1, <1>2 DEF Written

(* An entry that lies elsewhere stays. *)
LEMMA HoldsElsewhere ==
  ASSUME NEW d \in Data, NEW at \in Nat, NEW e \in Entries, NEW n \in Nat, n <= LenOf(e),
         NEW x \in Entries, NEW p \in Nat, p + LenOf(x) <= at \/ at + LenOf(e) <= p,
         Holds(d, p, x)
  PROVE  Holds(Written(d, at, e, n), p, x)
<1>1. LenOf(x) \in Nat /\ LenOf(e) \in Nat
  BY EntryLen
<1>2. ASSUME NEW k \in 0..(LenOf(x) - 1)
      PROVE  p + k \in DOMAIN Written(d, at, e, n) /\ Written(d, at, e, n)[p + k] = <<x, k>>
  <2>1. p + k \in DOMAIN d /\ d[p + k] = <<x, k>>
    BY <1>2 DEF Holds
  <2>2. p + k < at \/ p + k >= at + n
    BY <1>1
  <2>3. p + k \in 0..(Capacity - 1)
    BY <2>1, WrittenCells
  <2>4. Written(d, at, e, n)[p + k] = d[p + k]
    BY <2>2, <2>3, WrittenCells
  <2>. QED
    BY <2>1, <2>3, <2>4, WrittenCells
<1>. QED
  BY <1>2 DEF Holds

(* So does the entry that is written again, whole or in part. *)
LEMMA HoldsAgain ==
  ASSUME NEW d \in Data, NEW at \in Nat, NEW e \in Entries, NEW n \in Nat, Holds(d, at, e)
  PROVE  Holds(Written(d, at, e, n), at, e)
<1>. SUFFICES ASSUME NEW k \in 0..(LenOf(e) - 1)
              PROVE  at + k \in DOMAIN Written(d, at, e, n) /\ Written(d, at, e, n)[at + k] = <<e, k>>
  BY DEF Holds
<1>1. at + k \in DOMAIN d /\ d[at + k] = <<e, k>>
  BY DEF Holds
<1>2. at + k >= at /\ (at + k) - at = k /\ k \in Nat
  BY EntryLen
<1>3. at + k \in 0..(Capacity - 1)
  BY <1>1, WrittenCells
<1>4. Written(d, at, e, n)[at + k] \in {d[at + k], <<e, (at + k) - at>>}
  <2>1. DOMAIN d = 0..(Capacity - 1)
    BY WrittenCells
  <2>. QED
    BY <1>3, <2>1 DEF Written
<1>. QED
  BY <1>1, <1>2, <1>3, <1>4, WrittenCells

LEMMA HoldsWritten ==
  ASSUME NEW d \in Data, NEW at \in Nat, NEW e \in Entries, at + LenOf(e) <= Capacity
  PROVE  Holds(Written(d, at, e, LenOf(e)), at, e)
<1>. SUFFICES ASSUME NEW k \in 0..(LenOf(e) - 1)
              PROVE  /\ at + k \in DOMAIN Written(d, at, e, LenOf(e))
                     /\ Written(d, at, e, LenOf(e))[at + k] = <<e, k>>
  BY DEF Holds
<1>1. LenOf(e) \in Nat /\ Capacity \in Nat
  BY EntryLen, Sizing
<1>2. /\ at + k \in 0..(Capacity - 1) /\ at + k >= at /\ at + k < at + LenOf(e)
      /\ (at + k) - at = k
  BY <1>1
<1>. DEFINE i == at + k
<1>3. /\ i \in 0..(Capacity - 1) /\ i >= at /\ i < at + LenOf(e) /\ i - at = k
  BY <1>2
<1>. HIDE DEF i
<1>4. i \in DOMAIN d
  BY <1>3 DEF Data
<1>5. /\ i \in DOMAIN Written(d, at, e, LenOf(e))
      /\ Written(d, at, e, LenOf(e))[i] = <<e, k>>
  BY <1>3, <1>4 DEF Written
<1>. QED
  BY <1>5 DEF i

(* Bytes are of one entry. *)
LEMMA HoldsOne ==
  ASSUME NEW d, NEW p \in Nat, NEW x \in Entries, NEW y \in Entries, Holds(d, p, x), Holds(d, p, y)
  PROVE  x = y
<1>1. 0 \in 0..(LenOf(x) - 1) /\ 0 \in 0..(LenOf(y) - 1)
  BY EntryLen
<1>2. d[p + 0] = <<x, 0>> /\ d[p + 0] = <<y, 0>>
  BY <1>1 DEF Holds
<1>. QED
  BY <1>2

-----------------------------------------------------------------------------
(* Entries of one length, one behind the other *)

LEMMA Slots ==
  ASSUME NEW len \in Nat \ {0}, NEW i \in Nat, NEW n \in Nat, i < n
  PROVE  len * i \in Nat /\ len * n \in Nat /\ len * i + len <= len * n /\ len * (i + 1) = len * i + len
<1>1. i + 1 \in Nat /\ i + 1 <= n
  OBVIOUS
<1>. QED
  BY <1>1, Times

(* n entries from an offset on: all of those that must be there, and none but *)
(* those that may.                                                           *)
Row(d, from, len, n, must, may) ==
  /\ \A i \in 0..(n - 1) : \E e \in may : Holds(d, from + len * i, e)
  /\ \A e \in must : \E i \in 0..(n - 1) : Holds(d, from + len * i, e)

LEMMA RowEmpty ==
  ASSUME NEW d, NEW from, NEW len, NEW may
  PROVE  Row(d, from, len, 0, {}, may)
BY DEF Row

LEMMA RowEases ==
  ASSUME NEW d, NEW from, NEW len, NEW n, NEW must, NEW may, Row(d, from, len, n, must, may),
         NEW must2 \in SUBSET must, NEW may2, may \subseteq may2
  PROVE  Row(d, from, len, n, must2, may2)
BY DEF Row

(* Writing behind a row does not touch it. *)
LEMMA RowStays ==
  ASSUME NEW d \in Data, NEW at \in Nat, NEW e \in Entries, NEW m \in Nat, m <= LenOf(e),
         NEW from \in Nat, NEW len \in Nat \ {0}, NEW n \in Nat, from + len * n <= at,
         NEW may \in SUBSET Entries, \A x \in may : LenOf(x) = len,
         NEW must \in SUBSET may, Row(d, from, len, n, must, may)
  PROVE  Row(Written(d, at, e, m), from, len, n, must, may)
<1>1. ASSUME NEW i \in 0..(n - 1), NEW x \in may, Holds(d, from + len * i, x)
      PROVE  Holds(Written(d, at, e, m), from + len * i, x)
  <2>1. len * i \in Nat /\ len * n \in Nat /\ len * i + len <= len * n
    BY Slots
  <2>2. from + len * i \in Nat /\ (from + len * i) + LenOf(x) <= at
    BY <2>1
  <2>. QED
    BY <1>1, <2>2, HoldsElsewhere
<1>. QED
  BY <1>1 DEF Row

(* Writing an entry at the end of a row adds it. *)
LEMMA RowGrows ==
  ASSUME NEW d \in Data, NEW e \in Entries, NEW from \in Nat, NEW len \in Nat \ {0}, NEW n \in Nat,
         NEW at \in Nat, at = from + len * n, LenOf(e) = len, at + len <= Capacity,
         NEW may \in SUBSET Entries, \A x \in may : LenOf(x) = len, e \in may,
         NEW must \in SUBSET may, Row(d, from, len, n, must, may)
  PROVE  Row(Written(d, at, e, len), from, len, n + 1, must \cup {e}, may)
<1>. DEFINE dd == Written(d, at, e, len)
<1>1. Row(dd, from, len, n, must, may)
  BY RowStays
<1>2. Holds(dd, from + len * n, e)
  BY HoldsWritten
<1>. HIDE DEF dd
<1>3. \A i \in 0..((n + 1) - 1) : i \in 0..(n - 1) \/ i = n
  OBVIOUS
<1>4. n \in 0..((n + 1) - 1) /\ \A i \in 0..(n - 1) : i \in 0..((n + 1) - 1)
  OBVIOUS
<1>5. ASSUME NEW i \in 0..((n + 1) - 1) PROVE \E x \in may : Holds(dd, from + len * i, x)
  BY <1>1, <1>2, <1>3 DEF Row
<1>6. ASSUME NEW x \in must \cup {e} PROVE \E i \in 0..((n + 1) - 1) : Holds(dd, from + len * i, x)
  BY <1>1, <1>2, <1>4 DEF Row
<1>7. Row(dd, from, len, n + 1, must \cup {e}, may)
  BY <1>5, <1>6 DEF Row
<1>. QED
  BY <1>7 DEF dd

-----------------------------------------------------------------------------
(* Entries of a tree, in their order *)

(* The entries behind a walk that is about to write n. *)
Before(S, n) == {e \in S : n = NoNode \/ e < n}

LEMMA BeforeFinite ==
  ASSUME NEW S \in SUBSET (Nat \ {NoNode}), IsFiniteSet(S)
  PROVE  /\ Cardinality(S) \in Nat
         /\ \A n : /\ Before(S, n) \in SUBSET S /\ IsFiniteSet(Before(S, n))
                   /\ Cardinality(Before(S, n)) \in Nat
                   /\ Cardinality(Before(S, n)) <= Cardinality(S)
<1>1. \A n : Before(S, n) \in SUBSET S
  BY DEF Before
<1>. QED
  BY <1>1, FS_Subset, FS_CardinalityType

LEMMA BeforeEnds ==
  ASSUME NEW S \in SUBSET (Nat \ {NoNode})
  PROVE  Before(S, NoNode) = S /\ Before(S, First(S)) = {}
<1>1. Before(S, NoNode) = S
  BY DEF Before
<1>2. Before(S, First(S)) = {}
  <2>1. CASE S = {}
    BY <2>1 DEF Before
  <2>2. CASE S # {}
    <3>1. First(S) \in S /\ First(S) # NoNode /\ \A y \in S : First(S) <= y
      BY <2>2, FirstIsLeast
    <3>2. \A y \in S : ~(y < First(S))
      <4>1. First(S) \in Nat /\ \A y \in S : y \in Nat
        BY <3>1
      <4>. QED
        BY <3>1, <4>1
    <3>. QED
      BY <3>1, <3>2 DEF Before
  <2>. QED
    BY <2>1, <2>2
<1>. QED
  BY <1>1, <1>2

(* What is behind a later entry includes an earlier one. *)
LEMMA BeforeGrows ==
  ASSUME NEW S \in SUBSET (Nat \ {NoNode}), IsFiniteSet(S), NEW x \in S,
         NEW n, n = NoNode \/ (n \in Nat /\ x < n)
  PROVE  Cardinality(Before(S, x)) + 1 <= Cardinality(Before(S, n))
<1>1. x \in Nat /\ x # NoNode
  OBVIOUS
<1>2. x \notin Before(S, x) /\ Before(S, x) = {e \in S : e < x}
  BY <1>1 DEF Before
<1>3. Before(S, x) \cup {x} \in SUBSET Before(S, n)
  <2>1. CASE n = NoNode
    BY <1>2, <2>1 DEF Before
  <2>2. CASE n # NoNode /\ n \in Nat /\ x < n
    <3>1. \A e \in S : e < x => e < n
      BY <1>1, <2>2
    <3>. QED
      BY <1>2, <2>2, <3>1 DEF Before
  <2>. QED
    BY <2>1, <2>2
<1>4. /\ IsFiniteSet(Before(S, x)) /\ IsFiniteSet(Before(S, n))
      /\ Cardinality(Before(S, x)) \in Nat /\ Cardinality(Before(S, n)) \in Nat
  BY BeforeFinite
<1>5. /\ IsFiniteSet(Before(S, x) \cup {x})
      /\ Cardinality(Before(S, x) \cup {x}) = Cardinality(Before(S, x)) + 1
  BY <1>2, <1>4, FS_AddElement
<1>6. Cardinality(Before(S, x) \cup {x}) <= Cardinality(Before(S, n))
  BY <1>3, <1>4, FS_Subset
<1>. QED
  BY <1>5, <1>6

(* The step of a walk from an entry that is still there puts just that one    *)
(* behind it.                                                                *)
LEMMA BeforeNext ==
  ASSUME NEW S \in SUBSET (Nat \ {NoNode}), NEW e \in S, NEW n \in RbNext(S, e)
  PROVE  n \in S \cup {NoNode} /\ Before(S, n) = Before(S, e) \cup {e}
<1>1. e \in Nat /\ e # NoNode
  OBVIOUS
<1>2. /\ n # NoNode => n \in S /\ n > e
      /\ \A y \in S : y > e => n # NoNode /\ n <= y
  BY <1>1, RbNextIsLater
<1>3. n \in S \cup {NoNode}
  <2>1. n \in {First(Later(S, e))}
    BY DEF RbNext
  <2>2. Later(S, e) \in SUBSET (Nat \ {NoNode}) /\ Later(S, e) \subseteq S
    BY DEF Later
  <2>. QED
    BY <2>1, <2>2, FirstIsLeast
<1>4. ASSUME NEW x \in S PROVE (n = NoNode \/ x < n) <=> (e = NoNode \/ x < e) \/ x = e
  <2>1. x \in Nat /\ (n # NoNode => n \in Nat)
    BY <1>3
  <2>2. CASE x > e
    <3>1. n # NoNode /\ n <= x
      BY <1>2, <2>2
    <3>. QED
      BY <1>1, <2>1, <2>2, <3>1
  <2>3. CASE x <= e
    BY <1>1, <1>2, <2>1, <2>3
  <2>. QED
    BY <1>1, <2>1, <2>2, <2>3
<1>. QED
  BY <1>3, <1>4 DEF Before

LEMMA CountNext ==
  ASSUME NEW S \in SUBSET (Nat \ {NoNode}), IsFiniteSet(S), NEW e \in S, NEW n \in RbNext(S, e)
  PROVE  Cardinality(Before(S, n)) = Cardinality(Before(S, e)) + 1
<1>1. e \notin Before(S, e)
  BY DEF Before
<1>2. IsFiniteSet(Before(S, e))
  BY BeforeFinite
<1>3. Cardinality(Before(S, e) \cup {e}) = Cardinality(Before(S, e)) + 1
  BY <1>1, <1>2, FS_AddElement
<1>. QED
  BY <1>3, BeforeNext

(* Each number below the size of a tree is the rank of an entry. *)
LEMMA Ranks ==
  ASSUME NEW S \in SUBSET (Nat \ {NoNode}), IsFiniteSet(S), NEW i \in Nat, i < Cardinality(S)
  PROVE  \E e \in S : Cardinality(Before(S, e)) = i
<1>. DEFINE Bad == {j \in Nat : j < Cardinality(S) /\ \A e \in S : Cardinality(Before(S, e)) # j}
<1>. SUFFICES ASSUME Bad # {} PROVE FALSE
  OBVIOUS
<1>1. PICK j \in Bad : \A y \in Bad : ~(<<y, j>> \in Below)
  <2>1. Bad \in SUBSET Nat
    OBVIOUS
  <2>. HIDE DEF Bad
  <2>. QED
    BY <2>1, BelowWellFounded, WFMin
<1>2. j \in Nat /\ j < Cardinality(S) /\ \A e \in S : Cardinality(Before(S, e)) # j
  OBVIOUS
<1>3. S # {} /\ Cardinality(S) \in Nat
  BY <1>2, FS_EmptySet, BeforeFinite
<1>4. CASE j = 0
  <2>1. First(S) \in S /\ Before(S, First(S)) = {}
    BY <1>3, FirstIsLeast, BeforeEnds
  <2>. QED
    BY <1>2, <1>4, <2>1, FS_EmptySet
<1>5. CASE j # 0
  <2>1. j - 1 \in Nat /\ j - 1 < j /\ j - 1 < Cardinality(S)
    BY <1>2, <1>3, <1>5
  <2>2. PICK e \in S : Cardinality(Before(S, e)) = j - 1
    <3>1. <<j - 1, j>> \in Below
      BY <1>2, <2>1 DEF Below
    <3>2. j - 1 \notin Bad
      BY <1>1, <3>1
    <3>. QED
      BY <2>1, <3>2
  <2>. DEFINE n == First(Later(S, e))
  <2>3. n \in RbNext(S, e)
    BY DEF RbNext
  <2>4. Cardinality(Before(S, n)) = j /\ n \in S \cup {NoNode}
    BY <1>2, <2>2, <2>3, BeforeNext, CountNext
  <2>5. n # NoNode
    BY <1>2, <1>3, <2>4, BeforeEnds
  <2>. QED
    BY <1>2, <2>4, <2>5
<1>. QED
  BY <1>4, <1>5

-----------------------------------------------------------------------------
(* The layout of a tree that does not change *)

SetsEnd(T)  == SetLen * Cardinality(T \cap Sets)
ItemsEnd(T) == ItemLen * Cardinality(T \cap Items)

(* Where SaveConfig puts an entry. *)
SetPlace(T, n)  == SetLen * Cardinality(Before(T \cap Sets, n))
ItemPlace(T, n) == SetsEnd(T) + ItemLen * Cardinality(Before(T \cap Items, n))
Place(T, e) == IF e \in Sets THEN SetPlace(T, e) ELSE ItemPlace(T, e)

Held(d, T, X) == \A e \in X : Holds(d, Place(T, e), e)

LEMMA TreeParts ==
  ASSUME NEW T \in SUBSET Entries
  PROVE  /\ T \cap Sets \in SUBSET (Nat \ {NoNode}) /\ IsFiniteSet(T \cap Sets)
         /\ T \cap Items \in SUBSET (Nat \ {NoNode}) /\ IsFiniteSet(T \cap Items)
         /\ T = (T \cap Sets) \cup (T \cap Items)
         /\ Cardinality(T \cap Sets) \in Nat /\ Cardinality(T \cap Sets) <= Cardinality(Sets)
         /\ Cardinality(T \cap Items) \in Nat /\ Cardinality(T \cap Items) <= Cardinality(Items)
<1>1. T \cap Sets \in SUBSET Sets /\ T \cap Items \in SUBSET Items
  OBVIOUS
<1>2. /\ IsFiniteSet(T \cap Sets) /\ IsFiniteSet(T \cap Items)
      /\ Cardinality(T \cap Sets) <= Cardinality(Sets) /\ Cardinality(T \cap Items) <= Cardinality(Items)
  BY <1>1, Sizing, FS_Subset
<1>3. Cardinality(T \cap Sets) \in Nat /\ Cardinality(T \cap Items) \in Nat
  BY <1>2, FS_CardinalityType
<1>4. T = (T \cap Sets) \cup (T \cap Items)
  BY DEF Entries
<1>. QED
  BY <1>1, <1>2, <1>3, <1>4, Sizing

LEMMA Ends ==
  ASSUME NEW T \in SUBSET Entries
  PROVE  /\ SetsEnd(T) \in Nat /\ ItemsEnd(T) \in Nat /\ SetsEnd(T) + ItemsEnd(T) <= Capacity
         /\ SetPlace(T, NoNode) = SetsEnd(T) /\ ItemPlace(T, NoNode) = SetsEnd(T) + ItemsEnd(T)
         /\ SetPlace(T, First(T \cap Sets)) = 0 /\ ItemPlace(T, First(T \cap Items)) = SetsEnd(T)
<1>1. SetsEnd(T) \in Nat /\ ItemsEnd(T) \in Nat
  BY TreeParts, Sizing, Times DEF SetsEnd, ItemsEnd
<1>2. /\ SetsEnd(T) <= SetLen * Cardinality(Sets)
      /\ ItemsEnd(T) <= ItemLen * Cardinality(Items)
  BY TreeParts, Sizing, Times DEF SetsEnd, ItemsEnd
<1>3. SetsEnd(T) + ItemsEnd(T) <= Capacity
  BY <1>1, <1>2, Sizing
<1>4. SetPlace(T, NoNode) = SetsEnd(T) /\ ItemPlace(T, NoNode) = SetsEnd(T) + ItemsEnd(T)
  BY TreeParts, BeforeEnds DEF SetPlace, ItemPlace, SetsEnd, ItemsEnd
<1>5. SetLen * 0 = 0 /\ ItemLen * 0 = 0 /\ Cardinality({}) = 0
  BY Sizing, FS_EmptySet
<1>6. SetPlace(T, First(T \cap Sets)) = 0
  BY <1>5, TreeParts, BeforeEnds DEF SetPlace
<1>7. ItemPlace(T, First(T \cap Items)) = SetsEnd(T)
  <2>1. Before(T \cap Items, First(T \cap Items)) = {}
    BY TreeParts, BeforeEnds
  <2>2. ItemLen * Cardinality(Before(T \cap Items, First(T \cap Items))) = 0
    BY <1>5, <2>1
  <2>3. SetsEnd(T) + 0 = SetsEnd(T)
    BY <1>1
  <2>. QED
    BY <2>2, <2>3 DEF ItemPlace
<1>. QED
  BY <1>1, <1>3, <1>4, <1>6, <1>7

(* A place ends before the next one begins. *)
LEMMA PlacesInOrder ==
  ASSUME NEW T \in SUBSET Entries
  PROVE  /\ \A e \in T \cap Sets : \A n : n = NoNode \/ (n \in Nat /\ e < n) =>
              SetPlace(T, e) \in Nat /\ SetPlace(T, n) \in Nat /\ SetPlace(T, e) + SetLen <= SetPlace(T, n)
         /\ \A e \in T \cap Items : \A n : n = NoNode \/ (n \in Nat /\ e < n) =>
              ItemPlace(T, e) \in Nat /\ ItemPlace(T, n) \in Nat /\ ItemPlace(T, e) + ItemLen <= ItemPlace(T, n)
<1>1. ASSUME NEW S \in SUBSET (Nat \ {NoNode}), IsFiniteSet(S), NEW len \in Nat \ {0}, NEW e \in S,
             NEW n, n = NoNode \/ (n \in Nat /\ e < n)
      PROVE  /\ len * Cardinality(Before(S, e)) \in Nat /\ len * Cardinality(Before(S, n)) \in Nat
             /\ len * Cardinality(Before(S, e)) + len <= len * Cardinality(Before(S, n))
  <2>1. /\ Cardinality(Before(S, e)) \in Nat /\ Cardinality(Before(S, n)) \in Nat
        /\ Cardinality(Before(S, e)) + 1 <= Cardinality(Before(S, n))
    BY <1>1, BeforeFinite, BeforeGrows
  <2>2. Cardinality(Before(S, e)) < Cardinality(Before(S, n))
    BY <2>1
  <2>. QED
    BY <2>1, <2>2, Slots
<1>2. SetsEnd(T) \in Nat
  BY Ends
<1>3. ASSUME NEW e \in T \cap Sets, NEW n, n = NoNode \/ (n \in Nat /\ e < n)
      PROVE  SetPlace(T, e) \in Nat /\ SetPlace(T, n) \in Nat /\ SetPlace(T, e) + SetLen <= SetPlace(T, n)
  BY <1>1, <1>3, TreeParts, Sizing DEF SetPlace
<1>4. ASSUME NEW e \in T \cap Items, NEW n, n = NoNode \/ (n \in Nat /\ e < n)
      PROVE  ItemPlace(T, e) \in Nat /\ ItemPlace(T, n) \in Nat /\ ItemPlace(T, e) + ItemLen <= ItemPlace(T, n)
  <2>1. /\ ItemLen * Cardinality(Before(T \cap Items, e)) \in Nat
        /\ ItemLen * Cardinality(Before(T \cap Items, n)) \in Nat
        /\ ItemLen * Cardinality(Before(T \cap Items, e)) + ItemLen
             <= ItemLen * Cardinality(Before(T \cap Items, n))
    BY <1>1, <1>4, TreeParts, Sizing
  <2>. QED
    BY <1>2, <2>1, Sizing DEF ItemPlace
<1>. QED
  BY <1>3, <1>4

(* No two places overlap, and all are inside the file. *)
LEMMA PlacesApart ==
  ASSUME NEW T \in SUBSET Entries, NEW x \in T
  PROVE  /\ Place(T, x) \in Nat /\ Place(T, x) + LenOf(x) <= Capacity
         /\ \A y \in T : x # y =>
              Place(T, x) + LenOf(x) <= Place(T, y) \/ Place(T, y) + LenOf(y) <= Place(T, x)
<1>. DEFINE Fits(e) == /\ Place(T, e) \in Nat /\ Place(T, e) + LenOf(e) <= Capacity
                       /\ e \in Sets => Place(T, e) + LenOf(e) <= SetsEnd(T)
                       /\ e \notin Sets => SetsEnd(T) <= Place(T, e)
<1>1. /\ SetsEnd(T) \in Nat /\ ItemsEnd(T) \in Nat /\ SetsEnd(T) + ItemsEnd(T) <= Capacity
      /\ SetPlace(T, NoNode) = SetsEnd(T) /\ ItemPlace(T, NoNode) = SetsEnd(T) + ItemsEnd(T)
  BY Ends
<1>2. ASSUME NEW e \in T PROVE Fits(e)
  <2>1. CASE e \in Sets
    <3>1. SetPlace(T, e) \in Nat /\ SetPlace(T, e) + SetLen <= SetsEnd(T)
      <4>1. e \in T \cap Sets /\ NoNode = NoNode
        BY <2>1
      <4>2. SetPlace(T, e) \in Nat /\ SetPlace(T, e) + SetLen <= SetPlace(T, NoNode)
        BY <4>1, PlacesInOrder, Zenon
      <4>. QED
        BY <1>1, <4>2
    <3>2. LenOf(e) = SetLen /\ Place(T, e) = SetPlace(T, e)
      BY <2>1, EntryLen DEF Place
    <3>. QED
      BY <1>1, <2>1, <3>1, <3>2, Sizing
  <2>2. CASE e \notin Sets
    <3>0. e \in T \cap Items
      BY <2>2 DEF Entries
    <3>1. ItemPlace(T, e) \in Nat /\ ItemPlace(T, e) + ItemLen <= SetsEnd(T) + ItemsEnd(T)
      <4>1. ItemPlace(T, e) \in Nat /\ ItemPlace(T, e) + ItemLen <= ItemPlace(T, NoNode)
        BY <3>0, PlacesInOrder, Zenon
      <4>. QED
        BY <1>1, <4>1
    <3>2. LenOf(e) = ItemLen /\ Place(T, e) = ItemPlace(T, e)
      BY <2>2, <3>0, EntryLen DEF Place
    <3>3. SetsEnd(T) <= ItemPlace(T, e)
      <4>1. Cardinality(Before(T \cap Items, e)) \in Nat
        BY TreeParts, BeforeFinite
      <4>2. ItemLen * Cardinality(Before(T \cap Items, e)) \in Nat
        BY <4>1, Sizing, Times
      <4>. QED
        BY <1>1, <4>2 DEF ItemPlace
    <3>. QED
      BY <1>1, <2>2, <3>1, <3>2, <3>3, Sizing
  <2>. QED
    BY <2>1, <2>2
<1>3. ASSUME NEW y \in T, x # y
      PROVE  Place(T, x) + LenOf(x) <= Place(T, y) \/ Place(T, y) + LenOf(y) <= Place(T, x)
  <2>0. Fits(x) /\ Fits(y) /\ LenOf(x) \in Nat /\ LenOf(y) \in Nat /\ x \in Nat /\ y \in Nat
    BY <1>2, EntryLen, Sizing
  <2>. HIDE DEF Fits
  <2>1. CASE x \in Sets /\ y \in Sets
    <3>1. CASE x < y
      BY <2>1, <3>1, <2>0, PlacesInOrder, EntryLen DEF Place
    <3>2. CASE y < x
      BY <2>1, <3>2, <2>0, PlacesInOrder, EntryLen DEF Place
    <3>. QED
      BY <1>3, <2>0, <3>1, <3>2
  <2>2. CASE x \notin Sets /\ y \notin Sets
    <3>0. x \in T \cap Items /\ y \in T \cap Items
      BY <2>2 DEF Entries
    <3>1. CASE x < y
      BY <2>2, <3>0, <3>1, <2>0, PlacesInOrder, EntryLen DEF Place
    <3>2. CASE y < x
      BY <2>2, <3>0, <3>2, <2>0, PlacesInOrder, EntryLen DEF Place
    <3>. QED
      BY <1>3, <2>0, <3>1, <3>2
  <2>3. CASE x \in Sets /\ y \notin Sets
    BY <1>1, <2>0, <2>3 DEF Fits
  <2>4. CASE x \notin Sets /\ y \in Sets
    BY <1>1, <2>0, <2>4 DEF Fits
  <2>. QED
    BY <2>1, <2>2, <2>3, <2>4
<1>. QED
  BY <1>2, <1>3

(* Writing an entry of the tree at its place, whole or in part, leaves what   *)
(* was there.                                                                *)
LEMMA HeldStays ==
  ASSUME NEW d \in Data, NEW T \in SUBSET Entries, NEW e \in T, NEW m \in Nat, m <= LenOf(e),
         NEW X \in SUBSET T, Held(d, T, X)
  PROVE  Held(Written(d, Place(T, e), e, m), T, X)
<1>. SUFFICES ASSUME NEW x \in X PROVE Holds(Written(d, Place(T, e), e, m), Place(T, x), x)
  BY DEF Held
<1>1. Holds(d, Place(T, x), x) /\ x \in T /\ x \in Entries /\ e \in Entries
  BY DEF Held
<1>2. Place(T, e) \in Nat /\ Place(T, x) \in Nat
  BY PlacesApart
<1>3. CASE x = e
  BY <1>1, <1>2, <1>3, HoldsAgain
<1>4. CASE x # e
  <2>1. Place(T, x) + LenOf(x) <= Place(T, e) \/ Place(T, e) + LenOf(e) <= Place(T, x)
    BY <1>1, <1>4, PlacesApart
  <2>. QED
    BY <1>1, <1>2, <2>1, HoldsElsewhere
<1>. QED
  BY <1>3, <1>4

LEMMA HeldGrows ==
  ASSUME NEW d \in Data, NEW T \in SUBSET Entries, NEW e \in T, NEW X \in SUBSET T, Held(d, T, X)
  PROVE  Held(Written(d, Place(T, e), e, LenOf(e)), T, X \cup {e})
<1>0. LenOf(e) \in Nat /\ e \in Entries
  BY EntryLen
<1>1. Held(Written(d, Place(T, e), e, LenOf(e)), T, X)
  BY <1>0, HeldStays
<1>2. Holds(Written(d, Place(T, e), e, LenOf(e)), Place(T, e), e)
  BY <1>0, PlacesApart, HoldsWritten
<1>. QED
  BY <1>1, <1>2 DEF Held

-----------------------------------------------------------------------------
(* What a save remembers of the trees *)

(* An item is in the tree only with its set. *)
Closed(t) == \A i \in Items \cap t : SetOf[i] \in t

NoSizes(h) == h.sizeSet = 0 /\ h.sizeFiles = 0

Tracks(v, t) ==
  /\ v.pc # "idle" => Closed(v.kept) /\ v.kept \subseteq t /\ t \subseteq v.seen
  /\ v.pc = "header" => NoSizes(v.cfh)

(* A file without the promise of a completed save has a header without sizes. *)
HistoryInv ==
  /\ Closed(tree) /\ Closed(last.kept)
  /\ \A s \in Savers : Tracks(save[s], tree)
  /\ ~last.valid => NoSizes(header)

(* While saves do not overlap one save at most writes, and none since the     *)
(* last completed.                                                           *)
ExclusiveInv ==
  ~group.overlap =>
    /\ \A s, u \in Savers : Writing(s) /\ Writing(u) => s = u
    /\ last.valid => \A s \in Savers : ~Writing(s)

LEMMA HistoryInit == Init => HistoryInv /\ ExclusiveInv
BY DEF Init, HistoryInv, ExclusiveInv, Closed, Tracks, NoSizes, NoHeader, NoPromise, Idle, Writing

LEMMA IdleTracks == ASSUME NEW t PROVE Tracks(Idle, t)
BY DEF Tracks, Idle

(* A step of the run of s that is under way. *)
LEMMA TracksPut ==
  ASSUME TypeInv, HistoryInv, NEW s \in Savers, save[s].pc # "idle", tree' = tree,
         NEW v, GoodSave(v), save' = [save EXCEPT ![s] = v],
         v.kept = save[s].kept, v.seen = save[s].seen, v.pc # "header"
  PROVE  \A u \in Savers : Tracks(save'[u], tree')
<1>1. save'[s] = v /\ \A u \in Savers \ {s} : save'[u] = save[u]
  BY SavePut
<1>2. Tracks(v, tree)
  BY DEF HistoryInv, Tracks
<1>. QED
  BY <1>1, <1>2 DEF HistoryInv

LEMMA TracksStop ==
  ASSUME TypeInv, HistoryInv, NEW s \in Savers, Stop(s), tree' = tree
  PROVE  \A u \in Savers : Tracks(save'[u], tree')
<1>1. save'[s] = Idle /\ \A u \in Savers \ {s} : save'[u] = save[u]
  BY SavesGood DEF Stop
<1>. QED
  BY <1>1, IdleTracks DEF HistoryInv

LEMMA TracksStart ==
  ASSUME TypeInv, HistoryInv, NEW s \in Savers, NEW st \in Status, SaveStarts(s, st), tree' = tree
  PROVE  \A u \in Savers : Tracks(save'[u], tree')
<1>1. PICK v : /\ GoodSave(v) /\ save' = [save EXCEPT ![s] = v]
               /\ v.pc = "header" /\ v.cfh = [NoHeader EXCEPT !.status = st]
               /\ v.kept = tree /\ v.seen = tree
  BY StartsMakes
<1>2. save'[s] = v /\ \A u \in Savers \ {s} : save'[u] = save[u]
  BY <1>1, SavePut
<1>3. NoSizes(v.cfh)
  BY <1>1 DEF NoSizes, NoHeader
<1>4. Tracks(v, tree)
  BY <1>1, <1>3 DEF HistoryInv, Tracks
<1>. QED
  BY <1>2, <1>4 DEF HistoryInv

LEMMA HistoryStep == TypeInv /\ HistoryInv /\ [Next]_vars => HistoryInv'
<1>. SUFFICES ASSUME TypeInv, HistoryInv, [Next]_vars PROVE HistoryInv'
  OBVIOUS
<1>. USE DEF memory, file, counts
<1>0. status \in Status /\ "systemshutdown" \in Status /\ "reboot" \in Savers
  BY DEF TypeInv, TypeOK, Status, Savers
<1>a. ASSUME UNCHANGED <<tree, header, last>>, \A u \in Savers : Tracks(save'[u], tree')
      PROVE  HistoryInv'
  BY <1>a DEF HistoryInv
<1>1. ASSUME NEW s \in Savers, SaveConfig(s) PROVE HistoryInv'
  <2>1. SaveStarts(s, status) /\ UNCHANGED <<tree, header, last>>
    BY <1>1 DEF SaveConfig
  <2>. QED
    BY <1>0, <1>a, <2>1, TracksStart
<1>2. ASSUME NEW s \in Savers, WriteHeader(s) PROVE HistoryInv'
  <2>1. save[s].pc = "header" /\ header' = save[s].cfh /\ tree' = tree /\ last' = NoPromise
    BY <1>2 DEF WriteHeader
  <2>2. PICK v : /\ GoodSave(v) /\ save' = [save EXCEPT ![s] = v] /\ v.pc = "sets"
                 /\ v.kept = save[s].kept /\ v.seen = save[s].seen
    BY <1>2, WriteHeaderMakes
  <2>3. \A u \in Savers : Tracks(save'[u], tree')
    BY <2>1, <2>2, TracksPut
  <2>4. NoSizes(header')
    BY <2>1 DEF HistoryInv, Tracks
  <2>. QED
    BY <2>1, <2>3, <2>4 DEF HistoryInv, Closed, NoPromise
<1>3. ASSUME NEW s \in Savers, WriteEntry(s) PROVE HistoryInv'
  <2>1. save[s].pc \in {"sets", "items"} /\ UNCHANGED <<tree, header, last>>
    BY <1>3 DEF WriteEntry
  <2>2. PICK v : /\ GoodSave(v) /\ save' = [save EXCEPT ![s] = v] /\ v.pc = save[s].pc
                 /\ v.kept = save[s].kept /\ v.seen = save[s].seen
    BY <1>3, WriteEntryMakes
  <2>3. \A u \in Savers : Tracks(save'[u], tree')
    BY <2>1, <2>2, TracksPut
  <2>. QED
    BY <1>a, <2>1, <2>3
<1>4. ASSUME NEW s \in Savers, WriteEntryShort(s) \/ SaveFails(s) PROVE HistoryInv'
  <2>1. Stop(s) /\ UNCHANGED <<tree, header, last>>
    BY <1>4 DEF WriteEntryShort, SaveFails
  <2>. QED
    BY <1>a, <2>1, TracksStop
<1>5. ASSUME NEW s \in Savers, SetsDone(s) \/ ItemsDone(s) PROVE HistoryInv'
  <2>1. save[s].pc # "idle" /\ UNCHANGED <<tree, header, last>>
    BY <1>5 DEF SetsDone, ItemsDone
  <2>2. PICK v : /\ GoodSave(v) /\ save' = [save EXCEPT ![s] = v] /\ v.pc # "header"
                 /\ v.kept = save[s].kept /\ v.seen = save[s].seen
    BY <1>5, SetsDoneMakes, ItemsDoneMakes
  <2>3. \A u \in Savers : Tracks(save'[u], tree')
    BY <2>1, <2>2, TracksPut
  <2>. QED
    BY <1>a, <2>1, <2>3
<1>6. ASSUME NEW s \in Savers, Rewrite(s) PROVE HistoryInv'
  <2>1. /\ Stop(s) /\ tree' = tree /\ save[s].pc = "rewrite"
        /\ last' = [valid |-> TRUE, kept |-> save[s].kept, seen |-> save[s].seen]
    BY <1>6 DEF Rewrite
  <2>2. \A u \in Savers : Tracks(save'[u], tree')
    BY <2>1, TracksStop
  <2>3. last'.valid /\ last'.kept = save[s].kept
    BY <2>1
  <2>4. Closed(save[s].kept)
    BY <2>1 DEF HistoryInv, Tracks
  <2>5. Closed(last'.kept) /\ Closed(tree')
    BY <2>1, <2>3, <2>4 DEF HistoryInv
  <2>. QED
    BY <2>2, <2>3, <2>5 DEF HistoryInv
<1>7. ASSUME Edit PROVE HistoryInv'
  <2>1. Closed(tree')
    <3>1. PICK e \in Entries :
            \/ (e \in Items => SetOf[e] \in tree) /\ tree' = tree \cup {e}
            \/ (\A i \in Items \cap tree : SetOf[i] # e) /\ tree' = tree \ {e}
      BY <1>7 DEF Edit
    <3>2. \A i \in Items \cap tree : SetOf[i] \in tree
      BY DEF HistoryInv, Closed
    <3>. QED
      BY <3>1, <3>2 DEF Closed
  <2>2. ASSUME NEW u \in Savers PROVE Tracks(save'[u], tree')
    <3>1. /\ save'[u].pc = save[u].pc /\ save'[u].cfh = save[u].cfh
          /\ save[u].pc # "idle" => /\ save'[u].kept = save[u].kept \cap tree'
                                    /\ save'[u].seen = save[u].seen \cup tree'
      BY <1>7, EditMakes
    <3>2. Tracks(save[u], tree)
      BY DEF HistoryInv
    <3>3. save[u].pc # "idle" => Closed(save[u].kept \cap tree')
      BY <2>1, <3>2 DEF Tracks, Closed
    <3>. QED
      BY <3>1, <3>2, <3>3 DEF Tracks
  <2>3. UNCHANGED <<header, last>>
    BY <1>7 DEF Edit
  <2>. QED
    BY <2>1, <2>2, <2>3 DEF HistoryInv
<1>8. ASSUME ResetShutdownStatus \/ UNCHANGED vars PROVE HistoryInv'
  <2>1. UNCHANGED <<tree, save, header, last>>
    BY <1>8 DEF ResetShutdownStatus, vars
  <2>. QED
    BY <1>a, <2>1 DEF HistoryInv
<1>9. ASSUME MyReboot PROVE HistoryInv'
  <2>1. SaveStarts("reboot", "systemshutdown") /\ UNCHANGED <<tree, header, last>>
    BY <1>9 DEF MyReboot, RebootBegins
  <2>. QED
    BY <1>0, <1>a, <2>1, TracksStart
<1>10. ASSUME LoadConfig PROVE HistoryInv'
  <2>1. tree' = Loaded /\ save' = [s \in Savers |-> Idle] /\ UNCHANGED <<header, last>>
    BY <1>10 DEF LoadConfig
  <2>2. Closed(Loaded)
    BY Sizing DEF Closed, Loaded, LoadedSets, LoadedItems
  <2>. QED
    BY <2>1, <2>2, IdleTracks DEF HistoryInv
<1>. QED
  BY <1>1, <1>2, <1>3, <1>4, <1>5, <1>6, <1>7, <1>8, <1>9, <1>10 DEF Next

(* A step by which no save comes to write. *)
LEMMA ExclusiveKept ==
  ASSUME ExclusiveInv, UNCHANGED last, group'.overlap = group.overlap,
         \A u \in Savers : Writing(u)' => Writing(u)
  PROVE  ExclusiveInv'
BY DEF ExclusiveInv

LEMMA StoppedWrites ==
  ASSUME TypeInv, NEW s \in Savers, Stop(s)
  PROVE  \A u \in Savers : (Writing(u)' <=> Writing(u) /\ u # s) /\ (u # s => save'[u] = save[u])
<1>1. save'[s] = Idle /\ \A u \in Savers \ {s} : save'[u] = save[u]
  BY SavesGood DEF Stop
<1>. QED
  BY <1>1 DEF Writing, Idle

LEMMA StartedWrites ==
  ASSUME TypeInv, NEW s \in Savers, NEW st \in Status, SaveStarts(s, st)
  PROVE  /\ \A u \in Savers \ {s} : save'[u] = save[u]
         /\ ~Writing(s) /\ ~Writing(s)'
<1>1. PICK v : GoodSave(v) /\ save' = [save EXCEPT ![s] = v] /\ v.pc = "header"
  BY StartsMakes
<1>2. save'[s] = v /\ \A u \in Savers \ {s} : save'[u] = save[u]
  BY <1>1, SavePut
<1>. QED
  BY <1>1, <1>2 DEF Writing, SaveStarts

LEMMA ExclusiveStep == TypeInv /\ ExclusiveInv /\ [Next]_vars => ExclusiveInv'
<1>. SUFFICES ASSUME TypeInv, ExclusiveInv, [Next]_vars PROVE ExclusiveInv'
  OBVIOUS
<1>. USE DEF memory, file, counts
<1>0. /\ status \in Status /\ "systemshutdown" \in Status /\ "reboot" \in Savers
      /\ group \in [overlap : BOOLEAN, edited : BOOLEAN, strayed : BOOLEAN]
  BY DEF TypeInv, TypeOK, Status, Savers
<1>1. ASSUME NEW s \in Savers, SaveConfig(s) PROVE ExclusiveInv'
  <2>1. SaveStarts(s, status) /\ UNCHANGED <<group, last>>
    BY <1>1 DEF SaveConfig
  <2>. QED
    BY <1>0, <2>1, StartedWrites, ExclusiveKept DEF Writing
<1>2. ASSUME NEW s \in Savers, WriteHeader(s) PROVE ExclusiveInv'
  <2>1. PICK v : GoodSave(v) /\ save' = [save EXCEPT ![s] = v] /\ v.pc = "sets"
    BY <1>2, WriteHeaderMakes
  <2>2. \A u \in Savers \ {s} : save'[u] = save[u]
    BY <2>1, SavePut
  <2>3. ASSUME ~group'.overlap PROVE \A u \in Savers \ {s} : ~Writing(u)
    BY <1>0, <1>2, <2>3 DEF WriteHeader, Others
  <2>4. ~last'.valid
    BY <1>2 DEF WriteHeader, NoPromise
  <2>. QED
    BY <2>2, <2>3, <2>4 DEF ExclusiveInv, Writing
<1>3. ASSUME NEW s \in Savers, WriteEntry(s) \/ SetsDone(s) \/ ItemsDone(s) PROVE ExclusiveInv'
  <2>1. UNCHANGED last /\ group'.overlap = group.overlap /\ Writing(s)
    BY <1>0, <1>3 DEF WriteEntry, SetsDone, ItemsDone, Writing
  <2>2. PICK v : GoodSave(v) /\ save' = [save EXCEPT ![s] = v]
    BY <1>3, WriteEntryMakes, SetsDoneMakes, ItemsDoneMakes
  <2>3. \A u \in Savers \ {s} : save'[u] = save[u]
    BY <2>2, SavePut
  <2>. QED
    BY <2>1, <2>3, ExclusiveKept DEF Writing
<1>4. ASSUME NEW s \in Savers, WriteEntryShort(s) \/ SaveFails(s) PROVE ExclusiveInv'
  <2>1. Stop(s) /\ UNCHANGED <<group, last>>
    BY <1>4 DEF WriteEntryShort, SaveFails
  <2>. QED
    BY <2>1, StoppedWrites, ExclusiveKept
<1>5. ASSUME NEW s \in Savers, Rewrite(s) PROVE ExclusiveInv'
  <2>1. Stop(s) /\ group' = group /\ Writing(s)
    BY <1>5 DEF Rewrite, Writing
  <2>. QED
    BY <2>1, StoppedWrites DEF ExclusiveInv
<1>6. ASSUME Edit PROVE ExclusiveInv'
  <2>1. UNCHANGED last /\ group'.overlap = group.overlap
    BY <1>0, <1>6 DEF Edit
  <2>. QED
    BY <1>6, <2>1, EditMakes, ExclusiveKept DEF Writing
<1>7. ASSUME ResetShutdownStatus \/ UNCHANGED vars PROVE ExclusiveInv'
  <2>1. UNCHANGED <<save, group, last>>
    BY <1>7 DEF ResetShutdownStatus, vars
  <2>. QED
    BY <2>1 DEF ExclusiveInv, Writing
<1>8. ASSUME MyReboot PROVE ExclusiveInv'
  <2>1. SaveStarts("reboot", "systemshutdown") /\ UNCHANGED <<group, last>>
    BY <1>8 DEF MyReboot, RebootBegins
  <2>. QED
    BY <1>0, <2>1, StartedWrites, ExclusiveKept DEF Writing
<1>9. ASSUME LoadConfig PROVE ExclusiveInv'
  <2>1. save' = [s \in Savers |-> Idle]
    BY <1>9 DEF LoadConfig
  <2>. QED
    BY <2>1 DEF ExclusiveInv, Writing, Idle
<1>. QED
  BY <1>1, <1>2, <1>3, <1>4, <1>5, <1>6, <1>7, <1>8, <1>9 DEF Next

-----------------------------------------------------------------------------
(* One save at a time, the trees changing under it *)

(* Two rows, the sets and behind them the items, with these sizes. *)
Rows(d, sizeSet, sizeFiles, mustSets, mustItems, may) ==
  \E m, n \in Nat :
    /\ sizeSet = SetLen * m /\ Row(d, 0, SetLen, m, mustSets, may \cap Sets)
    /\ sizeFiles = ItemLen * n /\ Row(d, sizeSet, ItemLen, n, mustItems, may \cap Items)

(* What a save has written so far. *)
Progress(d, v) ==
  /\ v.pc = "sets" =>
       Rows(d, v.at, 0, Before(v.kept \cap Sets, v.node), {}, v.seen)
  /\ v.pc = "items" =>
       Rows(d, v.cfh.sizeSet, v.at - v.cfh.sizeSet, v.kept \cap Sets,
            Before(v.kept \cap Items, v.node), v.seen)
  /\ v.pc = "rewrite" =>
       Rows(d, v.cfh.sizeSet, v.cfh.sizeFiles, v.kept \cap Sets, v.kept \cap Items, v.seen)

FileSound(d, h, l) ==
  l.valid => Rows(d, h.sizeSet, h.sizeFiles, l.kept \cap Sets, l.kept \cap Items, l.seen)

AloneInv ==
  ~group.overlap /\ ~group.strayed =>
    /\ \A s \in Savers : Progress(data, save[s])
    /\ FileSound(data, header, last)

LEMMA AloneInit == Init => AloneInv
BY DEF Init, AloneInv, Progress, FileSound, NoPromise, Idle

LEMMA RowsEase ==
  ASSUME NEW d, NEW a, NEW b, NEW S, NEW I, NEW may, Rows(d, a, b, S, I, may),
         NEW S2 \in SUBSET S, NEW I2 \in SUBSET I, NEW may2, may \subseteq may2
  PROVE  Rows(d, a, b, S2, I2, may2)
<1>1. PICK m \in Nat, n \in Nat :
        /\ a = SetLen * m /\ Row(d, 0, SetLen, m, S, may \cap Sets)
        /\ b = ItemLen * n /\ Row(d, a, ItemLen, n, I, may \cap Items)
  BY DEF Rows
<1>2. may \cap Sets \subseteq may2 \cap Sets /\ may \cap Items \subseteq may2 \cap Items
  OBVIOUS
<1>3. Row(d, 0, SetLen, m, S2, may2 \cap Sets) /\ Row(d, a, ItemLen, n, I2, may2 \cap Items)
  BY <1>1, <1>2, RowEases
<1>. QED
  BY <1>1, <1>3 DEF Rows

LEMMA ProgressStarts ==
  ASSUME NEW d, NEW v, v.pc = "sets", v.at = 0, NEW t \in SUBSET Entries,
         v.node = First(t \cap Sets), v.kept \subseteq t
  PROVE  Progress(d, v)
<1>1. t \cap Sets \in SUBSET (Nat \ {NoNode})
  BY Sizing
<1>2. Before(v.kept \cap Sets, v.node) = {}
  <2>1. Before(t \cap Sets, v.node) = {}
    BY <1>1, BeforeEnds
  <2>. QED
    BY <2>1 DEF Before
<1>3. SetLen * 0 = 0 /\ ItemLen * 0 = 0 /\ 0 \in Nat
  BY Sizing
<1>4. Row(d, 0, SetLen, 0, {}, v.seen \cap Sets) /\ Row(d, 0, ItemLen, 0, {}, v.seen \cap Items)
  BY RowEmpty
<1>5. Rows(d, 0, 0, {}, {}, v.seen)
  BY <1>3, <1>4 DEF Rows
<1>. QED
  BY <1>2, <1>5 DEF Progress

(* A walk over entries that stay writes those that must be there. *)
LEMMA MustNext ==
  ASSUME NEW S \in SUBSET (Nat \ {NoNode}), NEW e \in S, NEW n \in RbNext(S, e), NEW K \in SUBSET S
  PROVE  Before(K, n) \in SUBSET (Before(K, e) \cup {e})
<1>1. Before(S, n) = Before(S, e) \cup {e}
  BY BeforeNext
<1>. QED
  BY <1>1 DEF Before

LEMMA ProgressSets ==
  ASSUME NEW d \in Data, NEW old, Progress(d, old), old.pc = "sets",
         NEW t \in SUBSET Entries, old.node \in t \cap Sets,
         old.kept \subseteq t, t \subseteq old.seen, old.seen \subseteq Entries, old.at \in Nat,
         old.at + SetLen <= Capacity,
         NEW v, v.pc = "sets", v.node \in RbNext(t \cap Sets, old.node), v.at = old.at + SetLen,
         v.kept = old.kept, v.seen = old.seen
  PROVE  Progress(Written(d, old.at, old.node, SetLen), v)
<1>. DEFINE dd == Written(d, old.at, old.node, SetLen)
            K == Before(old.kept \cap Sets, old.node)
<1>1. PICK m \in Nat : old.at = SetLen * m /\ Row(d, 0, SetLen, m, K, old.seen \cap Sets)
  BY DEF Progress, Rows
<1>2. /\ old.node \in Entries /\ LenOf(old.node) = SetLen /\ \A x \in old.seen \cap Sets : LenOf(x) = SetLen
      /\ old.seen \cap Sets \in SUBSET Entries /\ old.node \in old.seen \cap Sets
      /\ K \in SUBSET (old.seen \cap Sets)
  BY EntryLen DEF Before
<1>3. Row(dd, 0, SetLen, m + 1, K \cup {old.node}, old.seen \cap Sets)
  <2>1. old.at = 0 + SetLen * m /\ SetLen \in Nat \ {0} /\ 0 \in Nat
    BY <1>1, Sizing
  <2>. HIDE DEF K
  <2>. QED
    BY <1>1, <1>2, <2>1, RowGrows
<1>4. Before(v.kept \cap Sets, v.node) \in SUBSET (K \cup {old.node})
  <2>1. t \cap Sets \in SUBSET (Nat \ {NoNode}) /\ old.kept \cap Sets \in SUBSET (t \cap Sets)
    BY Sizing
  <2>. QED
    BY <2>1, MustNext
<1>. HIDE DEF K, dd
<1>5. Row(dd, 0, SetLen, m + 1, Before(v.kept \cap Sets, v.node), v.seen \cap Sets)
  BY <1>3, <1>4, RowEases
<1>6. v.at = SetLen * (m + 1) /\ m + 1 \in Nat /\ ItemLen * 0 = 0 /\ 0 \in Nat
  BY <1>1, Sizing, Times
<1>7. Row(dd, v.at, ItemLen, 0, {}, v.seen \cap Items)
  BY RowEmpty
<1>8. Rows(dd, v.at, 0, Before(v.kept \cap Sets, v.node), {}, v.seen)
  BY <1>5, <1>6, <1>7 DEF Rows
<1>. QED
  BY <1>8 DEF Progress, dd

LEMMA ProgressItems ==
  ASSUME NEW d \in Data, NEW old, Progress(d, old), old.pc = "items",
         NEW t \in SUBSET Entries, old.node \in t \cap Items,
         old.kept \subseteq t, t \subseteq old.seen, old.seen \subseteq Entries,
         old.at \in Nat, old.cfh.sizeSet \in Nat, old.at + ItemLen <= Capacity,
         NEW v, v.pc = "items", v.node \in RbNext(t \cap Items, old.node), v.at = old.at + ItemLen,
         v.cfh = old.cfh, v.kept = old.kept, v.seen = old.seen
  PROVE  Progress(Written(d, old.at, old.node, ItemLen), v)
<1>. DEFINE dd == Written(d, old.at, old.node, ItemLen)
            z == old.cfh.sizeSet
            K == Before(old.kept \cap Items, old.node)
<1>1. PICK m \in Nat, n \in Nat :
        /\ z = SetLen * m /\ Row(d, 0, SetLen, m, old.kept \cap Sets, old.seen \cap Sets)
        /\ old.at - z = ItemLen * n /\ Row(d, z, ItemLen, n, K, old.seen \cap Items)
  BY DEF Progress, Rows
<1>. HIDE DEF z
<1>2. /\ old.node \in Entries /\ LenOf(old.node) = ItemLen
      /\ \A x \in old.seen \cap Items : LenOf(x) = ItemLen
      /\ \A x \in old.seen \cap Sets : LenOf(x) = SetLen
      /\ old.seen \cap Items \in SUBSET Entries /\ old.seen \cap Sets \in SUBSET Entries
      /\ old.node \in old.seen \cap Items /\ K \in SUBSET (old.seen \cap Items)
      /\ old.kept \cap Sets \in SUBSET (old.seen \cap Sets)
  BY EntryLen DEF Before
<1>3. /\ z \in Nat /\ ItemLen * n \in Nat /\ SetLen * m \in Nat /\ ItemLen \in Nat \ {0} /\ SetLen \in Nat \ {0}
      /\ ItemLen * (n + 1) = ItemLen * n + ItemLen /\ 0 \in Nat
  BY Sizing, Times DEF z
<1>4. old.at = z + ItemLen * n /\ 0 + SetLen * m <= old.at /\ v.at - z = ItemLen * (n + 1) /\ n + 1 \in Nat
  <2>. DEFINE q == ItemLen * n
  <2>1. old.at \in Nat /\ q \in Nat /\ z \in Nat /\ ItemLen \in Nat /\ old.at - z = q
    BY <1>1, <1>3
  <2>. HIDE DEF q
  <2>2. old.at = z + q /\ (old.at + ItemLen) - z = q + ItemLen /\ z <= old.at
    BY <2>1
  <2>3. v.at - z = q + ItemLen /\ 0 + SetLen * m <= old.at
    BY <1>1, <1>3, <2>2
  <2>. QED
    BY <1>3, <2>2, <2>3 DEF q
<1>5. Row(dd, 0, SetLen, m, old.kept \cap Sets, old.seen \cap Sets)
  <2>1. ItemLen \in Nat /\ ItemLen <= LenOf(old.node)
    BY <1>2, <1>3
  <2>. QED
    BY <1>1, <1>2, <1>3, <1>4, <2>1, RowStays
<1>6. Row(dd, z, ItemLen, n + 1, K \cup {old.node}, old.seen \cap Items)
  <2>. HIDE DEF K
  <2>. QED
    BY <1>1, <1>2, <1>3, <1>4, RowGrows
<1>7. Before(v.kept \cap Items, v.node) \in SUBSET (K \cup {old.node})
  <2>1. t \cap Items \in SUBSET (Nat \ {NoNode}) /\ old.kept \cap Items \in SUBSET (t \cap Items)
    BY Sizing
  <2>. QED
    BY <2>1, MustNext
<1>. HIDE DEF K, dd
<1>8. Row(dd, z, ItemLen, n + 1, Before(v.kept \cap Items, v.node), v.seen \cap Items)
  BY <1>6, <1>7, RowEases
<1>9. Rows(dd, z, v.at - z, v.kept \cap Sets, Before(v.kept \cap Items, v.node), v.seen)
  BY <1>1, <1>4, <1>5, <1>8 DEF Rows
<1>. QED
  BY <1>9 DEF Progress, dd, z

LEMMA ProgressSetsDone ==
  ASSUME NEW d, NEW old, Progress(d, old), old.pc = "sets", old.node = NoNode, old.at \in Nat,
         NEW t \in SUBSET Entries, old.kept \subseteq t,
         NEW v, v.pc = "items", v.node = First(t \cap Items), v.at = old.at, v.cfh.sizeSet = old.at,
         v.kept = old.kept, v.seen = old.seen
  PROVE  Progress(d, v)
<1>1. Rows(d, old.at, 0, old.kept \cap Sets, {}, old.seen)
  BY DEF Progress, Before
<1>2. Before(v.kept \cap Items, v.node) = {}
  <2>1. t \cap Items \in SUBSET (Nat \ {NoNode})
    BY Sizing
  <2>2. Before(t \cap Items, v.node) = {}
    BY <2>1, BeforeEnds
  <2>. QED
    BY <2>2 DEF Before
<1>3. v.at - v.cfh.sizeSet = 0
  OBVIOUS
<1>. QED
  BY <1>1, <1>2, <1>3 DEF Progress

LEMMA ProgressItemsDone ==
  ASSUME NEW d, NEW old, Progress(d, old), old.pc = "items", old.node = NoNode,
         NEW v, v.pc = "rewrite", v.cfh.sizeSet = old.cfh.sizeSet,
         v.cfh.sizeFiles = old.at - old.cfh.sizeSet, v.kept = old.kept, v.seen = old.seen
  PROVE  Progress(d, v)
<1>1. Before(old.kept \cap Items, old.node) = old.kept \cap Items
  BY DEF Before
<1>. QED
  BY <1>1 DEF Progress

LEMMA ProgressEdit ==
  ASSUME NEW d, NEW old, Progress(d, old), NEW v, v.pc = old.pc, v.node = old.node, v.at = old.at,
         v.cfh = old.cfh, v.kept \subseteq old.kept, old.seen \subseteq v.seen
  PROVE  Progress(d, v)
<1>. DEFINE KeptSets(w)   == w.kept \cap Sets
            KeptItems(w)  == w.kept \cap Items
            BehindSets(w) == Before(w.kept \cap Sets, w.node)
            BehindItems(w) == Before(w.kept \cap Items, w.node)
            none == {}
<1>1. /\ KeptSets(v) \in SUBSET KeptSets(old) /\ KeptItems(v) \in SUBSET KeptItems(old)
      /\ BehindSets(v) \in SUBSET BehindSets(old) /\ BehindItems(v) \in SUBSET BehindItems(old)
      /\ none \in SUBSET none
  BY DEF Before
<1>2. \A w : Progress(d, w) =
               /\ w.pc = "sets" => Rows(d, w.at, 0, BehindSets(w), none, w.seen)
               /\ w.pc = "items" =>
                    Rows(d, w.cfh.sizeSet, w.at - w.cfh.sizeSet, KeptSets(w), BehindItems(w), w.seen)
               /\ w.pc = "rewrite" =>
                    Rows(d, w.cfh.sizeSet, w.cfh.sizeFiles, KeptSets(w), KeptItems(w), w.seen)
  BY DEF Progress
<1>. HIDE DEF KeptSets, KeptItems, BehindSets, BehindItems, none
<1>3. \A a, b, S, I : Rows(d, a, b, S, I, old.seen) =>
        \A S2 \in SUBSET S, I2 \in SUBSET I : Rows(d, a, b, S2, I2, v.seen)
  BY RowsEase
<1>4. v.pc = "sets" => Rows(d, v.at, 0, BehindSets(v), none, v.seen)
  BY <1>1, <1>2, <1>3
<1>5. v.pc = "items" =>
        Rows(d, v.cfh.sizeSet, v.at - v.cfh.sizeSet, KeptSets(v), BehindItems(v), v.seen)
  BY <1>1, <1>2, <1>3
<1>6. v.pc = "rewrite" =>
        Rows(d, v.cfh.sizeSet, v.cfh.sizeFiles, KeptSets(v), KeptItems(v), v.seen)
  BY <1>1, <1>2, <1>3
<1>. QED
  BY <1>2, <1>4, <1>5, <1>6

LEMMA NotWriting == ASSUME NEW d, NEW v, v.pc \notin {"sets", "items", "rewrite"} PROVE Progress(d, v)
BY DEF Progress

LEMMA SaveNumbers ==
  ASSUME TypeInv, NEW s \in Savers
  PROVE  /\ save[s].at \in Nat /\ save[s].cfh.sizeSet \in Nat /\ save[s].cfh.sizeFiles \in Nat
         /\ save[s].kept \in SUBSET Entries /\ save[s].seen \in SUBSET Entries
         /\ data \in Data /\ tree \in SUBSET Entries
         /\ save[s].pc = "sets" => save[s].node \in Sets \cup {NoNode}
         /\ save[s].pc = "items" => save[s].node \in Items \cup {NoNode}
<1>1. save[s] \in Save
  BY SavesGood
<1>2. save[s].at \in Sizes /\ save[s].cfh \in Header
  BY <1>1, SaveFields
<1>3. save[s].cfh.sizeSet \in Sizes /\ save[s].cfh.sizeFiles \in Sizes
  BY <1>2, HeaderFields
<1>4. \A n \in Sizes : n \in Nat
  BY Sizing DEF Sizes
<1>. QED
  BY <1>1, <1>2, <1>3, <1>4, SaveFields DEF TypeInv, TypeOK, Data

(* What a step that writes an entry does to the file and to its run. *)
LEMMA EntryWritten ==
  ASSUME TypeInv, NEW s \in Savers, WriteEntry(s)
  PROVE  LET e == save[s].node
             t == TreeOf(save[s].pc)
         IN /\ data' = Written(data, save[s].at, e, LenOf(e))
            /\ save[s].at + LenOf(e) <= Capacity
            /\ e \in Entries /\ (e \in Sets => LenOf(e) = SetLen) /\ (e \in Items => LenOf(e) = ItemLen)
            /\ save[s].pc = "sets" => e \in Sets /\ t = tree \cap Sets
            /\ save[s].pc = "items" => e \in Items /\ t = tree \cap Items
            /\ group'.strayed <=> group.strayed \/ e \notin t
            /\ group'.overlap = group.overlap /\ group'.edited = group.edited
            /\ \E v : /\ save'[s] = v /\ \A u \in Savers \ {s} : save'[u] = save[u]
                      /\ v.pc = save[s].pc /\ v.at = save[s].at + LenOf(e)
                      /\ v.node \in RbNext(t, e)
                      /\ v.cfh = save[s].cfh /\ v.kept = save[s].kept /\ v.seen = save[s].seen
<1>. DEFINE e == save[s].node
            t == TreeOf(save[s].pc)
<1>1. PICK v : /\ GoodSave(v) /\ save' = [save EXCEPT ![s] = v]
               /\ v.pc = save[s].pc /\ v.at = save[s].at + LenOf(e)
               /\ v.node \in RbNext(t, e)
               /\ v.cfh = save[s].cfh /\ v.kept = save[s].kept /\ v.seen = save[s].seen
  BY WriteEntryMakes
<1>2. save'[s] = v /\ \A u \in Savers \ {s} : save'[u] = save[u]
  BY <1>1, SavePut
<1>3. save[s].at + LenOf(e) <= Capacity
  <2>1. v.at \in Sizes
    BY <1>1, SaveFields DEF GoodSave
  <2>. QED
    BY <1>1, <2>1, Sizing DEF Sizes
<1>4. /\ data' = Written(data, save[s].at, e, LenOf(e)) /\ e # NoNode
      /\ group' = [group EXCEPT !.strayed = @ \/ e \notin t]
  BY DEF WriteEntry, FileWrite, Written
<1>5. /\ group'.strayed <=> group.strayed \/ e \notin t
      /\ group'.overlap = group.overlap /\ group'.edited = group.edited
  BY <1>4 DEF TypeInv, TypeOK
<1>6. /\ save[s].pc = "sets" => e \in Sets /\ t = tree \cap Sets
      /\ save[s].pc = "items" => e \in Items /\ t = tree \cap Items
  BY <1>4, SaveNumbers DEF TreeOf
<1>7. e \in Entries /\ (e \in Sets => LenOf(e) = SetLen) /\ (e \in Items => LenOf(e) = ItemLen)
  BY <1>4, WalkerAt, EntryLen
<1>. QED
  BY <1>1, <1>2, <1>3, <1>4, <1>5, <1>6, <1>7

LEMMA AloneStep == TypeInv /\ HistoryInv /\ ExclusiveInv /\ AloneInv /\ [Next]_vars => AloneInv'
<1>. SUFFICES ASSUME TypeInv, HistoryInv, ExclusiveInv, AloneInv, [Next]_vars,
                     ~group'.overlap, ~group'.strayed
              PROVE  /\ \A s \in Savers : Progress(data', save'[s])
                     /\ FileSound(data', header', last')
  BY DEF AloneInv
<1>. USE DEF memory, file, counts
<1>0. /\ status \in Status /\ "systemshutdown" \in Status /\ "reboot" \in Savers
      /\ group \in [overlap : BOOLEAN, edited : BOOLEAN, strayed : BOOLEAN]
  BY DEF TypeInv, TypeOK, Status, Savers
<1>. DEFINE Sound == /\ \A s \in Savers : Progress(data, save[s])
                     /\ FileSound(data, header, last)
            Goal == /\ \A s \in Savers : Progress(data', save'[s])
                    /\ FileSound(data', header', last')
<1>a. group' = group => Sound
  BY DEF AloneInv
<1>b. ASSUME NEW s \in Savers, Writing(s), ~group.overlap
      PROVE  ~last.valid /\ \A u \in Savers \ {s} : ~Writing(u)
  BY <1>b DEF ExclusiveInv
<1>c. ASSUME NEW s \in Savers, Stop(s), UNCHANGED <<group, header, last>>,
             data' = data \/ (Writing(s) /\ ~last.valid /\ \A u \in Savers \ {s} : ~Writing(u))
      PROVE  Goal
  <2>1. \A u \in Savers : (Writing(u)' <=> Writing(u) /\ u # s) /\ (u # s => save'[u] = save[u])
    BY <1>c, StoppedWrites
  <2>2. CASE data' = data
    <3>1. \A u \in Savers \ {s} : Progress(data', save'[u])
      BY <1>a, <1>c, <2>1, <2>2
    <3>2. Progress(data', save'[s])
      <4>1. save'[s].pc \notin {"sets", "items", "rewrite"}
        BY <2>1 DEF Writing
      <4>. QED
        BY <4>1, NotWriting
    <3>. QED
      BY <1>a, <1>c, <2>2, <3>1, <3>2
  <2>3. CASE Writing(s) /\ ~last.valid /\ \A u \in Savers \ {s} : ~Writing(u)
    <3>1. \A u \in Savers : save'[u].pc \notin {"sets", "items", "rewrite"}
      BY <2>1, <2>3 DEF Writing
    <3>. QED
      BY <1>c, <2>3, <3>1, NotWriting DEF FileSound
  <2>. QED
    BY <1>c, <2>2, <2>3
<1>d. ASSUME NEW s \in Savers, NEW st \in Status, SaveStarts(s, st), UNCHANGED <<data, header, group, last>>
      PROVE  Goal
  <2>1. (\A u \in Savers \ {s} : save'[u] = save[u]) /\ ~Writing(s)'
    BY <1>d, StartedWrites
  <2>2. Progress(data', save'[s])
    BY <2>1, NotWriting DEF Writing
  <2>. QED
    BY <1>a, <1>d, <2>1, <2>2
<1>1. ASSUME NEW s \in Savers, SaveConfig(s) PROVE Goal
  <2>1. SaveStarts(s, status) /\ UNCHANGED <<data, header, group, last>>
    BY <1>1 DEF SaveConfig
  <2>. QED
    BY <1>0, <1>d, <2>1
<1>2. ASSUME NEW s \in Savers, WriteHeader(s) PROVE Goal
  <2>1. PICK v : /\ GoodSave(v) /\ save' = [save EXCEPT ![s] = v]
                 /\ v.pc = "sets" /\ v.node = First(tree \cap Sets) /\ v.at = 0
                 /\ v.kept = save[s].kept /\ v.seen = save[s].seen
    BY <1>2, WriteHeaderMakes
  <2>2. save'[s] = v /\ \A u \in Savers \ {s} : save'[u] = save[u]
    BY <2>1, SavePut
  <2>3. /\ save[s].pc = "header" /\ data' = data /\ last' = NoPromise
        /\ \A u \in Others(s) : ~Writing(u)
    BY <1>0, <1>2 DEF WriteHeader
  <2>4. Progress(data', v)
    <3>1. save[s].kept \subseteq tree /\ tree \in SUBSET Entries
      BY <2>3, SaveNumbers DEF HistoryInv, Tracks
    <3>. QED
      BY <2>1, <3>1, ProgressStarts
  <2>5. \A u \in Savers \ {s} : Progress(data', save'[u])
    BY <2>2, <2>3, NotWriting DEF Others, Writing
  <2>6. FileSound(data', header', last')
    BY <2>3 DEF FileSound, NoPromise
  <2>. QED
    BY <2>2, <2>4, <2>5, <2>6
<1>3. ASSUME NEW s \in Savers, WriteEntry(s) PROVE Goal
  <2>. DEFINE e == save[s].node
              t == TreeOf(save[s].pc)
  <2>1. /\ data' = Written(data, save[s].at, e, LenOf(e))
        /\ save[s].at + LenOf(e) <= Capacity
        /\ e \in Entries /\ (e \in Sets => LenOf(e) = SetLen) /\ (e \in Items => LenOf(e) = ItemLen)
        /\ save[s].pc = "sets" => e \in Sets /\ t = tree \cap Sets
        /\ save[s].pc = "items" => e \in Items /\ t = tree \cap Items
        /\ group'.strayed <=> group.strayed \/ e \notin t
        /\ group'.overlap = group.overlap
    BY <1>3, EntryWritten
  <2>2. PICK v : /\ save'[s] = v /\ \A u \in Savers \ {s} : save'[u] = save[u]
                 /\ v.pc = save[s].pc /\ v.at = save[s].at + LenOf(e)
                 /\ v.node \in RbNext(t, e)
                 /\ v.cfh = save[s].cfh /\ v.kept = save[s].kept /\ v.seen = save[s].seen
    BY <1>3, EntryWritten
  <2>3. save[s].pc \in {"sets", "items"} /\ UNCHANGED last
    BY <1>3 DEF WriteEntry
  <2>4. Sound /\ e \in t /\ ~last.valid /\ \A u \in Savers \ {s} : ~Writing(u)
    BY <1>b, <2>1, <2>3 DEF AloneInv, Writing
  <2>5. /\ save[s].kept \subseteq tree /\ tree \subseteq save[s].seen /\ save[s].seen \subseteq Entries
        /\ save[s].at \in Nat /\ save[s].cfh.sizeSet \in Nat /\ data \in Data /\ tree \in SUBSET Entries
        /\ Progress(data, save[s])
    BY <2>3, <2>4, SaveNumbers DEF HistoryInv, Tracks
  <2>6. Progress(data', v)
    <3>1. CASE save[s].pc = "sets"
      <4>1. LenOf(e) = SetLen /\ e \in tree \cap Sets /\ t = tree \cap Sets
        BY <2>1, <2>4, <3>1
      <4>2. Progress(Written(data, save[s].at, e, SetLen), v)
        BY <2>1, <2>2, <2>5, <3>1, <4>1, ProgressSets
      <4>. QED
        BY <2>1, <4>1, <4>2
    <3>2. CASE save[s].pc = "items"
      <4>1. LenOf(e) = ItemLen /\ e \in tree \cap Items /\ t = tree \cap Items
        BY <2>1, <2>4, <3>2
      <4>2. Progress(Written(data, save[s].at, e, ItemLen), v)
        BY <2>1, <2>2, <2>5, <3>2, <4>1, ProgressItems
      <4>. QED
        BY <2>1, <4>1, <4>2
    <3>. QED
      BY <2>3, <3>1, <3>2
  <2>7. \A u \in Savers \ {s} : Progress(data', save'[u])
    BY <2>2, <2>4, NotWriting DEF Writing
  <2>. QED
    BY <2>2, <2>3, <2>4, <2>6, <2>7 DEF FileSound
<1>4. ASSUME NEW s \in Savers, WriteEntryShort(s) PROVE Goal
  <2>1. Stop(s) /\ UNCHANGED <<group, header, last>> /\ Writing(s)
    BY <1>4 DEF WriteEntryShort, Writing
  <2>. QED
    BY <1>b, <1>c, <2>1
<1>5. ASSUME NEW s \in Savers, SetsDone(s) \/ ItemsDone(s) PROVE Goal
  <2>1. UNCHANGED <<data, header, group, last>> /\ Sound
    BY <1>5, <1>a DEF SetsDone, ItemsDone
  <2>2. PICK v : /\ GoodSave(v) /\ save' = [save EXCEPT ![s] = v] /\ Progress(data, v)
    <3>1. CASE SetsDone(s)
      <4>1. PICK v : /\ GoodSave(v) /\ save' = [save EXCEPT ![s] = v]
                     /\ v.pc = "items" /\ v.node = First(tree \cap Items) /\ v.at = save[s].at
                     /\ v.cfh.sizeSet = save[s].at
                     /\ v.kept = save[s].kept /\ v.seen = save[s].seen
        BY <3>1, SetsDoneMakes
      <4>2. save[s].pc = "sets" /\ save[s].node = NoNode
        BY <3>1 DEF SetsDone
      <4>3. /\ Progress(data, save[s]) /\ save[s].at \in Nat
            /\ tree \in SUBSET Entries /\ save[s].kept \subseteq tree
        BY <2>1, <4>2, SaveNumbers DEF HistoryInv, Tracks
      <4>4. Progress(data, v)
        BY <4>1, <4>2, <4>3, ProgressSetsDone
      <4>. QED
        BY <4>1, <4>4
    <3>2. CASE ItemsDone(s)
      <4>1. PICK v : /\ GoodSave(v) /\ save' = [save EXCEPT ![s] = v]
                     /\ v.pc = "rewrite" /\ v.cfh.sizeSet = save[s].cfh.sizeSet
                     /\ v.cfh.sizeFiles = save[s].at - save[s].cfh.sizeSet
                     /\ v.kept = save[s].kept /\ v.seen = save[s].seen
        BY <3>2, ItemsDoneMakes
      <4>2. save[s].pc = "items" /\ save[s].node = NoNode
        BY <3>2 DEF ItemsDone
      <4>3. Progress(data, save[s])
        BY <2>1
      <4>4. Progress(data, v)
        BY <4>1, <4>2, <4>3, ProgressItemsDone
      <4>. QED
        BY <4>1, <4>4
    <3>. QED
      BY <1>5, <3>1, <3>2
  <2>3. save'[s] = v /\ \A u \in Savers \ {s} : save'[u] = save[u]
    BY <2>2, SavePut
  <2>. QED
    BY <2>1, <2>2, <2>3
<1>6. ASSUME NEW s \in Savers, Rewrite(s) PROVE Goal
  <2>1. /\ Stop(s) /\ UNCHANGED <<data, group>> /\ save[s].pc = "rewrite" /\ header' = save[s].cfh
        /\ last' = [valid |-> TRUE, kept |-> save[s].kept, seen |-> save[s].seen]
    BY <1>6 DEF Rewrite
  <2>2. last'.kept = save[s].kept /\ last'.seen = save[s].seen
    BY <2>1
  <2>3. FileSound(data', header', last')
    <3>1. Progress(data, save[s])
      BY <1>a, <2>1
    <3>. QED
      BY <2>1, <2>2, <3>1 DEF Progress, FileSound
  <2>4. Writing(s)
    BY <2>1 DEF Writing
  <2>5. \A u \in Savers : save'[u].pc \notin {"sets", "items", "rewrite"}
    BY <1>b, <2>1, <2>4, StoppedWrites DEF Writing
  <2>. QED
    BY <2>3, <2>5, NotWriting
<1>7. ASSUME NEW s \in Savers, SaveFails(s) PROVE Goal
  <2>1. Stop(s) /\ UNCHANGED <<data, group, header, last>>
    BY <1>7 DEF SaveFails
  <2>. QED
    BY <1>c, <2>1
<1>8. ASSUME Edit PROVE Goal
  <2>1. /\ UNCHANGED <<data, header, last>>
        /\ group'.overlap = group.overlap /\ group'.strayed = group.strayed
    BY <1>0, <1>8 DEF Edit
  <2>2. Sound
    BY <2>1 DEF AloneInv
  <2>3. ASSUME NEW u \in Savers PROVE Progress(data', save'[u])
    <3>1. /\ save'[u].pc = save[u].pc /\ save'[u].cfh = save[u].cfh
          /\ save'[u].at = save[u].at /\ save'[u].node = save[u].node
          /\ save[u].pc # "idle" => /\ save'[u].kept = save[u].kept \cap tree'
                                    /\ save'[u].seen = save[u].seen \cup tree'
      BY <1>8, EditMakes
    <3>2. CASE save[u].pc = "idle"
      BY <3>1, <3>2, NotWriting
    <3>3. CASE save[u].pc # "idle"
      <4>1. save'[u].kept \subseteq save[u].kept /\ save[u].seen \subseteq save'[u].seen
        BY <3>1, <3>3
      <4>. QED
        BY <2>1, <2>2, <3>1, <4>1, ProgressEdit
    <3>. QED
      BY <3>2, <3>3
  <2>. QED
    BY <2>1, <2>2, <2>3
<1>9. ASSUME ResetShutdownStatus \/ UNCHANGED vars PROVE Goal
  <2>1. UNCHANGED <<save, data, header, group, last>>
    BY <1>9 DEF ResetShutdownStatus, vars
  <2>. QED
    BY <1>a, <2>1
<1>10. ASSUME MyReboot PROVE Goal
  <2>1. SaveStarts("reboot", "systemshutdown") /\ UNCHANGED <<data, header, group, last>>
    BY <1>10 DEF MyReboot, RebootBegins
  <2>. QED
    BY <1>0, <1>d, <2>1
<1>11. ASSUME LoadConfig PROVE Goal
  <2>1. save' = [s \in Savers |-> Idle] /\ UNCHANGED <<data, header, group, last>>
    BY <1>11 DEF LoadConfig
  <2>2. \A u \in Savers : save'[u].pc \notin {"sets", "items", "rewrite"}
    BY <2>1 DEF Idle
  <2>. QED
    BY <1>a, <2>1, <2>2, NotWriting
<1>. QED
  BY <1>1, <1>2, <1>3, <1>4, <1>5, <1>6, <1>7, <1>8, <1>9, <1>10, <1>11 DEF Next

-----------------------------------------------------------------------------
(* Saves that overlap while the trees stay as they are *)

SizesOf(h, T) == h.sizeSet = SetsEnd(T) /\ h.sizeFiles = ItemsEnd(T)

(* A save that is writing the tree T. *)
Along(d, v, T) ==
  /\ v.pc = "sets" =>
       /\ v.node \in (T \cap Sets) \cup {NoNode}
       /\ v.at = SetPlace(T, v.node)
       /\ Held(d, T, Before(T \cap Sets, v.node))
  /\ v.pc = "items" =>
       /\ v.node \in (T \cap Items) \cup {NoNode}
       /\ v.cfh.sizeSet = SetsEnd(T) /\ v.at = ItemPlace(T, v.node)
       /\ Held(d, T, (T \cap Sets) \cup Before(T \cap Items, v.node))
  /\ v.pc = "rewrite" => SizesOf(v.cfh, T) /\ Held(d, T, T)

(* What the last save to complete has left of T. *)
LeftOf(d, h, l, T) ==
  l.valid => l.kept \subseteq T /\ T \subseteq l.seen /\ SizesOf(h, T) /\ Held(d, T, T)

FixedInv ==
  ~group.edited /\ ~group.strayed =>
    \E T \in SUBSET Entries :
      /\ \A s \in Savers : Writing(s) => T = tree /\ Along(data, save[s], T)
      /\ LeftOf(data, header, last, T)

LEMMA FixedInit == Init => FixedInv
<1>. SUFFICES ASSUME Init PROVE FixedInv
  OBVIOUS
<1>1. \A s \in Savers : ~Writing(s)
  BY DEF Init, Idle, Writing
<1>2. LeftOf(data, header, last, {})
  BY DEF Init, NoPromise, LeftOf
<1>. QED
  BY <1>1, <1>2 DEF FixedInv

(* Another entry of T is written at its place. *)
LEMMA AlongStays ==
  ASSUME NEW d \in Data, NEW T \in SUBSET Entries, NEW e \in T, NEW m \in Nat, m <= LenOf(e),
         NEW v, Along(d, v, T)
  PROVE  Along(Written(d, Place(T, e), e, m), v, T)
<1>1. /\ Before(T \cap Sets, v.node) \in SUBSET T
      /\ (T \cap Sets) \cup Before(T \cap Items, v.node) \in SUBSET T
      /\ T \in SUBSET T
  BY DEF Before
<1>2. \A X \in SUBSET T : Held(d, T, X) => Held(Written(d, Place(T, e), e, m), T, X)
  BY HeldStays
<1>. QED
  BY <1>1, <1>2 DEF Along

LEMMA LeftStays ==
  ASSUME NEW d \in Data, NEW T \in SUBSET Entries, NEW e \in T, NEW m \in Nat, m <= LenOf(e),
         NEW h, NEW l, LeftOf(d, h, l, T)
  PROVE  LeftOf(Written(d, Place(T, e), e, m), h, l, T)
<1>1. \A X \in SUBSET T : Held(d, T, X) => Held(Written(d, Place(T, e), e, m), T, X)
  BY HeldStays
<1>. QED
  BY <1>1 DEF LeftOf

(* A save writes an entry of T at its place. *)
LEMMA AlongAt ==
  ASSUME NEW d, NEW T \in SUBSET Entries, NEW v, v.pc \in {"sets", "items"}, Along(d, v, T), v.node # NoNode
  PROVE  v.node \in T /\ v.at = Place(T, v.node)
<1>1. CASE v.pc = "sets"
  BY <1>1 DEF Along, Place
<1>2. CASE v.pc = "items"
  <2>1. v.node \in T \cap Items /\ v.node \notin Sets
    BY <1>2, Sizing DEF Along
  <2>. QED
    BY <1>2, <2>1 DEF Along, Place
<1>. QED
  BY <1>1, <1>2

(* Where the walk of a part of the tree begins. *)
LEMMA FirstBehind ==
  ASSUME NEW S \in SUBSET (Nat \ {NoNode})
  PROVE  First(S) \in S \cup {NoNode} /\ Before(S, First(S)) = {}
BY FirstIsLeast, BeforeEnds

LEMMA NextBehind ==
  ASSUME NEW S \in SUBSET (Nat \ {NoNode}), IsFiniteSet(S), NEW e \in S, NEW n \in RbNext(S, e)
  PROVE  /\ n \in S \cup {NoNode} /\ Before(S, n) = Before(S, e) \cup {e}
         /\ Cardinality(Before(S, n)) = Cardinality(Before(S, e)) + 1
<1>1. n \in S \cup {NoNode} /\ Before(S, n) = Before(S, e) \cup {e}
  BY BeforeNext
<1>2. Cardinality(Before(S, n)) = Cardinality(Before(S, e)) + 1
  BY CountNext
<1>. QED
  BY <1>1, <1>2

LEMMA AlongStarts ==
  ASSUME NEW d, NEW T \in SUBSET Entries, NEW v, v.pc = "sets", v.at = 0, v.node = First(T \cap Sets)
  PROVE  Along(d, v, T)
<1>1. v.node \in (T \cap Sets) \cup {NoNode} /\ Before(T \cap Sets, v.node) = {}
  <2>1. T \cap Sets \in SUBSET (Nat \ {NoNode})
    BY TreeParts
  <2>2. First(T \cap Sets) \in (T \cap Sets) \cup {NoNode} /\ Before(T \cap Sets, First(T \cap Sets)) = {}
    BY <2>1, FirstBehind
  <2>. QED
    BY <2>2
<1>2. v.at = SetPlace(T, v.node)
  BY Ends
<1>. QED
  BY <1>1, <1>2 DEF Along, Held

(* It writes the next. *)
LEMMA AlongGoes ==
  ASSUME NEW d \in Data, NEW T \in SUBSET Entries,
         NEW old, old.pc \in {"sets", "items"}, Along(d, old, T), old.node # NoNode,
         NEW v, v.pc = old.pc, v.at = old.at + LenOf(old.node), v.cfh = old.cfh,
         NEW t, old.pc = "sets" => t = T \cap Sets, old.pc = "items" => t = T \cap Items,
         v.node \in RbNext(t, old.node)
  PROVE  Along(Written(d, old.at, old.node, LenOf(old.node)), v, T)
<1>. DEFINE e == old.node
            dd == Written(d, old.at, e, LenOf(e))
<1>1. e \in T /\ old.at = Place(T, e)
  BY AlongAt
<1>2. \A X \in SUBSET T : Held(d, T, X) => Held(dd, T, X \cup {e})
  BY <1>1, HeldGrows
<1>. HIDE DEF dd
<1>3. CASE old.pc = "sets"
  <2>1. e \in T \cap Sets /\ LenOf(e) = SetLen /\ v.node \in RbNext(T \cap Sets, e)
    BY <1>3, EntryLen DEF Along
  <2>2. /\ v.node \in (T \cap Sets) \cup {NoNode}
        /\ Before(T \cap Sets, v.node) = Before(T \cap Sets, e) \cup {e}
        /\ Cardinality(Before(T \cap Sets, v.node)) = Cardinality(Before(T \cap Sets, e)) + 1
    <3>1. T \cap Sets \in SUBSET (Nat \ {NoNode}) /\ IsFiniteSet(T \cap Sets)
      BY TreeParts
    <3>. QED
      BY <2>1, <3>1, NextBehind
  <2>3. Held(dd, T, Before(T \cap Sets, v.node))
    <3>1. Before(T \cap Sets, e) \in SUBSET T /\ Held(d, T, Before(T \cap Sets, e))
      BY <1>3 DEF Along, Before
    <3>. QED
      BY <1>2, <2>2, <3>1
  <2>4. v.at = SetPlace(T, v.node)
    <3>1. Cardinality(Before(T \cap Sets, e)) \in Nat
      BY TreeParts, BeforeFinite
    <3>2. SetLen * (Cardinality(Before(T \cap Sets, e)) + 1) = SetLen * Cardinality(Before(T \cap Sets, e)) + SetLen
      BY <3>1, Sizing, Times
    <3>3. old.at = SetLen * Cardinality(Before(T \cap Sets, e))
      BY <1>3 DEF Along, SetPlace
    <3>. QED
      BY <2>1, <2>2, <3>2, <3>3 DEF SetPlace
  <2>5. v.pc = "sets"
    BY <1>3
  <2>6. Along(dd, v, T)
    BY <2>2, <2>3, <2>4, <2>5 DEF Along
  <2>. QED
    BY <2>6 DEF dd
<1>4. CASE old.pc = "items"
  <2>1. e \in T \cap Items /\ LenOf(e) = ItemLen /\ v.node \in RbNext(T \cap Items, e)
    BY <1>4, EntryLen DEF Along
  <2>2. /\ v.node \in (T \cap Items) \cup {NoNode}
        /\ Before(T \cap Items, v.node) = Before(T \cap Items, e) \cup {e}
        /\ Cardinality(Before(T \cap Items, v.node)) = Cardinality(Before(T \cap Items, e)) + 1
    <3>1. T \cap Items \in SUBSET (Nat \ {NoNode}) /\ IsFiniteSet(T \cap Items)
      BY TreeParts
    <3>. QED
      BY <2>1, <3>1, NextBehind
  <2>3. Held(dd, T, (T \cap Sets) \cup Before(T \cap Items, v.node))
    <3>1. /\ (T \cap Sets) \cup Before(T \cap Items, e) \in SUBSET T
          /\ Held(d, T, (T \cap Sets) \cup Before(T \cap Items, e))
      BY <1>4 DEF Along, Before
    <3>2. Held(dd, T, ((T \cap Sets) \cup Before(T \cap Items, e)) \cup {e})
      BY <1>2, <3>1
    <3>. QED
      BY <2>2, <3>2 DEF Held
  <2>4. v.at = ItemPlace(T, v.node)
    <3>. DEFINE n == Cardinality(Before(T \cap Items, e))
    <3>1. n \in Nat
      BY TreeParts, BeforeFinite
    <3>2. ItemLen * (n + 1) = ItemLen * n + ItemLen /\ ItemLen * n \in Nat /\ ItemLen \in Nat
      BY <3>1, Sizing, Times
    <3>3. old.at = SetsEnd(T) + ItemLen * n
      BY <1>4 DEF Along, ItemPlace
    <3>4. SetsEnd(T) \in Nat
      BY Ends
    <3>5. ItemPlace(T, v.node) = SetsEnd(T) + ItemLen * (n + 1)
      BY <2>2 DEF ItemPlace
    <3>. HIDE DEF n
    <3>. DEFINE q == ItemLen * n
    <3>6. q \in Nat /\ old.at = SetsEnd(T) + q /\ ItemPlace(T, v.node) = SetsEnd(T) + (q + ItemLen)
      BY <3>2, <3>3, <3>5
    <3>. HIDE DEF q
    <3>7. v.at = (SetsEnd(T) + q) + ItemLen
      BY <2>1, <3>6
    <3>. QED
      BY <3>2, <3>4, <3>6, <3>7
  <2>5. v.cfh.sizeSet = SetsEnd(T)
    BY <1>4 DEF Along
  <2>6. v.pc = "items"
    BY <1>4
  <2>7. Along(dd, v, T)
    BY <2>2, <2>3, <2>4, <2>5, <2>6 DEF Along
  <2>. QED
    BY <2>7 DEF dd
<1>. QED
  BY <1>3, <1>4

LEMMA AlongSetsDone ==
  ASSUME NEW d, NEW T \in SUBSET Entries, NEW old, old.pc = "sets", old.node = NoNode, Along(d, old, T),
         NEW v, v.pc = "items", v.node = First(T \cap Items), v.at = old.at, v.cfh.sizeSet = old.at
  PROVE  Along(d, v, T)
<1>1. old.at = SetsEnd(T) /\ SetsEnd(T) = ItemPlace(T, v.node)
  BY Ends DEF Along
<1>2. Held(d, T, T \cap Sets)
  BY TreeParts, BeforeEnds DEF Along
<1>3. v.node \in (T \cap Items) \cup {NoNode} /\ Before(T \cap Items, v.node) = {}
  <2>1. T \cap Items \in SUBSET (Nat \ {NoNode})
    BY TreeParts
  <2>2. First(T \cap Items) \in (T \cap Items) \cup {NoNode} /\ Before(T \cap Items, First(T \cap Items)) = {}
    BY <2>1, FirstBehind
  <2>. QED
    BY <2>2
<1>. QED
  BY <1>1, <1>2, <1>3 DEF Along

LEMMA AlongItemsDone ==
  ASSUME NEW d, NEW T \in SUBSET Entries, NEW old, old.pc = "items", old.node = NoNode, Along(d, old, T),
         NEW v, v.pc = "rewrite", v.cfh.sizeSet = old.cfh.sizeSet,
         v.cfh.sizeFiles = old.at - old.cfh.sizeSet
  PROVE  Along(d, v, T)
<1>1. /\ old.cfh.sizeSet = SetsEnd(T) /\ old.at = SetsEnd(T) + ItemsEnd(T)
      /\ SetsEnd(T) \in Nat /\ ItemsEnd(T) \in Nat
  BY Ends DEF Along
<1>2. (SetsEnd(T) + ItemsEnd(T)) - SetsEnd(T) = ItemsEnd(T)
  BY <1>1
<1>3. Held(d, T, T)
  <2>1. (T \cap Sets) \cup Before(T \cap Items, NoNode) = T
    <3>1. Before(T \cap Items, NoNode) = T \cap Items
      BY TreeParts, BeforeEnds
    <3>. QED
      BY <3>1 DEF Entries
  <2>. QED
    BY <2>1 DEF Along
<1>. QED
  BY <1>1, <1>2, <1>3 DEF Along, SizesOf

LEMMA FixedStep == TypeInv /\ HistoryInv /\ FixedInv /\ [Next]_vars => FixedInv'
<1>. DEFINE Old(T) == /\ \A u \in Savers : Writing(u) => T = tree /\ Along(data, save[u], T)
                      /\ LeftOf(data, header, last, T)
            New(T) == /\ \A u \in Savers : Writing(u)' => T = tree' /\ Along(data', save'[u], T)
                      /\ LeftOf(data', header', last', T)
<1>. SUFFICES ASSUME TypeInv, HistoryInv, FixedInv, [Next]_vars, ~group'.edited, ~group'.strayed
              PROVE  \E T \in SUBSET Entries : New(T)
  BY DEF FixedInv
<1>. USE DEF memory, file, counts
<1>0. /\ status \in Status /\ "systemshutdown" \in Status /\ "reboot" \in Savers
      /\ group \in [overlap : BOOLEAN, edited : BOOLEAN, strayed : BOOLEAN]
      /\ tree \in SUBSET Entries /\ data \in Data
  BY DEF TypeInv, TypeOK, Status, Savers, Data
<1>a. ~group.edited /\ ~group.strayed => \E T \in SUBSET Entries : Old(T)
  BY DEF FixedInv
<1>b. ASSUME NEW T \in SUBSET Entries, NEW s \in Savers, Old(T), Stop(s), tree' = tree,
             \A u \in Savers : Along(data, save[u], T) => Along(data', save[u], T),
             LeftOf(data', header', last', T)
      PROVE  New(T)
  BY <1>b, StoppedWrites
<1>c. ASSUME NEW s \in Savers, NEW st \in Status, SaveStarts(s, st),
             UNCHANGED <<tree, data, header, group, last>>
      PROVE  \E T \in SUBSET Entries : New(T)
  <2>1. PICK T \in SUBSET Entries : Old(T)
    BY <1>a, <1>c
  <2>2. (\A u \in Savers \ {s} : save'[u] = save[u]) /\ ~Writing(s)'
    BY <1>c, StartedWrites
  <2>3. New(T)
    BY <1>c, <2>1, <2>2 DEF Writing
  <2>. QED
    BY <2>3
<1>1. ASSUME NEW s \in Savers, SaveConfig(s) PROVE \E T \in SUBSET Entries : New(T)
  <2>1. SaveStarts(s, status) /\ UNCHANGED <<tree, data, header, group, last>>
    BY <1>1 DEF SaveConfig
  <2>. QED
    BY <1>0, <1>c, <2>1
<1>2. ASSUME NEW s \in Savers, WriteHeader(s) PROVE \E T \in SUBSET Entries : New(T)
  <2>1. PICK v : /\ GoodSave(v) /\ save' = [save EXCEPT ![s] = v]
                 /\ v.pc = "sets" /\ v.node = First(tree \cap Sets) /\ v.at = 0
    BY <1>2, WriteHeaderMakes
  <2>2. save'[s] = v /\ \A u \in Savers \ {s} : save'[u] = save[u]
    BY <2>1, SavePut
  <2>3. UNCHANGED <<tree, data>> /\ last' = NoPromise
    BY <1>2 DEF WriteHeader
  <2>4. Along(data, v, tree)
    BY <1>0, <2>1, AlongStarts
  <2>5. ASSUME NEW u \in Savers \ {s}, Writing(u) PROVE Along(data, save[u], tree)
    <3>1. group'.edited = group.edited /\ group'.strayed = group.strayed
      BY <1>0, <1>2, <2>5 DEF WriteHeader, Others
    <3>2. PICK T \in SUBSET Entries : Old(T)
      BY <1>a, <3>1
    <3>. QED
      BY <2>5, <3>2
  <2>6. New(tree)
    BY <2>2, <2>3, <2>4, <2>5 DEF Writing, LeftOf, NoPromise
  <2>. QED
    BY <1>0, <2>6
<1>3. ASSUME NEW s \in Savers, WriteEntry(s) PROVE \E T \in SUBSET Entries : New(T)
  <2>. DEFINE old == save[s]
              e == old.node
              t == TreeOf(old.pc)
  <2>1. /\ data' = Written(data, old.at, e, LenOf(e))
        /\ e \in Entries
        /\ group'.strayed <=> group.strayed \/ e \notin t
        /\ group'.edited = group.edited
    BY <1>3, EntryWritten
  <2>2. PICK v : /\ save'[s] = v /\ \A u \in Savers \ {s} : save'[u] = save[u]
                 /\ v.pc = old.pc /\ v.at = old.at + LenOf(e)
                 /\ v.node \in RbNext(t, e) /\ v.cfh = old.cfh
    BY <1>3, EntryWritten
  <2>3. old.pc \in {"sets", "items"} /\ e # NoNode /\ UNCHANGED <<tree, header, last>>
    BY <1>3 DEF WriteEntry
  <2>4. PICK T \in SUBSET Entries : Old(T)
    BY <1>a, <2>1
  <2>5. T = tree /\ Along(data, old, T)
    BY <2>3, <2>4 DEF Writing
  <2>6. e \in T /\ old.at = Place(T, e) /\ LenOf(e) \in Nat
    BY <2>1, <2>3, <2>5, AlongAt, EntryLen
  <2>7. Along(data', v, T)
    <3>1. /\ old.pc = "sets" => t = T \cap Sets
          /\ old.pc = "items" => t = T \cap Items
      BY <2>5 DEF TreeOf
    <3>. HIDE DEF t, old
    <3>2. Along(Written(data, old.at, e, LenOf(e)), v, T)
      BY <1>0, <2>2, <2>3, <2>5, <3>1, AlongGoes
    <3>. QED
      BY <2>1, <3>2
  <2>8. \A u \in Savers \ {s} : Along(data, save[u], T) => Along(data', save[u], T)
    <3>. HIDE DEF e, t, old
    <3>. QED
      BY <1>0, <2>1, <2>6, AlongStays
  <2>9. LeftOf(data', header', last', T)
    <3>1. LeftOf(Written(data, Place(T, e), e, LenOf(e)), header, last, T)
      <4>. HIDE DEF e, t, old
      <4>. QED
        BY <1>0, <2>4, <2>6, LeftStays
    <3>. QED
      BY <2>1, <2>3, <2>6, <3>1
  <2>10. New(T)
    <3>1. \A u \in Savers : Writing(u)' => T = tree' /\ Along(data', save'[u], T)
      BY <2>2, <2>3, <2>4, <2>5, <2>7, <2>8 DEF Writing
    <3>. QED
      BY <2>9, <3>1
  <2>. QED
    BY <2>10
<1>4. ASSUME NEW s \in Savers, WriteEntryShort(s) PROVE \E T \in SUBSET Entries : New(T)
  <2>. DEFINE e == save[s].node
  <2>1. /\ Stop(s) /\ UNCHANGED <<tree, header, group, last>>
        /\ save[s].pc \in {"sets", "items"} /\ e # NoNode
    BY <1>4 DEF WriteEntryShort
  <2>2. PICK n \in 0..(LenOf(e) - 1) : data' = Written(data, save[s].at, e, n)
    BY <1>4 DEF WriteEntryShort, FileWrite, Written
  <2>3. PICK T \in SUBSET Entries : Old(T)
    BY <1>a, <2>1
  <2>4. e \in T /\ save[s].at = Place(T, e)
    <3>1. Along(data, save[s], T)
      BY <2>1, <2>3 DEF Writing
    <3>. QED
      BY <2>1, <3>1, AlongAt
  <2>5. n \in Nat /\ n <= LenOf(e)
    <3>1. LenOf(e) \in Nat
      BY <2>4, EntryLen
    <3>. QED
      BY <3>1
  <2>. HIDE DEF e
  <2>6. \A u \in Savers : Along(data, save[u], T) => Along(data', save[u], T)
    BY <1>0, <2>2, <2>4, <2>5, AlongStays
  <2>7. LeftOf(data', header', last', T)
    <3>1. LeftOf(Written(data, Place(T, e), e, n), header, last, T)
      BY <1>0, <2>3, <2>4, <2>5, LeftStays
    <3>. QED
      BY <2>1, <2>2, <2>4, <3>1
  <2>8. New(T)
    BY <1>b, <2>1, <2>3, <2>6, <2>7
  <2>. QED
    BY <2>8
<1>5. ASSUME NEW s \in Savers, SetsDone(s) \/ ItemsDone(s) PROVE \E T \in SUBSET Entries : New(T)
  <2>1. UNCHANGED <<tree, data, header, group, last>> /\ Writing(s)
    BY <1>5 DEF SetsDone, ItemsDone, Writing
  <2>2. PICK T \in SUBSET Entries : Old(T)
    BY <1>a, <2>1
  <2>3. T = tree /\ Along(data, save[s], T)
    BY <2>1, <2>2
  <2>4. PICK v : /\ GoodSave(v) /\ save' = [save EXCEPT ![s] = v] /\ Along(data, v, T)
    <3>1. CASE SetsDone(s)
      <4>1. PICK v : /\ GoodSave(v) /\ save' = [save EXCEPT ![s] = v]
                     /\ v.pc = "items" /\ v.node = First(tree \cap Items) /\ v.at = save[s].at
                     /\ v.cfh.sizeSet = save[s].at
        BY <3>1, SetsDoneMakes
      <4>2. save[s].pc = "sets" /\ save[s].node = NoNode
        BY <3>1 DEF SetsDone
      <4>3. Along(data, v, T)
        BY <2>3, <4>1, <4>2, AlongSetsDone
      <4>. QED
        BY <4>1, <4>3
    <3>2. CASE ItemsDone(s)
      <4>1. PICK v : /\ GoodSave(v) /\ save' = [save EXCEPT ![s] = v]
                     /\ v.pc = "rewrite" /\ v.cfh.sizeSet = save[s].cfh.sizeSet
                     /\ v.cfh.sizeFiles = save[s].at - save[s].cfh.sizeSet
        BY <3>2, ItemsDoneMakes
      <4>2. save[s].pc = "items" /\ save[s].node = NoNode
        BY <3>2 DEF ItemsDone
      <4>3. Along(data, v, T)
        BY <2>3, <4>1, <4>2, AlongItemsDone
      <4>. QED
        BY <4>1, <4>3
    <3>. QED
      BY <1>5, <3>1, <3>2
  <2>5. save'[s] = v /\ \A u \in Savers \ {s} : save'[u] = save[u]
    BY <2>4, SavePut
  <2>6. New(T)
    BY <2>1, <2>2, <2>3, <2>4, <2>5 DEF Writing
  <2>. QED
    BY <2>6
<1>6. ASSUME NEW s \in Savers, Rewrite(s) PROVE \E T \in SUBSET Entries : New(T)
  <2>1. /\ Stop(s) /\ UNCHANGED <<tree, data, group>> /\ save[s].pc = "rewrite" /\ header' = save[s].cfh
        /\ last' = [valid |-> TRUE, kept |-> save[s].kept, seen |-> save[s].seen]
    BY <1>6 DEF Rewrite
  <2>2. PICK T \in SUBSET Entries : Old(T)
    BY <1>a, <2>1
  <2>3. T = tree /\ Along(data, save[s], T)
    BY <2>1, <2>2 DEF Writing
  <2>4. save[s].kept \subseteq T /\ T \subseteq save[s].seen
    BY <2>1, <2>3 DEF HistoryInv, Tracks
  <2>5. last'.kept = save[s].kept /\ last'.seen = save[s].seen
    BY <2>1
  <2>6. LeftOf(data', header', last', T)
    BY <2>1, <2>3, <2>4, <2>5 DEF Along, LeftOf
  <2>7. New(T)
    BY <1>b, <2>1, <2>2, <2>6
  <2>. QED
    BY <2>7
<1>7. ASSUME NEW s \in Savers, SaveFails(s) PROVE \E T \in SUBSET Entries : New(T)
  <2>1. Stop(s) /\ UNCHANGED <<tree, data, header, group, last>>
    BY <1>7 DEF SaveFails
  <2>2. PICK T \in SUBSET Entries : Old(T)
    BY <1>a, <2>1
  <2>3. New(T)
    BY <1>b, <2>1, <2>2
  <2>. QED
    BY <2>3
<1>8. ASSUME Edit PROVE \E T \in SUBSET Entries : New(T)
  <2>1. /\ UNCHANGED <<data, header, last>>
        /\ group'.strayed = group.strayed
        /\ group'.edited <=> group.edited \/ \E s \in Savers : Writing(s)
    BY <1>0, <1>8 DEF Edit
  <2>2. PICK T \in SUBSET Entries : Old(T)
    BY <1>a, <2>1
  <2>3. \A u \in Savers : ~Writing(u)'
    BY <1>8, <2>1, EditMakes DEF Writing
  <2>4. New(T)
    BY <2>1, <2>2, <2>3
  <2>. QED
    BY <2>4
<1>9. ASSUME ResetShutdownStatus \/ UNCHANGED vars PROVE \E T \in SUBSET Entries : New(T)
  <2>1. UNCHANGED <<tree, save, data, header, group, last>>
    BY <1>9 DEF ResetShutdownStatus, vars
  <2>2. PICK T \in SUBSET Entries : Old(T)
    BY <1>a, <2>1
  <2>3. New(T)
    BY <2>1, <2>2 DEF Writing
  <2>. QED
    BY <2>3
<1>10. ASSUME MyReboot PROVE \E T \in SUBSET Entries : New(T)
  <2>1. SaveStarts("reboot", "systemshutdown") /\ UNCHANGED <<tree, data, header, group, last>>
    BY <1>10 DEF MyReboot, RebootBegins
  <2>. QED
    BY <1>0, <1>c, <2>1
<1>11. ASSUME LoadConfig PROVE \E T \in SUBSET Entries : New(T)
  <2>1. save' = [s \in Savers |-> Idle] /\ UNCHANGED <<data, header, group, last>>
    BY <1>11 DEF LoadConfig
  <2>2. PICK T \in SUBSET Entries : Old(T)
    BY <1>a, <2>1
  <2>3. \A u \in Savers : ~Writing(u)'
    BY <2>1 DEF Idle, Writing
  <2>4. New(T)
    BY <2>1, <2>2, <2>3
  <2>. QED
    BY <2>4
<1>. QED
  BY <1>1, <1>2, <1>3, <1>4, <1>5, <1>6, <1>7, <1>8, <1>9, <1>10, <1>11 DEF Next

-----------------------------------------------------------------------------
(* What LoadConfig finds *)

LEMMA WholeQuotient ==
  ASSUME NEW len \in Nat \ {0}, NEW m \in Nat
  PROVE  (len * m) \div len = m
BY Z3

LEMMA NoQuotient ==
  ASSUME NEW len \in Nat \ {0}
  PROVE  0 \div len = 0
BY Z3

(* The layout of a tree is a pair of rows with all of its entries. *)
LEMMA LayoutIsRows ==
  ASSUME NEW d, NEW T \in SUBSET Entries, Held(d, T, T), NEW kept \in SUBSET T,
         NEW seen, T \subseteq seen
  PROVE  Rows(d, SetsEnd(T), ItemsEnd(T), kept \cap Sets, kept \cap Items, seen)
<1>. DEFINE m == Cardinality(T \cap Sets)
            n == Cardinality(T \cap Items)
<1>1. /\ T \cap Sets \in SUBSET (Nat \ {NoNode}) /\ IsFiniteSet(T \cap Sets) /\ m \in Nat
      /\ T \cap Items \in SUBSET (Nat \ {NoNode}) /\ IsFiniteSet(T \cap Items) /\ n \in Nat
  BY TreeParts
<1>2. ASSUME NEW S \in SUBSET (Nat \ {NoNode}), IsFiniteSet(S), NEW from, NEW len,
             \A e \in S : Holds(d, from + len * Cardinality(Before(S, e)), e),
             NEW must \in SUBSET S, NEW may, S \subseteq may
      PROVE  Row(d, from, len, Cardinality(S), must, may)
  <2>0. Cardinality(S) \in Nat
    BY <1>2, BeforeFinite
  <2>1. ASSUME NEW i \in 0..(Cardinality(S) - 1) PROVE \E e \in may : Holds(d, from + len * i, e)
    <3>1. i \in Nat /\ i < Cardinality(S)
      BY <2>0
    <3>2. PICK e \in S : Cardinality(Before(S, e)) = i
      BY <1>2, <3>1, Ranks
    <3>. QED
      BY <1>2, <3>2
  <2>2. ASSUME NEW e \in must PROVE \E i \in 0..(Cardinality(S) - 1) : Holds(d, from + len * i, e)
    <3>1. /\ Cardinality(Before(S, e)) \in Nat
          /\ Cardinality(Before(S, e)) + 1 <= Cardinality(Before(S, NoNode))
      BY <1>2, BeforeFinite, BeforeGrows
    <3>2. Before(S, NoNode) = S
      BY BeforeEnds
    <3>3. Cardinality(Before(S, e)) \in 0..(Cardinality(S) - 1)
      BY <2>0, <3>1, <3>2
    <3>. QED
      BY <1>2, <3>3
  <2>. QED
    BY <2>1, <2>2 DEF Row
<1>3. Row(d, 0, SetLen, m, kept \cap Sets, seen \cap Sets)
  <2>1. ASSUME NEW e \in T \cap Sets
        PROVE  Holds(d, 0 + SetLen * Cardinality(Before(T \cap Sets, e)), e)
    <3>1. Holds(d, SetLen * Cardinality(Before(T \cap Sets, e)), e)
      BY DEF Held, Place, SetPlace
    <3>2. SetLen * Cardinality(Before(T \cap Sets, e)) \in Nat
      BY <1>1, BeforeFinite, Sizing, Times
    <3>3. 0 + SetLen * Cardinality(Before(T \cap Sets, e)) = SetLen * Cardinality(Before(T \cap Sets, e))
      BY <3>2
    <3>. QED
      BY <3>1, <3>3
  <2>2. kept \cap Sets \in SUBSET (T \cap Sets) /\ T \cap Sets \subseteq seen \cap Sets
    OBVIOUS
  <2>. QED
    BY <1>1, <1>2, <2>1, <2>2
<1>4. Row(d, SetsEnd(T), ItemLen, n, kept \cap Items, seen \cap Items)
  <2>1. ASSUME NEW e \in T \cap Items
        PROVE  Holds(d, SetsEnd(T) + ItemLen * Cardinality(Before(T \cap Items, e)), e)
    <3>1. e \notin Sets /\ e \in T
      BY Sizing
    <3>. QED
      BY <3>1 DEF Held, Place, ItemPlace
  <2>2. kept \cap Items \in SUBSET (T \cap Items) /\ T \cap Items \subseteq seen \cap Items
    OBVIOUS
  <2>. QED
    BY <1>1, <1>2, <2>1, <2>2
<1>5. SetsEnd(T) = SetLen * m /\ ItemsEnd(T) = ItemLen * n
  BY DEF SetsEnd, ItemsEnd
<1>. QED
  BY <1>1, <1>3, <1>4, <1>5 DEF Rows

LEMMA PlacesOfRow ==
  ASSUME NEW len \in Nat \ {0}, NEW from \in Nat, NEW n \in Nat
  PROVE  /\ {from + i * len : i \in 0..((len * n) \div len - 1)} = {from + len * i : i \in 0..(n - 1)}
         /\ \A i \in 0..(n - 1) : from + len * i \in Nat
<1>1. (len * n) \div len = n
  BY WholeQuotient
<1>2. ASSUME NEW i \in Nat PROVE i * len = len * i /\ from + len * i \in Nat
  <2>1. i * len = len * i /\ len * i \in Nat
    BY Z3
  <2>. QED
    BY <2>1
<1>3. \A i \in 0..(n - 1) : from + i * len = from + len * i /\ from + len * i \in Nat
  <2>1. \A i \in 0..(n - 1) : i \in Nat
    OBVIOUS
  <2>. QED
    BY <1>2, <2>1
<1>4. {from + i * len : i \in 0..(n - 1)} = {from + len * i : i \in 0..(n - 1)}
  BY <1>3, Zenon
<1>. QED
  BY <1>1, <1>3, <1>4

(* From a file that is two rows LoadConfig reads what must be there, and       *)
(* nothing but what may: an item is kept with its set.                       *)
LEMMA SoundLoads ==
  ASSUME TypeInv, HistoryInv, last.valid, FileSound(data, header, last)
  PROVE  ~Torn /\ last.kept \subseteq Loaded /\ Loaded \subseteq last.seen
<1>. DEFINE S == last.seen \cap Sets
            I == last.seen \cap Items
            z == header.sizeSet
<1>1. PICK m \in Nat, n \in Nat :
        /\ z = SetLen * m /\ Row(data, 0, SetLen, m, last.kept \cap Sets, S)
        /\ header.sizeFiles = ItemLen * n /\ Row(data, z, ItemLen, n, last.kept \cap Items, I)
  BY DEF FileSound, Rows
<1>2. z \in Nat /\ last.kept \in SUBSET Entries /\ last.seen \in SUBSET Entries
  <2>1. z \in Sizes
    BY HeaderFields DEF TypeInv, TypeOK
  <2>2. last \in [valid : BOOLEAN, kept : SUBSET Entries, seen : SUBSET Entries]
    BY DEF TypeInv, TypeOK
  <2>. HIDE DEF z
  <2>3. z \in Nat
    BY <2>1, Sizing DEF Sizes
  <2>. QED
    BY <2>2, <2>3
<1>3. SetPlaces = {0 + SetLen * i : i \in 0..(m - 1)} /\ \A i \in 0..(m - 1) : 0 + SetLen * i \in Nat
  <2>1. /\ {0 + i * SetLen : i \in 0..((SetLen * m) \div SetLen - 1)} = {0 + SetLen * i : i \in 0..(m - 1)}
        /\ \A i \in 0..(m - 1) : 0 + SetLen * i \in Nat
    BY Sizing, PlacesOfRow
  <2>2. (SetLen * m) \div SetLen = m
    BY Sizing, WholeQuotient
  <2>3. \A i \in 0..(m - 1) : i * SetLen \in Nat /\ 0 + i * SetLen = i * SetLen
    <3>1. \A i \in 0..(m - 1) : i * SetLen \in Nat
      BY Sizing, Times
    <3>. QED
      BY <3>1
  <2>4. SetPlaces = {i * SetLen : i \in 0..((SetLen * m) \div SetLen - 1)}
    BY <1>1 DEF SetPlaces
  <2>. QED
    BY <2>1, <2>2, <2>3, <2>4
<1>4. ItemPlaces = {z + ItemLen * i : i \in 0..(n - 1)} /\ \A i \in 0..(n - 1) : z + ItemLen * i \in Nat
  <2>1. /\ {z + i * ItemLen : i \in 0..((ItemLen * n) \div ItemLen - 1)} = {z + ItemLen * i : i \in 0..(n - 1)}
        /\ \A i \in 0..(n - 1) : z + ItemLen * i \in Nat
    BY <1>2, Sizing, PlacesOfRow
  <2>2. ItemPlaces = {z + i * ItemLen : i \in 0..((ItemLen * n) \div ItemLen - 1)}
    BY <1>1 DEF ItemPlaces
  <2>. QED
    BY <2>1, <2>2
<1>. HIDE DEF z
<1>5. /\ S \in SUBSET Entries /\ I \in SUBSET Entries /\ S \subseteq Sets /\ I \subseteq Items
      /\ S \subseteq last.seen /\ I \subseteq last.seen
  BY <1>2
<1>. HIDE DEF S, I
<1>6. \A at \in SetPlaces : at \in Nat /\ \E e \in S : Holds(data, at, e)
  BY <1>1, <1>3 DEF Row
<1>7. \A at \in ItemPlaces : at \in Nat /\ \E e \in I : Holds(data, at, e)
  BY <1>1, <1>4 DEF Row
<1>8. ~Torn
  BY <1>5, <1>6, <1>7 DEF Torn
<1>9. LoadedSets \subseteq last.seen
  <2>. SUFFICES ASSUME NEW g \in LoadedSets PROVE g \in S
    BY <1>5
  <2>1. PICK at \in SetPlaces : g \in Sets /\ Holds(data, at, g)
    BY DEF LoadedSets
  <2>2. PICK e \in S : Holds(data, at, e) /\ at \in Nat
    BY <1>6
  <2>3. g = e
    BY <1>5, <2>1, <2>2, EntryLen, HoldsOne
  <2>. QED
    BY <2>3
<1>10. LoadedItems \subseteq last.seen
  <2>. SUFFICES ASSUME NEW g \in LoadedItems PROVE g \in I
    BY <1>5
  <2>1. PICK at \in ItemPlaces : g \in Items /\ Holds(data, at, g)
    BY DEF LoadedItems
  <2>2. PICK e \in I : Holds(data, at, e) /\ at \in Nat
    BY <1>7
  <2>3. g = e
    BY <1>5, <2>1, <2>2, EntryLen, HoldsOne
  <2>. QED
    BY <2>3
<1>11. ASSUME NEW e \in last.kept \cap Sets PROVE e \in LoadedSets
  BY <1>1, <1>3 DEF Row, LoadedSets
<1>12. ASSUME NEW e \in last.kept \cap Items PROVE e \in LoadedItems
  <2>1. SetOf[e] \in LoadedSets
    BY <1>11, ConfigAssumption DEF HistoryInv, Closed
  <2>2. \E at \in ItemPlaces : Holds(data, at, e)
    BY <1>1, <1>4 DEF Row
  <2>. QED
    BY <2>1, <2>2 DEF LoadedItems
<1>. QED
  BY <1>2, <1>8, <1>9, <1>10, <1>11, <1>12 DEF Loaded, Entries

LEMMA EmptyLoads ==
  ASSUME NoSizes(header)
  PROVE  ~Torn /\ Loaded = {}
<1>1. 0 \div SetLen = 0 /\ 0 \div ItemLen = 0
  BY Sizing, NoQuotient
<1>2. 0..(0 - 1) = {}
  OBVIOUS
<1>3. SetPlaces = {} /\ ItemPlaces = {}
  BY <1>1, <1>2 DEF SetPlaces, ItemPlaces, NoSizes
<1>. QED
  BY <1>3 DEF Torn, Loaded, LoadedSets, LoadedItems

SaveInv == TypeInv /\ HistoryInv /\ ExclusiveInv /\ AloneInv /\ FixedInv

LEMMA SaveInductive == Spec => []SaveInv
<1>1. Init => SaveInv
  BY TypeInit, HistoryInit, AloneInit, FixedInit DEF SaveInv
<1>2. SaveInv /\ [Next]_vars => SaveInv'
  BY TypeStep, HistoryStep, ExclusiveStep, AloneStep, FixedStep DEF SaveInv
<1>. QED
  BY <1>1, <1>2, PTL DEF Spec

(* Either no save overlapped another, or the trees stayed as they were: in    *)
(* both cases what the last save to complete has left can be read.            *)
LEMMA SaneIsSound ==
  ASSUME SaveInv, Sane
  PROVE  FileSound(data, header, last)
<1>1. CASE ~group.overlap
  BY <1>1 DEF SaveInv, AloneInv, Sane
<1>2. CASE ~group.edited
  <2>. SUFFICES ASSUME last.valid PROVE FileSound(data, header, last)
    BY DEF FileSound
  <2>1. PICK T \in SUBSET Entries : LeftOf(data, header, last, T)
    BY <1>2 DEF SaveInv, FixedInv, Sane
  <2>2. /\ last.kept \subseteq T /\ T \subseteq last.seen /\ Held(data, T, T)
        /\ header.sizeSet = SetsEnd(T) /\ header.sizeFiles = ItemsEnd(T)
    BY <2>1 DEF LeftOf, SizesOf
  <2>3. Rows(data, SetsEnd(T), ItemsEnd(T), last.kept \cap Sets, last.kept \cap Items, last.seen)
    BY <2>2, LayoutIsRows
  <2>. QED
    BY <2>2, <2>3 DEF FileSound
<1>. QED
  BY <1>1, <1>2 DEF Sane

(* NeverPartlySaved of ConfigFile: wherever a write is short and whenever the *)
(* machine stops, LoadConfig meets no bytes that are not an entry; it finds    *)
(* the work of a completed save or nothing. Until the last line of SaveConfig  *)
(* the header counts no entries (monitorset.c:958, 1000), and then it counts  *)
(* whole rows.                                                               *)
THEOREM HalfSavesStayHidden == Spec => []NeverPartlySaved
<1>1. SaveInv => NeverPartlySaved
  <2>. SUFFICES ASSUME SaveInv, Sane PROVE ~Torn /\ (last.valid \/ Loaded = {})
    BY DEF NeverPartlySaved
  <2>1. CASE last.valid
    BY <2>1, SaneIsSound, SoundLoads DEF SaveInv
  <2>2. CASE ~last.valid
    BY <2>2, EmptyLoads DEF SaveInv, HistoryInv
  <2>. QED
    BY <2>1, <2>2
<1>. QED
  BY <1>1, SaveInductive, PTL

(* StayedEntriesSaved of ConfigFile: what a completed save leaves is read back *)
(* as every set and item that was in the trees all the while it ran, and none  *)
(* that never was (monitorset.c:968-998), although the handler changes the    *)
(* trees under its walks.                                                    *)
THEOREM CompletedSaveReadsBack == Spec => []StayedEntriesSaved
<1>1. SaveInv => StayedEntriesSaved
  BY SaneIsSound, SoundLoads DEF SaveInv, StayedEntriesSaved
<1>. QED
  BY <1>1, SaveInductive, PTL
=============================================================================
