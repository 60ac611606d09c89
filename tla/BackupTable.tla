----------------------------- MODULE BackupTable -----------------------------
(***************************************************************************)
(* What the registry of rtbackup promises the application that configures   *)
(* it (the commands of usrlink.h): a table from paths to backup sets and a  *)
(* saved copy of it. A path belongs to one set at a time and changes its    *)
(* set only by being removed first; a set goes after its paths. The copy is *)
(* written bit by bit while the table changes, but only with what is in the *)
(* table at that moment; after a restart the table holds nothing but what   *)
(* the copy holds, unless two saves at the same time have made it void.     *)
(***************************************************************************)
CONSTANTS Guids, NoGuid, Paths

VARIABLES
  known,     \* the backup sets
  owner,     \* the set each path belongs to
  stable     \* the saved copy

vars == <<known, owner, stable>>

Nothing == [p \in Paths |-> NoGuid]

Blank(state) == [known |-> {}, owner |-> Nothing, state |-> state]

Init == known = {} /\ owner = Nothing /\ stable = Blank("good")

Open(g) == known' = known \cup {g} /\ UNCHANGED <<owner, stable>>

(* A free path is given to a set that exists. *)
Put(p, g) ==
  /\ g \in known /\ owner[p] = NoGuid
  /\ owner' = [owner EXCEPT ![p] = g]
  /\ UNCHANGED <<known, stable>>

Take(p) == owner' = [owner EXCEPT ![p] = NoGuid] /\ UNCHANGED <<known, stable>>

(* A set is removed when it has no path left. *)
Drop(g) ==
  /\ \A p \in Paths : owner[p] # g
  /\ known' = known \ {g}
  /\ UNCHANGED <<owner, stable>>

(* The saved copy is begun afresh and gets its parts one by one, or all at   *)
(* once when nobody edits the table. A void copy stays so until the next.    *)
Begin      == stable' \in {Blank("good"), Blank("void")} /\ UNCHANGED <<known, owner>>
NoteSet(g) == /\ g \in known /\ stable.state = "good"
              /\ stable' = [stable EXCEPT !.known = @ \cup {g}]
              /\ UNCHANGED <<known, owner>>
Note(p)    == /\ owner[p] # NoGuid /\ stable.state = "good"
              /\ stable' = [stable EXCEPT !.owner[p] = owner[p]]
              /\ UNCHANGED <<known, owner>>
Save       == /\ stable.state = "good"
              /\ stable' = [known |-> known, owner |-> owner, state |-> "good"]
              /\ UNCHANGED <<known, owner>>

(* The end of a session. *)
Close == known' = {} /\ owner' = Nothing /\ UNCHANGED stable

(* From a copy as far as it can be read; a path comes with its set. *)
Reload ==
  /\ known = {}
  /\ known' \subseteq IF stable.state = "void" THEN Guids ELSE stable.known
  /\ \A p \in Paths :
       \/ owner'[p] = NoGuid
       \/ owner'[p] \in known' /\ (stable.state = "void" \/ owner'[p] = stable.owner[p])
  /\ DOMAIN owner' = Paths
  /\ UNCHANGED stable

Next ==
  \/ \E g \in Guids : Open(g) \/ Drop(g) \/ NoteSet(g) \/ \E p \in Paths : Put(p, g)
  \/ \E p \in Paths : Take(p) \/ Note(p)
  \/ Begin \/ Save \/ Close \/ Reload

Spec == Init /\ [][Next]_vars
=============================================================================
