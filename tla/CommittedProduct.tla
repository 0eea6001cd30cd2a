-------------------------- MODULE CommittedProduct --------------------------
(***************************************************************************)
(* What the managed store promises the readers of a product: one committed *)
(* generation at a time, replaced or withdrawn as a whole and only while   *)
(* nobody reads, and to each reader exactly the files of that generation.  *)
(***************************************************************************)
CONSTANTS Readers, Generations, Files, None

VARIABLES product,  \* the committed generation, or None
          view      \* the files a reader has in front of it, or None

vars == <<product, view>>

FilesOf(g) == [x \in IF g = None THEN {} ELSE Files[g] |-> g]

Unread == \A r \in Readers : view[r] = None

Init == product = None /\ view = [r \in Readers |-> None]

Replace(g) ==
  /\ Unread
  /\ product' = g
  /\ UNCHANGED view

BeginRead(r) ==
  /\ view[r] = None
  /\ view' = [view EXCEPT ![r] = FilesOf(product)]
  /\ UNCHANGED product

EndRead(r) ==
  /\ view[r] # None
  /\ view' = [view EXCEPT ![r] = None]
  /\ UNCHANGED product

Next ==
  \/ \E g \in Generations \cup {None} : Replace(g)
  \/ \E r \in Readers : BeginRead(r) \/ EndRead(r)

Spec == Init /\ [][Next]_vars
============================================================================
