------------------------------- MODULE Archive --------------------------------
(***************************************************************************)
(* What a workshop's files promise, with no request in sight: an item is   *)
(* filed with references to items that are there, discarded only while     *)
(* nothing refers to it, and never filed again.  Registry implements it    *)
(* (Registry!Files).                                                       *)
(***************************************************************************)
CONSTANT Items

VARIABLES
  filed,  \* the items that are there
  gone,   \* the items that were discarded
  refers  \* the pairs <<x, y>> where x refers to y

archiveVars == <<filed, gone, refers>>

ArchiveInit == filed = {} /\ gone = {} /\ refers = {}

File(x, targets) ==
  /\ x \notin filed \cup gone
  /\ targets \subseteq filed
  /\ filed' = filed \cup {x}
  /\ refers' = refers \cup ({x} \X targets)
  /\ UNCHANGED gone

Discard(x) ==
  /\ x \in filed
  /\ \A y \in filed : <<y, x>> \notin refers
  /\ filed' = filed \ {x}
  /\ gone' = gone \cup {x}
  /\ refers' = {p \in refers : p[1] # x}

ArchiveNext ==
  \E x \in Items : Discard(x) \/ \E targets \in SUBSET Items : File(x, targets)

ArchiveSpec == ArchiveInit /\ [][ArchiveNext]_archiveVars
=============================================================================
