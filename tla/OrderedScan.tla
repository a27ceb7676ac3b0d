----------------------------- MODULE OrderedScan -----------------------------
(***************************************************************************)
(* What Chunk promises to its callback, whatever happens to the table      *)
(* meanwhile: rows in ascending key order, each batch being the next rows  *)
(* that exist when it is read, nothing twice and nothing jumped over.      *)
(***************************************************************************)
EXTENDS Naturals, SequencesExt, KeyOrder

CONSTANT Keys

VARIABLES table,    \* the matching rows that exist now
          handed,   \* the keys read for the callback so far, in order
          finished

svars == <<table, handed, finished>>

(* The keys of the rows still ahead of the scan, in order.                 *)
Ahead == InOrder({k \in table : handed = <<>> \/ k > Last(handed)})

SInit == table \in SUBSET Keys /\ handed = <<>> /\ finished = FALSE

(* The first batch may skip rows (Offset).                                 *)
Deliver ==
    /\ ~finished
    /\ \E i, j \in 1..Len(Ahead) :
          /\ i <= j /\ (handed # <<>> => i = 1)
          /\ handed' = handed \o SubSeq(Ahead, i, j)
    /\ UNCHANGED <<table, finished>>

Finish == ~finished /\ finished' = TRUE /\ UNCHANGED <<table, handed>>

(* Other sessions insert and delete.                                       *)
Change == table' \in SUBSET Keys /\ UNCHANGED <<handed, finished>>

Spec == SInit /\ [][Deliver \/ Finish \/ Change]_svars
=============================================================================
