---------------------------- MODULE MCHashTable ----------------------------
(* An instance of HashTable for TLC.                                       *)
EXTENDS HashTable, TLC

CONSTANTS k1, k2, k3, k4, download, help

(* Chains that collide, overlap, and wrap around the end of the table.     *)
MCHash == k1 :> 3 @@ k2 :> 3 @@ k3 :> 4 @@ k4 :> 1

(* The operation that may be taken away, and one behind it in the list.    *)
MCOrder == <<download, help>>
=============================================================================
