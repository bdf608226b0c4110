------------------------------ MODULE Documents ------------------------------
(***************************************************************************)
(* The data the parts of the local index share: the files of the watched    *)
(* folder and what they may hold.  A content stands for the bytes of one     *)
(* version of a file and for its SHA-256, which is taken to be collision    *)
(* free.                                                                    *)
(***************************************************************************)
EXTENDS Naturals

CONSTANTS Path,       \* the files of the watched folder
          Content,    \* what a file may hold
          Nil,        \* no content, no path
          MaxChunks,  \* the largest number of chunks of a content
          NChunks     \* how many chunks a content is cut into

ASSUME NilAssumption == Nil \notin Content /\ Nil \notin Path

ASSUME ChunkAssumption == /\ MaxChunks \in Nat
                          /\ NChunks \in [Content -> 0 .. MaxChunks]
=============================================================================
