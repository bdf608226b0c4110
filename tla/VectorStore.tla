----------------------------- MODULE VectorStore -----------------------------
(***************************************************************************)
(* The ChromaDB collection that holds the searchable chunks                *)
(* (aksharamd/index/store.py, class VectorStore).  The chunks of a path     *)
(* have the ids <path hash>_0 .. <path hash>_(n-1): a slot per index, which *)
(* holds the content version the chunk was cut from.  An open VectorStore   *)
(* keeps a handle on the collection it opened; `clear` deletes that         *)
(* collection and creates another, and calls through an older handle fail.  *)
(***************************************************************************)
EXTENDS Documents

VARIABLES store,        \* store[p][i]: the version of chunk i of p, or Nil
          collection,   \* identity of the live collection
          handle        \* the collection the watch process has open

storeVars == <<store, collection, handle>>

Slot == 1 .. MaxChunks

NoChunks == [i \in Slot |-> Nil]

\* Every chunk of content c and nothing else.
Full(c) == [i \in Slot |-> IF i <= NChunks[c] THEN c ELSE Nil]

StoreTypeOK == /\ store \in [Path -> [Slot -> Content \cup {Nil}]]
               /\ collection \in Nat
               /\ handle \in Nat

StoreInit == /\ store = [p \in Path |-> NoChunks]
             /\ collection = 0
             /\ handle = 0

Live == handle = collection

\* Mutant of DeleteFile: the ids are looked up and never deleted.
DeleteFileNothing(p, deleted) ==
  /\ deleted => Live
  /\ UNCHANGED storeVars

\* delete_file: get by source, then delete.  It swallows every exception, so
\* its caller cannot tell a deletion (TRUE) from a failed one (FALSE).
DeleteFile(p, deleted) ==
  /\ deleted => Live
  /\ store' = IF deleted THEN [store EXCEPT ![p] = NoChunks] ELSE store
  /\ UNCHANGED <<collection, handle>>

\* Mutant of AddToCollection: the last chunk is left out.
AddAllButLast(p, c) ==
  /\ store' = [store EXCEPT ![p] =
                 [i \in Slot |-> IF i < NChunks[c] /\ store[p][i] = Nil
                                 THEN c ELSE store[p][i]]]
  /\ UNCHANGED <<collection, handle>>

\* collection.add: Chroma keeps what it has under an id it already knows.
AddToCollection(p, c) ==
  /\ store' = [store EXCEPT ![p] =
                 [i \in Slot |-> IF i <= NChunks[c] /\ store[p][i] = Nil
                                 THEN c ELSE store[p][i]]]
  /\ UNCHANGED <<collection, handle>>

\* clear: delete_collection, then get_or_create_collection.
ClearCollection ==
  /\ store' = [p \in Path |-> NoChunks]
  /\ collection' = collection + 1
  /\ UNCHANGED handle

\* __init__: get_or_create_collection returns the live collection.
Open == handle' = collection /\ UNCHANGED <<store, collection>>
=============================================================================
