---------------------------- MODULE InboxWatcher ----------------------------
(***************************************************************************)
(* The folder watcher (aksharamd/index/watcher.py): watchdog events are     *)
(* collected per path and a daemon thread flushes those that have been      *)
(* quiet for the debounce period.  The set `pending` is the keys of         *)
(* _DebounceHandler._pending; which of them are quiet is left open, so the  *)
(* model covers every debounce period.  Directory events and files of       *)
(* unsupported types never reach the dictionary and are not in Path.        *)
(***************************************************************************)
EXTENDS Documents

CONSTANT MaxEdits      \* bound: changes made to the folder

VARIABLES disk,         \* the watched folder: what each file holds
          edits,        \* how many changes were made (the bound's counter)
          pending,      \* paths with an event that was not flushed yet
          ready,        \* paths the flush thread still has to enqueue
          hashed        \* enqueue in progress: the path and the hash read

watcherVars == <<disk, edits, pending, ready, hashed>>

NoHash == [path |-> Nil, hash |-> Nil]

WatcherTypeOK ==
  /\ disk \in [Path -> Content \cup {Nil}]
  /\ edits \in Nat
  /\ pending \subseteq Path
  /\ ready \subseteq Path
  /\ hashed \in [path : Path, hash : Content] \cup {NoHash}

WatcherInit ==
  /\ disk = [p \in Path |-> Nil]
  /\ edits = 0
  /\ pending = {}
  /\ ready = {}
  /\ hashed = NoHash

\* on_created, on_modified, on_moved: the event is remembered if the observer
\* runs.  Writing the same content again (a touch) is an event as well.
WriteFile(p, c, watching) ==
  /\ edits < MaxEdits
  /\ edits' = edits + 1
  /\ disk' = [disk EXCEPT ![p] = c]
  /\ pending' = IF watching THEN pending \cup {p} ELSE pending
  /\ UNCHANGED <<ready, hashed>>

\* A deletion raises no event the watcher listens to.
RemoveFile(p) ==
  /\ edits < MaxEdits
  /\ disk[p] # Nil
  /\ edits' = edits + 1
  /\ disk' = [disk EXCEPT ![p] = Nil]
  /\ UNCHANGED <<pending, ready, hashed>>

\* One round of _flush_loop under the handler's lock.
CollectQuiet(quiet) ==
  /\ ready = {} /\ hashed = NoHash
  /\ quiet # {} /\ quiet \subseteq pending
  /\ pending' = pending \ quiet
  /\ ready' = quiet
  /\ UNCHANGED <<disk, edits, hashed>>

\* enqueue up to the lock: exists() and the hash of the bytes.  A file that is
\* gone raises FileNotFoundError, which the caller's _enqueue turns into False.
HashFile(p) ==
  /\ p \in ready /\ hashed = NoHash
  /\ ready' = ready \ {p}
  /\ hashed' = IF disk[p] = Nil THEN NoHash ELSE [path |-> p, hash |-> disk[p]]
  /\ UNCHANGED <<disk, edits, pending>>

\* Any other exception of enqueue is logged and the event is gone.
DropEvent(p) ==
  /\ p \in ready /\ hashed = NoHash
  /\ ready' = ready \ {p}
  /\ UNCHANGED <<disk, edits, pending, hashed>>

EnqueueDone == hashed' = NoHash /\ UNCHANGED <<disk, edits, pending, ready>>

\* The observer, its dictionary and the flush thread die with the process.
ForgetEvents ==
  /\ pending' = {} /\ ready' = {} /\ hashed' = NoHash
  /\ UNCHANGED <<disk, edits>>
=============================================================================
