------------------------------ MODULE FileWatcher ------------------------------
(***************************************************************************)
(* avs::FileWatcher (libs/avs-base/src/fs_posix.cpp): one watched path.    *)
(* On Linux it watches the inode the path had when it was constructed and  *)
(* reads events in batches; without an event, or without inotify, it       *)
(* compares the modification time with the last one it has seen.           *)
(*                                                                         *)
(* An editor changes the file: it writes in place, in two steps of which   *)
(* the first leaves a file that does not parse; it renames another file    *)
(* over it; it deletes it.  Every step gives the path a new version, which *)
(* stands for its contents and for its modification time.                  *)
(***************************************************************************)
EXTENDS Integers

CONSTANTS
  InotifyWorks,   \* inotify_init1 succeeds
  Batch,          \* events a read returns at most: 4 in the code
  MaxVersion,     \* bound: changes of the file
  MaxQueue        \* bound: events queued; the kernel merges equal ones

ASSUME WatcherAssumption ==
  /\ InotifyWorks \in BOOLEAN
  /\ Batch \in Nat \ {0} /\ MaxVersion \in Nat \ {0} /\ MaxQueue \in Nat \ {0}

VARIABLES
  file,       \* [exists, inode, version, good, writing]
  watcher,    \* [mode, inode, queue, last]; mode "none" when there is no watcher
  changed,    \* history: the file has changed since the last poll or construction
  polled      \* history: what the last poll returned

watchVars == <<watcher, changed, polled>>

Default == 0        \* file_time_type{}
Minimum == -1       \* file_time_type::min(), for a file that does not exist

Smaller(a, b) == IF a < b THEN a ELSE b
ModTime       == IF file.exists THEN file.version ELSE Minimum
NoWatcher     == [mode |-> "none", inode |-> 0, queue |-> 0, last |-> Default]

FileInit ==
  /\ file \in [exists : {TRUE}, inode : {1}, version : {1}, good : BOOLEAN, writing : {FALSE}]
  /\ watcher = NoWatcher
  /\ changed = FALSE
  /\ polled  = FALSE

-------------------------------------------------------------------------------
(* The editor and the kernel *)

\* An event reaches the queue of a watch on the inode that is touched.
Notify ==
  watcher' = IF watcher.mode = "inotify" /\ file.exists /\ watcher.inode = file.inode
               THEN [watcher EXCEPT !.queue = Smaller(@ + 1, MaxQueue)]
               ELSE watcher

\* A write in place begins: the file is truncated.
Truncate ==
  /\ file.exists /\ ~file.writing /\ file.version < MaxVersion
  /\ file' = [file EXCEPT !.version = @ + 1, !.good = FALSE, !.writing = TRUE]
  /\ Notify
  /\ changed' = TRUE
  /\ UNCHANGED polled

\* The rest is written and the file is closed.
Complete(good) ==
  /\ file.exists /\ file.writing /\ file.version < MaxVersion
  /\ file' = [file EXCEPT !.version = @ + 1, !.good = good, !.writing = FALSE]
  /\ Notify
  /\ changed' = TRUE
  /\ UNCHANGED polled

\* Another file is renamed to the path; the watch dies with the old inode and
\* says so with IN_IGNORED.
Replace(good) ==
  /\ ~file.writing /\ file.version < MaxVersion
  /\ file' = [exists |-> TRUE, inode |-> file.version + 1, version |-> file.version + 1,
              good |-> good, writing |-> FALSE]
  /\ Notify
  /\ changed' = TRUE
  /\ UNCHANGED polled

Delete ==
  /\ file.exists /\ ~file.writing /\ file.version < MaxVersion
  /\ file' = [file EXCEPT !.exists = FALSE, !.version = @ + 1, !.good = FALSE]
  /\ Notify
  /\ changed' = TRUE
  /\ UNCHANGED polled

Edit == Truncate \/ Delete \/ \E good \in BOOLEAN : Complete(good) \/ Replace(good)

-------------------------------------------------------------------------------
(* FileWatcher *)

\* mutant: the constructor reads the modification time in both modes
ConstructWithTime ==
  /\ watcher' = [mode  |-> IF InotifyWorks /\ file.exists THEN "inotify" ELSE "mtime",
                 inode |-> file.inode,
                 queue |-> 0,
                 last  |-> IF file.exists THEN file.version ELSE Default]
  /\ changed' = FALSE
  /\ polled' = FALSE

\* last_ is read only if there is no watch; inotify_add_watch needs the file.
Construct ==
  /\ watcher' = [mode  |-> IF InotifyWorks /\ file.exists THEN "inotify" ELSE "mtime",
                 inode |-> file.inode,
                 queue |-> 0,
                 last  |-> IF file.exists /\ ~InotifyWorks THEN file.version ELSE Default]
  /\ changed' = FALSE
  /\ polled' = FALSE

\* An event is an answer, and leaves last_ as it was.
PollEvent ==
  /\ watcher.mode = "inotify" /\ watcher.queue > 0
  /\ watcher' = [watcher EXCEPT !.queue = @ - Smaller(@, Batch)]
  /\ polled' = TRUE
  /\ changed' = FALSE

PollTime ==
  /\ watcher.mode # "none" /\ watcher.queue = 0
  /\ polled' = (ModTime # watcher.last)
  /\ watcher' = [watcher EXCEPT !.last = ModTime]
  /\ changed' = FALSE

PollWatcher == PollEvent \/ PollTime

-------------------------------------------------------------------------------
(* The watcher by itself, constructed and polled by an arbitrary client. *)

Client == (watcher.mode = "none" /\ Construct) \/ PollWatcher

WatcherSpec ==
  FileInit /\ [][Edit \/ (Client /\ UNCHANGED file)]_<<file, watchVars>>

\* "Returns true if the file changed since the last call." (fs.hpp:12)
TrueMeansChanged ==
  [][PollWatcher /\ polled' /\ file' = file => changed]_<<file, watchVars>>

===============================================================================
