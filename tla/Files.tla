-------------------------------- MODULE Files --------------------------------
(***************************************************************************)
(* The file descriptors of the HAL: open, close, ioctl, fcntl, stat and    *)
(* the calls that only look at a descriptor, as the tasks of a program     *)
(* make them (HAL/src/alt_open.c, alt_get_fd.c, alt_fd_lock.c and the rest *)
(* of the files that the library builds without ALT_USE_DIRECT_DRIVERS).   *)
(*                                                                         *)
(* alt_fd_list_lock serialises alt_get_fd and alt_fd_lock; alt_release_fd, *)
(* alt_file_locked and the assignments of open do not take it.  One step   *)
(* is one access to the list of descriptors: one round of a search, one    *)
(* assignment.  With a single task this is a HAL without threads.          *)
(*                                                                         *)
(* A name is the sequence of its components: <<"mnt", "a">> is "/mnt/a".   *)
(* Devices and file systems are known by their names.                      *)
(***************************************************************************)
EXTENDS Integers, Sequences, SequencesExt, FiniteSets

CONSTANTS
  Tasks,
  Main,         \* the task that runs main(), and owns the standard streams
  NoTask,
  ALT_MAX_FD,   \* size of the list: 4 in system.h
  Devices,      \* names, in the order of their registration by alt_sys_init
  FileSystems,  \* likewise
  Null,         \* the name of alt_dev_null
  None,         \* no device: a null pointer
  Names,        \* what is opened
  Streams,      \* device for 1, 0 and 2 (ALT_STDOUT, ALT_STDIN, ALT_STDERR)
  Tuned         \* bound: the descriptors fcntl() is called for

Std == 0..2                     \* standard in, out and error
FDs == 0..ALT_MAX_FD - 1

ASSUME FilesAssumption ==
  /\ Main \in Tasks /\ NoTask \notin Tasks
  /\ ALT_MAX_FD \in Nat /\ ALT_MAX_FD > 3
  /\ Null # None /\ None \notin Names

\* Nothing registered is a null pointer.  A file system that is registered
\* under the name of a device is undefined behaviour (alt_fs_reg.c).
ASSUME RegistryAssumption ==
  /\ Devices \in Seq(ToSet(Devices)) /\ FileSystems \in Seq(ToSet(FileSystems))
  /\ None \notin ToSet(Devices) \cup ToSet(FileSystems)
  /\ ToSet(FileSystems) \cap (ToSet(Devices) \cup {Null}) = {}

Access == {"O_RDONLY", "O_WRONLY"}    \* O_ACCMODE of fd_flags

\* alt_fd: the device, and fd_flags taken apart; priv belongs to the driver.
Free == [dev |-> None, acc |-> "O_RDONLY", nonblock |-> FALSE,
         excl |-> FALSE, isdev |-> FALSE]

VARIABLES
  alt_fd_list,
  alt_max_fd,
  sem,     \* who holds alt_fd_list_lock, or NoTask
  at,      \* where a task is: at["idle"] between its calls
  held,    \* history: the descriptors a task has got and not closed
  asked    \* history: what each of them was opened for

vars == <<alt_fd_list, alt_max_fd, sem, at, held, asked>>
-----------------------------------------------------------------------------
(* The lists of devices and file systems, and the search for a name.        *)

\* Each entry is inserted at the head of its list; alt_dev_null is the first.
alt_dev_list == Reverse(Devices) \o <<Null>>
alt_fs_list  == Reverse(FileSystems)

alt_find_dev(name) ==
  IF \E k \in DOMAIN alt_dev_list : alt_dev_list[k] = name THEN name ELSE None

\* The file system registered last of those whose name begins the file's.
alt_find_file(name) ==
  LET match == {k \in DOMAIN alt_fs_list : IsPrefix(alt_fs_list[k], name)}
  IN  IF match = {} THEN None
      ELSE alt_fs_list[CHOOSE k \in match : \A l \in match : k <= l]

isafs(name) == alt_find_dev(name) = None
Found(name) == IF isafs(name) THEN alt_find_file(name) ELSE alt_find_dev(name)
-----------------------------------------------------------------------------
(* At startup, one task, no lock: the streams of the program.               *)

\* open() finds descriptor 3 free, alt_open_fd copies it and frees it again.
\* A name that is not there leaves the stream at alt_dev_null.
alt_open_fd(list, fd, name, acc) ==
  IF Found(name) = None THEN list
  ELSE [list EXCEPT ![fd] = [Free EXCEPT !.dev = Found(name), !.acc = acc,
                                         !.isdev = ~isafs(name)]]

NullStreams ==
  [i \in FDs |-> IF i \in Std THEN [Free EXCEPT !.dev = Null] ELSE Free]

alt_io_redirect(list) ==
  alt_open_fd(
    alt_open_fd(
      alt_open_fd(list, 1, Streams[1], "O_WRONLY"),
      0, Streams[2], "O_RDONLY"),
    2, Streams[3], "O_WRONLY")

Idle == [pc |-> "idle", fd |-> -1, i |-> 0, then |-> "return",
         want |-> [dev |-> None, acc |-> "O_RDONLY", nonblock |-> FALSE,
                   fs |-> FALSE]]

Want(f) == [dev |-> f.dev, acc |-> f.acc, nonblock |-> f.nonblock]

Init ==
  /\ alt_fd_list = alt_io_redirect(NullStreams)
  /\ alt_max_fd = IF \E k \in 1..3 : Found(Streams[k]) # None THEN 3 ELSE -1
  /\ sem = NoTask
  /\ at = [t \in Tasks |-> Idle]
  /\ held = [t \in Tasks |-> IF t = Main THEN Std ELSE {}]
  /\ asked = [i \in FDs |-> Want(alt_fd_list[i])]
-----------------------------------------------------------------------------
(* open(), and stat(), which opens the file for a moment.                   *)

Goto(t, pc) == at' = [at EXCEPT ![t].pc = pc, ![t].i = 0]
Return(t)   == at' = [at EXCEPT ![t] = Idle]
Round(t)    == at' = [at EXCEPT ![t].i = @ + 1]

\* then: what is left to do once the descriptor is there.
Open(t, name, acc, then) ==
  /\ at[t].pc = "idle"
  /\ Found(name) # None                  \* else -ENODEV
  /\ at' = [at EXCEPT ![t] =
       [Idle EXCEPT !.pc = "get", !.then = then,
                    !.want = [dev |-> Found(name), acc |-> acc,
                              nonblock |-> FALSE, fs |-> isafs(name)]]]
  /\ UNCHANGED <<alt_fd_list, alt_max_fd, sem, held, asked>>

\* ALT_SEM_PEND, at the head of alt_get_fd and of alt_fd_lock.
Pend(t, from, to) ==
  /\ at[t].pc = from /\ sem = NoTask
  /\ sem' = t
  /\ Goto(t, to)
  /\ UNCHANGED <<alt_fd_list, alt_max_fd, held, asked>>

\* A mutated form: the highwater mark stays behind.
alt_get_fd_NoMark(t) ==
  LET i == at[t].i IN
  /\ at[t].pc = "search"
  /\ \/ /\ i < ALT_MAX_FD /\ alt_fd_list[i].dev # None
        /\ Round(t) /\ UNCHANGED <<alt_fd_list, sem>>
     \/ /\ i < ALT_MAX_FD /\ alt_fd_list[i].dev = None
        /\ alt_fd_list' = [alt_fd_list EXCEPT ![i].dev = at[t].want.dev]
        /\ sem' = NoTask
        /\ at' = [at EXCEPT ![t].pc = "flags", ![t].fd = i, ![t].i = 0]
     \/ i = ALT_MAX_FD /\ sem' = NoTask /\ Return(t) /\ UNCHANGED alt_fd_list
  /\ UNCHANGED <<alt_max_fd, held, asked>>

\* Round by round to the first free descriptor, or -EMFILE.
alt_get_fd(t) ==
  LET i == at[t].i IN
  /\ at[t].pc = "search"
  /\ \/ /\ i < ALT_MAX_FD /\ alt_fd_list[i].dev # None
        /\ Round(t)
        /\ UNCHANGED <<alt_fd_list, alt_max_fd, sem>>
     \/ /\ i < ALT_MAX_FD /\ alt_fd_list[i].dev = None
        /\ alt_fd_list' = [alt_fd_list EXCEPT ![i].dev = at[t].want.dev]
        /\ alt_max_fd' = IF i > alt_max_fd THEN i ELSE alt_max_fd
        /\ sem' = NoTask
        /\ at' = [at EXCEPT ![t].pc = "flags", ![t].fd = i, ![t].i = 0]
     \/ /\ i = ALT_MAX_FD
        /\ sem' = NoTask
        /\ Return(t)
        /\ UNCHANGED <<alt_fd_list, alt_max_fd>>
  /\ UNCHANGED <<held, asked>>

\* fd_flags = flags & ~ALT_FD_FLAGS_MASK; alt_file_locked starts with ALT_FD_DEV.
SetFlags(t) ==
  LET w == at[t].want IN
  /\ at[t].pc = "flags"
  /\ alt_fd_list' = [alt_fd_list EXCEPT ![at[t].fd] =
       [dev |-> @.dev, acc |-> w.acc, nonblock |-> w.nonblock,
        excl |-> FALSE, isdev |-> ~w.fs]]
  /\ Goto(t, IF w.fs THEN "callback" ELSE "locked")
  /\ UNCHANGED <<alt_max_fd, sem, held, asked>>

\* A mutated form: a refusal returns without the clean-up.
alt_file_locked_NoRelease(t) ==
  LET i == at[t].i
      f == at[t].fd
      barred == /\ alt_fd_list[i].dev = alt_fd_list[f].dev
                /\ alt_fd_list[i].excl /\ i # f
  IN
  /\ at[t].pc = "locked"
  /\ \/ i <= alt_max_fd /\ ~barred /\ Round(t)
     \/ i <= alt_max_fd /\ barred /\ Return(t)
     \/ i > alt_max_fd /\ Goto(t, "callback")
  /\ UNCHANGED <<alt_fd_list, alt_max_fd, sem, held, asked>>

\* Is another descriptor of the device locked?
alt_file_locked(t) ==
  LET i == at[t].i
      f == at[t].fd
      barred == /\ alt_fd_list[i].dev = alt_fd_list[f].dev
                /\ alt_fd_list[i].excl /\ i # f
  IN
  /\ at[t].pc = "locked"
  /\ \/ i <= alt_max_fd /\ ~barred /\ Round(t)
     \/ i <= alt_max_fd /\ barred /\ Goto(t, "release")     \* -EACCES
     \/ i > alt_max_fd /\ Goto(t, "callback")
  /\ UNCHANGED <<alt_fd_list, alt_max_fd, sem, held, asked>>

\* dev->open (external): a file system may refuse; a device has no callback.
\* The descriptor is returned, or for stat() closed.
DevOpen(t) ==
  LET f == at[t].fd IN
  /\ at[t].pc = "callback"
  /\ \/ at[t].want.fs /\ Goto(t, "release") /\ UNCHANGED <<held, asked>>
     \/ /\ at[t].then = "close" /\ Goto(t, "release")
        /\ UNCHANGED <<held, asked>>
     \/ /\ at[t].then = "return" /\ Return(t)
        /\ held' = [held EXCEPT ![t] = @ \cup {f}]
        /\ asked' = [asked EXCEPT ![f] = Want(at[t].want)]
  /\ UNCHANGED <<alt_fd_list, alt_max_fd, sem>>
-----------------------------------------------------------------------------
(* Giving a descriptor back.                                                *)

Cleared(f) == [Free EXCEPT !.dev = alt_fd_list[f].dev]

\* A mutated form: the descriptor is free before its flags are cleared.
alt_release_fd_DevFirst(t) ==
  LET f == at[t].fd IN
  \/ /\ at[t].pc = "release" /\ f \notin Std
     /\ alt_fd_list' = [alt_fd_list EXCEPT ![f].dev = None]
     /\ Goto(t, "free")
     /\ UNCHANGED <<alt_max_fd, sem, held, asked>>
  \/ /\ at[t].pc = "free"
     /\ alt_fd_list' = [alt_fd_list EXCEPT ![f] = Cleared(f)]
     /\ Return(t)
     /\ UNCHANGED <<alt_max_fd, sem, held, asked>>
  \/ /\ at[t].pc = "release" /\ f \in Std
     /\ Return(t)
     /\ UNCHANGED <<alt_fd_list, alt_max_fd, sem, held, asked>>

\* fd_flags = 0, then dev = 0.  The standard streams stay as they are.
alt_release_fd(t) ==
  LET f == at[t].fd IN
  \/ /\ at[t].pc = "release" /\ f \notin Std
     /\ alt_fd_list' = [alt_fd_list EXCEPT ![f] = Cleared(f)]
     /\ Goto(t, "free")
     /\ UNCHANGED <<alt_max_fd, sem, held, asked>>
  \/ /\ at[t].pc = "free"
     /\ alt_fd_list' = [alt_fd_list EXCEPT ![f].dev = None]
     /\ Return(t)
     /\ UNCHANGED <<alt_max_fd, sem, held, asked>>
  \/ /\ at[t].pc = "release" /\ f \in Std
     /\ Return(t)
     /\ UNCHANGED <<alt_fd_list, alt_max_fd, sem, held, asked>>

\* The driver's close (external) may fail: the descriptor is released anyway.
Close(t, f) ==
  /\ at[t].pc = "idle" /\ f \in held[t]
  /\ at' = [at EXCEPT ![t] = [Idle EXCEPT !.pc = "release", !.fd = f]]
  /\ held' = [held EXCEPT ![t] = @ \ ({f} \ Std)]
  /\ asked' = IF f \in Std THEN asked ELSE [asked EXCEPT ![f] = Want(Free)]
  /\ UNCHANGED <<alt_fd_list, alt_max_fd, sem>>
-----------------------------------------------------------------------------
(* ioctl() for exclusive access to a device, and fcntl().                   *)

\* TIOCEXCL; of a file system the request goes to the driver.
Exclusive(t, f) ==
  /\ at[t].pc = "idle" /\ f \in held[t] /\ alt_fd_list[f].isdev
  /\ at' = [at EXCEPT ![t] = [Idle EXCEPT !.pc = "excl", !.fd = f]]
  /\ UNCHANGED <<alt_fd_list, alt_max_fd, sem, held, asked>>

\* Round by round to another descriptor of the device, which makes it -EACCES.
\* The search ends before alt_max_fd.
alt_fd_lock(t) ==
  LET i == at[t].i
      f == at[t].fd
      other == i # f /\ alt_fd_list[i].dev = alt_fd_list[f].dev
  IN
  /\ at[t].pc = "lock"
  /\ \/ /\ i < alt_max_fd /\ ~other
        /\ Round(t)
        /\ UNCHANGED <<alt_fd_list, sem>>
     \/ /\ i < alt_max_fd /\ other
        /\ sem' = NoTask
        /\ Return(t)
        /\ UNCHANGED alt_fd_list
     \/ /\ i >= alt_max_fd
        /\ alt_fd_list' = [alt_fd_list EXCEPT ![f].excl = TRUE]
        /\ sem' = NoTask
        /\ Return(t)
  /\ UNCHANGED <<alt_max_fd, held, asked>>

\* TIOCNXCL
alt_fd_unlock(t, f) ==
  /\ at[t].pc = "idle" /\ f \in held[t] /\ alt_fd_list[f].isdev
  /\ alt_fd_list[f].excl
  /\ alt_fd_list' = [alt_fd_list EXCEPT ![f].excl = FALSE]
  /\ UNCHANGED <<alt_max_fd, sem, at, held, asked>>

\* F_SETFL: nothing but O_NONBLOCK (and O_APPEND) can be changed.
Fcntl(t, f, nonblock) ==
  /\ at[t].pc = "idle" /\ f \in held[t]
  /\ alt_fd_list' = [alt_fd_list EXCEPT ![f].nonblock = nonblock]
  /\ asked' = [asked EXCEPT ![f].nonblock = nonblock]
  /\ UNCHANGED <<alt_max_fd, sem, at, held>>

\* What read() and write() do with a descriptor: the driver is called or EACCES.
Read(f)  == IF alt_fd_list[f].acc # "O_WRONLY" /\ alt_fd_list[f].dev # Null
            THEN "driver" ELSE "EACCES"
Write(f) == IF alt_fd_list[f].acc # "O_RDONLY" THEN "driver" ELSE "EACCES"

\* No device has fstat() or lseek(); a file system (external) has both.
Lseek(f)  == IF alt_fd_list[f].dev \in ToSet(FileSystems)
             THEN "driver" ELSE "ENOTSUP"
Fstat(f)  == IF alt_fd_list[f].dev \in ToSet(FileSystems)
             THEN "driver" ELSE "_IFCHR"
Isatty(f) == Fstat(f) = "_IFCHR"
-----------------------------------------------------------------------------
Step(t) ==
  \/ \E name \in Names : \/ \E acc \in Access : Open(t, name, acc, "return")
                        \/ Open(t, name, "O_RDONLY", "close")
  \/ Pend(t, "get", "search") \/ Pend(t, "excl", "lock")
  \/ alt_get_fd(t) \/ SetFlags(t) \/ alt_file_locked(t) \/ DevOpen(t)
  \/ alt_release_fd(t) \/ alt_fd_lock(t)
  \/ \E f \in FDs :
       \/ Close(t, f) \/ Exclusive(t, f) \/ alt_fd_unlock(t, f)
       \/ \E nonblock \in BOOLEAN : f \in Tuned /\ Fcntl(t, f, nonblock)

Next == \E t \in Tasks : Step(t)
Spec == Init /\ [][Next]_vars
-----------------------------------------------------------------------------
(* A descriptor that open() has returned belongs to that task alone, and    *)
(* until it closes it refers to the device it was opened for with the       *)
(* access it was opened with: whatever other tasks open, close and lock     *)
(* meanwhile, read() and write() reach the driver exactly when they may.    *)
(* What isatty() asks the driver and what ioctl() reads in fd_flags agree.  *)
HeldAsOpened ==
  \A t \in Tasks : \A f \in held[t] :
    /\ \A u \in Tasks \ {t} : f \notin held[u]
    /\ Want(alt_fd_list[f]) = asked[f]
    /\ Read(f)  = "driver" <=> asked[f].acc # "O_WRONLY" /\ asked[f].dev # Null
    /\ Write(f) = "driver" <=> asked[f].acc # "O_RDONLY"
    /\ f \notin Std => (Isatty(f) <=> alt_fd_list[f].isdev)
    /\ Isatty(f) <=> Lseek(f) = "ENOTSUP"

(* Between calls every descriptor in use is held by somebody and the        *)
(* semaphore is free: no way out of open, stat, close or ioctl, with an     *)
(* error or without, leaves one behind.                                     *)
NothingLeaks ==
  (\A t \in Tasks : at[t].pc = "idle") =>
    /\ sem = NoTask
    /\ \A f \in FDs : alt_fd_list[f].dev # None =>
         f \in Std \/ \E t \in Tasks : f \in held[t]

(* A device locked for exclusive access has no other open descriptor: the   *)
(* lock is granted if there is none, and until it is released open() of the *)
(* device fails (alt_fd_lock).  The search leaves out the highest           *)
(* descriptor ever allocated.                                               *)
LockIsExclusive ==
  \A i \in FDs : alt_fd_list[i].excl =>
    \A t \in Tasks : \A j \in held[t] \ {i} : alt_fd_list[j].dev # alt_fd_list[i].dev

(* How far the lock falls short: open() looks at all the descriptors, so    *)
(* the one that the search has missed is the only one.                      *)
LockLeavesOne ==
  \A i \in FDs : alt_fd_list[i].excl =>
    Cardinality({j \in UNION {held[t] : t \in Tasks} :
      j # i /\ alt_fd_list[j].dev = alt_fd_list[i].dev}) <= 1
=============================================================================
