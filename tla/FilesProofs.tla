----------------------------- MODULE FilesProofs -----------------------------
(***************************************************************************)
(* For any tasks, any number of descriptors and any registry of devices    *)
(* and file systems: what a task has opened is its own and stays as it was *)
(* opened, nothing is left behind, and a lock lets at most one descriptor  *)
(* of the device through.                                                  *)
(*                                                                         *)
(* None of the three is inductive.  Between the assignment in alt_get_fd   *)
(* and the return of open() a descriptor belongs to a task that does not   *)
(* hold it yet, and after close() to one that holds it no longer (Busy);   *)
(* Owned says that all of these are different.  Pending carries what was   *)
(* asked for through the steps of open().  LockLeavesOne needs the         *)
(* highwater mark (Marked), how far the search of alt_fd_lock has come     *)
(* (Searched), and that a descriptor of a locked device besides the last   *)
(* one is on its way out: its open() has not come to the locked one yet,   *)
(* or is being refused, or it is being closed (Leaves).                    *)
(***************************************************************************)
EXTENDS Files, FiniteSetTheorems, WellFoundedInduction, TLAPS

\* The file systems, as Lseek and Fstat know them.
Fs == ToSet(FileSystems)

AnyDev == {None} \cup ToSet(alt_dev_list) \cup ToSet(alt_fs_list)

Descriptors == [dev: AnyDev, acc: Access, nonblock: BOOLEAN,
                excl: BOOLEAN, isdev: BOOLEAN]

Kinds == {"idle", "get", "search", "flags", "locked", "callback", "release",
          "free", "excl", "lock"}

Requests == [dev: AnyDev, acc: Access, nonblock: BOOLEAN]

Places == [pc: Kinds, fd: {-1} \cup FDs, i: Nat, then: {"return", "close"},
           want: [dev: AnyDev, acc: Access, nonblock: BOOLEAN, fs: BOOLEAN]]

Placed ==
  /\ at \in [Tasks -> Places]
  /\ \A t \in Tasks :
       at[t].pc \notin {"idle", "get", "search"} => at[t].fd \in FDs

TypeOK ==
  /\ alt_fd_list \in [FDs -> Descriptors]
  /\ alt_max_fd \in -1..ALT_MAX_FD-1
  /\ sem \in Tasks \cup {NoTask}
  /\ Placed
  /\ held \in [Tasks -> SUBSET FDs]
  /\ asked \in [FDs -> Requests]

\* A list and its reverse have the same entries.
LEMMA Reversed ==
  ASSUME NEW S, NEW s \in Seq(S)
  PROVE  ToSet(Reverse(s)) = ToSet(s)
<1>1. DOMAIN Reverse(s) = 1..Len(s) /\ DOMAIN s = 1..Len(s) /\ Len(s) \in Nat
  BY DEF Reverse
<1>2. \A k \in 1..Len(s) : Reverse(s)[k] = s[Len(s) - k + 1]
  BY <1>1 DEF Reverse
<1>3. ASSUME NEW x \in ToSet(Reverse(s)) PROVE x \in ToSet(s)
  <2>1. PICK k \in 1..Len(s) : x = Reverse(s)[k]
    BY <1>1 DEF ToSet
  <2>2. Len(s) - k + 1 \in 1..Len(s)
    BY <1>1
  <2> QED
    BY <1>1, <1>2, <2>1, <2>2 DEF ToSet
<1>4. ASSUME NEW x \in ToSet(s) PROVE x \in ToSet(Reverse(s))
  <2>1. PICK k \in 1..Len(s) : x = s[k]
    BY <1>1 DEF ToSet
  <2>2. Len(s) - k + 1 \in 1..Len(s) /\ Len(s) - (Len(s) - k + 1) + 1 = k
    BY <1>1
  <2> QED
    BY <1>1, <1>2, <2>1, <2>2 DEF ToSet
<1> QED
  BY <1>3, <1>4

\* What is in the two lists of the registry; they share no name.
LEMMA Lists ==
  /\ ToSet(alt_fs_list) = Fs
  /\ ToSet(alt_dev_list) = ToSet(Devices) \cup {Null}
  /\ None \notin ToSet(alt_dev_list)
  /\ None \notin Fs
  /\ Fs \cap ToSet(alt_dev_list) = {}
<1>1. ToSet(alt_fs_list) = Fs
  BY Reversed, RegistryAssumption DEF alt_fs_list, Fs
<1>2. ToSet(alt_dev_list) = ToSet(Devices) \cup {Null}
  <2> DEFINE s == Reverse(Devices)
             n == Len(Devices)
  <2>1. n \in Nat /\ DOMAIN Devices = 1..n
    BY RegistryAssumption
  <2>2. s \in Seq(ToSet(Devices)) /\ Len(s) = n
    <3>1. \A k \in 1..n : n - k + 1 \in 1..n
      BY <2>1
    <3>2. s \in [1..n -> ToSet(Devices)]
      BY <3>1, <2>1 DEF ToSet, Reverse
    <3> QED
      BY <3>2, <2>1
  <2>3. alt_dev_list = s \o <<Null>>
    BY DEF alt_dev_list
  <2>4. DOMAIN (s \o <<Null>>) = 1..(n + 1)
    BY <2>2, <2>1
  <2>5. \A k \in 1..n : (s \o <<Null>>)[k] = s[k]
    BY <2>2, <2>1
  <2>6. (s \o <<Null>>)[n + 1] = Null
    BY <2>2, <2>1
  <2>7. DOMAIN s = 1..n
    BY <2>2, <2>1
  <2>8. ToSet(s \o <<Null>>) = ToSet(s) \cup {Null}
    <3> HIDE DEF s, n
    <3> QED
      BY <2>1, <2>4, <2>5, <2>6, <2>7 DEF ToSet
  <2> QED
    BY <2>3, <2>8, Reversed, RegistryAssumption
<1> QED
  BY <1>1, <1>2, FilesAssumption, RegistryAssumption DEF Fs

\* alt_find_file finds nothing or a file system.
LEMMA FirstMatch ==
  ASSUME NEW name, alt_find_file(name) # None
  PROVE  alt_find_file(name) \in Fs
<1> DEFINE match == {k \in DOMAIN alt_fs_list : IsPrefix(alt_fs_list[k], name)}
<1>1. match # {}
  BY DEF alt_find_file
<1>2. DOMAIN alt_fs_list = 1..Len(FileSystems) /\ Len(FileSystems) \in Nat
  BY RegistryAssumption DEF alt_fs_list, Reverse
<1>3. match \subseteq Nat
  BY <1>2
<1>4. \E k \in match : \A l \in match : k <= l
  <2> HIDE DEF match
  <2>1. PICK k \in match : \A l \in match : ~(<<l, k>> \in OpToRel(<, Nat))
    BY <1>1, <1>3, NatLessThanWellFounded, WFMin, Zenon
  <2>2. ASSUME NEW l \in match PROVE k <= l
    <3>1. k \in Nat /\ l \in Nat
      BY <1>3
    <3>2. ASSUME l < k PROVE FALSE
      <4>1. <<l, k>> \in {p \in Nat \X Nat : p[1] < p[2]}
        BY <3>1, <3>2
      <4>2. OpToRel(<, Nat) = {p \in Nat \X Nat : p[1] < p[2]}
        BY Zenon DEF OpToRel
      <4> QED
        BY <2>1, <4>1, <4>2, Zenon
    <3> QED
      BY <3>1, <3>2
  <2> QED
    BY <2>2
<1>5. (CHOOSE k \in match : \A l \in match : k <= l) \in match
  BY <1>4
<1>6. alt_find_file(name) \in ToSet(alt_fs_list)
  BY <1>1, <1>5 DEF alt_find_file, ToSet
<1> QED
  BY <1>6, Lists

\* open() knows a file system from a device.
LEMMA FoundThere ==
  ASSUME NEW name
  PROVE  /\ Found(name) \in AnyDev
         /\ Found(name) # None => (isafs(name) <=> Found(name) \in Fs)
<1>1. CASE isafs(name)
  BY <1>1, FirstMatch, Lists DEF Found, AnyDev
<1>2. CASE ~isafs(name)
  <2>1. Found(name) = name /\ name \in ToSet(alt_dev_list)
    BY <1>2 DEF Found, isafs, alt_find_dev, ToSet
  <2> QED
    BY <1>2, <2>1, Lists DEF AnyDev
<1> QED
  BY <1>1, <1>2
-----------------------------------------------------------------------------
\* The effect of each kind of assignment to at.
LEMMA Going ==
  ASSUME Placed, NEW t \in Tasks, NEW pc \in Kinds, Goto(t, pc),
         pc \notin {"idle", "get", "search"} => at[t].fd \in FDs
  PROVE  /\ Placed'
         /\ at'[t].pc = pc /\ at'[t].fd = at[t].fd /\ at'[t].i = 0
         /\ at'[t].want = at[t].want
         /\ \A u \in Tasks \ {t} : at'[u] = at[u]
<1> DEFINE p == [at[t] EXCEPT !.pc = pc, !.i = 0]
<1>1. at' = [at EXCEPT ![t] = p]
  BY DEF Goto
<1>2. at[t] \in Places
  BY DEF Placed
<1>3. p \in Places /\ p.pc = pc /\ p.fd = at[t].fd /\ p.i = 0
      /\ p.want = at[t].want
  BY <1>2 DEF Places
<1> QED
  BY <1>1, <1>3 DEF Placed

LEMMA Rounding ==
  ASSUME Placed, NEW t \in Tasks, Round(t)
  PROVE  /\ Placed'
         /\ at'[t].pc = at[t].pc /\ at'[t].fd = at[t].fd
         /\ at'[t].i = at[t].i + 1
         /\ at'[t].want = at[t].want
         /\ \A u \in Tasks \ {t} : at'[u] = at[u]
<1> DEFINE p == [at[t] EXCEPT !.i = @ + 1]
<1>1. at' = [at EXCEPT ![t] = p]
  BY DEF Round
<1>2. at[t] \in Places
  BY DEF Placed
<1>3. at[t].i + 1 \in Nat
  BY <1>2 DEF Places
<1>4. p \in Places /\ p.pc = at[t].pc /\ p.fd = at[t].fd
      /\ p.want = at[t].want /\ p.i = at[t].i + 1
  BY <1>2, <1>3 DEF Places
<1> QED
  BY <1>1, <1>4 DEF Placed

LEMMA Starting ==
  ASSUME Placed, NEW t \in Tasks, NEW pc \in Kinds, NEW f \in FDs,
         at' = [at EXCEPT ![t] = [Idle EXCEPT !.pc = pc, !.fd = f]]
  PROVE  /\ Placed'
         /\ at'[t].pc = pc /\ at'[t].fd = f /\ at'[t].i = 0
         /\ \A u \in Tasks \ {t} : at'[u] = at[u]
<1> DEFINE p == [Idle EXCEPT !.pc = pc, !.fd = f]
<1>1. p \in Places /\ p.pc = pc /\ p.fd = f /\ p.i = 0
  BY DEF Idle, Places, AnyDev, Access
<1> QED
  BY <1>1 DEF Placed

LEMMA Returning ==
  ASSUME Placed, NEW t \in Tasks, Return(t)
  PROVE  /\ Placed'
         /\ at'[t].pc = "idle"
         /\ \A u \in Tasks \ {t} : at'[u] = at[u]
<1>1. Idle \in Places /\ Idle.pc = "idle"
  BY DEF Idle, Places, AnyDev, Access, Kinds
<1> QED
  BY <1>1 DEF Placed, Return

LEMMA Opening ==
  ASSUME Placed, NEW t \in Tasks,
         NEW name \in Names, NEW acc \in Access,
         NEW then \in {"return", "close"}, Open(t, name, acc, then)
  PROVE  /\ Placed'
         /\ at'[t].pc = "get"
         /\ at'[t].want.dev = Found(name)
         /\ at'[t].want.fs = isafs(name)
         /\ \A u \in Tasks \ {t} : at'[u] = at[u]
<1> DEFINE w == [dev |-> Found(name), acc |-> acc, nonblock |-> FALSE,
                 fs |-> isafs(name)]
           p == [Idle EXCEPT !.pc = "get", !.then = then, !.want = w]
<1>1. isafs(name) \in BOOLEAN
  BY DEF isafs
<1>2. /\ w \in [dev: AnyDev, acc: Access, nonblock: BOOLEAN, fs: BOOLEAN]
      /\ w.dev = Found(name) /\ w.fs = isafs(name)
  BY <1>1, FoundThere
<1> HIDE DEF w
<1>3. p \in Places /\ p.pc = "get" /\ p.want = w
  BY <1>2 DEF Idle, Places, Kinds
<1>4. at' = [at EXCEPT ![t] = p]
  BY DEF Open, w
<1> QED
  BY <1>2, <1>3, <1>4 DEF Placed

LEMMA Taking ==
  ASSUME Placed, NEW t \in Tasks, NEW f \in FDs,
         at' = [at EXCEPT ![t].pc = "flags", ![t].fd = f, ![t].i = 0]
  PROVE  /\ Placed'
         /\ at'[t].pc = "flags" /\ at'[t].fd = f
         /\ at'[t].want = at[t].want
         /\ \A u \in Tasks \ {t} : at'[u] = at[u]
<1> DEFINE p == [at[t] EXCEPT !.pc = "flags", !.fd = f, !.i = 0]
<1>1. at' = [at EXCEPT ![t] = p]
  OBVIOUS
<1>2. at[t] \in Places
  BY DEF Placed
<1>3. p \in Places /\ p.pc = "flags" /\ p.fd = f /\ p.want = at[t].want
  BY <1>2 DEF Places, Kinds
<1> QED
  BY <1>1, <1>3 DEF Placed

\* The effect of setting or clearing one flag of a descriptor.
LEMMA Locking ==
  ASSUME NEW d \in Descriptors, NEW b \in BOOLEAN
  PROVE  /\ [d EXCEPT !.excl = b] \in Descriptors
         /\ [d EXCEPT !.excl = b].excl = b
         /\ [d EXCEPT !.excl = b].isdev = d.isdev
         /\ [d EXCEPT !.excl = b].dev = d.dev
         /\ Want([d EXCEPT !.excl = b]) = Want(d)
BY DEF Descriptors, Want

LEMMA Blocking ==
  ASSUME NEW d \in Descriptors, NEW b \in BOOLEAN
  PROVE  /\ [d EXCEPT !.nonblock = b] \in Descriptors
         /\ [d EXCEPT !.nonblock = b].excl = d.excl
         /\ [d EXCEPT !.nonblock = b].isdev = d.isdev
         /\ [d EXCEPT !.nonblock = b].dev = d.dev
         /\ Want([d EXCEPT !.nonblock = b]) = [Want(d) EXCEPT !.nonblock = b]
         /\ Want([d EXCEPT !.nonblock = b]) \in Requests
BY DEF Descriptors, Want, Requests

\* The effect of assigning the device of a descriptor.
LEMMA Assigned ==
  ASSUME NEW d \in Descriptors, NEW x \in AnyDev
  PROVE  /\ [d EXCEPT !.dev = x] \in Descriptors
         /\ [d EXCEPT !.dev = x].dev = x
         /\ [d EXCEPT !.dev = x].excl = d.excl
         /\ [d EXCEPT !.dev = x].isdev = d.isdev
         /\ [Free EXCEPT !.dev = x] \in Descriptors
         /\ [Free EXCEPT !.dev = x].dev = x
         /\ [Free EXCEPT !.dev = x].excl = FALSE
         /\ [Free EXCEPT !.dev = x].isdev = FALSE
BY DEF Descriptors, Free, Access
-----------------------------------------------------------------------------
\* The descriptor at[t].fd is in use by t and not in held[t].
Busy(t) == \/ at[t].pc \in {"flags", "locked", "callback", "free"}
           \/ at[t].pc = "release" /\ at[t].fd \notin Std

\* alt_fd_list_lock is held by the task in one of the two searches.
Serial == \A t \in Tasks : sem = t <=> at[t].pc \in {"search", "lock"}

\* No descriptor in use belongs to two tasks or to none.
Owned ==
  /\ \A t \in Tasks : Busy(t) =>
       /\ at[t].fd \notin Std
       /\ alt_fd_list[at[t].fd].dev # None
       /\ \A u \in Tasks : /\ at[t].fd \notin held[u]
                           /\ u # t /\ Busy(u) => at[u].fd # at[t].fd
  /\ \A t \in Tasks : \A f \in held[t] :
       /\ alt_fd_list[f].dev # None
       /\ \A u \in Tasks \ {t} : f \notin held[u]
  /\ \A f \in FDs : alt_fd_list[f].dev # None =>
       f \in Std \/ \E t \in Tasks : f \in held[t] \/ (Busy(t) /\ at[t].fd = f)
  /\ Std \subseteq held[Main]

\* What the flags and the highwater mark say of a descriptor.
Marked ==
  /\ alt_max_fd = -1 \/ alt_max_fd \notin Std
  /\ \A f \in FDs :
       /\ alt_fd_list[f].isdev => /\ alt_fd_list[f].dev \notin Fs \cup {None}
                                  /\ f <= alt_max_fd
       /\ alt_fd_list[f].excl => alt_fd_list[f].isdev
       /\ alt_fd_list[f].dev # None => f \in Std \/ f <= alt_max_fd

\* A held descriptor is the one that was asked for (HeldAsOpened).
Agreed ==
  \A t \in Tasks : \A f \in held[t] :
    /\ Want(alt_fd_list[f]) = asked[f]
    /\ f \notin Std => (alt_fd_list[f].isdev <=> alt_fd_list[f].dev \notin Fs)

\* What was asked for, on its way through the steps of a call.
Ready(t) ==
  /\ at[t].pc \in {"get", "search", "flags", "locked", "callback"} =>
       /\ at[t].want.dev # None
       /\ at[t].want.fs <=> at[t].want.dev \in Fs
  /\ at[t].pc \in {"flags", "locked", "callback"} =>
       alt_fd_list[at[t].fd].dev = at[t].want.dev
  /\ at[t].pc \in {"flags", "free"} => ~alt_fd_list[at[t].fd].isdev
  /\ at[t].pc \in {"locked", "callback"} =>
       /\ Want(alt_fd_list[at[t].fd]) = Want(at[t].want)
       /\ alt_fd_list[at[t].fd].isdev <=> ~at[t].want.fs
  /\ at[t].pc \in {"excl", "lock"} =>
       at[t].fd \in held[t] /\ alt_fd_list[at[t].fd].isdev

Pending == \A t \in Tasks : Ready(t)

\* u has descriptor j of the device that i locks, and will give it up.
Leaves(u, j, i) ==
  /\ at[u].fd = j
  /\ \/ at[u].pc \in {"flags", "free"}
     \/ at[u].pc = "locked" /\ at[u].i <= i
     \/ at[u].pc = "release" /\ j \notin Std

\* Besides i and last every descriptor of the device is on its way out.
Alone(i, last) ==
  \A j \in FDs \ {i, last} :
    alt_fd_list[j].dev = alt_fd_list[i].dev => \E u \in Tasks : Leaves(u, j, i)

\* How far alt_fd_lock has come without meeting its device.
Searched(t) ==
  at[t].pc = "lock" =>
    \A j \in FDs \ {at[t].fd} : j < at[t].i =>
      alt_fd_list[j].dev # alt_fd_list[at[t].fd].dev

Excluded ==
  /\ \A t \in Tasks : Searched(t)
  /\ \A i \in FDs : alt_fd_list[i].excl => \E last \in FDs : Alone(i, last)

IInv == TypeOK /\ Serial /\ Owned /\ Marked /\ Agreed /\ Pending /\ Excluded

\* One entry of the list is assigned, the others stay.
Changed(f, d) ==
  /\ alt_fd_list'[f] = d
  /\ \A g \in FDs \ {f} : alt_fd_list'[g] = alt_fd_list[g]

\* The effect of one assignment to the list.
LEMMA Writing ==
  ASSUME TypeOK, NEW f \in FDs, NEW d \in Descriptors,
         alt_fd_list' = [alt_fd_list EXCEPT ![f] = d]
  PROVE  alt_fd_list' \in [FDs -> Descriptors] /\ Changed(f, d)
BY DEF TypeOK, Changed

\* The other tasks stay where they are.
Others(t) == \A u \in Tasks \ {t} : at'[u] = at[u]

\* A descriptor that is free or belongs to t belongs to nobody else.
LEMMA Apart ==
  ASSUME IInv, NEW t \in Tasks, NEW f \in FDs,
         \/ alt_fd_list[f].dev = None
         \/ f \in held[t]
         \/ Busy(t) /\ at[t].fd = f
  PROVE  \A u \in Tasks \ {t} : f \notin held[u] /\ (Busy(u) => at[u].fd # f)
BY DEF IInv, Owned

\* Every descriptor a task refers to is one of the list.
LEMMA InRange ==
  ASSUME IInv, NEW t \in Tasks
  PROVE  /\ at[t] \in Places
         /\ at[t].pc \notin {"idle", "get", "search"} => at[t].fd \in FDs
         /\ Busy(t) => at[t].fd \in FDs
         /\ held[t] \subseteq FDs
         /\ \A f \in FDs : alt_fd_list[f] \in Descriptors
         /\ Placed
         /\ at[t].i \in Nat
BY DEF IInv, TypeOK, Placed, Places, Busy

\* A step that neither enters nor leaves a search keeps Serial.
LEMMA StillSerial ==
  ASSUME IInv, NEW t \in Tasks, Others(t), sem' = sem,
         at'[t].pc \in {"search", "lock"} <=> at[t].pc \in {"search", "lock"}
  PROVE  Serial'
BY DEF IInv, Serial, Others

\* A step that changes no device keeps Owned.
LEMMA StillOwned ==
  ASSUME IInv, NEW t \in Tasks, Others(t), held' = held,
         \A g \in FDs : alt_fd_list'[g].dev = alt_fd_list[g].dev,
         Busy(t)' <=> Busy(t), Busy(t) => at'[t].fd = at[t].fd
  PROVE  Owned'
<1>1. \A u \in Tasks \ {t} : Busy(u)' <=> Busy(u)
  BY DEF Busy, Others
<1>2. \A u \in Tasks : Busy(u)' <=> Busy(u)
  BY <1>1
<1>3. \A u \in Tasks : Busy(u) => at'[u].fd = at[u].fd
  BY DEF Others
<1> HIDE DEF Busy
<1> QED
  BY <1>2, <1>3, InRange DEF IInv, Owned

\* A step that assigns one descriptor, of no other task, keeps Pending.
LEMMA StillPending ==
  ASSUME IInv, NEW t \in Tasks, NEW f \in FDs, Others(t), Ready(t)',
         \A u \in Tasks \ {t} :
           /\ f \notin held[u]
           /\ Busy(u) => at[u].fd # f
           /\ held'[u] = held[u],
         \A g \in FDs \ {f} : alt_fd_list'[g] = alt_fd_list[g]
  PROVE  Pending'
<1>1. ASSUME NEW u \in Tasks \ {t} PROVE Ready(u)'
  <2>1. at[u].pc \in {"flags", "free", "locked", "callback", "excl", "lock"} =>
          alt_fd_list'[at[u].fd] = alt_fd_list[at[u].fd]
    BY InRange DEF IInv, Busy, Pending, Ready
  <2> QED
    BY <2>1 DEF IInv, Pending, Ready, Others
<1> QED
  BY <1>1 DEF Pending

LEMMA SamePending ==
  ASSUME IInv, NEW t \in Tasks, Others(t), Ready(t)',
         UNCHANGED <<alt_fd_list, held>>
  PROVE  Pending'
BY DEF IInv, Pending, Ready, Others

\* A step that opens and locks nothing keeps Excluded.
LEMMA StillExcluded ==
  ASSUME IInv, NEW t \in Tasks, Others(t), Searched(t)',
         \A g \in FDs :
           /\ \/ alt_fd_list'[g].dev = alt_fd_list[g].dev
              \/ alt_fd_list'[g].dev = None
           /\ alt_fd_list'[g].excl =>
                alt_fd_list[g].excl /\ alt_fd_list'[g].dev = alt_fd_list[g].dev,
         \A u \in Tasks \ {t} : at[u].pc = "lock" =>
           alt_fd_list'[at[u].fd].dev = alt_fd_list[at[u].fd].dev,
         \A g, j \in FDs :
           /\ alt_fd_list[g].excl /\ g # j /\ Leaves(t, j, g)
           /\ alt_fd_list'[j].dev = alt_fd_list[g].dev
           => Leaves(t, j, g)'
  PROVE  Excluded'
<1>1. ASSUME NEW u \in Tasks \ {t} PROVE Searched(u)'
  <2> SUFFICES ASSUME at[u].pc = "lock", NEW j \in FDs \ {at[u].fd},
                      j < at[u].i
               PROVE  alt_fd_list'[j].dev # alt_fd_list'[at[u].fd].dev
    BY DEF Searched, Others
  <2>1. at[u].fd \in FDs /\ alt_fd_list[at[u].fd].isdev
    BY InRange DEF IInv, Pending, Ready
  <2>2. alt_fd_list[at[u].fd].dev # None
    BY <2>1 DEF IInv, Marked
  <2>3. alt_fd_list[j].dev # alt_fd_list[at[u].fd].dev
    BY DEF IInv, Excluded, Searched
  <2> QED
    BY <2>1, <2>2, <2>3
<1>2. ASSUME NEW g \in FDs, alt_fd_list'[g].excl
      PROVE  \E last \in FDs : Alone(g, last)'
  <2>1. /\ alt_fd_list[g].excl /\ alt_fd_list'[g].dev = alt_fd_list[g].dev
        /\ alt_fd_list[g].dev # None
    BY <1>2 DEF IInv, Marked
  <2>2. PICK last \in FDs : Alone(g, last)
    BY <2>1 DEF IInv, Excluded
  <2>3. ASSUME NEW j \in FDs \ {g, last},
               alt_fd_list'[j].dev = alt_fd_list'[g].dev
        PROVE  \E u \in Tasks : Leaves(u, j, g)'
    <3>1. alt_fd_list[j].dev = alt_fd_list[g].dev
      BY <2>1, <2>3
    <3>2. PICK u \in Tasks : Leaves(u, j, g)
      BY <2>2, <3>1 DEF Alone
    <3>3. CASE u = t
      BY <2>1, <2>3, <3>2, <3>3
    <3>4. CASE u # t
      BY <3>2, <3>4 DEF Leaves, Others
    <3> QED
      BY <3>3, <3>4
  <2> QED
    BY <2>3 DEF Alone
<1> QED
  BY <1>1, <1>2 DEF Excluded

\* A step that only moves t from one place to another.
LEMMA Quiet ==
  ASSUME IInv, NEW t \in Tasks, Placed', Others(t),
         UNCHANGED <<alt_fd_list, alt_max_fd, held, asked>>,
         sem' \in Tasks \cup {NoTask}, Serial', Ready(t)', Searched(t)',
         Busy(t)' <=> Busy(t), Busy(t) => at'[t].fd = at[t].fd,
         \A g, j \in FDs :
           /\ alt_fd_list[g].excl /\ g # j /\ Leaves(t, j, g)
           /\ alt_fd_list[j].dev = alt_fd_list[g].dev
           => Leaves(t, j, g)'
  PROVE  IInv'
<1>1. TypeOK'
  BY DEF IInv, TypeOK
<1>2. Owned'
  BY StillOwned
<1>3. Marked' /\ Agreed'
  BY DEF IInv, Marked, Agreed
<1>4. Pending'
  BY SamePending
<1>5. Excluded'
  BY StillExcluded
<1> QED
  BY <1>1, <1>2, <1>3, <1>4, <1>5 DEF IInv
-----------------------------------------------------------------------------
\* Each action keeps IInv.
LEMMA OpenStep ==
  ASSUME IInv, NEW t \in Tasks, NEW name \in Names, NEW acc \in Access,
         NEW then \in {"return", "close"}, Open(t, name, acc, then)
  PROVE  IInv'
<1>1. /\ at[t].pc = "idle" /\ Found(name) # None
      /\ UNCHANGED <<alt_fd_list, alt_max_fd, sem, held, asked>>
  BY DEF Open
<1>2. /\ Placed' /\ at'[t].pc = "get" /\ at'[t].want.dev = Found(name)
      /\ at'[t].want.fs = isafs(name) /\ Others(t)
  BY InRange, Opening DEF Others
<1>3. Ready(t)' /\ Searched(t)' /\ ~Busy(t) /\ ~Busy(t)'
  BY <1>1, <1>2, FoundThere DEF Ready, Searched, Busy
<1>4. Serial'
  BY <1>1, <1>2, StillSerial
<1> QED
  BY <1>1, <1>2, <1>3, <1>4, Quiet DEF Leaves, IInv, TypeOK

LEMMA PendStep ==
  ASSUME IInv, NEW t \in Tasks,
         Pend(t, "get", "search") \/ Pend(t, "excl", "lock")
  PROVE  IInv'
<1>1. PICK pc \in {"search", "lock"} :
        /\ at[t].pc = IF pc = "lock" THEN "excl" ELSE "get"
        /\ sem = NoTask /\ sem' = t /\ Goto(t, pc)
        /\ UNCHANGED <<alt_fd_list, alt_max_fd, held, asked>>
  BY DEF Pend
<1>2. /\ Placed' /\ at'[t].pc = pc /\ at'[t].fd = at[t].fd /\ at'[t].i = 0
      /\ at'[t].want = at[t].want /\ Others(t)
  BY <1>1, InRange, Going DEF Others, Kinds
<1>3. Ready(t)' /\ ~Busy(t) /\ ~Busy(t)'
  BY <1>1, <1>2 DEF IInv, Pending, Ready, Busy
<1>4. Searched(t)'
  BY <1>2 DEF Searched, FDs
<1>5. Serial'
  BY <1>1, <1>2, FilesAssumption DEF IInv, Serial, Others
<1> QED
  BY <1>1, <1>2, <1>3, <1>4, <1>5, Quiet DEF Leaves

LEMMA GetStep ==
  ASSUME IInv, NEW t \in Tasks, alt_get_fd(t)
  PROVE  IInv'
<1> DEFINE i == at[t].i
           w == at[t].want
<1>1. i \in Nat /\ w.dev \in AnyDev /\ at[t].pc = "search" /\ Placed
  BY InRange DEF Places, alt_get_fd
<1>2. UNCHANGED <<held, asked>> /\ ~Busy(t)
  BY <1>1 DEF alt_get_fd, Busy
<1>3. CASE Round(t) /\ UNCHANGED <<alt_fd_list, alt_max_fd, sem>>
  <2>1. Placed' /\ at'[t].pc = "search" /\ at'[t].want = w /\ Others(t)
    BY <1>1, <1>3, Rounding DEF Others
  <2>2. Ready(t)' /\ Searched(t)' /\ ~Busy(t)'
    BY <1>1, <2>1 DEF IInv, Pending, Ready, Searched, Busy
  <2>3. Serial'
    BY <1>1, <1>3, <2>1, StillSerial
  <2> QED
    BY <1>1, <1>2, <1>3, <2>1, <2>2, <2>3, Quiet DEF Leaves, IInv, TypeOK
<1>4. CASE /\ i < ALT_MAX_FD /\ alt_fd_list[i].dev = None
           /\ alt_fd_list' = [alt_fd_list EXCEPT ![i].dev = w.dev]
           /\ alt_max_fd' = IF i > alt_max_fd THEN i ELSE alt_max_fd
           /\ sem' = NoTask
           /\ at' = [at EXCEPT ![t].pc = "flags", ![t].fd = i, ![t].i = 0]
  <2>1. i \in FDs
    BY <1>1, <1>4, FilesAssumption DEF FDs
  <2> DEFINE d == [alt_fd_list[i] EXCEPT !.dev = w.dev]
  <2>2. /\ d \in Descriptors /\ d.dev = w.dev
        /\ d.excl = alt_fd_list[i].excl /\ d.isdev = alt_fd_list[i].isdev
    BY <1>1, <2>1, InRange, Assigned
  <2>3. alt_fd_list' = [alt_fd_list EXCEPT ![i] = d]
    BY <1>4
  <2> HIDE DEF d
  <2>4. alt_fd_list' \in [FDs -> Descriptors] /\ Changed(i, d)
    BY <2>1, <2>2, <2>3, Writing DEF IInv
  <2>5. /\ Placed' /\ at'[t].pc = "flags" /\ at'[t].fd = i /\ at'[t].want = w
        /\ Others(t)
    BY <1>1, <1>4, <2>1, Taking DEF Others
  <2>6. ~alt_fd_list[i].isdev /\ ~alt_fd_list[i].excl
    BY <1>4, <2>1 DEF IInv, Marked
  <2>7. /\ i \notin Std /\ w.dev # None /\ (w.fs <=> w.dev \in Fs)
        /\ \A u \in Tasks : i \notin held[u] /\ (Busy(u) => at[u].fd # i)
    BY <1>1, <1>4, FilesAssumption DEF IInv, Owned, Pending, Ready
  <2>8. TypeOK'
    <3>1. alt_max_fd' \in -1..ALT_MAX_FD - 1
      BY <1>1, <1>4, FilesAssumption DEF IInv, TypeOK
    <3> QED
      BY <1>2, <1>4, <2>4, <2>5, <3>1 DEF IInv, TypeOK
  <2>9. Serial'
    BY <1>1, <1>4, <2>5, FilesAssumption DEF IInv, Serial, Others
  <2>10. Owned'
    <3>1. Busy(t)' /\ \A u \in Tasks \ {t} : Busy(u)' <=> Busy(u)
      BY <2>5 DEF Busy, Others
    <3> QED
      BY <1>1, <1>2, <2>1, <2>2, <2>4, <2>5, <2>7, <3>1, InRange
      DEF IInv, Owned, Changed, Others, Busy
  <2>11. Marked'
    BY <1>1, <1>4, <2>1, <2>2, <2>4, <2>6, <2>7, FilesAssumption
    DEF IInv, Marked, TypeOK, Changed, Std, FDs
  <2>12. Agreed'
    BY <1>2, <2>1, <2>4, <2>7, InRange DEF IInv, Agreed, Changed, Want
  <2>13. Pending'
    <3>1. Ready(t)'
      BY <2>2, <2>4, <2>5, <2>6, <2>7 DEF Ready, Changed
    <3> QED
      BY <1>2, <2>1, <2>4, <2>5, <2>7, <3>1, StillPending DEF Changed
  <2>14. Excluded'
    <3>1. ASSUME NEW u \in Tasks PROVE Searched(u)'
      BY <1>1, <2>5 DEF IInv, Serial, Others, Searched
    <3>2. ASSUME NEW g \in FDs, alt_fd_list'[g].excl
          PROVE  \E last \in FDs : Alone(g, last)'
      <4>1. g # i /\ alt_fd_list'[g] = alt_fd_list[g]
        BY <2>2, <2>4, <2>6, <3>2 DEF Changed
      <4>2. PICK last \in FDs : Alone(g, last)
        BY <3>2, <4>1 DEF IInv, Excluded
      <4>3. ASSUME NEW j \in FDs \ {g, last},
                   alt_fd_list'[j].dev = alt_fd_list'[g].dev
            PROVE  \E u \in Tasks : Leaves(u, j, g)'
        <5>1. CASE j = i
          BY <2>5, <5>1 DEF Leaves
        <5>2. CASE j # i
          <6>1. PICK u \in Tasks : Leaves(u, j, g)
            BY <2>4, <4>1, <4>2, <4>3, <5>2 DEF Alone, Changed
          <6> QED
            BY <1>1, <2>5, <6>1 DEF Leaves, Others
        <5> QED
          BY <5>1, <5>2
      <4> QED
        BY <4>3 DEF Alone
    <3> QED
      BY <3>1, <3>2 DEF Excluded
  <2> QED
    BY <2>8, <2>9, <2>10, <2>11, <2>12, <2>13, <2>14 DEF IInv
<1>5. CASE sem' = NoTask /\ Return(t) /\ UNCHANGED <<alt_fd_list, alt_max_fd>>
  <2>1. Placed' /\ at'[t].pc = "idle" /\ Others(t)
    BY <1>1, <1>5, Returning DEF Others
  <2>2. Ready(t)' /\ Searched(t)' /\ ~Busy(t)'
    BY <2>1 DEF Ready, Searched, Busy
  <2>3. Serial'
    BY <1>1, <1>5, <2>1, FilesAssumption DEF IInv, Serial, Others
  <2> QED
    BY <1>1, <1>2, <1>5, <2>1, <2>2, <2>3, Quiet DEF Leaves
<1> QED
  BY <1>3, <1>4, <1>5 DEF alt_get_fd

LEMMA FlagsStep ==
  ASSUME IInv, NEW t \in Tasks, SetFlags(t)
  PROVE  IInv'
<1> DEFINE f == at[t].fd
           w == at[t].want
           d == [dev |-> alt_fd_list[f].dev, acc |-> w.acc,
                 nonblock |-> w.nonblock, excl |-> FALSE, isdev |-> ~w.fs]
<1>1. /\ at[t].pc = "flags" /\ f \in FDs /\ Busy(t)
      /\ UNCHANGED <<alt_max_fd, sem, held, asked>>
  BY InRange DEF SetFlags, Busy
<1>2. /\ w.dev # None /\ (w.fs <=> w.dev \in Fs)
      /\ alt_fd_list[f].dev = w.dev /\ w.fs \in BOOLEAN
  BY <1>1, InRange DEF IInv, Pending, Ready, Places
<1>3. /\ d \in Descriptors /\ d.dev = w.dev /\ d.excl = FALSE
      /\ (d.isdev <=> ~w.fs) /\ Want(d) = Want(w)
  BY <1>1, <1>2, InRange DEF Places, Descriptors, Want
<1>4. alt_fd_list' = [alt_fd_list EXCEPT ![f] = d]
  BY DEF SetFlags
<1> HIDE DEF d
<1>5. alt_fd_list' \in [FDs -> Descriptors] /\ Changed(f, d)
  BY <1>1, <1>3, <1>4, Writing DEF IInv
<1>6. PICK pc \in {"callback", "locked"} :
        Goto(t, pc) /\ (pc = "callback" <=> w.fs)
  BY <1>2 DEF SetFlags
<1>7. /\ Placed' /\ at'[t].pc = pc /\ at'[t].fd = f /\ at'[t].i = 0
      /\ at'[t].want = w /\ Others(t)
  BY <1>1, <1>6, InRange, Going DEF Others, Kinds
<1>8. /\ f \notin Std
      /\ \A u \in Tasks : f \notin held[u]
      /\ \A u \in Tasks \ {t} : Busy(u) => at[u].fd # f
  BY <1>1 DEF IInv, Owned
<1>9. TypeOK'
  BY <1>1, <1>5, <1>7 DEF IInv, TypeOK
<1>10. Serial'
  BY <1>1, <1>7, StillSerial
<1>11. Owned'
  <2>1. \A g \in FDs : alt_fd_list'[g].dev = alt_fd_list[g].dev
    BY <1>2, <1>3, <1>5 DEF Changed
  <2>2. Busy(t)'
    BY <1>7 DEF Busy
  <2> QED
    BY <1>1, <1>7, <2>1, <2>2, StillOwned
<1>12. Marked'
  BY <1>1, <1>2, <1>3, <1>5, <1>8 DEF IInv, Marked, Changed
<1>13. Agreed'
  BY <1>1, <1>5, <1>8, InRange DEF IInv, Agreed, Changed
<1>14. Pending'
  <2>1. Ready(t)'
    BY <1>2, <1>3, <1>5, <1>7 DEF Ready, Changed
  <2> QED
    BY <1>1, <1>5, <1>7, <1>8, <2>1, StillPending DEF Changed
<1>15. Excluded'
  <2>1. \A g \in FDs :
          /\ alt_fd_list'[g].dev = alt_fd_list[g].dev
          /\ alt_fd_list'[g].excl => alt_fd_list[g].excl
    BY <1>2, <1>3, <1>5 DEF Changed
  <2>2. ASSUME NEW g \in FDs, NEW j \in FDs, alt_fd_list[g].excl,
               Leaves(t, j, g), alt_fd_list'[j].dev = alt_fd_list[g].dev
        PROVE  Leaves(t, j, g)'
    <3>1. j = f /\ w.dev \notin Fs
      BY <1>2, <2>1, <2>2 DEF Leaves, IInv, Marked
    <3> QED
      BY <1>2, <1>6, <1>7, <3>1 DEF Leaves, FDs
  <2>3. Searched(t)'
    BY <1>7 DEF Searched
  <2> QED
    BY <1>7, <2>1, <2>2, <2>3, InRange, StillExcluded
<1> QED
  BY <1>9, <1>10, <1>11, <1>12, <1>13, <1>14, <1>15 DEF IInv

LEMMA LockedStep ==
  ASSUME IInv, NEW t \in Tasks, alt_file_locked(t)
  PROVE  IInv'
<1> DEFINE i == at[t].i
           f == at[t].fd
           barred == /\ alt_fd_list[i].dev = alt_fd_list[f].dev
                     /\ alt_fd_list[i].excl /\ i # f
<1>1. /\ at[t].pc = "locked" /\ i \in Nat /\ f \in FDs /\ Busy(t) /\ Placed
      /\ UNCHANGED <<alt_fd_list, alt_max_fd, sem, held, asked>>
      /\ f \notin Std
  BY InRange DEF alt_file_locked, Busy, IInv, Owned
<1>2. alt_max_fd \in -1..ALT_MAX_FD - 1
  BY DEF IInv, TypeOK
<1>3. CASE i <= alt_max_fd /\ ~barred /\ Round(t)
  <2>1. /\ Placed' /\ at'[t].pc = "locked" /\ at'[t].fd = f /\ at'[t].i = i + 1
        /\ at'[t].want = at[t].want /\ Others(t)
    BY <1>1, <1>3, Rounding DEF Others
  <2>2. Ready(t)' /\ Searched(t)' /\ Busy(t)'
    BY <1>1, <2>1 DEF IInv, Pending, Ready, Searched, Busy
  <2>3. Serial'
    BY <1>1, <2>1, StillSerial
  <2>4. ASSUME NEW g \in FDs, NEW j \in FDs, alt_fd_list[g].excl, g # j,
               Leaves(t, j, g), alt_fd_list[j].dev = alt_fd_list[g].dev
        PROVE  Leaves(t, j, g)'
    <3>1. j = f /\ i <= g /\ i # g
      BY <1>1, <1>3, <2>4 DEF Leaves
    <3>2. i + 1 <= g
      BY <1>1, <3>1, FilesAssumption DEF FDs
    <3> QED
      BY <2>1, <3>1, <3>2 DEF Leaves
  <2> QED
    BY <1>1, <2>1, <2>2, <2>3, <2>4, Quiet DEF IInv, TypeOK
<1>4. CASE i <= alt_max_fd /\ barred /\ Goto(t, "release")
  <2>1. /\ Placed' /\ at'[t].pc = "release" /\ at'[t].fd = f /\ Others(t)
    BY <1>1, <1>4, Going DEF Others, Kinds
  <2>2. Ready(t)' /\ Searched(t)' /\ Busy(t)'
    BY <1>1, <2>1 DEF Ready, Searched, Busy
  <2>3. Serial'
    BY <1>1, <2>1, StillSerial
  <2>4. ASSUME NEW g \in FDs, NEW j \in FDs, Leaves(t, j, g)
        PROVE  Leaves(t, j, g)'
    BY <1>1, <2>1, <2>4 DEF Leaves
  <2> QED
    BY <1>1, <2>1, <2>2, <2>3, <2>4, Quiet DEF IInv, TypeOK
<1>5. CASE i > alt_max_fd /\ Goto(t, "callback")
  <2>1. /\ Placed' /\ at'[t].pc = "callback" /\ at'[t].fd = f
        /\ at'[t].want = at[t].want /\ Others(t)
    BY <1>1, <1>5, Going DEF Others, Kinds
  <2>2. Ready(t)' /\ Searched(t)' /\ Busy(t)'
    BY <1>1, <2>1 DEF IInv, Pending, Ready, Searched, Busy
  <2>3. Serial'
    BY <1>1, <2>1, StillSerial
  <2>4. ASSUME NEW g \in FDs, NEW j \in FDs, alt_fd_list[g].excl,
               Leaves(t, j, g)
        PROVE  FALSE
    <3>1. g <= alt_max_fd /\ i <= g
      BY <1>1, <2>4 DEF IInv, Marked, Leaves
    <3> QED
      BY <1>1, <1>2, <1>5, <3>1, FilesAssumption DEF FDs
  <2> QED
    BY <1>1, <2>1, <2>2, <2>3, <2>4, Quiet DEF IInv, TypeOK
<1> QED
  BY <1>3, <1>4, <1>5 DEF alt_file_locked

LEMMA DevOpenStep ==
  ASSUME IInv, NEW t \in Tasks, DevOpen(t)
  PROVE  IInv'
<1> DEFINE f == at[t].fd
           w == at[t].want
<1>1. /\ at[t].pc = "callback" /\ f \in FDs /\ Busy(t) /\ Placed
      /\ UNCHANGED <<alt_fd_list, alt_max_fd, sem>>
  BY InRange DEF DevOpen, Busy
<1>2. f \notin Std
  BY <1>1 DEF IInv, Owned
<1>3. CASE Goto(t, "release") /\ UNCHANGED <<held, asked>>
  <2>1. /\ Placed' /\ at'[t].pc = "release" /\ at'[t].fd = f /\ Others(t)
    BY <1>1, <1>3, Going DEF Others, Kinds
  <2>2. Ready(t)' /\ Searched(t)' /\ Busy(t)'
    BY <1>2, <2>1 DEF Ready, Searched, Busy
  <2>3. Serial'
    BY <1>1, <2>1, StillSerial
  <2> QED
    BY <1>1, <1>3, <2>1, <2>2, <2>3, Quiet DEF IInv, TypeOK, Leaves
<1>4. CASE /\ Return(t)
           /\ held' = [held EXCEPT ![t] = @ \cup {f}]
           /\ asked' = [asked EXCEPT ![f] = Want(w)]
  <2>1. Placed' /\ at'[t].pc = "idle" /\ Others(t)
    BY <1>1, <1>4, Returning DEF Others
  <2>2. /\ held' \in [Tasks -> SUBSET FDs]
        /\ held'[t] = held[t] \cup {f}
        /\ \A u \in Tasks \ {t} : held'[u] = held[u]
    BY <1>1, <1>4 DEF IInv, TypeOK
  <2>3. /\ Want(w) \in Requests /\ Want(w) = Want(alt_fd_list[f])
        /\ alt_fd_list[f].dev # None
        /\ alt_fd_list[f].isdev <=> alt_fd_list[f].dev \notin Fs
    <3>1. Want(w) \in Requests
      BY InRange DEF Want, Requests, Places
    <3> QED
      BY <1>1, <3>1 DEF IInv, Pending, Ready
  <2>4. /\ asked' \in [FDs -> Requests] /\ asked'[f] = Want(w)
        /\ \A g \in FDs \ {f} : asked'[g] = asked[g]
    BY <1>1, <1>4, <2>3 DEF IInv, TypeOK
  <2>5. /\ \A u \in Tasks : f \notin held[u]
        /\ \A u \in Tasks \ {t} : Busy(u) => at[u].fd # f
    BY <1>1 DEF IInv, Owned
  <2>6. TypeOK'
    BY <1>1, <2>1, <2>2, <2>4 DEF IInv, TypeOK
  <2>7. Serial'
    BY <1>1, <2>1, StillSerial
  <2>8. Owned'
    <3>1. ~Busy(t)' /\ \A u \in Tasks \ {t} : Busy(u)' <=> Busy(u)
      BY <2>1 DEF Busy, Others
    <3> QED
      BY <1>1, <2>1, <2>2, <2>3, <2>5, <3>1, InRange, FilesAssumption
      DEF IInv, Owned, Others, Busy
  <2>9. Marked'
    BY <1>1 DEF IInv, Marked
  <2>10. Agreed'
    BY <1>1, <2>2, <2>3, <2>4, <2>5, InRange DEF IInv, Agreed
  <2>11. Pending'
    BY <1>1, <2>1, <2>2, InRange DEF IInv, Pending, Ready, Others
  <2>12. Excluded'
    BY <1>1, <2>1, StillExcluded DEF Searched, Leaves
  <2> QED
    BY <2>6, <2>7, <2>8, <2>9, <2>10, <2>11, <2>12 DEF IInv
<1> QED
  BY <1>3, <1>4 DEF DevOpen

LEMMA ReleaseStep ==
  ASSUME IInv, NEW t \in Tasks, alt_release_fd(t)
  PROVE  IInv'
<1> DEFINE f == at[t].fd
<1>1. f \in FDs /\ Placed /\ UNCHANGED <<alt_max_fd, sem, held, asked>>
  BY InRange DEF alt_release_fd
<1>2. CASE /\ at[t].pc = "release" /\ f \notin Std
           /\ alt_fd_list' = [alt_fd_list EXCEPT ![f] = Cleared(f)]
           /\ Goto(t, "free")
  <2>1. Busy(t)
    BY <1>2 DEF Busy
  <2>2. /\ Cleared(f) \in Descriptors /\ Cleared(f).dev = alt_fd_list[f].dev
        /\ Cleared(f).excl = FALSE /\ Cleared(f).isdev = FALSE
    BY <1>1, InRange, Assigned DEF Cleared, Descriptors
  <2>3. alt_fd_list' \in [FDs -> Descriptors] /\ Changed(f, Cleared(f))
    BY <1>1, <1>2, <2>2, Writing DEF IInv
  <2>4. /\ Placed' /\ at'[t].pc = "free" /\ at'[t].fd = f /\ Others(t)
    BY <1>1, <1>2, Going DEF Others, Kinds
  <2>5. /\ \A u \in Tasks : f \notin held[u]
        /\ \A u \in Tasks \ {t} : Busy(u) => at[u].fd # f
    BY <2>1 DEF IInv, Owned
  <2>6. TypeOK'
    BY <1>1, <2>3, <2>4 DEF IInv, TypeOK
  <2>7. Serial'
    BY <1>1, <1>2, <2>4, StillSerial
  <2>8. \A g \in FDs : /\ alt_fd_list'[g].dev = alt_fd_list[g].dev
                       /\ alt_fd_list'[g].excl => alt_fd_list[g].excl
    BY <2>2, <2>3 DEF Changed
  <2>9. Owned'
    <3>1. Busy(t)'
      BY <2>4 DEF Busy
    <3> QED
      BY <1>1, <2>1, <2>4, <2>8, <3>1, StillOwned
  <2>10. Marked'
    BY <1>1, <2>2, <2>3 DEF IInv, Marked, Changed
  <2>11. Agreed'
    BY <1>1, <2>3, <2>5, InRange DEF IInv, Agreed, Changed
  <2>12. Pending'
    <3>1. Ready(t)'
      BY <2>2, <2>3, <2>4 DEF Ready, Changed
    <3> QED
      BY <1>1, <2>3, <2>4, <2>5, <3>1, StillPending DEF Changed
  <2>13. Excluded'
    BY <1>2, <2>4, <2>8, InRange, StillExcluded DEF Leaves, Searched
  <2> QED
    BY <2>6, <2>7, <2>9, <2>10, <2>11, <2>12, <2>13 DEF IInv
<1>3. CASE /\ at[t].pc = "free"
           /\ alt_fd_list' = [alt_fd_list EXCEPT ![f].dev = None]
           /\ Return(t)
  <2> DEFINE d == [alt_fd_list[f] EXCEPT !.dev = None]
  <2>1. Busy(t) /\ ~alt_fd_list[f].isdev /\ ~alt_fd_list[f].excl
    BY <1>1, <1>3 DEF Busy, IInv, Pending, Ready, Marked
  <2>2. /\ d \in Descriptors /\ d.dev = None
        /\ d.excl = alt_fd_list[f].excl /\ d.isdev = alt_fd_list[f].isdev
    BY <1>1, InRange, Assigned DEF AnyDev
  <2>3. alt_fd_list' = [alt_fd_list EXCEPT ![f] = d]
    BY <1>3
  <2> HIDE DEF d
  <2>4. alt_fd_list' \in [FDs -> Descriptors] /\ Changed(f, d)
    BY <1>1, <2>2, <2>3, Writing DEF IInv
  <2>5. Placed' /\ at'[t].pc = "idle" /\ Others(t)
    BY <1>1, <1>3, Returning DEF Others
  <2>6. /\ f \notin Std
        /\ \A u \in Tasks : f \notin held[u]
        /\ \A u \in Tasks \ {t} : Busy(u) => at[u].fd # f
    BY <2>1 DEF IInv, Owned
  <2>7. TypeOK'
    BY <1>1, <2>4, <2>5 DEF IInv, TypeOK
  <2>8. Serial'
    BY <1>1, <1>3, <2>5, StillSerial
  <2>9. Owned'
    <3>1. ~Busy(t)' /\ \A u \in Tasks \ {t} : Busy(u)' <=> Busy(u)
      BY <2>5 DEF Busy, Others
    <3> QED
      BY <1>1, <2>2, <2>4, <2>5, <2>6, <3>1, InRange
      DEF IInv, Owned, Changed, Others
  <2>10. Marked'
    BY <1>1, <2>1, <2>2, <2>4 DEF IInv, Marked, Changed
  <2>11. Agreed'
    BY <1>1, <2>4, <2>6, InRange DEF IInv, Agreed, Changed
  <2>12. Pending'
    <3>1. Ready(t)'
      BY <2>5 DEF Ready
    <3> QED
      BY <1>1, <2>4, <2>5, <2>6, <3>1, StillPending DEF Changed
  <2>13. Excluded'
    <3>1. \A u \in Tasks \ {t} : at[u].pc = "lock" =>
            at[u].fd # f /\ at[u].fd \in FDs
      BY <2>6, InRange DEF IInv, Pending, Ready
    <3>2. Searched(t)'
      BY <2>5 DEF Searched
    <3>3. \A g \in FDs :
            /\ \/ alt_fd_list'[g].dev = alt_fd_list[g].dev
               \/ alt_fd_list'[g].dev = None
            /\ alt_fd_list'[g].excl => /\ alt_fd_list[g].excl
                    /\ alt_fd_list'[g].dev = alt_fd_list[g].dev
      BY <2>1, <2>2, <2>4 DEF Changed
    <3>4. ASSUME NEW g \in FDs, NEW j \in FDs, alt_fd_list[g].excl,
                 Leaves(t, j, g), alt_fd_list'[j].dev = alt_fd_list[g].dev
          PROVE  FALSE
      <4>1. j = f /\ alt_fd_list[g].dev # None
        BY <3>4 DEF Leaves, IInv, Marked
      <4> QED
        BY <2>2, <2>4, <3>4, <4>1 DEF Changed
    <3> QED
      BY <2>4, <2>5, <3>1, <3>2, <3>3, <3>4, StillExcluded DEF Changed
  <2> QED
    BY <2>7, <2>8, <2>9, <2>10, <2>11, <2>12, <2>13 DEF IInv
<1>4. CASE /\ at[t].pc = "release" /\ f \in Std
           /\ Return(t) /\ UNCHANGED alt_fd_list
  <2>1. Placed' /\ at'[t].pc = "idle" /\ Others(t)
    BY <1>1, <1>4, Returning DEF Others
  <2>2. Ready(t)' /\ Searched(t)' /\ ~Busy(t) /\ ~Busy(t)'
    BY <1>4, <2>1 DEF Ready, Searched, Busy
  <2>3. Serial'
    BY <1>1, <1>4, <2>1, StillSerial
  <2> QED
    BY <1>1, <1>4, <2>1, <2>2, <2>3, Quiet DEF IInv, TypeOK, Leaves
<1> QED
  BY <1>2, <1>3, <1>4 DEF alt_release_fd

LEMMA CloseStep ==
  ASSUME IInv, NEW t \in Tasks, NEW f \in FDs, Close(t, f)
  PROVE  IInv'
<1>1. /\ at[t].pc = "idle" /\ f \in held[t]
      /\ UNCHANGED <<alt_fd_list, alt_max_fd, sem>>
  BY DEF Close
<1>2. Placed' /\ at'[t].pc = "release" /\ at'[t].fd = f /\ Others(t)
  BY InRange, Starting DEF Close, Others, Kinds
<1>3. CASE f \in Std
  <2>1. UNCHANGED <<held, asked>>
    BY <1>3 DEF Close, IInv, TypeOK
  <2>2. Ready(t)' /\ Searched(t)' /\ ~Busy(t) /\ ~Busy(t)'
    BY <1>1, <1>2, <1>3 DEF Ready, Searched, Busy
  <2>3. Serial'
    BY <1>1, <1>2, StillSerial
  <2> QED
    BY <1>1, <1>2, <2>1, <2>2, <2>3, Quiet DEF IInv, TypeOK, Leaves
<1>4. CASE f \notin Std
  <2>1. /\ held' \in [Tasks -> SUBSET FDs]
        /\ held'[t] = held[t] \ {f}
        /\ \A u \in Tasks \ {t} : held'[u] = held[u]
    BY <1>4 DEF Close, IInv, TypeOK
  <2>2. Want(Free) \in Requests
    BY DEF Want, Free, Requests, AnyDev, Access
  <2>3. /\ asked' \in [FDs -> Requests]
        /\ \A g \in FDs \ {f} : asked'[g] = asked[g]
    BY <1>4, <2>2 DEF Close, IInv, TypeOK
  <2>4. /\ \A u \in Tasks \ {t} : f \notin held[u]
        /\ \A u \in Tasks \ {t} : Busy(u) => at[u].fd # f
    BY <1>1, Apart
  <2>5. TypeOK'
    BY <1>1, <1>2, <2>1, <2>3 DEF IInv, TypeOK
  <2>6. Serial'
    BY <1>1, <1>2, StillSerial
  <2>7. Owned'
    <3>1. Busy(t)' /\ ~Busy(t) /\ \A u \in Tasks \ {t} : Busy(u)' <=> Busy(u)
      BY <1>1, <1>2, <1>4 DEF Busy, Others
    <3> QED
      BY <1>1, <1>2, <1>4, <2>1, <2>4, <3>1, InRange, FilesAssumption
      DEF IInv, Owned, Others
  <2>8. Marked'
    BY <1>1 DEF IInv, Marked
  <2>9. Agreed'
    BY <1>1, <2>1, <2>3, <2>4, InRange DEF IInv, Agreed
  <2>10. Pending'
    BY <1>1, <1>2, <2>1, InRange DEF IInv, Pending, Ready, Others
  <2>11. Excluded'
    BY <1>1, <1>2, StillExcluded DEF Searched, Leaves
  <2> QED
    BY <2>5, <2>6, <2>7, <2>8, <2>9, <2>10, <2>11 DEF IInv
<1> QED
  BY <1>3, <1>4

LEMMA ExclusiveStep ==
  ASSUME IInv, NEW t \in Tasks, NEW f \in FDs, Exclusive(t, f)
  PROVE  IInv'
<1>1. /\ at[t].pc = "idle" /\ f \in held[t] /\ alt_fd_list[f].isdev
      /\ UNCHANGED <<alt_fd_list, alt_max_fd, sem, held, asked>>
  BY DEF Exclusive
<1>2. Placed' /\ at'[t].pc = "excl" /\ at'[t].fd = f /\ Others(t)
  BY InRange, Starting DEF Exclusive, Others, Kinds
<1>3. Ready(t)' /\ Searched(t)' /\ ~Busy(t) /\ ~Busy(t)'
  BY <1>1, <1>2 DEF Ready, Searched, Busy
<1>4. Serial'
  BY <1>1, <1>2, StillSerial
<1> QED
  BY <1>1, <1>2, <1>3, <1>4, Quiet DEF IInv, TypeOK, Leaves

LEMMA LockStep ==
  ASSUME IInv, NEW t \in Tasks, alt_fd_lock(t)
  PROVE  IInv'
<1> DEFINE i == at[t].i
           f == at[t].fd
           other == i # f /\ alt_fd_list[i].dev = alt_fd_list[f].dev
<1>1. /\ at[t].pc = "lock" /\ i \in Nat /\ f \in FDs /\ ~Busy(t) /\ Placed
      /\ UNCHANGED <<alt_max_fd, held, asked>>
      /\ f \in held[t] /\ alt_fd_list[f].isdev
  BY InRange DEF alt_fd_lock, Busy, IInv, Pending, Ready
<1>2. alt_max_fd \in -1..ALT_MAX_FD - 1
  BY DEF IInv, TypeOK
<1>3. CASE /\ i < alt_max_fd /\ ~other
           /\ Round(t) /\ UNCHANGED <<alt_fd_list, sem>>
  <2>1. /\ Placed' /\ at'[t].pc = "lock" /\ at'[t].fd = f /\ at'[t].i = i + 1
        /\ at'[t].want = at[t].want /\ Others(t)
    BY <1>1, <1>3, Rounding DEF Others
  <2>2. Ready(t)' /\ ~Busy(t)'
    BY <1>1, <1>3, <2>1 DEF Ready, Busy
  <2>3. Serial'
    BY <1>1, <1>3, <2>1, StillSerial
  <2>4. Searched(t)'
    <3> SUFFICES ASSUME NEW j \in FDs \ {f}, j < i + 1
                 PROVE  alt_fd_list[j].dev # alt_fd_list[f].dev
      BY <1>3, <2>1 DEF Searched
    <3>1. CASE j = i
      BY <1>3, <3>1
    <3>2. CASE j < i
      BY <1>1, <3>2 DEF IInv, Excluded, Searched
    <3> QED
      BY <1>1, <3>1, <3>2 DEF FDs
  <2> QED
    BY <1>1, <1>3, <2>1, <2>2, <2>3, <2>4, Quiet DEF IInv, TypeOK, Leaves
<1>4. CASE sem' = NoTask /\ Return(t) /\ UNCHANGED alt_fd_list
  <2>1. Placed' /\ at'[t].pc = "idle" /\ Others(t)
    BY <1>1, <1>4, Returning DEF Others
  <2>2. Ready(t)' /\ Searched(t)' /\ ~Busy(t)'
    BY <2>1 DEF Ready, Searched, Busy
  <2>3. Serial'
    BY <1>1, <1>4, <2>1, FilesAssumption DEF IInv, Serial, Others
  <2> QED
    BY <1>1, <1>4, <2>1, <2>2, <2>3, Quiet DEF Leaves
<1>5. CASE /\ i >= alt_max_fd
           /\ alt_fd_list' = [alt_fd_list EXCEPT ![f].excl = TRUE]
           /\ sem' = NoTask
           /\ Return(t)
  <2> DEFINE d == [alt_fd_list[f] EXCEPT !.excl = TRUE]
  <2>1. TRUE \in BOOLEAN
    OBVIOUS
  <2>2. /\ d \in Descriptors /\ d.dev = alt_fd_list[f].dev
        /\ d.isdev = alt_fd_list[f].isdev /\ Want(d) = Want(alt_fd_list[f])
    BY <1>1, <2>1, InRange, Locking
  <2>3. alt_fd_list' = [alt_fd_list EXCEPT ![f] = d]
    BY <1>5
  <2> HIDE DEF d
  <2>4. alt_fd_list' \in [FDs -> Descriptors] /\ Changed(f, d)
    BY <1>1, <2>2, <2>3, Writing DEF IInv
  <2>5. Placed' /\ at'[t].pc = "idle" /\ Others(t)
    BY <1>1, <1>5, Returning DEF Others
  <2>6. \A u \in Tasks \ {t} : f \notin held[u] /\ (Busy(u) => at[u].fd # f)
    BY <1>1, Apart
  <2>7. \A g \in FDs : alt_fd_list'[g].dev = alt_fd_list[g].dev
    BY <2>2, <2>4 DEF Changed
  <2>8. TypeOK'
    BY <1>1, <1>5, <2>4, <2>5 DEF IInv, TypeOK
  <2>9. Serial'
    BY <1>1, <1>5, <2>5, FilesAssumption DEF IInv, Serial, Others
  <2>10. Owned'
    <3>1. ~Busy(t)'
      BY <2>5 DEF Busy
    <3> QED
      BY <1>1, <2>5, <2>7, <3>1, StillOwned
  <2>11. Marked'
    BY <1>1, <2>2, <2>4 DEF IInv, Marked, Changed
  <2>12. Agreed'
    BY <1>1, <2>2, <2>4, <2>6, InRange DEF IInv, Agreed, Changed
  <2>13. Pending'
    <3>1. Ready(t)'
      BY <2>5 DEF Ready
    <3> QED
      BY <1>1, <2>4, <2>5, <2>6, <3>1, StillPending DEF Changed
  <2>14. Excluded'
    <3>1. ASSUME NEW u \in Tasks PROVE Searched(u)'
      BY <1>1, <2>5 DEF IInv, Serial, Others, Searched
    <3>2. \A u \in Tasks, j \in FDs, g \in FDs :
            Leaves(u, j, g) => Leaves(u, j, g)'
      BY <1>1, <2>5 DEF Leaves, Others
    <3>3. f <= alt_max_fd /\ alt_fd_list[f].dev # None
      BY <1>1 DEF IInv, Marked
    <3>4. alt_max_fd \in FDs /\ alt_max_fd \notin Std
      BY <1>1, <1>2, <3>3, FilesAssumption DEF IInv, Marked, FDs
    <3>5. ASSUME NEW g \in FDs, g = f
          PROVE  \E last \in FDs : Alone(g, last)'
      <4>1. ASSUME NEW j \in FDs \ {g, alt_max_fd},
                   alt_fd_list[j].dev = alt_fd_list[g].dev
            PROVE  FALSE
        <5>1. j \in Std \/ j <= alt_max_fd
          BY <3>3, <3>5, <4>1 DEF IInv, Marked
        <5>2. j < alt_max_fd
          BY <3>4, <4>1, <5>1 DEF FDs, Std
        <5>3. j < i
          BY <1>1, <1>5, <3>4, <5>2 DEF FDs
        <5> QED
          BY <1>1, <3>5, <4>1, <5>3 DEF IInv, Excluded, Searched
      <4>2. PICK last \in FDs : last = alt_max_fd
        BY <3>4
      <4> QED
        BY <2>7, <4>1, <4>2 DEF Alone
    <3>6. ASSUME NEW g \in FDs, alt_fd_list'[g].excl, g # f
          PROVE  \E last \in FDs : Alone(g, last)'
      <4>1. PICK last \in FDs : Alone(g, last)
        BY <2>4, <3>6 DEF IInv, Excluded, Changed
      <4> QED
        BY <2>7, <3>2, <4>1 DEF Alone
    <3> QED
      BY <3>1, <3>4, <3>5, <3>6, <1>1 DEF Excluded
  <2> QED
    BY <2>8, <2>9, <2>10, <2>11, <2>12, <2>13, <2>14 DEF IInv
<1> QED
  BY <1>3, <1>4, <1>5 DEF alt_fd_lock

LEMMA UnlockStep ==
  ASSUME IInv, NEW t \in Tasks, NEW f \in FDs, alt_fd_unlock(t, f)
  PROVE  IInv'
<1> DEFINE d == [alt_fd_list[f] EXCEPT !.excl = FALSE]
<1>1. /\ at[t].pc = "idle" /\ f \in held[t]
      /\ UNCHANGED <<alt_max_fd, sem, at, held, asked>>
      /\ alt_fd_list' = [alt_fd_list EXCEPT ![f] = d]
  BY DEF alt_fd_unlock
<1>2. FALSE \in BOOLEAN
  OBVIOUS
<1>3. /\ d \in Descriptors /\ d.dev = alt_fd_list[f].dev /\ d.excl = FALSE
      /\ d.isdev = alt_fd_list[f].isdev /\ Want(d) = Want(alt_fd_list[f])
  BY <1>2, InRange, Locking
<1> HIDE DEF d
<1>4. alt_fd_list' \in [FDs -> Descriptors] /\ Changed(f, d)
  BY <1>1, <1>3, Writing DEF IInv
<1>5. Placed' /\ Others(t)
  BY <1>1, InRange DEF Others, Placed
<1>6. \A u \in Tasks \ {t} : f \notin held[u] /\ (Busy(u) => at[u].fd # f)
  BY <1>1, Apart
<1>7. \A g \in FDs : /\ alt_fd_list'[g].dev = alt_fd_list[g].dev
                     /\ alt_fd_list'[g].excl => alt_fd_list[g].excl
  BY <1>3, <1>4 DEF Changed
<1>8. TypeOK'
  BY <1>1, <1>4, <1>5 DEF IInv, TypeOK
<1>9. Serial'
  BY <1>1 DEF IInv, Serial
<1>10. Owned'
  BY <1>1, <1>5, <1>7, StillOwned DEF Busy
<1>11. Marked'
  BY <1>1, <1>3, <1>4 DEF IInv, Marked, Changed
<1>12. Agreed'
  BY <1>1, <1>3, <1>4, <1>6, InRange DEF IInv, Agreed, Changed
<1>13. Pending'
  <2>1. Ready(t)'
    BY <1>1 DEF Ready
  <2> QED
    BY <1>1, <1>4, <1>5, <1>6, <2>1, StillPending DEF Changed
<1>14. Excluded'
  BY <1>1, <1>5, <1>7, InRange, StillExcluded DEF Searched, Leaves
<1> QED
  BY <1>8, <1>9, <1>10, <1>11, <1>12, <1>13, <1>14 DEF IInv

LEMMA FcntlStep ==
  ASSUME IInv, NEW t \in Tasks, NEW f \in FDs, NEW nonblock \in BOOLEAN,
         Fcntl(t, f, nonblock)
  PROVE  IInv'
<1> DEFINE d == [alt_fd_list[f] EXCEPT !.nonblock = nonblock]
           r == [asked[f] EXCEPT !.nonblock = nonblock]
<1>1. /\ at[t].pc = "idle" /\ f \in held[t]
      /\ UNCHANGED <<alt_max_fd, sem, at, held>>
      /\ alt_fd_list' = [alt_fd_list EXCEPT ![f] = d]
      /\ asked' = [asked EXCEPT ![f] = r]
  BY DEF Fcntl
<1>2. Want(alt_fd_list[f]) = asked[f] /\ asked[f] \in Requests
  BY <1>1 DEF IInv, Agreed, TypeOK
<1>3. /\ d \in Descriptors /\ d.dev = alt_fd_list[f].dev
      /\ d.excl = alt_fd_list[f].excl /\ d.isdev = alt_fd_list[f].isdev
      /\ Want(d) = r /\ r \in Requests
  <2>1. alt_fd_list[f] \in Descriptors
    BY InRange
  <2>2. /\ d \in Descriptors /\ d.dev = alt_fd_list[f].dev
        /\ d.excl = alt_fd_list[f].excl /\ d.isdev = alt_fd_list[f].isdev
        /\ Want(d) = [Want(alt_fd_list[f]) EXCEPT !.nonblock = nonblock]
        /\ Want(d) \in Requests
    BY <2>1, Blocking
  <2> QED
    BY <1>2, <2>2
<1> HIDE DEF d, r
<1>4. alt_fd_list' \in [FDs -> Descriptors] /\ Changed(f, d)
  BY <1>1, <1>3, Writing DEF IInv
<1>5. /\ asked' \in [FDs -> Requests] /\ asked'[f] = r
      /\ \A g \in FDs \ {f} : asked'[g] = asked[g]
  BY <1>1, <1>3 DEF IInv, TypeOK
<1>6. Placed' /\ Others(t)
  BY <1>1, InRange DEF Others, Placed
<1>7. \A u \in Tasks \ {t} : f \notin held[u] /\ (Busy(u) => at[u].fd # f)
  BY <1>1, Apart
<1>8. \A g \in FDs : /\ alt_fd_list'[g].dev = alt_fd_list[g].dev
                     /\ alt_fd_list'[g].excl => alt_fd_list[g].excl
  BY <1>3, <1>4 DEF Changed
<1>9. TypeOK'
  BY <1>1, <1>4, <1>5, <1>6 DEF IInv, TypeOK
<1>10. Serial'
  BY <1>1 DEF IInv, Serial
<1>11. Owned'
  BY <1>1, <1>6, <1>8, StillOwned DEF Busy
<1>12. Marked'
  BY <1>1, <1>3, <1>4 DEF IInv, Marked, Changed
<1>13. Agreed'
  BY <1>1, <1>3, <1>4, <1>5, <1>7, InRange DEF IInv, Agreed, Changed
<1>14. Pending'
  <2>1. Ready(t)'
    BY <1>1 DEF Ready
  <2> QED
    BY <1>1, <1>4, <1>6, <1>7, <2>1, StillPending DEF Changed
<1>15. Excluded'
  BY <1>1, <1>6, <1>8, InRange, StillExcluded DEF Searched, Leaves
<1> QED
  BY <1>9, <1>10, <1>11, <1>12, <1>13, <1>14, <1>15 DEF IInv

-----------------------------------------------------------------------------
\* Startup has opened one of the streams.
Some == \E k \in 1..3 : Found(Streams[k]) # None

\* The list as alt_io_redirect leaves it after any of the streams.
Streamed(list) ==
  /\ list \in [FDs -> Descriptors]
  /\ \A f \in FDs :
       /\ list[f].dev # None <=> f \in Std
       /\ ~list[f].excl
       /\ list[f].isdev => list[f].dev \notin Fs \cup {None} /\ Some

\* One stream of alt_io_redirect.
LEMMA Redirected ==
  ASSUME NEW list, Streamed(list), NEW fd \in Std, NEW k \in 1..3,
         NEW acc \in Access
  PROVE  Streamed(alt_open_fd(list, fd, Streams[k], acc))
<1> DEFINE name == Streams[k]
           d == [Free EXCEPT !.dev = Found(name), !.acc = acc,
                             !.isdev = ~isafs(name)]
<1>1. CASE Found(name) = None
  BY <1>1 DEF alt_open_fd
<1>2. CASE Found(name) # None
  <2>1. fd \in FDs
    BY FilesAssumption DEF Std, FDs
  <2>2. isafs(name) \in BOOLEAN
    BY DEF isafs
  <2>3. /\ d \in Descriptors /\ d.dev = Found(name) /\ d.excl = FALSE
        /\ (d.isdev <=> ~isafs(name))
    BY <2>2, FoundThere DEF Free, Descriptors
  <2>4. alt_open_fd(list, fd, name, acc) = [list EXCEPT ![fd] = d]
    BY <1>2 DEF alt_open_fd
  <2>5. d.isdev => d.dev \notin Fs \cup {None} /\ Some
    BY <1>2, <2>3, FoundThere DEF Some
  <2> HIDE DEF d
  <2> QED
    BY <1>2, <2>1, <2>3, <2>4, <2>5 DEF Streamed
<1> QED
  BY <1>1, <1>2

\* The startup code establishes IInv.
LEMMA InitStep == Init => IInv
<1> SUFFICES ASSUME Init PROVE IInv
  OBVIOUS
<1>1. Streamed(alt_fd_list)
  <2>1. Streamed(NullStreams)
    <3>1. Null \in AnyDev /\ Null # None
      BY Lists, FilesAssumption DEF AnyDev
    <3>2. /\ [Free EXCEPT !.dev = Null] \in Descriptors
          /\ [Free EXCEPT !.dev = Null].dev = Null
          /\ [Free EXCEPT !.dev = Null].excl = FALSE
          /\ [Free EXCEPT !.dev = Null].isdev = FALSE
      BY <3>1 DEF Free, Descriptors, Access
    <3>3. /\ Free \in Descriptors /\ Free.dev = None
          /\ Free.excl = FALSE /\ Free.isdev = FALSE
      BY DEF Free, Descriptors, Access, AnyDev
    <3>4. NullStreams \in [FDs -> Descriptors]
      BY <3>2, <3>3 DEF NullStreams
    <3>5. ASSUME NEW f \in FDs
          PROVE  /\ NullStreams[f].dev # None <=> f \in Std
                 /\ ~NullStreams[f].excl /\ ~NullStreams[f].isdev
      <4>1. CASE f \in Std
        BY <3>1, <3>2, <4>1 DEF NullStreams
      <4>2. CASE f \notin Std
        BY <3>3, <4>2 DEF NullStreams
      <4> QED
        BY <4>1, <4>2
    <3> QED
      BY <3>4, <3>5 DEF Streamed
  <2>2. "O_RDONLY" \in Access /\ "O_WRONLY" \in Access
        /\ {0, 1, 2} \subseteq Std /\ {1, 2, 3} \subseteq 1..3
    BY DEF Access, Std
  <2>3. Streamed(alt_io_redirect(NullStreams))
    BY <2>1, <2>2, Redirected DEF alt_io_redirect
  <2> QED
    BY <2>3 DEF Init
<1>2. alt_max_fd = IF Some THEN 3 ELSE -1
  BY DEF Init, Some
<1>3. \A t \in Tasks : at[t] = Idle
  BY DEF Init
<1>4. \A t \in Tasks : at[t].pc = "idle" /\ ~Busy(t)
  BY <1>3 DEF Idle, Busy
<1>5. Idle \in Places
  BY DEF Idle, Places, AnyDev, Access, Kinds
<1>6. Std \subseteq FDs
  BY FilesAssumption DEF Std, FDs
<1>7. TypeOK
  <2>1. alt_max_fd \in -1..ALT_MAX_FD - 1
    BY <1>2, FilesAssumption
  <2>2. \A f \in FDs : Want(alt_fd_list[f]) \in Requests
    BY <1>1 DEF Streamed, Want, Descriptors, Requests
  <2>3. Placed
    BY <1>4, <1>5 DEF Init, Placed
  <2> QED
    BY <1>1, <1>6, <2>1, <2>2, <2>3 DEF Init, TypeOK, Streamed
<1>8. Serial
  BY <1>4, FilesAssumption DEF Init, Serial
<1>9. Owned
  <2>1. \A f \in FDs : alt_fd_list[f].dev # None <=> f \in Std
    BY <1>1 DEF Streamed
  <2>2. \A t \in Tasks : held[t] = IF t = Main THEN Std ELSE {}
    BY DEF Init
  <2> QED
    BY <1>4, <1>6, <2>1, <2>2, FilesAssumption DEF Owned
<1>10. Marked
  <2>1. \A f \in FDs :
          /\ alt_fd_list[f].dev # None <=> f \in Std
          /\ ~alt_fd_list[f].excl
          /\ alt_fd_list[f].isdev =>
               alt_fd_list[f].dev \notin Fs \cup {None} /\ Some
    BY <1>1 DEF Streamed
  <2>2. \A f \in Std : Some => f <= alt_max_fd
    BY <1>2 DEF Std
  <2> QED
    BY <1>2, <2>1, <2>2 DEF Marked, Std
<1>11. Agreed
  BY <1>1, <1>6 DEF Init, Agreed
<1>12. Pending
  BY <1>4 DEF Pending, Ready
<1>13. Excluded
  <2>1. \A f \in FDs : ~alt_fd_list[f].excl
    BY <1>1 DEF Streamed
  <2> QED
    BY <1>4, <2>1 DEF Excluded, Searched
<1> QED
  BY <1>7, <1>8, <1>9, <1>10, <1>11, <1>12, <1>13 DEF IInv

LEMMA NextStep == IInv /\ [Next]_vars => IInv'
<1> SUFFICES ASSUME IInv, [Next]_vars PROVE IInv'
  OBVIOUS
<1>1. CASE UNCHANGED vars
  BY <1>1 DEF vars, IInv, TypeOK, Placed, Serial, Owned, Busy, Marked, Agreed,
     Pending, Ready, Excluded, Searched, Alone, Leaves
<1>2. ASSUME NEW t \in Tasks, Step(t) PROVE IInv'
  <2>1. "O_RDONLY" \in Access /\ {"return", "close"} = {"close", "return"}
    BY DEF Access
  <2> QED
    BY <1>2, <2>1, OpenStep, PendStep, GetStep, FlagsStep, LockedStep,
       DevOpenStep, ReleaseStep, CloseStep, ExclusiveStep, LockStep, UnlockStep,
       FcntlStep
    DEF Step
<1> QED
  BY <1>1, <1>2 DEF Next

\* IInv is an invariant of every execution.
LEMMA Invariant == Spec => []IInv
BY InitStep, NextStep, PTL DEF Spec

\* A descriptor that open() returned belongs to one task, and stays what it
\* was opened for until it is closed.
THEOREM HeldAsOpenedAlways == Spec => []HeldAsOpened
<1>1. IInv => HeldAsOpened
  <2> SUFFICES ASSUME IInv, NEW t \in Tasks, NEW f \in held[t]
               PROVE  /\ \A u \in Tasks \ {t} : f \notin held[u]
                      /\ Want(alt_fd_list[f]) = asked[f]
                      /\ Read(f) = "driver" <=>
                           asked[f].acc # "O_WRONLY" /\ asked[f].dev # Null
                      /\ Write(f) = "driver" <=> asked[f].acc # "O_RDONLY"
                      /\ f \notin Std => (Isatty(f) <=> alt_fd_list[f].isdev)
                      /\ Isatty(f) <=> Lseek(f) = "ENOTSUP"
    BY DEF HeldAsOpened
  <2>1. \A u \in Tasks \ {t} : f \notin held[u]
    BY DEF IInv, Owned
  <2>2. Want(alt_fd_list[f]) = asked[f]
    BY DEF IInv, Agreed
  <2>3. alt_fd_list[f].dev = asked[f].dev /\ alt_fd_list[f].acc = asked[f].acc
    BY <2>2 DEF Want
  <2>4. Isatty(f) <=> alt_fd_list[f].dev \notin Fs
    BY DEF Isatty, Fstat, Fs
  <2>5. f \notin Std => (Isatty(f) <=> alt_fd_list[f].isdev)
    BY <2>4 DEF IInv, Agreed
  <2>6. Isatty(f) <=> Lseek(f) = "ENOTSUP"
    BY <2>4 DEF Lseek, Fs
  <2> QED
    BY <2>1, <2>2, <2>3, <2>5, <2>6 DEF Read, Write
<1> QED
  BY <1>1, Invariant, PTL

\* Between calls no descriptor is in use that nobody holds, and the
\* semaphore is free.
THEOREM NothingLeaksEver == Spec => []NothingLeaks
<1>1. IInv => NothingLeaks
  <2> SUFFICES ASSUME IInv, \A t \in Tasks : at[t].pc = "idle"
               PROVE  /\ sem = NoTask
                      /\ \A f \in FDs : alt_fd_list[f].dev # None =>
                           f \in Std \/ \E t \in Tasks : f \in held[t]
    BY DEF NothingLeaks
  <2>1. sem = NoTask
    BY DEF IInv, Serial, TypeOK
  <2>2. \A t \in Tasks : ~Busy(t)
    BY DEF Busy
  <2> QED
    BY <2>1, <2>2 DEF IInv, Owned
<1> QED
  BY <1>1, Invariant, PTL

\* A locked device has at most one descriptor besides the locked one.
THEOREM LockLeavesOneAlways == Spec => []LockLeavesOne
<1>1. IInv => LockLeavesOne
  <2> SUFFICES ASSUME IInv, NEW i \in FDs, alt_fd_list[i].excl
               PROVE  Cardinality({j \in UNION {held[t] : t \in Tasks} :
                        j # i /\ alt_fd_list[j].dev = alt_fd_list[i].dev}) <= 1
    BY DEF LockLeavesOne
  <2> DEFINE S == {j \in UNION {held[t] : t \in Tasks} :
                     j # i /\ alt_fd_list[j].dev = alt_fd_list[i].dev}
  <2>1. PICK last \in FDs : Alone(i, last)
    BY DEF IInv, Excluded
  <2>2. S \subseteq {last}
    <3> SUFFICES ASSUME NEW j \in S, j # last PROVE FALSE
      OBVIOUS
    <3>1. PICK t \in Tasks : j \in held[t]
      OBVIOUS
    <3>2. j \in FDs \ {i, last}
      BY <3>1, InRange
    <3>3. PICK u \in Tasks : Leaves(u, j, i)
      BY <2>1, <3>2 DEF Alone
    <3>4. Busy(u) /\ at[u].fd = j
      BY <3>3 DEF Leaves, Busy
    <3> QED
      BY <3>1, <3>4 DEF IInv, Owned
  <2>3. IsFiniteSet({last}) /\ Cardinality({last}) = 1
    BY FS_Singleton
  <2>4. IsFiniteSet(S) /\ Cardinality(S) <= 1
    BY <2>2, <2>3, FS_Subset
  <2> QED
    BY <2>4
<1> QED
  BY <1>1, Invariant, PTL
=============================================================================
