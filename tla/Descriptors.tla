----------------------------- MODULE Descriptors -----------------------------
(***************************************************************************)
(* The guest's descriptor tables over the host's: open, dup, close, fork,   *)
(* execve and exit, pipes, eventfds, epoll sets, and descriptors passed over  *)
(* a pair of sockets (linux_syscalls.cpp).                                   *)
(*                                                                         *)
(* A guest descriptor is an entry of its process's table that names a host   *)
(* descriptor of its own, or none (the console, an epoll set).  An eventfd   *)
(* is a counter beside a pipe; the pipe holds one byte while the counter is  *)
(* not zero, so that poll sees it.  Every operation on a table is one        *)
(* critical section of that table's mutex.  read, write and epoll_ctl drop   *)
(* the mutex between looking the descriptor up and using what they found,    *)
(* and so do sendmsg and recvmsg.                                           *)
(*                                                                         *)
(* The console's three entries are one, descriptor 0.  Timers, netlink,      *)
(* connections and open directory streams are left out, and so are how many  *)
(* bytes a read moves and the bytes of a socket.                            *)
(***************************************************************************)
EXTENDS Integers, FiniteSets

CONSTANTS
    Procs,          \* the processes; the first is the one the session starts
    First,
    Threads,        \* the guest threads
    Proc,           \* the process of each thread
    MaxFd,          \* bound: guest descriptors are 0..MaxFd
    MaxHost,        \* the host's limit: host descriptors are 0..MaxHost
    MaxObjects,     \* bound: pipes, eventfds and epoll sets made
    MaxCalls,       \* bound: system calls made
    MaxValue        \* bound: an eventfd's counter

ASSUME DescriptorsAssumption ==
    /\ First \in Procs
    /\ Proc \in [Threads -> Procs]
    /\ MaxFd \in Nat /\ MaxHost \in Nat /\ MaxObjects \in Nat /\ MaxValue \in Nat
    /\ MaxCalls \in Nat

Fds == 0..MaxFd
HostFds == 0..MaxHost
Objects == 1..MaxObjects
NoHost == -1
NoObject == 0

\* An OpenFile.
NoFile == [open |-> FALSE, host |-> NoHost, console |-> FALSE,
           event |-> NoObject, epoll |-> NoObject, scratch |-> NoObject,
           cloexec |-> FALSE]
File(h, cx) == [NoFile EXCEPT !.open = TRUE, !.host = h, !.cloexec = cx]

\* What a host descriptor is: an end of a pipe or of a pair of sockets, or a
\* file.
NoEnd == <<"none", NoObject>>
Sides == {"x", "y"}
Ends == {NoEnd} \cup (({"r", "w", "f"} \cup Sides) \X Objects)

Idle == [op |-> "none", host |-> NoHost, set |-> NoObject, fd |-> 0,
         rights |-> NoHost]

VARIABLES
    alive,          \* the processes there are
    files,          \* each process's table
    ends,           \* what each host descriptor is
    bytes,          \* is there a byte in the pipe?
    value,          \* the eventfd's counter,
    signalled,      \* ... whether its pipe holds its byte,
    signal_write_fd,\* ... and the pipe's other end
    interests,      \* the guest descriptors registered with an epoll set
    passed,         \* what is on its way to each side of a pair of sockets
    dirs,           \* the directories made for /proc/self/fd that exist,
    left,           \* ... and those that nothing will remove
    made,           \* objects made so far
    calls,          \* system calls made so far
    call,           \* what a thread has looked up and not used yet
    robbed          \* the eventfds whose byte a plain read has taken

objects == <<bytes, value, signalled, signal_write_fd, made>>
scratch == <<dirs, left>>
vars == <<alive, files, ends, objects, interests, passed, scratch, call,
          robbed, calls>>

Init ==
    /\ alive = {First}
    /\ files = [p \in Procs |-> [fd \in Fds |->
                    IF p = First /\ fd = 0
                    THEN [NoFile EXCEPT !.open = TRUE, !.console = TRUE]
                    ELSE NoFile]]
    /\ ends = [h \in HostFds |-> NoEnd]
    /\ bytes = [k \in Objects |-> FALSE]
    /\ value = [k \in Objects |-> 0]
    /\ signalled = [k \in Objects |-> FALSE]
    /\ signal_write_fd = [k \in Objects |-> NoHost]
    /\ interests = [k \in Objects |-> {}]
    /\ passed = [k \in Objects |-> [side \in Sides |-> NoEnd]]
    /\ dirs = {}
    /\ left = {}
    /\ made = 0
    /\ call = [t \in Threads |-> Idle]
    /\ robbed = {}
    /\ calls = 0

-----------------------------------------------------------------------------
OpenIn(p) == {fd \in Fds : files[p][fd].open}
FreeIn(p) == Fds \ OpenIn(p)
FreeHost == {h \in HostFds : ends[h] = NoEnd}

\* The n-th lowest member of a set of numbers, counting from 0.
Nth(S, n) == CHOOSE x \in S : Cardinality({y \in S : y < x}) = n

\* AllocateFd, and the host's own rule: the lowest number that is free.
AllocateFd(p) == Nth(FreeIn(p), 0)

\* The mutex of the thread's table can be taken.
TableFree(t) == ~\E u \in Threads : Proc[u] = Proc[t] /\ call[u].op = "holding"

\* A thread that is not in the middle of a call, of a process there is.
Ready(t) ==
    /\ call[t] = Idle
    /\ Proc[t] \in alive
    /\ TableFree(t)

-----------------------------------------------------------------------------
(* Making descriptors.                                                      *)

\* pipe and pipe2.
Pipe(t, cx) ==
    LET p == Proc[t]  k == made + 1  r == Nth(FreeHost, 0)  w == Nth(FreeHost, 1)
    IN  /\ Ready(t)
        /\ made < MaxObjects
        /\ Cardinality(FreeHost) > 1
        /\ Cardinality(FreeIn(p)) > 1
        /\ ends' = [ends EXCEPT ![r] = <<"r", k>>, ![w] = <<"w", k>>]
        /\ files' = [files EXCEPT ![p][Nth(FreeIn(p), 0)] = File(r, cx),
                                  ![p][Nth(FreeIn(p), 1)] = File(w, cx)]
        /\ made' = k
        /\ UNCHANGED <<alive, bytes, value, signalled, signal_write_fd,
                       interests, call, robbed, passed, scratch>>

\* DoEventfd.
Eventfd(t, initial, cx) ==
    LET p == Proc[t]  k == made + 1  r == Nth(FreeHost, 0)  w == Nth(FreeHost, 1)
    IN  /\ Ready(t)
        /\ made < MaxObjects
        /\ Cardinality(FreeHost) > 1
        /\ FreeIn(p) # {}
        /\ ends' = [ends EXCEPT ![r] = <<"r", k>>, ![w] = <<"w", k>>]
        /\ files' = [files EXCEPT ![p][AllocateFd(p)] =
                        [File(r, cx) EXCEPT !.event = k]]
        /\ value' = [value EXCEPT ![k] = initial]
        /\ signalled' = [signalled EXCEPT ![k] = initial # 0]
        /\ bytes' = [bytes EXCEPT ![k] = initial # 0]
        /\ signal_write_fd' = [signal_write_fd EXCEPT ![k] = w]
        /\ made' = k
        /\ UNCHANGED <<alive, interests, call, robbed, passed, scratch>>

\* DoEpollCreate.
EpollCreate(t, cx) ==
    LET p == Proc[t]
    IN  /\ Ready(t)
        /\ made < MaxObjects
        /\ FreeIn(p) # {}
        /\ files' = [files EXCEPT ![p][AllocateFd(p)] =
                        [File(NoHost, cx) EXCEPT !.epoll = made + 1]]
        /\ made' = made + 1
        /\ UNCHANGED <<alive, ends, bytes, value, signalled, signal_write_fd,
                       interests, call, robbed, passed, scratch>>

\* RegisterFile for one host descriptor of a new file or socket.
Register(t, cx) ==
    LET p == Proc[t]  k == made + 1  h == Nth(FreeHost, 0)
    IN  /\ Ready(t)
        /\ made < MaxObjects
        /\ FreeHost # {}
        /\ FreeIn(p) # {}
        /\ ends' = [ends EXCEPT ![h] = <<"f", k>>]
        /\ files' = [files EXCEPT ![p][AllocateFd(p)] = File(h, cx)]
        /\ made' = k
        /\ UNCHANGED <<alive, bytes, value, signalled, signal_write_fd,
                       interests, call, robbed, passed, scratch>>

\* DoOpenAt for a file of the guest root or one of /proc's, which is a
\* temporary file with its contents.
OpenAt(t, cx) == Register(t, cx)

\* A socket that is not netlink's.
Socket(t, cx) == Register(t, cx)

\* memfd_create, whose MFD_CLOEXEC is not looked at.
MemfdCreate(t) == Register(t, FALSE)

\* DoOpenAt for the display: an entry with no host descriptor, whatever
\* O_CLOEXEC says.
OpenDisplay(t) ==
    LET p == Proc[t]
    IN  /\ Ready(t)
        /\ FreeIn(p) # {}
        /\ files' = [files EXCEPT ![p][AllocateFd(p)] = File(NoHost, FALSE)]
        /\ UNCHANGED <<alive, ends, objects, interests, call, robbed,
                       passed, scratch>>

\* DoOpenAt for /proc/self/fd: a directory of links is made, and opened.  If the
\* host has no descriptor left, rmdir is tried on a directory that is not empty.
OpenFds(t) ==
    LET p == Proc[t]  k == made + 1  h == Nth(FreeHost, 0)
    IN  /\ Ready(t)
        /\ made < MaxObjects
        /\ made' = k
        /\ \/ /\ FreeHost # {}
              /\ FreeIn(p) # {}
              /\ ends' = [ends EXCEPT ![h] = <<"f", k>>]
              /\ files' = [files EXCEPT ![p][AllocateFd(p)] =
                              [File(h, FALSE) EXCEPT !.scratch = k]]
              /\ dirs' = dirs \cup {k}
              /\ UNCHANGED left
           \/ /\ FreeHost = {}
              /\ OpenIn(p) # {}
              /\ dirs' = dirs \cup {k}
              /\ left' = left \cup {k}
              /\ UNCHANGED <<files, ends>>
        /\ UNCHANGED <<alive, bytes, value, signalled, signal_write_fd,
                       interests, call, robbed, passed>>

\* socketpair.
Socketpair(t, cx) ==
    LET p == Proc[t]  k == made + 1  x == Nth(FreeHost, 0)  y == Nth(FreeHost, 1)
    IN  /\ Ready(t)
        /\ made < MaxObjects
        /\ Cardinality(FreeHost) > 1
        /\ Cardinality(FreeIn(p)) > 1
        /\ ends' = [ends EXCEPT ![x] = <<"x", k>>, ![y] = <<"y", k>>]
        /\ files' = [files EXCEPT ![p][Nth(FreeIn(p), 0)] = File(x, cx),
                                  ![p][Nth(FreeIn(p), 1)] = File(y, cx)]
        /\ made' = k
        /\ UNCHANGED <<alive, bytes, value, signalled, signal_write_fd,
                       interests, call, robbed, passed, scratch>>

-----------------------------------------------------------------------------
(* Closing, duplicating, inheriting.                                        *)

\* The registrations CloseFd removes as it closes these descriptors in
\* ascending order: from the sets whose own descriptor is still in the table.
Unregistered(p, closing, k) ==
    {fd \in closing : \E ef \in OpenIn(p) :
        /\ files[p][ef].epoll = k
        /\ ef # fd
        /\ ef \notin closing \/ ef > fd}

\* Mutant: the entry goes and its host descriptor stays open.
NeverClosed(hosts) == ends

\* The host's close of each of them.
Closed(hosts) == [h \in HostFds |-> IF h \in hosts THEN NoEnd ELSE ends[h]]

\* CloseFd for each of them.
CloseFds(p, closing) ==
    LET hosts == {files[p][fd].host : fd \in closing}
        table == [fd \in Fds |-> IF fd \in closing THEN NoFile ELSE files[p][fd]]
    IN  /\ files' = [files EXCEPT ![p] = table]
        /\ ends' = Closed(hosts)
        /\ interests' = [k \in Objects |-> interests[k] \ Unregistered(p, closing, k)]
        /\ dirs' = dirs \ {files[p][fd].scratch : fd \in closing}

Close(t, fd) ==
    /\ Ready(t)
    /\ fd \in OpenIn(Proc[t])
    /\ CloseFds(Proc[t], {fd})
    /\ UNCHANGED <<alive, objects, call, robbed, passed, left>>

\* Mutant: the copy names the original's host descriptor.
DuplicateShares(file, h) == [NoFile EXCEPT !.open = TRUE, !.host = file.host,
                                           !.console = file.console]

\* DuplicateTo's copy: the entry's own kind is not carried over.
Duplicate(file, h) == [NoFile EXCEPT !.open = TRUE, !.host = h, !.console = file.console]

\* dup, F_DUPFD and F_DUPFD_CLOEXEC.
Dup(t, fd) ==
    LET p == Proc[t]  file == files[p][fd]  h == Nth(FreeHost, 0)
    IN  /\ Ready(t)
        /\ fd \in OpenIn(p)
        /\ FreeIn(p) # {}
        /\ \/ /\ file.host = NoHost
              /\ files' = [files EXCEPT ![p][AllocateFd(p)] = Duplicate(file, NoHost)]
              /\ UNCHANGED ends
           \/ /\ file.host # NoHost
              /\ FreeHost # {}
              /\ files' = [files EXCEPT ![p][AllocateFd(p)] = Duplicate(file, h)]
              /\ ends' = [ends EXCEPT ![h] = ends[file.host]]
        /\ UNCHANGED <<alive, objects, interests, call, robbed, passed, scratch>>

\* dup2 and dup3: the target is closed first, and stays closed if the host has
\* no descriptor left for the copy.
Dup2(t, from, to) ==
    LET p == Proc[t]
        file == files[p][from]
        freed == IF files[p][to].host = NoHost THEN FreeHost
                                               ELSE FreeHost \cup {files[p][to].host}
        h == Nth(freed, 0)
        copied == file.host = NoHost \/ freed # {}
        copy == CASE ~copied -> NoFile
                  [] file.host = NoHost -> Duplicate(file, NoHost)
                  [] OTHER -> Duplicate(file, h)
        table == [files[p] EXCEPT ![to] = copy]
    IN  /\ Ready(t)
        /\ from \in OpenIn(p)
        /\ from # to
        /\ files' = [files EXCEPT ![p] = table]
        /\ ends' = [g \in HostFds |->
                      IF copied /\ file.host # NoHost /\ g = h THEN ends[file.host]
                      ELSE IF g = files[p][to].host THEN NoEnd ELSE ends[g]]
        /\ interests' = [k \in Objects |->
                            interests[k] \ (IF to \in OpenIn(p)
                                            THEN Unregistered(p, {to}, k) ELSE {})]
        /\ dirs' = dirs \ {files[p][to].scratch}
        /\ UNCHANGED <<alive, objects, call, robbed, passed, left>>

\* F_SETFD.
SetCloexec(t, fd) ==
    /\ Ready(t)
    /\ fd \in OpenIn(Proc[t])
    /\ files' = [files EXCEPT ![Proc[t]][fd].cloexec = ~@]
    /\ UNCHANGED <<alive, ends, objects, interests, call, robbed, passed, scratch>>

\* CloneInto: every host descriptor is dup'd, in ascending order of the
\* guest's; an entry the host has none left for is not inherited.
Fork(t, child) ==
    LET p == Proc[t]
        hosted == {fd \in OpenIn(p) : files[p][fd].host # NoHost}
        Place(fd) == Cardinality({f \in hosted : f < fd})
        Gets(fd) == Place(fd) < Cardinality(FreeHost)
        HostOf(fd) == Nth(FreeHost, Place(fd))
    IN  /\ Ready(t)
        /\ child \notin alive
        /\ \A u \in Threads : Proc[u] = child => call[u] = Idle
        /\ OpenIn(child) = {}
        /\ alive' = alive \cup {child}
        /\ files' = [files EXCEPT ![child] =
              [fd \in Fds |-> CASE fd \in hosted /\ Gets(fd) ->
                                        [files[p][fd] EXCEPT !.host = HostOf(fd),
                                                             !.scratch = NoObject]
                                [] fd \in hosted /\ ~Gets(fd) -> NoFile
                                [] OTHER -> files[p][fd]]]
        /\ ends' = [h \in HostFds |->
              IF \E fd \in hosted : Gets(fd) /\ h = HostOf(fd)
              THEN ends[files[p][CHOOSE fd \in hosted : Gets(fd) /\ h = HostOf(fd)].host]
              ELSE ends[h]]
        /\ UNCHANGED <<objects, interests, call, robbed, passed, scratch>>

\* AdoptImage: the descriptors marked close-on-exec go.
Exec(t) ==
    /\ Ready(t)
    /\ \A u \in Threads : Proc[u] = Proc[t] => call[u] = Idle
    /\ CloseFds(Proc[t], {fd \in OpenIn(Proc[t]) : files[Proc[t]][fd].cloexec})
    /\ UNCHANGED <<alive, objects, call, robbed, passed, left>>

\* ReleaseDescriptors and CloseAll: the process's threads have been joined.
\* A directory made for /proc/self/fd is not removed.
Exit(t) ==
    LET p == Proc[t]
        hosts == {files[p][fd].host : fd \in Fds}
        table == [fd \in Fds |-> NoFile]
    IN  /\ Ready(t)
        /\ \A u \in Threads : Proc[u] = p => call[u] = Idle
        /\ alive' = alive \ {p}
        /\ files' = [files EXCEPT ![p] = table]
        /\ ends' = Closed(hosts)
        /\ left' = left \cup ({files[p][fd].scratch : fd \in Fds} \ {NoObject})
        /\ UNCHANGED <<objects, interests, call, robbed, passed, dirs>>

-----------------------------------------------------------------------------
(* Reading and writing.                                                     *)

Return(t) == call' = [call EXCEPT ![t] = Idle]

\* DoRead and DoWrite of what is not the console and not an eventfd: the host
\* descriptor is looked up under the mutex...
Find(t, op, fd) ==
    LET file == files[Proc[t]][fd]
    IN  /\ Ready(t)
        /\ file.open /\ file.event = NoObject /\ file.host # NoHost
        /\ call' = [call EXCEPT ![t] = [Idle EXCEPT !.op = op, !.host = file.host]]
        /\ UNCHANGED <<alive, files, ends, objects, interests, robbed, passed, scratch>>

\* What the host keeps open: what its descriptors name, and what is on its way
\* to a side of a pair that it keeps open.
KeptOpen ==
    LET named == {ends[h] : h \in HostFds} \ {NoEnd}
        Kept[n \in 0..2 * MaxObjects] ==
            IF n = 0 THEN named
            ELSE Kept[n - 1] \cup {passed[end[2]][end[1]] :
                                      end \in {e \in Kept[n - 1] : e[1] \in Sides}}
    IN  Kept[2 * MaxObjects]

HasEnd(which, k) == <<which, k>> \in KeptOpen

\* ... and read without it, whatever it has become: a byte, if there is one;
\* end of file, if there is no writer left; EBADF.
ReadByte(t, k) ==
    /\ call[t].op = "read"
    /\ ends[call[t].host] = <<"r", k>>
    /\ bytes[k]
    /\ bytes' = [bytes EXCEPT ![k] = FALSE]
    /\ robbed' = IF signal_write_fd[k] # NoHost THEN robbed \cup {k} ELSE robbed
    /\ Return(t)
    /\ UNCHANGED <<alive, files, ends, value, signalled, signal_write_fd, made,
                   interests, passed, scratch>>

ReadNothing(t) ==
    /\ call[t].op = "read"
    /\ \A k \in Objects : ends[call[t].host] = <<"r", k>> =>
            ~bytes[k] /\ ~HasEnd("w", k)
    /\ Return(t)
    /\ UNCHANGED <<alive, files, ends, objects, interests, robbed, passed, scratch>>

\* A write waits while the pipe is full; EPIPE or EBADF otherwise.
WriteByte(t, k) ==
    /\ call[t].op = "write"
    /\ ends[call[t].host] = <<"w", k>>
    /\ HasEnd("r", k) /\ ~bytes[k]
    /\ bytes' = [bytes EXCEPT ![k] = TRUE]
    /\ Return(t)
    /\ UNCHANGED <<alive, files, ends, value, signalled, signal_write_fd, made,
                   interests, robbed, passed, scratch>>

WriteNothing(t) ==
    /\ call[t].op = "write"
    /\ \A k \in Objects : ends[call[t].host] = <<"w", k>> => ~HasEnd("r", k)
    /\ Return(t)
    /\ UNCHANGED <<alive, files, ends, objects, interests, robbed, passed, scratch>>

\* The counter's mutex is free.
CounterFree(k) ==
    ~\E u \in Threads : /\ call[u].op = "holding"
                        /\ \E fd \in Fds : files[Proc[u]][fd].event = k

\* Mutant: the read forgets to note that it took the byte.
KeepSignal(k) == UNCHANGED signalled

\* What a read may take: nothing while the value is zero; one (EFD_SEMAPHORE)
\* or all of it.
Takes(k) == IF value[k] = 0 THEN {} ELSE {1, value[k]}

\* The pipe's byte is gone, and the counter knows.
ClearSignal(k) == signalled' = [signalled EXCEPT ![k] = FALSE]

\* DoEventfdRead, under the table's mutex and the counter's: some of the
\* value, and the byte when nothing is left.
EventRead(t, fd, take) ==
    LET k == files[Proc[t]][fd].event
    IN  /\ Ready(t)
        /\ k # NoObject
        /\ CounterFree(k)
        /\ take \in Takes(k)
        /\ value' = [value EXCEPT ![k] = @ - take]
        /\ \/ /\ take # value[k] \/ ~signalled[k]
              /\ UNCHANGED <<bytes, signalled, call>>
           \/ /\ take = value[k] /\ signalled[k] /\ bytes[k]
              /\ bytes' = [bytes EXCEPT ![k] = FALSE]
              /\ ClearSignal(k)
              /\ UNCHANGED call
           \/ /\ take = value[k] /\ signalled[k] /\ ~bytes[k]
              \* the byte is not there: a non-blocking pipe says so, a blocking
              \* one keeps the thread, and both mutexes with it
              /\ \/ /\ ClearSignal(k)
                    /\ UNCHANGED <<bytes, call>>
                 \/ /\ call' = [call EXCEPT ![t].op = "holding"]
                    /\ UNCHANGED <<bytes, signalled>>
        /\ UNCHANGED <<alive, files, ends, signal_write_fd, made, interests,
                       robbed, passed, scratch>>

\* DoEventfdWrite: the counter has a width, and the largest value is refused.
EventWrite(t, fd, n) ==
    LET k == files[Proc[t]][fd].event
        sum == (value[k] + n) % (MaxValue + 1)
    IN  /\ Ready(t)
        /\ k # NoObject
        /\ CounterFree(k)
        /\ n # MaxValue
        /\ value' = [value EXCEPT ![k] = sum]
        /\ signalled' = [signalled EXCEPT ![k] = @ \/ sum # 0]
        /\ bytes' = [bytes EXCEPT ![k] = @ \/ (sum # 0 /\ ~signalled[k])]
        /\ UNCHANGED <<alive, files, ends, signal_write_fd, made, interests,
                       call, robbed, passed, scratch>>

-----------------------------------------------------------------------------
(* sendmsg and recvmsg with SCM_RIGHTS.                                     *)

Other(side) == IF side = "x" THEN "y" ELSE "x"

\* The host descriptor of the guest's, looked up under the mutex; -1 (NoHost)
\* for the console, an epoll set and what is not open.
HostFdFor(t, fd) == files[Proc[t]][fd].host

\* DoMessage finds the socket...
MessageFind(t, op, fd) ==
    /\ Ready(t)
    /\ HostFdFor(t, fd) # NoHost
    /\ ends[HostFdFor(t, fd)][1] \in Sides
    /\ call' = [call EXCEPT ![t] = [Idle EXCEPT !.op = op, !.host = HostFdFor(t, fd)]]
    /\ UNCHANGED <<alive, files, ends, objects, interests, robbed, passed,
                   scratch>>

\* ... to send on it, translates the descriptor to pass, and leaves out one
\* that has no host descriptor...
SendTranslate(t, fd) ==
    /\ call[t].op = "send"
    /\ TableFree(t)
    /\ call' = [call EXCEPT ![t].op = "sending", ![t].rights = HostFdFor(t, fd)]
    /\ UNCHANGED <<alive, files, ends, objects, interests, robbed, passed,
                   scratch>>

\* ... and sends what the two host descriptors have become by now.
SendRights(t, side, k) ==
    LET what == ends[call[t].rights]
    IN  /\ call[t].op = "sending"
        /\ call[t].rights # NoHost
        /\ ends[call[t].host] = <<side, k>>
        /\ what # NoEnd
        /\ HasEnd(Other(side), k)
        /\ passed[k][Other(side)] = NoEnd
        /\ passed' = [passed EXCEPT ![k][Other(side)] = what]
        /\ Return(t)
        /\ UNCHANGED <<alive, files, ends, objects, interests, robbed,
                       scratch>>

\* EBADF, EPIPE, ENOTSOCK, or a message that passes nothing.
SendNothing(t) ==
    /\ call[t].op = "sending"
    /\ \/ call[t].rights \notin HostFds \ FreeHost
       \/ ~\E side \in Sides, k \in Objects :
            ends[call[t].host] = <<side, k>> /\ HasEnd(Other(side), k)
    /\ Return(t)
    /\ UNCHANGED <<alive, files, ends, objects, interests, robbed, passed,
                   scratch>>

\* recvmsg takes what has been passed, without the mutex...
RecvRights(t, side, k) ==
    LET h == Nth(FreeHost, 0)
    IN  /\ call[t].op = "recv"
        /\ ends[call[t].host] = <<side, k>>
        /\ passed[k][side] # NoEnd
        /\ FreeHost # {}
        /\ passed' = [passed EXCEPT ![k][side] = NoEnd]
        /\ ends' = [ends EXCEPT ![h] = passed[k][side]]
        /\ call' = [call EXCEPT ![t].op = "received", ![t].rights = h]
        /\ UNCHANGED <<alive, files, objects, interests, robbed, scratch>>

\* ... and DoMessage registers it as a descriptor of no particular kind.
RecvRegister(t) ==
    LET p == Proc[t]
    IN  /\ call[t].op = "received"
        /\ TableFree(t)
        /\ FreeIn(p) # {}
        /\ files' = [files EXCEPT ![p][AllocateFd(p)] = File(call[t].rights, FALSE)]
        /\ Return(t)
        /\ UNCHANGED <<alive, ends, objects, interests, robbed, passed,
                       scratch>>

\* What was passed is lost if there is no room for it, in the guest's control
\* buffer or in the host's table; otherwise end of file, EBADF or ENOTSOCK.
RecvNothing(t) ==
    /\ call[t].op = "recv"
    /\ \/ \E side \in Sides, k \in Objects :
            /\ ends[call[t].host] = <<side, k>>
            /\ passed[k][side] # NoEnd
            /\ passed' = [passed EXCEPT ![k][side] = NoEnd]
       \/ /\ ~\E side \in Sides, k \in Objects :
                /\ ends[call[t].host] = <<side, k>>
                /\ HasEnd(Other(side), k) \/ passed[k][side] # NoEnd
          /\ UNCHANGED passed
    /\ Return(t)
    /\ UNCHANGED <<alive, files, ends, objects, interests, robbed, scratch>>

-----------------------------------------------------------------------------
(* epoll_ctl.                                                               *)

\* DoEpollCtl finds the set and that the descriptor is open, and drops the
\* table's mutex...
CtlFind(t, ef, fd) ==
    LET p == Proc[t]
    IN  /\ Ready(t)
        /\ files[p][ef].epoll # NoObject
        /\ fd \in OpenIn(p)
        /\ call' = [call EXCEPT ![t] = [Idle EXCEPT !.op = "ctl", !.fd = fd,
                                                   !.set = files[p][ef].epoll]]
        /\ UNCHANGED <<alive, files, ends, objects, interests, robbed, passed, scratch>>

\* ... and takes the set's.  A number already there is EEXIST.
CtlAdd(t) ==
    LET k == call[t].set  fd == call[t].fd
    IN  /\ call[t].op = "ctl"
        /\ interests' = [interests EXCEPT ![k] = @ \cup {fd}]
        /\ Return(t)
        /\ UNCHANGED <<alive, files, ends, objects, robbed, passed, scratch>>

CtlDel(t) ==
    LET k == call[t].set  fd == call[t].fd
    IN  /\ call[t].op = "ctl"
        /\ interests' = [interests EXCEPT ![k] = @ \ {fd}]
        /\ Return(t)
        /\ UNCHANGED <<alive, files, ends, objects, robbed, passed, scratch>>

-----------------------------------------------------------------------------
Make(t) ==
    \/ \E cx \in BOOLEAN :
        \/ Pipe(t, cx) \/ Socketpair(t, cx)
        \/ \E initial \in 0..MaxValue : Eventfd(t, initial, cx)
        \/ EpollCreate(t, cx)
        \/ OpenAt(t, cx) \/ Socket(t, cx)
    \/ MemfdCreate(t) \/ OpenDisplay(t) \/ OpenFds(t)

Change(t) ==
    \/ \E fd \in Fds : Close(t, fd) \/ Dup(t, fd) \/ SetCloexec(t, fd)
    \/ \E from, to \in Fds : Dup2(t, from, to)
    \/ \E child \in Procs : Fork(t, child)
    \/ Exec(t) \/ Exit(t)

Use(t) ==
    \/ \E fd \in Fds : Find(t, "read", fd) \/ Find(t, "write", fd)
    \/ \E fd \in Fds, n \in 1..MaxValue : EventRead(t, fd, n) \/ EventWrite(t, fd, n)
    \/ \E ef, fd \in Fds : CtlFind(t, ef, fd)
    \/ \E fd \in Fds : MessageFind(t, "send", fd) \/ MessageFind(t, "recv", fd)

Finish(t) ==
    \/ \E k \in Objects : ReadByte(t, k) \/ WriteByte(t, k)
    \/ ReadNothing(t) \/ WriteNothing(t)
    \/ CtlAdd(t) \/ CtlDel(t)
    \/ \E fd \in Fds : SendTranslate(t, fd)
    \/ \E side \in Sides, k \in Objects : SendRights(t, side, k) \/ RecvRights(t, side, k)
    \/ SendNothing(t) \/ RecvRegister(t) \/ RecvNothing(t)

Next ==
    \/ /\ calls < MaxCalls
       /\ calls' = calls + 1
       /\ \E t \in {u \in Threads : Ready(u)} : Make(t) \/ Change(t) \/ Use(t)
    \/ /\ UNCHANGED calls
       /\ \E t \in {u \in Threads : call[u] # Idle} : Finish(t)

Spec == Init /\ [][Next]_vars

-----------------------------------------------------------------------------
(* Properties.                                                              *)

\* Every entry of every table is an OpenFile, and every lookup a thread still
\* holds names a host descriptor or a set.
TypeOK ==
    /\ alive \subseteq Procs
    /\ files \in [Procs -> [Fds -> [open : BOOLEAN, host : HostFds \cup {NoHost},
                                    console : BOOLEAN, event : 0..MaxObjects,
                                    epoll : 0..MaxObjects, scratch : 0..MaxObjects,
                                    cloexec : BOOLEAN]]]
    /\ ends \in [HostFds -> Ends]
    /\ bytes \in [Objects -> BOOLEAN]
    /\ value \in [Objects -> 0..MaxValue]
    /\ signalled \in [Objects -> BOOLEAN]
    /\ signal_write_fd \in [Objects -> HostFds \cup {NoHost}]
    /\ interests \in [Objects -> SUBSET Fds]
    /\ made \in 0..MaxObjects
    /\ \A t \in Threads :
        /\ call[t].op \in {"none", "read", "write", "ctl", "holding", "send", "sending",
                          "recv", "received"}
        /\ call[t].op \in {"read", "write"} => call[t].host \in HostFds
        /\ call[t].op = "ctl" => call[t].set \in Objects
    /\ robbed \subseteq Objects
    /\ calls \in 0..MaxCalls

Entries == {e \in Procs \X Fds : files[e[1]][e[2]].host # NoHost}
HostOfEntry(e) == files[e[1]][e[2]].host

\* What a thread has received and not registered yet is its own as well.
Received(h) == {t \in Threads : call[t].op = "received" /\ call[t].rights = h}

\* Every host descriptor a table names is open, and no other entry, of this
\* table or another process's, names it: whatever is dup'd, inherited, passed
\* over a socket, closed or replaced, nothing is closed twice or under
\* somebody else.
HostOwnedOnce ==
    LET entries == Entries
    IN  \A e \in entries :
            /\ ends[HostOfEntry(e)] # NoEnd
            /\ \A f \in entries : HostOfEntry(f) = HostOfEntry(e) => f = e
            /\ Received(HostOfEntry(e)) = {}

\* An open host descriptor is some entry's, about to be one's, or the writing
\* end behind an eventfd: a pipe whose guest descriptors are all closed, in
\* every process, has no host end left, so its reader sees end of file.  And a
\* directory made for /proc/self/fd goes with its descriptor, but for those
\* that an exit or a host without descriptors leaves behind.
NothingHeldOpen ==
    LET entries == Entries
        owned == {HostOfEntry(e) : e \in entries} \cup {signal_write_fd[k] : k \in Objects}
    IN  /\ \A h \in HostFds : ends[h] = NoEnd \/ h \in owned \/ Received(h) # {}
        /\ dirs = left \cup ({files[e[1]][e[2]].scratch : e \in entries} \ {NoObject})

\* poll sees an eventfd as readable when its counter is not zero, except when
\* a plain read of a dup'd or reused descriptor has taken the byte.
EventIsPollable ==
    \A k \in Objects :
        /\ value[k] # 0 => signalled[k]
        /\ signalled[k] => bytes[k] \/ k \in robbed
=============================================================================
