------------------------------ MODULE Readiness ------------------------------
(***************************************************************************)
(* Waiting for descriptors (linux_syscalls.cpp): poll, select and            *)
(* epoll_wait by one guest thread, over the console, a host pipe and a timer  *)
(* descriptor, and the reads that follow, while other threads and processes   *)
(* read, write, arm timers and change the descriptor table.                  *)
(*                                                                           *)
(* All three calls go round a loop: look at the stop flag and at the table,   *)
(* then ask the host about the host descriptors found, then answer, give up,  *)
(* or wait one slice.  The table's lock is not held while the host is asked,   *)
(* so the two halves of a round are two actions.  Only interest in reading is *)
(* modelled; signals, which end a wait early, are in Signals.                *)
(***************************************************************************)
EXTENDS Console

CONSTANTS
    Fds,            \* guest descriptors; 0, 1 and 2 are what poll takes for the console
    Kinds           \* what an entry of the table may be

ASSUME FdsAreNumbers == Fds \subseteq Nat

\* Entries of the table: the console's input, one pipe, one timer, an entry with
\* no host descriptor (an epoll set, for one), none.
AllKinds == {"tty", "pipe", "timer", "bare", "none"}
HostKinds == {"pipe", "timer"}
Calls == {"poll", "select", "epoll"}
Timeouts == {"zero", "some", "never"}

VARIABLES
    table,          \* shared_->files, by kind
    pipe,           \* the host pipe: "empty", "data" or "hup"
    timer,          \* the host timer: [armed: "no", "once" or "repeat"; fired]
    pc,             \* where the thread is
    call, watch, timeout,   \* the call it made
    expired,        \* its deadline has passed
    asked,          \* host descriptors collected this round, with what they were
    seen,           \* descriptors found ready this round
    promised        \* descriptors the last wait reported readable, nobody having
                    \* read or changed them since they were looked at

otherConsoleVars == <<input, line, raw, closed, stop, nonblocking, taken, typed>>
waitVars == <<pc, call, watch, timeout, expired, asked, seen, promised>>
hostVars == <<table, pipe, timer>>
vars == <<consoleVars, hostVars, waitVars>>

Init ==
    /\ ConsoleInit
    /\ table = [fd \in Fds |-> IF fd = 0 THEN "tty" ELSE "none"]
    /\ pipe = "empty"
    /\ timer = [armed |-> "no", fired |-> FALSE]
    /\ pc = "guest" /\ call = "poll" /\ watch = {} /\ timeout = "zero"
    /\ expired = FALSE /\ asked = {} /\ seen = {} /\ promised = {}

Of(kind) == {fd \in Fds : table[fd] = kind}

\* What was promised or seen of these descriptors no longer binds the wait.
Withdrawn(fds) == promised' = promised \ fds

-----------------------------------------------------------------------------
(* The rest of the system.                                                   *)

App ==
    /\ \/ \E keys \in Chunks : SendInput(keys)
       \/ CloseInput
       \/ RequestStop
    /\ UNCHANGED <<hostVars, waitVars>>

\* ioctl(TCSETS) and fcntl(0, F_SETFL), from any thread of any process.
Terminal ==
    /\ \E on \in BOOLEAN : SetRawMode(on) \/ SetNonblockingStdin(on)
    /\ UNCHANGED <<hostVars, waitVars>>

\* A timer that fired gives its count at once; kqueue drops one that fires once.
DoTimerfdRead ==
    /\ timer.fired
    /\ timer' = [armed |-> IF timer.armed = "once" THEN "no" ELSE timer.armed, fired |-> FALSE]

\* Another thread reads the console, the pipe or the timer first.
OtherReads ==
    \/ /\ \E n \in 1 .. 2 : TakeInput(n)
       /\ Withdrawn(Of("tty"))
       /\ UNCHANGED <<hostVars, pc, call, watch, timeout, expired, asked, seen>>
    \/ /\ pipe = "data" /\ pipe' = "empty"
       /\ Withdrawn(Of("pipe"))
       /\ UNCHANGED <<consoleVars, table, timer, pc, call, watch, timeout, expired, asked, seen>>
    \/ /\ DoTimerfdRead
       /\ Withdrawn(Of("timer"))
       /\ UNCHANGED <<consoleVars, table, pipe, pc, call, watch, timeout, expired, asked, seen>>

\* The far end of the pipe writes, or goes.
PipeChanges ==
    /\ Change /\ pipe = "empty"
    /\ pipe' \in {"data", "hup"}
    /\ UNCHANGED <<otherConsoleVars, table, timer, waitVars>>

\* timerfd_settime: zero disarms, and takes an expiry nobody read with it.
DoTimerfdSettime ==
    /\ Change
    /\ \E armed \in {"no", "once", "repeat"} : timer' = [armed |-> armed, fired |-> FALSE]
    /\ Withdrawn(Of("timer"))
    /\ UNCHANGED <<otherConsoleVars, table, pipe, pc, call, watch, timeout, expired, asked, seen>>

TimerFires ==
    /\ timer.armed # "no" /\ ~timer.fired
    /\ timer' = [timer EXCEPT !.fired = TRUE]
    /\ UNCHANGED <<consoleVars, table, pipe, waitVars>>

\* close, dup2, timerfd_create and the rest: an entry changes.
TableChanges ==
    /\ Change
    /\ \E fd \in Fds, kind \in Kinds :
        /\ table[fd] # kind
        /\ table' = [table EXCEPT ![fd] = kind]
        /\ Withdrawn({fd})
    /\ UNCHANGED <<otherConsoleVars, pipe, timer, pc, call, watch, timeout, expired, asked, seen>>

-----------------------------------------------------------------------------
(* One round of a wait.                                                      *)

(* How each call sees a descriptor it watches: as the console's input, as a   *)
(* host descriptor to ask about, as invalid.                                 *)

\* poll goes by the number for the standard descriptors, and POLLNVAL is an answer.
PollEntry(fd) ==
    [console |-> fd = 0,
     host |-> fd \notin 0 .. 2 /\ table[fd] \in HostKinds,
     invalid |-> fd \notin 0 .. 2 /\ table[fd] \notin HostKinds]

\* select goes by the entry.
SelectEntry(fd) ==
    [console |-> table[fd] = "tty", host |-> table[fd] \in HostKinds, invalid |-> FALSE]

\* epoll_wait passes over what has no host descriptor.
EpollEntry(fd) == [console |-> FALSE, host |-> table[fd] \in HostKinds, invalid |-> FALSE]

Entry(fd) ==
    CASE call = "poll" -> PollEntry(fd)
      [] call = "select" -> SelectEntry(fd)
      [] call = "epoll" -> EpollEntry(fd)

\* The call is made: DoPoll, DoSelect or DoEpollWait up to its loop.
StartWait ==
    /\ pc = "guest"
    /\ call' \in Calls /\ watch' \in SUBSET Fds \ {{}} /\ timeout' \in Timeouts
    /\ pc' = "look" /\ expired' = FALSE /\ promised' = {}
    /\ UNCHANGED <<consoleVars, hostVars, asked, seen>>

\* The first half of a round: stop, the table, the console.
Look ==
    /\ pc = "look" /\ ~stop
    /\ ~(call = "select" /\ \E fd \in watch : table[fd] = "none")
    /\ LET console == {fd \in watch : Entry(fd).console /\ InputAvailable}
       IN  /\ seen' = console \union {fd \in watch : Entry(fd).invalid}
           /\ promised' = console
    /\ asked' = {<<fd, table[fd]>> : fd \in {fd \in watch : Entry(fd).host}}
    /\ pc' = "ask"
    /\ UNCHANGED <<consoleVars, hostVars, call, watch, timeout, expired>>

StopNoticed == stop

\* The call is over; what it reported stays, with the call that reported it.
Leave(to, reported) ==
    /\ pc' = to
    /\ promised' = reported
    /\ call' = IF reported = {} THEN "poll" ELSE call
    /\ watch' = {} /\ timeout' = "zero" /\ expired' = FALSE
    /\ asked' = {} /\ seen' = {}

LookStopped ==
    /\ pc = "look" /\ StopNoticed
    /\ Leave("ended", {})
    /\ UNCHANGED <<consoleVars, hostVars>>

\* select refuses a descriptor that is not open.
LookRefused ==
    /\ pc = "look" /\ ~stop
    /\ call = "select" /\ \E fd \in watch : table[fd] = "none"
    /\ Leave("guest", {})
    /\ UNCHANGED <<consoleVars, hostVars>>

\* What the host says of a descriptor collected in the first half.
HostReady(fd, kind) ==
    /\ table[fd] = kind
    /\ IF kind = "pipe" THEN pipe # "empty" ELSE timer.fired

\* The descriptor was closed since: the host's POLLNVAL, which only poll passes on.
HostInvalid(fd, kind) == call = "poll" /\ table[fd] # kind

\* Mutant: the deadline is only looked at when the timeout was zero.
NeverGivesUp == timeout = "zero"

GivesUp == timeout = "zero" \/ (timeout = "some" /\ expired)

\* The second half: the host's answer, and the end of the round.
Ask ==
    LET readable == {fd \in Fds : \E kind \in HostKinds : <<fd, kind>> \in asked /\ HostReady(fd, kind)}
        invalid == {fd \in Fds : \E kind \in HostKinds : <<fd, kind>> \in asked /\ HostInvalid(fd, kind)}
        ready == seen \union readable \union invalid
    IN  /\ pc = "ask"
        /\ \/ /\ ready # {} \/ GivesUp
              /\ Leave("guest", promised \union readable)
           \/ /\ ready = {} /\ ~GivesUp
              /\ promised' = {} /\ asked' = {} /\ seen' = {}
              /\ pc' = "look"
              /\ UNCHANGED <<call, watch, timeout, expired>>
    /\ UNCHANGED <<consoleVars, hostVars>>

DeadlinePasses ==
    /\ pc \in {"look", "ask"} /\ timeout = "some" /\ ~expired
    /\ expired' = TRUE
    /\ UNCHANGED <<consoleVars, hostVars, pc, call, watch, timeout, asked, seen, promised>>

-----------------------------------------------------------------------------
(* Reads.                                                                    *)

\* DoRead up to the table's unlock.  A timer is read on the spot (EAGAIN changes
\* nothing).
StartRead(fd) ==
    /\ pc = "guest"
    /\ \/ /\ table[fd] = "tty"
          /\ pc' = "readtty" /\ UNCHANGED <<timer, promised>>
       \/ /\ table[fd] = "pipe"
          /\ pc' = "readpipe" /\ UNCHANGED <<timer, promised>>
       \/ /\ table[fd] = "timer" /\ DoTimerfdRead
          /\ Withdrawn(Of("timer"))
          /\ UNCHANGED pc
    /\ UNCHANGED <<consoleVars, table, pipe, call, watch, timeout, expired, asked, seen>>

\* ReadInput: keys, the end of input (which ends a thread of a stopped session),
\* or EAGAIN.
ReadConsole ==
    /\ pc = "readtty"
    /\ \/ \E n \in 1 .. 2 : TakeInput(n) /\ Leave("guest", promised \ Of("tty"))
       \/ EndOfInput /\ UNCHANGED consoleVars /\ Leave(IF stop THEN "ended" ELSE "guest", {})
       \/ TryAgain /\ UNCHANGED consoleVars /\ Leave("guest", {})
    /\ UNCHANGED hostVars

\* WaitUntilReadable, in slices that notice a stop; then the host's read.
WaitUntilReadable ==
    /\ pc = "readpipe"
    /\ \/ stop /\ Leave("ended", {})
       \/ ~stop /\ pipe # "empty" /\ Leave("hostread", promised)
    /\ UNCHANGED <<consoleVars, hostVars>>

HostRead ==
    /\ pc = "hostread" /\ pipe # "empty"
    /\ pipe' = IF pipe = "data" THEN "empty" ELSE pipe
    /\ Leave("guest", promised \ Of("pipe"))
    /\ UNCHANGED <<consoleVars, table, timer>>

Environment == App \/ Terminal \/ OtherReads \/ PipeChanges \/ DoTimerfdSettime \/ TimerFires \/ TableChanges

Thread == Look \/ LookStopped \/ LookRefused \/ Ask \/ ReadConsole \/ WaitUntilReadable \/ HostRead

Next ==
    \/ Environment
    \/ StartWait
    \/ \E fd \in Fds : StartRead(fd)
    \/ Thread
    \/ DeadlinePasses

Spec == Init /\ [][Next]_vars

\* The guest thread keeps running, and time passes.  Nobody has to type, write,
\* arm a timer or stop the session.
FairSpec == Spec /\ WF_vars(Thread) /\ WF_vars(DeadlinePasses)

-----------------------------------------------------------------------------
Readable(fd) ==
    CASE table[fd] = "tty" -> input # <<>> \/ closed
      [] table[fd] = "pipe" -> pipe # "empty"
      [] table[fd] = "timer" -> timer.fired
      [] OTHER -> FALSE

TypeOK ==
    /\ table \in [Fds -> AllKinds]
    /\ pipe \in {"empty", "data", "hup"}
    /\ timer \in [armed : {"no", "once", "repeat"}, fired : BOOLEAN]
    /\ pc \in {"guest", "look", "ask", "readtty", "readpipe", "hostread", "ended"}
    /\ call \in Calls /\ watch \subseteq Fds /\ timeout \in Timeouts /\ expired \in BOOLEAN
    /\ asked \subseteq Fds \X HostKinds /\ seen \subseteq Fds /\ promised \subseteq Fds
    /\ Len(taken) + Len(input) + Len(line) <= Len(typed)

\* The calls each look where the entry says: not so for poll on a redirected
\* standard descriptor, nor for epoll_wait on the console.
Heeds(fd) ==
    CASE call = "poll" -> fd \in 0 .. 2 => fd = 0 /\ table[fd] = "tty"
      [] call = "epoll" -> table[fd] # "tty"
      [] OTHER -> TRUE

\* DoPoll, DoSelect and DoEpollWait: what a wait reports readable can be read
\* without waiting, unless somebody else read it, or changed the entry or the
\* timer, since this wait looked, although the table's lock was dropped between
\* the look and the answer.
ReportsWhatCanBeRead == pc = "guest" => \A fd \in promised : Heeds(fd) => Readable(fd) \/ stop

\* The same with no exception for the standard descriptors: "is this the terminal"
\* is a property of the entry (linux_syscalls.h), so a redirected one counts.
\* Not kept: poll takes descriptors 0 to 2 for the console by their number.
ReportsByEntry == pc = "guest" => \A fd \in promised : Readable(fd) \/ stop

Waiting == pc \in {"look", "ask"}

\* The slices of the three loops: no wait outlasts its deadline, a stop of the
\* session, or a descriptor it watches that stays readable; and no console read
\* (ReadInput's loop) outlasts input that stays, its end, a stop or O_NONBLOCK.
WaitsEnd ==
    /\ ~<>[](Waiting /\ (stop \/ timeout # "never"))
    /\ \A fd \in Fds, kind \in Kinds :
        ~<>[](Waiting /\ fd \in watch /\ table[fd] = kind /\ Heeds(fd) /\ Readable(fd))
    /\ ~<>[](pc = "readtty" /\ (input # <<>> \/ closed \/ stop \/ nonblocking))

\* WaitUntilReadable promises that every thread parked in a read stays answerable:
\* no read outlasts a stop of the session.
\* Not kept: another reader may take the bytes the look found.
StopEndsReads == ~<>[](pc \in {"readtty", "readpipe", "hostread"} /\ stop)
=============================================================================
