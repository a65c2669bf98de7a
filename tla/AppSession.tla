----------------------------- MODULE AppSession -----------------------------
(***************************************************************************)
(* The app's side of a run: EmulatorSession.swift with its GuestDisplay    *)
(* and GuestInput, over the C interface of fathom_runtime.cpp.             *)
(*                                                                         *)
(* Three kinds of threads take steps here.  Everything of EmulatorSession  *)
(* runs on the main actor, one whole handler at a time, except finish,     *)
(* which blocks it in fathom_session_destroy.  The run's own thread is in  *)
(* fathom_session_run.  The guest's processes write output from theirs.    *)
(* Timers hand their ticks to the main actor as tasks, which may still be  *)
(* queued when the run is over.                                            *)
(*                                                                         *)
(* A write is one item, numbered within its stream.  written is what the   *)
(* console owes the user: all that was written since it was last cleared.  *)
(***************************************************************************)
EXTENDS Integers, Sequences

CONSTANTS
    MaxRuns,         \* bound on launches
    MaxWrites,       \* bound on writes of a run
    MaxTicks,        \* bound on ticks waiting for the main actor
    MaximumChunkBytes, MaximumChunks,
    ViewLeaves       \* whether the view may let go of a session that is running

ASSUME AppAssumption ==
    /\ {MaxRuns, MaxWrites, MaxTicks, MaximumChunkBytes, MaximumChunks} \subseteq Nat \ {0}
    /\ ViewLeaves \in BOOLEAN

VARIABLES
    state, session, statusTimer, inputTimer, ticks, finishPosted, finishing,
    pending, output, written, launched,
    closesInput,     \* closesConsoleInput
    display,         \* GuestDisplay: "detached", "watching" (its timer runs) or "mapped"
    input,           \* GuestInput: whether its socket is connected
    core,            \* fathom_session: its state, or "none" once it is destroyed
    thread,          \* where the run's thread is in fathom_session_run
    result,          \* RunProcess's outcome, once it has one
    child,           \* whether another guest process is running
    stopping,        \* console.stop_requested_
    inputClosed,     \* console.input_closed_
    xserver          \* whether the guest's X server is up: socket and framebuffer exist

mainVars == <<state, session, statusTimer, inputTimer, finishPosted, finishing, output, launched, closesInput, display, input>>
coreVars == <<core, thread, result, child, stopping, inputClosed, xserver>>
sessionVars == <<mainVars, coreVars, ticks, pending, written>>

Streams == {"out", "err"}
Nothing == [s \in Streams |-> <<>>]
IsActive == state = "running"
MainIsFree == finishing = FALSE

SessionInit ==
    /\ state = "idle" /\ session = FALSE /\ statusTimer = FALSE /\ inputTimer = FALSE
    /\ ticks = 0 /\ finishPosted = FALSE /\ finishing = FALSE
    /\ pending = Nothing /\ output = <<>> /\ written = Nothing /\ launched = 0
    /\ closesInput = FALSE /\ display = "detached" /\ input = FALSE
    /\ core = "none" /\ thread = "none" /\ result = "none" /\ child = FALSE /\ stopping = FALSE
    /\ inputClosed = FALSE /\ xserver = FALSE

-----------------------------------------------------------------------------
(***************************************************************************)
(* The console's text: flushOutput and append.                             *)
(***************************************************************************)
\* Mutant of Extended: a chunk that is full is replaced.
ExtendedReplacing(chunks, s, text) ==
    IF chunks # <<>> /\ chunks[Len(chunks)].stream = s
    THEN [chunks EXCEPT ![Len(chunks)].text = IF Len(@) < MaximumChunkBytes THEN @ \o text ELSE text]
    ELSE Append(chunks, [stream |-> s, text |-> text])

Extended(chunks, s, text) ==
    IF chunks # <<>> /\ chunks[Len(chunks)].stream = s /\ Len(chunks[Len(chunks)].text) < MaximumChunkBytes
    THEN [chunks EXCEPT ![Len(chunks)].text = @ \o text]
    ELSE Append(chunks, [stream |-> s, text |-> text])

Trimmed(chunks) ==
    IF Len(chunks) > MaximumChunks
    THEN SubSeq(chunks, Len(chunks) - MaximumChunks + 1, Len(chunks)) ELSE chunks

Appended(chunks, s, text) ==
    IF text = <<>> THEN chunks ELSE Trimmed(Extended(chunks, s, text))

FlushOutput ==
    /\ output' = Appended(Appended(output, "out", pending["out"]), "err", pending["err"])
    /\ pending' = Nothing

(***************************************************************************)
(* launch, with the guard that keeps a second run out.  Without JIT, or    *)
(* when fathom_session_create fails, it only says so.                      *)
(***************************************************************************)
Launch(created, closes) ==
    IF IsActive
    THEN UNCHANGED <<state, session, statusTimer, output, written, launched, core, thread, result, child, stopping, inputClosed>>
    ELSE /\ launched < MaxRuns
         /\ launched' = launched + 1
         /\ output' = <<>> /\ written' = Nothing
         /\ IF created
            THEN /\ state' = "running" /\ session' = TRUE /\ statusTimer' = TRUE
                 /\ core' = "idle" /\ thread' = "created" /\ result' = "none" /\ child' = FALSE
                 /\ stopping' = FALSE /\ inputClosed' = closes
            ELSE /\ state' = "failed"
                 /\ UNCHANGED <<session, statusTimer, core, thread, result, child, stopping, inputClosed>>

Run(created) ==
    /\ MainIsFree
    /\ Launch(created, closesInput)
    /\ UNCHANGED <<inputTimer, finishPosted, finishing, ticks, pending, closesInput, display, input, xserver>>

(***************************************************************************)
(* runGraphical watches for the framebuffer and the socket before launch   *)
(* has had its say.                                                        *)
(***************************************************************************)
RunGraphical(created) ==
    /\ MainIsFree
    /\ closesInput' = TRUE
    /\ display' = "watching"
    /\ inputTimer' = TRUE
    /\ Launch(created, TRUE)
    /\ UNCHANGED <<finishPosted, finishing, ticks, pending, input, xserver>>

Stop ==
    /\ MainIsFree /\ session /\ IsActive
    /\ stopping' = TRUE
    /\ UNCHANGED <<mainVars, core, thread, result, child, inputClosed, xserver, ticks, pending, written>>

Reset ==
    /\ MainIsFree /\ ~IsActive
    /\ state' = "idle" /\ output' = <<>> /\ written' = Nothing
    /\ UNCHANGED <<session, statusTimer, inputTimer, ticks, finishPosted, finishing, pending, launched, closesInput,
                   display, input, coreVars>>

-----------------------------------------------------------------------------
(***************************************************************************)
(* The timers.                                                             *)
(***************************************************************************)
StatusTimerFires ==
    /\ statusTimer /\ ticks < MaxTicks
    /\ ticks' = ticks + 1
    /\ UNCHANGED <<mainVars, coreVars, pending, written>>

Tick ==
    /\ MainIsFree /\ ticks > 0
    /\ ticks' = ticks - 1
    /\ FlushOutput
    /\ UNCHANGED <<state, session, statusTimer, inputTimer, finishPosted, finishing, launched, closesInput, display, input,
                   coreVars, written>>

DisplayTimerFires ==
    /\ MainIsFree /\ display = "watching" /\ xserver
    /\ display' = "mapped"
    /\ UNCHANGED <<state, session, statusTimer, inputTimer, finishPosted, finishing, output, launched, closesInput, input,
                   coreVars, ticks, pending, written>>

(***************************************************************************)
(* connect drops an older connection first, and may fail although the      *)
(* server is there.  The timer is done when it succeeds, and gives up once *)
(* the run is over.                                                        *)
(***************************************************************************)
InputTimerFires(connected) ==
    /\ MainIsFree /\ inputTimer
    /\ connected => IsActive /\ xserver
    /\ input' = IF IsActive THEN connected ELSE input
    /\ inputTimer' = (IsActive /\ ~connected)
    /\ UNCHANGED <<state, session, statusTimer, finishPosted, finishing, output, launched, closesInput, display,
                   coreVars, ticks, pending, written>>

InputSend ==
    /\ MainIsFree /\ input /\ ~xserver
    /\ input' = FALSE
    /\ UNCHANGED <<state, session, statusTimer, inputTimer, finishPosted, finishing, output, launched, closesInput, display,
                   coreVars, ticks, pending, written>>

-----------------------------------------------------------------------------
(***************************************************************************)
(* fathom_session_run on its thread, and the guest.                        *)
(***************************************************************************)
RunStarts ==
    /\ thread = "created"
    /\ thread' = "run" /\ core' = "running"
    /\ UNCHANGED <<mainVars, result, child, stopping, inputClosed, xserver, ticks, pending, written>>

GuestWrites(s) ==
    /\ thread = "run" \/ child
    /\ Len(written["out"]) + Len(written["err"]) < MaxWrites
    /\ LET item == Len(written[s]) + 1 IN
       /\ pending' = [pending EXCEPT ![s] = Append(@, item)]
       /\ written' = [written EXCEPT ![s] = Append(@, item)]
    /\ UNCHANGED <<mainVars, coreVars, ticks>>

GuestForks ==
    /\ thread = "run" /\ ~child
    /\ child' = TRUE
    /\ UNCHANGED <<mainVars, core, thread, result, stopping, inputClosed, xserver, ticks, pending, written>>

ChildExits ==
    /\ child
    /\ child' = FALSE
    /\ UNCHANGED <<mainVars, core, thread, result, stopping, inputClosed, xserver, ticks, pending, written>>

XServerChanges ==
    /\ thread \in {"run", "waiting", "joining"} /\ inputClosed
    /\ xserver' = ~xserver
    /\ UNCHANGED <<mainVars, core, thread, result, child, stopping, inputClosed, ticks, pending, written>>

(***************************************************************************)
(* RunProcess comes back: by itself, or because a stop was requested.      *)
(* With wait_for_children what the program started is waited for.          *)
(***************************************************************************)
RunProcessReturns(outcome, waits) ==
    /\ thread = "run"
    /\ outcome = "stopped" => stopping
    /\ result' = outcome
    /\ thread' = IF waits /\ outcome = "exited" THEN "waiting" ELSE "joining"
    /\ UNCHANGED <<mainVars, core, child, stopping, inputClosed, xserver, ticks, pending, written>>

WaitForChildren ==
    /\ thread = "waiting" /\ (~child \/ stopping)
    /\ thread' = "joining"
    /\ UNCHANGED <<mainVars, core, result, child, stopping, inputClosed, xserver, ticks, pending, written>>

(***************************************************************************)
(* StopAndJoinThreads asks every process to stop and waits for it; then    *)
(* the status is stored, and finish is posted to the main queue.           *)
(***************************************************************************)
StopsChildren ==
    /\ thread = "joining" /\ ~stopping
    /\ stopping' = TRUE
    /\ UNCHANGED <<mainVars, core, thread, result, child, inputClosed, xserver, ticks, pending, written>>

\* Mutant of Joined: the children are asked and not waited for.
AskedToStop == stopping
Joined == stopping /\ ~child

RunReturns ==
    /\ thread = "joining" /\ Joined
    /\ core' = result
    /\ thread' = "none" /\ finishPosted' = TRUE /\ xserver' = FALSE
    /\ UNCHANGED <<state, session, statusTimer, inputTimer, finishing, output, launched, closesInput, display, input,
                   result, child, stopping, inputClosed, ticks, pending, written>>

(***************************************************************************)
(* finish: the timers, the connection, the display, the last output, the   *)
(* status; then fathom_session_destroy.                                    *)
(***************************************************************************)
\* Mutant of Ending: a stop is not among the cases.
EndingUnlessStopped == CASE core = "exited" -> "finished" [] core = "faulted" -> "failed" [] OTHER -> state
Ending == CASE core = "exited" -> "finished" [] core = "stopped" -> "stopped" [] OTHER -> "failed"

Finish ==
    /\ MainIsFree /\ finishPosted
    /\ finishPosted' = FALSE
    /\ statusTimer' = FALSE /\ inputTimer' = FALSE /\ input' = FALSE /\ display' = "detached"
    /\ FlushOutput
    /\ state' = Ending
    /\ finishing' = TRUE
    /\ UNCHANGED <<session, launched, closesInput, coreVars, ticks, written>>

DestroySession ==
    /\ finishing
    /\ finishing' = FALSE /\ session' = FALSE
    /\ core' = "none"
    /\ stopping' = TRUE
    /\ UNCHANGED <<state, statusTimer, inputTimer, finishPosted, output, launched, closesInput, display, input,
                   thread, result, child, inputClosed, xserver, ticks, pending, written>>

(***************************************************************************)
(* deinit, when the view that owns the session lets go of it.  Closures    *)
(* hold the session weakly, so nothing of it runs afterwards.              *)
(***************************************************************************)
Deinit ==
    /\ MainIsFree
    /\ session => ViewLeaves
    /\ launched' = MaxRuns /\ ticks' = 0
    /\ session' = FALSE /\ statusTimer' = FALSE /\ inputTimer' = FALSE /\ input' = FALSE /\ display' = "detached"
    /\ core' = "none"
    /\ stopping' = (stopping \/ session)
    /\ UNCHANGED <<state, finishPosted, finishing, output, closesInput, thread, result, child, inputClosed, xserver,
                   pending, written>>

-----------------------------------------------------------------------------
User ==
    \/ \E created \in BOOLEAN : Run(created) \/ RunGraphical(created)
    \/ Stop \/ Reset \/ InputSend \/ Deinit

Main ==
    \/ Tick \/ DisplayTimerFires
    \/ \E connected \in BOOLEAN : InputTimerFires(connected)
    \/ Finish \/ DestroySession

Core == RunStarts \/ WaitForChildren \/ StopsChildren \/ RunReturns

Guest ==
    \/ \E s \in Streams : GuestWrites(s)
    \/ GuestForks \/ ChildExits \/ XServerChanges
    \/ \E outcome \in {"exited", "stopped", "faulted"}, waits \in BOOLEAN : RunProcessReturns(outcome, waits)

SessionNext == User \/ StatusTimerFires \/ Main \/ Core \/ Guest

SessionSpec == SessionInit /\ [][SessionNext]_sessionVars

(***************************************************************************)
(* The main queue and the run's thread go on.  The guest is only owed to   *)
(* notice a stop: RunProcess and the children return once one is asked.    *)
(***************************************************************************)
SessionFairness ==
    /\ WF_sessionVars(Finish) /\ WF_sessionVars(DestroySession) /\ WF_sessionVars(Core)
    /\ WF_sessionVars(stopping /\ RunProcessReturns("stopped", FALSE))
    /\ WF_sessionVars(stopping /\ ChildExits)

SessionFairSpec == SessionSpec /\ SessionFairness

-----------------------------------------------------------------------------
\* What the chunks show of a stream.
Text(chunks, s) ==
    LET upTo[n \in Nat] ==
            IF n = 0 THEN <<>> ELSE upTo[n - 1] \o (IF chunks[n].stream = s THEN chunks[n].text ELSE <<>>)
    IN  upTo[Len(chunks)]

IsTailOf(tail, whole) ==
    /\ Len(tail) <= Len(whole)
    /\ tail = SubSeq(whole, Len(whole) - Len(tail) + 1, Len(whole))


\* What the guest writes reaches the console once and in order: the text shown
\* and what waits to be shown are, for each stream, all that was written since
\* the console was cleared, or its tail once chunks have been dropped.  Neither
\* the ticks left over from an earlier run nor the end of one lose any.
ConsoleIsWhatWasWritten ==
    \A s \in Streams :
        LET text == Text(output, s) \o pending[s] IN
        /\ IsTailOf(text, written[s])
        /\ Len(output) < MaximumChunks => text = written[s]

\* Nothing outlives what it uses: the run's thread, the guest's processes and
\* the app's pointer have a session that is not destroyed, output is only
\* pending while it may still be shown, and no connection to the guest's X
\* server and no timer of the run outlasts it.
NothingOutlivesTheRun ==
    /\ thread # "none" \/ child \/ session => core # "none"
    /\ input \/ statusTimer => IsActive
    /\ pending # Nothing => IsActive

\* A stop is the end of the run: once asked for, by the user or by the first
\* program's return, the session does not stay active.
StopEndsTheRun == []<>~(stopping /\ IsActive)

\* "both sides simply keep trying" (EmulatorSession.swift:114): while a
\* graphical run lasts, an X server that stays up gets its input connection.
\* Not kept: the timer is not started again once an attempt has connected.
KeepsTrying == []<>(input \/ inputTimer \/ ~xserver \/ ~IsActive)
=============================================================================
