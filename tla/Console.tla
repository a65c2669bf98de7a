------------------------------- MODULE Console -------------------------------
(***************************************************************************)
(* The guest's console (guest_console.cpp): the keys the app sends, the line *)
(* discipline between them and the guest, raw mode, the end of input, and    *)
(* the session's stop.  Sending, changing mode and reading are critical      *)
(* sections of input_mutex_; the flags are atomics set without it, so a      *)
(* reader's condition variable may miss them, and its bounded waits (100 ms)  *)
(* make up for it: here a reader simply looks again.                         *)
(***************************************************************************)
EXTENDS Integers, Sequences, SequencesExt, FiniteSets

CONSTANTS
    Chunks,         \* what the app sends at once: sequences of keys
    MaxChanges      \* bound: what the app and the other threads may do

VARIABLES
    input,          \* input_
    line,           \* line_: keys typed since the last Return
    raw,            \* raw_mode_
    closed,         \* input_closed_
    stop,           \* stop_requested_
    nonblocking,    \* nonblocking_stdin_
    taken,          \* every key read so far
    typed,          \* every key sent, with the mode it met, and each switch to raw
    changes         \* how much the app and the other threads have done

consoleVars == <<input, line, raw, closed, stop, nonblocking, taken, typed, changes>>

ConsoleInit ==
    /\ input = <<>> /\ line = <<>> /\ taken = <<>> /\ typed = <<>> /\ changes = 0
    /\ raw = FALSE /\ closed = FALSE /\ stop = FALSE /\ nonblocking = FALSE

Change == changes < MaxChanges /\ changes' = changes + 1

-----------------------------------------------------------------------------
\* Mutant: with nothing typed, a backspace takes what was already entered.
KeyErasesInput(buffers, key) ==
    LET ready == buffers[1]  edited == buffers[2]
    IN  CASE key = "ret" -> <<ready \o Append(edited, "nl"), <<>>>>
          [] key = "bs" -> IF edited # <<>> THEN <<ready, Front(edited)>>
                           ELSE <<SubSeq(ready, 1, Len(ready) - 1), edited>>
          [] key = "eot" -> <<ready \o edited, <<>>>>
          [] OTHER -> <<ready, Append(edited, key)>>

\* The line discipline's treatment of one key: what may be read, what is edited.
Key(buffers, key) ==
    LET ready == buffers[1]  edited == buffers[2]
    IN  CASE key = "ret" -> <<ready \o Append(edited, "nl"), <<>>>>
          [] key = "bs" -> <<ready, SubSeq(edited, 1, Len(edited) - 1)>>
          [] key = "eot" -> <<ready \o edited, <<>>>>
          [] OTHER -> <<ready, Append(edited, key)>>

SendInput(keys) ==
    LET buffers == IF raw THEN <<input \o keys, line>>
                          ELSE FoldLeft(Key, <<input, line>>, keys)
    IN  /\ Change
        /\ input' = buffers[1] /\ line' = buffers[2]
        /\ typed' = typed \o [i \in DOMAIN keys |-> <<keys[i], raw>>]
        /\ UNCHANGED <<raw, closed, stop, nonblocking, taken>>

\* A program that switches to reading keys gets what was typed so far.
SetRawMode(on) ==
    /\ Change
    /\ raw' = on
    /\ input' = IF on THEN input \o line ELSE input
    /\ line' = IF on THEN <<>> ELSE line
    /\ typed' = IF on THEN Append(typed, <<"eot", FALSE>>) ELSE typed
    /\ UNCHANGED <<closed, stop, nonblocking, taken>>

SetNonblockingStdin(on) ==
    /\ Change /\ nonblocking # on
    /\ nonblocking' = on
    /\ UNCHANGED <<input, line, raw, closed, stop, taken, typed>>

CloseInput ==
    /\ Change /\ ~closed
    /\ closed' = TRUE
    /\ UNCHANGED <<input, line, raw, stop, nonblocking, taken, typed>>

RequestStop ==
    /\ Change /\ ~stop
    /\ stop' = TRUE
    /\ UNCHANGED <<input, line, raw, closed, nonblocking, taken, typed>>

\* Mutant: a line not yet ended counts as input.
AnythingTyped == closed \/ input # <<>> \/ line # <<>>

InputAvailable == closed \/ input # <<>>

\* ReadInput with something to give, for a buffer of n; and its ways out without.
TakeInput(n) ==
    LET available == IF n < Len(input) THEN n ELSE Len(input)
    IN  /\ input # <<>>
        /\ taken' = taken \o SubSeq(input, 1, available)
        /\ input' = SubSeq(input, available + 1, Len(input))
        /\ UNCHANGED <<line, raw, closed, stop, nonblocking, typed, changes>>

EndOfInput == input = <<>> /\ (stop \/ closed)

TryAgain == input = <<>> /\ ~stop /\ ~closed /\ nonblocking

-----------------------------------------------------------------------------
(* What a terminal promises, from what was typed alone.                      *)

Commits(i) == typed[i][2] \/ typed[i][1] \in {"ret", "eot"}

Entered == {i \in DOMAIN typed : \E j \in DOMAIN typed : j >= i /\ Commits(j)}

\* A key goes when the backspaces after it, in its own line, outnumber the keys.
Erased(i) == \E j \in DOMAIN typed :
    LET after == {x \in i + 1 .. j : typed[x][1] = "bs"}
    IN  /\ j > i /\ \A x \in i .. j : ~Commits(x)
        /\ Cardinality(after) > (j - i) - Cardinality(after)

\* What key i comes to: nothing, or one key.
Came(i) ==
    CASE typed[i][2] -> <<typed[i][1]>>
      [] ~typed[i][2] /\ typed[i][1] = "ret" -> <<"nl">>
      [] ~typed[i][2] /\ typed[i][1] \in {"bs", "eot"} -> <<>>
      [] OTHER -> IF Erased(i) THEN <<>> ELSE <<typed[i][1]>>

Text(S) == FlattenSeq([i \in DOMAIN typed |-> IF i \in S THEN Came(i) ELSE <<>>])

\* The line discipline (SendInput, SetRawMode, ReadInput): whatever the order of
\* keys, backspaces, Returns, mode changes and reads, the keys read and waiting to
\* be read are those of the lines entered, edited as a terminal edits them, none
\* lost, repeated or reordered, and the rest is still being edited.
EditsAsATerminal ==
    /\ taken \o input = Text(Entered)
    /\ line = Text(DOMAIN typed \ Entered)
=============================================================================
