-------------------------------- MODULE Tlm --------------------------------
(***************************************************************************)
(* Telemetry (src/tlm.c): the ADC interrupt records the chosen registers   *)
(* into a ring of lines; shell commands start and stop it and print the    *)
(* ring, and a task sends the lines to the network while they come.        *)
(* The interrupt may come between any two steps of the tasks.              *)
(***************************************************************************)
EXTENDS Integers, FiniteSets

CONSTANTS
  DataMax,             \* TLM_DATA_MAX: cells of the memory
  Layouts,             \* numbers of registers that may be chosen
  Rates,               \* interrupts to a line
  Old,                 \* ages of samples are told apart below this bound
  Relayout             \* whether registers are chosen anew without tlm_clean

ASSUME TlmAssumption ==
  /\ DataMax \in Nat \ {0} /\ Layouts \subseteq 0 .. DataMax /\ Layouts # {}
  /\ Rates \subseteq Nat \ {0} /\ Rates # {}
  /\ Old \in Nat /\ Old > DataMax /\ Relayout \in BOOLEAN

Modes   == {"DISABLED", "GRAB", "WATCH", "STREAM"}
Readers == {"shell", "net"}     \* tlm_stream_sync, task_EPCAN_TLM
Ages     == 0 .. Old           \* how many samples were recorded since

VARIABLES
  mode, layout_N, length_MAX, clock, skip, rate, line, rdata,   \* struct tlm_t
                       \* (rdata holds the ages of the samples)
  chosen,              \* how many of tlm.reg_ID are set
  fsm_errno,           \* whether pm.fsm_errno is set
  at, goal,            \* the shell: where it is, and the start it is at work on
  pos, kept,           \* tlm_flush_sync: its line; lines it has printed
  reader,              \* the readers of a stream: state and line
  fresh,               \* history: lines recorded since the start, up to length_MAX;
  last, unread,        \* per reader: age of what it read last, lines not read yet;
  late,                \* samples that a watch recorded since fsm_errno is set;
  inside, inOrder      \* every access was inside the memory; every reader read
                       \* each sample once, in order

tlm     == <<mode, layout_N, length_MAX, clock, skip, rate, line, rdata>>
shell   == <<at, goal, pos, kept>>
outside == <<chosen, fsm_errno>>
history == <<fresh, late>>
reading == <<reader, last, unread, inOrder>>
vars    == <<tlm, shell, outside, history, reading, inside>>

Labels == {"idle", "configure", "enable", "flush", "stream"}

TypeOK ==
  /\ mode \in Modes /\ layout_N \in Layouts \cup {0} /\ length_MAX \in 0 .. DataMax
  /\ line \in 0 .. DataMax - 1 /\ (~ Relayout => line = 0 \/ line < length_MAX)
  /\ rate \in Rates \cup {0} /\ skip \in Nat /\ (skip = 0 \/ skip < rate) /\ clock \in 0 .. length_MAX
  /\ rdata \in [0 .. DataMax - 1 -> Ages]
  /\ chosen \in Layouts /\ fsm_errno \in BOOLEAN
  /\ at \in Labels /\ goal \in [mode : Modes, reader : Readers \cup {"none"}]
  /\ pos \in 0 .. DataMax - 1 /\ kept \in 0 .. length_MAX
  /\ reader \in [Readers -> [on : {"off", "new", "on"}, line : 0 .. DataMax - 1]]
  /\ fresh \in 0 .. length_MAX /\ late \in 0 .. 2
  /\ last \in [Readers -> Ages]
  /\ unread \in [Readers -> 0 .. DataMax] /\ inside \in BOOLEAN /\ inOrder \in BOOLEAN

\* The state after reset: tlm_t is zero but for the registers chosen.
Init ==
  /\ mode = "DISABLED" /\ chosen \in Layouts
  /\ layout_N = 0 /\ length_MAX = 0 /\ rate = 0
  /\ clock = 0 /\ skip = 0 /\ line = 0 /\ rdata = [i \in 0 .. DataMax - 1 |-> Old]
  /\ fsm_errno = FALSE
  /\ at = "idle" /\ goal = [mode |-> "DISABLED", reader |-> "none"]
  /\ pos = 0 /\ kept = 0
  /\ reader = [r \in Readers |-> [on |-> "off", line |-> 0]]
  /\ fresh = 0 /\ late = 0
  /\ last = [r \in Readers |-> Old] /\ unread = [r \in Readers |-> 0]
  /\ inside = TRUE /\ inOrder = TRUE

UpTo(max, n) == IF n < max THEN n ELSE max

\* The cells of a line, where it begins by the layout of now.
Cells(l) == l * layout_N .. l * layout_N + layout_N - 1

\* The line after l. Definitions marked "Mutant" are wrong on purpose, see the README.
NextLine(l) == IF l < length_MAX - 1 THEN l + 1 ELSE 0

\* Mutant: the writer wraps one line late.
LateLine(l) == IF l < length_MAX THEN l + 1 ELSE 0

WriterLine(l) == NextLine(l)

\* Mutant: the writer and a reader differ on where the ring ends.
WrapsEarly(l) == IF l < length_MAX - 2 THEN l + 1 ELSE 0

ReaderLine(l) == NextLine(l)

-----------------------------------------------------------------------------
(* tlm_reg_grab, called by ADC_IRQ in every cycle *)

Older(age) == UpTo(Old, age + 1)

Record ==
  IF skip = 0
    THEN /\ rdata' = [c \in DOMAIN rdata |-> IF c \in Cells(line) THEN 0 ELSE Older(rdata[c])]
         /\ last' = [r \in Readers |-> Older(last[r])]
         /\ inside' = (inside /\ Cells(line) \subseteq DOMAIN rdata)
         /\ late' = IF mode = "WATCH" /\ fsm_errno THEN UpTo(2, late + 1) ELSE late
    ELSE UNCHANGED <<rdata, last, inside, late>>

\* Mutant: a watch does not look at the error.
NeverTripped == FALSE

Tripped == fsm_errno

CountLine ==
  IF skip + 1 >= rate
    THEN /\ clock' = UpTo(length_MAX, clock + 1) /\ skip' = 0 /\ line' = WriterLine(line)
         /\ mode' = IF \/ mode = "GRAB" /\ clock + 1 >= length_MAX
                       \/ mode = "WATCH" /\ Tripped THEN "DISABLED" ELSE mode
         /\ fresh' = UpTo(length_MAX, fresh + 1)
         /\ unread' = [r \in Readers |-> IF reader[r].on = "on"
                                           THEN UpTo(DataMax, unread[r] + 1) ELSE unread[r]]
    ELSE skip' = skip + 1 /\ UNCHANGED <<clock, line, mode, fresh, unread>>

Grab ==
  /\ mode # "DISABLED" /\ Record /\ CountLine
  /\ UNCHANGED <<layout_N, length_MAX, rate, shell, outside, reader, inOrder>>

-----------------------------------------------------------------------------
(* The shell commands that start and stop. A command is given when a reader has *)
(* noticed the end of its stream, which takes it a tick.                        *)

Ready == at = "idle" /\ (reader["net"].on # "off" => mode = "STREAM")

\* tlm_startup in three steps: disable, configure, enable.
Disable(g) ==
  /\ mode' = "DISABLED" /\ goal' = g /\ at' = "configure"
  /\ UNCHANGED <<layout_N, length_MAX, clock, skip, rate, line, rdata, pos, kept, outside,
                 history, reading, inside>>

\* tlm_grab; tlm_watch, and the probes, which do not look whether a stream runs.
TlmGrab  == Ready /\ Disable([mode |-> "GRAB", reader |-> "none"])
TlmWatch == Ready /\ Disable([mode |-> "WATCH", reader |-> "none"])

\* tlm_stream_sync and tlm_stream_net_async
TlmStream(who) ==
  Ready /\ mode = "DISABLED" /\ Disable([mode |-> "STREAM", reader |-> who])

\* Mutant: the memory is as many lines long as it has cells.
CellsOfMemory(n) == DataMax

\* With no register chosen the core divides by zero, which gives zero.
Length(n) == IF n = 0 THEN 0 ELSE DataMax \div n

\* The line is not reset: the ring goes on where it was.
Configure ==
  /\ at = "configure" /\ at' = "enable"
  /\ layout_N' = chosen /\ length_MAX' = Length(chosen)
  /\ clock' = 0 /\ skip' = 0 /\ rate' \in Rates
  /\ fresh' = 0 /\ late' = 0 /\ kept' = 0
  /\ UNCHANGED <<mode, line, rdata, goal, pos, outside, reading, inside>>

Enable ==
  /\ at = "enable" /\ mode' = goal.mode /\ goal' = [goal EXCEPT !.reader = "none"]
  /\ at' = IF goal.reader = "shell" THEN "stream" ELSE "idle"
  /\ reader' = [r \in Readers |-> IF r = goal.reader THEN [reader[r] EXCEPT !.on = "new"]
                                                     ELSE reader[r]]
  /\ UNCHANGED <<layout_N, length_MAX, clock, skip, rate, line, rdata, pos, kept,
                 outside, history, last, unread, inOrder, inside>>

\* tlm_stop, and the end of a probe.
TlmStop ==
  /\ Ready /\ mode # "DISABLED" /\ mode' = "DISABLED"
  /\ UNCHANGED <<layout_N, length_MAX, clock, skip, rate, line, rdata, shell, outside,
                 history, reading, inside>>

\* tlm_clean, when nobody streams.
TlmClean ==
  /\ Ready /\ \A r \in Readers : reader[r].on = "off"
  /\ mode' = "DISABLED" /\ clock' = 0 /\ skip' = 0 /\ line' = 0
  /\ rdata' = [c \in DOMAIN rdata |-> Old] /\ fresh' = 0
  /\ UNCHANGED <<layout_N, length_MAX, rate, shell, outside, late, reading, inside>>

-----------------------------------------------------------------------------
(* tlm_flush_sync prints the ring from the line the writer is at *)

\* Mutant: the ring is printed from the beginning of the memory.
FirstOfMemory == 0

FirstOfRing == line

Flush ==
  /\ Ready /\ mode = "DISABLED" /\ at' = "flush" /\ pos' = FirstOfRing /\ kept' = 0
  /\ UNCHANGED <<tlm, goal, outside, history, reading, inside>>

FlushLine ==
  /\ at = "flush" /\ inside' = (inside /\ Cells(pos) \subseteq DOMAIN rdata)
  /\ IF NextLine(pos) = line
       THEN at' = "idle" /\ pos' = 0 /\ kept' = 0
       ELSE at' = at /\ pos' = NextLine(pos) /\ kept' = UpTo(length_MAX, kept + 1)
  /\ UNCHANGED <<tlm, goal, outside, history, reading>>

\* A reader is gone, and with it its variables.
Off(r) ==
  /\ reader' = [reader EXCEPT ![r] = [on |-> "off", line |-> 0]]
  /\ last' = [last EXCEPT ![r] = Old] /\ unread' = [unread EXCEPT ![r] = 0]
  /\ UNCHANGED inOrder

\* A key ends it, or a stream that the shell prints.
Key ==
  /\ at \in {"flush", "stream"} /\ at' = "idle" /\ pos' = 0 /\ kept' = 0
  /\ IF at = "stream" THEN mode' = "DISABLED" /\ Off("shell") ELSE UNCHANGED <<mode, reading>>
  /\ UNCHANGED <<layout_N, length_MAX, clock, skip, rate, line, rdata, goal, outside,
                 history, inside>>

-----------------------------------------------------------------------------
(* The readers of a stream *)

ReaderStarts(r) ==
  /\ reader[r].on = "new" /\ reader' = [reader EXCEPT ![r] = [on |-> "on", line |-> line]]
  /\ last' = [last EXCEPT ![r] = Old] /\ unread' = [unread EXCEPT ![r] = 0]
  /\ UNCHANGED <<tlm, shell, outside, history, inOrder, inside>>

\* The sample of a line is one sample, of this age.
Holds(l, age) == \A c \in Cells(l) : c \in DOMAIN rdata /\ rdata[c] = age

AgeOf(l) == IF l * layout_N \in DOMAIN rdata THEN rdata[l * layout_N] ELSE Old

\* The sample that the reader reads now follows the one it read last.
Follows(r) ==
  \E age \in Ages \ {Old} : Holds(reader[r].line, age) /\ last[r] \in {age + 1, Old}

\* Out of the promise are a reader that the writer has gone around, and the rest of
\* a stream after something else was started.
Promised(r) == unread[r] < length_MAX /\ goal.mode = "STREAM"

ReadLine(r) ==
  /\ reader[r].on = "on" /\ reader[r].line # line
  /\ inside' = (inside /\ Cells(reader[r].line) \subseteq DOMAIN rdata)
  /\ inOrder' = (inOrder /\ (Promised(r) => Follows(r)))
  /\ last' = [last EXCEPT ![r] = IF Promised(r) THEN AgeOf(reader[r].line) ELSE Old]
  /\ unread' = [unread EXCEPT ![r] = IF @ \in 1 .. length_MAX - 1 THEN @ - 1 ELSE @]
  /\ reader' = [reader EXCEPT ![r].line = ReaderLine(@)]
  /\ UNCHANGED <<tlm, shell, outside, history>>

\* The task ends when it has read all lines and the stream has ended.
NetEnds ==
  /\ reader["net"].on = "on" /\ reader["net"].line = line /\ mode # "STREAM"
  /\ Off("net")
  /\ UNCHANGED <<tlm, shell, outside, history, inside>>

-----------------------------------------------------------------------------
(* Around telemetry *)

\* Registers are chosen; with Relayout at any time the shell is idle.
Choose(n) ==
  /\ at = "idle" /\ n # chosen /\ chosen' = n
  /\ ~ Relayout => line = 0 /\ mode = "DISABLED" /\ \A r \in Readers : reader[r].on = "off"
  /\ UNCHANGED <<tlm, shell, fsm_errno, history, reading, inside>>

\* The state machine sets an error, and clears it with the next request.
Fault ==
  /\ fsm_errno' = ~ fsm_errno /\ late' = 0
  /\ UNCHANGED <<tlm, shell, chosen, fresh, reading, inside>>

Command ==
  \/ TlmGrab \/ TlmWatch \/ \E who \in Readers : TlmStream(who)
  \/ TlmStop \/ TlmClean \/ Flush \/ Key
  \/ \E n \in Layouts : Choose(n)

Next ==
  \/ Grab \/ Fault \/ Command
  \/ Configure \/ Enable \/ FlushLine
  \/ \E r \in Readers : ReaderStarts(r) \/ ReadLine(r)
  \/ NetEnds

Spec == Init /\ [][Next]_vars

\* The shell task runs on. Nobody need give a command or press a key.
FairSpec == Spec /\ WF_vars(FlushLine)

-----------------------------------------------------------------------------
\* Telemetry stays in its memory, "memory to keep telemetry data" (tlm.h): no line
\* is written or read beyond it, whatever was recorded before with other registers.
InMemory == inside

\* A ring that was recorded in full since the start, by a grab or longer, is printed
\* from the oldest sample to the last, each once, wherever in the ring it began.
FlushInOrder ==
  at = "flush" /\ fresh = length_MAX /\ skip = 0 =>
    Holds(pos, length_MAX - 1 - kept)

\* A stream gives each sample once and in order, unless the writer has gone around
\* the whole ring since, although it records while the reader reads.
StreamInOrder == inOrder

\* A watch records at most one sample after the error that stops it, for every rate.
WatchKeepsError == mode = "WATCH" /\ fsm_errno => late <= 1

\* The printing of the ring comes to its end.
FlushEnds == at = "flush" ~> at # "flush"
=============================================================================
