------------------------------ MODULE GuiLink ------------------------------
(***************************************************************************)
(* The link of the desktop program to the shell of a controller            *)
(* (pgui/link.c): a table of registers, each a cached copy of a register   *)
(* of the controller, that is edited, fetched and polled over a serial     *)
(* line, and the commands whose progress a popup follows.                  *)
(*                                                                         *)
(* The program runs frames: link_fetch takes the lines that have arrived,  *)
(* the page in view is drawn (and the user acts), link_push sends.  The    *)
(* shell runs one line at a time; its prompt ends no line, so the program  *)
(* sees a prompt only together with the echo of the next line it sends.    *)
(***************************************************************************)
EXTENDS Integers, Sequences, FiniteSets

CONSTANTS
  LastReg,             \* reg_MAX_N - 1
  Values,              \* what registers hold
  Setups,              \* registers by kind, and what the user does
  BusyMax,             \* requests waiting for an answer (10)
  QueueTimeout, Quiet, KeepIdle, CloseAfter,   \* 1, 1, 5 and 12 s, in frames
  LockOpen, LockCommand,                       \* 1 s and 0.2 s
  RxMax                \* lines that the queue of the shell holds (320 bytes)

Regs == 0 .. LastReg

\* Registers with an update rate, with names for their values, that a probe
\* changes and the page fetches after it, that the user edits; commands and
\* other steps of the user; how many lines are lost.
SetupType ==
  [polled : SUBSET Regs, enums : SUBSET Regs, probed : SUBSET Regs, edits : SUBSET Regs,
   commands : SUBSET {"probe", "plain", "grab"}, user : SUBSET {"refresh", "dismiss", "close"},
   sameFrame : BOOLEAN, drops : Nat]
Commands == {"probe", "plain", "grab"}
NoValue == -1
NotQueued == -1

ASSUME LinkAssumption ==
  /\ {LastReg, BusyMax, QueueTimeout, Quiet, KeepIdle, CloseAfter, LockOpen, LockCommand} \subseteq Nat
  /\ Values \subseteq Nat /\ 0 \in Values /\ Setups \subseteq SetupType
  /\ RxMax \in Nat /\ RxMax > 0
  /\ Quiet < KeepIdle /\ KeepIdle < CloseAfter

VARIABLES
  setup,               \* the configuration, fixed
  at,                  \* where the program is in its frame
  linked, locked, active, keep,   \* of struct link_pmc, times as ages
  link_mode, command_state,
  known,               \* registers with a symbol
  val, queued,         \* of struct link_reg; queued as an age
  modified,            \* registers with modified > fetched
  fetched,             \* registers with fetched = clock
  onefetch, enumerated,
  reg_push_ID, reg_ID, busy_N,    \* of link_push
  took,                \* a line was taken in this frame
  rx,                  \* lines to the shell
  lines,               \* lines to the program
  reg, running,        \* the controller: its registers, the command it runs
  missed, drops, alone \* history: registers a fetch of which was lost; lines lost;
                       \* the last command was given while none was under way,
                       \* and is not over

link  == <<linked, locked, active, keep, link_mode, command_state>>
table == <<known, val, queued, modified, fetched, onefetch, enumerated>>
push  == <<reg_push_ID, reg_ID, busy_N>>
shell == <<reg, running, alone>>
vars  == <<setup, at, link, table, push, took, rx, lines, shell, missed, drops>>

Requests ==
  [do : {"info", "open"} \cup Commands] \cup [do : {"get", "enum"}, reg : Regs] \cup
  [do : {"set"}, reg : Regs, value : Values]

Lines ==
  [is : {"prompt"}, of : {"info", "open", "get", "enum", "set"} \cup Commands] \cup
  [is : {"reg", "hidden"}, reg : Regs, value : Values] \cup [is : {"text"}]

TypeOK ==
  /\ setup \in Setups /\ at \in {"fetch", "draw", "push"} /\ {linked, took, alone} \subseteq BOOLEAN
  /\ locked \in 0 .. LockOpen + LockCommand
  /\ active \in 0 .. CloseAfter + 1 /\ keep \in 0 .. KeepIdle + 1
  /\ link_mode \in {"IDLE", "INFO", "COMMAND", "DATA_GRAB"}
  /\ command_state \in {"NONE", "PENDING", "RUNING", "WAITING"}
  /\ val \in [Regs -> Values \cup {NoValue}] /\ queued \in [Regs -> NotQueued .. QueueTimeout + 1]
  /\ {known, modified, fetched, onefetch, enumerated, missed} \subseteq SUBSET Regs
  /\ {reg_push_ID, reg_ID} \subseteq Regs /\ busy_N \in 0 .. BusyMax + 2 + LastReg
  /\ rx \in Seq(Requests) /\ Len(rx) <= RxMax
  /\ lines \in Seq(Lines)
  /\ reg \in [Regs -> Values] /\ running \in Commands \cup {"none"} /\ drops \in 0 .. setup.drops

Init ==
  /\ setup \in Setups /\ at = "fetch" /\ took = FALSE
  /\ linked = FALSE /\ locked = 0 /\ active = 0 /\ keep = 0
  /\ link_mode = "IDLE" /\ command_state = "NONE"
  /\ known = {} /\ modified = {} /\ fetched = {} /\ onefetch = {} /\ enumerated = {}
  /\ val = [r \in Regs |-> NoValue] /\ queued = [r \in Regs |-> NotQueued]
  /\ reg_push_ID = 0 /\ reg_ID = 0 /\ busy_N = 0
  /\ rx = <<>> /\ lines = <<>>
  /\ reg = [r \in Regs |-> 0] /\ running = "none" /\ alone = FALSE /\ missed = {} /\ drops = 0

-----------------------------------------------------------------------------
(* The serial line and the shell of the controller.                        *)

RegLine(r, values) == [is |-> "reg", reg |-> r, value |-> values[r]]

\* The lines that follow the prompt and the echo of a request.
Answer(m, values) ==
  CASE m.do = "open"           -> [i \in 1 .. LastReg + 1 |-> RegLine(i - 1, values)]
    [] m.do \in {"get", "set"} -> <<RegLine(m.reg, values)>>
    [] m.do = "enum"           -> <<[RegLine(m.reg, values) EXCEPT !.is = "hidden"], RegLine(m.reg, values)>>
    [] m.do = "info"           -> <<[is |-> "text"]>>
    [] OTHER                   -> <<>>

\* A write may be refused or limited by the register; the answer shows what
\* it holds then.
Written(m, values) ==
  IF m.do = "set" THEN {values, [values EXCEPT ![m.reg] = m.value]} ELSE {values}

\* What the controller prints reaches the program while the port is open.
PrintsLines(s) == lines' = IF linked THEN s ELSE <<>>

\* The steps of the program between two fetches take no time against the line,
\* and the shell prints an answer to its end before it goes on.
Listens == at = "fetch" /\ lines = <<>>

Evaluate ==
  /\ Listens /\ running = "none" /\ rx # <<>> /\ rx' = Tail(rx)
  /\ LET m == Head(rx)
     IN  /\ reg' \in Written(m, reg)
         /\ PrintsLines(<<[is |-> "prompt", of |-> m.do]>> \o Answer(m, reg'))
         /\ running' = IF m.do \in Commands THEN m.do ELSE "none"
  /\ UNCHANGED <<setup, at, link, table, push, took, missed, drops, alone>>

CommandPrints ==
  /\ Listens /\ running # "none" /\ linked /\ PrintsLines(<<[is |-> "text"]>>)
  /\ UNCHANGED <<setup, at, link, table, push, took, rx, shell, missed, drops>>

CommandEnds ==
  /\ at = "fetch" /\ running # "none" /\ running' = "none" /\ alone' = FALSE
  /\ reg' \in IF running # "probe" THEN {reg}
              ELSE {f \in [Regs -> Values] : \A r \in Regs \ setup.probed : f[r] = reg[r]}
  /\ UNCHANGED <<setup, at, link, table, push, took, rx, lines, missed, drops>>

-----------------------------------------------------------------------------
(* serial_fputs                                                            *)

Free == RxMax - Len(rx)

\* How many of the lines s the ring of the program may take: all of them, or
\* at least what the shell's queue holds; what the queue has no room for then
\* is lost on the line.
Taken(s) ==
  {k \in 0 .. Len(s) : (k = Len(s) \/ k >= Free) /\ k <= Free + setup.drops - drops}

Arrived(s, k) == SubSeq(s, 1, IF k <= Free THEN k ELSE Free)

Send(s, k) == rx' = rx \o Arrived(s, k) /\ drops' = drops + k - Len(Arrived(s, k))

-----------------------------------------------------------------------------
(* link_fetch                                                              *)

\* The mode in which the answer to a line of this kind is read.
ModeOf(do) ==
  CASE do = "info" -> "INFO" [] do \in {"probe", "plain"} -> "COMMAND"
    [] do = "grab" -> "DATA_GRAB" [] OTHER -> "IDLE"

\* Mutants: any line begins a pending command; a popup waits for ever.
AnyBegins(mode) ==
  CASE command_state \in {"RUNING", "WAITING"} -> "NONE" [] command_state = "PENDING" -> "RUNING"
    [] OTHER -> command_state
PopupStays(mode) ==
  CASE command_state = "RUNING" -> "NONE" [] command_state = "PENDING" /\ mode = "COMMAND" -> "RUNING"
    [] OTHER -> command_state

\* Where a command is after a prompt with the echo of a line of this mode.
AfterPrompt(mode) ==
  CASE command_state \in {"RUNING", "WAITING"}             -> "NONE"
    [] command_state = "PENDING" /\ mode = "COMMAND"        -> "RUNING"
    [] OTHER                                                -> command_state

\* link_fetch_network: a prompt and its echo end what was read before.
TakePrompt(l) ==
  /\ link_mode' = ModeOf(l.of) /\ command_state' = AfterPrompt(ModeOf(l.of))
  /\ UNCHANGED table

\* Mutant: what the user has just typed stays in view.
EditStays(l) == IF l.is = "hidden" \/ l.reg \in modified THEN val[l.reg] ELSE l.value

\* link_fetch_reg_format: the register is as the controller has it; of a line
\* with the name of another value only its times are taken.
Shown(l) == IF l.is = "hidden" THEN val[l.reg] ELSE l.value

TakeReg(l) ==
  /\ val' = [val EXCEPT ![l.reg] = Shown(l)]
  /\ known' = known \cup {l.reg} /\ fetched' = fetched \cup {l.reg}
  /\ modified' = modified \ {l.reg} /\ queued' = [queued EXCEPT ![l.reg] = NotQueued]
  /\ UNCHANGED <<link_mode, command_state, onefetch, enumerated>>

TakeLine ==
  /\ at = "fetch" /\ linked /\ lines # <<>>
  /\ lines' = Tail(lines) /\ took' = TRUE /\ active' = 0
  /\ LET l == Head(lines)
     IN  \/ l.is = "prompt" /\ TakePrompt(l)
         \/ l.is \in {"reg", "hidden"} /\ TakeReg(l)
         \/ l.is = "text" /\ UNCHANGED <<link_mode, command_state, table>>
  /\ UNCHANGED <<setup, at, linked, locked, keep, push, rx, shell, missed, drops>>

\* The keepalive: its echo is also what brings the prompt of a line before it.
KeepAlive ==
  IF keep > (IF active > Quiet THEN Quiet ELSE KeepIdle)
  THEN keep' = 0 /\ \E k \in Taken(<<[do |-> "info"]>>) : Send(<<[do |-> "info"]>>, k)
  ELSE UNCHANGED <<keep, rx, drops>>

Drawn == at' = "draw"

\* link_close: memset of struct link_pmc.
Closed ==
  /\ linked' = FALSE /\ locked' = 0 /\ active' = 0 /\ keep' = 0
  /\ link_mode' = "IDLE" /\ command_state' = "NONE"
  /\ known' = {} /\ modified' = {} /\ fetched' = {} /\ onefetch' = {} /\ enumerated' = {}
  /\ val' = [r \in Regs |-> NoValue] /\ queued' = [r \in Regs |-> NotQueued]
  /\ reg_push_ID' = 0 /\ lines' = <<>>
  /\ UNCHANGED <<rx, missed, drops>>

\* The lines that have arrived are taken, then the silence is looked at.
EndFetch ==
  /\ at = "fetch" /\ Drawn /\ took' = FALSE
  /\ IF ~ linked THEN UNCHANGED <<link, table, reg_push_ID, lines, rx, missed, drops>>
     ELSE /\ took \/ lines = <<>>
          /\ IF link_mode = "DATA_GRAB"
             THEN /\ link_mode' = IF active > Quiet THEN "IDLE" ELSE link_mode
                  /\ UNCHANGED <<linked, locked, active, keep, command_state, table, reg_push_ID,
                                 lines, rx, missed, drops>>
             ELSE IF active > CloseAfter THEN Closed
             ELSE /\ KeepAlive
                  /\ UNCHANGED <<linked, locked, active, link_mode, command_state, table, reg_push_ID,
                                 lines, missed>>
  /\ UNCHANGED <<setup, reg_ID, busy_N, shell>>

-----------------------------------------------------------------------------
(* What the user does while a page is drawn.                               *)

\* link_push starts at the register after the last one it looked at.
ToPush ==
  /\ at = "draw" /\ at' = "push" /\ reg_ID' = reg_push_ID
  /\ busy_N' = Cardinality({r \in Regs : queued[r] # NotQueued})
  /\ UNCHANGED <<setup, took, reg, running>>

\* The popup that waits for a command is modal.
NoPopup == linked /\ command_state # "WAITING"

Nothing == ToPush /\ UNCHANGED <<link, table, reg_push_ID, rx, lines, missed, drops, alone>>

\* A page writes the new value into the table and notes the time of it, which
\* is not past the time of an answer of the same frame.
Edit(r, v) ==
  /\ ToPush /\ NoPopup /\ r \in known \cap setup.edits /\ v # val[r]
  /\ setup.sameFrame \/ r \notin fetched
  /\ val' = [val EXCEPT ![r] = v]
  /\ modified' = IF r \in fetched THEN modified ELSE modified \cup {r}
  /\ UNCHANGED <<link, known, queued, fetched, onefetch, enumerated, reg_push_ID, rx, lines, missed, drops, alone>>

Refresh(r) ==
  /\ ToPush /\ NoPopup /\ "refresh" \in setup.user /\ r \in known \ setup.polled
  /\ onefetch' = onefetch \cup {r}
  /\ UNCHANGED <<link, known, val, queued, modified, fetched, enumerated, reg_push_ID, rx, lines, missed, drops, alone>>

\* History: a command is under way, from its line in the queue of the shell
\* to its echo.
UnderWay ==
  \/ command_state # "NONE" \/ running # "none"
  \/ \E i \in DOMAIN rx : rx[i].do \in Commands
  \/ \E i \in DOMAIN lines : lines[i].is = "prompt" /\ lines[i].of \in Commands

\* link_command, and what the pages do when it has taken the command: they
\* ask for the registers that they know and the command changes.
Command(c) ==
  /\ ToPush /\ NoPopup /\ c \in setup.commands /\ locked = 0
  /\ 1 \in Taken(<<[do |-> c]>>) /\ Send(<<[do |-> c]>>, 1) /\ locked' = LockCommand
  /\ command_state' = IF c = "grab" THEN command_state ELSE "PENDING"
  /\ alone' = (c # "grab" /\ ~ UnderWay)
  /\ onefetch' = IF c = "probe" THEN onefetch \cup (setup.probed \cap known) ELSE onefetch
  /\ missed' = IF c = "probe" THEN missed \cup (setup.probed \ known) ELSE missed
  /\ UNCHANGED <<linked, active, keep, link_mode, known, val, queued, modified, fetched, enumerated,
                 reg_push_ID, lines>>

ShowPopup ==
  /\ ToPush /\ command_state = "RUNING" /\ locked = 0 /\ command_state' = "WAITING"
  /\ UNCHANGED <<linked, locked, active, keep, link_mode, table, reg_push_ID, rx, lines, missed, drops, alone>>

\* The user closes the popup of a command that still runs.
Dismiss ==
  /\ ToPush /\ "dismiss" \in setup.user /\ command_state = "WAITING" /\ command_state' = "NONE"
  /\ UNCHANGED <<linked, locked, active, keep, link_mode, table, reg_push_ID, rx, lines, missed, drops, alone>>

\* link_open sends without looking whether the lines were taken.
Greeting == <<[do |-> "open"]>>

LinkOpen ==
  /\ ToPush /\ ~ linked /\ linked' = TRUE
  /\ \E k \in Taken(Greeting) :
       Send(Greeting, k) /\ missed' = IF k = 1 /\ drops' = drops THEN {} ELSE Regs
  /\ locked' = LockOpen /\ active' = 0 /\ keep' = 0
  /\ UNCHANGED <<link_mode, command_state, table, reg_push_ID, lines, alone>>

LinkClose == ToPush /\ "close" \in setup.user /\ NoPopup /\ Closed /\ UNCHANGED alone

Draw ==
  \/ Nothing \/ ShowPopup \/ Dismiss \/ LinkOpen \/ LinkClose
  \/ \E r \in Regs : Refresh(r) \/ \E v \in Values : Edit(r, v)
  \/ \E c \in Commands : Command(c)

-----------------------------------------------------------------------------
(* link_push                                                               *)

Older(age, limit) == IF age <= limit THEN age + 1 ELSE age

\* The clock of the next frame.
NextFrame ==
  /\ at' = "fetch" /\ reg_ID' = 0 /\ busy_N' = 0 /\ fetched' = {}
  /\ locked' = IF locked = 0 THEN 0 ELSE locked - 1
  /\ active' = Older(active, CloseAfter) /\ keep' = Older(keep, KeepIdle)

Aged(q) == [r \in Regs |-> IF q[r] = NotQueued THEN NotQueued ELSE Older(q[r], QueueTimeout)]

Blocked == ~ linked \/ locked > 0 \/ link_mode = "DATA_GRAB" \/ known = {} \/ busy_N > BusyMax

PushNothing ==
  /\ at = "push" /\ reg_ID = reg_push_ID /\ Blocked /\ NextFrame
  /\ queued' = Aged(queued)
  /\ UNCHANGED <<setup, linked, link_mode, command_state, known, val, modified, onefetch, enumerated,
                 reg_push_ID, took, rx, lines, shell, missed, drops>>

\* A register is fetched when its period has passed (shorter than a frame)
\* or once when that was asked, if the page shows it after its last answer.
Due(r) == r \in known \ fetched /\ r \in setup.polled \cup onefetch

\* The mark is taken back before the ring has taken the request.
Unmarked(r) == IF Due(r) THEN onefetch \ {r} ELSE onefetch

\* What link_push sends for a register that is not waiting for an answer.
Wanted(r) ==
  (IF r \in modified THEN <<[do |-> "set", reg |-> r, value |-> val[r]]>>
   ELSE IF Due(r) THEN <<[do |-> "get", reg |-> r]>> ELSE <<>>) \o
  (IF r \in (setup.enums \cap known) \ enumerated THEN <<[do |-> "enum", reg |-> r]>> ELSE <<>>)

Ids(s, do) == {s[i].reg : i \in {j \in DOMAIN s : s[j].do = do}}

\* Mutant: it is waited for without end.
WaitsOn(age) == age

\* A request that is not answered in time is taken for lost.
Waiting(age) == IF age > QueueTimeout THEN NotQueued ELSE age

NextReg == (reg_ID + 1) % (LastReg + 1)

\* One register of the loop; the loop ends when enough requests wait or when
\* it has come round.
PushReg ==
  /\ at = "push" /\ ~ (reg_ID = reg_push_ID /\ Blocked)
  /\ LET free == queued[reg_ID] = NotQueued
         s    == IF free THEN Wanted(reg_ID) ELSE <<>>
     IN  \E k \in Taken(s) :
           LET busy == busy_N + k
               q    == [queued EXCEPT ![reg_ID] =
                          IF k > 0 THEN 0 ELSE Waiting(@)]
           IN  /\ Send(s, k)
               /\ onefetch' = IF free THEN Unmarked(reg_ID) ELSE onefetch
               /\ missed' = missed \cup (Ids(s, "get") \ Ids(Arrived(s, k), "get"))
               /\ enumerated' = enumerated \cup Ids(SubSeq(s, 1, k), "enum")
               /\ IF busy > BusyMax \/ NextReg = reg_push_ID
                  THEN NextFrame /\ queued' = Aged(q) /\ reg_push_ID' = NextReg
                  ELSE /\ queued' = q /\ reg_ID' = NextReg /\ busy_N' = busy
                       /\ UNCHANGED <<at, fetched, locked, active, keep, reg_push_ID>>
  /\ UNCHANGED <<setup, linked, link_mode, command_state, known, val, modified, took, lines, shell>>

-----------------------------------------------------------------------------

Frame == TakeLine \/ EndFetch \/ Draw \/ PushNothing \/ PushReg
Next == Frame \/ Evaluate \/ CommandPrints \/ CommandEnds

Spec == Init /\ [][Next]_vars

\* The program runs frames, the line transmits, the shell reads and commands
\* end.  Now and then the user leaves the program alone when the shell, which
\* takes far less than a frame for a line, has read all that was sent.
FairSpec ==
  /\ Spec /\ WF_vars(Frame) /\ SF_vars(Evaluate) /\ SF_vars(CommandEnds)
  /\ []<><<Nothing /\ locked = 0 /\ rx = <<>> >>_vars

-----------------------------------------------------------------------------
\* Nothing is on its way and no command runs.
Still == linked /\ rx = <<>> /\ lines = <<>> /\ running = "none"

\* Once everything sent is answered, the table shows what the controller
\* holds: an edit was either taken over or undone by an answer, however
\* edits, polls, repeated requests and commands overlapped, and a probe's
\* results are in view.  An edit still to be sent, a fetch still to be sent
\* and a probed register a fetch of which was lost are the exceptions.
QuietIsTrue ==
  Still => \A r \in (known \ modified) \ onefetch :
             (r \in setup.probed => r \notin missed) => val[r] = reg[r]

\* A command that was given while no other was under way is not reported as
\* over before it is: neither the prompt of a request that was under way when
\* it was given nor its own report it.
DoneIsDone ==
  [][linked' /\ at = "fetch" /\ alone => ~ (command_state # "NONE" /\ command_state' = "NONE")]_vars

\* The popup of a command does not stay: the prompt that follows the command
\* comes with the echo of a later line, which the keepalive sends.
CommandReported == command_state \in {"RUNING", "WAITING"} ~> command_state \notin {"RUNING", "WAITING"}

\* An edit is sent again until the controller has answered it, although lines
\* are lost and other registers are polled.
EditSettles == \A r \in Regs : r \in modified ~> r \notin modified

\* What QuietIsTrue needs: nobody edits in the frame of an answer of the same register,
\* nor a register that a probe changes, whose fetch a lost edit would take the place of.
EditsApart == \A s \in Setups : ~ s.sameFrame /\ s.edits \cap s.probed = {}
=============================================================================
