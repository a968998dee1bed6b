------------------------------- MODULE Inputs -------------------------------
(***************************************************************************)
(* The analog knob and the pulse width input (src/main.c): how a signal    *)
(* starts the machine, stops it when it is lost or idle, and arms again.   *)
(*                                                                         *)
(* The knob is sampled by a task, the pulse width by the interrupt in      *)
(* every PWM cycle, just before the state machine reads its mailbox.  Both *)
(* share the mailbox, the timers and the machine, which commands and       *)
(* faults start and stop as well.  The interrupt preempts the task between *)
(* any two of its accesses to what they share.                             *)
(***************************************************************************)
EXTENDS Integers

CONSTANTS
  Starters,      \* the inputs that may start the machine (knob_STARTUP, ppm_STARTUP)
  Idle,          \* timeout_IDLE in ticks; 0 is off
  Gap,           \* the longest pause in the checks of a timer (40 ticks)
  Late,          \* the longest the task is preempted within one check, in ticks
  Faults         \* lost samples in a row that stop the machine (10)

VARIABLES
  lu, proc,              \* whether lu_MODE is on; the procedure in progress, where
                         \* BUSY is a probe while lu is on and a halt otherwise
  fsm_req,               \* the mailbox of the state machine
  ACTIVE, DISARM, NFAULT,\* of each input
  idle,                  \* ticks since idle_INK and since idle_RST
  moved,                 \* whether lu_total_revol differs from idle_revol
  at, now,               \* where the knob task is; in a check, ticks since its xNOW
  fresh, lost,           \* history of each input: low since its last start and loss;
                         \* lost samples in a row
  quiet, still           \* history: ticks since the last full turn; the same when the
                         \* task last looked at the turns

machine == <<lu, proc>>
flags   == <<ACTIVE, DISARM, NFAULT>>
timers  == <<idle, moved>>
knob    == <<at, now, still>>
history == <<fresh, lost, quiet>>
vars    == <<machine, fsm_req, flags, timers, knob, history>>

Inputs   == {"knob", "ppm"}
Signals  == {"lost", "low", "in"}
Procs    == {"IDLE", "LU_SHUTDOWN", "BUSY"}
Requests == {"LU_STARTUP", "LU_SHUTDOWN", "PROBE", "HALT"}

\* The steps of timeout_IDLE in the task, and all of the task's.
Checking == {"gap", "restart", "ink", "turns", "turned", "note", "expire"}
Labels   == {"rest", "convert", "start", "stop", "post"} \cup Checking

\* A timer runs up to where no test can tell it from a longer one.
Longest(limit) == limit + Late + 1

ASSUME InputsAssumption ==
  /\ Starters \subseteq Inputs
  /\ Idle \in Nat /\ Gap \in Nat /\ Late \in Nat /\ Faults \in Nat \ {0}

TypeOK ==
  /\ lu \in BOOLEAN /\ proc \in Procs /\ fsm_req \in Requests \cup {"IDLE"}
  /\ ACTIVE \in [Inputs -> BOOLEAN] /\ DISARM \in [Inputs -> BOOLEAN]
  /\ NFAULT \in [Inputs -> 0 .. Faults]
  /\ idle \in [ink : 0 .. Longest(Gap), rst : 0 .. Longest(Idle)] /\ moved \in BOOLEAN
  /\ at \in Labels /\ now \in 0 .. Late
  /\ fresh \in [Inputs -> BOOLEAN] /\ lost \in [Inputs -> 0 .. Faults]
  /\ quiet \in 0 .. Idle + 1 /\ still \in 0 .. Idle + 1

Init ==
  /\ lu = FALSE /\ proc = "IDLE" /\ fsm_req = "IDLE"
  /\ ACTIVE = [i \in Inputs |-> FALSE] /\ DISARM = [i \in Inputs |-> TRUE]
  /\ NFAULT = [i \in Inputs |-> 0]
  /\ idle = [ink |-> 0, rst |-> 0] /\ moved = FALSE
  /\ at = "rest" /\ now = 0
  /\ fresh = [i \in Inputs |-> FALSE] /\ lost = [i \in Inputs |-> 0]
  /\ quiet = 0 /\ still = 0

-----------------------------------------------------------------------------
(* The timers shared by the inputs *)

UpTo(max, n) == IF n < max THEN n ELSE max

\* Whether the unsigned xNOW - stamp is above the limit, of the ticks since xNOW
\* and since the stamp: the difference to a stamp that is later than xNOW wraps.
Above(since, stamp, limit) == stamp < since \/ stamp - since > limit

\* Mutant: the timer runs on over turns of the machine.
RestartedByGap == Above(0, idle.ink, Gap)

\* The interrupt, which nothing preempts: timeout_IDLE restarts the timer after a
\* pause in the checks, or after a turn.
Restarted == Above(0, idle.ink, Gap) \/ moved
HeldNow   == IF Restarted THEN 0 ELSE idle.rst
Expired   == Idle # 0 /\ HeldNow > Idle

IdleCheck ==
  IF Idle = 0 THEN UNCHANGED timers
  ELSE idle' = [ink |-> 0, rst |-> HeldNow] /\ moved' = FALSE

-----------------------------------------------------------------------------
(* The conversion of a sample. Definitions marked "Mutant" are wrong on     *)
(* purpose, see the README.                                                 *)

With(f, i, value) == [f EXCEPT ![i] = value]

\* Mutants: an input that was active when the machine stopped is not disarmed,
\* and a good sample does not clear the count of lost ones.
DisarmKept(i) == DISARM[i]
GoodKeepsFault(i) == NFAULT' = NFAULT

\* An active input that finds the machine stopped is disarmed.
ActiveNow(i) == ACTIVE[i] /\ lu
DisarmNow(i) == DISARM[i] \/ (ACTIVE[i] /\ ~ lu)

Good(i) == NFAULT' = With(NFAULT, i, 0)

\* A disarmed input that is low waits for timeout_DISARM, as long as it is.
LowWait(i, arm) ==
  /\ ACTIVE' = With(ACTIVE, i, FALSE)
  /\ \E waits \in BOOLEAN : DISARM' = With(DISARM, i, arm /\ waits)
  /\ UNCHANGED timers

\* In range, an input that is armed and not active starts a stopped machine.
MayStart(i, active, arm) == i \in Starters /\ ~ active /\ ~ arm

\* A lost sample counts while the input is active; enough of them stop the
\* machine. It disarms the input at once.
Count(i, counts, cleared) ==
  IF cleared THEN 0 ELSE IF counts THEN NFAULT[i] + 1 ELSE NFAULT[i]

InactiveAfter(i, fault) == ACTIVE' = With(ACTIVE, i, ACTIVE[i] /\ ~ fault)

Lost(i, counts, cleared, req, post) ==
  LET fault == counts /\ Count(i, counts, cleared) >= Faults
  IN /\ NFAULT' = With(NFAULT, i, Count(i, counts, cleared))
     /\ DISARM' = With(DISARM, i, TRUE)
     /\ InactiveAfter(i, fault)
     /\ post = IF fault THEN "LU_SHUTDOWN" ELSE req
     /\ UNCHANGED timers

\* What the history keeps of a sample.
Sampled(i, signal) ==
  /\ lost' = With(lost, i, IF signal = "lost" THEN UpTo(Faults, lost[i] + 1) ELSE 0)
  /\ fresh' = With(fresh, i, (ACTIVE[i] \/ ~ ACTIVE'[i])
                            /\ (signal = "low" \/ (signal = "in" /\ fresh[i])))
  /\ UNCHANGED quiet

-----------------------------------------------------------------------------
(* task_KNOB. Each step is one access to what the interrupt shares, in the   *)
(* order of the statements; the pace of 10 ms is left open.                  *)

Go(label) == at' = label

KnobCheck ==
  /\ at = "rest" /\ Go("convert")
  /\ ACTIVE' = With(ACTIVE, "knob", ActiveNow("knob"))
  /\ DISARM' = With(DISARM, "knob", DisarmNow("knob"))
  /\ UNCHANGED <<machine, fsm_req, NFAULT, timers, now, still, history>>

\* A sample. A brake signal in range clears the count of the lost samples,
\* whatever the state of the knob is. An active input that is low reads xNOW and
\* checks the idle time; one in range reads lu_MODE to start the machine.
KnobConvert ==
  /\ at = "convert"
  /\ \/ /\ \E brake \in BOOLEAN : Lost("knob", ACTIVE["knob"], brake, fsm_req, fsm_req')
        /\ Sampled("knob", "lost") /\ Go("rest")
     \/ /\ Good("knob") /\ UNCHANGED fsm_req
        /\ IF ACTIVE["knob"]
             THEN /\ Go(IF Idle = 0 THEN "rest" ELSE "gap")
                  /\ UNCHANGED <<ACTIVE, DISARM, timers>>
             ELSE LowWait("knob", DISARM["knob"]) /\ Go("rest")
        /\ Sampled("knob", "low")
     \/ /\ Good("knob") /\ UNCHANGED fsm_req
        /\ Go(IF MayStart("knob", ACTIVE["knob"], DISARM["knob"]) /\ ~ lu
               THEN "start" ELSE "rest")
        /\ UNCHANGED <<ACTIVE, DISARM, timers>>
        /\ Sampled("knob", "in")
  /\ UNCHANGED <<machine, now, still>>

\* The request is posted after lu_MODE was read.
KnobStart ==
  /\ at = "start" /\ Go("rest") /\ fsm_req' = "LU_STARTUP"
  /\ ACTIVE' = With(ACTIVE, "knob", TRUE) /\ fresh' = With(fresh, "knob", FALSE)
  /\ UNCHANGED <<machine, DISARM, NFAULT, timers, now, still, lost, quiet>>

\* timeout_IDLE in the task: the pause is tested, the timer restarted at xNOW, the
\* check noted, the turns compared, the timer restarted, the turns noted.
Check(label, next) ==
  at = label /\ Go(next) /\ UNCHANGED <<machine, fsm_req, flags, now, history>>

KnobGap ==
  /\ Check("gap", IF Above(now, idle.ink, Gap) THEN "restart" ELSE "ink")
  /\ UNCHANGED <<timers, still>>

Restart == idle' = [idle EXCEPT !.rst = now] /\ UNCHANGED <<moved, still>>

KnobRestart == Check("restart", "ink") /\ Restart

KnobInk ==
  Check("ink", "turns") /\ idle' = [idle EXCEPT !.ink = now] /\ UNCHANGED <<moved, still>>

KnobTurns ==
  Check("turns", IF moved THEN "turned" ELSE "expire") /\ still' = quiet /\ UNCHANGED timers

KnobTurned == Check("turned", "note") /\ Restart

KnobNote == Check("note", "expire") /\ moved' = FALSE /\ UNCHANGED <<idle, still>>

\* The timer is read again, and may have been restarted by the interrupt.
KnobExpire ==
  /\ at = "expire" /\ Go(IF Above(now, idle.rst, Idle) THEN "stop" ELSE "rest")
  /\ now' = 0 /\ still' = 0
  /\ UNCHANGED <<machine, fsm_req, flags, timers, history>>

KnobStop ==
  /\ \/ at = "stop" /\ lu /\ Go("post") /\ UNCHANGED <<fsm_req, ACTIVE>>
     \/ /\ at = "stop" /\ ~ lu /\ Go("rest") /\ UNCHANGED fsm_req
        /\ ACTIVE' = With(ACTIVE, "knob", FALSE)
     \/ /\ at = "post" /\ Go("rest") /\ fsm_req' = "LU_SHUTDOWN"
        /\ ACTIVE' = With(ACTIVE, "knob", FALSE)
  /\ UNCHANGED <<machine, DISARM, NFAULT, timers, now, still, history>>

Knob ==
  \/ KnobCheck \/ KnobConvert \/ KnobStart \/ KnobStop
  \/ KnobGap \/ KnobRestart \/ KnobInk \/ KnobTurns \/ KnobTurned \/ KnobNote \/ KnobExpire

-----------------------------------------------------------------------------
(* ADC_IRQ: in_PULSE_WIDTH, the faults, then pm_FSM. post is the request the  *)
(* input leaves in the mailbox.                                              *)

\* Out of range on the low side: an active input waits for the idle time.
PulseLow(active, arm, post) ==
  \/ /\ active /\ DISARM' = With(DISARM, "ppm", arm)
     /\ IdleCheck /\ ACTIVE' = With(ACTIVE, "ppm", ~ Expired)
     /\ post = IF Expired THEN "LU_SHUTDOWN" ELSE fsm_req
  \/ ~ active /\ LowWait("ppm", arm) /\ post = fsm_req

PulseIn(active, arm, post) ==
  LET starts == MayStart("ppm", active, arm) /\ ~ lu
  IN /\ ACTIVE' = With(ACTIVE, "ppm", active \/ starts) /\ DISARM' = With(DISARM, "ppm", arm)
     /\ post = IF starts THEN "LU_STARTUP" ELSE fsm_req
     /\ UNCHANGED timers

InPulseWidth(signal, post) ==
  /\ \/ /\ signal = "lost"
        /\ Lost("ppm", ACTIVE["ppm"] /\ lu, FALSE, fsm_req, post)
     \/ /\ signal = "low" /\ Good("ppm")
        /\ PulseLow(ActiveNow("ppm"), DisarmNow("ppm"), post)
     \/ /\ signal = "in" /\ Good("ppm")
        /\ PulseIn(ActiveNow("ppm"), DisarmNow("ppm"), post)
  /\ Sampled("ppm", signal)

\* A startup may fail, into IDLE or HALT; a halt takes time.
Accept(post) ==
  \/ /\ post = "LU_STARTUP" /\ proc = "IDLE" /\ ~ lu
     /\ \/ lu' = TRUE /\ proc' = "IDLE"
        \/ lu' = FALSE /\ proc' \in {"IDLE", "BUSY"}
  \/ post = "LU_SHUTDOWN" /\ proc = "IDLE" /\ lu /\ proc' = post /\ UNCHANGED lu
  \/ post = "PROBE" /\ proc = "IDLE" /\ proc' = "BUSY" /\ UNCHANGED lu
  \/ post = "HALT" /\ (proc # "IDLE" \/ lu) /\ proc' = "BUSY" /\ lu' = FALSE

Refused(post) ==
  CASE post = "IDLE"        -> TRUE
    [] post = "LU_STARTUP"  -> proc # "IDLE" \/ lu
    [] post = "LU_SHUTDOWN" -> proc # "IDLE" \/ ~ lu
    [] post = "PROBE"       -> proc # "IDLE"
    [] post = "HALT"        -> proc = "IDLE" /\ ~ lu

\* The procedure in progress goes on, fails or ends; a shutdown ends stopped.
Progress ==
  \/ UNCHANGED machine
  \/ proc # "IDLE" /\ proc' = "IDLE" /\ lu' = (lu /\ proc # "LU_SHUTDOWN")
  \/ proc = "BUSY" /\ proc' = proc /\ lu' = FALSE

Cycle ==
  /\ \E signal \in Signals, post \in {fsm_req, "LU_STARTUP", "LU_SHUTDOWN"} :
       /\ InPulseWidth(signal, post)
       /\ \E req \in {post, "HALT"} : Accept(req) \/ (Refused(req) /\ Progress)
  /\ fsm_req' = "IDLE" /\ UNCHANGED knob

-----------------------------------------------------------------------------
(* Around the inputs *)

\* A command, the temperature task or the network posts a request.
Command ==
  /\ fsm_req' \in Requests
  /\ UNCHANGED <<machine, flags, timers, knob, history>>

\* The running machine makes a full turn.
Turn ==
  /\ lu /\ moved' = TRUE /\ quiet' = 0
  /\ UNCHANGED <<machine, fsm_req, flags, idle, knob, fresh, lost>>

\* A tick passes, in which the interrupt has read the mailbox.
Tick ==
  /\ fsm_req = "IDLE"
  /\ idle' = [ink |-> UpTo(Longest(Gap), idle.ink + 1), rst |-> UpTo(Longest(Idle), idle.rst + 1)]
  /\ now' = IF at \in Checking THEN now + 1 ELSE now
  /\ now' <= Late
  /\ quiet' = UpTo(Idle + 1, quiet + 1)
  /\ UNCHANGED <<machine, fsm_req, flags, moved, at, still, fresh, lost>>

Next == Knob \/ Cycle \/ Command \/ Turn \/ Tick

Spec == Init /\ [][Next]_vars

-----------------------------------------------------------------------------
\* An input that starts the machine was low since its last start, and since its
\* signal was last lost: whoever stopped the machine, a signal that stays in range
\* or comes back in range does not start it again.
FreshStarts ==
  [][\A i \in Inputs : ~ ACTIVE[i] /\ ACTIVE'[i] => fresh[i]]_vars

\* A signal is reported lost only after that many lost samples in a row, with no
\* good one in between, however often the input was active and inactive.
NoFalseAlarm == \A i \in Inputs : NFAULT[i] <= lost[i]

\* The step in which an input that runs the machine finds it idle, and how long the
\* machine had made no turn when the input looked at the turns.
FindsIdle(i) ==
  IF i = "knob" THEN at = "expire" /\ at' = "stop"
  ELSE ACTIVE[i] /\ ~ ACTIVE'[i] /\ lost'[i] = 0 /\ lu
StoodStill(i) == IF i = "knob" THEN still ELSE quiet

\* The interrupt restarted the timer after the task had read xNOW.
Overtaken == idle.rst < now

\* An input stops the machine as idle only when it made no full turn for the idle
\* time, less what a check of the task may be late, although the inputs share one
\* timer, check it only while they are low and active, look at the turns only
\* then, and the interrupt preempts the task within its check. The check that is
\* overtaken by the interrupt is left out: see IdleAlways.
IdleMeansStill ==
  [][\A i \in Inputs : FindsIdle(i) =>
       StoodStill(i) + Late > Idle \/ (i = "knob" /\ Overtaken)]_vars

\* The same of every check, as the documentation has it. The code does not keep
\* it: a task that is overtaken subtracts a later time from xNOW.
IdleAlways == [][\A i \in Inputs : FindsIdle(i) => StoodStill(i) + Late > Idle]_vars
=============================================================================
