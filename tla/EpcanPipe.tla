----------------------------- MODULE EpcanPipe -----------------------------
(***************************************************************************)
(* The data pipes of the CAN network (src/epcan.c): frames of one node set *)
(* a register of another, start its machine, and stop it by their silence. *)
(*                                                                         *)
(* On each node the CAN interrupt takes received frames through its pipes  *)
(* one by one; the ADC interrupt has the higher priority and may run       *)
(* between any two of its steps.  The bus is slow, loses frames and does   *)
(* not keep the clocks of the nodes together.                              *)
(***************************************************************************)
EXTENDS Integers, FiniteSets, Mailbox

CONSTANTS
  Nodes, Pipes, IDs,   \* pipes are numbered, all nodes together; IDs of frames
  Setups,              \* configurations of the pipes, and who else acts on the nodes
  timeout_EP,          \* cycles of silence that stop a machine
  Mailboxes,           \* transmit mailboxes of a node (3)
  Backlog              \* whether frames of an ID may be read with no cycle in between

Modes == {"DISABLED", "INCOMING", "OUTGOING_REGULAR", "OUTGOING_INJECTED"}
Nobody == 0

\* One pipe: ID of its frames, inject_ID of the frames that make it answer.
Endpoints == [node : Nodes, MODE : Modes, ID : IDs, inject_ID : IDs,
              STARTUP : BOOLEAN, rate : Nat \ {0}]

ASSUME PipesAssumption ==
  /\ Pipes \subseteq Nat \ {Nobody} /\ IsFiniteSet(Pipes)
  /\ \A s \in Setups : /\ s.ep \in [Pipes -> Endpoints]
                       /\ s.commands \in [Nodes -> SUBSET Requests]
                       /\ s.foreign \subseteq IDs
  /\ timeout_EP \in Nat \ {0} /\ Mailboxes \in Nat \ {0} /\ Backlog \in BOOLEAN

VARIABLES
  setup,               \* the configuration, fixed
  machine, fsm_req,    \* of each node: the machine and its mailbox
  ACTIVE, tx_clock, tx_flag,   \* of each pipe
  mbox,                \* frames of each pipe that wait in a transmit mailbox
  rx, taken,           \* IDs received by each node; read, with no cycle since
  at, left,            \* where the CAN interrupt of each node is; pipes left to it
  writer, owner, asked,\* history: who posted last; who started the machine;
                       \* whether a pipe asked to stop it since
  silence, owed        \* cycles since the last frame; injections not answered yet

machines == <<machine, fsm_req, writer, owner, asked>>
pipes    == <<ACTIVE, tx_clock, silence>>
sending  == <<tx_flag, mbox, owed>>
can      == <<rx, taken, at, left>>
vars     == <<setup, machines, pipes, sending, can>>

MODE(p)    == setup.ep[p].MODE
STARTUP(p) == setup.ep[p].STARTUP
Own(n)     == {p \in Pipes : setup.ep[p].node = n}

\* The pipes of a node that a frame is for, which are also its filters (EPCAN_bind).
Matching(n, id) ==
  {p \in Own(n) : \/ MODE(p) = "INCOMING" /\ setup.ep[p].ID = id
                  \/ MODE(p) = "OUTGOING_INJECTED" /\ setup.ep[p].inject_ID = id}

\* The frames that wait in the mailboxes of a node: a pipe and a number each.
Waiting(n) == {f \in Own(n) \X (1 .. Mailboxes) : f[2] <= mbox[f[1]]}

Labels == {"idle", "match", "start", "post", "activate", "send", "sent"}

TypeOK ==
  /\ setup \in Setups
  /\ machine \in [Nodes -> Machines] /\ fsm_req \in [Nodes -> Requests \cup {"IDLE"}]
  /\ ACTIVE \in [Pipes -> BOOLEAN] /\ tx_flag \in [Pipes -> BOOLEAN]
  /\ tx_clock \in [Pipes -> Nat] /\ mbox \in [Pipes -> Nat]
  /\ \A p \in Pipes : MODE(p) = "INCOMING" => tx_clock[p] < timeout_EP
  /\ \A n \in Nodes : Cardinality(Waiting(n)) <= Mailboxes
  /\ rx \in [Nodes -> SUBSET IDs] /\ taken \in [Nodes -> SUBSET IDs]
  /\ at \in [Nodes -> Labels] /\ left \in [Nodes -> SUBSET Pipes]
  /\ \A n \in Nodes : left[n] \subseteq Own(n) /\ (at[n] = "idle" <=> left[n] = {})
  /\ writer \in [Nodes -> Pipes \cup {Nobody}] /\ owner \in [Nodes -> Pipes \cup {Nobody}]
  /\ asked \in [Nodes -> BOOLEAN]
  /\ silence \in [Pipes -> 0 .. timeout_EP] /\ owed \in [Pipes -> BOOLEAN]

Init ==
  /\ setup \in Setups
  /\ machine = [n \in Nodes |-> Stopped] /\ fsm_req = [n \in Nodes |-> "IDLE"]
  /\ ACTIVE = [p \in Pipes |-> FALSE] /\ tx_flag = [p \in Pipes |-> FALSE]
  /\ tx_clock = [p \in Pipes |-> 0] /\ mbox = [p \in Pipes |-> 0]
  /\ rx = [n \in Nodes |-> {}] /\ taken = [n \in Nodes |-> {}]
  /\ at = [n \in Nodes |-> "idle"] /\ left = [n \in Nodes |-> {}]
  /\ writer = [n \in Nodes |-> Nobody] /\ owner = [n \in Nodes |-> Nobody]
  /\ asked = [n \in Nodes |-> FALSE]
  /\ silence = [p \in Pipes |-> 0] /\ owed = [p \in Pipes |-> FALSE]

Post(n, req, who) ==
  fsm_req' = [fsm_req EXCEPT ![n] = req] /\ writer' = [writer EXCEPT ![n] = who]

-----------------------------------------------------------------------------
(* The transmit mailboxes (CAN_send_msg) and the bus. Definitions marked "Mutant" *)
(* are wrong on purpose, see the README.                                       *)

Free(n) == Mailboxes - Cardinality(Waiting(n))

\* The bus takes a frame out of a mailbox; any of the other nodes may miss it.
Transmit(p) ==
  /\ mbox[p] > 0 /\ mbox' = [mbox EXCEPT ![p] = @ - 1]
  /\ \E missed \in SUBSET (Nodes \ {setup.ep[p].node}) :
       rx' = [n \in Nodes |-> IF n \in missed \cup {setup.ep[p].node} \/ Matching(n, setup.ep[p].ID) = {}
                                THEN rx[n] ELSE rx[n] \cup {setup.ep[p].ID}]
  /\ UNCHANGED <<setup, machines, pipes, tx_flag, owed, taken, at, left>>

\* A frame from a node that is not modelled.
Foreign(n, id) ==
  /\ id \in setup.foreign /\ Matching(n, id) # {}
  /\ rx' = [rx EXCEPT ![n] = @ \cup {id}]
  /\ UNCHANGED <<setup, machines, pipes, sending, taken, at, left>>

-----------------------------------------------------------------------------
(* CAN_IRQ and EPCAN_pipe_message_IN: the pipes in the order of their numbers *)

Current(n) == CHOOSE p \in left[n] : \A q \in left[n] : p <= q

Goto(n, label) == at' = [at EXCEPT ![n] = label] /\ UNCHANGED left

\* The frame goes on to the next pipe.
NextPipe(n) ==
  /\ left' = [left EXCEPT ![n] = @ \ {Current(n)}]
  /\ at' = [at EXCEPT ![n] = IF left[n] = {Current(n)} THEN "idle" ELSE "match"]

Receive(n, id) ==
  /\ at[n] = "idle" /\ id \in rx[n] /\ (Backlog \/ id \notin taken[n])
  /\ rx' = [rx EXCEPT ![n] = @ \ {id}] /\ taken' = [taken EXCEPT ![n] = @ \cup {id}]
  /\ left' = [left EXCEPT ![n] = Matching(n, id)] /\ at' = [at EXCEPT ![n] = "match"]
  /\ UNCHANGED <<setup, machines, pipes, sending>>

\* Mutant: a frame does not restart the clock of its pipe.
ClockKept(p) == UNCHANGED tx_clock

ClockRestarts(p) == tx_clock' = [tx_clock EXCEPT ![p] = 0]

\* A frame restarts the clock; a pipe whose machine was stopped is not active.
MatchIncoming(n, p) ==
  /\ at[n] = "match" /\ MODE(p) = "INCOMING"
  /\ ClockRestarts(p) /\ silence' = [silence EXCEPT ![p] = 0]
  /\ ACTIVE' = [ACTIVE EXCEPT ![p] = @ /\ machine[n].lu]
  /\ Goto(n, "start")
  /\ UNCHANGED <<setup, machines, sending, rx, taken>>

\* The code reads lu_MODE again.
TestStart(n, p) ==
  /\ at[n] = "start"
  /\ IF STARTUP(p) /\ ~ ACTIVE[p] /\ ~ machine[n].lu THEN Goto(n, "post") ELSE NextPipe(n)
  /\ UNCHANGED <<setup, machines, pipes, sending, rx, taken>>

PostStart(n, p) ==
  /\ at[n] = "post" /\ Post(n, "LU_STARTUP", p) /\ Goto(n, "activate")
  /\ UNCHANGED <<setup, machine, owner, asked, pipes, sending, rx, taken>>

\* Mutant: a pipe is active only if the machine is on already.
ActiveIfOn(n, p) == ACTIVE' = [ACTIVE EXCEPT ![p] = machine[n].lu]

BecomesActive(n, p) == ACTIVE' = [ACTIVE EXCEPT ![p] = TRUE]

Activate(n, p) ==
  /\ at[n] = "activate" /\ BecomesActive(n, p) /\ NextPipe(n)
  /\ UNCHANGED <<setup, machines, tx_clock, silence, sending, rx, taken>>

\* An injected pipe answers at once, and marks the answer as due before that.
MatchInjected(n, p) ==
  /\ at[n] = "match" /\ MODE(p) = "OUTGOING_INJECTED"
  /\ tx_flag' = [tx_flag EXCEPT ![p] = TRUE] /\ owed' = [owed EXCEPT ![p] = TRUE]
  /\ Goto(n, "send")
  /\ UNCHANGED <<setup, machines, pipes, mbox, rx, taken>>

\* Mutant: the answer is no longer due although every mailbox is taken.
SendOnce(n, p) ==
  /\ IF Free(n) > 0 THEN mbox' = [mbox EXCEPT ![p] = @ + 1] /\ owed' = [owed EXCEPT ![p] = FALSE]
                    ELSE UNCHANGED <<mbox, owed>>
  /\ Goto(n, "sent")

SendNow(n, p) ==
  IF Free(n) > 0
    THEN /\ mbox' = [mbox EXCEPT ![p] = @ + 1] /\ owed' = [owed EXCEPT ![p] = FALSE]
         /\ Goto(n, "sent")
    ELSE UNCHANGED <<mbox, owed>> /\ NextPipe(n)

SendInjected(n, p) ==
  /\ at[n] = "send" /\ SendNow(n, p)
  /\ UNCHANGED <<setup, machines, pipes, tx_flag, rx, taken>>

SentInjected(n, p) ==
  /\ at[n] = "sent" /\ tx_flag' = [tx_flag EXCEPT ![p] = FALSE] /\ NextPipe(n)
  /\ UNCHANGED <<setup, machines, pipes, mbox, owed, rx, taken>>

CanIrq(n) ==
  \/ \E id \in IDs : Receive(n, id)
  \/ /\ at[n] # "idle"
     /\ \E p \in {Current(n)} :
          \/ MatchIncoming(n, p) \/ TestStart(n, p) \/ PostStart(n, p) \/ Activate(n, p)
          \/ MatchInjected(n, p) \/ SendInjected(n, p) \/ SentInjected(n, p)

-----------------------------------------------------------------------------
(* ADC_IRQ: pm_feedback with the state machine, then EPCAN_pipe_REGULAR *)

Feedback(n) ==
  /\ \E req \in {fsm_req[n], "HALT"}, m \in Machines :
       m \in After(machine[n], req) /\ machine' = [machine EXCEPT ![n] = m]
  /\ owner' = [owner EXCEPT ![n] = IF machine'[n].lu /\ ~ machine[n].lu THEN writer[n] ELSE @]

\* An incoming pipe that started the machine counts the cycles without a frame.
Counting(n) == {p \in Own(n) : MODE(p) = "INCOMING" /\ ACTIVE[p]}
Expired(n)  == {p \in Counting(n) : tx_clock[p] + 1 >= timeout_EP}

Stops(n) == Expired(n) # {} /\ machine'[n].lu

\* A regular pipe with STARTUP is quiet while its own machine is stopped.
Regular(n) == {p \in Own(n) : MODE(p) = "OUTGOING_REGULAR"}
Wrapped(n) == {p \in Regular(n) : tx_clock[p] + 1 >= setup.ep[p].rate}

\* Mutant: a pipe sends although its machine is stopped.
AlwaysDue(n) == Wrapped(n)

Due(n)     == {p \in Wrapped(n) : ~ STARTUP(p) \/ machine'[n].lu}
Flagged(n) == Due(n) \cup {p \in Own(n) : /\ MODE(p) \in {"OUTGOING_REGULAR", "OUTGOING_INJECTED"}
                                          /\ tx_flag[p]}

Clocks(n) ==
  tx_clock' = [p \in Pipes |-> IF p \in Expired(n) \cup Wrapped(n) THEN 0
                               ELSE IF p \in Counting(n) \cup Regular(n) THEN tx_clock[p] + 1
                               ELSE tx_clock[p]]

\* The first ones are sent, as long as there are mailboxes; the others stay due.
Send(n) ==
  LET sent == {p \in Flagged(n) : Cardinality({q \in Flagged(n) : q < p}) < Free(n)}
  IN
    /\ mbox' = [p \in Pipes |-> IF p \in sent THEN mbox[p] + 1 ELSE mbox[p]]
    /\ tx_flag' = [p \in Pipes |-> IF p \in Flagged(n) THEN p \notin sent ELSE tx_flag[p]]
    /\ owed' = [p \in Pipes |-> owed[p] /\ p \notin sent]

\* The frame that the CAN interrupt is at work on when the ADC interrupt preempts it.
InHand(n) == {id \in taken[n] : at[n] # "idle" /\ Current(n) \in Matching(n, id)}

UpTo(max, n) == IF n < max THEN n ELSE max

Cycle(n) ==
  /\ Feedback(n) /\ Clocks(n) /\ Send(n)
  /\ ACTIVE' = [p \in Pipes |-> ACTIVE[p] /\ p \notin Expired(n)]
  /\ fsm_req' = [fsm_req EXCEPT ![n] = IF Stops(n) THEN "LU_SHUTDOWN" ELSE "IDLE"]
  /\ asked' = [asked EXCEPT ![n] = machine'[n].lu /\ (@ \/ Expired(n) # {})]
  /\ silence' = [p \in Pipes |-> IF p \in Own(n) /\ MODE(p) = "INCOMING"
                                   THEN UpTo(timeout_EP, silence[p] + 1) ELSE silence[p]]
  /\ taken' = [taken EXCEPT ![n] = InHand(n)]
  /\ UNCHANGED <<setup, writer, rx, at, left>>

-----------------------------------------------------------------------------
(* Around the pipes *)

\* A command, an input or a task of the node posts a request.
Command(n) ==
  /\ \E req \in setup.commands[n] : Post(n, req, Nobody)
  /\ UNCHANGED <<setup, machine, owner, asked, pipes, sending, can>>

Next ==
  \/ \E p \in Pipes : Transmit(p)
  \/ \E n \in Nodes : \/ \E id \in IDs : Foreign(n, id)
                      \/ CanIrq(n) \/ Cycle(n) \/ Command(n)

Spec == Init /\ [][Next]_vars

\* The PWM timer triggers the ADC, procedures are finite (ProcedureEnds of PmFsm)
\* and a pending CAN interrupt is served. The bus need not deliver anything.
Finish(n) ==
  Cycle(n) /\ (machine[n].proc # "IDLE" /\ fsm_req[n] # "HALT" => machine'[n].proc = "IDLE")

FairSpec == Spec /\ \A n \in Nodes : WF_vars(Finish(n)) /\ WF_vars(CanIrq(n))

-----------------------------------------------------------------------------
\* A machine that a frame started is watched: until a pipe asks to stop it, the
\* pipe that started it is active, or on its way to become so, and counts the
\* silence. This holds although ACTIVE is written by two interrupts and each
\* of them, commands and faults stop and start the machine in between.
Watched ==
  \A n \in Nodes : machine[n].lu /\ owner[n] # Nobody /\ ~ asked[n] =>
    ACTIVE[owner[n]] \/ (at[n] = "activate" /\ Current(n) = owner[n])

\* A pipe gives up only after the time without a frame, however often the machine
\* was started, by whom, and stopped since its last frame.
GivesUpOnSilence ==
  [][\A n \in Nodes, p \in Pipes :
       at' = at /\ ACTIVE[p] /\ ~ ACTIVE'[p] => silence[p] + 1 >= timeout_EP]_vars

\* A frame that injects an answer gets one: until then the answer is due, although
\* the mailboxes may be full and both interrupts send and clear the flag.
AnswerIsDue == \A p \in Pipes : owed[p] => tx_flag[p]

\* A machine that follows the frames of another node stops for good when that
\* node does, although frames are lost, late or still in a mailbox by then.
Follows(n) ==
  /\ setup.foreign = {} /\ setup.commands[n] \subseteq {"HALT"}
  /\ \E m \in Nodes \ {n} :
       /\ \A p \in Own(m) : MODE(p) = "OUTGOING_REGULAR" => STARTUP(p)
       /\ <>[](~ machine[m].lu)

FollowerStops == \A n \in Nodes : Follows(n) => <>[](~ machine[n].lu)
=============================================================================
