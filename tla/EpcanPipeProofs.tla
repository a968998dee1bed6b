-------------------------- MODULE EpcanPipeProofs --------------------------
(***************************************************************************)
(* Proofs about EpcanPipe, for every number of nodes, pipes and mailboxes, *)
(* every configuration of the pipes and every time of silence.             *)
(***************************************************************************)
EXTENDS EpcanPipe, FiniteSetTheorems, TLAPS

USE PipesAssumption

\* The least of a set of pipes: the order in which the interrupts take them.
LEMMA SmallestOf ==
  ASSUME NEW S \in SUBSET Nat, S # {}
  PROVE  \E p \in S : \A q \in S : p <= q
<1> DEFINE R == OpToRel(<, Nat)
<1>1. IsWellFoundedOn(R, Nat)
  BY NatLessThanWellFounded
<1>2. \A x, y \in Nat : x < y => <<x, y>> \in R
  BY DEF OpToRel
<1> HIDE DEF R
<1>3. PICK p \in S : \A q \in S : ~ (<<q, p>> \in R)
  BY <1>1, WFMin
<1>4. \A q \in S : ~ (q < p)
  BY <1>2, <1>3
<1>5. \A q \in S : p <= q
  BY <1>4
<1> QED
  BY <1>5

LEMMA CurrentIsLeft ==
  ASSUME TypeOK, NEW n \in Nodes, at[n] # "idle"
  PROVE  Current(n) \in left[n] /\ Current(n) \in Own(n) /\ Current(n) \in Pipes
<1>1. left[n] # {} /\ left[n] \subseteq Own(n) /\ left[n] \subseteq Pipes
  BY DEF TypeOK, Own
<1>2. \E p \in left[n] : \A q \in left[n] : p <= q
  BY <1>1, SmallestOf
<1> QED
  BY <1>1, <1>2 DEF Current

\* The configuration is fixed, and with it what the pipes are.
LEMMA SetupFixed ==
  ASSUME [Next]_vars
  PROVE  /\ setup' = setup
         /\ \A p : (MODE(p))' = MODE(p) /\ (STARTUP(p))' = STARTUP(p)
         /\ \A n : (Own(n))' = Own(n) /\ \A id : (Matching(n, id))' = Matching(n, id)
<1>1. setup' = setup
  BY DEF Next, vars, Transmit, Foreign, CanIrq, Receive, MatchIncoming, TestStart, PostStart,
         Activate, MatchInjected, SendInjected, SentInjected, Cycle, Command
<1> QED
  BY <1>1 DEF MODE, STARTUP, Own, Matching

\* What each pipe is, and whose.
LEMMA Configured ==
  ASSUME setup \in Setups
  PROVE  /\ \A p \in Pipes : MODE(p) \in Modes /\ setup.ep[p].ID \in IDs
                             /\ setup.ep[p].node \in Nodes
         /\ \A n : Own(n) \subseteq Pipes
         /\ \A n, m \in Nodes : n # m => Own(n) \cap Own(m) = {}
         /\ \A n, id : Matching(n, id) \subseteq Own(n)
BY DEF Endpoints, MODE, Own, Matching

-----------------------------------------------------------------------------
(* Types *)

MachineTypes ==
  /\ machine \in [Nodes -> Machines] /\ fsm_req \in [Nodes -> Requests \cup {"IDLE"}]
  /\ writer \in [Nodes -> Pipes \cup {Nobody}] /\ owner \in [Nodes -> Pipes \cup {Nobody}]
  /\ asked \in [Nodes -> BOOLEAN]

PipeTypes ==
  /\ ACTIVE \in [Pipes -> BOOLEAN] /\ tx_clock \in [Pipes -> Nat]
  /\ \A p \in Pipes : MODE(p) = "INCOMING" => tx_clock[p] < timeout_EP
  /\ silence \in [Pipes -> 0 .. timeout_EP]

SendTypes ==
  /\ tx_flag \in [Pipes -> BOOLEAN] /\ mbox \in [Pipes -> Nat] /\ owed \in [Pipes -> BOOLEAN]
  /\ \A n \in Nodes : Cardinality(Waiting(n)) <= Mailboxes

CanTypes ==
  /\ rx \in [Nodes -> SUBSET IDs] /\ taken \in [Nodes -> SUBSET IDs]
  /\ at \in [Nodes -> Labels] /\ left \in [Nodes -> SUBSET Pipes]
  /\ \A n \in Nodes : left[n] \subseteq Own(n) /\ (at[n] = "idle" <=> left[n] = {})

\* A frame that was received is for some pipe of the node.
Arrivals == \A n \in Nodes : \A id \in rx[n] : Matching(n, id) # {}

LEMMA TypesOfParts ==
  TypeOK <=> setup \in Setups /\ MachineTypes /\ PipeTypes /\ SendTypes /\ CanTypes
BY DEF TypeOK, MachineTypes, PipeTypes, SendTypes, CanTypes

LEMMA AfterType ==
  ASSUME NEW m \in Machines, NEW req
  PROVE  /\ After(m, req) \subseteq Machines
         /\ \A k \in After(m, req) : k.lu /\ ~ m.lu => req = "LU_STARTUP"
<1>1. m.lu \in BOOLEAN /\ m.proc \in Procs
  BY DEF Machines
<1>2. ASSUME NEW k \in Progress(m)
      PROVE  k \in Machines /\ ~ (k.lu /\ ~ m.lu)
  <2>1. CASE k = m
    BY <2>1
  <2>2. CASE k = [lu |-> m.lu /\ m.proc # "LU_SHUTDOWN", proc |-> "IDLE"]
    BY <1>1, <2>2 DEF Machines, Procs
  <2>3. CASE k = [m EXCEPT !.lu = FALSE]
    BY <1>1, <2>3 DEF Machines
  <2> QED
    BY <1>2, <2>1, <2>2, <2>3 DEF Progress
<1>3. ASSUME NEW k \in Taken(m, req), Accepts(m, req)
      PROVE  k \in Machines /\ (k.lu /\ ~ m.lu => req = "LU_STARTUP")
  <2>1. CASE req = "LU_STARTUP"
    <3>1. k \in {[lu |-> TRUE, proc |-> "IDLE"], [lu |-> FALSE, proc |-> "IDLE"],
                 [lu |-> FALSE, proc |-> "BUSY"]}
      BY <1>3, <2>1 DEF Taken, Stopped
    <3>2. \A lu \in BOOLEAN, proc \in Procs : [lu |-> lu, proc |-> proc] \in Machines
      BY DEF Machines
    <3>3. k \in Machines
      BY <3>1, <3>2 DEF Procs
    <3> QED
      BY <2>1, <3>3
  <2>2. CASE req = "LU_SHUTDOWN"
    BY <1>1, <1>3, <2>2 DEF Taken, Machines, Procs
  <2>3. CASE req = "PROBE"
    BY <1>1, <1>3, <2>3 DEF Taken, Machines, Procs
  <2>4. CASE req = "HALT"
    <3>1. k = [lu |-> FALSE, proc |-> "BUSY"]
      BY <1>3, <2>4 DEF Taken
    <3> QED
      BY <3>1 DEF Machines, Procs
  <2>5. req \in {"LU_STARTUP", "LU_SHUTDOWN", "PROBE", "HALT"}
    BY <1>3 DEF Accepts
  <2> QED
    BY <2>1, <2>2, <2>3, <2>4, <2>5
<1> QED
  BY <1>2, <1>3 DEF After

LEMMA FeedbackType ==
  ASSUME TypeOK, NEW n \in Nodes, Feedback(n)
  PROVE  /\ machine' \in [Nodes -> Machines] /\ owner' \in [Nodes -> Pipes \cup {Nobody}]
         /\ \A m \in Nodes : m # n => machine'[m] = machine[m] /\ owner'[m] = owner[m]
         /\ owner'[n] = IF machine'[n].lu /\ ~ machine[n].lu THEN writer[n] ELSE owner[n]
         /\ machine'[n].lu /\ ~ machine[n].lu => fsm_req[n] = "LU_STARTUP"
<1>1. PICK req \in {fsm_req[n], "HALT"}, m \in Machines :
        m \in After(machine[n], req) /\ machine' = [machine EXCEPT ![n] = m]
  BY DEF Feedback
<1>2. machine \in [Nodes -> Machines] /\ writer \in [Nodes -> Pipes \cup {Nobody}]
      /\ owner \in [Nodes -> Pipes \cup {Nobody}]
  BY DEF TypeOK
<1>3. machine' \in [Nodes -> Machines] /\ machine'[n] = m
      /\ \A k \in Nodes : k # n => machine'[k] = machine[k]
  BY <1>1, <1>2
<1>4. m.lu /\ ~ machine[n].lu => fsm_req[n] = "LU_STARTUP"
  BY <1>1, <1>2, AfterType
<1>5. owner' = [owner EXCEPT ![n] = IF machine'[n].lu /\ ~ machine[n].lu THEN writer[n] ELSE @]
  BY DEF Feedback
<1>6. owner' \in [Nodes -> Pipes \cup {Nobody}]
  BY <1>2, <1>5
<1> QED
  BY <1>2, <1>3, <1>4, <1>5, <1>6

LEMMA MachineTypesStep ==
  ASSUME TypeOK, [Next]_vars
  PROVE  MachineTypes'
<1>1. MachineTypes
  BY TypesOfParts
<1>2. ASSUME NEW n \in Nodes, NEW req \in Requests, NEW who \in Pipes \cup {Nobody},
             Post(n, req, who), UNCHANGED <<machine, owner, asked>>
      PROVE  MachineTypes'
  BY <1>1, <1>2 DEF MachineTypes, Post
<1>3. ASSUME NEW n \in Nodes, Command(n) PROVE MachineTypes'
  <2>1. PICK req \in setup.commands[n] : Post(n, req, Nobody)
    BY <1>3 DEF Command
  <2>2. req \in Requests
    BY <2>1 DEF TypeOK
  <2> QED
    BY <1>2, <1>3, <2>1, <2>2 DEF Command
<1>4. ASSUME NEW n \in Nodes, PostStart(n, Current(n)), at[n] # "idle" PROVE MachineTypes'
  <2>1. Current(n) \in Pipes
    BY <1>4, CurrentIsLeft
  <2> QED
    BY <1>2, <1>4, <2>1 DEF PostStart, Requests
<1>5. ASSUME NEW n \in Nodes, Cycle(n) PROVE MachineTypes'
  <2>1. machine' \in [Nodes -> Machines] /\ owner' \in [Nodes -> Pipes \cup {Nobody}]
    BY <1>5, FeedbackType DEF Cycle
  <2>2. fsm_req' \in [Nodes -> Requests \cup {"IDLE"}]
    BY <1>1, <1>5 DEF Cycle, MachineTypes, Requests
  <2>3. machine'[n].lu \in BOOLEAN
    BY <2>1 DEF Machines
  <2>4. asked' \in [Nodes -> BOOLEAN]
    <3>1. (machine'[n].lu /\ (asked[n] \/ Expired(n) # {})) \in BOOLEAN
      OBVIOUS
    <3>2. asked' = [asked EXCEPT ![n] = (machine'[n].lu /\ (@ \/ Expired(n) # {}))]
      BY <1>5 DEF Cycle
    <3> QED
      BY <1>1, <3>1, <3>2 DEF MachineTypes
  <2> QED
    BY <1>1, <1>5, <2>1, <2>2, <2>4 DEF Cycle, MachineTypes
<1>6. CASE UNCHANGED machines
  BY <1>1, <1>6 DEF MachineTypes, machines
<1> QED
  BY <1>3, <1>4, <1>5, <1>6 DEF Next, vars, CanIrq, Transmit, Foreign, Receive, MatchIncoming,
     TestStart, Activate, MatchInjected, SendInjected, SentInjected

\* No pipe counts more cycles than there were without a frame, and one that is not
\* active has counted none.
Ticking ==
  \A p \in Pipes : MODE(p) = "INCOMING" =>
    tx_clock[p] <= silence[p] /\ (~ ACTIVE[p] => tx_clock[p] = 0)

LEMMA PipeStep ==
  ASSUME TypeOK, Ticking, [Next]_vars
  PROVE  PipeTypes' /\ Ticking'
<1>1. PipeTypes /\ MachineTypes /\ \A p : (MODE(p))' = MODE(p)
  BY TypesOfParts, SetupFixed
<1>2. CASE UNCHANGED pipes
  BY <1>1, <1>2 DEF PipeTypes, Ticking, pipes
<1>3. ASSUME NEW n \in Nodes, MatchIncoming(n, Current(n)), at[n] # "idle"
      PROVE  PipeTypes' /\ Ticking'
  <2> DEFINE p == Current(n)
  <2>1. /\ p \in Pipes /\ MODE(p) = "INCOMING"
    BY <1>3, CurrentIsLeft DEF MatchIncoming
  <2> HIDE DEF p
  <2>2. /\ tx_clock' = [tx_clock EXCEPT ![p] = 0] /\ silence' = [silence EXCEPT ![p] = 0]
        /\ ACTIVE' = [ACTIVE EXCEPT ![p] = @ /\ machine[n].lu]
    BY <1>3 DEF MatchIncoming, ClockRestarts, p
  <2>3. ACTIVE' \in [Pipes -> BOOLEAN] /\ \A q \in Pipes : q # p => ACTIVE'[q] = ACTIVE[q]
    <3>1. (ACTIVE[p] /\ machine[n].lu) \in BOOLEAN
      OBVIOUS
    <3> QED
      BY <1>1, <2>2, <3>1 DEF PipeTypes
  <2>4. /\ tx_clock' \in [Pipes -> Nat] /\ silence' \in [Pipes -> 0 .. timeout_EP]
        /\ \A q \in Pipes : q # p => tx_clock'[q] = tx_clock[q] /\ silence'[q] = silence[q]
        /\ tx_clock'[p] = 0 /\ silence'[p] = 0
    BY <1>1, <2>1, <2>2 DEF PipeTypes
  <2>5. Ticking'
    BY <1>1, <2>3, <2>4 DEF Ticking
  <2> QED
    BY <1>1, <2>3, <2>4, <2>5 DEF PipeTypes
<1>4. ASSUME NEW n \in Nodes, Activate(n, Current(n)), at[n] # "idle"
      PROVE  PipeTypes' /\ Ticking'
  <2>1. ACTIVE' = [ACTIVE EXCEPT ![Current(n)] = TRUE] /\ UNCHANGED <<tx_clock, silence>>
    BY <1>4 DEF Activate, BecomesActive
  <2>2. ACTIVE' \in [Pipes -> BOOLEAN]
    BY <1>1, <2>1 DEF PipeTypes
  <2>3. \A q \in Pipes : ACTIVE[q] => ACTIVE'[q]
    BY <1>1, <2>1 DEF PipeTypes
  <2> QED
    BY <1>1, <2>1, <2>2, <2>3 DEF PipeTypes, Ticking
<1>5. ASSUME NEW n \in Nodes, Cycle(n) PROVE PipeTypes' /\ Ticking'
  <2>1. /\ tx_clock' = [p \in Pipes |-> IF p \in Expired(n) \cup Wrapped(n) THEN 0
                               ELSE IF p \in Counting(n) \cup Regular(n) THEN tx_clock[p] + 1
                               ELSE tx_clock[p]]
        /\ ACTIVE' = [p \in Pipes |-> ACTIVE[p] /\ p \notin Expired(n)]
        /\ silence' = [p \in Pipes |-> IF p \in Own(n) /\ MODE(p) = "INCOMING"
                                   THEN UpTo(timeout_EP, silence[p] + 1) ELSE silence[p]]
    BY <1>5 DEF Cycle, Clocks
  <2>2. ACTIVE' \in [Pipes -> BOOLEAN]
    BY <1>1, <2>1 DEF PipeTypes
  <2>3. tx_clock' \in [Pipes -> Nat]
    BY <1>1, <2>1 DEF PipeTypes
  <2>4. silence' \in [Pipes -> 0 .. timeout_EP]
    BY <1>1, <2>1 DEF PipeTypes, UpTo
  <2>5. ASSUME NEW p \in Pipes, MODE(p) = "INCOMING"
        PROVE  /\ tx_clock'[p] < timeout_EP /\ tx_clock'[p] <= silence'[p]
               /\ ~ ACTIVE'[p] => tx_clock'[p] = 0
    <3>1. p \notin Wrapped(n) /\ p \notin Regular(n)
      BY <2>5 DEF Wrapped, Regular
    <3>2. /\ tx_clock[p] \in Nat /\ tx_clock[p] < timeout_EP /\ silence[p] \in 0 .. timeout_EP
          /\ tx_clock[p] <= silence[p] /\ (~ ACTIVE[p] => tx_clock[p] = 0)
      BY <1>1, <2>5 DEF PipeTypes, Ticking
    <3>3. CASE p \in Expired(n)
      BY <2>1, <2>4, <3>3
    <3>4. CASE p \in Counting(n) /\ p \notin Expired(n)
      <4>1. p \in Own(n) /\ ACTIVE[p] /\ tx_clock[p] + 1 < timeout_EP
        BY <3>2, <3>4 DEF Counting, Expired
      <4>2. tx_clock'[p] = tx_clock[p] + 1 /\ silence'[p] = UpTo(timeout_EP, silence[p] + 1)
        BY <2>1, <2>5, <3>1, <3>4, <4>1
      <4>3. ACTIVE'[p]
        BY <2>1, <3>4, <4>1
      <4>4. tx_clock[p] + 1 <= UpTo(timeout_EP, silence[p] + 1)
        BY <3>2, <4>1 DEF UpTo
      <4> QED
        BY <4>1, <4>2, <4>3, <4>4
    <3>5. CASE p \notin Counting(n)
      <4>1. tx_clock'[p] = tx_clock[p] /\ p \notin Expired(n)
        BY <2>1, <3>1, <3>5 DEF Expired
      <4>2. silence'[p] >= silence[p]
        BY <2>1, <3>2 DEF UpTo
      <4>3. silence'[p] \in 0 .. timeout_EP
        BY <2>4
      <4>4. ACTIVE'[p] <=> ACTIVE[p]
        BY <2>1, <4>1
      <4> QED
        BY <3>2, <4>1, <4>2, <4>3, <4>4
    <3> QED
      BY <3>3, <3>4, <3>5
  <2> QED
    BY <1>1, <2>2, <2>3, <2>4, <2>5 DEF PipeTypes, Ticking
<1> QED
  BY <1>2, <1>3, <1>4, <1>5 DEF Next, vars, CanIrq, Transmit, Foreign, Receive, PostStart, Command,
     TestStart, MatchInjected, SendInjected, SentInjected

-----------------------------------------------------------------------------
LEMMA NextPipeTypes ==
  ASSUME CanTypes, NEW n \in Nodes, NextPipe(n), Current(n) \in left[n]
  PROVE  /\ at' \in [Nodes -> Labels] /\ left' \in [Nodes -> SUBSET Pipes]
         /\ \A m \in Nodes : left'[m] \subseteq left[m] /\ (at'[m] = "idle" <=> left'[m] = {})
         /\ \A m \in Nodes : m # n => at'[m] = at[m] /\ left'[m] = left[m]
         /\ left'[n] = left[n] \ {Current(n)} /\ at'[n] \in {"idle", "match"}
<1>1. /\ left' = [left EXCEPT ![n] = @ \ {Current(n)}]
      /\ at' = [at EXCEPT ![n] = IF left[n] = {Current(n)} THEN "idle" ELSE "match"]
  BY DEF NextPipe
<1>2. left' \in [Nodes -> SUBSET Pipes] /\ left'[n] = left[n] \ {Current(n)}
      /\ \A m \in Nodes : m # n => left'[m] = left[m]
  BY <1>1 DEF CanTypes
<1>3. at' \in [Nodes -> Labels] /\ at'[n] = (IF left[n] = {Current(n)} THEN "idle" ELSE "match")
      /\ \A m \in Nodes : m # n => at'[m] = at[m]
  BY <1>1 DEF CanTypes, Labels
<1>4. at'[n] = "idle" <=> left'[n] = {}
  BY <1>2, <1>3
<1> QED
  BY <1>2, <1>3, <1>4 DEF CanTypes

LEMMA GotoTypes ==
  ASSUME CanTypes, NEW n \in Nodes, NEW label \in Labels \ {"idle"}, Goto(n, label), at[n] # "idle"
  PROVE  /\ at' \in [Nodes -> Labels] /\ left' = left
         /\ \A m \in Nodes : m # n => at'[m] = at[m]
         /\ at'[n] = label
BY DEF CanTypes, Goto

\* The pipes that the interrupt has left are pipes for one frame, which it has taken.
OneFrame ==
  \A n \in Nodes : at[n] # "idle" => \E id \in taken[n] : left[n] \subseteq Matching(n, id)

\* The interrupt at work: it goes to another place, or on to the next pipe.
IrqStep(n) ==
  at[n] # "idle" /\ (NextPipe(n) \/ \E label \in Labels \ {"idle"} : Goto(n, label))

LEMMA IrqSteps ==
  ASSUME NEW n \in Nodes, CanIrq(n)
  PROVE  (\E id \in IDs : Receive(n, id)) \/ (IrqStep(n) /\ UNCHANGED <<rx, taken>>)
<1> USE DEF IrqStep, Labels
<1>1. CASE at[n] # "idle" /\ MatchIncoming(n, Current(n))
  BY <1>1 DEF MatchIncoming
<1>2. CASE at[n] # "idle" /\ TestStart(n, Current(n))
  BY <1>2 DEF TestStart
<1>3. CASE at[n] # "idle" /\ PostStart(n, Current(n))
  BY <1>3 DEF PostStart
<1>4. CASE at[n] # "idle" /\ Activate(n, Current(n))
  BY <1>4 DEF Activate
<1>5. CASE at[n] # "idle" /\ MatchInjected(n, Current(n))
  BY <1>5 DEF MatchInjected
<1>6. CASE at[n] # "idle" /\ SendInjected(n, Current(n))
  BY <1>6 DEF SendInjected, SendNow
<1>7. CASE at[n] # "idle" /\ SentInjected(n, Current(n))
  BY <1>7 DEF SentInjected
<1> QED
  BY <1>1, <1>2, <1>3, <1>4, <1>5, <1>6, <1>7 DEF CanIrq

LEMMA CanStep ==
  ASSUME TypeOK, Arrivals, OneFrame, [Next]_vars
  PROVE  CanTypes' /\ Arrivals' /\ OneFrame'
<1>1. CanTypes /\ \A n : (Own(n))' = Own(n) /\ \A id : (Matching(n, id))' = Matching(n, id)
  BY TypesOfParts, SetupFixed
<1>2. /\ \A n : Own(n) \subseteq Pipes
      /\ \A n, id : Matching(n, id) \subseteq Own(n)
      /\ \A p \in Pipes : setup.ep[p].ID \in IDs
  BY Configured DEF TypeOK
<1>3. CASE UNCHANGED can
  BY <1>1, <1>3 DEF CanTypes, Arrivals, OneFrame, can
<1>4. ASSUME NEW p \in Pipes, Transmit(p) PROVE CanTypes' /\ Arrivals' /\ OneFrame'
  <2> DEFINE id == setup.ep[p].ID
  <2>1. PICK missed \in SUBSET (Nodes \ {setup.ep[p].node}) :
          rx' = [n \in Nodes |-> IF n \in missed \cup {setup.ep[p].node} \/ Matching(n, id) = {}
                                   THEN rx[n] ELSE rx[n] \cup {id}]
    BY <1>4 DEF Transmit
  <2>2. UNCHANGED <<taken, at, left>>
    BY <1>4 DEF Transmit
  <2>3. id \in IDs
    BY <1>2
  <2> HIDE DEF id
  <2>4. rx' \in [Nodes -> SUBSET IDs]
    BY <1>1, <2>1, <2>3 DEF CanTypes
  <2>5. Arrivals'
    BY <1>1, <2>1 DEF Arrivals
  <2> QED
    BY <1>1, <2>2, <2>4, <2>5 DEF CanTypes, OneFrame
<1>5. ASSUME NEW n \in Nodes, NEW id \in IDs, Foreign(n, id) PROVE CanTypes' /\ Arrivals' /\ OneFrame'
  <2>1. /\ rx' = [rx EXCEPT ![n] = @ \cup {id}] /\ Matching(n, id) # {}
        /\ UNCHANGED <<taken, at, left>>
    BY <1>5 DEF Foreign
  <2>2. rx' \in [Nodes -> SUBSET IDs]
    BY <1>1, <2>1 DEF CanTypes
  <2>3. Arrivals'
    BY <1>1, <2>1 DEF Arrivals, CanTypes
  <2> QED
    BY <1>1, <2>1, <2>2, <2>3 DEF CanTypes, OneFrame
<1>6. ASSUME NEW n \in Nodes, NEW id \in IDs, Receive(n, id) PROVE CanTypes' /\ Arrivals' /\ OneFrame'
  <2>1. /\ id \in rx[n]
        /\ rx' = [rx EXCEPT ![n] = @ \ {id}] /\ taken' = [taken EXCEPT ![n] = @ \cup {id}]
        /\ left' = [left EXCEPT ![n] = Matching(n, id)] /\ at' = [at EXCEPT ![n] = "match"]
    BY <1>6 DEF Receive
  <2>2. Matching(n, id) # {} /\ Matching(n, id) \in SUBSET Pipes /\ Matching(n, id) \subseteq Own(n)
    BY <1>2, <2>1 DEF Arrivals
  <2>3. rx' \in [Nodes -> SUBSET IDs] /\ \A m \in Nodes : rx'[m] \subseteq rx[m]
    BY <1>1, <2>1 DEF CanTypes
  <2>4. taken' \in [Nodes -> SUBSET IDs] /\ id \in taken'[n]
        /\ \A m \in Nodes : m # n => taken'[m] = taken[m]
    BY <1>1, <2>1 DEF CanTypes
  <2>5. at' \in [Nodes -> Labels] /\ at'[n] = "match" /\ \A m \in Nodes : m # n => at'[m] = at[m]
    BY <1>1, <2>1 DEF CanTypes, Labels
  <2>6. left' \in [Nodes -> SUBSET Pipes] /\ left'[n] = Matching(n, id)
        /\ \A m \in Nodes : m # n => left'[m] = left[m]
    BY <1>1, <2>1, <2>2 DEF CanTypes
  <2>7. Arrivals'
    BY <1>1, <2>3 DEF Arrivals
  <2>8. OneFrame'
    BY <1>1, <2>4, <2>5, <2>6 DEF OneFrame
  <2>9. \A m \in Nodes : left'[m] \subseteq Own(m) /\ (at'[m] = "idle" <=> left'[m] = {})
    BY <1>1, <2>2, <2>5, <2>6 DEF CanTypes
  <2> QED
    BY <1>1, <2>3, <2>4, <2>5, <2>6, <2>7, <2>8, <2>9 DEF CanTypes
<1>7. ASSUME NEW n \in Nodes, IrqStep(n), UNCHANGED <<rx, taken>>
      PROVE  CanTypes' /\ Arrivals' /\ OneFrame'
  <2>1. Current(n) \in left[n] /\ at[n] # "idle"
    BY <1>7, CurrentIsLeft DEF IrqStep
  <2>2. /\ at' \in [Nodes -> Labels] /\ left' \in [Nodes -> SUBSET Pipes]
        /\ \A m \in Nodes : left'[m] \subseteq left[m] /\ (at'[m] = "idle" <=> left'[m] = {})
        /\ \A m \in Nodes : at'[m] # "idle" => at[m] # "idle"
    <3>1. CASE NextPipe(n)
      BY <1>1, <2>1, <3>1, NextPipeTypes
    <3>2. CASE \E label \in Labels \ {"idle"} : Goto(n, label)
      <4>1. PICK label \in Labels \ {"idle"} : Goto(n, label)
        BY <3>2
      <4> QED
        BY <1>1, <2>1, <4>1, GotoTypes DEF CanTypes
    <3> QED
      BY <1>7, <3>1, <3>2 DEF IrqStep
  <2>3. CanTypes'
    BY <1>1, <1>7, <2>2 DEF CanTypes
  <2>4. OneFrame'
    BY <1>1, <1>7, <2>2 DEF OneFrame
  <2> QED
    BY <1>1, <1>7, <2>3, <2>4 DEF Arrivals
<1>8. ASSUME NEW n \in Nodes, Cycle(n) PROVE CanTypes' /\ Arrivals' /\ OneFrame'
  <2>1. taken' = [taken EXCEPT ![n] = InHand(n)] /\ UNCHANGED <<rx, at, left>>
    BY <1>8 DEF Cycle
  <2>2. InHand(n) \subseteq taken[n]
    BY DEF InHand
  <2>3. taken' \in [Nodes -> SUBSET IDs] /\ taken'[n] = InHand(n)
        /\ \A m \in Nodes : m # n => taken'[m] = taken[m]
    BY <1>1, <2>1, <2>2 DEF CanTypes
  <2>4. ASSUME NEW m \in Nodes, at[m] # "idle"
        PROVE  \E id \in taken'[m] : left[m] \subseteq Matching(m, id)
    <3>1. PICK id \in taken[m] : left[m] \subseteq Matching(m, id)
      BY <2>4 DEF OneFrame
    <3>2. Current(m) \in left[m]
      BY <2>4, CurrentIsLeft
    <3>3. id \in taken'[m]
      BY <2>3, <2>4, <3>1, <3>2 DEF InHand
    <3> QED
      BY <3>1, <3>3
  <2>5. OneFrame'
    BY <1>1, <2>1, <2>4 DEF OneFrame
  <2> QED
    BY <1>1, <2>1, <2>3, <2>5 DEF CanTypes, Arrivals
<1> QED
  BY <1>3, <1>4, <1>5, <1>6, <1>7, <1>8, IrqSteps DEF Next, vars, Command

-----------------------------------------------------------------------------
(* The transmit mailboxes *)

\* Of any pipes with frames to send, those with fewer than k before them are k at most.
LEMMA FirstOnes ==
  ASSUME NEW S \in SUBSET Pipes, NEW k \in Nat
  PROVE  /\ IsFiniteSet({p \in S : Cardinality({q \in S : q < p}) < k})
         /\ Cardinality({p \in S : Cardinality({q \in S : q < p}) < k}) <= k
<1> DEFINE Before(p) == {q \in S : q < p}
           T == {p \in S : Cardinality(Before(p)) < k}
<1>1. S \subseteq Nat /\ IsFiniteSet(S)
  BY FS_Subset
<1>2. /\ \A p : Before(p) \subseteq S
      /\ \A p, q \in S : q \in Before(p) <=> q < p
      /\ \A p \in S : p \notin Before(p)
  <2>1. \A p \in S : ~ (p < p)
    BY <1>1
  <2> QED
    BY <2>1
<1>3. T \subseteq S /\ \A p \in T : Cardinality(Before(p)) < k
  OBVIOUS
<1> SUFFICES IsFiniteSet(T) /\ Cardinality(T) <= k
  OBVIOUS
<1> HIDE DEF Before, T
<1>4. \A p : /\ IsFiniteSet(Before(p)) /\ Cardinality(Before(p)) \in Nat
             /\ Cardinality(Before(p)) <= Cardinality(S)
  BY <1>1, <1>2, FS_Subset, FS_CardinalityType
<1>5. IsFiniteSet(T) /\ Cardinality(S) \in Nat /\ Cardinality(T) \in Nat
  BY <1>1, <1>3, FS_Subset, FS_CardinalityType
<1>6. CASE T = {}
  BY <1>5, <1>6, FS_EmptySet
<1>7. CASE T # {}
  <2> DEFINE Rest(p) == Cardinality(S) - Cardinality(Before(p))
             Rests == {Rest(p) : p \in T}
  <2>1. \A p \in T : Rest(p) \in Nat
    BY <1>4, <1>5
  <2> HIDE DEF Rest
  <2>2. Rests \in SUBSET Nat /\ Rests # {}
    BY <1>7, <2>1
  <2>3. PICK r \in Rests : \A s \in Rests : r <= s
    BY <2>2, SmallestOf
  <2>4. PICK p \in T : r = Rest(p)
    BY <2>3
  <2>5. \A q \in T : Rest(p) <= Rest(q)
    BY <2>3, <2>4
  <2>6. IsFiniteSet(Before(p) \cup {p}) /\ Cardinality(Before(p) \cup {p}) = Cardinality(Before(p)) + 1
    BY <1>2, <1>3, <1>4, FS_AddElement
  <2>7. ASSUME NEW q \in T, p < q PROVE FALSE
    <3>1. p \in S /\ q \in S /\ p \in Nat /\ q \in Nat
      BY <1>1, <1>3
    <3>2. \A x \in S : x \in Before(p) => x \in Before(q)
      <4> SUFFICES ASSUME NEW x \in S, x \in Before(p) PROVE x \in Before(q)
        OBVIOUS
      <4>1. x \in Nat /\ x < p
        BY <1>1, <1>2, <3>1
      <4>2. x < q
        BY <2>7, <3>1, <4>1
      <4> QED
        BY <1>2, <3>1, <4>2
    <3>3. Before(p) \cup {p} \subseteq Before(q)
      BY <1>2, <2>7, <3>1, <3>2
    <3>4. Cardinality(Before(p) \cup {p}) <= Cardinality(Before(q))
      BY <1>4, <3>3, FS_Subset
    <3>5. Cardinality(Before(p)) + 1 <= Cardinality(Before(q))
      BY <2>6, <3>4
    <3>6. Cardinality(Before(p)) \in Nat /\ Cardinality(Before(q)) \in Nat
      BY <1>4
    <3>7. Rest(p) <= Rest(q)
      BY <2>5
    <3> QED
      BY <1>5, <3>5, <3>6, <3>7 DEF Rest
  <2>8. T \subseteq Before(p) \cup {p}
    <3> SUFFICES ASSUME NEW q \in T PROVE q \in Before(p) \cup {p}
      OBVIOUS
    <3>1. p \in S /\ q \in S /\ p \in Nat /\ q \in Nat
      BY <1>1, <1>3
    <3>2. ~ (p < q)
      BY <2>7
    <3>3. q = p \/ q < p
      BY <3>1, <3>2
    <3> QED
      BY <1>2, <3>1, <3>3
  <2>9. Cardinality(T) <= Cardinality(Before(p) \cup {p})
    BY <2>6, <2>8, FS_Subset
  <2>10. Cardinality(Before(p)) < k /\ Cardinality(Before(p)) \in Nat
    BY <1>3, <1>4
  <2> QED
    BY <1>5, <2>6, <2>9, <2>10
<1> QED
  BY <1>6, <1>7

LEMMA WaitingFinite ==
  ASSUME TypeOK, NEW n \in Nodes
  PROVE  IsFiniteSet(Waiting(n)) /\ Cardinality(Waiting(n)) \in Nat /\ Free(n) \in Nat
<1>1. IsFiniteSet(Own(n))
  BY FS_Subset DEF Own
<1>2. IsFiniteSet(1 .. Mailboxes)
  BY FS_Interval
<1>3. IsFiniteSet(Own(n) \X (1 .. Mailboxes))
  BY <1>1, <1>2, FS_Product
<1>4. IsFiniteSet(Waiting(n))
  <2>1. Waiting(n) \subseteq Own(n) \X (1 .. Mailboxes)
    BY DEF Waiting
  <2> QED
    BY <1>3, <2>1, FS_Subset
<1>5. Cardinality(Waiting(n)) \in Nat
  BY <1>4, FS_CardinalityType
<1> QED
  BY <1>4, <1>5 DEF Free, TypeOK

\* What a node sends, one frame of each of some pipes, fits if there are mailboxes for it.
LEMMA SentFits ==
  ASSUME TypeOK, [Next]_vars, NEW n \in Nodes, mbox' \in [Pipes -> Nat],
         NEW sent \in SUBSET Pipes, IsFiniteSet(sent), Cardinality(sent) <= Free(n),
         \A p \in Pipes : mbox'[p] <= IF p \in sent THEN mbox[p] + 1 ELSE mbox[p]
  PROVE  Cardinality((Waiting(n))') <= Mailboxes
<1> DEFINE last == [p \in sent |-> <<p, mbox[p] + 1>>]
           new == {last[p] : p \in sent}
<1>1. last \in Surjection(sent, new)
  BY DEF Surjection
<1>2. IsFiniteSet(new) /\ Cardinality(new) <= Cardinality(sent)
  BY <1>1, FS_Surjection
<1>3. (Waiting(n))' \subseteq Waiting(n) \cup new
  <2> SUFFICES ASSUME NEW f \in (Waiting(n))', f \notin Waiting(n) PROVE f \in new
    OBVIOUS
  <2>1. f \in Own(n) \X (1 .. Mailboxes) /\ f[2] <= mbox'[f[1]]
    BY SetupFixed DEF Waiting
  <2>2. f = <<f[1], f[2]>> /\ f[1] \in Pipes /\ f[2] \in Nat
    BY <2>1 DEF Own
  <2>3. ~ (f[2] <= mbox[f[1]]) /\ mbox[f[1]] \in Nat /\ mbox'[f[1]] \in Nat
    BY <2>1, <2>2 DEF Waiting, TypeOK
  <2>4. mbox'[f[1]] <= IF f[1] \in sent THEN mbox[f[1]] + 1 ELSE mbox[f[1]]
    BY <2>2
  <2>5. f[1] \in sent /\ f[2] = mbox[f[1]] + 1
    BY <2>1, <2>2, <2>3, <2>4
  <2>6. f = last[f[1]]
    BY <2>2, <2>5
  <2> QED
    BY <2>5, <2>6
<1>4. IsFiniteSet(Waiting(n)) /\ Cardinality(Waiting(n)) \in Nat
  BY WaitingFinite
<1> HIDE DEF new
<1>5. IsFiniteSet(Waiting(n) \cup new)
      /\ Cardinality(Waiting(n) \cup new) =
           Cardinality(Waiting(n)) + Cardinality(new) - Cardinality(Waiting(n) \cap new)
  BY <1>2, <1>4, FS_Union
<1>6. IsFiniteSet(Waiting(n) \cap new)
  BY <1>4, FS_Intersection
<1>7. Cardinality(new) \in Nat /\ Cardinality(Waiting(n) \cap new) \in Nat /\ Cardinality(sent) \in Nat
      /\ Cardinality(Waiting(n) \cup new) \in Nat
  BY <1>2, <1>5, <1>6, FS_CardinalityType
<1>8. IsFiniteSet((Waiting(n))') /\ Cardinality((Waiting(n))') <= Cardinality(Waiting(n) \cup new)
  BY <1>3, <1>5, FS_Subset
<1>9. Cardinality((Waiting(n))') \in Nat
  BY <1>8, FS_CardinalityType
<1> QED
  BY <1>2, <1>4, <1>5, <1>7, <1>8, <1>9 DEF Free

LEMMA FreeFits ==
  ASSUME TypeOK, NEW n \in Nodes, Free(n) > 0, NEW p
  PROVE  IsFiniteSet({p}) /\ Cardinality({p}) <= Free(n)
<1>1. IsFiniteSet({p}) /\ Cardinality({p}) = 1
  BY FS_Singleton
<1>2. Free(n) \in Nat
  BY WaitingFinite
<1> QED
  BY <1>1, <1>2

\* Each step but the sending of a frame leaves the mailboxes as they are, or emptier.
LEMMA NothingSent ==
  ASSUME TypeOK, [Next]_vars, mbox' \in [Pipes -> Nat], \A p \in Pipes : mbox'[p] <= mbox[p],
         NEW n \in Nodes
  PROVE  Cardinality((Waiting(n))') <= Mailboxes
<1>1. IsFiniteSet({}) /\ Cardinality({}) <= Free(n)
  BY FS_EmptySet, WaitingFinite
<1>2. \A p \in Pipes : mbox'[p] <= IF p \in {} THEN mbox[p] + 1 ELSE mbox[p]
  OBVIOUS
<1> QED
  BY <1>1, <1>2, SentFits

LEMMA OtherNodesMailboxes ==
  ASSUME TypeOK, [Next]_vars, NEW n \in Nodes, NEW m \in Nodes, m # n,
         \A p \in Pipes \ Own(n) : mbox'[p] = mbox[p]
  PROVE  Cardinality((Waiting(m))') <= Mailboxes
<1>1. \A p \in Own(m) : mbox'[p] = mbox[p]
  BY Configured DEF TypeOK
<1>2. (Waiting(m))' = Waiting(m)
  BY <1>1, SetupFixed DEF Waiting
<1> QED
  BY <1>2 DEF TypeOK

LEMMA CycleSends ==
  ASSUME TypeOK, NEW n \in Nodes, Cycle(n)
  PROVE  SendTypes' /\ (AnswerIsDue => AnswerIsDue')
<1> DEFINE sent == {p \in Flagged(n) : Cardinality({q \in Flagged(n) : q < p}) < Free(n)}
<1>1. /\ mbox' = [p \in Pipes |-> IF p \in sent THEN mbox[p] + 1 ELSE mbox[p]]
      /\ tx_flag' = [p \in Pipes |-> IF p \in Flagged(n) THEN p \notin sent ELSE tx_flag[p]]
      /\ owed' = [p \in Pipes |-> owed[p] /\ p \notin sent]
  BY DEF Cycle, Send
<1>2. SendTypes /\ [Next]_vars
  BY TypesOfParts DEF Next
<1>3. Flagged(n) \subseteq Own(n) /\ Flagged(n) \in SUBSET Pipes
  BY DEF Flagged, Due, Wrapped, Regular, Own
<1>4. IsFiniteSet(sent) /\ Cardinality(sent) <= Free(n)
  BY <1>3, WaitingFinite, FirstOnes
<1>5. sent \in SUBSET Pipes /\ sent \subseteq Own(n)
  BY <1>3
<1> HIDE DEF sent
<1>6. mbox' \in [Pipes -> Nat]
  BY <1>1, <1>2 DEF SendTypes
<1>7. tx_flag' \in [Pipes -> BOOLEAN]
  <2>1. \A p \in Pipes : (IF p \in Flagged(n) THEN p \notin sent ELSE tx_flag[p]) \in BOOLEAN
    BY <1>2 DEF SendTypes
  <2> QED
    BY <1>1, <2>1
<1>8. owed' \in [Pipes -> BOOLEAN]
  <2>1. \A p \in Pipes : (owed[p] /\ p \notin sent) \in BOOLEAN
    OBVIOUS
  <2> QED
    BY <1>1, <2>1
<1>9. Cardinality((Waiting(n))') <= Mailboxes
  <2>1. \A p \in Pipes : mbox'[p] <= IF p \in sent THEN mbox[p] + 1 ELSE mbox[p]
    BY <1>1, <1>6
  <2> QED
    BY <1>2, <1>4, <1>5, <1>6, <2>1, SentFits
<1>10. ASSUME NEW m \in Nodes, m # n PROVE Cardinality((Waiting(m))') <= Mailboxes
  <2>1. \A p \in Pipes \ Own(n) : mbox'[p] = mbox[p]
    BY <1>1, <1>5
  <2> QED
    BY <1>2, <1>10, <2>1, OtherNodesMailboxes
<1>11. ASSUME AnswerIsDue, NEW p \in Pipes, owed'[p] PROVE tx_flag'[p]
  <2>1. owed[p] /\ p \notin sent
    BY <1>1, <1>11
  <2>2. tx_flag[p]
    BY <1>11, <2>1 DEF AnswerIsDue
  <2> QED
    BY <1>1, <2>1, <2>2
<1>12. AnswerIsDue => AnswerIsDue'
  BY <1>11 DEF AnswerIsDue
<1> QED
  BY <1>6, <1>7, <1>8, <1>9, <1>10, <1>12 DEF SendTypes

\* Between the sending of an answer and the clearing of its flag nothing is owed.
Answered == \A n \in Nodes : at[n] = "sent" => ~ owed[Current(n)]

LEMMA SendStep ==
  ASSUME TypeOK, AnswerIsDue, Answered, [Next]_vars
  PROVE  SendTypes' /\ AnswerIsDue' /\ Answered'
<1>1. SendTypes /\ CanTypes /\ \A n : (Own(n))' = Own(n)
  BY TypesOfParts, SetupFixed
<1>2. \A n : left'[n] = left[n] => (Current(n))' = Current(n)
  BY DEF Current
<1>3. \A n \in Nodes : at[n] # "idle" => Current(n) \in Own(n) /\ Current(n) \in Pipes
  BY CurrentIsLeft
<1>4. \A n, m \in Nodes : n # m => Own(n) \cap Own(m) = {}
  BY Configured DEF TypeOK
<1>5. ASSUME UNCHANGED sending, \A n \in Nodes : at'[n] = "sent" => at[n] = "sent" /\ left'[n] = left[n]
      PROVE  SendTypes' /\ AnswerIsDue' /\ Answered'
  <2>1. SendTypes'
    BY <1>1, <1>5 DEF SendTypes, sending, Waiting
  <2> QED
    BY <1>2, <1>5, <2>1 DEF AnswerIsDue, Answered, sending
<1>6. ASSUME NEW n \in Nodes, NextPipe(n), at[n] # "idle"
      PROVE  \A m \in Nodes : at'[m] = "sent" => at[m] = "sent" /\ left'[m] = left[m]
  BY <1>1, <1>6, CurrentIsLeft, NextPipeTypes
<1>7. ASSUME NEW n \in Nodes, NEW label \in Labels \ {"idle", "sent"}, Goto(n, label), at[n] # "idle"
      PROVE  \A m \in Nodes : at'[m] = "sent" => at[m] = "sent" /\ left'[m] = left[m]
  BY <1>1, <1>7, GotoTypes
<1>8. ASSUME NEW p \in Pipes, Transmit(p) PROVE SendTypes' /\ AnswerIsDue' /\ Answered'
  <2>1. mbox[p] > 0 /\ mbox' = [mbox EXCEPT ![p] = @ - 1] /\ UNCHANGED <<tx_flag, owed, at, left>>
    BY <1>8 DEF Transmit
  <2>2. mbox' \in [Pipes -> Nat] /\ \A q \in Pipes : mbox'[q] <= mbox[q]
    BY <1>1, <2>1 DEF SendTypes
  <2>3. SendTypes'
    BY <1>1, <2>1, <2>2, NothingSent DEF SendTypes
  <2> QED
    BY <1>2, <2>1, <2>3 DEF AnswerIsDue, Answered
<1>9. ASSUME NEW n \in Nodes, at[n] # "idle", MatchInjected(n, Current(n))
      PROVE  SendTypes' /\ AnswerIsDue' /\ Answered'
  <2>1. /\ tx_flag' = [tx_flag EXCEPT ![Current(n)] = TRUE]
        /\ owed' = [owed EXCEPT ![Current(n)] = TRUE]
        /\ UNCHANGED mbox /\ Goto(n, "send")
    BY <1>9 DEF MatchInjected
  <2>2. Current(n) \in Own(n) /\ Current(n) \in Pipes
    BY <1>3, <1>9
  <2>3. SendTypes'
    BY <1>1, <2>1 DEF SendTypes, Waiting
  <2>4. AnswerIsDue'
    BY <1>1, <2>1, <2>2 DEF SendTypes, AnswerIsDue
  <2>5. ASSUME NEW m \in Nodes, at'[m] = "sent" PROVE ~ owed'[(Current(m))']
    <3>1. m # n /\ at[m] = "sent" /\ left'[m] = left[m]
      BY <1>1, <1>9, <2>1, <2>5, GotoTypes DEF Labels
    <3>2. (Current(m))' = Current(m) /\ Current(m) \in Own(m)
      BY <1>2, <1>3, <3>1
    <3>3. Current(m) # Current(n)
      BY <1>4, <2>2, <3>1, <3>2
    <3>4. owed'[Current(m)] = owed[Current(m)]
      BY <1>1, <1>3, <2>1, <3>1, <3>3 DEF SendTypes
    <3> QED
      BY <3>1, <3>2, <3>4 DEF Answered
  <2>6. Answered'
    BY <2>5 DEF Answered
  <2> QED
    BY <2>3, <2>4, <2>6
<1>10. ASSUME NEW n \in Nodes, at[n] # "idle", SendInjected(n, Current(n))
       PROVE  SendTypes' /\ AnswerIsDue' /\ Answered'
  <2>1. at[n] = "send" /\ SendNow(n, Current(n)) /\ UNCHANGED tx_flag
    BY <1>10 DEF SendInjected
  <2>2. Current(n) \in Own(n) /\ Current(n) \in Pipes
    BY <1>3, <1>10
  <2>3. CASE Free(n) > 0
    <3>1. /\ mbox' = [mbox EXCEPT ![Current(n)] = @ + 1]
          /\ owed' = [owed EXCEPT ![Current(n)] = FALSE] /\ Goto(n, "sent")
      BY <2>1, <2>3 DEF SendNow
    <3>2. mbox' \in [Pipes -> Nat] /\ owed' \in [Pipes -> BOOLEAN]
      <4>1. mbox \in [Pipes -> Nat] /\ owed \in [Pipes -> BOOLEAN]
        BY <1>1 DEF SendTypes
      <4>2. \A p \in Pipes : [mbox EXCEPT ![p] = @ + 1] \in [Pipes -> Nat]
        BY <4>1
      <4>3. mbox' \in [Pipes -> Nat]
        BY <2>2, <3>1, <4>2
      <4> QED
        BY <3>1, <4>1, <4>3
    <3>3. Cardinality((Waiting(n))') <= Mailboxes
      <4>1. {Current(n)} \in SUBSET Pipes /\ IsFiniteSet({Current(n)})
            /\ Cardinality({Current(n)}) <= Free(n)
        BY <2>2, <2>3, FreeFits
      <4>2. \A p \in Pipes : mbox'[p] <= IF p \in {Current(n)} THEN mbox[p] + 1 ELSE mbox[p]
        BY <1>1, <3>1 DEF SendTypes
      <4> QED
        BY <3>2, <4>1, <4>2, SentFits
    <3>4. ASSUME NEW m \in Nodes, m # n PROVE Cardinality((Waiting(m))') <= Mailboxes
      <4>1. \A p \in Pipes \ Own(n) : mbox'[p] = mbox[p]
        BY <1>1, <2>2, <3>1 DEF SendTypes
      <4> QED
        BY <3>4, <4>1, OtherNodesMailboxes
    <3>5. SendTypes'
      BY <1>1, <2>1, <3>2, <3>3, <3>4 DEF SendTypes
    <3>6. \A p \in Pipes : owed'[p] => owed[p]
      BY <1>1, <3>1 DEF SendTypes
    <3>7. AnswerIsDue'
      BY <2>1, <3>6 DEF AnswerIsDue
    <3>8. ASSUME NEW m \in Nodes, at'[m] = "sent" PROVE ~ owed'[(Current(m))']
      <4>1. left' = left
        BY <3>1 DEF Goto
      <4>2. CASE m = n
        BY <1>1, <1>2, <2>2, <3>1, <4>1, <4>2 DEF SendTypes
      <4>3. CASE m # n
        <5>1. at[m] = "sent"
          BY <1>1, <1>10, <3>1, <3>8, <4>3, GotoTypes DEF Labels
        <5> QED
          BY <1>2, <1>3, <3>6, <4>1, <5>1 DEF Answered
      <4> QED
        BY <4>2, <4>3
    <3>9. Answered'
      BY <3>8 DEF Answered
    <3> QED
      BY <3>5, <3>7, <3>9
  <2>4. CASE ~ (Free(n) > 0)
    <3>1. UNCHANGED sending /\ NextPipe(n)
      BY <2>1, <2>4 DEF SendNow, sending
    <3> QED
      BY <1>5, <1>6, <1>10, <3>1
  <2> QED
    BY <2>3, <2>4
<1>11. ASSUME NEW n \in Nodes, at[n] # "idle", SentInjected(n, Current(n))
       PROVE  SendTypes' /\ AnswerIsDue' /\ Answered'
  <2>1. /\ at[n] = "sent" /\ tx_flag' = [tx_flag EXCEPT ![Current(n)] = FALSE] /\ NextPipe(n)
        /\ UNCHANGED <<mbox, owed>>
    BY <1>11 DEF SentInjected
  <2>2. SendTypes'
    BY <1>1, <2>1 DEF SendTypes, Waiting
  <2>3. ~ owed[Current(n)]
    BY <2>1 DEF Answered
  <2>4. AnswerIsDue'
    BY <1>1, <2>1, <2>3 DEF SendTypes, AnswerIsDue
  <2>5. Answered'
    BY <1>2, <1>6, <1>11, <2>1 DEF Answered
  <2> QED
    BY <2>2, <2>4, <2>5
<1>12. ASSUME NEW n \in Nodes, Cycle(n) PROVE SendTypes' /\ AnswerIsDue' /\ Answered'
  <2>1. UNCHANGED <<at, left>> /\ \A p \in Pipes : owed'[p] => owed[p]
    BY <1>12 DEF Cycle, Send
  <2>2. Answered'
    BY <1>2, <1>3, <2>1 DEF Answered
  <2> QED
    BY <1>12, <2>2, CycleSends
<1>13. ASSUME NEW n \in Nodes, NEW id \in IDs, Receive(n, id)
       PROVE  SendTypes' /\ AnswerIsDue' /\ Answered'
  <2>1. UNCHANGED sending /\ \A m \in Nodes : at'[m] = "sent" => at[m] = "sent" /\ left'[m] = left[m]
    BY <1>1, <1>13 DEF Receive, CanTypes
  <2> QED
    BY <1>5, <2>1
<1>14. ASSUME NEW n \in Nodes, at[n] # "idle", UNCHANGED sending,
              NextPipe(n) \/ \E label \in Labels \ {"idle", "sent"} : Goto(n, label)
       PROVE  SendTypes' /\ AnswerIsDue' /\ Answered'
  BY <1>5, <1>6, <1>7, <1>14
<1>15. CASE UNCHANGED <<sending, at, left>>
  BY <1>5, <1>15
<1> QED
  BY <1>8, <1>9, <1>10, <1>11, <1>12, <1>13, <1>14, <1>15 DEF Next, vars, CanIrq, Labels,
     Foreign, Command, can, MatchIncoming, TestStart, PostStart, Activate

-----------------------------------------------------------------------------
IInv == TypeOK /\ Ticking /\ Arrivals /\ OneFrame /\ AnswerIsDue /\ Answered

LEMMA InitIInv == Init => IInv
<1> SUFFICES ASSUME Init PROVE IInv
  OBVIOUS
<1>1. MachineTypes
  BY DEF Init, MachineTypes, Machines, Procs, Stopped
<1>2. PipeTypes /\ Ticking
  BY DEF Init, PipeTypes, Ticking
<1>3. SendTypes
  <2>1. ASSUME NEW n \in Nodes PROVE Cardinality(Waiting(n)) <= Mailboxes
    <3>1. Waiting(n) = {}
      <4> SUFFICES ASSUME NEW f \in Waiting(n) PROVE FALSE
        OBVIOUS
      <4>1. f[1] \in Pipes /\ f[2] \in 1 .. Mailboxes /\ f[2] <= mbox[f[1]]
        BY DEF Waiting, Own
      <4>2. mbox[f[1]] = 0
        BY <4>1 DEF Init
      <4> QED
        BY <4>1, <4>2
    <3> QED
      BY <3>1, FS_EmptySet
  <2> QED
    BY <2>1 DEF Init, SendTypes
<1>4. CanTypes /\ Arrivals /\ OneFrame
  BY DEF Init, CanTypes, Labels, Arrivals, OneFrame
<1>5. AnswerIsDue /\ Answered
  BY DEF Init, AnswerIsDue, Answered
<1>6. setup \in Setups
  BY DEF Init
<1> QED
  BY <1>1, <1>2, <1>3, <1>4, <1>5, <1>6, TypesOfParts DEF IInv

LEMMA StepIInv == IInv /\ [Next]_vars => IInv'
<1> SUFFICES ASSUME IInv, [Next]_vars PROVE IInv'
  OBVIOUS
<1>1. MachineTypes'
  BY MachineTypesStep DEF IInv
<1>2. PipeTypes' /\ Ticking'
  BY PipeStep DEF IInv
<1>3. SendTypes' /\ AnswerIsDue' /\ Answered'
  BY SendStep DEF IInv
<1>4. CanTypes' /\ Arrivals' /\ OneFrame'
  BY CanStep DEF IInv
<1>5. setup' \in Setups
  BY SetupFixed DEF IInv, TypeOK
<1>6. TypeOK'
  BY <1>1, <1>2, <1>3, <1>4, <1>5 DEF TypeOK, MachineTypes, PipeTypes, SendTypes, CanTypes
<1> QED
  BY <1>2, <1>3, <1>4, <1>6 DEF IInv

\* No variable leaves its type; in particular a node has never more frames in its
\* mailboxes than there are, although two interrupts fill them, and no clock of a pipe
\* passes the time of silence.
THEOREM TypeCorrect == Spec => []TypeOK
<1>1. IInv => TypeOK
  BY DEF IInv
<1> QED
  BY <1>1, InitIInv, StepIInv, PTL DEF Spec

\* An injected answer is sent or due, in every interleaving of the two interrupts, for
\* every number of mailboxes and of pipes that compete for them.
THEOREM AnswerCorrect == Spec => []AnswerIsDue
<1>1. IInv => AnswerIsDue
  BY DEF IInv
<1> QED
  BY <1>1, InitIInv, StepIInv, PTL DEF Spec

\* An active pipe is put out by the cycle that has counted the time of silence to its
\* end, or by the frame that finds its machine stopped; and then at changes.
LEMMA StepGivesUp ==
  ASSUME IInv, [Next]_vars, at' = at, NEW n \in Nodes, NEW p \in Pipes, ACTIVE[p], ~ ACTIVE'[p]
  PROVE  silence[p] + 1 >= timeout_EP
<1>1. TypeOK /\ PipeTypes /\ CanTypes
  BY TypesOfParts DEF IInv
<1>2. ASSUME NEW m \in Nodes, NEW label \in Labels, Goto(m, label) PROVE at[m] = label
  <2>1. at'[m] = label
    BY <1>1, <1>2 DEF Goto, CanTypes
  <2> QED
    BY <2>1
<1>3. ASSUME NEW m \in Nodes, Cycle(m) PROVE silence[p] + 1 >= timeout_EP
  <2>1. ACTIVE'[p] = (ACTIVE[p] /\ p \notin Expired(m))
    BY <1>3 DEF Cycle
  <2>2. p \in Expired(m)
    BY <2>1
  <2>3. MODE(p) = "INCOMING" /\ tx_clock[p] + 1 >= timeout_EP
    BY <2>2 DEF Expired, Counting
  <2> QED
    BY <1>1, <2>3 DEF IInv, Ticking, PipeTypes
<1>4. ASSUME NEW m \in Nodes, at[m] # "idle", MatchIncoming(m, Current(m)) PROVE FALSE
  BY <1>2, <1>4 DEF MatchIncoming, Labels
<1>5. ASSUME NEW m \in Nodes, at[m] # "idle", Activate(m, Current(m)) PROVE FALSE
  <2>1. ACTIVE' = [ACTIVE EXCEPT ![Current(m)] = TRUE]
    BY <1>5 DEF Activate, BecomesActive
  <2> QED
    BY <1>1, <2>1 DEF PipeTypes
<1>6. ACTIVE' # ACTIVE
  OBVIOUS
<1> QED
  BY <1>3, <1>4, <1>5, <1>6 DEF Next, vars, pipes, CanIrq, Transmit, Foreign, Receive, PostStart,
     Command, TestStart, MatchInjected, SendInjected, SentInjected

\* No start, stop, command or fault of the machine shortens the time that a pipe waits,
\* for every time of silence and any number of pipes that share the machine.
THEOREM GivesUpCorrect == Spec => GivesUpOnSilence
<1>1. IInv /\ [Next]_vars =>
        [\A n \in Nodes, p \in Pipes :
           at' = at /\ ACTIVE[p] /\ ~ ACTIVE'[p] => silence[p] + 1 >= timeout_EP]_vars
  BY StepGivesUp
<1> QED
  BY <1>1, InitIInv, StepIInv, PTL DEF Spec, GivesUpOnSilence

-----------------------------------------------------------------------------
(* Who watches the machine *)

OnItsWay(n, p) == at[n] = "activate" /\ Current(n) = p

\* Pipes start the machine of their own node, and only incoming ones do.
OwnOnly ==
  \A n \in Nodes :
    /\ writer[n] \in Own(n) \cup {Nobody} /\ owner[n] \in Own(n) \cup {Nobody}
    /\ at[n] \in {"start", "post", "activate"} => MODE(Current(n)) = "INCOMING"

\* A start that a pipe has posted, and that no cycle has taken yet: the pipe is active
\* or becomes so next, and it cannot be put out before the cycle, for the frame that
\* found the machine stopped is taken, and no other with its ID is read before.
Posted ==
  \A n \in Nodes : fsm_req[n] = "LU_STARTUP" /\ writer[n] # Nobody =>
    /\ MODE(writer[n]) = "INCOMING" /\ setup.ep[writer[n]].ID \in taken[n]
    /\ OnItsWay(n, writer[n]) \/ (ACTIVE[writer[n]] /\ writer[n] \notin left[n])

WInv == IInv /\ OwnOnly /\ Posted /\ Watched

\* The interrupt goes on, and neither posts nor puts out a pipe.
LEMMA QuietStep ==
  ASSUME WInv, [Next]_vars, NEW n \in Nodes, IrqStep(n), UNCHANGED <<machines, ACTIVE, taken>>,
         at[n] # "activate", at'[n] = "post" => at[n] = "start",
         at'[n] \notin {"start", "activate"}
  PROVE  (OwnOnly /\ Posted /\ Watched)'
<1>1. CanTypes /\ TypeOK
  BY TypesOfParts DEF WInv, IInv
<1>2. Current(n) \in left[n] /\ at[n] # "idle"
  BY <1>1, CurrentIsLeft DEF IrqStep
<1>3. \A m \in Nodes : left'[m] \subseteq left[m] /\ (m # n => at'[m] = at[m] /\ left'[m] = left[m])
  <2>1. CASE NextPipe(n)
    BY <1>1, <1>2, <2>1, NextPipeTypes
  <2>2. CASE \E label \in Labels \ {"idle"} : Goto(n, label)
    BY <1>1, <1>2, <2>2, GotoTypes
  <2> QED
    BY <2>1, <2>2 DEF IrqStep
<1>4. at'[n] = "post" => left' = left
  <2>1. CASE NextPipe(n)
    BY <1>1, <1>2, <2>1, NextPipeTypes
  <2>2. CASE \E label \in Labels \ {"idle"} : Goto(n, label)
    BY <2>2 DEF Goto
  <2> QED
    BY <2>1, <2>2 DEF IrqStep
<1>5. \A m : left'[m] = left[m] => (Current(m))' = Current(m)
  BY DEF Current
<1>6. setup' = setup /\ \A p : (MODE(p))' = MODE(p)
  BY SetupFixed
<1>7. \A m : (Own(m))' = Own(m)
  BY SetupFixed
<1>8. UNCHANGED <<machine, fsm_req, writer, owner, asked>>
  BY DEF machines
<1>9. \A m \in Nodes : \A p : OnItsWay(m, p) => (OnItsWay(m, p))'
  BY <1>3, <1>5 DEF OnItsWay
<1>10. OwnOnly'
  <2>1. ASSUME NEW m \in Nodes, at'[m] \in {"start", "post", "activate"}
        PROVE  MODE((Current(m))') = "INCOMING"
    <3>1. CASE m # n
      BY <1>3, <1>5, <2>1, <3>1 DEF WInv, OwnOnly
    <3>2. CASE m = n
      <4>1. at[n] = "start" /\ left' = left
        BY <1>4, <2>1, <3>2
      <4> QED
        BY <1>5, <3>2, <4>1 DEF WInv, OwnOnly
    <3> QED
      BY <3>1, <3>2
  <2> QED
    BY <1>6, <1>7, <1>8, <2>1 DEF WInv, OwnOnly
<1>11. Posted'
  BY <1>3, <1>6, <1>8, <1>9 DEF WInv, Posted
<1>12. Watched'
  BY <1>8, <1>9 DEF WInv, Watched, OnItsWay
<1> QED
  BY <1>10, <1>11, <1>12

LEMMA StartFrames ==
  ASSUME WInv, NEW n \in Nodes, at[n] # "idle", MODE(Current(n)) = "INCOMING"
  PROVE  setup.ep[Current(n)].ID \in taken[n]
<1>1. PICK id \in taken[n] : left[n] \subseteq Matching(n, id)
  BY DEF WInv, IInv, OneFrame
<1>2. Current(n) \in Matching(n, id)
  BY <1>1, CurrentIsLeft DEF WInv, IInv
<1> QED
  BY <1>1, <1>2 DEF Matching

LEMMA CycleWatches ==
  ASSUME WInv, NEW n \in Nodes, Cycle(n)
  PROVE  (OwnOnly /\ Posted /\ Watched)'
<1>1. TypeOK /\ MachineTypes /\ PipeTypes /\ [Next]_vars
  BY TypesOfParts DEF WInv, IInv, Next
<1>2. /\ machine' \in [Nodes -> Machines]
      /\ \A m \in Nodes : m # n => machine'[m] = machine[m] /\ owner'[m] = owner[m]
      /\ owner'[n] = IF machine'[n].lu /\ ~ machine[n].lu THEN writer[n] ELSE owner[n]
      /\ machine'[n].lu /\ ~ machine[n].lu => fsm_req[n] = "LU_STARTUP"
  BY <1>1, FeedbackType DEF Cycle
<1>3. UNCHANGED <<setup, writer, at, left>>
  BY DEF Cycle
<1>4. \A m : (Own(m))' = Own(m) /\ (Current(m))' = Current(m)
  BY <1>3 DEF Own, Current
<1>5. \A p : (MODE(p))' = MODE(p)
  BY <1>3 DEF MODE
<1>6. fsm_req'[n] # "LU_STARTUP" /\ \A m \in Nodes : m # n => fsm_req'[m] = fsm_req[m]
  BY <1>1 DEF Cycle, MachineTypes
<1>7. \A m \in Nodes : m # n => taken'[m] = taken[m] /\ asked'[m] = asked[m]
  BY <1>1 DEF Cycle, TypeOK
<1>8. asked'[n] <=> machine'[n].lu /\ (asked[n] \/ Expired(n) # {})
  BY <1>1 DEF Cycle, MachineTypes
<1>9. \A p \in Pipes : ACTIVE'[p] <=> ACTIVE[p] /\ p \notin Expired(n)
  BY DEF Cycle
<1>10. \A m \in Nodes : \A p \in Own(m) : m # n => (ACTIVE'[p] <=> ACTIVE[p])
  <2> SUFFICES ASSUME NEW m \in Nodes, NEW p \in Own(m), m # n PROVE p \in Pipes /\ p \notin Expired(n)
    BY <1>9
  <2>1. p \in Pipes /\ p \notin Own(n)
    BY <1>1, Configured DEF TypeOK
  <2> QED
    BY <2>1 DEF Expired, Counting
<1>11. OwnOnly'
  BY <1>2, <1>3, <1>4, <1>5 DEF WInv, OwnOnly
<1>12. Posted'
  <2> SUFFICES ASSUME NEW m \in Nodes, fsm_req'[m] = "LU_STARTUP", writer[m] # Nobody
               PROVE  /\ MODE(writer[m]) = "INCOMING" /\ setup.ep[writer[m]].ID \in taken'[m]
                      /\ OnItsWay(m, writer[m]) \/ (ACTIVE'[writer[m]] /\ writer[m] \notin left[m])
    BY <1>3, <1>4, <1>5 DEF Posted, OnItsWay
  <2>1. m # n /\ fsm_req[m] = "LU_STARTUP" /\ taken'[m] = taken[m]
    BY <1>6, <1>7
  <2>2. writer[m] \in Own(m)
    BY DEF WInv, OwnOnly
  <2>3. ACTIVE'[writer[m]] <=> ACTIVE[writer[m]]
    BY <1>10, <2>1, <2>2
  <2> QED
    BY <2>1, <2>3 DEF WInv, Posted
<1>13. Watched'
  <2> SUFFICES ASSUME NEW m \in Nodes, machine'[m].lu, owner'[m] # Nobody, ~ asked'[m]
               PROVE  ACTIVE'[owner'[m]] \/ (at[m] = "activate" /\ Current(m) = owner'[m])
    BY <1>3, <1>4 DEF Watched
  <2>1. CASE m # n
    <3>1. machine[m].lu /\ owner'[m] = owner[m] /\ owner[m] # Nobody /\ ~ asked[m]
      BY <1>2, <1>7, <2>1
    <3>2. owner[m] \in Own(m)
      BY <3>1 DEF WInv, OwnOnly
    <3>3. ACTIVE'[owner[m]] <=> ACTIVE[owner[m]]
      BY <1>10, <2>1, <3>2
    <3> QED
      BY <3>1, <3>3 DEF WInv, Watched
  <2>2. CASE m = n /\ machine[n].lu
    <3>1. owner'[n] = owner[n] /\ ~ asked[n] /\ Expired(n) = {}
      BY <1>2, <1>8, <2>2
    <3>2. owner[n] \in Pipes
      BY <1>1, <2>2, <3>1 DEF MachineTypes
    <3> QED
      BY <1>9, <2>2, <3>1, <3>2 DEF WInv, Watched
  <2>3. CASE m = n /\ ~ machine[n].lu
    <3>1. owner'[n] = writer[n] /\ fsm_req[n] = "LU_STARTUP" /\ Expired(n) = {}
      BY <1>2, <1>8, <2>3
    <3>2. writer[n] \in Pipes
      BY <1>1, <2>3, <3>1 DEF MachineTypes
    <3>3. OnItsWay(n, writer[n]) \/ ACTIVE[writer[n]]
      BY <2>3, <3>1 DEF WInv, Posted
    <3> QED
      BY <1>9, <2>3, <3>1, <3>2, <3>3 DEF OnItsWay
  <2> QED
    BY <2>1, <2>2, <2>3
<1> QED
  BY <1>11, <1>12, <1>13

LEMMA StepWInv ==
  ASSUME ~ Backlog, WInv, [Next]_vars
  PROVE  WInv'
<1>1. TypeOK /\ MachineTypes /\ PipeTypes /\ CanTypes
  BY TypesOfParts DEF WInv, IInv
<1>2. IInv'
  BY StepIInv DEF WInv
<1> SUFFICES (OwnOnly /\ Posted /\ Watched)'
  BY <1>2 DEF WInv
<1>3. /\ setup' = setup /\ \A p : (MODE(p))' = MODE(p)
      /\ \A n : (Own(n))' = Own(n)
  BY SetupFixed
<1>4. \A n : left'[n] = left[n] => (Current(n))' = Current(n)
  BY DEF Current
<1>5. \A n \in Nodes : at[n] # "idle" => Current(n) \in left[n] /\ Current(n) \in Own(n) /\ Current(n) \in Pipes
  BY <1>1, CurrentIsLeft
<1>6. \A n, m \in Nodes : n # m => Own(n) \cap Own(m) = {}
  <2>1. setup \in Setups
    BY <1>1 DEF TypeOK
  <2> QED
    BY <2>1, Configured
<1>7. CASE UNCHANGED <<machines, ACTIVE, taken, at, left>>
  BY <1>3, <1>4, <1>7 DEF WInv, OwnOnly, Posted, Watched, OnItsWay, machines
<1>8. ASSUME NEW n \in Nodes, NEW id \in IDs, Receive(n, id) PROVE (OwnOnly /\ Posted /\ Watched)'
  <2>1. /\ at[n] = "idle" /\ id \notin taken[n] /\ UNCHANGED <<machines, ACTIVE>>
        /\ taken' = [taken EXCEPT ![n] = @ \cup {id}]
        /\ left' = [left EXCEPT ![n] = Matching(n, id)] /\ at' = [at EXCEPT ![n] = "match"]
    BY <1>8 DEF Receive, pipes
  <2>2. /\ \A m \in Nodes : taken[m] \subseteq taken'[m]
        /\ \A m \in Nodes : m # n => left'[m] = left[m] /\ at'[m] = at[m]
        /\ left'[n] = Matching(n, id) /\ at'[n] = "match"
    BY <1>1, <2>1 DEF CanTypes
  <2>3. \A m \in Nodes : \A p : OnItsWay(m, p) => (OnItsWay(m, p))'
    BY <1>4, <2>1, <2>2 DEF OnItsWay
  <2>4. UNCHANGED <<machine, fsm_req, writer, owner, asked>>
    BY <2>1 DEF machines
  <2>5. OwnOnly'
    BY <1>3, <1>4, <2>2, <2>4 DEF WInv, OwnOnly
  <2>6. Watched'
    BY <2>1, <2>3, <2>4 DEF WInv, Watched, OnItsWay
  <2>7. ASSUME NEW m \in Nodes, fsm_req[m] = "LU_STARTUP", writer[m] # Nobody
        PROVE  /\ MODE(writer[m]) = "INCOMING" /\ setup.ep[writer[m]].ID \in taken'[m]
               /\ (OnItsWay(m, writer[m]))' \/ (ACTIVE[writer[m]] /\ writer[m] \notin left'[m])
    <3>1. /\ MODE(writer[m]) = "INCOMING" /\ setup.ep[writer[m]].ID \in taken[m]
          /\ OnItsWay(m, writer[m]) \/ (ACTIVE[writer[m]] /\ writer[m] \notin left[m])
      BY <2>7 DEF WInv, Posted
    <3>2. m = n => writer[m] \notin left'[m]
      BY <2>1, <2>2, <3>1 DEF Matching
    <3> QED
      BY <2>1, <2>2, <2>3, <2>4, <3>1, <3>2
  <2>8. Posted'
    BY <1>3, <2>1, <2>4, <2>7 DEF Posted, OnItsWay
  <2> QED
    BY <2>5, <2>6, <2>8
<1>9. ASSUME NEW n \in Nodes, at[n] # "idle", MatchIncoming(n, Current(n))
      PROVE  (OwnOnly /\ Posted /\ Watched)'
  <2>1. /\ at[n] = "match" /\ MODE(Current(n)) = "INCOMING" /\ left' = left
        /\ ACTIVE' = [ACTIVE EXCEPT ![Current(n)] = @ /\ machine[n].lu]
        /\ at' = [at EXCEPT ![n] = "start"] /\ UNCHANGED <<machines, taken>>
    BY <1>9 DEF MatchIncoming, Goto
  <2>2. UNCHANGED <<machine, fsm_req, writer, owner, asked>>
    BY <2>1 DEF machines
  <2>3. at'[n] = "start" /\ \A m \in Nodes : m # n => at'[m] = at[m]
    BY <1>1, <2>1 DEF CanTypes
  <2>4. \A m : (Current(m))' = Current(m)
    BY <1>4, <2>1
  <2>5. \A m \in Nodes : \A p : OnItsWay(m, p) <=> (OnItsWay(m, p))'
    BY <2>1, <2>3, <2>4 DEF OnItsWay
  <2>6. \A p \in Pipes : p # Current(n) => (ACTIVE'[p] <=> ACTIVE[p])
    BY <1>1, <2>1 DEF PipeTypes
  <2>7. ACTIVE[Current(n)] /\ machine[n].lu => ACTIVE'[Current(n)]
    BY <1>1, <1>5, <1>9, <2>1 DEF PipeTypes
  <2>8. OwnOnly'
    BY <1>3, <2>1, <2>2, <2>3, <2>4 DEF WInv, OwnOnly
  <2>9. ASSUME NEW m \in Nodes, NEW p \in Own(m), m # n PROVE p \in Pipes /\ p # Current(n)
    BY <1>5, <1>6, <1>9, <2>9 DEF Own
  <2>10. Posted'
    <3> SUFFICES ASSUME NEW m \in Nodes, fsm_req[m] = "LU_STARTUP", writer[m] # Nobody
                 PROVE  /\ MODE(writer[m]) = "INCOMING" /\ setup.ep[writer[m]].ID \in taken[m]
                        /\ OnItsWay(m, writer[m]) \/ (ACTIVE'[writer[m]] /\ writer[m] \notin left[m])
      BY <1>3, <2>1, <2>2, <2>5 DEF Posted
    <3>1. /\ MODE(writer[m]) = "INCOMING" /\ setup.ep[writer[m]].ID \in taken[m]
          /\ OnItsWay(m, writer[m]) \/ (ACTIVE[writer[m]] /\ writer[m] \notin left[m])
      BY DEF WInv, Posted
    <3>2. writer[m] \in Own(m) /\ writer[m] \in Pipes
      BY DEF WInv, OwnOnly, Own
    <3>3. CASE OnItsWay(m, writer[m])
      BY <3>1, <3>3
    <3>4. CASE ACTIVE[writer[m]] /\ writer[m] \notin left[m]
      <4>1. writer[m] # Current(n)
        BY <1>5, <1>9, <2>9, <3>2, <3>4
      <4> QED
        BY <2>6, <3>1, <3>2, <3>4, <4>1
    <3> QED
      BY <3>1, <3>3, <3>4
  <2>11. Watched'
    <3> SUFFICES ASSUME NEW m \in Nodes, machine[m].lu, owner[m] # Nobody, ~ asked[m]
                 PROVE  ACTIVE'[owner[m]] \/ OnItsWay(m, owner[m])
      BY <2>2, <2>5 DEF Watched, OnItsWay
    <3>1. ACTIVE[owner[m]] \/ OnItsWay(m, owner[m])
      BY DEF WInv, Watched, OnItsWay
    <3>2. owner[m] \in Own(m) /\ owner[m] \in Pipes
      BY DEF WInv, OwnOnly, Own
    <3>3. CASE m = n
      BY <2>6, <2>7, <3>1, <3>2, <3>3
    <3>4. CASE m # n
      BY <2>6, <2>9, <3>1, <3>2, <3>4
    <3> QED
      BY <3>3, <3>4
  <2> QED
    BY <2>8, <2>10, <2>11
<1>10. ASSUME NEW n \in Nodes, at[n] # "idle",
              TestStart(n, Current(n)) \/ MatchInjected(n, Current(n))
                \/ SendInjected(n, Current(n)) \/ SentInjected(n, Current(n))
       PROVE  (OwnOnly /\ Posted /\ Watched)'
  <2>1. UNCHANGED <<machines, ACTIVE, taken>> /\ at[n] # "activate"
    BY <1>10 DEF TestStart, MatchInjected, SendInjected, SentInjected, pipes
  <2>2. \/ NextPipe(n) \/ (at[n] = "start" /\ Goto(n, "post"))
        \/ Goto(n, "send") \/ Goto(n, "sent")
    BY <1>10 DEF TestStart, MatchInjected, SendInjected, SentInjected, SendNow
  <2>3. IrqStep(n)
    BY <1>10, <2>2 DEF IrqStep, Labels
  <2>4. (at'[n] = "post" => at[n] = "start") /\ at'[n] \notin {"start", "activate"}
    <3>1. CASE NextPipe(n)
      <4>1. at'[n] \in {"idle", "match"}
        BY <1>1, <1>5, <1>10, <3>1, NextPipeTypes
      <4> QED
        BY <4>1
    <3>2. CASE at[n] = "start" /\ Goto(n, "post")
      BY <1>1, <3>2 DEF Goto, CanTypes
    <3>3. CASE Goto(n, "send") \/ Goto(n, "sent")
      BY <1>1, <3>3 DEF Goto, CanTypes
    <3> QED
      BY <2>2, <3>1, <3>2, <3>3
  <2> QED
    BY <2>1, <2>3, <2>4, QuietStep
<1>11. ASSUME NEW n \in Nodes, at[n] # "idle", PostStart(n, Current(n))
       PROVE  (OwnOnly /\ Posted /\ Watched)'
  <2> DEFINE p == Current(n)
  <2>1. /\ at[n] = "post" /\ left' = left
        /\ fsm_req' = [fsm_req EXCEPT ![n] = "LU_STARTUP"] /\ writer' = [writer EXCEPT ![n] = p]
        /\ at' = [at EXCEPT ![n] = "activate"]
        /\ UNCHANGED <<machine, owner, asked, ACTIVE, taken>>
    BY <1>11 DEF PostStart, Post, Goto, pipes
  <2>2. p \in Own(n) /\ MODE(p) = "INCOMING"
    BY <1>5, <1>11, <2>1 DEF WInv, OwnOnly
  <2>3. setup.ep[p].ID \in taken[n]
    BY <1>11, <2>2, StartFrames
  <2>4. \A m : (Current(m))' = Current(m)
    BY <1>4, <2>1
  <2>5. at'[n] = "activate" /\ \A m \in Nodes : m # n => at'[m] = at[m]
    BY <1>1, <2>1 DEF CanTypes
  <2>6. /\ fsm_req'[n] = "LU_STARTUP" /\ writer'[n] = p
        /\ \A m \in Nodes : m # n => fsm_req'[m] = fsm_req[m] /\ writer'[m] = writer[m]
    BY <1>1, <2>1 DEF MachineTypes
  <2>7. (Current(n))' = p /\ \A m \in Nodes : \A q : m # n => ((OnItsWay(m, q))' <=> OnItsWay(m, q))
    BY <2>4, <2>5 DEF OnItsWay
  <2> HIDE DEF p
  <2>8. OwnOnly'
    <3>1. \A m \in Nodes : at'[m] \in {"start", "post", "activate"} => MODE((Current(m))') = "INCOMING"
      BY <2>1, <2>2, <2>4, <2>5 DEF WInv, OwnOnly, p
    <3>2. \A m \in Nodes : writer'[m] \in Own(m) \cup {Nobody}
      BY <2>2, <2>6 DEF WInv, OwnOnly
    <3> QED
      BY <1>3, <2>1, <3>1, <3>2 DEF WInv, OwnOnly
  <2>9. Posted'
    <3> SUFFICES ASSUME NEW m \in Nodes, fsm_req'[m] = "LU_STARTUP", writer'[m] # Nobody
                 PROVE  /\ MODE(writer'[m]) = "INCOMING" /\ setup.ep[writer'[m]].ID \in taken[m]
                        /\ \/ at'[m] = "activate" /\ (Current(m))' = writer'[m]
                           \/ ACTIVE[writer'[m]] /\ writer'[m] \notin left[m]
      BY <1>3, <2>1 DEF Posted, OnItsWay
    <3>1. CASE m = n
      BY <2>2, <2>3, <2>5, <2>6, <2>7, <3>1
    <3>2. CASE m # n
      BY <2>4, <2>5, <2>6, <3>2 DEF WInv, Posted, OnItsWay
    <3> QED
      BY <3>1, <3>2
  <2>10. Watched'
    BY <2>1, <2>5, <2>7 DEF WInv, Watched, OnItsWay
  <2> QED
    BY <2>8, <2>9, <2>10
<1>12. ASSUME NEW n \in Nodes, at[n] # "idle", Activate(n, Current(n))
       PROVE  (OwnOnly /\ Posted /\ Watched)'
  <2> DEFINE p == Current(n)
  <2>1. /\ at[n] = "activate" /\ ACTIVE' = [ACTIVE EXCEPT ![p] = TRUE] /\ NextPipe(n)
        /\ UNCHANGED <<machines, taken>>
    BY <1>12 DEF Activate, BecomesActive
  <2>2. UNCHANGED <<machine, fsm_req, writer, owner, asked>>
    BY <2>1 DEF machines
  <2>3. p \in left[n] /\ p \in Pipes
    BY <1>5, <1>12
  <2>4. /\ \A m \in Nodes : m # n => at'[m] = at[m] /\ left'[m] = left[m]
        /\ left'[n] = left[n] \ {p} /\ at'[n] \in {"idle", "match"}
    BY <1>1, <2>1, <2>3, NextPipeTypes
  <2>5. ACTIVE'[p] /\ \A q \in Pipes : ACTIVE[q] => ACTIVE'[q]
    BY <1>1, <2>1, <2>3 DEF PipeTypes
  <2>6. \A m \in Nodes : \A q : m # n /\ OnItsWay(m, q) => at'[m] = "activate" /\ (Current(m))' = q
    BY <1>4, <2>4 DEF OnItsWay
  <2>7. \A q : OnItsWay(n, q) => q = p
    BY DEF OnItsWay
  <2> HIDE DEF p
  <2>8. OwnOnly'
    BY <1>3, <1>4, <2>2, <2>4 DEF WInv, OwnOnly
  <2>9. Posted'
    <3> SUFFICES ASSUME NEW m \in Nodes, fsm_req[m] = "LU_STARTUP", writer[m] # Nobody
                 PROVE  /\ MODE(writer[m]) = "INCOMING" /\ setup.ep[writer[m]].ID \in taken[m]
                        /\ \/ at'[m] = "activate" /\ (Current(m))' = writer[m]
                           \/ ACTIVE'[writer[m]] /\ writer[m] \notin left'[m]
      BY <1>3, <2>1, <2>2 DEF Posted, OnItsWay
    <3>1. /\ MODE(writer[m]) = "INCOMING" /\ setup.ep[writer[m]].ID \in taken[m]
          /\ OnItsWay(m, writer[m]) \/ (ACTIVE[writer[m]] /\ writer[m] \notin left[m])
      BY DEF WInv, Posted
    <3>2. writer[m] \in Pipes
      BY DEF WInv, OwnOnly, Own
    <3>3. CASE m # n
      BY <2>4, <2>5, <2>6, <3>1, <3>2, <3>3
    <3>4. CASE m = n
      BY <2>4, <2>5, <2>7, <3>1, <3>2, <3>4
    <3> QED
      BY <3>3, <3>4
  <2>10. Watched'
    <3> SUFFICES ASSUME NEW m \in Nodes, machine[m].lu, owner[m] # Nobody, ~ asked[m]
                 PROVE  ACTIVE'[owner[m]] \/ (at'[m] = "activate" /\ (Current(m))' = owner[m])
      BY <2>2 DEF Watched, OnItsWay
    <3>1. ACTIVE[owner[m]] \/ OnItsWay(m, owner[m])
      BY DEF WInv, Watched, OnItsWay
    <3>2. owner[m] \in Pipes
      BY DEF WInv, OwnOnly, Own
    <3> QED
      BY <2>5, <2>6, <2>7, <3>1, <3>2
  <2> QED
    BY <2>8, <2>9, <2>10
<1>13. ASSUME NEW n \in Nodes, Cycle(n) PROVE (OwnOnly /\ Posted /\ Watched)'
  BY <1>13, CycleWatches
<1>14. ASSUME NEW n \in Nodes, Command(n) PROVE (OwnOnly /\ Posted /\ Watched)'
  <2>1. PICK req : Post(n, req, Nobody)
    BY <1>14 DEF Command
  <2>2. UNCHANGED <<machine, owner, asked, ACTIVE, taken, at, left>>
    BY <1>14 DEF Command, pipes, can
  <2>3. /\ writer'[n] = Nobody
        /\ \A m \in Nodes : m # n => writer'[m] = writer[m] /\ fsm_req'[m] = fsm_req[m]
    BY <1>1, <2>1 DEF Post, MachineTypes
  <2>4. \A m : (Current(m))' = Current(m)
    BY <1>4, <2>2
  <2>5. OwnOnly'
    BY <1>3, <2>2, <2>3, <2>4 DEF WInv, OwnOnly
  <2>6. Posted'
    BY <1>3, <2>2, <2>3, <2>4 DEF WInv, Posted, OnItsWay
  <2>7. Watched'
    BY <2>2, <2>4 DEF WInv, Watched
  <2> QED
    BY <2>5, <2>6, <2>7
<1>15. ASSUME NEW p \in Pipes, Transmit(p) PROVE UNCHANGED <<machines, ACTIVE, taken, at, left>>
  BY <1>15 DEF Transmit, pipes
<1>16. ASSUME NEW n \in Nodes, NEW id, Foreign(n, id)
       PROVE  UNCHANGED <<machines, ACTIVE, taken, at, left>>
  BY <1>16 DEF Foreign, pipes
<1>17. CASE UNCHANGED vars
  BY <1>7, <1>17 DEF vars, pipes, can
<1> QED
  BY <1>7, <1>8, <1>9, <1>10, <1>11, <1>12, <1>13, <1>14, <1>15, <1>16, <1>17 DEF Next, CanIrq

\* Unless frames of an ID are read faster than the machine has cycles, no machine that
\* a frame has started runs unwatched, for every number of pipes, and every way in
\* which the two interrupts, commands and faults interleave.
THEOREM WatchedCorrect == ~ Backlog => (Spec => []Watched)
<1> SUFFICES ASSUME ~ Backlog PROVE Spec => []Watched
  OBVIOUS
<1>1. Init => WInv
  <2> SUFFICES ASSUME Init PROVE OwnOnly /\ Posted /\ Watched
    BY InitIInv DEF WInv
  <2> QED
    BY DEF Init, OwnOnly, Posted, Watched, Stopped
<1>2. WInv /\ [Next]_vars => WInv'
  BY StepWInv
<1>3. WInv => Watched
  BY DEF WInv
<1> QED
  BY <1>1, <1>2, <1>3, PTL DEF Spec
=============================================================================
