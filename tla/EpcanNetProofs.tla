-------------------------- MODULE EpcanNetProofs --------------------------
(***************************************************************************)
(* Proofs about EpcanNet, for every number of nodes, node numbers and      *)
(* registers, every length of the queues and every configuration.          *)
(***************************************************************************)
EXTENDS EpcanNet, FiniteSetTheorems, TLAPS

LEMMA Sizes ==
  /\ MaxID \in Nat /\ MaxID > 0
  /\ \A n \in Nodes : n \in Nat /\ n # 0
  /\ Regs # {} /\ (\A r \in Regs : r \in Nat /\ r # NoReg) /\ \A v \in Values : v \in Nat
BY NetAssumption DEF Nobody, NoReg

-----------------------------------------------------------------------------
(* Messages and queues *)

LEMMA MessageForms ==
  ASSUME NEW u \in Nodes, NEW id \in IDs
  PROVE  /\ [fn |-> "SURVEY", UID |-> u, ID |-> id] \in Messages
         /\ [fn |-> "ASSIGN", UID |-> u, ID |-> id] \in Messages
         /\ [fn |-> "REPLY", UID |-> u, ID |-> id] \in Messages
         /\ \A r \in Regs : [fn |-> "GET", ID |-> id, reg |-> r] \in Messages
         /\ \A r \in Regs, v \in Values :
              /\ [fn |-> "SET", ID |-> id, reg |-> r, value |-> v] \in Messages
              /\ [fn |-> "DATA", ID |-> id, reg |-> r, value |-> v] \in Messages
BY DEF Messages

LEMMA MessageFields ==
  ASSUME NEW msg \in Messages
  PROVE  /\ msg.fn \in {"SURVEY", "ASSIGN", "REPLY", "GET", "SET", "DATA"} /\ msg.ID \in IDs
         /\ msg.fn \in {"SURVEY", "ASSIGN", "REPLY"} => msg.UID \in Nodes
         /\ msg.fn \in {"GET", "SET", "DATA"} => msg.reg \in Regs
         /\ msg.fn \in {"SET", "DATA"} => msg.value \in Values
BY DEF Messages

\* The place of element i of the queue of m before the first message of n was taken.
Before(n, m, i) == IF m = n THEN i + 1 ELSE i

\* The queues without the message that n takes.
LEMMA QueueServed ==
  ASSUME NEW n \in Nodes, in_queue \in [Nodes -> Seq(Messages)], in_queue[n] # <<>>,
         setup.room \in Nat, \A m \in Nodes : Len(in_queue[m]) <= setup.room
  PROVE  /\ Head(in_queue[n]) \in Messages /\ 1 \in DOMAIN in_queue[n] /\ Head(in_queue[n]) = in_queue[n][1]
         /\ Queue(n) \in [Nodes -> Seq(Messages)]
         /\ \A m \in Nodes : Len(Queue(n)[m]) <= setup.room
         /\ \A m \in Nodes : \A i \in DOMAIN Queue(n)[m] :
              i \in Nat /\ Before(n, m, i) \in DOMAIN in_queue[m]
              /\ Queue(n)[m][i] = in_queue[m][Before(n, m, i)]
<1>1. in_queue[n] \in Seq(Messages)
  OBVIOUS
<1>2. \A q \in Seq(Messages) : q # <<>> =>
        /\ Head(q) \in Messages /\ 1 \in DOMAIN q /\ Head(q) = q[1]
        /\ Tail(q) \in Seq(Messages) /\ Len(Tail(q)) = Len(q) - 1
        /\ \A i \in DOMAIN Tail(q) : i \in Nat /\ i + 1 \in DOMAIN q /\ Tail(q)[i] = q[i + 1]
  OBVIOUS
<1>3. Queue(n) = [in_queue EXCEPT ![n] = Tail(in_queue[n])]
  BY DEF Queue
<1>4. Queue(n) \in [Nodes -> Seq(Messages)]
  BY <1>1, <1>2, <1>3
<1>5. \A q \in Seq(Messages) : Len(q) \in Nat /\ \A i \in DOMAIN q : i \in Nat
  OBVIOUS
<1>6. \A m \in Nodes : Queue(n)[m] = IF m = n THEN Tail(in_queue[n]) ELSE in_queue[m]
  BY <1>3
<1>7. \A m \in Nodes : Len(Queue(n)[m]) <= setup.room
  <2>1. TAKE m \in Nodes
  <2>2. CASE m = n
    <3>1. Len(in_queue[n]) \in Nat /\ Len(in_queue[n]) <= setup.room /\ Len(Tail(in_queue[n])) = Len(in_queue[n]) - 1
      BY <1>1, <1>2, <1>5
    <3>2. Queue(n)[m] = Tail(in_queue[n])
      BY <1>6, <2>2
    <3> QED
      BY <3>1, <3>2, Sizes
  <2>3. CASE m # n
    BY <1>6, <2>3
  <2> QED
    BY <2>2, <2>3
<1>8. \A m \in Nodes : \A i \in DOMAIN Queue(n)[m] :
        i \in Nat /\ Before(n, m, i) \in DOMAIN in_queue[m] /\ Queue(n)[m][i] = in_queue[m][Before(n, m, i)]
  <2>1. TAKE m \in Nodes
  <2>2. CASE m = n
    <3>1. Queue(n)[m] = Tail(in_queue[m]) /\ in_queue[m] \in Seq(Messages) /\ in_queue[m] # <<>>
      BY <1>1, <1>6, <2>2
    <3>2. \A i \in DOMAIN Tail(in_queue[m]) : i \in Nat /\ i + 1 \in DOMAIN in_queue[m]
                                           /\ Tail(in_queue[m])[i] = in_queue[m][i + 1]
      BY <1>2, <3>1
    <3>3. \A i : Before(n, m, i) = i + 1
      BY <2>2 DEF Before
    <3> QED
      BY <3>1, <3>2, <3>3
  <2>3. CASE m # n
    BY <1>5, <1>6, <2>3 DEF Before
  <2> QED
    BY <2>2, <2>3
<1> QED
  BY <1>1, <1>2, <1>4, <1>7, <1>8

\* What a message adds to the queues.
Added(n, m, msg, i, queue) ==
  m # n /\ Hears(m, msg) /\ i = Len(queue[m]) + 1 /\ in_queue'[m][i] = msg

LEMMA SendOne ==
  ASSUME NEW n \in Nodes, NEW msg \in Messages, NEW queue \in [Nodes -> Seq(Messages)],
         setup.room \in Nat, \A m \in Nodes : Len(queue[m]) <= setup.room, Send(n, msg, queue)
  PROVE  /\ in_queue' \in [Nodes -> Seq(Messages)]
         /\ \A m \in Nodes : Len(in_queue'[m]) <= setup.room
         /\ \A m \in Nodes : \A i \in DOMAIN in_queue'[m] :
              \/ i \in DOMAIN queue[m] /\ in_queue'[m][i] = queue[m][i]
              \/ Added(n, m, msg, i, queue)
<1>1. PICK missed : in_queue' = [m \in Nodes |->
        IF m # n /\ m \notin missed /\ Hears(m, msg) /\ HasRoom(queue[m])
          THEN Append(queue[m], msg) ELSE queue[m]]
  BY DEF Send
<1>2. \A q \in Seq(Messages) :
        /\ Append(q, msg) \in Seq(Messages) /\ Len(Append(q, msg)) = Len(q) + 1 /\ Len(q) \in Nat
        /\ \A i \in DOMAIN Append(q, msg) :
             \/ i \in DOMAIN q /\ Append(q, msg)[i] = q[i]
             \/ i = Len(q) + 1 /\ Append(q, msg)[i] = msg
  OBVIOUS
<1>3. \A m \in Nodes : queue[m] \in Seq(Messages)
  OBVIOUS
<1>4. \A m \in Nodes : \/ in_queue'[m] = queue[m]
                       \/ m # n /\ Hears(m, msg) /\ HasRoom(queue[m]) /\ in_queue'[m] = Append(queue[m], msg)
  BY <1>1
<1>5. in_queue' \in [Nodes -> Seq(Messages)]
  BY <1>1, <1>2, <1>3
<1>6. \A m \in Nodes : Len(in_queue'[m]) <= setup.room
  BY <1>2, <1>3, <1>4, Sizes DEF HasRoom
<1>7. ASSUME NEW m \in Nodes, NEW i \in DOMAIN in_queue'[m]
      PROVE  \/ i \in DOMAIN queue[m] /\ in_queue'[m][i] = queue[m][i]
             \/ Added(n, m, msg, i, queue)
  <2>1. CASE in_queue'[m] = queue[m]
    BY <1>7, <2>1
  <2>2. CASE m # n /\ Hears(m, msg) /\ in_queue'[m] = Append(queue[m], msg)
    <3>1. \/ i \in DOMAIN queue[m] /\ Append(queue[m], msg)[i] = queue[m][i]
          \/ i = Len(queue[m]) + 1 /\ Append(queue[m], msg)[i] = msg
      BY <1>2, <1>3, <1>7, <2>2
    <3> QED
      BY <2>2, <3>1 DEF Added
  <2> QED
    BY <1>4, <2>1, <2>2
<1> QED
  BY <1>5, <1>6, <1>7

-----------------------------------------------------------------------------
(* Types *)

NumberTypes ==
  /\ setup \in Setups /\ node_ID \in [Nodes -> IDs]
  /\ node \in [Nodes -> [Nodes -> IDs \cup {NoEntry}]] /\ \A n \in Nodes : node[n][n] = NoEntry

\* No node hears itself.
Queues ==
  /\ in_queue \in [Nodes -> Seq(Messages)] /\ \A n \in Nodes : Len(in_queue[n]) <= setup.room
  /\ \A n \in Nodes : \A i \in DOMAIN in_queue[n] :
       in_queue[n][i].fn \in {"SURVEY", "REPLY"} => in_queue[n][i].UID # n

ShellTypes ==
  /\ at \in [Nodes -> Labels] /\ access \in [Nodes -> Accesses]
  /\ \A n \in Nodes : at[n] = "type" => access[n].value # NoValue
  /\ left \in [Nodes -> SUBSET Nodes] /\ \A n \in Nodes : n \notin left[n]
  /\ shown \in [Nodes -> Values \cup {NoValue}]

AckTypes ==
  /\ node_ACK_ID \in [Nodes -> IDs] /\ reg_ID \in [Nodes -> Regs \cup {NoReg}]
  /\ reg_DATA \in [Nodes -> Values]

DataTypes ==
  /\ reg \in [Nodes -> [Regs -> Values]] /\ held \in [Nodes -> SUBSET Values]
  /\ owed \in [Nodes -> BOOLEAN]

IInv == NumberTypes /\ Queues /\ delayed \in [Nodes -> BOOLEAN] /\ ShellTypes /\ AckTypes /\ DataTypes

LEMMA TypesOfParts == IInv => TypeOK
BY DEF IInv, TypeOK, NumberTypes, Queues, ShellTypes, AckTypes, DataTypes

LEMMA SetupTypes ==
  ASSUME setup \in Setups
  PROVE  /\ setup.first \subseteq [Nodes -> IDs] /\ setup.changing \subseteq Nodes
         /\ setup.room \in Nat /\ setup.room > 0
         /\ \A n \in Nodes : \A a \in setup.accesses[n] :
              /\ a \in Accesses /\ a.node_ID \in IDs /\ a.node_ID # 0 /\ a.reg \in Regs
              /\ a.value \in Values \cup {NoValue}
<1>1. /\ setup.first \subseteq [Nodes -> IDs] /\ setup.changing \subseteq Nodes
      /\ setup.room \in Nat /\ setup.room > 0 /\ setup.accesses \in [Nodes -> SUBSET Accesses]
  BY NetAssumption
<1>2. \A n \in Nodes : \A a \in setup.accesses[n] : a \in Accesses
  BY <1>1
<1>3. \A a \in Accesses : /\ a.node_ID \in IDs /\ a.node_ID # 0 /\ a.reg \in Regs
                          /\ a.value \in Values \cup {NoValue}
  BY DEF Accesses
<1> QED
  BY <1>1, <1>2, <1>3

\* A message is sent, by the shell or by the task that has taken one.
LEMMA SendKeeps ==
  ASSUME Queues, setup \in Setups, setup' = setup, NEW n \in Nodes, NEW msg \in Messages, NEW queue,
         msg.fn \in {"SURVEY", "REPLY"} => msg.UID = n,
         queue = in_queue \/ (in_queue[n] # <<>> /\ queue = Queue(n)),
         Send(n, msg, queue)
  PROVE  Queues'
<1>1. /\ queue \in [Nodes -> Seq(Messages)] /\ \A m \in Nodes : Len(queue[m]) <= setup.room
      /\ \A m \in Nodes : \A i \in DOMAIN queue[m] :
           \E j \in DOMAIN in_queue[m] : queue[m][i] = in_queue[m][j]
  BY QueueServed, SetupTypes DEF Queues
<1>2. /\ in_queue' \in [Nodes -> Seq(Messages)] /\ \A m \in Nodes : Len(in_queue'[m]) <= setup.room
      /\ \A m \in Nodes : \A i \in DOMAIN in_queue'[m] :
              \/ i \in DOMAIN queue[m] /\ in_queue'[m][i] = queue[m][i]
              \/ Added(n, m, msg, i, queue)
  BY <1>1, SendOne, SetupTypes
<1>3. \A m \in Nodes : \A i \in DOMAIN in_queue'[m] :
        in_queue'[m][i].fn \in {"SURVEY", "REPLY"} => in_queue'[m][i].UID # m
  <2>1. TAKE m \in Nodes
  <2>2. TAKE i \in DOMAIN in_queue'[m]
  <2>3. CASE i \in DOMAIN queue[m] /\ in_queue'[m][i] = queue[m][i]
    <3>1. PICK j \in DOMAIN in_queue[m] : queue[m][i] = in_queue[m][j]
      BY <1>1, <2>3
    <3>2. in_queue'[m][i] = in_queue[m][j]
      BY <2>3, <3>1
    <3> QED
      BY <3>2 DEF Queues
  <2>4. CASE Added(n, m, msg, i, queue)
    BY <2>4 DEF Added
  <2> QED
    BY <1>2, <2>3, <2>4
<1> QED
  BY <1>2, <1>3 DEF Queues

LEMMA ServedKeeps ==
  ASSUME Queues, setup \in Setups, setup' = setup, NEW n \in Nodes, in_queue[n] # <<>>, in_queue' = Queue(n)
  PROVE  Queues'
<1>1. /\ Queue(n) \in [Nodes -> Seq(Messages)] /\ \A m \in Nodes : Len(Queue(n)[m]) <= setup.room
      /\ \A m \in Nodes : \A i \in DOMAIN Queue(n)[m] :
           \E j \in DOMAIN in_queue[m] : Queue(n)[m][i] = in_queue[m][j]
  BY QueueServed, SetupTypes DEF Queues
<1> QED
  BY <1>1 DEF Queues

\* The least element of a set of numbers.
LEMMA SmallestOf ==
  ASSUME NEW S \in SUBSET Nat, S # {}
  PROVE  \E p \in S : \A q \in S : p <= q
<1> DEFINE R == OpToRel(<, Nat)
<1>1. IsWellFoundedOn(R, Nat)
  BY NatLessThanWellFounded
<1>2. \A x, y \in Nat : x < y => <<x, y>> \in R
  BY DEF OpToRel
<1> HIDE DEF R
<1>3. PICK p \in S : \A q \in S : ~ (<<q, p>> \in R)
  BY <1>1, WFMin
<1>4. \A q \in S : ~ (q < p)
  BY <1>2, <1>3
<1>5. \A q \in S : p <= q
  BY <1>4
<1> QED
  BY <1>5

\* A number that is given is one that nobody known has, or 0.
LEMMA AssignedIsFree ==
  ASSUME NEW n \in Nodes
  PROVE  AssignID(n) \in IDs /\ (AssignID(n) = 0 \/ AssignID(n) \in FreeIDs(n))
<1>1. FreeIDs(n) \in SUBSET Nat /\ FreeIDs(n) \subseteq IDs
  BY Sizes DEF FreeIDs, IDs
<1>2. CASE FreeIDs(n) = {}
  BY <1>2, Sizes DEF AssignID, IDs
<1>3. CASE FreeIDs(n) # {}
  <2>1. \E id \in FreeIDs(n) : \A other \in FreeIDs(n) : id <= other
    BY <1>1, <1>3, SmallestOf
  <2> QED
    BY <1>1, <1>3, <2>1 DEF AssignID
<1> QED
  BY <1>2, <1>3

LEMMA InitTypes == Init => IInv
<1> SUFFICES ASSUME Init PROVE IInv
  OBVIOUS
<1>1. NumberTypes
  <2>1. setup \in Setups /\ node_ID \in [Nodes -> IDs]
    BY SetupTypes DEF Init
  <2>2. node = [n \in Nodes |-> [u \in Nodes |-> IF setup.known /\ u # n THEN node_ID[u] ELSE NoEntry]]
    BY DEF Init
  <2>3. \A n \in Nodes : [u \in Nodes |-> IF setup.known /\ u # n THEN node_ID[u] ELSE NoEntry]
                           \in [Nodes -> IDs \cup {NoEntry}]
    BY <2>1
  <2> QED
    BY <2>1, <2>2, <2>3 DEF NumberTypes
<1>2. Queues /\ delayed \in [Nodes -> BOOLEAN]
  <2>1. in_queue = [n \in Nodes |-> <<>>] /\ delayed = [n \in Nodes |-> FALSE]
    BY DEF Init
  <2>2. <<>> \in Seq(Messages) /\ Len(<<>>) = 0 /\ DOMAIN <<>> = {}
    OBVIOUS
  <2> QED
    BY <2>1, <2>2, SetupTypes DEF Queues, Init
<1>3. ShellTypes
  <2>1. \E a \in Accesses : a.value = NoValue
    <3>1. PICK r \in Regs : TRUE
      BY Sizes
    <3>2. [node_ID |-> 1, reg |-> r, value |-> NoValue] \in Accesses
      BY <3>1, Sizes DEF Accesses, IDs
    <3> QED
      BY <3>2
  <2>2. (CHOOSE a \in Accesses : a.value = NoValue) \in Accesses
    BY <2>1
  <2>3. access \in [Nodes -> Accesses]
    BY <2>2 DEF Init
  <2> QED
    BY <2>3 DEF Init, ShellTypes, Labels
<1>4. AckTypes /\ DataTypes
  BY Sizes DEF Init, AckTypes, DataTypes, IDs
<1> QED
  BY <1>1, <1>2, <1>3, <1>4 DEF IInv

LEMMA SetupFixed == [Next]_vars => setup' = setup
<1> SUFFICES ASSUME [Next]_vars PROVE setup' = setup
  OBVIOUS
<1>1. ASSUME NEW n \in Nodes, MessageIn(n) PROVE setup' = setup
  BY <1>1 DEF MessageIn, OnSurvey, OnAssign, OnReply, OnGet, OnSet, OnData
<1>2. ASSUME NEW n \in Nodes, NEW u \in Nodes, AssignOne(n, u) \/ RevokeOne(n, u) PROVE setup' = setup
  BY <1>2 DEF AssignOne, RevokeOne
<1>3. ASSUME NEW n \in Nodes,
             \/ Reply(n) \/ Survey(n) \/ SendSurvey(n) \/ EndSurvey(n) \/ Assign(n) \/ EndCommand(n)
             \/ \E id \in IDs : Revoke(n, id)
      PROVE  setup' = setup
  BY <1>3 DEF Reply, Survey, SendSurvey, EndSurvey, Assign, EndCommand, Revoke
<1>4. ASSUME NEW n \in Nodes,
             \/ Access(n) \/ TypeData(n) \/ TestSet(n) \/ SendSet(n) \/ Ask(n) \/ ClearReg(n)
             \/ SendGet(n) \/ EndAccess(n) \/ RegChange(n)
      PROVE  setup' = setup
  BY <1>4 DEF Access, TypeData, TestSet, SendSet, Ask, ClearReg, SendGet, EndAccess, RegChange
<1>5. UNCHANGED vars => setup' = setup
  BY DEF vars
<1> QED
  BY <1>1, <1>2, <1>3, <1>4, <1>5 DEF Next

\* What handling a message does to the variables other than the queues.
LEMMA WriteTypes ==
  ASSUME DataTypes, AckTypes, NEW n \in Nodes, NEW r \in Regs, NEW v \in Values, NEW written \in BOOLEAN,
         RegWrite(n, r, v, written)
  PROVE  DataTypes'
<1>1. reg' = [reg EXCEPT ![n][r] = v] /\ owed' = owed
  BY DEF RegWrite
<1>2. reg' \in [Nodes -> [Regs -> Values]]
  BY <1>1 DEF DataTypes
<1>3. \A o \in Nodes : held[o] \in SUBSET Values /\ Coming(o) \in SUBSET Values
  BY DEF DataTypes, AckTypes, Coming, Answers
<1>4. held' = [o \in Nodes |-> IF ~ InAccess(o, n, r) THEN held[o]
                              ELSE {v} \cup IF written THEN Coming(o) ELSE held[o]]
  BY DEF RegWrite
<1>5. held' \in [Nodes -> SUBSET Values]
  BY <1>3, <1>4
<1> QED
  BY <1>1, <1>2, <1>5 DEF DataTypes

LEMMA MessageTypes ==
  ASSUME IInv, NEW n \in Nodes, MessageIn(n)
  PROVE  IInv'
<1> DEFINE msg == Head(in_queue[n])
<1>0. /\ NumberTypes /\ Queues /\ delayed \in [Nodes -> BOOLEAN] /\ ShellTypes /\ AckTypes /\ DataTypes
      /\ in_queue[n] # <<>> /\ setup \in Setups /\ setup' = setup
  BY SetupFixed DEF IInv, MessageIn, NumberTypes, Next
<1>1. /\ msg \in Messages /\ 1 \in DOMAIN in_queue[n] /\ msg = in_queue[n][1]
  BY <1>0, QueueServed, SetupTypes DEF Queues, NumberTypes
<1>2. /\ OnSurvey(n, msg) \/ OnAssign(n, msg) \/ OnReply(n, msg)
         \/ OnGet(n, msg) \/ OnSet(n, msg) \/ OnData(n, msg)
  BY DEF MessageIn
<1>3. msg.fn \in {"SURVEY", "REPLY"} => msg.UID # n
  BY <1>0, <1>1 DEF Queues
<1> HIDE DEF msg
<1>4. node_ID[n] \in IDs
  BY <1>0 DEF NumberTypes
<1>5. CASE OnSurvey(n, msg)
  <2>1. msg.UID \in Nodes /\ msg.UID # n /\ msg.ID \in IDs
    BY <1>1, <1>3, <1>5, MessageFields DEF OnSurvey
  <2>2. [Discarded EXCEPT ![msg.UID] = msg.ID] \in [Nodes -> IDs \cup {NoEntry}]
        /\ [Discarded EXCEPT ![msg.UID] = msg.ID][n] = NoEntry
    BY <2>1 DEF Discarded
  <2>3. NumberTypes'
    <3>1. node' = [node EXCEPT ![n] = [Discarded EXCEPT ![msg.UID] = msg.ID]] /\ UNCHANGED <<setup, node_ID>>
      BY <1>5 DEF OnSurvey
    <3>2. \A r \in [Nodes -> IDs \cup {NoEntry}] : r[n] = NoEntry =>
            /\ [node EXCEPT ![n] = r] \in [Nodes -> [Nodes -> IDs \cup {NoEntry}]]
            /\ \A m \in Nodes : [node EXCEPT ![n] = r][m][m] = NoEntry
      BY <1>0 DEF NumberTypes
    <3> QED
      BY <1>0, <2>2, <3>1, <3>2 DEF NumberTypes
  <2>4. Queues' /\ delayed' \in [Nodes -> BOOLEAN]
    <3>1. CASE node_ID[n] # 0
      <4>1. Send(n, [fn |-> "REPLY", UID |-> n, ID |-> node_ID[n]], Queue(n)) /\ delayed' = delayed
        BY <1>5, <3>1 DEF OnSurvey
      <4>2. [fn |-> "REPLY", UID |-> n, ID |-> node_ID[n]] \in Messages
        BY <1>4, MessageForms
      <4> QED
        BY <1>0, <4>1, <4>2, SendKeeps
    <3>2. CASE node_ID[n] = 0
      <4>1. in_queue' = Queue(n) /\ delayed' = [delayed EXCEPT ![n] = TRUE]
        BY <1>5, <3>2 DEF OnSurvey
      <4> QED
        BY <1>0, <4>1, ServedKeeps
    <3> QED
      BY <3>1, <3>2
  <2>5. UNCHANGED <<shell, ack, data>>
    BY <1>5 DEF OnSurvey
  <2> QED
    BY <1>0, <2>3, <2>4, <2>5 DEF IInv, ShellTypes, AckTypes, DataTypes, shell, ack, data
<1>6. CASE OnAssign(n, msg)
  <2>1. msg.UID \in Nodes /\ msg.ID \in IDs
    BY <1>1, <1>6, MessageFields DEF OnAssign
  <2>2. NumberTypes'
    <3>1. CASE msg.UID = n
      <4>1. node_ID' = [node_ID EXCEPT ![n] = msg.ID] /\ UNCHANGED <<node, setup>>
        BY <1>6, <3>1 DEF OnAssign
      <4> QED
        BY <1>0, <2>1, <4>1 DEF NumberTypes
    <3>2. CASE msg.UID # n
      <4>1. node' = [node EXCEPT ![n][msg.UID] = msg.ID] /\ UNCHANGED <<node_ID, setup>>
        BY <1>6, <3>2 DEF OnAssign, Noted
      <4> QED
        BY <1>0, <2>1, <3>2, <4>1 DEF NumberTypes
    <3> QED
      BY <3>1, <3>2
  <2>3. Queues' /\ delayed' = delayed /\ UNCHANGED <<shell, ack, data>>
    BY <1>0, <1>6, ServedKeeps DEF OnAssign
  <2> QED
    BY <1>0, <2>2, <2>3 DEF IInv, ShellTypes, AckTypes, DataTypes, shell, ack, data
<1>7. CASE OnReply(n, msg)
  <2>1. msg.UID \in Nodes /\ msg.UID # n /\ msg.ID \in IDs
    BY <1>1, <1>3, <1>7, MessageFields DEF OnReply
  <2>2. node' = [node EXCEPT ![n][msg.UID] = msg.ID] /\ UNCHANGED <<node_ID, setup>>
    BY <1>7 DEF OnReply
  <2>3. NumberTypes'
    BY <1>0, <2>1, <2>2 DEF NumberTypes
  <2>4. Queues' /\ delayed' = delayed /\ UNCHANGED <<shell, ack, data>>
    BY <1>0, <1>7, ServedKeeps DEF OnReply
  <2> QED
    BY <1>0, <2>3, <2>4 DEF IInv, ShellTypes, AckTypes, DataTypes, shell, ack, data
<1>8. CASE OnGet(n, msg)
  <2>1. msg.reg \in Regs
    BY <1>1, <1>8, MessageFields DEF OnGet
  <2>2. reg[n][msg.reg] \in Values
    BY <1>0, <2>1 DEF DataTypes
  <2>3. Queues'
    <3>1. CASE msg.ID = node_ID[n]
      <4>1. Send(n, [fn |-> "DATA", ID |-> node_ID[n], reg |-> msg.reg, value |-> reg[n][msg.reg]], Queue(n))
        BY <1>8, <3>1 DEF OnGet
      <4>2. [fn |-> "DATA", ID |-> node_ID[n], reg |-> msg.reg, value |-> reg[n][msg.reg]] \in Messages
        BY <1>4, <2>1, <2>2, MessageForms
      <4> QED
        BY <1>0, <4>1, <4>2, SendKeeps
    <3>2. CASE msg.ID # node_ID[n]
      BY <1>0, <1>8, <3>2, ServedKeeps DEF OnGet
    <3> QED
      BY <3>1, <3>2
  <2>4. delayed' = delayed /\ UNCHANGED <<setup, numbers, shell, ack, data>>
    BY <1>8 DEF OnGet
  <2> QED
    BY <1>0, <2>3, <2>4 DEF IInv, NumberTypes, ShellTypes, AckTypes, DataTypes, numbers, shell, ack, data
<1>9. CASE OnSet(n, msg)
  <2>1. msg.reg \in Regs /\ msg.value \in Values
    BY <1>1, <1>9, MessageFields DEF OnSet
  <2>2. DataTypes'
    <3>1. CASE msg.ID = node_ID[n]
      <4>1. RegWrite(n, msg.reg, msg.value, TRUE)
        BY <1>9, <3>1 DEF OnSet
      <4> QED
        BY <1>0, <2>1, <4>1, WriteTypes
    <3>2. CASE msg.ID # node_ID[n]
      BY <1>0, <1>9, <3>2 DEF OnSet, DataTypes, data
    <3> QED
      BY <3>1, <3>2
  <2>3. Queues' /\ delayed' = delayed /\ UNCHANGED <<setup, numbers, shell, ack>>
    BY <1>0, <1>9, ServedKeeps DEF OnSet
  <2> QED
    BY <1>0, <2>2, <2>3 DEF IInv, NumberTypes, ShellTypes, AckTypes, numbers, shell, ack
<1>10. CASE OnData(n, msg)
  <2>1. msg.reg \in Regs /\ msg.value \in Values
    BY <1>1, <1>10, MessageFields DEF OnData
  <2>2. AckTypes'
    <3>1. CASE MyAnswer(n, msg)
      <4>1. /\ reg_ID' = [reg_ID EXCEPT ![n] = msg.reg] /\ reg_DATA' = [reg_DATA EXCEPT ![n] = msg.value]
            /\ node_ACK_ID' = [node_ACK_ID EXCEPT ![n] = 0]
        BY <1>10, <3>1 DEF OnData
      <4>2. 0 \in IDs
        BY Sizes DEF IDs
      <4> QED
        BY <1>0, <2>1, <4>1, <4>2 DEF AckTypes
    <3>2. CASE ~ MyAnswer(n, msg)
      BY <1>0, <1>10, <3>2 DEF OnData, AckTypes, ack
    <3> QED
      BY <3>1, <3>2
  <2>3. Queues' /\ delayed' = delayed /\ UNCHANGED <<setup, numbers, shell, data>>
    BY <1>0, <1>10, ServedKeeps DEF OnData
  <2> QED
    BY <1>0, <2>2, <2>3 DEF IInv, NumberTypes, ShellTypes, DataTypes, numbers, shell, data
<1> QED
  BY <1>2, <1>5, <1>6, <1>7, <1>8, <1>9, <1>10

\* What a step of the shell does to its variables.
LEMMA PlaceTypes ==
  ASSUME ShellTypes, NEW n \in Nodes, NEW label \in Labels, Goto(n, label),
         label = "type" => access'[n].value # NoValue,
         left' = left \/ (\E S \in SUBSET (Nodes \ {n}) : left' = [left EXCEPT ![n] = S]),
         access' = access \/ (\E a \in Accesses : access' = [access EXCEPT ![n] = a]),
         shown' = shown \/ (\E v \in Values \cup {NoValue} : shown' = [shown EXCEPT ![n] = v])
  PROVE  ShellTypes'
<1>1. at' \in [Nodes -> Labels]
  BY DEF ShellTypes, Goto
<1>2. left' \in [Nodes -> SUBSET Nodes] /\ \A m \in Nodes : m \notin left'[m]
  BY DEF ShellTypes
<1>3. access' \in [Nodes -> Accesses]
  BY DEF ShellTypes
<1>4. shown' \in [Nodes -> Values \cup {NoValue}]
  BY DEF ShellTypes
<1>5. \A m \in Nodes : at'[m] = "type" => access'[m].value # NoValue
  BY DEF ShellTypes, Goto
<1> QED
  BY <1>1, <1>2, <1>3, <1>4, <1>5 DEF ShellTypes

\* The shell leaves a step that sends.
LEMMA SendingTypes ==
  ASSUME Queues, setup \in Setups, setup' = setup, NEW n \in Nodes, NEW msg \in Messages,
         msg.fn \in {"SURVEY", "REPLY"} => msg.UID = n, Send(n, msg, in_queue)
  PROVE  Queues'
BY SendKeeps

LEMMA CommandTypes ==
  ASSUME IInv, NEW n \in Nodes,
         \/ Survey(n) \/ SendSurvey(n) \/ EndSurvey(n) \/ Assign(n) \/ EndCommand(n) \/ Reply(n)
         \/ \E u \in Nodes : AssignOne(n, u) \/ RevokeOne(n, u)
         \/ \E id \in IDs : Revoke(n, id)
  PROVE  IInv'
<1>0. /\ NumberTypes /\ Queues /\ delayed \in [Nodes -> BOOLEAN] /\ ShellTypes /\ AckTypes /\ DataTypes
      /\ node_ID[n] \in IDs /\ setup \in Setups /\ setup' = setup
  BY SetupFixed DEF IInv, NumberTypes, Next
<1> USE DEF Labels
<1>1. CASE Survey(n)
  <2>1. node' = [node EXCEPT ![n] = Discarded] /\ UNCHANGED <<setup, node_ID>>
    BY <1>1 DEF Survey
  <2>2. Discarded \in [Nodes -> IDs \cup {NoEntry}] /\ Discarded[n] = NoEntry
    BY DEF Discarded
  <2>3. NumberTypes'
    BY <1>0, <2>1, <2>2 DEF NumberTypes
  <2>4. ShellTypes' /\ UNCHANGED <<queues, ack, data>>
    BY <1>0, <1>1, PlaceTypes DEF Survey
  <2> QED
    BY <1>0, <2>3, <2>4 DEF IInv, Queues, AckTypes, DataTypes, queues, ack, data
<1>2. CASE SendSurvey(n)
  <2>1. Send(n, [fn |-> "SURVEY", UID |-> n, ID |-> node_ID[n]], in_queue)
        /\ UNCHANGED <<setup, numbers, delayed, left, access, shown, ack, data>>
    BY <1>2 DEF SendSurvey
  <2>2. Queues'
    BY <1>0, <2>1, MessageForms, SendingTypes
  <2>3. ShellTypes'
    BY <1>0, <1>2, PlaceTypes DEF SendSurvey
  <2> QED
    BY <1>0, <2>1, <2>2, <2>3 DEF IInv, NumberTypes, AckTypes, DataTypes, numbers, ack, data
<1>3. CASE EndSurvey(n)
  <2>1. ShellTypes' /\ UNCHANGED <<setup, node_ID, node, queues, ack, data>>
    BY <1>0, <1>3, PlaceTypes DEF EndSurvey
  <2> QED
    BY <1>0, <2>1 DEF IInv, NumberTypes, Queues, AckTypes, DataTypes, queues, ack, data
<1>4. CASE Assign(n)
  <2>1. node_ID' = [node_ID EXCEPT ![n] = IF @ = 0 THEN AssignID(n) ELSE @]
        /\ UNCHANGED <<setup, node, queues, access, shown, ack, data>>
        /\ left' = [left EXCEPT ![n] = Nodes \ {n}]
    BY <1>4 DEF Assign
  <2>2. NumberTypes'
    BY <1>0, <2>1, AssignedIsFree DEF NumberTypes
  <2>3. Nodes \ {n} \in SUBSET (Nodes \ {n})
    OBVIOUS
  <2>4. ShellTypes'
    BY <1>0, <1>4, <2>1, <2>3, PlaceTypes DEF Assign
  <2> QED
    BY <1>0, <2>1, <2>2, <2>4 DEF IInv, Queues, AckTypes, DataTypes, queues, ack, data
<1>5. CASE EndCommand(n)
  <2>1. ShellTypes' /\ UNCHANGED <<setup, node_ID, node, queues, ack, data>>
    BY <1>0, <1>5, PlaceTypes DEF EndCommand
  <2> QED
    BY <1>0, <2>1 DEF IInv, NumberTypes, Queues, AckTypes, DataTypes, queues, ack, data
<1>6. CASE Reply(n)
  <2>1. Send(n, [fn |-> "REPLY", UID |-> n, ID |-> node_ID[n]], in_queue)
        /\ delayed' = [delayed EXCEPT ![n] = FALSE] /\ UNCHANGED <<setup, numbers, shell, ack, data>>
    BY <1>6 DEF Reply
  <2>2. Queues'
    BY <1>0, <2>1, MessageForms, SendingTypes
  <2> QED
    BY <1>0, <2>1, <2>2 DEF IInv, NumberTypes, ShellTypes, AckTypes, DataTypes, numbers, shell, ack, data
<1>7. ASSUME NEW u \in Nodes, AssignOne(n, u) PROVE IInv'
  <2>1. u \in left[n] /\ left' = [left EXCEPT ![n] = @ \ {u}] /\ u # n
        /\ UNCHANGED <<setup, node_ID, delayed, at, access, shown, ack, data>>
    BY <1>0, <1>7 DEF AssignOne, ShellTypes
  <2>2. NumberTypes' /\ Queues'
    <3>1. CASE node[n][u] = 0 /\ AssignID(n) # 0
      <4>1. node' = [node EXCEPT ![n][u] = AssignID(n)]
            /\ Send(n, [fn |-> "ASSIGN", UID |-> u, ID |-> AssignID(n)], in_queue)
        BY <1>7, <3>1 DEF AssignOne
      <4>2. NumberTypes'
        BY <1>0, <2>1, <4>1, AssignedIsFree DEF NumberTypes
      <4>3. Queues'
        BY <1>0, <4>1, MessageForms, SendingTypes, AssignedIsFree
      <4> QED
        BY <4>2, <4>3
    <3>2. CASE ~ (node[n][u] = 0 /\ AssignID(n) # 0)
      <4>1. UNCHANGED <<node, in_queue>>
        BY <1>7, <3>2 DEF AssignOne
      <4> QED
        BY <1>0, <2>1, <4>1 DEF NumberTypes, Queues
    <3> QED
      BY <3>1, <3>2
  <2>3. ShellTypes'
    BY <1>0, <2>1 DEF ShellTypes
  <2> QED
    BY <1>0, <2>1, <2>2, <2>3 DEF IInv, AckTypes, DataTypes, ack, data
<1>8. ASSUME NEW u \in Nodes, RevokeOne(n, u) PROVE IInv'
  <2>1. /\ u \in left[n] /\ left' = [left EXCEPT ![n] = @ \ {u}] /\ u # n
        /\ node' = [node EXCEPT ![n][u] = 0] /\ Send(n, [fn |-> "ASSIGN", UID |-> u, ID |-> 0], in_queue)
        /\ UNCHANGED <<setup, node_ID, delayed, at, access, shown, ack, data>>
    BY <1>0, <1>8 DEF RevokeOne, ShellTypes
  <2>2. 0 \in IDs
    BY Sizes DEF IDs
  <2>3. NumberTypes'
    BY <1>0, <2>1, <2>2 DEF NumberTypes
  <2>4. Queues'
    BY <1>0, <2>1, <2>2, MessageForms, SendingTypes
  <2>5. ShellTypes'
    BY <1>0, <2>1 DEF ShellTypes
  <2> QED
    BY <1>0, <2>1, <2>3, <2>4, <2>5 DEF IInv, AckTypes, DataTypes, ack, data
<1>9. ASSUME NEW id \in IDs, Revoke(n, id) PROVE IInv'
  <2>1. Revoked(n, id) \in SUBSET (Nodes \ {n})
    BY <1>0 DEF Revoked, Numbered, NumberTypes
  <2>2. left' = [left EXCEPT ![n] = Revoked(n, id)] /\ Goto(n, "revoke")
        /\ UNCHANGED <<setup, node_ID, node, queues, access, shown, ack, data>>
    BY <1>9 DEF Revoke
  <2>3. ShellTypes'
    BY <1>0, <2>1, <2>2, PlaceTypes
  <2> QED
    BY <1>0, <2>2, <2>3 DEF IInv, NumberTypes, Queues, AckTypes, DataTypes, queues, ack, data
<1> QED
  BY <1>1, <1>2, <1>3, <1>4, <1>5, <1>6, <1>7, <1>8, <1>9

LEMMA AccessTypes ==
  ASSUME IInv, NEW n \in Nodes,
         \/ Access(n) \/ TypeData(n) \/ TestSet(n) \/ SendSet(n) \/ Ask(n) \/ ClearReg(n)
         \/ SendGet(n) \/ EndAccess(n) \/ RegChange(n)
  PROVE  IInv'
<1>0. /\ NumberTypes /\ Queues /\ delayed \in [Nodes -> BOOLEAN] /\ ShellTypes /\ AckTypes /\ DataTypes
      /\ setup \in Setups /\ access[n] \in Accesses /\ reg_ID[n] \in Regs \cup {NoReg} /\ reg_DATA[n] \in Values
  BY DEF IInv, NumberTypes, ShellTypes, AckTypes
<1>1. access[n].node_ID \in IDs /\ access[n].reg \in Regs /\ access[n].value \in Values \cup {NoValue}
  BY <1>0 DEF Accesses
<1> USE DEF Labels
<1>2. CASE Access(n)
  <2>1. PICK a \in setup.accesses[n] :
          /\ access' = [access EXCEPT ![n] = a] /\ TypedReg(n, a)
          /\ Goto(n, IF a.value # NoValue THEN "type" ELSE "set")
          /\ held' = [held EXCEPT ![n] = {reg[m][a.reg] : m \in {m \in Nodes : node_ID[m] = a.node_ID}}
                                        \cup Answers(n, a.node_ID, a.reg)]
    BY <1>2 DEF Access
  <2>2. /\ shown' = [shown EXCEPT ![n] = NoValue] /\ owed' = [owed EXCEPT ![n] = node_ACK_ID[n] # 0]
        /\ UNCHANGED <<setup, numbers, queues, left, node_ACK_ID, reg_DATA, reg>>
    BY <1>2 DEF Access
  <2>3. a \in Accesses /\ a.reg \in Regs /\ a.value \in Values \cup {NoValue}
    BY <1>0, SetupTypes
  <2>4. ShellTypes'
    <3>1. /\ (IF a.value # NoValue THEN "type" ELSE "set") \in Labels
          /\ (IF a.value # NoValue THEN "type" ELSE "set") = "type" => access'[n].value # NoValue
      BY <1>0, <2>1 DEF ShellTypes
    <3> QED
      BY <1>0, <2>1, <2>2, <2>3, <3>1, PlaceTypes
  <2>5. AckTypes'
    BY <1>0, <2>1, <2>2, <2>3 DEF AckTypes, TypedReg
  <2>6. DataTypes'
    <3>1. {reg[m][a.reg] : m \in {m \in Nodes : node_ID[m] = a.node_ID}} \in SUBSET Values
      BY <1>0, <2>3 DEF DataTypes
    <3>2. Answers(n, a.node_ID, a.reg) \in SUBSET Values
      BY DEF Answers
    <3>3. held' \in [Nodes -> SUBSET Values]
      BY <1>0, <2>1, <3>1, <3>2 DEF DataTypes
    <3>4. owed' \in [Nodes -> BOOLEAN]
      BY <1>0, <2>2 DEF DataTypes
    <3> QED
      BY <1>0, <2>2, <3>3, <3>4 DEF DataTypes
  <2> QED
    BY <1>0, <2>2, <2>4, <2>5, <2>6 DEF IInv, NumberTypes, Queues, numbers, queues
<1>3. CASE TypeData(n)
  <2>1. /\ at[n] = "type" /\ Goto(n, "set") /\ reg_DATA' = [reg_DATA EXCEPT ![n] = access[n].value]
        /\ UNCHANGED <<setup, numbers, queues, left, access, shown, node_ACK_ID, reg_ID, data>>
    BY <1>3 DEF TypeData
  <2>2. ShellTypes'
    BY <1>0, <2>1, PlaceTypes
  <2>3. AckTypes'
    BY <1>0, <1>1, <2>1 DEF AckTypes, ShellTypes
  <2> QED
    BY <1>0, <2>1, <2>2, <2>3 DEF IInv, NumberTypes, Queues, DataTypes, numbers, queues, data
<1>4. CASE TestSet(n)
  <2>1. /\ Goto(n, IF reg_ID[n] = access[n].reg THEN "send" ELSE "ask")
        /\ UNCHANGED <<setup, numbers, queues, left, access, shown, ack, data>>
    BY <1>4 DEF TestSet
  <2>2. (IF reg_ID[n] = access[n].reg THEN "send" ELSE "ask") \in Labels
    OBVIOUS
  <2>3. ShellTypes'
    BY <1>0, <2>1, <2>2, PlaceTypes
  <2> QED
    BY <1>0, <2>1, <2>3 DEF IInv, NumberTypes, Queues, AckTypes, DataTypes, numbers, queues, ack, data
<1>5. CASE SendSet(n)
  <2>1. /\ Goto(n, "ask") /\ UNCHANGED <<setup, numbers, delayed, left, access, shown, ack, data>>
        /\ Send(n, [fn |-> "SET", ID |-> access[n].node_ID, reg |-> access[n].reg,
                   value |-> reg_DATA[n]], in_queue)
    BY <1>5 DEF SendSet
  <2>2. [fn |-> "SET", ID |-> access[n].node_ID, reg |-> access[n].reg, value |-> reg_DATA[n]] \in Messages
    BY <1>0, <1>1, MessageForms
  <2>3. Queues'
    BY <1>0, <2>1, <2>2, SendingTypes
  <2>4. ShellTypes'
    BY <1>0, <2>1, PlaceTypes
  <2> QED
    BY <1>0, <2>1, <2>3, <2>4 DEF IInv, NumberTypes, AckTypes, DataTypes, numbers, ack, data
<1>6. CASE Ask(n)
  <2>1. /\ Goto(n, "clear") /\ UNCHANGED <<setup, numbers, queues, left, access, shown, reg_ID, reg_DATA, data>>
        /\ node_ACK_ID' = [node_ACK_ID EXCEPT ![n] = access[n].node_ID]
    BY <1>6 DEF Ask
  <2>2. ShellTypes'
    BY <1>0, <2>1, PlaceTypes
  <2>3. AckTypes'
    BY <1>0, <1>1, <2>1 DEF AckTypes
  <2> QED
    BY <1>0, <2>1, <2>2, <2>3 DEF IInv, NumberTypes, Queues, DataTypes, numbers, queues, data
<1>7. CASE ClearReg(n)
  <2>1. /\ Goto(n, "get") /\ reg_ID' = [reg_ID EXCEPT ![n] = NoReg]
        /\ UNCHANGED <<setup, numbers, queues, left, access, shown, node_ACK_ID, reg_DATA, data>>
    BY <1>7 DEF ClearReg
  <2>2. ShellTypes'
    BY <1>0, <2>1, PlaceTypes
  <2>3. AckTypes'
    BY <1>0, <2>1 DEF AckTypes
  <2> QED
    BY <1>0, <2>1, <2>2, <2>3 DEF IInv, NumberTypes, Queues, DataTypes, numbers, queues, data
<1>8. CASE SendGet(n)
  <2>1. /\ Goto(n, "answer") /\ UNCHANGED <<setup, numbers, delayed, left, access, shown, ack, data>>
        /\ Send(n, [fn |-> "GET", ID |-> access[n].node_ID, reg |-> access[n].reg], in_queue)
    BY <1>8 DEF SendGet
  <2>2. Queues'
    BY <1>0, <1>1, <2>1, MessageForms, SendingTypes
  <2>3. ShellTypes'
    BY <1>0, <2>1, PlaceTypes
  <2> QED
    BY <1>0, <2>1, <2>2, <2>3 DEF IInv, NumberTypes, AckTypes, DataTypes, numbers, ack, data
<1>9. CASE EndAccess(n)
  <2>1. /\ Goto(n, "idle") /\ UNCHANGED <<setup, numbers, queues, left, access, ack, data>>
        /\ shown' = [shown EXCEPT ![n] =
             IF node_ACK_ID[n] = 0 /\ reg_ID[n] = access[n].reg THEN reg_DATA[n] ELSE NoValue]
    BY <1>9 DEF EndAccess
  <2>2. ShellTypes'
    BY <1>0, <2>1, PlaceTypes
  <2> QED
    BY <1>0, <2>1, <2>2 DEF IInv, NumberTypes, Queues, AckTypes, DataTypes, numbers, queues, ack, data
<1>10. CASE RegChange(n)
  <2>1. PICK r \in Regs, v \in Values : RegWrite(n, r, v, FALSE)
    BY <1>10 DEF RegChange
  <2>2. DataTypes'
    BY <1>0, <2>1, WriteTypes
  <2>3. UNCHANGED <<setup, numbers, queues, shell, ack>>
    BY <1>10 DEF RegChange
  <2> QED
    BY <1>0, <2>2, <2>3 DEF IInv, NumberTypes, Queues, ShellTypes, AckTypes, numbers, queues, shell, ack
<1> QED
  BY <1>2, <1>3, <1>4, <1>5, <1>6, <1>7, <1>8, <1>9, <1>10

LEMMA TypeStep == IInv /\ [Next]_vars => IInv'
<1>1. ASSUME IInv, Next PROVE IInv'
  BY <1>1, MessageTypes, CommandTypes, AccessTypes DEF Next
<1>2. ASSUME IInv, UNCHANGED vars PROVE IInv'
  BY <1>2 DEF IInv, NumberTypes, Queues, ShellTypes, AckTypes, DataTypes, vars, numbers, queues, shell,
       ack, data
<1> QED
  BY <1>1, <1>2

\* The node tables, the queues of messages and the variables of the shell keep
\* their types: no queue grows past its length, and no node lists itself.
THEOREM TypeCorrect == Spec => []TypeOK
<1> QED
  BY InitTypes, TypeStep, TypesOfParts, PTL DEF Spec

-----------------------------------------------------------------------------
(* Access to the registers of other nodes *)

Accessing == {"type", "set", "send", "ask", "clear", "get", "answer"}
Requests  == {"GET", "SET", "DATA"}

\* Nobody works on another node.
Unread ==
  /\ \A n \in Nodes : setup.accesses[n] = {}
  /\ \A n \in Nodes : at[n] \notin Accessing /\ shown[n] = NoValue

\* Nobody numbers the nodes.
Steady ==
  /\ setup.commands = {} /\ Distinct(node_ID)
  /\ \A n \in Nodes : ~ delayed[n] /\ at[n] \in {"idle"} \cup Accessing
  /\ \A n \in Nodes : \A i \in DOMAIN in_queue[n] : in_queue[n][i].fn \in Requests

\* An answer that n may take for its access has a value it may show.
Waiting(n) ==
  \A i \in DOMAIN in_queue[n] :
    /\ in_queue[n][i].fn = "DATA"
    /\ in_queue[n][i].ID = access[n].node_ID /\ in_queue[n][i].reg = access[n].reg
    => in_queue[n][i].value \in held[n]

\* So has the register itself, and what was taken.
Held(n) ==
  at[n] # "idle" =>
    /\ shown[n] = NoValue /\ Waiting(n)
    /\ \A m \in Nodes : node_ID[m] = access[n].node_ID => reg[m][access[n].reg] \in held[n]
    /\ HasAnswer(n) => reg_DATA[n] \in held[n]

Fresh(n) ==
  /\ Held(n) /\ (shown[n] # NoValue => shown[n] \in held[n])
  /\ at[n] \in {"clear", "get", "answer"} => node_ACK_ID[n] \in {0, access[n].node_ID}

\* What was typed is kept, as long as no answer is awaited.
Typed(n) ==
  ~ owed[n] =>
    /\ at[n] \in {"type", "set", "send"} => node_ACK_ID[n] = 0
    /\ at[n] = "type" => access[n].value # NoValue /\ reg_ID[n] = access[n].reg
    /\ at[n] = "set" => \/ access[n].value = NoValue /\ reg_ID[n] = NoReg
                        \/ /\ access[n].value # NoValue /\ reg_ID[n] = access[n].reg
                           /\ reg_DATA[n] = access[n].value
    /\ at[n] = "send" => access[n].value # NoValue /\ reg_DATA[n] = access[n].value

InShells == \A n \in Nodes : Fresh(n) /\ Typed(n)

AInv == IInv /\ (Unread \/ (Steady /\ InShells))

LEMMA InitAccess ==
  ASSUME Undisturbed, Init
  PROVE  AInv
<1>1. setup \in Setups /\ node_ID \in setup.first
  BY DEF Init
<1>2. /\ in_queue = [n \in Nodes |-> <<>>] /\ delayed = [n \in Nodes |-> FALSE]
      /\ at = [n \in Nodes |-> "idle"] /\ node_ACK_ID = [n \in Nodes |-> 0]
      /\ shown = [n \in Nodes |-> NoValue]
  BY DEF Init
<1>3. \A n \in Nodes : DOMAIN in_queue[n] = {}
  BY <1>2
<1>4. IInv
  BY InitTypes
<1>5. CASE \A n \in Nodes : setup.accesses[n] = {}
  BY <1>2, <1>4, <1>5 DEF AInv, Unread, Accessing
<1>6. CASE ~ \A n \in Nodes : setup.accesses[n] = {}
  <2>1. setup.commands = {} /\ Distinct(node_ID)
    BY <1>1, <1>6 DEF Undisturbed
  <2>2. Steady
    BY <1>2, <1>3, <2>1 DEF Steady
  <2>3. InShells
    BY <1>2 DEF InShells, Fresh, Held, Typed
  <2> QED
    BY <1>4, <2>2, <2>3 DEF AInv
<1> QED
  BY <1>5, <1>6

LEMMA AccessIsOf ==
  ASSUME IInv, NEW n \in Nodes
  PROVE  /\ access[n].node_ID # 0 /\ access[n].node_ID \in IDs
         /\ access[n].reg \in Regs /\ access[n].reg # NoReg
<1>1. access[n] \in Accesses
  BY DEF IInv, ShellTypes
<1> QED
  BY <1>1, Sizes DEF Accesses

LEMMA UnreadStep ==
  ASSUME IInv, Unread, [Next]_vars
  PROVE  Unread'
<1> DEFINE Place == \A n \in Nodes : at'[n] \notin Accessing /\ shown'[n] = NoValue
<1>0. /\ \A n \in Nodes : setup.accesses[n] = {}
      /\ \A n \in Nodes : at[n] \notin Accessing /\ shown[n] = NoValue
      /\ at \in [Nodes -> Labels]
  BY DEF Unread, IInv, ShellTypes
<1>a. SUFFICES Place
  BY <1>0, SetupFixed DEF Unread
<1>1. ASSUME NEW n \in Nodes,
             \/ MessageIn(n) \/ Reply(n) \/ RegChange(n)
             \/ \E u \in Nodes : AssignOne(n, u) \/ RevokeOne(n, u)
      PROVE  Place
  <2>1. UNCHANGED <<at, shown>>
    BY <1>1 DEF MessageIn, OnSurvey, OnAssign, OnReply, OnGet, OnSet, OnData, Reply, AssignOne,
         RevokeOne, RegChange, shell
  <2> QED
    BY <1>0, <2>1
<1>2. ASSUME NEW n \in Nodes,
             \/ Survey(n) \/ SendSurvey(n) \/ EndSurvey(n) \/ Assign(n) \/ EndCommand(n)
             \/ \E id \in IDs : Revoke(n, id)
      PROVE  Place
  <2>1. shown' = shown /\ \E label \in Labels \ Accessing : at' = [at EXCEPT ![n] = label]
    BY <1>2 DEF Survey, SendSurvey, EndSurvey, Assign, EndCommand, Revoke, Goto, shell, Labels, Accessing
  <2> QED
    BY <1>0, <2>1
<1>3. ASSUME NEW n \in Nodes
      PROVE  ~ (\/ Access(n) \/ TypeData(n) \/ TestSet(n) \/ SendSet(n) \/ Ask(n) \/ ClearReg(n)
                \/ SendGet(n) \/ EndAccess(n))
  BY <1>0 DEF Access, TypeData, TestSet, SendSet, Ask, ClearReg, SendGet, EndAccess, Accessing
<1> HIDE DEF Place
<1>4. CASE UNCHANGED vars
  <2>1. UNCHANGED <<at, shown>>
    BY <1>4 DEF vars, shell
  <2> QED
    BY <1>0, <2>1 DEF Place
<1> QED
  BY <1>1, <1>2, <1>3, <1>4 DEF Next

\* Where nobody numbers the nodes there are only the steps of accesses.
LEMMA SteadySteps ==
  ASSUME IInv, Steady, NEW n \in Nodes
  PROVE  /\ ~ (Reply(n) \/ Survey(n) \/ SendSurvey(n) \/ EndSurvey(n) \/ Assign(n) \/ EndCommand(n))
         /\ \A u \in Nodes : ~ (AssignOne(n, u) \/ RevokeOne(n, u))
         /\ \A id \in IDs : ~ Revoke(n, id)
         /\ MessageIn(n) =>
              /\ in_queue[n] # <<>>
              /\ \E msg \in Messages : /\ 1 \in DOMAIN in_queue[n] /\ msg = in_queue[n][1]
                                       /\ OnGet(n, msg) \/ OnSet(n, msg) \/ OnData(n, msg)
<1>1. /\ setup.commands = {} /\ ~ delayed[n] /\ at[n] \in {"idle"} \cup Accessing
      /\ \A i \in DOMAIN in_queue[n] : in_queue[n][i].fn \in Requests
  BY DEF Steady
<1>2. ~ (Reply(n) \/ Survey(n) \/ SendSurvey(n) \/ EndSurvey(n) \/ Assign(n) \/ EndCommand(n))
  BY <1>1 DEF Reply, Survey, SendSurvey, EndSurvey, Assign, EndCommand, Accessing
<1>3. \A u \in Nodes : ~ (AssignOne(n, u) \/ RevokeOne(n, u))
  BY <1>1 DEF AssignOne, RevokeOne, Accessing
<1>4. \A id \in IDs : ~ Revoke(n, id)
  BY <1>1 DEF Revoke
<1>5. ASSUME MessageIn(n)
      PROVE  /\ in_queue[n] # <<>>
             /\ \E msg \in Messages : /\ 1 \in DOMAIN in_queue[n] /\ msg = in_queue[n][1]
                                      /\ OnGet(n, msg) \/ OnSet(n, msg) \/ OnData(n, msg)
  <2> DEFINE msg == Head(in_queue[n])
  <2>1. in_queue[n] # <<>>
    BY <1>5 DEF MessageIn
  <2>2. msg \in Messages /\ 1 \in DOMAIN in_queue[n] /\ msg = in_queue[n][1]
    BY <2>1, QueueServed, SetupTypes DEF IInv, Queues, NumberTypes
  <2>3. /\ OnSurvey(n, msg) \/ OnAssign(n, msg) \/ OnReply(n, msg)
           \/ OnGet(n, msg) \/ OnSet(n, msg) \/ OnData(n, msg)
    BY <1>5 DEF MessageIn
  <2> HIDE DEF msg
  <2>4. msg.fn \in Requests
    BY <1>1, <2>2
  <2>5. OnGet(n, msg) \/ OnSet(n, msg) \/ OnData(n, msg)
    BY <2>3, <2>4 DEF OnSurvey, OnAssign, OnReply, Requests
  <2> QED
    BY <2>1, <2>2, <2>5
<1> QED
  BY <1>2, <1>3, <1>4, <1>5

\* Every message that waits after a step waited before it, or it is the one sent.
NoneBut(msg) ==
  \A m \in Nodes : \A i \in DOMAIN in_queue'[m] :
    in_queue'[m][i] = msg \/ \E j \in DOMAIN in_queue[m] : in_queue'[m][i] = in_queue[m][j]

NoneNew ==
  \A m \in Nodes : \A i \in DOMAIN in_queue'[m] :
    \E j \in DOMAIN in_queue[m] : in_queue'[m][i] = in_queue[m][j]

LEMMA MessageSent ==
  ASSUME IInv, NEW n \in Nodes, NEW msg \in Messages, NEW queue,
         queue = in_queue \/ (in_queue[n] # <<>> /\ queue = Queue(n)), Send(n, msg, queue)
  PROVE  NoneBut(msg)
<1>1. /\ setup.room \in Nat /\ in_queue \in [Nodes -> Seq(Messages)]
      /\ \A m \in Nodes : Len(in_queue[m]) <= setup.room
  BY SetupTypes DEF IInv, Queues, NumberTypes
<1>2. /\ queue \in [Nodes -> Seq(Messages)] /\ \A m \in Nodes : Len(queue[m]) <= setup.room
      /\ \A m \in Nodes : \A i \in DOMAIN queue[m] :
           \E j \in DOMAIN in_queue[m] : queue[m][i] = in_queue[m][j]
  BY <1>1, QueueServed
<1>3. \A m \in Nodes : \A i \in DOMAIN in_queue'[m] :
        \/ i \in DOMAIN queue[m] /\ in_queue'[m][i] = queue[m][i]
        \/ Added(n, m, msg, i, queue)
  BY <1>1, <1>2, SendOne
<1> QED
  BY <1>2, <1>3 DEF NoneBut, Added

LEMMA MessageTaken ==
  ASSUME IInv, NEW n \in Nodes, in_queue[n] # <<>>, in_queue' = Queue(n)
  PROVE  NoneNew
BY QueueServed, SetupTypes DEF IInv, Queues, NumberTypes, NoneNew

LEMMA SteadyStays ==
  ASSUME IInv, Steady, UNCHANGED <<setup, node_ID, delayed>>,
         at' \in [Nodes -> {"idle"} \cup Accessing],
         NoneNew \/ \E msg : msg.fn \in Requests /\ NoneBut(msg)
  PROVE  Steady'
<1>1. \A m \in Nodes : \A i \in DOMAIN in_queue'[m] : in_queue'[m][i].fn \in Requests
  BY DEF Steady, NoneNew, NoneBut
<1> QED
  BY <1>1 DEF Steady

\* A step that leaves the variables of the shell of o alone, but perhaps its history.
Same(o) ==
  /\ at'[o] = at[o] /\ access'[o] = access[o] /\ node_ACK_ID'[o] = node_ACK_ID[o]
  /\ reg_ID'[o] = reg_ID[o] /\ reg_DATA'[o] = reg_DATA[o] /\ shown'[o] = shown[o]
  /\ owed'[o] = owed[o]

\* What came in by it, if anything, the access may show.
LEMMA WaitingStays ==
  ASSUME NEW o \in Nodes, Waiting(o), access'[o] = access[o], held'[o] = held[o],
         \/ NoneNew
         \/ \E msg : /\ NoneBut(msg)
                     /\ msg.fn = "DATA" /\ msg.ID = access[o].node_ID /\ msg.reg = access[o].reg
                        => msg.value \in held[o]
  PROVE  Waiting(o)'
BY DEF Waiting, NoneNew, NoneBut

LEMMA ShellStays ==
  ASSUME NEW o \in Nodes, Fresh(o), Typed(o), Same(o), held'[o] = held[o], node_ID' = node_ID, reg' = reg,
         at[o] # "idle" /\ Waiting(o) => Waiting(o)'
  PROVE  Fresh(o)' /\ Typed(o)'
<1>1. Typed(o)'
  BY DEF Typed, Same
<1>2. HasAnswer(o)' = HasAnswer(o)
  BY DEF HasAnswer, Same
<1>3. Held(o)'
  <2> SUFFICES ASSUME at'[o] # "idle"
               PROVE  /\ shown'[o] = NoValue /\ Waiting(o)'
                      /\ \A m \in Nodes : node_ID'[m] = access'[o].node_ID => reg'[m][access'[o].reg] \in held'[o]
                      /\ HasAnswer(o)' => reg_DATA'[o] \in held'[o]
    BY DEF Held
  <2>1. at[o] # "idle"
    BY DEF Same
  <2>2. /\ shown[o] = NoValue /\ Waiting(o)
        /\ \A m \in Nodes : node_ID[m] = access[o].node_ID => reg[m][access[o].reg] \in held[o]
        /\ HasAnswer(o) => reg_DATA[o] \in held[o]
    BY <2>1 DEF Fresh, Held
  <2> QED
    BY <1>2, <2>1, <2>2 DEF Same
<1>4. /\ shown'[o] # NoValue => shown'[o] \in held'[o]
      /\ at'[o] \in {"clear", "get", "answer"} => node_ACK_ID'[o] \in {0, access'[o].node_ID}
  BY DEF Fresh, Same
<1> QED
  BY <1>1, <1>3, <1>4 DEF Fresh

\* The other nodes when the shell of n makes a step.
LEMMA OthersStay ==
  ASSUME InShells, NEW n \in Nodes, \A o \in Nodes : o # n => Same(o) /\ held'[o] = held[o],
         node_ID' = node_ID, reg' = reg,
         NoneNew \/ \E msg : msg.fn # "DATA" /\ NoneBut(msg)
  PROVE  \A o \in Nodes : o # n => Fresh(o)' /\ Typed(o)'
<1> SUFFICES ASSUME NEW o \in Nodes, o # n PROVE Fresh(o)' /\ Typed(o)'
  OBVIOUS
<1>1. Same(o) /\ held'[o] = held[o] /\ Fresh(o) /\ Typed(o)
  BY DEF InShells
<1>2. Waiting(o) => Waiting(o)'
  BY <1>1, WaitingStays DEF Same
<1> QED
  BY <1>1, <1>2, ShellStays

\* An answer that waits at n is among those counted when an access begins, or when
\* a register is written.
LEMMA AnswerCounts ==
  ASSUME IInv, NEW n \in Nodes, NEW i \in DOMAIN in_queue[n], in_queue[n][i].fn = "DATA"
  PROVE  in_queue[n][i].value \in Answers(n, in_queue[n][i].ID, in_queue[n][i].reg)
<1> DEFINE msg == in_queue[n][i]
<1>1. msg \in Messages
  BY DEF IInv, Queues
<1>2. \A x \in Messages : x.fn = "DATA" =>
        x.value \in Values /\ x = [fn |-> "DATA", ID |-> x.ID, reg |-> x.reg, value |-> x.value]
  BY DEF Messages
<1>3. msg.value \in Values /\ msg = [fn |-> "DATA", ID |-> msg.ID, reg |-> msg.reg, value |-> msg.value]
  BY <1>1, <1>2
<1> QED
  BY <1>3 DEF Answers

LEMMA AccessBegins ==
  ASSUME IInv, Steady, InShells, NEW n \in Nodes, Access(n)
  PROVE  Steady' /\ InShells'
<1>0. /\ at \in [Nodes -> Labels] /\ access \in [Nodes -> Accesses] /\ shown \in [Nodes -> Values \cup {NoValue}]
      /\ reg_ID \in [Nodes -> Regs \cup {NoReg}] /\ held \in [Nodes -> SUBSET Values]
      /\ owed \in [Nodes -> BOOLEAN] /\ reg \in [Nodes -> [Regs -> Values]]
  BY DEF IInv, ShellTypes, AckTypes, DataTypes
<1>1. PICK a \in setup.accesses[n] :
        /\ access' = [access EXCEPT ![n] = a] /\ TypedReg(n, a)
        /\ Goto(n, IF a.value # NoValue THEN "type" ELSE "set")
        /\ held' = [held EXCEPT ![n] = {reg[m][a.reg] : m \in {m \in Nodes : node_ID[m] = a.node_ID}}
                                      \cup Answers(n, a.node_ID, a.reg)]
  BY DEF Access
<1>2. /\ shown' = [shown EXCEPT ![n] = NoValue] /\ owed' = [owed EXCEPT ![n] = node_ACK_ID[n] # 0]
      /\ setup' = setup /\ node_ID' = node_ID /\ in_queue' = in_queue /\ delayed' = delayed
      /\ node_ACK_ID' = node_ACK_ID /\ reg_DATA' = reg_DATA /\ reg' = reg
  BY DEF Access, numbers, queues
<1>3. /\ at' = [at EXCEPT ![n] = IF a.value # NoValue THEN "type" ELSE "set"]
      /\ reg_ID' = [reg_ID EXCEPT ![n] = IF a.value # NoValue THEN a.reg ELSE NoReg]
  BY <1>1 DEF Goto, TypedReg
<1>4. NoneNew
  BY <1>2 DEF NoneNew
<1>5. Steady'
  <2>1. at' \in [Nodes -> {"idle"} \cup Accessing]
    BY <1>0, <1>3 DEF Steady, Accessing
  <2> QED
    BY <1>2, <1>4, <2>1, SteadyStays
<1>6. \A o \in Nodes : o # n => Fresh(o)' /\ Typed(o)'
  <2>1. \A o \in Nodes : o # n => Same(o) /\ held'[o] = held[o]
    BY <1>0, <1>1, <1>2, <1>3 DEF Same
  <2> QED
    BY <1>2, <1>4, <2>1, OthersStay
<1>7. /\ access'[n] = a /\ at'[n] \in {"type", "set"} /\ (at'[n] = "type" <=> a.value # NoValue)
      /\ shown'[n] = NoValue /\ owed'[n] = (node_ACK_ID[n] # 0) /\ node_ACK_ID'[n] = node_ACK_ID[n]
      /\ reg_ID'[n] = IF a.value # NoValue THEN a.reg ELSE NoReg
      /\ held'[n] = {reg[m][a.reg] : m \in {m \in Nodes : node_ID[m] = a.node_ID}}
                    \cup Answers(n, a.node_ID, a.reg)
  BY <1>0, <1>1, <1>2, <1>3
<1>8. Fresh(n)'
  <2>1. Waiting(n)'
    BY <1>2, <1>7, AnswerCounts DEF Waiting
  <2>2. \A m \in Nodes : node_ID'[m] = access'[n].node_ID => reg'[m][access'[n].reg] \in held'[n]
    BY <1>2, <1>7
  <2>3. ~ HasAnswer(n)'
    BY <1>7 DEF HasAnswer
  <2> QED
    BY <1>7, <2>1, <2>2, <2>3 DEF Fresh, Held
<1>9. Typed(n)'
  BY <1>7 DEF Typed
<1> QED
  BY <1>5, <1>6, <1>8, <1>9 DEF InShells

\* What the shell of n has done in a step that neither ends an access nor begins one.
Goes(n, label) ==
  /\ at' = [at EXCEPT ![n] = label] /\ label \in Accessing /\ at[n] # "idle"
  /\ setup' = setup /\ node_ID' = node_ID /\ delayed' = delayed /\ access' = access /\ shown' = shown
  /\ reg' = reg /\ held' = held /\ owed' = owed

\* Then it remains to look at its own variables.
LEMMA ShellGoes ==
  ASSUME IInv, Steady, InShells, NEW n \in Nodes, NEW label, Goes(n, label),
         NoneNew \/ \E msg : msg.fn \in {"GET", "SET"} /\ NoneBut(msg),
         \A o \in Nodes : o # n =>
           node_ACK_ID'[o] = node_ACK_ID[o] /\ reg_ID'[o] = reg_ID[o] /\ reg_DATA'[o] = reg_DATA[o],
         at'[n] = label /\ HasAnswer(n)' => reg_DATA'[n] \in held[n],
         at'[n] = label /\ at'[n] \in {"clear", "get", "answer"} => node_ACK_ID'[n] \in {0, access[n].node_ID},
         at'[n] = label => Typed(n)'
  PROVE  Steady' /\ InShells'
<1>0. at \in [Nodes -> Labels]
  BY DEF IInv, ShellTypes
<1>1. at'[n] = label /\ \A o \in Nodes : o # n => at'[o] = at[o]
  BY <1>0 DEF Goes
<1>2. NoneNew \/ \E msg : msg.fn \in Requests /\ msg.fn # "DATA" /\ NoneBut(msg)
  BY DEF Requests
<1>3. Steady'
  <2>1. at' \in [Nodes -> {"idle"} \cup Accessing]
    BY <1>0 DEF Steady, Goes
  <2> QED
    BY <1>2, <2>1, SteadyStays DEF Goes
<1>4. \A o \in Nodes : o # n => Fresh(o)' /\ Typed(o)'
  <2>1. \A o \in Nodes : o # n => Same(o) /\ held'[o] = held[o]
    BY <1>1 DEF Same, Goes
  <2> QED
    BY <1>2, <2>1, OthersStay DEF Goes
<1>5. Fresh(n)'
  <2>1. /\ shown[n] = NoValue /\ Waiting(n)
        /\ \A m \in Nodes : node_ID[m] = access[n].node_ID => reg[m][access[n].reg] \in held[n]
    BY DEF InShells, Fresh, Held, Goes
  <2>2. Waiting(n)'
    BY <1>2, <2>1, WaitingStays DEF Goes
  <2>3. shown'[n] = NoValue /\ access'[n] = access[n] /\ held'[n] = held[n]
        /\ node_ID' = node_ID /\ reg' = reg
    BY <2>1 DEF Goes
  <2>4. Held(n)'
    BY <1>1, <2>1, <2>2, <2>3 DEF Held
  <2> QED
    BY <1>1, <2>3, <2>4 DEF Fresh
<1> QED
  BY <1>1, <1>3, <1>4, <1>5 DEF InShells

LEMMA AccessGoes ==
  ASSUME IInv, Steady, InShells, NEW n \in Nodes,
         TypeData(n) \/ TestSet(n) \/ SendSet(n) \/ Ask(n) \/ ClearReg(n) \/ SendGet(n)
  PROVE  Steady' /\ InShells'
<1>0. /\ node_ACK_ID \in [Nodes -> IDs] /\ reg_ID \in [Nodes -> Regs \cup {NoReg}]
      /\ reg_DATA \in [Nodes -> Values] /\ at \in [Nodes -> Labels]
  BY DEF IInv, AckTypes, ShellTypes
<1>1. /\ access[n].node_ID \in IDs /\ access[n].reg \in Regs /\ access[n].reg # NoReg
      /\ reg_DATA[n] \in Values
  BY <1>0, AccessIsOf
<1>2. Fresh(n) /\ Typed(n)
  BY DEF InShells
<1>3. in_queue' = in_queue => NoneNew
  BY DEF NoneNew
<1>4. CASE TypeData(n)
  <2>1. /\ at[n] = "type" /\ Goes(n, "set") /\ in_queue' = in_queue
        /\ reg_DATA' = [reg_DATA EXCEPT ![n] = access[n].value]
        /\ node_ACK_ID' = node_ACK_ID /\ reg_ID' = reg_ID
    BY <1>4 DEF TypeData, Goto, Goes, Accessing, numbers, queues, data
  <2>2. at'[n] = "set" => ~ HasAnswer(n)'
    BY DEF HasAnswer
  <2>3. at'[n] = "set" => Typed(n)'
    BY <1>0, <1>2, <2>1 DEF Typed, Goes
  <2>4. \A o \in Nodes : o # n =>
          node_ACK_ID'[o] = node_ACK_ID[o] /\ reg_ID'[o] = reg_ID[o] /\ reg_DATA'[o] = reg_DATA[o]
    BY <1>0, <2>1
  <2> QED
    BY <1>3, <2>1, <2>2, <2>3, <2>4, ShellGoes
<1>5. CASE TestSet(n)
  <2> DEFINE label == IF reg_ID[n] = access[n].reg THEN "send" ELSE "ask"
  <2>1. /\ at[n] = "set" /\ Goes(n, label) /\ in_queue' = in_queue
        /\ node_ACK_ID' = node_ACK_ID /\ reg_ID' = reg_ID /\ reg_DATA' = reg_DATA
    BY <1>5 DEF TestSet, Goto, Goes, Accessing, numbers, queues, data, ack
  <2>2. label \in {"send", "ask"} /\ (label = "send" => reg_ID[n] = access[n].reg)
    OBVIOUS
  <2> HIDE DEF label
  <2>3. at'[n] = label => ~ HasAnswer(n)'
    BY <2>2 DEF HasAnswer
  <2>4. at'[n] = label => Typed(n)'
    BY <1>0, <1>1, <1>2, <2>1, <2>2 DEF Typed, Goes
  <2>5. \A o \in Nodes : o # n =>
          node_ACK_ID'[o] = node_ACK_ID[o] /\ reg_ID'[o] = reg_ID[o] /\ reg_DATA'[o] = reg_DATA[o]
    BY <2>1
  <2>6. at'[n] = label => at'[n] \notin {"clear", "get", "answer"}
    BY <2>2
  <2> QED
    BY <1>3, <2>1, <2>3, <2>4, <2>5, <2>6, ShellGoes
<1>6. CASE SendSet(n)
  <2> DEFINE msg == [fn |-> "SET", ID |-> access[n].node_ID, reg |-> access[n].reg, value |-> reg_DATA[n]]
  <2>1. /\ at[n] = "send" /\ Goes(n, "ask") /\ Send(n, msg, in_queue)
        /\ node_ACK_ID' = node_ACK_ID /\ reg_ID' = reg_ID /\ reg_DATA' = reg_DATA
    BY <1>6 DEF SendSet, Goto, Goes, Accessing, numbers, data, ack
  <2>2. msg \in Messages /\ msg.fn = "SET"
    BY <1>1, MessageForms
  <2> HIDE DEF msg
  <2>3. NoneBut(msg)
    BY <2>1, <2>2, MessageSent
  <2>4. at'[n] = "ask" => ~ HasAnswer(n)' /\ Typed(n)'
    BY DEF HasAnswer, Typed
  <2>5. \A o \in Nodes : o # n =>
          node_ACK_ID'[o] = node_ACK_ID[o] /\ reg_ID'[o] = reg_ID[o] /\ reg_DATA'[o] = reg_DATA[o]
    BY <2>1
  <2> QED
    BY <2>1, <2>2, <2>3, <2>4, <2>5, ShellGoes
<1>7. CASE Ask(n)
  <2>1. /\ at[n] = "ask" /\ Goes(n, "clear") /\ in_queue' = in_queue
        /\ node_ACK_ID' = [node_ACK_ID EXCEPT ![n] = access[n].node_ID]
        /\ reg_ID' = reg_ID /\ reg_DATA' = reg_DATA
    BY <1>7 DEF Ask, Goto, Goes, Accessing, numbers, queues, data
  <2>2. at'[n] = "clear" => ~ HasAnswer(n)' /\ Typed(n)'
    BY DEF HasAnswer, Typed
  <2>3. node_ACK_ID'[n] = access[n].node_ID
        /\ \A o \in Nodes : o # n =>
             node_ACK_ID'[o] = node_ACK_ID[o] /\ reg_ID'[o] = reg_ID[o] /\ reg_DATA'[o] = reg_DATA[o]
    BY <1>0, <2>1
  <2> QED
    BY <1>3, <2>1, <2>2, <2>3, ShellGoes
<1>8. CASE ClearReg(n)
  <2>1. /\ at[n] = "clear" /\ Goes(n, "get") /\ in_queue' = in_queue
        /\ reg_ID' = [reg_ID EXCEPT ![n] = NoReg]
        /\ node_ACK_ID' = node_ACK_ID /\ reg_DATA' = reg_DATA
    BY <1>8 DEF ClearReg, Goto, Goes, Accessing, numbers, queues, data
  <2>2. reg_ID'[n] = NoReg /\ access'[n] = access[n]
        /\ \A o \in Nodes : o # n =>
             node_ACK_ID'[o] = node_ACK_ID[o] /\ reg_ID'[o] = reg_ID[o] /\ reg_DATA'[o] = reg_DATA[o]
    BY <1>0, <2>1 DEF Goes
  <2>3. at'[n] = "get" => ~ HasAnswer(n)' /\ Typed(n)'
    BY <1>1, <2>2 DEF HasAnswer, Typed
  <2>4. node_ACK_ID'[n] \in {0, access[n].node_ID}
    BY <1>2, <2>1 DEF Fresh
  <2> QED
    BY <1>3, <2>1, <2>2, <2>3, <2>4, ShellGoes
<1>9. CASE SendGet(n)
  <2> DEFINE msg == [fn |-> "GET", ID |-> access[n].node_ID, reg |-> access[n].reg]
  <2>1. /\ at[n] = "get" /\ Goes(n, "answer") /\ Send(n, msg, in_queue)
        /\ node_ACK_ID' = node_ACK_ID /\ reg_ID' = reg_ID /\ reg_DATA' = reg_DATA
    BY <1>9 DEF SendGet, Goto, Goes, Accessing, numbers, data, ack
  <2>2. msg \in Messages /\ msg.fn = "GET"
    BY <1>1, MessageForms
  <2> HIDE DEF msg
  <2>3. NoneBut(msg)
    BY <2>1, <2>2, MessageSent
  <2>4. at'[n] = "answer" => Typed(n)'
    BY DEF Typed
  <2>5. HasAnswer(n)' => reg_DATA'[n] \in held[n]
    BY <1>2, <2>1 DEF HasAnswer, Goes, Fresh, Held
  <2>6. node_ACK_ID'[n] \in {0, access[n].node_ID}
    BY <1>2, <2>1 DEF Fresh
  <2>7. \A o \in Nodes : o # n =>
          node_ACK_ID'[o] = node_ACK_ID[o] /\ reg_ID'[o] = reg_ID[o] /\ reg_DATA'[o] = reg_DATA[o]
    BY <2>1
  <2> QED
    BY <2>1, <2>2, <2>3, <2>4, <2>5, <2>6, <2>7, ShellGoes
<1> QED
  BY <1>4, <1>5, <1>6, <1>7, <1>8, <1>9

LEMMA AccessEnds ==
  ASSUME IInv, Steady, InShells, NEW n \in Nodes, EndAccess(n)
  PROVE  Steady' /\ InShells'
<1>0. at \in [Nodes -> Labels] /\ shown \in [Nodes -> Values \cup {NoValue}]
  BY DEF IInv, ShellTypes
<1>1. /\ at[n] = "answer" /\ at' = [at EXCEPT ![n] = "idle"]
      /\ shown' = [shown EXCEPT ![n] =
           IF node_ACK_ID[n] = 0 /\ reg_ID[n] = access[n].reg THEN reg_DATA[n] ELSE NoValue]
      /\ UNCHANGED <<setup, node_ID, in_queue, delayed, access, node_ACK_ID, reg_ID, reg_DATA, reg, held, owed>>
  BY DEF EndAccess, Goto, numbers, queues, ack, data
<1>2. NoneNew
  BY <1>1 DEF NoneNew
<1>3. Steady'
  <2>1. at' \in [Nodes -> {"idle"} \cup Accessing]
    BY <1>0, <1>1 DEF Steady
  <2> QED
    BY <1>1, <1>2, <2>1, SteadyStays
<1>4. \A o \in Nodes : o # n => Fresh(o)' /\ Typed(o)'
  <2>1. \A o \in Nodes : o # n => Same(o) /\ held'[o] = held[o]
    BY <1>0, <1>1 DEF Same
  <2> QED
    BY <1>1, <1>2, <2>1, OthersStay
<1>5. at'[n] = "idle" /\ held'[n] = held[n]
      /\ shown'[n] = IF node_ACK_ID[n] = 0 /\ reg_ID[n] = access[n].reg THEN reg_DATA[n] ELSE NoValue
  BY <1>0, <1>1
<1>6. shown'[n] # NoValue => shown'[n] \in held'[n]
  BY <1>1, <1>5 DEF InShells, Fresh, Held, HasAnswer
<1>7. Fresh(n)' /\ Typed(n)'
  BY <1>5, <1>6 DEF Fresh, Held, Typed
<1> QED
  BY <1>3, <1>4, <1>7 DEF InShells

\* An answer is read by n; any it takes, has a value that its access may show.
LEMMA TakesData ==
  ASSUME IInv, Steady, InShells, NEW n \in Nodes, in_queue[n] # <<>>, NEW msg \in Messages,
         1 \in DOMAIN in_queue[n], msg = in_queue[n][1], OnData(n, msg)
  PROVE  Steady' /\ InShells'
<1>0. /\ node_ACK_ID \in [Nodes -> IDs] /\ reg_ID \in [Nodes -> Regs \cup {NoReg}]
      /\ reg_DATA \in [Nodes -> Values] /\ at \in [Nodes -> Labels]
  BY DEF IInv, AckTypes, ShellTypes
<1>1. /\ msg.fn = "DATA" /\ in_queue' = Queue(n)
      /\ UNCHANGED <<setup, node_ID, delayed, at, access, shown, reg, held, owed>>
  BY DEF OnData, numbers, shell, data
<1>2. NoneNew
  BY <1>1, MessageTaken
<1>3. Steady'
  <2>1. at' \in [Nodes -> {"idle"} \cup Accessing]
    BY <1>0, <1>1 DEF Steady
  <2> QED
    BY <1>1, <1>2, <2>1, SteadyStays
<1>4. Fresh(n) /\ Typed(n)
  BY DEF InShells
<1>5. CASE ~ MyAnswer(n, msg)
  <2>1. node_ACK_ID' = node_ACK_ID /\ reg_ID' = reg_ID /\ reg_DATA' = reg_DATA
    BY <1>5 DEF OnData, ack
  <2>2. ASSUME NEW o \in Nodes PROVE Fresh(o)' /\ Typed(o)'
    <3>1. Same(o) /\ Fresh(o) /\ Typed(o)
      BY <1>1, <2>1 DEF Same, InShells
    <3>2. Waiting(o) => Waiting(o)'
      BY <1>1, <1>2, WaitingStays
    <3> QED
      BY <1>1, <3>1, <3>2, ShellStays
  <2> QED
    BY <1>3, <2>2 DEF InShells
<1>6. CASE MyAnswer(n, msg)
  <2>1. /\ reg_ID' = [reg_ID EXCEPT ![n] = msg.reg] /\ reg_DATA' = [reg_DATA EXCEPT ![n] = msg.value]
        /\ node_ACK_ID' = [node_ACK_ID EXCEPT ![n] = 0]
        /\ node_ACK_ID[n] # 0 /\ msg.ID = node_ACK_ID[n]
    BY <1>6 DEF OnData, MyAnswer
  <2>2. reg_ID'[n] = msg.reg /\ reg_DATA'[n] = msg.value /\ node_ACK_ID'[n] = 0
    BY <1>0, <2>1
  <2>3. \A o \in Nodes : o # n => Fresh(o)' /\ Typed(o)'
    <3>1. \A o \in Nodes : o # n => Same(o) /\ held'[o] = held[o]
      BY <1>0, <1>1, <2>1 DEF Same
    <3> QED
      BY <1>1, <1>2, <3>1, OthersStay
  <2>4. Typed(n)'
    <3>1. ~ owed[n] => at[n] \notin {"type", "set", "send"}
      BY <1>4, <2>1 DEF Typed
    <3> QED
      BY <1>1, <3>1 DEF Typed
  <2>5. HasAnswer(n)' => reg_DATA'[n] \in held[n]
    <3> SUFFICES ASSUME HasAnswer(n)' PROVE msg.value \in held[n]
      BY <2>2
    <3>1. at[n] \in {"get", "answer"} /\ msg.reg = access[n].reg
      BY <1>1, <2>2 DEF HasAnswer
    <3>2. msg.ID = access[n].node_ID /\ Waiting(n)
      BY <1>4, <2>1, <3>1 DEF Fresh, Held
    <3> QED
      BY <1>1, <3>1, <3>2 DEF Waiting
  <2>6. Held(n)'
    <3> SUFFICES ASSUME at[n] # "idle" PROVE Held(n)'
      BY <1>1 DEF Held
    <3>1. /\ shown[n] = NoValue /\ Waiting(n)
          /\ \A m \in Nodes : node_ID[m] = access[n].node_ID => reg[m][access[n].reg] \in held[n]
      BY <1>4 DEF Fresh, Held
    <3>2. Waiting(n)'
      BY <1>1, <1>2, <3>1, WaitingStays
    <3> QED
      BY <1>1, <2>5, <3>1, <3>2 DEF Held
  <2>7. Fresh(n)'
    BY <1>1, <1>4, <2>2, <2>6 DEF Fresh
  <2> QED
    BY <1>3, <2>3, <2>4, <2>7 DEF InShells
<1> QED
  BY <1>5, <1>6

\* A register is read by another node: its value is one that every access to it may show.
LEMMA TakesGet ==
  ASSUME IInv, Steady, InShells, NEW n \in Nodes, in_queue[n] # <<>>, NEW msg \in Messages,
         1 \in DOMAIN in_queue[n], msg = in_queue[n][1], OnGet(n, msg)
  PROVE  Steady' /\ InShells'
<1>0. at \in [Nodes -> Labels] /\ reg \in [Nodes -> [Regs -> Values]] /\ node_ID[n] \in IDs
  BY DEF IInv, ShellTypes, DataTypes, NumberTypes
<1>1. /\ msg.fn = "GET" /\ UNCHANGED <<setup, node_ID, delayed, at, access, shown>>
      /\ UNCHANGED <<node_ACK_ID, reg_ID, reg_DATA, reg, held, owed>>
  BY DEF OnGet, numbers, shell, ack, data
<1>2. \E x : /\ NoneNew \/ (x.fn = "DATA" /\ x.ID = node_ID[n] /\ x.value = reg[n][x.reg] /\ NoneBut(x))
  <2>1. CASE msg.ID = node_ID[n]
    <3> DEFINE x == [fn |-> "DATA", ID |-> node_ID[n], reg |-> msg.reg, value |-> reg[n][msg.reg]]
    <3>1. Send(n, x, Queue(n))
      BY <2>1 DEF OnGet
    <3>2. msg.reg \in Regs /\ reg[n][msg.reg] \in Values
      BY <1>0, <1>1, MessageFields
    <3>3. x \in Messages
      BY <1>0, <3>2, MessageForms
    <3>4. x.fn = "DATA" /\ x.ID = node_ID[n] /\ x.value = reg[n][x.reg]
      OBVIOUS
    <3> HIDE DEF x
    <3>5. NoneBut(x)
      BY <3>1, <3>3, MessageSent
    <3> QED
      BY <3>4, <3>5
  <2>2. CASE msg.ID # node_ID[n]
    BY <2>2, MessageTaken DEF OnGet
  <2> QED
    BY <2>1, <2>2
<1>3. Steady'
  <2>1. at' \in [Nodes -> {"idle"} \cup Accessing]
    BY <1>0, <1>1 DEF Steady
  <2> QED
    BY <1>1, <1>2, <2>1, SteadyStays DEF Requests
<1>4. ASSUME NEW o \in Nodes PROVE Fresh(o)' /\ Typed(o)'
  <2>1. Same(o) /\ Fresh(o) /\ Typed(o)
    BY <1>1 DEF Same, InShells
  <2>2. ASSUME at[o] # "idle", Waiting(o) PROVE Waiting(o)'
    <3>1. \A m \in Nodes : node_ID[m] = access[o].node_ID => reg[m][access[o].reg] \in held[o]
      BY <2>1, <2>2 DEF Fresh, Held
    <3>2. \/ NoneNew
          \/ \E x : /\ NoneBut(x)
                    /\ x.fn = "DATA" /\ x.ID = access[o].node_ID /\ x.reg = access[o].reg => x.value \in held[o]
      BY <1>2, <3>1
    <3> QED
      BY <1>1, <2>2, <3>2, WaitingStays
  <2> QED
    BY <1>1, <2>1, <2>2, ShellStays
<1> QED
  BY <1>3, <1>4 DEF InShells

\* A register takes a value, which every access to it may show from then on.
LEMMA RegisterTakes ==
  ASSUME IInv, Steady, InShells, NEW n \in Nodes, NEW r \in Regs, NEW v \in Values, NEW written \in BOOLEAN,
         RegWrite(n, r, v, written), NoneNew,
         UNCHANGED <<setup, node_ID, delayed, shell, ack>>
  PROVE  Steady' /\ InShells'
<1>0. /\ at \in [Nodes -> Labels] /\ reg \in [Nodes -> [Regs -> Values]]
      /\ held \in [Nodes -> SUBSET Values]
  BY DEF IInv, ShellTypes, DataTypes
<1>1. /\ at' = at /\ access' = access /\ shown' = shown /\ node_ACK_ID' = node_ACK_ID
      /\ reg_ID' = reg_ID /\ reg_DATA' = reg_DATA /\ owed' = owed /\ node_ID' = node_ID
  BY DEF shell, ack, RegWrite
<1>2. reg' = [reg EXCEPT ![n][r] = v]
  BY DEF RegWrite
<1>3. \A m \in Nodes : \A q \in Regs : reg'[m][q] = IF m = n /\ q = r THEN v ELSE reg[m][q]
  BY <1>0, <1>2
<1>4. \A o \in Nodes : held'[o] = IF ~ InAccess(o, n, r) THEN held[o]
                                  ELSE {v} \cup IF written THEN Coming(o) ELSE held[o]
  BY DEF RegWrite
<1>5. Steady'
  <2>1. at' \in [Nodes -> {"idle"} \cup Accessing]
    BY <1>0, <1>1 DEF Steady
  <2> QED
    BY <1>1, <2>1, SteadyStays
<1>6. ASSUME NEW o \in Nodes PROVE Fresh(o)' /\ Typed(o)'
  <2>1. Fresh(o) /\ Typed(o)
    BY DEF InShells
  <2>2. Typed(o)'
    BY <1>1, <2>1 DEF Typed
  <2>3. HasAnswer(o)' = HasAnswer(o)
    BY <1>1 DEF HasAnswer
  <2>4. CASE at[o] = "idle"
    <3>1. held'[o] = held[o]
      BY <1>4, <2>4 DEF InAccess
    <3> QED
      BY <1>1, <2>1, <2>2, <2>4, <3>1 DEF Fresh, Held
  <2>5. CASE at[o] # "idle"
    <3>1. /\ shown[o] = NoValue /\ Waiting(o)
          /\ \A m \in Nodes : node_ID[m] = access[o].node_ID => reg[m][access[o].reg] \in held[o]
          /\ HasAnswer(o) => reg_DATA[o] \in held[o]
      BY <2>1, <2>5 DEF Fresh, Held
    <3>2. access[o].node_ID # 0 /\ access[o].reg \in Regs /\ at[o] \in Accessing
      BY <2>5, AccessIsOf DEF Steady
    <3>3. /\ \A i \in DOMAIN in_queue[o] :
               /\ in_queue[o][i].fn = "DATA"
               /\ in_queue[o][i].ID = access[o].node_ID /\ in_queue[o][i].reg = access[o].reg
               => in_queue[o][i].value \in held'[o]
          /\ \A m \in Nodes : node_ID[m] = access[o].node_ID => reg'[m][access[o].reg] \in held'[o]
          /\ HasAnswer(o) => reg_DATA[o] \in held'[o]
      <4>1. CASE ~ InAccess(o, n, r)
        <5>1. held'[o] = held[o]
          BY <1>4, <4>1
        <5>2. node_ID[n] # access[o].node_ID \/ access[o].reg # r
          BY <3>2, <4>1 DEF InAccess, Accessing
        <5> QED
          BY <1>3, <3>1, <3>2, <5>1, <5>2 DEF Waiting
      <4>2. CASE InAccess(o, n, r)
        <5>1. held'[o] = {v} \cup IF written THEN Coming(o) ELSE held[o]
          BY <1>4, <4>2
        <5>2. access[o].node_ID = node_ID[n] /\ access[o].reg = r
          BY <4>2 DEF InAccess
        <5>3. \A m \in Nodes : node_ID[m] = access[o].node_ID => m = n
          BY <3>2, <5>2 DEF Steady, Distinct
        <5>4. \A m \in Nodes : node_ID[m] = access[o].node_ID => reg'[m][access[o].reg] \in held'[o]
          BY <1>3, <5>1, <5>2, <5>3
        <5>5. \A i \in DOMAIN in_queue[o] :
                /\ in_queue[o][i].fn = "DATA"
                /\ in_queue[o][i].ID = access[o].node_ID /\ in_queue[o][i].reg = access[o].reg
                => in_queue[o][i].value \in held[o] /\ in_queue[o][i].value \in Coming(o)
          BY <3>1, AnswerCounts DEF Waiting, Coming
        <5>6. HasAnswer(o) => reg_DATA[o] \in held[o] /\ reg_DATA[o] \in Coming(o)
          BY <3>1 DEF Coming
        <5> QED
          BY <5>1, <5>4, <5>5, <5>6
      <4> QED
        BY <4>1, <4>2
    <3>4. Waiting(o)'
      BY <1>1, <3>3 DEF Waiting, NoneNew
    <3>5. Held(o)'
      BY <1>1, <2>3, <3>1, <3>3, <3>4 DEF Held
    <3> QED
      BY <1>1, <2>1, <2>2, <3>1, <3>5 DEF Fresh
  <2> QED
    BY <2>4, <2>5
<1> QED
  BY <1>5, <1>6 DEF InShells

LEMMA TakesSet ==
  ASSUME IInv, Steady, InShells, NEW n \in Nodes, in_queue[n] # <<>>, NEW msg \in Messages,
         1 \in DOMAIN in_queue[n], msg = in_queue[n][1], OnSet(n, msg)
  PROVE  Steady' /\ InShells'
<1>1. /\ msg.fn = "SET" /\ in_queue' = Queue(n) /\ UNCHANGED <<setup, numbers, delayed, shell, ack>>
  BY DEF OnSet
<1>2. NoneNew /\ node_ID' = node_ID
  BY <1>1, MessageTaken DEF numbers
<1>3. msg.reg \in Regs /\ msg.value \in Values
  BY <1>1, MessageFields
<1>4. msg.ID = node_ID[n] => RegWrite(n, msg.reg, msg.value, TRUE)
  BY DEF OnSet
<1>5. CASE msg.ID = node_ID[n]
  BY <1>1, <1>2, <1>3, <1>4, <1>5, RegisterTakes
<1>6. CASE msg.ID # node_ID[n]
  <2>1. /\ reg' = reg /\ held' = held /\ owed' = owed /\ at' = at /\ access' = access /\ shown' = shown
        /\ node_ACK_ID' = node_ACK_ID /\ reg_ID' = reg_ID /\ reg_DATA' = reg_DATA
    BY <1>1, <1>6 DEF OnSet, data, shell, ack
  <2>2. Steady'
    <3>1. at' \in [Nodes -> {"idle"} \cup Accessing]
      BY <2>1 DEF Steady, IInv, ShellTypes
    <3> QED
      BY <1>1, <1>2, <3>1, SteadyStays
  <2>3. ASSUME NEW o \in Nodes PROVE Fresh(o)' /\ Typed(o)'
    <3>1. Same(o) /\ Fresh(o) /\ Typed(o)
      BY <2>1 DEF Same, InShells
    <3>2. Waiting(o) => Waiting(o)'
      BY <1>2, <2>1, WaitingStays
    <3> QED
      BY <1>2, <2>1, <3>1, <3>2, ShellStays
  <2> QED
    BY <2>2, <2>3 DEF InShells
<1> QED
  BY <1>5, <1>6

LEMMA RegisterChanges ==
  ASSUME IInv, Steady, InShells, NEW n \in Nodes, RegChange(n)
  PROVE  Steady' /\ InShells'
<1>1. PICK r \in Regs, v \in Values : RegWrite(n, r, v, FALSE)
  BY DEF RegChange
<1>2. UNCHANGED <<setup, node_ID, delayed, in_queue, shell, ack>>
  BY DEF RegChange, numbers, queues
<1>3. NoneNew
  BY <1>2 DEF NoneNew
<1> QED
  BY <1>1, <1>2, <1>3, RegisterTakes

LEMMA SteadyStep ==
  ASSUME IInv, Steady, InShells, [Next]_vars
  PROVE  Steady' /\ InShells' /\ trace' = trace
<1>1. ASSUME NEW n \in Nodes, MessageIn(n) PROVE Steady' /\ InShells' /\ trace' = trace
  <2>1. PICK msg \in Messages : /\ in_queue[n] # <<>> /\ 1 \in DOMAIN in_queue[n] /\ msg = in_queue[n][1]
                                /\ OnGet(n, msg) \/ OnSet(n, msg) \/ OnData(n, msg)
    BY <1>1, SteadySteps
  <2>2. trace' = trace
    BY <2>1 DEF OnGet, OnSet, OnData, numbers
  <2> QED
    BY <2>1, <2>2, TakesGet, TakesSet, TakesData
<1>2. ASSUME NEW n \in Nodes,
             \/ Access(n) \/ TypeData(n) \/ TestSet(n) \/ SendSet(n) \/ Ask(n) \/ ClearReg(n)
             \/ SendGet(n) \/ EndAccess(n) \/ RegChange(n)
      PROVE  Steady' /\ InShells' /\ trace' = trace
  <2>1. trace' = trace
    BY <1>2 DEF Access, TypeData, TestSet, SendSet, Ask, ClearReg, SendGet, EndAccess, RegChange, numbers
  <2> QED
    BY <1>2, <2>1, AccessBegins, AccessGoes, AccessEnds, RegisterChanges
<1>3. CASE UNCHANGED vars
  <2>1. /\ UNCHANGED <<setup, node_ID, delayed, at, access, shown, node_ACK_ID, reg_ID, reg_DATA>>
        /\ UNCHANGED <<in_queue, reg, held, owed, trace>>
    BY <1>3 DEF vars, numbers, queues, shell, ack, data
  <2>2. Steady'
    BY <2>1 DEF Steady
  <2>3. InShells'
    BY <2>1 DEF InShells, Fresh, Held, Waiting, HasAnswer, Typed
  <2> QED
    BY <2>1, <2>2, <2>3
<1> QED
  BY <1>1, <1>2, <1>3, SteadySteps DEF Next

LEMMA AccessStep == AInv /\ [Next]_vars => AInv'
<1> SUFFICES ASSUME AInv, [Next]_vars PROVE AInv'
  OBVIOUS
<1>1. IInv /\ IInv'
  BY TypeStep DEF AInv
<1>2. CASE Unread
  BY <1>1, <1>2, UnreadStep DEF AInv
<1>3. CASE Steady /\ InShells
  BY <1>1, <1>3, SteadyStep DEF AInv
<1> QED
  BY <1>2, <1>3 DEF AInv

LEMMA AccessHolds ==
  ASSUME Undisturbed
  PROVE  Spec => []AInv
<1> QED
  BY InitAccess, AccessStep, PTL DEF Spec

\* What is written to a register of another node is what the operator typed, and a
\* register is written only if a value was typed: no answer comes in between, unless
\* one to an access that was given up is still awaited when this one begins.
THEOREM WriteCorrect ==
  ASSUME Undisturbed
  PROVE  Spec => []WrittenAsTyped
<1>1. AInv => WrittenAsTyped
  <2> SUFFICES ASSUME AInv, NEW n \in Nodes, ~ owed[n]
               PROVE  /\ at[n] = "set" => (reg_ID[n] = access[n].reg <=> access[n].value # NoValue)
                      /\ at[n] = "send" => access[n].value # NoValue /\ reg_DATA[n] = access[n].value
    BY DEF WrittenAsTyped
  <2>1. IInv /\ access[n].reg # NoReg
    BY AccessIsOf DEF AInv
  <2>2. CASE Unread
    BY <2>2 DEF Unread, Accessing
  <2>3. CASE InShells
    BY <2>1, <2>3 DEF InShells, Typed
  <2> QED
    BY <2>2, <2>3 DEF AInv
<1> QED
  BY <1>1, AccessHolds, PTL

\* A value that is printed is one the register of that node had since the access began
\* and since any value written there arrived, or one that was in an answer on its way
\* then: whatever was given up, lost, or asked for by others.
THEOREM ReadCorrect ==
  ASSUME Undisturbed
  PROVE  Spec => []ReadIsFresh
<1>1. AInv => ReadIsFresh
  BY DEF AInv, Unread, InShells, Fresh, ReadIsFresh
<1> QED
  BY <1>1, AccessHolds, PTL

-----------------------------------------------------------------------------
(* Numbers: what waits in a queue *)

Content(q) == {q[i] : i \in DOMAIN q}

\* At most one message about each node.
Apart(q) == \A i, j \in DOMAIN q : q[i].UID = q[j].UID => i = j

SurveyFirst(q) == \A i \in DOMAIN q : q[i].fn = "SURVEY" => i = 1

\* The first message is taken: the others stay, none of them about the same node.
LEMMA FirstTaken ==
  ASSUME NEW q \in Seq(Messages), q # <<>>, Apart(q)
  PROVE  /\ Head(q) \in Content(q) /\ Head(q) \in Messages /\ Tail(q) \in Seq(Messages) /\ Apart(Tail(q))
         /\ \A x \in Content(Tail(q)) : x \in Content(q) /\ x.UID # Head(q).UID
         /\ \A x \in Content(q) : x \in Content(Tail(q)) \/ x = Head(q)
         /\ SurveyFirst(q) => \A x \in Content(Tail(q)) : x.fn # "SURVEY"
<1>1. /\ Len(q) \in Nat \ {0} /\ DOMAIN q = 1 .. Len(q) /\ Tail(q) \in Seq(Messages) /\ Head(q) = q[1]
      /\ Len(Tail(q)) = Len(q) - 1 /\ DOMAIN Tail(q) = 1 .. Len(q) - 1
      /\ \A i \in 1 .. Len(q) - 1 : Tail(q)[i] = q[i + 1]
  OBVIOUS
<1>2. 1 \in DOMAIN q /\ q[1] \in Messages
  BY <1>1
<1>3. \A i \in DOMAIN Tail(q) : i \in Nat /\ i + 1 \in DOMAIN q /\ i + 1 # 1 /\ Tail(q)[i] = q[i + 1]
  BY <1>1
<1>4. \A i \in DOMAIN q : i # 1 => i - 1 \in DOMAIN Tail(q) /\ Tail(q)[i - 1] = q[i]
  <2>1. \A i \in 1 .. Len(q) : i # 1 => i - 1 \in 1 .. Len(q) - 1 /\ (i - 1) + 1 = i
    BY <1>1
  <2> QED
    BY <1>1, <2>1
<1>5. Apart(Tail(q))
  <2> SUFFICES ASSUME NEW i \in DOMAIN Tail(q), NEW j \in DOMAIN Tail(q), Tail(q)[i].UID = Tail(q)[j].UID
               PROVE  i = j
    BY DEF Apart
  <2>1. i \in Nat /\ j \in Nat /\ i + 1 = j + 1
    BY <1>3 DEF Apart
  <2> QED
    BY <2>1
<1>6. \A x \in Content(Tail(q)) : x \in Content(q) /\ x.UID # Head(q).UID
  BY <1>1, <1>2, <1>3 DEF Content, Apart
<1>7. \A x \in Content(q) : x \in Content(Tail(q)) \/ x = Head(q)
  <2> SUFFICES ASSUME NEW i \in DOMAIN q PROVE q[i] \in Content(Tail(q)) \/ q[i] = Head(q)
    BY DEF Content
  <2>1. CASE i = 1
    BY <1>1, <2>1
  <2>2. CASE i # 1
    BY <1>4, <2>2 DEF Content
  <2> QED
    BY <2>1, <2>2
<1>8. SurveyFirst(q) => \A x \in Content(Tail(q)) : x.fn # "SURVEY"
  BY <1>3 DEF Content, SurveyFirst
<1> QED
  BY <1>1, <1>2, <1>5, <1>6, <1>7, <1>8 DEF Content

LEMMA LastAdded ==
  ASSUME NEW q \in Seq(Messages), NEW msg \in Messages, Apart(q), \A x \in Content(q) : x.UID # msg.UID
  PROVE  /\ Append(q, msg) \in Seq(Messages) /\ Apart(Append(q, msg))
         /\ Content(Append(q, msg)) = Content(q) \cup {msg}
         /\ SurveyFirst(q) /\ msg.fn # "SURVEY" => SurveyFirst(Append(q, msg))
         /\ Content(q) = {} => SurveyFirst(Append(q, msg))
<1> DEFINE p == Append(q, msg)
<1>1. /\ Len(q) \in Nat /\ DOMAIN q = 1 .. Len(q) /\ p \in Seq(Messages)
      /\ DOMAIN p = 1 .. Len(q) + 1 /\ p[Len(q) + 1] = msg /\ \A i \in 1 .. Len(q) : p[i] = q[i]
  OBVIOUS
<1> HIDE DEF p
<1>2. \A i \in DOMAIN p : (i \in DOMAIN q /\ p[i] = q[i]) \/ (i = Len(q) + 1 /\ p[i] = msg)
  BY <1>1
<1>3. \A i \in DOMAIN q : i \in DOMAIN p /\ p[i] = q[i]
  BY <1>1
<1>4. Len(q) + 1 \in DOMAIN p
  BY <1>1
<1>5. Apart(p)
  BY <1>2 DEF Apart, Content
<1>6. Content(p) = Content(q) \cup {msg}
  BY <1>1, <1>2, <1>3, <1>4 DEF Content
<1>7. SurveyFirst(q) /\ msg.fn # "SURVEY" => SurveyFirst(p)
  BY <1>2 DEF SurveyFirst
<1>8. Content(q) = {} => SurveyFirst(p)
  <2> SUFFICES ASSUME Content(q) = {} PROVE SurveyFirst(p)
    OBVIOUS
  <2>1. DOMAIN q = {}
    BY DEF Content
  <2>2. Len(q) = 0
    BY <1>1, <2>1
  <2> QED
    BY <1>2, <2>1, <2>2 DEF SurveyFirst
<1> QED
  BY <1>1, <1>5, <1>6, <1>7, <1>8 DEF p

\* A queue that holds nothing about two of the nodes has room for one more.
LEMMA Room ==
  ASSUME EnoughRoom, setup \in Setups, ~ setup.lossy,
         NEW q \in Seq(Messages), Apart(q), NEW a \in Nodes, NEW b \in Nodes, a # b,
         \A x \in Content(q) : x.UID \in Nodes /\ x.UID # a /\ x.UID # b
  PROVE  HasRoom(q)
<1> DEFINE T == (Nodes \ {a}) \ {b}
           f == [i \in 1 .. Len(q) |-> q[i].UID]
<1>1. Len(q) \in Nat /\ DOMAIN q = 1 .. Len(q)
  OBVIOUS
<1>2. \A i \in 1 .. Len(q) : q[i].UID \in T
  BY <1>1 DEF Content
<1>3. f \in [1 .. Len(q) -> T] /\ \A i, j \in 1 .. Len(q) : f[i] = f[j] => i = j
  BY <1>1, <1>2 DEF Apart
<1>4. IsFiniteSet(Nodes) /\ Cardinality(Nodes) \in Nat
  BY NetAssumption, FS_CardinalityType
<1>5. IsFiniteSet(Nodes \ {a}) /\ Cardinality(Nodes \ {a}) = Cardinality(Nodes) - 1
  BY <1>4, FS_RemoveElement
<1>6. b \in Nodes \ {a}
  OBVIOUS
<1>7. IsFiniteSet(T) /\ Cardinality(T) = Cardinality(Nodes \ {a}) - 1
  BY <1>5, <1>6, FS_RemoveElement
<1>8. f \in Injection(1 .. Len(q), T)
  BY <1>3 DEF Injection, IsInjective
<1>9. Cardinality(1 .. Len(q)) = Len(q)
  <2>1. Cardinality(1 .. Len(q)) = IF 1 > Len(q) THEN 0 ELSE Len(q) - 1 + 1
    BY <1>1, FS_Interval
  <2> QED
    BY <1>1, <2>1
<1> HIDE DEF T, f
<1>10. Cardinality(1 .. Len(q)) <= Cardinality(T)
  BY <1>7, <1>8, FS_Injection
<1> QED
  <2>1. setup.room \in Nat /\ setup.room >= Cardinality(Nodes) - 1
    BY SetupTypes DEF EnoughRoom
  <2> QED
    BY <1>1, <1>4, <1>5, <1>7, <1>9, <1>10, <2>1 DEF HasRoom

\* Of the numbers 1 .. MaxID - 1 one is free while a node is unassigned.
LEMMA NumberLeft ==
  ASSUME EnoughNumbers, NEW n \in Nodes, NEW u \in Nodes,
         node \in [Nodes -> [Nodes -> IDs \cup {NoEntry}]], node[n][n] = NoEntry,
         IF u = n THEN node_ID[n] = 0 ELSE node[n][u] = 0
  PROVE  AssignID(n) # 0 /\ AssignID(n) \in FreeIDs(n)
<1> DEFINE S == Nodes \ {u}
           f == [m \in S |-> IF m = n THEN node_ID[n] ELSE node[n][m]]
           T == {f[m] : m \in S}
           N == 1 .. MaxID - 1
<1>1. IsFiniteSet(Nodes) /\ Cardinality(Nodes) \in Nat
  BY NetAssumption, FS_CardinalityType
<1>2. IsFiniteSet(S) /\ Cardinality(S) = Cardinality(Nodes) - 1
  BY <1>1, FS_RemoveElement
<1>3. f \in Surjection(S, T)
  BY DEF Surjection
<1>4. \A id : id # 0 /\ id # NoEntry /\ id \notin T => id # node_ID[n] /\ \A m \in Nodes : node[n][m] # id
  <2> SUFFICES ASSUME NEW id, id # 0, id # NoEntry, id \notin T
               PROVE  id # node_ID[n] /\ \A m \in Nodes : node[n][m] # id
    OBVIOUS
  <2>1. id # node_ID[n]
    <3>1. CASE u = n
      BY <3>1
    <3>2. CASE u # n
      <4>1. n \in S /\ f[n] = node_ID[n]
        BY <3>2
      <4> QED
        BY <4>1
    <3> QED
      BY <3>1, <3>2
  <2>2. ASSUME NEW m \in Nodes PROVE node[n][m] # id
    <3>1. CASE m = n
      BY <3>1
    <3>2. CASE m # n /\ m = u
      BY <3>2
    <3>3. CASE m # n /\ m # u
      <4>1. m \in S /\ f[m] = node[n][m]
        BY <3>3
      <4> QED
        BY <4>1
    <3> QED
      BY <3>1, <3>2, <3>3
  <2> QED
    BY <2>1, <2>2
<1> HIDE DEF S, f, T
<1>5. IsFiniteSet(T) /\ Cardinality(T) <= Cardinality(S) /\ Cardinality(T) \in Nat
  BY <1>2, <1>3, FS_Surjection, FS_CardinalityType
<1>6. MaxID \in Nat /\ Cardinality(N) = MaxID - 1 /\ IsFiniteSet(N)
  <2>1. MaxID \in Nat /\ MaxID > 0
    BY Sizes
  <2>2. IsFiniteSet(N) /\ Cardinality(N) = IF 1 > MaxID - 1 THEN 0 ELSE (MaxID - 1) - 1 + 1
    BY <2>1, FS_Interval
  <2> QED
    BY <2>1, <2>2
<1>7. ~ N \subseteq T
  <2>1. SUFFICES ASSUME N \in SUBSET T PROVE FALSE
    OBVIOUS
  <2>2. Cardinality(N) <= Cardinality(T)
    BY <1>5, <2>1, FS_Subset
  <2> QED
    BY <1>1, <1>2, <1>5, <1>6, <2>2 DEF EnoughNumbers
<1>8. PICK id \in N : id \notin T
  BY <1>7
<1>9. id # 0 /\ id # NoEntry
  BY <1>6, <1>8 DEF NoEntry
<1>10. id \in FreeIDs(n)
  BY <1>4, <1>8, <1>9 DEF FreeIDs, ValidRemote
<1>11. 0 \notin FreeIDs(n)
  BY <1>6 DEF FreeIDs
<1>12. FreeIDs(n) \in SUBSET Nat
  BY <1>6 DEF FreeIDs
<1>13. \E p \in FreeIDs(n) : \A q \in FreeIDs(n) : p <= q
  BY <1>10, <1>12, SmallestOf
<1> QED
  BY <1>10, <1>11, <1>13 DEF AssignID

\* A number that is free is neither that of the node nor in its table.
LEMMA FreeIsNew ==
  ASSUME NEW n \in Nodes, NEW id \in FreeIDs(n)
  PROVE  id # 0 /\ id \in IDs /\ id # node_ID[n] /\ \A u \in Nodes : node[n][u] # id
<1>1. id \in 1 .. MaxID - 1 /\ MaxID \in Nat
  BY Sizes DEF FreeIDs
<1>2. id # 0 /\ id \in IDs
  BY <1>1 DEF IDs
<1> QED
  BY <1>2 DEF FreeIDs, ValidRemote

-----------------------------------------------------------------------------
(* Numbers: surveys and commands *)

\* The number of u as m has it: its own, or that in its table.
Known(m, u) == IF m = u THEN node_ID[u] ELSE node[m][u]

\* A message about u waits at m.
Told(m, u) == \E x \in Content(in_queue[m]) : x.UID = u

AllApart == \A m \in Nodes : Apart(in_queue[m])

\* The shells but that of n are idle, and only a command has entries left.
OnlyAt(n) ==
  /\ \A m \in Nodes : m # n => at[m] = "idle"
  /\ \A m \in Nodes : at[m] \notin {"assign", "revoke"} => left[m] = {}

\* No two nodes had the same number at first, and the numbers suffice.
AllDistinct == EnoughNumbers /\ \A f \in setup.first : Distinct(f)

Unsurveyed ==
  /\ trace = [by |-> Nobody, did |-> <<>>] /\ Quiet /\ (\A m \in Nodes : left[m] = {})
  /\ AllDistinct => Distinct(node_ID)

\* In a survey by s: u has the request or waits before it replies.
Unreplied(s, u) == u # s /\ (Told(u, s) \/ delayed[u])

\* What waits at m in a survey by s: the request, and replies after it.
SurveyWaits(s, m) ==
  /\ SurveyFirst(in_queue[m])
  /\ \A x \in Content(in_queue[m]) :
       /\ x.UID # m /\ x.ID = node_ID[x.UID]
       /\ x.UID = s => x.fn = "SURVEY"
       /\ x.UID # s => x.fn = "REPLY"

\* A survey by s: each node still has to reply, or its reply waits, or it is in the
\* table, which is discarded once and before the first reply is read.
Surveying(s) ==
  /\ trace = [by |-> s, did |-> <<>>] /\ OnlyAt(s) /\ at[s] \in {"survey", "wait"} /\ AllApart
  /\ AllDistinct => Distinct(node_ID)
  /\ at[s] = "survey" => Delivered
  /\ at[s] = "wait" =>
       /\ ~ delayed[s] /\ \A m \in Nodes : SurveyWaits(s, m)
       /\ \A u \in Nodes : Unreplied(s, u) => /\ \A m \in Nodes : ~ Told(m, u)
                                              /\ delayed[u] => ~ Told(u, s)
       /\ \A m, u \in Nodes : m # u =>
            \/ Unreplied(s, u) \/ Told(m, u)
            \/ Known(m, u) = node_ID[u] /\ ~ Told(m, s)

\* The number of u in the table of n is known to all, or will be.
Sent(n, u) == \A m \in Nodes : m # n => Told(m, u) \/ Known(m, u) = Known(n, u)

\* No message is about u, and the tables have its number or hold it for unassigned.
Settled(u) == \A m \in Nodes : ~ Told(m, u) /\ Known(m, u) \in {node_ID[u], 0}

\* What waits at m after a command of n: numbers that n has given, one for each node.
CommandWaits(n, m) ==
  \A x \in Content(in_queue[m]) :
    /\ m # n /\ x.fn = "ASSIGN" /\ x.UID # n /\ x.UID \notin left[n] /\ x.ID = Known(n, x.UID)

\* A command of n, or the time after it.
Commanding(n) ==
  /\ trace = [by |-> trace.by, did |-> trace.did] /\ trace.did # <<>>
  /\ OnlyAt(n) /\ at[n] \in {"idle", "assign", "revoke"} /\ AllApart
  /\ \A m \in Nodes : ~ delayed[m] /\ CommandWaits(n, m)
  /\ Settled(n) /\ \A u \in Nodes : u # n => Sent(n, u) \/ Settled(u)

\* Everybody has a number, as n has it, but the entries it has not come to.
Filled(n) == \A u \in Nodes : u \notin left[n] => Known(n, u) # 0

ViewDistinct(n) == \A u, w \in Nodes : u # w /\ Known(n, u) = Known(n, w) => Known(n, u) = 0

OnlyRevoked == \A m \in Nodes : \A x \in Content(in_queue[m]) : x.ID = 0

\* If the numbers were distinct at first: an assignment makes them so in the table of n,
\* which then is the truth; nothing else gives a number away.
Numbers(n) ==
  EnoughNumbers =>
    /\ at[n] = "assign" => Filled(n)
    /\ AllDistinct => \/ ViewDistinct(n) /\ Filled(n) /\ at[n] # "revoke"
                      \/ Distinct(node_ID) /\ OnlyRevoked /\ at[n] # "assign"

\* The operator of the last survey has the true numbers, or has sent them.
Exact(n) == \A u \in Nodes : u # n => Told(u, u) \/ Known(n, u) = node_ID[u]

S   == <<"survey">>
SA  == <<"survey", "assign">>
SR  == <<"survey", "revoke all">>
SRA == <<"survey", "revoke all", "assign">>

Renumbering(n) ==
  /\ trace.by = n \/ trace.by = Nobody \/ at[n] = "assign"
  /\ trace.by = Nobody => trace.did = <<"other">>
  /\ trace.by = n =>
       /\ Exact(n) /\ trace.did \in Numbering /\ (at[n] = "revoke" => trace.did = SR)
       /\ EnoughNumbers =>
            /\ trace.did \in {SA, SRA} => Filled(n)
            /\ trace.did = SR /\ at[n] # "assign" =>
                 \A u \in Nodes : u # n /\ u \notin left[n] => Known(n, u) = 0
            /\ trace.did = SRA \/ (trace.did = SR /\ at[n] = "assign") => ViewDistinct(n)

Ordered == \/ Unsurveyed \/ \E s \in Nodes : Surveying(s)
           \/ \E n \in Nodes : Commanding(n) /\ Numbers(n) /\ Renumbering(n)

\* Either nobody numbers the nodes, or nobody works on another one.
NInv ==
  /\ IInv
  /\ \/ Steady /\ InShells /\ trace.did = <<>>
     \/ Unread /\ (setup.lossy \/ Ordered)

\* What the commands of one operator make of the history.
Words == {"survey", "assign", "revoke", "revoke all"}

LEMMA FormS == S \in Seq(Words) /\ Len(S) = 1 /\ S[1] = "survey"
BY DEF S, Words

LEMMA FormSA == SA \in Seq(Words) /\ Len(SA) = 2 /\ SA[1] = "survey" /\ SA[2] = "assign"
BY DEF SA, Words

LEMMA FormSR == SR \in Seq(Words) /\ Len(SR) = 2 /\ SR[1] = "survey" /\ SR[2] = "revoke all"
BY DEF SR, Words

LEMMA FormSRA ==
  SRA \in Seq(Words) /\ Len(SRA) = 3 /\ SRA[1] = "survey" /\ SRA[2] = "revoke all" /\ SRA[3] = "assign"
BY DEF SRA, Words

LEMMA Lens ==
  /\ Len(S) = 1 /\ Len(SA) = 2 /\ Len(SR) = 2 /\ Len(SRA) = 3
  /\ SA[2] = "assign" /\ SR[2] = "revoke all" /\ SRA[2] = "revoke all" /\ SRA[3] = "assign"
  /\ 1 + 1 = 2 /\ 2 + 1 = 3 /\ 3 + 1 = 4
  /\ 1 # 2 /\ 1 # 3 /\ 1 # 4 /\ 2 # 3 /\ 2 # 4 /\ 3 # 4 /\ "assign" # "revoke all"
<1>1. /\ 1 + 1 = 2 /\ 2 + 1 = 3 /\ 3 + 1 = 4
      /\ 1 # 2 /\ 1 # 3 /\ 1 # 4 /\ 2 # 3 /\ 2 # 4 /\ 3 # 4 /\ "assign" # "revoke all"
  OBVIOUS
<1> QED
  BY <1>1, FormS, FormSA, FormSR, FormSRA, Zenon

LEMMA Appended ==
  ASSUME NEW p \in Seq(Words), NEW w \in Words
  PROVE  /\ Append(p, w) \in Seq(Words) /\ Len(Append(p, w)) = Len(p) + 1 /\ Len(p) \in Nat
         /\ Append(p, w)[Len(p) + 1] = w /\ \A i \in 1 .. Len(p) : Append(p, w)[i] = p[i]
OBVIOUS

LEMMA SameWords ==
  ASSUME NEW p \in Seq(Words), NEW q \in Seq(Words), Len(p) = Len(q), \A i \in 1 .. Len(p) : p[i] = q[i]
  PROVE  p = q
OBVIOUS

LEMMA TwoWords ==
  ASSUME NEW p \in Seq(Words), NEW w \in Words, NEW q \in Seq(Words),
         Len(p) = 1, Len(q) = 2, q[1] = p[1], q[2] = w
  PROVE  Append(p, w) = q
<1> DEFINE r == Append(p, w)
<1>1. r \in Seq(Words) /\ Len(r) = Len(p) + 1 /\ r[Len(p) + 1] = w /\ \A i \in 1 .. Len(p) : r[i] = p[i]
  BY Appended
<1> HIDE DEF r
<1>2. Len(r) = 2 /\ r[2] = w /\ r[1] = p[1]
  BY <1>1
<1>3. \A i \in 1 .. Len(q) : i = 1 \/ i = 2
  OBVIOUS
<1>4. \A i \in 1 .. Len(q) : q[i] = r[i]
  BY <1>2, <1>3
<1>5. r = q
  BY <1>1, <1>2, <1>4, SameWords
<1> QED
  BY <1>5 DEF r

LEMMA ThreeWords ==
  ASSUME NEW p \in Seq(Words), NEW w \in Words, NEW q \in Seq(Words),
         Len(p) = 2, Len(q) = 3, q[1] = p[1], q[2] = p[2], q[3] = w
  PROVE  Append(p, w) = q
<1> DEFINE r == Append(p, w)
<1>1. r \in Seq(Words) /\ Len(r) = Len(p) + 1 /\ r[Len(p) + 1] = w /\ \A i \in 1 .. Len(p) : r[i] = p[i]
  BY Appended
<1> HIDE DEF r
<1>2. Len(r) = 3 /\ r[3] = w /\ r[1] = p[1] /\ r[2] = p[2]
  BY <1>1
<1>3. \A i \in 1 .. Len(q) : i = 1 \/ i = 2 \/ i = 3
  OBVIOUS
<1>4. \A i \in 1 .. Len(q) : q[i] = r[i]
  BY <1>2, <1>3
<1>5. r = q
  BY <1>1, <1>2, <1>4, SameWords
<1> QED
  BY <1>5 DEF r

\* The histories in which the nodes are numbered, and what makes one of another.
LEMMA Histories ==
  /\ Numbering = {S, SA, SR, SRA}
  /\ Append(<<>>, "survey") = S /\ Append(S, "assign") = SA
  /\ Append(S, "revoke all") = SR /\ Append(SR, "assign") = SRA
<1>1. "assign" \in Words /\ "revoke all" \in Words
  BY DEF Words
<1>2. Numbering = {S, SA, SR, SRA}
  BY Zenon DEF Numbering, S, SA, SR, SRA
<1>3. Append(<<>>, "survey") = S
  BY DEF S
<1>4. Append(S, "assign") = SA
  BY <1>1, FormS, FormSA, TwoWords
<1>5. Append(S, "revoke all") = SR
  BY <1>1, FormS, FormSR, TwoWords
<1>6. Append(SR, "assign") = SRA
  BY <1>1, FormSR, FormSRA, ThreeWords
<1> QED
  BY <1>2, <1>3, <1>4, <1>5, <1>6, Zenon

LEMMA HistoriesDiffer ==
  /\ S # SA /\ S # SR /\ S # SRA /\ SA # SR /\ SA # SRA /\ SR # SRA
  /\ S # <<>> /\ SA # <<>> /\ SR # <<>> /\ SRA # <<>>
  /\ S # <<"other">> /\ SA # <<"other">> /\ SR # <<"other">> /\ SRA # <<"other">> /\ <<"other">> # <<>>
<1>1. S # SA /\ S # SR /\ S # SRA /\ SA # SR /\ SA # SRA /\ SR # SRA
  BY Lens, Zenon
<1>2. S # <<>> /\ SA # <<>> /\ SR # <<>> /\ SRA # <<>>
  BY DEF S, SA, SR, SRA
<1>3. S # <<"other">>
  BY DEF S
<1>4. SA # <<"other">>
  BY DEF SA
<1>5. SR # <<"other">>
  BY DEF SR
<1>6. SRA # <<"other">>
  BY DEF SRA
<1>7. <<"other">> # <<>>
  OBVIOUS
<1> QED
  BY <1>1, <1>2, <1>3, <1>4, <1>5, <1>6, <1>7, Zenon

LEMMA OnlyHistories ==
  ASSUME NEW did \in Numbering, NEW w \in Words, Append(did, w) \in Numbering
  PROVE  \/ did = S /\ w = "assign" /\ Append(did, w) = SA
         \/ did = S /\ w = "revoke all" /\ Append(did, w) = SR
         \/ did = SR /\ w = "assign" /\ Append(did, w) = SRA
<1> DEFINE r == Append(did, w)
<1>1. did \in {S, SA, SR, SRA} /\ r \in {S, SA, SR, SRA}
  BY Histories, Zenon
<1>2. Len(r) = Len(did) + 1 /\ r[Len(did) + 1] = w /\ \A i \in 1 .. Len(did) : r[i] = did[i]
  <2>1. did \in Seq(Words)
    BY <1>1, FormS, FormSA, FormSR, FormSRA, Zenon
  <2> QED
    BY <2>1, Appended, Zenon
<1> HIDE DEF r
<1>3. CASE did = S
  <2>1. Len(r) = 2 /\ r[2] = w
    BY <1>2, <1>3, Lens, Zenon
  <2>2. r = SA \/ r = SR
    BY <1>1, <2>1, Lens, Zenon
  <2>3. did = S /\ ((w = "assign" /\ r = SA) \/ (w = "revoke all" /\ r = SR))
    BY <1>3, <2>1, <2>2, Lens, Zenon
  <2> QED
    BY <2>3, Zenon DEF r
<1>4. CASE did = SR
  <2>1. Len(r) = 3 /\ r[3] = w
    BY <1>2, <1>4, Lens, Zenon
  <2>2. r = SRA
    BY <1>1, <2>1, Lens, Zenon
  <2>3. did = SR /\ w = "assign" /\ r = SRA
    BY <1>4, <2>1, <2>2, Lens, Zenon
  <2> QED
    BY <2>3, Zenon DEF r
<1>5. did # SA
  <2> SUFFICES ASSUME did = SA PROVE FALSE
    OBVIOUS
  <2>1. 2 \in 1 .. Len(SA)
    BY FormSA
  <2>2. Len(r) = 3 /\ r[2] = "assign"
    BY <1>2, <2>1, Lens, Zenon
  <2> QED
    BY <1>1, <2>2, Lens, Zenon
<1>6. did # SRA
  BY <1>1, <1>2, Lens, Zenon
<1> QED
  BY <1>1, <1>3, <1>4, <1>5, <1>6, Zenon

-----------------------------------------------------------------------------
(* Numbers: messages about the nodes *)

\* A message about a node is sent, with room for it at all the others.
LEMMA Broadcast ==
  ASSUME ~ setup.lossy, NEW n \in Nodes, NEW msg, msg.fn \in {"SURVEY", "ASSIGN", "REPLY"},
         NEW queue, \A m \in Nodes : m # n => HasRoom(queue[m]), Send(n, msg, queue)
  PROVE  in_queue' = [m \in Nodes |-> IF m # n THEN Append(queue[m], msg) ELSE queue[m]]
<1>1. in_queue' = [m \in Nodes |-> IF m # n /\ m \notin {} /\ Hears(m, msg) /\ HasRoom(queue[m])
                                     THEN Append(queue[m], msg) ELSE queue[m]]
  BY DEF Send
<1>2. \A m \in Nodes : Hears(m, msg)
  BY DEF Hears
<1> QED
  BY <1>1, <1>2

\* The queues hold nothing about u, and have room at all but n.
Open(n, u, queue) ==
  \A m \in Nodes : /\ Apart(queue[m])
                   /\ m # n => HasRoom(queue[m]) /\ \A x \in Content(queue[m]) : x.UID # u

\* The message waits at all but n.
AtAll(n, msg, queue) ==
  /\ \A m \in Nodes : m # n => /\ Content(in_queue'[m]) = Content(queue[m]) \cup {msg}
                               /\ SurveyFirst(queue[m]) /\ msg.fn # "SURVEY" => SurveyFirst(in_queue'[m])
                               /\ Content(queue[m]) = {} => SurveyFirst(in_queue'[m])
  /\ in_queue'[n] = queue[n]

\* It then waits at each of them, the only one about that node.
LEMMA Announced ==
  ASSUME ~ setup.lossy, NEW n \in Nodes, NEW msg \in Messages, msg.fn \in {"SURVEY", "ASSIGN", "REPLY"},
         NEW queue \in [Nodes -> Seq(Messages)], Open(n, msg.UID, queue), Send(n, msg, queue)
  PROVE  AllApart' /\ AtAll(n, msg, queue)
<1>0. \A m \in Nodes : /\ Apart(queue[m])
                       /\ m # n => HasRoom(queue[m]) /\ \A x \in Content(queue[m]) : x.UID # msg.UID
  BY DEF Open
<1>1. in_queue' = [m \in Nodes |-> IF m # n THEN Append(queue[m], msg) ELSE queue[m]]
  BY <1>0, Broadcast
<1>2. ASSUME NEW m \in Nodes, m # n
      PROVE  /\ Apart(in_queue'[m]) /\ Content(in_queue'[m]) = Content(queue[m]) \cup {msg}
             /\ SurveyFirst(queue[m]) /\ msg.fn # "SURVEY" => SurveyFirst(in_queue'[m])
             /\ Content(queue[m]) = {} => SurveyFirst(in_queue'[m])
  <2>1. in_queue'[m] = Append(queue[m], msg) /\ queue[m] \in Seq(Messages)
    BY <1>1, <1>2
  <2>2. Apart(queue[m]) /\ \A x \in Content(queue[m]) : x.UID # msg.UID
    BY <1>0, <1>2
  <2> QED
    BY <2>1, <2>2, LastAdded
<1>3. in_queue'[n] = queue[n]
  BY <1>1
<1>4. \A m \in Nodes : Apart(in_queue'[m])
  BY <1>0, <1>2, <1>3
<1> QED
  BY <1>2, <1>3, <1>4 DEF AllApart, AtAll

\* A node takes the first message of its queue.
LEMMA Served ==
  ASSUME IInv, AllApart, NEW n \in Nodes, in_queue[n] # <<>>
  PROVE  /\ Queue(n) \in [Nodes -> Seq(Messages)] /\ \A m \in Nodes : Apart(Queue(n)[m])
         /\ Head(in_queue[n]) \in Messages /\ Head(in_queue[n]) \in Content(in_queue[n])
         /\ \A m \in Nodes : m # n => Queue(n)[m] = in_queue[m]
         /\ \A x \in Content(Queue(n)[n]) : x \in Content(in_queue[n]) /\ x.UID # Head(in_queue[n]).UID
         /\ \A x \in Content(in_queue[n]) : x \in Content(Queue(n)[n]) \/ x = Head(in_queue[n])
         /\ SurveyFirst(in_queue[n]) => \A x \in Content(Queue(n)[n]) : x.fn # "SURVEY"
<1>1. in_queue \in [Nodes -> Seq(Messages)] /\ in_queue[n] \in Seq(Messages) /\ Apart(in_queue[n])
  BY DEF IInv, Queues, AllApart
<1>2. Queue(n) = [in_queue EXCEPT ![n] = Tail(in_queue[n])]
  BY DEF Queue
<1>3. Queue(n)[n] = Tail(in_queue[n]) /\ \A m \in Nodes : m # n => Queue(n)[m] = in_queue[m]
  BY <1>1, <1>2
<1>4. /\ Head(in_queue[n]) \in Content(in_queue[n]) /\ Head(in_queue[n]) \in Messages
      /\ Tail(in_queue[n]) \in Seq(Messages) /\ Apart(Tail(in_queue[n]))
      /\ \A x \in Content(Tail(in_queue[n])) : x \in Content(in_queue[n]) /\ x.UID # Head(in_queue[n]).UID
      /\ \A x \in Content(in_queue[n]) : x \in Content(Tail(in_queue[n])) \/ x = Head(in_queue[n])
      /\ SurveyFirst(in_queue[n]) => \A x \in Content(Tail(in_queue[n])) : x.fn # "SURVEY"
  BY <1>1, FirstTaken
<1>5. Queue(n) \in [Nodes -> Seq(Messages)]
  BY <1>1, <1>2, <1>4
<1>6. \A m \in Nodes : Apart(Queue(n)[m])
  BY <1>1, <1>3, <1>4 DEF AllApart
<1> QED
  BY <1>3, <1>4, <1>5, <1>6

\* What waits when a message is taken and nothing is sent.
LEMMA Taken ==
  ASSUME IInv, AllApart, NEW n \in Nodes, in_queue[n] # <<>>, in_queue' = Queue(n)
  PROVE  /\ AllApart'
         /\ \A m \in Nodes : \A x \in Content(in_queue'[m]) : x \in Content(in_queue[m])
         /\ \A m, u \in Nodes : Told(m, u)' <=> Told(m, u) /\ ~ (m = n /\ u = Head(in_queue[n]).UID)
<1>1. AllApart'
  BY Served DEF AllApart
<1>2. \A m \in Nodes : \A x \in Content(in_queue'[m]) : x \in Content(in_queue[m])
  BY Served
<1>3. ASSUME NEW m \in Nodes, NEW u \in Nodes
      PROVE  Told(m, u)' <=> Told(m, u) /\ ~ (m = n /\ u = Head(in_queue[n]).UID)
  <2>1. CASE m = n
    BY <2>1, Served DEF Told
  <2>2. CASE m # n
    BY <2>2, Served DEF Told
  <2> QED
    BY <2>1, <2>2
<1> QED
  BY <1>1, <1>2, <1>3

\* Nothing waits anywhere when everything is delivered.
LEMMA NothingWaits ==
  ASSUME Delivered
  PROVE  \A m \in Nodes : in_queue[m] = <<>> /\ Content(in_queue[m]) = {} /\ ~ delayed[m] /\ Apart(in_queue[m])
                          /\ \A u : ~ Told(m, u)
<1>1. \A m \in Nodes : in_queue[m] = <<>> /\ ~ delayed[m]
  BY DEF Delivered
<1>2. DOMAIN <<>> = {}
  OBVIOUS
<1>3. \A m \in Nodes : Content(in_queue[m]) = {} /\ Apart(in_queue[m])
  BY <1>1, <1>2 DEF Content, Apart
<1> QED
  BY <1>1, <1>3 DEF Told

LEMMA TableTypes ==
  ASSUME IInv
  PROVE  /\ \A u \in Nodes : node_ID[u] \in IDs /\ node_ID[u] # NoEntry
         /\ \A m, u \in Nodes : m # u => node[m][u] \in IDs \cup {NoEntry}
         /\ \A m \in Nodes : node[m][m] = NoEntry /\ m # Nobody /\ m \notin left[m]
         /\ 0 # NoEntry /\ 0 \in IDs
BY Sizes DEF IInv, NumberTypes, ShellTypes, IDs, NoEntry, Nobody

-----------------------------------------------------------------------------
(* Numbers: when the network is quiet *)

\* The command is over and every table is true, but for nodes held for unassigned.
LEMMA QuietTables ==
  ASSUME IInv, NEW n \in Nodes, Commanding(n), Quiet
  PROVE  /\ \A m \in Nodes : at[m] = "idle" /\ left[m] = {}
         /\ \A u \in Nodes : Settled(u)
         /\ \A u \in Nodes : Known(n, u) = node_ID[u] \/ (Settled(u) /\ Known(n, u) = 0)
<1>1. \A m \in Nodes : at[m] = "idle" /\ left[m] = {}
  BY DEF Quiet, Commanding, OnlyAt
<1>2. \A m, u \in Nodes : ~ Told(m, u)
  BY NothingWaits DEF Quiet
<1>3. ASSUME NEW u \in Nodes, u # n, Sent(n, u) PROVE Settled(u) /\ Known(n, u) = node_ID[u]
  <2>1. \A m \in Nodes : m # n => Known(m, u) = Known(n, u)
    BY <1>2, <1>3 DEF Sent
  <2>2. Known(u, u) = node_ID[u]
    BY DEF Known
  <2>3. \A m \in Nodes : Known(m, u) = node_ID[u]
    BY <1>3, <2>1, <2>2
  <2> QED
    BY <1>2, <2>3 DEF Settled
<1>4. \A u \in Nodes : Settled(u)
  BY <1>3 DEF Commanding
<1>5. \A u \in Nodes : Known(n, u) = node_ID[u] \/ (Settled(u) /\ Known(n, u) = 0)
  BY <1>4 DEF Settled
<1> QED
  BY <1>1, <1>4, <1>5

LEMMA QuietNumbers ==
  ASSUME IInv, NEW n \in Nodes, Commanding(n), Numbers(n), Quiet, AllDistinct
  PROVE  Distinct(node_ID)
<1>1. /\ at[n] = "idle" /\ left[n] = {}
      /\ \A u \in Nodes : Known(n, u) = node_ID[u] \/ Known(n, u) = 0
  BY QuietTables
<1>2. (ViewDistinct(n) /\ Filled(n)) \/ Distinct(node_ID)
  BY DEF Numbers, AllDistinct
<1>3. CASE ViewDistinct(n) /\ Filled(n)
  <2>1. \A u \in Nodes : Known(n, u) # 0
    BY <1>1, <1>3 DEF Filled
  <2>2. \A u \in Nodes : Known(n, u) = node_ID[u]
    BY <1>1, <2>1
  <2> QED
    BY <1>3, <2>1, <2>2 DEF ViewDistinct, Distinct
<1> QED
  BY <1>2, <1>3

\* Whose command it was does not matter any more.
LEMMA QuietRenumbering ==
  ASSUME IInv, NEW n \in Nodes, Commanding(n), Renumbering(n), Quiet, NEW k \in Nodes, trace.by = k
  PROVE  k = n /\ trace.did \in Numbering /\ \A u \in Nodes : Known(n, u) = node_ID[u]
<1>1. at[n] = "idle"
  BY QuietTables
<1>2. k = n
  BY <1>1, TableTypes DEF Renumbering
<1>3. \A u \in Nodes : u # n => Known(n, u) = node_ID[u]
  BY <1>2, NothingWaits DEF Renumbering, Exact, Quiet
<1>4. Known(n, n) = node_ID[n]
  BY DEF Known
<1> QED
  BY <1>2, <1>3, <1>4 DEF Renumbering

\* At the start of a command the network is quiet, after a survey if it is not one.
LEMMA QuietOrdered ==
  ASSUME IInv, Ordered, Quiet
  PROVE  Unsurveyed \/ \E n \in Nodes : Commanding(n) /\ Numbers(n) /\ Renumbering(n)
<1>1. \A s \in Nodes : ~ Surveying(s)
  BY DEF Surveying, Quiet
<1> QED
  BY <1>1 DEF Ordered

-----------------------------------------------------------------------------
(* Numbers: a survey *)

LEMMA SurveyBegins ==
  ASSUME IInv, Ordered, NEW n \in Nodes, Survey(n)
  PROVE  Surveying(n)'
<1>1. /\ Quiet /\ at' = [at EXCEPT ![n] = "survey"] /\ trace' = [by |-> n, did |-> <<>>]
      /\ node_ID' = node_ID /\ in_queue' = in_queue /\ delayed' = delayed /\ left' = left /\ setup' = setup
  BY DEF Survey, Goto, queues
<1>2. (\A m \in Nodes : at[m] = "idle" /\ left[m] = {}) /\ (AllDistinct => Distinct(node_ID))
  <2>1. CASE Unsurveyed
    BY <1>1, <2>1 DEF Unsurveyed, Quiet, AllDistinct
  <2>2. ASSUME NEW c \in Nodes, Commanding(c), Numbers(c)
        PROVE  (\A m \in Nodes : at[m] = "idle" /\ left[m] = {}) /\ (AllDistinct => Distinct(node_ID))
    BY <1>1, <2>2, QuietTables, QuietNumbers
  <2> QED
    BY <1>1, <2>1, <2>2, QuietOrdered
<1>3. at' \in [Nodes -> Labels] /\ at'[n] = "survey" /\ \A m \in Nodes : m # n => at'[m] = "idle"
  BY <1>1, <1>2 DEF IInv, ShellTypes, Labels
<1>4. OnlyAt(n)'
  BY <1>1, <1>2, <1>3 DEF OnlyAt
<1>5. AllApart'
  BY <1>1, NothingWaits DEF AllApart, Quiet
<1>6. Delivered'
  BY <1>1 DEF Delivered, Quiet
<1>7. (AllDistinct => Distinct(node_ID))'
  BY <1>1, <1>2 DEF AllDistinct, Distinct
<1> QED
  BY <1>1, <1>3, <1>4, <1>5, <1>6, <1>7 DEF Surveying

\* The request goes to all the others.
LEMMA SurveySent ==
  ASSUME IInv, ~ setup.lossy, NEW s \in Nodes, Surveying(s), SendSurvey(s)
  PROVE  Surveying(s)'
<1> DEFINE msg == [fn |-> "SURVEY", UID |-> s, ID |-> node_ID[s]]
<1>1. /\ at[s] = "survey" /\ at' = [at EXCEPT ![s] = "wait"] /\ Send(s, msg, in_queue)
      /\ node_ID' = node_ID /\ trace' = trace /\ delayed' = delayed /\ left' = left /\ setup' = setup
  BY DEF SendSurvey, Goto, numbers
<1>2. msg \in Messages /\ msg.fn = "SURVEY" /\ msg.UID = s /\ msg.ID = node_ID[s]
  BY MessageForms, TableTypes
<1> HIDE DEF msg
<1>3. \A m \in Nodes : in_queue[m] = <<>> /\ Content(in_queue[m]) = {} /\ ~ delayed[m] /\ Apart(in_queue[m])
  BY <1>1, NothingWaits DEF Surveying
<1>4. HasRoom(<<>>)
  BY SetupTypes DEF HasRoom, IInv, NumberTypes
<1>5. /\ AllApart'
      /\ \A m \in Nodes : m # s => Content(in_queue'[m]) = {msg} /\ SurveyFirst(in_queue'[m])
      /\ in_queue'[s] = <<>>
  <2>1. in_queue \in [Nodes -> Seq(Messages)] /\ (\A m \in Nodes : Apart(in_queue[m])) /\ Send(s, msg, in_queue)
        /\ msg.fn \in {"SURVEY", "ASSIGN", "REPLY"}
    BY <1>1, <1>2, <1>3 DEF IInv, Queues
  <2>2. Open(s, msg.UID, in_queue)
    BY <1>3, <1>4 DEF Open
  <2>3. AllApart' /\ AtAll(s, msg, in_queue)
    BY <1>2, <2>1, <2>2, Announced
  <2> QED
    BY <1>3, <2>3 DEF AtAll
<1>6. Content(in_queue'[s]) = {} /\ SurveyFirst(in_queue'[s])
  BY <1>5, DOMAIN <<>> = {} DEF Content, SurveyFirst
<1>7. \A m, u \in Nodes : Told(m, u)' <=> m # s /\ u = s
  <2>1. TAKE m \in Nodes, u \in Nodes
  <2>2. Told(m, u)' <=> \E x \in Content(in_queue'[m]) : x.UID = u
    BY DEF Told
  <2>3. CASE m = s
    BY <1>6, <2>2, <2>3
  <2>4. CASE m # s
    BY <1>2, <1>5, <2>2, <2>4
  <2> QED
    BY <2>3, <2>4
<1>8. at'[s] = "wait" /\ \A m \in Nodes : m # s => at'[m] = "idle"
  BY <1>1 DEF Surveying, OnlyAt, IInv, ShellTypes
<1>9. OnlyAt(s)'
  BY <1>1, <1>8 DEF Surveying, OnlyAt
<1>10. \A m \in Nodes : SurveyWaits(s, m)'
  BY <1>1, <1>2, <1>5, <1>6 DEF SurveyWaits
<1>11. (\A u \in Nodes : Unreplied(s, u)' <=> u # s) /\ \A u \in Nodes : ~ delayed'[u]
  BY <1>1, <1>3, <1>7 DEF Unreplied
<1>12. (AllDistinct => Distinct(node_ID))'
  BY <1>1 DEF Surveying, AllDistinct, Distinct
<1> QED
  BY <1>1, <1>5, <1>7, <1>8, <1>9, <1>10, <1>11, <1>12 DEF Surveying

\* A survey goes on: what each step of it has to show.
LEMMA SurveyGoesOn ==
  ASSUME NEW s \in Nodes, Surveying(s), at[s] = "wait",
         setup' = setup, node_ID' = node_ID, trace' = trace, at' = at, left' = left,
         AllApart', ~ delayed'[s], \A m \in Nodes : SurveyWaits(s, m)',
         \A u \in Nodes : Unreplied(s, u)' => /\ \A m \in Nodes : ~ Told(m, u)'
                                              /\ delayed'[u] => ~ Told(u, s)',
         \A m, u \in Nodes : m # u =>
            Unreplied(s, u)' \/ Told(m, u)' \/ (Known(m, u)' = node_ID[u] /\ ~ Told(m, s)')
  PROVE  Surveying(s)'
<1>1. OnlyAt(s)'
  BY DEF Surveying, OnlyAt
<1>2. (AllDistinct => Distinct(node_ID))'
  BY DEF Surveying, AllDistinct, Distinct
<1>3. trace' = [by |-> s, did |-> <<>>] /\ at'[s] = "wait"
  BY DEF Surveying
<1> QED
  BY <1>1, <1>2, <1>3 DEF Surveying

\* The queues of a survey by s, with nothing about u.
Unheard(s, u, queue) ==
  \A m \in Nodes :
    /\ Apart(queue[m]) /\ SurveyFirst(queue[m])
    /\ \A x \in Content(queue[m]) :
         /\ x.UID \in Nodes /\ x.UID # m /\ x.UID # u /\ x.ID = node_ID[x.UID]
         /\ x.UID = s => x.fn = "SURVEY"
         /\ x.UID # s => x.fn = "REPLY"

\* And with the reply of u.
Heard(s, u, queue) ==
  /\ AllApart' /\ \A m \in Nodes : SurveyWaits(s, m)'
  /\ \A m, v \in Nodes : Told(m, v)' <=> (\E x \in Content(queue[m]) : x.UID = v) \/ (m # u /\ v = u)

\* A node replies: its reply waits at all the others.
LEMMA ReplySent ==
  ASSUME EnoughRoom, setup \in Setups, ~ setup.lossy, NEW s \in Nodes, NEW u \in Nodes, u # s, node_ID[u] \in IDs, node_ID' = node_ID,
         NEW queue \in [Nodes -> Seq(Messages)], Unheard(s, u, queue),
         Send(u, [fn |-> "REPLY", UID |-> u, ID |-> node_ID[u]], queue)
  PROVE  Heard(s, u, queue)
<1> DEFINE msg == [fn |-> "REPLY", UID |-> u, ID |-> node_ID[u]]
<1>1. /\ msg \in Messages /\ msg.fn \in {"SURVEY", "ASSIGN", "REPLY"} /\ Send(u, msg, queue)
      /\ msg.UID = u /\ msg.ID = node_ID[u] /\ msg.fn = "REPLY" /\ msg.fn # "SURVEY"
  BY MessageForms
<1> HIDE DEF msg
<1>2. Open(u, msg.UID, queue)
  <2> SUFFICES ASSUME NEW m \in Nodes, m # u PROVE HasRoom(queue[m]) /\ \A x \in Content(queue[m]) : x.UID # msg.UID
    BY DEF Open, Unheard
  <2>1. queue[m] \in Seq(Messages) /\ Apart(queue[m])
    BY DEF Unheard
  <2>2. \A x \in Content(queue[m]) : x.UID \in Nodes /\ x.UID # m /\ x.UID # u
    BY DEF Unheard
  <2> QED
    BY <1>1, <2>1, <2>2, Room
<1>3. AllApart' /\ AtAll(u, msg, queue)
  BY <1>1, <1>2, Announced
<1>4. \A m \in Nodes : \A x \in Content(in_queue'[m]) : x \in Content(queue[m]) \/ (m # u /\ x = msg)
  BY <1>3 DEF AtAll
<1>5. \A m \in Nodes : SurveyFirst(in_queue'[m])
  <2> SUFFICES ASSUME NEW m \in Nodes PROVE SurveyFirst(in_queue'[m])
    OBVIOUS
  <2>1. SurveyFirst(queue[m])
    BY DEF Unheard
  <2> QED
    BY <1>1, <1>3, <2>1 DEF AtAll
<1>6. ASSUME NEW m \in Nodes PROVE SurveyWaits(s, m)'
  <2>1. SurveyFirst(in_queue'[m])
    BY <1>5
  <2>2. ASSUME NEW x \in Content(in_queue'[m])
        PROVE  /\ x.UID # m /\ x.ID = node_ID[x.UID]
               /\ x.UID = s => x.fn = "SURVEY"
               /\ x.UID # s => x.fn = "REPLY"
    <3>1. CASE x \in Content(queue[m])
      BY <3>1 DEF Unheard
    <3>2. CASE m # u /\ x = msg
      BY <1>1, <3>2
    <3> QED
      BY <1>4, <3>1, <3>2
  <2> QED
    BY <2>1, <2>2 DEF SurveyWaits
<1>7. ASSUME NEW m \in Nodes, NEW v \in Nodes
      PROVE  Told(m, v)' <=> (\E x \in Content(queue[m]) : x.UID = v) \/ (m # u /\ v = u)
  <2>1. Told(m, v)' <=> \E x \in Content(in_queue'[m]) : x.UID = v
    BY DEF Told
  <2>2. CASE m = u
    BY <1>3, <2>1, <2>2 DEF AtAll
  <2>3. CASE m # u
    BY <1>1, <1>3, <2>1, <2>3 DEF AtAll
  <2> QED
    BY <2>2, <2>3
<1> QED
  BY <1>3, <1>6, <1>7 DEF Heard

\* What a message in a survey may be.
LEMMA SurveyMessages ==
  ASSUME IInv, NEW s \in Nodes, NEW m \in Nodes, SurveyWaits(s, m)
  PROVE  \A x \in Content(in_queue[m]) : x.fn \in {"SURVEY", "REPLY"} /\ x.UID \in Nodes /\ x \in Messages
<1>1. \A x \in Content(in_queue[m]) : x \in Messages
  <2>1. in_queue[m] \in Seq(Messages)
    BY DEF IInv, Queues
  <2> QED
    BY <2>1 DEF Content
<1>2. \A x \in Content(in_queue[m]) : x.fn \in {"SURVEY", "REPLY"}
  BY DEF SurveyWaits
<1> QED
  BY <1>1, <1>2, MessageFields

\* Messages are read in a survey only while the operator waits.
LEMMA SurveyRead ==
  ASSUME IInv, NEW s \in Nodes, Surveying(s), NEW m \in Nodes, MessageIn(m)
  PROVE  /\ at[s] = "wait" /\ ~ delayed[m] /\ in_queue[m] # <<>> /\ AllApart /\ SurveyWaits(s, m)
         /\ Head(in_queue[m]) \in Content(in_queue[m]) /\ Told(m, Head(in_queue[m]).UID)
         /\ Head(in_queue[m]).UID \in Nodes /\ Head(in_queue[m]).UID # m
         /\ Head(in_queue[m]).ID = node_ID[Head(in_queue[m]).UID]
         /\ \/ Head(in_queue[m]).UID = s /\ OnSurvey(m, Head(in_queue[m]))
            \/ Head(in_queue[m]).UID # s /\ OnReply(m, Head(in_queue[m]))
<1>1. ~ delayed[m] /\ in_queue[m] # <<>>
  BY DEF MessageIn
<1>2. at[s] = "wait" /\ AllApart /\ SurveyWaits(s, m)
  BY <1>1 DEF Surveying, Delivered
<1>3. Head(in_queue[m]) \in Content(in_queue[m])
  BY <1>1, <1>2, Served
<1>4. Head(in_queue[m]).fn \in {"SURVEY", "REPLY"} /\ Head(in_queue[m]).UID \in Nodes
  BY <1>2, <1>3, SurveyMessages
<1>5. /\ Head(in_queue[m]).UID # m /\ Head(in_queue[m]).ID = node_ID[Head(in_queue[m]).UID]
      /\ Head(in_queue[m]).UID = s => Head(in_queue[m]).fn = "SURVEY"
      /\ Head(in_queue[m]).UID # s => Head(in_queue[m]).fn = "REPLY"
  BY <1>2, <1>3 DEF SurveyWaits
<1>6. OnSurvey(m, Head(in_queue[m])) \/ OnReply(m, Head(in_queue[m]))
  BY <1>4 DEF MessageIn, OnSurvey, OnAssign, OnReply, OnGet, OnSet, OnData
<1>7. /\ OnSurvey(m, Head(in_queue[m])) => Head(in_queue[m]).fn = "SURVEY"
      /\ OnReply(m, Head(in_queue[m])) => Head(in_queue[m]).fn = "REPLY"
  BY DEF OnSurvey, OnReply
<1> QED
  BY <1>1, <1>2, <1>3, <1>4, <1>5, <1>6, <1>7 DEF Told

\* The request is read: the table is discarded, and the node replies or waits with it.
LEMMA RequestRead ==
  ASSUME IInv, EnoughRoom, ~ setup.lossy, NEW s \in Nodes, Surveying(s), NEW m \in Nodes, m # s, MessageIn(m),
         Head(in_queue[m]).UID = s, OnSurvey(m, Head(in_queue[m]))
  PROVE  Surveying(s)'
<1> DEFINE msg == Head(in_queue[m])
           Was(a, b) == Told(a, b) /\ ~ (a = m /\ b = s)
<1>1. /\ at[s] = "wait" /\ ~ delayed[m] /\ in_queue[m] # <<>> /\ AllApart /\ Told(m, s)
      /\ msg.UID = s /\ msg.ID = node_ID[s]
  BY SurveyRead
<1>2. /\ node' = [node EXCEPT ![m] = [Discarded EXCEPT ![s] = node_ID[s]]]
      /\ setup' = setup /\ node_ID' = node_ID /\ trace' = trace /\ at' = at /\ left' = left
      /\ \/ /\ node_ID[m] # 0 /\ delayed' = delayed
            /\ Send(m, [fn |-> "REPLY", UID |-> m, ID |-> node_ID[m]], Queue(m))
         \/ in_queue' = Queue(m) /\ delayed' = [delayed EXCEPT ![m] = TRUE]
  BY <1>1 DEF OnSurvey, shell
<1>3. /\ Queue(m) \in [Nodes -> Seq(Messages)] /\ \A a \in Nodes : Apart(Queue(m)[a])
      /\ \A a \in Nodes : a # m => Queue(m)[a] = in_queue[a]
      /\ \A x \in Content(Queue(m)[m]) : x \in Content(in_queue[m]) /\ x.UID # s
      /\ \A x \in Content(in_queue[m]) : x \in Content(Queue(m)[m]) \/ x = msg
      /\ SurveyFirst(in_queue[m]) => \A x \in Content(Queue(m)[m]) : x.fn # "SURVEY"
  BY <1>1, Served
<1> HIDE DEF msg
<1>4. /\ ~ delayed[s] /\ (\A a \in Nodes : SurveyWaits(s, a))
      /\ \A u \in Nodes : Unreplied(s, u) => /\ \A a \in Nodes : ~ Told(a, u)
                                             /\ delayed[u] => ~ Told(u, s)
      /\ \A a, u \in Nodes : a # u => \/ Unreplied(s, u) \/ Told(a, u)
                                      \/ Known(a, u) = node_ID[u] /\ ~ Told(a, s)
  BY <1>1 DEF Surveying
\* The node had to reply, so that nobody has a reply of it.
<1>5. \A a \in Nodes : ~ Told(a, m)
  BY <1>1, <1>4 DEF Unreplied
<1>6. \A a, b \in Nodes : Was(a, b) <=> \E x \in Content(Queue(m)[a]) : x.UID = b
  <2>1. TAKE a \in Nodes, b \in Nodes
  <2>2. CASE a = m
    BY <1>1, <1>3, <2>2 DEF Told
  <2>3. CASE a # m
    BY <1>3, <2>3 DEF Told
  <2> QED
    BY <2>2, <2>3
<1>7. \A a \in Nodes : \A x \in Content(Queue(m)[a]) :
           /\ x.UID \in Nodes /\ x.UID # a /\ x.UID # m /\ x.ID = node_ID[x.UID]
           /\ x.UID = s => x.fn = "SURVEY"
           /\ x.UID # s => x.fn = "REPLY"
  <2>1. TAKE a \in Nodes
  <2>2. TAKE x \in Content(Queue(m)[a])
  <2>3. x \in Content(in_queue[a])
    BY <1>3
  <2>4. x.UID \in Nodes
    BY <1>4, <2>3, SurveyMessages
  <2>5. x.UID # m
    BY <1>5, <2>3 DEF Told
  <2>6. /\ x.UID # a /\ x.ID = node_ID[x.UID]
        /\ x.UID = s => x.fn = "SURVEY"
        /\ x.UID # s => x.fn = "REPLY"
    BY <1>4, <2>3 DEF SurveyWaits
  <2> QED
    BY <2>4, <2>5, <2>6
<1>8. \A a \in Nodes : SurveyFirst(Queue(m)[a])
  <2>1. TAKE a \in Nodes
  <2>2. CASE a = m
    <3>1. \A i \in DOMAIN Queue(m)[m] : Queue(m)[m][i].fn # "SURVEY"
      BY <1>3, <1>4 DEF SurveyWaits, Content
    <3> QED
      BY <2>2, <3>1 DEF SurveyFirst
  <2>3. CASE a # m
    BY <1>3, <1>4, <2>3 DEF SurveyWaits
  <2> QED
    BY <2>2, <2>3
\* Its table has nothing but the number of the operator's node.
<1>9. \A a, b \in Nodes : a # b => Known(a, b)' = IF a = m THEN (IF b = s THEN node_ID[s] ELSE NoEntry)
                                                  ELSE Known(a, b)
  <2>1. node'[m] = [Discarded EXCEPT ![s] = node_ID[s]] /\ \A a \in Nodes : a # m => node'[a] = node[a]
    BY <1>2 DEF IInv, NumberTypes
  <2>2. \A b \in Nodes : node'[m][b] = IF b = s THEN node_ID[s] ELSE NoEntry
    BY <2>1 DEF Discarded
  <2> QED
    BY <2>1, <2>2 DEF Known
<1> HIDE DEF Was
<1>10. CASE /\ node_ID[m] # 0 /\ delayed' = delayed
            /\ Send(m, [fn |-> "REPLY", UID |-> m, ID |-> node_ID[m]], Queue(m))
  <2>1. /\ AllApart' /\ \A a \in Nodes : SurveyWaits(s, a)'
        /\ \A a, b \in Nodes : Told(a, b)' <=> (\E x \in Content(Queue(m)[a]) : x.UID = b) \/ (a # m /\ b = m)
    <3>1. \A a \in Nodes : Apart(Queue(m)[a]) /\ SurveyFirst(Queue(m)[a])
      BY <1>3, <1>8
    <3>2. node_ID[m] \in IDs
      BY TableTypes
    <3>3. Unheard(s, m, Queue(m))
      BY <1>7, <3>1 DEF Unheard
    <3>4. Heard(s, m, Queue(m))
      BY <1>2, <1>3, <1>10, <3>2, <3>3, ReplySent DEF IInv, NumberTypes
    <3> QED
      BY <3>4 DEF Heard
  <2>2. \A a, b \in Nodes : Told(a, b)' <=> Was(a, b) \/ (a # m /\ b = m)
    BY <1>6, <2>1
  <2>3. \A u \in Nodes : Unreplied(s, u)' <=> Unreplied(s, u) /\ u # m
    BY <1>1, <1>10, <2>2 DEF Unreplied, Was
  <2>4. \A u \in Nodes : Unreplied(s, u)' => /\ \A a \in Nodes : ~ Told(a, u)'
                                             /\ delayed'[u] => ~ Told(u, s)'
    BY <1>4, <1>10, <2>2, <2>3 DEF Was
  <2>5. \A a, u \in Nodes : a # u =>
          Unreplied(s, u)' \/ Told(a, u)' \/ (Known(a, u)' = node_ID[u] /\ ~ Told(a, s)')
    BY <1>1, <1>4, <1>9, <2>2, <2>3 DEF Was
  <2> QED
    BY <1>1, <1>2, <1>4, <1>10, <2>1, <2>4, <2>5, SurveyGoesOn
<1>11. CASE in_queue' = Queue(m) /\ delayed' = [delayed EXCEPT ![m] = TRUE]
  <2>1. AllApart' /\ \A a, b \in Nodes : Told(a, b)' <=> Was(a, b)
    <3>1. \A a, b \in Nodes : Told(a, b)' <=> \E x \in Content(in_queue'[a]) : x.UID = b
      BY DEF Told
    <3>2. \A a, b \in Nodes : Told(a, b)' <=> Was(a, b)
      BY <1>6, <1>11, <3>1
    <3>3. AllApart'
      BY <1>3, <1>11 DEF AllApart
    <3> QED
      BY <3>2, <3>3
  <2>2. \A a \in Nodes : SurveyWaits(s, a)'
    BY <1>2, <1>7, <1>8, <1>11 DEF SurveyWaits
  <2>3. delayed'[m] /\ \A u \in Nodes : u # m => delayed'[u] = delayed[u]
    BY <1>11 DEF IInv
  <2>4. \A u \in Nodes : Unreplied(s, u)' <=> Unreplied(s, u)
    BY <1>1, <2>1, <2>3 DEF Unreplied, Was
  <2>5. \A u \in Nodes : Unreplied(s, u)' => /\ \A a \in Nodes : ~ Told(a, u)'
                                             /\ delayed'[u] => ~ Told(u, s)'
    BY <1>4, <2>1, <2>3, <2>4 DEF Was
  <2>6. \A a, u \in Nodes : a # u =>
          Unreplied(s, u)' \/ Told(a, u)' \/ (Known(a, u)' = node_ID[u] /\ ~ Told(a, s)')
    BY <1>1, <1>4, <1>9, <2>1, <2>4 DEF Was
  <2>7. ~ delayed'[s]
    BY <1>4, <2>3
  <2> QED
    BY <1>1, <1>2, <2>1, <2>2, <2>5, <2>6, <2>7, SurveyGoesOn
<1> QED
  BY <1>2, <1>10, <1>11

\* A reply is read, after the request if the node had it.
LEMMA ReplyRead ==
  ASSUME IInv, ~ setup.lossy, NEW s \in Nodes, Surveying(s), NEW m \in Nodes, MessageIn(m),
         Head(in_queue[m]).UID # s, OnReply(m, Head(in_queue[m]))
  PROVE  Surveying(s)'
<1> DEFINE u == Head(in_queue[m]).UID
<1>1. /\ at[s] = "wait" /\ in_queue[m] # <<>> /\ AllApart /\ u \in Nodes /\ u # m /\ u # s /\ Told(m, u)
      /\ Head(in_queue[m]).ID = node_ID[u]
  BY SurveyRead
<1>2. /\ node' = [node EXCEPT ![m][u] = node_ID[u]] /\ in_queue' = Queue(m)
      /\ setup' = setup /\ node_ID' = node_ID /\ trace' = trace /\ at' = at /\ left' = left /\ delayed' = delayed
  BY <1>1 DEF OnReply, shell
<1>3. /\ AllApart' /\ (\A a \in Nodes : \A x \in Content(in_queue'[a]) : x \in Content(in_queue[a]))
      /\ \A a, b \in Nodes : Told(a, b)' <=> Told(a, b) /\ ~ (a = m /\ b = u)
  BY <1>1, <1>2, Taken
<1>4. /\ ~ delayed[s] /\ (\A a \in Nodes : SurveyWaits(s, a))
      /\ \A v \in Nodes : Unreplied(s, v) => /\ \A a \in Nodes : ~ Told(a, v)
                                             /\ delayed[v] => ~ Told(v, s)
      /\ \A a, v \in Nodes : a # v => \/ Unreplied(s, v) \/ Told(a, v)
                                      \/ Known(a, v) = node_ID[v] /\ ~ Told(a, s)
  BY <1>1 DEF Surveying
<1>5. \A x \in Content(Queue(m)[m]) : x.fn # "SURVEY"
  BY <1>1, <1>4, Served DEF SurveyWaits
<1> HIDE DEF u
\* The request was read before.
<1>6. ~ Told(m, s)'
  <2> SUFFICES ASSUME NEW x \in Content(in_queue'[m]), x.UID = s PROVE FALSE
    BY DEF Told
  <2>1. x.fn = "SURVEY"
    BY <1>3, <1>4 DEF SurveyWaits
  <2> QED
    BY <1>2, <1>5, <2>1
<1>7. \A a \in Nodes : SurveyWaits(s, a)'
  <2>1. TAKE a \in Nodes
  <2>2. SurveyFirst(in_queue'[a])
    <3>1. CASE a = m
      <4>1. \A i \in DOMAIN in_queue'[m] : in_queue'[m][i].fn # "SURVEY"
        BY <1>2, <1>5 DEF Content
      <4> QED
        BY <3>1, <4>1 DEF SurveyFirst
    <3>2. CASE a # m
      BY <1>1, <1>2, <1>4, <3>2, Served DEF SurveyWaits
    <3> QED
      BY <3>1, <3>2
  <2>3. \A x \in Content(in_queue'[a]) : /\ x.UID # a /\ x.ID = node_ID[x.UID]
                                         /\ x.UID = s => x.fn = "SURVEY"
                                         /\ x.UID # s => x.fn = "REPLY"
    BY <1>3, <1>4 DEF SurveyWaits
  <2> QED
    BY <1>2, <2>2, <2>3 DEF SurveyWaits
<1>8. \A v \in Nodes : Unreplied(s, v)' <=> Unreplied(s, v)
  BY <1>1, <1>2, <1>3 DEF Unreplied
<1>9. \A v \in Nodes : Unreplied(s, v)' => /\ \A a \in Nodes : ~ Told(a, v)'
                                           /\ delayed'[v] => ~ Told(v, s)'
  BY <1>2, <1>3, <1>4, <1>8
<1>10. \A a, b \in Nodes : Known(a, b)' = IF a = m /\ b = u THEN node_ID[u] ELSE Known(a, b)
  BY <1>1, <1>2 DEF Known, IInv, NumberTypes
<1>11. \A a, v \in Nodes : a # v =>
         Unreplied(s, v)' \/ Told(a, v)' \/ (Known(a, v)' = node_ID[v] /\ ~ Told(a, s)')
  BY <1>3, <1>4, <1>6, <1>8, <1>10
<1> QED
  BY <1>1, <1>2, <1>3, <1>4, <1>7, <1>9, <1>11, SurveyGoesOn

\* A node without a number has waited, and replies.
LEMMA LateReply ==
  ASSUME IInv, EnoughRoom, ~ setup.lossy, NEW s \in Nodes, Surveying(s), NEW u \in Nodes, Reply(u)
  PROVE  Surveying(s)'
<1>1. /\ delayed[u] /\ delayed' = [delayed EXCEPT ![u] = FALSE]
      /\ Send(u, [fn |-> "REPLY", UID |-> u, ID |-> node_ID[u]], in_queue)
      /\ setup' = setup /\ node_ID' = node_ID /\ node' = node /\ trace' = trace /\ at' = at /\ left' = left
  BY DEF Reply, numbers, shell
<1>2. at[s] = "wait" /\ u # s
  BY <1>1 DEF Surveying, Delivered
<1>3. /\ ~ delayed[s] /\ AllApart /\ (\A a \in Nodes : SurveyWaits(s, a))
      /\ \A v \in Nodes : Unreplied(s, v) => /\ \A a \in Nodes : ~ Told(a, v)
                                             /\ delayed[v] => ~ Told(v, s)
      /\ \A a, v \in Nodes : a # v => \/ Unreplied(s, v) \/ Told(a, v)
                                      \/ Known(a, v) = node_ID[v] /\ ~ Told(a, s)
  BY <1>2 DEF Surveying
<1>4. ~ Told(u, s) /\ \A a \in Nodes : ~ Told(a, u)
  BY <1>1, <1>2, <1>3 DEF Unreplied
<1>5. \A a \in Nodes : \A x \in Content(in_queue[a]) :
           /\ x.UID \in Nodes /\ x.UID # a /\ x.UID # u /\ x.ID = node_ID[x.UID]
           /\ x.UID = s => x.fn = "SURVEY"
           /\ x.UID # s => x.fn = "REPLY"
  <2>1. TAKE a \in Nodes
  <2>2. TAKE x \in Content(in_queue[a])
  <2>3. x.UID \in Nodes
    BY <1>3, SurveyMessages
  <2>4. x.UID # u
    BY <1>4 DEF Told
  <2>5. /\ x.UID # a /\ x.ID = node_ID[x.UID]
        /\ x.UID = s => x.fn = "SURVEY"
        /\ x.UID # s => x.fn = "REPLY"
    BY <1>3 DEF SurveyWaits
  <2> QED
    BY <2>3, <2>4, <2>5
<1>6. /\ AllApart' /\ \A a \in Nodes : SurveyWaits(s, a)'
      /\ \A a, b \in Nodes : Told(a, b)' <=> (\E x \in Content(in_queue[a]) : x.UID = b) \/ (a # u /\ b = u)
  <2>1. in_queue \in [Nodes -> Seq(Messages)] /\ node_ID[u] \in IDs
    BY TableTypes DEF IInv, Queues
  <2>2. \A a \in Nodes : Apart(in_queue[a]) /\ SurveyFirst(in_queue[a])
    BY <1>3 DEF AllApart, SurveyWaits
  <2>3. Unheard(s, u, in_queue)
    BY <1>5, <2>2 DEF Unheard
  <2>4. Heard(s, u, in_queue)
    BY <1>1, <1>2, <2>1, <2>3, ReplySent DEF IInv, NumberTypes
  <2> QED
    BY <2>4 DEF Heard
<1>7. \A a, b \in Nodes : Told(a, b)' <=> Told(a, b) \/ (a # u /\ b = u)
  BY <1>6 DEF Told
<1>8. ~ delayed'[u] /\ \A v \in Nodes : v # u => delayed'[v] = delayed[v]
  BY <1>1 DEF IInv
<1>9. \A v \in Nodes : Unreplied(s, v)' <=> Unreplied(s, v) /\ v # u
  BY <1>1, <1>2, <1>4, <1>7, <1>8 DEF Unreplied
<1>10. \A v \in Nodes : Unreplied(s, v)' => /\ \A a \in Nodes : ~ Told(a, v)'
                                            /\ delayed'[v] => ~ Told(v, s)'
  BY <1>2, <1>3, <1>7, <1>8, <1>9
<1>11. \A a, v \in Nodes : Known(a, v)' = Known(a, v)
  BY <1>1 DEF Known
<1>12. \A a, v \in Nodes : a # v =>
         Unreplied(s, v)' \/ Told(a, v)' \/ (Known(a, v)' = node_ID[v] /\ ~ Told(a, s)')
  BY <1>2, <1>3, <1>7, <1>9, <1>11
<1> QED
  BY <1>1, <1>2, <1>3, <1>6, <1>8, <1>10, <1>12, SurveyGoesOn

\* All replies have come: the operator knows the numbers.
LEMMA SurveyEnds ==
  ASSUME IInv, NEW s \in Nodes, Surveying(s), EndSurvey(s)
  PROVE  Commanding(s)' /\ Numbers(s)' /\ Renumbering(s)'
<1>1. /\ at[s] = "wait" /\ Delivered /\ at' = [at EXCEPT ![s] = "idle"] /\ Did(s, "survey")
      /\ node_ID' = node_ID /\ node' = node /\ in_queue' = in_queue /\ delayed' = delayed
      /\ left' = left /\ setup' = setup
  BY DEF EndSurvey, Goto, queues
<1>2. trace = [by |-> s, did |-> <<>>] /\ OnlyAt(s) /\ (AllDistinct => Distinct(node_ID))
  BY DEF Surveying
<1>3. trace' = [by |-> s, did |-> S] /\ S \in Numbering
  <2>1. Append(trace.did, "survey") = S /\ S \in Numbering /\ trace.by = s
    BY <1>2, Histories, Zenon
  <2>2. trace' = [trace EXCEPT !.did = S]
    <3>1. trace' = [trace EXCEPT !.did = Append(@, "survey")]
      BY <1>1, <2>1 DEF Did
    <3> QED
      BY <2>1, <3>1
  <2>3. trace' = [by |-> s, did |-> S]
    BY <1>2, <2>2
  <2> QED
    BY <2>1, <2>3
<1>4. at'[s] = "idle" /\ \A m \in Nodes : m # s => at'[m] = "idle"
  BY <1>1, <1>2 DEF OnlyAt, IInv, ShellTypes
<1>5. \A m \in Nodes : left[m] = {}
  BY <1>1, <1>2 DEF OnlyAt
<1>6. \A m \in Nodes : Content(in_queue[m]) = {} /\ ~ delayed[m] /\ Apart(in_queue[m]) /\ \A u : ~ Told(m, u)
  BY <1>1, NothingWaits
<1>7. \A m, u \in Nodes : Known(m, u) = node_ID[u]
  <2>1. TAKE m \in Nodes, u \in Nodes
  <2>2. CASE m = u
    BY <2>2 DEF Known
  <2>3. CASE m # u
    BY <1>1, <1>6, <2>3 DEF Surveying, Unreplied
  <2> QED
    BY <2>2, <2>3
<1>8. (\A m, u \in Nodes : Known(m, u)' = node_ID'[u]) /\ \A m, u \in Nodes : ~ Told(m, u)'
  BY <1>1, <1>6, <1>7 DEF Known, Told
<1>9. OnlyAt(s)'
  BY <1>1, <1>4, <1>5 DEF OnlyAt
<1>10. Commanding(s)'
  <2>1. AllApart' /\ \A m \in Nodes : ~ delayed'[m] /\ CommandWaits(s, m)'
    BY <1>1, <1>6 DEF AllApart, CommandWaits
  <2>2. \A u \in Nodes : Settled(u)'
    BY <1>8 DEF Settled
  <2>3. trace'.did = S /\ trace'.by = s /\ S # <<>>
    BY <1>3, HistoriesDiffer, Zenon
  <2> QED
    BY <1>3, <1>4, <1>9, <2>1, <2>2, <2>3 DEF Commanding
<1>11. Numbers(s)'
  <2>1. AllDistinct' => Distinct(node_ID)'
    BY <1>1, <1>2 DEF AllDistinct, Distinct
  <2>2. OnlyRevoked'
    BY <1>1, <1>6 DEF OnlyRevoked
  <2> QED
    BY <1>4, <2>1, <2>2 DEF Numbers
<1>12. Renumbering(s)'
  <2>1. Exact(s)'
    BY <1>8 DEF Exact
  <2>2. trace'.by = s /\ trace'.did = S /\ S \in Numbering /\ S # SA /\ S # SR /\ S # SRA /\ s # Nobody
    BY <1>3, HistoriesDiffer, TableTypes, Zenon
  <2> QED
    BY <1>4, <2>1, <2>2, Zenon DEF Renumbering
<1> QED
  BY <1>10, <1>11, <1>12

-----------------------------------------------------------------------------
(* Numbers: the commands *)

\* The one who gives numbers is the one whose command it is.
LEMMA Commander ==
  ASSUME Ordered, NEW n \in Nodes, at[n] \in {"assign", "revoke"}
  PROVE  Commanding(n) /\ Numbers(n) /\ Renumbering(n)
<1>1. ~ Unsurveyed
  BY DEF Unsurveyed, Quiet
<1>2. ASSUME NEW s \in Nodes, Surveying(s) PROVE FALSE
  <2>1. at[s] \in {"survey", "wait"} /\ \A m \in Nodes : m # s => at[m] = "idle"
    BY <1>2 DEF Surveying, OnlyAt
  <2> QED
    BY <2>1
<1>3. PICK c \in Nodes : Commanding(c) /\ Numbers(c) /\ Renumbering(c)
  BY <1>1, <1>2 DEF Ordered
<1>4. c = n
  BY <1>3 DEF Commanding, OnlyAt
<1> QED
  BY <1>3, <1>4

\* A number that n gives to u is known at once to n, and told to all the others.
LEMMA NumberSent ==
  ASSUME IInv, EnoughRoom, ~ setup.lossy, NEW n \in Nodes, Commanding(n), at[n] \in {"assign", "revoke"},
         NEW u \in Nodes, u \in left[n], NEW id \in IDs,
         left' = [left EXCEPT ![n] = left[n] \ {u}], node' = [node EXCEPT ![n][u] = id],
         Send(n, [fn |-> "ASSIGN", UID |-> u, ID |-> id], in_queue),
         setup' = setup, node_ID' = node_ID, trace' = trace, delayed' = delayed, at' = at
  PROVE  /\ Commanding(n)' /\ u # n /\ u \notin left'[n] /\ (\A v : v \notin left'[n] => v = u \/ v \notin left[n])
         /\ \A m, v \in Nodes : Known(m, v)' = IF m = n /\ v = u THEN id ELSE Known(m, v)
         /\ \A m, v \in Nodes : Told(m, v)' <=> Told(m, v) \/ (m # n /\ v = u)
         /\ \A m \in Nodes : \A x \in Content(in_queue'[m]) : x \in Content(in_queue[m]) \/ x.ID = id
<1> DEFINE msg == [fn |-> "ASSIGN", UID |-> u, ID |-> id]
<1>1. /\ msg \in Messages /\ msg.fn \in {"SURVEY", "ASSIGN", "REPLY"} /\ msg.fn = "ASSIGN"
      /\ msg.UID = u /\ msg.ID = id /\ Send(n, msg, in_queue)
  BY MessageForms
<1> HIDE DEF msg
<1>2. u # n /\ left'[n] = left[n] \ {u} /\ \A m \in Nodes : m # n => left'[m] = left[m]
  BY TableTypes DEF IInv, ShellTypes
<1>3. /\ AllApart /\ (\A m \in Nodes : ~ delayed[m] /\ CommandWaits(n, m))
      /\ Settled(n) /\ \A v \in Nodes : v # n => Sent(n, v) \/ Settled(v)
  BY DEF Commanding
<1>4. \A m \in Nodes : \A x \in Content(in_queue[m]) : x.UID \in Nodes /\ x.UID # n /\ x.UID # u
  <2>1. TAKE m \in Nodes
  <2>2. TAKE x \in Content(in_queue[m])
  <2>3. x \in Messages
    BY DEF IInv, Queues, Content
  <2>4. x.fn = "ASSIGN" /\ x.UID # n /\ x.UID \notin left[n]
    BY <1>3 DEF CommandWaits
  <2> QED
    BY <2>3, <2>4, MessageFields
<1>5. Open(n, msg.UID, in_queue)
  <2> SUFFICES ASSUME NEW m \in Nodes PROVE /\ Apart(in_queue[m])
                                            /\ m # n => HasRoom(in_queue[m]) /\ \A x \in Content(in_queue[m]) : x.UID # msg.UID
    BY DEF Open
  <2>1. in_queue[m] \in Seq(Messages) /\ Apart(in_queue[m])
    BY <1>3 DEF IInv, Queues, AllApart
  <2>2. HasRoom(in_queue[m])
    BY <1>2, <1>4, <2>1, Room DEF IInv, NumberTypes
  <2> QED
    BY <1>1, <1>4, <2>1, <2>2
<1>6. AllApart' /\ AtAll(n, msg, in_queue)
  <2>1. in_queue \in [Nodes -> Seq(Messages)]
    BY DEF IInv, Queues
  <2> QED
    BY <1>1, <1>5, <2>1, Announced
<1>7. \A m, v \in Nodes : Known(m, v)' = IF m = n /\ v = u THEN id ELSE Known(m, v)
  BY <1>2 DEF Known, IInv, NumberTypes
<1>8. \A m \in Nodes : \A x \in Content(in_queue'[m]) : x \in Content(in_queue[m]) \/ (m # n /\ x = msg)
  BY <1>6 DEF AtAll
<1>9. \A m, v \in Nodes : Told(m, v)' <=> Told(m, v) \/ (m # n /\ v = u)
  <2>1. TAKE m \in Nodes, v \in Nodes
  <2>2. Told(m, v)' <=> \E x \in Content(in_queue'[m]) : x.UID = v
    BY DEF Told
  <2>3. CASE m = n
    BY <1>6, <2>2, <2>3 DEF AtAll, Told
  <2>4. CASE m # n
    BY <1>1, <1>6, <2>2, <2>4 DEF AtAll, Told
  <2> QED
    BY <2>3, <2>4
<1>10. ASSUME NEW m \in Nodes PROVE CommandWaits(n, m)'
  <2>1. ASSUME NEW x \in Content(in_queue'[m])
        PROVE  m # n /\ x.fn = "ASSIGN" /\ x.UID # n /\ x.UID \notin left'[n] /\ x.ID = Known(n, x.UID)'
    <3>1. CASE x \in Content(in_queue[m])
      <4>1. m # n /\ x.fn = "ASSIGN" /\ x.UID # n /\ x.UID \notin left[n] /\ x.ID = Known(n, x.UID)
        BY <1>3, <3>1 DEF CommandWaits
      <4>2. x.UID \in Nodes /\ x.UID # u
        BY <1>4, <3>1
      <4> QED
        BY <1>2, <1>7, <4>1, <4>2
    <3>2. CASE m # n /\ x = msg
      BY <1>1, <1>2, <1>7, <3>2
    <3> QED
      BY <1>8, <3>1, <3>2
  <2> QED
    BY <2>1 DEF CommandWaits
<1>11. Settled(n)'
  BY <1>2, <1>3, <1>7, <1>9 DEF Settled
<1>12. ASSUME NEW v \in Nodes, v # n PROVE Sent(n, v)' \/ Settled(v)'
  <2>1. CASE v = u
    BY <1>9, <2>1 DEF Sent
  <2>2. CASE v # u /\ Sent(n, v)
    BY <1>7, <1>9, <2>2 DEF Sent
  <2>3. CASE v # u /\ Settled(v)
    BY <1>7, <1>9, <2>3 DEF Settled
  <2> QED
    BY <1>3, <1>12, <2>1, <2>2, <2>3
<1>13. OnlyAt(n)'
  BY <1>2 DEF Commanding, OnlyAt
<1>14. Commanding(n)'
  BY <1>3, <1>6, <1>10, <1>11, <1>12, <1>13 DEF Commanding
<1> QED
  BY <1>1, <1>2, <1>7, <1>8, <1>9, <1>14

\* What a command does to the history.
LEMMA HistoryGrows ==
  ASSUME NEW n \in Nodes, NEW w \in Words, Did(n, w), trace = [by |-> trace.by, did |-> trace.did],
         trace.by = n => trace.did \in Numbering
  PROVE  /\ trace' = [by |-> trace'.by, did |-> trace'.did] /\ trace'.did # <<>>
         /\ \/ trace'.by = Nobody /\ trace'.did = <<"other">>
            \/ /\ trace.by = n /\ trace'.by = n /\ trace'.did \in Numbering
               /\ \/ trace.did = S /\ w = "assign" /\ trace'.did = SA
                  \/ trace.did = S /\ w = "revoke all" /\ trace'.did = SR
                  \/ trace.did = SR /\ w = "assign" /\ trace'.did = SRA
<1>1. CASE trace.by = n /\ Append(trace.did, w) \in Numbering
  <2> DEFINE d == Append(trace.did, w)
  <2>1. \/ trace.did = S /\ w = "assign" /\ d = SA
        \/ trace.did = S /\ w = "revoke all" /\ d = SR
        \/ trace.did = SR /\ w = "assign" /\ d = SRA
    BY <1>1, OnlyHistories
  <2>2. d \in Numbering /\ d # <<>>
    BY <1>1, <2>1, HistoriesDiffer, Zenon
  <2>3. trace' = [trace EXCEPT !.did = d]
    BY <1>1 DEF Did
  <2> HIDE DEF d
  <2>4. trace' = [by |-> n, did |-> d]
    BY <1>1, <2>3
  <2>5. trace'.by = n /\ trace'.did = d
    BY <2>4
  <2> QED
    BY <1>1, <2>1, <2>2, <2>4, <2>5, Zenon
<1>2. CASE ~ (trace.by = n /\ Append(trace.did, w) \in Numbering)
  <2>1. trace' = [by |-> Nobody, did |-> <<"other">>]
    BY <1>2 DEF Did
  <2>2. trace'.by = Nobody /\ trace'.did = <<"other">>
    BY <2>1
  <2> QED
    BY <2>1, <2>2, HistoriesDiffer, Zenon
<1> QED
  BY <1>1, <1>2

\* An assignment begins: the node takes a number if it has none, and tells nobody.
LEMMA AssignBegins ==
  ASSUME IInv, Ordered, NEW k \in Nodes, Assign(k)
  PROVE  Commanding(k)' /\ Numbers(k)' /\ Renumbering(k)'
<1>1. /\ Quiet /\ trace.did # <<>> /\ node_ID' = [node_ID EXCEPT ![k] = IF node_ID[k] = 0 THEN AssignID(k) ELSE node_ID[k]]
      /\ at' = [at EXCEPT ![k] = "assign"] /\ left' = [left EXCEPT ![k] = Nodes \ {k}]
      /\ setup' = setup /\ node' = node /\ trace' = trace /\ in_queue' = in_queue /\ delayed' = delayed
  BY DEF Assign, Goto, queues
<1>2. PICK n \in Nodes : Commanding(n) /\ Numbers(n) /\ Renumbering(n)
  BY <1>1, QuietOrdered DEF Unsurveyed
<1>3. /\ \A m \in Nodes : at[m] = "idle" /\ left[m] = {}
      /\ \A u \in Nodes : Settled(u)
  BY <1>1, <1>2, QuietTables
<1>4. \A m \in Nodes : Content(in_queue[m]) = {} /\ ~ delayed[m] /\ Apart(in_queue[m]) /\ \A u : ~ Told(m, u)
  BY <1>1, NothingWaits DEF Quiet
<1>5. /\ at'[k] = "assign" /\ \A m \in Nodes : m # k => at'[m] = "idle"
      /\ left'[k] = Nodes \ {k} /\ \A m \in Nodes : m # k => left'[m] = {}
  BY <1>1, <1>3 DEF IInv, ShellTypes
<1>6. /\ node_ID'[k] = (IF node_ID[k] = 0 THEN AssignID(k) ELSE node_ID[k])
      /\ \A u \in Nodes : u # k => node_ID'[u] = node_ID[u]
  BY <1>1 DEF IInv, NumberTypes
<1>7. \A m, u \in Nodes : ~ Told(m, u)' /\ Known(m, u)' = IF m = k /\ u = k THEN node_ID'[k] ELSE Known(m, u)
  BY <1>1, <1>4, <1>6 DEF Told, Known
<1>8. \A u \in Nodes : Settled(u)'
  <2>1. TAKE u \in Nodes
  <2>2. CASE u = k
    <3>1. ASSUME NEW m \in Nodes PROVE Known(m, k)' \in {node_ID'[k], 0}
      <4>1. CASE m = k
        BY <1>7, <4>1
      <4>2. CASE m # k
        BY <1>3, <1>6, <1>7, <4>2 DEF Settled
      <4> QED
        BY <4>1, <4>2
    <3> QED
      BY <1>7, <2>2, <3>1 DEF Settled
  <2>3. CASE u # k
    BY <1>3, <1>6, <1>7, <2>3 DEF Settled
  <2> QED
    BY <2>2, <2>3
<1>9. Commanding(k)'
  <2>1. OnlyAt(k)'
    BY <1>5 DEF OnlyAt
  <2>2. AllApart' /\ \A m \in Nodes : ~ delayed'[m] /\ CommandWaits(k, m)'
    BY <1>1, <1>4 DEF AllApart, CommandWaits
  <2>3. trace' = [by |-> trace'.by, did |-> trace'.did] /\ trace'.did # <<>>
    BY <1>1, <1>2 DEF Commanding
  <2> QED
    BY <1>5, <1>8, <2>1, <2>2, <2>3 DEF Commanding
\* The number it takes is in no entry of its table.
<1>10. node_ID[k] = 0 => node_ID'[k] = 0 \/ \A u \in Nodes : node[k][u] # node_ID'[k]
  BY <1>6, AssignedIsFree, FreeIsNew
<1>11. EnoughNumbers => node_ID'[k] # 0
  <2> SUFFICES ASSUME EnoughNumbers, node_ID[k] = 0 PROVE AssignID(k) # 0
    BY <1>6
  <2>1. node \in [Nodes -> [Nodes -> IDs \cup {NoEntry}]] /\ node[k][k] = NoEntry
    BY DEF IInv, NumberTypes
  <2> QED
    BY <2>1, NumberLeft
<1>12. EnoughNumbers => Filled(k)'
  BY <1>5, <1>7, <1>11 DEF Filled
<1>13. ViewDistinct(k)' <=> \A u, w \in Nodes : u # w /\ Known(k, u)' = Known(k, w)' => Known(k, u)' = 0
  BY DEF ViewDistinct
<1>14. Numbers(k)'
  <2> SUFFICES ASSUME EnoughNumbers, AllDistinct PROVE ViewDistinct(k)'
    BY <1>1, <1>5, <1>12 DEF Numbers, AllDistinct
  <2>1. Distinct(node_ID)
    BY <1>1, <1>2, QuietNumbers
  <2>2. \A u \in Nodes : Known(k, u) \in {node_ID[u], 0}
    BY <1>3 DEF Settled
  <2>3. ASSUME NEW u \in Nodes, NEW w \in Nodes, u # w, Known(k, u)' = Known(k, w)', Known(k, u)' # 0 PROVE FALSE
    <3>1. CASE u # k /\ w # k
      BY <1>7, <2>1, <2>2, <2>3, <3>1 DEF Distinct
    <3>2. CASE u = k
      BY <1>6, <1>7, <1>10, <2>1, <2>2, <2>3, <3>2 DEF Distinct, Known
    <3>3. CASE w = k
      BY <1>6, <1>7, <1>10, <2>1, <2>2, <2>3, <3>3 DEF Distinct, Known
    <3> QED
      BY <3>1, <3>2, <3>3
  <2> QED
    BY <1>13, <2>3
<1>15. Renumbering(k)'
  <2>1. trace'.by = Nobody => trace'.did = <<"other">>
    BY <1>1, <1>2 DEF Renumbering
  <2>2. ASSUME trace.by = k
        PROVE  /\ Exact(k)' /\ trace.did \in Numbering
               /\ EnoughNumbers /\ (trace.did = SRA \/ trace.did = SR) => ViewDistinct(k)'
    <3>1. k = n /\ trace.did \in Numbering /\ \A u \in Nodes : Known(k, u) = node_ID[u]
      BY <1>1, <1>2, <2>2, QuietRenumbering
    <3>2. Exact(k)'
      BY <1>6, <1>7, <3>1 DEF Exact
    <3>3. CASE EnoughNumbers /\ trace.did = SRA
      <4>1. ViewDistinct(k) /\ Filled(k)
        BY <1>2, <2>2, <3>1, <3>3 DEF Renumbering
      <4>2. node_ID[k] # 0
        BY <1>3, <4>1 DEF Filled, Known
      <4>3. \A u \in Nodes : Known(k, u)' = Known(k, u)
        BY <1>6, <1>7, <4>2 DEF Known
      <4> QED
        BY <1>13, <3>1, <3>2, <4>1, <4>3 DEF ViewDistinct
    <3>4. CASE EnoughNumbers /\ trace.did = SR
      <4>1. \A u \in Nodes : u # k => Known(k, u) = 0
        BY <1>2, <1>3, <2>2, <3>1, <3>4 DEF Renumbering
      <4>2. \A u \in Nodes : u # k => Known(k, u)' = 0
        BY <1>7, <4>1
      <4> QED
        BY <1>13, <3>1, <3>2, <4>2
    <3> QED
      BY <3>1, <3>2, <3>3, <3>4
  <2> QED
    BY <1>1, <1>5, <1>12, <2>1, <2>2 DEF Renumbering
<1> QED
  BY <1>9, <1>14, <1>15

\* A number is given to one node, or it has one, or there is none.
LEMMA NumberGiven ==
  ASSUME IInv, EnoughRoom, ~ setup.lossy, Ordered, NEW n \in Nodes, NEW u \in Nodes, AssignOne(n, u)
  PROVE  Commanding(n)' /\ Numbers(n)' /\ Renumbering(n)'
<1>1. /\ at[n] = "assign" /\ u \in left[n] /\ left' = [left EXCEPT ![n] = left[n] \ {u}]
      /\ setup' = setup /\ node_ID' = node_ID /\ trace' = trace /\ delayed' = delayed /\ at' = at
  BY DEF AssignOne
<1>2. Commanding(n) /\ Numbers(n) /\ Renumbering(n)
  BY <1>1, Commander
<1>3. CASE node[n][u] = 0 /\ AssignID(n) # 0
  <2>1. /\ node' = [node EXCEPT ![n][u] = AssignID(n)]
        /\ Send(n, [fn |-> "ASSIGN", UID |-> u, ID |-> AssignID(n)], in_queue)
    BY <1>3 DEF AssignOne
  <2>2. /\ AssignID(n) \in IDs /\ AssignID(n) # 0 /\ AssignID(n) # node_ID[n]
        /\ \A v \in Nodes : node[n][v] # AssignID(n)
    BY <1>3, AssignedIsFree, FreeIsNew
  <2>3. /\ Commanding(n)' /\ u # n /\ u \notin left'[n] /\ (\A v : v \notin left'[n] => v = u \/ v \notin left[n])
        /\ \A m, v \in Nodes : Known(m, v)' = IF m = n /\ v = u THEN AssignID(n) ELSE Known(m, v)
        /\ \A m, v \in Nodes : Told(m, v)' <=> Told(m, v) \/ (m # n /\ v = u)
    BY <1>1, <1>2, <2>1, <2>2, NumberSent
  <2>4. \A v \in Nodes : Known(n, v) # AssignID(n)
    BY <2>2 DEF Known
  <2>5. Filled(n) => Filled(n)'
    BY <2>2, <2>3 DEF Filled
  <2>6. ViewDistinct(n) => ViewDistinct(n)'
    BY <2>3, <2>4 DEF ViewDistinct
  <2>7. Exact(n) => Exact(n)'
    BY <1>1, <2>3 DEF Exact
  <2>8. Numbers(n)'
    BY <1>1, <1>2, <2>5, <2>6 DEF Numbers, AllDistinct
  <2>9. Renumbering(n)'
    BY <1>1, <1>2, <2>5, <2>6, <2>7 DEF Renumbering
  <2> QED
    BY <2>3, <2>8, <2>9
<1>4. CASE ~ (node[n][u] = 0 /\ AssignID(n) # 0)
  <2>1. node' = node /\ in_queue' = in_queue
    BY <1>4 DEF AssignOne
  <2>2. /\ u # n /\ left'[n] = left[n] \ {u} /\ \A m \in Nodes : m # n => left'[m] = left[m]
    BY <1>1, TableTypes DEF IInv, ShellTypes
  <2>3. \A m, v \in Nodes : Known(m, v)' = Known(m, v) /\ (Told(m, v)' <=> Told(m, v))
    BY <1>1, <2>1 DEF Known, Told
  <2>4. EnoughNumbers => Known(n, u) # 0
    <3> SUFFICES ASSUME EnoughNumbers, node[n][u] = 0 PROVE FALSE
      BY <2>2 DEF Known
    <3>1. node \in [Nodes -> [Nodes -> IDs \cup {NoEntry}]] /\ node[n][n] = NoEntry
      BY DEF IInv, NumberTypes
    <3> QED
      BY <1>4, <2>2, <3>1, NumberLeft
  <2>5. EnoughNumbers /\ Filled(n) => Filled(n)'
    BY <2>2, <2>3, <2>4 DEF Filled
  <2>6. ViewDistinct(n) => ViewDistinct(n)'
    BY <2>3 DEF ViewDistinct
  <2>7. Exact(n) => Exact(n)'
    BY <1>1, <2>3 DEF Exact
  <2>8. Numbers(n)'
    BY <1>1, <1>2, <2>5, <2>6 DEF Numbers, AllDistinct
  <2>9. Renumbering(n)'
    BY <1>1, <1>2, <2>5, <2>6, <2>7 DEF Renumbering
  <2>10. Commanding(n)'
    <3>1. OnlyAt(n)'
      BY <1>1, <1>2, <2>2 DEF Commanding, OnlyAt
    <3>2. \A m \in Nodes : CommandWaits(n, m)'
      <4>1. \A m \in Nodes : \A x \in Content(in_queue[m]) : x \in Messages
        BY DEF IInv, Queues, Content
      <4>2. \A m \in Nodes : \A x \in Content(in_queue[m]) : x.fn = "ASSIGN" => x.UID \in Nodes
        BY <4>1, MessageFields
      <4> QED
        BY <1>2, <2>1, <2>2, <2>3, <4>2 DEF Commanding, CommandWaits
    <3>3. (\A v \in Nodes : Settled(v) => Settled(v)') /\ \A v \in Nodes : Sent(n, v) => Sent(n, v)'
      BY <1>1, <2>3 DEF Settled, Sent
    <3> QED
      BY <1>1, <1>2, <2>1, <3>1, <3>2, <3>3 DEF Commanding, AllApart
  <2> QED
    BY <2>8, <2>9, <2>10
<1> QED
  BY <1>3, <1>4

\* A revocation begins: of one number, or of all in the table.
LEMMA RevokeBegins ==
  ASSUME IInv, Ordered, NEW k \in Nodes, NEW id \in IDs, Revoke(k, id)
  PROVE  Commanding(k)' /\ Numbers(k)' /\ Renumbering(k)'
<1> DEFINE w == IF id = 0 THEN "revoke all" ELSE "revoke"
<1>1. /\ Quiet /\ trace.did # <<>> /\ Did(k, w)
      /\ at' = [at EXCEPT ![k] = "revoke"] /\ left' = [left EXCEPT ![k] = Revoked(k, id)]
      /\ setup' = setup /\ node_ID' = node_ID /\ node' = node /\ in_queue' = in_queue /\ delayed' = delayed
  BY DEF Revoke, Goto, queues
<1>2. w \in Words /\ (w = "revoke all" => id = 0) /\ w # "assign"
  BY DEF Words
<1> HIDE DEF w
<1>3. PICK n \in Nodes : Commanding(n) /\ Numbers(n) /\ Renumbering(n)
  BY <1>1, QuietOrdered DEF Unsurveyed
<1>4. /\ \A m \in Nodes : at[m] = "idle" /\ left[m] = {}
      /\ \A u \in Nodes : Settled(u)
  BY <1>1, <1>3, QuietTables
<1>5. \A m \in Nodes : Content(in_queue[m]) = {} /\ ~ delayed[m] /\ Apart(in_queue[m]) /\ \A u : ~ Told(m, u)
  BY <1>1, NothingWaits DEF Quiet
<1>6. /\ at'[k] = "revoke" /\ \A m \in Nodes : m # k => at'[m] = "idle"
      /\ left'[k] = Revoked(k, id) /\ \A m \in Nodes : m # k => left'[m] = {}
  BY <1>1, <1>4 DEF IInv, ShellTypes
<1>7. \A m, u \in Nodes : ~ Told(m, u)' /\ Known(m, u)' = Known(m, u)
  BY <1>1, <1>5 DEF Told, Known
<1>8. trace.by = k => k = n /\ trace.did \in Numbering /\ \A u \in Nodes : Known(k, u) = node_ID[u]
  BY <1>1, <1>3, QuietRenumbering
<1>9. /\ trace' = [by |-> trace'.by, did |-> trace'.did] /\ trace'.did # <<>>
      /\ \/ trace'.by = Nobody /\ trace'.did = <<"other">>
         \/ trace.by = k /\ trace'.by = k /\ trace'.did \in Numbering /\ w = "revoke all" /\ trace'.did = SR
  <2>1. trace = [by |-> trace.by, did |-> trace.did]
    BY <1>3 DEF Commanding
  <2>2. /\ trace' = [by |-> trace'.by, did |-> trace'.did] /\ trace'.did # <<>>
        /\ \/ trace'.by = Nobody /\ trace'.did = <<"other">>
           \/ /\ trace.by = k /\ trace'.by = k /\ trace'.did \in Numbering
              /\ \/ trace.did = S /\ w = "assign" /\ trace'.did = SA
                 \/ trace.did = S /\ w = "revoke all" /\ trace'.did = SR
                 \/ trace.did = SR /\ w = "assign" /\ trace'.did = SRA
    BY <1>1, <1>2, <1>8, <2>1, HistoryGrows
  <2> QED
    BY <1>2, <2>2
<1>10. Commanding(k)'
  <2>1. OnlyAt(k)'
    BY <1>6 DEF OnlyAt
  <2>2. AllApart' /\ \A m \in Nodes : ~ delayed'[m] /\ CommandWaits(k, m)'
    BY <1>1, <1>5 DEF AllApart, CommandWaits
  <2>3. \A u \in Nodes : Settled(u)'
    BY <1>1, <1>4, <1>7 DEF Settled
  <2> QED
    BY <1>6, <1>9, <2>1, <2>2, <2>3 DEF Commanding
<1>11. Numbers(k)'
  <2> SUFFICES ASSUME AllDistinct PROVE Distinct(node_ID)' /\ OnlyRevoked'
    BY <1>1, <1>6 DEF Numbers, AllDistinct
  <2>1. Distinct(node_ID)
    BY <1>1, <1>3, QuietNumbers
  <2> QED
    BY <1>1, <1>5, <2>1 DEF OnlyRevoked, Distinct
<1>12. Renumbering(k)'
  <2>1. CASE trace'.by = Nobody /\ trace'.did = <<"other">>
    BY <2>1, TableTypes DEF Renumbering
  <2>2. CASE trace.by = k /\ trace'.by = k /\ trace'.did \in Numbering /\ w = "revoke all" /\ trace'.did = SR
    <3>1. \A u \in Nodes : Known(k, u) = node_ID[u]
      BY <1>8, <2>2
    <3>2. Exact(k)'
      BY <1>1, <1>7, <3>1 DEF Exact
    <3>3. ASSUME NEW u \in Nodes, u # k, u \notin left'[k] PROVE Known(k, u)' = 0
      <4>1. Known(k, u) = node[k][u] /\ node[k][u] # NoEntry
        BY <3>1, <3>3, TableTypes DEF Known
      <4>2. u \notin Revoked(k, 0)
        BY <1>2, <1>6, <2>2, <3>3
      <4>3. node[k][u] = 0
        BY <4>1, <4>2 DEF Revoked, Numbered
      <4> QED
        BY <1>7, <4>1, <4>3
    <3>4. trace'.did # SA /\ trace'.did # SRA /\ k # Nobody
      BY <2>2, HistoriesDiffer, TableTypes
    <3> QED
      BY <1>6, <2>2, <3>2, <3>3, <3>4 DEF Renumbering
  <2> QED
    BY <1>9, <2>1, <2>2
<1> QED
  BY <1>10, <1>11, <1>12

\* The number of one node is revoked.
LEMMA NumberTaken ==
  ASSUME IInv, EnoughRoom, ~ setup.lossy, Ordered, NEW n \in Nodes, NEW u \in Nodes, RevokeOne(n, u)
  PROVE  Commanding(n)' /\ Numbers(n)' /\ Renumbering(n)'
<1>1. /\ at[n] = "revoke" /\ u \in left[n] /\ left' = [left EXCEPT ![n] = left[n] \ {u}]
      /\ node' = [node EXCEPT ![n][u] = 0] /\ Send(n, [fn |-> "ASSIGN", UID |-> u, ID |-> 0], in_queue)
      /\ setup' = setup /\ node_ID' = node_ID /\ trace' = trace /\ delayed' = delayed /\ at' = at
  BY DEF RevokeOne
<1>2. Commanding(n) /\ Numbers(n) /\ Renumbering(n)
  BY <1>1, Commander
<1>3. /\ Commanding(n)' /\ u # n /\ u \notin left'[n] /\ (\A v : v \notin left'[n] => v = u \/ v \notin left[n])
      /\ \A m, v \in Nodes : Known(m, v)' = IF m = n /\ v = u THEN 0 ELSE Known(m, v)
      /\ \A m, v \in Nodes : Told(m, v)' <=> Told(m, v) \/ (m # n /\ v = u)
      /\ \A m \in Nodes : \A x \in Content(in_queue'[m]) : x \in Content(in_queue[m]) \/ x.ID = 0
  BY <1>1, <1>2, TableTypes, NumberSent
<1>4. OnlyRevoked => OnlyRevoked'
  BY <1>3 DEF OnlyRevoked
<1>5. Exact(n) => Exact(n)'
  BY <1>1, <1>3 DEF Exact
<1>6. Numbers(n)'
  BY <1>1, <1>2, <1>4 DEF Numbers, AllDistinct, Distinct
<1>7. Renumbering(n)'
  <2>1. trace.by = n => trace.did = SR /\ SR # SA /\ SR # SRA /\ n # Nobody
    BY <1>1, <1>2, HistoriesDiffer, TableTypes DEF Renumbering
  <2>2. \A v \in Nodes : v # n /\ v \notin left'[n] => v = u \/ v \notin left[n]
    BY <1>3
  <2>3. (\A v \in Nodes : v # n /\ v \notin left[n] => Known(n, v) = 0)
        => \A v \in Nodes : v # n /\ v \notin left'[n] => Known(n, v)' = 0
    BY <1>3, <2>2
  <2> QED
    BY <1>1, <1>2, <1>5, <2>1, <2>3 DEF Renumbering
<1> QED
  BY <1>3, <1>6, <1>7

\* A command is over.
LEMMA CommandEnds ==
  ASSUME IInv, Ordered, NEW n \in Nodes, EndCommand(n)
  PROVE  Commanding(n)' /\ Numbers(n)' /\ Renumbering(n)'
<1>1. /\ at[n] \in {"assign", "revoke"} /\ left[n] = {} /\ at' = [at EXCEPT ![n] = "idle"]
      /\ IF at[n] = "assign" THEN Did(n, "assign") ELSE trace' = trace
      /\ setup' = setup /\ node_ID' = node_ID /\ node' = node /\ in_queue' = in_queue /\ delayed' = delayed
      /\ left' = left
  BY DEF EndCommand, Goto, queues
<1>2. Commanding(n) /\ Numbers(n) /\ Renumbering(n)
  BY <1>1, Commander
<1>3. at'[n] = "idle" /\ \A m \in Nodes : m # n => at'[m] = at[m]
  BY <1>1 DEF IInv, ShellTypes
<1>4. \A m, v \in Nodes : Known(m, v)' = Known(m, v) /\ (Told(m, v)' <=> Told(m, v))
  BY <1>1 DEF Known, Told
<1>5. /\ (Exact(n) => Exact(n)') /\ (Filled(n) => Filled(n)') /\ (ViewDistinct(n) => ViewDistinct(n)')
      /\ (OnlyRevoked => OnlyRevoked')
  BY <1>1, <1>4 DEF Exact, Filled, ViewDistinct, OnlyRevoked
<1>6. /\ trace' = [by |-> trace'.by, did |-> trace'.did] /\ trace'.did # <<>>
      /\ \/ trace' = trace /\ at[n] = "revoke"
         \/ trace'.by = Nobody /\ trace'.did = <<"other">>
         \/ /\ at[n] = "assign" /\ trace.by = n /\ trace'.by = n /\ trace'.did \in Numbering
            /\ trace'.did = SA \/ (trace.did = SR /\ trace'.did = SRA)
  <2>1. trace = [by |-> trace.by, did |-> trace.did] /\ trace.did # <<>>
    BY <1>2 DEF Commanding
  <2>2. CASE at[n] = "revoke"
    BY <1>1, <2>1, <2>2
  <2>3. CASE at[n] = "assign"
    <3>1. trace.by = n => trace.did \in Numbering
      BY <1>2 DEF Renumbering
    <3>2. "assign" \in Words /\ "assign" # "revoke all"
      BY DEF Words
    <3>3. /\ trace' = [by |-> trace'.by, did |-> trace'.did] /\ trace'.did # <<>>
          /\ \/ trace'.by = Nobody /\ trace'.did = <<"other">>
             \/ /\ trace.by = n /\ trace'.by = n /\ trace'.did \in Numbering
                /\ \/ trace.did = S /\ "assign" = "assign" /\ trace'.did = SA
                   \/ trace.did = S /\ "assign" = "revoke all" /\ trace'.did = SR
                   \/ trace.did = SR /\ "assign" = "assign" /\ trace'.did = SRA
      BY <1>1, <2>1, <2>3, <3>1, <3>2, HistoryGrows
    <3> QED
      BY <2>3, <3>2, <3>3
  <2> QED
    BY <1>1, <2>2, <2>3
<1>7. Commanding(n)'
  <2>1. OnlyAt(n)'
    BY <1>1, <1>2, <1>3 DEF Commanding, OnlyAt
  <2>2. \A m \in Nodes : ~ delayed'[m] /\ CommandWaits(n, m)'
    <3>1. \A m \in Nodes : \A x \in Content(in_queue[m]) : x \in Messages
      BY DEF IInv, Queues, Content
    <3>2. \A m \in Nodes : \A x \in Content(in_queue[m]) : x.fn = "ASSIGN" => x.UID \in Nodes
      BY <3>1, MessageFields
    <3> QED
      BY <1>1, <1>2, <1>4, <3>2 DEF Commanding, CommandWaits
  <2>3. (\A v \in Nodes : Settled(v) => Settled(v)') /\ \A v \in Nodes : Sent(n, v) => Sent(n, v)'
    BY <1>1, <1>4 DEF Settled, Sent
  <2> QED
    BY <1>1, <1>2, <1>3, <1>6, <2>1, <2>2, <2>3 DEF Commanding, AllApart
<1>8. Numbers(n)'
  <2>1. EnoughNumbers /\ AllDistinct =>
          \/ ViewDistinct(n)' /\ Filled(n)'
          \/ Distinct(node_ID)' /\ OnlyRevoked'
    BY <1>1, <1>2, <1>5 DEF Numbers, Distinct
  <2> QED
    BY <1>1, <1>3, <2>1 DEF Numbers, AllDistinct
<1>9. Renumbering(n)'
  <2>1. CASE trace' = trace /\ at[n] = "revoke"
    <3>1. trace.by = n => trace.did = SR /\ SR # SA /\ SR # SRA /\ n # Nobody
      BY <1>2, <2>1, HistoriesDiffer, TableTypes DEF Renumbering
    <3>2. (\A v \in Nodes : v # n /\ v \notin left[n] => Known(n, v) = 0)
          => \A v \in Nodes : v # n /\ v \notin left'[n] => Known(n, v)' = 0
      BY <1>1, <1>4
    <3> QED
      BY <1>2, <1>3, <1>5, <2>1, <3>1, <3>2 DEF Renumbering
  <2>2. CASE trace'.by = Nobody /\ trace'.did = <<"other">>
    BY <2>2, TableTypes DEF Renumbering
  <2>3. CASE /\ at[n] = "assign" /\ trace.by = n /\ trace'.by = n /\ trace'.did \in Numbering
             /\ trace'.did = SA \/ (trace.did = SR /\ trace'.did = SRA)
    <3>1. EnoughNumbers => Filled(n)'
      BY <1>2, <1>5, <2>3 DEF Numbers
    <3>2. EnoughNumbers /\ trace'.did = SRA => ViewDistinct(n)'
      BY <1>2, <1>5, <2>3, HistoriesDiffer DEF Renumbering
    <3>3. trace'.did # SR /\ n # Nobody /\ Exact(n)'
      BY <1>2, <1>5, <2>3, HistoriesDiffer, TableTypes DEF Renumbering
    <3> QED
      BY <1>3, <2>3, <3>1, <3>2, <3>3 DEF Renumbering
  <2> QED
    BY <1>6, <2>1, <2>2, <2>3
<1> QED
  BY <1>7, <1>8, <1>9

\* A number that was given is read, by the node it is for or another.
LEMMA NumberRead ==
  ASSUME IInv, NEW n \in Nodes, Commanding(n), Numbers(n), Renumbering(n), NEW m \in Nodes, MessageIn(m)
  PROVE  Commanding(n)' /\ Numbers(n)' /\ Renumbering(n)'
<1> DEFINE msg == Head(in_queue[m])
           u == msg.UID
<1>1. /\ in_queue[m] # <<>> /\ AllApart /\ (\A a \in Nodes : ~ delayed[a] /\ CommandWaits(n, a))
      /\ Settled(n) /\ \A v \in Nodes : v # n => Sent(n, v) \/ Settled(v)
  BY DEF MessageIn, Commanding
<1>2. msg \in Content(in_queue[m]) /\ msg \in Messages
  BY <1>1, Served
<1>3. m # n /\ msg.fn = "ASSIGN" /\ u # n /\ u \notin left[n] /\ msg.ID = Known(n, u)
  BY <1>1, <1>2 DEF CommandWaits
<1>4. u \in Nodes /\ Told(m, u)
  BY <1>2, <1>3, MessageFields DEF Told
<1>5. OnAssign(m, msg)
  BY <1>3 DEF MessageIn, OnSurvey, OnAssign, OnReply, OnGet, OnSet, OnData
<1> HIDE DEF msg
<1>6. /\ IF u = m THEN node_ID' = [node_ID EXCEPT ![m] = msg.ID] /\ node' = node
                  ELSE node' = [node EXCEPT ![m][u] = msg.ID] /\ node_ID' = node_ID
      /\ in_queue' = Queue(m)
      /\ setup' = setup /\ trace' = trace /\ delayed' = delayed /\ at' = at /\ left' = left
  BY <1>5 DEF OnAssign, Noted, shell
<1>7. /\ AllApart' /\ (\A a \in Nodes : \A x \in Content(in_queue'[a]) : x \in Content(in_queue[a]))
      /\ \A a, b \in Nodes : Told(a, b)' <=> Told(a, b) /\ ~ (a = m /\ b = u)
  BY <1>1, <1>6, Taken DEF msg
<1> HIDE DEF u
<1>8. \A a, b \in Nodes : Known(a, b)' = IF a = m /\ b = u THEN Known(n, u) ELSE Known(a, b)
  <2>1. CASE u = m
    BY <1>3, <1>4, <1>6, <2>1 DEF Known, IInv, NumberTypes
  <2>2. CASE u # m
    BY <1>3, <1>4, <1>6, <2>2 DEF Known, IInv, NumberTypes
  <2> QED
    BY <2>1, <2>2
<1>9. \A v \in Nodes : node_ID'[v] = Known(v, v)'
  BY DEF Known
<1>10. \A v \in Nodes : node_ID'[v] = IF v = m /\ v = u THEN Known(n, u) ELSE node_ID[v]
  <2>1. \A v \in Nodes : Known(v, v) = node_ID[v]
    BY DEF Known
  <2> QED
    BY <1>8, <1>9, <2>1
<1>11. \A v \in Nodes : Known(n, v)' = Known(n, v)
  BY <1>3, <1>8
<1>12. Commanding(n)'
  <2>1. OnlyAt(n)'
    BY <1>6 DEF Commanding, OnlyAt
  <2>2. ASSUME NEW a \in Nodes PROVE ~ delayed'[a] /\ CommandWaits(n, a)'
    <3>1. \A x \in Content(in_queue[a]) : x \in Messages
      BY DEF IInv, Queues, Content
    <3>2. \A x \in Content(in_queue[a]) : x.fn = "ASSIGN" => x.UID \in Nodes
      BY <3>1, MessageFields
    <3> QED
      BY <1>1, <1>6, <1>7, <1>11, <3>2 DEF CommandWaits
  <2>3. Settled(n)'
    BY <1>1, <1>3, <1>7, <1>8, <1>10 DEF Settled
  <2>4. ASSUME NEW v \in Nodes, v # n PROVE Sent(n, v)' \/ Settled(v)'
    <3>1. CASE Sent(n, v)
      BY <1>7, <1>8, <1>11, <3>1 DEF Sent
    <3>2. CASE Settled(v)
      <4>1. v # u
        BY <1>4, <3>2 DEF Settled
      <4> QED
        BY <1>7, <1>8, <1>10, <3>2, <4>1 DEF Settled
    <3> QED
      BY <1>1, <2>4, <3>1, <3>2
  <2> QED
    BY <1>6, <1>7, <2>1, <2>2, <2>3, <2>4 DEF Commanding
<1>13. /\ (Filled(n) => Filled(n)') /\ (ViewDistinct(n) => ViewDistinct(n)')
  BY <1>6, <1>11 DEF Filled, ViewDistinct
<1>14. OnlyRevoked => OnlyRevoked' /\ Known(n, u) = 0
  BY <1>2, <1>3, <1>7 DEF OnlyRevoked
<1>15. Distinct(node_ID) /\ OnlyRevoked => Distinct(node_ID')
  BY <1>10, <1>14 DEF Distinct
<1>16. Numbers(n)'
  <2>1. Distinct(node_ID)' <=> Distinct(node_ID')
    BY DEF Distinct
  <2> QED
    BY <1>6, <1>13, <1>14, <1>15, <2>1 DEF Numbers, AllDistinct
<1>17. Exact(n) => Exact(n)'
  BY <1>7, <1>10, <1>11 DEF Exact
<1>18. Renumbering(n)'
  BY <1>6, <1>11, <1>13, <1>17 DEF Renumbering
<1> QED
  BY <1>12, <1>16, <1>18

-----------------------------------------------------------------------------
(* Numbers: all steps *)

LEMMA OrderedStays ==
  ASSUME UNCHANGED <<setup, node_ID, node, trace, in_queue, delayed, at, left>>, Ordered
  PROVE  Ordered'
<1>1. /\ setup' = setup /\ node_ID' = node_ID /\ node' = node /\ trace' = trace
      /\ in_queue' = in_queue /\ delayed' = delayed /\ at' = at /\ left' = left
  OBVIOUS
<1>2. /\ \A m, u : Told(m, u)' = Told(m, u) /\ Known(m, u)' = Known(m, u)
      /\ AllApart' = AllApart /\ Delivered' = Delivered /\ Quiet' = Quiet
      /\ AllDistinct' = AllDistinct /\ Distinct(node_ID)' = Distinct(node_ID)
      /\ \A n : OnlyAt(n)' = OnlyAt(n)
  BY <1>1 DEF Told, Known, AllApart, Delivered, Quiet, AllDistinct, Distinct, OnlyAt
<1>3. ASSUME Unsurveyed PROVE Unsurveyed'
  BY <1>1, <1>2, <1>3 DEF Unsurveyed
<1>4. ASSUME NEW s \in Nodes, Surveying(s) PROVE Surveying(s)'
  <2>1. \A m : SurveyWaits(s, m)' = SurveyWaits(s, m)
    BY <1>1 DEF SurveyWaits, SurveyFirst
  <2>2. \A u : Unreplied(s, u)' = Unreplied(s, u)
    BY <1>1, <1>2 DEF Unreplied
  <2> QED
    BY <1>1, <1>2, <1>4, <2>1, <2>2 DEF Surveying
<1>5. ASSUME NEW n \in Nodes, Commanding(n), Numbers(n), Renumbering(n)
      PROVE  Commanding(n)' /\ Numbers(n)' /\ Renumbering(n)'
  <2>1. Commanding(n)'
    <3>1. \A m : CommandWaits(n, m)' = CommandWaits(n, m)
      BY <1>1, <1>2 DEF CommandWaits
    <3>2. \A u : Sent(n, u)' = Sent(n, u) /\ Settled(u)' = Settled(u)
      BY <1>1, <1>2 DEF Sent, Settled
    <3> QED
      BY <1>1, <1>2, <1>5, <3>1, <3>2 DEF Commanding
  <2>2. /\ Filled(n)' = Filled(n) /\ ViewDistinct(n)' = ViewDistinct(n) /\ OnlyRevoked' = OnlyRevoked
        /\ Exact(n)' = Exact(n)
    BY <1>1, <1>2 DEF Filled, ViewDistinct, OnlyRevoked, Exact
  <2>3. Numbers(n)'
    BY <1>1, <1>2, <1>5, <2>2 DEF Numbers
  <2>4. Renumbering(n)'
    BY <1>1, <1>2, <1>5, <2>2 DEF Renumbering
  <2> QED
    BY <2>1, <2>3, <2>4
<1> QED
  BY <1>3, <1>4, <1>5 DEF Ordered

\* A message is read: in a survey the request or a reply, after it a number.
LEMMA OrderedRead ==
  ASSUME IInv, EnoughRoom, ~ setup.lossy, Ordered, NEW m \in Nodes, MessageIn(m)
  PROVE  Ordered'
<1>1. CASE Unsurveyed
  BY <1>1 DEF Unsurveyed, Quiet, Delivered, MessageIn
<1>2. ASSUME NEW s \in Nodes, Surveying(s) PROVE Ordered'
  <2>1. Surveying(s)'
    <3>1. CASE Head(in_queue[m]).UID = s
      BY <1>2, <3>1, SurveyRead, RequestRead
    <3>2. CASE Head(in_queue[m]).UID # s
      BY <1>2, <3>2, SurveyRead, ReplyRead
    <3> QED
      BY <3>1, <3>2
  <2> QED
    BY <2>1 DEF Ordered
<1>3. ASSUME NEW n \in Nodes, Commanding(n), Numbers(n), Renumbering(n) PROVE Ordered'
  BY <1>3, NumberRead DEF Ordered
<1> QED
  BY <1>1, <1>2, <1>3 DEF Ordered

\* The steps of a survey after its begin.
LEMMA OrderedSurvey ==
  ASSUME IInv, EnoughRoom, ~ setup.lossy, Ordered, NEW n \in Nodes, Reply(n) \/ SendSurvey(n) \/ EndSurvey(n)
  PROVE  Ordered'
<1>1. delayed[n] \/ at[n] \in {"survey", "wait"}
  BY DEF Reply, SendSurvey, EndSurvey
<1>2. ~ Unsurveyed
  BY <1>1 DEF Unsurveyed, Quiet, Delivered
<1>3. \A c \in Nodes : ~ Commanding(c)
  <2> SUFFICES ASSUME NEW c \in Nodes, Commanding(c) PROVE FALSE
    OBVIOUS
  <2>1. ~ delayed[n] /\ at[n] \in {"idle", "assign", "revoke"}
    BY DEF Commanding, OnlyAt
  <2> QED
    BY <1>1, <2>1
<1>4. PICK s \in Nodes : Surveying(s)
  BY <1>2, <1>3 DEF Ordered
<1>5. CASE Reply(n)
  BY <1>4, <1>5, LateReply DEF Ordered
<1>6. CASE SendSurvey(n) \/ EndSurvey(n)
  <2>1. s = n
    BY <1>4, <1>6 DEF Surveying, OnlyAt, SendSurvey, EndSurvey
  <2> QED
    BY <1>4, <1>6, <2>1, SurveySent, SurveyEnds DEF Ordered
<1> QED
  BY <1>5, <1>6

LEMMA OrderedStep ==
  ASSUME IInv, Unread, EnoughRoom, ~ setup.lossy, Ordered, [Next]_vars
  PROVE  Ordered'
<1>1. ASSUME NEW n \in Nodes, MessageIn(n) PROVE Ordered'
  BY <1>1, OrderedRead
<1>2. ASSUME NEW n \in Nodes, Reply(n) \/ SendSurvey(n) \/ EndSurvey(n) PROVE Ordered'
  BY <1>2, OrderedSurvey
<1>3. ASSUME NEW n \in Nodes, Survey(n) PROVE Ordered'
  BY <1>3, SurveyBegins DEF Ordered
<1>4. ASSUME NEW n \in Nodes, Assign(n) \/ EndCommand(n) PROVE Ordered'
  BY <1>4, AssignBegins, CommandEnds DEF Ordered
<1>5. ASSUME NEW n \in Nodes, NEW u \in Nodes, AssignOne(n, u) \/ RevokeOne(n, u) PROVE Ordered'
  BY <1>5, NumberGiven, NumberTaken DEF Ordered
<1>6. ASSUME NEW n \in Nodes, NEW id \in IDs, Revoke(n, id) PROVE Ordered'
  BY <1>6, RevokeBegins DEF Ordered
<1>7. ASSUME NEW n \in Nodes
      PROVE  ~ (\/ Access(n) \/ TypeData(n) \/ TestSet(n) \/ SendSet(n) \/ Ask(n) \/ ClearReg(n)
                \/ SendGet(n) \/ EndAccess(n))
  BY DEF Access, TypeData, TestSet, SendSet, Ask, ClearReg, SendGet, EndAccess, Unread, Accessing
<1>8. ASSUME NEW n \in Nodes, RegChange(n) PROVE Ordered'
  <2>1. UNCHANGED <<setup, node_ID, node, trace, in_queue, delayed, at, left>>
    BY <1>8 DEF RegChange, numbers, queues, shell
  <2> QED
    BY <2>1, OrderedStays
<1>9. CASE UNCHANGED vars
  <2>1. UNCHANGED <<setup, node_ID, node, trace, in_queue, delayed, at, left>>
    BY <1>9 DEF vars, numbers, queues, shell
  <2> QED
    BY <2>1, OrderedStays
<1> QED
  BY <1>1, <1>2, <1>3, <1>4, <1>5, <1>6, <1>7, <1>8, <1>9 DEF Next

LEMMA InitNumbers ==
  ASSUME Undisturbed, Init
  PROVE  NInv
<1>1. AInv
  BY InitAccess
<1>2. /\ trace = [by |-> Nobody, did |-> <<>>] /\ node_ID \in setup.first
      /\ in_queue = [n \in Nodes |-> <<>>] /\ delayed = [n \in Nodes |-> FALSE]
      /\ at = [n \in Nodes |-> "idle"] /\ left = [n \in Nodes |-> {}]
  BY DEF Init
<1>3. Quiet /\ \A m \in Nodes : left[m] = {}
  BY <1>2 DEF Quiet, Delivered
<1>4. AllDistinct => Distinct(node_ID)
  BY <1>2 DEF AllDistinct
<1>5. Ordered
  BY <1>2, <1>3, <1>4 DEF Ordered, Unsurveyed
<1>6. trace.did = <<>>
  BY <1>2
<1> QED
  BY <1>1, <1>5, <1>6 DEF AInv, NInv

LEMMA NumberStep ==
  ASSUME EnoughRoom
  PROVE  NInv /\ [Next]_vars => NInv'
<1> SUFFICES ASSUME NInv, [Next]_vars PROVE NInv'
  OBVIOUS
<1>1. IInv /\ IInv' /\ setup' = setup
  BY TypeStep, SetupFixed DEF NInv
<1>2. CASE Steady /\ InShells /\ trace.did = <<>>
  <2>1. Steady' /\ InShells' /\ trace' = trace
    BY <1>1, <1>2, SteadyStep
  <2> QED
    BY <1>1, <1>2, <2>1 DEF NInv
<1>3. CASE Unread /\ (setup.lossy \/ Ordered)
  <2>1. Unread'
    BY <1>1, <1>3, UnreadStep
  <2>2. setup.lossy \/ Ordered'
    BY <1>1, <1>3, OrderedStep
  <2> QED
    BY <1>1, <2>1, <2>2 DEF NInv
<1> QED
  BY <1>2, <1>3 DEF NInv

LEMMA NumbersHold ==
  ASSUME Undisturbed, EnoughRoom
  PROVE  Spec => []NInv
<1> QED
  BY InitNumbers, NumberStep, PTL DEF Spec

\* After a survey every table is true, but that a node which took a number itself may
\* be held for unassigned: in every order of replies, delayed ones too, and of
\* assignments and revocations by any node.
THEOREM TablesCorrect ==
  ASSUME Undisturbed, EnoughRoom
  PROVE  Spec => []TablesTrue
<1>1. NInv => TablesTrue
  <2> SUFFICES ASSUME NInv, Quiet, trace.did # <<>>, ~ setup.lossy, NEW m \in Nodes, NEW n \in Nodes, m # n
               PROVE  node[m][n] \in {node_ID[n], 0}
    BY DEF TablesTrue
  <2>1. IInv /\ Ordered
    BY DEF NInv
  <2>2. ~ Unsurveyed
    BY DEF Unsurveyed
  <2>3. Settled(n)
    BY <2>1, <2>2, QuietOrdered, QuietTables
  <2> QED
    BY <2>3 DEF Settled, Known
<1> QED
  BY <1>1, NumbersHold, PTL

\* Commands of any nodes, one after the other, never leave two nodes with the same
\* number if there was none at first.
THEOREM NumbersCorrect ==
  ASSUME Undisturbed, EnoughRoom, EnoughNumbers
  PROVE  Spec => []NumbersDistinct
<1>1. NInv => NumbersDistinct
  <2> SUFFICES ASSUME NInv, Quiet, ~ setup.lossy, \A f \in setup.first : Distinct(f)
               PROVE  Distinct(node_ID)
    BY DEF NumbersDistinct
  <2>1. AllDistinct
    BY DEF AllDistinct
  <2>2. CASE Steady
    BY <2>2 DEF Steady
  <2>3. CASE ~ Steady
    <3>1. IInv /\ Ordered
      BY <2>3 DEF NInv
    <3>2. CASE Unsurveyed
      BY <2>1, <3>2 DEF Unsurveyed
    <3>3. ASSUME NEW n \in Nodes, Commanding(n), Numbers(n) PROVE Distinct(node_ID)
      BY <2>1, <3>1, <3>3, QuietNumbers
    <3> QED
      BY <3>1, <3>2, <3>3, QuietOrdered
  <2> QED
    BY <2>2, <2>3
<1> QED
  BY <1>1, NumbersHold, PTL

\* Whatever numbers the boards come with, a survey and an assignment by one operator leave
\* no node without a number, and with a revocation of all between them no two equal.
THEOREM RenumberedCorrect ==
  ASSUME Undisturbed, EnoughRoom
  PROVE  Spec => []Renumbered
<1>1. NInv => Renumbered
  <2> SUFFICES ASSUME NInv, Quiet, ~ setup.lossy, EnoughNumbers, trace.did \in {SA, SRA}
               PROVE  /\ \A u \in Nodes : node_ID[u] # 0
                      /\ trace.did = SRA => Distinct(node_ID)
    BY Zenon DEF Renumbered, EnoughNumbers, SA, SRA
  <2>1. trace.did # <<>> /\ trace.did # <<"other">>
    BY HistoriesDiffer, Zenon
  <2>2. IInv /\ Ordered /\ ~ Unsurveyed
    <3>1. Unsurveyed => trace.did = <<>>
      BY DEF Unsurveyed
    <3> QED
      BY <2>1, <3>1, Zenon DEF NInv
  <2>3. PICK n \in Nodes : Commanding(n) /\ Numbers(n) /\ Renumbering(n)
    BY <2>2, QuietOrdered
  <2>4. at[n] = "idle" /\ left[n] = {}
    BY <2>2, <2>3, QuietTables
  <2>5. trace.by = n
    <3>1. trace.by = n \/ trace.by = Nobody
      BY <2>3, <2>4 DEF Renumbering
    <3> QED
      BY <2>1, <2>3, <3>1, Zenon DEF Renumbering
  <2>6. \A u \in Nodes : Known(n, u) = node_ID[u]
    BY <2>2, <2>3, <2>5, QuietRenumbering
  <2>7. Filled(n) /\ (trace.did = SRA => ViewDistinct(n))
    BY <2>3, <2>5, Zenon DEF Renumbering
  <2>8. \A u \in Nodes : node_ID[u] # 0
    BY <2>4, <2>6, <2>7 DEF Filled
  <2>9. ViewDistinct(n) => Distinct(node_ID)
    BY <2>6, <2>8 DEF ViewDistinct, Distinct
  <2> QED
    BY <2>7, <2>8, <2>9, Zenon
<1> QED
  BY <1>1, NumbersHold, PTL
=============================================================================
