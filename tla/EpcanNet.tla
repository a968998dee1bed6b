----------------------------- MODULE EpcanNet -----------------------------
(***************************************************************************)
(* The node functions of the CAN network (src/epcan.c): the survey that    *)
(* fills the node tables, the assignment of node numbers, and the access   *)
(* to registers of other nodes.                                            *)
(*                                                                         *)
(* On each node the task EPCAN_IN handles the messages of its queue one by *)
(* one; the shell task runs the net_ commands and waits in them.  The bus  *)
(* gives all nodes the messages in one order.                              *)
(***************************************************************************)
EXTENDS Integers, Sequences, FiniteSets

CONSTANTS
  Nodes,               \* the boards, by their UID
  MaxID,               \* EPCAN_NODE_MAX: numbers 1 .. MaxID - 1 are assigned
  Regs, Values,        \* registers and what they hold
  Setups               \* numbers at first, whether a survey has made them known,
                       \* commands, register accesses, nodes whose registers change by
                       \* themselves, whether the bus loses messages, and how many
                       \* can wait for EPCAN_IN (10)

NoEntry == -1
NoValue == -1
NoReg   == 0
IDs     == 0 .. MaxID
Nobody  == 0          \* no UID is 0

\* net_node_data: the number asked, the register, and the value typed, if any.
Accesses == [node_ID : IDs \ {0}, reg : Regs, value : Values \cup {NoValue}]

ASSUME NetAssumption ==
  /\ IsFiniteSet(Nodes) /\ Nodes \subseteq Nat \ {Nobody} /\ MaxID \in Nat \ {0}
  /\ Regs \subseteq Nat \ {NoReg} /\ Regs # {} /\ Values \subseteq Nat
  /\ \A s \in Setups : /\ s.first \subseteq [Nodes -> IDs] /\ {s.lossy, s.known} \subseteq BOOLEAN
                       /\ s.changing \subseteq Nodes /\ s.room \in Nat \ {0}
                       /\ s.commands \subseteq {"survey", "assign", "revoke"}
                       /\ s.accesses \in [Nodes -> SUBSET Accesses]

VARIABLES
  setup,               \* the configuration, fixed
  node_ID,             \* net.node_ID of each node
  node,                \* local.node of each: what it knows of the others
  in_queue, delayed,   \* messages for EPCAN_IN; whether it waits before a reply
  at, left, access,    \* the shell: where it is, table entries left, the access
  node_ACK_ID, reg_ID, reg_DATA,   \* of struct local
  reg,                 \* the registers of each node
  trace,               \* history: commands since the last survey, and by whom;
  shown, held,         \* the value printed; values held since the access began
  owed                 \* whether an answer was still awaited when the access began

numbers == <<node_ID, node, trace>>
queues  == <<in_queue, delayed>>
shell   == <<at, left, access, shown>>
ack     == <<node_ACK_ID, reg_ID, reg_DATA>>
data    == <<reg, held, owed>>
vars    == <<setup, numbers, queues, shell, ack, data>>

Messages ==
  [fn : {"SURVEY", "ASSIGN", "REPLY"}, UID : Nodes, ID : IDs] \cup
  [fn : {"GET"}, ID : IDs, reg : Regs] \cup
  [fn : {"SET", "DATA"}, ID : IDs, reg : Regs, value : Values]

Labels == {"idle", "survey", "wait", "assign", "revoke",
           "type", "set", "send", "ask", "clear", "get", "answer"}

TypeOK ==
  /\ setup \in Setups /\ node_ID \in [Nodes -> IDs]
  /\ node \in [Nodes -> [Nodes -> IDs \cup {NoEntry}]] /\ \A n \in Nodes : node[n][n] = NoEntry
  /\ in_queue \in [Nodes -> Seq(Messages)] /\ \A n \in Nodes : Len(in_queue[n]) <= setup.room
  /\ delayed \in [Nodes -> BOOLEAN]
  /\ at \in [Nodes -> Labels] /\ left \in [Nodes -> SUBSET Nodes]
  /\ access \in [Nodes -> Accesses]
  /\ node_ACK_ID \in [Nodes -> IDs] /\ reg_ID \in [Nodes -> Regs \cup {NoReg}]
  /\ reg_DATA \in [Nodes -> Values] /\ reg \in [Nodes -> [Regs -> Values]]
  /\ shown \in [Nodes -> Values \cup {NoValue}] /\ held \in [Nodes -> SUBSET Values]
  /\ owed \in [Nodes -> BOOLEAN]

Init ==
  /\ setup \in Setups /\ node_ID \in setup.first
  /\ node = [n \in Nodes |-> [u \in Nodes |->
               IF setup.known /\ u # n THEN node_ID[u] ELSE NoEntry]]
  /\ in_queue = [n \in Nodes |-> <<>>] /\ delayed = [n \in Nodes |-> FALSE]
  /\ at = [n \in Nodes |-> "idle"] /\ left = [n \in Nodes |-> {}]
  /\ access = [n \in Nodes |-> CHOOSE a \in Accesses : a.value = NoValue]
  /\ node_ACK_ID = [n \in Nodes |-> 0] /\ reg_ID = [n \in Nodes |-> NoReg]
  /\ \E v \in Values : /\ \A w \in Values : v <= w
                       /\ reg_DATA = [n \in Nodes |-> v]
                       /\ reg = [n \in Nodes |-> [r \in Regs |-> v]]
  /\ trace = [by |-> Nobody, did |-> <<>>]
  /\ shown = [n \in Nodes |-> NoValue] /\ held = [n \in Nodes |-> {}]
  /\ owed = [n \in Nodes |-> FALSE]

-----------------------------------------------------------------------------
(* The bus. Definitions marked "Mutant" are wrong on purpose, see the README. *)

\* The filters of a node (EPCAN_bind): requests pass by the number of the node.
Hears(n, msg) == msg.fn \in {"GET", "SET"} => msg.ID = node_ID[n] /\ node_ID[n] # 0

HasRoom(q) == Len(q) < setup.room

\* The message goes to the nodes that hear it; some may miss it if the bus is lossy.
Send(n, msg, queue) ==
  \E missed \in IF setup.lossy THEN SUBSET (Nodes \ {n}) ELSE {{}} :
    in_queue' = [m \in Nodes |->
      IF m # n /\ m \notin missed /\ Hears(m, msg) /\ HasRoom(queue[m])
        THEN Append(queue[m], msg) ELSE queue[m]]

\* Nothing is on its way, no node waits before a reply.
Delivered == \A n \in Nodes : in_queue[n] = <<>> /\ ~ delayed[n]
Quiet     == Delivered /\ \A n \in Nodes : at[n] = "idle"

-----------------------------------------------------------------------------
(* The node table *)

Discarded == [u \in Nodes |-> NoEntry]

ValidRemote(n, id) == id # 0 /\ id # node_ID[n] /\ \E u \in Nodes : node[n][u] = id

\* Mutant: the number of the node itself counts as free.
FreeOfRemotes(n) ==
  {id \in 1 .. MaxID - 1 : \A u \in Nodes : node[n][u] # id}

FreeIDs(n) == {id \in 1 .. MaxID - 1 : ~ ValidRemote(n, id) /\ id # node_ID[n]}

\* local_node_assign_ID: the lowest free number, 0 if there is none.
AssignID(n) ==
  IF FreeIDs(n) = {} THEN 0
  ELSE CHOOSE id \in FreeIDs(n) : \A other \in FreeIDs(n) : id <= other

-----------------------------------------------------------------------------
(* EPCAN_message_IN, run by the task EPCAN_IN *)

Queue(n) == [in_queue EXCEPT ![n] = Tail(@)]

OnSurvey(n, msg) ==
  /\ msg.fn = "SURVEY"
  /\ node' = [node EXCEPT ![n] = [Discarded EXCEPT ![msg.UID] = msg.ID]]
  /\ IF node_ID[n] # 0
       THEN /\ Send(n, [fn |-> "REPLY", UID |-> n, ID |-> node_ID[n]], Queue(n))
            /\ UNCHANGED delayed
       ELSE in_queue' = Queue(n) /\ delayed' = [delayed EXCEPT ![n] = TRUE]
  /\ UNCHANGED <<setup, node_ID, trace, shell, ack, data>>

\* Mutant: a number given to another node is not noted.
NotNoted(n, msg) == UNCHANGED node

Noted(n, msg) == node' = [node EXCEPT ![n][msg.UID] = msg.ID]

OnAssign(n, msg) ==
  /\ msg.fn = "ASSIGN"
  /\ IF msg.UID = n THEN node_ID' = [node_ID EXCEPT ![n] = msg.ID] /\ UNCHANGED node
                    ELSE Noted(n, msg) /\ UNCHANGED node_ID
  /\ in_queue' = Queue(n)
  /\ UNCHANGED <<setup, trace, delayed, shell, ack, data>>

OnReply(n, msg) ==
  /\ msg.fn = "REPLY" /\ node' = [node EXCEPT ![n][msg.UID] = msg.ID]
  /\ in_queue' = Queue(n)
  /\ UNCHANGED <<setup, node_ID, trace, delayed, shell, ack, data>>

\* The number is compared again: it may have changed since the filter let it pass.
OnGet(n, msg) ==
  /\ msg.fn = "GET"
  /\ IF msg.ID = node_ID[n]
       THEN Send(n, [fn |-> "DATA", ID |-> node_ID[n], reg |-> msg.reg, value |-> reg[n][msg.reg]],
                 Queue(n))
       ELSE in_queue' = Queue(n)
  /\ UNCHANGED <<setup, numbers, delayed, shell, ack, data>>

\* Whether the shell of o is in an access to register r of node n.
InAccess(o, n, r) ==
  at[o] \in {"type", "set", "send", "ask", "clear", "get", "answer"}
  /\ access[o].node_ID = node_ID[n] /\ access[o].reg = r

\* The values of the answers that wait at node n for an access to register r of id.
Answers(n, id, r) ==
  {v \in Values : \E i \in DOMAIN in_queue[n] :
     in_queue[n][i] = [fn |-> "DATA", ID |-> id, reg |-> r, value |-> v]}

\* Whether the access of o has taken an answer to print.
HasAnswer(o) == at[o] \in {"get", "answer"} /\ node_ACK_ID[o] = 0 /\ reg_ID[o] = access[o].reg

\* The same, with the value of an answer that has been taken already.
Coming(o) ==
  Answers(o, access[o].node_ID, access[o].reg)
  \cup IF HasAnswer(o) THEN {reg_DATA[o]} ELSE {}

\* A register takes a value. One that was written is what accesses must show from
\* then on, but for the answers that are on their way.
RegWrite(n, r, v, written) ==
  /\ reg' = [reg EXCEPT ![n][r] = v]
  /\ held' = [o \in Nodes |-> IF ~ InAccess(o, n, r) THEN held[o]
                              ELSE {v} \cup IF written THEN Coming(o) ELSE held[o]]
  /\ UNCHANGED owed

OnSet(n, msg) ==
  /\ msg.fn = "SET" /\ in_queue' = Queue(n)
  /\ IF msg.ID = node_ID[n] THEN RegWrite(n, msg.reg, msg.value, TRUE) ELSE UNCHANGED data
  /\ UNCHANGED <<setup, numbers, delayed, shell, ack>>

\* Mutant: an answer of any node is taken.
AnyAnswer(n, msg) == node_ACK_ID[n] # 0

MyAnswer(n, msg) == node_ACK_ID[n] # 0 /\ msg.ID = node_ACK_ID[n]

OnData(n, msg) ==
  /\ msg.fn = "DATA" /\ in_queue' = Queue(n)
  /\ IF MyAnswer(n, msg)
       THEN /\ reg_ID' = [reg_ID EXCEPT ![n] = msg.reg]
            /\ reg_DATA' = [reg_DATA EXCEPT ![n] = msg.value]
            /\ node_ACK_ID' = [node_ACK_ID EXCEPT ![n] = 0]
       ELSE UNCHANGED ack
  /\ UNCHANGED <<setup, numbers, delayed, shell, data>>

\* A node without a number has waited and replies; no number came in meanwhile.
Reply(n) ==
  /\ delayed[n] /\ delayed' = [delayed EXCEPT ![n] = FALSE]
  /\ Send(n, [fn |-> "REPLY", UID |-> n, ID |-> node_ID[n]], in_queue)
  /\ UNCHANGED <<setup, numbers, shell, ack, data>>

MessageIn(n) ==
  /\ ~ delayed[n] /\ in_queue[n] # <<>>
  /\ \E msg \in {Head(in_queue[n])} :
       \/ OnSurvey(n, msg) \/ OnAssign(n, msg) \/ OnReply(n, msg)
       \/ OnGet(n, msg) \/ OnSet(n, msg) \/ OnData(n, msg)

-----------------------------------------------------------------------------
(* The commands net_survey, net_assign and net_revoke. One operator works at a time, *)
(* begins with a survey, and goes on when the network is quiet.                      *)

Goto(n, label) == at' = [at EXCEPT ![n] = label]

\* History: what the operator of the last survey did, as long as it numbers the nodes.
Numbering == {<<"survey">>, <<"survey", "assign">>, <<"survey", "revoke all">>,
              <<"survey", "revoke all", "assign">>}

Did(n, what) ==
  trace' = IF trace.by = n /\ Append(trace.did, what) \in Numbering
             THEN [trace EXCEPT !.did = Append(@, what)]
             ELSE [by |-> Nobody, did |-> <<"other">>]

Survey(n) ==
  /\ Quiet /\ "survey" \in setup.commands
  /\ node' = [node EXCEPT ![n] = Discarded] /\ Goto(n, "survey")
  /\ trace' = [by |-> n, did |-> <<>>]
  /\ UNCHANGED <<setup, node_ID, queues, left, access, shown, ack, data>>

SendSurvey(n) ==
  /\ at[n] = "survey" /\ Goto(n, "wait")
  /\ Send(n, [fn |-> "SURVEY", UID |-> n, ID |-> node_ID[n]], in_queue)
  /\ UNCHANGED <<setup, numbers, delayed, left, access, shown, ack, data>>

\* All replies come within the wait of 50 ticks, those of nodes without a number too.
EndSurvey(n) ==
  /\ at[n] = "wait" /\ Delivered /\ Goto(n, "idle") /\ Did(n, "survey")
  /\ UNCHANGED <<setup, node_ID, node, queues, left, access, shown, ack, data>>

\* A node without a number takes one, and tells nobody.
Assign(n) ==
  /\ Quiet /\ "assign" \in setup.commands /\ trace.did # <<>>
  /\ node_ID' = [node_ID EXCEPT ![n] = IF @ = 0 THEN AssignID(n) ELSE @]
  /\ Goto(n, "assign") /\ left' = [left EXCEPT ![n] = Nodes \ {n}]
  /\ UNCHANGED <<setup, node, trace, queues, access, shown, ack, data>>

AssignOne(n, u) ==
  /\ at[n] = "assign" /\ u \in left[n] /\ left' = [left EXCEPT ![n] = @ \ {u}]
  /\ IF node[n][u] = 0 /\ AssignID(n) # 0
       THEN /\ node' = [node EXCEPT ![n][u] = AssignID(n)]
            /\ Send(n, [fn |-> "ASSIGN", UID |-> u, ID |-> AssignID(n)], in_queue)
       ELSE UNCHANGED <<node, in_queue>>
  /\ UNCHANGED <<setup, node_ID, trace, delayed, at, access, shown, ack, data>>

Numbered(n) == {u \in Nodes : node[n][u] \notin {NoEntry, 0}}

\* Mutant: 0 does not stand for every number.
RevokedExactly(n, id) == {u \in Numbered(n) : node[n][u] = id}

\* One number is revoked, or with 0 every one.
Revoked(n, id) == {u \in Numbered(n) : id \in {0, node[n][u]}}

Revoke(n, id) ==
  /\ Quiet /\ "revoke" \in setup.commands /\ trace.did # <<>>
  /\ left' = [left EXCEPT ![n] = Revoked(n, id)] /\ Goto(n, "revoke")
  /\ Did(n, IF id = 0 THEN "revoke all" ELSE "revoke")
  /\ UNCHANGED <<setup, node_ID, node, queues, access, shown, ack, data>>

RevokeOne(n, u) ==
  /\ at[n] = "revoke" /\ u \in left[n] /\ left' = [left EXCEPT ![n] = @ \ {u}]
  /\ node' = [node EXCEPT ![n][u] = 0]
  /\ Send(n, [fn |-> "ASSIGN", UID |-> u, ID |-> 0], in_queue)
  /\ UNCHANGED <<setup, node_ID, trace, delayed, at, access, shown, ack, data>>

EndCommand(n) ==
  /\ at[n] \in {"assign", "revoke"} /\ left[n] = {} /\ Goto(n, "idle")
  /\ IF at[n] = "assign" THEN Did(n, "assign") ELSE UNCHANGED trace
  /\ UNCHANGED <<setup, node_ID, node, queues, left, access, shown, ack, data>>

-----------------------------------------------------------------------------
(* The command net_node_data: a register of another node is written and read back *)

\* Mutant: the register of the last answer is not forgotten when no value is typed.
KeepsReg(n, a) == reg_ID' = [reg_ID EXCEPT ![n] = IF a.value # NoValue THEN a.reg ELSE @]

TypedReg(n, a) == reg_ID' = [reg_ID EXCEPT ![n] = IF a.value # NoValue THEN a.reg ELSE NoReg]

Access(n) ==
  /\ at[n] = "idle" /\ \E a \in setup.accesses[n] :
       /\ ValidRemote(n, a.node_ID) /\ access' = [access EXCEPT ![n] = a]
       /\ TypedReg(n, a) /\ Goto(n, IF a.value # NoValue THEN "type" ELSE "set")
       /\ held' = [held EXCEPT ![n] =
                     {reg[m][a.reg] : m \in {m \in Nodes : node_ID[m] = a.node_ID}}
                     \cup Answers(n, a.node_ID, a.reg)]
  /\ shown' = [shown EXCEPT ![n] = NoValue]
  /\ owed' = [owed EXCEPT ![n] = node_ACK_ID[n] # 0]
  /\ UNCHANGED <<setup, numbers, queues, left, node_ACK_ID, reg_DATA, reg>>

\* EPCAN_IN preempts the shell between any two of these steps.
TypeData(n) ==
  /\ at[n] = "type" /\ Goto(n, "set")
  /\ reg_DATA' = [reg_DATA EXCEPT ![n] = access[n].value]
  /\ UNCHANGED <<setup, numbers, queues, left, access, shown, node_ACK_ID, reg_ID, data>>

\* The register in the message is the one that was compared.
TestSet(n) ==
  /\ at[n] = "set" /\ Goto(n, IF reg_ID[n] = access[n].reg THEN "send" ELSE "ask")
  /\ UNCHANGED <<setup, numbers, queues, left, access, shown, ack, data>>

SendSet(n) ==
  /\ at[n] = "send" /\ Goto(n, "ask")
  /\ Send(n, [fn |-> "SET", ID |-> access[n].node_ID, reg |-> access[n].reg,
              value |-> reg_DATA[n]], in_queue)
  /\ UNCHANGED <<setup, numbers, delayed, left, access, shown, ack, data>>

Ask(n) ==
  /\ at[n] = "ask" /\ Goto(n, "clear")
  /\ node_ACK_ID' = [node_ACK_ID EXCEPT ![n] = access[n].node_ID]
  /\ UNCHANGED <<setup, numbers, queues, left, access, shown, reg_ID, reg_DATA, data>>

ClearReg(n) ==
  /\ at[n] = "clear" /\ Goto(n, "get")
  /\ reg_ID' = [reg_ID EXCEPT ![n] = NoReg]
  /\ UNCHANGED <<setup, numbers, queues, left, access, shown, node_ACK_ID, reg_DATA, data>>

SendGet(n) ==
  /\ at[n] = "get" /\ Goto(n, "answer")
  /\ Send(n, [fn |-> "GET", ID |-> access[n].node_ID, reg |-> access[n].reg], in_queue)
  /\ UNCHANGED <<setup, numbers, delayed, left, access, shown, ack, data>>

\* The answer has come, or the command has waited long enough for it: then
\* node_ACK_ID stays as it is, and an answer that comes later is still taken.
EndAccess(n) ==
  /\ at[n] = "answer" /\ Goto(n, "idle")
  /\ shown' = [shown EXCEPT ![n] =
                IF node_ACK_ID[n] = 0 /\ reg_ID[n] = access[n].reg THEN reg_DATA[n] ELSE NoValue]
  /\ UNCHANGED <<setup, numbers, queues, left, access, ack, data>>

\* A register changes by itself on its own node.
RegChange(n) ==
  /\ n \in setup.changing
  /\ \E r \in Regs, v \in Values : RegWrite(n, r, v, FALSE)
  /\ UNCHANGED <<setup, numbers, queues, shell, ack>>

Next ==
  \E n \in Nodes :
    \/ MessageIn(n) \/ Reply(n)
    \/ Survey(n) \/ SendSurvey(n) \/ EndSurvey(n) \/ Assign(n) \/ EndCommand(n)
    \/ \E u \in Nodes : AssignOne(n, u) \/ RevokeOne(n, u)
    \/ \E id \in IDs : Revoke(n, id)
    \/ Access(n) \/ TypeData(n) \/ TestSet(n) \/ SendSet(n) \/ Ask(n) \/ ClearReg(n)
    \/ SendGet(n) \/ EndAccess(n) \/ RegChange(n)

Spec == Init /\ [][Next]_vars

-----------------------------------------------------------------------------
Distinct(f) == \A m, n \in Nodes : m # n /\ f[m] = f[n] => f[m] = 0

\* Once the network is quiet again no two nodes have the same number, whichever
\* nodes commands were given to since a survey: a node that took a number itself
\* told nobody, so that others hold it for unassigned and may give it a number too.
NumbersDistinct ==
  Quiet /\ ~ setup.lossy /\ (\A f \in setup.first : Distinct(f)) => Distinct(node_ID)

\* What a node knows of the others after a survey is true, except that it may hold
\* for unassigned a node that took a number itself.
TablesTrue ==
  Quiet /\ trace.did # <<>> /\ ~ setup.lossy =>
    \A m, n \in Nodes : m # n => node[m][n] \in {node_ID[n], 0}

\* Boards that come with numbers of their own, equal ones too, are numbered by a
\* survey, a revocation of all numbers and an assignment; a survey and an
\* assignment leave nobody without a number.
Renumbered ==
  Quiet /\ ~ setup.lossy /\ Cardinality(Nodes) < MaxID =>
    /\ trace.did \in {<<"survey", "assign">>, <<"survey", "revoke all", "assign">>} =>
         \A n \in Nodes : node_ID[n] # 0
    /\ trace.did = <<"survey", "revoke all", "assign">> => Distinct(node_ID)

\* What is written to a register of another node is what the operator typed, no more
\* and no less, although answers, those to requests of other nodes too, come into the
\* variables it is kept in at any step; but for an access that begins while an
\* answer to an earlier one, that was given up, is still awaited.
WrittenAsTyped ==
  \A n \in Nodes : ~ owed[n] =>
    /\ at[n] = "set" => (reg_ID[n] = access[n].reg <=> access[n].value # NoValue)
    /\ at[n] = "send" => access[n].value # NoValue /\ reg_DATA[n] = access[n].value

\* A value that an access prints was held by that register of that node since the
\* access began, and since a value written there arrived, or came in an answer that
\* was on its way then; whatever was lost, late or asked for by others.
ReadIsFresh == \A n \in Nodes : shown[n] # NoValue => shown[n] \in held[n]

\* What WrittenAsTyped and ReadIsFresh need: nobody numbers the nodes meanwhile, all
\* of which have numbers of their own; or nobody works on another node.
Undisturbed ==
  \A s \in Setups :
    \/ \A n \in Nodes : s.accesses[n] = {}
    \/ s.commands = {} /\ \A f \in s.first : Distinct(f)

\* What TablesTrue needs: the queue of a node holds a message of each other node, or
\* messages are lost in any case. So does NumbersDistinct, and a number for each node.
EnoughRoom    == \A s \in Setups : s.lossy \/ s.room >= Cardinality(Nodes) - 1
EnoughNumbers == Cardinality(Nodes) < MaxID
=============================================================================
