----------------------------- MODULE MCEpcanNet -----------------------------
(***************************************************************************)
(* Three nodes: their operators number them, whatever numbers they come    *)
(* with; or they have numbers, and one operator or two of them read and    *)
(* write registers of the others, over a bus that loses messages.          *)
(***************************************************************************)
EXTENDS EpcanNet

Sound == [first |-> {f \in [Nodes -> IDs] : Distinct(f)}, known |-> FALSE,
          commands |-> {"survey", "assign", "revoke"}, accesses |-> [n \in Nodes |-> {}],
          changing |-> {}, lossy |-> FALSE, room |-> 3]

Cloned == [Sound EXCEPT !.first = {f \in [Nodes -> IDs] : ~ Distinct(f)}]

Remote(accesses, changing, room) ==
  [first |-> {[n \in Nodes |-> n]}, known |-> TRUE, commands |-> {},
   accesses |-> [n \in Nodes |-> accesses[n]], changing |-> changing, lossy |-> TRUE, room |-> room]

Read(id)     == [node_ID : {id}, reg : Regs, value : {NoValue}]
Write(id, v) == [node_ID : {id}, reg : Regs, value : {v}]

\* Node 1 reads and writes a register of node 2, which changes by itself too.
OneNode == Remote(<<Read(2) \cup Write(2, 1), {}, {}>>, {2}, 2)

\* It reads of two nodes, one of which changes its register.
TwoNodes == Remote(<<Read(2) \cup Read(3), {}, {}>>, {3}, 1)

\* It reads of a node that another one writes to.
TwoOperators == Remote(<<Read(2), {}, Write(2, 1)>>, {}, 1)

AllSetups == {Sound, Cloned, OneNode, TwoNodes, TwoOperators}

ASSUME SetupsAreUndisturbed == Undisturbed
ASSUME NetworkIsSmall == EnoughRoom /\ EnoughNumbers
=============================================================================
