--------------------------- MODULE GuiLinkProofs ---------------------------
(***************************************************************************)
(* Proofs about GuiLink, for every number of registers, every limit of the *)
(* queues and of the waits, and everything the user may do.                *)
(***************************************************************************)
EXTENDS GuiLink, FiniteSetTheorems, TLAPS

LEMMA Sizes ==
  /\ LastReg \in Nat /\ BusyMax \in Nat /\ QueueTimeout \in Nat /\ KeepIdle \in Nat /\ CloseAfter \in Nat
  /\ Quiet \in Nat /\ LockOpen \in Nat /\ LockCommand \in Nat /\ RxMax \in Nat /\ RxMax > 0
  /\ 0 \in Regs /\ (\A r \in Regs : r \in Nat /\ r <= LastReg) /\ 0 \in Values /\ NoValue = -1 /\ NotQueued = -1
BY LinkAssumption DEF Regs, NoValue, NotQueued

LEMMA SetupFields ==
  ASSUME NEW s \in Setups
  PROVE  /\ s.polled \subseteq Regs /\ s.enums \subseteq Regs /\ s.probed \subseteq Regs
         /\ s.edits \subseteq Regs /\ s.commands \subseteq Commands /\ s.drops \in Nat
<1>1. s \in SetupType
  BY LinkAssumption
<1> QED
  BY <1>1 DEF SetupType, Commands

-----------------------------------------------------------------------------
(* Requests and lines *)

\* The answer to m shows register r.
About(m, r) == m.do = "open" \/ (m.do \in {"get", "set", "enum"} /\ m.reg = r)

OfReg(l) == l.is \in {"reg", "hidden"}

LEMMA RequestForms ==
  /\ [do |-> "info"] \in Requests /\ [do |-> "open"] \in Requests
  /\ \A c \in Commands : [do |-> c] \in Requests
  /\ \A r \in Regs : [do |-> "get", reg |-> r] \in Requests /\ [do |-> "enum", reg |-> r] \in Requests
  /\ \A r \in Regs, v \in Values : [do |-> "set", reg |-> r, value |-> v] \in Requests
BY DEF Requests

LEMMA RequestFields ==
  ASSUME NEW m \in Requests
  PROVE  /\ m.do \in {"info", "open", "get", "enum", "set"} \cup Commands
         /\ m.do \in {"get", "set", "enum"} => m.reg \in Regs
         /\ m.do = "set" => m.value \in Values
BY DEF Requests, Commands

LEMMA LineForms ==
  /\ [is |-> "text"] \in Lines
  /\ \A do \in {"info", "open", "get", "enum", "set"} \cup Commands : [is |-> "prompt", of |-> do] \in Lines
  /\ \A r \in Regs, v \in Values :
       [is |-> "reg", reg |-> r, value |-> v] \in Lines /\ [is |-> "hidden", reg |-> r, value |-> v] \in Lines
BY DEF Lines

LEMMA LineFields ==
  ASSUME NEW l \in Lines
  PROVE  /\ l.is \in {"prompt", "reg", "hidden", "text"}
         /\ OfReg(l) => l.reg \in Regs /\ l.value \in Values
BY DEF Lines, OfReg

\* What an answer holds: the values of now, each shown, and no prompt.
Shows(s, values) ==
  \A i \in DOMAIN s :
    /\ s[i].is # "prompt"
    /\ OfReg(s[i]) => s[i].value = values[s[i].reg]
    /\ s[i].is = "hidden" => i + 1 \in DOMAIN s /\ s[i + 1] = RegLine(s[i].reg, values)

LEMMA AnswerLines ==
  ASSUME NEW m \in Requests, NEW values \in [Regs -> Values]
  PROVE  /\ Answer(m, values) \in Seq(Lines) /\ Shows(Answer(m, values), values)
         /\ \A r \in Regs : About(m, r) =>
              \E i \in DOMAIN Answer(m, values) :
                Answer(m, values)[i].is = "reg" /\ Answer(m, values)[i].reg = r
         /\ m.do \in Commands => Answer(m, values) = <<>>
<1>1. \A r \in Regs : /\ RegLine(r, values) = [is |-> "reg", reg |-> r, value |-> values[r]]
                      /\ RegLine(r, values) \in Lines /\ values[r] \in Values
  BY LineForms DEF RegLine
<1>2. CASE m.do = "open"
  <2>1. Answer(m, values) = [i \in 1 .. LastReg + 1 |-> RegLine(i - 1, values)]
    BY <1>2 DEF Answer
  <2>2. LastReg + 1 \in Nat /\ \A i \in 1 .. LastReg + 1 : i - 1 \in Regs
    BY Sizes DEF Regs
  <2>3. Answer(m, values) \in Seq(Lines) /\ DOMAIN Answer(m, values) = 1 .. LastReg + 1
    BY <1>1, <2>1, <2>2
  <2>4. Shows(Answer(m, values), values)
    BY <1>1, <2>1, <2>2, <2>3 DEF Shows, OfReg
  <2>5. \A r \in Regs : r + 1 \in 1 .. LastReg + 1 /\ (r + 1) - 1 = r
    BY Sizes DEF Regs
  <2>6. \A r \in Regs : \E i \in DOMAIN Answer(m, values) :
              Answer(m, values)[i].is = "reg" /\ Answer(m, values)[i].reg = r
    BY <1>1, <2>1, <2>3, <2>5
  <2> QED
    BY <1>2, <2>3, <2>4, <2>6 DEF Commands
<1>3. CASE m.do \in {"get", "set"}
  <2>1. Answer(m, values) = <<RegLine(m.reg, values)>> /\ m.reg \in Regs
    BY <1>3, RequestFields DEF Answer
  <2> QED
    BY <1>1, <1>3, <2>1 DEF Shows, OfReg, About, Commands
<1>4. CASE m.do = "enum"
  <2> DEFINE h == [is |-> "hidden", reg |-> m.reg, value |-> values[m.reg]]
  <2>1. m.reg \in Regs
    BY <1>4, RequestFields
  <2>2. [RegLine(m.reg, values) EXCEPT !.is = "hidden"] = h
    BY <1>1, <2>1
  <2>3. Answer(m, values) = <<h, RegLine(m.reg, values)>>
    BY <1>4, <2>2 DEF Answer
  <2>4. h \in Lines
    BY <1>1, <2>1, LineForms
  <2> QED
    BY <1>1, <1>4, <2>1, <2>3, <2>4 DEF Shows, OfReg, About, Commands
<1>5. CASE m.do = "info"
  <2>1. Answer(m, values) = << [is |-> "text"] >>
    BY <1>5 DEF Answer
  <2> QED
    BY <1>5, <2>1, LineForms DEF Shows, OfReg, About, Commands
<1>6. CASE m.do \in Commands
  <2>1. Answer(m, values) = <<>>
    BY <1>6 DEF Answer, Commands
  <2> QED
    BY <1>6, <2>1 DEF Shows, About, Commands
<1> QED
  BY <1>2, <1>3, <1>4, <1>5, <1>6, RequestFields

-----------------------------------------------------------------------------
(* Types *)

LinkTypes ==
  /\ linked \in BOOLEAN /\ locked \in 0 .. LockOpen + LockCommand
  /\ active \in 0 .. CloseAfter + 1 /\ keep \in 0 .. KeepIdle + 1
  /\ link_mode \in {"IDLE", "INFO", "COMMAND", "DATA_GRAB"}
  /\ command_state \in {"NONE", "PENDING", "RUNING", "WAITING"}

\* A value that is still to be sent is one.
TableTypes ==
  /\ val \in [Regs -> Values \cup {NoValue}] /\ queued \in [Regs -> NotQueued .. QueueTimeout + 1]
  /\ known \subseteq Regs /\ modified \subseteq Regs /\ fetched \subseteq Regs
  /\ onefetch \subseteq Regs /\ enumerated \subseteq Regs
  /\ \A r \in modified : val[r] \in Values

PushTypes ==
  /\ at \in {"fetch", "draw", "push"} /\ took \in BOOLEAN
  /\ reg_push_ID \in Regs /\ reg_ID \in Regs /\ busy_N \in 0 .. BusyMax + 2 + LastReg

RxTypes   == rx \in Seq(Requests) /\ Len(rx) <= RxMax /\ drops \in 0 .. setup.drops
LineTypes == lines \in Seq(Lines)

ShellTypes ==
  /\ reg \in [Regs -> Values] /\ running \in Commands \cup {"none"} /\ alone \in BOOLEAN
  /\ missed \subseteq Regs

IInv ==
  setup \in Setups /\ LinkTypes /\ TableTypes /\ PushTypes /\ RxTypes /\ LineTypes /\ ShellTypes

LEMMA TypesOfParts == IInv => TypeOK
BY DEF IInv, TypeOK, LinkTypes, TableTypes, PushTypes, RxTypes, LineTypes, ShellTypes

LEMMA InitTypes == Init => IInv
<1> SUFFICES ASSUME Init PROVE IInv
  OBVIOUS
<1> USE Sizes
<1>1. LinkTypes /\ PushTypes
  BY DEF Init, LinkTypes, PushTypes
<1>2. TableTypes
  BY DEF Init, TableTypes
<1>3. RxTypes /\ LineTypes
  BY SetupFields DEF Init, RxTypes, LineTypes
<1>4. ShellTypes
  BY DEF Init, ShellTypes
<1> QED
  BY <1>1, <1>2, <1>3, <1>4 DEF Init, IInv

\* What arrives of the lines s, when the ring takes k of them.
LEMMA Arrives ==
  ASSUME IInv, NEW s \in Seq(Requests), NEW k \in Taken(s), Send(s, k), setup' = setup
  PROVE  /\ RxTypes' /\ k \in 0 .. Len(s)
         /\ Len(Arrived(s, k)) = (IF k <= Free THEN k ELSE Free)
         /\ Len(Arrived(s, k)) \in 0 .. k /\ Len(rx') = Len(rx) + Len(Arrived(s, k))
         /\ \A i \in 1 .. Len(rx) : rx'[i] = rx[i]
         /\ \A i \in 1 .. Len(Arrived(s, k)) : Arrived(s, k)[i] = s[i] /\ rx'[Len(rx) + i] = s[i]
<1>1. /\ rx \in Seq(Requests) /\ Len(rx) \in Nat /\ Len(rx) <= RxMax /\ RxMax \in Nat
      /\ setup.drops \in Nat /\ drops \in 0 .. setup.drops
  BY Sizes, SetupFields DEF IInv, RxTypes
<1>2. Free \in Nat /\ Len(rx) + Free = RxMax
  BY <1>1 DEF Free
<1>3. k \in 0 .. Len(s) /\ k <= Free + setup.drops - drops
  BY DEF Taken
<1> DEFINE n == IF k <= Free THEN k ELSE Free
<1>4. n \in 0 .. k /\ n \in 0 .. Len(s) /\ n <= Free /\ k - n \in Nat /\ k - n <= setup.drops - drops
  BY <1>1, <1>2, <1>3
<1>5. Arrived(s, k) = SubSeq(s, 1, n)
  BY DEF Arrived
<1> HIDE DEF n
<1>6. /\ SubSeq(s, 1, n) \in Seq(Requests) /\ Len(SubSeq(s, 1, n)) = n
      /\ \A i \in 1 .. n : SubSeq(s, 1, n)[i] = s[i]
  BY <1>4
<1>7. rx' = rx \o SubSeq(s, 1, n) /\ drops' = drops + k - n
  BY <1>5, <1>6 DEF Send
<1>8. /\ rx' \in Seq(Requests) /\ Len(rx') = Len(rx) + n
      /\ \A i \in 1 .. Len(rx) : rx'[i] = rx[i]
      /\ \A i \in 1 .. n : rx'[Len(rx) + i] = s[i]
  BY <1>1, <1>4, <1>6, <1>7
<1>9. RxTypes'
  BY <1>1, <1>2, <1>4, <1>7, <1>8 DEF RxTypes
<1> QED
  BY <1>3, <1>4, <1>5, <1>6, <1>8, <1>9 DEF n

\* The requests for register r: at most two, a write only of an edit, else a fetch if
\* one is due.
LEMMA WantedRequests ==
  ASSUME IInv, NEW r \in Regs
  PROVE  /\ Wanted(r) \in Seq(Requests) /\ Len(Wanted(r)) \in 0 .. 2
         /\ \A i \in DOMAIN Wanted(r) : /\ Wanted(r)[i].do \in {"set", "get", "enum"} /\ Wanted(r)[i].reg = r
                                        /\ Wanted(r)[i].do = "set" => r \in modified
         /\ Due(r) /\ r \notin modified => Len(Wanted(r)) > 0 /\ Wanted(r)[1].do = "get"
<1> DEFINE set  == [do |-> "set", reg |-> r, value |-> val[r]]
           get  == [do |-> "get", reg |-> r]
           enum == [do |-> "enum", reg |-> r]
           a == IF r \in modified THEN <<set>> ELSE IF Due(r) THEN <<get>> ELSE <<>>
           b == IF r \in (setup.enums \cap known) \ enumerated THEN <<enum>> ELSE <<>>
<1>1. Wanted(r) = a \o b
  BY DEF Wanted
<1>2. get \in Requests /\ enum \in Requests /\ (r \in modified => set \in Requests)
  BY RequestForms DEF IInv, TableTypes
<1>3. /\ set.do = "set" /\ set.reg = r /\ get.do = "get" /\ get.reg = r /\ enum.do = "enum" /\ enum.reg = r
  OBVIOUS
<1> HIDE DEF set, get, enum
<1>4. get # set
  BY <1>3
<1>5. /\ a \in Seq(Requests) /\ Len(a) \in 0 .. 1
      /\ \A i \in 1 .. Len(a) : i = 1 /\ a[i] \in {set, get} /\ (a[i] = set => r \in modified)
      /\ Due(r) /\ r \notin modified => Len(a) = 1 /\ a[1] = get
  <2>1. CASE r \in modified
    BY <1>2, <2>1
  <2>2. CASE r \notin modified /\ Due(r)
    BY <1>2, <1>4, <2>2
  <2>3. CASE r \notin modified /\ ~ Due(r)
    BY <2>3
  <2> QED
    BY <2>1, <2>2, <2>3
<1>6. b \in Seq(Requests) /\ Len(b) \in 0 .. 1 /\ \A i \in 1 .. Len(b) : i = 1 /\ b[i] = enum
  BY <1>2
<1>7. /\ a \in Seq(Requests) /\ b \in Seq(Requests) /\ Len(a) \in 0 .. 1 /\ Len(b) \in 0 .. 1
      /\ \A i \in 1 .. Len(a) : i = 1 /\ a[i] \in {set, get} /\ (a[i] = set => r \in modified)
      /\ \A i \in 1 .. Len(b) : i = 1 /\ b[i] = enum
      /\ Due(r) /\ r \notin modified => Len(a) = 1 /\ a[1] = get
  BY <1>5, <1>6
<1> HIDE DEF a, b
<1>8. /\ a \o b \in Seq(Requests) /\ Len(a \o b) = Len(a) + Len(b)
      /\ \A i \in 1 .. Len(a) : (a \o b)[i] = a[i]
      /\ \A i \in Len(a) + 1 .. Len(a) + Len(b) : (a \o b)[i] = b[i - Len(a)]
  BY <1>7
<1>9. \A i \in DOMAIN (a \o b) : (a \o b)[i] \in {set, get, enum} /\ ((a \o b)[i] = set => r \in modified)
  <2> SUFFICES ASSUME NEW i \in 1 .. Len(a) + Len(b)
               PROVE  (a \o b)[i] \in {set, get, enum} /\ ((a \o b)[i] = set => r \in modified)
    BY <1>8
  <2>1. CASE i <= Len(a)
    BY <1>7, <1>8, <2>1
  <2>2. CASE i > Len(a)
    <3>1. i - Len(a) \in 1 .. Len(b) /\ i \in Len(a) + 1 .. Len(a) + Len(b)
      BY <1>7, <2>2
    <3>2. (a \o b)[i] = enum
      BY <1>7, <1>8, <3>1
    <3>3. enum # set
      BY <1>3
    <3> QED
      BY <3>2, <3>3
  <2> QED
    BY <1>7, <2>1, <2>2
<1>10. Due(r) /\ r \notin modified => Len(a \o b) > 0 /\ (a \o b)[1] = get
  <2> SUFFICES ASSUME Due(r), r \notin modified PROVE Len(a \o b) > 0 /\ (a \o b)[1] = get
    OBVIOUS
  <2>1. Len(a) = 1 /\ a[1] = get /\ 1 \in 1 .. Len(a)
    BY <1>5
  <2> QED
    BY <1>7, <1>8, <2>1
<1> QED
  BY <1>1, <1>3, <1>7, <1>8, <1>9, <1>10

\* The table and the link of a program that has closed the link.
LEMMA ClosedTypes ==
  ASSUME IInv, Closed, setup' = setup
  PROVE  LinkTypes' /\ TableTypes' /\ RxTypes' /\ LineTypes' /\ reg_push_ID' \in Regs
<1> USE Sizes
<1>1. LinkTypes'
  BY DEF Closed, LinkTypes
<1>2. TableTypes'
  BY DEF Closed, TableTypes
<1>3. RxTypes' /\ LineTypes'
  BY DEF IInv, Closed, RxTypes, LineTypes
<1> QED
  BY <1>1, <1>2, <1>3 DEF Closed

\* What the shell prints for a line: the prompt with its echo, then the answer.
Printout(m, values) == <<[is |-> "prompt", of |-> m.do]>> \o Answer(m, values)

LEMMA Evaluated ==
  ASSUME IInv, Evaluate
  PROVE  /\ rx # <<>> /\ Head(rx) \in Requests /\ rx' = Tail(rx) /\ rx' \in Seq(Requests)
         /\ Len(rx') = Len(rx) - 1 /\ \A i \in 1 .. Len(rx') : rx'[i] = rx[i + 1]
         /\ reg' \in [Regs -> Values]
         /\ \A r \in Regs : reg'[r] # reg[r] => Head(rx).do = "set" /\ Head(rx).reg = r
         /\ PrintsLines(Printout(Head(rx), reg'))
         /\ running' = IF Head(rx).do \in Commands THEN Head(rx).do ELSE "none"
<1> DEFINE m == Head(rx)
<1>1. rx \in Seq(Requests) /\ rx # <<>> /\ reg \in [Regs -> Values]
  BY DEF IInv, RxTypes, ShellTypes, Evaluate
<1>2. m \in Requests
  BY <1>1
<1>3. reg' \in Written(m, reg)
  BY DEF Evaluate
<1>4. CASE m.do = "set"
  <2>1. m.reg \in Regs /\ m.value \in Values
    BY <1>2, <1>4, RequestFields
  <2>2. reg' = reg \/ reg' = [reg EXCEPT ![m.reg] = m.value]
    BY <1>3, <1>4 DEF Written
  <2> QED
    BY <1>1, <1>2, <1>4, <2>1, <2>2 DEF Evaluate, Printout
<1>5. CASE m.do # "set"
  <2>1. reg' = reg
    BY <1>3, <1>5 DEF Written
  <2> QED
    BY <1>1, <1>2, <1>5, <2>1 DEF Evaluate, Printout
<1> QED
  BY <1>4, <1>5

LEMMA PromptAndAnswer ==
  ASSUME NEW m \in Requests, NEW values \in [Regs -> Values]
  PROVE  /\ Printout(m, values) \in Seq(Lines) /\ Len(Printout(m, values)) = Len(Answer(m, values)) + 1
         /\ Printout(m, values)[1] = [is |-> "prompt", of |-> m.do]
         /\ \A i \in 2 .. Len(Printout(m, values)) :
              i - 1 \in DOMAIN Answer(m, values) /\ Printout(m, values)[i] = Answer(m, values)[i - 1]
         /\ \A i \in DOMAIN Answer(m, values) :
              i + 1 \in DOMAIN Printout(m, values) /\ Printout(m, values)[i + 1] = Answer(m, values)[i]
<1> DEFINE a == Answer(m, values)
           p == [is |-> "prompt", of |-> m.do]
           s == Printout(m, values)
<1>1. p \in Lines
  BY RequestFields, LineForms
<1>2. a \in Seq(Lines)
  BY AnswerLines
<1>3. s = <<p>> \o a
  BY DEF Printout
<1> HIDE DEF a, p, s
<1>4. s \in Seq(Lines) /\ Len(s) = Len(a) + 1 /\ s[1] = p /\ \A i \in 2 .. Len(a) + 1 : s[i] = a[i - 1]
  BY <1>1, <1>2, <1>3
<1>5. \A i \in 2 .. Len(s) : i - 1 \in DOMAIN a /\ s[i] = a[i - 1]
  BY <1>2, <1>4
<1>6. \A i \in DOMAIN a : i + 1 \in DOMAIN s /\ s[i + 1] = a[i]
  BY <1>2, <1>4
<1> QED
  BY <1>4, <1>5, <1>6 DEF a, p, s

LEMMA ShellTypesStep ==
  ASSUME IInv, Evaluate \/ CommandPrints \/ CommandEnds
  PROVE  IInv'
<1>1. setup' = setup /\ LinkTypes' /\ TableTypes' /\ PushTypes'
  BY DEF IInv, LinkTypes, TableTypes, PushTypes, Evaluate, CommandPrints, CommandEnds, link, table, push
<1>2. <<>> \in Seq(Lines)
  OBVIOUS
<1>3. CASE Evaluate
  <2>1. RxTypes'
    <3>1. rx \in Seq(Requests) /\ Len(rx) \in Nat /\ Len(rx) <= RxMax /\ drops' = drops /\ RxMax \in Nat
      BY <1>3, Sizes DEF IInv, RxTypes, Evaluate
    <3>2. rx' \in Seq(Requests) /\ Len(rx') = Len(rx) - 1
      BY <1>3, Evaluated
    <3> QED
      BY <1>1, <3>1, <3>2 DEF IInv, RxTypes
  <2>2. LineTypes'
    <3>1. Head(rx) \in Requests /\ reg' \in [Regs -> Values]
          /\ PrintsLines(Printout(Head(rx), reg'))
      BY <1>3, Evaluated
    <3>2. Printout(Head(rx), reg') \in Seq(Lines)
      BY <3>1, PromptAndAnswer
    <3> QED
      BY <1>2, <3>1, <3>2 DEF PrintsLines, LineTypes
  <2>3. ShellTypes'
    BY <1>3, Evaluated DEF IInv, ShellTypes, Evaluate
  <2> QED
    BY <1>1, <2>1, <2>2, <2>3 DEF IInv
<1>4. CASE CommandPrints
  <2>1. << [is |-> "text"] >> \in Seq(Lines)
    BY LineForms
  <2> QED
    BY <1>1, <1>2, <1>4, <2>1 DEF IInv, RxTypes, LineTypes, ShellTypes, CommandPrints, PrintsLines, shell
<1>5. CASE CommandEnds
  <2>1. reg' \in [Regs -> Values]
    BY <1>5 DEF IInv, ShellTypes, CommandEnds
  <2> QED
    BY <1>1, <1>5, <2>1 DEF IInv, RxTypes, LineTypes, ShellTypes, CommandEnds
<1> QED
  BY <1>3, <1>4, <1>5

LEMMA TakeTypes ==
  ASSUME IInv, TakeLine
  PROVE  IInv'
<1> DEFINE l == Head(lines)
<1>1. lines \in Seq(Lines) /\ lines # <<>> /\ l \in Lines /\ Tail(lines) \in Seq(Lines)
  BY DEF IInv, LineTypes, TakeLine
<1>2. setup' = setup /\ RxTypes' /\ ShellTypes' /\ PushTypes' /\ LineTypes'
  BY <1>1 DEF IInv, RxTypes, LineTypes, ShellTypes, PushTypes, TakeLine, push, shell
<1>3. linked' \in BOOLEAN /\ locked' \in 0 .. LockOpen + LockCommand /\ active' \in 0 .. CloseAfter + 1
      /\ keep' \in 0 .. KeepIdle + 1
  BY Sizes DEF IInv, LinkTypes, TakeLine
<1>4. CASE l.is = "prompt" /\ TakePrompt(l)
  <2>1. link_mode' \in {"IDLE", "INFO", "COMMAND", "DATA_GRAB"}
    BY <1>4 DEF TakePrompt, ModeOf
  <2>2. command_state' \in {"NONE", "PENDING", "RUNING", "WAITING"}
    BY <1>4 DEF IInv, LinkTypes, TakePrompt, AfterPrompt
  <2>3. TableTypes'
    BY <1>4 DEF IInv, TableTypes, TakePrompt, table
  <2> QED
    BY <1>2, <1>3, <2>1, <2>2, <2>3 DEF IInv, LinkTypes
<1>5. CASE l.is \in {"reg", "hidden"} /\ TakeReg(l)
  <2>1. l.reg \in Regs /\ l.value \in Values
    BY <1>1, <1>5, LineFields DEF OfReg
  <2>2. LinkTypes'
    BY <1>3, <1>5 DEF IInv, LinkTypes, TakeReg
  <2>3. val' \in [Regs -> Values \cup {NoValue}] /\ \A r \in Regs : r # l.reg => val'[r] = val[r]
    BY <1>5, <2>1 DEF IInv, TableTypes, TakeReg, Shown
  <2>4. queued' \in [Regs -> NotQueued .. QueueTimeout + 1]
    BY <1>5, <2>1, Sizes DEF IInv, TableTypes, TakeReg
  <2>5. TableTypes'
    BY <1>5, <2>1, <2>3, <2>4 DEF IInv, TableTypes, TakeReg
  <2> QED
    BY <1>2, <2>2, <2>5 DEF IInv
<1>6. CASE l.is = "text" /\ UNCHANGED <<link_mode, command_state, table>>
  BY <1>2, <1>3, <1>6 DEF IInv, LinkTypes, TableTypes, table
<1> QED
  BY <1>4, <1>5, <1>6 DEF TakeLine

\* The keepalive is the only line that is sent between the lines taken.
LEMMA KeepAliveSends ==
  ASSUME IInv, KeepAlive, setup' = setup
  PROVE  /\ RxTypes' /\ keep' \in 0 .. KeepIdle + 1
         /\ Len(rx) <= Len(rx') /\ \A i \in 1 .. Len(rx) : rx'[i] = rx[i]
         /\ \A i \in Len(rx) + 1 .. Len(rx') : rx'[i].do = "info"
<1>1. CASE UNCHANGED <<keep, rx, drops>>
  BY <1>1 DEF IInv, RxTypes, LinkTypes
<1>2. CASE keep' = 0 /\ \E k \in Taken(<<[do |-> "info"]>>) : Send(<<[do |-> "info"]>>, k)
  <2> DEFINE s == << [do |-> "info"] >>
  <2>1. PICK k \in Taken(s) : Send(s, k)
    BY <1>2
  <2>2. s \in Seq(Requests) /\ Len(s) = 1 /\ s[1].do = "info"
    BY RequestForms
  <2> HIDE DEF s
  <2>4. Len(rx) \in Nat
    BY DEF IInv, RxTypes
  <2> DEFINE n == Len(Arrived(s, k))
  <2>6. /\ RxTypes' /\ k \in 0 .. Len(s) /\ n \in 0 .. k /\ Len(rx') = Len(rx) + n
        /\ \A i \in 1 .. Len(rx) : rx'[i] = rx[i]
        /\ \A i \in 1 .. n : rx'[Len(rx) + i] = s[i]
    BY <2>1, <2>2, Arrives
  <2> HIDE DEF n
  <2>3. n \in 0 .. 1
    BY <2>2, <2>6
  <2>5. \A i \in Len(rx) + 1 .. Len(rx') : i = Len(rx) + 1 /\ rx'[i] = s[1]
    BY <2>3, <2>4, <2>6
  <2> QED
    BY <1>2, <2>2, <2>3, <2>4, <2>5, <2>6, Sizes
<1> QED
  BY <1>1, <1>2 DEF KeepAlive

LEMMA EndFetchTypes ==
  ASSUME IInv, EndFetch
  PROVE  IInv'
<1>1. setup' = setup /\ ShellTypes' /\ at' = "draw" /\ took' = FALSE /\ reg_ID' \in Regs
      /\ busy_N' \in 0 .. BusyMax + 2 + LastReg
  <2>1. UNCHANGED <<setup, reg_ID, busy_N, reg, running, alone>> /\ at' = "draw" /\ took' = FALSE
    BY DEF EndFetch, Drawn, shell
  <2>2. missed' = missed
    BY DEF EndFetch, Closed
  <2> QED
    BY <2>1, <2>2 DEF IInv, ShellTypes, PushTypes
<1>2. CASE Closed
  BY <1>1, <1>2, ClosedTypes DEF IInv, ShellTypes, PushTypes, Closed
<1>3. CASE UNCHANGED <<linked, locked, active, command_state, table, reg_push_ID, lines, missed>>
           /\ link_mode' \in {link_mode, "IDLE"} /\ (KeepAlive \/ UNCHANGED <<keep, rx, drops>>)
  <2>1. RxTypes' /\ keep' \in 0 .. KeepIdle + 1
    BY <1>1, <1>3, KeepAliveSends DEF IInv, LinkTypes, RxTypes
  <2>2. LinkTypes'
    BY <1>3, <2>1 DEF IInv, LinkTypes
  <2>3. TableTypes' /\ LineTypes' /\ PushTypes'
    BY <1>1, <1>3 DEF IInv, TableTypes, LineTypes, PushTypes, table
  <2> QED
    BY <1>1, <2>1, <2>2, <2>3 DEF IInv
<1> QED
  BY <1>2, <1>3 DEF EndFetch, link

LEMMA ToPushTypes ==
  ASSUME IInv, ToPush
  PROVE  /\ setup' = setup /\ at' = "push" /\ took' \in BOOLEAN /\ reg_ID' = reg_push_ID /\ reg_ID' \in Regs
         /\ busy_N' \in 0 .. BusyMax + 2 + LastReg
         /\ reg' = reg /\ running' = running
<1> DEFINE Q == {r \in Regs : queued[r] # NotQueued}
<1>1. LastReg \in Nat /\ BusyMax \in Nat
  BY Sizes
<1>2. IsFiniteSet(0 .. LastReg) /\ Cardinality(0 .. LastReg) = LastReg + 1
  BY <1>1, FS_Interval
<1>3. Q \subseteq 0 .. LastReg
  BY DEF Regs
<1>4. IsFiniteSet(Q) /\ Cardinality(Q) <= LastReg + 1
  BY <1>2, <1>3, FS_Subset
<1>5. Cardinality(Q) \in Nat
  BY <1>4, FS_CardinalityType
<1> HIDE DEF Q
<1>6. Cardinality(Q) \in 0 .. BusyMax + 2 + LastReg
  BY <1>1, <1>4, <1>5
<1>7. busy_N' = Cardinality(Q)
  BY DEF ToPush, Q
<1> QED
  BY <1>6, <1>7 DEF IInv, PushTypes, ToPush

LEMMA CommandSends ==
  ASSUME IInv, NEW c \in Commands, Command(c)
  PROVE  /\ setup' = setup /\ RxTypes' /\ Len(rx') \in {Len(rx), Len(rx) + 1}
         /\ Len(rx') = Len(rx) + 1 => rx'[Len(rx) + 1].do = c
         /\ \A i \in 1 .. Len(rx) : rx'[i] = rx[i]
<1> DEFINE s == << [do |-> c] >>
<1>1. s \in Seq(Requests) /\ Len(s) = 1 /\ s[1].do = c
  BY RequestForms
<1>2. 1 \in Taken(s) /\ Send(s, 1) /\ setup' = setup
  BY DEF Command, ToPush
<1> HIDE DEF s
<1> DEFINE n == Len(Arrived(s, 1))
<1>3. /\ RxTypes' /\ n \in 0 .. 1 /\ Len(rx') = Len(rx) + n
      /\ \A i \in 1 .. Len(rx) : rx'[i] = rx[i]
      /\ \A i \in 1 .. n : rx'[Len(rx) + i] = s[i]
  BY <1>1, <1>2, Arrives
<1>4. Len(rx) \in Nat
  BY DEF IInv, RxTypes
<1> HIDE DEF n
<1>5. CASE n = 0
  BY <1>2, <1>3, <1>4, <1>5
<1>6. CASE n = 1
  BY <1>1, <1>2, <1>3, <1>4, <1>6
<1> QED
  BY <1>3, <1>5, <1>6

LEMMA DrawTypes ==
  ASSUME IInv, Draw
  PROVE  IInv'
<1> USE Sizes
<1>1. ToPush
  BY DEF Draw, Nothing, ShowPopup, Dismiss, LinkOpen, LinkClose, Refresh, Edit, Command
<1>2. /\ setup' = setup /\ at' = "push" /\ took' \in BOOLEAN /\ reg_ID' \in Regs
      /\ busy_N' \in 0 .. BusyMax + 2 + LastReg /\ reg' = reg /\ running' = running
  BY <1>1, ToPushTypes
<1>3. reg_push_ID' = reg_push_ID \/ reg_push_ID' = 0
  BY DEF Draw, Nothing, ShowPopup, Dismiss, LinkOpen, LinkClose, Refresh, Edit, Command, link, Closed
<1>4. PushTypes'
  BY <1>2, <1>3 DEF IInv, PushTypes
<1>5. lines' = lines \/ lines' = <<>>
  BY DEF Draw, Nothing, ShowPopup, Dismiss, LinkOpen, LinkClose, Refresh, Edit, Command, link, Closed
<1>6. LineTypes'
  <2>1. <<>> \in Seq(Lines)
    OBVIOUS
  <2> QED
    BY <1>5, <2>1 DEF IInv, LineTypes
<1>7. CASE UNCHANGED <<table, rx, missed, drops, alone, linked, locked, active, keep, link_mode>>
           /\ command_state' \in {command_state, "WAITING", "NONE"}
  <2>1. LinkTypes' /\ TableTypes'
    BY <1>7 DEF IInv, LinkTypes, TableTypes, table
  <2>2. RxTypes' /\ ShellTypes'
    BY <1>2, <1>7 DEF IInv, RxTypes, ShellTypes
  <2> QED
    BY <1>2, <1>4, <1>6, <2>1, <2>2 DEF IInv
<1>8. ASSUME NEW r \in Regs, NEW v \in Values, Edit(r, v) PROVE IInv'
  <2>1. LinkTypes'
    BY <1>8 DEF IInv, LinkTypes, Edit, link
  <2>2. val' \in [Regs -> Values \cup {NoValue}] /\ val'[r] \in Values /\ \A q \in Regs : q # r => val'[q] = val[q]
    BY <1>8 DEF IInv, TableTypes, Edit
  <2>3. TableTypes'
    BY <1>8, <2>2 DEF IInv, TableTypes, Edit
  <2>4. RxTypes' /\ ShellTypes'
    BY <1>2, <1>8 DEF IInv, RxTypes, ShellTypes, Edit
  <2> QED
    BY <1>2, <1>4, <1>6, <2>1, <2>3, <2>4 DEF IInv
<1>9. ASSUME NEW r \in Regs, Refresh(r) PROVE IInv'
  <2>1. LinkTypes' /\ TableTypes'
    BY <1>9 DEF IInv, LinkTypes, TableTypes, Refresh, link
  <2>2. RxTypes' /\ ShellTypes'
    BY <1>2, <1>9 DEF IInv, RxTypes, ShellTypes, Refresh
  <2> QED
    BY <1>2, <1>4, <1>6, <2>1, <2>2 DEF IInv
<1>10. ASSUME NEW c \in Commands, Command(c) PROVE IInv'
  <2>1. LinkTypes'
    BY <1>10 DEF IInv, LinkTypes, Command
  <2>2. setup.probed \subseteq Regs
    BY SetupFields DEF IInv
  <2>3. TableTypes'
    BY <1>10, <2>2 DEF IInv, TableTypes, Command
  <2>4. RxTypes'
    BY <1>10, CommandSends
  <2>5. missed' \subseteq Regs /\ alone' \in BOOLEAN
    BY <1>10, <2>2 DEF IInv, ShellTypes, Command
  <2>6. ShellTypes'
    BY <1>2, <2>5 DEF IInv, ShellTypes
  <2> QED
    BY <1>2, <1>4, <1>6, <2>1, <2>3, <2>4, <2>6 DEF IInv
<1>11. CASE LinkOpen
  <2>1. LinkTypes' /\ TableTypes'
    BY <1>11 DEF IInv, LinkTypes, TableTypes, LinkOpen, table
  <2>2. PICK k \in Taken(Greeting) : Send(Greeting, k) /\ missed' \in {{}, Regs}
    BY <1>11 DEF LinkOpen
  <2>3. Greeting \in Seq(Requests)
    BY RequestForms DEF Greeting
  <2>4. RxTypes'
    BY <1>2, <2>2, <2>3, Arrives
  <2>5. ShellTypes'
    BY <1>2, <1>11, <2>2 DEF IInv, ShellTypes, LinkOpen
  <2> QED
    BY <1>2, <1>4, <1>6, <2>1, <2>4, <2>5 DEF IInv
<1>12. CASE LinkClose
  <2>1. Closed /\ alone' = alone
    BY <1>12 DEF LinkClose
  <2> QED
    BY <1>2, <1>4, <1>6, <2>1, ClosedTypes DEF IInv, ShellTypes, Closed
<1>13. Nothing \/ ShowPopup \/ Dismiss => UNCHANGED <<table, rx, missed, drops, alone, linked, locked, active, keep, link_mode>>
           /\ command_state' \in {command_state, "WAITING", "NONE"}
  BY DEF Nothing, ShowPopup, Dismiss, link
<1> QED
  BY <1>7, <1>8, <1>9, <1>10, <1>11, <1>12, <1>13 DEF Draw

LEMMA OlderTypes ==
  ASSUME NEW limit \in Nat, NEW age \in 0 .. limit + 1
  PROVE  Older(age, limit) \in 0 .. limit + 1
BY DEF Older

LEMMA AgedTypes ==
  ASSUME NEW q \in [Regs -> NotQueued .. QueueTimeout + 1]
  PROVE  Aged(q) \in [Regs -> NotQueued .. QueueTimeout + 1]
<1>1. ASSUME NEW r \in Regs
      PROVE  (IF q[r] = NotQueued THEN NotQueued ELSE Older(q[r], QueueTimeout)) \in NotQueued .. QueueTimeout + 1
  <2>1. QueueTimeout \in Nat /\ NotQueued = -1
    BY Sizes
  <2>2. CASE q[r] = NotQueued
    BY <2>1, <2>2
  <2>3. CASE q[r] # NotQueued
    <3>1. q[r] \in 0 .. QueueTimeout + 1
      BY <2>1, <2>3
    <3>2. Older(q[r], QueueTimeout) \in 0 .. QueueTimeout + 1
      BY <2>1, <3>1, OlderTypes
    <3> QED
      BY <2>1, <2>3, <3>2
  <2> QED
    BY <2>2, <2>3
<1> QED
  BY <1>1 DEF Aged

\* The clocks of the next frame.
LEMMA FrameTypes ==
  ASSUME IInv, NextFrame, UNCHANGED <<linked, link_mode, command_state, took>>
  PROVE  /\ LinkTypes' /\ at' = "fetch" /\ reg_ID' \in Regs /\ fetched' \subseteq Regs
         /\ busy_N' \in 0 .. BusyMax + 2 + LastReg
<1> USE Sizes
<1>1. active' \in 0 .. CloseAfter + 1 /\ keep' \in 0 .. KeepIdle + 1
  BY OlderTypes DEF IInv, LinkTypes, NextFrame
<1>2. locked' \in 0 .. LockOpen + LockCommand
  BY DEF IInv, LinkTypes, NextFrame
<1> QED
  BY <1>1, <1>2 DEF IInv, LinkTypes, NextFrame

LEMMA PushNothingTypes ==
  ASSUME IInv, PushNothing
  PROVE  IInv'
<1>1. LinkTypes' /\ at' = "fetch" /\ reg_ID' \in Regs /\ fetched' \subseteq Regs /\ busy_N' \in 0 .. BusyMax + 2 + LastReg
  BY FrameTypes DEF PushNothing
<1>2. queued' \in [Regs -> NotQueued .. QueueTimeout + 1]
  BY AgedTypes DEF IInv, TableTypes, PushNothing
<1>3. TableTypes' /\ PushTypes'
  BY <1>1, <1>2 DEF IInv, TableTypes, PushTypes, PushNothing
<1>4. RxTypes' /\ LineTypes' /\ ShellTypes'
  BY DEF IInv, RxTypes, LineTypes, ShellTypes, PushNothing, shell
<1> QED
  BY <1>1, <1>3, <1>4 DEF IInv, PushNothing

\* What a step of the loop sends: what the register wants, or nothing while it waits.
PushSends(s, k) ==
  /\ s = (IF queued[reg_ID] = NotQueued THEN Wanted(reg_ID) ELSE <<>>) /\ k \in Taken(s) /\ Send(s, k)
  /\ onefetch' = (IF queued[reg_ID] = NotQueued THEN Unmarked(reg_ID) ELSE onefetch)
  /\ missed' = missed \cup (Ids(s, "get") \ Ids(Arrived(s, k), "get"))
  /\ enumerated' = enumerated \cup Ids(SubSeq(s, 1, k), "enum")
  /\ LET q == [queued EXCEPT ![reg_ID] = IF k > 0 THEN 0 ELSE Waiting(@)]
     IN  \/ NextFrame /\ queued' = Aged(q) /\ reg_push_ID' = NextReg
         \/ /\ queued' = q /\ reg_ID' = NextReg /\ ~ busy_N + k > BusyMax /\ busy_N' = busy_N + k
            /\ UNCHANGED <<at, fetched, locked, active, keep, reg_push_ID>>

LEMMA PushRegSends ==
  ASSUME IInv, PushReg
  PROVE  /\ \E s \in Seq(Requests), k \in Nat : PushSends(s, k)
         /\ UNCHANGED <<setup, linked, link_mode, command_state, known, val, modified, took, lines, reg,
                        running, alone>>
<1> DEFINE s == IF queued[reg_ID] = NotQueued THEN Wanted(reg_ID) ELSE <<>>
<1>1. PICK k \in Taken(s) : PushSends(s, k)
  BY DEF PushReg, PushSends
<1>2. reg_ID \in Regs
  BY DEF IInv, PushTypes
<1>3. s \in Seq(Requests)
  BY <1>2, WantedRequests
<1>4. k \in Nat
  BY <1>3 DEF Taken
<1>5. UNCHANGED <<setup, linked, link_mode, command_state, known, val, modified, took, lines, reg,
                  running, alone>>
  BY DEF PushReg, shell
<1> HIDE DEF s
<1> QED
  BY <1>1, <1>3, <1>4, <1>5

LEMMA PushRegTypes ==
  ASSUME IInv, PushReg
  PROVE  IInv'
<1> USE Sizes
<1>1. PICK s \in Seq(Requests), k \in Nat : PushSends(s, k)
  BY PushRegSends
<1>2. UNCHANGED <<setup, linked, link_mode, command_state, known, val, modified, took, lines, reg, running, alone>>
  BY PushRegSends
<1>3. reg_ID \in Regs /\ reg_push_ID \in Regs /\ busy_N \in 0 .. BusyMax + 2 + LastReg
      /\ queued \in [Regs -> NotQueued .. QueueTimeout + 1]
  BY DEF IInv, PushTypes, TableTypes
<1>4. /\ RxTypes' /\ k \in 0 .. Len(s) /\ Len(Arrived(s, k)) \in 0 .. k
      /\ \A i \in 1 .. Len(Arrived(s, k)) : Arrived(s, k)[i] = s[i]
  BY <1>1, <1>2, Arrives DEF PushSends
<1>5. Len(s) \in 0 .. 2 /\ \A i \in 1 .. Len(s) : s[i].reg = reg_ID
  <2>1. s = Wanted(reg_ID) \/ s = <<>>
    BY <1>1 DEF PushSends
  <2>2. /\ Wanted(reg_ID) \in Seq(Requests) /\ Len(Wanted(reg_ID)) \in 0 .. 2
        /\ \A i \in DOMAIN Wanted(reg_ID) : Wanted(reg_ID)[i].reg = reg_ID
    BY <1>3, WantedRequests
  <2>3. DOMAIN Wanted(reg_ID) = 1 .. Len(Wanted(reg_ID))
    BY <2>2
  <2>4. CASE s = <<>>
    BY <2>4
  <2> QED
    BY <2>1, <2>2, <2>3, <2>4
<1>6. \A do : Ids(s, do) \subseteq Regs
  BY <1>3, <1>5 DEF Ids
<1>7. Ids(SubSeq(s, 1, k), "enum") \subseteq Regs
  <2> DEFINE t == SubSeq(s, 1, k)
  <2>1. t \in Seq(Requests) /\ Len(t) = k /\ \A i \in 1 .. k : t[i] = s[i]
    BY <1>4
  <2> HIDE DEF t
  <2>2. \A i \in DOMAIN t : t[i].reg = reg_ID
    BY <1>4, <1>5, <2>1
  <2>3. Ids(t, "enum") \subseteq Regs
    BY <1>3, <2>2 DEF Ids
  <2> QED
    BY <2>3 DEF t
<1>8. ShellTypes'
  <2>1. missed' \subseteq Regs
    BY <1>1, <1>6 DEF IInv, ShellTypes, PushSends
  <2> QED
    BY <1>2, <2>1 DEF IInv, ShellTypes
<1>9. onefetch' \subseteq Regs /\ enumerated' \subseteq Regs
  BY <1>1, <1>7 DEF IInv, TableTypes, PushSends, Unmarked
<1> DEFINE q == [queued EXCEPT ![reg_ID] = IF k > 0 THEN 0 ELSE Waiting(@)]
<1>10. q \in [Regs -> NotQueued .. QueueTimeout + 1]
  BY <1>3 DEF Waiting
<1>11. NextReg \in Regs
  <2>1. LastReg + 1 \in Nat \ {0} /\ reg_ID + 1 \in Nat
    BY <1>3
  <2>2. (reg_ID + 1) % (LastReg + 1) \in 0 .. LastReg
    BY <2>1
  <2> QED
    BY <2>2 DEF NextReg, Regs
<1>12. \/ NextFrame /\ queued' = Aged(q) /\ reg_push_ID' = NextReg
       \/ /\ queued' = q /\ reg_ID' = NextReg /\ ~ busy_N + k > BusyMax /\ busy_N' = busy_N + k
          /\ UNCHANGED <<at, fetched, locked, active, keep, reg_push_ID>>
  BY <1>1 DEF PushSends
<1>13. CASE NextFrame /\ queued' = Aged(q) /\ reg_push_ID' = NextReg
  <2>1. LinkTypes' /\ at' = "fetch" /\ reg_ID' \in Regs /\ fetched' \subseteq Regs /\ busy_N' \in 0 .. BusyMax + 2 + LastReg
    BY <1>2, <1>13, FrameTypes
  <2>2. queued' \in [Regs -> NotQueued .. QueueTimeout + 1]
    BY <1>10, <1>13, AgedTypes
  <2>3. TableTypes' /\ PushTypes'
    BY <1>2, <1>9, <1>11, <1>13, <2>1, <2>2 DEF IInv, TableTypes, PushTypes
  <2> QED
    BY <1>2, <1>4, <1>8, <2>1, <2>3 DEF IInv, LineTypes
<1>14. CASE /\ queued' = q /\ reg_ID' = NextReg /\ ~ busy_N + k > BusyMax /\ busy_N' = busy_N + k
            /\ UNCHANGED <<at, fetched, locked, active, keep, reg_push_ID>>
  <2>1. busy_N' \in 0 .. BusyMax + 2 + LastReg
    BY <1>3, <1>14
  <2>2. TableTypes'
    BY <1>2, <1>9, <1>10, <1>14 DEF IInv, TableTypes
  <2>3. PushTypes' /\ LinkTypes'
    BY <1>2, <1>11, <1>14, <2>1 DEF IInv, PushTypes, LinkTypes
  <2> QED
    BY <1>2, <1>4, <1>8, <2>2, <2>3 DEF IInv, LineTypes
<1> QED
  BY <1>12, <1>13, <1>14

LEMMA TypeStep == IInv /\ [Next]_vars => IInv'
<1> SUFFICES ASSUME IInv, [Next]_vars PROVE IInv'
  OBVIOUS
<1>1. CASE UNCHANGED vars
  BY <1>1 DEF vars, link, table, push, shell, IInv, LinkTypes, TableTypes, PushTypes, RxTypes, LineTypes, ShellTypes
<1> QED
  BY <1>1, ShellTypesStep, TakeTypes, EndFetchTypes, DrawTypes, PushNothingTypes, PushRegTypes DEF Next, Frame

\* The table, the requests that wait, the queue of the shell and the lines on their
\* way keep their types: the queue never holds more than it can, and what is sent as an
\* edit is a value.
THEOREM TypeCorrect == Spec => []TypeOK
<1> QED
  BY InitTypes, TypeStep, TypesOfParts, PTL DEF Spec

-----------------------------------------------------------------------------
(* What is on its way to the program *)

\* The lines on their way are of one answer, begin with its prompt if that was not
\* taken yet, and show what the registers hold; while a command runs there are none of
\* registers.  A line with the name of another value is followed by the right one.
OneAnswer ==
  /\ \A i \in DOMAIN lines : lines[i].is = "prompt" => i = 1
  /\ \A i \in DOMAIN lines : OfReg(lines[i]) => running = "none" /\ lines[i].value = reg[lines[i].reg]
  /\ \A i \in DOMAIN lines :
       lines[i].is = "hidden" => i + 1 \in DOMAIN lines /\ lines[i + 1] = RegLine(lines[i].reg, reg)

\* A program that is not linked knows no register.
Closing == ~ linked => known = {}

LInv == IInv /\ OneAnswer /\ Closing

\* The steps of the program other than taking a line.
LEMMA ProgramSteps ==
  ASSUME EndFetch \/ Draw \/ PushNothing \/ PushReg
  PROVE  UNCHANGED <<setup, reg, running>> /\ lines' \in {lines, <<>>}
<1>1. CASE EndFetch
  BY <1>1 DEF EndFetch, Closed, shell
<1>2. CASE Draw
  <2>1. ToPush /\ lines' \in {lines, <<>>}
    BY <1>2 DEF Draw, Nothing, ShowPopup, Dismiss, LinkOpen, LinkClose, Refresh, Edit, Command, Closed
  <2> QED
    BY <2>1 DEF ToPush
<1>3. CASE PushNothing
  BY <1>3 DEF PushNothing, shell
<1>4. CASE PushReg
  BY <1>4 DEF PushReg, shell
<1> QED
  BY <1>1, <1>2, <1>3, <1>4

\* The first line is taken: what follows is one place nearer.
LEMMA LineTaken ==
  ASSUME IInv, TakeLine
  PROVE  /\ lines \in Seq(Lines) /\ lines # <<>> /\ 1 \in DOMAIN lines /\ Head(lines) = lines[1]
         /\ \A i \in DOMAIN lines' : i \in Nat \ {0} /\ i + 1 \in DOMAIN lines /\ lines'[i] = lines[i + 1]
         /\ \A i \in DOMAIN lines : i # 1 => i \in Nat /\ i - 1 \in DOMAIN lines' /\ lines'[i - 1] = lines[i]
<1>1. lines \in Seq(Lines) /\ lines # <<>> /\ lines' = Tail(lines)
  BY DEF IInv, LineTypes, TakeLine
<1>2. /\ Len(lines) \in Nat \ {0} /\ DOMAIN lines = 1 .. Len(lines) /\ Len(Tail(lines)) = Len(lines) - 1
      /\ DOMAIN Tail(lines) = 1 .. Len(lines) - 1 /\ \A i \in 1 .. Len(lines) - 1 : Tail(lines)[i] = lines[i + 1]
      /\ Head(lines) = lines[1]
  BY <1>1
<1>3. \A i \in DOMAIN lines : i # 1 => i - 1 \in 1 .. Len(lines) - 1 /\ (i - 1) + 1 = i
  BY <1>2
<1>4. \A i \in 1 .. Len(lines) - 1 : i \in Nat \ {0} /\ i + 1 \in 1 .. Len(lines)
  BY <1>2
<1> QED
  BY <1>1, <1>2, <1>3, <1>4

LEMMA LinesStep ==
  ASSUME LInv, [Next]_vars
  PROVE  LInv'
<1>1. IInv' /\ IInv
  BY TypeStep DEF LInv
<1>2. Closing'
  <2>1. CASE TakeLine
    BY <2>1 DEF TakeLine, Closing
  <2>2. CASE EndFetch
    BY <2>2 DEF LInv, EndFetch, Closed, Closing, link, table
  <2>3. CASE Draw
    BY <2>3 DEF LInv, Draw, Nothing, ShowPopup, Dismiss, LinkOpen, LinkClose, Refresh, Edit, Command, Closed,
       Closing, link, table
  <2>4. CASE PushNothing \/ PushReg
    BY <2>4 DEF LInv, PushNothing, PushReg, Closing
  <2>5. CASE Evaluate \/ CommandPrints \/ CommandEnds \/ UNCHANGED vars
    BY <2>5 DEF LInv, Evaluate, CommandPrints, CommandEnds, vars, link, table, Closing
  <2> QED
    BY <2>1, <2>2, <2>3, <2>4, <2>5 DEF Next, Frame
<1>3. ASSUME lines' = <<>> PROVE OneAnswer'
  BY <1>3 DEF OneAnswer
<1>4. ASSUME UNCHANGED <<lines, reg, running>> PROVE OneAnswer'
  <2>1. \A r : RegLine(r, reg') = RegLine(r, reg)
    BY <1>4
  <2> QED
    BY <1>4, <2>1 DEF LInv, OneAnswer
<1>5. ASSUME Evaluate PROVE OneAnswer'
  <2> DEFINE m == Head(rx)
             p == [is |-> "prompt", of |-> m.do]
             a == Answer(m, reg')
             s == Printout(m, reg')
  <2>1. m \in Requests /\ reg' \in [Regs -> Values] /\ PrintsLines(s)
        /\ running' = IF m.do \in Commands THEN m.do ELSE "none"
    BY <1>1, <1>5, Evaluated
  <2>2. /\ Shows(a, reg') /\ (m.do \in Commands => a = <<>>) /\ p.is = "prompt"
    BY <2>1, AnswerLines
  <2>3. /\ s \in Seq(Lines) /\ Len(s) = Len(a) + 1 /\ s[1] = p
        /\ \A i \in 2 .. Len(s) : i - 1 \in DOMAIN a /\ s[i] = a[i - 1]
        /\ \A i \in DOMAIN a : i + 1 \in DOMAIN s /\ s[i + 1] = a[i]
    BY <2>1, PromptAndAnswer
  <2>4. lines' = s \/ lines' = <<>>
    BY <2>1 DEF PrintsLines
  <2>5. ASSUME lines' = s PROVE OneAnswer'
    <3> HIDE DEF p, a, s, m
    <3>1. DOMAIN s = 1 .. Len(s) /\ \A i \in DOMAIN s : i = 1 \/ i \in 2 .. Len(s)
      BY <2>3
    <3>2. \A i \in DOMAIN s : s[i].is = "prompt" => i = 1
      BY <2>2, <2>3, <3>1 DEF Shows
    <3>3. \A i \in DOMAIN s : OfReg(s[i]) => running' = "none" /\ s[i].value = reg'[s[i].reg]
      <4> SUFFICES ASSUME NEW i \in DOMAIN s, OfReg(s[i])
                   PROVE  running' = "none" /\ s[i].value = reg'[s[i].reg]
        OBVIOUS
      <4>1. i \in 2 .. Len(s)
        BY <2>2, <2>3, <3>1 DEF OfReg
      <4>2. i - 1 \in DOMAIN a /\ s[i] = a[i - 1]
        BY <2>3, <4>1
      <4>3. m.do \notin Commands
        BY <2>2, <4>2
      <4> QED
        BY <2>1, <2>2, <4>2, <4>3 DEF Shows
    <3>4. \A i \in DOMAIN s : s[i].is = "hidden" => i + 1 \in DOMAIN s /\ s[i + 1] = RegLine(s[i].reg, reg')
      <4> SUFFICES ASSUME NEW i \in DOMAIN s, s[i].is = "hidden"
                   PROVE  i + 1 \in DOMAIN s /\ s[i + 1] = RegLine(s[i].reg, reg')
        OBVIOUS
      <4>1. i \in 2 .. Len(s)
        BY <2>2, <2>3, <3>1
      <4>2. i - 1 \in DOMAIN a /\ s[i] = a[i - 1] /\ (i - 1) + 1 = i
        BY <2>3, <4>1
      <4>3. i \in DOMAIN a /\ a[i] = RegLine(s[i].reg, reg')
        BY <2>2, <4>2 DEF Shows
      <4> QED
        BY <2>3, <4>3
    <3> QED
      BY <2>5, <3>2, <3>3, <3>4 DEF OneAnswer
  <2> QED
    BY <1>3, <2>4, <2>5
<1>6. ASSUME CommandPrints PROVE OneAnswer'
  <2>1. lines' = << [is |-> "text"] >>
    BY <1>6 DEF CommandPrints, PrintsLines
  <2> QED
    BY <2>1 DEF OneAnswer, OfReg
<1>7. ASSUME CommandEnds PROVE OneAnswer'
  <2>1. running # "none" /\ lines' = lines
    BY <1>7 DEF CommandEnds
  <2>2. \A i \in DOMAIN lines : ~ OfReg(lines[i])
    BY <2>1 DEF LInv, OneAnswer
  <2> QED
    BY <2>1, <2>2 DEF LInv, OneAnswer, OfReg
<1>8. ASSUME TakeLine PROVE OneAnswer'
  <2>1. /\ 1 \in DOMAIN lines
        /\ \A i \in DOMAIN lines' : i \in Nat \ {0} /\ i + 1 \in DOMAIN lines /\ lines'[i] = lines[i + 1]
        /\ \A i \in DOMAIN lines : i # 1 => i - 1 \in DOMAIN lines' /\ lines'[i - 1] = lines[i]
    BY <1>1, <1>8, LineTaken
  <2>2. reg' = reg /\ running' = running
    BY <1>8 DEF TakeLine, shell
  <2>3. \A i \in DOMAIN lines' : lines'[i].is # "prompt"
    BY <2>1 DEF LInv, OneAnswer
  <2>4. \A i \in DOMAIN lines' : OfReg(lines'[i]) => running' = "none" /\ lines'[i].value = reg'[lines'[i].reg]
    BY <2>1, <2>2 DEF LInv, OneAnswer
  <2>5. ASSUME NEW i \in DOMAIN lines', lines'[i].is = "hidden"
        PROVE  i + 1 \in DOMAIN lines' /\ lines'[i + 1] = RegLine(lines'[i].reg, reg')
    <3>1. i \in Nat /\ i + 1 \in DOMAIN lines /\ lines'[i] = lines[i + 1]
      BY <2>1
    <3>2. (i + 1) + 1 \in DOMAIN lines /\ lines[(i + 1) + 1] = RegLine(lines'[i].reg, reg)
      BY <2>5, <3>1 DEF LInv, OneAnswer
    <3>3. ((i + 1) + 1) - 1 = i + 1 /\ (i + 1) + 1 # 1
      BY <3>1
    <3>4. i + 1 \in DOMAIN lines' /\ lines'[i + 1] = lines[(i + 1) + 1]
      BY <2>1, <3>2, <3>3
    <3> QED
      BY <2>2, <3>2, <3>4
  <2> QED
    BY <2>3, <2>4, <2>5 DEF OneAnswer
<1>9. ASSUME EndFetch \/ Draw \/ PushNothing \/ PushReg PROVE OneAnswer'
  BY <1>3, <1>4, <1>9, ProgramSteps
<1>10. ASSUME UNCHANGED vars PROVE OneAnswer'
  BY <1>4, <1>10 DEF vars, shell
<1> QED
  BY <1>1, <1>2, <1>5, <1>6, <1>7, <1>8, <1>9, <1>10 DEF Next, Frame, LInv

-----------------------------------------------------------------------------
(* What the table shows *)

Asked(r)         == \E i \in DOMAIN rx : About(rx[i], r)
AskedAfter(r, j) == \E i \in DOMAIN rx : i > j /\ About(rx[i], r)
Printed(r)       == \E i \in DOMAIN lines : lines[i].is = "reg" /\ lines[i].reg = r

\* A register that a probe changes, and whose fetch is still to be sent or was lost.
Exempt(r) == r \in setup.probed /\ (r \in onefetch \/ r \in missed)

\* What a probe changes is asked for after the probe.
Covered ==
  linked => \A r \in setup.probed : ~ Exempt(r) =>
    /\ running = "probe" => Asked(r)
    /\ \A j \in DOMAIN rx : rx[j].do = "probe" => AskedAfter(r, j)

\* What the table does not show as it is, it will: an answer is on its way or will be.
Answered(r) ==
  linked /\ r \in known /\ r \notin modified /\ ~ Exempt(r) => Asked(r) \/ Printed(r) \/ val[r] = reg[r]

QInv == LInv /\ modified \subseteq setup.edits /\ Covered /\ \A r \in Regs : Answered(r)

\* The requests that wait go on waiting when others are sent.
Longer ==
  /\ rx \in Seq(Requests) /\ rx' \in Seq(Requests) /\ Len(rx) <= Len(rx')
  /\ \A i \in 1 .. Len(rx) : rx'[i] = rx[i]

\* What is sent follows what was there.
LEMMA SendAdds ==
  ASSUME IInv, NEW s \in Seq(Requests), NEW k \in Taken(s), Send(s, k), setup' = setup
  PROVE  Longer /\ \A j \in Len(rx) + 1 .. Len(rx') : \E i \in DOMAIN s : rx'[j] = s[i]
<1> DEFINE n == Len(Arrived(s, k))
<1>1. /\ RxTypes' /\ k \in 0 .. Len(s) /\ n \in 0 .. k /\ Len(rx') = Len(rx) + n
      /\ \A i \in 1 .. Len(rx) : rx'[i] = rx[i]
      /\ \A i \in 1 .. n : Arrived(s, k)[i] = s[i] /\ rx'[Len(rx) + i] = s[i]
  BY Arrives
<1>2. rx \in Seq(Requests) /\ Len(rx) \in Nat
  BY DEF IInv, RxTypes
<1> HIDE DEF n
<1>3. Longer
  BY <1>1, <1>2 DEF RxTypes, Longer
<1>4. ASSUME NEW j \in Len(rx) + 1 .. Len(rx') PROVE \E i \in DOMAIN s : rx'[j] = s[i]
  <2>1. j - Len(rx) \in 1 .. n /\ Len(rx) + (j - Len(rx)) = j
    BY <1>1, <1>2
  <2>2. rx'[j] = s[j - Len(rx)] /\ j - Len(rx) \in 1 .. Len(s) /\ DOMAIN s = 1 .. Len(s)
    BY <1>1, <2>1
  <2> QED
    BY <2>2
<1> QED
  BY <1>3, <1>4

LEMMA StillAsked ==
  ASSUME Longer, NEW r
  PROVE  /\ DOMAIN rx = 1 .. Len(rx) /\ DOMAIN rx' = 1 .. Len(rx') /\ Len(rx) \in Nat /\ Len(rx') \in Nat
         /\ Asked(r) => (Asked(r))'
         /\ \A j \in DOMAIN rx : AskedAfter(r, j) => (AskedAfter(r, j))'
<1>1. /\ DOMAIN rx = 1 .. Len(rx) /\ DOMAIN rx' = 1 .. Len(rx') /\ Len(rx) \in Nat /\ Len(rx') \in Nat
      /\ 1 .. Len(rx) \subseteq 1 .. Len(rx')
  BY DEF Longer
<1>2. Asked(r) => (Asked(r))'
  BY <1>1 DEF Longer, Asked
<1>3. \A j \in DOMAIN rx : AskedAfter(r, j) => (AskedAfter(r, j))'
  BY <1>1 DEF Longer, AskedAfter
<1> QED
  BY <1>1, <1>2, <1>3

\* A request that was not there before comes after all that were.
LEMMA AskedLast ==
  ASSUME Longer, NEW i \in Len(rx) + 1 .. Len(rx'), NEW r, About(rx'[i], r)
  PROVE  (Asked(r))' /\ \A j \in DOMAIN rx : (AskedAfter(r, j))'
<1>1. i \in DOMAIN rx' /\ \A j \in DOMAIN rx : i > j
  BY DEF Longer
<1> QED
  BY <1>1 DEF Asked, AskedAfter

\* The program sends: no register is shown that was not, none changes, and what is no
\* longer exempt is asked for.
LEMMA SendKeeps ==
  ASSUME QInv, setup' = setup, linked' = linked, UNCHANGED <<reg, running, lines>>, Longer,
         \A r \in setup.probed : Exempt(r) => (Exempt(r))' \/ \E i \in Len(rx) + 1 .. Len(rx') : About(rx'[i], r),
         \A j \in Len(rx) + 1 .. Len(rx') : rx'[j].do = "probe" => \A r \in setup.probed : (Exempt(r))',
         \A r \in Regs : r \in known' /\ r \notin modified' => r \in known /\ r \notin modified /\ val'[r] = val[r]
  PROVE  Covered' /\ \A r \in Regs : (Answered(r))'
<1>1. setup.probed \subseteq Regs
  BY SetupFields DEF QInv, LInv, IInv
<1>2. ASSUME NEW r \in setup.probed, ~ (Exempt(r))', linked
      PROVE  /\ running' = "probe" => (Asked(r))'
             /\ \A j \in DOMAIN rx' : rx'[j].do = "probe" => (AskedAfter(r, j))'
  <2>1. CASE Exempt(r)
    <3>1. PICK i \in Len(rx) + 1 .. Len(rx') : About(rx'[i], r)
      BY <1>2, <2>1
    <3>2. (Asked(r))' /\ \A j \in DOMAIN rx : (AskedAfter(r, j))'
      BY <3>1, AskedLast
    <3> QED
      BY <1>2, <3>2, StillAsked
  <2>2. CASE ~ Exempt(r)
    <3>1. /\ running = "probe" => Asked(r)
          /\ \A j \in DOMAIN rx : rx[j].do = "probe" => AskedAfter(r, j)
      BY <1>2, <2>2 DEF QInv, Covered
    <3>2. \A j \in DOMAIN rx' : j \in DOMAIN rx \/ j \in Len(rx) + 1 .. Len(rx')
      BY StillAsked
    <3>3. \A j \in DOMAIN rx : rx'[j] = rx[j]
      BY StillAsked DEF Longer
    <3> QED
      BY <1>2, <3>1, <3>2, <3>3, StillAsked
  <2> QED
    BY <2>1, <2>2
<1>3. Covered'
  BY <1>2 DEF Covered
<1>4. ASSUME NEW r \in Regs PROVE (Answered(r))'
  <2> SUFFICES ASSUME linked, r \in known', r \notin modified', ~ (Exempt(r))'
               PROVE  (Asked(r))' \/ (Printed(r))' \/ val'[r] = reg'[r]
    BY DEF Answered
  <2>1. r \in known /\ r \notin modified /\ val'[r] = val[r] /\ reg'[r] = reg[r]
    OBVIOUS
  <2>2. CASE Exempt(r)
    <3>1. PICK i \in Len(rx) + 1 .. Len(rx') : About(rx'[i], r)
      BY <2>2 DEF Exempt
    <3> QED
      BY <3>1, AskedLast
  <2>3. CASE ~ Exempt(r)
    <3>1. Asked(r) \/ Printed(r) \/ val[r] = reg[r]
      BY <2>1, <2>3 DEF QInv, Answered
    <3>2. Printed(r) => (Printed(r))'
      BY DEF Printed
    <3> QED
      BY <2>1, <3>1, <3>2, StillAsked
  <2> QED
    BY <2>2, <2>3
<1> QED
  BY <1>3, <1>4

LEMMA QuietEvaluate ==
  ASSUME QInv, Evaluate
  PROVE  Covered' /\ \A r \in Regs : (Answered(r))'
<1> DEFINE m == Head(rx)
<1>1. UNCHANGED <<setup, linked, known, val, modified, onefetch, missed>> /\ lines = <<>>
  BY DEF Evaluate, link, table, Listens
<1>2. IInv
  BY DEF QInv, LInv
<1>3. /\ rx \in Seq(Requests) /\ rx # <<>> /\ m = rx[1]
      /\ DOMAIN rx = 1 .. Len(rx) /\ Len(rx) \in Nat /\ setup.probed \subseteq Regs
  BY <1>2, SetupFields DEF Evaluate, IInv, RxTypes
<1>4. /\ m \in Requests /\ rx' \in Seq(Requests) /\ Len(rx') = Len(rx) - 1
      /\ \A i \in 1 .. Len(rx') : rx'[i] = rx[i + 1]
      /\ reg' \in [Regs -> Values] /\ \A r \in Regs : reg'[r] # reg[r] => m.do = "set" /\ m.reg = r
      /\ PrintsLines(Printout(m, reg'))
      /\ running' = IF m.do \in Commands THEN m.do ELSE "none"
  BY <1>2, Evaluated
<1>5. DOMAIN rx' = 1 .. Len(rx) - 1 /\ \A i \in DOMAIN rx' : i + 1 \in DOMAIN rx /\ rx'[i] = rx[i + 1]
  BY <1>3, <1>4
<1>6. \A i \in DOMAIN rx : i > 1 => i - 1 \in DOMAIN rx' /\ rx'[i - 1] = rx[i]
  BY <1>3, <1>4, <1>5
<1>7. \A r : AskedAfter(r, 1) => (Asked(r))'
  BY <1>6 DEF AskedAfter, Asked
<1>8. \A r : \A j \in DOMAIN rx' : AskedAfter(r, j + 1) => (AskedAfter(r, j))'
  <2> SUFFICES ASSUME NEW r, NEW j \in DOMAIN rx', NEW i \in DOMAIN rx, i > j + 1, About(rx[i], r)
               PROVE  (AskedAfter(r, j))'
    BY DEF AskedAfter
  <2>1. i > 1 /\ i - 1 > j
    BY <1>3, <1>5
  <2> QED
    BY <1>6, <2>1 DEF AskedAfter
<1>9. \A r : (Exempt(r))' <=> Exempt(r)
  BY <1>1 DEF Exempt
<1>10. Covered'
  <2> SUFFICES ASSUME linked, NEW r \in setup.probed, ~ Exempt(r)
               PROVE  /\ running' = "probe" => (Asked(r))'
                      /\ \A j \in DOMAIN rx' : rx'[j].do = "probe" => (AskedAfter(r, j))'
    BY <1>1, <1>9 DEF Covered
  <2>1. \A j \in DOMAIN rx : rx[j].do = "probe" => AskedAfter(r, j)
    BY DEF QInv, Covered
  <2>2. running' = "probe" => (Asked(r))'
    <3>1. running' = "probe" => m.do = "probe" /\ 1 \in DOMAIN rx
      BY <1>3, <1>4
    <3> QED
      BY <1>3, <1>7, <2>1, <3>1
  <2> QED
    BY <1>5, <1>8, <2>1, <2>2
<1>11. ASSUME NEW r \in Regs PROVE (Answered(r))'
  <2> SUFFICES ASSUME linked, r \in known, r \notin modified, ~ Exempt(r)
               PROVE  (Asked(r))' \/ (Printed(r))' \/ val'[r] = reg'[r]
    BY <1>1, <1>9 DEF Answered
  <2>1. CASE About(m, r)
    <3>1. PICK i \in DOMAIN Answer(m, reg') : Answer(m, reg')[i].is = "reg" /\ Answer(m, reg')[i].reg = r
      BY <1>4, <2>1, AnswerLines
    <3>2. i + 1 \in DOMAIN Printout(m, reg') /\ Printout(m, reg')[i + 1] = Answer(m, reg')[i]
      <4> HIDE DEF m
      <4>1. m \in Requests /\ reg' \in [Regs -> Values]
        BY <1>4
      <4> QED
        BY <4>1, <3>1, PromptAndAnswer
    <3>3. lines' = Printout(m, reg')
      BY <1>4 DEF PrintsLines
    <3> QED
      BY <3>1, <3>2, <3>3 DEF Printed
  <2>2. CASE ~ About(m, r)
    <3>1. reg'[r] = reg[r] /\ val'[r] = val[r]
      BY <1>1, <1>4, <2>2 DEF About
    <3>2. ~ Printed(r)
      BY <1>1 DEF Printed
    <3>3. Asked(r) => AskedAfter(r, 1)
      BY <1>3, <2>2 DEF Asked, AskedAfter
    <3> QED
      BY <1>7, <3>1, <3>2, <3>3 DEF QInv, Answered
  <2> QED
    BY <2>1, <2>2
<1> QED
  BY <1>10, <1>11

LEMMA QuietCommand ==
  ASSUME QInv, CommandPrints \/ CommandEnds
  PROVE  Covered' /\ \A r \in Regs : (Answered(r))'
<1>1. UNCHANGED <<setup, linked, known, val, modified, onefetch, missed, rx>>
  BY DEF CommandPrints, CommandEnds, link, table
<1>2. \A r : ((Exempt(r))' <=> Exempt(r)) /\ ((Asked(r))' <=> Asked(r)) /\ \A j : (AskedAfter(r, j))' <=> AskedAfter(r, j)
  BY <1>1 DEF Exempt, Asked, AskedAfter
<1>3. CASE CommandPrints
  <2>1. running' = running /\ reg' = reg /\ \A r : ~ Printed(r)
    BY <1>3 DEF CommandPrints, shell, Listens, Printed
  <2> QED
    BY <1>1, <1>2, <2>1 DEF QInv, Covered, Answered
<1>4. CASE CommandEnds
  <2>1. running' = "none" /\ lines' = lines
    BY <1>4 DEF CommandEnds
  <2>2. Covered'
    BY <1>1, <1>2, <2>1 DEF QInv, Covered
  <2>3. ASSUME NEW r \in Regs PROVE (Answered(r))'
    <3>1. (Printed(r))' <=> Printed(r)
      BY <2>1 DEF Printed
    <3>2. CASE reg'[r] = reg[r]
      BY <1>1, <1>2, <3>1, <3>2 DEF QInv, Answered
    <3>3. CASE reg'[r] # reg[r]
      <4>1. running = "probe" /\ r \in setup.probed
        BY <1>4, <3>3 DEF CommandEnds
      <4> QED
        BY <1>1, <1>2, <4>1 DEF QInv, Covered, Answered
    <3> QED
      BY <3>2, <3>3
  <2> QED
    BY <2>2, <2>3
<1> QED
  BY <1>3, <1>4

LEMMA QuietTake ==
  ASSUME QInv, TakeLine
  PROVE  Covered' /\ \A r \in Regs : (Answered(r))'
<1> DEFINE l == Head(lines)
<1>1. UNCHANGED <<setup, linked, onefetch, missed, rx, reg, running>>
  BY DEF TakeLine, TakePrompt, TakeReg, table, shell
<1>2. \A r : ((Exempt(r))' <=> Exempt(r)) /\ ((Asked(r))' <=> Asked(r)) /\ \A j : (AskedAfter(r, j))' <=> AskedAfter(r, j)
  BY <1>1 DEF Exempt, Asked, AskedAfter
<1>3. Covered'
  BY <1>1, <1>2 DEF QInv, Covered
<1>4. /\ l = lines[1] /\ 1 \in DOMAIN lines /\ l \in Lines
      /\ \A i \in DOMAIN lines : i # 1 => i - 1 \in DOMAIN lines' /\ lines'[i - 1] = lines[i]
  BY LineTaken DEF QInv, LInv
<1>5. \A r : Printed(r) /\ ~ (l.is = "reg" /\ l.reg = r) => (Printed(r))'
  <2> SUFFICES ASSUME NEW r, NEW i \in DOMAIN lines, lines[i].is = "reg", lines[i].reg = r,
                      ~ (l.is = "reg" /\ l.reg = r)
               PROVE  (Printed(r))'
    BY DEF Printed
  <2>1. i # 1
    BY <1>4
  <2> QED
    BY <1>4, <2>1 DEF Printed
<1>6. CASE ~ OfReg(l)
  <2>1. table' = table
    BY <1>6 DEF TakeLine, TakePrompt, OfReg, table
  <2>2. UNCHANGED <<known, modified, val>>
    BY <2>1 DEF table
  <2> QED
    BY <1>1, <1>2, <1>3, <1>5, <1>6, <2>2 DEF QInv, Answered, OfReg
<1>7. CASE OfReg(l)
  <2>1. TakeReg(l) /\ l.reg \in Regs
    BY <1>4, <1>7, LineFields DEF TakeLine, OfReg
  <2>2. val \in [Regs -> Values \cup {NoValue}]
    BY DEF QInv, LInv, IInv, TableTypes
  <2>3. ASSUME NEW r \in Regs, r # l.reg PROVE (Answered(r))'
    <3>1. (r \in known' <=> r \in known) /\ (r \in modified' <=> r \in modified) /\ val'[r] = val[r]
      BY <2>1, <2>2, <2>3 DEF TakeReg
    <3> QED
      BY <1>1, <1>2, <1>5, <2>3, <3>1 DEF QInv, Answered
  <2>4. CASE l.is = "reg"
    <3>1. l.value = reg[l.reg]
      BY <1>4, <1>7 DEF QInv, LInv, OneAnswer
    <3>2. val'[l.reg] = reg'[l.reg]
      BY <1>1, <2>1, <2>2, <2>4, <3>1 DEF TakeReg, Shown
    <3> QED
      BY <1>3, <2>3, <3>2 DEF Answered
  <2>5. CASE l.is = "hidden"
    <3>1. 1 + 1 \in DOMAIN lines /\ lines[1 + 1] = RegLine(l.reg, reg)
      BY <1>4, <2>5 DEF QInv, LInv, OneAnswer
    <3>2. 1 \in DOMAIN lines' /\ lines'[1] = lines[1 + 1]
      BY <1>4, <3>1
    <3>3. \A r : r = l.reg => (Printed(r))'
      BY <3>1, <3>2 DEF Printed, RegLine
    <3> QED
      BY <1>3, <2>3, <3>3 DEF Answered
  <2> QED
    BY <1>7, <2>4, <2>5 DEF OfReg
<1> QED
  BY <1>3, <1>6, <1>7

LEMMA NothingSent ==
  ASSUME IInv, UNCHANGED rx
  PROVE  Longer /\ \A i \in Len(rx) + 1 .. Len(rx') : FALSE
BY DEF IInv, RxTypes, Longer

LEMMA QuietFetch ==
  ASSUME QInv, EndFetch
  PROVE  Covered' /\ \A r \in Regs : (Answered(r))'
<1>1. CASE linked' # TRUE
  BY <1>1 DEF Covered, Answered
<1>2. CASE linked'
  <2>1. IInv
    BY DEF QInv, LInv
  <2>2. UNCHANGED <<setup, linked, known, val, modified, onefetch, missed, reg, running, lines>>
        /\ (KeepAlive \/ UNCHANGED rx)
    BY <1>2 DEF EndFetch, Closed, link, table, shell
  <2>3. Longer /\ \A i \in Len(rx) + 1 .. Len(rx') : rx'[i].do # "probe"
    <3>1. CASE UNCHANGED rx
      BY <2>1, <3>1, NothingSent
    <3>2. CASE KeepAlive
      <4>1. /\ RxTypes' /\ Len(rx) <= Len(rx') /\ \A i \in 1 .. Len(rx) : rx'[i] = rx[i]
            /\ \A i \in Len(rx) + 1 .. Len(rx') : rx'[i].do = "info"
        BY <2>1, <2>2, <3>2, KeepAliveSends
      <4> QED
        BY <2>1, <4>1 DEF IInv, RxTypes, Longer
    <3> QED
      BY <2>2, <3>1, <3>2
  <2>4. \A r : (Exempt(r))' <=> Exempt(r)
    BY <2>2 DEF Exempt
  <2> QED
    BY <2>2, <2>3, <2>4, SendKeeps
<1> QED
  BY <1>1, <1>2

LEMMA QuietOpen ==
  ASSUME QInv, LinkOpen
  PROVE  Covered' /\ \A r \in Regs : (Answered(r))'
<1>1. IInv /\ known = {} /\ known' = known
  BY DEF QInv, LInv, Closing, LinkOpen, table
<1>2. \A r \in Regs : (Answered(r))'
  BY <1>1 DEF Answered
<1>3. setup' = setup /\ setup.probed \subseteq Regs
  BY <1>1, SetupFields DEF LinkOpen, ToPush, IInv
<1>4. PICK k \in Taken(Greeting) :
        Send(Greeting, k) /\ missed' = IF k = 1 /\ drops' = drops THEN {} ELSE Regs
  BY DEF LinkOpen
<1>5. CASE missed' = Regs
  BY <1>2, <1>3, <1>5 DEF Covered, Exempt
<1>6. CASE k = 1 /\ drops' = drops
  <2>1. Greeting \in Seq(Requests) /\ Len(Greeting) = 1 /\ Greeting[1].do = "open"
    BY RequestForms DEF Greeting
  <2> DEFINE n == Len(Arrived(Greeting, k))
  <2>2. /\ RxTypes' /\ n \in 0 .. k /\ Len(rx') = Len(rx) + n
        /\ \A i \in 1 .. Len(rx) : rx'[i] = rx[i]
        /\ \A i \in 1 .. n : rx'[Len(rx) + i] = Greeting[i]
    BY <1>1, <1>3, <1>4, <2>1, Arrives
  <2>3. drops' = drops + k - n /\ drops \in Nat
    BY <1>1, <1>4 DEF Send, IInv, RxTypes
  <2>4. Len(rx) \in Nat /\ rx \in Seq(Requests)
    BY <1>1 DEF IInv, RxTypes
  <2> HIDE DEF n
  <2>5. n = 1
    BY <1>6, <2>2, <2>3
  <2>6. Longer
    BY <2>2, <2>4, <2>5 DEF RxTypes, Longer
  <2>7. Len(rx) + 1 \in Len(rx) + 1 .. Len(rx') /\ rx'[Len(rx) + 1].do = "open"
    BY <2>1, <2>2, <2>4, <2>5
  <2>8. \A r : (Asked(r))' /\ \A j \in DOMAIN rx : (AskedAfter(r, j))'
    BY <2>6, <2>7, AskedLast DEF About
  <2>9. \A j \in DOMAIN rx' : j \in DOMAIN rx \/ j = Len(rx) + 1
    BY <2>2, <2>4, <2>5, <2>6, StillAsked
  <2> QED
    BY <1>2, <2>7, <2>8, <2>9 DEF Covered
<1> QED
  BY <1>2, <1>4, <1>5, <1>6

LEMMA QuietDraw ==
  ASSUME QInv, EditsApart, Draw
  PROVE  Covered' /\ \A r \in Regs : (Answered(r))'
<1>1. IInv /\ ~ setup.sameFrame
  BY DEF QInv, LInv, IInv, EditsApart
<1>2. CASE LinkOpen
  BY <1>2, QuietOpen
<1>3. CASE LinkClose
  BY <1>3 DEF LinkClose, Closed, Covered, Answered
<1>4. ASSUME ToPush, UNCHANGED <<linked, rx, lines, missed>>,
             \A r \in setup.probed : r \in onefetch => r \in onefetch',
             \A r \in Regs : r \in known' /\ r \notin modified' => r \in known /\ r \notin modified /\ val'[r] = val[r]
      PROVE  Covered' /\ \A r \in Regs : (Answered(r))'
  <2>1. UNCHANGED <<setup, reg, running>>
    BY <1>4 DEF ToPush
  <2>2. \A r \in setup.probed : Exempt(r) => (Exempt(r))'
    BY <1>4, <2>1 DEF Exempt
  <2> QED
    BY <1>1, <1>4, <2>1, <2>2, NothingSent, SendKeeps
<1>5. CASE Nothing \/ ShowPopup \/ Dismiss
  <2>1. ToPush /\ UNCHANGED <<linked, rx, lines, missed, onefetch, known, modified, val>>
    BY <1>5 DEF Nothing, ShowPopup, Dismiss, link, table
  <2> QED
    BY <1>4, <2>1
<1>6. ASSUME NEW q \in Regs, NEW v \in Values, Edit(q, v)
      PROVE  Covered' /\ \A r \in Regs : (Answered(r))'
  <2>1. /\ ToPush /\ UNCHANGED <<linked, rx, lines, missed, onefetch, known>>
        /\ q \notin fetched /\ modified' = modified \cup {q} /\ val' = [val EXCEPT ![q] = v]
    BY <1>1, <1>6 DEF Edit, link
  <2>2. \A r \in Regs : r # q => val'[r] = val[r]
    BY <1>1, <2>1 DEF IInv, TableTypes
  <2> QED
    BY <1>4, <2>1, <2>2
<1>7. ASSUME NEW q \in Regs, Refresh(q)
      PROVE  Covered' /\ \A r \in Regs : (Answered(r))'
  <2>1. ToPush /\ UNCHANGED <<linked, rx, lines, missed, known, modified, val>> /\ onefetch \subseteq onefetch'
    BY <1>7 DEF Refresh, link
  <2> QED
    BY <1>4, <2>1
<1>8. ASSUME NEW c \in Commands, Command(c)
      PROVE  Covered' /\ \A r \in Regs : (Answered(r))'
  <2>1. /\ setup' = setup /\ RxTypes' /\ Len(rx') \in {Len(rx), Len(rx) + 1}
        /\ Len(rx') = Len(rx) + 1 => rx'[Len(rx) + 1].do = c
        /\ \A i \in 1 .. Len(rx) : rx'[i] = rx[i]
    BY <1>1, <1>8, CommandSends
  <2>2. UNCHANGED <<linked, reg, running, lines, known, modified, val>> /\ missed \subseteq missed' /\ onefetch \subseteq onefetch'
    BY <1>8 DEF Command, ToPush
  <2>3. Len(rx) \in Nat /\ rx \in Seq(Requests)
    BY <1>1 DEF IInv, RxTypes
  <2>4. Longer
    BY <2>1, <2>3 DEF RxTypes, Longer
  <2>5. \A j \in Len(rx) + 1 .. Len(rx') : rx'[j].do = c
    BY <2>1, <2>3
  <2>6. \A r \in setup.probed : Exempt(r) => (Exempt(r))'
    BY <2>1, <2>2 DEF Exempt
  <2>7. c = "probe" => \A r \in setup.probed : (Exempt(r))'
    BY <1>8, <2>1 DEF Command, Exempt
  <2> QED
    BY <2>1, <2>2, <2>4, <2>5, <2>6, <2>7, SendKeeps
<1> QED
  BY <1>2, <1>3, <1>5, <1>6, <1>7, <1>8 DEF Draw

LEMMA QuietPushReg ==
  ASSUME QInv, EditsApart, PushReg
  PROVE  Covered' /\ \A r \in Regs : (Answered(r))'
<1>1. IInv /\ setup.edits \cap setup.probed = {}
  BY DEF QInv, LInv, IInv, EditsApart
<1>2. PICK s \in Seq(Requests), k \in Nat : PushSends(s, k)
  BY <1>1, PushRegSends
<1>3. UNCHANGED <<setup, linked, known, val, modified, lines, reg, running>>
  BY <1>1, PushRegSends
<1> DEFINE n == Len(Arrived(s, k))
<1>4. reg_ID \in Regs /\ Len(rx) \in Nat /\ rx \in Seq(Requests)
  BY <1>1 DEF IInv, PushTypes, RxTypes
<1>5. /\ RxTypes' /\ k \in 0 .. Len(s) /\ n \in 0 .. k /\ Len(rx') = Len(rx) + n
      /\ \A i \in 1 .. Len(rx) : rx'[i] = rx[i]
      /\ \A i \in 1 .. n : Arrived(s, k)[i] = s[i] /\ rx'[Len(rx) + i] = s[i]
  BY <1>1, <1>2, <1>3, Arrives DEF PushSends
<1>6. DOMAIN Arrived(s, k) = 1 .. n
  <2>1. Arrived(s, k) = SubSeq(s, 1, IF k <= Free THEN k ELSE Free)
    BY DEF Arrived
  <2>2. Free \in Nat /\ k \in 0 .. Len(s)
    BY <1>1, <1>5, Sizes DEF IInv, RxTypes, Free
  <2>3. (IF k <= Free THEN k ELSE Free) \in 0 .. Len(s)
    BY <2>2
  <2> QED
    BY <2>1, <2>3
<1>7. s = (IF queued[reg_ID] = NotQueued THEN Wanted(reg_ID) ELSE <<>>)
  BY <1>2 DEF PushSends
<1>8. \A i \in DOMAIN s : s[i].do \in {"set", "get", "enum"}
  <2>1. CASE s = <<>>
    BY <2>1
  <2>2. CASE s = Wanted(reg_ID)
    BY <1>1, <1>4, <2>2, WantedRequests
  <2> QED
    BY <1>7, <2>1, <2>2
<1> HIDE DEF n
<1>9. Longer /\ \A j \in Len(rx) + 1 .. Len(rx') : \E i \in DOMAIN s : rx'[j] = s[i]
  BY <1>1, <1>2, <1>3, SendAdds DEF PushSends
<1>10. \A j \in Len(rx) + 1 .. Len(rx') : rx'[j].do # "probe"
  BY <1>8, <1>9
<1>11. ASSUME NEW r \in setup.probed, Exempt(r)
       PROVE  (Exempt(r))' \/ \E i \in Len(rx) + 1 .. Len(rx') : About(rx'[i], r)
  <2>1. missed \subseteq missed' /\ r \in setup'.probed
    BY <1>2, <1>3 DEF PushSends
  <2>2. CASE r \in missed \/ r \in onefetch'
    BY <2>1, <2>2 DEF Exempt
  <2>3. CASE r \in onefetch /\ r \notin onefetch'
    <3>1. r = reg_ID /\ Due(r) /\ queued[reg_ID] = NotQueued /\ s = Wanted(r)
      BY <1>2, <1>7, <2>3 DEF PushSends, Unmarked
    <3>2. r \notin modified
      BY <1>1 DEF QInv
    <3>3. Len(s) > 0 /\ s[1].do = "get" /\ s[1].reg = r /\ 1 \in DOMAIN s
      <4>1. /\ s \in Seq(Requests) /\ Len(s) > 0 /\ s[1].do = "get" /\ \A i \in DOMAIN s : s[i].reg = r
        BY <1>1, <1>4, <3>1, <3>2, WantedRequests
      <4> QED
        BY <4>1
    <3>4. CASE n = 0
      <4>1. Ids(Arrived(s, k), "get") = {}
        BY <1>6, <3>4 DEF Ids
      <4>2. r \in Ids(s, "get")
        BY <3>3 DEF Ids
      <4> QED
        BY <1>2, <2>1, <4>1, <4>2 DEF PushSends, Exempt
    <3>5. CASE n # 0
      <4>1. 1 \in 1 .. n /\ Len(rx) + 1 \in Len(rx) + 1 .. Len(rx')
        BY <1>4, <1>5, <3>5
      <4>2. About(rx'[Len(rx) + 1], r)
        BY <1>5, <3>3, <4>1 DEF About
      <4> QED
        BY <4>1, <4>2
    <3> QED
      BY <3>4, <3>5
  <2> QED
    BY <1>11, <2>2, <2>3 DEF Exempt
<1> QED
  BY <1>3, <1>9, <1>10, <1>11, SendKeeps

LEMMA QuietStep ==
  ASSUME QInv, EditsApart, [Next]_vars
  PROVE  QInv'
<1>1. LInv' /\ IInv
  BY LinesStep DEF QInv, LInv
<1>2. modified' \subseteq setup'.edits
  <2>1. CASE TakeLine
    BY <2>1 DEF QInv, TakeLine, TakePrompt, TakeReg, table
  <2>2. CASE EndFetch
    BY <2>2 DEF QInv, EndFetch, Closed, table
  <2>3. CASE Draw
    <3>1. setup' = setup
      BY <2>3, ProgramSteps
    <3>2. modified' = modified \/ modified' = {} \/ \E r \in setup.edits : modified' \subseteq modified \cup {r}
      BY <2>3 DEF Draw, Nothing, ShowPopup, Dismiss, LinkOpen, LinkClose, Refresh, Edit, Command, Closed, table
    <3> QED
      BY <3>1, <3>2 DEF QInv
  <2>4. CASE PushNothing \/ PushReg
    BY <2>4 DEF QInv, PushNothing, PushReg
  <2>5. CASE Evaluate \/ CommandPrints \/ CommandEnds \/ UNCHANGED vars
    BY <2>5 DEF QInv, Evaluate, CommandPrints, CommandEnds, vars, table
  <2> QED
    BY <2>1, <2>2, <2>3, <2>4, <2>5 DEF Next, Frame
<1>3. Covered' /\ \A r \in Regs : (Answered(r))'
  <2>1. CASE PushNothing
    <3>1. UNCHANGED <<setup, linked, reg, running, lines, rx, known, modified, val, onefetch, missed>>
      BY <2>1 DEF PushNothing, shell
    <3>2. \A r : (Exempt(r))' <=> Exempt(r)
      BY <3>1 DEF Exempt
    <3> QED
      BY <1>1, <3>1, <3>2, NothingSent, SendKeeps
  <2>2. CASE UNCHANGED vars
    <3>1. UNCHANGED <<setup, linked, reg, running, lines, rx, known, modified, val, onefetch, missed>>
      BY <2>2 DEF vars, link, table, shell
    <3>2. \A r : (Exempt(r))' <=> Exempt(r)
      BY <3>1 DEF Exempt
    <3> QED
      BY <1>1, <3>1, <3>2, NothingSent, SendKeeps
  <2> QED
    BY <2>1, <2>2, QuietEvaluate, QuietCommand, QuietTake, QuietFetch, QuietDraw, QuietPushReg DEF Next, Frame
<1> QED
  BY <1>1, <1>2, <1>3 DEF QInv

\* Edits, polls, probes, repeated and lost requests in any number: when all that was
\* sent is answered the table shows what the controller holds.
THEOREM QuietCorrect ==
  ASSUME EditsApart
  PROVE  Spec => []QuietIsTrue
<1>1. Init => QInv
  <2> SUFFICES ASSUME Init PROVE QInv
    OBVIOUS
  <2>1. LInv
    BY InitTypes DEF Init, LInv, OneAnswer, Closing
  <2> QED
    BY <2>1 DEF Init, QInv, Covered, Answered
<1>2. QInv => QuietIsTrue
  <2> SUFFICES ASSUME QInv, Still, NEW r \in (known \ modified) \ onefetch, r \in setup.probed => r \notin missed
               PROVE  val[r] = reg[r]
    BY DEF QuietIsTrue
  <2>1. r \in Regs
    BY DEF QInv, LInv, IInv, TableTypes
  <2>2. ~ Asked(r) /\ ~ Printed(r) /\ ~ Exempt(r)
    BY DEF Still, Asked, Printed, Exempt
  <2> QED
    BY <2>1, <2>2 DEF QInv, Answered, Still
<1>3. QInv /\ [Next]_vars => QInv'
  BY QuietStep
<1> QED
  BY <1>1, <1>2, <1>3, PTL DEF Spec

-----------------------------------------------------------------------------
(* Commands *)

\* At most one command waits in the queue or runs, and only it is pending or followed.
\* The prompt that would report it as over is not on its way: before it runs only
\* prompts of other lines are, and once it is followed none.
Given ==
  alone =>
    /\ \A i, j \in DOMAIN rx : rx[i].do \in Commands /\ rx[j].do \in Commands => i = j
    /\ running # "none" => \A i \in DOMAIN rx : rx[i].do \notin Commands
    /\ running = "none" =>
         /\ command_state \in {"PENDING", "NONE"}
         /\ \A i \in DOMAIN lines : lines[i].is = "prompt" => lines[i].of \notin Commands
    /\ command_state \in {"RUNING", "WAITING"} => \A i \in DOMAIN lines : lines[i].is # "prompt"

\* A step that gives no command, ends none and prints nothing for one.
LEMMA GivenKept ==
  ASSUME Given, UNCHANGED running, alone' => alone,
         \/ command_state' \in {command_state, "NONE"}
         \/ command_state = "RUNING" /\ command_state' = "WAITING",
         \A i \in DOMAIN rx' : rx'[i].do \in Commands => i \in DOMAIN rx /\ rx'[i] = rx[i],
         \A i \in DOMAIN lines' : lines'[i].is = "prompt" => i \in DOMAIN lines /\ lines'[i] = lines[i]
  PROVE  Given'
<1> SUFFICES ASSUME alone' PROVE Given'
  BY DEF Given
<1>1. /\ \A i, j \in DOMAIN rx : rx[i].do \in Commands /\ rx[j].do \in Commands => i = j
      /\ running # "none" => \A i \in DOMAIN rx : rx[i].do \notin Commands
      /\ running = "none" =>
           /\ command_state \in {"PENDING", "NONE"}
           /\ \A i \in DOMAIN lines : lines[i].is = "prompt" => lines[i].of \notin Commands
      /\ command_state \in {"RUNING", "WAITING"} => \A i \in DOMAIN lines : lines[i].is # "prompt"
  BY DEF Given
<1>2. \A i, j \in DOMAIN rx' : rx'[i].do \in Commands /\ rx'[j].do \in Commands => i = j
  BY <1>1
<1>3. running' # "none" => \A i \in DOMAIN rx' : rx'[i].do \notin Commands
  BY <1>1
<1>4. running' = "none" =>
        /\ command_state' \in {"PENDING", "NONE"}
        /\ \A i \in DOMAIN lines' : lines'[i].is = "prompt" => lines'[i].of \notin Commands
  BY <1>1
<1>5. command_state' \in {"RUNING", "WAITING"} => \A i \in DOMAIN lines' : lines'[i].is # "prompt"
  BY <1>1
<1> QED
  BY <1>2, <1>3, <1>4, <1>5 DEF Given

\* Requests follow those that were there, and none of them is a command.
LEMMA NoCommandSent ==
  ASSUME Longer, \A j \in Len(rx) + 1 .. Len(rx') : rx'[j].do \notin Commands
  PROVE  \A i \in DOMAIN rx' : rx'[i].do \in Commands => i \in DOMAIN rx /\ rx'[i] = rx[i]
<1>1. /\ DOMAIN rx = 1 .. Len(rx) /\ DOMAIN rx' = 1 .. Len(rx') /\ Len(rx) \in Nat /\ Len(rx') \in Nat
      /\ \A i \in 1 .. Len(rx) : rx'[i] = rx[i]
  BY DEF Longer
<1>2. \A i \in 1 .. Len(rx') : i \in 1 .. Len(rx) \/ i \in Len(rx) + 1 .. Len(rx')
  BY <1>1
<1> QED
  BY <1>1, <1>2

LEMMA GivenEvaluate ==
  ASSUME LInv, Given, Evaluate
  PROVE  Given'
<1> SUFFICES ASSUME alone' PROVE Given'
  BY DEF Given
<1> DEFINE m == Head(rx)
<1>1. IInv /\ running = "none" /\ alone /\ UNCHANGED command_state
  BY DEF LInv, Evaluate, shell, link
<1>2. /\ rx # <<>> /\ m \in Requests /\ rx' \in Seq(Requests) /\ Len(rx') = Len(rx) - 1
      /\ \A i \in 1 .. Len(rx') : rx'[i] = rx[i + 1]
      /\ reg' \in [Regs -> Values] /\ PrintsLines(Printout(m, reg'))
      /\ running' = IF m.do \in Commands THEN m.do ELSE "none"
  BY <1>1, Evaluated
<1>3. rx \in Seq(Requests) /\ Len(rx) \in Nat \ {0} /\ DOMAIN rx = 1 .. Len(rx) /\ rx[1] = m /\ 1 \in DOMAIN rx
  BY <1>1, <1>2 DEF IInv, RxTypes
<1>4. \A i \in DOMAIN rx' : i \in Nat \ {0} /\ i + 1 \in DOMAIN rx /\ rx'[i] = rx[i + 1]
  <2>1. DOMAIN rx' = 1 .. Len(rx) - 1
    BY <1>2
  <2>2. \A i \in 1 .. Len(rx) - 1 : i \in Nat \ {0} /\ i + 1 \in 1 .. Len(rx)
    BY <1>3
  <2> QED
    BY <1>2, <1>3, <2>1, <2>2
<1>5. command_state' \in {"PENDING", "NONE"}
  BY <1>1 DEF Given
<1>6. \A i, j \in DOMAIN rx : rx[i].do \in Commands /\ rx[j].do \in Commands => i = j
  BY <1>1 DEF Given
<1> HIDE DEF m
<1>7. \A i, j \in DOMAIN rx' : rx'[i].do \in Commands /\ rx'[j].do \in Commands => i = j
  <2> SUFFICES ASSUME NEW i \in DOMAIN rx', NEW j \in DOMAIN rx', rx'[i].do \in Commands, rx'[j].do \in Commands
               PROVE  i = j
    OBVIOUS
  <2>1. i \in Nat /\ j \in Nat /\ i + 1 = j + 1
    BY <1>4, <1>6
  <2> QED
    BY <2>1
<1>8. running' # "none" => \A i \in DOMAIN rx' : rx'[i].do \notin Commands
  <2> SUFFICES ASSUME m.do \in Commands, NEW i \in DOMAIN rx', rx'[i].do \in Commands
               PROVE  FALSE
    BY <1>2
  <2>1. i \in Nat \ {0} /\ i + 1 = 1
    BY <1>3, <1>4, <1>6
  <2> QED
    BY <2>1
<1>9. running' = "none" => \A i \in DOMAIN lines' : lines'[i].is = "prompt" => lines'[i].of \notin Commands
  <2> SUFFICES ASSUME m.do \notin Commands, NEW i \in DOMAIN lines', lines'[i].is = "prompt"
               PROVE  lines'[i].of \notin Commands
    BY <1>2 DEF Commands
  <2>1. i = 1
    <3>1. LInv'
      BY LinesStep DEF Next
    <3> QED
      BY <3>1 DEF LInv, OneAnswer
  <2>2. lines' = Printout(m, reg')
    BY <1>2 DEF PrintsLines
  <2>3. lines'[1] = [is |-> "prompt", of |-> m.do]
    BY <1>2, <2>2, PromptAndAnswer
  <2> QED
    BY <2>1, <2>3
<1> QED
  BY <1>5, <1>7, <1>8, <1>9 DEF Given

LEMMA GivenTake ==
  ASSUME LInv, Given, TakeLine
  PROVE  Given'
<1> DEFINE l == Head(lines)
<1>1. UNCHANGED <<rx, running, alone>>
  BY DEF TakeLine, shell
<1>2. /\ 1 \in DOMAIN lines /\ l = lines[1]
      /\ \A i \in DOMAIN lines' : i \in Nat \ {0} /\ i + 1 \in DOMAIN lines /\ lines'[i] = lines[i + 1]
  BY LineTaken DEF LInv
<1>3. \A i \in DOMAIN lines' : lines'[i].is # "prompt"
  BY <1>2 DEF LInv, OneAnswer
<1>4. CASE l.is # "prompt"
  <2>1. UNCHANGED command_state
    BY <1>4 DEF TakeLine, TakeReg
  <2> QED
    BY <1>1, <1>3, <2>1, GivenKept
<1>5. CASE l.is = "prompt"
  <2>1. command_state' = AfterPrompt(ModeOf(l.of))
    BY <1>5 DEF TakeLine, TakePrompt
  <2>2. CASE alone /\ running = "none"
    <3>1. command_state \in {"PENDING", "NONE"} /\ l.of \notin Commands
      BY <1>2, <1>5, <2>2 DEF Given
    <3>2. ModeOf(l.of) # "COMMAND"
      BY <3>1 DEF ModeOf, Commands
    <3>3. command_state' = command_state
      BY <2>1, <3>1, <3>2 DEF AfterPrompt
    <3> QED
      BY <1>1, <1>3, <3>3, GivenKept
  <2>3. CASE alone /\ running # "none"
    BY <1>1, <1>3, <2>3 DEF Given
  <2>4. CASE ~ alone
    BY <1>1, <2>4 DEF Given
  <2> QED
    BY <2>2, <2>3, <2>4
<1> QED
  BY <1>4, <1>5

LEMMA GivenCommand ==
  ASSUME LInv, Given, NEW c \in Commands, Command(c)
  PROVE  Given'
<1> SUFFICES ASSUME alone' PROVE Given'
  BY DEF Given
<1>1. ~ UnderWay /\ c # "grab"
  BY DEF Command
<1>2. /\ running = "none" /\ \A i \in DOMAIN rx : rx[i].do \notin Commands
      /\ \A i \in DOMAIN lines : lines[i].is = "prompt" => lines[i].of \notin Commands
  BY <1>1 DEF UnderWay
<1>3. command_state' = "PENDING" /\ UNCHANGED <<lines, running>>
  BY <1>1 DEF Command, ToPush
<1>4. /\ rx' \in Seq(Requests) /\ Len(rx') \in {Len(rx), Len(rx) + 1}
      /\ \A i \in 1 .. Len(rx) : rx'[i] = rx[i]
  BY CommandSends DEF LInv, RxTypes
<1>5. rx \in Seq(Requests) /\ Len(rx) \in Nat
  BY DEF LInv, IInv, RxTypes
<1>6. \A i \in DOMAIN rx' : (i \in DOMAIN rx /\ rx'[i] = rx[i]) \/ i = Len(rx) + 1
  BY <1>4, <1>5
<1>7. \A i, j \in DOMAIN rx' : rx'[i].do \in Commands /\ rx'[j].do \in Commands => i = j
  BY <1>2, <1>6
<1> QED
  BY <1>2, <1>3, <1>7 DEF Given

LEMMA GivenStep ==
  ASSUME LInv, Given, [Next]_vars
  PROVE  Given'
<1>1. IInv
  BY DEF LInv
<1>2. ASSUME UNCHANGED <<rx, lines, running, alone>>,
             \/ command_state' \in {command_state, "NONE"}
             \/ command_state = "RUNING" /\ command_state' = "WAITING"
      PROVE  Given'
  BY <1>2, GivenKept
<1>3. CASE CommandPrints
  <2>1. lines' = << [is |-> "text"] >> /\ UNCHANGED <<rx, running, alone, command_state>>
    BY <1>3 DEF CommandPrints, PrintsLines, shell, link
  <2>2. \A i \in DOMAIN lines' : lines'[i].is # "prompt"
    BY <2>1
  <2> QED
    BY <2>1, <2>2, GivenKept
<1>4. CASE CommandEnds
  BY <1>4 DEF CommandEnds, Given
<1>5. CASE EndFetch
  <2>1. /\ UNCHANGED <<running, alone>> /\ lines' \in {lines, <<>>}
        /\ command_state' \in {command_state, "NONE"} /\ (KeepAlive \/ UNCHANGED rx) /\ setup' = setup
    BY <1>5 DEF EndFetch, Closed, shell, link
  <2>2. CASE UNCHANGED rx
    BY <2>1, <2>2, GivenKept
  <2>3. CASE KeepAlive
    <3>1. /\ RxTypes' /\ Len(rx) <= Len(rx') /\ \A i \in 1 .. Len(rx) : rx'[i] = rx[i]
          /\ \A i \in Len(rx) + 1 .. Len(rx') : rx'[i].do = "info"
      BY <1>1, <2>1, <2>3, KeepAliveSends
    <3>2. Longer /\ \A i \in Len(rx) + 1 .. Len(rx') : rx'[i].do \notin Commands
      BY <1>1, <3>1 DEF IInv, RxTypes, Longer, Commands
    <3>3. \A i \in DOMAIN rx' : rx'[i].do \in Commands => i \in DOMAIN rx /\ rx'[i] = rx[i]
      BY <3>2, NoCommandSent
    <3> QED
      BY <2>1, <3>3, GivenKept
  <2> QED
    BY <2>1, <2>2, <2>3
<1>6. CASE Draw
  <2>1. CASE Nothing \/ ShowPopup \/ Dismiss \/ LinkClose
    <3>1. UNCHANGED <<rx, running, alone>> /\ lines' \in {lines, <<>>}
      BY <2>1 DEF Nothing, ShowPopup, Dismiss, LinkClose, Closed, ToPush
    <3>2. \/ command_state' \in {command_state, "NONE"}
          \/ command_state = "RUNING" /\ command_state' = "WAITING"
      BY <2>1 DEF Nothing, ShowPopup, Dismiss, LinkClose, Closed, link
    <3> QED
      BY <3>1, <3>2, GivenKept
  <2>2. CASE LinkOpen
    <3>1. PICK k \in Taken(Greeting) : Send(Greeting, k)
      BY <2>2 DEF LinkOpen
    <3>2. UNCHANGED <<setup, command_state, lines, running, alone>>
      BY <2>2 DEF LinkOpen, ToPush
    <3>3. Greeting \in Seq(Requests) /\ \A i \in DOMAIN Greeting : Greeting[i].do \notin Commands
      BY RequestForms DEF Greeting, Commands
    <3>4. Longer /\ \A j \in Len(rx) + 1 .. Len(rx') : \E i \in DOMAIN Greeting : rx'[j] = Greeting[i]
      BY <1>1, <3>1, <3>2, <3>3, SendAdds
    <3>5. \A i \in DOMAIN rx' : rx'[i].do \in Commands => i \in DOMAIN rx /\ rx'[i] = rx[i]
      BY <3>3, <3>4, NoCommandSent
    <3> QED
      BY <3>2, <3>5, GivenKept
  <2>3. CASE \E r \in Regs : Refresh(r) \/ \E v \in Values : Edit(r, v)
    BY <1>2, <2>3 DEF Refresh, Edit, ToPush, link
  <2> QED
    BY <1>6, <2>1, <2>2, <2>3, GivenCommand DEF Draw
<1>7. CASE PushNothing
  BY <1>2, <1>7 DEF PushNothing, shell
<1>8. CASE PushReg
  <2>1. PICK s \in Seq(Requests), k \in Nat : PushSends(s, k)
    BY <1>1, <1>8, PushRegSends
  <2>2. UNCHANGED <<setup, command_state, lines, running, alone>> /\ reg_ID \in Regs
    BY <1>1, <1>8, PushRegSends DEF IInv, PushTypes
  <2>3. s \in {Wanted(reg_ID), <<>>} /\ k \in Taken(s) /\ Send(s, k)
    BY <2>1 DEF PushSends
  <2>4. \A i \in DOMAIN s : s[i].do \notin Commands
    BY <1>1, <2>2, <2>3, WantedRequests DEF Commands
  <2>5. Longer /\ \A j \in Len(rx) + 1 .. Len(rx') : \E i \in DOMAIN s : rx'[j] = s[i]
    BY <1>1, <2>2, <2>3, SendAdds
  <2>6. \A i \in DOMAIN rx' : rx'[i].do \in Commands => i \in DOMAIN rx /\ rx'[i] = rx[i]
    BY <2>4, <2>5, NoCommandSent
  <2> QED
    BY <2>2, <2>6, GivenKept
<1>9. CASE UNCHANGED vars
  BY <1>2, <1>9 DEF vars, shell, link
<1> QED
  BY <1>3, <1>4, <1>5, <1>6, <1>7, <1>8, <1>9, GivenEvaluate, GivenTake DEF Next, Frame

\* However requests, answers and losses fall, a command that was given while none was
\* under way is not reported as over while it waits or runs.
THEOREM DoneCorrect == Spec => DoneIsDone
<1> DEFINE Reported == linked' /\ at = "fetch" /\ alone => ~ (command_state # "NONE" /\ command_state' = "NONE")
<1>1. Init => LInv /\ Given
  <2> SUFFICES ASSUME Init PROVE LInv /\ Given
    OBVIOUS
  <2> QED
    BY InitTypes DEF Init, LInv, OneAnswer, Closing, Given
<1>2. LInv /\ Given /\ [Next]_vars => LInv' /\ Given'
  BY LinesStep, GivenStep
<1>3. LInv /\ Given /\ [Next]_vars => [Reported]_vars
  <2> SUFFICES ASSUME LInv, Given, Next, linked', at = "fetch", alone, command_state # "NONE", command_state' = "NONE"
               PROVE  FALSE
    OBVIOUS
  <2>1. CASE TakeLine
    <3> DEFINE l == Head(lines)
    <3>1. l.is = "prompt" /\ command_state' = AfterPrompt(ModeOf(l.of))
      BY <2>1 DEF TakeLine, TakePrompt, TakeReg
    <3>2. 1 \in DOMAIN lines /\ l = lines[1]
      BY <2>1, LineTaken DEF LInv
    <3>3. command_state \notin {"RUNING", "WAITING"}
      BY <3>1, <3>2 DEF Given
    <3> QED
      BY <3>1, <3>3 DEF AfterPrompt
  <2>2. CASE EndFetch
    BY <2>2 DEF EndFetch, Closed, link
  <2>3. CASE Draw \/ PushNothing \/ PushReg
    BY <2>3 DEF Draw, Nothing, ShowPopup, Dismiss, LinkOpen, LinkClose, Refresh, Edit, Command, ToPush,
       PushNothing, PushReg
  <2>4. CASE Evaluate \/ CommandPrints \/ CommandEnds
    BY <2>4 DEF Evaluate, CommandPrints, CommandEnds, link
  <2> QED
    BY <2>1, <2>2, <2>3, <2>4 DEF Next, Frame
<1> QED
  BY <1>1, <1>2, <1>3, PTL DEF Spec, DoneIsDone
=============================================================================
