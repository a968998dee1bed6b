----------------------------- MODULE TlmProofs -----------------------------
(***************************************************************************)
(* Proofs about Tlm, for every size of the memory and every choice of      *)
(* registers and rates.                                                    *)
(***************************************************************************)
EXTENDS Tlm, TLAPS

InRing(l) == l = 0 \/ l < length_MAX

Unread(r) == reader[r].on # "off"

\* What holds at the places of the shell: nothing is recorded while a start or a
\* flush is at work, and a stream begins when the readers of the last one are gone.
Control ==
  /\ at \in {"configure", "enable", "flush"} => mode = "DISABLED"
  /\ at # "flush" => pos = 0 /\ kept = 0
  /\ Unread("shell") => at = "stream"
  /\ at \in {"configure", "enable"} /\ goal.mode = "STREAM" => \A r \in Readers : ~ Unread(r)
  /\ at = "enable" => late = 0

\* Registers that were chosen since the last start do no harm to what is recorded,
\* for the ring was left at its beginning and nobody reads it.
Settled ==
  \/ layout_N = chosen
  \/ line = 0 /\ mode = "DISABLED" /\ at # "enable" /\ \A r \in Readers : ~ Unread(r)

\* The writer, the flush and the readers are at lines of the ring.
Ring ==
  /\ length_MAX = Length(layout_N)
  /\ InRing(line) /\ InRing(pos) /\ \A r \in Readers : InRing(reader[r].line)
  /\ \A r \in Readers : ~ Unread(r) => reader[r].line = 0

IInv == TypeOK /\ Control /\ (~ Relayout => Settled /\ Ring)

USE TlmAssumption

-----------------------------------------------------------------------------
\* The length that tlm_startup computes is that of a ring that fits in the memory.
LEMMA LengthFits ==
  ASSUME NEW n \in Layouts \cup {0}
  PROVE  /\ Length(n) \in 0 .. DataMax /\ Length(n) * n <= DataMax
         /\ n # 0 => Length(n) > 0
<1>1. CASE n = 0
  BY <1>1 DEF Length
<1>2. CASE n # 0
  <2>1. n \in Nat /\ n > 0 /\ n <= DataMax /\ DataMax \in Nat
    BY <1>2
  <2>2. DataMax \div n \in Nat /\ (DataMax \div n) * n <= DataMax
    BY <2>1, Z3
  <2>3. DataMax \div n <= DataMax
    BY <2>1, <2>2, Z3
  <2>4. DataMax \div n > 0
    BY <2>1, Z3
  <2> QED
    BY <1>2, <2>2, <2>3, <2>4 DEF Length
<1> QED
  BY <1>1, <1>2

\* The lines of a ring are in the memory.
LEMMA LineInMemory ==
  ASSUME TypeOK, Ring, NEW l \in Nat, InRing(l)
  PROVE  Cells(l) \subseteq 0 .. DataMax - 1
<1>1. /\ layout_N \in Nat /\ layout_N <= DataMax /\ length_MAX \in Nat /\ DataMax \in Nat
      /\ length_MAX * layout_N <= DataMax
  BY LengthFits DEF TypeOK, Ring
<1>2. CASE l = 0
  BY <1>1, <1>2 DEF Cells
<1>3. CASE l < length_MAX
  <2>1. l * layout_N \in Nat
    BY <1>1, Z3
  <2>2. l * layout_N + layout_N = (l + 1) * layout_N
    BY <1>1, Z3
  <2>3. (l + 1) * layout_N <= length_MAX * layout_N
    <3> DEFINE m == l + 1
    <3>1. m \in Nat /\ m <= length_MAX
      BY <1>1, <1>3
    <3> HIDE DEF m
    <3>2. m * layout_N <= length_MAX * layout_N
      BY <1>1, <3>1, Z3
    <3> QED
      BY <3>2 DEF m
  <2> QED
    BY <1>1, <2>1, <2>2, <2>3 DEF Cells
<1> QED
  BY <1>2, <1>3 DEF InRing

\* The line after one is a line of the ring, whatever ring it was a line of.
LEMMA NextInRing ==
  ASSUME TypeOK, NEW l \in 0 .. DataMax - 1
  PROVE  NextLine(l) \in 0 .. DataMax - 1 /\ InRing(NextLine(l))
BY DEF TypeOK, NextLine, InRing

-----------------------------------------------------------------------------
(* Types and the places of the lines *)

LEMMA InitIInv == Init => IInv
<1> SUFFICES ASSUME Init PROVE IInv
  OBVIOUS
<1>1. TypeOK
  <2>1. /\ rdata \in [0 .. DataMax - 1 -> Ages] /\ last \in [Readers -> Ages]
        /\ unread \in [Readers -> 0 .. DataMax]
    BY DEF Init, Ages
  <2>2. reader \in [Readers -> [on : {"off", "new", "on"}, line : 0 .. DataMax - 1]]
    BY DEF Init
  <2>3. goal \in [mode : Modes, reader : Readers \cup {"none"}]
    BY DEF Init, Modes
  <2>4. fsm_errno \in BOOLEAN /\ inside \in BOOLEAN /\ inOrder \in BOOLEAN
    BY DEF Init
  <2>5. /\ mode \in Modes /\ at \in Labels /\ chosen \in Layouts
        /\ layout_N = 0 /\ length_MAX = 0 /\ rate = 0 /\ clock = 0 /\ skip = 0
        /\ line = 0 /\ pos = 0 /\ kept = 0 /\ fresh = 0 /\ late = 0
    BY DEF Init, Modes, Labels
  <2> QED
    BY <2>1, <2>2, <2>3, <2>4, <2>5 DEF TypeOK
<1>2. Control
  BY DEF Init, Control, Unread, Readers
<1>3. Settled /\ Ring
  BY LengthFits DEF Init, Settled, Ring, Unread, InRing, Length
<1> QED
  BY <1>1, <1>2, <1>3 DEF IInv

LEMMA OlderAge == 0 \in Ages /\ Old \in Ages /\ \A a \in Ages : Older(a) \in Ages
BY DEF Ages, Older, UpTo

LEMMA GrabIInv == IInv /\ Grab => IInv'
<1> SUFFICES ASSUME IInv, Grab PROVE IInv'
  OBVIOUS
<1>1. TypeOK /\ Control /\ (~ Relayout => Settled /\ Ring) /\ mode # "DISABLED"
  BY DEF IInv, Grab
<1>2. line' \in 0 .. DataMax - 1 /\ (line' = line \/ InRing(line'))
  BY <1>1, NextInRing DEF Grab, CountLine, WriterLine, TypeOK
<1>3. TypeOK'
  <2>1. rdata' \in [0 .. DataMax - 1 -> Ages]
    <3>1. CASE skip = 0
      <4>1. \A c \in 0 .. DataMax - 1 : Older(rdata[c]) \in Ages
        BY <1>1, OlderAge DEF TypeOK
      <4>2. rdata' = [c \in 0 .. DataMax - 1 |-> IF c \in Cells(line) THEN 0 ELSE Older(rdata[c])]
        BY <1>1, <3>1 DEF Grab, Record, TypeOK
      <4> QED
        BY <4>1, <4>2, OlderAge
    <3> QED
      BY <1>1, <3>1 DEF Grab, Record, TypeOK
  <2>2. last' \in [Readers -> Ages]
    <3>1. CASE skip = 0
      <4>1. \A r \in Readers : Older(last[r]) \in Ages
        BY <1>1, OlderAge DEF TypeOK
      <4>2. last' = [r \in Readers |-> Older(last[r])]
        BY <3>1 DEF Grab, Record
      <4> QED
        BY <4>1, <4>2
    <3> QED
      BY <1>1, <3>1 DEF Grab, Record, TypeOK
  <2>3. inside' \in BOOLEAN
    BY <1>1 DEF Grab, Record, TypeOK
  <2>4. late' \in 0 .. 2
    BY <1>1 DEF Grab, Record, UpTo, TypeOK
  <2>5. /\ mode' \in Modes /\ skip' \in Nat /\ (skip' = 0 \/ skip' < rate)
        /\ clock' \in 0 .. length_MAX /\ fresh' \in 0 .. length_MAX
    BY <1>1 DEF Grab, CountLine, UpTo, Modes, TypeOK
  <2>6. unread' \in [Readers -> 0 .. DataMax]
    <3>1. CASE skip + 1 >= rate
      BY <1>1, <3>1 DEF Grab, CountLine, UpTo, TypeOK
    <3> QED
      BY <1>1, <3>1 DEF Grab, CountLine, TypeOK
  <2>7. ~ Relayout => line' = 0 \/ line' < length_MAX
    BY <1>1, <1>2 DEF InRing, Ring
  <2> QED
    BY <1>1, <1>2, <2>1, <2>2, <2>3, <2>4, <2>5, <2>6, <2>7 DEF Grab, TypeOK, shell, outside
<1>4. Control'
  BY <1>1 DEF Grab, Control, Unread, Record, CountLine, shell
<1>5. ~ Relayout => Settled' /\ Ring'
  BY <1>1, <1>2 DEF Grab, Settled, Ring, InRing, Unread, shell, outside
<1> QED
  BY <1>3, <1>4, <1>5 DEF IInv

LEMMA DisableIInv ==
  ASSUME IInv, Ready,
         NEW g \in [mode : Modes, reader : Readers \cup {"none"}], Disable(g),
         g.mode = "STREAM" => mode = "DISABLED"
  PROVE  IInv'
<1> USE DEF Ready, Disable
<1>1. TypeOK /\ Control /\ (~ Relayout => Settled /\ Ring)
  BY DEF IInv
<1>2. g.mode = "STREAM" => \A r \in Readers : ~ Unread(r)
  BY <1>1 DEF Control, Unread, Readers
<1>3. TypeOK'
  BY <1>1 DEF TypeOK, Modes, Labels, outside, history, reading
<1>4. Control'
  BY <1>1, <1>2 DEF Control, Unread, outside, history, reading
<1>5. ~ Relayout => Settled' /\ Ring'
  BY <1>1 DEF Settled, Ring, InRing, Unread, outside, history, reading
<1> QED
  BY <1>3, <1>4, <1>5 DEF IInv

LEMMA StartIInv ==
  ASSUME IInv, TlmGrab \/ TlmWatch \/ \E who \in Readers : TlmStream(who)
  PROVE  IInv'
<1>1. CASE TlmGrab
  BY <1>1, DisableIInv DEF TlmGrab, Modes
<1>2. CASE TlmWatch
  BY <1>2, DisableIInv DEF TlmWatch, Modes
<1>3. CASE \E who \in Readers : TlmStream(who)
  BY <1>3, DisableIInv DEF TlmStream, Modes
<1> QED
  BY <1>1, <1>2, <1>3

LEMMA ConfigureIInv == IInv /\ Configure => IInv'
<1> SUFFICES ASSUME IInv, Configure PROVE IInv'
  OBVIOUS
<1> USE DEF Configure
<1>1. TypeOK /\ Control /\ (~ Relayout => Settled /\ Ring)
  BY DEF IInv
<1>2. Length(chosen) \in 0 .. DataMax
  BY <1>1, LengthFits DEF TypeOK
<1>3. ~ Relayout => Settled' /\ Ring'
  BY <1>1, <1>2 DEF Settled, Ring, InRing, Unread, Control, outside, reading
<1>4. TypeOK'
  BY <1>1, <1>2, <1>3 DEF TypeOK, Labels, Ring, InRing, outside, reading
<1>5. Control'
  BY <1>1 DEF Control, Unread, outside, reading
<1> QED
  BY <1>3, <1>4, <1>5 DEF IInv

LEMMA EnableIInv == IInv /\ Enable => IInv'
<1> SUFFICES ASSUME IInv, Enable PROVE IInv'
  OBVIOUS
<1> USE DEF Enable
<1>1. TypeOK /\ Control /\ (~ Relayout => Settled /\ Ring)
  BY DEF IInv
<1>2. /\ reader' \in [Readers -> [on : {"off", "new", "on"}, line : 0 .. DataMax - 1]]
      /\ \A r \in Readers : /\ reader'[r].line = reader[r].line
                           /\ (Unread(r))' => Unread(r) \/ r = goal.reader
  <2>1. \A r \in Readers : reader[r] \in [on : {"off", "new", "on"}, line : 0 .. DataMax - 1]
    BY <1>1 DEF TypeOK
  <2>2. \A r \in Readers : /\ [reader[r] EXCEPT !.on = "new"] \in [on : {"off", "new", "on"}, line : 0 .. DataMax - 1]
                           /\ [reader[r] EXCEPT !.on = "new"].line = reader[r].line
    BY <2>1
  <2> QED
    BY <2>1, <2>2 DEF Unread
<1>3. TypeOK'
  <2>1. mode' \in Modes /\ goal' \in [mode : Modes, reader : Readers \cup {"none"}]
    BY <1>1 DEF TypeOK
  <2> QED
    BY <1>1, <1>2, <2>1 DEF TypeOK, Labels, outside, history
<1>4. Control'
  BY <1>1, <1>2 DEF Control, Unread, Readers, TypeOK, outside, history
<1>5. ~ Relayout => Settled' /\ Ring'
  BY <1>1, <1>2 DEF Settled, Ring, InRing, Unread, TypeOK, outside, history
<1> QED
  BY <1>3, <1>4, <1>5 DEF IInv

LEMMA StopIInv == IInv /\ TlmStop => IInv'
<1> SUFFICES ASSUME IInv, TlmStop PROVE IInv'
  OBVIOUS
<1> USE DEF TlmStop, Ready
<1>1. TypeOK /\ Control /\ (~ Relayout => Settled /\ Ring)
  BY DEF IInv
<1>3. TypeOK'
  BY <1>1 DEF TypeOK, Modes, Labels, Readers, tlm, shell, outside, history, reading
<1>4. Control'
  BY <1>1 DEF Control, Unread, Readers, TypeOK, tlm, shell, outside, history, reading
<1>5. ~ Relayout => Settled' /\ Ring'
  BY <1>1 DEF Settled, Ring, InRing, Unread, Readers, TypeOK, tlm, shell, outside, history, reading
<1> QED
  BY <1>3, <1>4, <1>5 DEF IInv

LEMMA CleanIInv == IInv /\ TlmClean => IInv'
<1> SUFFICES ASSUME IInv, TlmClean PROVE IInv'
  OBVIOUS
<1> USE DEF TlmClean, Ready
<1>1. TypeOK /\ Control /\ (~ Relayout => Settled /\ Ring)
  BY DEF IInv
<1>3. TypeOK'
  <2>1. rdata' \in [0 .. DataMax - 1 -> Ages]
    BY <1>1 DEF TypeOK, Ages
  <2> QED
    <3>1. /\ mode' \in Modes /\ clock' = 0 /\ skip' = 0 /\ line' = 0 /\ fresh' = 0
          /\ UNCHANGED <<layout_N, length_MAX, rate, shell, outside, late, reading, inside>>
      BY DEF Modes
    <3> HIDE DEF TlmClean
    <3> QED
      BY <1>1, <2>1, <3>1 DEF TypeOK, shell, outside, reading
<1>4. Control'
  BY <1>1 DEF Control, Unread, Readers, TypeOK, tlm, shell, outside, history, reading
<1>5. ~ Relayout => Settled' /\ Ring'
  BY <1>1 DEF Settled, Ring, InRing, Unread, Readers, TypeOK, tlm, shell, outside, history, reading
<1> QED
  BY <1>3, <1>4, <1>5 DEF IInv

LEMMA FlushIInv == IInv /\ Flush => IInv'
<1> SUFFICES ASSUME IInv, Flush PROVE IInv'
  OBVIOUS
<1> USE DEF Flush, Ready, FirstOfRing
<1>1. TypeOK /\ Control /\ (~ Relayout => Settled /\ Ring)
  BY DEF IInv
<1>3. TypeOK'
  BY <1>1 DEF TypeOK, Modes, Labels, Readers, tlm, shell, outside, history, reading
<1>4. Control'
  BY <1>1 DEF Control, Unread, Readers, TypeOK, tlm, shell, outside, history, reading
<1>5. ~ Relayout => Settled' /\ Ring'
  BY <1>1 DEF Settled, Ring, InRing, Unread, Readers, TypeOK, tlm, shell, outside, history, reading
<1> QED
  BY <1>3, <1>4, <1>5 DEF IInv

LEMMA FlushLineIInv == IInv /\ FlushLine => IInv'
<1> SUFFICES ASSUME IInv, FlushLine PROVE IInv'
  OBVIOUS
<1> USE DEF FlushLine
<1>1. TypeOK /\ Control /\ (~ Relayout => Settled /\ Ring)
  BY DEF IInv
<1>2. NextLine(pos) \in 0 .. DataMax - 1 /\ InRing(NextLine(pos))
  BY <1>1, NextInRing DEF TypeOK
<1>3. TypeOK'
  <2>1. inside' \in BOOLEAN
    OBVIOUS
  <2> QED
    BY <1>1, <1>2, <2>1 DEF TypeOK, Labels, UpTo, tlm, outside, history, reading
<1>4. Control'
  BY <1>1 DEF Control, Unread, tlm, outside, history, reading
<1>5. ~ Relayout => Settled' /\ Ring'
  BY <1>1, <1>2 DEF Settled, Ring, InRing, Unread, tlm, outside, history, reading
<1> QED
  BY <1>3, <1>4, <1>5 DEF IInv

LEMMA OffKeeps ==
  ASSUME TypeOK, NEW r \in Readers, Off(r)
  PROVE  /\ reader' \in [Readers -> [on : {"off", "new", "on"}, line : 0 .. DataMax - 1]]
         /\ last' \in [Readers -> Ages] /\ unread' \in [Readers -> 0 .. DataMax]
         /\ ~ (Unread(r))' /\ reader'[r].line = 0
         /\ \A q \in Readers \ {r} : reader'[q] = reader[q]
BY DEF TypeOK, Off, Ages, Unread

LEMMA KeyIInv == IInv /\ Key => IInv'
<1> SUFFICES ASSUME IInv, Key PROVE IInv'
  OBVIOUS
<1> USE DEF Key
<1>1. TypeOK /\ Control /\ (~ Relayout => Settled /\ Ring)
  BY DEF IInv
<1>3. TypeOK'
  <2>1. CASE at = "stream"
    <3>1. "shell" \in Readers
      BY DEF Readers
    <3>2. /\ at' \in Labels /\ mode' \in Modes /\ pos' = 0 /\ kept' = 0
          /\ Off("shell") /\ UNCHANGED inOrder
      BY <2>1 DEF Labels, Modes, Off
    <3> QED
      BY <1>1, <2>1, <3>1, <3>2, OffKeeps DEF TypeOK, outside, history
  <2>2. CASE at = "flush"
    BY <1>1, <2>2 DEF TypeOK, Labels, outside, history, reading
  <2> QED
    BY <2>1, <2>2
<1>4. Control'
  <2>1. CASE at = "stream"
    BY <1>1, <2>1, OffKeeps DEF Control, Unread, Readers, outside, history
  <2>2. CASE at = "flush"
    BY <1>1, <2>2 DEF Control, Unread, outside, history, reading
  <2> QED
    BY <2>1, <2>2
<1>5. ~ Relayout => Settled' /\ Ring'
  <2>1. CASE at = "stream"
    <3>1. "shell" \in Readers
      BY DEF Readers
    <3> QED
      BY <1>1, <2>1, <3>1, OffKeeps DEF Settled, Ring, InRing, Unread, outside, history
  <2>2. CASE at = "flush"
    BY <1>1, <2>2 DEF Settled, Ring, InRing, Unread, outside, history, reading
  <2> QED
    BY <2>1, <2>2
<1> QED
  BY <1>3, <1>4, <1>5 DEF IInv

LEMMA NetEndsIInv == IInv /\ NetEnds => IInv'
<1> SUFFICES ASSUME IInv, NetEnds PROVE IInv'
  OBVIOUS
<1> USE DEF NetEnds
<1>1. TypeOK /\ Control /\ (~ Relayout => Settled /\ Ring)
  BY DEF IInv
<1>2. "net" \in Readers
  BY DEF Readers
<1>3. TypeOK'
  BY <1>1, <1>2, OffKeeps DEF TypeOK, Off, tlm, shell, outside, history
<1>4. Control'
  BY <1>1, <1>2, OffKeeps DEF Control, Unread, Readers, tlm, shell, outside, history
<1>5. ~ Relayout => Settled' /\ Ring'
  BY <1>1, <1>2, OffKeeps DEF Settled, Ring, InRing, Unread, tlm, shell, outside, history
<1> QED
  BY <1>3, <1>4, <1>5 DEF IInv

LEMMA ReaderIInv ==
  ASSUME IInv, NEW r \in Readers, ReaderStarts(r) \/ ReadLine(r)
  PROVE  IInv'
<1>1. TypeOK /\ Control /\ (~ Relayout => Settled /\ Ring)
  BY DEF IInv
<1>2. NextLine(reader[r].line) \in 0 .. DataMax - 1 /\ InRing(NextLine(reader[r].line))
  BY <1>1, NextInRing DEF TypeOK
<1> DEFINE Places == [on : {"off", "new", "on"}, line : 0 .. DataMax - 1]
<1>3. PICK place \in Places :
        /\ reader' = [reader EXCEPT ![r] = place]
        /\ place.on # "off" /\ Unread(r) /\ (place.line = line \/ InRing(place.line))
  <2>1. CASE ReaderStarts(r)
    <3>1. [on |-> "on", line |-> line] \in Places
      BY <1>1 DEF TypeOK
    <3> QED
      BY <2>1, <3>1 DEF ReaderStarts, Unread
  <2>2. CASE ReadLine(r)
    <3> DEFINE place == [reader[r] EXCEPT !.line = NextLine(reader[r].line)]
    <3>1. reader[r] \in Places
      BY <1>1 DEF TypeOK
    <3>2. place \in Places /\ place.on = reader[r].on /\ place.line = NextLine(reader[r].line)
      BY <1>2, <3>1
    <3>3. reader' = [reader EXCEPT ![r] = place]
      BY <2>2 DEF ReadLine, ReaderLine
    <3> QED
      BY <1>2, <2>2, <3>2, <3>3 DEF ReadLine, Unread
  <2> QED
    BY <2>1, <2>2
<1>4. reader' \in [Readers -> Places]
  BY <1>1, <1>3 DEF TypeOK
<1>5. /\ UNCHANGED <<at, mode, pos, kept, late, goal, line, layout_N, length_MAX, chosen>>
      /\ UNCHANGED <<tlm, shell, outside, history>>
  BY DEF ReaderStarts, ReadLine, tlm, shell, outside, history
<1>6. \A q \in Readers : (Unread(q))' <=> Unread(q)
  BY <1>1, <1>3 DEF TypeOK, Unread
<1>7. TypeOK'
  <2>1. last' \in [Readers -> Ages]
    <3>1. AgeOf(reader[r].line) \in Ages
      BY <1>1, OlderAge DEF TypeOK, AgeOf
    <3>2. PICK age \in Ages : last' = [last EXCEPT ![r] = age]
      BY <3>1, OlderAge DEF ReaderStarts, ReadLine
    <3> QED
      BY <1>1, <3>2 DEF TypeOK
  <2>2. unread' \in [Readers -> 0 .. DataMax]
    <3>1. unread[r] \in 0 .. DataMax /\ length_MAX \in 0 .. DataMax
      BY <1>1 DEF TypeOK
    <3>2. PICK u \in 0 .. DataMax : unread' = [unread EXCEPT ![r] = u]
      BY <3>1 DEF ReaderStarts, ReadLine
    <3> QED
      BY <1>1, <3>2 DEF TypeOK
  <2>3. inside' \in BOOLEAN /\ inOrder' \in BOOLEAN
    BY <1>1 DEF TypeOK, ReaderStarts, ReadLine
  <2> QED
    BY <1>1, <1>4, <1>5, <2>1, <2>2, <2>3 DEF TypeOK, tlm, shell, outside, history
<1>8. Control'
  BY <1>1, <1>5, <1>6 DEF Control, Readers
<1>9. ~ Relayout => Settled' /\ Ring'
  <2> SUFFICES ASSUME Settled, Ring PROVE Settled' /\ Ring'
    BY <1>1
  <2>1. Settled'
    BY <1>5, <1>6 DEF Settled
  <2>2. \A q \in Readers : InRing(reader'[q].line)
    BY <1>1, <1>3 DEF Ring, TypeOK
  <2>3. \A q \in Readers : ~ Unread(q) => reader'[q].line = 0
    BY <1>1, <1>3 DEF Ring, TypeOK
  <2>4. \A q \in Readers : (InRing(reader[q].line))'
    BY <1>5, <2>2 DEF InRing
  <2>5. \A q \in Readers : (~ Unread(q) => reader[q].line = 0)'
    BY <1>6, <2>3
  <2> QED
    BY <1>5, <2>1, <2>4, <2>5 DEF Ring, InRing
<1> QED
  BY <1>7, <1>8, <1>9 DEF IInv

LEMMA ChooseIInv == IInv /\ (\E n \in Layouts : Choose(n)) => IInv'
<1> SUFFICES ASSUME IInv, (\E n \in Layouts : Choose(n)) PROVE IInv'
  OBVIOUS
<1> USE DEF Choose
<1>1. TypeOK /\ Control /\ (~ Relayout => Settled /\ Ring)
  BY DEF IInv
<1>3. TypeOK'
  BY <1>1 DEF TypeOK, tlm, shell, history, reading
<1>4. Control'
  BY <1>1 DEF Control, Unread, tlm, shell, history, reading
<1>5. ~ Relayout => Settled' /\ Ring'
  BY <1>1 DEF Settled, Ring, InRing, Unread, tlm, shell, history, reading
<1> QED
  BY <1>3, <1>4, <1>5 DEF IInv

LEMMA FaultIInv == IInv /\ Fault => IInv'
<1> SUFFICES ASSUME IInv, Fault PROVE IInv'
  OBVIOUS
<1> USE DEF Fault
<1>1. TypeOK /\ Control /\ (~ Relayout => Settled /\ Ring)
  BY DEF IInv
<1>3. TypeOK'
  BY <1>1 DEF TypeOK, tlm, shell, reading
<1>4. Control'
  BY <1>1 DEF Control, Unread, tlm, shell, reading
<1>5. ~ Relayout => Settled' /\ Ring'
  BY <1>1 DEF Settled, Ring, InRing, Unread, tlm, shell, reading
<1> QED
  BY <1>3, <1>4, <1>5 DEF IInv

LEMMA StepIInv == IInv /\ [Next]_vars => IInv'
<1> SUFFICES ASSUME IInv, [Next]_vars PROVE IInv'
  OBVIOUS
<1>1. CASE UNCHANGED vars
  BY <1>1 DEF IInv, TypeOK, Control, Settled, Ring, InRing, Unread, vars, tlm, shell, outside,
              history, reading
<1>2. CASE Next
  BY <1>2, GrabIInv, StartIInv, ConfigureIInv, EnableIInv, StopIInv, CleanIInv, FlushIInv,
     FlushLineIInv, KeyIInv, NetEndsIInv, ReaderIInv, ChooseIInv, FaultIInv
     DEF Next, Command
<1> QED
  BY <1>1, <1>2

\* Every variable keeps its type, the writer's line included, whatever is started,
\* stopped, printed and read in whatever order.
THEOREM TypeCorrect == Spec => []TypeOK
<1>1. IInv => TypeOK
  BY DEF IInv
<1> QED
  BY InitIInv, StepIInv, <1>1, PTL DEF Spec

-----------------------------------------------------------------------------
(* A watch *)

\* A watch that has recorded a sample since the error is at work on its line.
LastLine == mode = "WATCH" /\ fsm_errno /\ late # 0 => late = 1 /\ skip # 0

LEMMA StepLastLine == IInv /\ LastLine /\ [Next]_vars => LastLine'
<1> SUFFICES ASSUME IInv, LastLine, [Next]_vars PROVE LastLine'
  OBVIOUS
<1>1. TypeOK /\ Control
  BY DEF IInv
<1>2. CASE Grab
  <2>1. /\ skip \in Nat /\ rate \in Nat /\ late \in 0 .. 2
        /\ UNCHANGED fsm_errno
    BY <1>1, <1>2 DEF TypeOK, Grab, outside
  <2>2. CASE skip = 0
    BY <1>2, <2>1, <2>2 DEF Grab, Record, CountLine, Tripped, UpTo, LastLine
  <2>3. CASE skip # 0
    BY <1>2, <2>1, <2>3 DEF Grab, Record, CountLine, Tripped, LastLine
  <2> QED
    BY <2>2, <2>3
<1>3. CASE Fault
  BY <1>3 DEF Fault, LastLine
<1>4. CASE Configure
  BY <1>4 DEF Configure, LastLine
<1>5. CASE Enable
  BY <1>1, <1>5 DEF Enable, Control, LastLine, history
<1>6. CASE mode' = "DISABLED"
  BY <1>6 DEF LastLine
<1>7. CASE UNCHANGED <<mode, fsm_errno, late, skip>>
  BY <1>7 DEF LastLine
<1>8. CASE Command
  BY <1>6, <1>7, <1>8 DEF Command, TlmGrab, TlmWatch, TlmStream, Disable, TlmStop, TlmClean, Flush,
                          Key, Choose, tlm, outside, history
<1>9. CASE UNCHANGED vars \/ FlushLine \/ NetEnds \/ \E r \in Readers : ReaderStarts(r) \/ ReadLine(r)
  BY <1>7, <1>9 DEF FlushLine, NetEnds, ReaderStarts, ReadLine, vars, tlm, outside, history
<1> QED
  BY <1>2, <1>3, <1>4, <1>5, <1>8, <1>9 DEF Next

\* A watch keeps what led to the error: at every rate it records at most one sample
\* after it, although the error may come and go, and a watch be started, at any time.
THEOREM WatchCorrect == Spec => []WatchKeepsError
<1>1. Init => LastLine
  BY DEF Init, LastLine
<1>2. IInv /\ LastLine => WatchKeepsError
  BY DEF IInv, TypeOK, LastLine, WatchKeepsError
<1> QED
  BY InitIInv, StepIInv, StepLastLine, <1>1, <1>2, PTL DEF Spec

-----------------------------------------------------------------------------
(* The memory *)

\* No register chosen anew without tlm_clean, no access outside the memory: every
\* sample is written, and every line printed or sent, within it, for every number
\* of registers and every line at which the last recording was left.
THEOREM MemoryKept == ~ Relayout => (Spec => []InMemory)
<1> SUFFICES ASSUME ~ Relayout PROVE Spec => []InMemory
  OBVIOUS
<1>1. Init => InMemory
  BY DEF Init, InMemory
<1>2. IInv /\ InMemory /\ [Next]_vars => InMemory'
  <2> SUFFICES ASSUME IInv, inside, [Next]_vars PROVE inside'
    BY DEF InMemory
  <2>1. TypeOK /\ Ring /\ DOMAIN rdata = 0 .. DataMax - 1
    BY DEF IInv, TypeOK
  <2>2. Cells(line) \subseteq DOMAIN rdata /\ Cells(pos) \subseteq DOMAIN rdata
    BY <2>1, LineInMemory DEF TypeOK, Ring
  <2>3. ASSUME NEW r \in Readers PROVE Cells(reader[r].line) \subseteq DOMAIN rdata
    BY <2>1, LineInMemory DEF TypeOK, Ring
  <2>4. CASE Grab
    BY <2>2, <2>4 DEF Grab, Record
  <2>5. CASE FlushLine
    BY <2>2, <2>5 DEF FlushLine
  <2>6. ASSUME NEW r \in Readers, ReadLine(r) PROVE inside'
    BY <2>3, <2>6 DEF ReadLine
  <2>7. CASE Command
    BY <2>7 DEF Command, TlmGrab, TlmWatch, TlmStream, Disable, TlmStop, TlmClean, Flush, Key, Choose
  <2>8. CASE Fault \/ Configure \/ Enable \/ NetEnds \/ (\E r \in Readers : ReaderStarts(r))
             \/ UNCHANGED vars
    BY <2>8 DEF Fault, Configure, Enable, NetEnds, ReaderStarts, vars
  <2> QED
    BY <2>4, <2>5, <2>6, <2>7, <2>8 DEF Next
<1> QED
  BY <1>1, <1>2, InitIInv, StepIInv, PTL DEF Spec

-----------------------------------------------------------------------------
(* The order of the samples *)

\* The line that was recorded d lines ago, and whether the sample of now is in the
\* line of now already.
Behind(d) == IF d <= line THEN line - d ELSE line - d + length_MAX
Lag == IF skip = 0 THEN 0 ELSE 1

\* The lines recorded since the start hold their samples, the oldest farthest behind.
Aged ==
  /\ skip # 0 => Holds(line, 0)
  /\ \A d \in 1 .. fresh : skip = 0 \/ d < length_MAX => Holds(Behind(d), d - 1 + Lag)

\* The flush is as far behind the writer as it has lines to print.
Flushing ==
  at = "flush" /\ length_MAX > 0 =>
    kept < length_MAX /\ pos = Behind(length_MAX - kept)

\* A reader is as far behind as it has lines to read, and has read the one before.
OnTheWay(r) ==
  reader[r].on = "on" /\ unread[r] < length_MAX =>
    /\ reader[r].line = Behind(unread[r]) /\ unread[r] <= fresh
    /\ last[r] \in {Old, unread[r] + Lag}

Streaming == goal.mode = "STREAM" => \A r \in Readers : OnTheWay(r)

OInv == IInv /\ Aged /\ Flushing /\ Streaming

LEMMA LinesOfRing ==
  ASSUME TypeOK, Ring
  PROVE  line \in Nat /\ length_MAX \in Nat /\ (line = 0 \/ line < length_MAX)
BY DEF TypeOK, Ring, InRing

LEMMA BehindInRing ==
  ASSUME TypeOK, Ring, NEW d \in 0 .. length_MAX, length_MAX > 0
  PROVE  Behind(d) \in 0 .. length_MAX - 1
<1> USE LinesOfRing
<1>1. CASE d <= line
  BY <1>1 DEF Behind
<1>2. CASE ~ d <= line
  BY <1>2 DEF Behind
<1> QED
  BY <1>1, <1>2

\* Nearer by one line, and farther when the writer goes on.
LEMMA NextIsNearer ==
  ASSUME TypeOK, Ring, NEW d \in 1 .. length_MAX
  PROVE  NextLine(Behind(d)) = Behind(d - 1)
<1> USE LinesOfRing
<1>1. CASE d <= line
  BY <1>1 DEF Behind, NextLine
<1>2. CASE d - 1 = line
  BY <1>2 DEF Behind, NextLine
<1>3. CASE d - 1 > line
  BY <1>3 DEF Behind, NextLine
<1> QED
  BY <1>1, <1>2, <1>3

LEMMA WriterGoesOn ==
  ASSUME TypeOK, Ring, line' = NextLine(line), length_MAX' = length_MAX,
         NEW d \in 0 .. length_MAX - 1
  PROVE  (Behind(d + 1))' = Behind(d)
<1> USE LinesOfRing
<1>1. (Behind(d + 1))' = IF d + 1 <= line' THEN line' - (d + 1) ELSE line' - (d + 1) + length_MAX
  BY DEF Behind
<1>2. CASE line < length_MAX - 1
  <2>1. line' = line + 1
    BY <1>2 DEF NextLine
  <2> QED
    BY <1>1, <1>2, <2>1 DEF Behind
<1>3. CASE ~ line < length_MAX - 1
  <2>1. line' = 0 /\ line = length_MAX - 1
    BY <1>3 DEF NextLine
  <2> QED
    BY <1>1, <2>1 DEF Behind
<1> QED
  BY <1>2, <1>3

LEMMA BehindIsAnother ==
  ASSUME TypeOK, Ring, NEW d \in 1 .. length_MAX - 1
  PROVE  Behind(d) # line
<1> USE LinesOfRing
<1>1. CASE d <= line
  BY <1>1 DEF Behind
<1>2. CASE ~ d <= line
  BY <1>2 DEF Behind
<1> QED
  BY <1>1, <1>2

LEMMA CellsDisjoint ==
  ASSUME layout_N \in Nat, NEW l \in Nat, NEW m \in Nat, l # m
  PROVE  Cells(l) \cap Cells(m) = {}
<1>1. ASSUME NEW i \in Nat, NEW j \in Nat, i < j
      PROVE  i * layout_N + layout_N <= j * layout_N
  <2> DEFINE k == j - i - 1
  <2>1. k \in Nat /\ j = i + 1 + k
    BY <1>1
  <2> HIDE DEF k
  <2>2. (i + 1 + k) * layout_N = i * layout_N + layout_N + k * layout_N
    BY <2>1, Z3
  <2>3. k * layout_N \in Nat
    BY <2>1, Z3
  <2>4. i * layout_N \in Nat
    BY Z3
  <2> QED
    BY <2>1, <2>2, <2>3, <2>4
<1>2. l * layout_N \in Nat /\ m * layout_N \in Nat
  BY Z3
<1>3. l < m \/ m < l
  OBVIOUS
<1>4. CASE l < m
  <2>1. l * layout_N + layout_N <= m * layout_N
    BY <1>1, <1>4
  <2> QED
    BY <1>2, <2>1 DEF Cells
<1>5. CASE m < l
  <2>1. m * layout_N + layout_N <= l * layout_N
    BY <1>1, <1>5
  <2> QED
    BY <1>2, <2>1 DEF Cells
<1> QED
  BY <1>3, <1>4, <1>5

\* A sample makes the others older, in whatever line of the ring they are.
LEMMA RecordedAges ==
  ASSUME TypeOK, Ring, Grab, skip = 0
  PROVE  /\ \A c \in Cells(line) : c \in DOMAIN rdata' /\ rdata'[c] = 0
         /\ \A l \in 0 .. DataMax - 1, age \in 0 .. Old - 1 :
              l # line /\ Holds(l, age) =>
                \A c \in Cells(l) : c \in DOMAIN rdata' /\ rdata'[c] = age + 1
<1>1. rdata' = [c \in 0 .. DataMax - 1 |-> IF c \in Cells(line) THEN 0 ELSE Older(rdata[c])]
  BY DEF Grab, Record, TypeOK
<1>2. Cells(line) \subseteq 0 .. DataMax - 1
  BY LineInMemory DEF TypeOK, Ring
<1>3. ASSUME NEW l \in 0 .. DataMax - 1, NEW age \in 0 .. Old - 1, l # line, Holds(l, age),
             NEW c \in Cells(l)
      PROVE  c \in DOMAIN rdata' /\ rdata'[c] = age + 1
  <2>1. c \notin Cells(line)
    BY <1>3, CellsDisjoint DEF TypeOK
  <2>2. c \in 0 .. DataMax - 1 /\ rdata[c] = age
    BY <1>3 DEF Holds, TypeOK
  <2>3. rdata'[c] = Older(age)
    BY <1>1, <2>1, <2>2
  <2> QED
    BY <1>1, <2>2, <2>3 DEF Older, UpTo
<1> QED
  BY <1>1, <1>2, <1>3

LEMMA GrabAged ==
  ASSUME IInv, Settled, Ring, Aged, Grab
  PROVE  Aged'
<1>1. TypeOK /\ layout_N' = layout_N /\ length_MAX' = length_MAX
  BY DEF IInv, Grab
<1>2. /\ fresh \in 0 .. length_MAX /\ length_MAX \in 0 .. DataMax /\ line \in 0 .. DataMax - 1
      /\ skip \in Nat /\ rate \in Nat
  BY <1>1 DEF TypeOK
<1>3. \A l : (Cells(l))' = Cells(l)
  BY <1>1 DEF Cells
<1> DEFINE HeldNext(l, age) == \A c \in Cells(l) : c \in DOMAIN rdata' /\ rdata'[c] = age
\* The line of now holds the sample of now, and the others have become older.
<1>4. HeldNext(line, 0)
  <2>1. CASE skip = 0
    BY <1>1, <2>1, RecordedAges
  <2>2. CASE skip # 0
    BY <2>2 DEF Aged, Holds, Grab, Record
  <2> QED
    BY <2>1, <2>2
<1>5. ASSUME NEW d \in 1 .. fresh, d < length_MAX
      PROVE  HeldNext(Behind(d), d)
  <2>1. Behind(d) \in 0 .. DataMax - 1 /\ Behind(d) # line
    BY <1>1, <1>2, <1>5, BehindInRing, BehindIsAnother
  <2>2. Holds(Behind(d), d - 1 + Lag)
    BY <1>5 DEF Aged
  <2>3. CASE skip = 0
    <3>1. d - 1 \in 0 .. Old - 1 /\ Holds(Behind(d), d - 1)
      BY <1>2, <1>5, <2>2, <2>3 DEF Lag
    <3>2. HeldNext(Behind(d), (d - 1) + 1)
      BY <1>1, <2>1, <2>3, <3>1, RecordedAges
    <3> QED
      BY <3>2
  <2>4. CASE skip # 0
    <3>1. Holds(Behind(d), d) /\ rdata' = rdata
      BY <2>2, <2>4 DEF Lag, Grab, Record
    <3> QED
      BY <3>1 DEF Holds
  <2> QED
    BY <2>3, <2>4
<1>6. CASE skip + 1 >= rate
  <2>1. /\ skip' = 0 /\ line' = NextLine(line) /\ fresh' = UpTo(length_MAX, fresh + 1)
    BY <1>6 DEF Grab, CountLine, WriterLine
  <2>2. ASSUME NEW d \in 1 .. fresh'
        PROVE  (Holds(Behind(d), d - 1 + Lag))'
    <3>1. d - 1 \in 0 .. length_MAX - 1 /\ d - 1 <= fresh
      BY <1>2, <2>1, <2>2 DEF UpTo
    <3>2. (Behind((d - 1) + 1))' = Behind(d - 1)
      BY <1>1, <2>1, <3>1, WriterGoesOn
    <3>3. (Behind(d))' = Behind(d - 1)
      BY <3>2
    <3>4. HeldNext(Behind(d - 1), d - 1)
      <4>1. CASE d = 1
        BY <1>2, <1>4, <4>1 DEF Behind
      <4>2. CASE d # 1
        <5> DEFINE e == d - 1
        <5>1. e \in 1 .. fresh /\ e < length_MAX
          BY <1>2, <3>1, <4>2
        <5> HIDE DEF e
        <5>2. HeldNext(Behind(e), e)
          BY <1>5, <5>1
        <5> QED
          BY <5>2 DEF e
      <4> QED
        BY <4>1, <4>2
    <3> QED
      BY <1>3, <2>1, <3>3, <3>4 DEF Holds, Lag
  <2> QED
    BY <2>1, <2>2 DEF Aged
<1>7. CASE ~ (skip + 1 >= rate)
  <2>1. /\ skip' = skip + 1 /\ UNCHANGED <<line, fresh>>
    BY <1>7 DEF Grab, CountLine
  <2>2. (Holds(line, 0))'
    BY <1>3, <1>4, <2>1 DEF Holds
  <2>3. ASSUME NEW d \in 1 .. fresh', d < length_MAX'
        PROVE  (Holds(Behind(d), d - 1 + Lag))'
    <3>1. (Behind(d))' = Behind(d) /\ (d - 1 + Lag)' = d
      BY <1>1, <1>2, <2>1 DEF Behind, Lag
    <3>2. HeldNext(Behind(d), d)
      BY <1>1, <1>5, <2>1, <2>3
    <3> QED
      BY <1>3, <3>1, <3>2 DEF Holds
  <2> QED
    BY <1>1, <1>2, <2>1, <2>2, <2>3 DEF Aged
<1> QED
  BY <1>6, <1>7

LEMMA GrabStreaming ==
  ASSUME IInv, Settled, Ring, Streaming, Grab
  PROVE  Streaming'
<1>1. TypeOK /\ length_MAX' = length_MAX /\ reader' = reader /\ goal' = goal
  BY DEF IInv, Grab, shell
<1>2. /\ fresh \in 0 .. length_MAX /\ length_MAX \in 0 .. DataMax /\ skip \in Nat /\ rate \in Nat
      /\ line \in 0 .. DataMax - 1
  BY <1>1 DEF TypeOK
<1> SUFFICES ASSUME goal.mode = "STREAM", NEW r \in Readers, reader[r].on = "on",
                    unread'[r] < length_MAX
             PROVE  /\ reader[r].line = (Behind(unread[r]))' /\ unread'[r] <= fresh'
                    /\ last'[r] \in {Old, (unread[r] + Lag)'}
  BY <1>1 DEF Streaming, OnTheWay
<1>3. unread[r] \in 0 .. DataMax /\ last[r] \in 0 .. Old
  BY <1>1 DEF TypeOK, Ages
<1>4. CASE skip + 1 >= rate
  <2>1. /\ skip' = 0 /\ line' = NextLine(line) /\ fresh' = UpTo(length_MAX, fresh + 1)
        /\ unread'[r] = UpTo(DataMax, unread[r] + 1)
    BY <1>1, <1>4 DEF Grab, CountLine, WriterLine
  <2>2. unread'[r] = unread[r] + 1 /\ unread[r] < length_MAX
    BY <1>2, <1>3, <2>1 DEF UpTo
  <2>3. reader[r].line = Behind(unread[r]) /\ unread[r] <= fresh /\ last[r] \in {Old, unread[r] + Lag}
    BY <2>2 DEF Streaming, OnTheWay
  <2>4. reader[r].line = (Behind(unread[r]))'
    <3> DEFINE u == unread[r]
    <3>1. u \in 0 .. length_MAX - 1 /\ unread'[r] = u + 1 /\ reader[r].line = Behind(u)
      BY <1>2, <1>3, <2>2, <2>3
    <3>2. IF u + 1 <= line' THEN line' - (u + 1) = Behind(u) ELSE line' - (u + 1) + length_MAX = Behind(u)
      BY <1>1, <1>2, <2>1, <3>1 DEF NextLine, Behind, Ring, InRing
    <3> QED
      BY <1>1, <3>1, <3>2 DEF Behind
  <2>5. last'[r] \in {Old, unread'[r]}
    <3>1. CASE skip = 0
      BY <1>1, <1>2, <1>3, <2>2, <2>3, <3>1 DEF Grab, Record, Older, UpTo, Lag
    <3>2. CASE skip # 0
      BY <2>2, <2>3, <3>2 DEF Grab, Record, Lag
    <3> QED
      BY <3>1, <3>2
  <2> QED
    BY <1>2, <1>3, <2>1, <2>2, <2>3, <2>4, <2>5 DEF Lag, UpTo
<1>5. CASE ~ (skip + 1 >= rate)
  <2>1. /\ skip' = skip + 1 /\ UNCHANGED <<line, fresh, unread>>
    BY <1>5 DEF Grab, CountLine
  <2>2. reader[r].line = Behind(unread[r]) /\ unread[r] <= fresh /\ last[r] \in {Old, unread[r] + Lag}
    BY <2>1 DEF Streaming, OnTheWay
  <2>3. last'[r] \in {Old, unread[r] + 1}
    <3>1. CASE skip = 0
      BY <1>1, <1>2, <1>3, <2>1, <2>2, <3>1 DEF Grab, Record, Older, UpTo, Lag
    <3>2. CASE skip # 0
      BY <2>2, <3>2 DEF Grab, Record, Lag
    <3> QED
      BY <3>1, <3>2
  <2> QED
    BY <1>1, <1>2, <2>1, <2>2, <2>3 DEF Behind, Lag
<1> QED
  BY <1>4, <1>5

\* A step that leaves the ring alone leaves its samples as old as they were.
LEMMA RingLeftAlone ==
  ASSUME UNCHANGED <<layout_N, length_MAX, skip, line, rdata, fresh>>
  PROVE  /\ Aged => Aged'
         /\ Flushing /\ (at' = "flush" => UNCHANGED <<at, pos, kept>>) => Flushing'
         /\ Streaming /\ UNCHANGED <<goal, reader, last, unread>> => Streaming'
<1>1. \A d : (Behind(d))' = Behind(d)
  BY DEF Behind
<1>2. Lag' = Lag /\ \A l, age : (Holds(l, age))' = Holds(l, age)
  BY DEF Lag, Holds, Cells
<1>3. Aged => Aged'
  BY <1>1, <1>2 DEF Aged
<1>4. Flushing /\ (at' = "flush" => UNCHANGED <<at, pos, kept>>) => Flushing'
  BY <1>1 DEF Flushing
<1>5. Streaming /\ UNCHANGED <<goal, reader, last, unread>> => Streaming'
  BY <1>1, <1>2 DEF Streaming, OnTheWay
<1> QED
  BY <1>3, <1>4, <1>5

\* The line a reader reads is one that was recorded while it streamed, and the sample
\* in it follows the one that the reader has.
LEMMA NextSample ==
  ASSUME OInv, Ring, NEW r \in Readers, goal.mode = "STREAM", reader[r].on = "on",
         reader[r].line # line, unread[r] < length_MAX
  PROVE  /\ unread[r] \in 1 .. fresh /\ layout_N > 0
         /\ Follows(r) /\ AgeOf(reader[r].line) = unread[r] - 1 + Lag
<1> DEFINE u == unread[r]
           l == reader[r].line
<1>1. TypeOK
  BY DEF OInv, IInv
<1>2. /\ fresh \in 0 .. length_MAX /\ length_MAX \in 0 .. DataMax /\ line \in 0 .. DataMax - 1
      /\ u \in 0 .. DataMax /\ skip \in Nat
  BY <1>1 DEF TypeOK
<1>3. /\ l = Behind(u) /\ u <= fresh /\ last[r] \in {Old, u + Lag}
  BY DEF OInv, Streaming, OnTheWay
<1>4. u \in 1 .. fresh
  BY <1>2, <1>3 DEF Behind
<1>5. layout_N > 0 /\ layout_N \in Nat
  BY <1>1, <1>2 DEF Ring, Length, TypeOK
<1> DEFINE a == u - 1 + Lag
<1>6. a \in Ages \ {Old}
  BY <1>2, <1>4 DEF Lag, Ages
<1>7. Holds(l, a)
  BY <1>3, <1>4 DEF OInv, Aged
<1>8. last[r] \in {a + 1, Old}
  BY <1>2, <1>3 DEF Lag
<1>9. Follows(r)
  BY <1>6, <1>7, <1>8 DEF Follows
<1>10. l * layout_N \in Cells(l)
  <2>1. l \in Nat
    BY <1>1 DEF TypeOK
  <2>2. l * layout_N \in Nat
    BY <1>5, <2>1, Z3
  <2> QED
    BY <1>5, <2>2 DEF Cells
<1>11. AgeOf(l) = a
  BY <1>7, <1>10 DEF Holds, AgeOf
<1> QED
  BY <1>4, <1>5, <1>9, <1>11

\* The reader goes to the next line, which is nearer to the writer.
LEMMA ReadStreaming ==
  ASSUME OInv, Ring, NEW r \in Readers, ReadLine(r)
  PROVE  Streaming'
<1>1. TypeOK /\ UNCHANGED <<goal, length_MAX, layout_N, line, skip, fresh>>
  BY DEF OInv, IInv, ReadLine, tlm, shell, history
<1>2. Lag' = Lag /\ \A d : (Behind(d))' = Behind(d)
  BY <1>1 DEF Lag, Behind
<1> SUFFICES ASSUME goal.mode = "STREAM", NEW q \in Readers PROVE (OnTheWay(q))'
  BY <1>1 DEF Streaming
<1>3. OnTheWay(q)
  BY DEF OInv, Streaming
<1>4. CASE q # r
  <2>1. reader'[q] = reader[q] /\ last'[q] = last[q] /\ unread'[q] = unread[q]
    BY <1>1, <1>4 DEF ReadLine, TypeOK
  <2> QED
    BY <1>1, <1>2, <1>3, <2>1 DEF OnTheWay
<1>5. CASE q = r
  <2> SUFFICES ASSUME unread'[r] < length_MAX
               PROVE  /\ reader'[r].line = Behind(unread'[r]) /\ unread'[r] <= fresh
                      /\ last'[r] \in {Old, unread'[r] + Lag}
    BY <1>1, <1>2, <1>5 DEF OnTheWay
  <2> DEFINE u == unread[r]
  <2>1. u \in 0 .. DataMax /\ fresh \in 0 .. length_MAX /\ length_MAX \in 0 .. DataMax
    BY <1>1 DEF TypeOK
  <2>2. unread'[r] = IF u \in 1 .. length_MAX - 1 THEN u - 1 ELSE u
    BY <1>1 DEF ReadLine, TypeOK
  <2>3. u < length_MAX
    BY <2>1, <2>2
  <2>4. u \in 1 .. fresh /\ AgeOf(reader[r].line) = u - 1 + Lag /\ reader[r].line = Behind(u)
    BY <1>3, <1>5, <2>3, NextSample DEF ReadLine, OnTheWay
  <2>5. unread'[r] = u - 1
    BY <2>1, <2>2, <2>3, <2>4
  <2>6. last'[r] = AgeOf(reader[r].line)
    BY <1>1, <2>3 DEF ReadLine, Promised, TypeOK
  <2>7. reader'[r].line = NextLine(reader[r].line)
    BY <1>1 DEF ReadLine, ReaderLine, TypeOK
  <2>8. NextLine(Behind(u)) = Behind(u - 1)
    BY <1>1, <2>1, <2>4, NextIsNearer
  <2> QED
    BY <2>1, <2>4, <2>5, <2>6, <2>7, <2>8
<1> QED
  BY <1>4, <1>5


LEMMA InitOInv == Init => OInv
<1> SUFFICES ASSUME Init PROVE OInv
  OBVIOUS
<1>1. IInv
  BY InitIInv
<1>2. Aged /\ Flushing /\ Streaming
  BY DEF Init, Aged, Flushing, Streaming
<1> QED
  BY <1>1, <1>2 DEF OInv

\* A start empties the ring, and so does tlm_clean: nothing is promised of it then.
LEMMA StartsAnew ==
  ASSUME OInv, Configure \/ TlmClean
  PROVE  Aged' /\ Flushing' /\ Streaming'
<1>1. TypeOK /\ Control
  BY DEF OInv, IInv
<1>2. fresh' = 0 /\ skip' = 0 /\ at' # "flush" /\ UNCHANGED <<goal, reader>>
  BY DEF Configure, TlmClean, Ready, shell, reading
<1>3. goal.mode = "STREAM" => \A r \in Readers : reader[r].on # "on"
  BY <1>1 DEF Control, Unread, Configure, TlmClean
<1> QED
  BY <1>2, <1>3 DEF Aged, Flushing, Streaming, OnTheWay

\* The lines of a flush are printed from the farthest to the nearest.
LEMMA FlushFlushing ==
  ASSUME OInv, Ring, Flush \/ FlushLine
  PROVE  Flushing'
<1>1. TypeOK /\ UNCHANGED <<line, length_MAX>> /\ length_MAX \in 0 .. DataMax
  BY DEF OInv, IInv, Flush, FlushLine, tlm, TypeOK
<1> SUFFICES ASSUME at' = "flush", length_MAX > 0
             PROVE  kept' < length_MAX /\ pos' = Behind(length_MAX - kept')
  BY <1>1 DEF Flushing, Behind
<1>2. CASE Flush
  <2>1. pos' = line /\ kept' = 0
    BY <1>2 DEF Flush, FirstOfRing
  <2> QED
    BY <1>1, <2>1 DEF Behind, Ring, InRing, TypeOK
<1>3. CASE FlushLine
  <2> DEFINE d == length_MAX - kept
  <2>1. /\ at = "flush" /\ NextLine(pos) # line /\ pos' = NextLine(pos)
        /\ kept' = UpTo(length_MAX, kept + 1)
    BY <1>3 DEF FlushLine
  <2>2. kept \in 0 .. length_MAX - 1 /\ pos = Behind(d)
    BY <1>1, <2>1 DEF OInv, Flushing, TypeOK
  <2>3. d \in 1 .. length_MAX
    BY <1>1, <2>2
  <2>4. NextLine(Behind(d)) = Behind(d - 1)
    BY <1>1, <2>3, NextIsNearer
  <2>5. d # 1
    BY <1>1, <2>1, <2>2, <2>4 DEF Behind, TypeOK
  <2>6. kept' = kept + 1
    BY <1>1, <2>1, <2>2, <2>3, <2>5 DEF UpTo
  <2>7. length_MAX - kept' = d - 1 /\ kept' < length_MAX
    BY <1>1, <2>2, <2>3, <2>5, <2>6
  <2> QED
    BY <2>1, <2>2, <2>4, <2>7
<1> QED
  BY <1>2, <1>3

LEMMA StepOInv ==
  ASSUME ~ Relayout, OInv, [Next]_vars
  PROVE  OInv'
<1>1. IInv /\ TypeOK /\ Control /\ Settled /\ Ring
  BY DEF OInv, IInv
<1>2. IInv'
  BY <1>1, StepIInv
<1> SUFFICES Aged' /\ Flushing' /\ Streaming'
  BY <1>2 DEF OInv
<1> USE DEF tlm, shell, outside, history, reading
<1>3. CASE Grab
  <2>1. at' # "flush"
    BY <1>1, <1>3 DEF Grab, Control
  <2> QED
    BY <1>1, <1>3, <2>1, GrabAged, GrabStreaming DEF OInv, Flushing
<1>4. CASE Configure \/ TlmClean
  BY <1>4, StartsAnew
\* No reader of the last stream is left when a stream begins, by Control.
<1>5. CASE TlmGrab \/ TlmWatch \/ \E who \in Readers : TlmStream(who)
  <2>1. /\ UNCHANGED <<layout_N, length_MAX, skip, line, rdata, fresh, reader>>
        /\ at' = "configure"
    BY <1>5 DEF TlmGrab, TlmWatch, TlmStream, Disable
  <2>2. goal'.mode = "STREAM" => \A r \in Readers : reader'[r].on = "off"
    BY <1>2, <2>1 DEF IInv, Control, Unread
  <2>3. Aged' /\ Flushing'
    BY <2>1, RingLeftAlone DEF OInv
  <2> QED
    BY <2>1, <2>2, <2>3 DEF Streaming, OnTheWay
<1>6. CASE Flush \/ FlushLine
  <2>1. UNCHANGED <<layout_N, length_MAX, skip, line, rdata, fresh, goal, reader, last, unread>>
    BY <1>6 DEF Flush, FlushLine
  <2> QED
    BY <1>1, <1>6, <2>1, FlushFlushing, RingLeftAlone DEF OInv
<1>7. CASE Enable
  <2>1. /\ UNCHANGED <<layout_N, length_MAX, skip, line, rdata, fresh, last, unread>>
        /\ goal'.mode = goal.mode /\ at' # "flush"
    BY <1>1, <1>7 DEF Enable, TypeOK
  <2>2. Aged' /\ Flushing'
    BY <2>1, RingLeftAlone DEF OInv
  <2>3. goal.mode = "STREAM" => \A r \in Readers : reader'[r].on # "on"
    BY <1>1, <1>7 DEF Enable, Control, Unread, TypeOK
  <2> QED
    BY <2>1, <2>2, <2>3 DEF Streaming, OnTheWay
<1>8. ASSUME NEW r \in Readers, ReaderStarts(r)
      PROVE  Aged' /\ Flushing' /\ Streaming'
  <2>1. /\ UNCHANGED <<layout_N, length_MAX, skip, line, rdata, fresh, goal, at, pos, kept>>
        /\ \A q \in Readers : q # r => /\ reader'[q] = reader[q] /\ last'[q] = last[q]
                                       /\ unread'[q] = unread[q]
        /\ reader'[r] = [on |-> "on", line |-> line] /\ last'[r] = Old /\ unread'[r] = 0
    BY <1>1, <1>8 DEF ReaderStarts, TypeOK
  <2>2. Aged' /\ Flushing'
    BY <2>1, RingLeftAlone DEF OInv
  <2>3. \A d : (Behind(d))' = Behind(d)
    BY <2>1 DEF Behind
  <2>4. Behind(0) = line /\ 0 <= fresh
    BY <1>1 DEF Behind, TypeOK
  <2>5. goal.mode = "STREAM" => (OnTheWay(r))'
    BY <2>1, <2>3, <2>4 DEF OnTheWay
  <2>6. ASSUME NEW q \in Readers, q # r, goal.mode = "STREAM"
        PROVE  (OnTheWay(q))'
    BY <2>1, <2>3, <2>6 DEF OInv, Streaming, OnTheWay, Lag
  <2> QED
    BY <2>1, <2>2, <2>5, <2>6 DEF Streaming
<1>9. ASSUME NEW r \in Readers, ReadLine(r)
      PROVE  Aged' /\ Flushing' /\ Streaming'
  <2>1. UNCHANGED <<layout_N, length_MAX, skip, line, rdata, fresh, at, pos, kept>>
    BY <1>9 DEF ReadLine
  <2> QED
    BY <1>1, <1>9, <2>1, ReadStreaming, RingLeftAlone DEF OInv
<1>10. ASSUME NEW r \in Readers, Off(r), at' # "flush" \/ UNCHANGED <<at, pos, kept>>,
              UNCHANGED <<layout_N, length_MAX, skip, line, rdata, fresh, goal>>
       PROVE  Aged' /\ Flushing' /\ Streaming'
  <2>1. \A q \in Readers : q # r => /\ reader'[q] = reader[q] /\ last'[q] = last[q]
                                    /\ unread'[q] = unread[q]
    BY <1>1, <1>10 DEF Off, TypeOK
  <2>2. reader'[r].on = "off"
    BY <1>1, <1>10 DEF Off, TypeOK
  <2>3. Aged' /\ Flushing'
    BY <1>10, RingLeftAlone DEF OInv
  <2>4. \A d : (Behind(d))' = Behind(d)
    BY <1>10 DEF Behind
  <2>5. ASSUME NEW q \in Readers, q # r, goal.mode = "STREAM"
        PROVE  (OnTheWay(q))'
    BY <1>10, <2>1, <2>4, <2>5 DEF OInv, Streaming, OnTheWay, Lag
  <2> QED
    BY <1>10, <2>2, <2>3, <2>5 DEF Streaming, OnTheWay
<1>11. CASE Key
  <2>1. CASE at = "stream"
    <3>1. /\ Off("shell") /\ at' # "flush"
          /\ UNCHANGED <<layout_N, length_MAX, skip, line, rdata, fresh, goal>>
      BY <1>11, <2>1 DEF Key
    <3> QED
      BY <1>10, <3>1 DEF Readers
  <2>2. CASE at # "stream"
    BY <1>11, <2>2, RingLeftAlone DEF Key, OInv
  <2> QED
    BY <2>1, <2>2
<1>12. CASE NetEnds
  BY <1>10, <1>12 DEF NetEnds, Readers
<1>13. CASE TlmStop \/ (\E n \in Layouts : Choose(n)) \/ Fault \/ UNCHANGED vars
  <2>1. UNCHANGED <<layout_N, length_MAX, skip, line, rdata, fresh, goal, reader, last, unread,
                    at, pos, kept>>
    BY <1>13 DEF TlmStop, Choose, Fault, vars
  <2> QED
    BY <2>1, RingLeftAlone DEF OInv
<1> QED
  BY <1>3, <1>4, <1>5, <1>6, <1>7, <1>8, <1>9, <1>11, <1>12, <1>13 DEF Next, Command

\* A ring recorded in full is printed in order, whatever its length and wherever the
\* last recording left its line.
THEOREM FlushCorrect == ~ Relayout => (Spec => []FlushInOrder)
<1> SUFFICES ASSUME ~ Relayout PROVE Spec => []FlushInOrder
  OBVIOUS
<1>1. OInv => FlushInOrder
  <2> SUFFICES ASSUME OInv, at = "flush", fresh = length_MAX, skip = 0
               PROVE  Holds(pos, length_MAX - 1 - kept)
    BY DEF FlushInOrder
  <2>1. TypeOK /\ Ring
    BY DEF OInv, IInv
  <2>2. CASE length_MAX = 0
    <3>1. layout_N = 0
      <4>1. layout_N \in Layouts \cup {0} /\ Length(layout_N) = 0
        BY <2>1, <2>2 DEF TypeOK, Ring
      <4> QED
        BY <4>1, LengthFits
    <3>2. pos * layout_N = 0
      BY <2>1, <3>1 DEF TypeOK
    <3> QED
      BY <3>1, <3>2 DEF Holds, Cells
  <2>3. CASE length_MAX # 0
    <3> DEFINE d == length_MAX - kept
    <3>1. length_MAX \in 0 .. DataMax /\ kept \in Nat /\ kept < length_MAX /\ pos = Behind(d)
      BY <2>1, <2>3 DEF OInv, Flushing, TypeOK
    <3>2. d \in 1 .. fresh
      BY <3>1
    <3>3. Holds(Behind(d), d - 1 + Lag)
      BY <3>2 DEF OInv, Aged
    <3>4. d - 1 + Lag = length_MAX - 1 - kept
      BY <3>1 DEF Lag
    <3> QED
      BY <3>1, <3>3, <3>4
  <2> QED
    BY <2>2, <2>3
<1>2. OInv /\ [Next]_vars => OInv'
  BY StepOInv
<1> QED
  BY <1>1, <1>2, InitOInv, PTL DEF Spec

\* Every sample of a stream that was not overwritten is read, once and in its place,
\* whatever the interrupt records between the steps of the readers.
THEOREM StreamCorrect == ~ Relayout => (Spec => []StreamInOrder)
<1> SUFFICES ASSUME ~ Relayout PROVE Spec => []StreamInOrder
  OBVIOUS
<1>1. Init => StreamInOrder
  BY DEF Init, StreamInOrder
<1>2. OInv /\ StreamInOrder /\ [Next]_vars => StreamInOrder'
  <2> SUFFICES ASSUME OInv, inOrder, [Next]_vars PROVE inOrder'
    BY DEF StreamInOrder
  <2>1. CASE \E r \in Readers : ReadLine(r)
    <3>1. PICK r \in Readers : ReadLine(r)
      BY <2>1
    <3>2. Promised(r) => Follows(r)
      BY <3>1, NextSample DEF OInv, IInv, ReadLine, Promised
    <3> QED
      BY <3>1, <3>2 DEF ReadLine
  <2>2. CASE ~ \E r \in Readers : ReadLine(r)
    <3>1. inOrder' = inOrder
      BY <2>2 DEF Next, Command, Grab, Fault, TlmGrab, TlmWatch, TlmStream, Disable, TlmStop,
                  TlmClean, Flush, Key, Off, Choose, Configure, Enable, FlushLine, ReaderStarts,
                  NetEnds, vars, reading
    <3> QED
      BY <3>1
  <2> QED
    BY <2>1, <2>2
<1>3. OInv /\ [Next]_vars => OInv'
  BY StepOInv
<1> QED
  BY <1>1, <1>2, <1>3, InitOInv, PTL DEF Spec

=============================================================================
