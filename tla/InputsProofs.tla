---------------------------- MODULE InputsProofs ----------------------------
(***************************************************************************)
(* Proofs about Inputs, for every length of the idle time, of the pause    *)
(* that restarts its timer, of the preemption of a check, and of the count *)
(* of lost samples.                                                        *)
(***************************************************************************)
EXTENDS Inputs, TLAPS

FlagsOK ==
  /\ ACTIVE \in [Inputs -> BOOLEAN] /\ DISARM \in [Inputs -> BOOLEAN]
  /\ NFAULT \in [Inputs -> 0 .. Faults]
  /\ fresh \in [Inputs -> BOOLEAN] /\ lost \in [Inputs -> 0 .. Faults]

TimersOK ==
  /\ idle \in [ink : 0 .. Longest(Gap), rst : 0 .. Longest(Idle)]
  /\ moved \in BOOLEAN /\ quiet \in 0 .. Idle + 1 /\ still \in 0 .. Idle + 1
  /\ now \in 0 .. Late

MachineOK == lu \in BOOLEAN /\ proc \in Procs /\ fsm_req \in Requests \cup {"IDLE"}

\* Of each input: an active one has a fault left to count, what it counted was
\* lost, and one that may start the machine was low.
Sound ==
  \A i \in Inputs :
    /\ ACTIVE[i] => NFAULT[i] < Faults
    /\ NFAULT[i] <= lost[i]
    /\ fresh[i] \/ ACTIVE[i] \/ DISARM[i]

\* The knob task checks the idle time of an active knob that is low, and starts
\* the machine from one that is not active and was low.
KnobSound ==
  /\ at \in Checking \cup {"stop", "post"} => ACTIVE["knob"] /\ fresh["knob"]
  /\ at = "start" => NFAULT["knob"] = 0 /\ ~ ACTIVE["knob"] /\ fresh["knob"]

\* A timer that runs on since the last turn is ahead of the time since then by no
\* more than a check of the task may be late; one that the task has restarted is no
\* older than the check; and at its end the task knows how long the machine stood.
Ahead == idle.rst <= quiet + Late \/ quiet > Idle
Timely ==
  /\ moved \/ Ahead
  /\ at = "note" => idle.rst <= now
  /\ at = "expire" => idle.rst <= still + now + Late \/ still > Idle

IInv == TypeOK /\ Sound /\ KnobSound /\ Timely

\* What a step must not do to an input.
Starts == \A i \in Inputs : ~ ACTIVE[i] /\ ACTIVE'[i] => fresh[i]
Idles  == \A i \in Inputs : FindsIdle(i) =>
            StoodStill(i) + Late > Idle \/ (i = "knob" /\ Overtaken)

\* A step leaves the flags and the history sound, and the timers on time.
FlagStep == FlagsOK' /\ Sound' /\ KnobSound' /\ Starts
TimeStep == TimersOK' /\ Timely' /\ Idles

USE InputsAssumption

LEMMA Parts == TypeOK <=> FlagsOK /\ TimersOK /\ MachineOK /\ at \in Labels
  BY DEF TypeOK, FlagsOK, TimersOK, MachineOK

LEMMA Numbers ==
  ASSUME TimersOK
  PROVE  /\ idle.ink \in Nat /\ idle.rst \in Nat /\ quiet \in Nat /\ still \in Nat
         /\ now \in Nat /\ idle = [ink |-> idle.ink, rst |-> idle.rst]
  BY DEF TimersOK, Longest

-----------------------------------------------------------------------------
(* The flags *)

\* A lost sample is counted at most up to the fault.
LEMMA LostSample ==
  ASSUME FlagsOK, Sound, NEW i \in Inputs, NEW counts \in BOOLEAN, NEW cleared \in BOOLEAN,
         NEW req, NEW post, counts => ACTIVE[i],
         Lost(i, counts, cleared, req, post), Sampled(i, "lost")
  PROVE  FlagsOK' /\ Sound' /\ Starts
<1>1. FlagsOK'
  BY DEF Sound, FlagsOK, Lost, Count, InactiveAfter, Sampled, With, UpTo
<1>2. Sound'
  BY DEF Sound, FlagsOK, Lost, Count, InactiveAfter, Sampled, With, UpTo
<1>3. Starts
  BY DEF Starts, FlagsOK, Lost, InactiveAfter, With
<1> QED
  BY <1>1, <1>2, <1>3

\* A good sample: its input is active, armed or was low; a new start was low.
LEMMA GoodSample ==
  ASSUME FlagsOK, Sound, NEW i \in Inputs, NEW signal \in {"low", "in"},
         NEW active \in BOOLEAN, NEW arm \in BOOLEAN,
         Good(i), ACTIVE' = With(ACTIVE, i, active), DISARM' = With(DISARM, i, arm),
         Sampled(i, signal),
         ~ ACTIVE[i] /\ active => fresh[i],
         signal = "in" => fresh[i] \/ active \/ arm,
         signal = "low" /\ active => ACTIVE[i]
  PROVE  FlagsOK' /\ Sound' /\ Starts
<1>1. /\ NFAULT' = With(NFAULT, i, 0) /\ lost' = With(lost, i, 0)
      /\ fresh' = With(fresh, i, (ACTIVE[i] \/ ~ ACTIVE'[i])
                                 /\ (signal = "low" \/ (signal = "in" /\ fresh[i])))
  BY DEF Good, Sampled
<1>2. FlagsOK'
  BY <1>1 DEF FlagsOK, With
<1>3. Sound'
  BY <1>1 DEF FlagsOK, Sound, With
<1>4. Starts
  BY DEF Starts, FlagsOK, With
<1> QED
  BY <1>2, <1>3, <1>4

\* A step that writes no flag, and moves the knob task within its check or not.
LEMMA FlagsKept ==
  ASSUME FlagsOK, Sound, UNCHANGED <<flags, fresh, lost>>
  PROVE  FlagsOK' /\ Sound' /\ Starts
  BY DEF FlagsOK, Sound, Starts, flags

LEMMA CheckKept ==
  ASSUME IInv, NEW label \in Checking, NEW next \in Checking, Check(label, next)
  PROVE  FlagStep
<1>1. FlagsOK /\ Sound /\ KnobSound /\ at \in Checking /\ at' \in Checking
  BY Parts DEF IInv, Check, Go
<1>2. UNCHANGED <<flags, fresh, lost>>
  BY DEF Check, history
<1>3. FlagsOK' /\ Sound' /\ Starts
  BY <1>1, <1>2, FlagsKept
<1>4. KnobSound'
  BY <1>1, <1>2 DEF KnobSound, flags, Checking
<1> QED
  BY <1>3, <1>4 DEF FlagStep

\* The pulse width input leaves the knob's flags alone.
LEMMA CycleFlags ==
  ASSUME IInv, Cycle
  PROVE  FlagStep
<1>1. FlagsOK /\ Sound /\ KnobSound /\ MachineOK
  BY Parts DEF IInv
<1>2. PICK signal \in Signals, post \in {fsm_req, "LU_STARTUP", "LU_SHUTDOWN"} : InPulseWidth(signal, post)
  BY DEF Cycle
<1>3. "ppm" \in Inputs /\ "knob" \in Inputs /\ "ppm" # "knob"
  BY DEF Inputs
<1>4. FlagsOK' /\ Sound' /\ Starts
  <2>1. CASE signal = "lost"
    <3> DEFINE counts == ACTIVE["ppm"] /\ lu
    <3>1. /\ counts \in BOOLEAN /\ (counts => ACTIVE["ppm"]) /\ FALSE \in BOOLEAN
          /\ Lost("ppm", counts, FALSE, fsm_req, post) /\ Sampled("ppm", "lost")
      BY <1>1, <1>2, <1>3, <2>1 DEF InPulseWidth, FlagsOK, MachineOK
    <3> HIDE DEF counts
    <3> QED
      BY <1>1, <1>3, <3>1, LostSample
  <2>2. CASE signal = "low"
    <3>1. /\ Good("ppm") /\ Sampled("ppm", "low")
          /\ PulseLow(ActiveNow("ppm"), DisarmNow("ppm"), post)
      BY <1>2, <2>2 DEF InPulseWidth
    <3>2. PICK a \in BOOLEAN, d \in BOOLEAN :
            /\ ACTIVE' = With(ACTIVE, "ppm", a) /\ DISARM' = With(DISARM, "ppm", d)
            /\ a => ACTIVE["ppm"]
      <4>1. CASE ActiveNow("ppm") /\ DISARM' = With(DISARM, "ppm", DisarmNow("ppm"))
                 /\ ACTIVE' = With(ACTIVE, "ppm", ~ Expired)
        <5>1. (~ Expired) \in BOOLEAN /\ DisarmNow("ppm") \in BOOLEAN
          BY <1>1, <1>3 DEF Expired, DisarmNow, FlagsOK
        <5> QED
          BY <4>1, <5>1 DEF ActiveNow
      <4>2. CASE LowWait("ppm", DisarmNow("ppm"))
        <5>1. PICK waits \in BOOLEAN : DISARM' = With(DISARM, "ppm", DisarmNow("ppm") /\ waits)
          BY <4>2 DEF LowWait
        <5>2. (DisarmNow("ppm") /\ waits) \in BOOLEAN /\ FALSE \in BOOLEAN
              /\ ACTIVE' = With(ACTIVE, "ppm", FALSE)
          BY <1>1, <1>3, <4>2 DEF DisarmNow, FlagsOK, LowWait
        <5> QED
          BY <5>1, <5>2
      <4> QED
        BY <3>1, <4>1, <4>2 DEF PulseLow
    <3> QED
      BY <1>1, <1>3, <3>1, <3>2, GoodSample
  <2>3. CASE signal = "in"
    <3>1. /\ Good("ppm") /\ Sampled("ppm", "in")
          /\ PulseIn(ActiveNow("ppm"), DisarmNow("ppm"), post)
      BY <1>2, <2>3 DEF InPulseWidth
    <3>2. PICK a \in BOOLEAN, d \in BOOLEAN :
            /\ ACTIVE' = With(ACTIVE, "ppm", a) /\ DISARM' = With(DISARM, "ppm", d)
            /\ a => ActiveNow("ppm") \/ (~ ActiveNow("ppm") /\ ~ DisarmNow("ppm"))
            /\ ActiveNow("ppm") => a
            /\ d = DisarmNow("ppm")
      <4> DEFINE a == ActiveNow("ppm") \/ (MayStart("ppm", ActiveNow("ppm"), DisarmNow("ppm")) /\ ~ lu)
      <4>1. a \in BOOLEAN /\ DisarmNow("ppm") \in BOOLEAN
        BY <1>1, <1>3 DEF ActiveNow, DisarmNow, FlagsOK, MayStart
      <4>2. ACTIVE' = With(ACTIVE, "ppm", a) /\ DISARM' = With(DISARM, "ppm", DisarmNow("ppm"))
        BY <3>1 DEF PulseIn
      <4>3. /\ a => ActiveNow("ppm") \/ (~ ActiveNow("ppm") /\ ~ DisarmNow("ppm"))
            /\ ActiveNow("ppm") => a
        BY DEF MayStart
      <4> HIDE DEF a
      <4> QED
        BY <4>1, <4>2, <4>3
    <3>3. /\ ~ ACTIVE["ppm"] /\ a => fresh["ppm"]
          /\ fresh["ppm"] \/ a \/ d
      BY <1>1, <1>3, <3>2 DEF Sound, FlagsOK, MachineOK, ActiveNow, DisarmNow
    <3> QED
      BY <1>1, <1>3, <3>1, <3>2, <3>3, GoodSample
  <2> QED
    BY <2>1, <2>2, <2>3 DEF Signals
<1>5. /\ UNCHANGED at
      /\ ACTIVE'["knob"] = ACTIVE["knob"] /\ fresh'["knob"] = fresh["knob"]
      /\ NFAULT'["knob"] = NFAULT["knob"]
  <2>1. UNCHANGED at
    BY DEF Cycle, knob
  <2>2. fresh'["knob"] = fresh["knob"]
    BY <1>1, <1>2, <1>3 DEF InPulseWidth, Sampled, With, FlagsOK
  <2>3. NFAULT'["knob"] = NFAULT["knob"]
    BY <1>1, <1>2, <1>3 DEF InPulseWidth, Good, Lost, With, FlagsOK
  <2>4. ACTIVE'["knob"] = ACTIVE["knob"]
    BY <1>1, <1>2, <1>3 DEF InPulseWidth, Lost, InactiveAfter, PulseLow, PulseIn, LowWait, With, FlagsOK
  <2> QED
    BY <2>1, <2>2, <2>3, <2>4
<1>6. KnobSound'
  BY <1>1, <1>5 DEF KnobSound
<1> QED
  BY <1>4, <1>6 DEF FlagStep

\* The knob's first test, its samples, its start and its stop.
LEMMA KnobFlags ==
  ASSUME IInv, KnobCheck \/ KnobConvert \/ KnobStart \/ KnobStop
  PROVE  FlagStep
<1>1. FlagsOK /\ Sound /\ KnobSound /\ MachineOK /\ "knob" \in Inputs
  BY Parts DEF IInv, Inputs
<1>2. CASE KnobCheck
  <2>1. /\ ACTIVE' = With(ACTIVE, "knob", ActiveNow("knob"))
        /\ DISARM' = With(DISARM, "knob", DisarmNow("knob"))
        /\ UNCHANGED <<NFAULT, fresh, lost>> /\ at' = "convert"
    BY <1>2 DEF KnobCheck, history, Go
  <2>2. FlagsOK'
    BY <1>1, <2>1 DEF FlagsOK, With, ActiveNow, DisarmNow
  <2>3. Sound' /\ Starts
    BY <1>1, <2>1 DEF FlagsOK, Sound, Starts, With, ActiveNow, DisarmNow
  <2>4. KnobSound'
    BY <2>1 DEF KnobSound, Checking
  <2> QED
    BY <2>2, <2>3, <2>4 DEF FlagStep
<1>3. CASE KnobConvert
  <2>1. ASSUME NEW brake \in BOOLEAN,
               Lost("knob", ACTIVE["knob"], brake, fsm_req, fsm_req'),
               Sampled("knob", "lost"), Go("rest")
        PROVE  FlagStep
    <3>1. ACTIVE["knob"] \in BOOLEAN
      BY <1>1 DEF FlagsOK
    <3>2. FlagsOK' /\ Sound' /\ Starts
      BY <1>1, <2>1, <3>1, LostSample
    <3>3. KnobSound'
      BY <2>1 DEF KnobSound, Checking, Go
    <3> QED
      BY <3>2, <3>3 DEF FlagStep
  <2>2. ASSUME Good("knob"), Sampled("knob", "low"), ACTIVE["knob"],
               Go(IF Idle = 0 THEN "rest" ELSE "gap"), UNCHANGED <<ACTIVE, DISARM, timers>>
        PROVE  FlagStep
    <3>1. /\ ACTIVE["knob"] \in BOOLEAN /\ DISARM["knob"] \in BOOLEAN
          /\ ACTIVE' = With(ACTIVE, "knob", ACTIVE["knob"])
          /\ DISARM' = With(DISARM, "knob", DISARM["knob"])
      BY <1>1, <2>2 DEF FlagsOK, With
    <3>2. FlagsOK' /\ Sound' /\ Starts
      BY <1>1, <2>2, <3>1, GoodSample
    <3>3. ACTIVE'["knob"] /\ fresh'["knob"] /\ at' \in {"rest", "gap"}
      BY <1>1, <2>2 DEF Sampled, With, FlagsOK, Go
    <3>4. KnobSound'
      BY <3>3 DEF KnobSound
    <3> QED
      BY <3>2, <3>4 DEF FlagStep
  <2>3. ASSUME Good("knob"), Sampled("knob", "low"),
               LowWait("knob", DISARM["knob"]), Go("rest")
        PROVE  FlagStep
    <3>1. PICK waits \in BOOLEAN : DISARM' = With(DISARM, "knob", DISARM["knob"] /\ waits)
      BY <2>3 DEF LowWait
    <3>2. /\ (DISARM["knob"] /\ waits) \in BOOLEAN /\ FALSE \in BOOLEAN
          /\ ACTIVE' = With(ACTIVE, "knob", FALSE)
      BY <1>1, <2>3 DEF FlagsOK, LowWait
    <3>3. FlagsOK' /\ Sound' /\ Starts
      BY <1>1, <2>3, <3>1, <3>2, GoodSample
    <3>4. KnobSound'
      BY <2>3 DEF KnobSound, Checking, Go
    <3> QED
      BY <3>3, <3>4 DEF FlagStep
  <2>4. ASSUME Good("knob"), Sampled("knob", "in"), UNCHANGED <<ACTIVE, DISARM, timers>>,
               Go(IF MayStart("knob", ACTIVE["knob"], DISARM["knob"]) /\ ~ lu
                  THEN "start" ELSE "rest")
        PROVE  FlagStep
    <3>1. /\ ACTIVE["knob"] \in BOOLEAN /\ DISARM["knob"] \in BOOLEAN
          /\ ACTIVE' = With(ACTIVE, "knob", ACTIVE["knob"])
          /\ DISARM' = With(DISARM, "knob", DISARM["knob"])
          /\ fresh["knob"] \/ ACTIVE["knob"] \/ DISARM["knob"]
      BY <1>1, <2>4 DEF FlagsOK, With, Sound
    <3>2. FlagsOK' /\ Sound' /\ Starts
      BY <1>1, <2>4, <3>1, GoodSample
    <3>3. /\ at' \in {"rest", "start"}
          /\ at' = "start" => ~ ACTIVE["knob"] /\ ~ DISARM["knob"]
      BY <2>4 DEF Go, MayStart
    <3>4. NFAULT'["knob"] = 0 /\ (fresh["knob"] => fresh'["knob"])
      BY <1>1, <2>4 DEF Good, Sampled, With, FlagsOK
    <3>5. KnobSound'
      BY <2>4, <3>1, <3>3, <3>4 DEF KnobSound, Checking
    <3> QED
      BY <3>2, <3>5 DEF FlagStep
  <2> QED
    BY <1>3, <2>1, <2>2, <2>3, <2>4 DEF KnobConvert
<1>4. CASE KnobStart
  <2>1. /\ ACTIVE' = With(ACTIVE, "knob", TRUE) /\ fresh' = With(fresh, "knob", FALSE)
        /\ UNCHANGED <<DISARM, NFAULT, lost>> /\ at = "start" /\ at' = "rest"
    BY <1>4 DEF KnobStart, Go
  <2>2. FlagsOK'
    BY <1>1, <2>1 DEF FlagsOK, With
  <2>3. Sound' /\ Starts
    BY <1>1, <2>1 DEF FlagsOK, Sound, Starts, KnobSound, With
  <2>4. KnobSound'
    BY <2>1 DEF KnobSound, Checking
  <2> QED
    BY <2>2, <2>3, <2>4 DEF FlagStep
<1>5. CASE KnobStop
  <2>1. /\ UNCHANGED <<DISARM, NFAULT, fresh, lost>> /\ at \in {"stop", "post"}
        /\ \/ UNCHANGED ACTIVE /\ at' = "post"
           \/ ACTIVE' = With(ACTIVE, "knob", FALSE) /\ at' = "rest"
    BY <1>5 DEF KnobStop, history, Go
  <2>2. fresh["knob"] /\ ACTIVE["knob"]
    BY <1>1, <2>1 DEF KnobSound
  <2>3. FlagsOK'
    BY <1>1, <2>1 DEF FlagsOK, With
  <2>4. Sound' /\ Starts
    BY <1>1, <2>1, <2>2 DEF FlagsOK, Sound, Starts, With
  <2>5. KnobSound'
    BY <2>1, <2>2 DEF KnobSound, Checking
  <2> QED
    BY <2>3, <2>4, <2>5 DEF FlagStep
<1> QED
  BY <1>2, <1>3, <1>4, <1>5

LEMMA FlagsSound ==
  ASSUME IInv, [Next]_vars
  PROVE  FlagStep
<1>1. FlagsOK /\ Sound /\ KnobSound
  BY Parts DEF IInv
<1>2. ASSUME UNCHANGED <<flags, fresh, lost, at>>
      PROVE  FlagStep
  BY <1>1, <1>2, FlagsKept DEF FlagStep, KnobSound, flags
<1>3. CASE KnobGap \/ KnobRestart \/ KnobInk \/ KnobTurns \/ KnobTurned \/ KnobNote
  <2>1. PICK label \in Checking, next \in Checking : Check(label, next)
    BY <1>3 DEF KnobGap, KnobRestart, KnobInk, KnobTurns, KnobTurned, KnobNote, Checking
  <2> QED
    BY <2>1, CheckKept
<1>4. CASE KnobExpire
  <2>1. UNCHANGED <<flags, fresh, lost>> /\ at = "expire" /\ at' \in {"stop", "rest"}
    BY <1>4 DEF KnobExpire, history, Go
  <2>2. FlagsOK' /\ Sound' /\ Starts
    BY <1>1, <2>1, FlagsKept
  <2>3. KnobSound'
    BY <1>1, <2>1 DEF KnobSound, Checking, flags
  <2> QED
    BY <2>2, <2>3 DEF FlagStep
<1>5. CASE Command \/ Turn \/ Tick \/ UNCHANGED vars
  BY <1>2, <1>5 DEF Command, Turn, Tick, vars, flags, history, knob
<1> QED
  BY <1>3, <1>4, <1>5, KnobFlags, CycleFlags DEF Next, Knob

-----------------------------------------------------------------------------
(* The timers *)

\* A step of the task outside its check leaves the timers, the turns and the clock.
LEMMA TimersKept ==
  ASSUME TimersOK, Timely, UNCHANGED <<timers, quiet, still, now>>,
         at' \notin {"note", "expire"}
  PROVE  TimersOK' /\ Timely'
  BY DEF TimersOK, Timely, Ahead, timers, Longest

\* Only the interrupt and the last step of a check find an input idle.
LEMMA NotIdle ==
  ASSUME IInv,
         KnobCheck \/ KnobConvert \/ KnobStart \/ KnobStop
           \/ (\E label \in Checking, next \in Checking : Check(label, next))
           \/ Command \/ Turn \/ Tick \/ UNCHANGED vars
  PROVE  Idles
<1>1. ACTIVE \in [Inputs -> BOOLEAN] /\ "ppm" \in Inputs /\ "knob" \in Inputs
  BY DEF IInv, TypeOK, Inputs
<1>2. ~ (at = "expire" /\ at' = "stop")
  BY DEF KnobCheck, KnobConvert, KnobStart, KnobStop, Check, Command, Turn, Tick, vars, knob,
         Go, Checking
<1>3. ACTIVE'["ppm"] = ACTIVE["ppm"]
  BY <1>1 DEF KnobCheck, KnobConvert, KnobStart, KnobStop, Check, Command, Turn, Tick, vars,
              flags, With, Lost, InactiveAfter, LowWait
<1> QED
  BY <1>2, <1>3 DEF Idles, FindsIdle, Inputs

\* The timer after a check of the interrupt or without one.
LEMMA CycleTimers ==
  ASSUME IInv, Cycle
  PROVE  TimeStep
<1>1. FlagsOK /\ TimersOK /\ Timely /\ MachineOK /\ UNCHANGED <<at, now, still, quiet>>
  BY Parts DEF IInv, Cycle, knob, InPulseWidth, Sampled
<1>2. PICK signal \in Signals, post \in {fsm_req, "LU_STARTUP", "LU_SHUTDOWN"} : InPulseWidth(signal, post)
  BY DEF Cycle
<1>3. /\ UNCHANGED timers \/ (Idle # 0 /\ idle' = [ink |-> 0, rst |-> HeldNow] /\ moved' = FALSE)
      /\ ACTIVE["ppm"] /\ ~ ACTIVE'["ppm"] /\ lost'["ppm"] = 0 /\ lu => Expired
  <2>1. "ppm" \in Inputs /\ Faults >= 1 /\ lost["ppm"] \in Nat /\ ACTIVE["ppm"] \in BOOLEAN
    BY <1>1 DEF Inputs, FlagsOK
  <2>2. CASE signal = "lost"
    <3>1. UNCHANGED timers
      BY <1>2, <2>2 DEF InPulseWidth, Lost
    <3>2. lost'["ppm"] = UpTo(Faults, lost["ppm"] + 1)
      BY <1>1, <1>2, <2>1, <2>2 DEF InPulseWidth, Sampled, With, FlagsOK
    <3>3. lost'["ppm"] # 0
      BY <2>1, <3>2 DEF UpTo
    <3> QED
      BY <3>1, <3>3
  <2>3. CASE signal = "low"
    <3>1. PulseLow(ActiveNow("ppm"), DisarmNow("ppm"), post)
      BY <1>2, <2>3 DEF InPulseWidth
    <3>2. CASE ActiveNow("ppm") /\ IdleCheck /\ ACTIVE' = With(ACTIVE, "ppm", ~ Expired)
      BY <1>1, <2>1, <3>2 DEF IdleCheck, With, FlagsOK
    <3>3. CASE ~ ActiveNow("ppm") /\ LowWait("ppm", DisarmNow("ppm"))
      BY <2>1, <3>3 DEF LowWait, ActiveNow
    <3> QED
      BY <3>1, <3>2, <3>3 DEF PulseLow
  <2>4. CASE signal = "in"
    <3>1. PulseIn(ActiveNow("ppm"), DisarmNow("ppm"), post)
      BY <1>2, <2>4 DEF InPulseWidth
    <3>2. UNCHANGED timers /\ (ACTIVE["ppm"] /\ lu => ACTIVE'["ppm"])
      BY <1>1, <2>1, <3>1 DEF PulseIn, ActiveNow, With, FlagsOK
    <3> QED
      BY <3>2
  <2> QED
    BY <2>2, <2>3, <2>4 DEF Signals
<1>4. HeldNow \in {0, idle.rst} /\ (HeldNow = idle.rst => HeldNow = 0 \/ ~ moved)
  BY DEF HeldNow, Restarted
<1>5. TimersOK'
  <2>1. CASE UNCHANGED timers
    BY <1>1, <2>1 DEF TimersOK, timers, Longest
  <2>2. CASE idle' = [ink |-> 0, rst |-> HeldNow] /\ moved' = FALSE
    <3>1. 0 \in 0 .. Longest(Gap) /\ HeldNow \in 0 .. Longest(Idle)
      BY <1>1, <1>4 DEF TimersOK, Longest
    <3> QED
      BY <1>1, <2>2, <3>1 DEF TimersOK, Longest
  <2> QED
    BY <1>3, <2>1, <2>2
<1>6. idle'.rst \in {0, idle.rst} /\ (moved' \/ idle'.rst = 0 \/ (idle'.rst = idle.rst /\ ~ moved))
  BY <1>3, <1>4 DEF timers
<1>7. Timely'
  BY <1>1, <1>6, Numbers DEF Timely, Ahead
<1>8. Expired => quiet + Late > Idle
  BY <1>1, Numbers DEF Expired, HeldNow, Restarted, Timely, Ahead
<1>9. Idles
  BY <1>1, <1>3, <1>8 DEF Idles, FindsIdle, StoodStill, Inputs
<1> QED
  BY <1>5, <1>7, <1>9 DEF TimeStep

\* A check of the task, one access at a time.
LEMMA CheckTimers ==
  ASSUME IInv, KnobGap \/ KnobRestart \/ KnobInk \/ KnobTurns \/ KnobTurned \/ KnobNote
  PROVE  TimeStep
<1>1. TimersOK /\ Timely
  BY Parts DEF IInv
<1>2. PICK label \in Checking, next \in Checking : Check(label, next)
  BY DEF KnobGap, KnobRestart, KnobInk, KnobTurns, KnobTurned, KnobNote, Checking
<1>3. Idles /\ UNCHANGED <<now, quiet>>
  BY <1>2, NotIdle DEF Check, history
<1>4. now \in 0 .. Longest(Gap) /\ now \in 0 .. Longest(Idle)
  BY <1>1 DEF TimersOK, Longest
<1>5. CASE KnobGap
  BY <1>1, <1>3, <1>5, TimersKept DEF KnobGap, Check, Go, TimeStep
<1>6. CASE KnobRestart \/ KnobTurned
  <2>1. /\ idle' = [idle EXCEPT !.rst = now] /\ UNCHANGED <<moved, still>>
        /\ at' \in {"ink", "note"}
    BY <1>6 DEF KnobRestart, KnobTurned, Restart, Check, Go
  <2>2. idle'.rst = now
    BY <1>1, <2>1 DEF TimersOK
  <2>3. TimersOK'
    BY <1>1, <1>3, <1>4, <2>1 DEF TimersOK, Longest
  <2>4. Timely'
    BY <1>1, <1>3, <2>1, <2>2, Numbers DEF Timely, Ahead, TimersOK
  <2> QED
    BY <1>3, <2>3, <2>4 DEF TimeStep
<1>7. CASE KnobInk
  <2>1. /\ idle' = [idle EXCEPT !.ink = now] /\ UNCHANGED <<moved, still>> /\ at' = "turns"
    BY <1>7 DEF KnobInk, Check, Go
  <2>2. idle'.rst = idle.rst
    BY <1>1, <2>1 DEF TimersOK
  <2>3. TimersOK'
    BY <1>1, <1>3, <1>4, <2>1 DEF TimersOK, Longest
  <2>4. Timely'
    BY <1>1, <1>3, <2>1, <2>2, Numbers DEF Timely, Ahead
  <2> QED
    BY <1>3, <2>3, <2>4 DEF TimeStep
<1>8. CASE KnobTurns
  <2>1. /\ still' = quiet /\ UNCHANGED timers
        /\ at' = IF moved THEN "turned" ELSE "expire"
    BY <1>8 DEF KnobTurns, Check, Go
  <2>2. TimersOK'
    BY <1>1, <1>3, <2>1 DEF TimersOK, timers, Longest
  <2>3. Timely'
    BY <1>1, <1>3, <2>1, Numbers DEF Timely, Ahead, timers
  <2> QED
    BY <1>3, <2>2, <2>3 DEF TimeStep
<1>9. CASE KnobNote
  <2>1. moved' = FALSE /\ UNCHANGED <<idle, still>> /\ at = "note" /\ at' = "expire"
    BY <1>9 DEF KnobNote, Check, Go
  <2>2. TimersOK'
    BY <1>1, <1>3, <2>1 DEF TimersOK, Longest
  <2>3. Timely'
    BY <1>1, <1>3, <2>1, Numbers DEF Timely, Ahead, TimersOK
  <2> QED
    BY <1>3, <2>2, <2>3 DEF TimeStep
<1> QED
  BY <1>5, <1>6, <1>7, <1>8, <1>9

LEMMA TimersSound ==
  ASSUME IInv, [Next]_vars
  PROVE  TimeStep
<1>1. TimersOK /\ Timely
  BY Parts DEF IInv
<1>2. CASE KnobCheck \/ KnobConvert \/ KnobStart \/ KnobStop
  <2>1. UNCHANGED <<timers, quiet, still, now>> /\ at' \notin {"note", "expire"}
    BY <1>2 DEF KnobCheck, KnobConvert, KnobStart, KnobStop, Lost, LowWait, Sampled, Go, history
  <2> QED
    BY <1>1, <1>2, <2>1, TimersKept, NotIdle DEF TimeStep
<1>3. CASE KnobExpire
  <2>1. /\ UNCHANGED <<idle, moved, quiet, ACTIVE>> /\ now' = 0 /\ still' = 0 /\ at = "expire"
        /\ at' = IF Above(now, idle.rst, Idle) THEN "stop" ELSE "rest"
    BY <1>3 DEF KnobExpire, Go, timers, history, flags
  <2>2. TimersOK'
    BY <1>1, <2>1 DEF TimersOK, Longest
  <2>3. Timely'
    BY <1>1, <2>1 DEF Timely, Ahead
  <2>4. Idles
    BY <1>1, <2>1, Numbers DEF Idles, FindsIdle, StoodStill, Overtaken, Above, Timely, Inputs
  <2> QED
    BY <2>2, <2>3, <2>4 DEF TimeStep
<1>4. CASE Command \/ UNCHANGED vars
  <2>1. UNCHANGED <<idle, moved, quiet, still, now, at>>
    BY <1>4 DEF Command, vars, timers, history, knob
  <2>2. TimersOK' /\ Timely'
    BY <1>1, <2>1 DEF TimersOK, Timely, Ahead, Longest
  <2> QED
    BY <1>4, <2>2, NotIdle DEF TimeStep
<1>5. CASE Turn
  <2>1. moved' = TRUE /\ quiet' = 0 /\ UNCHANGED <<idle, still, now, at>>
    BY <1>5 DEF Turn, knob
  <2>2. TimersOK' /\ Timely'
    BY <1>1, <2>1 DEF TimersOK, Timely, Longest
  <2> QED
    BY <1>5, <2>2, NotIdle DEF TimeStep
<1>6. CASE Tick
  <2>1. /\ idle' = [ink |-> UpTo(Longest(Gap), idle.ink + 1),
                    rst |-> UpTo(Longest(Idle), idle.rst + 1)]
        /\ now' = (IF at \in Checking THEN now + 1 ELSE now) /\ now' <= Late
        /\ quiet' = UpTo(Idle + 1, quiet + 1) /\ UNCHANGED <<moved, still, at>>
    BY <1>6 DEF Tick
  <2>2. /\ idle.rst \in 0 .. Longest(Idle) /\ idle.ink \in 0 .. Longest(Gap)
        /\ quiet \in 0 .. Idle + 1 /\ now \in 0 .. Late
        /\ Longest(Idle) \in Nat /\ Longest(Gap) \in Nat
    BY <1>1 DEF TimersOK, Longest
  <2>3. /\ idle'.rst \in 0 .. Longest(Idle) /\ idle'.ink \in 0 .. Longest(Gap)
        /\ idle'.rst <= idle.rst + 1
        /\ quiet' \in 0 .. Idle + 1 /\ (quiet' = quiet + 1 \/ quiet' > Idle)
    BY <2>1, <2>2 DEF UpTo
  <2>4. TimersOK'
    BY <1>1, <2>1, <2>2, <2>3 DEF TimersOK, Longest
  <2>5. Timely'
    BY <1>1, <2>1, <2>2, <2>3, Numbers DEF Timely, Ahead, Checking
  <2> QED
    BY <1>6, <2>4, <2>5, NotIdle DEF TimeStep
<1> QED
  BY <1>2, <1>3, <1>4, <1>5, <1>6, CheckTimers, CycleTimers DEF Next, Knob

-----------------------------------------------------------------------------
LEMMA InitSound == Init => IInv
<1> SUFFICES ASSUME Init PROVE IInv
  OBVIOUS
<1>1. 0 \in 0 .. Longest(Gap) /\ 0 \in 0 .. Longest(Idle) /\ 0 \in 0 .. Faults
      /\ 0 \in 0 .. Idle + 1 /\ 0 \in 0 .. Late
  BY DEF Longest
<1>2. idle \in [ink : 0 .. Longest(Gap), rst : 0 .. Longest(Idle)]
  BY <1>1 DEF Init
<1>3. TypeOK
  BY <1>1, <1>2 DEF Init, TypeOK, Procs, Labels
<1>4. Sound /\ KnobSound
  BY DEF Init, Sound, KnobSound, Checking
<1>5. Timely
  BY DEF Init, Timely, Ahead
<1> QED
  BY <1>3, <1>4, <1>5 DEF IInv

\* What a step of the specification keeps, and does to an input.
LEMMA StepSound ==
  ASSUME IInv, [Next]_vars
  PROVE  IInv' /\ Starts /\ Idles
<1>1. FlagStep /\ TimeStep
  BY FlagsSound, TimersSound
<1>2. MachineOK' /\ at' \in Labels
  <2>1. MachineOK /\ at \in Labels
    BY Parts DEF IInv
  <2>2. CASE Knob
    <3>1. UNCHANGED machine /\ at' \in Labels
      BY <2>1, <2>2 DEF Knob, KnobCheck, KnobConvert, KnobStart, KnobStop, KnobGap, KnobRestart,
                        KnobInk, KnobTurns, KnobTurned, KnobNote, KnobExpire, Check, Go, Labels,
                        Checking
    <3>2. fsm_req' \in {fsm_req, "LU_STARTUP", "LU_SHUTDOWN"}
      BY <2>2 DEF Knob, KnobCheck, KnobConvert, KnobStart, KnobStop, KnobGap, KnobRestart,
                  KnobInk, KnobTurns, KnobTurned, KnobNote, KnobExpire, Check, Lost
    <3> QED
      BY <2>1, <3>1, <3>2 DEF MachineOK, machine, Requests
  <2>3. CASE Cycle
    <3>1. fsm_req' = "IDLE" /\ UNCHANGED at
      BY <2>3 DEF Cycle, knob
    <3>2. lu' \in BOOLEAN /\ proc' \in Procs
      BY <2>1, <2>3 DEF Cycle, Accept, Progress, machine, Procs, MachineOK
    <3> QED
      BY <2>1, <3>1, <3>2 DEF MachineOK
  <2>4. CASE Command \/ Turn \/ Tick \/ UNCHANGED vars
    BY <2>1, <2>4 DEF Command, Turn, Tick, vars, machine, knob, MachineOK
  <2> QED
    BY <2>2, <2>3, <2>4 DEF Next
<1>3. TypeOK'
  BY <1>1, <1>2 DEF FlagStep, TimeStep, TypeOK, FlagsOK, TimersOK, MachineOK
<1> QED
  BY <1>1, <1>3 DEF IInv, FlagStep, TimeStep

\* The flags, the timer and the history of the inputs stay sound.
LEMMA Invariant == Spec => []IInv
<1>1. IInv /\ [Next]_vars => IInv'
  BY StepSound
<1> QED
  BY InitSound, <1>1, PTL DEF Spec

-----------------------------------------------------------------------------
\* No count of lost samples passes the fault, and no timer its bound.
THEOREM TypeCorrect == Spec => []TypeOK
<1>1. IInv => TypeOK
  BY DEF IInv
<1> QED
  BY Invariant, <1>1, PTL

\* What an input counts as lost was lost in a row.
THEOREM AlarmCorrect == Spec => []NoFalseAlarm
<1>1. IInv => NoFalseAlarm
  BY DEF IInv, Sound, NoFalseAlarm
<1> QED
  BY Invariant, <1>1, PTL

\* An input starts the machine only after its signal was low.
THEOREM StartCorrect == Spec => FreshStarts
<1>1. IInv /\ [Next]_vars
        => [\A i \in Inputs : ~ ACTIVE[i] /\ ACTIVE'[i] => fresh[i]]_vars
  BY StepSound DEF Starts
<1> QED
  BY Invariant, <1>1, PTL DEF Spec, FreshStarts

\* However the interrupt preempts the checks of the task, an input finds a machine
\* idle that turned within the idle time only in a check that was overtaken.
THEOREM IdleCorrect == Spec => IdleMeansStill
<1>1. IInv /\ [Next]_vars
        => [\A i \in Inputs : FindsIdle(i) =>
              StoodStill(i) + Late > Idle \/ (i = "knob" /\ Overtaken)]_vars
  BY StepSound DEF Idles
<1> QED
  BY Invariant, <1>1, PTL DEF Spec, IdleMeansStill
=============================================================================
