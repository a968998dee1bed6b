------------------------------- MODULE Flash -------------------------------
(***************************************************************************)
(* The configuration storage (flash.c): a ring of blocks in a few erasable *)
(* sectors.  A save writes the number of the block, the registers and then *)
(* the checksum of a clean block; a load takes the valid block with the    *)
(* greatest number; a wipe spoils the checksum of each valid block.        *)
(*                                                                         *)
(* The commands run in the shell task, the lowest priority of all, so the  *)
(* motor may start between any two of their steps and the power may fail   *)
(* at any step.  Abstracted: a set of register values is one member of     *)
(* Values, and the registers fit in a block.  A block is "clean" (all ones)*)
(* "spoiled" (written, wrong checksum) or "valid".                         *)
(***************************************************************************)
EXTENDS Integers, FiniteSetsExt

CONSTANTS
  Sectors,    \* number of erasable sectors (4 or 2)
  PerSector,  \* blocks in a sector (8)
  Values,     \* register values
  Default,    \* the values a controller without a valid block starts with
  MaxNumber,  \* bound on block numbers, a 32-bit counter in the code
  MaxCrashes  \* bound on power failures

ASSUME StorageAssumption == Sectors \in Nat \ {0} /\ PerSector \in Nat \ {0}
ASSUME ValuesAssumption  == Default \in Values
ASSUME BoundsAssumption  == MaxNumber \in Nat /\ MaxCrashes \in Nat

VARIABLES
  blocks,   \* the storage
  regs,     \* the registers in RAM
  sh,       \* what the shell is about to do
  at,       \* the block it works on
  number,   \* the number of the block being written
  running,  \* whether the motor runs (pm.lu_MODE)
  crashes,  \* power failures so far
  saved     \* history: the values of the last save or wipe that came to its end

vars == <<blocks, regs, sh, at, number, running, crashes, saved>>

N     == Sectors * PerSector
Block == 0 .. N - 1
Clean == [state |-> "clean", number |-> 0, content |-> Default]

SectorOf(b)  == b \div PerSector
SectorHead(b) == SectorOf(b) * PerSector

Valid(storage) == {b \in Block : storage[b].state = "valid"}

\* Mutant: a scan that takes the block with the least number.
ScanOldest(storage) == {b \in Valid(storage) :
  \A c \in Valid(storage) : storage[b].number <= storage[c].number}

\* flash_block_scan: the valid block with the greatest number, if there is one.
Scan(storage) == {b \in Valid(storage) :
  \A c \in Valid(storage) : storage[c].number <= storage[b].number}

\* flash_block_regs_load on top of the defaults.
Load(storage) ==
  IF Scan(storage) = {} THEN Default
  ELSE storage[CHOOSE b \in Scan(storage) : TRUE].content

Writing == {"erase", "number", "content", "crc"}

TypeOK ==
  /\ blocks \in [Block -> [state : {"clean", "spoiled", "valid"},
                           number : 0 .. MaxNumber, content : Values]]
  /\ regs \in Values /\ saved \in Values
  /\ sh \in Writing \cup {"idle", "wipe"}
  /\ at \in Block /\ number \in 0 .. MaxNumber
  /\ running \in BOOLEAN /\ crashes \in 0 .. MaxCrashes

\* A controller fresh from the factory, before its first load.
Init ==
  /\ blocks = [b \in Block |-> Clean]
  /\ regs = Default /\ saved = Default
  /\ sh = "idle" /\ at = 0 /\ number = 0
  /\ running = FALSE /\ crashes = 0

-----------------------------------------------------------------------------
\* Registers are written by the shell, the network and the auto-tuning.
RegWrite ==
  /\ regs' \in Values
  /\ UNCHANGED <<blocks, sh, at, number, running, crashes, saved>>

\* The motor is started and stopped by tasks and interrupts of a higher
\* priority, hence between any two steps of the shell. An erase is one step:
\* it keeps interrupts disabled.
StartStop ==
  /\ running' = ~ running
  /\ UNCHANGED <<blocks, regs, sh, at, number, crashes, saved>>

Newest == CHOOSE b \in Scan(blocks) : TRUE

\* The block after the newest one, and the blocks from there in ring order.
Origin == IF Scan(blocks) = {} THEN 0 ELSE (Newest + 1) % N
Ring(k) == (Origin + k) % N
CleanSteps == {k \in 0 .. N - 1 : blocks[Ring(k)].state = "clean"}

\* Mutant: the search takes the next block whether it is dirty or not.
TargetUnchecked == Ring(0)

\* The first clean block of the ring; if all are dirty, the sector of the first
\* block is erased and its head is used.
Target == IF CleanSteps = {} THEN Origin ELSE Ring(Min(CleanSteps))

\* Mutant: a new block takes the number of the newest one.
NextNumberSame == IF Scan(blocks) = {} THEN 1 ELSE blocks[Newest].number
NextNumber     == IF Scan(blocks) = {} THEN 1 ELSE blocks[Newest].number + 1

\* flash_prog refuses a running motor, scans and searches.
SaveBegin ==
  /\ sh = "idle" /\ ~ running
  /\ NextNumber <= MaxNumber /\ number' = NextNumber
  /\ at' = Target
  /\ sh' = IF CleanSteps = {} THEN "erase" ELSE "number"
  /\ UNCHANGED <<blocks, regs, running, crashes, saved>>

Erase ==
  /\ sh = "erase" /\ sh' = "number"
  /\ at' = SectorHead(at)
  /\ blocks' = [b \in Block |-> IF SectorOf(b) = SectorOf(at) THEN Clean ELSE blocks[b]]
  /\ UNCHANGED <<regs, number, running, crashes, saved>>

WriteNumber ==
  /\ sh = "number" /\ sh' = "content"
  /\ blocks' = [blocks EXCEPT ![at].state = "spoiled", ![at].number = number]
  /\ UNCHANGED <<regs, at, number, running, crashes, saved>>

WriteContent ==
  /\ sh = "content" /\ sh' = "crc"
  /\ blocks' = [blocks EXCEPT ![at].content = regs]
  /\ UNCHANGED <<regs, at, number, running, crashes, saved>>

WriteCrc ==
  /\ sh = "crc" /\ sh' = "idle"
  /\ blocks' = [blocks EXCEPT ![at].state = "valid"]
  /\ saved' = blocks[at].content
  /\ UNCHANGED <<regs, at, number, running, crashes>>

LastBlock    == N - 1

\* flash_wipe walks the storage once and spoils the valid blocks.
WipeBegin ==
  /\ sh = "idle" /\ ~ running
  /\ sh' = "wipe" /\ at' = 0
  /\ UNCHANGED <<blocks, regs, number, running, crashes, saved>>

WipeStep ==
  /\ sh = "wipe"
  /\ blocks' = [blocks EXCEPT ![at].state =
                  IF blocks[at].state = "valid" THEN "spoiled" ELSE blocks[at].state]
  /\ IF at < LastBlock
       THEN at' = at + 1 /\ UNCHANGED <<sh, saved>>
       ELSE sh' = "idle" /\ saved' = Default /\ UNCHANGED at
  /\ UNCHANGED <<regs, number, running, crashes>>

\* A power failure: an erase leaves its sector in any mixture, everything else
\* leaves the storage as it is, and the controller starts from what it loads.
\* A wipe that was cut leaves whatever is loaded then.
Crash ==
  /\ crashes < MaxCrashes /\ crashes' = crashes + 1
  /\ \E kept \in SUBSET Block, spoiled \in SUBSET Block :
       /\ kept \cap spoiled = {}
       /\ blocks' = [b \in Block |->
            IF sh # "erase" \/ SectorOf(b) # SectorOf(at) \/ b \in kept THEN blocks[b]
            ELSE IF b \in spoiled THEN [blocks[b] EXCEPT !.state = "spoiled"] ELSE Clean]
  /\ regs' = Load(blocks')
  /\ saved' = IF sh = "wipe" THEN Load(blocks') ELSE saved
  /\ sh' = "idle" /\ at' = 0 /\ number' = 0 /\ running' = FALSE

Save == SaveBegin \/ Erase \/ WriteNumber \/ WriteContent \/ WriteCrc
Next == Save \/ WipeBegin \/ WipeStep \/ RegWrite \/ StartStop \/ Crash

Spec == Init /\ [][Next]_vars

-----------------------------------------------------------------------------
\* A controller that is not in the middle of a command loads, if its power fails
\* now, the values of the last save that came to its end: a save cut at any
\* point, the erase of a sector included, costs nothing but the new values.
SavedIsLoaded == sh = "idle" => Load(blocks) = saved

\* Numbers of valid blocks are distinct, so that "the newest" is never a matter
\* of the order of the scan, whatever was wiped or cut before.
NumbersAreDistinct ==
  \A b, c \in Block :
    blocks[b].state = "valid" /\ blocks[c].state = "valid" /\ b # c
      => blocks[b].number # blocks[c].number

\* Only clean blocks are programmed: flash memory can clear bits, not set them.
ProgramsCleanBlocks ==
  [][\A b \in Block : blocks'[b].number # blocks[b].number /\ blocks'[b] # Clean
        => blocks[b] = Clean]_vars

=============================================================================
