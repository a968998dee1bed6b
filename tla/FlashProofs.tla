---------------------------- MODULE FlashProofs ----------------------------
(***************************************************************************)
(* Proofs about Flash, for every number and size of the sectors and every  *)
(* number of saves.                                                        *)
(***************************************************************************)
EXTENDS Flash, FiniteSetTheorems, TLAPS

Storage == [Block -> [state : {"clean", "spoiled", "valid"},
                      number : 0 .. MaxNumber, content : Values]]

Dirty(b) == blocks[b].state # "clean"

CleanIsClean == \A b \in Block : ~ Dirty(b) => blocks[b] = Clean

\* The block that is being written was clean, and holds its number since.
AtWork ==
  /\ sh = "number" => blocks[at] = Clean
  /\ sh \in {"content", "crc"} => blocks[at].state = "spoiled" /\ blocks[at].number = number

\* The number being written is greater than that of every valid block.
Greater == sh \in Writing => \A b \in Valid(blocks) : blocks[b].number < number

IInv == TypeOK /\ CleanIsClean /\ AtWork /\ Greater /\ NumbersAreDistinct

USE StorageAssumption, ValuesAssumption, BoundsAssumption

-----------------------------------------------------------------------------
(* Sectors and blocks *)

LEMMA BlocksAreThere == N \in Nat /\ N >= PerSector /\ N > 0 /\ (Sectors > 1 => N - 1 >= PerSector)
<1>1. Sectors * PerSector \in Nat /\ Sectors * PerSector >= PerSector
  BY Z3
<1>2. ASSUME Sectors > 1 PROVE Sectors * PerSector >= PerSector + PerSector
  BY <1>2, Z3
<1> QED
  BY <1>1, <1>2 DEF N

LEMMA HeadOfSector ==
  ASSUME NEW b \in Block
  PROVE  SectorHead(b) \in Block /\ SectorHead(b) <= b /\ SectorOf(SectorHead(b)) = SectorOf(b)
<1>1. b \in Nat /\ b < N
  BY BlocksAreThere DEF Block
<1>2. b \div PerSector \in Nat
  BY <1>1, Z3
<1>3. (b \div PerSector) * PerSector \in Nat /\ (b \div PerSector) * PerSector <= b
  BY <1>1, <1>2, Z3
<1>4. ((b \div PerSector) * PerSector) \div PerSector = b \div PerSector
  BY <1>1, <1>2, Z3
<1> QED
  BY <1>1, <1>3, <1>4, BlocksAreThere DEF SectorHead, SectorOf, Block

\* The ring ends in another sector than it begins, and below the head of a sector
\* are other sectors.
LEMMA OtherSectors ==
  /\ Sectors > 1 => SectorOf(N - 1) # SectorOf(0)
  /\ \A b, c \in Block : b < SectorHead(c) => SectorOf(b) # SectorOf(c)
<1>1. ASSUME Sectors > 1 PROVE SectorOf(N - 1) # SectorOf(0)
  <2>1. N - 1 \in Nat /\ N - 1 >= PerSector
    BY <1>1, BlocksAreThere
  <2>2. \A x \in Nat : x >= PerSector => x \div PerSector >= 1
    BY Z3
  <2>3. 0 \div PerSector = 0
    BY Z3
  <2> QED
    BY <2>1, <2>2, <2>3 DEF SectorOf
<1>2. ASSUME NEW b \in Block, NEW c \in Block, b < SectorHead(c) PROVE SectorOf(b) # SectorOf(c)
  <2>1. b \in Nat /\ c \in Nat
    BY BlocksAreThere DEF Block
  <2>2. c \div PerSector \in Nat /\ b \div PerSector \in Nat
    BY <2>1, Z3
  <2>3. b < (b \div PerSector) * PerSector + PerSector /\ b >= (b \div PerSector) * PerSector
    BY <2>1, <2>2, Z3
  <2>4. ASSUME b \div PerSector = c \div PerSector PROVE FALSE
    <3>1. (b \div PerSector) * PerSector = (c \div PerSector) * PerSector
      BY <2>4
    <3>2. b < (c \div PerSector) * PerSector
      BY <1>2 DEF SectorHead, SectorOf
    <3>3. (b \div PerSector) * PerSector \in Nat
      BY <2>2, Z3
    <3> QED
      BY <2>1, <2>3, <3>1, <3>2, <3>3
  <2> QED
    BY <2>4 DEF SectorOf
<1> QED
  BY <1>1, <1>2

\* One step around the ring.
LEMMA AroundTheRing ==
  ASSUME NEW x \in 0 .. N - 1, NEW k \in 0 .. N
  PROVE  (x + k) % N = IF x + k < N THEN x + k ELSE x + k - N
<1>1. N \in Nat /\ N > 0
  BY BlocksAreThere
<1>2. \A y \in Nat, n \in Nat : n > 0 /\ y < n => y % n = y
  BY Z3
<1>3. CASE x + k < N
  BY <1>1, <1>2, <1>3
<1>4. CASE x + k >= N
  <2> DEFINE y == x + k - N
  <2>1. y \in Nat /\ y + N = x + k /\ y < N
    BY <1>1, <1>4
  <2> HIDE DEF y
  <2>2. (y + N) % N = y
    BY <1>1, <2>1, Z3
  <2> QED
    BY <1>1, <1>4, <2>1, <2>2 DEF y
<1> QED
  BY <1>1, <1>3, <1>4

\* Sectors follow one another.
LEMMA BetweenThem ==
  ASSUME NEW b \in Block, NEW x \in Block, NEW c \in Block,
         b <= x, x <= c, SectorOf(b) = SectorOf(c)
  PROVE  SectorOf(x) = SectorOf(c)
<1>1. b \in Nat /\ x \in Nat /\ c \in Nat
  BY BlocksAreThere DEF Block
<1>2. \A y \in Nat, z \in Nat : y <= z => y \div PerSector <= z \div PerSector
  BY Z3
<1>3. \A y \in Nat : y \div PerSector \in Nat
  BY Z3
<1> QED
  BY <1>1, <1>2, <1>3 DEF SectorOf

-----------------------------------------------------------------------------
(* The search for a block *)

\* The least element of a set of numbers.
LEMMA SmallestOf ==
  ASSUME NEW S \in SUBSET Nat, S # {}
  PROVE  \E p \in S : \A q \in S : p <= q
<1> DEFINE R == OpToRel(<, Nat)
<1>1. IsWellFoundedOn(R, Nat)
  BY NatLessThanWellFounded
<1>2. \A x, y \in Nat : x < y => <<x, y>> \in R
  BY DEF OpToRel
<1> HIDE DEF R
<1>3. PICK p \in S : \A q \in S : ~ (<<q, p>> \in R)
  BY <1>1, WFMin
<1>4. \A q \in S : ~ (q < p)
  BY <1>2, <1>3
<1>5. \A q \in S : p <= q
  BY <1>4
<1> QED
  BY <1>5

\* A storage with a valid block has a newest one.
LEMMA NewestIsThere ==
  ASSUME NEW s \in Storage, Valid(s) # {}
  PROVE  Scan(s) # {}
<1> DEFINE S == {MaxNumber - s[b].number : b \in Valid(s)}
<1>1. \A b \in Valid(s) : b \in Block /\ s[b].number \in 0 .. MaxNumber
  BY DEF Valid, Storage
<1>2. S \in SUBSET Nat /\ S # {}
  BY <1>1
<1>3. \A b \in Valid(s) : MaxNumber - s[b].number \in S
  OBVIOUS
<1>4. PICK p \in S : \A q \in S : p <= q
  BY <1>2, SmallestOf
<1>5. PICK b \in Valid(s) : p = MaxNumber - s[b].number
  OBVIOUS
<1> HIDE DEF S
<1>6. \A c \in Valid(s) : MaxNumber - s[b].number <= MaxNumber - s[c].number
  BY <1>3, <1>4, <1>5
<1>7. \A c \in Valid(s) : s[c].number <= s[b].number
  BY <1>1, <1>5, <1>6
<1> QED
  BY <1>5, <1>7 DEF Scan

Distinct(s) == \A b, c \in Valid(s) : b # c => s[b].number # s[c].number

\* If no two valid blocks share a number, the newest block is one block.
LEMMA NewestIsOne ==
  ASSUME NEW s \in Storage, Distinct(s), NEW b \in Scan(s)
  PROVE  Scan(s) = {b} /\ Load(s) = s[b].content
<1>1. \A c \in Scan(s) : c = b
  <2>1. TAKE c \in Scan(s)
  <2>2. s[b].number <= s[c].number /\ s[c].number <= s[b].number /\ b \in Valid(s) /\ c \in Valid(s)
    BY DEF Scan
  <2>3. s[b].number \in Nat /\ s[c].number \in Nat
    BY <2>2 DEF Valid, Storage
  <2> QED
    BY <2>2, <2>3 DEF Distinct
<1>2. Scan(s) = {b}
  BY <1>1
<1>3. (CHOOSE c \in Scan(s) : TRUE) = b
  BY <1>2
<1> QED
  BY <1>2, <1>3 DEF Load

\* What is loaded depends on the newest block alone: a storage that lost older
\* blocks, or gained blocks that are not valid, loads the same values.
LEMMA LoadKept ==
  ASSUME NEW s \in Storage, NEW t \in Storage, Distinct(s),
         Valid(t) \subseteq Valid(s), \A b \in Valid(t) : t[b] = s[b],
         Scan(s) \subseteq Valid(t)
  PROVE  Load(t) = Load(s)
<1>1. CASE Scan(s) = {}
  <2>1. Valid(t) = {}
    BY <1>1, NewestIsThere
  <2> QED
    BY <1>1, <2>1 DEF Load, Scan
<1>2. CASE Scan(s) # {}
  <2>1. PICK b \in Scan(s) : TRUE
    BY <1>2
  <2>2. b \in Scan(t)
    BY <2>1 DEF Scan
  <2>3. Distinct(t)
    BY DEF Distinct
  <2> QED
    BY <2>1, <2>2, <2>3, NewestIsOne
<1> QED
  BY <1>1, <1>2

LEMMA NewestInRing ==
  ASSUME TypeOK, Scan(blocks) # {}
  PROVE  Newest \in Scan(blocks) /\ Newest \in Valid(blocks) /\ Newest \in Block
<1>1. Newest \in Scan(blocks)
  BY DEF Newest
<1> QED
  BY <1>1 DEF Scan, Valid

LEMMA RingOfBlocks ==
  ASSUME TypeOK
  PROVE  /\ Origin \in Block
         /\ \A k \in 0 .. N : Ring(k) = IF Origin + k < N THEN Origin + k ELSE Origin + k - N
         /\ \A k \in 0 .. N - 1 : Ring(k) \in Block
<1>1. N \in Nat /\ N > 0
  BY BlocksAreThere
<1>2. Origin \in 0 .. N - 1
  <2>1. CASE Scan(blocks) = {}
    BY <1>1, <2>1 DEF Origin
  <2>2. CASE Scan(blocks) # {}
    <3>1. Newest \in 0 .. N - 1
      BY <2>2, NewestInRing DEF Block
    <3>2. 1 \in 0 .. N
      BY <1>1
    <3>3. (Newest + 1) % N = IF Newest + 1 < N THEN Newest + 1 ELSE Newest + 1 - N
      BY <3>1, <3>2, AroundTheRing
    <3> QED
      BY <1>1, <2>2, <3>1, <3>3 DEF Origin
  <2> QED
    BY <2>1, <2>2
<1>3. \A k \in 0 .. N : Ring(k) = IF Origin + k < N THEN Origin + k ELSE Origin + k - N
  BY <1>2, AroundTheRing DEF Ring
<1> QED
  BY <1>1, <1>2, <1>3 DEF Block

\* The block found is a block of the storage; when there is a clean one, it is
\* clean, and the block before it, if it is not the first one, is not.
LEMMA TargetFound ==
  ASSUME TypeOK
  PROVE  /\ Target \in Block
         /\ CleanSteps # {} =>
              /\ ~ Dirty(Target)
              /\ Target = 0 \/ Target = Origin \/ (Target - 1 \in Block /\ Dirty(Target - 1))
         /\ CleanSteps = {} => Target = Origin /\ \A b \in Block : Dirty(b)
<1>1. N \in Nat /\ N > 0
  BY BlocksAreThere
<1>2. ASSUME CleanSteps # {}
      PROVE  /\ Target \in Block /\ ~ Dirty(Target)
             /\ Target = 0 \/ Target = Origin \/ (Target - 1 \in Block /\ Dirty(Target - 1))
  <2> DEFINE k == Min(CleanSteps)
  <2>1. CleanSteps \in SUBSET Nat
    BY <1>1 DEF CleanSteps
  <2>2. \E x \in CleanSteps : \A y \in CleanSteps : x <= y
    BY <1>2, <2>1, SmallestOf
  <2>3. k \in CleanSteps /\ \A y \in CleanSteps : k <= y
    BY <2>2 DEF Min
  <2>4. Target = Ring(k)
    BY <1>2 DEF Target
  <2> HIDE DEF k
  <2>5. k \in 0 .. N - 1 /\ blocks[Ring(k)].state = "clean"
    BY <2>3 DEF CleanSteps
  <2>6. Ring(k) \in Block
    BY <2>5, RingOfBlocks
  <2>7. Ring(k) = 0 \/ Ring(k) = Origin \/ (Ring(k) - 1 \in Block /\ Dirty(Ring(k) - 1))
    <3>0. Origin \in 0 .. N - 1
      BY RingOfBlocks DEF Block
    <3>1. CASE k = 0
      <4>1. 0 \in 0 .. N /\ Origin + 0 < N /\ Origin + 0 = Origin
        BY <1>1, <3>0
      <4> QED
        BY <3>1, <4>1, RingOfBlocks
    <3>2. CASE k > 0 /\ Ring(k) # 0
      <4>1. k - 1 \in 0 .. N - 1 /\ k - 1 \in 0 .. N /\ k \in 0 .. N /\ ~ (k <= k - 1)
        BY <1>1, <2>5, <3>2
      <4>2. Ring(k) = IF Origin + k < N THEN Origin + k ELSE Origin + k - N
        BY <4>1, RingOfBlocks
      <4>3. Ring(k - 1) = IF Origin + (k - 1) < N THEN Origin + (k - 1) ELSE Origin + (k - 1) - N
        BY <4>1, RingOfBlocks
      <4>4. Ring(k - 1) = Ring(k) - 1
        BY <1>1, <2>5, <3>0, <3>2, <4>2, <4>3
      <4>5. k - 1 \notin CleanSteps
        BY <2>3, <4>1
      <4>6. Ring(k - 1) \in Block /\ blocks[Ring(k - 1)].state # "clean"
        BY <4>1, <4>5, RingOfBlocks DEF CleanSteps
      <4> QED
        BY <4>4, <4>6 DEF Dirty
    <3> QED
      BY <2>5, <3>1, <3>2
  <2> QED
    BY <2>4, <2>5, <2>6, <2>7 DEF Dirty
<1>3. ASSUME CleanSteps = {} PROVE Target = Origin /\ \A b \in Block : Dirty(b)
  <2>0. Origin \in 0 .. N - 1
    BY RingOfBlocks DEF Block
  <2>1. \A b \in Block : Dirty(b)
    <3>1. TAKE b \in Block
    <3> DEFINE k == IF b >= Origin THEN b - Origin ELSE b + N - Origin
    <3>2. b \in 0 .. N - 1
      BY DEF Block
    <3>3. k \in 0 .. N - 1 /\ k \in 0 .. N
          /\ b = IF Origin + k < N THEN Origin + k ELSE Origin + k - N
      BY <1>1, <2>0, <3>2
    <3> HIDE DEF k
    <3>4. Ring(k) = b
      BY <3>3, RingOfBlocks
    <3> QED
      BY <1>3, <3>3, <3>4 DEF CleanSteps, Dirty
  <2> QED
    BY <1>3, <2>1 DEF Target
<1> QED
  BY <1>2, <1>3, RingOfBlocks

\* The number of a new block is greater than that of every valid block.
LEMMA NextIsGreater ==
  ASSUME TypeOK
  PROVE  /\ NextNumber \in Nat
         /\ \A b \in Valid(blocks) : blocks[b].number < NextNumber
<1>0. \A b \in Valid(blocks) : blocks[b].number \in Nat
  BY DEF TypeOK, Valid
<1>1. CASE Scan(blocks) = {}
  <2>1. Valid(blocks) = {}
    BY <1>1, NewestIsThere DEF TypeOK, Storage
  <2> QED
    BY <1>1, <2>1 DEF NextNumber
<1>2. CASE Scan(blocks) # {}
  <2>1. Newest \in Valid(blocks) /\ \A b \in Valid(blocks) : blocks[b].number <= blocks[Newest].number
    BY <1>2, NewestInRing DEF Scan
  <2> QED
    BY <1>0, <1>2, <2>1 DEF NextNumber
<1> QED
  BY <1>1, <1>2

-----------------------------------------------------------------------------
(* Types, and the numbers of the blocks *)

BlockType == [state : {"clean", "spoiled", "valid"}, number : 0 .. MaxNumber, content : Values]

\* What each step makes of a block.
Cut(b) == \/ blocks'[b] = blocks[b] \/ blocks'[b] = Clean
          \/ blocks'[b] = [blocks[b] EXCEPT !.state = "spoiled"]

LEMMA CutTypes ==
  /\ Clean \in BlockType
  /\ \A r \in BlockType : [r EXCEPT !.state = "spoiled"] \in BlockType
<1>1. 0 \in 0 .. MaxNumber
  OBVIOUS
<1> QED
  BY <1>1 DEF BlockType, Clean

LEMMA BlockTypes ==
  ASSUME NEW r \in BlockType, NEW n \in 0 .. MaxNumber, NEW v \in Values
  PROVE  /\ [r EXCEPT !.state = "valid"] \in BlockType
         /\ [r EXCEPT !.state = "spoiled", !.number = n] \in BlockType
         /\ [r EXCEPT !.content = v] \in BlockType
<1>1. [r EXCEPT !.state = "valid"] \in BlockType
  BY DEF BlockType
<1>2. [r EXCEPT !.state = "spoiled", !.number = n] \in BlockType
  BY DEF BlockType
<1>3. [r EXCEPT !.content = v] \in BlockType
  BY DEF BlockType
<1> QED
  BY <1>1, <1>2, <1>3

LEMMA LoadTypes ==
  ASSUME NEW s \in Storage
  PROVE  Load(s) \in Values
<1>1. CASE Scan(s) = {}
  BY <1>1 DEF Load
<1>2. CASE Scan(s) # {}
  <2> DEFINE b == CHOOSE c \in Scan(s) : TRUE
  <2>1. b \in Scan(s)
    BY <1>2
  <2> HIDE DEF b
  <2>2. b \in Block
    BY <2>1 DEF Scan, Valid
  <2>3. s[b].content \in Values
    BY <2>2 DEF Storage
  <2> QED
    BY <1>2, <2>3 DEF Load, b
<1> QED
  BY <1>1, <1>2

\* A step that is cut, and a step of a wipe, leave each block as it was, clean or
\* spoiled.
LEMMA CrashCuts ==
  ASSUME TypeOK, Crash
  PROVE  /\ blocks' \in Storage /\ \A b \in Block : Cut(b)
         /\ sh # "erase" => blocks' = blocks
         /\ \A b \in Block : SectorOf(b) # SectorOf(at) => blocks'[b] = blocks[b]
<1>1. PICK kept \in SUBSET Block, spoiled \in SUBSET Block :
        blocks' = [b \in Block |->
            IF sh # "erase" \/ SectorOf(b) # SectorOf(at) \/ b \in kept THEN blocks[b]
            ELSE IF b \in spoiled THEN [blocks[b] EXCEPT !.state = "spoiled"] ELSE Clean]
  BY DEF Crash
<1>2. blocks \in [Block -> BlockType]
  BY DEF TypeOK, BlockType
<1>3. \A b \in Block : Cut(b)
  BY <1>1 DEF Cut
<1>4. \A b \in Block : blocks[b] \in BlockType
  BY <1>2
<1>5. \A b \in Block : Clean \in BlockType /\ [blocks[b] EXCEPT !.state = "spoiled"] \in BlockType
  BY <1>4, CutTypes
<1>6. blocks' \in [Block -> BlockType]
  BY <1>1, <1>4, <1>5
<1>7. ASSUME sh # "erase" PROVE blocks' = blocks
  BY <1>1, <1>2, <1>7
<1>8. \A b \in Block : SectorOf(b) # SectorOf(at) => blocks'[b] = blocks[b]
  BY <1>1
<1> QED
  BY <1>3, <1>6, <1>7, <1>8 DEF Storage, BlockType

LEMMA WipeCuts ==
  ASSUME TypeOK, WipeStep
  PROVE  /\ blocks' \in Storage /\ \A b \in Block : Cut(b)
         /\ \A b \in Block : b # at => blocks'[b] = blocks[b]
         /\ blocks'[at].state # "valid"
         /\ \A b \in Block : blocks'[b].state = "clean" <=> blocks[b].state = "clean"
<1>1. blocks \in [Block -> BlockType] /\ at \in Block
  BY DEF TypeOK, BlockType
<1> DEFINE r == [blocks[at] EXCEPT !.state =
                   IF blocks[at].state = "valid" THEN "spoiled" ELSE blocks[at].state]
<1>2. blocks' = [blocks EXCEPT ![at] = r]
  BY <1>1 DEF WipeStep
<1>3. blocks[at] \in BlockType
  BY <1>1
<1>4. /\ r = blocks[at] \/ r = [blocks[at] EXCEPT !.state = "spoiled"]
      /\ r.state # "valid" /\ (r.state = "clean" <=> blocks[at].state = "clean")
  BY <1>3 DEF BlockType
<1>5. r \in BlockType
  BY <1>3, <1>4, CutTypes
<1> HIDE DEF r
<1>6. blocks' \in [Block -> BlockType] /\ blocks'[at] = r /\ \A b \in Block : b # at => blocks'[b] = blocks[b]
  BY <1>1, <1>2, <1>5
<1> QED
  BY <1>4, <1>6 DEF Cut, Storage, BlockType

LEMMA InitTypes == Init => IInv
<1> SUFFICES ASSUME Init PROVE IInv
  OBVIOUS
<1>0. 0 \in Block /\ 0 \in 0 .. MaxNumber /\ 0 \in 0 .. MaxCrashes
  BY BlocksAreThere DEF Block
<1>1. blocks = [b \in Block |-> Clean] /\ sh = "idle"
  BY DEF Init
<1>2. blocks \in [Block -> BlockType]
  BY <1>1, CutTypes
<1>3. TypeOK
  BY <1>0, <1>2 DEF Init, TypeOK, BlockType
<1>4. \A b \in Block : blocks[b] = Clean /\ blocks[b].state = "clean"
  BY <1>1 DEF Clean
<1>5. CleanIsClean /\ NumbersAreDistinct
  BY <1>4 DEF CleanIsClean, NumbersAreDistinct
<1> QED
  BY <1>1, <1>3, <1>5 DEF IInv, AtWork, Greater, Writing

LEMMA TypeStep == TypeOK /\ [Next]_vars => TypeOK'
<1> SUFFICES ASSUME TypeOK, [Next]_vars PROVE TypeOK'
  OBVIOUS
<1>0. blocks \in [Block -> BlockType] /\ at \in Block /\ number \in 0 .. MaxNumber /\ regs \in Values
  BY DEF TypeOK, BlockType
<1>1. N \in Nat /\ N > 0 /\ 0 \in Block
  BY BlocksAreThere DEF Block
<1>2. blocks[at] \in BlockType
  BY <1>0
<1>3. Clean \in BlockType
  BY CutTypes
<1>4. \A r \in BlockType : [blocks EXCEPT ![at] = r] \in [Block -> BlockType]
  BY <1>0
<1>5. CASE SaveBegin
  <2>1. Target \in Block /\ NextNumber \in Nat
    BY TargetFound, NextIsGreater
  <2> QED
    BY <1>5, <2>1 DEF SaveBegin, TypeOK, Writing
<1>6. CASE Erase
  <2>1. blocks' \in [Block -> BlockType]
    BY <1>0, <1>3, <1>6 DEF Erase
  <2>2. at' \in Block
    BY <1>0, <1>6, HeadOfSector DEF Erase
  <2> QED
    BY <1>6, <2>1, <2>2 DEF Erase, TypeOK, Writing, BlockType
<1>7. CASE WriteNumber
  <2>1. [blocks[at] EXCEPT !.state = "spoiled", !.number = number] \in BlockType
    BY <1>0, <1>2, BlockTypes
  <2>2. blocks' = [blocks EXCEPT ![at] = [blocks[at] EXCEPT !.state = "spoiled", !.number = number]]
    BY <1>0, <1>2, <1>7 DEF WriteNumber, BlockType
  <2>3. blocks' \in [Block -> BlockType]
    BY <1>4, <2>1, <2>2
  <2> QED
    BY <1>7, <2>3 DEF WriteNumber, TypeOK, Writing, BlockType
<1>8. CASE WriteContent
  <2>1. [blocks[at] EXCEPT !.content = regs] \in BlockType
    BY <1>0, <1>2, BlockTypes
  <2>2. blocks' = [blocks EXCEPT ![at] = [blocks[at] EXCEPT !.content = regs]]
    BY <1>0, <1>8 DEF WriteContent
  <2>3. blocks' \in [Block -> BlockType]
    BY <1>4, <2>1, <2>2
  <2> QED
    BY <1>8, <2>3 DEF WriteContent, TypeOK, Writing, BlockType
<1>9. CASE WriteCrc
  <2>1. [blocks[at] EXCEPT !.state = "valid"] \in BlockType
    BY <1>0, <1>2, BlockTypes
  <2>2. blocks' = [blocks EXCEPT ![at] = [blocks[at] EXCEPT !.state = "valid"]]
    BY <1>0, <1>9 DEF WriteCrc
  <2>3. blocks' \in [Block -> BlockType]
    BY <1>4, <2>1, <2>2
  <2>4. blocks[at].content \in Values
    BY <1>2 DEF BlockType
  <2> QED
    BY <1>9, <2>3, <2>4 DEF WriteCrc, TypeOK, BlockType
<1>10. CASE WipeBegin
  BY <1>1, <1>10 DEF WipeBegin, TypeOK
<1>11. CASE WipeStep
  <2>1. blocks' \in [Block -> BlockType]
    BY <1>11, WipeCuts DEF Storage, BlockType
  <2>2. at' \in Block /\ sh' \in {"wipe", "idle"} /\ saved' \in Values
    BY <1>0, <1>1, <1>11 DEF WipeStep, LastBlock, Block, TypeOK
  <2>3. UNCHANGED <<regs, number, running, crashes>>
    BY <1>11 DEF WipeStep
  <2> QED
    BY <2>1, <2>2, <2>3 DEF TypeOK, BlockType
<1>12. CASE RegWrite
  BY <1>12 DEF RegWrite, TypeOK
<1>13. CASE StartStop
  BY <1>13 DEF StartStop, TypeOK
<1>14. CASE Crash
  <2>1. blocks' \in Storage
    BY <1>14, CrashCuts
  <2>2. Load(blocks') \in Values
    BY <2>1, LoadTypes
  <2>3. /\ regs' = Load(blocks') /\ saved' = (IF sh = "wipe" THEN Load(blocks') ELSE saved)
        /\ sh' = "idle" /\ at' = 0 /\ number' = 0 /\ running' = FALSE
        /\ crashes < MaxCrashes /\ crashes' = crashes + 1
    BY <1>14 DEF Crash
  <2>4. crashes' \in 0 .. MaxCrashes /\ number' \in 0 .. MaxNumber
    BY <2>3 DEF TypeOK
  <2>5. saved' \in Values /\ regs' \in Values
    BY <2>2, <2>3 DEF TypeOK
  <2> QED
    BY <1>1, <2>1, <2>3, <2>4, <2>5 DEF TypeOK, Storage
<1>15. CASE UNCHANGED vars
  BY <1>15 DEF vars, TypeOK
<1> QED
  BY <1>5, <1>6, <1>7, <1>8, <1>9, <1>10, <1>11, <1>12, <1>13, <1>14, <1>15 DEF Next, Save

\* Every variable keeps its type, and the save and the wipe work on a block of
\* the storage.
THEOREM TypeCorrect == Spec => []TypeOK
<1>1. Init => TypeOK
  BY InitTypes DEF IInv
<1> QED
  BY <1>1, TypeStep, PTL DEF Spec

\* A block that is cut is valid only if it was, and then it is the same block.
LEMMA CutOnly ==
  ASSUME TypeOK, CleanIsClean, NumbersAreDistinct, \A b \in Block : Cut(b)
  PROVE  /\ Valid(blocks') \subseteq Valid(blocks)
         /\ \A b \in Valid(blocks') : blocks'[b] = blocks[b]
         /\ CleanIsClean' /\ NumbersAreDistinct'
<1>1. \A b \in Block : blocks[b] \in BlockType
  BY DEF TypeOK, BlockType
<1>2. \A r \in BlockType : [r EXCEPT !.state = "spoiled"].state = "spoiled"
  BY DEF BlockType
<1>3. Clean.state = "clean"
  BY DEF Clean
<1>4. \A b \in Block : blocks'[b].state = "valid" => blocks'[b] = blocks[b]
  BY <1>1, <1>2, <1>3 DEF Cut
<1>5. \A b \in Block : blocks'[b].state = "clean" => blocks'[b] = Clean
  BY <1>1, <1>2, <1>3 DEF Cut, CleanIsClean, Dirty
<1>6. CleanIsClean'
  BY <1>5 DEF CleanIsClean, Dirty, Clean
<1>7. NumbersAreDistinct'
  BY <1>4 DEF NumbersAreDistinct
<1> QED
  BY <1>4, <1>6, <1>7 DEF Valid

LEMMA NumberStep == IInv /\ [Next]_vars => IInv'
<1> SUFFICES ASSUME IInv, [Next]_vars PROVE IInv'
  OBVIOUS
<1> USE DEF IInv
<1>0. /\ blocks \in [Block -> BlockType] /\ at \in Block /\ number \in 0 .. MaxNumber /\ TypeOK'
      /\ \A b \in Block : blocks[b] \in BlockType
  BY TypeStep DEF TypeOK, BlockType
<1> SUFFICES CleanIsClean' /\ AtWork' /\ Greater' /\ NumbersAreDistinct'
  BY <1>0
<1>5. CASE SaveBegin
  <2>1. /\ at' = Target /\ number' = NextNumber /\ blocks' = blocks /\ sh' \in {"erase", "number"}
        /\ sh' = "number" => CleanSteps # {}
    BY <1>5 DEF SaveBegin
  <2>2. sh' = "number" => ~ Dirty(Target)
    BY <2>1, TargetFound
  <2>3. Target \in Block
    BY TargetFound
  <2>4. AtWork'
    BY <2>1, <2>2, <2>3 DEF AtWork, CleanIsClean, Dirty, Clean
  <2>5. Greater'
    BY <2>1, NextIsGreater DEF Greater, Valid
  <2> QED
    BY <2>1, <2>4, <2>5 DEF CleanIsClean, NumbersAreDistinct, Dirty, Clean
<1>6. CASE Erase
  <2>1. \A b \in Block : Cut(b)
    BY <1>6 DEF Erase, Cut
  <2>2. SectorHead(at) \in Block /\ SectorOf(SectorHead(at)) = SectorOf(at)
    BY <1>0, HeadOfSector
  <2>3. at' = SectorHead(at) /\ blocks'[SectorHead(at)] = Clean /\ sh' = "number" /\ number' = number
    BY <1>6, <2>2 DEF Erase
  <2>4. AtWork'
    BY <2>3 DEF AtWork, Clean
  <2>5. \A b \in Valid(blocks) : blocks[b].number < number
    BY <1>6 DEF Greater, Erase, Writing
  <2>6. \A b \in Valid(blocks') : blocks'[b].number < number'
    BY <2>1, <2>3, <2>5, CutOnly
  <2> QED
    BY <2>1, <2>4, <2>6, CutOnly DEF Greater, Valid
<1>7. CASE WriteNumber
  <2>1. /\ blocks' = [blocks EXCEPT ![at] = [blocks[at] EXCEPT !.state = "spoiled", !.number = number]]
        /\ at' = at /\ number' = number /\ sh' = "content" /\ sh = "number"
    BY <1>0, <1>7 DEF WriteNumber, BlockType
  <2>2. blocks'[at].state = "spoiled" /\ blocks'[at].number = number
        /\ \A b \in Block : b # at => blocks'[b] = blocks[b]
    BY <1>0, <2>1 DEF BlockType
  <2>3. \A b \in Block : blocks'[b].state = "valid" => blocks[b].state = "valid" /\ blocks'[b] = blocks[b]
    BY <2>2
  <2>4. CleanIsClean'
    BY <2>2 DEF CleanIsClean, Dirty, Clean
  <2>5. AtWork'
    BY <2>1, <2>2 DEF AtWork
  <2>6. Greater'
    BY <2>1, <2>3 DEF Greater, Valid, Writing
  <2>7. NumbersAreDistinct'
    BY <2>3 DEF NumbersAreDistinct
  <2> QED
    BY <2>4, <2>5, <2>6, <2>7
<1>8. CASE WriteContent
  <2>1. /\ blocks' = [blocks EXCEPT ![at] = [blocks[at] EXCEPT !.content = regs]]
        /\ at' = at /\ number' = number /\ sh' = "crc" /\ sh = "content"
    BY <1>0, <1>8 DEF WriteContent
  <2>2. blocks'[at].state = "spoiled" /\ blocks'[at].number = number
        /\ \A b \in Block : b # at => blocks'[b] = blocks[b]
    BY <1>0, <2>1 DEF BlockType, AtWork
  <2>3. \A b \in Block : blocks'[b].state = "valid" => blocks[b].state = "valid" /\ blocks'[b] = blocks[b]
    BY <2>2
  <2>4. CleanIsClean'
    BY <2>2 DEF CleanIsClean, Dirty, Clean
  <2>5. AtWork'
    BY <2>1, <2>2 DEF AtWork
  <2>6. Greater'
    BY <2>1, <2>3 DEF Greater, Valid, Writing
  <2>7. NumbersAreDistinct'
    BY <2>3 DEF NumbersAreDistinct
  <2> QED
    BY <2>4, <2>5, <2>6, <2>7
<1>9. CASE WriteCrc
  <2>1. /\ blocks' = [blocks EXCEPT ![at] = [blocks[at] EXCEPT !.state = "valid"]]
        /\ sh' = "idle" /\ sh = "crc"
    BY <1>0, <1>9 DEF WriteCrc
  <2>2. blocks'[at].state = "valid" /\ blocks'[at].number = number
        /\ \A b \in Block : b # at => blocks'[b] = blocks[b]
    BY <1>0, <2>1 DEF BlockType, AtWork
  <2>3. \A b \in Block : blocks[b].state = "valid" => blocks[b].number < number
    BY <2>1 DEF Greater, Writing, Valid
  <2>4. CleanIsClean'
    BY <2>2 DEF CleanIsClean, Dirty, Clean
  <2>5. AtWork' /\ Greater'
    BY <2>1 DEF AtWork, Greater, Writing
  <2>6. \A b \in Block : blocks[b].state = "valid" => blocks[b].number # number
    BY <1>0, <2>3 DEF BlockType
  <2>7. NumbersAreDistinct'
    BY <2>2, <2>6 DEF NumbersAreDistinct
  <2> QED
    BY <2>4, <2>5, <2>7
<1>10. CASE WipeBegin
  BY <1>10 DEF WipeBegin, CleanIsClean, AtWork, Greater, Writing, NumbersAreDistinct, Dirty, Clean
<1>11. CASE WipeStep
  <2>1. sh' \in {"wipe", "idle"}
    BY <1>11 DEF WipeStep
  <2> QED
    BY <1>11, <2>1, WipeCuts, CutOnly DEF AtWork, Greater, Writing
<1>12. CASE RegWrite
  BY <1>12 DEF RegWrite, CleanIsClean, AtWork, Greater, Valid, NumbersAreDistinct, Dirty, Clean
<1>13. CASE StartStop
  BY <1>13 DEF StartStop, CleanIsClean, AtWork, Greater, Valid, NumbersAreDistinct, Dirty, Clean
<1>14. CASE Crash
  <2>1. sh' = "idle"
    BY <1>14 DEF Crash
  <2> QED
    BY <1>14, <2>1, CrashCuts, CutOnly DEF AtWork, Greater, Writing
<1>15. CASE UNCHANGED vars
  BY <1>15 DEF vars, CleanIsClean, AtWork, Greater, Valid, NumbersAreDistinct, Dirty, Clean
<1> QED
  BY <1>5, <1>6, <1>7, <1>8, <1>9, <1>10, <1>11, <1>12, <1>13, <1>14, <1>15 DEF Next, Save

LEMMA NumbersHold == Spec => []IInv
<1> QED
  BY InitTypes, NumberStep, PTL DEF Spec

\* No two valid blocks have the same number, whatever was wiped, erased or cut
\* before: a new block takes a number above all the others, and nothing is added
\* between the scan that finds it and the checksum that makes the block valid.
THEOREM NumbersCorrect == Spec => []NumbersAreDistinct
<1>1. IInv => NumbersAreDistinct
  BY DEF IInv
<1> QED
  BY <1>1, NumbersHold, PTL

\* Flash memory is written only where it is clean: the search takes a clean block
\* or erases the sector first.
THEOREM ProgramsCorrect == Spec => ProgramsCleanBlocks
<1>1. ASSUME IInv, [Next]_vars
      PROVE  [\A b \in Block : blocks'[b].number # blocks[b].number /\ blocks'[b] # Clean
                => blocks[b] = Clean]_vars
  <2>0. at \in Block /\ blocks \in [Block -> BlockType] /\ \A b \in Block : blocks[b] \in BlockType
    BY <1>1 DEF IInv, TypeOK, BlockType
  <2> DEFINE Keeps == \A b \in Block : blocks'[b].number # blocks[b].number /\ blocks'[b] # Clean
                        => blocks[b] = Clean
  <2>1. ASSUME \A b \in Block : Cut(b) PROVE Keeps
    <3>1. \A r \in BlockType : [r EXCEPT !.state = "spoiled"].number = r.number
      BY DEF BlockType
    <3> QED
      BY <2>0, <2>1, <3>1 DEF Cut
  <2>2. CASE Erase
    BY <2>1, <2>2 DEF Erase, Cut
  <2>3. CASE WriteNumber
    <3>1. blocks[at] = Clean
      BY <1>1, <2>3 DEF IInv, AtWork, WriteNumber
    <3>2. \A b \in Block : b # at => blocks'[b] = blocks[b]
      BY <2>0, <2>3 DEF WriteNumber
    <3> QED
      BY <3>1, <3>2
  <2>4. CASE WriteContent
    BY <2>0, <2>4 DEF WriteContent, BlockType
  <2>5. CASE WriteCrc
    BY <2>0, <2>5 DEF WriteCrc, BlockType
  <2>6. CASE WipeStep
    BY <1>1, <2>1, <2>6, WipeCuts DEF IInv
  <2>7. CASE Crash
    BY <1>1, <2>1, <2>7, CrashCuts DEF IInv
  <2>8. CASE SaveBegin \/ WipeBegin \/ RegWrite \/ StartStop \/ UNCHANGED vars
    BY <2>8 DEF SaveBegin, WipeBegin, RegWrite, StartStop, vars
  <2> QED
    BY <1>1, <2>2, <2>3, <2>4, <2>5, <2>6, <2>7, <2>8 DEF Next, Save
<1> QED
  BY <1>1, NumbersHold, PTL DEF ProgramsCleanBlocks, Spec

-----------------------------------------------------------------------------
(* What is saved is loaded *)

\* A sector is filled from its head, and nothing follows the block that is being
\* written.
Filled ==
  /\ \A b, c \in Block : SectorOf(b) = SectorOf(c) /\ b < c /\ Dirty(c) => Dirty(b)
  /\ sh = "number" => \A b \in Block : SectorOf(b) = SectorOf(at) /\ b < at => Dirty(b)
  /\ sh \in {"content", "crc"} => \A c \in Block : SectorOf(at) = SectorOf(c) /\ at < c => ~ Dirty(c)

\* In a sector, what follows a valid block is valid and newer, or is being written.
Later ==
  \A b, c \in Block :
    SectorOf(b) = SectorOf(c) /\ b < c /\ b \in Valid(blocks) /\ Dirty(c)
      => (c \in Valid(blocks) /\ blocks[b].number < blocks[c].number)
         \/ (c = at /\ sh \in {"content", "crc"})

\* The sector that is about to be erased does not hold the newest block.
Untouched == sh = "erase" => \A b \in Scan(blocks) : SectorOf(b) # SectorOf(at)

\* A wipe has left no valid block behind it.
Wiped == sh = "wipe" => \A b \in Block : b < at => b \notin Valid(blocks)

\* Between the steps of a save, too, the storage loads what was saved last.
Kept == sh = "idle" \/ (sh \in Writing /\ crashes = 0) => Load(blocks) = saved

SInv ==
  /\ IInv
  /\ crashes = 0 => Filled /\ Later /\ Untouched
  /\ Wiped /\ Kept

LEMMA InitSaved == Init => SInv
<1> SUFFICES ASSUME Init PROVE SInv
  OBVIOUS
<1>1. \A b \in Block : blocks[b] = Clean /\ blocks[b].state = "clean"
  BY DEF Init, Clean
<1>2. Valid(blocks) = {} /\ Scan(blocks) = {}
  BY <1>1 DEF Valid, Scan
<1>3. Load(blocks) = Default
  BY <1>2 DEF Load
<1> QED
  BY <1>1, <1>2, <1>3, InitTypes DEF Init, SInv, Filled, Later, Untouched, Wiped, Kept, Dirty

LEMMA DistinctNumbers == NumbersAreDistinct => Distinct(blocks)
BY DEF NumbersAreDistinct, Distinct, Valid

\* A step of the save or of a wipe, seen from the storage.
LEMMA SaveSteps ==
  ASSUME IInv
  PROVE  /\ WriteNumber => /\ ~ Dirty(at) /\ blocks'[at].state = "spoiled"
                           /\ \A b \in Block : b # at => blocks'[b] = blocks[b]
         /\ WriteContent => /\ blocks[at].state = "spoiled" /\ blocks'[at].state = "spoiled"
                            /\ \A b \in Block : b # at => blocks'[b] = blocks[b]
         /\ WriteCrc => /\ blocks[at].state = "spoiled"
                        /\ blocks'[at] = [blocks[at] EXCEPT !.state = "valid"]
                        /\ blocks'[at].state = "valid" /\ blocks'[at].number = number
                        /\ blocks'[at].content = blocks[at].content
                        /\ \A b \in Block : b # at => blocks'[b] = blocks[b]
<1>0. at \in Block /\ blocks \in [Block -> BlockType] /\ blocks[at] \in BlockType
  BY DEF IInv, TypeOK, BlockType
<1>1. ASSUME WriteNumber
      PROVE  ~ Dirty(at) /\ blocks'[at].state = "spoiled" /\ \A b \in Block : b # at => blocks'[b] = blocks[b]
  BY <1>0, <1>1 DEF WriteNumber, IInv, AtWork, Dirty, Clean, BlockType
<1>2. ASSUME WriteContent
      PROVE  /\ blocks[at].state = "spoiled" /\ blocks'[at].state = "spoiled"
             /\ \A b \in Block : b # at => blocks'[b] = blocks[b]
  BY <1>0, <1>2 DEF WriteContent, IInv, AtWork, BlockType
<1>3. ASSUME WriteCrc
      PROVE  /\ blocks[at].state = "spoiled" /\ blocks[at].number = number
             /\ blocks'[at] = [blocks[at] EXCEPT !.state = "valid"]
             /\ \A b \in Block : b # at => blocks'[b] = blocks[b]
  BY <1>0, <1>3 DEF WriteCrc, IInv, AtWork
<1>4. \A r \in BlockType : /\ [r EXCEPT !.state = "valid"].state = "valid"
                           /\ [r EXCEPT !.state = "valid"].number = r.number
                           /\ [r EXCEPT !.state = "valid"].content = r.content
  BY DEF BlockType
<1> QED
  BY <1>0, <1>1, <1>2, <1>3, <1>4

LEMMA FilledStep ==
  ASSUME SInv, [Next]_vars, crashes' = 0
  PROVE  Filled'
<1> DEFINE D(b) == blocks[b].state # "clean"
           E(b) == blocks'[b].state # "clean"
           Prefix == \A b, c \in Block : SectorOf(b) = SectorOf(c) /\ b < c /\ D(c) => D(b)
           Prefix1 == \A b, c \in Block : SectorOf(b) = SectorOf(c) /\ b < c /\ E(c) => E(b)
           Below1 == sh' = "number" => \A b \in Block : SectorOf(b) = SectorOf(at') /\ b < at' => E(b)
           Above1 == sh' \in {"content", "crc"} =>
                       \A c \in Block : SectorOf(at') = SectorOf(c) /\ at' < c => ~ E(c)
<1>a. SUFFICES Prefix1 /\ Below1 /\ Above1
  BY DEF Filled, Dirty
<1>0. at \in Block /\ at \in Nat /\ \A b \in Block : b \in Nat
  BY BlocksAreThere DEF SInv, IInv, TypeOK, Block
<1>1. crashes = 0 \/ Crash
  BY DEF Next, Save, SaveBegin, Erase, WriteNumber, WriteContent, WriteCrc, WipeBegin, WipeStep,
         RegWrite, StartStop, vars
<1>2. ~ Crash
  BY DEF Crash, SInv, IInv, TypeOK
<1>3. /\ Prefix
      /\ sh = "number" => \A b \in Block : SectorOf(b) = SectorOf(at) /\ b < at => D(b)
      /\ sh \in {"content", "crc"} => \A c \in Block : SectorOf(at) = SectorOf(c) /\ at < c => ~ D(c)
  BY <1>1, <1>2 DEF SInv, Filled, Dirty
<1>4. CASE SaveBegin
  <2>1. /\ blocks' = blocks /\ at' = Target /\ sh' \in {"erase", "number"}
        /\ sh' = "number" => CleanSteps # {}
    BY <1>4 DEF SaveBegin
  <2>2. TypeOK
    BY DEF SInv, IInv
  <2>3. Target \in Block /\ Target \in Nat
    BY <1>0, <2>2, TargetFound
  <2>4. ASSUME sh' = "number", NEW b \in Block, SectorOf(b) = SectorOf(Target), b < Target PROVE D(b)
    <3>1. b \in Nat
      BY <1>0
    <3>2. Target # 0 /\ Target - 1 \in Block
      BY <2>3, <2>4, <3>1, BlocksAreThere DEF Block
    <3>3. D(Target - 1)
      <4>1. CASE Target # Origin
        BY <2>1, <2>2, <2>4, <3>2, <4>1, TargetFound DEF Dirty
      <4>2. CASE Target = Origin
        <5>1. Scan(blocks) # {}
          BY <3>2, <4>2 DEF Origin
        <5>2. Newest \in Valid(blocks) /\ Newest \in Block
          BY <2>2, <5>1, NewestInRing
        <5>3. Newest \in 0 .. N - 1 /\ N \in Nat /\ N > 0 /\ 1 \in 0 .. N
          BY <5>2, BlocksAreThere DEF Block
        <5>4. (Newest + 1) % N = IF Newest + 1 < N THEN Newest + 1 ELSE Newest + 1 - N
          BY <5>3, AroundTheRing
        <5>5. Target = Newest + 1
          BY <3>2, <4>2, <5>1, <5>3, <5>4 DEF Origin
        <5>6. Target - 1 = Newest
          BY <5>3, <5>5
        <5> QED
          BY <5>2, <5>6 DEF Valid
      <4> QED
        BY <4>1, <4>2
    <3>4. b <= Target - 1 /\ Target - 1 <= Target
      BY <2>3, <2>4, <3>1
    <3>5. SectorOf(Target - 1) = SectorOf(Target)
      BY <2>3, <2>4, <3>2, <3>4, BetweenThem
    <3>6. CASE b = Target - 1
      BY <3>3, <3>6
    <3>7. CASE b < Target - 1
      BY <1>3, <2>4, <3>2, <3>3, <3>5, <3>7
    <3> QED
      BY <2>3, <3>1, <3>4, <3>6, <3>7
  <2> QED
    BY <1>3, <2>1, <2>4
<1>5. CASE Erase
  <2>1. /\ at' = SectorHead(at) /\ sh' = "number"
        /\ \A b \in Block : SectorOf(b) = SectorOf(at) => blocks'[b] = Clean
        /\ \A b \in Block : SectorOf(b) # SectorOf(at) => blocks'[b] = blocks[b]
    BY <1>5 DEF Erase
  <2>2. \A b \in Block : b < SectorHead(at) => SectorOf(b) # SectorOf(at)
    BY <1>0, OtherSectors
  <2>3. SectorOf(SectorHead(at)) = SectorOf(at)
    BY <1>0, HeadOfSector
  <2>4. \A b \in Block : E(b) <=> D(b) /\ SectorOf(b) # SectorOf(at)
    BY <2>1 DEF Clean
  <2> HIDE DEF D, E
  <2>5. Prefix1
    BY <1>3, <2>4
  <2>6. Below1
    BY <2>1, <2>2, <2>3
  <2> QED
    BY <2>1, <2>5, <2>6
<1>6. CASE WriteNumber
  <2>1. sh = "number" /\ sh' = "content" /\ at' = at
    BY <1>6 DEF WriteNumber
  <2>2. ~ D(at) /\ E(at) /\ \A b \in Block : b # at => (E(b) <=> D(b))
    BY <1>6, SaveSteps DEF SInv, Dirty
  <2> HIDE DEF D, E
  <2>3. Prefix1
    BY <1>0, <1>3, <2>1, <2>2
  <2>4. Above1
    <3>1. ASSUME NEW c \in Block, SectorOf(at) = SectorOf(c), at < c PROVE ~ E(c)
      <4>1. c # at
        BY <1>0, <3>1
      <4> QED
        BY <1>0, <1>3, <2>2, <3>1, <4>1
    <3> QED
      BY <2>1, <3>1
  <2> QED
    BY <2>1, <2>3, <2>4
<1>7. CASE WriteContent \/ WriteCrc
  <2>1. sh \in {"content", "crc"} /\ sh' \in {"crc", "idle"} /\ at' = at
    BY <1>7 DEF WriteContent, WriteCrc
  <2>2. \A b \in Block : E(b) <=> D(b)
    BY <1>7, SaveSteps DEF SInv
  <2> HIDE DEF D, E
  <2> QED
    BY <1>0, <1>3, <2>1, <2>2
<1>8. CASE WipeStep
  <2>1. sh' \in {"wipe", "idle"}
    BY <1>8 DEF WipeStep
  <2>2. \A b \in Block : E(b) <=> D(b)
    BY <1>8, WipeCuts DEF SInv, IInv
  <2> QED
    BY <1>3, <2>1, <2>2
<1>9. CASE WipeBegin \/ RegWrite \/ StartStop \/ UNCHANGED vars
  <2>1. blocks' = blocks /\ (sh' = "wipe" \/ (sh' = sh /\ at' = at))
    BY <1>9 DEF WipeBegin, RegWrite, StartStop, vars
  <2> QED
    BY <1>3, <2>1
<1> QED
  BY <1>2, <1>4, <1>5, <1>6, <1>7, <1>8, <1>9 DEF Next, Save

LEMMA LaterStep ==
  ASSUME SInv, [Next]_vars, crashes' = 0
  PROVE  Later'
<1> DEFINE D(b) == blocks[b].state # "clean"
           E(b) == blocks'[b].state # "clean"
           V(b) == blocks[b].state = "valid"
           W(b) == blocks'[b].state = "valid"
           Goal == \A b, c \in Block : SectorOf(b) = SectorOf(c) /\ b < c /\ W(b) /\ E(c)
                     => (W(c) /\ blocks'[b].number < blocks'[c].number)
                        \/ (c = at' /\ sh' \in {"content", "crc"})
<1>a. SUFFICES Goal
  BY DEF Later, Dirty, Valid
<1>0. at \in Block /\ at \in Nat /\ number \in Nat /\ (\A b \in Block : b \in Nat)
      /\ \A b \in Block : blocks[b].number \in Nat
  BY BlocksAreThere DEF SInv, IInv, TypeOK, Block
<1>1. crashes = 0 \/ Crash
  BY DEF Next, Save, SaveBegin, Erase, WriteNumber, WriteContent, WriteCrc, WipeBegin, WipeStep,
         RegWrite, StartStop, vars
<1>2. ~ Crash
  BY DEF Crash, SInv, IInv, TypeOK
<1>3. \A b, c \in Block : SectorOf(b) = SectorOf(c) /\ b < c /\ V(b) /\ D(c)
        => (V(c) /\ blocks[b].number < blocks[c].number) \/ (c = at /\ sh \in {"content", "crc"})
  BY <1>1, <1>2 DEF SInv, Later, Dirty, Valid
<1>4. /\ \A b, c \in Block : SectorOf(b) = SectorOf(c) /\ b < c /\ D(c) => D(b)
      /\ sh \in {"content", "crc"} => \A c \in Block : SectorOf(at) = SectorOf(c) /\ at < c => ~ D(c)
  BY <1>1, <1>2 DEF SInv, Filled, Dirty
<1>5. CASE Erase
  <2>1. sh = "erase"
    BY <1>5 DEF Erase
  <2>2. \A b \in Block : IF SectorOf(b) = SectorOf(at) THEN ~ W(b) /\ ~ E(b) ELSE blocks'[b] = blocks[b]
    BY <1>5 DEF Erase, Clean
  <2> QED
    BY <1>3, <2>1, <2>2
<1>6. CASE WriteNumber
  <2>1. sh = "number" /\ sh' = "content" /\ at' = at
    BY <1>6 DEF WriteNumber
  <2>2. ~ W(at) /\ ~ V(at) /\ \A b \in Block : b # at => blocks'[b] = blocks[b]
    BY <1>6, SaveSteps DEF SInv, Dirty
  <2> QED
    BY <1>0, <1>3, <2>1, <2>2
<1>7. CASE WriteContent
  <2>1. sh' = "crc" /\ at' = at
    BY <1>7 DEF WriteContent
  <2>2. ~ W(at) /\ D(at) /\ \A b \in Block : b # at => blocks'[b] = blocks[b]
    BY <1>7, SaveSteps DEF SInv
  <2> QED
    BY <1>0, <1>3, <2>1, <2>2
<1>8. CASE WriteCrc
  <2>1. sh = "crc"
    BY <1>8 DEF WriteCrc
  <2>2. /\ W(at) /\ D(at) /\ blocks'[at].number = number
        /\ \A b \in Block : b # at => blocks'[b] = blocks[b]
    BY <1>8, SaveSteps DEF SInv
  <2>3. \A b \in Block : V(b) => blocks[b].number < number
    BY <2>1 DEF SInv, IInv, Greater, Writing, Valid
  <2>4. ASSUME NEW b \in Block, NEW c \in Block, SectorOf(b) = SectorOf(c), b < c, W(b), E(c)
        PROVE  W(c) /\ blocks'[b].number < blocks'[c].number
    <3>1. b # at
      BY <1>0, <1>4, <2>1, <2>2, <2>4
    <3>2. CASE c = at
      BY <2>2, <2>3, <2>4, <3>1, <3>2
    <3>3. CASE c # at
      BY <1>3, <2>2, <2>4, <3>1, <3>3
    <3> QED
      BY <3>2, <3>3
  <2> QED
    BY <2>4
<1>9. CASE WipeStep
  <2>1. sh = "wipe" /\ \A b \in Block : b < at => ~ V(b)
    BY <1>9 DEF WipeStep, SInv, Wiped, Valid
  <2>2. /\ ~ W(at) /\ \A b \in Block : b # at => blocks'[b] = blocks[b]
    BY <1>9, WipeCuts DEF SInv, IInv
  <2>3. ASSUME NEW b \in Block, NEW c \in Block, SectorOf(b) = SectorOf(c), b < c, W(b), E(c)
        PROVE  W(c) /\ blocks'[b].number < blocks'[c].number
    <3>1. b # at /\ V(b) /\ ~ (b < at)
      BY <2>1, <2>2, <2>3
    <3>2. c # at
      BY <1>0, <2>3, <3>1
    <3> QED
      BY <1>3, <2>1, <2>2, <2>3, <3>1, <3>2
  <2> QED
    BY <2>3
<1>10. CASE SaveBegin \/ WipeBegin
  <2>1. blocks' = blocks /\ sh = "idle"
    BY <1>10 DEF SaveBegin, WipeBegin
  <2> QED
    BY <1>3, <2>1
<1>11. CASE RegWrite \/ StartStop \/ UNCHANGED vars
  <2>1. blocks' = blocks /\ sh' = sh /\ at' = at
    BY <1>11 DEF RegWrite, StartStop, vars
  <2> QED
    BY <1>3, <2>1
<1> QED
  BY <1>2, <1>5, <1>6, <1>7, <1>8, <1>9, <1>10, <1>11 DEF Next, Save

\* The search comes to the head of a sector before it comes to a dirty block in
\* the sector of the newest one, if there is more than one sector.
LEMMA UntouchedStep ==
  ASSUME Sectors > 1, SInv, [Next]_vars, crashes' = 0
  PROVE  Untouched'
<1>0. TypeOK /\ NumbersAreDistinct /\ at \in Block
  BY DEF SInv, IInv, TypeOK
<1>1. crashes = 0 \/ Crash
  BY DEF Next, Save, SaveBegin, Erase, WriteNumber, WriteContent, WriteCrc, WipeBegin, WipeStep,
         RegWrite, StartStop, vars
<1>2. ~ Crash
  BY DEF Crash, SInv, IInv, TypeOK
<1>3. CASE SaveBegin
  <2>1. ASSUME CleanSteps = {}, NEW b \in Scan(blocks) PROVE SectorOf(b) # SectorOf(Origin)
    <3>1. Scan(blocks) = {Newest} /\ b = Newest
      BY <1>0, <2>1, NewestIsOne, NewestInRing, DistinctNumbers DEF TypeOK, Storage
    <3>2. Newest \in Valid(blocks) /\ Newest \in Block /\ Newest \in Scan(blocks)
      BY <1>0, <2>1, NewestInRing
    <3>3. Newest \in 0 .. N - 1 /\ N \in Nat /\ N > 0 /\ 1 \in 0 .. N
      BY <3>2, BlocksAreThere DEF Block
    <3>4. (Newest + 1) % N = IF Newest + 1 < N THEN Newest + 1 ELSE Newest + 1 - N
      BY <3>3, AroundTheRing
    <3>5. CASE Newest + 1 < N
      <4>1. Origin = Newest + 1 /\ Origin \in Block /\ Newest < Origin
        BY <2>1, <3>3, <3>4, <3>5 DEF Origin, Block
      <4>2. Dirty(Origin)
        BY <1>0, <2>1, <4>1, TargetFound
      <4>3. sh = "idle" /\ Later
        BY <1>1, <1>2, <1>3 DEF SaveBegin, SInv
      <4>4. ASSUME SectorOf(Newest) = SectorOf(Origin) PROVE FALSE
        <5>1. Origin \in Valid(blocks) /\ blocks[Newest].number < blocks[Origin].number
          BY <3>2, <4>1, <4>2, <4>3, <4>4 DEF Later
        <5>2. blocks[Origin].number <= blocks[Newest].number
          BY <3>2, <5>1 DEF Scan
        <5>3. blocks[Origin].number \in Nat /\ blocks[Newest].number \in Nat
          BY <1>0, <3>2, <4>1 DEF TypeOK
        <5> QED
          BY <5>1, <5>2, <5>3
      <4> QED
        BY <3>1, <4>4
    <3>6. CASE ~ (Newest + 1 < N)
      <4>1. Origin = 0 /\ Newest = N - 1
        BY <2>1, <3>3, <3>4, <3>6 DEF Origin
      <4> QED
        BY <3>1, <4>1, OtherSectors
    <3> QED
      BY <3>5, <3>6
  <2>2. /\ blocks' = blocks /\ at' = Target /\ sh' = (IF CleanSteps = {} THEN "erase" ELSE "number")
    BY <1>3 DEF SaveBegin
  <2>3. sh' = "erase" => CleanSteps = {} /\ at' = Origin
    BY <2>2 DEF Target
  <2> QED
    BY <2>1, <2>2, <2>3 DEF Untouched, Scan, Valid
<1>4. CASE Erase \/ WriteNumber \/ WriteContent \/ WriteCrc \/ WipeBegin \/ WipeStep
  BY <1>4 DEF Erase, WriteNumber, WriteContent, WriteCrc, WipeBegin, WipeStep, Untouched
<1>5. CASE RegWrite \/ StartStop \/ UNCHANGED vars
  BY <1>1, <1>2, <1>5 DEF RegWrite, StartStop, vars, SInv, Untouched, Scan, Valid
<1> QED
  BY <1>2, <1>3, <1>4, <1>5 DEF Next, Save

LEMMA WipedStep ==
  ASSUME SInv, [Next]_vars
  PROVE  Wiped'
<1>0. at \in Block /\ at \in Nat /\ (\A b \in Block : b \in Nat /\ b >= 0)
  BY BlocksAreThere DEF SInv, IInv, TypeOK, Block
<1>1. CASE WipeBegin
  BY <1>0, <1>1 DEF WipeBegin, Wiped
<1>2. CASE WipeStep
  <2>1. \A b \in Block : b < at => blocks[b].state # "valid"
    BY <1>2 DEF WipeStep, SInv, Wiped, Valid
  <2>2. /\ blocks'[at].state # "valid" /\ \A b \in Block : b # at => blocks'[b] = blocks[b]
    BY <1>2, WipeCuts DEF SInv, IInv
  <2>3. sh' = "idle" \/ at' = at + 1
    BY <1>2 DEF WipeStep
  <2>4. \A b \in Block : b < at + 1 => b < at \/ b = at
    BY <1>0
  <2>5. \A b \in Block : b < at + 1 => blocks'[b].state # "valid"
    BY <2>1, <2>2, <2>4
  <2> QED
    BY <2>3, <2>5 DEF Wiped, Valid
<1>3. CASE SaveBegin
  BY <1>3 DEF SaveBegin, Wiped
<1>4. CASE Erase \/ WriteNumber \/ WriteContent \/ WriteCrc \/ Crash
  BY <1>4 DEF Erase, WriteNumber, WriteContent, WriteCrc, Crash, Wiped
<1>5. CASE RegWrite \/ StartStop \/ UNCHANGED vars
  BY <1>5 DEF RegWrite, StartStop, vars, SInv, Wiped, Valid
<1> QED
  BY <1>1, <1>2, <1>3, <1>4, <1>5 DEF Next, Save

\* With one power failure, what a step cuts is never the newest block.
LEMMA KeptStep ==
  ASSUME MaxCrashes <= 1, SInv, [Next]_vars
  PROVE  Kept'
<1>0. /\ TypeOK /\ CleanIsClean /\ NumbersAreDistinct /\ Distinct(blocks)
      /\ blocks \in Storage /\ blocks' \in Storage /\ at \in Block /\ crashes \in Nat
  BY TypeStep, DistinctNumbers DEF SInv, IInv, TypeOK, Storage
<1>1. \A b \in Valid(blocks) : b \in Block /\ blocks[b].state = "valid"
  BY DEF Valid
\* A step that spares the newest block, or a step after which nothing is loaded.
<1>2. ASSUME Valid(blocks') \subseteq Valid(blocks), \A b \in Valid(blocks') : blocks'[b] = blocks[b],
             Scan(blocks) \subseteq Valid(blocks')
      PROVE  Load(blocks') = Load(blocks)
  BY <1>0, <1>2, LoadKept
<1>3. CASE Erase
  <2>0. sh = "erase" /\ sh' = "number" /\ saved' = saved /\ crashes' = crashes
    BY <1>3 DEF Erase
  <2>1. \A b \in Block : Cut(b)
    BY <1>3 DEF Erase, Cut
  <2>2. ASSUME crashes = 0 PROVE Load(blocks') = Load(blocks)
    <3>1. \A b \in Scan(blocks) : b \in Block /\ blocks[b].state = "valid" /\ SectorOf(b) # SectorOf(at)
      BY <2>0, <2>2 DEF SInv, Untouched, Scan, Valid
    <3>2. \A b \in Block : SectorOf(b) # SectorOf(at) => blocks'[b] = blocks[b]
      BY <1>3 DEF Erase
    <3>3. Scan(blocks) \subseteq Valid(blocks')
      BY <3>1, <3>2 DEF Valid
    <3> QED
      BY <1>0, <1>2, <2>1, <3>3, CutOnly
  <2> QED
    BY <2>0, <2>2 DEF SInv, Kept, Writing
<1>4. CASE WriteNumber \/ WriteContent
  <2>0. sh \in Writing /\ sh' \in Writing /\ saved' = saved /\ crashes' = crashes
    BY <1>4 DEF WriteNumber, WriteContent, Writing
  <2>1. /\ blocks[at].state # "valid" /\ blocks'[at].state # "valid"
        /\ \A b \in Block : b # at => blocks'[b] = blocks[b]
    BY <1>4, SaveSteps DEF SInv, Dirty
  <2>2. \A b \in Block : blocks'[b].state = "valid" <=> blocks[b].state = "valid"
    BY <2>1
  <2>3. Valid(blocks') = Valid(blocks) /\ \A b \in Valid(blocks') : blocks'[b] = blocks[b]
    BY <2>1, <2>2 DEF Valid
  <2>4. Load(blocks') = Load(blocks)
    BY <1>2, <2>3 DEF Scan
  <2> QED
    BY <2>0, <2>4 DEF SInv, Kept, Writing
<1>5. CASE WriteCrc
  <2>0. sh = "crc" /\ saved' = blocks[at].content
    BY <1>5 DEF WriteCrc
  <2>1. /\ blocks'[at].state = "valid" /\ blocks'[at].number = number
        /\ blocks'[at].content = blocks[at].content
        /\ \A b \in Block : b # at => blocks'[b] = blocks[b]
    BY <1>5, SaveSteps DEF SInv
  <2>2. \A b \in Valid(blocks) : blocks[b].number < number
    BY <2>0 DEF SInv, IInv, Greater, Writing
  <2>3. \A b \in Valid(blocks') : b = at \/ (b \in Valid(blocks) /\ blocks'[b] = blocks[b])
    BY <2>1 DEF Valid
  <2>4. \A b \in Valid(blocks') : blocks'[b].number <= blocks'[at].number
    <3>1. number \in Nat /\ \A b \in Valid(blocks) : blocks[b].number \in Nat
      BY <1>0, <1>1 DEF TypeOK
    <3> QED
      BY <2>1, <2>2, <2>3, <3>1
  <2>5. at \in Scan(blocks')
    BY <1>0, <2>1, <2>4 DEF Scan, Valid
  <2>6. NumbersAreDistinct'
    BY NumberStep DEF SInv, IInv
  <2>7. Distinct(blocks')
    BY <2>6 DEF NumbersAreDistinct, Distinct, Valid
  <2>8. Load(blocks') = blocks'[at].content
    BY <1>0, <2>5, <2>7, NewestIsOne
  <2> QED
    BY <2>0, <2>1, <2>8 DEF Kept
<1>6. CASE WipeStep
  <2>1. CASE at < LastBlock
    BY <1>6, <2>1 DEF WipeStep, Kept, Writing
  <2>2. CASE ~ (at < LastBlock)
    <3>1. saved' = Default
      BY <1>6, <2>2 DEF WipeStep
    <3>2. \A b \in Block : b < at \/ b = at
      BY <1>0, <2>2, BlocksAreThere DEF LastBlock, Block
    <3>3. \A b \in Block : b < at => b \notin Valid(blocks)
      BY <1>6 DEF WipeStep, SInv, Wiped
    <3>4. /\ blocks'[at].state # "valid" /\ \A b \in Block : b # at => blocks'[b] = blocks[b]
      BY <1>0, <1>6, WipeCuts
    <3>5. \A b \in Block : b < at => blocks[b].state # "valid"
      BY <3>3 DEF Valid
    <3>6. \A b \in Block : blocks'[b].state # "valid"
      BY <3>2, <3>4, <3>5
    <3>7. Load(blocks') = Default
      BY <3>6 DEF Load, Scan, Valid
    <3> QED
      BY <3>1, <3>7 DEF Kept
  <2> QED
    BY <2>1, <2>2
<1>7. CASE Crash
  <2>0. crashes = 0 /\ saved' = IF sh = "wipe" THEN Load(blocks') ELSE saved
    BY <1>0, <1>7 DEF Crash, BoundsAssumption
  <2>1. CASE sh = "wipe"
    BY <2>0, <2>1 DEF Kept
  <2>2. CASE sh # "wipe"
    <3>1. Load(blocks) = saved
      BY <1>0, <2>0, <2>2 DEF TypeOK, SInv, Kept, Writing
    <3>2. CASE sh = "erase"
      <4>1. \A b \in Scan(blocks) : b \in Block /\ blocks[b].state = "valid" /\ SectorOf(b) # SectorOf(at)
        BY <2>0, <3>2 DEF SInv, Untouched, Scan, Valid
      <4>2. \A b \in Block : SectorOf(b) # SectorOf(at) => blocks'[b] = blocks[b]
        BY <1>0, <1>7, CrashCuts
      <4>3. Scan(blocks) \subseteq Valid(blocks')
        BY <4>1, <4>2 DEF Valid
      <4>4. \A b \in Block : Cut(b)
        BY <1>0, <1>7, CrashCuts
      <4>5. Load(blocks') = Load(blocks)
        BY <1>0, <1>2, <4>3, <4>4, CutOnly
      <4> QED
        BY <2>0, <2>2, <3>1, <4>5 DEF Kept
    <3>3. CASE sh # "erase"
      BY <1>0, <1>7, <2>0, <2>2, <3>1, <3>3, CrashCuts DEF Kept
    <3> QED
      BY <3>2, <3>3
  <2> QED
    BY <2>1, <2>2
<1>8. CASE SaveBegin
  BY <1>8 DEF SaveBegin, SInv, Kept
<1>9. CASE WipeBegin
  BY <1>9 DEF WipeBegin, Kept, Writing
<1>10. CASE RegWrite \/ StartStop \/ UNCHANGED vars
  BY <1>10 DEF RegWrite, StartStop, vars, SInv, Kept
<1> QED
  BY <1>3, <1>4, <1>5, <1>6, <1>7, <1>8, <1>9, <1>10 DEF Next, Save

\* A save that is cut at any point costs nothing but the new values: when no
\* command runs, the storage loads what the last save or wipe that came to its
\* end left, if there is a second sector to write in while one is erased and the
\* power failed at most once.
THEOREM SavedCorrect ==
  ASSUME Sectors > 1, MaxCrashes <= 1
  PROVE  Spec => []SavedIsLoaded
<1>1. ASSUME SInv, [Next]_vars PROVE SInv'
  <2>1. IInv'
    BY <1>1, NumberStep DEF SInv
  <2> QED
    BY <1>1, <2>1, FilledStep, LaterStep, UntouchedStep, WipedStep, KeptStep DEF SInv
<1>2. SInv => SavedIsLoaded
  BY DEF SInv, Kept, SavedIsLoaded
<1> QED
  BY <1>1, <1>2, InitSaved, PTL DEF Spec
=============================================================================
