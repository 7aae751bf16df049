------------------------ MODULE LifeSimulatorProofs ------------------------
(***************************************************************************)
(* Theorems about LifeSimulator, for every set of boards, of rule files    *)
(* and of worker threads.                                                  *)
(*                                                                         *)
(*   TypeCorrect          every variable keeps its type                    *)
(*   NoRace               the threads of one Compute do not race           *)
(*   ImplementsGameOfLife every behaviour is one of GameOfLife, if the     *)
(*                        boards of the CPU simulator are square           *)
(*   CopiesFollow         CopyNext delivers consecutive generations, under *)
(*                        the same condition                               *)
(***************************************************************************)
EXTENDS LifeSimulator, TLAPS

-----------------------------------------------------------------------------
(* Indexes and coordinates: the eight offsets the code adds to a cell, the *)
(* bounds check passed, lead to exactly the cells that touch it.           *)

LEMMA CellCoordinates ==
  ASSUME NEW w \in Nat \ {0}, NEW h \in Nat \ {0}, NEW c \in Cells(w, h)
  PROVE  /\ c \in Nat
         /\ Column(w, c) \in 0 .. w - 1
         /\ Row(w, c) \in 0 .. h - 1
         /\ c = Column(w, c) + Row(w, c) * w
<1>1. c \in Nat /\ c < w * h
  BY SMT DEF Cells
<1>2. c % w \in 0 .. w - 1 /\ c \div w \in Nat /\ c = (c % w) + (c \div w) * w
  BY <1>1, SMT
<1>3. c \div w < h
  BY <1>1, <1>2, SMT
<1> QED BY <1>1, <1>2, <1>3 DEF Column, Row

LEMMA CountedIsNeighbours ==
  ASSUME width \in Nat \ {0}, height \in Nat \ {0}, RowBound = height,
         NEW c \in Area
  PROVE  Counted(c) = Neighbours(width, height, c)
<1>0. PICK X \in 0 .. width - 1, Y \in 0 .. height - 1 :
        X = Column(width, c) /\ Y = Row(width, c) /\ c = X + Y * width
  BY CellCoordinates DEF Area
<1>1. ASSUME NEW i \in Counted(c) PROVE i \in Neighbours(width, height, c)
  <2>1. PICK o \in SumIndex : /\ X + o[1] \in 0 .. width - 1
                              /\ Y + o[2] \in 0 .. height - 1
                              /\ i = X + o[1] + (Y + o[2]) * width
    BY <1>0, <1>1 DEF Counted, Inside
  <2>2. o[1] \in -1 .. 1 /\ o[2] \in -1 .. 1 /\ (o[1] # 0 \/ o[2] # 0)
    BY DEF SumIndex
  <2>3. PICK x \in 0 .. width - 1, y \in 0 .. height - 1 :
          x = X + o[1] /\ y = Y + o[2] /\ i = x + y * width
    BY <2>1
  <2>4. i \in Cells(width, height) /\ Column(width, i) = x /\ Row(width, i) = y
    <3>1. x + y * width \in 0 .. width * height - 1
      BY SMT
    <3>2. (x + y * width) % width = x /\ (x + y * width) \div width = y
      BY SMT
    <3> QED BY <2>3, <3>1, <3>2 DEF Cells, Column, Row
  <2>5. x - X \in -1 .. 1 /\ y - Y \in -1 .. 1 /\ (x # X \/ y # Y)
    BY <2>2, <2>3
  <2> QED BY <1>0, <2>4, <2>5 DEF Neighbours
<1>2. ASSUME NEW d \in Neighbours(width, height, c) PROVE d \in Counted(c)
  <2>1. d \in Cells(width, height) /\ d # c
    BY <1>2 DEF Neighbours
  <2>2. PICK x \in 0 .. width - 1, y \in 0 .. height - 1 :
          x = Column(width, d) /\ y = Row(width, d) /\ d = x + y * width
    BY <2>1, CellCoordinates
  <2>3. x - X \in -1 .. 1 /\ y - Y \in -1 .. 1
    BY <1>0, <1>2, <2>2 DEF Neighbours
  <2>4. x - X # 0 \/ y - Y # 0
    BY <1>0, <2>1, <2>2
  <2>5. <<x - X, y - Y>> \in SumIndex
    BY <2>3, <2>4 DEF SumIndex
  <2>6. X + (x - X) = x /\ Y + (y - Y) = y
    OBVIOUS
  <2>7. <<x - X, y - Y>> \in Inside(c)
    BY <1>0, <2>5, <2>6 DEF Inside
  <2> QED BY <1>0, <2>2, <2>6, <2>7 DEF Counted
<1> QED BY <1>1, <1>2
-----------------------------------------------------------------------------
(* Type correctness.                                                       *)

LEMMA BuiltInRuleType == BuiltInRule \in RuleType
  BY DEF BuiltInRule, RuleType, R1, R2, R3, R4

LEMMA SwapTypeOK ==
  ASSUME currentIndex \in 0 .. 1, SwapIndexes
  PROVE  /\ currentIndex' \in 0 .. 1 /\ nextIndex' \in 0 .. 1
         /\ currentIndex' = 1 - currentIndex
         /\ nextIndex' = currentIndex
  BY DEF SwapIndexes

LEMMA FreshTypeOK ==
  ASSUME NEW b \in BoardsOf(backend), TypeOK, Recreate(b)
  PROVE  TypeOK'
<1>1. /\ b.w \in Nat \ {0} /\ b.h \in Nat \ {0}
      /\ b.live \subseteq Cells(b.w, b.h)
  BY BoardsAssumption DEF BoardsOf
<1>2. Area' = Cells(b.w, b.h)
  BY DEF Recreate, Fresh, Area
<1>3. buffer' \in [0 .. 1 -> SUBSET Area']
  BY <1>1, <1>2 DEF Recreate, Fresh
<1>4. /\ width' \in Nat \ {0} /\ height' \in Nat \ {0}
      /\ backend' \in {"CPU", "CS"}
      /\ currentIndex' \in 0 .. 1 /\ nextIndex' \in 0 .. 1
  BY <1>1 DEF TypeOK, Recreate, Fresh
<1>5. /\ src' \in 0 .. 1 /\ dst' \in 0 .. 1 /\ active' \in BOOLEAN
      /\ caller' \in {"ready", "computing", "computed"}
  BY <1>1 DEF TypeOK, Recreate, Fresh
<1>6. /\ held' \subseteq [by : Workers, cell : Area', live : BOOLEAN]
      /\ done' \subseteq Area'
  BY <1>1 DEF TypeOK, Recreate, Fresh
<1>7.   copied' \in {<< >>} \cup {<<s>> : s \in SUBSET Area'}
  BY <1>1 DEF TypeOK, Recreate, Fresh
<1>8. rule' \in RuleType
  BY BuiltInRuleType DEF TypeOK, Recreate, Fresh
<1> QED BY <1>4, <1>3, <1>5, <1>6, <1>7, <1>8 DEF TypeOK

LEMMA InitTypeOK == Init => TypeOK
<1> SUFFICES ASSUME Init PROVE TypeOK
  OBVIOUS
<1>1. PICK b \in BoardsOf(backend) :
        /\ width = b.w /\ height = b.h
        /\ buffer = [i \in 0 .. 1 |-> IF i = 0 THEN b.live ELSE {}]
  BY DEF Init
<1>2. /\ b.w \in Nat \ {0} /\ b.h \in Nat \ {0}
      /\ b.live \subseteq Cells(b.w, b.h)
  BY BoardsAssumption DEF BoardsOf
<1>3. buffer \in [0 .. 1 -> SUBSET Area]
  BY <1>1, <1>2 DEF Area
<1>4. /\ backend \in {"CPU", "CS"}
      /\ width \in Nat \ {0} /\ height \in Nat \ {0}
  BY <1>1, <1>2 DEF Init
<1>5. /\ currentIndex \in 0 .. 1 /\ nextIndex \in 0 .. 1
      /\ src \in 0 .. 1 /\ dst \in 0 .. 1 /\ active \in BOOLEAN
      /\ held = {} /\ done = {} /\ copied = << >>
      /\ caller \in {"ready", "computing", "computed"}
  BY DEF Init
<1>6. rule \in RuleType
  BY BuiltInRuleType DEF Init
<1> QED BY <1>3, <1>4, <1>5, <1>6 DEF TypeOK

LEMMA NextTypeOK == TypeOK /\ [Next]_vars => TypeOK'
<1> SUFFICES ASSUME TypeOK, [Next]_vars PROVE TypeOK'
  OBVIOUS
<1>1. CASE \E b \in BoardsOf(backend) : Recreate(b)
  BY <1>1, FreshTypeOK
<1>2. CASE Compute
  <2>1. Area' = Area
    BY <1>2 DEF Compute, shape, Area
  <2>2. currentIndex' \in 0 .. 1 /\ nextIndex' \in 0 .. 1
    BY <1>2, SwapTypeOK DEF TypeOK, Compute
  <2>3. /\ src' \in 0 .. 1 /\ dst' \in 0 .. 1 /\ active' \in BOOLEAN
        /\ held' = {} /\ done' = {}
        /\ caller' \in {"ready", "computing", "computed"}
    BY <1>2 DEF TypeOK, Compute
  <2>4. UNCHANGED <<backend, width, height, buffer, rule, copied>>
    BY <1>2 DEF Compute, shape
  <2> QED BY <2>1, <2>2, <2>3, <2>4 DEF TypeOK
<1>3. ASSUME NEW w \in Workers, NEW c \in Area, Read(w, c) PROVE TypeOK'
  <2>1. PICK alive \in BOOLEAN :
          held' = held \cup {[by |-> w, cell |-> c, live |-> alive]}
    BY <1>3 DEF Read, Lives
  <2>2. held' \subseteq [by : Workers, cell : Area, live : BOOLEAN]
    BY <2>1 DEF TypeOK
  <2>3. UNCHANGED <<backend, width, height, buffer, currentIndex, nextIndex,
                    rule, src, dst, active, done, caller, copied>>
    BY <1>3 DEF Read, shape
  <2> QED BY <2>2, <2>3 DEF TypeOK, Area
<1>4. ASSUME NEW t \in held, Write(t) PROVE TypeOK'
  <2>1. t.cell \in Area
    BY DEF TypeOK
  <2>2. Store(buffer[dst], t) \subseteq Area
    BY <2>1 DEF TypeOK, Store
  <2>3. buffer' \in [0 .. 1 -> SUBSET Area]
    BY <1>4, <2>2 DEF TypeOK, Write
  <2> QED BY <1>4, <2>1, <2>3 DEF TypeOK, Write, Area, shape
<1>5. CASE Finish
  <2>1. Area' = Area
    BY <1>5 DEF Finish, shape, Area
  <2>2. currentIndex' \in 0 .. 1 /\ nextIndex' \in 0 .. 1
    BY <1>5, SwapTypeOK DEF TypeOK, Finish
  <2> QED BY <1>5, <2>1, <2>2 DEF TypeOK, Finish, shape
<1>6. CASE CopyNext
  BY <1>6 DEF TypeOK, CopyNext, CopyIndex, Area, shape, work
<1>7. ASSUME NEW r \in RuleFiles, LoadRuleFile(r) PROVE TypeOK'
  BY <1>7, RuleFilesAssumption DEF TypeOK, LoadRuleFile, Area, shape, work
<1>8. CASE UNCHANGED vars
  BY <1>8 DEF TypeOK, vars, Area
<1> QED BY <1>1, <1>2, <1>3, <1>4, <1>5, <1>6, <1>7, <1>8 DEF Next

\* Every variable keeps its type, whatever boards, rules and workers there are.
THEOREM TypeCorrect == Spec => []TypeOK
  BY InitTypeOK, NextTypeOK, PTL DEF Spec
-----------------------------------------------------------------------------
(* The threads do not race.                                                *)

\* Which buffers a computation is bound to, and where its caller waits.
Control ==
  /\ currentIndex # nextIndex
  /\ caller = "computing" => active
  /\ active /\ Waits =>
       caller = "computing" /\ src = currentIndex /\ dst = nextIndex
  /\ active /\ ~Waits =>
       caller = "computed" /\ src = nextIndex /\ dst = currentIndex
  /\ ~active => held = {}

\* NoDataRace is not inductive: that Compute binds two different buffers
\* follows from the indexes being different, which the swap preserves.
RaceInv == TypeOK /\ Control /\ NoDataRace

LEMMA InitRaceInv == Init => Control /\ NoDataRace
  BY DEF Init, Control, NoDataRace

LEMMA NextRaceInv == RaceInv /\ [Next]_vars => Control' /\ NoDataRace'
<1> SUFFICES ASSUME RaceInv, [Next]_vars PROVE Control' /\ NoDataRace'
  OBVIOUS
<1> USE DEF RaceInv
<1>1. ASSUME NEW b \in BoardsOf(backend), Recreate(b)
      PROVE  Control' /\ NoDataRace'
  <2>1. /\ caller' = "ready" /\ ~active' /\ held' = {}
        /\ currentIndex' = 0 /\ nextIndex' = 1
    BY <1>1 DEF Recreate, Fresh
  <2> QED BY <2>1 DEF Control, NoDataRace
<1>2. CASE Compute
  <2>1. ~active
    BY <1>2 DEF Compute, Control, TypeOK
  <2>2. /\ held' = {} /\ done' = {} /\ active'
        /\ src' = currentIndex /\ dst' = nextIndex /\ backend' = backend
    BY <1>2 DEF Compute, shape
  <2>3. CASE Waits
    <3>1. /\ caller' = "computing"
          /\ currentIndex' = currentIndex /\ nextIndex' = nextIndex
      BY <1>2, <2>3 DEF Compute
    <3> QED BY <2>2, <2>3, <3>1 DEF Control, Waits, NoDataRace
  <2>4. CASE ~Waits
    <3>1. caller' = "computed" /\ SwapIndexes
      BY <1>2, <2>4 DEF Compute
    <3>2. /\ currentIndex' = 1 - currentIndex /\ nextIndex' = currentIndex
          /\ currentIndex \in 0 .. 1 /\ nextIndex \in 0 .. 1
      BY <3>1, SwapTypeOK DEF TypeOK
    <3>3. currentIndex # nextIndex /\ currentIndex' = nextIndex
      BY <3>2 DEF Control
    <3> QED BY <2>2, <2>4, <3>1, <3>2, <3>3 DEF Control, Waits, NoDataRace
  <2> QED BY <2>3, <2>4 DEF TypeOK
<1>3. ASSUME NEW w \in Workers, NEW c \in Area, Read(w, c)
      PROVE  Control' /\ NoDataRace'
  <2>1. PICK alive :
          held' = held \cup {[by |-> w, cell |-> c, live |-> alive]}
    BY <1>3 DEF Read
  <2>2. /\ active /\ c \notin done /\ \A t \in held : t.cell # c
        /\ UNCHANGED <<backend, currentIndex, nextIndex, src, dst, active,
                       done, caller>>
    BY <1>3 DEF Read, shape
  <2>3. Control'
    BY <2>2 DEF Control, Waits
  <2>4. NoDataRace'
    BY <2>1, <2>2 DEF NoDataRace
  <2> QED BY <2>3, <2>4
<1>4. ASSUME NEW t \in held, Write(t) PROVE Control' /\ NoDataRace'
  <2>1. /\ held' = held \ {t} /\ done' = done \cup {t.cell}
        /\ UNCHANGED <<backend, currentIndex, nextIndex, src, dst, active,
                       caller>>
    BY <1>4 DEF Write, shape
  <2>2. Control'
    BY <2>1 DEF Control, Waits
  <2>3. NoDataRace'
    BY <2>1 DEF NoDataRace
  <2> QED BY <2>2, <2>3
<1>5. CASE Finish
  <2>1. held = {}
    <3>1. \A t \in held : t.cell \in Area /\ t.cell \notin done
      BY <1>5 DEF Finish, NoDataRace, TypeOK
    <3> QED BY <1>5, <3>1 DEF Finish
  <2>2. /\ active /\ ~active' /\ held' = {} /\ backend' = backend
    BY <1>5, <2>1 DEF Finish, shape
  <2>3. CASE Waits
    <3>1. caller' = "computed" /\ SwapIndexes
      BY <1>5, <2>3 DEF Finish
    <3>2. currentIndex' = 1 - currentIndex /\ nextIndex' = currentIndex
      BY <3>1, SwapTypeOK DEF TypeOK
    <3> QED BY <2>2, <3>1, <3>2 DEF Control, NoDataRace, TypeOK
  <2>4. CASE ~Waits
    <3>1. UNCHANGED <<currentIndex, nextIndex, caller>>
      BY <1>5, <2>4 DEF Finish
    <3> QED BY <2>2, <2>4, <3>1 DEF Control, NoDataRace
  <2> QED BY <2>3, <2>4 DEF TypeOK
<1>6. CASE CopyNext
  <2>1. /\ ~active /\ caller' = "ready"
        /\ UNCHANGED <<backend, currentIndex, nextIndex, active, held>>
    BY <1>6 DEF CopyNext, shape, work
  <2> QED BY <2>1 DEF Control, NoDataRace
<1>7. ASSUME NEW r \in RuleFiles, LoadRuleFile(r) PROVE Control' /\ NoDataRace'
  <2>1. UNCHANGED <<backend, currentIndex, nextIndex, src, dst, active, held,
                    done, caller>>
    BY <1>7 DEF LoadRuleFile, shape, work
  <2> QED BY <2>1 DEF Control, Waits, NoDataRace
<1>8. CASE UNCHANGED vars
  BY <1>8 DEF Control, Waits, NoDataRace, vars
<1> QED BY <1>1, <1>2, <1>3, <1>4, <1>5, <1>6, <1>7, <1>8 DEF Next

\* No thread writes a buffer that another reads, and none computes a cell
\* twice, for any boards and any number of threads.
THEOREM NoRace == Spec => []NoDataRace
<1>1. Init => RaceInv
  BY InitTypeOK, InitRaceInv DEF RaceInv
<1>2. RaceInv /\ [Next]_vars => RaceInv'
  BY NextTypeOK, NextRaceInv DEF RaceInv
<1>3. RaceInv => NoDataRace
  BY DEF RaceInv
<1> QED BY <1>1, <1>2, <1>3, PTL DEF Spec
-----------------------------------------------------------------------------
(* The simulator computes generations.                                     *)

\* The world that the running computation is to produce.
Successor == Generation(rule, width, height, buffer[src])

\* What has been computed so far agrees with the successor, cell by cell.
\* This, with RaceInv, is the invariant behind the refinement: when the
\* last cell is written the whole buffer agrees.
Partial ==
  active => /\ \A t \in held : t.live <=> t.cell \in Successor
            /\ \A c \in done : c \in buffer[dst] <=> c \in Successor

Square == backend = "CPU" => width = height

GenInv == RaceInv /\ Square /\ Partial

\* Where rows are bounded by the height, Read computes the rule for the cell.
LEMMA ReadIsGeneration ==
  ASSUME TypeOK, Square, NEW w \in Workers, NEW c \in Area, Read(w, c)
  PROVE  \E alive \in BOOLEAN :
           /\ held' = held \cup {[by |-> w, cell |-> c, live |-> alive]}
           /\ alive <=> c \in Successor
<1>1. RowBound = height
  BY DEF RowBound, Square, TypeOK
<1>2. Counted(c) = Neighbours(width, height, c)
  BY <1>1, CountedIsNeighbours DEF TypeOK
<1>3. Counted(c) \ Area = {}
  BY <1>2 DEF Neighbours, Area
<1> DEFINE sum == Cardinality(Neighbours(width, height, c) \cap buffer[src])
           alive == Lives(c \in buffer[src], sum)
<1>4. held' = held \cup {[by |-> w, cell |-> c, live |-> alive]}
  <2>1. PICK garbage \in SUBSET (Counted(c) \ Area) :
          held' = held \cup {[by |-> w, cell |-> c, live |->
            Lives(c \in buffer[src],
                  Cardinality((Counted(c) \cap buffer[src]) \cup garbage))]}
    BY DEF Read
  <2>2. (Counted(c) \cap buffer[src]) \cup garbage
          = Neighbours(width, height, c) \cap buffer[src]
    BY <1>2, <1>3
  <2> QED BY <2>1, <2>2
<1>5. alive <=> c \in Successor
  <2>1. c \in Cells(width, height)
    BY DEF Area
  <2> HIDE DEF sum
  <2>2. alive <=> (IF c \in buffer[src] THEN sum \in rule.survive
                                        ELSE sum \in rule.born)
    BY DEF Lives
  <2> QED BY <2>1, <2>2 DEF Successor, Generation, sum
<1>6. alive \in BOOLEAN
  BY DEF Lives
<1> QED BY <1>4, <1>5, <1>6

LEMMA BuiltInIsConway == BuiltInRule = Abstract!ConwayRule
<1>1. 3 .. 3 = {3} /\ 2 .. 3 = {2, 3}
  BY SMT
<1> QED BY <1>1 DEF BuiltInRule, Abstract!ConwayRule, R1, R2, R3, R4

\* The instance's own copies of the operators of Conway are those operators.
LEMMA SameGeneration ==
  Abstract!Generation(rule, width, height, buffer[src]) = Successor
<1>1. Abstract!Cells(width, height) = Cells(width, height)
  BY DEF Abstract!Cells, Cells
<1>2. \A c : Abstract!Neighbours(width, height, c) = Neighbours(width, height, c)
  BY <1>1 DEF Abstract!Neighbours, Abstract!Column, Abstract!Row,
              Neighbours, Column, Row
<1> DEFINE live == buffer[src]
           Lawful(c, sum) == IF c \in live THEN sum \in rule.survive
                                           ELSE sum \in rule.born
           Sum(c) == Cardinality(Neighbours(width, height, c) \cap live)
<1>3. \A S : Abstract!Cardinality(S) = Cardinality(S)
  BY DEF Abstract!Cardinality, Cardinality
<1>4. Successor = {c \in Cells(width, height) : Lawful(c, Sum(c))}
  BY DEF Successor, Generation
<1>5. Abstract!Generation(rule, width, height, live)
        = {c \in Abstract!Cells(width, height) :
             Lawful(c, Cardinality(Abstract!Neighbours(width, height, c) \cap live))}
  BY <1>3 DEF Abstract!Generation
<1>6. ASSUME NEW c
      PROVE  Cardinality(Abstract!Neighbours(width, height, c) \cap live) = Sum(c)
  BY <1>2
<1> HIDE DEF Lawful, Sum, live
<1> QED BY <1>1, <1>4, <1>5, <1>6 DEF live

LEMMA InitGenInv ==
  ASSUME SquareOnCPU, Init
  PROVE  GenInv /\ Abstract!Init
<1>1. RaceInv
  BY InitTypeOK, InitRaceInv DEF RaceInv
<1>2. PICK b \in BoardsOf(backend) :
        /\ width = b.w /\ height = b.h
        /\ buffer = [i \in 0 .. 1 |-> IF i = 0 THEN b.live ELSE {}]
  BY DEF Init
<1>3. Square /\ Partial
  BY <1>2 DEF Init, Square, Partial, SquareOnCPU, BoardsOf
<1>4. b \in CPUBoards \cup CSBoards /\ b = [w |-> b.w, h |-> b.h, live |-> b.live]
  BY BoardsAssumption DEF BoardsOf
<1>5. World = b.live
  BY <1>2 DEF Init, World
<1>6. [w |-> width, h |-> height, live |-> World] = b
  BY <1>2, <1>4, <1>5
<1>7. rule = Abstract!ConwayRule
  BY BuiltInIsConway DEF Init
<1> QED BY <1>1, <1>3, <1>4, <1>6, <1>7 DEF GenInv, Abstract!Init

LEMMA NextGenInv ==
  ASSUME SquareOnCPU, GenInv, [Next]_vars
  PROVE  GenInv' /\ [Abstract!Next]_(Abstract!avars)
<1> USE DEF GenInv
<1>0. RaceInv' /\ RaceInv
  BY NextTypeOK, NextRaceInv DEF RaceInv
<1> DEFINE board == [w |-> width, h |-> height, live |-> World]
           Stutter == UNCHANGED <<width, height, World, rule>>
<1>a. Stutter => [Abstract!Next]_(Abstract!avars)
  BY DEF Abstract!avars
<1> SUFFICES /\ Square' /\ Partial'
             /\ Stutter \/ Abstract!Next
  BY <1>0, <1>a
<1>1. ASSUME NEW b \in BoardsOf(backend), Recreate(b)
      PROVE  Square' /\ Partial' /\ Abstract!Next
  <2>1. /\ backend' = backend /\ width' = b.w /\ height' = b.h
        /\ ~active' /\ currentIndex' = 0 /\ rule' = BuiltInRule
        /\ buffer' = [i \in 0 .. 1 |-> IF i = 0 THEN b.live ELSE {}]
    BY <1>1 DEF Recreate, Fresh
  <2>2. Square' /\ Partial'
    BY <2>1 DEF Square, Partial, SquareOnCPU, BoardsOf
  <2>3. World' = b.live
    BY <2>1 DEF World
  <2>4. b \in CPUBoards \cup CSBoards /\ b = [w |-> b.w, h |-> b.h, live |-> b.live]
    BY BoardsAssumption DEF BoardsOf
  <2>5. board' = b
    BY <2>1, <2>3, <2>4
  <2>6. Abstract!Start(b)
    BY <2>1, <2>5, BuiltInIsConway DEF Abstract!Start
  <2> QED BY <2>2, <2>4, <2>6 DEF Abstract!Next
<1>2. CASE Compute
  <2>1. /\ held' = {} /\ done' = {} /\ active' /\ ~active
        /\ src' = currentIndex
        /\ UNCHANGED <<backend, width, height, buffer, rule>>
    BY <1>2, <1>0 DEF Compute, shape, RaceInv, Control, TypeOK
  <2>2. Square' /\ Partial'
    BY <2>1 DEF Square, Partial
  <2>3. Stutter
    BY <2>1 DEF World
  <2> QED BY <2>2, <2>3
<1>3. ASSUME NEW w \in Workers, NEW c \in Area, Read(w, c)
      PROVE  Square' /\ Partial' /\ Stutter
  <2>1. UNCHANGED <<backend, width, height, buffer, currentIndex, rule,
                    src, dst, active, done>>
    BY <1>3 DEF Read, shape
  <2>2. PICK alive \in BOOLEAN :
          /\ held' = held \cup {[by |-> w, cell |-> c, live |-> alive]}
          /\ alive <=> c \in Successor
    BY <1>0, <1>3, ReadIsGeneration DEF RaceInv
  <2>3. Successor' = Successor
    BY <2>1 DEF Successor
  <2>4. Partial'
    BY <2>1, <2>2, <2>3 DEF Partial
  <2> QED BY <2>1, <2>4 DEF Square, World
<1>4. ASSUME NEW t \in held, Write(t) PROVE Square' /\ Partial' /\ Stutter
  <2>1. /\ held' = held \ {t} /\ done' = done \cup {t.cell}
        /\ buffer' = [buffer EXCEPT ![dst] = Store(@, t)]
        /\ UNCHANGED <<backend, width, height, currentIndex, rule,
                       src, dst, active>>
    BY <1>4 DEF Write, shape
  <2>2. /\ active /\ src # dst /\ t.live \in BOOLEAN
        /\ src \in 0 .. 1 /\ dst \in 0 .. 1 /\ DOMAIN buffer = 0 .. 1
    BY <1>0 DEF RaceInv, Control, NoDataRace, TypeOK
  <2>3. buffer'[src] = buffer[src] /\ buffer'[dst] = Store(buffer[dst], t)
    BY <2>1, <2>2
  <2>4. Successor' = Successor
    BY <2>1, <2>3 DEF Successor
  <2>5. t.cell \in buffer'[dst] <=> t.cell \in Successor
    BY <2>2, <2>3 DEF Store, Partial
  <2>6. \A c \in done : c # t.cell => (c \in buffer'[dst] <=> c \in Successor)
    BY <2>2, <2>3 DEF Store, Partial
  <2>7. Partial'
    BY <2>1, <2>4, <2>5, <2>6 DEF Partial
  <2>8. World' = World
    BY <2>1, <2>2, <2>3 DEF World
  <2> QED BY <2>1, <2>7, <2>8 DEF Square
<1>5. CASE Finish
  <2>1. /\ active /\ ~active' /\ done = Area
        /\ UNCHANGED <<backend, width, height, buffer, rule>>
    BY <1>5 DEF Finish, shape
  <2>2. buffer[dst] = Successor
    <3>1. buffer[dst] \subseteq Area /\ Successor \subseteq Area
      BY <1>0 DEF RaceInv, TypeOK, Successor, Generation, Area
    <3>2. \A c \in Area : c \in buffer[dst] <=> c \in Successor
      BY <2>1 DEF Partial
    <3> QED BY <3>1, <3>2
  <2>3. currentIndex' = dst
    <3>1. CASE Waits
      <4>1. SwapIndexes
        BY <1>5, <3>1 DEF Finish
      <4>2. /\ currentIndex \in 0 .. 1 /\ nextIndex \in 0 .. 1
            /\ currentIndex # nextIndex /\ dst = nextIndex
        BY <1>0, <2>1, <3>1 DEF RaceInv, TypeOK, Control
      <4>3. currentIndex' = 1 - currentIndex
        BY <4>1, <4>2, SwapTypeOK
      <4> QED BY <4>2, <4>3
    <3>2. CASE ~Waits
      <4>1. currentIndex' = currentIndex
        BY <1>5, <3>2 DEF Finish
      <4>2. dst = currentIndex
        BY <1>0, <2>1, <3>2 DEF RaceInv, Control
      <4> QED BY <4>1, <4>2
    <3> QED BY <1>0, <3>1, <3>2 DEF RaceInv, TypeOK
  <2>4. World = buffer[src] /\ World' = Successor
    BY <2>1, <2>2, <2>3 DEF World
  <2>5. Abstract!Evolve
    BY <2>1, <2>4, SameGeneration DEF Abstract!Evolve
  <2> QED BY <2>1, <2>5 DEF Abstract!Next, Square, Partial
<1>6. CASE CopyNext
  <2>1. UNCHANGED <<backend, width, height, buffer, currentIndex, rule,
                    src, dst, active, held, done>>
    BY <1>6 DEF CopyNext, shape, work
  <2> QED BY <2>1 DEF Square, Partial, Successor, World
<1>7. ASSUME NEW r \in RuleFiles, LoadRuleFile(r)
      PROVE  Square' /\ Partial' /\ Abstract!Next
  <2>1. /\ caller = "ready" /\ rule' = r
        /\ UNCHANGED <<backend, width, height, buffer, currentIndex,
                       src, dst, active, held, done>>
    BY <1>7 DEF LoadRuleFile, shape, work
  <2>2. ~active
    BY <1>0, <2>1 DEF RaceInv, Control, TypeOK
  <2>3. Square' /\ Partial'
    BY <2>1, <2>2 DEF Square, Partial
  <2>4. Abstract!Legislate(r)
    BY <2>1 DEF Abstract!Legislate, World
  <2> QED BY <2>3, <2>4 DEF Abstract!Next
<1>8. CASE UNCHANGED vars
  BY <1>8 DEF vars, Square, Partial, Successor, World
<1> QED BY <1>1, <1>2, <1>3, <1>4, <1>5, <1>6, <1>7, <1>8 DEF Next

\* The double buffer, the threads and the asynchronous GPU together implement
\* Conway's automaton on every board, however large, provided the boards of a
\* CPU simulator are square (the row bound of LifeSimulatorCPU is its width).
THEOREM ImplementsGameOfLife == SquareOnCPU => (Spec => RefinesGameOfLife)
<1> SUFFICES ASSUME SquareOnCPU PROVE Spec => RefinesGameOfLife
  OBVIOUS
<1>1. Init => GenInv /\ Abstract!Init
  BY InitGenInv
<1>2. GenInv /\ [Next]_vars => GenInv' /\ [Abstract!Next]_(Abstract!avars)
  BY NextGenInv
<1> QED BY <1>1, <1>2, PTL DEF Spec, RefinesGameOfLife, Abstract!Spec
-----------------------------------------------------------------------------
(* What the 3D window is given.                                            *)

\* The rules a simulator may have had.
Laws == RuleFiles \cup {BuiltInRule}

\* b is the generation after a, under one of the rules.
Follows(a, b) == \E r \in Laws : b = Generation(r, width, height, a)

\* A computed generation that CopyNext has not seen, and the one before it,
\* which the swap made the next buffer.
Unseen == caller = "computed" /\ ~active
Uncopied == IF Unseen THEN buffer[nextIndex] ELSE World

\* What CopyNext delivered last against the buffers: the CPU simulator gave
\* away its current world, the CS simulator is one generation behind.
Lineage ==
  /\ rule \in Laws
  /\ Unseen => buffer[currentIndex]
                 = Generation(rule, width, height, buffer[nextIndex])
  /\ copied # << >> => IF backend = "CPU" THEN copied[1] = Uncopied
                                          ELSE Follows(copied[1], Uncopied)

CopyInv == GenInv /\ Lineage

LEMMA InitLineage == Init => Lineage
  BY DEF Init, Lineage, Unseen, Laws

\* When the last cell is written, the indexes already name or are made to
\* name the new world as current and the old one as next.
LEMMA FinishSwapped ==
  ASSUME GenInv, Finish
  PROVE  /\ currentIndex' = dst /\ nextIndex' = src
         /\ buffer[dst] = Successor
<1>0. /\ active /\ done = Area /\ currentIndex \in 0 .. 1 /\ nextIndex \in 0 .. 1
      /\ currentIndex # nextIndex
  BY DEF Finish, GenInv, RaceInv, TypeOK, Control
<1>1. buffer[dst] = Successor
  <2>1. buffer[dst] \subseteq Area /\ Successor \subseteq Area
    BY DEF GenInv, RaceInv, TypeOK, Successor, Generation, Area
  <2>2. \A c \in Area : c \in buffer[dst] <=> c \in Successor
    BY <1>0 DEF GenInv, Partial
  <2> QED BY <2>1, <2>2
<1>2. CASE Waits
  <2>1. SwapIndexes /\ src = currentIndex /\ dst = nextIndex
    BY <1>0, <1>2 DEF Finish, GenInv, RaceInv, Control
  <2>2. currentIndex' = 1 - currentIndex /\ nextIndex' = currentIndex
    BY <1>0, <2>1, SwapTypeOK
  <2> QED BY <1>0, <1>1, <2>1, <2>2
<1>3. CASE ~Waits
  <2>1. UNCHANGED <<currentIndex, nextIndex>>
    BY <1>3 DEF Finish
  <2>2. src = nextIndex /\ dst = currentIndex
    BY <1>0, <1>3 DEF GenInv, RaceInv, Control
  <2> QED BY <1>1, <2>1, <2>2
<1> QED BY <1>2, <1>3

LEMMA NextLineage == CopyInv /\ [Next]_vars => Lineage'
<1> SUFFICES ASSUME CopyInv, [Next]_vars PROVE Lineage'
  OBVIOUS
<1> USE DEF CopyInv
<1>0. TypeOK /\ Control
  BY DEF GenInv, RaceInv
<1>1. ASSUME NEW b \in BoardsOf(backend), Recreate(b) PROVE Lineage'
  BY <1>1 DEF Recreate, Fresh, Lineage, Unseen, Laws
<1>2. CASE Compute
  <2>1. /\ caller = "ready" /\ ~active /\ active' /\ src' = currentIndex
        /\ UNCHANGED <<backend, width, height, buffer, rule, copied>>
    BY <1>0, <1>2 DEF Compute, shape, TypeOK, Control
  <2>2. ~Unseen /\ ~Unseen' /\ World' = World
    BY <2>1 DEF Unseen, World
  <2>3. Uncopied' = Uncopied
    BY <2>2 DEF Uncopied
  <2> QED BY <2>1, <2>2, <2>3 DEF Lineage, Follows, Laws
<1>3. ASSUME NEW w \in Workers, NEW c \in Area, Read(w, c) PROVE Lineage'
  <2>1. UNCHANGED <<backend, width, height, buffer, currentIndex, nextIndex,
                    rule, src, active, caller, copied>>
    BY <1>3 DEF Read, shape
  <2> QED BY <2>1 DEF Lineage, Unseen, Uncopied, World, Follows, Laws
<1>4. ASSUME NEW t \in held, Write(t) PROVE Lineage'
  <2>1. /\ buffer' = [buffer EXCEPT ![dst] = Store(@, t)]
        /\ UNCHANGED <<backend, width, height, currentIndex, nextIndex,
                       rule, src, active, caller, copied>>
    BY <1>4 DEF Write, shape
  <2>2. active /\ src # dst /\ src \in 0 .. 1
    BY <1>0 DEF GenInv, RaceInv, Control, NoDataRace, TypeOK
  <2>3. buffer'[src] = buffer[src]
    BY <1>0, <2>1, <2>2 DEF TypeOK
  <2>4. ~Unseen /\ ~Unseen' /\ Uncopied' = Uncopied
    BY <2>1, <2>2, <2>3 DEF Unseen, Uncopied, World
  <2> QED BY <2>1, <2>4 DEF Lineage, Follows, Laws
<1>5. CASE Finish
  <2>1. /\ active /\ ~active'
        /\ UNCHANGED <<backend, width, height, buffer, rule, copied>>
    BY <1>5 DEF Finish, shape
  <2>2. currentIndex' = dst /\ nextIndex' = src /\ buffer[dst] = Successor
    BY <1>5, FinishSwapped
  <2>3. caller' = "computed"
    BY <1>0, <1>5, <2>1 DEF Finish, Control
  <2>4. Unseen' /\ Uncopied' = buffer[src] /\ Uncopied = buffer[src]
    BY <2>1, <2>2, <2>3 DEF Unseen, Uncopied, World
  <2>5. buffer'[currentIndex'] = Generation(rule', width', height', buffer'[nextIndex'])
    BY <2>1, <2>2 DEF Successor
  <2> QED BY <2>1, <2>4, <2>5 DEF Lineage, Follows, Laws
<1>6. CASE CopyNext
  <2>1. /\ Unseen /\ ~active' /\ caller' = "ready" /\ copied' = <<buffer[CopyIndex]>>
        /\ UNCHANGED <<backend, width, height, buffer, currentIndex, rule>>
    BY <1>6 DEF CopyNext, Unseen, shape, work
  <2>2. ~Unseen' /\ Uncopied' = buffer[currentIndex] /\ copied'[1] = buffer[CopyIndex]
    BY <2>1 DEF Unseen, Uncopied, World
  <2>3. backend # "CPU" => Follows(buffer[nextIndex], buffer[currentIndex])
    BY <2>1 DEF Lineage, Follows
  <2> QED BY <2>1, <2>2, <2>3 DEF Lineage, Follows, Laws, CopyIndex
<1>7. ASSUME NEW r \in RuleFiles, LoadRuleFile(r) PROVE Lineage'
  <2>1. /\ caller = "ready" /\ rule' = r
        /\ UNCHANGED <<backend, width, height, buffer, currentIndex, nextIndex,
                       src, active, caller, copied>>
    BY <1>7 DEF LoadRuleFile, shape, work
  <2>2. rule' \in Laws /\ ~Unseen /\ ~Unseen' /\ Uncopied' = Uncopied
    BY <2>1 DEF Laws, Unseen, Uncopied, World
  <2> QED BY <2>1, <2>2 DEF Lineage, Follows, Laws
<1>8. CASE UNCHANGED vars
  BY <1>8 DEF vars, Lineage, Unseen, Uncopied, World, Follows, Laws
<1> QED BY <1>1, <1>2, <1>3, <1>4, <1>5, <1>6, <1>7, <1>8 DEF Next

\* The copying step itself.
LEMMA CopyIsNext ==
  ASSUME CopyInv, [Next]_vars,
         caller = "computed", caller' = "ready", copied # << >>
  PROVE  \E r \in Laws : copied' = <<Generation(r, width, height, copied[1])>>
<1>1. CopyNext
  BY DEF Next, vars, Recreate, Compute, Read, Write, Finish, LoadRuleFile
<1>2. Unseen /\ Uncopied = buffer[nextIndex] /\ copied' = <<buffer[CopyIndex]>>
  BY <1>1 DEF CopyNext, Unseen, Uncopied
<1>3. CASE backend = "CPU"
  <2>1. copied' = <<Generation(rule, width, height, copied[1])>> /\ rule \in Laws
    BY <1>2, <1>3 DEF CopyInv, Lineage, CopyIndex
  <2> QED BY <2>1
<1>4. CASE backend # "CPU"
  BY <1>2, <1>4 DEF CopyInv, Lineage, CopyIndex, Follows
<1> QED BY <1>3, <1>4

\* What successive calls of CopyNext deliver are successive generations: for
\* every board (square ones on the CPU simulator), number of threads, rule
\* file loaded in between, and with or without the dumps that wait for the
\* GPU, none is skipped, repeated or torn.
THEOREM CopiesFollow == SquareOnCPU => (Spec => CopiesAreConsecutive)
<1> SUFFICES ASSUME SquareOnCPU PROVE Spec => CopiesAreConsecutive
  OBVIOUS
<1>1. Init => CopyInv
  BY InitGenInv, InitLineage DEF CopyInv
<1>2. CopyInv /\ [Next]_vars => CopyInv'
  BY NextGenInv, NextLineage DEF CopyInv
<1>3. CopyInv /\ [Next]_vars =>
        [caller = "computed" /\ caller' = "ready" /\ copied # << >> =>
           \E r \in RuleFiles \cup {BuiltInRule} :
             copied' = <<Generation(r, width, height, copied[1])>>]_vars
  BY CopyIsNext DEF Laws
<1> QED BY <1>1, <1>2, <1>3, PTL DEF Spec, CopiesAreConsecutive
=============================================================================
