--------------------------- MODULE LifeSimulator ---------------------------
(***************************************************************************)
(* The two life simulators (lifeSimulator/LifeSimulatorCPU.cpp and         *)
(* LifeSimulatorCS.cpp with the shader gameoflife.fx) under the one client *)
(* they have: MoveNextGeneration of the two Draw3D classes, which calls    *)
(* Compute and then CopyNext.                                              *)
(*                                                                         *)
(* Two buffers hold the cells.  One execution of Compute reads the current *)
(* buffer and writes the next one, cell by cell: on the worker threads of  *)
(* Concurrency::parallel_for ("CPU") or on GPU threads ("CS").  parallel_  *)
(* for returns when every cell is written.  Dispatch only queues the work, *)
(* and it is Map that waits for the GPU: that of the two dumps in Compute, *)
(* if DEBUG_LIFESIMULATOR is defined as it is now; without them that of    *)
(* Copy, so that the indexes are swapped while the GPU may not have begun. *)
(* A cell is computed in two steps, Read and Write, so that reads of one   *)
(* thread fall between those of another and its write.                     *)
(*                                                                         *)
(* Colours are left out: a live cell is white and a dead one black in      *)
(* every buffer, so they say nothing that the set of live cells does not.  *)
(***************************************************************************)
EXTENDS Conway

CONSTANTS
  Workers,    \* threads of the parallel_for, or GPU threads in flight
  CPUBoards,  \* boards [w, h, live] given to a CPU simulator
  CSBoards,   \* boards given to a compute shader simulator
  RuleFiles,  \* rules that compiled rule files hold
  DebugLifeSimulator  \* DEBUG_LIFESIMULATOR is defined

ASSUME BoardsAssumption ==
  \A b \in CPUBoards \cup CSBoards :
    /\ b.w \in Nat \ {0}
    /\ b.h \in Nat \ {0}
    /\ b.live \subseteq Cells(b.w, b.h)
    /\ b = [w |-> b.w, h |-> b.h, live |-> b.live]

\* What the row bound of the CPU simulator needs.
SquareOnCPU == \A b \in CPUBoards : b.w = b.h

ASSUME RuleFilesAssumption == RuleFiles \subseteq RuleType

ASSUME DebugAssumption == DebugLifeSimulator \in BOOLEAN

VARIABLES
  backend,       \* which simulator IsComputeShaderSupported() selects
  width, height, \* m_width, m_height
  buffer,        \* m_buffer[2], m_pDataBuffer[2]: the live cells of each
  currentIndex, nextIndex,
  rule,          \* the m_r1 .. m_r4 of the code, or the loaded shader
  src, dst,      \* the buffers bound to the running computation
  active,        \* the computation is running or queued
  held,          \* cells read and computed by a worker, not yet written
  done,          \* cells written by the running computation
  caller,        \* where MoveNextGeneration is
  copied         \* << what the last CopyNext delivered >>, or << >>

vars == <<backend, width, height, buffer, currentIndex, nextIndex, rule,
          src, dst, active, held, done, caller, copied>>

work == <<src, dst, active, held, done>>
shape == <<backend, width, height>>

Area == Cells(width, height)
BoardsOf(b) == IF b = "CPU" THEN CPUBoards ELSE CSBoards

-----------------------------------------------------------------------------
(* The rule applied to a cell.                                             *)

\* r1 <= sum <= r2 makes a dead cell live; r4 <= sum <= r3 keeps a live one.
R1 == 3
R2 == 3
R3 == 3
R4 == 2
BuiltInRule == [born |-> R1 .. R2, survive |-> R4 .. R3]

Lives(alive, sum) ==
  \/ ~alive /\ sum \in rule.born
  \/ alive /\ ~(sum \notin rule.survive)

\* g_sumIndex: the offsets of the eight neighbours.
SumIndex == {<<-1, -1>>, <<0, -1>>, <<1, -1>>, <<-1, 0>>,
             <<1, 0>>, <<-1, 1>>, <<0, 1>>, <<1, 1>>}

\* Mutant: the bound of the CPU simulator in the shader too.
RowBoundOfWidth == width

\* The CPU simulator compares y with GetWidth(), the shader with height.
RowBound == IF backend = "CPU" THEN width ELSE height

\* The offsets that pass the bounds check, and the indexes they lead to.
Inside(c) ==
  {o \in SumIndex : /\ Column(width, c) + o[1] \in 0 .. width - 1
                    /\ Row(width, c) + o[2] \in 0 .. RowBound - 1}

Counted(c) ==
  {Column(width, c) + o[1] + (Row(width, c) + o[2]) * width : o \in Inside(c)}
-----------------------------------------------------------------------------
(* The operations.                                                         *)

\* A new object, SetWidth, SetHeight, SetInitialData and Initialize.
Fresh(b) ==
  /\ width' = b.w
  /\ height' = b.h
  /\ currentIndex' = 0
  /\ nextIndex' = 1
  /\ buffer' = [i \in 0 .. 1 |-> IF i = 0 THEN b.live ELSE {}]
  /\ rule' = BuiltInRule
  /\ src' = 0 /\ dst' = 1 /\ active' = FALSE
  /\ held' = {} /\ done' = {}
  /\ copied' = << >>

Recreate(b) ==
  /\ caller = "ready"
  /\ Fresh(b)
  /\ UNCHANGED <<backend, caller>>

\* Mutants: the modulus forgotten; the second assignment forgotten.
SwapUnwrapped ==
  /\ currentIndex' = currentIndex + 1
  /\ nextIndex' = currentIndex' + 1

SwapCurrentOnly ==
  /\ currentIndex' = (currentIndex + 1) % 2
  /\ nextIndex' = nextIndex

SwapIndexes ==
  /\ currentIndex' = (currentIndex + 1) % 2
  /\ nextIndex' = (currentIndex' + 1) % 2

\* Compute returns only when every cell is written.
Waits == backend = "CPU" \/ DebugLifeSimulator

\* The parallel_for starts, or Dispatch queues the work.
Compute ==
  /\ caller = "ready"
  /\ src' = currentIndex /\ dst' = nextIndex /\ active' = TRUE
  /\ held' = {} /\ done' = {}
  /\ \/ /\ Waits
        /\ caller' = "computing"
        /\ UNCHANGED <<currentIndex, nextIndex>>
     \/ /\ ~Waits
        /\ caller' = "computed"
        /\ SwapIndexes
  /\ UNCHANGED <<shape, buffer, rule, copied>>

\* A worker takes a cell nobody has and computes its next state.  Indexes
\* past the end of the buffer read anything.
Read(w, c) ==
  /\ active
  /\ c \in Area \ done
  /\ \A t \in held : t.by # w /\ t.cell # c
  /\ \E garbage \in SUBSET (Counted(c) \ Area) :
       LET sum == Cardinality((Counted(c) \cap buffer[src]) \cup garbage)
       IN  held' = held \cup {[by |-> w, cell |-> c,
                               live |-> Lives(c \in buffer[src], sum)]}
  /\ UNCHANGED <<shape, buffer, currentIndex, nextIndex, rule,
                 src, dst, active, done, caller, copied>>

Store(world, t) == IF t.live THEN world \cup {t.cell} ELSE world \ {t.cell}

Write(t) ==
  /\ held' = held \ {t}
  /\ done' = done \cup {t.cell}
  /\ buffer' = [buffer EXCEPT ![dst] = Store(@, t)]
  /\ UNCHANGED <<shape, currentIndex, nextIndex, rule,
                 src, dst, active, caller, copied>>

\* Every cell is written: the parallel_for or Map returns and the indexes are
\* swapped, or the GPU retires the dispatch unseen.
Finish ==
  /\ active
  /\ done = Area
  /\ active' = FALSE
  /\ \/ /\ Waits
        /\ SwapIndexes
        /\ caller' = "computed"
     \/ /\ ~Waits
        /\ UNCHANGED <<currentIndex, nextIndex, caller>>
  /\ UNCHANGED <<shape, buffer, rule, src, dst, held, done, copied>>

\* Mutant: always the first buffer.
CopyFirst == 0

\* CopyNext of the CPU simulator copies the current buffer; that of the CS
\* simulator the next one, which the swap made the old one.
CopyIndex == IF backend = "CPU" THEN currentIndex ELSE nextIndex

\* Map returns when the GPU is done with the buffers.
CopyNext ==
  /\ caller = "computed"
  /\ ~active
  /\ copied' = <<buffer[CopyIndex]>>
  /\ caller' = "ready"
  /\ UNCHANGED <<shape, buffer, currentIndex, nextIndex, rule, work>>

\* A rule file that compiles; one that does not, and any on the CPU
\* simulator (E_NOTIMPL), changes nothing.
LoadRuleFile(r) ==
  /\ caller = "ready"
  /\ backend = "CS"
  /\ rule' = r
  /\ UNCHANGED <<shape, buffer, currentIndex, nextIndex, work, caller, copied>>
-----------------------------------------------------------------------------
Init ==
  /\ backend \in {"CPU", "CS"}
  /\ \E b \in BoardsOf(backend) :
       /\ width = b.w /\ height = b.h
       /\ buffer = [i \in 0 .. 1 |-> IF i = 0 THEN b.live ELSE {}]
  /\ currentIndex = 0 /\ nextIndex = 1
  /\ rule = BuiltInRule
  /\ src = 0 /\ dst = 1 /\ active = FALSE
  /\ held = {} /\ done = {}
  /\ caller = "ready"
  /\ copied = << >>

Next ==
  \/ \E b \in BoardsOf(backend) : Recreate(b)
  \/ Compute
  \/ \E w \in Workers, c \in Area : Read(w, c)
  \/ \E t \in held : Write(t)
  \/ Finish
  \/ CopyNext
  \/ \E r \in RuleFiles : LoadRuleFile(r)

Spec == Init /\ [][Next]_vars
-----------------------------------------------------------------------------
(* Properties.                                                             *)

\* Every variable has its type; the two indexes name the two buffers.
TypeOK ==
  /\ backend \in {"CPU", "CS"}
  /\ width \in Nat \ {0} /\ height \in Nat \ {0}
  /\ buffer \in [0 .. 1 -> SUBSET Area]
  /\ currentIndex \in 0 .. 1 /\ nextIndex \in 0 .. 1
  /\ rule \in RuleType
  /\ src \in 0 .. 1 /\ dst \in 0 .. 1 /\ active \in BOOLEAN
  /\ held \subseteq [by : Workers, cell : Area, live : BOOLEAN]
  /\ done \subseteq Area
  /\ caller \in {"ready", "computing", "computed"}
  /\ copied \in {<< >>} \cup {<<s>> : s \in SUBSET Area}

\* While cells are being computed no thread writes a buffer another reads
\* (Compute binds two different buffers, whatever calls came before it), and
\* no cell is computed by two threads or after it was written, so the order
\* in which the threads run cannot show in the result.
NoDataRace ==
  active => /\ src # dst
            /\ \A t \in held : t.cell \notin done
            /\ \A t, u \in held : t.cell = u.cell => t = u

\* The world a reader of the code would name: the buffer being read while a
\* generation is computed, else the current one.
World == IF active THEN buffer[src] ELSE buffer[currentIndex]

Abstract == INSTANCE GameOfLife WITH
  Boards <- CPUBoards \cup CSBoards,
  board <- [w |-> width, h |-> height, live |-> World],
  law <- rule

\* Whatever the interleaving of the threads and the GPU, the simulator moves
\* from each world to its successor under Conway's rule (or the loaded one)
\* and to nothing else: Compute implements the simultaneous update.
RefinesGameOfLife == Abstract!Spec

\* What successive calls of CopyNext hand to the 3D window are successive
\* generations: none is skipped, repeated or torn.
CopiesAreConsecutive ==
  [][caller = "computed" /\ caller' = "ready" /\ copied # << >> =>
       \E r \in RuleFiles \cup {BuiltInRule} :
         copied' = <<Generation(r, width, height, copied[1])>>]_vars
=============================================================================
