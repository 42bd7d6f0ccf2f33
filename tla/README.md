# xgen: a TLA+ verification project

xgen is the retargetable code generator of the XOC compiler infrastructure.
It lowers the intermediate representation of a region to machine operations
(`OR`s) over symbol registers (`SR`s), allocates registers, lays out the stack
frame, schedules each basic block on a cycle-accurate simulator and prints the
assembly.  `arm/` is its only back end, `xocc/` a C compiler driver on top.
It is a sequential program: there are no threads, no messages and nothing is
persisted.  What is hard in it is the order of many small destructive updates
of shared tables (graphs, lists, register sets, slots), the loops that go back
and try again, and the agreement between components that compute the same fact
(a conflict, a latency, an offset) in different ways.

This directory holds TLA+ models of its parts, TLC runs on small instances and
TLAPS proofs.  `PROJECT.json` maps every definition to the lines it models.

## 1. Inventory

Paths are below `src/`.

| component | state | operations | what is hard; what makes it correct |
|---|---|---|---|
| list scheduler `xgen/or_lis`, `arm/arm_lis` | clone of the graph, ready list, visited set, candidate list, bundle (`issue_ors`), start cycle of the branch | `schedule`, `serialize`, `computeReadyList`, `fillIssueSlot`, `selectIssueORs`, `rollBackORs`, `updateReadyList`, rescheduling from `RESCH` | incremental ready list, slots filled twice, attempts repeated; dependences kept, every OR issued once, branch last or in time, termination |
| basic block simulator `xgen/or_sim`, `arm/arm_sim` | cycle, ORs executing per slot, execution table | `issue`, `canBeIssued`, `runOneCycle`, `done`, `reset` | only the ORs in flight are asked for conflicts; results available when read |
| dependence graph `xgen/or_ddg`, `arm/arm_ddg` | edges with kinds, tables of the last writers and readers of each register | `build`: `buildRegDep`, `buildMemDepWithOutAnalysis`, `removeRedundantDep`; queries, `removeOR`, `clone` | kills through aliases, physical and symbol registers, removal of edges; exactly what conflicts is ordered |
| instruction scheduling and packaging `CG::performIS`, `CG::package` | simulators per block, issue packages | one graph and schedule per block, then the package | three components must agree on latencies and order |
| local register allocation `xgen/or_lra`, `arm/arm_lra` | life times with positions and occurrences, interference graph, usable and anticipated register sets, sibling links, priority lists, spill locations | `create`, `assignRegister`, `spill`, `split`, `solveConflict`, peepholes on the graph | life times become stale when ORs change; no two live values share a register, spill and reload pair, termination |
| global register allocation `xgen/or_gra` | global life times, interference, used-register sets of blocks | interference graph of the SRs live across blocks | only liveness and the graph are written; off by default |
| allocation manager `xgen/ramgr`, `arm/arm_ramgr` | block levels, spill variables free and used, callee-saved registers used | `performGRA`, `performLRA`, `genSpillVar`, save and restore of callee-saved registers | reuse of a spill slot while live |
| argument passing `xgen/argdesc.h`, `CG::passArg*`, `storeRegSetToStack` | argument registers left, descriptors of stack arguments, bytes passed | allocation of registers to arguments, stores of the rest, storing back of parameters | caller and callee must compute the same places |
| stack frame `xgen/section`, `CG::*Spadjust*`, `computeVarBaseAndOffset` | sections with variables and offsets, parameter area size | layout, SP adjustment at entry and exit | offsets disjoint and aligned, adjustments balanced |
| OR control flow graph `xgen/or_cfg` | blocks, labels, edges | `build`, removal of empty blocks and redundant branches | labels always resolve |
| blocks and ORs `xgen/or_bb`, `xgen/or`, `xgen/or_util` | lists, free lists, maps from id to OR | insertion, removal, renaming, recycling | an OR is in at most one list |
| symbol registers `xgen/sr`, `xgen/sr_def`, `xgen/reg`, `arm/arm_sr` | table of SRs, free list, dedicated registers, vectors | `genSR`, `genReg`, `freeSR` | one dedicated SR per physical register |
| register file groups, issue packages, options, intrinsics, assembly printer | tables | look-ups, output | little |
| parallel part manager `xgen/parallel_part_mgr`, `autopar`, `instruction_partition` | partitions and groups of ORs | partition over clusters | never run on targets with one cluster |
| lowering `xgen/ir2or`, `arm/armir2or` | current list of ORs, condition codes, context | one conversion per IR operation | two words, carries, flags, signs, immediates and offsets out of range; the code computes what the IR means and stores nothing else |
| ARM back end `arm/arm*`, target generator `arm/precompile` | tables of the machine | constructors, expansion of fake ORs, descriptions | a scratch register for what cannot be encoded; constructors and descriptions agree |
| conversion of C trees `xocc/tree2ir`, `canon` | lists of statements made so far and to be made after the current one, case list, next PR | `convert*`, one per kind of tree | side effects become statements: their order, the paths they run on, what is repeated in a loop |
| driver `xocc/*` | options, regions | command line, glue to the absent parser | no algorithm |

`CG::perform` runs them in this order for a region: lowering (IR2OR) with the
passing of arguments, block construction, stores of the parameters, register
allocation (RaMgr, LRA), frame layout, instruction scheduling (`performIS`),
packaging (`package`), output.
The parts share the block's OR list; the scheduler and LRA share the dependence
graph and the simulator.  The base library (`xoc`, `xcom`: graphs, lists, bit
sets, IR, options) is not in the repository and is modelled by its use.

The hazards, each at its line and with the properties that cover it, are listed
in `PROJECT.json`.

## 2. Plan

Every step of the plan that the code allows is built.

| step | modules | abstract specification |
|---|---|---|
| scheduling | `Block`, `DDG`, `BBSim`, `LIS`, `PerformIS` | `IssueOrder`: what any scheduler promises |
| colouring | `LifeTime`, `AssignReg` | the block computes the same values on places of its own |
| calling convention, frame | `ArgPass`, `Frame` | caller and callee name the same place for each byte |
| tables of the machine | `ArmMach` | assumptions of the scheduler and the allocator, as ASSUME |
| code | `ArmOr`, `ArmBuild`, `Expand`, `Lower` | the meaning of an IR statement on integers |
| spilling, splitting, blocks | `SpillCode`, `SplitLT`, `RegAlloc` | every OR of the source reads what it read |
| C to IR | `CTree`, `IR`, `Tree2IR`, `FrontEnd` | `Eval` and `Exec`, what C says |
| proofs | `DDGProofs`, `LISProofs`, `LISTimeProofs`, `PerformISProofs`, `AssignRegProofs`, `FrameProofs`, `ArgPassProofs`, `KeepValuesProofs` | `LIS` implements `IssueOrder`; a package and a colouring compute what the block does, for every block |

Left, in order of worth:

1. Inline assembly, in the graph and the allocator; indirect calls.
2. The optimising phases of LRA, when an option switches them on.

## 3. The modules

### Scheduling

**Block** is the vocabulary: an OR as a record of the fields the components
read (results with the cycle each is available, operands, last result cycle,
memory kind, base register, branch and NOP marks, slot), the registers an SR
stands for, aliases, edges.  `WellFormedOR` is what the tables printed by
`arm/precompile/arm_gen_targ_mach_resource.cpp` satisfy: a result is available
between cycle 1 and the last result cycle, the results of a memory access come
together, and a NOP names no register and no memory.  A block has at most one branch, its last OR.  `LandedBy` states, without
the graph, when the results of an earlier OR allow a later one to be issued.

**DDG** is `DataDepGraph::build`, with a step per OR for `buildRegDep`
(operands first, then results, with the tables `defor` and `useor` of the ORs
that wrote a location last and read it since), a step per OR for the memory
chain, and `removeRedundantDep`.  Locations are physical registers when the SR
has one (`PHY_REG`, with its alias set) and SRs otherwise (`SYM_REG`).

**BBSim** is the simulator: `slotLst` holds the ORs executing, `execTab` the
pairs of OR and cycle, `orSlot` the slot each OR currently has.
`RegResourceConflict`, `MemResourceConflict` and `CanBeIssued` are the tests the
scheduler asks; the two targets (base class and ARM) differ in occupied slots
and in which result is looked at.

**LIS** is the scheduler over BBSim; every function of `or_lis.cpp` that changes
state is an action or an operator of one.  `phase` is the program counter:
`enter`, `ready` (computeReadyList), `fill` (fillIssueSlot), `select`
(selectIssueORs, one slot per step, with the rollback), the rest of
tryIssueCandList, `check` (the test of rescheduling) and `done`.  `serialize` is
the `serial` phase, entered instead according to `LisModes`, the values of
`g_do_lis`.  The slack that divides the priority is 0 for every OR, as the start
cycles are computed on the clone of the graph only; ties between candidates of
equal priority are broken by the order of OR ids, which is not the order of the
block, so the model leaves them open.  The second alternative of `NewBrStart` is
dead as long as getAddendOfMaxTryTime is 0.

**IssueOrder** is what a scheduler promises: at every step some ORs get the
current cycle, each at most once, after everything they depend on and not
before the results they wait for; or everything starts again; or time passes.
`ImplementsIssueOrder` maps `now` to the simulator's cycle and `when` to the
execution table.

**PerformIS** composes DDG, LIS and BBSim as `performIS` does, on one block,
and adds `package`.  With `serialize` no graph is built.

### Register allocation

**LifeTime** is `LifeTimeMgr::create`: a step for the live-out SRs, one per OR
from the last to the first, one for the live-in SRs and `reviseLifeTime`.  Life
times are named by their SRs; `ltpos` and `desc` are the bit set and the
occurrences of one, `nextSib` and `prevSib` the links between the halves of a
pair.  An OR has the results and operands of one register file, as a life time
interferes only within its file; a predicate is the flag `cond`.  What the block
computes is stated without life times: `Stores` runs the block on places (an SR
of its own, or a register) with any set of predicated ORs skipped, and a value
is the OR that wrote it.

**AssignReg** goes on: `computeUsableRegs` with the constraints of ARM pairs,
`InterfGraph::build`, and `computePrioList` with `assignRegister`.  `step` is the
program counter: `lifetime`, `graph`, `next` (the next of the priority list),
`avoid` (the loop that keeps registers for neighbours, one neighbour a step) and
`fin` (a preferred register was taken).  The order of the list comes from
floating point costs and is left open, as are the order of the neighbours and
the choice of `chooseByRegFileGroup`; what it takes off the usable registers is
kept.  Assumed of the blocks: the SRs of a pair both have a register or both have
none, and no SR is the low one of a pair and the high one of another, so that
the sibling checks do not recurse.

**SpillCode**, **SplitLT** and **RegAlloc** take the function as a whole.
`SpillCode` holds the code that is inserted: localisation of a register several
blocks use (`localizeBB`), `genSpill`, `genReload`, the slots with their list of
free ones.  `SplitLT` is `LRA::split`: the candidates, the holes, the choice of
`computeBestSpillCand`, `splitLTAt`, `splitTwoLTContained`, `splitTwoLTCross`.
Both are functions of a record `w` of the block's ORs, the SRs and the slots.
`RegAlloc` runs them: `GenerateFuncUnitDedicatedCode`, `Localize` one SR after
the other, then for each block `AllocateBB`, `SolveConflict` until nothing is
uncoloured, `PostLRA`, and `SaveCallee` at the end.  Costs are left open here
too: a life time is picked among all with a nonzero cost.  `Run` executes the
function along a path on registers, places and slots; a value is the number of
the OR that made it.

### Calls and the frame

**ArgPass** is one call seen from both sides.  `PassArg` is
`passArg` with its three ways (registers; memory split between registers and
stack, for structures of more than two words, `ByAddress`; stack only) over the descriptors of `ArgDescMgr`; `ComputeParamLayout`,
`ReviseFormalParameter` and `StoreReg` are the callee's.  A byte of an argument
is a pair; the property is that the bytes are where the callee's loads go.

**Frame** is one function through the passes that lay its frame out, with the
references to variables and the conversion of calls in every order, as offsets
are given at the first reference while the area of arguments still grows; then
one execution: entry, `Alloca`, calls, exit.

### Code

**ArmMach** holds the tables the target generator computes: registers, register
files, calling convention, and of every OR code the descriptions of results and
operands, the properties and the cycles.  `ConventionAssumption` and
`CyclesAssumption` are what the other parts take for granted; TLC evaluates them
in the runs `is` and `code`.

**ArmOr** is the machine the ORs run on: registers, flags, bytes.  It is not
code of the repository but what the ORs mean, so it is marked external in the
map.  **ArmBuild** are the constructors of `arm_cg.cpp` and `cg.cpp` the lowering
calls, **Expand** is `package` and `expandFakeOR`, **Lower** is
`IR2OR`/`ARMIR2OR`.  A behaviour starts with an IR statement, converts it
(phase `ir` to `or`), cuts the ORs into blocks (`bb`), packages them (`run`) and
runs them.  `Meaning` is what the statement computes, on integers.

### C to IR

**CTree** holds the trees and, as reference, what C does with them (`Eval`,
`Exec`).  **IR** is the part of the absent library the conversion builds and what
its expressions are worth.  **Tree2IR** is the conversion, a function of the
tree, a context (`rec`, `addr`, `callee`: the flags handed down) and a world
(lists of statements, counters).  **FrontEnd** converts a function and runs its
IR statement by statement.

The `MC_` modules give the constants for TLC.  `MC_IS` takes its ORs from
`ArmMach`, so the scheduler is checked on the cycles of the generated tables.

## 4. The runs

| run | instance | shows |
|---|---|---|
| lis | two slots, ORs movable, every acyclic graph with three edge kinds on every block of 3 ORs (fast, slow, NOP), without a branch or, with a load after the load before it, with one of one or three cycles whose delay slots are scheduled; `schedule` and `serialize` | ready list, dependences, completeness, no OR moved onto another, attempts end, refinement of `IssueOrder` |
| is | ARM: every block of 4 ORs of a menu of 9 codes of `ArmMach`, the last one a branch, an access, an sbc or a predicated move; `schedule` and `serialize` | the graph orders exactly what conflicts, flow edges are direct, graph, schedule and package agree: the code emitted computes what the block does |
| ar | every block of 4 ORs of a menu of 7 with ldrd, strd, a predicated copy, copies from and to a dedicated and a global SR; 5 allocable registers | life times are long enough for every colouring; proper colouring, a register always left, pairs, values kept, every life time dealt with |
| ar_fp | blocks of 3 ORs, the frame pointer in use | violated: the frame pointer is given away |
| ra | ten functions of one to three blocks, and the 144 in which a chain of operations reads three values in every order, two registers | values survive localisation, splitting and sharing of slots, callee-saved registers come back, `solveConflict` ends |
| ra_slots | a value of three blocks around a block that needs two slots | violated: the slot is reused while it is live |
| arg | 434 signatures | every byte arrives where the callee looks, in the area reserved |
| frame | 864 functions of up to three variables, two calls, five parameters (words, or a pair, a structure or a byte among them), with and without alloca | variables disjoint, inside the frame, reachable; SP aligned and restored |
| frame_alloca | those with alloca and stack arguments | violated: arguments overwrite the block |
| code | 3741 statements | the code computes what the IR means, stores nothing else, ends, and can be encoded |
| code_member | copies out of a member behind a pointer | violated: the offset is lost |
| tree | functions of one or two statements over a menu of expressions and loops | the IR does what C says, reads no unset PR, and ends |

Bounds, and why they are enough:

* Scheduling: four ORs (three next to all graphs) give every pattern the code
  distinguishes: a definition, a use, a redefinition and an unrelated OR; a chain
  of two NOPs; a bundle of two with a common successor.  Latencies 1 to 3 cover
  results before, with and after the last cycle.  Cycles are not bounded: the
  schedules are finite.  Two slots are checked although ARM issues one OR a
  cycle, because the rollback of slots and the bundles are written for several.
* Colouring: a definition, a predicated redefinition, a use and something that
  interferes; five registers, an even one first, hold two pairs at most, so that
  colouring fails as well as succeeds.
* `ra`: functions written for the cases of `split` (contained and crossing life
  times, holes, values changed at the end of a hole, predicated definitions, the
  dedicated register of the return value) and for the protocol between blocks
  (loops, calls, slots found again), and chains of three operations over three
  values, which every order of reads and one result that replaces a value read
  make split in every way.  Three values for two registers are the least that need
  a split; the functions stay hand-made families, so `SolveConflictEnds` says
  nothing of others, and one is known on which splitting does not end (below).
  Not reached with two registers and ORs of one result:
  the second round of `splitLTAt` (ORs of two results), a reload at the end of the
  block, a spill at its head, and the last case of `splitTwoLT` (two life times
  that start together, neither inside the other), which the code asserts not to come;
  without the assertion it leaves the store of the first definition only, and so
  does the model.
* `arg`: up to five parameters, six when narrow, with structures that end in the
  registers, at their end and behind.  Left out: signatures of the divergences below, and with them a structure of
  two words as the second or fourth parameter of words.
* `code`: a byte has 2 bits, so a word has 8 and two words 16; carries, signs and
  the boundaries of immediates are where they are with 8 bits, relative to the
  word.  A float is a word with sign and magnitude, a double two.  Copies leave a rest of
  0 to 3 bytes over whole words.  Values are taken at both ends of
  the ranges and on both sides of every carry, variables near and far.  Left out: negative floats
  converted to unsigned, which C does not define, and the divergences below.
* `tree`: every combination of two levels of the operators and side effects of
  the menu, three levels of `&&` and `||`; loops run up to 12 rounds.  Programs C
  leaves undefined are excluded by `Exec` (`ok`), programs with a known
  divergence by `Known`, whose clauses are those of the list below.  The search for
  `continue` stops at what `isCFSThatControlledBySCO` of the absent library names;
  the model takes that to be the loops and not the switch, whose `continue` is the
  loop's.

`CHECK_DEADLOCK FALSE` is set wherever the functions return; `RegAlloc` has a
`Done` step instead.

Fairness is weak fairness of the next-state relation: the code is sequential
and each step is a piece of a loop that is running, so it is always taken.
Nothing is assumed of the choice between candidates.  `RegAlloc` and `FrontEnd`
write the formula out, `[]<>(phase = "done") \/ []<><<Next>>_vars`, because in
them a step exists exactly until `done` and TLC would evaluate the whole
conversion once more to decide ENABLED.

### Disagreements shown by a run

`FramePointerSpared` (`ar_fp`): `assignRegister` makes the preferred register of
a neighbour usable for it (`or_lra.cpp:2760`) although `pickOutUnusableRegs` has
taken it off.  When the low half of a pair has the register below the frame
pointer, the high half gets the frame pointer.

`ValuesSurvive` (`ra_slots`): the slot that carries a value from block to block
is in the list of the slots of a block and is freed, twice, when the block is
done; a block that spills two life times gets it for both.

`AllocaKept` (`frame_alloca`): alloca returns SP, and SP is where the stack
arguments of later calls go.

`ResultIsMeaning` (`code_member`): the copy of a member behind a pointer starts
at the pointer.

### Disagreements without a run

The instances of the runs avoid them.

Scheduling

* `schedule()` accepts a schedule in which an OR is issued `br_latency` cycles
  after the start of the branch (`or_lis.cpp:577`), behind the last of the cycles
  its delay slots fill.  The comment beside the test (578-579) and `serialize`'s
  `ASSERT0(pad >= 0)` (507) ask for one cycle less.  The model has the test as the code
  has it; nothing is claimed of how late an OR may be in the shadow of the branch.
* The graph knows that a condition code aliases the flags,
  `ARMSim::isRegResourceConflict` (`arm_sim.cpp:109`) does not, so the latency of
  the flags is not waited for by predicated ORs.  In `is` predicated moves
  precede the ORs that set flags.
* `rollBackORs` asserts that the slot it fills is empty (`or_lis.cpp:290`).  With two
  slots of which only one loads, an operation, two loads ready beside it and a
  branch that waits for the operation, it is not: the operation moves to the
  second slot, a load takes the first, and the other load, which cannot be issued
  where `makeIssued` moved it, meets the slot taken.  Without the assertion the
  OR chosen before is overwritten or stays where it cannot be issued.  `SlotFree`
  is the assertion, for the instances of `lis`, in which a load of a block with a
  branch depends on the load before it.  No target has two slots.
* Tables: the description of `movt_i` omits the register it reads; `nop` has 0
  cycles and `getExecCycle` asserts at least 1; the flags of `orrs` and
  `ands_asr_i` come after 1 cycle, those of other codes after 3; `mla`, `ldm`,
  `strsb`, `adc_i` and others have no description.

Blocks

* `append_tail_ex` of a list (`or_bb.cpp:93-137`) does not return when no OR
  precedes the branch: it appends behind the branch and goes on to insert after
  nothing.
* The mark of a branch target is set on the block before the label
  (`cg.cpp:3962`); nothing reads it.

Calls and frame

* The caller puts a two-word argument on the stack at an aligned offset and does
  not count the padding, the callee does not align at all: after an odd number
  of words on the stack the two differ.  A narrow parameter before a two-word
  one makes `storeRegSetToStack` lose the register skipped for the pair; sizes
  are unsigned and wrap.  `MC_Arg` leaves these signatures out.
* A structure of two words is loaded into registers like a scalar
  (`cg.cpp:836-851`), and `CG::skipArgRegister` (2301) skips an odd register for it;
  the callee's `ARMCG::skipArgRegister` (`arm_cg.cpp:3325`) skips none for a
  structure.  Of `f(int, struct of 8 bytes)` the caller passes the structure in r2
  and r3, the callee takes it from r1 and r2.  `MC_Arg` leaves such signatures out,
  `NoSkippedStruct` excludes them from the theorem.
* `buildAlloca` of an immediate would raise SP; the lowering always loads the
  size first.

Lowering

* Two-word `bor` is computed as exclusive or (`armir2or.cpp:267-331`); the high
  word of a two-word `bnot` is `hi ^ ~lo` (1194-1283); `convertSelect` gives the
  high words of its arms to different registers, but is not reached.
* `Falsebr` inverts the relation of floating point comparisons too, which is
  wrong for NaN (`ir2or.cpp:1228`).  `convertRelationOp` looks twice at operand 0
  for the sign, `convertRelationOpDWORD` for the larger type.
* A store of 3 bytes masks the register stored and writes 4, of 5 to 7 bytes 8.
* `isValidImmOpnd(OR_add_i, imm->is_int_imm())` tests a truth value, so
  `buildAddRegImm` always makes one fake `add_i`.
* `expandFakeLoad` adds the address without the OR's predicate;
  `expandFakeStore` renames a stored value that equals the base; `computeOfst`
  changes the offset of a shared SR.

Register allocation

* Whether `BitSet::is_contained_in_range` (absent) says that the range lies in
  the set or the set in the range decides over splitting.  The model takes the
  first, which the comments 3943, 3966 and 4808 of `or_lra.cpp` expect; then
  `getResideinHole` (4707) is inverted against its comment (4679) and splitting
  can repeat without end, for instance with two registers on
  `3:=; 4:=; 5:=; 6:=4; 7:=5,6; 8:=4,7; 3:=3,8; r0:=3,3; ret`.  With the other
  reading `ValuesSurvive` fails.  `SolveConflictEnds` is therefore a statement about the
  functions of the run.
* A dedicated register can be a candidate: a result in r0 is renamed by
  `spillGSR`, a reload at the last position goes behind the return, a store at
  the first before the frame exists.
* Predicated definitions: `localizeBB` stores the last definition only;
  `splitTwoLT` stores a renamed one without its predicate and its remainder for
  conditional definitions is commented out (3752, 3877); `splitLTAt` with two of
  them loses the first; `spillFirstDef` takes the second definition, not the
  nearest.  `localizeBB` does not reload the operand of an OR that also defines
  the register first.
* `updateInfoEffectedByInlineASM` (7803) has its test inverted: callee-saved
  registers that inline assembly changes are not saved.
* In `or_gra.cpp` `computeLocalLiveness` lets a predicated definition kill.

C to IR

* Both arms of `?:` leave their side effects before it, unconditionally.
* In an assignment or the condition of a `do`, postfix `++` and `--` in an
  operand of `&&`, `||`, `?:`, a comma or a call are done after the statement.
* The value of an assignment is its right side evaluated again after the store
  (`x = (i = i + 1)`, `x = (i += 2)`), not converted to a narrower left side.
* `++` and `--` of a field ignore its offset (`p->f++`, `++s.f`).
* The condition of a `switch` loses its side effects (`switch (f())`,
  `tree2ir.cpp:1418`); `continue` repeats the step but not what the condition
  does.
* All calls returning large structures share one buffer; the one for
  `&(f().arr)` has no bytes.
* The address of a field of a field behind a pointer (`&(*p).in.y`,
  `&r->in.y`) adds the offset to a load.  A callee that is loaded from a field
  (`p->fn(x)`) loses the load.

## 5. The proofs

Each proof module extends the module it is about.  The argument is always an
inductive invariant, which TLC checked on an instance first; the theorems named
here follow from it.  They hold for every value of the constants that satisfies
the named assumptions of the modules.  What those assume, and why:

* `RegisterAssumption`, `AliasAssumption`, `BlocksAssumption`, `LifeTimeBlocks`
  and the like say what the generated tables, `constructORBBList` and the lowering
  give (section 3).
* `GraphsAssumption` of `LIS`: edges lead forward, and a `HYB` edge is the only
  kind of its pair of ORs unless it leaves a memory access, because only the
  memory pass of the builder makes it.  `PerformISProofs` proves that what
  `DDG` hands over has this form, so it is no assumption of the composition.
* `ArgAssumption`: the argument registers are whole pairs, as r0 to r3 are, and
  an unsigned integer is a multiple of 16.
* `PlacesDiffer` of `LifeTime`: no symbolic register is a physical one, so that the
  two are different places to keep a value in.  They are objects and numbers.
* `UnitOK` of `Frame`: sizes are natural numbers, and what a call stores on the
  stack is within its section.

### Scheduling

`DDGProofs`, for every block, every set of registers and every alias relation:

* `DDGTypeCorrect`: `[]TypeOKDDG`;
* `Soundness`: `[]EdgesSound`, every edge joins an earlier to a later OR that
  conflict;
* `Ordering`: `[]ConflictsOrdered`, conflicting ORs are joined by a path.  The
  invariant says where the table of a location stands: the recorded writer is
  the last one and everything before it is ordered before it by a path, and
  the readers since are recorded or ordered before a recorded one;
* `FlowIsDirect`: `[]FlowEdgesDirect`.  The lemma `NothingRedundant` shows that
  `removeRedundantDep` deletes no edge of a graph `build` makes.

`LISProofs`, for every block, graph, latency and number of slots:

* `TypeCorrect`: `[]TypeOKLIS`;
* `DependencesAreKept`, `ReadyListIsRoots` and, when `schedule` is the mode,
  `ScheduleIsComplete`.  They need one invariant (`Inv`): while the loop runs, an
  OR is in `stepddg` or scheduled, a NOP or the branch kept out; the scheduled ORs
  are closed under predecessors; the ready list holds the roots that were visited
  and only those, and the candidates and the bundle are parts of it.  For the
  branch issued last it says that its slot has not been passed yet (`LastInv`),
  which is why `tryIssueCandList` finds it in one call.

`LISTimeProofs` adds the cycles:

* `ResultsAreAvailable`: `[]ResultsAvailable`.  `canBeIssued` asks the ORs in
  flight only.  `Executing` says why that is enough: an OR of the execution table
  that is not in `slot_lst` has delivered its last result.  `Candidates` says that
  what was asked of a candidate is still true when the bundle is issued, whatever
  was rolled back in between.
* `BranchIsLast`, from `BranchInv`: `schedule` ends with nothing executing, and
  only then the branch is issued.
* `NothingIsLost`: `[]NothingLost` in both modes; for `serialize` from `SerialInv`,
  by which the ORs issued are a prefix of the block.
* `RefinesIssueOrder`: `SpecLIS => ImplementsIssueOrder`.  The initial states map
  to initial ones; the step that issues a bundle, empty or not, and runs the cycle
  maps to `Issue`, a rescheduling to `Restart`, and all others stutter.  That the
  bundle is one `IssueOrder` permits uses `Candidates` and `OneCycle`.

`PerformISProofs` composes the three, for every block:

* `PackageIsFaithful`: `[]PackageKeepsConflicts`.  The graph orders conflicts by
  paths while the scheduler keeps edges one by one and may drop a NOP in the
  middle of a path; the issued ORs together with the NOPs are closed under
  predecessors, because no edge enters a NOP, so paths survive.
* `PackageComputesBlock`: `[]SameComputation`, what that order is worth:
  every OR of the package, while it is made, reads each location from the OR it
  reads it from in the block, and when it is complete the last writer of each
  location is the same.  A writer that comes first in the block cannot be missing:
  it was issued, in an earlier cycle, and there are as many cells of earlier
  cycles as ORs packaged (`CellsPackaged`).  None is lost between the schedule and
  the package, because the cells package looks at are those of all cycles run.
* `GraphHandedOver`: all that is proved of the graph stays true while the scheduler
  works; `ScheduledInTime`: the cycles are right on the graphs that are built.

### Calls and the frame

`ArgPassProofs`, for every set of signatures and every even number of argument
registers.  The three ways an argument can go are first shown to have one shape
(`Shaped`), so that each invariant is proved once:

* `ArgAreaIsReserved`: `[]ArgAreaReserved`, padding included, without a hypothesis;
* `StackHoldsArguments`: `[](WholeStructs => StackHoldsArgBytes)`.  When a
  structure is not a whole number of words and takes all the registers that are
  left, what is left of it wraps below zero;
* `ArgumentsArrive`: if no argument is padded on the stack (`[]NoPadding`) and the
  caller skips no register for a structure (`[]NoSkippedStruct`), then
  `[](WholeWords => EveryByteArrives)`.  Caller and callee decide separately; the
  invariant (`AgreeInv`) is that both walk the same `Trail`, the function that
  says with which byte of which parameter the word of each register starts;
* `UnpaddedArgumentsArrive`: `NoPadding` follows when no argument has two words,
  and when each has an even number.

Padding and skipped structures are the hypotheses because the code disagrees with
itself there (section 4, calls and frame).  The sums of the sizes of the arguments are unbounded
integers in the model; the width of one size is kept.

`FrameProofs`, for every function (variables, calls, parameters, any order of
references): `FrameVariablesDisjoint`, `FrameHoldsVariables`,
`FrameKeepsAlignment`, `FrameRestoresSP` and `FrameVariablesReachable`.  The
section of variables only grows and by whole words (`Packed`), the argument area
covers every call converted and none is left when a frame size is taken
(`Covered`), the sizes taken stay true as nothing is allocated later (`Laid`), and
the body only lowers SP, by alloca, and then FP is the base (`Running`).

### Register allocation

`AssignRegProofs`, for every set of registers, every block and every order of the
list and of the neighbours:

* `LifeTimeTypes` and `AssignTypes`: `[]TypeOKLT`, `[]TypeOKAR`;
* `ColouringProper`: `[]NoSharedRegister`.  The invariant (`Inv`) says that
  nothing is coloured before the graph is built (`Phases`), that the graph then
  has an edge for every two life times that meet and are not both allocated
  before, and none from a life time to itself (`GraphComplete`), and that the
  usable registers of the current life time hold none of its neighbours'
  (`CurrentOK`);
* `AlwaysRegisterLeft`: `[]RegisterLeft`, by the cardinalities of finite sets: a
  smaller set cannot cover a larger one;
* `AllAccounted`: `[]NoneForgotten`, with the current life time counted in;
* `PairsGetAdjacentRegisters`: `[](OnePartner => PairsAdjacent)`.  `SiblingInv`
  follows the scan of `create`: the ORs read so far are in the descriptions of
  their SRs, and the partners read so far are the siblings.  `PairInv` says that
  everything a low half has, prefers or may use is even, for the high half odd,
  and that the half that is not coloured prefers the register beside the other's,
  or nothing while neither is.  `OnePartner` is what the lowering of ARM gives: a
  pair is the vector of a two-word value.  An SR with two partners would have two
  siblings, of which the second gets the register after the next.

`KeepValuesProofs`, for every block of any length, every set of registers and every
choice of the predicated ORs that are not executed:

* `LifeTimesLongEnough` and `LifeTimesKeep`: `[]ColouringsKeepValues` of `LifeTime`,
  `[]LifeTimesKeepValues` of `AssignReg`.  The scan of `create` leaves a trace: what
  is live behind each OR scanned is a function of what is live behind the next one
  (`LiveTrace`), and every such SR has the position of that OR (`Recorded`,
  `ScanInv`).  When `create` is done a live SR may have lost positions again,
  because `reviseLTCase1` cuts a life time that seems live at the entry down to
  what follows its first occurrence; but then no OR has written it so far
  (`Unwritten`, `CreatedInv`), and its place holds no value that could be lost.
* `PlacesKeepValues`: wherever SRs are put, if no result goes where a live SR is
  (`Clear`), each value arrives.  This is an induction over the ORs.  As the
  library's induction theorems cannot be instantiated, it takes the first OR
  behind which something is wrong (`LeastNumber`, from the well-foundedness of
  the natural numbers); the recursive function of `Stores` is shown to exist in
  the same way (`StoresExist`).
* `EachAssignmentKeepsValues`: from the moment the life times exist, after every
  register that is given, the block computes what it did, with some SRs in
  registers and the others not yet.  `AllocationKeepsValues`, `[]ValuesKept`, is the
  end of it.  They need that only allocable registers are given away
  (`GivenInv`): the return registers, which may have no life time but live at the
  end of an exit block, are not allocable.

### Only checked by TLC

* Everything that needs fairness: `Terminates`, `SolveConflictEnds`, `CodeEnds`,
  `IREnds`.  Liveness and ENABLED are out of the prover's reach.
* `ValuesSurvive` (`RegAlloc`): not true of every function (sections 3 and 4), so
  there is no theorem without hypotheses on the function that exclude what
  `split` does wrong.
* `CalleeSavedKept` (`RegAlloc`): what a path executes is a fold over the blocks
  that every split rewrites.  It would need an invariant of every place where
  `split` puts a store or a reload, such as that none comes before the frame is
  made.
* The properties of `Lower` and of `FrontEnd`: the conversions are recursive, and
  `ArmOr` uses `Bitwise`, which no module with a theorem may reach.
* Without the hypotheses named above, `PairsAdjacent`, `StackHoldsArgBytes` and
  `EveryByteArrives` are statements about the instances of the runs.

## 6. Not modelled

* Scheduling: `buildMemDep` with alias analysis and `computeEstartAndLstart` on
  the graph of the scheduler (never run), the NOPs of delay slots, inline
  assembly.
* LRA: the optimising phases, which `RaMgr::performLRA` does not switch on; the
  choice of a register file (one serves); clusters.  GRA: its colouring,
  priorities and splitting have no bodies, and it is off by default.
* Lowering: indirect calls, intrinsics other than alloca, inline assembly, debug
  information, structures of 3 and of 5 to 7 bytes.
* C to IR: declarations and initial values, pragmas, goto and labels, floating
  point, strings, enumerations, signed and two-word integers.
  `arm_refine.cpp` folds constants of tensors, which the C compiler does not
  make.
* Calls and frame: global variables in the data sections, variable argument
  lists (`passArgVariant`).
* OR_CFG: its edges and its removal of blocks are functions of the absent
  library; the pools and free lists of ORs and SRs; the parallel part manager and
  instruction partition, which need more than one cluster; register file groups
  (statistics only), packages, options, the printer, dumps and the driver.
