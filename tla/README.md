# CoFuzz in TLA+

CoFuzz is a hybrid fuzzer. It runs beside AFL: it traces the seeds AFL queues, picks
conditions of the program that are only half covered, runs a concolic executor on a
seed that reaches one of them, solves and samples the path constraints that come back,
and saves the test cases that cover something new. This directory holds TLA+ modules of
that program, configurations that model-check them with TLC, and TLAPS proofs. Paths
below are relative to the repository; `executor.py` and the other Python files are in
`src/fuzz/`.

## 1. The system

| Component | State it keeps | Operations | What makes it correct |
|---|---|---|---|
| Coverage map, `afl.py` `AFLMap` | `bitmap` (bits hit so far) | load the file, refresh from it, merge a test case | never claims coverage nobody reached, although AFL rewrites the file while it is read |
| Seed sync, `executor.py` `__sync_seed`, `cofuzz.py` | `queue/`, `hangs/`, `crashes/`, three counters | save a test case by its return code; wipe the output on start | no redundant seed, no overwritten file |
| Depot, `depot.py` | execution tree, basic-block hits, traced/solved/cracked sets, counters, regression model | pick candidates, choose seeds, learn | every pair once, the limit per address, only missed conditions |
| Main loop, `executor.py` | a round's seeds, candidates, constraints, labels | trace, select, crack, solve, sync, learn, for ever | nothing handed out is lost, nothing stalls, no exception of its own making |
| Instrumentation pass, `trace/trace-pass.so.cc` | `basicBlockMap`: a random id per basic block | describe a condition, insert a call before each branch and switch | one id per block, everything instrumented once, a text condition.py reads right |
| Tracing runtime, `trace/trace-rt.o.c` | none of its own; the program's stack and stderr | print each conditional jump on stderr | the line names where the program goes |
| Tracer and tree, `trace.py`, `condition.py` | one `CondStmt` per address | run a seed, fold its lines into the tree | the tree is what the lines say |
| Concolic driver, `conolic.py` | crack map, input copy, output directory, child's environment | solve, crack | no file left by one run has an effect on the next |
| Constraint synchronizer, `sync.py`, `sampler.py` | sample directory, parser's flags | parse the log, solve, sample, save | whole constraints of the right address; the solver's solution survives later failures |
| Compiler wrapper, `trace/clang-trace.c` | the command line being built | find the runtime, copy and edit arguments | the runtime fits the mode, sanitizers are not mixed |
| Allocator of the compiler wrapper, `trace/include/alloc-inl.h` | a head and a tail around every buffer | allocate, resize, copy, free, with checks | a broken buffer is reported and no other; bytes survive every resize |

How they interact. The main loop calls everything else, in one thread. Four other
parties act beside it: **AFL** adds seeds to its queue and rewrites `fuzz_bitmap` and
`bb_bitmap` in place, without a lock; **child processes** (the tracing binary, symcc,
afl-showmap) get files, arguments and an environment and answer through files, stderr
and a return code; the **program under test** writes to the same stderr; the **user** may
press Ctrl-C. The tracer and the main loop write the depot's fields directly. What is
hard to test is in the gaps: a file read while it is written, a bitmap that is stale by
the time a test case is compared with it, a line lost among the program's output, a
child killed halfway through a constraint, an exception in the middle of a sequence of
saves, a start after a crash, and rules that only show over many rounds (each pair once,
a limit per address). `PROJECT.json` lists these hazards with their lines and the
properties that look at them.

## 2. Modules

    FuzzConfig ── AFLMap ── SeedSync ──┐                 SeedArchive (abstract; SeedSync implements it)
        │                              ├─ HybridExecutor
        ├───────── StateDepot ─────────┘      (implements StateDepot's own spec: DepotProtocol)
        │              ▲ implemented by
        ├─ TraceRuntime ── CorpusTracer
        ├─ EdgeFeature ── TracePass
        └─ ConcolicExecutor ──┐
                 CrackTarget ─┴─ CrackSeed
    ClangTrace          CheckedHeap (implements Buffers, abstract)

* **AFLMap** — a byte of the map is the set of its 1 bits, so `^ 255` is complement and
  `|` is union. `fuzz_bitmap.data` is what AFL is writing and `size` how much of it has
  reached the file; a reader gets the prefix. `virgin` is AFL's memory. `MergeTestcase`
  and `CovIncrease` are the two results of `is_interesting`.
* **SeedSync** — `__sync_seed` as one action per outcome of afl-showmap, `update_bitmap`
  between them, and the life of a session: `Startup` (wipe, load, reset), `StartupFails`
  (wiped, then the assertion of `afl.py:69`), `Stop`. `afl_seen` is history: for each byte
  of the map, what it held when this session last read it. **SeedArchive** is what it promises:
  a set of known points, and seeds that enter only with an unknown point.
* **StateDepot** — one action per method. `children`, `belongs` are the fields of the
  `CondStmt` nodes; `blk_len` is how many entries of `bb_bitmap` were read. `ResolveOk`,
  `PredictOk` and `UpdateOk` are the conditions under which a method does not raise: the file
  is there, the width of a condition has a logarithm (`NoWidth`, a constant, are the
  addresses whose width was read as 0), indices and keys exist, the model is fitted. The
  model's ranking is arbitrary: any `CANDIDATE_NUM` of the eligible addresses can be first.
* **HybridExecutor** — extends the two and adds the program counter of `run` and its
  callees. Besides AFL's rewriting of `fuzz_bitmap` there is its `bb_bitmap`, absent until
  AFL first writes it (`bb_written`) and of any length when it is read. `ran` and `round` are
  history: the pairs run in the session and in this round. A call to another program is two steps, start and end, with AFL free to move
  in between. Exceptions nothing catches lead to `"dead"`, Ctrl-C to `"done"` except in
  `crack_target`.
* **TraceRuntime** — the instrumented program as a walk over a control-flow graph given by
  the constants. A case number of 0 is "no case"; `DestLoc` is `__log_switch`, with
  its confusion of id 0. `partial` is an unfinished line of the program, which swallows
  the next one. `stack` is the room the switches have taken.
* **TracePass** — `runOnModule` over the blocks in order. `getBrCond` calls itself for the
  operands of a condition; `frames` is its call stack, one step per call (`Recurse`) and
  return (`Return`), so that a recursion that does not end is a behaviour and not a
  definition TLC cannot evaluate. `WithBlocks` is `operator[]` of the id map, which gives a
  block the other passes made later the id 0 in passing. `TextOf` says what a
  condition's text is without a stack. **EdgeFeature** is the reader of that text,
  `BrCond.__parse_edge_type` and `__parse_cond_width`.
* **CorpusTracer** — the tracer waits for the program, then folds one line per step.
* **ConcolicExecutor** — the files, the environment and the child; **CrackTarget** — one call
  of `crack_target`, each place where it can raise; **CrackSeed** — the pipeline of one
  candidate after the other: crack, parse line by line, sample, sync, solve.
* **ClangTrace** — `main`: its usage exit, `find_obj`, the passes of `edit_params` in their
  order, and `execvp`.
* **CheckedHeap** — the `DFL_` functions, one operator each, with what they return as a
  parameter; the actions are calls of a client that may write a byte too many and free a
  pointer it has given back. `DEBUG_BUILD` is a variable that never changes: both
  builds are behaviours. **Buffers** is what the allocator promises: buffers whose bytes
  change only when they are written, resized or released.

Operators named `Bug…` are plausible mistakes in the definition that follows them; each
property is known to fail when one of them takes the definition's place. They are not
part of any specification. `PROJECT.json` maps each definition to the lines it models.

### Abstractions

* Seeds, blocks and arguments are names. The dictionaries of Python are unordered here:
  the order of candidates, of `belongs`, of unsolved seeds (`testcase_core`) is arbitrary,
  so what holds, holds for each order the program can use.
* The regression model is reduced to an arbitrary ranking, hit counts to how many were read.
  Of the features of a condition the main loop only knows whether they can be computed:
  not at an address of `NoWidth`. `FeaturesReal` is the property that says of what is read from
  a text when its width is 0.
* The text of a condition is a sequence of words: predicates, widths, calls, PHIs, block
  ids and constants. What joins them is layout. The name of a function is known by the
  keywords and the width that occur in it. Blocks unknown to the pass (the inliner makes
  some after `doInitialization`) are an arbitrary set.
* A value of the IR is its opcode, what is printed of it, and its operands. Building
  instructions is reduced to the inserted call with the ids it passes.
* `malloc` returns any unused address and any old bytes, or fails. A freed head holds the
  allocator's mark or what the C library put over it, never a head that looks used.
  What is written is not the tail's byte, since such an overrun changes nothing. A client may
  resize buffers, although nothing in the repository calls `ck_realloc` so far.
* `cov_count` of a seed is merged into `label_cov` while the seed is cracked instead of
  after; nothing reads `label_cov` in between.
* A concolic run ends with any number of test cases up to a bound, and a test case covers
  any set of points; nothing is assumed of symcc but that it logs constraints at
  addresses of the crack map.
* Constraints are conjunctions of clauses on single bytes, each a set of allowed values.
  Real ones relate bytes; the code treats both alike.
* A walk of the sampler yields any integer points of the polytope it was given, or fails.
  Truncation to integers (`astype(int)`) keeps a point of `[0, 255]` in it.
* The user presses Ctrl-C at most once. Text of the program is no trace line and no
  `CRACK` line, but may look like an expression or not decode at all.
* ClangTrace leaves out the name of the compiler and the flags that are always the same.
* `exec_showmap` is one step of the seed sync: nothing that it reads changes under it.

## 3. Runs

| Run | Module / cfg | What it shows |
|---|---|---|
| `sync` | MCSeedSync | `Sound`, `Novel`, `Numbered`, `NewsToAfl` (no saved seed is within what CoFuzz has read of AFL's map), and `KeepsPromise`: SeedSync implements SeedArchive |
| `depot` | MCStateDepot | `LedgerBalanced`, `PairsReachable`, `LimitRespected` for the methods in any order |
| `exec` | MCHybridExecutor | `PairsAccounted` (each pair exactly once), `LabelsOfRound` (the model learns from this round's work only), `DiesOnlyOfInput` (the depot raises only over what it is given), and `DepotProtocol`: the loop uses the depot as its specification allows |
| `progress` | MCProgress | `EverySeedSolved`, `EveryPairRun`, under fairness |
| `tracer` | MCCorpusTracer | `BranchCoverSound`, `TreeMatchesTraces`, and `RecordsTraces`: tracing implements the depot's two operations |
| `crack_seed` | MCCrackSeed | `ConstraintAtTarget`, `ConstraintsMatchLog`, `MutantsOfSeed`, `SolutionKept`, `SolutionsOfSeed` |
| `clang_trace` | MCClangTrace | `LinksRightRuntime`, `SanitizersCoherent` |
| `trace_pass` | MCTracePass | `IdsAgree`, `AllInstrumented`, `TextRight`, `FeaturesReal`, and `PassEnds` |
| `heap` | MCCheckedHeap | `HeadTellsUse`, `OverrunsCaught`, `AlarmsJustified`, `BigEnough`, and `KeepsBytes`: CheckedHeap implements Buffers |
| `interrupt` | MCInterrupt | **violated**: Ctrl-C during `crack_target` is swallowed |
| `switch_cover` | MCSwitchCover | **violated**: a switch counts as covered with a destination never taken |
| `samples` | MCSamples | **violated**: samples ignore the path constraint |

Each passing run also checks the type invariant of its module; those of SeedSync and
StateDepot are part of `ExecTypeOK`, which `exec` checks.

Beside the runs there are configurations for smaller questions. The first holds; the
others are violated, and their traces are worth reading:

| Module / cfg | Question |
|---|---|
| MCCorpusTracer / MCTracerProgress | `EverySeedTraced` holds: if the program ends on every seed (`EndsFair`), the tracer gets through all of them |
| MCTornRefresh / MCTornRefresh | `RefreshTakesAll`: if AFL has written a bitmap whole and truncated it again for the next one, a refresh (`afl.py:75-81`) reads a prefix, and CoFuzz may save a seed whose coverage AFL has on record; this is what `NewsToAfl` excepts |
| MCHybridExecutor / MCNoCandidate | `NoCandidateLeft`: a round goes random, as "No candidate" (`executor.py:144`), with a missed edge and a fresh seed for it, because `depot.py:98` spends the round's budget on addresses without a seed left |
| MCCorpusTracer / MCSwitchStack | `StackFixed`: a switch in a loop takes more of the stack each time round (`trace-pass.so.cc:195`, an `alloca` outside the entry block) |
| MCTracePass / MCPhiCycle | `NoReentry`: in `while (strcmp(s, t) != n) ..` the PHIs of `n` are operands of each other and `getBrCond` (`trace-pass.so.cc:115`) never returns |
| MCTracePass / MCNamedPhi | `FeaturesReal`: a called function with `phi` or `_i0` in its name gives the condition the type of a PHI, or a width `log2` cannot take (`condition.py:33`, `40`) |
| MCCheckedHeap / MCMemdupStr | `NoFalseAlarm`: a buffer of `ck_memdup_str` has its terminator where its tail was (`alloc-inl.h:333`) and aborts whoever frees it; nothing here calls it |
| MCCheckedHeap / MCBlockOverflow | `BigEnough`: `ck_realloc_block` adds its increment to a u32 before the size is checked (`alloc-inl.h:252`) |
| MCClangTrace / MCBothFound | `BothFound`: `find_obj` looks for `trace-rt.o` only (`clang-trace.c:57`), its message speaks of `trace-pass.so` too (91) |
| MCClangTrace / MCJoinedX | `LinksRightRuntime`: with `-xc` in one argument no `-x none` is added (`clang-trace.c:146`) and the runtime is compiled as C |

### Bounds, and why they are enough

* `sync`: a map of 3 bytes with 1 bit each, 2 hangs and crashes. A torn read needs a byte
  before the cut and one behind it, and a third for a seed of CoFuzz's own; the code
  treats the bits of a byte together except for the union, so one bit of each is
  followed. All interleavings of AFL's writes with reads, saves and restarts are in.
* `depot`: 2 two-way branches, 3 seeds, so that the number of seeds is above
  `CRACK_SEED_MAX`, the counter overshoots the limit, and addresses compete for a round.
* `exec`: 2 addresses, 2 seeds, 2 addresses per round with 1 seed for each and 2 per
  address in all, one constraint and test case per stage: enough for a round on one address
  while the other waits, a seed with two addresses, a seed that is both candidate and
  unsolved, and rounds after the init phase, when the model is asked. `bb_bitmap` may be
  missing, short or whole, and one condition has a width of 0, the other not. The map has
  no bits and hangs and crashes are bounded by 0: no property of this run is about coverage,
  which `sync` covers in full, and `SyncRefinement` (section 4) says that the loop adds nothing to it.
* `progress`: 1 address, 2 seeds, no condition of width 0, a map of 1 byte and 1 seed per address, as liveness is dearer.
* `tracer`: a loop with a switch and a branch that may go back to its own block, ids 0 and 1
  (so ids collide and 0 is drawn), 2 seeds, 3 lines per run; `MCTracerProgress` has 2 lines, `MCSwitchStack` 4, for the switch
  to be come to twice.
* `crack_seed`: 2 addresses, bytes of one bit, a seed of two bytes and a shorter one that a
  constraint does not fit, a log of 7 lines: two constraints, or one with noise and a cut.
* `clang_trace`: two arguments out of seven, in every order, every environment, and every
  subset of six files over three directories.
* `trace_pass`: four blocks, each known to the pass or not, with ids 0 and 1; a PHI of an
  `||` with a string comparison, an integer compare and a constant; a xor of a call and a
  floating-point compare; a switch on a value and one on a call. That is one of every
  case of `getBrCond`, and the recursion three deep.
* `heap`: two addresses, sizes 0, 1, 2 and one above `MAX_ALLOC` = 3, an increment of 1, one
  byte to write, texts of one and two bytes. `WORD` = 8 stands for 2^32: no sum of the
  run reaches it (`MCBlockOverflow` asks for 7, which does). Two addresses are enough for a
  buffer to be resized in place, moved onto the other's old place and back, and for a
  stale pointer to a buffer handed out again.

`CHECK_DEADLOCK FALSE` is given where the system may stop: the session ends (HybridExecutor),
seeds or candidates run out (CorpusTracer, CrackSeed, StateDepot's bound), the compiler is
executed (ClangTrace), the pass is done (TracePass), the program is aborted (CheckedHeap).

### Fairness

Of the main loop, `progress` and `interrupt` assume `WF(Cofuzz)`, one weak fairness condition on the
whole main loop. Every external program CoFuzz waits for ends — symcc runs under `timeout`,
afl-showmap under `-t`, the solver has a time limit — and the loop never waits on anything
else, except for 60 s. The one exception is the tracing binary, which has no timeout
(`trace.py:45`): the progress results are about programs that terminate on AFL's seeds, as
AFL's own timeout makes likely. AFL and the user owe nothing: no fairness for them. `EndsFair` makes that
assumption explicit for `MCTracerProgress`: the program ends on each seed, and CoFuzz
reads on (`WF` of `Run /\ Exit` and of `Reading`); without the first `EverySeedTraced` fails.

`PassSpec` has `WF(PassNext)`: the pass is sequential code, and `PassEnds` asks whether its
recursion ends.

## 4. Proofs

All theorems hold for every value of the constants under the named assumptions
(`MapSizeAssumption`, `DepotAssumption`, …), which TLC evaluates in the runs.

**SeedSyncProofs.** `Sound`, `Novel` and `Numbered` are not inductive one by one. `SyncInv` adds
`FileNotAhead` — what a rewrite puts in the file was not hit *less* than AFL's memory says
now, so that a prefix of an old file is still true — and `Absorbed` — the coverage of each
saved seed is in the map, which is why a later seed with something unknown has a point no
earlier one has. The step lemma has one case per action; `SaveInteresting` is the one
with work in it: `CovIncrease # 0` gives a new point (`IncreaseIsNew`), `CovIncrease = 0`
means the merge changes nothing (`NoIncreaseNothingNew`). `Refinement` maps the map and the
queue to the points of SeedArchive and shows each step to be one of its steps or a stutter.
`SeedsAreNews` (`NewsToAfl`) has `SeenAbsorbed` for its invariant: the map holds whatever
CoFuzz has read of each byte in this session. A refresh ORs what it reads (`SeenStep`), a save
only adds (`SaveKeepsSeen`), so what is unknown to the map was in nothing read.

**StateDepotProofs.** `DepotInv` is types, `LedgerBalanced` and `PairsReachable`. The counter
agrees with the set because `SeedSelection` only returns fresh seeds (`SeedSelectionBound`,
also its size), so `HandOut` adds to the set exactly as many pairs as it counts.
`LimitCorrect` is the action property, from the same bound.

**HybridExecutorProofs.** Every step of the loop is a step of the depot and a step of the seed
sync, or leaves them alone (`DepotStep`, `SyncStep`), which gives two refinements,
`DepotRefinement` and `SyncRefinement`; `LoopSyncs` (with `NewsToAfl`), `LoopKeepsPromise` and `LoopUsesDepot` carry
the results on the seed sync and the depot over to the loop without a new proof. The loop's own invariant, `ExecInv`, is built
in layers, each step lemma using the layers before:

* `SeedsGiven` — a seed being traced is marked as traced, a concolic run has a seed. Without it
  a label could be added for a seed the depot never saw.
* `NoneIdle` — no candidate is left outside a crack round, so `Select` overwrites nothing.
* `Accounted` — `PairsAccounted` strengthened to hold from the first state on: cracked is ran +
  pending + in flight, disjoint.
* `OwnWork` — what a round deals with was handed to the concolic executor in it: constraints,
  the address in work and the labels are all of pairs in `round`. `LabelsOwn` follows.
* `OnTarget` — what a round deals with stays missed until it ends. It has to speak of every place
  an address is held: candidates, `crack_addr`, constraints, labels. It rules out a `KeyError`
  on `cov_state`, and says that a width of 0 that kills the loop is that of a missed condition.
* `FittedInTime` — the regression model is fitted before it is first asked.

`OnlyInputKills` (`DiesOnlyOfInput`) takes the last two: what remains of `PredictOk` and
`UpdateOk` is the length of `bb_bitmap` and the widths (`DeadStep`).

**CorpusTracerProofs.** `TracerTypeCorrect` comes from `TypeInv`, the types and `Paced`: there
are lines only while a seed is being traced. For the types of ids it has to be shown that every
destination `__log_switch` chooses is an id (`LoggedLine`). `TreeInv` adds `Summary` — the
records are those of the traces read whole and the lines folded so far of the one being read,
and every statement of the tree says what they say — and `Unread`, nothing is folded before the
program ends. `FoldSays` is its heart: folding a line adds that line to what a statement says.
`TreeMatches` follows. `RealInv` adds that every line records a conditional jump the program
made (`LinesReal`, `StmtsReal`); with it `BranchCover` is an argument on two destinations: each
is the id of a successor taken, and two ids are two successors. `TracerRefinesDepot` is the
refinement, step by step, with `DepotInv` (the seed being traced is marked).

**CrackSeedProofs.** One inductive invariant, `Inv`, for all six properties of the pipeline.
`Logging` follows the log while the child writes it, `Parsing` while it is read: a constraint
printed whole is in the dictionary, or stands whole in what is left of the log, or is the one
being parsed, its clauses so far in `express_list`. Those lemmas are about logs and not about
the program: what `Whole`, `Pending` and `CutAfter` say of a log stays true when a line is
added, swallowed or read. `Aimed` (the child logs only addresses of the map it was given),
`DictLogged` (nothing is found that was not printed), `Targeting` and `Sampled` (the files of
the constraint in work), `Solving` (the solutions are those of the input copy) are the rest.
`ContentAssumption` (seeds are byte strings) and the clause of `ConcolicAssumption` on the
shape of constraints were added for these proofs.

**ClangTraceProofs.** The invariant follows the passes of `edit_params`: `Scanning` (what is
left to scan was given by the user), `Moded` (`bit_mode` is that of the last mode flag copied),
`Languages` and `Linked` (a `-x` seen is reset by `-x none` just before the runtime), `Located`
(a path found leads to a readable runtime), `Sanitized`. The last flag of a kind is a `CHOOSE`
in the model; `LastIs` says it with quantifiers, so that it can be carried along as the command
line grows. `RightRuntime` assumes that `-xc`, in one word, is not among the arguments:
`MCJoinedX.cfg` shows that it has to.

**TracePassProofs.** `IdsCorrect`: two calls do not speak of each other, so the invariant is
`IdsCurrent`, every id in a call is the one the map has now; it survives a step because
`WithBlocks` only adds ids (`MapGrows`). `PassTypeCorrect` and `EveryBranch` follow from
`WalkInv` and `Visited` (the blocks with a call are those before the present one that need one,
in order). The two theorems on texts relate the stack of `getBrCond` to a definition without a
stack:

* `RealFeatures` — `Making`: every word so far comes from a part of the condition, and what
  tells the type has been written by the time it is needed; `Made`: the same of the calls
  inserted. It assumes `PlainNames`, that no function but a string function has a keyword in
  its name, and none a width. `MCNamedPhi.cfg` shows why.
* `TextsRight` — `Whole`: what is written so far, followed by what each frame of the stack has
  yet to add from the top down, is the text of the condition; `Logged`: the calls inserted have
  their whole texts. It assumes `Ranked(rank)` for some `rank`, that no condition is made of
  itself; `MCPhiCycle.cfg` shows what happens otherwise. `TextOf` is a recursive function, and
  that one exists and is the only one has to be proved. The library's induction theorem takes
  an operator as a parameter and cannot be used; the module has its own, on sets of naturals
  (`Induction`), and builds the functions from it (`Recursion`), for ranks and for the joining
  of sequences.

`MCTracePass` has TLC evaluate both hypotheses for the modules it checks (`NamesAssumption`,
`RankAssumption`).

**CheckedHeapProofs.** Every function of the allocator is first shown to have an `Outcome`: it
aborts the program, or it takes one whole buffer (or none) and gives one back (or none) with
enough room and one of the given cells behind it. One lemma per function, and `StepIsCall` then
says that a step of the program is such a call, a write or a stale free; the invariants are
proved from that and never look into a function again. `HeapInv` is `Layout` (the shape),
`Room` (a buffer in use has room for its bytes and its tail) and `HeadTellsUse`. An abort leaves
the buffers as they are but for a head that `DFL_ck_realloc` has marked as freed before it failed
(`Marked`), which is why `HeadTellsUse` asks for the mark of a used head only while the program runs;
`HeapTypeCorrect` and `HeadsCorrect` follow, for both builds. `SafeInv` adds `BigEnough`,
`OverrunsCaught`, `AlarmsJustified` and what they need of each other: `Tails` (a broken tail is
the mark of an overrun or of ck_memdup_str) and `Strays` (what the client holds that is not in
use it freed twice itself). `BytesKept` is the refinement of Buffers: from `SafeInv`, every
call obtains, resizes, writes or releases a buffer and leaves the bytes of every other alone;
`RegrownBytes` is the arithmetic of `DFL_ck_realloc`, whose old tail must not survive among the
new bytes. `SizesCorrect`, `OverrunsCorrect`, `AlarmsCorrect` and `BytesKept` assume `NoWrap`:
no size plus the block increment reaches `WORD`. `MCBlockOverflow.cfg` is why it has to be
assumed. For `BytesKept`, `HeapAssumption` also says that `NoBuffer` is no string of bytes.

**What the proofs changed in the model.** CorpusTracer recorded in `taken` that a block was
followed by another one only if it was another one, so that a branch to its own block counted
as not taken. The runtime's steps are now `LoggedJump` and `Unlogged`, the first recorded
whatever its destination, and `MCCorpusTracer` has such a branch. Some assumptions on the
constants had been left unsaid and are named now (`ContentAssumption`, `BoundAssumption`,
clauses of `PassAssumption`, `ConcolicAssumption` and `HeapAssumption`). `AllInstrumented` and
`TextOf` were restated in a form that can be reasoned about, without a recursive operator.

**Model-checked only.** Liveness: `EverySeedSolved` and `EveryPairRun` (run `progress`) and
that getBrCond ends (`PassEnds`), which are beyond the provers. Every other property of a
passing run is a theorem.

## 5. Findings

The three violated runs, with the lines that disagree, are in `PROJECT.json`; the violated
configurations beside the runs are listed in section 3. Remarks from reading that nothing
checks:

* `min_dist` counts every decodable line of stderr, the program's own included, while
  `condition.py:59` calls it "edge distance to root".
* `docs/run_target.md` sets `Trace_CC`/`Trace_CXX`; `clang-trace.c:109-112` reads
  `Cohyzz_CC`/`Cohyzz_CXX`.
* Without `AFL_RAND_SEED` every module draws the same sequence of block ids, so ids collide
  across compile units far more than chance would have it.
* `dump_constraint` does not clear `express_list` at a START inside a constraint; as long
  as symcc prints a constraint in one go (what ConcolicExecutor assumes) it cannot matter.
* The type and the width of a condition may come from two different compares of it
  (`condition.py:26-43`): the first predicate, and the first width.
* `resolve_fuzz_hits` opens `bb_bitmap` without asking whether it exists (`depot.py:36`), as
  `afl.py:66` and `76` do for `fuzz_bitmap`: CoFuzz started on a small queue before AFL's first
  write of it ends with `FileNotFoundError` (`ReadHitsFails`).
* A width read as 0 becomes `-inf` (`condition.py:42`, `50`) and raises `OverflowError` only when
  its features are asked for (`condition.py:92`): the loop ends in `update_model`, or in
  `__edge_predict` some rounds later.
* A block made after `doInitialization` has the id 0 and reads as "no case taken" in
  `__log_switch`.

## 6. Not modelled

Argument parsing, logging, `fuzzer_stats` parsing, floating-point sampling, LLVM
instruction building, build scripts, data. The ranking of conditions stays arbitrary:
`edge_feature` and `__parse_bitmap` feed a regression model whose result is not
predictable. Of AFL's vendored headers: messages, colours and AFL's own tuning constants
(`debug.h`, `types.h`, `config.h` beyond `ABORT`, `AFL_R` and `MAP_SIZE`), and the
tracking layer of `alloc-inl.h` (`TRK_`), which is compiled with `DEBUG_BUILD` only, and
nothing defines it. The `USE_TRACE_PC` build of clang-trace, which the Makefile does not
make. AFL and symcc are git submodules absent from the repository and appear as external
actions. The coverage file of the
concolic executor (`SYMCC_AFL_COVERAGE_MAP`, `bitmap` in `conolic.py`), which outlives a run and
makes symcc skip branches it has solved before: the child is external, and the model lets it
solve or skip anything. The contents of seeds are not modelled in the main loop, so a seed traced while
AFL still writes it is one of the behaviours but no property speaks of it.

## 7. Plan

Done: the modules above, in the order AFLMap, SeedSync, StateDepot, HybridExecutor,
TraceRuntime/CorpusTracer, ConcolicExecutor/CrackTarget/CrackSeed, ClangTrace,
EdgeFeature/TracePass, Buffers/CheckedHeap.

Next, modelling: the entries of `bb_bitmap` and `__parse_bitmap`, with a last entry torn in
the middle of its eight bytes. (The composition of CorpusTracer with HybridExecutor in place
of the arbitrary path would add nothing: `RecordsTraces` shows the tracer to be the
depot's two operations, and `DepotProtocol` that the loop uses them so.)

Next, proofs:
1. TracePass: a measure of the position, the stack and the operands left that goes down with every
   step of the pass, under `Ranked`, so that of `PassEnds` only the fairness is left to TLC
   (that no value is described while it is being described already is no more than `Ranked` itself);
2. TraceRuntime and ConcolicExecutor: what their theorems say is stated of the modules built on
   them (CorpusTracer, CrackSeed); lemmas of their own would make those proofs shorter;
3. lemmas on sequences that several modules prove for themselves, in one place.
