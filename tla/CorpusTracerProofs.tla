------------------------- MODULE CorpusTracerProofs -------------------------
(***************************************************************************)
(* The execution tree is what the traces say, for any program under test,  *)
(* any ids, seeds and interference on stderr.                              *)
(***************************************************************************)
EXTENDS CorpusTracer, FiniteSetTheorems, SequenceTheorems, TLAPS

\* A process runs for a seed only, and what it printed is read before the next one.
Paced == seed_path = NoSeed => block = Nowhere /\ trace_info = <<>>

\* Reading starts when the process has ended (trace.py:45-46).
Unread == block # Nowhere => line_cnt = 0

TypeInv == TracerTypeOK /\ Paced

-----------------------------------------------------------------------------
(***************************************************************************)
(* Types.                                                                  *)
(***************************************************************************)

\* The lines that decode are countable.
LEMMA ReadableFinite ==
  ASSUME NEW lines \in Seq(Line)
  PROVE  IsFiniteSet(Readable(lines)) /\ Cardinality(Readable(lines)) \in Nat
<1>1. IsFiniteSet(1 .. Len(lines))
  BY FS_Interval, LenProperties
<1>2. Readable(lines) \in SUBSET (1 .. Len(lines))
  BY DEF Readable
<1> QED
  BY <1>1, <1>2, FS_Subset, FS_CardinalityType

\* What the program prints of its own is never taken for a trace line.
LEMMA NoiseType ==
  ASSUME NEW kind \in {"text", "binary"}
  PROVE  Noise(kind) \in Line /\ ~IsTrace(Noise(kind))
BY MapSizeAssumption DEF Noise, Line, Idx, IsTrace

\* What the two calls of trace-rt.o.c print (trace-rt.o.c:15-40).
LEMMA LoggedLine ==
  ASSUME RuntimeTypeOK, LoggedJump
  PROVE  \E line \in Line :
             /\ Emit(line) /\ IsTrace(line)
             /\ line.src = block_id[block] /\ line.kind = Term[block].kind
             /\ line.kind = "br" => line.dest = block_id[block']
             /\ block \in Instrumented /\ block' \in Block
             /\ UNCHANGED block_id
             /\ line.kind = "br" => \E i \in {1, 2} : block' = Term[block].succ[i]
             /\ stack' \in Nat
<1>1. /\ block \in Block /\ block \in Instrumented
      /\ Term[block].succ \in Seq(Block) /\ Term[block].default \in Block
      /\ block_id \in [Block -> Idx] /\ stack \in Nat
  BY RuntimeAssumption DEF LoggedJump, LogBranch, LogSwitch, RuntimeTypeOK, Instrumented
<1>2. CASE LogBranch
  <2>1. PICK succ \in {1, 2} :
          /\ block' = Term[block].succ[succ]
          /\ Emit([kind |-> "br", case_num |-> 0,
                   src |-> block_id[block], dest |-> block_id[block']])
    BY <1>2 DEF LogBranch
  <2>2. Term[block].kind = "br" /\ Len(Term[block].succ) = 2
    BY <1>1, <1>2, RuntimeAssumption DEF LogBranch
  <2>3. block' \in Block
    BY <1>1, <2>1, <2>2
  <2> DEFINE line == [kind |-> "br", case_num |-> 0,
                      src |-> block_id[block], dest |-> block_id[block']]
  <2>4. line \in Line /\ IsTrace(line)
    BY <1>1, <2>3 DEF Line, IsTrace
  <2>5. UNCHANGED <<block_id, stack>>
    BY <1>2 DEF LogBranch
  <2> QED
    BY <1>1, <2>1, <2>2, <2>3, <2>4, <2>5
<1>3. CASE LogSwitch
  <2>1. PICK case \in 0 .. Len(Term[block].succ) :
          /\ block' = IF case = 0 THEN Term[block].default ELSE Term[block].succ[case]
          /\ Emit([kind |-> "switch", case_num |-> Len(Term[block].succ),
                   src |-> block_id[block], dest |-> DestLoc(case)])
    BY <1>3 DEF LogSwitch
  <2>2. /\ Term[block].kind = "switch" /\ UNCHANGED block_id
        /\ stack' = stack + Len(Term[block].succ) /\ Len(Term[block].succ) \in Nat
    BY <1>1, <1>3 DEF LogSwitch
  <2>3. case # 0 => Term[block].succ[case] \in Block
    BY <1>1
  <2>4. block' \in Block
    BY <1>1, <2>1, <2>3
  <2>5. DestLoc(case) \in Idx
    BY <1>1, <2>3 DEF DestLoc
  <2> DEFINE line == [kind |-> "switch", case_num |-> Len(Term[block].succ),
                      src |-> block_id[block], dest |-> DestLoc(case)]
  <2>6. line \in Line /\ IsTrace(line) /\ line.kind # "br"
    BY <1>1, <2>2, <2>5 DEF Line, IsTrace
  <2> QED
    BY <1>1, <2>1, <2>2, <2>4, <2>6
<1> QED
  BY <1>2, <1>3 DEF LoggedJump

\* A trace line stands for a jump the program made: line is of an instrumented block
\* and, if of a branch, names the successor taken.
RealLine(line) ==
    \E b \in Instrumented :
        /\ line.kind = Term[b].kind /\ line.src = block_id[b]
        /\ line.kind = "br" =>
               \E i \in {1, 2} : /\ line.dest = block_id[Term[b].succ[i]]
                                /\ <<b, Term[b].succ[i]>> \in taken

\* The program prints nothing, or a line that is a record if it is whole.
Printed(line) ==
    /\ trace_info' = Append(trace_info, line)
    /\ printed' = IF IsTrace(line)
                  THEN printed \cup {[seed |-> seed_path, line |-> line,
                                      no |-> Cardinality(Readable(trace_info'))]}
                  ELSE printed
    /\ IsTrace(line) => RealLine(line)'

\* fprintf appends the line itself or what the program left unfinished.
LEMMA EmitAppends ==
  ASSUME RuntimeTypeOK, NEW line \in Line, Emit(line)
  PROVE  /\ partial' = "none"
         /\ \E out \in Line : /\ trace_info' = Append(trace_info, out)
                              /\ out = line \/ ~IsTrace(out)
<1>1. partial # "none" => Noise(partial) \in Line /\ ~IsTrace(Noise(partial))
  BY NoiseType DEF RuntimeTypeOK
<1>2. CASE partial = "none"
  BY <1>2 DEF Emit
<1>3. CASE partial # "none"
  BY <1>1, <1>3 DEF Emit
<1> QED
  BY <1>2, <1>3

\* One step of the process: types, and what it prints.
LEMMA RunStep ==
  ASSUME TypeInv, Run
  PROVE  /\ block # Nowhere /\ UNCHANGED <<block_id, treeVars>> /\ RuntimeTypeOK'
         /\ taken \subseteq taken' /\ taken' \subseteq Block \X Block
         /\ \/ UNCHANGED <<trace_info, printed>>
            \/ \E line \in Line : Printed(line)
<1>1. RuntimeTypeOK /\ taken \subseteq Block \X Block
  BY DEF TypeInv, TracerTypeOK
<1>2. trace_info \in Seq(Line)
  BY <1>1 DEF RuntimeTypeOK
<1>3. /\ UNCHANGED treeVars
      /\ printed' = IF trace_info' # trace_info /\ IsTrace(trace_info'[Len(trace_info')])
                    THEN printed \cup {[seed |-> seed_path,
                                        line |-> trace_info'[Len(trace_info')],
                                        no |-> Cardinality(Readable(trace_info'))]}
                    ELSE printed
  BY DEF Run
<1>4. ASSUME NEW line \in Line, trace_info' = Append(trace_info, line),
             IsTrace(line) => RealLine(line)'
      PROVE  Printed(line)
  <2>1. trace_info'[Len(trace_info')] = line /\ trace_info' # trace_info
    BY <1>2, <1>4
  <2> QED
    BY <1>3, <1>4, <2>1 DEF Printed, RealLine
<1>5. CASE LoggedJump /\ taken' = taken \cup {<<block, block'>>}
  <2>1. PICK line \in Line :
             /\ Emit(line) /\ IsTrace(line)
             /\ line.src = block_id[block] /\ line.kind = Term[block].kind
             /\ line.kind = "br" => line.dest = block_id[block']
             /\ block \in Instrumented /\ block' \in Block
             /\ UNCHANGED block_id
             /\ line.kind = "br" => \E i \in {1, 2} : block' = Term[block].succ[i]
             /\ stack' \in Nat
    BY <1>1, <1>5, LoggedLine
  <2>2. partial' = "none"
    BY <1>1, <2>1, EmitAppends
  <2>3. PICK out \in Line :
             /\ trace_info' = Append(trace_info, out)
             /\ out = line \/ ~IsTrace(out)
    BY <1>1, <2>1, EmitAppends
  <2>4. IsTrace(out) => RealLine(out)'
    BY <1>5, <2>1, <2>3 DEF RealLine
  <2>5. Printed(out)
    BY <1>4, <2>3, <2>4 DEF Printed, RealLine
  <2>6a. trace_info' \in Seq(Line)
    BY <1>2, <2>3, AppendProperties
  <2>6. RuntimeTypeOK'
    BY <1>1, <2>1, <2>2, <2>6a DEF RuntimeTypeOK
  <2>7. block \in Block /\ block # Nowhere
    BY <2>1, RuntimeAssumption DEF Instrumented
  <2> QED
    BY <1>1, <1>3, <1>5, <2>1, <2>5, <2>6, <2>7
<1>6. CASE Unlogged /\ UNCHANGED taken
  <2>1. CASE Jump
    <3>1. block \in Block /\ Term[block].succ \in Seq(Block)
      BY <1>1, <2>1, RuntimeAssumption DEF Jump, RuntimeTypeOK
    <3>2. block' \in Block
      BY <2>1, <3>1 DEF Jump
    <3>3. UNCHANGED <<block_id, stack, partial, trace_info, printed>> /\ block # Nowhere
      BY <1>3, <2>1 DEF Jump
    <3> QED
      BY <1>1, <1>3, <1>6, <3>2, <3>3 DEF RuntimeTypeOK
  <2>2. CASE PrintPartial
    BY <1>1, <1>3, <1>6, <2>2 DEF PrintPartial, RuntimeTypeOK
  <2>3. CASE EndLine
    <3>1. /\ Emit(Noise(partial)) /\ partial \in {"text", "binary"}
          /\ UNCHANGED <<block_id, block, stack>> /\ block # Nowhere
      BY <1>1, <2>3 DEF EndLine, RuntimeTypeOK
    <3>2. Noise(partial) \in Line /\ ~IsTrace(Noise(partial))
      BY <3>1, NoiseType
    <3>3. PICK out \in Line : trace_info' = Append(trace_info, out) /\ ~IsTrace(out)
      BY <1>1, <3>1, <3>2, EmitAppends
    <3>4. partial' = "none"
      BY <1>1, <3>1, <3>2, EmitAppends
    <3>5. Printed(out)
      BY <1>4, <3>3
    <3>6. RuntimeTypeOK'
      BY <1>1, <1>2, <3>1, <3>3, <3>4 DEF RuntimeTypeOK
    <3> QED
      BY <1>1, <1>3, <1>6, <3>1, <3>5, <3>6
  <2>4. CASE Exit
    <3>1. /\ block # Nowhere /\ block' = Nowhere /\ stack' = 0 /\ partial' = "none"
          /\ UNCHANGED block_id
          /\ trace_info' = IF partial = "none" THEN trace_info
                           ELSE Append(trace_info, Noise(partial))
      BY <2>4 DEF Exit
    <3>2. CASE partial = "none"
      BY <1>1, <1>3, <1>6, <3>1, <3>2 DEF RuntimeTypeOK
    <3>3. CASE partial # "none"
      <4>1. Noise(partial) \in Line /\ ~IsTrace(Noise(partial))
        BY <1>1, <3>3, NoiseType DEF RuntimeTypeOK
      <4>2. Printed(Noise(partial))
        BY <1>4, <3>1, <3>3, <4>1
      <4>3. RuntimeTypeOK'
        BY <1>1, <1>2, <3>1, <3>3, <4>1 DEF RuntimeTypeOK
      <4> QED
        BY <1>1, <1>3, <1>6, <3>1, <4>1, <4>2, <4>3
    <3> QED
      BY <3>2, <3>3
  <2> QED
    BY <1>6, <2>1, <2>2, <2>3, <2>4 DEF Unlogged
<1> QED
  BY <1>5, <1>6 DEF Run

\* What a trace line does to the statement of its source (condition.py:70-87).
Folded(stmt, line, n) ==
    [min_dist |-> IF stmt = NoStmt \/ n < stmt.min_dist THEN n ELSE stmt.min_dist,
     succ_max |-> IF stmt = NoStmt THEN ParseCondition(line) ELSE stmt.succ_max,
     children |-> stmt.children \cup {line.dest},
     belongs |-> stmt.belongs \cup {seed_path}]

\* The three updates of add_children and its callers, as one record.
LEMMA FoldFields ==
  ASSUME NEW stmt \in CondStmt, NEW dest \in Idx, NEW seed \in Seed, NEW n \in Nat,
         NEW new, new = [stmt EXCEPT !.children = @ \cup {dest},
                                     !.belongs = @ \cup {seed},
                                     !.min_dist = IF n < @ THEN n ELSE @]
  PROVE  /\ new \in CondStmt
         /\ new = [min_dist |-> IF n < stmt.min_dist THEN n ELSE stmt.min_dist,
                   succ_max |-> stmt.succ_max,
                   children |-> stmt.children \cup {dest},
                   belongs |-> stmt.belongs \cup {seed}]
<1> DEFINE c == stmt.children \cup {dest}
           b == stmt.belongs \cup {seed}
           m == IF n < stmt.min_dist THEN n ELSE stmt.min_dist
<1>1. stmt.children \subseteq Idx /\ stmt.belongs \subseteq Seed /\ stmt.min_dist \in Nat
  BY DEF CondStmt
<1>2. c \in SUBSET Idx /\ b \in SUBSET Seed /\ m \in Nat
  BY <1>1
<1>3. stmt = [min_dist |-> stmt.min_dist, succ_max |-> stmt.succ_max,
              children |-> stmt.children, belongs |-> stmt.belongs] /\ stmt.succ_max \in Nat
  BY DEF CondStmt
<1>0. new = [stmt EXCEPT !.children = c, !.belongs = b, !.min_dist = m]
  OBVIOUS
<1> HIDE DEF c, b, m
<1>4. new
        = [min_dist |-> m, succ_max |-> stmt.succ_max, children |-> c, belongs |-> b]
  BY <1>0, <1>3 DEF CondStmt
<1>5. [min_dist |-> m, succ_max |-> stmt.succ_max, children |-> c, belongs |-> b] \in CondStmt
  BY <1>2, <1>3 DEF CondStmt
<1> QED
  BY <1>4, <1>5 DEF c, b, m

\* A trace line changes the statement of its source and no other.
LEMMA RecordFolds ==
  ASSUME cov_state \in [Idx -> CondStmt], seed_path \in Seed,
         NEW line \in Line, NEW n \in Nat
  PROVE  /\ Record(line, n) = [cov_state EXCEPT ![line.src] = Folded(cov_state[line.src], line, n)]
         /\ Record(line, n) \in [Idx -> CondStmt]
<1>1. line.src \in Idx /\ line.dest \in Idx /\ line.case_num \in Nat
  BY DEF Line
<1>2. ParseCondition(line) \in Nat /\ cov_state[line.src] \in CondStmt
  BY <1>1 DEF ParseCondition
<1> DEFINE stmt == StmtOf(line, n)
           new == [stmt EXCEPT !.children = @ \cup {line.dest},
                               !.belongs = @ \cup {seed_path},
                               !.min_dist = IF n < @ THEN n ELSE @]
           fold == Folded(cov_state[line.src], line, n)
<1>3. stmt \in CondStmt
  BY <1>1, <1>2 DEF StmtOf, CondStmt
<1>4. fold = [min_dist |-> IF n < stmt.min_dist THEN n ELSE stmt.min_dist,
              succ_max |-> stmt.succ_max,
              children |-> stmt.children \cup {line.dest},
              belongs |-> stmt.belongs \cup {seed_path}]
  <2>1. CASE cov_state[line.src] = NoStmt
    <3>1. stmt = [min_dist |-> n, succ_max |-> ParseCondition(line),
                  children |-> {}, belongs |-> {}]
      BY <2>1 DEF StmtOf
    <3> QED
      BY <2>1, <3>1 DEF Folded, NoStmt
  <2>2. CASE cov_state[line.src] # NoStmt
    BY <2>2 DEF StmtOf, Folded
  <2> QED
    BY <2>1, <2>2
<1>5. Record(line, n) = [cov_state EXCEPT ![line.src] = new]
  BY DEF Record
<1> HIDE DEF stmt, fold
<1>6. new = fold /\ fold \in CondStmt
  <2>1. ASSUME NEW r, r = [stmt EXCEPT !.children = @ \cup {line.dest},
                                       !.belongs = @ \cup {seed_path},
                                       !.min_dist = IF n < @ THEN n ELSE @]
        PROVE  r = fold /\ fold \in CondStmt
    BY <1>1, <1>3, <1>4, <2>1, FoldFields
  <2> QED
    BY <2>1
<1> HIDE DEF new
<1>7. Record(line, n) \in [Idx -> CondStmt]
  BY <1>1, <1>5, <1>6
<1> QED
  BY <1>5, <1>6, <1>7 DEF fold

\* Nothing is running and nothing read at the start.
LEMMA TypeInit == TracerInit => TypeInv
<1> SUFFICES ASSUME TracerInit PROVE TypeInv
  OBVIOUS
<1>1. NoStmt \in CondStmt
  BY DEF NoStmt, CondStmt
<1> QED
  BY <1>1 DEF TracerInit, RuntimeInit, TypeInv, TracerTypeOK, RuntimeTypeOK, Paced

\* What reading a line changes.
LEMMA DumpStep ==
  ASSUME TypeInv, DumpLine
  PROVE  /\ seed_path \in Seed /\ block = Nowhere
         /\ trace_info # <<>> /\ Head(trace_info) \in Line
         /\ trace_info' = Tail(trace_info) /\ trace_info' \in Seq(Line)
         /\ line_cnt' \in Nat /\ cov_state' \in [Idx -> CondStmt]
         /\ line_cnt' = line_cnt + (IF Head(trace_info).kind = "binary" THEN 0 ELSE 1)
         /\ cov_state' = IF IsTrace(Head(trace_info))
                         THEN Record(Head(trace_info), line_cnt') ELSE cov_state
         /\ UNCHANGED <<block_id, block, stack, partial, started, seed_path, printed, taken>>
<1>1. /\ seed_path \in Seed /\ block = Nowhere /\ trace_info # <<>>
      /\ trace_info \in Seq(Line) /\ line_cnt \in Nat /\ cov_state \in [Idx -> CondStmt]
  BY DEF TypeInv, TracerTypeOK, RuntimeTypeOK, DumpLine
<1>2. /\ line_cnt' = IF Head(trace_info).kind = "binary" THEN line_cnt ELSE line_cnt + 1
      /\ cov_state' = IF IsTrace(Head(trace_info))
                      THEN Record(Head(trace_info), line_cnt') ELSE cov_state
      /\ trace_info' = Tail(trace_info)
      /\ UNCHANGED <<block_id, block, stack, partial, started, seed_path, printed, taken>>
  BY DEF DumpLine, Rest
<1>3. Head(trace_info) \in Line /\ trace_info' \in Seq(Line)
  BY <1>1, <1>2, HeadTailProperties
<1>4. line_cnt' \in Nat
  BY <1>1, <1>2
<1>5. cov_state' \in [Idx -> CondStmt]
  BY <1>1, <1>2, <1>3, <1>4, RecordFolds
<1>6. line_cnt' = line_cnt + (IF Head(trace_info).kind = "binary" THEN 0 ELSE 1)
  BY <1>1, <1>2
<1> QED
  BY <1>1, <1>2, <1>3, <1>4, <1>5, <1>6

\* The types, with the order of a run, are kept by every step.
LEMMA TypeStep == TypeInv /\ [TracerNext]_tracerVars => TypeInv'
<1> SUFFICES ASSUME TypeInv, [TracerNext]_tracerVars PROVE TypeInv'
  OBVIOUS
<1>0. TracerTypeOK /\ RuntimeTypeOK /\ Paced
  BY DEF TypeInv, TracerTypeOK
<1>1. CASE TraceSeed
  BY <1>0, <1>1, TracerAssumption, RuntimeAssumption
     DEF TraceSeed, TypeInv, TracerTypeOK, RuntimeTypeOK, Paced
<1>2. CASE Run
  <2>1. /\ block # Nowhere /\ UNCHANGED <<block_id, treeVars>> /\ RuntimeTypeOK'
        /\ taken' \subseteq Block \X Block
        /\ UNCHANGED <<trace_info, printed>> \/ \E line \in Line : Printed(line)
    BY <1>2, RunStep
  <2>2. seed_path \in Seed /\ UNCHANGED <<cov_state, started, seed_path, line_cnt>>
    BY <1>0, <2>1 DEF Paced, TracerTypeOK, treeVars
  <2>3. printed' \subseteq [seed : Seed, line : Line, no : Nat]
    <3>1. printed \subseteq [seed : Seed, line : Line, no : Nat]
      BY <1>0 DEF TracerTypeOK
    <3>2. ASSUME NEW line \in Line, Printed(line)
          PROVE  printed' \subseteq [seed : Seed, line : Line, no : Nat]
      <4>1. Cardinality(Readable(trace_info')) \in Nat
        BY <2>1, ReadableFinite DEF RuntimeTypeOK
      <4>2. [seed |-> seed_path, line |-> line, no |-> Cardinality(Readable(trace_info'))]
                \in [seed : Seed, line : Line, no : Nat]
        BY <2>2, <4>1
      <4> QED
        BY <3>1, <3>2, <4>2 DEF Printed
    <3> QED
      BY <2>1, <3>1, <3>2
  <2>4. TracerTypeOK'
    BY <1>0, <2>1, <2>2, <2>3 DEF TracerTypeOK
  <2>5. Paced'
    BY <2>2, TracerAssumption DEF Paced
  <2> QED
    BY <2>4, <2>5 DEF TypeInv
<1>3. CASE DumpLine
  <2>1. /\ trace_info' \in Seq(Line) /\ line_cnt' \in Nat /\ cov_state' \in [Idx -> CondStmt]
        /\ seed_path \in Seed
        /\ UNCHANGED <<block_id, block, stack, partial, started, seed_path, printed, taken>>
    BY <1>3, DumpStep
  <2> QED
    BY <1>0, <2>1, TracerAssumption DEF TypeInv, TracerTypeOK, RuntimeTypeOK, Paced
<1>4. CASE TraceDone
  BY <1>0, <1>4 DEF TraceDone, runtimeVars, TypeInv, TracerTypeOK, RuntimeTypeOK, Paced
<1>5. CASE UNCHANGED tracerVars
  BY <1>0, <1>5 DEF tracerVars, runtimeVars, treeVars, TypeInv, TracerTypeOK, RuntimeTypeOK,
                    Paced
<1> QED
  BY <1>1, <1>2, <1>3, <1>4, <1>5 DEF TracerNext

\* Types and pace hold all along.
LEMMA TypeInvariant == TracerSpec => []TypeInv
BY TypeInit, TypeStep, PTL DEF TracerSpec

\* The fields of the tree, the queue of lines and the records keep their types: every
\* id printed, the destination of a switch without a case taken included, is a block's
\* (trace-rt.o.c:29-36, condition.py:53-87).
THEOREM TracerTypeCorrect == TracerSpec => []TracerTypeOK
<1>1. TypeInv => TracerTypeOK
  BY DEF TypeInv
<1> QED
  BY <1>1, TypeInvariant, PTL

-----------------------------------------------------------------------------
(***************************************************************************)
(* Lines on their way: the records of the lines not read yet.              *)
(***************************************************************************)

\* Readable lines among the first i.
Count(lines, i) == Cardinality({j \in 1 .. i : lines[j].kind # "binary"})

\* What reading lines will record, cnt lines of the run having been counted.
Records(lines, cnt, seed) ==
    {[seed |-> seed, line |-> lines[k], no |-> cnt + Count(lines, k)] :
        k \in {k \in DOMAIN lines : IsTrace(lines[k])}}

\* The lines counted are finitely many.
LEMMA CountFinite ==
  ASSUME NEW lines, NEW i \in Nat
  PROVE  IsFiniteSet({j \in 1 .. i : lines[j].kind # "binary"})
<1>1. IsFiniteSet(1 .. i)
  BY FS_Interval
<1>2. {j \in 1 .. i : lines[j].kind # "binary"} \in SUBSET (1 .. i)
  OBVIOUS
<1> QED
  BY <1>1, <1>2, FS_Subset

\* A count of lines is a number.
LEMMA CountType ==
  ASSUME NEW lines, NEW i \in Nat
  PROVE  Count(lines, i) \in Nat
BY CountFinite, FS_CardinalityType DEF Count

\* A line printed while none is read adds its own record, with the number that history
\* gives it.
LEMMA RecordsAppend ==
  ASSUME NEW lines \in Seq(Line), NEW line \in Line, NEW seed
  PROVE  Records(Append(lines, line), 0, seed)
           = Records(lines, 0, seed) \cup
                 (IF IsTrace(line)
                  THEN {[seed |-> seed, line |-> line,
                         no |-> Cardinality(Readable(Append(lines, line)))]}
                  ELSE {})
<1> DEFINE more == Append(lines, line)
           last == [seed |-> seed, line |-> line, no |-> Cardinality(Readable(more))]
           RecordOf(s, k) == [seed |-> seed, line |-> s[k], no |-> 0 + Count(s, k)]
<1>1. /\ Len(lines) \in Nat /\ Len(more) = Len(lines) + 1 /\ more[Len(lines) + 1] = line
      /\ DOMAIN lines = 1 .. Len(lines) /\ DOMAIN more = 1 .. (Len(lines) + 1)
      /\ \A k \in 1 .. Len(lines) : more[k] = lines[k]
  BY AppendProperties
<1> HIDE DEF more
<1>2. ASSUME NEW k \in 1 .. Len(lines) PROVE RecordOf(more, k) = RecordOf(lines, k)
  <2>1. {j \in 1 .. k : more[j].kind # "binary"} = {j \in 1 .. k : lines[j].kind # "binary"}
    BY <1>1
  <2> QED
    BY <1>1, <2>1 DEF Count
<1>3. RecordOf(more, Len(lines) + 1) = last
  <2>1. {j \in 1 .. (Len(lines) + 1) : more[j].kind # "binary"} = Readable(more)
    BY <1>1 DEF Readable
  <2>2. Count(more, Len(lines) + 1) \in Nat
    BY <1>1, CountType
  <2>3. Count(more, Len(lines) + 1) = Cardinality(Readable(more))
    BY <2>1 DEF Count
  <2> QED
    BY <1>1, <2>2, <2>3
<1> HIDE DEF last
<1>4. /\ Records(more, 0, seed) =
             {RecordOf(more, k) : k \in {k \in DOMAIN more : IsTrace(more[k])}}
      /\ Records(lines, 0, seed) =
             {RecordOf(lines, k) : k \in {k \in DOMAIN lines : IsTrace(lines[k])}}
  BY DEF Records
<1> HIDE DEF RecordOf
<1>5. Records(more, 0, seed) = Records(lines, 0, seed) \cup (IF IsTrace(line) THEN {last} ELSE {})
  <2>1. ASSUME NEW p PROVE p \in Records(more, 0, seed) <=>
                              p \in Records(lines, 0, seed) \/ (IsTrace(line) /\ p = last)
    <3>1. p \in Records(more, 0, seed) <=>
            \E k \in 1 .. (Len(lines) + 1) : IsTrace(more[k]) /\ p = RecordOf(more, k)
      BY <1>1, <1>4
    <3>2. p \in Records(lines, 0, seed) <=>
            \E k \in 1 .. Len(lines) : IsTrace(lines[k]) /\ p = RecordOf(lines, k)
      BY <1>1, <1>4
    <3>3. (\E k \in 1 .. (Len(lines) + 1) : IsTrace(more[k]) /\ p = RecordOf(more, k)) <=>
            \/ \E k \in 1 .. Len(lines) : IsTrace(more[k]) /\ p = RecordOf(more, k)
            \/ IsTrace(more[Len(lines) + 1]) /\ p = RecordOf(more, Len(lines) + 1)
      BY <1>1
    <3> QED
      BY <1>1, <1>2, <1>3, <3>1, <3>2, <3>3
  <2> QED
    BY <2>1
<1> QED
  BY <1>5 DEF more, last

\* The count of a queue is that of its head and its tail.
LEMMA CountTail ==
  ASSUME NEW lines \in Seq(Line), lines # <<>>, NEW k \in 0 .. Len(lines) - 1
  PROVE  Count(lines, k + 1)
           = (IF Head(lines).kind = "binary" THEN 0 ELSE 1) + Count(Tail(lines), k)
<1> DEFINE rest == Tail(lines)
           S == {j \in 1 .. k : rest[j].kind # "binary"}
           T == {j \in 2 .. (k + 1) : lines[j].kind # "binary"}
           A == {j \in 1 .. (k + 1) : lines[j].kind # "binary"}
           f == [j \in S |-> j + 1]
<1>1. /\ Len(lines) \in Nat /\ k \in Nat /\ Head(lines) = lines[1]
      /\ \A j \in 1 .. k : rest[j] = lines[j + 1]
  BY HeadTailProperties
<1> HIDE DEF rest
<1>2. f \in Bijection(S, T)
  <2>1. f \in [S -> T]
    BY <1>1
  <2>2. \A x, y \in S : f[x] = f[y] => x = y
    OBVIOUS
  <2>3. \A y \in T : \E x \in S : f[x] = y
    <3> TAKE y \in T
    <3>1. y - 1 \in S
      BY <1>1
    <3> WITNESS y - 1 \in S
    <3> QED
      BY <3>1
  <2>4. DOMAIN f = S
    OBVIOUS
  <2> HIDE DEF S, T, f
  <2>5. f \in Injection(S, T)
    BY <2>1, <2>2, <2>4 DEF Injection, IsInjective
  <2>6. f \in Surjection(S, T)
    BY <2>1, <2>3 DEF Surjection
  <2> QED
    BY <2>5, <2>6 DEF Bijection
<1>3. IsFiniteSet(S) /\ Cardinality(S) \in Nat /\ Cardinality(S) = Count(rest, k)
  BY <1>1, CountFinite, FS_CardinalityType DEF Count
<1>4. IsFiniteSet(T) /\ Cardinality(T) = Cardinality(S)
  BY <1>2, <1>3, FS_Bijection DEF ExistsBijection
<1>5. Count(lines, k + 1) = Cardinality(A)
  BY DEF Count
<1>6. Head(lines).kind = "binary" => A = T
  BY <1>1
<1>7. Head(lines).kind # "binary" => A = T \cup {1} /\ 1 \notin T
  BY <1>1
<1> HIDE DEF A, T, S, f
<1>8. Head(lines).kind # "binary" => Cardinality(A) = Cardinality(T) + 1
  BY <1>4, <1>7, FS_AddElement
<1>9. Count(lines, k + 1) = (IF Head(lines).kind = "binary" THEN 0 ELSE 1) + Count(rest, k)
  BY <1>3, <1>4, <1>5, <1>6, <1>8
<1> QED
  BY <1>9 DEF rest

\* The line read next is the first of the records that were coming.
LEMMA RecordsTail ==
  ASSUME NEW lines \in Seq(Line), lines # <<>>, NEW cnt \in Nat, NEW next \in Nat, NEW seed,
         next = cnt + (IF Head(lines).kind = "binary" THEN 0 ELSE 1)
  PROVE  Records(lines, cnt, seed)
           = (IF IsTrace(Head(lines))
              THEN {[seed |-> seed, line |-> Head(lines), no |-> next]} ELSE {})
             \cup Records(Tail(lines), next, seed)
<1> DEFINE rest == Tail(lines)
           RecordOf(s, c, k) == [seed |-> seed, line |-> s[k], no |-> c + Count(s, k)]
           first == [seed |-> seed, line |-> Head(lines), no |-> next]
<1>1. /\ Len(lines) \in Nat /\ Len(lines) # 0 /\ Head(lines) = lines[1]
      /\ Len(rest) = Len(lines) - 1 /\ DOMAIN rest = 1 .. (Len(lines) - 1)
      /\ \A j \in 1 .. (Len(lines) - 1) : rest[j] = lines[j + 1]
      /\ DOMAIN lines = 1 .. Len(lines)
  BY HeadTailProperties
<1>2. ASSUME NEW k \in 1 .. (Len(lines) - 1)
      PROVE  RecordOf(lines, cnt, k + 1) = RecordOf(rest, next, k)
  <2>1. Count(lines, k + 1) = (IF Head(lines).kind = "binary" THEN 0 ELSE 1) + Count(rest, k)
    BY <1>1, CountTail
  <2>2. Count(rest, k) \in Nat /\ lines[k + 1] = rest[k]
    BY <1>1, CountType
  <2>3. cnt + Count(lines, k + 1) = next + Count(rest, k)
    BY <2>1, <2>2
  <2> QED
    BY <2>2, <2>3
<1>3. RecordOf(lines, cnt, 1) = first
  <2>1. Count(lines, 0 + 1) = (IF Head(lines).kind = "binary" THEN 0 ELSE 1) + Count(rest, 0)
    BY <1>1, CountTail
  <2>2. {j \in 1 .. 0 : rest[j].kind # "binary"} = {}
    OBVIOUS
  <2>3. Count(rest, 0) = 0
    BY <2>2, FS_EmptySet DEF Count
  <2>4. cnt + Count(lines, 1) = next
    BY <2>1, <2>3
  <2> QED
    BY <1>1, <2>4
<1>4. /\ Records(lines, cnt, seed)
            = {RecordOf(lines, cnt, k) : k \in {k \in DOMAIN lines : IsTrace(lines[k])}}
      /\ Records(rest, next, seed)
            = {RecordOf(rest, next, k) : k \in {k \in DOMAIN rest : IsTrace(rest[k])}}
  BY DEF Records
<1> HIDE DEF RecordOf, rest, first
<1>5. ASSUME NEW p
      PROVE  p \in Records(lines, cnt, seed) <=>
                (IsTrace(Head(lines)) /\ p = first) \/ p \in Records(rest, next, seed)
  <2>1. p \in Records(lines, cnt, seed) <=>
          \E k \in 1 .. Len(lines) : IsTrace(lines[k]) /\ p = RecordOf(lines, cnt, k)
    BY <1>1, <1>4
  <2>2. p \in Records(rest, next, seed) <=>
          \E k \in 1 .. (Len(lines) - 1) : IsTrace(rest[k]) /\ p = RecordOf(rest, next, k)
    BY <1>1, <1>4
  <2>3. (\E k \in 1 .. Len(lines) : IsTrace(lines[k]) /\ p = RecordOf(lines, cnt, k)) <=>
          \/ IsTrace(lines[1]) /\ p = RecordOf(lines, cnt, 1)
          \/ \E k \in 1 .. (Len(lines) - 1) :
                 IsTrace(lines[k + 1]) /\ p = RecordOf(lines, cnt, k + 1)
    <3>1. ASSUME NEW k \in 1 .. Len(lines), k # 1, IsTrace(lines[k]), p = RecordOf(lines, cnt, k)
          PROVE  \E j \in 1 .. (Len(lines) - 1) :
                     IsTrace(lines[j + 1]) /\ p = RecordOf(lines, cnt, j + 1)
      <4>1. k - 1 \in 1 .. (Len(lines) - 1) /\ (k - 1) + 1 = k
        BY <1>1, <3>1
      <4> QED
        BY <3>1, <4>1
    <3>2. \A k \in 1 .. (Len(lines) - 1) : k + 1 \in 1 .. Len(lines)
      BY <1>1
    <3>3. 1 \in 1 .. Len(lines)
      BY <1>1
    <3> QED
      BY <3>1, <3>2, <3>3
  <2>4. \A k \in 1 .. (Len(lines) - 1) : lines[k + 1] = rest[k]
    BY <1>1
  <2> QED
    BY <1>1, <1>2, <1>3, <2>1, <2>2, <2>3, <2>4
<1> QED
  BY <1>5 DEF rest, first

-----------------------------------------------------------------------------
(***************************************************************************)
(* The tree is what has been read of the lines printed.                    *)
(***************************************************************************)

\* A statement of the tree is what the records of its source say.
Says(stmt, lines) ==
    /\ stmt # NoStmt <=> lines # {}
    /\ stmt.children = {p.line.dest : p \in lines}
    /\ stmt.belongs = {p.seed : p \in lines}
    /\ stmt # NoStmt => /\ \E p \in lines : p.no = stmt.min_dist
                        /\ \A p \in lines : stmt.min_dist <= p.no

Of(records, a) == {p \in records : p.line.src = a}

\* The records are those read, of which the tree is made, and those coming.
Summary ==
    \E done : /\ printed = done \cup Records(trace_info, line_cnt, seed_path)
              /\ \A a \in Idx : Says(cov_state[a], Of(done, a))

TreeInv == TypeInv /\ Unread /\ Summary

\* Folding one more line into a statement adds that line to what the statement says.
LEMMA FoldSays ==
  ASSUME NEW stmt \in CondStmt, NEW line \in Line, NEW n \in Nat,
         NEW lines \in SUBSET [seed : Seed, line : Line, no : Nat], Says(stmt, lines)
  PROVE  Says(Folded(stmt, line, n),
              lines \cup {[seed |-> seed_path, line |-> line, no |-> n]})
<1> DEFINE rec == [seed |-> seed_path, line |-> line, no |-> n]
           fold == Folded(stmt, line, n)
           more == lines \cup {rec}
<1>1. rec.seed = seed_path /\ rec.line = line /\ rec.no = n
  OBVIOUS
<1>2. /\ fold.children = stmt.children \cup {line.dest}
      /\ fold.belongs = stmt.belongs \cup {seed_path}
      /\ fold.min_dist = IF stmt = NoStmt \/ n < stmt.min_dist THEN n ELSE stmt.min_dist
  BY DEF Folded
<1>3. stmt.min_dist \in Nat /\ \A p \in lines : p.no \in Nat
  BY DEF CondStmt
<1> HIDE DEF rec, fold
<1>4. fold # NoStmt
  BY <1>2 DEF NoStmt
<1>5. fold.children = {p.line.dest : p \in more}
  BY <1>1, <1>2 DEF Says
<1>6. fold.belongs = {p.seed : p \in more}
  BY <1>1, <1>2 DEF Says
<1>7. (\E p \in more : p.no = fold.min_dist) /\ \A p \in more : fold.min_dist <= p.no
  <2>1. CASE stmt = NoStmt
    <3>1. lines = {} /\ fold.min_dist = n
      BY <1>2, <2>1 DEF Says
    <3> QED
      BY <1>1, <3>1
  <2>2. CASE stmt # NoStmt
    <3>1. (\E p \in lines : p.no = stmt.min_dist) /\ \A p \in lines : stmt.min_dist <= p.no
      BY <2>2 DEF Says
    <3>2. fold.min_dist = IF n < stmt.min_dist THEN n ELSE stmt.min_dist
      BY <1>2, <2>2
    <3>3. CASE n < stmt.min_dist
      BY <1>1, <1>3, <3>1, <3>2, <3>3
    <3>4. CASE ~(n < stmt.min_dist)
      BY <1>1, <1>3, <3>1, <3>2, <3>4
    <3> QED
      BY <3>3, <3>4
  <2> QED
    BY <2>1, <2>2
<1>8. more # {}
  OBVIOUS
<1>9. Says(fold, more)
  BY <1>4, <1>5, <1>6, <1>7, <1>8 DEF Says
<1> QED
  BY <1>9 DEF fold, rec

\* A line read moves its record from those coming to those the tree is made of.
LEMMA DumpSummary ==
  ASSUME TreeInv, DumpLine
  PROVE  Summary'
<1>1. /\ TypeInv /\ TracerTypeOK /\ trace_info \in Seq(Line) /\ line_cnt \in Nat
      /\ cov_state \in [Idx -> CondStmt]
      /\ printed \in SUBSET [seed : Seed, line : Line, no : Nat]
  BY DEF TreeInv, TypeInv, TracerTypeOK, RuntimeTypeOK
<1> DEFINE line == Head(trace_info)
           rec == [seed |-> seed_path, line |-> line, no |-> line_cnt']
           new == IF IsTrace(line) THEN {rec} ELSE {}
           rest == Records(trace_info', line_cnt', seed_path')
<1>2. /\ seed_path \in Seed /\ trace_info # <<>> /\ line \in Line
      /\ trace_info' = Tail(trace_info) /\ line_cnt' \in Nat
      /\ line_cnt' = line_cnt + (IF line.kind = "binary" THEN 0 ELSE 1)
      /\ cov_state' = IF IsTrace(line) THEN Record(line, line_cnt') ELSE cov_state
      /\ UNCHANGED <<seed_path, printed>>
  BY <1>1, DumpStep
<1>3. PICK done : /\ printed = done \cup Records(trace_info, line_cnt, seed_path)
                  /\ \A a \in Idx : Says(cov_state[a], Of(done, a))
  BY DEF TreeInv, Summary
<1>4. Records(trace_info, line_cnt, seed_path) = new \cup rest
  BY <1>1, <1>2, RecordsTail
<1> HIDE DEF rest
<1>5. printed' = (done \cup new) \cup rest
  BY <1>2, <1>3, <1>4
<1>6. ASSUME NEW a \in Idx PROVE Says(cov_state'[a], Of(done \cup new, a))
  <2>1. CASE IsTrace(line) /\ a = line.src
    <3>1. cov_state'[a] = Folded(cov_state[a], line, line_cnt')
      BY <1>1, <1>2, <2>1, RecordFolds
    <3>2. Of(done \cup new, a) = Of(done, a) \cup {rec}
      BY <2>1 DEF Of
    <3>3. Of(done, a) \in SUBSET [seed : Seed, line : Line, no : Nat]
      BY <1>1, <1>3 DEF Of
    <3>4. cov_state[a] \in CondStmt /\ Says(cov_state[a], Of(done, a))
      BY <1>1, <1>3
    <3>5. Says(Folded(cov_state[a], line, line_cnt'), Of(done, a) \cup {rec})
      BY <1>2, <3>3, <3>4, FoldSays
    <3> QED
      BY <3>1, <3>2, <3>5
  <2>2. CASE IsTrace(line) /\ a # line.src
    <3>1. cov_state'[a] = cov_state[a]
      BY <1>1, <1>2, <2>2, RecordFolds
    <3>2. Of(done \cup new, a) = Of(done, a)
      BY <2>2 DEF Of
    <3> QED
      BY <1>3, <3>1, <3>2
  <2>3. CASE ~IsTrace(line)
    BY <1>2, <1>3, <2>3
  <2> QED
    BY <2>1, <2>2, <2>3
<1> QED
  BY <1>5, <1>6 DEF Summary, rest

\* A line printed adds its record to those coming.
LEMMA RunSummary ==
  ASSUME TreeInv, Run
  PROVE  Summary'
<1>1. TypeInv /\ Unread /\ trace_info \in Seq(Line)
  BY DEF TreeInv, TypeInv, TracerTypeOK, RuntimeTypeOK
<1>2. /\ block # Nowhere /\ UNCHANGED treeVars
      /\ UNCHANGED <<trace_info, printed>> \/ \E line \in Line : Printed(line)
  BY <1>1, RunStep
<1>3. line_cnt = 0 /\ UNCHANGED <<cov_state, seed_path, line_cnt>>
  BY <1>1, <1>2 DEF Unread, treeVars
<1>4. PICK done : /\ printed = done \cup Records(trace_info, 0, seed_path)
                  /\ \A a \in Idx : Says(cov_state[a], Of(done, a))
  BY <1>3 DEF TreeInv, Summary
<1>5. CASE UNCHANGED <<trace_info, printed>>
  BY <1>3, <1>4, <1>5 DEF Summary
<1>6. ASSUME NEW line \in Line, Printed(line) PROVE Summary'
  <2> DEFINE new == IF IsTrace(line)
                    THEN {[seed |-> seed_path, line |-> line,
                           no |-> Cardinality(Readable(Append(trace_info, line)))]}
                    ELSE {}
  <2>1. Records(Append(trace_info, line), 0, seed_path)
          = Records(trace_info, 0, seed_path) \cup new
    BY <1>1, RecordsAppend
  <2>2. trace_info' = Append(trace_info, line) /\ printed' = printed \cup new
    BY <1>6 DEF Printed
  <2>3. printed' = done \cup Records(trace_info', line_cnt', seed_path')
    BY <1>3, <1>4, <2>1, <2>2
  <2> QED
    BY <1>3, <1>4, <2>3 DEF Summary
<1> QED
  BY <1>2, <1>5, <1>6

\* Without a line to read nothing is coming.
LEMMA RecordsEmpty == ASSUME NEW cnt, NEW seed PROVE Records(<<>>, cnt, seed) = {}
BY DEF Records

\* The inductive invariant holds.
LEMMA TreeInvariant == TracerSpec => []TreeInv
<1>1. TracerInit => TreeInv
  <2> SUFFICES ASSUME TracerInit PROVE TreeInv
    OBVIOUS
  <2>1. TypeInv
    BY TypeInit
  <2>2. Unread
    BY DEF Unread, TracerInit, RuntimeInit
  <2>3. printed = {} \cup Records(trace_info, line_cnt, seed_path)
    BY RecordsEmpty DEF TracerInit, RuntimeInit
  <2>4. \A a \in Idx : Says(cov_state[a], Of({}, a))
    BY DEF TracerInit, Says, Of, NoStmt
  <2> QED
    BY <2>1, <2>2, <2>3, <2>4 DEF TreeInv, Summary
<1>2. TreeInv /\ [TracerNext]_tracerVars => TreeInv'
  <2> SUFFICES ASSUME TreeInv, [TracerNext]_tracerVars PROVE TreeInv'
    OBVIOUS
  <2>0. TypeInv /\ Unread /\ Summary /\ TypeInv'
    BY TypeStep DEF TreeInv
  <2>1. CASE TraceSeed
    <3>1. /\ trace_info = <<>> /\ trace_info' = <<>> /\ UNCHANGED <<cov_state, printed>>
          /\ line_cnt' = 0
      BY <2>0, <2>1 DEF TypeInv, Paced, TraceSeed
    <3>2. Summary'
      BY <2>0, <3>1, RecordsEmpty DEF Summary
    <3> QED
      BY <2>0, <3>1, <3>2 DEF TreeInv, Unread
  <2>2. CASE Run
    <3>1. block # Nowhere /\ UNCHANGED line_cnt
      BY <2>0, <2>2, RunStep DEF treeVars
    <3>2. Summary'
      BY <2>2, RunSummary
    <3> QED
      BY <2>0, <3>1, <3>2 DEF TreeInv, Unread
  <2>3. CASE DumpLine
    <3>1. block' = Nowhere
      BY <2>0, <2>3, DumpStep
    <3>2. Summary'
      BY <2>3, DumpSummary
    <3> QED
      BY <2>0, <3>1, <3>2 DEF TreeInv, Unread
  <2>4. CASE TraceDone
    <3>1. /\ trace_info = <<>> /\ trace_info' = <<>> /\ block' = Nowhere
          /\ UNCHANGED <<cov_state, printed>>
      BY <2>4 DEF TraceDone, runtimeVars
    <3>2. Summary'
      BY <2>0, <3>1, RecordsEmpty DEF Summary
    <3> QED
      BY <2>0, <3>1, <3>2 DEF TreeInv, Unread
  <2>5. CASE UNCHANGED tracerVars
    BY <2>0, <2>5 DEF tracerVars, runtimeVars, treeVars, TreeInv, Unread, Summary
  <2> QED
    BY <2>1, <2>2, <2>3, <2>4, <2>5 DEF TracerNext
<1> QED
  BY <1>1, <1>2, PTL DEF TracerSpec

\* Between two seeds the tree is what the whole lines printed say, whatever the program
\* printed in between, and the distances are the least numbers (trace.py:17-39).
THEOREM TreeMatches == TracerSpec => []TreeMatchesTraces
<1>1. TreeInv => TreeMatchesTraces
  <2> SUFFICES ASSUME TreeInv, seed_path = NoSeed PROVE TreeSays(printed)
    BY DEF TreeMatchesTraces
  <2>1. trace_info = <<>>
    BY DEF TreeInv, TypeInv, Paced
  <2>2. \A a \in Idx : Says(cov_state[a], Of(printed, a))
    BY <2>1, RecordsEmpty DEF TreeInv, Summary
  <2>3. ASSUME NEW a \in Idx
        PROVE  LET lines == {p \in printed : p.line.src = a}
               IN  /\ a \in Known <=> lines # {}
                   /\ cov_state[a].children = {p.line.dest : p \in lines}
                   /\ cov_state[a].belongs = {p.seed : p \in lines}
                   /\ a \in Known => /\ \E p \in lines : p.no = cov_state[a].min_dist
                                     /\ \A p \in lines : cov_state[a].min_dist <= p.no
    BY <2>2 DEF Says, Of, Known
  <2> QED
    BY <2>3 DEF TreeSays
<1> QED
  BY <1>1, TreeInvariant, PTL

-----------------------------------------------------------------------------
(***************************************************************************)
(* What the tree says was done: every record is a jump really made.        *)
(***************************************************************************)

LinesReal == \A p \in printed : IsTrace(p.line) /\ RealLine(p.line)

\* The successors a statement waits for are those of a line of its source.
StmtsReal ==
    \A a \in Known : \E p \in printed :
        p.line.src = a /\ cov_state[a].succ_max = ParseCondition(p.line)

RealInv == TreeInv /\ LinesReal /\ StmtsReal

\* A real line stays real: jumps are never unmade and ids never change.
LEMMA RealStays ==
  ASSUME NEW line, RealLine(line), UNCHANGED block_id, taken \subseteq taken'
  PROVE  RealLine(line)'
BY DEF RealLine

\* Every step keeps the records real.
LEMMA RealStep == RealInv /\ [TracerNext]_tracerVars => LinesReal' /\ StmtsReal'
<1> SUFFICES ASSUME RealInv, [TracerNext]_tracerVars PROVE LinesReal' /\ StmtsReal'
  OBVIOUS
<1>0. /\ TypeInv /\ TracerTypeOK /\ TreeInv /\ LinesReal /\ StmtsReal
      /\ cov_state \in [Idx -> CondStmt] /\ line_cnt \in Nat /\ trace_info \in Seq(Line)
  BY DEF RealInv, TreeInv, TypeInv, TracerTypeOK, RuntimeTypeOK
<1>1. CASE Run
  <2>1. /\ UNCHANGED <<block_id, treeVars>> /\ taken \subseteq taken'
        /\ UNCHANGED <<trace_info, printed>> \/ \E line \in Line : Printed(line)
    BY <1>0, <1>1, RunStep
  <2>2. UNCHANGED cov_state /\ printed \subseteq printed'
    BY <2>1 DEF treeVars, Printed
  <2>3. StmtsReal'
    BY <1>0, <2>2 DEF StmtsReal, Known
  <2>4. ASSUME NEW p \in printed' PROVE IsTrace(p.line) /\ RealLine(p.line)'
    <3>1. CASE p \in printed
      BY <1>0, <2>1, <3>1 DEF LinesReal, RealLine
    <3>2. CASE p \notin printed
      <4>1. PICK line \in Line : Printed(line)
        BY <2>1, <3>2
      <4>2. IsTrace(line) /\ p.line = line
        BY <3>2, <4>1 DEF Printed
      <4> QED
        BY <4>1, <4>2 DEF Printed, RealLine
    <3> QED
      BY <3>1, <3>2
  <2> QED
    BY <2>3, <2>4 DEF LinesReal, RealLine
<1>2. CASE DumpLine
  <2> DEFINE line == Head(trace_info)
             rec == [seed |-> seed_path, line |-> line, no |-> line_cnt']
  <2>1. /\ seed_path \in Seed /\ trace_info # <<>> /\ line \in Line
        /\ trace_info' = Tail(trace_info) /\ line_cnt' \in Nat
        /\ line_cnt' = line_cnt + (IF line.kind = "binary" THEN 0 ELSE 1)
        /\ cov_state' = IF IsTrace(line) THEN Record(line, line_cnt') ELSE cov_state
        /\ UNCHANGED <<block_id, seed_path, printed, taken>>
    BY <1>0, <1>2, DumpStep
  <2>2. LinesReal'
    BY <1>0, <2>1 DEF LinesReal, RealLine
  <2>3. IsTrace(line) => rec \in printed
    <3> DEFINE new == IF IsTrace(line) THEN {rec} ELSE {}
               rest == Records(Tail(trace_info), line_cnt', seed_path)
    <3>1. Records(trace_info, line_cnt, seed_path) = new \cup rest
      BY <1>0, <2>1, RecordsTail
    <3>2. Records(trace_info, line_cnt, seed_path) \subseteq printed
      BY <1>0 DEF TreeInv, Summary
    <3> HIDE DEF rest
    <3> QED
      BY <3>1, <3>2
  <2>4. ASSUME NEW a \in Idx, cov_state'[a] # NoStmt
        PROVE  \E p \in printed :
                   p.line.src = a /\ cov_state'[a].succ_max = ParseCondition(p.line)
    <3>1. CASE cov_state[a] # NoStmt
      <4>1. PICK p \in printed : p.line.src = a /\ cov_state[a].succ_max = ParseCondition(p.line)
        BY <1>0, <3>1 DEF StmtsReal, Known
      <4>2. cov_state'[a].succ_max = cov_state[a].succ_max
        <5>1. CASE IsTrace(line) /\ a = line.src
          <6>1. cov_state'[a] = Folded(cov_state[a], line, line_cnt')
            BY <1>0, <2>1, <5>1, RecordFolds
          <6> QED
            BY <3>1, <6>1 DEF Folded
        <5>2. CASE ~(IsTrace(line) /\ a = line.src)
          <6>1. cov_state'[a] = cov_state[a]
            BY <1>0, <2>1, <5>2, RecordFolds
          <6> QED
            BY <6>1
        <5> QED
          BY <5>1, <5>2
      <4> QED
        BY <4>1, <4>2
    <3>2. CASE cov_state[a] = NoStmt
      <4>1. IsTrace(line) /\ a = line.src
        BY <1>0, <2>1, <2>4, <3>2, RecordFolds
      <4>2. cov_state'[a] = Folded(cov_state[a], line, line_cnt')
        BY <1>0, <2>1, <4>1, RecordFolds
      <4>3. cov_state'[a].succ_max = ParseCondition(line)
        BY <3>2, <4>2 DEF Folded
      <4> QED
        BY <2>3, <4>1, <4>3
    <3> QED
      BY <3>1, <3>2
  <2>5. StmtsReal'
    BY <2>1, <2>4 DEF StmtsReal, Known
  <2> QED
    BY <2>2, <2>5
<1>3. CASE TraceSeed \/ TraceDone \/ UNCHANGED tracerVars
  <2>1. UNCHANGED <<block_id, cov_state, printed, taken>>
    BY <1>3 DEF TraceSeed, TraceDone, runtimeVars, tracerVars, treeVars
  <2> QED
    BY <1>0, <2>1 DEF LinesReal, RealLine, StmtsReal, Known
<1> QED
  BY <1>1, <1>2, <1>3 DEF TracerNext

\* The records stay real all along.
LEMMA RealInvariant == TracerSpec => []RealInv
<1>1. TracerInit => LinesReal /\ StmtsReal
  BY DEF TracerInit, LinesReal, StmtsReal, Known
<1>2. TracerSpec => [](LinesReal /\ StmtsReal)
  BY <1>1, RealStep, TreeInvariant, PTL DEF TracerSpec, RealInv
<1> QED
  BY <1>2, TreeInvariant, PTL DEF RealInv

\* A record of the id of a branch that no other condition shares is a jump that branch
\* made.
LEMMA OwnRecord ==
  ASSUME RealInv, NEW b \in Block, Term[b].kind = "br", Unique(b),
         NEW p \in printed, p.line.src = block_id[b]
  PROVE  /\ p.line.kind = "br"
         /\ \E i \in {1, 2} : /\ p.line.dest = block_id[Term[b].succ[i]]
                              /\ <<b, Term[b].succ[i]>> \in taken
<1>1. PICK c \in Instrumented :
        /\ p.line.kind = Term[c].kind /\ p.line.src = block_id[c]
        /\ p.line.kind = "br" => \E i \in {1, 2} : /\ p.line.dest = block_id[Term[c].succ[i]]
                                                   /\ <<c, Term[c].succ[i]>> \in taken
  BY DEF RealInv, LinesReal, RealLine
<1>2. c = b
  BY <1>1 DEF Unique
<1> QED
  BY <1>1, <1>2

\* A branch is dropped from the missed edges only if the traced seeds took both ways
\* (depot.py:42, condition.py:78-85): one destination recorded is one successor taken, so
\* two recorded are both, whatever ids the successors have.
THEOREM BranchCover == TracerSpec => []BranchCoverSound
<1>1. RealInv => BranchCoverSound
  <2> SUFFICES ASSUME RealInv, NEW b \in Block, Term[b].kind = "br", Unique(b),
                      block_id[b] \in Known, IsBranchCovered(block_id[b])
               PROVE  \A i \in DOMAIN Term[b].succ : <<b, Term[b].succ[i]>> \in taken
    BY DEF BranchCoverSound, CoveredMeansTaken
  <2>0. DOMAIN Term[b].succ = 1 .. 2
    BY RuntimeAssumption, LenProperties
  <2> DEFINE a == block_id[b]
             children == cov_state[a].children
  <2>1. a \in Idx /\ cov_state[a] # NoStmt
    BY DEF Known
  <2>2. PICK p \in printed : p.line.src = a /\ cov_state[a].succ_max = ParseCondition(p.line)
    BY DEF RealInv, StmtsReal
  <2>3. cov_state[a].succ_max = 2
    BY <2>2, OwnRecord DEF ParseCondition
  <2>4. PICK done : done \subseteq printed /\ Says(cov_state[a], Of(done, a))
    BY <2>1 DEF RealInv, TreeInv, Summary
  <2>5. ASSUME NEW dest \in children
        PROVE  \E i \in {1, 2} : /\ dest = block_id[Term[b].succ[i]]
                                 /\ <<b, Term[b].succ[i]>> \in taken
    <3>1. PICK q \in done : q.line.src = a /\ dest = q.line.dest
      BY <2>4 DEF Says, Of
    <3> QED
      BY <2>4, <3>1, OwnRecord
  <2>6. ASSUME NEW i \in {1, 2}, <<b, Term[b].succ[i]>> \notin taken PROVE FALSE
    <3> DEFINE other == block_id[Term[b].succ[3 - i]]
    <3>1. children \subseteq {other}
      BY <2>5, <2>6
    <3>2. Cardinality({other}) = 1 /\ IsFiniteSet({other})
      BY FS_Singleton
    <3>3. Cardinality(children) <= 1 /\ Cardinality(children) \in Nat
      BY <3>1, <3>2, FS_Subset, FS_CardinalityType
    <3>4. Cardinality(children) >= 2
      BY <2>3 DEF IsBranchCovered
    <3> QED
      BY <3>3, <3>4
  <2> QED
    BY <2>0, <2>6
<1> QED
  BY <1>1, RealInvariant, PTL

-----------------------------------------------------------------------------
(***************************************************************************)
(* The depot's view.                                                       *)
(***************************************************************************)

\* The seed being traced is one marked traced (executor.py:47-48).
Begun == seed_path # NoSeed => seed_path \in started

DepotInv == TypeInv /\ Begun

\* A step that leaves the tree and the seeds alone leaves the depot alone.
LEMMA DepotStutter ==
  ASSUME UNCHANGED <<cov_state, started>>
  PROVE  UNCHANGED Depot!depotVars
BY DEF Depot!depotVars

\* A trace line read is RecordTrace of its edge.
LEMMA DepotRecord ==
  ASSUME DepotInv, DumpLine, IsTrace(Head(trace_info))
  PROVE  Depot!RecordTrace(seed_path,
                           {<<Head(trace_info).src, Head(trace_info).dest>>})
<1> DEFINE line == Head(trace_info)
           path == {<<line.src, line.dest>>}
<1>1. /\ TypeInv /\ cov_state \in [Idx -> CondStmt]
  BY DEF DepotInv, TypeInv, TracerTypeOK
<1>2. /\ seed_path \in Seed /\ line \in Line /\ line_cnt' \in Nat
      /\ cov_state' = Record(line, line_cnt')
      /\ UNCHANGED started
  BY <1>1, DumpStep
<1>3. line.src \in Idx /\ line.dest \in Idx
  BY <1>2 DEF Line
<1> HIDE DEF line
<1>4. ASSUME NEW a \in Idx
      PROVE  /\ cov_state'[a].children
                  = cov_state[a].children \cup {d \in Idx : <<a, d>> \in path}
             /\ cov_state'[a].belongs
                  = IF \E d \in Idx : <<a, d>> \in path
                    THEN cov_state[a].belongs \cup {seed_path} ELSE cov_state[a].belongs
  <2>1. CASE a = line.src
    <3>1. cov_state'[a] = Folded(cov_state[a], line, line_cnt')
      BY <1>1, <1>2, <2>1, RecordFolds
    <3>2. /\ cov_state'[a].children = cov_state[a].children \cup {line.dest}
          /\ cov_state'[a].belongs = cov_state[a].belongs \cup {seed_path}
      BY <3>1 DEF Folded
    <3>3. {d \in Idx : <<a, d>> \in path} = {line.dest}
      BY <1>3, <2>1
    <3> QED
      BY <1>3, <2>1, <3>2, <3>3
  <2>2. CASE a # line.src
    <3>1. cov_state'[a] = cov_state[a]
      BY <1>1, <1>2, <2>2, RecordFolds
    <3> QED
      BY <2>2, <3>1
  <2> QED
    BY <2>1, <2>2
<1>5. [a \in Idx |-> cov_state'[a].children]
        = [a \in Idx |-> [b \in Idx |-> cov_state[b].children][a]
                             \cup {d \in Idx : <<a, d>> \in path}]
  BY <1>4
<1>6. [a \in Idx |-> cov_state'[a].belongs]
        = [a \in Idx |-> IF \E d \in Idx : <<a, d>> \in path
                         THEN [b \in Idx |-> cov_state[b].belongs][a] \cup {seed_path}
                         ELSE [b \in Idx |-> cov_state[b].belongs][a]]
  BY <1>4
<1> QED
  BY <1>2, <1>5, <1>6 DEF Depot!RecordTrace, line

\* The tracer is the depot's operations MarkTraced and RecordTrace in some order, the
\* second for seeds marked already: the tree changes in no other way
\* (executor.py:47-48, trace.py:33-38).
THEOREM TracerRefinesDepot == TracerSpec => RecordsTraces
<1>1. TracerInit => Depot!DepotInit
  <2> SUFFICES ASSUME TracerInit PROVE Depot!DepotInit
    OBVIOUS
  <2>1. \A a \in Idx : cov_state[a].children = {} /\ cov_state[a].belongs = {}
    BY DEF TracerInit, NoStmt
  <2>2. started = {}
    BY DEF TracerInit
  <2> QED
    BY <2>1, <2>2 DEF Depot!DepotInit
<1>2. TracerInit => Begun
  BY DEF TracerInit, Begun
<1>3. DepotInv /\ [TracerNext]_tracerVars => Begun' /\ [Depot!DepotNext]_(Depot!depotVars)
  <2> SUFFICES ASSUME DepotInv, [TracerNext]_tracerVars
               PROVE  Begun' /\ [Depot!DepotNext]_(Depot!depotVars)
    OBVIOUS
  <2>0. TypeInv /\ Begun
    BY DEF DepotInv
  <2>1. CASE TraceSeed
    <3>1. /\ seed_path' \in Seed /\ started' = started \cup {seed_path'}
          /\ UNCHANGED cov_state
      BY <2>1 DEF TraceSeed
    <3>2. Depot!MarkTraced({seed_path'})
      BY <3>1 DEF Depot!MarkTraced
    <3>3. {seed_path'} \in SUBSET Seed
      BY <3>1
    <3>4. Depot!DepotNext
      BY <3>2, <3>3 DEF Depot!DepotNext
    <3> QED
      BY <3>1, <3>4 DEF Begun
  <2>2. CASE Run
    <3>1. UNCHANGED <<cov_state, started, seed_path>>
      BY <2>0, <2>2, RunStep DEF treeVars
    <3> QED
      BY <2>0, <3>1, DepotStutter DEF Begun
  <2>3. CASE DumpLine
    <3>1. /\ seed_path \in Seed /\ UNCHANGED <<started, seed_path>>
          /\ Head(trace_info) \in Line
          /\ ~IsTrace(Head(trace_info)) => UNCHANGED cov_state
      BY <2>0, <2>3, DumpStep
    <3>2. seed_path \in started
      BY <2>0, <3>1, TracerAssumption DEF Begun
    <3>3. CASE IsTrace(Head(trace_info))
      <4> DEFINE path == {<<Head(trace_info).src, Head(trace_info).dest>>}
      <4>1. Depot!RecordTrace(seed_path, path)
        BY <2>3, <3>3, DepotRecord
      <4>2. path \in SUBSET (Idx \X Idx)
        BY <3>1 DEF Line
      <4> HIDE DEF path
      <4>3. \E seed \in started : \E p \in SUBSET (Idx \X Idx) : Depot!RecordTrace(seed, p)
        BY <3>2, <4>1, <4>2 DEF Depot!RecordTrace
      <4>4. Depot!DepotNext
        BY <4>3 DEF Depot!DepotNext
      <4> QED
        BY <3>1, <3>2, <4>4 DEF Begun
    <3>4. CASE ~IsTrace(Head(trace_info))
      BY <3>1, <3>2, <3>4, DepotStutter DEF Begun
    <3> QED
      BY <3>3, <3>4
  <2>4. CASE TraceDone
    BY <2>4, DepotStutter DEF TraceDone, runtimeVars, Begun
  <2>5. CASE UNCHANGED tracerVars
    BY <2>0, <2>5, DepotStutter DEF tracerVars, treeVars, Begun
  <2> QED
    BY <2>1, <2>2, <2>3, <2>4, <2>5 DEF TracerNext
<1> QED
  BY <1>1, <1>2, <1>3, TypeInvariant, PTL DEF TracerSpec, DepotInv, RecordsTraces, Depot!DepotSpec
=============================================================================
