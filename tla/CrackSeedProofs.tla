--------------------------- MODULE CrackSeedProofs ---------------------------
(***************************************************************************)
(* What CoFuzz gets out of a cracking run is what the child printed whole, *)
(* and what it makes of it are mutants of the seed, for any constraints,   *)
(* seeds, addresses and interference of the program under test.            *)
(***************************************************************************)
EXTENDS CrackSeed, FiniteSetTheorems, SequenceTheorems, TLAPS

-----------------------------------------------------------------------------
(***************************************************************************)
(* Logs: where a constraint stands whole, or as far as it is still unread. *)
(***************************************************************************)

\* The constraint c of the address a stands in the log at i.
Whole(lines, i, a, c) ==
    /\ i \in Nat \ {0} /\ i + Len(c) + 1 <= Len(lines)
    /\ lines[i] = Start(a)
    /\ \A j \in 1 .. Len(c) : lines[i + j] = Express(c[j])
    /\ lines[i + Len(c) + 1] = Other("end")

\* All but the first k clauses of c stand at the head of the log.
Pending(lines, c, k) ==
    /\ k \in 0 .. Len(c) /\ Len(c) - k + 1 <= Len(lines)
    /\ \A j \in 1 .. Len(c) - k : lines[j] = Express(c[k + j])
    /\ lines[Len(c) - k + 1] = Other("end")

\* After i there are clauses only: the child was killed in the middle.
CutAfter(lines, i) == \A j \in 1 .. Len(lines) : j > i => lines[j].kind = "express"

\* What a line can carry.
ClausesOf(c) == {c[i] : i \in DOMAIN c}

RealClauses == UNION {ClausesOf(c) : c \in Constraint}

Clauses == {NoClause} \cup RealClauses

\* A line of every kind is a line of the log.
LEMMA LineType ==
  /\ \A a \in Idx : Start(a) \in LogLine
  /\ \A clause \in Clauses : Express(clause) \in LogLine
  /\ \A kind \in {"end", "other"} : Other(kind) \in LogLine
  /\ \A line \in LogLine : line.kind = "start" => line.src \in Idx \cup {-1}
<1>1. NoClause \in Clauses
  BY DEF Clauses
<1>2. LogLine = [kind : {"start", "express", "end", "other"}, src : Idx \cup {-1}, clause : Clauses]
  BY DEF LogLine, Clauses, RealClauses, ClausesOf
<1> QED
  BY <1>1, <1>2 DEF Start, Express, Other

\* A constraint is a sequence.
LEMMA ConstraintSeq ==
  ASSUME NEW c \in Constraint
  PROVE  /\ Len(c) \in Nat /\ DOMAIN c = 1 .. Len(c)
         /\ \A i \in 1 .. Len(c) : Express(c[i]) \in LogLine
         /\ \A i \in 1 .. Len(c) : c[i].offset \in Int
<1>1. c \in Seq([offset : Int, values : SUBSET Int])
  BY ConcolicAssumption
<1>2. Len(c) \in Nat /\ DOMAIN c = 1 .. Len(c)
  BY <1>1, LenProperties
<1>3. ASSUME NEW i \in 1 .. Len(c) PROVE Express(c[i]) \in LogLine
  <2>1. c[i] \in Clauses
    <3>1. c[i] \in ClausesOf(c)
      BY <1>2 DEF ClausesOf
    <3>2. c[i] \in RealClauses
      BY <3>1 DEF RealClauses
    <3> QED
      BY <3>2 DEF Clauses
  <2> QED
    BY <2>1, LineType
<1>4. ASSUME NEW i \in 1 .. Len(c) PROVE c[i].offset \in Int
  <2>1. c[i] \in [offset : Int, values : SUBSET Int]
    BY <1>1, <1>2, ElementOfSeq
  <2> QED
    BY <2>1
<1> QED
  BY <1>2, <1>3, <1>4

\* The lines of a constraint, first to last.
LEMMA LinesShape ==
  ASSUME NEW c \in Constraint, NEW first \in LogLine
  PROVE  /\ Lines(first, c) \in Seq(LogLine) /\ Len(Lines(first, c)) = Len(c) + 2
         /\ Lines(first, c)[1] = first
         /\ \A j \in 1 .. Len(c) : Lines(first, c)[1 + j] = Express(c[j])
         /\ Lines(first, c)[Len(c) + 2] = Other("end")
<1> DEFINE body == [i \in DOMAIN c |-> Express(c[i])]
<1>1. /\ Len(c) \in Nat /\ DOMAIN c = 1 .. Len(c)
      /\ \A i \in 1 .. Len(c) : Express(c[i]) \in LogLine
  BY ConstraintSeq
<1>2. Other("end") \in LogLine
  BY LineType
<1>3. body \in Seq(LogLine) /\ Len(body) = Len(c)
  <2>1. body \in [1 .. Len(c) -> LogLine]
    BY <1>1
  <2> QED
    BY <1>1, <2>1, LenProperties, SeqDef
<1>3a. \A j \in 1 .. Len(c) : body[j] = Express(c[j])
  BY <1>1
<1> HIDE DEF body
<1> DEFINE front == <<first>> \o body
<1>4. /\ front \in Seq(LogLine) /\ Len(front) = Len(c) + 1 /\ front[1] = first
      /\ \A j \in 1 .. Len(c) : front[1 + j] = Express(c[j])
  <2>1. <<first>> \in Seq(LogLine) /\ Len(<<first>>) = 1 /\ <<first>>[1] = first
    OBVIOUS
  <2>2. front \in Seq(LogLine) /\ Len(front) = 1 + Len(c)
    BY <1>1, <1>3, <2>1, ConcatProperties
  <2>3. front[1] = first
    BY <1>1, <1>3, <2>1, ConcatProperties
  <2>4. ASSUME NEW j \in 1 .. Len(c) PROVE front[1 + j] = Express(c[j])
    <3>1. 1 + j \in 1 .. (1 + Len(c)) /\ ~(1 + j <= 1) /\ (1 + j) - 1 = j
      BY <1>1
    <3>2. front[1 + j] = body[j]
      BY <1>1, <1>3, <2>1, <3>1, ConcatProperties
    <3> QED
      BY <1>3a, <3>2
  <2> QED
    BY <1>1, <2>2, <2>3, <2>4
<1>5. Lines(first, c) = front \o <<Other("end")>>
  BY DEF Lines, body
<1> HIDE DEF front
<1>6. Lines(first, c) = Append(front, Other("end"))
  BY <1>2, <1>4, <1>5
<1> QED
  BY <1>1, <1>2, <1>4, <1>6, AppendProperties

\* The three kinds of lines that matter are told apart.
LEMMA Kinds ==
  /\ \A a : Start(a).kind = "start" /\ Start(a).src = a
  /\ \A c : Express(c).kind = "express" /\ Express(c).clause = c
  /\ \A kind : Other(kind).kind = kind
BY DEF Start, Express, Other

\* Printing more leaves what stands in the log.
LEMMA WholeStays ==
  ASSUME NEW lines \in Seq(LogLine), NEW more \in Seq(LogLine), NEW i, NEW a,
         NEW c \in Constraint, Whole(lines, i, a, c)
  PROVE  Whole(lines \o more, i, a, c)
<1>1. /\ Len(lines) \in Nat /\ Len(more) \in Nat /\ Len(lines \o more) = Len(lines) + Len(more)
      /\ \A j \in 1 .. Len(lines) : (lines \o more)[j] = lines[j]
  BY ConcatProperties, LenProperties
<1>2. Len(c) \in Nat
  BY ConstraintSeq
<1> QED
  BY <1>1, <1>2 DEF Whole

\* A constraint just printed stands at the end of the log.
LEMMA WholeAppended ==
  ASSUME NEW lines \in Seq(LogLine), NEW a \in Idx, NEW c \in Constraint
  PROVE  Whole(lines \o Lines(Start(a), c), Len(lines) + 1, a, c)
<1> DEFINE more == Lines(Start(a), c)
<1>1. Start(a) \in LogLine
  BY LineType
<1>2. /\ more \in Seq(LogLine) /\ Len(more) = Len(c) + 2
      /\ more[1] = Start(a)
      /\ \A j \in 1 .. Len(c) : more[1 + j] = Express(c[j])
      /\ more[Len(c) + 2] = Other("end")
  BY <1>1, LinesShape
<1>3. Len(c) \in Nat
  BY ConstraintSeq
<1> HIDE DEF more
<1>4. /\ Len(lines) \in Nat /\ Len(lines \o more) = Len(lines) + Len(c) + 2
      /\ \A j \in 1 .. Len(c) + 2 : (lines \o more)[Len(lines) + j] = more[j]
  <2>1. /\ Len(lines) \in Nat /\ Len(lines \o more) = Len(lines) + Len(more)
        /\ \A j \in 1 .. Len(lines) + Len(more) :
              (lines \o more)[j] = IF j <= Len(lines) THEN lines[j] ELSE more[j - Len(lines)]
    BY <1>2, ConcatProperties, LenProperties
  <2> QED
    BY <1>2, <1>3, <2>1
<1>5. (lines \o more)[Len(lines) + 1] = Start(a)
  BY <1>2, <1>3, <1>4
<1>6. ASSUME NEW j \in 1 .. Len(c)
      PROVE  (lines \o more)[(Len(lines) + 1) + j] = Express(c[j])
  <2>1. 1 + j \in 1 .. Len(c) + 2 /\ (Len(lines) + 1) + j = Len(lines) + (1 + j)
    BY <1>3, <1>4
  <2> QED
    BY <1>2, <1>4, <2>1
<1>7. (lines \o more)[(Len(lines) + 1) + Len(c) + 1] = Other("end")
  <2>1. (Len(lines) + 1) + Len(c) + 1 = Len(lines) + (Len(c) + 2)
    BY <1>3, <1>4
  <2> QED
    BY <1>2, <1>3, <1>4, <2>1
<1> QED
  BY <1>3, <1>4, <1>5, <1>6, <1>7 DEF Whole, more

\* Once a line is read what stands behind it is one nearer.
LEMMA WholeTail ==
  ASSUME NEW lines \in Seq(LogLine), NEW i, NEW a, NEW c \in Constraint,
         Whole(lines, i, a, c), i # 1
  PROVE  Whole(Tail(lines), i - 1, a, c)
<1>1. Len(c) \in Nat /\ Len(lines) \in Nat /\ lines # <<>>
  BY ConstraintSeq, LenProperties DEF Whole
<1>2. /\ Len(Tail(lines)) = Len(lines) - 1
      /\ \A j \in 1 .. Len(lines) - 1 : Tail(lines)[j] = lines[j + 1]
  BY <1>1, HeadTailProperties
<1>3. /\ i \in Nat /\ i - 1 \in Nat \ {0} /\ (i - 1) + Len(c) + 1 <= Len(Tail(lines))
      /\ (i - 1) + 1 = i
      /\ \A j \in 1 .. Len(c) : ((i - 1) + j) + 1 = i + j
      /\ ((i - 1) + Len(c) + 1) + 1 = i + Len(c) + 1
  BY <1>1, <1>2 DEF Whole
<1>4. Tail(lines)[i - 1] = Start(a)
  BY <1>1, <1>2, <1>3 DEF Whole
<1>5. ASSUME NEW j \in 1 .. Len(c) PROVE Tail(lines)[(i - 1) + j] = Express(c[j])
  <2>1. (i - 1) + j \in 1 .. Len(lines) - 1
    BY <1>1, <1>2, <1>3
  <2> QED
    BY <1>2, <1>3, <2>1 DEF Whole
<1>6. Tail(lines)[(i - 1) + Len(c) + 1] = Other("end")
  <2>1. (i - 1) + Len(c) + 1 \in 1 .. Len(lines) - 1
    BY <1>1, <1>2, <1>3
  <2> QED
    BY <1>2, <1>3, <2>1 DEF Whole
<1> QED
  BY <1>3, <1>4, <1>5, <1>6 DEF Whole

\* Once its first line is read a constraint is pending with all its clauses.
LEMMA WholePending ==
  ASSUME NEW lines \in Seq(LogLine), NEW a, NEW c \in Constraint, Whole(lines, 1, a, c)
  PROVE  Pending(Tail(lines), c, 0)
<1>1. Len(c) \in Nat /\ Len(lines) \in Nat /\ lines # <<>>
  BY ConstraintSeq, LenProperties DEF Whole
<1>2. /\ Len(Tail(lines)) = Len(lines) - 1
      /\ \A j \in 1 .. Len(lines) - 1 : Tail(lines)[j] = lines[j + 1]
  BY <1>1, HeadTailProperties
<1> QED
  BY <1>1, <1>2 DEF Whole, Pending

\* The first pending line is the next clause, or the end.
LEMMA PendingHead ==
  ASSUME NEW lines \in Seq(LogLine), NEW c \in Constraint, NEW k, Pending(lines, c, k)
  PROVE  /\ lines # <<>> /\ k \in 0 .. Len(c) /\ Len(c) \in Nat
         /\ k = Len(c) => Head(lines) = Other("end")
         /\ k # Len(c) => /\ Head(lines) = Express(c[k + 1])
                          /\ Pending(Tail(lines), c, k + 1)
<1>1. Len(c) \in Nat /\ Len(lines) \in Nat /\ k \in 0 .. Len(c) /\ lines # <<>>
  BY ConstraintSeq, LenProperties DEF Pending
<1>2. /\ Len(Tail(lines)) = Len(lines) - 1 /\ Head(lines) = lines[1]
      /\ \A j \in 1 .. Len(lines) - 1 : Tail(lines)[j] = lines[j + 1]
  BY <1>1, HeadTailProperties
<1>3. CASE k = Len(c)
  BY <1>1, <1>2, <1>3 DEF Pending
<1>4. CASE k # Len(c)
  <2>1. Head(lines) = Express(c[k + 1])
    BY <1>1, <1>2, <1>4 DEF Pending
  <2>2. ASSUME NEW j \in 1 .. Len(c) - (k + 1)
        PROVE  Tail(lines)[j] = Express(c[(k + 1) + j])
    <3>1. j + 1 \in 1 .. Len(c) - k /\ (k + 1) + j = k + (j + 1) /\ j \in 1 .. Len(lines) - 1
      BY <1>1, <1>4 DEF Pending
    <3> QED
      BY <1>2, <3>1 DEF Pending
  <2>3. Tail(lines)[Len(c) - (k + 1) + 1] = Other("end")
    <3>1. /\ Len(c) - (k + 1) + 1 \in 1 .. Len(lines) - 1
          /\ (Len(c) - (k + 1) + 1) + 1 = Len(c) - k + 1
      BY <1>1, <1>4 DEF Pending
    <3> QED
      BY <1>2, <3>1 DEF Pending
  <2>4. k + 1 \in 0 .. Len(c) /\ Len(c) - (k + 1) + 1 <= Len(Tail(lines))
    BY <1>1, <1>2, <1>4 DEF Pending
  <2> QED
    BY <1>1, <1>4, <2>1, <2>2, <2>3, <2>4 DEF Pending
<1> QED
  BY <1>1, <1>3, <1>4

-----------------------------------------------------------------------------
(***************************************************************************)
(* Logs as a whole: what a start announces, and what is there to be found. *)
(***************************************************************************)

\* Every start is that of a constraint found whole.
StartsIn(lines, found) ==
    \A i \in 1 .. Len(lines) : lines[i].kind = "start" =>
        \E l \in found : Whole(lines, i, l[1], l[2])

\* The same, but for the constraint the child was killed in.
KeptIn(lines, found) ==
    \A i \in 1 .. Len(lines) : lines[i].kind = "start" =>
        /\ lines[i].src \in Idx
        /\ CutAfter(lines, i) \/ \E l \in found : Whole(lines, i, l[1], l[2])

ExpectedIn(lines, l) == \E i \in Nat : Whole(lines, i, l[1], l[2])

\* What is printed keeps the constraints there are.
LEMMA ExpectedStays ==
  ASSUME NEW lines \in Seq(LogLine), NEW more \in Seq(LogLine),
         NEW l \in Idx \X Constraint, ExpectedIn(lines, l)
  PROVE  ExpectedIn(lines \o more, l)
BY WholeStays DEF ExpectedIn

\* A start is an old one, still whole, or one just printed.
LEMMA MoreStarts ==
  ASSUME NEW lines \in Seq(LogLine), NEW more \in Seq(LogLine),
         NEW found \in SUBSET (Idx \X Constraint), StartsIn(lines, found),
         NEW i \in 1 .. Len(lines \o more), (lines \o more)[i].kind = "start"
  PROVE  \/ \E l \in found : Whole(lines \o more, i, l[1], l[2])
         \/ \E j \in 1 .. Len(more) : i = Len(lines) + j /\ more[j].kind = "start"
<1>1. /\ Len(lines) \in Nat /\ Len(more) \in Nat /\ Len(lines \o more) = Len(lines) + Len(more)
      /\ \A j \in 1 .. Len(lines) + Len(more) :
            (lines \o more)[j] = IF j <= Len(lines) THEN lines[j] ELSE more[j - Len(lines)]
  BY ConcatProperties, LenProperties
<1>2. CASE i <= Len(lines)
  <2>1. i \in 1 .. Len(lines) /\ lines[i].kind = "start"
    BY <1>1, <1>2
  <2>2. PICK l \in found : Whole(lines, i, l[1], l[2])
    BY <2>1 DEF StartsIn
  <2>3. Whole(lines \o more, i, l[1], l[2])
    BY <2>2, WholeStays
  <2> QED
    BY <2>3
<1>3. CASE ~(i <= Len(lines))
  <2>1. /\ i - Len(lines) \in 1 .. Len(more) /\ i = Len(lines) + (i - Len(lines))
        /\ more[i - Len(lines)].kind = "start"
    BY <1>1, <1>3
  <2> QED
    BY <2>1
<1> QED
  BY <1>2, <1>3

\* A start among the lines of a constraint is the first of them.
LEMMA LinesStart ==
  ASSUME NEW c \in Constraint, NEW first \in LogLine, NEW j \in 1 .. Len(Lines(first, c))
  PROVE  /\ Lines(first, c)[j].kind = "start" => j = 1 /\ first.kind = "start"
         /\ j # 1 /\ j # Len(c) + 2 => Lines(first, c)[j].kind = "express"
<1>1. /\ Len(Lines(first, c)) = Len(c) + 2 /\ Lines(first, c)[1] = first
      /\ \A k \in 1 .. Len(c) : Lines(first, c)[1 + k] = Express(c[k])
      /\ Lines(first, c)[Len(c) + 2] = Other("end")
  BY LinesShape
<1>2. Len(c) \in Nat
  BY ConstraintSeq
<1>3. CASE j = 1
  BY <1>1, <1>2, <1>3
<1>4. CASE j = Len(c) + 2
  BY <1>1, <1>2, <1>4, Kinds
<1>5. CASE j # 1 /\ j # Len(c) + 2
  <2>1. j - 1 \in 1 .. Len(c) /\ 1 + (j - 1) = j
    BY <1>1, <1>2, <1>5
  <2>2. Lines(first, c)[1 + (j - 1)] = Express(c[j - 1])
    BY <1>1, <2>1
  <2>3. Lines(first, c)[j].kind = "express"
    BY <2>1, <2>2, Kinds
  <2> QED
    BY <1>5, <2>3
<1> QED
  BY <1>3, <1>4, <1>5

\* Printing lines without a start changes nothing of what there is.
LEMMA NoiseKeeps ==
  ASSUME NEW lines \in Seq(LogLine), NEW more \in Seq(LogLine),
         NEW found \in SUBSET (Idx \X Constraint), StartsIn(lines, found),
         \A j \in 1 .. Len(more) : more[j].kind # "start"
  PROVE  StartsIn(lines \o more, found)
BY MoreStarts DEF StartsIn

\* Printing a constraint whole adds it to what is found.
LEMMA LogKeeps ==
  ASSUME NEW lines \in Seq(LogLine), NEW a \in Idx, NEW c \in Constraint,
         NEW found \in SUBSET (Idx \X Constraint), StartsIn(lines, found)
  PROVE  /\ StartsIn(lines \o Lines(Start(a), c), found \cup {<<a, c>>})
         /\ ExpectedIn(lines \o Lines(Start(a), c), <<a, c>>)
<1> DEFINE more == Lines(Start(a), c)
<1>1. Start(a) \in LogLine /\ more \in Seq(LogLine)
  BY LineType, LinesShape
<1>2. Whole(lines \o more, Len(lines) + 1, a, c)
  BY WholeAppended
<1>3. ASSUME NEW j \in 1 .. Len(more), more[j].kind = "start" PROVE j = 1
  BY <1>1, <1>3, LinesStart
<1> HIDE DEF more
<1>4. ASSUME NEW i \in 1 .. Len(lines \o more), (lines \o more)[i].kind = "start"
      PROVE  \E l \in found \cup {<<a, c>>} : Whole(lines \o more, i, l[1], l[2])
  <2>1. CASE \E l \in found : Whole(lines \o more, i, l[1], l[2])
    BY <2>1
  <2>2. CASE \E j \in 1 .. Len(more) : i = Len(lines) + j /\ more[j].kind = "start"
    <3>1. i = Len(lines) + 1
      BY <1>3, <2>2
    <3>2. <<a, c>>[1] = a /\ <<a, c>>[2] = c
      OBVIOUS
    <3> DEFINE l == <<a, c>>
    <3>3. l \in found \cup {<<a, c>>} /\ Whole(lines \o more, i, l[1], l[2])
      BY <1>2, <3>1, <3>2
    <3> HIDE DEF l
    <3> QED
      BY <3>3
  <2> QED
    BY <1>1, <1>4, <2>1, <2>2, MoreStarts
<1>5. Len(lines) + 1 \in Nat
  BY LenProperties
<1>6. ExpectedIn(lines \o more, <<a, c>>)
  BY <1>2, <1>5 DEF ExpectedIn
<1> QED
  BY <1>4, <1>6 DEF StartsIn, more

\* A child that ends, even in the middle of a constraint, leaves all others whole.
LEMMA CutKeeps ==
  ASSUME NEW lines \in Seq(LogLine), NEW found \in SUBSET (Idx \X Constraint),
         StartsIn(lines, found)
  PROVE  /\ KeptIn(lines, found)
         /\ \A a \in Idx, c \in Constraint : \A n \in 1 .. Len(c) + 1 :
               KeptIn(lines \o SubSeq(Lines(Start(a), c), 1, n), found)
<1>1. ASSUME NEW i, NEW whole, \E l \in found : Whole(whole, i, l[1], l[2])
      PROVE  whole[i].src \in Idx
  BY <1>1, Kinds DEF Whole
<1>2. KeptIn(lines, found)
  BY <1>1 DEF StartsIn, KeptIn
<1>3. ASSUME NEW a \in Idx, NEW c \in Constraint, NEW n \in 1 .. Len(c) + 1
      PROVE  KeptIn(lines \o SubSeq(Lines(Start(a), c), 1, n), found)
  <2> DEFINE all == Lines(Start(a), c)
             more == SubSeq(all, 1, n)
             log == lines \o more
  <2>1. /\ Start(a) \in LogLine /\ all \in Seq(LogLine) /\ Len(all) = Len(c) + 2
        /\ all[1] = Start(a) /\ Len(c) \in Nat
    BY LineType, LinesShape, ConstraintSeq
  <2>2. ASSUME NEW j \in 1 .. n
        PROVE  /\ all[j].kind = "start" => j = 1
               /\ j # 1 => all[j].kind = "express"
    <3>1. j \in 1 .. Len(all) /\ j # Len(c) + 2
      BY <2>1
    <3> QED
      BY <2>1, <3>1, LinesStart
  <2> HIDE DEF all
  <2>3. more \in Seq(LogLine) /\ Len(more) = n /\ \A j \in 1 .. n : more[j] = all[j]
    <3>1. 1 \in 1 .. Len(all) /\ n \in 1 .. Len(all)
      BY <2>1
    <3>2. more \in Seq(LogLine)
      BY <2>1, <3>1, SubSeqProperties
    <3>3. Len(more) = n /\ \A j \in 1 .. n : more[j] = all[j]
      BY <2>1, <3>1, SubSeqProperties
    <3> QED
      BY <3>2, <3>3
  <2> HIDE DEF more
  <2>4. /\ Len(lines) \in Nat /\ Len(log) = Len(lines) + n
        /\ \A j \in 1 .. n : log[Len(lines) + j] = more[j]
    <3>1. /\ Len(lines) \in Nat /\ Len(log) = Len(lines) + Len(more)
          /\ \A j \in 1 .. Len(lines) + Len(more) :
                log[j] = IF j <= Len(lines) THEN lines[j] ELSE more[j - Len(lines)]
      BY <2>3, ConcatProperties, LenProperties
    <3> QED
      BY <2>3, <3>1
  <2>5. ASSUME NEW i \in 1 .. Len(log), log[i].kind = "start"
        PROVE  /\ log[i].src \in Idx
               /\ CutAfter(log, i) \/ \E l \in found : Whole(log, i, l[1], l[2])
    <3>1. CASE \E l \in found : Whole(log, i, l[1], l[2])
      BY <1>1, <3>1
    <3>2. CASE \E j \in 1 .. Len(more) : i = Len(lines) + j /\ more[j].kind = "start"
      <4>1. i = Len(lines) + 1 /\ log[i] = Start(a)
        BY <2>1, <2>2, <2>3, <2>4, <3>2
      <4>2. ASSUME NEW j \in 1 .. Len(log), j > i PROVE log[j].kind = "express"
        <5>1. j - Len(lines) \in 1 .. n /\ j - Len(lines) # 1 /\ Len(lines) + (j - Len(lines)) = j
          BY <2>4, <4>1, <4>2
        <5> QED
          BY <2>2, <2>3, <2>4, <5>1
      <4>3. log[i].src \in Idx
        BY <4>1, Kinds
      <4> QED
        BY <4>2, <4>3 DEF CutAfter
    <3> QED
      BY <2>3, <2>5, <3>1, <3>2, MoreStarts
  <2> QED
    BY <2>5 DEF KeptIn, more, all
<1> QED
  BY <1>2, <1>3

\* Reading a line that is no start loses no constraint; reading a start makes pending
\* the one it announces.
LEMMA ReadLine ==
  ASSUME NEW lines \in Seq(LogLine), lines # <<>>,
         NEW found \in SUBSET (Idx \X Constraint), KeptIn(lines, found)
  PROVE  /\ KeptIn(Tail(lines), found) /\ Tail(lines) \in Seq(LogLine)
         /\ \A l \in Idx \X Constraint : ExpectedIn(lines, l) =>
               \/ ExpectedIn(Tail(lines), l)
               \/ Head(lines) = Start(l[1]) /\ Pending(Tail(lines), l[2], 0)
         /\ Head(lines).kind = "start" =>
               /\ Head(lines).src \in Idx
               /\ \/ CutAfter(Tail(lines), 0)
                  \/ \E l \in found : Head(lines) = Start(l[1]) /\ Pending(Tail(lines), l[2], 0)
<1> DEFINE rest == Tail(lines)
<1>1. /\ Len(lines) \in Nat /\ Len(lines) # 0 /\ rest \in Seq(LogLine)
      /\ Len(rest) = Len(lines) - 1 /\ Head(lines) = lines[1]
      /\ \A j \in 1 .. Len(lines) - 1 : rest[j] = lines[j + 1]
  BY HeadTailProperties, LenProperties
<1>2. ASSUME NEW l \in Idx \X Constraint, NEW i \in Nat, Whole(lines, i, l[1], l[2])
      PROVE  IF i = 1 THEN Head(lines) = Start(l[1]) /\ Pending(rest, l[2], 0)
             ELSE Whole(rest, i - 1, l[1], l[2]) /\ i - 1 \in Nat
  <2>1. l[2] \in Constraint /\ i \in Nat \ {0}
    BY <1>2 DEF Whole
  <2>2. CASE i = 1
    <3>1. Head(lines) = Start(l[1])
      BY <1>1, <1>2, <2>2 DEF Whole
    <3> QED
      BY <1>2, <2>1, <2>2, <3>1, WholePending
  <2>3. CASE i # 1
    BY <1>2, <2>1, <2>3, WholeTail
  <2> QED
    BY <2>2, <2>3
<1>3. ASSUME NEW i \in 1 .. Len(lines), CutAfter(lines, i)
      PROVE  CutAfter(rest, i - 1)
  <2>1. ASSUME NEW j \in 1 .. Len(rest), j > i - 1 PROVE rest[j].kind = "express"
    <3>1. j + 1 \in 1 .. Len(lines) /\ j + 1 > i /\ j \in 1 .. Len(lines) - 1
      BY <1>1, <2>1
    <3> QED
      BY <1>1, <1>3, <3>1 DEF CutAfter
  <2> QED
    BY <2>1 DEF CutAfter
<1> HIDE DEF rest
<1>4. KeptIn(rest, found)
  <2>1. ASSUME NEW i \in 1 .. Len(rest), rest[i].kind = "start"
        PROVE  /\ rest[i].src \in Idx
               /\ CutAfter(rest, i) \/ \E l \in found : Whole(rest, i, l[1], l[2])
    <3>1. i + 1 \in 1 .. Len(lines) /\ lines[i + 1] = rest[i] /\ (i + 1) - 1 = i /\ i + 1 # 1
      BY <1>1
    <3>2. CutAfter(lines, i + 1) \/ \E l \in found : Whole(lines, i + 1, l[1], l[2])
      BY <2>1, <3>1 DEF KeptIn
    <3>3. lines[i + 1].src \in Idx
      BY <2>1, <3>1 DEF KeptIn
    <3>4. CASE CutAfter(lines, i + 1)
      BY <1>3, <3>1, <3>3, <3>4
    <3>5. CASE \E l \in found : Whole(lines, i + 1, l[1], l[2])
      BY <1>2, <3>1, <3>3, <3>5
    <3> QED
      BY <3>2, <3>4, <3>5
  <2> QED
    BY <2>1 DEF KeptIn
<1>5. ASSUME NEW l \in Idx \X Constraint, ExpectedIn(lines, l)
      PROVE  \/ ExpectedIn(rest, l)
             \/ Head(lines) = Start(l[1]) /\ Pending(rest, l[2], 0)
  BY <1>2, <1>5 DEF ExpectedIn
<1>6. ASSUME Head(lines).kind = "start"
      PROVE  /\ Head(lines).src \in Idx
             /\ \/ CutAfter(rest, 0)
                \/ \E l \in found : Head(lines) = Start(l[1]) /\ Pending(rest, l[2], 0)
  <2>1. /\ lines[1].src \in Idx /\ 1 \in 1 .. Len(lines)
        /\ CutAfter(lines, 1) \/ \E l \in found : Whole(lines, 1, l[1], l[2])
    BY <1>1, <1>6 DEF KeptIn
  <2>2. CASE CutAfter(lines, 1)
    BY <1>1, <1>3, <2>1, <2>2
  <2>3. CASE \E l \in found : Whole(lines, 1, l[1], l[2])
    <3>1. PICK l \in found : Whole(lines, 1, l[1], l[2])
      BY <2>3
    <3>2. Head(lines) = Start(l[1]) /\ Pending(rest, l[2], 0)
      BY <1>2, <3>1
    <3> QED
      BY <1>1, <2>1, <3>2
  <2> QED
    BY <2>1, <2>2, <2>3
<1> QED
  BY <1>1, <1>4, <1>5, <1>6 DEF rest

-----------------------------------------------------------------------------
(***************************************************************************)
(* The inductive invariant of cracking and parsing.                        *)
(***************************************************************************)

\* Where the pipeline is, and what that says of its variables.
Shape ==
    /\ child = "running" <=> pc \in {"cracking", "solving"}
    /\ pc # "next" => cur_input \in Seed
    /\ pc \in {"next", "cracking", "solving", "list"} => constraint_dict = NoConstraints
    /\ pc # "parse" => ~record_flag /\ express_list = <<>>
    /\ pc = "solving" => ~env.cracking
    /\ express_list \in Seq(Clauses) /\ IsFiniteSet(output_path)

\* The child can crack the addresses it is told only.
Aimed ==
    /\ Cracked \subseteq crack_addr
    /\ logged \in SUBSET (crack_addr \X Constraint)

\* The clauses of l but the last ones, which come next, are parsed.
Doing(l) ==
    /\ record_flag /\ src_bb = l[1]
    /\ \E k \in Nat : /\ Pending(constraint_info, l[2], k)
                      /\ Len(express_list) = k
                      /\ \A j \in 1 .. k : express_list[j] = l[2][j]

Found(l) == \E i \in DOMAIN constraint_dict[l[1]] : constraint_dict[l[1]][i] = l[2]

\* What the child prints, and what the parser makes of it.
Logging ==
    pc = "cracking" => /\ StartsIn(constraint_info, logged)
                       /\ \A l \in logged : ExpectedIn(constraint_info, l)

Parsing ==
    pc = "parse" =>
        /\ KeptIn(constraint_info, logged)
        /\ \A l \in logged : ExpectedIn(constraint_info, l) \/ Doing(l) \/ Found(l)
        /\ record_flag => CutAfter(constraint_info, 0) \/ \E l \in logged : Doing(l)
        /\ ~record_flag => express_list = <<>>

\* Nothing is found that was not printed.
DictLogged ==
    \A a \in Idx : \A i \in DOMAIN constraint_dict[a] : <<a, constraint_dict[a][i]>> \in logged

\* A file made for the constraint differs from the seed at the constraint's offsets only.
MutantOf(bytes) ==
    /\ DOMAIN bytes = DOMAIN seed_bytes
    /\ \A i \in DOMAIN bytes : i - 1 \notin Offsets => bytes[i] = seed_bytes[i]

Solved == \E t \in sample_out : Satisfies(t.bytes)

\* The files of sample_out while a constraint is worked on: made for it, and none at all
\* or one that solves it.
Sampled ==
    /\ seed_bytes = Content[cur_input] /\ constraint \in Constraint
    /\ \A t \in sample_out : MutantOf(t.bytes)
    /\ sample_out = {} \/ Solved

Targeting ==
    /\ pc \in {"target", "sync"} => Sampled
    /\ pc = "target" => /\ step = "solve" => sample_out = {}
                        /\ step \in {"sample", "save"} => Solved
                        /\ results \in Seq(Polytope)
    /\ pc = "sync" => testcases = sample_out

\* What a solving run has left is its seed's.
Solving ==
    /\ pc \in {"solving", "list"} => \A o \in output_path : o.seed = cur_input
    /\ pc = "next" => \A o \in testcases : o.seed = cur_input

Inv == /\ CrackTypeOK /\ Shape /\ Aimed
       /\ Logging /\ Parsing /\ DictLogged
       /\ Targeting /\ Solving

\* What the child prints concerns addresses and constraints.
LEMMA LogTypes ==
  ASSUME Inv
  PROVE  /\ constraint_info \in Seq(LogLine)
         /\ crack_addr \subseteq Idx /\ logged \in SUBSET (Idx \X Constraint)
         /\ logged \in SUBSET (crack_addr \X Constraint)
BY DEF Inv, CrackTypeOK, ConcolicTypeOK, Aimed

-----------------------------------------------------------------------------
(***************************************************************************)
(* The child.                                                              *)
(***************************************************************************)

\* A step of the child writes its log and its solutions, for the addresses it was told.
LEMMA ChildEffect ==
  ASSUME Inv, ChildStep
  PROVE  /\ child = "running" /\ child' \in {"running", "ended"}
         /\ UNCHANGED <<crackmap, cur_input, env>>
         /\ constraint_info' \in Seq(LogLine)
         /\ logged' \in SUBSET (crack_addr \X Constraint)
         /\ output_path' \in SUBSET [seed : Seed, no : Nat] /\ IsFiniteSet(output_path')
         /\ \A o \in output_path' : o \in output_path \/ o.seed = cur_input
         /\ pc = "cracking" => /\ child' = "running" => StartsIn(constraint_info', logged')
                               /\ KeptIn(constraint_info', logged')
                               /\ \A l \in logged' : ExpectedIn(constraint_info', l)
<1>1. /\ constraint_info \in Seq(LogLine)
      /\ crack_addr \subseteq Idx /\ logged \in SUBSET (Idx \X Constraint)
      /\ logged \in SUBSET (crack_addr \X Constraint)
      /\ output_path \in SUBSET [seed : Seed, no : Nat] /\ IsFiniteSet(output_path)
      /\ Cracked \subseteq crack_addr
      /\ child = "running" => cur_input \in Seed
      /\ pc = "cracking" => /\ StartsIn(constraint_info, logged)
                            /\ \A l \in logged : ExpectedIn(constraint_info, l)
  BY LogTypes DEF Inv, CrackTypeOK, ConcolicTypeOK, Shape, Aimed, Logging
<1>2. CASE ChildLogs
  <2>1. PICK a \in Cracked, c \in Constraint :
           \/ /\ constraint_info' = constraint_info \o Lines(Start(a), c)
              /\ logged' = logged \cup {<<a, c>>}
           \/ /\ constraint_info' = constraint_info \o Lines(Other("other"), c)
              /\ UNCHANGED logged
    BY <1>2 DEF ChildLogs
  <2>2. child = "running" /\ UNCHANGED <<crackmap, cur_input, output_path, env, child>>
    BY <1>2 DEF ChildLogs
  <2>3. a \in Idx /\ a \in crack_addr
    BY <1>1
  <2>4. CASE /\ constraint_info' = constraint_info \o Lines(Start(a), c)
             /\ logged' = logged \cup {<<a, c>>}
    <3>1. Lines(Start(a), c) \in Seq(LogLine)
      BY <2>3, LineType, LinesShape
    <3>2. constraint_info' \in Seq(LogLine)
      BY <1>1, <2>4, <3>1, ConcatProperties
    <3>3. logged' \in SUBSET (crack_addr \X Constraint) /\ logged' \in SUBSET (Idx \X Constraint)
      BY <1>1, <2>3, <2>4
    <3>4. ASSUME pc = "cracking"
          PROVE  /\ StartsIn(constraint_info', logged')
                 /\ \A l \in logged' : ExpectedIn(constraint_info', l)
      <4>1. StartsIn(constraint_info', logged') /\ ExpectedIn(constraint_info', <<a, c>>)
        BY <1>1, <2>3, <2>4, <3>4, LogKeeps
      <4>2. \A l \in logged : ExpectedIn(constraint_info', l)
        BY <1>1, <2>4, <3>1, <3>4, ExpectedStays
      <4> QED
        BY <2>4, <4>1, <4>2
    <3>5. pc = "cracking" => KeptIn(constraint_info', logged')
      BY <3>2, <3>3, <3>4, CutKeeps
    <3> QED
      BY <1>1, <2>2, <3>2, <3>3, <3>4, <3>5
  <2>5. CASE /\ constraint_info' = constraint_info \o Lines(Other("other"), c)
             /\ UNCHANGED logged
    <3>1. Other("other") \in LogLine /\ Lines(Other("other"), c) \in Seq(LogLine)
      BY LineType, LinesShape
    <3>2. constraint_info' \in Seq(LogLine)
      BY <1>1, <2>5, <3>1, ConcatProperties
    <3>3. \A j \in 1 .. Len(Lines(Other("other"), c)) :
              Lines(Other("other"), c)[j].kind # "start"
      BY <3>1, LinesStart, Kinds
    <3>4. ASSUME pc = "cracking"
          PROVE  /\ StartsIn(constraint_info', logged')
                 /\ \A l \in logged' : ExpectedIn(constraint_info', l)
      BY <1>1, <2>5, <3>1, <3>3, <3>4, NoiseKeeps, ExpectedStays
    <3>5. pc = "cracking" => KeptIn(constraint_info', logged')
      BY <1>1, <2>5, <3>2, <3>4, CutKeeps
    <3> QED
      BY <1>1, <2>2, <2>5, <3>2, <3>4, <3>5
  <2> QED
    BY <2>1, <2>4, <2>5
<1>3. CASE ProgramPrints
  <2>1. /\ child = "running" /\ UNCHANGED <<crackmap, cur_input, output_path, env, child, logged>>
        /\ \E line \in {Other("other"), Express(NoClause)} :
               constraint_info' = Append(constraint_info, line)
    BY <1>3 DEF ProgramPrints
  <2>2. PICK line \in {Other("other"), Express(NoClause)} :
            constraint_info' = Append(constraint_info, line)
    BY <2>1
  <2>3. line \in LogLine /\ line.kind # "start"
    <3>1. NoClause \in Clauses
      BY DEF Clauses
    <3> QED
      BY <2>2, <3>1, LineType, Kinds
  <2>4. /\ <<line>> \in Seq(LogLine) /\ constraint_info' = constraint_info \o <<line>>
        /\ \A j \in 1 .. Len(<<line>>) : <<line>>[j].kind # "start"
    BY <1>1, <2>2, <2>3
  <2>5. constraint_info' \in Seq(LogLine)
    BY <1>1, <2>2, <2>3
  <2>6. ASSUME pc = "cracking"
        PROVE  /\ StartsIn(constraint_info', logged')
               /\ \A l \in logged' : ExpectedIn(constraint_info', l)
    BY <1>1, <2>1, <2>4, <2>6, NoiseKeeps, ExpectedStays
  <2>7. pc = "cracking" => KeptIn(constraint_info', logged')
    BY <1>1, <2>1, <2>5, <2>6, CutKeeps
  <2> QED
    BY <1>1, <2>1, <2>5, <2>6, <2>7
<1>4. CASE ChildSolves
  <2>1. /\ child = "running"
        /\ output_path' = output_path \cup {[seed |-> cur_input, no |-> Cardinality(output_path)]}
        /\ UNCHANGED <<crackmap, cur_input, env, child, constraint_info, logged>>
    BY <1>4 DEF ChildSolves
  <2>2. Cardinality(output_path) \in Nat
    BY <1>1, FS_CardinalityType
  <2>3. output_path' \in SUBSET [seed : Seed, no : Nat] /\ IsFiniteSet(output_path')
    <3> DEFINE new == [seed |-> cur_input, no |-> Cardinality(output_path)]
    <3>1. new \in [seed : Seed, no : Nat]
      BY <1>1, <2>1, <2>2
    <3> HIDE DEF new
    <3>2. output_path' = output_path \cup {new}
      BY <2>1 DEF new
    <3>3. IsFiniteSet(output_path \cup {new})
      BY <1>1, FS_AddElement
    <3> QED
      BY <1>1, <3>1, <3>2, <3>3
  <2>4. \A o \in output_path' : o \in output_path \/ o.seed = cur_input
    BY <2>1
  <2>5. pc = "cracking" => KeptIn(constraint_info, logged)
    BY <1>1, CutKeeps
  <2> QED
    BY <1>1, <2>1, <2>3, <2>4, <2>5
<1>5. CASE ChildEnds
  <2>1. /\ child = "running" /\ child' = "ended"
        /\ UNCHANGED <<crackmap, cur_input, output_path, env, logged>>
    BY <1>5 DEF ChildEnds
  <2>2. CASE UNCHANGED constraint_info
    <3>1. pc = "cracking" => KeptIn(constraint_info, logged)
      BY <1>1, CutKeeps
    <3> QED
      BY <1>1, <2>1, <2>2, <3>1
  <2>3. CASE \E a \in Cracked, c \in Constraint : \E n \in 1 .. Len(c) + 1 :
                 constraint_info' = constraint_info \o SubSeq(Lines(Start(a), c), 1, n)
    <3>1. PICK a \in Cracked, c \in Constraint : \E n \in 1 .. Len(c) + 1 :
                 constraint_info' = constraint_info \o SubSeq(Lines(Start(a), c), 1, n)
      BY <2>3
    <3>2. PICK n \in 1 .. Len(c) + 1 :
                 constraint_info' = constraint_info \o SubSeq(Lines(Start(a), c), 1, n)
      BY <3>1
    <3>3. a \in Idx
      BY <1>1
    <3>4. SubSeq(Lines(Start(a), c), 1, n) \in Seq(LogLine)
      <4>1. Lines(Start(a), c) \in Seq(LogLine) /\ Len(Lines(Start(a), c)) = Len(c) + 2
        BY <3>3, LineType, LinesShape
      <4>2. Len(c) \in Nat
        BY ConstraintSeq
      <4>3. 1 \in 1 .. Len(Lines(Start(a), c)) /\ n \in 1 .. Len(Lines(Start(a), c))
        BY <4>1, <4>2
      <4> QED
        BY <4>1, <4>3, SubSeqProperties
    <3>5. constraint_info' \in Seq(LogLine)
      BY <1>1, <3>2, <3>4, ConcatProperties
    <3>6. ASSUME pc = "cracking"
          PROVE  /\ KeptIn(constraint_info', logged')
                 /\ \A l \in logged' : ExpectedIn(constraint_info', l)
      <4>1. KeptIn(constraint_info', logged')
        BY <1>1, <2>1, <3>2, <3>3, <3>6, CutKeeps
      <4>2. \A l \in logged' : ExpectedIn(constraint_info', l)
        BY <1>1, <2>1, <3>2, <3>4, <3>6, ExpectedStays
      <4> QED
        BY <4>1, <4>2
    <3> QED
      BY <1>1, <2>1, <3>5, <3>6
  <2> QED
    BY <1>5, <2>2, <2>3 DEF ChildEnds
<1> QED
  BY <1>2, <1>3, <1>4, <1>5 DEF ChildStep

-----------------------------------------------------------------------------
(***************************************************************************)
(* The parser.                                                             *)
(***************************************************************************)

\* The clauses of a constraint, all of them in order, are the constraint.
LEMMA AllClauses ==
  ASSUME NEW exprs \in Seq(Clauses), NEW c \in Constraint, Len(exprs) = Len(c),
         \A j \in 1 .. Len(c) : exprs[j] = c[j]
  PROVE  exprs = c
<1>1. exprs \in [1 .. Len(c) -> Clauses]
  BY LenProperties
<1>2. c \in Seq([offset : Int, values : SUBSET Int])
  BY ConcolicAssumption
<1>3. c \in [1 .. Len(c) -> [offset : Int, values : SUBSET Int]]
  BY <1>2, LenProperties
<1> QED
  BY <1>1, <1>3

\* Between a start and its end nothing but its clauses comes.
LEMMA RecordingHead ==
  ASSUME Inv, pc = "parse", constraint_info # <<>>, record_flag
  PROVE  /\ Head(constraint_info).kind \in {"express", "end"}
         /\ Head(constraint_info).kind = "end" => \E l \in logged : Doing(l)
<1>1. /\ constraint_info \in Seq(LogLine) /\ logged \in SUBSET (Idx \X Constraint)
      /\ CutAfter(constraint_info, 0) \/ \E l \in logged : Doing(l)
  BY LogTypes DEF Inv, Parsing
<1>2. CASE CutAfter(constraint_info, 0)
  <2>1. Head(constraint_info) = constraint_info[1] /\ 1 \in 1 .. Len(constraint_info) /\ 1 > 0
    BY <1>1, HeadTailProperties, LenProperties
  <2>2. Head(constraint_info).kind = "express"
    BY <1>2, <2>1 DEF CutAfter
  <2> QED
    BY <2>2
<1>3. CASE \E l \in logged : Doing(l)
  <2>1. PICK l \in logged : Doing(l)
    BY <1>3
  <2>2. PICK k \in Nat : Pending(constraint_info, l[2], k)
    BY <2>1 DEF Doing
  <2>3. l[2] \in Constraint
    BY <1>1
  <2>4. \/ Head(constraint_info) = Other("end")
        \/ Head(constraint_info) = Express(l[2][k + 1])
    BY <1>1, <2>2, <2>3, PendingHead
  <2> QED
    BY <1>3, <2>4, Kinds
<1> QED
  BY <1>1, <1>2, <1>3

\* Reading a clause, or the end, of the constraint in progress.
LEMMA DoingHead ==
  ASSUME Inv, pc = "parse", NEW l \in logged, Doing(l)
  PROVE  \/ /\ Head(constraint_info).kind = "end" /\ express_list = l[2] /\ src_bb = l[1]
         \/ /\ Head(constraint_info).kind = "express" /\ src_bb = l[1]
            /\ \E k \in Nat :
                   /\ Pending(Tail(constraint_info), l[2], k)
                   /\ Len(Append(express_list, Head(constraint_info).clause)) = k
                   /\ \A j \in 1 .. k :
                         Append(express_list, Head(constraint_info).clause)[j] = l[2][j]
<1>1. /\ constraint_info \in Seq(LogLine) /\ logged \in SUBSET (Idx \X Constraint)
      /\ express_list \in Seq(Clauses) /\ l[2] \in Constraint
  BY LogTypes DEF Inv, Shape
<1>2. PICK k \in Nat : /\ Pending(constraint_info, l[2], k) /\ src_bb = l[1]
                       /\ Len(express_list) = k
                       /\ \A j \in 1 .. k : express_list[j] = l[2][j]
  BY DEF Doing
<1>3. CASE k = Len(l[2])
  <2>1. Head(constraint_info).kind = "end"
    BY <1>1, <1>2, <1>3, PendingHead, Kinds
  <2>2. express_list = l[2]
    BY <1>1, <1>2, <1>3, AllClauses
  <2> QED
    BY <1>2, <2>1, <2>2
<1>4. CASE k # Len(l[2])
  <2> DEFINE more == Append(express_list, Head(constraint_info).clause)
  <2>1. /\ Head(constraint_info) = Express(l[2][k + 1])
        /\ Pending(Tail(constraint_info), l[2], k + 1)
    BY <1>1, <1>2, <1>4, PendingHead
  <2>2. Head(constraint_info).kind = "express" /\ Head(constraint_info).clause = l[2][k + 1]
    BY <2>1, Kinds
  <2>3. /\ Len(more) = k + 1 /\ more[k + 1] = l[2][k + 1]
        /\ \A j \in 1 .. k : more[j] = express_list[j]
    BY <1>1, <1>2, <2>2
  <2> HIDE DEF more
  <2>4. \A j \in 1 .. (k + 1) : more[j] = l[2][j]
    BY <1>2, <2>3
  <2>5. k + 1 \in Nat
    BY <1>2
  <2> QED
    BY <1>2, <2>1, <2>2, <2>3, <2>4, <2>5 DEF more
<1> QED
  BY <1>3, <1>4

\* One line parsed: no constraint printed whole is lost, none is made up.
LEMMA ParseStep ==
  ASSUME Inv, DumpConstraint
  PROVE  /\ Parsing' /\ DictLogged'
         /\ constraint_info' \in Seq(LogLine) /\ src_bb' \in Idx /\ record_flag' \in BOOLEAN
         /\ express_list' \in Seq(Clauses) /\ constraint_dict' \in [Idx -> Seq(Constraint)]
<1> DEFINE line == Head(constraint_info)
<1>1. /\ pc = "parse" /\ constraint_info # <<>> /\ constraint_info' = Tail(constraint_info)
      /\ ParseStart(line) \/ ParseExpress(line) \/ ParseEnd(line) \/ ParseOther(line)
      /\ UNCHANGED <<logged, pc>>
  BY DEF DumpConstraint, NoLines
<1>2. /\ constraint_info \in Seq(LogLine) /\ logged \in SUBSET (Idx \X Constraint)
      /\ express_list \in Seq(Clauses) /\ constraint_dict \in [Idx -> Seq(Constraint)]
      /\ src_bb \in Idx /\ record_flag \in BOOLEAN
      /\ KeptIn(constraint_info, logged) /\ DictLogged
      /\ \A l \in logged : ExpectedIn(constraint_info, l) \/ Doing(l) \/ Found(l)
      /\ record_flag => CutAfter(constraint_info, 0) \/ \E l \in logged : Doing(l)
      /\ ~record_flag => express_list = <<>>
  BY <1>1, LogTypes DEF Inv, Parsing, Shape, CrackTypeOK
<1>3. /\ KeptIn(constraint_info', logged') /\ constraint_info' \in Seq(LogLine)
      /\ \A l \in logged : ExpectedIn(constraint_info, l) =>
            \/ ExpectedIn(constraint_info', l)
            \/ line = Start(l[1]) /\ Pending(constraint_info', l[2], 0)
      /\ line.kind = "start" =>
            /\ line.src \in Idx
            /\ \/ CutAfter(constraint_info', 0)
               \/ \E l \in logged : line = Start(l[1]) /\ Pending(constraint_info', l[2], 0)
  BY <1>1, <1>2, ReadLine
<1>4. record_flag => /\ line.kind \in {"express", "end"}
                     /\ line.kind = "end" => \E l \in logged : Doing(l)
  BY <1>1, RecordingHead
<1>5. /\ line \in LogLine /\ line.clause \in Clauses
  <2>1. line \in LogLine
    BY <1>1, <1>2, HeadTailProperties
  <2> QED
    BY <2>1 DEF LogLine, Clauses, RealClauses, ClausesOf
<1>6. ASSUME NEW l \in logged, Doing(l), line.kind # "end"
      PROVE  /\ line.kind = "express" /\ src_bb = l[1]
             /\ \E k \in Nat :
                   /\ Pending(constraint_info', l[2], k)
                   /\ Len(Append(express_list, line.clause)) = k
                   /\ \A j \in 1 .. k : Append(express_list, line.clause)[j] = l[2][j]
  BY <1>1, <1>6, DoingHead
<1>7. ASSUME NEW l \in logged, Doing(l), line.kind = "end"
      PROVE  express_list = l[2] /\ src_bb = l[1]
  BY <1>1, <1>7, DoingHead
<1>8. ASSUME NEW l \in logged, Doing(l) PROVE record_flag
  BY <1>8 DEF Doing
<1>9. CASE ParseStart(line)
  <2>1. /\ line.kind = "start" /\ src_bb' = line.src /\ record_flag' = TRUE
        /\ UNCHANGED <<express_list, constraint_dict>>
    BY <1>9 DEF ParseStart
  <2>2. ~record_flag /\ express_list = <<>>
    BY <1>2, <1>4, <2>1
  <2>3. ASSUME NEW l \in logged, line = Start(l[1]), Pending(constraint_info', l[2], 0)
        PROVE  Doing(l)'
    <3>1. src_bb' = l[1]
      BY <2>1, <2>3, Kinds
    <3>2. Len(express_list') = 0 /\ 0 \in Nat /\ \A j \in 1 .. 0 : express_list'[j] = l[2][j]
      BY <2>1, <2>2
    <3> QED
      BY <2>1, <2>3, <3>1, <3>2 DEF Doing
  <2>4. ASSUME NEW l \in logged
        PROVE  ExpectedIn(constraint_info', l) \/ Doing(l)' \/ Found(l)'
    <3>1. CASE ExpectedIn(constraint_info, l)
      BY <1>3, <2>3, <3>1
    <3>2. CASE Found(l)
      BY <2>1, <3>2 DEF Found
    <3> QED
      BY <1>2, <1>8, <2>2, <3>1, <3>2
  <2>5. CutAfter(constraint_info', 0) \/ \E l \in logged : Doing(l)'
    BY <1>3, <2>1, <2>3
  <2>6. Parsing'
    BY <1>1, <1>3, <2>1, <2>4, <2>5 DEF Parsing
  <2>7. DictLogged'
    BY <1>1, <1>2, <2>1 DEF DictLogged
  <2> QED
    BY <1>2, <1>3, <2>1, <2>6, <2>7
<1>10. CASE ParseExpress(line)
  <2>1. /\ line.kind = "express" /\ record_flag
        /\ express_list' = Append(express_list, line.clause)
        /\ UNCHANGED <<src_bb, record_flag, constraint_dict>>
    BY <1>10 DEF ParseExpress
  <2>2. ASSUME NEW l \in logged, Doing(l) PROVE Doing(l)'
    BY <1>6, <2>1, <2>2 DEF Doing
  <2>3. ASSUME NEW l \in logged
        PROVE  ExpectedIn(constraint_info', l) \/ Doing(l)' \/ Found(l)'
    <3>1. CASE ExpectedIn(constraint_info, l)
      BY <1>3, <2>1, <3>1, Kinds
    <3>2. CASE Found(l)
      BY <2>1, <3>2 DEF Found
    <3> QED
      BY <1>2, <2>2, <3>1, <3>2
  <2>4. CutAfter(constraint_info', 0) \/ \E l \in logged : Doing(l)'
    <3>1. CASE CutAfter(constraint_info, 0)
      <4>1. /\ Len(constraint_info) \in Nat
            /\ Len(constraint_info') = Len(constraint_info) - 1
            /\ \A j \in 1 .. Len(constraint_info) - 1 :
                  constraint_info'[j] = constraint_info[j + 1]
        BY <1>1, <1>2, HeadTailProperties, LenProperties
      <4>2. ASSUME NEW j \in 1 .. Len(constraint_info'), j > 0
            PROVE  constraint_info'[j].kind = "express"
        <5>1. /\ j + 1 \in 1 .. Len(constraint_info) /\ j + 1 > 0
              /\ j \in 1 .. Len(constraint_info) - 1
          BY <4>1
        <5> QED
          BY <3>1, <4>1, <5>1 DEF CutAfter
      <4> QED
        BY <4>2 DEF CutAfter
    <3>2. CASE \E l \in logged : Doing(l)
      BY <2>2, <3>2
    <3> QED
      BY <1>2, <2>1, <3>1, <3>2
  <2>5. Parsing'
    BY <1>1, <1>3, <2>1, <2>3, <2>4 DEF Parsing
  <2>6. DictLogged'
    BY <1>1, <1>2, <2>1 DEF DictLogged
  <2>7. express_list' \in Seq(Clauses)
    BY <1>2, <1>5, <2>1
  <2> QED
    BY <1>2, <1>3, <2>1, <2>5, <2>6, <2>7
<1>11. CASE ParseEnd(line)
  <2>1. /\ line.kind = "end" /\ record_flag
        /\ constraint_dict' = [constraint_dict EXCEPT ![src_bb] = Append(@, express_list)]
        /\ express_list' = <<>> /\ record_flag' = FALSE
        /\ UNCHANGED src_bb
    BY <1>11 DEF ParseEnd
  <2>2. PICK done \in logged : Doing(done)
    BY <1>4, <2>1
  <2>3. express_list = done[2] /\ src_bb = done[1] /\ done[2] \in Constraint /\ done[1] \in Idx
    BY <1>2, <1>7, <2>1, <2>2
  <2>4. /\ constraint_dict'[src_bb] = Append(constraint_dict[src_bb], express_list)
        /\ \A a \in Idx : a # src_bb => constraint_dict'[a] = constraint_dict[a]
    BY <1>2, <2>1
  <2>5. /\ constraint_dict'[src_bb] \in Seq(Constraint)
        /\ DOMAIN constraint_dict[src_bb] = 1 .. Len(constraint_dict[src_bb])
        /\ Len(constraint_dict[src_bb]) \in Nat
        /\ DOMAIN constraint_dict'[src_bb] = 1 .. Len(constraint_dict[src_bb]) + 1
        /\ constraint_dict'[src_bb][Len(constraint_dict[src_bb]) + 1] = express_list
        /\ \A i \in 1 .. Len(constraint_dict[src_bb]) :
              constraint_dict'[src_bb][i] = constraint_dict[src_bb][i]
    <3>1. constraint_dict[src_bb] \in Seq(Constraint)
      BY <1>2
    <3> QED
      BY <2>3, <2>4, <3>1, AppendProperties, LenProperties
  <2>6. constraint_dict' \in [Idx -> Seq(Constraint)]
    BY <1>2, <2>1, <2>3
  <2>7. ASSUME NEW l \in logged, Found(l) PROVE Found(l)'
    <3>1. l[1] \in Idx
      BY <1>2
    <3>2. CASE l[1] = src_bb
      BY <2>5, <2>7, <3>2 DEF Found
    <3>3. CASE l[1] # src_bb
      BY <2>4, <2>7, <3>1, <3>3 DEF Found
    <3> QED
      BY <3>2, <3>3
  <2>8. ASSUME NEW l \in logged, Doing(l) PROVE Found(l)'
    <3>1. express_list = l[2] /\ src_bb = l[1]
      BY <1>7, <2>1, <2>8
    <3>2. /\ Len(constraint_dict[src_bb]) + 1 \in DOMAIN constraint_dict'[l[1]]
          /\ constraint_dict'[l[1]][Len(constraint_dict[src_bb]) + 1] = l[2]
      BY <2>5, <3>1
    <3> QED
      BY <3>2 DEF Found
  <2>9. ASSUME NEW l \in logged
        PROVE  ExpectedIn(constraint_info', l) \/ Doing(l)' \/ Found(l)'
    <3>1. CASE ExpectedIn(constraint_info, l)
      BY <1>3, <2>1, <3>1, Kinds
    <3> QED
      BY <1>2, <2>7, <2>8, <3>1
  <2>10. Parsing'
    BY <1>1, <1>3, <2>1, <2>9 DEF Parsing
  <2>11. DictLogged'
    <3>1. ASSUME NEW a \in Idx, NEW i \in DOMAIN constraint_dict'[a]
          PROVE  <<a, constraint_dict'[a][i]>> \in logged
      <4>1. CASE a # src_bb
        BY <1>2, <2>4, <3>1, <4>1 DEF DictLogged
      <4>2. CASE a = src_bb /\ i = Len(constraint_dict[src_bb]) + 1
        <5>1. constraint_dict'[a][i] = done[2] /\ a = done[1]
          BY <2>3, <2>5, <4>2
        <5>2. done = <<done[1], done[2]>>
          BY <1>2, <2>2
        <5> QED
          BY <2>2, <5>1, <5>2
      <4>3. CASE a = src_bb /\ i # Len(constraint_dict[src_bb]) + 1
        <5>1. i \in 1 .. Len(constraint_dict[src_bb])
          BY <2>5, <3>1, <4>3
        <5> QED
          BY <1>2, <2>5, <4>3, <5>1 DEF DictLogged
      <4> QED
        BY <4>1, <4>2, <4>3
    <3> QED
      BY <1>1, <3>1 DEF DictLogged
  <2>12. src_bb' \in Idx /\ record_flag' \in BOOLEAN /\ express_list' \in Seq(Clauses)
    <3>1. src_bb' \in Idx
      BY <2>1, <2>3
    <3>2. <<>> \in Seq(Clauses)
      OBVIOUS
    <3> QED
      BY <2>1, <3>1, <3>2
  <2> QED
    BY <1>3, <2>6, <2>10, <2>11, <2>12
<1>12. CASE ParseOther(line)
  <2>1. /\ line.kind # "start" /\ ~record_flag
        /\ UNCHANGED <<src_bb, record_flag, express_list, constraint_dict>>
    BY <1>4, <1>12 DEF ParseOther, parseVars
  <2>2. ASSUME NEW l \in logged
        PROVE  ExpectedIn(constraint_info', l) \/ Doing(l)' \/ Found(l)'
    <3>1. CASE ExpectedIn(constraint_info, l)
      BY <1>3, <2>1, <3>1, Kinds
    <3>2. CASE Found(l)
      BY <2>1, <3>2 DEF Found
    <3> QED
      BY <1>2, <1>8, <2>1, <3>1, <3>2
  <2>3. Parsing'
    BY <1>1, <1>2, <1>3, <2>1, <2>2 DEF Parsing
  <2>4. DictLogged'
    BY <1>1, <1>2, <2>1 DEF DictLogged
  <2> QED
    BY <1>2, <1>3, <2>1, <2>3, <2>4
<1> QED
  BY <1>1, <1>9, <1>10, <1>11, <1>12

-----------------------------------------------------------------------------
(***************************************************************************)
(* The test cases of a constraint.                                         *)
(***************************************************************************)

Files == [id : Nat, bytes : UNION {[DOMAIN Content[s] -> Byte] : s \in Seed}]

\* The symbolic variables are at offsets of the input.
LEMMA OffsetsType ==
  ASSUME constraint \in Constraint
  PROVE  Offsets \subseteq Int
BY ConstraintSeq DEF Offsets

\* A file written for the constraint is a mutant of the seed at its offsets, with the
\* values given.
LEMMA SaveEffect ==
  ASSUME constraint \in Constraint, seed_bytes = Content[cur_input], cur_input \in Seed,
         NEW values, DOMAIN values = Offsets, Fits(values), sample_id \in Nat
  PROVE  /\ MutantOf(Mutant(values))
         /\ [id |-> sample_id, bytes |-> Mutant(values)] \in Files
         /\ \A k \in Offsets : Mutant(values)[k + 1] = values[k]
<1>1. Offsets \subseteq Int
  BY OffsetsType
<1>2. seed_bytes \in [DOMAIN seed_bytes -> Byte] /\ DOMAIN seed_bytes \subseteq Int
  <2>1. seed_bytes \in Seq(Byte)
    BY ContentAssumption
  <2> QED
    BY <2>1, LenProperties
<1>3. \A k \in Offsets : k + 1 \in DOMAIN seed_bytes /\ values[k] \in Byte
  BY DEF Fits
<1>4. Mutant(values) = [i \in DOMAIN seed_bytes |-> IF i - 1 \in Offsets
                                                    THEN values[i - 1] ELSE seed_bytes[i]]
  BY DEF Mutant
<1>5. \A i \in DOMAIN seed_bytes :
         (IF i - 1 \in Offsets THEN values[i - 1] ELSE seed_bytes[i]) \in Byte
  BY <1>2, <1>3
<1>6. Mutant(values) \in [DOMAIN seed_bytes -> Byte]
  BY <1>4, <1>5
<1>7. MutantOf(Mutant(values))
  BY <1>4, <1>6 DEF MutantOf
<1>8. [id |-> sample_id, bytes |-> Mutant(values)] \in Files
  <2> DEFINE bytes == Mutant(values)
             Room(s) == [DOMAIN Content[s] -> Byte]
  <2>1. bytes \in Room(cur_input)
    BY <1>6
  <2> HIDE DEF bytes, Room
  <2>2. bytes \in UNION {Room(s) : s \in Seed}
    BY <2>1
  <2>3. Files = [id : Nat, bytes : UNION {Room(s) : s \in Seed}]
    BY DEF Files, Room
  <2>4. [id |-> sample_id, bytes |-> bytes] \in Files
    BY <2>2, <2>3
  <2> QED
    BY <2>4 DEF bytes
<1>9. ASSUME NEW k \in Offsets PROVE Mutant(values)[k + 1] = values[k]
  <2>1. k + 1 \in DOMAIN seed_bytes /\ (k + 1) - 1 = k
    BY <1>1, <1>3
  <2> QED
    BY <1>4, <2>1
<1> QED
  BY <1>7, <1>8, <1>9

\* A step of crack_target keeps the files mutants, and the one that solves the constraint
\* once there is any.
LEMMA TargetEffect ==
  ASSUME Inv, pc = "target", TargetStep
  PROVE  /\ UNCHANGED <<seed_bytes, constraint>>
         /\ sample_out' \in SUBSET Files /\ sample_id' \in Nat
         /\ step' \in {"sample", "save", "finally"} /\ results' \in Seq(Polytope)
         /\ \A t \in sample_out' : MutantOf(t.bytes)
         /\ sample_out' = {} \/ \E t \in sample_out' : Satisfies(t.bytes)
         /\ step' \in {"sample", "save"} => \E t \in sample_out' : Satisfies(t.bytes)
<1>1. /\ sample_out \in SUBSET Files /\ sample_id \in Nat
      /\ step \in {"out", "solve", "sample", "save", "finally"}
      /\ cur_input \in Seed /\ seed_bytes = Content[cur_input] /\ constraint \in Constraint
      /\ \A t \in sample_out : MutantOf(t.bytes)
      /\ sample_out = {} \/ Solved
      /\ step = "solve" => sample_out = {}
      /\ step \in {"sample", "save"} => Solved
      /\ results \in Seq(Polytope)
  BY DEF Inv, CrackTypeOK, Files, Shape, Targeting, Sampled
<1>2. CASE Raise
  BY <1>1, <1>2 DEF Raise, Solved
<1>3. ASSUME NEW values, DOMAIN values = Offsets, Fits(values), SaveSeed(values)
      PROVE  /\ UNCHANGED seed_bytes /\ sample_id' \in Nat
             /\ sample_out' = sample_out \cup {[id |-> sample_id, bytes |-> Mutant(values)]}
             /\ sample_out' \in SUBSET Files
             /\ \A t \in sample_out' : MutantOf(t.bytes)
  <2> DEFINE new == [id |-> sample_id, bytes |-> Mutant(values)]
  <2>1. /\ UNCHANGED seed_bytes /\ sample_id' = sample_id + 1
        /\ sample_out' = sample_out \cup {new}
    BY <1>3 DEF SaveSeed
  <2>2. MutantOf(Mutant(values)) /\ new \in Files
    BY <1>1, <1>3, SaveEffect
  <2>3. new.bytes = Mutant(values)
    OBVIOUS
  <2>4. \A t \in sample_out \cup {new} : MutantOf(t.bytes)
    BY <1>1, <2>2, <2>3
  <2> HIDE DEF new
  <2>5. sample_out' \in SUBSET Files /\ sample_id' \in Nat
    BY <1>1, <2>1, <2>2
  <2> QED
    BY <2>1, <2>4, <2>5 DEF new
<1>4. CASE SolveConstraint /\ ~Raise
  <2>1. PICK solution \in {v \in [Offsets -> Byte] : \A k \in Offsets : v[k] \in Allowed(k)} :
            /\ Fits(solution) /\ SaveSeed(solution) /\ step' = "sample"
            /\ UNCHANGED <<constraint, results>>
    BY <1>4 DEF SolveConstraint
  <2>2. DOMAIN solution = Offsets /\ \A k \in Offsets : solution[k] \in Allowed(k)
    OBVIOUS
  <2> DEFINE new == [id |-> sample_id, bytes |-> Mutant(solution)]
  <2>3. /\ UNCHANGED seed_bytes /\ sample_id' \in Nat
        /\ sample_out' = sample_out \cup {new} /\ sample_out' \in SUBSET Files
        /\ \A t \in sample_out' : MutantOf(t.bytes)
    BY <1>3, <2>1, <2>2
  <2>4. \A k \in Offsets : Mutant(solution)[k + 1] = solution[k]
    BY <1>1, <2>1, <2>2, SaveEffect
  <2>5. new \in sample_out' /\ Satisfies(new.bytes)
    BY <2>2, <2>3, <2>4 DEF Satisfies
  <2> HIDE DEF new
  <2> QED
    BY <1>1, <2>1, <2>3, <2>5
<1>5. CASE DoSample /\ ~Raise
  <2>1. /\ step = "sample" /\ step' = "save" /\ results' \in [1 .. MAX_SAMPLES -> Polytope]
        /\ UNCHANGED <<sample_out, sample_id, constraint, seed_bytes>>
    BY <1>5 DEF DoSample
  <2>2. results' \in Seq(Polytope)
    BY <2>1, SamplerAssumption, SeqDef
  <2> QED
    BY <1>1, <2>1, <2>2 DEF Solved
<1>6. CASE SaveSample /\ ~Raise
  <2> DEFINE values == Head(results)
  <2>1. /\ step = "save" /\ results # <<>> /\ Fits(values) /\ SaveSeed(values)
        /\ results' = Tail(results) /\ UNCHANGED <<step, constraint>>
    BY <1>6 DEF SaveSample
  <2>2. values \in Polytope /\ results' \in Seq(Polytope)
    BY <1>1, <2>1, HeadTailProperties
  <2>3. DOMAIN values = Offsets
    BY <2>2 DEF Polytope
  <2> HIDE DEF values
  <2>4. /\ UNCHANGED seed_bytes /\ sample_id' \in Nat
        /\ sample_out' = sample_out \cup {[id |-> sample_id, bytes |-> Mutant(values)]}
        /\ sample_out' \in SUBSET Files
        /\ \A t \in sample_out' : MutantOf(t.bytes)
    BY <1>3, <2>1, <2>3
  <2>5. \E t \in sample_out' : Satisfies(t.bytes)
    BY <1>1, <2>1, <2>4 DEF Solved
  <2> QED
    BY <1>1, <2>1, <2>2, <2>4, <2>5
<1>7. CASE SamplesSaved
  BY <1>2, <1>7 DEF SamplesSaved
<1> QED
  BY <1>2, <1>4, <1>5, <1>6, <1>7 DEF TargetStep

-----------------------------------------------------------------------------
(***************************************************************************)
(* The invariant is inductive.                                             *)
(***************************************************************************)

\* While the constraint and the seed stay, the files said of them stay so.
LEMMA SampledStays ==
  ASSUME Sampled, UNCHANGED <<sample_out, seed_bytes, constraint, cur_input>>
  PROVE  Sampled'
BY DEF Sampled, MutantOf, Solved, Satisfies, Offsets, Allowed

\* Nothing is running, found or made at the start.
LEMMA InvInit == CrackInit => Inv
<1> SUFFICES ASSUME CrackInit PROVE Inv
  OBVIOUS
<1> USE DEF CrackInit, ConcolicInit, TargetInit
<1>1. CrackTypeOK
  <2>1. ConcolicTypeOK
    BY DEF ConcolicTypeOK, Env, NoLines
  <2>2. 0 \in Idx
    BY MapSizeAssumption DEF Idx
  <2>3. NoConstraints \in [Idx -> Seq(Constraint)]
    BY DEF NoConstraints
  <2> QED
    BY <2>1, <2>2, <2>3 DEF CrackTypeOK
<1>2. Shape
  BY FS_EmptySet DEF Shape
<1>3. Aimed
  BY DEF Aimed, Cracked
<1>4. Logging /\ Parsing
  BY DEF Logging, Parsing
<1>5. DictLogged
  BY DEF DictLogged, NoConstraints
<1>6. Targeting /\ Solving
  BY DEF Targeting, Solving
<1> QED
  BY <1>1, <1>2, <1>3, <1>4, <1>5, <1>6 DEF Inv

\* A candidate is taken: its addresses go into the crack map, and no log is left.
LEMMA CandidateStep == Inv /\ CrackCandidate => Inv'
<1> SUFFICES ASSUME Inv, CrackCandidate PROVE Inv'
  OBVIOUS
<1>1. PICK s \in todo, addrs \in (SUBSET Idx) \ {{}} :
         Crack(s, addrs) /\ crack_addr' = addrs /\ todo' = todo \ {s}
  BY DEF CrackCandidate
<1>2. /\ pc = "next" /\ pc' = "cracking" /\ testcases' = {}
      /\ UNCHANGED <<sample_out, sample_id, step, constraint, seed_bytes, results>>
      /\ UNCHANGED <<src_bb, record_flag, express_list, constraint_dict>>
  BY DEF CrackCandidate, targetVars, parseVars
<1>3. /\ cur_input' = s /\ child' = "running" /\ constraint_info' = <<>> /\ logged' = {}
      /\ crackmap' = [a \in Idx |-> IF a \in addrs THEN 0 ELSE 255]
      /\ env' = [cracking |-> TRUE, output |-> FALSE] /\ UNCHANGED output_path
  BY <1>1 DEF Crack, StartChild, DumpCrackMap, NoLines
<1>4. /\ CrackTypeOK /\ ConcolicTypeOK /\ Shape /\ s \in Seed
  BY <1>1 DEF Inv, CrackTypeOK
<1>5. CrackTypeOK'
  <2>1. ConcolicTypeOK'
    BY <1>3, <1>4 DEF ConcolicTypeOK, Env
  <2> QED
    BY <1>1, <1>2, <1>4, <2>1 DEF CrackTypeOK
<1>6. constraint_dict' = NoConstraints /\ ~record_flag' /\ express_list' = <<>>
  BY <1>2, <1>4 DEF Shape
<1>7. Shape'
  BY <1>2, <1>3, <1>4, <1>6 DEF Shape
<1>8. Aimed'
  BY <1>1, <1>3 DEF Aimed, Cracked
<1>9. Logging' /\ Parsing'
  BY <1>2, <1>3 DEF Logging, Parsing, StartsIn
<1>10. DictLogged'
  BY <1>6 DEF DictLogged, NoConstraints
<1>11. Targeting' /\ Solving'
  BY <1>2 DEF Targeting, Solving
<1> QED
  BY <1>5, <1>7, <1>8, <1>9, <1>10, <1>11 DEF Inv

\* A step of the child; when it has ended its log is what the parser starts from.
LEMMA ChildKeeps == Inv /\ Child => Inv'
<1> SUFFICES ASSUME Inv, Child PROVE Inv'
  OBVIOUS
<1>1. /\ ChildStep
      /\ pc' = IF child' = "running" THEN pc ELSE IF pc = "cracking" THEN "parse" ELSE "list"
      /\ UNCHANGED <<sample_out, sample_id, step, constraint, seed_bytes, results>>
      /\ UNCHANGED <<src_bb, record_flag, express_list, constraint_dict>>
      /\ UNCHANGED <<todo, crack_addr, testcases>>
  BY DEF Child, targetVars, parseVars
<1>2. /\ child = "running" /\ child' \in {"running", "ended"}
      /\ UNCHANGED <<crackmap, cur_input, env>>
      /\ constraint_info' \in Seq(LogLine)
      /\ logged' \in SUBSET (crack_addr \X Constraint)
      /\ output_path' \in SUBSET [seed : Seed, no : Nat] /\ IsFiniteSet(output_path')
      /\ \A o \in output_path' : o \in output_path \/ o.seed = cur_input
      /\ pc = "cracking" => /\ child' = "running" => StartsIn(constraint_info', logged')
                            /\ KeptIn(constraint_info', logged')
                            /\ \A l \in logged' : ExpectedIn(constraint_info', l)
  BY <1>1, ChildEffect
<1>3. CrackTypeOK /\ ConcolicTypeOK /\ Shape /\ Aimed /\ Solving
  BY DEF Inv, CrackTypeOK
<1>4. /\ pc \in {"cracking", "solving"} /\ constraint_dict = NoConstraints
      /\ ~record_flag /\ express_list = <<>> /\ cur_input \in Seed
  BY <1>2, <1>3 DEF Shape
<1>5. CrackTypeOK'
  <2>1. ConcolicTypeOK'
    BY <1>2, <1>3 DEF ConcolicTypeOK
  <2> QED
    BY <1>1, <1>3, <1>4, <2>1 DEF CrackTypeOK
<1>6. pc' \in {"cracking", "solving", "parse", "list"}
  BY <1>1, <1>4
<1>7. Shape'
  BY <1>1, <1>2, <1>3, <1>4 DEF Shape
<1>8. Aimed'
  BY <1>1, <1>2, <1>3 DEF Aimed, Cracked
<1>9. Logging'
  BY <1>1, <1>2 DEF Logging
<1>10. Parsing'
  BY <1>1, <1>2, <1>4 DEF Parsing
<1>11. DictLogged'
  BY <1>1, <1>4 DEF DictLogged, NoConstraints
<1>12. Targeting'
  BY <1>6 DEF Targeting
<1>13. Solving'
  BY <1>1, <1>2, <1>3, <1>4 DEF Solving
<1> QED
  BY <1>5, <1>7, <1>8, <1>9, <1>10, <1>11, <1>12, <1>13 DEF Inv

\* A line parsed.
LEMMA DumpKeeps == Inv /\ DumpConstraint => Inv'
<1> SUFFICES ASSUME Inv, DumpConstraint PROVE Inv'
  OBVIOUS
<1>1. /\ Parsing' /\ DictLogged'
      /\ constraint_info' \in Seq(LogLine) /\ src_bb' \in Idx /\ record_flag' \in BOOLEAN
      /\ express_list' \in Seq(Clauses) /\ constraint_dict' \in [Idx -> Seq(Constraint)]
  BY ParseStep
<1>2. /\ pc = "parse" /\ pc' = "parse"
      /\ UNCHANGED <<crackmap, cur_input, output_path, env, child, logged>>
      /\ UNCHANGED <<sample_out, sample_id, step, constraint, seed_bytes, results>>
      /\ UNCHANGED <<todo, crack_addr, testcases>>
  BY DEF DumpConstraint, targetVars
<1>3. CrackTypeOK /\ ConcolicTypeOK /\ Shape /\ Aimed /\ Solving
  BY DEF Inv, CrackTypeOK
<1>4. CrackTypeOK'
  <2>1. ConcolicTypeOK'
    BY <1>1, <1>2, <1>3 DEF ConcolicTypeOK
  <2> QED
    BY <1>1, <1>2, <1>3, <2>1 DEF CrackTypeOK
<1>5. Shape'
  BY <1>1, <1>2, <1>3 DEF Shape
<1>6. Aimed'
  BY <1>2, <1>3 DEF Aimed, Cracked
<1>7. Logging' /\ Targeting' /\ Solving'
  BY <1>2 DEF Logging, Targeting, Solving
<1> QED
  BY <1>1, <1>4, <1>5, <1>6, <1>7 DEF Inv

\* The log is read; what it said stays in the dictionary.
LEMMA ParseDoneKeeps == Inv /\ ParseDone => Inv'
<1> SUFFICES ASSUME Inv, ParseDone PROVE Inv'
  OBVIOUS
<1>1. /\ pc = "parse" /\ pc' = "constraints"
      /\ src_bb' = 0 /\ record_flag' = FALSE /\ express_list' = <<>>
      /\ UNCHANGED <<crackmap, cur_input, output_path, env, child, constraint_info, logged>>
      /\ UNCHANGED <<sample_out, sample_id, step, constraint, seed_bytes, results>>
      /\ UNCHANGED <<todo, crack_addr, constraint_dict, testcases>>
  BY DEF ParseDone, targetVars, concolicVars
<1>2. CrackTypeOK /\ ConcolicTypeOK /\ Shape /\ Aimed /\ DictLogged
  BY DEF Inv, CrackTypeOK
<1>3. CrackTypeOK'
  <2>1. ConcolicTypeOK'
    BY <1>1, <1>2 DEF ConcolicTypeOK
  <2>2. 0 \in Idx
    BY MapSizeAssumption DEF Idx
  <2> QED
    BY <1>1, <1>2, <2>1, <2>2 DEF CrackTypeOK
<1>4. Shape' /\ Aimed' /\ DictLogged'
  BY <1>1, <1>2 DEF Shape, Aimed, Cracked, DictLogged
<1>5. Logging' /\ Parsing' /\ Targeting' /\ Solving'
  BY <1>1 DEF Logging, Parsing, Targeting, Solving
<1> QED
  BY <1>3, <1>4, <1>5 DEF Inv

\* The next constraint goes to crack_target, with the seed and an empty directory.
LEMMA ConstraintKeeps == Inv /\ NextConstraint => Inv'
<1> SUFFICES ASSUME Inv, NextConstraint PROVE Inv'
  OBVIOUS
<1>1. PICK a \in Idx :
         /\ constraint_dict[a] # <<>>
         /\ CallCrackTarget(Content[cur_input], Head(constraint_dict[a]))
         /\ constraint_dict' = [constraint_dict EXCEPT ![a] = Tail(@)]
  BY DEF NextConstraint
<1>2. /\ pc = "constraints" /\ pc' = "target"
      /\ UNCHANGED <<crackmap, cur_input, output_path, env, child, constraint_info, logged>>
      /\ UNCHANGED <<todo, crack_addr, src_bb, record_flag, express_list, testcases>>
  BY DEF NextConstraint, concolicVars
<1>3. /\ sample_out' = {} /\ constraint' = Head(constraint_dict[a])
      /\ seed_bytes' = Content[cur_input] /\ results' = <<>> /\ step' = "solve"
      /\ UNCHANGED sample_id
  BY <1>1 DEF CallCrackTarget, InitDir
<1>4. CrackTypeOK /\ ConcolicTypeOK /\ Shape /\ Aimed /\ DictLogged
  BY DEF Inv, CrackTypeOK
<1>5. /\ constraint_dict[a] \in Seq(Constraint) /\ Head(constraint_dict[a]) \in Constraint
      /\ Tail(constraint_dict[a]) \in Seq(Constraint)
      /\ \A i \in DOMAIN Tail(constraint_dict[a]) :
            /\ i + 1 \in DOMAIN constraint_dict[a]
            /\ Tail(constraint_dict[a])[i] = constraint_dict[a][i + 1]
  <2>1. constraint_dict[a] \in Seq(Constraint)
    BY <1>4 DEF CrackTypeOK
  <2> QED
    BY <1>1, <2>1, HeadTailProperties, LenProperties
<1>6. /\ constraint_dict' \in [Idx -> Seq(Constraint)]
      /\ constraint_dict'[a] = Tail(constraint_dict[a])
      /\ \A b \in Idx : b # a => constraint_dict'[b] = constraint_dict[b]
  BY <1>1, <1>4, <1>5 DEF CrackTypeOK
<1>7. CrackTypeOK'
  <2>1. ConcolicTypeOK'
    BY <1>2, <1>4 DEF ConcolicTypeOK
  <2> QED
    BY <1>2, <1>3, <1>4, <1>6, <2>1 DEF CrackTypeOK
<1>8. Shape' /\ Aimed'
  BY <1>2, <1>4 DEF Shape, Aimed, Cracked
<1>9. DictLogged'
  <2>1. ASSUME NEW b \in Idx, NEW i \in DOMAIN constraint_dict'[b]
        PROVE  <<b, constraint_dict'[b][i]>> \in logged
    <3>1. CASE b = a
      BY <1>4, <1>5, <1>6, <2>1, <3>1 DEF DictLogged
    <3>2. CASE b # a
      BY <1>4, <1>6, <2>1, <3>2 DEF DictLogged
    <3> QED
      BY <3>1, <3>2
  <2> QED
    BY <1>2, <2>1 DEF DictLogged
<1>10. Targeting'
  <2>1. Sampled'
    BY <1>2, <1>3, <1>5 DEF Sampled
  <2>2. results' \in Seq(Polytope')
    BY <1>3
  <2> QED
    BY <1>2, <1>3, <2>1, <2>2 DEF Targeting
<1>11. Logging' /\ Parsing' /\ Solving'
  BY <1>2 DEF Logging, Parsing, Solving
<1> QED
  BY <1>7, <1>8, <1>9, <1>10, <1>11 DEF Inv

\* A step of crack_target.
LEMMA TargetKeeps == Inv /\ Target => Inv'
<1> SUFFICES ASSUME Inv, Target PROVE Inv'
  OBVIOUS
<1>1. /\ pc = "target" /\ pc' = "target" /\ TargetStep
      /\ UNCHANGED <<crackmap, cur_input, output_path, env, child, constraint_info, logged>>
      /\ UNCHANGED <<todo, crack_addr, src_bb, record_flag, express_list, constraint_dict>>
      /\ UNCHANGED testcases
  BY DEF Target, concolicVars, parseVars
<1>2. /\ UNCHANGED <<seed_bytes, constraint>>
      /\ sample_out' \in SUBSET Files /\ sample_id' \in Nat
      /\ step' \in {"sample", "save", "finally"} /\ results' \in Seq(Polytope)
      /\ \A t \in sample_out' : MutantOf(t.bytes)
      /\ sample_out' = {} \/ \E t \in sample_out' : Satisfies(t.bytes)
      /\ step' \in {"sample", "save"} => \E t \in sample_out' : Satisfies(t.bytes)
  BY <1>1, TargetEffect
<1>3. /\ CrackTypeOK /\ ConcolicTypeOK /\ Shape /\ Aimed /\ DictLogged
      /\ seed_bytes = Content[cur_input] /\ constraint \in Constraint
  BY <1>1 DEF Inv, CrackTypeOK, Targeting, Sampled
<1>4. CrackTypeOK'
  <2>1. ConcolicTypeOK'
    BY <1>1, <1>3 DEF ConcolicTypeOK
  <2> QED
    BY <1>1, <1>2, <1>3, <2>1 DEF CrackTypeOK, Files
<1>5. Shape' /\ Aimed' /\ DictLogged'
  BY <1>1, <1>3 DEF Shape, Aimed, Cracked, DictLogged
<1>6. \A t \in sample_out' : MutantOf(t.bytes)'
  BY <1>2 DEF MutantOf, Offsets
<1>7. (\E t \in sample_out' : Satisfies(t.bytes)) => Solved'
  BY <1>2 DEF Solved, Satisfies, Offsets, Allowed
<1>8. Polytope' = Polytope
  BY <1>2 DEF Polytope, Offsets, ObjMax, ObjMin, Feasible
<1>9. Sampled'
  BY <1>1, <1>2, <1>3, <1>6, <1>7 DEF Sampled
<1>10. Targeting'
  BY <1>1, <1>2, <1>7, <1>8, <1>9 DEF Targeting
<1>11. Logging' /\ Parsing' /\ Solving'
  BY <1>1 DEF Logging, Parsing, Solving
<1> QED
  BY <1>4, <1>5, <1>10, <1>11 DEF Inv

\* crack_target returns the files there are; the caller syncs and forgets them.
LEMMA ReturnKeeps == Inv /\ (TargetReturns \/ SyncSamples) => Inv'
<1> SUFFICES ASSUME Inv, TargetReturns \/ SyncSamples PROVE Inv'
  OBVIOUS
<1>1. /\ UNCHANGED <<crackmap, cur_input, output_path, env, child, constraint_info, logged>>
      /\ UNCHANGED <<todo, crack_addr, src_bb, record_flag, express_list, constraint_dict>>
      /\ UNCHANGED <<sample_out, sample_id>>
      /\ pc \in {"target", "sync"} /\ pc' \in {"sync", "constraints"}
  BY DEF TargetReturns, SyncSamples, Return, Forget, concolicVars, parseVars
<1>2. CrackTypeOK /\ ConcolicTypeOK /\ Shape /\ Aimed /\ DictLogged
  BY DEF Inv, CrackTypeOK
<1>3. step' \in {"out", step}
  BY DEF TargetReturns, SyncSamples, Return, Forget
<1>4. CrackTypeOK'
  <2>1. ConcolicTypeOK'
    BY <1>1, <1>2 DEF ConcolicTypeOK
  <2> QED
    BY <1>1, <1>2, <1>3, <2>1 DEF CrackTypeOK
<1>5. Shape' /\ Aimed' /\ DictLogged'
  BY <1>1, <1>2 DEF Shape, Aimed, Cracked, DictLogged
<1>6. Logging' /\ Parsing' /\ Solving'
  BY <1>1 DEF Logging, Parsing, Solving
<1>7. Targeting'
  <2>1. CASE TargetReturns
    <3>1. /\ pc = "target" /\ pc' = "sync" /\ testcases' = sample_out
          /\ UNCHANGED <<sample_out, constraint, seed_bytes, cur_input>>
      BY <1>1, <2>1 DEF TargetReturns, Return
    <3>2. Sampled
      BY <3>1 DEF Inv, Targeting
    <3>3. Sampled'
      BY <3>1, <3>2, SampledStays
    <3> QED
      BY <3>1, <3>3 DEF Targeting
  <2>2. CASE SyncSamples
    BY <2>2 DEF SyncSamples, Targeting
  <2> QED
    BY <2>1, <2>2
<1> QED
  BY <1>4, <1>5, <1>6, <1>7 DEF Inv

\* The seed itself is solved, into an empty directory; its solutions are listed.
LEMMA SolveKeeps == Inv /\ (SolveCandidate \/ ListSolutions) => Inv'
<1> SUFFICES ASSUME Inv, SolveCandidate \/ ListSolutions PROVE Inv'
  OBVIOUS
<1>1. CrackTypeOK /\ ConcolicTypeOK /\ Shape /\ Aimed /\ Solving
  BY DEF Inv, CrackTypeOK
<1>2. /\ UNCHANGED <<sample_out, sample_id, step, constraint, seed_bytes, results>>
      /\ UNCHANGED <<todo, crack_addr, src_bb, record_flag, express_list, constraint_dict>>
      /\ pc' \in {"solving", "next"}
  BY DEF SolveCandidate, ListSolutions, targetVars, parseVars
<1>3. CASE SolveCandidate
  <2>1. /\ pc = "constraints" /\ constraint_dict = NoConstraints
        /\ pc' = "solving" /\ UNCHANGED <<crackmap, testcases>>
        /\ cur_input' = cur_input /\ child' = "running" /\ constraint_info' = <<>>
        /\ logged' = {} /\ output_path' = {}
        /\ env' = [cracking |-> FALSE, output |-> TRUE]
    BY <1>3 DEF SolveCandidate, Solve, StartChild, Wipe, NoLines
  <2>2. CrackTypeOK'
    <3>1. ConcolicTypeOK'
      BY <1>1, <2>1 DEF ConcolicTypeOK, Env
    <3> QED
      BY <1>1, <1>2, <2>1, <3>1 DEF CrackTypeOK
  <2>3. Shape'
    <3>1. output_path' \in {{}} /\ IsFiniteSet({})
      BY <2>1, FS_EmptySet
    <3> QED
      BY <1>1, <1>2, <2>1, <3>1 DEF Shape
  <2>4. Aimed'
    BY <2>1 DEF Aimed, Cracked
  <2>5. DictLogged'
    BY <1>2, <2>1 DEF DictLogged, NoConstraints
  <2>6. Logging' /\ Parsing' /\ Targeting' /\ Solving'
    BY <2>1 DEF Logging, Parsing, Targeting, Solving
  <2> QED
    BY <2>2, <2>3, <2>4, <2>5, <2>6 DEF Inv
<1>4. CASE ListSolutions
  <2>1. /\ pc = "list" /\ pc' = "next" /\ testcases' = output_path
        /\ UNCHANGED <<crackmap, cur_input, output_path, env, child, constraint_info, logged>>
    BY <1>4 DEF ListSolutions, concolicVars
  <2>2. CrackTypeOK'
    <3>1. ConcolicTypeOK'
      BY <1>1, <2>1 DEF ConcolicTypeOK
    <3> QED
      BY <1>1, <1>2, <2>1, <3>1 DEF CrackTypeOK
  <2>3. Shape' /\ Aimed' /\ DictLogged'
    BY <1>1, <1>2, <2>1 DEF Shape, Aimed, Cracked, DictLogged, NoConstraints
  <2>4. Solving'
    BY <1>1, <2>1 DEF Solving
  <2>5. Logging' /\ Parsing' /\ Targeting'
    BY <2>1 DEF Logging, Parsing, Targeting
  <2> QED
    BY <2>2, <2>3, <2>4, <2>5 DEF Inv
<1> QED
  BY <1>3, <1>4

\* The invariant holds all along.
LEMMA CrackInvariant == CrackSpec => []Inv
<1>1. Inv /\ [CrackNext]_crackVars => Inv'
  <2> SUFFICES ASSUME Inv, [CrackNext]_crackVars PROVE Inv'
    OBVIOUS
  <2>1. CASE UNCHANGED crackVars
    <3>1. /\ UNCHANGED <<crackmap, cur_input, output_path, env, child, constraint_info, logged>>
          /\ UNCHANGED <<sample_out, sample_id, step, constraint, seed_bytes, results>>
          /\ UNCHANGED <<pc, todo, crack_addr, src_bb, record_flag, express_list>>
          /\ UNCHANGED <<constraint_dict, testcases>>
      BY <2>1 DEF crackVars, concolicVars, targetVars, parseVars
    <3>2. CrackTypeOK'
      BY <3>1 DEF Inv, CrackTypeOK, ConcolicTypeOK
    <3>3. Shape' /\ Aimed' /\ DictLogged' /\ Solving'
      BY <3>1 DEF Inv, Shape, Aimed, Cracked, DictLogged, Solving
    <3>4. Logging'
      BY <3>1 DEF Inv, Logging
    <3>5. Parsing'
      BY <3>1 DEF Inv, Parsing, Doing, Found
    <3>6. Targeting'
      <4>1. Sampled => Sampled'
        BY <3>1, SampledStays
      <4>2. Polytope' = Polytope /\ (Solved => Solved')
        BY <3>1 DEF Polytope, Offsets, ObjMax, ObjMin, Feasible, Solved, Satisfies, Allowed
      <4> QED
        BY <3>1, <4>1, <4>2 DEF Inv, Targeting
    <3> QED
      BY <3>2, <3>3, <3>4, <3>5, <3>6 DEF Inv
  <2> QED
    BY <2>1, CandidateStep, ChildKeeps, DumpKeeps, ParseDoneKeeps, ConstraintKeeps,
       TargetKeeps, ReturnKeeps, SolveKeeps DEF CrackNext
<1> QED
  BY <1>1, InvInit, PTL DEF CrackSpec

-----------------------------------------------------------------------------
(***************************************************************************)
(* What the code promises.                                                 *)
(***************************************************************************)

\* Every file and local of the pipeline keeps its type: the addresses parsed are those of
\* blocks and the constraints are whole, wherever the child is killed (sync.py:44-62), and
\* test cases are byte strings as long as a seed (sync.py:22-36).
THEOREM CrackTypeCorrect == CrackSpec => []CrackTypeOK
<1>1. Inv => CrackTypeOK
  BY DEF Inv
<1> QED
  BY <1>1, CrackInvariant, PTL

\* A constraint is found only at an address the candidate was to be cracked at
\* (conolic.py:25-31, 41-45): what it finds was printed, and only addresses in the crack
\* map, rewritten whole for every candidate, are.
THEOREM AtTarget == CrackSpec => []ConstraintAtTarget
<1>1. Inv => ConstraintAtTarget
  <2> SUFFICES ASSUME Inv, NEW a \in Idx, constraint_dict[a] # <<>> PROVE a \in crack_addr
    BY DEF ConstraintAtTarget
  <2>1. constraint_dict[a] \in Seq(Constraint)
    BY DEF Inv, CrackTypeOK
  <2>2. 1 \in DOMAIN constraint_dict[a]
    BY <2>1, LenProperties
  <2>3. <<a, constraint_dict[a][1]>> \in logged
    BY <2>2 DEF Inv, DictLogged
  <2>4. logged \in SUBSET (crack_addr \X Constraint)
    BY LogTypes
  <2> QED
    BY <2>3, <2>4
<1> QED
  BY <1>1, CrackInvariant, PTL

\* The parser finds the constraints that were printed whole, each for its own address, all
\* of them and nothing else, however the program's own lines, swallowed lines and a kill in
\* the middle break up the log (sync.py:44-62).
THEOREM MatchLog == CrackSpec => []ConstraintsMatchLog
<1>1. Inv => ConstraintsMatchLog
  <2> SUFFICES ASSUME Inv PROVE ConstraintsMatchLog
    OBVIOUS
  <2>1. DictLogged
    BY DEF Inv
  <2>2. ASSUME pc = "parse", constraint_info = <<>>, NEW l \in logged PROVE Found(l)
    <3>1. logged \in SUBSET (Idx \X Constraint)
      BY LogTypes
    <3>2. ExpectedIn(constraint_info, l) \/ Doing(l) \/ Found(l)
      BY <2>2 DEF Inv, Parsing
    <3>3. Len(l[2]) \in Nat /\ Len(constraint_info) = 0
      BY <2>2, <3>1, ConstraintSeq
    <3>4. ~ExpectedIn(constraint_info, l)
      BY <3>3 DEF ExpectedIn, Whole
    <3>5. ~Doing(l)
      BY <3>3 DEF Doing, Pending
    <3> QED
      BY <3>2, <3>4, <3>5
  <2> QED
    BY <2>1, <2>2 DEF ConstraintsMatchLog, DictLogged, Found, NoLines
<1> QED
  BY <1>1, CrackInvariant, PTL

\* What is synced for a constraint differs from the seed at the offsets of this constraint
\* only: the directory is emptied for each, and each file starts from the seed's bytes
\* (sync.py:22-36, 82).
THEOREM Mutants == CrackSpec => []MutantsOfSeed
<1>1. Inv => MutantsOfSeed
  BY DEF Inv, Targeting, Sampled, MutantOf, MutantsOfSeed
<1> QED
  BY <1>1, CrackInvariant, PTL

\* If a constraint yields a test case at all, one of those synced satisfies it: the model
\* the solver found is saved first, and no failure after it loses it (sync.py:94, 116-120).
THEOREM Kept == CrackSpec => []SolutionKept
<1>1. Inv => SolutionKept
  BY DEF Inv, Targeting, Sampled, Solved, SolutionKept
<1> QED
  BY <1>1, CrackInvariant, PTL

\* The solutions listed are those of the seed solved: the directory was emptied for it
\* (conolic.py:47, 54).
THEOREM OfSeed == CrackSpec => []SolutionsOfSeed
<1>1. Inv => SolutionsOfSeed
  BY DEF Inv, Solving, SolutionsOfSeed
<1> QED
  BY <1>1, CrackInvariant, PTL
=============================================================================
