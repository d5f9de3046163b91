-------------------------- MODULE TracePassProofs --------------------------
(***************************************************************************)
(* TracePass, for any module: the ids of the blocks, the blocks that have  *)
(* a call, the features read from the texts of conditions, and the texts.  *)
(***************************************************************************)
EXTENDS TracePass, FiniteSetTheorems, SequenceTheorems, TLAPS

\* calls is a sequence, of whatever the text of a condition may be.
CallsList == \E S : calls \in Seq(S)

\* Every id in a call inserted so far is the one the map has now.
IdsCurrent ==
    \A i \in DOMAIN calls : \A k \in DOMAIN calls[i].ids :
        LET b == calls[i].ids[k][1]
        IN  b \in DOMAIN basicBlockMap /\ calls[i].ids[k] = <<b, basicBlockMap[b]>>

IdsInv == CallsList /\ IdsCurrent

\* Looking blocks up gives all of them an id, and changes nobody's (lines 175-207).
LEMMA MapGrows ==
    ASSUME NEW map, NEW blocks
    PROVE  /\ DOMAIN WithBlocks(map, blocks) = DOMAIN map \cup blocks
           /\ \A b \in DOMAIN map : WithBlocks(map, blocks)[b] = map[b]
BY DEF WithBlocks

\* What the insertion of a call keeps: calls made before agree with the map as it was
\* and therefore with the map as it is; the new one is made from the latter.
LEMMA InsertedKeepsIds ==
    ASSUME NEW blocks, NEW text, Inserted(blocks, text), IdsInv
    PROVE  IdsInv'
<1> DEFINE call == [block |-> BB, text |-> text, known |-> basicBlockMap,
                    ids |-> [i \in DOMAIN blocks |->
                                 <<blocks[i], basicBlockMap'[blocks[i]]>>]]
           asked == {blocks[i] : i \in DOMAIN blocks}
<1>1. calls' = Append(calls, call) /\ basicBlockMap' = WithBlocks(basicBlockMap, asked)
  BY DEF Inserted
<1>2. PICK S : calls \in Seq(S)
  BY DEF IdsInv, CallsList
<1>3. /\ DOMAIN basicBlockMap' = DOMAIN basicBlockMap \cup asked
      /\ \A b \in DOMAIN basicBlockMap : basicBlockMap'[b] = basicBlockMap[b]
  BY <1>1, MapGrows
<1>4. \A k \in DOMAIN call.ids :
          LET b == call.ids[k][1]
          IN  b \in DOMAIN basicBlockMap' /\ call.ids[k] = <<b, basicBlockMap'[b]>>
  <2> SUFFICES ASSUME NEW k \in DOMAIN call.ids
               PROVE  /\ call.ids[k][1] \in DOMAIN basicBlockMap'
                      /\ call.ids[k] = <<call.ids[k][1], basicBlockMap'[call.ids[k][1]]>>
    OBVIOUS
  <2>1. k \in DOMAIN blocks /\ call.ids[k] = <<blocks[k], basicBlockMap'[blocks[k]]>>
    OBVIOUS
  <2>2. blocks[k] \in asked
    BY <2>1
  <2> QED BY <2>1, <2>2, <1>3
<1> HIDE DEF call
<1>5. calls' \in Seq(S \cup {call})
  <2>1. calls \in Seq(S \cup {call})
    BY <1>2
  <2> QED BY <2>1, <1>1
<1>6. \A i \in DOMAIN calls' : (i \in DOMAIN calls /\ calls'[i] = calls[i]) \/ calls'[i] = call
  BY <1>1, <1>2
<1>7. IdsCurrent'
  <2> SUFFICES ASSUME NEW i \in DOMAIN calls', NEW k \in DOMAIN calls'[i].ids
               PROVE  /\ calls'[i].ids[k][1] \in DOMAIN basicBlockMap'
                      /\ calls'[i].ids[k] =
                             <<calls'[i].ids[k][1], basicBlockMap'[calls'[i].ids[k][1]]>>
    BY DEF IdsCurrent
  <2>1. CASE i \in DOMAIN calls /\ calls'[i] = calls[i]
    <3>1. /\ calls[i].ids[k][1] \in DOMAIN basicBlockMap
          /\ calls[i].ids[k] = <<calls[i].ids[k][1], basicBlockMap[calls[i].ids[k][1]]>>
      BY <2>1 DEF IdsInv, IdsCurrent
    <3> QED BY <2>1, <3>1, <1>3
  <2>2. CASE calls'[i] = call
    BY <2>2, <1>4
  <2> QED BY <2>1, <2>2, <1>6
<1> QED BY <1>5, <1>7 DEF IdsInv, CallsList

\* A step either inserts a call or leaves ids and calls alone.
LEMMA StepKeepsIds == IdsInv /\ [PassNext]_passVars => IdsInv'
<1> SUFFICES ASSUME IdsInv, [PassNext]_passVars PROVE IdsInv'
  OBVIOUS
<1>1. CASE UNCHANGED <<basicBlockMap, calls>>
  BY <1>1 DEF IdsInv, CallsList, IdsCurrent
<1>2. CASE LogBranch
  BY <1>2, InsertedKeepsIds DEF LogBranch
<1>3. CASE visitSwitchInst
  BY <1>3, InsertedKeepsIds DEF visitSwitchInst
<1>4. CASE Condition \/ Recurse \/ Return \/ NextBlock \/ UNCHANGED passVars
  BY <1>4, <1>1 DEF Condition, Recurse, Return, NextBlock, passVars
<1> QED BY <1>2, <1>3, <1>4 DEF PassNext

\* At first nothing is called.
LEMMA InitIds == PassInit => IdsInv
<1> SUFFICES ASSUME PassInit PROVE IdsInv
  OBVIOUS
<1>1. calls = <<>>
  BY DEF PassInit
<1>2. calls \in Seq({})
  BY <1>1
<1> QED BY <1>1, <1>2 DEF IdsInv, CallsList, IdsCurrent

\* For any module, with any of its blocks unknown: the calls agree on the id of a
\* block, because ids are only added and a call has them from the map
\* (trace-pass.so.cc:175-220).
THEOREM IdsCorrect == PassSpec => []IdsAgree
<1>1. IdsInv => IdsAgree
  <2> SUFFICES ASSUME IdsInv, NEW i \in DOMAIN calls, NEW j \in DOMAIN calls,
                      NEW k \in DOMAIN calls[i].ids, NEW l \in DOMAIN calls[j].ids,
                      calls[i].ids[k][1] = calls[j].ids[l][1]
               PROVE  calls[i].ids[k] = calls[j].ids[l]
    BY DEF IdsAgree
  <2>1. calls[i].ids[k] = <<calls[i].ids[k][1], basicBlockMap[calls[i].ids[k][1]]>>
    BY DEF IdsInv, IdsCurrent
  <2>2. calls[j].ids[l] = <<calls[j].ids[l][1], basicBlockMap[calls[j].ids[l][1]]>>
    BY DEF IdsInv, IdsCurrent
  <2> QED BY <2>1, <2>2
<1> QED BY <1>1, InitIds, StepKeepsIds, PTL DEF PassSpec

(***************************************************************************)
(* Types, and which blocks have a call.                                    *)
(***************************************************************************)

Kinds == {"icmp", "fcmp", "strcmp", "phi", "in", "call", "constInst", "const", "none"}

LogWord == [kind : Kinds, n : Nat, width : Nat \cup {NoWidth}, fn : Fn \cup {NoFn}]

Call == [value : Value, next : Nat \ {0}]

\* While a condition is described the pass is at the branch it belongs to.
Describing ==
    /\ cond_info \in Seq(LogWord)
    /\ frames # <<>> \/ cond_info # <<>> => ~Done /\ Term[BB].kind = "br"
    /\ frames # <<>> => frames[1].value = Term[BB].cond

\* The blocks that have a call are those of the ones visited that need one, in
\* their order.
Visited ==
    /\ \A i \in DOMAIN calls :
          \E k \in DOMAIN Order : k < at /\ Order[k] = calls[i].block /\ Instrumented(Order[k])
    /\ \A i, j \in DOMAIN calls : i < j => Before(calls[i].block, calls[j].block)
    /\ \A k \in DOMAIN Order :
          k < at /\ Instrumented(Order[k]) => \E i \in DOMAIN calls : calls[i].block = Order[k]

WalkInv == CallsList /\ PassTypeOK /\ Describing

\* What PassAssumption says of a value.
LEMMA ValueFacts ==
    ASSUME NEW v \in Value
    PROVE  /\ Def[v].op \in Op /\ Def[v].n \in Nat /\ Def[v].fn \in Fn \cup {NoFn}
           /\ Def[v].op = "icmp" => Def[v].width \in (Nat \ {0}) \cup {NoWidth}
           /\ Def[v].args \in Seq(Value)
           /\ Def[v].op \in Binary \cup {"icmp"} => Len(Def[v].args) = 2
           /\ Def[v].op = "phi" => /\ Def[v].blocks \in Seq(Block)
                                   /\ Len(Def[v].blocks) = Len(Def[v].args)
BY PassAssumption

\* A word of a known kind is one the log may have.
LEMMA Words ==
    ASSUME NEW kind \in Kinds, NEW n \in Nat, NEW width \in Nat \cup {NoWidth},
           NEW fn \in Fn \cup {NoFn}
    PROVE  Word(kind, n, width, fn) \in LogWord
BY DEF Word, LogWord

\* What opens the text of a value, by its kind.
LEMMA OpeningIs ==
    ASSUME NEW v \in Value
    PROVE  /\ Def[v].op \in Binary => Opening(v) = <<>>
           /\ Def[v].op = "phi" => Opening(v) = <<Bare("phi")>>
           /\ Def[v].op = "icmp" /\ ComparesStrings(v) => Opening(v) = <<Bare("strcmp")>>
           /\ Def[v].op = "icmp" /\ ~ComparesStrings(v) =>
                 Opening(v) = <<Word("icmp", Def[v].n, Def[v].width, NoFn)>>
           /\ Def[v].op = "fcmp" => Opening(v) = <<Word("fcmp", Def[v].n, NoWidth, NoFn)>>
           /\ Def[v].op = "call" => Opening(v) = <<Word("call", 0, NoWidth, Def[v].fn)>>
           /\ Def[v].op = "constant" => Opening(v) = <<Word("const", Def[v].n, NoWidth, NoFn)>>
           /\ Def[v].op = "other" => Opening(v) = <<Bare("constInst")>>
           /\ Def[v].op = "argument" => Opening(v) = <<Bare("none")>>
<1>1. ComparesStrings(v) => Def[v].op = "icmp"  BY DEF ComparesStrings
<1>2. CASE Def[v].op \in Binary  BY <1>1, <1>2 DEF Opening, Binary
<1>3. CASE Def[v].op = "phi"  BY <1>1, <1>3 DEF Opening, Binary
<1>4. CASE Def[v].op = "icmp" /\ ComparesStrings(v)  BY <1>4 DEF Opening, Binary
<1>5. CASE Def[v].op = "icmp" /\ ~ComparesStrings(v)  BY <1>5 DEF Opening, Binary
<1>6. CASE Def[v].op = "fcmp"  BY <1>1, <1>6 DEF Opening, Binary
<1>7. CASE Def[v].op = "call"  BY <1>1, <1>7 DEF Opening, Binary
<1>8. CASE Def[v].op = "constant"  BY <1>1, <1>8 DEF Opening, Binary
<1>9. CASE Def[v].op = "other"  BY <1>1, <1>9 DEF Opening, Binary
<1>10. CASE Def[v].op = "argument"  BY <1>1, <1>10 DEF Opening, Binary
<1> QED  BY ValueFacts, <1>2, <1>3, <1>4, <1>5, <1>6, <1>7, <1>8, <1>9, <1>10 DEF Op

\* It is made of words.
LEMMA OpeningWords ==
    ASSUME NEW v \in Value
    PROVE  Opening(v) \in Seq(LogWord)
<1>1. \A w \in LogWord : <<w>> \in Seq(LogWord)  OBVIOUS
<1>2. \A kind \in Kinds : Bare(kind) \in LogWord
  <2> SUFFICES ASSUME NEW kind \in Kinds PROVE Bare(kind) \in LogWord  OBVIOUS
  <2>1. Word(kind, 0, NoWidth, NoFn) \in LogWord  BY Words
  <2> QED  BY <2>1 DEF Bare
<1>3. CASE Def[v].op \in Binary
  <2>1. Opening(v) = <<>>  BY <1>3, OpeningIs, Zenon
  <2> QED  BY <2>1
<1>4. CASE Def[v].op \in {"phi", "other", "argument"}
  BY <1>1, <1>2, <1>4, OpeningIs DEF Kinds
<1>5. CASE Def[v].op = "icmp"
  <2>1. CASE ComparesStrings(v)  BY <1>1, <1>2, <1>5, <2>1, OpeningIs DEF Kinds
  <2>2. CASE ~ComparesStrings(v)
    <3>1. Word("icmp", Def[v].n, Def[v].width, NoFn) \in LogWord
          BY <1>5, ValueFacts, Words DEF Kinds
    <3> QED  BY <1>1, <1>5, <2>2, <3>1, OpeningIs
  <2> QED  BY <2>1, <2>2
<1>6. CASE Def[v].op \in {"fcmp", "call", "constant"}
  <2>1. /\ Word("fcmp", Def[v].n, NoWidth, NoFn) \in LogWord
        /\ Word("call", 0, NoWidth, Def[v].fn) \in LogWord
        /\ Word("const", Def[v].n, NoWidth, NoFn) \in LogWord
        BY ValueFacts, Words DEF Kinds
  <2> QED  BY <1>1, <1>6, <2>1, OpeningIs
<1> QED  BY <1>3, <1>4, <1>5, <1>6, ValueFacts DEF Op

\* The operands of a value are values.
LEMMA OperandsValues ==
    ASSUME NEW v \in Value
    PROVE  Operands(v) \in Seq(Value)
BY PassAssumption DEF Operands

\* Looking up the blocks of a call leaves a map of blocks to ids.
LEMMA WithBlocksIds ==
    ASSUME NEW map, NEW blocks \in SUBSET Block, DOMAIN map \subseteq Block,
           \A b \in DOMAIN map : map[b] \in Idx
    PROVE  /\ DOMAIN WithBlocks(map, blocks) \subseteq Block
           /\ \A b \in DOMAIN WithBlocks(map, blocks) : WithBlocks(map, blocks)[b] \in Idx
BY MapSizeAssumption DEF WithBlocks, Idx

\* Inserting a call keeps the types.
LEMMA InsertedKeepsTypes ==
    ASSUME WalkInv, ~Done, NEW blocks \in Seq(Block), NEW text, Inserted(blocks, text)
    PROVE  /\ CallsList' /\ at' = at + 1 /\ at' \in 1 .. Len(Order) + 1
           /\ Len(calls') = Len(calls) + 1 /\ Len(calls) \in Nat /\ Len(calls') < at'
           /\ \A i \in DOMAIN calls : i \in DOMAIN calls' /\ calls'[i] = calls[i]
           /\ \A i \in DOMAIN calls' : i \notin DOMAIN calls => i = Len(calls) + 1
           /\ calls'[Len(calls) + 1].block = BB /\ calls'[Len(calls) + 1].text = text
           /\ calls'[Len(calls) + 1].known = basicBlockMap
           /\ DOMAIN basicBlockMap' \subseteq Block
           /\ \A b \in DOMAIN basicBlockMap' : basicBlockMap'[b] \in Idx
<1> DEFINE call == [block |-> BB, text |-> text, known |-> basicBlockMap,
                    ids |-> [i \in DOMAIN blocks |->
                                 <<blocks[i], basicBlockMap'[blocks[i]]>>]]
           asked == {blocks[i] : i \in DOMAIN blocks}
<1>1. /\ calls' = Append(calls, call) /\ basicBlockMap' = WithBlocks(basicBlockMap, asked)
      /\ at' = at + 1
      BY DEF Inserted
<1>2. call.block = BB /\ call.text = text /\ call.known = basicBlockMap  OBVIOUS
<1>3. asked \subseteq Block  OBVIOUS
<1> HIDE DEF call, asked
<1>4. PICK S : calls \in Seq(S)  BY DEF WalkInv, CallsList
<1>5. /\ calls' \in Seq(S \cup {call}) /\ Len(calls') = Len(calls) + 1 /\ Len(calls) \in Nat
      /\ \A i \in DOMAIN calls : i \in DOMAIN calls' /\ calls'[i] = calls[i]
      /\ \A i \in DOMAIN calls' : i \notin DOMAIN calls => i = Len(calls) + 1
      /\ calls'[Len(calls) + 1] = call
  <2>1. calls \in Seq(S \cup {call})  BY <1>4
  <2> QED  BY <1>1, <2>1
<1>6. CallsList'  BY <1>5 DEF CallsList
<1>7. /\ DOMAIN basicBlockMap' \subseteq Block
      /\ \A b \in DOMAIN basicBlockMap' : basicBlockMap'[b] \in Idx
      BY <1>1, <1>3, WithBlocksIds DEF WalkInv, PassTypeOK
<1>8. at \in 1 .. Len(Order) + 1 /\ Len(calls) < at /\ Len(Order) \in Nat
      BY PassAssumption DEF WalkInv, PassTypeOK
<1>9. at' \in 1 .. Len(Order) + 1 /\ Len(calls') < at'  BY <1>1, <1>5, <1>8 DEF Done
<1> QED  BY <1>1, <1>2, <1>5, <1>6, <1>7, <1>9

\* A frame's operand counter moves on, and the stack stays one of calls; the value
\* the first of them is for stays.
LEMMA StackMoves ==
    ASSUME frames \in Seq(Call), frames # <<>>
    PROVE  /\ Advanced \in Seq(Call) /\ Len(Advanced) = Len(frames)
           /\ \A k \in DOMAIN frames : Advanced[k].value = frames[k].value
           /\ Front(frames) \in Seq(Call)
           /\ Front(frames) # <<>> => Front(frames)[1] = frames[1]
           /\ Top \in Call
<1>1. Top \in Call  BY DEF Top
<1>2. Len(frames) \in DOMAIN frames  OBVIOUS
<1>3. [Top EXCEPT !.next = @ + 1] \in Call /\ [Top EXCEPT !.next = @ + 1].value = Top.value
      BY <1>1 DEF Call
<1>4. Advanced = [frames EXCEPT ![Len(frames)] = [Top EXCEPT !.next = @ + 1]]
      BY DEF Advanced, Top
<1>5. Advanced \in Seq(Call) /\ Len(Advanced) = Len(frames)
  <2> DEFINE t == [Top EXCEPT !.next = @ + 1]
  <2> HIDE DEF t
  <2> QED  BY <1>2, <1>3, <1>4 DEF t
<1>6. \A k \in DOMAIN frames : Advanced[k].value = frames[k].value
  BY <1>3, <1>4 DEF Top
<1>7. Front(frames) = SubSeq(frames, 1, Len(frames) - 1)  BY DEF Front
<1>8. Front(frames) \in Seq(Call) /\ (Front(frames) # <<>> => Front(frames)[1] = frames[1])
  BY <1>7
<1> QED  BY <1>1, <1>5, <1>6, <1>8

\* The words of a text have one of the kinds.
LEMMA KindsOfText ==
    ASSUME NEW text \in Seq(LogWord)
    PROVE  \A i \in DOMAIN text : text[i].kind \in Kinds
<1> SUFFICES ASSUME NEW i \in DOMAIN text PROVE text[i].kind \in Kinds  OBVIOUS
<1>1. text[i] \in LogWord  OBVIOUS
<1> QED  BY <1>1 DEF LogWord

\* The operand a call of getBrCond is for next is a value; an incoming block
\* that is not left out has an id.
LEMMA NextOperand ==
    ASSUME WalkInv, frames # <<>>, Pending
    PROVE  /\ Top \in Call /\ Top.value \in Value /\ Top.next \in DOMAIN Operands(Top.value)
           /\ Operands(Top.value)[Top.next] \in Value
           /\ Def[Top.value].op = "phi" /\ ~Unknown =>
                 Word("in", basicBlockMap[Def[Top.value].blocks[Top.next]], NoWidth, NoFn)
                     \in LogWord
<1>1. Top \in Call  BY StackMoves DEF WalkInv, PassTypeOK, Call
<1>2. Top.value \in Value /\ Top.next \in Nat \ {0}  BY <1>1 DEF Call
<1>3. Operands(Top.value) \in Seq(Value)  BY <1>2, OperandsValues
<1>4. Top.next \in DOMAIN Operands(Top.value)  BY <1>2, <1>3 DEF Pending
<1>5. Operands(Top.value)[Top.next] \in Value  BY <1>3, <1>4
<1>6. ASSUME Def[Top.value].op = "phi", ~Unknown
      PROVE  Word("in", basicBlockMap[Def[Top.value].blocks[Top.next]], NoWidth, NoFn) \in LogWord
  <2>1. Def[Top.value].blocks[Top.next] \in DOMAIN basicBlockMap  BY <1>6 DEF Unknown
  <2>2. basicBlockMap[Def[Top.value].blocks[Top.next]] \in Nat
        BY <2>1, MapSizeAssumption DEF WalkInv, PassTypeOK, Idx
  <2> QED  BY <2>2, Words DEF Kinds
<1> QED  BY <1>1, <1>2, <1>4, <1>5, <1>6

\* The block visited, and the blocks it may go to.
LEMMA AtBlock ==
    ASSUME WalkInv, ~Done
    PROVE  /\ at \in DOMAIN Order /\ BB = Order[at] /\ BB \in Block
           /\ Term[BB].succ \in Seq(Block) /\ Term[BB].default \in Block
           /\ Term[BB].kind \in {"br", "switch", "jump", "exit"}
           /\ Term[BB].kind \in {"br", "switch"} => Term[BB].cond \in Value
<1>1. at \in DOMAIN Order  BY PassAssumption DEF WalkInv, PassTypeOK, Done
<1>2. BB \in Block  BY <1>1, PassAssumption DEF BB
<1> QED  BY <1>1, <1>2, PassAssumption DEF BB

\* The word a PHI puts before its incoming value.
Lead(known, v, k) ==
    IF Def[v].op # "phi" THEN <<>> ELSE <<Word("in", known[Def[v].blocks[k]], NoWidth, NoFn)>>

\* Every step keeps the types, and describes no condition but that of the branch at hand.
LEMMA WalkStep ==
    ASSUME WalkInv, [PassNext]_passVars
    PROVE  WalkInv'
<1> DEFINE Stack == frames \in Seq(Call)
<1>0. /\ Stack /\ cond_info \in Seq(LogWord)
      /\ DOMAIN basicBlockMap \subseteq Block
      /\ \A b \in DOMAIN basicBlockMap : basicBlockMap[b] \in Idx
      /\ at \in 1 .. Len(Order) + 1 /\ Len(calls) < at
      BY DEF WalkInv, PassTypeOK, Describing, Call
<1>1. ASSUME Stack', cond_info' \in Seq(LogWord), UNCHANGED <<basicBlockMap, at, calls>>,
             ~Done, Term[BB].kind = "br", frames' # <<>> => frames'[1].value = Term[BB].cond
      PROVE  WalkInv'
  <2>1. CallsList'  BY <1>1 DEF WalkInv, CallsList
  <2>2. \A i \in DOMAIN cond_info' : cond_info'[i].kind \in Kinds  BY <1>1, KindsOfText
  <2>3. PassTypeOK'  BY <1>0, <1>1, <2>2 DEF PassTypeOK, Call, Kinds
  <2>4. Describing'  BY <1>1 DEF Describing, Done, BB
  <2> QED  BY <2>1, <2>3, <2>4 DEF WalkInv
<1>2. ASSUME frames' = <<>>, cond_info' = <<>>, CallsList', at' \in 1 .. Len(Order) + 1,
             Len(calls') < at', DOMAIN basicBlockMap' \subseteq Block,
             \A b \in DOMAIN basicBlockMap' : basicBlockMap'[b] \in Idx
      PROVE  WalkInv'
  <2>1. PassTypeOK'  BY <1>2 DEF PassTypeOK
  <2>2. Describing'  BY <1>2 DEF Describing
  <2> QED  BY <1>2, <2>1, <2>2 DEF WalkInv
<1>3. CASE Condition
  <2>1. /\ ~Done /\ Term[BB].kind = "br" /\ UNCHANGED <<basicBlockMap, at, calls>>
        /\ frames' = <<Frame(Term[BB].cond)>> /\ cond_info' = Opening(Term[BB].cond)
        BY <1>3 DEF Condition
  <2>2. Term[BB].cond \in Value  BY <2>1, AtBlock
  <2>3. Frame(Term[BB].cond) \in Call /\ Frame(Term[BB].cond).value = Term[BB].cond
        BY <2>2 DEF Frame, Call
  <2>4. Stack' /\ frames'[1].value = Term[BB].cond  BY <2>1, <2>3
  <2> QED  BY <1>1, <2>1, <2>2, <2>4, OpeningWords
<1>4. CASE Recurse
  <2>1. /\ frames # <<>> /\ Pending /\ UNCHANGED <<basicBlockMap, at, calls>>
        /\ ~Done /\ Term[BB].kind = "br" /\ frames[1].value = Term[BB].cond
        BY <1>4 DEF Recurse, WalkInv, Describing
  <2>2. /\ Advanced \in Seq(Call) /\ Advanced # <<>> /\ Advanced[1].value = Term[BB].cond
    <3>1. 1 \in DOMAIN frames  BY <1>0, <2>1
    <3>2. /\ Advanced \in Seq(Call) /\ Len(Advanced) = Len(frames)
          /\ Advanced[1].value = frames[1].value
          BY <1>0, <2>1, <3>1, StackMoves
    <3> QED  BY <2>1, <3>1, <3>2
  <2>3. CASE Unknown
    <3>1. frames' = Advanced /\ UNCHANGED cond_info  BY <1>4, <2>3 DEF Recurse, SkipOperand
    <3> QED  BY <1>0, <1>1, <2>1, <2>2, <3>1
  <2>4. CASE ~Unknown
    <3> DEFINE v == Operands(Top.value)[Top.next]
               lead == Lead(basicBlockMap, Top.value, Top.next)
    <3>1. frames' = Append(Advanced, Frame(v)) /\ cond_info' = cond_info \o lead \o Opening(v)
          BY <1>4, <2>4 DEF Recurse, Lead
    <3>2. v \in Value  BY <2>1, NextOperand
    <3>3. lead \in Seq(LogWord)
      <4>1. CASE Def[Top.value].op = "phi"
        <5>1. lead = <<Word("in", basicBlockMap[Def[Top.value].blocks[Top.next]], NoWidth, NoFn)>>
              BY <4>1 DEF Lead
        <5>2. Word("in", basicBlockMap[Def[Top.value].blocks[Top.next]], NoWidth, NoFn) \in LogWord
              BY <2>1, <2>4, <4>1, NextOperand
        <5> HIDE DEF lead
        <5> QED  BY <5>1, <5>2
      <4>2. CASE Def[Top.value].op # "phi"  BY <4>2 DEF Lead
      <4> QED  BY <4>1, <4>2
    <3>4. Opening(v) \in Seq(LogWord)  BY <3>2, OpeningWords
    <3>5. Frame(v) \in Call  BY <3>2 DEF Frame, Call
    <3> HIDE DEF v, lead
    <3>6. cond_info' \in Seq(LogWord)  BY <1>0, <3>1, <3>3, <3>4
    <3>7. Stack' /\ frames'[1].value = Term[BB].cond  BY <2>2, <3>1, <3>5
    <3> QED  BY <1>1, <2>1, <3>6, <3>7
  <2> QED  BY <2>3, <2>4
<1>5. CASE Return
  <2>1. /\ frames # <<>> /\ frames' = Front(frames)
        /\ UNCHANGED <<basicBlockMap, at, cond_info, calls>>
        /\ ~Done /\ Term[BB].kind = "br" /\ frames[1].value = Term[BB].cond
        BY <1>5 DEF Return, WalkInv, Describing
  <2>2. /\ Front(frames) \in Seq(Call)
        /\ Front(frames) # <<>> => Front(frames)[1] = frames[1]
        BY <1>0, <2>1, StackMoves
  <2> QED  BY <1>0, <1>1, <2>1, <2>2
<1>6. CASE LogBranch
  <2>1. /\ frames = <<>> /\ cond_info # <<>> /\ cond_info' = <<>> /\ UNCHANGED frames
        /\ Inserted(<<BB>> \o Term[BB].succ, cond_info)
        BY <1>6 DEF LogBranch, Described
  <2>2. ~Done  BY <2>1 DEF WalkInv, Describing
  <2>3. <<BB>> \o Term[BB].succ \in Seq(Block)  BY <2>2, AtBlock
  <2> QED  BY <1>2, <2>1, <2>2, <2>3, InsertedKeepsTypes
<1>7. CASE visitSwitchInst
  <2>1. /\ ~Done /\ Term[BB].kind = "switch" /\ UNCHANGED <<frames, cond_info>>
        /\ Inserted(<<BB, Term[BB].default>> \o Term[BB].succ, <<>>)
        BY <1>7 DEF visitSwitchInst
  <2>2. frames = <<>> /\ cond_info = <<>>  BY <2>1 DEF WalkInv, Describing
  <2>3. <<BB, Term[BB].default>> \o Term[BB].succ \in Seq(Block)  BY <2>1, AtBlock
  <2> QED  BY <1>2, <2>1, <2>2, <2>3, InsertedKeepsTypes
<1>8. CASE NextBlock
  <2>1. /\ ~Done /\ PassesOver(BB) /\ at' = at + 1
        /\ UNCHANGED <<basicBlockMap, frames, cond_info, calls>>
        BY <1>8 DEF NextBlock
  <2>2. frames = <<>> /\ cond_info = <<>>  BY <2>1 DEF WalkInv, Describing, PassesOver
  <2>3. CallsList'  BY <2>1 DEF WalkInv, CallsList
  <2>4. Len(calls) \in Nat  BY DEF WalkInv, CallsList
  <2>5. at' \in 1 .. Len(Order) + 1 /\ Len(calls') < at'
        BY <1>0, <2>1, <2>4, PassAssumption DEF Done
  <2> QED  BY <1>0, <1>2, <2>1, <2>2, <2>3, <2>5
<1>9. CASE UNCHANGED passVars
  BY <1>9 DEF passVars, WalkInv, CallsList, PassTypeOK, Describing, Done, BB
<1> QED  BY <1>3, <1>4, <1>5, <1>6, <1>7, <1>8, <1>9 DEF PassNext

\* At first nothing is described and nothing is called.
LEMMA WalkInit == PassInit => WalkInv
<1> SUFFICES ASSUME PassInit PROVE WalkInv  OBVIOUS
<1>1. /\ at = 1 /\ frames = <<>> /\ cond_info = <<>> /\ calls = <<>>
      /\ \E known \in SUBSET Block : basicBlockMap \in [known -> AFL_R(MAP_SIZE)]
      BY DEF PassInit
<1>2. /\ DOMAIN basicBlockMap \subseteq Block
      /\ \A b \in DOMAIN basicBlockMap : basicBlockMap[b] \in Idx
      BY <1>1 DEF AFL_R, Idx
<1>3. CallsList  BY InitIds DEF IdsInv
<1>4. PassTypeOK
  <2>1. at \in 1 .. Len(Order) + 1 /\ Len(calls) < at  BY <1>1, PassAssumption
  <2> QED  BY <1>1, <1>2, <2>1 DEF PassTypeOK
<1>5. Describing  BY <1>1 DEF Describing
<1> QED  BY <1>3, <1>4, <1>5 DEF WalkInv

\* Inserting a call at a block that needs one adds it to the blocks that have one.
LEMMA InsertedVisits ==
    ASSUME WalkInv, Visited, ~Done, Instrumented(BB), NEW blocks \in Seq(Block), NEW text,
           Inserted(blocks, text)
    PROVE  Visited'
<1> DEFINE n == Len(calls)
<1>1. /\ at' = at + 1 /\ Len(calls') = n + 1 /\ n \in Nat
      /\ \A i \in DOMAIN calls : i \in DOMAIN calls' /\ calls'[i] = calls[i]
      /\ \A i \in DOMAIN calls' : i \notin DOMAIN calls => i = n + 1
      /\ calls'[n + 1].block = BB /\ CallsList'
      BY InsertedKeepsTypes
<1>2. at \in DOMAIN Order /\ BB = Order[at] /\ DOMAIN Order \subseteq Nat
      BY AtBlock, PassAssumption
<1>3. n + 1 \in DOMAIN calls' /\ DOMAIN calls = 1 .. n
      BY <1>1 DEF CallsList, WalkInv
<1> HIDE DEF n
<1>4. \A i \in DOMAIN calls' :
          \E k \in DOMAIN Order : k < at' /\ Order[k] = calls'[i].block /\ Instrumented(Order[k])
  <2> SUFFICES ASSUME NEW i \in DOMAIN calls'
               PROVE  \E k \in DOMAIN Order :
                          k < at' /\ Order[k] = calls'[i].block /\ Instrumented(Order[k])
      OBVIOUS
  <2>1. CASE i \in DOMAIN calls
    <3>1. PICK k \in DOMAIN Order : k < at /\ Order[k] = calls[i].block /\ Instrumented(Order[k])
          BY <2>1 DEF Visited
    <3>2. k < at'  BY <1>1, <1>2, <3>1
    <3> QED  BY <1>1, <2>1, <3>1, <3>2
  <2>2. CASE i \notin DOMAIN calls
    <3>1. calls'[i].block = Order[at] /\ at < at' /\ Instrumented(Order[at])
          BY <1>1, <1>2, <2>2
    <3> QED  BY <1>2, <3>1
  <2> QED  BY <2>1, <2>2
<1>5. \A i, j \in DOMAIN calls' : i < j => Before(calls'[i].block, calls'[j].block)
  <2> SUFFICES ASSUME NEW i \in DOMAIN calls', NEW j \in DOMAIN calls', i < j
               PROVE  Before(calls'[i].block, calls'[j].block)
      OBVIOUS
  <2>1. i \in DOMAIN calls  BY <1>1, <1>3
  <2>2. CASE j \in DOMAIN calls  BY <1>1, <2>1, <2>2 DEF Visited
  <2>3. CASE j \notin DOMAIN calls
    <3>1. PICK k \in DOMAIN Order : k < at /\ Order[k] = calls[i].block
          BY <2>1 DEF Visited
    <3>2. calls'[i].block = Order[k] /\ calls'[j].block = Order[at]
          BY <1>1, <1>2, <2>1, <2>3, <3>1
    <3> QED  BY <1>2, <3>1, <3>2 DEF Before
  <2> QED  BY <2>2, <2>3
<1>6. \A k \in DOMAIN Order :
          k < at' /\ Instrumented(Order[k]) => \E i \in DOMAIN calls' : calls'[i].block = Order[k]
  <2> SUFFICES ASSUME NEW k \in DOMAIN Order, k < at', Instrumented(Order[k])
               PROVE  \E i \in DOMAIN calls' : calls'[i].block = Order[k]
      OBVIOUS
  <2>1. CASE k < at
    <3>1. PICK i \in DOMAIN calls : calls[i].block = Order[k]  BY <2>1 DEF Visited
    <3> QED  BY <1>1, <3>1
  <2>2. CASE ~(k < at)
    <3>1. k = at  BY <1>1, <1>2, <2>2
    <3> QED  BY <1>1, <1>2, <1>3, <3>1
  <2> QED  BY <2>1, <2>2
<1> QED  BY <1>4, <1>5, <1>6 DEF Visited

\* A block is passed over only if it needs no call.
LEMMA VisitedStep ==
    ASSUME WalkInv, Visited, [PassNext]_passVars
    PROVE  Visited'
<1>1. CASE UNCHANGED <<at, calls>>  BY <1>1 DEF Visited
<1>2. CASE LogBranch
  <2>1. ~Done /\ Term[BB].kind = "br" /\ Inserted(<<BB>> \o Term[BB].succ, cond_info)
        BY <1>2 DEF LogBranch, Described, WalkInv, Describing
  <2>2. <<BB>> \o Term[BB].succ \in Seq(Block)  BY <2>1, AtBlock
  <2>3. Instrumented(BB)  BY <2>1 DEF Instrumented
  <2> QED  BY <2>1, <2>2, <2>3, InsertedVisits
<1>3. CASE visitSwitchInst
  <2>1. ~Done /\ Instrumented(BB) /\ Inserted(<<BB, Term[BB].default>> \o Term[BB].succ, <<>>)
        BY <1>3 DEF visitSwitchInst, Instrumented
  <2>2. <<BB, Term[BB].default>> \o Term[BB].succ \in Seq(Block)  BY <2>1, AtBlock
  <2> QED  BY <2>1, <2>2, InsertedVisits
<1>4. CASE NextBlock
  <2>1. ~Done /\ PassesOver(BB) /\ at' = at + 1 /\ UNCHANGED calls  BY <1>4 DEF NextBlock
  <2>2. at \in DOMAIN Order /\ BB = Order[at] /\ DOMAIN Order \subseteq Nat
        BY <2>1, AtBlock, PassAssumption
  <2>3. ~Instrumented(Order[at])  BY <2>1, <2>2 DEF PassesOver, Instrumented
  <2>4. \A k \in DOMAIN Order : k < at' /\ Instrumented(Order[k]) => k < at
        BY <2>1, <2>2, <2>3
  <2>5. \A k \in DOMAIN Order : k < at => k < at'  BY <2>1, <2>2
  <2> QED  BY <2>1, <2>4, <2>5 DEF Visited
<1>5. CASE Condition \/ Recurse \/ Return \/ UNCHANGED passVars
  BY <1>1, <1>5 DEF Condition, Recurse, Return, passVars
<1> QED  BY <1>2, <1>3, <1>4, <1>5 DEF PassNext

\* The pass keeps its types: ids below MAP_SIZE, a stack of calls for values, a text
\* of known words, and fewer calls inserted than blocks visited
\* (trace-pass.so.cc:50-65, 77-157, 222-266).
THEOREM PassTypeCorrect == PassSpec => []PassTypeOK
<1>1. WalkInv => PassTypeOK  BY DEF WalkInv
<1>2. WalkInv /\ [PassNext]_passVars => WalkInv'  BY WalkStep
<1> QED  BY <1>1, <1>2, WalkInit, PTL DEF PassSpec

\* When the pass is done every conditional branch, and every switch on something else
\* than a call, has one call, in the order of the blocks (trace-pass.so.cc:244-258).
THEOREM EveryBranch == PassSpec => []AllInstrumented
<1>1. PassInit => WalkInv /\ Visited
  <2>1. PassInit => Visited
    <3> SUFFICES ASSUME PassInit PROVE Visited  OBVIOUS
    <3>1. at = 1 /\ calls = <<>> /\ DOMAIN Order \subseteq Nat \ {0}
          BY PassAssumption DEF PassInit
    <3> QED  BY <3>1 DEF Visited
  <2> QED  BY <2>1, WalkInit
<1>2. WalkInv /\ Visited /\ [PassNext]_passVars => (WalkInv /\ Visited)'
      BY WalkStep, VisitedStep
<1>3. WalkInv /\ Visited => AllInstrumented
  <2> SUFFICES ASSUME WalkInv, Visited, Done
               PROVE  /\ {calls[i].block : i \in DOMAIN calls} = {b \in Block : Instrumented(b)}
                      /\ \A i, j \in DOMAIN calls : i < j => Before(calls[i].block, calls[j].block)
      BY DEF AllInstrumented
  <2>1. \A k \in DOMAIN Order : k < at /\ Order[k] \in Block
        BY PassAssumption DEF Done, WalkInv, PassTypeOK
  <2>2. \A b \in Block : \E k \in DOMAIN Order : Order[k] = b  BY PassAssumption
  <2>3. ASSUME NEW i \in DOMAIN calls
        PROVE  calls[i].block \in Block /\ Instrumented(calls[i].block)
    <3>1. PICK k \in DOMAIN Order : Order[k] = calls[i].block /\ Instrumented(Order[k])
          BY DEF Visited
    <3> QED  BY <2>1, <3>1
  <2>4. ASSUME NEW b \in Block, Instrumented(b)
        PROVE  \E i \in DOMAIN calls : calls[i].block = b
    <3>1. PICK k \in DOMAIN Order : Order[k] = b  BY <2>2
    <3> QED  BY <2>1, <2>4, <3>1 DEF Visited
  <2>5. {calls[i].block : i \in DOMAIN calls} = {b \in Block : Instrumented(b)}
        BY <2>3, <2>4
  <2> QED  BY <2>5 DEF Visited
<1> QED  BY <1>1, <1>2, <1>3, PTL DEF PassSpec

(***************************************************************************)
(* Induction over the naturals, said with sets, and a function defined by  *)
(* recursion over them.                                                    *)
(***************************************************************************)

\* A set with 0 and the successors of its members has every natural number.
LEMMA Induction ==
    ASSUME NEW S \in SUBSET Nat, 0 \in S, \A n \in S : n + 1 \in S
    PROVE  S = Nat
<1> DEFINE R == OpToRel(<, Nat)
<1>1. SUFFICES ASSUME Nat \ S # {} PROVE FALSE  OBVIOUS
<1>2. PICK n \in Nat \ S : \A m \in Nat \ S : <<m, n>> \notin R
  <2>1. IsWellFoundedOn(R, Nat)  BY NatLessThanWellFounded
  <2>2. Nat \ S \in SUBSET Nat  OBVIOUS
  <2> HIDE DEF R
  <2> QED  BY <1>1, <2>1, <2>2, WFMin
<1>3. \A m \in Nat \ S : ~(m < n)  BY <1>2 DEF OpToRel
<1>4. n - 1 \in Nat /\ n - 1 < n /\ (n - 1) + 1 = n
  <2>1. n \in Nat /\ n # 0  BY <1>2
  <2> QED  BY <2>1
<1>5. n - 1 \in S  BY <1>3, <1>4
<1> QED  BY <1>2, <1>4, <1>5

\* f satisfies the recursion for the first n steps.
Unrolls(f, T, a, step, n) ==
    /\ f \in [0 .. n -> T] /\ f[0] = a
    /\ \A i \in 0 .. n - 1 : f[i + 1] = step[<<i, f[i]>>]

StepOn(step, T) == step \in [Nat \X T -> T]

Iterates(f, T, a, step) ==
    f \in [Nat -> T] /\ f[0] = a /\ \A n \in Nat : f[n + 1] = step[<<n, f[n]>>]

\* The first steps of a recursion are the same however many are made.
LEMMA UnrollsSame ==
    ASSUME NEW T, NEW a \in T, NEW step, StepOn(step, T), NEW m \in Nat, NEW n \in Nat,
           NEW f, NEW g, Unrolls(f, T, a, step, m), Unrolls(g, T, a, step, n)
    PROVE  \A i \in Nat : i <= m /\ i <= n => f[i] = g[i]
<1> DEFINE S == {i \in Nat : i <= m /\ i <= n => f[i] = g[i]}
<1>1. 0 \in S  BY DEF Unrolls
<1>2. \A i \in S : i + 1 \in S
  <2> SUFFICES ASSUME NEW i \in S, i + 1 <= m, i + 1 <= n PROVE f[i + 1] = g[i + 1]
      OBVIOUS
  <2>1. i \in Nat /\ f[i] = g[i] /\ i \in 0 .. m - 1 /\ i \in 0 .. n - 1  OBVIOUS
  <2>2. f[i + 1] = step[<<i, f[i]>>] /\ g[i + 1] = step[<<i, g[i]>>]  BY <2>1 DEF Unrolls
  <2> QED  BY <2>1, <2>2
<1>3. S = Nat
  <2> HIDE DEF S
  <2>1. S \in SUBSET Nat  BY DEF S
  <2> QED  BY <1>1, <1>2, <2>1, Induction
<1> QED  BY <1>3

\* Any number of steps can be made.
LEMMA UnrollsOn ==
    ASSUME NEW T, NEW a \in T, NEW step, StepOn(step, T)
    PROVE  \A n \in Nat : \E f : Unrolls(f, T, a, step, n)
<1> DEFINE S == {n \in Nat : \E f : Unrolls(f, T, a, step, n)}
<1>1. 0 \in S
  <2>1. Unrolls([i \in 0 .. 0 |-> a], T, a, step, 0)  BY DEF Unrolls
  <2> QED  BY <2>1
<1>2. \A n \in S : n + 1 \in S
  <2> SUFFICES ASSUME NEW n \in S PROVE n + 1 \in S  OBVIOUS
  <2>1. n \in Nat  OBVIOUS
  <2>2. PICK f : Unrolls(f, T, a, step, n)  OBVIOUS
  <2> DEFINE g == [i \in 0 .. n + 1 |-> IF i <= n THEN f[i] ELSE step[<<n, f[n]>>]]
  <2>3. f[n] \in T /\ <<n, f[n]>> \in Nat \X T /\ step \in [Nat \X T -> T]
        BY <2>1, <2>2 DEF Unrolls, StepOn
  <2>4. g \in [0 .. n + 1 -> T] /\ g[0] = a  BY <2>1, <2>2, <2>3 DEF Unrolls
  <2>5. \A i \in 0 .. n : g[i + 1] = step[<<i, g[i]>>]
    <3> SUFFICES ASSUME NEW i \in 0 .. n PROVE g[i + 1] = step[<<i, g[i]>>]  OBVIOUS
    <3>1. g[i] = f[i]  BY <2>1
    <3>2. CASE i = n
      <4>1. i + 1 \in 0 .. n + 1 /\ ~(i + 1 <= n)  BY <2>1, <3>2
      <4>2. g[i + 1] = step[<<n, f[n]>>]  BY <4>1
      <4> QED  BY <3>1, <3>2, <4>2
    <3>3. CASE i < n
      <4>1. i \in 0 .. n - 1 /\ i + 1 <= n  BY <2>1, <3>3
      <4>2. f[i + 1] = step[<<i, f[i]>>]  BY <4>1, <2>2 DEF Unrolls
      <4>3. g[i + 1] = f[i + 1]  BY <2>1, <4>1
      <4> QED  BY <3>1, <4>2, <4>3
    <3> QED  BY <2>1, <3>2, <3>3
  <2> HIDE DEF g
  <2>6. (n + 1) - 1 = n  BY <2>1
  <2>7. Unrolls(g, T, a, step, n + 1)  BY <2>1, <2>4, <2>5, <2>6 DEF Unrolls
  <2> QED  BY <2>1, <2>7
<1>3. S = Nat
  <2> HIDE DEF S
  <2>1. S \in SUBSET Nat  BY DEF S
  <2> QED  BY <1>1, <1>2, <2>1, Induction
<1> QED  BY <1>3

\* So there is a function that makes them all.
LEMMA Recursion ==
    ASSUME NEW T, NEW a \in T, NEW step, StepOn(step, T)
    PROVE  \E f : Iterates(f, T, a, step)
<1> DEFINE upto(n) == CHOOSE f : Unrolls(f, T, a, step, n)
           f == [n \in Nat |-> upto(n)[n]]
<1>1. \A n \in Nat : Unrolls(upto(n), T, a, step, n)  BY UnrollsOn
<1> HIDE DEF upto
<1>2. f \in [Nat -> T]  BY <1>1 DEF Unrolls
<1>3. f[0] = a  BY <1>1 DEF Unrolls
<1>4. ASSUME NEW n \in Nat PROVE f[n + 1] = step[<<n, f[n]>>]
  <2>1. /\ Unrolls(upto(n), T, a, step, n) /\ Unrolls(upto(n + 1), T, a, step, n + 1)
        BY <1>1
  <2>2. upto(n + 1)[n + 1] = step[<<n, upto(n + 1)[n]>>]
    <3>1. n \in 0 .. (n + 1) - 1  OBVIOUS
    <3> QED  BY <2>1, <3>1 DEF Unrolls
  <2>3. upto(n + 1)[n] = upto(n)[n]
    <3>1. PICK g, h, m :
              /\ m \in Nat /\ g = upto(n + 1) /\ h = upto(n) /\ m = n + 1
              /\ Unrolls(g, T, a, step, m) /\ Unrolls(h, T, a, step, n)
      <4>1. n + 1 \in Nat  OBVIOUS
      <4> QED  BY <2>1, <4>1, Zenon
    <3>2. \A i \in Nat : i <= m /\ i <= n => g[i] = h[i]  BY <3>1, UnrollsSame
    <3>3. n <= m  BY <3>1
    <3>4. g[n] = h[n]  BY <3>2, <3>3
    <3> QED  BY <3>1, <3>4
  <2> QED  BY <2>2, <2>3
<1> HIDE DEF f
<1> QED  BY <1>2, <1>3, <1>4 DEF Iterates

(***************************************************************************)
(* What a condition is made of.                                            *)
(***************************************************************************)

\* The operands of values are values, so a set of values only grows to one.
LEMMA WithOperandsValues ==
    ASSUME NEW S \in SUBSET Value
    PROVE  WithOperands(S) \in SUBSET Value /\ S \subseteq WithOperands(S)
<1>1. \A u \in S : \A i \in DOMAIN Operands(u) : Operands(u)[i] \in Value
  <2> SUFFICES ASSUME NEW u \in S, NEW i \in DOMAIN Operands(u) PROVE Operands(u)[i] \in Value
      OBVIOUS
  <2>1. Operands(u) \in Seq(Value)  BY OperandsValues
  <2> QED  BY <2>1
<1> QED  BY <1>1 DEF WithOperands

\* A set that stops growing has the operands of its members.
LEMMA WithOperandsClosed ==
    ASSUME NEW S, WithOperands(S) = S
    PROVE  \A u \in S : \A i \in DOMAIN Operands(u) : Operands(u)[i] \in S
BY DEF WithOperands

\* Operands are added for as many rounds as there are values, which is enough: Parts
\* is a set of values that has v and the operands of its members.
LEMMA PartsClosed ==
    ASSUME NEW v \in Value
    PROVE  /\ v \in Parts(v) /\ Parts(v) \subseteq Value
           /\ \A u \in Parts(v) : \A i \in DOMAIN Operands(u) : Operands(u)[i] \in Parts(v)
<1> DEFINE step == [p \in Nat \X SUBSET Value |-> WithOperands(p[2])]
           Rounds(f) == f = [n \in Nat |-> IF n = 0 THEN {v} ELSE WithOperands(f[n - 1])]
           parts == CHOOSE f : Rounds(f)
           N == Cardinality(Value)
<1>1. \E f : Rounds(f)
  <2>1. step \in [Nat \X SUBSET Value -> SUBSET Value]  BY WithOperandsValues
  <2>2. {v} \in SUBSET Value  OBVIOUS
  <2> HIDE DEF step
  <2>3. PICK f \in [Nat -> SUBSET Value] :
            f[0] = {v} /\ \A n \in Nat : f[n + 1] = step[<<n, f[n]>>]
    <3>1. StepOn(step, SUBSET Value)  BY <2>1 DEF StepOn
    <3>2. \E f : Iterates(f, SUBSET Value, {v}, step)  BY <2>2, <3>1, Recursion, Zenon
    <3> QED  BY <3>2 DEF Iterates
  <2>4. \A n \in Nat : f[n + 1] = WithOperands(f[n])  BY <2>3 DEF step
  <2>5. \A n \in Nat : f[n] = IF n = 0 THEN {v} ELSE WithOperands(f[n - 1])
    <3> SUFFICES ASSUME NEW n \in Nat, n # 0 PROVE f[n] = WithOperands(f[n - 1])
        BY <2>3
    <3>1. n - 1 \in Nat /\ (n - 1) + 1 = n  OBVIOUS
    <3> QED  BY <2>4, <3>1
  <2>6. f = [n \in Nat |-> IF n = 0 THEN {v} ELSE WithOperands(f[n - 1])]  BY <2>3, <2>5
  <2> QED  BY <2>6
<1>2. Rounds(parts)
  <2> HIDE DEF Rounds
  <2> QED  BY <1>1
<1>3. Parts(v) = parts[N]  BY DEF Parts
<1> HIDE DEF parts
<1>4. parts[0] = {v} /\ \A n \in Nat : parts[n + 1] = WithOperands(parts[n])
  <2>1. \A n \in Nat : parts[n] = IF n = 0 THEN {v} ELSE WithOperands(parts[n - 1])  BY <1>2
  <2>2. \A n \in Nat : n + 1 \in Nat /\ n + 1 # 0 /\ (n + 1) - 1 = n  OBVIOUS
  <2> QED  BY <2>1, <2>2
<1> HIDE DEF Rounds
<1>5. \A n \in Nat : parts[n] \in SUBSET Value /\ v \in parts[n]
  <2> DEFINE S == {n \in Nat : parts[n] \in SUBSET Value /\ v \in parts[n]}
  <2>1. 0 \in S  BY <1>4
  <2>2. \A n \in S : n + 1 \in S  BY <1>4, WithOperandsValues
  <2>3. S = Nat
    <3> HIDE DEF S
    <3>1. S \in SUBSET Nat  BY DEF S
    <3> QED  BY <2>1, <2>2, <3>1, Induction
  <2> QED  BY <2>3
<1>6. IsFiniteSet(Value) /\ N \in Nat  BY PassAssumption, FS_CardinalityType
<1>7. \A n \in Nat : parts[n + 1] = parts[n] \/ Cardinality(parts[n]) > n
  <2> DEFINE S == {n \in Nat : parts[n + 1] = parts[n] \/ Cardinality(parts[n]) > n}
  <2>1. 0 \in S
    <3>1. Cardinality(parts[0]) = 1  BY <1>4, FS_Singleton
    <3> QED  BY <3>1
  <2>2. \A n \in S : n + 1 \in S
    <3> SUFFICES ASSUME NEW n \in Nat, parts[n + 1] = parts[n] \/ Cardinality(parts[n]) > n
                 PROVE  parts[(n + 1) + 1] = parts[n + 1] \/ Cardinality(parts[n + 1]) > n + 1
        OBVIOUS
    <3>1. n + 1 \in Nat  OBVIOUS
    <3>2. parts[(n + 1) + 1] = WithOperands(parts[n + 1]) /\ parts[n + 1] = WithOperands(parts[n])
          BY <1>4, <3>1
    <3>3. CASE parts[n + 1] = parts[n]  BY <3>2, <3>3
    <3>4. CASE parts[n + 1] # parts[n] /\ Cardinality(parts[n]) > n
      <4>1. parts[n + 1] \in SUBSET Value /\ parts[n] \subseteq parts[n + 1]
            BY <1>5, <3>1, <3>2, WithOperandsValues
      <4>2. IsFiniteSet(parts[n + 1])  BY <1>6, <4>1, FS_Subset
      <4>3. /\ Cardinality(parts[n]) <= Cardinality(parts[n + 1])
            /\ Cardinality(parts[n + 1]) = Cardinality(parts[n]) => parts[n + 1] = parts[n]
            BY <4>1, <4>2, FS_Subset
      <4>4. IsFiniteSet(parts[n])  BY <4>1, <4>2, FS_Subset
      <4>5. Cardinality(parts[n]) \in Nat /\ Cardinality(parts[n + 1]) \in Nat
            BY <4>2, <4>4, FS_CardinalityType
      <4> QED  BY <3>4, <4>3, <4>5
    <3> QED  BY <3>3, <3>4
  <2>3. S = Nat
    <3> HIDE DEF S
    <3>1. S \in SUBSET Nat  BY DEF S
    <3> QED  BY <2>1, <2>2, <3>1, Induction
  <2> QED  BY <2>3
<1>8. parts[N + 1] = parts[N]
  <2>1. Cardinality(parts[N]) <= N  BY <1>5, <1>6, FS_Subset
  <2>2. IsFiniteSet(parts[N])  BY <1>5, <1>6, FS_Subset
  <2>3. Cardinality(parts[N]) \in Nat  BY <2>2, FS_CardinalityType
  <2> QED  BY <1>6, <1>7, <2>1, <2>3
<1>9. WithOperands(parts[N]) = parts[N]  BY <1>4, <1>6, <1>8
<1> QED  BY <1>3, <1>5, <1>6, <1>9, WithOperandsClosed

(***************************************************************************)
(* The features read from a text.                                          *)
(***************************************************************************)

\* A word of the text of a value made of parts: the text of one of them opens with it.
From(w, parts) ==
    \/ w.kind = "in" /\ w.width = NoWidth
    \/ \E u \in parts : Opening(u) = <<w>>

\* A text with which what v itself is can be told: it opens as v does and, when v
\* compares strings, names a function that does.
Tells(text, v) ==
    /\ Def[v].op \notin Binary => text # <<>> /\ <<text[1]>> = Opening(v)
    /\ ComparesStrings(v) =>
          \E k \in DOMAIN text : \E i \in {1, 2} :
              isStrcmp(Def[v].args[i]) /\ <<text[k]>> = Opening(Def[v].args[i])

Complete(text, v) ==
    /\ text \in Seq(LogWord)
    /\ \A k \in DOMAIN text : From(text[k], Parts(v))
    /\ Tells(text, v)

\* A set of naturals that is not empty has a least member, the one Least chooses.
LEMMA LeastIs ==
    ASSUME NEW S \in SUBSET Nat, S # {}
    PROVE  Least(S) \in S /\ \A j \in S : Least(S) <= j
<1> DEFINE B == {n \in Nat : \A j \in S : n <= j}
<1>1. 0 \in B  OBVIOUS
<1>2. B # Nat
  <2>1. PICK s \in S : TRUE  OBVIOUS
  <2>2. s + 1 \in Nat /\ ~(s + 1 <= s)  OBVIOUS
  <2> QED  BY <2>1, <2>2
<1>3. PICK n \in B : n + 1 \notin B
  <2> SUFFICES ASSUME \A n \in B : n + 1 \in B PROVE FALSE  OBVIOUS
  <2> HIDE DEF B
  <2>1. B \in SUBSET Nat  BY DEF B
  <2> QED  BY <1>1, <1>2, <2>1, Induction
<1>4. PICK s \in S : ~(n + 1 <= s)  BY <1>3
<1>5. n \in Nat /\ s = n /\ \A j \in S : n <= j  BY <1>3, <1>4
<1>6. \E i \in S : \A j \in S : i <= j  BY <1>5
<1> QED  BY <1>6 DEF Least

\* What one word says: its type is a part's, and so is its width.
LEMMA WordTypes ==
    ASSUME PlainNames, NEW w \in LogWord, NEW parts \in SUBSET Value, From(w, parts)
    PROVE  /\ w.kind \in {"icmp", "fcmp"} => \E u \in parts : w.n \in TypesOf(u)
           /\ w.kind = "call" => \E u \in parts : Def[u].op = "call" /\ Def[u].fn = w.fn
           /\ w.kind = "phi" => \E u \in parts : Def[u].op = "phi"
           /\ w.kind = "constInst" => \E u \in parts : Def[u].op = "other"
           /\ WidthOf(w) # NoWidth =>
                 \E u \in parts : Def[u].op = "icmp" /\ Def[u].width = WidthOf(w)
<1>1. CASE w.kind = "in" /\ w.width = NoWidth  BY <1>1 DEF WidthOf
<1>2. ASSUME NEW u \in parts, Opening(u) = <<w>>
      PROVE  /\ w.kind \in {"icmp", "fcmp"} => w.n \in TypesOf(u)
             /\ w.kind = "call" => Def[u].op = "call" /\ Def[u].fn = w.fn
             /\ w.kind = "phi" => Def[u].op = "phi"
             /\ w.kind = "constInst" => Def[u].op = "other"
             /\ WidthOf(w) # NoWidth => Def[u].op = "icmp" /\ Def[u].width = WidthOf(w)
  <2> USE DEF Word, Bare
  <2>0. u \in Value /\ Def[u].op \in Op  BY ValueFacts
  <2>1. CASE Def[u].op \in Binary
    <3>1. Opening(u) = <<>>  BY <2>0, <2>1, OpeningIs, Zenon
    <3> QED  BY <1>2, <3>1
  <2>2. CASE Def[u].op = "phi"
    <3>1. w = Bare("phi")  BY <1>2, <2>0, <2>2, OpeningIs
    <3> QED  BY <2>2, <3>1 DEF WidthOf
  <2>3. CASE Def[u].op = "icmp" /\ ComparesStrings(u)
    <3>1. w = Bare("strcmp")  BY <1>2, <2>0, <2>3, OpeningIs
    <3> QED  BY <3>1 DEF WidthOf
  <2>4. CASE Def[u].op = "icmp" /\ ~ComparesStrings(u)
    <3>1. w = Word("icmp", Def[u].n, Def[u].width, NoFn)  BY <1>2, <2>0, <2>4, OpeningIs
    <3> QED  BY <2>4, <3>1 DEF WidthOf, TypesOf
  <2>5. CASE Def[u].op = "fcmp"
    <3>1. w = Word("fcmp", Def[u].n, NoWidth, NoFn)  BY <1>2, <2>0, <2>5, OpeningIs
    <3> QED  BY <2>5, <3>1 DEF WidthOf, TypesOf
  <2>6. CASE Def[u].op = "call"
    <3>1. w = Word("call", 0, NoWidth, Def[u].fn)  BY <1>2, <2>0, <2>6, OpeningIs
    <3>2. w.fn # NoFn => w.fn \in Fn  BY <2>0, <3>1, ValueFacts
    <3>3. WidthOf(w) = NoWidth  BY <3>1, <3>2 DEF WidthOf, PlainNames
    <3> QED  BY <2>6, <3>1, <3>3
  <2>7. CASE Def[u].op = "constant"
    <3>1. w = Word("const", Def[u].n, NoWidth, NoFn)  BY <1>2, <2>0, <2>7, OpeningIs
    <3> QED  BY <3>1 DEF WidthOf
  <2>8. CASE Def[u].op = "other"
    <3>1. w = Bare("constInst")  BY <1>2, <2>0, <2>8, OpeningIs
    <3> QED  BY <2>8, <3>1 DEF WidthOf
  <2>9. CASE Def[u].op = "argument"
    <3>1. w = Bare("none")  BY <1>2, <2>0, <2>9, OpeningIs
    <3> QED  BY <3>1 DEF WidthOf
  <2> QED  BY <2>0, <2>1, <2>2, <2>3, <2>4, <2>5, <2>6, <2>7, <2>8, <2>9 DEF Op
<1>3. CASE \E u \in parts : Opening(u) = <<w>>
  <2>1. PICK u \in parts : Opening(u) = <<w>>  BY <1>3
  <2> QED  BY <1>2, <2>1
<1> QED  BY <1>1, <1>3 DEF From

\* The text of a value of any kind names its type: it has a compare or one of the
\* words of edge_enum unless the value is one of those without a type.
LEMMA SomeType ==
    ASSUME PlainNames, NEW v \in Value, NEW text, Complete(text, v),
           Compares(text) = {}, Found(text) = {}
    PROVE  0 \in TypesOf(v)
<1>0. v \in Parts(v) /\ Def[v].op \in Op /\ text \in Seq(LogWord) /\ Tells(text, v)
      BY PartsClosed, ValueFacts DEF Complete
<1>1. \A k \in DOMAIN text : text[k].kind \notin {"icmp", "fcmp"}  BY DEF Compares
<1>2. \A k \in DOMAIN text : \A i \in 1 .. 6 : ~Occurs(EdgeEnum[i], text[k])
  <2>1. DOMAIN EdgeEnum = 1 .. 6  BY DEF EdgeEnum
  <2> QED  BY <2>1 DEF Found
<1>3. \A k \in DOMAIN text : text[k].kind \notin {"phi", "call", "constInst"}
  <2> SUFFICES ASSUME NEW k \in DOMAIN text PROVE text[k].kind \notin {"phi", "call", "constInst"}
      OBVIOUS
  <2>1. /\ ~Occurs(EdgeEnum[4], text[k]) /\ ~Occurs(EdgeEnum[5], text[k])
        /\ ~Occurs(EdgeEnum[6], text[k])
        BY <1>2
  <2>2. EdgeEnum[4] = "phi" /\ EdgeEnum[5] = "call@" /\ EdgeEnum[6] = "constInst"
        BY DEF EdgeEnum
  <2> QED  BY <2>1, <2>2 DEF Occurs
<1>4. ASSUME Def[v].op \notin Binary
      PROVE  \E w \in LogWord : /\ Opening(v) = <<w>>
                                /\ w.kind \notin {"icmp", "fcmp", "phi", "call", "constInst"}
  <2>1. text # <<>> /\ <<text[1]>> = Opening(v)  BY <1>0, <1>4 DEF Tells
  <2>2. 1 \in DOMAIN text /\ text[1] \in LogWord  BY <1>0, <2>1
  <2> QED  BY <1>1, <1>3, <2>1, <2>2
<1>5. CASE Def[v].op \in Binary  BY <1>5 DEF TypesOf, Binary
<1>6. CASE Def[v].op \in {"constant", "argument"}  BY <1>6 DEF TypesOf
<1>7. CASE Def[v].op = "phi"
  <2>1. Opening(v) = <<Bare("phi")>>  BY <1>7, OpeningIs, Zenon
  <2> QED  BY <1>4, <1>7, <2>1 DEF Bare, Word, Binary
<1>8. CASE Def[v].op = "icmp" /\ ComparesStrings(v)
  <2>1. PICK k \in DOMAIN text : \E i \in {1, 2} :
            isStrcmp(Def[v].args[i]) /\ <<text[k]>> = Opening(Def[v].args[i])
        BY <1>0, <1>8 DEF Tells
  <2>2. PICK i \in {1, 2} : isStrcmp(Def[v].args[i]) /\ <<text[k]>> = Opening(Def[v].args[i])
        BY <2>1
  <2>3. Def[v].args \in Seq(Value) /\ Len(Def[v].args) = 2  BY <1>8, ValueFacts
  <2>4. PICK u \in Value : u = Def[v].args[i]  BY <2>3
  <2>5. Def[u].op = "call"  BY <2>2, <2>4 DEF isStrcmp
  <2>6. Opening(u) = <<Word("call", 0, NoWidth, Def[u].fn)>>  BY <2>5, OpeningIs, Zenon
  <2>7. text[k].kind = "call"  BY <2>2, <2>4, <2>6 DEF Word
  <2> QED  BY <1>3, <2>7
<1>9. CASE Def[v].op = "icmp" /\ ~ComparesStrings(v)
  <2>1. Opening(v) = <<Word("icmp", Def[v].n, Def[v].width, NoFn)>>  BY <1>9, OpeningIs, Zenon
  <2> QED  BY <1>4, <1>9, <2>1 DEF Word, Binary
<1>10. CASE Def[v].op = "fcmp"
  <2>1. Opening(v) = <<Word("fcmp", Def[v].n, NoWidth, NoFn)>>  BY <1>10, OpeningIs, Zenon
  <2> QED  BY <1>4, <1>10, <2>1 DEF Word, Binary
<1>11. CASE Def[v].op = "call"
  <2>1. Opening(v) = <<Word("call", 0, NoWidth, Def[v].fn)>>  BY <1>11, OpeningIs, Zenon
  <2> QED  BY <1>4, <1>11, <2>1 DEF Word, Binary
<1>12. CASE Def[v].op = "other"
  <2>1. Opening(v) = <<Bare("constInst")>>  BY <1>12, OpeningIs, Zenon
  <2> QED  BY <1>4, <1>12, <2>1 DEF Bare, Word, Binary
<1> QED  BY <1>0, <1>5, <1>6, <1>7, <1>8, <1>9, <1>10, <1>11, <1>12 DEF Op

\* The type of a complete text is that of a part of its value.
LEMMA EdgeTypeReal ==
    ASSUME PlainNames, NEW v \in Value, NEW text, Complete(text, v)
    PROVE  \E u \in Parts(v) : EdgeType(text) \in TypesOf(u)
<1>0. /\ Parts(v) \in SUBSET Value /\ v \in Parts(v)
      /\ text \in Seq(LogWord) /\ \A k \in DOMAIN text : From(text[k], Parts(v))
      BY PartsClosed DEF Complete
<1>1. CASE Compares(text) # {}
  <2>1. Compares(text) \in SUBSET Nat  BY <1>0 DEF Compares
  <2>2. PICK k \in Compares(text) : k = Least(Compares(text))  BY <1>1, <2>1, LeastIs
  <2>3. k \in DOMAIN text /\ text[k] \in LogWord /\ text[k].kind \in {"icmp", "fcmp"}
        BY <1>0, <2>2 DEF Compares
  <2>4. EdgeType(text) = text[k].n  BY <1>1, <2>2 DEF EdgeType
  <2> QED  BY <1>0, <2>3, <2>4, WordTypes
<1>2. CASE Compares(text) = {} /\ Found(text) # {}
  <2>1. Found(text) \subseteq 1 .. 6
        /\ \A m \in 1 .. 6 :
               m \in Found(text) <=> \E k \in DOMAIN text : Occurs(EdgeEnum[m], text[k])
    <3>1. DOMAIN EdgeEnum = 1 .. 6  BY DEF EdgeEnum
    <3> QED  BY <3>1 DEF Found
  <2>2. Found(text) \in SUBSET Nat  BY <2>1
  <2>3. PICK m \in Found(text) : m = Least(Found(text)) /\ \A j \in Found(text) : m <= j
        BY <1>2, <2>2, LeastIs
  <2>4. m \in 1 .. 6 /\ EdgeType(text) = 41 + m  BY <1>2, <2>1, <2>3 DEF EdgeType
  <2>5. PICK k \in DOMAIN text : Occurs(EdgeEnum[m], text[k])  BY <2>1, <2>3, <2>4
  <2>6. text[k] \in LogWord /\ From(text[k], Parts(v))  BY <1>0
  <2>7. /\ EdgeEnum[1] = "strcmp" /\ EdgeEnum[2] = "strncmp" /\ EdgeEnum[3] = "memcmp"
        /\ EdgeEnum[4] = "phi" /\ EdgeEnum[5] = "call@" /\ EdgeEnum[6] = "constInst"
        BY DEF EdgeEnum
  <2>8. \A word : word \in {"phi", "call@", "constInst"} \cup StringFn =>
            (text[k].kind = "call" /\ text[k].fn # NoFn /\ word \in Keywords[text[k].fn].words
                => word \in StringFn /\ text[k].fn = word)
    <3>1. text[k].fn # NoFn => text[k].fn \in Fn  BY <2>6 DEF LogWord
    <3> QED  BY <3>1 DEF PlainNames
  <2>9. CASE m \in {1, 2, 3}
    <3>1. EdgeEnum[m] \in StringFn /\ EdgeEnum[m] \notin {"phi", "call@", "constInst"}
          BY <2>7, <2>9 DEF StringFn
    <3>2. text[k].kind = "call" /\ text[k].fn = EdgeEnum[m]
          BY <2>5, <2>8, <3>1 DEF Occurs
    <3>3. PICK u \in Parts(v) : Def[u].op = "call" /\ Def[u].fn = EdgeEnum[m]
          BY <1>0, <2>6, <3>2, WordTypes
    <3>4. 41 + m \in TypesOf(u)
      <4>1. CASE m = 1  BY <2>7, <3>3, <4>1 DEF TypesOf
      <4>2. CASE m = 2  BY <2>7, <3>3, <4>2 DEF TypesOf
      <4>3. CASE m = 3  BY <2>7, <3>3, <4>3 DEF TypesOf
      <4> QED  BY <2>9, <4>1, <4>2, <4>3
    <3> QED  BY <2>4, <3>4
  <2>10. CASE m = 4
    <3>1. text[k].kind = "phi"
      <4>1. Occurs("phi", text[k]) /\ "phi" \notin StringFn  BY <2>5, <2>7, <2>10 DEF StringFn
      <4> QED  BY <2>8, <4>1 DEF Occurs
    <3>2. PICK u \in Parts(v) : Def[u].op = "phi"  BY <1>0, <2>6, <3>1, WordTypes
    <3>3. 45 \in TypesOf(u)  BY <3>2 DEF TypesOf
    <3> QED  BY <2>4, <2>10, <3>3
  <2>11. CASE m = 5
    <3>1. text[k].kind = "call"
      <4>1. Occurs("call@", text[k]) /\ "call@" \notin StringFn  BY <2>5, <2>7, <2>11 DEF StringFn
      <4> QED  BY <2>8, <4>1 DEF Occurs
    <3>2. text[k].fn \notin StringFn
      <4> SUFFICES ASSUME text[k].fn \in StringFn PROVE FALSE  OBVIOUS
      <4>1. text[k].fn # NoFn /\ text[k].fn \in Fn  BY <2>6 DEF PlainNames, LogWord
      <4>2. text[k].fn \in Keywords[text[k].fn].words  BY <4>1 DEF PlainNames
      <4>3. Occurs(text[k].fn, text[k])  BY <3>1, <4>1, <4>2 DEF Occurs
      <4>4. PICK j \in {1, 2, 3} : EdgeEnum[j] = text[k].fn  BY <2>7 DEF StringFn
      <4>5. j \in Found(text)  BY <2>1, <4>3, <4>4
      <4> QED  BY <2>3, <2>11, <4>5
    <3>3. PICK u \in Parts(v) : Def[u].op = "call" /\ Def[u].fn = text[k].fn
          BY <1>0, <2>6, <3>1, WordTypes
    <3>4. 46 \in TypesOf(u)  BY <3>2, <3>3 DEF TypesOf, StringFn
    <3> QED  BY <2>4, <2>11, <3>4
  <2>12. CASE m = 6
    <3>1. text[k].kind = "constInst"
      <4>1. Occurs("constInst", text[k]) /\ "constInst" \notin StringFn
            BY <2>5, <2>7, <2>12 DEF StringFn
      <4> QED  BY <2>8, <4>1 DEF Occurs
    <3>2. PICK u \in Parts(v) : Def[u].op = "other"  BY <1>0, <2>6, <3>1, WordTypes
    <3>3. 47 \in TypesOf(u)  BY <3>2 DEF TypesOf
    <3> QED  BY <2>4, <2>12, <3>3
  <2> QED  BY <2>4, <2>9, <2>10, <2>11, <2>12
<1>3. CASE Compares(text) = {} /\ Found(text) = {}
  <2>1. EdgeType(text) = 0  BY <1>3 DEF EdgeType
  <2>2. 0 \in TypesOf(v)  BY <1>3, SomeType
  <2> QED  BY <1>0, <2>1, <2>2
<1> QED  BY <1>1, <1>2, <1>3

\* The width of a complete text is that of an integer compare, or none.
LEMMA CondWidthReal ==
    ASSUME PlainNames, NEW v \in Value, NEW text, Complete(text, v)
    PROVE  CondWidth(text) = NoWidth
           \/ \E u \in Parts(v) : Def[u].op = "icmp" /\ CondWidth(text) = Def[u].width
<1> DEFINE widths == {i \in DOMAIN text : WidthOf(text[i]) # NoWidth}
<1>0. /\ Parts(v) \in SUBSET Value
      /\ text \in Seq(LogWord) /\ \A k \in DOMAIN text : From(text[k], Parts(v))
      BY PartsClosed DEF Complete
<1>1. CASE widths = {}  BY <1>1 DEF CondWidth
<1>2. CASE widths # {}
  <2>1. widths \in SUBSET Nat  BY <1>0
  <2>2. PICK k \in widths : k = Least(widths)
    <3> HIDE DEF widths
    <3> QED  BY <1>2, <2>1, LeastIs
  <2>3. CondWidth(text) = WidthOf(text[k])  BY <1>2, <2>2 DEF CondWidth
  <2>4. text[k] \in LogWord /\ From(text[k], Parts(v)) /\ WidthOf(text[k]) # NoWidth  BY <1>0
  <2>5. PICK u \in Parts(v) : Def[u].op = "icmp" /\ Def[u].width = WidthOf(text[k])
        BY <1>0, <2>4, WordTypes
  <2> QED  BY <2>3, <2>5
<1> QED  BY <1>1, <1>2

(***************************************************************************)
(* The features of the texts the pass makes.                               *)
(***************************************************************************)

\* The part of Tells that holds once the operands of v before the next one are done.
TellsSoFar(text, v, next) ==
    /\ Def[v].op \notin Binary => text # <<>> /\ <<text[1]>> = Opening(v)
    /\ ComparesStrings(v) =>
          \A i \in {1, 2} : i < next /\ isStrcmp(Def[v].args[i]) =>
              \E k \in DOMAIN text : <<text[k]>> = Opening(Def[v].args[i])

\* How far the call of getBrCond for the whole condition is.
RootNext == IF frames = <<>> THEN 3 ELSE frames[1].next

\* What is being described is the condition's, and so is what has been.
Making ==
    frames # <<>> \/ cond_info # <<>> =>
        /\ \A k \in DOMAIN cond_info : From(cond_info[k], Parts(Term[BB].cond))
        /\ \A k \in DOMAIN frames : frames[k].value \in Parts(Term[BB].cond)
        /\ TellsSoFar(cond_info, Term[BB].cond, RootNext)

Made ==
    \A i \in DOMAIN calls :
        Term[calls[i].block].kind = "br" => Complete(calls[i].text, Term[calls[i].block].cond)

\* The text of a value opens with one word, or is that of its operands.
LEMMA OpeningOne ==
    ASSUME NEW v \in Value
    PROVE  /\ Opening(v) = <<>> \/ \E w \in LogWord : Opening(v) = <<w>>
           /\ Def[v].op \notin Binary => \E w \in LogWord : Opening(v) = <<w>>
<1>1. Opening(v) \in Seq(LogWord)  BY OpeningWords
<1>2. CASE Def[v].op \in Binary
  <2>1. Opening(v) = <<>>  BY <1>2, OpeningIs, Zenon
  <2> QED  BY <1>2, <2>1
<1>3. CASE Def[v].op \notin Binary
  <2>1. \E w : Opening(v) = <<w>>  BY <1>3, ValueFacts, OpeningIs DEF Op
  <2>2. PICK w : Opening(v) = <<w>>  BY <2>1
  <2>3. w \in LogWord  BY <1>1, <2>2
  <2> QED  BY <2>2, <2>3
<1> QED  BY <1>2, <1>3

\* The words that open the text of a part are from the parts.
LEMMA OpeningFrom ==
    ASSUME NEW parts \in SUBSET Value, NEW v \in parts
    PROVE  \A k \in DOMAIN Opening(v) : From(Opening(v)[k], parts)
<1>1. CASE Opening(v) = <<>>  BY <1>1
<1>2. ASSUME NEW w \in LogWord, Opening(v) = <<w>>
      PROVE  \A k \in DOMAIN Opening(v) : From(Opening(v)[k], parts)
  <2>1. \A k \in DOMAIN Opening(v) : Opening(v)[k] = w  BY <1>2
  <2>2. From(w, parts)  BY <1>2 DEF From
  <2> QED  BY <2>1, <2>2
<1> QED  BY <1>1, <1>2, OpeningOne

\* What is told stays told when words are added.
LEMMA TellsMore ==
    ASSUME NEW text \in Seq(LogWord), NEW more \in Seq(LogWord), NEW v, NEW next,
           TellsSoFar(text, v, next)
    PROVE  TellsSoFar(text \o more, v, next)
<1>1. \A k \in DOMAIN text : k \in DOMAIN (text \o more) /\ (text \o more)[k] = text[k]
  OBVIOUS
<1>2. text # <<>> => 1 \in DOMAIN text  OBVIOUS
<1>3. \A k \in DOMAIN text : text \o more # <<>>  OBVIOUS
<1> QED  BY <1>1, <1>2, <1>3 DEF TellsSoFar

\* The words of two texts from the same parts, one after the other.
LEMMA FromBoth ==
    ASSUME NEW text \in Seq(LogWord), NEW more \in Seq(LogWord), NEW parts,
           \A k \in DOMAIN text : From(text[k], parts),
           \A k \in DOMAIN more : From(more[k], parts)
    PROVE  \A k \in DOMAIN (text \o more) : From((text \o more)[k], parts)
<1> SUFFICES ASSUME NEW k \in DOMAIN (text \o more) PROVE From((text \o more)[k], parts)
    OBVIOUS
<1>1. CASE k \in DOMAIN text
  <2>1. (text \o more)[k] = text[k]  BY <1>1
  <2> QED  BY <1>1, <2>1
<1>2. CASE k \notin DOMAIN text
  <2>1. k - Len(text) \in DOMAIN more /\ (text \o more)[k] = more[k - Len(text)]  BY <1>2
  <2> QED  BY <2>1
<1> QED  BY <1>1, <1>2

\* A call of getBrCond that goes on: one more operand of the value is told, if it is
\* a string function's.
LEMMA TellsNext ==
    ASSUME NEW text \in Seq(LogWord), NEW lead \in Seq(LogWord), NEW v \in Value, NEW next \in Nat,
           NEW u \in Value, TellsSoFar(text, v, next), ComparesStrings(v) => Def[v].args[next] = u
    PROVE  TellsSoFar(text \o lead \o Opening(u), v, next + 1)
<1> DEFINE all == text \o lead \o Opening(u)
<1>1. Opening(u) \in Seq(LogWord)  BY OpeningWords
<1>2. text \o lead \in Seq(LogWord) /\ TellsSoFar(text \o lead, v, next)  BY TellsMore
<1>3. all \in Seq(LogWord) /\ TellsSoFar(all, v, next)
  <2> DEFINE t == text \o lead
  <2> HIDE DEF t
  <2>1. t \in Seq(LogWord) /\ TellsSoFar(t, v, next) /\ all = t \o Opening(u)  BY <1>2 DEF t
  <2> QED  BY <1>1, <2>1, TellsMore
<1>4. ASSUME Def[u].op = "call" PROVE \E k \in DOMAIN all : <<all[k]>> = Opening(u)
  <2>1. PICK w \in LogWord : Opening(u) = <<w>>  BY <1>4, OpeningOne DEF Binary
  <2> DEFINE t == text \o lead
  <2>2. t \in Seq(LogWord) /\ all = t \o <<w>>  BY <1>2, <2>1
  <2> HIDE DEF t, all
  <2>3. Len(t) + 1 \in DOMAIN all /\ all[Len(t) + 1] = w  BY <2>2
  <2> QED  BY <2>1, <2>3
<1> HIDE DEF all
<1>5. SUFFICES ASSUME ComparesStrings(v), NEW i \in {1, 2}, i < next + 1, isStrcmp(Def[v].args[i])
               PROVE  \E k \in DOMAIN all : <<all[k]>> = Opening(Def[v].args[i])
      BY <1>3 DEF TellsSoFar, all
<1>6. CASE i < next  BY <1>3, <1>5, <1>6 DEF TellsSoFar
<1>7. CASE i = next  BY <1>4, <1>5, <1>7 DEF isStrcmp
<1> QED  BY <1>5, <1>6, <1>7

\* A value without a word of its own, or with nothing left to tell.
LEMMA TellsOn ==
    ASSUME NEW text, NEW v, NEW next, NEW on, TellsSoFar(text, v, next),
           ComparesStrings(v) => \A i \in {1, 2} : i < on => i < next
    PROVE  TellsSoFar(text, v, on)
BY DEF TellsSoFar

\* Each step of the description tells more of the condition.
LEMMA MakingStep ==
    ASSUME WalkInv, Making, [PassNext]_passVars
    PROVE  Making'
<1>0. /\ frames \in Seq(Call) /\ cond_info \in Seq(LogWord)
      /\ DOMAIN frames = 1 .. Len(frames) /\ Len(frames) \in Nat
      /\ frames # <<>> => Len(frames) >= 1
      BY DEF WalkInv, PassTypeOK, Describing, Call
<1>1. ASSUME NEW c \in Value, c = Term[BB].cond, UNCHANGED at,
             \A k \in DOMAIN cond_info' : From(cond_info'[k], Parts(c)),
             \A k \in DOMAIN frames' : frames'[k].value \in Parts(c),
             TellsSoFar(cond_info', c, IF frames' = <<>> THEN 3 ELSE frames'[1].next)
      PROVE  Making'
  <2>1. Term[BB]' = Term[BB] /\ RootNext' = IF frames' = <<>> THEN 3 ELSE frames'[1].next
        BY <1>1 DEF BB, RootNext
  <2> QED  BY <1>1, <2>1 DEF Making
<1>2. CASE frames' = <<>> /\ cond_info' = <<>>  BY <1>2 DEF Making
<1>3. CASE UNCHANGED <<frames, cond_info, at>>  BY <1>3 DEF Making, RootNext, BB
<1>4. ASSUME frames # <<>> \/ cond_info # <<>>
      PROVE  /\ ~Done /\ Term[BB].cond \in Value
             /\ \A k \in DOMAIN cond_info : From(cond_info[k], Parts(Term[BB].cond))
             /\ \A k \in DOMAIN frames : frames[k].value \in Parts(Term[BB].cond)
             /\ TellsSoFar(cond_info, Term[BB].cond, RootNext)
  BY <1>4, AtBlock DEF Making, WalkInv, Describing
<1>5. CASE Condition
  <2>1. PICK c \in Value : c = Term[BB].cond
    <3>1. ~Done /\ Term[BB].kind = "br"  BY <1>5 DEF Condition
    <3> QED  BY <3>1, AtBlock
  <2>2. frames' = <<Frame(c)>> /\ cond_info' = Opening(c) /\ UNCHANGED at
        BY <1>5, <2>1 DEF Condition
  <2>3. Parts(c) \in SUBSET Value /\ c \in Parts(c)  BY PartsClosed
  <2>4. \A k \in DOMAIN cond_info' : From(cond_info'[k], Parts(c))  BY <2>2, <2>3, OpeningFrom
  <2>5. /\ \A k \in DOMAIN frames' : frames'[k].value \in Parts(c)
        /\ frames' # <<>> /\ frames'[1].next = 1
        BY <2>2, <2>3 DEF Frame
  <2>6. TellsSoFar(Opening(c), c, 1)
    <3>1. Def[c].op \notin Binary => Opening(c) # <<>> /\ <<Opening(c)[1]>> = Opening(c)
          BY OpeningOne
    <3> QED  BY <3>1 DEF TellsSoFar
  <2> QED  BY <1>1, <2>1, <2>2, <2>4, <2>5, <2>6
<1>6. CASE Recurse
  <2>0. /\ frames # <<>> /\ Pending /\ UNCHANGED at
        BY <1>6 DEF Recurse
  <2>1. PICK c \in Value : c = Term[BB].cond  BY <1>4, <2>0
  <2>2. /\ \A k \in DOMAIN cond_info : From(cond_info[k], Parts(c))
        /\ \A k \in DOMAIN frames : frames[k].value \in Parts(c)
        /\ TellsSoFar(cond_info, c, frames[1].next) /\ frames[1].value = c
        BY <1>4, <2>0, <2>1 DEF RootNext, WalkInv, Describing
  <2>3. /\ Advanced \in Seq(Call) /\ Len(Advanced) = Len(frames)
        /\ \A k \in DOMAIN frames : Advanced[k].value = frames[k].value
        /\ Top \in Call
        BY <1>0, <2>0, StackMoves
  <2>4. /\ Len(frames) = 1 => frames[1] = Top /\ Advanced[1].next = Top.next + 1
        /\ Len(frames) # 1 => Advanced[1] = frames[1]
    <3>1. Len(frames) \in DOMAIN frames /\ 1 \in DOMAIN frames  BY <1>0, <2>0
    <3> QED  BY <3>1, <2>3 DEF Advanced, Top, Call
  <2>5. Top.value \in Parts(c) /\ Top.value \in Value /\ Top.next \in Nat
    <3>1. Len(frames) \in DOMAIN frames  BY <1>0, <2>0
    <3> QED  BY <2>2, <2>3, <3>1 DEF Top, Call
  <2>6. CASE Unknown
    <3>1. frames' = Advanced /\ UNCHANGED cond_info  BY <1>6, <2>6 DEF Recurse, SkipOperand
    <3>2. Def[Top.value].op = "phi"  BY <2>6 DEF Unknown
    <3>3. \A k \in DOMAIN frames' : frames'[k].value \in Parts(c)
          BY <1>0, <2>2, <2>3, <3>1
    <3>4. TellsSoFar(cond_info, c, Advanced[1].next)
      <4>1. CASE Len(frames) = 1
        <5>1. ~ComparesStrings(c)  BY <2>2, <2>4, <3>2, <4>1 DEF ComparesStrings
        <5> QED  BY <2>2, <5>1, TellsOn
      <4>2. CASE Len(frames) # 1  BY <2>2, <2>4, <4>2
      <4> QED  BY <4>1, <4>2
    <3>5. frames' # <<>>  BY <1>0, <2>0, <2>3, <3>1
    <3> QED  BY <1>1, <2>0, <2>1, <2>2, <3>1, <3>3, <3>4, <3>5
  <2>7. CASE ~Unknown
    <3>1. PICK v \in Value : v = Operands(Top.value)[Top.next]  BY <2>0, NextOperand
    <3>2. PICK lead \in Seq(LogWord) :
              /\ lead = Lead(basicBlockMap, Top.value, Top.next)
              /\ \A k \in DOMAIN lead : From(lead[k], Parts(c))
      <4>1. CASE Def[Top.value].op = "phi"
        <5>1. PICK w \in LogWord :
                  w = Word("in", basicBlockMap[Def[Top.value].blocks[Top.next]], NoWidth, NoFn)
              BY <2>0, <2>7, <4>1, NextOperand
        <5>2. Lead(basicBlockMap, Top.value, Top.next) = <<w>>  BY <4>1, <5>1 DEF Lead
        <5>3. From(w, Parts(c))  BY <5>1 DEF From, Word
        <5>4. <<w>> \in Seq(LogWord) /\ \A k \in DOMAIN <<w>> : From(<<w>>[k], Parts(c))
              BY <5>3
        <5> QED  BY <5>2, <5>4
      <4>2. CASE Def[Top.value].op # "phi"
        <5>1. Lead(basicBlockMap, Top.value, Top.next) = <<>>  BY <4>2 DEF Lead
        <5>2. <<>> \in Seq(LogWord) /\ DOMAIN (<<>>) = {}  OBVIOUS
        <5> QED  BY <5>1, <5>2, Zenon
      <4> QED  BY <4>1, <4>2
    <3>3. frames' = Append(Advanced, Frame(v)) /\ cond_info' = cond_info \o lead \o Opening(v)
          BY <1>6, <2>7, <3>1, <3>2 DEF Recurse, Lead
    <3>4. v \in Parts(c) /\ Parts(c) \in SUBSET Value
      <4>1. Top.next \in DOMAIN Operands(Top.value)  BY <2>0, NextOperand
      <4> QED  BY <2>5, <3>1, <4>1, PartsClosed
    <3>5. \A k \in DOMAIN cond_info' : From(cond_info'[k], Parts(c))
      <4>1. PICK t \in Seq(LogWord) :
                t = cond_info \o lead /\ \A k \in DOMAIN t : From(t[k], Parts(c))
        <5>1. cond_info \o lead \in Seq(LogWord)  BY <1>0
        <5>2. \A k \in DOMAIN (cond_info \o lead) : From((cond_info \o lead)[k], Parts(c))
              BY <1>0, <2>2, <3>2, FromBoth
        <5> QED  BY <5>1, <5>2
      <4>2. /\ Opening(v) \in Seq(LogWord)
            /\ \A k \in DOMAIN Opening(v) : From(Opening(v)[k], Parts(c))
            BY <3>4, OpeningWords, OpeningFrom
      <4>3. cond_info' = t \o Opening(v)  BY <3>3, <4>1
      <4> QED  BY <4>1, <4>2, <4>3, FromBoth
    <3>6. /\ \A k \in DOMAIN frames' : frames'[k].value \in Parts(c)
          /\ frames' # <<>> /\ frames'[1].next = Advanced[1].next
      <4>1. Frame(v).value = v  BY DEF Frame
      <4> QED  BY <1>0, <2>0, <2>2, <2>3, <3>3, <3>4, <4>1
    <3>7. TellsSoFar(cond_info', c, Advanced[1].next)
      <4>1. CASE Len(frames) = 1
        <5>1. ComparesStrings(c) => Def[c].args[Top.next] = v
              BY <2>2, <2>4, <3>1, <4>1 DEF Operands
        <5>2. TellsSoFar(cond_info \o lead \o Opening(v), c, Top.next + 1)
              BY <1>0, <2>2, <2>4, <2>5, <4>1, <5>1, TellsNext
        <5> QED  BY <2>4, <3>3, <4>1, <5>2
      <4>2. CASE Len(frames) # 1
        <5>0. /\ cond_info \o lead \in Seq(LogWord)
              /\ TellsSoFar(cond_info \o lead, c, frames[1].next)
              BY <1>0, <2>2, TellsMore
        <5>1. PICK t \in Seq(LogWord) : t = cond_info \o lead /\ TellsSoFar(t, c, frames[1].next)
              BY <5>0
        <5>2. Opening(v) \in Seq(LogWord)  BY OpeningWords
        <5>3. TellsSoFar(t \o Opening(v), c, frames[1].next)  BY <5>1, <5>2, TellsMore
        <5> QED  BY <2>4, <3>3, <4>2, <5>1, <5>3
      <4> QED  BY <4>1, <4>2
    <3> QED  BY <1>1, <2>0, <2>1, <3>5, <3>6, <3>7
  <2> QED  BY <2>6, <2>7
<1>7. CASE Return
  <2>0. /\ frames # <<>> /\ ~Pending /\ frames' = Front(frames) /\ UNCHANGED <<at, cond_info>>
        BY <1>7 DEF Return
  <2>1. PICK c \in Value : c = Term[BB].cond  BY <1>4, <2>0
  <2>2. /\ \A k \in DOMAIN cond_info : From(cond_info[k], Parts(c))
        /\ \A k \in DOMAIN frames : frames[k].value \in Parts(c)
        /\ TellsSoFar(cond_info, c, frames[1].next) /\ frames[1].value = c
        BY <1>4, <2>0, <2>1 DEF RootNext, WalkInv, Describing
  <2>3. frames' = SubSeq(frames, 1, Len(frames) - 1)  BY <2>0 DEF Front
  <2>4. \A k \in DOMAIN frames' : k \in DOMAIN frames /\ frames'[k] = frames[k]
        BY <1>0, <2>0, <2>3
  <2>5. CASE Len(frames) # 1
    <3>1. 1 \in DOMAIN frames'  BY <1>0, <2>0, <2>3, <2>5
    <3>2. frames' # <<>> /\ frames'[1] = frames[1]  BY <2>4, <3>1
    <3> QED  BY <1>1, <2>0, <2>1, <2>2, <2>4, <3>2
  <2>6. CASE Len(frames) = 1
    <3>0. frames[1] \in Call /\ frames[1].next \in Nat
      <4>1. 1 \in DOMAIN frames  BY <1>0, <2>6
      <4>2. frames[1] \in Call  BY <1>0, <4>1
      <4> QED  BY <4>2 DEF Call
    <3>1. frames' = <<>> /\ Top = frames[1]  BY <1>0, <2>3, <2>6 DEF Top
    <3>2. ComparesStrings(c) => 2 < frames[1].next
      <4> SUFFICES ASSUME ComparesStrings(c) PROVE 2 < frames[1].next  OBVIOUS
      <4>1. Operands(c) = Def[c].args /\ Len(Def[c].args) = 2
            BY ValueFacts DEF Operands, ComparesStrings
      <4>2. ~(frames[1].next <= Len(Operands(c)))  BY <2>0, <2>2, <3>1 DEF Pending
      <4> QED  BY <3>0, <4>1, <4>2
    <3>3. TellsSoFar(cond_info, c, 3)
      <4>1. ComparesStrings(c) => \A i \in {1, 2} : i < 3 => i < frames[1].next
            BY <3>0, <3>2
      <4> QED  BY <2>2, <4>1, TellsOn
    <3> QED  BY <1>1, <2>0, <2>1, <2>2, <2>4, <3>1, <3>3
  <2> QED  BY <2>5, <2>6
<1>8. CASE LogBranch
  BY <1>2, <1>8 DEF LogBranch, Described
<1>9. CASE visitSwitchInst
  <2>1. frames = <<>> /\ cond_info = <<>>  BY <1>9 DEF visitSwitchInst, WalkInv, Describing
  <2> QED  BY <1>2, <1>9, <2>1 DEF visitSwitchInst
<1>10. CASE NextBlock
  <2>1. frames = <<>> /\ cond_info = <<>>  BY <1>10 DEF NextBlock, PassesOver, WalkInv, Describing
  <2> QED  BY <1>2, <1>10, <2>1 DEF NextBlock
<1>11. CASE UNCHANGED passVars  BY <1>3, <1>11 DEF passVars
<1> QED  BY <1>5, <1>6, <1>7, <1>8, <1>9, <1>10, <1>11 DEF PassNext

\* A call is inserted before a branch with the whole text of its condition.
LEMMA MadeStep ==
    ASSUME WalkInv, Making, Made, [PassNext]_passVars
    PROVE  Made'
<1>0. cond_info \in Seq(LogWord)  BY DEF WalkInv, Describing
<1>1. ASSUME ~Done, NEW blocks \in Seq(Block), NEW text, Inserted(blocks, text),
             Term[BB].kind = "br" => Complete(text, Term[BB].cond)
      PROVE  Made'
  <2>1. /\ \A i \in DOMAIN calls : calls'[i] = calls[i]
        /\ \A i \in DOMAIN calls' : i \notin DOMAIN calls => i = Len(calls) + 1
        /\ calls'[Len(calls) + 1].block = BB /\ calls'[Len(calls) + 1].text = text
        BY <1>1, InsertedKeepsTypes
  <2>2. SUFFICES ASSUME NEW i \in DOMAIN calls', Term[calls'[i].block].kind = "br"
                 PROVE  Complete(calls'[i].text, Term[calls'[i].block].cond)
        BY DEF Made
  <2>3. CASE i \in DOMAIN calls  BY <2>1, <2>2, <2>3 DEF Made
  <2>4. CASE i \notin DOMAIN calls  BY <1>1, <2>1, <2>2, <2>4
  <2> QED  BY <2>3, <2>4
<1>2. CASE LogBranch
  <2>1. /\ frames = <<>> /\ cond_info # <<>>
        /\ Inserted(<<BB>> \o Term[BB].succ, cond_info)
        BY <1>2 DEF LogBranch, Described
  <2>2. ~Done /\ Term[BB].kind = "br"  BY <2>1 DEF WalkInv, Describing
  <2>3. <<BB>> \o Term[BB].succ \in Seq(Block)  BY <2>2, AtBlock
  <2>4. PICK c \in Value : c = Term[BB].cond  BY <2>2, AtBlock
  <2>5. /\ \A k \in DOMAIN cond_info : From(cond_info[k], Parts(c))
        /\ TellsSoFar(cond_info, c, 3)
        BY <2>1, <2>4 DEF Making, RootNext
  <2>6. Tells(cond_info, c)
    <3>1. ComparesStrings(c) => \E i \in {1, 2} : isStrcmp(Def[c].args[i])
          BY DEF ComparesStrings
    <3>2. \A i \in {1, 2} : i < 3  OBVIOUS
    <3> QED  BY <2>5, <3>1, <3>2 DEF Tells, TellsSoFar
  <2>7. Complete(cond_info, c)  BY <1>0, <2>5, <2>6 DEF Complete
  <2> QED  BY <1>1, <2>1, <2>2, <2>3, <2>4, <2>7
<1>3. CASE visitSwitchInst
  <2>1. /\ ~Done /\ Term[BB].kind = "switch"
        /\ Inserted(<<BB, Term[BB].default>> \o Term[BB].succ, <<>>)
        BY <1>3 DEF visitSwitchInst
  <2>2. <<BB, Term[BB].default>> \o Term[BB].succ \in Seq(Block)  BY <2>1, AtBlock
  <2> QED  BY <1>1, <2>1, <2>2
<1>4. CASE Condition \/ Recurse \/ Return \/ NextBlock \/ UNCHANGED passVars
  <2>1. UNCHANGED calls  BY <1>4 DEF Condition, Recurse, Return, NextBlock, passVars
  <2> QED  BY <2>1 DEF Made
<1> QED  BY <1>2, <1>3, <1>4 DEF PassNext

\* In any module, a name that looks like a keyword or a width apart: the type read from
\* the text of a condition is that of a part of the condition, and the width that of an
\* integer compare of it or none, never 0 (trace-pass.so.cc:77-157, condition.py:26-43).
THEOREM RealFeatures ==
    ASSUME PlainNames
    PROVE  PassSpec => []FeaturesReal
<1>1. PassInit => WalkInv /\ Making /\ Made
  <2>1. PassInit => Making /\ Made
    <3> SUFFICES ASSUME PassInit PROVE Making /\ Made  OBVIOUS
    <3>1. frames = <<>> /\ cond_info = <<>> /\ calls = <<>>  BY DEF PassInit
    <3> QED  BY <3>1 DEF Making, Made
  <2> QED  BY <2>1, WalkInit
<1>2. WalkInv /\ Making /\ Made /\ [PassNext]_passVars => (WalkInv /\ Making /\ Made)'
      BY WalkStep, MakingStep, MadeStep
<1>3. Visited /\ Made => FeaturesReal
  <2> SUFFICES ASSUME Visited, Made, NEW i \in DOMAIN calls, Term[calls[i].block].kind = "br"
               PROVE  LET parts == Parts(Term[calls[i].block].cond)
                          widths == {Def[v].width : v \in {u \in parts : Def[u].op = "icmp"}}
                      IN  /\ EdgeType(calls[i].text) \in UNION {TypesOf(v) : v \in parts}
                          /\ CondWidth(calls[i].text) \in (widths \cup {NoWidth}) \ {0}
      BY DEF FeaturesReal
  <2>1. calls[i].block \in Block
    <3>1. PICK k \in DOMAIN Order : Order[k] = calls[i].block  BY DEF Visited
    <3> QED  BY <3>1, PassAssumption
  <2>2. PICK c \in Value : c = Term[calls[i].block].cond  BY <2>1, PassAssumption
  <2>3. PICK text : text = calls[i].text /\ Complete(text, c)  BY <2>2 DEF Made
  <2>4. Parts(c) \in SUBSET Value  BY PartsClosed
  <2>5. PICK u \in Parts(c) : EdgeType(text) \in TypesOf(u)  BY <2>3, EdgeTypeReal
  <2>6. \/ CondWidth(text) = NoWidth
        \/ \E w \in Parts(c) : Def[w].op = "icmp" /\ CondWidth(text) = Def[w].width
        BY <2>3, CondWidthReal
  <2>7. \A w \in Parts(c) : Def[w].op = "icmp" => Def[w].width # 0
        BY <2>4, PassAssumption DEF NoWidth
  <2>8. CondWidth(text) # 0  BY <2>6, <2>7 DEF NoWidth
  <2> QED  BY <2>2, <2>3, <2>5, <2>6, <2>8
<1>4. PassInit => Visited
  <2> SUFFICES ASSUME PassInit PROVE Visited  OBVIOUS
  <2>1. at = 1 /\ calls = <<>> /\ DOMAIN Order \subseteq Nat \ {0}
        BY PassAssumption DEF PassInit
  <2> QED  BY <2>1 DEF Visited
<1>5. WalkInv /\ Visited /\ [PassNext]_passVars => Visited'  BY VisitedStep
<1> QED  BY <1>1, <1>2, <1>3, <1>4, <1>5, PTL DEF PassSpec

(***************************************************************************)
(* The text of a condition, whole.                                         *)
(***************************************************************************)

\* The first L of some texts.
Texts(seqs, L, T) == \A i \in 1 .. L : seqs[i] \in Seq(T)

\* Sequences joined one after the other, from the first of L on.
JoinsFrom(g, seqs, L, T) ==
    /\ g \in [Nat -> Seq(T)] /\ g[0] = <<>>
    /\ \A i \in 1 .. L : g[i] = g[i - 1] \o seqs[i]

\* And from each of them to the last of L.
JoinsTo(s, seqs, L, T) ==
    /\ s \in [1 .. L + 1 -> Seq(T)] /\ s[L + 1] = <<>>
    /\ \A i \in 1 .. L : s[i] = seqs[i] \o s[i + 1]

\* Sequences can be joined from the first on.
LEMMA JoinsExist ==
    ASSUME NEW T, NEW seqs \in Seq(Seq(T))
    PROVE  \E g : JoinsFrom(g, seqs, Len(seqs), T)
<1> DEFINE step == [p \in Nat \X Seq(T) |->
                        IF p[1] < Len(seqs) THEN p[2] \o seqs[p[1] + 1] ELSE p[2]]
<1>1. step \in [Nat \X Seq(T) -> Seq(T)]
  <2> SUFFICES ASSUME NEW n \in Nat, NEW t \in Seq(T), n < Len(seqs)
               PROVE  t \o seqs[n + 1] \in Seq(T)
      OBVIOUS
  <2>1. n + 1 \in DOMAIN seqs  OBVIOUS
  <2>2. seqs[n + 1] \in Seq(T)  BY <2>1
  <2> QED  BY <2>2
<1>2. \A n \in Nat : \A t \in Seq(T) : n < Len(seqs) => step[<<n, t>>] = t \o seqs[n + 1]
  OBVIOUS
<1> HIDE DEF step
<1>3. <<>> \in Seq(T)  OBVIOUS
<1>4. PICK g : Iterates(g, Seq(T), <<>>, step)
  <2>1. StepOn(step, Seq(T))  BY <1>1 DEF StepOn
  <2> QED  BY <1>3, <2>1, Recursion, Zenon
<1>5. g \in [Nat -> Seq(T)] /\ g[0] = <<>> /\ \A n \in Nat : g[n + 1] = step[<<n, g[n]>>]
  BY <1>4 DEF Iterates
<1>6. \A n \in Nat : n < Len(seqs) => g[n + 1] = g[n] \o seqs[n + 1]  BY <1>2, <1>5
<1>7. \A i \in 1 .. Len(seqs) : i - 1 \in Nat /\ i - 1 < Len(seqs) /\ (i - 1) + 1 = i
  <2>1. Len(seqs) \in Nat  BY LenProperties
  <2> QED  BY <2>1
<1>8. \A i \in 1 .. Len(seqs) : g[i] = g[i - 1] \o seqs[i]
  <2> SUFFICES ASSUME NEW i \in 1 .. Len(seqs) PROVE g[i] = g[i - 1] \o seqs[i]  OBVIOUS
  <2>1. PICK n \in Nat : n = i - 1 /\ n < Len(seqs) /\ n + 1 = i  BY <1>7
  <2>2. g[n + 1] = g[n] \o seqs[n + 1]  BY <1>6, <2>1
  <2> QED  BY <2>1, <2>2
<1> QED  BY <1>5, <1>8 DEF JoinsFrom

\* What FlattenSeq chooses: a function that joins the first L sequences.
Flattens(f, seqs, L) ==
    f = [i \in 1 .. L |-> IF i = 1 THEN seqs[i] ELSE f[i - 1] \o seqs[i]]

\* There is one, and whatever joins them from the first on ends with the same.
LEMMA FlattensSame ==
    ASSUME NEW L \in Nat \ {0}, NEW seqs, NEW g, g[1] = seqs[1],
           \A i \in 1 .. L : i # 1 => g[i] = g[i - 1] \o seqs[i]
    PROVE  /\ \E f : Flattens(f, seqs, L)
           /\ \A f : Flattens(f, seqs, L) => f[L] = g[L]
<1>1. Flattens([i \in 1 .. L |-> g[i]], seqs, L)
  <2> DEFINE f == [i \in 1 .. L |-> g[i]]
  <2>1. \A i \in 1 .. L : f[i] = IF i = 1 THEN seqs[i] ELSE f[i - 1] \o seqs[i]
    <3> SUFFICES ASSUME NEW i \in 1 .. L
                 PROVE  f[i] = IF i = 1 THEN seqs[i] ELSE f[i - 1] \o seqs[i]
        OBVIOUS
    <3>1. i # 1 => i - 1 \in 1 .. L  OBVIOUS
    <3>2. f[i] = g[i] /\ (i # 1 => f[i - 1] = g[i - 1])  BY <3>1
    <3> QED  BY <3>2
  <2> QED  BY <2>1 DEF Flattens
<1>2. ASSUME NEW f, Flattens(f, seqs, L) PROVE f[L] = g[L]
  <2>1. \A i \in 1 .. L : f[i] = IF i = 1 THEN seqs[i] ELSE f[i - 1] \o seqs[i]
    <3>1. f = [i \in 1 .. L |-> IF i = 1 THEN seqs[i] ELSE f[i - 1] \o seqs[i]]
          BY <1>2 DEF Flattens
    <3> QED  BY <3>1, Zenon
  <2> DEFINE S == {n \in Nat : n < L => f[n + 1] = g[n + 1]}
  <2>2. 0 \in S  BY <2>1
  <2>3. \A n \in S : n + 1 \in S
    <3> SUFFICES ASSUME NEW n \in Nat, n < L => f[n + 1] = g[n + 1], n + 1 < L
                 PROVE  f[(n + 1) + 1] = g[(n + 1) + 1]
        OBVIOUS
    <3>1. PICK m \in 1 .. L : m = (n + 1) + 1 /\ m # 1 /\ m - 1 = n + 1  OBVIOUS
    <3>2. f[m] = f[m - 1] \o seqs[m]  BY <2>1, <3>1, Zenon
    <3>3. g[m] = g[m - 1] \o seqs[m]  BY <3>1, Zenon
    <3>4. f[n + 1] = g[n + 1]  BY <3>1
    <3> QED  BY <3>1, <3>2, <3>3, <3>4
  <2>4. S = Nat
    <3> HIDE DEF S
    <3>1. S \in SUBSET Nat  BY DEF S
    <3> QED  BY <2>2, <2>3, <3>1, Induction
  <2>5. L - 1 \in Nat /\ L - 1 < L /\ (L - 1) + 1 = L  OBVIOUS
  <2> QED  BY <2>4, <2>5
<1> QED  BY <1>1, <1>2

\* FlattenSeq is all of them.
LEMMA FlattenIs ==
    ASSUME NEW T, NEW seqs \in Seq(Seq(T)), NEW g, JoinsFrom(g, seqs, Len(seqs), T)
    PROVE  FlattenSeq(seqs) = g[Len(seqs)]
<1>1. PICK L \in Nat : L = Len(seqs)  BY LenProperties
<1>2. CASE L = 0
  <2>1. seqs = <<>>  BY <1>1, <1>2, EmptySeq
  <2> QED  BY <1>1, <1>2, <2>1 DEF FlattenSeq, JoinsFrom
<1>3. CASE L # 0
  <2>0. g[0] = <<>> /\ \A i \in 1 .. L : g[i] = g[i - 1] \o seqs[i]
        BY <1>1 DEF JoinsFrom
  <2>1. g[1] = <<>> \o seqs[1]
    <3>1. 1 \in 1 .. L /\ 1 - 1 = 0  BY <1>1, <1>3
    <3> QED  BY <2>0, <3>1
  <2>2. g[1] = seqs[1]
    <3>1. seqs[1] \in Seq(T)  BY <1>1, <1>3, ElementOfSeq
    <3>2. <<>> \o seqs[1] = seqs[1]  BY <3>1, ConcatEmptySeq
    <3> QED  BY <2>1, <3>2
  <2>3. \A i \in 1 .. L : i # 1 => g[i] = g[i - 1] \o seqs[i]  BY <2>0, Zenon
  <2>4. FlattenSeq(seqs) = (CHOOSE f : Flattens(f, seqs, L))[L]
        BY <1>1, <1>3 DEF FlattenSeq, Flattens
  <2>5. L \in Nat \ {0}  BY <1>1, <1>3
  <2>6. \E f : Flattens(f, seqs, L)  BY <2>2, <2>3, <2>5, FlattensSame
  <2>7. \A f : Flattens(f, seqs, L) => f[L] = g[L]  BY <2>2, <2>3, <2>5, FlattensSame
  <2>8. PICK f : f = CHOOSE h : Flattens(h, seqs, L)  OBVIOUS
  <2>9. Flattens(f, seqs, L)  BY <2>6, <2>8, Zenon
  <2> QED  BY <1>1, <2>4, <2>7, <2>8, <2>9, Zenon
<1> QED  BY <1>2, <1>3

\* Sequences can be joined from any of them to the last.
LEMMA JoinsToExist ==
    ASSUME NEW T, NEW L \in Nat, NEW seqs, Texts(seqs, L, T)
    PROVE  \E s : JoinsTo(s, seqs, L, T)
<1>0. \A i \in 1 .. L : seqs[i] \in Seq(T)  BY DEF Texts
<1> DEFINE step == [p \in Nat \X Seq(T) |-> IF p[1] < L THEN seqs[L - p[1]] \o p[2] ELSE p[2]]
<1>1. step \in [Nat \X Seq(T) -> Seq(T)]
  <2> SUFFICES ASSUME NEW n \in Nat, NEW t \in Seq(T), n < L
               PROVE  seqs[L - n] \o t \in Seq(T)
      OBVIOUS
  <2>1. L - n \in 1 .. L  OBVIOUS
  <2>2. seqs[L - n] \in Seq(T)  BY <1>0, <2>1
  <2> QED  BY <2>2, ConcatProperties
<1>2. \A n \in Nat : \A t \in Seq(T) : n < L => step[<<n, t>>] = seqs[L - n] \o t
  OBVIOUS
<1> HIDE DEF step
<1>3. <<>> \in Seq(T)  OBVIOUS
<1>4. PICK h : Iterates(h, Seq(T), <<>>, step)
  <2>1. StepOn(step, Seq(T))  BY <1>1 DEF StepOn
  <2> QED  BY <1>3, <2>1, Recursion, Zenon
<1>5. h \in [Nat -> Seq(T)] /\ h[0] = <<>> /\ \A n \in Nat : h[n + 1] = step[<<n, h[n]>>]
  BY <1>4 DEF Iterates
<1>6. \A n \in Nat : n < L => h[n + 1] = seqs[L - n] \o h[n]  BY <1>2, <1>5
<1> DEFINE s == [i \in 1 .. L + 1 |-> h[(L + 1) - i]]
<1>7. s \in [1 .. L + 1 -> Seq(T)] /\ s[L + 1] = <<>>
  <2>1. \A i \in 1 .. L + 1 : (L + 1) - i \in Nat  OBVIOUS
  <2>2. L + 1 \in 1 .. L + 1 /\ (L + 1) - (L + 1) = 0  OBVIOUS
  <2> QED  BY <1>5, <2>1, <2>2
<1>8. \A i \in 1 .. L : s[i] = seqs[i] \o s[i + 1]
  <2> SUFFICES ASSUME NEW i \in 1 .. L PROVE s[i] = seqs[i] \o s[i + 1]  OBVIOUS
  <2>1. PICK n \in Nat : n = L - i /\ n < L /\ L - n = i /\ (L + 1) - i = n + 1
                         /\ (L + 1) - (i + 1) = n
    <3>1. L - i \in Nat  OBVIOUS
    <3> QED  BY <3>1
  <2>2. h[n + 1] = seqs[L - n] \o h[n]  BY <1>6, <2>1
  <2>3. s[i] = h[(L + 1) - i] /\ s[i + 1] = h[(L + 1) - (i + 1)]  OBVIOUS
  <2> QED  BY <2>1, <2>2, <2>3
<1> HIDE DEF s
<1> QED  BY <1>7, <1>8 DEF JoinsTo

\* c is a followed by b.
Joined(a, b, c) == c = a \o b

\* Joining is associative.
LEMMA JoinedAgain ==
    ASSUME NEW T, NEW a \in Seq(T), NEW b \in Seq(T), NEW c \in Seq(T),
           NEW ab, NEW bc, NEW abc, Joined(a, b, ab), Joined(b, c, bc), Joined(ab, c, abc)
    PROVE  Joined(a, bc, abc)
BY DEF Joined

\* Two texts can be joined, and nothing added to a text is the text.
LEMMA JoinedText ==
    /\ \A a, b \in Seq(LogWord) : \E c \in Seq(LogWord) : Joined(a, b, c)
    /\ \A a \in Seq(LogWord) : \A b : Joined(a, <<>>, b) <=> a = b
    /\ \A a \in Seq(LogWord) : \A b : Joined(<<>>, a, b) <=> a = b
<1>1. \A a, b \in Seq(LogWord) : \E c \in Seq(LogWord) : Joined(a, b, c)
      BY ConcatProperties DEF Joined
<1>2. \A a \in Seq(LogWord) : a \o <<>> = a /\ <<>> \o a = a  BY ConcatEmptySeq
<1> QED  BY <1>1, <1>2, Zenon DEF Joined

\* From the first to the last is all of them.
LEMMA JoinsAll ==
    ASSUME NEW T, NEW L \in Nat, NEW seqs, Texts(seqs, L, T),
           NEW g, JoinsFrom(g, seqs, L, T), NEW s, JoinsTo(s, seqs, L, T)
    PROVE  g[L] = s[1]
<1>0. /\ g \in [Nat -> Seq(T)] /\ g[0] = <<>>
      /\ \A i \in 1 .. L : g[i] = g[i - 1] \o seqs[i] /\ seqs[i] \in Seq(T)
      BY DEF JoinsFrom, Texts
<1>1. /\ s \in [1 .. L + 1 -> Seq(T)] /\ s[L + 1] = <<>>
      /\ \A i \in 1 .. L : s[i] = seqs[i] \o s[i + 1]
      BY DEF JoinsTo
<1> DEFINE Same(n) == g[n] \o s[n + 1] = s[1]
           S == {n \in Nat : n <= L => Same(n)}
<1>2. Same(0)
  <2>1. s[1] \in Seq(T)  BY <1>1
  <2>2. <<>> \o s[1] = s[1]  BY <2>1, ConcatEmptySeq
  <2>3. 0 + 1 = 1  OBVIOUS
  <2> QED  BY <1>0, <2>2, <2>3, Zenon
<1>3. ASSUME NEW n \in Nat, n + 1 <= L, Same(n) PROVE Same(n + 1)
  <2>1. PICK i \in 1 .. L : i = n + 1 /\ i - 1 = n  BY <1>3
  <2>2. i + 1 \in 1 .. L + 1 /\ n \in Nat  BY <2>1
  <2>3. g[i] = g[n] \o seqs[i] /\ s[i] = seqs[i] \o s[i + 1]  BY <1>0, <1>1, <2>1, Zenon
  <2>4. g[n] \in Seq(T) /\ seqs[i] \in Seq(T) /\ s[i + 1] \in Seq(T)  BY <1>0, <1>1, <2>2, Zenon
  <2>5. g[i] \o s[i + 1] = g[n] \o s[i]
    <3>1. PICK t \in Seq(T), u \in Seq(T), w \in Seq(T) : t = g[n] /\ u = seqs[i] /\ w = s[i + 1]
          BY <2>4, Zenon
    <3>2. PICK tu, uw, tuw : tu = g[i] /\ uw = s[i] /\ Joined(tu, w, tuw)  BY DEF Joined
    <3>3. Joined(t, u, tu) /\ Joined(u, w, uw)  BY <2>3, <3>1, <3>2, Zenon DEF Joined
    <3>4. Joined(t, uw, tuw)  BY <3>2, <3>3, JoinedAgain
    <3> QED  BY <3>1, <3>2, <3>4, Zenon DEF Joined
  <2>6. g[n] \o s[i] = s[1]  BY <1>3, <2>1, Zenon
  <2>7. g[i] \o s[i + 1] = s[1]  BY <2>5, <2>6, Zenon
  <2> QED  BY <2>1, <2>7, Zenon
<1> HIDE DEF Same
<1>4. S = Nat
  <2>1. 0 \in S  BY <1>2
  <2>2. \A n \in S : n + 1 \in S
    <3> SUFFICES ASSUME NEW n \in Nat, n <= L => Same(n), n + 1 <= L PROVE Same(n + 1)
        OBVIOUS
    <3>1. n <= L  OBVIOUS
    <3> QED  BY <1>3, <3>1, Zenon
  <2> HIDE DEF S
  <2>3. S \in SUBSET Nat  BY DEF S
  <2> QED  BY <2>1, <2>2, <2>3, Induction
<1>5. g[L] \o s[L + 1] = s[1]
  <2>1. L \in S  BY <1>4, Zenon
  <2>2. Same(L)  BY <2>1
  <2> QED  BY <2>2, Zenon DEF Same
<1>6. g[L] \o <<>> = g[L]
  <2>1. g[L] \in Seq(T)  BY <1>0
  <2> QED  BY <2>1, ConcatEmptySeq
<1> QED  BY <1>1, <1>5, <1>6

\* What FlattenSeq makes of sequences is what the first of them begins.
LEMMA FlattenJoins ==
    ASSUME NEW T, NEW seqs \in Seq(Seq(T))
    PROVE  \E s : JoinsTo(s, seqs, Len(seqs), T) /\ FlattenSeq(seqs) = s[1]
<1>1. Len(seqs) \in Nat  BY LenProperties
<1>2. Texts(seqs, Len(seqs), T)  BY ElementOfSeq DEF Texts
<1>3. PICK g : JoinsFrom(g, seqs, Len(seqs), T)  BY JoinsExist
<1>4. PICK s : JoinsTo(s, seqs, Len(seqs), T)  BY <1>1, <1>2, JoinsToExist
<1>5. g[Len(seqs)] = s[1]  BY <1>1, <1>2, <1>3, <1>4, JoinsAll
<1>6. FlattenSeq(seqs) = g[Len(seqs)]  BY <1>3, FlattenIs
<1> QED  BY <1>4, <1>5, <1>6

\* The blocks known have ids.
HasIds(known) == \A b \in DOMAIN known : known[b] \in Nat

\* What the operand i of v adds to the text of v.
Piece(known, text, v, i) ==
    IF Def[v].op # "phi" THEN text[Operands(v)[i]]
    ELSE IF Def[v].blocks[i] \notin DOMAIN known THEN <<>>
    ELSE Lead(known, v, i) \o text[Operands(v)[i]]

Pieces(known, text, v) == [i \in DOMAIN Operands(v) |-> Piece(known, text, v, i)]

\* What an operand adds is a text.
LEMMA PieceText ==
    ASSUME NEW known, HasIds(known), NEW text \in [Value -> Seq(LogWord)], NEW v \in Value,
           NEW i \in DOMAIN Operands(v)
    PROVE  Piece(known, text, v, i) \in Seq(LogWord)
<1>1. text[Operands(v)[i]] \in Seq(LogWord)
  <2>1. Operands(v)[i] \in Value  BY OperandsValues, ElementOfSeq
  <2> QED  BY <2>1
<1>2. CASE Def[v].op # "phi"  BY <1>1, <1>2 DEF Piece
<1>3. CASE Def[v].op = "phi" /\ Def[v].blocks[i] \notin DOMAIN known
  <2>1. Piece(known, text, v, i) = <<>>  BY <1>3 DEF Piece
  <2> QED  BY <2>1
<1>4. CASE Def[v].op = "phi" /\ Def[v].blocks[i] \in DOMAIN known
  <2>1. Word("in", known[Def[v].blocks[i]], NoWidth, NoFn) \in LogWord
        BY <1>4, Words DEF HasIds, Kinds
  <2>2. PICK w \in LogWord : w = Word("in", known[Def[v].blocks[i]], NoWidth, NoFn)  BY <2>1
  <2>3. Piece(known, text, v, i) = <<w>> \o text[Operands(v)[i]]
        BY <1>4, <2>2 DEF Piece, Lead
  <2>4. <<w>> \in Seq(LogWord)  OBVIOUS
  <2> QED  BY <1>1, <2>3, <2>4, ConcatProperties
<1> QED  BY <1>2, <1>3, <1>4

\* A value has two operands, one for each incoming block, or none.
LEMMA OperandsOf ==
    ASSUME NEW v \in Value
    PROVE  /\ Def[v].op = "phi" => Operands(v) = Def[v].args
           /\ Def[v].op \in Binary \/ ComparesStrings(v) =>
                 Operands(v) = Def[v].args /\ Len(Operands(v)) = 2
           /\ Def[v].op # "phi" /\ Def[v].op \notin Binary /\ ~ComparesStrings(v) =>
                 Operands(v) = <<>>
<1>1. ComparesStrings(v) => Def[v].op = "icmp"  BY DEF ComparesStrings
<1> QED  BY <1>1, ValueFacts DEF Operands

\* The text of a value, from the texts of others: its opening and what its operands add.
LEMMA TextJoins ==
    ASSUME NEW known, HasIds(known), NEW text \in [Value -> Seq(LogWord)], NEW v \in Value
    PROVE  \E s : /\ JoinsTo(s, Pieces(known, text, v), Len(Operands(v)), LogWord)
                  /\ TextStep(known, text, v) = Opening(v) \o s[1]
<1> DEFINE L == Len(Operands(v))
           pieces == Pieces(known, text, v)
<1>0. /\ Operands(v) \in Seq(Value) /\ L \in Nat /\ DOMAIN Operands(v) = 1 .. L
      BY OperandsValues, LenProperties
<1>1. Texts(pieces, L, LogWord)
  <2>1. \A i \in 1 .. L : pieces[i] \in Seq(LogWord)
    <3> SUFFICES ASSUME NEW i \in 1 .. L PROVE pieces[i] \in Seq(LogWord)  OBVIOUS
    <3>1. pieces[i] = Piece(known, text, v, i)  BY <1>0 DEF Pieces
    <3>2. Piece(known, text, v, i) \in Seq(LogWord)  BY <1>0, PieceText
    <3> QED  BY <3>1, <3>2
  <2> QED  BY <2>1 DEF Texts
<1>2. Opening(v) \in Seq(LogWord)  BY OpeningWords
<1>3. CASE Def[v].op = "phi"
  <2>1. Operands(v) = Def[v].args  BY <1>3, OperandsOf
  <2>2. pieces \in Seq(Seq(LogWord)) /\ Len(pieces) = L
    <3>1. pieces \in [1 .. L -> Seq(LogWord)]  BY <1>0, <1>1 DEF Pieces, Texts
    <3> HIDE DEF pieces, L
    <3> QED  BY <1>0, <3>1
  <2>3. PICK s : JoinsTo(s, pieces, L, LogWord) /\ FlattenSeq(pieces) = s[1]
        BY <2>2, FlattenJoins
  <2>4. TextStep(known, text, v) = Opening(v) \o FlattenSeq(pieces)
    <3>1. Opening(v) = <<Bare("phi")>>  BY <1>3, OpeningIs, Zenon
    <3>2. pieces = [i \in DOMAIN Def[v].args |->
                        IF Def[v].blocks[i] \notin DOMAIN known THEN <<>>
                        ELSE <<Word("in", known[Def[v].blocks[i]], NoWidth, NoFn)>>
                                 \o text[Def[v].args[i]]]
          BY <1>3, <2>1 DEF Pieces, Piece, Lead
    <3> HIDE DEF pieces
    <3> QED  BY <1>3, <3>1, <3>2, Zenon DEF TextStep
  <2> QED  BY <2>3, <2>4, Zenon
<1>4. PICK s : JoinsTo(s, pieces, L, LogWord)  BY <1>0, <1>1, JoinsToExist
<1>5. /\ s \in [1 .. L + 1 -> Seq(LogWord)] /\ s[L + 1] = <<>>
      /\ \A i \in 1 .. L : s[i] = pieces[i] \o s[i + 1]
      BY <1>4 DEF JoinsTo
<1>6. ASSUME Def[v].op \in Binary \/ ComparesStrings(v)
      PROVE  /\ Def[v].args[1] \in Value /\ Def[v].args[2] \in Value
             /\ s[1] = text[Def[v].args[1]] \o text[Def[v].args[2]] /\ s[1] \in Seq(LogWord)
  <2>1. Operands(v) = Def[v].args /\ L = 2  BY <1>6, OperandsOf
  <2>2. Def[v].args[1] \in Value /\ Def[v].args[2] \in Value  BY <1>0, <2>1
  <2>3. Def[v].op # "phi"  BY <1>6 DEF ComparesStrings, Binary
  <2>4. pieces[1] = text[Def[v].args[1]] /\ pieces[2] = text[Def[v].args[2]]
        BY <1>0, <2>1, <2>3 DEF Pieces, Piece
  <2>5. s[1] = pieces[1] \o s[2] /\ s[2] = pieces[2] \o s[3] /\ s[3] = <<>> /\ s[1] \in Seq(LogWord)
    <3> HIDE DEF pieces, L
    <3>1. 1 \in 1 .. L /\ 2 \in 1 .. L /\ 1 + 1 = 2 /\ 2 + 1 = 3 /\ 1 \in 1 .. L + 1
          BY <2>1
    <3> QED  BY <1>5, <2>1, <3>1
  <2>6. text[Def[v].args[2]] \o <<>> = text[Def[v].args[2]]
    <3>1. text[Def[v].args[2]] \in Seq(LogWord)  BY <2>2
    <3> QED  BY <3>1, ConcatEmptySeq
  <2> HIDE DEF pieces
  <2> QED  BY <2>2, <2>4, <2>5, <2>6, Zenon
<1>7. CASE Def[v].op \in Binary
  <2>1. Opening(v) = <<>>  BY <1>7, OpeningIs, Zenon
  <2>2. TextStep(known, text, v) = s[1]
    <3>1. Def[v].op # "phi"  BY <1>7 DEF Binary
    <3> QED  BY <1>6, <1>7, <3>1, Zenon DEF TextStep
  <2>3. <<>> \o s[1] = s[1]  BY <1>6, <1>7, ConcatEmptySeq
  <2> QED  BY <1>4, <2>1, <2>2, <2>3, Zenon
<1>8. CASE ComparesStrings(v)
  <2>1. Def[v].op = "icmp" /\ (isStrcmp(Def[v].args[1]) \/ isStrcmp(Def[v].args[2]))
        BY <1>8 DEF ComparesStrings
  <2>2. Opening(v) = <<Bare("strcmp")>>  BY <1>8, <2>1, OpeningIs, Zenon
  <2>3. PICK a1 \in Seq(LogWord), a2 \in Seq(LogWord), o \in Seq(LogWord) :
            a1 = text[Def[v].args[1]] /\ a2 = text[Def[v].args[2]] /\ o = Opening(v)
        BY <1>2, <1>6, <1>8
  <2>4. TextStep(known, text, v) = (o \o a1) \o a2
    <3>1. Def[v].op # "phi" /\ Def[v].op \notin Binary  BY <2>1 DEF Binary
    <3> QED  BY <2>1, <2>2, <2>3, <3>1, Zenon DEF TextStep
  <2>5. s[1] = a1 \o a2  BY <1>6, <1>8, <2>3, Zenon
  <2>6. (o \o a1) \o a2 = o \o (a1 \o a2)
    <3>1. PICK oa, aa, oaa : Joined(o, a1, oa) /\ Joined(a1, a2, aa) /\ Joined(oa, a2, oaa)
          BY DEF Joined
    <3>2. Joined(o, aa, oaa)  BY <3>1, JoinedAgain
    <3> QED  BY <3>1, <3>2, Zenon DEF Joined
  <2> QED  BY <1>4, <2>3, <2>4, <2>5, <2>6, Zenon
<1>9. CASE Def[v].op # "phi" /\ Def[v].op \notin Binary /\ ~ComparesStrings(v)
  <2>1. Operands(v) = <<>> /\ L = 0  BY <1>9, OperandsOf
  <2>2. s[1] = <<>>  BY <1>5, <2>1
  <2>3. TextStep(known, text, v) = Opening(v)
    <3>1. ~(Def[v].op = "icmp" /\ (isStrcmp(Def[v].args[1]) \/ isStrcmp(Def[v].args[2])))
          BY <1>9 DEF ComparesStrings
    <3> QED  BY <1>9, <3>1, Zenon DEF TextStep
  <2>4. Opening(v) \o <<>> = Opening(v)  BY <1>2, ConcatEmptySeq
  <2> QED  BY <1>4, <2>2, <2>3, <2>4, Zenon
<1> QED  BY <1>3, <1>7, <1>8, <1>9

\* The text of a value is made from those of its operands alone.
LEMMA TextLocal ==
    ASSUME NEW known, NEW F, NEW G, NEW v \in Value,
           \A i \in DOMAIN Operands(v) : F[Operands(v)[i]] = G[Operands(v)[i]]
    PROVE  TextStep(known, F, v) = TextStep(known, G, v)
<1>0. Operands(v) \in Seq(Value)  BY OperandsValues
<1>1. CASE Def[v].op = "phi"
  <2>1. Operands(v) = Def[v].args  BY <1>1, OperandsOf
  <2> DEFINE branch(H, i) == IF Def[v].blocks[i] \notin DOMAIN known THEN <<>>
                             ELSE <<Word("in", known[Def[v].blocks[i]], NoWidth, NoFn)>>
                                      \o H[Def[v].args[i]]
  <2>2. \A i \in DOMAIN Def[v].args : branch(F, i) = branch(G, i)  BY <2>1
  <2>3. \A H : TextStep(known, H, v) =
                   <<Bare("phi")>> \o FlattenSeq([i \in DOMAIN Def[v].args |-> branch(H, i)])
        BY <1>1, Zenon DEF TextStep
  <2> HIDE DEF branch
  <2>4. [i \in DOMAIN Def[v].args |-> branch(F, i)] = [i \in DOMAIN Def[v].args |-> branch(G, i)]
        BY <2>2
  <2> QED  BY <2>3, <2>4, Zenon
<1>2. ASSUME Def[v].op \in Binary \/ ComparesStrings(v)
      PROVE  F[Def[v].args[1]] = G[Def[v].args[1]] /\ F[Def[v].args[2]] = G[Def[v].args[2]]
  <2>1. Operands(v) = Def[v].args /\ Len(Operands(v)) = 2  BY <1>2, OperandsOf
  <2>2. 1 \in DOMAIN Operands(v) /\ 2 \in DOMAIN Operands(v)  BY <1>0, <2>1
  <2> QED  BY <2>1, <2>2
<1>3. CASE Def[v].op \in Binary
  <2>1. Def[v].op # "phi"  BY <1>3 DEF Binary
  <2>2. \A H : TextStep(known, H, v) = H[Def[v].args[1]] \o H[Def[v].args[2]]
        BY <1>3, <2>1, Zenon DEF TextStep
  <2> QED  BY <1>2, <1>3, <2>2, Zenon
<1>4. CASE ComparesStrings(v)
  <2>1. Def[v].op = "icmp" /\ (isStrcmp(Def[v].args[1]) \/ isStrcmp(Def[v].args[2]))
        BY <1>4 DEF ComparesStrings
  <2>2. Def[v].op # "phi" /\ Def[v].op \notin Binary  BY <2>1 DEF Binary
  <2>3. \A H : TextStep(known, H, v) =
                   <<Bare("strcmp")>> \o H[Def[v].args[1]] \o H[Def[v].args[2]]
        BY <2>1, <2>2, Zenon DEF TextStep
  <2> QED  BY <1>2, <1>4, <2>3, Zenon
<1>5. CASE Def[v].op # "phi" /\ Def[v].op \notin Binary /\ ~ComparesStrings(v)
  <2>1. ~(Def[v].op = "icmp" /\ (isStrcmp(Def[v].args[1]) \/ isStrcmp(Def[v].args[2])))
        BY <1>5 DEF ComparesStrings
  <2>2. \A H : TextStep(known, H, v) = Opening(v)  BY <1>5, <2>1, Zenon DEF TextStep
  <2> QED  BY <2>2, Zenon
<1> QED  BY <1>1, <1>3, <1>4, <1>5

\* The text of a value is made of words.
LEMMA TextStepText ==
    ASSUME NEW known, HasIds(known), NEW text \in [Value -> Seq(LogWord)], NEW v \in Value
    PROVE  TextStep(known, text, v) \in Seq(LogWord)
<1>1. PICK L \in Nat : L = Len(Operands(v))  BY OperandsValues, LenProperties
<1>2. PICK s : /\ JoinsTo(s, Pieces(known, text, v), L, LogWord)
               /\ TextStep(known, text, v) = Opening(v) \o s[1]
      BY <1>1, TextJoins
<1>3. s[1] \in Seq(LogWord)
  <2>1. s \in [1 .. L + 1 -> Seq(LogWord)]  BY <1>2 DEF JoinsTo
  <2>2. 1 \in 1 .. L + 1  OBVIOUS
  <2> QED  BY <2>1, <2>2
<1>4. Opening(v) \in Seq(LogWord)  BY OpeningWords
<1>5. Opening(v) \o s[1] \in Seq(LogWord)  BY <1>3, <1>4, ConcatProperties
<1> QED  BY <1>2, <1>5

\* The texts of all values.
IsText(text, known) == text = [v \in Value |-> TextStep(known, text, v)]

\* Where no value is made of itself they are determined.
LEMMA TextsSame ==
    ASSUME NEW rank, Ranked(rank), NEW known, NEW F, NEW G, IsText(F, known), IsText(G, known)
    PROVE  F = G
<1>1. /\ \A v \in Value : F[v] = TextStep(known, F, v) /\ G[v] = TextStep(known, G, v)
      /\ F = [v \in Value |-> F[v]] /\ G = [v \in Value |-> G[v]]
  <2>1. F = [v \in Value |-> TextStep(known, F, v)] /\ G = [v \in Value |-> TextStep(known, G, v)]
        BY DEF IsText
  <2>2. \A v \in Value : F[v] = TextStep(known, F, v) /\ G[v] = TextStep(known, G, v)
        BY <2>1, Zenon
  <2> QED  BY <2>1, <2>2, Zenon
<1>2. /\ \A v \in Value : rank[v] \in Nat /\ rank[v] <= Cardinality(Value)
      /\ Cardinality(Value) \in Nat
      BY PassAssumption, FS_CardinalityType DEF Ranked
<1> DEFINE S == {n \in Nat : \A v \in Value : rank[v] < n => F[v] = G[v]}
<1>3. 0 \in S  BY <1>2
<1>4. \A n \in S : n + 1 \in S
  <2> SUFFICES ASSUME NEW n \in S, NEW v \in Value, rank[v] < n + 1 PROVE F[v] = G[v]
      OBVIOUS
  <2>1. \A i \in DOMAIN Operands(v) : F[Operands(v)[i]] = G[Operands(v)[i]]
    <3> SUFFICES ASSUME NEW i \in DOMAIN Operands(v)
                 PROVE  F[Operands(v)[i]] = G[Operands(v)[i]]
        OBVIOUS
    <3>1. PICK u \in Value : u = Operands(v)[i]  BY OperandsValues, ElementOfSeq
    <3>2. rank[u] < rank[v]  BY <3>1 DEF Ranked
    <3>3. rank[u] < n  BY <1>2, <3>2
    <3> QED  BY <3>1, <3>3
  <2>2. TextStep(known, F, v) = TextStep(known, G, v)  BY <2>1, TextLocal
  <2> QED  BY <1>1, <2>2
<1>5. S = Nat
  <2> HIDE DEF S
  <2>1. S \in SUBSET Nat  BY DEF S
  <2> QED  BY <1>3, <1>4, <2>1, Induction
<1>6. \A v \in Value : F[v] = G[v]
  <2> SUFFICES ASSUME NEW v \in Value PROVE F[v] = G[v]  OBVIOUS
  <2>1. PICK n \in Nat : n = rank[v] + 1 /\ rank[v] < n  BY <1>2
  <2>2. n \in S  BY <1>5
  <2> QED  BY <2>1, <2>2
<1>7. [v \in Value |-> F[v]] = [v \in Value |-> G[v]]  BY <1>6
<1> QED  BY <1>1, <1>7, Zenon

\* Where no value is made of itself there are texts of all values: texts are made in
\* rounds, and those of a rank stay from the round of that rank on.
LEMMA TextsExist ==
    ASSUME NEW rank, Ranked(rank), NEW known, HasIds(known)
    PROVE  \E F \in [Value -> Seq(LogWord)] : IsText(F, known)
<1> DEFINE T == [Value -> Seq(LogWord)]
           round(F) == [v \in Value |-> TextStep(known, F, v)]
           step == [p \in Nat \X T |-> round(p[2])]
           none == [v \in Value |-> <<>>]
           N == Cardinality(Value) + 1
<1>1. \A F \in T : round(F) \in T  BY TextStepText
<1>2. none \in T
  <2>1. <<>> \in Seq(LogWord)  OBVIOUS
  <2> QED  BY <2>1
<1> HIDE DEF round, T, none
<1>3. step \in [Nat \X T -> T]  BY <1>1
<1>4. \A n \in Nat : \A F \in T : step[<<n, F>>] = round(F)  OBVIOUS
<1> HIDE DEF step
<1>5. PICK f : Iterates(f, T, none, step)
  <2>1. StepOn(step, T)  BY <1>3 DEF StepOn
  <2> QED  BY <1>2, <2>1, Recursion, Zenon
<1>6. f \in [Nat -> T] /\ \A n \in Nat : f[n + 1] = round(f[n])  BY <1>4, <1>5 DEF Iterates
<1>7. /\ \A v \in Value : rank[v] \in Nat /\ rank[v] < N
      /\ N \in Nat
      BY PassAssumption, FS_CardinalityType DEF Ranked
<1> HIDE DEF N
<1> DEFINE Settled(n) == \A v \in Value : rank[v] < n => f[n + 1][v] = f[n][v]
           S == {n \in Nat : Settled(n)}
<1>8. 0 \in S  BY <1>7
<1>9. \A n \in S : n + 1 \in S
  <2> SUFFICES ASSUME NEW n \in Nat, Settled(n), NEW v \in Value, rank[v] < n + 1
               PROVE  f[(n + 1) + 1][v] = f[n + 1][v]
      OBVIOUS
  <2>0. PICK m \in Nat : m = n + 1  OBVIOUS
  <2>1. \A i \in DOMAIN Operands(v) : f[m][Operands(v)[i]] = f[n][Operands(v)[i]]
    <3> SUFFICES ASSUME NEW i \in DOMAIN Operands(v)
                 PROVE  f[m][Operands(v)[i]] = f[n][Operands(v)[i]]
        OBVIOUS
    <3>1. PICK u \in Value : u = Operands(v)[i]  BY OperandsValues, ElementOfSeq
    <3>2. rank[u] < rank[v]  BY <3>1 DEF Ranked
    <3>3. rank[u] < n  BY <1>7, <3>2
    <3> QED  BY <2>0, <3>1, <3>3
  <2>2. TextStep(known, f[m], v) = TextStep(known, f[n], v)  BY <2>1, TextLocal
  <2>3. f[m + 1] = round(f[m]) /\ f[m] = round(f[n])  BY <1>6, <2>0
  <2>4. round(f[m])[v] = TextStep(known, f[m], v) /\ round(f[n])[v] = TextStep(known, f[n], v)
        BY DEF round
  <2> QED  BY <2>0, <2>2, <2>3, <2>4
<1>10. S = Nat
  <2> HIDE DEF S
  <2>1. S \in SUBSET Nat  BY DEF S
  <2> QED  BY <1>8, <1>9, <2>1, Induction
<1>11. Settled(N)  BY <1>7, <1>10
<1>12. f[N] \in T /\ f[N + 1] \in T /\ f[N + 1] = round(f[N])
  <2>1. N + 1 \in Nat  BY <1>7
  <2> QED  BY <1>6, <1>7, <2>1
<1>13. \A v \in Value : f[N][v] = TextStep(known, f[N], v)
  <2>1. \A v \in Value : f[N + 1][v] = f[N][v]  BY <1>7, <1>11
  <2>2. \A v \in Value : round(f[N])[v] = TextStep(known, f[N], v)  BY DEF round
  <2> QED  BY <1>12, <2>1, <2>2
<1>14. PICK F \in T : F = f[N]  BY <1>12
<1>15. F = [v \in Value |-> TextStep(known, F, v)]
  <2>1. F = [v \in Value |-> F[v]]  BY DEF T
  <2>2. \A v \in Value : F[v] = TextStep(known, F, v)  BY <1>13, <1>14
  <2>3. [v \in Value |-> F[v]] = [v \in Value |-> TextStep(known, F, v)]  BY <2>2
  <2> QED  BY <2>1, <2>3, Zenon
<1> QED  BY <1>15 DEF IsText, T

\* So TextOf is the texts of all values.
LEMMA TextOfIs ==
    ASSUME NEW rank, Ranked(rank), NEW known, HasIds(known)
    PROVE  /\ TextOf(known) \in [Value -> Seq(LogWord)]
           /\ \A v \in Value : TextOf(known)[v] = TextStep(known, TextOf(known), v)
<1>1. PICK F \in [Value -> Seq(LogWord)] : IsText(F, known)  BY TextsExist
<1>2. TextOf(known) = CHOOSE G : IsText(G, known)  BY DEF TextOf, IsText
<1>3. IsText(TextOf(known), known)  BY <1>1, <1>2, Zenon
<1>4. PICK G : G = TextOf(known)  OBVIOUS
<1>5. IsText(G, known)  BY <1>3, <1>4
<1>6. G = F  BY <1>1, <1>5, TextsSame
<1>7. \A v \in Value : F[v] = TextStep(known, F, v)
  <2>1. F = [v \in Value |-> TextStep(known, F, v)]  BY <1>1 DEF IsText
  <2> QED  BY <2>1, Zenon
<1> QED  BY <1>1, <1>4, <1>6, <1>7

\* What a call of getBrCond has yet to add to the text of its value.
FrameRest(known, text, fr, t) ==
    \E s : /\ JoinsTo(s, Pieces(known, text, fr.value), Len(Operands(fr.value)), LogWord)
           /\ fr.next \in 1 .. Len(Operands(fr.value)) + 1
           /\ t = s[fr.next]

\* What a stack of them has yet to add, from the top down.
StackRest(known, text, stack, rest) ==
    \E acc : /\ acc \in [0 .. Len(stack) -> Seq(LogWord)] /\ acc[0] = <<>>
             /\ \A k \in 1 .. Len(stack) :
                    \E t \in Seq(LogWord) : /\ FrameRest(known, text, stack[k], t)
                                            /\ acc[k] = t \o acc[k - 1]
             /\ rest = acc[Len(stack)]

\* A call that begins has all of the text but the opening to add.
LEMMA FrameNew ==
    ASSUME NEW known, HasIds(known), NEW text \in [Value -> Seq(LogWord)], NEW v \in Value
    PROVE  \E t \in Seq(LogWord) : /\ FrameRest(known, text, Frame(v), t)
                                   /\ Joined(Opening(v), t, TextStep(known, text, v))
<1>1. PICK L \in Nat : L = Len(Operands(v))  BY OperandsValues, LenProperties
<1>2. PICK s : /\ JoinsTo(s, Pieces(known, text, v), L, LogWord)
               /\ TextStep(known, text, v) = Opening(v) \o s[1]
      BY <1>1, TextJoins
<1>3. s[1] \in Seq(LogWord) /\ 1 \in 1 .. L + 1
  <2>1. s \in [1 .. L + 1 -> Seq(LogWord)]  BY <1>2 DEF JoinsTo
  <2>2. 1 \in 1 .. L + 1  OBVIOUS
  <2> QED  BY <2>1, <2>2
<1>4. Frame(v).value = v /\ Frame(v).next = 1  BY DEF Frame
<1>5. FrameRest(known, text, Frame(v), s[1])  BY <1>1, <1>2, <1>3, <1>4, Zenon DEF FrameRest
<1> QED  BY <1>2, <1>3, <1>5, Zenon DEF Joined

\* A call that has an operand left has it to add, and then the rest.
LEMMA FrameStep ==
    ASSUME NEW known, NEW text, NEW fr \in Call, NEW t, FrameRest(known, text, fr, t),
           fr.next <= Len(Operands(fr.value))
    PROVE  \E u \in Seq(LogWord) :
               /\ FrameRest(known, text, [fr EXCEPT !.next = @ + 1], u)
               /\ Joined(Piece(known, text, fr.value, fr.next), u, t)
<1>0. PICK v \in Value, next \in Nat \ {0}, L \in Nat :
          v = fr.value /\ next = fr.next /\ L = Len(Operands(v)) /\ next <= L
  <2>1. fr.value \in Value /\ fr.next \in Nat \ {0}  BY DEF Call
  <2>2. Len(Operands(fr.value)) \in Nat  BY <2>1, OperandsValues, LenProperties
  <2> QED  BY <2>1, <2>2
<1>1. PICK s : JoinsTo(s, Pieces(known, text, v), L, LogWord) /\ t = s[next]
      BY <1>0 DEF FrameRest
<1>2. /\ s \in [1 .. L + 1 -> Seq(LogWord)]
      /\ \A i \in 1 .. L : s[i] = Pieces(known, text, v)[i] \o s[i + 1]
      BY <1>1 DEF JoinsTo
<1>3. next \in 1 .. L /\ next + 1 \in 1 .. L + 1  BY <1>0
<1>4. s[next] = Pieces(known, text, v)[next] \o s[next + 1] /\ s[next + 1] \in Seq(LogWord)
      BY <1>2, <1>3
<1>5. Pieces(known, text, v)[next] = Piece(known, text, v, next)
  <2>1. DOMAIN Operands(v) = 1 .. L  BY <1>0, OperandsValues, LenProperties
  <2> QED  BY <1>3, <2>1 DEF Pieces
<1> DEFINE on == [fr EXCEPT !.next = @ + 1]
<1>6. on.value = v /\ on.next = next + 1  BY <1>0 DEF Call
<1> HIDE DEF on
<1>7. FrameRest(known, text, on, s[next + 1])  BY <1>0, <1>1, <1>3, <1>6, Zenon DEF FrameRest
<1>8. Joined(Piece(known, text, v, next), s[next + 1], t)  BY <1>1, <1>4, <1>5, Zenon DEF Joined
<1> QED  BY <1>0, <1>4, <1>7, <1>8 DEF on

\* A call that has none left has nothing to add.
LEMMA FrameEnd ==
    ASSUME NEW known, NEW text, NEW fr \in Call, NEW t, FrameRest(known, text, fr, t),
           ~(fr.next <= Len(Operands(fr.value)))
    PROVE  t = <<>>
<1>1. fr.value \in Value /\ fr.next \in Nat \ {0}  BY DEF Call
<1>2. PICK L \in Nat : L = Len(Operands(fr.value))  BY <1>1, OperandsValues, LenProperties
<1>3. PICK s : /\ JoinsTo(s, Pieces(known, text, fr.value), L, LogWord)
               /\ fr.next \in 1 .. L + 1 /\ t = s[fr.next]
      BY <1>2 DEF FrameRest
<1>4. fr.next = L + 1  BY <1>1, <1>2, <1>3
<1> QED  BY <1>3, <1>4 DEF JoinsTo

\* An empty stack has nothing to add.
LEMMA StackEmpty ==
    ASSUME NEW known, NEW text
    PROVE  /\ StackRest(known, text, <<>>, <<>>)
           /\ \A rest : StackRest(known, text, <<>>, rest) => rest = <<>>
<1> DEFINE acc == [k \in 0 .. 0 |-> <<>>]
<1>1. Len(<<>>) = 0 /\ 1 .. 0 = {} /\ <<>> \in Seq(LogWord)  OBVIOUS
<1>2. acc \in [0 .. 0 -> Seq(LogWord)] /\ acc[0] = <<>>  OBVIOUS
<1> HIDE DEF acc
<1>3. StackRest(known, text, <<>>, <<>>)  BY <1>1, <1>2, Zenon DEF StackRest
<1> QED  BY <1>1, <1>3 DEF StackRest

\* A stack with one more call has more to add.
LEMMA StackPush ==
    ASSUME NEW known, NEW text, NEW stack \in Seq(Call), NEW fr \in Call,
           NEW t \in Seq(LogWord), NEW rest, NEW all, FrameRest(known, text, fr, t),
           StackRest(known, text, stack, rest), Joined(t, rest, all)
    PROVE  StackRest(known, text, Append(stack, fr), all)
<1>1. PICK n \in Nat : n = Len(stack)  OBVIOUS
<1>2. PICK acc : /\ acc \in [0 .. n -> Seq(LogWord)] /\ acc[0] = <<>>
                 /\ \A k \in 1 .. n :
                        \E u \in Seq(LogWord) : /\ FrameRest(known, text, stack[k], u)
                                                /\ acc[k] = u \o acc[k - 1]
                 /\ rest = acc[n]
      BY <1>1 DEF StackRest
<1>3. PICK on : on = Append(stack, fr)  OBVIOUS
<1>4. Len(on) = n + 1 /\ on[n + 1] = fr /\ \A k \in 1 .. n : on[k] = stack[k]
      BY <1>1, <1>3
<1> DEFINE more == [k \in 0 .. n + 1 |-> IF k = n + 1 THEN t \o rest ELSE acc[k]]
<1>5. t \o rest \in Seq(LogWord)
  <2>1. rest \in Seq(LogWord)  BY <1>2
  <2> QED  BY <2>1, ConcatProperties
<1>6. more \in [0 .. n + 1 -> Seq(LogWord)] /\ more[0] = <<>> /\ more[n + 1] = t \o rest
  <2>1. \A k \in 0 .. n + 1 : k # n + 1 => k \in 0 .. n  OBVIOUS
  <2>2. 0 \in 0 .. n + 1 /\ 0 # n + 1 /\ n + 1 \in 0 .. n + 1  OBVIOUS
  <2>3. \A k \in 0 .. n : acc[k] \in Seq(LogWord)  BY <1>2
  <2> QED  BY <1>2, <1>5, <2>1, <2>2, <2>3, Zenon
<1>7. \A k \in 0 .. n : more[k] = acc[k]  OBVIOUS
<1> HIDE DEF more
<1>8. ASSUME NEW k \in 1 .. n + 1
      PROVE  \E u \in Seq(LogWord) : /\ FrameRest(known, text, on[k], u)
                                     /\ more[k] = u \o more[k - 1]
  <2>1. CASE k = n + 1
    <3>1. k - 1 \in 0 .. n /\ k - 1 = n  BY <2>1
    <3>2. more[k - 1] = rest  BY <1>2, <1>7, <3>1, Zenon
    <3> QED  BY <1>4, <1>6, <2>1, <3>2, Zenon
  <2>2. CASE k # n + 1
    <3>1. k \in 1 .. n /\ k \in 0 .. n /\ k - 1 \in 0 .. n  BY <2>2
    <3>2. more[k] = acc[k] /\ more[k - 1] = acc[k - 1] /\ on[k] = stack[k]
          BY <1>4, <1>7, <3>1, Zenon
    <3> QED  BY <1>2, <3>1, <3>2, Zenon
  <2> QED  BY <2>1, <2>2
<1>9. StackRest(known, text, on, t \o rest)
      BY <1>4, <1>6, <1>8, Zenon DEF StackRest
<1> QED  BY <1>3, <1>9, Zenon DEF Joined

\* What a stack adds: first what the call on top does, then what those under it do.
LEMMA StackPop ==
    ASSUME NEW known, NEW text, NEW stack \in Seq(Call), stack # <<>>, NEW rest,
           StackRest(known, text, stack, rest)
    PROVE  \E t \in Seq(LogWord), below \in Seq(LogWord) :
               /\ FrameRest(known, text, stack[Len(stack)], t)
               /\ StackRest(known, text, Front(stack), below)
               /\ Joined(t, below, rest)
<1>1. PICK n \in Nat \ {0} : n = Len(stack)  OBVIOUS
<1>2. PICK acc : /\ acc \in [0 .. n -> Seq(LogWord)] /\ acc[0] = <<>>
                 /\ \A k \in 1 .. n :
                        \E u \in Seq(LogWord) : /\ FrameRest(known, text, stack[k], u)
                                                /\ acc[k] = u \o acc[k - 1]
                 /\ rest = acc[n]
      BY <1>1 DEF StackRest
<1>3. PICK m \in Nat : m = n - 1 /\ m \in 0 .. n /\ n \in 1 .. n  BY <1>1
<1>4. PICK t \in Seq(LogWord) : FrameRest(known, text, stack[n], t) /\ acc[n] = t \o acc[m]
      BY <1>2, <1>3
<1>5. PICK low : low = Front(stack)  OBVIOUS
<1>6. Len(low) = m /\ \A k \in 1 .. m : low[k] = stack[k]
      BY <1>1, <1>3, <1>5 DEF Front
<1> DEFINE less == [k \in 0 .. m |-> acc[k]]
<1>7. /\ less \in [0 .. m -> Seq(LogWord)] /\ less[0] = <<>> /\ less[m] = acc[m]
      /\ acc[m] \in Seq(LogWord) /\ \A k \in 0 .. m : less[k] = acc[k]
  <2>1. (\A k \in 0 .. m : k \in 0 .. n) /\ 0 \in 0 .. m /\ m \in 0 .. m  BY <1>3
  <2>2. \A k \in 0 .. m : less[k] = acc[k]  OBVIOUS
  <2>3. \A k \in 0 .. n : acc[k] \in Seq(LogWord)  BY <1>2, Zenon
  <2>4. less \in [0 .. m -> Seq(LogWord)]  BY <2>1, <2>3, Zenon
  <2> HIDE DEF less
  <2> QED  BY <1>2, <1>3, <2>1, <2>2, <2>3, <2>4, Zenon
<1> HIDE DEF less
<1>8. ASSUME NEW k \in 1 .. m
      PROVE  \E u \in Seq(LogWord) : /\ FrameRest(known, text, low[k], u)
                                     /\ less[k] = u \o less[k - 1]
  <2>1. k \in 1 .. n /\ k \in 0 .. m /\ k - 1 \in 0 .. m  BY <1>3
  <2>2. less[k] = acc[k] /\ less[k - 1] = acc[k - 1] /\ low[k] = stack[k]
        BY <1>6, <1>7, <2>1, Zenon
  <2> QED  BY <1>2, <2>1, <2>2, Zenon
<1>9. StackRest(known, text, low, acc[m])
      BY <1>6, <1>7, <1>8, Zenon DEF StackRest
<1> QED  BY <1>1, <1>2, <1>4, <1>5, <1>7, <1>9, Zenon DEF Joined

\* What has been made of the text of the condition and what the stack has yet to add
\* are the text of the condition.
Whole ==
    frames # <<>> \/ cond_info # <<>> =>
        \E rest \in Seq(LogWord) :
            /\ StackRest(basicBlockMap, TextOf(basicBlockMap), frames, rest)
            /\ Joined(cond_info, rest, TextOf(basicBlockMap)[Term[BB].cond])

\* The calls inserted have the texts they should.
Logged ==
    \A i \in DOMAIN calls :
        Term[calls[i].block].kind = "br" =>
            calls[i].text = TextOf(calls[i].known)[Term[calls[i].block].cond]

\* An operand whose text is begun: how its pieces make the texts around it.
Begun(made, lead, ml, opening, now, t, operand, piece, u, top, below, rest, all) ==
    /\ {made, lead, opening, t, u, below} \subseteq Seq(LogWord)
    /\ Joined(made, lead, ml) /\ Joined(ml, opening, now)
    /\ Joined(opening, t, operand) /\ Joined(lead, operand, piece)
    /\ Joined(piece, u, top) /\ Joined(top, below, rest)
    /\ Joined(made, rest, all)

\* What it opens with moves to the text made so far.
LEMMA Moves ==
    ASSUME NEW made, NEW lead, NEW ml, NEW opening, NEW now, NEW t, NEW operand, NEW piece,
           NEW u, NEW top, NEW below, NEW rest, NEW all,
           Begun(made, lead, ml, opening, now, t, operand, piece, u, top, below, rest, all)
    PROVE  \E ub \in Seq(LogWord), more \in Seq(LogWord) :
               Joined(u, below, ub) /\ Joined(t, ub, more) /\ Joined(now, more, all)
<1>0. /\ made \in Seq(LogWord) /\ lead \in Seq(LogWord) /\ opening \in Seq(LogWord)
      /\ t \in Seq(LogWord) /\ u \in Seq(LogWord) /\ below \in Seq(LogWord)
      /\ Joined(made, lead, ml) /\ Joined(ml, opening, now)
      /\ Joined(opening, t, operand) /\ Joined(lead, operand, piece)
      /\ Joined(piece, u, top) /\ Joined(top, below, rest) /\ Joined(made, rest, all)
      BY Zenon DEF Begun
<1>1. /\ ml \in Seq(LogWord) /\ operand \in Seq(LogWord) /\ now \in Seq(LogWord)
      /\ piece \in Seq(LogWord) /\ top \in Seq(LogWord) /\ rest \in Seq(LogWord)
  <2>1. \A a, b \in Seq(LogWord) : \A c : Joined(a, b, c) => c \in Seq(LogWord)
        BY ConcatProperties DEF Joined
  <2> QED  BY <1>0, <2>1
<1>2. PICK ub \in Seq(LogWord) : Joined(u, below, ub)  BY <1>0, JoinedText
<1>3. PICK more \in Seq(LogWord) : Joined(t, ub, more)  BY <1>0, JoinedText
<1>4. PICK om \in Seq(LogWord) : Joined(operand, ub, om)  BY <1>0, <1>1, JoinedText
<1>5. Joined(piece, ub, rest)  BY <1>0, <1>1, <1>2, JoinedAgain
<1>6. Joined(lead, om, rest)  BY <1>0, <1>1, <1>4, <1>5, JoinedAgain
<1>7. Joined(opening, more, om)  BY <1>0, <1>3, <1>4, JoinedAgain
<1>8. PICK mlom : Joined(ml, om, mlom)  BY DEF Joined
<1>9. mlom = all
  <2>1. Joined(made, rest, mlom)  BY <1>0, <1>6, <1>8, JoinedAgain
  <2> QED  BY <1>0, <2>1, Zenon DEF Joined
<1>10. PICK nm : Joined(now, more, nm)  BY DEF Joined
<1>11. nm = all
  <2>1. Joined(ml, om, nm)  BY <1>0, <1>1, <1>7, <1>10, JoinedAgain
  <2> QED  BY <1>0, <1>8, <1>9, <2>1, Zenon DEF Joined
<1> QED  BY <1>2, <1>3, <1>10, <1>11

\* Changing what is on top is taking it off and putting something else on.
LEMMA TopChanged ==
    ASSUME NEW S, NEW stack \in Seq(S), stack # <<>>, NEW on \in S
    PROVE  [stack EXCEPT ![Len(stack)] = on] = Append(Front(stack), on)
<1>1. PICK n \in Nat \ {0} : n = Len(stack) /\ DOMAIN stack = 1 .. n  OBVIOUS
<1>2. PICK low : low = Front(stack)  OBVIOUS
<1>3. low \in Seq(S) /\ Len(low) = n - 1 /\ \A k \in 1 .. n - 1 : low[k] = stack[k]
      BY <1>1, <1>2 DEF Front
<1>4. PICK all : all = Append(low, on)  OBVIOUS
<1>5. all \in Seq(S) /\ Len(all) = n /\ all[n] = on /\ \A k \in 1 .. n - 1 : all[k] = low[k]
  <2>1. /\ Append(low, on) \in Seq(S) /\ Len(Append(low, on)) = Len(low) + 1
        /\ Append(low, on)[Len(low) + 1] = on
        /\ \A k \in 1 .. Len(low) : Append(low, on)[k] = low[k]
        BY <1>3, AppendProperties
  <2>2. Len(low) = n - 1 /\ Len(low) + 1 = n  BY <1>3
  <2>3. /\ all \in Seq(S) /\ Len(all) = Len(low) + 1 /\ all[Len(low) + 1] = on
        /\ \A k \in 1 .. Len(low) : all[k] = low[k]
        BY <1>4, <2>1, Zenon
  <2>4. Len(all) = n  BY <2>2, <2>3
  <2>5. all[n] = on  BY <2>2, <2>3, Zenon
  <2>6. \A k \in 1 .. n - 1 : all[k] = low[k]  BY <2>2, <2>3, Zenon
  <2> QED  BY <2>3, <2>4, <2>5, <2>6, Zenon
<1>6. PICK new : new = [stack EXCEPT ![n] = on]  OBVIOUS
<1>7. /\ new \in Seq(S) /\ Len(new) = n /\ new[n] = on
      /\ \A k \in 1 .. n - 1 : new[k] = stack[k]
  <2>1. n \in 1 .. n /\ \A k \in 1 .. n - 1 : k \in 1 .. n /\ k # n  BY <1>1
  <2>2. stack \in [1 .. n -> S]  BY <1>1, LenProperties
  <2>3. new \in [1 .. n -> S]  BY <1>6, <2>2, Zenon
  <2>4. new[n] = on /\ \A k \in 1 .. n - 1 : new[k] = stack[k]
        BY <1>6, <2>1, <2>2, Zenon
  <2>5. new \in Seq(S)  BY <1>1, <2>3, SeqDef
  <2>6. DOMAIN new = 1 .. n /\ DOMAIN new = 1 .. Len(new) /\ Len(new) \in Nat
        BY <2>3, <2>5, LenProperties, Zenon
  <2> QED  BY <1>1, <2>4, <2>5, <2>6
<1>8. \A k \in 1 .. n : new[k] = all[k]
  <2> SUFFICES ASSUME NEW k \in 1 .. n PROVE new[k] = all[k]  OBVIOUS
  <2>1. k = n \/ k \in 1 .. n - 1  OBVIOUS
  <2> QED  BY <1>3, <1>5, <1>7, <2>1
<1>9. new = all  BY <1>5, <1>7, <1>8, SeqEqual
<1> QED  BY <1>1, <1>2, <1>4, <1>6, <1>9

\* The texts of all values, with what the lemmas on the stack need of them.
HasTexts(known, text) ==
    /\ HasIds(known)
    /\ text \in [Value -> Seq(LogWord)]
    /\ \A v \in Value : text[v] = TextStep(known, text, v)

\* A call that begins on an empty stack: the opening is made, the rest is to be added.
LEMMA StackBegins ==
    ASSUME NEW known, NEW text, HasTexts(known, text), NEW c \in Value
    PROVE  \E rest \in Seq(LogWord) : /\ StackRest(known, text, <<Frame(c)>>, rest)
                                      /\ Joined(Opening(c), rest, text[c])
<1>1. /\ HasIds(known) /\ text \in [Value -> Seq(LogWord)]
      /\ text[c] = TextStep(known, text, c)
      BY DEF HasTexts
<1>2. PICK t \in Seq(LogWord) : /\ FrameRest(known, text, Frame(c), t)
                                /\ Joined(Opening(c), t, text[c])
  <2>1. \E t \in Seq(LogWord) : /\ FrameRest(known, text, Frame(c), t)
                                /\ Joined(Opening(c), t, TextStep(known, text, c))
        BY <1>1, FrameNew
  <2> QED  BY <1>1, <2>1, Zenon
<1>3. Frame(c) \in Call  BY DEF Frame, Call
<1>4. StackRest(known, text, <<>>, <<>>)  BY StackEmpty
<1>5. Joined(t, <<>>, t)  BY ConcatEmptySeq DEF Joined
<1>6. <<>> \in Seq(Call)  OBVIOUS
<1>7. PICK empty, one : empty = <<>> /\ one = Append(empty, Frame(c))  OBVIOUS
<1>8. StackRest(known, text, one, t)
  <2>1. StackRest(known, text, empty, <<>>) /\ empty \in Seq(Call)  BY <1>4, <1>6, <1>7
  <2> QED  BY <1>2, <1>3, <1>5, <1>7, <2>1, StackPush
<1>9. one = <<Frame(c)>>
  <2>1. Append(<<>>, Frame(c)) = <<Frame(c)>>  OBVIOUS
  <2> QED  BY <1>7, <2>1
<1> QED  BY <1>2, <1>8, <1>9

\* A stack whose top call goes on to its next operand.
Onward(stack) ==
    [stack EXCEPT ![Len(stack)] = [stack[Len(stack)] EXCEPT !.next = @ + 1]]

\* What the stack adds is then less by that operand.
LEMMA StackOnward ==
    ASSUME NEW known, NEW text, HasTexts(known, text), NEW stack \in Seq(Call), stack # <<>>,
           NEW fr, fr = stack[Len(stack)], fr.next <= Len(Operands(fr.value)),
           NEW rest, StackRest(known, text, stack, rest)
    PROVE  \E u, below, top, ub :
               /\ u \in Seq(LogWord) /\ below \in Seq(LogWord)
               /\ Joined(Piece(known, text, fr.value, fr.next), u, top)
               /\ Joined(top, below, rest) /\ Joined(u, below, ub)
               /\ StackRest(known, text, Onward(stack), ub)
               /\ Onward(stack) \in Seq(Call)
<1>1. fr \in Call  BY ElementOfSeq
<1>2. PICK t \in Seq(LogWord), below \in Seq(LogWord) :
          /\ FrameRest(known, text, fr, t)
          /\ StackRest(known, text, Front(stack), below)
          /\ Joined(t, below, rest)
      BY StackPop
<1>3. PICK on : on = [fr EXCEPT !.next = @ + 1]  OBVIOUS
<1>4. PICK u \in Seq(LogWord) : /\ FrameRest(known, text, on, u)
                                /\ Joined(Piece(known, text, fr.value, fr.next), u, t)
      BY <1>1, <1>2, <1>3, FrameStep
<1>5. on \in Call
  <2>1. fr.next \in Nat /\ fr.next + 1 \in Nat \ {0}  BY <1>1 DEF Call
  <2>2. on = [fr EXCEPT !.next = fr.next + 1]  BY <1>3
  <2> QED  BY <1>1, <2>1, <2>2, Zenon DEF Call
<1>6. PICK low : low = Front(stack)  OBVIOUS
<1>7. low \in Seq(Call)  BY <1>6 DEF Front
<1>8. PICK ub : Joined(u, below, ub)  BY DEF Joined
<1>9. StackRest(known, text, low, below)  BY <1>2, <1>6
<1>10. StackRest(known, text, Append(low, on), ub)  BY <1>4, <1>5, <1>7, <1>8, <1>9, StackPush
<1>11. Onward(stack) = Append(low, on)
  <2>1. [stack EXCEPT ![Len(stack)] = on] = Append(Front(stack), on)  BY <1>5, TopChanged
  <2> QED  BY <1>3, <1>6, <2>1, Zenon DEF Onward
<1>12. Append(low, on) \in Seq(Call)  BY <1>5, <1>7, AppendProperties
<1> QED  BY <1>2, <1>4, <1>8, <1>10, <1>11, <1>12, Zenon

\* An operand left out: nothing is made and the stack has as much to add as before.
LEMMA StackSkips ==
    ASSUME NEW known, NEW text, HasTexts(known, text), NEW stack \in Seq(Call), stack # <<>>,
           NEW fr, fr = stack[Len(stack)], fr.next <= Len(Operands(fr.value)),
           Def[fr.value].op = "phi", Def[fr.value].blocks[fr.next] \notin DOMAIN known,
           NEW rest, StackRest(known, text, stack, rest)
    PROVE  StackRest(known, text, Onward(stack), rest)
<1>1. PICK u, below, top, ub :
          /\ u \in Seq(LogWord) /\ below \in Seq(LogWord)
          /\ Joined(Piece(known, text, fr.value, fr.next), u, top)
          /\ Joined(top, below, rest) /\ Joined(u, below, ub)
          /\ StackRest(known, text, Onward(stack), ub)
      BY StackOnward
<1>2. Piece(known, text, fr.value, fr.next) = <<>>  BY DEF Piece
<1>3. top = u
  <2>1. Joined(<<>>, u, top)  BY <1>1, <1>2, Zenon
  <2> QED  BY <2>1, ConcatEmptySeq DEF Joined
<1>4. ub = rest  BY <1>1, <1>3, Zenon DEF Joined
<1> QED  BY <1>1, <1>4, Zenon

\* An operand w taken by the call on top, fr, and what opens it added to the text made.
Takes(known, text, stack, fr, w, rest, made, all, lead, ml, now) ==
    /\ HasTexts(known, text)
    /\ stack \in Seq(Call) /\ stack # <<>> /\ fr = stack[Len(stack)]
    /\ fr.next <= Len(Operands(fr.value))
    /\ Def[fr.value].op = "phi" => Def[fr.value].blocks[fr.next] \in DOMAIN known
    /\ w \in Value /\ w = Operands(fr.value)[fr.next]
    /\ StackRest(known, text, stack, rest)
    /\ made \in Seq(LogWord) /\ Joined(made, rest, all)
    /\ lead \in Seq(LogWord) /\ lead = Lead(known, fr.value, fr.next)
    /\ Joined(made, lead, ml) /\ Joined(ml, Opening(w), now)

\* The rest of it is to be added.
LEMMA StackRecurses ==
    ASSUME NEW known, NEW text, NEW stack, NEW fr, NEW w, NEW rest, NEW made, NEW all,
           NEW lead, NEW ml, NEW now,
           Takes(known, text, stack, fr, w, rest, made, all, lead, ml, now)
    PROVE  \E more \in Seq(LogWord) :
               /\ StackRest(known, text, Append(Onward(stack), Frame(w)), more)
               /\ Joined(now, more, all)
<1>0. /\ HasTexts(known, text)
      /\ stack \in Seq(Call) /\ stack # <<>> /\ fr = stack[Len(stack)]
      /\ fr.next <= Len(Operands(fr.value))
      /\ Def[fr.value].op = "phi" => Def[fr.value].blocks[fr.next] \in DOMAIN known
      /\ w \in Value /\ w = Operands(fr.value)[fr.next]
      /\ StackRest(known, text, stack, rest)
      /\ made \in Seq(LogWord) /\ Joined(made, rest, all)
      /\ lead \in Seq(LogWord) /\ lead = Lead(known, fr.value, fr.next)
      /\ Joined(made, lead, ml) /\ Joined(ml, Opening(w), now)
      BY Zenon DEF Takes
<1>1. PICK u, below, top, between :
          /\ u \in Seq(LogWord) /\ below \in Seq(LogWord)
          /\ Joined(Piece(known, text, fr.value, fr.next), u, top)
          /\ Joined(top, below, rest) /\ Joined(u, below, between)
          /\ StackRest(known, text, Onward(stack), between)
          /\ Onward(stack) \in Seq(Call)
      BY <1>0, StackOnward
<1>2. /\ HasIds(known) /\ text \in [Value -> Seq(LogWord)]
      /\ text[w] = TextStep(known, text, w) /\ text[w] \in Seq(LogWord)
      BY <1>0 DEF HasTexts
<1>3. Joined(lead, text[w], Piece(known, text, fr.value, fr.next))
  <2>1. CASE Def[fr.value].op = "phi"
    <3>1. Piece(known, text, fr.value, fr.next) = Lead(known, fr.value, fr.next) \o text[w]
          BY <1>0, <2>1, Zenon DEF Piece
    <3> QED  BY <1>0, <3>1, Zenon DEF Joined
  <2>2. CASE Def[fr.value].op # "phi"
    <3>1. Piece(known, text, fr.value, fr.next) = text[w] /\ lead = <<>>
          BY <1>0, <2>2, Zenon DEF Piece, Lead
    <3> QED  BY <1>0, <1>2, <3>1, ConcatEmptySeq DEF Joined
  <2> QED  BY <2>1, <2>2
<1>4. PICK t \in Seq(LogWord) : /\ FrameRest(known, text, Frame(w), t)
                                /\ Joined(Opening(w), t, text[w])
  <2>1. \E t \in Seq(LogWord) : /\ FrameRest(known, text, Frame(w), t)
                                /\ Joined(Opening(w), t, TextStep(known, text, w))
        BY <1>0, <1>2, FrameNew
  <2> QED  BY <1>2, <2>1, Zenon
<1>5. PICK piece, operand, opening :
          /\ piece = Piece(known, text, fr.value, fr.next)
          /\ operand = text[w] /\ opening = Opening(w)
      OBVIOUS
<1>6. opening \in Seq(LogWord)  BY <1>0, <1>5, OpeningWords
<1>7. PICK ub \in Seq(LogWord), more \in Seq(LogWord) :
          Joined(u, below, ub) /\ Joined(t, ub, more) /\ Joined(now, more, all)
  <2>1. /\ Joined(ml, opening, now) /\ Joined(opening, t, operand)
        /\ Joined(lead, operand, piece) /\ Joined(piece, u, top)
        /\ Joined(top, below, rest)
        BY <1>0, <1>1, <1>3, <1>4, <1>5, Zenon
  <2>2. {made, lead, opening, t, u, below} \subseteq Seq(LogWord)
        BY <1>0, <1>1, <1>4, <1>6, Zenon
  <2>3. Begun(made, lead, ml, opening, now, t, operand, piece, u, top, below, rest, all)
        BY <1>0, <2>1, <2>2, Zenon DEF Begun
  <2> QED  BY <2>3, Moves
<1>8. ub = between  BY <1>1, <1>7, Zenon DEF Joined
<1>9. PICK onward : onward = Onward(stack)  OBVIOUS
<1>10. StackRest(known, text, onward, ub) /\ onward \in Seq(Call)
       BY <1>1, <1>8, <1>9, Zenon
<1>11. Frame(w) \in Call  BY <1>0 DEF Frame, Call
<1>12. StackRest(known, text, Append(onward, Frame(w)), more)
       BY <1>4, <1>7, <1>10, <1>11, StackPush
<1> QED  BY <1>7, <1>9, <1>12, Zenon

\* A call that ends: it had nothing left to add.
LEMMA StackReturns ==
    ASSUME NEW known, NEW text, NEW stack \in Seq(Call), stack # <<>>,
           NEW fr, fr = stack[Len(stack)], ~(fr.next <= Len(Operands(fr.value))),
           NEW rest, StackRest(known, text, stack, rest)
    PROVE  StackRest(known, text, Front(stack), rest)
<1>1. fr \in Call  BY ElementOfSeq
<1>2. PICK t \in Seq(LogWord), below \in Seq(LogWord) :
          /\ FrameRest(known, text, fr, t)
          /\ StackRest(known, text, Front(stack), below)
          /\ Joined(t, below, rest)
      BY StackPop
<1>3. t = <<>>  BY <1>1, <1>2, FrameEnd
<1>4. rest = below
  <2>1. Joined(<<>>, below, rest)  BY <1>2, <1>3, Zenon
  <2> QED  BY <2>1, ConcatEmptySeq DEF Joined
<1> QED  BY <1>2, <1>4, Zenon

\* Where no condition is made of itself, TextOf gives the texts the map has.
LEMMA MapTexts ==
    ASSUME NEW rank, Ranked(rank), PassTypeOK
    PROVE  HasTexts(basicBlockMap, TextOf(basicBlockMap))
<1>1. HasIds(basicBlockMap)  BY MapSizeAssumption DEF PassTypeOK, HasIds, Idx
<1> QED  BY <1>1, TextOfIs DEF HasTexts

\* What is made and what the stack adds stay the text of the condition.
LEMMA WholeStep ==
    ASSUME NEW rank, Ranked(rank), WalkInv, Whole, [PassNext]_passVars
    PROVE  Whole'
<1>1. PICK known, text, stack, fr, made, c :
          /\ known = basicBlockMap /\ text = TextOf(basicBlockMap) /\ stack = frames
          /\ fr = stack[Len(stack)] /\ made = cond_info /\ c = Term[BB].cond
      OBVIOUS
<1>2. /\ HasTexts(known, text) /\ stack \in Seq(Call) /\ made \in Seq(LogWord) /\ fr = Top
  <2>1. frames \in Seq(Call) /\ cond_info \in Seq(LogWord)
        BY DEF WalkInv, PassTypeOK, Call, Describing
  <2> QED  BY <1>1, <2>1, MapTexts DEF WalkInv, Top
<1>3. ASSUME UNCHANGED <<basicBlockMap, at>>, NEW more \in Seq(LogWord),
             StackRest(known, text, frames', more), Joined(cond_info', more, text[c])
      PROVE  Whole'
  <2>1. TextOf(basicBlockMap') = text /\ basicBlockMap' = known /\ Term[BB'].cond = c
        BY <1>1, <1>3 DEF BB
  <2> QED  BY <1>3, <2>1, Zenon DEF Whole
<1>4. ASSUME stack # <<>>
      PROVE  \E rest \in Seq(LogWord) : /\ StackRest(known, text, stack, rest)
                                        /\ Joined(made, rest, text[c])
      BY <1>1, <1>4, Zenon DEF Whole
<1>5. CASE Condition
  <2>1. /\ ~Done /\ Term[BB].kind = "br" /\ UNCHANGED <<basicBlockMap, at, calls>>
        /\ frames' = <<Frame(Term[BB].cond)>> /\ cond_info' = Opening(Term[BB].cond)
        BY <1>5 DEF Condition
  <2>2. c \in Value  BY <1>1, <2>1, AtBlock
  <2>3. PICK more \in Seq(LogWord) : /\ StackRest(known, text, <<Frame(c)>>, more)
                                     /\ Joined(Opening(c), more, text[c])
        BY <1>2, <2>2, StackBegins
  <2> QED  BY <1>1, <1>3, <2>1, <2>3
<1>6. CASE Recurse
  <2>1. stack # <<>> /\ Pending /\ UNCHANGED <<basicBlockMap, at, calls>>
        BY <1>1, <1>6 DEF Recurse
  <2>2. PICK rest \in Seq(LogWord) : /\ StackRest(known, text, stack, rest)
                                     /\ Joined(made, rest, text[c])
        BY <1>4, <2>1
  <2>3. fr.next <= Len(Operands(fr.value))  BY <1>2, <2>1 DEF Pending
  <2>4. Advanced = Onward(stack)  BY <1>1 DEF Advanced, Onward
  <2>5. CASE Unknown
    <3>1. frames' = Onward(stack) /\ cond_info' = made
          BY <1>1, <1>6, <2>4, <2>5 DEF Recurse, SkipOperand
    <3>2. Def[fr.value].op = "phi" /\ Def[fr.value].blocks[fr.next] \notin DOMAIN known
          BY <1>1, <1>2, <2>5 DEF Unknown
    <3>3. StackRest(known, text, Onward(stack), rest)
          BY <1>1, <1>2, <2>1, <2>2, <2>3, <3>2, StackSkips
    <3> QED  BY <1>3, <2>1, <2>2, <3>1, <3>3, Zenon
  <2>6. CASE ~Unknown
    <3>1. PICK w \in Value : w = Operands(fr.value)[fr.next]  BY <1>1, <1>2, <2>1, NextOperand
    <3>2. PICK lead, ml, now : /\ lead = Lead(known, fr.value, fr.next)
                               /\ ml = made \o lead /\ now = ml \o Opening(w)
          OBVIOUS
    <3>3. frames' = Append(Onward(stack), Frame(w)) /\ cond_info' = now
          BY <1>1, <1>2, <1>6, <2>4, <2>6, <3>1, <3>2, Zenon DEF Recurse, Lead
    <3>4. Def[fr.value].op = "phi" => Def[fr.value].blocks[fr.next] \in DOMAIN known
          BY <1>1, <1>2, <2>6 DEF Unknown
    <3>5. lead \in Seq(LogWord)
      <4>1. CASE Def[fr.value].op = "phi"
        <5>1. PICK word \in LogWord :
                  word = Word("in", known[Def[fr.value].blocks[fr.next]], NoWidth, NoFn)
              BY <1>1, <1>2, <2>1, <2>6, <4>1, NextOperand
        <5>2. lead = <<word>>  BY <3>2, <4>1, <5>1, Zenon DEF Lead
        <5> QED  BY <5>2
      <4>2. CASE Def[fr.value].op # "phi"
        <5>1. lead = <<>>  BY <3>2, <4>2, Zenon DEF Lead
        <5> QED  BY <5>1
      <4> QED  BY <4>1, <4>2
    <3>6. Takes(known, text, stack, fr, w, rest, made, text[c], lead, ml, now)
          BY <1>1, <1>2, <2>1, <2>2, <2>3, <3>1, <3>2, <3>4, <3>5, Zenon DEF Takes, Joined
    <3>7. PICK more \in Seq(LogWord) :
              /\ StackRest(known, text, Append(Onward(stack), Frame(w)), more)
              /\ Joined(now, more, text[c])
          BY <3>6, StackRecurses
    <3> QED  BY <1>3, <2>1, <3>3, <3>7, Zenon
  <2> QED  BY <2>5, <2>6
<1>7. CASE Return
  <2>1. /\ stack # <<>> /\ ~Pending /\ frames' = Front(stack)
        /\ UNCHANGED <<basicBlockMap, at, cond_info, calls>>
        BY <1>1, <1>7 DEF Return
  <2>2. PICK rest \in Seq(LogWord) : /\ StackRest(known, text, stack, rest)
                                     /\ Joined(made, rest, text[c])
        BY <1>4, <2>1
  <2>3. ~(fr.next <= Len(Operands(fr.value)))  BY <1>2, <2>1 DEF Pending
  <2>4. StackRest(known, text, Front(stack), rest)
        BY <1>1, <1>2, <2>1, <2>2, <2>3, StackReturns
  <2> QED  BY <1>1, <1>3, <2>1, <2>2, <2>4, Zenon
<1>8. ASSUME frames' = <<>>, cond_info' = <<>> PROVE Whole'  BY <1>8 DEF Whole
<1>9. CASE LogBranch  BY <1>8, <1>9 DEF LogBranch, Described
<1>10. CASE visitSwitchInst
  <2>1. ~Done /\ Term[BB].kind = "switch" /\ UNCHANGED <<frames, cond_info>>
        BY <1>10 DEF visitSwitchInst
  <2> QED  BY <1>8, <2>1 DEF WalkInv, Describing
<1>11. CASE NextBlock
  <2>1. ~Done /\ PassesOver(BB) /\ UNCHANGED <<frames, cond_info>>
        BY <1>11 DEF NextBlock
  <2> QED  BY <1>8, <2>1 DEF WalkInv, Describing, PassesOver
<1>12. CASE UNCHANGED passVars  BY <1>12 DEF passVars, Whole, BB
<1> QED  BY <1>5, <1>6, <1>7, <1>9, <1>10, <1>11, <1>12 DEF PassNext

\* A call inserted for a branch has the text made, which is then the whole of it.
LEMMA LoggedStep ==
    ASSUME WalkInv, Whole, Logged, [PassNext]_passVars
    PROVE  Logged'
<1>1. ASSUME ~Done, NEW blocks \in Seq(Block), NEW text, Inserted(blocks, text),
             Term[BB].kind = "br" => text = TextOf(basicBlockMap)[Term[BB].cond]
      PROVE  Logged'
  <2>1. /\ \A i \in DOMAIN calls : calls'[i] = calls[i]
        /\ \A i \in DOMAIN calls' : i \notin DOMAIN calls => i = Len(calls) + 1
        /\ calls'[Len(calls) + 1].block = BB /\ calls'[Len(calls) + 1].text = text
        /\ calls'[Len(calls) + 1].known = basicBlockMap
        BY <1>1, InsertedKeepsTypes
  <2>2. SUFFICES ASSUME NEW i \in DOMAIN calls', Term[calls'[i].block].kind = "br"
                 PROVE  calls'[i].text = TextOf(calls'[i].known)[Term[calls'[i].block].cond]
        BY DEF Logged
  <2>3. CASE i \in DOMAIN calls
    <3>1. calls'[i] = calls[i]  BY <2>1, <2>3
    <3>2. Term[calls[i].block].kind = "br"  BY <2>2, <3>1
    <3>3. calls[i].text = TextOf(calls[i].known)[Term[calls[i].block].cond]
          BY <2>3, <3>2 DEF Logged
    <3> QED  BY <3>1, <3>3, Zenon
  <2>4. CASE i \notin DOMAIN calls
    <3>1. PICK call : call = calls'[i]  OBVIOUS
    <3>2. call.block = BB /\ call.text = text /\ call.known = basicBlockMap
          BY <2>1, <2>4, <3>1
    <3> QED  BY <1>1, <2>2, <3>1, <3>2, Zenon
  <2> QED  BY <2>3, <2>4
<1>2. CASE LogBranch
  <2>1. /\ frames = <<>> /\ cond_info # <<>>
        /\ Inserted(<<BB>> \o Term[BB].succ, cond_info)
        BY <1>2 DEF LogBranch, Described
  <2>2. ~Done /\ Term[BB].kind = "br" /\ cond_info \in Seq(LogWord)
        BY <2>1 DEF WalkInv, Describing
  <2>3. <<BB>> \o Term[BB].succ \in Seq(Block)  BY <2>2, AtBlock
  <2>4. PICK rest \in Seq(LogWord) :
            /\ StackRest(basicBlockMap, TextOf(basicBlockMap), frames, rest)
            /\ Joined(cond_info, rest, TextOf(basicBlockMap)[Term[BB].cond])
        BY <2>1, Zenon DEF Whole
  <2>5. rest = <<>>  BY <2>1, <2>4, StackEmpty
  <2>6. cond_info = TextOf(basicBlockMap)[Term[BB].cond]
    <3>1. Joined(cond_info, <<>>, TextOf(basicBlockMap)[Term[BB].cond])  BY <2>4, <2>5, Zenon
    <3> QED  BY <2>2, <3>1, ConcatEmptySeq DEF Joined
  <2> QED  BY <1>1, <2>1, <2>2, <2>3, <2>6
<1>3. CASE visitSwitchInst
  <2>1. /\ ~Done /\ Term[BB].kind = "switch"
        /\ Inserted(<<BB, Term[BB].default>> \o Term[BB].succ, <<>>)
        BY <1>3 DEF visitSwitchInst
  <2>2. <<BB, Term[BB].default>> \o Term[BB].succ \in Seq(Block)  BY <2>1, AtBlock
  <2> QED  BY <1>1, <2>1, <2>2
<1>4. CASE Condition \/ Recurse \/ Return \/ NextBlock \/ UNCHANGED passVars
  <2>1. UNCHANGED calls  BY <1>4 DEF Condition, Recurse, Return, NextBlock, passVars
  <2> QED  BY <2>1, Zenon DEF Logged
<1> QED  BY <1>2, <1>3, <1>4 DEF PassNext

\* In any module in which no condition is made of itself: every conditional branch is
\* logged with the whole text of its condition, its operands in order however deep and
\* shared they are (trace-pass.so.cc:77-157).
THEOREM TextsRight ==
    ASSUME NEW rank, Ranked(rank)
    PROVE  PassSpec => []TextRight
<1>1. PassInit => WalkInv /\ Whole /\ Logged
  <2>1. PassInit => Whole /\ Logged
    <3> SUFFICES ASSUME PassInit PROVE Whole /\ Logged  OBVIOUS
    <3>1. frames = <<>> /\ cond_info = <<>> /\ calls = <<>>  BY DEF PassInit
    <3> QED  BY <3>1 DEF Whole, Logged
  <2> QED  BY <2>1, WalkInit
<1>2. WalkInv /\ Whole /\ Logged /\ [PassNext]_passVars => (WalkInv /\ Whole /\ Logged)'
      BY WalkStep, WholeStep, LoggedStep
<1>3. Logged => TextRight  BY DEF Logged, TextRight
<1> QED  BY <1>1, <1>2, <1>3, PTL DEF PassSpec
=============================================================================
