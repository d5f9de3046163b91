-------------------------- MODULE ClangTraceProofs --------------------------
(***************************************************************************)
(* Theorems about the compiler wrapper, for every set of arguments, every  *)
(* number of them and whatever is installed: the types, the runtime linked *)
(* and the sanitizers compiled in.                                         *)
(***************************************************************************)
EXTENDS ClangTrace, TLAPS

\* What the wrapper puts on the compiler's command line: the user's and its own.
Own == {"-Xclang", "-load", "trace-pass.so", "-Qunused-arguments",
        "-fstack-protector-all", "-D_FORTIFY_SOURCE", "-U_FORTIFY_SOURCE",
        "-fsanitize=address", "-fsanitize=memory",
        "-D__AFL_COMPILER=1", "-x", "none",
        "trace-rt.o", "trace-rt-32.o", "trace-rt-64.o"}
Param == Arg \cup Own

\* x is what LastOf finds: said without CHOOSE, so that it can be carried along
\* as the command line grows.
LastIs(params, S, x) ==
    \/ x = "none" /\ \A i \in DOMAIN params : params[i] \notin S
    \/ \E i \in DOMAIN params :
          /\ params[i] = x /\ x \in S
          /\ \A j \in DOMAIN params : j > i => params[j] \notin S

ModeFlag == {"-m32", "-m64", "armv7a-linux-androideabi"}
Fortify == {"-D_FORTIFY_SOURCE", "-U_FORTIFY_SOURCE"}

\* The mode edit_params understands a flag to ask for (clang-trace.c:142-144).
Bits(flag) == IF flag = "-m64" THEN 64
              ELSE IF flag \in {"-m32", "armv7a-linux-androideabi"} THEN 32 ELSE 0

\* The sanitizers the environment asks for.
Asked == (IF "AFL_USE_ASAN" \in env THEN {"-fsanitize=address"} ELSE {})
         \cup (IF "AFL_USE_MSAN" \in env THEN {"-fsanitize=memory"} ELSE {})

(***************************************************************************)
(* The inductive invariant.                                                *)
(***************************************************************************)

\* What is left to scan is the user's; a sanitizer noticed was given by him.
Scanning ==
    /\ cc_params \in Seq(Param)
    /\ \A i \in DOMAIN argv : Contains(user_args, argv[i])
    /\ asan_set => \E s \in Sanitizer : Contains(user_args, s)

\* find_obj has found a readable runtime by the time there is a path.
Located ==
    /\ env \subseteq EnvVar
    /\ stage \notin {"find_obj", "fatal"} => <<obj_path, "trace-rt.o">> \in readable

\* bit_mode is that of the last mode flag copied so far.
Moded == \E flag \in Arg \cup {"none"} : LastIs(cc_params, ModeFlag, flag) /\ bit_mode = Bits(flag)

\* No "-x" among the first n that edit_params has not seen; once Tune is done,
\* one that it has seen is reset by the last two of them.
Resets(n) ==
    IF x_set THEN n >= 2 /\ cc_params[n - 1] = "-x" /\ cc_params[n] = "none"
             ELSE \A i \in 1 .. n : cc_params[i] # "-x"

Languages ==
    /\ \A i \in DOMAIN cc_params : cc_params[i] # "-xc"
    /\ stage \notin {"link", "exec", "running", "fatal"} =>
          x_set \/ \A i \in DOMAIN cc_params : cc_params[i] # "-x"
    /\ stage = "link" => Resets(Len(cc_params))

Linked ==
    stage \in {"exec", "running"} =>
        /\ Len(cc_params) > 0 /\ cc_params[Len(cc_params)] = Runtime
        /\ bit_mode # 0 => <<obj_path, Runtime>> \in readable
        /\ Resets(Len(cc_params) - 1)

Sanitized ==
    stage \in {"tune", "link", "exec", "running"} /\ Asked # {} /\ ~asan_set =>
        /\ \A s \in Asked : Contains(cc_params, s)
        /\ "AFL_HARDEN" \notin env
        /\ LastIs(cc_params, Fortify, "-U_FORTIFY_SOURCE")

(***************************************************************************)
(* Lemmas about command lines.                                             *)
(***************************************************************************)

\* LastIs says what LastOf computes.
LEMMA LastIsLast ==
    ASSUME NEW T, NEW params \in Seq(T), NEW S, NEW x, LastIs(params, S, x)
    PROVE  LastOf(params, S) = x
<1> DEFINE at == {i \in DOMAIN params : params[i] \in S}
<1>1. CASE x = "none" /\ \A i \in DOMAIN params : params[i] \notin S
  <2>1. at = {}  BY <1>1
  <2> QED  BY <2>1, <1>1 DEF LastOf
<1>2. CASE \E i \in DOMAIN params :
              /\ params[i] = x /\ x \in S
              /\ \A j \in DOMAIN params : j > i => params[j] \notin S
  <2>1. PICK i \in DOMAIN params :
              /\ params[i] = x /\ x \in S
              /\ \A j \in DOMAIN params : j > i => params[j] \notin S
        BY <1>2
  <2>2. i \in at /\ \A j \in at : j <= i  BY <2>1
  <2>3. \A k \in at : (\A j \in at : j <= k) => k = i  BY <2>2
  <2>4. (CHOOSE k \in at : \A j \in at : j <= k) = i  BY <2>2, <2>3
  <2> QED  BY <2>1, <2>2, <2>4 DEF LastOf
<1> QED  BY <1>1, <1>2 DEF LastIs

\* Parameters outside S pushed after the others leave the last of S what it was.
LEMMA LastKept ==
    ASSUME NEW T, NEW params \in Seq(T), NEW more \in Seq(T), NEW S, NEW x,
           LastIs(params, S, x), \A i \in DOMAIN more : more[i] \notin S
    PROVE  LastIs(params \o more, S, x)
<1> DEFINE all == params \o more
<1>1. /\ all \in Seq(T) /\ Len(all) = Len(params) + Len(more)
      /\ \A i \in DOMAIN params : i \in DOMAIN all /\ all[i] = params[i]
      /\ \A i \in DOMAIN all : i \notin DOMAIN params =>
            i - Len(params) \in DOMAIN more /\ all[i] = more[i - Len(params)]
      OBVIOUS
<1> HIDE DEF all
<1>2. \A i \in DOMAIN all : i \notin DOMAIN params => all[i] \notin S  BY <1>1
<1>3. CASE x = "none" /\ \A i \in DOMAIN params : params[i] \notin S
  BY <1>1, <1>2, <1>3 DEF LastIs
<1>4. CASE \E i \in DOMAIN params :
              /\ params[i] = x /\ x \in S
              /\ \A j \in DOMAIN params : j > i => params[j] \notin S
  <2>1. PICK i \in DOMAIN params :
              /\ params[i] = x /\ x \in S
              /\ \A j \in DOMAIN params : j > i => params[j] \notin S
        BY <1>4
  <2>2. i \in DOMAIN all /\ all[i] = x  BY <2>1, <1>1
  <2>3. \A j \in DOMAIN all : j > i => all[j] \notin S  BY <2>1, <1>1, <1>2
  <2> QED  BY <2>1, <2>2, <2>3 DEF LastIs
<1> QED  BY <1>3, <1>4 DEF LastIs, all

\* One of S pushed last is the last of S.
LEMMA LastPushed ==
    ASSUME NEW T, NEW params \in Seq(T), NEW x \in T, NEW S, x \in S
    PROVE  LastIs(Append(params, x), S, x)
<1>1. /\ Append(params, x) \in Seq(T) /\ Len(Append(params, x)) = Len(params) + 1
      /\ Append(params, x)[Len(params) + 1] = x
      OBVIOUS
<1>2. \A j \in DOMAIN Append(params, x) : ~(j > Len(params) + 1)  BY <1>1
<1> QED  BY <1>1, <1>2 DEF LastIs

\* Two sequences one after the other.
LEMMA Joined ==
    ASSUME NEW T, NEW s \in Seq(T), NEW t \in Seq(T)
    PROVE  /\ Len(s \o t) = Len(s) + Len(t)
           /\ \A i \in 1 .. Len(t) : (s \o t)[Len(s) + i] = t[i]
OBVIOUS

\* What is on the command line stays on it.
LEMMA ContainsKept ==
    ASSUME NEW T, NEW params \in Seq(T), NEW more \in Seq(T), NEW p
    PROVE  /\ Contains(params, p) => Contains(params \o more, p)
           /\ Contains(more, p) => Contains(params \o more, p)
<1>1. /\ \A i \in DOMAIN params : i \in DOMAIN (params \o more) /\ (params \o more)[i] = params[i]
      /\ \A i \in DOMAIN more : Len(params) + i \in DOMAIN (params \o more)
                                /\ (params \o more)[Len(params) + i] = more[i]
      OBVIOUS
<1> QED  BY <1>1 DEF Contains

\* The first directory with a runtime is one of those with a runtime.
LEMMA FirstFound ==
    ASSUME Found # {}
    PROVE  LET d == Dirs[CHOOSE i \in Found : \A j \in Found : i <= j]
           IN  d \in Dir /\ <<d, "trace-rt.o">> \in readable
<1>1. Found \subseteq 1 .. 3 /\ \A i \in Found : <<Dirs[i], "trace-rt.o">> \in readable
      BY DEF Found, Dirs
<1>2. \E i \in Found : \A j \in Found : i <= j
  <2>1. CASE 1 \in Found  BY <2>1, <1>1
  <2>2. CASE 1 \notin Found /\ 2 \in Found  BY <2>2, <1>1
  <2>3. CASE 1 \notin Found /\ 2 \notin Found
    <3>1. \A i \in Found : i = 3  BY <2>3, <1>1
    <3> QED  BY <3>1
  <2> QED  BY <2>1, <2>2, <2>3
<1>3. (CHOOSE i \in Found : \A j \in Found : i <= j) \in Found  BY <1>2
<1>4. \A i \in 1 .. 3 : Dirs[i] \in Dir  BY DEF Dirs, Dir
<1> QED  BY <1>1, <1>3, <1>4

(***************************************************************************)
(* What each step keeps.                                                   *)
(***************************************************************************)

Inv == CcTypeOK /\ Scanning /\ Located /\ Moded /\ Languages /\ Linked /\ Sanitized

\* The invariant holds when the wrapper starts.
LEMMA InvInit == CcInit => Inv
<1> SUFFICES ASSUME CcInit PROVE Inv  OBVIOUS
<1>1. argv \in Seq(Arg) /\ cc_params = <<>> /\ stage = "find_obj" /\ user_args = argv
      /\ bit_mode = 0 /\ x_set = FALSE /\ asan_set = FALSE /\ fortify_set = FALSE
      /\ obj_path = NotFound /\ env \in SUBSET EnvVar
      BY BoundAssumption DEF CcInit
<1>2. CcTypeOK  BY <1>1 DEF CcTypeOK, Stage
<1>3. Scanning  BY <1>1 DEF Scanning, Contains
<1>4. Located  BY <1>1 DEF Located
<1>5. Moded
  <2>1. LastIs(cc_params, ModeFlag, "none")  BY <1>1 DEF LastIs
  <2>2. bit_mode = Bits("none")  BY <1>1 DEF Bits
  <2> QED  BY <2>1, <2>2 DEF Moded
<1>6. Languages  BY <1>1 DEF Languages
<1>7. Linked  BY <1>1 DEF Linked
<1>8. Sanitized  BY <1>1 DEF Sanitized
<1> QED  BY <1>2, <1>3, <1>4, <1>5, <1>6, <1>7, <1>8 DEF Inv

\* A step of the wrapper keeps the types; find_obj's path is a directory.
LEMMA TypeStep ==
    ASSUME CcTypeOK, [CcNext]_ccVars
    PROVE  CcTypeOK'
<1> USE DEF CcTypeOK, Stage
<1>1. CASE FindObj
  <2>1. CASE user_args = <<>> \/ Found = {}  BY <1>1, <2>1 DEF FindObj, Fatal, flagVars
  <2>2. CASE ~(user_args = <<>> \/ Found = {})
    <3>1. obj_path' \in Dir  BY <1>1, <2>2, FirstFound DEF FindObj
    <3> QED  BY <1>1, <2>2, <3>1 DEF FindObj, flagVars
  <2> QED  BY <2>1, <2>2
<1>2. CASE ScanArg
  <2>1. argv' \in Seq(Arg)  BY <1>2 DEF ScanArg
  <2>2. bit_mode' \in {0, 32, 64}
    <3>1. bit_mode' = CASE Head(argv) \in {"-m32", "armv7a-linux-androideabi"} -> 32
                        [] Head(argv) = "-m64" -> 64
                        [] OTHER -> bit_mode
          BY <1>2 DEF ScanArg
    <3> QED  BY <3>1
  <2>3. x_set' \in BOOLEAN /\ asan_set' \in BOOLEAN /\ fortify_set' \in BOOLEAN
        BY <1>2, Zenon DEF ScanArg
  <2> QED  BY <1>2, <2>1, <2>2, <2>3 DEF ScanArg, inputVars
<1>3. CASE ScanDone  BY <1>3 DEF ScanDone, flagVars
<1>4. CASE Harden  BY <1>4 DEF Harden, flagVars
<1>5. CASE Sanitize  BY <1>5 DEF Sanitize, Fatal, flagVars
<1>6. CASE Tune  BY <1>6 DEF Tune, flagVars
<1>7. CASE LinkRuntime  BY <1>7 DEF LinkRuntime, Fatal, flagVars
<1>8. CASE Execute  BY <1>8 DEF Execute, Fatal, flagVars
<1>9. CASE UNCHANGED ccVars  BY <1>9 DEF ccVars, flagVars
<1> QED  BY <1>1, <1>2, <1>3, <1>4, <1>5, <1>6, <1>7, <1>8, <1>9 DEF CcNext


\* The history and the environment stay what they were.
LEMMA InputsKept ==
    ASSUME [CcNext]_ccVars
    PROVE  UNCHANGED inputVars
BY DEF CcNext, ccVars, FindObj, ScanArg, ScanDone, Harden, Sanitize, Tune, LinkRuntime, Execute,
       Fatal

\* What each step pushes, by its name.
Hardening == PushIf("AFL_HARDEN" \in env,
                    <<"-fstack-protector-all">> \o PushIf(~fortify_set, <<"-D_FORTIFY_SOURCE">>))
Sanitizing == <<"-U_FORTIFY_SOURCE", IF "AFL_USE_ASAN" \in env THEN "-fsanitize=address"
                                                               ELSE "-fsanitize=memory">>
Tuning == <<"-D__AFL_COMPILER=1">> \o Language

\* Sanitize decides, fails or pushes.
LEMMA SanitizeCases ==
    ASSUME Sanitize
    PROVE  /\ UNCHANGED <<argv, inputVars, obj_path, flagVars>>
           /\ \/ /\ asan_set \/ env \cap {"AFL_USE_ASAN", "AFL_USE_MSAN"} = {}
                 /\ stage' = "tune" /\ UNCHANGED cc_params
              \/ stage' = "fatal" /\ UNCHANGED cc_params
              \/ Exclusive /\ stage' = "tune" /\ cc_params' = cc_params \o Sanitizing
<1>1. CASE asan_set \/ env \cap {"AFL_USE_ASAN", "AFL_USE_MSAN"} = {}
  BY <1>1, Zenon DEF Sanitize
<1>2. CASE ~(asan_set \/ env \cap {"AFL_USE_ASAN", "AFL_USE_MSAN"} = {}) /\ ~Exclusive
  BY <1>2, Zenon DEF Sanitize, Fatal
<1>3. CASE ~(asan_set \/ env \cap {"AFL_USE_ASAN", "AFL_USE_MSAN"} = {}) /\ Exclusive
  BY <1>3, Zenon DEF Sanitize, Push, Sanitizing
<1> QED  BY <1>1, <1>2, <1>3

\* Pushing a sequence or nothing pushes members of the sequence's set.
LEMMA PushIfIn ==
    ASSUME NEW T, NEW s \in Seq(T), NEW b
    PROVE  PushIf(b, s) \in Seq(T)
<1>1. <<>> \in Seq(T)  OBVIOUS
<1> QED  BY <1>1, Zenon DEF PushIf

\* Only strings of its own are pushed, and which.
LEMMA Pushed ==
    ASSUME CcTypeOK
    PROVE  /\ LoadPass \in Seq(Own)
           /\ Hardening \in Seq({"-fstack-protector-all", "-D_FORTIFY_SOURCE"})
           /\ Sanitizing \in Seq({"-U_FORTIFY_SOURCE"} \cup Sanitizer)
           /\ Tuning \in Seq({"-D__AFL_COMPILER=1", "-x", "none"})
           /\ Runtime \in Object
<1>1. LoadPass \in Seq(Own)  BY DEF LoadPass, Own
<1>2. Hardening \in Seq({"-fstack-protector-all", "-D_FORTIFY_SOURCE"})
  <2> DEFINE H == {"-fstack-protector-all", "-D_FORTIFY_SOURCE"}
             more == PushIf(~fortify_set, <<"-D_FORTIFY_SOURCE">>)
             both == <<"-fstack-protector-all">> \o more
  <2>1. <<"-D_FORTIFY_SOURCE">> \in Seq(H) /\ <<"-fstack-protector-all">> \in Seq(H)  OBVIOUS
  <2> HIDE DEF H
  <2>2. more \in Seq(H)  BY <2>1, PushIfIn, Zenon
  <2> HIDE DEF more
  <2>3. both \in Seq(H)  BY <2>1, <2>2
  <2> HIDE DEF both
  <2>4. PushIf("AFL_HARDEN" \in env, both) \in Seq(H)  BY <2>3, PushIfIn, Zenon
  <2> QED  BY <2>4, Zenon DEF Hardening, more, both, H
<1>3. Sanitizing \in Seq({"-U_FORTIFY_SOURCE"} \cup Sanitizer)  BY DEF Sanitizing, Sanitizer
<1>4. Tuning \in Seq({"-D__AFL_COMPILER=1", "-x", "none"})
  <2>1. Language \in Seq({"-D__AFL_COMPILER=1", "-x", "none"})
    <3>1. <<"-x", "none">> \in Seq({"-D__AFL_COMPILER=1", "-x", "none"})  OBVIOUS
    <3> QED  BY <3>1, PushIfIn, Zenon DEF Language
  <2>2. <<"-D__AFL_COMPILER=1">> \in Seq({"-D__AFL_COMPILER=1", "-x", "none"})  OBVIOUS
  <2> QED  BY <2>1, <2>2 DEF Tuning
<1>5. Runtime \in Object  BY DEF Runtime, Object, CcTypeOK
<1> QED  BY <1>1, <1>2, <1>3, <1>4, <1>5

\* They are all parameters.
LEMMA OwnParams ==
    ASSUME CcTypeOK
    PROVE  /\ LoadPass \in Seq(Param) /\ Hardening \in Seq(Param)
           /\ Sanitizing \in Seq(Param) /\ Tuning \in Seq(Param)
           /\ Runtime \in Param
<1> DEFINE H == {"-fstack-protector-all", "-D_FORTIFY_SOURCE"}
           S == {"-U_FORTIFY_SOURCE"} \cup Sanitizer
           T == {"-D__AFL_COMPILER=1", "-x", "none"}
<1>1. Own \subseteq Param /\ H \subseteq Param /\ S \subseteq Param /\ T \subseteq Param
      /\ Object \subseteq Param
      BY DEF Param, Own, Sanitizer, Object
<1>2. /\ LoadPass \in Seq(Own) /\ Hardening \in Seq(H)
      /\ Sanitizing \in Seq(S) /\ Tuning \in Seq(T) /\ Runtime \in Object
      BY Pushed
<1> HIDE DEF H, S, T
<1> QED  BY <1>1, <1>2

\* The command line stays one of parameters, and what is scanned the user's.
LEMMA ScanningStep ==
    ASSUME CcTypeOK, Scanning, [CcNext]_ccVars
    PROVE  Scanning'
<1> USE DEF Scanning
<1>0. user_args' = user_args /\ env' = env  BY InputsKept DEF inputVars
<1>1. CASE FindObj
  <2>1. UNCHANGED <<argv, asan_set>> /\ cc_params' \in Seq(Param)
    <3>1. CASE user_args = <<>> \/ Found = {}  BY <1>1, <3>1 DEF FindObj, Fatal, flagVars
    <3>2. CASE ~(user_args = <<>> \/ Found = {})
      <4>1. UNCHANGED <<argv, asan_set>> /\ cc_params' = cc_params \o LoadPass
            BY <1>1, <3>2, Zenon DEF FindObj, Push, flagVars
      <4> QED  BY <4>1, OwnParams
    <3> QED  BY <3>1, <3>2
  <2> QED  BY <1>0, <2>1 DEF Contains
<1>2. CASE ScanArg
  <2>1. argv \in Seq(Arg) /\ argv # <<>> /\ argv' = Tail(argv)
        BY <1>2 DEF ScanArg, CcTypeOK
  <2>2. Head(argv) \in Arg /\ Contains(user_args, Head(argv))  BY <2>1 DEF Contains
  <2>3. cc_params' \in Seq(Param)
    <3>1. cc_params' = cc_params \o PushIf(Head(argv) \notin Dropped, <<Head(argv)>>)
          BY <1>2 DEF ScanArg, Push
    <3>2. PushIf(Head(argv) \notin Dropped, <<Head(argv)>>) \in Seq(Param)
      <4>1. Head(argv) \in Param  BY <2>2 DEF Param
      <4> QED  BY <4>1 DEF PushIf
    <3> QED  BY <3>1, <3>2
  <2>4. \A i \in DOMAIN argv' : Contains(user_args', argv'[i])
    <3>1. \A i \in DOMAIN Tail(argv) : i + 1 \in DOMAIN argv /\ Tail(argv)[i] = argv[i + 1]
          BY <2>1
    <3>2. \A i \in DOMAIN argv' : Contains(user_args, argv'[i])  BY <3>1, <2>1
    <3> QED  BY <3>2, <1>0 DEF Contains
  <2>5. asan_set' => asan_set \/ Head(argv) \in Sanitizer  BY <1>2 DEF ScanArg
  <2>6. asan_set' => \E s \in Sanitizer : Contains(user_args, s)  BY <2>5, <2>2
  <2> QED  BY <2>3, <2>4, <2>6, <1>0 DEF Contains
<1>3. CASE UNCHANGED <<argv, cc_params, asan_set>>  BY <1>3, <1>0 DEF Contains
<1>4. CASE UNCHANGED <<argv, asan_set>> /\ cc_params' \in Seq(Param)
  BY <1>4, <1>0 DEF Contains
<1>5. CASE ScanDone  BY <1>3, <1>5 DEF ScanDone, flagVars
<1>6. CASE Harden
  <2>1. UNCHANGED <<argv, asan_set>> /\ cc_params' = cc_params \o Hardening
        BY <1>6 DEF Harden, Push, Hardening, flagVars
  <2> QED  BY <1>4, <2>1, OwnParams
<1>7. CASE Sanitize
  <2> HIDE DEF Scanning
  <2>1. UNCHANGED <<argv, asan_set>>  BY <1>7, SanitizeCases DEF flagVars
  <2>2. UNCHANGED cc_params \/ cc_params' = cc_params \o Sanitizing
        BY <1>7, SanitizeCases, Zenon
  <2>3. cc_params' \in Seq(Param)
    <3>1. cc_params \in Seq(Param) /\ Sanitizing \in Seq(Param)  BY OwnParams DEF Scanning
    <3>2. cc_params \o Sanitizing \in Seq(Param)  BY <3>1
    <3> QED  BY <2>2, <3>1, <3>2
  <2> QED  BY <1>4, <2>1, <2>2, <2>3
<1>8. CASE Tune
  <2>1. UNCHANGED <<argv, asan_set>> /\ cc_params' = cc_params \o Tuning
        BY <1>8 DEF Tune, Push, Tuning, flagVars
  <2> QED  BY <1>4, <2>1, OwnParams
<1>9. CASE LinkRuntime
  <2>1. /\ UNCHANGED <<argv, asan_set>>
        /\ UNCHANGED cc_params \/ cc_params' = cc_params \o <<Runtime>>
        BY <1>9 DEF LinkRuntime, Fatal, Push, flagVars
  <2>2. Runtime \in Param  BY OwnParams
  <2> QED  BY <1>4, <2>1, <2>2
<1>10. CASE Execute  BY <1>3, <1>10 DEF Execute, Fatal, flagVars
<1>11. CASE UNCHANGED ccVars  BY <1>3, <1>11 DEF ccVars, flagVars
<1> QED  BY <1>1, <1>2, <1>5, <1>6, <1>7, <1>8, <1>9, <1>10, <1>11 DEF CcNext

\* The directory find_obj chose keeps its readable runtime.
LEMMA LocatedStep ==
    ASSUME CcTypeOK, Located, [CcNext]_ccVars
    PROVE  Located'
<1> USE DEF Located
<1>0. env' = env /\ readable' = readable  BY InputsKept DEF inputVars
<1>1. CASE FindObj
  <2>1. CASE user_args = <<>> \/ Found = {}  BY <1>0, <1>1, <2>1 DEF FindObj, Fatal
  <2>2. CASE ~(user_args = <<>> \/ Found = {})
    <3>1. <<obj_path', "trace-rt.o">> \in readable  BY <1>1, <2>2, FirstFound DEF FindObj
    <3> QED  BY <1>0, <3>1
  <2> QED  BY <2>1, <2>2
<1>2. CASE /\ UNCHANGED obj_path
           /\ stage \in {"find_obj", "fatal"} => stage' \in {"find_obj", "fatal"}
  BY <1>0, <1>2
<1>3. CASE ~FindObj
  BY <1>2, <1>3 DEF CcNext, ccVars, ScanArg, ScanDone, Harden, Sanitize, Tune, LinkRuntime,
                    Execute, Fatal
<1> QED  BY <1>1, <1>3

\* Pushing what is no mode flag leaves the mode what it was.
LEMMA ModedKept ==
    ASSUME Moded, Scanning, NEW more \in Seq(Param), \A i \in DOMAIN more : more[i] \notin ModeFlag,
           cc_params' = cc_params \o more, UNCHANGED bit_mode
    PROVE  Moded'
<1>1. PICK flag \in Arg \cup {"none"} : LastIs(cc_params, ModeFlag, flag) /\ bit_mode = Bits(flag)
      BY DEF Moded
<1>2. LastIs(cc_params \o more, ModeFlag, flag)  BY <1>1, LastKept DEF Scanning
<1>3. LastIs(cc_params, ModeFlag, flag)'  BY <1>2 DEF LastIs, ModeFlag
<1> QED  BY <1>1, <1>3 DEF Moded, Bits

\* bit_mode follows the last mode flag on the command line, argument by argument.
LEMMA ModedStep ==
    ASSUME CcTypeOK, Scanning, Moded, [CcNext]_ccVars
    PROVE  Moded'
<1>1. CASE UNCHANGED <<cc_params, bit_mode>>  BY <1>1 DEF Moded, LastIs, Bits, ModeFlag
<1>2. CASE FindObj
  <2>1. CASE user_args = <<>> \/ Found = {}  BY <1>1, <1>2, <2>1 DEF FindObj, Fatal, flagVars
  <2>2. CASE ~(user_args = <<>> \/ Found = {})
    <3>1. UNCHANGED bit_mode /\ cc_params' = cc_params \o LoadPass
          BY <1>2, <2>2, Zenon DEF FindObj, Push, flagVars
    <3>2. \A i \in DOMAIN LoadPass : LoadPass[i] \notin ModeFlag
      <4>1. LoadPass \in Seq(Own)  BY Pushed
      <4>2. \A flag \in Own : flag \notin ModeFlag  BY DEF Own, ModeFlag
      <4> QED  BY <4>1, <4>2
    <3> QED  BY <3>1, <3>2, OwnParams, ModedKept
  <2> QED  BY <2>1, <2>2
<1>3. CASE ScanArg
  <2>0. Head(argv) \in Arg  BY <1>3 DEF ScanArg, CcTypeOK
  <2>1. PICK cur \in Arg :
           /\ cc_params' = cc_params \o PushIf(cur \notin Dropped, <<cur>>)
           /\ bit_mode' = CASE cur \in {"-m32", "armv7a-linux-androideabi"} -> 32
                            [] cur = "-m64" -> 64
                            [] OTHER -> bit_mode
        BY <1>3, <2>0, Zenon DEF ScanArg, Push
  <2>2. bit_mode' = IF cur \in ModeFlag THEN Bits(cur) ELSE bit_mode
    <3>1. CASE cur = "-m64"  BY <2>1, <3>1 DEF Bits, ModeFlag
    <3>2. CASE cur \in {"-m32", "armv7a-linux-androideabi"}  BY <2>1, <3>2 DEF Bits, ModeFlag
    <3>3. CASE cur \notin ModeFlag  BY <2>1, <3>3 DEF ModeFlag
    <3> QED  BY <3>1, <3>2, <3>3 DEF ModeFlag
  <2>3. cur \in Param  BY DEF Param
  <2>4. CASE cur \in ModeFlag
    <3>1. cur \notin Dropped  BY <2>4 DEF Dropped, ModeFlag
    <3>2. cc_params' = cc_params \o <<cur>>  BY <2>1, <3>1 DEF PushIf
    <3>3. cc_params' = Append(cc_params, cur)  BY <3>2 DEF Scanning
    <3>4. LastIs(Append(cc_params, cur), ModeFlag, cur)
          BY <2>3, <2>4, LastPushed DEF Scanning
    <3>5. LastIs(cc_params, ModeFlag, cur)'  BY <3>3, <3>4 DEF LastIs, ModeFlag
    <3>6. bit_mode' = Bits(cur)  BY <2>2, <2>4
    <3> QED  BY <3>5, <3>6 DEF Moded, Bits
  <2>5. CASE cur \notin ModeFlag
    <3>1. PICK more : more = PushIf(cur \notin Dropped, <<cur>>)  OBVIOUS
    <3>2. more = <<cur>> \/ more = <<>>  BY <3>1 DEF PushIf
    <3>3. more \in Seq(Param) /\ \A i \in DOMAIN more : more[i] \notin ModeFlag
      <4>1. CASE more = <<cur>>  BY <4>1, <2>3, <2>5
      <4>2. CASE more = <<>>  BY <4>2
      <4> QED  BY <3>2, <4>1, <4>2
    <3>4. UNCHANGED bit_mode  BY <2>2, <2>5
    <3>5. cc_params' = cc_params \o more  BY <2>1, <3>1
    <3> QED  BY <3>3, <3>4, <3>5, ModedKept
  <2> QED  BY <2>4, <2>5
<1>4. CASE ScanDone  BY <1>1, <1>4 DEF ScanDone, flagVars
<1>5. CASE Harden
  <2>1. UNCHANGED bit_mode /\ cc_params' = cc_params \o Hardening
        BY <1>5 DEF Harden, Push, Hardening, flagVars
  <2>2. \A i \in DOMAIN Hardening : Hardening[i] \notin ModeFlag  BY Pushed DEF ModeFlag
  <2> QED  BY <2>1, <2>2, OwnParams, ModedKept
<1>6. CASE Sanitize
  <2>1. UNCHANGED bit_mode  BY <1>6, SanitizeCases DEF flagVars
  <2>2. UNCHANGED cc_params \/ cc_params' = cc_params \o Sanitizing
        BY <1>6, SanitizeCases, Zenon
  <2>3. \A i \in DOMAIN Sanitizing : Sanitizing[i] \notin ModeFlag
        BY Pushed DEF ModeFlag, Sanitizer
  <2> QED  BY <1>1, <2>1, <2>2, <2>3, OwnParams, ModedKept
<1>7. CASE Tune
  <2>1. UNCHANGED bit_mode /\ cc_params' = cc_params \o Tuning
        BY <1>7 DEF Tune, Push, Tuning, flagVars
  <2>2. \A i \in DOMAIN Tuning : Tuning[i] \notin ModeFlag  BY Pushed DEF ModeFlag
  <2> QED  BY <2>1, <2>2, OwnParams, ModedKept
<1>8. CASE LinkRuntime
  <2>1. UNCHANGED bit_mode /\ (UNCHANGED cc_params \/ cc_params' = cc_params \o <<Runtime>>)
        BY <1>8 DEF LinkRuntime, Fatal, Push, flagVars
  <2>2. <<Runtime>> \in Seq(Param) /\ \A i \in DOMAIN <<Runtime>> : <<Runtime>>[i] \notin ModeFlag
        BY OwnParams, Pushed DEF ModeFlag, Object
  <2> QED  BY <1>1, <2>1, <2>2, ModedKept
<1>9. CASE Execute  BY <1>1, <1>9 DEF Execute, Fatal, flagVars
<1>10. CASE UNCHANGED ccVars  BY <1>1, <1>10 DEF ccVars, flagVars
<1> QED  BY <1>2, <1>3, <1>4, <1>5, <1>6, <1>7, <1>8, <1>9, <1>10 DEF CcNext

\* Languages of a command line, in terms of the line: no joined "-xc", and
\* after the last push of Tune either no "-x" at all or one reset at the end.
LEMMA LanguagesStep ==
    ASSUME "-xc" \notin Arg, CcTypeOK, Scanning, Languages, [CcNext]_ccVars
    PROVE  Languages'
<1>0. "-xc" \notin Param  BY DEF Param, Own
<1>1. \A i \in DOMAIN cc_params' : cc_params'[i] # "-xc"
  <2>1. cc_params' \in Seq(Param)  BY ScanningStep DEF Scanning
  <2> QED  BY <1>0, <2>1
<1>2. CASE /\ UNCHANGED <<cc_params, x_set>> /\ stage' # "link"
           /\ \/ stage' \in {"exec", "running", "fatal"}
              \/ stage \in {"find_obj", "scan", "harden", "sanitize"}
  <2>1. CASE stage' \in {"exec", "running", "fatal"}  BY <1>1, <2>1 DEF Languages
  <2>2. CASE stage \in {"find_obj", "scan", "harden", "sanitize"}
    <3>1. CASE x_set
      <4>1. x_set'  BY <1>2, <3>1
      <4> QED  BY <1>1, <1>2, <4>1 DEF Languages
    <3>2. CASE ~x_set
      <4>1. \A i \in DOMAIN cc_params : cc_params[i] # "-x"  BY <2>2, <3>2 DEF Languages
      <4>2. \A i \in DOMAIN cc_params' : cc_params'[i] # "-x"  BY <1>2, <4>1
      <4> QED  BY <1>1, <1>2, <4>2 DEF Languages
    <3> QED  BY <3>1, <3>2
  <2> QED  BY <1>2, <2>1, <2>2
<1>3. ASSUME stage \notin {"link", "exec", "running", "fatal"}, NEW more \in Seq(Param),
             cc_params' = cc_params \o more, \A i \in DOMAIN more : more[i] = "-x" => x_set',
             x_set => x_set', stage' \notin {"link"}
      PROVE  Languages'
  <2>1. x_set \/ \A i \in DOMAIN cc_params : cc_params[i] # "-x"  BY <1>3 DEF Languages
  <2>2. \A i \in DOMAIN cc_params' :
           \/ i \in DOMAIN cc_params /\ cc_params'[i] = cc_params[i]
           \/ i - Len(cc_params) \in DOMAIN more /\ cc_params'[i] = more[i - Len(cc_params)]
        BY <1>3 DEF Scanning
  <2>3. x_set' \/ \A i \in DOMAIN cc_params' : cc_params'[i] # "-x"
        BY <2>1, <2>2, <1>3
  <2> QED  BY <1>1, <1>3, <2>3 DEF Languages
<1>4. CASE FindObj
  <2>1. CASE user_args = <<>> \/ Found = {}
        BY <1>2, <1>4, <2>1 DEF FindObj, Fatal, flagVars
  <2>2. CASE ~(user_args = <<>> \/ Found = {})
    <3>1. /\ UNCHANGED x_set /\ cc_params' = cc_params \o LoadPass
          /\ stage = "find_obj" /\ stage' = "scan"
          BY <1>4, <2>2, Zenon DEF FindObj, Push, flagVars
    <3>2. \A i \in DOMAIN LoadPass : LoadPass[i] # "-x"  BY DEF LoadPass
    <3> QED  BY <3>1, <3>2, OwnParams, <1>3
  <2> QED  BY <2>1, <2>2
<1>5. CASE ScanArg
  <2>0. Head(argv) \in Arg  BY <1>5 DEF ScanArg, CcTypeOK
  <2>1. PICK cur \in Arg :
           /\ cc_params' = cc_params \o PushIf(cur \notin Dropped, <<cur>>)
           /\ x_set' = (x_set \/ cur = "-x")
        BY <1>5, <2>0, Zenon DEF ScanArg, Push
  <2>2. stage = "scan" /\ stage' = "scan"  BY <1>5 DEF ScanArg
  <2>3. PICK more : more = PushIf(cur \notin Dropped, <<cur>>)  OBVIOUS
  <2>4. more = <<cur>> \/ more = <<>>  BY <2>3 DEF PushIf
  <2>5. more \in Seq(Param) /\ \A i \in DOMAIN more : more[i] = "-x" => x_set'
    <3>1. CASE more = <<cur>>
      <4>1. cur \in Param  BY DEF Param
      <4>2. cur = "-x" => x_set'  BY <2>1, Zenon
      <4> QED  BY <4>1, <4>2, <3>1
    <3>2. CASE more = <<>>  BY <3>2
    <3> QED  BY <2>4, <3>1, <3>2
  <2>6. cc_params' = cc_params \o more  BY <2>1, <2>3
  <2>7. x_set => x_set'  BY <2>1
  <2> QED  BY <1>3, <2>2, <2>5, <2>6, <2>7
<1>6. CASE ScanDone  BY <1>2, <1>6 DEF ScanDone, flagVars
<1>7. CASE Harden
  <2>1. /\ UNCHANGED x_set /\ cc_params' = cc_params \o Hardening
        /\ stage = "harden" /\ stage' = "sanitize"
        BY <1>7 DEF Harden, Push, Hardening, flagVars
  <2>2. \A i \in DOMAIN Hardening : Hardening[i] # "-x"  BY Pushed
  <2> QED  BY <2>1, <2>2, OwnParams, <1>3
<1>8. CASE Sanitize
  <2>1. UNCHANGED x_set  BY <1>8, SanitizeCases DEF flagVars
  <2>2. UNCHANGED cc_params \/ cc_params' = cc_params \o Sanitizing
        BY <1>8, SanitizeCases, Zenon
  <2>3. stage = "sanitize" /\ stage' \in {"tune", "fatal"}
        BY <1>8, SanitizeCases DEF Sanitize
  <2>4. \A i \in DOMAIN Sanitizing : Sanitizing[i] # "-x"  BY Pushed DEF Sanitizer
  <2>5. CASE UNCHANGED cc_params  BY <2>1, <2>3, <2>5, <1>2
  <2>6. CASE cc_params' = cc_params \o Sanitizing
        BY <2>1, <2>3, <2>4, <2>6, OwnParams, <1>3
  <2> QED  BY <2>2, <2>5, <2>6
<1>9. CASE Tune
  <2>1. UNCHANGED x_set /\ cc_params' = cc_params \o Tuning /\ stage = "tune" /\ stage' = "link"
        BY <1>9 DEF Tune, Push, Tuning, flagVars
  <2>2. x_set \/ \A i \in DOMAIN cc_params : cc_params[i] # "-x"  BY <2>1 DEF Languages
  <2>3. Resets(Len(cc_params))'
    <3>1. CASE x_set
      <4>1. Tuning = <<"-D__AFL_COMPILER=1">> \o <<"-x", "none">>
            BY <3>1 DEF Tuning, Language, PushIf
      <4>2. Len(Tuning) = 3 /\ Tuning[2] = "-x" /\ Tuning[3] = "none"  BY <4>1
      <4>3. /\ Len(cc_params') = Len(cc_params) + 3
            /\ cc_params'[Len(cc_params) + 2] = "-x"
            /\ cc_params'[Len(cc_params) + 3] = "none"
            /\ Len(cc_params) \in Nat
        <5>1. cc_params \in Seq(Param) /\ Tuning \in Seq(Param)  BY OwnParams DEF Scanning
        <5>2. cc_params' = cc_params \o Tuning  BY <2>1
        <5>3. /\ Len(cc_params \o Tuning) = Len(cc_params) + Len(Tuning)
              /\ \A i \in 1 .. Len(Tuning) : (cc_params \o Tuning)[Len(cc_params) + i] = Tuning[i]
              BY <5>1, Joined
        <5> QED  BY <5>1, <5>2, <5>3, <4>2
      <4>4. x_set'  BY <2>1, <3>1
      <4> QED  BY <4>3, <4>4 DEF Resets
    <3>2. CASE ~x_set
      <4>1. Tuning = <<"-D__AFL_COMPILER=1">> \o <<>>  BY <3>2 DEF Tuning, Language, PushIf
      <4>2. \A i \in DOMAIN Tuning : Tuning[i] # "-x"  BY <4>1
      <4>3. \A i \in 1 .. Len(cc_params') : cc_params'[i] # "-x"
            BY <2>1, <2>2, <3>2, <4>2, OwnParams DEF Scanning
      <4>4. ~x_set'  BY <2>1, <3>2
      <4> QED  BY <4>3, <4>4 DEF Resets
    <3> QED  BY <3>1, <3>2
  <2> QED  BY <1>1, <2>1, <2>3 DEF Languages
<1>10. CASE LinkRuntime
  <2>1. stage' \in {"fatal", "exec"}  BY <1>10 DEF LinkRuntime, Fatal
  <2> QED  BY <1>1, <2>1 DEF Languages
<1>11. CASE Execute
  <2>1. stage' \in {"fatal", "running"}  BY <1>11 DEF Execute, Fatal
  <2> QED  BY <1>1, <2>1 DEF Languages
<1>12. CASE UNCHANGED ccVars  BY <1>12 DEF ccVars, flagVars, Languages, Resets
<1> QED  BY <1>4, <1>5, <1>6, <1>7, <1>8, <1>9, <1>10, <1>11, <1>12 DEF CcNext

\* The runtime linked is the last parameter, readable, after the language's reset.
LEMMA LinkedStep ==
    ASSUME CcTypeOK, Scanning, Languages, Linked, [CcNext]_ccVars
    PROVE  Linked'
<1>0. readable' = readable  BY InputsKept DEF inputVars
<1>1. CASE stage' \notin {"exec", "running"}  BY <1>1 DEF Linked
<1>2. CASE stage \in {"exec", "running"} /\ UNCHANGED <<cc_params, obj_path, bit_mode, x_set>>
  <2>1. Runtime' = Runtime  BY <1>2 DEF Runtime
  <2>2. Resets(Len(cc_params) - 1)  BY <1>2 DEF Linked
  <2>3. Resets(Len(cc_params) - 1)'  BY <1>2, <2>2 DEF Resets
  <2>4. /\ Len(cc_params) > 0 /\ cc_params[Len(cc_params)] = Runtime
        /\ bit_mode # 0 => <<obj_path, Runtime>> \in readable
        BY <1>2 DEF Linked
  <2>5. /\ Len(cc_params') > 0 /\ cc_params'[Len(cc_params')] = Runtime'
        /\ bit_mode' # 0 => <<obj_path', Runtime'>> \in readable'
        BY <1>0, <1>2, <2>1, <2>4
  <2> QED  BY <2>3, <2>5 DEF Linked
<1>3. CASE LinkRuntime /\ stage' = "exec"
  <2>1. /\ bit_mode # 0 => <<obj_path, Runtime>> \in readable
        /\ cc_params' = cc_params \o <<Runtime>>
        /\ UNCHANGED <<obj_path, bit_mode, x_set>> /\ stage = "link"
    <3>1. ~(bit_mode # 0 /\ <<obj_path, Runtime>> \notin readable)
          BY <1>3, Zenon DEF LinkRuntime, Fatal
    <3> QED  BY <1>3, <3>1, Zenon DEF LinkRuntime, Push, flagVars
  <2>2. Runtime' = Runtime  BY <2>1 DEF Runtime
  <2>3. /\ Len(cc_params') = Len(cc_params) + 1 /\ Len(cc_params) \in Nat
        /\ cc_params'[Len(cc_params) + 1] = Runtime
        /\ \A i \in 1 .. Len(cc_params) : cc_params'[i] = cc_params[i]
        BY <2>1, OwnParams DEF Scanning
  <2>4. Resets(Len(cc_params))  BY <2>1 DEF Languages
  <2>5. Resets(Len(cc_params) - 1)'
    <3>1. Len(cc_params') - 1 = Len(cc_params)  BY <2>3
    <3>2. CASE x_set
      <4>1. Len(cc_params) >= 2 /\ cc_params[Len(cc_params) - 1] = "-x"
            /\ cc_params[Len(cc_params)] = "none"
            BY <2>4, <3>2 DEF Resets
      <4>2. cc_params'[Len(cc_params) - 1] = "-x" /\ cc_params'[Len(cc_params)] = "none"
            BY <2>3, <4>1
      <4>3. x_set'  BY <2>1, <3>2
      <4> QED  BY <3>1, <4>1, <4>2, <4>3 DEF Resets
    <3>3. CASE ~x_set
      <4>1. \A i \in 1 .. Len(cc_params) : cc_params'[i] # "-x"
            BY <2>3, <2>4, <3>3 DEF Resets
      <4>2. ~x_set'  BY <2>1, <3>3
      <4> QED  BY <3>1, <4>1, <4>2 DEF Resets
    <3> QED  BY <3>2, <3>3
  <2>6. (bit_mode # 0 => <<obj_path, Runtime>> \in readable)'  BY <2>1, <2>2, <1>0
  <2>7. Len(cc_params') > 0 /\ cc_params'[Len(cc_params')] = Runtime'  BY <2>2, <2>3
  <2> QED  BY <2>5, <2>6, <2>7 DEF Linked
<1>4. CASE Execute
  BY <1>1, <1>2, <1>4 DEF Execute, Fatal, flagVars
<1>5. CASE UNCHANGED ccVars  BY <1>1, <1>2, <1>5 DEF ccVars, flagVars
<1>6. CASE ~LinkRuntime /\ ~Execute /\ CcNext
  <2>1. stage' \notin {"exec", "running"}
    <3>1. CASE FindObj  BY <3>1 DEF FindObj, Fatal
    <3>2. CASE ScanArg \/ ScanDone \/ Harden \/ Tune  BY <3>2 DEF ScanArg, ScanDone, Harden, Tune
    <3>3. CASE Sanitize  BY <3>3, SanitizeCases
    <3> QED  BY <1>6, <3>1, <3>2, <3>3 DEF CcNext
  <2> QED  BY <1>1, <2>1
<1>7. CASE LinkRuntime  BY <1>1, <1>3, <1>7 DEF LinkRuntime, Fatal
<1> QED  BY <1>4, <1>5, <1>6, <1>7

\* Pushing no fortify flag after Sanitize keeps what it arranged.
LEMMA SanitizedKept ==
    ASSUME Scanning, Sanitized, stage \in {"tune", "link", "exec", "running"},
           NEW more \in Seq(Param), \A i \in DOMAIN more : more[i] \notin Fortify,
           cc_params' = cc_params \o more, UNCHANGED <<env, asan_set>>
    PROVE  Sanitized'
<1>1. Asked' = Asked  BY DEF Asked
<1>2. CASE Asked = {} \/ asan_set
  <2>1. Asked' = {} \/ asan_set'  BY <1>1, <1>2
  <2> QED  BY <2>1 DEF Sanitized
<1>3. CASE ~(Asked = {} \/ asan_set)
  <2>1. /\ \A s \in Asked : Contains(cc_params, s)
        /\ "AFL_HARDEN" \notin env
        /\ LastIs(cc_params, Fortify, "-U_FORTIFY_SOURCE")
        BY <1>3 DEF Sanitized
  <2>2. \A s \in Asked : Contains(cc_params \o more, s)  BY <2>1, ContainsKept DEF Scanning
  <2>3. \A s \in Asked' : Contains(cc_params', s)  BY <1>1, <2>2
  <2>4. LastIs(cc_params \o more, Fortify, "-U_FORTIFY_SOURCE")  BY <2>1, LastKept DEF Scanning
  <2>5. LastIs(cc_params', Fortify, "-U_FORTIFY_SOURCE")  BY <2>4
  <2>6. \A s \in Asked' : Contains(cc_params, s)'  BY <2>3 DEF Contains
  <2>7. LastIs(cc_params, Fortify, "-U_FORTIFY_SOURCE")'  BY <2>5 DEF LastIs, Fortify
  <2> QED  BY <2>1, <2>6, <2>7 DEF Sanitized
<1> QED  BY <1>2, <1>3

\* Sanitize puts what is asked for on the command line, and no later step undoes it.
LEMMA SanitizedStep ==
    ASSUME CcTypeOK, Scanning, Sanitized, [CcNext]_ccVars
    PROVE  Sanitized'
<1>0. env' = env  BY InputsKept DEF inputVars
<1>1. CASE stage' \notin {"tune", "link", "exec", "running"}  BY <1>1 DEF Sanitized
<1>2. CASE /\ UNCHANGED <<cc_params, asan_set>>
           /\ stage \in {"tune", "link", "exec", "running"}
  <2>1. cc_params' = cc_params \o <<>>  BY <1>2 DEF Scanning
  <2>2. <<>> \in Seq(Param) /\ \A i \in DOMAIN <<>> : <<>>[i] \notin Fortify  OBVIOUS
  <2> QED  BY <1>0, <1>2, <2>1, <2>2, SanitizedKept
<1>3. CASE Sanitize /\ stage' = "tune"
  <2>1. UNCHANGED asan_set  BY <1>3, SanitizeCases DEF flagVars
  <2>2. CASE asan_set \/ env \cap {"AFL_USE_ASAN", "AFL_USE_MSAN"} = {}
    <3>1. CASE asan_set
      <4>1. asan_set'  BY <2>1, <3>1
      <4> QED  BY <4>1 DEF Sanitized
    <3>2. CASE env \cap {"AFL_USE_ASAN", "AFL_USE_MSAN"} = {}
      <4>1. "AFL_USE_ASAN" \notin env' /\ "AFL_USE_MSAN" \notin env'  BY <1>0, <3>2
      <4>2. Asked' = {}  BY <4>1 DEF Asked
      <4> QED  BY <4>2 DEF Sanitized
    <3> QED  BY <2>2, <3>1, <3>2
  <2>3. CASE ~(asan_set \/ env \cap {"AFL_USE_ASAN", "AFL_USE_MSAN"} = {})
    <3>1. Exclusive /\ cc_params' = cc_params \o Sanitizing
          BY <1>3, <2>3, SanitizeCases, Zenon
    <3>2. PICK s \in Sanitizer : s = IF "AFL_USE_ASAN" \in env THEN "-fsanitize=address"
                                                              ELSE "-fsanitize=memory"
          BY DEF Sanitizer
    <3>3. Asked' = {s}
      <4>1. ~("AFL_USE_ASAN" \in env /\ "AFL_USE_MSAN" \in env)  BY <3>1 DEF Exclusive
      <4>2. "AFL_USE_ASAN" \in env \/ "AFL_USE_MSAN" \in env  BY <2>3
      <4>3. CASE "AFL_USE_ASAN" \in env  BY <1>0, <3>2, <4>1, <4>3 DEF Asked
      <4>4. CASE "AFL_USE_ASAN" \notin env  BY <1>0, <3>2, <4>2, <4>4 DEF Asked
      <4> QED  BY <4>3, <4>4
    <3>4. Sanitizing = <<"-U_FORTIFY_SOURCE", s>>  BY <3>2 DEF Sanitizing
    <3>5. s \in Param /\ "-U_FORTIFY_SOURCE" \in Param  BY DEF Param, Own, Sanitizer
    <3>6. cc_params \in Seq(Param)  BY DEF Scanning
    <3>7. cc_params \o <<"-U_FORTIFY_SOURCE", s>> = Append(cc_params, "-U_FORTIFY_SOURCE") \o <<s>>
          BY <3>5, <3>6
    <3>8. LastIs(Append(cc_params, "-U_FORTIFY_SOURCE"), Fortify, "-U_FORTIFY_SOURCE")
          BY <3>5, <3>6, LastPushed DEF Fortify
    <3>9. <<s>> \in Seq(Param) /\ \A i \in DOMAIN <<s>> : <<s>>[i] \notin Fortify
          BY <3>5 DEF Sanitizer, Fortify
    <3>10. Append(cc_params, "-U_FORTIFY_SOURCE") \in Seq(Param)  BY <3>5, <3>6
    <3>11. LastIs(Append(cc_params, "-U_FORTIFY_SOURCE") \o <<s>>, Fortify, "-U_FORTIFY_SOURCE")
           BY <3>8, <3>9, <3>10, LastKept
    <3>12. LastIs(cc_params, Fortify, "-U_FORTIFY_SOURCE")'
      <4>1. LastIs(cc_params', Fortify, "-U_FORTIFY_SOURCE")  BY <3>1, <3>4, <3>7, <3>11
      <4> QED  BY <4>1 DEF LastIs, Fortify
    <3>13. Contains(cc_params, s)'
      <4>1. Contains(<<s>>, s)  BY DEF Contains
      <4>2. Contains(Append(cc_params, "-U_FORTIFY_SOURCE") \o <<s>>, s)
            BY <3>9, <3>10, <4>1, ContainsKept
      <4>3. Contains(cc_params', s)  BY <3>1, <3>4, <3>7, <4>2
      <4> QED  BY <4>3 DEF Contains
    <3>14. "AFL_HARDEN" \notin env'  BY <1>0, <3>1 DEF Exclusive
    <3> QED  BY <3>3, <3>12, <3>13, <3>14 DEF Sanitized
  <2> QED  BY <2>2, <2>3
<1>4. CASE Tune
  <2>1. UNCHANGED asan_set /\ cc_params' = cc_params \o Tuning /\ stage = "tune"
        BY <1>4 DEF Tune, Push, Tuning, flagVars
  <2>2. \A i \in DOMAIN Tuning : Tuning[i] \notin Fortify  BY Pushed DEF Fortify
  <2> QED  BY <1>0, <2>1, <2>2, OwnParams, SanitizedKept
<1>5. CASE LinkRuntime
  <2>1. /\ UNCHANGED asan_set /\ stage = "link"
        /\ UNCHANGED cc_params \/ cc_params' = cc_params \o <<Runtime>>
        BY <1>5 DEF LinkRuntime, Fatal, Push, flagVars
  <2>2. <<Runtime>> \in Seq(Param) /\ \A i \in DOMAIN <<Runtime>> : <<Runtime>>[i] \notin Fortify
        BY OwnParams, Pushed DEF Fortify, Object
  <2> QED  BY <1>0, <1>2, <2>1, <2>2, SanitizedKept
<1>6. CASE Execute  BY <1>2, <1>6 DEF Execute, Fatal, flagVars
<1>7. CASE UNCHANGED ccVars  BY <1>1, <1>2, <1>7 DEF ccVars, flagVars
<1>8. CASE FindObj \/ ScanArg \/ ScanDone \/ Harden
  <2>1. stage' \notin {"tune", "link", "exec", "running"}
    <3>1. CASE FindObj  BY <3>1 DEF FindObj, Fatal
    <3>2. CASE ScanArg \/ ScanDone \/ Harden  BY <3>2 DEF ScanArg, ScanDone, Harden
    <3> QED  BY <1>8, <3>1, <3>2
  <2> QED  BY <1>1, <2>1
<1>9. CASE Sanitize
  <2>1. stage' \in {"tune", "fatal"}  BY <1>9, SanitizeCases
  <2> QED  BY <1>1, <1>3, <1>9, <2>1
<1> QED  BY <1>4, <1>5, <1>6, <1>7, <1>8, <1>9 DEF CcNext

(***************************************************************************)
(* Theorems.                                                               *)
(***************************************************************************)

\* The variables of find_obj and edit_params keep their types, and edit_params
\* never runs without a path (clang-trace.c:49-92, 96-151).
THEOREM CcTypeCorrect == CcSpec => []CcTypeOK
<1>1. CcInit => CcTypeOK  BY InvInit DEF Inv
<1>2. CcTypeOK /\ [CcNext]_ccVars => CcTypeOK'  BY TypeStep
<1> QED  BY <1>1, <1>2, PTL DEF CcSpec

\* As long as nobody joins -x to its language, the compiler is run with a
\* readable runtime of the mode of the last mode flag, and with no language
\* left set for it (clang-trace.c:139-157, 211-237).
THEOREM RightRuntime ==
    ASSUME "-xc" \notin Arg
    PROVE  CcSpec => []LinksRightRuntime
<1> DEFINE I == CcTypeOK /\ Scanning /\ Located /\ Moded /\ Languages /\ Linked
<1>1. CcInit => I  BY InvInit DEF Inv
<1>2. I /\ [CcNext]_ccVars => I'
      BY TypeStep, ScanningStep, LocatedStep, ModedStep, LanguagesStep, LinkedStep
<1>3. I => LinksRightRuntime
  <2> SUFFICES ASSUME I, stage = "running" PROVE LinksRightRuntime
      BY DEF LinksRightRuntime
  <2> DEFINE language(i) == \/ cc_params[i] = "-x" /\ cc_params[i + 1] # "none"
                            \/ cc_params[i] = "-xc"
  <2>1. PICK flag \in Arg \cup {"none"} : LastIs(cc_params, ModeFlag, flag) /\ bit_mode = Bits(flag)
        BY DEF Moded
  <2>2. cc_params \in Seq(Param)  BY DEF Scanning
  <2>3. LastOf(cc_params, ModeFlag) = flag  BY <2>1, <2>2, LastIsLast
  <2>4. /\ Len(cc_params) > 0 /\ cc_params[Len(cc_params)] = Runtime
        /\ bit_mode # 0 => <<obj_path, Runtime>> \in readable
        /\ Resets(Len(cc_params) - 1)
        BY DEF Linked
  <2>5. flag \in ModeFlag \cup {"none"}  BY <2>1 DEF LastIs
  <2>6. Runtime = CASE flag = "none" -> "trace-rt.o"
                    [] flag = "-m64" -> "trace-rt-64.o"
                    [] OTHER -> "trace-rt-32.o"
    <3>1. CASE flag = "none"  BY <2>1, <3>1 DEF Bits, Runtime
    <3>2. CASE flag = "-m64"  BY <2>1, <3>2 DEF Bits, Runtime
    <3>3. CASE flag \in {"-m32", "armv7a-linux-androideabi"}  BY <2>1, <3>3 DEF Bits, Runtime
    <3> QED  BY <2>5, <3>1, <3>2, <3>3 DEF ModeFlag
  <2>7. <<obj_path, Runtime>> \in readable
    <3>1. CASE bit_mode = 0
      <4>1. Runtime = "trace-rt.o"  BY <3>1 DEF Runtime
      <4> QED  BY <4>1 DEF Located
    <3> QED  BY <2>4, <3>1
  <2>8. \A i \in 1 .. Len(cc_params) - 1 :
           language(i) => \E j \in i + 1 .. Len(cc_params) - 1 :
                             cc_params[j] = "-x" /\ cc_params[j + 1] = "none"
    <3> SUFFICES ASSUME NEW i \in 1 .. Len(cc_params) - 1, language(i)
                 PROVE  \E j \in i + 1 .. Len(cc_params) - 1 :
                           cc_params[j] = "-x" /\ cc_params[j + 1] = "none"
        OBVIOUS
    <3> DEFINE n == Len(cc_params) - 1
    <3>1. n \in Nat /\ i \in DOMAIN cc_params /\ n = Len(cc_params) - 1  BY <2>2, <2>4
    <3>2. cc_params[i] = "-x" /\ cc_params[i + 1] # "none"  BY <3>1 DEF Languages
    <3>3. x_set  BY <2>4, <3>2 DEF Resets
    <3>4. n >= 2 /\ cc_params[n - 1] = "-x" /\ cc_params[n] = "none"  BY <2>4, <3>3 DEF Resets
    <3>5. i # n /\ i # n - 1  BY <3>1, <3>2, <3>4
    <3>6. n - 1 \in i + 1 .. Len(cc_params) - 1 /\ (n - 1) + 1 = n  BY <3>1, <3>4, <3>5
    <3> QED  BY <3>4, <3>6
  <2> QED  BY <2>3, <2>4, <2>6, <2>7, <2>8 DEF LinksRightRuntime, ModeFlag
<1> QED  BY <1>1, <1>2, <1>3, PTL DEF CcSpec

\* Every sanitizer the environment asks for is compiled in, with fortified
\* calls off and no hardening asked for, when the user's arguments name none
\* (clang-trace.c:165-184).
THEOREM Sanitizers == CcSpec => []SanitizersCoherent
<1> DEFINE I == CcTypeOK /\ Scanning /\ Sanitized
<1>1. CcInit => I  BY InvInit DEF Inv
<1>2. I /\ [CcNext]_ccVars => I'  BY TypeStep, ScanningStep, SanitizedStep
<1>3. I => SanitizersCoherent
  <2> SUFFICES ASSUME I, stage = "running", Asked # {},
                      \A s \in Sanitizer : ~Contains(user_args, s)
               PROVE  /\ \A s \in Asked : Contains(cc_params, s)
                      /\ "AFL_HARDEN" \notin env
                      /\ LastOf(cc_params, Fortify) = "-U_FORTIFY_SOURCE"
      BY DEF SanitizersCoherent, Asked, Fortify
  <2>1. ~asan_set  BY DEF Scanning
  <2>2. /\ \A s \in Asked : Contains(cc_params, s)
        /\ "AFL_HARDEN" \notin env
        /\ LastIs(cc_params, Fortify, "-U_FORTIFY_SOURCE")
        BY <2>1 DEF Sanitized
  <2>3. LastOf(cc_params, Fortify) = "-U_FORTIFY_SOURCE"  BY <2>2, LastIsLast DEF Scanning
  <2> QED  BY <2>2, <2>3
<1> QED  BY <1>1, <1>2, <1>3, PTL DEF CcSpec
=============================================================================
