----------------------------- MODULE ClangTrace -----------------------------
(***************************************************************************)
(* clang-trace.c: the compiler wrapper that builds the tracing binary.  It *)
(* looks for its runtime, copies the user's arguments to the command line  *)
(* of the real compiler, with its own before and after, and executes it.   *)
(* Built without USE_TRACE_PC and not for Android, as the Makefile does.   *)
(***************************************************************************)
EXTENDS Naturals, Sequences

CONSTANTS
    Arg,                    \* arguments a user may give
    MAX_ARGS,               \* bound: how many of them
    Installed               \* <<dir, file>>: the files that may be readable

\* The directories find_obj looks in, and the files it may find there.
Dirs == <<"AFL_PATH", "argv0", "builtin">>
Dir == {"AFL_PATH", "argv0", "builtin"}
Object == {"trace-rt.o", "trace-rt-32.o", "trace-rt-64.o"}
Library == {"trace-pass.so"} \cup Object

ASSUME InstalledAssumption == Installed \subseteq Dir \X Library
ASSUME BoundAssumption == MAX_ARGS \in Nat

\* Those that decide between paths or bear on a property.
EnvVar == {"AFL_HARDEN", "AFL_USE_ASAN", "AFL_USE_MSAN"}
NotFound == "NULL"

VARIABLES
    argv,                   \* arguments not scanned yet
    env,                    \* the variables of EnvVar that are set
    places,                 \* directories to look in: AFL_PATH may be unset, argv0 without a slash
    readable,               \* the readable files [dir, file]
    obj_path,
    cc_params,              \* arguments of the real compiler so far
    bit_mode, x_set, asan_set, fortify_set,
    stage

\* History: the arguments the user gave.
VARIABLE user_args

inputVars == <<env, places, readable, user_args>>
flagVars == <<bit_mode, x_set, asan_set, fortify_set>>
ccVars == <<argv, inputVars, obj_path, cc_params, flagVars, stage>>

Stage == {"find_obj", "scan", "harden", "sanitize", "tune", "link", "exec", "running", "fatal"}

Contains(params, p) == \E i \in DOMAIN params : params[i] = p

\* Types of find_obj's and edit_params' variables; edit_params never runs with
\* obj_path still NULL.
CcTypeOK ==
    /\ argv \in Seq(Arg)
    /\ obj_path \in (IF stage \in {"find_obj", "fatal"} THEN Dir \cup {NotFound} ELSE Dir)
    /\ bit_mode \in {0, 32, 64}
    /\ {x_set, asan_set, fortify_set} \subseteq BOOLEAN
    /\ stage \in Stage

CcInit ==
    /\ argv \in UNION {[1 .. n -> Arg] : n \in 0 .. MAX_ARGS}
    /\ user_args = argv
    /\ env \in SUBSET EnvVar
    /\ places \in SUBSET Dir /\ "builtin" \in places
    /\ readable \in SUBSET Installed
    /\ obj_path = NotFound
    /\ cc_params = <<>>
    /\ bit_mode = 0 /\ x_set = FALSE /\ asan_set = FALSE /\ fortify_set = FALSE
    /\ stage = "find_obj"

Push(params) == cc_params' = cc_params \o params
PushIf(cond, params) == IF cond THEN params ELSE <<>>

Fatal ==
    /\ stage' = "fatal"
    /\ UNCHANGED <<argv, inputVars, obj_path, cc_params, flagVars>>

\* find_obj: the first directory with a readable trace-rt.o.
Found == {i \in DOMAIN Dirs : Dirs[i] \in places /\ <<Dirs[i], "trace-rt.o">> \in readable}

LoadPass == <<"-Xclang", "-load", "-Xclang", "trace-pass.so", "-Qunused-arguments">>

BugFindObj ==
    /\ stage = "find_obj"
    /\ obj_path' = IF Found = {} THEN NotFound
                  ELSE Dirs[CHOOSE i \in Found : \A j \in Found : i <= j]
    /\ Push(LoadPass)
    /\ stage' = "scan"
    /\ UNCHANGED <<argv, inputVars, flagVars>>

\* main first explains itself and exits if it is given no arguments.
FindObj ==
    /\ stage = "find_obj"
    /\ IF user_args = <<>> \/ Found = {}
       THEN Fatal
       ELSE /\ obj_path' = Dirs[CHOOSE i \in Found : \A j \in Found : i <= j]
            /\ Push(LoadPass)
            /\ stage' = "scan"
            /\ UNCHANGED <<argv, inputVars, flagVars>>

\* edit_params: one argument of the user.
Dropped == {"-Wl,-z,defs", "-Wl,--no-undefined"}
Sanitizer == {"-fsanitize=address", "-fsanitize=memory"}

ScanArg ==
    /\ stage = "scan" /\ argv # <<>>
    /\ LET cur == Head(argv)
       IN  /\ bit_mode' = CASE cur \in {"-m32", "armv7a-linux-androideabi"} -> 32
                            [] cur = "-m64" -> 64
                            [] OTHER -> bit_mode
           /\ x_set' = (x_set \/ cur = "-x")
           /\ asan_set' = (asan_set \/ cur \in Sanitizer)
           /\ fortify_set' = (fortify_set \/ cur \in {"-D_FORTIFY_SOURCE", "-U_FORTIFY_SOURCE"})
           /\ Push(PushIf(cur \notin Dropped, <<cur>>))
    /\ argv' = Tail(argv)
    /\ UNCHANGED <<inputVars, obj_path, stage>>

ScanDone ==
    /\ stage = "scan" /\ argv = <<>>
    /\ stage' = "harden"
    /\ UNCHANGED <<argv, inputVars, obj_path, cc_params, flagVars>>

Harden ==
    /\ stage = "harden"
    /\ Push(PushIf("AFL_HARDEN" \in env,
                   <<"-fstack-protector-all">> \o PushIf(~fortify_set, <<"-D_FORTIFY_SOURCE">>)))
    /\ stage' = "sanitize"
    /\ UNCHANGED <<argv, inputVars, obj_path, flagVars>>

BugExclusive == ~({"AFL_USE_ASAN", "AFL_USE_MSAN"} \subseteq env)

Exclusive == "AFL_HARDEN" \notin env /\ ~({"AFL_USE_ASAN", "AFL_USE_MSAN"} \subseteq env)

\* A sanitizer asked for in the environment, unless the user's arguments have one.
Sanitize ==
    /\ stage = "sanitize"
    /\ IF asan_set \/ env \cap {"AFL_USE_ASAN", "AFL_USE_MSAN"} = {}
       THEN stage' = "tune" /\ UNCHANGED <<argv, inputVars, obj_path, cc_params, flagVars>>
       ELSE IF ~Exclusive THEN Fatal
       ELSE /\ Push(<<"-U_FORTIFY_SOURCE", IF "AFL_USE_ASAN" \in env THEN "-fsanitize=address"
                                                                    ELSE "-fsanitize=memory">>)
            /\ stage' = "tune"
            /\ UNCHANGED <<argv, inputVars, obj_path, flagVars>>

BugLanguage == <<>>

\* The language given with -x is not that of the runtime.
Language == PushIf(x_set, <<"-x", "none">>)

\* Optimization and builtin flags are fixed text, left out.
Tune ==
    /\ stage = "tune"
    /\ Push(<<"-D__AFL_COMPILER=1">> \o Language)
    /\ stage' = "link"
    /\ UNCHANGED <<argv, inputVars, obj_path, flagVars>>

Runtime == CASE bit_mode = 0 -> "trace-rt.o"
             [] bit_mode = 32 -> "trace-rt-32.o"
             [] bit_mode = 64 -> "trace-rt-64.o"

\* The runtime of the other modes may not have been built.
LinkRuntime ==
    /\ stage = "link"
    /\ IF bit_mode # 0 /\ <<obj_path, Runtime>> \notin readable
       THEN Fatal
       ELSE /\ Push(<<Runtime>>)
            /\ stage' = "exec"
            /\ UNCHANGED <<argv, inputVars, obj_path, flagVars>>

\* execvp returns only if the compiler cannot be run.
Execute ==
    /\ stage = "exec"
    /\ \/ Fatal
       \/ /\ stage' = "running"
          /\ UNCHANGED <<argv, inputVars, obj_path, cc_params, flagVars>>

CcNext ==
    \/ FindObj
    \/ ScanArg \/ ScanDone
    \/ Harden \/ Sanitize \/ Tune \/ LinkRuntime \/ Execute

CcSpec == CcInit /\ [][CcNext]_ccVars

(***************************************************************************)
(* Properties: the command line as the compiler reads it.                  *)
(***************************************************************************)

\* The last of params that is in S; the compiler lets the last flag win.
LastOf(params, S) ==
    LET at == {i \in DOMAIN params : params[i] \in S}
    IN  IF at = {} THEN "none" ELSE params[CHOOSE i \in at : \A j \in at : j <= i]

\* The compiler is only run with a runtime that is readable and of the mode it
\* compiles for, the last mode flag on its own command line, whatever the
\* order of the user's arguments; and with a language given by -x reset before
\* the runtime, which would be compiled as a source file otherwise.  clang-trace.c:26
\* says "drop-in replacement for clang", which also takes the language joined (-xc).
LinksRightRuntime ==
    stage = "running" =>
        LET mode == LastOf(cc_params, {"-m32", "-m64", "armv7a-linux-androideabi"})
            runtime == cc_params[Len(cc_params)]
            language(i) == \/ cc_params[i] = "-x" /\ cc_params[i + 1] # "none"
                           \/ cc_params[i] = "-xc"
        IN  /\ runtime = CASE mode = "none" -> "trace-rt.o"
                            [] mode = "-m64" -> "trace-rt-64.o"
                            [] OTHER -> "trace-rt-32.o"
            /\ <<obj_path, runtime>> \in readable
            /\ \A i \in 1 .. Len(cc_params) - 1 :
                  language(i) => \E j \in i + 1 .. Len(cc_params) - 1 :
                                    cc_params[j] = "-x" /\ cc_params[j + 1] = "none"

\* A sanitizer asked for in the environment is what is compiled, unless the
\* user's arguments name one: every sanitizer asked for is on the command line,
\* and hardening, which hides errors from it, was not asked for as well and its
\* fortified calls end up off.
SanitizersCoherent ==
    LET asked == (IF "AFL_USE_ASAN" \in env THEN {"-fsanitize=address"} ELSE {})
                 \cup (IF "AFL_USE_MSAN" \in env THEN {"-fsanitize=memory"} ELSE {})
    IN  stage = "running" /\ asked # {} /\ (\A s \in Sanitizer : ~Contains(user_args, s)) =>
            /\ \A s \in asked : Contains(cc_params, s)
            /\ "AFL_HARDEN" \notin env
            /\ LastOf(cc_params, {"-D_FORTIFY_SOURCE", "-U_FORTIFY_SOURCE"}) = "-U_FORTIFY_SOURCE"

\* The message of find_obj (clang-trace.c:91) is for "'trace-rt.o' or
\* 'trace-pass.so'", and its comment (47) for "the runtime libraries": once it
\* succeeds both are there.  Only trace-rt.o is looked for.
BothFound ==
    obj_path # NotFound => {obj_path} \X {"trace-rt.o", "trace-pass.so"} \subseteq readable
=============================================================================
