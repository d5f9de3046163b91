---------------------------- MODULE MCClangTrace ----------------------------
EXTENDS ClangTrace

MCArg == {"-m32", "-m64", "-x", "-fsanitize=address", "-D_FORTIFY_SOURCE", "-Wl,-z,defs", "in.c"}

MCJoined == {"-xc", "-x", "in.c"}

\* A runtime in every directory; the other modes in two, not both in each.
MCInstalled ==
    (Dir \X {"trace-rt.o"})
    \cup {<<"AFL_PATH", "trace-rt-32.o">>, <<"builtin", "trace-rt-32.o">>,
          <<"builtin", "trace-rt-64.o">>, <<"builtin", "trace-pass.so">>}
=============================================================================
