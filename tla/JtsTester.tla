------------------------------ MODULE JtsTester ------------------------------
(***************************************************************************)
(* The tester src/libjts/jtstest.c composed with the wrapper model JtsC.   *)
(*                                                                         *)
(* The tester is one host thread (Main).  Every wrapper it calls is a      *)
(* TryCall step of JtsC for that thread, conjoined with what the tester    *)
(* does with the outcome.  Its error handler is log_and_exit, which JtsC's *)
(* catch blocks call with the exception message as the FORMAT argument:    *)
(* vasprintf(&msg, fmt, ap) followed by "if (!vasprintf(...)) return;" and *)
(* exit(1).  Geometry values are "set" (a geometry or string) or "NULL".   *)
(*                                                                         *)
(* Exception messages are abstracted to what vasprintf makes of them:      *)
(*   "text"    -- non-empty, no conversion specification                  *)
(*   "empty"   -- formats to "" (vasprintf returns 0)                     *)
(*   "percent" -- holds a '%' conversion, e.g. a parse error echoing the  *)
(*                offending token of the input: vasprintf reads varargs   *)
(*                that were never passed (undefined behaviour)            *)
(***************************************************************************)
EXTENDS JtsC, Sequences

CONSTANTS Inputs,     \* contents of the input file
          Argcs,      \* values of argc
          NArgs,      \* values of atoi(argv[2])
          Messages    \* kinds of exception message the library may raise

ASSUME TesterAssumption ==
  /\ Inputs \subseteq {"missing", "valid", "malformed"}
  /\ Argcs \subseteq 1..3
  /\ NArgs \subseteq Int
  /\ Messages \subseteq {"text", "empty", "percent"} /\ Messages # {}

\* The host thread that runs main().
Main == CHOOSE t \in Threads : TRUE

VARIABLES cmd,       \* the command line and the input file, fixed
          mline,     \* where main() is
          line,      \* the index of the do_all statement to run next
          i, n,      \* main's loop counter and round count
          env,       \* do_all's locals g1, g2, g3, ptr, uptr
          exitCode,  \* -1 while running, else the process exit status
          ccrash,    \* the process died in C code (not a JtsC crash)
          bad        \* the tester printed or accepted a value no call computed

tvars == <<cmd, mline, line, i, n, env, exitCode, ccrash, bad>>
allvars == <<vars, tvars>>

Locals == {"g1", "g2", "g3", "ptr", "uptr"}

\* One statement of do_all: its kind, the wrapper group it calls, its
\* argument locals and the local it assigns.
I(op, fn, a, b, dst) == [op |-> op, fn |-> fn, a |-> a, b |-> b, dst |-> dst]

\* The body of do_all, lines 97-189, one entry per wrapper call.
Program ==
  << I("fromWKT", "JTSConverter", "g1", "g1", "g1"),      \* 97
     I("show", "JTSConverter", "g1", "g1", "ptr"),        \* 100-101
     I("toWKB", "JTSConverter", "g1", "g1", "uptr"),      \* 104-105
     I("fromWKB", "JTSConverter", "uptr", "uptr", "g2"),  \* 108
     I("check", "JTSPredicate", "g1", "g2", "-"),         \* 109 Equals
     I("pred", "JTSPredicate", "g1", "g1", "-"),          \* 112 isEmpty
     I("pred", "JTSPredicate", "g1", "g1", "-"),          \* 113 isValid
     I("pred", "JTSPredicate", "g1", "g1", "-"),          \* 114 isSimple
     I("pred", "JTSisRing", "g1", "g1", "-"),             \* 115 isRing
     I("geom", "JTSGeomOp", "g1", "g1", "g2"),            \* 118 ConvexHull
     I("show", "JTSConverter", "g2", "g2", "ptr"),        \* 119-120
     I("geom", "JTSGeomOp", "g2", "g2", "g1"),            \* 123 Buffer
     I("show", "JTSConverter", "g1", "g1", "ptr"),        \* 124-125
     I("geom", "JTSGeomOp", "g1", "g2", "g3"),            \* 128 Intersection
     I("check", "JTSPredicate", "g3", "g2", "-"),         \* 129-130 Equals
     I("show", "JTSConverter", "g3", "g3", "ptr"),        \* 131-132
     I("geom", "JTSGeomOp", "g1", "g2", "g3"),            \* 135 Difference
     I("show", "JTSConverter", "g3", "g3", "ptr"),        \* 136-137
     I("geom", "JTSGeomOp", "g1", "g2", "g3"),            \* 140 SymDifference
     I("show", "JTSConverter", "g3", "g3", "ptr"),        \* 141-142
     I("geom", "JTSGeomOp", "g3", "g3", "g3"),            \* 145 Boundary
     I("show", "JTSConverter", "g3", "g3", "ptr"),        \* 146-147
     I("geom", "JTSGeomOp", "g1", "g2", "g3"),            \* 150 Union
     I("check", "JTSPredicate", "g3", "g1", "-"),         \* 151-152 Equals
     I("show", "JTSConverter", "g3", "g3", "ptr"),        \* 153-154
     I("geom", "JTSGeomOp", "g3", "g3", "g3"),            \* 157 PointOnSurface
     I("show", "JTSConverter", "g3", "g3", "ptr"),        \* 158-159
     I("geom", "JTSGeomOp", "g2", "g2", "g3"),            \* 162 Centroid
     I("show", "JTSConverter", "g3", "g3", "ptr"),        \* 163-164
     I("relate", "JTSRelate", "g1", "g2", "ptr"),         \* 167
     I("pattern", "JTSPredicate", "g1", "g2", "-"),       \* 168-170
     I("pred", "JTSPredicate", "g1", "g2", "-"),          \* 183 Intersects
     I("pred", "JTSPredicate", "g1", "g2", "-"),          \* 184 Disjoint
     I("pred", "JTSPredicate", "g1", "g2", "-"),          \* 185 Touches
     I("pred", "JTSPredicate", "g1", "g2", "-"),          \* 186 Crosses
     I("pred", "JTSPredicate", "g1", "g2", "-"),          \* 187 Within
     I("pred", "JTSPredicate", "g1", "g2", "-"),          \* 188 Contains
     I("pred", "JTSPredicate", "g1", "g2", "-") >>        \* 189 Overlaps

\* The wrapper's return kind for a statement.
KindOf(op) == IF op \in {"check", "pred", "pattern"} THEN "char" ELSE "ptr"

\* The handle JtsC sees for a local.
H(v) == IF v = "NULL" THEN NullHandle ELSE AnyGeom

Alive == crash = NoCrash /\ ~ccrash /\ exitCode = -1

-----------------------------------------------------------------------------
(* log_and_exit(fmt, ...), jtstest.c:45-65, given the kind of message it   *)
(* formats: "exit" (prints, exit(1)), "return" (vasprintf returned 0, so    *)
(* it returns to the wrapper) or "undefined" (vasprintf read arguments that *)
(* were never passed).                                                     *)

\* Mutant: a handler that always returns to the wrapper.
LogAndExitReturning(m) == "return"

LogAndExit(m) == [text |-> "exit", empty |-> "return", percent |-> "undefined"][m]

\* The process exits with status s.
Exit(s) == /\ exitCode' = s
           /\ UNCHANGED <<cmd, mline, line, i, n, env, ccrash, bad>>

\* The wrapper's catch block hands message m to log_and_exit; if that
\* returns, the wrapper returns its sentinel and do_all carries on (cont).
Report(m, cont) ==
  \/ LogAndExit(m) = "exit" /\ Exit(1)
  \/ LogAndExit(m) = "undefined"
     /\ \/ Exit(1)
        \/ ccrash' = TRUE /\ UNCHANGED <<cmd, mline, line, i, n, env, exitCode, bad>>
  \/ LogAndExit(m) = "return" /\ cont

-----------------------------------------------------------------------------
(* What do_all does with the value v a wrapper returned (v is the success  *)
(* value, or the sentinel when the handler returned).                      *)

Next1 == line' = line + 1

Continue(ins, v) ==
  \* g = JTS...(...); ptr = JTSRelate(...): store the handle
  \/ /\ ins.op \in {"fromWKT", "fromWKB", "geom", "relate"}
     /\ env' = [env EXCEPT ![ins.dst] = IF v = 0 THEN "NULL" ELSE "set"]
     /\ Next1 /\ UNCHANGED <<cmd, mline, i, n, exitCode, ccrash, bad>>
  \* ptr = JTSGeomToWKT(g); printf("...%s\n", ptr): a NULL is printed
  \/ /\ ins.op = "show"
     /\ env' = [env EXCEPT ![ins.dst] = IF v = 0 THEN "NULL" ELSE "set"]
     /\ bad' = (bad \/ v = 0)
     /\ Next1 /\ UNCHANGED <<cmd, mline, i, n, exitCode, ccrash>>
  \* uptr = JTSGeomToWKB(g1, &size); printHEX(stdout, uptr, size): on the
  \* error path size was never assigned, and printHEX reads size bytes of NULL
  \/ /\ ins.op = "toWKB"
     /\ env' = [env EXCEPT ![ins.dst] = IF v = 0 THEN "NULL" ELSE "set"]
     /\ \/ v # 0 /\ Next1 /\ UNCHANGED <<ccrash, bad>>
        \/ v = 0 /\ bad' = TRUE
           /\ \/ ccrash' = TRUE /\ UNCHANGED line     \* size > 0
              \/ Next1 /\ UNCHANGED ccrash            \* size happens to be 0
     /\ UNCHANGED <<cmd, mline, i, n, exitCode>>
  \* if ( ! JTSEquals(a, b) ) log_and_exit("..."): the fixed message exits;
  \* the error value 2 passes the test
  \/ /\ ins.op \in {"check", "pattern"}
     /\ \/ v = 0 /\ Report("text", FALSE)
        \/ v # 0 /\ bad' = (bad \/ v = 2)
           /\ Next1 /\ UNCHANGED <<cmd, mline, i, n, env, exitCode, ccrash>>
  \* if ( JTSisEmpty(g1) ) printf("isEmpty\n"): 2 prints the line
  \/ /\ ins.op = "pred"
     /\ bad' = (bad \/ v = 2)
     /\ Next1 /\ UNCHANGED <<cmd, mline, i, n, env, exitCode, ccrash>>

\* The exceptions a statement's library call may raise.
Raises(ins) ==
  CASE ins.op = "fromWKT" -> IF cmd.file = "valid" THEN {"none"} ELSE {"exc"}
    [] ins.op = "fromWKB" -> IF env.uptr = "NULL" THEN {"exc"} ELSE {"none"}
    [] ins.op \in {"show", "toWKB"} -> GetterRaises(H(env[ins.a]))
    [] OTHER -> LibRaises({H(env[ins.a]), H(env[ins.b])})

\* The results a statement's library call may return on success.
Results(ins) == IF KindOf(ins.op) = "char" THEN {0, 1} ELSE {1}

\* One wrapper call: JtsC's TryCall for the main thread, then the tester.
Call(ins) ==
  \E exc \in Raises(ins), r \in Results(ins) :
    /\ TryCall(Main, ins.fn, KindOf(ins.op),
               \/ ins.op \in {"fromWKT", "fromWKB"}
               \/ env[ins.a] # "NULL" /\ env[ins.b] # "NULL",
               exc, r)
    /\ \/ exc = "NPE" /\ UNCHANGED tvars
       \/ exc = "none" /\ Continue(ins, r)
       \/ exc = "exc" /\ \E m \in Messages :
                           Report(m, Continue(ins, Sentinel[KindOf(ins.op)]))

-----------------------------------------------------------------------------
(* main() and do_all()                                                     *)

TesterInit ==
  /\ Init
  /\ cmd \in [argc : Argcs, count : NArgs, file : Inputs]
  /\ mline = "start" /\ line = 0 /\ i = 0 /\ n = 0
  /\ env = [x \in Locals |-> "undef"]
  /\ exitCode = -1 /\ ccrash = FALSE /\ bad = FALSE

\* initJTS(notice, log_and_exit), the test of jtsGeomFactory
MainInitCheck ==
  /\ mline = "start" /\ ~inited[Main]
  /\ InitJTSCheck(Main) /\ UNCHANGED tvars

\* initJTS, the rest
MainInit ==
  /\ mline = "start"
  /\ InitJTS(Main)
  /\ mline' = "version" /\ UNCHANGED <<cmd, line, i, n, env, exitCode, ccrash, bad>>

\* printf("JTS version %s\n", JTSversion())
MainVersion ==
  /\ mline = "version"
  /\ JTSversion(Main)
  /\ mline' = "args" /\ UNCHANGED <<cmd, line, i, n, env, exitCode, ccrash, bad>>

\* if (argc < 2) usage(argv[0]); if (argc > 2) n = atoi(argv[2]); if (!n) n = 1;
MainArgs ==
  /\ mline = "args" /\ Alive
  /\ \/ cmd.argc < 2 /\ Exit(1)
     \/ /\ cmd.argc >= 2
        /\ n' = LET k == IF cmd.argc > 2 THEN cmd.count ELSE 1
                IN IF k = 0 THEN 1 ELSE k
        /\ i' = 0 /\ mline' = "loop"
        /\ UNCHANGED <<cmd, line, env, exitCode, ccrash, bad>>
  /\ UNCHANGED vars

\* Mutant: the loop test written i <= n.
MainLoopInclusive ==
  /\ mline = "loop" /\ Alive
  /\ \/ i <= n /\ mline' = "open" /\ UNCHANGED <<cmd, line, i, n, env, exitCode, ccrash, bad>>
     \/ i > n /\ mline' = "returned" /\ exitCode' = i % 256
        /\ UNCHANGED <<cmd, line, i, n, env, ccrash, bad>>
  /\ UNCHANGED vars

\* for (i = 0; i < n; i++) do_all(argv[1]);  return i;
MainLoop ==
  /\ mline = "loop" /\ Alive
  /\ \/ i < n /\ mline' = "open" /\ UNCHANGED <<cmd, line, i, n, env, exitCode, ccrash, bad>>
     \/ i >= n /\ mline' = "returned" /\ exitCode' = i % 256
        /\ UNCHANGED <<cmd, line, i, n, env, ccrash, bad>>
  /\ UNCHANGED vars

\* input = fopen(inputfile, "r"); if (!input) { perror("fopen"); exit(1); }
\* fread(wkt, ...); fclose(input);
DoAllOpen ==
  /\ mline = "open" /\ Alive
  /\ \/ cmd.file = "missing" /\ Exit(1)
     \/ /\ cmd.file # "missing"
        /\ mline' = "body" /\ line' = 1 /\ env' = [x \in Locals |-> "undef"]
        /\ UNCHANGED <<cmd, i, n, exitCode, ccrash, bad>>
  /\ UNCHANGED vars

\* The next wrapper call of do_all.
DoAllStep ==
  /\ mline = "body" /\ line \in 1..Len(Program) /\ Alive
  /\ ~(Program[line].op = "pattern" /\ env.ptr = "NULL")
  /\ Call(Program[line])

\* JTSRelatePattern(g1, g2, ptr) with ptr = NULL: "string s = pat" builds a
\* std::string from NULL before any Java code runs; that is not a Throwable
\* and no catch block takes it.
DoAllNullPattern ==
  /\ mline = "body" /\ line \in 1..Len(Program) /\ Alive
  /\ Program[line].op = "pattern" /\ env.ptr = "NULL"
  /\ ccrash' = TRUE
  /\ UNCHANGED <<vars, cmd, mline, line, i, n, env, exitCode, bad>>

\* return 0 from do_all; i++
DoAllReturn ==
  /\ mline = "body" /\ line = Len(Program) + 1 /\ Alive
  /\ mline' = "loop" /\ i' = i + 1
  /\ UNCHANGED <<vars, cmd, line, n, env, exitCode, ccrash, bad>>

TesterNext ==
  \/ MainInitCheck \/ MainInit \/ MainVersion \/ MainArgs \/ MainLoop
  \/ DoAllOpen \/ DoAllStep \/ DoAllNullPattern \/ DoAllReturn

TesterSpec == TesterInit /\ [][TesterNext]_allvars

-----------------------------------------------------------------------------
(* Properties                                                              *)

\* Every line the tester prints and every check it passes reflects a value
\* a wrapper really computed: no NULL string or unassigned WKB size is
\* printed, and no error result (2) is taken as a predicate or a passed
\* check (jtstest.c:100-189 relying on log_and_exit to stop the run).
OutputFaithful == ~bad

\* The tester never dies of a crash: no exception escapes a wrapper, no
\* NULL reaches C code that dereferences it, and log_and_exit never runs
\* into undefined behaviour.
TesterNeverCrashes == crash = NoCrash /\ ~ccrash

\* The tester never makes a wrapper die: main is attached by its own
\* initJTS before its first call, the callbacks are set, no NULL handle
\* reaches the library and no exception escapes (jtstest.c:100-198).  A
\* C crash of log_and_exit's own (a "%" message) is not a wrapper crash.
WrapperNeverCrashes == crash = NoCrash

\* When main returns, its exit status says success (0) exactly when at
\* least one round of tests ran to the end (jtstest.c:213 "return i").
ExitStatusReportsResult == mline = "returned" => (exitCode = 0 <=> i >= 1)

\* What main's status really is: "return i" after "for (i=0; i<n; i++)"
\* returns the round count when it is positive and 0 otherwise, and the
\* process keeps only its low 8 bits (jtstest.c:203-213), whatever the
\* rounds did in between.
ReturnsRoundCount ==
  mline = "returned" => exitCode = (IF n > 0 THEN n ELSE 0) % 256

=============================================================================
