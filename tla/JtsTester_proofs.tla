--------------------------- MODULE JtsTester_proofs ---------------------------
(***************************************************************************)
(* Proofs about the tester (module JtsTester) for every input file, every  *)
(* command line and every round count.  The absence of wrapper crashes    *)
(* assumes a contract on the exception messages the library raises; the   *)
(* exit status holds for every message.                                    *)
(***************************************************************************)
EXTENDS JtsTester, TLAPS

\* log_and_exit never returns: no message formats to the empty string, so
\* "!vasprintf" is never true (a "%" message is undefined behaviour, which
\* exits or crashes, but returns nothing to the wrapper).
HandlerNeverReturns == "empty" \notin Messages

-----------------------------------------------------------------------------
(* The handler never returns to a wrapper.                                 *)

\* The messages that reach the handler are text or "%".
LEMMA HandlerMessages ==
  ASSUME HandlerNeverReturns PROVE Messages \subseteq {"text", "percent"}
BY TesterAssumption DEF HandlerNeverReturns

-----------------------------------------------------------------------------
(* No wrapper crashes while log_and_exit never returns.  This is not     *)
(* inductive as it stands: a call crashes when Main is detached, when no  *)
(* callbacks are registered or when a NULL local reaches the library.     *)
(* CInv adds that no local is ever NULL and that Main is attached, with   *)
(* its own callbacks registered, from the moment main() leaves initJTS;   *)
(* before that, main is on initJTS's creating branch, since nobody else   *)
(* has created the factory.  The only C crash left is vasprintf on a "%"  *)
(* message.                                                                *)

CInv ==
  /\ crash = NoCrash
  /\ ccrash => "percent" \in Messages
  /\ pc \in [Threads -> {"idle", "initBranch", "initSkip"}]
  /\ env \in [Locals -> {"undef", "set"}]
  /\ mline = "start" => ~factory /\ pc[Main] \in {"idle", "initBranch"}
  /\ mline # "start" => Main \in attached /\ handlers = Main

\* main() runs on a host thread.
LEMMA MainThread == Main \in Threads
BY ThreadsAssumption DEF Main

\* Every statement of do_all reads two of its locals.
LEMMA ProgramArgs ==
  \A k \in 1..Len(Program) : Program[k].a \in Locals /\ Program[k].b \in Locals
<1>1. Len(Program) = 38
  BY DEF Program
<1>2. \A k \in 1..38 : Program[k].a \in Locals /\ Program[k].b \in Locals
  BY DEF Program, I, Locals
<1>3. QED
  BY <1>1, <1>2

\* A local that is not NULL reaches the library as a geometry.
LEMMA NonNullHandle ==
  ASSUME NEW x \in {"undef", "set"} PROVE H(x) # NullHandle
BY DEF H, NullHandle, AnyGeom

\* A wrapper call of do_all, made by the attached main thread with the
\* handlers set and with no NULL local, neither crashes nor makes a local
\* NULL: every failure goes through log_and_exit, which exits.
LEMMA CallSafe ==
  ASSUME HandlerNeverReturns, CInv, mline = "body",
         NEW ins, ins.a \in Locals, ins.b \in Locals, Call(ins)
  PROVE  CInv'
<1>1. Main \in attached /\ handlers = Main
  BY DEF CInv
<1>2. PICK exc \in Raises(ins), r \in Results(ins) :
        /\ TryCall(Main, ins.fn, KindOf(ins.op),
                   \/ ins.op \in {"fromWKT", "fromWKB"}
                   \/ env[ins.a] # "NULL" /\ env[ins.b] # "NULL",
                   exc, r)
        /\ \/ exc = "NPE" /\ UNCHANGED tvars
           \/ exc = "none" /\ Continue(ins, r)
           \/ exc = "exc" /\ \E m \in Messages :
                               Report(m, Continue(ins, Sentinel[KindOf(ins.op)]))
  BY DEF Call
<1>3. exc \in {"none", "exc"}
  <2>1. H(env[ins.a]) # NullHandle /\ H(env[ins.b]) # NullHandle
    BY NonNullHandle DEF CInv
  <2>2. QED
    BY <2>1 DEF Raises, LibRaises, GetterRaises
<1>4. UNCHANGED <<factory, handlers, attached, pc, inited, crash>>
  <2>1. Registered
    BY <1>1, MainThread, ThreadsAssumption DEF Registered, NoHandlers
  <2>2. QED
    BY <1>1, <1>2, <1>3, <2>1 DEF TryCall, CatchThrowable, Return
<1>5. r = 1 \/ KindOf(ins.op) = "char"
  BY DEF Results
<1>6. CASE exc = "none"
  <2>1. Continue(ins, r)
    BY <1>2, <1>6
  <2>2. ccrash' = ccrash /\ mline' = mline
    BY <1>5, <2>1 DEF Continue, KindOf, Report, LogAndExit, Exit
  <2>3. env' \in [Locals -> {"undef", "set"}]
    BY <1>5, <2>1 DEF Continue, KindOf, Report, LogAndExit, Exit, CInv
  <2>4. QED
    BY <1>4, <2>2, <2>3 DEF CInv
<1>7. CASE exc = "exc"
  <2>1. PICK m \in Messages : Report(m, Continue(ins, Sentinel[KindOf(ins.op)]))
    BY <1>2, <1>7
  <2>2. m \in {"text", "percent"}
    BY HandlerMessages
  <2>3. UNCHANGED <<mline, env>> /\ (ccrash' = ccrash \/ ccrash' = TRUE)
    BY <2>1, <2>2 DEF Report, LogAndExit, Exit
  <2>4. ccrash' => "percent" \in Messages
    <3>1. CASE m = "text"
      BY <2>1, <3>1 DEF Report, LogAndExit, Exit, CInv
    <3>2. CASE m = "percent"
      BY <2>1, <3>2 DEF CInv
    <3>3. QED
      BY <2>2, <3>1, <3>2
  <2>5. QED
    BY <1>4, <2>3, <2>4 DEF CInv
<1>8. QED
  BY <1>3, <1>6, <1>7

\* The tester's initial state satisfies CInv.
LEMMA InitCInv == TesterInit => CInv
<1> SUFFICES ASSUME TesterInit PROVE CInv
  OBVIOUS
<1>1. crash = NoCrash /\ ccrash = FALSE
  BY DEF TesterInit, Init
<1>2. pc \in [Threads -> {"idle", "initBranch", "initSkip"}] /\ ~factory
  BY DEF TesterInit, Init
<1>3. env \in [Locals -> {"undef", "set"}] /\ mline = "start"
  BY DEF TesterInit
<1>4. pc[Main] = "idle"
  BY MainThread DEF TesterInit, Init
<1>5. QED
  BY <1>1, <1>2, <1>3, <1>4 DEF CInv

\* A step that leaves the wrapper state, the C crash flag and the locals
\* alone, and does not enter or leave the start of main(), keeps CInv.
LEMMA CInvFrame ==
  ASSUME CInv,
         UNCHANGED <<factory, handlers, attached, pc, crash, ccrash, env>>,
         mline' = mline \/ (mline # "start" /\ mline' # "start")
  PROVE  CInv'
BY DEF CInv

\* Every step of the tester preserves CInv.
LEMMA NextCInv ==
  ASSUME HandlerNeverReturns, CInv, [TesterNext]_allvars
  PROVE  CInv'
<1>1. Main \in Threads
  BY MainThread
<1>2. CASE MainInitCheck
  <2>1. mline = "start" /\ ~factory
    BY <1>2 DEF MainInitCheck, CInv
  <2>2. pc' = [pc EXCEPT ![Main] = "initBranch"]
    BY <1>2, <2>1 DEF MainInitCheck, InitJTSCheck
  <2>3. UNCHANGED <<factory, handlers, attached, crash, ccrash, env, mline>>
    BY <1>2 DEF MainInitCheck, InitJTSCheck, tvars
  <2>4. QED
    BY <1>1, <2>1, <2>2, <2>3 DEF CInv, TesterNeverCrashes
<1>3. CASE MainInit
  <2>1. mline = "start" /\ pc[Main] = "initBranch"
    BY <1>3 DEF MainInit, InitJTS, CInv
  <2>2. Main \in attached' /\ handlers' = Main /\ mline' = "version"
    BY <1>3, <2>1 DEF MainInit, InitJTS
  <2>3. pc' = [pc EXCEPT ![Main] = "idle"]
    BY <1>3 DEF MainInit, InitJTS
  <2>4. UNCHANGED <<crash, ccrash, env>>
    BY <1>3 DEF MainInit, InitJTS
  <2>5. QED
    BY <1>1, <2>2, <2>3, <2>4 DEF CInv, TesterNeverCrashes
<1>4. CASE MainVersion
  <2>1. Main \in attached /\ mline = "version"
    BY <1>4 DEF MainVersion, CInv
  <2>2. UNCHANGED <<factory, handlers, attached, pc, crash, ccrash, env>>
    BY <1>4, <2>1 DEF MainVersion, JTSversion, UntriedCall, Return
  <2>3. mline' = "args"
    BY <1>4 DEF MainVersion
  <2>4. QED
    BY <2>1, <2>2, <2>3, CInvFrame
<1>5. CASE MainArgs
  <2>1. UNCHANGED <<factory, handlers, attached, pc, crash, ccrash, env>>
    BY <1>5 DEF MainArgs, Exit, vars
  <2>2. mline = "args" /\ mline' \in {"args", "loop"}
    BY <1>5 DEF MainArgs, Exit
  <2>3. QED
    BY <2>1, <2>2, CInvFrame
<1>6. CASE MainLoop
  <2>1. UNCHANGED <<factory, handlers, attached, pc, crash, ccrash, env>>
    BY <1>6 DEF MainLoop, vars
  <2>2. mline = "loop" /\ mline' \in {"open", "returned"}
    BY <1>6 DEF MainLoop
  <2>3. QED
    BY <2>1, <2>2, CInvFrame
<1>7. CASE DoAllOpen
  <2>1. UNCHANGED <<factory, handlers, attached, pc, crash, ccrash>>
    BY <1>7 DEF DoAllOpen, Exit, vars
  <2>2. mline = "open" /\ mline' \in {"open", "body"}
    BY <1>7 DEF DoAllOpen, Exit
  <2>3. env' \in [Locals -> {"undef", "set"}]
    BY <1>7 DEF DoAllOpen, Exit, CInv
  <2>4. QED
    BY <2>1, <2>2, <2>3 DEF CInv, TesterNeverCrashes
<1>8. CASE DoAllStep
  <2>1. line \in 1..Len(Program) /\ Call(Program[line]) /\ mline = "body"
    BY <1>8 DEF DoAllStep
  <2>2. Program[line].a \in Locals /\ Program[line].b \in Locals
    BY <2>1, ProgramArgs
  <2>3. QED
    BY <2>1, <2>2, CallSafe
<1>9. CASE DoAllNullPattern
  <2>1. env.ptr = "NULL" /\ env \in [Locals -> {"undef", "set"}]
    BY <1>9 DEF DoAllNullPattern, CInv
  <2>2. QED
    BY <2>1 DEF Locals
<1>10. CASE DoAllReturn
  <2>1. UNCHANGED <<factory, handlers, attached, pc, crash, ccrash, env>>
    BY <1>10 DEF DoAllReturn, vars
  <2>2. mline = "body" /\ mline' = "loop"
    BY <1>10 DEF DoAllReturn
  <2>3. QED
    BY <2>1, <2>2, CInvFrame
<1>11. CASE UNCHANGED allvars
  <2>1. UNCHANGED <<factory, handlers, attached, pc, crash, ccrash, env, mline>>
    BY <1>11 DEF allvars, vars, tvars
  <2>2. QED
    BY <2>1, CInvFrame
<1>12. QED
  BY <1>2, <1>3, <1>4, <1>5, <1>6, <1>7, <1>8, <1>9, <1>10, <1>11 DEF TesterNext

\* CInv holds in every state while log_and_exit never returns.
LEMMA AlwaysCInv ==
  ASSUME HandlerNeverReturns PROVE TesterSpec => []CInv
<1>1. TesterInit => CInv
  BY InitCInv
<1>2. CInv /\ [TesterNext]_allvars => CInv'
  BY NextCInv
<1>3. QED
  BY <1>1, <1>2, PTL DEF TesterSpec

\* For every input file, command line, round count and number of host
\* threads: as long as log_and_exit never returns to a wrapper, no wrapper
\* call of the tester dies -- main() is attached by its own initJTS, every
\* NULL a wrapper returns is caught by a check before it reaches another
\* call, and no exception escapes a wrapper.
THEOREM NoWrapperCrash ==
  ASSUME HandlerNeverReturns PROVE TesterSpec => []WrapperNeverCrashes
<1>1. CInv => WrapperNeverCrashes
  BY DEF CInv, WrapperNeverCrashes
<1>2. QED
  BY <1>1, AlwaysCInv, PTL

-----------------------------------------------------------------------------
(* RefInv: the command line is well typed, i and n are integers, both are *)
(* 0 until the arguments are parsed, nothing has exited before that, and  *)
(* a round is entered only with i < n.                                     *)

SetupLines == {"start", "version", "args"}
RoundLines == {"loop", "open", "body"}

RefInv ==
  /\ cmd \in [argc : Argcs, count : NArgs, file : Inputs]
  /\ i \in Int /\ n \in Int
  /\ mline \in SetupLines \cup RoundLines \cup {"returned"}
  /\ mline \in SetupLines => i = 0 /\ n = 0
  /\ mline \in {"start", "version"} => exitCode = -1 /\ ~ccrash
  /\ mline \in {"open", "body"} => i < n

\* What do_all does after a call leaves the command line, main's line and
\* its counters alone.
LEMMA ContinueKeeps ==
  ASSUME NEW ins, NEW v, Continue(ins, v)
  PROVE  UNCHANGED <<cmd, mline, i, n>>
BY DEF Continue, Report, Exit, Next1

\* So does a whole wrapper call, whatever the handler does.
LEMMA CallKeeps ==
  ASSUME NEW ins, Call(ins)
  PROVE  UNCHANGED <<cmd, mline, i, n>>
<1>1. PICK exc \in Raises(ins), r \in Results(ins) :
        \/ exc = "NPE" /\ UNCHANGED tvars
        \/ exc = "none" /\ Continue(ins, r)
        \/ exc = "exc" /\ \E m \in Messages :
                            Report(m, Continue(ins, Sentinel[KindOf(ins.op)]))
  BY DEF Call
<1>2. CASE exc = "NPE" /\ UNCHANGED tvars
  BY <1>2 DEF tvars
<1>3. CASE exc = "none" /\ Continue(ins, r)
  BY <1>3, ContinueKeeps
<1>4. CASE exc = "exc" /\ \E m \in Messages :
                            Report(m, Continue(ins, Sentinel[KindOf(ins.op)]))
  <2>1. PICK m \in Messages : Report(m, Continue(ins, Sentinel[KindOf(ins.op)]))
    BY <1>4
  <2>2. CASE Continue(ins, Sentinel[KindOf(ins.op)])
    BY <2>2, ContinueKeeps
  <2>3. CASE ~Continue(ins, Sentinel[KindOf(ins.op)])
    BY <2>1, <2>3 DEF Report, Exit
  <2>4. QED
    BY <2>2, <2>3
<1>5. QED
  BY <1>1, <1>2, <1>3, <1>4

LEMMA InitRefInv == TesterInit => RefInv
BY DEF TesterInit, RefInv, SetupLines

\* Every step of the tester preserves RefInv.
LEMMA NextRefInv ==
  ASSUME RefInv, [TesterNext]_allvars
  PROVE  RefInv'
<1> USE TesterAssumption
<1>1. CASE MainInitCheck \/ MainInit \/ MainVersion
  <2>1. UNCHANGED <<cmd, i, n, exitCode, ccrash>>
    BY <1>1 DEF MainInitCheck, MainInit, MainVersion, tvars
  <2>2. mline \in {"start", "version"} /\ mline' \in SetupLines
    BY <1>1 DEF MainInitCheck, MainInit, MainVersion, SetupLines, tvars
  <2>3. QED
    BY <2>1, <2>2 DEF RefInv, SetupLines
<1>2. CASE MainArgs
  <2>1. CASE cmd.argc < 2 /\ Exit(1)
    BY <1>2, <2>1 DEF MainArgs, Exit, RefInv, SetupLines
  <2>2. CASE cmd.argc >= 2 /\ n' = (LET k == IF cmd.argc > 2 THEN cmd.count ELSE 1
                                    IN IF k = 0 THEN 1 ELSE k)
             /\ i' = 0 /\ mline' = "loop" /\ UNCHANGED cmd
    <3>1. cmd.count \in Int
      BY DEF RefInv
    <3>2. n' \in Int
      BY <2>2, <3>1
    <3>3. QED
      BY <2>2, <3>2 DEF RefInv, SetupLines, RoundLines
  <2>3. QED
    BY <1>2, <2>1, <2>2 DEF MainArgs
<1>3. CASE MainLoop
  BY <1>3 DEF MainLoop, RefInv, SetupLines, RoundLines
<1>4. CASE DoAllOpen
  BY <1>4 DEF DoAllOpen, Exit, RefInv, SetupLines, RoundLines
<1>5. CASE DoAllStep
  <2>1. UNCHANGED <<cmd, mline, i, n>> /\ mline = "body"
    BY <1>5, CallKeeps DEF DoAllStep
  <2>2. QED
    BY <2>1 DEF RefInv, SetupLines
<1>6. CASE DoAllNullPattern \/ DoAllReturn \/ UNCHANGED allvars
  BY <1>6 DEF DoAllNullPattern, DoAllReturn, allvars, tvars, RefInv,
              SetupLines, RoundLines
<1>7. QED
  BY <1>1, <1>2, <1>3, <1>4, <1>5, <1>6 DEF TesterNext

-----------------------------------------------------------------------------
(* main's status is the round count mod 256.  ReturnsRoundCount is not     *)
(* inductive: it needs the loop invariant of "for (i=0; i<n; i++)" --     *)
(* inside the loop 0 <= i, i never passes a positive n and stays 0 for a  *)
(* negative one -- so that i = n or 0 when the test fails, and RefInv for *)
(* the counters' types and for i < n inside a round.                      *)

RoundCount == IF n > 0 THEN n ELSE 0

CountInv ==
  /\ RefInv
  /\ mline \in RoundLines => 0 <= i /\ i <= RoundCount
  /\ mline = "returned" => i = RoundCount /\ exitCode = i % 256

LEMMA InitCountInv == TesterInit => CountInv
BY InitRefInv DEF TesterInit, CountInv, RoundLines

\* Every step of the tester preserves CountInv.
LEMMA NextCountInv ==
  ASSUME CountInv, [TesterNext]_allvars
  PROVE  CountInv'
<1> USE TesterAssumption
<1>1. RefInv'
  BY NextRefInv DEF CountInv
<1>2. i \in Int /\ n \in Int
  BY DEF CountInv, RefInv
<1>3. CASE MainInitCheck \/ MainInit \/ MainVersion
  <2>1. mline' \in SetupLines
    BY <1>3 DEF MainInitCheck, MainInit, MainVersion, SetupLines, tvars
  <2>2. QED
    BY <1>1, <2>1 DEF CountInv, SetupLines, RoundLines
<1>4. CASE MainArgs
  <2>1. CASE cmd.argc < 2 /\ Exit(1)
    BY <1>1, <1>4, <2>1 DEF MainArgs, Exit, CountInv, RoundLines
  <2>2. CASE cmd.argc >= 2 /\ n' = (LET k == IF cmd.argc > 2 THEN cmd.count ELSE 1
                                    IN IF k = 0 THEN 1 ELSE k)
             /\ i' = 0 /\ mline' = "loop"
    <3>1. n' \in Int
      BY <1>1 DEF RefInv
    <3>2. 0 <= i' /\ i' <= RoundCount'
      BY <2>2, <3>1 DEF RoundCount
    <3>3. QED
      BY <1>1, <2>2, <3>2 DEF CountInv
  <2>3. QED
    BY <1>4, <2>1, <2>2 DEF MainArgs
<1>5. CASE MainLoop
  <2>1. mline = "loop" /\ 0 <= i /\ i <= RoundCount
    BY <1>5 DEF MainLoop, CountInv, RoundLines
  <2>2. CASE i < n /\ mline' = "open" /\ UNCHANGED <<i, n>>
    BY <1>1, <2>1, <2>2 DEF CountInv, RoundLines, RoundCount
  <2>3. CASE i >= n /\ mline' = "returned" /\ exitCode' = i % 256 /\ UNCHANGED <<i, n>>
    <3>1. i = RoundCount
      BY <1>2, <2>1, <2>3 DEF RoundCount
    <3>2. i' = RoundCount' /\ exitCode' = i' % 256
      BY <2>3, <3>1 DEF RoundCount
    <3>3. QED
      BY <1>1, <2>3, <3>2 DEF CountInv, RoundLines
  <2>4. QED
    BY <1>5, <2>2, <2>3 DEF MainLoop
<1>6. CASE DoAllOpen
  BY <1>1, <1>6 DEF DoAllOpen, Exit, CountInv, RoundLines, RoundCount
<1>7. CASE DoAllStep
  <2>1. UNCHANGED <<mline, i, n>> /\ mline = "body"
    BY <1>7, CallKeeps DEF DoAllStep
  <2>2. QED
    BY <1>1, <2>1 DEF CountInv, RoundCount
<1>8. CASE DoAllNullPattern
  BY <1>1, <1>8 DEF DoAllNullPattern, CountInv, RoundCount
<1>9. CASE DoAllReturn
  <2>1. mline = "body" /\ mline' = "loop" /\ i' = i + 1 /\ n' = n
    BY <1>9 DEF DoAllReturn
  <2>2. i < n /\ 0 <= i
    BY <2>1 DEF CountInv, RefInv, RoundLines
  <2>3. 0 <= i' /\ i' <= RoundCount'
    BY <1>2, <2>1, <2>2 DEF RoundCount
  <2>4. QED
    BY <1>1, <2>1, <2>3 DEF CountInv, RoundLines
<1>10. CASE UNCHANGED allvars
  BY <1>1, <1>10 DEF allvars, tvars, CountInv, RoundCount
<1>11. QED
  BY <1>3, <1>4, <1>5, <1>6, <1>7, <1>8, <1>9, <1>10 DEF TesterNext

\* For every input file, command line, round count and message: when main
\* returns, its status is the round count it parsed, reduced mod 256, or 0
\* when the count is negative -- 256 rounds exit with 0, as do none.
THEOREM ExitStatusIsRoundCount == TesterSpec => []ReturnsRoundCount
<1>1. TesterSpec => []CountInv
  BY InitCountInv, NextCountInv, PTL DEF TesterSpec
<1>2. CountInv => ReturnsRoundCount
  BY DEF CountInv, ReturnsRoundCount, RoundCount
<1>3. QED
  BY <1>1, <1>2, PTL

=============================================================================
