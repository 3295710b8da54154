----------------------------- MODULE JtsC_proofs -----------------------------
(***************************************************************************)
(* Proofs about the wrapper's call surface (module JtsC), for every set of *)
(* host threads.  IInv is inductive: every wrapper either returns a record *)
(* whose value agrees with its outcome, or crashes for a reason that a     *)
(* well-formed call of an initialised thread cannot meet.                  *)
(***************************************************************************)
EXTENDS JtsC, TLAPS

-----------------------------------------------------------------------------
(* The helpers every wrapper is built from preserve IInv, given what the   *)
(* wrapper passes them.                                                    *)

\* A wrapper that returns keeps the invariant when its value is the
\* sentinel exactly on the error path.
LEMMA ReturnStep ==
  ASSUME IInv, NEW t \in Threads, NEW fn \in Fns, NEW kind \in Kinds,
         NEW wf \in BOOLEAN, NEW out \in Outs, NEW ret \in -1..7,
         kind \in {"char", "ptr"} /\ out # "ub"
           => (out = "error" <=> ret = Sentinel[kind]),
         Return(t, fn, kind, wf, out, ret)
  PROVE  IInv'
<1>1. TypeOK'
  BY DEF IInv, TypeOK, Return, CallRecord, NoHandlers
<1>2. HandlersRegistered' /\ ContractCallsNeverCrash'
  BY DEF IInv, HandlersRegistered, Registered, NoHandlers, ContractCallsNeverCrash, Return
<1>3. ErrorIffSentinel'
  BY DEF IInv, TypeOK, ErrorIffSentinel, Return
<1>4. QED
  BY <1>1, <1>2, <1>3 DEF IInv

\* A crash keeps the invariant unless a well-formed call of an initialised
\* thread dies for a reason other than a missing VM attachment.
LEMMA CrashStep ==
  ASSUME IInv, NEW t \in Threads, NEW fn \in Fns, NEW wf \in BOOLEAN,
         NEW reason \in CrashReasons,
         reason \in {"nullHandler", "uncaught", "undefined"}
           => ~(wf /\ inited[t]),
         Crash(t, fn, wf, reason)
  PROVE  IInv'
<1>1. TypeOK'
  BY DEF IInv, TypeOK, Crash, CrashRecord, CrashReasons
<1>2. ContractCallsNeverCrash'
  BY DEF Crash, ContractCallsNeverCrash
<1>3. HandlersRegistered' /\ ErrorIffSentinel'
  BY DEF IInv, HandlersRegistered, Registered, NoHandlers, ErrorIffSentinel, Crash
<1>4. QED
  BY <1>1, <1>2, <1>3 DEF IInv

\* The catch block: only an exception with a null message escapes, and
\* only a NULL handle raises one.
LEMMA CatchStep ==
  ASSUME IInv, NEW t \in Threads, NEW fn \in Fns, NEW kind \in Kinds,
         NEW wf \in BOOLEAN, NEW exc \in Exceptions,
         exc = "NPE" => ~wf,
         CatchThrowable(t, fn, kind, wf, exc)
  PROVE  IInv'
<1>1. CASE exc = "NPE" /\ Crash(t, fn, wf, "uncaught")
  BY <1>1, CrashStep DEF CrashReasons
<1>2. CASE exc = "exc" /\ ~Registered /\ Crash(t, fn, wf, "nullHandler")
  <2>1. ~inited[t]
    BY <1>2 DEF IInv, HandlersRegistered
  <2>2. QED
    BY <1>2, <2>1, CrashStep DEF CrashReasons
<1>3. CASE exc = "exc" /\ Registered /\ Return(t, fn, kind, wf, "error", Sentinel[kind])
  <2>1. Sentinel[kind] \in -1..7
    BY DEF Sentinel, Kinds
  <2>2. QED
    BY <1>3, <2>1, ReturnStep DEF Outs
<1>4. QED
  BY <1>1, <1>2, <1>3 DEF CatchThrowable

\* A call inside a try block.
LEMMA TryStep ==
  ASSUME IInv, NEW t \in Threads, NEW fn \in Fns, NEW kind \in Kinds,
         NEW wf \in BOOLEAN, NEW exc \in Exceptions, NEW ret \in -1..7,
         exc = "NPE" => ~wf,
         exc = "none" /\ kind \in {"char", "ptr"} => ret # Sentinel[kind],
         TryCall(t, fn, kind, wf, exc, ret)
  PROVE  IInv'
<1>1. CASE t \notin attached /\ Crash(t, fn, wf, "detached")
  BY <1>1, CrashStep DEF CrashReasons
<1>2. CASE t \in attached /\ exc = "none" /\ Return(t, fn, kind, wf, "ok", ret)
  BY <1>2, ReturnStep DEF Outs
<1>3. CASE t \in attached /\ exc # "none" /\ CatchThrowable(t, fn, kind, wf, exc)
  BY <1>3, CatchStep
<1>4. QED
  BY <1>1, <1>2, <1>3 DEF TryCall

\* A call outside any try block: it may only raise on ill-formed input.
LEMMA UntriedStep ==
  ASSUME IInv, NEW t \in Threads, NEW fn \in Fns, NEW kind \in Kinds,
         NEW wf \in BOOLEAN, NEW exc \in Exceptions, NEW ret \in -1..7,
         exc # "none" => ~wf,
         exc = "none" /\ kind \in {"char", "ptr"} => ret # Sentinel[kind],
         UntriedCall(t, fn, kind, wf, exc, ret)
  PROVE  IInv'
<1>1. CASE t \notin attached /\ Crash(t, fn, wf, "detached")
  BY <1>1, CrashStep DEF CrashReasons
<1>2. CASE t \in attached /\ exc = "none" /\ Return(t, fn, kind, wf, "ok", ret)
  BY <1>2, ReturnStep DEF Outs
<1>3. CASE t \in attached /\ exc # "none" /\ Crash(t, fn, wf, "uncaught")
  BY <1>3, CrashStep DEF CrashReasons
<1>4. QED
  BY <1>1, <1>2, <1>3 DEF UntriedCall


-----------------------------------------------------------------------------
(* The initial state and the steps.                                        *)

LEMMA InitIInv == Init => IInv
<1> SUFFICES ASSUME Init PROVE IInv
  OBVIOUS
<1>1. NoCall \in CallRecord
  BY DEF NoCall, CallRecord, Fns, Kinds, Outs
<1>2. NoCrash \in CrashRecord
  BY DEF NoCrash, CrashRecord, Fns, CrashReasons
<1>3. TypeOK
  BY <1>1, <1>2 DEF Init, TypeOK
<1>4. HandlersRegistered /\ ContractCallsNeverCrash /\ ErrorIffSentinel
  BY DEF Init, HandlersRegistered, Registered, NoHandlers, ContractCallsNeverCrash, ErrorIffSentinel,
         NoCall, NoCrash
<1>5. QED
  BY <1>3, <1>4 DEF IInv

LEMMA NextIInv == IInv /\ [Next]_vars => IInv'
<1> SUFFICES ASSUME IInv, [Next]_vars PROVE IInv'
  OBVIOUS
<1>1. ASSUME NEW t \in Threads, InitJTSCheck(t) PROVE IInv'
  BY <1>1 DEF InitJTSCheck, IInv, TypeOK, HandlersRegistered, Registered, NoHandlers,
              ContractCallsNeverCrash, ErrorIffSentinel
<1>2. ASSUME NEW t \in Threads, InitJTS(t) PROVE IInv'
  BY <1>2, ThreadsAssumption DEF InitJTS, IInv, TypeOK, HandlersRegistered, Registered, NoHandlers,
              ContractCallsNeverCrash, ErrorIffSentinel
<1>3. ASSUME NEW t \in Threads, FinishJTS(t) PROVE IInv'
  BY <1>3 DEF FinishJTS, IInv, TypeOK, HandlersRegistered, Registered, NoHandlers,
              ContractCallsNeverCrash, ErrorIffSentinel
<1>4. ASSUME NEW t \in Threads, JTSPredicate(t) PROVE IInv'
  <2>1. PICK a \in {NullHandle, AnyGeom}, b \in {NullHandle, AnyGeom} :
               \E exc \in LibRaises({a, b}), r \in {0, 1} :
                 TryCall(t, "JTSPredicate", "char", NullHandle \notin {a, b}, exc, r)
    BY <1>4 DEF JTSPredicate
  <2>2. PICK exc \in LibRaises({a, b}), r \in {0, 1} :
               TryCall(t, "JTSPredicate", "char", NullHandle \notin {a, b}, exc, r)
    BY <2>1
  <2>3. /\ "JTSPredicate" \in Fns /\ "char" \in Kinds
        /\ (NullHandle \notin {a, b}) \in BOOLEAN
        /\ exc \in Exceptions /\ r \in -1..7
        /\ exc = "NPE" => ~(NullHandle \notin {a, b})
        /\ exc = "none" /\ "char" \in {"char", "ptr"} => r # Sentinel["char"]
    BY DEF Fns, Kinds, LibRaises, Exceptions, Sentinel
  <2>4. QED
    BY <2>2, <2>3, TryStep
<1>5. ASSUME NEW t \in Threads, JTSRelate(t) PROVE IInv'
  <2>1. PICK a \in {NullHandle, AnyGeom}, b \in {NullHandle, AnyGeom} :
               \E exc \in LibRaises({a, b}) :
                 TryCall(t, "JTSRelate", "ptr", NullHandle \notin {a, b}, exc, 1)
    BY <1>5 DEF JTSRelate
  <2>2. PICK exc \in LibRaises({a, b}) :
               TryCall(t, "JTSRelate", "ptr", NullHandle \notin {a, b}, exc, 1)
    BY <2>1
  <2>3. /\ "JTSRelate" \in Fns /\ "ptr" \in Kinds
        /\ (NullHandle \notin {a, b}) \in BOOLEAN
        /\ exc \in Exceptions /\ 1 \in -1..7
        /\ exc = "NPE" => ~(NullHandle \notin {a, b})
        /\ exc = "none" /\ "ptr" \in {"char", "ptr"} => 1 # Sentinel["ptr"]
    BY DEF Fns, Kinds, LibRaises, Exceptions, Sentinel
  <2>4. QED
    BY <2>2, <2>3, TryStep
<1>6. ASSUME NEW t \in Threads, JTSisRing(t) PROVE IInv'
  <2>1. PICK a \in Handles : \E exc \in LibRaises({a}), r \in {0, 1} :
               TryCall(t, "JTSisRing", "char", a # NullHandle, exc,
                       IF a.type \in {"LineString", "LinearRing"} THEN r ELSE 0)
    BY <1>6 DEF JTSisRing
  <2>2. PICK exc \in LibRaises({a}), r \in {0, 1} :
               TryCall(t, "JTSisRing", "char", a # NullHandle, exc,
                       IF a.type \in {"LineString", "LinearRing"} THEN r ELSE 0)
    BY <2>1
  <2>3. /\ "JTSisRing" \in Fns /\ "char" \in Kinds
        /\ (a # NullHandle) \in BOOLEAN
        /\ exc \in Exceptions
        /\ (IF a.type \in {"LineString", "LinearRing"} THEN r ELSE 0) \in -1..7
        /\ exc = "NPE" => ~(a # NullHandle)
        /\ exc = "none" /\ "char" \in {"char", "ptr"}
             => (IF a.type \in {"LineString", "LinearRing"} THEN r ELSE 0) # Sentinel["char"]
    BY DEF Fns, Kinds, LibRaises, Exceptions, Sentinel
  <2>4. QED
    BY <2>2, <2>3, TryStep
<1>7. ASSUME NEW t \in Threads, JTSGeomOp(t) PROVE IInv'
  <2>1. PICK a \in {NullHandle, AnyGeom}, b \in {NullHandle, AnyGeom} :
               \E exc \in LibRaises({a, b}) :
                 TryCall(t, "JTSGeomOp", "ptr", NullHandle \notin {a, b}, exc, 1)
    BY <1>7 DEF JTSGeomOp
  <2>2. PICK exc \in LibRaises({a, b}) :
               TryCall(t, "JTSGeomOp", "ptr", NullHandle \notin {a, b}, exc, 1)
    BY <2>1
  <2>3. /\ "JTSGeomOp" \in Fns /\ "ptr" \in Kinds
        /\ (NullHandle \notin {a, b}) \in BOOLEAN
        /\ exc \in Exceptions /\ 1 \in -1..7
        /\ exc = "NPE" => ~(NullHandle \notin {a, b})
        /\ exc = "none" /\ "ptr" \in {"char", "ptr"} => 1 # Sentinel["ptr"]
    BY DEF Fns, Kinds, LibRaises, Exceptions, Sentinel
  <2>4. QED
    BY <2>2, <2>3, TryStep
<1>8. ASSUME NEW t \in Threads, JTSIntGetter(t) PROVE IInv'
  <2>1. PICK a \in Handles : \E exc \in GetterRaises(a) :
             \/ TryCall(t, "JTSGetNumCoordinate", "int", a # NullHandle, exc,
                        IF a.empty THEN 0 ELSE 1)
             \/ \E srid \in {-1, 0, 1} :
                  TryCall(t, "JTSGetSRID", "int", a # NullHandle, exc, srid)
    BY <1>8 DEF JTSIntGetter
  <2>2. PICK exc \in GetterRaises(a) :
             \/ TryCall(t, "JTSGetNumCoordinate", "int", a # NullHandle, exc,
                        IF a.empty THEN 0 ELSE 1)
             \/ \E srid \in {-1, 0, 1} :
                  TryCall(t, "JTSGetSRID", "int", a # NullHandle, exc, srid)
    BY <2>1
  <2>3. /\ "JTSGetNumCoordinate" \in Fns /\ "JTSGetSRID" \in Fns /\ "int" \in Kinds
        /\ (a # NullHandle) \in BOOLEAN
        /\ exc \in Exceptions
        /\ exc = "NPE" => ~(a # NullHandle)
        /\ ~("int" \in {"char", "ptr"})
    BY DEF Fns, Kinds, GetterRaises, Exceptions
  <2>4. CASE TryCall(t, "JTSGetNumCoordinate", "int", a # NullHandle, exc,
                     IF a.empty THEN 0 ELSE 1)
    <3>1. (IF a.empty THEN 0 ELSE 1) \in -1..7
      OBVIOUS
    <3>2. QED
      BY <2>3, <2>4, <3>1, TryStep
  <2>5. CASE \E srid \in {-1, 0, 1} :
               TryCall(t, "JTSGetSRID", "int", a # NullHandle, exc, srid)
    <3>1. PICK srid \in {-1, 0, 1} :
               TryCall(t, "JTSGetSRID", "int", a # NullHandle, exc, srid)
      BY <2>5
    <3>2. srid \in -1..7
      OBVIOUS
    <3>3. QED
      BY <2>3, <3>1, <3>2, TryStep
  <2>6. QED
    BY <2>2, <2>4, <2>5
<1>9. ASSUME NEW t \in Threads, JTSCastGetter(t) PROVE IInv'
  <2>1. PICK g \in CastGetters, a \in Handles :
          \/ a = NullHandle /\ TryCall(t, "JTSCastGetter", g.kind, FALSE, "NPE", 0)
          \/ a # NullHandle /\ ~IsA(a, g.cast) /\ UndefinedCall(t, "JTSCastGetter", g.kind)
          \/ a # NullHandle /\ IsA(a, g.cast)
             /\ \E inRange \in IF g.indexed /\ ~a.empty THEN BOOLEAN ELSE {~g.indexed} :
                  \E n \in IF a.empty THEN {0} ELSE {0, 1} :
                    TryCall(t, "JTSCastGetter", g.kind, TRUE,
                            IF inRange THEN "none" ELSE "exc",
                            IF g.kind = "ptr" THEN 1 ELSE n)
    BY <1>9 DEF JTSCastGetter
  <2>2. /\ g.kind \in Kinds /\ g.kind \in {"int", "ptr"}
        /\ "JTSCastGetter" \in Fns
    BY DEF CastGetters, Kinds, Fns
  <2>3. CASE a = NullHandle /\ TryCall(t, "JTSCastGetter", g.kind, FALSE, "NPE", 0)
    <3>1. "NPE" \in Exceptions /\ 0 \in -1..7 /\ ("NPE" = "NPE" => ~FALSE)
          /\ ("NPE" = "none" /\ g.kind \in {"char", "ptr"} => 0 # Sentinel[g.kind])
      BY DEF Exceptions
    <3>2. QED
      BY <2>2, <2>3, <3>1, TryStep
  <2>4. CASE a # NullHandle /\ ~IsA(a, g.cast) /\ UndefinedCall(t, "JTSCastGetter", g.kind)
    <3>1. "detached" \in CrashReasons /\ "undefined" \in CrashReasons
          /\ ~("detached" \in {"nullHandler", "uncaught", "undefined"})
          /\ "ub" \in Outs
      BY DEF CrashReasons, Outs
    <3>2. CASE t \notin attached /\ Crash(t, "JTSCastGetter", FALSE, "detached")
      BY <2>2, <3>1, <3>2, CrashStep
    <3>3. CASE t \in attached /\ Crash(t, "JTSCastGetter", FALSE, "undefined")
      BY <2>2, <3>1, <3>3, CrashStep
    <3>4. CASE t \in attached /\ \E r \in {-1, 0, 1} :
                 Return(t, "JTSCastGetter", g.kind, FALSE, "ub", r)
      <4>1. PICK r \in {-1, 0, 1} : Return(t, "JTSCastGetter", g.kind, FALSE, "ub", r)
        BY <3>4
      <4>2. r \in -1..7
        OBVIOUS
      <4>3. QED
        BY <2>2, <3>1, <4>1, <4>2, ReturnStep
    <3>5. QED
      BY <2>4, <3>2, <3>3, <3>4 DEF UndefinedCall
  <2>5. CASE a # NullHandle /\ IsA(a, g.cast)
             /\ \E inRange \in IF g.indexed /\ ~a.empty THEN BOOLEAN ELSE {~g.indexed} :
                  \E n \in IF a.empty THEN {0} ELSE {0, 1} :
                    TryCall(t, "JTSCastGetter", g.kind, TRUE,
                            IF inRange THEN "none" ELSE "exc",
                            IF g.kind = "ptr" THEN 1 ELSE n)
    <3>1. PICK inRange \in BOOLEAN, n \in {0, 1} :
                 TryCall(t, "JTSCastGetter", g.kind, TRUE,
                         IF inRange THEN "none" ELSE "exc",
                         IF g.kind = "ptr" THEN 1 ELSE n)
      BY <2>5
    <3>2. /\ (IF inRange THEN "none" ELSE "exc") \in Exceptions
          /\ (IF g.kind = "ptr" THEN 1 ELSE n) \in -1..7
          /\ ((IF inRange THEN "none" ELSE "exc") = "NPE" => ~TRUE)
          /\ ((IF inRange THEN "none" ELSE "exc") = "none" /\ g.kind \in {"char", "ptr"}
                => (IF g.kind = "ptr" THEN 1 ELSE n) # Sentinel[g.kind])
      BY <2>2 DEF Exceptions, Sentinel
    <3>3. QED
      BY <2>2, <3>1, <3>2, TryStep
  <2>6. QED
    BY <2>1, <2>3, <2>4, <2>5
<1>10. ASSUME NEW t \in Threads, JTSSetSRID(t) PROVE IInv'
  <2>1. PICK a \in Handles : \E exc \in GetterRaises(a) :
             UntriedCall(t, "JTSSetSRID", "void", a # NullHandle, exc, 0)
    BY <1>10 DEF JTSSetSRID
  <2>2. PICK exc \in GetterRaises(a) :
             UntriedCall(t, "JTSSetSRID", "void", a # NullHandle, exc, 0)
    BY <2>1
  <2>3. /\ "JTSSetSRID" \in Fns /\ "void" \in Kinds
        /\ (a # NullHandle) \in BOOLEAN
        /\ exc \in Exceptions /\ 0 \in -1..7
        /\ exc # "none" => ~(a # NullHandle)
        /\ exc = "none" /\ "void" \in {"char", "ptr"} => 0 # Sentinel["void"]
    BY DEF Fns, Kinds, GetterRaises, Exceptions
  <2>4. QED
    BY <2>2, <2>3, UntriedStep
<1>11. ASSUME NEW t \in Threads, JTSGeomTypeId(t) PROVE IInv'
  <2>1. PICK a \in Handles : \E exc \in GetterRaises(a) :
             UntriedCall(t, "JTSGeomTypeId", "int", a # NullHandle, exc,
                         IF a = NullHandle THEN 0 ELSE TypeId[a.type])
    BY <1>11 DEF JTSGeomTypeId
  <2>2. PICK exc \in GetterRaises(a) :
             UntriedCall(t, "JTSGeomTypeId", "int", a # NullHandle, exc,
                         IF a = NullHandle THEN 0 ELSE TypeId[a.type])
    BY <2>1
  <2>3. (IF a = NullHandle THEN 0 ELSE TypeId[a.type]) \in -1..7
    BY DEF Handles, Geoms, GeomTypes, TypeId, NullHandle
  <2>4. /\ "JTSGeomTypeId" \in Fns /\ "int" \in Kinds
        /\ (a # NullHandle) \in BOOLEAN
        /\ exc \in Exceptions
        /\ exc # "none" => ~(a # NullHandle)
        /\ ~("int" \in {"char", "ptr"})
    BY DEF Fns, Kinds, GetterRaises, Exceptions
  <2>5. QED
    BY <2>2, <2>3, <2>4, UntriedStep
<1>12. ASSUME NEW t \in Threads, JTSConverter(t) PROVE IInv'
  <2>0. /\ "JTSConverter" \in Fns /\ "ptr" \in Kinds /\ 1 \in -1..7
        /\ 1 # Sentinel["ptr"]
        /\ "nullHandler" \in CrashReasons
    BY DEF Fns, Kinds, Sentinel, CrashReasons
  <2>1. CASE ~Registered /\ Crash(t, "JTSConverter", TRUE, "nullHandler")
    <3>1. ~inited[t]
      BY <2>1 DEF IInv, HandlersRegistered
    <3>2. QED
      BY <2>0, <2>1, <3>1, CrashStep
  <2>2. CASE \E a \in Handles : \E exc \in GetterRaises(a) :
               TryCall(t, "JTSConverter", "ptr", a # NullHandle, exc, 1)
    <3>1. PICK a \in Handles : \E exc \in GetterRaises(a) :
               TryCall(t, "JTSConverter", "ptr", a # NullHandle, exc, 1)
      BY <2>2
    <3>2. PICK exc \in GetterRaises(a) :
               TryCall(t, "JTSConverter", "ptr", a # NullHandle, exc, 1)
      BY <3>1
    <3>3. /\ (a # NullHandle) \in BOOLEAN
          /\ exc \in Exceptions
          /\ exc = "NPE" => ~(a # NullHandle)
      BY DEF GetterRaises, Exceptions
    <3>4. QED
      BY <2>0, <3>2, <3>3, TryStep
  <2>3. CASE \E malformed \in BOOLEAN :
               TryCall(t, "JTSConverter", "ptr", TRUE,
                       IF malformed THEN "exc" ELSE "none", 1)
    <3>1. PICK malformed \in BOOLEAN :
               TryCall(t, "JTSConverter", "ptr", TRUE,
                       IF malformed THEN "exc" ELSE "none", 1)
      BY <2>3
    <3>2. /\ (IF malformed THEN "exc" ELSE "none") \in Exceptions
          /\ (IF malformed THEN "exc" ELSE "none") # "NPE"
      BY DEF Exceptions
    <3>3. QED
      BY <2>0, <3>1, <3>2, TryStep
  <2>4. QED
    BY <1>12, <2>1, <2>2, <2>3 DEF JTSConverter
<1>13. ASSUME NEW t \in Threads, JTSPolygonize(t) PROVE IInv'
  <2>0. /\ "JTSPolygonize" \in Fns /\ "ptr" \in Kinds /\ 0 \in -1..7
        /\ "error" \in Outs /\ 0 = Sentinel["ptr"]
        /\ "nullHandler" \in CrashReasons
    BY DEF Fns, Kinds, Outs, Sentinel, CrashReasons
  <2>1. CASE ~Registered /\ Crash(t, "JTSPolygonize", TRUE, "nullHandler")
    <3>1. ~inited[t]
      BY <2>1 DEF IInv, HandlersRegistered
    <3>2. QED
      BY <2>0, <2>1, <3>1, CrashStep
  <2>2. CASE Registered /\ Return(t, "JTSPolygonize", "ptr", TRUE, "error", 0)
    BY <2>0, <2>2, ReturnStep
  <2>3. QED
    BY <1>13, <2>1, <2>2 DEF JTSPolygonize
<1>14. ASSUME NEW t \in Threads, JTSversion(t) PROVE IInv'
  <2>1. UntriedCall(t, "JTSversion", "ptr", TRUE, "none", 1)
    BY <1>14 DEF JTSversion
  <2>2. "JTSversion" \in Fns /\ "ptr" \in Kinds /\ "none" \in Exceptions /\ 1 \in -1..7
    BY DEF Fns, Kinds, Exceptions
  <2>3. 1 # Sentinel["ptr"]
    BY DEF Sentinel
  <2>4. QED
    BY <2>1, <2>2, <2>3, UntriedStep
<1>15. CASE UNCHANGED vars
  BY <1>15 DEF vars, IInv, TypeOK, HandlersRegistered, Registered, NoHandlers,
               ContractCallsNeverCrash, ErrorIffSentinel
<1>16. QED
  BY <1>1, <1>2, <1>3, <1>4, <1>5, <1>6, <1>7, <1>8, <1>9, <1>10, <1>11,
     <1>12, <1>13, <1>14, <1>15 DEF Next

-----------------------------------------------------------------------------
(* Theorems of the specification.                                          *)

\* For every number of host threads the inductive invariant holds in every
\* state: the callbacks are registered whenever some thread has returned
\* from initJTS, and the crash and last-call records agree with the
\* wrappers' catch blocks.
LEMMA Invariance == Spec => []IInv
  BY InitIInv, NextIInv, PTL DEF Spec

\* The wrapper's state stays well typed in every behaviour.
THEOREM TypeCorrect == Spec => []TypeOK
<1>1. IInv => TypeOK
  BY DEF IInv
<1>2. QED
  BY InitIInv, NextIInv, <1>1, PTL DEF Spec

\* For every number of host threads: a well-formed wrapper call made by a
\* thread that has returned from initJTS (and not called finishJTS since)
\* never dies of a NULL callback, an escaping exception or an unchecked
\* cast; the only way it can die is the missing VM attachment.
THEOREM ContractCallsSafe == Spec => []ContractCallsNeverCrash
<1>1. IInv => ContractCallsNeverCrash
  BY DEF IInv
<1>2. QED
  BY InitIInv, NextIInv, <1>1, PTL DEF Spec

=============================================================================
