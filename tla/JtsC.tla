-------------------------------- MODULE JtsC --------------------------------
(***************************************************************************)
(* The C call surface of the JTS wrapper, src/libjts/jts_c.cpp.           *)
(*                                                                         *)
(* State kept by the wrapper process:                                      *)
(*   factory  -- jtsGeomFactory # NULL (set once by initJTS, never reset)  *)
(*   handlers -- whose NOTICE_MESSAGE / ERROR_MESSAGE are registered: the *)
(*               thread whose initJTS assigned them last, or NoHandlers    *)
(*   attached -- the host threads attached to the Java VM                  *)
(* and, per host thread,                                                   *)
(*   pc       -- "idle", or inside initJTS after the factory test          *)
(*   inited   -- the thread has returned from initJTS and has not called   *)
(*               finishJTS since (what jts_c.h asks of a caller)           *)
(*   last     -- the outcome of the thread's last completed wrapper call   *)
(*   crash    -- the process died: which call, why, and in what state.     *)
(*                                                                         *)
(* Geometries are abstracted to their JTS type name and emptiness; the     *)
(* library (not in src/) is a nondeterministic oracle that returns a value *)
(* or throws.  A Java exception either carries a message or, like the      *)
(* NullPointerException raised by a NULL handle, has getMessage() = null.  *)
(***************************************************************************)
EXTENDS Integers

CONSTANTS Threads

\* Threads are model values, never the "none" that marks no registrant.
ASSUME ThreadsAssumption == Threads # {} /\ "none" \notin Threads

VARIABLES factory, handlers, attached, pc, inited, last, crash

vars == <<factory, handlers, attached, pc, inited, last, crash>>

\* The type names JTSGeomTypeId compares getGeometryType() against.
GeomTypes == {"Point", "LineString", "LinearRing", "Polygon", "MultiPoint",
              "MultiLineString", "MultiPolygon", "GeometryCollection"}

\* JTSGeomTypeId's strcmp chain: LinearRing reports LINETYPE.
TypeId == [Point |-> 1, LineString |-> 2, LinearRing |-> 2, Polygon |-> 3,
           MultiPoint |-> 4, MultiLineString |-> 5, MultiPolygon |-> 6,
           GeometryCollection |-> 7]

Geoms == [type : GeomTypes, empty : BOOLEAN]
NullHandle == [type |-> "NULL", empty |-> TRUE]
Handles == Geoms \cup {NullHandle}
\* A representative non-NULL geometry, for wrappers blind to type and emptiness.
AnyGeom == [type |-> "Polygon", empty |-> FALSE]

\* The subclasses of GeometryCollection, the target of the casts at 546, 560.
CollectionTypes == {"MultiPoint", "MultiLineString", "MultiPolygon",
                    "GeometryCollection"}

\* Return kinds of the wrappers and the value each returns from its catch.
Kinds == {"char", "ptr", "int", "void"}
Sentinel == [char |-> 2, ptr |-> 0, int |-> 0, void |-> 0]

\* Exceptions: none, one with a message, one whose getMessage() is null.
Exceptions == {"none", "exc", "NPE"}

\* What a library method may do on its arguments: a NULL receiver or
\* argument raises NullPointerException; a geometric algorithm may raise a
\* TopologyException or IllegalArgumentException, which carry a message.
LibRaises(args) == IF NullHandle \in args THEN {"NPE"} ELSE {"none", "exc"}
\* A field accessor (getNumPoints, getSRID, getGeometryType...) cannot fail.
GetterRaises(a) == IF a = NullHandle THEN {"NPE"} ELSE {"none"}

CrashReasons == {"detached", "nullHandler", "uncaught", "undefined"}
Outs == {"ok", "error", "ub"}

\* The wrapper (groups) a call record names.
Fns == {"none", "JTSPredicate", "JTSRelate", "JTSisRing", "JTSGeomOp",
        "JTSGetNumCoordinate", "JTSGetSRID", "JTSCastGetter", "JTSSetSRID",
        "JTSGeomTypeId", "JTSConverter", "JTSPolygonize", "JTSversion"}

CallRecord == [fn : Fns, kind : Kinds, wf : BOOLEAN, out : Outs, ret : -1..7]
NoCall == [fn |-> "none", kind |-> "void", wf |-> FALSE, out |-> "ok", ret |-> 0]
CrashRecord == [fn : Fns, reason : CrashReasons \cup {"none"},
                wf : BOOLEAN, inited : BOOLEAN]
NoCrash == [fn |-> "none", reason |-> "none", wf |-> FALSE, inited |-> FALSE]

\* The callbacks are abstracted to the thread that passed them to initJTS.
NoHandlers == "none"
Registered == handlers # NoHandlers

-----------------------------------------------------------------------------
Init ==
  /\ factory = FALSE            \* static GeometryFactory *jtsGeomFactory = NULL
  /\ handlers = NoHandlers      \* static noticefunc pointers, zero-initialised
  /\ attached = {}
  /\ pc = [t \in Threads |-> "idle"]
  /\ inited = [t \in Threads |-> FALSE]
  /\ last = [t \in Threads |-> NoCall]
  /\ crash = NoCrash

\* A thread can enter a wrapper when it is not inside initJTS and the
\* process is still alive.
Ready(t) == pc[t] = "idle" /\ crash = NoCrash

\* The wrapper returns to the host.
Return(t, fn, kind, wf, out, ret) ==
  /\ last' = [last EXCEPT ![t] = [fn |-> fn, kind |-> kind, wf |-> wf,
                                  out |-> out, ret |-> ret]]
  /\ UNCHANGED <<factory, handlers, attached, pc, inited, crash>>

\* The process dies inside the wrapper.
Crash(t, fn, wf, reason) ==
  /\ crash' = [fn |-> fn, reason |-> reason, wf |-> wf, inited |-> inited[t]]
  /\ UNCHANGED <<factory, handlers, attached, pc, inited, last>>

\* catch (Throwable *t) { ERROR_MESSAGE(StringToChar(t->getMessage()));
\*                        return <sentinel>; }
\* StringToChar(NULL) dereferences the null message: the resulting
\* NullPointerException is raised inside the handler and leaves the
\* extern "C" function.  A NULL ERROR_MESSAGE is a call through NULL.
CatchThrowable(t, fn, kind, wf, exc) ==
  \/ exc = "NPE" /\ Crash(t, fn, wf, "uncaught")
  \/ exc = "exc" /\ ~Registered /\ Crash(t, fn, wf, "nullHandler")
  \/ exc = "exc" /\ Registered /\ Return(t, fn, kind, wf, "error", Sentinel[kind])

\* try { <Java call> } catch ...: Java code run by a thread that is not
\* attached to the VM has no runtime thread and fails.
TryCall(t, fn, kind, wf, exc, ret) ==
  \/ t \notin attached /\ Crash(t, fn, wf, "detached")
  \/ t \in attached /\ exc = "none" /\ Return(t, fn, kind, wf, "ok", ret)
  \/ t \in attached /\ exc # "none" /\ CatchThrowable(t, fn, kind, wf, exc)

\* A Java call outside any try block: whatever it throws leaves the wrapper.
UntriedCall(t, fn, kind, wf, exc, ret) ==
  \/ t \notin attached /\ Crash(t, fn, wf, "detached")
  \/ t \in attached /\ exc = "none" /\ Return(t, fn, kind, wf, "ok", ret)
  \/ t \in attached /\ exc # "none" /\ Crash(t, fn, wf, "uncaught")

-----------------------------------------------------------------------------
(* Lifecycle *)

\* initJTS, up to the test of jtsGeomFactory.
InitJTSCheck(t) ==
  /\ Ready(t)
  /\ pc' = [pc EXCEPT ![t] = IF factory THEN "initSkip" ELSE "initBranch"]
  /\ UNCHANGED <<factory, handlers, attached, inited, last, crash>>

\* The rest of initJTS: on the branch, create the VM (a second
\* JvCreateJavaVM returns an error that is ignored), attach the calling
\* thread and create the factory; in every case store both callbacks.
InitJTS(t) ==
  /\ crash = NoCrash
  /\ pc[t] \in {"initBranch", "initSkip"}
  /\ attached' = IF pc[t] = "initBranch" THEN attached \cup {t} ELSE attached
  /\ factory' = (factory \/ pc[t] = "initBranch")
  /\ handlers' = t
  /\ pc' = [pc EXCEPT ![t] = "idle"]
  /\ inited' = [inited EXCEPT ![t] = TRUE]
  /\ UNCHANGED <<last, crash>>

\* Mutant: a finishJTS that also resets the callbacks to NULL.
FinishJTSClearingHandlers(t) ==
  /\ Ready(t)
  /\ attached' = attached \ {t}
  /\ inited' = [inited EXCEPT ![t] = FALSE]
  /\ handlers' = NoHandlers
  /\ UNCHANGED <<factory, pc, last, crash>>

\* finishJTS detaches the calling thread and nothing else: the factory,
\* the callbacks and the static readers and writers stay as they are.
FinishJTS(t) ==
  /\ Ready(t)
  /\ attached' = attached \ {t}
  /\ inited' = [inited EXCEPT ![t] = FALSE]
  /\ UNCHANGED <<factory, handlers, pc, last, crash>>

-----------------------------------------------------------------------------
(* Wrappers.  For the predicates and the geometry operations only whether *)
(* an argument is NULL decides the path a call takes, so their arguments  *)
(* range over {NullHandle, AnyGeom}; a unary one is the case a = b.       *)

\* JTSDisjoint ... JTSOverlaps, JTSRelatePattern, JTSisValid, JTSEquals,
\* JTSisEmpty, JTSisSimple: return the boolean, 2 on a trapped exception.
JTSPredicate(t) ==
  /\ Ready(t)
  /\ \E a, b \in {NullHandle, AnyGeom} :
       \E exc \in LibRaises({a, b}), r \in {0, 1} :
         TryCall(t, "JTSPredicate", "char", NullHandle \notin {a, b}, exc, r)

\* JTSRelate: the matrix string (im is never NULL in JTS), NULL on error.
JTSRelate(t) ==
  /\ Ready(t)
  /\ \E a, b \in {NullHandle, AnyGeom} :
       \E exc \in LibRaises({a, b}) :
         TryCall(t, "JTSRelate", "ptr", NullHandle \notin {a, b}, exc, 1)

\* JTSisRing: JTSGeomTypeId inside the try, isRing() for lines, else 0.
JTSisRing(t) ==
  /\ Ready(t)
  /\ \E a \in Handles :
       \E exc \in LibRaises({a}), r \in {0, 1} :
         TryCall(t, "JTSisRing", "char", a # NullHandle, exc,
                 IF a.type \in {"LineString", "LinearRing"} THEN r ELSE 0)

\* JTSGeomType, JTSIntersection, JTSBuffer, JTSConvexHull, JTSDifference,
\* JTSBoundary, JTSSymDifference, JTSUnion, JTSPointOnSurface,
\* JTSGetCentroid: a new geometry or string, NULL on a trapped exception.
JTSGeomOp(t) ==
  /\ Ready(t)
  /\ \E a, b \in {NullHandle, AnyGeom} :
       \E exc \in LibRaises({a, b}) :
         TryCall(t, "JTSGeomOp", "ptr", NullHandle \notin {a, b}, exc, 1)

\* JTSGetNumCoordinate (getNumPoints, 0 for an empty geometry) and
\* JTSGetSRID (any SRID, including 0): 0 on a trapped exception.
JTSIntGetter(t) ==
  /\ Ready(t)
  /\ \E a \in Handles :
       \E exc \in GetterRaises(a) :
         \/ TryCall(t, "JTSGetNumCoordinate", "int", a # NullHandle, exc,
                    IF a.empty THEN 0 ELSE 1)
         \/ \E srid \in {-1, 0, 1} :
              TryCall(t, "JTSGetSRID", "int", a # NullHandle, exc, srid)

\* The getters that cast the handle without checking its type:
\* JTSGetNumInteriorRings, JTSGetExteriorRing, JTSGetInteriorRingN
\* (to Polygon) and JTSGetNumGeometries, JTSGetGeometryN (to
\* GeometryCollection).  A cast of a NULL handle calls a method on NULL;
\* a cast of another type is undefined: the method found through the
\* wrong vtable crashes or returns an arbitrary value.
CastGetters == [cast : {"Polygon", "GeometryCollection"},
                kind : {"int", "ptr"}, indexed : BOOLEAN]
IsA(a, cast) == IF cast = "Polygon" THEN a.type = "Polygon"
                                    ELSE a.type \in CollectionTypes
\* Undefined behaviour of a method called through the wrong vtable.
UndefinedCall(t, fn, kind) ==
  \/ t \notin attached /\ Crash(t, fn, FALSE, "detached")
  \/ t \in attached /\ Crash(t, fn, FALSE, "undefined")
  \/ t \in attached /\ \E r \in {-1, 0, 1} : Return(t, fn, kind, FALSE, "ub", r)

JTSCastGetter(t) ==
  /\ Ready(t)
  /\ \E g \in CastGetters, a \in Handles :
       \/ a = NullHandle /\ TryCall(t, "JTSCastGetter", g.kind, FALSE, "NPE", 0)
       \/ a # NullHandle /\ ~IsA(a, g.cast) /\ UndefinedCall(t, "JTSCastGetter", g.kind)
       \/ a # NullHandle /\ IsA(a, g.cast)
          \* getGeometryN / getInteriorRingN index an array: an index out of
          \* range raises ArrayIndexOutOfBoundsException (with a message).
          /\ \E inRange \in IF g.indexed /\ ~a.empty THEN BOOLEAN ELSE {~g.indexed} :
               \E n \in IF a.empty THEN {0} ELSE {0, 1} :
                 TryCall(t, "JTSCastGetter", g.kind, TRUE,
                         IF inRange THEN "none" ELSE "exc",
                         IF g.kind = "ptr" THEN 1 ELSE n)

\* JTSSetSRID: no try block.
JTSSetSRID(t) ==
  /\ Ready(t)
  /\ \E a \in Handles : \E exc \in GetterRaises(a) :
       UntriedCall(t, "JTSSetSRID", "void", a # NullHandle, exc, 0)

\* JTSGeomTypeId: no try block; the strcmp chain covers every JTS type, so
\* the "unknown geometry type" branch returning -1 is never taken.
JTSGeomTypeId(t) ==
  /\ Ready(t)
  /\ \E a \in Handles : \E exc \in GetterRaises(a) :
       UntriedCall(t, "JTSGeomTypeId", "int", a # NullHandle, exc,
                   IF a = NullHandle THEN 0 ELSE TypeId[a.type])

\* JTSGeomToWKT, JTSGeomToWKB, JTSGeomFromWKT, JTSGeomFromWKB: the first
\* statement of the try block calls NOTICE_MESSAGE; the writers cannot fail
\* on a geometry, the readers raise a ParseException (with a message) on
\* malformed input.
JTSConverter(t) ==
  /\ Ready(t)
  /\ \/ ~Registered /\ Crash(t, "JTSConverter", TRUE, "nullHandler")
     \/ Registered
        /\ \/ \E a \in Handles : \E exc \in GetterRaises(a) :
                TryCall(t, "JTSConverter", "ptr", a # NullHandle, exc, 1)
           \/ \E malformed \in BOOLEAN :
                TryCall(t, "JTSConverter", "ptr", TRUE,
                        IF malformed THEN "exc" ELSE "none", 1)

\* JTSPolygonize: reports "unimplemented" and returns NULL; no Java code.
JTSPolygonize(t) ==
  /\ Ready(t)
  /\ \/ ~Registered /\ Crash(t, "JTSPolygonize", TRUE, "nullHandler")
     \/ Registered /\ Return(t, "JTSPolygonize", "ptr", TRUE, "error", 0)

\* JTSversion: reads JTSVersion.CURRENT_VERSION, no try block; the class
\* was initialised by initJTS, so the version is never NULL.
JTSversion(t) ==
  /\ Ready(t)
  /\ UntriedCall(t, "JTSversion", "ptr", TRUE, "none", 1)

-----------------------------------------------------------------------------
Next ==
  \E t \in Threads :
    \/ InitJTSCheck(t) \/ InitJTS(t) \/ FinishJTS(t)
    \/ JTSPredicate(t) \/ JTSRelate(t) \/ JTSisRing(t) \/ JTSGeomOp(t)
    \/ JTSIntGetter(t) \/ JTSCastGetter(t) \/ JTSSetSRID(t)
    \/ JTSGeomTypeId(t) \/ JTSConverter(t) \/ JTSPolygonize(t)
    \/ JTSversion(t)

Spec == Init /\ [][Next]_vars

-----------------------------------------------------------------------------
TypeOK ==
  /\ factory \in BOOLEAN
  /\ handlers \in Threads \cup {NoHandlers}
  /\ attached \subseteq Threads
  /\ pc \in [Threads -> {"idle", "initBranch", "initSkip"}]
  /\ inited \in [Threads -> BOOLEAN]
  /\ last \in [Threads -> CallRecord]
  /\ crash \in CrashRecord

\* Every callback registration is permanent: a thread that has returned
\* from initJTS sees non-NULL NOTICE_MESSAGE and ERROR_MESSAGE for as long
\* as it has not called finishJTS, whatever other threads do meanwhile.
\* A well-formed call (no NULL handle, the type a cast expects) made by
\* such a thread therefore never dies in the wrapper, except for want of
\* a VM attachment (see InitializedThreadsAttached).
ContractCallsNeverCrash ==
  crash.reason \in {"nullHandler", "uncaught", "undefined"}
    => ~(crash.wf /\ crash.inited)

\* A char or pointer wrapper returns its error value (2 or NULL) exactly
\* when the library threw and ERROR_MESSAGE was called: the host can tell
\* a failure from a result.
ErrorIffSentinel ==
  \A t \in Threads :
    last[t].kind \in {"char", "ptr"} /\ last[t].out # "ub"
      => (last[t].out = "error" <=> last[t].ret = Sentinel[last[t].kind])

\* Inductive strengthening of the two properties above: a thread that has
\* returned from initJTS, and not called finishJTS since, finds the
\* callbacks registered.
HandlersRegistered ==
  \A t \in Threads : inited[t] => Registered

IInv ==
  /\ TypeOK
  /\ HandlersRegistered
  /\ ContractCallsNeverCrash
  /\ ErrorIffSentinel

\* spec.md (Initialization, and "one-time process-wide configuration"):
\* the callbacks are registered once, by the setup step.  Once registered,
\* they are never replaced by callbacks another thread passed: otherwise a
\* thread that registered a log-and-abort error handler has its failures
\* reported to another thread's handler (jts_c.cpp:118-119).
RegisteredOnce == [][Registered => handlers' = handlers]_vars

\* jts_c.h: "Remember to call initJTS() before any use of this library's
\* functions."  A thread that has done so is attached to the VM, so that
\* its calls can run Java code.  (initJTS attaches only on the branch that
\* creates the factory: a second thread, or the same thread after
\* finishJTS, returns from initJTS unattached.)
InitializedThreadsAttached ==
  \A t \in Threads : inited[t] /\ pc[t] = "idle" => t \in attached

\* Spec section 7: "no internal error is ever allowed to unwind across the
\* external call surface".  Violated by an exception whose message is null
\* (StringToChar in the catch block) and by the wrappers without a try.
NoExceptionEscapes ==
  crash.reason # "uncaught"

\* Spec section 6: getGeometryN / getExteriorRing / getInteriorRingN return
\* NULL, the integer getters 0 or -1, on a geometry of the wrong variant;
\* the wrappers cast without checking the type, which is undefined.
WrongVariantGetsSentinel ==
  /\ crash.reason # "undefined"
  /\ \A t \in Threads : last[t].out # "ub"

\* Spec sections 6-7: an integer wrapper reports a failure by its sentinel
\* 0, so a 0 returned to the host means the call failed.
SentinelOnlyOnError ==
  \A t \in Threads :
    last[t].kind = "int" /\ last[t].out = "ok" => last[t].ret # Sentinel["int"]

=============================================================================
