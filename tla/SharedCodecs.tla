---------------------------- MODULE SharedCodecs ----------------------------
(***************************************************************************)
(* The function-static codecs of src/libjts/jts_c.cpp:                    *)
(*   static WKBWriter *w = new WKBWriter;   (JTSGeomToWKB,   line 681)    *)
(*   static WKTReader *r = new WKTReader;   (JTSGeomFromWKT, line 697)    *)
(*   static WKBReader *r = new WKBReader;   (JTSGeomFromWKB, line 712)    *)
(* Each is created once (g++ guards the initialisation) and then used by  *)
(* every host thread, with no lock.                                       *)
(*                                                                         *)
(* Each JTS codec keeps its cursor in a field: WKTReader.read(Reader) does *)
(* "tokenizer = new StreamTokenizer(reader)" and then reads every token    *)
(* through that field; WKBReader.read points its field "dis" at the new    *)
(* bytes; WKBWriter.write resets its field "byteArrayOS" and then appends  *)
(* to it.  A call therefore binds the codec's cursor to its own data and   *)
(* then takes Steps steps through the cursor.  Data are model values; a   *)
(* cursor is the data it walks and a position.                             *)
(*                                                                         *)
(* Every thread here is taken to be attached to the VM (the wrappers of   *)
(* module JtsC crash otherwise).  initJTS attaches only the thread that   *)
(* creates the factory, so the race needs a host that attaches its other  *)
(* threads itself.                                                         *)
(***************************************************************************)
EXTENDS Naturals, Sequences

CONSTANTS Threads,   \* host threads
          Data,      \* the texts, byte arrays or geometries they convert
          Steps      \* steps (tokens, fields, chunks) of one conversion

Codecs == {"WKTReader", "WKBReader", "WKBWriter"}

VARIABLES cursor,   \* cursor[c]: the field of the one static codec c
          call,     \* call[t]: the conversion thread t is inside, if any
          result    \* result[t]: what t's last conversion returned

vars == <<cursor, call, result>>

\* No call in progress.
NoCall == [codec |-> "none", data |-> "none", seen |-> <<>>]

Init ==
  /\ cursor = [c \in Codecs |-> [data |-> "none", pos |-> 0]]
  /\ call = [t \in Threads |-> NoCall]
  /\ result = [t \in Threads |-> [of |-> "none", got |-> "none"]]

\* JTSGeomFromWKT / JTSGeomFromWKB / JTSGeomToWKB up to r->read(...) or
\* w->write(...): the codec binds its field to the caller's data.
Bind(t) ==
  /\ call[t] = NoCall
  /\ \E c \in Codecs, d \in Data :
       /\ cursor' = [cursor EXCEPT ![c] = [data |-> d, pos |-> 0]]
       /\ call' = [call EXCEPT ![t] = [codec |-> c, data |-> d, seen |-> <<>>]]
  /\ UNCHANGED result

\* One step through the codec's field: the element read or written is the
\* one the field points at, whoever bound it.
Step(t) ==
  /\ call[t] # NoCall
  /\ Len(call[t].seen) < Steps
  /\ LET c == call[t].codec IN
       \/ /\ cursor[c].pos < Steps
          /\ cursor' = [cursor EXCEPT ![c].pos = @ + 1]
          /\ call' = [call EXCEPT ![t].seen = Append(@, cursor[c].data)]
          /\ UNCHANGED result
       \* the stream is exhausted: ParseException / EOF, the catch block
       \* reports it and the wrapper returns NULL
       \/ /\ cursor[c].pos >= Steps
          /\ result' = [result EXCEPT ![t] = [of |-> call[t].data, got |-> "error"]]
          /\ call' = [call EXCEPT ![t] = NoCall]
          /\ UNCHANGED cursor

\* The conversion returns what it assembled from the elements it saw.
Finish(t) ==
  /\ call[t] # NoCall
  /\ Len(call[t].seen) = Steps
  /\ LET seen == call[t].seen IN
       result' = [result EXCEPT ![t] =
                    [of |-> call[t].data,
                     got |-> IF \A k \in 1..Steps : seen[k] = seen[1]
                             THEN seen[1] ELSE "mixed"]]
  /\ call' = [call EXCEPT ![t] = NoCall]
  /\ UNCHANGED cursor

Next == \E t \in Threads : Bind(t) \/ Step(t) \/ Finish(t)

Spec == Init /\ [][Next]_vars

-----------------------------------------------------------------------------
\* A conversion returns the value of the caller's own data or reports an
\* error; it never returns a value converted from another thread's data or
\* from a mix of two (spec section 5: a multi-thread host may run
\* independent operations on independent geometries without locking).
OwnDataOnly ==
  \A t \in Threads : result[t].got \in {result[t].of, "error", "none"}

=============================================================================
