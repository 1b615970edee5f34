----------------------------- MODULE AtomicMap -----------------------------
(***************************************************************************)
(* What syncutil.IntMap promises its callers: a map whose operations take  *)
(* effect at one moment between call and return.  A write happens at a     *)
(* step of its own; an operation that only reads answers with what its key *)
(* held at some moment of the call.  Range is weaker, as its comment says: *)
(* each key is visited at most once, with a value from within the call,    *)
(* and a key that held a value throughout the call is visited.             *)
(***************************************************************************)
EXTENDS MapCalls

VARIABLE map       \* the value of every key, None if absent

vars == <<map, callVars>>

Init == map = [k \in Keys |-> None] /\ CallsInit

Invoke(p) ==
    /\ \E c \in Calls : Begin(p, c, map)
    /\ UNCHANGED map

Return(p) == Finish(p) /\ UNCHANGED map

Store(p) ==
    LET k == call[p].key
    IN  /\ Busy(p, "Store")
        /\ map' = [map EXCEPT ![k] = call[p].val]
        /\ AnswerWriting(p, Result(None, FALSE), k, call[p].val)

Load(p) ==
    /\ Busy(p, "Load")
    /\ \E v \in seen[p][call[p].key] : Answer(p, Result(v, v # None))
    /\ UNCHANGED map

(* LoadOrStore stores into an absent key, or loads what the key held. *)
LoadOrStore(p) ==
    LET k == call[p].key
    IN  /\ Busy(p, "LoadOrStore")
        /\ \/ /\ map[k] = None
              /\ map' = [map EXCEPT ![k] = call[p].val]
              /\ AnswerWriting(p, Result(call[p].val, FALSE), k, call[p].val)
           \/ /\ \E v \in seen[p][k] \ {None} : Answer(p, Result(v, TRUE))
              /\ UNCHANGED map

(* Delete removes the key, or found it absent. *)
Delete(p) ==
    LET k == call[p].key
    IN  /\ Busy(p, "Delete")
        /\ \/ /\ map' = [map EXCEPT ![k] = None]
              /\ AnswerWriting(p, Result(None, FALSE), k, None)
           \/ /\ None \in seen[p][k]
              /\ Answer(p, Result(None, FALSE))
              /\ UNCHANGED map

(* Range calls f once for key k, with a value the key had during the call. *)
Visit(p) ==
    /\ Busy(p, "Range")
    /\ \E k \in Keys :
          /\ visited[p][k] = None
          /\ \E v \in seen[p][k] \ {None} :
                visited' = [visited EXCEPT ![p][k] = v]
    /\ UNCHANGED <<map, call, res, seen>>

(* Range returns after f returned false (no promise), or when every key it *)
(* did not visit was absent at some moment of the call.                    *)
RangeEnd(p) ==
    /\ Busy(p, "Range")
    /\ \/ Answer(p, Result(None, FALSE))
       \/ /\ \A k \in Keys : visited[p][k] = None => None \in seen[p][k]
          /\ Answer(p, Result(None, TRUE))
    /\ UNCHANGED map

Step(p) == \/ Invoke(p) \/ Return(p)
           \/ Store(p) \/ Load(p) \/ LoadOrStore(p) \/ Delete(p)
           \/ Visit(p) \/ RangeEnd(p)

Next == \E p \in Procs : Step(p)

Spec == Init /\ [][Next]_vars
=============================================================================
