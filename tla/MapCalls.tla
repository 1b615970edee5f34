------------------------------ MODULE MapCalls ------------------------------
(***************************************************************************)
(* The calls the goroutines make on a syncutil.IntMap, what each call has  *)
(* returned, and, as history, what the keys of a pending call have held    *)
(* since it began.  Shared by the specification of the map (AtomicMap) and *)
(* the model of its code (IntMap).                                         *)
(***************************************************************************)
CONSTANTS Keys, Values, Procs,
          None          \* the nil a caller gets for an absent key

ASSUME NoneAssumption == None \notin Values /\ None \notin Keys

Opt == Values \cup {None}

KeyCalls == [op : {"Load", "Delete"}, key : Keys, val : {None}] \cup
            [op : {"Store", "LoadOrStore"}, key : Keys, val : Values]
RangeCall == [op |-> "Range", key |-> None, val |-> None]
Calls == KeyCalls \cup {RangeCall}

Idle    == [op |-> "Idle", key |-> None, val |-> None]
Pending == [state |-> "pending", val |-> None, loaded |-> FALSE]
Result(v, l) == [state |-> "done", val |-> v, loaded |-> l]
Results == [state : {"pending", "done"}, val : Opt, loaded : BOOLEAN]

(* The keys a call reads or writes. *)
KeysOf(c) == IF c.op = "Range" THEN Keys ELSE {c.key} \cap Keys

NothingSeen    == [k \in Keys |-> {}]
NothingVisited == [k \in Keys |-> None]

VARIABLES
    call,      \* the call each process is in
    res,       \* its result, once there is one
    seen,      \* for a pending call, what each of its keys has held so far
    visited    \* for a Range, the value each key was visited with

callVars == <<call, res, seen, visited>>

CallsInit ==
    /\ call = [p \in Procs |-> Idle]
    /\ res = [p \in Procs |-> Pending]
    /\ seen = [p \in Procs |-> NothingSeen]
    /\ visited = [p \in Procs |-> NothingVisited]

Busy(p, op) == call[p].op = op /\ res[p] = Pending

(* p calls the map, whose contents are m. *)
Begin(p, c, m) ==
    /\ call[p] = Idle
    /\ call' = [call EXCEPT ![p] = c]
    /\ seen' = [seen EXCEPT ![p] =
                  [k \in Keys |-> IF k \in KeysOf(c) THEN {m[k]} ELSE {}]]
    /\ UNCHANGED <<res, visited>>

(* p's call is answered with r by a step that writes nothing. *)
Answer(p, r) ==
    /\ res' = [res EXCEPT ![p] = r]
    /\ seen' = [seen EXCEPT ![p] = NothingSeen]
    /\ UNCHANGED <<call, visited>>

(* p's call is answered with r by the step that gives key k the value v:   *)
(* the other pending calls on k may see it.                                *)
AnswerWriting(p, r, k, v) ==
    /\ res' = [res EXCEPT ![p] = r]
    /\ seen' = [q \in Procs |->
                  IF q = p THEN NothingSeen
                  ELSE IF res[q] = Pending /\ k \in KeysOf(call[q])
                       THEN [seen[q] EXCEPT ![k] = @ \cup {v}]
                       ELSE seen[q]]
    /\ UNCHANGED <<call, visited>>

Finish(p) ==
    /\ call[p] # Idle /\ res[p] # Pending
    /\ call' = [call EXCEPT ![p] = Idle]
    /\ res' = [res EXCEPT ![p] = Pending]
    /\ visited' = [visited EXCEPT ![p] = NothingVisited]
    /\ UNCHANGED seen
=============================================================================
