------------------------------- MODULE IntMap -------------------------------
(***************************************************************************)
(* util/syncutil/int_map.go: the concurrent map of package syncutil, step  *)
(* by step.  A step is one atomic access to an entry or to m.read, or a    *)
(* stretch of code under m.mu with at most one such access.                *)
(***************************************************************************)
EXTENDS Integers, FiniteSets, MapCalls

CONSTANTS Entries,    \* addresses for the entries of the map
          NoEntry,    \* an absent key of a Go map
          Nil, Expunged,
          Free        \* mu is not held

ASSUME PointerAssumption ==
    /\ NoEntry \notin Entries
    /\ Free \notin Procs
    /\ Nil # Expunged /\ {Nil, Expunged} \cap Opt = {}

ASSUME KeysAssumption == IsFiniteSet(Keys)

Pointers == Values \cup {Nil, Expunged}
GoMaps   == [Keys -> Entries \cup {NoEntry}]
EmptyMap == [k \in Keys |-> NoEntry]

Dom(m) == {k \in Keys : m[k] # NoEntry}

VARIABLES
    ptr,        \* entry.p, of every entry
    readM,      \* read.m
    amended,    \* read.amended
    dirty,      \* dirty, empty while it is nil
    dirtyNil,   \* whether dirty is nil
    misses,
    mu,         \* the process that holds it, or Free
    pc,         \* where each process is
    held,       \* the entries a process has looked up, by key
    ld,         \* the pointer a process read before a compare-and-swap
    todo,       \* the keys a range loop has not come to
    cur         \* the key dirtyLocked is at

mapVars  == <<ptr, readM, amended, dirty, dirtyNil, misses, mu>>
locVars  == <<pc, held, ld, todo, cur>>
vars     == <<mapVars, locVars, callVars>>

(* What the map holds: an entry of the read map counts, expunged or not,   *)
(* before one of the dirty map.                                            *)
Val(x) == IF x \in Values THEN x ELSE None
EntryOf(k) == IF readM[k] # NoEntry THEN readM[k] ELSE dirty[k]
Content == [k \in Keys |->
              IF EntryOf(k) = NoEntry THEN None ELSE Val(ptr[EntryOf(k)])]

Init ==
    /\ ptr = [e \in Entries |-> Nil]
    /\ readM = EmptyMap /\ amended = FALSE
    /\ dirty = EmptyMap /\ dirtyNil = TRUE
    /\ misses = 0
    /\ mu = Free
    /\ pc = [p \in Procs |-> "idle"]
    /\ held = [p \in Procs |-> EmptyMap]
    /\ ld = [p \in Procs |-> Nil]
    /\ todo = [p \in Procs |-> {}]
    /\ cur = [p \in Procs |-> None]
    /\ CallsInit

-----------------------------------------------------------------------------
(* Shorthands: p is at l in a call of one of the operations ops, and goes  *)
(* to l.                                                                   *)
At(p, l, ops) == pc[p] = l /\ call[p].op \in ops
Goto(p, l)    == pc' = [pc EXCEPT ![p] = l]

Key(p)   == call[p].key
Entry(p) == held[p][Key(p)]
Hold(p, e) == held' = [held EXCEPT ![p][Key(p)] = e]

Answered(p) == Answer(p, Result(None, FALSE))

Invoke(p) ==
    /\ \E c \in Calls : Begin(p, c, Content)
    /\ pc[p] = "idle" /\ Goto(p, "fast")
    /\ UNCHANGED <<mapVars, held, ld, todo, cur>>

(* The caller has its result; the call's locals are gone. *)
Return(p) ==
    /\ pc[p] = "ret"
    /\ Finish(p)
    /\ Goto(p, "idle")
    /\ held' = [held EXCEPT ![p] = EmptyMap]
    /\ ld' = [ld EXCEPT ![p] = Nil]
    /\ UNCHANGED <<mapVars, todo, cur>>

-----------------------------------------------------------------------------
(* The fast paths: getRead and a lookup in the read map, without mu.       *)

LoadFast(p) ==
    /\ At(p, "fast", {"Load"})
    /\ \/ /\ readM[Key(p)] # NoEntry
          /\ Hold(p, readM[Key(p)]) /\ Goto(p, "load")
          /\ UNCHANGED callVars
       \/ /\ readM[Key(p)] = NoEntry /\ amended
          /\ Goto(p, "lock") /\ UNCHANGED <<held, callVars>>
       \/ /\ readM[Key(p)] = NoEntry /\ ~amended
          /\ Answered(p) /\ Goto(p, "ret") /\ UNCHANGED held
    /\ UNCHANGED <<mapVars, ld, todo, cur>>

(* Store and LoadOrStore. *)
StoreFast(p) ==
    /\ At(p, "fast", {"Store", "LoadOrStore"})
    /\ \/ /\ readM[Key(p)] # NoEntry
          /\ Hold(p, readM[Key(p)]) /\ Goto(p, "try")
       \/ /\ readM[Key(p)] = NoEntry
          /\ Goto(p, "lock") /\ UNCHANGED held
    /\ UNCHANGED <<mapVars, ld, todo, cur, callVars>>

DeleteFast(p) ==
    /\ At(p, "fast", {"Delete"})
    /\ \/ /\ readM[Key(p)] # NoEntry
          /\ Hold(p, readM[Key(p)]) /\ Goto(p, "delete")
          /\ UNCHANGED callVars
       \/ /\ readM[Key(p)] = NoEntry /\ amended
          /\ Goto(p, "lock") /\ UNCHANGED <<held, callVars>>
       \/ /\ readM[Key(p)] = NoEntry /\ ~amended
          /\ Answered(p) /\ Goto(p, "ret") /\ UNCHANGED held
    /\ UNCHANGED <<mapVars, ld, todo, cur>>

RangeFast(p) ==
    /\ At(p, "fast", {"Range"})
    /\ \/ /\ amended
          /\ Goto(p, "lock") /\ UNCHANGED <<held, todo>>
       \/ /\ ~amended
          /\ held' = [held EXCEPT ![p] = readM]
          /\ todo' = [todo EXCEPT ![p] = Dom(readM)]
          /\ Goto(p, "range")
    /\ UNCHANGED <<mapVars, ld, cur, callVars>>

-----------------------------------------------------------------------------
(* Accesses to an entry that was looked up, with or without mu.            *)

(* entry.load. *)
LoadEntry(p) ==
    /\ At(p, "load", {"Load"})
    /\ LET v == Val(ptr[Entry(p)])
       IN  Answer(p, Result(v, v # None))
    /\ Goto(p, "ret")
    /\ UNCHANGED <<mapVars, held, ld, todo, cur>>

(* Bug: an expunged entry is stored to like any other. *)
TryStoreLoadBug(p) ==
    /\ At(p, "try", {"Store"})
    /\ ld' = [ld EXCEPT ![p] = ptr[Entry(p)]]
    /\ Goto(p, "cas")
    /\ UNCHANGED <<mapVars, held, todo, cur, callVars>>

(* entry.tryStore: load, then compare-and-swap, until one of them decides. *)
TryStoreLoad(p) ==
    /\ At(p, "try", {"Store"})
    /\ ld' = [ld EXCEPT ![p] = ptr[Entry(p)]]
    /\ Goto(p, IF ptr[Entry(p)] = Expunged THEN "lock" ELSE "cas")
    /\ UNCHANGED <<mapVars, held, todo, cur, callVars>>

TryStoreCAS(p) ==
    /\ At(p, "cas", {"Store"})
    /\ \/ /\ ptr[Entry(p)] = ld[p]
          /\ ptr' = [ptr EXCEPT ![Entry(p)] = call[p].val]
          /\ AnswerWriting(p, Result(None, FALSE), Key(p), call[p].val)
          /\ Goto(p, "ret")
       \/ /\ ptr[Entry(p)] # ld[p]
          /\ Goto(p, "try")
          /\ UNCHANGED <<ptr, callVars>>
    /\ UNCHANGED <<readM, amended, dirty, dirtyNil, misses, mu, held, ld, todo, cur>>

(* entry.tryLoadOrStore, called without mu or with it.  With mu its ok is  *)
(* ignored; afterwards an entry found in the dirty map is counted a miss.  *)
AfterTry(p) == IF mu # p THEN "ret"
               ELSE IF readM[Key(p)] = NoEntry THEN "miss" ELSE "unlock"

Loaded(p, x) == Result(x, TRUE)

TryLoad(p) ==
    /\ At(p, "try", {"LoadOrStore"})
    /\ LET x == ptr[Entry(p)]
       IN  \/ /\ x = Expunged
              /\ IF mu = p THEN Answered(p) /\ Goto(p, AfterTry(p))
                 ELSE Goto(p, "lock") /\ UNCHANGED callVars
           \/ /\ x = Nil
              /\ Goto(p, "cas") /\ UNCHANGED callVars
           \/ /\ x \in Values
              /\ Answer(p, Loaded(p, x)) /\ Goto(p, AfterTry(p))
    /\ UNCHANGED <<mapVars, held, ld, todo, cur>>

TryCAS(p) ==
    /\ At(p, "cas", {"LoadOrStore"})
    /\ \/ /\ ptr[Entry(p)] = Nil
          /\ ptr' = [ptr EXCEPT ![Entry(p)] = call[p].val]
          /\ AnswerWriting(p, Result(call[p].val, FALSE), Key(p), call[p].val)
          /\ Goto(p, AfterTry(p))
       \/ /\ ptr[Entry(p)] # Nil
          /\ Goto(p, "try")
          /\ UNCHANGED <<ptr, callVars>>
    /\ UNCHANGED <<readM, amended, dirty, dirtyNil, misses, mu, held, ld, todo, cur>>

(* entry.delete. *)
DeleteLoad(p) ==
    /\ At(p, "delete", {"Delete"})
    /\ ld' = [ld EXCEPT ![p] = ptr[Entry(p)]]
    /\ \/ /\ ptr[Entry(p)] \in {Nil, Expunged}
          /\ Answered(p) /\ Goto(p, "ret")
       \/ /\ ptr[Entry(p)] \in Values
          /\ Goto(p, "cas") /\ UNCHANGED callVars
    /\ UNCHANGED <<mapVars, held, todo, cur>>

DeleteCAS(p) ==
    /\ At(p, "cas", {"Delete"})
    /\ \/ /\ ptr[Entry(p)] = ld[p]
          /\ ptr' = [ptr EXCEPT ![Entry(p)] = Nil]
          /\ AnswerWriting(p, Result(None, FALSE), Key(p), None)
          /\ Goto(p, "ret")
       \/ /\ ptr[Entry(p)] # ld[p]
          /\ Goto(p, "delete")
          /\ UNCHANGED <<ptr, callVars>>
    /\ UNCHANGED <<readM, amended, dirty, dirtyNil, misses, mu, held, ld, todo, cur>>

-----------------------------------------------------------------------------
(* The slow paths, under mu.                                               *)

Lock(p) ==
    /\ pc[p] = "lock" /\ mu = Free
    /\ mu' = p
    /\ Goto(p, "locked")
    /\ UNCHANGED <<ptr, readM, amended, dirty, dirtyNil, misses,
                   held, ld, todo, cur, callVars>>

(* Load and Delete go on to the entry they found, Range to its loop. *)
Unlock(p) ==
    /\ pc[p] = "unlock"
    /\ mu' = Free
    /\ Goto(p, IF res[p] # Pending THEN "ret"
               ELSE CASE call[p].op = "Load"   -> "load"
                      [] call[p].op = "Delete" -> "delete"
                      [] OTHER -> "range")
    /\ UNCHANGED <<ptr, readM, amended, dirty, dirtyNil, misses,
                   held, ld, todo, cur, callVars>>

(* The dirty map becomes the read map. *)
Promote ==
    /\ readM' = dirty /\ amended' = FALSE
    /\ dirty' = EmptyMap /\ dirtyNil' = TRUE
    /\ misses' = 0

MissLocked ==
    \/ /\ misses + 1 < Cardinality(Dom(dirty))
       /\ misses' = misses + 1
       /\ UNCHANGED <<readM, amended, dirty, dirtyNil>>
    \/ /\ misses + 1 >= Cardinality(Dom(dirty))
       /\ Promote

LoadLocked(p) ==
    /\ At(p, "locked", {"Load"})
    /\ \/ /\ readM[Key(p)] # NoEntry
          /\ Hold(p, readM[Key(p)])
          /\ UNCHANGED <<readM, amended, dirty, dirtyNil, misses, callVars>>
       \/ /\ readM[Key(p)] = NoEntry /\ amended
          /\ Hold(p, dirty[Key(p)])
          /\ IF dirty[Key(p)] = NoEntry THEN Answered(p) ELSE UNCHANGED callVars
          /\ MissLocked
       \/ /\ readM[Key(p)] = NoEntry /\ ~amended
          /\ Answered(p)
          /\ UNCHANGED <<readM, amended, dirty, dirtyNil, misses, held>>
    /\ Goto(p, "unlock")
    /\ UNCHANGED <<ptr, mu, ld, todo, cur>>

DeleteLocked(p) ==
    /\ At(p, "locked", {"Delete"})
    /\ \/ /\ readM[Key(p)] # NoEntry
          /\ Hold(p, readM[Key(p)])
          /\ UNCHANGED <<dirty, callVars>>
       \/ /\ readM[Key(p)] = NoEntry /\ amended
          /\ dirty' = [dirty EXCEPT ![Key(p)] = NoEntry]
          /\ AnswerWriting(p, Result(None, FALSE), Key(p), None)
          /\ UNCHANGED held
       \/ /\ readM[Key(p)] = NoEntry /\ ~amended
          /\ Answered(p)
          /\ UNCHANGED <<dirty, held>>
    /\ Goto(p, "unlock")
    /\ UNCHANGED <<ptr, readM, amended, dirtyNil, misses, mu, ld, todo, cur>>

RangeLocked(p) ==
    /\ At(p, "locked", {"Range"})
    /\ \/ /\ amended
          /\ Promote
       \/ /\ ~amended
          /\ UNCHANGED <<readM, amended, dirty, dirtyNil, misses>>
    /\ held' = [held EXCEPT ![p] = readM']
    /\ todo' = [todo EXCEPT ![p] = Dom(readM')]
    /\ Goto(p, "unlock")
    /\ UNCHANGED <<ptr, mu, ld, cur, callVars>>

(* Bug: the entry is not put back. *)
UnexpungeBug(k, e) ==
    /\ ptr' = IF ptr[e] = Expunged THEN [ptr EXCEPT ![e] = Nil] ELSE ptr
    /\ UNCHANGED dirty

(* unexpungeLocked: an expunged entry becomes a deleted one, and goes back *)
(* into the dirty map.                                                     *)
Unexpunge(k, e) ==
    \/ /\ ptr[e] = Expunged
       /\ ptr' = [ptr EXCEPT ![e] = Nil]
       /\ dirty' = [dirty EXCEPT ![k] = e]
    \/ /\ ptr[e] # Expunged
       /\ UNCHANGED <<ptr, dirty>>

(* Store and LoadOrStore with the key in the read map. *)
FindRead(p) ==
    /\ At(p, "locked", {"Store", "LoadOrStore"})
    /\ readM[Key(p)] # NoEntry
    /\ Unexpunge(Key(p), readM[Key(p)])
    /\ Hold(p, readM[Key(p)])
    /\ Goto(p, IF call[p].op = "Store" THEN "put" ELSE "try")
    /\ UNCHANGED <<readM, amended, dirtyNil, misses, mu, ld, todo, cur, callVars>>

(* The key is in the dirty map only. *)
FindDirty(p) ==
    /\ At(p, "locked", {"Store", "LoadOrStore"})
    /\ readM[Key(p)] = NoEntry /\ dirty[Key(p)] # NoEntry
    /\ Hold(p, dirty[Key(p)])
    /\ Goto(p, IF call[p].op = "Store" THEN "put" ELSE "try")
    /\ UNCHANGED <<mapVars, ld, todo, cur, callVars>>

(* The key is new: if the read map is complete, dirtyLocked allocates the  *)
(* dirty map, unless it is there, and copies the read map into it.         *)
FindNone(p) ==
    /\ At(p, "locked", {"Store", "LoadOrStore"})
    /\ readM[Key(p)] = NoEntry /\ dirty[Key(p)] = NoEntry
    /\ \/ /\ ~amended
          /\ dirtyNil' = FALSE
          /\ todo' = [todo EXCEPT ![p] = IF dirtyNil THEN Dom(readM) ELSE {}]
          /\ Goto(p, "expunge")
       \/ /\ amended
          /\ Goto(p, "new")
          /\ UNCHANGED <<dirtyNil, todo>>
    /\ UNCHANGED <<ptr, readM, amended, dirty, misses, mu, held, ld, cur, callVars>>

(* entry.storeLocked. *)
Put(p) ==
    /\ pc[p] = "put"
    /\ ptr' = [ptr EXCEPT ![Entry(p)] = call[p].val]
    /\ AnswerWriting(p, Result(None, FALSE), Key(p), call[p].val)
    /\ Goto(p, "unlock")
    /\ UNCHANGED <<readM, amended, dirty, dirtyNil, misses, mu, held, ld, todo, cur>>

(* LoadOrStore, after it found the key in the dirty map. *)
Miss(p) ==
    /\ pc[p] = "miss"
    /\ MissLocked
    /\ Goto(p, "unlock")
    /\ UNCHANGED <<ptr, mu, held, ld, todo, cur, callVars>>

(* dirtyLocked copies the read map without its deleted entries:            *)
(* tryExpungeLocked loads the pointer of an entry,                         *)
ExpungeLoad(p) ==
    /\ pc[p] = "expunge"
    /\ \E k \in IF cur[p] = None THEN todo[p] ELSE {cur[p]} :
          \/ /\ ptr[readM[k]] = Nil
             /\ cur' = [cur EXCEPT ![p] = k]
             /\ Goto(p, "expungeCAS")
             /\ UNCHANGED <<dirty, todo>>
          \/ /\ ptr[readM[k]] # Nil
             /\ dirty' = IF ptr[readM[k]] = Expunged THEN dirty
                         ELSE [dirty EXCEPT ![k] = readM[k]]
             /\ todo' = [todo EXCEPT ![p] = @ \ {k}]
             /\ cur' = [cur EXCEPT ![p] = None]
             /\ UNCHANGED pc
    /\ UNCHANGED <<ptr, readM, amended, dirtyNil, misses, mu, held, ld, callVars>>

(* Bug: the expunged entry is copied all the same. *)
ExpungeCASBug(p) ==
    /\ pc[p] = "expungeCAS"
    /\ LET e == readM[cur[p]]
       IN  \/ /\ ptr[e] = Nil
              /\ ptr' = [ptr EXCEPT ![e] = Expunged]
              /\ dirty' = [dirty EXCEPT ![cur[p]] = e]
              /\ todo' = [todo EXCEPT ![p] = @ \ {cur[p]}]
              /\ cur' = [cur EXCEPT ![p] = None]
           \/ /\ ptr[e] # Nil
              /\ UNCHANGED <<ptr, dirty, todo, cur>>
    /\ Goto(p, "expunge")
    /\ UNCHANGED <<readM, amended, dirtyNil, misses, mu, held, ld, callVars>>

(* and replaces a nil by expunged, unless somebody stored meanwhile. *)
ExpungeCAS(p) ==
    /\ pc[p] = "expungeCAS"
    /\ LET e == readM[cur[p]]
       IN  \/ /\ ptr[e] = Nil
              /\ ptr' = [ptr EXCEPT ![e] = Expunged]
              /\ todo' = [todo EXCEPT ![p] = @ \ {cur[p]}]
              /\ cur' = [cur EXCEPT ![p] = None]
           \/ /\ ptr[e] # Nil
              /\ UNCHANGED <<ptr, todo, cur>>
    /\ Goto(p, "expunge")
    /\ UNCHANGED <<readM, amended, dirty, dirtyNil, misses, mu, held, ld, callVars>>

(* The copy is complete: the read map is marked incomplete. *)
Amend(p) ==
    /\ pc[p] = "expunge" /\ cur[p] = None /\ todo[p] = {}
    /\ amended' = TRUE
    /\ Goto(p, "new")
    /\ UNCHANGED <<ptr, readM, dirty, dirtyNil, misses, mu, held, ld, todo, cur, callVars>>

(* newEntry gives an address nothing refers to. *)
Unused(e) == /\ \A k \in Keys : readM[k] # e /\ dirty[k] # e
             /\ \A p \in Procs : \A k \in Keys : held[p][k] # e

New(p) ==
    /\ pc[p] = "new"
    /\ \E e \in Entries :
          /\ Unused(e)
          /\ ptr' = [ptr EXCEPT ![e] = call[p].val]
          /\ dirty' = [dirty EXCEPT ![Key(p)] = e]
    /\ AnswerWriting(p, IF call[p].op = "Store" THEN Result(None, FALSE)
                        ELSE Result(call[p].val, FALSE), Key(p), call[p].val)
    /\ Goto(p, "unlock")
    /\ UNCHANGED <<readM, amended, dirtyNil, misses, mu, held, ld, todo, cur>>

-----------------------------------------------------------------------------
(* Range's loop: one entry is loaded, and f is called if it has a value.   *)
RangeLoad(p) ==
    /\ pc[p] = "range"
    /\ \E k \in todo[p] :
          /\ todo' = [todo EXCEPT ![p] = @ \ {k}]
          /\ LET v == Val(ptr[held[p][k]])
             IN  \/ /\ v = None
                    /\ UNCHANGED <<pc, visited>>
                 \/ /\ v # None
                    /\ visited' = [visited EXCEPT ![p][k] = v]
                    /\ Goto(p, "f")
    /\ UNCHANGED <<mapVars, held, ld, cur, call, res, seen>>

(* f returns true, or false to stop the loop. *)
RangeF(p) ==
    /\ pc[p] = "f"
    /\ \/ Goto(p, "range") /\ UNCHANGED callVars
       \/ Answered(p) /\ Goto(p, "ret")
    /\ UNCHANGED <<mapVars, held, ld, todo, cur>>

RangeEnd(p) ==
    /\ pc[p] = "range" /\ todo[p] = {}
    /\ Answer(p, Result(None, TRUE))
    /\ Goto(p, "ret")
    /\ UNCHANGED <<mapVars, held, ld, todo, cur>>

-----------------------------------------------------------------------------
Step(p) ==
    \/ Invoke(p) \/ Return(p)
    \/ LoadFast(p) \/ StoreFast(p) \/ DeleteFast(p) \/ RangeFast(p)
    \/ LoadEntry(p) \/ TryStoreLoad(p) \/ TryStoreCAS(p)
    \/ TryLoad(p) \/ TryCAS(p) \/ DeleteLoad(p) \/ DeleteCAS(p)
    \/ Lock(p) \/ Unlock(p)
    \/ LoadLocked(p) \/ DeleteLocked(p) \/ RangeLocked(p)
    \/ FindRead(p) \/ FindDirty(p) \/ FindNone(p) \/ Put(p) \/ Miss(p)
    \/ ExpungeLoad(p) \/ ExpungeCAS(p) \/ Amend(p) \/ New(p)
    \/ RangeLoad(p) \/ RangeF(p) \/ RangeEnd(p)

Next == \E p \in Procs : Step(p)

Spec == Init /\ [][Next]_vars

-----------------------------------------------------------------------------
(* Every variable has its type, and misses is capped by the dirty map.     *)
TypeOK ==
    /\ ptr \in [Entries -> Pointers]
    /\ readM \in GoMaps /\ dirty \in GoMaps
    /\ amended \in BOOLEAN /\ dirtyNil \in BOOLEAN
    /\ dirtyNil => dirty = EmptyMap
    /\ misses \in 0..Cardinality(Keys)
    /\ mu \in Procs \cup {Free}
    /\ pc \in [Procs -> {"idle", "fast", "load", "try", "cas", "delete", "lock",
                         "locked", "unlock", "put", "miss", "expunge", "expungeCAS",
                         "new", "range", "f", "ret"}]
    /\ held \in [Procs -> GoMaps]
    /\ ld \in [Procs -> Pointers]
    /\ todo \in [Procs -> SUBSET Keys]
    /\ cur \in [Procs -> Keys \cup {None}]
    /\ call \in [Procs -> Calls \cup {Idle}]
    /\ res \in [Procs -> Results]
    /\ seen \in [Procs -> [Keys -> SUBSET Opt]]
    /\ visited \in [Procs -> [Keys -> Opt]]

(* There is an address for a new entry when one is needed: the instance    *)
(* has enough of them.                                                     *)
RoomForNew == \A p \in Procs : pc[p] = "new" => \E e \in Entries : Unused(e)

(* The keys dirtyLocked, run by the process that holds mu, has still to    *)
(* copy.                                                                   *)
Uncopied == UNION {todo[p] : p \in {q \in Procs : pc[q] \in {"expunge", "expungeCAS"}}}

(* "To ensure that the dirty map can be promoted to the read map quickly,  *)
(* it also includes all of the non-expunged entries in the read map"       *)
(* (int_map.go:57-58), whatever the others do while dirtyLocked copies     *)
(* them.                                                                   *)
DirtyIncludesRead ==
    ~dirtyNil => \A k \in Dom(readM) \ Uncopied :
                    ptr[readM[k]] # Expunged => dirty[k] = readM[k]

(* "If p == expunged, the entry has been deleted, m.dirty != nil, and the  *)
(* entry is missing from m.dirty" (int_map.go:93-94).                      *)
ExpungedNotInDirty ==
    \A k \in Dom(readM) : ptr[readM[k]] = Expunged =>
        ~dirtyNil /\ \A j \in Keys : dirty[j] # readM[k]

(* "true if the dirty map contains some key not in m" (int_map.go:80): no  *)
(* key the fast paths cannot see is in the map while they think that they  *)
(* see them all.                                                           *)
NewKeyAmended == Dom(dirty) \subseteq Dom(readM) \/ amended

(* "The entry must be known not to be expunged" (int_map.go:210) when it   *)
(* is stored to under mu; LoadOrStore ignores tryLoadOrStore's ok there    *)
(* (int_map.go:234, 236) for the same reason.                              *)
LockedNotExpunged ==
    \A p \in Procs :
        pc[p] = "put" \/ (pc[p] \in {"try", "cas"} /\ mu = p) => ptr[Entry(p)] # Expunged

(* What the comments of int_map.go say of the two maps, at every step of   *)
(* every goroutine and not only when mu is free.                           *)
MapsConsistent ==
    /\ TypeOK /\ RoomForNew
    /\ DirtyIncludesRead /\ ExpungedNotInDirty
    /\ NewKeyAmended /\ LockedNotExpunged

(* The fast paths write without mu to an entry they looked up earlier:     *)
(* unless it was expunged meanwhile it is still the entry of its key, so   *)
(* nothing is ever written to an entry the map has lost.                   *)
WritesReachMap ==
    \A p \in Procs :
        At(p, "try", {"Store", "LoadOrStore"}) \/ At(p, "delete", {"Delete"})
            \/ At(p, "cas", {"Store", "LoadOrStore", "Delete"}) =>
        ptr[Entry(p)] = Expunged \/ EntryOf(Key(p)) = Entry(p)

Atomic == INSTANCE AtomicMap WITH map <- Content

(* The map linearises: its code implements the atomic map. *)
Linearizable == Atomic!Spec
=============================================================================
