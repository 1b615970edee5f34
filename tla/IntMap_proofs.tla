---------------------------- MODULE IntMap_proofs ---------------------------
(***************************************************************************)
(* The map of package syncutil for any number of goroutines, keys and      *)
(* values: what the comments of int_map.go say of its two maps, that no    *)
(* write is lost, and that it implements AtomicMap.                        *)
(***************************************************************************)
EXTENDS IntMap, FiniteSetTheorems, TLAPS

Critical == {"locked", "unlock", "put", "miss", "expunge", "expungeCAS", "new"}
Copying  == {"expunge", "expungeCAS"}
Storing  == {"Store", "LoadOrStore"}
Labels   == {"idle", "fast", "load", "try", "cas", "delete", "lock",
             "locked", "unlock", "put", "miss", "expunge", "expungeCAS",
             "new", "range", "f", "ret"}

-----------------------------------------------------------------------------
(* The inductive invariant: what is true of the maps,                      *)

(* Whoever refers to entry e does so under one key.                        *)
RefersTo(k, e) == readM[k] = e \/ dirty[k] = e \/ \E p \in Procs : held[p][k] = e

OneKey == \A e \in Entries : \A j, k \in Keys : RefersTo(j, e) /\ RefersTo(k, e) => j = k

(* The two maps have the same entry for a key; no entry of the dirty map   *)
(* is expunged, and entries are only as long as there is a dirty map.      *)
EntryInv ==
    /\ \A k \in Keys : readM[k] # NoEntry /\ dirty[k] # NoEntry => dirty[k] = readM[k]
    /\ \A k \in Keys : dirty[k] # NoEntry => ptr[dirty[k]] # Expunged
    /\ \A k \in Keys : readM[k] # NoEntry /\ ptr[readM[k]] = Expunged => ~dirtyNil
    /\ amended => ~dirtyNil

(* An entry that the dirty map lacks is still to be copied.                *)
CopyInv ==
    \A k \in Keys :
        ~dirtyNil /\ readM[k] # NoEntry /\ ptr[readM[k]] # Expunged /\ dirty[k] # readM[k] =>
            \E p \in Procs : pc[p] \in Copying /\ k \in todo[p]

(* and what is true of goroutine p.                                        *)

(* p holds mu exactly in the critical sections; LoadOrStore tries an entry *)
(* with mu and without.                                                    *)
MuP(p) ==
    /\ pc[p] \in Critical => mu = p
    /\ mu = p => pc[p] \in Critical \cup {"try", "cas"}
    /\ mu = p /\ pc[p] \in {"try", "cas"} => call[p].op = "LoadOrStore"

(* Which operation is where, whether it has its answer, and what a         *)
(* compare-and-swap expects.                                               *)
CallP(p) ==
    /\ pc[p] = "idle" <=> call[p] = Idle
    /\ pc[p] = "load" => call[p].op = "Load"
    /\ pc[p] = "delete" => call[p].op = "Delete"
    /\ pc[p] = "put" => call[p].op = "Store"
    /\ pc[p] = "miss" => call[p].op = "LoadOrStore"
    /\ pc[p] \in Copying \cup {"try", "new"} => call[p].op \in Storing
    /\ pc[p] = "cas" => call[p].op \in Storing \cup {"Delete"}
    /\ pc[p] \in {"range", "f"} => call[p].op = "Range"
    /\ pc[p] \notin {"unlock", "miss", "ret"} => res[p] = Pending
    /\ pc[p] \in {"miss", "ret"} => res[p] # Pending
    /\ pc[p] = "unlock" /\ call[p].op \in Storing => res[p] # Pending
    /\ pc[p] = "unlock" /\ call[p].op = "Range" => res[p] = Pending
    /\ pc[p] = "cas" /\ call[p].op = "Store" => ld[p] # Expunged
    /\ pc[p] = "cas" /\ call[p].op = "Delete" => ld[p] \in Values

(* The dirty map is there when it is needed, and the one that copies the   *)
(* read map into it does so for a key that is in neither.                  *)
DirtyP(p) ==
    /\ pc[p] \in Copying =>
          /\ ~dirtyNil /\ ~amended
          /\ \A k \in todo[p] : readM[k] # NoEntry /\ dirty[k] = NoEntry
    /\ cur[p] # None => pc[p] \in Copying /\ cur[p] \in todo[p]
    /\ pc[p] = "expungeCAS" => cur[p] # None
    /\ pc[p] \in Copying \cup {"new"} => readM[Key(p)] = NoEntry /\ dirty[Key(p)] = NoEntry
    /\ pc[p] = "new" => amended
    /\ pc[p] = "miss" => ~dirtyNil

(* An operation that looked up an entry and has still to access it.        *)
Looked(p) == \/ pc[p] \in {"load", "put", "try", "cas", "delete"}
             \/ pc[p] = "unlock" /\ call[p].op \in {"Load", "Delete"} /\ res[p] = Pending

(* Without mu, an entry that was looked up is in the read map or expunged; *)
(* with mu, it is the key's.  Between calls nothing is held.               *)
HeldP(p) ==
    /\ pc[p] = "idle" => held[p] = EmptyMap
    /\ Looked(p) => held[p][Key(p)] # NoEntry
    /\ Looked(p) /\ call[p].op # "Load" /\ (mu # p \/ pc[p] = "unlock") =>
          ptr[held[p][Key(p)]] = Expunged \/ readM[Key(p)] = held[p][Key(p)]
    /\ pc[p] = "put" \/ (pc[p] \in {"try", "cas"} /\ mu = p) =>
          ptr[held[p][Key(p)]] # Expunged /\ EntryOf(Key(p)) = held[p][Key(p)]

(* A pending call has seen what its keys hold, and what the entries hold   *)
(* that it looked up.                                                      *)
SeenP(p) ==
    \A k \in KeysOf(call[p]) : res[p] = Pending =>
        /\ Content[k] \in seen[p][k]
        /\ held[p][k] # NoEntry => Val(ptr[held[p][k]]) \in seen[p][k]

(* Range has still to visit the keys todo; each of the others was visited, *)
(* or absent at some moment.                                               *)
RangeP(p) ==
    /\ pc[p] \notin {"range", "f", "ret"} => visited[p] = NothingVisited
    /\ pc[p] \in {"range", "f"} \/ (pc[p] = "unlock" /\ call[p].op = "Range") =>
          \A k \in Keys :
             /\ k \in todo[p] => visited[p][k] = None /\ held[p][k] # NoEntry
             /\ k \notin todo[p] => visited[p][k] # None \/ None \in seen[p][k]

ProcInv(p) == MuP(p) /\ CallP(p) /\ DirtyP(p) /\ HeldP(p) /\ SeenP(p) /\ RangeP(p)

MapInv == OneKey /\ EntryInv /\ CopyInv /\ NewKeyAmended

IInv == TypeOK /\ MapInv /\ \A p \in Procs : ProcInv(p)

-----------------------------------------------------------------------------
(* Types, in parts.                                                        *)
CoreType ==
    /\ ptr \in [Entries -> Pointers]
    /\ readM \in GoMaps /\ dirty \in GoMaps
    /\ amended \in BOOLEAN /\ dirtyNil \in BOOLEAN
    /\ dirtyNil => dirty = EmptyMap

LocalType ==
    /\ pc \in [Procs -> Labels] /\ held \in [Procs -> GoMaps]
    /\ ld \in [Procs -> Pointers] /\ todo \in [Procs -> SUBSET Keys]
    /\ cur \in [Procs -> Keys \cup {None}]

CallType ==
    /\ call \in [Procs -> Calls \cup {Idle}]
    /\ res \in [Procs -> Results]
    /\ seen \in [Procs -> [Keys -> SUBSET Opt]]
    /\ visited \in [Procs -> [Keys -> Opt]]

LEMMA Types ==
    TypeOK <=> /\ CoreType /\ LocalType /\ CallType
               /\ misses \in 0..Cardinality(Keys) /\ mu \in Procs \cup {Free}
BY DEF TypeOK, CoreType, LocalType, CallType, Labels

LEMMA Apart ==
    /\ NoEntry \notin Entries /\ Free \notin Procs
    /\ Nil # Expunged /\ Nil \notin Values /\ Expunged \notin Values
    /\ None \notin Values /\ None \notin Keys
BY PointerAssumption, NoneAssumption DEF Opt

LEMMA ResultType ==
    ASSUME NEW v \in Opt, NEW l \in BOOLEAN
    PROVE  Result(v, l) \in Results /\ Result(v, l) # Pending
BY DEF Result, Results, Pending, Opt

LEMMA PendingType == Pending \in Results
BY DEF Results, Pending, Opt

LEMMA ValType == ASSUME NEW x \in Pointers PROVE Val(x) \in Opt
BY DEF Val, Opt

(* What the operations are called with.                                    *)
LEMMA KeyedCall ==
    ASSUME CallType, NEW p \in Procs, call[p].op \in {"Load", "Delete", "Store", "LoadOrStore"}
    PROVE  /\ Key(p) \in Keys /\ KeysOf(call[p]) = {Key(p)}
           /\ call[p].op \in Storing => call[p].val \in Values
           /\ call[p] # Idle /\ call[p].op # "Range"
<1>1. call[p] \in KeyCalls \cup {RangeCall, Idle}
  BY DEF CallType, Calls
<1>2. RangeCall.op = "Range" /\ Idle.op = "Idle"
  BY DEF RangeCall, Idle
<1>3. call[p] \in KeyCalls
  BY <1>1, <1>2
<1>4. Key(p) \in Keys /\ (call[p].op \in Storing => call[p].val \in Values)
  BY <1>3 DEF KeyCalls, Key, Storing
<1> QED
  BY <1>2, <1>4 DEF KeysOf, Key

LEMMA RangeKeys ==
    ASSUME CallType, NEW p \in Procs, call[p].op = "Range"
    PROVE  KeysOf(call[p]) = Keys /\ call[p] # Idle
BY DEF KeysOf, Idle

LEMMA IdleKeys == ASSUME NEW p \in Procs, call[p] = Idle PROVE KeysOf(call[p]) = {} /\ call[p].op = "Idle"
BY Apart DEF KeysOf, Idle

LEMMA Calling ==
    ASSUME CallType, NEW p \in Procs
    PROVE  call[p].op \in {"Load", "Delete", "Store", "LoadOrStore", "Range", "Idle"}
BY DEF CallType, Calls, KeyCalls, RangeCall, Idle

LEMMA KeysOfType == ASSUME CallType, NEW p \in Procs PROVE KeysOf(call[p]) \subseteq Keys
BY DEF KeysOf

(* What an answer changes.                                                 *)
LEMMA AnswerStep ==
    ASSUME CallType, NEW p \in Procs, NEW r \in Results, Answer(p, r)
    PROVE  /\ CallType' /\ res'[p] = r /\ call' = call /\ visited' = visited
           /\ \A q \in Procs \ {p} : res'[q] = res[q] /\ seen'[q] = seen[q]
<1>1. NothingSeen \in [Keys -> SUBSET Opt]
  BY DEF NothingSeen
<1> QED
  BY <1>1 DEF CallType, Answer

LEMMA WritingStep ==
    ASSUME CallType, NEW p \in Procs, NEW r \in Results, NEW k \in Keys, NEW v \in Opt,
           AnswerWriting(p, r, k, v)
    PROVE  /\ CallType' /\ res'[p] = r /\ call' = call /\ visited' = visited
           /\ \A q \in Procs \ {p} :
                 /\ res'[q] = res[q]
                 /\ \A j \in Keys : seen[q][j] \subseteq seen'[q][j]
                 /\ res[q] = Pending /\ k \in KeysOf(call[q]) => v \in seen'[q][k]
<1>1. NothingSeen \in [Keys -> SUBSET Opt]
  BY DEF NothingSeen
<1>2. ASSUME NEW q \in Procs, NEW S \in [Keys -> SUBSET Opt]
      PROVE  [S EXCEPT ![k] = @ \cup {v}] \in [Keys -> SUBSET Opt]
  OBVIOUS
<1>3. seen' \in [Procs -> [Keys -> SUBSET Opt]]
  BY <1>1, <1>2 DEF CallType, AnswerWriting
<1>4. res' \in [Procs -> Results] /\ res'[p] = r /\ \A q \in Procs \ {p} : res'[q] = res[q]
  BY DEF CallType, AnswerWriting
<1>5. call' = call /\ visited' = visited
  BY DEF AnswerWriting
<1>6. ASSUME NEW q \in Procs \ {p}
      PROVE  /\ \A j \in Keys : seen[q][j] \subseteq seen'[q][j]
             /\ res[q] = Pending /\ k \in KeysOf(call[q]) => v \in seen'[q][k]
  <2>1. CASE res[q] = Pending /\ k \in KeysOf(call[q])
    <3>1. seen'[q] = [seen[q] EXCEPT ![k] = @ \cup {v}] /\ seen[q] \in [Keys -> SUBSET Opt]
      BY <2>1 DEF CallType, AnswerWriting
    <3> QED
      BY <3>1
  <2>2. CASE ~(res[q] = Pending /\ k \in KeysOf(call[q]))
    BY <2>2 DEF AnswerWriting
  <2> QED
    BY <2>1, <2>2
<1> QED
  BY <1>3, <1>4, <1>5, <1>6 DEF CallType

-----------------------------------------------------------------------------
(* What a step of p leaves alone in the others.                            *)
OthersKeep(p) ==
    \A q \in Procs \ {p} :
        /\ pc'[q] = pc[q] /\ held'[q] = held[q] /\ ld'[q] = ld[q]
        /\ todo'[q] = todo[q] /\ cur'[q] = cur[q]
        /\ call'[q] = call[q] /\ res'[q] = res[q] /\ visited'[q] = visited[q]
        /\ \A k \in Keys : seen[q][k] \subseteq seen'[q][k]
        /\ mu' = q <=> mu = q

(* An entry that is expunged stays so, or goes back to the read map, for   *)
(* the key of those that hold it.                                          *)
KeepsExpunged(p) ==
    \A q \in Procs \ {p} : \A k \in Keys :
        LET e == held[q][k]
        IN  e # NoEntry /\ (ptr[e] = Expunged \/ readM[k] = e) =>
               ptr'[e] = Expunged \/ readM'[k] = e

(* Without mu, p neither changes the maps nor expunges an entry.           *)
KeepsMaps(p) ==
    \/ mu = p
    \/ /\ UNCHANGED <<readM, dirty, amended, dirtyNil>>
       /\ \A e \in Entries : ptr[e] # Expunged => ptr'[e] # Expunged

(* The others have seen what the map and their entries hold now.           *)
KeepsSeen(p) ==
    \A q \in Procs \ {p} : \A k \in KeysOf(call[q]) : res[q] = Pending =>
        /\ Content'[k] \in seen'[q][k]
        /\ held[q][k] # NoEntry => Val(ptr'[held[q][k]]) \in seen'[q][k]

LEMMA OthersKept ==
  ASSUME IInv, NEW p \in Procs, OthersKeep(p), KeepsExpunged(p), KeepsMaps(p), KeepsSeen(p),
         NEW q \in Procs \ {p}
  PROVE  ProcInv(q)'
<1>1. /\ pc'[q] = pc[q] /\ held'[q] = held[q] /\ ld'[q] = ld[q] /\ todo'[q] = todo[q]
      /\ cur'[q] = cur[q] /\ call'[q] = call[q] /\ res'[q] = res[q]
      /\ visited'[q] = visited[q]
      /\ mu' = q <=> mu = q
  BY DEF OthersKeep
<1>2. \A k \in Keys : seen[q][k] \subseteq seen'[q][k]
  BY DEF OthersKeep
<1>3. MuP(q) /\ CallP(q) /\ DirtyP(q) /\ HeldP(q) /\ SeenP(q) /\ RangeP(q)
  BY DEF IInv, ProcInv
<1>4. mu = q => /\ UNCHANGED <<readM, dirty, amended, dirtyNil>>
                /\ \A e \in Entries : ptr[e] # Expunged => ptr'[e] # Expunged
  BY DEF KeepsMaps
<1>5. MuP(q)'
  BY <1>1, <1>3 DEF MuP
<1>6. CallP(q)'
  BY <1>1, <1>3 DEF CallP
<1>7. DirtyP(q)'
  <2>1. CASE pc[q] \in Critical
    <3>1. UNCHANGED <<readM, dirty, amended, dirtyNil>>
      BY <1>3, <1>4, <2>1 DEF MuP
    <3> QED
      BY <1>1, <1>3, <3>1 DEF DirtyP, Key
  <2>2. CASE pc[q] \notin Critical
    <3>1. pc[q] \notin Copying \cup {"new", "miss", "expungeCAS"}
      BY <2>2 DEF Critical, Copying
    <3> QED
      BY <1>1, <1>3, <3>1 DEF DirtyP
  <2> QED
    BY <2>1, <2>2
<1>8. HeldP(q)'
  <2>1. PICK k : k = Key(q)
    OBVIOUS
  <2>2. PICK e : e = held[q][k]
    OBVIOUS
  <2>3. /\ Key(q)' = k /\ held'[q][k] = e /\ (Looked(q)' <=> Looked(q))
    BY <1>1, <2>1, <2>2 DEF Key, Looked
  <2>4. Looked(q) => e # NoEntry /\ k \in Keys /\ e \in Entries
    <3>1. Looked(q) => call[q].op \in {"Load", "Delete", "Store", "LoadOrStore"}
      BY <1>3 DEF Looked, CallP, Storing
    <3>2. Looked(q) => k \in Keys
      BY <2>1, <3>1, KeyedCall, Types DEF IInv
    <3>3. k \in Keys => e \in Entries \cup {NoEntry}
      BY <2>2, Types DEF IInv, LocalType, GoMaps
    <3> QED
      BY <1>3, <2>1, <2>2, <3>2, <3>3 DEF HeldP
  <2>5. Looked(q) /\ (ptr[e] = Expunged \/ readM[k] = e) => ptr'[e] = Expunged \/ readM'[k] = e
    BY <2>2, <2>4 DEF KeepsExpunged
  <2>6. Looked(q) /\ call[q].op # "Load" /\ (mu # q \/ pc[q] = "unlock") =>
           ptr'[e] = Expunged \/ readM'[k] = e
    BY <1>3, <2>1, <2>2, <2>5 DEF HeldP
  <2>7. ASSUME pc[q] = "put" \/ (pc[q] \in {"try", "cas"} /\ mu = q)
        PROVE  ptr'[e] # Expunged /\ EntryOf(Key(q))' = e
    <3>1. mu = q /\ Looked(q)
      BY <1>3, <2>7 DEF MuP, Looked, Critical
    <3>2. ptr[e] # Expunged /\ EntryOf(k) = e
      BY <1>3, <2>1, <2>2, <2>7 DEF HeldP
    <3> QED
      BY <1>4, <2>3, <2>4, <3>1, <3>2 DEF EntryOf
  <2>8. pc'[q] = "idle" => held'[q] = EmptyMap
    BY <1>1, <1>3 DEF HeldP
  <2>9. Looked(q)' => held'[q][Key(q)'] # NoEntry
    BY <2>3, <2>4
  <2>10. Looked(q)' /\ call'[q].op # "Load" /\ (mu' # q \/ pc'[q] = "unlock") =>
            ptr'[held'[q][Key(q)']] = Expunged \/ readM'[Key(q)'] = held'[q][Key(q)']
    BY <1>1, <2>3, <2>6
  <2>11. pc'[q] = "put" \/ (pc'[q] \in {"try", "cas"} /\ mu' = q) =>
            ptr'[held'[q][Key(q)']] # Expunged /\ EntryOf(Key(q))' = held'[q][Key(q)']
    BY <1>1, <2>3, <2>7
  <2> QED
    BY <2>8, <2>9, <2>10, <2>11 DEF HeldP
<1>9. SeenP(q)'
  BY <1>1 DEF KeepsSeen, SeenP
<1>10. RangeP(q)'
  BY <1>1, <1>2, <1>3 DEF RangeP
<1> QED
  BY <1>5, <1>6, <1>7, <1>8, <1>9, <1>10 DEF ProcInv

(* Steps that write no value show nothing new.                             *)
LEMMA NothingNew ==
  ASSUME IInv, NEW p \in Procs, OthersKeep(p), Content' = Content,
         \A e \in Entries : Val(ptr'[e]) = Val(ptr[e])
  PROVE  KeepsSeen(p)
<1> SUFFICES ASSUME NEW q \in Procs \ {p}, NEW k \in KeysOf(call[q]), res[q] = Pending
             PROVE  /\ Content'[k] \in seen'[q][k]
                    /\ held[q][k] # NoEntry => Val(ptr'[held[q][k]]) \in seen'[q][k]
  BY DEF KeepsSeen
<1>1. k \in Keys
  BY KeysOfType, Types DEF IInv
<1>2. /\ Content[k] \in seen[q][k]
      /\ held[q][k] # NoEntry => Val(ptr[held[q][k]]) \in seen[q][k]
  BY DEF IInv, ProcInv, SeenP
<1>3. seen[q][k] \subseteq seen'[q][k]
  BY <1>1 DEF OthersKeep
<1>4. held[q][k] \in Entries \cup {NoEntry}
  BY <1>1, Types DEF IInv, LocalType, GoMaps
<1> QED
  BY <1>2, <1>3, <1>4

(* A step that writes value v of key k shows it to those that may see it.  *)
LEMMA Shown ==
  ASSUME IInv, NEW p \in Procs, OthersKeep(p), NEW k \in Keys, NEW v \in Opt,
         Content' = [Content EXCEPT ![k] = v],
         \A q \in Procs \ {p} : res[q] = Pending /\ k \in KeysOf(call[q]) => v \in seen'[q][k],
         \A q \in Procs \ {p} : \A j \in Keys : held[q][j] # NoEntry =>
            \/ Val(ptr'[held[q][j]]) = Val(ptr[held[q][j]])
            \/ j = k /\ Val(ptr'[held[q][j]]) = v
  PROVE  KeepsSeen(p)
<1> SUFFICES ASSUME NEW q \in Procs \ {p}, NEW j \in KeysOf(call[q]), res[q] = Pending
             PROVE  /\ Content'[j] \in seen'[q][j]
                    /\ held[q][j] # NoEntry => Val(ptr'[held[q][j]]) \in seen'[q][j]
  BY DEF KeepsSeen
<1>1. j \in Keys
  BY KeysOfType, Types DEF IInv
<1>2. /\ Content[j] \in seen[q][j]
      /\ held[q][j] # NoEntry => Val(ptr[held[q][j]]) \in seen[q][j]
  BY DEF IInv, ProcInv, SeenP
<1>3. seen[q][j] \subseteq seen'[q][j]
  BY <1>1 DEF OthersKeep
<1>4. Content'[j] = IF j = k THEN v ELSE Content[j]
  BY <1>1 DEF Content
<1> QED
  BY <1>1, <1>2, <1>3, <1>4

(* A step that changes neither the maps nor an entry.                      *)
Quiet(p) ==
    /\ OthersKeep(p)
    /\ ptr' = ptr /\ readM' = readM /\ dirty' = dirty
    /\ amended' = amended /\ dirtyNil' = dirtyNil
    /\ \A k \in Keys : held'[p][k] \in {NoEntry, held[p][k], readM[k], dirty[k]}
    /\ pc[p] \in Copying => pc'[p] \in Copying /\ todo'[p] = todo[p]

LEMMA QuietContent ==
  ASSUME ptr' = ptr, readM' = readM, dirty' = dirty
  PROVE  Content' = Content
BY DEF Content, EntryOf

LEMMA QuietStep ==
  ASSUME IInv, NEW p \in Procs, Quiet(p), TypeOK', ProcInv(p)'
  PROVE  IInv' /\ Content' = Content
<1>1. /\ OthersKeep(p) /\ ptr' = ptr /\ readM' = readM /\ dirty' = dirty
      /\ amended' = amended /\ dirtyNil' = dirtyNil
  BY DEF Quiet
<1>2. Content' = Content
  BY <1>1, QuietContent
<1>3. KeepsExpunged(p) /\ KeepsMaps(p)
  BY <1>1 DEF KeepsExpunged, KeepsMaps
<1>4. KeepsSeen(p)
  BY <1>1, <1>2, NothingNew
<1>5. \A q \in Procs : ProcInv(q)'
  <2>1. ASSUME NEW q \in Procs \ {p} PROVE ProcInv(q)'
    BY <1>1, <1>3, <1>4, OthersKept
  <2> QED
    BY <2>1
<1>6. OneKey'
  <2>1. ASSUME NEW k \in Keys, NEW e \in Entries, RefersTo(k, e)'
        PROVE  RefersTo(k, e)
    <3>1. CASE readM'[k] = e \/ dirty'[k] = e
      BY <1>1, <3>1 DEF RefersTo
    <3>2. ASSUME NEW q \in Procs, held'[q][k] = e PROVE RefersTo(k, e)
      <4>1. CASE q = p
        BY <3>2, <4>1, Apart DEF Quiet, RefersTo
      <4>2. CASE q # p
        BY <3>2, <4>2, <1>1 DEF OthersKeep, RefersTo
      <4> QED
        BY <4>1, <4>2
    <3> QED
      BY <2>1, <3>1, <3>2 DEF RefersTo
  <2> QED
    BY <2>1 DEF OneKey, IInv, MapInv
<1>7. EntryInv' /\ NewKeyAmended'
  BY <1>1 DEF IInv, MapInv, EntryInv, NewKeyAmended, Dom
<1>8. CopyInv'
  <2>1. ASSUME NEW k \in Keys, NEW q \in Procs, pc[q] \in Copying, k \in todo[q]
        PROVE  pc'[q] \in Copying /\ k \in todo'[q]
    BY <1>1, <2>1 DEF Quiet, OthersKeep
  <2> QED
    BY <1>1, <2>1 DEF IInv, MapInv, CopyInv
<1> QED
  BY <1>2, <1>5, <1>6, <1>7, <1>8 DEF IInv, MapInv

-----------------------------------------------------------------------------
(* What remains of the invariant of p itself.                              *)
LEMMA WithoutMu ==
  ASSUME IInv, NEW p \in Procs, mu # p, mu' # p, pc'[p] \notin Critical, cur'[p] = cur[p]
  PROVE  MuP(p)' /\ DirtyP(p)'
<1>1. pc[p] \notin Critical /\ pc[p] \notin Copying
  BY DEF IInv, ProcInv, MuP, Critical, Copying
<1>2. cur[p] = None
  BY <1>1 DEF IInv, ProcInv, DirtyP
<1>3. pc'[p] \notin Copying \cup {"new", "miss", "expungeCAS"}
  BY DEF Critical, Copying
<1> QED
  BY <1>2, <1>3 DEF MuP, DirtyP

LEMMA SeenStays ==
  ASSUME IInv, NEW p \in Procs, Content' = Content,
         \A e \in Entries : Val(ptr'[e]) = Val(ptr[e]),
         call'[p] = call[p], held'[p] \in GoMaps,
         res'[p] = Pending => res[p] = Pending /\ seen'[p] = seen[p],
         \A k \in Keys : held'[p][k] \in {NoEntry, held[p][k], EntryOf(k)}
  PROVE  SeenP(p)'
<1> SUFFICES ASSUME NEW k \in KeysOf(call[p]), res'[p] = Pending
             PROVE  /\ Content'[k] \in seen'[p][k]
                    /\ held'[p][k] # NoEntry => Val(ptr'[held'[p][k]]) \in seen'[p][k]
  BY DEF SeenP
<1>1. k \in Keys
  BY KeysOfType, Types DEF IInv
<1>2. /\ Content[k] \in seen[p][k]
      /\ held[p][k] # NoEntry => Val(ptr[held[p][k]]) \in seen[p][k]
  BY DEF IInv, ProcInv, SeenP
<1>3. EntryOf(k) # NoEntry => Content[k] = Val(ptr[EntryOf(k)])
  BY <1>1 DEF Content
<1>4. held'[p][k] # NoEntry => held'[p][k] \in Entries
  BY <1>1 DEF GoMaps
<1>5. held'[p][k] \in {NoEntry, held[p][k], EntryOf(k)}
  BY <1>1
<1> QED
  BY <1>2, <1>3, <1>4, <1>5

LEMMA NoRange ==
  ASSUME IInv, NEW p \in Procs, visited'[p] = visited[p],
         pc[p] \notin {"range", "f", "ret"}, pc'[p] \notin {"range", "f"},
         pc'[p] = "unlock" => call'[p].op # "Range"
  PROVE  RangeP(p)'
BY DEF IInv, ProcInv, RangeP

(* A goroutine without mu is answered by a step that only reads.           *)
Answers(p, r) ==
    /\ Answer(p, r) /\ Goto(p, "ret")
    /\ pc[p] # "idle" /\ mu # p
    /\ ld' \in [Procs -> Pointers] /\ (\A q \in Procs \ {p} : ld'[q] = ld[q])
    /\ todo' = todo /\ UNCHANGED <<mapVars, held, cur>>

LEMMA AnswersInv ==
  ASSUME IInv, NEW p \in Procs, NEW r \in Results, r # Pending, Answers(p, r)
  PROVE  IInv' /\ Content' = Content
<1>1. CoreType /\ LocalType /\ CallType
  BY Types DEF IInv
<1>2. /\ CallType' /\ res'[p] = r /\ call' = call /\ visited' = visited
      /\ \A q \in Procs \ {p} : res'[q] = res[q] /\ seen'[q] = seen[q]
  BY <1>1, AnswerStep DEF Answers
<1>3. /\ pc' \in [Procs -> Labels] /\ pc'[p] = "ret"
      /\ \A q \in Procs \ {p} : pc'[q] = pc[q]
  BY <1>1 DEF Answers, Goto, LocalType, Labels
<1>4. /\ ptr' = ptr /\ readM' = readM /\ dirty' = dirty /\ amended' = amended
      /\ dirtyNil' = dirtyNil /\ misses' = misses /\ mu' = mu
      /\ held' = held /\ todo' = todo /\ cur' = cur /\ mu # p
      /\ ld' \in [Procs -> Pointers] /\ \A q \in Procs \ {p} : ld'[q] = ld[q]
  BY DEF Answers, mapVars
<1>5. TypeOK'
  BY <1>1, <1>2, <1>3, <1>4, Types DEF IInv, TypeOK, CoreType, LocalType, CallType, Labels
<1>6. Quiet(p)
  <2>1. OthersKeep(p)
    BY <1>2, <1>3, <1>4 DEF OthersKeep
  <2>2. pc[p] \notin Copying
    BY <1>4 DEF IInv, ProcInv, MuP, Critical, Copying
  <2> QED
    BY <1>4, <2>1, <2>2 DEF Quiet
<1>7. MuP(p)' /\ DirtyP(p)'
  BY <1>3, <1>4, WithoutMu DEF Critical
<1>8. CallP(p)'
  <2>1. call[p] # Idle
    BY DEF Answers, IInv, ProcInv, CallP
  <2> QED
    BY <1>2, <1>3, <2>1 DEF CallP, Copying
<1>9. HeldP(p)'
  BY <1>3 DEF HeldP, Looked
<1>10. SeenP(p)'
  BY <1>2 DEF SeenP
<1>11. RangeP(p)'
  BY <1>3 DEF RangeP
<1> QED
  BY <1>5, <1>6, <1>7, <1>8, <1>9, <1>10, <1>11, QuietStep DEF ProcInv

(* A goroutine without mu goes to l.                                       *)
Goes(p, l) ==
    /\ Goto(p, l) /\ pc[p] # "idle" /\ mu # p /\ l # "idle"
    /\ held' \in [Procs -> GoMaps]
    /\ ld' \in [Procs -> Pointers]
    /\ todo' \in [Procs -> SUBSET Keys]
    /\ \A q \in Procs \ {p} : held'[q] = held[q] /\ ld'[q] = ld[q] /\ todo'[q] = todo[q]
    /\ \A k \in Keys : held'[p][k] \in {NoEntry, held[p][k], EntryOf(k)}
    /\ UNCHANGED <<mapVars, cur, callVars>>

LEMMA GoesInv ==
  ASSUME IInv, NEW p \in Procs, NEW l \in Labels \ Critical, Goes(p, l),
         CallP(p)', HeldP(p)', RangeP(p)'
  PROVE  IInv' /\ Content' = Content
<1>1. CoreType /\ LocalType /\ CallType
  BY Types DEF IInv
<1>2. call' = call /\ res' = res /\ seen' = seen /\ visited' = visited
  BY DEF Goes, callVars
<1>3. /\ pc' \in [Procs -> Labels] /\ pc'[p] = l
      /\ \A q \in Procs \ {p} : pc'[q] = pc[q]
  BY <1>1 DEF Goes, Goto, LocalType, Labels
<1>4. /\ ptr' = ptr /\ readM' = readM /\ dirty' = dirty /\ amended' = amended
      /\ dirtyNil' = dirtyNil /\ misses' = misses /\ mu' = mu /\ cur' = cur /\ mu # p
  BY DEF Goes, mapVars
<1>5. /\ held' \in [Procs -> GoMaps] /\ ld' \in [Procs -> Pointers]
      /\ todo' \in [Procs -> SUBSET Keys]
      /\ \A q \in Procs \ {p} : held'[q] = held[q] /\ ld'[q] = ld[q] /\ todo'[q] = todo[q]
      /\ \A k \in Keys : held'[p][k] \in {NoEntry, held[p][k], EntryOf(k)}
  BY DEF Goes
<1>6. TypeOK'
  BY <1>1, <1>2, <1>3, <1>4, <1>5, Types DEF IInv, TypeOK, CoreType, LocalType, CallType, Labels
<1>7. Quiet(p)
  <2>1. OthersKeep(p)
    BY <1>2, <1>3, <1>4, <1>5 DEF OthersKeep
  <2>2. pc[p] \notin Copying
    BY <1>4 DEF IInv, ProcInv, MuP, Critical, Copying
  <2>3. \A k \in Keys : EntryOf(k) \in {readM[k], dirty[k]}
    BY DEF EntryOf
  <2> QED
    BY <1>4, <1>5, <2>1, <2>2, <2>3 DEF Quiet
<1>8. MuP(p)' /\ DirtyP(p)'
  BY <1>3, <1>4, WithoutMu
<1>9. SeenP(p)'
  <2>1. Content' = Content
    BY <1>4, QuietContent
  <2>2. held'[p] \in GoMaps
    BY <1>5
  <2> QED
    BY <1>2, <1>4, <1>5, <2>1, <2>2, SeenStays
<1> QED
  BY <1>6, <1>7, <1>8, <1>9, QuietStep DEF ProcInv

-----------------------------------------------------------------------------
(* The definitions the code's model and the atomic map have in common.     *)
LEMMA Common ==
    /\ Atomic!Calls = Calls /\ Atomic!Opt = Opt
    /\ \A p, op : Atomic!Busy(p, op) <=> call[p].op = op /\ res[p] = Pending
    /\ \A v, l : Atomic!Result(v, l) = Result(v, l)
    /\ \A p, c, m : Atomic!Begin(p, c, m) <=> Begin(p, c, m)
    /\ \A p, r : Atomic!Answer(p, r) <=> Answer(p, r)
    /\ \A p, r, k, v : Atomic!AnswerWriting(p, r, k, v) <=> AnswerWriting(p, r, k, v)
    /\ \A p : Atomic!Finish(p) <=> Finish(p)
    /\ Atomic!CallsInit <=> CallsInit
<1>1. Atomic!Calls = Calls /\ Atomic!Opt = Opt
  BY DEF Atomic!Calls, Calls, Atomic!KeyCalls, KeyCalls, Atomic!RangeCall, RangeCall,
         Atomic!Opt, Opt
<1>2. Atomic!Pending = Pending /\ Atomic!Idle = Idle
  BY DEF Atomic!Pending, Pending, Atomic!Idle, Idle
<1>3. \A p, op : Atomic!Busy(p, op) <=> call[p].op = op /\ res[p] = Pending
  BY <1>2 DEF Atomic!Busy
<1>4. \A v, l : Atomic!Result(v, l) = Result(v, l)
  BY DEF Atomic!Result, Result
<1>5. \A c : Atomic!KeysOf(c) = KeysOf(c)
  BY DEF Atomic!KeysOf, KeysOf
<1>6. Atomic!NothingSeen = NothingSeen /\ Atomic!NothingVisited = NothingVisited
  BY DEF Atomic!NothingSeen, NothingSeen, Atomic!NothingVisited, NothingVisited
<1>7. \A p, c, m : Atomic!Begin(p, c, m) <=> Begin(p, c, m)
  BY <1>2, <1>5 DEF Atomic!Begin, Begin
<1>8. \A p, r : Atomic!Answer(p, r) <=> Answer(p, r)
  BY <1>6 DEF Atomic!Answer, Answer
<1>9. \A p, r, k, v : Atomic!AnswerWriting(p, r, k, v) <=> AnswerWriting(p, r, k, v)
  BY <1>2, <1>5, <1>6 DEF Atomic!AnswerWriting, AnswerWriting
<1>10. \A p : Atomic!Finish(p) <=> Finish(p)
  BY <1>2, <1>6 DEF Atomic!Finish, Finish
<1>11. Atomic!CallsInit <=> CallsInit
  BY <1>2, <1>6 DEF Atomic!CallsInit, CallsInit
<1> QED
  BY <1>1, <1>3, <1>4, <1>7, <1>8, <1>9, <1>10, <1>11

LEMMA ContentType == ASSUME CoreType PROVE Content \in [Keys -> Opt]
<1> SUFFICES ASSUME NEW k \in Keys, EntryOf(k) # NoEntry
             PROVE  Val(ptr[EntryOf(k)]) \in Opt
  BY DEF Content, Opt
<1>1. EntryOf(k) \in Entries
  BY DEF CoreType, EntryOf, GoMaps
<1>2. ptr[EntryOf(k)] \in Pointers
  BY <1>1 DEF CoreType
<1> QED
  BY <1>2, ValType

(* What a step of p must do, besides what keeps the invariant.             *)
Implements(p) == [Atomic!Step(p)]_(Atomic!vars)

LEMMA Stutters == ASSUME NEW p, Content' = Content, callVars' = callVars PROVE Implements(p)
BY DEF Implements, Atomic!vars, Atomic!callVars, callVars

LEMMA InvokeInv ==
  ASSUME IInv, NEW p \in Procs, Invoke(p)
  PROVE  IInv' /\ Implements(p)
<1>1. CoreType /\ LocalType /\ CallType
  BY Types DEF IInv
<1>2. PICK c \in Calls : Begin(p, c, Content)
  BY DEF Invoke
<1>3. /\ call' \in [Procs -> Calls \cup {Idle}] /\ call'[p] = c
      /\ \A q \in Procs \ {p} : call'[q] = call[q]
      /\ res' = res /\ visited' = visited
  BY <1>1, <1>2 DEF Begin, CallType
<1>4. /\ seen' \in [Procs -> [Keys -> SUBSET Opt]]
      /\ \A k \in Keys : k \in KeysOf(c) => seen'[p][k] = {Content[k]}
      /\ \A q \in Procs \ {p} : seen'[q] = seen[q]
  <2>1. PICK s : s = [k \in Keys |-> IF k \in KeysOf(c) THEN {Content[k]} ELSE {}]
    OBVIOUS
  <2>2. s \in [Keys -> SUBSET Opt] /\ \A k \in Keys : k \in KeysOf(c) => s[k] = {Content[k]}
    BY <1>1, <2>1, ContentType
  <2>3. seen' = [seen EXCEPT ![p] = s]
    BY <1>2, <2>1 DEF Begin
  <2> QED
    BY <1>1, <2>2, <2>3 DEF CallType
<1>5. /\ pc[p] = "idle" /\ pc' \in [Procs -> Labels] /\ pc'[p] = "fast"
      /\ \A q \in Procs \ {p} : pc'[q] = pc[q]
  BY <1>1 DEF Invoke, Goto, LocalType, Labels
<1>6. /\ ptr' = ptr /\ readM' = readM /\ dirty' = dirty /\ amended' = amended
      /\ dirtyNil' = dirtyNil /\ misses' = misses /\ mu' = mu
      /\ held' = held /\ ld' = ld /\ todo' = todo /\ cur' = cur
  BY DEF Invoke, mapVars
<1>7. TypeOK'
  BY <1>1, <1>3, <1>4, <1>5, <1>6, Types
     DEF IInv, TypeOK, CoreType, LocalType, CallType, Labels
<1>8. mu # p /\ held[p] = EmptyMap
  BY <1>5 DEF IInv, ProcInv, MuP, HeldP, Critical
<1>9. Quiet(p)
  <2>1. OthersKeep(p)
    BY <1>3, <1>4, <1>5, <1>6 DEF OthersKeep
  <2> QED
    BY <1>5, <1>6, <2>1 DEF Quiet, Copying
<1>10. Content' = Content
  BY <1>6, QuietContent
<1>11. MuP(p)' /\ DirtyP(p)'
  BY <1>5, <1>6, <1>8, WithoutMu DEF Critical
<1>12. CallP(p)'
  <2>1. c # Idle
    BY DEF Calls, KeyCalls, RangeCall, Idle
  <2>2. res[p] = Pending
    BY <1>5 DEF IInv, ProcInv, CallP
  <2> QED
    BY <1>3, <1>5, <2>1, <2>2 DEF CallP, Copying
<1>13. HeldP(p)'
  BY <1>5 DEF HeldP, Looked
<1>14. SeenP(p)'
  <2>1. KeysOf(c) \subseteq Keys
    BY DEF KeysOf
  <2> QED
    BY <1>3, <1>4, <1>6, <1>8, <1>10, <2>1 DEF SeenP, EmptyMap
<1>15. RangeP(p)'
  BY <1>3, <1>5 DEF IInv, ProcInv, RangeP
<1>16. Atomic!Invoke(p)
  BY <1>2, <1>10, Common DEF Atomic!Invoke
<1> QED
  BY <1>7, <1>9, <1>11, <1>12, <1>13, <1>14, <1>15, <1>16, QuietStep
     DEF ProcInv, Implements, Atomic!Step

LEMMA ReturnInv ==
  ASSUME IInv, NEW p \in Procs, Return(p)
  PROVE  IInv' /\ Implements(p)
<1>1. CoreType /\ LocalType /\ CallType
  BY Types DEF IInv
<1>2. NothingVisited \in [Keys -> Opt]
  BY DEF NothingVisited, Opt
<1>3. /\ CallType' /\ call'[p] = Idle /\ res'[p] = Pending /\ visited'[p] = NothingVisited
      /\ seen' = seen
      /\ \A q \in Procs \ {p} : call'[q] = call[q] /\ res'[q] = res[q] /\ visited'[q] = visited[q]
  BY <1>1, <1>2, PendingType DEF Return, Finish, CallType
<1>4. /\ pc[p] = "ret" /\ pc' \in [Procs -> Labels] /\ pc'[p] = "idle"
      /\ \A q \in Procs \ {p} : pc'[q] = pc[q]
  BY <1>1 DEF Return, Goto, LocalType, Labels
<1>5. /\ held' \in [Procs -> GoMaps] /\ held'[p] = EmptyMap
      /\ ld' \in [Procs -> Pointers]
      /\ \A q \in Procs \ {p} : held'[q] = held[q] /\ ld'[q] = ld[q]
  <2>1. EmptyMap \in GoMaps /\ Nil \in Pointers
    BY DEF EmptyMap, GoMaps, Pointers
  <2> QED
    BY <1>1, <2>1 DEF Return, LocalType
<1>6. /\ ptr' = ptr /\ readM' = readM /\ dirty' = dirty /\ amended' = amended
      /\ dirtyNil' = dirtyNil /\ misses' = misses /\ mu' = mu
      /\ todo' = todo /\ cur' = cur
  BY DEF Return, mapVars
<1>7. TypeOK'
  BY <1>1, <1>3, <1>4, <1>5, <1>6, Types
     DEF IInv, TypeOK, CoreType, LocalType, CallType, Labels
<1>8. mu # p
  BY <1>4 DEF IInv, ProcInv, MuP, Critical
<1>9. Quiet(p)
  <2>1. OthersKeep(p)
    BY <1>3, <1>4, <1>5, <1>6 DEF OthersKeep
  <2> QED
    BY <1>4, <1>5, <1>6, <2>1 DEF Quiet, Copying, EmptyMap
<1>10. Content' = Content
  BY <1>6, QuietContent
<1>11. MuP(p)' /\ DirtyP(p)'
  BY <1>4, <1>6, <1>8, WithoutMu DEF Critical
<1>12. CallP(p)'
  BY <1>3, <1>4 DEF CallP, Copying
<1>13. HeldP(p)'
  BY <1>4, <1>5 DEF HeldP, Looked
<1>14. SeenP(p)'
  BY <1>3, Apart DEF SeenP, KeysOf, Idle
<1>15. RangeP(p)'
  BY <1>3, <1>4 DEF RangeP
<1>16. Atomic!Return(p)
  BY <1>10, Common DEF Atomic!Return, Return
<1> QED
  BY <1>7, <1>9, <1>11, <1>12, <1>13, <1>14, <1>15, <1>16, QuietStep
     DEF ProcInv, Implements, Atomic!Step

-----------------------------------------------------------------------------
(* The fast paths.                                                         *)

LEMMA HoldStep ==
  ASSUME held \in [Procs -> GoMaps], NEW p \in Procs, Key(p) \in Keys,
         NEW e \in Entries \cup {NoEntry}, Hold(p, e)
  PROVE  /\ held' \in [Procs -> GoMaps] /\ held'[p][Key(p)] = e
         /\ \A k \in Keys \ {Key(p)} : held'[p][k] = held[p][k]
         /\ \A q \in Procs \ {p} : held'[q] = held[q]
<1>1. held' = [held EXCEPT ![p] = [held[p] EXCEPT ![Key(p)] = e]] /\ held[p] \in [Keys -> Entries \cup {NoEntry}]
  BY DEF Hold, GoMaps
<1>2. [held[p] EXCEPT ![Key(p)] = e] \in GoMaps
  BY <1>1 DEF GoMaps
<1> QED
  BY <1>1, <1>2

(* What a pending call on one key has seen.                                *)
LEMMA SeenNow ==
  ASSUME IInv, NEW p \in Procs, res[p] = Pending,
         call[p].op \in {"Load", "Delete", "Store", "LoadOrStore"}
  PROVE  /\ Content[Key(p)] \in seen[p][Key(p)]
         /\ Entry(p) # NoEntry => Val(ptr[Entry(p)]) \in seen[p][Key(p)]
<1>1. KeysOf(call[p]) = {Key(p)}
  BY KeyedCall, Types DEF IInv
<1> QED
  BY <1>1 DEF IInv, ProcInv, SeenP, Entry

(* What the fast paths conclude from a complete read map.                  *)
LEMMA AbsentSeen ==
  ASSUME IInv, NEW p \in Procs, res[p] = Pending,
         call[p].op \in {"Load", "Delete", "Store", "LoadOrStore"},
         readM[Key(p)] = NoEntry, ~amended \/ dirty[Key(p)] = NoEntry
  PROVE  None \in seen[p][Key(p)] /\ EntryOf(Key(p)) = NoEntry /\ Content[Key(p)] = None
<1>1. Key(p) \in Keys
  BY KeyedCall, Types DEF IInv
<1>2. dirty[Key(p)] = NoEntry
  BY <1>1 DEF IInv, MapInv, NewKeyAmended, Dom
<1>3. Content[Key(p)] = None
  BY <1>1, <1>2 DEF Content, EntryOf
<1> QED
  BY <1>2, <1>3, SeenNow DEF EntryOf

LEMMA FastFacts ==
  ASSUME IInv, NEW p \in Procs, pc[p] = "fast" \/ pc[p] = "load" \/ pc[p] = "delete"
                                 \/ pc[p] = "range" \/ pc[p] = "f"
  PROVE  mu # p /\ res[p] = Pending /\ call[p] # Idle
BY DEF IInv, ProcInv, MuP, CallP, Critical

(* The lookup in the read map that finds an entry.                         *)
LEMMA FoundFast ==
  ASSUME IInv, NEW p \in Procs, pc[p] = "fast",
         call[p].op \in {"Load", "Delete", "Store", "LoadOrStore"},
         NEW l \in {"load", "try", "delete"}, Goto(p, l),
         l = "load" => call[p].op = "Load", l = "delete" => call[p].op = "Delete",
         l = "try" => call[p].op \in Storing,
         readM[Key(p)] # NoEntry, Hold(p, readM[Key(p)]),
         UNCHANGED <<mapVars, ld, todo, cur, callVars>>
  PROVE  IInv' /\ Implements(p)
<1>1. CoreType /\ LocalType /\ CallType
  BY Types DEF IInv
<1>2. Key(p) \in Keys /\ mu # p /\ res[p] = Pending /\ call[p] # Idle
  BY <1>1, KeyedCall, FastFacts
<1>3. readM[Key(p)] \in Entries
  BY <1>1, <1>2 DEF CoreType, GoMaps
<1>4. /\ held' \in [Procs -> GoMaps] /\ held'[p][Key(p)] = readM[Key(p)]
      /\ \A k \in Keys \ {Key(p)} : held'[p][k] = held[p][k]
      /\ \A q \in Procs \ {p} : held'[q] = held[q]
  BY <1>1, <1>2, <1>3, HoldStep DEF LocalType
<1>5. /\ call' = call /\ res' = res /\ visited' = visited /\ seen' = seen /\ readM' = readM
      /\ ptr' = ptr /\ dirty' = dirty /\ mu' = mu /\ ld' = ld /\ todo' = todo
  BY DEF mapVars, callVars
<1>6. pc'[p] = l /\ l \in Labels \ Critical
  BY <1>1 DEF Goto, LocalType, Labels, Critical
<1>7. Goes(p, l)
  <2>1. \A k \in Keys : held'[p][k] \in {NoEntry, held[p][k], EntryOf(k)}
    BY <1>2, <1>4 DEF EntryOf
  <2> QED
    BY <1>1, <1>2, <1>4, <1>5, <2>1 DEF Goes, LocalType
<1>8. CallP(p)'
  BY <1>2, <1>5, <1>6 DEF CallP, Copying, Storing
<1>9. HeldP(p)'
  <2>1. Key(p)' = Key(p)
    BY <1>5 DEF Key
  <2> QED
    BY <1>2, <1>3, <1>4, <1>5, <1>6, <2>1, Apart DEF HeldP, Looked
<1>10. RangeP(p)'
  BY <1>5, <1>6, NoRange
<1>11. IInv' /\ Content' = Content
  BY <1>6, <1>7, <1>8, <1>9, <1>10, GoesInv
<1> QED
  BY <1>5, <1>11, Stutters DEF callVars

(* One that does not, and takes mu.                                        *)
LEMMA ToLock ==
  ASSUME IInv, NEW p \in Procs, Goto(p, "lock"), mu # p, pc[p] # "idle", res[p] = Pending,
         pc[p] \notin {"range", "f", "ret"},
         ld' \in [Procs -> Pointers], \A q \in Procs \ {p} : ld'[q] = ld[q],
         UNCHANGED <<mapVars, held, todo, cur, callVars>>
  PROVE  IInv' /\ Implements(p)
<1>1. CoreType /\ LocalType /\ CallType /\ call[p] # Idle
  BY Types DEF IInv, ProcInv, CallP
<1>2. /\ call' = call /\ res' = res /\ visited' = visited /\ seen' = seen
      /\ held' = held /\ todo' = todo
  BY DEF callVars
<1>3. pc'[p] = "lock" /\ "lock" \in Labels \ Critical
  BY <1>1 DEF Goto, LocalType, Labels, Critical
<1>4. Goes(p, "lock")
  BY <1>1, <1>2 DEF Goes, LocalType
<1>5. CallP(p)'
  BY <1>1, <1>2, <1>3 DEF CallP, Copying
<1>6. HeldP(p)'
  BY <1>3 DEF HeldP, Looked
<1>7. RangeP(p)'
  BY <1>2, <1>3, NoRange
<1>8. IInv' /\ Content' = Content
  BY <1>3, <1>4, <1>5, <1>6, <1>7, GoesInv
<1> QED
  BY <1>2, <1>8, Stutters DEF callVars

(* One that finds that the key is absent.                                  *)
LEMMA AbsentFast ==
  ASSUME IInv, NEW p \in Procs, pc[p] = "fast", call[p].op \in {"Load", "Delete"},
         readM[Key(p)] = NoEntry, ~amended,
         Answered(p), Goto(p, "ret"), UNCHANGED <<mapVars, held, ld, todo, cur>>
  PROVE  IInv' /\ Implements(p)
<1>1. CoreType /\ LocalType /\ CallType
  BY Types DEF IInv
<1>2. mu # p /\ res[p] = Pending
  BY FastFacts
<1>3. None \in seen[p][Key(p)]
  BY <1>2, AbsentSeen
<1>4. None \in Opt /\ FALSE \in BOOLEAN
  BY DEF Opt
<1>5. PICK r \in Results : r = Result(None, FALSE) /\ r # Pending
  BY <1>4, ResultType
<1>6. Answers(p, r)
  BY <1>1, <1>2, <1>5 DEF Answers, Answered, LocalType
<1>7. IInv' /\ Content' = Content
  BY <1>5, <1>6, AnswersInv
<1>8. Answer(p, Result(None, FALSE))
  BY DEF Answered
<1>9. CASE call[p].op = "Load"
  <2>1. Atomic!Load(p)
    BY <1>2, <1>3, <1>7, <1>8, <1>9, Common DEF Atomic!Load, Key
  <2> QED
    BY <1>7, <2>1 DEF Implements, Atomic!Step
<1>10. CASE call[p].op = "Delete"
  <2>1. Atomic!Delete(p)
    BY <1>2, <1>3, <1>7, <1>8, <1>10, Common DEF Atomic!Delete, Key
  <2> QED
    BY <1>7, <2>1 DEF Implements, Atomic!Step
<1> QED
  BY <1>9, <1>10

LEMMA LoadFastInv ==
  ASSUME IInv, NEW p \in Procs, LoadFast(p) PROVE IInv' /\ Implements(p)
<1>1. pc[p] = "fast" /\ call[p].op = "Load" /\ mu # p /\ res[p] = Pending
  BY FastFacts DEF LoadFast, At
<1>2. CASE /\ readM[Key(p)] # NoEntry /\ Hold(p, readM[Key(p)]) /\ Goto(p, "load")
           /\ UNCHANGED callVars
  BY <1>1, <1>2, FoundFast DEF LoadFast
<1>3. CASE Goto(p, "lock") /\ UNCHANGED <<held, callVars>>
  <2>1. ld' \in [Procs -> Pointers] /\ \A q \in Procs \ {p} : ld'[q] = ld[q]
    BY Types DEF IInv, LocalType, LoadFast
  <2> QED
    BY <1>1, <1>3, <2>1, ToLock DEF LoadFast
<1>4. CASE /\ readM[Key(p)] = NoEntry /\ ~amended
           /\ Answered(p) /\ Goto(p, "ret") /\ UNCHANGED held
  BY <1>1, <1>4, AbsentFast DEF LoadFast
<1> QED
  BY <1>2, <1>3, <1>4 DEF LoadFast

LEMMA StoreFastInv ==
  ASSUME IInv, NEW p \in Procs, StoreFast(p) PROVE IInv' /\ Implements(p)
<1>1. pc[p] = "fast" /\ call[p].op \in Storing /\ mu # p /\ res[p] = Pending
  BY FastFacts DEF StoreFast, At, Storing
<1>2. CASE readM[Key(p)] # NoEntry /\ Hold(p, readM[Key(p)]) /\ Goto(p, "try")
  BY <1>1, <1>2, FoundFast DEF StoreFast, Storing
<1>3. CASE Goto(p, "lock") /\ UNCHANGED held
  <2>1. ld' \in [Procs -> Pointers] /\ \A q \in Procs \ {p} : ld'[q] = ld[q]
    BY Types DEF IInv, LocalType, StoreFast
  <2> QED
    BY <1>1, <1>3, <2>1, ToLock DEF StoreFast
<1> QED
  BY <1>2, <1>3 DEF StoreFast

LEMMA DeleteFastInv ==
  ASSUME IInv, NEW p \in Procs, DeleteFast(p) PROVE IInv' /\ Implements(p)
<1>1. pc[p] = "fast" /\ call[p].op = "Delete" /\ mu # p /\ res[p] = Pending
  BY FastFacts DEF DeleteFast, At
<1>2. CASE /\ readM[Key(p)] # NoEntry /\ Hold(p, readM[Key(p)]) /\ Goto(p, "delete")
           /\ UNCHANGED callVars
  BY <1>1, <1>2, FoundFast DEF DeleteFast
<1>3. CASE Goto(p, "lock") /\ UNCHANGED <<held, callVars>>
  <2>1. ld' \in [Procs -> Pointers] /\ \A q \in Procs \ {p} : ld'[q] = ld[q]
    BY Types DEF IInv, LocalType, DeleteFast
  <2> QED
    BY <1>1, <1>3, <2>1, ToLock DEF DeleteFast
<1>4. CASE /\ readM[Key(p)] = NoEntry /\ ~amended
           /\ Answered(p) /\ Goto(p, "ret") /\ UNCHANGED held
  BY <1>1, <1>4, AbsentFast DEF DeleteFast
<1> QED
  BY <1>2, <1>3, <1>4 DEF DeleteFast

LEMMA RangeFastInv ==
  ASSUME IInv, NEW p \in Procs, RangeFast(p) PROVE IInv' /\ Implements(p)
<1>1. pc[p] = "fast" /\ call[p].op = "Range" /\ mu # p /\ res[p] = Pending /\ call[p] # Idle
  BY FastFacts DEF RangeFast, At
<1>2. CoreType /\ LocalType /\ CallType
  BY Types DEF IInv
<1>3. /\ call' = call /\ res' = res /\ visited' = visited /\ seen' = seen /\ ld' = ld
  BY DEF RangeFast, callVars
<1>4. CASE amended /\ Goto(p, "lock") /\ UNCHANGED <<held, todo>>
  <2>1. ld' \in [Procs -> Pointers] /\ \A q \in Procs \ {p} : ld'[q] = ld[q]
    BY <1>2, <1>3 DEF LocalType
  <2> QED
    BY <1>1, <1>4, <2>1, ToLock DEF RangeFast
<1>5. CASE /\ ~amended /\ held' = [held EXCEPT ![p] = readM]
           /\ todo' = [todo EXCEPT ![p] = Dom(readM)] /\ Goto(p, "range")
  <2>1. pc'[p] = "range" /\ "range" \in Labels \ Critical
    BY <1>2, <1>5 DEF Goto, LocalType, Labels, Critical
  <2>2. /\ held' \in [Procs -> GoMaps] /\ held'[p] = readM
        /\ todo' \in [Procs -> SUBSET Keys] /\ todo'[p] = Dom(readM)
        /\ \A q \in Procs \ {p} : held'[q] = held[q] /\ todo'[q] = todo[q]
    BY <1>2, <1>5 DEF LocalType, CoreType, Dom
  <2>3. \A k \in Keys : readM[k] \in {NoEntry, held[p][k], EntryOf(k)}
    BY DEF EntryOf
  <2>4. Goes(p, "range")
    <3>1. ld' \in [Procs -> Pointers] /\ \A q \in Procs \ {p} : ld'[q] = ld[q]
      BY <1>2, <1>3 DEF LocalType
    <3> QED
      BY <1>1, <1>5, <2>2, <2>3, <3>1 DEF Goes, RangeFast
  <2>5. CallP(p)'
    BY <1>1, <1>3, <2>1 DEF CallP, Copying
  <2>6. HeldP(p)'
    BY <2>1 DEF HeldP, Looked
  <2>7. RangeP(p)'
    <3>1. visited[p] = NothingVisited
      BY <1>1 DEF IInv, ProcInv, RangeP
    <3>2. ASSUME NEW k \in Keys, readM[k] = NoEntry PROVE None \in seen[p][k]
      <4>1. dirty[k] = NoEntry
        BY <1>5, <3>2 DEF IInv, MapInv, NewKeyAmended, Dom
      <4>2. Content[k] = None
        BY <3>2, <4>1 DEF Content, EntryOf
      <4> QED
        BY <1>1, <1>2, <4>2, RangeKeys DEF IInv, ProcInv, SeenP
    <3> QED
      BY <1>3, <2>1, <2>2, <3>1, <3>2 DEF RangeP, NothingVisited, Dom
  <2>8. IInv' /\ Content' = Content
    BY <2>1, <2>4, <2>5, <2>6, <2>7, GoesInv
  <2> QED
    BY <1>3, <2>8, Stutters DEF callVars
<1> QED
  BY <1>4, <1>5 DEF RangeFast

-----------------------------------------------------------------------------
(* Accesses to an entry without mu.                                        *)

(* The entry an operation looked up.                                       *)
LEMMA LookedFacts ==
  ASSUME IInv, NEW p \in Procs, pc[p] \in {"load", "try", "cas", "delete", "put"}
  PROVE  /\ Key(p) \in Keys /\ Entry(p) \in Entries /\ Looked(p) /\ res[p] = Pending
         /\ call[p] # Idle /\ call[p].op \in {"Load", "Delete", "Store", "LoadOrStore"}
         /\ ptr[Entry(p)] \in Pointers /\ Val(ptr[Entry(p)]) \in seen[p][Key(p)]
         /\ call[p].op \in Storing => call[p].val \in Values
<1>1. Looked(p) /\ res[p] = Pending /\ call[p] # Idle
      /\ call[p].op \in {"Load", "Delete", "Store", "LoadOrStore"}
  BY DEF IInv, ProcInv, CallP, Looked, Storing
<1>2. Key(p) \in Keys /\ (call[p].op \in Storing => call[p].val \in Values)
  BY <1>1, KeyedCall, Types DEF IInv
<1>3. Entry(p) # NoEntry
  BY <1>1 DEF IInv, ProcInv, HeldP, Entry
<1>4. Entry(p) \in Entries
  BY <1>2, <1>3, Types DEF IInv, LocalType, GoMaps, Entry
<1>5. ptr[Entry(p)] \in Pointers
  BY <1>4, Types DEF IInv, CoreType
<1> QED
  BY <1>1, <1>2, <1>3, <1>4, <1>5, SeenNow

LEMMA LoadEntryInv ==
  ASSUME IInv, NEW p \in Procs, LoadEntry(p) PROVE IInv' /\ Implements(p)
<1>1. pc[p] = "load" /\ call[p].op = "Load" /\ mu # p
  BY FastFacts DEF LoadEntry, At
<1>2. PICK v : v = Val(ptr[Entry(p)])
  OBVIOUS
<1>3. v \in Opt /\ v \in seen[p][Key(p)] /\ res[p] = Pending
  BY <1>1, <1>2, LookedFacts, ValType
<1>4. PICK l \in BOOLEAN : l = (v # None)
  OBVIOUS
<1>5. PICK r \in Results : r = Result(v, l) /\ r # Pending
  BY <1>3, ResultType
<1>6. Answer(p, r)
  BY <1>2, <1>4, <1>5 DEF LoadEntry
<1>7. Answers(p, r)
  BY <1>1, <1>6, Types DEF Answers, LoadEntry, LocalType, IInv
<1>8. IInv' /\ Content' = Content
  BY <1>5, <1>7, AnswersInv
<1>9. Atomic!Load(p)
  <2>1. Atomic!Busy(p, "Load") /\ Atomic!Answer(p, Atomic!Result(v, v # None))
    BY <1>1, <1>3, <1>4, <1>5, <1>6, Common
  <2> QED
    BY <1>3, <1>8, <2>1 DEF Atomic!Load, Key
<1> QED
  BY <1>8, <1>9 DEF Implements, Atomic!Step

LEMMA Retries ==
  ASSUME IInv, NEW p \in Procs, mu # p, pc[p] \in {"try", "cas", "delete"},
         NEW l \in {"try", "cas", "delete"}, Goto(p, l),
         l = "delete" => call[p].op = "Delete", l = "try" => call[p].op \in Storing,
         l = "cas" /\ call[p].op = "Store" => ld'[p] # Expunged,
         l = "cas" /\ call[p].op = "Delete" => ld'[p] \in Values,
         ld' \in [Procs -> Pointers], \A q \in Procs \ {p} : ld'[q] = ld[q],
         UNCHANGED <<mapVars, held, todo, cur, callVars>>
  PROVE  IInv' /\ Implements(p)
<1>1. CoreType /\ LocalType /\ CallType /\ call[p] # Idle
  BY LookedFacts, Types DEF IInv
<1>2. /\ call' = call /\ res' = res /\ visited' = visited /\ seen' = seen
      /\ held' = held /\ todo' = todo /\ ptr' = ptr /\ readM' = readM /\ mu' = mu
  BY DEF callVars, mapVars
<1>3. pc'[p] = l /\ l \in Labels \ Critical
  BY <1>1 DEF Goto, LocalType, Labels, Critical
<1>4. Goes(p, l)
  BY <1>1, <1>2 DEF Goes, LocalType
<1>5. call[p].op \in Storing \cup {"Delete"} /\ res[p] = Pending
  BY DEF IInv, ProcInv, CallP
<1>6. CallP(p)'
  BY <1>1, <1>2, <1>3, <1>5 DEF CallP, Copying
<1>7. HeldP(p)'
  <2>1. Looked(p) /\ HeldP(p)
    BY DEF Looked, IInv, ProcInv
  <2>2. ptr[held[p][Key(p)]] = Expunged \/ readM[Key(p)] = held[p][Key(p)]
    BY <2>1, <1>5 DEF HeldP, Storing
  <2>3. held[p][Key(p)] # NoEntry /\ Key(p)' = Key(p)
    BY <1>2, <2>1 DEF HeldP, Key
  <2> QED
    BY <1>2, <1>3, <2>2, <2>3 DEF HeldP
<1>8. RangeP(p)'
  BY <1>2, <1>3, NoRange
<1>9. IInv' /\ Content' = Content
  BY <1>3, <1>4, <1>6, <1>7, <1>8, GoesInv
<1> QED
  BY <1>2, <1>9, Stutters DEF callVars

LEMMA TryStoreLoadInv ==
  ASSUME IInv, NEW p \in Procs, TryStoreLoad(p) PROVE IInv' /\ Implements(p)
<1>1. pc[p] = "try" /\ call[p].op = "Store" /\ mu # p
  BY DEF TryStoreLoad, At, IInv, ProcInv, MuP
<1>2. ptr[Entry(p)] \in Pointers /\ res[p] = Pending
  BY <1>1, LookedFacts
<1>3. /\ ld' \in [Procs -> Pointers] /\ ld'[p] = ptr[Entry(p)]
      /\ \A q \in Procs \ {p} : ld'[q] = ld[q]
  BY <1>2, Types DEF IInv, LocalType, TryStoreLoad
<1>4. CASE ptr[Entry(p)] = Expunged
  <2>1. Goto(p, "lock")
    BY <1>4 DEF TryStoreLoad
  <2> QED
    BY <1>1, <1>2, <1>3, <2>1, ToLock DEF TryStoreLoad
<1>5. CASE ptr[Entry(p)] # Expunged
  <2>1. Goto(p, "cas")
    BY <1>5 DEF TryStoreLoad
  <2> QED
    BY <1>1, <1>3, <1>5, <2>1, Retries DEF TryStoreLoad, Storing
<1> QED
  BY <1>4, <1>5

(* A compare-and-swap that fails.                                          *)
LEMMA CASFails ==
  ASSUME IInv, NEW p \in Procs, pc[p] = "cas", mu # p,
         NEW l \in {"try", "delete"}, Goto(p, l),
         l = "delete" => call[p].op = "Delete", l = "try" => call[p].op \in Storing,
         UNCHANGED <<ptr, readM, amended, dirty, dirtyNil, misses, mu, held, ld, todo, cur>>,
         UNCHANGED callVars
  PROVE  IInv' /\ Implements(p)
<1>1. ld' \in [Procs -> Pointers] /\ \A q \in Procs \ {p} : ld'[q] = ld[q]
  BY Types DEF IInv, LocalType
<1>2. UNCHANGED <<mapVars, held, todo, cur, callVars>>
  BY DEF mapVars
<1> QED
  BY <1>1, <1>2, Retries

(* LoadOrStore that loads.                                                 *)
LEMMA TryLoadInv ==
  ASSUME IInv, NEW p \in Procs, TryLoad(p), mu # p PROVE IInv' /\ Implements(p)
<1>1. pc[p] = "try" /\ call[p].op = "LoadOrStore"
  BY DEF TryLoad, At
<1>2. /\ Val(ptr[Entry(p)]) \in seen[p][Key(p)] /\ res[p] = Pending
      /\ ptr[Entry(p)] \in Pointers
  BY <1>1, LookedFacts
<1>3. ld' = ld /\ ld' \in [Procs -> Pointers] /\ \A q \in Procs \ {p} : ld'[q] = ld[q]
  BY Types DEF IInv, LocalType, TryLoad
<1>4. CASE ptr[Entry(p)] = Expunged
  <2>1. Goto(p, "lock") /\ UNCHANGED callVars
    BY <1>4, Apart DEF TryLoad
  <2> QED
    BY <1>1, <1>2, <1>3, <2>1, ToLock DEF TryLoad
<1>5. CASE ptr[Entry(p)] = Nil
  <2>1. Goto(p, "cas") /\ UNCHANGED callVars
    BY <1>5, Apart DEF TryLoad
  <2> QED
    BY <1>1, <1>3, <2>1, Retries DEF TryLoad, Storing
<1>6. CASE ptr[Entry(p)] \in Values
  <2>1. PICK x \in Values : x = ptr[Entry(p)]
    BY <1>6
  <2>2. Answer(p, Result(x, TRUE)) /\ Goto(p, "ret")
    BY <2>1, Apart DEF TryLoad, Loaded, AfterTry
  <2>3. PICK r \in Results : r = Result(x, TRUE) /\ r # Pending
    BY ResultType DEF Opt
  <2>4. Answers(p, r)
    BY <1>1, <1>3, <2>2, <2>3 DEF Answers, TryLoad
  <2>5. IInv' /\ Content' = Content
    BY <2>3, <2>4, AnswersInv
  <2>6. x \in seen[p][Key(p)] /\ x # None
    BY <1>2, <2>1, Apart DEF Val
  <2>7. Atomic!Busy(p, "LoadOrStore") /\ Atomic!Answer(p, Atomic!Result(x, TRUE))
    BY <1>1, <1>2, <2>2, Common
  <2>8. Atomic!LoadOrStore(p)
    BY <2>5, <2>6, <2>7 DEF Atomic!LoadOrStore, Key
  <2> QED
    BY <2>5, <2>8 DEF Implements, Atomic!Step
<1> QED
  BY <1>2, <1>4, <1>5, <1>6 DEF Pointers

LEMMA DeleteLoadInv ==
  ASSUME IInv, NEW p \in Procs, DeleteLoad(p) PROVE IInv' /\ Implements(p)
<1>1. pc[p] = "delete" /\ call[p].op = "Delete" /\ mu # p /\ res[p] = Pending
  BY FastFacts DEF DeleteLoad, At
<1>2. ptr[Entry(p)] \in Pointers /\ Val(ptr[Entry(p)]) \in seen[p][Key(p)]
  BY <1>1, LookedFacts
<1>3. /\ ld' \in [Procs -> Pointers] /\ ld'[p] = ptr[Entry(p)]
      /\ \A q \in Procs \ {p} : ld'[q] = ld[q]
  BY <1>2, Types DEF IInv, LocalType, DeleteLoad
<1>4. CASE ptr[Entry(p)] \in {Nil, Expunged} /\ Answered(p) /\ Goto(p, "ret")
  <2>1. PICK r \in Results : r = Result(None, FALSE) /\ r # Pending
    BY ResultType DEF Opt
  <2>2. Answers(p, r)
    BY <1>1, <1>3, <1>4, <2>1 DEF Answers, Answered, DeleteLoad
  <2>3. IInv' /\ Content' = Content
    BY <2>1, <2>2, AnswersInv
  <2>4. None \in seen[p][Key(p)]
    BY <1>2, <1>4, Apart DEF Val
  <2>5. Atomic!Busy(p, "Delete") /\ Atomic!Answer(p, Atomic!Result(None, FALSE))
    BY <1>1, <1>4, Common DEF Answered
  <2>6. Atomic!Delete(p)
    BY <2>3, <2>4, <2>5 DEF Atomic!Delete, Key
  <2> QED
    BY <2>3, <2>6 DEF Implements, Atomic!Step
<1>5. CASE ptr[Entry(p)] \in Values /\ Goto(p, "cas") /\ UNCHANGED callVars
  BY <1>1, <1>3, <1>5, Retries DEF DeleteLoad
<1> QED
  BY <1>4, <1>5 DEF DeleteLoad

-----------------------------------------------------------------------------
(* Range's loop.                                                           *)

LEMMA RangeFInv ==
  ASSUME IInv, NEW p \in Procs, RangeF(p) PROVE IInv' /\ Implements(p)
<1>1. /\ pc[p] = "f" /\ call[p].op = "Range" /\ mu # p /\ res[p] = Pending
      /\ call[p] # Idle
  BY FastFacts DEF RangeF, IInv, ProcInv, CallP
<1>2. CoreType /\ LocalType /\ CallType
  BY Types DEF IInv
<1>3. CASE Goto(p, "range") /\ UNCHANGED callVars
  <2>1. /\ call' = call /\ res' = res /\ visited' = visited /\ seen' = seen
        /\ held' = held /\ todo' = todo /\ ld' = ld
    BY <1>3 DEF callVars, RangeF
  <2>2. pc'[p] = "range" /\ "range" \in Labels \ Critical
    BY <1>2, <1>3 DEF Goto, LocalType, Labels, Critical
  <2>3. Goes(p, "range")
    BY <1>1, <1>2, <1>3, <2>1 DEF Goes, LocalType, RangeF
  <2>4. CallP(p)' /\ HeldP(p)'
    BY <1>1, <2>1, <2>2 DEF CallP, Copying, HeldP, Looked
  <2>5. RangeP(p)'
    BY <1>1, <2>1, <2>2 DEF RangeP, IInv, ProcInv
  <2>6. IInv' /\ Content' = Content
    BY <2>2, <2>3, <2>4, <2>5, GoesInv
  <2> QED
    BY <2>1, <2>6, Stutters DEF callVars
<1>4. CASE Answered(p) /\ Goto(p, "ret")
  <2>1. PICK r \in Results : r = Result(None, FALSE) /\ r # Pending
    BY ResultType DEF Opt
  <2>2. Answers(p, r)
    BY <1>1, <1>2, <1>4, <2>1 DEF Answers, Answered, RangeF, LocalType
  <2>3. IInv' /\ Content' = Content
    BY <2>1, <2>2, AnswersInv
  <2>4. Atomic!Busy(p, "Range") /\ Atomic!Answer(p, Atomic!Result(None, FALSE))
    BY <1>1, <1>4, Common DEF Answered
  <2>5. Atomic!RangeEnd(p)
    BY <2>3, <2>4 DEF Atomic!RangeEnd
  <2> QED
    BY <2>3, <2>5 DEF Implements, Atomic!Step
<1> QED
  BY <1>3, <1>4 DEF RangeF

LEMMA RangeEndInv ==
  ASSUME IInv, NEW p \in Procs, RangeEnd(p) PROVE IInv' /\ Implements(p)
<1>1. /\ pc[p] = "range" /\ call[p].op = "Range" /\ mu # p /\ res[p] = Pending
      /\ todo[p] = {}
  BY FastFacts DEF RangeEnd, IInv, ProcInv, CallP
<1>2. PICK r \in Results : r = Result(None, TRUE) /\ r # Pending
  BY ResultType DEF Opt
<1>3. Answers(p, r)
  BY <1>1, <1>2, Types DEF Answers, RangeEnd, IInv, LocalType
<1>4. IInv' /\ Content' = Content
  BY <1>2, <1>3, AnswersInv
<1>5. \A k \in Keys : visited[p][k] = None => None \in seen[p][k]
  BY <1>1 DEF IInv, ProcInv, RangeP
<1>6. Atomic!Busy(p, "Range") /\ Atomic!Answer(p, Atomic!Result(None, TRUE))
  BY <1>1, Common DEF RangeEnd
<1>7. Atomic!RangeEnd(p)
  BY <1>4, <1>5, <1>6 DEF Atomic!RangeEnd
<1> QED
  BY <1>4, <1>7 DEF Implements, Atomic!Step

LEMMA RangeLoadInv ==
  ASSUME IInv, NEW p \in Procs, RangeLoad(p) PROVE IInv' /\ Implements(p)
<1>1. /\ pc[p] = "range" /\ call[p].op = "Range" /\ mu # p /\ res[p] = Pending
      /\ call[p] # Idle
  BY FastFacts DEF RangeLoad, IInv, ProcInv, CallP
<1>2. CoreType /\ LocalType /\ CallType
  BY Types DEF IInv
<1>3. PICK k \in todo[p] :
         /\ todo' = [todo EXCEPT ![p] = @ \ {k}]
         /\ \/ Val(ptr[held[p][k]]) = None /\ UNCHANGED <<pc, visited>>
            \/ /\ Val(ptr[held[p][k]]) # None
               /\ visited' = [visited EXCEPT ![p][k] = Val(ptr[held[p][k]])]
               /\ Goto(p, "f")
  BY DEF RangeLoad
<1>4. /\ ptr' = ptr /\ readM' = readM /\ dirty' = dirty /\ amended' = amended
      /\ dirtyNil' = dirtyNil /\ misses' = misses /\ mu' = mu
      /\ held' = held /\ ld' = ld /\ cur' = cur /\ call' = call /\ res' = res /\ seen' = seen
  BY DEF RangeLoad, mapVars
<1>5. /\ k \in Keys /\ todo' \in [Procs -> SUBSET Keys] /\ todo'[p] = todo[p] \ {k}
      /\ \A q \in Procs \ {p} : todo'[q] = todo[q]
  BY <1>2, <1>3 DEF LocalType
<1>6. PICK v : v = Val(ptr[held[p][k]])
  OBVIOUS
<1>7. v \in Opt /\ v \in seen[p][k] /\ visited[p][k] = None
  <2>1. visited[p][k] = None /\ held[p][k] # NoEntry
    BY <1>1, <1>5 DEF IInv, ProcInv, RangeP
  <2>2. held[p][k] \in Entries
    BY <1>2, <1>5, <2>1 DEF LocalType, GoMaps
  <2>3. ptr[held[p][k]] \in Pointers
    BY <1>2, <2>2 DEF CoreType
  <2> QED
    BY <1>1, <1>2, <1>5, <1>6, <2>1, <2>3, ValType, RangeKeys DEF IInv, ProcInv, SeenP
<1>8. \A j \in Keys : /\ j \in todo[p] => visited[p][j] = None /\ held[p][j] # NoEntry
                      /\ j \notin todo[p] => visited[p][j] # None \/ None \in seen[p][j]
  BY <1>1 DEF IInv, ProcInv, RangeP
<1>9. CASE v = None
  <2>1. pc' = pc /\ visited' = visited /\ Goto(p, "range")
    BY <1>1, <1>2, <1>3, <1>6, <1>9 DEF Goto, LocalType
  <2>2. Goes(p, "range")
    BY <1>1, <1>2, <1>4, <1>5, <2>1 DEF Goes, LocalType, mapVars, callVars
  <2>3. CallP(p)' /\ HeldP(p)'
    BY <1>1, <1>4, <2>1 DEF IInv, ProcInv, CallP, Copying, HeldP, Looked
  <2>4. RangeP(p)'
    BY <1>1, <1>4, <1>5, <1>7, <1>8, <1>9, <2>1 DEF RangeP
  <2>5. IInv' /\ Content' = Content
    BY <2>2, <2>3, <2>4, GoesInv DEF Labels, Critical
  <2> QED
    BY <1>4, <2>1, <2>5, Stutters DEF callVars
<1>10. CASE v # None
  <2>1. /\ visited' \in [Procs -> [Keys -> Opt]] /\ visited'[p][k] = v
        /\ visited' = [visited EXCEPT ![p][k] = v]
        /\ \A j \in Keys \ {k} : visited'[p][j] = visited[p][j]
        /\ \A q \in Procs \ {p} : visited'[q] = visited[q]
    <3>1. visited' = [visited EXCEPT ![p] = [visited[p] EXCEPT ![k] = v]]
      BY <1>3, <1>6, <1>10
    <3>2. [visited[p] EXCEPT ![k] = v] \in [Keys -> Opt] /\ visited[p] \in [Keys -> Opt]
      BY <1>2, <1>5, <1>7 DEF CallType
    <3> QED
      BY <1>2, <1>5, <3>1, <3>2 DEF CallType
  <2>2. /\ pc' \in [Procs -> Labels] /\ pc'[p] = "f"
        /\ \A q \in Procs \ {p} : pc'[q] = pc[q]
    BY <1>2, <1>3, <1>6, <1>10 DEF Goto, LocalType, Labels
  <2>3. TypeOK'
    BY <1>2, <1>4, <1>5, <2>1, <2>2, Types
       DEF IInv, TypeOK, CoreType, LocalType, CallType, Labels
  <2>4. Quiet(p)
    <3>1. OthersKeep(p)
      BY <1>4, <1>5, <2>1, <2>2 DEF OthersKeep
    <3> QED
      BY <1>1, <1>4, <3>1 DEF Quiet, Copying
  <2>5. MuP(p)' /\ DirtyP(p)'
    BY <1>1, <1>4, <2>2, WithoutMu DEF Critical
  <2>6. CallP(p)' /\ HeldP(p)'
    BY <1>1, <1>4, <2>2 DEF CallP, Copying, HeldP, Looked
  <2>7. SeenP(p)'
    <3>1. Content' = Content
      BY <1>4, QuietContent
    <3> QED
      BY <1>4, <3>1 DEF IInv, ProcInv, SeenP
  <2>8. RangeP(p)'
    BY <1>4, <1>5, <1>8, <1>10, <2>1, <2>2 DEF RangeP
  <2>9. IInv' /\ Content' = Content
    BY <2>3, <2>4, <2>5, <2>6, <2>7, <2>8, QuietStep DEF ProcInv
  <2>10. Atomic!Visit(p)
    <3>1. Atomic!Busy(p, "Range")
      BY <1>1, Common
    <3>2. /\ k \in Keys /\ visited[p][k] = None /\ v \in seen[p][k] \ {None}
          /\ visited' = [visited EXCEPT ![p][k] = v]
      BY <1>5, <1>7, <1>10, <2>1
    <3>3. UNCHANGED <<Content, call, res, seen>>
      BY <1>4, <2>9
    <3> QED
      BY <3>1, <3>2, <3>3, Zenon DEF Atomic!Visit
  <2> QED
    BY <2>9, <2>10 DEF Implements, Atomic!Step
<1> QED
  BY <1>9, <1>10

-----------------------------------------------------------------------------
(* Steps under mu.                                                         *)

(* What a step of p that goes to l does to the locals, mu and misses.      *)
Local(p, l) ==
    /\ Goto(p, l)
    /\ held' \in [Procs -> GoMaps] /\ ld' \in [Procs -> Pointers]
    /\ todo' \in [Procs -> SUBSET Keys] /\ cur' \in [Procs -> Keys \cup {None}]
    /\ \A q \in Procs \ {p} : /\ held'[q] = held[q] /\ ld'[q] = ld[q]
                              /\ todo'[q] = todo[q] /\ cur'[q] = cur[q]
    /\ CallType' /\ call' = call /\ visited' = visited
    /\ \A q \in Procs \ {p} :
          res'[q] = res[q] /\ \A k \in Keys : seen[q][k] \subseteq seen'[q][k]
    /\ res'[p] = Pending => res[p] = Pending /\ seen'[p] = seen[p]
    /\ mu' \in Procs \cup {Free} /\ \A q \in Procs \ {p} : mu' = q <=> mu = q
    /\ misses' \in 0..Cardinality(Keys)

LEMMA LocalStep ==
  ASSUME IInv, NEW p \in Procs, NEW l \in Labels, Local(p, l)
  PROVE  OthersKeep(p) /\ pc'[p] = l /\ (CoreType' => TypeOK')
<1>1. CoreType /\ LocalType /\ CallType
  BY Types DEF IInv
<1>2. /\ pc' \in [Procs -> Labels] /\ pc'[p] = l
      /\ \A q \in Procs \ {p} : pc'[q] = pc[q]
  BY <1>1 DEF Local, Goto, LocalType
<1>3. OthersKeep(p)
  BY <1>2 DEF Local, OthersKeep
<1>4. ASSUME CoreType' PROVE TypeOK'
  <2>1. /\ held' \in [Procs -> GoMaps] /\ ld' \in [Procs -> Pointers]
        /\ todo' \in [Procs -> SUBSET Keys] /\ cur' \in [Procs -> Keys \cup {None}]
        /\ CallType' /\ mu' \in Procs \cup {Free} /\ misses' \in 0..Cardinality(Keys)
    BY DEF Local
  <2> QED
    BY <1>2, <1>4, <2>1 DEF TypeOK, CoreType, CallType, Labels
<1> QED
  BY <1>2, <1>3, <1>4

(* A step under mu that leaves the maps and the entries alone.             *)
LEMMA QuietMove ==
  ASSUME IInv, NEW p \in Procs, NEW l \in Labels, Local(p, l),
         ptr' = ptr, readM' = readM, dirty' = dirty, amended' = amended, dirtyNil' = dirtyNil,
         \A k \in Keys : held'[p][k] \in {NoEntry, held[p][k], EntryOf(k)},
         pc[p] \in Copying => l \in Copying /\ todo'[p] = todo[p],
         MuP(p)', CallP(p)', DirtyP(p)', HeldP(p)', RangeP(p)'
  PROVE  IInv' /\ Content' = Content
<1>1. OthersKeep(p) /\ pc'[p] = l /\ (CoreType' => TypeOK')
  BY LocalStep
<1>2. CoreType'
  BY Types DEF IInv, CoreType
<1>3. Quiet(p)
  <2>1. \A k \in Keys : EntryOf(k) \in {readM[k], dirty[k]}
    BY DEF EntryOf
  <2> QED
    BY <1>1, <2>1 DEF Quiet
<1>4. SeenP(p)'
  <2>1. Content' = Content
    BY QuietContent
  <2>2. held'[p] \in GoMaps /\ call'[p] = call[p]
    BY DEF Local
  <2>3. res'[p] = Pending => res[p] = Pending /\ seen'[p] = seen[p]
    BY DEF Local
  <2> QED
    BY <2>1, <2>2, <2>3, SeenStays
<1> QED
  BY <1>1, <1>2, <1>3, <1>4, QuietStep DEF ProcInv

LEMMA LockInv ==
  ASSUME IInv, NEW p \in Procs, Lock(p) PROVE IInv' /\ Implements(p)
<1>1. CoreType /\ LocalType /\ CallType /\ misses \in 0..Cardinality(Keys)
  BY Types DEF IInv
<1>2. pc[p] = "lock" /\ mu = Free /\ mu' = p
  BY DEF Lock
<1>3. /\ ptr' = ptr /\ readM' = readM /\ dirty' = dirty /\ amended' = amended
      /\ dirtyNil' = dirtyNil /\ misses' = misses /\ held' = held /\ ld' = ld
      /\ todo' = todo /\ cur' = cur
      /\ call' = call /\ res' = res /\ seen' = seen /\ visited' = visited
  BY DEF Lock, callVars
<1>4. Local(p, "locked")
  <2>1. Goto(p, "locked")
    BY DEF Lock
  <2>2. CallType'
    BY <1>1, <1>3 DEF CallType
  <2> QED
    BY <1>1, <1>2, <1>3, <2>1, <2>2, Apart DEF Local, LocalType
<1>5. pc'[p] = "locked" /\ "locked" \in Labels
  BY <1>4, LocalStep DEF Labels
<1>6. MuP(p)'
  BY <1>2, <1>5 DEF MuP, Critical
<1>7. CallP(p)'
  BY <1>2, <1>3, <1>5 DEF IInv, ProcInv, CallP, Copying
<1>8. DirtyP(p)'
  BY <1>2, <1>3, <1>5 DEF IInv, ProcInv, DirtyP, Copying
<1>9. HeldP(p)'
  BY <1>5 DEF HeldP, Looked
<1>10. RangeP(p)'
  BY <1>2, <1>3, <1>5, NoRange
<1>11. \A k \in Keys : held'[p][k] \in {NoEntry, held[p][k], EntryOf(k)}
  BY <1>3
<1>12. pc[p] \notin Copying
  BY <1>2 DEF Copying
<1>13. IInv' /\ Content' = Content
  BY <1>3, <1>4, <1>5, <1>6, <1>7, <1>8, <1>9, <1>10, <1>11, <1>12, QuietMove
<1> QED
  BY <1>3, <1>13, Stutters DEF callVars

LEMMA UnlockInv ==
  ASSUME IInv, NEW p \in Procs, Unlock(p) PROVE IInv' /\ Implements(p)
<1>1. CoreType /\ LocalType /\ CallType /\ misses \in 0..Cardinality(Keys)
  BY Types DEF IInv
<1>2. pc[p] = "unlock" /\ mu = p /\ mu' = Free
  BY DEF Unlock, IInv, ProcInv, MuP, Critical
<1>3. /\ ptr' = ptr /\ readM' = readM /\ dirty' = dirty /\ amended' = amended
      /\ dirtyNil' = dirtyNil /\ misses' = misses /\ held' = held /\ ld' = ld
      /\ todo' = todo /\ cur' = cur
      /\ call' = call /\ res' = res /\ seen' = seen /\ visited' = visited
  BY DEF Unlock, callVars
<1>4. PICK l \in {"ret", "load", "delete", "range"} :
         /\ Goto(p, l)
         /\ res[p] # Pending => l = "ret"
         /\ res[p] = Pending => \/ l = "load" /\ call[p].op = "Load"
                                \/ l = "delete" /\ call[p].op = "Delete"
                                \/ l = "range" /\ call[p].op = "Range"
  <2>1. CASE res[p] # Pending
    BY <2>1 DEF Unlock
  <2>2. CASE res[p] = Pending
    <3>1. call[p].op \in {"Load", "Delete", "Range"}
      <4>1. call[p].op \notin Storing
        BY <1>2, <2>2 DEF IInv, ProcInv, CallP
      <4>2. call[p].op # "Idle"
        <5>1. call[p] # Idle
          BY <1>2 DEF IInv, ProcInv, CallP
        <5> QED
          BY <1>1, <5>1 DEF CallType, Calls, KeyCalls, RangeCall, Idle
      <4> QED
        BY <1>1, <4>1, <4>2, Calling DEF Storing
    <3>2. Goto(p, CASE call[p].op = "Load"   -> "load"
                    [] call[p].op = "Delete" -> "delete"
                    [] OTHER -> "range")
      BY <2>2 DEF Unlock
    <3>3. CASE call[p].op = "Load"
      BY <2>2, <3>2, <3>3
    <3>4. CASE call[p].op = "Delete"
      BY <2>2, <3>2, <3>4
    <3>5. CASE call[p].op = "Range"
      BY <2>2, <3>2, <3>5
    <3> QED
      BY <3>1, <3>3, <3>4, <3>5
  <2> QED
    BY <2>1, <2>2
<1>5. Local(p, l)
  <2>1. CallType'
    BY <1>1, <1>3 DEF CallType
  <2> QED
    BY <1>1, <1>2, <1>3, <1>4, <2>1, Apart DEF Local, LocalType
<1>6. pc'[p] = l /\ l \in Labels
  BY <1>5, LocalStep DEF Labels
<1>7. MuP(p)'
  BY <1>2, <1>6, Apart DEF MuP, Critical
<1>8. CallP(p)'
  BY <1>2, <1>3, <1>4, <1>6 DEF IInv, ProcInv, CallP, Copying
<1>9. DirtyP(p)'
  BY <1>2, <1>3, <1>6 DEF IInv, ProcInv, DirtyP, Copying
<1>10. HeldP(p)'
  BY <1>2, <1>3, <1>4, <1>6 DEF IInv, ProcInv, HeldP, Looked, Key
<1>11. RangeP(p)'
  BY <1>2, <1>3, <1>4, <1>6 DEF IInv, ProcInv, RangeP
<1>12. \A k \in Keys : held'[p][k] \in {NoEntry, held[p][k], EntryOf(k)}
  BY <1>3
<1>13. pc[p] \notin Copying
  BY <1>2 DEF Copying
<1>14. IInv' /\ Content' = Content
  BY <1>3, <1>5, <1>6, <1>7, <1>8, <1>9, <1>10, <1>11, <1>12, <1>13, QuietMove
<1> QED
  BY <1>3, <1>14, Stutters DEF callVars

-----------------------------------------------------------------------------
(* Promoting the dirty map.                                                *)

LEMMA MissType == ASSUME IInv, MissLocked PROVE misses' \in 0..Cardinality(Keys)
<1>1. Cardinality(Keys) \in Nat
  BY KeysAssumption, FS_CardinalityType
<1>2. CASE Promote
  BY <1>1, <1>2 DEF Promote
<1>3. CASE misses + 1 < Cardinality(Dom(dirty)) /\ misses' = misses + 1
  <2>1. Dom(dirty) \subseteq Keys
    BY DEF Dom
  <2>2. Cardinality(Dom(dirty)) \in Nat /\ Cardinality(Dom(dirty)) <= Cardinality(Keys)
    BY <2>1, KeysAssumption, FS_Subset, FS_CardinalityType
  <2>3. misses \in 0..Cardinality(Keys)
    BY Types DEF IInv
  <2> QED
    BY <1>1, <1>3, <2>2, <2>3
<1> QED
  BY <1>2, <1>3 DEF MissLocked

(* One goroutine at a time is in dirtyLocked.                              *)
LEMMA OneCopies ==
  ASSUME IInv, NEW p \in Procs, mu = p, pc[p] \notin Copying
  PROVE  \A q \in Procs : pc[q] \notin Copying
BY DEF IInv, ProcInv, MuP, Copying, Critical

(* The dirty map has all there is.                                         *)
LEMMA PromoteContent ==
  ASSUME IInv, NEW p \in Procs, mu = p, pc[p] \notin Copying, ~dirtyNil,
         Promote, ptr' = ptr
  PROVE  /\ Content' = Content
         /\ \A k \in Keys : readM[k] # NoEntry =>
               ptr[readM[k]] = Expunged \/ dirty[k] = readM[k]
<1>1. \A q \in Procs : pc[q] \notin Copying
  BY OneCopies
<1>2. \A k \in Keys : readM[k] # NoEntry => ptr[readM[k]] = Expunged \/ dirty[k] = readM[k]
  BY <1>1 DEF IInv, MapInv, CopyInv
<1>3. readM' = dirty /\ dirty' = EmptyMap
  BY DEF Promote
<1>4. ASSUME NEW k \in Keys
      PROVE  (IF EntryOf(k)' = NoEntry THEN None ELSE Val(ptr[EntryOf(k)']))
               = (IF EntryOf(k) = NoEntry THEN None ELSE Val(ptr[EntryOf(k)]))
  <2>1. EntryOf(k)' = dirty[k]
    BY <1>3 DEF EntryOf, EmptyMap
  <2>2. CASE readM[k] = NoEntry
    BY <2>1, <2>2 DEF EntryOf
  <2>3. CASE readM[k] # NoEntry /\ dirty[k] = readM[k]
    BY <2>1, <2>3 DEF EntryOf
  <2>4. CASE readM[k] # NoEntry /\ ptr[readM[k]] = Expunged
    <3>1. dirty[k] = NoEntry
      BY <2>4 DEF IInv, MapInv, EntryInv
    <3> QED
      BY <2>1, <2>4, <3>1, Apart DEF EntryOf, Val
  <2> QED
    BY <1>2, <2>2, <2>3, <2>4
<1>5. Content' = [k \in Keys |-> IF EntryOf(k)' = NoEntry THEN None ELSE Val(ptr[EntryOf(k)'])]
  BY DEF Content, Val
<1> QED
  BY <1>2, <1>4, <1>5 DEF Content

LEMMA PromoteInv ==
  ASSUME IInv, NEW p \in Procs, NEW l \in Labels, Local(p, l), Promote, ptr' = ptr,
         mu = p, pc[p] \notin Copying, ~dirtyNil,
         \A k \in Keys : held'[p][k] \in {NoEntry, held[p][k], EntryOf(k)},
         MuP(p)', CallP(p)', DirtyP(p)', HeldP(p)', RangeP(p)'
  PROVE  IInv' /\ Content' = Content
<1>1. OthersKeep(p) /\ pc'[p] = l /\ (CoreType' => TypeOK')
  BY LocalStep
<1>2. /\ readM' = dirty /\ amended' = FALSE /\ dirty' = EmptyMap /\ dirtyNil' = TRUE
  BY DEF Promote
<1>3. CoreType'
  <2>1. EmptyMap \in GoMaps
    BY DEF EmptyMap, GoMaps
  <2> QED
    BY <1>2, <2>1, Types DEF IInv, CoreType
<1>4. /\ Content' = Content
      /\ \A k \in Keys : readM[k] # NoEntry => ptr[readM[k]] = Expunged \/ dirty[k] = readM[k]
  BY PromoteContent
<1>5. KeepsMaps(p)
  BY DEF KeepsMaps
<1>6. KeepsExpunged(p)
  BY <1>2, <1>4 DEF KeepsExpunged
<1>7. KeepsSeen(p)
  BY <1>1, <1>4, NothingNew
<1>8. SeenP(p)'
  <2>1. held'[p] \in GoMaps /\ call'[p] = call[p]
    BY DEF Local
  <2>2. res'[p] = Pending => res[p] = Pending /\ seen'[p] = seen[p]
    BY DEF Local
  <2> QED
    BY <1>4, <2>1, <2>2, SeenStays
<1>9. OneKey'
  <2>1. ASSUME NEW k \in Keys, NEW e \in Entries, RefersTo(k, e)'
        PROVE  RefersTo(k, e)
    <3>1. CASE readM'[k] = e \/ dirty'[k] = e
      BY <1>2, <3>1, Apart DEF RefersTo, EmptyMap
    <3>2. ASSUME NEW q \in Procs, held'[q][k] = e PROVE RefersTo(k, e)
      <4>1. CASE q = p
        BY <3>2, <4>1, Apart DEF RefersTo, EntryOf
      <4>2. CASE q # p
        BY <3>2, <4>2, <1>1 DEF OthersKeep, RefersTo
      <4> QED
        BY <4>1, <4>2
    <3> QED
      BY <2>1, <3>1, <3>2 DEF RefersTo
  <2> QED
    BY <2>1 DEF OneKey, IInv, MapInv
<1>10. EntryInv'
  BY <1>2 DEF IInv, MapInv, EntryInv, EmptyMap
<1>11. CopyInv' /\ NewKeyAmended'
  BY <1>2 DEF CopyInv, NewKeyAmended, Dom, EmptyMap
<1>12. \A q \in Procs : ProcInv(q)'
  <2>1. ASSUME NEW q \in Procs \ {p} PROVE ProcInv(q)'
    BY <1>1, <1>5, <1>6, <1>7, OthersKept
  <2>2. ProcInv(p)'
    BY <1>8 DEF ProcInv
  <2> QED
    BY <2>1, <2>2
<1> QED
  BY <1>1, <1>3, <1>4, <1>9, <1>10, <1>11, <1>12 DEF IInv, MapInv

(* missLocked, whether it promotes or not.                                 *)
LEMMA MissInv ==
  ASSUME IInv, NEW p \in Procs, NEW l \in Labels, Local(p, l), MissLocked, ptr' = ptr,
         mu = p, pc[p] \notin Copying, ~dirtyNil,
         \A k \in Keys : held'[p][k] \in {NoEntry, held[p][k], EntryOf(k)},
         MuP(p)', CallP(p)', DirtyP(p)', HeldP(p)', RangeP(p)'
  PROVE  IInv' /\ Content' = Content
<1>1. CASE Promote
  BY <1>1, PromoteInv
<1>2. CASE UNCHANGED <<readM, amended, dirty, dirtyNil>>
  BY <1>2, QuietMove
<1> QED
  BY <1>1, <1>2 DEF MissLocked

(* What p may rely on at the start of its critical section.                *)
LEMMA LockedFacts ==
  ASSUME IInv, NEW p \in Procs, pc[p] = "locked"
  PROVE  mu = p /\ res[p] = Pending /\ call[p] # Idle /\ cur[p] = None /\ pc[p] \notin Copying
BY DEF IInv, ProcInv, MuP, CallP, DirtyP, Critical, Copying

(* What p owes when it is about to unlock.                                 *)
LEMMA Unlocking ==
  ASSUME IInv, NEW p \in Procs, pc'[p] = "unlock", mu' = p, call' = call, call[p] # Idle,
         cur'[p] = None, call[p].op \in Storing => res'[p] # Pending,
         call[p].op = "Range" => res'[p] = Pending
  PROVE  MuP(p)' /\ CallP(p)' /\ DirtyP(p)'
<1>1. MuP(p)'
  BY DEF MuP, Critical
<1>2. CallP(p)'
  BY DEF CallP, Copying
<1>3. DirtyP(p)'
  BY DEF DirtyP, Copying
<1> QED
  BY <1>1, <1>2, <1>3

-----------------------------------------------------------------------------
(* Load, Delete, Range and LoadOrStore under mu.                           *)

(* The step of a goroutine that keeps mu, and answers or not.              *)
LEMMA KeepsMu ==
  ASSUME IInv, NEW p \in Procs, NEW l, Goto(p, l), mu' = mu, ld' = ld, cur' = cur,
         held' \in [Procs -> GoMaps], \A q \in Procs \ {p} : held'[q] = held[q],
         todo' \in [Procs -> SUBSET Keys], \A q \in Procs \ {p} : todo'[q] = todo[q],
         misses' \in 0..Cardinality(Keys),
         UNCHANGED callVars \/ \E r \in Results : r # Pending /\ Answer(p, r)
  PROVE  Local(p, l) /\ call' = call /\ visited' = visited
<1>1. LocalType /\ CallType /\ mu \in Procs \cup {Free}
  BY Types DEF IInv
<1>2. CASE UNCHANGED callVars
  <2>1. call' = call /\ res' = res /\ seen' = seen /\ visited' = visited /\ CallType'
    BY <1>1, <1>2 DEF callVars, CallType
  <2> QED
    BY <1>1, <2>1 DEF Local, LocalType
<1>3. CASE \E r \in Results : r # Pending /\ Answer(p, r)
  <2>1. PICK r \in Results : r # Pending /\ Answer(p, r)
    BY <1>3
  <2>2. /\ CallType' /\ res'[p] = r /\ call' = call /\ visited' = visited
        /\ \A q \in Procs \ {p} : res'[q] = res[q] /\ seen'[q] = seen[q]
    BY <1>1, <2>1, AnswerStep
  <2> QED
    BY <1>1, <2>1, <2>2 DEF Local, LocalType
<1> QED
  BY <1>2, <1>3

LEMMA AnsweredStep ==
  ASSUME IInv, NEW p \in Procs, Answered(p)
  PROVE  (\E r \in Results : r # Pending /\ Answer(p, r)) /\ res'[p] # Pending
<1>1. PICK r \in Results : r = Result(None, FALSE) /\ r # Pending
  BY ResultType DEF Opt
<1>2. Answer(p, r)
  BY <1>1 DEF Answered
<1>3. res'[p] = r
  BY <1>2, AnswerStep, Types DEF IInv
<1> QED
  BY <1>1, <1>2, <1>3

LEMMA LoadLockedInv ==
  ASSUME IInv, NEW p \in Procs, LoadLocked(p) PROVE IInv' /\ Implements(p)
<1>1. pc[p] = "locked" /\ call[p].op = "Load"
  BY DEF LoadLocked, At
<1>2. mu = p /\ res[p] = Pending /\ call[p] # Idle /\ cur[p] = None /\ pc[p] \notin Copying
  BY <1>1, LockedFacts
<1>3. CoreType /\ LocalType /\ CallType /\ misses \in 0..Cardinality(Keys) /\ Key(p) \in Keys
  BY <1>1, KeyedCall, Types DEF IInv
<1>4. /\ Goto(p, "unlock") /\ ptr' = ptr /\ mu' = mu /\ ld' = ld /\ todo' = todo /\ cur' = cur
      /\ todo' \in [Procs -> SUBSET Keys] /\ \A q \in Procs \ {p} : todo'[q] = todo[q]
  BY <1>3 DEF LoadLocked, LocalType
<1>5. "unlock" \in Labels
  BY DEF Labels
<1>6. CASE /\ readM[Key(p)] # NoEntry
           /\ Hold(p, readM[Key(p)])
           /\ UNCHANGED <<readM, amended, dirty, dirtyNil, misses, callVars>>
  <2>1. readM[Key(p)] \in Entries \cup {NoEntry}
    BY <1>3 DEF CoreType, GoMaps
  <2>2. /\ held' \in [Procs -> GoMaps] /\ held'[p][Key(p)] = readM[Key(p)]
        /\ \A k \in Keys \ {Key(p)} : held'[p][k] = held[p][k]
        /\ \A q \in Procs \ {p} : held'[q] = held[q]
    BY <1>3, <1>6, <2>1, HoldStep DEF LocalType
  <2>3. Local(p, "unlock") /\ call' = call /\ visited' = visited
    <3>1. misses' \in 0..Cardinality(Keys) /\ UNCHANGED callVars
      BY <1>3, <1>6
    <3> QED
      BY <1>4, <2>2, <3>1, KeepsMu
  <2>4. pc'[p] = "unlock"
    BY <1>5, <2>3, LocalStep
  <2>5. MuP(p)' /\ CallP(p)' /\ DirtyP(p)'
    BY <1>1, <1>2, <1>4, <2>3, <2>4, Unlocking DEF Storing
  <2>6. HeldP(p)'
    BY <1>1, <1>2, <1>4, <1>6, <2>2, <2>3, <2>4 DEF HeldP, Looked, Key
  <2>7. RangeP(p)'
    BY <1>1, <2>3, <2>4, NoRange
  <2>8. \A k \in Keys : held'[p][k] \in {NoEntry, held[p][k], EntryOf(k)}
    BY <1>6, <2>2 DEF EntryOf
  <2>9. IInv' /\ Content' = Content
    BY <1>2, <1>4, <1>5, <1>6, <2>3, <2>5, <2>6, <2>7, <2>8, QuietMove
  <2> QED
    BY <1>6, <2>9, Stutters
<1>7. CASE /\ readM[Key(p)] = NoEntry /\ amended
           /\ Hold(p, dirty[Key(p)])
           /\ IF dirty[Key(p)] = NoEntry THEN Answered(p) ELSE UNCHANGED callVars
           /\ MissLocked
  <2>1. dirty[Key(p)] \in Entries \cup {NoEntry}
    BY <1>3 DEF CoreType, GoMaps
  <2>2. /\ held' \in [Procs -> GoMaps] /\ held'[p][Key(p)] = dirty[Key(p)]
        /\ \A k \in Keys \ {Key(p)} : held'[p][k] = held[p][k]
        /\ \A q \in Procs \ {p} : held'[q] = held[q]
    BY <1>3, <1>7, <2>1, HoldStep DEF LocalType
  <2>3. misses' \in 0..Cardinality(Keys)
    BY <1>7, MissType
  <2>4. UNCHANGED callVars \/ \E r \in Results : r # Pending /\ Answer(p, r)
    BY <1>7, AnsweredStep
  <2>5. Local(p, "unlock") /\ call' = call /\ visited' = visited
    BY <1>4, <2>2, <2>3, <2>4, KeepsMu
  <2>6. pc'[p] = "unlock"
    BY <1>5, <2>5, LocalStep
  <2>7. MuP(p)' /\ CallP(p)' /\ DirtyP(p)'
    BY <1>1, <1>2, <1>4, <2>5, <2>6, Unlocking DEF Storing
  <2>8. HeldP(p)'
    <3>1. dirty[Key(p)] = NoEntry => res'[p] # Pending
      BY <1>7, AnsweredStep
    <3> QED
      BY <1>1, <1>2, <1>4, <2>2, <2>5, <2>6, <3>1 DEF HeldP, Looked, Key
  <2>9. RangeP(p)'
    BY <1>1, <2>5, <2>6, NoRange
  <2>10. \A k \in Keys : held'[p][k] \in {NoEntry, held[p][k], EntryOf(k)}
    BY <1>7, <2>2 DEF EntryOf
  <2>11. ~dirtyNil
    BY <1>7 DEF IInv, MapInv, EntryInv
  <2>12. IInv' /\ Content' = Content
    BY <1>2, <1>4, <1>5, <1>7, <2>5, <2>7, <2>8, <2>9, <2>10, <2>11, MissInv
  <2>13. CASE dirty[Key(p)] # NoEntry
    BY <1>7, <2>12, <2>13, Stutters
  <2>14. CASE dirty[Key(p)] = NoEntry
    <3>1. None \in seen[p][Key(p)]
      BY <1>1, <1>2, <1>7, <2>14, AbsentSeen
    <3>2. Atomic!Busy(p, "Load") /\ Atomic!Answer(p, Atomic!Result(None, FALSE))
      BY <1>1, <1>2, <1>7, <2>14, Common DEF Answered
    <3>3. Atomic!Load(p)
      BY <2>12, <3>1, <3>2, Common DEF Atomic!Load, Key
    <3> QED
      BY <2>12, <3>3 DEF Implements, Atomic!Step
  <2> QED
    BY <2>12, <2>13, <2>14
<1>8. CASE /\ readM[Key(p)] = NoEntry /\ ~amended
           /\ Answered(p)
           /\ UNCHANGED <<readM, amended, dirty, dirtyNil, misses, held>>
  <2>1. /\ held' \in [Procs -> GoMaps] /\ held' = held
        /\ \A q \in Procs \ {p} : held'[q] = held[q]
    BY <1>3, <1>8 DEF LocalType
  <2>2. \E r \in Results : r # Pending /\ Answer(p, r)
    BY <1>8, AnsweredStep
  <2>3. Local(p, "unlock") /\ call' = call /\ visited' = visited
    <3>1. misses' \in 0..Cardinality(Keys)
      BY <1>3, <1>8
    <3> QED
      BY <1>4, <2>1, <2>2, <3>1, KeepsMu
  <2>4. pc'[p] = "unlock"
    BY <1>5, <2>3, LocalStep
  <2>5. MuP(p)' /\ CallP(p)' /\ DirtyP(p)'
    BY <1>1, <1>2, <1>4, <2>3, <2>4, Unlocking DEF Storing
  <2>6. HeldP(p)'
    <3>1. res'[p] # Pending
      BY <1>8, AnsweredStep
    <3> QED
      BY <2>4, <3>1 DEF HeldP, Looked
  <2>7. RangeP(p)'
    BY <1>1, <2>3, <2>4, NoRange
  <2>8. \A k \in Keys : held'[p][k] \in {NoEntry, held[p][k], EntryOf(k)}
    BY <2>1
  <2>9. IInv' /\ Content' = Content
    BY <1>2, <1>4, <1>5, <1>8, <2>3, <2>5, <2>6, <2>7, <2>8, QuietMove
  <2>10. None \in seen[p][Key(p)]
    BY <1>1, <1>2, <1>8, AbsentSeen
  <2>11. Atomic!Busy(p, "Load") /\ Atomic!Answer(p, Atomic!Result(None, FALSE))
    BY <1>1, <1>2, <1>8, Common DEF Answered
  <2>12. Atomic!Load(p)
    BY <2>9, <2>10, <2>11, Common DEF Atomic!Load, Key
  <2> QED
    BY <2>9, <2>12 DEF Implements, Atomic!Step
<1> QED
  BY <1>6, <1>7, <1>8 DEF LoadLocked

LEMMA MissStepInv ==
  ASSUME IInv, NEW p \in Procs, Miss(p) PROVE IInv' /\ Implements(p)
<1>1. /\ pc[p] = "miss" /\ mu = p /\ call[p].op = "LoadOrStore" /\ res[p] # Pending
      /\ ~dirtyNil /\ cur[p] = None /\ pc[p] \notin Copying
  BY DEF Miss, IInv, ProcInv, MuP, CallP, DirtyP, Critical, Copying
<1>2. CoreType /\ LocalType /\ CallType
  BY Types DEF IInv
<1>3. call[p] # Idle
  BY <1>1, <1>2, KeyedCall
<1>4. /\ Goto(p, "unlock") /\ ptr' = ptr /\ mu' = mu /\ ld' = ld /\ todo' = todo /\ cur' = cur
      /\ held' = held /\ UNCHANGED callVars /\ res' = res
      /\ todo' \in [Procs -> SUBSET Keys] /\ \A q \in Procs \ {p} : todo'[q] = todo[q]
      /\ held' \in [Procs -> GoMaps] /\ \A q \in Procs \ {p} : held'[q] = held[q]
  BY <1>2 DEF Miss, LocalType, callVars
<1>5. misses' \in 0..Cardinality(Keys)
  BY MissType DEF Miss
<1>6. Local(p, "unlock") /\ call' = call /\ visited' = visited
  BY <1>4, <1>5, KeepsMu
<1>7. "unlock" \in Labels /\ pc'[p] = "unlock"
  BY <1>6, LocalStep DEF Labels
<1>8. MuP(p)' /\ CallP(p)' /\ DirtyP(p)'
  BY <1>1, <1>3, <1>4, <1>6, <1>7, Unlocking
<1>9. HeldP(p)'
  BY <1>1, <1>4, <1>7 DEF HeldP, Looked
<1>10. RangeP(p)'
  BY <1>1, <1>6, <1>7, NoRange
<1>11. \A k \in Keys : held'[p][k] \in {NoEntry, held[p][k], EntryOf(k)}
  BY <1>4
<1>12. IInv' /\ Content' = Content
  BY <1>1, <1>4, <1>6, <1>7, <1>8, <1>9, <1>10, <1>11, MissInv DEF Miss
<1> QED
  BY <1>4, <1>12, Stutters

LEMMA RangeLockedInv ==
  ASSUME IInv, NEW p \in Procs, RangeLocked(p) PROVE IInv' /\ Implements(p)
<1>1. pc[p] = "locked" /\ call[p].op = "Range"
  BY DEF RangeLocked, At
<1>2. mu = p /\ res[p] = Pending /\ call[p] # Idle /\ cur[p] = None /\ pc[p] \notin Copying
  BY <1>1, LockedFacts
<1>3. CoreType /\ LocalType /\ CallType /\ misses \in 0..Cardinality(Keys)
  BY Types DEF IInv
<1>4. /\ Goto(p, "unlock") /\ ptr' = ptr /\ mu' = mu /\ ld' = ld /\ cur' = cur
      /\ UNCHANGED callVars /\ res' = res /\ seen' = seen
      /\ held' = [held EXCEPT ![p] = readM'] /\ todo' = [todo EXCEPT ![p] = Dom(readM')]
  BY DEF RangeLocked, callVars
<1>5. readM' \in GoMaps
  BY <1>3 DEF RangeLocked, CoreType, Promote
<1>6. Dom(readM') \subseteq Keys
  BY DEF Dom
<1>7. /\ held' \in [Procs -> GoMaps] /\ held'[p] = readM'
      /\ todo' \in [Procs -> SUBSET Keys] /\ todo'[p] = Dom(readM')
      /\ \A q \in Procs \ {p} : held'[q] = held[q] /\ todo'[q] = todo[q]
  BY <1>3, <1>4, <1>5, <1>6 DEF LocalType
<1>8. misses' \in 0..Cardinality(Keys)
  <2>1. CASE Promote
    <3>1. Cardinality(Keys) \in Nat
      BY KeysAssumption, FS_CardinalityType
    <3> QED
      BY <2>1, <3>1 DEF Promote
  <2>2. CASE misses' = misses
    BY <1>3, <2>2
  <2> QED
    BY <2>1, <2>2 DEF RangeLocked
<1>9. Local(p, "unlock") /\ call' = call /\ visited' = visited
  BY <1>4, <1>7, <1>8, KeepsMu
<1>10. "unlock" \in Labels /\ pc'[p] = "unlock"
  BY <1>9, LocalStep DEF Labels
<1>11. MuP(p)' /\ CallP(p)' /\ DirtyP(p)'
  BY <1>1, <1>2, <1>4, <1>9, <1>10, Unlocking DEF Storing
<1>12. HeldP(p)'
  BY <1>1, <1>9, <1>10 DEF HeldP, Looked
<1>13. visited[p] = NothingVisited
  BY <1>1 DEF IInv, ProcInv, RangeP
<1>14. \A k \in Keys : Content[k] \in seen[p][k]
  BY <1>1, <1>2, <1>3, RangeKeys DEF IInv, ProcInv, SeenP
<1>15. ASSUME \A k \in Keys : readM'[k] = NoEntry => Content[k] = None
       PROVE  RangeP(p)'
  BY <1>1, <1>4, <1>7, <1>9, <1>10, <1>13, <1>14, <1>15 DEF RangeP, Dom, NothingVisited
<1>16. CASE amended /\ Promote
  <2>1. readM' = dirty /\ dirty' = EmptyMap /\ ~dirtyNil
    BY <1>16 DEF Promote, IInv, MapInv, EntryInv
  <2>2. \A k \in Keys : held'[p][k] \in {NoEntry, held[p][k], EntryOf(k)}
    BY <1>7, <2>1 DEF EntryOf, IInv, MapInv, EntryInv
  <2>3. Content' = Content
    BY <1>2, <1>4, <1>16, <2>1, PromoteContent
  <2>4. ASSUME NEW k \in Keys, readM'[k] = NoEntry PROVE Content[k] = None
    <3>1. Content'[k] = None
      BY <2>1, <2>4 DEF Content, EntryOf, EmptyMap
    <3> QED
      BY <2>3, <3>1
  <2>5. RangeP(p)'
    BY <1>15, <2>4
  <2>6. IInv' /\ Content' = Content
    BY <1>2, <1>4, <1>9, <1>10, <1>11, <1>12, <1>16, <2>1, <2>2, <2>5, PromoteInv
  <2> QED
    BY <1>4, <2>6, Stutters
<1>17. CASE ~amended /\ UNCHANGED <<readM, amended, dirty, dirtyNil, misses>>
  <2>1. \A k \in Keys : held'[p][k] \in {NoEntry, held[p][k], EntryOf(k)}
    BY <1>7, <1>17 DEF EntryOf
  <2>2. \A k \in Keys : readM[k] = NoEntry => dirty[k] = NoEntry
    BY <1>17 DEF IInv, MapInv, NewKeyAmended, Dom
  <2>3. RangeP(p)'
    <3>1. ASSUME NEW k \in Keys, readM'[k] = NoEntry PROVE Content[k] = None
      BY <1>17, <2>2, <3>1 DEF Content, EntryOf
    <3> QED
      BY <1>15, <3>1
  <2>4. IInv' /\ Content' = Content
    BY <1>2, <1>4, <1>9, <1>10, <1>11, <1>12, <1>17, <2>1, <2>3, QuietMove
  <2> QED
    BY <1>4, <2>4, Stutters
<1> QED
  BY <1>16, <1>17 DEF RangeLocked

(* A step under mu that changes the maps.                                  *)
LEMMA MuStep ==
  ASSUME IInv, NEW p \in Procs, NEW l \in Labels, Local(p, l), mu = p,
         KeepsExpunged(p), KeepsSeen(p), CoreType', MapInv', ProcInv(p)'
  PROVE  IInv'
<1>1. OthersKeep(p) /\ pc'[p] = l /\ (CoreType' => TypeOK')
  BY LocalStep
<1>2. KeepsMaps(p)
  BY DEF KeepsMaps
<1>3. ASSUME NEW q \in Procs \ {p} PROVE ProcInv(q)'
  BY <1>1, <1>2, OthersKept
<1> QED
  BY <1>1, <1>3 DEF IInv

(* Its locals when its call is answered by writing.                        *)
LEMMA KeepsMuWriting ==
  ASSUME IInv, NEW p \in Procs, NEW l, Goto(p, l), mu' = mu, ld' = ld, cur' = cur,
         held' = held, todo' = todo, misses' = misses,
         NEW r \in Results, r # Pending, NEW k \in Keys, NEW v \in Opt,
         AnswerWriting(p, r, k, v)
  PROVE  /\ Local(p, l) /\ call' = call /\ visited' = visited /\ res'[p] = r
         /\ \A q \in Procs \ {p} : res[q] = Pending /\ k \in KeysOf(call[q]) => v \in seen'[q][k]
<1>1. LocalType /\ CallType /\ mu \in Procs \cup {Free} /\ misses \in 0..Cardinality(Keys)
  BY Types DEF IInv
<1>2. /\ CallType' /\ res'[p] = r /\ call' = call /\ visited' = visited
      /\ \A q \in Procs \ {p} :
            /\ res'[q] = res[q]
            /\ \A j \in Keys : seen[q][j] \subseteq seen'[q][j]
            /\ res[q] = Pending /\ k \in KeysOf(call[q]) => v \in seen'[q][k]
  BY <1>1, WritingStep
<1> QED
  BY <1>1, <1>2 DEF Local, LocalType

LEMMA DeleteLockedInv ==
  ASSUME IInv, NEW p \in Procs, DeleteLocked(p) PROVE IInv' /\ Implements(p)
<1>1. pc[p] = "locked" /\ call[p].op = "Delete"
  BY DEF DeleteLocked, At
<1>2. mu = p /\ res[p] = Pending /\ call[p] # Idle /\ cur[p] = None /\ pc[p] \notin Copying
  BY <1>1, LockedFacts
<1>3. CoreType /\ LocalType /\ CallType /\ misses \in 0..Cardinality(Keys) /\ Key(p) \in Keys
  BY <1>1, KeyedCall, Types DEF IInv
<1>4. /\ Goto(p, "unlock") /\ ptr' = ptr /\ mu' = mu /\ ld' = ld /\ todo' = todo /\ cur' = cur
      /\ readM' = readM /\ amended' = amended /\ dirtyNil' = dirtyNil /\ misses' = misses
      /\ todo' \in [Procs -> SUBSET Keys] /\ \A q \in Procs \ {p} : todo'[q] = todo[q]
  BY <1>3 DEF DeleteLocked, LocalType
<1>5. "unlock" \in Labels
  BY DEF Labels
<1>6. CASE readM[Key(p)] # NoEntry /\ Hold(p, readM[Key(p)]) /\ UNCHANGED <<dirty, callVars>>
  <2>1. readM[Key(p)] \in Entries \cup {NoEntry}
    BY <1>3 DEF CoreType, GoMaps
  <2>2. /\ held' \in [Procs -> GoMaps] /\ held'[p][Key(p)] = readM[Key(p)]
        /\ \A k \in Keys \ {Key(p)} : held'[p][k] = held[p][k]
        /\ \A q \in Procs \ {p} : held'[q] = held[q]
    BY <1>3, <1>6, <2>1, HoldStep DEF LocalType
  <2>3. Local(p, "unlock") /\ call' = call /\ visited' = visited
    <3>1. misses' \in 0..Cardinality(Keys) /\ UNCHANGED callVars
      BY <1>3, <1>4, <1>6
    <3> QED
      BY <1>4, <2>2, <3>1, KeepsMu
  <2>4. pc'[p] = "unlock"
    BY <1>5, <2>3, LocalStep
  <2>5. MuP(p)' /\ CallP(p)' /\ DirtyP(p)'
    BY <1>1, <1>2, <1>4, <2>3, <2>4, Unlocking DEF Storing
  <2>6. HeldP(p)'
    BY <1>1, <1>2, <1>4, <1>6, <2>2, <2>3, <2>4 DEF HeldP, Looked, Key
  <2>7. RangeP(p)'
    BY <1>1, <2>3, <2>4, NoRange
  <2>8. \A k \in Keys : held'[p][k] \in {NoEntry, held[p][k], EntryOf(k)}
    BY <1>6, <2>2 DEF EntryOf
  <2>9. IInv' /\ Content' = Content
    BY <1>2, <1>4, <1>5, <1>6, <2>3, <2>5, <2>6, <2>7, <2>8, QuietMove
  <2> QED
    BY <1>6, <2>9, Stutters
<1>7. CASE /\ readM[Key(p)] = NoEntry /\ amended
           /\ dirty' = [dirty EXCEPT ![Key(p)] = NoEntry]
           /\ AnswerWriting(p, Result(None, FALSE), Key(p), None)
           /\ UNCHANGED held
  <2>1. PICK r \in Results : r = Result(None, FALSE) /\ r # Pending
    BY ResultType DEF Opt
  <2>2. AnswerWriting(p, r, Key(p), None) /\ None \in Opt
    BY <1>7, <2>1 DEF Opt
  <2>3. PICK k \in Keys : k = Key(p)
    BY <1>3
  <2>4. /\ Local(p, "unlock") /\ call' = call /\ visited' = visited /\ res'[p] = r
        /\ \A q \in Procs \ {p} : res[q] = Pending /\ k \in KeysOf(call[q]) => None \in seen'[q][k]
    BY <1>4, <1>7, <2>1, <2>2, <2>3, KeepsMuWriting
  <2>5. pc'[p] = "unlock" /\ OthersKeep(p)
    BY <1>5, <2>4, LocalStep
  <2>6. dirty' \in GoMaps /\ dirty'[k] = NoEntry /\ \A j \in Keys \ {k} : dirty'[j] = dirty[j]
    BY <1>3, <1>7, <2>3 DEF CoreType, GoMaps
  <2>7. ~dirtyNil
    BY <1>7 DEF IInv, MapInv, EntryInv
  <2>8. CoreType'
    BY <1>3, <1>4, <2>6, <2>7 DEF CoreType
  <2>9. \A j \in Keys : EntryOf(j)' = IF j = k THEN NoEntry ELSE EntryOf(j)
    BY <1>4, <1>7, <2>3, <2>6 DEF EntryOf
  <2>10. Content' = [Content EXCEPT ![k] = None]
    BY <1>4, <2>9 DEF Content
  <2>11. KeepsSeen(p)
    BY <1>4, <2>2, <2>4, <2>5, <2>10, Shown
  <2>12. KeepsExpunged(p)
    BY <1>4 DEF KeepsExpunged
  <2>13. OneKey'
    <3>1. ASSUME NEW j \in Keys, NEW e \in Entries, RefersTo(j, e)' PROVE RefersTo(j, e)
      BY <1>4, <1>7, <2>6, <3>1, Apart DEF RefersTo
    <3> QED
      BY <3>1 DEF OneKey, IInv, MapInv
  <2>14. EntryInv'
    BY <1>4, <2>6, <2>7 DEF IInv, MapInv, EntryInv
  <2>15. CopyInv'
    <3>1. \A q \in Procs : pc[q] \notin Copying
      BY <1>2, OneCopies
    <3> QED
      BY <1>4, <1>7, <2>3, <2>6, <3>1 DEF IInv, MapInv, CopyInv
  <2>16. NewKeyAmended'
    BY <1>4, <1>7 DEF NewKeyAmended
  <2>17. MuP(p)' /\ CallP(p)' /\ DirtyP(p)'
    BY <1>1, <1>2, <1>4, <2>4, <2>5, Unlocking DEF Storing
  <2>18. HeldP(p)' /\ SeenP(p)'
    BY <2>1, <2>4, <2>5 DEF HeldP, Looked, SeenP
  <2>19. RangeP(p)'
    BY <1>1, <2>4, <2>5, NoRange
  <2>20. IInv'
    BY <1>2, <1>5, <2>4, <2>8, <2>11, <2>12, <2>13, <2>14, <2>15, <2>16, <2>17, <2>18, <2>19,
       MuStep DEF MapInv, ProcInv
  <2>21. Atomic!Delete(p)
    BY <1>1, <1>2, <1>7, <2>3, <2>10, Common DEF Atomic!Delete, Key
  <2> QED
    BY <2>20, <2>21 DEF Implements, Atomic!Step
<1>8. CASE readM[Key(p)] = NoEntry /\ ~amended /\ Answered(p) /\ UNCHANGED <<dirty, held>>
  <2>1. /\ held' \in [Procs -> GoMaps] /\ held' = held
        /\ \A q \in Procs \ {p} : held'[q] = held[q]
    BY <1>3, <1>8 DEF LocalType
  <2>2. \E r \in Results : r # Pending /\ Answer(p, r)
    BY <1>8, AnsweredStep
  <2>3. Local(p, "unlock") /\ call' = call /\ visited' = visited
    <3>1. misses' \in 0..Cardinality(Keys)
      BY <1>3, <1>4
    <3> QED
      BY <1>4, <2>1, <2>2, <3>1, KeepsMu
  <2>4. pc'[p] = "unlock"
    BY <1>5, <2>3, LocalStep
  <2>5. MuP(p)' /\ CallP(p)' /\ DirtyP(p)'
    BY <1>1, <1>2, <1>4, <2>3, <2>4, Unlocking DEF Storing
  <2>6. HeldP(p)'
    <3>1. res'[p] # Pending
      BY <1>8, AnsweredStep
    <3> QED
      BY <2>4, <3>1 DEF HeldP, Looked
  <2>7. RangeP(p)'
    BY <1>1, <2>3, <2>4, NoRange
  <2>8. \A k \in Keys : held'[p][k] \in {NoEntry, held[p][k], EntryOf(k)}
    BY <2>1
  <2>9. IInv' /\ Content' = Content
    BY <1>2, <1>4, <1>5, <1>8, <2>3, <2>5, <2>6, <2>7, <2>8, QuietMove
  <2>10. None \in seen[p][Key(p)]
    BY <1>1, <1>2, <1>8, AbsentSeen
  <2>11. Atomic!Busy(p, "Delete") /\ Atomic!Answer(p, Atomic!Result(None, FALSE))
    BY <1>1, <1>2, <1>8, Common DEF Answered
  <2>12. Atomic!Delete(p)
    BY <2>9, <2>10, <2>11, Common DEF Atomic!Delete, Key
  <2> QED
    BY <2>9, <2>12 DEF Implements, Atomic!Step
<1> QED
  BY <1>6, <1>7, <1>8 DEF DeleteLocked

-----------------------------------------------------------------------------
(* Store and LoadOrStore under mu: the key is found, or is new.            *)

(* An entry is under one key.                                              *)
LEMMA OneKeyFor ==
  ASSUME IInv, NEW j \in Keys, NEW k \in Keys, NEW e \in Entries,
         RefersTo(j, e), RefersTo(k, e)
  PROVE  j = k
BY DEF IInv, MapInv, OneKey

LEMMA FindDirtyInv ==
  ASSUME IInv, NEW p \in Procs, FindDirty(p) PROVE IInv' /\ Implements(p)
<1>1. pc[p] = "locked" /\ call[p].op \in Storing /\ readM[Key(p)] = NoEntry /\ dirty[Key(p)] # NoEntry
  BY DEF FindDirty, At, Storing
<1>2. mu = p /\ res[p] = Pending /\ call[p] # Idle /\ cur[p] = None /\ pc[p] \notin Copying
  BY <1>1, LockedFacts
<1>3. CoreType /\ LocalType /\ CallType /\ misses \in 0..Cardinality(Keys) /\ Key(p) \in Keys
  BY <1>1, KeyedCall, Types DEF IInv, Storing
<1>4. /\ ptr' = ptr /\ readM' = readM /\ dirty' = dirty /\ amended' = amended
      /\ dirtyNil' = dirtyNil /\ misses' = misses /\ mu' = mu
      /\ ld' = ld /\ todo' = todo /\ cur' = cur /\ UNCHANGED callVars /\ res' = res
      /\ Hold(p, dirty[Key(p)])
  BY DEF FindDirty, mapVars, callVars
<1>5. PICK l \in {"put", "try"} : Goto(p, l) /\ (l = "put" <=> call[p].op = "Store")
  BY DEF FindDirty
<1>6. dirty[Key(p)] \in Entries
  BY <1>1, <1>3 DEF CoreType, GoMaps
<1>7. /\ held' \in [Procs -> GoMaps] /\ held'[p][Key(p)] = dirty[Key(p)]
      /\ \A k \in Keys \ {Key(p)} : held'[p][k] = held[p][k]
      /\ \A q \in Procs \ {p} : held'[q] = held[q]
  BY <1>3, <1>4, <1>6, HoldStep DEF LocalType
<1>8. Local(p, l) /\ call' = call /\ visited' = visited
  <2>1. todo' \in [Procs -> SUBSET Keys] /\ misses' \in 0..Cardinality(Keys)
    BY <1>3, <1>4 DEF LocalType
  <2> QED
    BY <1>4, <1>5, <1>7, <2>1, KeepsMu
<1>9. l \in Labels /\ pc'[p] = l
  BY <1>8, LocalStep DEF Labels
<1>10. MuP(p)'
  BY <1>1, <1>2, <1>4, <1>5, <1>8, <1>9 DEF MuP, Critical, Storing
<1>11. CallP(p)'
  BY <1>1, <1>2, <1>4, <1>5, <1>8, <1>9 DEF CallP, Copying
<1>12. DirtyP(p)'
  BY <1>2, <1>4, <1>9 DEF DirtyP, Copying
<1>13. HeldP(p)'
  <2>1. ptr[dirty[Key(p)]] # Expunged /\ EntryOf(Key(p)) = dirty[Key(p)]
    BY <1>1, <1>3 DEF IInv, MapInv, EntryInv, EntryOf
  <2>2. Key(p)' = Key(p) /\ EntryOf(Key(p))' = EntryOf(Key(p))
    BY <1>4, <1>8 DEF Key, EntryOf
  <2> QED
    BY <1>1, <1>2, <1>4, <1>7, <1>8, <1>9, <2>1, <2>2 DEF HeldP, Looked
<1>14. RangeP(p)'
  BY <1>1, <1>8, <1>9, NoRange
<1>15. \A k \in Keys : held'[p][k] \in {NoEntry, held[p][k], EntryOf(k)}
  BY <1>1, <1>7 DEF EntryOf
<1>16. IInv' /\ Content' = Content
  BY <1>2, <1>4, <1>8, <1>9, <1>10, <1>11, <1>12, <1>13, <1>14, <1>15, QuietMove
<1> QED
  BY <1>4, <1>16, Stutters

LEMMA FindReadInv ==
  ASSUME IInv, NEW p \in Procs, FindRead(p) PROVE IInv' /\ Implements(p)
<1>1. pc[p] = "locked" /\ call[p].op \in Storing /\ readM[Key(p)] # NoEntry
  BY DEF FindRead, At, Storing
<1>2. mu = p /\ res[p] = Pending /\ call[p] # Idle /\ cur[p] = None /\ pc[p] \notin Copying
  BY <1>1, LockedFacts
<1>3. CoreType /\ LocalType /\ CallType /\ misses \in 0..Cardinality(Keys) /\ Key(p) \in Keys
  BY <1>1, KeyedCall, Types DEF IInv, Storing
<1>4. /\ readM' = readM /\ amended' = amended
      /\ dirtyNil' = dirtyNil /\ misses' = misses /\ mu' = mu
      /\ ld' = ld /\ todo' = todo /\ cur' = cur /\ UNCHANGED callVars
      /\ res' = res /\ seen' = seen /\ Hold(p, readM[Key(p)])
  BY DEF FindRead, callVars
<1>5. PICK l \in {"put", "try"} : Goto(p, l) /\ (l = "put" <=> call[p].op = "Store")
  BY DEF FindRead
<1>6. PICK k \in Keys : k = Key(p)
  BY <1>3
<1>7. PICK e \in Entries : e = readM[k]
  BY <1>1, <1>3, <1>6 DEF CoreType, GoMaps
<1>8. /\ held' \in [Procs -> GoMaps] /\ held'[p][k] = e
      /\ \A j \in Keys \ {k} : held'[p][j] = held[p][j]
      /\ \A q \in Procs \ {p} : held'[q] = held[q]
  BY <1>3, <1>4, <1>6, <1>7, HoldStep DEF LocalType
<1>9. Local(p, l) /\ call' = call /\ visited' = visited
  <2>1. todo' \in [Procs -> SUBSET Keys] /\ misses' \in 0..Cardinality(Keys)
    BY <1>3, <1>4 DEF LocalType
  <2> QED
    BY <1>4, <1>5, <1>8, <2>1, KeepsMu
<1>10. l \in Labels /\ pc'[p] = l /\ OthersKeep(p)
  BY <1>9, LocalStep DEF Labels
<1>11. MuP(p)'
  BY <1>1, <1>2, <1>4, <1>5, <1>9, <1>10 DEF MuP, Critical, Storing
<1>12. CallP(p)'
  BY <1>1, <1>2, <1>4, <1>5, <1>9, <1>10 DEF CallP, Copying
<1>13. DirtyP(p)'
  BY <1>2, <1>4, <1>10 DEF DirtyP, Copying
<1>14. ASSUME ptr'[e] # Expunged PROVE HeldP(p)'
  <2>1. Key(p)' = k /\ EntryOf(Key(p))' = e
    BY <1>1, <1>4, <1>6, <1>7, <1>9 DEF Key, EntryOf
  <2> QED
    BY <1>1, <1>2, <1>4, <1>7, <1>8, <1>9, <1>10, <1>14, <2>1, Apart DEF HeldP, Looked
<1>15. RangeP(p)'
  BY <1>1, <1>9, <1>10, NoRange
<1>16. \A j \in Keys : held'[p][j] \in {NoEntry, held[p][j], EntryOf(j)}
  BY <1>7, <1>8, Apart DEF EntryOf
<1>17. Unexpunge(k, e)
  BY <1>6, <1>7 DEF FindRead
<1>18. CASE ptr[e] # Expunged /\ UNCHANGED <<ptr, dirty>>
  <2>1. HeldP(p)'
    BY <1>14, <1>18
  <2>2. IInv' /\ Content' = Content
    BY <1>2, <1>4, <1>9, <1>10, <1>11, <1>12, <1>13, <1>15, <1>16, <1>18, <2>1, QuietMove
  <2> QED
    BY <1>4, <2>2, Stutters
<1>19. CASE /\ ptr[e] = Expunged
            /\ ptr' = [ptr EXCEPT ![e] = Nil]
            /\ dirty' = [dirty EXCEPT ![k] = e]
  <2>1. /\ ptr' \in [Entries -> Pointers] /\ ptr'[e] = Nil
        /\ \A f \in Entries \ {e} : ptr'[f] = ptr[f]
    BY <1>3, <1>19 DEF CoreType, Pointers
  <2>2. /\ dirty' \in GoMaps /\ dirty'[k] = e /\ \A j \in Keys \ {k} : dirty'[j] = dirty[j]
    BY <1>3, <1>19 DEF CoreType, GoMaps
  <2>3. ~dirtyNil
    BY <1>7, <1>19, Apart DEF IInv, MapInv, EntryInv
  <2>4. CoreType'
    BY <1>3, <1>4, <2>1, <2>2, <2>3 DEF CoreType
  <2>5. \A f \in Entries : Val(ptr'[f]) = Val(ptr[f])
    BY <1>19, <2>1, Apart DEF Val
  <2>6. \A j \in Keys : EntryOf(j)' = EntryOf(j)
    BY <1>4, <1>7, <2>2, Apart DEF EntryOf
  <2>7. Content' = Content
    <3>1. \A j \in Keys : EntryOf(j) \in Entries \cup {NoEntry}
      BY <1>3 DEF EntryOf, CoreType, GoMaps
    <3>2. \A j \in Keys : (IF EntryOf(j)' = NoEntry THEN None ELSE Val(ptr'[EntryOf(j)']))
                            = (IF EntryOf(j) = NoEntry THEN None ELSE Val(ptr[EntryOf(j)]))
      BY <2>5, <2>6, <3>1
    <3>3. Content' = [j \in Keys |-> IF EntryOf(j)' = NoEntry THEN None ELSE Val(ptr'[EntryOf(j)'])]
      BY DEF Content, Val
    <3> QED
      BY <3>2, <3>3 DEF Content
  <2>8. KeepsSeen(p)
    BY <1>10, <2>5, <2>7, NothingNew
  <2>9. KeepsExpunged(p)
    <3>1. ASSUME NEW q \in Procs \ {p}, NEW j \in Keys, NEW f, f = held[q][j], f # NoEntry,
                 ptr[f] = Expunged \/ readM[j] = f
          PROVE  ptr'[f] = Expunged \/ readM'[j] = f
      <4>1. f \in Entries
        BY <1>3, <3>1 DEF LocalType, GoMaps
      <4>2. CASE f = e
        <5>1. RefersTo(j, e) /\ RefersTo(k, e)
          BY <1>7, <3>1, <4>2 DEF RefersTo
        <5>2. j = k
          BY <5>1, OneKeyFor
        <5> QED
          BY <1>4, <1>7, <4>2, <5>2
      <4>3. CASE f # e
        BY <1>4, <2>1, <3>1, <4>1, <4>3
      <4> QED
        BY <4>2, <4>3
    <3> QED
      BY <3>1 DEF KeepsExpunged
  <2>10. OneKey'
    <3>1. ASSUME NEW j \in Keys, NEW f \in Entries, RefersTo(j, f)' PROVE RefersTo(j, f)
      <4>1. CASE readM'[j] = f
        BY <1>4, <4>1 DEF RefersTo
      <4>2. CASE dirty'[j] = f
        BY <1>7, <2>2, <4>2 DEF RefersTo
      <4>3. ASSUME NEW q \in Procs, held'[q][j] = f PROVE RefersTo(j, f)
        BY <1>7, <1>8, <4>3 DEF RefersTo
      <4> QED
        BY <3>1, <4>1, <4>2, <4>3 DEF RefersTo
    <3> QED
      BY <3>1 DEF OneKey, IInv, MapInv
  <2>11. EntryInv'
    <3>1. \A j \in Keys : dirty[j] # NoEntry => dirty[j] \in Entries
      BY <1>3 DEF CoreType, GoMaps
    <3>2. \A j \in Keys : readM'[j] # NoEntry /\ dirty'[j] # NoEntry => dirty'[j] = readM'[j]
      BY <1>4, <1>7, <2>2 DEF IInv, MapInv, EntryInv
    <3>3. ASSUME NEW j \in Keys, dirty'[j] # NoEntry PROVE ptr'[dirty'[j]] # Expunged
      <4>1. CASE dirty'[j] = e
        BY <2>1, <4>1, Apart
      <4>2. CASE dirty'[j] # e
        BY <2>1, <2>2, <3>1, <3>3, <4>2 DEF IInv, MapInv, EntryInv
      <4> QED
        BY <4>1, <4>2
    <3> QED
      BY <1>4, <2>3, <3>2, <3>3 DEF EntryInv
  <2>12. CopyInv'
    <3>1. \A q \in Procs : pc[q] \notin Copying
      BY <1>2, OneCopies
    <3>2. ASSUME NEW j \in Keys, readM[j] # NoEntry, ptr'[readM[j]] # Expunged
          PROVE  dirty'[j] = readM[j]
      <4>1. CASE j = k
        BY <1>7, <2>2, <4>1
      <4>2. CASE j # k
        <5>1. readM[j] \in Entries
          BY <1>3, <3>2 DEF CoreType, GoMaps
        <5>2. readM[j] # e
          <6>1. ASSUME readM[j] = e PROVE j = k
            <7>1. RefersTo(j, e) /\ RefersTo(k, e)
              BY <1>7, <6>1 DEF RefersTo
            <7> QED
              BY <7>1, OneKeyFor
          <6> QED
            BY <4>2, <6>1
        <5>3. ptr[readM[j]] # Expunged
          BY <2>1, <3>2, <5>1, <5>2
        <5>4. dirty[j] = readM[j]
          BY <2>3, <3>1, <3>2, <5>3 DEF IInv, MapInv, CopyInv
        <5> QED
          BY <2>2, <4>2, <5>4
      <4> QED
        BY <4>1, <4>2
    <3> QED
      BY <1>4, <3>2 DEF CopyInv
  <2>13. NewKeyAmended'
    <3>1. k \in Dom(readM)
      BY <1>7, Apart DEF Dom
    <3>2. Dom(dirty') \subseteq Dom(dirty) \cup {k}
      BY <2>2 DEF Dom
    <3> QED
      BY <1>4, <3>1, <3>2 DEF IInv, MapInv, NewKeyAmended
  <2>14. HeldP(p)'
    BY <1>14, <2>1, Apart
  <2>15. SeenP(p)'
    <3>1. held'[p] \in GoMaps /\ call'[p] = call[p]
      BY <1>8, <1>9
    <3>2. res'[p] = Pending => res[p] = Pending /\ seen'[p] = seen[p]
      BY <1>4
    <3> QED
      BY <1>16, <2>5, <2>7, <3>1, <3>2, SeenStays
  <2>16. IInv'
    BY <1>2, <1>9, <1>10, <1>11, <1>12, <1>13, <1>15, <2>4, <2>8, <2>9, <2>10, <2>11, <2>12,
       <2>13, <2>14, <2>15, MuStep DEF MapInv, ProcInv
  <2> QED
    BY <1>4, <2>7, <2>16, Stutters
<1> QED
  BY <1>17, <1>18, <1>19 DEF Unexpunge

LEMMA FindNoneInv ==
  ASSUME IInv, NEW p \in Procs, FindNone(p) PROVE IInv' /\ Implements(p)
<1>1. /\ pc[p] = "locked" /\ call[p].op \in Storing
      /\ readM[Key(p)] = NoEntry /\ dirty[Key(p)] = NoEntry
  BY DEF FindNone, At, Storing
<1>2. mu = p /\ res[p] = Pending /\ call[p] # Idle /\ cur[p] = None /\ pc[p] \notin Copying
  BY <1>1, LockedFacts
<1>3. CoreType /\ LocalType /\ CallType /\ misses \in 0..Cardinality(Keys) /\ Key(p) \in Keys
  BY <1>1, KeyedCall, Types DEF IInv, Storing
<1>4. /\ ptr' = ptr /\ readM' = readM /\ dirty' = dirty /\ amended' = amended
      /\ misses' = misses /\ mu' = mu /\ held' = held
      /\ ld' = ld /\ cur' = cur /\ UNCHANGED callVars
      /\ call' = call /\ res' = res /\ seen' = seen
  BY DEF FindNone, callVars
<1>5. ASSUME NEW l \in {"expunge", "new"}, Goto(p, l), todo' \in [Procs -> SUBSET Keys],
             \A q \in Procs \ {p} : todo'[q] = todo[q]
      PROVE  /\ Local(p, l) /\ l \in Labels /\ pc'[p] = l
             /\ MuP(p)' /\ CallP(p)' /\ HeldP(p)' /\ RangeP(p)'
  <2>1. Local(p, l) /\ call' = call /\ visited' = visited
    <3>1. misses' \in 0..Cardinality(Keys) /\ held' \in [Procs -> GoMaps]
      BY <1>3, <1>4 DEF LocalType
    <3> QED
      BY <1>4, <1>5, <3>1, KeepsMu
  <2>2. l \in Labels /\ pc'[p] = l
    BY <2>1, LocalStep DEF Labels
  <2>3. MuP(p)'
    BY <1>2, <1>4, <2>2 DEF MuP, Critical
  <2>4. CallP(p)'
    BY <1>1, <1>2, <1>4, <2>2 DEF CallP, Copying
  <2>5. HeldP(p)'
    BY <2>2 DEF HeldP, Looked
  <2>6. RangeP(p)'
    BY <1>1, <2>1, <2>2, NoRange
  <2> QED
    BY <2>1, <2>2, <2>3, <2>4, <2>5, <2>6
<1>6. \A k \in Keys : held'[p][k] \in {NoEntry, held[p][k], EntryOf(k)}
  BY <1>4
<1>7. Content' = Content
  BY <1>4, QuietContent
<1>8. CASE amended /\ Goto(p, "new") /\ UNCHANGED <<dirtyNil, todo>>
  <2>1. todo' \in [Procs -> SUBSET Keys] /\ \A q \in Procs \ {p} : todo'[q] = todo[q]
    BY <1>3, <1>8 DEF LocalType
  <2>2. /\ Local(p, "new") /\ "new" \in Labels /\ pc'[p] = "new"
        /\ MuP(p)' /\ CallP(p)' /\ HeldP(p)' /\ RangeP(p)'
    BY <1>5, <1>8, <2>1
  <2>3. DirtyP(p)'
    BY <1>1, <1>2, <1>4, <1>8, <2>2 DEF DirtyP, Copying, Key
  <2>4. IInv' /\ Content' = Content
    BY <1>2, <1>4, <1>6, <1>8, <2>2, <2>3, QuietMove
  <2> QED
    BY <1>4, <2>4, Stutters
<1>9. CASE /\ ~amended /\ dirtyNil' = FALSE
           /\ todo' = [todo EXCEPT ![p] = IF dirtyNil THEN Dom(readM) ELSE {}]
           /\ Goto(p, "expunge")
  <2>1. /\ todo' \in [Procs -> SUBSET Keys] /\ \A q \in Procs \ {p} : todo'[q] = todo[q]
        /\ todo'[p] = IF dirtyNil THEN Dom(readM) ELSE {}
    BY <1>3, <1>9 DEF LocalType, Dom
  <2>2. /\ Local(p, "expunge") /\ "expunge" \in Labels /\ pc'[p] = "expunge"
        /\ MuP(p)' /\ CallP(p)' /\ HeldP(p)' /\ RangeP(p)'
    BY <1>5, <1>9, <2>1
  <2>3. OthersKeep(p)
    BY <2>2, LocalStep
  <2>4. CoreType'
    BY <1>3, <1>4, <1>9 DEF CoreType
  <2>5. KeepsExpunged(p)
    BY <1>4 DEF KeepsExpunged
  <2>6. KeepsSeen(p)
    BY <1>4, <1>7, <2>3, NothingNew
  <2>7. SeenP(p)'
    BY <1>4, <1>7 DEF IInv, ProcInv, SeenP
  <2>8. DirtyP(p)'
    <3>1. ASSUME NEW k \in todo'[p] PROVE readM'[k] # NoEntry /\ dirty'[k] = NoEntry
      <4>1. dirtyNil /\ k \in Dom(readM)
        BY <2>1, <3>1
      <4>2. dirty = EmptyMap
        BY <1>3, <4>1 DEF CoreType
      <4> QED
        BY <1>4, <4>1, <4>2 DEF Dom, EmptyMap
    <3> QED
      BY <1>1, <1>2, <1>4, <1>9, <2>2, <3>1 DEF DirtyP, Copying, Key
  <2>9. OneKey' /\ EntryInv' /\ NewKeyAmended'
    <3>1. OneKey'
      BY <1>4 DEF IInv, MapInv, OneKey, RefersTo
    <3>2. EntryInv'
      BY <1>4, <1>9 DEF IInv, MapInv, EntryInv
    <3>3. NewKeyAmended'
      BY <1>4 DEF IInv, MapInv, NewKeyAmended, Dom
    <3> QED
      BY <3>1, <3>2, <3>3
  <2>10. CopyInv'
    <3>1. \A q \in Procs : pc[q] \notin Copying
      BY <1>2, OneCopies
    <3>2. ASSUME NEW k \in Keys, readM[k] # NoEntry, ptr[readM[k]] # Expunged, dirty[k] # readM[k]
          PROVE  k \in todo'[p]
      <4>1. dirtyNil
        BY <3>1, <3>2 DEF IInv, MapInv, CopyInv
      <4> QED
        BY <2>1, <3>2, <4>1 DEF Dom
    <3> QED
      BY <1>4, <2>2, <3>2 DEF CopyInv, Copying
  <2>11. IInv'
    BY <1>2, <2>2, <2>4, <2>5, <2>6, <2>7, <2>8, <2>9, <2>10, MuStep DEF MapInv, ProcInv
  <2> QED
    BY <1>4, <1>7, <2>11, Stutters
<1> QED
  BY <1>8, <1>9 DEF FindNone

-----------------------------------------------------------------------------
(* dirtyLocked.                                                            *)

LEMMA CopyFacts ==
  ASSUME IInv, NEW p \in Procs, pc[p] \in Copying
  PROVE  /\ mu = p /\ res[p] = Pending /\ call[p] # Idle /\ ~dirtyNil /\ ~amended
         /\ call[p].op \in Storing /\ Key(p) \in Keys
         /\ readM[Key(p)] = NoEntry /\ dirty[Key(p)] = NoEntry
         /\ \A k \in todo[p] : k \in Keys /\ readM[k] # NoEntry /\ dirty[k] = NoEntry
         /\ \A q \in Procs \ {p} : pc[q] \notin Copying
<1>1. mu = p /\ res[p] = Pending /\ call[p] # Idle /\ call[p].op \in Storing
  BY DEF IInv, ProcInv, MuP, CallP, Copying, Critical
<1>2. /\ ~dirtyNil /\ ~amended /\ readM[Key(p)] = NoEntry /\ dirty[Key(p)] = NoEntry
      /\ \A k \in todo[p] : readM[k] # NoEntry /\ dirty[k] = NoEntry
  BY DEF IInv, ProcInv, DirtyP
<1>3. \A k \in todo[p] : k \in Keys
  BY Types DEF IInv, LocalType
<1>4. Key(p) \in Keys
  BY <1>1, KeyedCall, Types DEF IInv, Storing
<1>5. \A q \in Procs \ {p} : pc[q] \notin Copying
  BY <1>1 DEF IInv, ProcInv, MuP, Copying, Critical
<1> QED
  BY <1>1, <1>2, <1>3, <1>4, <1>5

(* Its steps, but for what they do to the dirty map.                       *)
LEMMA CopyStep ==
  ASSUME IInv, NEW p \in Procs, pc[p] \in Copying, NEW l \in {"expunge", "expungeCAS", "new"},
         Goto(p, l), mu' = mu, ld' = ld, held' = held, misses' = misses, UNCHANGED callVars,
         todo' \in [Procs -> SUBSET Keys], \A q \in Procs \ {p} : todo'[q] = todo[q],
         cur' \in [Procs -> Keys \cup {None}], \A q \in Procs \ {p} : cur'[q] = cur[q]
  PROVE  /\ Local(p, l) /\ l \in Labels /\ pc'[p] = l /\ OthersKeep(p)
         /\ MuP(p)' /\ CallP(p)' /\ HeldP(p)' /\ RangeP(p)'
         /\ call' = call /\ res' = res /\ seen' = seen
<1>1. LocalType /\ CallType /\ mu \in Procs \cup {Free} /\ misses \in 0..Cardinality(Keys)
  BY Types DEF IInv
<1>2. call' = call /\ res' = res /\ seen' = seen /\ visited' = visited /\ CallType'
  BY <1>1 DEF callVars, CallType
<1>3. Local(p, l)
  BY <1>1, <1>2 DEF Local, LocalType
<1>4. l \in Labels /\ pc'[p] = l /\ OthersKeep(p)
  BY <1>3, LocalStep DEF Labels
<1>5. mu = p /\ res[p] = Pending /\ call[p] # Idle /\ call[p].op \in Storing
  BY CopyFacts
<1>6. MuP(p)'
  BY <1>4, <1>5 DEF MuP, Critical
<1>7. CallP(p)'
  BY <1>2, <1>4, <1>5 DEF CallP, Copying
<1>8. HeldP(p)'
  BY <1>4 DEF HeldP, Looked
<1>9. RangeP(p)'
  BY <1>2, <1>4, <1>5, NoRange DEF Copying
<1> QED
  BY <1>2, <1>3, <1>4, <1>6, <1>7, <1>8, <1>9

LEMMA AmendInv ==
  ASSUME IInv, NEW p \in Procs, Amend(p) PROVE IInv' /\ Implements(p)
<1>1. pc[p] \in Copying /\ cur[p] = None /\ todo[p] = {}
  BY DEF Amend, Copying
<1>2. /\ mu = p /\ ~dirtyNil /\ readM[Key(p)] = NoEntry /\ dirty[Key(p)] = NoEntry
      /\ \A q \in Procs \ {p} : pc[q] \notin Copying
  BY <1>1, CopyFacts
<1>3. CoreType /\ LocalType /\ CallType
  BY Types DEF IInv
<1>4. /\ ptr' = ptr /\ readM' = readM /\ dirty' = dirty /\ amended' = TRUE
      /\ dirtyNil' = dirtyNil /\ misses' = misses /\ mu' = mu /\ held' = held
      /\ ld' = ld /\ cur' = cur /\ todo' = todo /\ UNCHANGED callVars /\ Goto(p, "new")
      /\ todo' \in [Procs -> SUBSET Keys] /\ cur' \in [Procs -> Keys \cup {None}]
  BY <1>3 DEF Amend, LocalType
<1>5. /\ Local(p, "new") /\ "new" \in Labels /\ pc'[p] = "new" /\ OthersKeep(p)
      /\ MuP(p)' /\ CallP(p)' /\ HeldP(p)' /\ RangeP(p)'
      /\ call' = call /\ res' = res /\ seen' = seen
  BY <1>1, <1>4, CopyStep
<1>6. Content' = Content
  BY <1>4, QuietContent
<1>7. CoreType'
  BY <1>3, <1>4 DEF CoreType
<1>8. KeepsExpunged(p) /\ KeepsSeen(p)
  BY <1>4, <1>5, <1>6, NothingNew DEF KeepsExpunged
<1>9. SeenP(p)'
  BY <1>4, <1>5, <1>6 DEF IInv, ProcInv, SeenP
<1>10. DirtyP(p)'
  BY <1>1, <1>2, <1>4, <1>5 DEF DirtyP, Copying, Key
<1>11. OneKey'
  BY <1>4 DEF IInv, MapInv, OneKey, RefersTo
<1>12. EntryInv' /\ NewKeyAmended'
  BY <1>2, <1>4 DEF IInv, MapInv, EntryInv, NewKeyAmended
<1>13. CopyInv'
  BY <1>1, <1>2, <1>4 DEF IInv, MapInv, CopyInv
<1>14. IInv'
  BY <1>2, <1>5, <1>7, <1>8, <1>9, <1>10, <1>11, <1>12, <1>13, MuStep DEF MapInv, ProcInv
<1> QED
  BY <1>4, <1>6, <1>14, Stutters

LEMMA ExpungeLoadInv ==
  ASSUME IInv, NEW p \in Procs, ExpungeLoad(p) PROVE IInv' /\ Implements(p)
<1>1. pc[p] = "expunge" /\ pc[p] \in Copying
  BY DEF ExpungeLoad, Copying
<1>2. /\ mu = p /\ ~dirtyNil /\ ~amended /\ readM[Key(p)] = NoEntry /\ dirty[Key(p)] = NoEntry
      /\ \A j \in todo[p] : j \in Keys /\ readM[j] # NoEntry /\ dirty[j] = NoEntry
      /\ \A q \in Procs \ {p} : pc[q] \notin Copying
  BY <1>1, CopyFacts
<1>3. CoreType /\ LocalType /\ CallType
  BY Types DEF IInv
<1>4. /\ ptr' = ptr /\ readM' = readM /\ amended' = amended
      /\ dirtyNil' = dirtyNil /\ misses' = misses /\ mu' = mu /\ held' = held
      /\ ld' = ld /\ UNCHANGED callVars
  BY DEF ExpungeLoad
<1>5. PICK k \in IF cur[p] = None THEN todo[p] ELSE {cur[p]} :
        \/ /\ ptr[readM[k]] = Nil
           /\ cur' = [cur EXCEPT ![p] = k]
           /\ Goto(p, "expungeCAS")
           /\ UNCHANGED <<dirty, todo>>
        \/ /\ ptr[readM[k]] # Nil
           /\ dirty' = IF ptr[readM[k]] = Expunged THEN dirty
                       ELSE [dirty EXCEPT ![k] = readM[k]]
           /\ todo' = [todo EXCEPT ![p] = @ \ {k}]
           /\ cur' = [cur EXCEPT ![p] = None]
           /\ UNCHANGED pc
  BY DEF ExpungeLoad
<1>6. k \in todo[p] /\ k \in Keys /\ readM[k] # NoEntry /\ dirty[k] = NoEntry
  <2>1. cur[p] # None => cur[p] \in todo[p]
    BY DEF IInv, ProcInv, DirtyP
  <2> QED
    BY <1>2, <1>5, <2>1
<1>7. CASE /\ ptr[readM[k]] = Nil
           /\ cur' = [cur EXCEPT ![p] = k]
           /\ Goto(p, "expungeCAS")
           /\ UNCHANGED <<dirty, todo>>
  <2>1. /\ cur' \in [Procs -> Keys \cup {None}] /\ \A q \in Procs \ {p} : cur'[q] = cur[q]
        /\ cur'[p] = k /\ todo' \in [Procs -> SUBSET Keys]
        /\ \A q \in Procs \ {p} : todo'[q] = todo[q]
    BY <1>3, <1>6, <1>7 DEF LocalType
  <2>2. /\ Local(p, "expungeCAS") /\ "expungeCAS" \in Labels /\ pc'[p] = "expungeCAS"
        /\ MuP(p)' /\ CallP(p)' /\ HeldP(p)' /\ RangeP(p)'
        /\ call' = call /\ res' = res /\ seen' = seen
    BY <1>1, <1>4, <1>7, <2>1, CopyStep
  <2>3. DirtyP(p)'
    BY <1>2, <1>4, <1>6, <1>7, <2>1, <2>2, Apart DEF DirtyP, Copying, Key
  <2>4. \A j \in Keys : held'[p][j] \in {NoEntry, held[p][j], EntryOf(j)}
    BY <1>4
  <2>5. "expungeCAS" \in Copying
    BY DEF Copying
  <2>6. IInv' /\ Content' = Content
    BY <1>4, <1>7, <2>2, <2>3, <2>4, <2>5, QuietMove
  <2> QED
    BY <1>4, <2>6, Stutters
<1>8. CASE /\ ptr[readM[k]] # Nil
           /\ dirty' = IF ptr[readM[k]] = Expunged THEN dirty
                       ELSE [dirty EXCEPT ![k] = readM[k]]
           /\ todo' = [todo EXCEPT ![p] = @ \ {k}]
           /\ cur' = [cur EXCEPT ![p] = None]
           /\ UNCHANGED pc
  <2>1. /\ cur' \in [Procs -> Keys \cup {None}] /\ \A q \in Procs \ {p} : cur'[q] = cur[q]
        /\ cur'[p] = None /\ todo' \in [Procs -> SUBSET Keys]
        /\ todo'[p] = todo[p] \ {k}
        /\ \A q \in Procs \ {p} : todo'[q] = todo[q]
    BY <1>3, <1>8 DEF LocalType
  <2>2. Goto(p, "expunge")
    BY <1>1, <1>3, <1>8 DEF Goto, LocalType
  <2>3. /\ Local(p, "expunge") /\ "expunge" \in Labels /\ pc'[p] = "expunge" /\ OthersKeep(p)
        /\ MuP(p)' /\ CallP(p)' /\ HeldP(p)' /\ RangeP(p)'
        /\ call' = call /\ res' = res /\ seen' = seen
    BY <1>1, <1>4, <2>1, <2>2, CopyStep
  <2>4. /\ dirty' \in GoMaps /\ \A j \in Keys \ {k} : dirty'[j] = dirty[j]
        /\ ptr[readM[k]] = Expunged => dirty'[k] = NoEntry
        /\ ptr[readM[k]] # Expunged => dirty'[k] = readM[k]
    BY <1>3, <1>6, <1>8 DEF CoreType, GoMaps
  <2>5. CoreType'
    BY <1>2, <1>3, <1>4, <2>4 DEF CoreType
  <2>6. Content' = Content
    <3>1. \A j \in Keys : EntryOf(j)' = EntryOf(j)
      BY <1>4, <1>6, <2>4 DEF EntryOf
    <3> QED
      BY <1>4, <3>1 DEF Content
  <2>7. KeepsExpunged(p) /\ KeepsSeen(p)
    BY <1>4, <2>3, <2>6, NothingNew DEF KeepsExpunged
  <2>8. SeenP(p)'
    BY <1>4, <2>3, <2>6 DEF IInv, ProcInv, SeenP
  <2>9. DirtyP(p)'
    <3>1. Key(p)' = Key(p) /\ Key(p) # k /\ Key(p) \in Keys
      BY <1>1, <1>2, <1>6, <2>3, CopyFacts DEF Key
    <3>2. readM'[Key(p)'] = NoEntry /\ dirty'[Key(p)'] = NoEntry
      BY <1>2, <1>4, <2>4, <3>1
    <3>3. \A j \in todo'[p] : readM'[j] # NoEntry /\ dirty'[j] = NoEntry
      BY <1>2, <1>4, <2>1, <2>4
    <3> QED
      BY <1>2, <1>4, <2>1, <2>3, <3>2, <3>3 DEF DirtyP, Copying
  <2>10. OneKey'
    <3>1. ASSUME NEW j \in Keys, NEW f \in Entries, RefersTo(j, f)' PROVE RefersTo(j, f)
      BY <1>4, <2>4, <3>1, Apart DEF RefersTo
    <3> QED
      BY <3>1 DEF OneKey, IInv, MapInv
  <2>11. EntryInv'
    BY <1>2, <1>4, <2>4 DEF IInv, MapInv, EntryInv
  <2>12. CopyInv'
    <3>1. ASSUME NEW j \in Keys, readM[j] # NoEntry, ptr[readM[j]] # Expunged, dirty'[j] # readM[j]
          PROVE  j \in todo'[p]
      <4>1. j # k
        BY <2>4, <3>1
      <4>2. dirty[j] # readM[j]
        BY <2>4, <3>1, <4>1
      <4>3. PICK q \in Procs : pc[q] \in Copying /\ j \in todo[q]
        BY <1>2, <3>1, <4>2 DEF IInv, MapInv, CopyInv
      <4>4. q = p
        BY <1>2, <4>3
      <4> QED
        BY <2>1, <4>1, <4>3, <4>4
    <3> QED
      BY <1>4, <2>3, <3>1 DEF CopyInv, Copying
  <2>13. NewKeyAmended'
    <3>1. k \in Dom(readM)
      BY <1>6 DEF Dom
    <3>2. Dom(dirty') \subseteq Dom(dirty) \cup {k}
      BY <2>4 DEF Dom
    <3> QED
      BY <1>4, <3>1, <3>2 DEF IInv, MapInv, NewKeyAmended
  <2>14. IInv'
    BY <1>2, <2>3, <2>5, <2>7, <2>8, <2>9, <2>10, <2>11, <2>12, <2>13, MuStep DEF MapInv, ProcInv
  <2> QED
    BY <1>4, <2>6, <2>14, Stutters
<1> QED
  BY <1>5, <1>7, <1>8

LEMMA ExpungeCASInv ==
  ASSUME IInv, NEW p \in Procs, ExpungeCAS(p) PROVE IInv' /\ Implements(p)
<1>1. pc[p] = "expungeCAS" /\ pc[p] \in Copying
  BY DEF ExpungeCAS, Copying
<1>2. /\ mu = p /\ ~dirtyNil /\ ~amended /\ readM[Key(p)] = NoEntry /\ dirty[Key(p)] = NoEntry
      /\ \A j \in todo[p] : j \in Keys /\ readM[j] # NoEntry /\ dirty[j] = NoEntry
      /\ \A q \in Procs \ {p} : pc[q] \notin Copying
  BY <1>1, CopyFacts
<1>3. CoreType /\ LocalType /\ CallType
  BY Types DEF IInv
<1>4. /\ readM' = readM /\ dirty' = dirty /\ amended' = amended
      /\ dirtyNil' = dirtyNil /\ misses' = misses /\ mu' = mu /\ held' = held
      /\ ld' = ld /\ UNCHANGED callVars /\ Goto(p, "expunge")
  BY DEF ExpungeCAS
<1>5. cur[p] \in todo[p]
  BY <1>1 DEF IInv, ProcInv, DirtyP
<1>6. PICK k \in Keys : k = cur[p]
  BY <1>2, <1>5
<1>7. k \in todo[p] /\ readM[k] # NoEntry /\ dirty[k] = NoEntry
  BY <1>2, <1>5, <1>6
<1>8. PICK e \in Entries : e = readM[k]
  BY <1>3, <1>7 DEF CoreType, GoMaps
<1>9. CASE ptr[e] # Nil /\ UNCHANGED <<ptr, todo, cur>>
  <2>1. /\ cur' \in [Procs -> Keys \cup {None}] /\ \A q \in Procs \ {p} : cur'[q] = cur[q]
        /\ todo' \in [Procs -> SUBSET Keys]
        /\ \A q \in Procs \ {p} : todo'[q] = todo[q]
    BY <1>3, <1>9 DEF LocalType
  <2>2. /\ Local(p, "expunge") /\ "expunge" \in Labels /\ pc'[p] = "expunge"
        /\ MuP(p)' /\ CallP(p)' /\ HeldP(p)' /\ RangeP(p)'
        /\ call' = call /\ res' = res /\ seen' = seen
    BY <1>1, <1>4, <2>1, CopyStep
  <2>3. DirtyP(p)'
    BY <1>2, <1>4, <1>5, <1>9, <2>2 DEF DirtyP, Copying, Key
  <2>4. \A j \in Keys : held'[p][j] \in {NoEntry, held[p][j], EntryOf(j)}
    BY <1>4
  <2>5. "expunge" \in Copying
    BY DEF Copying
  <2>6. IInv' /\ Content' = Content
    BY <1>4, <1>9, <2>2, <2>3, <2>4, <2>5, QuietMove
  <2> QED
    BY <1>4, <2>6, Stutters
<1>10. CASE /\ ptr[e] = Nil
            /\ ptr' = [ptr EXCEPT ![e] = Expunged]
            /\ todo' = [todo EXCEPT ![p] = @ \ {k}]
            /\ cur' = [cur EXCEPT ![p] = None]
  <2>1. /\ cur' \in [Procs -> Keys \cup {None}] /\ \A q \in Procs \ {p} : cur'[q] = cur[q]
        /\ cur'[p] = None /\ todo' \in [Procs -> SUBSET Keys]
        /\ todo'[p] = todo[p] \ {k}
        /\ \A q \in Procs \ {p} : todo'[q] = todo[q]
    BY <1>3, <1>10 DEF LocalType
  <2>2. /\ Local(p, "expunge") /\ "expunge" \in Labels /\ pc'[p] = "expunge" /\ OthersKeep(p)
        /\ MuP(p)' /\ CallP(p)' /\ HeldP(p)' /\ RangeP(p)'
        /\ call' = call /\ res' = res /\ seen' = seen
    BY <1>1, <1>4, <2>1, CopyStep
  <2>3. /\ ptr' \in [Entries -> Pointers] /\ ptr'[e] = Expunged
        /\ \A f \in Entries \ {e} : ptr'[f] = ptr[f]
    BY <1>3, <1>10 DEF CoreType, Pointers
  <2>4. \A f \in Entries : Val(ptr'[f]) = Val(ptr[f])
    BY <1>10, <2>3, Apart DEF Val
  <2>5. CoreType'
    BY <1>3, <1>4, <2>3 DEF CoreType
  <2>6. Content' = Content
    <3>1. \A j \in Keys : EntryOf(j) \in Entries \cup {NoEntry} /\ EntryOf(j)' = EntryOf(j)
      BY <1>3, <1>4 DEF EntryOf, CoreType, GoMaps
    <3>2. \A j \in Keys : (IF EntryOf(j)' = NoEntry THEN None ELSE Val(ptr'[EntryOf(j)']))
                            = (IF EntryOf(j) = NoEntry THEN None ELSE Val(ptr[EntryOf(j)]))
      BY <2>4, <3>1
    <3>3. Content' = [j \in Keys |-> IF EntryOf(j)' = NoEntry THEN None ELSE Val(ptr'[EntryOf(j)'])]
      BY DEF Content, Val
    <3> QED
      BY <3>2, <3>3 DEF Content
  <2>7. KeepsExpunged(p)
    <3>1. ASSUME NEW q \in Procs \ {p}, NEW j \in Keys, held[q][j] # NoEntry,
                 ptr[held[q][j]] = Expunged \/ readM[j] = held[q][j]
          PROVE  ptr'[held[q][j]] = Expunged \/ readM'[j] = held[q][j]
      <4>1. held[q][j] \in Entries
        BY <1>3, <3>1 DEF LocalType, GoMaps
      <4> QED
        BY <1>4, <2>3, <3>1, <4>1
    <3> QED
      BY <3>1 DEF KeepsExpunged
  <2>8. KeepsSeen(p)
    BY <2>2, <2>4, <2>6, NothingNew
  <2>9. SeenP(p)'
    <3>1. held'[p] \in GoMaps /\ call'[p] = call[p]
      BY <1>3, <1>4, <2>2 DEF LocalType
    <3>2. res'[p] = Pending => res[p] = Pending /\ seen'[p] = seen[p]
      BY <2>2
    <3>3. \A j \in Keys : held'[p][j] \in {NoEntry, held[p][j], EntryOf(j)}
      BY <1>4
    <3> QED
      BY <2>4, <2>6, <3>1, <3>2, <3>3, SeenStays
  <2>10. DirtyP(p)'
    BY <1>2, <1>4, <2>1, <2>2 DEF DirtyP, Copying, Key
  <2>11. OneKey' /\ NewKeyAmended'
    <3>1. OneKey'
      BY <1>4 DEF IInv, MapInv, OneKey, RefersTo
    <3>2. NewKeyAmended'
      BY <1>4 DEF IInv, MapInv, NewKeyAmended, Dom
    <3> QED
      BY <3>1, <3>2
  <2>12. EntryInv'
    <3>1. ASSUME NEW j \in Keys, dirty[j] # NoEntry PROVE ptr'[dirty[j]] # Expunged
      <4>1. dirty[j] \in Entries
        BY <1>3, <3>1 DEF CoreType, GoMaps
      <4>2. dirty[j] # e
        <5>1. ASSUME dirty[j] = e PROVE j = k
          <6>1. RefersTo(j, e) /\ RefersTo(k, e)
            BY <1>8, <5>1 DEF RefersTo
          <6> QED
            BY <6>1, OneKeyFor
        <5> QED
          BY <1>7, <3>1, <5>1
      <4> QED
        BY <2>3, <3>1, <4>1, <4>2 DEF IInv, MapInv, EntryInv
    <3> QED
      BY <1>2, <1>4, <3>1 DEF IInv, MapInv, EntryInv
  <2>13. CopyInv'
    <3>1. ASSUME NEW j \in Keys, readM[j] # NoEntry, ptr'[readM[j]] # Expunged, dirty[j] # readM[j]
          PROVE  j \in todo'[p]
      <4>1. j # k
        BY <1>8, <2>3, <3>1
      <4>2. readM[j] \in Entries
        BY <1>3, <3>1 DEF CoreType, GoMaps
      <4>3. ptr[readM[j]] # Expunged
        BY <2>3, <3>1, <4>2
      <4>4. PICK q \in Procs : pc[q] \in Copying /\ j \in todo[q]
        BY <1>2, <3>1, <4>3 DEF IInv, MapInv, CopyInv
      <4>5. q = p
        BY <1>2, <4>4
      <4> QED
        BY <2>1, <4>1, <4>4, <4>5
    <3> QED
      BY <1>4, <2>2, <3>1 DEF CopyInv, Copying
  <2>14. IInv'
    BY <1>2, <2>2, <2>5, <2>7, <2>8, <2>9, <2>10, <2>11, <2>12, <2>13, MuStep DEF MapInv, ProcInv
  <2> QED
    BY <1>4, <2>6, <2>14, Stutters
<1> QED
  BY <1>6, <1>8, <1>9, <1>10 DEF ExpungeCAS

-----------------------------------------------------------------------------
(* Writing to an entry, with mu and without.                               *)

LEMMA WriteEntry ==
  ASSUME IInv, NEW p \in Procs, NEW l \in {"ret", "unlock", "miss"}, Goto(p, l),
         pc[p] \in {"put", "cas"},
         NEW x \in Pointers, x # Expunged, NEW r \in Results, r # Pending,
         ptr[Entry(p)] # Expunged, EntryOf(Key(p)) = Entry(p),
         ptr' = [ptr EXCEPT ![Entry(p)] = x],
         AnswerWriting(p, r, Key(p), Val(x)),
         l = "ret" <=> mu # p, l = "miss" => call[p].op = "LoadOrStore" /\ ~dirtyNil,
         UNCHANGED <<readM, amended, dirty, dirtyNil, misses, mu, held, ld, todo, cur>>
  PROVE  IInv' /\ Content' = [Content EXCEPT ![Key(p)] = Val(x)]
<1>1. CoreType /\ LocalType /\ CallType
  BY Types DEF IInv
<1>2. /\ Key(p) \in Keys /\ Entry(p) \in Entries /\ call[p] # Idle
      /\ call[p].op \in {"Load", "Delete", "Store", "LoadOrStore"}
  BY LookedFacts
<1>3. PICK k \in Keys : k = Key(p)
  BY <1>2
<1>4. PICK e \in Entries : e = Entry(p)
  BY <1>2
<1>5. PICK v \in Opt : v = Val(x)
  BY ValType
<1>6. /\ Local(p, l) /\ call' = call /\ visited' = visited /\ res'[p] = r
      /\ \A q \in Procs \ {p} : res[q] = Pending /\ k \in KeysOf(call[q]) => v \in seen'[q][k]
  BY <1>3, <1>5, KeepsMuWriting
<1>7. l \in Labels /\ pc'[p] = l /\ OthersKeep(p) /\ (CoreType' => TypeOK')
  BY <1>6, LocalStep DEF Labels
<1>8. /\ ptr' \in [Entries -> Pointers] /\ ptr'[e] = x
      /\ \A f \in Entries \ {e} : ptr'[f] = ptr[f]
  BY <1>1, <1>4 DEF CoreType
<1>9. CoreType'
  BY <1>1, <1>8 DEF CoreType
<1>10. \A f \in Entries : ptr'[f] = Expunged <=> ptr[f] = Expunged
  BY <1>4, <1>8
<1>11. RefersTo(k, e)
  BY <1>3, <1>4 DEF RefersTo, Entry
<1>12. Content' = [Content EXCEPT ![k] = v]
  <2>1. ASSUME NEW j \in Keys
        PROVE  (IF EntryOf(j) = NoEntry THEN None ELSE Val(ptr'[EntryOf(j)]))
                 = IF j = k THEN v ELSE (IF EntryOf(j) = NoEntry THEN None ELSE Val(ptr[EntryOf(j)]))
    <3>1. EntryOf(j) \in Entries \cup {NoEntry}
      BY <1>1 DEF EntryOf, CoreType, GoMaps
    <3>2. CASE j = k
      BY <1>3, <1>4, <1>5, <1>8, <3>2, Apart
    <3>3. CASE j # k
      <4>1. EntryOf(j) # e
        <5>1. ASSUME EntryOf(j) = e PROVE j = k
          <6>1. RefersTo(j, e)
            BY <5>1 DEF RefersTo, EntryOf
          <6> QED
            BY <6>1, <1>11, OneKeyFor
        <5> QED
          BY <3>3, <5>1
      <4> QED
        BY <1>8, <3>1, <3>3, <4>1
    <3> QED
      BY <3>2, <3>3
  <2>2. Content' = [j \in Keys |-> IF EntryOf(j) = NoEntry THEN None ELSE Val(ptr'[EntryOf(j)])]
    BY DEF Content, EntryOf, Val
  <2>3. PICK C : C = Content
    OBVIOUS
  <2>4. /\ C = [j \in Keys |-> C[j]]
        /\ \A j \in Keys : C[j] = IF EntryOf(j) = NoEntry THEN None ELSE Val(ptr[EntryOf(j)])
    BY <2>3 DEF Content
  <2>5. Content' = [j \in Keys |-> IF j = k THEN v ELSE C[j]]
    BY <2>1, <2>2, <2>4
  <2>6. Content' = [C EXCEPT ![k] = v]
    BY <2>4, <2>5
  <2> QED
    BY <2>3, <2>6
<1>13. KeepsSeen(p)
  <2>1. ASSUME NEW q \in Procs \ {p}, NEW j \in Keys, held[q][j] # NoEntry
        PROVE  \/ Val(ptr'[held[q][j]]) = Val(ptr[held[q][j]])
               \/ j = k /\ Val(ptr'[held[q][j]]) = v
    <3>1. held[q][j] \in Entries
      BY <1>1, <2>1 DEF LocalType, GoMaps
    <3>2. CASE held[q][j] = e
      <4>1. RefersTo(j, e)
        BY <3>2 DEF RefersTo
      <4>2. j = k
        BY <1>11, <4>1, OneKeyFor
      <4> QED
        BY <1>5, <1>8, <3>2, <4>2
    <3>3. CASE held[q][j] # e
      BY <1>8, <3>1, <3>3
    <3> QED
      BY <3>2, <3>3
  <2> QED
    BY <1>6, <1>7, <1>12, <2>1, Shown
<1>14. KeepsExpunged(p)
  <2>1. ASSUME NEW q \in Procs \ {p}, NEW j \in Keys, held[q][j] # NoEntry,
               ptr[held[q][j]] = Expunged \/ readM[j] = held[q][j]
        PROVE  ptr'[held[q][j]] = Expunged \/ readM'[j] = held[q][j]
    <3>1. held[q][j] \in Entries
      BY <1>1, <2>1 DEF LocalType, GoMaps
    <3> QED
      BY <1>10, <2>1, <3>1
  <2> QED
    BY <2>1 DEF KeepsExpunged
<1>15. KeepsMaps(p)
  BY <1>10 DEF KeepsMaps
<1>16. OneKey' /\ NewKeyAmended'
  BY DEF IInv, MapInv, OneKey, RefersTo, NewKeyAmended, Dom
<1>17. EntryInv' /\ CopyInv'
  <2>1. \A j \in Keys : /\ readM[j] # NoEntry => readM[j] \in Entries
                        /\ dirty[j] # NoEntry => dirty[j] \in Entries
    BY <1>1 DEF CoreType, GoMaps
  <2>2. EntryInv'
    BY <1>10, <2>1 DEF IInv, MapInv, EntryInv
  <2>3. CopyInv'
    <3>1. ASSUME NEW q \in Procs, NEW j, pc[q] \in Copying /\ j \in todo[q]
          PROVE  pc'[q] \in Copying /\ j \in todo'[q]
      BY <1>7, <3>1 DEF OthersKeep, Copying
    <3> QED
      BY <1>10, <2>1, <3>1 DEF IInv, MapInv, CopyInv
  <2> QED
    BY <2>2, <2>3
<1>18. MuP(p)'
  BY <1>7 DEF IInv, ProcInv, MuP, Critical
<1>19. CallP(p)'
  BY <1>2, <1>6, <1>7 DEF CallP, Copying
<1>20. DirtyP(p)'
  <2>1. cur[p] = None
    BY DEF IInv, ProcInv, DirtyP, Copying
  <2> QED
    BY <1>7, <2>1 DEF DirtyP, Copying
<1>21. HeldP(p)' /\ SeenP(p)'
  BY <1>6, <1>7 DEF HeldP, Looked, SeenP
<1>22. RangeP(p)'
  BY <1>2, <1>6, <1>7, NoRange
<1>23. \A q \in Procs : ProcInv(q)'
  <2>1. ASSUME NEW q \in Procs \ {p} PROVE ProcInv(q)'
    BY <1>7, <1>13, <1>14, <1>15, OthersKept
  <2>2. ProcInv(p)'
    BY <1>18, <1>19, <1>20, <1>21, <1>22 DEF ProcInv
  <2> QED
    BY <2>1, <2>2
<1> QED
  BY <1>3, <1>5, <1>7, <1>9, <1>12, <1>16, <1>17, <1>23 DEF IInv, MapInv

(* An entry that is not expunged is its key's.                             *)
LEMMA StillThere ==
  ASSUME IInv, NEW p \in Procs, pc[p] \in {"put", "cas", "try", "delete"},
         ptr[Entry(p)] # Expunged
  PROVE  EntryOf(Key(p)) = Entry(p) /\ Content[Key(p)] = Val(ptr[Entry(p)])
<1>1. /\ Key(p) \in Keys /\ Entry(p) \in Entries /\ Looked(p)
      /\ call[p].op \in Storing \cup {"Delete"}
  BY LookedFacts DEF IInv, ProcInv, CallP, Storing
<1>2. EntryOf(Key(p)) = Entry(p)
  <2>1. CASE pc[p] = "put" \/ (pc[p] \in {"try", "cas"} /\ mu = p)
    BY <2>1 DEF IInv, ProcInv, HeldP, Entry
  <2>2. CASE mu # p
    <3>1. call[p].op # "Load"
      BY <1>1 DEF Storing
    <3>2. readM[Key(p)] = Entry(p)
      BY <1>1, <2>2, <3>1 DEF IInv, ProcInv, HeldP, Entry
    <3> QED
      BY <1>1, <3>2, Apart DEF EntryOf
  <2>3. pc[p] = "delete" => mu # p
    BY DEF IInv, ProcInv, MuP, Critical
  <2> QED
    BY <2>1, <2>2, <2>3
<1> QED
  BY <1>1, <1>2, Apart DEF Content

LEMMA TryStoreCASInv ==
  ASSUME IInv, NEW p \in Procs, TryStoreCAS(p) PROVE IInv' /\ Implements(p)
<1>1. pc[p] = "cas" /\ call[p].op = "Store" /\ mu # p /\ res[p] = Pending
  BY LookedFacts DEF TryStoreCAS, At, IInv, ProcInv, MuP
<1>2. CASE ptr[Entry(p)] # ld[p] /\ Goto(p, "try") /\ UNCHANGED <<ptr, callVars>>
  BY <1>1, <1>2, CASFails DEF TryStoreCAS, Storing
<1>3. CASE /\ ptr[Entry(p)] = ld[p]
           /\ ptr' = [ptr EXCEPT ![Entry(p)] = call[p].val]
           /\ AnswerWriting(p, Result(None, FALSE), Key(p), call[p].val)
           /\ Goto(p, "ret")
  <2>1. ptr[Entry(p)] # Expunged
    BY <1>1, <1>3 DEF IInv, ProcInv, CallP
  <2>2. PICK x \in Values : x = call[p].val
    BY <1>1, LookedFacts DEF Storing
  <2>3. x \in Pointers /\ x # Expunged /\ Val(x) = x
    BY Apart DEF Pointers, Val
  <2>4. PICK r \in Results : r = Result(None, FALSE) /\ r # Pending
    BY ResultType DEF Opt
  <2>5. EntryOf(Key(p)) = Entry(p)
    BY <1>1, <2>1, StillThere
  <2>6. AnswerWriting(p, r, Key(p), Val(x)) /\ ptr' = [ptr EXCEPT ![Entry(p)] = x]
    BY <1>3, <2>2, <2>3, <2>4
  <2>7. IInv' /\ Content' = [Content EXCEPT ![Key(p)] = Val(x)]
    BY <1>1, <1>3, <2>1, <2>3, <2>4, <2>5, <2>6, WriteEntry DEF TryStoreCAS
  <2>8. Atomic!Store(p)
    BY <1>1, <1>3, <2>2, <2>3, <2>7, Common DEF Atomic!Store, Key
  <2> QED
    BY <2>7, <2>8 DEF Implements, Atomic!Step
<1> QED
  BY <1>2, <1>3 DEF TryStoreCAS

LEMMA DeleteCASInv ==
  ASSUME IInv, NEW p \in Procs, DeleteCAS(p) PROVE IInv' /\ Implements(p)
<1>1. pc[p] = "cas" /\ call[p].op = "Delete" /\ mu # p /\ res[p] = Pending
  BY LookedFacts DEF DeleteCAS, At, IInv, ProcInv, MuP
<1>2. CASE ptr[Entry(p)] # ld[p] /\ Goto(p, "delete") /\ UNCHANGED <<ptr, callVars>>
  BY <1>1, <1>2, CASFails DEF DeleteCAS
<1>3. CASE /\ ptr[Entry(p)] = ld[p]
           /\ ptr' = [ptr EXCEPT ![Entry(p)] = Nil]
           /\ AnswerWriting(p, Result(None, FALSE), Key(p), None)
           /\ Goto(p, "ret")
  <2>1. ptr[Entry(p)] # Expunged
    BY <1>1, <1>3, Apart DEF IInv, ProcInv, CallP
  <2>2. Nil \in Pointers /\ Nil # Expunged /\ Val(Nil) = None
    BY Apart DEF Pointers, Val
  <2>3. PICK r \in Results : r = Result(None, FALSE) /\ r # Pending
    BY ResultType DEF Opt
  <2>4. EntryOf(Key(p)) = Entry(p)
    BY <1>1, <2>1, StillThere
  <2>5. AnswerWriting(p, r, Key(p), Val(Nil))
    BY <1>3, <2>2, <2>3
  <2>6. IInv' /\ Content' = [Content EXCEPT ![Key(p)] = Val(Nil)]
    BY <1>1, <1>3, <2>1, <2>2, <2>3, <2>4, <2>5, WriteEntry DEF DeleteCAS
  <2>7. Atomic!Delete(p)
    BY <1>1, <1>3, <2>2, <2>6, Common DEF Atomic!Delete, Key
  <2> QED
    BY <2>6, <2>7 DEF Implements, Atomic!Step
<1> QED
  BY <1>2, <1>3 DEF DeleteCAS

LEMMA PutInv ==
  ASSUME IInv, NEW p \in Procs, Put(p) PROVE IInv' /\ Implements(p)
<1>1. pc[p] = "put" /\ call[p].op = "Store" /\ mu = p /\ res[p] = Pending
  BY DEF Put, IInv, ProcInv, MuP, CallP, Critical
<1>2. ptr[Entry(p)] # Expunged
  BY <1>1 DEF IInv, ProcInv, HeldP, Entry
<1>3. PICK x \in Values : x = call[p].val
  BY <1>1, LookedFacts DEF Storing
<1>4. x \in Pointers /\ x # Expunged /\ Val(x) = x
  BY Apart DEF Pointers, Val
<1>5. PICK r \in Results : r = Result(None, FALSE) /\ r # Pending
  BY ResultType DEF Opt
<1>6. EntryOf(Key(p)) = Entry(p)
  BY <1>1, <1>2, StillThere
<1>7. AnswerWriting(p, r, Key(p), Val(x)) /\ ptr' = [ptr EXCEPT ![Entry(p)] = x]
  BY <1>3, <1>4, <1>5 DEF Put
<1>8. IInv' /\ Content' = [Content EXCEPT ![Key(p)] = Val(x)]
  BY <1>1, <1>2, <1>4, <1>5, <1>6, <1>7, WriteEntry DEF Put
<1>9. Atomic!Store(p)
  <2>1. /\ Atomic!Busy(p, "Store")
        /\ Atomic!AnswerWriting(p, Atomic!Result(None, FALSE), Key(p), call[p].val)
    BY <1>1, Common DEF Put
  <2> QED
    BY <1>3, <1>4, <1>8, <2>1 DEF Atomic!Store, Key
<1> QED
  BY <1>8, <1>9 DEF Implements, Atomic!Step

(* LoadOrStore tries an entry under mu.                                    *)
LEMMA TryingFacts ==
  ASSUME IInv, NEW p \in Procs, pc[p] \in {"try", "cas"}, mu = p
  PROVE  /\ ptr[Entry(p)] # Expunged /\ EntryOf(Key(p)) = Entry(p)
         /\ readM[Key(p)] = NoEntry => ~dirtyNil
         /\ call[p].op = "LoadOrStore" /\ res[p] = Pending /\ call[p] # Idle
         /\ cur[p] = None /\ pc[p] \notin Copying
<1>1. ptr[Entry(p)] # Expunged /\ EntryOf(Key(p)) = Entry(p)
  BY DEF IInv, ProcInv, HeldP, Entry
<1>2. Key(p) \in Keys /\ Entry(p) \in Entries /\ res[p] = Pending /\ call[p] # Idle
  BY LookedFacts
<1>3. readM[Key(p)] = NoEntry => ~dirtyNil
  BY <1>1, <1>2, Types, Apart DEF IInv, CoreType, EntryOf, EmptyMap
<1>4. call[p].op = "LoadOrStore" /\ cur[p] = None /\ pc[p] \notin Copying
  BY DEF IInv, ProcInv, MuP, DirtyP, Copying
<1> QED
  BY <1>1, <1>2, <1>3, <1>4

(* It goes between load and compare-and-swap,                              *)
LEMMA TriesAgain ==
  ASSUME IInv, NEW p \in Procs, pc[p] \in {"try", "cas"}, mu = p,
         NEW l \in {"try", "cas"}, Goto(p, l),
         UNCHANGED <<mapVars, held, ld, todo, cur, callVars>>
  PROVE  IInv' /\ Implements(p)
<1>1. /\ ptr[Entry(p)] # Expunged /\ EntryOf(Key(p)) = Entry(p)
      /\ call[p].op = "LoadOrStore" /\ res[p] = Pending /\ call[p] # Idle
      /\ cur[p] = None /\ pc[p] \notin Copying
  BY TryingFacts
<1>2. CoreType /\ LocalType /\ CallType /\ misses \in 0..Cardinality(Keys)
  BY Types DEF IInv
<1>3. /\ ptr' = ptr /\ readM' = readM /\ dirty' = dirty /\ amended' = amended
      /\ dirtyNil' = dirtyNil /\ misses' = misses /\ mu' = mu /\ held' = held
      /\ ld' = ld /\ todo' = todo /\ cur' = cur /\ UNCHANGED callVars /\ res' = res
  BY DEF mapVars, callVars
<1>4. Local(p, l) /\ call' = call /\ visited' = visited
  <2>1. /\ held' \in [Procs -> GoMaps] /\ todo' \in [Procs -> SUBSET Keys]
        /\ misses' \in 0..Cardinality(Keys)
    BY <1>2, <1>3 DEF LocalType
  <2> QED
    BY <1>3, <2>1, KeepsMu
<1>5. l \in Labels /\ pc'[p] = l
  BY <1>4, LocalStep DEF Labels
<1>6. MuP(p)' /\ CallP(p)' /\ DirtyP(p)'
  <2>1. MuP(p)'
    BY <1>1, <1>3, <1>4, <1>5 DEF MuP, Critical
  <2>2. CallP(p)'
    BY <1>1, <1>3, <1>4, <1>5 DEF CallP, Copying, Storing
  <2>3. DirtyP(p)'
    BY <1>1, <1>3, <1>5 DEF DirtyP, Copying
  <2> QED
    BY <2>1, <2>2, <2>3
<1>7. HeldP(p)'
  <2>1. Key(p)' = Key(p) /\ EntryOf(Key(p))' = EntryOf(Key(p)) /\ Entry(p) # NoEntry
    BY <1>3, <1>4, LookedFacts, Apart DEF Key, EntryOf
  <2> QED
    BY <1>1, <1>3, <1>5, <2>1 DEF HeldP, Looked, Entry
<1>8. RangeP(p)'
  BY <1>4, <1>5, NoRange
<1>9. \A k \in Keys : held'[p][k] \in {NoEntry, held[p][k], EntryOf(k)}
  BY <1>3
<1>10. IInv' /\ Content' = Content
  BY <1>1, <1>3, <1>4, <1>5, <1>6, <1>7, <1>8, <1>9, QuietMove
<1> QED
  BY <1>3, <1>10, Stutters

(* and answers.                                                            *)
LEMMA TryLoadMuInv ==
  ASSUME IInv, NEW p \in Procs, TryLoad(p), mu = p PROVE IInv' /\ Implements(p)
<1>1. pc[p] = "try"
  BY DEF TryLoad, At
<1>2. /\ ptr[Entry(p)] # Expunged /\ (readM[Key(p)] = NoEntry => ~dirtyNil)
      /\ call[p].op = "LoadOrStore" /\ res[p] = Pending /\ call[p] # Idle
      /\ cur[p] = None /\ pc[p] \notin Copying
  BY <1>1, TryingFacts
<1>3. Val(ptr[Entry(p)]) \in seen[p][Key(p)] /\ ptr[Entry(p)] \in Pointers
  BY <1>1, LookedFacts
<1>4. CASE ptr[Entry(p)] = Nil
  <2>1. Goto(p, "cas") /\ UNCHANGED callVars
    BY <1>2, <1>4, Apart DEF TryLoad
  <2> QED
    BY <1>1, <2>1, TriesAgain DEF TryLoad
<1>5. CASE ptr[Entry(p)] \in Values
  <2>1. PICK x \in Values : x = ptr[Entry(p)]
    BY <1>5
  <2>2. Answer(p, Result(x, TRUE)) /\ Goto(p, AfterTry(p))
    BY <2>1, Apart DEF TryLoad, Loaded
  <2>3. PICK r \in Results : r = Result(x, TRUE) /\ r # Pending
    BY ResultType DEF Opt
  <2>4. PICK l \in {"miss", "unlock"} : l = AfterTry(p) /\ (l = "miss" => ~dirtyNil)
    BY <1>2 DEF AfterTry
  <2>5. CoreType /\ LocalType /\ CallType /\ misses \in 0..Cardinality(Keys)
    BY Types DEF IInv
  <2>6. /\ ptr' = ptr /\ readM' = readM /\ dirty' = dirty /\ amended' = amended
        /\ dirtyNil' = dirtyNil /\ misses' = misses /\ mu' = mu /\ held' = held
        /\ ld' = ld /\ todo' = todo /\ cur' = cur
    BY DEF TryLoad, mapVars
  <2>7. Local(p, l) /\ call' = call /\ visited' = visited
    <3>1. /\ held' \in [Procs -> GoMaps] /\ todo' \in [Procs -> SUBSET Keys]
          /\ misses' \in 0..Cardinality(Keys)
      BY <2>5, <2>6 DEF LocalType
    <3> QED
      BY <2>2, <2>3, <2>4, <2>6, <3>1, KeepsMu
  <2>8. l \in Labels /\ pc'[p] = l
    BY <2>7, LocalStep DEF Labels
  <2>9. res'[p] = r
    BY <2>2, <2>3, <2>5, AnswerStep
  <2>10. MuP(p)'
    BY <2>6, <2>8 DEF MuP, Critical
  <2>11. CallP(p)'
    BY <1>2, <2>3, <2>7, <2>8, <2>9 DEF CallP, Copying
  <2>12. DirtyP(p)'
    BY <1>2, <2>4, <2>6, <2>8 DEF DirtyP, Copying
  <2>13. HeldP(p)'
    BY <2>3, <2>8, <2>9 DEF HeldP, Looked
  <2>14. RangeP(p)'
    BY <1>1, <1>2, <2>7, <2>8, NoRange
  <2>15. \A k \in Keys : held'[p][k] \in {NoEntry, held[p][k], EntryOf(k)}
    BY <2>6
  <2>16. IInv' /\ Content' = Content
    BY <1>2, <2>6, <2>7, <2>8, <2>10, <2>11, <2>12, <2>13, <2>14, <2>15, QuietMove
  <2>17. x \in seen[p][Key(p)] /\ x # None
    BY <1>3, <2>1, Apart DEF Val
  <2>18. Atomic!Busy(p, "LoadOrStore") /\ Atomic!Answer(p, Atomic!Result(x, TRUE))
    BY <1>2, <2>2, Common
  <2>19. Atomic!LoadOrStore(p)
    BY <2>16, <2>17, <2>18 DEF Atomic!LoadOrStore, Key
  <2> QED
    BY <2>16, <2>19 DEF Implements, Atomic!Step
<1> QED
  BY <1>2, <1>3, <1>4, <1>5 DEF Pointers

LEMMA TryCASInv ==
  ASSUME IInv, NEW p \in Procs, TryCAS(p) PROVE IInv' /\ Implements(p)
<1>1. pc[p] = "cas" /\ call[p].op = "LoadOrStore" /\ res[p] = Pending
  BY LookedFacts DEF TryCAS, At
<1>2. CASE ptr[Entry(p)] # Nil /\ Goto(p, "try") /\ UNCHANGED <<ptr, callVars>>
  <2>1. CASE mu # p
    BY <1>1, <1>2, <2>1, CASFails DEF TryCAS, Storing
  <2>2. CASE mu = p
    <3>1. UNCHANGED <<mapVars, held, ld, todo, cur, callVars>>
      BY <1>2 DEF TryCAS, mapVars
    <3> QED
      BY <1>1, <1>2, <2>2, <3>1, TriesAgain
  <2> QED
    BY <2>1, <2>2
<1>3. CASE /\ ptr[Entry(p)] = Nil
           /\ ptr' = [ptr EXCEPT ![Entry(p)] = call[p].val]
           /\ AnswerWriting(p, Result(call[p].val, FALSE), Key(p), call[p].val)
           /\ Goto(p, AfterTry(p))
  <2>1. ptr[Entry(p)] # Expunged
    BY <1>3, Apart
  <2>2. PICK x \in Values : x = call[p].val
    BY <1>1, LookedFacts DEF Storing
  <2>3. x \in Pointers /\ x # Expunged /\ Val(x) = x
    BY Apart DEF Pointers, Val
  <2>4. PICK r \in Results : r = Result(x, FALSE) /\ r # Pending
    BY ResultType DEF Opt
  <2>5. EntryOf(Key(p)) = Entry(p) /\ Content[Key(p)] = None
    BY <1>1, <1>3, <2>1, StillThere, Apart DEF Val
  <2>6. AnswerWriting(p, r, Key(p), Val(x)) /\ ptr' = [ptr EXCEPT ![Entry(p)] = x]
    BY <1>3, <2>2, <2>3, <2>4
  <2>7. PICK l \in {"ret", "unlock", "miss"} :
           l = AfterTry(p) /\ (l = "ret" <=> mu # p) /\ (l = "miss" => ~dirtyNil)
    <3>1. mu = p /\ readM[Key(p)] = NoEntry => ~dirtyNil
      BY <1>1, TryingFacts
    <3> QED
      BY <3>1 DEF AfterTry
  <2>8. IInv' /\ Content' = [Content EXCEPT ![Key(p)] = Val(x)]
    BY <1>1, <1>3, <2>1, <2>3, <2>4, <2>5, <2>6, <2>7, WriteEntry DEF TryCAS
  <2>9. /\ Atomic!Busy(p, "LoadOrStore")
        /\ Atomic!AnswerWriting(p, Atomic!Result(call[p].val, FALSE), Key(p), call[p].val)
    BY <1>1, <1>3, Common
  <2>10. Atomic!LoadOrStore(p)
    BY <2>2, <2>3, <2>5, <2>8, <2>9 DEF Atomic!LoadOrStore, Key
  <2> QED
    BY <2>8, <2>10 DEF Implements, Atomic!Step
<1> QED
  BY <1>2, <1>3 DEF TryCAS

LEMMA NewInv ==
  ASSUME IInv, NEW p \in Procs, New(p) PROVE IInv' /\ Implements(p)
<1>1. /\ pc[p] = "new" /\ mu = p /\ call[p].op \in Storing /\ res[p] = Pending
      /\ call[p] # Idle /\ amended /\ ~dirtyNil /\ cur[p] = None /\ pc[p] \notin Copying
      /\ readM[Key(p)] = NoEntry /\ dirty[Key(p)] = NoEntry
  BY DEF New, IInv, ProcInv, MuP, CallP, DirtyP, MapInv, EntryInv, Critical, Copying
<1>2. CoreType /\ LocalType /\ CallType /\ Key(p) \in Keys /\ call[p].val \in Values
  BY <1>1, KeyedCall, Types DEF IInv, Storing
<1>3. PICK k \in Keys : k = Key(p)
  BY <1>2
<1>4. PICK x \in Values : x = call[p].val
  BY <1>2
<1>5. PICK e \in Entries : /\ Unused(e)
                           /\ ptr' = [ptr EXCEPT ![e] = x]
                           /\ dirty' = [dirty EXCEPT ![k] = e]
  BY <1>3, <1>4 DEF New
<1>6. /\ \A j \in Keys : readM[j] # e /\ dirty[j] # e
      /\ \A q \in Procs : \A j \in Keys : held[q][j] # e
  BY <1>5 DEF Unused
<1>7. PICK r \in Results : /\ r # Pending
                           /\ r = IF call[p].op = "Store" THEN Result(None, FALSE)
                                  ELSE Result(x, FALSE)
  BY ResultType DEF Opt
<1>8. AnswerWriting(p, r, k, x) /\ Goto(p, "unlock")
  BY <1>3, <1>4, <1>7 DEF New
<1>9. /\ readM' = readM /\ amended' = amended /\ dirtyNil' = dirtyNil /\ misses' = misses
      /\ mu' = mu /\ held' = held /\ ld' = ld /\ todo' = todo /\ cur' = cur
  BY DEF New
<1>10. x \in Opt /\ x \in Pointers /\ x # Expunged /\ Val(x) = x
  BY Apart DEF Opt, Pointers, Val
<1>11. /\ Local(p, "unlock") /\ call' = call /\ visited' = visited /\ res'[p] = r
       /\ \A q \in Procs \ {p} : res[q] = Pending /\ k \in KeysOf(call[q]) => x \in seen'[q][k]
  BY <1>7, <1>8, <1>9, <1>10, KeepsMuWriting
<1>12. "unlock" \in Labels /\ pc'[p] = "unlock" /\ OthersKeep(p)
  BY <1>11, LocalStep DEF Labels
<1>13. /\ ptr' \in [Entries -> Pointers] /\ ptr'[e] = x
       /\ \A f \in Entries \ {e} : ptr'[f] = ptr[f]
  BY <1>2, <1>5, <1>10 DEF CoreType
<1>14. dirty' \in GoMaps /\ dirty'[k] = e /\ \A j \in Keys \ {k} : dirty'[j] = dirty[j]
  BY <1>2, <1>5 DEF CoreType, GoMaps
<1>15. CoreType'
  BY <1>1, <1>2, <1>9, <1>13, <1>14 DEF CoreType
<1>16. \A j \in Keys : /\ readM[j] \in Entries \cup {NoEntry}
                       /\ dirty[j] \in Entries \cup {NoEntry}
                       /\ \A q \in Procs : held[q][j] \in Entries \cup {NoEntry}
  BY <1>2 DEF CoreType, LocalType, GoMaps
<1>17. Content' = [Content EXCEPT ![k] = x]
  <2>1. ASSUME NEW j \in Keys
        PROVE  (IF EntryOf(j)' = NoEntry THEN None ELSE Val(ptr'[EntryOf(j)']))
                 = IF j = k THEN x ELSE (IF EntryOf(j) = NoEntry THEN None ELSE Val(ptr[EntryOf(j)]))
    <3>1. CASE j = k
      <4>1. EntryOf(j)' = e
        BY <1>1, <1>3, <1>9, <1>14, <3>1 DEF EntryOf
      <4> QED
        BY <1>10, <1>13, <3>1, <4>1, Apart
    <3>2. CASE j # k
      <4>1. EntryOf(j)' = EntryOf(j) /\ EntryOf(j) # e /\ EntryOf(j) \in Entries \cup {NoEntry}
        BY <1>6, <1>9, <1>14, <1>16, <3>2 DEF EntryOf
      <4> QED
        BY <1>13, <3>2, <4>1
    <3> QED
      BY <3>1, <3>2
  <2>2. Content' = [j \in Keys |-> IF EntryOf(j)' = NoEntry THEN None ELSE Val(ptr'[EntryOf(j)'])]
    BY DEF Content, Val
  <2> QED
    BY <2>1, <2>2 DEF Content
<1>18. KeepsSeen(p)
  <2>1. \A q \in Procs \ {p} : \A j \in Keys : held[q][j] # NoEntry =>
           Val(ptr'[held[q][j]]) = Val(ptr[held[q][j]])
    BY <1>6, <1>13, <1>16
  <2> QED
    BY <1>10, <1>11, <1>12, <1>17, <2>1, Shown
<1>19. KeepsExpunged(p)
  <2>1. ASSUME NEW q \in Procs \ {p}, NEW j \in Keys, held[q][j] # NoEntry,
               ptr[held[q][j]] = Expunged \/ readM[j] = held[q][j]
        PROVE  ptr'[held[q][j]] = Expunged \/ readM'[j] = held[q][j]
    BY <1>6, <1>9, <1>13, <1>16, <2>1
  <2> QED
    BY <2>1 DEF KeepsExpunged
<1>20. OneKey'
  <2>1. ASSUME NEW j \in Keys, NEW f \in Entries, RefersTo(j, f)'
        PROVE  (f = e /\ j = k) \/ (f # e /\ RefersTo(j, f))
    <3>1. CASE readM'[j] = f
      BY <1>6, <1>9, <3>1 DEF RefersTo
    <3>2. CASE dirty'[j] = f
      BY <1>6, <1>14, <3>2 DEF RefersTo
    <3>3. ASSUME NEW q \in Procs, held'[q][j] = f
          PROVE  f # e /\ RefersTo(j, f)
      BY <1>6, <1>9, <3>3 DEF RefersTo
    <3> QED
      BY <2>1, <3>1, <3>2, <3>3 DEF RefersTo
  <2> QED
    BY <2>1 DEF OneKey, IInv, MapInv
<1>21. EntryInv'
  <2>1. \A j \in Keys : readM'[j] # NoEntry /\ dirty'[j] # NoEntry => dirty'[j] = readM'[j]
    BY <1>1, <1>3, <1>9, <1>14 DEF IInv, MapInv, EntryInv
  <2>2. \A j \in Keys : dirty'[j] # NoEntry => ptr'[dirty'[j]] # Expunged
    BY <1>6, <1>10, <1>13, <1>14, <1>16 DEF IInv, MapInv, EntryInv
  <2> QED
    BY <1>1, <1>9, <2>1, <2>2 DEF EntryInv
<1>22. CopyInv'
  <2>1. \A q \in Procs : pc[q] \notin Copying
    BY <1>1, OneCopies
  <2>2. \A j \in Keys : readM[j] # NoEntry => ptr'[readM[j]] = ptr[readM[j]]
    BY <1>6, <1>13, <1>16
  <2> QED
    BY <1>1, <1>3, <1>9, <1>14, <2>1, <2>2 DEF IInv, MapInv, CopyInv
<1>23. NewKeyAmended'
  BY <1>1, <1>9 DEF NewKeyAmended
<1>24. MuP(p)' /\ CallP(p)' /\ DirtyP(p)'
  BY <1>1, <1>7, <1>9, <1>11, <1>12, Unlocking DEF Storing
<1>25. HeldP(p)' /\ SeenP(p)'
  BY <1>7, <1>11, <1>12 DEF HeldP, Looked, SeenP
<1>26. RangeP(p)'
  BY <1>1, <1>11, <1>12, NoRange DEF Storing
<1>27. IInv'
  BY <1>1, <1>11, <1>12, <1>15, <1>18, <1>19, <1>20, <1>21, <1>22, <1>23, <1>24, <1>25, <1>26,
     MuStep DEF MapInv, ProcInv
<1>28. CASE call[p].op = "Store"
  <2>1. /\ Atomic!Busy(p, "Store")
        /\ Atomic!AnswerWriting(p, Atomic!Result(None, FALSE), k, x)
    BY <1>1, <1>7, <1>8, <1>28, Common
  <2>2. Atomic!Store(p)
    BY <1>3, <1>4, <1>17, <2>1 DEF Atomic!Store, Key
  <2> QED
    BY <1>27, <2>2 DEF Implements, Atomic!Step
<1>29. CASE call[p].op = "LoadOrStore"
  <2>1. /\ Atomic!Busy(p, "LoadOrStore")
        /\ Atomic!AnswerWriting(p, Atomic!Result(x, FALSE), k, x)
    BY <1>1, <1>7, <1>8, <1>29, Common
  <2>2. Content[k] = None
    BY <1>1, <1>3 DEF Content, EntryOf
  <2>3. Atomic!LoadOrStore(p)
    BY <1>3, <1>4, <1>17, <2>1, <2>2 DEF Atomic!LoadOrStore, Key
  <2> QED
    BY <1>27, <2>3 DEF Implements, Atomic!Step
<1> QED
  BY <1>1, <1>28, <1>29 DEF Storing

-----------------------------------------------------------------------------
LEMMA Initially == Init => IInv /\ Atomic!Init
<1> SUFFICES ASSUME Init PROVE IInv /\ Atomic!Init
  OBVIOUS
<1>1. /\ call = [p \in Procs |-> Idle] /\ res = [p \in Procs |-> Pending]
      /\ seen = [p \in Procs |-> NothingSeen] /\ visited = [p \in Procs |-> NothingVisited]
  BY DEF Init, CallsInit
<1>2. EmptyMap \in GoMaps /\ Nil \in Pointers
  BY DEF EmptyMap, GoMaps, Pointers
<1>3. NothingSeen \in [Keys -> SUBSET Opt] /\ NothingVisited \in [Keys -> Opt]
  BY DEF NothingSeen, NothingVisited, Opt
<1>4. CoreType
  BY <1>2 DEF Init, CoreType
<1>5. LocalType
  BY <1>2 DEF Init, LocalType, Labels
<1>6. CallType
  BY <1>1, <1>3, PendingType DEF CallType
<1>7. misses \in 0..Cardinality(Keys) /\ mu \in Procs \cup {Free}
  BY KeysAssumption, FS_CardinalityType DEF Init
<1>8. MapInv
  <2>1. OneKey
    BY Apart DEF Init, OneKey, RefersTo, EmptyMap
  <2>2. EntryInv /\ CopyInv /\ NewKeyAmended
    BY DEF Init, EntryInv, CopyInv, NewKeyAmended, EmptyMap, Dom
  <2> QED
    BY <2>1, <2>2 DEF MapInv
<1>9. ASSUME NEW p \in Procs PROVE ProcInv(p)
  <2>1. pc[p] = "idle" /\ mu # p /\ cur[p] = None /\ held[p] = EmptyMap
    BY Apart DEF Init
  <2>2. call[p] = Idle /\ res[p] = Pending /\ visited[p] = NothingVisited
    BY <1>1
  <2>3. MuP(p) /\ CallP(p) /\ DirtyP(p)
    BY <2>1, <2>2 DEF MuP, CallP, DirtyP, Critical, Copying
  <2>4. HeldP(p) /\ RangeP(p)
    BY <2>1, <2>2 DEF HeldP, Looked, RangeP
  <2>5. SeenP(p)
    BY <2>2, IdleKeys DEF SeenP
  <2> QED
    BY <2>3, <2>4, <2>5 DEF ProcInv
<1>10. Content = [k \in Keys |-> None]
  BY DEF Init, Content, EntryOf, EmptyMap
<1>11. Atomic!Init
  BY <1>10, Common DEF Atomic!Init, Init
<1> QED
  BY <1>4, <1>5, <1>6, <1>7, <1>8, <1>9, <1>11, Types DEF IInv

LEMMA StepKeeps ==
  ASSUME IInv, NEW p \in Procs, Step(p) PROVE IInv' /\ Implements(p)
BY InvokeInv, ReturnInv, LoadFastInv, StoreFastInv, DeleteFastInv, RangeFastInv,
   LoadEntryInv, TryStoreLoadInv, TryStoreCASInv, TryLoadInv, TryLoadMuInv, TryCASInv,
   DeleteLoadInv, DeleteCASInv, LockInv, UnlockInv, LoadLockedInv, DeleteLockedInv,
   RangeLockedInv, FindReadInv, FindDirtyInv, FindNoneInv, PutInv, MissStepInv,
   ExpungeLoadInv, ExpungeCASInv, AmendInv, NewInv, RangeLoadInv, RangeFInv, RangeEndInv
   DEF Step

LEMMA StutterKeeps == ASSUME IInv, UNCHANGED vars PROVE IInv' /\ UNCHANGED Atomic!vars
<1>1. /\ ptr' = ptr /\ readM' = readM /\ amended' = amended /\ dirty' = dirty
      /\ dirtyNil' = dirtyNil /\ misses' = misses /\ mu' = mu
      /\ pc' = pc /\ held' = held /\ ld' = ld /\ todo' = todo /\ cur' = cur
      /\ call' = call /\ res' = res /\ seen' = seen /\ visited' = visited
  BY DEF vars, mapVars, locVars, callVars
<1>2. Content' = Content
  BY <1>1, QuietContent
<1>3. TypeOK'
  BY <1>1 DEF IInv, TypeOK
<1>4. MapInv'
  BY <1>1 DEF IInv, MapInv, OneKey, RefersTo, EntryInv, CopyInv, NewKeyAmended, Dom
<1>5. ASSUME NEW p \in Procs PROVE ProcInv(p)'
  <2>1. MuP(p)' /\ CallP(p)' /\ DirtyP(p)'
    BY <1>1 DEF IInv, ProcInv, MuP, CallP, DirtyP, Key
  <2>2. HeldP(p)' /\ SeenP(p)' /\ RangeP(p)'
    BY <1>1, <1>2 DEF IInv, ProcInv, HeldP, Looked, SeenP, RangeP, Key, EntryOf
  <2> QED
    BY <2>1, <2>2 DEF ProcInv
<1>6. UNCHANGED Atomic!vars
  BY <1>1, <1>2 DEF Atomic!vars, Atomic!callVars
<1> QED
  BY <1>3, <1>4, <1>5, <1>6 DEF IInv

LEMMA NextKeeps == IInv /\ [Next]_vars => IInv' /\ [Atomic!Next]_(Atomic!vars)
<1>1. ASSUME IInv, NEW p \in Procs, Step(p) PROVE IInv' /\ [Atomic!Next]_(Atomic!vars)
  BY <1>1, StepKeeps DEF Implements, Atomic!Next
<1>2. ASSUME IInv, UNCHANGED vars PROVE IInv' /\ [Atomic!Next]_(Atomic!vars)
  BY <1>2, StutterKeeps
<1> QED
  BY <1>1, <1>2 DEF Next

LEMMA Invariant == Spec => []IInv
BY Initially, NextKeeps, PTL DEF Spec

-----------------------------------------------------------------------------
(* Every variable keeps its type, and misses its bound.                    *)
THEOREM TypeCorrect == Spec => []TypeOK
<1>1. IInv => TypeOK
  BY DEF IInv
<1> QED
  BY <1>1, Invariant, PTL

(* What int_map.go's comments say of the read map, the dirty map and the   *)
(* expunged entries holds at every step, as long as an address is left for *)
(* a new entry.                                                            *)
THEOREM MapsStayConsistent == Spec /\ []RoomForNew => []MapsConsistent
<1>1. ASSUME IInv PROVE DirtyIncludesRead
  <2> SUFFICES ASSUME ~dirtyNil, NEW k \in Dom(readM), k \notin Uncopied,
                      ptr[readM[k]] # Expunged
               PROVE  dirty[k] = readM[k]
    BY DEF DirtyIncludesRead
  <2>1. k \in Keys /\ readM[k] # NoEntry
    BY DEF Dom
  <2>2. \A p \in Procs : pc[p] \in Copying => k \notin todo[p]
    BY DEF Uncopied, Copying
  <2> QED
    BY <1>1, <2>1, <2>2 DEF IInv, MapInv, CopyInv
<1>2. ASSUME IInv PROVE ExpungedNotInDirty
  BY <1>2 DEF IInv, MapInv, EntryInv, ExpungedNotInDirty, Dom
<1>3. IInv => NewKeyAmended
  BY DEF IInv, MapInv
<1>4. IInv => LockedNotExpunged
  BY DEF IInv, ProcInv, HeldP, LockedNotExpunged, Entry
<1>5. IInv /\ RoomForNew => MapsConsistent
  BY <1>1, <1>2, <1>3, <1>4 DEF MapsConsistent, IInv
<1> QED
  BY <1>5, Invariant, PTL

(* No goroutine writes to an entry the map has lost.                       *)
THEOREM NoWriteLost == Spec => []WritesReachMap
<1>1. ASSUME IInv PROVE WritesReachMap
  <2> SUFFICES ASSUME NEW p \in Procs, pc[p] \in {"try", "delete", "cas"},
                      ptr[Entry(p)] # Expunged
               PROVE  EntryOf(Key(p)) = Entry(p)
    BY DEF WritesReachMap, At
  <2> QED
    BY <1>1, StillThere
<1> QED
  BY <1>1, Invariant, PTL

(* The map linearises: every step of its code is a step of the atomic map, *)
(* or none.                                                                *)
THEOREM MapLinearizes == Spec => Linearizable
<1>1. Init => Atomic!Init
  BY Initially
<1>2. IInv /\ [Next]_vars => [Atomic!Next]_(Atomic!vars)
  BY NextKeeps
<1> QED
  BY <1>1, <1>2, Invariant, PTL DEF Spec, Linearizable, Atomic!Spec
=============================================================================
