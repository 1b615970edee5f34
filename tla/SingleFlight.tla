---------------------------- MODULE SingleFlight ----------------------------
(***************************************************************************)
(* util/syncutil/singleflight/singleflight.go: duplicate calls for a key   *)
(* share one execution of the caller's function.                           *)
(*                                                                         *)
(* A flight is a *call object with the goroutine that runs doCall on it:   *)
(* the first caller's own goroutine for Do, a new one for DoChan.  A       *)
(* section under g.mu is one step, except that of doCall, which sends on   *)
(* channels while it holds mu.                                             *)
(***************************************************************************)
EXTENDS Integers, Sequences

CONSTANTS Callers,
          Keys,
          Forgettable,  \* the keys that Forget may be called for
          Flights,      \* addresses of *call objects
          MaxDups,      \* bound: the calls that may join one flight
          NoFlight, NoVal, Free

ASSUME FlightAssumption ==
    /\ NoFlight \notin Flights /\ Free \notin Flights
    /\ NoVal \notin Flights /\ MaxDups \in Nat
    /\ Forgettable \subseteq Keys

VARIABLES
    m,        \* g.m
    mu,       \* the flight that holds g.mu between two steps, or Free
    flight,   \* the *call objects and their goroutines
    pc,       \* where each caller is
    at,       \* the flight a caller leads or has joined
    chan,     \* the channel of a caller in DoChan, of capacity 1
    ret       \* what a caller was given

vars == <<m, mu, flight, pc, at, chan, ret>>

NoRet == [from |-> NoFlight, val |-> NoVal, shared |-> FALSE]
Rets  == [from : Flights \cup {NoFlight}, val : Flights \cup {NoVal}, shared : BOOLEAN]

(* Bug: the caller's channel is added twice. *)
NewFlightBug(k, chans) ==
    [key |-> k, phase |-> "fn", val |-> NoVal, dups |-> 0, chans |-> chans \o chans,
     sent |-> 0, callers |-> 1, forgotten |-> FALSE]

(* callers and forgotten are history: the calls the flight was given to,   *)
(* and whether Forget was called for the key since the flight began.       *)
NewFlight(k, chans) ==
    [key |-> k, phase |-> "fn", val |-> NoVal, dups |-> 0, chans |-> chans,
     sent |-> 0, callers |-> 1, forgotten |-> FALSE]

Init ==
    /\ m = [k \in Keys |-> NoFlight]
    /\ mu = Free
    /\ \E k \in Keys :
         flight = [c \in Flights |-> [NewFlight(k, <<>>) EXCEPT !.phase = "finished"]]
    /\ pc = [p \in Callers |-> "idle"]
    /\ at = [p \in Callers |-> NoFlight]
    /\ chan = [p \in Callers |-> <<>>]
    /\ ret = [p \in Callers |-> NoRet]

-----------------------------------------------------------------------------
Running(c) == flight[c].phase \notin {"finished", "panicked"}

(* Bug: the WaitGroup is not waited for. *)
WgDoneBug(c) == TRUE

(* The WaitGroup of c is done. *)
WgDone(c) == flight[c].phase \in {"done", "send", "finished"}

(* No goroutine refers to c. *)
Unused(c) == /\ ~Running(c)
             /\ \A k \in Keys : m[k] # c
             /\ \A p \in Callers : at[p] # c

(* Do and DoChan under mu: join the flight of key k, or start one.  chans  *)
(* is the channel added to it, if any.                                     *)
Enter(p, k, chans, joined, led) ==
    /\ pc[p] = "idle" /\ mu = Free
    /\ \/ /\ m[k] # NoFlight /\ flight[m[k]].dups < MaxDups
          /\ flight' = [flight EXCEPT ![m[k]].dups = @ + 1, ![m[k]].callers = @ + 1,
                                      ![m[k]].chans = @ \o chans]
          /\ at' = [at EXCEPT ![p] = m[k]]
          /\ pc' = [pc EXCEPT ![p] = joined]
          /\ UNCHANGED m
       \/ /\ m[k] = NoFlight
          /\ \E c \in Flights :
                /\ Unused(c)
                /\ flight' = [flight EXCEPT ![c] = NewFlight(k, chans)]
                /\ m' = [m EXCEPT ![k] = c]
                /\ at' = [at EXCEPT ![p] = c]
          /\ pc' = [pc EXCEPT ![p] = led]
    /\ UNCHANGED <<mu, chan, ret>>

Do(p)     == \E k \in Keys : Enter(p, k, <<>>, "wait", "lead")

(* The boolean that DoChan returns with the channel, whether it began the  *)
(* flight, is left out, and so is NumCalls, which only reads dups.         *)
DoChan(p) == \E k \in Keys : Enter(p, k, <<p>>, "recv", "recv")

Give(p, r) ==
    /\ ret' = [ret EXCEPT ![p] = r]
    /\ pc' = [pc EXCEPT ![p] = "returned"]

(* Do, joined: wg.Wait returns, and shared is true. *)
WaitReturn(p) ==
    /\ pc[p] = "wait" /\ WgDone(at[p])
    /\ Give(p, [from |-> at[p], val |-> flight[at[p]].val, shared |-> TRUE])
    /\ UNCHANGED <<m, mu, flight, at, chan>>

(* Do, leading: doCall has returned.  c.dups is read without mu. *)
LeadReturn(p) ==
    /\ pc[p] = "lead" /\ ~Running(at[p])
    /\ Give(p, [from |-> at[p], val |-> flight[at[p]].val,
                shared |-> flight[at[p]].dups > 0])
    /\ UNCHANGED <<m, mu, flight, at, chan>>

(* DoChan: the caller receives from its channel. *)
Receive(p) ==
    /\ pc[p] = "recv" /\ chan[p] # <<>>
    /\ Give(p, Head(chan[p]))
    /\ chan' = [chan EXCEPT ![p] = Tail(@)]
    /\ UNCHANGED <<m, mu, flight, at>>

(* The function that Do runs panics, and the panic is recovered above Do:  *)
(* what is left of doCall is skipped, so the WaitGroup is never done and   *)
(* the key stays.  In the goroutine of DoChan it would end the program.    *)
FnPanic(p) ==
    /\ pc[p] = "lead" /\ flight[at[p]].phase = "fn"
    /\ flight' = [flight EXCEPT ![at[p]].phase = "panicked"]
    /\ pc' = [pc EXCEPT ![p] = "idle"]
    /\ at' = [at EXCEPT ![p] = NoFlight]
    /\ UNCHANGED <<m, mu, chan, ret>>

(* The caller has used its result. *)
Leave(p) ==
    /\ pc[p] = "returned"
    /\ pc' = [pc EXCEPT ![p] = "idle"]
    /\ at' = [at EXCEPT ![p] = NoFlight]
    /\ ret' = [ret EXCEPT ![p] = NoRet]
    /\ UNCHANGED <<m, mu, flight, chan>>

(* Bug: the key stays. *)
ForgetBug(p) ==
    /\ pc[p] = "idle" /\ mu = Free
    /\ \E k \in Forgettable :
          flight' = [c \in Flights |->
                       [flight[c] EXCEPT !.forgotten =
                            @ \/ (Running(c) /\ flight[c].key = k)]]
    /\ UNCHANGED <<m, mu, pc, at, chan, ret>>

Forget(p) ==
    /\ pc[p] = "idle" /\ mu = Free
    /\ \E k \in Forgettable :
          /\ m' = [m EXCEPT ![k] = NoFlight]
          /\ flight' = [c \in Flights |->
                          [flight[c] EXCEPT !.forgotten =
                               @ \/ (Running(c) /\ flight[c].key = k)]]
    /\ UNCHANGED <<mu, pc, at, chan, ret>>

-----------------------------------------------------------------------------
(* doCall.  No code looks at a value, so what a function returns is named  *)
(* after its flight.                                                       *)
FnReturn(c) ==
    /\ flight[c].phase = "fn"
    /\ flight' = [flight EXCEPT ![c].val = c, ![c].phase = "fnDone"]
    /\ UNCHANGED <<m, mu, pc, at, chan, ret>>

SignalDone(c) ==
    /\ flight[c].phase = "fnDone"
    /\ flight' = [flight EXCEPT ![c].phase = "done"]
    /\ UNCHANGED <<m, mu, pc, at, chan, ret>>

(* Bug: all keys are deleted. *)
DeleteBug(c) ==
    /\ flight[c].phase = "done" /\ mu = Free
    /\ mu' = c
    /\ m' = [k \in Keys |-> NoFlight]
    /\ flight' = [flight EXCEPT ![c].phase = "send"]
    /\ UNCHANGED <<pc, at, chan, ret>>

(* The key is deleted, whichever flight the map has for it. *)
Delete(c) ==
    /\ flight[c].phase = "done" /\ mu = Free
    /\ mu' = c
    /\ m' = [m EXCEPT ![flight[c].key] = NoFlight]
    /\ flight' = [flight EXCEPT ![c].phase = "send"]
    /\ UNCHANGED <<pc, at, chan, ret>>

(* A send blocks while the channel is full. *)
Send(c) ==
    LET i == flight[c].sent + 1
        p == flight[c].chans[i]
    IN  /\ flight[c].phase = "send" /\ i <= Len(flight[c].chans)
        /\ chan[p] = <<>>
        /\ chan' = [chan EXCEPT ![p] =
                      <<[from |-> c, val |-> flight[c].val,
                         shared |-> flight[c].dups > 0]>>]
        /\ flight' = [flight EXCEPT ![c].sent = i]
        /\ UNCHANGED <<m, mu, pc, at, ret>>

(* Bug: mu is not unlocked. *)
EndCallBug(c) ==
    /\ flight[c].phase = "send" /\ flight[c].sent = Len(flight[c].chans)
    /\ flight' = [flight EXCEPT ![c].phase = "finished"]
    /\ UNCHANGED <<m, mu, pc, at, chan, ret>>

EndCall(c) ==
    /\ flight[c].phase = "send" /\ flight[c].sent = Len(flight[c].chans)
    /\ mu' = Free
    /\ flight' = [flight EXCEPT ![c].phase = "finished"]
    /\ UNCHANGED <<m, pc, at, chan, ret>>

-----------------------------------------------------------------------------
CallerStep(p) == \/ Do(p) \/ DoChan(p) \/ Forget(p)
                 \/ WaitReturn(p) \/ LeadReturn(p) \/ Receive(p) \/ Leave(p)
                 \/ FnPanic(p)

FlightStep(c) == FnReturn(c) \/ SignalDone(c) \/ Delete(c) \/ Send(c) \/ EndCall(c)

Next == \/ \E p \in Callers : CallerStep(p)
        \/ \E c \in Flights : FlightStep(c)

Spec == Init /\ [][Next]_vars

(* Goroutines that can run do run, the functions return, and sync.Mutex    *)
(* does not starve one that waits for it (its starvation mode).            *)
Fairness ==
    /\ \A p \in Callers : WF_vars(WaitReturn(p) \/ LeadReturn(p) \/ Receive(p))
    /\ \A c \in Flights : /\ WF_vars(FnReturn(c) \/ SignalDone(c))
                          /\ SF_vars(Delete(c))
                          /\ WF_vars(Send(c) \/ EndCall(c))

FairSpec == Spec /\ Fairness

-----------------------------------------------------------------------------
FlightObjects ==
    [key : Keys, phase : {"fn", "fnDone", "done", "send", "finished", "panicked"},
     val : Flights \cup {NoVal}, dups : Nat, chans : Seq(Callers),
     sent : Nat, callers : Nat, forgotten : BOOLEAN]

TypeOK ==
    /\ m \in [Keys -> Flights \cup {NoFlight}]
    /\ mu \in Flights \cup {Free}
    /\ flight \in [Flights -> FlightObjects]
    /\ pc \in [Callers -> {"idle", "wait", "lead", "recv", "returned"}]
    /\ at \in [Callers -> Flights \cup {NoFlight}]
    /\ chan \in [Callers -> Seq(Rets)]
    /\ ret \in [Callers -> Rets]

(* r is what flight c gives everybody: the value its function returned,    *)
(* and shared exactly if more than one call was given it.  Before doCall   *)
(* ends more calls may join, and only a result already shared is out.      *)
Faithful(r, c) ==
    /\ r.val = flight[c].val /\ r.val # NoVal
    /\ r.shared <=> flight[c].callers > 1

(* "The duplicate caller waits for the original to complete and receives   *)
(* the same results.  The return value shared indicates whether v was      *)
(* given to multiple callers" (singleflight.go:60).  The flag is computed  *)
(* at three places, for two of them after calls that may still join, and   *)
(* yet all callers of a flight, those of Do and those of DoChan, agree.    *)
SameResults ==
    \A p \in Callers :
        /\ pc[p] = "returned" => Faithful(ret[p], at[p])
        /\ chan[p] # <<>> => Faithful(Head(chan[p]), at[p])

(* doCall sends while it holds mu: a channel it is about to send to is     *)
(* empty, so no send blocks the group.                                     *)
SendNeverBlocks ==
    \A c \in Flights :
        flight[c].phase = "send" /\ flight[c].sent < Len(flight[c].chans) =>
            chan[flight[c].chans[flight[c].sent + 1]] = <<>>

(* "Future calls to Do for this key will call the function rather than     *)
(* waiting for an earlier call to complete" (singleflight.go:141): no call *)
(* joins a flight that was under way when Forget was called for its key.   *)
ForgottenNotJoined ==
    [][\A c \in Flights : flight[c].forgotten /\ flight'[c].forgotten =>
            flight'[c].callers = flight[c].callers]_vars

(* Two functions run for key k, and Forget let go neither. *)
TwoInFlight(k) ==
    \E c, d \in Flights :
        /\ c # d
        /\ \A e \in {c, d} : /\ flight[e].phase = "fn" /\ flight[e].key = k
                              /\ ~flight[e].forgotten

(* "Only one execution is in-flight for a given key at a time"             *)
(* (singleflight.go:58), for a key that Forget is never called for,        *)
(* whatever happens to the others: doCall deletes no key but that of its   *)
(* flight.  (For a key that was forgotten it deletes whatever it finds, a  *)
(* flight that came after too.)                                            *)
OneInFlightIfKept == \A k \in Keys \ Forgettable : ~TwoInFlight(k)

(* Every call of Do returns, and every channel of DoChan gets its result,  *)
(* but those of a flight whose function panicked: they wait for ever, and  *)
(* nobody else does.                                                       *)
EveryCallReturns ==
    \A p \in Callers :
        pc[p] \in {"wait", "lead", "recv"} ~>
            \/ pc[p] \in {"returned", "idle"}
            \/ flight[at[p]].phase = "panicked"
=============================================================================
