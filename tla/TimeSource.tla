----------------------------- MODULE TimeSource -----------------------------
(***************************************************************************)
(* util/timeutil/time_source.go: the interface TimeSource and its two      *)
(* sources, of which a program is given one.  Their timers keep the same   *)
(* contract.                                                               *)
(***************************************************************************)
EXTENDS Integers, Sequences

CONSTANTS Clients, Durations, MaxTime, TimeTimers, NoTimer,
          Advancers, Tickers, TickBuffer, Free,
          Programs      \* bound: which source and which of the others a program has

ASSUME TimeAssumption ==
    /\ MaxTime \in Nat /\ Durations \subseteq 0..MaxTime
    /\ NoTimer \notin TimeTimers /\ Free \notin Advancers
    /\ TickBuffer \in Nat \ {0}
    /\ Programs \subseteq [source : {"system", "manual"}, clients : SUBSET Clients,
                           advancers : SUBSET Advancers, tickers : SUBSET Tickers]

VARIABLES program, now, pc, answer,
          obj, rt, pool,                  \* of the system's timers
          mt, q, mu, adv, list, tick      \* of manual time

System == INSTANCE SystemTimer
Manual == INSTANCE ManualTime

vars == <<program, now, pc, answer, obj, rt, pool, mt, q, mu, adv, list, tick>>

Init ==
    /\ program \in Programs
    /\ now = 0
    /\ pc = [c \in Clients |-> "none"]
    /\ answer = [c \in Clients |-> FALSE]
    /\ System!Init
    /\ Manual!Init

(* Who is not of the program does nothing. *)
OthersIdle ==
    /\ \A c \in Clients \ program.clients : pc[c] = "none"
    /\ \A a \in Advancers \ program.advancers : adv[a].at = "idle"
    /\ \A k \in Tickers \ program.tickers : tick[k].dur = 0

Next ==
    /\ \/ program.source = "system" /\ System!Next /\ UNCHANGED <<mt, q, mu, adv, list, tick>>
       \/ program.source = "manual" /\ Manual!Next /\ UNCHANGED <<obj, rt, pool>>
    /\ UNCHANGED program
    /\ OthersIdle'

Spec == Init /\ [][Next]_vars

(* A source that is not used has no step enabled, so none to be fair to. *)
Fairness == System!Fairness /\ Manual!Fairness

FairSpec == Spec /\ Fairness

-----------------------------------------------------------------------------
TypeOK == /\ now \in 0..MaxTime
          /\ answer \in [Clients -> BOOLEAN]
          /\ IF program.source = "system" THEN System!TypeOK ELSE Manual!TypeOK

(* A timer of the runtime that is pooled has no tick left over; the heap   *)
(* knows where each of its timers is; and AdvanceTo sends to no full       *)
(* channel while it holds the mutex.                                       *)
TimersWellFormed ==
    /\ TypeOK
    /\ program.source = "system" => System!PooledClean
    /\ Manual!QueueIndexed
    /\ Manual!AdvanceNeverBlocks

(* Manual time has fired every timer that is due when it lets go of its    *)
(* mutex.                                                                  *)
FiredByReturn == Manual!FiredByReturn

(* A ticker of manual time loses no tick.                                  *)
TicksComplete == Manual!TicksComplete

(* Manual time never goes back, and reaches what each Advance asked for.   *)
TimeMoves == Manual!TimeMoves

View == IF program.source = "system" THEN System!View ELSE Manual!View

Contract == INSTANCE TimerContract WITH view <- View

(* Every tick that is received from either source is of the last Reset and *)
(* not early, and Stop says whether it prevented one.                      *)
KeepsContract == Contract!Spec

(* A Reset returns: the tick it waits for is on the way if it has not been *)
(* read.                                                                   *)
ResetReturns ==
    \A c \in Clients : pc[c] \in {"drain", "arm", "now", "add"} ~> pc[c] = "idle"

(* A timer that is due and not stopped or reset fires. *)
TickArrives ==
    \A c \in Clients : View[c].state = "armed" /\ View[c].due <= now ~> View[c].state # "armed"
=============================================================================
