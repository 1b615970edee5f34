---------------------------- MODULE SystemTimer ----------------------------
(***************************************************************************)
(* util/timeutil/timer.go: Timer, which wraps a time.Timer of the runtime, *)
(* and the pool that the time.Timers come from and go back to.             *)
(*                                                                         *)
(* A time.Timer (of Go 1.16) is inactive from the moment it expires, and   *)
(* its goroutine sends the tick a little later: in between, Stop answers   *)
(* false although the channel is still empty.  The channel holds one tick. *)
(* A Timer that comes from timerPool is a zero Timer, as a new one is.     *)
(***************************************************************************)
EXTENDS Integers

CONSTANTS Clients, Durations, MaxTime,
          TimeTimers,   \* addresses of time.Timers
          NoTimer

VARIABLES now, pc, answer,
          obj,          \* each client's Timer, and when its Reset began
          rt,           \* the time.Timers
          pool          \* timeTimerPool

sysVars == <<obj, rt, pool>>
vars    == <<now, pc, answer, obj, rt, pool>>

Blank == [timer |-> NoTimer, read |-> FALSE, began |-> 0]
New   == [active |-> FALSE, at |-> 0, sending |-> FALSE, full |-> FALSE]

Init ==
    /\ obj = [c \in Clients |-> Blank]
    /\ rt = [t \in TimeTimers |-> New]
    /\ pool = {}

TimerOf(c) == rt[obj[c].timer]

(* Nothing refers to t: not a client, the pool or the runtime. *)
Unused(t) == /\ t \notin pool /\ ~rt[t].active /\ ~rt[t].sending
             /\ \A c \in Clients : obj[c].timer # t

-----------------------------------------------------------------------------
(* The runtime.                                                            *)
Pass == /\ now < MaxTime
        /\ now' = now + 1
        /\ UNCHANGED <<pc, answer, sysVars>>

Expire(t) ==
    /\ rt[t].active /\ rt[t].at <= now
    /\ rt' = [rt EXCEPT ![t].active = FALSE, ![t].sending = TRUE]
    /\ UNCHANGED <<now, pc, answer, obj, pool>>

Send(t) ==
    /\ rt[t].sending
    /\ rt' = [rt EXCEPT ![t].sending = FALSE, ![t].full = TRUE]
    /\ UNCHANGED <<now, pc, answer, obj, pool>>

(* time.Timer.Stop; the time of a timer that is stopped does not matter. *)
Halt(t) == rt' = [rt EXCEPT ![t].active = FALSE, ![t].at = 0]

-----------------------------------------------------------------------------
NewTimer(c) ==
    /\ pc[c] = "none"
    /\ pc' = [pc EXCEPT ![c] = "idle"]
    /\ answer' = [answer EXCEPT ![c] = FALSE]
    /\ UNCHANGED <<now, sysVars>>

(* The first Reset takes a time.Timer of the pool, or makes one. *)
ResetFirst(c, d) ==
    /\ pc[c] = "idle" /\ obj[c].timer = NoTimer
    /\ \E t \in TimeTimers :
         /\ \/ t \in pool /\ rt' = [rt EXCEPT ![t].active = TRUE, ![t].at = now + d]
            \/ Unused(t) /\ rt' = [rt EXCEPT ![t] = [New EXCEPT !.active = TRUE, !.at = now + d]]
         /\ pool' = pool \ {t}
         /\ obj' = [obj EXCEPT ![c].timer = t]
    /\ UNCHANGED <<now, pc, answer>>

(* Bug: the channel is not drained. *)
ResetStopBug(c) ==
    /\ pc[c] = "idle" /\ obj[c].timer # NoTimer
    /\ Halt(obj[c].timer)
    /\ pc' = [pc EXCEPT ![c] = "arm"]
    /\ obj' = [obj EXCEPT ![c].began = now]
    /\ UNCHANGED <<now, answer, pool>>

(* Another Reset stops the time.Timer, *)
ResetStop(c) ==
    /\ pc[c] = "idle" /\ obj[c].timer # NoTimer
    /\ Halt(obj[c].timer)
    /\ pc' = [pc EXCEPT ![c] = IF ~TimerOf(c).active /\ ~obj[c].read THEN "drain" ELSE "arm"]
    /\ obj' = [obj EXCEPT ![c].began = now]
    /\ UNCHANGED <<now, answer, pool>>

(* if it was too late, waits for the tick that has not been read, *)
ResetDrain(c) ==
    /\ pc[c] = "drain" /\ TimerOf(c).full
    /\ rt' = [rt EXCEPT ![obj[c].timer].full = FALSE]
    /\ pc' = [pc EXCEPT ![c] = "arm"]
    /\ UNCHANGED <<now, answer, obj, pool>>

(* and sets it. *)
ResetArm(c, d) ==
    /\ pc[c] = "arm"
    /\ rt' = [rt EXCEPT ![obj[c].timer].active = TRUE, ![obj[c].timer].at = now + d]
    /\ obj' = [obj EXCEPT ![c].read = FALSE, ![c].began = 0]
    /\ pc' = [pc EXCEPT ![c] = "idle"]
    /\ UNCHANGED <<now, answer, pool>>

(* Bug: MarkRead is not called. *)
ReceiveBug(c) ==
    /\ pc[c] = "idle" /\ obj[c].timer # NoTimer /\ TimerOf(c).full
    /\ rt' = [rt EXCEPT ![obj[c].timer].full = FALSE]
    /\ UNCHANGED <<now, pc, answer, obj, pool>>

(* The client takes the tick and calls MarkRead. *)
Receive(c) ==
    /\ pc[c] = "idle" /\ obj[c].timer # NoTimer /\ TimerOf(c).full
    /\ rt' = [rt EXCEPT ![obj[c].timer].full = FALSE]
    /\ obj' = [obj EXCEPT ![c].read = TRUE]
    /\ UNCHANGED <<now, pc, answer, pool>>

Stop(c) ==
    LET t   == obj[c].timer
        res == t # NoTimer /\ rt[t].active
    IN  /\ pc[c] = "idle"
        /\ IF res THEN Halt(t) ELSE UNCHANGED rt
        /\ pool' = IF res THEN pool \cup {t} ELSE pool
        /\ answer' = [answer EXCEPT ![c] = res]
        /\ obj' = [obj EXCEPT ![c] = Blank]
        /\ pc' = [pc EXCEPT ![c] = "none"]
        /\ UNCHANGED now

Finish(c) == ResetDrain(c) \/ \E d \in Durations : ResetArm(c, d)

Next ==
    \/ Pass
    \/ \E t \in TimeTimers : Expire(t) \/ Send(t)
    \/ \E c \in Clients : \/ NewTimer(c) \/ ResetStop(c) \/ Finish(c) \/ Receive(c) \/ Stop(c)
                          \/ \E d \in Durations : ResetFirst(c, d)

(* The runtime fires a timer that is due, and a goroutine that can go on   *)
(* in a call does.                                                         *)
Fairness == /\ \A t \in TimeTimers : WF_vars(Expire(t) \/ Send(t))
            /\ \A c \in Clients : WF_vars(Finish(c))

-----------------------------------------------------------------------------
TypeOK ==
    /\ pc \in [Clients -> {"none", "idle", "drain", "arm"}]
    /\ obj \in [Clients -> [timer : TimeTimers \cup {NoTimer}, read : BOOLEAN,
                            began : 0..MaxTime]]
    /\ rt \in [TimeTimers -> [active : BOOLEAN, at : 0..2*MaxTime,
                              sending : BOOLEAN, full : BOOLEAN]]
    /\ pool \subseteq TimeTimers

(* A time.Timer in the pool, or about to be set again, has no tick left    *)
(* and none on the way, and a time.Timer has one owner.                    *)
PooledClean ==
    /\ \A t \in pool \cup {obj[c].timer : c \in {x \in Clients : pc[x] = "arm"}} :
          ~rt[t].active /\ ~rt[t].sending /\ ~rt[t].full
    /\ \A c \in Clients : obj[c].timer \notin pool
    /\ \A c, d \in Clients : c # d /\ obj[c].timer # NoTimer => obj[c].timer # obj[d].timer

(* What the client sees, for the contract. *)
View == [c \in Clients |->
    CASE obj[c].timer = NoTimer -> [state |-> "off", due |-> 0, began |-> 0]
      [] pc[c] \in {"drain", "arm"} -> [state |-> "resetting", due |-> 0, began |-> obj[c].began]
      [] OTHER -> [state |-> IF obj[c].read THEN "read"
                             ELSE IF TimerOf(c).active THEN "armed" ELSE "ticked",
                   due |-> TimerOf(c).at, began |-> 0]]
=============================================================================
