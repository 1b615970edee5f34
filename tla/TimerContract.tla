--------------------------- MODULE TimerContract ---------------------------
(***************************************************************************)
(* What a TimerI (util/timeutil/time_source.go) promises its client, in    *)
(* the loop that the comment of Timer describes: after Reset(d) one tick   *)
(* comes, no earlier than d after the call, and Stop says whether it was   *)
(* in time to prevent it.  A tick of an earlier Reset, of this client or   *)
(* of another that used the same time.Timer, is never received.            *)
(***************************************************************************)
EXTENDS Integers

CONSTANTS Clients,    \* goroutines, each with a timer of its own
          Durations,  \* bound: what Reset is given
          MaxTime     \* bound: the last moment of the clock

VARIABLES now,        \* the clock
          view,       \* what each client's timer is doing, and when it is due
          answer      \* what a client's Stop returned, until its next timer

vars == <<now, view, answer>>

Views == [state : {"off", "resetting", "armed", "ticked", "read"},
          due : 0..2*MaxTime, began : 0..MaxTime]

Init ==
    /\ now = 0
    /\ view = [c \in Clients |-> [state |-> "off", due |-> 0, began |-> 0]]
    /\ answer = [c \in Clients |-> FALSE]

Become(c, v) == view' = [view EXCEPT ![c] = v]

NewTimer(c) ==
    /\ view[c].state = "off"
    /\ answer' = [answer EXCEPT ![c] = FALSE]
    /\ UNCHANGED <<now, view>>

(* A Reset begins: from now on the old tick is not received any more. *)
ResetBegin(c) ==
    /\ view[c].state \in {"off", "armed", "ticked", "read"}
    /\ Become(c, [state |-> "resetting", due |-> 0, began |-> now])
    /\ UNCHANGED <<now, answer>>

(* It counts from some moment of the call. *)
Reset(c) ==
    /\ view[c].state \in {"off", "resetting"}
    /\ \E d \in Durations,
          t \in (IF view[c].state = "resetting" THEN view[c].began ELSE now)..now,
          s \in {"armed", "ticked"} :
            /\ s = "ticked" => t + d <= now
            /\ Become(c, [state |-> s, due |-> t + d, began |-> 0])
    /\ UNCHANGED <<now, answer>>

Tick(c) ==
    /\ view[c].state = "armed" /\ view[c].due <= now
    /\ Become(c, [view[c] EXCEPT !.state = "ticked"])
    /\ UNCHANGED <<now, answer>>

Receive(c) ==
    /\ view[c].state = "ticked"
    /\ Become(c, [view[c] EXCEPT !.state = "read"])
    /\ UNCHANGED <<now, answer>>

(* Stop returns true exactly if it prevented the tick. *)
Stop(c) ==
    /\ view[c].state # "resetting"
    /\ answer' = [answer EXCEPT ![c] = view[c].state = "armed"]
    /\ Become(c, [state |-> "off", due |-> 0, began |-> 0])
    /\ UNCHANGED now

Pass == /\ now' \in now + 1 .. MaxTime
        /\ UNCHANGED <<view, answer>>

Next == \/ Pass
        \/ \E c \in Clients : \/ NewTimer(c) \/ ResetBegin(c) \/ Reset(c)
                              \/ Tick(c) \/ Receive(c) \/ Stop(c)

Spec == Init /\ [][Next]_vars
=============================================================================
