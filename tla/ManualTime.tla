----------------------------- MODULE ManualTime -----------------------------
(***************************************************************************)
(* util/timeutil/manual_time.go: the time source of tests.  Its clock is   *)
(* moved by Advance and AdvanceTo, which fire the timers and tickers that  *)
(* have become due, all under m.mu; a Reset takes m.mu three times.        *)
(*                                                                         *)
(* A critical section that sends nothing is one step.  AdvanceTo, which    *)
(* does, holds mu from one step to the next.  manualTimerQueue is kept as  *)
(* in the code, a heap with an index for each timer (0 for none), since    *)
(* its methods keep the index right under the calls of container/heap.     *)
(***************************************************************************)
EXTENDS Integers, Sequences

CONSTANTS Clients, Durations, MaxTime,
          Advancers,    \* goroutines that call Advance
          Tickers,      \* tickers, each created once at most
          TickBuffer,   \* the capacity of a ticker's channel
          Free

VARIABLES now,          \* m.mu.now
          pc, answer,
          mt,           \* each client's manualTimer, and when its Reset began
          q,            \* m.mu.timers
          mu,           \* the advancer that holds m.mu between two steps, or Free
          adv,          \* the advancers' calls
          list,         \* m.mu.tickers
          tick          \* the tickers, and the last tick received from each

manVars == <<mt, q, mu, adv, list, tick>>
vars    == <<now, pc, answer, mt, q, mu, adv, list, tick>>

Idle == [at |-> "idle", target |-> 0, cur |-> 0]

(* ch: the channel is nil, or new and empty, or holds the tick. *)
Blank == [at |-> 0, ch |-> "nil", began |-> 0]

Init ==
    /\ mt = [c \in Clients |-> Blank]
    /\ q = [heap |-> <<>>, m |-> [c \in Clients |-> 0]]
    /\ mu = Free
    /\ adv = [a \in Advancers |-> Idle]
    /\ list = <<>>
    /\ tick = [k \in Tickers |-> [dur |-> 0, next |-> 0, ch |-> <<>>, last |-> 0]]

-----------------------------------------------------------------------------

Less(h, i, j, ats) == ats[h.heap[i]].at < ats[h.heap[j]].at

(* Bug: the index of one of the two is not set. *)
SwapBug(h, i, j) ==
    LET s == [h.heap EXCEPT ![i] = h.heap[j], ![j] = h.heap[i]]
    IN  [heap |-> s, m |-> [h.m EXCEPT ![s[i]] = i]]

Swap(h, i, j) ==
    LET s == [h.heap EXCEPT ![i] = h.heap[j], ![j] = h.heap[i]]
    IN  [heap |-> s, m |-> [h.m EXCEPT ![s[i]] = i, ![s[j]] = j]]

DropLast(h) == [heap |-> SubSeq(h.heap, 1, Len(h.heap) - 1),
                m    |-> [h.m EXCEPT ![h.heap[Len(h.heap)]] = 0]]

Heaps == [heap : Seq(Clients), m : [Clients -> Nat]]

(* A queue of n timers or more, and a place in it. *)
Places(n) == {x \in Heaps \X Nat : x[2] \in DOMAIN x[1].heap /\ n <= Len(x[1].heap)}

(* container/heap: the timer at j moves up past the later ones. *)
Up(h0, j0, ats) ==
    LET up[x \in Places(1)] ==
          LET h == x[1]
              j == x[2]
          IN  IF j > 1 /\ Less(h, j, j \div 2, ats)
              THEN up[<<Swap(h, j, j \div 2), j \div 2>>] ELSE h
    IN  up[<<h0, j0>>]

(* The child of i among the first n that is due first. *)
Child(h, i, n, ats) ==
    IF 2 * i + 1 <= n /\ Less(h, 2 * i + 1, 2 * i, ats) THEN 2 * i + 1 ELSE 2 * i

(* The timer at i moves down past the earlier ones of the first n. *)
Down(h0, i0, n, ats) ==
    LET down[x \in Places(n)] ==
          LET h == x[1]
              i == x[2]
              j == Child(h, i, n, ats)
          IN  IF 2 * i <= n /\ Less(h, j, i, ats)
              THEN down[<<Swap(h, i, j), j>>] ELSE h
    IN  down[<<h0, i0>>]

Push(h, c, ats) ==
    LET n == Len(h.heap) + 1
    IN  Up([heap |-> Append(h.heap, c), m |-> [h.m EXCEPT ![c] = n]], n, ats)

Pop(h, ats) ==
    LET n == Len(h.heap) IN DropLast(Down(Swap(h, 1, n), 1, n - 1, ats))

RemoveAt(h, i, ats) ==
    LET n == Len(h.heap)
        s == Swap(h, i, n)
        d == Down(s, i, n - 1, ats)
    IN  DropLast(IF i = n THEN h ELSE IF d = s THEN Up(s, i, ats) ELSE d)

(* removeTimer. *)
Removed(c) == IF q.m[c] # 0 THEN RemoveAt(q, q.m[c], mt) ELSE q

-----------------------------------------------------------------------------
NewTimer(c) ==
    /\ pc[c] = "none"
    /\ pc' = [pc EXCEPT ![c] = "idle"]
    /\ answer' = [answer EXCEPT ![c] = FALSE]
    /\ UNCHANGED <<now, manVars>>

(* Reset stops the timer, *)
ResetStop(c) ==
    /\ pc[c] = "idle" /\ mu = Free
    /\ q' = Removed(c)
    /\ mt' = [mt EXCEPT ![c] = [Blank EXCEPT !.began = now]]
    /\ pc' = [pc EXCEPT ![c] = "now"]
    /\ UNCHANGED <<now, answer, mu, adv, list, tick>>

(* reads the time and makes a channel, *)
ResetNow(c, d) ==
    /\ pc[c] = "now" /\ mu = Free
    /\ mt' = [mt EXCEPT ![c].at = now + d, ![c].ch = "empty"]
    /\ pc' = [pc EXCEPT ![c] = "add"]
    /\ UNCHANGED <<now, answer, q, mu, adv, list, tick>>

(* Bug: the time may have passed meanwhile. *)
ResetAddBug(c) ==
    /\ pc[c] = "add" /\ mu = Free
    /\ q' = Push(q, c, mt)
    /\ mt' = [mt EXCEPT ![c].began = 0]
    /\ pc' = [pc EXCEPT ![c] = "idle"]
    /\ UNCHANGED <<now, answer, mu, adv, list, tick>>

(* and fires at once or adds the timer to the queue. *)
ResetAdd(c) ==
    /\ pc[c] = "add" /\ mu = Free
    /\ \/ /\ mt[c].at <= now
          /\ mt' = [mt EXCEPT ![c].ch = "full", ![c].began = 0]
          /\ UNCHANGED q
       \/ /\ mt[c].at > now
          /\ q' = Push(q, c, mt)
          /\ mt' = [mt EXCEPT ![c].began = 0]
    /\ pc' = [pc EXCEPT ![c] = "idle"]
    /\ UNCHANGED <<now, answer, mu, adv, list, tick>>

Receive(c) ==
    /\ pc[c] = "idle" /\ mt[c].ch = "full"
    /\ mt' = [mt EXCEPT ![c].ch = "empty"]
    /\ UNCHANGED <<now, pc, answer, q, mu, adv, list, tick>>

Stop(c) ==
    /\ pc[c] = "idle" /\ mu = Free
    /\ answer' = [answer EXCEPT ![c] = q.m[c] # 0]
    /\ q' = Removed(c)
    /\ mt' = [mt EXCEPT ![c] = Blank]
    /\ pc' = [pc EXCEPT ![c] = "none"]
    /\ UNCHANGED <<now, mu, adv, list, tick>>

-----------------------------------------------------------------------------
(* The first tick is due one period from now. *)
NewTicker(k) ==
    /\ tick[k].dur = 0 /\ mu = Free
    /\ \E d \in Durations \ {0} :
         tick' = [tick EXCEPT ![k] = [dur |-> d, next |-> now + d, ch |-> <<>>, last |-> now]]
    /\ list' = Append(list, k)
    /\ UNCHANGED <<now, pc, answer, mt, q, mu, adv>>

StopTicker(k) ==
    /\ mu = Free
    /\ \E i \in DOMAIN list :
         /\ list[i] = k
         /\ list' = SubSeq(list, 1, i - 1) \o SubSeq(list, i + 1, Len(list))
    /\ UNCHANGED <<now, pc, answer, mt, q, mu, adv, tick>>

ReceiveTick(k) ==
    /\ tick[k].ch # <<>>
    /\ tick' = [tick EXCEPT ![k].ch = Tail(@), ![k].last = Head(tick[k].ch)]
    /\ UNCHANGED <<now, pc, answer, mt, q, mu, adv, list>>

-----------------------------------------------------------------------------
(* Advance adds to the time it reads, and calls AdvanceTo. *)
Advance(a) ==
    /\ adv[a].at = "idle" /\ mu = Free
    /\ \E d \in Durations \ {0} :
         /\ now + d <= MaxTime
         /\ adv' = [adv EXCEPT ![a] = [at |-> "to", target |-> now + d, cur |-> 0]]
    /\ UNCHANGED <<now, pc, answer, mt, q, mu, list, tick>>

(* Bug: the time is set whatever it was. *)
AdvanceToBug(a) ==
    /\ adv[a].at = "to" /\ mu = Free
    /\ now' = adv[a].target
    /\ mu' = a
    /\ adv' = [adv EXCEPT ![a].at = "timers"]
    /\ UNCHANGED <<pc, answer, mt, q, list, tick>>

(* AdvanceTo does nothing if the time is not before its argument. *)
AdvanceTo(a) ==
    /\ adv[a].at = "to" /\ mu = Free
    /\ \/ /\ adv[a].target <= now
          /\ adv' = [adv EXCEPT ![a] = Idle]
          /\ UNCHANGED <<now, mu>>
       \/ /\ adv[a].target > now
          /\ now' = adv[a].target
          /\ mu' = a
          /\ adv' = [adv EXCEPT ![a].at = "timers"]
    /\ UNCHANGED <<pc, answer, mt, q, list, tick>>

(* Bug: a timer that is due just now is left. *)
AnyTimerDueBug == q.heap # <<>> /\ mt[q.heap[1]].at < now

AnyTimerDue == q.heap # <<>> /\ mt[q.heap[1]].at <= now

(* It sends to the timers that are due, the earliest first, and so would   *)
(* stop for ever, with mu held, at a channel that is nil or full,          *)
FireTimer(a) ==
    /\ adv[a].at = "timers" /\ AnyTimerDue /\ mt[q.heap[1]].ch = "empty"
    /\ mt' = [mt EXCEPT ![q.heap[1]].ch = "full"]
    /\ q' = Pop(q, mt)
    /\ UNCHANGED <<now, pc, answer, mu, adv, list, tick>>

TimersFired(a) ==
    /\ adv[a].at = "timers" /\ ~AnyTimerDue
    /\ adv' = [adv EXCEPT ![a].at = "tickers", ![a].cur = 1]
    /\ UNCHANGED <<now, pc, answer, mt, q, mu, list, tick>>

TickDue(a) == adv[a].cur \in DOMAIN list /\ tick[list[adv[a].cur]].next <= now

(* Bug: a ticker skips the ticks that it missed but one. *)
SendTickBug(a) ==
    /\ adv[a].at = "tickers" /\ TickDue(a)
    /\ LET k == list[adv[a].cur]
       IN  /\ Len(tick[k].ch) < TickBuffer
           /\ tick' = [tick EXCEPT ![k].ch = Append(@, tick[k].next), ![k].next = now + tick[k].dur]
    /\ UNCHANGED <<now, pc, answer, mt, q, mu, adv, list>>

(* and to every ticker as often as it has become due since.                *)
SendTick(a) ==
    /\ adv[a].at = "tickers" /\ TickDue(a)
    /\ LET k == list[adv[a].cur]
       IN  /\ Len(tick[k].ch) < TickBuffer
           /\ tick' = [tick EXCEPT ![k].ch = Append(@, tick[k].next), ![k].next = @ + tick[k].dur]
    /\ UNCHANGED <<now, pc, answer, mt, q, mu, adv, list>>

(* It panics at a full channel; mu is unlocked on the way. *)
TickPanic(a) ==
    /\ adv[a].at = "tickers" /\ TickDue(a)
    /\ Len(tick[list[adv[a].cur]].ch) = TickBuffer
    /\ adv' = [adv EXCEPT ![a] = Idle]
    /\ mu' = Free
    /\ UNCHANGED <<now, pc, answer, mt, q, list, tick>>

NextTicker(a) ==
    /\ adv[a].at = "tickers" /\ ~TickDue(a) /\ adv[a].cur \in DOMAIN list
    /\ adv' = [adv EXCEPT ![a].cur = @ + 1]
    /\ UNCHANGED <<now, pc, answer, mt, q, mu, list, tick>>

AdvanceReturn(a) ==
    /\ adv[a].at = "tickers" /\ adv[a].cur \notin DOMAIN list
    /\ adv' = [adv EXCEPT ![a] = Idle]
    /\ mu' = Free
    /\ UNCHANGED <<now, pc, answer, mt, q, list, tick>>

-----------------------------------------------------------------------------
Finish(c) == ResetAdd(c) \/ \E d \in Durations : ResetNow(c, d)

Sweep(a) == \/ FireTimer(a) \/ TimersFired(a)
            \/ SendTick(a) \/ TickPanic(a) \/ NextTicker(a) \/ AdvanceReturn(a)

Next ==
    \/ \E c \in Clients : \/ NewTimer(c) \/ ResetStop(c) \/ Finish(c)
                          \/ Receive(c) \/ Stop(c)
    \/ \E k \in Tickers : NewTicker(k) \/ StopTicker(k) \/ ReceiveTick(k)
    \/ \E a \in Advancers : Advance(a) \/ AdvanceTo(a) \/ Sweep(a)

(* A goroutine in a call goes on, and is not starved of mu. *)
Fairness == /\ \A c \in Clients : SF_vars(Finish(c))
            /\ \A a \in Advancers : SF_vars(AdvanceTo(a)) /\ WF_vars(Sweep(a))

-----------------------------------------------------------------------------
InQueue(c) == \E i \in DOMAIN q.heap : q.heap[i] = c

TypeOK ==
    /\ pc \in [Clients -> {"none", "idle", "now", "add"}]
    /\ mt \in [Clients -> [at : 0..2*MaxTime, ch : {"nil", "empty", "full"},
                           began : 0..MaxTime]]
    /\ q \in [heap : Seq(Clients), m : [Clients -> Nat]]
    /\ mu \in Advancers \cup {Free}
    /\ adv \in [Advancers -> [at : {"idle", "to", "timers", "tickers"},
                              target : 0..MaxTime, cur : Nat]]
    /\ list \in Seq(Tickers)
    /\ tick \in [Tickers -> [dur : Durations \cup {0}, next : Nat, ch : Seq(Nat), last : Nat]]
    /\ \A k \in Tickers : Len(tick[k].ch) <= TickBuffer

(* The index says where each timer is in the heap, and what is not there:  *)
(* removeTimer takes out the timer it was asked to, and no other.          *)
QueueIndexed ==
    \A c \in Clients : IF InQueue(c) THEN /\ q.m[c] \in DOMAIN q.heap
                                          /\ q.heap[q.m[c]] = c
                       ELSE q.m[c] = 0

(* AdvanceTo, with mu held, sends to an empty channel. *)
AdvanceNeverBlocks == \A c \in Clients : InQueue(c) => mt[c].ch = "empty"

(* When mu is free, every timer that is due has fired: also one that was   *)
(* being reset while the time went on.                                     *)
FiredByReturn ==
    mu = Free => \A c \in Clients : InQueue(c) => mt[c].at > now

(* A ticker loses no tick, not even when AdvanceTo has panicked: those     *)
(* received, those in its channel and the next follow each other.          *)
TicksComplete ==
    \A k \in Tickers :
        LET all == <<tick[k].last>> \o tick[k].ch \o <<tick[k].next>>
        IN  \A i \in 2..Len(all) : all[i] = all[i - 1] + tick[k].dur

(* The time never goes back, and has passed the argument of an AdvanceTo   *)
(* that is done, whoever else moves it.                                    *)
TimeMoves ==
    [][now' >= now /\ \A a \in Advancers :
          adv[a].at # "idle" /\ adv'[a].at = "idle" => now' >= adv[a].target]_vars

(* What the client sees, for the contract. *)
View == [c \in Clients |->
    IF pc[c] \in {"now", "add"} THEN [state |-> "resetting", due |-> 0, began |-> mt[c].began]
    ELSE [state |-> IF mt[c].ch = "nil" THEN "off"
                    ELSE IF InQueue(c) THEN "armed"
                    ELSE IF mt[c].ch = "full" THEN "ticked" ELSE "read",
          due |-> mt[c].at, began |-> 0]]
=============================================================================
