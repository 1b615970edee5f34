------------------------ MODULE SingleFlight_proofs ------------------------
(***************************************************************************)
(* The safety properties of the group, for any number of callers, keys and *)
(* calls that join a flight.                                               *)
(***************************************************************************)
EXTENDS SingleFlight, SequenceTheorems, TLAPS

Phases == {"fn", "fnDone", "done", "send", "finished", "panicked"}

-----------------------------------------------------------------------------
(* The inductive invariant.                                                *)

(* A caller has a flight exactly if it is in a call; who joined is counted *)
(* and a flight has one leader, which leaves when the function panics.     *)
CallerInv ==
    /\ \A p \in Callers :
          /\ pc[p] = "idle" <=> at[p] = NoFlight
          /\ pc[p] = "wait" => flight[at[p]].callers > 1
          /\ pc[p] = "lead" => flight[at[p]].phase # "panicked"
    /\ \A p, q \in Callers : pc[p] = "lead" /\ pc[q] = "lead" /\ at[p] = at[q] => p = q

CountInv == \A c \in Flights : flight[c].callers = flight[c].dups + 1

(* The value is set when the function has returned, and stays as long as a *)
(* caller may look at it.                                                  *)
ValueInv ==
    /\ \A c \in Flights : flight[c].phase \in {"fnDone", "done", "send"} => flight[c].val = c
    /\ \A p \in Callers :
          at[p] \in Flights /\ flight[at[p]].phase = "finished" => flight[at[p]].val = at[p]

(* What is in the map can be joined.                                       *)
MapInv ==
    \A k \in Keys : m[k] # NoFlight =>
        /\ flight[m[k]].key = k
        /\ flight[m[k]].phase \in {"fn", "fnDone", "done", "panicked"}
        /\ ~flight[m[k]].forgotten

(* A flight whose key is never forgotten stays in the map until it deletes *)
(* itself.                                                                 *)
KeptInv ==
    \A c \in Flights :
        /\ flight[c].forgotten => flight[c].key \in Forgettable
        /\ flight[c].phase \in {"fn", "fnDone", "done"} /\ flight[c].key \notin Forgettable
              => m[flight[c].key] = c

(* Those the flight has still to send to wait for it, each once.           *)
Unsent(c) == flight[c].sent + 1 .. Len(flight[c].chans)

SendInv ==
    \A c \in Flights :
        /\ flight[c].phase = "finished" => flight[c].sent = Len(flight[c].chans)
        /\ \A i \in Unsent(c) :
              LET p == flight[c].chans[i]
              IN  pc[p] = "recv" /\ at[p] = c /\ chan[p] = <<>>
        /\ \A i, j \in Unsent(c) : flight[c].chans[i] = flight[c].chans[j] => i = j

(* A result that is out is faithful, and stays so: no call can join any    *)
(* more, or it is shared already.                                          *)
Settled(r, c) ==
    /\ Faithful(r, c)
    /\ flight[c].phase \in {"done", "send", "finished"}
    /\ flight[c].phase = "done" => flight[c].callers > 1

ResultInv ==
    \A p \in Callers :
        /\ pc[p] = "returned" => Settled(ret[p], at[p])
        /\ chan[p] # <<>> => /\ Len(chan[p]) = 1 /\ pc[p] = "recv"
                             /\ Settled(Head(chan[p]), at[p])

IInv == /\ TypeOK /\ CallerInv /\ CountInv /\ ValueInv /\ MapInv /\ KeptInv
        /\ SendInv /\ ResultInv

-----------------------------------------------------------------------------
(* How the actions change the flights: what is not said stays as it was.   *)
Others(c) == \A d \in Flights : d # c => flight'[d] = flight[d]

(* Flight c keeps who called it, and what it is about.                     *)
Stays(c) ==
    /\ flight'[c].key = flight[c].key /\ flight'[c].dups = flight[c].dups
    /\ flight'[c].chans = flight[c].chans /\ flight'[c].callers = flight[c].callers
    /\ flight'[c].forgotten = flight[c].forgotten

FlightType == flight \in [Flights -> FlightObjects]

LEMMA FieldTypes ==
  ASSUME FlightType, NEW c \in Flights
  PROVE  /\ flight[c].key \in Keys /\ flight[c].phase \in Phases
         /\ flight[c].val \in Flights \cup {NoVal}
         /\ flight[c].dups \in Nat /\ flight[c].chans \in Seq(Callers)
         /\ flight[c].sent \in Nat /\ flight[c].callers \in Nat
         /\ flight[c].forgotten \in BOOLEAN
BY Zenon DEF FlightType, FlightObjects, Phases

LEMMA UnsentCaller ==
  ASSUME FlightType, NEW c \in Flights, NEW i \in Unsent(c)
  PROVE  flight[c].chans[i] \in Callers
<1>1. flight[c].chans \in Seq(Callers) /\ flight[c].sent \in Nat
  BY FieldTypes
<1> QED
  BY <1>1 DEF Unsent

LEMMA OneElement ==
  ASSUME NEW S, NEW s \in Seq(S), Len(s) = 1
  PROVE  Head(s) \in S /\ Tail(s) = <<>>
<1>1. s # <<>>
  OBVIOUS
<1>2. Head(s) \in S /\ Tail(s) \in Seq(S) /\ Len(Tail(s)) = 0
  BY <1>1, HeadTailProperties
<1> QED
  BY <1>2, EmptySeq

LEMMA PhaseStep ==
  ASSUME FlightType, NEW c \in Flights, NEW ph \in Phases,
         flight' = [flight EXCEPT ![c].phase = ph]
  PROVE  /\ FlightType' /\ Others(c) /\ Stays(c)
         /\ flight'[c].phase = ph /\ flight'[c].val = flight[c].val
         /\ flight'[c].sent = flight[c].sent
BY DEF FlightType, FlightObjects, Phases, Others, Stays

LEMMA ReturnStep ==
  ASSUME FlightType, NEW c \in Flights,
         flight' = [flight EXCEPT ![c].val = c, ![c].phase = "fnDone"]
  PROVE  /\ FlightType' /\ Others(c) /\ Stays(c)
         /\ flight'[c].phase = "fnDone" /\ flight'[c].val = c
         /\ flight'[c].sent = flight[c].sent
BY ZenonT(60) DEF FlightType, FlightObjects, Phases, Others, Stays

LEMMA SentStep ==
  ASSUME FlightType, NEW c \in Flights, NEW n \in Nat,
         flight' = [flight EXCEPT ![c].sent = n]
  PROVE  /\ FlightType' /\ Others(c) /\ Stays(c)
         /\ flight'[c].phase = flight[c].phase /\ flight'[c].val = flight[c].val
         /\ flight'[c].sent = n
BY DEF FlightType, FlightObjects, Phases, Others, Stays

LEMMA JoinStep ==
  ASSUME FlightType, NEW c \in Flights, NEW chans \in Seq(Callers),
         flight' = [flight EXCEPT ![c].dups = @ + 1, ![c].callers = @ + 1,
                                  ![c].chans = @ \o chans]
  PROVE  /\ FlightType' /\ Others(c)
         /\ flight'[c].key = flight[c].key /\ flight'[c].phase = flight[c].phase
         /\ flight'[c].val = flight[c].val /\ flight'[c].sent = flight[c].sent
         /\ flight'[c].forgotten = flight[c].forgotten
         /\ flight'[c].dups = flight[c].dups + 1
         /\ flight'[c].callers = flight[c].callers + 1
         /\ flight'[c].chans = flight[c].chans \o chans
BY DEF FlightType, FlightObjects, Phases, Others, Stays

LEMMA NewStep ==
  ASSUME FlightType, NEW c \in Flights, NEW k \in Keys, NEW chans \in Seq(Callers),
         flight' = [flight EXCEPT ![c] = NewFlight(k, chans)]
  PROVE  /\ FlightType' /\ Others(c) /\ flight'[c] = NewFlight(k, chans)
BY DEF FlightType, FlightObjects, Others, NewFlight

LEMMA ForgetStep ==
  ASSUME FlightType, NEW k \in Keys,
         flight' = [c \in Flights |->
                      [flight[c] EXCEPT !.forgotten =
                           @ \/ (Running(c) /\ flight[c].key = k)]]
  PROVE  /\ FlightType'
         /\ \A c \in Flights :
               /\ flight'[c].key = flight[c].key /\ flight'[c].phase = flight[c].phase
               /\ flight'[c].val = flight[c].val /\ flight'[c].sent = flight[c].sent
               /\ flight'[c].dups = flight[c].dups /\ flight'[c].chans = flight[c].chans
               /\ flight'[c].callers = flight[c].callers
               /\ flight'[c].forgotten <=> flight[c].forgotten \/ (Running(c) /\ flight[c].key = k)
BY ZenonT(60) DEF FlightType, FlightObjects, Phases

-----------------------------------------------------------------------------
(* A flight goes on in doCall: nothing the callers rely on is lost.        *)
Advances(c) ==
    /\ FlightType' /\ Others(c) /\ Stays(c)
    /\ flight'[c].sent = flight[c].sent /\ flight'[c].val = c
    /\ \/ flight[c].phase = "fn" /\ flight'[c].phase = "fnDone"
       \/ flight[c].phase = "fnDone" /\ flight'[c].phase = "done"
       \/ flight[c].phase = "done" /\ flight'[c].phase = "send"
       \/ /\ flight[c].phase = "send" /\ flight'[c].phase = "finished"
          /\ flight[c].sent = Len(flight[c].chans)
    /\ UNCHANGED <<pc, at, chan, ret>>

LEMMA AdvanceKeeps ==
  ASSUME IInv, NEW c \in Flights, Advances(c)
  PROVE  CallerInv' /\ CountInv' /\ ValueInv' /\ SendInv' /\ ResultInv'
<1>1. CallerInv'
  BY DEF IInv, TypeOK, CallerInv, Advances, Others, Stays
<1>2. CountInv'
  BY DEF IInv, CountInv, Advances, Others, Stays
<1>3. ValueInv'
  BY ZenonT(60) DEF IInv, TypeOK, ValueInv, Advances, Others, Stays
<1>4. SendInv'
  BY SMTT(60) DEF IInv, TypeOK, SendInv, Unsent, Advances, Others, Stays
<1>5. ASSUME NEW p \in Callers, at[p] \in Flights,
             flight[at[p]].phase \in {"done", "send", "finished"},
             flight[at[p]].phase = "done" => flight[at[p]].callers > 1
      PROVE  /\ flight'[at[p]].phase \in {"done", "send", "finished"}
             /\ flight'[at[p]].phase = "done" => flight'[at[p]].callers > 1
             /\ flight'[at[p]].val = flight[at[p]].val
             /\ flight'[at[p]].callers = flight[at[p]].callers
  <2>1. CASE at[p] # c
    BY <1>5, <2>1 DEF Advances, Others
  <2>2. CASE at[p] = c
    <3>1. flight[c].val = c
      BY <1>5, <2>2 DEF IInv, ValueInv
    <3> QED
      BY <1>5, <2>2, <3>1 DEF Advances, Stays
  <2> QED
    BY <2>1, <2>2
<1>6. ASSUME NEW p \in Callers, pc[p] \in {"returned", "recv"}
      PROVE  at[p] \in Flights
  BY <1>6 DEF IInv, TypeOK, CallerInv
<1>7. ASSUME NEW p \in Callers, pc'[p] = "returned"
      PROVE  Settled(ret[p], at[p])'
  <2>1. Settled(ret[p], at[p]) /\ at[p] \in Flights /\ at' = at /\ ret' = ret
    BY <1>6, <1>7 DEF IInv, ResultInv, Advances
  <2> QED
    BY <1>5, <2>1 DEF Settled, Faithful
<1>8. ASSUME NEW p \in Callers, chan'[p] # <<>>
      PROVE  /\ Len(chan'[p]) = 1 /\ pc'[p] = "recv"
             /\ Settled(Head(chan[p]), at[p])'
  <2>1. /\ Len(chan[p]) = 1 /\ pc[p] = "recv" /\ Settled(Head(chan[p]), at[p])
        /\ at[p] \in Flights /\ at' = at /\ chan' = chan /\ pc' = pc
    BY <1>6, <1>8 DEF IInv, ResultInv, Advances
  <2> QED
    BY <1>5, <2>1 DEF Settled, Faithful
<1>9. ResultInv'
  BY <1>7, <1>8 DEF ResultInv
<1> QED
  BY <1>1, <1>2, <1>3, <1>4, <1>9

LEMMA FnReturnInv == ASSUME IInv, NEW c \in Flights, FnReturn(c) PROVE IInv'
<1>1. Advances(c)
  BY ReturnStep DEF IInv, TypeOK, FnReturn, Advances, FlightType
<1>2. TypeOK'
  BY <1>1 DEF IInv, TypeOK, FnReturn, Advances, FlightType
<1>3. MapInv' /\ KeptInv'
  BY <1>1 DEF IInv, TypeOK, MapInv, KeptInv, FnReturn, Advances, Others, Stays
<1> QED
  BY <1>1, <1>2, <1>3, AdvanceKeeps DEF IInv

LEMMA SignalDoneInv == ASSUME IInv, NEW c \in Flights, SignalDone(c) PROVE IInv'
<1>1. Advances(c)
  BY PhaseStep DEF IInv, TypeOK, ValueInv, SignalDone, Advances, FlightType, Phases
<1>2. TypeOK'
  BY <1>1 DEF IInv, TypeOK, SignalDone, Advances, FlightType
<1>3. MapInv' /\ KeptInv'
  BY <1>1 DEF IInv, TypeOK, MapInv, KeptInv, SignalDone, Advances, Others, Stays
<1> QED
  BY <1>1, <1>2, <1>3, AdvanceKeeps DEF IInv

LEMMA EndCallInv == ASSUME IInv, NEW c \in Flights, EndCall(c) PROVE IInv'
<1>1. Advances(c)
  BY PhaseStep DEF IInv, TypeOK, ValueInv, EndCall, Advances, FlightType, Phases
<1>2. TypeOK'
  BY <1>1 DEF IInv, TypeOK, EndCall, Advances, FlightType
<1>3. MapInv' /\ KeptInv'
  BY <1>1 DEF IInv, TypeOK, MapInv, KeptInv, EndCall, Advances, Others, Stays
<1> QED
  BY <1>1, <1>2, <1>3, AdvanceKeeps DEF IInv

(* The flight deletes its own key, unless Forget was called for the key.   *)
LEMMA DeleteInv == ASSUME IInv, NEW c \in Flights, Delete(c) PROVE IInv'
<1>1. Advances(c)
  BY PhaseStep DEF IInv, TypeOK, ValueInv, Delete, Advances, FlightType, Phases
<1>k. flight[c].key \in Keys
  BY FieldTypes DEF IInv, TypeOK, FlightType
<1>2. TypeOK'
  BY <1>1, <1>k DEF IInv, TypeOK, Delete, Advances, FlightType
<1>3. MapInv'
  BY <1>1, <1>k, FlightAssumption DEF IInv, TypeOK, MapInv, Delete, Advances, Others, Stays
<1>4. KeptInv'
  BY <1>1, <1>k, FlightAssumption DEF IInv, TypeOK, KeptInv, Delete, Advances, Others, Stays
<1> QED
  BY <1>1, <1>2, <1>3, <1>4, AdvanceKeeps DEF IInv


-----------------------------------------------------------------------------
(* The result a flight gives is faithful from the moment it sends.         *)
LEMMA SendInvKept == ASSUME IInv, NEW c \in Flights, Send(c) PROVE IInv'
<1> DEFINE i == flight[c].sent + 1
           v == flight[c].val
           b == (flight[c].dups > 0)
           r == [from |-> c, val |-> v, shared |-> b]
<1>1. /\ flight[c].sent \in Nat /\ flight[c].chans \in Seq(Callers)
      /\ flight[c].dups \in Nat /\ FlightType
  BY FieldTypes DEF IInv, TypeOK, FlightType
<1>p. PICK p \in Callers : p = flight[c].chans[i]
  BY <1>1 DEF Send
<1>2. /\ flight[c].phase = "send" /\ i \in Unsent(c) /\ i \in Nat
      /\ chan' = [chan EXCEPT ![p] = <<r>>] /\ flight' = [flight EXCEPT ![c].sent = i]
      /\ UNCHANGED <<m, mu, pc, at, ret>>
  BY <1>1, <1>p DEF Send, Unsent
<1>3. /\ FlightType' /\ Others(c) /\ Stays(c) /\ flight'[c].sent = i
      /\ flight'[c].phase = "send" /\ flight'[c].val = v
  BY <1>1, <1>2, SentStep
<1>4. v = c /\ b \in BOOLEAN /\ (b <=> flight[c].callers > 1)
  BY <1>1, <1>2 DEF IInv, ValueInv, CountInv
<1>5. pc[p] = "recv" /\ at[p] = c /\ chan[p] = <<>>
  BY <1>2, <1>p DEF IInv, SendInv
<1> HIDE DEF i, v, b
<1>6. TypeOK'
  <2>1. r \in Rets
    BY <1>4 DEF Rets
  <2> HIDE DEF r
  <2>2. chan' \in [Callers -> Seq(Rets)]
    BY <1>2, <2>1 DEF IInv, TypeOK
  <2> QED
    BY <1>2, <1>3, <2>2 DEF IInv, TypeOK, FlightType
<1>7. CallerInv' /\ CountInv'
  BY <1>2, <1>3 DEF IInv, TypeOK, CallerInv, CountInv, Others, Stays
<1>8. ValueInv'
  BY <1>2, <1>3 DEF IInv, TypeOK, ValueInv, Others, Stays
<1>9. MapInv' /\ KeptInv'
  BY <1>2, <1>3 DEF IInv, TypeOK, MapInv, KeptInv, Others, Stays
<1>10. SendInv'
  <2>1. ASSUME NEW d \in Flights, NEW j \in Unsent(d)'
        PROVE  /\ j \in Unsent(d) /\ flight'[d].chans[j] = flight[d].chans[j]
               /\ flight[d].chans[j] # p
    <3>1. j \in Unsent(d) /\ flight'[d].chans[j] = flight[d].chans[j] /\ (d = c => j # i)
      BY <1>1, <1>2, <1>3, <2>1 DEF Unsent, Others, Stays, i
    <3>2. CASE d = c
      BY <1>2, <1>p, <3>1, <3>2 DEF IInv, SendInv
    <3>3. CASE d # c
      BY <1>5, <3>1, <3>3 DEF IInv, SendInv
    <3> QED
      BY <3>1, <3>2, <3>3
  <2>2. ASSUME NEW d \in Flights, flight'[d].phase = "finished"
        PROVE  flight'[d].sent = Len(flight'[d].chans)
    BY <1>3, <2>2 DEF IInv, SendInv, Others
  <2>3. ASSUME NEW d \in Flights, NEW j \in Unsent(d)'
        PROVE  LET q == flight'[d].chans[j]
               IN  pc'[q] = "recv" /\ at'[q] = d /\ chan'[q] = <<>>
    <3> DEFINE q == flight[d].chans[j]
    <3>1. flight'[d].chans[j] = q /\ q # p /\ j \in Unsent(d)
      BY <2>1, <2>3
    <3>2. pc[q] = "recv" /\ at[q] = d /\ chan[q] = <<>>
      BY <3>1 DEF IInv, SendInv
    <3> HIDE DEF q
    <3>3. chan'[q] = chan[q]
      BY <1>2, <3>1 DEF IInv, TypeOK
    <3> QED
      BY <1>2, <3>1, <3>2, <3>3
  <2>4. ASSUME NEW d \in Flights, NEW j \in Unsent(d)', NEW l \in Unsent(d)',
               flight'[d].chans[j] = flight'[d].chans[l]
        PROVE  j = l
    BY <2>1, <2>4 DEF IInv, SendInv
  <2> QED
    BY <2>2, <2>3, <2>4 DEF SendInv
<1>11. ResultInv'
  <2>1. ASSUME NEW q \in Callers, at[q] \in Flights
        PROVE  /\ flight'[at[q]].val = flight[at[q]].val
               /\ flight'[at[q]].callers = flight[at[q]].callers
               /\ flight'[at[q]].phase = flight[at[q]].phase
    BY <1>2, <1>3, <2>1 DEF Others, Stays
  <2>2. ASSUME NEW q \in Callers, pc[q] \in {"returned", "recv"}
        PROVE  at[q] \in Flights
    BY <2>2 DEF IInv, TypeOK, CallerInv
  <2>3. ASSUME NEW q \in Callers, pc'[q] = "returned"
        PROVE  Settled(ret[q], at[q])'
    <3>1. Settled(ret[q], at[q]) /\ at[q] \in Flights /\ at' = at /\ ret' = ret
      BY <1>2, <2>2, <2>3 DEF IInv, ResultInv
    <3> QED
      BY <2>1, <3>1 DEF Settled, Faithful
  <2>4. ASSUME NEW q \in Callers, chan'[q] # <<>>, q # p
        PROVE  Len(chan'[q]) = 1 /\ pc'[q] = "recv" /\ Settled(Head(chan[q]), at[q])'
    <3> HIDE DEF r
    <3>0. chan'[q] = chan[q]
      BY <1>2, <2>4 DEF IInv, TypeOK
    <3>1. /\ Len(chan[q]) = 1 /\ pc[q] = "recv" /\ Settled(Head(chan[q]), at[q])
          /\ at[q] \in Flights /\ at' = at
      BY <1>2, <2>2, <2>4, <3>0 DEF IInv, ResultInv
    <3> QED
      BY <1>2, <2>1, <3>0, <3>1 DEF Settled, Faithful
  <2>5. Len(chan'[p]) = 1 /\ pc'[p] = "recv" /\ Settled(Head(chan[p]), at[p])'
    <3>1. r.val = v /\ r.shared = b
      OBVIOUS
    <3> HIDE DEF r
    <3>2. pc'[p] = "recv" /\ at'[p] = c
      BY <1>2, <1>5 DEF IInv, TypeOK
    <3>3. Head(chan'[p]) = r /\ Len(chan'[p]) = 1
      BY <1>2 DEF IInv, TypeOK
    <3>4. /\ r.val = flight'[c].val /\ r.val # NoVal
          /\ r.shared <=> flight'[c].callers > 1
          /\ flight'[c].phase = "send"
      BY <1>3, <1>4, <3>1, FlightAssumption DEF Stays
    <3>5. Settled(Head(chan[p]), at[p])'
      BY <3>2, <3>3, <3>4 DEF Settled, Faithful
    <3> QED
      BY <3>2, <3>3, <3>5
  <2>6. ASSUME NEW q \in Callers, chan'[q] # <<>>
        PROVE  Len(chan'[q]) = 1 /\ pc'[q] = "recv" /\ Settled(Head(chan[q]), at[q])'
    <3>1. CASE q = p
      BY <2>5, <3>1
    <3>2. CASE q # p
      BY <2>4, <2>6, <3>2
    <3> QED
      BY <3>1, <3>2
  <2> QED
    BY <2>3, <2>6 DEF ResultInv
<1> QED
  BY <1>6, <1>7, <1>8, <1>9, <1>10, <1>11 DEF IInv

-----------------------------------------------------------------------------
(* A caller is given a result that is settled, and then uses it.           *)
Given(p) ==
    /\ pc[p] \in {"wait", "lead", "recv"}
    /\ pc' = [pc EXCEPT ![p] = "returned"]
    /\ ret' \in [Callers -> Rets] /\ Settled(ret'[p], at[p])
    /\ \A q \in Callers \ {p} : ret'[q] = ret[q] /\ chan'[q] = chan[q]
    /\ chan' \in [Callers -> Seq(Rets)] /\ chan'[p] = <<>>
    /\ \A c \in Flights : \A i \in Unsent(c) : flight[c].chans[i] # p
    /\ UNCHANGED <<m, mu, flight, at>>

LEMMA GivenInv == ASSUME IInv, NEW p \in Callers, Given(p) PROVE IInv'
<1>0. /\ pc' \in [Callers -> {"idle", "wait", "lead", "recv", "returned"}]
      /\ pc'[p] = "returned" /\ \A q \in Callers \ {p} : pc'[q] = pc[q]
      /\ m' = m /\ mu' = mu /\ flight' = flight /\ at' = at
  BY DEF Given, IInv, TypeOK
<1>1. TypeOK'
  BY <1>0 DEF Given, IInv, TypeOK
<1>2. CallerInv'
  BY <1>0 DEF Given, IInv, CallerInv
<1>3. CountInv' /\ ValueInv' /\ MapInv' /\ KeptInv'
  BY <1>0 DEF IInv, CountInv, ValueInv, MapInv, KeptInv
<1>4. SendInv'
  <2>1. ASSUME NEW d \in Flights, NEW j \in Unsent(d)
        PROVE  LET q == flight[d].chans[j]
               IN  pc'[q] = "recv" /\ at'[q] = d /\ chan'[q] = <<>>
    <3> DEFINE q == flight[d].chans[j]
    <3>1. pc[q] = "recv" /\ at[q] = d /\ chan[q] = <<>> /\ q # p
      BY <2>1 DEF IInv, SendInv, Given
    <3>2. q \in Callers
      BY <2>1, UnsentCaller DEF IInv, TypeOK, FlightType
    <3> HIDE DEF q
    <3>3. pc'[q] = "recv" /\ at'[q] = d /\ chan'[q] = <<>>
      BY <1>0, <3>1, <3>2 DEF Given
    <3> QED
      BY <3>3 DEF q
  <2> QED
    BY <1>0, <2>1 DEF IInv, SendInv, Unsent
<1>5. ResultInv'
  <2>1. Settled(ret[p], at[p])'
    BY <1>0 DEF Given, Settled, Faithful
  <2>2. ASSUME NEW q \in Callers \ {p}, pc[q] = "returned"
        PROVE  Settled(ret[q], at[q])'
    <3>1. Settled(ret[q], at[q]) /\ ret'[q] = ret[q]
      BY <2>2 DEF IInv, ResultInv, Given
    <3> QED
      BY <1>0, <3>1 DEF Settled, Faithful
  <2>3. ASSUME NEW q \in Callers \ {p}, chan[q] # <<>>
        PROVE  Len(chan'[q]) = 1 /\ pc'[q] = "recv" /\ Settled(Head(chan[q]), at[q])'
    <3>1. /\ Len(chan[q]) = 1 /\ pc[q] = "recv" /\ Settled(Head(chan[q]), at[q])
          /\ chan'[q] = chan[q]
      BY <2>3 DEF IInv, ResultInv, Given
    <3> QED
      BY <1>0, <3>1 DEF Settled, Faithful
  <2>4. ASSUME NEW q \in Callers, pc'[q] = "returned"
        PROVE  Settled(ret[q], at[q])'
    <3>1. CASE q = p
      BY <2>1, <3>1
    <3>2. CASE q # p
      BY <1>0, <2>2, <2>4, <3>2
    <3> QED
      BY <3>1, <3>2
  <2>5. ASSUME NEW q \in Callers, chan'[q] # <<>>
        PROVE  Len(chan'[q]) = 1 /\ pc'[q] = "recv" /\ Settled(Head(chan[q]), at[q])'
    <3>1. q # p /\ chan[q] # <<>>
      BY <2>5 DEF Given
    <3> QED
      BY <2>3, <3>1
  <2> QED
    BY <2>4, <2>5 DEF ResultInv
<1> QED
  BY <1>1, <1>2, <1>3, <1>4, <1>5 DEF IInv

LEMMA WaitReturnInv == ASSUME IInv, NEW p \in Callers, WaitReturn(p) PROVE IInv'
<1> DEFINE v == flight[at[p]].val
           r == [from |-> at[p], val |-> v, shared |-> TRUE]
<1>1. /\ at[p] \in Flights /\ v = at[p] /\ flight[at[p]].callers > 1
      /\ flight[at[p]].phase \in {"done", "send", "finished"}
  BY DEF IInv, TypeOK, CallerInv, ValueInv, WaitReturn, WgDone
<1>2. pc[p] = "wait" /\ chan[p] = <<>>
  BY DEF IInv, ResultInv, WaitReturn
<1>3. \A c \in Flights : \A i \in Unsent(c) : flight[c].chans[i] # p
  BY <1>2 DEF IInv, SendInv
<1>4. ret' = [ret EXCEPT ![p] = r] /\ pc' = [pc EXCEPT ![p] = "returned"]
  BY DEF WaitReturn, Give
<1>5. r \in Rets /\ Settled(r, at[p])
  BY <1>1, FlightAssumption DEF Rets, Settled, Faithful
<1> HIDE DEF r
<1>6. Given(p)
  BY <1>2, <1>3, <1>4, <1>5 DEF Given, WaitReturn, IInv, TypeOK
<1> QED
  BY <1>6, GivenInv

LEMMA LeadReturnInv == ASSUME IInv, NEW p \in Callers, LeadReturn(p) PROVE IInv'
<1> DEFINE v == flight[at[p]].val
           b == (flight[at[p]].dups > 0)
           r == [from |-> at[p], val |-> v, shared |-> b]
<1>0. at[p] \in Flights /\ pc[p] = "lead" /\ ~Running(at[p])
  BY DEF IInv, TypeOK, CallerInv, LeadReturn
<1>1. v = at[p] /\ flight[at[p]].phase = "finished"
  BY <1>0 DEF IInv, CallerInv, ValueInv, Running
<1>2. b \in BOOLEAN /\ (b <=> flight[at[p]].callers > 1)
  BY <1>0, FieldTypes DEF IInv, TypeOK, FlightType, CountInv
<1>3. chan[p] = <<>>
  BY <1>0 DEF IInv, ResultInv
<1>4. \A c \in Flights : \A i \in Unsent(c) : flight[c].chans[i] # p
  BY <1>0 DEF IInv, SendInv
<1>5. ret' = [ret EXCEPT ![p] = r] /\ pc' = [pc EXCEPT ![p] = "returned"]
  BY DEF LeadReturn, Give
<1> HIDE DEF b, v
<1>6. r \in Rets
  BY <1>0, <1>1, <1>2 DEF Rets
<1>7. Settled(r, at[p])
  BY <1>0, <1>1, <1>2, FlightAssumption DEF Settled, Faithful, v
<1> HIDE DEF r
<1>8. Given(p)
  BY <1>0, <1>3, <1>4, <1>5, <1>6, <1>7 DEF Given, LeadReturn, IInv, TypeOK
<1> QED
  BY <1>8, GivenInv

LEMMA ReceiveInv == ASSUME IInv, NEW p \in Callers, Receive(p) PROVE IInv'
<1> DEFINE r == Head(chan[p])
<1>1. /\ pc[p] = "recv" /\ chan[p] # <<>> /\ Len(chan[p]) = 1 /\ chan[p] \in Seq(Rets)
      /\ Settled(r, at[p])
  BY DEF IInv, TypeOK, ResultInv, Receive
<1>2. r \in Rets /\ Tail(chan[p]) = <<>>
  BY <1>1, OneElement
<1>3. \A c \in Flights : \A i \in Unsent(c) : flight[c].chans[i] # p
  BY <1>1 DEF IInv, SendInv
<1>4. /\ ret' = [ret EXCEPT ![p] = r] /\ pc' = [pc EXCEPT ![p] = "returned"]
      /\ chan' = [chan EXCEPT ![p] = <<>>]
  BY <1>2 DEF Receive, Give
<1> HIDE DEF r
<1>5. Given(p)
  BY <1>1, <1>2, <1>3, <1>4 DEF Given, Receive, IInv, TypeOK
<1> QED
  BY <1>5, GivenInv

-----------------------------------------------------------------------------
(* A caller leaves; what the others were given stays.                      *)
LEMMA LeaveInv == ASSUME IInv, NEW p \in Callers, Leave(p) PROVE IInv'
<1>0. /\ pc[p] = "returned" /\ pc' = [pc EXCEPT ![p] = "idle"]
      /\ at' = [at EXCEPT ![p] = NoFlight] /\ ret' = [ret EXCEPT ![p] = NoRet]
      /\ m' = m /\ mu' = mu /\ flight' = flight /\ chan' = chan
  BY DEF Leave
<1>1. TypeOK'
  <2>1. NoRet \in Rets
    BY DEF NoRet, Rets
  <2> QED
    BY <1>0, <2>1 DEF IInv, TypeOK
<1>2. CallerInv' /\ ValueInv'
  BY <1>0, FlightAssumption DEF IInv, TypeOK, CallerInv, ValueInv
<1>3. CountInv' /\ MapInv' /\ KeptInv'
  BY <1>0 DEF IInv, CountInv, MapInv, KeptInv
<1>4. SendInv'
  <2>1. ASSUME NEW d \in Flights, NEW j \in Unsent(d)
        PROVE  LET q == flight[d].chans[j]
               IN  pc'[q] = "recv" /\ at'[q] = d /\ chan'[q] = <<>>
    <3>1. PICK q \in Callers : q = flight[d].chans[j]
      BY UnsentCaller, <2>1 DEF IInv, TypeOK, FlightType
    <3>2. pc[q] = "recv" /\ at[q] = d /\ chan[q] = <<>>
      BY <3>1, <2>1 DEF IInv, SendInv
    <3>3. pc'[q] = "recv" /\ at'[q] = d /\ chan'[q] = <<>>
      BY <1>0, <3>2 DEF IInv, TypeOK
    <3> QED
      BY <3>1, <3>3
  <2> QED
    BY <1>0, <2>1 DEF IInv, SendInv, Unsent
<1>5. ResultInv'
  <2>1. ASSUME NEW q \in Callers, pc'[q] = "returned"
        PROVE  Settled(ret[q], at[q])'
    <3>1. q # p /\ pc[q] = "returned"
      BY <1>0, <2>1 DEF IInv, TypeOK
    <3>2. Settled(ret[q], at[q]) /\ ret'[q] = ret[q] /\ at'[q] = at[q]
      BY <1>0, <3>1 DEF IInv, TypeOK, ResultInv
    <3> QED
      BY <1>0, <3>2 DEF Settled, Faithful
  <2>2. ASSUME NEW q \in Callers, chan'[q] # <<>>
        PROVE  Len(chan'[q]) = 1 /\ pc'[q] = "recv" /\ Settled(Head(chan[q]), at[q])'
    <3>1. Len(chan[q]) = 1 /\ pc[q] = "recv" /\ Settled(Head(chan[q]), at[q])
      BY <1>0, <2>2 DEF IInv, ResultInv
    <3>2. q # p /\ at'[q] = at[q] /\ pc'[q] = pc[q]
      BY <1>0, <3>1 DEF IInv, TypeOK
    <3> QED
      BY <1>0, <3>1, <3>2 DEF Settled, Faithful
  <2> QED
    BY <2>1, <2>2 DEF ResultInv
<1> QED
  BY <1>1, <1>2, <1>3, <1>4, <1>5 DEF IInv

(* Only the leader leaves the flight whose function panicked, and nobody   *)
(* was given a result of it.                                               *)
LEMMA FnPanicInv == ASSUME IInv, NEW p \in Callers, FnPanic(p) PROVE IInv'
<1> DEFINE c == at[p]
<1>0. /\ pc[p] = "lead" /\ c \in Flights /\ flight[c].phase = "fn"
      /\ pc' = [pc EXCEPT ![p] = "idle"] /\ at' = [at EXCEPT ![p] = NoFlight]
      /\ flight' = [flight EXCEPT ![c].phase = "panicked"]
      /\ m' = m /\ mu' = mu /\ chan' = chan /\ ret' = ret
  BY DEF FnPanic, IInv, TypeOK, CallerInv
<1> HIDE DEF c
<1>1. /\ FlightType' /\ Others(c) /\ Stays(c) /\ flight'[c].phase = "panicked"
      /\ flight'[c].val = flight[c].val /\ flight'[c].sent = flight[c].sent
  BY <1>0, PhaseStep DEF IInv, TypeOK, FlightType, Phases
<1>2. TypeOK'
  BY <1>0, <1>1 DEF IInv, TypeOK, FlightType
<1>3. CallerInv'
  BY <1>0, <1>1 DEF IInv, TypeOK, CallerInv, Others, Stays, c
<1>4. CountInv' /\ ValueInv'
  BY <1>0, <1>1, FlightAssumption DEF IInv, TypeOK, CountInv, ValueInv, Others, Stays
<1>5. MapInv' /\ KeptInv'
  BY <1>0, <1>1 DEF IInv, TypeOK, MapInv, KeptInv, Others, Stays
<1>6. SendInv'
  <2>1. ASSUME NEW d \in Flights, NEW j \in Unsent(d)
        PROVE  LET q == flight[d].chans[j]
               IN  pc'[q] = "recv" /\ at'[q] = d /\ chan'[q] = <<>>
    <3>1. PICK q \in Callers : q = flight[d].chans[j]
      BY UnsentCaller, <2>1 DEF IInv, TypeOK, FlightType
    <3>2. pc[q] = "recv" /\ at[q] = d /\ chan[q] = <<>>
      BY <3>1, <2>1 DEF IInv, SendInv
    <3>3. pc'[q] = "recv" /\ at'[q] = d /\ chan'[q] = <<>>
      BY <1>0, <3>2 DEF IInv, TypeOK
    <3> QED
      BY <3>1, <3>3
  <2>2. ASSUME NEW d \in Flights
        PROVE  /\ flight'[d].chans = flight[d].chans /\ flight'[d].sent = flight[d].sent
               /\ flight'[d].phase = "finished" => flight[d].phase = "finished"
    BY <1>1 DEF Others, Stays
  <2> QED
    BY <2>1, <2>2 DEF IInv, SendInv, Unsent
<1>7. ResultInv'
  <2>1. ASSUME NEW q \in Callers, pc'[q] = "returned"
        PROVE  Settled(ret[q], at[q])'
    <3>1. q # p /\ pc[q] = "returned"
      BY <1>0, <2>1 DEF IInv, TypeOK
    <3>2. /\ Settled(ret[q], at[q]) /\ ret'[q] = ret[q] /\ at'[q] = at[q]
          /\ at[q] \in Flights
      BY <1>0, <3>1 DEF IInv, TypeOK, CallerInv, ResultInv
    <3>3. flight'[at[q]] = flight[at[q]]
      BY <1>0, <1>1, <3>2 DEF Settled, Others
    <3> QED
      BY <3>2, <3>3 DEF Settled, Faithful
  <2>2. ASSUME NEW q \in Callers, chan'[q] # <<>>
        PROVE  Len(chan'[q]) = 1 /\ pc'[q] = "recv" /\ Settled(Head(chan[q]), at[q])'
    <3>1. Len(chan[q]) = 1 /\ pc[q] = "recv" /\ Settled(Head(chan[q]), at[q])
      BY <1>0, <2>2 DEF IInv, ResultInv
    <3>2. q # p /\ at'[q] = at[q] /\ pc'[q] = pc[q] /\ at[q] \in Flights
      BY <1>0, <3>1 DEF IInv, TypeOK, CallerInv
    <3>3. flight'[at[q]] = flight[at[q]]
      BY <1>0, <1>1, <3>1, <3>2 DEF Settled, Others
    <3> QED
      BY <1>0, <3>1, <3>2, <3>3 DEF Settled, Faithful
  <2> QED
    BY <2>1, <2>2 DEF ResultInv
<1> QED
  BY <1>2, <1>3, <1>4, <1>5, <1>6, <1>7 DEF IInv

LEMMA ForgetInv == ASSUME IInv, NEW p \in Callers, Forget(p) PROVE IInv'
<1>1. PICK k \in Forgettable :
        /\ m' = [m EXCEPT ![k] = NoFlight]
        /\ flight' = [c \in Flights |->
                        [flight[c] EXCEPT !.forgotten =
                             @ \/ (Running(c) /\ flight[c].key = k)]]
  BY DEF Forget
<1>2. k \in Keys /\ mu' = mu /\ pc' = pc /\ at' = at /\ chan' = chan /\ ret' = ret
  BY FlightAssumption DEF Forget
<1>3. /\ FlightType'
      /\ \A c \in Flights :
            /\ flight'[c].key = flight[c].key /\ flight'[c].phase = flight[c].phase
            /\ flight'[c].val = flight[c].val /\ flight'[c].sent = flight[c].sent
            /\ flight'[c].dups = flight[c].dups /\ flight'[c].chans = flight[c].chans
            /\ flight'[c].callers = flight[c].callers
            /\ flight'[c].forgotten <=> flight[c].forgotten \/ (Running(c) /\ flight[c].key = k)
  BY <1>1, <1>2, ForgetStep DEF IInv, TypeOK, FlightType
<1>4. TypeOK'
  BY <1>1, <1>2, <1>3 DEF IInv, TypeOK, FlightType
<1>5. CallerInv' /\ CountInv' /\ ValueInv'
  <2>1. CallerInv'
    BY <1>2, <1>3, SMTT(60) DEF IInv, TypeOK, CallerInv
  <2>2. CountInv'
    BY <1>3 DEF IInv, CountInv
  <2>3. ASSUME NEW q \in Callers, at[q] \in Flights, flight'[at[q]].phase = "finished"
        PROVE  flight'[at[q]].val = at[q]
    <3>1. flight[at[q]].phase = "finished" /\ flight'[at[q]].val = flight[at[q]].val
      BY <1>3, <2>3
    <3> QED
      BY <2>3, <3>1 DEF IInv, ValueInv
  <2>4. \A c \in Flights :
           flight'[c].phase \in {"fnDone", "done", "send"} => flight'[c].val = c
    BY <1>3 DEF IInv, ValueInv
  <2>5. ValueInv'
    BY <1>2, <2>3, <2>4 DEF ValueInv
  <2> QED
    BY <2>1, <2>2, <2>5
<1>6. MapInv'
  <2>1. ASSUME NEW j \in Keys, m'[j] # NoFlight
        PROVE  m'[j] = m[j] /\ m[j] \in Flights /\ j # k
    BY <1>1, <2>1 DEF IInv, TypeOK
  <2> QED
    BY <1>3, <2>1 DEF IInv, MapInv
<1>7. KeptInv'
  <2>1. ASSUME NEW c \in Flights
        PROVE  flight'[c].forgotten => flight'[c].key \in Forgettable
    BY <1>3, <2>1 DEF IInv, KeptInv
  <2>2. ASSUME NEW c \in Flights, flight[c].phase \in {"fn", "fnDone", "done"},
               flight[c].key \notin Forgettable
        PROVE  m'[flight[c].key] = c
    <3>1. m[flight[c].key] = c /\ flight[c].key # k /\ flight[c].key \in Keys
      BY FieldTypes, <2>2 DEF IInv, TypeOK, FlightType, KeptInv
    <3> QED
      BY <1>1, <3>1 DEF IInv, TypeOK
  <2> QED
    BY <1>3, <2>1, <2>2 DEF KeptInv
<1>8. SendInv'
  BY <1>2, <1>3 DEF IInv, SendInv, Unsent
<1>9. ResultInv'
  <2>1. ASSUME NEW q \in Callers, pc[q] \in {"returned", "recv"}
        PROVE  at[q] \in Flights
    BY <2>1 DEF IInv, TypeOK, CallerInv
  <2> QED
    BY <1>2, <1>3, <2>1 DEF IInv, ResultInv, Settled, Faithful
<1> QED
  BY <1>4, <1>5, <1>6, <1>7, <1>8, <1>9 DEF IInv

-----------------------------------------------------------------------------
(* A call enters: it joins the flight of the map, or starts one.  chans is *)
(* empty or the caller's own channel.                                      *)
Channel(p, chans, to) == chans = <<>> \/ (chans = <<p>> /\ to = "recv")

Entered(p, c, to) ==
    /\ pc[p] = "idle" /\ pc' = [pc EXCEPT ![p] = to]
    /\ at' = [at EXCEPT ![p] = c]
    /\ mu' = mu /\ chan' = chan /\ ret' = ret

Joins(p, k, chans, to) ==
    /\ m[k] # NoFlight
    /\ flight' = [flight EXCEPT ![m[k]].dups = @ + 1, ![m[k]].callers = @ + 1,
                                ![m[k]].chans = @ \o chans]
    /\ Entered(p, m[k], to) /\ m' = m

Starts(p, k, c, chans, to) ==
    /\ m[k] = NoFlight /\ Unused(c)
    /\ flight' = [flight EXCEPT ![c] = NewFlight(k, chans)]
    /\ m' = [m EXCEPT ![k] = c]
    /\ Entered(p, c, to)

(* Those a flight has still to send to are the same ones, and perhaps the  *)
(* caller that enters.                                                     *)
LEMMA EnteredSendInv ==
  ASSUME IInv, NEW p \in Callers, NEW c \in Flights, NEW to, Entered(p, c, to), Others(c),
         flight'[c].phase # "finished",
         \A i \in Unsent(c)' :
            \/ i \in Unsent(c) /\ flight'[c].chans[i] = flight[c].chans[i]
            \/ i = Len(flight'[c].chans) /\ flight'[c].chans[i] = p /\ to = "recv"
  PROVE  SendInv'
<1>1. pc[p] = "idle" /\ chan[p] = <<>>
  BY DEF Entered, IInv, ResultInv
<1>2. ASSUME NEW d \in Flights, NEW j \in Unsent(d)
      PROVE  flight[d].chans[j] # p
  BY <1>1, <1>2 DEF IInv, SendInv
<1>3. ASSUME NEW d \in Flights, NEW j \in Unsent(d)'
      PROVE  \/ j \in Unsent(d) /\ flight'[d].chans[j] = flight[d].chans[j]
             \/ d = c /\ j = Len(flight'[c].chans) /\ flight'[c].chans[j] = p /\ to = "recv"
  BY <1>3 DEF Others, Unsent
<1>4. ASSUME NEW d \in Flights, NEW j \in Unsent(d)'
      PROVE  LET q == flight'[d].chans[j]
             IN  pc'[q] = "recv" /\ at'[q] = d /\ chan'[q] = <<>>
  <2>1. CASE j \in Unsent(d) /\ flight'[d].chans[j] = flight[d].chans[j]
    <3>1. PICK q \in Callers : q = flight[d].chans[j]
      BY UnsentCaller, <2>1 DEF IInv, TypeOK, FlightType
    <3>2. pc[q] = "recv" /\ at[q] = d /\ chan[q] = <<>>
      BY <3>1, <2>1 DEF IInv, SendInv
    <3>3. pc'[q] = "recv" /\ at'[q] = d /\ chan'[q] = <<>>
      BY <1>1, <3>2 DEF IInv, TypeOK, Entered
    <3> QED
      BY <2>1, <3>1, <3>3
  <2>2. CASE d = c /\ flight'[c].chans[j] = p /\ to = "recv"
    <3>1. pc'[p] = "recv" /\ at'[p] = c /\ chan'[p] = <<>>
      BY <1>1, <2>2 DEF IInv, TypeOK, Entered
    <3> QED
      BY <2>2, <3>1
  <2> QED
    BY <1>3, <1>4, <2>1, <2>2
<1>5. ASSUME NEW d \in Flights, NEW j \in Unsent(d)', NEW l \in Unsent(d)',
             flight'[d].chans[j] = flight'[d].chans[l]
      PROVE  j = l
  <2>1. CASE j \in Unsent(d) /\ l \in Unsent(d)
    BY <1>2, <1>3, <1>5, <2>1 DEF IInv, SendInv
  <2> QED
    BY <1>2, <1>3, <1>5, <2>1
<1>6. ASSUME NEW d \in Flights, flight'[d].phase = "finished"
      PROVE  flight'[d].sent = Len(flight'[d].chans)
  BY <1>6 DEF Others, IInv, SendInv
<1> QED
  BY <1>4, <1>5, <1>6 DEF SendInv

(* Nobody that was given a result is disturbed.                            *)
LEMMA EnteredResultInv ==
  ASSUME IInv, NEW p \in Callers, NEW c \in Flights, NEW to, Entered(p, c, to), Others(c),
         to # "returned",
         \A q \in Callers : at[q] = c =>
            /\ flight'[c].phase = flight[c].phase /\ flight'[c].val = flight[c].val
            /\ flight'[c].phase \notin {"send", "finished"}
            /\ flight'[c].callers > 1
  PROVE  ResultInv'
<1>1. ASSUME NEW q \in Callers, q # p
      PROVE  pc'[q] = pc[q] /\ at'[q] = at[q] /\ ret'[q] = ret[q] /\ chan'[q] = chan[q]
  BY <1>1 DEF IInv, TypeOK, Entered
<1>2. pc'[p] = to /\ chan'[p] = <<>>
  BY DEF IInv, TypeOK, ResultInv, Entered
<1>3. ASSUME NEW q \in Callers, pc[q] \in {"returned", "recv"}
      PROVE  at[q] \in Flights
  BY <1>3 DEF IInv, TypeOK, CallerInv
<1>4. ASSUME NEW q \in Callers, pc'[q] = "returned"
      PROVE  Settled(ret[q], at[q])'
  <2>1. q # p /\ pc[q] = "returned" /\ at[q] \in Flights
    BY <1>1, <1>2, <1>3, <1>4
  <2>2. Settled(ret[q], at[q]) /\ ret'[q] = ret[q] /\ at'[q] = at[q]
    BY <1>1, <2>1 DEF IInv, ResultInv
  <2>3. CASE at[q] = c
    BY <2>2, <2>3 DEF Settled, Faithful
  <2>4. CASE at[q] # c
    BY <2>1, <2>2, <2>4 DEF Settled, Faithful, Others
  <2> QED
    BY <2>3, <2>4
<1>5. ASSUME NEW q \in Callers, chan'[q] # <<>>
      PROVE  Len(chan'[q]) = 1 /\ pc'[q] = "recv" /\ Settled(Head(chan[q]), at[q])'
  <2>1. q # p
    BY <1>2, <1>5
  <2>2. /\ Len(chan[q]) = 1 /\ pc[q] = "recv" /\ Settled(Head(chan[q]), at[q])
        /\ at'[q] = at[q] /\ chan'[q] = chan[q] /\ pc'[q] = pc[q] /\ at[q] \in Flights
    BY <1>1, <1>3, <1>5, <2>1 DEF IInv, ResultInv
  <2>3. CASE at[q] = c
    BY <2>2, <2>3 DEF Settled, Faithful
  <2>4. CASE at[q] # c
    BY <2>2, <2>4 DEF Settled, Faithful, Others
  <2> QED
    BY <2>3, <2>4
<1> QED
  BY <1>4, <1>5 DEF ResultInv

LEMMA ChannelType ==
  ASSUME NEW p \in Callers, NEW chans, NEW to, Channel(p, chans, to)
  PROVE  chans \in Seq(Callers)
<1>1. <<p>> \in Seq(Callers) /\ <<>> \in Seq(Callers)
  OBVIOUS
<1> QED
  BY <1>1 DEF Channel

LEMMA JoinsInv ==
  ASSUME IInv, NEW p \in Callers, NEW k \in Keys, NEW chans, NEW to \in {"wait", "recv"},
         Channel(p, chans, to), Joins(p, k, chans, to)
  PROVE  IInv'
<1>0. chans \in Seq(Callers)
  BY ChannelType
<1>c. PICK c \in Flights : c = m[k]
  BY DEF IInv, TypeOK, Joins
<1>1. /\ flight[c].phase \in {"fn", "fnDone", "done", "panicked"}
      /\ Entered(p, c, to) /\ m' = m
  BY <1>c DEF IInv, MapInv, Joins
<1>2. flight' = [flight EXCEPT ![c].dups = @ + 1, ![c].callers = @ + 1,
                               ![c].chans = @ \o chans]
  BY <1>c DEF Joins
<1>3. /\ FlightType' /\ Others(c)
      /\ flight'[c].key = flight[c].key /\ flight'[c].phase = flight[c].phase
      /\ flight'[c].val = flight[c].val /\ flight'[c].sent = flight[c].sent
      /\ flight'[c].forgotten = flight[c].forgotten
      /\ flight'[c].dups = flight[c].dups + 1
      /\ flight'[c].callers = flight[c].callers + 1
      /\ flight'[c].chans = flight[c].chans \o chans
  BY <1>0, <1>1, <1>2, JoinStep DEF IInv, TypeOK, FlightType
<1>4. /\ flight[c].dups \in Nat /\ flight[c].callers = flight[c].dups + 1
      /\ flight[c].chans \in Seq(Callers) /\ flight[c].sent \in Nat
  BY <1>1, FieldTypes DEF IInv, TypeOK, FlightType, CountInv
<1>5. TypeOK'
  BY <1>1, <1>3 DEF IInv, TypeOK, FlightType, Entered
<1>6. CallerInv'
  <2>1. ASSUME NEW q \in Callers, q # p
        PROVE  /\ pc'[q] = pc[q] /\ at'[q] = at[q]
               /\ at[q] \in Flights => /\ flight'[at[q]].phase = flight[at[q]].phase
                                       /\ flight'[at[q]].callers >= flight[at[q]].callers
    <3>1. pc'[q] = pc[q] /\ at'[q] = at[q]
      BY <1>1, <2>1 DEF IInv, TypeOK, Entered
    <3>2. CASE at[q] = c
      BY <1>3, <1>4, <3>1, <3>2
    <3>3. CASE at[q] \in Flights /\ at[q] # c
      <4>1. flight'[at[q]] = flight[at[q]] /\ flight[at[q]].callers \in Nat
        BY <1>3, <3>3, FieldTypes DEF Others, IInv, TypeOK, FlightType
      <4> QED
        BY <3>1, <4>1
    <3> QED
      BY <3>1, <3>2, <3>3
  <2>2. pc'[p] = to /\ at'[p] = c /\ flight'[c].callers > 1
    BY <1>1, <1>3, <1>4 DEF IInv, TypeOK, Entered
  <2>3. ASSUME NEW q \in Callers
        PROVE  /\ pc'[q] = "idle" <=> at'[q] = NoFlight
               /\ pc'[q] = "wait" => flight'[at'[q]].callers > 1
               /\ pc'[q] = "lead" => flight'[at'[q]].phase # "panicked"
    <3>1. CASE q = p
      BY <2>2, <3>1, FlightAssumption
    <3>2. CASE q # p
      <4>1. /\ pc[q] = "idle" <=> at[q] = NoFlight
            /\ pc[q] = "wait" => flight[at[q]].callers > 1
            /\ pc[q] = "lead" => flight[at[q]].phase # "panicked"
            /\ pc[q] # "idle" => at[q] \in Flights /\ flight[at[q]].callers \in Nat
                                /\ flight'[at[q]].callers \in Nat
        BY <1>3, FieldTypes DEF IInv, TypeOK, FlightType, FlightObjects, CallerInv
      <4> QED
        BY <2>1, <3>2, <4>1
    <3> QED
      BY <3>1, <3>2
  <2>4. ASSUME NEW q \in Callers, NEW r \in Callers,
               pc'[q] = "lead", pc'[r] = "lead", at'[q] = at'[r]
        PROVE  q = r
    <3>1. q # p /\ r # p
      BY <2>2, <2>4
    <3> QED
      BY <2>1, <2>4, <3>1 DEF IInv, CallerInv
  <2> QED
    BY <2>3, <2>4 DEF CallerInv
<1>7. CountInv'
  BY <1>3, <1>4 DEF IInv, CountInv, Others
<1>8. ValueInv'
  BY <1>1, <1>3, ZenonT(60) DEF IInv, TypeOK, ValueInv, Entered, Others
<1>9. MapInv' /\ KeptInv'
  <2>1. ASSUME NEW d \in Flights
        PROVE  /\ flight'[d].key = flight[d].key /\ flight'[d].phase = flight[d].phase
               /\ flight'[d].forgotten = flight[d].forgotten
    BY <1>3 DEF Others
  <2>2. MapInv'
    <3>1. ASSUME NEW j \in Keys, m[j] # NoFlight
          PROVE  /\ flight'[m[j]].key = j /\ ~flight'[m[j]].forgotten
                 /\ flight'[m[j]].phase \in {"fn", "fnDone", "done", "panicked"}
      <4>1. m[j] \in Flights
        BY <3>1 DEF IInv, TypeOK
      <4> QED
        BY <2>1, <3>1, <4>1 DEF IInv, MapInv
    <3> QED
      BY <1>1, <3>1 DEF MapInv
  <2>3. KeptInv'
    BY <1>1, <2>1 DEF IInv, KeptInv
  <2> QED
    BY <2>2, <2>3
<1>10. SendInv'
  <2>1. ASSUME NEW i \in Unsent(c)'
        PROVE  \/ i \in Unsent(c) /\ flight'[c].chans[i] = flight[c].chans[i]
               \/ i = Len(flight'[c].chans) /\ flight'[c].chans[i] = p /\ to = "recv"
    <3> DEFINE s == flight[c].chans
    <3>0. /\ s \in Seq(Callers) /\ flight'[c].chans = s \o chans
          /\ i \in flight[c].sent + 1 .. Len(s \o chans) /\ flight[c].sent \in Nat
      <4>1. i \in flight'[c].sent + 1 .. Len(flight'[c].chans)
        BY <2>1 DEF Unsent
      <4> QED
        BY <1>3, <1>4, <4>1
    <3>1. CASE chans = <<>>
      <4>1. s \o chans = s
        BY <3>0, <3>1, ConcatEmptySeq
      <4> QED
        BY <3>0, <4>1 DEF Unsent
    <3>2. CASE chans = <<p>> /\ to = "recv"
      <4>1. /\ Len(s \o chans) = Len(s) + 1 /\ (s \o chans)[Len(s) + 1] = p
            /\ \A j \in 1..Len(s) : (s \o chans)[j] = s[j]
        BY <3>0, <3>2
      <4>2. CASE i = Len(s) + 1
        BY <3>0, <3>2, <4>1, <4>2
      <4>3. CASE i # Len(s) + 1
        <5>1. i \in flight[c].sent + 1 .. Len(s) /\ i \in 1..Len(s)
          <6>1. Len(s) \in Nat /\ i \in Int /\ i <= Len(s) + 1 /\ flight[c].sent + 1 <= i
            BY <3>0, <4>1
          <6> QED
            BY <3>0, <4>3, <6>1
        <5> QED
          BY <3>0, <4>1, <5>1 DEF Unsent
      <4> QED
        BY <4>2, <4>3
    <3> QED
      BY <3>1, <3>2 DEF Channel
  <2>2. flight'[c].phase # "finished" /\ Entered(p, c, to) /\ Others(c)
    BY <1>1, <1>3
  <2> QED
    BY <1>1, <2>1, <2>2, EnteredSendInv
<1>11. ResultInv'
  BY <1>1, <1>3, <1>4, EnteredResultInv
<1> QED
  BY <1>5, <1>6, <1>7, <1>8, <1>9, <1>10, <1>11 DEF IInv

LEMMA StartsInv ==
  ASSUME IInv, NEW p \in Callers, NEW k \in Keys, NEW c \in Flights, NEW chans,
         NEW to \in {"lead", "recv"}, Channel(p, chans, to), Starts(p, k, c, chans, to)
  PROVE  IInv'
<1>0. chans \in Seq(Callers)
  BY ChannelType
<1>1. /\ m[k] = NoFlight /\ Unused(c) /\ Entered(p, c, to) /\ m' = [m EXCEPT ![k] = c]
      /\ flight' = [flight EXCEPT ![c] = NewFlight(k, chans)]
  BY DEF Starts
<1>2. FlightType' /\ Others(c) /\ flight'[c] = NewFlight(k, chans)
  BY <1>0, <1>1, NewStep DEF IInv, TypeOK, FlightType
<1>3. /\ flight'[c].key = k /\ flight'[c].phase = "fn" /\ flight'[c].dups = 0
      /\ flight'[c].chans = chans /\ flight'[c].sent = 0 /\ flight'[c].callers = 1
      /\ flight'[c].forgotten = FALSE
  BY <1>2 DEF NewFlight
<1>4. /\ \A q \in Callers : at[q] # c
      /\ \A j \in Keys : m[j] # c
  BY <1>1 DEF Unused
<1>5. TypeOK'
  BY <1>1, <1>2 DEF IInv, TypeOK, FlightType, Entered
<1>6. CallerInv'
  BY <1>1, <1>2, <1>3, <1>4, FlightAssumption DEF IInv, TypeOK, CallerInv, Entered, Others
<1>7. CountInv'
  BY <1>2, <1>3 DEF IInv, CountInv, Others
<1>8. ValueInv'
  BY <1>1, <1>2, <1>3, <1>4 DEF IInv, TypeOK, ValueInv, Entered, Others
<1>9. MapInv'
  BY <1>1, <1>2, <1>3, <1>4 DEF IInv, TypeOK, MapInv, Others
<1>10. KeptInv'
  <2>1. ASSUME NEW d \in Flights
        PROVE  flight'[d].forgotten => flight'[d].key \in Forgettable
    BY <1>2, <1>3, <2>1 DEF IInv, KeptInv, Others
  <2>2. ASSUME NEW d \in Flights, flight'[d].phase \in {"fn", "fnDone", "done"},
               flight'[d].key \notin Forgettable
        PROVE  m'[flight'[d].key] = d
    <3>1. CASE d = c
      BY <1>1, <1>3, <3>1 DEF IInv, TypeOK
    <3>2. CASE d # c
      <4>1. m[flight[d].key] = d /\ flight[d].key \in Keys /\ flight'[d].key = flight[d].key
        BY <1>2, <2>2, <3>2, FieldTypes DEF IInv, TypeOK, FlightType, KeptInv, Others
      <4>2. flight[d].key # k
        BY <1>1, <4>1, FlightAssumption
      <4> QED
        BY <1>1, <4>1, <4>2 DEF IInv, TypeOK
    <3> QED
      BY <3>1, <3>2
  <2> QED
    BY <2>1, <2>2 DEF KeptInv
<1>11. SendInv'
  <2>1. ASSUME NEW i \in Unsent(c)'
        PROVE  i = Len(flight'[c].chans) /\ flight'[c].chans[i] = p /\ to = "recv"
    <3>1. i \in 1..Len(chans) /\ flight'[c].chans = chans
      BY <1>3, <2>1 DEF Unsent
    <3>2. chans # <<>>
      BY <3>1
    <3>3. chans = <<p>> /\ to = "recv"
      BY <3>2 DEF Channel
    <3> QED
      BY <3>1, <3>3
  <2> QED
    BY <1>1, <1>2, <1>3, <2>1, EnteredSendInv
<1>12. ResultInv'
  BY <1>1, <1>2, <1>4, EnteredResultInv
<1> QED
  BY <1>5, <1>6, <1>7, <1>8, <1>9, <1>10, <1>11, <1>12 DEF IInv

LEMMA EnterInv ==
  ASSUME IInv, NEW p \in Callers, NEW k \in Keys, NEW chans,
         NEW joined \in {"wait", "recv"}, NEW led \in {"lead", "recv"},
         Channel(p, chans, joined), Channel(p, chans, led),
         Enter(p, k, chans, joined, led)
  PROVE  IInv'
<1>1. \/ Joins(p, k, chans, joined)
      \/ \E c \in Flights : Starts(p, k, c, chans, led)
  BY DEF Enter, Joins, Starts, Entered
<1> QED
  BY <1>1, JoinsInv, StartsInv

-----------------------------------------------------------------------------
LEMMA InitInv == Init => IInv
<1> SUFFICES ASSUME Init PROVE IInv
  OBVIOUS
<1>1. PICK k \in Keys :
         flight = [c \in Flights |-> [NewFlight(k, <<>>) EXCEPT !.phase = "finished"]]
  BY DEF Init
<1>2. ASSUME NEW c \in Flights
      PROVE  /\ flight[c] \in FlightObjects /\ flight[c].phase = "finished"
             /\ flight[c].dups = 0 /\ flight[c].callers = 1 /\ flight[c].sent = 0
             /\ flight[c].chans = <<>> /\ ~flight[c].forgotten
  <2> DEFINE x == [key |-> k, phase |-> "finished", val |-> NoVal, dups |-> 0,
                   chans |-> <<>>, sent |-> 0, callers |-> 1, forgotten |-> FALSE]
  <2>1. flight[c] = x
    BY <1>1, <1>2 DEF NewFlight
  <2>2. x \in FlightObjects
    <3>1. <<>> \in Seq(Callers)
      BY EmptySeq
    <3> QED
      BY <3>1 DEF FlightObjects
  <2> QED
    BY <2>1, <2>2
<1>3. flight \in [Flights -> FlightObjects]
  BY <1>1, <1>2
<1>4. NoRet \in Rets
  BY DEF NoRet, Rets
<1>5. TypeOK
  BY <1>3, <1>4 DEF Init, TypeOK
<1>6. CallerInv
  BY DEF Init, CallerInv
<1>7. CountInv
  BY <1>2 DEF CountInv
<1>8. ValueInv /\ MapInv /\ KeptInv
  BY <1>2, FlightAssumption DEF Init, ValueInv, MapInv, KeptInv
<1>9. SendInv
  BY <1>2 DEF SendInv, Unsent
<1>10. ResultInv
  BY DEF Init, ResultInv
<1> QED
  BY <1>5, <1>6, <1>7, <1>8, <1>9, <1>10 DEF IInv

LEMMA StutterInv == ASSUME IInv, UNCHANGED vars PROVE IInv'
<1>0. m' = m /\ mu' = mu /\ flight' = flight /\ pc' = pc /\ at' = at /\ chan' = chan /\ ret' = ret
  BY DEF vars
<1>1. TypeOK' /\ CallerInv' /\ CountInv' /\ ValueInv' /\ MapInv' /\ KeptInv'
  BY <1>0 DEF IInv, TypeOK, CallerInv, CountInv, ValueInv, MapInv, KeptInv
<1>2. SendInv'
  BY <1>0 DEF IInv, SendInv, Unsent
<1>3. ResultInv'
  BY <1>0 DEF IInv, ResultInv, Settled, Faithful
<1> QED
  BY <1>1, <1>2, <1>3 DEF IInv

LEMMA CallerStepInv == ASSUME IInv, NEW p \in Callers, CallerStep(p) PROVE IInv'
<1>1. CASE Do(p)
  <2>1. PICK k \in Keys : Enter(p, k, <<>>, "wait", "lead")
    BY <1>1 DEF Do
  <2> QED
    BY <2>1, EnterInv DEF Channel
<1>2. CASE DoChan(p)
  <2>1. PICK k \in Keys : Enter(p, k, <<p>>, "recv", "recv")
    BY <1>2 DEF DoChan
  <2> QED
    BY <2>1, EnterInv DEF Channel
<1>3. CASE Forget(p)
  BY <1>3, ForgetInv
<1>4. CASE WaitReturn(p)
  BY <1>4, WaitReturnInv
<1>5. CASE LeadReturn(p)
  BY <1>5, LeadReturnInv
<1>6. CASE Receive(p)
  BY <1>6, ReceiveInv
<1>7. CASE Leave(p)
  BY <1>7, LeaveInv
<1>8. CASE FnPanic(p)
  BY <1>8, FnPanicInv
<1> QED
  BY <1>1, <1>2, <1>3, <1>4, <1>5, <1>6, <1>7, <1>8 DEF CallerStep

LEMMA FlightStepInv == ASSUME IInv, NEW c \in Flights, FlightStep(c) PROVE IInv'
<1>1. CASE FnReturn(c)
  BY <1>1, FnReturnInv
<1>2. CASE SignalDone(c)
  BY <1>2, SignalDoneInv
<1>3. CASE Delete(c)
  BY <1>3, DeleteInv
<1>4. CASE Send(c)
  BY <1>4, SendInvKept
<1>5. CASE EndCall(c)
  BY <1>5, EndCallInv
<1> QED
  BY <1>1, <1>2, <1>3, <1>4, <1>5 DEF FlightStep

LEMMA StepInv == IInv /\ [Next]_vars => IInv'
BY CallerStepInv, FlightStepInv, StutterInv DEF Next

LEMMA Invariant == Spec => []IInv
<1>1. Init => IInv
  BY InitInv
<1>2. IInv /\ [Next]_vars => IInv'
  BY StepInv
<1> QED
  BY <1>1, <1>2, PTL DEF Spec

-----------------------------------------------------------------------------
(* The variables of the group, of the flights and of the callers stay in   *)
(* their types (group, call and Result in singleflight.go).                *)
THEOREM TypeCorrect == Spec => []TypeOK
<1>1. IInv => TypeOK
  BY DEF IInv
<1> QED
  BY <1>1, Invariant, PTL

(* Whatever the interleaving, a caller that was given a result, or has one *)
(* in its channel, has the value and the shared flag that every other      *)
(* caller of the flight gets (Do, DoChan and doCall).                      *)
THEOREM SameResultsAlways == Spec => []SameResults
<1>1. IInv => SameResults
  BY DEF IInv, ResultInv, Settled, SameResults
<1> QED
  BY <1>1, Invariant, PTL

(* doCall, which sends while it holds the mutex of the group, finds every  *)
(* channel empty, so that no receiver can hold up the group.               *)
THEOREM SendsNeverBlock == Spec => []SendNeverBlocks
<1>1. IInv => SendNeverBlocks
  <2> SUFFICES ASSUME IInv, NEW c \in Flights, flight[c].phase = "send",
                      flight[c].sent < Len(flight[c].chans)
               PROVE  chan[flight[c].chans[flight[c].sent + 1]] = <<>>
    BY DEF SendNeverBlocks
  <2>1. flight[c].sent \in Nat /\ Len(flight[c].chans) \in Nat
    BY FieldTypes DEF IInv, TypeOK, FlightType
  <2>2. flight[c].sent + 1 \in Unsent(c)
    BY <2>1 DEF Unsent
  <2> QED
    BY <2>2 DEF IInv, SendInv
<1> QED
  BY <1>1, Invariant, PTL

(* For a key that Forget is never called for, two functions never run at   *)
(* the same time (Do, DoChan and the deletion in doCall).                  *)
THEOREM OneInFlightAlways == Spec => []OneInFlightIfKept
<1>1. IInv => OneInFlightIfKept
  BY DEF IInv, KeptInv, OneInFlightIfKept, TwoInFlight
<1> QED
  BY <1>1, Invariant, PTL

(* No call of Do or DoChan joins a flight after Forget was called for its  *)
(* key (Forget deletes the key, and only a flight in the map is joined).   *)
NoneJoins == \A c \in Flights : flight[c].forgotten /\ flight'[c].forgotten =>
                flight'[c].callers = flight[c].callers

LEMMA EnterNoneJoins ==
  ASSUME IInv, NEW p \in Callers, NEW k \in Keys, NEW chans, NEW joined, NEW led,
         Channel(p, chans, joined) \/ Channel(p, chans, led),
         Enter(p, k, chans, joined, led)
  PROVE  NoneJoins
<1>0. chans \in Seq(Callers)
  BY ChannelType
<1>1. CASE Joins(p, k, chans, joined)
  <2> DEFINE c == m[k]
  <2>1. c \in Flights /\ ~flight[c].forgotten
    BY <1>1 DEF IInv, TypeOK, MapInv, Joins
  <2>2. flight' = [flight EXCEPT ![c].dups = @ + 1, ![c].callers = @ + 1,
                                 ![c].chans = @ \o chans]
    BY <1>1 DEF Joins
  <2> HIDE DEF c
  <2>3. Others(c)
    BY <1>0, <2>1, <2>2, JoinStep DEF IInv, TypeOK, FlightType
  <2> QED
    BY <2>1, <2>3 DEF NoneJoins, Others
<1>2. ASSUME NEW c \in Flights, Starts(p, k, c, chans, led)
      PROVE  NoneJoins
  <2>1. Others(c) /\ flight'[c] = NewFlight(k, chans)
    BY <1>0, <1>2, NewStep DEF IInv, TypeOK, FlightType, Starts
  <2>2. ~flight'[c].forgotten
    BY <2>1 DEF NewFlight
  <2> QED
    BY <2>1, <2>2 DEF NoneJoins, Others
<1> QED
  BY <1>1, <1>2 DEF Enter, Joins, Starts, Entered

LEMMA StepNoneJoins == IInv /\ [Next]_vars => [NoneJoins]_vars
<1> SUFFICES ASSUME IInv, Next PROVE NoneJoins
  OBVIOUS
<1>1. ASSUME NEW c \in Flights, Others(c), Stays(c)
      PROVE  NoneJoins
  BY <1>1 DEF NoneJoins, Others, Stays
<1>2. CASE UNCHANGED flight
  BY <1>2 DEF NoneJoins
<1>3. ASSUME NEW c \in Flights, FlightStep(c)
      PROVE  NoneJoins
  <2>1. CASE FnReturn(c)
    BY <1>1, <2>1, ReturnStep DEF FnReturn, IInv, TypeOK, FlightType
  <2>2. CASE SignalDone(c)
    BY <1>1, <2>2, PhaseStep DEF SignalDone, IInv, TypeOK, FlightType, Phases
  <2>3. CASE Delete(c)
    BY <1>1, <2>3, PhaseStep DEF Delete, IInv, TypeOK, FlightType, Phases
  <2>4. CASE Send(c)
    <3>1. flight' = [flight EXCEPT ![c].sent = flight[c].sent + 1] /\ flight[c].sent + 1 \in Nat
      BY <2>4, FieldTypes DEF Send, IInv, TypeOK, FlightType
    <3> QED
      BY <1>1, <3>1, SentStep DEF IInv, TypeOK, FlightType
  <2>5. CASE EndCall(c)
    BY <1>1, <2>5, PhaseStep DEF EndCall, IInv, TypeOK, FlightType, Phases
  <2> QED
    BY <1>3, <2>1, <2>2, <2>3, <2>4, <2>5 DEF FlightStep
<1>4. ASSUME NEW p \in Callers, CallerStep(p)
      PROVE  NoneJoins
  <2>1. CASE Do(p)
    <3>1. PICK k \in Keys : Enter(p, k, <<>>, "wait", "lead")
      BY <2>1 DEF Do
    <3> QED
      BY <3>1, EnterNoneJoins DEF Channel
  <2>2. CASE DoChan(p)
    <3>1. PICK k \in Keys : Enter(p, k, <<p>>, "recv", "recv")
      BY <2>2 DEF DoChan
    <3> QED
      BY <3>1, EnterNoneJoins DEF Channel
  <2>3. CASE Forget(p)
    <3>1. PICK k \in Keys :
            flight' = [c \in Flights |->
                         [flight[c] EXCEPT !.forgotten =
                              @ \/ (Running(c) /\ flight[c].key = k)]]
      BY <2>3, FlightAssumption DEF Forget
    <3> QED
      BY <3>1, ForgetStep DEF NoneJoins, IInv, TypeOK, FlightType
  <2>4. CASE WaitReturn(p) \/ LeadReturn(p) \/ Receive(p) \/ Leave(p)
    BY <1>2, <2>4 DEF WaitReturn, LeadReturn, Receive, Leave
  <2>5. CASE FnPanic(p)
    <3>1. /\ at[p] \in Flights
          /\ flight' = [flight EXCEPT ![at[p]].phase = "panicked"]
      BY <2>5 DEF FnPanic, IInv, TypeOK, CallerInv
    <3> QED
      BY <1>1, <3>1, PhaseStep DEF IInv, TypeOK, FlightType, Phases
  <2> QED
    BY <1>4, <2>1, <2>2, <2>3, <2>4, <2>5 DEF CallerStep
<1> QED
  BY <1>3, <1>4 DEF Next

THEOREM ForgottenNeverJoined == Spec => ForgottenNotJoined
<1>1. IInv /\ [Next]_vars => [NoneJoins]_vars
  BY StepNoneJoins
<1>2. []IInv /\ [][Next]_vars => [][NoneJoins]_vars
  BY <1>1, PTL
<1>3. Spec => [][NoneJoins]_vars
  BY <1>2, Invariant, PTL DEF Spec
<1> QED
  BY <1>3 DEF ForgottenNotJoined, NoneJoins
=============================================================================
