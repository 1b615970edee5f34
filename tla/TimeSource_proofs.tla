------------------------- MODULE TimeSource_proofs -------------------------
(***************************************************************************)
(* Proofs about TimeSource, for any clients, advancers, tickers, durations *)
(* and bound of the clock: the queue of manual time is a heap whose index  *)
(* is right, AdvanceTo has fired what is due when it lets go of its mutex, *)
(* no tick of a ticker is lost, the time does not go back, and the timers  *)
(* of both sources keep the contract of TimerI.                            *)
(***************************************************************************)
EXTENDS TimeSource, TLAPS, NaturalsInduction, WellFoundedInduction

-----------------------------------------------------------------------------
(* A set of naturals has a least element.                                  *)
LEMMA LeastNatural ==
  ASSUME NEW T, T \subseteq Nat, T # {}
  PROVE  \E x \in T : \A y \in T : x <= y
<1> DEFINE R == OpToRel(<, Nat)
<1>1. IsWellFoundedOn(R, Nat)
  BY NatLessThanWellFounded
<1>2. PICK x \in T : \A y \in T : ~ (<<y, x>> \in R)
  BY <1>1, WFMin
<1>3. \A y \in T : <<y, x>> \in R <=> y < x
  BY DEF OpToRel
<1> HIDE DEF R
<1>4. \A y \in T : ~(y < x)
  BY ONLY <1>2, <1>3, Zenon
<1> QED
  BY ONLY <1>4, x \in T, T \subseteq Nat, SMT

(* A loop: the function that repeats nxt while go, and returns out. *)
LEMMA TailRecursion ==
  ASSUME NEW D, NEW go \in [D -> BOOLEAN], NEW nxt, NEW out,
         \A x \in D : go[x] => nxt[x] \in D
  PROVE  \E g : g = [x \in D |-> IF go[x] THEN g[nxt[x]] ELSE out[x]]
<1> DEFINE Run(x, y, n, s) ==
              /\ s \in [0..n -> D] /\ s[0] = x
              /\ \A i \in 0..(n - 1) : go[s[i]] /\ s[i + 1] = nxt[s[i]]
              /\ ~go[s[n]] /\ y = out[s[n]]
           End(x, y) == \E n \in Nat : \E s : Run(x, y, n, s)
           g == [x \in D |-> CHOOSE y : End(x, y)]
<1>1. ASSUME NEW x \in D, ~go[x], NEW y PROVE End(x, y) <=> y = out[x]
  <2>1. ASSUME End(x, y) PROVE y = out[x]
    <3>0. PICK n \in Nat : \E s : Run(x, y, n, s)
      BY <2>1
    <3>1. PICK s : Run(x, y, n, s)
      BY <3>0
    <3>2. n = 0
      <4> SUFFICES ASSUME n # 0 PROVE FALSE
        OBVIOUS
      <4>1. 0 \in 0..(n - 1)
        OBVIOUS
      <4> QED
        BY <1>1, <3>1, <4>1
    <3> QED
      BY <3>1, <3>2
  <2>2. ASSUME y = out[x] PROVE End(x, y)
    <3> DEFINE s == [i \in 0..0 |-> x]
    <3>1. Run(x, y, 0, s)
      BY <1>1, <2>2
    <3> QED
      BY <3>1
  <2> QED
    BY <2>1, <2>2
<1>2. ASSUME NEW x \in D, go[x], NEW y PROVE End(x, y) <=> End(nxt[x], y)
  <2>1. ASSUME End(x, y) PROVE End(nxt[x], y)
    <3>0. PICK n \in Nat : \E s : Run(x, y, n, s)
      BY <2>1
    <3>1. PICK s : Run(x, y, n, s)
      BY <3>0
    <3>2. n # 0
      BY <1>2, <3>1
    <3> DEFINE m == n - 1
               t == [i \in 0..m |-> s[i + 1]]
    <3>3. m \in Nat /\ n = m + 1
      BY <3>2
    <3>4. t \in [0..m -> D] /\ t[0] = nxt[x] /\ t[m] = s[n]
      <4>1. 0 \in 0..m /\ m \in 0..m /\ 0 \in 0..(n - 1)
        BY <3>3
      <4>2. \A i \in 0..m : i + 1 \in 0..n
        BY <3>3
      <4> QED
        BY <3>1, <3>3, <4>1, <4>2
    <3>5. \A i \in 0..(m - 1) : go[t[i]] /\ t[i + 1] = nxt[t[i]]
      <4> SUFFICES ASSUME NEW i \in 0..(m - 1) PROVE go[t[i]] /\ t[i + 1] = nxt[t[i]]
        OBVIOUS
      <4>1. i \in 0..m /\ i + 1 \in 0..m /\ i + 1 \in 0..(n - 1)
        BY <3>3
      <4>2. t[i] = s[i + 1] /\ t[i + 1] = s[(i + 1) + 1]
        BY <4>1
      <4> QED
        BY <3>1, <4>1, <4>2
    <3> HIDE DEF m, t
    <3>6. Run(nxt[x], y, m, t)
      BY <3>1, <3>4, <3>5
    <3> QED
      BY <3>3, <3>6
  <2>2. ASSUME End(nxt[x], y) PROVE End(x, y)
    <3>0. PICK m \in Nat : \E t : Run(nxt[x], y, m, t)
      BY <2>2
    <3>1. PICK t : Run(nxt[x], y, m, t)
      BY <3>0
    <3> DEFINE n == m + 1
               s == [i \in 0..n |-> IF i = 0 THEN x ELSE t[i - 1]]
    <3>2. n \in Nat /\ n # 0 /\ n - 1 = m
      OBVIOUS
    <3>3. \A i \in 1..n : s[i] = t[i - 1] /\ i - 1 \in 0..m
      BY <3>2
    <3>4. s \in [0..n -> D] /\ s[0] = x /\ s[n] = t[m]
      BY <3>1, <3>2, <3>3
    <3>5. \A i \in 0..(n - 1) : go[s[i]] /\ s[i + 1] = nxt[s[i]]
      <4> SUFFICES ASSUME NEW i \in 0..m PROVE go[s[i]] /\ s[i + 1] = nxt[s[i]]
        BY <3>2
      <4>1. i + 1 \in 1..n /\ (i + 1) - 1 = i
        BY <3>2
      <4>2. s[i + 1] = t[i]
        BY <3>3, <4>1
      <4>3. CASE i = 0
        BY <1>2, <3>1, <3>4, <4>2, <4>3
      <4>4. CASE i # 0
        <5>1. i \in 1..n /\ i - 1 \in 0..(m - 1) /\ (i - 1) + 1 = i
          BY <3>2, <4>4
        <5>2. s[i] = t[i - 1]
          BY <3>3, <5>1
        <5>3. go[t[i - 1]] /\ t[(i - 1) + 1] = nxt[t[i - 1]]
          BY <3>1, <5>1
        <5> QED
          BY <4>2, <5>1, <5>2, <5>3
      <4> QED
        BY <4>3, <4>4
    <3> HIDE DEF n, s
    <3>6. Run(x, y, n, s)
      BY <3>1, <3>4, <3>5
    <3> QED
      BY <3>2, <3>6
  <2> QED
    BY <2>1, <2>2
<1> HIDE DEF End
<1>3. \A x \in D : g[x] = IF go[x] THEN g[nxt[x]] ELSE out[x]
  <2> SUFFICES ASSUME NEW x \in D PROVE g[x] = IF go[x] THEN g[nxt[x]] ELSE out[x]
    OBVIOUS
  <2>1. g[x] = CHOOSE y : End(x, y)
    OBVIOUS
  <2>2. CASE go[x]
    <3>1. \A y : End(x, y) <=> End(nxt[x], y)
      BY <1>2, <2>2
    <3>2. (CHOOSE y : End(x, y)) = CHOOSE y : End(nxt[x], y)
      BY <3>1
    <3>3. g[nxt[x]] = CHOOSE y : End(nxt[x], y)
      BY <2>2
    <3> QED
      BY <2>1, <2>2, <3>2, <3>3
  <2>3. CASE ~go[x]
    <3>1. \A y : End(x, y) <=> y = out[x]
      BY <1>1, <2>3
    <3>2. (CHOOSE y : End(x, y)) = out[x]
      BY <3>1
    <3> QED
      BY <2>1, <2>3, <3>2
  <2> QED
    BY <2>2, <2>3
<1>4. g = [x \in D |-> IF go[x] THEN g[nxt[x]] ELSE out[x]]
  BY <1>3
<1> QED
  BY <1>4

-----------------------------------------------------------------------------
(* A queue whose index says where each of its timers is, and its members.  *)
Members(h) == {c \in Clients : h.m[c] # 0}

Indexed(h) ==
    /\ h \in Manual!Heaps
    /\ \A i \in 1..Len(h.heap) : h.m[h.heap[i]] = i
    /\ \A c \in Members(h) : h.m[c] \in 1..Len(h.heap) /\ h.heap[h.m[c]] = c

(* Swap keeps the index right. *)
LEMMA SwapIndexed ==
  ASSUME NEW h, Indexed(h), NEW i \in 1..Len(h.heap), NEW j \in 1..Len(h.heap)
  PROVE  LET s == Manual!Swap(h, i, j)
         IN  /\ Indexed(s)
             /\ s.heap = [h.heap EXCEPT ![i] = h.heap[j], ![j] = h.heap[i]]
             /\ Len(s.heap) = Len(h.heap)
             /\ Members(s) = Members(h)
<1> DEFINE s == Manual!Swap(h, i, j)
           l == Len(h.heap)
           t == [h.heap EXCEPT ![i] = h.heap[j], ![j] = h.heap[i]]
           n == [h.m EXCEPT ![t[i]] = i, ![t[j]] = j]
<1>1. h.heap \in Seq(Clients) /\ h.m \in [Clients -> Nat] /\ l \in Nat
  BY DEF Indexed, Manual!Heaps
<1>2. s.heap = t /\ s.m = n /\ s = [heap |-> t, m |-> n]
  BY DEF Manual!Swap
<1>3. t \in Seq(Clients) /\ Len(t) = l /\ DOMAIN t = 1..l
  BY <1>1
<1>4. t[i] = h.heap[j] /\ t[j] = h.heap[i]
      /\ \A k \in 1..l : k # i /\ k # j => t[k] = h.heap[k]
  BY <1>1
<1>5. \A k \in 1..l : h.heap[k] \in Clients /\ h.m[h.heap[k]] = k
  BY <1>1 DEF Indexed
<1>6. n \in [Clients -> Nat] /\ n[h.heap[j]] = i /\ n[h.heap[i]] = j
  <2>1. h.heap[i] \in Clients /\ h.heap[j] \in Clients
        /\ h.m[h.heap[i]] = i /\ h.m[h.heap[j]] = j
    BY <1>5
  <2>2. n = [h.m EXCEPT ![h.heap[j]] = i, ![h.heap[i]] = j]
    BY <1>4
  <2> HIDE DEF n, t
  <2>3. h.heap[i] = h.heap[j] => i = j
    BY <2>1
  <2> QED
    BY <1>1, <2>1, <2>2, <2>3
<1>7. \A c \in Clients : c # h.heap[i] /\ c # h.heap[j] => n[c] = h.m[c]
  BY <1>1, <1>4
<1>8. \A k \in 1..l : n[t[k]] = k
  <2> TAKE k \in 1..l
  <2>1. CASE k # i /\ k # j
    BY <1>4, <1>5, <1>7, <2>1
  <2> QED
    BY <1>4, <1>6, <2>1
<1>9. \A c \in Clients : n[c] # 0 <=> h.m[c] # 0
  <2> TAKE c \in Clients
  <2>1. CASE c # h.heap[i] /\ c # h.heap[j]
    BY <1>7, <2>1
  <2> QED
    BY <1>5, <1>6, <2>1
<1>10. \A c \in Clients : n[c] # 0 => n[c] \in 1..l /\ t[n[c]] = c
  <2> SUFFICES ASSUME NEW c \in Clients, n[c] # 0 PROVE n[c] \in 1..l /\ t[n[c]] = c
    OBVIOUS
  <2>1. CASE c # h.heap[i] /\ c # h.heap[j]
    <3>1. n[c] = h.m[c] /\ h.m[c] # 0
      BY <1>7, <2>1
    <3>2. h.m[c] \in 1..l /\ h.heap[h.m[c]] = c
      BY <3>1 DEF Indexed, Members
    <3> QED
      BY <1>4, <2>1, <3>1, <3>2
  <2> QED
    BY <1>4, <1>6, <2>1
<1> HIDE DEF s, t, n
<1>11. s \in Manual!Heaps
  BY <1>2, <1>3, <1>6 DEF Manual!Heaps
<1>12. Members(s) = Members(h)
  BY <1>2, <1>9 DEF Members
<1>13. Indexed(s)
  BY <1>2, <1>3, <1>8, <1>10, <1>11 DEF Indexed, Members
<1>14. s.heap = [h.heap EXCEPT ![i] = h.heap[j], ![j] = h.heap[i]]
  BY <1>2 DEF t
<1> QED
  BY <1>2, <1>3, <1>12, <1>13, <1>14 DEF s

LEMMA SwapTyped ==
  ASSUME NEW h \in Manual!Heaps, NEW i \in 1..Len(h.heap), NEW j \in 1..Len(h.heap)
  PROVE  LET s == Manual!Swap(h, i, j)
         IN  s \in Manual!Heaps /\ DOMAIN s.heap = 1..Len(h.heap) /\ Len(s.heap) = Len(h.heap)
<1> DEFINE t == [h.heap EXCEPT ![i] = h.heap[j], ![j] = h.heap[i]]
           n == [h.m EXCEPT ![t[i]] = i, ![t[j]] = j]
<1>1. h.heap \in Seq(Clients) /\ h.m \in [Clients -> Nat]
  BY DEF Manual!Heaps
<1>2. t \in Seq(Clients) /\ DOMAIN t = 1..Len(h.heap) /\ Len(t) = Len(h.heap)
  BY <1>1
<1>3. n \in [Clients -> Nat]
  BY <1>1
<1>4. Manual!Swap(h, i, j) = [heap |-> t, m |-> n]
  BY DEF Manual!Swap
<1> HIDE DEF t, n
<1> QED
  BY <1>2, <1>3, <1>4 DEF Manual!Heaps

(* The loops of container/heap. *)
LEMMA UpLoop ==
  ASSUME NEW ats, NEW h \in Manual!Heaps, NEW j \in DOMAIN h.heap
  PROVE  Manual!Up(h, j, ats) =
           IF j > 1 /\ Manual!Less(h, j, j \div 2, ats)
           THEN Manual!Up(Manual!Swap(h, j, j \div 2), j \div 2, ats) ELSE h
<1> DEFINE D == Manual!Places(1)
           go == [x \in D |-> x[2] > 1 /\ Manual!Less(x[1], x[2], x[2] \div 2, ats)]
           nxt == [x \in D |-> <<Manual!Swap(x[1], x[2], x[2] \div 2), x[2] \div 2>>]
           out == [x \in D |-> x[1]]
           P(g) == g = [x \in D |->
                          IF x[2] > 1 /\ Manual!Less(x[1], x[2], x[2] \div 2, ats)
                          THEN g[<<Manual!Swap(x[1], x[2], x[2] \div 2), x[2] \div 2>>]
                          ELSE x[1]]
           up == CHOOSE g : P(g)
<1>1. \A k, l : Manual!Up(k, l, ats) = up[<<k, l>>]
  BY DEF Manual!Up
<1>2. \A x \in D : x[1] \in Manual!Heaps /\ x[2] \in Nat /\ x[2] \in 1..Len(x[1].heap)
                /\ 1 <= Len(x[1].heap)
  <2> TAKE x \in D
  <2>1. x \in Manual!Heaps \X Nat /\ x[2] \in DOMAIN x[1].heap /\ 1 <= Len(x[1].heap)
    BY DEF Manual!Places
  <2>2. x[1].heap \in Seq(Clients)
    BY <2>1 DEF Manual!Heaps
  <2>3. DOMAIN x[1].heap = 1..Len(x[1].heap)
    BY <2>2
  <2> QED
    BY <2>1, <2>3
<1>3. \A x \in D : x[2] > 1 => nxt[x] \in D
  <2> SUFFICES ASSUME NEW x \in D, x[2] > 1 PROVE nxt[x] \in D
    OBVIOUS
  <2>1. x[1] \in Manual!Heaps /\ x[2] \in 1..Len(x[1].heap) /\ x[2] \div 2 \in 1..Len(x[1].heap)
        /\ 1 <= Len(x[1].heap)
    BY <1>2
  <2>2. Manual!Swap(x[1], x[2], x[2] \div 2) \in Manual!Heaps
        /\ DOMAIN Manual!Swap(x[1], x[2], x[2] \div 2).heap = 1..Len(x[1].heap)
        /\ Len(Manual!Swap(x[1], x[2], x[2] \div 2).heap) = Len(x[1].heap)
    BY <2>1, SwapTyped
  <2>3. nxt[x] = <<Manual!Swap(x[1], x[2], x[2] \div 2), x[2] \div 2>>
    OBVIOUS
  <2>4. x[2] \div 2 \in Nat
    BY <2>1
  <2> HIDE DEF nxt
  <2> QED
    BY <2>1, <2>2, <2>3, <2>4 DEF Manual!Places
<1>4. \E g : P(g)
  <2>1. go \in [D -> BOOLEAN]
    OBVIOUS
  <2>2. \A x \in D : go[x] => nxt[x] \in D
    BY <1>3
  <2>3. PICK g : g = [x \in D |-> IF go[x] THEN g[nxt[x]] ELSE out[x]]
    <3> HIDE DEF D, go, nxt, out
    <3> QED
      BY <2>1, <2>2, TailRecursion, SMTT(60)
  <2>4. P(g)
    BY <2>3
  <2> QED
    BY <2>4
<1>5. P(up)
  BY <1>4
<1> QED
  <2>1. <<h, j>> \in D
    <3>1. h.heap \in Seq(Clients)
      BY DEF Manual!Heaps
    <3>2. j \in 1..Len(h.heap) /\ Len(h.heap) \in Nat
      BY <3>1
    <3> QED
      BY <3>2 DEF Manual!Places
  <2> HIDE DEF up, D
  <2>2. up[<<h, j>>] = IF j > 1 /\ Manual!Less(h, j, j \div 2, ats)
                       THEN up[<<Manual!Swap(h, j, j \div 2), j \div 2>>] ELSE h
    BY <1>5, <2>1
  <2> QED
    BY <1>1, <2>2

LEMMA DownLoop ==
  ASSUME NEW ats, NEW h \in Manual!Heaps,
         NEW n \in 0..Len(h.heap), NEW i \in DOMAIN h.heap
  PROVE  Manual!Down(h, i, n, ats) =
           LET j == Manual!Child(h, i, n, ats)
           IN  IF 2 * i <= n /\ Manual!Less(h, j, i, ats)
               THEN Manual!Down(Manual!Swap(h, i, j), j, n, ats) ELSE h
<1> DEFINE D == Manual!Places(n)
           C(x) == Manual!Child(x[1], x[2], n, ats)
           go == [x \in D |-> 2 * x[2] <= n /\ Manual!Less(x[1], C(x), x[2], ats)]
           nxt == [x \in D |-> <<Manual!Swap(x[1], x[2], C(x)), C(x)>>]
           out == [x \in D |-> x[1]]
           P(g) == g = [x \in D |->
                          IF 2 * x[2] <= n /\ Manual!Less(x[1], C(x), x[2], ats)
                          THEN g[<<Manual!Swap(x[1], x[2], C(x)), C(x)>>]
                          ELSE x[1]]
           down == CHOOSE g : P(g)
<1>1. \A k, l : Manual!Down(k, l, n, ats) = down[<<k, l>>]
  BY DEF Manual!Down
<1>2. \A x \in D : x[1] \in Manual!Heaps /\ x[2] \in Nat /\ x[2] \in 1..Len(x[1].heap)
                /\ n <= Len(x[1].heap)
  <2> TAKE x \in D
  <2>1. x \in Manual!Heaps \X Nat /\ x[2] \in DOMAIN x[1].heap /\ n <= Len(x[1].heap)
    BY DEF Manual!Places
  <2>2. x[1].heap \in Seq(Clients)
    BY <2>1 DEF Manual!Heaps
  <2>3. DOMAIN x[1].heap = 1..Len(x[1].heap)
    BY <2>2
  <2> QED
    BY <2>1, <2>3
<1>3. \A x \in D : 2 * x[2] <= n => nxt[x] \in D
  <2> SUFFICES ASSUME NEW x \in D, 2 * x[2] <= n PROVE nxt[x] \in D
    OBVIOUS
  <2>1. x[1] \in Manual!Heaps /\ x[2] \in 1..Len(x[1].heap) /\ C(x) \in 1..Len(x[1].heap)
        /\ n <= Len(x[1].heap)
    BY <1>2 DEF Manual!Child
  <2>2. Manual!Swap(x[1], x[2], C(x)) \in Manual!Heaps
        /\ DOMAIN Manual!Swap(x[1], x[2], C(x)).heap = 1..Len(x[1].heap)
        /\ Len(Manual!Swap(x[1], x[2], C(x)).heap) = Len(x[1].heap)
    BY <2>1, SwapTyped
  <2>3. nxt[x] = <<Manual!Swap(x[1], x[2], C(x)), C(x)>>
    OBVIOUS
  <2>4. C(x) \in Nat
    BY <2>1
  <2> HIDE DEF nxt, C
  <2> QED
    BY <2>1, <2>2, <2>3, <2>4 DEF Manual!Places
<1>4. \E g : P(g)
  <2>1. go \in [D -> BOOLEAN]
    OBVIOUS
  <2>2. \A x \in D : go[x] => nxt[x] \in D
    BY <1>3
  <2>3. PICK g : g = [x \in D |-> IF go[x] THEN g[nxt[x]] ELSE out[x]]
    <3> HIDE DEF D, go, nxt, out
    <3> QED
      BY <2>1, <2>2, TailRecursion, SMTT(60)
  <2>4. P(g)
    BY <2>3
  <2> QED
    BY <2>4
<1>5. P(down)
  BY <1>4
<1> QED
  <2>1. <<h, i>> \in D
    <3>1. h.heap \in Seq(Clients)
      BY DEF Manual!Heaps
    <3>2. i \in 1..Len(h.heap) /\ Len(h.heap) \in Nat
      BY <3>1
    <3> QED
      BY <3>2 DEF Manual!Places
  <2> HIDE DEF down, D
  <2>2. down[<<h, i>>] = LET j == Manual!Child(h, i, n, ats)
                         IN  IF 2 * i <= n /\ Manual!Less(h, j, i, ats)
                             THEN down[<<Manual!Swap(h, i, j), j>>] ELSE h
    BY <1>5, <2>1
  <2> QED
    BY <1>1, <2>2
-----------------------------------------------------------------------------
(* When each timer of a queue is due, place by place; a heap of the first  *)
(* n places; and a heap but for place j, whose timer may be due before its *)
(* parent's, or but for place i, which may have any timer in it.           *)
Due(h, ats) == [k \in 1..Len(h.heap) |-> ats[h.heap[k]].at]

Ordered(a, n) == \A k \in 2..n : a[k \div 2] <= a[k]

UpReady(a, j, n) ==
    /\ \A k \in 2..n : k # j => a[k \div 2] <= a[k]
    /\ \A k \in 2..n : k \div 2 = j /\ j > 1 => a[j \div 2] <= a[k]

RemReady(a, i, n) ==
    /\ \A k \in 2..n : k # i /\ k \div 2 # i => a[k \div 2] <= a[k]
    /\ \A k \in 2..n : k \div 2 = i /\ i > 1 => a[i \div 2] <= a[k]

Exchange(a, i, j) == [a EXCEPT ![i] = a[j], ![j] = a[i]]

LEMMA UpExchange ==
  ASSUME NEW l \in Nat, NEW a \in [1..l -> Nat], NEW n \in 0..l, NEW j \in 2..n,
         UpReady(a, j, n), a[j] < a[j \div 2]
  PROVE  UpReady(Exchange(a, j, j \div 2), j \div 2, n)
<1> DEFINE p == j \div 2
           b == Exchange(a, j, p)
<1>1. p \in 1..l /\ p # j /\ p < j
  OBVIOUS
<1>2. b[p] = a[j] /\ b[j] = a[p] /\ \A k \in 1..l : k # p /\ k # j => b[k] = a[k]
  BY <1>1 DEF Exchange
<1>3. \A k \in 2..n : k \div 2 \in 1..l /\ k \div 2 < k /\ k \in 1..l
  OBVIOUS
<1>4. \A k \in 1..l : a[k] \in Nat
  OBVIOUS
<1>5. ASSUME NEW k \in 2..n, k # p PROVE b[k \div 2] <= b[k]
  <2>1. CASE k = j
    BY <1>1, <1>2, <1>4, <2>1
  <2>2. CASE k # j /\ k \div 2 = j
    <3>1. a[p] <= a[k]
      BY <2>2 DEF UpReady
    <3> QED
      BY <1>2, <1>3, <1>5, <2>2, <3>1
  <2>3. CASE k # j /\ k \div 2 = p
    <3>1. a[p] <= a[k]
      BY <2>3 DEF UpReady
    <3>2. b[k] = a[k] /\ b[k \div 2] = a[j]
      BY <1>2, <1>3, <1>5, <2>3
    <3>3. a[k] \in Nat /\ a[j] \in Nat /\ a[p] \in Nat
      BY <1>1, <1>3, <1>4
    <3> QED
      BY <3>1, <3>2, <3>3
  <2>4. CASE k # j /\ k \div 2 # j /\ k \div 2 # p
    <3>1. a[k \div 2] <= a[k]
      BY <2>4 DEF UpReady
    <3>2. b[k] = a[k] /\ b[k \div 2] = a[k \div 2]
      BY <1>2, <1>3, <1>5, <2>4
    <3> QED
      BY <3>1, <3>2
  <2> QED
    BY <2>1, <2>2, <2>3, <2>4
<1>6. ASSUME NEW k \in 2..n, k \div 2 = p, p > 1 PROVE b[p \div 2] <= b[k]
  <2>1. p \in 2..n /\ p # j /\ p \div 2 \in 1..l /\ p \div 2 # p /\ p \div 2 # j
    BY <1>1, <1>6
  <2>2. a[p \div 2] <= a[p]
    BY <2>1 DEF UpReady
  <2>3. b[p \div 2] = a[p \div 2]
    BY <1>2, <2>1
  <2>4. CASE k = j
    BY <1>2, <2>2, <2>3, <2>4
  <2>5. CASE k # j
    <3>1. a[p] <= a[k]
      BY <1>6, <2>5 DEF UpReady
    <3>2. b[k] = a[k]
      BY <1>1, <1>2, <1>3, <1>6, <2>5
    <3>3. a[k] \in Nat /\ a[p \div 2] \in Nat /\ a[p] \in Nat
      BY <1>1, <1>3, <1>4, <2>1
    <3> QED
      BY <2>2, <2>3, <3>1, <3>2, <3>3
  <2> QED
    BY <2>4, <2>5
<1> HIDE DEF b, p
<1>7. UpReady(b, p, n)
  BY <1>5, <1>6 DEF UpReady
<1> QED
  BY <1>7 DEF b, p

(* One step down: the child that is due first takes the place i. *)
LEMMA DownExchange ==
  ASSUME NEW l \in Nat, NEW a \in [1..l -> Nat], NEW n \in 0..l, NEW i \in 1..n,
         NEW j \in 2..n, j \div 2 = i, RemReady(a, i, n), a[j] < a[i],
         \A k \in 2..n : k \div 2 = i => a[j] <= a[k]
  PROVE  /\ RemReady(Exchange(a, i, j), j, n)
         /\ Exchange(a, i, j)[i] <= Exchange(a, i, j)[j]
<1> DEFINE b == Exchange(a, i, j)
<1>1. i \in 1..l /\ j \in 1..l /\ i < j
  OBVIOUS
<1>2. b[i] = a[j] /\ b[j] = a[i] /\ \A k \in 1..l : k # i /\ k # j => b[k] = a[k]
  BY <1>1 DEF Exchange
<1>3. \A k \in 2..n : k \div 2 \in 1..l /\ k \div 2 < k /\ k \in 1..l
  OBVIOUS
<1>4. \A k \in 1..l : a[k] \in Nat
  OBVIOUS
<1>5. ASSUME NEW k \in 2..n, k # j, k \div 2 # j PROVE b[k \div 2] <= b[k]
  <2>1. CASE k = i
    <3>1. i > 1 /\ i \div 2 \in 1..l /\ i \div 2 # i /\ i \div 2 # j
      BY <1>1, <2>1
    <3>2. a[i \div 2] <= a[j]
      BY <3>1 DEF RemReady
    <3> QED
      BY <1>2, <2>1, <3>1, <3>2
  <2>2. CASE k # i /\ k \div 2 = i
    <3>1. a[j] <= a[k]
      BY <2>2
    <3> QED
      BY <1>2, <1>3, <1>5, <2>2, <3>1
  <2>3. CASE k # i /\ k \div 2 # i
    <3>1. a[k \div 2] <= a[k]
      BY <2>3 DEF RemReady
    <3>2. b[k] = a[k] /\ b[k \div 2] = a[k \div 2]
      BY <1>2, <1>3, <1>5, <2>3
    <3> QED
      BY <3>1, <3>2
  <2> QED
    BY <2>1, <2>2, <2>3
<1>6. ASSUME NEW k \in 2..n, k \div 2 = j, j > 1 PROVE b[j \div 2] <= b[k]
  <2>1. k # i /\ k # j /\ k \div 2 # i
    BY <1>1, <1>3, <1>6
  <2>2. a[j] <= a[k]
    BY <1>6, <2>1 DEF RemReady
  <2> QED
    BY <1>2, <1>3, <2>1, <2>2
<1>7. b[i] <= b[j]
  BY <1>1, <1>2, <1>4
<1> HIDE DEF b
<1>8. RemReady(b, j, n)
  BY <1>5, <1>6 DEF RemReady
<1> QED
  BY <1>7, <1>8 DEF b

-----------------------------------------------------------------------------
Timed(ats) == \A c \in Clients : ats[c].at \in Nat

(* u has the timers of h, and those after place n where they were. *)
Rearranged(h, u, n) ==
    /\ Indexed(u)
    /\ Len(u.heap) = Len(h.heap)
    /\ Members(u) = Members(h)
    /\ \A k \in n + 1..Len(h.heap) : u.heap[k] = h.heap[k]

LEMMA StrongInduction ==
  ASSUME NEW S, \A j \in Nat : (\A k \in Nat : k < j => k \in S) => j \in S
  PROVE  \A j \in Nat : j \in S
<1> DEFINE T == {j \in Nat : j \notin S}
<1>1. T \subseteq Nat
  OBVIOUS
<1>2. ASSUME NEW j \in T, \A k \in T : j <= k PROVE FALSE
  <2>1. \A k \in Nat : k < j => k \in S
    BY <1>2
  <2> QED
    BY <2>1
<1>3. T = {}
  BY <1>1, <1>2, LeastNatural, Zenon
<1> QED
  BY <1>3

LEMMA DueFacts ==
  ASSUME NEW ats, Timed(ats), NEW h, Indexed(h)
  PROVE  /\ Len(h.heap) \in Nat
         /\ Due(h, ats) \in [1..Len(h.heap) -> Nat]
         /\ \A i, j \in 1..Len(h.heap) :
              /\ Manual!Less(h, i, j, ats) <=> Due(h, ats)[i] < Due(h, ats)[j]
              /\ Due(Manual!Swap(h, i, j), ats) = Exchange(Due(h, ats), i, j)
<1>1. h.heap \in Seq(Clients)
  BY DEF Indexed, Manual!Heaps
<1>2. \A k \in 1..Len(h.heap) : ats[h.heap[k]].at \in Nat
  BY <1>1 DEF Timed
<1>3. Due(h, ats) \in [1..Len(h.heap) -> Nat]
  BY <1>2 DEF Due
<1>4. ASSUME NEW i \in 1..Len(h.heap), NEW j \in 1..Len(h.heap)
      PROVE  /\ Manual!Less(h, i, j, ats) <=> Due(h, ats)[i] < Due(h, ats)[j]
             /\ Due(Manual!Swap(h, i, j), ats) = Exchange(Due(h, ats), i, j)
  <2>1. Manual!Less(h, i, j, ats) <=> Due(h, ats)[i] < Due(h, ats)[j]
    BY DEF Due, Manual!Less
  <2> DEFINE s == Manual!Swap(h, i, j)
             l == Len(h.heap)
  <2>2. s.heap = [h.heap EXCEPT ![i] = h.heap[j], ![j] = h.heap[i]] /\ Len(s.heap) = l
    BY SwapIndexed
  <2>3. DOMAIN h.heap = 1..l
    BY <1>1
  <2> HIDE DEF s, l
  <2>4. \A k \in 1..l : ats[s.heap[k]].at
                        = IF k = j THEN ats[h.heap[i]].at
                          ELSE IF k = i THEN ats[h.heap[j]].at ELSE ats[h.heap[k]].at
    BY <2>2, <2>3
  <2>5. Due(s, ats) = [k \in 1..l |-> ats[s.heap[k]].at]
    BY <2>2 DEF Due
  <2>6. Due(h, ats) = [k \in 1..l |-> ats[h.heap[k]].at]
    BY DEF Due, l
  <2>7. i \in 1..l /\ j \in 1..l
    BY DEF l
  <2>8. Due(s, ats) = Exchange(Due(h, ats), i, j)
    <3> DEFINE a == Due(h, ats)
               b == Due(s, ats)
    <3>1. /\ a = [k \in 1..l |-> a[k]] /\ b = [k \in 1..l |-> b[k]]
          /\ \A k \in 1..l : a[k] = ats[h.heap[k]].at /\ b[k] = ats[s.heap[k]].at
      BY <2>5, <2>6
    <3> HIDE DEF a, b
    <3>2. \A k \in 1..l : b[k] = IF k = j THEN a[i] ELSE IF k = i THEN a[j] ELSE a[k]
      BY <2>4, <2>7, <3>1
    <3> DEFINE e == Exchange(a, i, j)
    <3>3. e = [k \in 1..l |-> e[k]] /\ \A k \in 1..l : e[k] = b[k]
      BY <2>7, <3>1, <3>2 DEF Exchange
    <3> HIDE DEF e
    <3>4. e = b
      BY ONLY <3>1, <3>3, Zenon
    <3> QED
      BY <3>4 DEF a, b, e
  <2> QED
    BY <2>1, <2>8 DEF s
<1> QED
  BY <1>1, <1>3, <1>4

LEMMA SwapRearranged ==
  ASSUME NEW h, Indexed(h), NEW n \in 0..Len(h.heap), NEW i \in 1..n, NEW j \in 1..n
  PROVE  Rearranged(h, Manual!Swap(h, i, j), n)
<1> DEFINE s == Manual!Swap(h, i, j)
<1>1. h.heap \in Seq(Clients) /\ Len(h.heap) \in Nat
  BY DEF Indexed, Manual!Heaps
<1>2. i \in 1..Len(h.heap) /\ j \in 1..Len(h.heap)
  BY <1>1
<1>3. /\ Indexed(s)
      /\ s.heap = [h.heap EXCEPT ![i] = h.heap[j], ![j] = h.heap[i]]
      /\ Len(s.heap) = Len(h.heap)
      /\ Members(s) = Members(h)
  BY <1>2, SwapIndexed
<1> HIDE DEF s
<1>4. \A k \in n + 1..Len(h.heap) : s.heap[k] = h.heap[k]
  BY <1>1, <1>3
<1>5. Rearranged(h, s, n)
  BY <1>3, <1>4 DEF Rearranged
<1> QED
  BY <1>5 DEF s

LEMMA RearrangedTwice ==
  ASSUME NEW h, NEW s, NEW u, NEW n, Rearranged(h, s, n), Rearranged(s, u, n)
  PROVE  Rearranged(h, u, n)
BY DEF Rearranged

(* up makes a heap of the first n places if only the timer at j may be due *)
(* before its parent.                                                      *)
LEMMA UpSpec ==
  ASSUME NEW ats, Timed(ats), NEW n \in Nat, NEW j0 \in 1..n,
         NEW h0, Indexed(h0), n <= Len(h0.heap), UpReady(Due(h0, ats), j0, n)
  PROVE  LET u == Manual!Up(h0, j0, ats)
         IN  Rearranged(h0, u, n) /\ Ordered(Due(u, ats), n)
<1> DEFINE Good(j) ==
             \A h \in Manual!Heaps :
                Indexed(h) /\ n <= Len(h.heap) /\ UpReady(Due(h, ats), j, n)
                => /\ Rearranged(h, Manual!Up(h, j, ats), n)
                   /\ Ordered(Due(Manual!Up(h, j, ats), ats), n)
           S == {j \in Nat : j \in 1..n => Good(j)}
<1>1. ASSUME NEW j \in Nat, \A k \in Nat : k < j => k \in S, j \in 1..n PROVE Good(j)
  <2> SUFFICES ASSUME NEW h \in Manual!Heaps, Indexed(h), n <= Len(h.heap),
                      UpReady(Due(h, ats), j, n)
               PROVE  /\ Rearranged(h, Manual!Up(h, j, ats), n)
                      /\ Ordered(Due(Manual!Up(h, j, ats), ats), n)
    OBVIOUS
  <2> DEFINE a == Due(h, ats)
             l == Len(h.heap)
             p == j \div 2
             s == Manual!Swap(h, j, p)
  <2>1. l \in Nat /\ n <= l /\ a \in [1..l -> Nat] /\ j \in 1..l /\ n \in 0..l
    BY <1>1, DueFacts
  <2>2. j \in DOMAIN h.heap
    <3>1. h.heap \in Seq(Clients)
      BY DEF Manual!Heaps
    <3> QED
      BY <2>1, <3>1
  <2>3. Manual!Up(h, j, ats) = IF j > 1 /\ Manual!Less(h, j, p, ats)
                               THEN Manual!Up(s, p, ats) ELSE h
    BY <2>2, UpLoop
  <2>4. j > 1 => p \in 1..l /\ p \in 1..n /\ p < j /\ j \in 2..n
    BY <1>1, <2>1
  <2>5. j > 1 => (Manual!Less(h, j, p, ats) <=> a[j] < a[p]) /\ Due(s, ats) = Exchange(a, j, p)
    BY <2>1, <2>4, DueFacts
  <2>6. CASE j > 1 /\ a[j] < a[p]
    <3>1. Manual!Up(h, j, ats) = Manual!Up(s, p, ats)
      BY <2>3, <2>5, <2>6
    <3>2. Rearranged(h, s, n)
      BY <1>1, <2>1, <2>4, <2>6, SwapRearranged
    <3>3. Indexed(s) /\ s \in Manual!Heaps /\ n <= Len(s.heap)
      BY <2>1, <3>2 DEF Rearranged, Indexed
    <3>4. UpReady(Due(s, ats), p, n)
      <4> HIDE DEF a, l, s
      <4>1. j \in 2..n /\ UpReady(a, j, n) /\ a[j] < a[j \div 2]
        BY <2>4, <2>6 DEF a
      <4>2. UpReady(Exchange(a, j, j \div 2), j \div 2, n)
        BY <2>1, <4>1, UpExchange
      <4> QED
        BY <2>5, <2>6, <4>2
    <3>5. p \in Nat /\ p \in S /\ p \in 1..n
      BY <1>1, <2>4, <2>6
    <3>6. Good(p)
      BY <3>5
    <3>7. Rearranged(s, Manual!Up(s, p, ats), n) /\ Ordered(Due(Manual!Up(s, p, ats), ats), n)
      BY <3>3, <3>4, <3>6
    <3> QED
      BY <3>1, <3>2, <3>7, RearrangedTwice
  <2>7. CASE ~(j > 1 /\ a[j] < a[p])
    <3>1. Manual!Up(h, j, ats) = h
      BY <2>3, <2>5, <2>7
    <3>2. Rearranged(h, h, n)
      BY DEF Rearranged
    <3>3. Ordered(a, n)
      <4> HIDE DEF a, l, s
      <4>1. UpReady(a, j, n)
        BY DEF a
      <4>2. j > 1 => a[j \div 2] <= a[j]
        BY <2>1, <2>4, <2>7
      <4>3. \A k \in 2..n : a[k \div 2] <= a[k]
        BY <4>1, <4>2 DEF UpReady
      <4> QED
        BY <4>3 DEF Ordered
    <3> QED
      BY <3>1, <3>2, <3>3
  <2> QED
    BY <2>6, <2>7
<1>2. \A j \in Nat : (\A k \in Nat : k < j => k \in S) => j \in S
  BY <1>1
<1> HIDE DEF Good, S
<1>3. \A j \in Nat : j \in S
  BY <1>2, StrongInduction, Zenon
<1>4. Good(j0)
  BY <1>3 DEF S
<1>5. h0 \in Manual!Heaps
  BY DEF Indexed
<1> QED
  BY <1>4, <1>5 DEF Good

LEMMA OrderedIsReady ==
  ASSUME NEW l \in Nat, NEW a \in [1..l -> Nat], NEW n \in 0..l, NEW j \in 1..l, Ordered(a, n)
  PROVE  UpReady(a, j, n) /\ RemReady(a, j, n)
<1>1. \A k \in 2..n : a[k \div 2] <= a[k]
  BY DEF Ordered
<1>2. ASSUME NEW k \in 2..n, k \div 2 = j, j > 1 PROVE a[j \div 2] <= a[k]
  <2>1. j \in 2..n /\ j \div 2 \in 1..l /\ k \in 1..l
    BY <1>2
  <2>2. a[j \div 2] <= a[j] /\ a[j] <= a[k]
    BY <1>1, <1>2, <2>1
  <2>3. a[j \div 2] \in Nat /\ a[j] \in Nat /\ a[k] \in Nat
    BY <2>1
  <2> QED
    BY <2>2, <2>3
<1> QED
  BY <1>1, <1>2 DEF UpReady, RemReady

(* A parent that is before its first child is before both. *)
LEMMA ChildSpec ==
  ASSUME NEW ats, Timed(ats), NEW h, Indexed(h), NEW n \in 0..Len(h.heap),
         NEW i \in 1..Len(h.heap), 2 * i <= n
  PROVE  LET j == Manual!Child(h, i, n, ats)
         IN  /\ j \in 2..n /\ j \div 2 = i /\ i < j
             /\ \A k \in 2..n : k \div 2 = i => Due(h, ats)[j] <= Due(h, ats)[k]
<1> DEFINE a == Due(h, ats)
           l == Len(h.heap)
           j == Manual!Child(h, i, n, ats)
<1>1. l \in Nat /\ a \in [1..l -> Nat]
  BY DueFacts
<1>2. 2 * i \in 1..l
  BY <1>1
<1>3. 2 * i + 1 <= n => 2 * i + 1 \in 1..l /\ (Manual!Less(h, 2 * i + 1, 2 * i, ats) <=> a[2 * i + 1] < a[2 * i])
  <2>1. 2 * i + 1 <= n => 2 * i + 1 \in 1..l
    BY <1>1
  <2> QED
    BY <1>2, <2>1, DueFacts
<1>4. j = IF 2 * i + 1 <= n /\ a[2 * i + 1] < a[2 * i] THEN 2 * i + 1 ELSE 2 * i
  BY <1>3 DEF Manual!Child
<1> HIDE DEF j, a, l
<1>5. j \in 2..n /\ j \div 2 = i /\ i < j
  BY <1>1, <1>4
<1>6. ASSUME NEW k \in 2..n, k \div 2 = i PROVE a[j] <= a[k]
  <2>1. k = 2 * i \/ k = 2 * i + 1
    BY <1>6
  <2>2. k \in 1..l /\ a[k] \in Nat /\ a[2 * i] \in Nat
    BY <1>1, <1>2 DEF l
  <2>5. 2 * i + 1 <= n => a[2 * i + 1] \in Nat
    BY <1>1, <1>3
  <2>3. CASE k = 2 * i
    <3>1. (j = 2 * i + 1 /\ 2 * i + 1 <= n /\ a[2 * i + 1] < a[2 * i]) \/ j = 2 * i
      BY <1>4
    <3> QED
      BY <2>2, <2>3, <2>5, <3>1
  <2>4. CASE k = 2 * i + 1
    <3>1. 2 * i + 1 <= n /\ a[2 * i + 1] \in Nat
      BY <2>2, <2>4
    <3>2. a[j] <= a[2 * i + 1]
      <4>1. CASE a[2 * i + 1] < a[2 * i]
        BY <1>4, <3>1, <4>1
      <4>2. CASE ~(a[2 * i + 1] < a[2 * i])
        BY <1>4, <2>2, <3>1, <4>2
      <4> QED
        BY <4>1, <4>2
    <3> QED
      BY <2>4, <3>2
  <2> QED
    BY <2>1, <2>3, <2>4
<1> QED
  BY <1>5, <1>6 DEF j, a

(* down makes a heap of the first n places, or leaves them as they are if  *)
(* only the timer at i may be due before its parent.                       *)
LEMMA DownSpec ==
  ASSUME NEW ats, Timed(ats), NEW n \in Nat,
         NEW h0, Indexed(h0), n <= Len(h0.heap), NEW i0 \in 1..Len(h0.heap),
         RemReady(Due(h0, ats), i0, n)
  PROVE  LET d == Manual!Down(h0, i0, n, ats)
         IN  /\ Rearranged(h0, d, n)
             /\ \/ Ordered(Due(d, ats), n)
                \/ d = h0 /\ UpReady(Due(h0, ats), i0, n)
<1> DEFINE Done(h, i, d) ==
              /\ Rearranged(h, d, n)
              /\ \/ Ordered(Due(d, ats), n)
                 \/ d = h /\ UpReady(Due(h, ats), i, n)
           Good(i) ==
             \A h \in Manual!Heaps :
                Indexed(h) /\ n <= Len(h.heap) /\ i \in 1..Len(h.heap) /\ RemReady(Due(h, ats), i, n)
                => Done(h, i, Manual!Down(h, i, n, ats))
           S == {r \in Nat : \A i \in Nat : n - i < r => Good(i)}
<1>1. ASSUME NEW r \in Nat, \A k \in Nat : k < r => k \in S, NEW i \in Nat, n - i < r
      PROVE  Good(i)
  <2> SUFFICES ASSUME NEW h \in Manual!Heaps, Indexed(h), n <= Len(h.heap),
                      i \in 1..Len(h.heap), RemReady(Due(h, ats), i, n)
               PROVE  Done(h, i, Manual!Down(h, i, n, ats))
    OBVIOUS
  <2> DEFINE a == Due(h, ats)
             l == Len(h.heap)
             j == Manual!Child(h, i, n, ats)
             s == Manual!Swap(h, i, j)
             d == Manual!Down(h, i, n, ats)
  <2>1. l \in Nat /\ n <= l /\ a \in [1..l -> Nat] /\ i \in 1..l /\ n \in 0..l
    BY DueFacts
  <2>2. i \in DOMAIN h.heap
    <3>1. h.heap \in Seq(Clients)
      BY DEF Manual!Heaps
    <3> QED
      BY <2>1, <3>1
  <2>3. d = IF 2 * i <= n /\ Manual!Less(h, j, i, ats)
            THEN Manual!Down(s, j, n, ats) ELSE h
    BY <2>1, <2>2, DownLoop
  <2>4. 2 * i <= n => /\ j \in 2..n /\ j \div 2 = i /\ i < j
                      /\ \A k \in 2..n : k \div 2 = i => a[j] <= a[k]
    BY <2>1, ChildSpec
  <2>5. 2 * i <= n => j \in 1..l /\ i \in 1..n /\ j \in 1..n
    BY <2>1, <2>4
  <2>6. 2 * i <= n => (Manual!Less(h, j, i, ats) <=> a[j] < a[i]) /\ Due(s, ats) = Exchange(a, i, j)
    BY <2>1, <2>5, DueFacts
  <2>7. CASE 2 * i <= n /\ a[j] < a[i]
    <3>1. d = Manual!Down(s, j, n, ats)
      BY <2>3, <2>6, <2>7
    <3>2. Rearranged(h, s, n)
      BY <2>1, <2>5, <2>7, SwapRearranged
    <3>3. Indexed(s) /\ s \in Manual!Heaps /\ n <= Len(s.heap) /\ Len(s.heap) = l
      BY <2>1, <3>2 DEF Rearranged, Indexed
    <3>4. RemReady(Due(s, ats), j, n) /\ Due(s, ats)[i] <= Due(s, ats)[j]
      <4> HIDE DEF a, l, s, j
      <4>1. j \in 2..n /\ j \div 2 = i /\ RemReady(a, i, n) /\ a[j] < a[i] /\ i \in 1..n
            /\ \A k \in 2..n : k \div 2 = i => a[j] <= a[k]
        BY <2>4, <2>5, <2>7 DEF a
      <4>2. RemReady(Exchange(a, i, j), j, n) /\ Exchange(a, i, j)[i] <= Exchange(a, i, j)[j]
        BY <2>1, <4>1, DownExchange
      <4> QED
        BY <2>6, <2>7, <4>2
    <3>5. Good(j)
      <4>1. j \in Nat /\ n - j \in Nat /\ i < j /\ j <= n
        BY <2>4, <2>7
      <4> HIDE DEF Good, j
      <4>2. r # 0 /\ r - 1 \in Nat /\ r - 1 < r /\ n - j < r - 1
        BY <1>1, <4>1
      <4>3. r - 1 \in S
        BY <1>1, <4>2
      <4> QED
        BY <4>1, <4>2, <4>3
    <3>6. Done(s, j, d)
      BY <2>5, <2>7, <3>1, <3>3, <3>4, <3>5
    <3>7. Ordered(Due(d, ats), n)
      <4>1. CASE d = s /\ UpReady(Due(s, ats), j, n)
        <5>1. \A k \in 2..n : Due(s, ats)[k \div 2] <= Due(s, ats)[k]
          BY <2>4, <2>7, <3>4, <4>1 DEF UpReady
        <5> QED
          BY <4>1, <5>1 DEF Ordered
      <4> QED
        BY <3>6, <4>1
    <3>8. Rearranged(h, d, n)
      BY <3>2, <3>6, RearrangedTwice
    <3> QED
      BY <3>7, <3>8
  <2>8. CASE ~(2 * i <= n /\ a[j] < a[i])
    <3>1. d = h
      BY <2>3, <2>6, <2>8
    <3>2. Rearranged(h, h, n)
      BY DEF Rearranged
    <3>3. UpReady(a, i, n)
      <4> HIDE DEF a, l, s, j
      <4>1. RemReady(a, i, n)
        BY DEF a
      <4>2. ASSUME NEW k \in 2..n, k \div 2 = i PROVE a[k \div 2] <= a[k]
        <5>1. 2 * i <= n /\ k \in 1..l
          BY <2>1, <4>2
        <5>2. a[j] <= a[k] /\ ~(a[j] < a[i]) /\ j \in 1..l
          BY <2>4, <2>5, <2>8, <4>2, <5>1
        <5>3. a[j] \in Nat /\ a[k] \in Nat /\ a[i] \in Nat
          BY <2>1, <5>1, <5>2
        <5> QED
          BY <4>2, <5>2, <5>3
      <4>3. \A k \in 2..n : k # i => a[k \div 2] <= a[k]
        BY <4>1, <4>2 DEF RemReady
      <4> QED
        BY <4>1, <4>3 DEF UpReady, RemReady
    <3> QED
      BY <3>1, <3>2, <3>3
  <2> QED
    BY <2>7, <2>8
<1>2. \A r \in Nat : (\A k \in Nat : k < r => k \in S) => r \in S
  BY <1>1
<1> HIDE DEF Good, S
<1>3. \A r \in Nat : r \in S
  BY <1>2, StrongInduction, Zenon
<1>4. Good(i0)
  <2>1. i0 \in Nat /\ n + 1 \in Nat /\ n - i0 < n + 1
    OBVIOUS
  <2>2. n + 1 \in S
    BY <1>3, <2>1
  <2> QED
    BY <2>1, <2>2 DEF S
<1>5. h0 \in Manual!Heaps
  BY DEF Indexed
<1> QED
  BY <1>4, <1>5 DEF Good

-----------------------------------------------------------------------------
(* The queue of manual time: a heap whose index is right.                  *)
Queue(h, ats) == Indexed(h) /\ Ordered(Due(h, ats), Len(h.heap))

LEMMA EmptyQueue ==
  ASSUME NEW ats
  PROVE  LET h == [heap |-> <<>>, m |-> [c \in Clients |-> 0]]
         IN  Queue(h, ats) /\ Members(h) = {}
<1> DEFINE h == [heap |-> <<>>, m |-> [c \in Clients |-> 0]]
<1>1. h \in Manual!Heaps /\ Len(h.heap) = 0 /\ \A c \in Clients : h.m[c] = 0
  BY DEF Manual!Heaps
<1> HIDE DEF h
<1>2. Queue(h, ats) /\ Members(h) = {}
  BY <1>1 DEF Queue, Indexed, Ordered, Members
<1> QED
  BY <1>2 DEF h

(* The top of the queue is due first. *)
LEMMA TopLeast ==
  ASSUME NEW ats, Timed(ats), NEW h, Queue(h, ats), NEW c \in Members(h)
  PROVE  /\ h.heap # <<>> /\ h.heap[1] \in Members(h)
         /\ ats[h.heap[1]].at <= ats[c].at
<1> DEFINE a == Due(h, ats)
           l == Len(h.heap)
           S == {k \in Nat : k \in 1..l => a[1] <= a[k]}
<1>1. l \in Nat /\ a \in [1..l -> Nat] /\ Ordered(a, l)
  BY DueFacts DEF Queue
<1>2. c \in Clients /\ h.m[c] \in 1..l /\ h.heap[h.m[c]] = c /\ h.heap \in Seq(Clients)
  BY DEF Queue, Indexed, Members, Manual!Heaps
<1>3. 1 \in 1..l /\ h.heap[1] \in Clients /\ h.m[h.heap[1]] = 1
  BY <1>2 DEF Queue, Indexed
<1>4. ASSUME NEW k \in Nat, \A r \in Nat : r < k => r \in S PROVE k \in S
  <2> SUFFICES ASSUME k \in 1..l PROVE a[1] <= a[k]
    OBVIOUS
  <2> HIDE DEF a, l
  <2>1. CASE k = 1
    BY <1>1, <1>3, <2>1
  <2>2. CASE k # 1
    <3>1. k \in 2..l /\ k \div 2 \in Nat /\ k \div 2 < k /\ k \div 2 \in 1..l
      BY <1>1, <2>2
    <3>2. a[1] <= a[k \div 2]
      BY <1>4, <3>1
    <3>3. a[k \div 2] <= a[k]
      BY <1>1, <3>1 DEF Ordered
    <3>4. a[1] \in Nat /\ a[k \div 2] \in Nat /\ a[k] \in Nat
      BY <1>1, <1>3, <3>1
    <3> QED
      BY <3>2, <3>3, <3>4
  <2> QED
    BY <2>1, <2>2
<1>5. \A k \in Nat : k \in S
  <2>1. \A k \in Nat : (\A r \in Nat : r < k => r \in S) => k \in S
    BY <1>4
  <2> HIDE DEF S
  <2> QED
    BY <2>1, StrongInduction, Zenon
<1>6. a[1] <= a[h.m[c]]
  BY <1>2, <1>5
<1>7. a[1] = ats[h.heap[1]].at /\ a[h.m[c]] = ats[c].at
  BY <1>2, <1>3 DEF Due
<1>8. h.heap # <<>>
  BY <1>3
<1> QED
  BY <1>3, <1>6, <1>7, <1>8 DEF Members

(* What becomes of the timers that are not queued does not matter. *)
LEMMA QueueOfOthers ==
  ASSUME NEW ats, NEW new, NEW h, Queue(h, ats), \A c \in Members(h) : new[c].at = ats[c].at
  PROVE  Queue(h, new)
<1> DEFINE l == Len(h.heap)
<1>1. \A k \in 1..l : h.heap[k] \in Clients /\ h.m[h.heap[k]] = k /\ k # 0
  BY DEF Queue, Indexed, Manual!Heaps
<1>2. \A k \in 1..l : new[h.heap[k]].at = ats[h.heap[k]].at
  BY <1>1 DEF Members
<1>3. Due(h, new) = Due(h, ats)
  BY <1>2 DEF Due
<1> QED
  BY <1>3 DEF Queue

LEMMA PushQueue ==
  ASSUME NEW ats, Timed(ats), NEW h, Queue(h, ats), NEW c \in Clients \ Members(h)
  PROVE  Queue(Manual!Push(h, c, ats), ats)
         /\ Members(Manual!Push(h, c, ats)) = Members(h) \cup {c}
<1> DEFINE l == Len(h.heap)
           n == l + 1
           g == [heap |-> Append(h.heap, c), m |-> [h.m EXCEPT ![c] = n]]
           u == Manual!Up(g, n, ats)
<1>1. /\ h.heap \in Seq(Clients) /\ h.m \in [Clients -> Nat] /\ l \in Nat
      /\ \A k \in 1..l : h.m[h.heap[k]] = k
      /\ \A x \in Clients : h.m[x] # 0 => h.m[x] \in 1..l /\ h.heap[h.m[x]] = x
      /\ h.m[c] = 0
  BY DEF Queue, Indexed, Manual!Heaps, Members
<1>2. Manual!Push(h, c, ats) = u
  BY DEF Manual!Push
<1>3. /\ g.heap \in Seq(Clients) /\ Len(g.heap) = n /\ g.heap[n] = c
      /\ \A k \in 1..l : g.heap[k] = h.heap[k]
  BY <1>1
<1>4. g.m \in [Clients -> Nat] /\ g.m[c] = n /\ \A x \in Clients \ {c} : g.m[x] = h.m[x]
  BY <1>1
<1>5. g \in Manual!Heaps
  BY <1>3, <1>4 DEF Manual!Heaps
<1> HIDE DEF g, l
<1>6. \A k \in 1..n : g.m[g.heap[k]] = k
  <2> TAKE k \in 1..n
  <2>1. CASE k = n
    BY <1>3, <1>4, <2>1
  <2>2. CASE k # n
    <3>1. k \in 1..l /\ k # 0
      BY <1>1, <2>2
    <3>2. g.heap[k] = h.heap[k] /\ h.m[h.heap[k]] = k /\ h.heap[k] \in Clients
      BY <1>1, <1>3, <3>1 DEF l
    <3> QED
      BY <1>1, <1>4, <3>1, <3>2
  <2> QED
    BY <2>1, <2>2
<1>7. \A x \in Clients : g.m[x] # 0 => g.m[x] \in 1..n /\ g.heap[g.m[x]] = x
  <2> SUFFICES ASSUME NEW x \in Clients, g.m[x] # 0 PROVE g.m[x] \in 1..n /\ g.heap[g.m[x]] = x
    OBVIOUS
  <2>1. CASE x = c
    BY <1>1, <1>3, <1>4, <2>1
  <2>2. CASE x # c
    <3>1. g.m[x] = h.m[x] /\ h.m[x] \in 1..l /\ h.heap[h.m[x]] = x
      BY <1>1, <1>4, <2>2
    <3> QED
      BY <1>1, <1>3, <3>1
  <2> QED
    BY <2>1, <2>2
<1>8. Members(g) = Members(h) \cup {c}
  BY <1>1, <1>4 DEF Members
<1>9. Indexed(g)
  BY <1>3, <1>5, <1>6, <1>7 DEF Indexed, Members
<1>10. UpReady(Due(g, ats), n, n)
  <2> DEFINE a == Due(h, ats)
             b == Due(g, ats)
  <2>1. a \in [1..l -> Nat] /\ b \in [1..n -> Nat]
    BY <1>3, <1>9, DueFacts DEF Queue, l
  <2>2. \A k \in 1..l : b[k] = a[k]
    BY <1>1, <1>3 DEF Due, l
  <2>3. \A k \in 2..l : a[k \div 2] <= a[k]
    BY DEF Queue, Ordered, l
  <2> HIDE DEF a, b
  <2>4. \A k \in 2..n : k # n => k \in 2..l /\ k \in 1..l /\ k \div 2 \in 1..l
    BY <1>1
  <2>5. \A k \in 2..n : k # n => b[k \div 2] <= b[k]
    BY <2>2, <2>3, <2>4
  <2>6. \A k \in 2..n : k \div 2 # n
    BY <1>1
  <2> QED
    BY <2>5, <2>6 DEF UpReady, b
<1>11. Rearranged(g, u, n) /\ Ordered(Due(u, ats), n)
  <2>1. n \in Nat /\ n \in 1..n /\ n <= Len(g.heap)
    BY <1>1, <1>3
  <2> HIDE DEF n
  <2> QED
    BY <1>9, <1>10, <2>1, UpSpec
<1> QED
  BY <1>2, <1>3, <1>8, <1>11 DEF Rearranged, Queue

LEMMA DropLastQueue ==
  ASSUME NEW ats, Timed(ats), NEW h, Indexed(h), NEW n \in Nat, Len(h.heap) = n + 1,
         Ordered(Due(h, ats), n)
  PROVE  Queue(Manual!DropLast(h), ats)
         /\ Members(Manual!DropLast(h)) = Members(h) \ {h.heap[n + 1]}
<1> DEFINE g == Manual!DropLast(h)
           c == h.heap[n + 1]
<1>1. /\ h.heap \in Seq(Clients) /\ h.m \in [Clients -> Nat]
      /\ \A k \in 1..n + 1 : h.m[h.heap[k]] = k
      /\ \A x \in Clients : h.m[x] # 0 => h.m[x] \in 1..n + 1 /\ h.heap[h.m[x]] = x
      /\ n + 1 \in 1..n + 1 /\ (n + 1) - 1 = n
  BY DEF Indexed, Manual!Heaps, Members
<1>2. g.heap = SubSeq(h.heap, 1, n) /\ g.m = [h.m EXCEPT ![c] = 0] /\ g = [heap |-> g.heap, m |-> g.m]
  BY <1>1 DEF Manual!DropLast
<1>3. c \in Clients /\ h.m[c] = n + 1
  BY <1>1
<1> HIDE DEF g, c
<1>4. g.heap \in Seq(Clients) /\ Len(g.heap) = n /\ \A k \in 1..n : g.heap[k] = h.heap[k]
  BY <1>1, <1>2
<1>5. g.m \in [Clients -> Nat] /\ g.m[c] = 0 /\ \A x \in Clients \ {c} : g.m[x] = h.m[x]
  BY <1>1, <1>2, <1>3
<1>6. g \in Manual!Heaps
  BY <1>2, <1>4, <1>5 DEF Manual!Heaps
<1>7. \A k \in 1..n : g.m[g.heap[k]] = k
  <2> TAKE k \in 1..n
  <2>1. k \in 1..n + 1 /\ k # n + 1
    OBVIOUS
  <2>2. h.heap[k] \in Clients /\ h.m[h.heap[k]] = k /\ g.heap[k] = h.heap[k]
    BY <1>1, <1>4, <2>1
  <2> QED
    BY <1>3, <1>5, <2>1, <2>2
<1>8. \A x \in Clients : g.m[x] # 0 => g.m[x] \in 1..n /\ g.heap[g.m[x]] = x
  <2> SUFFICES ASSUME NEW x \in Clients, g.m[x] # 0 PROVE g.m[x] \in 1..n /\ g.heap[g.m[x]] = x
    OBVIOUS
  <2>1. x # c /\ g.m[x] = h.m[x]
    BY <1>5
  <2>2. h.m[x] \in 1..n + 1 /\ h.heap[h.m[x]] = x
    BY <1>1, <2>1
  <2>3. h.m[x] # n + 1
    BY <2>1, <2>2 DEF c
  <2>4. h.m[x] \in 1..n
    BY <2>2, <2>3
  <2> QED
    BY <1>4, <2>1, <2>2, <2>4
<1>9. Members(g) = Members(h) \ {c}
  BY <1>3, <1>5 DEF Members
<1>10. Ordered(Due(g, ats), n)
  <2> DEFINE a == Due(h, ats)
             b == Due(g, ats)
  <2>1. \A k \in 1..n : b[k] = a[k]
    BY <1>4 DEF Due
  <2>2. \A k \in 2..n : k \in 1..n /\ k \div 2 \in 1..n
    OBVIOUS
  <2>3. \A k \in 2..n : a[k \div 2] <= a[k]
    BY DEF Ordered
  <2> HIDE DEF a, b
  <2>4. \A k \in 2..n : b[k \div 2] <= b[k]
    BY <2>1, <2>2, <2>3
  <2> QED
    BY <2>4 DEF Ordered, b
<1>11. Indexed(g)
  BY <1>4, <1>6, <1>7, <1>8 DEF Indexed, Members
<1>12. Queue(g, ats)
  BY <1>4, <1>10, <1>11 DEF Queue
<1> QED
  BY <1>9, <1>12 DEF g, c

(* A place whose timer has been exchanged with the last is ready for down. *)
LEMMA SwapLast ==
  ASSUME NEW ats, Timed(ats), NEW h, Queue(h, ats), NEW n \in Nat, Len(h.heap) = n + 1,
         NEW i \in 1..n + 1
  PROVE  LET s == Manual!Swap(h, i, n + 1)
         IN  /\ Rearranged(h, s, n + 1)
             /\ s.heap[n + 1] = h.heap[i]
             /\ RemReady(Due(s, ats), i, n)
<1> DEFINE s == Manual!Swap(h, i, n + 1)
           a == Due(h, ats)
           b == Due(s, ats)
           l == n + 1
<1>1. l \in Nat /\ l \in 1..l /\ i \in 1..l /\ Indexed(h) /\ Ordered(a, l) /\ Len(h.heap) = l
  BY DEF Queue
<1>2. Rearranged(h, s, l) /\ s.heap = [h.heap EXCEPT ![i] = h.heap[l], ![l] = h.heap[i]]
  BY <1>1, SwapIndexed, SwapRearranged
<1>3. a \in [1..l -> Nat] /\ b = Exchange(a, i, l)
  BY <1>1, DueFacts
<1>4. s.heap[l] = h.heap[i]
  <2>1. h.heap \in Seq(Clients)
    BY <1>1 DEF Indexed, Manual!Heaps
  <2> QED
    BY <1>1, <1>2, <2>1
<1>5. RemReady(b, i, n)
  <2> HIDE DEF a, b, s
  <2>1. \A k \in 1..n : k # i => b[k] = a[k]
    BY <1>1, <1>3 DEF Exchange
  <2>2. RemReady(a, i, l)
    BY <1>1, <1>3, OrderedIsReady
  <2>3. ASSUME NEW k \in 2..n, k # i, k \div 2 # i PROVE b[k \div 2] <= b[k]
    <3>1. k \in 2..l /\ k \in 1..n /\ k \div 2 \in 1..n
      OBVIOUS
    <3>2. a[k \div 2] <= a[k]
      BY <2>2, <2>3, <3>1 DEF RemReady
    <3> QED
      BY <2>1, <2>3, <3>1, <3>2
  <2>4. ASSUME NEW k \in 2..n, k \div 2 = i, i > 1 PROVE b[i \div 2] <= b[k]
    <3>1. k \in 2..l /\ k \in 1..n /\ k # i /\ i \div 2 \in 1..n /\ i \div 2 # i
      BY <2>4
    <3>2. a[i \div 2] <= a[k]
      BY <2>2, <2>4, <3>1 DEF RemReady
    <3> QED
      BY <2>1, <3>1, <3>2
  <2> QED
    BY <2>3, <2>4 DEF RemReady
<1> QED
  BY <1>2, <1>4, <1>5

LEMMA RemoveQueue ==
  ASSUME NEW ats, Timed(ats), NEW h, Queue(h, ats), NEW c \in Members(h)
  PROVE  Queue(Manual!RemoveAt(h, h.m[c], ats), ats)
         /\ Members(Manual!RemoveAt(h, h.m[c], ats)) = Members(h) \ {c}
<1> DEFINE l == Len(h.heap)
           n == l - 1
           i == h.m[c]
           s == Manual!Swap(h, i, l)
           d == Manual!Down(s, i, n, ats)
           r == IF i = l THEN h ELSE IF d = s THEN Manual!Up(s, i, ats) ELSE d
<1>1. Manual!RemoveAt(h, i, ats) = Manual!DropLast(r)
  BY DEF Manual!RemoveAt
<1>2. i \in 1..l /\ h.heap[i] = c /\ l \in Nat /\ Indexed(h) /\ Ordered(Due(h, ats), l)
  BY DueFacts DEF Queue, Indexed, Members
<1>3. n \in Nat /\ l = n + 1 /\ Len(h.heap) = n + 1 /\ i \in 1..n + 1
  BY <1>2
<1>4. SUFFICES Indexed(r) /\ Len(r.heap) = n + 1 /\ Ordered(Due(r, ats), n)
               /\ r.heap[n + 1] = c /\ Members(r) = Members(h)
  <2> HIDE DEF r, n
  <2> QED
    BY <1>1, <1>3, <1>4, DropLastQueue
<1>5. CASE i = l
  <2>1. r = h
    BY <1>5
  <2>2. Ordered(Due(h, ats), n)
    <3>1. \A k \in 2..n : k \in 2..l
      BY <1>2
    <3> QED
      BY <1>2, <3>1 DEF Ordered
  <2> QED
    BY <1>2, <1>3, <1>5, <2>1, <2>2
<1>6. CASE i # l
  <2>1. Rearranged(h, s, n + 1) /\ s.heap[n + 1] = c /\ RemReady(Due(s, ats), i, n)
    <3> HIDE DEF n
    <3> QED
      BY <1>2, <1>3, SwapLast
  <2>2. Indexed(s) /\ Len(s.heap) = n + 1 /\ Members(s) = Members(h)
    BY <1>3, <2>1 DEF Rearranged
  <2>3. i \in 1..n /\ n <= Len(s.heap) /\ i \in 1..Len(s.heap) /\ n + 1 \in n + 1..Len(s.heap)
    BY <1>2, <1>6, <2>2
  <2> HIDE DEF s, n, l, i
  <2>4. /\ Rearranged(s, d, n)
        /\ \/ Ordered(Due(d, ats), n)
           \/ d = s /\ UpReady(Due(s, ats), i, n)
    BY <1>3, <2>1, <2>2, <2>3, DownSpec
  <2> HIDE DEF d
  <2>5. Rearranged(s, r, n) /\ Ordered(Due(r, ats), n)
    <3>1. CASE d = s
      <4>1. UpReady(Due(s, ats), i, n)
        <5>1. CASE Ordered(Due(d, ats), n)
          <6>1. Len(s.heap) \in Nat /\ Due(s, ats) \in [1..Len(s.heap) -> Nat]
            BY <2>2, DueFacts
          <6>2. n \in 0..Len(s.heap)
            BY <1>3, <2>3, <6>1
          <6> QED
            BY <2>3, <3>1, <5>1, <6>1, <6>2, OrderedIsReady
        <5> QED
          BY <2>4, <5>1
      <4>2. r = Manual!Up(s, i, ats)
        BY <1>6, <3>1
      <4> HIDE DEF r
      <4> QED
        BY <1>3, <2>2, <2>3, <4>1, <4>2, UpSpec
    <3>2. CASE d # s
      BY <1>6, <2>4, <3>2
    <3> QED
      BY <3>1, <3>2
  <2> HIDE DEF r
  <2> QED
    BY <2>1, <2>2, <2>3, <2>5 DEF Rearranged
<1> QED
  BY <1>5, <1>6

LEMMA PopQueue ==
  ASSUME NEW ats, Timed(ats), NEW h, Queue(h, ats), h.heap # <<>>
  PROVE  Queue(Manual!Pop(h, ats), ats)
         /\ Members(Manual!Pop(h, ats)) = Members(h) \ {h.heap[1]}
<1> DEFINE l == Len(h.heap)
           n == l - 1
           s == Manual!Swap(h, 1, l)
           d == Manual!Down(s, 1, n, ats)
<1>1. Manual!Pop(h, ats) = Manual!DropLast(d)
  BY DEF Manual!Pop
<1>2. Indexed(h) /\ h.heap \in Seq(Clients)
  BY DEF Queue, Indexed, Manual!Heaps
<1>3. n \in Nat /\ l = n + 1 /\ Len(h.heap) = n + 1 /\ 1 \in 1..n + 1
  BY <1>2
<1>4. Rearranged(h, s, n + 1) /\ s.heap[n + 1] = h.heap[1] /\ RemReady(Due(s, ats), 1, n)
  <2>1. s = Manual!Swap(h, 1, n + 1)
    BY <1>3
  <2> HIDE DEF n, l
  <2>2. LET u == Manual!Swap(h, 1, n + 1)
        IN  /\ Rearranged(h, u, n + 1)
            /\ u.heap[n + 1] = h.heap[1]
            /\ RemReady(Due(u, ats), 1, n)
    BY <1>3, SwapLast, Zenon
  <2> HIDE DEF s
  <2> QED
    BY <2>1, <2>2
<1>5. Indexed(s) /\ Len(s.heap) = n + 1 /\ Members(s) = Members(h)
  BY <1>3, <1>4 DEF Rearranged
<1>6. n <= Len(s.heap) /\ 1 \in 1..Len(s.heap) /\ n + 1 \in n + 1..Len(s.heap)
  BY <1>3, <1>5
<1> HIDE DEF s, n, l
<1>7. /\ Rearranged(s, d, n)
      /\ \/ Ordered(Due(d, ats), n)
         \/ d = s /\ UpReady(Due(s, ats), 1, n)
  BY <1>3, <1>4, <1>5, <1>6, DownSpec
<1> HIDE DEF d
<1>8. Ordered(Due(d, ats), n)
  <2>1. CASE d = s /\ UpReady(Due(s, ats), 1, n)
    BY <1>3, <2>1 DEF UpReady, Ordered
  <2> QED
    BY <1>7, <2>1
<1>9. Indexed(d) /\ Len(d.heap) = n + 1 /\ d.heap[n + 1] = h.heap[1] /\ Members(d) = Members(h)
  BY <1>4, <1>5, <1>6, <1>7 DEF Rearranged
<1> QED
  BY <1>1, <1>3, <1>8, <1>9, DropLastQueue

-----------------------------------------------------------------------------
(* The invariant of manual time.  mu is held by the AdvanceTo that is      *)
(* firing, which has set the time;                                         *)
LockInv ==
    \A a \in Advancers :
        /\ mu = a <=> adv[a].at \in {"timers", "tickers"}
        /\ adv[a].at \in {"timers", "tickers"} => now >= adv[a].target

(* no timer is due when it is not, or is done with the timers;             *)
Settled == mu = Free \/ \E a \in Advancers : adv[a].at = "tickers"

DueInv == Settled => \A c \in Members(q) : mt[c].at > now

(* a timer is queued only when its client is in no call, and its channel   *)
(* is empty then; a Reset has counted from a moment since it began;        *)
ClientOK(c) ==
    /\ c \in Members(q) => pc[c] = "idle" /\ mt[c].ch = "empty"
    /\ pc[c] = "none" => mt[c] = Manual!Blank
    /\ pc[c] \in {"now", "add"} => mt[c].began <= now
    /\ pc[c] = "add" => /\ mt[c].ch = "empty"
                        /\ \E d \in Durations, t \in mt[c].began..now : mt[c].at = t + d

ClientInv == \A c \in Clients : ClientOK(c)

(* and a ticker's ticks follow each other.                                 *)
Chain(t) ==
    /\ t.ch = <<>> => t.next = t.last + t.dur
    /\ t.ch # <<>> => t.ch[1] = t.last + t.dur /\ t.next = t.ch[Len(t.ch)] + t.dur
    /\ \A i \in 2..Len(t.ch) : t.ch[i] = t.ch[i - 1] + t.dur

TickInv == \A k \in Tickers : Chain(tick[k])

ManualInv ==
    /\ Manual!TypeOK
    /\ LockInv
    /\ Queue(q, mt)
    /\ DueInv
    /\ ClientInv
    /\ TickInv

ClockInv == now \in 0..MaxTime /\ answer \in [Clients -> BOOLEAN]

LEMMA ManualTyped ==
  ASSUME ManualInv, ClockInv
  PROVE  /\ pc \in [Clients -> {"none", "idle", "now", "add"}]
         /\ mt \in [Clients -> [at : 0..2*MaxTime, ch : {"nil", "empty", "full"},
                                began : 0..MaxTime]]
         /\ adv \in [Advancers -> [at : {"idle", "to", "timers", "tickers"},
                                   target : 0..MaxTime, cur : Nat]]
         /\ Timed(mt)
         /\ now \in Nat /\ MaxTime \in Nat /\ now <= MaxTime
         /\ \A d \in Durations : d \in Nat /\ d <= MaxTime
         /\ Free \notin Advancers
<1>1. MaxTime \in Nat /\ Durations \subseteq 0..MaxTime /\ Free \notin Advancers
  BY TimeAssumption
<1>2. mt \in [Clients -> [at : 0..2*MaxTime, ch : {"nil", "empty", "full"},
                          began : 0..MaxTime]]
  BY DEF ManualInv, Manual!TypeOK
<1>3. Timed(mt)
  <2> SUFFICES ASSUME NEW c \in Clients PROVE mt[c].at \in Nat
    BY DEF Timed
  <2>1. mt[c].at \in 0..2*MaxTime
    BY <1>2
  <2> QED
    BY <2>1
<1> QED
  BY <1>1, <1>2, <1>3 DEF ManualInv, Manual!TypeOK, ClockInv

LEMMA RemovedQueue ==
  ASSUME ManualInv, ClockInv, NEW c \in Clients
  PROVE  /\ Queue(Manual!Removed(c), mt)
         /\ Members(Manual!Removed(c)) = Members(q) \ {c}
<1>1. Queue(q, mt) /\ Timed(mt)
  BY ManualTyped DEF ManualInv
<1>2. CASE c \in Members(q)
  <2>1. Manual!Removed(c) = Manual!RemoveAt(q, q.m[c], mt)
    BY <1>2 DEF Manual!Removed, Members
  <2> QED
    BY <1>1, <1>2, <2>1, RemoveQueue
<1>3. CASE c \notin Members(q)
  <2>1. Manual!Removed(c) = q
    BY <1>3 DEF Manual!Removed, Members
  <2> QED
    BY <1>1, <1>3, <2>1
<1> QED
  BY <1>2, <1>3

(* The steps of manual time, by what they change. *)
ClientStep(c) ==
    \/ Manual!NewTimer(c) \/ Manual!ResetStop(c) \/ Manual!ResetAdd(c)
    \/ \E d \in Durations : Manual!ResetNow(c, d)
    \/ Manual!Receive(c) \/ Manual!Stop(c)

TickerStep(k) == Manual!NewTicker(k) \/ Manual!StopTicker(k) \/ Manual!ReceiveTick(k)

AdvanceStep(a) ==
    \/ Manual!Advance(a) \/ Manual!AdvanceTo(a) \/ Manual!TimersFired(a)
    \/ Manual!TickPanic(a) \/ Manual!NextTicker(a) \/ Manual!AdvanceReturn(a)

LEMMA ManualSteps ==
  ASSUME Manual!Next
  PROVE  \/ \E c \in Clients : ClientStep(c)
         \/ \E k \in Tickers : TickerStep(k)
         \/ \E a \in Advancers : AdvanceStep(a) \/ Manual!FireTimer(a) \/ Manual!SendTick(a)
BY DEF Manual!Next, Manual!Finish, Manual!Sweep, ClientStep, TickerStep, AdvanceStep

LEMMA ClientStepKeeps ==
  ASSUME NEW c \in Clients, ClientStep(c)
  PROVE  UNCHANGED <<now, mu, adv, list, tick>>
BY DEF ClientStep, Manual!NewTimer, Manual!ResetStop, Manual!ResetAdd, Manual!ResetNow,
       Manual!Receive, Manual!Stop, Manual!manVars

LEMMA TickerStepKeeps ==
  ASSUME NEW k \in Tickers, TickerStep(k)
  PROVE  UNCHANGED <<now, pc, answer, mt, q, mu, adv>>
BY DEF TickerStep, Manual!NewTicker, Manual!StopTicker, Manual!ReceiveTick

LEMMA AdvanceStepKeeps ==
  ASSUME NEW a \in Advancers, AdvanceStep(a)
  PROVE  UNCHANGED <<pc, answer, mt, q, list, tick>>
BY DEF AdvanceStep, Manual!Advance, Manual!AdvanceTo, Manual!TimersFired,
       Manual!TickPanic, Manual!NextTicker, Manual!AdvanceReturn

(* Only AdvanceTo changes the time, and forward. *)
LEMMA TimeForward ==
  ASSUME ManualInv, ClockInv, Manual!Next
  PROVE  now' \in 0..MaxTime /\ now' >= now
<1>1. now \in 0..MaxTime /\ adv \in [Advancers -> [at : {"idle", "to", "timers", "tickers"},
                                   target : 0..MaxTime, cur : Nat]] /\ now <= now
  BY ManualTyped
<1>2. ASSUME NEW a \in Advancers, Manual!AdvanceTo(a) PROVE now' \in 0..MaxTime /\ now' >= now
  <2>1. adv[a].target \in 0..MaxTime
    BY <1>1
  <2> QED
    BY <1>1, <1>2, <2>1 DEF Manual!AdvanceTo
<1>3. ASSUME UNCHANGED now PROVE now' \in 0..MaxTime /\ now' >= now
  BY <1>1, <1>3
<1>4. UNCHANGED now \/ \E a \in Advancers : Manual!AdvanceTo(a)
  <2>1. ASSUME NEW a \in Advancers, AdvanceStep(a), ~Manual!AdvanceTo(a) PROVE UNCHANGED now
    BY <2>1 DEF AdvanceStep, Manual!Advance, Manual!TimersFired,
       Manual!TickPanic, Manual!NextTicker, Manual!AdvanceReturn
  <2>2. ASSUME NEW a \in Advancers, Manual!FireTimer(a) \/ Manual!SendTick(a) PROVE UNCHANGED now
    BY <2>2, Zenon DEF Manual!FireTimer, Manual!SendTick
  <2> QED
    BY <2>1, <2>2, ManualSteps, ClientStepKeeps, TickerStepKeeps
<1> QED
  BY <1>2, <1>3, <1>4

(* The mutex and the advancers. *)
LEMMA LockStep ==
  ASSUME ManualInv, ClockInv, Manual!Next
  PROVE  LockInv'
<1>1. /\ adv \in [Advancers -> [at : {"idle", "to", "timers", "tickers"},
                                target : 0..MaxTime, cur : Nat]]
      /\ Free \notin Advancers /\ now \in Nat
      /\ \A b \in Advancers : mu = b <=> adv[b].at \in {"timers", "tickers"}
      /\ \A b \in Advancers : adv[b].at \in {"timers", "tickers"} => now >= adv[b].target
  BY ManualTyped DEF ManualInv, LockInv
<1>2. now' >= now /\ now' \in Nat
  BY TimeForward
<1>3. \A b \in Advancers : adv[b].target \in Nat
  BY <1>1
<1>4. ASSUME UNCHANGED <<mu, adv>> PROVE LockInv'
  <2>1. \A b \in Advancers : adv[b].at \in {"timers", "tickers"} => now' >= adv[b].target
    BY <1>1, <1>2, <1>3
  <2> QED
    BY <1>1, <1>4, <2>1 DEF LockInv
<1>5. ASSUME NEW a \in Advancers,
             \A b \in Advancers \ {a} : adv'[b] = adv[b],
             adv'[a].at \in {"timers", "tickers"} => now' >= adv'[a].target,
             adv'[a].at \in {"timers", "tickers"} <=> mu' = a,
             mu' \in {a, mu} \/ (mu' = Free /\ mu = a),
             mu' = a => mu \in {a, Free}
      PROVE  LockInv'
  <2> SUFFICES ASSUME NEW b \in Advancers
               PROVE  /\ mu' = b <=> adv'[b].at \in {"timers", "tickers"}
                      /\ adv'[b].at \in {"timers", "tickers"} => now' >= adv'[b].target
    BY DEF LockInv
  <2>1. CASE b = a
    BY <1>5, <2>1
  <2>2. CASE b # a
    <3>1. adv'[b] = adv[b]
      BY <1>5, <2>2
    <3>2. mu' = b <=> mu = b
      BY <1>1, <1>5, <2>2
    <3>3. adv[b].at \in {"timers", "tickers"} => now' >= adv[b].target
      BY <1>1, <1>2, <1>3
    <3> QED
      BY <1>1, <3>1, <3>2, <3>3
  <2> QED
    BY <2>1, <2>2
<1>6. ASSUME NEW a \in Advancers, Manual!Advance(a) PROVE LockInv'
  <2>1. PICK d \in Durations \ {0} :
          adv' = [adv EXCEPT ![a] = [at |-> "to", target |-> now + d, cur |-> 0]]
    BY <1>6 DEF Manual!Advance
  <2>2. mu' = mu /\ mu = Free
    BY <1>6 DEF Manual!Advance
  <2>3. adv'[a].at = "to" /\ \A b \in Advancers \ {a} : adv'[b] = adv[b]
    BY <1>1, <2>1
  <2>4. mu' # a /\ adv'[a].at \notin {"timers", "tickers"}
    BY <1>1, <2>2, <2>3
  <2> QED
    BY <1>5, <2>2, <2>3, <2>4
<1>7. ASSUME NEW a \in Advancers, Manual!AdvanceTo(a) PROVE LockInv'
  <2>1. CASE adv[a].target <= now
    <3>1. adv' = [adv EXCEPT ![a] = Manual!Idle] /\ mu' = mu /\ mu = Free
      BY <1>1, <1>3, <1>7, <2>1 DEF Manual!AdvanceTo
    <3>2. adv'[a].at = "idle" /\ \A b \in Advancers \ {a} : adv'[b] = adv[b]
      BY <1>1, <3>1 DEF Manual!Idle
    <3>3. mu' # a /\ adv'[a].at \notin {"timers", "tickers"}
      BY <1>1, <3>1, <3>2
    <3> QED
      BY <1>5, <3>1, <3>2, <3>3
  <2>2. CASE adv[a].target > now
    <3>1. adv' = [adv EXCEPT ![a].at = "timers"] /\ mu' = a /\ mu = Free /\ now' = adv[a].target
      BY <1>1, <1>3, <1>7, <2>2 DEF Manual!AdvanceTo
    <3>2. adv'[a].at = "timers" /\ adv'[a].target = adv[a].target
          /\ \A b \in Advancers \ {a} : adv'[b] = adv[b]
      BY <1>1, <3>1
    <3>3. now' >= adv'[a].target
      BY <1>2, <3>1, <3>2
    <3>4. adv'[a].at \in {"timers", "tickers"} /\ mu' = a /\ mu \in {a, Free}
      BY <3>1, <3>2
    <3> QED
      BY <1>5, <3>2, <3>3, <3>4
  <2> QED
    BY <1>1, <1>3, <2>1, <2>2
<1>8. ASSUME NEW a \in Advancers, Manual!TimersFired(a) PROVE LockInv'
  <2>1. adv[a].at = "timers" /\ mu' = mu /\ now' = now
        /\ adv' = [adv EXCEPT ![a].at = "tickers", ![a].cur = 1]
    BY <1>8 DEF Manual!TimersFired
  <2>2. adv'[a].at = "tickers" /\ adv'[a].target = adv[a].target
        /\ \A b \in Advancers \ {a} : adv'[b] = adv[b]
    BY <1>1, <2>1
  <2>3. mu = a /\ now' >= adv'[a].target
    BY <1>1, <2>1, <2>2
  <2> QED
    BY <1>5, <2>1, <2>2, <2>3
<1>9. ASSUME NEW a \in Advancers, Manual!NextTicker(a) PROVE LockInv'
  <2>1. adv[a].at = "tickers" /\ mu' = mu /\ now' = now
        /\ adv' = [adv EXCEPT ![a].cur = @ + 1]
    BY <1>9 DEF Manual!NextTicker
  <2>2. adv'[a].at = "tickers" /\ adv'[a].target = adv[a].target
        /\ \A b \in Advancers \ {a} : adv'[b] = adv[b]
    BY <1>1, <2>1
  <2>3. mu = a /\ now' >= adv'[a].target
    BY <1>1, <2>1, <2>2
  <2> QED
    BY <1>5, <2>1, <2>2, <2>3
<1>10. ASSUME NEW a \in Advancers, Manual!TickPanic(a) \/ Manual!AdvanceReturn(a) PROVE LockInv'
  <2>1. adv[a].at = "tickers" /\ mu' = Free /\ adv' = [adv EXCEPT ![a] = Manual!Idle]
    BY <1>10 DEF Manual!TickPanic, Manual!AdvanceReturn
  <2>2. adv'[a].at = "idle" /\ \A b \in Advancers \ {a} : adv'[b] = adv[b]
    BY <1>1, <2>1 DEF Manual!Idle
  <2>3. mu = a
    BY <1>1, <2>1, SMTT(20)
  <2> QED
    BY <1>1, <1>5, <2>1, <2>2, <2>3
<1>11. ASSUME NEW a \in Advancers, Manual!FireTimer(a) \/ Manual!SendTick(a) PROVE LockInv'
  BY <1>4, <1>11 DEF Manual!FireTimer, Manual!SendTick
<1>12. ASSUME NEW a \in Advancers, AdvanceStep(a) PROVE LockInv'
  BY <1>6, <1>7, <1>8, <1>9, <1>10, <1>12 DEF AdvanceStep
<1> QED
  BY <1>4, <1>11, <1>12, ManualSteps, ClientStepKeeps, TickerStepKeeps

(* What a client's step does to its own timer and to the queue; it leaves  *)
(* the others as they were.                                                *)
MtSpace == [at : 0..2*MaxTime, ch : {"nil", "empty", "full"}, began : 0..MaxTime]

Others(c) ==
    \A x \in Clients \ {c} : /\ mt'[x] = mt[x]
                             /\ pc'[x] = pc[x]
                             /\ x \in Members(q') <=> x \in Members(q)

OwnTimer(c) ==
    /\ mt' \in [Clients -> MtSpace]
    /\ pc' \in [Clients -> {"none", "idle", "now", "add"}]
    /\ answer' \in [Clients -> BOOLEAN]
    /\ Queue(q', mt')
    /\ ClientOK(c)'
    /\ c \in Members(q') => \/ mt'[c].at > now
                            \/ c \in Members(q) /\ mt'[c].at = mt[c].at

LEMMA MtChange ==
  ASSUME ManualInv, ClockInv, NEW c \in Clients, NEW r \in MtSpace, mt' = [mt EXCEPT ![c] = r]
  PROVE  /\ mt' \in [Clients -> MtSpace]
         /\ mt'[c] = r
         /\ \A x \in Clients \ {c} : mt'[x] = mt[x]
<1>1. mt \in [Clients -> MtSpace]
  BY ManualTyped DEF MtSpace
<1> QED
  BY <1>1

LEMMA PcChange ==
  ASSUME ManualInv, ClockInv, NEW c \in Clients, NEW s \in {"none", "idle", "now", "add"},
         pc' = [pc EXCEPT ![c] = s]
  PROVE  /\ pc' \in [Clients -> {"none", "idle", "now", "add"}]
         /\ pc'[c] = s
         /\ \A x \in Clients \ {c} : pc'[x] = pc[x]
BY ManualTyped

LEMMA MtField ==
  ASSUME ManualInv, ClockInv, NEW c \in Clients
  PROVE  /\ mt[c] \in MtSpace /\ mt[c].at \in 0..2*MaxTime /\ mt[c].began \in 0..MaxTime
         /\ mt[c] = [at |-> mt[c].at, ch |-> mt[c].ch, began |-> mt[c].began]
         /\ mt \in [Clients -> MtSpace]
         /\ pc[c] \in {"none", "idle", "now", "add"}
         /\ ClientOK(c)
BY ManualTyped DEF MtSpace, ManualInv, ClientInv

Altered(c, at, ch, began) ==
    /\ mt' \in [Clients -> MtSpace]
    /\ mt'[c].at = at /\ mt'[c].ch = ch /\ mt'[c].began = began
    /\ \A x \in Clients \ {c} : mt'[x] = mt[x]

LEMMA MtFields ==
  ASSUME ManualInv, ClockInv, NEW c \in Clients, NEW x \in {"nil", "empty", "full"},
         NEW y \in 0..MaxTime, NEW z \in 0..2*MaxTime
  PROVE  /\ mt' = [mt EXCEPT ![c].ch = x] => Altered(c, mt[c].at, x, mt[c].began)
         /\ mt' = [mt EXCEPT ![c].at = z, ![c].ch = x] => Altered(c, z, x, mt[c].began)
         /\ mt' = [mt EXCEPT ![c].ch = x, ![c].began = y] => Altered(c, mt[c].at, x, y)
         /\ mt' = [mt EXCEPT ![c].began = y] => Altered(c, mt[c].at, mt[c].ch, y)
<1>1. mt \in [Clients -> MtSpace]
  BY MtField
<1>2. ASSUME mt' = [mt EXCEPT ![c].ch = x] PROVE Altered(c, mt[c].at, x, mt[c].began)
  BY <1>1, <1>2 DEF MtSpace, Altered
<1>3. ASSUME mt' = [mt EXCEPT ![c].at = z, ![c].ch = x] PROVE Altered(c, z, x, mt[c].began)
  BY <1>1, <1>3 DEF MtSpace, Altered
<1>4. ASSUME mt' = [mt EXCEPT ![c].ch = x, ![c].began = y] PROVE Altered(c, mt[c].at, x, y)
  BY <1>1, <1>4 DEF MtSpace, Altered
<1>5. ASSUME mt' = [mt EXCEPT ![c].began = y] PROVE Altered(c, mt[c].at, mt[c].ch, y)
  BY <1>1, <1>5 DEF MtSpace, Altered
<1> QED
  BY <1>2, <1>3, <1>4, <1>5

LEMMA NewTimerStep ==
  ASSUME ManualInv, ClockInv, NEW c \in Clients, Manual!NewTimer(c)
  PROVE  Others(c) /\ OwnTimer(c)
<1>1. pc[c] = "none" /\ pc' = [pc EXCEPT ![c] = "idle"] /\ mt' = mt /\ q' = q
      /\ answer' = [answer EXCEPT ![c] = FALSE] /\ now' = now
  BY DEF Manual!NewTimer, Manual!manVars
<1>2. answer' \in [Clients -> BOOLEAN]
  BY <1>1 DEF ClockInv
<1>3. /\ pc' \in [Clients -> {"none", "idle", "now", "add"}]
      /\ pc'[c] = "idle" /\ \A x \in Clients \ {c} : pc'[x] = pc[x]
  BY <1>1, PcChange
<1>4. c \notin Members(q)
  BY <1>1, MtField DEF ClientOK
<1>5. ClientOK(c)'
  BY <1>1, <1>3, <1>4 DEF ClientOK
<1>6. Queue(q', mt') /\ mt' \in [Clients -> MtSpace]
  BY <1>1, MtField DEF ManualInv
<1> QED
  BY <1>1, <1>2, <1>3, <1>4, <1>5, <1>6 DEF Others, OwnTimer

LEMMA ResetStopStep ==
  ASSUME ManualInv, ClockInv, NEW c \in Clients, Manual!ResetStop(c)
  PROVE  Others(c) /\ OwnTimer(c)
<1>1. pc' = [pc EXCEPT ![c] = "now"] /\ q' = Manual!Removed(c)
      /\ mt' = [mt EXCEPT ![c] = [Manual!Blank EXCEPT !.began = now]]
      /\ answer' = answer /\ now' = now
  BY DEF Manual!ResetStop
<1> DEFINE r == [Manual!Blank EXCEPT !.began = now]
<1>2. r \in MtSpace /\ r.began = now /\ now \in Nat
  BY ManualTyped DEF Manual!Blank, MtSpace
<1> HIDE DEF r
<1>3. /\ pc' \in [Clients -> {"none", "idle", "now", "add"}]
      /\ pc'[c] = "now" /\ \A x \in Clients \ {c} : pc'[x] = pc[x]
  BY <1>1, PcChange
<1>4. /\ mt' \in [Clients -> MtSpace] /\ mt'[c] = r
      /\ \A x \in Clients \ {c} : mt'[x] = mt[x]
  BY <1>1, <1>2, MtChange DEF r
<1>5. Queue(q', mt) /\ Members(q') = Members(q) \ {c}
  BY <1>1, RemovedQueue
<1>6. Queue(q', mt')
  <2>1. \A x \in Members(q') : mt'[x].at = mt[x].at
    BY <1>4, <1>5 DEF Members
  <2> QED
    BY <1>5, <2>1, QueueOfOthers
<1>7. ClientOK(c)'
  BY <1>1, <1>2, <1>3, <1>4, <1>5 DEF ClientOK
<1> QED
  BY <1>1, <1>3, <1>4, <1>5, <1>6, <1>7 DEF Others, OwnTimer, ClockInv

LEMMA StopStep ==
  ASSUME ManualInv, ClockInv, NEW c \in Clients, Manual!Stop(c)
  PROVE  Others(c) /\ OwnTimer(c)
<1>1. pc' = [pc EXCEPT ![c] = "none"] /\ q' = Manual!Removed(c)
      /\ mt' = [mt EXCEPT ![c] = Manual!Blank]
      /\ answer' = [answer EXCEPT ![c] = q.m[c] # 0] /\ now' = now
  BY DEF Manual!Stop
<1>2. Manual!Blank \in MtSpace
  BY ManualTyped DEF Manual!Blank, MtSpace
<1>3. /\ pc' \in [Clients -> {"none", "idle", "now", "add"}]
      /\ pc'[c] = "none" /\ \A x \in Clients \ {c} : pc'[x] = pc[x]
  BY <1>1, PcChange
<1>4. /\ mt' \in [Clients -> MtSpace] /\ mt'[c] = Manual!Blank
      /\ \A x \in Clients \ {c} : mt'[x] = mt[x]
  BY <1>1, <1>2, MtChange
<1>5. Queue(q', mt) /\ Members(q') = Members(q) \ {c}
  BY <1>1, RemovedQueue
<1>6. Queue(q', mt')
  <2>1. \A x \in Members(q') : mt'[x].at = mt[x].at
    BY <1>4, <1>5 DEF Members
  <2> QED
    BY <1>5, <2>1, QueueOfOthers
<1>7. ClientOK(c)'
  BY <1>3, <1>4, <1>5 DEF ClientOK
<1>8. answer' \in [Clients -> BOOLEAN]
  BY <1>1 DEF ClockInv
<1> QED
  BY <1>3, <1>4, <1>5, <1>6, <1>7, <1>8 DEF Others, OwnTimer

LEMMA ResetNowStep ==
  ASSUME ManualInv, ClockInv, NEW c \in Clients, NEW d \in Durations, Manual!ResetNow(c, d)
  PROVE  Others(c) /\ OwnTimer(c)
<1>1. pc[c] = "now" /\ pc' = [pc EXCEPT ![c] = "add"] /\ q' = q
      /\ mt' = [mt EXCEPT ![c].at = now + d, ![c].ch = "empty"]
      /\ answer' = answer /\ now' = now
  BY DEF Manual!ResetNow
<1>2. now + d \in 0..2*MaxTime /\ now \in Nat
  BY ManualTyped
<1>3. mt[c].began \in 0..MaxTime
  BY MtField
<1>4. /\ pc' \in [Clients -> {"none", "idle", "now", "add"}]
      /\ pc'[c] = "add" /\ \A x \in Clients \ {c} : pc'[x] = pc[x]
  BY <1>1, PcChange
<1>5. Altered(c, now + d, "empty", mt[c].began)
  BY <1>1, <1>2, <1>3, MtFields
<1>6. c \notin Members(q) /\ mt[c].began <= now
  BY <1>1, MtField DEF ClientOK
<1>7. Queue(q', mt')
  <2>1. \A x \in Members(q) : mt'[x].at = mt[x].at
    BY <1>5, <1>6 DEF Members, Altered
  <2>2. Queue(q, mt)
    BY DEF ManualInv
  <2> QED
    BY <1>1, <2>1, <2>2, QueueOfOthers
<1>8. ClientOK(c)'
  <2>1. now \in mt[c].began..now /\ now \in Nat
    <3>1. now \in Nat /\ mt[c].began \in 0..MaxTime
      BY <1>2, <1>3
    <3> QED
      BY <1>6, <3>1
  <2>2. \E e \in Durations, t \in mt[c].began..now : now + d = t + e
    BY <2>1
  <2> QED
    BY <1>1, <1>2, <1>4, <1>5, <1>6, <2>2 DEF ClientOK, Altered
<1> QED
  BY <1>1, <1>4, <1>5, <1>6, <1>7, <1>8 DEF Others, OwnTimer, Altered, ClockInv

LEMMA ResetAddStep ==
  ASSUME ManualInv, ClockInv, NEW c \in Clients, Manual!ResetAdd(c)
  PROVE  /\ Others(c) /\ OwnTimer(c)
         /\ mt'[c].at = mt[c].at /\ mt'[c].began = 0
         /\ \/ mt[c].at <= now /\ mt'[c].ch = "full" /\ c \notin Members(q')
            \/ mt[c].at > now /\ mt'[c].ch = "empty" /\ c \in Members(q')
<1>1. pc[c] = "add" /\ pc' = [pc EXCEPT ![c] = "idle"] /\ answer' = answer /\ now' = now
  BY DEF Manual!ResetAdd
<1>2. /\ pc' \in [Clients -> {"none", "idle", "now", "add"}]
      /\ pc'[c] = "idle" /\ \A x \in Clients \ {c} : pc'[x] = pc[x]
  BY <1>1, PcChange
<1>3. c \notin Members(q) /\ mt[c].ch = "empty"
  BY <1>1, MtField DEF ClientOK
<1>4. Queue(q, mt) /\ Timed(mt) /\ MaxTime \in Nat
  BY ManualTyped DEF ManualInv
<1>5. mt[c].at \in 0..2*MaxTime /\ 0 \in 0..MaxTime
  <2>1. mt[c].at \in 0..2*MaxTime
    BY MtField
  <2> QED
    BY <1>4, <2>1
<1>6. CASE mt[c].at <= now /\ mt' = [mt EXCEPT ![c].ch = "full", ![c].began = 0] /\ q' = q
  <2>3. Altered(c, mt[c].at, "full", 0)
    BY <1>4, <1>5, <1>6, MtFields
  <2>4. Queue(q', mt')
    <3>1. \A x \in Members(q) : mt'[x].at = mt[x].at
      BY <1>3, <2>3 DEF Members, Altered
    <3> QED
      BY <1>4, <1>6, <3>1, QueueOfOthers
  <2>5. ClientOK(c)'
    BY <1>2, <1>3, <1>6 DEF ClientOK
  <2> QED
    BY <1>1, <1>2, <1>3, <1>6, <2>3, <2>4, <2>5 DEF Others, OwnTimer, Altered, ClockInv
<1>7. CASE mt[c].at > now /\ mt' = [mt EXCEPT ![c].began = 0] /\ q' = Manual!Push(q, c, mt)
  <2>3. Altered(c, mt[c].at, "empty", 0)
    BY <1>3, <1>4, <1>5, <1>7, MtFields
  <2>4. Queue(q', mt) /\ Members(q') = Members(q) \cup {c}
    BY <1>3, <1>4, <1>7, PushQueue
  <2>5. Queue(q', mt')
    <3>1. \A x \in Members(q') : mt'[x].at = mt[x].at
      BY <2>3 DEF Members, Altered
    <3> QED
      BY <2>4, <3>1, QueueOfOthers
  <2>6. ClientOK(c)'
    BY <1>2, <2>3 DEF ClientOK, Altered
  <2> QED
    BY <1>1, <1>2, <1>3, <1>7, <2>3, <2>4, <2>5, <2>6 DEF Others, OwnTimer, Altered, ClockInv
<1> QED
  BY <1>6, <1>7 DEF Manual!ResetAdd

LEMMA ReceiveStep ==
  ASSUME ManualInv, ClockInv, NEW c \in Clients, Manual!Receive(c)
  PROVE  /\ Others(c) /\ OwnTimer(c)
         /\ c \notin Members(q) /\ c \notin Members(q')
         /\ Altered(c, mt[c].at, "empty", mt[c].began)
<1>1. pc[c] = "idle" /\ pc' = pc /\ answer' = answer /\ now' = now /\ q' = q
      /\ mt[c].ch = "full" /\ mt' = [mt EXCEPT ![c].ch = "empty"]
  BY DEF Manual!Receive
<1>2. c \notin Members(q)
  BY <1>1, MtField DEF ClientOK
<1>5. mt[c].at \in 0..2*MaxTime /\ mt[c].began \in 0..MaxTime
  BY MtField
<1>6. Altered(c, mt[c].at, "empty", mt[c].began)
  BY <1>1, <1>5, MtFields
<1>7. Queue(q', mt')
  <2>1. \A x \in Members(q) : mt'[x].at = mt[x].at
    BY <1>2, <1>6 DEF Members, Altered
  <2>2. Queue(q, mt)
    BY DEF ManualInv
  <2> QED
    BY <1>1, <2>1, <2>2, QueueOfOthers
<1>8. ClientOK(c)'
  BY <1>1, <1>2 DEF ClientOK
<1>9. pc' \in [Clients -> {"none", "idle", "now", "add"}]
  BY <1>1, ManualTyped
<1> QED
  BY <1>1, <1>2, <1>6, <1>7, <1>8, <1>9 DEF Others, OwnTimer, Altered, ClockInv

(* AdvanceTo fires the timer at the top. *)
LEMMA FireTimerStep ==
  ASSUME ManualInv, ClockInv, NEW a \in Advancers, Manual!FireTimer(a)
  PROVE  \E c \in Members(q) :
            /\ c \in Clients /\ mt[c].at <= now
            /\ Others(c) /\ OwnTimer(c)
            /\ c \notin Members(q')
            /\ Altered(c, mt[c].at, "full", mt[c].began)
<1>0. PICK c : c = q.heap[1]
  OBVIOUS
<1>1. q.heap # <<>> /\ mt[c].at <= now /\ mt' = [mt EXCEPT ![c].ch = "full"]
      /\ q' = Manual!Pop(q, mt) /\ pc' = pc /\ answer' = answer /\ now' = now
  BY <1>0 DEF Manual!FireTimer, Manual!AnyTimerDue
<1>2. Queue(q, mt) /\ Timed(mt)
  BY ManualTyped DEF ManualInv
<1>3. c \in Members(q) /\ c \in Clients
  <2>1. q.heap \in Seq(Clients) /\ \A i \in 1..Len(q.heap) : q.m[q.heap[i]] = i
    BY <1>2 DEF Queue, Indexed, Manual!Heaps
  <2>2. 1 \in 1..Len(q.heap)
    BY <1>1, <2>1
  <2> QED
    BY <1>0, <2>1, <2>2 DEF Members
<1>4. Queue(q', mt) /\ Members(q') = Members(q) \ {c}
  BY <1>0, <1>1, <1>2, PopQueue
<1>5. mt[c].at \in 0..2*MaxTime /\ mt[c].began \in 0..MaxTime
  BY MtField, <1>3
<1>8. Altered(c, mt[c].at, "full", mt[c].began)
  BY <1>1, <1>5, MtFields, <1>3
<1>9. Queue(q', mt')
  <2>1. \A x \in Members(q') : mt'[x].at = mt[x].at
    BY <1>4, <1>8 DEF Members, Altered
  <2> QED
    BY <1>4, <2>1, QueueOfOthers
<1>10. pc[c] = "idle"
  BY <1>3, MtField DEF ClientOK
<1>11. ClientOK(c)'
  <2>1. pc'[c] = "idle" /\ c \notin Members(q')
    BY <1>1, <1>4, <1>10
  <2> QED
    BY <2>1 DEF ClientOK
<1>12. pc' \in [Clients -> {"none", "idle", "now", "add"}]
  BY <1>1, ManualTyped
<1>13. Others(c) /\ OwnTimer(c)
  BY <1>1, <1>4, <1>8, <1>9, <1>11, <1>12 DEF Others, OwnTimer, Altered, ClockInv
<1> QED
  BY <1>1, <1>3, <1>4, <1>8, <1>13

LEMMA ClientStepFacts ==
  ASSUME ManualInv, ClockInv, NEW c \in Clients, ClientStep(c)
  PROVE  Others(c) /\ OwnTimer(c)
BY NewTimerStep, ResetStopStep, ResetNowStep, ResetAddStep, ReceiveStep, StopStep DEF ClientStep

(* One timer changes at most. *)
LEMMA TimersStep ==
  ASSUME ManualInv, ClockInv, Manual!Next
  PROVE  \/ \E c \in Clients : Others(c) /\ OwnTimer(c)
         \/ UNCHANGED <<pc, answer, mt, q>>
<1>1. ASSUME NEW a \in Advancers, Manual!SendTick(a) PROVE UNCHANGED <<pc, answer, mt, q>>
  BY <1>1 DEF Manual!SendTick
<1>2. ASSUME NEW a \in Advancers, Manual!FireTimer(a)
      PROVE  \E c \in Clients : Others(c) /\ OwnTimer(c)
  BY <1>2, FireTimerStep
<1> QED
  BY <1>1, <1>2, ManualSteps, ClientStepFacts, TickerStepKeeps, AdvanceStepKeeps

LEMMA ClientsStep ==
  ASSUME ManualInv, ClockInv, Manual!Next
  PROVE  ClientInv' /\ Queue(q, mt)'
<1>1. now' >= now /\ now \in Nat /\ now' \in Nat
  BY TimeForward, ManualTyped
<1>2. ASSUME NEW x \in Clients, mt'[x] = mt[x], pc'[x] = pc[x],
             x \in Members(q') <=> x \in Members(q)
      PROVE  ClientOK(x)'
  <2>1. ClientOK(x) /\ mt[x].began \in 0..MaxTime /\ MaxTime \in Nat
    BY MtField, ManualTyped
  <2>2. \A t : t \in mt[x].began..now => t \in mt[x].began..now'
    BY <1>1, <2>1
  <2>3. mt[x].began <= now => mt[x].began <= now'
    BY <1>1, <2>1
  <2> QED
    BY <1>2, <2>1, <2>2, <2>3 DEF ClientOK
<1>3. ASSUME NEW c \in Clients, Others(c), OwnTimer(c) PROVE ClientInv' /\ Queue(q, mt)'
  <2>1. ASSUME NEW x \in Clients PROVE ClientOK(x)'
    <3>1. CASE x = c
      BY <1>3, <3>1 DEF OwnTimer
    <3>2. CASE x # c
      BY <1>2, <1>3, <3>2 DEF Others
    <3> QED
      BY <3>1, <3>2
  <2> QED
    BY <1>3, <2>1 DEF ClientInv, OwnTimer
<1>4. ASSUME UNCHANGED <<pc, answer, mt, q>> PROVE ClientInv' /\ Queue(q, mt)'
  <2>1. Queue(q, mt)
    BY DEF ManualInv
  <2>2. Queue(q, mt)'
    BY <1>4, <2>1
  <2>3. \A x \in Clients : ClientOK(x)'
    BY <1>2, <1>4
  <2> QED
    BY <2>2, <2>3 DEF ClientInv
<1> QED
  BY <1>3, <1>4, TimersStep

(* When manual time is settled after a step, it was before it, or the      *)
(* timer at the top was seen not to be due.                                *)
LEMMA SettledStep ==
  ASSUME ManualInv, ClockInv, Manual!Next, Settled'
  PROVE  \/ Settled /\ now' = now
         \/ \E a \in Advancers : Manual!TimersFired(a)
<1>1. /\ adv \in [Advancers -> [at : {"idle", "to", "timers", "tickers"},
                                target : 0..MaxTime, cur : Nat]]
      /\ Free \notin Advancers
      /\ \A b \in Advancers : mu = b <=> adv[b].at \in {"timers", "tickers"}
  BY ManualTyped DEF ManualInv, LockInv
<1>2. ASSUME UNCHANGED <<now, mu, adv>> PROVE Settled /\ now' = now
  BY <1>2 DEF Settled
<1>3. ASSUME NEW a \in Advancers, Manual!Advance(a) PROVE Settled /\ now' = now
  BY <1>3 DEF Manual!Advance, Settled
<1>4. ASSUME NEW a \in Advancers, Manual!AdvanceTo(a) PROVE Settled /\ now' = now
  <2>1. mu = Free
    BY <1>4 DEF Manual!AdvanceTo
  <2>2. now' = now
    <3> SUFFICES ASSUME now' # now PROVE FALSE
      OBVIOUS
    <3>1. mu' = a /\ adv' = [adv EXCEPT ![a].at = "timers"]
      BY <1>4 DEF Manual!AdvanceTo
    <3>2. \A b \in Advancers : adv'[b].at \in {adv[b].at, "timers"}
      BY <1>1, <3>1
    <3>3. \A b \in Advancers : adv[b].at # "tickers"
      BY <1>1, <2>1
    <3>4. \A b \in Advancers : adv'[b].at # "tickers"
      BY <3>2, <3>3
    <3> QED
      BY <1>1, <3>1, <3>4 DEF Settled
  <2> QED
    BY <2>1, <2>2 DEF Settled
<1>5. ASSUME NEW a \in Advancers,
             Manual!TickPanic(a) \/ Manual!NextTicker(a) \/ Manual!AdvanceReturn(a)
      PROVE Settled /\ now' = now
  BY <1>5 DEF Manual!TickPanic, Manual!NextTicker, Manual!AdvanceReturn, Settled
<1>6. ASSUME NEW a \in Advancers, Manual!FireTimer(a) \/ Manual!SendTick(a)
      PROVE  Settled /\ now' = now
  <2>1. UNCHANGED <<now, mu, adv>>
    BY <1>6 DEF Manual!FireTimer, Manual!SendTick
  <2> QED
    BY <1>2, <2>1
<1> QED
  BY <1>2, <1>3, <1>4, <1>5, <1>6, ManualSteps, ClientStepKeeps, TickerStepKeeps DEF AdvanceStep

LEMMA DueStep ==
  ASSUME ManualInv, ClockInv, Manual!Next
  PROVE  DueInv'
<1> SUFFICES ASSUME Settled', NEW x \in Members(q') PROVE mt'[x].at > now'
  BY DEF DueInv
<1>0. x \in Clients
  BY DEF Members
<1>1. CASE Settled /\ now' = now
  <2>1. \A c \in Members(q) : mt[c].at > now
    BY <1>1 DEF ManualInv, DueInv
  <2>2. ASSUME NEW c \in Clients, Others(c), OwnTimer(c) PROVE mt'[x].at > now'
    <3>1. CASE x = c
      BY <1>1, <2>1, <2>2, <3>1 DEF OwnTimer
    <3>2. CASE x # c
      BY <1>0, <1>1, <2>1, <2>2, <3>2 DEF Others
    <3> QED
      BY <3>1, <3>2
  <2>3. ASSUME UNCHANGED <<pc, answer, mt, q>> PROVE mt'[x].at > now'
    BY <1>1, <2>1, <2>3
  <2> QED
    BY <2>2, <2>3, TimersStep
<1>2. ASSUME NEW a \in Advancers, Manual!TimersFired(a) PROVE mt'[x].at > now'
  <2>1. mt' = mt /\ q' = q /\ now' = now /\ ~Manual!AnyTimerDue
    BY <1>2 DEF Manual!TimersFired
  <2>2. Queue(q, mt) /\ Timed(mt) /\ now \in Nat
    BY ManualTyped DEF ManualInv
  <2>3. x \in Members(q)
    BY <2>1
  <2>4. q.heap # <<>> /\ q.heap[1] \in Members(q) /\ mt[q.heap[1]].at <= mt[x].at
    BY <2>2, <2>3, TopLeast
  <2>5. ~(mt[q.heap[1]].at <= now)
    BY <2>1, <2>4 DEF Manual!AnyTimerDue
  <2>6. mt[q.heap[1]].at \in Nat /\ mt[x].at \in Nat
    BY <1>0, <2>2, <2>4 DEF Timed, Members
  <2> QED
    BY <2>1, <2>2, <2>4, <2>5, <2>6
<1> QED
  BY <1>1, <1>2, SettledStep

-----------------------------------------------------------------------------
(* The tickers.                                                            *)
TickSpace == [dur : Durations \cup {0}, next : Nat, ch : Seq(Nat), last : Nat]

TickTypes ==
    /\ list \in Seq(Tickers)
    /\ tick \in [Tickers -> TickSpace]
    /\ \A k \in Tickers : Len(tick[k].ch) <= TickBuffer

LEMMA TickAppended ==
  ASSUME NEW t \in TickSpace, NEW u \in TickSpace, Chain(t),
         u.ch = Append(t.ch, t.next), u.next = t.next + t.dur,
         u.dur = t.dur, u.last = t.last
  PROVE  Chain(u)
<1>1. t.ch \in Seq(Nat) /\ t.next \in Nat
  BY DEF TickSpace
<1> DEFINE n == Len(t.ch)
<1>2. n \in Nat /\ Len(u.ch) = n + 1 /\ u.ch[n + 1] = t.next /\ u.ch # <<>>
      /\ \A i \in 1..n : u.ch[i] = t.ch[i]
  BY <1>1
<1>3. (t.ch = <<>> <=> n = 0) /\ (n # 0 => 1 \in 1..n)
  BY <1>1
<1> HIDE DEF n
<1>4. u.next = u.ch[n + 1] + u.dur
  BY <1>2
<1>5. u.ch[1] = u.last + u.dur
  <2>1. CASE n = 0
    BY <1>2, <1>3, <2>1 DEF Chain
  <2>2. CASE n # 0
    BY <1>2, <1>3, <2>2 DEF Chain
  <2> QED
    BY <2>1, <2>2
<1>6. ASSUME NEW i \in 2..n + 1 PROVE u.ch[i] = u.ch[i - 1] + u.dur
  <2>1. i - 1 \in 1..n /\ n # 0
    BY <1>2
  <2>2. CASE i = n + 1
    <3>1. t.next = t.ch[n] + t.dur
      BY <1>3, <2>1 DEF Chain, n
    <3>2. u.ch[n] = t.ch[n] /\ i - 1 = n
      BY <1>2, <2>1, <2>2
    <3> QED
      BY <1>2, <2>2, <3>1, <3>2
  <2>3. CASE i # n + 1
    <3>1. i \in 2..n /\ i \in 1..n
      BY <1>2, <2>3
    <3>2. t.ch[i] = t.ch[i - 1] + t.dur
      BY <3>1 DEF Chain, n
    <3> QED
      BY <1>2, <2>1, <3>1, <3>2
  <2> QED
    BY <2>2, <2>3
<1> QED
  BY <1>2, <1>4, <1>5, <1>6 DEF Chain

LEMMA TickTaken ==
  ASSUME NEW t \in TickSpace, NEW u \in TickSpace, Chain(t), t.ch # <<>>,
         u.ch = Tail(t.ch), u.last = Head(t.ch), u.dur = t.dur, u.next = t.next
  PROVE  Chain(u)
<1>1. t.ch \in Seq(Nat)
  BY DEF TickSpace
<1> DEFINE n == Len(t.ch)
           m == n - 1
<1>2. n \in Nat \ {0} /\ m \in Nat /\ n = m + 1 /\ Len(u.ch) = m /\ (u.ch = <<>> <=> m = 0)
      /\ u.last = t.ch[1] /\ \A i \in 1..m : u.ch[i] = t.ch[i + 1]
  <2>1. n \in Nat \ {0} /\ m \in Nat /\ n = m + 1
    BY <1>1
  <2>2. Tail(t.ch) \in Seq(Nat) /\ Len(Tail(t.ch)) = m
        /\ \A i \in 1..m : Tail(t.ch)[i] = t.ch[i + 1]
    BY <1>1, <2>1
  <2>3. u.ch = <<>> <=> m = 0
    <3>1. \A w \in Seq(Nat) : w = <<>> <=> Len(w) = 0
      OBVIOUS
    <3>2. u.ch \in Seq(Nat) /\ Len(u.ch) = m
      BY <2>2
    <3> HIDE DEF m
    <3> QED
      BY ONLY <3>1, <3>2
  <2>4. u.last = t.ch[1]
    BY <1>1, <2>1
  <2> QED
    BY <2>1, <2>2, <2>3, <2>4
<1>3. /\ t.next = t.ch[n] + t.dur
      /\ \A i \in 2..n : t.ch[i] = t.ch[i - 1] + t.dur
  BY DEF Chain
<1> HIDE DEF n, m
<1>4. CASE m = 0
  BY <1>2, <1>3, <1>4 DEF Chain
<1>5. CASE m # 0
  <2>1. 1 \in 1..m /\ m \in 1..m /\ 2 \in 2..n /\ 2 - 1 = 1 /\ 1 + 1 = 2
    BY <1>2, <1>5
  <2>2. u.ch[1] = u.last + u.dur
    BY <1>2, <1>3, <2>1
  <2>3. u.next = u.ch[m] + u.dur
    BY <1>2, <1>3, <2>1
  <2>4. ASSUME NEW i \in 2..m PROVE u.ch[i] = u.ch[i - 1] + u.dur
    <3>1. i \in 1..m /\ i - 1 \in 1..m /\ (i - 1) + 1 = i /\ i + 1 \in 2..n /\ (i + 1) - 1 = i
      BY <1>2
    <3>2. u.ch[i] = t.ch[i + 1] /\ u.ch[i - 1] = t.ch[(i - 1) + 1]
      BY <1>2, <3>1
    <3>3. t.ch[i + 1] = t.ch[(i + 1) - 1] + t.dur
      BY <1>3, <3>1
    <3> QED
      BY <3>1, <3>2, <3>3
  <2> QED
    BY <1>2, <1>5, <2>2, <2>3, <2>4 DEF Chain
<1> QED
  BY <1>4, <1>5

LEMMA TickersStep ==
  ASSUME ManualInv, ClockInv, Manual!Next
  PROVE  TickTypes' /\ TickInv'
<1>1. TickTypes /\ TickInv
  BY DEF ManualInv, Manual!TypeOK, TickTypes, TickSpace
<1>2. tick \in [Tickers -> TickSpace] /\ \A k \in Tickers : Chain(tick[k]) /\ Len(tick[k].ch) <= TickBuffer
  BY <1>1 DEF TickTypes, TickInv
<1>3. ASSUME NEW k \in Tickers, tick' \in [Tickers -> TickSpace], Chain(tick'[k]),
             Len(tick'[k].ch) <= TickBuffer, \A x \in Tickers \ {k} : tick'[x] = tick[x],
             list' \in Seq(Tickers)
      PROVE  TickTypes' /\ TickInv'
  <2> SUFFICES ASSUME NEW x \in Tickers PROVE Chain(tick'[x]) /\ Len(tick'[x].ch) <= TickBuffer
    BY <1>3 DEF TickTypes, TickInv, Chain
  <2> QED
    BY <1>2, <1>3
<1>4. ASSUME UNCHANGED tick, list' \in Seq(Tickers) PROVE TickTypes' /\ TickInv'
  BY <1>1, <1>4 DEF TickTypes, TickInv, Chain
<1>5. list \in Seq(Tickers) /\ now \in Nat /\ TickBuffer \in Nat /\ TickBuffer # 0
  BY <1>1, ManualTyped, TimeAssumption DEF TickTypes
<1>6. \A d \in Durations \cup {0} : d \in Nat
  BY ManualTyped
<1>7. ASSUME NEW k \in Tickers, Manual!NewTicker(k) PROVE TickTypes' /\ TickInv'
  <2>1. PICK d \in Durations \ {0} :
          tick' = [tick EXCEPT ![k] = [dur |-> d, next |-> now + d, ch |-> <<>>, last |-> now]]
    BY <1>7 DEF Manual!NewTicker
  <2> DEFINE t == [dur |-> d, next |-> now + d, ch |-> <<>>, last |-> now]
  <2>2. now + d \in Nat
    BY <1>5, <1>6
  <2>3. t \in TickSpace
    BY <1>5, <2>2 DEF TickSpace
  <2>4. Chain(t) /\ Len(t.ch) = 0
    BY DEF Chain
  <2> HIDE DEF t
  <2>5. tick' \in [Tickers -> TickSpace] /\ tick'[k] = t /\ \A x \in Tickers \ {k} : tick'[x] = tick[x]
    BY <1>2, <2>1, <2>3 DEF t
  <2>6. list' \in Seq(Tickers)
    BY <1>5, <1>7 DEF Manual!NewTicker
  <2>7. Len(tick'[k].ch) <= TickBuffer
    BY <1>5, <2>4, <2>5
  <2> QED
    BY <1>3, <2>4, <2>5, <2>6, <2>7
<1>8. ASSUME NEW k \in Tickers, Manual!StopTicker(k) PROVE TickTypes' /\ TickInv'
  <2>1. PICK i \in DOMAIN list : list' = SubSeq(list, 1, i - 1) \o SubSeq(list, i + 1, Len(list))
    BY <1>8 DEF Manual!StopTicker
  <2>2. i \in 1..Len(list)
    BY <1>5
  <2>3. SubSeq(list, 1, i - 1) \in Seq(Tickers) /\ SubSeq(list, i + 1, Len(list)) \in Seq(Tickers)
    BY <1>5, <2>2
  <2>4. list' \in Seq(Tickers)
    BY <2>1, <2>3
  <2> QED
    BY <1>4, <1>8, <2>4 DEF Manual!StopTicker
<1>9. ASSUME NEW k \in Tickers, Manual!ReceiveTick(k) PROVE TickTypes' /\ TickInv'
  <2>1. tick[k].ch # <<>> /\ list' = list
        /\ tick' = [tick EXCEPT ![k].ch = Tail(@), ![k].last = Head(tick[k].ch)]
    BY <1>9 DEF Manual!ReceiveTick
  <2>2. tick[k] \in TickSpace /\ tick[k].ch \in Seq(Nat)
    BY <1>2 DEF TickSpace
  <2>3. Tail(tick[k].ch) \in Seq(Nat) /\ Head(tick[k].ch) \in Nat
        /\ Len(Tail(tick[k].ch)) <= Len(tick[k].ch)
    <3>1. \A s \in Seq(Nat) : s # <<>> =>
             Tail(s) \in Seq(Nat) /\ Head(s) \in Nat /\ Len(Tail(s)) <= Len(s)
      BY SMTT(20)
    <3> QED
      BY <2>1, <2>2, <3>1
  <2>4. /\ tick' \in [Tickers -> TickSpace]
        /\ tick'[k].ch = Tail(tick[k].ch) /\ tick'[k].last = Head(tick[k].ch)
        /\ tick'[k].dur = tick[k].dur /\ tick'[k].next = tick[k].next
        /\ \A x \in Tickers \ {k} : tick'[x] = tick[x]
    BY <1>2, <2>1, <2>3 DEF TickSpace
  <2>5. Chain(tick'[k])
    <3>1. tick'[k] \in TickSpace
      BY <2>4
    <3> QED
      BY <1>2, <2>1, <2>2, <2>4, <3>1, TickTaken
  <2>6. Len(tick'[k].ch) <= TickBuffer
    <3>1. Len(Tail(tick[k].ch)) \in Nat /\ Len(tick[k].ch) \in Nat
      BY <2>2, <2>3
    <3> QED
      BY <1>2, <1>5, <2>3, <2>4, <3>1
  <2> QED
    BY <1>3, <1>5, <2>1, <2>4, <2>5, <2>6
<1>10. ASSUME NEW a \in Advancers, Manual!SendTick(a) PROVE TickTypes' /\ TickInv'
  <2>1. PICK k : k = list[adv[a].cur]
    OBVIOUS
  <2>2. /\ adv[a].cur \in DOMAIN list /\ Len(tick[k].ch) < TickBuffer /\ list' = list
        /\ tick' = [tick EXCEPT ![k].ch = Append(@, tick[k].next), ![k].next = @ + tick[k].dur]
    BY <1>10, <2>1 DEF Manual!SendTick, Manual!TickDue
  <2>3. k \in Tickers
    BY <1>5, <2>1, <2>2
  <2>4. tick[k] \in TickSpace /\ tick[k].ch \in Seq(Nat) /\ tick[k].next \in Nat
        /\ tick[k].dur \in Nat
    BY <1>2, <1>6, <2>3 DEF TickSpace
  <2>5. Append(tick[k].ch, tick[k].next) \in Seq(Nat) /\ tick[k].next + tick[k].dur \in Nat
        /\ Len(Append(tick[k].ch, tick[k].next)) = Len(tick[k].ch) + 1
    BY <2>4
  <2>6. /\ tick' \in [Tickers -> TickSpace]
        /\ tick'[k].ch = Append(tick[k].ch, tick[k].next)
        /\ tick'[k].next = tick[k].next + tick[k].dur
        /\ tick'[k].dur = tick[k].dur /\ tick'[k].last = tick[k].last
        /\ \A x \in Tickers \ {k} : tick'[x] = tick[x]
    BY <1>2, <2>2, <2>3, <2>5 DEF TickSpace
  <2>7. Chain(tick'[k])
    <3>1. tick'[k] \in TickSpace
      BY <2>3, <2>6
    <3> QED
      BY <1>2, <2>3, <2>4, <2>6, <3>1, TickAppended
  <2>8. Len(tick'[k].ch) <= TickBuffer
    <3>1. Len(tick[k].ch) \in Nat
      BY <2>4
    <3> QED
      BY <1>5, <2>2, <2>5, <2>6, <3>1
  <2> QED
    BY <1>3, <1>5, <2>2, <2>3, <2>6, <2>7, <2>8
<1>11. ASSUME UNCHANGED <<list, tick>> PROVE TickTypes' /\ TickInv'
  BY <1>4, <1>5, <1>11
<1>12. ASSUME NEW a \in Advancers, Manual!FireTimer(a) PROVE TickTypes' /\ TickInv'
  BY <1>11, <1>12 DEF Manual!FireTimer
<1> QED
  BY <1>7, <1>8, <1>9, <1>10, <1>11, <1>12, ManualSteps, ClientStepKeeps, AdvanceStepKeeps
  DEF TickerStep

(* What the invariant says of a ticker is that no tick is missing. *)
LEMMA ChainComplete ==
  ASSUME NEW t \in TickSpace, Chain(t)
  PROVE  LET all == <<t.last>> \o t.ch \o <<t.next>>
         IN  \A i \in 2..Len(all) : all[i] = all[i - 1] + t.dur
<1>1. t.ch \in Seq(Nat) /\ t.last \in Nat /\ t.next \in Nat
  BY DEF TickSpace
<1> DEFINE n == Len(t.ch)
           head == <<t.last>> \o t.ch
           all == head \o <<t.next>>
<1>2. n \in Nat /\ head \in Seq(Nat) /\ Len(head) = n + 1 /\ head[1] = t.last
      /\ \A i \in 1..n : head[i + 1] = t.ch[i]
  BY <1>1
<1>3. (t.ch = <<>> <=> n = 0) /\ (n # 0 => t.ch[1] = t.last + t.dur /\ t.next = t.ch[n] + t.dur)
      /\ (n = 0 => t.next = t.last + t.dur)
  BY <1>1 DEF Chain
<1>4. \A i \in 2..n : t.ch[i] = t.ch[i - 1] + t.dur
  BY DEF Chain
<1> HIDE DEF head, n
<1>5. Len(all) = n + 2 /\ all[n + 2] = t.next /\ \A i \in 1..n + 1 : all[i] = head[i]
  BY <1>1, <1>2
<1> HIDE DEF all
<1>6. ASSUME NEW i \in 2..n + 2 PROVE all[i] = all[i - 1] + t.dur
  <2>1. CASE i = n + 2
    <3>1. i - 1 = n + 1 /\ n + 1 \in 1..n + 1
      BY <1>2, <2>1
    <3>2. all[i] = t.next /\ all[i - 1] = head[n + 1]
      BY <1>5, <2>1, <3>1
    <3>3. CASE n = 0
      BY <1>2, <1>3, <3>2, <3>3
    <3>4. CASE n # 0
      <4>1. n \in 1..n
        BY <1>2, <3>4
      <4> QED
        BY <1>2, <1>3, <3>2, <3>4, <4>1
    <3> QED
      BY <3>3, <3>4
  <2>2. CASE i # n + 2
    <3>1. i \in 1..n + 1 /\ i - 1 \in 1..n + 1 /\ i - 1 \in 1..n /\ (i - 1) + 1 = i /\ n # 0
      BY <1>2, <2>2
    <3>2. all[i] = head[(i - 1) + 1] /\ head[(i - 1) + 1] = t.ch[i - 1] /\ all[i - 1] = head[i - 1]
      BY <1>2, <1>5, <3>1
    <3>3. CASE i = 2
      BY <1>2, <1>3, <3>1, <3>2, <3>3
    <3>4. CASE i # 2
      <4>1. i - 1 \in 2..n /\ i - 2 \in 1..n /\ (i - 1) - 1 = i - 2 /\ (i - 2) + 1 = i - 1
        BY <1>2, <3>1, <3>4
      <4>2. t.ch[i - 1] = t.ch[(i - 1) - 1] + t.dur
        BY <1>4, <4>1
      <4>3. head[(i - 2) + 1] = t.ch[i - 2]
        BY <1>2, <4>1
      <4> QED
        BY <3>2, <4>1, <4>2, <4>3
    <3> QED
      BY <3>3, <3>4
  <2> QED
    BY <2>1, <2>2
<1> QED
  BY <1>5, <1>6 DEF all, head

-----------------------------------------------------------------------------
LEMMA ManualStep ==
  ASSUME ManualInv, ClockInv, Manual!Next
  PROVE  ManualInv' /\ ClockInv'
<1>1. LockInv' /\ ClientInv' /\ Queue(q, mt)' /\ DueInv' /\ TickTypes' /\ TickInv'
      /\ now' \in 0..MaxTime
  BY LockStep, ClientsStep, DueStep, TickersStep, TimeForward
<1>2. /\ pc' \in [Clients -> {"none", "idle", "now", "add"}]
      /\ mt' \in [Clients -> MtSpace]
      /\ answer' \in [Clients -> BOOLEAN]
  <2>1. ASSUME UNCHANGED <<pc, answer, mt, q>>
        PROVE  /\ pc' \in [Clients -> {"none", "idle", "now", "add"}]
               /\ mt' \in [Clients -> MtSpace]
               /\ answer' \in [Clients -> BOOLEAN]
    BY <2>1, ManualTyped DEF MtSpace, ClockInv
  <2> QED
    BY <2>1, TimersStep DEF OwnTimer
<1>3. q' \in [heap : Seq(Clients), m : [Clients -> Nat]]
  BY <1>1 DEF Queue, Indexed, Manual!Heaps
<1>4. /\ mu' \in Advancers \cup {Free}
      /\ adv' \in [Advancers -> [at : {"idle", "to", "timers", "tickers"},
                                 target : 0..MaxTime, cur : Nat]]
  <2> DEFINE Space == [at : {"idle", "to", "timers", "tickers"}, target : 0..MaxTime, cur : Nat]
             Typed == mu' \in Advancers \cup {Free} /\ adv' \in [Advancers -> Space]
  <2>1. mu \in Advancers \cup {Free} /\ adv \in [Advancers -> Space]
    BY DEF ManualInv, Manual!TypeOK
  <2>2. now \in Nat /\ MaxTime \in Nat /\ \A d \in Durations : d \in Nat
    BY ManualTyped
  <2>3. ASSUME UNCHANGED <<mu, adv>> PROVE Typed
    BY <2>1, <2>3
  <2>4. ASSUME NEW a \in Advancers, Manual!Advance(a) PROVE Typed
    <3>1. PICK d \in Durations \ {0} :
            /\ now + d <= MaxTime /\ mu' = mu
            /\ adv' = [adv EXCEPT ![a] = [at |-> "to", target |-> now + d, cur |-> 0]]
      BY <2>4 DEF Manual!Advance
    <3>2. now + d \in 0..MaxTime
      BY <2>2, <3>1
    <3> QED
      BY <2>1, <3>1, <3>2
  <2>5. ASSUME NEW a \in Advancers, Manual!AdvanceTo(a) PROVE Typed
    <3>1. Manual!Idle \in Space
      BY <2>2 DEF Manual!Idle
    <3> QED
      BY <2>1, <2>5, <3>1 DEF Manual!AdvanceTo
  <2>6. ASSUME NEW a \in Advancers, Manual!TimersFired(a) \/ Manual!NextTicker(a) PROVE Typed
    BY <2>1, <2>6 DEF Manual!TimersFired, Manual!NextTicker
  <2>7. ASSUME NEW a \in Advancers, Manual!TickPanic(a) \/ Manual!AdvanceReturn(a) PROVE Typed
    <3>1. Manual!Idle \in Space
      BY <2>2 DEF Manual!Idle
    <3> QED
      BY <2>1, <2>7, <3>1 DEF Manual!TickPanic, Manual!AdvanceReturn
  <2>8. ASSUME NEW a \in Advancers, Manual!FireTimer(a) \/ Manual!SendTick(a) PROVE Typed
    BY <2>3, <2>8 DEF Manual!FireTimer, Manual!SendTick
  <2> HIDE DEF Typed
  <2>9. Typed
    BY <2>3, <2>4, <2>5, <2>6, <2>7, <2>8, ManualSteps, ClientStepKeeps, TickerStepKeeps
    DEF AdvanceStep
  <2> QED
    BY <2>9 DEF Typed
<1>5. Manual!TypeOK'
  BY <1>1, <1>2, <1>3, <1>4 DEF Manual!TypeOK, TickTypes, TickSpace, MtSpace
<1> QED
  BY <1>1, <1>2, <1>5 DEF ManualInv, ClockInv

(* The initial state of manual time, and of a program that does not use it. *)
LEMMA ManualInit ==
  ASSUME Manual!Init
  PROVE  /\ Queue(q, mt) /\ Members(q) = {}
         /\ TickTypes /\ TickInv
         /\ mt = [c \in Clients |-> Manual!Blank]
<1>1. Queue(q, mt) /\ Members(q) = {}
  BY EmptyQueue DEF Manual!Init
<1>2. TickTypes
  <2>1. tick \in [Tickers -> TickSpace]
    BY DEF Manual!Init, TickSpace
  <2>2. TickBuffer \in Nat
    BY TimeAssumption
  <2> QED
    BY <2>1, <2>2 DEF Manual!Init, TickTypes
<1>3. TickInv
  BY DEF Manual!Init, TickInv, Chain
<1> QED
  BY <1>1, <1>2, <1>3 DEF Manual!Init

LEMMA ManualStart ==
  ASSUME Manual!Init, now = 0, pc = [c \in Clients |-> "none"]
  PROVE  ManualInv
<1>1. /\ Queue(q, mt) /\ Members(q) = {}
      /\ TickTypes /\ TickInv
      /\ mt = [c \in Clients |-> Manual!Blank]
  BY ManualInit
<1>2. MaxTime \in Nat /\ Free \notin Advancers
  BY TimeAssumption
<1>3. mt \in [Clients -> MtSpace]
  <2>1. Manual!Blank \in MtSpace
    BY <1>2 DEF Manual!Blank, MtSpace
  <2> QED
    BY <1>1, <2>1
<1>4. Manual!TypeOK
  <2>1. q \in [heap : Seq(Clients), m : [Clients -> Nat]]
    BY <1>1 DEF Queue, Indexed, Manual!Heaps
  <2>2. adv \in [Advancers -> [at : {"idle", "to", "timers", "tickers"},
                               target : 0..MaxTime, cur : Nat]]
    BY <1>2 DEF Manual!Init, Manual!Idle
  <2>3. mu \in Advancers \cup {Free}
    BY DEF Manual!Init
  <2>4. pc \in [Clients -> {"none", "idle", "now", "add"}]
    OBVIOUS
  <2> QED
    BY <1>1, <1>3, <2>1, <2>2, <2>3, <2>4 DEF Manual!TypeOK, TickTypes, TickSpace, MtSpace
<1>5. LockInv
  BY <1>2 DEF Manual!Init, Manual!Idle, LockInv
<1>6. DueInv
  BY <1>1 DEF DueInv
<1>7. ClientInv
  BY <1>1 DEF ClientInv, ClientOK
<1> QED
  BY <1>1, <1>4, <1>5, <1>6, <1>7 DEF ManualInv

-----------------------------------------------------------------------------
(* The invariant of the system's timers.  A time.Timer is active, or its   *)
(* goroutine is sending, or its channel is full, and active only while a   *)
(* client that has been through Reset owns it;                             *)
RtSpace  == [active : BOOLEAN, at : 0..2*MaxTime, sending : BOOLEAN, full : BOOLEAN]
ObjSpace == [timer : TimeTimers \cup {NoTimer}, read : BOOLEAN, began : 0..MaxTime]

Clean(t) == ~rt[t].active /\ ~rt[t].sending /\ ~rt[t].full

TimerOK(t) ==
    /\ rt[t].active => /\ ~rt[t].sending /\ ~rt[t].full
                       /\ \E c \in Clients : obj[c].timer = t /\ pc[c] = "idle"
    /\ ~(rt[t].sending /\ rt[t].full)
    /\ t \in pool => Clean(t)

(* a client that has read the tick has a clean one, one that waits to      *)
(* drain it has not, and one that is about to set it has;                  *)
ObjOK(c) ==
    /\ pc[c] = "none" => obj[c].timer = NoTimer
    /\ obj[c].timer = NoTimer => obj[c] = System!Blank /\ pc[c] \in {"none", "idle"}
    /\ obj[c].timer # NoTimer =>
          /\ obj[c].timer \notin pool
          /\ pc[c] = "idle" => (Clean(obj[c].timer) <=> obj[c].read)
          /\ pc[c] = "drain" => ~Clean(obj[c].timer) /\ ~rt[obj[c].timer].active
          /\ pc[c] = "arm" => Clean(obj[c].timer)
    /\ obj[c].began <= now

(* and no two clients have the same one.                                   *)
OneOwner == \A c, d \in Clients : c # d /\ obj[c].timer # NoTimer => obj[c].timer # obj[d].timer

SystemInv ==
    /\ System!TypeOK
    /\ \A t \in TimeTimers : TimerOK(t)
    /\ \A c \in Clients : ObjOK(c)
    /\ OneOwner

LEMMA SystemTyped ==
  ASSUME SystemInv, ClockInv
  PROVE  /\ pc \in [Clients -> {"none", "idle", "drain", "arm"}]
         /\ obj \in [Clients -> ObjSpace]
         /\ rt \in [TimeTimers -> RtSpace]
         /\ pool \subseteq TimeTimers
         /\ now \in Nat /\ MaxTime \in Nat /\ now <= MaxTime
         /\ \A d \in Durations : now + d \in 0..2*MaxTime
         /\ NoTimer \notin TimeTimers
<1>1. MaxTime \in Nat /\ Durations \subseteq 0..MaxTime /\ NoTimer \notin TimeTimers
  BY TimeAssumption
<1>2. now \in Nat /\ now <= MaxTime
  BY <1>1 DEF ClockInv
<1>3. \A d \in Durations : now + d \in 0..2*MaxTime
  BY <1>1, <1>2
<1> QED
  BY <1>1, <1>2, <1>3 DEF SystemInv, System!TypeOK, ObjSpace, RtSpace

LEMMA OwnTimerFacts ==
  ASSUME SystemInv, ClockInv, NEW c \in Clients, obj[c].timer # NoTimer
  PROVE  obj[c].timer \in TimeTimers /\ TimerOK(obj[c].timer) /\ ObjOK(c)
         /\ \A x \in Clients \ {c} : obj[x].timer # obj[c].timer
<1>1. obj[c].timer \in TimeTimers
  BY SystemTyped DEF ObjSpace
<1> QED
  BY <1>1 DEF SystemInv, OneOwner

(* A client that is not concerned by a step. *)
LEMMA ObjKept ==
  ASSUME NEW x \in Clients, ObjOK(x), obj'[x] = obj[x], pc'[x] = pc[x], now' >= now,
         now \in Nat, now' \in Nat, obj[x].began \in Nat,
         obj[x].timer # NoTimer =>
            /\ obj[x].timer \notin pool'
            /\ \/ rt'[obj[x].timer] = rt[obj[x].timer]
               \/ /\ ~Clean(obj[x].timer) /\ ~Clean(obj[x].timer)'
                  /\ rt'[obj[x].timer].active => rt[obj[x].timer].active
  PROVE  ObjOK(x)'
<1>1. obj[x].began <= now'
  BY DEF ObjOK
<1>2. CASE obj[x].timer = NoTimer
  BY <1>1, <1>2 DEF ObjOK
<1>3. CASE obj[x].timer # NoTimer
  <2> DEFINE t == obj[x].timer
  <2>1. Clean(t)' <=> ~rt'[t].active /\ ~rt'[t].sending /\ ~rt'[t].full
    BY DEF Clean
  <2> QED
    BY <1>1, <1>3 DEF ObjOK, Clean
<1> QED
  BY <1>2, <1>3

LEMMA TimerKept ==
  ASSUME NEW t \in TimeTimers, TimerOK(t), rt'[t] = rt[t], t \in pool' => t \in pool,
         rt[t].active => \A c \in Clients : obj[c].timer = t /\ pc[c] = "idle"
                                            => obj'[c].timer = t /\ pc'[c] = "idle"
  PROVE  TimerOK(t)'
BY DEF TimerOK, Clean

(* What a step of one client, or of the runtime, has to show. *)
SystemTypes ==
    /\ pc \in [Clients -> {"none", "idle", "drain", "arm"}]
    /\ obj \in [Clients -> ObjSpace]
    /\ rt \in [TimeTimers -> RtSpace]
    /\ pool \subseteq TimeTimers
    /\ answer \in [Clients -> BOOLEAN]
    /\ now \in 0..MaxTime

LEMMA SystemShown ==
  ASSUME SystemTypes', \A t \in TimeTimers : TimerOK(t)', \A c \in Clients : ObjOK(c)', OneOwner'
  PROVE  (SystemInv /\ ClockInv)'
BY DEF SystemTypes, SystemInv, ClockInv, System!TypeOK, ObjSpace, RtSpace

LEMMA PassStep ==
  ASSUME SystemInv, ClockInv, System!Pass
  PROVE  (SystemInv /\ ClockInv)'
<1>1. now' = now + 1 /\ now < MaxTime /\ UNCHANGED <<pc, answer, obj, rt, pool>>
  BY DEF System!Pass, System!sysVars
<1>2. now \in Nat /\ now' \in 0..MaxTime /\ now' >= now /\ now' \in Nat
  BY <1>1, SystemTyped
<1>3. SystemTypes'
  BY <1>1, <1>2, SystemTyped DEF SystemTypes, ClockInv
<1>4. \A t \in TimeTimers : TimerOK(t)'
  BY <1>1, TimerKept DEF SystemInv
<1>5. ASSUME NEW x \in Clients PROVE ObjOK(x)'
  <2>1. ObjOK(x) /\ obj[x].began \in Nat /\ (obj[x].timer # NoTimer => obj[x].timer \notin pool)
    BY SystemTyped DEF SystemInv, ObjOK, ObjSpace
  <2> QED
    BY <1>1, <1>2, <2>1, ObjKept
<1>6. OneOwner'
  BY <1>1 DEF SystemInv, OneOwner
<1> QED
  BY <1>3, <1>4, <1>5, <1>6, SystemShown

LEMMA RuntimeStep ==
  ASSUME SystemInv, ClockInv, NEW t \in TimeTimers, System!Expire(t) \/ System!Send(t)
  PROVE  /\ (SystemInv /\ ClockInv)'
         /\ rt' \in [TimeTimers -> RtSpace] /\ rt'[t].at = rt[t].at /\ ~rt'[t].active
         /\ \A s \in TimeTimers \ {t} : rt'[s] = rt[s]
<1>1. UNCHANGED <<now, pc, answer, obj, pool>>
      /\ \/ rt[t].active /\ rt' = [rt EXCEPT ![t].active = FALSE, ![t].sending = TRUE]
         \/ rt[t].sending /\ rt' = [rt EXCEPT ![t].sending = FALSE, ![t].full = TRUE]
  BY DEF System!Expire, System!Send
<1>2. rt \in [TimeTimers -> RtSpace] /\ now \in Nat /\ TimerOK(t)
  BY SystemTyped DEF SystemInv
<1>3. /\ rt' \in [TimeTimers -> RtSpace] /\ rt'[t].at = rt[t].at
      /\ \A s \in TimeTimers \ {t} : rt'[s] = rt[s]
  <2>1. CASE rt' = [rt EXCEPT ![t].active = FALSE, ![t].sending = TRUE]
    BY <1>2, <2>1 DEF RtSpace
  <2>2. CASE rt' = [rt EXCEPT ![t].sending = FALSE, ![t].full = TRUE]
    BY <1>2, <2>2 DEF RtSpace
  <2> QED
    BY <1>1, <2>1, <2>2
<1>4. ~rt'[t].active /\ ~(rt'[t].sending /\ rt'[t].full) /\ (rt'[t].sending \/ rt'[t].full)
  <2>1. CASE rt[t].active /\ rt' = [rt EXCEPT ![t].active = FALSE, ![t].sending = TRUE]
    <3>1. rt'[t].active = FALSE /\ rt'[t].sending = TRUE /\ rt'[t].full = rt[t].full
      BY <1>2, <2>1 DEF RtSpace
    <3>2. ~rt[t].full
      BY <1>2, <2>1 DEF TimerOK
    <3> QED
      BY <3>1, <3>2
  <2>2. CASE rt[t].sending /\ rt' = [rt EXCEPT ![t].sending = FALSE, ![t].full = TRUE]
    <3>1. rt'[t].active = rt[t].active /\ rt'[t].sending = FALSE /\ rt'[t].full = TRUE
      BY <1>2, <2>2 DEF RtSpace
    <3>2. ~rt[t].active
      BY <1>2, <2>2 DEF TimerOK
    <3> QED
      BY <3>1, <3>2
  <2> QED
    BY <1>1, <2>1, <2>2
<1>5. ~Clean(t)
  BY <1>1 DEF Clean
<1>6. t \notin pool /\ TimerOK(t)'
  BY <1>1, <1>2, <1>4, <1>5 DEF TimerOK
<1>7. \A s \in TimeTimers : TimerOK(s)'
  <2> TAKE s \in TimeTimers
  <2>1. CASE s = t
    BY <1>6, <2>1
  <2>2. CASE s # t
    BY <1>1, <1>3, <2>2, TimerKept DEF SystemInv
  <2> QED
    BY <2>1, <2>2
<1>8. ASSUME NEW x \in Clients PROVE ObjOK(x)'
  <2>1. ObjOK(x) /\ obj[x].began \in Nat /\ (obj[x].timer # NoTimer => obj[x].timer \notin pool)
        /\ (obj[x].timer # NoTimer => obj[x].timer \in TimeTimers)
    BY SystemTyped DEF SystemInv, ObjOK, ObjSpace
  <2>2. CASE obj[x].timer # t
    BY <1>1, <1>2, <1>3, <2>1, <2>2, ObjKept
  <2>3. CASE obj[x].timer = t
    <3>1. ~Clean(obj[x].timer) /\ ~Clean(obj[x].timer)'
      BY <1>1, <1>4, <1>5, <2>3 DEF Clean
    <3> QED
      BY <1>1, <1>2, <1>4, <2>1, <2>3, <3>1, ObjKept
  <2> QED
    BY <2>2, <2>3
<1>9. OneOwner'
  BY <1>1 DEF SystemInv, OneOwner
<1>10. SystemTypes'
  BY <1>1, <1>3, SystemTyped DEF SystemTypes, ClockInv
<1> QED
  BY <1>3, <1>4, <1>7, <1>8, <1>9, <1>10, SystemShown

LEMMA SystemNewTimerStep ==
  ASSUME SystemInv, ClockInv, NEW c \in Clients, System!NewTimer(c)
  PROVE  (SystemInv /\ ClockInv)'
<1>1. pc[c] = "none" /\ pc' = [pc EXCEPT ![c] = "idle"] /\ answer' = [answer EXCEPT ![c] = FALSE]
      /\ UNCHANGED <<now, obj, rt, pool>>
  BY DEF System!NewTimer, System!sysVars
<1>2. pc \in [Clients -> {"none", "idle", "drain", "arm"}] /\ now \in Nat /\ now <= now
  BY SystemTyped
<1>3. pc'[c] = "idle" /\ pc' \in [Clients -> {"none", "idle", "drain", "arm"}]
      /\ \A x \in Clients \ {c} : pc'[x] = pc[x]
  BY <1>1, <1>2
<1>4. SystemTypes'
  BY <1>1, <1>3, SystemTyped DEF SystemTypes, ClockInv
<1>5. \A t \in TimeTimers : TimerOK(t)'
  <2> TAKE t \in TimeTimers
  <2>1. \A x \in Clients : pc[x] = "idle" => pc'[x] = "idle"
    BY <1>3
  <2> QED
    BY <1>1, <2>1, TimerKept DEF SystemInv
<1>6. ASSUME NEW x \in Clients PROVE ObjOK(x)'
  <2>1. ObjOK(x) /\ obj[x].began \in Nat /\ (obj[x].timer # NoTimer => obj[x].timer \notin pool)
    BY SystemTyped DEF SystemInv, ObjOK, ObjSpace
  <2>2. CASE x = c
    <3>1. obj[x].timer = NoTimer
      BY <1>1, <2>1, <2>2 DEF ObjOK
    <3> QED
      BY <1>1, <1>3, <2>1, <2>2, <3>1 DEF ObjOK
  <2>3. CASE x # c
    BY <1>1, <1>2, <1>3, <2>1, <2>3, ObjKept
  <2> QED
    BY <2>2, <2>3
<1>7. OneOwner'
  BY <1>1 DEF SystemInv, OneOwner
<1> QED
  BY <1>4, <1>5, <1>6, <1>7, SystemShown

(* The steps of a client that has a time.Timer: what becomes of the timer, *)
(* of the client's object and of its call.                                 *)
LEMMA OwnStep ==
  ASSUME SystemInv, ClockInv, NEW c \in Clients, obj[c].timer # NoTimer,
         NEW p \in {"idle", "drain", "arm"}, pc' = [pc EXCEPT ![c] = p],
         obj' \in [Clients -> ObjSpace], rt' \in [TimeTimers -> RtSpace],
         \A x \in Clients \ {c} : obj'[x] = obj[x],
         \A s \in TimeTimers \ {obj[c].timer} : rt'[s] = rt[s],
         UNCHANGED <<now, pool, answer>>,
         obj'[c].timer = obj[c].timer, obj'[c].began <= now,
         LET r == rt'[obj[c].timer]
             clean == ~r.active /\ ~r.sending /\ ~r.full
         IN  /\ r.active => ~r.sending /\ ~r.full /\ p = "idle"
             /\ ~(r.sending /\ r.full)
             /\ p = "idle" => (clean <=> obj'[c].read)
             /\ p = "drain" => ~clean /\ ~r.active
             /\ p = "arm" => clean
  PROVE  (SystemInv /\ ClockInv)'
<1> DEFINE t == obj[c].timer
<1>1. t \in TimeTimers /\ TimerOK(t) /\ ObjOK(c) /\ \A x \in Clients \ {c} : obj[x].timer # t
  BY OwnTimerFacts
<1>2. pc \in [Clients -> {"none", "idle", "drain", "arm"}] /\ now \in Nat /\ now <= now
      /\ NoTimer \notin TimeTimers
  BY SystemTyped
<1>3. pc'[c] = p /\ pc' \in [Clients -> {"none", "idle", "drain", "arm"}]
      /\ \A x \in Clients \ {c} : pc'[x] = pc[x]
  BY <1>2
<1>4. t \notin pool
  BY <1>1 DEF ObjOK
<1>5. SystemTypes'
  BY <1>3, SystemTyped DEF SystemTypes, ClockInv
<1>6. ASSUME NEW s \in TimeTimers PROVE TimerOK(s)'
  <2>1. CASE s = t
    <3>1. rt'[s].active => pc'[c] = "idle" /\ obj'[c].timer = s
      BY <1>3, <2>1
    <3> QED
      BY <1>4, <2>1, <3>1 DEF TimerOK
  <2>2. CASE s # t
    <3>1. \A x \in Clients : obj[x].timer = s /\ pc[x] = "idle" => obj'[x].timer = s /\ pc'[x] = "idle"
      BY <1>3, <2>2
    <3> QED
      BY <2>2, <3>1, TimerKept DEF SystemInv
  <2> QED
    BY <2>1, <2>2
<1>7. ASSUME NEW x \in Clients PROVE ObjOK(x)'
  <2>1. ObjOK(x) /\ obj[x].began \in Nat /\ (obj[x].timer # NoTimer => obj[x].timer \notin pool)
        /\ (obj[x].timer # NoTimer => obj[x].timer \in TimeTimers)
    BY SystemTyped DEF SystemInv, ObjOK, ObjSpace
  <2>2. CASE x = c
    BY <1>3, <1>4, <2>2 DEF ObjOK, Clean
  <2>3. CASE x # c
    <3>1. obj[x].timer # t
      BY <1>1, <2>3
    <3> QED
      BY <1>2, <1>3, <2>1, <2>3, <3>1, ObjKept
  <2> QED
    BY <2>2, <2>3
<1>8. OneOwner'
  <2> SUFFICES ASSUME NEW x \in Clients, NEW y \in Clients, x # y, obj'[x].timer # NoTimer
               PROVE  obj'[x].timer # obj'[y].timer
    BY DEF OneOwner
  <2>1. obj'[x].timer = obj[x].timer /\ obj'[y].timer = obj[y].timer
    OBVIOUS
  <2> QED
    BY <2>1 DEF SystemInv, OneOwner
<1> QED
  BY <1>5, <1>6, <1>7, <1>8, SystemShown


-----------------------------------------------------------------------------
(* What each call does to a time.Timer, field by field. *)
LEMMA HaltFields ==
  ASSUME rt \in [TimeTimers -> RtSpace], NEW t \in TimeTimers, System!Halt(t)
  PROVE  /\ rt' \in [TimeTimers -> RtSpace]
         /\ ~rt'[t].active /\ rt'[t].at = 0
         /\ rt'[t].sending = rt[t].sending /\ rt'[t].full = rt[t].full
         /\ \A s \in TimeTimers \ {t} : rt'[s] = rt[s]
<1>1. 0 \in 0..2*MaxTime
  BY TimeAssumption
<1> QED
  BY <1>1 DEF System!Halt, RtSpace

LEMMA ReadFields ==
  ASSUME rt \in [TimeTimers -> RtSpace], NEW t \in TimeTimers,
         rt' = [rt EXCEPT ![t].full = FALSE]
  PROVE  /\ rt' \in [TimeTimers -> RtSpace]
         /\ rt'[t].active = rt[t].active /\ rt'[t].at = rt[t].at
         /\ rt'[t].sending = rt[t].sending /\ ~rt'[t].full
         /\ \A s \in TimeTimers \ {t} : rt'[s] = rt[s]
BY DEF RtSpace

LEMMA ArmFields ==
  ASSUME rt \in [TimeTimers -> RtSpace], NEW t \in TimeTimers, NEW e \in 0..2*MaxTime,
         rt' = [rt EXCEPT ![t].active = TRUE, ![t].at = e]
  PROVE  /\ rt' \in [TimeTimers -> RtSpace]
         /\ rt'[t].active /\ rt'[t].at = e
         /\ rt'[t].sending = rt[t].sending /\ rt'[t].full = rt[t].full
         /\ \A s \in TimeTimers \ {t} : rt'[s] = rt[s]
BY DEF RtSpace

LEMMA ObjFields ==
  ASSUME obj \in [Clients -> ObjSpace], NEW c \in Clients,
         NEW f \in BOOLEAN, NEW b \in 0..MaxTime,
         \/ obj' = [obj EXCEPT ![c].began = b] /\ f = obj[c].read
         \/ obj' = [obj EXCEPT ![c].read = f] /\ b = obj[c].began
         \/ obj' = [obj EXCEPT ![c].read = f, ![c].began = b]
  PROVE  /\ obj' \in [Clients -> ObjSpace]
         /\ obj'[c].timer = obj[c].timer /\ obj'[c].read = f /\ obj'[c].began = b
         /\ \A x \in Clients \ {c} : obj'[x] = obj[x]
<1>1. CASE obj' = [obj EXCEPT ![c].began = b] /\ f = obj[c].read
  BY <1>1 DEF ObjSpace
<1>2. CASE obj' = [obj EXCEPT ![c].read = f] /\ b = obj[c].began
  BY <1>2 DEF ObjSpace
<1>3. CASE obj' = [obj EXCEPT ![c].read = f, ![c].began = b]
  BY <1>3 DEF ObjSpace
<1> QED
  BY <1>1, <1>2, <1>3

(* The others see no change. *)
OneChanged(c) ==
    \A x \in Clients \ {c} :
        /\ obj'[x] = obj[x] /\ pc'[x] = pc[x]
        /\ obj[x].timer # NoTimer => rt'[obj[x].timer] = rt[obj[x].timer]

LEMMA OwnChange ==
  ASSUME SystemInv, ClockInv, NEW c \in Clients, obj[c].timer # NoTimer,
         pc' = pc \/ \E p : pc' = [pc EXCEPT ![c] = p],
         \A x \in Clients \ {c} : obj'[x] = obj[x],
         \A s \in TimeTimers \ {obj[c].timer} : rt'[s] = rt[s]
  PROVE  OneChanged(c)
<1>1. /\ pc \in [Clients -> {"none", "idle", "drain", "arm"}]
      /\ \A x \in Clients : obj[x].timer # NoTimer => obj[x].timer \in TimeTimers
      /\ \A x \in Clients \ {c} : obj[x].timer # obj[c].timer
  BY OwnTimerFacts, SystemTyped DEF ObjSpace
<1> QED
  BY <1>1 DEF OneChanged

LEMMA SystemResetStopStep ==
  ASSUME SystemInv, ClockInv, NEW c \in Clients, System!ResetStop(c)
  PROVE  /\ (SystemInv /\ ClockInv)' /\ OneChanged(c)
         /\ obj'[c].timer # NoTimer /\ obj'[c].began = now /\ pc'[c] \in {"drain", "arm"}
<1> DEFINE t == obj[c].timer
           p == IF ~rt[t].active /\ ~obj[c].read THEN "drain" ELSE "arm"
<1>1. /\ pc[c] = "idle" /\ t # NoTimer /\ System!Halt(t)
      /\ pc' = [pc EXCEPT ![c] = p]
      /\ obj' = [obj EXCEPT ![c].began = now]
      /\ UNCHANGED <<now, answer, pool>>
  BY DEF System!ResetStop, System!TimerOf
<1>2. /\ t \in TimeTimers /\ TimerOK(t) /\ ObjOK(c)
      /\ pc \in [Clients -> {"none", "idle", "drain", "arm"}]
      /\ obj \in [Clients -> ObjSpace] /\ rt \in [TimeTimers -> RtSpace]
      /\ now \in 0..MaxTime /\ now <= now
  BY <1>1, OwnTimerFacts, SystemTyped DEF ClockInv
<1>3. obj[c].read \in BOOLEAN
  BY <1>2 DEF ObjSpace
<1>4. /\ obj' \in [Clients -> ObjSpace]
      /\ obj'[c].timer = t /\ obj'[c].read = obj[c].read /\ obj'[c].began = now
      /\ \A x \in Clients \ {c} : obj'[x] = obj[x]
  BY <1>1, <1>2, <1>3, ObjFields
<1>5. /\ rt' \in [TimeTimers -> RtSpace] /\ ~rt'[t].active
      /\ rt'[t].sending = rt[t].sending /\ rt'[t].full = rt[t].full
      /\ \A s \in TimeTimers \ {t} : rt'[s] = rt[s]
  BY <1>1, <1>2, HaltFields
<1>6. /\ ~(rt[t].sending /\ rt[t].full)
      /\ (~rt[t].active /\ ~rt[t].sending /\ ~rt[t].full) <=> obj[c].read
      /\ rt[t].active => ~rt[t].sending /\ ~rt[t].full
  BY <1>1, <1>2 DEF TimerOK, ObjOK, Clean
<1>7. /\ p \in {"idle", "drain", "arm"}
      /\ p = "drain" => rt[t].sending \/ rt[t].full
      /\ p = "arm" => ~rt[t].sending /\ ~rt[t].full
      /\ p # "idle"
  BY <1>6
<1> HIDE DEF t, p
<1>8. (SystemInv /\ ClockInv)'
  BY <1>1, <1>2, <1>4, <1>5, <1>6, <1>7, OwnStep DEF t
<1>9. OneChanged(c)
  BY <1>1, <1>4, <1>5, OwnChange DEF t
<1> QED
  BY <1>1, <1>2, <1>4, <1>7, <1>8, <1>9

LEMMA SystemResetDrainStep ==
  ASSUME SystemInv, ClockInv, NEW c \in Clients, System!ResetDrain(c)
  PROVE  /\ (SystemInv /\ ClockInv)' /\ OneChanged(c)
         /\ obj' = obj /\ obj[c].timer # NoTimer /\ pc[c] = "drain" /\ pc'[c] = "arm"
<1> DEFINE t == obj[c].timer
<1>1. /\ pc[c] = "drain" /\ rt[t].full
      /\ rt' = [rt EXCEPT ![t].full = FALSE]
      /\ pc' = [pc EXCEPT ![c] = "arm"]
      /\ UNCHANGED <<now, answer, obj, pool>>
  BY DEF System!ResetDrain, System!TimerOf
<1>2. t # NoTimer
  BY <1>1 DEF SystemInv, ObjOK
<1>3. /\ t \in TimeTimers /\ TimerOK(t) /\ ObjOK(c)
      /\ pc \in [Clients -> {"none", "idle", "drain", "arm"}]
      /\ obj \in [Clients -> ObjSpace] /\ rt \in [TimeTimers -> RtSpace]
  BY <1>2, OwnTimerFacts, SystemTyped
<1>4. /\ rt' \in [TimeTimers -> RtSpace] /\ rt'[t].active = rt[t].active
      /\ rt'[t].sending = rt[t].sending /\ ~rt'[t].full
      /\ \A s \in TimeTimers \ {t} : rt'[s] = rt[s]
  BY <1>1, <1>3, ReadFields
<1>5. ~rt[t].sending /\ ~rt[t].active
  BY <1>1, <1>2, <1>3 DEF TimerOK, ObjOK
<1>6. obj' = obj /\ obj[c].began <= now
  BY <1>1, <1>3 DEF ObjOK
<1> HIDE DEF t
<1>7. (SystemInv /\ ClockInv)'
  <2> DEFINE p == "arm"
  <2>1. p \in {"idle", "drain", "arm"} /\ p # "idle" /\ p # "drain" /\ pc' = [pc EXCEPT ![c] = p]
    BY <1>1
  <2> HIDE DEF p
  <2> QED
    BY <1>1, <1>2, <1>3, <1>4, <1>5, <1>6, <2>1, OwnStep DEF t
<1>8. OneChanged(c)
  BY <1>1, <1>2, <1>4, OwnChange DEF t
<1> QED
  BY <1>1, <1>2, <1>3, <1>7, <1>8 DEF t

LEMMA SystemResetArmStep ==
  ASSUME SystemInv, ClockInv, NEW c \in Clients, NEW d \in Durations, System!ResetArm(c, d)
  PROVE  /\ (SystemInv /\ ClockInv)' /\ OneChanged(c)
         /\ obj'[c].timer # NoTimer /\ obj'[c].timer = obj[c].timer /\ ~obj'[c].read
         /\ pc[c] = "arm" /\ pc'[c] = "idle"
         /\ rt'[obj'[c].timer].active /\ rt'[obj'[c].timer].at = now + d
<1> DEFINE t == obj[c].timer
<1>1. /\ pc[c] = "arm"
      /\ rt' = [rt EXCEPT ![t].active = TRUE, ![t].at = now + d]
      /\ obj' = [obj EXCEPT ![c].read = FALSE, ![c].began = 0]
      /\ pc' = [pc EXCEPT ![c] = "idle"]
      /\ UNCHANGED <<now, answer, pool>>
  BY DEF System!ResetArm
<1>2. t # NoTimer
  BY <1>1 DEF SystemInv, ObjOK
<1>3. /\ t \in TimeTimers /\ TimerOK(t) /\ ObjOK(c)
      /\ pc \in [Clients -> {"none", "idle", "drain", "arm"}]
      /\ obj \in [Clients -> ObjSpace] /\ rt \in [TimeTimers -> RtSpace]
      /\ now + d \in 0..2*MaxTime /\ now \in Nat /\ 0 \in 0..MaxTime /\ 0 <= now
  BY <1>2, OwnTimerFacts, SystemTyped
<1>4. /\ rt' \in [TimeTimers -> RtSpace] /\ rt'[t].active /\ rt'[t].at = now + d
      /\ rt'[t].sending = rt[t].sending /\ rt'[t].full = rt[t].full
      /\ \A s \in TimeTimers \ {t} : rt'[s] = rt[s]
  BY <1>1, <1>3, ArmFields, Zenon
<1>5. ~rt[t].sending /\ ~rt[t].full
  BY <1>1, <1>2, <1>3 DEF ObjOK, Clean
<1>6. /\ obj' \in [Clients -> ObjSpace]
      /\ obj'[c].timer = t /\ obj'[c].read = FALSE /\ obj'[c].began = 0
      /\ \A x \in Clients \ {c} : obj'[x] = obj[x]
  BY <1>1, <1>3, ObjFields
<1> HIDE DEF t
<1>7. (SystemInv /\ ClockInv)'
  <2> DEFINE p == "idle"
  <2>1. p \in {"idle", "drain", "arm"} /\ p = "idle" /\ pc' = [pc EXCEPT ![c] = p]
    BY <1>1
  <2>2. p # "drain" /\ p # "arm"
    OBVIOUS
  <2>3. /\ rt'[t].active => ~rt'[t].sending /\ ~rt'[t].full /\ p = "idle"
        /\ ~(rt'[t].sending /\ rt'[t].full)
        /\ ~(~rt'[t].active /\ ~rt'[t].sending /\ ~rt'[t].full) /\ ~obj'[c].read
    BY <1>4, <1>5, <1>6
  <2>4. obj'[c].began <= now /\ UNCHANGED <<now, pool, answer>>
    BY <1>1, <1>3, <1>6
  <2> HIDE DEF p
  <2> QED
    BY <1>2, <1>4, <1>6, <2>1, <2>2, <2>3, <2>4, OwnStep DEF t
<1>8. OneChanged(c)
  BY <1>1, <1>2, <1>4, <1>6, OwnChange DEF t
<1> QED
  BY <1>1, <1>2, <1>3, <1>4, <1>6, <1>7, <1>8 DEF t

LEMMA SystemReceiveStep ==
  ASSUME SystemInv, ClockInv, NEW c \in Clients, System!Receive(c)
  PROVE  /\ (SystemInv /\ ClockInv)' /\ OneChanged(c)
         /\ obj[c].timer # NoTimer /\ ~obj[c].read /\ ~rt[obj[c].timer].active /\ pc[c] = "idle"
         /\ obj'[c].timer = obj[c].timer /\ obj'[c].read /\ pc'[c] = pc[c]
         /\ rt'[obj[c].timer].at = rt[obj[c].timer].at
<1> DEFINE t == obj[c].timer
<1>1. /\ pc[c] = "idle" /\ t # NoTimer /\ rt[t].full
      /\ rt' = [rt EXCEPT ![t].full = FALSE]
      /\ obj' = [obj EXCEPT ![c].read = TRUE]
      /\ UNCHANGED <<now, pc, answer, pool>>
  BY DEF System!Receive, System!TimerOf
<1>2. /\ t \in TimeTimers /\ TimerOK(t) /\ ObjOK(c)
      /\ pc \in [Clients -> {"none", "idle", "drain", "arm"}]
      /\ obj \in [Clients -> ObjSpace] /\ rt \in [TimeTimers -> RtSpace]
  BY <1>1, OwnTimerFacts, SystemTyped
<1>3. obj[c].began \in 0..MaxTime /\ obj[c].began <= now /\ obj[c].read \in BOOLEAN
  BY <1>2 DEF ObjSpace, ObjOK
<1>4. /\ rt' \in [TimeTimers -> RtSpace]
      /\ rt'[t].active = rt[t].active /\ rt'[t].at = rt[t].at
      /\ rt'[t].sending = rt[t].sending /\ ~rt'[t].full
      /\ \A s \in TimeTimers \ {t} : rt'[s] = rt[s]
  BY <1>1, <1>2, ReadFields
<1>5. ~rt[t].sending /\ ~rt[t].active
  BY <1>1, <1>2 DEF TimerOK
<1>6. /\ obj' \in [Clients -> ObjSpace]
      /\ obj'[c].timer = t /\ obj'[c].read = TRUE /\ obj'[c].began = obj[c].began
      /\ \A x \in Clients \ {c} : obj'[x] = obj[x]
  BY <1>1, <1>2, <1>3, ObjFields
<1>7. ~obj[c].read
  BY <1>1, <1>2, SMTT(20) DEF ObjOK, Clean
<1> HIDE DEF t
<1>8. (SystemInv /\ ClockInv)'
  <2> DEFINE p == "idle"
  <2>1. p \in {"idle", "drain", "arm"} /\ p = "idle" /\ pc' = [pc EXCEPT ![c] = p]
    BY <1>1, <1>2
  <2>2. p # "drain" /\ p # "arm"
    OBVIOUS
  <2> HIDE DEF p
  <2> QED
    BY <1>1, <1>2, <1>3, <1>4, <1>5, <1>6, <2>1, <2>2, OwnStep DEF t
<1>9. OneChanged(c)
  BY <1>1, <1>4, <1>6, OwnChange DEF t
<1> QED
  BY <1>1, <1>2, <1>4, <1>5, <1>6, <1>7, <1>8, <1>9 DEF t

LEMMA SystemResetFirstStep ==
  ASSUME SystemInv, ClockInv, NEW c \in Clients, NEW d \in Durations, System!ResetFirst(c, d)
  PROVE  /\ (SystemInv /\ ClockInv)' /\ OneChanged(c)
         /\ obj[c].timer = NoTimer /\ pc[c] = "idle" /\ pc'[c] = "idle"
         /\ obj'[c].timer # NoTimer /\ ~obj'[c].read
         /\ rt'[obj'[c].timer].active /\ rt'[obj'[c].timer].at = now + d
<1>1. pc[c] = "idle" /\ obj[c].timer = NoTimer /\ UNCHANGED <<now, pc, answer>>
  BY DEF System!ResetFirst
<1>2. PICK t \in TimeTimers :
        /\ \/ t \in pool /\ rt' = [rt EXCEPT ![t].active = TRUE, ![t].at = now + d]
           \/ System!Unused(t) /\ rt' = [rt EXCEPT ![t] = [System!New EXCEPT !.active = TRUE, !.at = now + d]]
        /\ pool' = pool \ {t}
        /\ obj' = [obj EXCEPT ![c].timer = t]
  BY DEF System!ResetFirst
<1>3. /\ TimerOK(t) /\ ObjOK(c) /\ pc \in [Clients -> {"none", "idle", "drain", "arm"}]
      /\ obj \in [Clients -> ObjSpace] /\ rt \in [TimeTimers -> RtSpace]
      /\ now + d \in 0..2*MaxTime /\ now \in Nat /\ NoTimer \notin TimeTimers
      /\ pool \subseteq TimeTimers /\ now <= now
  BY SystemTyped DEF SystemInv
<1>4. \A x \in Clients \ {c} : obj[x].timer # t
  <2> TAKE x \in Clients \ {c}
  <2>1. CASE t \in pool
    BY <1>3, <2>1 DEF SystemInv, ObjOK
  <2>2. CASE System!Unused(t)
    BY <2>2 DEF System!Unused
  <2> QED
    BY <1>2, <2>1, <2>2
<1>5. /\ rt' \in [TimeTimers -> RtSpace] /\ rt'[t].active /\ rt'[t].at = now + d
      /\ ~rt'[t].sending /\ ~rt'[t].full
      /\ \A s \in TimeTimers \ {t} : rt'[s] = rt[s]
  <2>1. CASE t \in pool /\ rt' = [rt EXCEPT ![t].active = TRUE, ![t].at = now + d]
    <3>1. ~rt[t].sending /\ ~rt[t].full
      BY <1>3, <2>1 DEF TimerOK, Clean
    <3> QED
      BY <1>3, <2>1, <3>1, ArmFields
  <2>2. CASE rt' = [rt EXCEPT ![t] = [System!New EXCEPT !.active = TRUE, !.at = now + d]]
    <3> DEFINE r == [System!New EXCEPT !.active = TRUE, !.at = now + d]
    <3>1. r \in RtSpace /\ r.active /\ r.at = now + d /\ ~r.sending /\ ~r.full
      BY <1>3 DEF RtSpace, System!New
    <3>2. rt' = [rt EXCEPT ![t] = r]
      BY <2>2
    <3> HIDE DEF r
    <3> QED
      BY <1>3, <3>1, <3>2
  <2> QED
    BY <1>2, <2>1, <2>2
<1>6. /\ obj' \in [Clients -> ObjSpace]
      /\ obj'[c].timer = t /\ obj'[c].read = obj[c].read /\ obj'[c].began = obj[c].began
      /\ \A x \in Clients \ {c} : obj'[x] = obj[x]
  BY <1>2, <1>3 DEF ObjSpace
<1>7. ~obj[c].read /\ obj[c].began <= now
  BY <1>1, <1>3 DEF ObjOK, System!Blank
<1>8. SystemTypes'
  BY <1>1, <1>2, <1>5, <1>6, SystemTyped DEF SystemTypes, ClockInv
<1>9. ASSUME NEW s \in TimeTimers PROVE TimerOK(s)'
  <2>1. CASE s = t
    <3>1. obj'[c].timer = s /\ pc'[c] = "idle" /\ s \notin pool'
      BY <1>1, <1>2, <1>6, <2>1
    <3> QED
      BY <1>5, <2>1, <3>1 DEF TimerOK
  <2>2. CASE s # t
    <3>1. \A x \in Clients : obj[x].timer = s => obj'[x].timer = s
      BY <1>1, <1>3, <1>6
    <3>2. TimerOK(s) /\ rt'[s] = rt[s] /\ pc' = pc /\ (s \in pool' => s \in pool)
      BY <1>1, <1>2, <1>5, <2>2 DEF SystemInv
    <3> QED
      BY <3>1, <3>2, TimerKept
  <2> QED
    BY <2>1, <2>2
<1>10. ASSUME NEW x \in Clients PROVE ObjOK(x)'
  <2>1. ObjOK(x) /\ obj[x].began \in Nat /\ (obj[x].timer # NoTimer => obj[x].timer \notin pool)
        /\ (obj[x].timer # NoTimer => obj[x].timer \in TimeTimers)
    BY SystemTyped DEF SystemInv, ObjOK, ObjSpace
  <2>2. CASE x = c
    <3>1. obj'[x].timer = t /\ t # NoTimer /\ t \notin pool' /\ pc'[x] = "idle" /\ ~obj'[x].read
          /\ obj'[x].began <= now'
      BY <1>1, <1>2, <1>3, <1>6, <1>7, <2>2
    <3>2. ~Clean(t)'
      BY <1>5 DEF Clean
    <3>3. Clean(obj[x].timer)' <=> ~rt'[t].active /\ ~rt'[t].sending /\ ~rt'[t].full
      BY <3>1 DEF Clean
    <3> QED
      BY <1>5, <3>1, <3>3 DEF ObjOK
  <2>3. CASE x # c
    <3>1. obj[x].timer # t
      BY <1>4, <2>3
    <3>2. obj[x].timer # NoTimer => rt'[obj[x].timer] = rt[obj[x].timer] /\ obj[x].timer \notin pool'
      BY <1>2, <1>5, <2>1, <3>1
    <3> QED
      BY <1>1, <1>3, <1>6, <2>1, <2>3, <3>2, ObjKept
  <2> QED
    BY <2>2, <2>3
<1>11. OneOwner'
  <2> SUFFICES ASSUME NEW x \in Clients, NEW y \in Clients, x # y, obj'[x].timer # NoTimer
               PROVE  obj'[x].timer # obj'[y].timer
    BY DEF OneOwner
  <2>1. obj[x].timer # NoTimer /\ x # c => obj[x].timer # obj[y].timer
    BY DEF SystemInv, OneOwner
  <2> QED
    BY <1>3, <1>4, <1>6, <2>1
<1>12. (SystemInv /\ ClockInv)'
  BY <1>8, <1>9, <1>10, <1>11, SystemShown
<1>13. OneChanged(c)
  <2> SUFFICES ASSUME NEW x \in Clients \ {c}, obj[x].timer # NoTimer
               PROVE  rt'[obj[x].timer] = rt[obj[x].timer]
    BY <1>1, <1>6 DEF OneChanged
  <2>1. obj[x].timer \in TimeTimers
    BY SystemTyped DEF ObjSpace
  <2> QED
    BY <1>4, <1>5, <2>1
<1> QED
  BY <1>1, <1>3, <1>5, <1>6, <1>7, <1>12, <1>13

LEMMA SystemStopStep ==
  ASSUME SystemInv, ClockInv, NEW c \in Clients, System!Stop(c)
  PROVE  /\ (SystemInv /\ ClockInv)' /\ OneChanged(c)
         /\ pc[c] = "idle" /\ obj'[c].timer = NoTimer
<1> DEFINE t == obj[c].timer
           res == t # NoTimer /\ rt[t].active
<1>1. /\ pc[c] = "idle"
      /\ IF res THEN System!Halt(t) ELSE UNCHANGED rt
      /\ pool' = IF res THEN pool \cup {t} ELSE pool
      /\ answer' = [answer EXCEPT ![c] = res]
      /\ obj' = [obj EXCEPT ![c] = System!Blank]
      /\ pc' = [pc EXCEPT ![c] = "none"]
      /\ UNCHANGED now
  BY DEF System!Stop
<1>2. /\ ObjOK(c) /\ pc \in [Clients -> {"none", "idle", "drain", "arm"}]
      /\ obj \in [Clients -> ObjSpace] /\ rt \in [TimeTimers -> RtSpace]
      /\ now \in Nat /\ NoTimer \notin TimeTimers /\ pool \subseteq TimeTimers /\ now <= now
      /\ MaxTime \in Nat
  BY SystemTyped DEF SystemInv
<1>3. res => t \in TimeTimers /\ TimerOK(t) /\ \A x \in Clients \ {c} : obj[x].timer # t
  BY OwnTimerFacts
<1>4. /\ rt' \in [TimeTimers -> RtSpace]
      /\ res => ~rt'[t].active /\ ~rt'[t].sending /\ ~rt'[t].full
      /\ \A s \in TimeTimers : ~(res /\ s = t) => rt'[s] = rt[s]
  <2>1. CASE res
    <3>1. ~rt[t].sending /\ ~rt[t].full
      BY <1>3, <2>1 DEF TimerOK
    <3> QED
      BY <1>1, <1>2, <1>3, <2>1, <3>1, HaltFields
  <2>2. CASE ~res
    BY <1>1, <1>2, <2>2
  <2> QED
    BY <2>1, <2>2
<1>5. /\ obj' \in [Clients -> ObjSpace] /\ obj'[c] = System!Blank
      /\ \A x \in Clients \ {c} : obj'[x] = obj[x]
  <2>1. System!Blank \in ObjSpace
    BY <1>2 DEF System!Blank, ObjSpace
  <2> QED
    BY <1>1, <1>2, <2>1
<1>6. pc'[c] = "none" /\ pc' \in [Clients -> {"none", "idle", "drain", "arm"}]
      /\ \A x \in Clients \ {c} : pc'[x] = pc[x]
  BY <1>1, <1>2
<1>7. SystemTypes'
  <2>1. answer' \in [Clients -> BOOLEAN] /\ now' \in 0..MaxTime
    BY <1>1 DEF ClockInv
  <2>2. pool' \subseteq TimeTimers
    BY <1>1, <1>2, <1>3
  <2> QED
    BY <1>4, <1>5, <1>6, <2>1, <2>2 DEF SystemTypes
<1>8. ASSUME NEW s \in TimeTimers PROVE TimerOK(s)'
  <2>1. CASE res /\ s = t
    BY <1>4, <2>1 DEF TimerOK, Clean
  <2>2. CASE ~(res /\ s = t)
    <3>1. TimerOK(s) /\ rt'[s] = rt[s] /\ (s \in pool' => s \in pool)
      BY <1>1, <1>4, <2>2 DEF SystemInv
    <3>2. rt[s].active => \A x \in Clients : obj[x].timer = s /\ pc[x] = "idle"
                                             => obj'[x].timer = s /\ pc'[x] = "idle"
      <4> SUFFICES ASSUME rt[s].active, NEW x \in Clients, obj[x].timer = s, pc[x] = "idle"
                   PROVE  obj'[x].timer = s /\ pc'[x] = "idle"
        OBVIOUS
      <4>1. x # c
        BY <1>2, <2>2
      <4> QED
        BY <1>5, <1>6, <4>1
    <3> QED
      BY <3>1, <3>2, TimerKept
  <2> QED
    BY <2>1, <2>2
<1>9. ASSUME NEW x \in Clients PROVE ObjOK(x)'
  <2>1. ObjOK(x) /\ obj[x].began \in Nat /\ (obj[x].timer # NoTimer => obj[x].timer \notin pool)
        /\ (obj[x].timer # NoTimer => obj[x].timer \in TimeTimers)
    BY SystemTyped DEF SystemInv, ObjOK, ObjSpace
  <2>2. CASE x = c
    BY <1>1, <1>2, <1>5, <1>6, <2>2 DEF ObjOK, System!Blank
  <2>3. CASE x # c
    <3>1. res => obj[x].timer # t
      BY <1>3, <2>3
    <3>2. obj[x].timer # NoTimer => rt'[obj[x].timer] = rt[obj[x].timer] /\ obj[x].timer \notin pool'
      BY <1>1, <1>4, <2>1, <3>1
    <3> QED
      BY <1>1, <1>2, <1>5, <1>6, <2>1, <2>3, <3>2, ObjKept
  <2> QED
    BY <2>2, <2>3
<1>10. obj'[c].timer = NoTimer
  BY <1>5 DEF System!Blank
<1>11. OneOwner'
  <2> SUFFICES ASSUME NEW x \in Clients, NEW y \in Clients, x # y, obj'[x].timer # NoTimer
               PROVE  obj'[x].timer # obj'[y].timer
    BY DEF OneOwner
  <2>1. obj[x].timer # NoTimer => obj[x].timer # obj[y].timer
    BY DEF SystemInv, OneOwner
  <2> QED
    BY <1>5, <1>10, <2>1
<1>12. (SystemInv /\ ClockInv)'
  BY <1>7, <1>8, <1>9, <1>11, SystemShown
<1>13. OneChanged(c)
  <2> SUFFICES ASSUME NEW x \in Clients \ {c}, obj[x].timer # NoTimer
               PROVE  rt'[obj[x].timer] = rt[obj[x].timer]
    BY <1>5, <1>6 DEF OneChanged
  <2>1. obj[x].timer \in TimeTimers
    BY SystemTyped DEF ObjSpace
  <2> QED
    BY <1>3, <1>4, <2>1
<1> QED
  BY <1>1, <1>10, <1>12, <1>13

LEMMA SystemSteps ==
  ASSUME System!Next
  PROVE  \/ System!Pass
         \/ \E t \in TimeTimers : System!Expire(t) \/ System!Send(t)
         \/ \E c \in Clients : \/ System!NewTimer(c) \/ System!ResetStop(c) \/ System!ResetDrain(c)
                               \/ System!Receive(c) \/ System!Stop(c)
                               \/ \E d \in Durations : System!ResetArm(c, d) \/ System!ResetFirst(c, d)
BY DEF System!Next, System!Finish

LEMMA SystemStep ==
  ASSUME SystemInv, ClockInv, System!Next
  PROVE  (SystemInv /\ ClockInv)'
BY SystemSteps, PassStep, RuntimeStep, SystemNewTimerStep, SystemResetStopStep, SystemResetDrainStep,
   SystemReceiveStep, SystemStopStep, SystemResetArmStep, SystemResetFirstStep

LEMMA SystemStart ==
  ASSUME System!Init, now = 0, pc = [c \in Clients |-> "none"]
  PROVE  SystemInv
<1>1. /\ obj = [c \in Clients |-> System!Blank] /\ rt = [t \in TimeTimers |-> System!New]
      /\ pool = {} /\ MaxTime \in Nat
  BY TimeAssumption DEF System!Init
<1>2. System!TypeOK
  BY <1>1 DEF System!TypeOK, System!Blank, System!New
<1>3. \A t \in TimeTimers : TimerOK(t)
  BY <1>1 DEF TimerOK, System!New
<1>4. ASSUME NEW c \in Clients PROVE ObjOK(c)
  <2>1. obj[c] = System!Blank /\ pc[c] = "none"
    BY <1>1
  <2>2. obj[c].timer = NoTimer /\ obj[c].began = 0 /\ 0 <= now
    BY <2>1 DEF System!Blank
  <2> QED
    BY <2>1, <2>2 DEF ObjOK
<1>5. OneOwner
  BY <1>1 DEF OneOwner, System!Blank
<1> QED
  BY <1>2, <1>3, <1>4, <1>5 DEF SystemInv

-----------------------------------------------------------------------------
(* The invariant of TimeSource: the source that the program uses is as     *)
(* above, and manual time has nothing queued where it is not used.         *)
ManualUnused == Queue(q, mt) /\ Members(q) = {} /\ TickTypes /\ TickInv

TimeInv ==
    /\ program \in Programs
    /\ ClockInv
    /\ program.source = "system" => SystemInv /\ ManualUnused
    /\ program.source = "manual" => ManualInv

LEMMA TimeStart ==
  ASSUME Init
  PROVE  TimeInv
<1>1. /\ program \in Programs /\ now = 0 /\ pc = [c \in Clients |-> "none"]
      /\ answer = [c \in Clients |-> FALSE] /\ System!Init /\ Manual!Init
  BY DEF Init
<1>2. ClockInv
  BY <1>1, TimeAssumption DEF ClockInv
<1>3. SystemInv /\ ManualInv /\ ManualUnused
  BY <1>1, SystemStart, ManualStart, ManualInit DEF ManualUnused
<1> QED
  BY <1>1, <1>2, <1>3 DEF TimeInv

LEMMA TimeStep ==
  ASSUME TimeInv, [Next]_vars
  PROVE  TimeInv'
<1>1. CASE UNCHANGED vars
  <2>1. UNCHANGED <<program, now, pc, answer, obj, rt, pool, mt, q, mu, adv, list, tick>>
    BY <1>1 DEF vars
  <2>2. ClockInv' /\ (SystemInv => SystemInv') /\ (ManualInv => ManualInv')
    <3>1. ClockInv'
      BY <2>1 DEF ClockInv, TimeInv
    <3>2. SystemInv => SystemInv'
      BY <2>1 DEF SystemInv, System!TypeOK, TimerOK, ObjOK, OneOwner, Clean
    <3>3. ManualInv => ManualInv'
      BY <2>1 DEF ManualInv, Manual!TypeOK, LockInv, DueInv, Settled, ClientInv, ClientOK,
                  TickInv
    <3> QED
      BY <3>1, <3>2, <3>3
  <2>3. ManualUnused => ManualUnused'
    BY <2>1 DEF ManualUnused, TickTypes, TickInv
  <2> QED
    BY <2>1, <2>2, <2>3 DEF TimeInv
<1>2. CASE program.source = "system" /\ System!Next /\ UNCHANGED <<program, mt, q, mu, adv, list, tick>>
  <2>1. (SystemInv /\ ClockInv)'
    BY <1>2, SystemStep DEF TimeInv
  <2>2. ManualUnused'
    BY <1>2 DEF TimeInv, ManualUnused, TickTypes, TickInv
  <2>3. program \in Programs /\ program' = program
    BY <1>2 DEF TimeInv
  <2>4. program'.source # "manual"
    BY <1>2, <2>3
  <2> QED
    BY <2>1, <2>2, <2>3, <2>4 DEF TimeInv
<1>3. CASE program.source = "manual" /\ Manual!Next /\ UNCHANGED <<program, obj, rt, pool>>
  <2>1. ManualInv' /\ ClockInv'
    BY <1>3, ManualStep DEF TimeInv
  <2>2. program \in Programs /\ program' = program
    BY <1>3 DEF TimeInv
  <2>3. program'.source # "system"
    BY <1>3, <2>2
  <2> QED
    BY <2>1, <2>2, <2>3 DEF TimeInv
<1> QED
  BY <1>1, <1>2, <1>3 DEF Next

(* The inductive invariant of both sources holds in every state.           *)
THEOREM TimeInvariance == Spec => []TimeInv
<1>1. Init => TimeInv
  BY TimeStart
<1>2. TimeInv /\ [Next]_vars => TimeInv'
  BY TimeStep
<1> QED
  BY <1>1, <1>2, PTL DEF Spec

-----------------------------------------------------------------------------
(* A timer is in the heap exactly if its index is not 0. *)
LEMMA InQueueIndexed ==
  ASSUME Indexed(q), NEW c \in Clients
  PROVE  /\ Manual!InQueue(c) <=> c \in Members(q)
         /\ c \in Members(q) => q.m[c] \in DOMAIN q.heap /\ q.heap[q.m[c]] = c
         /\ c \notin Members(q) => q.m[c] = 0
<1>1. q.heap \in Seq(Clients) /\ q.m \in [Clients -> Nat] /\ Len(q.heap) \in Nat
      /\ DOMAIN q.heap = 1..Len(q.heap)
  BY DEF Indexed, Manual!Heaps
<1>2. c \in Members(q) => q.m[c] \in DOMAIN q.heap /\ q.heap[q.m[c]] = c
  BY <1>1 DEF Indexed
<1>3. \A i \in DOMAIN q.heap : q.heap[i] = c => c \in Members(q)
  <2> SUFFICES ASSUME NEW i \in DOMAIN q.heap, q.heap[i] = c PROVE c \in Members(q)
    OBVIOUS
  <2>1. q.m[c] = i /\ i # 0
    BY <1>1 DEF Indexed
  <2> QED
    BY <2>1 DEF Members
<1>4. c \notin Members(q) => q.m[c] = 0
  BY DEF Members
<1> QED
  BY <1>2, <1>3, <1>4 DEF Manual!InQueue

(* What the invariant says of the queue in either program. *)
LEMMA TimeQueue ==
  ASSUME TimeInv
  PROVE  /\ Indexed(q)
         /\ \A c \in Members(q) : mt[c].ch = "empty"
         /\ DueInv
         /\ TickTypes /\ TickInv
<1>1. program.source \in {"system", "manual"}
  BY TimeAssumption DEF TimeInv
<1>2. CASE ManualUnused
  BY <1>2 DEF ManualUnused, Queue, DueInv
<1>3. CASE ManualInv
  <2>1. \A c \in Members(q) : c \in Clients
    BY DEF Members
  <2>2. TickTypes
    BY <1>3 DEF ManualInv, Manual!TypeOK, TickTypes, TickSpace
  <2> QED
    BY <1>3, <2>1, <2>2 DEF ManualInv, Queue, ClientInv, ClientOK
<1> QED
  BY <1>1, <1>2, <1>3 DEF TimeInv

LEMMA WellFormed ==
  ASSUME TimeInv
  PROVE  TimersWellFormed
<1>1. program.source \in {"system", "manual"}
  BY TimeAssumption DEF TimeInv
<1>2. TypeOK
  BY <1>1 DEF TypeOK, TimeInv, ClockInv, SystemInv, ManualInv
<1>3. ASSUME program.source = "system" PROVE System!PooledClean
  <2>1. SystemInv
    BY <1>3 DEF TimeInv
  <2>2. NoTimer \notin TimeTimers /\ pool \subseteq TimeTimers
    BY <2>1, TimeAssumption DEF SystemInv, System!TypeOK
  <2>3. \A c \in Clients : obj[c].timer \notin pool
    <3> TAKE c \in Clients
    <3>1. CASE obj[c].timer = NoTimer
      BY <2>2, <3>1
    <3>2. CASE obj[c].timer # NoTimer
      BY <2>1, <3>2 DEF SystemInv, ObjOK
    <3> QED
      BY <3>1, <3>2
  <2>4. ASSUME NEW t \in pool \cup {obj[c].timer : c \in {x \in Clients : pc[x] = "arm"}}
        PROVE  Clean(t)
    <3>1. CASE t \in pool
      BY <2>1, <2>2, <3>1 DEF SystemInv, TimerOK
    <3>2. CASE t \notin pool
      <4>1. PICK c \in Clients : pc[c] = "arm" /\ t = obj[c].timer
        BY <2>4, <3>2
      <4>2. ObjOK(c)
        BY <2>1 DEF SystemInv
      <4> QED
        BY <4>1, <4>2 DEF ObjOK
    <3> QED
      BY <3>1, <3>2
  <2>5. OneOwner
    BY <2>1 DEF SystemInv
  <2> QED
    BY <2>3, <2>4, <2>5 DEF System!PooledClean, Clean, OneOwner
<1>4. Manual!QueueIndexed
  BY TimeQueue, InQueueIndexed DEF Manual!QueueIndexed
<1>5. Manual!AdvanceNeverBlocks
  BY TimeQueue, InQueueIndexed DEF Manual!AdvanceNeverBlocks
<1> QED
  BY <1>2, <1>3, <1>4, <1>5 DEF TimersWellFormed

(* In every state a time.Timer that is pooled, or about to be set again,   *)
(* has no tick left over and one owner (timer.go, Stop and Reset); the     *)
(* index of manualTimerQueue says where each timer is in the heap; and     *)
(* AdvanceTo, with mu held, never sends to a channel that is nil or full.  *)
THEOREM TimersStayWellFormed == Spec => []TimersWellFormed
<1>1. TimeInv => TimersWellFormed
  BY WellFormed
<1> QED
  BY <1>1, TimeInvariance, PTL

(* No timer of manual time is due when mu is free: AdvanceTo has fired     *)
(* those whose time it passed, and those that were being reset meanwhile   *)
(* fire at once (manual_time.go, AdvanceTo and Reset).                     *)
THEOREM DueHaveFired == Spec => []FiredByReturn
<1>1. ASSUME TimeInv PROVE FiredByReturn
  BY <1>1, TimeQueue, InQueueIndexed DEF FiredByReturn, Manual!FiredByReturn, DueInv, Settled
<1> QED
  BY <1>1, TimeInvariance, PTL

(* The ticks that a ticker of manual time has given, those in its channel  *)
(* and the next follow each other, one period apart, also when AdvanceTo   *)
(* panics at a full channel (manual_time.go, AdvanceTo).                   *)
THEOREM NoTickLost == Spec => []TicksComplete
<1>1. ASSUME TimeInv PROVE TicksComplete
  <2>1. \A k \in Tickers : tick[k] \in TickSpace /\ Chain(tick[k])
    BY <1>1, TimeQueue DEF TickTypes, TickInv
  <2> QED
    BY <2>1, ChainComplete DEF TicksComplete, Manual!TicksComplete
<1> QED
  BY <1>1, TimeInvariance, PTL

-----------------------------------------------------------------------------
(* What TimeMoves says of a step. *)
Reached == \A a \in Advancers :
              adv[a].at # "idle" /\ adv'[a].at = "idle" => now' >= adv[a].target

LEMMA ManualReached ==
  ASSUME ManualInv, ClockInv, Manual!Next
  PROVE  Reached
<1>1. /\ adv \in [Advancers -> [at : {"idle", "to", "timers", "tickers"},
                                target : 0..MaxTime, cur : Nat]]
      /\ now \in Nat
  BY ManualTyped
<1>2. \A a \in Advancers : adv[a].at = "tickers" => now >= adv[a].target
  BY DEF ManualInv, LockInv
<1>3. ASSUME UNCHANGED adv PROVE Reached
  BY <1>3 DEF Reached
<1>4. ASSUME NEW a \in Advancers, \A b \in Advancers \ {a} : adv'[b] = adv[b],
             adv[a].at = "idle" \/ adv'[a].at # "idle" \/ now' >= adv[a].target
      PROVE  Reached
  BY <1>4 DEF Reached
<1>5. ASSUME NEW a \in Advancers, AdvanceStep(a) PROVE Reached
  <2>1. CASE Manual!Advance(a)
    <3>1. adv[a].at = "idle" /\ \A b \in Advancers \ {a} : adv'[b] = adv[b]
      BY <1>1, <2>1 DEF Manual!Advance
    <3> QED
      BY <1>4, <3>1
  <2>2. CASE Manual!AdvanceTo(a)
    <3>1. \A b \in Advancers \ {a} : adv'[b] = adv[b]
      BY <1>1, <2>2 DEF Manual!AdvanceTo
    <3>2. CASE adv[a].target <= now /\ now' = now
      <4>1. adv[a].target \in Nat
        BY <1>1
      <4> QED
        BY <1>1, <1>4, <3>1, <3>2, <4>1
    <3>3. CASE adv' = [adv EXCEPT ![a].at = "timers"]
      <4>1. adv'[a].at = "timers"
        BY <1>1, <3>3
      <4> QED
        BY <1>4, <3>1, <4>1
    <3> QED
      BY <2>2, <3>2, <3>3 DEF Manual!AdvanceTo
  <2>3. CASE Manual!TimersFired(a)
    <3>1. adv'[a].at = "tickers" /\ \A b \in Advancers \ {a} : adv'[b] = adv[b]
      BY <1>1, <2>3 DEF Manual!TimersFired
    <3> QED
      BY <1>4, <3>1
  <2>4. CASE Manual!NextTicker(a)
    <3>1. adv'[a].at = "tickers" /\ \A b \in Advancers \ {a} : adv'[b] = adv[b]
      BY <1>1, <2>4 DEF Manual!NextTicker
    <3> QED
      BY <1>4, <3>1
  <2>5. CASE Manual!TickPanic(a) \/ Manual!AdvanceReturn(a)
    <3>1. adv[a].at = "tickers" /\ now' = now /\ \A b \in Advancers \ {a} : adv'[b] = adv[b]
      BY <1>1, <2>5, SMTT(20) DEF Manual!TickPanic, Manual!AdvanceReturn
    <3> QED
      BY <1>2, <1>4, <3>1
  <2> QED
    BY <1>5, <2>1, <2>2, <2>3, <2>4, <2>5 DEF AdvanceStep
<1>6. ASSUME NEW a \in Advancers, Manual!FireTimer(a) \/ Manual!SendTick(a) PROVE UNCHANGED adv
  BY <1>6 DEF Manual!FireTimer, Manual!SendTick
<1> QED
  BY <1>3, <1>5, <1>6, ManualSteps, ClientStepKeeps, TickerStepKeeps

LEMMA SystemTime ==
  ASSUME ClockInv, System!Next
  PROVE  now' >= now
<1>1. now \in Nat
  BY TimeAssumption DEF ClockInv
<1>2. now' = now + 1 \/ now' = now
  BY SystemSteps, Zenon DEF System!Pass, System!Expire, System!Send, System!NewTimer, System!ResetFirst,
     System!ResetStop, System!ResetDrain, System!ResetArm, System!Receive, System!Stop
<1> QED
  BY <1>1, <1>2

(* Manual time never goes back, and an AdvanceTo that is done has reached  *)
(* its argument, whatever the others did (manual_time.go, AdvanceTo).      *)
THEOREM TimeGoesForward == Spec => TimeMoves
<1> DEFINE Moved == now' >= now /\ Reached
<1>1. TimeInv /\ [Next]_vars => Moved \/ UNCHANGED Manual!vars
  <2> SUFFICES ASSUME TimeInv, [Next]_vars PROVE Moved \/ UNCHANGED Manual!vars
    OBVIOUS
  <2>1. ClockInv
    BY DEF TimeInv
  <2>2. CASE UNCHANGED vars
    BY <2>2 DEF vars, Manual!vars
  <2>3. CASE program.source = "system" /\ System!Next /\ adv' = adv
    BY <2>1, <2>3, SystemTime DEF Reached
  <2>4. CASE program.source = "manual" /\ Manual!Next
    <3>1. ManualInv
      BY <2>4 DEF TimeInv
    <3> QED
      BY <2>1, <2>4, <3>1, TimeForward, ManualReached
  <2> QED
    BY <2>2, <2>3, <2>4 DEF Next
<1>2. TimeInv /\ [Next]_vars =>
        [now' >= now /\ \A a \in Advancers :
            adv[a].at # "idle" /\ adv'[a].at = "idle" => now' >= adv[a].target]_(Manual!vars)
  BY <1>1 DEF Reached
<1> QED
  BY <1>2, TimeInvariance, PTL DEF Spec, TimeMoves, Manual!TimeMoves

-----------------------------------------------------------------------------
(* The contract: what a client sees of its timer. *)
Shown(state, due, began) == [state |-> state, due |-> due, began |-> began]

SystemShows(c) ==
    IF obj[c].timer = NoTimer THEN Shown("off", 0, 0)
    ELSE IF pc[c] \in {"drain", "arm"} THEN Shown("resetting", 0, obj[c].began)
    ELSE Shown(IF obj[c].read THEN "read"
               ELSE IF rt[obj[c].timer].active THEN "armed" ELSE "ticked",
               rt[obj[c].timer].at, 0)

ManualShows(c) ==
    IF pc[c] \in {"now", "add"} THEN Shown("resetting", 0, mt[c].began)
    ELSE Shown(IF mt[c].ch = "nil" THEN "off"
               ELSE IF c \in Members(q) THEN "armed"
               ELSE IF mt[c].ch = "full" THEN "ticked" ELSE "read",
               mt[c].at, 0)

(* No case of the view overlaps another, for a client in Reset has a timer. *)
LEMMA SystemViewShows ==
  ASSUME SystemInv
  PROVE  System!View = [c \in Clients |-> SystemShows(c)]
<1>1. ASSUME NEW c \in Clients PROVE System!View[c] = SystemShows(c)
  <2>1. CASE obj[c].timer = NoTimer /\ pc[c] \notin {"drain", "arm"}
    BY <2>1 DEF System!View, SystemShows, Shown, System!TimerOf
  <2>2. CASE obj[c].timer # NoTimer /\ pc[c] \in {"drain", "arm"}
    BY <2>2 DEF System!View, SystemShows, Shown, System!TimerOf
  <2>3. CASE obj[c].timer # NoTimer /\ pc[c] \notin {"drain", "arm"}
    BY <2>3 DEF System!View, SystemShows, Shown, System!TimerOf
  <2>4. obj[c].timer = NoTimer => pc[c] \notin {"drain", "arm"}
    BY DEF SystemInv, ObjOK
  <2> QED
    BY <2>1, <2>2, <2>3, <2>4
<1>2. System!View = [c \in Clients |-> System!View[c]]
  BY DEF System!View
<1> QED
  BY <1>1, <1>2

LEMMA ManualViewShows ==
  ASSUME Indexed(q)
  PROVE  Manual!View = [c \in Clients |-> ManualShows(c)]
<1>1. ASSUME NEW c \in Clients PROVE Manual!View[c] = ManualShows(c)
  <2>1. Manual!InQueue(c) <=> c \in Members(q)
    BY InQueueIndexed
  <2> QED
    BY <2>1 DEF Manual!View, ManualShows, Shown
<1>2. Manual!View = [c \in Clients |-> Manual!View[c]]
  BY DEF Manual!View
<1> QED
  BY <1>1, <1>2

Shows(c) == IF program.source = "system" THEN SystemShows(c) ELSE ManualShows(c)

LEMMA ViewShows == TimeInv => View = [c \in Clients |-> Shows(c)]
<1> SUFFICES ASSUME TimeInv PROVE View = [c \in Clients |-> Shows(c)]
  OBVIOUS
<1>1. CASE program.source = "system"
  <2>1. \A c \in Clients : Shows(c) = SystemShows(c)
    BY <1>1 DEF Shows
  <2> QED
    BY <1>1, <2>1, SystemViewShows DEF View, TimeInv
<1>2. CASE program.source # "system"
  <2>1. \A c \in Clients : Shows(c) = ManualShows(c)
    BY <1>2 DEF Shows
  <2> QED
    BY <1>2, <2>1, TimeQueue, ManualViewShows DEF View
<1> QED
  BY <1>1, <1>2

LEMMA ViewShowsNext == TimeInv' => (View = [c \in Clients |-> Shows(c)])'
BY ViewShows, PTL

(* What one client sees changes, or nothing that any client sees. *)
Turned(c, w) == Shows(c)' = w /\ \A x \in Clients \ {c} : Shows(x)' = Shows(x)

LEMMA Becoming ==
  ASSUME TimeInv, TimeInv'
  PROVE  /\ \A c \in Clients : View[c] = Shows(c)
         /\ \A c \in Clients : \A w : Turned(c, w) => View' = [View EXCEPT ![c] = w]
         /\ (\A c \in Clients : Shows(c)' = Shows(c)) => View' = View
<1>1. TimeInv' => View' = [c \in Clients |-> Shows(c)']
  BY ViewShowsNext
<1>2. View = [c \in Clients |-> Shows(c)]
  BY ViewShows
<1> QED
  BY <1>1, <1>2 DEF Turned

LEMMA ShownFields ==
  ASSUME NEW s, NEW d, NEW b, NEW s2
  PROVE  /\ Shown(s, d, b).state = s /\ Shown(s, d, b).due = d /\ Shown(s, d, b).began = b
         /\ [Shown(s, d, b) EXCEPT !.state = s2] = Shown(s2, d, b)
BY DEF Shown

(* A step of the contract, from what the client sees before and after.     *)
LEMMA ContractReset ==
  ASSUME TimeInv, TimeInv', NEW c \in Clients, UNCHANGED <<now, answer>>,
         NEW d \in Durations, NEW t \in 0..now, NEW s \in {"armed", "ticked"},
         \/ Shows(c).state = "off" /\ t = now
         \/ Shows(c).state = "resetting" /\ Shows(c).began \in 0..now /\ t >= Shows(c).began,
         s = "ticked" => t + d <= now,
         Turned(c, Shown(s, t + d, 0))
  PROVE  Contract!Reset(c)
<1>1. View[c] = Shows(c) /\ View' = [View EXCEPT ![c] = Shown(s, t + d, 0)]
  BY Becoming
<1>2. now \in Nat
  BY TimeAssumption DEF TimeInv, ClockInv
<1>3. t \in (IF View[c].state = "resetting" THEN View[c].began ELSE now)..now
  BY <1>1, <1>2
<1>4. View[c].state \in {"off", "resetting"}
  BY <1>1
<1>5. Contract!Become(c, [state |-> s, due |-> t + d, began |-> 0])
  BY <1>1 DEF Contract!Become, Shown
<1> QED
  BY <1>3, <1>4, <1>5 DEF Contract!Reset

LEMMA ContractResetBegin ==
  ASSUME TimeInv, TimeInv', NEW c \in Clients, UNCHANGED <<now, answer>>,
         Shows(c).state \in {"off", "armed", "ticked", "read"},
         Turned(c, Shown("resetting", 0, now))
  PROVE  Contract!ResetBegin(c)
<1>1. View[c] = Shows(c) /\ View' = [View EXCEPT ![c] = Shown("resetting", 0, now)]
  BY Becoming
<1> QED
  BY <1>1 DEF Contract!ResetBegin, Contract!Become, Shown

LEMMA ContractTick ==
  ASSUME TimeInv, TimeInv', NEW c \in Clients, UNCHANGED <<now, answer>>, NEW d,
         Shows(c) = Shown("armed", d, 0), d <= now, Turned(c, Shown("ticked", d, 0))
  PROVE  Contract!Tick(c)
<1>1. View[c] = Shown("armed", d, 0) /\ View' = [View EXCEPT ![c] = Shown("ticked", d, 0)]
  BY Becoming
<1>2. View[c].state = "armed" /\ View[c].due = d
      /\ [View[c] EXCEPT !.state = "ticked"] = Shown("ticked", d, 0)
  BY <1>1, ShownFields
<1> QED
  BY <1>1, <1>2 DEF Contract!Tick, Contract!Become

LEMMA ContractReceive ==
  ASSUME TimeInv, TimeInv', NEW c \in Clients, UNCHANGED <<now, answer>>, NEW d,
         Shows(c) = Shown("ticked", d, 0), Turned(c, Shown("read", d, 0))
  PROVE  Contract!Receive(c)
<1>1. View[c] = Shown("ticked", d, 0) /\ View' = [View EXCEPT ![c] = Shown("read", d, 0)]
  BY Becoming
<1>2. View[c].state = "ticked" /\ [View[c] EXCEPT !.state = "read"] = Shown("read", d, 0)
  BY <1>1, ShownFields
<1> QED
  BY <1>1, <1>2 DEF Contract!Receive, Contract!Become

LEMMA ContractStop ==
  ASSUME TimeInv, TimeInv', NEW c \in Clients, UNCHANGED now,
         Shows(c).state # "resetting", NEW r \in BOOLEAN, r <=> Shows(c).state = "armed",
         answer' = [answer EXCEPT ![c] = r],
         Turned(c, Shown("off", 0, 0))
  PROVE  Contract!Stop(c)
<1>1. View[c] = Shows(c) /\ View' = [View EXCEPT ![c] = Shown("off", 0, 0)]
  BY Becoming
<1>2. r = (View[c].state = "armed")
  BY <1>1
<1>3. answer' = [answer EXCEPT ![c] = View[c].state = "armed"]
  BY <1>2
<1> QED
  BY <1>1, <1>3 DEF Contract!Stop, Contract!Become, Shown

LEMMA ContractNewTimer ==
  ASSUME TimeInv, TimeInv', NEW c \in Clients, UNCHANGED now,
         Shows(c).state = "off", answer' = [answer EXCEPT ![c] = FALSE],
         \A x \in Clients : Shows(x)' = Shows(x)
  PROVE  Contract!NewTimer(c)
BY Becoming DEF Contract!NewTimer

LEMMA ContractPass ==
  ASSUME TimeInv, TimeInv', now' > now, UNCHANGED answer,
         \A x \in Clients : Shows(x)' = Shows(x)
  PROVE  Contract!Pass
<1>1. now \in Nat /\ now' \in 0..MaxTime
  BY TimeAssumption DEF TimeInv, ClockInv
<1>2. View' = View
  BY Becoming
<1>3. now' \in now + 1 .. MaxTime
  BY <1>1
<1> QED
  BY <1>2, <1>3 DEF Contract!Pass

LEMMA ContractStutter ==
  ASSUME TimeInv, TimeInv', UNCHANGED <<now, answer>>, \A x \in Clients : Shows(x)' = Shows(x)
  PROVE  UNCHANGED Contract!vars
BY Becoming DEF Contract!vars

-----------------------------------------------------------------------------
(* The steps of the system's timers, as the client sees them.              *)
SystemTurned(c, w) == SystemShows(c)' = w /\ \A x \in Clients \ {c} : SystemShows(x)' = SystemShows(x)

LEMMA OthersSee ==
  ASSUME NEW c \in Clients, OneChanged(c), NEW x \in Clients \ {c}
  PROVE  SystemShows(x)' = SystemShows(x)
BY DEF OneChanged, SystemShows, Shown

LEMMA SystemContract ==
  ASSUME TimeInv, TimeInv', program.source = "system", program' = program, System!Next
  PROVE  [Contract!Next]_(Contract!vars)
<1> USE DEF Contract!Next
<1>1. SystemInv /\ ClockInv /\ now \in Nat /\ NoTimer \notin TimeTimers
  BY SystemTyped DEF TimeInv
<1>2. \A c \in Clients : Shows(c) = SystemShows(c) /\ Shows(c)' = SystemShows(c)'
  BY DEF Shows
<1>3. \A c \in Clients : \A w : SystemTurned(c, w) => Turned(c, w)
  BY <1>2 DEF SystemTurned, Turned
<1>4. \A c \in Clients : ObjOK(c)
  BY <1>1 DEF SystemInv
<1>5. CASE System!Pass
  <2>1. now' = now + 1 /\ UNCHANGED <<pc, answer, obj, rt, pool>>
    BY <1>5 DEF System!Pass, System!sysVars
  <2>2. \A x \in Clients : Shows(x)' = Shows(x)
    BY <1>2, <2>1 DEF SystemShows
  <2> QED
    BY <1>1, <2>1, <2>2, ContractPass
<1>6. ASSUME NEW t \in TimeTimers, System!Expire(t) PROVE Contract!Next
  <2>1. /\ rt[t].active /\ rt[t].at <= now /\ UNCHANGED <<now, pc, answer, obj, pool>>
    BY <1>6 DEF System!Expire
  <2>2. PICK c \in Clients : obj[c].timer = t /\ pc[c] = "idle"
    BY <1>1, <2>1 DEF SystemInv, TimerOK
  <2>3. rt'[t].at = rt[t].at /\ ~rt'[t].active /\ \A s \in TimeTimers \ {t} : rt'[s] = rt[s]
    BY <1>1, <1>6, RuntimeStep
  <2>4. ~obj[c].read /\ t # NoTimer
    BY <1>1, <1>4, <2>1, <2>2 DEF ObjOK, Clean
  <2>5. SystemShows(c) = Shown("armed", rt[t].at, 0)
    BY <2>1, <2>2, <2>4 DEF SystemShows
  <2>6. SystemShows(c)' = Shown("ticked", rt[t].at, 0)
    BY <2>1, <2>2, <2>3, <2>4 DEF SystemShows
  <2>7. OneChanged(c)
    BY <1>1, <2>1, <2>2, <2>3, <2>4, OwnChange
  <2>8. Turned(c, Shown("ticked", rt[t].at, 0))
    BY <1>3, <2>6, <2>7, OthersSee DEF SystemTurned
  <2> QED
    BY <1>2, <2>1, <2>5, <2>8, ContractTick
<1>7. ASSUME NEW t \in TimeTimers, System!Send(t) PROVE UNCHANGED Contract!vars
  <2>1. rt[t].sending /\ UNCHANGED <<now, pc, answer, obj, pool>>
    BY <1>7 DEF System!Send
  <2>2. rt'[t].at = rt[t].at /\ ~rt'[t].active /\ \A s \in TimeTimers \ {t} : rt'[s] = rt[s]
    BY <1>1, <1>7, RuntimeStep
  <2>3. ~rt[t].active
    BY <1>1, <2>1 DEF SystemInv, TimerOK
  <2>4. \A x \in Clients : Shows(x)' = Shows(x)
    <3> TAKE x \in Clients
    <3>1. obj[x].timer # NoTimer => obj[x].timer \in TimeTimers
      BY <1>1, SystemTyped DEF ObjSpace
    <3>2. obj[x].timer # NoTimer => /\ rt'[obj[x].timer].at = rt[obj[x].timer].at
                                    /\ rt'[obj[x].timer].active <=> rt[obj[x].timer].active
      BY <2>2, <2>3, <3>1
    <3> QED
      BY <1>2, <2>1, <3>2 DEF SystemShows
  <2> QED
    BY <2>1, <2>4, ContractStutter
<1>8. ASSUME NEW c \in Clients, System!NewTimer(c) PROVE Contract!Next
  <2>1. /\ pc[c] = "none" /\ pc' = [pc EXCEPT ![c] = "idle"]
        /\ answer' = [answer EXCEPT ![c] = FALSE]
        /\ UNCHANGED <<now, obj, rt, pool>>
    BY <1>8 DEF System!NewTimer, System!sysVars
  <2>2. obj[c].timer = NoTimer
    BY <1>4, <2>1 DEF ObjOK
  <2>3. \A x \in Clients \ {c} : pc'[x] = pc[x]
    BY <1>1, <2>1, SystemTyped
  <2>4. \A x \in Clients : Shows(x)' = Shows(x)
    BY <1>2, <2>1, <2>2, <2>3 DEF SystemShows
  <2>5. Shows(c).state = "off"
    BY <1>2, <2>2, ShownFields DEF SystemShows
  <2> QED
    BY <2>1, <2>4, <2>5, ContractNewTimer
<1>9. ASSUME NEW c \in Clients, System!ResetStop(c) PROVE Contract!Next
  <2>1. /\ OneChanged(c) /\ obj'[c].timer # NoTimer /\ obj'[c].began = now
        /\ pc'[c] \in {"drain", "arm"}
    BY <1>1, <1>9, SystemResetStopStep
  <2>2. pc[c] = "idle" /\ UNCHANGED <<now, answer>>
    BY <1>9 DEF System!ResetStop
  <2>3. SystemShows(c)' = Shown("resetting", 0, now)
    BY <2>1 DEF SystemShows
  <2>4. Turned(c, Shown("resetting", 0, now))
    BY <1>3, <2>1, <2>3, OthersSee DEF SystemTurned
  <2>5. Shows(c).state \in {"off", "armed", "ticked", "read"}
    BY <1>2, <2>2, ShownFields DEF SystemShows
  <2> QED
    BY <2>2, <2>4, <2>5, ContractResetBegin
<1>10. ASSUME NEW c \in Clients, System!ResetDrain(c) PROVE UNCHANGED Contract!vars
  <2>1. /\ OneChanged(c) /\ obj' = obj /\ obj[c].timer # NoTimer
        /\ pc[c] = "drain" /\ pc'[c] = "arm"
    BY <1>1, <1>10, SystemResetDrainStep
  <2>2. UNCHANGED <<now, answer>>
    BY <1>10 DEF System!ResetDrain
  <2>3. SystemShows(c)' = SystemShows(c)
    BY <2>1 DEF SystemShows
  <2>4. \A x \in Clients : Shows(x)' = Shows(x)
    BY <1>2, <2>1, <2>3, OthersSee
  <2> QED
    BY <2>2, <2>4, ContractStutter
<1>11. ASSUME NEW c \in Clients, NEW d \in Durations, System!ResetArm(c, d) PROVE Contract!Next
  <2>1. /\ OneChanged(c)
        /\ obj'[c].timer # NoTimer /\ obj'[c].timer = obj[c].timer /\ ~obj'[c].read
        /\ pc[c] = "arm" /\ pc'[c] = "idle"
        /\ rt'[obj'[c].timer].active /\ rt'[obj'[c].timer].at = now + d
    BY <1>1, <1>11, SystemResetArmStep
  <2>2. UNCHANGED <<now, answer>>
    BY <1>11 DEF System!ResetArm
  <2>3. SystemShows(c)' = Shown("armed", now + d, 0)
    BY <2>1 DEF SystemShows
  <2>4. Turned(c, Shown("armed", now + d, 0))
    BY <1>3, <2>1, <2>3, OthersSee DEF SystemTurned
  <2>5. Shows(c).state = "resetting" /\ Shows(c).began = obj[c].began
    BY <1>2, <2>1, ShownFields DEF SystemShows
  <2>6. obj[c].began \in 0..MaxTime /\ obj[c].began <= now
    BY <1>1, <1>4, SystemTyped DEF ObjOK, ObjSpace
  <2>7. now \in 0..now /\ obj[c].began \in 0..now /\ now >= obj[c].began
    BY <1>1, <2>6
  <2> QED
    BY <2>2, <2>4, <2>5, <2>7, ContractReset
<1>12. ASSUME NEW c \in Clients, NEW d \in Durations, System!ResetFirst(c, d) PROVE Contract!Next
  <2>1. /\ OneChanged(c)
        /\ obj[c].timer = NoTimer /\ obj'[c].timer # NoTimer /\ ~obj'[c].read
        /\ pc[c] = "idle" /\ pc'[c] = "idle"
        /\ rt'[obj'[c].timer].active /\ rt'[obj'[c].timer].at = now + d
    BY <1>1, <1>12, SystemResetFirstStep
  <2>2. UNCHANGED <<now, answer>>
    BY <1>12 DEF System!ResetFirst
  <2>3. SystemShows(c)' = Shown("armed", now + d, 0)
    BY <2>1 DEF SystemShows
  <2>4. Turned(c, Shown("armed", now + d, 0))
    BY <1>3, <2>1, <2>3, OthersSee DEF SystemTurned
  <2>5. Shows(c).state = "off"
    BY <1>2, <2>1, ShownFields DEF SystemShows
  <2>6. now \in 0..now
    BY <1>1
  <2> QED
    BY <2>2, <2>4, <2>5, <2>6, ContractReset
<1>13. ASSUME NEW c \in Clients, System!Receive(c) PROVE Contract!Next
  <2> DEFINE d == rt[obj[c].timer].at
  <2>1. /\ OneChanged(c)
        /\ obj[c].timer # NoTimer /\ ~obj[c].read /\ ~rt[obj[c].timer].active /\ pc[c] = "idle"
        /\ obj'[c].timer = obj[c].timer /\ obj'[c].read /\ pc'[c] = pc[c]
        /\ rt'[obj[c].timer].at = d
    BY <1>1, <1>13, SystemReceiveStep
  <2>2. UNCHANGED <<now, answer>>
    BY <1>13 DEF System!Receive
  <2>3. SystemShows(c) = Shown("ticked", d, 0)
    BY <2>1 DEF SystemShows
  <2>4. SystemShows(c)' = Shown("read", d, 0)
    BY <2>1 DEF SystemShows
  <2>5. Turned(c, Shown("read", d, 0))
    BY <1>3, <2>1, <2>4, OthersSee DEF SystemTurned
  <2> HIDE DEF d
  <2> QED
    BY <1>2, <2>2, <2>3, <2>5, ContractReceive
<1>14. ASSUME NEW c \in Clients, System!Stop(c) PROVE Contract!Next
  <2> DEFINE r == obj[c].timer # NoTimer /\ rt[obj[c].timer].active
  <2>1. OneChanged(c) /\ pc[c] = "idle" /\ obj'[c].timer = NoTimer
    BY <1>1, <1>14, SystemStopStep
  <2>2. now' = now /\ answer' = [answer EXCEPT ![c] = r]
    BY <1>14 DEF System!Stop
  <2>3. SystemShows(c)' = Shown("off", 0, 0)
    BY <2>1 DEF SystemShows
  <2>4. Turned(c, Shown("off", 0, 0))
    BY <1>3, <2>1, <2>3, OthersSee DEF SystemTurned
  <2>5. Shows(c).state # "resetting"
    BY <1>2, <2>1, ShownFields DEF SystemShows
  <2>6. r => ~obj[c].read
    BY <1>4, <2>1 DEF ObjOK, Clean
  <2>7. r <=> Shows(c).state = "armed"
    BY <1>2, <2>1, <2>6, ShownFields DEF SystemShows
  <2>8. r \in BOOLEAN
    OBVIOUS
  <2> HIDE DEF r
  <2> QED
    BY <2>2, <2>4, <2>5, <2>7, <2>8, ContractStop
<1> QED
  BY <1>5, <1>6, <1>7, <1>8, <1>9, <1>10, <1>11, <1>12, <1>13, <1>14, SystemSteps

-----------------------------------------------------------------------------
(* The steps of manual time, as the client sees them.                      *)
ManualTurned(c, w) == ManualShows(c)' = w /\ \A x \in Clients \ {c} : ManualShows(x)' = ManualShows(x)

LEMMA OthersSeeManual ==
  ASSUME NEW c \in Clients, Others(c), NEW x \in Clients \ {c}
  PROVE  ManualShows(x)' = ManualShows(x)
BY DEF Others, ManualShows, Shown

LEMMA ManualContract ==
  ASSUME TimeInv, TimeInv', program.source = "manual", program' = program, Manual!Next
  PROVE  [Contract!Next]_(Contract!vars)
<1> USE DEF Contract!Next
<1>1. ManualInv /\ ClockInv /\ now \in Nat
  BY ManualTyped DEF TimeInv
<1>2. \A c \in Clients : Shows(c) = ManualShows(c) /\ Shows(c)' = ManualShows(c)'
  BY DEF Shows
<1>3. \A c \in Clients : \A w : ManualTurned(c, w) => Turned(c, w)
  BY <1>2 DEF ManualTurned, Turned
<1>4. \A c \in Clients : ClientOK(c)
  BY <1>1 DEF ManualInv, ClientInv
<1>5. ASSUME UNCHANGED <<pc, answer, mt, q>>
      PROVE  answer' = answer /\ \A x \in Clients : Shows(x)' = Shows(x)
  <2>1. \A x \in Clients : ManualShows(x)' = ManualShows(x)
    BY <1>5 DEF ManualShows
  <2> QED
    BY <1>2, <1>5, <2>1
<1>6. ASSUME UNCHANGED <<pc, answer, mt, q>> PROVE [Contract!Next]_(Contract!vars)
  <2>1. now' >= now /\ now' \in 0..MaxTime
    BY <1>1, TimeForward
  <2>2. now' = now \/ now' > now
    BY <1>1, <2>1
  <2> QED
    BY <1>5, <1>6, <2>2, ContractPass, ContractStutter
<1>7. ASSUME NEW a \in Advancers, Manual!FireTimer(a) PROVE Contract!Next
  <2>1. UNCHANGED <<now, pc, answer>>
    BY <1>7 DEF Manual!FireTimer
  <2>2. PICK c \in Members(q) :
            /\ c \in Clients /\ mt[c].at <= now
            /\ Others(c) /\ c \notin Members(q')
            /\ Altered(c, mt[c].at, "full", mt[c].began)
    BY <1>1, <1>7, FireTimerStep
  <2>3. pc[c] = "idle" /\ mt[c].ch = "empty"
    BY <1>4, <2>2 DEF ClientOK
  <2>4. Shows(c) = Shown("armed", mt[c].at, 0)
    BY <1>2, <2>2, <2>3 DEF ManualShows
  <2>5. mt'[c].at = mt[c].at /\ mt'[c].ch = "full"
    BY <2>2 DEF Altered
  <2>6. ManualShows(c)' = Shown("ticked", mt[c].at, 0)
    BY <2>1, <2>2, <2>3, <2>5 DEF ManualShows
  <2>7. Turned(c, Shown("ticked", mt[c].at, 0))
    BY <1>3, <2>2, <2>6, OthersSeeManual DEF ManualTurned
  <2> QED
    BY <2>1, <2>2, <2>4, <2>7, ContractTick
<1>8. ASSUME NEW c \in Clients, Manual!NewTimer(c) PROVE Contract!Next
  <2>1. /\ pc[c] = "none" /\ pc' = [pc EXCEPT ![c] = "idle"]
        /\ answer' = [answer EXCEPT ![c] = FALSE]
        /\ UNCHANGED <<now, mt, q>>
    BY <1>8 DEF Manual!NewTimer, Manual!manVars
  <2>2. mt[c].ch = "nil"
    BY <1>4, <2>1 DEF ClientOK, Manual!Blank
  <2>3. pc'[c] = "idle" /\ \A x \in Clients \ {c} : pc'[x] = pc[x]
    BY <1>1, <2>1, PcChange
  <2>4. ManualShows(c)' = ManualShows(c)
    BY <2>1, <2>2, <2>3 DEF ManualShows
  <2>5. \A x \in Clients \ {c} : ManualShows(x)' = ManualShows(x)
    BY <2>1, <2>3 DEF ManualShows
  <2>6. \A x \in Clients : Shows(x)' = Shows(x)
    BY <1>2, <2>4, <2>5
  <2>7. Shows(c).state = "off"
    BY <1>2, <2>1, <2>2, ShownFields DEF ManualShows
  <2> QED
    BY <2>1, <2>6, <2>7, ContractNewTimer
<1>9. ASSUME NEW c \in Clients, Manual!ResetStop(c) PROVE Contract!Next
  <2>1. /\ pc[c] = "idle" /\ pc' = [pc EXCEPT ![c] = "now"]
        /\ mt' = [mt EXCEPT ![c] = [Manual!Blank EXCEPT !.began = now]]
        /\ UNCHANGED <<now, answer>>
    BY <1>9 DEF Manual!ResetStop
  <2>2. Others(c)
    BY <1>1, <1>9, ResetStopStep
  <2>3. pc'[c] = "now"
    BY <1>1, <2>1, PcChange
  <2>4. mt'[c].began = now
    BY <1>1, <2>1, ManualTyped DEF Manual!Blank
  <2>5. ManualShows(c)' = Shown("resetting", 0, now)
    BY <2>3, <2>4 DEF ManualShows
  <2>6. Turned(c, Shown("resetting", 0, now))
    BY <1>3, <2>2, <2>5, OthersSeeManual DEF ManualTurned
  <2>7. Shows(c).state \in {"off", "armed", "ticked", "read"}
    BY <1>2, <2>1, ShownFields DEF ManualShows
  <2> QED
    BY <2>1, <2>6, <2>7, ContractResetBegin
<1>10. ASSUME NEW c \in Clients, NEW d \in Durations, Manual!ResetNow(c, d)
       PROVE  UNCHANGED Contract!vars
  <2>1. /\ pc[c] = "now" /\ pc' = [pc EXCEPT ![c] = "add"]
        /\ mt' = [mt EXCEPT ![c].at = now + d, ![c].ch = "empty"]
        /\ UNCHANGED <<now, answer>>
    BY <1>10 DEF Manual!ResetNow
  <2>2. Others(c)
    BY <1>1, <1>10, ResetNowStep
  <2>3. pc'[c] = "add"
    BY <1>1, <2>1, PcChange
  <2>4. mt'[c].began = mt[c].began
    BY <1>1, <2>1, ManualTyped
  <2>5. ManualShows(c)' = ManualShows(c)
    BY <2>1, <2>3, <2>4 DEF ManualShows
  <2>6. \A x \in Clients : Shows(x)' = Shows(x)
    BY <1>2, <2>2, <2>5, OthersSeeManual
  <2> QED
    BY <2>1, <2>6, ContractStutter
<1>11. ASSUME NEW c \in Clients, Manual!ResetAdd(c) PROVE Contract!Next
  <2>1. pc[c] = "add" /\ pc' = [pc EXCEPT ![c] = "idle"] /\ UNCHANGED <<now, answer>>
    BY <1>11 DEF Manual!ResetAdd
  <2>2. /\ Others(c) /\ mt'[c].at = mt[c].at
        /\ \/ mt[c].at <= now /\ mt'[c].ch = "full" /\ c \notin Members(q')
           \/ mt[c].at > now /\ mt'[c].ch = "empty" /\ c \in Members(q')
    BY <1>1, <1>11, ResetAddStep
  <2>3. pc'[c] = "idle"
    BY <1>1, <2>1, PcChange
  <2>4. PICK d \in Durations, t \in mt[c].began..now : mt[c].at = t + d
    BY <1>4, <2>1 DEF ClientOK
  <2>5. mt[c].began \in Nat /\ mt[c].began <= now
    <3>1. mt[c].began \in 0..MaxTime /\ MaxTime \in Nat
      BY <1>1, MtField, ManualTyped
    <3>2. mt[c].began <= now
      BY <1>4, <2>1 DEF ClientOK
    <3> QED
      BY <3>1, <3>2
  <2>6. t \in 0..now /\ mt[c].began \in 0..now /\ t >= mt[c].began
    BY <1>1, <2>4, <2>5
  <2>7. Shows(c).state = "resetting" /\ Shows(c).began = mt[c].began
    BY <1>2, <2>1, ShownFields DEF ManualShows
  <2>8. CASE mt[c].at <= now /\ mt'[c].ch = "full" /\ c \notin Members(q')
    <3>1. ManualShows(c)' = Shown("ticked", t + d, 0)
      BY <2>2, <2>3, <2>4, <2>8 DEF ManualShows
    <3>2. Turned(c, Shown("ticked", t + d, 0)) /\ t + d <= now
      BY <1>3, <2>2, <2>4, <2>8, <3>1, OthersSeeManual DEF ManualTurned
    <3> QED
      BY <2>1, <2>6, <2>7, <3>2, ContractReset
  <2>9. CASE mt'[c].ch = "empty" /\ c \in Members(q')
    <3>1. ManualShows(c)' = Shown("armed", t + d, 0)
      BY <2>2, <2>3, <2>4, <2>9 DEF ManualShows
    <3>2. Turned(c, Shown("armed", t + d, 0))
      BY <1>3, <2>2, <3>1, OthersSeeManual DEF ManualTurned
    <3> QED
      BY <2>1, <2>6, <2>7, <3>2, ContractReset
  <2> QED
    BY <2>2, <2>8, <2>9
<1>12. ASSUME NEW c \in Clients, Manual!Receive(c) PROVE Contract!Next
  <2>1. pc[c] = "idle" /\ mt[c].ch = "full" /\ UNCHANGED <<now, answer, pc>>
    BY <1>12 DEF Manual!Receive
  <2>2. /\ Others(c) /\ c \notin Members(q) /\ c \notin Members(q')
        /\ Altered(c, mt[c].at, "empty", mt[c].began)
    BY <1>1, <1>12, ReceiveStep
  <2>3. Shows(c) = Shown("ticked", mt[c].at, 0)
    BY <1>2, <2>1, <2>2 DEF ManualShows
  <2>4. mt'[c].at = mt[c].at /\ mt'[c].ch = "empty"
    BY <2>2 DEF Altered
  <2>5. ManualShows(c)' = Shown("read", mt[c].at, 0)
    BY <2>1, <2>2, <2>4 DEF ManualShows
  <2>6. Turned(c, Shown("read", mt[c].at, 0))
    BY <1>3, <2>2, <2>5, OthersSeeManual DEF ManualTurned
  <2> QED
    BY <2>1, <2>3, <2>6, ContractReceive
<1>13. ASSUME NEW c \in Clients, Manual!Stop(c) PROVE Contract!Next
  <2> DEFINE r == q.m[c] # 0
  <2>1. /\ pc[c] = "idle" /\ pc' = [pc EXCEPT ![c] = "none"]
        /\ mt' = [mt EXCEPT ![c] = Manual!Blank]
        /\ now' = now /\ answer' = [answer EXCEPT ![c] = r]
    BY <1>13 DEF Manual!Stop
  <2>2. Others(c)
    BY <1>1, <1>13, StopStep
  <2>3. pc'[c] = "none"
    BY <1>1, <2>1, PcChange
  <2>4. mt'[c].ch = "nil" /\ mt'[c].at = 0
    BY <1>1, <2>1, ManualTyped DEF Manual!Blank
  <2>5. ManualShows(c)' = Shown("off", 0, 0)
    BY <2>3, <2>4 DEF ManualShows
  <2>6. Turned(c, Shown("off", 0, 0))
    BY <1>3, <2>2, <2>5, OthersSeeManual DEF ManualTurned
  <2>7. Shows(c).state # "resetting"
    BY <1>2, <2>1, ShownFields DEF ManualShows
  <2>8. r <=> c \in Members(q)
    BY DEF Members
  <2>9. c \in Members(q) => mt[c].ch = "empty"
    BY <1>4 DEF ClientOK
  <2>10. r <=> Shows(c).state = "armed"
    BY <1>2, <2>1, <2>8, <2>9, ShownFields DEF ManualShows
  <2>11. r \in BOOLEAN
    OBVIOUS
  <2> HIDE DEF r
  <2> QED
    BY <2>1, <2>6, <2>7, <2>10, <2>11, ContractStop
<1>14. ASSUME NEW c \in Clients, ClientStep(c) PROVE [Contract!Next]_(Contract!vars)
  BY <1>8, <1>9, <1>10, <1>11, <1>12, <1>13, <1>14, Zenon DEF ClientStep
<1>15. ASSUME NEW a \in Advancers, Manual!SendTick(a) PROVE UNCHANGED <<pc, answer, mt, q>>
  BY <1>15 DEF Manual!SendTick
<1> QED
  BY <1>6, <1>7, <1>14, <1>15, ManualSteps, TickerStepKeeps, AdvanceStepKeeps

-----------------------------------------------------------------------------
LEMMA ContractStart ==
  ASSUME Init
  PROVE  Contract!Init
<1>1. /\ now = 0 /\ pc = [c \in Clients |-> "none"] /\ answer = [c \in Clients |-> FALSE]
      /\ System!Init /\ Manual!Init
  BY DEF Init
<1>2. TimeInv
  BY TimeStart
<1>3. ASSUME NEW c \in Clients PROVE SystemShows(c) = Shown("off", 0, 0)
  BY <1>1 DEF System!Init, System!Blank, SystemShows
<1>4. ASSUME NEW c \in Clients PROVE ManualShows(c) = Shown("off", 0, 0)
  BY <1>1 DEF Manual!Init, Manual!Blank, ManualShows
<1>5. View = [c \in Clients |-> Shown("off", 0, 0)]
  BY <1>2, <1>3, <1>4, ViewShows DEF Shows
<1> QED
  BY <1>1, <1>5 DEF Contract!Init, Shown

LEMMA ContractStep ==
  ASSUME TimeInv, TimeInv', [Next]_vars
  PROVE  [Contract!Next]_(Contract!vars)
<1>1. CASE UNCHANGED vars
  <2>1. UNCHANGED <<program, now, pc, answer, obj, rt, mt, q>>
    BY <1>1 DEF vars
  <2>2. \A x \in Clients : Shows(x)' = Shows(x)
    BY <2>1 DEF Shows, SystemShows, ManualShows
  <2> QED
    BY <2>1, <2>2, ContractStutter
<1>2. CASE Next
  BY <1>2, SystemContract, ManualContract DEF Next
<1> QED
  BY <1>1, <1>2

(* The timers of the system (timer.go, with the time.Timers of the runtime *)
(* behind it, pooled and used again) and those of manual time              *)
(* (manual_time.go) both implement the contract: one tick comes for a      *)
(* Reset, never early and never of an earlier Reset, and Stop says whether *)
(* it prevented it.                                                        *)
THEOREM BothKeepContract == Spec => KeepsContract
<1>1. Init => Contract!Init
  BY ContractStart
<1>2. TimeInv /\ TimeInv' /\ [Next]_vars => [Contract!Next]_(Contract!vars)
  BY ContractStep
<1> QED
  BY <1>1, <1>2, TimeInvariance, PTL DEF Spec, KeepsContract, Contract!Spec
======
